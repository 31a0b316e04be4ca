---------------------------- MODULE ArenaProofs ----------------------------
(***************************************************************************)
(* Proofs about Arena for any number of sweeps, runs, cleaners, names and  *)
(* presses of Ctrl-C, whatever the faults; a theorem that needs more of    *)
(* names, cleaners or deletions assumes it.                                *)
(***************************************************************************)
EXTENDS Arena, TLAPS

\* A run that is under way has a number and a name; one that has been graded
\* has a grade; what create_cluster's handler re-raises is an exception.
Running(r) == r.stage \notin {"probe", "next", "exited"}
Graded(r) == r.stage = "final" \/ (r.stage \in {"teardown", "land"} /\ r.exc = "none")
Complete(r) ==
    /\ r \in Records
    /\ Running(r) => r.name \in MintNames /\ r.run \in 1..Runs
    /\ Graded(r) => r.grade \in Grades
    /\ r.stage = "abort" => r.exc # "none"

\* The inductive invariant behind TypeOK.
Typed ==
    /\ TypeOK
    /\ \A p \in Sweeps : Complete(sweep[p])

-----------------------------------------------------------------------------
LEMMA ReachedIsAnOwner ==
    ASSUME Typed, NEW p \in Sweeps
    PROVE  Reached(p) \in Owners
  BY ClusterAssumption, SweepAssumption
     DEF Typed, TypeOK, Reached, Owners, Complete, Records, KindTypeOK

\* Whatever a sweep does next, its record is well-formed afterwards and the
\* other sweeps' records are untouched.
LEMMA SweepRecords ==
    ASSUME Typed, NEW p \in Sweeps, Step(p) \/ Interrupt(p)
    PROVE  \E r : Complete(r) /\ Becomes(p, r)
<1> DEFINE s == sweep[p]
<1>s. Complete(s)
  BY DEF Typed
<1> USE DEF Records, Running, Graded, Stages, Body, Grades, Results,
            Exceptions, At
<1>1. CASE Probe(p)
  <2>1. Complete([s EXCEPT !.stage = "exited", !.exc = "none"])
    BY <1>s DEF Complete
  <2>2. Complete([s EXCEPT !.stage = "next"])
    BY <1>s DEF Complete
  <2> QED BY <1>1, <2>1, <2>2 DEF Probe, Exit
<1>2. CASE StartRun(p)
  <2>1. s.run + 1 \in 1..Runs
    BY <1>s, <1>2, SweepAssumption DEF Complete, StartRun, MoreToRun
  <2>2. ASSUME NEW n \in MintNames, NEW k \in 1..Runs
        PROVE  Complete([s EXCEPT !.stage = "create", !.name = n,
                            !.run = k, !.grade = "none", !.evidence = {}])
    <3> DEFINE r == [s EXCEPT !.stage = "create", !.name = n,
                              !.run = k, !.grade = "none", !.evidence = {}]
    <3>1. k \in 0..Runs
      BY SweepAssumption
    <3>2. r \in Records
      BY <1>s, <3>1 DEF Complete
    <3>3. r.name = n /\ r.run = k /\ r.stage = "create"
      BY <1>s DEF Complete
    <3> QED BY <3>2, <3>3 DEF Complete
  <2> QED BY <1>2, <2>1, <2>2 DEF StartRun
<1>3. CASE NoSolution(p)
  BY <1>3, <1>s DEF Complete, NoSolution, Exit
<1>4. CASE Create(p)
  <2>1. ASSUME NEW e \in {"none", "ClusterError"}
        PROVE  Complete([s EXCEPT !.exc = e,
                    !.stage = IF e = "none" THEN "unarmed" ELSE "land"])
    BY <1>s, <1>4 DEF Complete, Create
  <2> QED BY <1>4, <2>1 DEF Create
<1>5. CASE Enter(p) \/ NoManifests(p)
  BY <1>5, <1>s DEF Complete, Enter, NoManifests
<1>b. ASSUME NEW from \in Body, NEW to \in Body \cup {"teardown"},
             NEW g \in Grades \cup {"none"}, Proceed(p, from, to, g),
             to \in {"final", "teardown"} => g \in Grades
      PROVE  \E r : Complete(r) /\ Becomes(p, r)
  <2>1. Complete([s EXCEPT !.stage = to, !.grade = g,
                           !.evidence = @ \cup {Reached(p)}])
    BY <1>s, <1>b, ReachedIsAnOwner DEF Complete, Proceed
  <2> QED BY <1>b, <2>1 DEF Proceed
<1>r. ASSUME NEW from \in Body, NEW e \in {"ClusterError", "Other"}, Raise(p, from, e)
      PROVE  \E r : Complete(r) /\ Becomes(p, r)
  BY <1>s, <1>r DEF Complete, Raise
<1>6. CASE Apply(p)
  BY <1>6, <1>b, <1>r DEF Apply
<1>7. CASE Baseline(p)
  BY <1>7, <1>b, <1>r DEF Baseline
<1>8. CASE Drive(p)
  BY <1>8, <1>b, <1>r DEF Drive
<1>9. CASE Grade(p)
  BY <1>9, <1>b, <1>r DEF Grade
<1>10. CASE Final(p)
  <2>1. Proceed(p, "final", "teardown", s.grade) => s.grade \in Grades
    BY <1>s DEF Complete, Proceed
  <2> QED BY <1>10, <2>1, <1>b, <1>r DEF Final
<1>11. CASE Teardown(p)
  <2>1. ASSUME NEW e \in {"none", "ClusterError", "Other"}
        PROVE  Complete([s EXCEPT !.stage = "land",
                                  !.exc = IF e = "none" THEN @ ELSE e])
    BY <1>s, <1>11 DEF Complete, Teardown
  <2>2. Complete([s EXCEPT !.stage = "land"])
    BY <1>s, <1>11 DEF Complete, Teardown
  <2> QED BY <1>11, <2>1, <2>2 DEF Teardown
<1>12. CASE Land(p)
  <2>1. (IF s.exc = "none" THEN s.grade ELSE "harness_error") \in Results
    BY <1>s, <1>12 DEF Complete, Land
  <2>2. ASSUME NEW l \in Results
        PROVE  Complete([s EXCEPT !.stage = "next", !.exc = "none",
                                  !.landed = Append(@, l)])
    <3>1. Append(s.landed, l) \in Seq(Results)
      BY <1>s DEF Complete
    <3> QED BY <1>s, <3>1 DEF Complete
  <2> QED BY <1>12, <2>1, <2>2 DEF Land
<1>13. CASE Unwind(p)
  BY <1>13, <1>s DEF Complete, Unwind, Exit
<1>14. CASE WriteResults(p)
  BY <1>14, <1>s DEF Complete, WriteResults
<1>15. CASE Interrupt(p)
  <2>1. ASSUME NEW to \in {"abort", "teardown", "land", "exited"},
               Running(s) \/ to = "exited"
        PROVE  Complete([s EXCEPT !.stage = to, !.exc = "KeyboardInterrupt",
                                  !.pressed = @ \cup {s.stage}])
    BY <1>s, <2>1 DEF Complete
  <2> QED BY <1>15, <2>1 DEF Interrupt
<1> QED BY <1>1, <1>2, <1>3, <1>4, <1>5, <1>6, <1>7, <1>8, <1>9, <1>10,
           <1>11, <1>12, <1>13, <1>14, <1>15 DEF Step

-----------------------------------------------------------------------------
\* What a process may do to the machine's clusters: at most mint a name, or
\* bring up the cluster of its run, or take away one with an arena name.
MintsName == \E n \in MintNames : arena_cluster_name(n) /\ UNCHANGED <<clusters, owner>>
Removes(n) ==
    /\ n \in ArenaNames /\ clusters \ {n} \subseteq clusters'
    /\ clusters' \subseteq clusters /\ UNCHANGED <<owner, minted>>

LEMMA CreateEffect ==
    ASSUME NEW n, NEW w, NEW e, create_cluster(n, w, e)
    PROVE  KindCreate(n, w) \/ UNCHANGED kindVars
  BY DEF create_cluster, Killed

LEMMA DeleteEffect ==
    ASSUME NEW n, NEW e, delete_cluster(n, e)
    PROVE  Removes(n) \/ UNCHANGED kindVars
  BY DEF delete_cluster, Killed, KindDelete, kindVars, Removes, ensure_safe_context

LEMMA SweepEffect ==
    ASSUME NEW p \in Sweeps, Step(p) \/ Interrupt(p)
    PROVE  \/ UNCHANGED kindVars
           \/ StartRun(p) /\ MintsName
           \/ At(p, "create") /\ KindCreate(sweep[p].name, Me(p))
           \/ sweep[p].stage \in {"abort", "teardown"} /\ Removes(sweep[p].name)
<1>1. CASE StartRun(p)
  BY <1>1 DEF StartRun, MintsName
<1>2. CASE Create(p)
  BY <1>2, CreateEffect DEF Create
<1>3. CASE Teardown(p)
  BY <1>3, DeleteEffect DEF Teardown
<1>4. CASE Interrupt(p)
  BY <1>4, CreateEffect, DeleteEffect DEF Interrupt
<1>5. CASE Probe(p) \/ NoSolution(p) \/ Enter(p) \/ NoManifests(p) \/ Unwind(p)
  BY <1>5 DEF Probe, NoSolution, Enter, NoManifests, Unwind, Exit
<1>6. CASE Apply(p) \/ Baseline(p) \/ Drive(p) \/ Grade(p) \/ Final(p)
  BY <1>6 DEF Apply, Baseline, Drive, Grade, Final, Proceed, Raise
<1>7. CASE Land(p) \/ WriteResults(p)
  BY <1>7 DEF Land, WriteResults
<1> QED BY <1>1, <1>2, <1>3, <1>4, <1>5, <1>6, <1>7 DEF Step

LEMMA CleanEffect ==
    ASSUME NEW c \in Cleaners, CleanStep(c)
    PROVE  UNCHANGED kindVars \/ \E n : Removes(n)
  BY DeleteEffect DEF CleanStep, ListClusters, DeleteOne

-----------------------------------------------------------------------------
LEMMA InitTyped == Init => Typed
<1> SUFFICES ASSUME Init PROVE Typed
  OBVIOUS
<1>1. KindTypeOK /\ owner \in [Names -> Owners]
  BY ClusterAssumption DEF Init, KindInit, KindTypeOK, Owners
<1>2. CleanTypeOK
  BY DEF Init, CleanInit, CleanTypeOK, Exceptions
<1>3. SweepTypeOK /\ \A p \in Sweeps : Complete(sweep[p])
  <2>1. <<>> \in Seq(Results) /\ 0 \in 0..Runs
    BY SweepAssumption
  <2>2. \A p \in Sweeps : Complete(sweep[p])
    BY <2>1 DEF Init, SweepInit, Complete, Records, Running, Graded, Stages,
                Body, Exceptions
  <2> QED BY <2>2 DEF Init, SweepInit, SweepTypeOK, Complete
<1> QED BY <1>1, <1>2, <1>3 DEF Typed, TypeOK

LEMMA NextTyped == Typed /\ [Next]_vars => Typed'
<1> SUFFICES ASSUME Typed, [Next]_vars PROVE Typed'
  OBVIOUS
<1>1. CASE UNCHANGED vars \/ Rest
  BY <1>1 DEF vars, kindVars, Rest, Typed, TypeOK, KindTypeOK, CleanTypeOK, SweepTypeOK
<1>2. CASE SweepNext
  <2>1. PICK p \in Sweeps : (Step(p) \/ Interrupt(p)) /\ UNCHANGED cleaner
    BY <1>2 DEF SweepNext
  <2>2. PICK r : Complete(r) /\ Becomes(p, r)
    BY <2>1, SweepRecords
  <2>3. SweepTypeOK' /\ (\A q \in Sweeps : Complete(sweep[q]))'
    BY <2>2 DEF Typed, TypeOK, SweepTypeOK, Becomes, Complete
  <2>4. At(p, "create") => sweep[p].name \in Names /\ Me(p) \in Owners
    BY ClusterAssumption DEF At, Typed, Complete, Running, Me, Owners
  <2>5. KindTypeOK' /\ owner' \in [Names -> Owners]
    BY <2>1, <2>4, SweepEffect, ClusterAssumption
       DEF Typed, TypeOK, KindTypeOK, kindVars, MintsName, arena_cluster_name,
           KindCreate, Removes
  <2>6. CleanTypeOK'
    BY <2>1 DEF Typed, TypeOK, CleanTypeOK
  <2> QED BY <2>3, <2>5, <2>6 DEF Typed, TypeOK
<1>3. CASE CleanNext
  <2>1. PICK c \in Cleaners : CleanStep(c) /\ UNCHANGED sweep
    BY <1>3 DEF CleanNext
  <2>2. KindTypeOK' /\ owner' \in [Names -> Owners]
    BY <2>1, CleanEffect DEF Typed, TypeOK, KindTypeOK, kindVars, Removes
  <2>3. CleanTypeOK'
    <3>1. ASSUME NEW todo \in SUBSET Names, NEW failed \in BOOLEAN,
                 Continue(c, todo, failed)
          PROVE  CleanTypeOK'
      BY <3>1 DEF Typed, TypeOK, CleanTypeOK, Continue, Exceptions
    <3>2. ASSUME NEW e \in Exceptions, Break(c, e)
          PROVE  CleanTypeOK'
      BY <3>2 DEF Typed, TypeOK, CleanTypeOK, Break
    <3>3. CASE ListClusters(c)
      <4>1. orphaned_clusters(clusters) \in SUBSET Names
        BY DEF orphaned_clusters, Typed, TypeOK, KindTypeOK
      <4> QED BY <3>1, <3>2, <3>3, <4>1 DEF ListClusters, Exceptions
    <3>4. CASE DeleteOne(c)
      <4>1. ASSUME NEW n PROVE cleaner[c].todo \ {n} \in SUBSET Names
        BY DEF Typed, TypeOK, CleanTypeOK
      <4>2. ASSUME NEW n PROVE (n \in clusters') \in BOOLEAN
        OBVIOUS
      <4> QED BY <3>1, <3>2, <3>4, <4>1, <4>2 DEF DeleteOne
    <3> QED BY <2>1, <3>3, <3>4 DEF CleanStep
  <2>4. SweepTypeOK' /\ (\A q \in Sweeps : Complete(sweep[q]))'
    BY <2>1 DEF Typed, TypeOK, SweepTypeOK
  <2> QED BY <2>2, <2>3, <2>4 DEF Typed, TypeOK
<1> QED BY <1>1, <1>2, <1>3 DEF Next

\* Type correctness.
THEOREM TypesHold == Spec => []TypeOK
<1>1. Typed => TypeOK
  BY DEF Typed
<1> QED BY <1>1, InitTyped, NextTyped, PTL DEF Spec

\* A cluster of the user's that does not have an arena name is never deleted.
THEOREM ForeignClustersAreSafe == Spec => []ForeignClustersSurvive
<1>1. Init => ForeignClustersSurvive
  BY DEF Init, KindInit, ForeignClustersSurvive
<1>2. ForeignClustersSurvive /\ [Next]_vars => ForeignClustersSurvive'
  <2> SUFFICES ASSUME ForeignClustersSurvive, [Next]_vars
               PROVE  ForeignClustersSurvive'
    OBVIOUS
  <2>1. CASE UNCHANGED vars \/ Rest
    BY <2>1 DEF vars, kindVars, Rest, ForeignClustersSurvive
  <2>2. CASE SweepNext
    BY <2>2, SweepEffect DEF SweepNext, ForeignClustersSurvive, kindVars,
        MintsName, KindCreate, Removes
  <2>3. CASE CleanNext
    BY <2>3, CleanEffect DEF CleanNext, ForeignClustersSurvive, kindVars, Removes
  <2> QED BY <2>1, <2>2, <2>3 DEF Next
<1> QED BY <1>1, <1>2, PTL DEF Spec

-----------------------------------------------------------------------------
\* Names are fresh while they do not collide, so two runs under way never
\* share one, and what bears a run's name was made by that run.
Apart ==
    /\ clusters \subseteq minted
    /\ \A p \in Sweeps : Running(sweep[p]) =>
        /\ sweep[p].name \in minted
        /\ sweep[p].name \in clusters => owner[sweep[p].name] = Me(p)
    /\ \A p, q \in Sweeps :
        Running(sweep[p]) /\ Running(sweep[q]) /\ sweep[p].name = sweep[q].name
            => p = q

\* A run saw its own cluster or none; once none, that cluster is gone; and a
\* run whose final snapshot returned has seen only its own.
Sound ==
    \A p \in Sweeps :
        /\ sweep[p].evidence \subseteq {Me(p), Nobody}
        /\ sweep[p].stage \in {"create", "unarmed"} => sweep[p].evidence = {}
        /\ sweep[p].stage \in Body /\ Nobody \in sweep[p].evidence =>
                sweep[p].name \notin clusters
        /\ sweep[p].stage \in {"teardown", "land"} /\ sweep[p].exc = "none" =>
                sweep[p].evidence = {Me(p)}

\* A sweep's step leaves the others' records alone; the run and its name stay
\* unless the step starts the next run.
LEMMA SweepMoves ==
    ASSUME Typed, NEW p \in Sweeps, Step(p) \/ Interrupt(p)
    PROVE  /\ \A q \in Sweeps \ {p} : sweep'[q] = sweep[q] /\ Me(q)' = Me(q)
           /\ \/ StartRun(p)
              \/ /\ sweep'[p].name = sweep[p].name
                 /\ sweep'[p].run = sweep[p].run
                 /\ Running(sweep'[p]) => Running(sweep[p])
<1>s. sweep \in [Sweeps -> Records]
  BY DEF Typed, TypeOK, SweepTypeOK
<1>1. \A q \in Sweeps \ {p} : sweep'[q] = sweep[q]
  BY <1>s, SweepRecords DEF Becomes
<1>2. \/ StartRun(p)
      \/ /\ sweep'[p].name = sweep[p].name
         /\ sweep'[p].run = sweep[p].run
         /\ Running(sweep'[p]) => Running(sweep[p])
  <2> USE <1>s DEF Records, Running, At
  <2>1. CASE Probe(p) \/ NoSolution(p) \/ Unwind(p) \/ WriteResults(p)
    <3>1. PICK r \in {[sweep[p] EXCEPT !.stage = "next"],
                      [sweep[p] EXCEPT !.stage = "exited", !.exc = "none"],
                      [sweep[p] EXCEPT !.stage = "exited", !.exc = "Other"],
                      [sweep[p] EXCEPT !.stage = "exited", !.exc = @],
                      [sweep[p] EXCEPT !.file = sweep[p].landed,
                                       !.stage = "exited"]} : Becomes(p, r)
      BY <2>1 DEF Probe, NoSolution, Unwind, WriteResults, Exit
    <3> QED BY <3>1 DEF Becomes
  <2>2. CASE Create(p)
    <3>1. PICK e \in {"none", "ClusterError"} :
            Becomes(p, [sweep[p] EXCEPT !.exc = e,
                !.stage = IF e = "none" THEN "unarmed" ELSE "land"])
      BY <2>2 DEF Create
    <3>2. sweep[p].stage = "create"
      BY <2>2 DEF Create
    <3> QED BY <3>1, <3>2 DEF Becomes
  <2>3. CASE Enter(p) \/ NoManifests(p)
    BY <2>3 DEF Enter, NoManifests, At, Becomes, Body
  <2>4. CASE Apply(p) \/ Baseline(p) \/ Drive(p) \/ Grade(p) \/ Final(p)
    <3>1. PICK to, g, e :
            \/ Becomes(p, [sweep[p] EXCEPT !.stage = to, !.grade = g,
                                  !.evidence = @ \cup {Reached(p)}])
            \/ Becomes(p, [sweep[p] EXCEPT !.stage = "teardown", !.exc = e])
      BY <2>4 DEF Apply, Baseline, Drive, Grade, Final, Proceed, Raise
    <3>2. sweep[p].stage \in Body
      BY <2>4 DEF Apply, Baseline, Drive, Grade, Final, Proceed, Raise, Body
    <3> QED BY <3>1, <3>2 DEF Becomes, Body
  <2>5. CASE Teardown(p)
    <3>1. PICK exc : Becomes(p, [sweep[p] EXCEPT !.stage = "land", !.exc = exc])
                    \/ Becomes(p, [sweep[p] EXCEPT !.stage = "land"])
      BY <2>5 DEF Teardown
    <3>2. sweep[p].stage \in {"abort", "teardown"}
      BY <2>5 DEF Teardown
    <3> QED BY <3>1, <3>2 DEF Becomes
  <2>6. CASE Land(p)
    BY <2>6 DEF Land, Becomes
  <2>7. CASE Interrupt(p)
    <3>1. PICK to \in {"abort", "teardown", "land", "exited"} :
            /\ Running(sweep[p]) \/ to = "exited"
            /\ Becomes(p, [sweep[p] EXCEPT !.stage = to,
                    !.exc = "KeyboardInterrupt",
                    !.pressed = @ \cup {sweep[p].stage}])
      BY <2>7 DEF Interrupt, Body
    <3> QED BY <3>1 DEF Becomes
  <2> QED BY <2>1, <2>2, <2>3, <2>4, <2>5, <2>6, <2>7 DEF Step
<1> QED BY <1>1, <1>2 DEF Me

LEMMA InitApart == Init => Apart /\ Sound
<1> SUFFICES ASSUME Init PROVE Apart /\ Sound
  OBVIOUS
<1>1. \A p \in Sweeps :
        sweep[p].stage = "probe" /\ sweep[p].evidence = {}
  BY DEF Init, SweepInit
<1> QED BY <1>1 DEF Init, KindInit, Apart, Sound, Running, Body

LEMMA NextApart ==
    ASSUME ~Collisions, Typed, Apart, [Next]_vars
    PROVE  Apart'
<1>1. CASE UNCHANGED vars \/ Rest
  BY <1>1 DEF vars, kindVars, Rest, Apart, Me
<1>2. CASE CleanNext
  BY <1>2, CleanEffect DEF CleanNext, kindVars, Removes, Apart, Me
<1>3. CASE SweepNext
  <2>1. PICK p \in Sweeps : Step(p) \/ Interrupt(p)
    BY <1>3 DEF SweepNext
  <2>2. /\ \A q \in Sweeps \ {p} : sweep'[q] = sweep[q] /\ Me(q)' = Me(q)
        /\ \/ StartRun(p)
           \/ /\ sweep'[p].name = sweep[p].name
              /\ sweep'[p].run = sweep[p].run
              /\ Running(sweep'[p]) => Running(sweep[p])
    BY <2>1, SweepMoves
  <2>3. CASE StartRun(p)
    <3>1. PICK n \in MintNames :
            /\ arena_cluster_name(n)
            /\ Becomes(p, [sweep[p] EXCEPT !.stage = "create", !.name = n,
                            !.run = @ + 1, !.grade = "none", !.evidence = {}])
      BY <2>3 DEF StartRun
    <3>2. n \notin minted /\ minted' = minted \cup {n}
      BY <3>1 DEF arena_cluster_name
    <3>3. sweep'[p].name = n
      BY <3>1 DEF Becomes, Typed, TypeOK, SweepTypeOK, Records
    <3>4. clusters' = clusters /\ owner' = owner
      BY <2>3 DEF StartRun
    <3> QED BY <2>2, <3>2, <3>3, <3>4 DEF Apart
  <2>4. CASE ~StartRun(p)
    <3>1. \A q \in Sweeps :
            /\ sweep'[q].name = sweep[q].name /\ Me(q)' = Me(q)
            /\ Running(sweep'[q]) => Running(sweep[q])
      BY <2>2, <2>4 DEF Me
    <3>2. CASE UNCHANGED kindVars \/ Removes(sweep[p].name)
      BY <3>1, <3>2 DEF Apart, kindVars, Removes
    <3>3. CASE At(p, "create") /\ KindCreate(sweep[p].name, Me(p))
      <4>1. Running(sweep[p]) /\ sweep[p].name \in Names
        BY <3>3, ClusterAssumption DEF At, Running, Typed, Complete
      <4>2. \A n \in Names : owner'[n] = IF n = sweep[p].name THEN Me(p) ELSE owner[n]
        BY <3>3 DEF KindCreate, Typed, TypeOK
      <4>3. \A q \in Sweeps : Running(sweep[q]) => sweep[q].name \in Names
        BY ClusterAssumption DEF Typed, Complete
      <4> QED BY <3>1, <3>3, <4>1, <4>2, <4>3 DEF Apart, KindCreate
    <3> QED BY <2>1, <2>4, <3>2, <3>3, SweepEffect
  <2> QED BY <2>3, <2>4
<1> QED BY <1>1, <1>2, <1>3 DEF Next

\* The part of Sound about one sweep.
SoundFor(p) ==
    /\ sweep[p].evidence \subseteq {Me(p), Nobody}
    /\ sweep[p].stage \in {"create", "unarmed"} => sweep[p].evidence = {}
    /\ sweep[p].stage \in Body /\ Nobody \in sweep[p].evidence =>
            sweep[p].name \notin clusters
    /\ sweep[p].stage \in {"teardown", "land"} /\ sweep[p].exc = "none" =>
            sweep[p].evidence = {Me(p)}

\* A step of p itself, whose name, if it is in use, stands for its own cluster.
LEMMA OwnStepSound ==
    ASSUME Typed, Sound, NEW p \in Sweeps, Step(p) \/ Interrupt(p),
           sweep[p].stage \in Body /\ sweep[p].name \in clusters
               => owner[sweep[p].name] = Me(p)
    PROVE  SoundFor(p)'
<1> DEFINE s == sweep[p]
<1>s. sweep \in [Sweeps -> Records] /\ s \in Records /\ Complete(s)
  BY DEF Typed, TypeOK, SweepTypeOK
<1>o. SoundFor(p) /\ Me(p) # Nobody
  <2>1. s.run \in Nat
    BY <1>s, SweepAssumption DEF Records
  <2>2. Me(p) \in Sweeps \X Nat
    BY <2>1 DEF Me
  <2> QED BY <2>2, SweepAssumption DEF Sound, SoundFor
<1>1. CASE StartRun(p)
  <2>1. PICK n \in MintNames :
          Becomes(p, [s EXCEPT !.stage = "create", !.name = n,
                          !.run = @ + 1, !.grade = "none", !.evidence = {}])
    BY <1>1 DEF StartRun
  <2>2. sweep'[p].stage = "create" /\ sweep'[p].evidence = {}
    BY <2>1, <1>s DEF Becomes, Records
  <2> QED BY <2>2 DEF SoundFor, Body
<1>2. CASE ~StartRun(p)
  <2>1. Me(p)' = Me(p) /\ s'.name = s.name
    BY <1>2, SweepMoves DEF Me
  <2>2. ASSUME NEW from \in Body, NEW to \in Body \cup {"teardown"}, NEW g,
               Proceed(p, from, to, g), to = "teardown" => Reached(p) # Nobody
        PROVE  SoundFor(p)'
    <3>1. /\ s'.stage = to /\ s'.evidence = s.evidence \cup {Reached(p)}
          /\ s'.exc = s.exc /\ clusters' = clusters /\ s.stage = from
      BY <2>2, <1>s DEF Proceed, Becomes, Records, kindVars, At
    <3>2. /\ Reached(p) \in {Me(p), Nobody}
          /\ Reached(p) = Nobody <=> s.name \notin clusters
      BY <3>1, <1>o DEF Reached
    <3>3. s.evidence \subseteq {Me(p), Nobody}
          /\ (Nobody \in s.evidence => s.name \notin clusters)
      BY <3>1, <1>o DEF SoundFor
    <3> QED BY <2>1, <2>2, <3>1, <3>2, <3>3 DEF SoundFor, Body
  <2>3. CASE Final(p) /\ Proceed(p, "final", "teardown", s.grade)
              /\ Reached(p) # Nobody
    BY <2>2, <2>3 DEF Body
  <2>4. CASE \E from \in Body, to \in Body : \E g : Proceed(p, from, to, g)
    BY <2>2, <2>4 DEF Body
  \* Every other step adds no evidence, and leads to a stage that asks for none
  \* or keeps what made the last stage sound.
  <2>5. ASSUME s'.evidence = s.evidence,
               \/ s'.stage \in {"next", "exited", "abort"}
               \/ s'.stage \in {"teardown", "land"} /\ s'.exc # "none"
               \/ s.stage \in {"create", "unarmed"} /\ s'.stage \in {"unarmed", "apply"}
               \/ s.stage \in Body /\ s'.stage \in Body /\ UNCHANGED kindVars
                  /\ s'.name = s.name
               \/ s.stage = "teardown" /\ s'.stage = "land" /\ s'.exc = s.exc
        PROVE  SoundFor(p)'
    BY <2>1, <2>5, <1>o DEF SoundFor, Body, kindVars
  <2>6. ASSUME NEW from, NEW e \in {"ClusterError", "Other"}, Raise(p, from, e)
        PROVE  SoundFor(p)'
    BY <2>5, <2>6, <1>s DEF Raise, Becomes, Records
  <2>7. CASE Apply(p) \/ Baseline(p) \/ Drive(p) \/ Grade(p) \/ Final(p)
    BY <2>3, <2>4, <2>6, <2>7 DEF Apply, Baseline, Drive, Grade, Final, Body
  <2>8. CASE Probe(p) \/ NoSolution(p) \/ Unwind(p) \/ WriteResults(p)
    <3>1. PICK r \in {[s EXCEPT !.stage = "next"],
                      [s EXCEPT !.stage = "exited", !.exc = "none"],
                      [s EXCEPT !.stage = "exited", !.exc = "Other"],
                      [s EXCEPT !.stage = "exited", !.exc = @],
                      [s EXCEPT !.file = s.landed, !.stage = "exited"]} :
            Becomes(p, r)
      BY <2>8 DEF Probe, NoSolution, Unwind, WriteResults, Exit
    <3> QED BY <2>5, <3>1, <1>s DEF Becomes, Records
  <2>9. CASE Create(p)
    <3>1. PICK e \in {"none", "ClusterError"} :
            Becomes(p, [s EXCEPT !.exc = e,
                !.stage = IF e = "none" THEN "unarmed" ELSE "land"])
      BY <2>9 DEF Create
    <3>2. s.stage = "create"
      BY <2>9 DEF Create, At
    <3> QED BY <2>5, <3>1, <3>2, <1>s DEF Becomes, Records
  <2>10. CASE Enter(p) \/ NoManifests(p)
    BY <2>5, <2>10, <1>s DEF Enter, NoManifests, At, Becomes, Records, Body
  <2>11. CASE Teardown(p)
    <3>1. PICK e \in {"none", "ClusterError", "Other"} :
            \/ Becomes(p, [s EXCEPT !.stage = "land",
                                    !.exc = IF e = "none" THEN @ ELSE e])
            \/ Becomes(p, [s EXCEPT !.stage = "land"])
      BY <2>11 DEF Teardown
    <3>2. s.stage = "teardown" \/ (s.stage = "abort" /\ s.exc # "none")
      BY <2>11, <1>s DEF Teardown, Complete
    <3>3. s'.stage = "land" /\ s'.evidence = s.evidence
          /\ (s'.exc = s.exc \/ s'.exc # "none")
      BY <3>1, <1>s DEF Becomes, Records
    <3> QED BY <2>5, <3>2, <3>3
  <2>12. CASE Land(p)
    BY <2>5, <2>12, <1>s DEF Land, Becomes, Records
  <2>13. CASE Interrupt(p)
    <3>1. PICK to \in {"abort", "teardown", "land", "exited"} :
            Becomes(p, [s EXCEPT !.stage = to, !.exc = "KeyboardInterrupt",
                                 !.pressed = @ \cup {s.stage}])
      BY <2>13 DEF Interrupt
    <3> QED BY <2>5, <3>1, <1>s DEF Becomes, Records
  <2> QED BY <1>2, <2>7, <2>8, <2>9, <2>10, <2>11, <2>12, <2>13 DEF Step
<1> QED BY <1>1, <1>2

LEMMA NextSound ==
    ASSUME ~Collisions, Typed, Apart, Sound, [Next]_vars
    PROVE  Sound'
<1>0. Sound <=> \A p \in Sweeps : SoundFor(p)
  BY DEF Sound, SoundFor
<1>1. (\A p \in Sweeps : SoundFor(p)') => Sound'
  BY DEF Sound, SoundFor
<1>2. CASE UNCHANGED vars \/ Rest
  BY <1>2 DEF vars, kindVars, Rest, Sound, Me
<1>3. CASE CleanNext
  BY <1>3, CleanEffect DEF CleanNext, kindVars, Removes, Sound, Me
<1>4. CASE SweepNext
  <2>1. PICK p \in Sweeps : Step(p) \/ Interrupt(p)
    BY <1>4 DEF SweepNext
  <2>2. SoundFor(p)'
    BY <2>1, OwnStepSound DEF Apart, Running, Body
  <2>3. ASSUME NEW q \in Sweeps \ {p}
        PROVE  SoundFor(q)'
    <3>1. sweep'[q] = sweep[q] /\ Me(q)' = Me(q)
      BY <2>1, SweepMoves
    <3>2. Running(sweep[q]) /\ sweep[q].name \notin clusters =>
              sweep[q].name \notin clusters'
      BY <2>1, SweepEffect
         DEF Apart, kindVars, MintsName, KindCreate, Removes, At, Running
    <3> QED BY <1>0, <3>1, <3>2 DEF SoundFor, Running, Body
  <2> QED BY <1>1, <2>2, <2>3
<1> QED BY <1>2, <1>3, <1>4 DEF Next

\* The inductive invariant behind the two theorems below.
Safe == Typed /\ Apart /\ Sound

LEMMA SafeHolds == ASSUME ~Collisions PROVE Spec => []Safe
<1>1. Init => Safe
  BY InitTyped, InitApart DEF Safe
<1>2. Safe /\ [Next]_vars => Safe'
  BY NextTyped, NextApart, NextSound DEF Safe
<1> QED BY <1>1, <1>2, PTL DEF Spec

\* While names do not collide, a grade that lands rests on the run's own
\* cluster from the fault to the final snapshot.
THEOREM GradesAreSound ==
    ASSUME ~Collisions PROVE Spec => []GradesRestOnOwnCluster
<1>1. Safe => GradesRestOnOwnCluster
  BY DEF Safe, Sound, GradesRestOnOwnCluster, At
<1> QED BY <1>1, SafeHolds, PTL

\* While names do not collide, no run touches a cluster it did not create.
THEOREM RunsStayApart ==
    ASSUME ~Collisions PROVE Spec => []NeverAnothersCluster
<1>1. Safe => NeverAnothersCluster
  BY DEF Safe, Sound, NeverAnothersCluster
<1> QED BY <1>1, SafeHolds, PTL

-----------------------------------------------------------------------------
\* Ctrl-C.  A sweep it was pressed in is on its way out with an exception that
\* nothing catches, unless a deletion that times out replaces it.
Doomed(r) ==
    r.pressed # {} => /\ r.stage \in {"abort", "teardown", "land", "exited"}
                      /\ r.exc \in {"KeyboardInterrupt", "Other"}

AllDoomed == "deleteTimeout" \notin Faults => \A p \in Sweeps : Doomed(sweep[p])

\* Only Ctrl-C adds to the stages it was pressed in.
LEMMA StepPressesNothing ==
    ASSUME Typed, NEW p \in Sweeps, Step(p)
    PROVE  sweep'[p].pressed = sweep[p].pressed
<1> DEFINE s == sweep[p]
<1>s. sweep \in [Sweeps -> Records] /\ s \in Records
  BY DEF Typed, TypeOK, SweepTypeOK
<1>1. ASSUME NEW from, NEW to, NEW g, Proceed(p, from, to, g)
      PROVE  s.pressed = sweep'[p].pressed
  BY <1>s, <1>1 DEF Proceed, Becomes, Records
<1>2. ASSUME NEW from, NEW e, Raise(p, from, e)
      PROVE  s.pressed = sweep'[p].pressed
  BY <1>s, <1>2 DEF Raise, Becomes, Records
<1>3. CASE Apply(p) \/ Baseline(p) \/ Drive(p) \/ Grade(p) \/ Final(p)
  BY <1>1, <1>2, <1>3 DEF Apply, Baseline, Drive, Grade, Final
<1>4. CASE Probe(p) \/ NoSolution(p) \/ Unwind(p)
  BY <1>s, <1>4 DEF Probe, NoSolution, Unwind, Exit, Becomes, Records
<1>5. CASE StartRun(p)
  BY <1>s, <1>5 DEF StartRun, Becomes, Records
<1>6. CASE Create(p)
  BY <1>s, <1>6 DEF Create, Becomes, Records
<1>7. CASE Enter(p) \/ NoManifests(p) \/ Land(p) \/ WriteResults(p)
  BY <1>s, <1>7 DEF Enter, NoManifests, Land, WriteResults, Becomes, Records
<1>8. CASE Teardown(p)
  <2>1. PICK e \in {"none", "ClusterError", "Other"} :
          \/ Becomes(p, [s EXCEPT !.stage = "land",
                                  !.exc = IF e = "none" THEN @ ELSE e])
          \/ Becomes(p, [s EXCEPT !.stage = "land"])
    BY <1>8 DEF Teardown
  <2> QED BY <1>s, <2>1 DEF Becomes, Records
<1> QED BY <1>3, <1>4, <1>5, <1>6, <1>7, <1>8 DEF Step

LEMMA OwnStepDoomed ==
    ASSUME "deleteTimeout" \notin Faults, Typed, NEW p \in Sweeps,
           Doomed(sweep[p]), Step(p) \/ Interrupt(p)
    PROVE  /\ Doomed(sweep'[p])
           /\ sweep[p].pressed # {} => sweep'[p].run = sweep[p].run
<1> DEFINE s == sweep[p]
<1>s. sweep \in [Sweeps -> Records] /\ s \in Records
  BY DEF Typed, TypeOK, SweepTypeOK
<1> USE DEF Records, Doomed, At
<1>1. CASE Interrupt(p)
  <2>1. PICK to \in {"abort", "teardown", "land", "exited"} :
          Becomes(p, [s EXCEPT !.stage = to, !.exc = "KeyboardInterrupt",
                               !.pressed = @ \cup {s.stage}])
    BY <1>1 DEF Interrupt
  <2> QED BY <1>s, <2>1 DEF Becomes
<1>2. CASE Step(p) /\ s.pressed = {}
  BY <1>2, StepPressesNothing
<1>3. CASE Teardown(p) /\ s.pressed # {}
  <2>1. \/ \E e \in {"none", "ClusterError", "Other"} :
             /\ delete_cluster(s.name, e)
             /\ Becomes(p, [s EXCEPT !.stage = "land",
                                     !.exc = IF e = "none" THEN @ ELSE e])
        \/ Becomes(p, [s EXCEPT !.stage = "land"])
    BY <1>3 DEF Teardown
  <2>2. CASE Becomes(p, [s EXCEPT !.stage = "land"])
    BY <1>s, <1>3, <2>2 DEF Becomes
  <2>3. ASSUME NEW e \in {"none", "ClusterError", "Other"},
               delete_cluster(s.name, e),
               Becomes(p, [s EXCEPT !.stage = "land",
                                    !.exc = IF e = "none" THEN @ ELSE e])
        PROVE  Doomed(sweep'[p]) /\ sweep'[p].run = s.run
    <3>1. e # "ClusterError"
      BY <2>3 DEF delete_cluster
    <3> QED BY <1>s, <1>3, <2>3, <3>1 DEF Becomes
  <2> QED BY <2>1, <2>2, <2>3
<1>4. CASE Unwind(p) /\ s.pressed # {}
  BY <1>s, <1>4 DEF Unwind, Exit, Becomes
<1>5. CASE Step(p) /\ s.pressed # {} /\ ~Teardown(p) /\ ~Unwind(p)
  BY <1>5 DEF Step, Probe, StartRun, NoSolution, Create, Enter, NoManifests, Apply, Baseline,
     Drive, Grade, Final, Land, WriteResults, Proceed, Raise
<1> QED BY <1>1, <1>2, <1>3, <1>4, <1>5

LEMMA InitDoomed == Init => AllDoomed
  BY DEF Init, SweepInit, AllDoomed, Doomed

LEMMA NextDoomed == Typed /\ AllDoomed /\ [Next]_vars => AllDoomed'
<1> SUFFICES ASSUME Typed, AllDoomed, [Next]_vars, "deleteTimeout" \notin Faults,
                    NEW p \in Sweeps
             PROVE  Doomed(sweep'[p])
  BY DEF AllDoomed
<1>1. CASE UNCHANGED sweep
  BY <1>1 DEF AllDoomed
<1>2. CASE SweepNext
  <2>1. PICK q \in Sweeps : Step(q) \/ Interrupt(q)
    BY <1>2 DEF SweepNext
  <2>2. q # p => sweep'[p] = sweep[p]
    BY <2>1, SweepMoves
  <2> QED BY <2>1, <2>2, OwnStepDoomed DEF AllDoomed
<1> QED BY <1>1, <1>2 DEF Next, CleanNext, Rest, vars

\* A sweep that Ctrl-C was pressed in starts no further run, as long as no
\* deletion times out.
THEOREM CtrlCStopsSweeps ==
    ASSUME "deleteTimeout" \notin Faults
    PROVE  Spec => InterruptStopsSweep
<1>1. Typed /\ AllDoomed /\ [Next]_vars =>
        [\A p \in Sweeps : sweep[p].pressed # {} => sweep'[p].run = sweep[p].run]_vars
  <2> SUFFICES ASSUME Typed, AllDoomed, Next, NEW p \in Sweeps,
                      sweep[p].pressed # {}
               PROVE  sweep'[p].run = sweep[p].run
    OBVIOUS
  <2>1. CASE UNCHANGED sweep
    BY <2>1
  <2>2. CASE SweepNext
    <3>1. PICK q \in Sweeps : Step(q) \/ Interrupt(q)
      BY <2>2 DEF SweepNext
    <3>2. q # p => sweep'[p] = sweep[p]
      BY <3>1, SweepMoves
    <3> QED BY <3>1, <3>2, OwnStepDoomed DEF AllDoomed
  <2> QED BY <2>1, <2>2 DEF Next, CleanNext, Rest, vars
<1> QED BY <1>1, InitTyped, NextTyped, InitDoomed, NextDoomed, PTL
        DEF Spec, InterruptStopsSweep

-----------------------------------------------------------------------------
\* Names that collide.  From `kind create` until teardown a run's name stands
\* for its own cluster; create_cluster's KeyboardInterrupt handler alone may
\* delete somebody else's, because it runs whether or not its own `kind create`
\* came through.
Armed(r) == r.stage \in Body \cup {"unarmed", "teardown"}
Pressed(p) == "create" \in sweep[p].pressed

\* Nobody interrupted a `kind create`; or there are two sweeps at most and the
\* interrupted one is certain to leave, so that it takes no name again.
AtMostTwo == \A p, q, r \in Sweeps : p = q \/ p = r \/ q = r
Unhurt ==
    \/ \A p \in Sweeps : ~Pressed(p)
    \/ AtMostTwo /\ "deleteTimeout" \notin Faults

HeldFor(p) ==
    /\ Armed(sweep[p]) =>
        IF sweep[p].name \in clusters THEN owner[sweep[p].name] = Me(p)
        ELSE \E q \in Sweeps \ {p} : Pressed(q)
    /\ sweep[p].evidence \subseteq {Me(p), Nobody}

Held ==
    /\ \A p \in Sweeps : sweep[p].stage = "abort" => Pressed(p)
    /\ Unhurt => \A p \in Sweeps : HeldFor(p)

\* What a step other than the start of a run does to its own record.
LEMMA OwnStepTurns ==
    ASSUME Typed, NEW p \in Sweeps, Step(p) \/ Interrupt(p), ~StartRun(p)
    PROVE  LET s == sweep[p]
               t == sweep'[p]
           IN  /\ \/ t.evidence = s.evidence
                  \/ s.stage \in Body /\ t.evidence = s.evidence \cup {Reached(p)}
               /\ s.pressed \subseteq t.pressed
               /\ t.stage = "abort" => "create" \in t.pressed
               /\ Armed(t) => \/ Armed(s) /\ s.stage # "teardown"
                              \/ s.stage = "create" /\ KindCreate(s.name, Me(p))
<1> DEFINE s == sweep[p]
           t == sweep'[p]
           Turns == /\ \/ t.evidence = s.evidence
                       \/ s.stage \in Body /\ t.evidence = s.evidence \cup {Reached(p)}
                    /\ t.stage = "abort" => "create" \in t.pressed
                    /\ Armed(t) => \/ Armed(s) /\ s.stage # "teardown"
                                   \/ s.stage = "create" /\ KindCreate(s.name, Me(p))
<1>s. sweep \in [Sweeps -> Records] /\ s \in Records
  BY DEF Typed, TypeOK, SweepTypeOK
<1>p. s.pressed \subseteq t.pressed
  <2>1. CASE Interrupt(p)
    <3>1. PICK to : Becomes(p, [s EXCEPT !.stage = to, !.exc = "KeyboardInterrupt",
                                         !.pressed = @ \cup {s.stage}])
      BY <2>1 DEF Interrupt
    <3> QED BY <1>s, <3>1 DEF Becomes, Records
  <2> QED BY <2>1, StepPressesNothing
<1>q. SUFFICES Turns
  BY <1>p
<1>1. ASSUME NEW from \in Body, NEW to \in Body \cup {"teardown"}, NEW g,
             Proceed(p, from, to, g)
      PROVE  Turns
  BY <1>s, <1>1 DEF Proceed, Becomes, Records, Armed, Body, At
<1>2. ASSUME NEW from \in Body, NEW e, Raise(p, from, e)
      PROVE  Turns
  BY <1>s, <1>2 DEF Raise, Becomes, Records, Armed, Body, At
<1>3. CASE Apply(p) \/ Baseline(p) \/ Drive(p) \/ Grade(p) \/ Final(p)
  BY <1>1, <1>2, <1>3 DEF Apply, Baseline, Drive, Grade, Final, Body
<1>4. CASE Probe(p) \/ NoSolution(p) \/ Unwind(p)
  <2>1. PICK r \in {[s EXCEPT !.stage = "next"],
                    [s EXCEPT !.stage = "exited", !.exc = "none"],
                    [s EXCEPT !.stage = "exited", !.exc = "Other"],
                    [s EXCEPT !.stage = "exited", !.exc = @]} : Becomes(p, r)
    BY <1>4 DEF Probe, NoSolution, Unwind, Exit
  <2>2. t.evidence = s.evidence /\ t.stage \in {"next", "exited"}
    BY <1>s, <2>1 DEF Becomes, Records
  <2> QED BY <2>2 DEF Armed, Body
<1>4b. CASE Land(p) \/ WriteResults(p)
  <2>1. PICK exc, l :
          \/ Becomes(p, [s EXCEPT !.stage = "next", !.exc = exc, !.landed = l])
          \/ Becomes(p, [s EXCEPT !.file = s.landed, !.stage = "exited"])
    BY <1>4b DEF Land, WriteResults
  <2>2. t.evidence = s.evidence /\ t.stage \in {"next", "exited"}
    BY <1>s, <2>1 DEF Becomes, Records
  <2> QED BY <2>2 DEF Armed, Body
<1>5. CASE Create(p)
  <2>1. PICK e \in {"none", "ClusterError"} :
          /\ create_cluster(s.name, Me(p), e)
          /\ Becomes(p, [s EXCEPT !.exc = e,
                !.stage = IF e = "none" THEN "unarmed" ELSE "land"])
    BY <1>5 DEF Create
  <2>2. s.stage = "create"
    BY <1>5 DEF Create, At
  <2>3. t.evidence = s.evidence
          /\ t.stage = IF e = "none" THEN "unarmed" ELSE "land"
    BY <1>s, <2>1 DEF Becomes, Records
  <2>4. e = "none" => KindCreate(s.name, Me(p))
    BY <2>1 DEF create_cluster
  <2> QED BY <2>2, <2>3, <2>4 DEF Armed, Body
<1>6. CASE Enter(p) \/ NoManifests(p)
  BY <1>s, <1>6 DEF Enter, NoManifests, Becomes, Records, Armed, Body, At
<1>7. CASE Teardown(p)
  <2>1. PICK e : \/ Becomes(p, [s EXCEPT !.stage = "land", !.exc = e])
                 \/ Becomes(p, [s EXCEPT !.stage = "land"])
    BY <1>7 DEF Teardown
  <2>2. t.evidence = s.evidence /\ t.stage = "land"
    BY <1>s, <2>1 DEF Becomes, Records
  <2> QED BY <2>2 DEF Armed, Body
<1>8. CASE Interrupt(p)
  <2>1. PICK to \in {"abort", "teardown", "land", "exited"} :
          /\ to = "abort" => s.stage = "create"
          /\ to = "teardown" => s.stage \in Body
          /\ Becomes(p, [s EXCEPT !.stage = to, !.exc = "KeyboardInterrupt",
                                  !.pressed = @ \cup {s.stage}])
    BY <1>8 DEF Interrupt, At
  <2>2. /\ t.evidence = s.evidence /\ t.stage = to
        /\ t.pressed = s.pressed \cup {s.stage}
    BY <1>s, <2>1 DEF Becomes, Records
  <2> QED BY <2>1, <2>2 DEF Armed, Body
<1> QED BY <1>3, <1>4, <1>4b, <1>5, <1>6, <1>7, <1>8 DEF Step

LEMMA InitHeld == Init => Held
  BY DEF Init, SweepInit, Held, HeldFor, Armed, Body

\* A name that was lost to an interrupted sweep is not given away again: with
\* two of them, only that sweep could ask for it, and it goes no further.
LEMMA LostStaysLost ==
    ASSUME AllDoomed, Unhurt, NEW p \in Sweeps, NEW q \in Sweeps \ {p},
           HeldFor(q), Armed(sweep[q]), sweep[q].name \notin clusters
    PROVE  sweep[p].stage # "create"
<1>1. PICK r \in Sweeps \ {q} : Pressed(r)
  BY DEF HeldFor
<1>2. r = p /\ "deleteTimeout" \notin Faults
  BY <1>1 DEF Unhurt, AtMostTwo
<1> QED BY <1>1, <1>2 DEF AllDoomed, Doomed, Pressed

LEMMA NextHeld ==
    ASSUME Cleaners = {}, Typed, AllDoomed, Held, [Next]_vars
    PROVE  Held'
<1>1. CASE UNCHANGED vars \/ Rest
  BY <1>1 DEF vars, kindVars, Rest, Held, HeldFor, Unhurt, Pressed, Me
<1>2. CASE SweepNext
  <2>1. PICK p \in Sweeps : Step(p) \/ Interrupt(p)
    BY <1>2 DEF SweepNext
  <2> DEFINE s == sweep[p]
             t == sweep'[p]
  <2>r. sweep \in [Sweeps -> Records] /\ s \in Records
    BY DEF Typed, TypeOK, SweepTypeOK
  <2>2. /\ \A q \in Sweeps \ {p} : sweep'[q] = sweep[q] /\ Me(q)' = Me(q)
        /\ ~StartRun(p) => t.name = s.name /\ Me(p)' = Me(p)
    BY <2>1, SweepMoves DEF Me
  <2>3. CASE StartRun(p)
    <3>1. PICK n \in MintNames :
            Becomes(p, [s EXCEPT !.stage = "create", !.name = n, !.run = @ + 1,
                                 !.grade = "none", !.evidence = {}])
      BY <2>3 DEF StartRun
    <3>2. t.stage = "create" /\ t.evidence = {} /\ t.pressed = s.pressed
      BY <2>r, <3>1 DEF Becomes, Records
    <3>3. \A q \in Sweeps : Pressed(q)' <=> Pressed(q)
      BY <2>2, <3>2 DEF Pressed
    <3>4. clusters' = clusters /\ owner' = owner
      BY <2>3 DEF StartRun
    <3>5. HeldFor(p)'
      BY <3>2 DEF HeldFor, Armed, Body
    <3>6. ASSUME NEW q \in Sweeps \ {p}, HeldFor(q)
          PROVE  HeldFor(q)'
      BY <2>2, <3>3, <3>4, <3>6 DEF HeldFor
    <3>7. Unhurt' => Unhurt
      BY <3>3 DEF Unhurt
    <3> QED BY <2>2, <3>2, <3>3, <3>5, <3>6, <3>7 DEF Held
  <2>4. CASE ~StartRun(p)
    <3>1. /\ \/ t.evidence = s.evidence
             \/ s.stage \in Body /\ t.evidence = s.evidence \cup {Reached(p)}
          /\ s.pressed \subseteq t.pressed
          /\ t.stage = "abort" => "create" \in t.pressed
          /\ Armed(t) => \/ Armed(s) /\ s.stage # "teardown"
                         \/ s.stage = "create" /\ KindCreate(s.name, Me(p))
      BY <2>1, <2>4, OwnStepTurns
    <3>2. \A q \in Sweeps : Pressed(q) => Pressed(q)'
      BY <2>2, <3>1 DEF Pressed
    <3>3. \A q \in Sweeps : sweep'[q].stage = "abort" => Pressed(q)'
      BY <2>2, <3>1, <3>2 DEF Pressed, Held
    <3>4. Unhurt' => Unhurt
      BY <3>2 DEF Unhurt
    <3>5. SUFFICES ASSUME Unhurt', NEW q \in Sweeps
                   PROVE  HeldFor(q)'
      BY <3>3 DEF Held
    <3>6. \A r \in Sweeps : HeldFor(r)
      BY <3>4, <3>5 DEF Held
    <3>7. \/ UNCHANGED kindVars
          \/ s.stage = "create" /\ KindCreate(s.name, Me(p))
          \/ s.stage \in {"abort", "teardown"} /\ Removes(s.name)
      BY <2>1, <2>4, SweepEffect DEF At
    <3>8. CASE q = p
      <4>1. sweep'[p].evidence \subseteq {Me(p), Nobody}
        BY <3>1, <3>6 DEF HeldFor, Reached, Armed
      <4>2. CASE s.stage = "create" /\ KindCreate(s.name, Me(p))
        <5>1. s.name \in Names
          BY <4>2, ClusterAssumption DEF Typed, Complete, Running
        <5>2. s.name \in clusters' /\ owner'[s.name] = Me(p)
          BY <4>2, <5>1 DEF KindCreate, Typed, TypeOK
        <5> QED BY <2>2, <2>4, <3>8, <4>1, <5>2 DEF HeldFor
      <4>3. CASE Armed(s) /\ s.stage # "teardown"
        <5>1. UNCHANGED kindVars
          BY <3>7, <4>3 DEF Armed, Body
        <5> QED BY <2>2, <2>4, <3>2, <3>6, <3>8, <4>1, <4>3, <5>1
                DEF HeldFor, kindVars
      <4> QED BY <2>2, <2>4, <3>1, <3>8, <4>1, <4>2, <4>3 DEF HeldFor
    <3>9. CASE q # p
      <4>1. sweep'[q] = sweep[q] /\ Me(q)' = Me(q)
        BY <2>2, <3>9
      <4>2. SUFFICES ASSUME Armed(sweep[q])
                     PROVE  IF sweep[q].name \in clusters'
                            THEN owner'[sweep[q].name] = Me(q)
                            ELSE \E r \in Sweeps \ {q} : Pressed(r)'
        BY <3>6, <4>1 DEF HeldFor
      <4>3. IF sweep[q].name \in clusters THEN owner[sweep[q].name] = Me(q)
            ELSE \E r \in Sweeps \ {q} : Pressed(r)
        BY <3>6, <4>2 DEF HeldFor
      <4>4. CASE UNCHANGED kindVars
        BY <3>2, <4>3, <4>4 DEF kindVars
      \* A name that p takes in `kind create` is not q's: q's is in use, or was
      \* lost to an interrupted sweep, which with two of them can only be p.
      <4>5. CASE s.stage = "create" /\ KindCreate(s.name, Me(p))
        <5>1. sweep[q].name # s.name
          <6>1. SUFFICES ASSUME sweep[q].name = s.name
                         PROVE  FALSE
            OBVIOUS
          <6>2. sweep[q].name \notin clusters
            BY <4>5, <6>1 DEF KindCreate
          <6> QED BY <3>4, <3>5, <3>6, <3>9, <4>2, <4>5, <6>2, LostStaysLost
        <5>2. owner'[sweep[q].name] = owner[sweep[q].name]
          <6>1. sweep[q].name \in Names
            BY <4>2, ClusterAssumption DEF Typed, Complete, Running, Armed, Body
          <6> QED BY <4>5, <5>1, <6>1 DEF KindCreate, Typed, TypeOK
        <5> QED BY <3>2, <4>3, <4>5, <5>1, <5>2 DEF KindCreate
      \* At teardown p deletes its own; in the handler it has been interrupted.
      <4>6. CASE s.stage = "abort" /\ Removes(s.name)
        <5>1. Pressed(p)'
          BY <3>2, <4>6 DEF Held
        <5> QED BY <3>9, <4>3, <4>6, <5>1 DEF Removes
      <4>7. CASE s.stage = "teardown" /\ Removes(s.name)
        <5>1. s.name \in clusters => owner[s.name] = Me(p)
          BY <3>6, <4>7 DEF HeldFor, Armed
        <5>2. Me(p) # Me(q)
          BY <3>9 DEF Me
        <5>3. sweep[q].name \in clusters => sweep[q].name # s.name
          BY <4>3, <5>1, <5>2
        <5> QED BY <3>2, <4>3, <4>7, <5>3 DEF Removes
      <4> QED BY <3>7, <4>4, <4>5, <4>6, <4>7
    <3> QED BY <3>8, <3>9
  <2> QED BY <2>3, <2>4
<1> QED BY <1>1, <1>2 DEF Next, CleanNext

\* Random names may collide, with another sweep's or with those of clusters
\* --keep has left: still no run reaches a cluster that is not its own, before
\* Ctrl-C is pressed during some `kind create`, and after that too while there
\* are two sweeps at most and no deletion times out.
THEOREM CollidingRunsStayApart ==
    ASSUME Cleaners = {}
    PROVE  Spec => [](Unhurt => NeverAnothersCluster)
<1>1. Held => (Unhurt => NeverAnothersCluster)
  BY DEF Held, HeldFor, NeverAnothersCluster
<1>2. Typed /\ AllDoomed /\ Held /\ [Next]_vars => Held'
  BY NextHeld
<1> QED BY <1>1, <1>2, InitTyped, NextTyped, InitDoomed, NextDoomed, InitHeld, PTL
        DEF Spec

LEMMA PressedStays ==
    ASSUME Typed, [Next]_vars, NEW p \in Sweeps, Pressed(p)
    PROVE  Pressed(p)'
<1>1. CASE UNCHANGED sweep
  BY <1>1 DEF Pressed
<1>2. CASE SweepNext
  <2>1. PICK q \in Sweeps : Step(q) \/ Interrupt(q)
    BY <1>2 DEF SweepNext
  <2>2. CASE q # p
    BY <2>1, <2>2, SweepMoves DEF Pressed
  <2>3. CASE q = p /\ StartRun(p)
    BY <2>1, <2>3, StepPressesNothing DEF Pressed, Step
  <2>4. CASE q = p /\ ~StartRun(p)
    BY <2>1, <2>4, OwnStepTurns DEF Pressed
  <2> QED BY <2>2, <2>3, <2>4
<1> QED BY <1>1, <1>2 DEF Next, CleanNext, Rest, vars

LEMMA NextSoundThough ==
    ASSUME Cleaners = {}, Typed, AllDoomed, Held, Unhurt => Sound, [Next]_vars
    PROVE  (Unhurt => Sound)'
<1>0. SUFFICES ASSUME Unhurt' PROVE Sound'
  OBVIOUS
<1>1. Unhurt /\ Sound /\ \A q \in Sweeps : HeldFor(q) /\ SoundFor(q)
  <2>1. Unhurt
    BY <1>0, PressedStays DEF Unhurt
  <2> QED BY <2>1 DEF Held, Sound, SoundFor
<1>2. (\A p \in Sweeps : SoundFor(p)') => Sound'
  BY DEF Sound, SoundFor
<1>3. CASE UNCHANGED vars \/ Rest
  BY <1>1, <1>3 DEF vars, kindVars, Rest, Sound, Me
<1>4. CASE SweepNext
  <2>1. PICK p \in Sweeps : Step(p) \/ Interrupt(p)
    BY <1>4 DEF SweepNext
  <2>2. SoundFor(p)'
    BY <1>1, <2>1, OwnStepSound DEF HeldFor, Armed
  <2>3. ASSUME NEW q \in Sweeps \ {p}
        PROVE  SoundFor(q)'
    <3>1. sweep'[q] = sweep[q] /\ Me(q)' = Me(q)
      BY <2>1, SweepMoves
    <3>2. sweep[q].stage \in Body /\ sweep[q].name \notin clusters =>
              sweep[p].stage # "create"
      BY <1>1, LostStaysLost DEF Armed
    <3>3. sweep[q].stage \in Body /\ sweep[q].name \notin clusters =>
              sweep[q].name \notin clusters'
      BY <2>1, <3>2, SweepEffect
         DEF kindVars, MintsName, KindCreate, Removes, At
    <3> QED BY <1>1, <3>1, <3>3 DEF SoundFor
  <2> QED BY <1>2, <2>2, <2>3
<1> QED BY <1>3, <1>4 DEF Next, CleanNext

\* Under the same conditions a grade that lands rests on the run's own cluster,
\* although a Ctrl-C in somebody else's `kind create` may delete that cluster.
THEOREM CollidingGradesAreSound ==
    ASSUME Cleaners = {}
    PROVE  Spec => [](Unhurt => GradesRestOnOwnCluster)
<1>1. (Unhurt => Sound) => (Unhurt => GradesRestOnOwnCluster)
  BY DEF Sound, GradesRestOnOwnCluster, At
<1>2. Init => (Unhurt => Sound)
  BY InitApart
<1>3. Typed /\ AllDoomed /\ Held /\ [Next]_vars => Held'
  BY NextHeld
<1>4. Typed /\ AllDoomed /\ Held /\ (Unhurt => Sound) /\ [Next]_vars
          => (Unhurt => Sound)'
  BY NextSoundThough
<1> QED BY <1>1, <1>2, <1>3, <1>4, InitTyped, NextTyped, InitDoomed, NextDoomed,
           InitHeld, PTL DEF Spec
=============================================================================
