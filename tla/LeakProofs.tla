----------------------------- MODULE LeakProofs -----------------------------
(***************************************************************************)
(* Where a cluster can be left behind, for any number of sweeps, runs,     *)
(* cleaners and presses of Ctrl-C, on a machine whose `kind` neither hangs *)
(* nor fails a deletion.  What fails in a run's body does not matter.      *)
(***************************************************************************)
EXTENDS ArenaProofs, FiniteSetTheorems

KindWorks ==
    Faults \cap {"createTimeout", "deleteNonzero", "deleteTimeout"} = {}

Windows == {"unarmed", "abort", "teardown"}

\* What a sweep with record r may have standing, of the clusters it made: none
\* before it creates one, that one while it is at work, and after it only what
\* Ctrl-C in a window saved from deletion.
Tidy(r, standing) ==
    /\ r.stage \in {"probe", "next", "create"} => standing = {}
    /\ standing \subseteq {r.name}
    /\ r.stage = "land" /\ standing # {} =>
        r.exc = "KeyboardInterrupt" /\ r.pressed \cap Windows # {}
    /\ r.stage = "exited" /\ standing # {} => r.pressed \cap Windows # {}

AllTidy == \A p \in Sweeps \ Keepers : Tidy(sweep[p], Leftovers(p))

-----------------------------------------------------------------------------
LEMMA FewerIsTidy ==
    ASSUME NEW r, NEW S, NEW T \in SUBSET S, Tidy(r, S)
    PROVE  Tidy(r, T)
  BY DEF Tidy

\* What the operations on clusters do to what a sweep has standing.
LEMMA UnchangedLeftovers ==
    ASSUME NEW p, UNCHANGED <<clusters, owner>>
    PROVE  Leftovers(p)' = Leftovers(p)
  BY DEF Leftovers

LEMMA RemovedLeftovers ==
    ASSUME NEW p, NEW n, Removes(n)
    PROVE  Leftovers(p)' \subseteq Leftovers(p)
  BY DEF Leftovers, Removes

LEMMA DeletedLeftovers ==
    ASSUME NEW p, NEW n, KindDelete(n)
    PROVE  Leftovers(p)' = Leftovers(p) \ {n}
  BY DEF Leftovers, KindDelete

LEMMA CreatedLeftovers ==
    ASSUME Typed, NEW p \in Sweeps, NEW q \in Sweeps, NEW n \in Names,
           KindCreate(n, Me(q))
    PROVE  /\ Leftovers(p)' \subseteq Leftovers(p) \cup {n}
           /\ p # q => Leftovers(p)' \subseteq Leftovers(p)
<1>1. owner \in [Names -> Owners] /\ clusters \subseteq Names
  BY DEF Typed, TypeOK, KindTypeOK
<1>2. \A m \in clusters' \ {n} : m \in clusters /\ owner'[m] = owner[m]
  BY <1>1 DEF KindCreate
<1>3. Leftovers(p)' \subseteq Leftovers(p) \cup {n}
  BY <1>2 DEF Leftovers
<1>4. ASSUME p # q PROVE n \notin Leftovers(p)'
  <2>1. owner'[n] = <<q, sweep[q].run>>
    BY <1>1 DEF KindCreate, Me
  <2> QED BY <1>4, <2>1 DEF Leftovers
<1> QED BY <1>3, <1>4

\* create_cluster and delete_cluster, when kind works.
LEMMA CreateWorks ==
    ASSUME KindWorks, NEW n, NEW who, NEW e, create_cluster(n, who, e)
    PROVE  \/ e = "none" /\ KindCreate(n, who)
           \/ e = "ClusterError" /\ UNCHANGED kindVars
           \/ e = "KeyboardInterrupt" /\ (KindCreate(n, who) \/ UNCHANGED kindVars)
  BY DEF KindWorks, create_cluster, Killed

LEMMA DeleteWorks ==
    ASSUME KindWorks, NEW n \in MintNames, NEW e, delete_cluster(n, e)
    PROVE  \/ e = "none" /\ KindDelete(n)
           \/ e = "KeyboardInterrupt"
  BY ClusterAssumption DEF KindWorks, delete_cluster, ensure_safe_context

\* A sweep's own step, when its cluster is not touched.
LEMMA QuietStep ==
    ASSUME Typed, NEW p \in Sweeps \ Keepers, Tidy(sweep[p], Leftovers(p)),
           Step(p) \/ Interrupt(p), UNCHANGED <<clusters, owner>>,
           ~Teardown(p), ~Create(p)
    PROVE  Tidy(sweep'[p], Leftovers(p)')
<1> DEFINE s == sweep[p]
<1>1. s \in Records /\ sweep \in [Sweeps -> Records]
  BY DEF Typed, TypeOK, SweepTypeOK
<1>2. \A r : Becomes(p, r) => sweep'[p] = r
  BY <1>1 DEF Becomes
<1>3. Leftovers(p)' = Leftovers(p)
  BY UnchangedLeftovers
<1> USE DEF Tidy, At, Records
<1>4. CASE Probe(p) \/ WriteResults(p) \/ NoSolution(p)
  BY <1>1, <1>2, <1>3, <1>4 DEF Probe, WriteResults, NoSolution, Exit
<1>5. CASE StartRun(p)
  BY <1>1, <1>2, <1>3, <1>5 DEF StartRun
<1>6. CASE Enter(p) \/ NoManifests(p)
  BY <1>1, <1>2, <1>3, <1>6 DEF Enter, NoManifests
<1>7. CASE Apply(p) \/ Baseline(p) \/ Drive(p) \/ Grade(p) \/ Final(p)
  <2>1. ASSUME NEW from, NEW to \in Body \cup {"teardown"}, NEW grade,
               Proceed(p, from, to, grade)
        PROVE  sweep'[p].name = s.name /\ sweep'[p].stage = to
    BY <1>1, <1>2, <2>1 DEF Proceed
  <2>2. ASSUME NEW from, NEW e, Raise(p, from, e)
        PROVE  sweep'[p].name = s.name /\ sweep'[p].stage = "teardown"
    BY <1>1, <1>2, <2>2 DEF Raise
  <2>3. sweep'[p].name = s.name /\ sweep'[p].stage \in Body \cup {"teardown"}
    BY <1>7, <2>1, <2>2 DEF Apply, Baseline, Drive, Grade, Final, Body
  <2> QED BY <1>3, <2>3 DEF Body
<1>8. CASE Land(p)
  BY <1>1, <1>2, <1>3, <1>8 DEF Land
<1>9. CASE Unwind(p)
  BY <1>1, <1>2, <1>3, <1>9 DEF Unwind, Exit
<1>10. CASE Interrupt(p)
  <2> DEFINE Goes(to) == Becomes(p, [s EXCEPT !.stage = to,
                            !.exc = "KeyboardInterrupt",
                            !.pressed = @ \cup {s.stage}])
  <2>1. ASSUME NEW to \in Stages, Goes(to)
        PROVE  /\ sweep'[p].name = s.name /\ sweep'[p].stage = to
               /\ sweep'[p].exc = "KeyboardInterrupt"
               /\ sweep'[p].pressed = s.pressed \cup {s.stage}
    BY <1>1, <1>2, <2>1
  <2>2. CASE At(p, "create") /\ Goes("abort")
    BY <1>3, <2>1, <2>2 DEF Stages
  <2>3. CASE s.stage \in Body /\ Goes("teardown")
    BY <1>3, <2>1, <2>3 DEF Stages
  <2>4. CASE s.stage \in {"abort", "teardown"} /\ Goes("land")
    BY <1>3, <2>1, <2>4 DEF Stages, Windows
  <2>5. CASE s.stage \in {"probe", "next", "unarmed", "land"} /\ Goes("exited")
    BY <1>3, <2>1, <2>5 DEF Stages, Windows
  <2> QED BY <1>10, <2>2, <2>3, <2>4, <2>5 DEF Interrupt
<1> QED BY <1>4, <1>5, <1>6, <1>7, <1>8, <1>9, <1>10 DEF Step

\* Any step of its own leaves a sweep tidy.
LEMMA OwnStepTidy ==
    ASSUME KindWorks, Typed, NEW p \in Sweeps \ Keepers,
           Tidy(sweep[p], Leftovers(p)), Step(p) \/ Interrupt(p)
    PROVE  Tidy(sweep'[p], Leftovers(p)')
<1> DEFINE s == sweep[p]
<1>1. s \in Records /\ sweep \in [Sweeps -> Records]
  BY DEF Typed, TypeOK, SweepTypeOK
<1>2. \A r : Becomes(p, r) => sweep'[p] = r
  BY <1>1 DEF Becomes
<1>3. s.stage \in {"create", "abort", "teardown"} =>
        s.name \in MintNames /\ s.name \in Names
  BY ClusterAssumption DEF Typed, Complete, Running
<1>4. UNCHANGED kindVars => Leftovers(p)' = Leftovers(p)
  BY UnchangedLeftovers DEF kindVars
<1>5. CASE Create(p)
  <2>1. PICK e \in {"none", "ClusterError"} :
          /\ create_cluster(s.name, Me(p), e)
          /\ Becomes(p, [s EXCEPT !.exc = e,
                !.stage = IF e = "none" THEN "unarmed" ELSE "land"])
    BY <1>5 DEF Create
  <2>2. Leftovers(p) = {}
    BY <1>5 DEF Create, At, Tidy
  <2>3. CASE e = "none"
    <3>1. Leftovers(p)' \subseteq {s.name}
      BY <1>3, <1>5, <2>1, <2>2, <2>3, CreateWorks, CreatedLeftovers DEF Create, At
    <3> QED BY <1>1, <1>2, <2>1, <2>3, <3>1 DEF Tidy, Records
  <2>4. CASE e = "ClusterError"
    <3>1. Leftovers(p)' = {}
      BY <1>4, <2>1, <2>2, <2>4, CreateWorks
    <3> QED BY <1>1, <1>2, <2>1, <2>4, <3>1 DEF Tidy, Records
  <2> QED BY <2>3, <2>4
<1>6. CASE Teardown(p)
  <2>1. PICK e \in {"none", "ClusterError", "Other"} :
          /\ delete_cluster(s.name, e)
          /\ Becomes(p, [s EXCEPT !.stage = "land",
                        !.exc = IF e = "none" THEN @ ELSE e])
    BY <1>6 DEF Teardown, DeletesInFinally
  <2>2. Leftovers(p)' = {}
    <3>1. KindDelete(s.name)
      BY <1>3, <1>6, <2>1, DeleteWorks DEF Teardown
    <3> QED BY <3>1, DeletedLeftovers DEF Tidy
  <2>3. sweep'[p].stage = "land"
    BY <1>1, <1>2, <2>1 DEF Records
  <2> QED BY <2>2, <2>3 DEF Tidy
<1>7. CASE Interrupt(p) /\ ~UNCHANGED <<clusters, owner>>
  <2>1. CASE At(p, "create")
    <3>1. create_cluster(s.name, Me(p), "KeyboardInterrupt")
          /\ Becomes(p, [s EXCEPT !.stage = "abort", !.exc = "KeyboardInterrupt",
                                  !.pressed = @ \cup {s.stage}])
      BY <1>7, <2>1 DEF Interrupt, At, Body
    <3>2. Leftovers(p)' \subseteq {s.name}
      BY <1>3, <1>4, <2>1, <3>1, CreateEffect, CreatedLeftovers DEF Tidy, At
    <3> QED BY <1>1, <1>2, <3>1, <3>2 DEF Tidy, Records
  <2>2. CASE s.stage \in {"abort", "teardown"}
    <3>1. Becomes(p, [s EXCEPT !.stage = "land", !.exc = "KeyboardInterrupt",
                               !.pressed = @ \cup {s.stage}])
      BY <1>7, <2>2 DEF Interrupt, At, Body
    <3>2. Leftovers(p)' \subseteq {s.name}
      <4>1. \/ UNCHANGED kindVars
            \/ delete_cluster(s.name, "KeyboardInterrupt")
        BY <1>7, <2>2 DEF Interrupt, At, Body
      <4> QED BY <1>4, <4>1, DeleteEffect, RemovedLeftovers DEF Tidy
    <3>3. /\ sweep'[p].stage = "land" /\ sweep'[p].name = s.name
          /\ sweep'[p].exc = "KeyboardInterrupt" /\ s.stage \in sweep'[p].pressed
      <4>1. sweep'[p] = [s EXCEPT !.stage = "land", !.exc = "KeyboardInterrupt",
                                  !.pressed = @ \cup {s.stage}]
        BY <1>2, <3>1
      <4> QED BY <1>1, <4>1 DEF Records
    <3> QED BY <2>2, <3>2, <3>3 DEF Tidy, Windows
  <2> QED BY <1>7, <2>1, <2>2 DEF Interrupt, kindVars
<1>8. CASE UNCHANGED <<clusters, owner>> /\ ~Teardown(p) /\ ~Create(p)
  BY <1>8, QuietStep
<1>9. Step(p) => Teardown(p) \/ Create(p) \/ UNCHANGED <<clusters, owner>>
  BY DEF Step, Probe, StartRun, NoSolution, Enter, NoManifests, Apply, Baseline, Drive, Grade,
         Final, Land, Unwind, WriteResults, Proceed, Raise, Exit, kindVars
<1> QED BY <1>5, <1>6, <1>7, <1>8, <1>9

LEMMA InitTidy == Init => AllTidy
<1> SUFFICES ASSUME Init, NEW p \in Sweeps \ Keepers
             PROVE  Tidy(sweep[p], Leftovers(p))
  BY DEF AllTidy
<1>1. ASSUME NEW n \in clusters PROVE owner[n] = User
  BY <1>1, ClusterAssumption DEF Init, KindInit
<1>2. User \notin {p} \X (1..Runs)
  BY SweepAssumption
<1>3. Leftovers(p) = {}
  BY <1>1, <1>2 DEF Leftovers
<1> QED BY <1>3 DEF Init, SweepInit, Tidy

LEMMA NextTidy ==
    ASSUME KindWorks
    PROVE  Typed /\ AllTidy /\ [Next]_vars => AllTidy'
<1> SUFFICES ASSUME Typed, AllTidy, [Next]_vars, NEW p \in Sweeps \ Keepers
             PROVE  Tidy(sweep'[p], Leftovers(p)')
  BY DEF AllTidy
<1>1. Tidy(sweep[p], Leftovers(p))
  BY DEF AllTidy
<1>2. ASSUME sweep'[p] = sweep[p], Leftovers(p)' \subseteq Leftovers(p)
      PROVE  Tidy(sweep'[p], Leftovers(p)')
  BY <1>1, <1>2, FewerIsTidy
<1>3. CASE UNCHANGED vars \/ Rest
  BY <1>2, <1>3, UnchangedLeftovers DEF vars, kindVars, Rest
<1>4. CASE SweepNext
  <2>1. PICK q \in Sweeps : Step(q) \/ Interrupt(q)
    BY <1>4 DEF SweepNext
  <2>2. CASE q = p
    BY <1>1, <2>1, <2>2, OwnStepTidy
  <2>3. CASE q # p
    <3>1. sweep'[p] = sweep[p]
      BY <2>1, <2>3, SweepRecords DEF Becomes, Typed, TypeOK, SweepTypeOK
    <3>2. At(q, "create") => sweep[q].name \in Names
      BY ClusterAssumption DEF Typed, Complete, Running, At
    <3>3. Leftovers(p)' \subseteq Leftovers(p)
      BY <2>1, <2>3, <3>2, SweepEffect, UnchangedLeftovers, RemovedLeftovers,
         CreatedLeftovers DEF kindVars, MintsName
    <3> QED BY <1>2, <3>1, <3>3
  <2> QED BY <2>2, <2>3
<1>5. CASE CleanNext
  <2>1. PICK c \in Cleaners : CleanStep(c) /\ UNCHANGED sweep
    BY <1>5 DEF CleanNext
  <2>2. Leftovers(p)' \subseteq Leftovers(p)
    BY <2>1, CleanEffect, UnchangedLeftovers, RemovedLeftovers DEF kindVars
  <2> QED BY <1>2, <2>1, <2>2
<1> QED BY <1>3, <1>4, <1>5 DEF Next

LEMMA TidyHolds == ASSUME KindWorks PROVE Spec => [](Typed /\ AllTidy)
<1> QED BY InitTyped, NextTyped, InitTidy, NextTidy, PTL DEF Spec

-----------------------------------------------------------------------------
\* However the bodies of its runs end and wherever Ctrl-C is pressed, a sweep
\* without --keep never has two clusters, if kind neither hangs nor fails.
THEOREM OneClusterAtATime ==
    ASSUME KindWorks
    PROVE  Spec => []OneClusterPerSweep
<1>1. AllTidy => OneClusterPerSweep
  <2> SUFFICES ASSUME AllTidy, NEW p \in Sweeps \ Keepers
               PROVE  Cardinality(Leftovers(p)) <= 1
    BY DEF OneClusterPerSweep
  <2>1. Leftovers(p) \subseteq {sweep[p].name}
    BY DEF AllTidy, Tidy
  <2>2. Leftovers(p) = {} \/ Leftovers(p) = {sweep[p].name}
    BY <2>1
  <2>3. Cardinality({}) = 0 /\ Cardinality({sweep[p].name}) = 1
    BY FS_EmptySet, FS_Singleton
  <2> QED BY <2>2, <2>3
<1> QED BY <1>1, TidyHolds, PTL

\* An ended sweep has left a cluster only if Ctrl-C came before the try
\* statement was entered or while a deletion was at work.
THEOREM LeaksNeedAWindow ==
    ASSUME KindWorks
    PROVE  Spec => []OnlyWindowsLeak
<1>1. AllTidy => OnlyWindowsLeak
  BY DEF AllTidy, Tidy, OnlyWindowsLeak, At, Windows
<1> QED BY <1>1, TidyHolds, PTL
=============================================================================
