---------------------------- MODULE LedgerProofs ----------------------------
(***************************************************************************)
(* Arena implements Ledger, for every value of the constants.              *)
(***************************************************************************)
EXTENDS ArenaProofs

\* A sweep has landed one result for each run it has finished.
Counted ==
    \A p \in Sweeps : sweep[p].stage # "exited" =>
        sweep[p].run =
            Len(sweep[p].landed) + (IF Running(sweep[p]) THEN 1 ELSE 0)

Due == [p \in Sweeps |-> Runs]
Opened == [p \in Sweeps |-> sweep[p].stage \notin {"probe", "next", "exited"}]
Landed == [p \in Sweeps |-> sweep[p].landed]
File == [p \in Sweeps |-> sweep[p].file]
Over == [p \in Sweeps |-> At(p, "exited")]

\* What a step of a sweep does to its record, as far as Ledger can see.
Same(r, s) == r.landed = s.landed /\ r.file = s.file /\ r.run = s.run
Moves(p, r) ==
    LET s == sweep[p] IN
    \/ /\ Same(r, s) /\ s.stage # "exited"
       /\ r.stage = "exited" \/ (s.stage = "probe" /\ r.stage = "next")
            \/ (Running(s) /\ Running(r))
    \/ /\ s.stage = "next" /\ s.run < Runs /\ Running(r)
       /\ r.run = s.run + 1 /\ r.landed = s.landed /\ r.file = s.file
    \/ /\ Running(s) /\ r.stage = "next" /\ r.run = s.run /\ r.file = s.file
       /\ \E l \in Results : r.landed = Append(s.landed, l)
    \/ /\ s.stage = "next" /\ ~(s.run < Runs) /\ r.stage = "exited"
       /\ r.run = s.run /\ r.landed = s.landed /\ r.file = s.landed

LEMMA SweepRecordMoves ==
    ASSUME Typed, NEW p \in Sweeps, Step(p) \/ Interrupt(p)
    PROVE  \E r : Becomes(p, r) /\ Moves(p, r)
<1> DEFINE s == sweep[p]
<1>s. s \in Records /\ Complete(s)
  BY DEF Typed, TypeOK, SweepTypeOK
<1>1. CASE StartRun(p)
  <2>1. PICK n \in MintNames :
          Becomes(p, [s EXCEPT !.stage = "create", !.name = n,
                          !.run = @ + 1, !.grade = "none", !.evidence = {}])
    BY <1>1 DEF StartRun
  <2> DEFINE r == [s EXCEPT !.stage = "create", !.name = n,
                          !.run = @ + 1, !.grade = "none", !.evidence = {}]
  <2>2. /\ r.stage = "create" /\ r.run = s.run + 1
        /\ r.landed = s.landed /\ r.file = s.file
    BY <1>s DEF Records
  <2>3. Moves(p, r)
    BY <1>1, <2>2 DEF StartRun, MoreToRun, At, Moves, Running
  <2> QED BY <2>1, <2>3
<1>2. CASE Land(p)
  <2>1. PICK l \in Results : Becomes(p, [s EXCEPT !.stage = "next",
                !.exc = "none", !.landed = Append(@, l)])
    BY <1>2, <1>s DEF Land, Complete, Graded, At, Results
  <2>2. Moves(p, [s EXCEPT !.stage = "next", !.exc = "none",
                           !.landed = Append(@, l)])
    BY <1>2, <1>s DEF Records, Moves, Running, Land, At
  <2> QED BY <2>1, <2>2
<1>3. CASE WriteResults(p)
  <2> DEFINE r == [s EXCEPT !.file = s.landed, !.stage = "exited"]
  <2>1. Becomes(p, r) /\ s.stage = "next" /\ ~(s.run < Runs)
    BY <1>3 DEF WriteResults, MoreToRun, At
  <2>2. /\ r.stage = "exited" /\ r.run = s.run
        /\ r.landed = s.landed /\ r.file = s.landed
    BY <1>s DEF Records
  <2>3. Moves(p, r)
    BY <2>1, <2>2 DEF Moves
  <2> QED BY <2>1, <2>3
<1>4. ASSUME NEW to, NEW exc, NEW pressed, s.stage # "exited",
             to = "exited" \/ (Running(s) /\ to \notin {"probe", "next"})
      PROVE  Moves(p, [s EXCEPT !.stage = to, !.exc = exc, !.pressed = pressed])
  BY <1>4, <1>s DEF Moves, Same, Running, Records
<1>5. ASSUME NEW to, NEW exc, s.stage # "exited",
             to = "exited" \/ (Running(s) /\ to \notin {"probe", "next"})
      PROVE  /\ Moves(p, [s EXCEPT !.stage = to, !.exc = exc])
             /\ Moves(p, [s EXCEPT !.exc = exc, !.stage = to])
             /\ Moves(p, [s EXCEPT !.stage = to])
  BY <1>5, <1>s DEF Moves, Same, Running, Records
<1>6. CASE Probe(p)
  <2>1. s.stage = "probe"
    BY <1>6 DEF Probe, At
  <2>2. Moves(p, [s EXCEPT !.stage = "next"])
    BY <2>1, <1>s DEF Moves, Same, Records
  <2> QED BY <1>5, <1>6, <2>1, <2>2 DEF Probe, Exit
<1>7. CASE NoSolution(p) \/ Unwind(p) \/ Enter(p) \/ NoManifests(p)
  BY <1>5, <1>7 DEF NoSolution, Unwind, Enter, NoManifests, Exit, At, Running
<1>8. CASE Create(p)
  BY <1>5, <1>8 DEF Create, At, Running
<1>9. CASE Teardown(p)
  BY <1>5, <1>9 DEF Teardown, At, Running
<1>10. CASE Interrupt(p)
  BY <1>4, <1>10 DEF Interrupt, At, Running, Body
<1>11. CASE Apply(p) \/ Baseline(p) \/ Drive(p) \/ Grade(p) \/ Final(p)
  <2>1. ASSUME NEW from \in Body, NEW to \in Body \cup {"teardown"}, NEW g,
               Proceed(p, from, to, g)
        PROVE  \E r : Becomes(p, r) /\ Moves(p, r)
    <3>1. Moves(p, [s EXCEPT !.stage = to, !.grade = g,
                             !.evidence = @ \cup {Reached(p)}])
      BY <2>1, <1>s DEF Proceed, At, Moves, Same, Running, Body, Records
    <3> QED BY <2>1, <3>1 DEF Proceed
  <2>2. ASSUME NEW from \in Body, NEW e, Raise(p, from, e)
        PROVE  \E r : Becomes(p, r) /\ Moves(p, r)
    BY <2>2, <1>5 DEF Raise, At, Running, Body
  <2> QED BY <1>11, <2>1, <2>2 DEF Apply, Baseline, Drive, Grade, Final, Body
<1> QED BY <1>1, <1>2, <1>3, <1>6, <1>7, <1>8, <1>9, <1>10, <1>11 DEF Step

LEMMA CountedHolds == Spec => []Counted
<1>1. Init => Counted
  <2> SUFFICES ASSUME Init, NEW p \in Sweeps
               PROVE  sweep[p].run = Len(sweep[p].landed)
                          + (IF Running(sweep[p]) THEN 1 ELSE 0)
    BY DEF Counted
  <2>1. sweep[p].run = 0 /\ sweep[p].landed = <<>> /\ ~Running(sweep[p])
    BY DEF Init, SweepInit, Running
  <2> QED BY <2>1
<1>2. Typed /\ Counted /\ [Next]_vars => Counted'
  <2> SUFFICES ASSUME Typed, Counted, [Next]_vars PROVE Counted'
    OBVIOUS
  <2>1. CASE sweep' = sweep
    BY <2>1 DEF Counted
  <2>2. ASSUME NEW p \in Sweeps, NEW r, Becomes(p, r), Moves(p, r)
        PROVE  Counted'
    <3>1. sweep'[p] = r /\ \A q \in Sweeps \ {p} : sweep'[q] = sweep[q]
      BY <2>2 DEF Becomes, Typed, TypeOK, SweepTypeOK
    <3>2. sweep[p].landed \in Seq(Results) /\ sweep[p].run \in Nat
      BY SweepAssumption DEF Typed, Complete, Records
    <3>3. \A l \in Results :
            Len(Append(sweep[p].landed, l)) = Len(sweep[p].landed) + 1
      BY <3>2
    <3>4. r.stage # "exited" =>
            r.run = Len(r.landed) + (IF Running(r) THEN 1 ELSE 0)
      <4>1. sweep[p].stage # "exited" =>
              sweep[p].run = Len(sweep[p].landed)
                                 + (IF Running(sweep[p]) THEN 1 ELSE 0)
        BY DEF Counted
      <4>2. CASE Same(r, sweep[p]) /\ (Running(r) <=> Running(sweep[p]))
                     /\ sweep[p].stage # "exited"
        BY <4>1, <4>2 DEF Same
      <4>3. CASE sweep[p].stage = "next" /\ Running(r)
                     /\ r.run = sweep[p].run + 1 /\ r.landed = sweep[p].landed
        BY <4>1, <4>3, <3>2 DEF Running
      <4>4. CASE Running(sweep[p]) /\ r.stage = "next" /\ r.run = sweep[p].run
                     /\ \E l \in Results : r.landed = Append(sweep[p].landed, l)
        BY <4>1, <4>4, <3>2, <3>3 DEF Running
      <4> QED BY <2>2, <4>2, <4>3, <4>4 DEF Moves, Running
    <3> QED BY <3>1, <3>4 DEF Counted
  <2> QED BY <2>1, <2>2, SweepRecordMoves
          DEF Next, SweepNext, CleanNext, Rest, vars
<1> QED BY <1>1, <1>2, InitTyped, NextTyped, PTL DEF Spec

\* The results file holds a result for every run of the sweep or is not there,
\* and no run is recorded twice or, short of abandoning the sweep, never.
THEOREM ArenaImplementsLedger == Spec => ImplementsLedger
<1>1. Init => LedgerSpec!Init
  <2> SUFFICES ASSUME Init PROVE LedgerSpec!Init
    OBVIOUS
  <2>1. \A p \in Sweeps : /\ sweep[p].stage = "probe"
                          /\ sweep[p].landed = <<>> /\ sweep[p].file = <<>>
    BY DEF Init, SweepInit
  <2>2. Due \in [Sweeps -> Nat]
    BY SweepAssumption DEF Due
  <2> QED BY <2>1, <2>2 DEF LedgerSpec!Init, At, Due
<1>2. Typed /\ Counted /\ [Next]_vars => [LedgerSpec!Next]_(LedgerSpec!ledger)
  <2> SUFFICES ASSUME Typed, Counted, [Next]_vars
               PROVE  LedgerSpec!Next \/ UNCHANGED <<Due, Opened, Landed, File, Over>>
    BY DEF LedgerSpec!ledger, Due, Opened, Landed, File, Over
  <2>d. Due' = Due /\ \A p \in Sweeps : Due[p] = Runs
    BY DEF Due
  <2>1. CASE sweep' = sweep
    BY <2>1, <2>d DEF Opened, Landed, File, Over, At
  <2>2. ASSUME NEW p \in Sweeps, NEW r, Becomes(p, r), Moves(p, r)
        PROVE  LedgerSpec!Next \/ UNCHANGED <<Due, Opened, Landed, File, Over>>
    <3> DEFINE s == sweep[p]
    <3>1. /\ Opened' = [Opened EXCEPT ![p] = Running(r)]
          /\ Landed' = [Landed EXCEPT ![p] = r.landed]
          /\ File' = [File EXCEPT ![p] = r.file]
          /\ Over' = [Over EXCEPT ![p] = (r.stage = "exited")]
      BY <2>2 DEF Becomes, Typed, TypeOK, SweepTypeOK, Opened, Landed, File,
                  Over, At, Running
    <3>2. /\ Opened[p] = Running(s) /\ Landed[p] = s.landed
          /\ File[p] = s.file /\ Over[p] = (s.stage = "exited")
      BY DEF Opened, Landed, File, Over, At, Running
    <3>3. s.stage # "exited" =>
            s.run = Len(s.landed) + (IF Running(s) THEN 1 ELSE 0)
      BY DEF Counted
    <3>4. /\ Opened[p] = Running(r) => Opened' = Opened
          /\ Landed[p] = r.landed => Landed' = Landed
          /\ File[p] = r.file => File' = File
          /\ Over[p] = (r.stage = "exited") => Over' = Over
      <4>1. \A f \in {Opened, Landed, File, Over} : f = [q \in Sweeps |-> f[q]]
        BY DEF Opened, Landed, File, Over
      <4>2. \A f \in {Opened, Landed, File, Over} : [f EXCEPT ![p] = f[p]] = f
        BY <4>1
      <4> QED BY <3>1, <4>2
    <3>5. CASE Same(r, s) /\ s.stage # "exited" /\ r.stage = "exited"
      <4>1. LedgerSpec!Abandon(p)
        BY <2>d, <3>1, <3>2, <3>4, <3>5
           DEF LedgerSpec!Abandon, Due, Opened, Landed, File, Over, Same, Running
      <4> QED BY <4>1 DEF LedgerSpec!Next
    <3>6. CASE Same(r, s) /\ s.stage # "exited" /\ r.stage # "exited"
                   /\ (Running(r) <=> Running(s))
      BY <2>d, <3>2, <3>4, <3>6 DEF Same, Running, Opened, Over, At
    <3>7. CASE /\ s.stage = "next" /\ s.run < Runs /\ Running(r)
               /\ r.run = s.run + 1 /\ r.landed = s.landed /\ r.file = s.file
      <4>1. Len(s.landed) < Runs
        BY <3>3, <3>7, SweepAssumption DEF Typed, Complete, Records, Running
      <4>2. LedgerSpec!Begin(p)
        BY <2>d, <3>1, <3>2, <3>4, <3>7, <4>1
           DEF LedgerSpec!Begin, Due, Opened, Landed, File, Over, Running
      <4> QED BY <4>2 DEF LedgerSpec!Next
    <3>8. CASE /\ Running(s) /\ r.stage = "next" /\ r.file = s.file
               /\ \E l \in Results : r.landed = Append(s.landed, l)
      <4>1. PICK l \in Results : r.landed = Append(Landed[p], l)
        BY <3>2, <3>8
      <4>2. Landed' = [Landed EXCEPT ![p] = Append(@, l)]
        BY <3>1, <4>1
      <4>3. Opened[p] /\ Opened' = [Opened EXCEPT ![p] = FALSE]
        BY <3>1, <3>2, <3>8 DEF Running
      <4>4. File' = File /\ Over' = Over
        BY <3>2, <3>4, <3>8 DEF Running
      <4>5. LedgerSpec!Record(p)
        BY <2>d, <4>2, <4>3, <4>4
           DEF LedgerSpec!Record, Due, Opened, Landed, File, Over
      <4> QED BY <4>5 DEF LedgerSpec!Next
    <3>9. CASE /\ s.stage = "next" /\ ~(s.run < Runs) /\ r.stage = "exited"
               /\ r.landed = s.landed /\ r.file = s.landed
      <4>1. Len(s.landed) = Runs
        BY <3>3, <3>9, SweepAssumption DEF Typed, Complete, Records, Running
      <4>2. LedgerSpec!Publish(p)
        BY <2>d, <3>1, <3>2, <3>4, <3>9, <4>1
           DEF LedgerSpec!Publish, Due, Opened, Landed, File, Over, Running
      <4> QED BY <4>2 DEF LedgerSpec!Next
    <3> QED BY <2>2, <3>5, <3>6, <3>7, <3>8, <3>9 DEF Moves, Running, Same
  <2> QED BY <2>1, <2>2, SweepRecordMoves
          DEF Next, SweepNext, CleanNext, Rest, vars
<1> QED BY <1>1, <1>2, CountedHolds, InitTyped, NextTyped, PTL
        DEF Spec, ImplementsLedger, LedgerSpec!Spec
=============================================================================
