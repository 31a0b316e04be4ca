--------------------------- MODULE GradingProofs ---------------------------
(***************************************************************************)
(* Proofs about Grading for every set of checks, every number of pods and  *)
(* every timeout, poll and read time.                                      *)
(***************************************************************************)
EXTENDS Grading, FiniteSetTheorems, TLAPS

Answered == {i \in 1..Len(results) : i \notin unanswered}

\* Where the clocks can be: a round begins before the timeout and a sleep are
\* over, and each read of it takes at most ReadSeconds.
Clocks ==
    /\ pc = "sleep" => now <= TimeoutSeconds + elapsed /\ elapsed <= PollSeconds
    /\ pc # "sleep" => now <= TimeoutSeconds + PollSeconds
                                + Len(results) * ReadSeconds + elapsed
    /\ pc # "sleep" => elapsed <= ReadSeconds
    /\ pc # "sleep" /\ AllRead => elapsed = 0
    /\ pc = "raised" => ~AllRead
    /\ pc \in {"sleep", "done"} => AllRead

\* What is known of the results gathered so far in the round.
Findings ==
    /\ ~changed => \A i \in Answered : results[i] = evaluate(checks[i], LiveView)
    /\ \A i \in unanswered : results[i] = evaluate(checks[i], EmptyView)
    /\ pc = "done" => passed \/ OutOfTime

\* If the checks have been passing since before the round began, then all that
\* were answered in it have passed.
Caught ==
    Repaired /\ pc # "sleep"
        /\ heldSince + Len(results) * ReadSeconds + elapsed < now =>
    \A i \in Answered : results[i]

Inv == TypeOK /\ Clocks /\ Findings /\ Caught

LEMMA EvaluateBoolean ==
    ASSUME NEW c, NEW v PROVE evaluate(c, v) \in BOOLEAN
  BY DEF evaluate, PodsReady, PodRestartsBelow, FieldEquals, FieldPresent,
         ResourceAbsent

LEMMA ChecksType ==
    ASSUME checks \in Verifications
    PROVE  /\ checks \in Seq(CheckKinds) /\ Len(checks) \in Nat
           /\ Len(checks) > 0
  BY GradingAssumption

\* One more read is worth ReadSeconds.
LEMMA OneMore ==
    ASSUME NEW n \in Nat, NEW r \in Nat
    PROVE  /\ n * r \in Nat /\ (n + 1) * r = n * r + r
  OBVIOUS

LEMMA AtMost ==
    ASSUME NEW m \in Nat, NEW n \in Nat, NEW r \in Nat, m <= n
    PROVE  m * r <= n * r
<1>1. PICK d \in Nat : n = m + d
  <2>1. n - m \in Nat /\ n = m + (n - m)
    OBVIOUS
  <2> QED BY <2>1
<1>2. n * r = m * r + d * r /\ m * r \in Nat /\ d * r \in Nat
  BY <1>1
<1> QED BY <1>2

LEMMA InitInv == Init => Inv
<1> SUFFICES ASSUME Init PROVE Inv
  OBVIOUS
<1>1. Len(checks) \in Nat /\ Len(checks) > 0 /\ results = <<>> /\ unanswered = {}
  BY ChecksType DEF Init
<1>2. WorkloadTypeOK
  <2>1. PICK used \in SUBSET Slots :
            pods \in [used -> {pod \in Pod : ~pod.new /\ pod.restarts = RestartCap}]
    BY DEF Init, WorkloadInit
  <2>2. pods \in [used -> Pod]
    BY <2>1
  <2> QED BY <2>2 DEF Init, WorkloadInit, WorkloadTypeOK
<1>3. TypeOK
  <2>1. results \in Seq(BOOLEAN) /\ Len(results) = 0 /\ unanswered \subseteq 1..Len(results)
    BY <1>1
  <2>2. checks \in Verifications /\ pc \in {"read", "sleep", "done", "raised"}
    BY DEF Init
  <2>3. now \in Nat /\ elapsed \in Nat /\ heldSince \in Nat
    BY DEF Init
  <2>4. changed \in BOOLEAN
    BY DEF Init
  <2>5. Len(results) <= Len(checks)
    BY <1>1, <2>1
  <2> QED BY <1>2, <2>1, <2>2, <2>3, <2>4, <2>5 DEF TypeOK
<1>4. Clocks
  BY <1>1, GradingAssumption DEF Init, Clocks, AllRead
<1>5. Findings /\ Caught
  BY <1>1 DEF Init, Findings, Caught, Answered
<1> QED BY <1>3, <1>4, <1>5 DEF Inv

LEMMA WorkloadTypes ==
    ASSUME WorkloadTypeOK, WorkloadStep
    PROVE  WorkloadTypeOK'
<1> PICK used \in SUBSET Slots : pods \in [used -> Pod]
  BY DEF WorkloadTypeOK
<1> USE WorkloadAssumption DEF WorkloadTypeOK, Used
<1>1. ASSUME NEW s \in Slots, Surge(s) PROVE WorkloadTypeOK'
  <2> DEFINE fresh == [new |-> TRUE, ready |-> FALSE, restarts |-> 0]
  <2>1. fresh \in Pod
    BY DEF Pod
  <2>2. pods' \in [used \cup {s} -> Pod]
    BY <1>1, <2>1 DEF Surge
  <2>3. used \cup {s} \in SUBSET Slots
    OBVIOUS
  <2> QED BY <1>1, <2>2, <2>3 DEF Surge
<1>2. ASSUME NEW s \in Slots, Terminate(s) PROVE WorkloadTypeOK'
  <2>1. pods' \in [used \ {s} -> Pod]
    BY <1>2 DEF Terminate
  <2> QED BY <1>2, <2>1 DEF Terminate
<1>3. ASSUME NEW s \in Slots, BecomesReady(s) PROVE WorkloadTypeOK'
  <2>1. s \in used /\ pods[s] \in Pod
    BY <1>3 DEF BecomesReady
  <2>2. [pods[s] EXCEPT !.ready = TRUE] \in Pod
    BY <2>1 DEF Pod
  <2>3. pods' \in [used -> Pod]
    BY <1>3, <2>1, <2>2 DEF BecomesReady
  <2> QED BY <1>3, <2>3 DEF BecomesReady
<1>4. ASSUME NEW s \in Slots, Crash(s) PROVE WorkloadTypeOK'
  <2> DEFINE more(n) == IF n < RestartCap THEN n + 1 ELSE n
  <2>1. s \in used /\ pods[s] \in Pod
    BY <1>4 DEF Crash
  <2>2. more(pods[s].restarts) \in 0..RestartCap
    BY <2>1 DEF Pod
  <2>3. [pods[s] EXCEPT !.ready = FALSE, !.restarts = more(@)] \in Pod
    BY <2>1, <2>2 DEF Pod
  <2>4. pods' = [pods EXCEPT ![s] =
                    [pods[s] EXCEPT !.ready = FALSE, !.restarts = more(@)]]
    BY <1>4, <2>1 DEF Crash, Pod
  <2>5. pods' \in [used -> Pod]
    BY <2>1, <2>3, <2>4
  <2> QED BY <1>4, <2>5 DEF Crash
<1>5. CASE ObjectChanges
  BY <1>5 DEF ObjectChanges, Objects
<1> QED BY <1>1, <1>2, <1>3, <1>4, <1>5 DEF WorkloadStep

LEMMA NextInv == Inv /\ [Next]_vars => Inv'
<1> SUFFICES ASSUME TypeOK, Clocks, Findings, Caught, [Next]_vars
             PROVE  TypeOK' /\ Clocks' /\ Findings' /\ Caught'
  BY DEF Inv
<1> USE GradingAssumption
<1>0. /\ Len(checks) \in Nat /\ Len(results) \in Nat
      /\ Len(results) * ReadSeconds \in Nat
  BY ChecksType, OneMore DEF TypeOK
<1>1. CASE UNCHANGED vars
  <2>1. UNCHANGED <<pods, object, health, checks, pc, results, unanswered,
                    elapsed, now, changed, heldSince>>
    BY <1>1 DEF vars, workload, grader
  <2> QED BY <2>1 DEF TypeOK, WorkloadTypeOK, Clocks, Findings, Caught, Answered, AllRead, passed,
          OutOfTime, Repaired, LiveView, EmptyView
<1>2. CASE Read
  <2> DEFINE i == Len(results) + 1
  <2>1. /\ pc = "read" /\ pc' = "read" /\ elapsed' = 0
        /\ UNCHANGED <<pods, object, health, checks, now, changed, heldSince>>
        /\ Len(results) < Len(checks)
    BY <1>0, <1>2 DEF Read, workload, TypeOK, AllRead
  <2>2. PICK b \in BOOLEAN :
          /\ results' = Append(results, b)
          /\ \/ unanswered' = unanswered /\ b = evaluate(checks[i], LiveView)
             \/ /\ unanswered' = unanswered \cup {i}
                /\ b = evaluate(checks[i], EmptyView)
    BY <1>2, EvaluateBoolean DEF Read
  <2>3. /\ Len(results') = i /\ results'[i] = b /\ results' \in Seq(BOOLEAN)
        /\ \A j \in 1..Len(results) : results'[j] = results[j]
    BY <2>2 DEF TypeOK
  <2>4. /\ unanswered \subseteq 1..Len(results) /\ i \notin 1..Len(results)
        /\ 1..i = 1..Len(results) \cup {i}
    BY <1>0 DEF TypeOK
  <2>5. TypeOK'
    <3>1. unanswered' \subseteq 1..Len(results')
      BY <2>2, <2>3, <2>4
    <3>2. Len(results') <= Len(checks')
      BY <1>0, <2>1, <2>3
    <3> QED BY <2>1, <2>3, <3>1, <3>2 DEF TypeOK, WorkloadTypeOK
  <2>6. Len(results') * ReadSeconds = Len(results) * ReadSeconds + ReadSeconds
    BY <1>0, <2>3, OneMore
  <2>7. elapsed <= ReadSeconds /\ now \in Nat /\ elapsed \in Nat /\ heldSince \in Nat
    BY <2>1 DEF Clocks, TypeOK
  <2>8. now <= TimeoutSeconds + PollSeconds + Len(results) * ReadSeconds + elapsed
    BY <2>1 DEF Clocks
  <2>9. now' <= TimeoutSeconds + PollSeconds + Len(results') * ReadSeconds + elapsed'
    BY <1>0, <2>1, <2>6, <2>7, <2>8
  <2>10. Clocks'
    BY <2>1, <2>9 DEF Clocks
  <2>11. \A j \in Answered' : \/ j \in Answered
                              \/ j = i /\ b = evaluate(checks[i], LiveView)
    BY <2>2, <2>3, <2>4 DEF Answered
  <2>12. LiveView' = LiveView /\ EmptyView' = EmptyView
    BY <2>1 DEF LiveView, EmptyView
  <2>13. Findings'
    <3>1. \A j \in unanswered' :
              \/ j \in unanswered
              \/ j = i /\ b = evaluate(checks[i], EmptyView)
      BY <2>2
    <3>2. \A j \in unanswered' : results'[j] = evaluate(checks'[j], EmptyView')
      BY <2>1, <2>3, <2>4, <2>12, <3>1 DEF Findings, EmptyView
    <3>3. ~changed' => \A j \in Answered' :
                            results'[j] = evaluate(checks'[j], LiveView')
      <4> SUFFICES ASSUME ~changed', NEW j \in Answered'
                   PROVE  results'[j] = evaluate(checks[j], LiveView)
        BY <2>1, <2>12
      <4>1. CASE j \in Answered
        BY <2>1, <2>3, <4>1 DEF Findings, Answered
      <4>2. CASE j = i /\ b = evaluate(checks[i], LiveView)
        BY <2>3, <4>2
      <4> QED BY <2>11, <4>1, <4>2
    <3> QED BY <2>1, <3>2, <3>3 DEF Findings
  <2>14. Caught'
    <3> SUFFICES ASSUME Repaired,
                        heldSince + Len(results') * ReadSeconds + elapsed' < now',
                        NEW j \in Answered'
                 PROVE  results'[j]
      BY <2>1, <2>12 DEF Caught, Repaired
    <3>1. heldSince + Len(results) * ReadSeconds + elapsed < now
      BY <1>0, <2>1, <2>6, <2>7
    <3>2. CASE j \in Answered
      BY <2>1, <2>3, <3>1, <3>2 DEF Caught, Answered
    <3>3. CASE j = i /\ b = evaluate(checks[i], LiveView)
      <4>1. i \in 1..Len(checks)
        BY <1>0, <2>1
      <4> QED BY <2>3, <3>3, <4>1 DEF Repaired
    <3> QED BY <2>11, <3>2, <3>3
  <2> QED BY <2>5, <2>10, <2>13, <2>14
<1>3. CASE ReadTimesOut
  <2>1. /\ pc = "read" /\ pc' = "raised" /\ ~AllRead
        /\ UNCHANGED <<pods, object, health, checks, results, unanswered,
                       elapsed, now, changed, heldSince>>
    BY <1>3 DEF ReadTimesOut, workload
  <2> QED BY <2>1 DEF TypeOK, WorkloadTypeOK, Clocks, Findings, Caught, Answered, AllRead, Repaired,
          LiveView, EmptyView
<1>4. CASE Decide
  <2>1. /\ pc = "read" /\ AllRead
        /\ UNCHANGED <<pods, object, health, checks, results, unanswered,
                       elapsed, now, changed, heldSince>>
        /\ \/ (passed \/ OutOfTime) /\ pc' = "done"
           \/ ~OutOfTime /\ pc' = "sleep"
    BY <1>4 DEF Decide, workload
  <2>2. elapsed = 0 /\ now \in Nat
    BY <2>1 DEF Clocks, TypeOK
  <2>3. TypeOK'
    BY <2>1 DEF TypeOK, WorkloadTypeOK
  <2>4. Clocks'
    BY <2>1, <2>2 DEF Clocks, AllRead, OutOfTime
  <2>5. Findings' /\ Caught'
    BY <2>1 DEF Findings, Caught, Answered, passed, OutOfTime, Repaired, LiveView,
       EmptyView
  <2> QED BY <2>3, <2>4, <2>5
<1>5. CASE Wake
  <2>1. /\ pc = "sleep" /\ elapsed = PollSeconds /\ pc' = "read"
        /\ results' = <<>> /\ unanswered' = {} /\ elapsed' = 0 /\ changed' = FALSE
        /\ UNCHANGED <<pods, object, health, checks, now, heldSince>>
    BY <1>5 DEF Wake, workload
  <2>2. /\ Len(results') = 0 /\ results' \in Seq(BOOLEAN) /\ 0 * ReadSeconds = 0
        /\ unanswered' \subseteq 1..Len(results')
    BY <2>1
  <2>3. TypeOK'
    <3>1. WorkloadTypeOK'
      BY <2>1 DEF TypeOK, WorkloadTypeOK
    <3>2. checks' \in Verifications /\ now' \in Nat /\ heldSince' \in Nat
      BY <2>1 DEF TypeOK
    <3>3. pc' \in {"read", "sleep", "done", "raised"} /\ elapsed' \in Nat
      BY <2>1
    <3>4. Len(results') <= Len(checks')
      BY <1>0, <2>1, <2>2
    <3>5. changed' \in BOOLEAN
      BY <2>1
    <3> QED BY <2>2, <3>1, <3>2, <3>3, <3>4, <3>5 DEF TypeOK
  <2>4. Clocks'
    BY <2>1, <2>2 DEF Clocks, AllRead, TypeOK
  <2>5. Answered' = {}
    BY <2>2 DEF Answered
  <2>6. Findings' /\ Caught'
    BY <2>1, <2>5 DEF Findings, Caught
  <2> QED BY <2>3, <2>4, <2>6
<1>6. CASE Tick
  <2>1. /\ now' = now + 1 /\ elapsed' = elapsed + 1
        /\ UNCHANGED <<pods, object, health, checks, pc, results, unanswered,
                       changed, heldSince>>
        /\ \/ pc = "read" /\ ~AllRead /\ elapsed < ReadSeconds
           \/ pc = "sleep" /\ elapsed < PollSeconds
    BY <1>6 DEF Tick, workload
  <2>2. now \in Nat /\ elapsed \in Nat /\ heldSince \in Nat
    BY DEF TypeOK
  <2>3. TypeOK'
    BY <2>1, <2>2 DEF TypeOK, WorkloadTypeOK
  <2>4. Clocks'
    BY <1>0, <2>1, <2>2 DEF Clocks, AllRead
  <2>5. Findings'
    BY <2>1 DEF Findings, Answered, LiveView, EmptyView, passed, OutOfTime
  <2>6. Caught'
    <3> SUFFICES ASSUME Repaired, pc # "sleep",
                        heldSince + Len(results) * ReadSeconds + elapsed' < now'
                 PROVE  \A i \in Answered : results[i]
      BY <2>1 DEF Caught, Repaired, LiveView, Answered
    <3>1. heldSince + Len(results) * ReadSeconds + elapsed < now
      BY <1>0, <2>1, <2>2
    <3> QED BY <3>1 DEF Caught
  <2> QED BY <2>3, <2>4, <2>5, <2>6
<1>7. CASE Kubernetes
  <2>1. /\ pc \in {"read", "sleep"} /\ WorkloadStep /\ changed' = TRUE
        /\ heldSince' = IF Repaired THEN heldSince ELSE now
        /\ UNCHANGED <<checks, pc, results, unanswered, elapsed, now>>
    BY <1>7 DEF Kubernetes, grader, Running
  <2>2. WorkloadTypeOK'
    BY <2>1, WorkloadTypes DEF TypeOK, WorkloadTypeOK
  <2>3. now \in Nat /\ elapsed \in Nat /\ heldSince \in Nat
    BY DEF TypeOK
  <2>4. TypeOK'
    BY <2>1, <2>2, <2>3 DEF TypeOK, WorkloadTypeOK
  <2>5. Clocks'
    BY <2>1 DEF Clocks, AllRead
  <2>6. Findings'
    BY <2>1 DEF Findings, EmptyView
  <2>7. Caught'
    <3>1. CASE Repaired
      BY <2>1, <3>1 DEF Caught, Answered
    <3>2. CASE ~Repaired
      <4>1. ~(heldSince' + Len(results') * ReadSeconds + elapsed' < now')
        BY <1>0, <2>1, <2>3, <3>2
      <4> QED BY <4>1 DEF Caught
    <3> QED BY <3>1, <3>2
  <2> QED BY <2>4, <2>5, <2>6, <2>7
<1> QED BY <1>1, <1>2, <1>3, <1>4, <1>5, <1>6, <1>7 DEF Next, Grade

LEMMA InvHolds == Spec => []Inv
<1> QED BY InitInv, NextInv, PTL DEF Spec

\* Every variable keeps its type.
THEOREM TypesHold == Spec => []TypeOK
<1>1. Inv => TypeOK
  BY DEF Inv
<1> QED BY <1>1, InvHolds, PTL

\* A verdict given over a workload that kept still is the truth about it.
THEOREM QuietRoundsAreExact == Spec => []QuietRoundIsExact
<1>1. Inv => QuietRoundIsExact
  <2> SUFFICES ASSUME Inv, pc = "done", ~changed, unanswered = {}
               PROVE  passed <=> Repaired
    BY DEF QuietRoundIsExact
  <2>1. Len(results) = Len(checks)
    BY DEF Inv, Clocks, AllRead
  <2>2. Answered = 1..Len(results)
    BY DEF Answered
  <2>3. \A i \in 1..Len(results) : results[i] = evaluate(checks[i], LiveView)
    BY <2>2 DEF Inv, Findings
  <2> QED BY <2>1, <2>3 DEF passed, Repaired
<1> QED BY <1>1, InvHolds, PTL

\* Whatever came right a round before the timeout and stayed right passes.
THEOREM RightInTime == Spec => []RightInTimePasses
<1>1. Inv => RightInTimePasses
  <2> SUFFICES ASSUME Inv, pc = "done", Repaired, unanswered = {},
                      heldSince + RoundSeconds < TimeoutSeconds
               PROVE  passed
    BY DEF RightInTimePasses
  <2>1. Len(results) = Len(checks) /\ elapsed = 0
    BY DEF Inv, Clocks, AllRead
  <2>2. CASE OutOfTime
    <3>1. /\ now \in Nat /\ heldSince \in Nat /\ TimeoutSeconds \in Nat
          /\ RoundSeconds \in Nat
      BY GradingAssumption, ChecksType, OneMore DEF Inv, TypeOK, RoundSeconds
    <3>2. heldSince + Len(results) * ReadSeconds + elapsed < now
      BY <2>1, <2>2, <3>1 DEF OutOfTime, RoundSeconds
    <3>3. \A i \in Answered : results[i]
      BY <3>2 DEF Inv, Caught
    <3> QED BY <3>3 DEF passed, Answered
  <2> QED BY <2>2 DEF Inv, Findings
<1> QED BY <1>1, InvHolds, PTL

\* No check but one for absence passes on a read that was not answered.
THEOREM PassesAreAnswered == Spec => []NoPassUnanswered
<1>1. Inv => NoPassUnanswered
  <2> SUFFICES ASSUME Inv, passed, NEW i \in unanswered
               PROVE  \/ checks[i] = "resource_absent"
                      \/ checks[i] = "pods_ready" /\ Count = 0
    BY DEF NoPassUnanswered
  <2>1. evaluate(checks[i], EmptyView)
    <3>1. i \in 1..Len(results)
      BY DEF Inv, TypeOK
    <3> QED BY <3>1 DEF Inv, Findings, passed
  <2>2. EmptyView.pods = <<>> /\ EmptyView.object = "gone" /\ DOMAIN <<>> = {}
    BY DEF EmptyView
  <2>3. Cardinality({s \in DOMAIN EmptyView.pods : EmptyView.pods[s].ready}) = 0
    <3>1. {s \in DOMAIN EmptyView.pods : EmptyView.pods[s].ready} = {}
      BY <2>2
    <3> QED BY <3>1, FS_EmptySet
  <2> QED BY <2>1, <2>2, <2>3
          DEF evaluate, PodsReady, PodRestartsBelow, FieldEquals, FieldPresent,
              ResourceAbsent
<1> QED BY <1>1, InvHolds, PTL

\* Grading is over by the timeout, a sleep and a round.
THEOREM GradingIsBounded == Spec => []GradingBounded
<1>1. Inv => GradingBounded
  <2> SUFFICES ASSUME Inv PROVE GradingBounded
    OBVIOUS
  <2>1. /\ Len(results) \in Nat /\ Len(checks) \in Nat /\ ReadSeconds \in Nat
        /\ Len(results) <= Len(checks) /\ now \in Nat /\ elapsed \in Nat
        /\ TimeoutSeconds \in Nat /\ PollSeconds \in Nat
    BY GradingAssumption, ChecksType DEF Inv, TypeOK
  <2>2. RoundSeconds \in Nat
    BY <2>1, OneMore DEF RoundSeconds
  <2>3. CASE pc = "sleep"
    BY <2>1, <2>2, <2>3 DEF Inv, Clocks, GradingBounded
  <2>4. CASE pc # "sleep" /\ AllRead
    BY <2>1, <2>2, <2>4 DEF Inv, Clocks, GradingBounded, AllRead, RoundSeconds
  <2>5. CASE pc # "sleep" /\ ~AllRead
    <3>1. Len(results) + 1 <= Len(checks)
      BY <2>1, <2>5 DEF AllRead
    <3>2. (Len(results) + 1) * ReadSeconds <= Len(checks) * ReadSeconds
      BY <2>1, <3>1, AtMost
    <3>3. Len(results) * ReadSeconds + ReadSeconds <= RoundSeconds
      BY <2>1, <3>2, OneMore DEF RoundSeconds
    <3>4. /\ now <= TimeoutSeconds + PollSeconds + Len(results) * ReadSeconds + elapsed
          /\ elapsed <= ReadSeconds
      BY <2>5 DEF Inv, Clocks
    <3>5. Len(results) * ReadSeconds \in Nat
      BY <2>1, OneMore
    <3> QED BY <2>1, <2>2, <3>3, <3>4, <3>5 DEF GradingBounded
  <2> QED BY <2>3, <2>4, <2>5
<1> QED BY <1>1, InvHolds, PTL
=============================================================================
