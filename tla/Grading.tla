------------------------------ MODULE Grading ------------------------------
(***************************************************************************)
(* evaluate_until_passing of src/arena/settle.py: poll the checks of a     *)
(* scenario until they pass or its timeout is over, while the workload     *)
(* changes between any two reads.                                          *)
(*                                                                         *)
(* pc: read (inside Verification.evaluate), sleep, done, raised.  Time     *)
(* passes in whole units, while a kubectl call is out and while the grader *)
(* sleeps; the verdict ends the model.                                     *)
(***************************************************************************)
EXTENDS Checks, Sequences

CONSTANTS
    Verifications,      \* the checks a scenario may declare
    TimeoutSeconds,     \* scenario.timeout_seconds
    PollSeconds,        \* DEFAULT_POLL_SECONDS
    ReadSeconds,        \* LiveClusterView.timeout_seconds
    Faults              \* of kubectl: "empty", "timeout"

ASSUME GradingAssumption ==
    /\ Verifications \subseteq Seq(CheckKinds) \ {<<>>}
    /\ TimeoutSeconds \in Nat /\ ReadSeconds \in Nat
    /\ PollSeconds \in Nat \ {0}

VARIABLES
    checks,         \* the scenario's
    pc,
    results,        \* of this round, a BOOLEAN for each check read
    unanswered,     \* history: the checks of this round kubectl did not answer
    now,            \* time since the grading began
    elapsed,        \* ... since the read or the sleep began
    changed,        \* history: has the workload changed since the round began?
    heldSince       \* history: when it last changed from not passing

grader == <<checks, pc, results, unanswered, elapsed>>
vars == <<workload, grader, now, changed, heldSince>>

Running == pc \in {"read", "sleep"}

\* Would all checks pass if they were read now, at once?
Repaired == \A i \in 1..Len(checks) : evaluate(checks[i], LiveView)

Init ==
    /\ WorkloadInit
    /\ checks \in Verifications /\ pc = "read"
    /\ results = <<>> /\ unanswered = {}
    /\ now = 0 /\ elapsed = 0
    /\ changed = FALSE /\ heldSince = 0

-----------------------------------------------------------------------------
\* Slips the runs must notice; nothing below uses them.
NeverOutOfTime == FALSE
GivesUpEarly == now + PollSeconds >= TimeoutSeconds
SkipsUnanswered ==   \* a check that gets no answer leaves no result
    /\ pc = "read" /\ Len(results) < Len(checks)
    /\ LET i == Len(results) + 1
       IN \/ /\ results' = Append(results, evaluate(checks[i], LiveView))
             /\ UNCHANGED unanswered
          \/ /\ "empty" \in Faults
             /\ unanswered' = unanswered \cup {i}
             /\ UNCHANGED results
    /\ elapsed' = 0
    /\ UNCHANGED <<workload, checks, pc, now, changed, heldSince>>
FirstLook ==    \* only the first round reads
    /\ pc = "sleep" /\ elapsed = PollSeconds
    /\ pc' = "read" /\ elapsed' = 0 /\ changed' = FALSE
    /\ UNCHANGED <<workload, checks, results, unanswered, now, heldSince>>
WatchInsteadOfPoll ==
    /\ pc = "sleep" /\ elapsed = PollSeconds /\ changed
    /\ pc' = "read" /\ results' = <<>> /\ unanswered' = {}
    /\ elapsed' = 0 /\ changed' = FALSE
    /\ UNCHANGED <<workload, checks, now, heldSince>>
-----------------------------------------------------------------------------

AllRead == Len(results) = Len(checks)
passed == \A i \in 1..Len(results) : results[i]
OutOfTime == now >= TimeoutSeconds

\* The next check reads the cluster, by a kubectl call of its own.
Read ==
    /\ pc = "read" /\ ~AllRead
    /\ LET i == Len(results) + 1
       IN \/ /\ results' = Append(results, evaluate(checks[i], LiveView))
             /\ UNCHANGED unanswered
          \/ /\ "empty" \in Faults
             /\ results' = Append(results, evaluate(checks[i], EmptyView))
             /\ unanswered' = unanswered \cup {i}
    /\ elapsed' = 0
    /\ UNCHANGED <<workload, checks, pc, now, changed, heldSince>>

\* subprocess.run gives up on kubectl, and no check catches TimeoutExpired.
ReadTimesOut ==
    /\ pc = "read" /\ ~AllRead /\ elapsed = ReadSeconds /\ "timeout" \in Faults
    /\ pc' = "raised"
    /\ UNCHANGED <<workload, checks, results, unanswered, elapsed, now, changed,
                   heldSince>>

\* After a round: return its outcome, or sleep.
Decide ==
    /\ pc = "read" /\ AllRead
    /\ \/ (passed \/ OutOfTime) /\ pc' = "done"
       \/ ~passed /\ ~OutOfTime /\ pc' = "sleep"
    /\ UNCHANGED <<workload, checks, results, unanswered, elapsed, now, changed,
                   heldSince>>

\* The sleep is over; the next round begins.
Wake ==
    /\ pc = "sleep" /\ elapsed = PollSeconds
    /\ pc' = "read" /\ results' = <<>> /\ unanswered' = {}
    /\ elapsed' = 0 /\ changed' = FALSE
    /\ UNCHANGED <<workload, checks, now, heldSince>>

Grade == Read \/ ReadTimesOut \/ Decide \/ Wake

Tick ==
    /\ \/ pc = "read" /\ ~AllRead /\ elapsed < ReadSeconds
       \/ pc = "sleep" /\ elapsed < PollSeconds
    /\ now' = now + 1 /\ elapsed' = elapsed + 1
    /\ UNCHANGED <<workload, checks, pc, results, unanswered, changed, heldSince>>

Kubernetes ==
    /\ Running /\ WorkloadStep
    /\ changed' = TRUE
    /\ heldSince' = IF Repaired THEN heldSince ELSE now
    /\ UNCHANGED <<grader, now>>

Next == Grade \/ Tick \/ Kubernetes

Spec == Init /\ [][Next]_vars

\* The grader runs and its clock does; Kubernetes owes nobody anything.
FairSpec == Spec /\ WF_vars(Grade) /\ WF_vars(Tick)

-----------------------------------------------------------------------------
\* The values every variable ranges over.
TypeOK ==
    /\ WorkloadTypeOK
    /\ checks \in Verifications
    /\ pc \in {"read", "sleep", "done", "raised"}
    /\ results \in Seq(BOOLEAN) /\ Len(results) <= Len(checks)
    /\ unanswered \subseteq 1..Len(results)
    /\ now \in Nat /\ elapsed \in Nat /\ heldSince \in Nat
    /\ changed \in BOOLEAN

\* The longest a round can take.
RoundSeconds == Len(checks) * ReadSeconds

\* When the workload keeps still for the last round and kubectl answers, the
\* verdict is the truth about the cluster, however much it changed in the
\* rounds before (settle.py: "the cluster's final state rather than a stale
\* first look").
QuietRoundIsExact ==
    pc = "done" /\ ~changed /\ unanswered = {} => (passed <=> Repaired)

\* A cluster that came right, and stayed so, a round's length before the
\* timeout is never failed: grading does not "measure reaction time".
RightInTimePasses ==
    pc = "done" /\ Repaired /\ heldSince + RoundSeconds < TimeoutSeconds
        /\ unanswered = {} => passed

\* A pass rests on no read that kubectl left unanswered, unless a check asks
\* for absence: no other check takes nothing for good news.
NoPassUnanswered ==
    pc = "done" /\ passed =>
        \A i \in unanswered :
            \/ checks[i] = "resource_absent"
            \/ checks[i] = "pods_ready" /\ Count = 0

\* A verdict is late by less than a sleep and a round (test_settle: "bounded by
\* the timeout, give or take one poll"), and by no more than the first round
\* when the timeout is zero.
GradingBounded == now <= TimeoutSeconds + PollSeconds + RoundSeconds

\* There is a verdict, or an exception, whatever the workload does.
GradingEnds == <>~Running

-----------------------------------------------------------------------------
\* What the repository says and the code does not do.

\* PodRestartsBelow: "Restart count is the stability signal that does not
\* flap": with it, a workload that crashes for ever is never called fixed.
CrashLoopNeverPasses ==
    pc = "done" /\ passed /\ health \in {"crashes", "none"} =>
        ~\E i \in 1..Len(checks) : checks[i] = "pod_restarts_below"
=============================================================================
