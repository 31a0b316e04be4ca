---------------------------- MODULE AgentDriver ----------------------------
(***************************************************************************)
(* What the harness relies on when it calls driver.run (the protocol, the  *)
(* Budget and the Transcript of src/arena/drivers/base.py): the driver     *)
(* takes the tool calls that are asked of it one by one, at most max_turns *)
(* of them, records each, and stops for the reason the transcript gives.   *)
(***************************************************************************)
EXTENDS Naturals

CONSTANTS MaxTurns, MaxSeconds

VARIABLES
    taken,      \* tool calls recorded
    wanted,     \* tool calls asked for so far, by the model or the script
    elapsed,    \* seconds since run was called
    outcome     \* "running", why it stopped, or "raised"

agent == <<taken, wanted, elapsed, outcome>>

Reasons == {"finished", "timeout", "error", "budget_exhausted", "raised"}

Init ==
    /\ taken = 0 /\ wanted \in Nat
    /\ elapsed = 0 /\ outcome = "running"

\* Any step of a run may take time.
Running ==
    /\ outcome = "running"
    /\ elapsed' \in Nat /\ elapsed' >= elapsed

Want ==
    /\ Running
    /\ wanted' \in Nat /\ wanted' >= wanted
    /\ UNCHANGED <<taken, outcome>>

Take ==
    /\ Running /\ taken < MaxTurns /\ taken < wanted
    /\ taken' = taken + 1
    /\ UNCHANGED <<wanted, outcome>>

\* What is true of a run that stops for this reason.  Nothing is left undone
\* but past max_turns, or when the call under way raises; of "error" that is
\* all there is to say here, for the API is the driver's own business.
Holds(reason) ==
    /\ reason \in {"finished", "timeout", "error"} => taken = wanted
    /\ reason = "timeout" => elapsed >= MaxSeconds
    /\ reason = "budget_exhausted" => taken = MaxTurns /\ taken < wanted
    /\ reason = "raised" => taken < wanted

Stop(reason) ==
    /\ Running /\ Holds(reason)
    /\ outcome' = reason
    /\ UNCHANGED <<taken, wanted>>

Next == Want \/ Take \/ \E reason \in Reasons : Stop(reason)

Spec == Init /\ [][Next]_agent

\* It comes back, one way or the other.
Ends == <>(outcome # "running")
=============================================================================
