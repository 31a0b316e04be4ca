------------------------------- MODULE Driver -------------------------------
(***************************************************************************)
(* What the drivers of src/arena/drivers share: a call of                  *)
(* driver.run(task, tools, budget) under way, with the transcript it       *)
(* builds.  pc is "done" when run has returned and "raised" when it raised;*)
(* its other values are the drivers' own.                                  *)
(***************************************************************************)
EXTENDS Surface, Sequences

CONSTANTS MaxTurns, MaxSeconds      \* the Budget

ASSUME BudgetAssumption == MaxTurns \in Nat \ {0} /\ MaxSeconds \in Nat \ {0}

VARIABLES
    pc,
    now,            \* seconds since run was called, in whole units
    calls,          \* the transcript's calls: did each one fail?
    stop_reason     \* the transcript's; both loops start from "finished"

run == <<pc, now, calls, stop_reason>>

RunInit(start) ==
    pc = start /\ now = 0 /\ calls = <<>> /\ stop_reason = "finished"

-----------------------------------------------------------------------------
\* Slips the runs must notice; nothing below uses them.
OneOverBudget == Len(calls) > MaxTurns
-----------------------------------------------------------------------------

\* Both loops test this before they invoke the surface.
TurnsSpent == Len(calls) >= MaxTurns

RunTypeOK ==
    /\ pc \in {"check", "request", "wait", "act", "replay", "done", "raised"}
    /\ now \in Nat
    /\ calls \in Seq(BOOLEAN)
    /\ stop_reason \in {"finished", "timeout", "error", "budget_exhausted"}

-----------------------------------------------------------------------------
\* What the repository says and the code does not do.

\* test_gemini: "Models emit wrong-shaped arguments; that is a datum, not a
\* crash."
NeverRaises == pc # "raised"
=============================================================================
