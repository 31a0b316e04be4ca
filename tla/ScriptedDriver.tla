--------------------------- MODULE ScriptedDriver ---------------------------
(***************************************************************************)
(* ScriptedDriver.run of src/arena/drivers/scripted.py, which replays a    *)
(* scenario's reference solution; NoopDriver of drivers/noop.py makes no   *)
(* call, which is what an empty script does.                               *)
(***************************************************************************)
EXTENDS Driver

VARIABLE commands   \* the script

ScriptedInit(script) == RunInit("replay") /\ commands = script

-----------------------------------------------------------------------------
\* Slips the runs must notice; nothing below uses them.
StopsAtFailure == \* a failing command aborts the run
    Len(calls) = Len(commands) \/ (calls # <<>> /\ calls[Len(calls)])
ExhaustedFirst ==   \* the budget is tested after the last command as well
    /\ pc = "replay"
    /\ \/ TurnsSpent /\ stop_reason' = "budget_exhausted"
       \/ ~TurnsSpent /\ Len(calls) = Len(commands) /\ UNCHANGED stop_reason
    /\ pc' = "done"
    /\ UNCHANGED <<commands, calls, now>>
-----------------------------------------------------------------------------

OutOfCommands == Len(calls) = Len(commands)

Finish ==
    /\ pc = "replay"
    /\ \/ OutOfCommands /\ UNCHANGED stop_reason
       \/ ~OutOfCommands /\ TurnsSpent /\ stop_reason' = "budget_exhausted"
    /\ pc' = "done"
    /\ UNCHANGED <<commands, calls, now>>

Replay ==
    /\ pc = "replay" /\ ~OutOfCommands /\ ~TurnsSpent
    /\ \E r \in invoke(commands[Len(calls) + 1]) :
        /\ now' = now + r.took
        /\ \/ r.ends = "raised" /\ pc' = "raised" /\ UNCHANGED calls
           \/ r.ends # "raised" /\ UNCHANGED pc
              /\ calls' = Append(calls, r.ends = "failed")
    /\ UNCHANGED <<commands, stop_reason>>

ScriptedNext == Finish \/ Replay

-----------------------------------------------------------------------------
\* "finished" means the whole solution was replayed, whatever failed in it, and
\* "budget_exhausted" that exactly max_turns commands of a longer one were
\* (test_drivers: "a failing command does not abort the run").
Replayed ==
    pc = "done" =>
        IF stop_reason = "finished" THEN Len(calls) = Len(commands)
        ELSE Len(calls) = MaxTurns /\ MaxTurns < Len(commands)
=============================================================================
