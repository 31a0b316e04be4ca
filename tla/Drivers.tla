------------------------------ MODULE Drivers ------------------------------
(***************************************************************************)
(* _make_driver of src/arena/cli.py: a run is driven by NoopDriver, by a   *)
(* ScriptedDriver with the scenario's solution, or by GeminiDriver, and    *)
(* run_scenario cannot tell which.                                         *)
(***************************************************************************)
EXTENDS GeminiDriver, ScriptedDriver

CONSTANTS
    Kinds,          \* what --driver may be
    MaxScript       \* bound: commands in a solution

ASSUME KindsAssumption == Kinds \subseteq {"noop", "solution", "gemini"}

VARIABLE driver

vars == <<run, conversation, commands, driver>>

\* A solution is never empty: _make_driver refuses a scenario without one.
Solutions == UNION {[1..n -> Commands] : n \in 1..MaxScript}

_make_driver(kind) ==
    /\ driver = kind
    /\ CASE kind = "noop" -> ScriptedInit(<<>>)
         [] kind = "solution" -> \E script \in Solutions : ScriptedInit(script)
         [] kind = "gemini" -> RunInit("check") /\ commands = <<>>

Init == ConversationInit /\ \E kind \in Kinds : _make_driver(kind)

Next ==
    \/ driver = "gemini" /\ GeminiNext /\ UNCHANGED <<commands, driver>>
    \/ driver # "gemini" /\ ScriptedNext /\ UNCHANGED <<conversation, driver>>

Spec == Init /\ [][Next]_vars

\* Requests and commands have timeouts of their own, and sleeps end.
FairSpec == Spec /\ WF_vars(Next)

-----------------------------------------------------------------------------
\* The values every variable ranges over.
TypeOK ==
    /\ RunTypeOK /\ ConversationTypeOK
    /\ driver \in Kinds
    /\ commands \in Seq(Commands)

\* What the harness is promised of any driver.
Agent == INSTANCE AgentDriver WITH
    taken <- Len(calls),
    wanted <- IF driver = "gemini" THEN asked ELSE Len(commands),
    elapsed <- now,
    outcome <- IF pc = "done" THEN stop_reason
               ELSE IF pc = "raised" THEN "raised" ELSE "running"

\* A driver records what it is asked for, call by call and never more than
\* max_turns, and stops for the reason it gives: at "timeout" the deadline has
\* passed, at "budget_exhausted" there was more to do, and at any other reason
\* there was not.
ImplementsAgent == Agent!Spec

\* run comes back, even from an API that fails, or a model that sends nonsense,
\* in no time at all, so that the deadline never comes.
Terminates == Agent!Ends

\* LastWord of the Gemini driver: "finished" is the model's own doing.
NoSilentFailure == driver = "gemini" => LastWord

\* AllRecorded of the Gemini driver: calls go missing only at the turn budget.
NothingDropped == driver = "gemini" => AllRecorded

\* Replayed of the other two: the script was played whole, or up to the turn
\* budget.
WholeScript == driver # "gemini" => Replayed
=============================================================================
