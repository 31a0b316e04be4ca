------------------------------ MODULE Scenario ------------------------------
(***************************************************************************)
(* Reading a scenario file: _parse of src/arena/scenario.py.  A file is the*)
(* record of the fields it sets.  A field's value is a token: "null", "",  *)
(* "zero" (0 or false: falsy, and yet given), "wrong" (of a type the code  *)
(* cannot convert), or anything else; verify, in_scope and solution are    *)
(* sequences of such records, empty when absent.                           *)
(***************************************************************************)
EXTENDS Naturals, Sequences

NotYaml == [broken |-> "yes"]       \* a file that is invalid YAML or unreadable
NotMapping == NotYaml               \* an element, or a whole field, that is no mapping

\* What there is to discover when there is no scenarios directory.
NoDirectory == <<[broken |-> "absent"]>>

\* _CHECK_BUILDERS: what each check requires, in order, and what is converted.
Required ==
    [pods_ready |-> <<"selector", "count">>,
     pod_restarts_below |-> <<"selector", "max_restarts">>,
     field_equals |-> <<"kind", "name", "path", "expected">>,
     field_present |-> <<"kind", "name", "path">>,
     resource_absent |-> <<"kind", "name">>]
Converted == {"selector", "count", "max_restarts", "args"}

\* What a conversion or a lookup on a value of the wrong type raises.
Crash == "TypeError or ValueError"

\* The first thing that goes wrong.
Earliest(outcomes) ==
    LET wrong == {i \in DOMAIN outcomes : outcomes[i] # "ok"}
    IN IF wrong = {} THEN "ok"
       ELSE outcomes[CHOOSE i \in wrong : \A j \in wrong : i <= j]

_require(data, key) ==
    IF key \notin DOMAIN data \/ data[key] \in {"null", ""} THEN "ScenarioError"
    ELSE IF key \in Converted /\ data[key] = "wrong" THEN Crash
    ELSE "ok"

RequireAll(data, keys) ==
    Earliest([i \in 1..Len(keys) |-> _require(data, keys[i])])

-----------------------------------------------------------------------------
\* Slips the runs must notice; nothing below uses them.
AnyVerification(data) == "ok"
-----------------------------------------------------------------------------

BuildCheck(spec) ==
    IF "type" \notin DOMAIN spec \/ spec.type \notin DOMAIN Required
    THEN "ScenarioError"
    ELSE RequireAll(spec, Required[spec.type])

\* Verification.__init__ will not have an empty list.
BuildVerification(data) == IF data.verify = <<>> THEN "ScenarioError" ELSE "ok"

BuildEach(specs, Build(_)) ==
    Earliest([i \in 1..Len(specs) |->
                IF specs[i] = NotMapping THEN Crash ELSE Build(specs[i])])

\* int(data.get("timeout_seconds") or DEFAULT_TIMEOUT_SECONDS)
Timeout(data) == IF data.timeout_seconds = "wrong" THEN Crash ELSE "ok"

_parse(data) ==
    IF data = NotYaml THEN "ScenarioError"
    ELSE Earliest(<<RequireAll(data, <<"id", "namespace", "task">>),
                    BuildEach(data.verify, BuildCheck),
                    BuildVerification(data),
                    BuildEach(data.in_scope, LAMBDA e : _require(e, "name")),
                    BuildEach(data.solution, LAMBDA s : _require(s, "args")),
                    Timeout(data)>>)

\* discover: every file is loaded, in order; the first bad one raises.
discover(files) ==
    IF files = NoDirectory THEN "SystemExit"
    ELSE Earliest([i \in 1..Len(files) |-> _parse(files[i])])
=============================================================================
