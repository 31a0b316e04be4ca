------------------------------ MODULE Command ------------------------------
(***************************************************************************)
(* One invocation of `arena list`, `validate` or `run`, from the shell it  *)
(* is typed in to its exit status: main, cmd_list, cmd_validate and cmd_run*)
(* of src/arena/cli.py.  What a run does inside is Sweep's; here it begins *)
(* and lands with some outcome, or raises.                                 *)
(*                                                                         *)
(* pc: env, discover, probe, run (between runs), running, written, exited. *)
(* A file that parses is taken for the scenario it declares.  As Arena     *)
(* does, a command implements Ledger.                                      *)
(***************************************************************************)
EXTENDS Environment, Scenario, Report

CONSTANTS
    Shells,         \* environments the command may be started in
    DotEnvs,        \* .env files, as sequences of lines
    Arguments,      \* command lines: [command, driver, wanted, repeats,
                    \* positive], the last whether both its bounds are
    Directories,    \* scenarios directories, as sequences of files
    Outcomes,       \* how a run may end: [passed, stop_reason, blast_score]
    ValidKeys       \* keys the API knows

IsSequence(s) == s \in Seq(Range(s))

ASSUME CommandAssumption ==
    /\ \A a \in Arguments :
        /\ a.command \in {"list", "validate", "run"} /\ a.repeats \in Nat
        /\ a.driver \in {"noop", "solution", "gemini"} /\ a.positive \in BOOLEAN
    /\ \A lines \in DotEnvs :
        /\ IsSequence(lines)
        /\ \A i \in 1..Len(lines) : lines[i].value \in
                [text : STRING, quote : {"none", "straight", "curly"}]
    /\ \A fs \in Directories : IsSequence(fs)
    /\ \A o \in Outcomes : o.passed \in BOOLEAN /\ o.blast_score \in Nat

VARIABLES
    pc,
    shell, dotenv,  \* where the command was started
    environ,        \* its environment
    argv,           \* its arguments
    files,          \* what discover found
    scenarios,      \* those of them the command was asked for
    begun,          \* how many runs were begun
    results,        \* what landed
    rows,           \* the table, when there is one
    written,        \* is there a results file?  It holds `results`.
    exit            \* the status it exited with, or "none"

started == <<shell, dotenv>>
vars == <<pc, started, environ, argv, files, scenarios, begun, results, rows,
          written, exit>>

Init ==
    /\ pc = "env" /\ shell \in Shells /\ dotenv \in DotEnvs /\ environ = shell
    /\ argv \in Arguments /\ files \in Directories
    /\ scenarios = <<>> /\ begun = 0 /\ results = <<>>
    /\ rows = <<>> /\ written = FALSE /\ exit = "none"

\* The process ends with a status: returned, of SystemExit or a traceback.
Leave(status) ==
    /\ exit' = status /\ pc' = "exited"
    /\ UNCHANGED <<started, environ, argv, files, scenarios, begun, results, rows,
                   written>>

Total == Len(scenarios) * argv.repeats

\* The result of a run of a scenario, as far as the report reads it.
Result(id, o) == [scenario |-> id, passed |-> o.passed,
                  stop_reason |-> o.stop_reason, blast_score |-> o.blast_score]

-----------------------------------------------------------------------------
\* Slips the runs must notice; nothing below uses them.
SkipsTheRun ==
    /\ pc = "running" /\ pc' = "run"
    /\ UNCHANGED <<started, environ, argv, files, scenarios, begun, results, rows,
                   written, exit>>
AlwaysZero == pc = "written" /\ Leave("0")
RecordsAgain ==
    /\ pc = "running"
    /\ \E o \in Outcomes : results' = Append(results, Result(scenarios[1].id, o))
    /\ pc' \in {"run", "running"}
    /\ UNCHANGED <<started, environ, argv, files, scenarios, begun, rows, written,
                   exit>>
-----------------------------------------------------------------------------

\* Outside main's try: what .env raises is a traceback.
LoadDotenv ==
    /\ pc = "env"
    /\ \/ ~Decodes(dotenv) /\ Leave("1")
       \/ /\ Decodes(dotenv)
          /\ environ' = load_dotenv(environ, parse_dotenv(dotenv))
          /\ pc' = "discover"
          /\ UNCHANGED <<started, argv, files, scenarios, begun, results, rows,
                         written, exit>>

Wanted(file) == argv.wanted = {} \/ file.id \in argv.wanted
\* The files that were asked for, in their order.
Asked ==
    LET at == {i \in 1..Len(files) : Wanted(files[i])}
    IN [k \in 1..Cardinality(at) |->
            files[CHOOSE i \in at : Cardinality({j \in at : j <= i}) = k]]
Missing == argv.wanted \ {files[i].id : i \in 1..Len(files)}

\* cmd_list and cmd_validate: a file that will not parse is a traceback of the
\* one and a message of the other.
ListOrValidate ==
    /\ pc = "discover" /\ argv.command # "run"
    /\ Leave(IF discover(files) = "ok" THEN "0" ELSE "1")

\* cmd_run: every file is read, whichever were asked for; Budget raises
\* ValueError for a bound that is not positive.
Discover ==
    /\ pc = "discover" /\ argv.command = "run"
    /\ \/ discover(files) # "ok" /\ Leave("1")
       \/ discover(files) = "ok" /\ Missing # {} /\ Leave("1")
       \/ discover(files) = "ok" /\ Missing = {} /\ ~argv.positive /\ Leave("1")
       \/ /\ discover(files) = "ok" /\ Missing = {} /\ argv.positive
          /\ scenarios' = Asked
          /\ pc' = "probe"
          /\ UNCHANGED <<started, environ, argv, files, begun, results, rows,
                         written, exit>>

\* _make_driver, which exits when it cannot.
Makes(scenario) ==
    /\ argv.driver = "solution" => scenario.solution # <<>>
    /\ argv.driver = "gemini" => Usable(environ)

Accepted == environ[KeyName].text \in ValidKeys

\* The first scenario's driver is made, and a Gemini key tried; scenarios[0]
\* raises when there is none.
Probe ==
    /\ pc = "probe"
    /\ \/ scenarios = <<>> /\ Leave("1")
       \/ scenarios # <<>> /\ ~Makes(scenarios[1]) /\ Leave("1")
       \/ argv.driver = "gemini" /\ Leave("1")      \* any failure of the call
       \/ /\ scenarios # <<>> /\ Makes(scenarios[1])
          /\ argv.driver = "gemini" => Accepted
          /\ pc' = "run"
          /\ UNCHANGED <<started, environ, argv, files, scenarios, begun, results,
                         rows, written, exit>>

MoreRuns == begun < Total
NextScenario == scenarios[(begun \div argv.repeats) + 1]
ThisScenario == scenarios[((begun - 1) \div argv.repeats) + 1]

BeginRun ==
    /\ pc = "run" /\ MoreRuns
    /\ \/ ~Makes(NextScenario) /\ Leave("1")
       \/ /\ Makes(NextScenario)
          /\ begun' = begun + 1 /\ pc' = "running"
          /\ UNCHANGED <<started, environ, argv, files, scenarios, results, rows,
                         written, exit>>

\* run_scenario returns a result; only Gemini's run can end for the API.
Land ==
    /\ pc = "running"
    /\ \E o \in Outcomes :
        /\ o.stop_reason \in {"timeout", "error"} => argv.driver = "gemini"
        /\ results' = Append(results, Result(ThisScenario.id, o))
    /\ pc' = "run"
    /\ UNCHANGED <<started, environ, argv, files, scenarios, begun, rows, written,
                   exit>>

\* ... or raises what it does not catch.
RunRaises == pc = "running" /\ Leave("1")

WriteResults ==
    /\ pc = "run" /\ ~MoreRuns
    /\ rows' = aggregate(results) /\ written' = TRUE
    /\ pc' = "written"
    /\ UNCHANGED <<started, environ, argv, files, scenarios, begun, results, exit>>

\* The file cannot be written: OSError, and the results are lost.
WriteFails == pc = "run" /\ ~MoreRuns /\ Leave("1")

Return ==
    /\ pc = "written"
    /\ Leave(IF \E i \in 1..Len(results) : results[i].passed THEN "0" ELSE "1")

\* Ctrl-C while args.func runs.
Interrupt ==
    /\ pc \notin {"env", "exited"} /\ Leave("130")

Next ==
    \/ LoadDotenv \/ ListOrValidate \/ Discover \/ Probe
    \/ BeginRun \/ Land \/ RunRaises
    \/ WriteResults \/ WriteFails \/ Return \/ Interrupt

Spec == Init /\ [][Next]_vars

-----------------------------------------------------------------------------
Ids == {scenarios[i].id : i \in 1..Len(scenarios)}
RunsOf(id) == {i \in 1..Len(results) : results[i].scenario = id}
Noted(id, reason) ==
    IF reason \in DOMAIN rows[id].notes THEN rows[id].notes[reason] ELSE 0
IncidentsOf(id) == {i \in RunsOf(id) : results[i].stop_reason \in _INCIDENT_REASONS}

\* The values every variable ranges over, and how far a run has come.
TypeOK ==
    /\ pc \in {"env", "discover", "probe", "run", "running", "written", "exited"}
    /\ shell \in Shells /\ dotenv \in DotEnvs
    /\ argv \in Arguments /\ files \in Directories
    /\ begun \in 0..Total /\ written \in BOOLEAN
    /\ Len(results) \in {begun, begun - 1}
    /\ pc \in {"run", "written"} => Len(results) = begun
    /\ exit \in {"none", "0", "1", "130"} /\ (exit # "none" <=> pc = "exited")

\* No cluster is made for a Gemini key that is missing, mangled by quotes or
\* unknown to the API, be it exported or, failing that, the last one in .env
\* (README.md:95-97).
NoClusterOnBadKey ==
    begun > 0 /\ argv.driver = "gemini" =>
        LET set == {i \in 1..Len(dotenv) : dotenv[i].name = KeyName}
        IN IF KeyName \in DOMAIN shell
           THEN shell[KeyName].text \in ValidKeys /\ shell[KeyName].quote = "none"
           ELSE \E i \in set :
                    /\ \A j \in set : j <= i
                    /\ dotenv[i].value.text \in ValidKeys
                    /\ dotenv[i].value.quote # "curly"

Given(data, key) == key \in DOMAIN data /\ data[key] \notin {"null", ""}
Sound(data, key) ==
    Given(data, key) /\ ~(key \in Converted /\ data[key] = "wrong")
WellFormed(data) ==
    /\ data # NotYaml
    /\ \A key \in {"id", "namespace", "task"} : Given(data, key)
    /\ data.verify # <<>> /\ data.timeout_seconds # "wrong"
    /\ \A i \in 1..Len(data.verify) :
        /\ data.verify[i] # NotMapping /\ Given(data.verify[i], "type")
        /\ data.verify[i].type \in DOMAIN Required
        /\ \A k \in 1..Len(Required[data.verify[i].type]) :
            Sound(data.verify[i], Required[data.verify[i].type][k])
    /\ \A i \in 1..Len(data.in_scope) :
        data.in_scope[i] # NotMapping /\ Sound(data.in_scope[i], "name")
    /\ \A i \in 1..Len(data.solution) :
        data.solution[i] # NotMapping /\ Sound(data.solution[i], "args")

\* `arena validate` says yes exactly when there is a scenarios directory, every
\* file in it is well formed and .env, read first, is text, whatever the first
\* flaw is and whichever exception it raises; and no command that finds a flaw,
\* in a file asked for or not, or in its own bounds runs anything: in particular
\* nothing with no checks, "which would pass every agent".
ValidationIsExact ==
    LET fine == /\ Decodes(dotenv) /\ files # NoDirectory
                /\ \A i \in 1..Len(files) : WellFormed(files[i])
    IN /\ argv.command # "run" /\ exit \in {"0", "1"} => (exit = "0" <=> fine)
       /\ begun > 0 => fine /\ argv.positive

\* The table accounts for every run once: k of n with n the repeats (of each
\* file, if two share an id), and the notes count every incident.
RowsAccount ==
    written =>
        /\ DOMAIN rows = IF argv.repeats = 0 THEN {} ELSE Ids
        /\ \A id \in DOMAIN rows :
            /\ rows[id].runs = argv.repeats
                    * Cardinality({i \in 1..Len(scenarios) : scenarios[i].id = id})
            /\ rows[id].passes =
                    Cardinality({i \in RunsOf(id) : results[i].passed})
            /\ Cardinality(IncidentsOf(id)) =
                    Noted(id, "timeout") + Noted(id, "error")
                                         + Noted(id, "harness_error")

\* A run exits 0 only with the whole sweep on disk and a pass in it, and a
\* file that holds a pass is never left with status 1.
ExitTellsTheTruth ==
    argv.command = "run" =>
        /\ written => Len(results) = Total
        /\ exit = "0" => written /\ \E i \in 1..Len(results) : results[i].passed
        /\ exit = "1" /\ written => ~\E i \in 1..Len(results) : results[i].passed

\* What a run can land, for a scenario of any directory that loads.
Declared == UNION {{fs[i].id : i \in 1..Len(fs)} :
                      fs \in {d \in Directories : discover(d) = "ok"}}
Landable == {Result(id, o) : id \in Declared, o \in Outcomes}

\* The command's one sweep, as Ledger sees it.
This(value) == [p \in {"this"} |-> value]
LedgerSpec == INSTANCE Ledger WITH
    Sweeps <- {"this"},
    Results <- Landable,
    due <- This(Total),
    open <- This(pc = "running"),
    landed <- This(results),
    file <- This(IF written THEN results ELSE <<>>),
    over <- This(pc \in {"written", "exited"})

\* Whatever ends the command, a sweep's file is what Ledger promises: a record
\* for every attempt, each landed once and before the next was begun, or none.
ImplementsLedger == LedgerSpec!Spec

-----------------------------------------------------------------------------
\* What the repository says and the code does not do.

\* README.md:240-241: "Unmeasured is reported as unmeasured, never folded into a
\* pass rate": a run that was never graded (_failed_run: blast "not measured")
\* is no part of k of n, nor of the mean blast.
UnmeasuredNotFolded ==
    written => \A id \in DOMAIN rows :
        LET measured == Restrict(results,
                {i \in RunsOf(id) : results[i].stop_reason # "harness_error"})
        IN /\ rows[id].runs = Cardinality(DOMAIN measured)
           /\ rows[id].mean_blast = MeanBlast(measured)
=============================================================================
