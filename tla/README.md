# k8s-agent-arena in TLA+

k8s-agent-arena is a benchmark: for each run it creates a throwaway kind
cluster, applies a fault, lets an agent work on it with kubectl, polls a list of
checks, measures what else the agent disturbed, and deletes the cluster. These
modules model the parts of `src/arena/` in which the order of steps, failures
and timing decide whether a result means what it says. Paths below are relative
to `src/` of the repository; `PROJECT.json` maps each definition to the lines it
models.

## 1. Inventory

| Component | State it keeps | Operations | Talks to |
| --- | --- | --- | --- |
| Kind clusters and the guard (`cluster.py`, `guard.py`) | none of its own: the machine's kind clusters | `create_cluster`, `delete_cluster`, `list_clusters`, `orphaned_clusters`, `arena_cluster_name`, `ensure_safe_context`, `apply_manifests`, `snapshot` | `kind` and `kubectl` subprocesses with timeouts |
| Sweep and run (`cli.py` `cmd_run`, `runner.py`, context manager `arena_cluster`) | results gathered, the results file, the exception in flight | the loop of runs; a run's seven phases; `_failed_run`; `main`'s handler for Ctrl-C | clusters, a driver, the grader |
| `arena clean` (`cli.py` `cmd_clean`) | names still to delete | list, delete one by one | clusters, and through them every sweep on the machine |
| Agent surface (`kubectl.py` `KubectlSurface`) | none | `invoke` | kubectl, called by drivers |
| Gemini driver (`drivers/gemini.py`) | conversation, transcript, clock, retries | `run`: ask, wait out throttling, run tool calls | the API, the surface |
| Scripted and noop drivers | transcript | `run` | the surface |
| Grading (`settle.py`, `checks.py`, `LiveClusterView`) | deadline, results of the round | `evaluate_until_passing`, five checks, `get`/`list` | kubectl, a cluster that keeps changing |
| Blast radius and scope (`state.py`, scopes of `scenario.py`) | two snapshots | fingerprint, diff, scope, weights | a run, and a cluster the agent and controllers write to at once |
| Report (`report.py`) | rows | aggregation over runs | results |
| Scenario parsing (`scenario.py`), environment (`env.py`) | none | parse, defaults, validation; `.env` precedence | files |
| Command line (`cli.py` `main`, `list`, `validate`, `run`) | environment, arguments, results so far, exit status | load `.env`, discover, filter, probe the driver, loop, report | files, drivers, runs |
| Results page; CI; recorded results | none | - | - |

What makes each component right, and what is hard about it:

* **Sweep, clusters, clean.** A run must be judged on the cluster it created and
  on no other; clusters must not outlive their sweep; nobody else's cluster may
  be touched; every attempt must be one row of the results, or there is no file.
  Hard: the clusters are shared by processes that do not know of each other;
  Ctrl-C can come between any two statements and inside each subprocess; a
  subprocess that times out may or may not have done its work; an exception in a
  `finally` replaces the one in flight.
* **Drivers.** A transcript must say what happened: every call recorded, a true
  stop reason, budgets kept, a conversation the API accepts. Hard: throttling,
  retries, budgets that run out in the middle of an answer, an API or a model
  that keeps failing faster than the clock moves.
* **Grading.** A verdict must be about the cluster, not about when it was looked
  at. Hard: each check is a kubectl call of its own, the cluster changes between
  calls, calls fail or hang, pods flap.
* **Blast radius and scope.** Whatever is charged must be the agent's doing, a
  legitimate repair must be free, and a score of zero must mean that nothing out
  of scope was disturbed. Hard: controllers write to the same cluster, for the
  agent's sake or their own, before, during and after both snapshots; deletions
  take their time; bookkeeping never stands still.
* **Report.** A row must account for every run, each once. Hard: runs that ended before they were measured, ids that repeat,
  no runs at all.
* **Command line, parsing, environment.** A flaw must be found before a cluster
  is made, whichever file, field or key it is in, and the exit status must tell
  whether there is a sweep on disk. Hard: a dozen ways out, of which some raise.

## 2. Modules

```
AgentDriver  <--refined by--  Driver <- GeminiDriver, ScriptedDriver <- Drivers
                                ^- Surface                              |
Ledger       <--refined by--  Arena <- Sweep, Clean <- Cluster      (Sweep's Drive)
                                                                        |
                              Grading <- Checks <- Workload         (Sweep's Grade)
                                                                        |
                              BlastRadius <- State, Scope   (Sweep's Baseline, Final)

Ledger       <--refined by--  Command <- Environment, Scenario, Report
                                 (Sweep's Probe, StartRun and WriteResults, opened up)
```

| Module | Models | Correspondence |
| --- | --- | --- |
| `Cluster` | `cluster.py`, `guard.py` | `clusters` is what `kind get clusters` lists. An operation is an action with the exception it ends in as a parameter; `Killed` is a subprocess that was stopped with its work done or not. A name is one value: the prefix test is membership in `ArenaNames`, a minted random name is in `MintNames`. |
| `Sweep` | `cmd_run`, `run_scenario`, `arena_cluster` | One record per process: `stage` is the place in the code, `exc` the exception in flight, `landed` and `file` the results, `evidence` whose cluster the run's steps reached. One action per phase (`NoManifests` when a scenario has nothing to apply); `Teardown` is the `finally`, `Land` the `except ClusterError`, `Unwind` and `Interrupt` everything that escapes it. |
| `Clean` | `cmd_clean` | `todo` is the list made at the start; `DeleteOne` is a turn of its loop. `unheard` is history: `kind` has reported a failure, and `cmd_clean`, which looks at no exit code, has gone on. |
| `Arena` | composition | Any number of sweeps and cleaners interleaved, sharing only `clusters`. |
| `Ledger` | what a sweep promises its reader | How many attempts there are is settled before the first; one record for each; the file holds all of them or does not exist. `Arena` implements it for any number of sweeps of a given length, `Command` for one sweep that reads its length from files and arguments. |
| `Surface` | `KubectlSurface.invoke` | A command is a kind: it runs, is refused, or is unfit for `subprocess.run` (a manifest that is not a string, a NUL). What matters is whether it fails or raises, and how long it takes; `Undecodable` says whether kubectl may print what is not text. |
| `Driver`, `GeminiDriver`, `ScriptedDriver`, `Drivers` | `drivers/*.py`, `_make_driver` | `pc` is the place in the loop; `calls` keeps for each recorded call whether it failed; `contents` keeps the turns with the number of their parts. |
| `AgentDriver` | the `AgentDriver` protocol and `Budget` | Calls that are asked for are taken one by one, at most `max_turns` of them; each reason to stop says what must hold of calls, turns and time (`Holds`). |
| `Workload` | Kubernetes, as far as `checks.py` and `settle.py` reckon with it (external) | Pods by slot, a rollout from crashing old pods to new ones that work, crash or never get ready, and one object that may be bound or deleted. |
| `Checks` | the five checks, `LiveClusterView` | Predicates on a view; a call kubectl does not answer shows the empty view. |
| `Grading` | `evaluate_until_passing`, `Verification.evaluate` | `Read` is one check, `Decide` what follows a round, `Wake` the end of a sleep. Time advances while a call is out and while the grader sleeps; the workload moves between any two steps. |
| `Scope` | `ScopeEntry.matches`, `Scenario.in_scope`, `_DERIVED_KINDS` | A resource is its kind, namespace and name; a pattern is looked up in `Globs`, the names `fnmatchcase` takes for it. |
| `State` | `state.py`, `cluster.snapshot` | A cluster is a function from resources to items, an item what is declared, whether it is being deleted, and bookkeeping. The SHA-256 of what is declared is that itself: no collisions. |
| `BlastRadius` | `run_scenario` around its two snapshots | `pc` is the place in the run; `objects` the cluster. `Write` is a call of the agent, `Reconcile`, `Finalize` and `Bookkeep` what Kubernetes does (external). `handover`, `written` and `churned` are history, for the properties only. |
| `Environment` | `env.py`, the constructor of `GeminiDriver` | A line is the setting it makes; a value its text and the quotes around it. A line that is not text (`NotText`) makes reading the file raise. |
| `Scenario` | `_parse`, `_require`, the check builders, `discover` | A file is the fields it sets, a field a token: missing, null, empty, zero, of the wrong type, or something else. The result is the first thing that goes wrong, `ScenarioError` or another exception; `SystemExit` when there is no directory (`NoDirectory`). |
| `Report` | `aggregate`, `_incidents` | The runs of a row are a function from their places among the results; counts, sums and the maximum are taken over it. |
| `Command` | `main`, `cmd_list`, `cmd_validate`, `cmd_run` | `pc` is the place in the command; what a run does inside is one step that lands with any outcome (`Land`) or raises (`RunRaises`). |
| `MCArena`, `MCDrivers`, `MCGrading`, `MCBlastRadius`, `MCCommand` | instances for TLC | The sets and symmetries the `.cfg` files name. |
| `ArenaProofs`, `LeakProofs`, `LedgerProofs`, `DriverProofs`, `GradingProofs`, `BlastProofs`, `CommandProofs`; `SetInduction` | proofs; the lemmas on induction they share | See section 4. |

`Sweep` takes the driver and the grader at their word: `Drive` and `Grade`
return any result or raise. What they may return is the business of `Drivers` and
`Grading`; that a driver comes back at all is `Terminates`, that a grading does
is `GradingEnds`, and that both may raise is `NeverRaises` and `ReadTimesOut`.
What its two snapshots are worth is the business of `BlastRadius`. `Command`
looks at one process from the outside: where `Sweep` may give up in `Probe` for
any reason, `Command` says for which.

A snapshot is one step although kubectl lists kind by kind. This loses nothing:
each resource is compared only with itself, and `Write`, `Reconcile` and the rest
may come before or after the snapshot for each of them.

Each module with a mapped operation also defines some slips, between two rules: a
mutated form of an operation, such as a dropped guard. Nothing uses them. For
each checked property one of them, put in the place of the operation it mimics,
makes TLC find the property violated; `PROJECT.json` lists the pairs.

## 3. Runs

| Run | Checks | What it shows |
| --- | --- | --- |
| `shared` | `TypeOK`, `ForeignClustersSurvive`, `GradesRestOnOwnCluster`, `CleanRecovers` | A sweep, two cleans at any moment, every fault (creations, deletions and listings that fail or time out among them), Ctrl-C in each of the three processes, with fairness (270,612 states). A clean that starts last leaves no arena cluster, whatever the sweep has stranded and the other clean has broken off, unless it raises, is stopped or `kind` reports a failure it does not look at. A clean that takes a cluster from under a run can make it fail but never makes it report a grade: `Baseline`, `Final` and, if there are manifests, `Apply` have to succeed, and only on the run's own cluster. |
| `interrupts` | `NeverAnothersCluster`, `GradesRestOnOwnCluster`, `OneClusterPerSweep`, `OnlyWindowsLeak`, `InterruptStopsSweep`, `ImplementsLedger`, `NothingLeftBehind` | Two sweeps of two runs, one of them `--keep`, names that may repeat, one Ctrl-C each, failing bodies (701,389 states). `kind` refusing a name in use is what keeps runs apart, and a grade still rests on the run's own cluster when another's Ctrl-C has deleted that by its name. With a `kind` that deletes, a cluster leaks only if Ctrl-C falls between `kind create` and the `try`, or inside a deletion. With fairness, a sweep nobody interrupts ends with nothing left, whatever its runs raise. |
| `drivers` | `TypeOK`, `NoSilentFailure`, `NothingDropped`, `HistoryWellFormed`, `OverrunBounded`, `WholeScript`, `ImplementsAgent`, `Terminates` | All scripts of up to four commands, and all conversations, against a budget of three turns and four time units (22,030 states). |
| `blast` | `TypeOK`, `EveryChargeHasACause`, `SanctionedRepairIsFree`, `CleanIsTrue` | A Deployment with a pod, a Secret with a name like theirs and a StorageClass; three scopes; two writes of the agent anywhere, controllers at work throughout (368,952 states). What is charged was changed by the agent, or for what the agent changed, or moved behind its back after the baseline; a repair that keeps to what the scope names is free; a score of zero is true of all that is watched and out of scope. |
| `command` | `TypeOK`, `NoClusterOnBadKey`, `ValidationIsExact`, `RowsAccount`, `ExitTellsTheTruth`, `ImplementsLedger` | Every exported key with every `.env`, one of which is not text, eight command lines, one of them with a bound that is not positive, no scenarios directory or files with each kind of flaw, every outcome of up to four runs, Ctrl-C anywhere (785,930 states). The results file is that of `Ledger`, as it is for `Arena`. |
| `verdicts` | `TypeOK`, `QuietRoundIsExact`, `RightInTimePasses`, `NoPassUnanswered`, `GradingBounded`, `GradingEnds` | The checks of four kinds of scenario over a rollout, with kubectl failing or hanging (about 1.5 million states). |

Runs that must fail, each stating what a comment, doc or test says and the code
does not do (details and quotes under "findings" in `PROJECT.json`):

| Run | Property | Counterexample |
| --- | --- | --- |
| `teardownMasks` | `TeardownKeepsResult` | `kind delete` times out in the `finally`; `ClusterError` replaces the graded result. |
| `driverCrash` | `NeverRaises` | The model passes an object as `manifest` (or an argument with a NUL). |
| `crashLoop` | `CrashLoopNeverPasses` | `PodsReady` counts the crash-looping old pod in a Ready moment; a rollout replaces it; `PodRestartsBelow` reads the fresh pod that has not crashed yet. |
| `scopeByName` | `NamingTheOwnerCovers` | The scope names Deployment `web`, and the agent changes nothing else; the pod its controller makes is `web-7f-x`, matches no entry, and costs a point. Scope goes by kind and name, not by ownership; the scenarios of the repository all use globs. |
| `setupChurn` | `SetupChurnIsNeverBilled` | The baseline is taken before the Deployment's controller has made its pod; the agent writes nothing and is charged for the pod. README.md:42-44 says never, runner.py:24-25 says when. |
| `unmeasured` | `UnmeasuredNotFolded` | A run that ended in `harness_error`, never graded, is one of the n of k/n, and its blast radius of 0, which was "not measured", is in the mean. |

Further limits of the code, seen in the models and not given runs of their own:

* A cluster is left behind by a Ctrl-C in one of the windows `OnlyWindowsLeak`
  names (README.md:100 says it is cleaned up on the way out), and by a `kind
  create` that times out when the cluster is up: `create_cluster` deletes on
  `KeyboardInterrupt` alone and nothing else is armed yet (cluster.py:84-98).
* `InterruptStopsSweep` holds only without `deleteTimeout`: when the deletion
  that Ctrl-C triggers times out, its `ClusterError` replaces
  `KeyboardInterrupt` and the sweep goes on to the next run.
* `arena clean` deletes clusters of running sweeps as well as orphans
  (`GradesRestOnOwnCluster` says what that cannot do), and a developer's own
  cluster if it is called `arena-` and anything: the name is tested for its
  prefix and its length, not for six hex digits (cluster.py:68-72). A test of the
  repository has `arena-ok` as an arena cluster.
* The scripted driver never reads `max_seconds`; the Gemini driver overruns it
  by less than a round (`OverrunBounded`).
* What controllers still do for the setup after the baseline is billed to the
  agent: 20 seconds are slept and nothing is waited for (run `setupChurn`). The
  passing properties allow for it: `EveryChargeHasACause` counts what moved
  behind the agent's back (`churned`) as a cause, `SanctionedRepairIsFree`
  assumes that nothing did.
* What is deleted and made again alike between the snapshots costs nothing
  (`CleanIsTrue` compares two moments).
* Scope goes by kind and name, not by ownership, and so also lets through what
  nobody in scope owns: with the entry Deployment `web*`, a pod made by hand whose
  name matches may be changed at no cost (scenario.py:64-68). `scopeByName` shows
  the other half.
* A resource deleted gracefully and still terminating at the final snapshot costs
  one point, as a modification, where the same deletion completed costs three.
* A file whose fields have the wrong types raises `TypeError` or `ValueError`,
  which `arena validate` does not turn into its message; it exits 1 by traceback.
  So does every command next to a `.env` that is not text (env.py:46-50 expects
  `OSError` only), and `arena run` with a bound that is not positive.

### Bounds

* Two sweeps are enough for every pair of interfering processes, since sweeps
  share only `clusters` and each touches one name at a time; two runs per sweep
  are enough for what one run can leave to the next; the proofs cover the rest.
  The runs divide the work, to end within minutes: `shared` has every fault and
  two cleans, of which one may break off before the other starts, but one sweep of
  one run; `interrupts` has two sweeps of two runs, but no clean, and no fault of
  `kind` other than a creation that fails. What is proved is proved for both at once.
* `MaxPresses` bounds the stages Ctrl-C is pressed in: one. Two would let the
  second fall into the deletion the first has caused, which the proof in
  `LeakProofs` covers. Ctrl-C while the results file is written is left out.
* Names: two that can be minted, the user's `arena-dev` and `mine`. Without
  `Collisions` a name is used once, so a sweep whose names have run out waits in
  `next` for ever; that would be a deadlock, and the runs, which check for
  deadlock, have enough names that it never happens.
* Drivers: three turns, four time units, two retries, answers of up to four
  calls, scripts of up to four commands. So budgets end before, at and after the
  end of an answer or a script, and one round can outlast the wall clock. What
  kubectl prints may be undecodable in `drivers` and is text in `driverCrash`,
  so that the counterexample there is the unfit call.
* Grading: one replica and a slot for the rollout's extra pod, a restart limit of
  2, counts up to `RestartCap`, a timeout of 3 with polls of 2 and reads of up to
  1, so that the timeout falls into a sleep, into a round and between both.
* Blast radius: two writes of the agent (`MaxWrites`), so that one can undo or
  compound the other; one resource changed behind its back (`MaxChurn`) and one
  item whose bookkeeping moves (`MaxChatter`), since resources are charged one by
  one. Two values of `Specs`, interchangeable because they are only compared.
  Kinds that Kubernetes makes for an owner of a kind not in `_DERIVED_KINDS` (a
  PersistentVolume for a claim) are churn unless a scope names them, as
  `pvc-pending` does.
* Command: two scenarios, up to three repeats, one flaw at a time. Fewer than
  eight runs to a row, so that no mean of integers is a tie for `round(.., 2)`.
* Deadlock is not checked in the runs of drivers, grading, blast radius and
  command: these models end when the call they model returns.

### Fairness

* `Arena!FairSpec`: weak fairness of each process's own next step. The code
  justifies it: every `kind` and `kubectl` subprocess has a timeout, drivers and
  the grader come back (`Terminates`, `GradingEnds`), and processes never wait
  for each other. Ctrl-C and faults are never owed.
* `Drivers!FairSpec`: weak fairness of the one loop there is; requests have the
  HTTP timeout, commands the surface's, sleeps end.
* `Grading!FairSpec`: weak fairness of the grader and of its clock. Nothing is
  assumed of Kubernetes.

## 4. Proofs

All theorems hold for every value of the constants that meets the named
assumptions (`ClusterAssumption`, `SweepAssumption`, `SurfaceAssumption`,
`BudgetAssumption`, `GeminiAssumption`, `KindsAssumption`,
`WorkloadAssumption`, `GradingAssumption`, `BlastAssumption`,
`CommandAssumption`), which TLC also evaluates. Where a theorem needs more, it is
its ASSUME and is named below.

* **`ArenaProofs`.** `TypeOK` is not inductive: a run's result is well-typed only
  because a run that has reached `final` has a grade and a run under way has a
  minted name. `Typed` adds that (`Complete`), with one lemma about what a step
  may do to the stepping sweep's record. `ForeignClustersSurvive` follows from
  `Typed` and the prefix test. For the two properties about evidence the
  invariants are `Apart` (runs under way have different names, and a cluster of
  such a name is that run's) and `Sound` (a run has seen its own cluster or, from
  some moment on, none, and one whose final snapshot returned has seen only its
  own). Both assume `~Collisions`, which is what `arena_cluster_name` counts on.

  When names repeat (`CollidingRunsStayApart`), what keeps runs apart is that
  `kind create` refuses a name in use. `Held` carries that: from the moment
  `kind` has made its cluster until the teardown, the cluster that bears a run's
  name is the run's own, or there is none because another sweep's Ctrl-C took it.
  Two things can give the name to somebody else. A cleaner may free it for the
  next sweep that draws it, so the theorem assumes there is none. And a Ctrl-C
  inside `kind create` makes `create_cluster` delete by name (cluster.py:84-98),
  whoever's cluster it is: harmless (`Unhurt`) while there are at most two sweeps and no deletion
  times out, since the sweep that pressed goes no further and there is nobody
  left for the freed name to be given to (`LostStaysLost`). Both conditions are
  needed: with three sweeps, or with `deleteTimeout`, TLC refutes
  `NeverAnothersCluster`. `CollidingGradesAreSound` puts `Sound` on top of `Held`
  in place of `Apart`.

  `CtrlCStopsSweeps` assumes that no deletion times out. An action property
  needs an invariant too: `AllDoomed` says that a sweep that was interrupted is on
  its way out with an exception that nothing catches. Only a deletion that times
  out in the `finally` puts one in its place that is caught, which is the reason
  for the assumption (see the limits above).
* **`LeakProofs`.** With a `kind` that neither hangs nor fails a deletion
  (`KindWorks`), `Tidy` relates a sweep's stage, its exception in flight and the
  stages Ctrl-C was pressed in to the clusters it has standing: none before
  `create`, its own one from there, and after the teardown none, unless Ctrl-C
  was pressed in a window. Other processes only take clusters away or create
  under their own names, so the invariant is one sweep's at a time.
* **`LedgerProofs`.** `Arena` implements `Ledger` under the mapping in `Arena`:
  an attempt is open between `create` and `land`. The invariant says that the
  number of rows is the number of runs begun, less the open one. `CommandProofs` shows the
  same of `Command`.
* **`DriverProofs`.** `Books` (Gemini: calls recorded and pending make up those
  asked for; nothing has set the stop reason while running; a waiting driver has
  a retry left) and `Progress` (scripted: never past the script or the budget).
  The third conjunct matters: without it the retry loop could run out with no
  response and no error, which reads as a model that declined to act. `History`
  adds the conversation: fit to be sent whenever the model may be asked, and
  while an answer is worked off, fit but for a last turn whose calls are as many
  as those pending and responded to. `OverrunsAreBounded` adds `Punctual`, which
  bounds the clock at each place in the loop: the driver looks at it before a
  round, so what it can overrun by is one round's requests, waits and calls. The
  waits of a round are a sum over its retries, each the longer of a hint and a
  backoff, bounded by induction over the retries that have been made.
  `DriversImplementAgent` rests on all of these: `finished` and `timeout` mean
  that every call asked for was taken, `timeout` also that `max_seconds` had
  passed, `budget_exhausted` that `max_turns` calls were taken and another was
  asked for, `raised` that a call under way was not recorded. Of `error` it says
  only that no call is missing: the API is the driver's own business, and
  `FinishedMeansAnswered` is about it.
* **`GradingProofs`.** `Findings` (results still agree with the workload if
  nothing changed since the round began), `Clocks` (where the clock can be at
  each point of a round) and `Caught`: if all checks have been passing for longer
  than the reads so far can have taken, every answered read of the round passed.
  With `Clocks` it gives `RightInTimePasses`.
* **`BlastProofs`.** `Attributed`: from the baseline on, a resource that the
  agent has not stirred and that has not churned is as it was handed over. The
  rest is about the operators: what is charged differs between the snapshots
  (`ChargedIsChanged`), and the score is zero only if nothing is charged
  (`ScoreCounts`). `SanctionedRepairsAreFree` also assumes that controllers make
  only what `_DERIVED_KINDS` says, for owners nobody owns.

* **`CommandProofs`.** The inductive invariant `Inv` is `TypeOK` with `InOrder`
  (no run before the probe, results one short of the runs begun while one is
  under way, and each result that of the scenario whose turn it was), `Admitted`
  (the environment is the shell's, then with `.env` added if that is text; a sweep
  has positive bounds, well-formed files and, for Gemini, a key that was accepted) and `Reported` (what is written is the aggregate of all the results,
  and the exit status follows from it). The rest is about the operators.
  `ParseIsExact`: the first error of `_parse` is none exactly when no field has a
  flaw, whatever the flaws and their order. `KeyComesFrom`: the key that is
  probed is the exported one or else the last that `.env` sets, by induction over
  its lines (`LastSettingCounts`). `EveryRunHasItsScenario`: the results are, in
  order, the repeats of one scenario after another, so that a row's runs
  correspond one to one to pairs of a scenario with its id and a repeat
  (`Groups`). `IncidentsAreNoted`: its notes add up
  to its incidents.
  `CommandImplementsLedger` maps the number of attempts to the number of
  scenarios times repeats, which is 0 until the files have been read; it needs
  besides that what was asked for is among the files (`AskedAreFiles`), because
  among the places asked for there is a k-th for each k (`RankIsTaken`).
* **`SetInduction`.** The library's induction theorems take an operator, which
  the installed provers cannot instantiate. Here induction is stated over a set:
  a set of naturals that holds 0 and with each number the next is all of `Nat`.
  That follows from the well-foundedness of `Nat` (`LeastNatural`), and where a
  predicate is wanted, the set is the set of what satisfies it. From it come
  induction up to a bound and over finite sets, and the greatest of a finite set.

Only model-checked: liveness (`NothingLeftBehind`, `CleanRecovers`, `Terminates`,
`GradingEnds`), which the prover cannot do with fairness. Every invariant and
action property of a passing run is a theorem, under the hypotheses named above;
the run `interrupts` checks `NeverAnothersCluster` and
`GradesRestOnOwnCluster` under those for names that collide. The properties of
the runs that must fail are false, and there is nothing to prove.

## 5. Not modelled

* `build_argv`'s tests of a command's words: a command that is refused is one of
  the kinds of `Surface`. Truncation of output, token counts, wording.
* What commands do to the workload while it is graded: `Workload` starts from any
  state an agent can have left and is not changed by the grader.
* `_traverse`: a field is one of the values of `object`.
* `run_suite`, which no command calls: `cmd_run` has a loop of its own.
* Values that the parsed fields of a scenario get, other than whether they are
  accepted; argument parsing, which is argparse's; YAML and JSON; `to_markdown`
  and all printing.
* A results file torn by a crash or a Ctrl-C while it is written.
* The results page, CI and recorded results.

## 6. Plan

Done: clusters, sweeps, clean and ledger; drivers; grading; blast radius and
scope; scenario files, environment, report and the command around them; the
proofs. What is left, by what it would add:

1. `_traverse` on bounded trees against a reference definition, and `build_argv`
   on words.
2. More of the abstract side: what `BlastRadius` and `Grading` promise `Sweep`, as
   abstract specifications of a snapshot pair and of a verdict.
