------------------------------- MODULE Sweep -------------------------------
(***************************************************************************)
(* `arena run`: cmd_run of src/arena/cli.py, run_scenario of               *)
(* src/arena/runner.py and the context manager arena_cluster of            *)
(* src/arena/cluster.py, with Ctrl-C possible between any two steps.       *)
(*                                                                         *)
(* A sweep is one process that makes Runs attempts one after another, each *)
(* on a cluster of its own.  Its stage is the place in the code:           *)
(*   probe     cmd_run before its loop (driver construction, preflight)    *)
(*   next      cmd_run's loop, between two runs                            *)
(*   create    inside create_cluster, `kind create cluster` running        *)
(*   abort     create_cluster's KeyboardInterrupt handler                  *)
(*   unarmed   `kind create` has returned, arena_cluster's try not entered *)
(*   apply .. final   the body of the with statement                       *)
(*   teardown  arena_cluster's finally                                     *)
(*   land      the with statement has been left, in run_scenario           *)
(*   exited    the process is gone                                         *)
(***************************************************************************)
EXTENDS Cluster

CONSTANTS
    Sweeps,       \* the `arena run` processes
    Runs,         \* scenarios times repeats
    Keepers,      \* ... those started with --keep
    MaxPresses    \* bound: how many stages Ctrl-C is pressed in, per sweep

ASSUME SweepAssumption ==
    /\ Runs \in Nat \ {0}
    /\ Keepers \subseteq Sweeps
    /\ MaxPresses \in Nat
    /\ {User, Nobody} \cap ((Sweeps \X Nat) \cup MintNames) = {}
    /\ User # Nobody

Body == {"apply", "baseline", "drive", "grade", "final"}
Stages == Body \cup {"probe", "next", "create", "abort", "unarmed",
                     "teardown", "land", "exited"}
Grades == {"pass", "fail"}
Results == Grades \cup {"harness_error"}

VARIABLE sweep

Owners == (Sweeps \X (1..Runs)) \cup {User, Nobody}
Me(p) == <<p, sweep[p].run>>

Records ==
    [stage : Stages, run : 0..Runs, name : MintNames \cup {Nobody},
     exc : Exceptions, grade : Grades \cup {"none"},
     landed : Seq(Results), file : Seq(Results),
     pressed : SUBSET Stages, evidence : SUBSET Owners]

\* The cluster a command sent to this run's context reaches, by its creator.
Reached(p) ==
    IF sweep[p].name \in clusters THEN owner[sweep[p].name] ELSE Nobody

SweepInit ==
    sweep = [p \in Sweeps |->
        [stage |-> "probe", run |-> 0, name |-> Nobody, exc |-> "none",
         grade |-> "none", landed |-> <<>>, file |-> <<>>,
         pressed |-> {}, evidence |-> {}]]

At(p, stage) == sweep[p].stage = stage

\* What a step of a sweep does to sweeps: p's record becomes r.
Becomes(p, r) == sweep' = [sweep EXCEPT ![p] = r]

\* The stage that follows when a step of the body returns; what it saw of the
\* cluster is evidence the run's result rests on.
Proceed(p, from, to, grade) ==
    /\ At(p, from)
    /\ Becomes(p, [sweep[p] EXCEPT !.stage = to, !.grade = grade,
                                   !.evidence = @ \cup {Reached(p)}])
    /\ UNCHANGED kindVars

\* An exception in the body of the with statement runs its finally clause.
Raise(p, from, e) ==
    /\ At(p, from)
    /\ Becomes(p, [sweep[p] EXCEPT !.stage = "teardown", !.exc = e])
    /\ UNCHANGED kindVars

\* The process ends with e in flight ("none": cmd_run returned).
Exit(p, e) ==
    /\ Becomes(p, [sweep[p] EXCEPT !.stage = "exited", !.exc = e])
    /\ UNCHANGED kindVars

KubectlFails(p) == Reached(p) = Nobody \/ "kubectl" \in Faults

-----------------------------------------------------------------------------
\* Slips the runs must notice; nothing below uses them.
LosesTheRun(p) ==   \* a run that ends in ClusterError is not reported
    /\ At(p, "land") /\ sweep[p].exc \in {"none", "ClusterError"}
    /\ Becomes(p, [sweep[p] EXCEPT !.stage = "next", !.exc = "none",
            !.landed = IF sweep[p].exc = "none"
                       THEN Append(@, sweep[p].grade) ELSE @])
    /\ UNCHANGED kindVars
SwallowsCtrlC(p) == \* `except BaseException` around the run
    /\ At(p, "land") /\ sweep[p].exc # "Other"
    /\ Becomes(p, [sweep[p] EXCEPT !.stage = "next", !.exc = "none",
            !.landed = Append(@, IF sweep[p].exc = "none"
                                 THEN sweep[p].grade ELSE "harness_error")])
    /\ UNCHANGED kindVars
EmptySnapshot(p) == \* a failed `kubectl get` counts as an empty cluster
    Proceed(p, "final", "teardown", sweep[p].grade)
OnlyWhenNothingRaised(p) == p \notin Keepers /\ sweep[p].exc = "none"
OnlyOnException(p) ==   \* `except Exception`, which Ctrl-C is not
    p \notin Keepers /\ sweep[p].exc # "KeyboardInterrupt"
NeverTornDown(p) == FALSE
OneTooMany(p) == sweep[p].run <= Runs
-----------------------------------------------------------------------------

\* cmd_run up to its loop: no such scenario, a budget that is not positive, no
\* key or a failed preflight end the sweep before anything is provisioned.
Probe(p) ==
    /\ At(p, "probe")
    /\ \/ Exit(p, "none")
       \/ /\ Becomes(p, [sweep[p] EXCEPT !.stage = "next"])
          /\ UNCHANGED kindVars

\* cmd_run's loop has a turn left.
MoreToRun(p) == sweep[p].run < Runs

\* One turn of cmd_run's loop: _make_driver, then run_scenario up to
\* create_cluster's call of `kind create`.
StartRun(p) ==
    /\ At(p, "next") /\ MoreToRun(p)
    /\ \E n \in MintNames :
        /\ arena_cluster_name(n)
        /\ Becomes(p, [sweep[p] EXCEPT !.stage = "create", !.name = n,
                            !.run = @ + 1, !.grade = "none", !.evidence = {}])
    /\ UNCHANGED <<clusters, owner>>

\* _make_driver: a later scenario without a reference solution is SystemExit.
NoSolution(p) ==
    /\ At(p, "next") /\ sweep[p].run > 0 /\ MoreToRun(p) /\ "driver" \in Faults
    /\ Exit(p, "Other")

\* create_cluster returns a handle, or raises before anything is armed.
Create(p) ==
    /\ At(p, "create")
    /\ \E e \in {"none", "ClusterError"} :
        /\ create_cluster(sweep[p].name, Me(p), e)
        /\ Becomes(p, [sweep[p] EXCEPT !.exc = e,
                !.stage = IF e = "none" THEN "unarmed" ELSE "land"])

\* arena_cluster enters its try and yields the handle.
Enter(p) ==
    /\ At(p, "unarmed")
    /\ Becomes(p, [sweep[p] EXCEPT !.stage = "apply"])
    /\ UNCHANGED kindVars

NoManifests(p) ==   \* nothing to apply: the scenario names no manifests
    /\ At(p, "apply")
    /\ Becomes(p, [sweep[p] EXCEPT !.stage = "baseline"])
    /\ UNCHANGED kindVars

Apply(p) ==     \* apply_manifests: namespace, unless it exists, then manifests
    \/ Reached(p) # Nobody /\ Proceed(p, "apply", "baseline", "none")
    \/ KubectlFails(p) /\ Raise(p, "apply", "ClusterError")

Baseline(p) ==  \* sleep(settle_seconds), then snapshot
    \/ Reached(p) # Nobody /\ Proceed(p, "baseline", "drive", "none")
    \/ KubectlFails(p) /\ Raise(p, "baseline", "ClusterError")

Drive(p) ==     \* driver.run: failing commands are data, a raise is not
    \/ Proceed(p, "drive", "grade", "none")
    \/ "driver" \in Faults /\ Raise(p, "drive", "Other")

Grade(p) ==     \* evaluate_until_passing; LiveClusterView lets timeouts out
    \/ \E g \in Grades : Proceed(p, "grade", "final", g)
    \/ "grader" \in Faults /\ Raise(p, "grade", "Other")

Final(p) ==     \* snapshot, diff and blast_radius
    \/ Reached(p) # Nobody /\ Proceed(p, "final", "teardown", sweep[p].grade)
    \/ KubectlFails(p) /\ Raise(p, "final", "ClusterError")

\* arena_cluster's finally runs delete_cluster whatever is in flight.
DeletesInFinally(p) == p \notin Keepers

\* The two places that delete: what delete_cluster raises replaces what was
\* in flight.
Teardown(p) ==
    /\ sweep[p].stage \in {"abort", "teardown"}
    /\ IF At(p, "abort") \/ DeletesInFinally(p)
       THEN \E e \in {"none", "ClusterError", "Other"} :
                /\ delete_cluster(sweep[p].name, e)
                /\ Becomes(p, [sweep[p] EXCEPT !.stage = "land",
                        !.exc = IF e = "none" THEN @ ELSE e])
       ELSE /\ Becomes(p, [sweep[p] EXCEPT !.stage = "land"])
            /\ UNCHANGED kindVars

\* run_scenario returns: the graded result, or _failed_run for a ClusterError;
\* cmd_run appends it.
Land(p) ==
    /\ At(p, "land") /\ sweep[p].exc \in {"none", "ClusterError"}
    /\ Becomes(p, [sweep[p] EXCEPT !.stage = "next", !.exc = "none",
            !.landed = Append(@, IF sweep[p].exc = "none"
                                 THEN sweep[p].grade ELSE "harness_error")])
    /\ UNCHANGED kindVars

\* Nothing catches the rest: main turns Ctrl-C into exit code 130.
Unwind(p) ==
    /\ At(p, "land") /\ sweep[p].exc \in {"KeyboardInterrupt", "Other"}
    /\ Exit(p, sweep[p].exc)

\* cmd_run after its loop: aggregate, write_results, return.
WriteResults(p) ==
    /\ At(p, "next") /\ ~MoreToRun(p)
    /\ Becomes(p, [sweep[p] EXCEPT !.file = sweep[p].landed,
                                   !.stage = "exited"])
    /\ UNCHANGED kindVars

\* Ctrl-C: KeyboardInterrupt out of whatever the process is doing.  kind gets
\* the signal too.  Writing the results file is one step (not torn).
Interrupt(p) ==
    /\ Cardinality(sweep[p].pressed) < MaxPresses
    /\ sweep[p].stage \notin sweep[p].pressed \cup {"exited"}
    /\ LET Goes(to) == Becomes(p, [sweep[p] EXCEPT !.stage = to,
                            !.exc = "KeyboardInterrupt",
                            !.pressed = @ \cup {sweep[p].stage}])
       IN \/ /\ At(p, "create") /\ Goes("abort")
             /\ create_cluster(sweep[p].name, Me(p), "KeyboardInterrupt")
          \/ /\ sweep[p].stage \in Body /\ Goes("teardown")
             /\ UNCHANGED kindVars
          \/ /\ sweep[p].stage \in {"abort", "teardown"} /\ Goes("land")
             /\ IF At(p, "abort") \/ DeletesInFinally(p)
                THEN delete_cluster(sweep[p].name, "KeyboardInterrupt")
                ELSE UNCHANGED kindVars
          \/ /\ sweep[p].stage \in {"probe", "next", "unarmed", "land"}
             /\ Goes("exited")
             /\ UNCHANGED kindVars

Step(p) ==
    \/ Probe(p) \/ StartRun(p) \/ NoSolution(p) \/ Create(p) \/ Enter(p)
    \/ NoManifests(p) \/ Apply(p) \/ Baseline(p) \/ Drive(p) \/ Grade(p) \/ Final(p)
    \/ Teardown(p) \/ Land(p) \/ Unwind(p) \/ WriteResults(p)

SweepTypeOK == sweep \in [Sweeps -> Records]
=============================================================================
