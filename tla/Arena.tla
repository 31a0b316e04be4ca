------------------------------- MODULE Arena -------------------------------
(***************************************************************************)
(* Sweeps and cleaners side by side on one machine: every `arena run` and  *)
(* `arena clean` process shares the kind clusters of Cluster, and nothing  *)
(* else.  The properties are about who may rely on, lose or leave behind   *)
(* which cluster, and about what of a sweep reaches its results.           *)
(***************************************************************************)
EXTENDS Sweep, Clean

vars == <<kindVars, sweep, cleaner>>

Init == KindInit /\ SweepInit /\ CleanInit

SweepNext == \E p \in Sweeps :
    (Step(p) \/ Interrupt(p)) /\ UNCHANGED cleaner

CleanNext == \E c \in Cleaners : CleanStep(c) /\ UNCHANGED sweep

AllExited == \A p \in Sweeps : At(p, "exited")

\* Every process has exited: the only way the machine comes to rest.
Rest ==
    /\ AllExited
    /\ \A c \in Cleaners : cleaner[c].stage = "exited"
    /\ UNCHANGED vars

Next == SweepNext \/ CleanNext \/ Rest

Spec == Init /\ [][Next]_vars

\* A process that can take its next step takes it: each subprocess, driver
\* and grading loop has a timeout of its own.  Ctrl-C is never owed.
FairSpec ==
    /\ Spec
    /\ \A p \in Sweeps : WF_vars(Step(p) /\ UNCHANGED cleaner)
    /\ \A c \in Cleaners : WF_vars(CleanStep(c) /\ UNCHANGED sweep)

-----------------------------------------------------------------------------
\* The values every variable ranges over.
TypeOK ==
    /\ KindTypeOK /\ SweepTypeOK /\ CleanTypeOK
    /\ owner \in [Names -> Owners]

Leftovers(p) == {n \in clusters : owner[n] \in {p} \X (1..Runs)}

\* A user's cluster whose name is not an arena name outlives every sweep,
\* interrupt and clean (README: "your own kind clusters are never candidates").
ForeignClustersSurvive == UserClusters \ ArenaNames \subseteq clusters

\* A run that lands a grade applied its fault, took both snapshots, let the
\* agent work and graded on the cluster it created itself, though a clean may
\* delete that cluster at any step and another run may come up meanwhile.
GradesRestOnOwnCluster ==
    \A p \in Sweeps : At(p, "land") /\ sweep[p].exc = "none" =>
        sweep[p].evidence = {Me(p)}

\* No run reaches a cluster that is not its own, even when its random name is
\* taken by another sweep or by a cluster --keep has left: kind refuses and
\* create_cluster looks at the exit code (cluster.py: "cannot inherit state
\* from a previous attempt").  It is so while no clean runs along, and either
\* nobody has pressed Ctrl-C during a `kind create`, whose handler deletes by
\* name, or there are two sweeps at most and no deletion times out
\* (CollidingRunsStayApart in ArenaProofs).
NeverAnothersCluster ==
    \A p \in Sweeps : sweep[p].evidence \subseteq {Me(p), Nobody}

\* A sweep holds at most one cluster at a time, however the bodies of its runs
\* end and wherever Ctrl-C is pressed, on a machine whose kind neither hangs
\* nor fails to delete.  (Where it does, a run may strand its cluster:
\* CleanRecovers is about those.)
OneClusterPerSweep ==
    \A p \in Sweeps \ Keepers : Cardinality(Leftovers(p)) <= 1

\* With kind reliable, an ended sweep has left a cluster behind only if Ctrl-C
\* came in one of three windows: between `kind create` and the try statement,
\* or while one of the two delete_cluster calls was at work.
OnlyWindowsLeak ==
    \A p \in Sweeps \ Keepers : At(p, "exited") /\ Leftovers(p) # {} =>
        sweep[p].pressed \cap {"unarmed", "abort", "teardown"} # {}

\* A sweep that was told to stop starts no further run.
InterruptStopsSweep ==
    [][\A p \in Sweeps : sweep[p].pressed # {} => sweep'[p].run = sweep[p].run]_vars

\* The results file is what Ledger promises: a record for every attempt.
LedgerSpec == INSTANCE Ledger WITH
    due <- [p \in Sweeps |-> Runs],
    open <- [p \in Sweeps |-> sweep[p].stage \notin {"probe", "next", "exited"}],
    landed <- [p \in Sweeps |-> sweep[p].landed],
    file <- [p \in Sweeps |-> sweep[p].file],
    over <- [p \in Sweeps |-> At(p, "exited")]

ImplementsLedger == LedgerSpec!Spec

\* On a machine whose kind works, a sweep that nobody interrupts ends, and its
\* clusters are gone for good, whatever the runs' bodies raise.
NothingLeftBehind ==
    \A p \in Sweeps \ Keepers :
        <>[](sweep[p].pressed # {} \/ (At(p, "exited") /\ Leftovers(p) = {}))

\* A clean that starts after the sweeps have ended removes what they left
\* (README: "remove anything stranded by an earlier crash"), be it stranded by
\* a `kind create` that timed out, by Ctrl-C, by a deletion that hung or by an
\* earlier clean that was stopped, unless it is stopped itself or kind fails it,
\* which cmd_clean does not notice.
CleanRecovers ==
    \A c \in Cleaners :
        (AllExited /\ cleaner[c].stage = "list") ~>
            \/ clusters \cap ArenaNames = {}
            \/ cleaner[c].exc # "none" \/ cleaner[c].unheard

-----------------------------------------------------------------------------
\* What the repository says and the code does not do.

\* delete_cluster: "teardown must not mask a run's result": the step that
\* tears down leaves nothing in flight that was not.
TeardownKeepsResult ==
    [][\A p \in Sweeps :
        At(p, "teardown") /\ sweep'[p].stage = "land"
            /\ sweep'[p].pressed = sweep[p].pressed =>
        sweep'[p].exc = sweep[p].exc]_vars
=============================================================================
