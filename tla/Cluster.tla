------------------------------ MODULE Cluster ------------------------------
(***************************************************************************)
(* Throwaway kind clusters: src/arena/cluster.py and src/arena/guard.py.   *)
(*                                                                         *)
(* The machine's kind clusters are the state every `arena` process shares. *)
(* An operation of cluster.py is an action with the exception it ends in   *)
(* as a parameter ("none" when it returns), so that its callers can be     *)
(* written the way Python unwinds.  A name stands for a whole string; the  *)
(* prefix test of guard.py and of orphaned_clusters is ArenaNames.         *)
(***************************************************************************)
EXTENDS Naturals, Sequences, FiniteSets

CONSTANTS
    Names,        \* names of kind clusters that can occur on the machine
    ArenaNames,   \* ... that start with "arena-" and are longer than that
    MintNames,    \* ... that are "arena-" and six hex digits
    UserClusters, \* clusters that exist before any arena process starts
    User, Nobody, \* owners of those clusters, and of none
    Collisions,   \* may a random name repeat one that is or was in use?
    Faults        \* what the outside may do; see FaultKinds

FaultKinds == {"create", "createTimeout", "kubectl", "driver", "grader",
               "deleteNonzero", "deleteTimeout", "list", "cleanInterrupt"}

ASSUME ClusterAssumption ==
    /\ MintNames \subseteq ArenaNames
    /\ ArenaNames \subseteq Names
    /\ UserClusters \subseteq Names
    /\ Collisions \in BOOLEAN
    /\ Faults \subseteq FaultKinds

\* What can be in flight in the Python process.  "Other" stands for every
\* exception that neither run_scenario nor main catches: TimeoutExpired from
\* the grader, AttributeError from a driver, UnsafeContextError, SystemExit.
Exceptions == {"none", "ClusterError", "KeyboardInterrupt", "Other"}

VARIABLES
    clusters,     \* what `kind get clusters` lists, half-built ones included
    owner,        \* history: the run that created the cluster of that name
    minted        \* history: the names that are or were in use

kindVars == <<clusters, owner, minted>>

KindInit ==
    /\ clusters = UserClusters
    /\ owner = [n \in Names |-> IF n \in UserClusters THEN User ELSE Nobody]
    /\ minted = UserClusters

-----------------------------------------------------------------------------
\* Slips the runs must notice; nothing below uses them.
EveryCluster(listed) == listed
TakesOver(n, who) ==
    /\ clusters' = clusters \cup {n}
    /\ owner' = [owner EXCEPT ![n] = IF n \in clusters THEN @ ELSE who]
    /\ UNCHANGED minted
DeletesAll(n) == clusters' = {} /\ UNCHANGED <<owner, minted>>
-----------------------------------------------------------------------------

\* guard.arena_cluster_name: a name is random, nothing checks it is unused.
arena_cluster_name(n) ==
    /\ n \in MintNames
    /\ Collisions \/ n \notin minted
    /\ minted' = minted \cup {n}

\* guard.ensure_safe_context("kind-" + n, n): the context is built from the
\* name by every caller, so only the test of the name can refuse.
ensure_safe_context(n) == n \in ArenaNames

\* cluster.orphaned_clusters: by name alone, whoever made the cluster.
orphaned_clusters(listed) == listed \cap ArenaNames

\* `kind create cluster` brings a cluster up; kind refuses a name in use.
KindCreate(n, who) ==
    /\ n \notin clusters
    /\ clusters' = clusters \cup {n}
    /\ owner' = [owner EXCEPT ![n] = who]
    /\ UNCHANGED minted

\* `kind delete cluster` takes the cluster away.
KindDelete(n) == clusters' = clusters \ {n} /\ UNCHANGED <<owner, minted>>

\* A subprocess killed in the middle has done its work, or not.
Killed(Work) == Work \/ UNCHANGED kindVars

\* cluster.create_cluster, from the call of `kind create` on, ending in e.
create_cluster(n, who, e) ==
    \/ e = "none" /\ KindCreate(n, who)
    \/ /\ e = "ClusterError"
       /\ n \in clusters \/ "create" \in Faults
       /\ UNCHANGED kindVars
    \/ /\ e = "ClusterError" /\ "createTimeout" \in Faults
       /\ Killed(KindCreate(n, who))
    \/ e = "KeyboardInterrupt" /\ Killed(KindCreate(n, who))

\* cluster.delete_cluster: the exit code is not looked at, a timeout raises.
delete_cluster(n, e) ==
    \/ e = "Other" /\ ~ensure_safe_context(n) /\ UNCHANGED kindVars
    \/ /\ ensure_safe_context(n)
       /\ \/ e = "none" /\ KindDelete(n)
          \/ e = "none" /\ "deleteNonzero" \in Faults /\ UNCHANGED kindVars
          \/ /\ e = "ClusterError" /\ "deleteTimeout" \in Faults
             /\ Killed(KindDelete(n))
          \/ e = "KeyboardInterrupt" /\ Killed(KindDelete(n))

KindTypeOK ==
    /\ clusters \subseteq Names
    /\ minted \subseteq Names
=============================================================================
