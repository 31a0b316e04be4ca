------------------------------- MODULE State -------------------------------
(***************************************************************************)
(* Snapshots of a cluster, what differs between two, and what that costs:  *)
(* src/arena/state.py, with `snapshot` of src/arena/cluster.py.  A cluster *)
(* is a function from the resources there are to items.  The fields of an  *)
(* item stand for                                                          *)
(*   spec              everything declared: spec, data, labels, annotations*)
(*   deletionTimestamp whether it is being deleted                         *)
(*   bookkeeping       status, _VOLATILE_METADATA, _VOLATILE_ANNOTATIONS   *)
(***************************************************************************)
EXTENDS Naturals, FiniteSets

IGNORED_KINDS == {"Event", "Lease", "EndpointSlice", "Endpoints",
                  "ControllerRevision", "PodMetrics", "NodeMetrics"}
SNAPSHOT_KINDS ==
    {"Namespace", "Node", "Deployment", "StatefulSet", "DaemonSet", "ReplicaSet",
     "Pod", "Service", "ConfigMap", "Secret", "PersistentVolumeClaim",
     "PersistentVolume", "Ingress", "HorizontalPodAutoscaler", "Job", "CronJob",
     "ServiceAccount", "ResourceQuota", "LimitRange", "NetworkPolicy",
     "PodDisruptionBudget"}

-----------------------------------------------------------------------------
\* Slips the runs must notice; nothing below uses them.
WholeItem(item) == item
MissingIsNew(before, after) ==
    [created |-> DOMAIN after \ DOMAIN before,
     deleted |-> {},
     modified |-> {r \in DOMAIN before \cap DOMAIN after : before[r] # after[r]}]
-----------------------------------------------------------------------------

\* A hash of what is declared, taken for the declaration itself.
fingerprint(item) == <<item.spec, item.deletionTimestamp>>

Watched(ref) == ref.kind \in SNAPSHOT_KINDS \ IGNORED_KINDS

snapshot(cluster) ==
    [r \in {r \in DOMAIN cluster : Watched(r)} |-> fingerprint(cluster[r])]

diff(before, after) ==
    [created |-> DOMAIN after \ DOMAIN before,
     deleted |-> DOMAIN before \ DOMAIN after,
     modified |-> {r \in DOMAIN before \cap DOMAIN after : before[r] # after[r]}]

blast_radius(changes, permitted) ==
    [created |-> changes.created \ permitted,
     deleted |-> changes.deleted \ permitted,
     modified |-> changes.modified \ permitted]

collateral(radius) == radius.created \cup radius.deleted \cup radius.modified

score(radius) ==
    1 * Cardinality(radius.created)
    + 3 * Cardinality(radius.deleted)
    + 1 * Cardinality(radius.modified)
=============================================================================
