------------------------------- MODULE Scope -------------------------------
(***************************************************************************)
(* What a scenario lets the agent change: ScopeEntry and Scenario.in_scope *)
(* of src/arena/scenario.py.  A resource is [kind, namespace, name] (its   *)
(* API version goes with its kind), an entry the same with a pattern for a *)
(* name and None for an omitted kind.                                      *)
(***************************************************************************)
CONSTANTS
    Globs,      \* pattern -> the names fnmatchcase takes for it
    None

Derived ==
    [Deployment |-> {"ReplicaSet", "Pod"},
     StatefulSet |-> {"Pod", "ControllerRevision", "PersistentVolumeClaim"},
     DaemonSet |-> {"Pod", "ControllerRevision"},
     ReplicaSet |-> {"Pod"},
     CronJob |-> {"Job", "Pod"},
     Job |-> {"Pod"}]

-----------------------------------------------------------------------------
\* Slips the runs must notice; nothing below uses them.
KindsAlone(entry, ref) ==
    /\ ref.namespace = entry.namespace /\ ref.name \in Globs[entry.name]
    /\ entry.kind = None \/ ref.kind = entry.kind
-----------------------------------------------------------------------------

matches(entry, ref) ==
    /\ ref.namespace = entry.namespace
    /\ ref.name \in Globs[entry.name]
    /\ \/ entry.kind = None
       \/ ref.kind = entry.kind
       \/ entry.kind \in DOMAIN Derived /\ ref.kind \in Derived[entry.kind]

in_scope(scope, ref) == \E entry \in scope : matches(entry, ref)
=============================================================================
