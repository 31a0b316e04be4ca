------------------------------ MODULE Workload ------------------------------
(***************************************************************************)
(* What the grader looks at while it looks: the pods a selector matches    *)
(* and one named object (a Deployment's field, a claim's phase), which     *)
(* Kubernetes goes on changing after the agent has stopped.  External: the *)
(* rules are those the comments of src/arena/checks.py and settle.py rely  *)
(* on ("the rollout takes seconds and the old pods are still terminating", *)
(* "Ready for a moment between restarts").                                 *)
(***************************************************************************)
EXTENDS Naturals, FiniteSets

CONSTANTS
    Slots,          \* where pods can be
    Replicas,       \* how many pods the Deployment wants
    RestartCap      \* bound: restarts counted

ASSUME WorkloadAssumption == Replicas \in Nat /\ RestartCap \in Nat

VARIABLES
    pods,       \* the pods, by slot
    object,     \* the object: gone, its field unset, or the field's value
    health      \* what the agent left: pods of the new template work, never
                \* get ready, or crash after a while; "none": no rollout

workload == <<pods, object, health>>

Pod == [new : BOOLEAN, ready : BOOLEAN, restarts : 0..RestartCap]
Objects == {"gone", "deleting", "unset", "pending", "bound"}

Used == DOMAIN pods
New == {s \in Used : pods[s].new}

\* A Deployment whose pods have been crashing for some time.
WorkloadInit ==
    /\ \E used \in SUBSET Slots :
        /\ Cardinality(used) = Replicas
        /\ pods \in [used -> {pod \in Pod : ~pod.new /\ pod.restarts = RestartCap}]
    /\ object \in Objects
    /\ health \in {"works", "stuck", "crashes", "none"}

\* A pod of the new template appears; of the rest as many stay as may.
Surge(s) ==
    /\ health # "none" /\ s \notin Used /\ Cardinality(New) < Replicas
    /\ pods' = [t \in Used \cup {s} |->
            IF t = s THEN [new |-> TRUE, ready |-> FALSE, restarts |-> 0]
            ELSE pods[t]]
    /\ UNCHANGED <<object, health>>

\* An old pod goes once a new one is there.
Terminate(s) ==
    /\ s \in Used \ New /\ New # {}
    /\ pods' = [t \in Used \ {s} |-> pods[t]]
    /\ UNCHANGED <<object, health>>

\* What the containers of a pod do: an old one crashes.
Runs(s) == IF s \in New THEN health ELSE "crashes"

BecomesReady(s) ==
    /\ s \in Used /\ ~pods[s].ready /\ Runs(s) # "stuck"
    /\ pods' = [pods EXCEPT ![s].ready = TRUE]
    /\ UNCHANGED <<object, health>>

Crash(s) ==
    /\ s \in Used /\ Runs(s) = "crashes"
    /\ pods' = [pods EXCEPT ![s].ready = FALSE,
                            ![s].restarts = IF @ < RestartCap THEN @ + 1 ELSE @]
    /\ UNCHANGED <<object, health>>

\* A claim is bound, a deletion is carried out.
ObjectChanges ==
    /\ \/ object = "pending" /\ object' = "bound"
       \/ object = "deleting" /\ object' = "gone"
    /\ UNCHANGED <<pods, health>>

WorkloadStep ==
    \/ \E s \in Slots : Surge(s) \/ Terminate(s) \/ BecomesReady(s) \/ Crash(s)
    \/ ObjectChanges

WorkloadTypeOK ==
    /\ pods \in UNION {[used -> Pod] : used \in SUBSET Slots}
    /\ object \in Objects /\ health \in {"works", "stuck", "crashes", "none"}
=============================================================================
