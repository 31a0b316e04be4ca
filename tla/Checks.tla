------------------------------- MODULE Checks -------------------------------
(***************************************************************************)
(* The verifier primitives of src/arena/checks.py, each a predicate on     *)
(* what one kubectl call returned.  A view is what the grader can be shown:*)
(* the pods that match and the object, "gone" when there is none.          *)
(***************************************************************************)
EXTENDS Workload

CONSTANTS
    Count,          \* PodsReady.count
    max_restarts    \* PodRestartsBelow.max_restarts

CheckKinds == {"pods_ready", "pod_restarts_below", "field_equals",
               "field_present", "resource_absent"}

\* LiveClusterView.list and .get when kubectl answers, and when it exits
\* nonzero or prints no JSON: then both say that there is nothing.
LiveView == [pods |-> pods, object |-> object]
EmptyView == [pods |-> <<>>, object |-> "gone"]

-----------------------------------------------------------------------------
\* Slips the runs must notice; nothing below uses them.
NoWorstRestart(view) == \* max(.., default=0), without the test for no pods
    \A s \in DOMAIN view.pods : view.pods[s].restarts < max_restarts
-----------------------------------------------------------------------------

PodsReady(view) ==
    Cardinality({s \in DOMAIN view.pods : view.pods[s].ready}) = Count

PodRestartsBelow(view) ==
    /\ DOMAIN view.pods # {}
    /\ \A s \in DOMAIN view.pods : view.pods[s].restarts < max_restarts

FieldEquals(view) == view.object = "bound"
FieldPresent(view) == view.object \notin {"gone", "unset"}
ResourceAbsent(view) == view.object = "gone"

evaluate(check, view) ==
    \/ check = "pods_ready" /\ PodsReady(view)
    \/ check = "pod_restarts_below" /\ PodRestartsBelow(view)
    \/ check = "field_equals" /\ FieldEquals(view)
    \/ check = "field_present" /\ FieldPresent(view)
    \/ check = "resource_absent" /\ ResourceAbsent(view)
=============================================================================
