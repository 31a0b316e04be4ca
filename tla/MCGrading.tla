----------------------------- MODULE MCGrading -----------------------------
(***************************************************************************)
(* Grading for TLC: a Deployment of one replica, with a slot for the pod a *)
(* rollout adds, and the combinations of checks the scenarios of the       *)
(* repository declare, with one for a removal.                             *)
(***************************************************************************)
EXTENDS Grading

Declared == {
    <<"pods_ready">>,
    <<"field_equals", "pods_ready">>,
    <<"pods_ready", "pod_restarts_below", "field_present">>,
    <<"resource_absent", "pod_restarts_below">>}

Stable == {<<"pods_ready", "pod_restarts_below">>}
=============================================================================
