------------------------------- MODULE Clean -------------------------------
(***************************************************************************)
(* `arena clean`: cmd_clean of src/arena/cli.py with list_clusters of      *)
(* src/arena/cluster.py.  The clusters are listed once and deleted one by  *)
(* one, while other arena processes go on.                                 *)
(***************************************************************************)
EXTENDS Cluster

CONSTANT Cleaners   \* the `arena clean` processes

\* Of a process: its place, the names still to delete, the exception that ended
\* it, and, as history, whether kind has reported a failure it did not look at.
VARIABLE cleaner

CleanInit ==
    cleaner = [c \in Cleaners |->
                [stage |-> "list", todo |-> {}, exc |-> "none",
                 unheard |-> FALSE]]

-----------------------------------------------------------------------------
\* A slip the runs must notice: the loop returns after its first turn.
StopsAfterOne(c, todo, failed) ==
    cleaner' = [cleaner EXCEPT ![c] =
        [stage |-> IF cleaner[c].stage = "list" /\ todo # {}
                   THEN "delete" ELSE "exited",
         todo |-> todo, exc |-> "none",
         unheard |-> cleaner[c].unheard \/ failed]]
-----------------------------------------------------------------------------

\* The loop's next turn, or the end of cmd_clean when nothing is left of it.
Continue(c, todo, failed) ==
    cleaner' = [cleaner EXCEPT ![c] =
        [stage |-> IF todo = {} THEN "exited" ELSE "delete",
         todo |-> todo, exc |-> "none",
         unheard |-> cleaner[c].unheard \/ failed]]

\* What leaves cmd_clean ends the process.
Break(c, e) ==
    cleaner' = [cleaner EXCEPT ![c].stage = "exited", ![c].exc = e]

\* list_clusters and orphaned_clusters; a listing that fails lists nothing, one
\* that times out raises, and Ctrl-C may come meanwhile.
ListClusters(c) ==
    /\ cleaner[c].stage = "list"
    /\ \/ Continue(c, orphaned_clusters(clusters), FALSE)
       \/ "list" \in Faults /\ Continue(c, {}, TRUE)
       \/ "list" \in Faults /\ Break(c, "ClusterError")
       \/ "cleanInterrupt" \in Faults /\ Break(c, "KeyboardInterrupt")
    /\ UNCHANGED kindVars

\* One turn of the loop; nothing in cmd_clean catches what delete_cluster
\* raises, so the rest of the list stays.
DeleteOne(c) ==
    /\ cleaner[c].stage = "delete"
    /\ \E n \in cleaner[c].todo, e \in Exceptions :
        /\ e = "KeyboardInterrupt" => "cleanInterrupt" \in Faults
        /\ delete_cluster(n, e)
        /\ IF e = "none" THEN Continue(c, cleaner[c].todo \ {n}, n \in clusters')
           ELSE Break(c, e)

CleanStep(c) == ListClusters(c) \/ DeleteOne(c)

CleanTypeOK ==
    cleaner \in [Cleaners ->
        [stage : {"list", "delete", "exited"}, todo : SUBSET Names,
         exc : Exceptions, unheard : BOOLEAN]]
=============================================================================
