------------------------------- MODULE Report -------------------------------
(***************************************************************************)
(* Turning runs into rows: src/arena/report.py.  A result is what a row is *)
(* made of: [scenario, passed, stop_reason, blast_score], a harness_error  *)
(* being the one that carries an error.  All results of a sweep have one   *)
(* driver, so a row is named by its scenario; tokens, calls and seconds are*)
(* left out, and so is the order of rows.  The runs of a row are a function*)
(* from their places in the results.                                       *)
(***************************************************************************)
EXTENDS Naturals, Sequences, FiniteSets, Functions

_INCIDENT_REASONS == {"timeout", "error", "harness_error"}

BlastOf(runs) == [i \in DOMAIN runs |-> runs[i].blast_score]

-----------------------------------------------------------------------------
\* Slips the runs must notice; nothing below uses them.
LastOnly(results, id) ==
    LET at == {i \in DOMAIN results : results[i].scenario = id}
    IN Restrict(results, {i \in at : \A j \in at : j <= i})
-----------------------------------------------------------------------------

Select(results, id) ==
    Restrict(results, {i \in DOMAIN results : results[i].scenario = id})

\* How many runs ended for each reason that says nothing about the agent.
_incidents(runs) ==
    [reason \in {runs[i].stop_reason : i \in DOMAIN runs} \cap _INCIDENT_REASONS |->
        Cardinality({i \in DOMAIN runs : runs[i].stop_reason = reason})]

\* round(sum / count, 2), in hundredths; fewer than 8 runs never tie.
MeanBlast(runs) ==
    LET n == Cardinality(DOMAIN runs)
    IN (200 * SumFunction(BlastOf(runs)) + n) \div (2 * n)

WorstBlast(runs) ==
    LET scores == Range(BlastOf(runs))
    IN CHOOSE x \in scores : \A y \in scores : y <= x

Row(runs) ==
    [runs |-> Cardinality(DOMAIN runs),
     passes |-> Cardinality({i \in DOMAIN runs : runs[i].passed}),
     mean_blast |-> MeanBlast(runs), max_blast |-> WorstBlast(runs),
     notes |-> _incidents(runs)]

aggregate(results) ==
    [id \in {results[i].scenario : i \in DOMAIN results} |->
        Row(Select(results, id))]
=============================================================================
