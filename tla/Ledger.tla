------------------------------- MODULE Ledger -------------------------------
(***************************************************************************)
(* What a sweep promises whoever reads its results, whatever happens to    *)
(* clusters underneath (module docstring of src/arena/cli.py, _failed_run  *)
(* of src/arena/runner.py): an attempt that was begun is recorded once or  *)
(* the sweep is abandoned, and the results file holds one record for every *)
(* attempt of the sweep or does not exist.  How many attempts there are to *)
(* be is settled before the first.                                         *)
(***************************************************************************)
EXTENDS Naturals, Sequences

CONSTANTS Sweeps, Results

VARIABLES
    due,      \* how many attempts the sweep is to make
    open,     \* is an attempt under way?
    landed,   \* the records of the attempts made
    file,     \* the results file, <<>> while there is none
    over      \* has the process ended?

ledger == <<due, open, landed, file, over>>

Init ==
    /\ due \in [Sweeps -> Nat]
    /\ open = [p \in Sweeps |-> FALSE]
    /\ landed = [p \in Sweeps |-> <<>>]
    /\ file = [p \in Sweeps |-> <<>>]
    /\ over = [p \in Sweeps |-> FALSE]

Settle(p) ==
    /\ ~over[p] /\ ~open[p] /\ landed[p] = <<>>
    /\ due' \in [Sweeps -> Nat] /\ \A q \in Sweeps \ {p} : due'[q] = due[q]
    /\ UNCHANGED <<open, landed, file, over>>

Begin(p) ==
    /\ ~over[p] /\ ~open[p] /\ Len(landed[p]) < due[p]
    /\ open' = [open EXCEPT ![p] = TRUE]
    /\ UNCHANGED <<due, landed, file, over>>

Record(p) ==
    /\ open[p]
    /\ \E r \in Results : landed' = [landed EXCEPT ![p] = Append(@, r)]
    /\ open' = [open EXCEPT ![p] = FALSE]
    /\ UNCHANGED <<due, file, over>>

Publish(p) ==
    /\ ~over[p] /\ ~open[p] /\ Len(landed[p]) = due[p]
    /\ file' = [file EXCEPT ![p] = landed[p]]
    /\ over' = [over EXCEPT ![p] = TRUE]
    /\ UNCHANGED <<due, open, landed>>

Abandon(p) ==
    /\ ~over[p]
    /\ over' = [over EXCEPT ![p] = TRUE]
    /\ open' = [open EXCEPT ![p] = FALSE]
    /\ UNCHANGED <<due, landed, file>>

Next == \E p \in Sweeps :
    Settle(p) \/ Begin(p) \/ Record(p) \/ Publish(p) \/ Abandon(p)

Spec == Init /\ [][Next]_ledger
=============================================================================
