------------------------------ MODULE MCArena ------------------------------
(***************************************************************************)
(* Arena for TLC, on a machine that already has the user's clusters `mine` *)
(* and `arena-dev`; a1, a2, .. are names the arena mints.  The cfg of a    *)
(* run picks the processes, the faults and the bounds.                     *)
(***************************************************************************)
EXTENDS Arena
=============================================================================
