----------------------------- MODULE MCDrivers -----------------------------
(***************************************************************************)
(* Drivers for TLC: scripts shorter and longer than the turn budget, and   *)
(* an API that may answer at once or late, ask for a wait shorter or       *)
(* longer than the backoff, or answer with more calls than the budget has  *)
(* turns.  One round of the Gemini driver may outlast its wall clock.      *)
(***************************************************************************)
EXTENDS Drivers
=============================================================================
