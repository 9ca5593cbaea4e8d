------------------------------- MODULE MCTMLock -------------------------------
(* Instances of TMLock for TLC. *)
EXTENDS TMLockInv
===============================================================================
