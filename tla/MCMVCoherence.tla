---------------------------- MODULE MCMVCoherence ----------------------------
(* Instances of MVCoherence for TLC. *)
EXTENDS MVCoherence
===============================================================================
