----------------------------- MODULE MCConnection -----------------------------
(* Instances of Connection for TLC: hosts that join one after the other and  *)
(* hosts that join at the same time.                                         *)
EXTENDS Connection
===============================================================================
