------------------------------- MODULE MCMVSync -------------------------------
(* Instances of MVSync for TLC: a program that comes to a barrier again only *)
(* after another one, and one that uses the same barrier in a row.           *)
EXTENDS MVSync

Alternating == <<1, 2, 1>>
Repeated == <<1, 1, 1>>
===============================================================================
