------------------------------ MODULE MCMVAlloc -------------------------------
(* An instance of MVAlloc for TLC: allocations that fill a page and that     *)
(* share pages with others, twelve bytes in three pages.  The hosts differ   *)
(* in name only.                                                             *)
EXTENDS MVAlloc

Several == {<<3, 5>>}
Symmetry == Permutations(Host)
===============================================================================
