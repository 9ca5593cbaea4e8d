------------------------------ MODULE Timestamps ------------------------------
(***************************************************************************)
(* The vector timestamps of dsm-api/treadmarks/timestamp.go.  A timestamp  *)
(* has one component per process; the Go slices all have nrProcs entries   *)
(* (covers and merge panic on slices of different lengths), so here every  *)
(* timestamp is a function on the same set of processes.                   *)
(***************************************************************************)
EXTENDS Naturals

\* NewTimestamp: the timestamp that has seen no interval of any process.
NewTimestamp(P) == [i \in P |-> 0]

increment(t, p) == [t EXCEPT ![p] = @ + 1]

covers(t, o) == \A i \in DOMAIN t : t[i] >= o[i]

\* min: the component-wise lower of the two.
meet(t, o) == [i \in DOMAIN t |-> IF t[i] < o[i] THEN t[i] ELSE o[i]]

\* The component-wise higher of the two.
merge(t, o) == [i \in DOMAIN t |-> IF t[i] > o[i] THEN t[i] ELSE o[i]]
===============================================================================
