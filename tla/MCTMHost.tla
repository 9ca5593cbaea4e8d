------------------------------- MODULE MCTMHost -------------------------------
(* Instances of TMHost: which pages are protected by lock 0; what is written *)
(* to a page (0 and 1 in turn to every page, 0 and 1 to page 0 but 2 and 3   *)
(* to the others, or nothing to the others); and the accesses of several     *)
(* bytes (none; with pages of two bytes: across pages 0 and 1, and all of    *)
(* page 0).                                                                  *)
EXTENDS TMHost

CONSTANT LockedPages

MCLockOf == [g \in Page |-> IF g \in LockedPages THEN 0 ELSE NoLock]

SameValues == [g \in Page |-> [v \in Value |-> {1 - v}]]
OwnValues == [g \in Page |-> [v \in Value |->
                IF g = 0 THEN {1 - v} \cap Value ELSE {IF v = 2 THEN 3 ELSE 2}]]
FirstOnly == [g \in Page |-> [v \in Value |-> IF g = 0 THEN {1 - v} ELSE {}]]

NoSpan == {}
AcrossPages == {<<0, 3>>}
FirstPage == {<<0, 2>>}
===============================================================================
