----------------------------- MODULE LockService ------------------------------
(***************************************************************************)
(* What the lock operations of the TreadMarks API promise a program: a     *)
(* lock has at most one holder, a program blocks in AcquireLock until the  *)
(* lock is its own, and, when every holder releases, it gets it.  There    *)
(* are no messages and no tokens here; TMLock is shown to implement this.  *)
(***************************************************************************)
EXTENDS Naturals

CONSTANTS Node, LockId, NoLock

VARIABLES waitFor, held

vars == <<waitFor, held>>

Init ==
  /\ waitFor = [p \in Node |-> NoLock]
  /\ held = [p \in Node |-> {}]

Free(l) == \A p \in Node : l \notin held[p]

InOrder(p, l) == \A k \in held[p] : k < l

\* AcquireLock that does not block.
Take(p, l) ==
  /\ waitFor[p] = NoLock
  /\ InOrder(p, l)
  /\ Free(l)
  /\ held' = [held EXCEPT ![p] = @ \cup {l}]
  /\ UNCHANGED waitFor

\* AcquireLock that blocks, and its return.
Block(p, l) ==
  /\ waitFor[p] = NoLock
  /\ InOrder(p, l)
  /\ waitFor' = [waitFor EXCEPT ![p] = l]
  /\ UNCHANGED held

Grant(p) ==
  /\ waitFor[p] \in LockId
  /\ Free(waitFor[p])
  /\ held' = [held EXCEPT ![p] = @ \cup {waitFor[p]}]
  /\ waitFor' = [waitFor EXCEPT ![p] = NoLock]

Release(p, l) ==
  /\ waitFor[p] = NoLock
  /\ l \in held[p]
  /\ held' = [held EXCEPT ![p] = @ \ {l}]
  /\ UNCHANGED waitFor

Next ==
  \E p \in Node :
    Grant(p) \/ \E l \in LockId : Take(p, l) \/ Block(p, l) \/ Release(p, l)

Spec == Init /\ [][Next]_vars

\* Grant is strongly fair: a lock that is free again and again is granted to
\* each program that waits for it.
Fairness ==
  /\ \A p \in Node : SF_vars(Grant(p))
  /\ \A p \in Node : \A l \in LockId : SF_vars(Release(p, l))

FairSpec == Spec /\ Fairness
===============================================================================
