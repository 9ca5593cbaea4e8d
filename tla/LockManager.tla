----------------------------- MODULE LockManager ------------------------------
(***************************************************************************)
(* The lock manager of treadmarks/tm_manager.go (LockManagerImp), which    *)
(* serves Lock and Release of the multiview and the first TreadMarks       *)
(* hosts.                                                                  *)
(*                                                                         *)
(* A lock is a mutex that the map `locks` has from the first acquire on.   *)
(* HandleLockAcquire finds it inside lm.Mutex and locks it outside, so     *)
(* that a goroutine that waits for a lock does not keep others from        *)
(* lm.Mutex; HandleLockRelease notes the releaser inside lm.Mutex and      *)
(* unlocks outside.  Each of these four parts is one step here.  Who       *)
(* released a lock last, which HandleLockAcquire returns, is left out: the *)
(* multiview manager does not look at it.                                  *)
(***************************************************************************)
CONSTANT LockId

VARIABLES
  locks,     \* the ids in the map of locks
  locked,    \* the ids whose mutex is locked
  lmFree     \* nobody is inside lm.Mutex (a part that ends leaves it so)

TypeOK ==
  /\ locks \subseteq LockId
  /\ locked \subseteq locks
  /\ lmFree \in BOOLEAN

Init ==
  /\ locks = {}
  /\ locked = {}
  /\ lmFree = TRUE

\* HandleLockAcquire up to lm.Unlock: the mutex is there from now on.
FindLock(l) ==
  /\ lmFree
  /\ locks' = locks \cup {l}
  /\ UNCHANGED <<locked, lmFree>>

\* lock.Lock().
LockMutex_any(l) == locked' = locked \cup {l} /\ UNCHANGED <<locks, lmFree>>
LockMutex(l) ==
  /\ l \notin locked
  /\ locked' = locked \cup {l}
  /\ UNCHANGED <<locks, lmFree>>

\* HandleLockRelease up to lm.Unlock.  The return for an unknown id comes
\* before lm.Unlock, so that lm.Mutex stays locked.
NoteRelease(l) ==
  /\ lmFree
  /\ lmFree' = (l \in locks)
  /\ UNCHANGED <<locks, locked>>

\* lock.Unlock(), which the runtime answers with a fatal error if the mutex
\* is not locked.
UnlockMutex_not(l) == UNCHANGED <<locks, locked, lmFree>>
UnlockMutex(l) ==
  /\ locked' = locked \ {l}
  /\ UNCHANGED <<locks, lmFree>>
===============================================================================
