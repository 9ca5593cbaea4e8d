-------------------------------- MODULE MVSync --------------------------------
(***************************************************************************)
(* Lock, Release and Barrier of the multiview hosts (multiview/host.go)    *)
(* with the manager's handlers for them (multiview/manager.go) and the     *)
(* lock manager and the barrier manager these call.                        *)
(*                                                                         *)
(* The manager handles each message in a goroutine of its own: a release   *)
(* can be overtaken by a later request, and a request waits in the manager *)
(* for the lock's mutex.  A host's program is one thread; it takes locks   *)
(* in the order of their ids, releases what it holds, and comes to a       *)
(* barrier without locks.                                                  *)
(***************************************************************************)
EXTENDS BarrierManager

CONSTANTS LockId, NoLock

ASSUME LockIdAssumption == LockId \subseteq Nat /\ NoLock \notin LockId

VARIABLES
  hasLock,     \* hasLock[h]: the locks of h's map hasLock
  call,        \* call[h]: the lock h waits for in Lock
  stage,       \* stage[h]: how far the request for it has come
  releases,    \* the LOCK_RELEASE messages that are not done with
  locks, locked, lmFree

hostVars == <<hasLock, call, stage, releases>>
lockVars == <<locks, locked, lmFree>>
syncVars == <<vars, hostVars, lockVars>>

LM == INSTANCE LockManager

Stage == {"none", "sent", "waits", "answered"}

SyncTypeOK ==
  /\ TypeOK
  /\ LM!TypeOK
  /\ hasLock \in [Node -> SUBSET LockId]
  /\ call \in [Node -> LockId \cup {NoLock}]
  /\ stage \in [Node -> Stage]
  /\ \A r \in releases :
       r.from \in Node /\ r.id \in LockId /\ r.stage \in {"sent", "noted"}
  /\ \A h \in Node : call[h] = NoLock <=> stage[h] = "none"

SyncInit ==
  /\ Init
  /\ LM!Init
  /\ hasLock = [h \in Node |-> {}]
  /\ call = [h \in Node |-> NoLock]
  /\ stage = [h \in Node |-> "none"]
  /\ releases = {}

\* The program of h runs: it is in no call that blocks.
Runs(h) == call[h] = NoLock /\ waitsFor[h] = NoGroup

\* Lock up to the send.  It returns at once for a lock that is held, which
\* changes nothing.
Lock(h, l) ==
  /\ Runs(h)
  /\ \A k \in hasLock[h] : k < l
  /\ call' = [call EXCEPT ![h] = l]
  /\ stage' = [stage EXCEPT ![h] = "sent"]
  /\ UNCHANGED <<hasLock, releases, lockVars, vars>>

\* handleLockAcquireRequest: the part of HandleLockAcquire inside lm.Mutex.
AcquireRequest(h) ==
  /\ stage[h] = "sent"
  /\ LM!FindLock(call[h])
  /\ stage' = [stage EXCEPT ![h] = "waits"]
  /\ UNCHANGED <<hasLock, call, releases, vars>>

\* handleLockAcquireRequest from lock.Lock() on: the response is sent.
AcquireRespond(h) ==
  /\ stage[h] = "waits"
  /\ LM!LockMutex(call[h])
  /\ stage' = [stage EXCEPT ![h] = "answered"]
  /\ UNCHANGED <<hasLock, call, releases, vars>>

\* The handler of LOCK_ACQUIRE_RESPONSE wakes Lock, which returns.
LockReturns(h) ==
  /\ stage[h] = "answered"
  /\ hasLock' = [hasLock EXCEPT ![h] = @ \cup {call[h]}]
  /\ call' = [call EXCEPT ![h] = NoLock]
  /\ stage' = [stage EXCEPT ![h] = "none"]
  /\ UNCHANGED <<releases, lockVars, vars>>

\* What Release takes from hasLock.
Unheld(h, l) == hasLock[h] \ {l}

\* Release does not wait for an answer.
Release(h, l) ==
  /\ Runs(h)
  /\ l \in hasLock[h]
  /\ hasLock' = [hasLock EXCEPT ![h] = Unheld(h, l)]
  /\ releases' = releases \cup {[from |-> h, id |-> l, stage |-> "sent"]}
  /\ UNCHANGED <<call, stage, lockVars, vars>>

\* handleLockReleaseRequest: HandleLockRelease inside lm.Mutex.  An error
\* ends the goroutine.
ReleaseRequest(r) ==
  /\ r.stage = "sent"
  /\ LM!NoteRelease(r.id)
  /\ releases' = (releases \ {r}) \cup
       (IF r.id \in locks THEN {[r EXCEPT !.stage = "noted"]} ELSE {})
  /\ UNCHANGED <<hasLock, call, stage, vars>>

\* handleLockReleaseRequest: lock.Unlock().
ReleaseUnlock(r) ==
  /\ r.stage = "noted"
  /\ LM!UnlockMutex(r.id)
  /\ releases' = releases \ {r}
  /\ UNCHANGED <<hasLock, call, stage, vars>>

\* Barrier up to the wait in the manager's goroutine, and from there to its
\* return.  The host does nothing else while its messages travel.
BarrierArrive(h) ==
  /\ Runs(h)
  /\ hasLock[h] = {}
  /\ Arrive(h)
  /\ UNCHANGED <<hostVars, lockVars>>

BarrierLeave(h) ==
  /\ Leave(h)
  /\ UNCHANGED <<hostVars, lockVars>>

SyncNext ==
  \/ \E h \in Node :
       \/ \E l \in LockId : Lock(h, l) \/ Release(h, l)
       \/ AcquireRequest(h) \/ AcquireRespond(h) \/ LockReturns(h)
       \/ BarrierArrive(h) \/ BarrierLeave(h)
  \/ \E r \in releases : ReleaseRequest(r) \/ ReleaseUnlock(r)

\* The goroutine that handles h's release of l takes a step.
Released(h, l) ==
  \E r \in releases : r.from = h /\ r.id = l /\ (ReleaseRequest(r) \/ ReleaseUnlock(r))

SyncSpec == SyncInit /\ [][SyncNext]_syncVars

\* Messages are delivered and goroutines scheduled.  A mutex that is unlocked
\* again and again is given to each goroutine that waits for it (sync.Mutex
\* hands over to the one at the front after a millisecond).  Programs release
\* what they hold and come to their barriers.
SyncFairness ==
  /\ \A h \in Node :
       /\ WF_syncVars(AcquireRequest(h))
       /\ SF_syncVars(AcquireRespond(h))
       /\ WF_syncVars(LockReturns(h))
       /\ SF_syncVars(BarrierArrive(h))
       /\ WF_syncVars(BarrierLeave(h))
       /\ \A l \in LockId : SF_syncVars(Release(h, l)) /\ WF_syncVars(Released(h, l))

SyncFairSpec == SyncSpec /\ SyncFairness

-------------------------------------------------------------------------------
(* Properties *)

\* Those who stand for lock l: a response on its way, a host that has it, a
\* release that has not been done yet.
Claims(l) ==
  {<<"answered", h>> : h \in {g \in Node : stage[g] = "answered" /\ call[g] = l}}
    \cup {<<"has", h>> : h \in {g \in Node : l \in hasLock[g]}}
    \cup {<<"releases", r.from>> : r \in {q \in releases : q.id = l}}

\* The manager's mutex is locked exactly while one response, holder or
\* release stands for it; so two hosts never have one lock, a release always
\* finds its mutex locked (Unlock of an unlocked mutex is fatal), and no
\* mutex stays locked without a holder, whatever order the goroutines run in.
\* HandleLockRelease never takes the return that leaves lm.Mutex locked and
\* every later call of the lock manager waiting.
LockAccounted ==
  /\ lmFree
  /\ \A l \in LockId : Cardinality(Claims(l)) = IF l \in locked THEN 1 ELSE 0

\* Lock and Release of the hosts are the abstract lock service, fairness
\* included: every Lock returns.
Service ==
  INSTANCE LockService WITH Node <- Node, LockId <- LockId, NoLock <- NoLock,
                            waitFor <- call, held <- hasLock

ServiceSteps == Service!Spec
ImplementsService == Service!FairSpec
===============================================================================
