# A verification of the DSM project

The repository is a distributed shared memory in Go. It has two systems that do not share much code: a lazy
release consistent one after TreadMarks (`dsm-api/treadmarks`, and its predecessor `treadmarks`) and a sequentially
consistent one after Millipage (`multiview`). Both run over a home-made peer-to-peer connection (`network`) and on a
software virtual memory with access rights (`memory`).

This directory holds TLA+ modules translated from the source, configurations that check them with TLC, and proofs
that TLAPS checks. `PROJECT.json` maps each definition to the lines it stands for.

## 1. Inventory

| Component | State | Operations | What is hard about it | What makes it correct |
|---|---|---|---|---|
| Locks of the TreadMarks API (`dsm-api/treadmarks/host.go`) | per lock: `locked`, `haveToken`, `last`, `nextId`/`nextTimestamp`; a wake-up channel | `AcquireLock`, `ReleaseLock`, handlers of acquire requests and responses | requests that cross, are forwarded, or reach a node between its unlock and its next lock; two threads per node | one holder; the token is neither lost nor copied; no request is lost; every request is answered; knowledge travels with the token |
| Timestamps (`timestamp.go`) | none | `increment`, `covers`, `merge`, `min` | – | order and bounds |
| Intervals and barriers of the API (`host.go`) | `procarray`, `timestamp`, `dirtyPages`, `barrierreq` | `newInterval`, `addInterval`, `getMissingIntervals`, barrier messages | timestamps taken before an interval is closed; a manager that plays both roles in two threads | after a barrier everybody knows every interval, once, in order |
| Pages of the API (`host.go`) | `twins`, `dirtyPages`, write notices, copies, access rights | `onFault`, copy and diff requests and responses, `generateDiff`, `applyAllDiffs` | diffs made in the network thread while the application writes; lists that grow between request and response | a read sees the writes that happen before it |
| Coherence of Multiview (`multiview/host.go`, `multiview/manager.go`) | host: `accessMap`, memory, `chanMap`; manager: `mpt`, `log`, `copies`, `locks`, and three mutexes | `Read`, `Write`, `Malloc`, `Free`, `MultiMalloc`, a handler for every message | one goroutine per message, so no order; locks held from a request to an acknowledgement | one writer or many readers, current copies, every call returns |
| Allocation in Multiview (`multiview/manager.go`) | `mpt`, `log` over the allocator of `memory` | `Malloc`, `MultiMalloc`, `Free` and their handlers | the search for a view, allocations that end in the middle of a page, a `MultiMalloc` that fails halfway | an allocation stays reachable until it is freed, and shares no minipage |
| Locks and barriers of Multiview (`multiview/host.go`, `multiview/manager.go`) | host: `hasLock`, `chanMap` | `Lock`, `Release`, `Barrier` and their handlers | a release that is overtaken by later requests | a lock service; every call returns |
| Barrier manager, lock manager (`treadmarks/tm_manager.go`) | a map of wait groups; a map of mutexes | `HandleBarrier`; `HandleLockAcquire`, `HandleLockRelease` | what a goroutine does after it was woken, when others have gone on; mutexes taken outside `lm.Mutex` | nobody is ahead, everybody gets through; a mutex is locked exactly while somebody stands for it |
| Virtual memory (`memory/mem.go`) | `FreeMemObjects`, `mallocHistory`, `AccessMap` | `Malloc`, `Free`, reads and writes of one or several bytes, with fault listeners | merging of free ranges, freeing twice; accesses that end with a page or span two | allocations are disjoint, nothing leaks |
| Connection (`network/connection.go`) | `peers`, `myId`, two channels | `Connect`, `addHost`, `sendLoop`, `receive` | hosts that join at the same time, messages to peers not known yet, deadlines in the middle of a message | ids are unique, messages of a pair of hosts arrive once and in order |
| Client, server, transceiver, endpoint, log | sockets | wiring | – | – |
| First TreadMarks (`treadmarks/tm_host.go` and its data structures) | vector clock, page and process arrays | as the API | superseded by `dsm-api/treadmarks` | – |

How they interact: an application thread calls a host; the host sends messages through a channel of its connection
and blocks on a channel of its own; the connection of the receiver puts the message into a channel that the receiver's
network thread reads. In `dsm-api` that thread handles the messages one after the other, in `multiview` it starts a
goroutine for each. The handler wakes the application. Threads of one host share their state under mutexes (per lock,
or per map), which decides what is one action in the models: a critical region is one step, and what lies between
two of them may be interrupted by anybody.

The hazards of the code, each at its line, with the properties that would catch them going wrong, are in
`PROJECT.json`. A property is named only where a checked instance meets the hazard, and a note says which part of it the instance does not
meet; those without a property say why. Most of these
are hazards the code falls to: an instance that meets them breaks a property that the smaller instance keeps (section 4).

## 2. Plan

Done, in this order, because everything of `dsm-api` rests on the lock protocol and everything of `multiview` on the
coherence protocol:

1. `Timestamps`, `TMLock`, `LockService`: the locks, refined to an abstract service and proved.
2. `MVCoherence`: hosts and manager of Multiview.
3. `TMRecords`, `TMHost`: intervals, write notices, twins, diffs, copies, barriers and accesses of several bytes of
   `dsm-api`, over an abstraction of the locks that is related to `TMLock` by `LockService`.
4. `BarrierManager`, `LockManager`, and `MVSync`, which composes them with `Lock`, `Release` and `Barrier` of Multiview;
   refined to the same `LockService`.
5. `Vmem` and `MVAlloc`: first fit and merging of free ranges, and the views and minipages of Multiview on top.
6. `Channels` and `Connection`: joining, ids, sending with retries and receiving, refined to the channels that `TMLock`
   and `TMHost` assume.
7. Proofs, beside each component: `TMLock_proofs`, `TMLockTokens_proofs`; `MVSync_proofs`; `MVCoherence_proofs`,
   `MVCoherenceData_proofs`; `MVAlloc_proofs`; `Connection_proofs`; `TMHost_proofs` (section 6).

To do:

8. `Shutdown` and `Close`: `Close` closes the channel `out`, which a goroutine of `sendLoop` may still put a message into.

## 3. Modules

### Timestamps
`timestamp.go`: a timestamp is a function from processes to numbers, `covers` its order, `merge` and `min` (here
`meet`) the bounds. The check of equal lengths is left out: all timestamps have `nrProcs` entries.

### TMLock, with LockService, TMLockInv, TMLock_proofs, TMLockTokens_proofs
State: `lock[p][l]` is the Go record `lock` (its `nextId` and `nextTimestamp` are one field `next`, which is
`NoNode` when `nextTimestamp` is nil; `nextId` is not read then). `timestamp` and `dirty` stand for a node's intervals
and dirty pages: as a node that knows an interval knows all that precede it, the timestamp, the least upper bound of
their timestamps, says which ones it knows. `net` is the connection, a queue per ordered pair of nodes, the
node itself included (`sendLoop` puts such messages back into `in`). `channel` is the buffered `t.channel`. `waitFor`
and `held` say where the application is; `released` is a history variable.

Actions: the mutex of a lock makes each of `AcquireLock` (two branches), `ReleaseLock` and the two handlers one step,
and the receive on `t.channel` another (`Wake`). The three branches of `handleLockAcquireRequest` that differ in what
they send are `PassToken`, `Enqueue` and `Forward`. `newInterval` is part of the steps that call it. `Write` is the
first write to a page in an interval. Two things are asked of the program: it does not lock twice, and it takes
several locks in ascending order.

`LockService` is what a program sees: `Take`, `Block`, `Grant`, `Release`. `TMLock` implements it under the identity
mapping of `waitFor` and `held`.

### TMRecords and TMHost, with TMHost_proofs
`TMRecords` holds what `host.go` does to the data of one host, as functions from a record `h` to a record: the fields are
those of the Go struct (`timestamp`, `procarray`, `pagearray`, `dirtyPages`, `twins`) with the host's access rights and
memory. An interval record and its write notice records point to each other in Go; here an interval has the set of its
pages, and a write notice its timestamp and its diff, `NoDiff` being the null pointer. A diff is a partial function on
bytes. The twin of a page is copied from `GetPageAddr` of the page's *number* (`host.go:207`): `TwinSource` is the page
that this address is in, page 0 for all numbers below the page size. A null diff that is sent arrives as an empty one, because the xdr decoder allocates every map (the library is
outside the repository; this is modelled in `requestedWritenotices`).

`TMHost` is the machine. `host[p]` is such a record, and `op[p]` says where the application thread of `p` is: the
places where it waits for `t.channel`, and the points of `onFault` between which the network thread may run
(`sendDiffRequests`, `sendDiffRequest` once per request, `ApplyDiffs`, `MakeTwin`, `SetRights`, `Store`). An access has one byte (`Read`; `WriteBytes` with length
1 is `Write`) or several. `Vmem` finds out whether a page of it lacks the right; `ReadBytes` looks one byte too far, and
`WriteBytes` reports the fault at the start of the first such page. `onFault` makes a round of its loop (`Round`, `NextRound`)
for each page of the access, by that page's rights, but every round is about the page of the address it was given; then all pages of
the access get the rights. `channel[p]` counts the wake-ups in `t.channel`,
which has room for one; 2 means that a handler is blocked on the send, and then the network thread handles nothing.
The handlers are one action each. Until a host has its copy, the page's copy set is `<<0>>`, so all copies come from the
manager. `handleBarrierRequest` runs in two threads of the manager, the application's and the network's, without a
mutex but for the one-place channel `t.barrier`; it is split where they can overtake each other: storing the request, taking the
count (`Count`, which closes and gathers the intervals if it was the last), each response, and the end.

The locks are abstracted: a request is a member of a set until the holder of the token answers it, from `ReleaseLock` or
from the handler, and the intervals that go with the token are computed as in the code. `ServiceSteps` says that this
implements `LockService`, as `TMLock` does.

Programs are free of data races, which the API asks of them: a page with a lock is used inside the lock, any other is,
between two barriers, written by one host or read by several (`MayUse`). `FalseSharing` relaxes the second to bytes.
`Over[g][v]` are the values that programs write to page `g` over a `v`. `latest`, `used` and the counters are the programs' and the bounds' bookkeeping.

### MVCoherence, with MVCoherence_proofs, MVCoherenceData_proofs
State: `access` and `mem` are the hosts' access maps and memories, the latter as sets of stores; the rest is the
manager. As every message is handled in a goroutine of its own (`server.go`, `client.go`), `msgs` is a set from which
any member may be handled next. A handler that can block in its middle is split there, and its second half is a member
of `msgs` with the handler's name as type: `HandleReadReq` and `HandleWriteReq` wait for the page's lock while
they hold `locksLock` for reading; `HandleAlloc` waits for `locksLock` while it holds `m.Mutex`; `HandleFree` for the
page inside `locksLock`; and `handleAck` reads the copy set and writes it back in two steps. `ManagerFree`, `LocksFree`
and `PageFree` say when these mutexes can be had; a writer that waits for `locksLock` bars new readers, as in Go.

Abstracted: a page is a minipage, an allocation has one; which addresses and which view it gets is left open
(any free page), so that a free page may be used again. Data are sets of stores, so that a lost store is seen.
Programs use only what `Malloc` returned, and do not use or free what is being freed.

### BarrierManager, LockManager and MVSync, with MVSync_proofs
`BarrierManager`: `HandleBarrier` up to `Wait`, under the mutex, is `Arrive`; what follows `Wait` is `Leave`. A wait group
is a number, `counter` its counter. `LockManager`: `HandleLockAcquire` and `HandleLockRelease` are two steps each, the part
inside `lm.Mutex` (`FindLock`, `NoteRelease`) and the lock or unlock of the lock's own mutex outside it. `lmFree` becomes false
where the code returns without unlocking `lm.Mutex`.

`MVSync` extends the one, instantiates the other, and adds the hosts: `Lock` up to the send, the manager's goroutine in the steps
above, the return; `Release`, which does not wait; `Barrier`. `releases` holds the release messages and the goroutines at work on
them; since there is one per message, a host's release can be handled after its next request for the same lock. `MVSync`
implements `LockService`, fairness included, with `call` for `waitFor` and `hasLock` for `held`; `ServiceSteps` is
the part of this without fairness, which is proved.

### Vmem and MVAlloc, with MVAlloc_proofs
`Vmem` has the list `FreeMemObjects` as a sequence of pairs, empty ranges included, with first fit (`FirstFit`,
`Taken`) and the merge of `Free` as a fold (`MergeStep`, `Merged`). `MVAlloc` is the manager's part: `Minipages` cuts an allocation at the
borders of pages, `View` finds the first view whose pages are free, `Insert` enters the minipages, `Belonging` are the
virtual pages that `HandleFree` deletes (it follows `log` until a page that belongs to another). `HandleAlloc` holds `m.Mutex`
and is one step; `handleMultiAlloc` does not and takes three per allocation: the memory (`MultiTake`), the search for a view
(`MultiView`) and the entries in it (`MultiInsert`), between which another call may come. If there is no memory it drops the
call without an answer. `heap` is the programs' knowledge of what they were given.

`npages`, the length of a view, is rounded up (`manager.go:359-363`), but an address of a view is taken modulo the size of the
memory, which is not (`manager.go:173`, `manager.go:409`, `host.go:307`). The model has both as they are, for any size of at
least a page. In a memory that is not whole pages, as in `system_test.go:277` (4104 bytes, pages of 4096), every view begins
at another place of the memory than view 0; section 4 says what fails. `WholePages` names what `HeapIntact`, `NoFalseSharing`
and `Conserved` suppose.

### Channels and Connection, with Connection_proofs
`Channels` is what the code above a connection takes for granted: a message comes once, in order, with its sender's id.
`Connection` is `network/connection.go`: a host dials the first one (`Dial`), is given an id and the addresses of the
others (`AddHost`, `ReadReply`), dials those (`DialPeer`), and starts to receive (`Connected`); the hosts that are dialled
add it to their lists in two steps (`Grow`, `AddHostEnds`), because sending does not wait for them. `sendLoop` takes a
message from `out`: to the host itself, to a peer, or, if the id is beyond the list of peers, back into `out` half a
second later. The goroutine that does so uses the loop's variable `msg`, so what it puts back is what `sendLoop` took last
(`PutBack`). In the refinement a message is in the abstract queue from `Send` on, through `out`, a goroutine and the wire, and the
abstract id of a host is the one on its way to it from the moment the first host has chosen it.

`addPeer` lets the list grow with nil and then sets the entry, without a lock, and `sendLoop` may run in between. If it
takes a message for the new peer there, it has no connection to write to and the process ends (`SendToNil`, `connection.go:130`).
The model ends with it (`ended`): what the other processes make of a closed connection is not modelled. So `Delivered` promises
every message unless a process ends, and `EndsOnlyInAddPeer` says that this is the only place where one does.

Two constants open races that the code does not exclude and that break it: `Overlap` (hosts join at the same time) and
`Eager` (a program sends while a message waits to be put back). The checked instance has neither; section 4 says what
fails with each. A connection carries whole
messages: the loop of `read` over partial reads is one step, and no deadline passes within a message.

## 4. Runs

| Run | Instance | Shows |
|---|---|---|
| `lock_intervals` | 3 nodes, 1 lock, 1 interval each | `TypeOK`, the inductive invariant `IInv` (before its proof), and `ReleaseVisible`: the holder knows all intervals that precede the last release |
| `lock_tokens` | 3 nodes, 2 locks, no writes | mutual exclusion, one token, one claim per blocked call, no panic, and the refinement to the lock service, with fairness: no blocked call is left behind |
| `tm_pages` | 2 hosts, a page with a lock and one without, 1 write each, 2 acquisitions, 2 barriers | types; reads see the latest write; nobody leaves a barrier early; faults are answered and barriers passed |
| `tm_diffs` | 3 hosts, a page with a lock and one that is only read, accesses across both, 2 writes each, 4 acquisitions | reads see the latest write; no write goes unnoticed; a writable page has a twin; timestamps describe the interval lists; no missing interval is left out; the locks are a lock service |
| `mv_page` | 3 hosts, 1 page, 1 store | one writer; the copies in the copy set are current; every fault is answered |
| `mv_heap` | 2 hosts, 2 pages, 3 Mallocs, Free | the manager never meets an empty copy set, and an acknowledgement finds its own lock locked |
| `mv_sync` | 3 hosts, 1 lock, barriers 1, 2, 1 | a mutex is locked exactly while a response, a holder or a release stands for it; nobody is ahead at a barrier, no panic of `Done`, everybody gets through; the refinement to the lock service, with fairness |
| `mv_alloc` | 2 hosts, 12 bytes in 3 pages, sizes 4 and 6, a `MultiMalloc` of 3 and 5 | every byte of an allocation stays reachable and in minipages of its own; free memory, allocations and what was lost in failed calls are all the memory, once; room that is there is found. A memory of whole pages |
| `conn_join` | 3 hosts, 2 messages | lists of peers are complete in the end; a process ends only if `sendLoop` runs inside its own `addPeer`; the refinement to channels; every message arrives, unless a process ends |
| `mv_copyset`, `mv_deadlock`, `tm_twin` | smallest that fail | disagreements between the code and what it says of itself, see "findings" in `PROJECT.json` |

Why the bounds are enough: three nodes are needed for a request that is forwarded, for a queue of two waiting nodes and
for requests that cross at a third; two locks for a token that is passed by the network thread while the application
is inside another lock, and for nested locks. The bound on intervals limits only how often a node writes. For pages,
three hosts give a copy set that is invalidated in different orders; two pages and three Mallocs a page that is reused
while another is busy. Three barrier rounds come back to the first barrier while a late host can still be at the second, and three
hosts compete for a lock whose release is still on its way. Twelve bytes are three pages of four: allocations of 4 fill a page, those of 6, 3 and 5
leave pieces, so that pages are shared, views are searched and ranges merge on either side or both. Three hosts are the fewest
with a peer that is not the first one and is dialled; two messages can be in one queue, or cross, or wait in different
places for a host that has not joined.

In `TMHost` a write changes its byte and every second or third write restores an earlier value: diffs that are applied in the
wrong order, or twice, give wrong bytes. Page 1 has values that page 0 never has (`OwnValues`), because of the twins (`tm_twin`). Three hosts are needed
for intervals and diffs that come from a third host; two barriers for one that is begun while another host is still
inside the last one.

Deadlock is checked where programs run for ever (the locks; `mv_page`). It is not checked in `mv_heap` and the runs with
several calls of Malloc, because the system really may stop there: `mv_deadlock` shows how, and a `Free` that overtakes
the acknowledgement of a read stops it too. Nor is it checked for
`TMHost`, `mv_sync`, `mv_alloc` and `conn_join`, where programs end or memory runs out.

What the violation runs show:

- `mv_copyset`: two hosts read a page; each acknowledgement reads the copy set before the other writes it; one host is
  missing from it and keeps its right to read after the next write.
- `mv_deadlock`: `HandleAlloc` waits with `m.Mutex` for `locksLock`, a request waits with `locksLock` for a page, and the
  acknowledgement that would release the page waits for `m.Mutex`.
- `tm_twin`: the twin of page 1 is a copy of page 0. A host writes a value to page 1 that page 0 has at the same place; the diff
  is empty, its write notice is dropped, and after the barrier the other host reads the old value. With values that page 0 does not have (`tm_pages`)
  a diff has too many bytes, which does no harm while one host at a time writes a page.

Outside the instances that are checked, these fail too; they have no run of their own:

- `ReadsLatest` with 3 hosts and two pages without a lock that are written before a barrier: a barrier request has the timestamp of
  before the host's own interval was closed (`host.go:454`), so the response brings that interval back; if an interval of a third host is
  added before it, `addInterval` does not recognise it and gives the host's own page a second write notice, without a
  diff, which then hides the diff of the first from other hosts.
- `WritableHasTwin` and `ReadsLatest` with `tm_diffs` and a write across the two pages (`WriteSpan <- AcrossPages`, `Over <- SameValues`): the
  second page becomes writable without a copy, a twin or a notice (`host.go:184`).
- `ReadsLatest` with `tm_diffs` on 2 hosts, when page 1 is written too (`Address = {0, 2}`, `Value = 0 .. 3`, `Over <- OwnValues`): a
  read across the pages makes page 1 readable without fetching it (`host.go:184`), and its bytes are old.
- `ReadsLatest` with `tm_diffs` on page 0 alone with 2 bytes and `ReadSpan <- FirstPage`: a host writes both bytes and reads them with
  `ReadBytes`. As the access ends with its page, the rights of the next page count too (`mem.go:166`), the fault makes page 0
  read-only, and the next write makes the twin anew: what was written before is in no diff.
- `ReadsLatest` with 2 hosts, 2 writes each, 3 barriers and an `Over` that allows to write what is there: a page that was written without being changed
  has an empty diff, and its write notice is then treated as if it had none (`host.go:323`).
- `WritableHasTwin` with `FalseSharing = TRUE`, 2 bytes, 2 writes and 2 barriers: a diff request that comes between the
  twin and the access rights (`host.go:202-215`) takes the twin away.
- `MissingComplete` with 3 hosts, one page with a lock, 2 writes, 4 acquisitions and 1 barrier (`MaxBarriers = 1`, where `tm_diffs` has none),
  and with a fifth acquisition `ReadsLatest`. The manager has intervals 1 and 2 of a host through the lock; the host's barrier request
  repeats both, as the manager's own last interval covers neither (`host.go:458`). `addInterval` (`host.go:300`) skips only the
  interval whose timestamp is the manager's present one, here 2, and appends 1 again. The list is then 1, 2, 1, and the search
  from its end stops at 1 for a host that knows 1 (`host.go:345`): that host gets interval 2 neither with the barrier's response nor
  with a later lock, and reads the old value. `IntervalsKnown` holds in that instance.
- `NoLostStore` of `MVCoherence` (2 hosts, 1 page, 2 stores): a host that was granted the right to write loses it before it
  stores (`multiview/host.go:356`); the store goes into a copy that the next reply overwrites.
- `BarrierPassed` of `MVSync` with `Program <- Repeated`: of two hosts that use one barrier for consecutive rounds, the late one
  deletes the wait group of the next round that the early one has joined already (`tm_manager.go:95`).
- `HeapIntact` with `Alone = FALSE`: two `MultiMalloc`s find the same view free (`manager.go:264`). And with smaller sizes (1 and 2): when
  no view is free the last one is used all the same (`manager.go:365`).
- `HeapIntact`, `NoFalseSharing` and `Conserved` with `Size = 6` (and `PageSize = 4`): the first allocation is at place 0 and gets
  address 8, the beginning of view 1, which hosts and manager take for place 2. `Free` looks there, finds no
  allocation, and the bytes are not given back (`manager.go:409`). `RoomIsFound` holds in every memory.
- `PeersComplete` with `Overlap = TRUE`: `Connect` makes its list of peers anew and forgets a host that has dialled it meanwhile
  (`connection.go:85`). `ImplementsChannels` with `Eager = TRUE`: the message put back is another one than the one that
  waited (`connection.go:125`). And a process does end in `conn_join`, inside `addPeer` (`connection.go:232`).
- `CopysetComplete` with a page that is freed and allocated again (`manager.go:386`): `HandleFree` revokes nothing, so hosts keep
  rights to a page whose copy set is new.

`CopysetCurrent` and `SingleWriter` hold despite `mv_copyset` and the lost stores: the copies that are in the copy set
have all stores that were made with the right to write. What is lost is made without it. Neither says that a writer is the only
host with any right: a reader that `mv_copyset` has dropped from the copy set keeps its right beside the next writer.

## 5. Fairness

- Locks: weak fairness of each node's handling of what each other node sends it (a network thread that runs for
  ever; a channel whose senders are merged, which does not ignore one of them for ever), and of `Wake`. Strong fairness
  of `ReleaseLock`, because a program leaves its critical sections whatever else it does inside. None for acquiring.
- `TMHost`: weak fairness of a call that has begun (`Continue`), of each network thread
  (`handleIncoming`) and of the manager's threads inside a barrier (`Manager`). None for the programs' calls.
- Multiview: weak fairness of the program that was answered; strong fairness of handling the messages of a host,
  because what a handler waits for (a mutex) may be free only now and then, and Go's mutexes starve nobody.
- `MVSync`: weak fairness of every goroutine's steps and of `Barrier`'s return; strong fairness of getting a lock's mutex
  (Go's mutexes starve nobody), of `Release` and of coming to the next barrier, which programs do whatever else they do.
- `Connection`: weak fairness of joining, of `listen`, `sendLoop`, the goroutines that put back, and of receiving from each peer.
- The lock service: strong fairness of `Grant`. `TMLock` and `MVSync` are shown to implement it with that fairness.

## 6. Proofs

`TMLock_proofs` proves for every set of nodes and locks and every bound, from the assumptions in `TMLock`
(`Manager \in Node`, locks are numbers, the two null values are not a node and not a lock):

- `Invariance`: `IInv` is an invariant; and from it `TypeCorrect`, `MutexCorrect`, `NoDoubleLockCorrect`,
  `ReleaseVisibleCorrect`.
- `ServiceCorrect`: every behaviour of `TMLock` is one of `LockService` (`ServiceSteps`).

Mutual exclusion is not inductive: that a response on its way is the only token, and that nobody is locked meanwhile,
has to be known. `IInv` says (`TokenInv`) that a token is in at most one place, (`LockedInv`) that a locked node has
the token and is locked for its application, (`ClaimInv`, `WaitInv`) that a pending acquisition is recorded in at most
one place and only of a waiting application, so that a response finds somebody who waits for it, and (`ReleasedInv`)
that a token travels with a timestamp that covers the lock's last release. The queues appear in it only through two
predicates, `Has` (some message belongs to a set of deliveries) and `One` (at most one does). Four lemmas say what
sending and taking a message do to them, and are all the proof knows of sequences; then there is a lemma per action,
with a step per conjunct of `IInv` that the action can disturb.

For the refinement, `ServiceStep` shows that a step under `IInv` is a step of the service or leaves `waitFor` and
`held` alone; `TokenMeansFree` gives the guard of `Take` and `Grant`: who has the token may enter, as everybody
inside the lock has it.

`TMLockTokens_proofs` adds the other half, that nothing is lost. `IInv` bounds the places of a token and of a pending
acquisition from above; `There` says that for every lock some node or message has the token, and that for every blocked
call some request, `next` field, response or wake-up stands. It is inductive only together with `IInv` (a message
that is taken is the only one of its kind), and carries the witness from place to place, step by step (`NothingLost`). With it the
sets of places of `OneToken` and `OneClaim` are singletons (`OneTokenCorrect`, `OneClaimCorrect`).

A first section of `TMLock_proofs` is about `Timestamps`: `covers` is a partial order, `merge` and `meet` are its bounds, and
`increment` goes up.

`MVSync_proofs` proves for every set of hosts, every set of locks and every sequence of barriers
`SyncInvariance`, `SyncTypeCorrect`, `NobodyAheadCorrect`, `CounterCorrect`, `LockAccountedCorrect`, and `ServiceCorrect`: every
behaviour of the lock manager and its hosts is one of `LockService`. Assumed are that hosts are finitely many (a counter of a wait group is a number
of them) and that a program is a sequence of ids (`ProgramAssumption`), which `Barrier` takes as numbers. That nobody is ahead at a
barrier follows from what the counters mean: the counter of a wait group that is in the map is the number of hosts minus those who wait for
it (`CounterInv`), those who wait together are equally far, and when a counter is zero everybody waits or has gone through
(`RoundInv`). A wait group that was deleted from the map too early, which the code allows when one barrier is used twice in a row, is
covered: the invariant says only that nobody will come to it any more. So such programs can hang, but nobody passes a barrier early. For the locks, `OwnerInv` says that a
locked mutex has one owner or one release under way. `LockAccounted` counts the same; it is inductive only with the types of the
goroutines' stages and with `lm.Mutex` free between steps (`FoundInv`).

`MVCoherence_proofs` proves for every set of hosts and of pages, with and without `Free`: `CoherenceInvariance`, `CoherenceTypeCorrect`,
`AckFindsLockCorrect`, `CopysetNotEmptyCorrect`. As messages are handled in any order, `CoherenceInv` says what each of them means while
it is under way: whose call it belongs to and that the caller is blocked in it (`CallInv`), that the call has no other message but invalidations
(`OneCallInv`), that a message past the page's lock holds it (`LockInv`) and that an acknowledgement is the last message
of its lock (`OneAckInv`). From these an unlock finds its lock locked, and a copy set is emptied only by a writer that puts itself into it.

`MVCoherenceData_proofs` proves `SingleWriterCorrect` and `CopysetCurrentCorrect` for programs that do not call `Free` (`~MayFree`). The
assumption is needed: `HandleFree` leaves the hosts' rights in place (`manager.go:386`), and with 2 hosts, 1 page, 3
Mallocs and `MayFree = TRUE`, TLC finds two writers of a page that was allocated again. `DataCoherenceInv` adds to `CoherenceInv` that
a host that may write is alone in the copy set, is about to be invalidated, or has just been given the page (`WriterInv`); that nobody
writes while a copy is under way (`QuietInv`); and that every copy in the copy set, and every one on its way into it, has
all that was stored with the right to store (`DataInv`). That acknowledgements overwrite each other's copy sets (`mv_copyset`) is no
obstacle: they agree on the first entry, the owner (`OwnerInv`), and a copy that is forgotten is not in the set.

`MVAlloc_proofs` proves `RoomIsFoundCorrect` for any memory, and `ConservedCorrect` for any memory of whole pages, which is a
hypothesis of the theorem (`WholePages`) because it fails in others. Both hold for any hosts, any sizes that are asked for but 0
(`SizesAssumption`), and also when calls overlap (`Alone` either way). Three inductions are in it:

- Over the free list. `Free` is a loop over it, in `Vmem` a fold. `Merging` is the loop's invariant after `k` ranges: what was
  merged so far, the ranges before it and those after it are in order, do not touch, come before the ranges the loop has
  not seen, and have the bytes of the first `k` ranges and of the freed one. `MergeStepKeeps` shows a step of the loop, and
  `MergedOrdered` the result: the list is in order (`Ordered`, no two ranges touch) and has the old bytes and the new ones. The
  induction takes the least `k` for which `Merging` fails (`Least`, from the theorem that `<` on numbers is
  well-founded); that the fold has a value for every list is shown the same way (`FoldExists`). `FirstFitFinds` and
  `TakenOrdered` say what `Malloc` does to the list, and `OrderedRoom` that in a list in order, free bytes that follow one another are in one range.
- Over the steps. `AllocInv` says that the list is in order (`FreeInv`); that `mallocHistory` has the size of every allocation
  at its place, which is what `Free` believes (`PlaceInv`); that every byte is free, in one allocation or in one part that
  waits for its pages (`ShareInv`); that what is being freed is an allocation, and is freed once (`FreeingInv`); and
  that what a `MultiMalloc` has made so far is nobody else's (`MadeInv`). An address says where an allocation is: it is
  the place in memory plus a number of times the size of the memory, whatever the view (`AddressOf`, for whole pages), so that
  `HandleFree` gives back the bytes that were given out even if two allocations came into one view.
- Over the steps of any memory. `ListInv` knows nothing of where allocations are: the list is in order and within the memory,
  and no size in `mallocHistory` leads out of it, so that whatever place `Free` is given, right or wrong, it merges a range of the
  memory into the list (`ListInvariance`). That is enough for `RoomIsFound`.

`Connection_proofs` proves, for any hosts that join one after the other (`~Overlap`), `PeersCompleteCorrect` and
`EndsOnlyInAddPeerCorrect`, with any number of messages and with `Eager` either way: every entry of a list is set but that of the host
that is being added, so an entry that `sendLoop` finds to be nil is that one. If hosts join at the same time,
TLC finds the counterexample to `PeersComplete` of section 4. `IdAssumption` (at most 256 hosts) is not used by the proofs: it keeps the model true to the code, in which an
id is a byte. That lists are complete when everything has settled says nothing of the time before; `ConnInv` relates what the hosts know to
`Given`, the number of ids the first host has chosen. Ids below it belong to one host each (`IdInv`); what a joining host has been
told, has dialled and has yet to dial are all the hosts before it (`ReplyInv`, `PeerInv`); the dials in a
backlog come from the hosts with the next ids, in order (`BacklogInv`); and the peers of a host with those that are being added and those
in its backlog make all that were given, less the one that has yet to dial it (`CountInv`). A greeting is the first
thing on its connection (`BacklogInv`, `WireInv`), as nobody sends to a host that has not been dialled.

`TMHost_proofs` proves `NobodyAheadCorrect` and `ServiceCorrect` of the whole machine of `TMHost`: any number of hosts, any pages,
locks and accesses, with or without false sharing, from the assumptions in `TMHost` and `TMRecords` that locks and pages are numbers
and `NoNode` is not a host. The data of the hosts play no part in it, but their messages do: a thread waits for
a lock, a barrier, a copy and diffs on the one channel `t.channel`, which carries no value, so that a wake-up that is left over
from a fault would end a wait for a lock or a barrier. `HostInv` therefore counts. `Wakes(net, p)` are the places in the
queues of messages that will wake `p` (requests of `p` for copies and diffs, and answers to it), and `WakeInv` says that their number
and that of the wake-ups in `channel[p]` make no more than `p`'s thread waits for where it is (`Awaited`): one for a copy, a lock or a
barrier, `left` for diffs, otherwise none. Messages have to be counted by their places, since two diff requests may
go to one host (`host.go:371`). `ReasonInv` adds that they are messages of the kind it waits for. With this a
message that is handled finds its addressee where it should be, and the rest is local:

- Locks: `TokenInv` says that a token is at one host or in one response, to a host that waits for that lock; a wake-up of a
  thread that waits for a lock means that its host has the token, and has it locked. `RequestInv`: a request that waits for the
  token is all there is of its call. The guards of `LockService` follow as for `TMLock`.
- Barriers: `Pending` are the hosts that wait for the current barrier and are not answered or about to be, `Arrived` those of them
  whose requests the manager has got. `ArrivalInv` says that the number in `t.barrier`, with the threads that are about to count,
  is no more than there are in `Arrived`, and that only a pending host has a request under way, and one. So a count of
  `NrProcs` means that everybody is pending; and `PhaseInv`, that the pending hosts are one barrier ahead of the
  others, is kept when that ends. While the manager answers one after the other (`Responding`), those who are answered can
  come to the next barrier before the others are told of this one; `Served` tells them apart.

A section on queues says what sending and taking a message do to `Messages`, `Of` and `Wakes`; then there is a lemma for each kind of
step (a thread asks, a handler answers, a thread is woken, a token or an arrival moves), and one for each action that names its kind.

All of these invariants were checked with TLC on small instances before they were proved; `lock_intervals` still checks `IInv`
(`There` is what `OneToken` and `OneClaim` of `lock_tokens` say of existence). They are in the
modules with the proofs and have no constants of their own, so that a theorem is about the same definitions as the runs.

Model-checked only:

- liveness (`ImplementsService`, `FaultAnswered`, `BarrierPassed`, `Delivered`), as fairness and `ENABLED` are beyond the prover;
- `ImplementsChannels`, whose abstract queues are selections (`SelectSeq`) from sequences, that is, recursions over data;
- `HeapIntact` and `NoFalseSharing` of `MVAlloc`: they depend on a view being free, and fail in instances in which none is, in which
  calls overlap, or in which the memory is not whole pages (section 4);
- `TypeOK`, `ReadsLatest`, `TwinNoticed`, `WritableHasTwin`, `IntervalsKnown` and `MissingComplete` of `TMHost`: intervals, write notices
  and diffs are computed by folds over lists of lists, and some of these properties need more of the programs than the module
  assumes (section 4 lists instances in which `ReadsLatest`, `WritableHasTwin` and `MissingComplete` fail, so that they are no theorems).

## 7. Not modelled

- The first TreadMarks implementation (`treadmarks/tm_host.go` and its data structures): superseded by `dsm-api`, with the
  registration of its fault listener commented out, so that no access of a program reaches its protocol. Its lock and barrier
  managers, which Multiview uses, are modelled; the last releaser that `HandleLockAcquire` returns is looked at only there and is left out.
- `Shutdown`, `Leave` and `Close`. In all models hosts do not crash and do not leave: the code has no recovery.
- Read deadlines that pass within a message: what a stream out of step is read as is arbitrary.
- The conversions between numbers and bytes of `ReadInt` and `WriteInt`, and `ReadBytes` and `WriteBytes` of Multiview, which are
  loops over `Read` and `Write` of one byte.
- The older client, server, transceiver and endpoint, used by the first TreadMarks and by tests; the network log;
  `multiviewMemory.go`, which wraps system calls; the benchmarks, `main.go` and `utils`.
