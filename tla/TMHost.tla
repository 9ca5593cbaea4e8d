-------------------------------- MODULE TMHost --------------------------------
(***************************************************************************)
(* The hosts of dsm-api/treadmarks/host.go: shared pages kept consistent   *)
(* by intervals that travel with locks and barriers.                       *)
(*                                                                         *)
(* A host has an application thread, which reads, writes, locks and comes  *)
(* to barriers, and a network thread (handleIncoming), which handles one   *)
(* message after the other.  op[p] says where the application thread is.   *)
(*                                                                         *)
(* How a request for a lock finds the host that has its token is TMLock's  *)
(* subject.  Here a request is a member of requests, and the host that has *)
(* the token may find any of them at its door.                             *)
(*                                                                         *)
(* Programs have no data races: a page with a lock is used inside the lock *)
(* only, and any other page is, between two barriers, either written by    *)
(* one host or read by some.                                               *)
(***************************************************************************)
EXTENDS TMRecords

CONSTANTS
  LockId,        \* the locks
  LockOf,        \* LockOf[g]: the lock that protects page g, or NoLock
  NoLock,
  NoNode,        \* the token is in a message
  Value,         \* the values of a byte that are used
  Over,          \* Over[g][v]: what programs write to a byte of page g over v
  Address,       \* the addresses of reads and writes of one byte
  ReadSpan,      \* <<address, length>> of the reads of several bytes
  WriteSpan,     \* <<address, length>> of the writes of several bytes
  FalseSharing,  \* TRUE if hosts may use different bytes of a page at a time
  MaxWrites,     \* bound: writes of one host
  MaxAcquires,   \* bound: calls of AcquireLock
  MaxBarriers    \* bound: barriers a host comes to

ASSUME LockOfAssumption == LockOf \in [Page -> LockId \cup {NoLock}]
ASSUME ValueAssumption == 0 \in Value /\ Over \in [Page -> [Value -> SUBSET Value]]
ASSUME LockIdAssumption == LockId \subseteq Nat
ASSUME NoNodeAssumption == NoNode \notin Node
ASSUME SpanAssumption ==
  \A s \in ReadSpan \cup WriteSpan \cup (Address \X {1}) :
    s[1] \in Nat /\ s[2] \in Nat \ {0} /\ PagesOf(s[1], s[2]) \subseteq Page

VARIABLES
  host,          \* host[p]: the data of TMRecords
  op,            \* op[p]: what p's application thread is doing
  channel,       \* channel[p]: wake-ups in t.channel; 2: a sender is blocked
  net,           \* net[p][q]: messages from p that q has not handled yet
  token,         \* token[l]: the host that has lock l's token
  locked,        \* locked[l]: that host is inside l
  requests,      \* requests[l]: the requests for l that nobody has answered
  barrier,       \* t.barrier of the manager; Empty while a thread has its value
  barrierreq,    \* barrierreq of the manager
  counting,      \* the manager's threads that are about to receive from t.barrier
  respond,       \* the thread that ends the barrier and whom it answers next
  held,          \* the locks p's program is inside of
  phase,         \* the barriers p's program has come to
  used,          \* used[g][b][p]: p's last use of g's byte b, and its phase
  latest,        \* latest[g]: what has been written to g
  writes, acquires

program == <<held, phase, used, latest, writes, acquires>>
locks == <<token, locked, requests>>
barriers == <<barrier, barrierreq, counting, respond>>
vars == <<host, op, channel, net, locks, barriers, program>>

getManagerId == 0
Empty == NrProcs
Nobody == [thread |-> "none", next |-> 0]

Idle == [pc |-> "idle"]
NoRequest == [Timestamp |-> NewTimestamp(Node), Intervals |-> <<>>]

Timestamp == [Node -> Nat]
Content == [Byte -> Value]
Diff == UNION {[B -> Value] : B \in SUBSET Byte}
Interval == [Owner : Node, Timestamp : Timestamp, Pages : SUBSET Page]
Writenotice == [Timestamp : Timestamp, Diff : Diff \cup {NoDiff}]

BarrierRequest ==
  [type : {"barrierRequest"}, Timestamp : Timestamp, Intervals : Seq(Interval)]
BarrierResponse == [type : {"barrierResponse"}, Intervals : Seq(Interval)]
LockAcquireResponse ==
  [type : {"lockAcquireResponse"}, LockId : LockId, Intervals : Seq(Interval)]
DiffRequest ==
  [type : {"diffRequest"}, PageNr : Page, First : Timestamp, Last : Timestamp]
DiffResponse ==
  [type : {"diffResponse"}, PageNr : Page,
   Writenotices : Seq([Timestamp : Timestamp, Diff : Diff])]
CopyRequest == [type : {"copyRequest"}, PageNr : Page]
CopyResponse == [type : {"copyResponse"}, PageNr : Page, Data : Content]

HostType(h) ==
  /\ h.timestamp \in Timestamp
  /\ h.procarray \in [Node -> Seq(Interval)]
  /\ h.dirtyPages \subseteq Page
  /\ \A g \in Page :
       /\ h.pagearray[g].hasCopy \in BOOLEAN
       /\ h.pagearray[g].hasMissingDiffs \in BOOLEAN
       /\ h.pagearray[g].index \in [Node -> Nat]
       /\ h.pagearray[g].writenotices \in [Node -> Seq(Writenotice)]
  /\ h.twins \in [Page -> Content \cup {NoTwin}]
  /\ h.access \in [Page -> {NO_ACCESS, READ_ONLY, READ_WRITE}]
  /\ h.memory \in [Page -> Content]

\* t.channel has room for one wake-up, and one handler at most waits to send.
TypeOK ==
  /\ \A p \in Node : HostType(host[p])
  /\ \A p \in Node : op[p].pc \in {"idle", "round", "copy", "diffs", "answers", "twin", "rights",
                                    "store", "lock", "counting", "barrier"}
  /\ channel \in [Node -> 0 .. 2]
  /\ \A p, q \in Node : net[p][q] \in
       Seq(BarrierRequest \cup BarrierResponse \cup LockAcquireResponse \cup DiffRequest
             \cup DiffResponse \cup CopyRequest \cup CopyResponse)
  /\ token \in [LockId -> Node \cup {NoNode}]
  /\ locked \in [LockId -> BOOLEAN]
  /\ requests \in [LockId -> SUBSET [From : Node, Timestamp : Timestamp]]
  /\ barrier \in 0 .. Empty
  /\ barrierreq \in [Node -> [Timestamp : Timestamp, Intervals : Seq(Interval)]]
  /\ counting \subseteq {"app", "net"}
  /\ respond \in [thread : {"none", "app", "net"}, next : 0 .. NrProcs]
  /\ held \in [Node -> SUBSET LockId]
  /\ latest \in [Page -> Content]

Init ==
  /\ host = [p \in Node |-> NewHost]
  /\ op = [p \in Node |-> Idle]
  /\ channel = [p \in Node |-> 0]
  /\ net = [p \in Node |-> [q \in Node |-> <<>>]]
  /\ token = [l \in LockId |-> getManagerId]
  /\ locked = [l \in LockId |-> FALSE]
  /\ requests = [l \in LockId |-> {}]
  /\ barrier = 0
  /\ barrierreq = [p \in Node |-> NoRequest]
  /\ counting = {}
  /\ respond = Nobody
  /\ held = [p \in Node |-> {}]
  /\ phase = [p \in Node |-> 0]
  /\ used = [g \in Page |-> [b \in Byte |-> [p \in Node |-> [phase |-> 0, type |-> "NONE"]]]]
  /\ latest = [g \in Page |-> [b \in Byte |-> 0]]
  /\ writes = [p \in Node |-> 0]
  /\ acquires = 0

-------------------------------------------------------------------------------
(* Threads and messages *)

At(p, pc) == op[p].pc = pc
GoTo(p, pc) == op' = [op EXCEPT ![p].pc = pc]

\* The application thread receives from t.channel, a handler sends to it.
Received(p) == /\ channel[p] > 0
               /\ channel' = [channel EXCEPT ![p] = @ - 1]
Signal_twice(p) == channel' = [channel EXCEPT ![p] = @ + 2]
Signal(p) == channel' = [channel EXCEPT ![p] = @ + 1]

\* p's network thread is in handleIncoming: it does not wait for room in
\* t.channel, nor is it in the middle of handleBarrierRequest.
Listening(p) ==
  /\ channel[p] < 2
  /\ p = getManagerId => "net" \notin counting /\ respond.thread # "net"

Sent(nw, p, q, m) == [nw EXCEPT ![p][q] = Append(@, m)]
Taken(nw, q, p) == [nw EXCEPT ![q][p] = Tail(@)]

\* m is the message from q that p's network thread handles next.
Arrives(m, type, q, p) ==
  /\ Listening(p)
  /\ net[q][p] # <<>>
  /\ m = Head(net[q][p])
  /\ m.type = type

-------------------------------------------------------------------------------
(* Programs *)

Cells(a, n) == {<<PageOf(x), x % PageSize>> : x \in a .. a + n - 1} \cap (Page \X Byte)

\* p's program may use byte b of page g now.
Together(b) == IF FalseSharing THEN {b} ELSE Byte

MayUse(p, g, b, type) ==
  IF LockOf[g] # NoLock THEN LockOf[g] \in held[p]
  ELSE \A q \in Node \ {p} : \A c \in Together(b) :
         used[g][c][q].phase = phase[p] =>
           used[g][c][q].type = "NONE" \/ (type = "READ" /\ used[g][c][q].type = "READ")

Uses(p, cells, type) ==
  LET use(u) == [phase |-> phase[p],
                 type |-> IF u.phase = phase[p] /\ u.type = "WRITE" THEN "WRITE" ELSE type]
  IN /\ \A c \in cells : MayUse(p, c[1], c[2], type)
     /\ used' = [g \in Page |-> [b \in Byte |->
                   IF <<g, b>> \in cells THEN [used[g][b] EXCEPT ![p] = use(@)]
                                         ELSE used[g][b]]]

-------------------------------------------------------------------------------
(* Reads and writes: Vmem's checks, and onFault *)

\* A round of onFault's loop: a request for a copy of the page, or on to the
\* diffs, or neither.  Every round is about op's one page, the page of the
\* address of the fault, but goes by the rights of another page of the access.
\* The copy set is <<0>> until a host has its copy.
AfterRound(o) == IF o.rounds = <<>> THEN "rights" ELSE "round"
AfterDiffs(o) == IF o.type = "WRITE" THEN "twin" ELSE AfterRound(o)

Round(p, o) ==
  LET g == o.page
      access == Head(o.rounds)
      left == [o EXCEPT !.rounds = Tail(@)]
      go(pc) == op' = [op EXCEPT ![p] = [left EXCEPT !.pc = pc]]
  IN CASE access = NO_ACCESS /\ ~host[p].pagearray[g].hasCopy /\ p # getManagerId ->
            /\ net' = Sent(net, p, getManagerId, [type |-> "copyRequest", PageNr |-> g])
            /\ go("copy")
            /\ UNCHANGED host
       [] access = NO_ACCESS /\ (host[p].pagearray[g].hasCopy \/ p = getManagerId) ->
            /\ host' = [host EXCEPT ![p].pagearray[g].hasCopy = TRUE]
            /\ go("diffs")
            /\ UNCHANGED net
       [] access # NO_ACCESS -> go(AfterDiffs(left)) /\ UNCHANGED <<host, net>>

NextRound(p) ==
  /\ At(p, "round")
  /\ Round(p, op[p])
  /\ UNCHANGED <<channel, locks, barriers, program>>

\* onFault for n bytes at address a, with what is stored afterwards.
onFault(p, a, n, type, cells, v) ==
  Round(p, [pc |-> "round", type |-> type, page |-> PageOf(a), pages |-> PagesOf(a, n),
            rounds |-> [i \in 1 .. PageOf(a + n - 1) - PageOf(a) + 1 |->
                          Rights(host[p], PageOf(a) + i - 1)],
            cells |-> cells, val |-> v, requests |-> <<>>, left |-> 0])

\* A read that finds its pages readable changes nothing.
Read(p, a) ==
  /\ At(p, "idle")
  /\ Rights(host[p], PageOf(a)) = NO_ACCESS
  /\ Uses(p, Cells(a, 1), "READ")
  /\ onFault(p, a, 1, "READ", {}, 0)
  /\ UNCHANGED <<channel, locks, barriers, held, phase, latest, writes, acquires>>

\* ReadBytes looks at the rights of one byte more than it reads.
ReadBytes(p, a, n) ==
  /\ At(p, "idle")
  /\ \E g \in PagesOf(a, n + 1) : Rights(host[p], g) = NO_ACCESS
  /\ Uses(p, Cells(a, n), "READ")
  /\ onFault(p, a, n, "READ", {}, 0)
  /\ UNCHANGED <<channel, locks, barriers, held, phase, latest, writes, acquires>>

\* WriteBytes, of which Write is the case of one byte.  The fault is at the
\* start of the first page that is not writable, and as long as the access.
WriteBytes(p, a, n, v) ==
  LET cells == Cells(a, n)
      barred == {g \in PagesOf(a, n) : Rights(host[p], g) # READ_WRITE}
  IN /\ At(p, "idle")
     /\ writes[p] < MaxWrites
     /\ \A c \in cells : v \in Over[c[1]][latest[c[1]][c[2]]]
     /\ Uses(p, cells, "WRITE")
     /\ IF barred # {}
        THEN onFault(p, Min(barred) * PageSize, n, "WRITE", cells, v)
        ELSE /\ op' = [op EXCEPT ![p] = [pc |-> "store", cells |-> cells, val |-> v]]
             /\ UNCHANGED <<host, net>>
     /\ writes' = [writes EXCEPT ![p] = @ + 1]
     /\ UNCHANGED <<channel, locks, barriers, held, phase, latest, acquires>>

ReceiveCopy(p) ==
  /\ At(p, "copy")
  /\ Received(p)
  /\ GoTo(p, "diffs")
  /\ UNCHANGED <<host, net, locks, barriers, program>>

\* The diffs that miss are asked for, if any do, ...
sendDiffRequests(p) ==
  LET g == op[p].page
  IN /\ At(p, "diffs")
     /\ IF host[p].pagearray[g].hasMissingDiffs
        THEN op' = [op EXCEPT ![p].pc = "answers",
                              ![p].requests = createDiffRequests(host[p], g)]
        ELSE GoTo(p, AfterDiffs(op[p]))
     /\ UNCHANGED <<host, channel, net, locks, barriers, program>>

\* ... one request after the other; `left` counts the answers to wait for.
sendDiffRequest(p) ==
  LET r == Head(op[p].requests)
  IN /\ At(p, "answers")
     /\ op[p].requests # <<>>
     /\ net' = Sent(net, p, r.to, [type |-> "diffRequest", PageNr |-> op[p].page,
                                   First |-> r.First, Last |-> r.Last])
     /\ op' = [op EXCEPT ![p].requests = Tail(@), ![p].left = @ + 1]
     /\ UNCHANGED <<host, channel, locks, barriers, program>>

\* One of the answers has come.  (The variant forgets the last one.)
ReceiveDiff_last(p) ==
  /\ At(p, "answers")
  /\ op[p].requests = <<>>
  /\ op[p].left > 1
  /\ Received(p)
  /\ op' = [op EXCEPT ![p].left = @ - 1]
  /\ UNCHANGED <<host, net, locks, barriers, program>>

ReceiveDiff(p) ==
  /\ At(p, "answers")
  /\ op[p].requests = <<>>
  /\ op[p].left > 0
  /\ Received(p)
  /\ op' = [op EXCEPT ![p].left = @ - 1]
  /\ UNCHANGED <<host, net, locks, barriers, program>>

ApplyDiffs(p) ==
  LET g == op[p].page
  IN /\ At(p, "answers")
     /\ op[p].requests = <<>>
     /\ op[p].left = 0
     /\ host' = [host EXCEPT ![p] =
                   applyAllDiffs([@ EXCEPT !.pagearray[g].hasMissingDiffs = FALSE], g)]
     /\ GoTo(p, AfterDiffs(op[p]))
     /\ UNCHANGED <<channel, net, locks, barriers, program>>

MakeTwin(p) ==
  LET g == op[p].page
  IN /\ At(p, "twin")
     /\ host' = [host EXCEPT ![p] = Twinned(@, g)]
     /\ GoTo(p, AfterRound(op[p]))
     /\ UNCHANGED <<channel, net, locks, barriers, program>>

SetRights(p) ==
  LET write == op[p].type = "WRITE"
  IN /\ At(p, "rights")
     /\ host' = [host EXCEPT ![p] =
                   SetRightsList(@, op[p].pages, IF write THEN READ_WRITE ELSE READ_ONLY)]
     /\ op' = [op EXCEPT ![p] = IF write THEN [pc |-> "store", cells |-> @.cells, val |-> @.val]
                                         ELSE Idle]
     /\ UNCHANGED <<channel, net, locks, barriers, program>>

Store(p) ==
  LET stored(old) ==
        [g \in Page |-> [b \in Byte |-> IF <<g, b>> \in op[p].cells THEN op[p].val
                                                                    ELSE old[g][b]]]
  IN /\ At(p, "store")
     /\ host' = [host EXCEPT ![p].memory = stored(@)]
     /\ latest' = stored(latest)
     /\ op' = [op EXCEPT ![p] = Idle]
     /\ UNCHANGED <<channel, net, locks, barriers, held, phase, used, writes, acquires>>

handleCopyRequest(p, q, m) ==
  LET twin == host[p].twins[m.PageNr]
      data == IF twin = NoTwin THEN [b \in Byte |-> 0] ELSE twin
  IN /\ Arrives(m, "copyRequest", q, p)
     /\ net' = Sent(Taken(net, q, p), p, q,
                    [type |-> "copyResponse", PageNr |-> m.PageNr, Data |-> data])
     /\ UNCHANGED <<host, op, channel, locks, barriers, program>>

handleCopyResponse(p, q, m) ==
  /\ Arrives(m, "copyResponse", q, p)
  /\ host' = [host EXCEPT ![p].memory[m.PageNr] = m.Data,
                          ![p].pagearray[m.PageNr].hasCopy = TRUE]
  /\ net' = Taken(net, q, p)
  /\ Signal(p)
  /\ UNCHANGED <<op, locks, barriers, program>>

handleDiffRequest(p, q, m) ==
  LET g == m.PageNr
      h == IF host[p].twins[g] = NoTwin THEN host[p] ELSE noticeAndDiff(host[p], p, g)
  IN /\ Arrives(m, "diffRequest", q, p)
     /\ host' = [host EXCEPT ![p] = h]
     /\ net' = Sent(Taken(net, q, p), p, q,
                    [type |-> "diffResponse", PageNr |-> g,
                     Writenotices |-> requestedWritenotices(h, q, m)])
     /\ UNCHANGED <<op, channel, locks, barriers, program>>

handleDiffResponse(p, q, m) ==
  /\ Arrives(m, "diffResponse", q, p)
  /\ host' = [host EXCEPT ![p] = storeDiffs(@, p, m.PageNr, m.Writenotices)]
  /\ net' = Taken(net, q, p)
  /\ Signal(p)
  /\ UNCHANGED <<op, locks, barriers, program>>

-------------------------------------------------------------------------------
(* Locks *)

AcquireLock(p, l) ==
  /\ At(p, "idle")
  /\ acquires < MaxAcquires
  /\ \A k \in held[p] : k < l
  /\ acquires' = acquires + 1
  /\ IF token[l] = p
     THEN /\ locked' = [locked EXCEPT ![l] = TRUE]
          /\ held' = [held EXCEPT ![p] = @ \cup {l}]
          /\ UNCHANGED <<op, requests>>
     ELSE /\ requests' = [requests EXCEPT ![l] =
                            @ \cup {[From |-> p, Timestamp |-> host[p].timestamp]}]
          /\ op' = [op EXCEPT ![p] = [pc |-> "lock", lock |-> l]]
          /\ UNCHANGED <<locked, held>>
  /\ UNCHANGED <<host, channel, net, token, barriers, phase, used, latest, writes>>

\* AcquireLock returns.
HaveLock(p) ==
  /\ At(p, "lock")
  /\ Received(p)
  /\ held' = [held EXCEPT ![p] = @ \cup {op[p].lock}]
  /\ op' = [op EXCEPT ![p] = Idle]
  /\ UNCHANGED <<host, net, locks, barriers, phase, used, latest, writes, acquires>>

\* newInterval and sendLockAcquireResponse.
Grant(p, l, req) ==
  LET h == newInterval(host[p], p)
      response == [type |-> "lockAcquireResponse", LockId |-> l,
                   Intervals |-> getMissingIntervals(h, req.Timestamp)]
  IN /\ req \in requests[l]
     /\ host' = [host EXCEPT ![p] = h]
     /\ net' = Sent(net, p, req.From, response)
     /\ token' = [token EXCEPT ![l] = NoNode]
     /\ requests' = [requests EXCEPT ![l] = @ \ {req}]

\* The token goes to a request that came while p was inside, if one did.
ReleaseLock(p, l) ==
  /\ At(p, "idle")
  /\ l \in held[p]
  /\ locked' = [locked EXCEPT ![l] = FALSE]
  /\ held' = [held EXCEPT ![p] = @ \ {l}]
  /\ \/ \E req \in requests[l] : Grant(p, l, req)
     \/ UNCHANGED <<host, net, token, requests>>
  /\ UNCHANGED <<op, channel, barriers, phase, used, latest, writes, acquires>>

\* The token is here and free.
CanGrant_used(p, l) == token[l] = p
CanGrant(p, l) == token[l] = p /\ ~locked[l]

handleLockAcquireRequest(p, l) ==
  /\ Listening(p)
  /\ CanGrant(p, l)
  /\ \E req \in requests[l] : Grant(p, l, req)
  /\ UNCHANGED <<op, channel, locked, barriers, program>>

handleLockAcquireResponse(p, q, m) ==
  /\ Arrives(m, "lockAcquireResponse", q, p)
  /\ host' = [host EXCEPT ![p] = addIntervals(newInterval(@, p), p, m.Intervals)]
  /\ net' = Taken(net, q, p)
  /\ locked' = [locked EXCEPT ![m.LockId] = TRUE]
  /\ token' = [token EXCEPT ![m.LockId] = p]
  /\ Signal(p)
  /\ UNCHANGED <<op, requests, barriers, program>>

-------------------------------------------------------------------------------
(* Barriers *)

\* sendBarrierRequest; the manager's own request goes to handleBarrierRequest.
Barrier(p) ==
  LET h == newInterval(host[p], p)
      intervals == getMissingIntervalsForProc(h, p, getHighestTimestamp(h, getManagerId))
  IN /\ At(p, "idle")
     /\ held[p] = {}
     /\ phase[p] < MaxBarriers
     /\ phase' = [phase EXCEPT ![p] = @ + 1]
     /\ IF p # getManagerId
        THEN /\ host' = [host EXCEPT ![p] = h]
             /\ net' = Sent(net, p, getManagerId,
                            [type |-> "barrierRequest", Timestamp |-> host[p].timestamp,
                             Intervals |-> intervals])
             /\ op' = [op EXCEPT ![p] = [pc |-> "barrier"]]
             /\ UNCHANGED <<barrierreq, counting>>
        ELSE /\ barrierreq' = [barrierreq EXCEPT ![p] = [NoRequest EXCEPT
                                 !.Timestamp = host[p].timestamp]]
             /\ counting' = counting \cup {"app"}
             /\ op' = [op EXCEPT ![p] = [pc |-> "counting"]]
             /\ UNCHANGED <<host, net>>
     /\ UNCHANGED <<channel, locks, barrier, respond, held, used, latest, writes, acquires>>

handleBarrierRequest(p, q, m) ==
  /\ Arrives(m, "barrierRequest", q, p)
  /\ barrierreq' = [barrierreq EXCEPT ![q] = [Timestamp |-> m.Timestamp,
                                              Intervals |-> m.Intervals]]
  /\ counting' = counting \cup {"net"}
  /\ net' = Taken(net, q, p)
  /\ UNCHANGED <<host, op, channel, locks, barrier, respond, program>>

\* The manager, once everybody has arrived: close the own interval, add the others'.
Gathered_open(h) ==
  FoldLeft(LAMBDA t, i : addIntervals(t, getManagerId, barrierreq[i - 1].Intervals),
           h, [i \in 1 .. NrProcs |-> i])
Gathered(h) ==
  FoldLeft(LAMBDA t, i : addIntervals(t, getManagerId, barrierreq[i - 1].Intervals),
           newInterval(h, getManagerId), [i \in 1 .. NrProcs |-> i])

\* The application thread waits for t.channel when it has done its part.
AppWaits(thread) ==
  IF thread = "app" THEN op' = [op EXCEPT ![getManagerId] = [pc |-> "barrier"]]
                    ELSE UNCHANGED op

\* n arrivals are all of them (or, by mistake, all but one, or never).
AllArrived_early(n) == n >= NrProcs - 1
AllArrived_never(n) == n > NrProcs
AllArrived(n) == n >= NrProcs

\* A thread of the manager counts an arrival, and is the one to answer if it
\* was the last.
Count(thread) ==
  /\ thread \in counting
  /\ barrier # Empty
  /\ counting' = counting \ {thread}
  /\ IF ~AllArrived(barrier + 1)
     THEN /\ barrier' = barrier + 1
          /\ AppWaits(thread)
          /\ UNCHANGED <<host, respond>>
     ELSE /\ barrier' = Empty
          /\ host' = [host EXCEPT ![getManagerId] = Gathered(@)]
          /\ respond' = [thread |-> thread, next |-> getManagerId + 1]
          /\ UNCHANGED op
  /\ UNCHANGED <<channel, net, locks, barrierreq, program>>

sendBarrierResponse ==
  LET i == respond.next
  IN /\ respond # Nobody
     /\ i < NrProcs
     /\ net' = Sent(net, getManagerId, i,
                    [type |-> "barrierResponse",
                     Intervals |-> getMissingIntervals(host[getManagerId], barrierreq[i].Timestamp)])
     /\ respond' = [respond EXCEPT !.next = @ + 1]
     /\ UNCHANGED <<host, op, channel, locks, barrier, barrierreq, counting, program>>

EndBarrier ==
  /\ respond # Nobody
  /\ respond.next = NrProcs
  /\ barrier' = 0
  /\ respond' = Nobody
  /\ Signal(getManagerId)
  /\ AppWaits(respond.thread)
  /\ UNCHANGED <<host, net, locks, barrierreq, counting, program>>

handleBarrierResponse(p, q, m) ==
  /\ Arrives(m, "barrierResponse", q, p)
  /\ host' = [host EXCEPT ![p] = addIntervals(@, p, m.Intervals)]
  /\ net' = Taken(net, q, p)
  /\ Signal(p)
  /\ UNCHANGED <<op, locks, barriers, program>>

LeaveBarrier(p) ==
  /\ At(p, "barrier")
  /\ Received(p)
  /\ op' = [op EXCEPT ![p] = Idle]
  /\ UNCHANGED <<host, net, locks, barriers, program>>

-------------------------------------------------------------------------------
\* What the program may do next, and what a call it made does next.
Call(p) ==
  \/ \E a \in Address : Read(p, a)
  \/ \E s \in ReadSpan : ReadBytes(p, s[1], s[2])
  \/ \E s \in WriteSpan \cup (Address \X {1}) : \E v \in Value :
       WriteBytes(p, s[1], s[2], v)
  \/ \E l \in LockId : AcquireLock(p, l) \/ ReleaseLock(p, l)
  \/ Barrier(p)

Continue(p) ==
  \/ NextRound(p) \/ ReceiveCopy(p) \/ sendDiffRequests(p) \/ sendDiffRequest(p)
  \/ ReceiveDiff(p) \/ ApplyDiffs(p) \/ MakeTwin(p) \/ SetRights(p) \/ Store(p)
  \/ HaveLock(p) \/ LeaveBarrier(p)

handleIncoming(p, q) ==
  LET m == Head(net[q][p])
  IN \/ handleCopyRequest(p, q, m) \/ handleCopyResponse(p, q, m)
     \/ handleDiffRequest(p, q, m) \/ handleDiffResponse(p, q, m)
     \/ handleLockAcquireResponse(p, q, m)
     \/ handleBarrierRequest(p, q, m) \/ handleBarrierResponse(p, q, m)

Manager == Count("app") \/ Count("net") \/ sendBarrierResponse \/ EndBarrier

Next ==
  \/ \E p \in Node : Call(p) \/ Continue(p)
  \/ \E p, q \in Node : handleIncoming(p, q)
  \/ \E p \in Node, l \in LockId : handleLockAcquireRequest(p, l)
  \/ Manager

Spec == Init /\ [][Next]_vars

\* The goroutines are scheduled and the connection delivers.
Fairness ==
  /\ \A p \in Node : WF_vars(Continue(p))
  /\ \A p \in Node : WF_vars(\E q \in Node : handleIncoming(p, q))
  /\ WF_vars(Manager)

FairSpec == Spec /\ Fairness

-------------------------------------------------------------------------------
(* Properties *)

\* Data-race-free programs see sequential consistency: a host that may read a
\* page, and whose access rights let it, finds there what was written last.
ReadsLatest ==
  \A p \in Node : \A g \in Page : \A b \in Byte :
    At(p, "idle") /\ MayUse(p, g, b, "READ") /\ host[p].access[g] # NO_ACCESS =>
      host[p].memory[g][b] = latest[g][b]

\* A page that has been written since its last diff will be noticed: it is
\* dirty, or the latest own write notice waits for the diff.
TwinNoticed ==
  \A p \in Node : \A g \in Page :
    LET wnl == host[p].pagearray[g].writenotices[p]
    IN host[p].twins[g] # NoTwin =>
         g \in host[p].dirtyPages \/ (wnl # <<>> /\ Last(wnl).Diff = NoDiff)

\* generateDiff in addWritenoticeRecord finds a twin.
WritableHasTwin ==
  \A p \in Node : \A g \in Page :
    host[p].access[g] = READ_WRITE => host[p].twins[g] # NoTwin

\* timestamp says exactly which intervals are in procarray.
IntervalsKnown ==
  \A p, q \in Node :
    {i.Timestamp[q] : i \in Range(host[p].procarray[q])} = 1 .. host[p].timestamp[q]

\* A host is sent every interval it lacks: the search from the end of a
\* process's list, which stops at the first interval the other host has seen,
\* misses none before it.
MissingComplete ==
  \A p, q, r \in Node :
    LET ts == host[q].timestamp
    IN {i \in Range(host[p].procarray[r]) : ~covers(ts, i.Timestamp)}
         \subseteq Range(getMissingIntervalsForProc(host[p], r, ts))

\* The programs' view of the locks is that of the lock service, which TMLock
\* implements.
waitFor == [p \in Node |-> IF At(p, "lock") THEN op[p].lock ELSE NoLock]
Service == INSTANCE LockService
ServiceSteps == Service!Spec

InBarrier(p) == op[p].pc \in {"counting", "barrier"}

\* Nobody passes a barrier before everybody has come to it.
NobodyAhead ==
  \A p, q \in Node : ~InBarrier(p) => phase[q] >= phase[p]

\* A host that waits for a copy of a page or for diffs gets them.
FaultAnswered ==
  \A p \in Node : []<>(op[p].pc \notin {"copy", "answers"})

\* A host stays in a barrier only while somebody has not come to it.
BarrierPassed ==
  \A p \in Node : []<>(InBarrier(p) => \E q \in Node : phase[q] < phase[p])
===============================================================================
