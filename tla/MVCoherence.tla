------------------------------ MODULE MVCoherence ------------------------------
(***************************************************************************)
(* The page coherence protocol of multiview/host.go and                    *)
(* multiview/manager.go.                                                   *)
(*                                                                         *)
(* A host that lacks the right to read or write a minipage asks the        *)
(* manager.  The manager locks the page (shared for a read, exclusively    *)
(* for a write), for a write has every copy invalidated, and forwards the  *)
(* request to a host of the copy set, which answers the requester with its *)
(* data.  The requester acknowledges, and the acknowledgement puts it into *)
(* the copy set and unlocks the page.                                      *)
(*                                                                         *)
(* Host and manager start a goroutine for every message they receive, so   *)
(* messages are handled in any order: msgs is a set, and a member of it is *)
(* a message on its way or a goroutine at work on one.  A goroutine that   *)
(* waits for a lock halfway has the name of its handler as type.           *)
(*                                                                         *)
(* Data are sets of stores: mem[h][p] holds the stores to page p that host *)
(* h's memory contains, each to a place of its own in the page.            *)
(***************************************************************************)
EXTENDS Naturals, Sequences, FiniteSets

CONSTANTS
  Host,         \* the processes
  Page,         \* the minipages that can be allocated
  NoHost,       \* a lock nobody has
  NoPage,       \* the page of a call that has none, or of a failed Malloc
  MaxStores,    \* bound: stores that are told apart
  MaxMallocs,   \* bound: calls of Malloc
  MayFree       \* bound: whether programs call Free

ASSUME NoHostAssumption == NoHost \notin Host
ASSUME NoPageAssumption == NoPage \notin Page
ASSUME BoundAssumption == MaxStores \in Nat /\ MaxMallocs \in Nat /\ MayFree \in BOOLEAN

VARIABLES
  app,          \* app[h]: where host h's program is
  access,       \* access[h][p]: h's accessMap
  mem,          \* mem[h][p]: the stores in h's copy of p
  msgs,         \* messages and goroutines
  mpt,          \* manager: the pages allocated, which mpt, log and locks list
  copies,       \* manager: copies[p], the hosts with a copy, the owner first
  readers,      \* manager: readers[p], the reads that hold p's lock
  writer,       \* manager: writer[p], the write that holds p's lock
  managerLock,  \* manager: whose Malloc holds m.Mutex
  locksWriter,  \* manager: who has called locksLock.Lock (it bars new RLocks)
  heap,         \* history: the pages programs have got from Malloc
  mallocs,      \* history: calls of Malloc
  stores,       \* history: stores made
  kept          \* history: stores to p made while the storing host could write

manager == <<mpt, copies, readers, writer, managerLock, locksWriter>>
history == <<heap, mallocs, stores, kept>>
vars == <<app, access, mem, msgs, manager, history>>

Access == {"NO_ACCESS", "READ_ONLY", "READ_WRITE"}
Data == SUBSET (1 .. MaxStores)

App == [at : {"running", "blocked", "answered", "storing"},
        op : {"none", "READ", "WRITE", "MALLOC", "FREE"}, page : Page \cup {NoPage}]

Message ==
  [type : {"READ_REQUEST", "WRITE_REQUEST", "HandleReadReq", "HandleWriteReq",
           "READ_ACK", "WRITE_ACK", "FREE_REQUEST", "HandleFree"},
   From : Host, page : Page]
    \cup [type : {"readForward", "writeForward", "INVALIDATE_REQUEST",
                  "INVALIDATE_REPLY"}, From : Host, page : Page, To : Host]
    \cup [type : {"READ_REPLY", "WRITE_REPLY"}, From : Host, page : Page, data : Data]
    \cup [type : {"handleAck"}, From : Host, page : Page, copies : Seq(Host)]
    \cup [type : {"MALLOC_REQUEST", "HandleAlloc", "FREE_REPLY"}, From : Host]
    \cup [type : {"MALLOC_REPLY"}, From : Host, page : Page \cup {NoPage}]

TypeOK ==
  /\ app \in [Host -> App]
  /\ access \in [Host -> [Page -> Access]]
  /\ mem \in [Host -> [Page -> Data]]
  /\ msgs \subseteq Message
  /\ mpt \subseteq Page
  /\ copies \in [Page -> Seq(Host)]
  /\ readers \in [Page -> SUBSET Host]
  /\ writer \in [Page -> Host \cup {NoHost}]
  /\ managerLock \in Host \cup {NoHost}
  /\ locksWriter \in Host \cup {NoHost}
  /\ heap \subseteq Page
  /\ mallocs \in 0 .. MaxMallocs
  /\ stores \in 0 .. MaxStores
  /\ kept \in [Page -> Data]

Running == [at |-> "running", op |-> "none", page |-> NoPage]
Blocked(op, p) == [at |-> "blocked", op |-> op, page |-> p]

Init ==
  /\ app = [h \in Host |-> Running]
  /\ access = [h \in Host |-> [p \in Page |-> "NO_ACCESS"]]
  /\ mem = [h \in Host |-> [p \in Page |-> {}]]
  /\ msgs = {}
  /\ mpt = {}
  /\ copies = [p \in Page |-> <<>>]
  /\ readers = [p \in Page |-> {}]
  /\ writer = [p \in Page |-> NoHost]
  /\ managerLock = NoHost
  /\ locksWriter = NoHost
  /\ heap = {}
  /\ mallocs = 0
  /\ stores = 0
  /\ kept = [p \in Page |-> {}]

-------------------------------------------------------------------------------
(* Messages and locks *)

Msg(type, h, p) == [type |-> type, From |-> h, page |-> p]
MsgTo(type, h, p, to) == [type |-> type, From |-> h, page |-> p, To |-> to]
Reply(type, h, p, data) == [type |-> type, From |-> h, page |-> p, data |-> data]

Replace(m, new) == (msgs \ {m}) \cup new

\* translate and the other short uses of m.Mutex wait for an allocation.
ManagerFree == managerLock = NoHost

\* locksLock.RLock() waits for a writer and for one that wants to write; the
\* goroutines that wait for a page's lock hold locksLock for reading.
LocksFree == locksWriter = NoHost
LocksReaders == {m \in msgs : m.type \in {"HandleReadReq", "HandleWriteReq"}}

\* When m.locks[p].RLock() and m.locks[p].Lock() return.
PageReadable(p) == writer[p] = NoHost
PageFree(p) == writer[p] = NoHost /\ readers[p] = {}

-------------------------------------------------------------------------------
(* The program of a host *)

InUse(p) == \E h \in Host : app[h].page = p

\* Read or Write of a page without the right to it (onFault).
Fault(h, p) ==
  /\ app[h] = Running
  /\ p \in heap
  /\ \/ /\ access[h][p] = "NO_ACCESS"
        /\ app' = [app EXCEPT ![h] = Blocked("READ", p)]
        /\ msgs' = msgs \cup {Msg("READ_REQUEST", h, p)}
     \/ /\ access[h][p] # "READ_WRITE"
        /\ app' = [app EXCEPT ![h] = Blocked("WRITE", p)]
        /\ msgs' = msgs \cup {Msg("WRITE_REQUEST", h, p)}
  /\ UNCHANGED <<access, mem, manager, history>>

\* Write finds the right in the access map; the store comes later.
WriteHit(h, p) ==
  /\ app[h] = Running
  /\ p \in heap
  /\ access[h][p] = "READ_WRITE"
  /\ app' = [app EXCEPT ![h] = [at |-> "storing", op |-> "WRITE", page |-> p]]
  /\ UNCHANGED <<access, mem, msgs, manager, history>>

\* onFault returns from <-c and sends the acknowledgement.
AckType_read(op) == "READ_ACK"
AckType(op) == IF op = "READ" THEN "READ_ACK" ELSE "WRITE_ACK"

Acknowledge(h) ==
  /\ app[h].at = "answered"
  /\ msgs' = msgs \cup {Msg(AckType(app[h].op), h, app[h].page)}
  /\ app' = [app EXCEPT ![h] = IF @.op = "READ" THEN Running
                                              ELSE [@ EXCEPT !.at = "storing"]]
  /\ UNCHANGED <<access, mem, manager, history>>

\* Write stores into the host's memory, whatever the access map says by now.
\* Beyond the bound a store writes what is there already.
Store(h) ==
  LET p   == app[h].page
      new == (1 .. MaxStores) \cap {stores + 1}
  IN /\ app[h].at = "storing"
     /\ app' = [app EXCEPT ![h] = Running]
     /\ mem' = [mem EXCEPT ![h][p] = @ \cup new]
     /\ stores' = stores + Cardinality(new)
     /\ kept' = [kept EXCEPT ![p] =
                   IF access[h][p] = "READ_WRITE" THEN @ \cup new ELSE @]
     /\ UNCHANGED <<access, msgs, manager, heap, mallocs>>

Malloc(h) ==
  /\ app[h] = Running
  /\ mallocs < MaxMallocs
  /\ mallocs' = mallocs + 1
  /\ app' = [app EXCEPT ![h] = Blocked("MALLOC", NoPage)]
  /\ msgs' = msgs \cup {[type |-> "MALLOC_REQUEST", From |-> h]}
  /\ UNCHANGED <<access, mem, manager, heap, stores, kept>>

\* A program frees a page when no host is using it, and none uses it after.
Free(h, p) ==
  /\ MayFree
  /\ app[h] = Running
  /\ p \in heap
  /\ ~InUse(p)
  /\ heap' = heap \ {p}
  /\ app' = [app EXCEPT ![h] = Blocked("FREE", NoPage)]
  /\ msgs' = msgs \cup {Msg("FREE_REQUEST", h, p)}
  /\ UNCHANGED <<access, mem, manager, mallocs, stores, kept>>

-------------------------------------------------------------------------------
(* The message handler of a host *)

\* The rights of a host that serves a read.
Downgraded_not(a) == a
Downgraded(a) == IF a = "READ_WRITE" THEN "READ_ONLY" ELSE a

\* The rights of a host that is invalidated or gives its page away.
Revoked_not(a) == a
Revoked(a) == "NO_ACCESS"

ServeRead(m) ==
  /\ m.type = "readForward"
  /\ access' = [access EXCEPT ![m.To][m.page] = Downgraded(@)]
  /\ msgs' = Replace(m, {Reply("READ_REPLY", m.From, m.page, mem[m.To][m.page])})
  /\ UNCHANGED <<app, mem, manager, history>>

ServeWrite(m) ==
  /\ m.type = "writeForward"
  /\ access' = [access EXCEPT ![m.To][m.page] = Revoked(@)]
  /\ msgs' = Replace(m, {Reply("WRITE_REPLY", m.From, m.page, mem[m.To][m.page])})
  /\ UNCHANGED <<app, mem, manager, history>>

Invalidate(m) ==
  /\ m.type = "INVALIDATE_REQUEST"
  /\ access' = [access EXCEPT ![m.To][m.page] = Revoked(@)]
  /\ msgs' = Replace(m, {MsgTo("INVALIDATE_REPLY", m.From, m.page, m.To)})
  /\ UNCHANGED <<app, mem, manager, history>>

\* A reply brings the page and wakes the program.
ReceiveReply(m) ==
  /\ m.type \in {"READ_REPLY", "WRITE_REPLY"}
  /\ mem' = [mem EXCEPT ![m.From][m.page] = m.data]
  /\ access' = [access EXCEPT ![m.From][m.page] =
                  IF m.type = "READ_REPLY" THEN "READ_ONLY" ELSE "READ_WRITE"]
  /\ app' = [app EXCEPT ![m.From].at = "answered"]
  /\ msgs' = msgs \ {m}
  /\ UNCHANGED <<manager, history>>

\* The page that Malloc returns, none if it returns an error.
Returned_error(m) == {m.page}
Returned(m) == {m.page} \ {NoPage}

\* Malloc and Free return.
ReceiveMallocReply(m) ==
  /\ m.type = "MALLOC_REPLY"
  /\ app' = [app EXCEPT ![m.From] = Running]
  /\ heap' = heap \cup Returned(m)
  /\ msgs' = msgs \ {m}
  /\ UNCHANGED <<access, mem, manager, mallocs, stores, kept>>

ReceiveFreeReply(m) ==
  /\ m.type = "FREE_REPLY"
  /\ app' = [app EXCEPT ![m.From] = Running]
  /\ msgs' = msgs \ {m}
  /\ UNCHANGED <<access, mem, manager, history>>

-------------------------------------------------------------------------------
(* The manager *)

\* HandleReadReq and HandleWriteReq up to the lock of the page.
BeginRequest(m) ==
  /\ m.type \in {"READ_REQUEST", "WRITE_REQUEST"}
  /\ ManagerFree
  /\ LocksFree
  /\ msgs' = Replace(m, {Msg(IF m.type = "READ_REQUEST" THEN "HandleReadReq"
                                                        ELSE "HandleWriteReq",
                             m.From, m.page)})
  /\ UNCHANGED <<app, access, mem, manager, history>>

\* ... and from there: ask the owner for its data.
HandleReadReq(m) ==
  /\ m.type = "HandleReadReq"
  /\ PageReadable(m.page)
  /\ readers' = [readers EXCEPT ![m.page] = @ \cup {m.From}]
  /\ msgs' = Replace(m, {MsgTo("readForward", m.From, m.page, Head(copies[m.page]))})
  /\ UNCHANGED <<app, access, mem, mpt, copies, writer, managerLock, locksWriter,
                 history>>

\* Invalidate every copy.
HandleWriteReq(m) ==
  /\ m.type = "HandleWriteReq"
  /\ PageFree(m.page)
  /\ writer' = [writer EXCEPT ![m.page] = m.From]
  /\ msgs' = Replace(m, {MsgTo("INVALIDATE_REQUEST", m.From, m.page, copies[m.page][i]) :
                           i \in DOMAIN copies[m.page]})
  /\ UNCHANGED <<app, access, mem, mpt, copies, readers, managerLock, locksWriter,
                 history>>

\* The last copy that is left gives the page to the requester.
LastCopy_early(p) == Len(copies[p]) = 2
LastCopy(p) == Len(copies[p]) = 1

HandleInvalidateReply(m) ==
  /\ m.type = "INVALIDATE_REPLY"
  /\ ManagerFree
  /\ copies' = [copies EXCEPT ![m.page] = Tail(@)]
  /\ msgs' = Replace(m, IF LastCopy(m.page)
                        THEN {MsgTo("writeForward", m.From, m.page, Head(copies[m.page]))}
                        ELSE {})
  /\ UNCHANGED <<app, access, mem, mpt, readers, writer, managerLock, locksWriter,
                 history>>

\* The copy set handleAck leaves when it found cs.
WithCopy_not(cs, h) == cs
WithCopy(cs, h) == IF \E i \in DOMAIN cs : cs[i] = h THEN cs ELSE Append(cs, h)

\* The acknowledgement of a read: readers share the lock, so another may come
\* between getCopies ...
BeginReadAck(m) ==
  /\ m.type = "READ_ACK"
  /\ ManagerFree
  /\ msgs' = Replace(m, {[type |-> "handleAck", From |-> m.From, page |-> m.page,
                          copies |-> copies[m.page]]})
  /\ UNCHANGED <<app, access, mem, manager, history>>

\* ... and setCopies, which is called only to add the host.
HandleReadAck(m) ==
  /\ m.type = "handleAck"
  /\ LocksFree
  /\ copies' = IF WithCopy(m.copies, m.From) = m.copies THEN copies
               ELSE [copies EXCEPT ![m.page] = WithCopy(m.copies, m.From)]
  /\ readers' = [readers EXCEPT ![m.page] = @ \ {m.From}]
  /\ msgs' = msgs \ {m}
  /\ UNCHANGED <<app, access, mem, mpt, writer, managerLock, locksWriter, history>>

HandleWriteAck(m) ==
  /\ m.type = "WRITE_ACK"
  /\ ManagerFree
  /\ LocksFree
  /\ copies' = [copies EXCEPT ![m.page] = WithCopy(@, m.From)]
  /\ writer' = [writer EXCEPT ![m.page] = NoHost]
  /\ msgs' = msgs \ {m}
  /\ UNCHANGED <<app, access, mem, mpt, readers, managerLock, locksWriter, history>>

\* HandleAlloc locks m.Mutex, and answers with an error if memory is full.
BeginAlloc(m) ==
  /\ m.type = "MALLOC_REQUEST"
  /\ ManagerFree
  /\ \/ /\ mpt # Page
        /\ managerLock' = m.From
        /\ msgs' = Replace(m, {[type |-> "HandleAlloc", From |-> m.From]})
     \/ /\ mpt = Page
        /\ msgs' = Replace(m, {[type |-> "MALLOC_REPLY", From |-> m.From, page |-> NoPage]})
        /\ UNCHANGED managerLock
  /\ UNCHANGED <<app, access, mem, mpt, copies, readers, writer, locksWriter, history>>

\* Its call of locksLock.Lock bars new readers ...
AnnounceAlloc(m) ==
  /\ m.type = "HandleAlloc"
  /\ LocksFree
  /\ locksWriter' = m.From
  /\ UNCHANGED <<app, access, mem, msgs, mpt, copies, readers, writer, managerLock,
                 history>>

\* ... and returns when the old ones have gone.  kept starts afresh with the page.
HandleAlloc(m, p) ==
  /\ m.type = "HandleAlloc"
  /\ locksWriter = m.From
  /\ LocksReaders = {}
  /\ p \notin mpt
  /\ mpt' = mpt \cup {p}
  /\ copies' = [copies EXCEPT ![p] = <<m.From>>]
  /\ kept' = [kept EXCEPT ![p] = {}]
  /\ managerLock' = NoHost
  /\ locksWriter' = NoHost
  /\ msgs' = Replace(m, {[type |-> "MALLOC_REPLY", From |-> m.From, page |-> p]})
  /\ UNCHANGED <<app, access, mem, readers, writer, heap, mallocs, stores>>

BeginFree(m) ==
  /\ m.type = "FREE_REQUEST"
  /\ ManagerFree
  /\ LocksFree
  /\ locksWriter' = m.From
  /\ msgs' = Replace(m, {Msg("HandleFree", m.From, m.page)})
  /\ UNCHANGED <<app, access, mem, mpt, copies, readers, writer, managerLock, history>>

\* HandleFree locks the page inside locksLock, and deletes page and lock.
HandleFree(m) ==
  /\ m.type = "HandleFree"
  /\ LocksReaders = {}
  /\ PageFree(m.page)
  /\ mpt' = mpt \ {m.page}
  /\ copies' = [copies EXCEPT ![m.page] = <<>>]
  /\ locksWriter' = NoHost
  /\ msgs' = Replace(m, {[type |-> "FREE_REPLY", From |-> m.From]})
  /\ UNCHANGED <<app, access, mem, readers, writer, managerLock, history>>

-------------------------------------------------------------------------------
Program(h) ==
  \/ Acknowledge(h) \/ Store(h) \/ Malloc(h)
  \/ \E p \in Page : Fault(h, p) \/ WriteHit(h, p) \/ Free(h, p)

messageHandler(m) ==
  \/ ServeRead(m) \/ ServeWrite(m) \/ Invalidate(m)
  \/ ReceiveReply(m) \/ ReceiveMallocReply(m) \/ ReceiveFreeReply(m)

HandleMessage(m) ==
  \/ BeginRequest(m) \/ HandleReadReq(m) \/ HandleWriteReq(m)
  \/ HandleInvalidateReply(m)
  \/ BeginReadAck(m) \/ HandleReadAck(m) \/ HandleWriteAck(m)
  \/ BeginAlloc(m) \/ AnnounceAlloc(m) \/ (\E p \in Page : HandleAlloc(m, p))
  \/ BeginFree(m) \/ HandleFree(m)

Next ==
  \/ \E h \in Host : Program(h)
  \/ \E m \in msgs : messageHandler(m) \/ HandleMessage(m)

Spec == Init /\ [][Next]_vars

\* Goroutines are scheduled and messages delivered; a program that was answered
\* goes on; and Go's mutexes starve nobody (strong fairness for a handler: what
\* it waits for is free again and again).
Fairness ==
  /\ \A h \in Host : WF_vars(Acknowledge(h) \/ Store(h))
  /\ \A h \in Host :
       SF_vars(\E m \in msgs : m.From = h /\ (messageHandler(m) \/ HandleMessage(m)))

FairSpec == Spec /\ Fairness

-------------------------------------------------------------------------------
(* Properties *)

\* Two hosts can never write a page at a time.
SingleWriter ==
  \A p \in Page : \A g, h \in Host :
    access[g][p] = "READ_WRITE" /\ access[h][p] = "READ_WRITE" => g = h

\* The manager never takes a host from an empty copy set: it neither panics
\* ("Empty copyset on write request!") nor indexes or slices an empty one.
CopysetNotEmpty ==
  \A p \in mpt :
    writer[p] = NoHost \/ (\E m \in msgs : m.type = "INVALIDATE_REPLY" /\ m.page = p)
      => copies[p] # <<>>

\* An acknowledgement never unlocks a lock that is not locked, which would be a
\* fatal error, nor one that another request holds.
AckFindsLock ==
  \A m \in msgs :
    /\ m.type \in {"READ_ACK", "handleAck"} => m.From \in readers[m.page]
    /\ m.type = "WRITE_ACK" => writer[m.page] = m.From

\* Every host in the copy set has every store that was made with the right to
\* write, when no write of the page is under way.
CopysetCurrent ==
  \A p \in mpt : writer[p] = NoHost =>
    \A i \in DOMAIN copies[p] : kept[p] \subseteq mem[copies[p][i]][p]

\* A blocked call returns.
Returns(ops) ==
  \A h \in Host : app[h].at = "blocked" /\ app[h].op \in ops ~> app[h].at # "blocked"

\* A program that waits in Read or Write for a page is answered.
FaultAnswered == Returns({"READ", "WRITE"})

\* Comment (manager.go, in HandleAlloc): "Send reply to alloc requester".
MallocAnswered == Returns({"MALLOC"})

\* No call for the page is under way.
Quiet(p) == p \in mpt /\ readers[p] = {} /\ writer[p] = NoHost /\ ~InUse(p)

\* Doc (manager.go, on copies): "A map of who has copies of what vpage".
CopysetComplete ==
  \A p \in Page : Quiet(p) =>
    \A h \in Host : access[h][p] # "NO_ACCESS" => \E i \in DOMAIN copies[p] : copies[p][i] = h

\* Test (system_test.go, TestMultiview_Barrier): after two hosts have written to
\* different places of one page at the same time, reads find what both wrote.
NoLostStore ==
  (\A p \in mpt : Quiet(p)) =>
    \A s \in 1 .. stores : \E p \in mpt : s \in mem[Head(copies[p])][p]
===============================================================================
