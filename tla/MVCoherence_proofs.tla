-------------------------- MODULE MVCoherence_proofs --------------------------
(***************************************************************************)
(* Proofs about MVCoherence for every set of hosts, every set of pages and *)
(* every bound, with and without Free: the calls of a host and the page    *)
(* locks of the manager.                                                   *)
(***************************************************************************)
EXTENDS MVCoherence, TLAPS, FiniteSetTheorems

-------------------------------------------------------------------------------
(* The inductive invariant *)

\* The messages of a call a program is blocked in.
ReadCall == {"READ_REQUEST", "HandleReadReq", "readForward", "READ_REPLY"}
Invalidating == {"INVALIDATE_REQUEST", "INVALIDATE_REPLY"}
WriteCall ==
  {"WRITE_REQUEST", "HandleWriteReq", "writeForward", "WRITE_REPLY"} \cup Invalidating
MallocCall == {"MALLOC_REQUEST", "HandleAlloc", "MALLOC_REPLY"}
FreeCall == {"FREE_REQUEST", "HandleFree", "FREE_REPLY"}
Call == ReadCall \cup WriteCall \cup MallocCall \cup FreeCall

\* The messages of a read or a write that holds the page's lock.
ReadAck == {"READ_ACK", "handleAck"}
Reading == {"readForward", "READ_REPLY"} \cup ReadAck
Writing == {"writeForward", "WRITE_REPLY", "WRITE_ACK"} \cup Invalidating

\* The messages of an allocation or a deallocation of a page.
PageCall == {"MALLOC_REPLY", "FREE_REQUEST", "HandleFree"}

Answered(h, op, p) == app[h].at = "answered" /\ app[h].op = op /\ app[h].page = p

\* What a program does with a page it does with one it has allocated.
AppInv ==
  \A h \in Host :
    /\ app[h].at = "answered" => app[h].op \in {"READ", "WRITE"} /\ app[h].page \in Page
    /\ app[h].at = "storing" => app[h].op = "WRITE" /\ app[h].page \in Page
    /\ app[h].page # NoPage => app[h].page \in heap

\* The sender of a call is blocked in it, ...
CallInv ==
  \A m \in msgs :
    /\ m.type \in ReadCall => app[m.From] = Blocked("READ", m.page)
    /\ m.type \in WriteCall => app[m.From] = Blocked("WRITE", m.page)
    /\ m.type \in MallocCall => app[m.From] = Blocked("MALLOC", NoPage)
    /\ m.type \in FreeCall => app[m.From] = Blocked("FREE", NoPage)

\* ... and the call is in one message, except while copies are invalidated.
OneCallInv ==
  \A m, n \in msgs :
    m.From = n.From /\ m.type \in Call /\ n.type \in Call
      => m = n \/ (m.type \in Invalidating /\ n.type \in Invalidating)

\* A page that is being returned by Malloc or given to Free is allocated, not
\* yet or no longer the program's, and in one such call only.
PageInv ==
  /\ heap \subseteq mpt
  /\ \A m \in msgs : m.type \in PageCall /\ m.page # NoPage =>
       /\ m.page \in mpt \ heap
       /\ \A n \in msgs : n.type \in PageCall /\ n.page = m.page => n = m

\* A read or a write that is past the lock holds it, and its program is blocked
\* in it, has been answered, or has gone on.
LockInv ==
  /\ \A m \in msgs : m.type \in Reading => m.From \in readers[m.page]
  /\ \A m \in msgs : m.type \in Writing => writer[m.page] = m.From
  /\ \A h \in Host : \A p \in Page :
       /\ Answered(h, "READ", p) => h \in readers[p]
       /\ Answered(h, "WRITE", p) => writer[p] = h
  /\ \A p \in Page : writer[p] # NoHost => readers[p] = {}
  /\ \A p \in Page : ~PageFree(p) => p \in mpt

\* An acknowledgement is the only message that its lock was taken for.
OneAckInv ==
  \A m \in msgs :
    /\ m.type \in ReadAck =>
         /\ \A n \in msgs :
              n.type \in Reading /\ n.From = m.From /\ n.page = m.page => n = m
         /\ ~Answered(m.From, "READ", m.page)
    /\ m.type = "WRITE_ACK" =>
         /\ \A n \in msgs :
              n.type \in Writing /\ n.From = m.From /\ n.page = m.page => n = m
         /\ ~Answered(m.From, "WRITE", m.page)

\* A host that holds the lock for a read it has finished can read the page, one
\* that is waiting for it cannot.
AccessInv ==
  /\ \A m \in msgs : m.type \in ReadAck => access[m.From][m.page] # "NO_ACCESS"
  /\ \A h \in Host : \A p \in Page :
       /\ Answered(h, "READ", p) => access[h][p] # "NO_ACCESS"
       /\ app[h] = Blocked("READ", p) => access[h][p] = "NO_ACCESS"

\* There are never more invalidations under way than copies left.
Invalidations(p) == {m \in msgs : m.type \in Invalidating /\ m.page = p}

CountInv ==
  \A p \in Page :
    /\ IsFiniteSet(Invalidations(p))
    /\ Cardinality(Invalidations(p)) <= Len(copies[p])

\* A page that no write has locked has a copy.
CopyInv == \A p \in mpt : writer[p] = NoHost => copies[p] # <<>>

CoherenceInv ==
  /\ TypeOK /\ AppInv /\ CallInv /\ OneCallInv /\ PageInv
  /\ LockInv /\ OneAckInv /\ AccessInv /\ CountInv /\ CopyInv

-------------------------------------------------------------------------------
(* Messages *)

Paged ==
  {"READ_REQUEST", "WRITE_REQUEST", "HandleReadReq", "HandleWriteReq", "READ_ACK",
   "WRITE_ACK", "FREE_REQUEST", "HandleFree", "readForward", "writeForward",
   "INVALIDATE_REQUEST", "INVALIDATE_REPLY", "READ_REPLY", "WRITE_REPLY", "handleAck"}

LEMMA MessageFields ==
  ASSUME NEW m \in Message
  PROVE  /\ m.From \in Host
         /\ m.type \in Paged => m.page \in Page
         /\ m.type \in {"readForward", "writeForward"} \cup Invalidating => m.To \in Host
         /\ m.type \in {"READ_REPLY", "WRITE_REPLY"} => m.data \in Data
         /\ m.type = "handleAck" => m.copies \in Seq(Host)
         /\ m.type = "MALLOC_REPLY" => m.page \in Page \cup {NoPage}
  BY DEF Message, Paged, Invalidating

LEMMA MessagesMade ==
  ASSUME NEW h \in Host, NEW p \in Page
  PROVE  /\ \A t \in {"READ_REQUEST", "WRITE_REQUEST", "HandleReadReq", "HandleWriteReq",
                      "READ_ACK", "WRITE_ACK", "FREE_REQUEST", "HandleFree"} :
              Msg(t, h, p) \in Message
         /\ \A t \in {"readForward", "writeForward"} \cup Invalidating : \A g \in Host :
              MsgTo(t, h, p, g) \in Message
         /\ \A t \in {"READ_REPLY", "WRITE_REPLY"} : \A d \in Data :
              Reply(t, h, p, d) \in Message
         /\ \A cs \in Seq(Host) :
              [type |-> "handleAck", From |-> h, page |-> p, copies |-> cs] \in Message
         /\ \A t \in {"MALLOC_REQUEST", "HandleAlloc", "FREE_REPLY"} :
              [type |-> t, From |-> h] \in Message
         /\ \A q \in Page \cup {NoPage} :
              [type |-> "MALLOC_REPLY", From |-> h, page |-> q] \in Message
<1> USE DEF Message
<1>1. \A t \in {"READ_REQUEST", "WRITE_REQUEST", "HandleReadReq", "HandleWriteReq",
                "READ_ACK", "WRITE_ACK", "FREE_REQUEST", "HandleFree"} :
        Msg(t, h, p) \in Message
  BY DEF Msg
<1>2. \A t \in {"readForward", "writeForward"} \cup Invalidating : \A g \in Host :
        MsgTo(t, h, p, g) \in Message
  BY DEF MsgTo, Invalidating
<1>3. \A t \in {"READ_REPLY", "WRITE_REPLY"} : \A d \in Data : Reply(t, h, p, d) \in Message
  BY DEF Reply
<1>4. \A cs \in Seq(Host) :
        [type |-> "handleAck", From |-> h, page |-> p, copies |-> cs] \in Message
  OBVIOUS
<1>5. \A t \in {"MALLOC_REQUEST", "HandleAlloc", "FREE_REPLY"} :
        [type |-> t, From |-> h] \in Message
  OBVIOUS
<1>6. \A q \in Page \cup {NoPage} :
        [type |-> "MALLOC_REPLY", From |-> h, page |-> q] \in Message
  OBVIOUS
<1>7. QED
  BY <1>1, <1>2, <1>3, <1>4, <1>5, <1>6

\* A program that is not blocked has no call under way.
LEMMA Idle ==
  ASSUME TypeOK, CallInv, NEW h \in Host, app[h].at # "blocked"
  PROVE  \A m \in msgs : m.From = h => m.type \notin Call
<1> SUFFICES ASSUME NEW m \in msgs, m.From = h, m.type \in Call PROVE FALSE
  OBVIOUS
<1>1. \E op, p : app[m.From] = Blocked(op, p)
  BY DEF CallInv, Call
<1>2. QED
  BY <1>1 DEF Blocked

\* The other messages of a call whose copies are not being invalidated.
LEMMA Alone ==
  ASSUME OneCallInv, NEW m \in msgs, m.type \in Call \ Invalidating
  PROVE  \A n \in msgs : n.From = m.From /\ n.type \in Call => n = m
  BY DEF OneCallInv

\* A page that no write has locked is not being invalidated.
LEMMA NoInvalidations ==
  ASSUME TypeOK, LockInv, NEW p \in Page, writer[p] = NoHost
  PROVE  Invalidations(p) = {}
<1>1. \A m \in msgs : m \in Message /\ m.From \in Host
  BY MessageFields DEF TypeOK
<1>2. QED
  BY <1>1, NoHostAssumption DEF LockInv, Invalidations, Writing

\* The page of a read or a write under way is allocated.
LEMMA CallPage ==
  ASSUME TypeOK, AppInv, CallInv, PageInv, NEW m \in msgs,
         m.type \in ReadCall \cup WriteCall, m.page \in Page
  PROVE  m.page \in heap /\ m.page \in mpt
<1>1. m.From \in Host
  BY MessageFields DEF TypeOK
<1>2. \E op : app[m.From] = Blocked(op, m.page)
  BY DEF CallInv
<1>3. app[m.From].page = m.page
  BY <1>2 DEF Blocked
<1>4. QED
  BY <1>1, <1>3, NoPageAssumption DEF AppInv, PageInv

\* The copy set with a host added keeps its copies in their places.
LEMMA CopyAdded ==
  ASSUME NEW cs \in Seq(Host), NEW h \in Host
  PROVE  /\ WithCopy(cs, h) \in Seq(Host)
         /\ WithCopy(cs, h) # <<>>
         /\ \A i \in 1 .. Len(WithCopy(cs, h)) :
              WithCopy(cs, h)[i] = h \/ (i \in 1 .. Len(cs) /\ WithCopy(cs, h)[i] = cs[i])
         /\ cs # <<>> => Head(WithCopy(cs, h)) = Head(cs)
         /\ cs = <<>> => WithCopy(cs, h) = <<h>>
<1>1. DOMAIN cs = 1 .. Len(cs)
  OBVIOUS
<1>2. CASE \E i \in DOMAIN cs : cs[i] = h
  <2>1. WithCopy(cs, h) = cs
    BY <1>2 DEF WithCopy
  <2>2. QED
    BY <1>2, <2>1
<1>3. CASE ~\E i \in DOMAIN cs : cs[i] = h
  <2>1. WithCopy(cs, h) = Append(cs, h)
    BY <1>3 DEF WithCopy
  <2>2. Append(cs, h) \in Seq(Host) /\ Append(cs, h) # <<>>
    OBVIOUS
  <2>3. \A i \in 1 .. Len(Append(cs, h)) :
          Append(cs, h)[i] = h \/ (i \in 1 .. Len(cs) /\ Append(cs, h)[i] = cs[i])
    OBVIOUS
  <2>4. cs # <<>> => Head(Append(cs, h)) = Head(cs)
    OBVIOUS
  <2>5. cs = <<>> => Append(cs, h) = <<h>>
    OBVIOUS
  <2>6. QED
    BY <2>1, <2>2, <2>3, <2>4, <2>5
<1>4. QED
  BY <1>2, <1>3

\* The invalidations of a page that are under way, when there is one.
LEMMA SomeInvalidation ==
  ASSUME CountInv, NEW m \in msgs, m.type \in Invalidating, m.page \in Page
  PROVE  /\ m \in Invalidations(m.page)
         /\ IsFiniteSet(Invalidations(m.page))
         /\ Cardinality(Invalidations(m.page)) \in Nat
         /\ Cardinality(Invalidations(m.page)) <= Len(copies[m.page])
         /\ Cardinality(Invalidations(m.page)) # 0
<1>1. m \in Invalidations(m.page)
  BY DEF Invalidations
<1>2. /\ IsFiniteSet(Invalidations(m.page))
      /\ Cardinality(Invalidations(m.page)) <= Len(copies[m.page])
  BY DEF CountInv
<1>3. Cardinality(Invalidations(m.page)) \in Nat
  BY <1>2, FS_CardinalityType
<1>4. Cardinality(Invalidations(m.page)) # 0
  BY <1>1, <1>2, FS_EmptySet
<1>5. QED
  BY <1>1, <1>2, <1>3, <1>4

\* The one that finds a single copy left is the last.
LEMMA LastInvalidation ==
  ASSUME CountInv, NEW m \in msgs, m.type \in Invalidating, m.page \in Page,
         LastCopy(m.page)
  PROVE  Invalidations(m.page) = {m}
<1>1. Len(copies[m.page]) = 1
  BY DEF LastCopy
<1>2. Cardinality(Invalidations(m.page)) = 1
  BY <1>1, SomeInvalidation
<1>3. QED
  BY <1>2, SomeInvalidation, FS_Singleton

LEMMA CoherenceInit == Init => CoherenceInv
<1> SUFFICES ASSUME Init PROVE CoherenceInv
  OBVIOUS
<1> USE DEF Init
<1>1. TypeOK
  BY NoHostAssumption, BoundAssumption DEF TypeOK, Running, App, Access, Data
<1>2. AppInv
  BY DEF AppInv, Running
<1>3. CallInv /\ OneCallInv /\ PageInv /\ OneAckInv /\ CopyInv
  BY DEF CallInv, OneCallInv, PageInv, OneAckInv, CopyInv
<1>4. LockInv /\ AccessInv
  BY DEF LockInv, AccessInv, Answered, Running, Blocked, PageFree
<1>5. CountInv
  <2> SUFFICES ASSUME NEW p \in Page
               PROVE  /\ IsFiniteSet(Invalidations(p))
                      /\ Cardinality(Invalidations(p)) <= Len(copies[p])
    BY DEF CountInv
  <2>1. Invalidations(p) = {} /\ Len(copies[p]) = 0
    BY DEF Invalidations
  <2>2. IsFiniteSet(Invalidations(p)) /\ Cardinality(Invalidations(p)) = 0
    BY <2>1, FS_EmptySet
  <2>3. QED
    BY <2>1, <2>2
<1>6. QED
  BY <1>1, <1>2, <1>3, <1>4, <1>5 DEF CoherenceInv

-------------------------------------------------------------------------------
(* The steps of a program *)

\* A fault sends the only message of its call.
LEMMA FaultStep ==
  ASSUME CoherenceInv, NEW h \in Host, NEW p \in Page, Fault(h, p)
  PROVE  CoherenceInv'
<1> USE DEF CoherenceInv
<1>1. PICK op \in {"READ", "WRITE"}, t \in {"READ_REQUEST", "WRITE_REQUEST"} :
        /\ app[h] = Running
        /\ p \in heap
        /\ op = "READ" <=> t = "READ_REQUEST"
        /\ op = "READ" => access[h][p] = "NO_ACCESS"
        /\ app' = [app EXCEPT ![h] = Blocked(op, p)]
        /\ msgs' = msgs \cup {Msg(t, h, p)}
        /\ UNCHANGED <<access, mem, manager, history>>
  BY DEF Fault
<1>2. app'[h] = Blocked(op, p) /\ \A g \in Host : g # h => app'[g] = app[g]
  BY <1>1 DEF TypeOK
<1>3. UNCHANGED <<access, mem, mpt, copies, readers, writer, managerLock,
                  locksWriter, heap, mallocs, stores, kept>>
  BY <1>1 DEF manager, history
<1>4. \A n \in msgs : n \in Message /\ n.From \in Host
  BY MessageFields DEF TypeOK
<1>5. Msg(t, h, p).type = t /\ Msg(t, h, p).From = h /\ Msg(t, h, p).page = p
  BY DEF Msg
<1>6. \A m \in msgs : m.From = h => m.type \notin Call
  BY <1>1, Idle DEF Running
<1>7. TypeOK'
  <2>1. Msg(t, h, p) \in Message
    BY MessagesMade
  <2>2. Blocked(op, p) \in App
    BY DEF Blocked, App
  <2>3. QED
    BY <1>1, <1>3, <2>1, <2>2 DEF TypeOK
<1>8. AppInv'
  BY <1>1, <1>2, <1>3, <1>4, <1>5, <1>6 DEF AppInv, Blocked, Running
<1>9. CallInv'
  BY <1>1, <1>2, <1>4, <1>5, <1>6 DEF CallInv, ReadCall, WriteCall, Invalidating,
     MallocCall, FreeCall, Call
<1>10. OneCallInv'
  BY <1>1, <1>4, <1>5, <1>6 DEF OneCallInv, Call, ReadCall, WriteCall, Invalidating,
     MallocCall, FreeCall
<1>11. PageInv'
  BY <1>1, <1>3, <1>5 DEF PageInv, PageCall
<1>12. LockInv'
  BY <1>1, <1>2, <1>3, <1>4, <1>5, <1>6 DEF LockInv, Reading, ReadAck, Writing,
     Invalidating, Answered, Blocked, Running, PageFree
<1>13. OneAckInv'
  BY <1>1, <1>2, <1>3, <1>4, <1>5, <1>6 DEF OneAckInv, Reading, ReadAck, Writing,
     Invalidating, Answered, Blocked, Running
<1>14. AccessInv'
  BY <1>1, <1>2, <1>3, <1>4, <1>5, <1>6 DEF AccessInv, ReadAck, Answered, Blocked, Running
<1>15. CountInv'
  <2>1. \A q \in Page : Invalidations(q)' = Invalidations(q)
    BY <1>1, <1>5 DEF Invalidations, Invalidating
  <2>2. QED
    BY <1>3, <2>1 DEF CountInv
<1>16. CopyInv'
  BY <1>3 DEF CopyInv
<1>17. QED
  BY <1>7, <1>8, <1>9, <1>10, <1>11, <1>12, <1>13, <1>14, <1>15, <1>16

LEMMA WriteHitStep ==
  ASSUME CoherenceInv, NEW h \in Host, NEW p \in Page, WriteHit(h, p)
  PROVE  CoherenceInv'
<1> USE DEF CoherenceInv
<1>1. /\ app[h] = Running
      /\ p \in heap
      /\ app' = [app EXCEPT ![h] = [at |-> "storing", op |-> "WRITE", page |-> p]]
  BY DEF WriteHit
<1>2. /\ app'[h] = [at |-> "storing", op |-> "WRITE", page |-> p]
      /\ \A g \in Host : g # h => app'[g] = app[g]
  BY <1>1 DEF TypeOK
<1>3. UNCHANGED <<access, mem, msgs, mpt, copies, readers, writer, managerLock,
                  locksWriter, heap, mallocs, stores, kept>>
  BY DEF WriteHit, manager, history
<1>4. \A n \in msgs : n \in Message /\ n.From \in Host
  BY MessageFields DEF TypeOK
<1>5. \A m \in msgs : m.From = h => m.type \notin Call
  BY <1>1, Idle DEF Running
<1>6. TypeOK'
  <2>1. [at |-> "storing", op |-> "WRITE", page |-> p] \in App
    BY DEF App
  <2>2. QED
    BY <1>1, <1>3, <2>1 DEF TypeOK
<1>7. AppInv'
  BY <1>1, <1>2, <1>3, <1>4, <1>5 DEF AppInv, Blocked, Running
<1>8. CallInv'
  BY <1>1, <1>2, <1>3, <1>4, <1>5 DEF CallInv, ReadCall, WriteCall, Invalidating,
     MallocCall, FreeCall, Call
<1>9. OneCallInv'
  BY <1>3 DEF OneCallInv, Call, ReadCall, WriteCall, Invalidating, MallocCall, FreeCall
<1>10. PageInv'
  BY <1>3 DEF PageInv, PageCall
<1>11. LockInv'
  BY <1>1, <1>2, <1>3, <1>4, <1>5 DEF LockInv, Reading, ReadAck, Writing, Invalidating,
     Answered, Blocked, Running, PageFree
<1>12. OneAckInv'
  BY <1>1, <1>2, <1>3, <1>4, <1>5 DEF OneAckInv, Reading, ReadAck, Writing, Invalidating,
     Answered, Blocked, Running
<1>13. AccessInv'
  BY <1>1, <1>2, <1>3, <1>4, <1>5 DEF AccessInv, ReadAck, Answered, Blocked, Running
<1>14. CountInv'
  BY <1>3 DEF CountInv, Invalidations
<1>15. CopyInv'
  BY <1>3 DEF CopyInv
<1>16. QED
  BY <1>6, <1>7, <1>8, <1>9, <1>10, <1>11, <1>12, <1>13, <1>14, <1>15

\* The acknowledgement takes over the lock from the program that was answered.
LEMMA AcknowledgeStep ==
  ASSUME CoherenceInv, NEW h \in Host, Acknowledge(h)
  PROVE  CoherenceInv'
<1> USE DEF CoherenceInv
<1>1. app[h].at = "answered" /\ app[h].op \in {"READ", "WRITE"} /\ app[h].page \in Page
  BY DEF Acknowledge, AppInv
<1>2. PICK p \in Page, t \in {"READ_ACK", "WRITE_ACK"} :
        /\ p = app[h].page
        /\ t = "READ_ACK" <=> app[h].op = "READ"
        /\ t = AckType(app[h].op)
  BY <1>1 DEF AckType
<1>3. msgs' = msgs \cup {Msg(t, h, p)}
  BY <1>2 DEF Acknowledge
<1>4. /\ t = "READ_ACK" => app'[h] = Running
      /\ t = "WRITE_ACK" => app'[h] = [at |-> "storing", op |-> "WRITE", page |-> p]
      /\ \A g \in Host : g # h => app'[g] = app[g]
      /\ app' \in [Host -> App]
  <2>1. app[h] \in App
    BY DEF TypeOK
  <2>2. [app[h] EXCEPT !.at = "storing"] = [at |-> "storing", op |-> app[h].op, page |-> p]
    BY <1>2, <2>1 DEF App
  <2>3. Running \in App /\ [at |-> "storing", op |-> app[h].op, page |-> p] \in App
    BY <1>1 DEF App, Running
  <2>4. QED
    BY <1>1, <1>2, <2>2, <2>3 DEF Acknowledge, TypeOK
<1>5. UNCHANGED <<access, mem, mpt, copies, readers, writer, managerLock,
                  locksWriter, heap, mallocs, stores, kept>>
  BY DEF Acknowledge, manager, history
<1>6. \A n \in msgs : n \in Message /\ n.From \in Host
  BY MessageFields DEF TypeOK
<1>7. Msg(t, h, p).type = t /\ Msg(t, h, p).From = h /\ Msg(t, h, p).page = p
  BY DEF Msg
<1>8. \A m \in msgs : m.From = h => m.type \notin Call
  BY <1>1, Idle
<1>9. TypeOK'
  <2>1. Msg(t, h, p) \in Message
    BY MessagesMade
  <2>2. QED
    BY <1>3, <1>4, <1>5, <2>1 DEF TypeOK
<1>10. AppInv'
  BY <1>1, <1>2, <1>4, <1>5 DEF AppInv, Blocked, Running
<1>11. CallInv'
  BY <1>3, <1>4, <1>6, <1>7, <1>8 DEF CallInv, ReadCall, WriteCall, Invalidating,
     MallocCall, FreeCall, Call
<1>12. OneCallInv'
  BY <1>3, <1>7 DEF OneCallInv, Call, ReadCall, WriteCall, Invalidating, MallocCall,
     FreeCall
<1>13. PageInv'
  BY <1>3, <1>5, <1>7 DEF PageInv, PageCall
<1>14. LockInv'
  BY <1>1, <1>2, <1>3, <1>4, <1>5, <1>6, <1>7, <1>8 DEF LockInv, Reading, ReadAck, Writing,
     Invalidating, Answered, Blocked, Running, PageFree
<1>15. OneAckInv'
  <2>1. \A g \in Host : \A q : \A op \in {"READ", "WRITE"} :
          Answered(g, op, q)' => g # h /\ Answered(g, op, q)
    BY <1>4 DEF Answered, Running
  <2>2. Answered(h, IF t = "READ_ACK" THEN "READ" ELSE "WRITE", p)
    BY <1>1, <1>2 DEF Answered
  <2>3. \A m \in msgs : m.From = h /\ m.page = p =>
          /\ t = "READ_ACK" => m.type \notin Reading
          /\ t = "WRITE_ACK" => m.type \notin Writing
    BY <1>8, <2>2 DEF OneAckInv, Reading, ReadAck, Writing, Invalidating, Call, ReadCall, WriteCall
  <2>4. QED
    BY <1>3, <1>6, <1>7, <2>1, <2>3 DEF OneAckInv, Reading, ReadAck, Writing, Invalidating
<1>16. AccessInv'
  <2>1. t = "READ_ACK" => access[h][p] # "NO_ACCESS"
    BY <1>1, <1>2 DEF AccessInv, Answered
  <2>2. \A m \in msgs' : m.type \in ReadAck => access[m.From][m.page] # "NO_ACCESS"
    BY <1>3, <1>7, <2>1 DEF AccessInv, ReadAck
  <2>3. \A g \in Host : \A q \in Page :
          /\ Answered(g, "READ", q)' => Answered(g, "READ", q)
          /\ app'[g] = Blocked("READ", q) => app[g] = Blocked("READ", q)
    BY <1>4 DEF Answered, Running, Blocked
  <2>4. QED
    BY <1>5, <2>2, <2>3 DEF AccessInv
<1>17. CountInv'
  <2>1. \A q \in Page : Invalidations(q)' = Invalidations(q)
    BY <1>3, <1>7 DEF Invalidations, Invalidating
  <2>2. QED
    BY <1>5, <2>1 DEF CountInv
<1>18. CopyInv'
  BY <1>5 DEF CopyInv
<1>19. QED
  BY <1>9, <1>10, <1>11, <1>12, <1>13, <1>14, <1>15, <1>16, <1>17, <1>18

LEMMA StoreStep ==
  ASSUME CoherenceInv, NEW h \in Host, Store(h)
  PROVE  CoherenceInv'
<1> USE DEF CoherenceInv
<1>1. app[h].at = "storing" /\ app' = [app EXCEPT ![h] = Running]
  BY DEF Store
<1>2. app'[h] = Running /\ \A g \in Host : g # h => app'[g] = app[g]
  BY <1>1 DEF TypeOK
<1>3. UNCHANGED <<access, msgs, mpt, copies, readers, writer, managerLock,
                  locksWriter, heap, mallocs>>
  BY DEF Store, manager
<1>4. \A n \in msgs : n \in Message /\ n.From \in Host
  BY MessageFields DEF TypeOK
<1>5. \A m \in msgs : m.From = h => m.type \notin Call
  BY <1>1, Idle
<1>6. TypeOK'
  <2> DEFINE new == (1 .. MaxStores) \cap {stores + 1}
             p == app[h].page
  <2>1. p \in Page
    BY <1>1 DEF AppInv
  <2>2. new \in Data /\ stores + Cardinality(new) \in 0 .. MaxStores
    <3>1. new \in Data
      BY DEF Data
    <3>2. CASE stores + 1 \in 1 .. MaxStores
      <4>1. new = {stores + 1}
        BY <3>2
      <4>2. Cardinality(new) = 1
        BY <4>1, FS_Singleton
      <4>3. QED
        BY <3>1, <3>2, <4>2 DEF TypeOK
    <3>3. CASE stores + 1 \notin 1 .. MaxStores
      <4>1. new = {}
        BY <3>3
      <4>2. Cardinality(new) = 0
        BY <4>1, FS_EmptySet
      <4>3. QED
        BY <3>1, <4>2 DEF TypeOK
    <3>4. QED
      BY <3>2, <3>3
  <2>3. mem' = [mem EXCEPT ![h][p] = @ \cup new] /\ stores' = stores + Cardinality(new)
    BY DEF Store
  <2>4. kept' = [kept EXCEPT ![p] = IF access[h][p] = "READ_WRITE" THEN @ \cup new ELSE @]
    BY DEF Store
  <2> HIDE DEF new, p
  <2>5. mem' \in [Host -> [Page -> Data]] /\ kept' \in [Page -> Data]
    BY <2>1, <2>2, <2>3, <2>4 DEF TypeOK, Data
  <2>6. app' \in [Host -> App]
    BY <1>1 DEF TypeOK, App, Running
  <2>7. QED
    BY <1>3, <2>2, <2>3, <2>5, <2>6 DEF TypeOK
<1>7. AppInv'
  BY <1>1, <1>2, <1>3, <1>4, <1>5 DEF AppInv, Blocked, Running
<1>8. CallInv'
  BY <1>1, <1>2, <1>3, <1>4, <1>5 DEF CallInv, ReadCall, WriteCall, Invalidating,
     MallocCall, FreeCall, Call
<1>9. OneCallInv'
  BY <1>3 DEF OneCallInv, Call, ReadCall, WriteCall, Invalidating, MallocCall, FreeCall
<1>10. PageInv'
  BY <1>3 DEF PageInv, PageCall
<1>11. LockInv'
  BY <1>1, <1>2, <1>3, <1>4, <1>5 DEF LockInv, Reading, ReadAck, Writing, Invalidating,
     Answered, Blocked, Running, PageFree
<1>12. OneAckInv'
  BY <1>1, <1>2, <1>3, <1>4, <1>5 DEF OneAckInv, Reading, ReadAck, Writing, Invalidating,
     Answered, Blocked, Running
<1>13. AccessInv'
  BY <1>1, <1>2, <1>3, <1>4, <1>5 DEF AccessInv, ReadAck, Answered, Blocked, Running
<1>14. CountInv'
  BY <1>3 DEF CountInv, Invalidations
<1>15. CopyInv'
  BY <1>3 DEF CopyInv
<1>16. QED
  BY <1>6, <1>7, <1>8, <1>9, <1>10, <1>11, <1>12, <1>13, <1>14, <1>15

LEMMA MallocStep ==
  ASSUME CoherenceInv, NEW h \in Host, Malloc(h)
  PROVE  CoherenceInv'
<1> USE DEF CoherenceInv
<1>1. /\ app[h] = Running
      /\ app' = [app EXCEPT ![h] = Blocked("MALLOC", NoPage)]
  BY DEF Malloc
<1>2. PICK new : new = [type |-> "MALLOC_REQUEST", From |-> h] /\ msgs' = msgs \cup {new}
  BY DEF Malloc
<1>3. app'[h] = Blocked("MALLOC", NoPage) /\ \A g \in Host : g # h => app'[g] = app[g]
  BY <1>1 DEF TypeOK
<1>4. UNCHANGED <<access, mem, mpt, copies, readers, writer, managerLock,
                  locksWriter, heap, stores, kept>>
  BY DEF Malloc, manager
<1>5. \A n \in msgs : n \in Message /\ n.From \in Host
  BY MessageFields DEF TypeOK
<1>6. new.type = "MALLOC_REQUEST" /\ new.From = h
  BY <1>2
<1>7. \A m \in msgs : m.From = h => m.type \notin Call
  BY <1>1, Idle DEF Running
<1>8. TypeOK'
  <2>1. new \in Message
    BY <1>2 DEF Message
  <2>2. mallocs' \in 0 .. MaxMallocs
    BY BoundAssumption DEF Malloc, TypeOK
  <2>3. app' \in [Host -> App]
    BY <1>1 DEF TypeOK, App, Blocked
  <2>4. QED
    BY <1>2, <1>4, <2>1, <2>2, <2>3 DEF TypeOK
<1>9. AppInv'
  BY <1>1, <1>3, <1>4 DEF AppInv, Blocked, Running
<1>10. CallInv'
  BY <1>2, <1>3, <1>5, <1>6, <1>7 DEF CallInv, ReadCall, WriteCall, Invalidating,
     MallocCall, FreeCall, Call
<1>11. OneCallInv'
  BY <1>2, <1>5, <1>6, <1>7 DEF OneCallInv, Call, ReadCall, WriteCall, Invalidating,
     MallocCall, FreeCall
<1>12. PageInv'
  BY <1>2, <1>4, <1>6 DEF PageInv, PageCall
<1>13. LockInv'
  BY <1>2, <1>3, <1>4, <1>6 DEF LockInv, Reading, ReadAck, Writing, Invalidating, Answered,
     Blocked, Running, PageFree
<1>14. OneAckInv'
  BY <1>2, <1>3, <1>5, <1>6 DEF OneAckInv, Reading, ReadAck, Writing, Invalidating,
     Answered, Blocked, Running
<1>15. AccessInv'
  BY <1>2, <1>3, <1>4, <1>6 DEF AccessInv, ReadAck, Answered, Blocked, Running
<1>16. CountInv'
  <2>1. \A q \in Page : Invalidations(q)' = Invalidations(q)
    BY <1>2, <1>6 DEF Invalidations, Invalidating
  <2>2. QED
    BY <1>4, <2>1 DEF CountInv
<1>17. CopyInv'
  BY <1>4 DEF CopyInv
<1>18. QED
  BY <1>8, <1>9, <1>10, <1>11, <1>12, <1>13, <1>14, <1>15, <1>16, <1>17

\* A page is freed by one program only, while none uses it.
LEMMA FreeStep ==
  ASSUME CoherenceInv, NEW h \in Host, NEW p \in Page, Free(h, p)
  PROVE  CoherenceInv'
<1> USE DEF CoherenceInv
<1>1. /\ app[h] = Running
      /\ p \in heap
      /\ \A g \in Host : app[g].page # p
      /\ heap' = heap \ {p}
      /\ app' = [app EXCEPT ![h] = Blocked("FREE", NoPage)]
      /\ msgs' = msgs \cup {Msg("FREE_REQUEST", h, p)}
  BY DEF Free, InUse
<1>2. app'[h] = Blocked("FREE", NoPage) /\ \A g \in Host : g # h => app'[g] = app[g]
  BY <1>1 DEF TypeOK
<1>3. UNCHANGED <<access, mem, mpt, copies, readers, writer, managerLock,
                  locksWriter, mallocs, stores, kept>>
  BY DEF Free, manager
<1>4. \A n \in msgs : n \in Message /\ n.From \in Host
  BY MessageFields DEF TypeOK
<1>5. PICK new : new = Msg("FREE_REQUEST", h, p)
  OBVIOUS
<1>6. new.type = "FREE_REQUEST" /\ new.From = h /\ new.page = p
  BY <1>5 DEF Msg
<1>7. msgs' = msgs \cup {new}
  BY <1>1, <1>5
<1>8. \A m \in msgs : m.From = h => m.type \notin Call
  BY <1>1, Idle DEF Running
<1>9. TypeOK'
  <2>1. new \in Message
    BY <1>5, MessagesMade
  <2>2. app' \in [Host -> App]
    BY <1>1 DEF TypeOK, App, Blocked
  <2>3. QED
    BY <1>1, <1>3, <1>7, <2>1, <2>2 DEF TypeOK
<1>10. AppInv'
  BY <1>1, <1>2, <1>3 DEF AppInv, Blocked, Running
<1>11. CallInv'
  BY <1>2, <1>4, <1>6, <1>7, <1>8 DEF CallInv, ReadCall, WriteCall, Invalidating,
     MallocCall, FreeCall, Call
<1>12. OneCallInv'
  BY <1>4, <1>6, <1>7, <1>8 DEF OneCallInv, Call, ReadCall, WriteCall, Invalidating,
     MallocCall, FreeCall
<1>13. PageInv'
  BY <1>1, <1>3, <1>6, <1>7 DEF PageInv, PageCall
<1>14. LockInv'
  BY <1>2, <1>3, <1>6, <1>7 DEF LockInv, Reading, ReadAck, Writing, Invalidating, Answered,
     Blocked, Running, PageFree
<1>15. OneAckInv'
  BY <1>2, <1>4, <1>6, <1>7 DEF OneAckInv, Reading, ReadAck, Writing, Invalidating,
     Answered, Blocked, Running
<1>16. AccessInv'
  BY <1>2, <1>3, <1>6, <1>7 DEF AccessInv, ReadAck, Answered, Blocked, Running
<1>17. CountInv'
  <2>1. \A q \in Page : Invalidations(q)' = Invalidations(q)
    BY <1>6, <1>7 DEF Invalidations, Invalidating
  <2>2. QED
    BY <1>3, <2>1 DEF CountInv
<1>18. CopyInv'
  BY <1>3 DEF CopyInv
<1>19. QED
  BY <1>9, <1>10, <1>11, <1>12, <1>13, <1>14, <1>15, <1>16, <1>17, <1>18

-------------------------------------------------------------------------------
(* The message handler of a host *)

LEMMA ServeReadStep ==
  ASSUME CoherenceInv, NEW m \in msgs, ServeRead(m)
  PROVE  CoherenceInv'
<1> USE DEF CoherenceInv
<1>1. m.type = "readForward"
  BY DEF ServeRead
<1>2. m \in Message /\ m.From \in Host /\ m.page \in Page /\ m.To \in Host
  BY <1>1, MessageFields DEF TypeOK, Paged, Invalidating
<1>3. PICK new :
        /\ new = Reply("READ_REPLY", m.From, m.page, mem[m.To][m.page])
        /\ msgs' = (msgs \ {m}) \cup {new}
  BY DEF ServeRead, Replace
<1>4. new.type = "READ_REPLY" /\ new.From = m.From /\ new.page = m.page
  BY <1>3 DEF Reply
<1>5. UNCHANGED <<app, mem, mpt, copies, readers, writer, managerLock, locksWriter,
                  heap, mallocs, stores, kept>>
  BY DEF ServeRead, manager, history
<1>6. /\ access' \in [Host -> [Page -> Access]]
      /\ \A g \in Host : \A q \in Page :
           access'[g][q] = "NO_ACCESS" <=> access[g][q] = "NO_ACCESS"
  BY <1>2 DEF ServeRead, Downgraded, TypeOK, Access
<1>7. \A n \in msgs : n \in Message /\ n.From \in Host
  BY MessageFields DEF TypeOK
<1>8. \A n \in msgs : n.From = m.From /\ n.type \in Call => n = m
  BY <1>1, Alone DEF Call, ReadCall, WriteCall, MallocCall, FreeCall, Invalidating
<1>9. TypeOK'
  <2>1. mem[m.To][m.page] \in Data
    BY <1>2 DEF TypeOK
  <2>2. new \in Message
    BY <1>2, <1>3, <2>1, MessagesMade
  <2>3. QED
    BY <1>3, <1>5, <1>6, <2>2 DEF TypeOK
<1>10. AppInv'
  BY <1>5 DEF AppInv, Blocked, Running
<1>11. CallInv'
  BY <1>1, <1>3, <1>4, <1>5 DEF CallInv, ReadCall, WriteCall, Invalidating, MallocCall,
     FreeCall
<1>12. OneCallInv'
  BY <1>1, <1>3, <1>4, <1>7, <1>8 DEF OneCallInv, Call, ReadCall, WriteCall, Invalidating,
     MallocCall, FreeCall
<1>13. PageInv'
  BY <1>3, <1>4, <1>5 DEF PageInv, PageCall
<1>14. LockInv'
  BY <1>1, <1>3, <1>4, <1>5 DEF LockInv, Reading, ReadAck, Writing, Invalidating, Answered,
     Blocked, Running, PageFree
<1>15. OneAckInv'
  BY <1>1, <1>3, <1>4, <1>5 DEF OneAckInv, Reading, ReadAck, Writing, Invalidating,
     Answered, Blocked, Running
<1>16. AccessInv'
  <2>1. \A n \in msgs : n.type \in ReadAck => n.page \in Page
    BY <1>7, MessageFields DEF ReadAck, Paged
  <2>2. QED
    BY <1>3, <1>4, <1>5, <1>6, <1>7, <2>1 DEF AccessInv, ReadAck, Answered
<1>17. CountInv'
  <2>1. \A q \in Page : Invalidations(q)' = Invalidations(q)
    BY <1>1, <1>3, <1>4 DEF Invalidations, Invalidating
  <2>2. QED
    BY <1>5, <2>1 DEF CountInv
<1>18. CopyInv'
  BY <1>5 DEF CopyInv
<1>19. QED
  BY <1>9, <1>10, <1>11, <1>12, <1>13, <1>14, <1>15, <1>16, <1>17, <1>18

\* No host that a page is taken from is reading it: the page is locked for the write.
LEMMA ServeWriteStep ==
  ASSUME CoherenceInv, NEW m \in msgs, ServeWrite(m)
  PROVE  CoherenceInv'
<1> USE DEF CoherenceInv
<1>1. m.type = "writeForward"
  BY DEF ServeWrite
<1>2. m \in Message /\ m.From \in Host /\ m.page \in Page /\ m.To \in Host
  BY <1>1, MessageFields DEF TypeOK, Paged, Invalidating
<1>3. PICK new :
        /\ new = Reply("WRITE_REPLY", m.From, m.page, mem[m.To][m.page])
        /\ msgs' = (msgs \ {m}) \cup {new}
  BY DEF ServeWrite, Replace
<1>4. new.type = "WRITE_REPLY" /\ new.From = m.From /\ new.page = m.page
  BY <1>3 DEF Reply
<1>5. UNCHANGED <<app, mem, mpt, copies, readers, writer, managerLock, locksWriter,
                  heap, mallocs, stores, kept>>
  BY DEF ServeWrite, manager, history
<1>6. /\ access' \in [Host -> [Page -> Access]]
      /\ \A g \in Host : \A q \in Page :
           access'[g][q] = IF g = m.To /\ q = m.page THEN "NO_ACCESS" ELSE access[g][q]
  BY <1>2 DEF ServeWrite, Revoked, TypeOK, Access
<1>7. \A n \in msgs : n \in Message /\ n.From \in Host
  BY MessageFields DEF TypeOK
<1>8. \A n \in msgs : n.From = m.From /\ n.type \in Call => n = m
  BY <1>1, Alone DEF Call, ReadCall, WriteCall, MallocCall, FreeCall, Invalidating
<1>9. readers[m.page] = {}
  BY <1>1, <1>2, NoHostAssumption DEF LockInv, Writing
<1>10. TypeOK'
  <2>1. mem[m.To][m.page] \in Data
    BY <1>2 DEF TypeOK
  <2>2. new \in Message
    BY <1>2, <1>3, <2>1, MessagesMade
  <2>3. QED
    BY <1>3, <1>5, <1>6, <2>2 DEF TypeOK
<1>11. AppInv'
  BY <1>5 DEF AppInv, Blocked, Running
<1>12. CallInv'
  BY <1>1, <1>3, <1>4, <1>5 DEF CallInv, ReadCall, WriteCall, Invalidating, MallocCall,
     FreeCall
<1>13. OneCallInv'
  BY <1>1, <1>3, <1>4, <1>7, <1>8 DEF OneCallInv, Call, ReadCall, WriteCall, Invalidating,
     MallocCall, FreeCall
<1>14. PageInv'
  BY <1>3, <1>4, <1>5 DEF PageInv, PageCall
<1>15. LockInv'
  BY <1>1, <1>3, <1>4, <1>5 DEF LockInv, Reading, ReadAck, Writing, Invalidating, Answered,
     Blocked, Running, PageFree
<1>16. OneAckInv'
  BY <1>1, <1>3, <1>4, <1>5 DEF OneAckInv, Reading, ReadAck, Writing, Invalidating,
     Answered, Blocked, Running
<1>17. AccessInv'
  <2>1. \A n \in msgs : n.type \in ReadAck => n.page \in Page /\ n.page # m.page
    BY <1>7, <1>9, MessageFields DEF LockInv, Reading, ReadAck, Paged
  <2>2. \A h \in Host : ~Answered(h, "READ", m.page)
    BY <1>2, <1>9 DEF LockInv
  <2>3. QED
    BY <1>3, <1>4, <1>5, <1>6, <1>7, <2>1, <2>2 DEF AccessInv, ReadAck, Answered
<1>18. CountInv'
  <2>1. \A q \in Page : Invalidations(q)' = Invalidations(q)
    BY <1>1, <1>3, <1>4 DEF Invalidations, Invalidating
  <2>2. QED
    BY <1>5, <2>1 DEF CountInv
<1>19. CopyInv'
  BY <1>5 DEF CopyInv
<1>20. QED
  BY <1>10, <1>11, <1>12, <1>13, <1>14, <1>15, <1>16, <1>17, <1>18, <1>19

LEMMA InvalidateStep ==
  ASSUME CoherenceInv, NEW m \in msgs, Invalidate(m)
  PROVE  CoherenceInv'
<1> USE DEF CoherenceInv
<1>1. m.type = "INVALIDATE_REQUEST"
  BY DEF Invalidate
<1>2. m \in Message /\ m.From \in Host /\ m.page \in Page /\ m.To \in Host
  BY <1>1, MessageFields DEF TypeOK, Paged, Invalidating
<1>3. PICK new :
        /\ new = MsgTo("INVALIDATE_REPLY", m.From, m.page, m.To)
        /\ msgs' = (msgs \ {m}) \cup {new}
  BY DEF Invalidate, Replace
<1>4. new.type = "INVALIDATE_REPLY" /\ new.From = m.From /\ new.page = m.page
  BY <1>3 DEF MsgTo
<1>5. UNCHANGED <<app, mem, mpt, copies, readers, writer, managerLock, locksWriter,
                  heap, mallocs, stores, kept>>
  BY DEF Invalidate, manager, history
<1>6. /\ access' \in [Host -> [Page -> Access]]
      /\ \A g \in Host : \A q \in Page :
           access'[g][q] = IF g = m.To /\ q = m.page THEN "NO_ACCESS" ELSE access[g][q]
  BY <1>2 DEF Invalidate, Revoked, TypeOK, Access
<1>7. \A n \in msgs : n \in Message /\ n.From \in Host
  BY MessageFields DEF TypeOK
<1>8. readers[m.page] = {}
  BY <1>1, <1>2, NoHostAssumption DEF LockInv, Writing, Invalidating
<1>9. TypeOK'
  <2>1. new \in Message
    BY <1>2, <1>3, MessagesMade DEF Invalidating
  <2>2. QED
    BY <1>3, <1>5, <1>6, <2>1 DEF TypeOK
<1>10. AppInv'
  BY <1>5 DEF AppInv, Blocked, Running
<1>11. CallInv'
  BY <1>1, <1>3, <1>4, <1>5 DEF CallInv, ReadCall, WriteCall, Invalidating, MallocCall,
     FreeCall
<1>12. OneCallInv'
  BY <1>1, <1>3, <1>4, <1>7 DEF OneCallInv, Call, ReadCall, WriteCall, Invalidating,
     MallocCall, FreeCall
<1>13. PageInv'
  BY <1>3, <1>4, <1>5 DEF PageInv, PageCall
<1>14. LockInv'
  BY <1>1, <1>3, <1>4, <1>5 DEF LockInv, Reading, ReadAck, Writing, Invalidating, Answered,
     Blocked, Running, PageFree
<1>15. OneAckInv'
  BY <1>1, <1>3, <1>4, <1>5 DEF OneAckInv, Reading, ReadAck, Writing, Invalidating,
     Answered, Blocked, Running
<1>16. AccessInv'
  <2>1. \A n \in msgs : n.type \in ReadAck => n.page \in Page /\ n.page # m.page
    BY <1>7, <1>8, MessageFields DEF LockInv, Reading, ReadAck, Paged
  <2>2. \A h \in Host : ~Answered(h, "READ", m.page)
    BY <1>2, <1>8 DEF LockInv
  <2>3. QED
    BY <1>3, <1>4, <1>5, <1>6, <1>7, <2>1, <2>2 DEF AccessInv, ReadAck, Answered
<1>17. CountInv'
  <2> DEFINE I == Invalidations(m.page)
  <2>1. \A q \in Page : q # m.page => Invalidations(q)' = Invalidations(q)
    BY <1>3, <1>4 DEF Invalidations
  <2>2. Invalidations(m.page)' = (I \ {m}) \cup {new} /\ m \in I
    BY <1>1, <1>3, <1>4 DEF Invalidations, Invalidating
  <2>3. IsFiniteSet(I) /\ Cardinality(I) \in Nat /\ Cardinality(I) <= Len(copies[m.page])
    BY <1>2, FS_CardinalityType DEF CountInv
  <2> HIDE DEF I
  <2>4. IsFiniteSet(I \ {m}) /\ Cardinality(I \ {m}) = Cardinality(I) - 1
    BY <2>2, <2>3, FS_RemoveElement
  <2>5. /\ IsFiniteSet((I \ {m}) \cup {new})
        /\ Cardinality((I \ {m}) \cup {new}) \in {Cardinality(I) - 1, Cardinality(I) - 1 + 1}
    BY <2>4, FS_AddElement
  <2>6. Len(copies[m.page]) \in Nat
    BY <1>2 DEF TypeOK
  <2>7. /\ IsFiniteSet(Invalidations(m.page)')
        /\ Cardinality(Invalidations(m.page)') <= Len(copies[m.page])
    BY <2>2, <2>3, <2>5, <2>6
  <2>8. QED
    BY <1>5, <2>1, <2>7 DEF CountInv
<1>18. CopyInv'
  BY <1>5 DEF CopyInv
<1>19. QED
  BY <1>9, <1>10, <1>11, <1>12, <1>13, <1>14, <1>15, <1>16, <1>17, <1>18

\* A reply is handed to the program that is blocked in its call.
LEMMA ReceiveReplyStep ==
  ASSUME CoherenceInv, NEW m \in msgs, ReceiveReply(m)
  PROVE  CoherenceInv'
<1> USE DEF CoherenceInv
<1>1. m.type \in {"READ_REPLY", "WRITE_REPLY"} /\ msgs' = msgs \ {m}
  BY DEF ReceiveReply
<1>2. m \in Message /\ m.From \in Host /\ m.page \in Page /\ m.data \in Data
  BY <1>1, MessageFields DEF TypeOK, Paged
<1>3. PICK op \in {"READ", "WRITE"} :
        /\ op = "READ" <=> m.type = "READ_REPLY"
        /\ app[m.From] = Blocked(op, m.page)
  BY <1>1 DEF CallInv, ReadCall, WriteCall
<1>4. /\ app'[m.From] = [at |-> "answered", op |-> op, page |-> m.page]
      /\ \A g \in Host : g # m.From => app'[g] = app[g]
      /\ app' \in [Host -> App]
  <2>1. app' = [app EXCEPT ![m.From] = [@ EXCEPT !.at = "answered"]]
    BY DEF ReceiveReply
  <2>2. [app[m.From] EXCEPT !.at = "answered"]
          = [at |-> "answered", op |-> op, page |-> m.page]
    BY <1>3 DEF Blocked
  <2>3. [at |-> "answered", op |-> op, page |-> m.page] \in App
    BY <1>2 DEF App
  <2>4. QED
    BY <1>2, <2>1, <2>2, <2>3 DEF TypeOK
<1>5. /\ access' \in [Host -> [Page -> Access]]
      /\ access'[m.From][m.page] # "NO_ACCESS"
      /\ \A g \in Host : \A q \in Page :
           ~(g = m.From /\ q = m.page) => access'[g][q] = access[g][q]
  BY <1>2 DEF ReceiveReply, TypeOK, Access
<1>6. UNCHANGED <<mpt, copies, readers, writer, managerLock, locksWriter, heap,
                  mallocs, stores, kept>>
  BY DEF ReceiveReply, manager, history
<1>7. \A n \in msgs : n \in Message /\ n.From \in Host
  BY MessageFields DEF TypeOK
<1>8. \A n \in msgs : n.From = m.From /\ n.type \in Call => n = m
  BY <1>1, Alone DEF Call, ReadCall, WriteCall, MallocCall, FreeCall, Invalidating
<1>9. m.page \in heap
  BY <1>1, <1>2, CallPage DEF ReadCall, WriteCall
<1>10. TypeOK'
  <2>1. mem' \in [Host -> [Page -> Data]]
    BY <1>2 DEF ReceiveReply, TypeOK
  <2>2. QED
    BY <1>1, <1>4, <1>5, <1>6, <2>1 DEF TypeOK
<1>11. AppInv'
  BY <1>2, <1>4, <1>6, <1>9 DEF AppInv, Blocked, Running
<1>12. CallInv'
  <2>1. \A n \in msgs' : n.type \in Call => app'[n.From] = app[n.From]
    BY <1>1, <1>4, <1>7, <1>8
  <2>2. QED
    BY <1>1, <2>1 DEF CallInv, Call
<1>13. OneCallInv'
  BY <1>1 DEF OneCallInv, Call, ReadCall, WriteCall, Invalidating, MallocCall, FreeCall
<1>14. PageInv'
  BY <1>1, <1>6 DEF PageInv, PageCall
<1>15. LockInv'
  <2>1. /\ op = "READ" => m.From \in readers[m.page]
        /\ op = "WRITE" => writer[m.page] = m.From
    BY <1>1, <1>3 DEF LockInv, Reading, Writing
  <2>2. \A g \in Host : \A q \in Page : \A o \in {"READ", "WRITE"} :
          Answered(g, o, q)' =>
            Answered(g, o, q) \/ (g = m.From /\ q = m.page /\ o = op)
    BY <1>4 DEF Answered
  <2>3. QED
    BY <1>1, <1>6, <2>1, <2>2 DEF LockInv, PageFree
<1>16. OneAckInv'
  <2>1. \A g \in Host : \A q : \A o \in {"READ", "WRITE"} :
          Answered(g, o, q)' =>
            Answered(g, o, q) \/ (g = m.From /\ q = m.page /\ o = op)
    BY <1>4 DEF Answered
  <2>2. \A n \in msgs : n.From = m.From /\ n.page = m.page =>
          /\ op = "READ" => n.type \notin ReadAck
          /\ op = "WRITE" => n.type # "WRITE_ACK"
    BY <1>1, <1>3 DEF OneAckInv, Reading, ReadAck, Writing
  <2>3. QED
    BY <1>1, <1>7, <2>1, <2>2 DEF OneAckInv
<1>17. AccessInv'
  <2>1. \A g \in Host : \A q \in Page :
          /\ Answered(g, "READ", q)' => Answered(g, "READ", q) \/ (g = m.From /\ q = m.page)
          /\ app'[g] = Blocked("READ", q) => app[g] = Blocked("READ", q) /\ g # m.From
    BY <1>4 DEF Answered, Blocked
  <2>2. \A n \in msgs : n.type \in ReadAck => n.page \in Page
    BY <1>7, MessageFields DEF ReadAck, Paged
  <2>3. QED
    BY <1>1, <1>5, <1>7, <2>1, <2>2 DEF AccessInv
<1>18. CountInv'
  <2>1. \A q \in Page : Invalidations(q)' = Invalidations(q)
    BY <1>1 DEF Invalidations, Invalidating
  <2>2. QED
    BY <1>6, <2>1 DEF CountInv
<1>19. CopyInv'
  BY <1>6 DEF CopyInv
<1>20. QED
  BY <1>10, <1>11, <1>12, <1>13, <1>14, <1>15, <1>16, <1>17, <1>18, <1>19

LEMMA ReceiveMallocReplyStep ==
  ASSUME CoherenceInv, NEW m \in msgs, ReceiveMallocReply(m)
  PROVE  CoherenceInv'
<1> USE DEF CoherenceInv
<1>1. /\ m.type = "MALLOC_REPLY"
      /\ msgs' = msgs \ {m}
      /\ app' = [app EXCEPT ![m.From] = Running]
  BY DEF ReceiveMallocReply
<1>2. m \in Message /\ m.From \in Host /\ m.page \in Page \cup {NoPage}
  BY <1>1, MessageFields DEF TypeOK
<1>3. app'[m.From] = Running /\ \A g \in Host : g # m.From => app'[g] = app[g]
  BY <1>1, <1>2 DEF TypeOK
<1>4. UNCHANGED <<access, mem, mpt, copies, readers, writer, managerLock,
                  locksWriter, mallocs, stores, kept>>
  BY DEF ReceiveMallocReply, manager, history
<1>5. \A n \in msgs : n \in Message /\ n.From \in Host
  BY MessageFields DEF TypeOK
<1>6. \A n \in msgs : n.From = m.From /\ n.type \in Call => n = m
  BY <1>1, Alone DEF Call, ReadCall, WriteCall, MallocCall, FreeCall, Invalidating
<1>7. heap' = heap \cup ({m.page} \ {NoPage})
  BY DEF ReceiveMallocReply, Returned
<1>8. TypeOK'
  <2>1. app' \in [Host -> App]
    BY <1>1 DEF TypeOK, App, Running
  <2>2. QED
    BY <1>1, <1>2, <1>4, <2>1, <1>7 DEF TypeOK
<1>9. AppInv'
  BY <1>3, <1>4, <1>7 DEF AppInv, Blocked, Running
<1>10. CallInv'
  <2>1. \A n \in msgs' : n.type \in Call => app'[n.From] = app[n.From]
    BY <1>1, <1>3, <1>5, <1>6
  <2>2. QED
    BY <1>1, <2>1 DEF CallInv, Call
<1>11. OneCallInv'
  BY <1>1 DEF OneCallInv, Call, ReadCall, WriteCall, Invalidating, MallocCall, FreeCall
<1>12. PageInv'
  BY <1>1, <1>4, <1>2, <1>7 DEF PageInv, PageCall
<1>13. LockInv'
  BY <1>1, <1>3, <1>4 DEF LockInv, Reading, ReadAck, Writing, Invalidating, Answered,
     Blocked, Running, PageFree
<1>14. OneAckInv'
  BY <1>1, <1>3, <1>5 DEF OneAckInv, Reading, ReadAck, Writing, Invalidating, Answered,
     Blocked, Running
<1>15. AccessInv'
  BY <1>1, <1>3, <1>4 DEF AccessInv, ReadAck, Answered, Blocked, Running
<1>16. CountInv'
  <2>1. \A q \in Page : Invalidations(q)' = Invalidations(q)
    BY <1>1 DEF Invalidations, Invalidating
  <2>2. QED
    BY <1>4, <2>1 DEF CountInv
<1>17. CopyInv'
  BY <1>4 DEF CopyInv
<1>18. QED
  BY <1>8, <1>9, <1>10, <1>11, <1>12, <1>13, <1>14, <1>15, <1>16, <1>17

LEMMA ReceiveFreeReplyStep ==
  ASSUME CoherenceInv, NEW m \in msgs, ReceiveFreeReply(m)
  PROVE  CoherenceInv'
<1> USE DEF CoherenceInv
<1>1. /\ m.type = "FREE_REPLY"
      /\ msgs' = msgs \ {m}
      /\ app' = [app EXCEPT ![m.From] = Running]
  BY DEF ReceiveFreeReply
<1>2. m \in Message /\ m.From \in Host
  BY <1>1, MessageFields DEF TypeOK
<1>3. app'[m.From] = Running /\ \A g \in Host : g # m.From => app'[g] = app[g]
  BY <1>1, <1>2 DEF TypeOK
<1>4. UNCHANGED <<access, mem, mpt, copies, readers, writer, managerLock,
                  locksWriter, heap, mallocs, stores, kept>>
  BY DEF ReceiveFreeReply, manager, history
<1>5. \A n \in msgs : n \in Message /\ n.From \in Host
  BY MessageFields DEF TypeOK
<1>6. \A n \in msgs : n.From = m.From /\ n.type \in Call => n = m
  BY <1>1, Alone DEF Call, ReadCall, WriteCall, MallocCall, FreeCall, Invalidating
<1>7. TypeOK'
  <2>1. app' \in [Host -> App]
    BY <1>1 DEF TypeOK, App, Running
  <2>2. QED
    BY <1>1, <1>2, <1>4, <2>1 DEF TypeOK
<1>8. AppInv'
  BY <1>3, <1>4 DEF AppInv, Blocked, Running
<1>9. CallInv'
  <2>1. \A n \in msgs' : n.type \in Call => app'[n.From] = app[n.From]
    BY <1>1, <1>3, <1>5, <1>6
  <2>2. QED
    BY <1>1, <2>1 DEF CallInv, Call
<1>10. OneCallInv'
  BY <1>1 DEF OneCallInv, Call, ReadCall, WriteCall, Invalidating, MallocCall, FreeCall
<1>11. PageInv'
  BY <1>1, <1>4 DEF PageInv, PageCall
<1>12. LockInv'
  BY <1>1, <1>3, <1>4 DEF LockInv, Reading, ReadAck, Writing, Invalidating, Answered,
     Blocked, Running, PageFree
<1>13. OneAckInv'
  BY <1>1, <1>3, <1>5 DEF OneAckInv, Reading, ReadAck, Writing, Invalidating, Answered,
     Blocked, Running
<1>14. AccessInv'
  BY <1>1, <1>3, <1>4 DEF AccessInv, ReadAck, Answered, Blocked, Running
<1>15. CountInv'
  <2>1. \A q \in Page : Invalidations(q)' = Invalidations(q)
    BY <1>1 DEF Invalidations, Invalidating
  <2>2. QED
    BY <1>4, <2>1 DEF CountInv
<1>16. CopyInv'
  BY <1>4 DEF CopyInv
<1>17. QED
  BY <1>7, <1>8, <1>9, <1>10, <1>11, <1>12, <1>13, <1>14, <1>15, <1>16

-------------------------------------------------------------------------------
(* The manager *)

LEMMA BeginRequestStep ==
  ASSUME CoherenceInv, NEW m \in msgs, BeginRequest(m)
  PROVE  CoherenceInv'
<1> USE DEF CoherenceInv
<1>1. m.type \in {"READ_REQUEST", "WRITE_REQUEST"}
  BY DEF BeginRequest
<1>2. m \in Message /\ m.From \in Host /\ m.page \in Page
  BY <1>1, MessageFields DEF TypeOK, Paged
<1>3. PICK t \in {"HandleReadReq", "HandleWriteReq"} :
        /\ t = "HandleReadReq" <=> m.type = "READ_REQUEST"
        /\ msgs' = (msgs \ {m}) \cup {Msg(t, m.From, m.page)}
  BY <1>1 DEF BeginRequest, Replace
<1>4. PICK new : new = Msg(t, m.From, m.page) /\ msgs' = (msgs \ {m}) \cup {new}
  BY <1>3
<1>5. new.type = t /\ new.From = m.From /\ new.page = m.page
  BY <1>4 DEF Msg
<1>6. UNCHANGED <<app, access, mem, mpt, copies, readers, writer, managerLock,
                  locksWriter, heap, mallocs, stores, kept>>
  BY DEF BeginRequest, manager, history
<1>7. \A n \in msgs : n \in Message /\ n.From \in Host
  BY MessageFields DEF TypeOK
<1>8. \A n \in msgs : n.From = m.From /\ n.type \in Call => n = m
  BY <1>1, Alone DEF Call, ReadCall, WriteCall, MallocCall, FreeCall, Invalidating
<1>9. TypeOK'
  <2>1. new \in Message
    BY <1>2, <1>4, MessagesMade
  <2>2. QED
    BY <1>4, <1>6, <2>1 DEF TypeOK
<1>10. AppInv'
  BY <1>6 DEF AppInv, Blocked, Running
<1>11. CallInv'
  BY <1>1, <1>3, <1>4, <1>5, <1>6 DEF CallInv, ReadCall, WriteCall, Invalidating,
     MallocCall, FreeCall
<1>12. OneCallInv'
  BY <1>1, <1>4, <1>5, <1>7, <1>8 DEF OneCallInv, Call, ReadCall, WriteCall, Invalidating,
     MallocCall, FreeCall
<1>13. PageInv'
  BY <1>4, <1>5, <1>6 DEF PageInv, PageCall
<1>14. LockInv'
  BY <1>4, <1>5, <1>6 DEF LockInv, Reading, ReadAck, Writing, Invalidating, Answered,
     Blocked, Running, PageFree
<1>15. OneAckInv'
  BY <1>4, <1>5, <1>6 DEF OneAckInv, Reading, ReadAck, Writing, Invalidating, Answered,
     Blocked, Running
<1>16. AccessInv'
  BY <1>4, <1>5, <1>6 DEF AccessInv, ReadAck, Answered, Blocked, Running
<1>17. CountInv'
  <2>1. \A q \in Page : Invalidations(q)' = Invalidations(q)
    BY <1>1, <1>4, <1>5 DEF Invalidations, Invalidating
  <2>2. QED
    BY <1>6, <2>1 DEF CountInv
<1>18. CopyInv'
  BY <1>6 DEF CopyInv
<1>19. QED
  BY <1>9, <1>10, <1>11, <1>12, <1>13, <1>14, <1>15, <1>16, <1>17, <1>18

\* A host that waits for the lock to read has no acknowledgement under way.
LEMMA HandleReadReqStep ==
  ASSUME CoherenceInv, NEW m \in msgs, HandleReadReq(m)
  PROVE  CoherenceInv'
<1> USE DEF CoherenceInv
<1>1. m.type = "HandleReadReq" /\ writer[m.page] = NoHost
  BY DEF HandleReadReq, PageReadable
<1>2. m \in Message /\ m.From \in Host /\ m.page \in Page
  BY <1>1, MessageFields DEF TypeOK, Paged
<1>3. m.page \in mpt
  BY <1>1, <1>2, CallPage DEF ReadCall
<1>4. PICK new :
        /\ new = MsgTo("readForward", m.From, m.page, Head(copies[m.page]))
        /\ msgs' = (msgs \ {m}) \cup {new}
  BY DEF HandleReadReq, Replace
<1>5. new.type = "readForward" /\ new.From = m.From /\ new.page = m.page
  BY <1>4 DEF MsgTo
<1>6. /\ readers' \in [Page -> SUBSET Host]
      /\ readers'[m.page] = readers[m.page] \cup {m.From}
      /\ \A q \in Page : q # m.page => readers'[q] = readers[q]
  BY <1>2 DEF HandleReadReq, TypeOK
<1>7. UNCHANGED <<app, access, mem, mpt, copies, writer, managerLock, locksWriter,
                  heap, mallocs, stores, kept>>
  BY DEF HandleReadReq, history
<1>8. \A n \in msgs : n \in Message /\ n.From \in Host
  BY MessageFields DEF TypeOK
<1>9. \A n \in msgs : n.From = m.From /\ n.type \in Call => n = m
  BY <1>1, Alone DEF Call, ReadCall, WriteCall, MallocCall, FreeCall, Invalidating
<1>10. \A n \in msgs : n.type \in ReadAck => ~(n.From = m.From /\ n.page = m.page)
  <2>1. access[m.From][m.page] = "NO_ACCESS"
    BY <1>1, <1>2 DEF AccessInv, CallInv, ReadCall
  <2>2. QED
    BY <2>1 DEF AccessInv
<1>11. TypeOK'
  <2>1. copies[m.page] \in Seq(Host) /\ copies[m.page] # <<>>
    BY <1>1, <1>2, <1>3 DEF CopyInv, TypeOK
  <2>2. Head(copies[m.page]) \in Host
    BY <2>1
  <2>3. new \in Message
    BY <1>2, <1>4, <2>2, MessagesMade
  <2>4. QED
    BY <1>4, <1>6, <1>7, <2>3 DEF TypeOK
<1>12. AppInv'
  BY <1>7 DEF AppInv, Blocked, Running
<1>13. CallInv'
  BY <1>1, <1>4, <1>5, <1>7 DEF CallInv, ReadCall, WriteCall, Invalidating, MallocCall,
     FreeCall
<1>14. OneCallInv'
  BY <1>1, <1>4, <1>5, <1>8, <1>9 DEF OneCallInv, Call, ReadCall, WriteCall, Invalidating,
     MallocCall, FreeCall
<1>15. PageInv'
  BY <1>4, <1>5, <1>7 DEF PageInv, PageCall
<1>16. LockInv'
  <2>1. \A n \in msgs : n.type \in Reading \cup Writing => n.page \in Page
    BY <1>8, MessageFields DEF Reading, ReadAck, Writing, Invalidating, Paged
  <2>2. \A q \in Page : readers[q] \subseteq readers'[q]
    BY <1>6
  <2>3. \A n \in msgs' : n.type \in Reading => n.From \in readers'[n.page]
    BY <1>4, <1>5, <1>6, <2>1, <2>2 DEF LockInv
  <2>4. \A n \in msgs' : n.type \in Writing => writer[n.page] = n.From
    BY <1>4, <1>5 DEF LockInv, Writing, Invalidating
  <2>5. \A q \in Page : ~PageFree(q)' => q \in mpt
    BY <1>3, <1>6, <1>7 DEF LockInv, PageFree
  <2>6. QED
    BY <1>1, <1>6, <1>7, <2>2, <2>3, <2>4, <2>5 DEF LockInv, Answered
<1>17. OneAckInv'
  BY <1>1, <1>4, <1>5, <1>7, <1>10 DEF OneAckInv, Reading, ReadAck, Writing, Invalidating,
     Answered, Blocked, Running
<1>18. AccessInv'
  BY <1>4, <1>5, <1>7 DEF AccessInv, ReadAck, Answered, Blocked, Running
<1>19. CountInv'
  <2>1. \A q \in Page : Invalidations(q)' = Invalidations(q)
    BY <1>1, <1>4, <1>5 DEF Invalidations, Invalidating
  <2>2. QED
    BY <1>7, <2>1 DEF CountInv
<1>20. CopyInv'
  BY <1>7 DEF CopyInv
<1>21. QED
  BY <1>11, <1>12, <1>13, <1>14, <1>15, <1>16, <1>17, <1>18, <1>19, <1>20

\* Every copy is sent one invalidation, after which there are as many as copies.
LEMMA HandleWriteReqStep ==
  ASSUME CoherenceInv, NEW m \in msgs, HandleWriteReq(m)
  PROVE  CoherenceInv'
<1> USE DEF CoherenceInv
<1>1. m.type = "HandleWriteReq" /\ writer[m.page] = NoHost /\ readers[m.page] = {}
  BY DEF HandleWriteReq, PageFree
<1>2. m \in Message /\ m.From \in Host /\ m.page \in Page
  BY <1>1, MessageFields DEF TypeOK, Paged
<1>3. m.page \in mpt
  BY <1>1, <1>2, CallPage DEF WriteCall
<1>4. PICK new :
        /\ new = {MsgTo("INVALIDATE_REQUEST", m.From, m.page, copies[m.page][i]) :
                    i \in DOMAIN copies[m.page]}
        /\ msgs' = (msgs \ {m}) \cup new
  BY DEF HandleWriteReq, Replace
<1>5. \A n \in new : n.type = "INVALIDATE_REQUEST" /\ n.From = m.From /\ n.page = m.page
  BY <1>4 DEF MsgTo
<1>6. /\ writer' \in [Page -> Host \cup {NoHost}]
      /\ writer'[m.page] = m.From
      /\ \A q \in Page : q # m.page => writer'[q] = writer[q]
  BY <1>2 DEF HandleWriteReq, TypeOK
<1>7. UNCHANGED <<app, access, mem, mpt, copies, readers, managerLock, locksWriter,
                  heap, mallocs, stores, kept>>
  BY DEF HandleWriteReq, history
<1>8. \A n \in msgs : n \in Message /\ n.From \in Host
  BY MessageFields DEF TypeOK
<1>9. \A n \in msgs : n.From = m.From /\ n.type \in Call => n = m
  BY <1>1, Alone DEF Call, ReadCall, WriteCall, MallocCall, FreeCall, Invalidating
<1>10. \A n \in msgs : n.type \in Writing => n.page \in Page /\ n.page # m.page
  BY <1>1, <1>8, NoHostAssumption, MessageFields DEF LockInv, Writing, Invalidating, Paged
<1>11. TypeOK'
  <2>1. \A i \in DOMAIN copies[m.page] : copies[m.page][i] \in Host
    BY <1>2 DEF TypeOK
  <2>2. \A n \in new : n \in Message
    BY <1>2, <1>4, <2>1, MessagesMade DEF Invalidating
  <2>3. QED
    BY <1>4, <1>6, <1>7, <2>2 DEF TypeOK
<1>12. AppInv'
  BY <1>7 DEF AppInv, Blocked, Running
<1>13. CallInv'
  BY <1>1, <1>4, <1>5, <1>7 DEF CallInv, ReadCall, WriteCall, Invalidating, MallocCall,
     FreeCall
<1>14. OneCallInv'
  BY <1>1, <1>4, <1>5, <1>8, <1>9 DEF OneCallInv, Call, ReadCall, WriteCall, Invalidating,
     MallocCall, FreeCall
<1>15. PageInv'
  BY <1>4, <1>5, <1>7 DEF PageInv, PageCall
<1>16. LockInv'
  <2>1. \A n \in msgs' : n.type \in Reading => n.From \in readers[n.page]
    BY <1>4, <1>5 DEF LockInv, Reading, ReadAck
  <2>2. \A n \in msgs' : n.type \in Writing => writer'[n.page] = n.From
    BY <1>4, <1>5, <1>6, <1>10 DEF LockInv
  <2>3. \A h \in Host : \A q \in Page : Answered(h, "WRITE", q) => writer'[q] = h
    BY <1>1, <1>6, NoHostAssumption DEF LockInv
  <2>4. \A q \in Page : ~PageFree(q)' => q \in mpt
    BY <1>3, <1>6, <1>7 DEF LockInv, PageFree
  <2>5. QED
    BY <1>1, <1>6, <1>7, <2>1, <2>2, <2>3, <2>4 DEF LockInv, Answered
<1>17. OneAckInv'
  BY <1>1, <1>2, <1>4, <1>5, <1>7, <1>10 DEF OneAckInv, Reading, ReadAck, Writing,
     Invalidating, Answered, Blocked, Running
<1>18. AccessInv'
  BY <1>4, <1>5, <1>7 DEF AccessInv, ReadAck, Answered, Blocked, Running
<1>19. CountInv'
  <2> DEFINE k == Len(copies[m.page])
             f == [i \in 1 .. k |-> MsgTo("INVALIDATE_REQUEST", m.From, m.page,
                                          copies[m.page][i])]
  <2>1. \A q \in Page : q # m.page => Invalidations(q)' = Invalidations(q)
    BY <1>1, <1>4, <1>5 DEF Invalidations, Invalidating
  <2>2. Invalidations(m.page)' = new
    <3>1. Invalidations(m.page) = {}
      BY <1>1, <1>2, NoInvalidations
    <3>2. QED
      BY <1>1, <1>4, <1>5, <3>1 DEF Invalidations, Invalidating
  <2>3. k \in Nat /\ DOMAIN copies[m.page] = 1 .. k
    BY <1>2 DEF TypeOK
  <2>4. f \in Surjection(1 .. k, new)
    BY <1>4, <2>3 DEF Surjection
  <2>5. IsFiniteSet(1 .. k) /\ Cardinality(1 .. k) = k
    BY <2>3, FS_Interval
  <2> HIDE DEF k, f
  <2>6. IsFiniteSet(new) /\ Cardinality(new) <= k
    BY <2>4, <2>5, FS_Surjection
  <2>7. QED
    BY <1>7, <2>1, <2>2, <2>6 DEF CountInv, k
<1>20. CopyInv'
  BY <1>2, <1>6, <1>7, NoHostAssumption DEF CopyInv, TypeOK
<1>21. QED
  BY <1>11, <1>12, <1>13, <1>14, <1>15, <1>16, <1>17, <1>18, <1>19, <1>20

\* The reply that finds one copy left is the last one.
LEMMA HandleInvalidateReplyStep ==
  ASSUME CoherenceInv, NEW m \in msgs, HandleInvalidateReply(m)
  PROVE  CoherenceInv'
<1> USE DEF CoherenceInv
<1>1. m.type = "INVALIDATE_REPLY"
  BY DEF HandleInvalidateReply
<1>2. m \in Message /\ m.From \in Host /\ m.page \in Page
  BY <1>1, MessageFields DEF TypeOK, Paged
<1>3. /\ m \in Invalidations(m.page)
      /\ IsFiniteSet(Invalidations(m.page))
      /\ Cardinality(Invalidations(m.page)) \in Nat
      /\ Cardinality(Invalidations(m.page)) <= Len(copies[m.page])
      /\ Cardinality(Invalidations(m.page)) # 0
  BY <1>1, <1>2, SomeInvalidation DEF Invalidating
<1>4. copies[m.page] \in Seq(Host) /\ copies[m.page] # <<>>
  <2>1. copies[m.page] \in Seq(Host)
    BY <1>2 DEF TypeOK
  <2>2. QED
    BY <1>3, <2>1
<1>5. /\ copies' \in [Page -> Seq(Host)]
      /\ copies'[m.page] = Tail(copies[m.page])
      /\ \A q \in Page : q # m.page => copies'[q] = copies[q]
  <2>1. Tail(copies[m.page]) \in Seq(Host)
    BY <1>4
  <2>2. QED
    BY <1>2, <2>1 DEF HandleInvalidateReply, TypeOK
<1>6. PICK new :
        /\ new = IF LastCopy(m.page)
                 THEN {MsgTo("writeForward", m.From, m.page, Head(copies[m.page]))}
                 ELSE {}
        /\ msgs' = (msgs \ {m}) \cup new
  BY DEF HandleInvalidateReply, Replace
<1>7. \A n \in new : n.type = "writeForward" /\ n.From = m.From /\ n.page = m.page
  BY <1>6 DEF MsgTo
<1>8. new # {} => Invalidations(m.page) = {m}
  BY <1>1, <1>2, <1>6, LastInvalidation DEF Invalidating
<1>9. UNCHANGED <<app, access, mem, mpt, readers, writer, managerLock, locksWriter,
                  heap, mallocs, stores, kept>>
  BY DEF HandleInvalidateReply, history
<1>10. \A n \in msgs : n \in Message /\ n.From \in Host
  BY MessageFields DEF TypeOK
<1>11. \A n \in msgs : n.From = m.From /\ n.type \in Call => n \in Invalidations(m.page)
  <2> SUFFICES ASSUME NEW n \in msgs, n.From = m.From, n.type \in Call
               PROVE  n \in Invalidations(m.page)
    OBVIOUS
  <2>1. m.type \in Call /\ m.type \in Invalidating /\ m.type \in WriteCall
    BY <1>1 DEF Call, WriteCall, Invalidating
  <2>2. n.type \in Invalidating /\ n.type \in WriteCall
    BY <2>1 DEF OneCallInv, WriteCall
  <2>3. Blocked("WRITE", n.page) = Blocked("WRITE", m.page)
    BY <2>1, <2>2 DEF CallInv
  <2>4. n.page = m.page
    BY <2>3 DEF Blocked
  <2>5. QED
    BY <2>2, <2>4 DEF Invalidations
<1>12. writer[m.page] = m.From
  BY <1>1 DEF LockInv, Writing, Invalidating
<1>13. TypeOK'
  <2>1. Head(copies[m.page]) \in Host
    BY <1>4
  <2>2. \A n \in new : n \in Message
    BY <1>2, <1>6, <2>1, MessagesMade
  <2>3. QED
    BY <1>5, <1>6, <1>9, <2>2 DEF TypeOK
<1>14. AppInv'
  BY <1>9 DEF AppInv, Blocked, Running
<1>15. CallInv'
  BY <1>1, <1>6, <1>7, <1>9 DEF CallInv, ReadCall, WriteCall, Invalidating, MallocCall,
     FreeCall
<1>16. OneCallInv'
  BY <1>6, <1>7, <1>8, <1>10, <1>11 DEF OneCallInv, Call, ReadCall, WriteCall,
     Invalidating, MallocCall, FreeCall
<1>17. PageInv'
  BY <1>6, <1>7, <1>9 DEF PageInv, PageCall
<1>18. LockInv'
  BY <1>6, <1>7, <1>9, <1>12 DEF LockInv, Reading, ReadAck, Writing, Invalidating,
     Answered, Blocked, Running, PageFree
<1>19. OneAckInv'
  BY <1>1, <1>6, <1>7, <1>9 DEF OneAckInv, Reading, ReadAck, Writing, Invalidating,
     Answered, Blocked, Running
<1>20. AccessInv'
  BY <1>6, <1>7, <1>9 DEF AccessInv, ReadAck, Answered, Blocked, Running
<1>21. CountInv'
  <2>1. \A q \in Page : q # m.page => Invalidations(q)' = Invalidations(q)
    BY <1>6, <1>7 DEF Invalidations, Invalidating
  <2>2. Invalidations(m.page)' = Invalidations(m.page) \ {m}
    BY <1>6, <1>7 DEF Invalidations, Invalidating
  <2>3. /\ IsFiniteSet(Invalidations(m.page) \ {m})
        /\ Cardinality(Invalidations(m.page) \ {m}) = Cardinality(Invalidations(m.page)) - 1
    BY <1>3, FS_RemoveElement
  <2>4. Len(Tail(copies[m.page])) = Len(copies[m.page]) - 1 /\ Len(copies[m.page]) \in Nat
    BY <1>4
  <2>5. /\ IsFiniteSet(Invalidations(m.page)')
        /\ Cardinality(Invalidations(m.page)') <= Len(copies'[m.page])
    BY <1>3, <1>5, <2>2, <2>3, <2>4
  <2>6. QED
    BY <1>5, <2>1, <2>5 DEF CountInv
<1>22. CopyInv'
  <2>1. mpt \subseteq Page /\ writer[m.page] # NoHost
    BY <1>2, <1>12, NoHostAssumption DEF TypeOK
  <2>2. QED
    BY <1>5, <1>9, <2>1 DEF CopyInv
<1>23. QED
  BY <1>13, <1>14, <1>15, <1>16, <1>17, <1>18, <1>19, <1>20, <1>21, <1>22

LEMMA BeginReadAckStep ==
  ASSUME CoherenceInv, NEW m \in msgs, BeginReadAck(m)
  PROVE  CoherenceInv'
<1> USE DEF CoherenceInv
<1>1. m.type = "READ_ACK"
  BY DEF BeginReadAck
<1>2. m \in Message /\ m.From \in Host /\ m.page \in Page
  BY <1>1, MessageFields DEF TypeOK, Paged
<1>3. PICK new :
        /\ new = [type |-> "handleAck", From |-> m.From, page |-> m.page,
                   copies |-> copies[m.page]]
        /\ msgs' = (msgs \ {m}) \cup {new}
  BY DEF BeginReadAck, Replace
<1>4. new.type = "handleAck" /\ new.From = m.From /\ new.page = m.page
  BY <1>3
<1>5. UNCHANGED <<app, access, mem, mpt, copies, readers, writer, managerLock,
                  locksWriter, heap, mallocs, stores, kept>>
  BY DEF BeginReadAck, manager, history
<1>6. \A n \in msgs : n \in Message /\ n.From \in Host
  BY MessageFields DEF TypeOK
<1>7. TypeOK'
  <2>1. copies[m.page] \in Seq(Host)
    BY <1>2 DEF TypeOK
  <2>2. new \in Message
    BY <1>2, <1>3, <2>1, MessagesMade
  <2>3. QED
    BY <1>3, <1>5, <2>2 DEF TypeOK
<1>8. AppInv'
  BY <1>5 DEF AppInv, Blocked, Running
<1>9. CallInv'
  BY <1>3, <1>4, <1>5 DEF CallInv, ReadCall, WriteCall, Invalidating, MallocCall, FreeCall
<1>10. OneCallInv'
  BY <1>3, <1>4 DEF OneCallInv, Call, ReadCall, WriteCall, Invalidating, MallocCall,
     FreeCall
<1>11. PageInv'
  BY <1>3, <1>4, <1>5 DEF PageInv, PageCall
<1>12. LockInv'
  BY <1>1, <1>3, <1>4, <1>5 DEF LockInv, Reading, ReadAck, Writing, Invalidating, Answered,
     Blocked, Running, PageFree
<1>13. OneAckInv'
  BY <1>1, <1>3, <1>4, <1>5 DEF OneAckInv, Reading, ReadAck, Writing, Invalidating,
     Answered, Blocked, Running
<1>14. AccessInv'
  BY <1>1, <1>3, <1>4, <1>5 DEF AccessInv, ReadAck, Answered, Blocked, Running
<1>15. CountInv'
  <2>1. \A q \in Page : Invalidations(q)' = Invalidations(q)
    BY <1>1, <1>3, <1>4 DEF Invalidations, Invalidating
  <2>2. QED
    BY <1>5, <2>1 DEF CountInv
<1>16. CopyInv'
  BY <1>5 DEF CopyInv
<1>17. QED
  BY <1>7, <1>8, <1>9, <1>10, <1>11, <1>12, <1>13, <1>14, <1>15, <1>16

\* A read gives the lock back that no other message of the host was sent under.
LEMMA HandleReadAckStep ==
  ASSUME CoherenceInv, NEW m \in msgs, HandleReadAck(m)
  PROVE  CoherenceInv'
<1> USE DEF CoherenceInv
<1>1. m.type = "handleAck" /\ msgs' = msgs \ {m}
  BY DEF HandleReadAck
<1>2. m \in Message /\ m.From \in Host /\ m.page \in Page /\ m.copies \in Seq(Host)
  BY <1>1, MessageFields DEF TypeOK, Paged
<1>3. m.From \in readers[m.page] /\ writer[m.page] = NoHost /\ m.page \in mpt
  BY <1>1, <1>2 DEF LockInv, Reading, ReadAck, PageFree
<1>4. /\ copies' \in [Page -> Seq(Host)]
      /\ copies'[m.page] # <<>>
      /\ \A q \in Page : q # m.page => copies'[q] = copies[q]
  <2>1. copies[m.page] # <<>> /\ copies[m.page] \in Seq(Host)
    BY <1>2, <1>3 DEF CopyInv, TypeOK
  <2>2. CASE WithCopy(m.copies, m.From) = m.copies
    BY <2>1, <2>2 DEF HandleReadAck, TypeOK
  <2>3. CASE WithCopy(m.copies, m.From) # m.copies
    <3>1. WithCopy(m.copies, m.From) \in Seq(Host) /\ WithCopy(m.copies, m.From) # <<>>
      BY <1>2, CopyAdded
    <3>2. copies' = [copies EXCEPT ![m.page] = WithCopy(m.copies, m.From)]
      BY <2>3 DEF HandleReadAck
    <3>3. QED
      BY <1>2, <3>1, <3>2 DEF TypeOK
  <2>4. QED
    BY <2>2, <2>3
<1>5. /\ readers' \in [Page -> SUBSET Host]
      /\ readers'[m.page] = readers[m.page] \ {m.From}
      /\ \A q \in Page : q # m.page => readers'[q] = readers[q]
  BY <1>2 DEF HandleReadAck, TypeOK
<1>6. UNCHANGED <<app, access, mem, mpt, writer, managerLock, locksWriter, heap,
                  mallocs, stores, kept>>
  BY DEF HandleReadAck, history
<1>7. \A n \in msgs : n \in Message /\ n.From \in Host
  BY MessageFields DEF TypeOK
<1>8. \A n \in msgs : n.type \in Reading /\ n.From = m.From /\ n.page = m.page => n = m
  BY <1>1 DEF OneAckInv, ReadAck
<1>9. TypeOK'
  BY <1>1, <1>4, <1>5, <1>6 DEF TypeOK
<1>10. AppInv'
  BY <1>6 DEF AppInv, Blocked, Running
<1>11. CallInv'
  BY <1>1, <1>6 DEF CallInv, ReadCall, WriteCall, Invalidating, MallocCall, FreeCall
<1>12. OneCallInv'
  BY <1>1 DEF OneCallInv, Call, ReadCall, WriteCall, Invalidating, MallocCall, FreeCall
<1>13. PageInv'
  BY <1>1, <1>6 DEF PageInv, PageCall
<1>14. LockInv'
  <2>1. \A n \in msgs : n.type \in Reading => n.page \in Page
    BY <1>7, MessageFields DEF Reading, ReadAck, Paged
  <2>2. \A n \in msgs' : n.type \in Reading => n.From \in readers'[n.page]
    BY <1>1, <1>5, <1>8, <2>1 DEF LockInv
  <2>3. ~Answered(m.From, "READ", m.page)
    BY <1>1 DEF OneAckInv, ReadAck
  <2>4. \A h \in Host : \A q \in Page : Answered(h, "READ", q) => h \in readers'[q]
    BY <1>5, <2>3 DEF LockInv
  <2>5. \A q \in Page : readers'[q] \subseteq readers[q]
    BY <1>5
  <2>6. QED
    BY <1>1, <1>6, <2>2, <2>4, <2>5 DEF LockInv, Answered, PageFree
<1>15. OneAckInv'
  BY <1>1, <1>6 DEF OneAckInv, Reading, ReadAck, Writing, Invalidating, Answered, Blocked,
     Running
<1>16. AccessInv'
  BY <1>1, <1>6 DEF AccessInv, ReadAck, Answered, Blocked, Running
<1>17. CountInv'
  <2>1. \A q \in Page : q # m.page => Invalidations(q)' = Invalidations(q)
    BY <1>1 DEF Invalidations, Invalidating
  <2>2. Invalidations(m.page)' = {}
    <3>1. Invalidations(m.page) = {}
      BY <1>2, <1>3, NoInvalidations
    <3>2. QED
      BY <1>1, <3>1 DEF Invalidations
  <2>3. /\ IsFiniteSet(Invalidations(m.page)')
        /\ Cardinality(Invalidations(m.page)') = 0
    BY <2>2, FS_EmptySet
  <2>4. 0 <= Len(copies'[m.page])
    BY <1>2, <1>4
  <2>5. QED
    BY <1>2, <1>4, <2>1, <2>3, <2>4 DEF CountInv
<1>18. CopyInv'
  BY <1>4, <1>6 DEF CopyInv, TypeOK
<1>19. QED
  BY <1>9, <1>10, <1>11, <1>12, <1>13, <1>14, <1>15, <1>16, <1>17, <1>18

LEMMA HandleWriteAckStep ==
  ASSUME CoherenceInv, NEW m \in msgs, HandleWriteAck(m)
  PROVE  CoherenceInv'
<1> USE DEF CoherenceInv
<1>1. m.type = "WRITE_ACK" /\ msgs' = msgs \ {m}
  BY DEF HandleWriteAck
<1>2. m \in Message /\ m.From \in Host /\ m.page \in Page
  BY <1>1, MessageFields DEF TypeOK, Paged
<1>3. writer[m.page] = m.From /\ readers[m.page] = {}
  BY <1>1, <1>2, NoHostAssumption DEF LockInv, Writing
<1>4. /\ copies' \in [Page -> Seq(Host)]
      /\ copies'[m.page] # <<>>
      /\ \A q \in Page : q # m.page => copies'[q] = copies[q]
  <2>1. copies[m.page] \in Seq(Host)
    BY <1>2 DEF TypeOK
  <2>2. WithCopy(copies[m.page], m.From) \in Seq(Host)
        /\ WithCopy(copies[m.page], m.From) # <<>>
    BY <1>2, <2>1, CopyAdded
  <2>3. QED
    BY <1>2, <2>2 DEF HandleWriteAck, TypeOK
<1>5. /\ writer' \in [Page -> Host \cup {NoHost}]
      /\ writer'[m.page] = NoHost
      /\ \A q \in Page : q # m.page => writer'[q] = writer[q]
  BY <1>2 DEF HandleWriteAck, TypeOK
<1>6. UNCHANGED <<app, access, mem, mpt, readers, managerLock, locksWriter, heap,
                  mallocs, stores, kept>>
  BY DEF HandleWriteAck, history
<1>7. \A n \in msgs : n \in Message /\ n.From \in Host
  BY MessageFields DEF TypeOK
<1>8. \A n \in msgs : n.type \in Writing /\ n.page = m.page => n = m
  BY <1>1, <1>3 DEF OneAckInv, LockInv
<1>9. TypeOK'
  BY <1>1, <1>4, <1>5, <1>6 DEF TypeOK
<1>10. AppInv'
  BY <1>6 DEF AppInv, Blocked, Running
<1>11. CallInv'
  BY <1>1, <1>6 DEF CallInv, ReadCall, WriteCall, Invalidating, MallocCall, FreeCall
<1>12. OneCallInv'
  BY <1>1 DEF OneCallInv, Call, ReadCall, WriteCall, Invalidating, MallocCall, FreeCall
<1>13. PageInv'
  BY <1>1, <1>6 DEF PageInv, PageCall
<1>14. LockInv'
  <2>1. \A n \in msgs : n.type \in Writing => n.page \in Page
    BY <1>7, MessageFields DEF Writing, Invalidating, Paged
  <2>2. \A n \in msgs' : n.type \in Writing => writer'[n.page] = n.From
    BY <1>1, <1>5, <1>8, <2>1 DEF LockInv
  <2>3. ~Answered(m.From, "WRITE", m.page)
    BY <1>1 DEF OneAckInv
  <2>4. \A h \in Host : \A q \in Page : Answered(h, "WRITE", q) => writer'[q] = h
    BY <1>3, <1>5, <2>3 DEF LockInv
  <2>5. \A q \in Page : writer'[q] = writer[q] \/ PageFree(q)'
    BY <1>3, <1>5, <1>6 DEF PageFree
  <2>6. QED
    BY <1>1, <1>6, <2>2, <2>4, <2>5 DEF LockInv, Answered, PageFree
<1>15. OneAckInv'
  BY <1>1, <1>6 DEF OneAckInv, Reading, ReadAck, Writing, Invalidating, Answered, Blocked,
     Running
<1>16. AccessInv'
  BY <1>1, <1>6 DEF AccessInv, ReadAck, Answered, Blocked, Running
<1>17. CountInv'
  <2>1. \A q \in Page : q # m.page => Invalidations(q)' = Invalidations(q)
    BY <1>1 DEF Invalidations, Invalidating
  <2>2. Invalidations(m.page)' = {}
    BY <1>1, <1>8 DEF Invalidations, Writing
  <2>3. /\ IsFiniteSet(Invalidations(m.page)')
        /\ Cardinality(Invalidations(m.page)') = 0
    BY <2>2, FS_EmptySet
  <2>4. 0 <= Len(copies'[m.page])
    BY <1>2, <1>4
  <2>5. QED
    BY <1>2, <1>4, <2>1, <2>3, <2>4 DEF CountInv
<1>18. CopyInv'
  BY <1>4, <1>5, <1>6 DEF CopyInv, TypeOK
<1>19. QED
  BY <1>9, <1>10, <1>11, <1>12, <1>13, <1>14, <1>15, <1>16, <1>17, <1>18

LEMMA BeginAllocStep ==
  ASSUME CoherenceInv, NEW m \in msgs, BeginAlloc(m)
  PROVE  CoherenceInv'
<1> USE DEF CoherenceInv
<1>1. m.type = "MALLOC_REQUEST"
  BY DEF BeginAlloc
<1>2. m \in Message /\ m.From \in Host
  BY MessageFields DEF TypeOK
<1>3. PICK new :
        /\ msgs' = (msgs \ {m}) \cup {new}
        /\ \/ new = [type |-> "HandleAlloc", From |-> m.From]
           \/ new = [type |-> "MALLOC_REPLY", From |-> m.From, page |-> NoPage]
  BY DEF BeginAlloc, Replace
<1>4. /\ new.From = m.From
      /\ new.type = "HandleAlloc" \/ (new.type = "MALLOC_REPLY" /\ new.page = NoPage)
  BY <1>3
<1>5. UNCHANGED <<app, access, mem, mpt, copies, readers, writer, locksWriter, heap,
                  mallocs, stores, kept>>
  BY DEF BeginAlloc, history
<1>6. \A n \in msgs : n \in Message /\ n.From \in Host
  BY MessageFields DEF TypeOK
<1>7. \A n \in msgs : n.From = m.From /\ n.type \in Call => n = m
  BY <1>1, Alone DEF Call, ReadCall, WriteCall, MallocCall, FreeCall, Invalidating
<1>8. TypeOK'
  <2>1. new \in Message
    BY <1>2, <1>3 DEF Message
  <2>2. managerLock' \in Host \cup {NoHost}
    BY <1>2 DEF BeginAlloc, TypeOK
  <2>3. QED
    BY <1>3, <1>5, <2>1, <2>2 DEF TypeOK
<1>9. AppInv'
  BY <1>5 DEF AppInv, Blocked, Running
<1>10. CallInv'
  BY <1>1, <1>3, <1>4, <1>5 DEF CallInv, ReadCall, WriteCall, Invalidating, MallocCall,
     FreeCall
<1>11. OneCallInv'
  BY <1>1, <1>3, <1>4, <1>6, <1>7 DEF OneCallInv, Call, ReadCall, WriteCall, Invalidating,
     MallocCall, FreeCall
<1>12. PageInv'
  BY <1>3, <1>4, <1>5 DEF PageInv, PageCall
<1>13. LockInv'
  BY <1>3, <1>4, <1>5 DEF LockInv, Reading, ReadAck, Writing, Invalidating, Answered,
     Blocked, Running, PageFree
<1>14. OneAckInv'
  BY <1>3, <1>4, <1>5 DEF OneAckInv, Reading, ReadAck, Writing, Invalidating, Answered,
     Blocked, Running
<1>15. AccessInv'
  BY <1>3, <1>4, <1>5 DEF AccessInv, ReadAck, Answered, Blocked, Running
<1>16. CountInv'
  <2>1. \A q \in Page : Invalidations(q)' = Invalidations(q)
    BY <1>1, <1>3, <1>4 DEF Invalidations, Invalidating
  <2>2. QED
    BY <1>5, <2>1 DEF CountInv
<1>17. CopyInv'
  BY <1>5 DEF CopyInv
<1>18. QED
  BY <1>8, <1>9, <1>10, <1>11, <1>12, <1>13, <1>14, <1>15, <1>16, <1>17

LEMMA AnnounceAllocStep ==
  ASSUME CoherenceInv, NEW m \in msgs, AnnounceAlloc(m)
  PROVE  CoherenceInv'
<1> USE DEF CoherenceInv
<1>1. m.From \in Host
  BY MessageFields DEF TypeOK
<1>2. UNCHANGED <<app, access, mem, msgs, mpt, copies, readers, writer, managerLock,
                  heap, mallocs, stores, kept>>
  BY DEF AnnounceAlloc, history
<1>3. TypeOK'
  BY <1>1, <1>2 DEF AnnounceAlloc, TypeOK
<1>4. AppInv'
  BY <1>2 DEF AppInv, Blocked, Running
<1>5. CallInv'
  BY <1>2 DEF CallInv, ReadCall, WriteCall, Invalidating, MallocCall, FreeCall
<1>6. OneCallInv'
  BY <1>2 DEF OneCallInv, Call, ReadCall, WriteCall, Invalidating, MallocCall, FreeCall
<1>7. PageInv'
  BY <1>2 DEF PageInv, PageCall
<1>8. LockInv'
  BY <1>2 DEF LockInv, Reading, ReadAck, Writing, Invalidating, Answered, Blocked, Running,
     PageFree
<1>9. OneAckInv'
  BY <1>2 DEF OneAckInv, Reading, ReadAck, Writing, Invalidating, Answered, Blocked,
     Running
<1>10. AccessInv'
  BY <1>2 DEF AccessInv, ReadAck, Answered, Blocked, Running
<1>11. CountInv'
  BY <1>2 DEF CountInv, Invalidations
<1>12. CopyInv'
  BY <1>2 DEF CopyInv
<1>13. QED
  BY <1>3, <1>4, <1>5, <1>6, <1>7, <1>8, <1>9, <1>10, <1>11, <1>12

\* A new page is nobody's: no message, no lock and no invalidation is about it.
LEMMA HandleAllocStep ==
  ASSUME CoherenceInv, NEW m \in msgs, NEW p \in Page, HandleAlloc(m, p)
  PROVE  CoherenceInv'
<1> USE DEF CoherenceInv
<1>1. m.type = "HandleAlloc" /\ p \notin mpt /\ mpt' = mpt \cup {p}
  BY DEF HandleAlloc
<1>2. m \in Message /\ m.From \in Host
  BY MessageFields DEF TypeOK
<1>3. PICK new :
        /\ msgs' = (msgs \ {m}) \cup {new}
        /\ new = [type |-> "MALLOC_REPLY", From |-> m.From, page |-> p]
  BY DEF HandleAlloc, Replace
<1>4. new.From = m.From /\ new.type = "MALLOC_REPLY" /\ new.page = p
  BY <1>3
<1>5. /\ copies' \in [Page -> Seq(Host)]
      /\ copies'[p] # <<>>
      /\ \A q \in Page : q # p => copies'[q] = copies[q]
  <2>1. <<m.From>> \in Seq(Host) /\ <<m.From>> # <<>>
    BY <1>2
  <2>2. QED
    BY <2>1 DEF HandleAlloc, TypeOK
<1>6. UNCHANGED <<app, access, mem, readers, writer, heap, mallocs, stores>>
  BY DEF HandleAlloc
<1>7. \A n \in msgs : n \in Message /\ n.From \in Host
  BY MessageFields DEF TypeOK
<1>8. \A n \in msgs : n.From = m.From /\ n.type \in Call => n = m
  BY <1>1, Alone DEF Call, ReadCall, WriteCall, MallocCall, FreeCall, Invalidating
<1>9. TypeOK'
  <2>1. new \in Message
    BY <1>2, <1>3, MessagesMade
  <2>2. kept' \in [Page -> Data]
    BY DEF HandleAlloc, TypeOK, Data
  <2>3. managerLock' = NoHost /\ locksWriter' = NoHost
    BY DEF HandleAlloc
  <2>4. QED
    BY <1>1, <1>3, <1>5, <1>6, <2>1, <2>2, <2>3 DEF TypeOK
<1>10. AppInv'
  BY <1>6 DEF AppInv, Blocked, Running
<1>11. CallInv'
  BY <1>1, <1>3, <1>4, <1>6 DEF CallInv, ReadCall, WriteCall, Invalidating, MallocCall,
     FreeCall
<1>12. OneCallInv'
  BY <1>1, <1>3, <1>4, <1>7, <1>8 DEF OneCallInv, Call, ReadCall, WriteCall, Invalidating,
     MallocCall, FreeCall
<1>13. PageInv'
  BY <1>1, <1>3, <1>4, <1>6 DEF PageInv, PageCall
<1>14. LockInv'
  BY <1>1, <1>3, <1>4, <1>6 DEF LockInv, Reading, ReadAck, Writing, Invalidating, Answered,
     Blocked, Running, PageFree
<1>15. OneAckInv'
  BY <1>3, <1>4, <1>6 DEF OneAckInv, Reading, ReadAck, Writing, Invalidating, Answered,
     Blocked, Running
<1>16. AccessInv'
  BY <1>3, <1>4, <1>6 DEF AccessInv, ReadAck, Answered, Blocked, Running
<1>17. CountInv'
  <2>1. \A q \in Page : q # p => Invalidations(q)' = Invalidations(q)
    BY <1>1, <1>3, <1>4 DEF Invalidations, Invalidating
  <2>2. Invalidations(p)' = {}
    <3>1. Invalidations(p) = {}
      BY <1>1, NoInvalidations DEF LockInv, PageFree
    <3>2. QED
      BY <1>3, <1>4, <3>1 DEF Invalidations, Invalidating
  <2>3. /\ IsFiniteSet(Invalidations(p)')
        /\ Cardinality(Invalidations(p)') = 0
    BY <2>2, FS_EmptySet
  <2>4. 0 <= Len(copies'[p])
    BY <1>5
  <2>5. QED
    BY <1>5, <2>1, <2>3, <2>4 DEF CountInv
<1>18. CopyInv'
  BY <1>1, <1>5, <1>6 DEF CopyInv, TypeOK
<1>19. QED
  BY <1>9, <1>10, <1>11, <1>12, <1>13, <1>14, <1>15, <1>16, <1>17, <1>18

LEMMA BeginFreeStep ==
  ASSUME CoherenceInv, NEW m \in msgs, BeginFree(m)
  PROVE  CoherenceInv'
<1> USE DEF CoherenceInv
<1>1. m.type = "FREE_REQUEST"
  BY DEF BeginFree
<1>2. m \in Message /\ m.From \in Host /\ m.page \in Page
  BY <1>1, MessageFields DEF TypeOK, Paged
<1>3. PICK new : new = Msg("HandleFree", m.From, m.page) /\ msgs' = (msgs \ {m}) \cup {new}
  BY DEF BeginFree, Replace
<1>4. new.type = "HandleFree" /\ new.From = m.From /\ new.page = m.page
  BY <1>3 DEF Msg
<1>5. UNCHANGED <<app, access, mem, mpt, copies, readers, writer, managerLock, heap,
                  mallocs, stores, kept>>
  BY DEF BeginFree, history
<1>6. \A n \in msgs : n \in Message /\ n.From \in Host
  BY MessageFields DEF TypeOK
<1>7. \A n \in msgs : n.From = m.From /\ n.type \in Call => n = m
  BY <1>1, Alone DEF Call, ReadCall, WriteCall, MallocCall, FreeCall, Invalidating
<1>8. TypeOK'
  <2>1. new \in Message
    BY <1>2, <1>3, MessagesMade
  <2>2. locksWriter' = m.From
    BY DEF BeginFree
  <2>3. QED
    BY <1>2, <1>3, <1>5, <2>1, <2>2 DEF TypeOK
<1>9. AppInv'
  BY <1>5 DEF AppInv, Blocked, Running
<1>10. CallInv'
  BY <1>1, <1>3, <1>4, <1>5 DEF CallInv, ReadCall, WriteCall, Invalidating, MallocCall,
     FreeCall
<1>11. OneCallInv'
  BY <1>1, <1>3, <1>4, <1>6, <1>7 DEF OneCallInv, Call, ReadCall, WriteCall, Invalidating,
     MallocCall, FreeCall
<1>12. PageInv'
  BY <1>1, <1>2, <1>3, <1>4, <1>5 DEF PageInv, PageCall
<1>13. LockInv'
  BY <1>3, <1>4, <1>5 DEF LockInv, Reading, ReadAck, Writing, Invalidating, Answered,
     Blocked, Running, PageFree
<1>14. OneAckInv'
  BY <1>3, <1>4, <1>5 DEF OneAckInv, Reading, ReadAck, Writing, Invalidating, Answered,
     Blocked, Running
<1>15. AccessInv'
  BY <1>3, <1>4, <1>5 DEF AccessInv, ReadAck, Answered, Blocked, Running
<1>16. CountInv'
  <2>1. \A q \in Page : Invalidations(q)' = Invalidations(q)
    BY <1>1, <1>3, <1>4 DEF Invalidations, Invalidating
  <2>2. QED
    BY <1>5, <2>1 DEF CountInv
<1>17. CopyInv'
  BY <1>5 DEF CopyInv
<1>18. QED
  BY <1>8, <1>9, <1>10, <1>11, <1>12, <1>13, <1>14, <1>15, <1>16, <1>17

\* Only a page whose lock is free is deleted, so no acknowledgement of it is left.
LEMMA HandleFreeStep ==
  ASSUME CoherenceInv, NEW m \in msgs, HandleFree(m)
  PROVE  CoherenceInv'
<1> USE DEF CoherenceInv
<1>1. m.type = "HandleFree" /\ PageFree(m.page) /\ mpt' = mpt \ {m.page}
  BY DEF HandleFree
<1>2. m \in Message /\ m.From \in Host /\ m.page \in Page
  BY <1>1, MessageFields DEF TypeOK, Paged
<1>3. PICK new :
        /\ new = [type |-> "FREE_REPLY", From |-> m.From]
        /\ msgs' = (msgs \ {m}) \cup {new}
  BY DEF HandleFree, Replace
<1>4. new.type = "FREE_REPLY" /\ new.From = m.From
  BY <1>3
<1>5. /\ copies' \in [Page -> Seq(Host)]
      /\ \A q \in Page : q # m.page => copies'[q] = copies[q]
  BY <1>2 DEF HandleFree, TypeOK
<1>6. UNCHANGED <<app, access, mem, readers, writer, managerLock, heap, mallocs, stores,
                  kept>>
  BY DEF HandleFree, history
<1>7. \A n \in msgs : n \in Message /\ n.From \in Host
  BY MessageFields DEF TypeOK
<1>8. \A n \in msgs : n.From = m.From /\ n.type \in Call => n = m
  BY <1>1, Alone DEF Call, ReadCall, WriteCall, MallocCall, FreeCall, Invalidating
<1>9. m.page \notin heap /\ \A n \in msgs : n.type \in PageCall /\ n.page = m.page => n = m
  BY <1>1, <1>2, NoPageAssumption DEF PageInv, PageCall
<1>10. TypeOK'
  <2>1. new \in Message
    BY <1>2, <1>3, MessagesMade
  <2>2. locksWriter' = NoHost
    BY DEF HandleFree
  <2>3. QED
    BY <1>1, <1>3, <1>5, <1>6, <2>1, <2>2 DEF TypeOK
<1>11. AppInv'
  BY <1>6 DEF AppInv, Blocked, Running
<1>12. CallInv'
  BY <1>1, <1>3, <1>4, <1>6 DEF CallInv, ReadCall, WriteCall, Invalidating, MallocCall,
     FreeCall
<1>13. OneCallInv'
  BY <1>1, <1>3, <1>4, <1>7, <1>8 DEF OneCallInv, Call, ReadCall, WriteCall, Invalidating,
     MallocCall, FreeCall
<1>14. PageInv'
  BY <1>1, <1>3, <1>4, <1>6, <1>9 DEF PageInv, PageCall
<1>15. LockInv'
  BY <1>1, <1>3, <1>4, <1>6 DEF LockInv, Reading, ReadAck, Writing, Invalidating, Answered,
     Blocked, Running, PageFree
<1>16. OneAckInv'
  BY <1>3, <1>4, <1>6 DEF OneAckInv, Reading, ReadAck, Writing, Invalidating, Answered,
     Blocked, Running
<1>17. AccessInv'
  BY <1>3, <1>4, <1>6 DEF AccessInv, ReadAck, Answered, Blocked, Running
<1>18. CountInv'
  <2>1. \A q \in Page : q # m.page => Invalidations(q)' = Invalidations(q)
    BY <1>1, <1>3, <1>4 DEF Invalidations, Invalidating
  <2>2. Invalidations(m.page)' = {}
    <3>1. Invalidations(m.page) = {}
      BY <1>1, <1>2, NoInvalidations DEF PageFree
    <3>2. QED
      BY <1>3, <1>4, <3>1 DEF Invalidations, Invalidating
  <2>3. /\ IsFiniteSet(Invalidations(m.page)')
        /\ Cardinality(Invalidations(m.page)') = 0
    BY <2>2, FS_EmptySet
  <2>4. 0 <= Len(copies'[m.page])
    BY <1>2, <1>5
  <2>5. QED
    BY <1>2, <1>5, <2>1, <2>3, <2>4 DEF CountInv
<1>19. CopyInv'
  BY <1>1, <1>5, <1>6 DEF CopyInv, TypeOK
<1>20. QED
  BY <1>10, <1>11, <1>12, <1>13, <1>14, <1>15, <1>16, <1>17, <1>18, <1>19

-------------------------------------------------------------------------------
(* Theorems *)

LEMMA CoherenceStutter ==
  ASSUME CoherenceInv, UNCHANGED vars
  PROVE  CoherenceInv'
<1>1. UNCHANGED <<app, access, mem, msgs, mpt, copies, readers, writer, managerLock,
                  locksWriter, heap, mallocs, stores, kept>>
  BY DEF vars, manager, history
<1>2. /\ \A h, op, p : Answered(h, op, p)' <=> Answered(h, op, p)
      /\ \A p : (PageFree(p)' <=> PageFree(p)) /\ Invalidations(p)' = Invalidations(p)
  BY <1>1 DEF Answered, PageFree, Invalidations
<1>3. TypeOK' /\ AppInv'
  BY <1>1 DEF CoherenceInv, TypeOK, AppInv
<1>4. CallInv' /\ OneCallInv'
  BY <1>1 DEF CoherenceInv, CallInv, OneCallInv
<1>5. PageInv'
  BY <1>1 DEF CoherenceInv, PageInv
<1>6. LockInv'
  BY <1>1, <1>2 DEF CoherenceInv, LockInv
<1>7. OneAckInv'
  BY <1>1, <1>2 DEF CoherenceInv, OneAckInv
<1>8. AccessInv'
  BY <1>1, <1>2 DEF CoherenceInv, AccessInv
<1>9. CountInv' /\ CopyInv'
  BY <1>1, <1>2 DEF CoherenceInv, CountInv, CopyInv
<1>10. QED
  BY <1>3, <1>4, <1>5, <1>6, <1>7, <1>8, <1>9 DEF CoherenceInv

LEMMA CoherenceStep == CoherenceInv /\ [Next]_vars => CoherenceInv'
<1> SUFFICES ASSUME CoherenceInv, [Next]_vars PROVE CoherenceInv'
  OBVIOUS
<1>1. CASE UNCHANGED vars
  BY <1>1, CoherenceStutter
<1>2. ASSUME NEW h \in Host, Program(h) PROVE CoherenceInv'
  BY <1>2, AcknowledgeStep, StoreStep, MallocStep, FaultStep, WriteHitStep, FreeStep
     DEF Program
<1>3. ASSUME NEW m \in msgs, messageHandler(m) PROVE CoherenceInv'
  BY <1>3, ServeReadStep, ServeWriteStep, InvalidateStep, ReceiveReplyStep,
     ReceiveMallocReplyStep, ReceiveFreeReplyStep DEF messageHandler
<1>4. ASSUME NEW m \in msgs, HandleMessage(m) PROVE CoherenceInv'
  BY <1>4, BeginRequestStep, HandleReadReqStep, HandleWriteReqStep, HandleInvalidateReplyStep,
     BeginReadAckStep, HandleReadAckStep, HandleWriteAckStep, BeginAllocStep,
     AnnounceAllocStep, HandleAllocStep, BeginFreeStep, HandleFreeStep DEF HandleMessage
<1>5. QED
  BY <1>1, <1>2, <1>3, <1>4 DEF Next

\* Calls, page locks and copy sets stay as the inductive invariant says, whatever
\* order the goroutines of hosts and manager are scheduled in.
THEOREM CoherenceInvariance == Spec => []CoherenceInv
<1>1. Init => CoherenceInv
  BY CoherenceInit
<1>2. CoherenceInv /\ [Next]_vars => CoherenceInv'
  BY CoherenceStep
<1>3. QED
  BY <1>1, <1>2, PTL DEF Spec

\* Every message of the page protocol is well formed: in particular, a request is
\* forwarded to a host and never to the head of an empty copy set.
THEOREM CoherenceTypeCorrect == Spec => []TypeOK
<1>1. CoherenceInv => TypeOK
  BY DEF CoherenceInv
<1>2. QED
  BY <1>1, CoherenceInvariance, PTL

\* handleAck and HandleWriteAck unlock a page that their host has locked.
THEOREM AckFindsLockCorrect == Spec => []AckFindsLock
<1>1. CoherenceInv => AckFindsLock
  BY DEF CoherenceInv, LockInv, AckFindsLock, Reading, ReadAck, Writing
<1>2. QED
  BY <1>1, CoherenceInvariance, PTL

\* HandleReadReq, HandleWriteReq and HandleInvalidateReply find a copy.
THEOREM CopysetNotEmptyCorrect == Spec => []CopysetNotEmpty
<1>1. ASSUME CoherenceInv PROVE CopysetNotEmpty
  <2> SUFFICES ASSUME NEW p \in mpt,
                      writer[p] = NoHost
                        \/ \E m \in msgs : m.type = "INVALIDATE_REPLY" /\ m.page = p
               PROVE  copies[p] # <<>>
    BY DEF CopysetNotEmpty
  <2>1. p \in Page /\ copies[p] \in Seq(Host)
    BY <1>1 DEF CoherenceInv, TypeOK
  <2>2. CASE writer[p] = NoHost
    BY <1>1, <2>2 DEF CoherenceInv, CopyInv
  <2>3. CASE \E m \in msgs : m.type = "INVALIDATE_REPLY" /\ m.page = p
    <3>1. PICK m \in msgs : m.type = "INVALIDATE_REPLY" /\ m.page = p
      BY <2>3
    <3>2. /\ Cardinality(Invalidations(p)) \in Nat
          /\ Cardinality(Invalidations(p)) <= Len(copies[p])
          /\ Cardinality(Invalidations(p)) # 0
      BY <1>1, <2>1, <3>1, SomeInvalidation DEF CoherenceInv, Invalidating
    <3>3. QED
      BY <2>1, <3>2
  <2>4. QED
    BY <2>2, <2>3
<1>2. QED
  BY <1>1, CoherenceInvariance, PTL
===============================================================================
