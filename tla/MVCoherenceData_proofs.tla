------------------------ MODULE MVCoherenceData_proofs ------------------------
(***************************************************************************)
(* Proofs about MVCoherence for programs that never call Free: who may     *)
(* write a page, and what the copies of a page contain.  (Free leaves the  *)
(* rights of every host in place, so that a page that is allocated again   *)
(* may have two writers: nothing below holds then.)                        *)
(***************************************************************************)
EXTENDS MVCoherence_proofs

-------------------------------------------------------------------------------
(* The inductive invariant *)

NobodyWrites(p) == \A g \in Host : access[g][p] # "READ_WRITE"

\* The host's copy contains what was stored with the right to store.
Current(h, p) == kept[p] \subseteq mem[h][p]

\* No page is freed, and nobody has a right to a page that is not allocated.
FreshInv ==
  /\ \A m \in msgs : m.type \notin FreeCall
  /\ \A p \in Page \ mpt : \A g \in Host : access[g][p] = "NO_ACCESS"

\* The owner of a page stays the owner while reads hold its lock.
OwnerInv ==
  \A m \in msgs :
    /\ m.type = "readForward" => m.To = Head(copies[m.page])
    /\ m.type = "handleAck" => m.copies # <<>> /\ Head(m.copies) = Head(copies[m.page])

\* A page that is given away has no copies.
Given == {"writeForward", "WRITE_REPLY", "WRITE_ACK"}

GivenInv ==
  /\ \A m \in msgs : m.type \in Given => copies[m.page] = <<>>
  /\ \A h \in Host : \A p \in Page : Answered(h, "WRITE", p) => copies[p] = <<>>

\* A host that may write is the only copy, is still to be invalidated, or has
\* just got the right.
MayWrite(g, p) ==
  /\ \A i \in 1 .. Len(copies[p]) : copies[p][i] = g
  /\ \/ writer[p] = NoHost
     \/ \E m \in msgs : m.type = "INVALIDATE_REQUEST" /\ m.page = p /\ m.To = g
     \/ writer[p] = g /\ \/ \E m \in msgs : m.type = "WRITE_ACK" /\ m.page = p
                         \/ Answered(g, "WRITE", p)

WriterInv ==
  /\ SingleWriter
  /\ \A p \in Page : \A g \in Host : access[g][p] = "READ_WRITE" => MayWrite(g, p)

\* Nobody writes a page while a copy of it is on its way or has just arrived.
Still == {"READ_REPLY", "READ_ACK", "handleAck", "writeForward", "WRITE_REPLY"}

QuietInv ==
  /\ \A m \in msgs : m.type \in Still => NobodyWrites(m.page)
  /\ \A h \in Host : \A p \in Page : Answered(h, "READ", p) => NobodyWrites(p)

\* The copies of the copy set, and those that are on their way into it, are
\* current.
DataInv ==
  /\ \A p \in Page : \A i \in 1 .. Len(copies[p]) : Current(copies[p][i], p)
  /\ \A m \in msgs :
       /\ m.type = "handleAck" =>
            \A i \in 1 .. Len(m.copies) : Current(m.copies[i], m.page)
       /\ m.type = "writeForward" => Current(m.To, m.page)
       /\ m.type \in {"READ_REPLY", "WRITE_REPLY"} => kept[m.page] \subseteq m.data
       /\ m.type \in {"READ_ACK", "handleAck", "WRITE_ACK"} => Current(m.From, m.page)
  /\ \A h \in Host : \A p \in Page : \A op \in {"READ", "WRITE"} :
       Answered(h, op, p) => Current(h, p)

DataCoherenceInv ==
  /\ FreshInv /\ OwnerInv /\ GivenInv /\ WriterInv /\ QuietInv /\ DataInv

LEMMA DataCoherenceInit == Init => DataCoherenceInv
<1> SUFFICES ASSUME Init PROVE DataCoherenceInv
  OBVIOUS
<1> USE DEF Init
<1>1. FreshInv /\ OwnerInv
  BY DEF FreshInv, OwnerInv
<1>2. GivenInv /\ QuietInv
  BY DEF GivenInv, QuietInv, Answered, Running
<1>3. WriterInv
  BY DEF WriterInv, SingleWriter
<1>4. DataInv
  BY DEF DataInv, Answered, Running
<1>5. QED
  BY <1>1, <1>2, <1>3, <1>4 DEF DataCoherenceInv

-------------------------------------------------------------------------------
(* Steps that leave pages and rights alone *)

\* The messages that say nothing of rights or data.
Silent ==
  {"READ_REQUEST", "WRITE_REQUEST", "HandleReadReq", "HandleWriteReq"} \cup MallocCall

LEMMA SilentStep ==
  ASSUME DataCoherenceInv,
         UNCHANGED <<access, mem, mpt, copies, writer, kept>>,
         \A n \in msgs' : n \in msgs \/ n.type \in Silent,
         \A n \in msgs : n \in msgs' \/ n.type \in Silent,
         \A g \in Host : \A op, p : Answered(g, op, p)' <=> Answered(g, op, p)
  PROVE  DataCoherenceInv'
<1> USE DEF DataCoherenceInv, Silent, MallocCall
<1>1. FreshInv'
  BY DEF FreshInv, FreeCall
<1>2. OwnerInv'
  BY DEF OwnerInv
<1>3. GivenInv'
  BY DEF GivenInv, Given
<1>4. WriterInv'
  <2>1. SingleWriter'
    BY DEF WriterInv, SingleWriter
  <2>2. ASSUME NEW p \in Page, NEW g \in Host, access[g][p] = "READ_WRITE"
        PROVE  MayWrite(g, p)'
    <3>1. MayWrite(g, p)
      BY <2>2 DEF WriterInv
    <3>2. QED
      BY <3>1 DEF MayWrite
  <2>3. QED
    BY <2>1, <2>2 DEF WriterInv
<1>5. QuietInv'
  BY DEF QuietInv, Still, NobodyWrites
<1>6. DataInv'
  BY DEF DataInv, Current
<1>7. QED
  BY <1>1, <1>2, <1>3, <1>4, <1>5, <1>6

LEMMA SilentProgram ==
  ASSUME CoherenceInv, DataCoherenceInv, NEW h \in Host,
         \/ \E p \in Page : Fault(h, p) \/ WriteHit(h, p)
         \/ Malloc(h)
  PROVE  DataCoherenceInv'
<1>1. app \in [Host -> App]
  BY DEF CoherenceInv, TypeOK
<1>2. CASE \E p \in Page : Fault(h, p)
  <2>1. PICK p \in Page, op \in {"READ", "WRITE"}, t \in {"READ_REQUEST", "WRITE_REQUEST"} :
          /\ app[h] = Running
          /\ app' = [app EXCEPT ![h] = Blocked(op, p)]
          /\ msgs' = msgs \cup {Msg(t, h, p)}
    BY <1>2 DEF Fault
  <2>2. Msg(t, h, p).type \in Silent
    BY DEF Msg, Silent
  <2>3. UNCHANGED <<access, mem, mpt, copies, writer, kept>>
    BY <1>2 DEF Fault, manager, history
  <2>4. \A g \in Host : \A o, q : Answered(g, o, q)' <=> Answered(g, o, q)
    BY <1>1, <2>1 DEF Answered, Running, Blocked
  <2>5. QED
    BY <2>1, <2>2, <2>3, <2>4, SilentStep
<1>3. CASE \E p \in Page : WriteHit(h, p)
  <2>1. PICK p : /\ app[h] = Running
                 /\ app' = [app EXCEPT ![h] = [at |-> "storing", op |-> "WRITE", page |-> p]]
    BY <1>3 DEF WriteHit
  <2>2. UNCHANGED <<access, mem, msgs, mpt, copies, writer, kept>>
    BY <1>3 DEF WriteHit, manager, history
  <2>3. \A g \in Host : \A o, q : Answered(g, o, q)' <=> Answered(g, o, q)
    BY <1>1, <2>1 DEF Answered, Running
  <2>4. QED
    BY <2>2, <2>3, SilentStep
<1>4. CASE Malloc(h)
  <2>1. PICK new : new = [type |-> "MALLOC_REQUEST", From |-> h] /\ msgs' = msgs \cup {new}
    BY <1>4 DEF Malloc
  <2>2. new.type \in Silent
    BY <2>1 DEF Silent, MallocCall
  <2>3. UNCHANGED <<access, mem, mpt, copies, writer, kept>>
    BY <1>4 DEF Malloc, manager
  <2>4. \A g \in Host : \A o, q : Answered(g, o, q)' <=> Answered(g, o, q)
    BY <1>1, <1>4 DEF Malloc, Answered, Running, Blocked
  <2>5. QED
    BY <2>1, <2>2, <2>3, <2>4, SilentStep
<1>5. QED
  BY <1>2, <1>3, <1>4

LEMMA SilentHandler ==
  ASSUME CoherenceInv, DataCoherenceInv, NEW m \in msgs,
         ReceiveMallocReply(m) \/ BeginRequest(m) \/ BeginAlloc(m) \/ AnnounceAlloc(m)
  PROVE  DataCoherenceInv'
<1>1. app \in [Host -> App] /\ m.From \in Host
  BY MessageFields DEF CoherenceInv, TypeOK
<1>2. CASE ReceiveMallocReply(m)
  <2>1. /\ m.type = "MALLOC_REPLY"
        /\ msgs' = msgs \ {m}
        /\ app' = [app EXCEPT ![m.From] = Running]
        /\ UNCHANGED <<access, mem, mpt, copies, writer, kept>>
    BY <1>2 DEF ReceiveMallocReply, manager
  <2>2. m.type \in Silent
    BY <2>1 DEF Silent, MallocCall
  <2>3. app[m.From] = Blocked("MALLOC", NoPage)
    BY <2>1 DEF CoherenceInv, CallInv, MallocCall
  <2>4. \A g \in Host : \A o, q : Answered(g, o, q)' <=> Answered(g, o, q)
    BY <1>1, <2>1, <2>3 DEF Answered, Running, Blocked
  <2>5. QED
    BY <2>1, <2>2, <2>4, SilentStep
<1>3. CASE BeginRequest(m)
  <2>1. PICK t \in {"HandleReadReq", "HandleWriteReq"} :
          msgs' = (msgs \ {m}) \cup {Msg(t, m.From, m.page)}
    BY <1>3 DEF BeginRequest, Replace
  <2>2. m.type \in Silent /\ Msg(t, m.From, m.page).type \in Silent
    BY <1>3 DEF BeginRequest, Msg, Silent
  <2>3. UNCHANGED <<app, access, mem, mpt, copies, writer, kept>>
    BY <1>3 DEF BeginRequest, manager, history
  <2>4. \A g \in Host : \A o, q : Answered(g, o, q)' <=> Answered(g, o, q)
    BY <2>3 DEF Answered
  <2>5. QED
    BY <2>1, <2>2, <2>3, <2>4, SilentStep
<1>4. CASE BeginAlloc(m)
  <2>1. PICK new :
          /\ msgs' = (msgs \ {m}) \cup {new}
          /\ \/ new = [type |-> "HandleAlloc", From |-> m.From]
             \/ new = [type |-> "MALLOC_REPLY", From |-> m.From, page |-> NoPage]
    BY <1>4 DEF BeginAlloc, Replace
  <2>2. m.type \in Silent /\ new.type \in Silent
    BY <1>4, <2>1 DEF BeginAlloc, Silent, MallocCall
  <2>3. UNCHANGED <<app, access, mem, mpt, copies, writer, kept>>
    BY <1>4 DEF BeginAlloc, history
  <2>4. \A g \in Host : \A o, q : Answered(g, o, q)' <=> Answered(g, o, q)
    BY <2>3 DEF Answered
  <2>5. QED
    BY <2>1, <2>2, <2>3, <2>4, SilentStep
<1>5. CASE AnnounceAlloc(m)
  <2>1. UNCHANGED <<app, access, mem, msgs, mpt, copies, writer, kept>>
    BY <1>5 DEF AnnounceAlloc, history
  <2>2. \A g \in Host : \A o, q : Answered(g, o, q)' <=> Answered(g, o, q)
    BY <2>1 DEF Answered
  <2>3. QED
    BY <2>1, <2>2, SilentStep
<1>6. QED
  BY <1>2, <1>3, <1>4, <1>5

-------------------------------------------------------------------------------
(* The steps of a program *)

\* What holds of a program that was answered holds of its acknowledgement.
LEMMA AcknowledgeData ==
  ASSUME CoherenceInv, DataCoherenceInv, NEW h \in Host, Acknowledge(h)
  PROVE  DataCoherenceInv'
<1> USE DEF CoherenceInv, DataCoherenceInv
<1>1. app[h].at = "answered" /\ app[h].op \in {"READ", "WRITE"} /\ app[h].page \in Page
  BY DEF Acknowledge, AppInv
<1>2. PICK op \in {"READ", "WRITE"}, p \in Page, t \in {"READ_ACK", "WRITE_ACK"} :
        /\ Answered(h, op, p)
        /\ t = "READ_ACK" <=> op = "READ"
        /\ t = AckType(app[h].op) /\ p = app[h].page
  BY <1>1 DEF AckType, Answered
<1>3. PICK new : new = Msg(t, h, p) /\ msgs' = msgs \cup {new}
  BY <1>2 DEF Acknowledge
<1>4. new.type = t /\ new.From = h /\ new.page = p
  BY <1>3 DEF Msg
<1>5. UNCHANGED <<access, mem, mpt, copies, readers, writer, kept>>
  BY DEF Acknowledge, manager, history
<1>6. \A g \in Host : \A o, q : Answered(g, o, q)' <=> Answered(g, o, q) /\ g # h
  <2>1. app' = [app EXCEPT ![h] = IF @.op = "READ" THEN Running
                                                  ELSE [@ EXCEPT !.at = "storing"]]
    BY DEF Acknowledge
  <2>2. app'[h].at # "answered" /\ \A g \in Host : g # h => app'[g] = app[g]
    BY <2>1 DEF TypeOK, Running, App
  <2>3. QED
    BY <2>2 DEF Answered
<1>7. FreshInv'
  BY <1>2, <1>3, <1>4, <1>5 DEF FreshInv, FreeCall
<1>8. OwnerInv'
  BY <1>2, <1>3, <1>4, <1>5 DEF OwnerInv
<1>9. GivenInv'
  BY <1>2, <1>3, <1>4, <1>5, <1>6 DEF GivenInv, Given
<1>10. WriterInv'
  <2>1. SingleWriter'
    BY <1>5 DEF WriterInv, SingleWriter
  <2>2. ASSUME NEW q \in Page, NEW g \in Host, access[g][q] = "READ_WRITE"
        PROVE  MayWrite(g, q)'
    <3>1. MayWrite(g, q)
      BY <2>2 DEF WriterInv
    <3>2. CASE g = h /\ Answered(g, "WRITE", q)
      <4>1. new.type = "WRITE_ACK" /\ new.page = q
        BY <1>2, <1>4, <3>2 DEF Answered
      <4>2. QED
        BY <1>3, <1>5, <3>1, <3>2, <4>1 DEF MayWrite
    <3>3. CASE ~(g = h /\ Answered(g, "WRITE", q))
      BY <1>3, <1>5, <1>6, <3>1, <3>3 DEF MayWrite
    <3>4. QED
      BY <3>2, <3>3
  <2>3. QED
    BY <1>5, <2>1, <2>2 DEF WriterInv
<1>11. QuietInv'
  BY <1>2, <1>3, <1>4, <1>5, <1>6 DEF QuietInv, Still, NobodyWrites
<1>12. DataInv'
  <2>1. Current(h, p)
    BY <1>2 DEF DataInv
  <2>2. \A g, q : Current(g, q)' <=> Current(g, q)
    BY <1>5 DEF Current
  <2>3. QED
    BY <1>3, <1>4, <1>5, <1>6, <2>1, <2>2 DEF DataInv
<1>13. QED
  BY <1>7, <1>8, <1>9, <1>10, <1>11, <1>12

\* A store that the access map allows reaches every copy: there is no other.
LEMMA StoreData ==
  ASSUME CoherenceInv, DataCoherenceInv, NEW h \in Host, Store(h)
  PROVE  DataCoherenceInv'
<1> USE DEF CoherenceInv, DataCoherenceInv
<1>1. app[h].at = "storing" /\ app[h].page \in Page
  BY DEF Store, AppInv
<1>2. PICK p \in Page, new \in Data :
        /\ mem' = [mem EXCEPT ![h][p] = @ \cup new]
        /\ kept' = [kept EXCEPT ![p] = IF access[h][p] = "READ_WRITE" THEN @ \cup new ELSE @]
  <2>1. (1 .. MaxStores) \cap {stores + 1} \in Data
    BY DEF Data
  <2>2. QED
    BY <1>1, <2>1 DEF Store
<1>3. UNCHANGED <<access, msgs, mpt, copies, readers, writer>>
  BY DEF Store, manager
<1>4. \A g \in Host : \A o, q : Answered(g, o, q)' <=> Answered(g, o, q)
  <2>1. app' = [app EXCEPT ![h] = Running]
    BY DEF Store
  <2>2. QED
    BY <1>1, <2>1 DEF TypeOK, Answered, Running
<1>5. \A n \in msgs : n \in Message /\ n.From \in Host
  BY MessageFields DEF TypeOK
<1>6. \A n \in msgs : n.type \in Paged => n.page \in Page
  BY MessageFields DEF TypeOK
<1>7. \A q \in Page : q # p \/ access[h][p] # "READ_WRITE" =>
        /\ kept'[q] = kept[q]
        /\ \A g \in Host : mem[g][q] \subseteq mem'[g][q]
  BY <1>2 DEF TypeOK
<1>8. Current(h, p) => Current(h, p)'
  BY <1>2 DEF TypeOK, Current
<1>9. \A q \in Page : \A g \in Host : Current(g, q) =>
        Current(g, q)' \/ (q = p /\ g # h /\ access[h][p] = "READ_WRITE")
  BY <1>7, <1>8 DEF Current
<1>10. FreshInv'
  BY <1>3 DEF FreshInv, FreeCall
<1>11. OwnerInv'
  BY <1>3 DEF OwnerInv
<1>12. GivenInv'
  BY <1>3, <1>4 DEF GivenInv, Given
<1>13. WriterInv'
  BY <1>3, <1>4 DEF WriterInv, SingleWriter, MayWrite
<1>14. QuietInv'
  BY <1>3, <1>4 DEF QuietInv, Still, NobodyWrites
<1>15. DataInv'
  <2>1. CASE access[h][p] # "READ_WRITE"
    <3>1. \A q \in Page : \A g \in Host : Current(g, q) => Current(g, q)'
      BY <1>9, <2>1
    <3>2. \A q \in Page : kept'[q] = kept[q]
      BY <1>7, <2>1
    <3>3. \A q \in Page : \A i \in 1 .. Len(copies[q]) : copies[q][i] \in Host
      BY DEF TypeOK
    <3>4. \A n \in msgs :
            /\ n.type = "handleAck" => \A i \in 1 .. Len(n.copies) : n.copies[i] \in Host
            /\ n.type = "writeForward" => n.To \in Host
      BY <1>5, MessageFields
    <3>5. QED
      BY <1>3, <1>4, <1>5, <1>6, <3>1, <3>2, <3>3, <3>4 DEF DataInv, Paged
  <2>2. CASE access[h][p] = "READ_WRITE"
    <3>1. MayWrite(h, p) /\ ~NobodyWrites(p)
      BY <2>2 DEF WriterInv, NobodyWrites
    <3>2. \A q \in Page : q # p => kept'[q] = kept[q] /\ \A g \in Host : mem'[g][q] = mem[g][q]
      BY <1>2 DEF TypeOK
    <3>3. \A q \in Page : \A i \in 1 .. Len(copies[q]) : copies[q][i] \in Host
      BY DEF TypeOK
    <3>4. \A q \in Page : \A i \in 1 .. Len(copies[q]) : Current(copies[q][i], q)'
      BY <1>3, <1>8, <3>1, <3>2, <3>3 DEF DataInv, MayWrite, Current
    <3>5. \A n \in msgs : n.type \in Still => n.page \in Page /\ n.page # p
      BY <1>6, <3>1 DEF QuietInv, Still, Paged
    <3>6. \A n \in msgs :
            /\ n.type = "handleAck" => \A i \in 1 .. Len(n.copies) : n.copies[i] \in Host
            /\ n.type = "writeForward" => n.To \in Host
      BY <1>5, MessageFields
    <3>7. ASSUME NEW n \in msgs, n.type = "WRITE_ACK" PROVE Current(n.From, n.page)'
      <4>1. n.page \in Page /\ writer[n.page] = n.From /\ Current(n.From, n.page)
        BY <1>6, <3>7 DEF Paged, LockInv, Writing, DataInv
      <4>2. CASE n.page = p
        <5>1. \A x \in msgs : x.type = "INVALIDATE_REQUEST" => x.page # p
          BY <3>7, <4>1, <4>2 DEF OneAckInv, LockInv, Writing, Invalidating
        <5>2. n.From = h
          BY <1>5, <3>1, <4>1, <4>2, <5>1, NoHostAssumption DEF MayWrite
        <5>3. QED
          BY <1>8, <4>1, <4>2, <5>2
      <4>3. QED
        BY <1>5, <1>9, <4>1, <4>2
    <3>8. ASSUME NEW g \in Host, NEW q \in Page, NEW op \in {"READ", "WRITE"},
                 Answered(g, op, q)
          PROVE  Current(g, q)'
      <4>1. Current(g, q)
        BY <3>8 DEF DataInv
      <4>2. CASE q = p
        <5>1. op = "WRITE"
          BY <3>1, <3>8, <4>2 DEF QuietInv
        <5>2. writer[p] = g /\ app[g].at = "answered"
          BY <3>8, <4>2, <5>1 DEF LockInv, Answered
        <5>3. \A x \in msgs : x.type = "INVALIDATE_REQUEST" => x.page # p
          <6> SUFFICES ASSUME NEW x \in msgs, x.type = "INVALIDATE_REQUEST", x.page = p
                       PROVE  FALSE
            OBVIOUS
          <6>1. x.From = g
            BY <5>2 DEF LockInv, Writing, Invalidating
          <6>2. app[g] = Blocked("WRITE", p)
            BY <6>1 DEF CallInv, WriteCall, Invalidating
          <6>3. QED
            BY <5>2, <6>2 DEF Blocked
        <5>4. g = h
          BY <3>1, <5>2, <5>3, NoHostAssumption DEF MayWrite
        <5>5. QED
          BY <1>8, <4>1, <4>2, <5>4
      <4>3. QED
        BY <1>9, <4>1, <4>2
    <3>9. QED
      BY <1>3, <1>4, <1>5, <1>9, <3>2, <3>4, <3>5, <3>6, <3>7, <3>8
         DEF DataInv, Still
  <2>3. QED
    BY <2>1, <2>2
<1>16. QED
  BY <1>10, <1>11, <1>12, <1>13, <1>14, <1>15

-------------------------------------------------------------------------------
(* The message handler of a host *)

\* The owner that serves a read is the only host that may write, and may not after.
LEMMA ServeReadData ==
  ASSUME CoherenceInv, DataCoherenceInv, NEW m \in msgs, ServeRead(m)
  PROVE  DataCoherenceInv'
<1> USE DEF CoherenceInv, DataCoherenceInv
<1>1. m.type = "readForward"
  BY DEF ServeRead
<1>2. m \in Message /\ m.From \in Host /\ m.page \in Page /\ m.To \in Host
  BY <1>1, MessageFields DEF TypeOK, Paged, Invalidating
<1>3. PICK new :
        /\ new = Reply("READ_REPLY", m.From, m.page, mem[m.To][m.page])
        /\ msgs' = (msgs \ {m}) \cup {new}
  BY DEF ServeRead, Replace
<1>4. new.type = "READ_REPLY" /\ new.page = m.page /\ new.data = mem[m.To][m.page]
  BY <1>3 DEF Reply
<1>5. UNCHANGED <<app, mem, mpt, copies, readers, writer, kept>>
  BY DEF ServeRead, manager, history
<1>6. \A g \in Host : \A q \in Page :
        /\ access'[g][q] # "NO_ACCESS" => access[g][q] # "NO_ACCESS"
        /\ access'[g][q] = "READ_WRITE" =>
             access[g][q] = "READ_WRITE" /\ ~(g = m.To /\ q = m.page)
  BY <1>2 DEF ServeRead, Downgraded, TypeOK, Access
<1>7. \A g \in Host : \A o, q : Answered(g, o, q)' <=> Answered(g, o, q)
  BY <1>5 DEF Answered
<1>8. \A g, q : Current(g, q)' <=> Current(g, q)
  BY <1>5 DEF Current
<1>9. \A n \in msgs : n.type \in Paged => n.page \in Page
  BY MessageFields DEF TypeOK
<1>10. m.To = copies[m.page][1] /\ 1 \in 1 .. Len(copies[m.page])
  <2>1. m.To = Head(copies[m.page])
    BY <1>1 DEF OwnerInv
  <2>2. copies[m.page] \in Seq(Host) /\ copies[m.page] # <<>>
    BY <1>1, <1>2 DEF LockInv, Reading, PageFree, CopyInv, TypeOK
  <2>3. QED
    BY <2>1, <2>2
<1>11. FreshInv'
  BY <1>3, <1>4, <1>5, <1>6 DEF FreshInv, FreeCall, TypeOK
<1>12. OwnerInv'
  BY <1>3, <1>4, <1>5 DEF OwnerInv
<1>13. GivenInv'
  BY <1>3, <1>4, <1>5, <1>7 DEF GivenInv, Given
<1>14. WriterInv'
  <2>1. SingleWriter'
    BY <1>6 DEF WriterInv, SingleWriter
  <2>2. ASSUME NEW q \in Page, NEW g \in Host, access'[g][q] = "READ_WRITE"
        PROVE  MayWrite(g, q)'
    <3>1. MayWrite(g, q)
      BY <1>6, <2>2 DEF WriterInv
    <3>2. QED
      BY <1>1, <1>3, <1>5, <1>7, <3>1 DEF MayWrite
  <2>3. QED
    BY <2>1, <2>2 DEF WriterInv
<1>15. QuietInv'
  <2>1. NobodyWrites(m.page)'
    BY <1>2, <1>6, <1>10 DEF NobodyWrites, WriterInv, MayWrite
  <2>2. \A q \in Page : NobodyWrites(q) => NobodyWrites(q)'
    BY <1>6 DEF NobodyWrites
  <2>3. QED
    BY <1>2, <1>3, <1>4, <1>7, <1>9, <2>1, <2>2 DEF QuietInv, Still, Paged
<1>16. DataInv'
  <2>1. Current(m.To, m.page)
    BY <1>2, <1>10 DEF DataInv
  <2>2. kept'[new.page] \subseteq new.data
    BY <1>4, <1>5, <2>1 DEF Current
  <2>3. QED
    BY <1>3, <1>4, <1>5, <1>7, <1>8, <2>2 DEF DataInv
<1>17. QED
  BY <1>11, <1>12, <1>13, <1>14, <1>15, <1>16

LEMMA ServeWriteData ==
  ASSUME CoherenceInv, DataCoherenceInv, NEW m \in msgs, ServeWrite(m)
  PROVE  DataCoherenceInv'
<1> USE DEF CoherenceInv, DataCoherenceInv
<1>1. m.type = "writeForward"
  BY DEF ServeWrite
<1>2. m \in Message /\ m.From \in Host /\ m.page \in Page /\ m.To \in Host
  BY <1>1, MessageFields DEF TypeOK, Paged, Invalidating
<1>3. PICK new :
        /\ new = Reply("WRITE_REPLY", m.From, m.page, mem[m.To][m.page])
        /\ msgs' = (msgs \ {m}) \cup {new}
  BY DEF ServeWrite, Replace
<1>4. new.type = "WRITE_REPLY" /\ new.page = m.page /\ new.data = mem[m.To][m.page]
  BY <1>3 DEF Reply
<1>5. UNCHANGED <<app, mem, mpt, copies, readers, writer, kept>>
  BY DEF ServeWrite, manager, history
<1>6. \A g \in Host : \A q \in Page :
        /\ access'[g][q] # "NO_ACCESS" => access[g][q] # "NO_ACCESS"
        /\ access'[g][q] = "READ_WRITE" =>
             access[g][q] = "READ_WRITE" /\ ~(g = m.To /\ q = m.page)
  BY <1>2 DEF ServeWrite, Revoked, TypeOK, Access
<1>7. \A g \in Host : \A o, q : Answered(g, o, q)' <=> Answered(g, o, q)
  BY <1>5 DEF Answered
<1>8. \A g, q : Current(g, q)' <=> Current(g, q)
  BY <1>5 DEF Current
<1>9. \A n \in msgs : n.type \in Paged => n.page \in Page
  BY MessageFields DEF TypeOK
<1>10. FreshInv'
  BY <1>3, <1>4, <1>5, <1>6 DEF FreshInv, FreeCall, TypeOK
<1>11. OwnerInv'
  BY <1>3, <1>4, <1>5 DEF OwnerInv
<1>12. GivenInv'
  BY <1>1, <1>3, <1>4, <1>5, <1>7 DEF GivenInv, Given
<1>13. WriterInv'
  <2>1. SingleWriter'
    BY <1>6 DEF WriterInv, SingleWriter
  <2>2. ASSUME NEW q \in Page, NEW g \in Host, access'[g][q] = "READ_WRITE"
        PROVE  MayWrite(g, q)'
    <3>1. MayWrite(g, q)
      BY <1>6, <2>2 DEF WriterInv
    <3>2. QED
      BY <1>1, <1>3, <1>5, <1>7, <3>1 DEF MayWrite
  <2>3. QED
    BY <2>1, <2>2 DEF WriterInv
<1>14. QuietInv'
  <2>1. \A q \in Page : NobodyWrites(q) => NobodyWrites(q)'
    BY <1>6 DEF NobodyWrites
  <2>2. QED
    BY <1>1, <1>2, <1>3, <1>4, <1>7, <1>9, <2>1 DEF QuietInv, Still, Paged
<1>15. DataInv'
  <2>1. Current(m.To, m.page)
    BY <1>1 DEF DataInv
  <2>2. kept'[new.page] \subseteq new.data
    BY <1>4, <1>5, <2>1 DEF Current
  <2>3. QED
    BY <1>3, <1>4, <1>5, <1>7, <1>8, <2>2 DEF DataInv
<1>16. QED
  BY <1>10, <1>11, <1>12, <1>13, <1>14, <1>15

\* The host that an invalidation was for may not write any more.
LEMMA InvalidateData ==
  ASSUME CoherenceInv, DataCoherenceInv, NEW m \in msgs, Invalidate(m)
  PROVE  DataCoherenceInv'
<1> USE DEF CoherenceInv, DataCoherenceInv
<1>1. m.type = "INVALIDATE_REQUEST"
  BY DEF Invalidate
<1>2. m \in Message /\ m.From \in Host /\ m.page \in Page /\ m.To \in Host
  BY <1>1, MessageFields DEF TypeOK, Paged, Invalidating
<1>3. PICK new :
        /\ new = MsgTo("INVALIDATE_REPLY", m.From, m.page, m.To)
        /\ msgs' = (msgs \ {m}) \cup {new}
  BY DEF Invalidate, Replace
<1>4. new.type = "INVALIDATE_REPLY"
  BY <1>3 DEF MsgTo
<1>5. UNCHANGED <<app, mem, mpt, copies, readers, writer, kept>>
  BY DEF Invalidate, manager, history
<1>6. \A g \in Host : \A q \in Page :
        /\ access'[g][q] # "NO_ACCESS" => access[g][q] # "NO_ACCESS"
        /\ access'[g][q] = "READ_WRITE" =>
             access[g][q] = "READ_WRITE" /\ ~(g = m.To /\ q = m.page)
  BY <1>2 DEF Invalidate, Revoked, TypeOK, Access
<1>7. \A g \in Host : \A o, q : Answered(g, o, q)' <=> Answered(g, o, q)
  BY <1>5 DEF Answered
<1>8. \A g, q : Current(g, q)' <=> Current(g, q)
  BY <1>5 DEF Current
<1>9. \A n \in msgs : n.type \in Paged => n.page \in Page
  BY MessageFields DEF TypeOK
<1>10. FreshInv'
  BY <1>3, <1>4, <1>5, <1>6 DEF FreshInv, FreeCall, TypeOK
<1>11. OwnerInv'
  BY <1>3, <1>4, <1>5 DEF OwnerInv
<1>12. GivenInv'
  BY <1>3, <1>4, <1>5, <1>7 DEF GivenInv, Given
<1>13. WriterInv'
  <2>1. SingleWriter'
    BY <1>6 DEF WriterInv, SingleWriter
  <2>2. ASSUME NEW q \in Page, NEW g \in Host, access'[g][q] = "READ_WRITE"
        PROVE  MayWrite(g, q)'
    <3>1. MayWrite(g, q)
      BY <1>6, <2>2 DEF WriterInv
    <3>2. QED
      BY <1>1, <1>3, <1>5, <1>6, <1>7, <3>1, <2>2 DEF MayWrite
  <2>3. QED
    BY <2>1, <2>2 DEF WriterInv
<1>14. QuietInv'
  <2>1. \A q \in Page : NobodyWrites(q) => NobodyWrites(q)'
    BY <1>6 DEF NobodyWrites
  <2>2. QED
    BY <1>3, <1>4, <1>7, <1>9, <2>1 DEF QuietInv, Still, Paged
<1>15. DataInv'
  BY <1>3, <1>4, <1>5, <1>7, <1>8 DEF DataInv
<1>16. QED
  BY <1>10, <1>11, <1>12, <1>13, <1>14, <1>15

\* The right to write arrives when nobody has it; a copy arrives current.
LEMMA ReceiveReplyData ==
  ASSUME CoherenceInv, DataCoherenceInv, NEW m \in msgs, ReceiveReply(m)
  PROVE  DataCoherenceInv'
<1> USE DEF CoherenceInv, DataCoherenceInv
<1>1. m.type \in {"READ_REPLY", "WRITE_REPLY"} /\ msgs' = msgs \ {m}
  BY DEF ReceiveReply
<1>2. m \in Message /\ m.From \in Host /\ m.page \in Page
  BY <1>1, MessageFields DEF TypeOK, Paged
<1>3. PICK op \in {"READ", "WRITE"} :
        /\ op = "READ" <=> m.type = "READ_REPLY"
        /\ app[m.From] = Blocked(op, m.page)
  BY <1>1 DEF CallInv, ReadCall, WriteCall
<1>4. UNCHANGED <<mpt, copies, readers, writer, kept>>
  BY DEF ReceiveReply, manager, history
<1>5. \A g \in Host : \A o, q : Answered(g, o, q)' <=>
        Answered(g, o, q) \/ (g = m.From /\ o = op /\ q = m.page)
  <2>1. app' = [app EXCEPT ![m.From] = [@ EXCEPT !.at = "answered"]]
    BY DEF ReceiveReply
  <2>2. [app[m.From] EXCEPT !.at = "answered"] = [at |-> "answered", op |-> op, page |-> m.page]
    BY <1>3 DEF Blocked
  <2>3. /\ app'[m.From] = [at |-> "answered", op |-> op, page |-> m.page]
        /\ \A g \in Host : g # m.From => app'[g] = app[g]
    BY <1>2, <2>1, <2>2 DEF TypeOK
  <2>4. QED
    BY <1>3, <2>3 DEF Answered, Blocked
<1>6. /\ access'[m.From][m.page] = IF op = "READ" THEN "READ_ONLY" ELSE "READ_WRITE"
      /\ \A g \in Host : \A q \in Page :
           ~(g = m.From /\ q = m.page) => access'[g][q] = access[g][q]
  BY <1>1, <1>2, <1>3 DEF ReceiveReply, TypeOK, Access
<1>7. \A g \in Host : \A q \in Page :
        /\ Current(g, q) => Current(g, q)'
        /\ g = m.From /\ q = m.page => Current(g, q)'
  <2>1. kept[m.page] \subseteq m.data
    BY <1>1 DEF DataInv
  <2>2. mem' = [mem EXCEPT ![m.From][m.page] = m.data]
    BY DEF ReceiveReply
  <2>3. QED
    BY <1>4, <2>1, <2>2 DEF Current, TypeOK
<1>8. \A n \in msgs : n.type \in Paged => n.page \in Page
  BY MessageFields DEF TypeOK
<1>9. /\ \A q \in Page : \A i \in 1 .. Len(copies[q]) : copies[q][i] \in Host
      /\ \A n \in msgs :
           /\ n.type = "handleAck" => \A i \in 1 .. Len(n.copies) : n.copies[i] \in Host
           /\ n.type = "writeForward" => n.To \in Host
  BY MessageFields DEF TypeOK
<1>10. NobodyWrites(m.page)
  BY <1>1 DEF QuietInv, Still
<1>11. m.page \in mpt
  BY <1>1, <1>2, CallPage DEF ReadCall, WriteCall
<1>12. FreshInv'
  BY <1>1, <1>4, <1>6, <1>11 DEF FreshInv, FreeCall
<1>13. OwnerInv'
  BY <1>1, <1>4 DEF OwnerInv
<1>14. GivenInv'
  <2>1. op = "WRITE" => copies[m.page] = <<>>
    BY <1>1, <1>3 DEF GivenInv, Given
  <2>2. QED
    BY <1>1, <1>4, <1>5, <2>1 DEF GivenInv, Given
<1>15. WriterInv'
  <2>1. ASSUME NEW q \in Page, NEW g \in Host, access'[g][q] = "READ_WRITE"
        PROVE  \/ access[g][q] = "READ_WRITE" /\ q # m.page
               \/ g = m.From /\ q = m.page /\ op = "WRITE"
    BY <1>6, <1>10, <2>1 DEF NobodyWrites
  <2>2. SingleWriter'
    BY <2>1 DEF WriterInv, SingleWriter
  <2>3. ASSUME NEW q \in Page, NEW g \in Host, access'[g][q] = "READ_WRITE"
        PROVE  MayWrite(g, q)'
    <3>1. CASE access[g][q] = "READ_WRITE"
      <4>1. MayWrite(g, q)
        BY <3>1 DEF WriterInv
      <4>2. QED
        BY <1>1, <1>4, <1>5, <4>1 DEF MayWrite
    <3>2. CASE g = m.From /\ q = m.page /\ op = "WRITE"
      <4>1. writer[q] = g /\ copies[q] = <<>>
        BY <1>1, <1>3, <3>2 DEF LockInv, Writing, GivenInv, Given
      <4>2. QED
        BY <1>4, <1>5, <3>2, <4>1 DEF MayWrite
    <3>3. QED
      BY <2>1, <2>3, <3>1, <3>2
  <2>4. QED
    BY <2>2, <2>3 DEF WriterInv
<1>16. QuietInv'
  <2>1. \A q \in Page : NobodyWrites(q) /\ (q # m.page \/ op = "READ") => NobodyWrites(q)'
    BY <1>6 DEF NobodyWrites
  <2>2. CASE op = "READ"
    BY <1>1, <1>5, <1>8, <1>10, <2>1, <2>2 DEF QuietInv, Still, Paged
  <2>3. CASE op = "WRITE"
    <3>1. m.type = "WRITE_REPLY" /\ writer[m.page] = m.From /\ readers[m.page] = {}
      BY <1>1, <1>2, <1>3, <2>3, NoHostAssumption DEF LockInv, Writing
    <3>2. \A n \in msgs : n.type \in {"READ_REPLY", "READ_ACK", "handleAck"} => n.page # m.page
      BY <3>1 DEF LockInv, Reading, ReadAck
    <3>3. \A n \in msgs : n.type \in {"writeForward", "WRITE_REPLY"} =>
            n.page # m.page \/ n = m
      BY <3>1 DEF LockInv, Writing, OneCallInv, Call, WriteCall, Invalidating
    <3>4. \A h \in Host : ~Answered(h, "READ", m.page)
      BY <1>2, <3>1 DEF LockInv
    <3>5. QED
      BY <1>1, <1>5, <1>8, <2>1, <2>3, <3>2, <3>3, <3>4 DEF QuietInv, Still, Paged
  <2>4. QED
    BY <2>2, <2>3
<1>17. DataInv'
  <2>1. \A q \in Page : \A i \in 1 .. Len(copies[q]) : Current(copies[q][i], q)'
    BY <1>4, <1>7, <1>9 DEF DataInv, Current
  <2>2. ASSUME NEW n \in msgs
        PROVE  /\ n.type = "handleAck" =>
                    \A i \in 1 .. Len(n.copies) : Current(n.copies[i], n.page)'
               /\ n.type = "writeForward" => Current(n.To, n.page)'
               /\ n.type \in {"READ_ACK", "handleAck", "WRITE_ACK"} => Current(n.From, n.page)'
    <3>1. n.From \in Host
      BY MessageFields DEF TypeOK
    <3>2. QED
      BY <1>7, <1>8, <1>9, <3>1 DEF DataInv, Paged
  <2>3. \A h \in Host : \A q \in Page : \A o \in {"READ", "WRITE"} :
          Answered(h, o, q)' => Current(h, q)'
    BY <1>5, <1>7 DEF DataInv
  <2>4. QED
    BY <1>1, <1>4, <2>1, <2>2, <2>3 DEF DataInv
<1>18. QED
  BY <1>12, <1>13, <1>14, <1>15, <1>16, <1>17

-------------------------------------------------------------------------------
(* The manager *)

LEMMA HandleReadReqData ==
  ASSUME CoherenceInv, DataCoherenceInv, NEW m \in msgs, HandleReadReq(m)
  PROVE  DataCoherenceInv'
<1> USE DEF CoherenceInv, DataCoherenceInv
<1>1. m.type = "HandleReadReq"
  BY DEF HandleReadReq
<1>2. PICK new :
        /\ new = MsgTo("readForward", m.From, m.page, Head(copies[m.page]))
        /\ msgs' = (msgs \ {m}) \cup {new}
  BY DEF HandleReadReq, Replace
<1>3. new.type = "readForward" /\ new.page = m.page /\ new.To = Head(copies[m.page])
  BY <1>2 DEF MsgTo
<1>4. UNCHANGED <<app, access, mem, mpt, copies, writer, kept>>
  BY DEF HandleReadReq, history
<1>5. UNCHANGED writer
  BY DEF HandleReadReq
<1>6. \A g \in Host : \A o, q : Answered(g, o, q)' <=> Answered(g, o, q)
  BY <1>4 DEF Answered
<1>7. \A g, q : Current(g, q)' <=> Current(g, q)
  BY <1>4 DEF Current
<1>8. FreshInv'
  BY <1>2, <1>3, <1>4 DEF FreshInv, FreeCall
<1>9. OwnerInv'
  BY <1>2, <1>3, <1>4 DEF OwnerInv
<1>10. GivenInv'
  BY <1>2, <1>3, <1>4, <1>6 DEF GivenInv, Given
<1>11. WriterInv'
  <2>1. SingleWriter'
    BY <1>4 DEF WriterInv, SingleWriter
  <2>2. ASSUME NEW q \in Page, NEW g \in Host, access'[g][q] = "READ_WRITE"
        PROVE  MayWrite(g, q)'
    <3>1. MayWrite(g, q)
      BY <1>4, <2>2 DEF WriterInv
    <3>2. QED
      BY <1>1, <1>2, <1>4, <1>5, <1>6, <3>1 DEF MayWrite
  <2>3. QED
    BY <2>1, <2>2 DEF WriterInv
<1>12. QuietInv'
  BY <1>2, <1>3, <1>4, <1>6 DEF QuietInv, Still, NobodyWrites
<1>13. DataInv'
  BY <1>2, <1>3, <1>4, <1>6, <1>7 DEF DataInv
<1>14. QED
  BY <1>8, <1>9, <1>10, <1>11, <1>12, <1>13

\* The host that may write is the only copy, so it is sent an invalidation.
LEMMA HandleWriteReqData ==
  ASSUME CoherenceInv, DataCoherenceInv, NEW m \in msgs, HandleWriteReq(m)
  PROVE  DataCoherenceInv'
<1> USE DEF CoherenceInv, DataCoherenceInv
<1>1. m.type = "HandleWriteReq" /\ writer[m.page] = NoHost
  BY DEF HandleWriteReq, PageFree
<1>2. m \in Message /\ m.From \in Host /\ m.page \in Page
  BY <1>1, MessageFields DEF TypeOK, Paged
<1>3. PICK new :
        /\ new = {MsgTo("INVALIDATE_REQUEST", m.From, m.page, copies[m.page][i]) :
                    i \in DOMAIN copies[m.page]}
        /\ msgs' = (msgs \ {m}) \cup new
  BY DEF HandleWriteReq, Replace
<1>4. \A n \in new : n.type = "INVALIDATE_REQUEST"
  BY <1>3 DEF MsgTo
<1>5. \A q \in Page : q # m.page => writer'[q] = writer[q]
  BY DEF HandleWriteReq, TypeOK
<1>6. UNCHANGED <<app, access, mem, mpt, copies, readers, kept>>
  BY DEF HandleWriteReq, history
<1>7. \A g \in Host : \A o, q : Answered(g, o, q)' <=> Answered(g, o, q)
  BY <1>6 DEF Answered
<1>8. \A g, q : Current(g, q)' <=> Current(g, q)
  BY <1>6 DEF Current
<1>9. copies[m.page] \in Seq(Host) /\ copies[m.page] # <<>>
  <2>1. m.page \in mpt
    BY <1>1, <1>2, CallPage DEF WriteCall
  <2>2. QED
    BY <1>1, <1>2, <2>1 DEF CopyInv, TypeOK
<1>10. FreshInv'
  BY <1>3, <1>4, <1>6 DEF FreshInv, FreeCall
<1>11. OwnerInv'
  BY <1>3, <1>4, <1>6 DEF OwnerInv
<1>12. GivenInv'
  BY <1>3, <1>4, <1>6, <1>7 DEF GivenInv, Given
<1>13. WriterInv'
  <2>1. SingleWriter'
    BY <1>6 DEF WriterInv, SingleWriter
  <2>2. ASSUME NEW q \in Page, NEW g \in Host, access'[g][q] = "READ_WRITE"
        PROVE  MayWrite(g, q)'
    <3>1. MayWrite(g, q)
      BY <1>6, <2>2 DEF WriterInv
    <3>2. CASE q # m.page
      BY <1>1, <1>3, <1>5, <1>6, <1>7, <3>1, <3>2 DEF MayWrite
    <3>3. CASE q = m.page
      <4>1. 1 \in 1 .. Len(copies[q]) /\ 1 \in DOMAIN copies[q]
        BY <1>9, <3>3
      <4>2. copies[q][1] = g
        BY <3>1, <4>1 DEF MayWrite
      <4>3. MsgTo("INVALIDATE_REQUEST", m.From, q, g) \in msgs'
        BY <1>3, <3>3, <4>1, <4>2
      <4>4. \E n \in msgs' : n.type = "INVALIDATE_REQUEST" /\ n.page = q /\ n.To = g
        BY <4>3 DEF MsgTo
      <4>5. QED
        BY <1>6, <3>1, <4>4 DEF MayWrite
    <3>4. QED
      BY <3>2, <3>3
  <2>3. QED
    BY <2>1, <2>2 DEF WriterInv
<1>14. QuietInv'
  BY <1>3, <1>4, <1>6, <1>7 DEF QuietInv, Still, NobodyWrites
<1>15. DataInv'
  BY <1>3, <1>4, <1>6, <1>7, <1>8 DEF DataInv
<1>16. QED
  BY <1>10, <1>11, <1>12, <1>13, <1>14, <1>15

\* When the last invalidation is answered nobody may write.
LEMMA HandleInvalidateReplyData ==
  ASSUME CoherenceInv, DataCoherenceInv, NEW m \in msgs, HandleInvalidateReply(m)
  PROVE  DataCoherenceInv'
<1> USE DEF CoherenceInv, DataCoherenceInv
<1>1. m.type = "INVALIDATE_REPLY"
  BY DEF HandleInvalidateReply
<1>2. m \in Message /\ m.From \in Host /\ m.page \in Page
  BY <1>1, MessageFields DEF TypeOK, Paged
<1>3. copies[m.page] \in Seq(Host) /\ copies[m.page] # <<>>
  <2>1. copies[m.page] \in Seq(Host)
    BY <1>2 DEF TypeOK
  <2>2. QED
    BY <1>1, <1>2, <2>1, SomeInvalidation DEF Invalidating
<1>4. /\ copies'[m.page] = Tail(copies[m.page])
      /\ \A q \in Page : q # m.page => copies'[q] = copies[q]
  BY <1>2 DEF HandleInvalidateReply, TypeOK
<1>5. \A i \in 1 .. Len(copies'[m.page]) :
        i + 1 \in 1 .. Len(copies[m.page]) /\ copies'[m.page][i] = copies[m.page][i + 1]
  BY <1>3, <1>4
<1>6. PICK new :
        /\ new = IF LastCopy(m.page)
                 THEN {MsgTo("writeForward", m.From, m.page, Head(copies[m.page]))}
                 ELSE {}
        /\ msgs' = (msgs \ {m}) \cup new
  BY DEF HandleInvalidateReply, Replace
<1>7. \A n \in new :
        /\ n.type = "writeForward" /\ n.From = m.From /\ n.page = m.page
        /\ n.To = Head(copies[m.page])
  BY <1>6 DEF MsgTo
<1>8. new # {} => Len(copies[m.page]) = 1 /\ Invalidations(m.page) = {m}
  BY <1>1, <1>2, <1>6, LastInvalidation DEF Invalidating, LastCopy
<1>9. UNCHANGED <<app, access, mem, mpt, readers, writer, kept>>
  BY DEF HandleInvalidateReply, history
<1>10. \A n \in msgs : n.type \in Paged => n.page \in Page
  BY MessageFields DEF TypeOK
<1>11. \A g \in Host : \A o, q : Answered(g, o, q)' <=> Answered(g, o, q)
  BY <1>9 DEF Answered
<1>12. \A g, q : Current(g, q)' <=> Current(g, q)
  BY <1>9 DEF Current
<1>13. writer[m.page] = m.From /\ readers[m.page] = {}
  BY <1>1, <1>2, NoHostAssumption DEF LockInv, Writing, Invalidating
<1>14. \A n \in msgs : n.type \in Reading \cup Given => n.page # m.page
  <2>1. \A n \in msgs : n.type \in Given /\ n.page = m.page => n.From = m.From
    BY <1>13 DEF LockInv, Given, Writing
  <2>2. \A n \in msgs : n.type \in Given => n.page # m.page
    BY <1>1, <2>1 DEF OneCallInv, OneAckInv, Given, Call, WriteCall, Writing, Invalidating
  <2>3. QED
    BY <1>13, <2>2 DEF LockInv
<1>15. \A h \in Host : \A op \in {"READ", "WRITE"} : ~Answered(h, op, m.page)
  <2>1. app[m.From] = Blocked("WRITE", m.page)
    BY <1>1 DEF CallInv, WriteCall, Invalidating
  <2>2. QED
    BY <1>2, <1>13, <2>1 DEF LockInv, Answered, Blocked
<1>16. FreshInv'
  BY <1>6, <1>7, <1>9 DEF FreshInv, FreeCall
<1>17. OwnerInv'
  BY <1>4, <1>6, <1>7, <1>10, <1>14 DEF OwnerInv, Reading, ReadAck, Paged
<1>18. GivenInv'
  <2>1. ASSUME new # {} PROVE copies'[m.page] = <<>>
    <3>1. Tail(copies[m.page]) \in Seq(Host) /\ Len(Tail(copies[m.page])) = 0
      BY <1>3, <1>8, <2>1
    <3>2. \A s \in Seq(Host) : Len(s) = 0 => s = <<>>
      OBVIOUS
    <3>3. QED
      BY <1>4, <3>1, <3>2
  <2>2. QED
    BY <1>4, <1>6, <1>7, <1>10, <1>11, <1>14, <1>15, <2>1 DEF GivenInv, Given, Paged
<1>19. WriterInv'
  <2>1. SingleWriter'
    BY <1>9 DEF WriterInv, SingleWriter
  <2>2. ASSUME NEW q \in Page, NEW g \in Host, access'[g][q] = "READ_WRITE"
        PROVE  MayWrite(g, q)'
    <3>1. MayWrite(g, q)
      BY <1>9, <2>2 DEF WriterInv
    <3>2. \A i \in 1 .. Len(copies'[q]) : copies'[q][i] = g
      BY <1>4, <1>5, <3>1 DEF MayWrite
    <3>3. QED
      BY <1>1, <1>6, <1>9, <1>11, <3>1, <3>2 DEF MayWrite
  <2>3. QED
    BY <2>1, <2>2 DEF WriterInv
<1>20. QuietInv'
  <2>1. ASSUME new # {} PROVE NobodyWrites(m.page)
    <3> SUFFICES ASSUME NEW g \in Host, access[g][m.page] = "READ_WRITE" PROVE FALSE
      BY DEF NobodyWrites
    <3>1. MayWrite(g, m.page)
      BY <1>2 DEF WriterInv
    <3>2. PICK n \in msgs : n.type = "INVALIDATE_REQUEST" /\ n.page = m.page
      BY <1>2, <1>13, <1>14, <1>15, <3>1, NoHostAssumption DEF MayWrite, Given
    <3>3. n \in Invalidations(m.page)
      BY <3>2 DEF Invalidations, Invalidating
    <3>4. QED
      BY <1>1, <1>8, <2>1, <3>2, <3>3
  <2>2. QED
    BY <1>6, <1>7, <1>9, <1>11, <2>1 DEF QuietInv, Still, NobodyWrites
<1>21. DataInv'
  <2>1. \A q \in Page : \A i \in 1 .. Len(copies'[q]) : \A g :
          g = copies'[q][i] => Current(g, q)
    <3>1. \A i \in 1 .. Len(copies'[m.page]) : \A g :
            g = copies'[m.page][i] => Current(g, m.page)
      BY <1>2, <1>5 DEF DataInv
    <3>2. ASSUME NEW q \in Page, q # m.page
          PROVE  \A i \in 1 .. Len(copies'[q]) : \A g : g = copies'[q][i] => Current(g, q)
      BY <1>4, <3>2 DEF DataInv
    <3>3. QED
      BY <3>1, <3>2
  <2>2. \A n \in new : Current(n.To, n.page)
    <3>1. Head(copies[m.page]) = copies[m.page][1] /\ 1 \in 1 .. Len(copies[m.page])
      BY <1>3
    <3>2. QED
      BY <1>2, <1>7, <3>1 DEF DataInv
  <2>3. QED
    BY <1>6, <1>7, <1>9, <1>11, <2>1, <2>2 DEF DataInv, Current
<1>22. QED
  BY <1>16, <1>17, <1>18, <1>19, <1>20, <1>21

LEMMA BeginReadAckData ==
  ASSUME CoherenceInv, DataCoherenceInv, NEW m \in msgs, BeginReadAck(m)
  PROVE  DataCoherenceInv'
<1> USE DEF CoherenceInv, DataCoherenceInv
<1>1. m.type = "READ_ACK"
  BY DEF BeginReadAck
<1>2. m \in Message /\ m.From \in Host /\ m.page \in Page
  BY <1>1, MessageFields DEF TypeOK, Paged
<1>3. PICK new :
        /\ new = [type |-> "handleAck", From |-> m.From, page |-> m.page,
                   copies |-> copies[m.page]]
        /\ msgs' = (msgs \ {m}) \cup {new}
  BY DEF BeginReadAck, Replace
<1>4. /\ new.type = "handleAck" /\ new.From = m.From /\ new.page = m.page
      /\ new.copies = copies[m.page]
  BY <1>3
<1>5. UNCHANGED <<app, access, mem, mpt, copies, readers, writer, kept>>
  BY DEF BeginReadAck, manager, history
<1>6. \A g \in Host : \A o, q : Answered(g, o, q)' <=> Answered(g, o, q)
  BY <1>5 DEF Answered
<1>7. \A g, q : Current(g, q)' <=> Current(g, q)
  BY <1>5 DEF Current
<1>8. copies[m.page] # <<>>
  BY <1>1, <1>2 DEF LockInv, Reading, ReadAck, PageFree, CopyInv
<1>9. \A g : Current(g, m.page)' <=> Current(g, m.page)
  BY <1>7
<1>10. FreshInv'
  BY <1>3, <1>4, <1>5 DEF FreshInv, FreeCall
<1>11. OwnerInv'
  BY <1>3, <1>4, <1>5, <1>8 DEF OwnerInv
<1>12. GivenInv'
  BY <1>3, <1>4, <1>5, <1>6 DEF GivenInv, Given
<1>13. WriterInv'
  <2>1. SingleWriter'
    BY <1>5 DEF WriterInv, SingleWriter
  <2>2. ASSUME NEW q \in Page, NEW g \in Host, access'[g][q] = "READ_WRITE"
        PROVE  MayWrite(g, q)'
    <3>1. MayWrite(g, q)
      BY <1>5, <2>2 DEF WriterInv
    <3>2. QED
      BY <1>1, <1>3, <1>5, <1>6, <3>1 DEF MayWrite
  <2>3. QED
    BY <2>1, <2>2 DEF WriterInv
<1>14. QuietInv'
  BY <1>1, <1>3, <1>4, <1>5, <1>6 DEF QuietInv, Still, NobodyWrites
<1>15. DataInv'
  <2>1. /\ \A i \in 1 .. Len(new.copies) : \A g : g = new.copies[i] => Current(g, new.page)
        /\ Current(new.From, new.page)
    BY <1>1, <1>2, <1>4 DEF DataInv
  <2>2. QED
    BY <1>3, <1>4, <1>5, <1>6, <2>1 DEF DataInv, Current
<1>16. QED
  BY <1>10, <1>11, <1>12, <1>13, <1>14, <1>15

\* The copy set that an acknowledgement leaves has the same owner, and current
\* copies, even if it has lost one.
LEMMA HandleReadAckData ==
  ASSUME CoherenceInv, DataCoherenceInv, NEW m \in msgs, HandleReadAck(m)
  PROVE  DataCoherenceInv'
<1> USE DEF CoherenceInv, DataCoherenceInv
<1>1. m.type = "handleAck" /\ msgs' = msgs \ {m}
  BY DEF HandleReadAck
<1>2. m \in Message /\ m.From \in Host /\ m.page \in Page /\ m.copies \in Seq(Host)
  BY <1>1, MessageFields DEF TypeOK, Paged
<1>3. writer[m.page] = NoHost /\ m.page \in mpt
  BY <1>1, <1>2 DEF LockInv, Reading, ReadAck, PageFree
<1>4. m.copies # <<>> /\ Head(m.copies) = Head(copies[m.page])
  BY <1>1 DEF OwnerInv
<1>5. PICK cs :
        /\ cs = WithCopy(m.copies, m.From)
        /\ Head(cs) = Head(m.copies)
        /\ \A i \in 1 .. Len(cs) :
             cs[i] = m.From \/ (i \in 1 .. Len(m.copies) /\ cs[i] = m.copies[i])
  <2>1. /\ Head(WithCopy(m.copies, m.From)) = Head(m.copies)
        /\ \A i \in 1 .. Len(WithCopy(m.copies, m.From)) :
             \/ WithCopy(m.copies, m.From)[i] = m.From
             \/ i \in 1 .. Len(m.copies) /\ WithCopy(m.copies, m.From)[i] = m.copies[i]
    BY <1>2, <1>4, CopyAdded
  <2>2. QED
    BY <2>1
<1>6. \/ copies' = copies
      \/ /\ copies'[m.page] = cs
         /\ \A q \in Page : q # m.page => copies'[q] = copies[q]
  BY <1>2, <1>5 DEF HandleReadAck, TypeOK
<1>7. /\ Head(copies'[m.page]) = Head(copies[m.page])
      /\ \A q \in Page : q # m.page => copies'[q] = copies[q]
  BY <1>4, <1>5, <1>6
<1>8. UNCHANGED <<app, access, mem, mpt, writer, kept>>
  BY DEF HandleReadAck, history
<1>9. \A g \in Host : \A o, q : Answered(g, o, q)' <=> Answered(g, o, q)
  BY <1>8 DEF Answered
<1>10. \A g, q : Current(g, q)' <=> Current(g, q)
  BY <1>8 DEF Current
<1>11. \A n \in msgs : n.type \in Paged => n.page \in Page
  BY MessageFields DEF TypeOK
<1>12. NobodyWrites(m.page)
  BY <1>1 DEF QuietInv, Still
<1>13. /\ \A n \in msgs : n.type \in Given => n.page # m.page
       /\ \A h \in Host : ~Answered(h, "WRITE", m.page)
  <2>1. \A n \in msgs : n.From \in Host
    BY MessageFields DEF TypeOK
  <2>2. QED
    BY <1>2, <1>3, <2>1, NoHostAssumption DEF LockInv, Writing, Given
<1>14. FreshInv'
  BY <1>1, <1>8 DEF FreshInv, FreeCall
<1>15. OwnerInv'
  BY <1>1, <1>7, <1>11 DEF OwnerInv, Paged
<1>16. GivenInv'
  BY <1>1, <1>7, <1>9, <1>11, <1>13 DEF GivenInv, Given, Paged
<1>17. WriterInv'
  <2>1. SingleWriter'
    BY <1>8 DEF WriterInv, SingleWriter
  <2>2. ASSUME NEW q \in Page, NEW g \in Host, access'[g][q] = "READ_WRITE"
        PROVE  MayWrite(g, q)'
    <3>1. MayWrite(g, q) /\ q # m.page
      BY <1>8, <1>12, <2>2 DEF WriterInv, NobodyWrites
    <3>2. QED
      BY <1>1, <1>7, <1>8, <1>9, <3>1 DEF MayWrite
  <2>3. QED
    BY <2>1, <2>2 DEF WriterInv
<1>18. QuietInv'
  BY <1>1, <1>8, <1>9 DEF QuietInv, Still, NobodyWrites
<1>19. DataInv'
  <2>1. /\ \A i \in 1 .. Len(m.copies) : Current(m.copies[i], m.page)
        /\ Current(m.From, m.page)
    BY <1>1 DEF DataInv
  <2>2. \A i \in 1 .. Len(copies'[m.page]) : \A g : g = copies'[m.page][i] => Current(g, m.page)
    <3>1. CASE copies' = copies
      BY <1>2, <3>1 DEF DataInv
    <3>2. CASE copies'[m.page] = cs
      BY <1>5, <2>1, <3>2
    <3>3. QED
      BY <1>6, <3>1, <3>2
  <2>3. \A q \in Page : \A i \in 1 .. Len(copies'[q]) : \A g :
          g = copies'[q][i] => Current(g, q)
    BY <1>7, <2>2 DEF DataInv
  <2>4. QED
    BY <1>1, <1>8, <1>9, <2>3 DEF DataInv, Current
<1>20. QED
  BY <1>14, <1>15, <1>16, <1>17, <1>18, <1>19

\* The host that has written is the only copy.
LEMMA HandleWriteAckData ==
  ASSUME CoherenceInv, DataCoherenceInv, NEW m \in msgs, HandleWriteAck(m)
  PROVE  DataCoherenceInv'
<1> USE DEF CoherenceInv, DataCoherenceInv
<1>1. m.type = "WRITE_ACK" /\ msgs' = msgs \ {m}
  BY DEF HandleWriteAck
<1>2. m \in Message /\ m.From \in Host /\ m.page \in Page
  BY <1>1, MessageFields DEF TypeOK, Paged
<1>3. writer[m.page] = m.From /\ readers[m.page] = {} /\ copies[m.page] = <<>>
  BY <1>1, <1>2, NoHostAssumption DEF LockInv, Writing, GivenInv, Given
<1>4. /\ copies'[m.page] = <<m.From>>
      /\ \A q \in Page : q # m.page => copies'[q] = copies[q]
  <2>1. copies[m.page] \in Seq(Host)
    BY <1>2 DEF TypeOK
  <2>2. WithCopy(copies[m.page], m.From) = <<m.From>>
    BY <1>2, <1>3, <2>1, CopyAdded
  <2>3. QED
    BY <1>2, <2>2 DEF HandleWriteAck, TypeOK
<1>5. /\ writer'[m.page] = NoHost
      /\ \A q \in Page : q # m.page => writer'[q] = writer[q]
  BY <1>2 DEF HandleWriteAck, TypeOK
<1>6. UNCHANGED <<app, access, mem, mpt, readers, kept>>
  BY DEF HandleWriteAck, history
<1>7. \A g \in Host : \A o, q : Answered(g, o, q)' <=> Answered(g, o, q)
  BY <1>6 DEF Answered
<1>8. \A g, q : Current(g, q)' <=> Current(g, q)
  BY <1>6 DEF Current
<1>9. \A n \in msgs : n.type \in Paged => n.page \in Page
  BY MessageFields DEF TypeOK
<1>10. \A n \in msgs : n.type \in Writing /\ n.page = m.page => n = m
  BY <1>1, <1>3 DEF OneAckInv, LockInv
<1>11. \A n \in msgs : n.type \in Reading => n.page # m.page
  BY <1>3 DEF LockInv
<1>12. \A h \in Host : ~Answered(h, "WRITE", m.page)
  BY <1>1, <1>2, <1>3 DEF LockInv, OneAckInv
<1>13. FreshInv'
  BY <1>1, <1>6 DEF FreshInv, FreeCall
<1>14. OwnerInv'
  BY <1>1, <1>4, <1>9, <1>11 DEF OwnerInv, Reading, ReadAck, Paged
<1>15. GivenInv'
  BY <1>1, <1>4, <1>7, <1>9, <1>10, <1>12 DEF GivenInv, Given, Writing, Paged
<1>16. WriterInv'
  <2>1. SingleWriter'
    BY <1>6 DEF WriterInv, SingleWriter
  <2>2. ASSUME NEW q \in Page, NEW g \in Host, access'[g][q] = "READ_WRITE"
        PROVE  MayWrite(g, q)'
    <3>1. MayWrite(g, q)
      BY <1>6, <2>2 DEF WriterInv
    <3>2. CASE q # m.page
      BY <1>1, <1>4, <1>5, <1>7, <3>1, <3>2 DEF MayWrite
    <3>3. CASE q = m.page
      <4>1. ~\E n \in msgs : n.type = "INVALIDATE_REQUEST" /\ n.page = q
        BY <1>1, <1>10, <3>3 DEF Writing, Invalidating
      <4>2. g = m.From
        BY <1>2, <1>3, <3>1, <3>3, <4>1, NoHostAssumption DEF MayWrite
      <4>3. QED
        BY <1>4, <1>5, <3>3, <4>2 DEF MayWrite
    <3>4. QED
      BY <3>2, <3>3
  <2>3. QED
    BY <2>1, <2>2 DEF WriterInv
<1>17. QuietInv'
  BY <1>1, <1>6, <1>7 DEF QuietInv, Still, NobodyWrites
<1>18. DataInv'
  <2>1. Current(m.From, m.page)
    BY <1>1 DEF DataInv
  <2>2. \A q \in Page : \A i \in 1 .. Len(copies'[q]) : \A g :
          g = copies'[q][i] => Current(g, q)
    BY <1>4, <2>1 DEF DataInv
  <2>3. QED
    BY <1>1, <1>6, <1>7, <2>2 DEF DataInv, Current
<1>19. QED
  BY <1>13, <1>14, <1>15, <1>16, <1>17, <1>18

LEMMA HandleAllocData ==
  ASSUME CoherenceInv, DataCoherenceInv, NEW m \in msgs, NEW p \in Page, HandleAlloc(m, p)
  PROVE  DataCoherenceInv'
<1> USE DEF CoherenceInv, DataCoherenceInv
<1>1. m.type = "HandleAlloc" /\ p \notin mpt /\ mpt' = mpt \cup {p}
  BY DEF HandleAlloc
<1>2. PICK new :
        /\ msgs' = (msgs \ {m}) \cup {new}
        /\ new = [type |-> "MALLOC_REPLY", From |-> m.From, page |-> p]
  BY DEF HandleAlloc, Replace
<1>3. new.type = "MALLOC_REPLY"
  BY <1>2
<1>4. /\ copies'[p] = <<m.From>> /\ kept'[p] = {}
      /\ \A q \in Page : q # p => copies'[q] = copies[q] /\ kept'[q] = kept[q]
  BY DEF HandleAlloc, TypeOK
<1>5. UNCHANGED <<app, access, mem, readers, writer>>
  BY DEF HandleAlloc
<1>6. \A g \in Host : \A o, q : Answered(g, o, q)' <=> Answered(g, o, q)
  BY <1>5 DEF Answered
<1>7. \A n \in msgs : n.type \in Paged => n.page \in Page
  BY MessageFields DEF TypeOK
<1>8. \A q \in Page : \A g :
        /\ Current(g, q) => Current(g, q)'
        /\ q = p => Current(g, q)'
  BY <1>4, <1>5 DEF Current
<1>9. NobodyWrites(p)
  BY <1>1 DEF FreshInv, NobodyWrites
<1>10. /\ \A n \in msgs : n.type \in Reading \cup Given => n.page # p
       /\ \A h \in Host : ~Answered(h, "WRITE", p)
  <2>1. writer[p] = NoHost /\ readers[p] = {}
    BY <1>1 DEF LockInv, PageFree
  <2>2. \A n \in msgs : n.From \in Host
    BY MessageFields DEF TypeOK
  <2>3. QED
    BY <2>1, <2>2, NoHostAssumption DEF LockInv, Given, Writing
<1>11. FreshInv'
  BY <1>1, <1>2, <1>3, <1>5 DEF FreshInv, FreeCall
<1>12. OwnerInv'
  BY <1>2, <1>3, <1>4, <1>7, <1>10 DEF OwnerInv, Reading, ReadAck, Paged
<1>13. GivenInv'
  BY <1>2, <1>3, <1>4, <1>6, <1>7, <1>10 DEF GivenInv, Given, Paged
<1>14. WriterInv'
  <2>1. SingleWriter'
    BY <1>5 DEF WriterInv, SingleWriter
  <2>2. ASSUME NEW q \in Page, NEW g \in Host, access'[g][q] = "READ_WRITE"
        PROVE  MayWrite(g, q)'
    <3>1. MayWrite(g, q) /\ q # p
      BY <1>5, <1>9, <2>2 DEF WriterInv, NobodyWrites
    <3>2. QED
      BY <1>1, <1>2, <1>4, <1>5, <1>6, <3>1 DEF MayWrite
  <2>3. QED
    BY <2>1, <2>2 DEF WriterInv
<1>15. QuietInv'
  BY <1>2, <1>3, <1>5, <1>6 DEF QuietInv, Still, NobodyWrites
<1>16. DataInv'
  <2>1. \A q \in Page : \A i \in 1 .. Len(copies'[q]) : \A g :
          g = copies'[q][i] => Current(g, q)'
    BY <1>4, <1>8 DEF DataInv
  <2>2. \A n \in msgs : n.type \in {"READ_REPLY", "WRITE_REPLY"} => kept'[n.page] \subseteq n.data
    BY <1>4, <1>7 DEF DataInv, Paged
  <2>3. \A n \in msgs' :
          /\ n.type = "handleAck" => \A i \in 1 .. Len(n.copies) : Current(n.copies[i], n.page)'
          /\ n.type = "writeForward" => Current(n.To, n.page)'
          /\ n.type \in {"READ_ACK", "handleAck", "WRITE_ACK"} => Current(n.From, n.page)'
    BY <1>2, <1>3, <1>7, <1>8 DEF DataInv, Paged
  <2>4. \A h \in Host : \A q \in Page : \A op \in {"READ", "WRITE"} :
          Answered(h, op, q)' => Current(h, q)'
    BY <1>6, <1>8 DEF DataInv
  <2>5. QED
    BY <1>2, <1>3, <2>1, <2>2, <2>3, <2>4 DEF DataInv, Current
<1>17. QED
  BY <1>11, <1>12, <1>13, <1>14, <1>15, <1>16

-------------------------------------------------------------------------------
(* Theorems *)

LEMMA DataCoherenceStutter ==
  ASSUME DataCoherenceInv, UNCHANGED vars
  PROVE  DataCoherenceInv'
<1>1. UNCHANGED <<app, access, mem, msgs, mpt, copies, writer, kept>>
  BY DEF vars, manager, history
<1>2. \A g \in Host : \A op, p : Answered(g, op, p)' <=> Answered(g, op, p)
  BY <1>1 DEF Answered
<1>3. QED
  BY <1>1, <1>2, SilentStep

LEMMA DataCoherenceStep ==
  ASSUME ~MayFree
  PROVE  CoherenceInv /\ DataCoherenceInv /\ [Next]_vars => DataCoherenceInv'
<1> SUFFICES ASSUME CoherenceInv, DataCoherenceInv, [Next]_vars PROVE DataCoherenceInv'
  OBVIOUS
<1>1. CASE UNCHANGED vars
  BY <1>1, DataCoherenceStutter
<1>2. ASSUME NEW h \in Host, Program(h) PROVE DataCoherenceInv'
  <2>1. \A p \in Page : ~Free(h, p)
    BY DEF Free
  <2>2. QED
    BY <1>2, <2>1, SilentProgram, AcknowledgeData, StoreData DEF Program
<1>3. ASSUME NEW m \in msgs, messageHandler(m) PROVE DataCoherenceInv'
  <2>1. ~ReceiveFreeReply(m)
    BY DEF DataCoherenceInv, FreshInv, FreeCall, ReceiveFreeReply
  <2>2. QED
    BY <1>3, <2>1, SilentHandler, ServeReadData, ServeWriteData, InvalidateData,
       ReceiveReplyData DEF messageHandler
<1>4. ASSUME NEW m \in msgs, HandleMessage(m) PROVE DataCoherenceInv'
  <2>1. ~BeginFree(m) /\ ~HandleFree(m)
    BY DEF DataCoherenceInv, FreshInv, FreeCall, BeginFree, HandleFree
  <2>2. QED
    BY <1>4, <2>1, SilentHandler, HandleReadReqData, HandleWriteReqData,
       HandleInvalidateReplyData, BeginReadAckData, HandleReadAckData, HandleWriteAckData,
       HandleAllocData DEF HandleMessage
<1>5. QED
  BY <1>1, <1>2, <1>3, <1>4 DEF Next

\* As long as no page is freed, rights and copies stay as the inductive invariant
\* says.
THEOREM DataCoherenceInvariance ==
  ASSUME ~MayFree
  PROVE  Spec => []DataCoherenceInv
<1>1. Init => DataCoherenceInv
  BY DataCoherenceInit
<1>2. CoherenceInv /\ DataCoherenceInv /\ [Next]_vars => DataCoherenceInv'
  BY DataCoherenceStep
<1>3. QED
  BY <1>1, <1>2, CoherenceInvariance, PTL DEF Spec

\* Two hosts never have READ_WRITE access to one page: the manager's lock and the
\* invalidations keep the second out until the first has lost the right.
THEOREM SingleWriterCorrect ==
  ASSUME ~MayFree
  PROVE  Spec => []SingleWriter
<1>1. DataCoherenceInv => SingleWriter
  BY DEF DataCoherenceInv, WriterInv
<1>2. QED
  BY <1>1, DataCoherenceInvariance, PTL

\* Every host that the manager may forward a request to has all that was stored
\* with the right to store, although acknowledgements of reads may overwrite each
\* other's copy sets.
THEOREM CopysetCurrentCorrect ==
  ASSUME ~MayFree
  PROVE  Spec => []CopysetCurrent
<1>1. ASSUME CoherenceInv, DataCoherenceInv PROVE CopysetCurrent
  <2> SUFFICES ASSUME NEW p \in mpt, NEW i \in DOMAIN copies[p]
               PROVE  kept[p] \subseteq mem[copies[p][i]][p]
    BY DEF CopysetCurrent
  <2>1. p \in Page /\ i \in 1 .. Len(copies[p])
    BY <1>1 DEF CoherenceInv, TypeOK
  <2>2. QED
    BY <1>1, <2>1 DEF DataCoherenceInv, DataInv, Current
<1>2. QED
  BY <1>1, CoherenceInvariance, DataCoherenceInvariance, PTL
===============================================================================
