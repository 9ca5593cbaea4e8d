----------------------------- MODULE TMLock_proofs ----------------------------
(***************************************************************************)
(* Proofs about TMLock for every set of nodes, every set of locks and      *)
(* every bound on the intervals.                                           *)
(***************************************************************************)
EXTENDS TMLockInv, SequenceTheorems, TLAPS

-------------------------------------------------------------------------------
(* The algebra of the vector timestamps, for any set of processes: covers  *)
(* is a partial order, merge its least upper bound and meet its greatest   *)
(* lower bound, and increment makes a timestamp strictly later.            *)

\* The operations return timestamps (timestamp.go: increment, merge, min).
LEMMA TimestampType ==
  ASSUME NEW P, NEW t \in [P -> Nat], NEW o \in [P -> Nat], NEW p \in P
  PROVE  /\ NewTimestamp(P) \in [P -> Nat]
         /\ increment(t, p) \in [P -> Nat]
         /\ merge(t, o) \in [P -> Nat]
         /\ meet(t, o) \in [P -> Nat]
  BY DEF NewTimestamp, increment, merge, meet

\* covers is a partial order on the timestamps of one set of processes.
THEOREM CoversOrder ==
  ASSUME NEW P, NEW t \in [P -> Nat], NEW o \in [P -> Nat], NEW u \in [P -> Nat]
  PROVE  /\ covers(t, t)
         /\ covers(t, o) /\ covers(o, t) => t = o
         /\ covers(t, o) /\ covers(o, u) => covers(t, u)
<1>1. covers(t, t)
  BY DEF covers
<1>2. ASSUME covers(t, o), covers(o, t) PROVE t = o
  <2>1. \A i \in P : t[i] = o[i]
    BY <1>2 DEF covers
  <2>2. QED
    BY <2>1
<1>3. covers(t, o) /\ covers(o, u) => covers(t, u)
  BY DEF covers
<1>4. QED
  BY <1>1, <1>2, <1>3

\* merge is the least timestamp that covers both, meet the greatest one that
\* both cover: what addInterval and createDiffRequests take them for.
THEOREM MergeMeetBounds ==
  ASSUME NEW P, NEW t \in [P -> Nat], NEW o \in [P -> Nat], NEW u \in [P -> Nat]
  PROVE  /\ covers(merge(t, o), t) /\ covers(merge(t, o), o)
         /\ covers(u, t) /\ covers(u, o) => covers(u, merge(t, o))
         /\ covers(t, meet(t, o)) /\ covers(o, meet(t, o))
         /\ covers(t, u) /\ covers(o, u) => covers(meet(t, o), u)
  BY DEF covers, merge, meet

\* A new interval's timestamp is later than all its process had seen.
THEOREM IncrementLater ==
  ASSUME NEW P, NEW t \in [P -> Nat], NEW p \in P
  PROVE  covers(increment(t, p), t) /\ ~covers(t, increment(t, p))
  BY DEF covers, increment

-------------------------------------------------------------------------------
(* Queues *)

\* Taking a message moves the others of its queue one place forward.
LEMMA TakenQueue ==
  ASSUME NEW nw \in Network, NEW q \in Node, NEW p \in Node, nw[q][p] # <<>>
  PROVE  /\ Taken(nw, q, p) \in Network
         /\ Head(nw[q][p]) \in Message
         /\ Head(nw[q][p]) = nw[q][p][1]
         /\ 1 \in 1 .. Len(nw[q][p])
         /\ \A a, b \in Node : ~(a = q /\ b = p) => Taken(nw, q, p)[a][b] = nw[a][b]
         /\ \A j \in 1 .. Len(Taken(nw, q, p)[q][p]) :
              /\ j \in Nat
              /\ j + 1 \in 1 .. Len(nw[q][p])
              /\ Taken(nw, q, p)[q][p][j] = nw[q][p][j + 1]
<1> DEFINE s == nw[q][p]
<1>1. s \in Seq(Message)
  BY DEF Network
<1>2. /\ Head(s) \in Message /\ Head(s) = s[1] /\ 1 \in 1 .. Len(s)
      /\ Tail(s) \in Seq(Message)
      /\ \A j \in 1 .. Len(Tail(s)) :
           j \in Nat /\ j + 1 \in 1 .. Len(s) /\ Tail(s)[j] = s[j + 1]
  BY <1>1
<1>3. Taken(nw, q, p) \in Network
  BY <1>2 DEF Taken, Network
<1>4. /\ Taken(nw, q, p)[q][p] = Tail(s)
      /\ \A a, b \in Node : ~(a = q /\ b = p) => Taken(nw, q, p)[a][b] = nw[a][b]
  BY DEF Taken, Network
<1>5. QED
  BY <1>2, <1>3, <1>4

\* Sending adds one message at the end of one queue.
LEMMA SentQueue ==
  ASSUME NEW nw \in Network, NEW p \in Node, NEW n \in Node, NEW m \in Message
  PROVE  /\ Sent(nw, p, n, m) \in Network
         /\ \A a, b \in Node :
              Sent(nw, p, n, m)[a][b]
                = IF a = p /\ b = n THEN Append(nw[a][b], m) ELSE nw[a][b]
  BY DEF Sent, Network

LEMMA TakenHas ==
  ASSUME NEW nw \in Network, NEW q \in Node, NEW p \in Node, nw[q][p] # <<>>,
         NEW t, t = Taken(nw, q, p), NEW S
  PROVE  /\ Has(t, S) => Has(nw, S)
         /\ One(nw, S) => One(t, S)
         /\ Head(nw[q][p]) \in S[p] => Has(nw, S)
         /\ One(nw, S) /\ Head(nw[q][p]) \in S[p] => ~Has(t, S)
<1>0. /\ Head(nw[q][p]) = nw[q][p][1] /\ 1 \in 1 .. Len(nw[q][p])
      /\ \A a, b \in Node : ~(a = q /\ b = p) => t[a][b] = nw[a][b]
      /\ \A j \in 1 .. Len(t[q][p]) :
           /\ j \in Nat
           /\ j + 1 \in 1 .. Len(nw[q][p])
           /\ t[q][p][j] = nw[q][p][j + 1]
  BY TakenQueue
\* Every message of t has a place of its own in nw, not the first of the queue.
<1>1. \A a, b \in Node : \A j \in 1 .. Len(t[a][b]) : \E i \in 1 .. Len(nw[a][b]) :
        /\ t[a][b][j] = nw[a][b][i]
        /\ i = IF a = q /\ b = p THEN j + 1 ELSE j
        /\ ~(a = q /\ b = p /\ i = 1)
  BY <1>0
<1>2. Has(t, S) => Has(nw, S)
  BY <1>1 DEF Has
<1>3. ASSUME One(nw, S) PROVE One(t, S)
  <2> USE DEF One
  <2> TAKE q1, q2, n1, n2 \in Node
  <2> TAKE j1 \in 1 .. Len(t[q1][n1])
  <2> TAKE j2 \in 1 .. Len(t[q2][n2])
  <2> HAVE t[q1][n1][j1] \in S[n1] /\ t[q2][n2][j2] \in S[n2]
  <2> HIDE DEF One
  <2>1. PICK i1 \in 1 .. Len(nw[q1][n1]) :
          /\ t[q1][n1][j1] = nw[q1][n1][i1]
          /\ i1 = IF q1 = q /\ n1 = p THEN j1 + 1 ELSE j1
    BY <1>1
  <2>2. PICK i2 \in 1 .. Len(nw[q2][n2]) :
          /\ t[q2][n2][j2] = nw[q2][n2][i2]
          /\ i2 = IF q2 = q /\ n2 = p THEN j2 + 1 ELSE j2
    BY <1>1
  <2>3. nw[q1][n1][i1] \in S[n1]
    BY <2>1
  <2>4. nw[q2][n2][i2] \in S[n2]
    BY <2>2
  <2>5. q1 = q2 /\ n1 = n2 /\ i1 = i2
    BY <1>3, <2>3, <2>4 DEF One
  <2>6. QED
    BY <2>1, <2>2, <2>5
<1>4. Head(nw[q][p]) \in S[p] => Has(nw, S)
  BY <1>0 DEF Has
<1>5. ASSUME One(nw, S), Head(nw[q][p]) \in S[p], Has(t, S)
      PROVE  FALSE
  <2>1. PICK a \in Node, b \in Node : \E j \in 1 .. Len(t[a][b]) : t[a][b][j] \in S[b]
    BY <1>5 DEF Has
  <2>2. PICK j \in 1 .. Len(t[a][b]) : t[a][b][j] \in S[b]
    BY <2>1
  <2>3. PICK i \in 1 .. Len(nw[a][b]) :
          t[a][b][j] = nw[a][b][i] /\ ~(a = q /\ b = p /\ i = 1)
    BY <1>1
  <2>4. nw[a][b][i] \in S[b] /\ nw[q][p][1] \in S[p]
    BY <1>0, <1>5, <2>2, <2>3
  <2>5. QED
    BY <1>0, <1>5, <2>3, <2>4 DEF One
<1>6. QED
  BY <1>2, <1>3, <1>4, <1>5

LEMMA SentHas ==
  ASSUME NEW nw \in Network, NEW p \in Node, NEW n \in Node, NEW m \in Message,
         NEW t, t = Sent(nw, p, n, m), NEW S
  PROVE  /\ Has(t, S) => Has(nw, S) \/ m \in S[n]
         /\ One(nw, S) /\ m \notin S[n] => One(t, S)
         /\ ~Has(nw, S) => One(t, S)
<1>1. \A a, b \in Node : \A j \in 1 .. Len(t[a][b]) :
        \/ j \in 1 .. Len(nw[a][b]) /\ t[a][b][j] = nw[a][b][j]
        \/ a = p /\ b = n /\ j = Len(nw[a][b]) + 1 /\ t[a][b][j] = m
  <2> SUFFICES ASSUME NEW a \in Node, NEW b \in Node, NEW j \in 1 .. Len(t[a][b])
               PROVE  \/ j \in 1 .. Len(nw[a][b]) /\ t[a][b][j] = nw[a][b][j]
                      \/ a = p /\ b = n /\ j = Len(nw[a][b]) + 1 /\ t[a][b][j] = m
    OBVIOUS
  <2>1. nw[a][b] \in Seq(Message) /\ Len(nw[a][b]) \in Nat
    BY DEF Network
  <2>2. t[a][b] = IF a = p /\ b = n THEN Append(nw[a][b], m) ELSE nw[a][b]
    BY SentQueue
  <2>3. CASE a = p /\ b = n /\ j = Len(nw[a][b]) + 1
    BY <2>1, <2>2, <2>3
  <2>4. CASE a = p /\ b = n /\ j # Len(nw[a][b]) + 1
    BY <2>1, <2>2, <2>4
  <2>5. CASE ~(a = p /\ b = n)
    BY <2>2, <2>5
  <2>6. QED
    BY <2>3, <2>4, <2>5
<1>2. Has(t, S) => Has(nw, S) \/ m \in S[n]
  BY <1>1 DEF Has
<1>3. ASSUME One(nw, S), m \notin S[n] PROVE One(t, S)
  <2> USE DEF One
  <2> TAKE q1, q2, n1, n2 \in Node
  <2> TAKE j1 \in 1 .. Len(t[q1][n1])
  <2> TAKE j2 \in 1 .. Len(t[q2][n2])
  <2> HAVE t[q1][n1][j1] \in S[n1] /\ t[q2][n2][j2] \in S[n2]
  <2> HIDE DEF One
  <2>1. j1 \in 1 .. Len(nw[q1][n1]) /\ nw[q1][n1][j1] \in S[n1]
    BY <1>1, <1>3
  <2>2. j2 \in 1 .. Len(nw[q2][n2]) /\ nw[q2][n2][j2] \in S[n2]
    BY <1>1, <1>3
  <2>3. QED
    BY <1>3, <2>1, <2>2 DEF One
<1>4. ASSUME ~Has(nw, S) PROVE One(t, S)
  <2> USE DEF One
  <2> TAKE q1, q2, n1, n2 \in Node
  <2> TAKE j1 \in 1 .. Len(t[q1][n1])
  <2> TAKE j2 \in 1 .. Len(t[q2][n2])
  <2> HAVE t[q1][n1][j1] \in S[n1] /\ t[q2][n2][j2] \in S[n2]
  <2> HIDE DEF One
  <2>1. q1 = p /\ n1 = n /\ j1 = Len(nw[p][n]) + 1
    BY <1>1, <1>4 DEF Has
  <2>2. q2 = p /\ n2 = n /\ j2 = Len(nw[p][n]) + 1
    BY <1>1, <1>4 DEF Has
  <2>3. QED
    BY <2>1, <2>2
<1>5. QED
  BY <1>2, <1>3, <1>4

\* Taking a message and sending one in the same step.
LEMMA RelayHas ==
  ASSUME NEW nw \in Network, NEW q \in Node, NEW p \in Node, nw[q][p] # <<>>,
         NEW n \in Node, NEW m \in Message,
         NEW t, t = Sent(Taken(nw, q, p), p, n, m), NEW S
  PROVE  /\ t \in Network
         /\ Has(t, S) => Has(nw, S) \/ m \in S[n]
         /\ One(nw, S) /\ m \notin S[n] => One(t, S)
         /\ One(nw, S) /\ Head(nw[q][p]) \in S[p] => One(t, S)
         /\ One(nw, S) /\ Head(nw[q][p]) \in S[p] /\ m \notin S[n] => ~Has(t, S)
         /\ ~Has(nw, S) => One(t, S)
<1> DEFINE k == Taken(nw, q, p)
<1>1. k \in Network
  BY TakenQueue
<1>2. /\ Has(k, S) => Has(nw, S)
      /\ One(nw, S) => One(k, S)
      /\ One(nw, S) /\ Head(nw[q][p]) \in S[p] => ~Has(k, S)
  BY TakenHas
<1>3. t = Sent(k, p, n, m)
  OBVIOUS
<1> HIDE DEF k
<1>4. /\ Has(t, S) => Has(k, S) \/ m \in S[n]
      /\ One(k, S) /\ m \notin S[n] => One(t, S)
      /\ ~Has(k, S) => One(t, S)
  BY <1>1, <1>3, SentHas
<1>5. t \in Network
  BY <1>1, <1>3, SentQueue
<1>6. QED
  BY <1>2, <1>4, <1>5

-------------------------------------------------------------------------------
(* Messages *)

\* A message is a request or a response.
LEMMA MessageCases ==
  ASSUME NEW m \in Message
  PROVE  /\ m.type = "acquireRequest" =>
              m.From \in Node /\ m.LockId \in LockId /\ m = Request(m.From, m.LockId)
         /\ m.type = "acquireResponse" =>
              /\ m.LockId \in LockId /\ m.Timestamp \in Timestamp
              /\ m = Response(m.LockId, m.Timestamp)
  BY DEF Message, Request, Response

\* The deliveries a request counts as.
LEMMA RequestIn ==
  ASSUME NEW x \in Node, NEW l \in LockId, NEW n \in Node
  PROVE  /\ Request(x, l) \in Message
         /\ \A y \in Node : Request(x, l) \in AnyClaim(y)[n] <=> x = y
         /\ \A y \in Node : \A k \in LockId :
              Request(x, l) \in Claim(y, k)[n] <=> x = y /\ l = k
         /\ \A k \in LockId : Request(x, l) \notin Token(k)[n]
         /\ \A k \in LockId : Request(x, l) \notin StaleToken(k)[n]
  BY DEF Request, Message, AnyClaim, Claim, Token, StaleToken

\* The deliveries a response to n counts as.
LEMMA ResponseIn ==
  ASSUME NEW l \in LockId, NEW ts \in Timestamp, NEW n \in Node
  PROVE  /\ Response(l, ts) \in Message
         /\ \A y \in Node : Response(l, ts) \in AnyClaim(y)[n] <=> n = y
         /\ \A y \in Node : \A k \in LockId :
              Response(l, ts) \in Claim(y, k)[n] <=> n = y /\ l = k
         /\ \A k \in LockId : Response(l, ts) \in Token(k)[n] <=> l = k
         /\ \A k \in LockId :
              Response(l, ts) \in StaleToken(k)[n] <=> l = k /\ ~covers(ts, released[k])
  BY DEF Response, Message, AnyClaim, Claim, Token, StaleToken

\* The timestamp of a closed interval.
LEMMA ClosedType ==
  ASSUME TypeOK, NEW p \in Node
  PROVE  Closed(p) \in Timestamp
  BY TimestampType DEF TypeOK, Closed, Timestamp

-------------------------------------------------------------------------------
(* The steps of the application keep the invariant *)

LEMMA InitIInv ==
  ASSUME Init
  PROVE  IInv
<1>1. TypeOK
  BY ManagerAssumption, TimestampType
  DEF Init, TypeOK, LockRecord, Timestamp, NewTimestamp
<1>2. \A S : ~Has(net, S) /\ One(net, S)
  BY DEF Init, Has, One
<1>3. \A p \in Node, l \in LockId : covers(Closed(p), released[l])
  BY DEF Init, Closed, covers, NewTimestamp
<1>4. WaitInv /\ ClaimInv /\ TokenInv /\ LockedInv
  BY <1>2, NoNodeAssumption, NoLockAssumption
  DEF Init, WaitInv, ClaimInv, TokenInv, LockedInv
<1>5. ReleasedInv
  BY <1>2, <1>3 DEF ReleasedInv
<1>6. QED
  BY <1>1, <1>4, <1>5 DEF IInv

LEMMA StutterStep ==
  ASSUME IInv, UNCHANGED vars
  PROVE  IInv'
<1> USE DEF vars
<1>1. TypeOK' /\ WaitInv' /\ LockedInv'
  BY DEF IInv, TypeOK, WaitInv, LockedInv
<1>2. ClaimInv' /\ TokenInv'
  BY DEF IInv, ClaimInv, TokenInv
<1>3. \A l \in LockId : StaleToken(l)' = StaleToken(l)
  BY DEF StaleToken
<1>4. \A x \in Node : Closed(x)' = Closed(x)
  BY DEF Closed
<1>5. ReleasedInv'
  BY <1>3, <1>4 DEF IInv, ReleasedInv
<1>6. QED
  BY <1>1, <1>2, <1>5 DEF IInv

LEMMA WriteStep ==
  ASSUME IInv, NEW p \in Node, Write(p)
  PROVE  IInv'
<1> USE DEF IInv
<1>1. TypeOK'
  BY DEF Write, TypeOK
<1>2. WaitInv' /\ ClaimInv' /\ TokenInv' /\ LockedInv'
  BY DEF Write, WaitInv, ClaimInv, TokenInv, LockedInv
<1>3. ASSUME NEW l \in LockId
      PROVE  ~Has(net', StaleToken(l)')
  BY DEF Write, ReleasedInv, StaleToken
<1>4. ASSUME NEW l \in LockId, NEW x \in Node, lock'[x][l].haveToken
      PROVE  covers(Closed(x)', released'[l])
  <2>1. covers(Closed(x), released[l])
    BY <1>4 DEF ReleasedInv, Write
  <2>2. Closed(x) \in Timestamp /\ released[l] \in Timestamp
    BY ClosedType DEF TypeOK
  <2>3. Closed(x)' = Closed(x) \/ Closed(x)' = increment(Closed(x), x)
    BY DEF Write, Closed, TypeOK
  <2>4. covers(increment(Closed(x), x), Closed(x)) /\ increment(Closed(x), x) \in Timestamp
    BY <2>2, IncrementLater, TimestampType DEF Timestamp
  <2>5. covers(Closed(x)', released[l])
    BY <2>1, <2>2, <2>3, <2>4, CoversOrder DEF Timestamp
  <2>6. QED
    BY <2>5 DEF Write
<1>5. ReleasedInv'
  BY <1>3, <1>4 DEF ReleasedInv
<1>6. QED
  BY <1>1, <1>2, <1>5

\* Steps that move no token.
LEMMA SameTokens ==
  ASSUME TokenInv,
         \A k \in LockId : /\ Has(net', Token(k)) => Has(net, Token(k))
                           /\ One(net, Token(k)) => One(net', Token(k)),
         \A x \in Node : \A k \in LockId :
           lock'[x][k].haveToken = lock[x][k].haveToken
  PROVE  TokenInv'
<1>1. ASSUME NEW k \in LockId
      PROVE  /\ One(net', Token(k))
             /\ \A x \in Node : lock'[x][k].haveToken => ~Has(net', Token(k))
  BY <1>1 DEF TokenInv
<1>2. \A k \in LockId : \A x, y \in Node :
        lock'[x][k].haveToken /\ lock'[y][k].haveToken => x = y
  BY DEF TokenInv
<1>3. QED
  BY <1>1, <1>2 DEF TokenInv

LEMMA AcquireLocalStep ==
  ASSUME IInv, NEW p \in Node, NEW l \in LockId, AcquireLocal(p, l)
  PROVE  IInv'
<1> USE DEF IInv
<1>1. /\ lock' \in [Node -> [LockId -> LockRecord]]
      /\ lock'[p][l].locked = TRUE
      /\ \A x \in Node : \A k \in LockId :
           /\ lock'[x][k].haveToken = lock[x][k].haveToken
           /\ lock'[x][k].next = lock[x][k].next
           /\ ~(x = p /\ k = l) => lock'[x][k].locked = lock[x][k].locked
  <2> DEFINE r == [lock[p][l] EXCEPT !.locked = TRUE]
  <2>1. lock[p][l] \in LockRecord
    BY DEF TypeOK
  <2>2. /\ r \in LockRecord /\ r.locked = TRUE
        /\ r.haveToken = lock[p][l].haveToken /\ r.next = lock[p][l].next
    BY <2>1 DEF LockRecord
  <2>3. lock' = [lock EXCEPT ![p][l] = r]
    BY DEF AcquireLocal
  <2> HIDE DEF r
  <2>4. /\ lock' \in [Node -> [LockId -> LockRecord]]
        /\ lock'[p][l] = r
        /\ \A x \in Node : \A k \in LockId :
             ~(x = p /\ k = l) => lock'[x][k] = lock[x][k]
    BY <2>2, <2>3 DEF TypeOK
  <2>5. QED
    BY <2>2, <2>4
<1>2. /\ held' \in [Node -> SUBSET LockId]
      /\ \A x \in Node : held'[x] = IF x = p THEN held[x] \cup {l} ELSE held[x]
  BY DEF AcquireLocal, TypeOK
<1>3. TypeOK'
  BY <1>1, <1>2 DEF AcquireLocal, TypeOK
<1>4. WaitInv'
  BY <1>2, NoLockAssumption DEF WaitInv, AcquireLocal, Running
<1>5. ClaimInv' /\ TokenInv'
  BY <1>1 DEF ClaimInv, TokenInv, AcquireLocal
<1>6. LockedInv'
  BY <1>1, <1>2 DEF LockedInv, AcquireLocal
<1>7. ReleasedInv'
  <2>1. \A k \in LockId : StaleToken(k)' = StaleToken(k)
    BY DEF AcquireLocal, StaleToken
  <2>2. \A x \in Node : Closed(x)' = Closed(x)
    BY DEF AcquireLocal, Closed
  <2>3. QED
    BY <1>1, <2>1, <2>2 DEF ReleasedInv, AcquireLocal
<1>8. QED
  BY <1>3, <1>4, <1>5, <1>6, <1>7

LEMMA WakeStep ==
  ASSUME IInv, NEW p \in Node, Wake(p)
  PROVE  IInv'
<1> USE DEF IInv
<1>0. waitFor[p] \in LockId /\ lock[p][waitFor[p]].locked
  BY DEF Wake, WaitInv, LockedInv
<1>1. /\ held' \in [Node -> SUBSET LockId]
      /\ waitFor' \in [Node -> LockId \cup {NoLock}]
      /\ channel' \in [Node -> BOOLEAN]
      /\ waitFor'[p] = NoLock /\ channel'[p] = FALSE
      /\ held'[p] = held[p] \cup {waitFor[p]}
      /\ \A x \in Node : x # p =>
           held'[x] = held[x] /\ waitFor'[x] = waitFor[x] /\ channel'[x] = channel[x]
  BY <1>0 DEF Wake, TypeOK
<1>2. TypeOK'
  BY <1>1 DEF Wake, TypeOK
<1>3. WaitInv'
  BY <1>0, <1>1, NoLockAssumption DEF WaitInv, TypeOK
<1>4. ClaimInv'
  <2>1. /\ ~Has(net, AnyClaim(p))
        /\ \A n \in Node : \A l \in LockId : lock[n][l].next # p
        /\ \A l \in LockId : ~Has(net, Claim(p, l))
    <3>1. ~Has(net, AnyClaim(p)) /\ \A n \in Node : \A l \in LockId : lock[n][l].next # p
      BY DEF Wake, ClaimInv
    <3>2. \A l \in LockId : Has(net, Claim(p, l)) => Has(net, AnyClaim(p))
      BY DEF Has, Claim, AnyClaim
    <3>3. QED
      BY <3>1, <3>2
  <2>2. QED
    BY <2>1, <1>1 DEF ClaimInv, Wake
<1>5. TokenInv'
  BY DEF TokenInv, Wake
<1>6. LockedInv'
  BY <1>0, <1>1 DEF LockedInv, Wake
<1>7. ReleasedInv'
  <2>1. \A k \in LockId : StaleToken(k)' = StaleToken(k)
    BY DEF Wake, StaleToken
  <2>2. \A x \in Node : Closed(x)' = Closed(x)
    BY DEF Wake, Closed
  <2>3. QED
    BY <2>1, <2>2 DEF ReleasedInv, Wake
<1>8. QED
  BY <1>2, <1>3, <1>4, <1>5, <1>6, <1>7

LEMMA AcquireRemoteStep ==
  ASSUME IInv, NEW p \in Node, NEW l \in LockId, AcquireRemote(p, l)
  PROVE  IInv'
<1> USE DEF IInv
<1> DEFINE n == lock[p][l].last
<1>1. /\ lock' \in [Node -> [LockId -> LockRecord]]
      /\ \A x \in Node : \A k \in LockId :
           /\ lock'[x][k].haveToken = lock[x][k].haveToken
           /\ lock'[x][k].next = lock[x][k].next
           /\ lock'[x][k].locked = lock[x][k].locked
  <2> DEFINE r == [lock[p][l] EXCEPT !.last = p]
  <2>1. lock[p][l] \in LockRecord
    BY DEF TypeOK
  <2>2. /\ r \in LockRecord /\ r.locked = lock[p][l].locked
        /\ r.haveToken = lock[p][l].haveToken /\ r.next = lock[p][l].next
    BY <2>1 DEF LockRecord
  <2>3. lock' = [lock EXCEPT ![p][l] = r]
    BY DEF AcquireRemote
  <2> HIDE DEF r
  <2>4. /\ lock' \in [Node -> [LockId -> LockRecord]]
        /\ lock'[p][l] = r
        /\ \A x \in Node : \A k \in LockId :
             ~(x = p /\ k = l) => lock'[x][k] = lock[x][k]
    BY <2>2, <2>3 DEF TypeOK
  <2>5. QED
    BY <2>2, <2>4
<1>2. /\ waitFor' \in [Node -> LockId \cup {NoLock}]
      /\ waitFor'[p] = l /\ waitFor[p] = NoLock
      /\ \A x \in Node : x # p => waitFor'[x] = waitFor[x]
  BY DEF AcquireRemote, Running, TypeOK
<1>3. n \in Node /\ net \in Network /\ Request(p, l) \in Message
  <2>1. lock[p][l] \in LockRecord /\ net \in Network
    BY DEF TypeOK, Network
  <2>2. n \in Node
    BY <2>1 DEF LockRecord
  <2>3. Request(p, l) \in Message
    BY RequestIn
  <2>4. QED
    BY <2>1, <2>2, <2>3
<1>4. net' = Sent(net, p, n, Request(p, l))
  BY DEF AcquireRemote
<1> HIDE DEF n
<1>5. net' \in Network
  BY <1>3, <1>4, SentQueue
<1>6. ASSUME NEW S
      PROVE  /\ Has(net', S) => Has(net, S) \/ Request(p, l) \in S[n]
             /\ One(net, S) /\ Request(p, l) \notin S[n] => One(net', S)
             /\ ~Has(net, S) => One(net', S)
  BY <1>3, <1>4, SentHas
<1>7. TypeOK'
  BY <1>1, <1>2, <1>5 DEF AcquireRemote, TypeOK, Network
<1>8. l \notin held[p]
  BY LockIdAssumption DEF AcquireRemote, InOrder
<1>9. WaitInv'
  BY <1>2, <1>8 DEF WaitInv, AcquireRemote
\* A running application has no claim yet.
<1>10. /\ ~Has(net, AnyClaim(p)) /\ ~channel[p]
       /\ \A x \in Node : \A k \in LockId : lock[x][k].next # p
  <2>1. ~channel[p]
    BY <1>2, NoLockAssumption DEF WaitInv
  <2>2. \A x \in Node : \A k \in LockId : lock[x][k].next # p
    BY <1>2, NoLockAssumption DEF ClaimInv
  <2>3. Has(net, AnyClaim(p)) => \E k \in LockId : Has(net, Claim(p, k))
    <3>1. \A x \in Node : \A m \in Message : m \in AnyClaim(p)[x] =>
            \E k \in LockId : m \in Claim(p, k)[x]
      BY MessageCases DEF AnyClaim, Claim, Message
    <3>2. ASSUME NEW a \in Node, NEW b \in Node, NEW i \in 1 .. Len(net[a][b]),
                 net[a][b][i] \in AnyClaim(p)[b]
          PROVE  \E k \in LockId : Has(net, Claim(p, k))
      <4>1. net[a][b][i] \in Message
        BY <3>2 DEF AnyClaim
      <4>2. PICK k \in LockId : net[a][b][i] \in Claim(p, k)[b]
        BY <3>1, <3>2, <4>1
      <4>3. QED
        BY <4>2 DEF Has
    <3>3. QED
      BY <3>2 DEF Has
  <2>4. QED
    BY <2>1, <2>2, <2>3, <1>2, NoLockAssumption DEF ClaimInv
<1>11. ClaimInv'
  <2> SUFFICES ASSUME NEW x \in Node
               PROVE  /\ One(net', AnyClaim(x))
                      /\ \A a, b \in Node : \A k, j \in LockId :
                           lock'[a][k].next = x /\ lock'[b][j].next = x => a = b /\ k = j
                      /\ \A a \in Node : \A k \in LockId : lock'[a][k].next = x =>
                           waitFor'[x] = k /\ ~channel'[x] /\ ~Has(net', AnyClaim(x))
                      /\ channel'[x] => ~Has(net', AnyClaim(x))
                      /\ \A k \in LockId : Has(net', Claim(x, k)) => waitFor'[x] = k
    BY DEF ClaimInv
  <2>1. CASE x = p
    <3>1. \A k \in LockId : Has(net, Claim(p, k)) => Has(net, AnyClaim(p))
      BY DEF Has, Claim, AnyClaim
    <3>2. \A k \in LockId : Has(net', Claim(p, k)) => k = l
      BY <1>3, <1>6, <1>10, <3>1, RequestIn
    <3>3. One(net', AnyClaim(p))
      BY <1>6, <1>10
    <3>4. QED
      BY <2>1, <3>2, <3>3, <1>1, <1>2, <1>10 DEF AcquireRemote
  <2>2. CASE x # p
    <3>1. /\ Has(net', AnyClaim(x)) => Has(net, AnyClaim(x))
          /\ One(net, AnyClaim(x)) => One(net', AnyClaim(x))
          /\ \A k \in LockId : Has(net', Claim(x, k)) => Has(net, Claim(x, k))
      BY <1>3, <1>6, <2>2, RequestIn
    <3>2. QED
      BY <1>1, <1>2, <2>2, <3>1 DEF ClaimInv, AcquireRemote
  <2>3. QED
    BY <2>1, <2>2
<1>12. TokenInv'
  <2>1. \A k \in LockId : /\ Has(net', Token(k)) => Has(net, Token(k))
                          /\ One(net, Token(k)) => One(net', Token(k))
    BY <1>3, <1>6, RequestIn
  <2>2. QED
    BY <1>1, <2>1, SameTokens
<1>13. LockedInv'
  BY <1>1, <1>2, <1>10 DEF LockedInv, AcquireRemote
<1>14. ReleasedInv'
  <2>1. \A k \in LockId : StaleToken(k)' = StaleToken(k)
    BY DEF AcquireRemote, StaleToken
  <2>2. \A k \in LockId : Has(net', StaleToken(k)) => Has(net, StaleToken(k))
    BY <1>3, <1>6, RequestIn
  <2>3. \A x \in Node : Closed(x)' = Closed(x)
    BY DEF AcquireRemote, Closed
  <2>4. QED
    BY <1>1, <2>1, <2>2, <2>3 DEF ReleasedInv, AcquireRemote
<1>15. QED
  BY <1>7, <1>9, <1>11, <1>12, <1>13, <1>14

\* Closing an interval does not change what the node's writes are part of.
LEMMA NewIntervalClosed ==
  ASSUME TypeOK, NEW p \in Node, newInterval(p)
  PROVE  /\ timestamp' \in [Node -> Timestamp] /\ dirty' \in [Node -> BOOLEAN]
         /\ \A x \in Node : Closed(x)' = Closed(x)
<1>1. /\ timestamp' = [timestamp EXCEPT ![p] = Closed(p)]
      /\ dirty' = [dirty EXCEPT ![p] = FALSE]
  BY DEF newInterval
<1>2. Closed(p) \in Timestamp
  BY ClosedType
<1>3. timestamp' \in [Node -> Timestamp] /\ dirty' \in [Node -> BOOLEAN]
  BY <1>1, <1>2 DEF TypeOK
<1>4. Closed(p)' = Closed(p)
  <2>1. Closed(p)' = IF dirty'[p] THEN increment(timestamp'[p], p) ELSE timestamp'[p]
    BY DEF Closed
  <2>2. dirty'[p] = FALSE /\ timestamp'[p] = Closed(p)
    BY <1>1 DEF TypeOK
  <2>3. QED
    BY <2>1, <2>2
<1>5. ASSUME NEW x \in Node, x # p PROVE Closed(x)' = Closed(x)
  BY <1>1, <1>5 DEF Closed, TypeOK
<1>6. QED
  BY <1>3, <1>4, <1>5

\* A request of p for l, or a response to p about l, is a message of p's.
LEMMA ClaimIsAny ==
  ASSUME NEW nw, NEW p \in Node, NEW l \in LockId, Has(nw, Claim(p, l))
  PROVE  Has(nw, AnyClaim(p))
  BY DEF Has, Claim, AnyClaim

LEMMA ReleaseKeepStep ==
  ASSUME IInv, NEW p \in Node, NEW l \in LockId, ReleaseLock(p, l),
         lock[p][l].next = NoNode
  PROVE  IInv'
<1> USE DEF IInv
<1>1. /\ lock' \in [Node -> [LockId -> LockRecord]]
      /\ lock'[p][l].locked = FALSE
      /\ \A x \in Node : \A k \in LockId :
           /\ lock'[x][k].haveToken = lock[x][k].haveToken
           /\ lock'[x][k].next = lock[x][k].next
           /\ ~(x = p /\ k = l) => lock'[x][k].locked = lock[x][k].locked
  <2> DEFINE r == [lock[p][l] EXCEPT !.locked = FALSE]
  <2>1. lock[p][l] \in LockRecord
    BY DEF TypeOK
  <2>2. /\ r \in LockRecord /\ r.locked = FALSE
        /\ r.haveToken = lock[p][l].haveToken /\ r.next = lock[p][l].next
    BY <2>1 DEF LockRecord
  <2>3. lock' = [lock EXCEPT ![p][l] = r]
    BY DEF ReleaseLock
  <2> HIDE DEF r
  <2>4. /\ lock' \in [Node -> [LockId -> LockRecord]]
        /\ lock'[p][l] = r
        /\ \A x \in Node : \A k \in LockId :
             ~(x = p /\ k = l) => lock'[x][k] = lock[x][k]
    BY <2>2, <2>3 DEF TypeOK
  <2>5. QED
    BY <2>2, <2>4
<1>2. /\ held' \in [Node -> SUBSET LockId]
      /\ \A x \in Node : held'[x] = IF x = p THEN held[x] \ {l} ELSE held[x]
  BY DEF ReleaseLock, TypeOK
<1>3. /\ released' \in [LockId -> Timestamp] /\ released'[l] = Closed(p)
      /\ \A k \in LockId : k # l => released'[k] = released[k]
  BY ClosedType DEF ReleaseLock, TypeOK
<1>4. /\ UNCHANGED <<timestamp, dirty, net, channel, waitFor>>
      /\ waitFor[p] = NoLock /\ l \in held[p]
  BY DEF ReleaseLock, Running
<1>5. TypeOK'
  BY <1>1, <1>2, <1>3, <1>4 DEF TypeOK
<1>6. WaitInv'
  BY <1>2, <1>4 DEF WaitInv
<1>7. ClaimInv' /\ TokenInv'
  <2>1. ClaimInv'
    <3> SUFFICES ASSUME NEW x \in Node
                 PROVE  /\ One(net, AnyClaim(x))
                        /\ \A n, m \in Node : \A j, k \in LockId :
                             lock'[n][j].next = x /\ lock'[m][k].next = x => n = m /\ j = k
                        /\ \A n \in Node : \A k \in LockId : lock'[n][k].next = x =>
                             waitFor[x] = k /\ ~channel[x] /\ ~Has(net, AnyClaim(x))
                        /\ channel[x] => ~Has(net, AnyClaim(x))
                        /\ \A k \in LockId : Has(net, Claim(x, k)) => waitFor[x] = k
      BY <1>4 DEF ClaimInv
    <3>1. \A n \in Node : \A k \in LockId : lock'[n][k].next = lock[n][k].next
      BY <1>1
    <3>2. QED
      BY <3>1 DEF ClaimInv
  <2>2. TokenInv'
    BY <1>1, <1>4, SameTokens
  <2>3. QED
    BY <2>1, <2>2
<1>8. LockedInv'
  BY <1>1, <1>2, <1>4, NoLockAssumption DEF LockedInv
<1>9. ReleasedInv'
  <2>1. \A x \in Node : Closed(x)' = Closed(x)
    BY <1>4 DEF Closed
  <2>2. lock[p][l].haveToken
    BY <1>4 DEF LockedInv
  <2>3. ASSUME NEW k \in LockId
        PROVE  ~Has(net', StaleToken(k)')
    <3>1. CASE k = l
      <4>1. Has(net, StaleToken(l)') => Has(net, Token(l))
        BY DEF Has, StaleToken, Token
      <4>2. QED
        BY <3>1, <4>1, <2>2, <1>4 DEF TokenInv
    <3>2. CASE k # l
      <4>1. StaleToken(k)' = StaleToken(k)
        BY <1>3, <3>2 DEF StaleToken
      <4>2. QED
        BY <4>1, <1>4 DEF ReleasedInv
    <3>3. QED
      BY <3>1, <3>2
  <2>4. ASSUME NEW k \in LockId, NEW x \in Node, lock'[x][k].haveToken
        PROVE  covers(Closed(x)', released'[k])
    <3>1. CASE k = l
      <4>1. x = p
        BY <2>2, <2>4, <1>1, <3>1 DEF TokenInv
      <4>2. Closed(p) \in Timestamp
        BY ClosedType
      <4>3. QED
        BY <4>1, <4>2, <3>1, <2>1, <1>3, CoversOrder DEF Timestamp
    <3>2. CASE k # l
      BY <1>1, <1>3, <2>1, <2>4, <3>2 DEF ReleasedInv
    <3>3. QED
      BY <3>1, <3>2
  <2>5. QED
    BY <2>3, <2>4 DEF ReleasedInv
<1>10. QED
  BY <1>5, <1>6, <1>7, <1>8, <1>9

LEMMA ReleasePassStep ==
  ASSUME IInv, NEW p \in Node, NEW l \in LockId, ReleaseLock(p, l),
         lock[p][l].next # NoNode
  PROVE  IInv'
<1> USE DEF IInv
<1> DEFINE n == lock[p][l].next
           m == Response(l, Closed(p))
<1>1. /\ lock' \in [Node -> [LockId -> LockRecord]]
      /\ ~lock'[p][l].locked /\ ~lock'[p][l].haveToken /\ lock'[p][l].next = NoNode
      /\ \A x \in Node : \A k \in LockId :
           ~(x = p /\ k = l) => lock'[x][k] = lock[x][k]
  <2> DEFINE r == [lock[p][l] EXCEPT !.locked = FALSE, !.haveToken = FALSE,
                                     !.next = NoNode]
  <2>1. lock[p][l] \in LockRecord
    BY DEF TypeOK
  <2>2. r \in LockRecord /\ ~r.locked /\ ~r.haveToken /\ r.next = NoNode
    BY <2>1 DEF LockRecord
  <2>3. lock' = [lock EXCEPT ![p][l] = r]
    BY DEF ReleaseLock, HandedOver
  <2> HIDE DEF r
  <2>4. /\ lock' \in [Node -> [LockId -> LockRecord]]
        /\ lock'[p][l] = r
        /\ \A x \in Node : \A k \in LockId :
             ~(x = p /\ k = l) => lock'[x][k] = lock[x][k]
    BY <2>2, <2>3 DEF TypeOK
  <2>5. QED
    BY <2>2, <2>4
<1>2. /\ held' \in [Node -> SUBSET LockId]
      /\ \A x \in Node : held'[x] = IF x = p THEN held[x] \ {l} ELSE held[x]
  BY DEF ReleaseLock, TypeOK
<1>3. /\ released' \in [LockId -> Timestamp] /\ released'[l] = Closed(p)
      /\ \A k \in LockId : k # l => released'[k] = released[k]
  BY ClosedType DEF ReleaseLock, TypeOK
<1>4. /\ UNCHANGED <<channel, waitFor>>
      /\ waitFor[p] = NoLock /\ l \in held[p] /\ newInterval(p)
  BY DEF ReleaseLock, Running
<1>5. /\ n \in Node /\ net \in Network /\ Closed(p) \in Timestamp /\ m \in Message
      /\ net' = Sent(net, p, n, m)
  <2>1. n \in Node
    BY DEF TypeOK, LockRecord
  <2>2. Closed(p) \in Timestamp
    BY ClosedType
  <2>3. m \in Message
    BY <2>1, <2>2, ResponseIn
  <2>4. QED
    BY <2>1, <2>2, <2>3 DEF TypeOK, Network, ReleaseLock
<1>6. /\ lock[p][l].locked /\ lock[p][l].haveToken
      /\ waitFor[n] = l /\ ~channel[n] /\ ~Has(net, AnyClaim(n))
      /\ ~Has(net, Token(l))
      /\ \A x \in Node : \A k \in LockId : lock[x][k].next = n => x = p /\ k = l
  <2>1. lock[p][l].locked /\ lock[p][l].haveToken
    BY <1>4 DEF LockedInv
  <2>2. waitFor[n] = l /\ ~channel[n] /\ ~Has(net, AnyClaim(n))
    BY <1>5 DEF ClaimInv
  <2>3. \A x \in Node : \A k \in LockId : lock[x][k].next = n => x = p /\ k = l
    BY <1>5 DEF ClaimInv
  <2>4. QED
    BY <2>1, <2>2, <2>3 DEF TokenInv
<1>7. /\ \A y \in Node : m \in AnyClaim(y)[n] <=> n = y
      /\ \A y \in Node : \A k \in LockId : m \in Claim(y, k)[n] <=> n = y /\ l = k
      /\ \A k \in LockId : m \in Token(k)[n] <=> l = k
      /\ \A k \in LockId : m \in StaleToken(k)[n] <=> l = k /\ ~covers(Closed(p), released[k])
  BY <1>5, ResponseIn
<1> HIDE DEF m, n
<1>8. /\ net' \in Network
      /\ \A S : /\ Has(net', S) => Has(net, S) \/ m \in S[n]
                /\ One(net, S) /\ m \notin S[n] => One(net', S)
                /\ ~Has(net, S) => One(net', S)
  BY <1>5, SentHas, SentQueue
<1>9. /\ timestamp' \in [Node -> Timestamp] /\ dirty' \in [Node -> BOOLEAN]
      /\ \A x \in Node : Closed(x)' = Closed(x)
  BY <1>4, NewIntervalClosed
<1>10. TypeOK'
  BY <1>1, <1>2, <1>3, <1>4, <1>8, <1>9 DEF TypeOK, Network
<1>11. WaitInv'
  BY <1>2, <1>4 DEF WaitInv
<1>12. ClaimInv'
  <2> SUFFICES ASSUME NEW x \in Node
               PROVE  /\ One(net', AnyClaim(x))
                      /\ \A a, b \in Node : \A k, j \in LockId :
                           lock'[a][k].next = x /\ lock'[b][j].next = x => a = b /\ k = j
                      /\ \A a \in Node : \A k \in LockId : lock'[a][k].next = x =>
                           waitFor[x] = k /\ ~channel[x] /\ ~Has(net', AnyClaim(x))
                      /\ channel[x] => ~Has(net', AnyClaim(x))
                      /\ \A k \in LockId : Has(net', Claim(x, k)) => waitFor[x] = k
    BY <1>4 DEF ClaimInv
  <2>1. \A a \in Node : \A k \in LockId :
          lock'[a][k].next = x => lock[a][k].next = x /\ x # n
    BY <1>1, <1>6, NoNodeAssumption
  <2>2. CASE x = n
    <3>1. \A k \in LockId : Has(net', Claim(n, k)) => k = l
      BY <1>5, <1>6, <1>7, <1>8, ClaimIsAny
    <3>2. One(net', AnyClaim(n))
      BY <1>6, <1>8
    <3>3. QED
      BY <2>1, <2>2, <3>1, <3>2, <1>6
  <2>3. CASE x # n
    <3>1. /\ Has(net', AnyClaim(x)) => Has(net, AnyClaim(x))
          /\ One(net, AnyClaim(x)) => One(net', AnyClaim(x))
          /\ \A k \in LockId : Has(net', Claim(x, k)) => Has(net, Claim(x, k))
      BY <1>7, <1>8, <2>3
    <3>2. \A a, b \in Node : \A k, j \in LockId :
            lock'[a][k].next = x /\ lock'[b][j].next = x => a = b /\ k = j
      BY <2>1 DEF ClaimInv
    <3>3. QED
      BY <2>1, <3>1, <3>2 DEF ClaimInv
  <2>4. QED
    BY <2>2, <2>3
<1>13. TokenInv'
  <2> SUFFICES ASSUME NEW k \in LockId
               PROVE  /\ One(net', Token(k))
                      /\ \A x \in Node : lock'[x][k].haveToken => ~Has(net', Token(k))
                      /\ \A x, y \in Node :
                           lock'[x][k].haveToken /\ lock'[y][k].haveToken => x = y
    BY DEF TokenInv
  <2>1. CASE k = l
    <3>1. \A x \in Node : ~lock'[x][l].haveToken
      BY <1>1, <1>6 DEF TokenInv
    <3>2. QED
      BY <2>1, <3>1, <1>6, <1>8
  <2>2. CASE k # l
    <3>1. \A x \in Node : lock'[x][k].haveToken = lock[x][k].haveToken
      BY <1>1, <2>2
    <3>2. /\ Has(net', Token(k)) => Has(net, Token(k))
          /\ One(net, Token(k)) => One(net', Token(k))
      BY <1>7, <1>8, <2>2
    <3>3. QED
      BY <3>1, <3>2 DEF TokenInv
  <2>3. QED
    BY <2>1, <2>2
<1>14. LockedInv'
  BY <1>1, <1>2, <1>4, NoLockAssumption DEF LockedInv
<1>15. ReleasedInv'
  <2>1. ASSUME NEW k \in LockId
        PROVE  ~Has(net', StaleToken(k)')
    <3>1. CASE k = l
      <4>1. Has(net, StaleToken(l)') => Has(net, Token(l))
        BY DEF Has, StaleToken, Token
      <4>2. covers(Closed(p), Closed(p))
        BY <1>5, CoversOrder DEF Timestamp
      <4>3. m.Timestamp = Closed(p)
        BY DEF m, Response
      <4>4. m \notin StaleToken(l)'[n]
        BY <4>2, <4>3, <1>3, <1>5 DEF StaleToken
      <4>5. QED
        BY <3>1, <4>1, <4>4, <1>6, <1>8
    <3>2. CASE k # l
      <4>1. StaleToken(k)' = StaleToken(k)
        BY <1>3, <3>2 DEF StaleToken
      <4>2. QED
        BY <4>1, <3>2, <1>7, <1>8 DEF ReleasedInv
    <3>3. QED
      BY <3>1, <3>2
  <2>2. ASSUME NEW k \in LockId, NEW x \in Node, lock'[x][k].haveToken
        PROVE  covers(Closed(x)', released'[k])
    <3>1. k # l
      BY <2>2, <1>1, <1>6 DEF TokenInv
    <3>2. QED
      BY <1>1, <1>3, <1>9, <2>2, <3>1 DEF ReleasedInv
  <2>3. QED
    BY <2>1, <2>2 DEF ReleasedInv
<1>16. QED
  BY <1>10, <1>11, <1>12, <1>13, <1>14, <1>15

-------------------------------------------------------------------------------
(* The steps of the network thread keep the invariant *)

\* A request under way is its sender's only claim.
LEMMA HeadRequest ==
  ASSUME IInv, NEW p \in Node, NEW q \in Node, Next1(q, p, "acquireRequest"),
         NEW f, f = Head(net[q][p]).From, NEW l, l = Head(net[q][p]).LockId
  PROVE  /\ net \in Network /\ net[q][p] # <<>>
         /\ f \in Node /\ l \in LockId
         /\ Head(net[q][p]) = Request(f, l) /\ Request(f, l) \in Message
         /\ Request(f, l) \in AnyClaim(f)[p]
         /\ \A y \in Node : Request(f, l) \in AnyClaim(y)[p] => y = f
         /\ Has(net, AnyClaim(f))
         /\ waitFor[f] = l /\ ~channel[f]
         /\ \A x \in Node : \A k \in LockId : lock[x][k].next # f
<1> USE DEF IInv
<1>1. net \in Network /\ net[q][p] # <<>>
  BY DEF TypeOK, Network, Next1
<1>2. f \in Node /\ l \in LockId /\ Head(net[q][p]) = Request(f, l)
  BY <1>1, TakenQueue, MessageCases DEF Next1
<1>3. /\ Request(f, l) \in Message
      /\ Request(f, l) \in AnyClaim(f)[p] /\ Request(f, l) \in Claim(f, l)[p]
      /\ \A y \in Node : Request(f, l) \in AnyClaim(y)[p] => y = f
  BY <1>2, RequestIn
<1>4. Has(net, AnyClaim(f)) /\ Has(net, Claim(f, l))
  BY <1>1, <1>2, <1>3, TakenHas
<1>5. waitFor[f] = l /\ ~channel[f]
      /\ \A x \in Node : \A k \in LockId : lock[x][k].next # f
  BY <1>2, <1>4 DEF ClaimInv
<1>6. QED
  BY <1>1, <1>2, <1>3, <1>4, <1>5

LEMMA PassTokenStep ==
  ASSUME IInv, NEW p \in Node, NEW q \in Node, PassToken(p, q)
  PROVE  IInv'
<1> USE DEF IInv
<1> DEFINE f == Head(net[q][p]).From
           l == Head(net[q][p]).LockId
           m == Response(l, Closed(p))
<1>1. /\ net \in Network /\ net[q][p] # <<>>
      /\ f \in Node /\ l \in LockId
      /\ Head(net[q][p]) = Request(f, l)
      /\ Request(f, l) \in AnyClaim(f)[p]
      /\ waitFor[f] = l /\ ~channel[f]
      /\ \A x \in Node : \A k \in LockId : lock[x][k].next # f
  <2>1. Next1(q, p, "acquireRequest")
    BY DEF PassToken, CanPass
  <2>2. QED
    BY <2>1, HeadRequest
<1>2. /\ ~lock[p][l].locked /\ lock[p][l].haveToken /\ newInterval(p)
      /\ net' = Sent(Taken(net, q, p), p, f, m)
      /\ lock' = [lock EXCEPT ![p][l] = [@ EXCEPT !.haveToken = FALSE, !.last = f]]
      /\ UNCHANGED <<channel, waitFor, held, released>>
  BY DEF PassToken, CanPass
<1> HIDE DEF f, l
<1>3. Closed(p) \in Timestamp /\ m \in Message
  BY <1>1, ClosedType, ResponseIn
<1>4. /\ \A y \in Node : m \in AnyClaim(y)[f] <=> f = y
      /\ \A y \in Node : \A k \in LockId : m \in Claim(y, k)[f] <=> f = y /\ l = k
      /\ \A k \in LockId : m \in Token(k)[f] <=> l = k
      /\ \A k \in LockId : m \in StaleToken(k)[f] <=> l = k /\ ~covers(Closed(p), released[k])
  BY <1>1, <1>3, ResponseIn
<1> HIDE DEF m
<1>5. /\ net' \in Network
      /\ \A S : /\ Has(net', S) => Has(net, S) \/ m \in S[f]
                /\ One(net, S) /\ m \notin S[f] => One(net', S)
                /\ One(net, S) /\ Request(f, l) \in S[p] => One(net', S)
                /\ ~Has(net, S) => One(net', S)
  BY <1>1, <1>2, <1>3, RelayHas
<1>6. /\ lock' \in [Node -> [LockId -> LockRecord]]
      /\ ~lock'[p][l].haveToken
      /\ \A x \in Node : \A k \in LockId :
           /\ lock'[x][k].locked = lock[x][k].locked
           /\ lock'[x][k].next = lock[x][k].next
           /\ ~(x = p /\ k = l) => lock'[x][k].haveToken = lock[x][k].haveToken
  <2> DEFINE r == [lock[p][l] EXCEPT !.haveToken = FALSE, !.last = f]
  <2>1. lock[p][l] \in LockRecord
    BY <1>1 DEF TypeOK
  <2>2. /\ r \in LockRecord /\ ~r.haveToken
        /\ r.locked = lock[p][l].locked /\ r.next = lock[p][l].next
    BY <1>1, <2>1 DEF LockRecord
  <2>3. lock' = [lock EXCEPT ![p][l] = r]
    BY <1>2
  <2> HIDE DEF r
  <2>4. /\ lock' \in [Node -> [LockId -> LockRecord]]
        /\ lock'[p][l] = r
        /\ \A x \in Node : \A k \in LockId :
             ~(x = p /\ k = l) => lock'[x][k] = lock[x][k]
    BY <1>1, <2>2, <2>3 DEF TypeOK
  <2>5. QED
    BY <2>2, <2>4
<1>7. ~Has(net, Token(l)) /\ \A x \in Node : ~lock'[x][l].haveToken
  BY <1>1, <1>2, <1>6 DEF TokenInv
<1>8. /\ timestamp' \in [Node -> Timestamp] /\ dirty' \in [Node -> BOOLEAN]
      /\ \A x \in Node : Closed(x)' = Closed(x)
  BY <1>2, NewIntervalClosed
<1>9. TypeOK'
  BY <1>2, <1>5, <1>6, <1>8 DEF TypeOK, Network
<1>10. WaitInv'
  BY <1>2 DEF WaitInv
<1>11. ClaimInv'
  <2> SUFFICES ASSUME NEW x \in Node
               PROVE  /\ One(net', AnyClaim(x))
                      /\ \A a, b \in Node : \A k, j \in LockId :
                           lock'[a][k].next = x /\ lock'[b][j].next = x => a = b /\ k = j
                      /\ \A a \in Node : \A k \in LockId : lock'[a][k].next = x =>
                           waitFor[x] = k /\ ~channel[x] /\ ~Has(net', AnyClaim(x))
                      /\ channel[x] => ~Has(net', AnyClaim(x))
                      /\ \A k \in LockId : Has(net', Claim(x, k)) => waitFor[x] = k
    BY <1>2 DEF ClaimInv
  <2>0. \A a \in Node : \A k \in LockId : lock'[a][k].next = lock[a][k].next
    BY <1>6
  <2>1. One(net, AnyClaim(x))
    BY DEF ClaimInv
  <2>2. CASE x = f
    <3>1. \A k \in LockId : Has(net', Claim(f, k)) => waitFor[f] = k
      BY <1>1, <1>4, <1>5 DEF ClaimInv
    <3>2. One(net', AnyClaim(f))
      BY <1>1, <1>5, <2>1, <2>2
    <3>3. QED
      BY <2>0, <2>2, <3>1, <3>2, <1>1
  <2>3. CASE x # f
    <3>1. /\ Has(net', AnyClaim(x)) => Has(net, AnyClaim(x))
          /\ One(net', AnyClaim(x))
          /\ \A k \in LockId : Has(net', Claim(x, k)) => Has(net, Claim(x, k))
      BY <1>1, <1>4, <1>5, <2>1, <2>3
    <3>2. QED
      BY <2>0, <3>1 DEF ClaimInv
  <2>4. QED
    BY <2>2, <2>3
<1>12. TokenInv'
  <2> SUFFICES ASSUME NEW k \in LockId
               PROVE  /\ One(net', Token(k))
                      /\ \A x \in Node : lock'[x][k].haveToken => ~Has(net', Token(k))
                      /\ \A x, y \in Node :
                           lock'[x][k].haveToken /\ lock'[y][k].haveToken => x = y
    BY DEF TokenInv
  <2>1. CASE k = l
    BY <2>1, <1>5, <1>7
  <2>2. CASE k # l
    <3>1. \A x \in Node : lock'[x][k].haveToken = lock[x][k].haveToken
      BY <1>6, <2>2
    <3>2. /\ Has(net', Token(k)) => Has(net, Token(k))
          /\ One(net, Token(k)) => One(net', Token(k))
      BY <1>1, <1>4, <1>5, <2>2
    <3>3. QED
      BY <3>1, <3>2 DEF TokenInv
  <2>3. QED
    BY <2>1, <2>2
<1>13. LockedInv'
  <2> SUFFICES ASSUME NEW x \in Node, NEW k \in LockId
               PROVE  /\ lock'[x][k].locked => lock'[x][k].haveToken
                      /\ k \in held[x] => lock'[x][k].locked
                      /\ channel[x] /\ waitFor[x] = k => lock'[x][k].locked
                      /\ lock'[x][k].locked => k \in held[x] \/ (channel[x] /\ waitFor[x] = k)
    BY <1>2 DEF LockedInv
  <2>1. lock'[x][k].locked = lock[x][k].locked
    BY <1>6
  <2>2. lock[x][k].locked => lock'[x][k].haveToken
    BY <1>2, <1>6 DEF LockedInv
  <2>3. QED
    BY <2>1, <2>2 DEF LockedInv
<1>14. ReleasedInv'
  <2>1. \A k \in LockId : StaleToken(k)' = StaleToken(k)
    BY <1>2 DEF StaleToken
  <2>2. covers(Closed(p), released[l])
    BY <1>1, <1>2 DEF ReleasedInv
  <2>3. \A k \in LockId : ~Has(net', StaleToken(k))
    BY <1>1, <1>4, <1>5, <2>2 DEF ReleasedInv
  <2>4. ASSUME NEW k \in LockId, NEW x \in Node, lock'[x][k].haveToken
        PROVE  covers(Closed(x)', released[k])
    <3>1. lock[x][k].haveToken
      BY <1>6, <2>4
    <3>2. QED
      BY <3>1, <1>8 DEF ReleasedInv
  <2>5. QED
    BY <1>2, <2>1, <2>3, <2>4 DEF ReleasedInv
<1>15. QED
  BY <1>9, <1>10, <1>11, <1>12, <1>13, <1>14

LEMMA EnqueueStep ==
  ASSUME IInv, NEW p \in Node, NEW q \in Node, Enqueue(p, q)
  PROVE  IInv'
<1> USE DEF IInv
<1> DEFINE f == Head(net[q][p]).From
           l == Head(net[q][p]).LockId
<1>1. /\ net \in Network /\ net[q][p] # <<>>
      /\ f \in Node /\ l \in LockId
      /\ Head(net[q][p]) = Request(f, l)
      /\ Request(f, l) \in AnyClaim(f)[p]
      /\ waitFor[f] = l /\ ~channel[f]
      /\ \A x \in Node : \A k \in LockId : lock[x][k].next # f
  <2>1. Next1(q, p, "acquireRequest")
    BY DEF Enqueue, NextFree
  <2>2. QED
    BY <2>1, HeadRequest
<1>2. /\ lock[p][l].next = NoNode
      /\ net' = Taken(net, q, p)
      /\ lock' = [lock EXCEPT ![p][l] = [@ EXCEPT !.next = f, !.last = f]]
      /\ UNCHANGED <<timestamp, dirty, channel, waitFor, held, released>>
  BY DEF Enqueue, NextFree
<1> HIDE DEF f, l
<1>3. /\ net' \in Network
      /\ \A S : /\ Has(net', S) => Has(net, S)
                /\ One(net, S) => One(net', S)
                /\ One(net, S) /\ Request(f, l) \in S[p] => ~Has(net', S)
  BY <1>1, <1>2, TakenQueue, TakenHas
<1>4. /\ lock' \in [Node -> [LockId -> LockRecord]]
      /\ lock'[p][l].next = f
      /\ \A x \in Node : \A k \in LockId :
           /\ lock'[x][k].locked = lock[x][k].locked
           /\ lock'[x][k].haveToken = lock[x][k].haveToken
           /\ ~(x = p /\ k = l) => lock'[x][k].next = lock[x][k].next
  <2> DEFINE r == [lock[p][l] EXCEPT !.next = f, !.last = f]
  <2>1. lock[p][l] \in LockRecord
    BY <1>1 DEF TypeOK
  <2>2. /\ r \in LockRecord /\ r.next = f
        /\ r.locked = lock[p][l].locked /\ r.haveToken = lock[p][l].haveToken
    BY <1>1, <2>1 DEF LockRecord
  <2>3. lock' = [lock EXCEPT ![p][l] = r]
    BY <1>2
  <2> HIDE DEF r
  <2>4. /\ lock' \in [Node -> [LockId -> LockRecord]]
        /\ lock'[p][l] = r
        /\ \A x \in Node : \A k \in LockId :
             ~(x = p /\ k = l) => lock'[x][k] = lock[x][k]
    BY <1>1, <2>2, <2>3 DEF TypeOK
  <2>5. QED
    BY <2>2, <2>4
<1>5. TypeOK'
  BY <1>2, <1>3, <1>4 DEF TypeOK, Network
<1>6. WaitInv'
  BY <1>2 DEF WaitInv
<1>7. ClaimInv'
  <2> SUFFICES ASSUME NEW x \in Node
               PROVE  /\ One(net', AnyClaim(x))
                      /\ \A a, b \in Node : \A k, j \in LockId :
                           lock'[a][k].next = x /\ lock'[b][j].next = x => a = b /\ k = j
                      /\ \A a \in Node : \A k \in LockId : lock'[a][k].next = x =>
                           waitFor[x] = k /\ ~channel[x] /\ ~Has(net', AnyClaim(x))
                      /\ channel[x] => ~Has(net', AnyClaim(x))
                      /\ \A k \in LockId : Has(net', Claim(x, k)) => waitFor[x] = k
    BY <1>2 DEF ClaimInv
  <2>0. One(net, AnyClaim(x))
    BY DEF ClaimInv
  <2>1. CASE x = f
    <3>1. ~Has(net', AnyClaim(f)) /\ One(net', AnyClaim(f))
      BY <1>1, <1>3, <2>0, <2>1
    <3>2. \A k \in LockId : ~Has(net', Claim(f, k))
      BY <1>1, <3>1, ClaimIsAny
    <3>3. ASSUME NEW a \in Node, NEW k \in LockId, lock'[a][k].next = f
          PROVE  a = p /\ k = l
      <4>1. ~(a = p /\ k = l) => lock'[a][k].next = lock[a][k].next
        BY <1>4
      <4>2. lock[a][k].next # f
        BY <1>1
      <4>3. QED
        BY <3>3, <4>1, <4>2
    <3>4. QED
      BY <1>1, <2>1, <3>1, <3>2, <3>3
  <2>2. CASE x # f
    <3>1. \A a \in Node : \A k \in LockId : lock'[a][k].next = x => lock[a][k].next = x
      BY <1>4, <2>2
    <3>2. \A a, b \in Node : \A k, j \in LockId :
            lock'[a][k].next = x /\ lock'[b][j].next = x => a = b /\ k = j
      BY <3>1 DEF ClaimInv
    <3>3. QED
      BY <1>3, <3>1, <3>2 DEF ClaimInv
  <2>3. QED
    BY <2>1, <2>2
<1>8. TokenInv'
  BY <1>3, <1>4, SameTokens
<1>9. LockedInv'
  BY <1>2, <1>4 DEF LockedInv
<1>10. ReleasedInv'
  <2>1. \A k \in LockId : StaleToken(k)' = StaleToken(k)
    BY <1>2 DEF StaleToken
  <2>2. \A x \in Node : Closed(x)' = Closed(x)
    BY <1>2 DEF Closed
  <2>3. QED
    BY <1>2, <1>3, <1>4, <2>1, <2>2 DEF ReleasedInv
<1>11. QED
  BY <1>5, <1>6, <1>7, <1>8, <1>9, <1>10

LEMMA ForwardStep ==
  ASSUME IInv, NEW p \in Node, NEW q \in Node, Forward(p, q)
  PROVE  IInv'
<1> USE DEF IInv
<1> DEFINE f == Head(net[q][p]).From
           l == Head(net[q][p]).LockId
           n == lock[p][l].last
<1>1. /\ net \in Network /\ net[q][p] # <<>>
      /\ f \in Node /\ l \in LockId
      /\ Head(net[q][p]) = Request(f, l) /\ Request(f, l) \in Message
      /\ Request(f, l) \in AnyClaim(f)[p]
      /\ waitFor[f] = l /\ ~channel[f]
      /\ \A x \in Node : \A k \in LockId : lock[x][k].next # f
  <2>1. Next1(q, p, "acquireRequest")
    BY Zenon DEF Forward
  <2>2. QED
    BY <2>1, HeadRequest
<1>2. /\ net' = Sent(Taken(net, q, p), p, n, Request(f, l))
      /\ lock' = [lock EXCEPT ![p][l].last = f]
      /\ UNCHANGED <<timestamp, dirty, channel, waitFor, held, released>>
  BY <1>1, Zenon DEF Forward
<1>3. n \in Node
  BY <1>1 DEF TypeOK, LockRecord
<1> HIDE DEF f, l, n
<1>4. /\ net' \in Network
      /\ \A S : /\ Has(net', S) => Has(net, S) \/ Request(f, l) \in S[n]
                /\ One(net, S) /\ Request(f, l) \notin S[n] => One(net', S)
                /\ One(net, S) /\ Request(f, l) \in S[p] => One(net', S)
  BY <1>1, <1>2, <1>3, RelayHas
<1>5. /\ \A y \in Node : Request(f, l) \in AnyClaim(y)[n] <=> f = y
      /\ \A y \in Node : \A k \in LockId : Request(f, l) \in Claim(y, k)[n] <=> f = y /\ l = k
      /\ \A k \in LockId : Request(f, l) \notin Token(k)[n]
      /\ \A k \in LockId : Request(f, l) \notin StaleToken(k)[n]
  BY <1>1, <1>3, RequestIn
<1>6. /\ lock' \in [Node -> [LockId -> LockRecord]]
      /\ \A x \in Node : \A k \in LockId :
           /\ lock'[x][k].locked = lock[x][k].locked
           /\ lock'[x][k].haveToken = lock[x][k].haveToken
           /\ lock'[x][k].next = lock[x][k].next
  <2> DEFINE r == [lock[p][l] EXCEPT !.last = f]
  <2>1. lock[p][l] \in LockRecord
    BY <1>1 DEF TypeOK
  <2>2. /\ r \in LockRecord /\ r.next = lock[p][l].next
        /\ r.locked = lock[p][l].locked /\ r.haveToken = lock[p][l].haveToken
    BY <1>1, <2>1 DEF LockRecord
  <2>3. lock' = [lock EXCEPT ![p][l] = r]
    BY <1>2
  <2> HIDE DEF r
  <2>4. /\ lock' \in [Node -> [LockId -> LockRecord]]
        /\ lock'[p][l] = r
        /\ \A x \in Node : \A k \in LockId :
             ~(x = p /\ k = l) => lock'[x][k] = lock[x][k]
    BY <1>1, <2>2, <2>3 DEF TypeOK
  <2>5. QED
    BY <2>2, <2>4
<1>7. TypeOK'
  BY <1>2, <1>4, <1>6 DEF TypeOK, Network
<1>8. WaitInv'
  BY <1>2 DEF WaitInv
<1>9. ClaimInv'
  <2> SUFFICES ASSUME NEW x \in Node
               PROVE  /\ One(net', AnyClaim(x))
                      /\ \A a, b \in Node : \A k, j \in LockId :
                           lock'[a][k].next = x /\ lock'[b][j].next = x => a = b /\ k = j
                      /\ \A a \in Node : \A k \in LockId : lock'[a][k].next = x =>
                           waitFor[x] = k /\ ~channel[x] /\ ~Has(net', AnyClaim(x))
                      /\ channel[x] => ~Has(net', AnyClaim(x))
                      /\ \A k \in LockId : Has(net', Claim(x, k)) => waitFor[x] = k
    BY <1>2 DEF ClaimInv
  <2>0. One(net, AnyClaim(x))
    BY DEF ClaimInv
  <2>1. \A a \in Node : \A k \in LockId : lock'[a][k].next = lock[a][k].next
    BY <1>6
  <2>2. CASE x = f
    <3>1. \A k \in LockId : Has(net', Claim(f, k)) => waitFor[f] = k
      BY <1>1, <1>4, <1>5 DEF ClaimInv
    <3>2. One(net', AnyClaim(f))
      BY <1>1, <1>4, <2>0, <2>2
    <3>3. QED
      BY <1>1, <2>1, <2>2, <3>1, <3>2
  <2>3. CASE x # f
    <3>1. /\ Has(net', AnyClaim(x)) => Has(net, AnyClaim(x))
          /\ One(net', AnyClaim(x))
          /\ \A k \in LockId : Has(net', Claim(x, k)) => Has(net, Claim(x, k))
      BY <1>1, <1>4, <1>5, <2>0, <2>3
    <3>2. QED
      BY <2>1, <3>1 DEF ClaimInv
  <2>4. QED
    BY <2>2, <2>3
<1>10. TokenInv'
  BY <1>4, <1>5, <1>6, SameTokens
<1>11. LockedInv'
  BY <1>2, <1>6 DEF LockedInv
<1>12. ReleasedInv'
  <2>1. \A k \in LockId : StaleToken(k)' = StaleToken(k)
    BY <1>2 DEF StaleToken
  <2>2. \A x \in Node : Closed(x)' = Closed(x)
    BY <1>2 DEF Closed
  <2>3. QED
    BY <1>2, <1>4, <1>5, <1>6, <2>1, <2>2 DEF ReleasedInv
<1>13. QED
  BY <1>7, <1>8, <1>9, <1>10, <1>11, <1>12

LEMMA ResponseStep ==
  ASSUME IInv, NEW p \in Node, NEW q \in Node, handleLockAcquireResponse(p, q)
  PROVE  IInv'
<1> USE DEF IInv
<1> DEFINE l == Head(net[q][p]).LockId
           ts == Head(net[q][p]).Timestamp
<1>1. /\ net \in Network /\ net[q][p] # <<>>
      /\ l \in LockId /\ ts \in Timestamp
      /\ Head(net[q][p]) = Response(l, ts)
  <2>1. net \in Network /\ net[q][p] # <<>>
    BY DEF TypeOK, Network, Next1, handleLockAcquireResponse
  <2>2. QED
    BY <2>1, TakenQueue, MessageCases DEF Next1, handleLockAcquireResponse
<1>2. /\ net' = Taken(net, q, p)
      /\ timestamp' = [timestamp EXCEPT ![p] = merge(Closed(p), ts)]
      /\ dirty' = [dirty EXCEPT ![p] = FALSE]
      /\ lock' = [lock EXCEPT ![p][l] = [@ EXCEPT !.locked = TRUE, !.haveToken = TRUE]]
      /\ channel' = [channel EXCEPT ![p] = TRUE]
      /\ UNCHANGED <<waitFor, held, released>>
  BY DEF handleLockAcquireResponse
<1> HIDE DEF l, ts
<1>3. /\ net' \in Network
      /\ \A S : /\ Has(net', S) => Has(net, S)
                /\ One(net, S) => One(net', S)
                /\ Response(l, ts) \in S[p] => Has(net, S)
                /\ One(net, S) /\ Response(l, ts) \in S[p] => ~Has(net', S)
  BY <1>1, <1>2, TakenQueue, TakenHas
<1>4. /\ Response(l, ts) \in AnyClaim(p)[p] /\ Response(l, ts) \in Claim(p, l)[p]
      /\ Response(l, ts) \in Token(l)[p]
      /\ ~covers(ts, released[l]) => Response(l, ts) \in StaleToken(l)[p]
  BY <1>1, ResponseIn
<1>5. /\ waitFor[p] = l /\ ~channel[p] /\ ~Has(net', AnyClaim(p))
      /\ \A x \in Node : \A k \in LockId : lock[x][k].next # p
      /\ covers(ts, released[l])
      /\ ~Has(net', Token(l)) /\ \A x \in Node : ~lock[x][l].haveToken
  <2>1. waitFor[p] = l /\ ~channel[p]
        /\ \A x \in Node : \A k \in LockId : lock[x][k].next # p
    BY <1>1, <1>3, <1>4 DEF ClaimInv
  <2>2. ~Has(net', AnyClaim(p)) /\ ~Has(net', Token(l))
    BY <1>1, <1>3, <1>4 DEF ClaimInv, TokenInv
  <2>3. covers(ts, released[l])
    BY <1>1, <1>3, <1>4 DEF ReleasedInv
  <2>4. \A x \in Node : ~lock[x][l].haveToken
    BY <1>1, <1>3, <1>4 DEF TokenInv
  <2>5. QED
    BY <2>1, <2>2, <2>3, <2>4
<1>6. /\ lock' \in [Node -> [LockId -> LockRecord]]
      /\ lock'[p][l].locked /\ lock'[p][l].haveToken
      /\ \A x \in Node : \A k \in LockId :
           /\ lock'[x][k].next = lock[x][k].next
           /\ ~(x = p /\ k = l) =>
                /\ lock'[x][k].locked = lock[x][k].locked
                /\ lock'[x][k].haveToken = lock[x][k].haveToken
  <2> DEFINE r == [lock[p][l] EXCEPT !.locked = TRUE, !.haveToken = TRUE]
  <2>1. lock[p][l] \in LockRecord
    BY <1>1 DEF TypeOK
  <2>2. /\ r \in LockRecord /\ r.next = lock[p][l].next
        /\ r.locked /\ r.haveToken
    BY <1>1, <2>1 DEF LockRecord
  <2>3. lock' = [lock EXCEPT ![p][l] = r]
    BY <1>2
  <2> HIDE DEF r
  <2>4. /\ lock' \in [Node -> [LockId -> LockRecord]]
        /\ lock'[p][l] = r
        /\ \A x \in Node : \A k \in LockId :
             ~(x = p /\ k = l) => lock'[x][k] = lock[x][k]
    BY <1>1, <2>2, <2>3 DEF TypeOK
  <2>5. QED
    BY <2>2, <2>4
<1>7. /\ Closed(p) \in Timestamp /\ merge(Closed(p), ts) \in Timestamp
      /\ covers(merge(Closed(p), ts), Closed(p)) /\ covers(merge(Closed(p), ts), ts)
  BY <1>1, ClosedType, TimestampType, MergeMeetBounds DEF Timestamp
<1>8. /\ timestamp' \in [Node -> Timestamp] /\ dirty' \in [Node -> BOOLEAN]
      /\ Closed(p)' = merge(Closed(p), ts)
      /\ \A x \in Node : x # p => Closed(x)' = Closed(x)
  BY <1>2, <1>7 DEF Closed, TypeOK
<1>9. channel' \in [Node -> BOOLEAN] /\ channel'[p]
      /\ \A x \in Node : x # p => channel'[x] = channel[x]
  BY <1>2 DEF TypeOK
<1>10. TypeOK'
  BY <1>2, <1>3, <1>6, <1>8, <1>9 DEF TypeOK, Network
<1>11. WaitInv'
  BY <1>1, <1>2, <1>5, <1>9 DEF WaitInv
<1>12. ClaimInv'
  <2> SUFFICES ASSUME NEW x \in Node
               PROVE  /\ One(net', AnyClaim(x))
                      /\ \A a, b \in Node : \A k, j \in LockId :
                           lock'[a][k].next = x /\ lock'[b][j].next = x => a = b /\ k = j
                      /\ \A a \in Node : \A k \in LockId : lock'[a][k].next = x =>
                           waitFor[x] = k /\ ~channel'[x] /\ ~Has(net', AnyClaim(x))
                      /\ channel'[x] => ~Has(net', AnyClaim(x))
                      /\ \A k \in LockId : Has(net', Claim(x, k)) => waitFor[x] = k
    BY <1>2 DEF ClaimInv
  <2>1. \A a \in Node : \A k \in LockId : lock'[a][k].next = lock[a][k].next
    BY <1>6
  <2>2. CASE x = p
    <3>1. \A k \in LockId : Has(net', Claim(p, k)) => waitFor[p] = k
      BY <1>3 DEF ClaimInv
    <3>2. One(net', AnyClaim(p))
      BY <1>3 DEF ClaimInv
    <3>3. QED
      BY <1>5, <2>1, <2>2, <3>1, <3>2
  <2>3. CASE x # p
    <3>1. \A a, b \in Node : \A k, j \in LockId :
            lock'[a][k].next = x /\ lock'[b][j].next = x => a = b /\ k = j
      BY <2>1 DEF ClaimInv
    <3>2. QED
      BY <1>3, <1>9, <2>1, <2>3, <3>1 DEF ClaimInv
  <2>4. QED
    BY <2>2, <2>3
<1>13. TokenInv'
  <2> SUFFICES ASSUME NEW k \in LockId
               PROVE  /\ One(net', Token(k))
                      /\ \A x \in Node : lock'[x][k].haveToken => ~Has(net', Token(k))
                      /\ \A x, y \in Node :
                           lock'[x][k].haveToken /\ lock'[y][k].haveToken => x = y
    BY DEF TokenInv
  <2>0. One(net', Token(k))
    BY <1>3 DEF TokenInv
  <2>1. CASE k = l
    <3>1. ASSUME NEW x \in Node, lock'[x][l].haveToken, x # p PROVE FALSE
      <4>1. lock'[x][l].haveToken = lock[x][l].haveToken
        BY <1>1, <1>6, <3>1
      <4>2. QED
        BY <1>5, <3>1, <4>1
    <3>2. QED
      BY <2>0, <2>1, <3>1, <1>5
  <2>2. CASE k # l
    <3>1. \A x \in Node : lock'[x][k].haveToken = lock[x][k].haveToken
      BY <1>6, <2>2
    <3>2. QED
      BY <2>0, <3>1, <1>3 DEF TokenInv
  <2>3. QED
    BY <2>1, <2>2
<1>14. LockedInv'
  <2> SUFFICES ASSUME NEW x \in Node, NEW k \in LockId
               PROVE  /\ lock'[x][k].locked => lock'[x][k].haveToken
                      /\ k \in held[x] => lock'[x][k].locked
                      /\ channel'[x] /\ waitFor[x] = k => lock'[x][k].locked
                      /\ lock'[x][k].locked => k \in held[x] \/ (channel'[x] /\ waitFor[x] = k)
    BY <1>2 DEF LockedInv
  <2>1. CASE x = p /\ k = l
    BY <1>5, <1>6, <1>9, <2>1
  <2>2. CASE ~(x = p /\ k = l)
    <3>1. /\ lock'[x][k].locked = lock[x][k].locked
          /\ lock'[x][k].haveToken = lock[x][k].haveToken
      BY <1>6, <2>2
    <3>2. channel'[x] /\ waitFor[x] = k <=> channel[x] /\ waitFor[x] = k
      BY <1>5, <1>9, <2>2
    <3>3. QED
      BY <3>1, <3>2 DEF LockedInv
  <2>3. QED
    BY <2>1, <2>2
<1>15. ReleasedInv'
  <2>1. \A k \in LockId : StaleToken(k)' = StaleToken(k)
    BY <1>2 DEF StaleToken
  <2>2. \A k \in LockId : ~Has(net', StaleToken(k))
    BY <1>3 DEF ReleasedInv
  <2>3. ASSUME NEW k \in LockId, NEW x \in Node, lock'[x][k].haveToken
        PROVE  covers(Closed(x)', released[k])
    <3>0. released[k] \in Timestamp
      BY DEF TypeOK
    <3>1. CASE x = p /\ k = l
      <4>1. /\ ts \in [Node -> Nat] /\ released[k] \in [Node -> Nat]
            /\ merge(Closed(p), ts) \in [Node -> Nat]
        BY <3>0, <1>1, <1>7 DEF Timestamp
      <4>2. covers(merge(Closed(p), ts), ts) /\ covers(ts, released[k])
        BY <3>1, <1>5, <1>7
      <4>3. covers(merge(Closed(p), ts), released[k])
        BY <4>1, <4>2, CoversOrder
      <4>4. QED
        BY <3>1, <4>3, <1>8
    <3>2. CASE ~(x = p /\ k = l)
      <4>1. lock[x][k].haveToken
        BY <1>6, <2>3, <3>2
      <4>2. covers(Closed(x), released[k])
        BY <4>1 DEF ReleasedInv
      <4>3. CASE x = p
        <5>1. covers(merge(Closed(p), ts), released[k])
          BY <3>0, <4>2, <4>3, <1>7, CoversOrder DEF Timestamp
        <5>2. QED
          BY <4>3, <5>1, <1>8
      <4>4. CASE x # p
        BY <4>2, <4>4, <1>8
      <4>5. QED
        BY <4>3, <4>4
    <3>3. QED
      BY <3>1, <3>2
  <2>4. QED
    BY <1>2, <2>1, <2>2, <2>3 DEF ReleasedInv
<1>16. QED
  BY <1>10, <1>11, <1>12, <1>13, <1>14, <1>15

-------------------------------------------------------------------------------
(* The theorems *)

\* Every step of the protocol keeps the inductive invariant.
LEMMA NextStep ==
  ASSUME IInv, [Next]_vars
  PROVE  IInv'
<1>1. ASSUME NEW p \in Node, Application(p)
      PROVE  IInv'
  <2>1. CASE Write(p)
    BY <2>1, WriteStep
  <2>2. CASE Wake(p)
    BY <2>2, WakeStep
  <2>3. ASSUME NEW l \in LockId, AcquireLocal(p, l)
        PROVE  IInv'
    BY <2>3, AcquireLocalStep
  <2>4. ASSUME NEW l \in LockId, AcquireRemote(p, l)
        PROVE  IInv'
    BY <2>4, AcquireRemoteStep
  <2>5. ASSUME NEW l \in LockId, ReleaseLock(p, l)
        PROVE  IInv'
    BY <2>5, ReleaseKeepStep, ReleasePassStep
  <2>6. QED
    BY <1>1, <2>1, <2>2, <2>3, <2>4, <2>5 DEF Application
<1>2. ASSUME NEW p \in Node, NEW q \in Node, handleIncoming(p, q)
      PROVE  IInv'
  <2>1. CASE PassToken(p, q)
    BY <2>1, PassTokenStep
  <2>2. CASE Enqueue(p, q)
    BY <2>2, EnqueueStep
  <2>3. CASE Forward(p, q)
    BY <2>3, ForwardStep
  <2>4. CASE handleLockAcquireResponse(p, q)
    BY <2>4, ResponseStep
  <2>5. QED
    BY <1>2, <2>1, <2>2, <2>3, <2>4 DEF handleIncoming, handleLockAcquireRequest
<1>3. CASE UNCHANGED vars
  BY <1>3, StutterStep
<1>4. QED
  BY <1>1, <1>2, <1>3 DEF Next

\* The inductive invariant holds in every state the lock protocol reaches.
THEOREM Invariance == Spec => []IInv
<1>1. Init => IInv
  BY InitIInv
<1>2. IInv /\ [Next]_vars => IInv'
  BY NextStep
<1>3. QED
  BY <1>1, <1>2, PTL DEF Spec

\* The fields, messages and timestamps of the protocol keep their types.
THEOREM TypeCorrect == Spec => []TypeOK
<1>1. IInv => TypeOK
  BY DEF IInv
<1>2. QED
  BY <1>1, Invariance, PTL

\* Two programs are never between AcquireLock and ReleaseLock of one lock.
THEOREM MutexCorrect == Spec => []MutualExclusion
<1>1. IInv => MutualExclusion
  BY DEF IInv, TokenInv, LockedInv, MutualExclusion
<1>2. QED
  BY <1>1, Invariance, PTL

\* AcquireLock never panics with "locking lock twice" in a program that does
\* not itself lock twice: handleLockAcquireResponse locks only for a caller
\* that is blocked on t.channel.
THEOREM NoDoubleLockCorrect == Spec => []NoDoubleLock
<1>1. IInv => NoDoubleLock
  <2> SUFFICES ASSUME IInv, NEW p \in Node, NEW l \in LockId,
                      Running(p), l \notin held[p]
               PROVE  ~lock[p][l].locked
    BY DEF NoDoubleLock
  <2>1. waitFor[p] # l
    BY NoLockAssumption DEF Running
  <2>2. QED
    BY <2>1 DEF IInv, LockedInv
<1>2. QED
  BY <1>1, Invariance, PTL

\* A program inside a lock has seen every interval that precedes the lock's
\* last release (newInterval, getMissingIntervals, addInterval).
THEOREM ReleaseVisibleCorrect == Spec => []ReleaseVisible
<1>1. IInv => ReleaseVisible
  BY DEF IInv, LockedInv, ReleasedInv, ReleaseVisible
<1>2. QED
  BY <1>1, Invariance, PTL

\* A node that has a lock's token unlocked, or that is woken with it, finds
\* no program inside the lock.
LEMMA TokenMeansFree ==
  ASSUME IInv, NEW p \in Node, NEW l \in LockId, lock[p][l].haveToken,
         l \notin held[p]
  PROVE  Service!Free(l)
<1> SUFFICES ASSUME NEW x \in Node, l \in held[x]
             PROVE  FALSE
  BY DEF Service!Free
<1>1. lock[x][l].haveToken
  BY DEF IInv, LockedInv
<1>2. x = p
  BY <1>1 DEF IInv, TokenInv
<1>3. QED
  BY <1>2

\* A step of the protocol is a step of the lock service or one that no
\* program sees.
LEMMA ServiceStep ==
  ASSUME IInv, [Next]_vars
  PROVE  [Service!Next]_(Service!vars)
<1> USE DEF Service!vars
<1>1. ASSUME NEW p \in Node, Write(p)
      PROVE  UNCHANGED Service!vars
  BY <1>1 DEF Write
<1>2. ASSUME NEW p \in Node, Wake(p)
      PROVE  Service!Grant(p)
  <2> DEFINE l == waitFor[p]
  <2>1. l \in LockId /\ lock[p][l].haveToken /\ l \notin held[p]
    BY <1>2 DEF Wake, IInv, WaitInv, LockedInv
  <2>2. Service!Free(l)
    BY <2>1, TokenMeansFree
  <2>3. QED
    BY <1>2, <2>1, <2>2 DEF Wake, Service!Grant
<1>3. ASSUME NEW p \in Node, NEW l \in LockId, AcquireLocal(p, l)
      PROVE  Service!Take(p, l)
  <2>1. lock[p][l].haveToken /\ l \notin held[p]
    BY <1>3 DEF AcquireLocal, IInv, LockedInv
  <2>2. Service!Free(l)
    BY <2>1, TokenMeansFree
  <2>3. QED
    BY <1>3, <2>2
    DEF AcquireLocal, Service!Take, Running, InOrder, Service!InOrder
<1>4. ASSUME NEW p \in Node, NEW l \in LockId, AcquireRemote(p, l)
      PROVE  Service!Block(p, l)
  BY <1>4 DEF AcquireRemote, Service!Block, Running, InOrder, Service!InOrder
<1>5. ASSUME NEW p \in Node, NEW l \in LockId, ReleaseLock(p, l)
      PROVE  Service!Release(p, l)
  BY <1>5 DEF ReleaseLock, Service!Release, Running
<1>6. ASSUME NEW p \in Node, NEW q \in Node, handleIncoming(p, q)
      PROVE  UNCHANGED Service!vars
  BY <1>6, Zenon DEF handleIncoming, handleLockAcquireRequest, PassToken, Enqueue,
              Forward, handleLockAcquireResponse
<1>7. CASE UNCHANGED vars
  BY <1>7 DEF vars
<1>8. ASSUME NEW p \in Node, Application(p)
      PROVE  Service!Next \/ UNCHANGED Service!vars
  BY <1>8, <1>1, <1>2, <1>3, <1>4, <1>5 DEF Application, Service!Next
<1>9. QED
  BY <1>6, <1>7, <1>8 DEF Next

\* The lock protocol implements the lock service (safety): its messages and
\* tokens are invisible to programs.
THEOREM ServiceCorrect == Spec => ServiceSteps
<1>1. Init => Service!Init
  BY DEF Init, Service!Init
<1>2. IInv /\ [Next]_vars => [Service!Next]_(Service!vars)
  BY ServiceStep
<1>3. QED
  BY <1>1, <1>2, Invariance, PTL DEF Spec, ServiceSteps, Service!Spec
===============================================================================
