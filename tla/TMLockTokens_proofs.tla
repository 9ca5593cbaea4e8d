-------------------------- MODULE TMLockTokens_proofs --------------------------
(***************************************************************************)
(* Nothing is lost in TMLock: a lock's token is always at a node or in a   *)
(* message, and a blocked AcquireLock is always known somewhere.  With     *)
(* TMLock_proofs, where there is never more than one of either, there is   *)
(* exactly one.                                                            *)
(***************************************************************************)
EXTENDS TMLock_proofs, FiniteSetTheorems

\* Somebody has the token of l, or it is on its way.
TokenThere ==
  \A l \in LockId : (\E p \in Node : lock[p][l].haveToken) \/ Has(net, Token(l))

\* Whoever waits for l has been woken, has a message under way, or is somebody's
\* next.
ClaimThere ==
  \A p \in Node : \A l \in LockId : waitFor[p] = l =>
    \/ channel[p]
    \/ Has(net, Claim(p, l))
    \/ \E n \in Node : lock[n][l].next = p

There == TokenThere /\ ClaimThere

-------------------------------------------------------------------------------
(* What queues and records keep *)

\* What was in the network is still there, unless it was the message taken.
LEMMA TakenKeeps ==
  ASSUME NEW nw \in Network, NEW q \in Node, NEW p \in Node, nw[q][p] # <<>>,
         NEW t, t = Taken(nw, q, p), NEW S, Has(nw, S), Head(nw[q][p]) \notin S[p]
  PROVE  Has(t, S)
<1>0. PICK a \in Node, b \in Node : \E i \in 1 .. Len(nw[a][b]) : nw[a][b][i] \in S[b]
  BY DEF Has
<1>1. PICK i \in 1 .. Len(nw[a][b]) : nw[a][b][i] \in S[b]
  BY <1>0
<1>2. /\ Head(nw[q][p]) = nw[q][p][1]
      /\ \A c, d \in Node : ~(c = q /\ d = p) => t[c][d] = nw[c][d]
  BY TakenQueue
<1>3. CASE ~(a = q /\ b = p)
  BY <1>1, <1>2, <1>3 DEF Has
<1>4. CASE a = q /\ b = p
  <2>1. nw[q][p] \in Seq(Message) /\ t[q][p] = Tail(nw[q][p])
    BY DEF Network, Taken
  <2>2. i # 1
    BY <1>1, <1>2, <1>4
  <2>3. i \in 2 .. Len(nw[q][p])
    BY <1>1, <1>4, <2>1, <2>2
  <2>4. i - 1 \in 1 .. Len(t[q][p]) /\ t[q][p][i - 1] = nw[q][p][i]
    BY <2>1, <2>3
  <2>5. QED
    BY <1>1, <1>4, <2>4 DEF Has
<1>5. QED
  BY <1>3, <1>4

\* Nothing gets lost by sending, and what is sent is there.
LEMMA SentKeeps ==
  ASSUME NEW nw \in Network, NEW p \in Node, NEW n \in Node, NEW m \in Message,
         NEW t, t = Sent(nw, p, n, m), NEW S, Has(nw, S) \/ m \in S[n]
  PROVE  Has(t, S)
<1>1. ASSUME NEW a \in Node, NEW b \in Node
      PROVE  t[a][b] = IF a = p /\ b = n THEN Append(nw[a][b], m) ELSE nw[a][b]
  BY DEF Sent, Network
<1>2. nw[p][n] \in Seq(Message)
  BY DEF Network
<1>3. CASE m \in S[n]
  <2>1. t[p][n] = Append(nw[p][n], m)
    BY <1>1
  <2>2. Len(nw[p][n]) + 1 \in 1 .. Len(t[p][n]) /\ t[p][n][Len(nw[p][n]) + 1] = m
    BY <1>2, <2>1
  <2>3. QED
    BY <1>3, <2>2 DEF Has
<1>4. CASE Has(nw, S)
  <2>0. PICK a \in Node, b \in Node : \E i \in 1 .. Len(nw[a][b]) : nw[a][b][i] \in S[b]
    BY <1>4 DEF Has
  <2>1. PICK i \in 1 .. Len(nw[a][b]) : nw[a][b][i] \in S[b]
    BY <2>0
  <2>2. nw[a][b] \in Seq(Message)
    BY DEF Network
  <2>3. i \in 1 .. Len(t[a][b]) /\ t[a][b][i] = nw[a][b][i]
    <3>1. t[a][b] = Append(nw[a][b], m) \/ t[a][b] = nw[a][b]
      BY <1>1
    <3>2. CASE t[a][b] = Append(nw[a][b], m)
      BY <3>2, <2>1, <2>2
    <3>3. QED
      BY <3>1, <3>2, <2>1
  <2>4. QED
    BY <2>1, <2>3 DEF Has
<1>5. QED
  BY <1>3, <1>4

LEMMA RelayKeeps ==
  ASSUME NEW nw \in Network, NEW q \in Node, NEW p \in Node, nw[q][p] # <<>>,
         NEW n \in Node, NEW m \in Message,
         NEW t, t = Sent(Taken(nw, q, p), p, n, m), NEW S,
         m \in S[n] \/ (Has(nw, S) /\ Head(nw[q][p]) \notin S[p])
  PROVE  Has(t, S)
<1>1. Taken(nw, q, p) \in Network
  BY TakenQueue
<1>2. Has(Taken(nw, q, p), S) \/ m \in S[n]
  BY TakenKeeps
<1>3. QED
  BY <1>1, <1>2, SentKeeps

\* Tokens and next fields stay where they are, and no message is lost.
LEMMA NothingMoves ==
  ASSUME There,
         \A x \in Node : \A k \in LockId :
           /\ lock'[x][k].haveToken = lock[x][k].haveToken
           /\ lock'[x][k].next = lock[x][k].next,
         \A k \in LockId : Has(net, Token(k)) => Has(net', Token(k)),
         \A x \in Node : \A k \in LockId :
           waitFor'[x] = k => waitFor[x] = k /\ (channel[x] => channel'[x]),
         \A x \in Node : \A k \in LockId :
           Has(net, Claim(x, k)) => Has(net', Claim(x, k))
  PROVE  There'
<1>1. TokenThere'
  BY DEF There, TokenThere
<1>2. ClaimThere'
  BY DEF There, ClaimThere
<1>3. QED
  BY <1>1, <1>2 DEF There

-------------------------------------------------------------------------------
(* The steps *)

LEMMA ThereInit == ASSUME Init PROVE There
<1>1. TokenThere
  BY ManagerAssumption DEF Init, TokenThere
<1>2. ClaimThere
  BY NoLockAssumption DEF Init, ClaimThere
<1>3. QED
  BY <1>1, <1>2 DEF There

LEMMA ThereLocal ==
  ASSUME IInv, There, NEW p \in Node, NEW l \in LockId,
         Write(p) \/ Wake(p) \/ AcquireLocal(p, l)
  PROVE  There'
<1>1. TypeOK
  BY DEF IInv
<1>2. net' = net
  BY DEF Write, Wake, AcquireLocal
<1>3. \A x \in Node : \A k \in LockId :
        /\ lock'[x][k].haveToken = lock[x][k].haveToken
        /\ lock'[x][k].next = lock[x][k].next
  <2>1. CASE lock' = lock
    BY <2>1
  <2>2. CASE AcquireLocal(p, l)
    <3> DEFINE r == [lock[p][l] EXCEPT !.locked = TRUE]
    <3>1. lock' = [lock EXCEPT ![p][l] = r]
      BY <2>2 DEF AcquireLocal
    <3>2. lock[p][l] \in LockRecord
      BY <1>1 DEF TypeOK
    <3>3. r.haveToken = lock[p][l].haveToken /\ r.next = lock[p][l].next
      BY <3>2 DEF LockRecord
    <3> HIDE DEF r
    <3>4. /\ lock'[p][l] = r
          /\ \A x \in Node : \A k \in LockId :
               ~(x = p /\ k = l) => lock'[x][k] = lock[x][k]
      BY <1>1, <3>1 DEF TypeOK
    <3>5. QED
      BY <3>3, <3>4
  <2>3. QED
    BY <2>1, <2>2 DEF Write, Wake
<1>4. \A x \in Node : \A k \in LockId :
        waitFor'[x] = k => waitFor[x] = k /\ (channel[x] => channel'[x])
  BY <1>1, NoLockAssumption DEF Write, Wake, AcquireLocal, TypeOK
<1>5. QED
  BY <1>2, <1>3, <1>4, NothingMoves

LEMMA ThereRemote ==
  ASSUME IInv, There, NEW p \in Node, NEW l \in LockId, AcquireRemote(p, l)
  PROVE  There'
<1> DEFINE n == lock[p][l].last
           r == [lock[p][l] EXCEPT !.last = p]
<1>1. TypeOK /\ net \in Network
  BY DEF IInv, TypeOK, Network
<1>2. /\ net' = Sent(net, p, n, Request(p, l))
      /\ lock' = [lock EXCEPT ![p][l] = r]
      /\ waitFor' = [waitFor EXCEPT ![p] = l]
      /\ channel' = channel
  BY DEF AcquireRemote
<1>3. lock[p][l] \in LockRecord
  BY <1>1 DEF TypeOK
<1>4. n \in Node /\ r.haveToken = lock[p][l].haveToken /\ r.next = lock[p][l].next
  BY <1>3 DEF LockRecord
<1> HIDE DEF n, r
<1>5. \A x \in Node : \A k \in LockId :
        /\ lock'[x][k].haveToken = lock[x][k].haveToken
        /\ lock'[x][k].next = lock[x][k].next
  <2>1. /\ lock'[p][l] = r
        /\ \A x \in Node : \A k \in LockId :
             ~(x = p /\ k = l) => lock'[x][k] = lock[x][k]
    BY <1>1, <1>2 DEF TypeOK
  <2>2. QED
    BY <1>4, <2>1
<1>6. Request(p, l) \in Message /\ Request(p, l) \in Claim(p, l)[n]
  BY <1>4, RequestIn
<1>7. \A S : Has(net, S) \/ Request(p, l) \in S[n] => Has(net', S)
  BY <1>1, <1>2, <1>4, <1>6, SentKeeps
<1>8. TokenThere'
  BY <1>5, <1>7 DEF There, TokenThere
<1>9. ClaimThere'
  <2> SUFFICES ASSUME NEW x \in Node, NEW k \in LockId, waitFor'[x] = k
               PROVE  \/ channel'[x] \/ Has(net', Claim(x, k))
                      \/ \E y \in Node : lock'[y][k].next = x
    BY DEF ClaimThere
  <2>1. CASE x = p
    <3>1. k = l
      BY <2>1, <1>1, <1>2 DEF TypeOK
    <3>2. QED
      BY <2>1, <3>1, <1>6, <1>7
  <2>2. CASE x # p
    <3>1. waitFor[x] = k
      BY <2>2, <1>1, <1>2 DEF TypeOK
    <3>2. QED
      BY <3>1, <1>2, <1>5, <1>7 DEF There, ClaimThere
  <2>3. QED
    BY <2>1, <2>2
<1>10. QED
  BY <1>8, <1>9 DEF There

LEMMA ThereReleaseKeep ==
  ASSUME IInv, There, NEW p \in Node, NEW l \in LockId, ReleaseLock(p, l),
         lock[p][l].next = NoNode
  PROVE  There'
<1> DEFINE r == [lock[p][l] EXCEPT !.locked = FALSE]
<1>1. TypeOK
  BY DEF IInv
<1>2. lock' = [lock EXCEPT ![p][l] = r] /\ UNCHANGED <<net, channel, waitFor>>
  BY DEF ReleaseLock
<1>3. lock[p][l] \in LockRecord
  BY <1>1 DEF TypeOK
<1>4. r.haveToken = lock[p][l].haveToken /\ r.next = lock[p][l].next
  BY <1>3 DEF LockRecord
<1> HIDE DEF r
<1>5. /\ lock'[p][l] = r
      /\ \A x \in Node : \A k \in LockId :
           ~(x = p /\ k = l) => lock'[x][k] = lock[x][k]
  BY <1>1, <1>2 DEF TypeOK
<1>6. QED
  BY <1>2, <1>4, <1>5, NothingMoves

\* The token and the claim of the next node go into one message.
LEMMA ThereReleasePass ==
  ASSUME IInv, There, NEW p \in Node, NEW l \in LockId, ReleaseLock(p, l),
         lock[p][l].next # NoNode
  PROVE  There'
<1> DEFINE n == lock[p][l].next
           m == Response(l, Closed(p))
           r == HandedOver(lock[p][l])
<1>1. TypeOK /\ net \in Network
  BY DEF IInv, TypeOK, Network
<1>2. /\ net' = Sent(net, p, n, m)
      /\ lock' = [lock EXCEPT ![p][l] = r]
      /\ UNCHANGED <<channel, waitFor>>
  BY DEF ReleaseLock
<1>3. n \in Node
  BY <1>1 DEF TypeOK, LockRecord
<1>4. m \in Message /\ m \in Token(l)[n] /\ m \in Claim(n, l)[n]
  BY <1>1, <1>3, ClosedType, ResponseIn
<1>5. n = lock[p][l].next
  OBVIOUS
<1> HIDE DEF n, m, r
<1>6. \A x \in Node : \A k \in LockId :
        ~(x = p /\ k = l) => lock'[x][k] = lock[x][k]
  BY <1>1, <1>2 DEF TypeOK
<1>7. \A S : Has(net, S) \/ m \in S[n] => Has(net', S)
  BY <1>1, <1>2, <1>3, <1>4, SentKeeps
<1>8. TokenThere'
  <2> SUFFICES ASSUME NEW k \in LockId
               PROVE  (\E x \in Node : lock'[x][k].haveToken) \/ Has(net', Token(k))
    BY DEF TokenThere
  <2>1. CASE k = l
    BY <2>1, <1>4, <1>7
  <2>2. CASE k # l
    BY <2>2, <1>6, <1>7 DEF There, TokenThere
  <2>3. QED
    BY <2>1, <2>2
<1>9. ClaimThere'
  <2> SUFFICES ASSUME NEW x \in Node, NEW k \in LockId, waitFor[x] = k
               PROVE  \/ channel[x] \/ Has(net', Claim(x, k))
                      \/ \E y \in Node : lock'[y][k].next = x
    BY <1>2 DEF ClaimThere
  <2>1. channel[x] \/ Has(net, Claim(x, k)) \/ \E y \in Node : lock[y][k].next = x
    BY DEF There, ClaimThere
  <2>2. ASSUME NEW y \in Node, lock[y][k].next = x
        PROVE  Has(net', Claim(x, k)) \/ lock'[y][k].next = x
    <3>1. CASE y = p /\ k = l
      BY <2>2, <3>1, <1>4, <1>5, <1>7
    <3>2. CASE ~(y = p /\ k = l)
      BY <2>2, <3>2, <1>6
    <3>3. QED
      BY <3>1, <3>2
  <2>3. QED
    BY <2>1, <2>2, <1>7
<1>10. QED
  BY <1>8, <1>9 DEF There

\* The request becomes a response.
LEMMA TherePass ==
  ASSUME IInv, There, NEW p \in Node, NEW q \in Node, PassToken(p, q)
  PROVE  There'
<1> DEFINE f == Head(net[q][p]).From
           l == Head(net[q][p]).LockId
           m == Response(l, Closed(p))
           r == [lock[p][l] EXCEPT !.haveToken = FALSE, !.last = f]
<1>1. /\ TypeOK /\ net \in Network /\ net[q][p] # <<>>
      /\ f \in Node /\ l \in LockId /\ Head(net[q][p]) = Request(f, l)
      /\ waitFor[f] = l
  <2>1. Next1(q, p, "acquireRequest")
    BY DEF PassToken, CanPass
  <2>2. QED
    BY <2>1, HeadRequest DEF IInv
<1>2. /\ net' = Sent(Taken(net, q, p), p, f, m)
      /\ lock' = [lock EXCEPT ![p][l] = r]
      /\ UNCHANGED <<channel, waitFor>>
  BY DEF PassToken
<1>3. r.next = lock[p][l].next
  BY <1>1 DEF TypeOK, LockRecord
<1> HIDE DEF f, l
<1>4. m \in Message /\ m \in Token(l)[f] /\ m \in Claim(f, l)[f]
  BY <1>1, ClosedType, ResponseIn
<1>5. /\ \A k \in LockId : Request(f, l) \notin Token(k)[p]
      /\ \A x \in Node : \A k \in LockId : Request(f, l) \in Claim(x, k)[p] => x = f /\ k = l
  BY <1>1, RequestIn
<1> HIDE DEF m, r
<1>6. /\ lock'[p][l] = r
      /\ \A x \in Node : \A k \in LockId :
           ~(x = p /\ k = l) => lock'[x][k] = lock[x][k]
  BY <1>1, <1>2 DEF TypeOK
<1>7. \A S : m \in S[f] \/ (Has(net, S) /\ Request(f, l) \notin S[p]) => Has(net', S)
  BY <1>1, <1>2, <1>4, RelayKeeps
<1>8. TokenThere'
  <2> SUFFICES ASSUME NEW k \in LockId
               PROVE  (\E x \in Node : lock'[x][k].haveToken) \/ Has(net', Token(k))
    BY DEF TokenThere
  <2>1. CASE k = l
    BY <2>1, <1>4, <1>7
  <2>2. CASE k # l
    BY <2>2, <1>5, <1>6, <1>7 DEF There, TokenThere
  <2>3. QED
    BY <2>1, <2>2
<1>9. ClaimThere'
  <2> SUFFICES ASSUME NEW x \in Node, NEW k \in LockId, waitFor[x] = k
               PROVE  \/ channel[x] \/ Has(net', Claim(x, k))
                      \/ \E y \in Node : lock'[y][k].next = x
    BY <1>2 DEF ClaimThere
  <2>1. CASE x = f /\ k = l
    BY <2>1, <1>4, <1>7
  <2>2. CASE ~(x = f /\ k = l)
    <3>1. channel[x] \/ Has(net, Claim(x, k)) \/ \E y \in Node : lock[y][k].next = x
      BY DEF There, ClaimThere
    <3>2. \A y \in Node : lock'[y][k].next = lock[y][k].next
      BY <1>3, <1>6
    <3>3. QED
      BY <2>2, <3>1, <3>2, <1>5, <1>7
  <2>3. QED
    BY <2>1, <2>2
<1>10. QED
  BY <1>8, <1>9 DEF There

\* The request becomes a next field that was free.
LEMMA ThereEnqueue ==
  ASSUME IInv, There, NEW p \in Node, NEW q \in Node, Enqueue(p, q)
  PROVE  There'
<1> DEFINE f == Head(net[q][p]).From
           l == Head(net[q][p]).LockId
           r == [lock[p][l] EXCEPT !.next = f, !.last = f]
<1>1. /\ TypeOK /\ net \in Network /\ net[q][p] # <<>>
      /\ f \in Node /\ l \in LockId /\ Head(net[q][p]) = Request(f, l)
      /\ waitFor[f] = l
  <2>1. Next1(q, p, "acquireRequest")
    BY DEF Enqueue, NextFree
  <2>2. QED
    BY <2>1, HeadRequest DEF IInv
<1>2. /\ net' = Taken(net, q, p)
      /\ lock' = [lock EXCEPT ![p][l] = r]
      /\ lock[p][l].next = NoNode
      /\ UNCHANGED <<channel, waitFor>>
  BY DEF Enqueue, NextFree
<1>3. r.next = f /\ r.haveToken = lock[p][l].haveToken
  BY <1>1 DEF TypeOK, LockRecord
<1> HIDE DEF f, l, r
<1>4. /\ \A k \in LockId : Request(f, l) \notin Token(k)[p]
      /\ \A x \in Node : \A k \in LockId : Request(f, l) \in Claim(x, k)[p] => x = f /\ k = l
  BY <1>1, RequestIn
<1>5. /\ lock'[p][l] = r
      /\ \A x \in Node : \A k \in LockId :
           ~(x = p /\ k = l) => lock'[x][k] = lock[x][k]
  BY <1>1, <1>2 DEF TypeOK
<1>6. \A S : Has(net, S) /\ Request(f, l) \notin S[p] => Has(net', S)
  BY <1>1, <1>2, TakenKeeps
<1>7. TokenThere'
  <2>1. \A x \in Node : \A k \in LockId : lock'[x][k].haveToken = lock[x][k].haveToken
    BY <1>3, <1>5
  <2>2. QED
    BY <2>1, <1>4, <1>6 DEF There, TokenThere
<1>8. ClaimThere'
  <2> SUFFICES ASSUME NEW x \in Node, NEW k \in LockId, waitFor[x] = k
               PROVE  \/ channel[x] \/ Has(net', Claim(x, k))
                      \/ \E y \in Node : lock'[y][k].next = x
    BY <1>2 DEF ClaimThere
  <2>1. CASE x = f /\ k = l
    BY <2>1, <1>3, <1>5
  <2>2. CASE ~(x = f /\ k = l)
    <3>1. channel[x] \/ Has(net, Claim(x, k)) \/ \E y \in Node : lock[y][k].next = x
      BY DEF There, ClaimThere
    <3>2. ASSUME NEW y \in Node, lock[y][k].next = x PROVE lock'[y][k].next = x
      <4>1. ~(y = p /\ k = l)
        BY <3>2, <1>2, NoNodeAssumption
      <4>2. QED
        BY <3>2, <4>1, <1>5
    <3>3. QED
      BY <2>2, <3>1, <3>2, <1>4, <1>6
  <2>3. QED
    BY <2>1, <2>2
<1>9. QED
  BY <1>7, <1>8 DEF There

LEMMA ThereForward ==
  ASSUME IInv, There, NEW p \in Node, NEW q \in Node, Forward(p, q)
  PROVE  There'
<1> DEFINE f == Head(net[q][p]).From
           l == Head(net[q][p]).LockId
           n == lock[p][l].last
           r == [lock[p][l] EXCEPT !.last = f]
<1>1. /\ TypeOK /\ net \in Network /\ net[q][p] # <<>>
      /\ f \in Node /\ l \in LockId /\ Head(net[q][p]) = Request(f, l)
      /\ Request(f, l) \in Message
  <2>1. Next1(q, p, "acquireRequest")
    BY Zenon DEF Forward
  <2>2. QED
    BY <2>1, HeadRequest DEF IInv
<1>2. /\ net' = Sent(Taken(net, q, p), p, n, Request(f, l))
      /\ lock' = [lock EXCEPT ![p][l].last = f]
      /\ UNCHANGED <<channel, waitFor>>
  BY <1>1, Zenon DEF Forward
<1>3. lock' = [lock EXCEPT ![p][l] = r]
  BY <1>2
<1>4. n \in Node /\ r.next = lock[p][l].next /\ r.haveToken = lock[p][l].haveToken
  BY <1>1 DEF TypeOK, LockRecord
<1> HIDE DEF f, l, n, r
<1>5. /\ \A k \in LockId : Request(f, l) \notin Token(k)[p]
      /\ \A x \in Node : \A k \in LockId :
           Request(f, l) \in Claim(x, k)[p] => Request(f, l) \in Claim(x, k)[n]
  BY <1>1, <1>4, RequestIn
<1>6. /\ lock'[p][l] = r
      /\ \A x \in Node : \A k \in LockId :
           ~(x = p /\ k = l) => lock'[x][k] = lock[x][k]
  BY <1>1, <1>3 DEF TypeOK
<1>7. \A S : Request(f, l) \in S[n] \/ (Has(net, S) /\ Request(f, l) \notin S[p]) => Has(net', S)
  BY <1>1, <1>2, <1>4, RelayKeeps
<1>8. QED
  BY <1>2, <1>4, <1>5, <1>6, <1>7, NothingMoves

\* The response becomes a token and a wake-up.
LEMMA ThereResponse ==
  ASSUME IInv, There, NEW p \in Node, NEW q \in Node, handleLockAcquireResponse(p, q)
  PROVE  There'
<1> DEFINE l == Head(net[q][p]).LockId
           ts == Head(net[q][p]).Timestamp
           r == [lock[p][l] EXCEPT !.locked = TRUE, !.haveToken = TRUE]
<1>1. /\ TypeOK /\ net \in Network /\ net[q][p] # <<>>
      /\ l \in LockId /\ ts \in Timestamp
      /\ Head(net[q][p]) = Response(l, ts)
  <2>1. TypeOK /\ net \in Network /\ net[q][p] # <<>>
    BY DEF IInv, TypeOK, Network, Next1, handleLockAcquireResponse
  <2>2. QED
    BY <2>1, TakenQueue, MessageCases DEF Next1, handleLockAcquireResponse
<1>2. /\ net' = Taken(net, q, p)
      /\ lock' = [lock EXCEPT ![p][l] = r]
      /\ channel' = [channel EXCEPT ![p] = TRUE]
      /\ waitFor' = waitFor
  BY DEF handleLockAcquireResponse
<1>3. r.haveToken /\ r.next = lock[p][l].next
  BY <1>1 DEF TypeOK, LockRecord
<1> HIDE DEF l, ts, r
<1>4. /\ \A k \in LockId : Response(l, ts) \in Token(k)[p] => k = l
      /\ \A x \in Node : \A k \in LockId : Response(l, ts) \in Claim(x, k)[p] => x = p
  BY <1>1, ResponseIn
<1>5. /\ lock'[p][l] = r
      /\ \A x \in Node : \A k \in LockId :
           ~(x = p /\ k = l) => lock'[x][k] = lock[x][k]
  BY <1>1, <1>2 DEF TypeOK
<1>6. \A S : Has(net, S) /\ Response(l, ts) \notin S[p] => Has(net', S)
  BY <1>1, <1>2, TakenKeeps
<1>7. TokenThere'
  <2> SUFFICES ASSUME NEW k \in LockId
               PROVE  (\E x \in Node : lock'[x][k].haveToken) \/ Has(net', Token(k))
    BY DEF TokenThere
  <2>1. CASE k = l
    BY <2>1, <1>3, <1>5
  <2>2. CASE k # l
    BY <2>2, <1>4, <1>5, <1>6 DEF There, TokenThere
  <2>3. QED
    BY <2>1, <2>2
<1>8. ClaimThere'
  <2> SUFFICES ASSUME NEW x \in Node, NEW k \in LockId, waitFor[x] = k
               PROVE  \/ channel'[x] \/ Has(net', Claim(x, k))
                      \/ \E y \in Node : lock'[y][k].next = x
    BY <1>2 DEF ClaimThere
  <2>1. CASE x = p
    BY <2>1, <1>1, <1>2 DEF TypeOK
  <2>2. CASE x # p
    <3>1. channel[x] \/ Has(net, Claim(x, k)) \/ \E y \in Node : lock[y][k].next = x
      BY DEF There, ClaimThere
    <3>2. channel'[x] = channel[x]
      BY <2>2, <1>1, <1>2 DEF TypeOK
    <3>3. \A y \in Node : lock'[y][k].next = lock[y][k].next
      BY <1>3, <1>5
    <3>4. QED
      BY <2>2, <3>1, <3>2, <3>3, <1>4, <1>6
  <2>3. QED
    BY <2>1, <2>2
<1>9. QED
  BY <1>7, <1>8 DEF There

LEMMA ThereStep == ASSUME IInv, There, [Next]_vars PROVE There'
<1>1. ASSUME NEW p \in Node, Application(p) PROVE There'
  <2>1. CASE \E l \in LockId : AcquireLocal(p, l) \/ AcquireRemote(p, l) \/ ReleaseLock(p, l)
    BY <2>1, ThereLocal, ThereRemote, ThereReleaseKeep, ThereReleasePass
  <2>2. CASE Write(p) \/ Wake(p)
    <3>1. CASE LockId = {}
      BY <3>1 DEF There, TokenThere, ClaimThere
    <3>2. CASE LockId # {}
      BY <2>2, <3>2, ThereLocal
    <3>3. QED
      BY <3>1, <3>2
  <2>3. QED
    BY <1>1, <2>1, <2>2 DEF Application
<1>2. ASSUME NEW p \in Node, NEW q \in Node, handleIncoming(p, q) PROVE There'
  BY <1>2, TherePass, ThereEnqueue, ThereForward, ThereResponse
  DEF handleIncoming, handleLockAcquireRequest
<1>3. CASE UNCHANGED vars
  BY <1>3 DEF vars, There, TokenThere, ClaimThere
<1>4. QED
  BY <1>1, <1>2, <1>3 DEF Next

\* No token and no pending acquisition is ever lost.
THEOREM NothingLost == Spec => []There
<1>1. Init => There
  BY ThereInit
<1>2. IInv /\ There /\ [Next]_vars => There'
  BY ThereStep
<1>3. QED
  BY <1>1, <1>2, Invariance, PTL DEF Spec

-------------------------------------------------------------------------------
(* Exactly one *)

\* The places in the network where a delivery of S is.
Spots(S) ==
  {x \in Places : net[x[1]][x[2]][x[3]] \in S[x[2]]}

LEMMA SpotsMember ==
  ASSUME TypeOK, NEW S, NEW x
  PROVE  x \in Spots(S) <=>
           \E q, p \in Node : \E i \in 1 .. Len(net[q][p]) :
             x = <<q, p, i>> /\ net[q][p][i] \in S[p]
<1>1. \A q, p \in Node : DOMAIN net[q][p] = 1 .. Len(net[q][p])
  BY DEF TypeOK
<1>2. x \in Places <=> \E q, p \in Node : \E i \in 1 .. Len(net[q][p]) : x = <<q, p, i>>
  <2> DEFINE In(q, p) == {<<q, p, i>> : i \in DOMAIN net[q][p]}
  <2> HIDE DEF In
  <2>0. Places = UNION {In(q, p) : q, p \in Node}
    BY DEF Places, In
  <2>1. x \in Places <=> \E q, p \in Node : x \in In(q, p)
    <3>1. \A S_ : S_ \in {In(q, p) : q, p \in Node} <=> \E q, p \in Node : S_ = In(q, p)
      OBVIOUS
    <3>2. x \in Places <=> \E S_ \in {In(q, p) : q, p \in Node} : x \in S_
      BY <2>0
    <3>3. QED
      BY <3>1, <3>2
  <2>2. \A q, p \in Node : x \in In(q, p) <=> \E i \in 1 .. Len(net[q][p]) : x = <<q, p, i>>
    BY <1>1 DEF In
  <2>3. QED
    BY <2>1, <2>2
<1>3. QED
  BY <1>2 DEF Spots

\* A place is given by what is there, if there is one of it.
LEMMA SpotsCount ==
  ASSUME TypeOK, NEW S
  PROVE  /\ ~Has(net, S) => Spots(S) = {}
         /\ Has(net, S) /\ One(net, S) => \E x : Spots(S) = {x}
<1>1. ~Has(net, S) => Spots(S) = {}
  BY SpotsMember DEF Has
<1>2. ASSUME Has(net, S), One(net, S) PROVE \E x : Spots(S) = {x}
  <2>1. PICK q \in Node, p \in Node : \E i \in 1 .. Len(net[q][p]) : net[q][p][i] \in S[p]
    BY <1>2 DEF Has
  <2>2. PICK i \in 1 .. Len(net[q][p]) : net[q][p][i] \in S[p]
    BY <2>1
  <2>3. <<q, p, i>> \in Spots(S)
    BY <2>2, SpotsMember
  <2>4. ASSUME NEW y \in Spots(S) PROVE y = <<q, p, i>>
    <3>1. PICK a \in Node, b \in Node :
            \E j \in 1 .. Len(net[a][b]) : y = <<a, b, j>> /\ net[a][b][j] \in S[b]
      BY <2>4, SpotsMember
    <3>2. PICK j \in 1 .. Len(net[a][b]) : y = <<a, b, j>> /\ net[a][b][j] \in S[b]
      BY <3>1
    <3>3. a = q /\ b = p /\ j = i
      BY <3>2, <2>2, <1>2 DEF One
    <3>4. QED
      BY <3>2, <3>3
  <2>5. Spots(S) = {<<q, p, i>>}
    BY <2>3, <2>4
  <2>6. QED
    BY <2>5
<1>3. QED
  BY <1>1, <1>2

LEMMA TokensAre ==
  ASSUME TypeOK, NEW l \in LockId
  PROVE  Tokens(l) = {<<p>> : p \in {n \in Node : lock[n][l].haveToken}} \cup Spots(Token(l))
<1>1. ASSUME NEW x \in Places
      PROVE  net[x[1]][x[2]][x[3]] \in Message /\ x[2] \in Node
  BY DEF Places, TypeOK
<1>2. ASSUME NEW x \in Places
      PROVE  (net[x[1]][x[2]][x[3]].type = "acquireResponse" /\ net[x[1]][x[2]][x[3]].LockId = l)
               <=> net[x[1]][x[2]][x[3]] \in Token(l)[x[2]]
  BY <1>1 DEF Token
<1>3. QED
  BY <1>2 DEF Tokens, At, Spots

\* A lock's token is at exactly one node or in exactly one message, whatever
\* requests, releases and responses are under way.
THEOREM OneTokenCorrect == Spec => []OneToken
<1>1. ASSUME IInv, There PROVE OneToken
  <2> SUFFICES ASSUME NEW l \in LockId PROVE Cardinality(Tokens(l)) = 1
    BY DEF OneToken
  <2>1. TypeOK /\ TokenInv
    BY <1>1 DEF IInv
  <2>2. Tokens(l) = {<<p>> : p \in {n \in Node : lock[n][l].haveToken}} \cup Spots(Token(l))
    BY <2>1, TokensAre
  <2>3. CASE \E p \in Node : lock[p][l].haveToken
    <3>1. PICK p \in Node : lock[p][l].haveToken
      BY <2>3
    <3>2. ~Has(net, Token(l)) /\ \A q \in Node : lock[q][l].haveToken => q = p
      BY <3>1, <2>1 DEF TokenInv
    <3>3. Spots(Token(l)) = {}
      BY <3>2, <2>1, SpotsCount
    <3>4. {n \in Node : lock[n][l].haveToken} = {p}
      BY <3>1, <3>2
    <3>5. Tokens(l) = {<<p>>}
      BY <2>2, <3>3, <3>4
    <3>6. QED
      BY <3>5, FS_Singleton
  <2>4. CASE ~ \E p \in Node : lock[p][l].haveToken
    <3>1. Has(net, Token(l)) /\ One(net, Token(l))
      BY <2>1, <2>4, <1>1 DEF There, TokenThere, TokenInv
    <3>2. PICK x : Spots(Token(l)) = {x}
      BY <3>1, <2>1, SpotsCount
    <3>3. Tokens(l) = {x}
      BY <2>2, <2>4, <3>2
    <3>4. QED
      BY <3>3, FS_Singleton
  <2>5. QED
    BY <2>3, <2>4
<1>2. QED
  BY <1>1, Invariance, NothingLost, PTL

LEMMA ClaimsAre ==
  ASSUME TypeOK, NEW p \in Node, NEW l \in LockId
  PROVE  Claims(p, l) =
           Spots(Claim(p, l))
             \cup {<<q>> : q \in {n \in Node : lock[n][l].next = p}}
             \cup (IF channel[p] /\ waitFor[p] = l THEN {<<>>} ELSE {})
<1>1. ASSUME NEW x \in Places
      PROVE  net[x[1]][x[2]][x[3]] \in Message /\ x[2] \in Node
  BY DEF Places, TypeOK
<1>2. ASSUME NEW m \in Message, NEW n \in Node
      PROVE  m \in Claim(p, l)[n] <=>
               m = Request(p, l)
                 \/ (m.type = "acquireResponse" /\ m.LockId = l /\ n = p)
  BY MessageCases DEF Claim, Request, Message
<1>3. ASSUME NEW x \in Places
      PROVE  net[x[1]][x[2]][x[3]] \in Claim(p, l)[x[2]] <=>
               \/ net[x[1]][x[2]][x[3]] = Request(p, l)
               \/ /\ net[x[1]][x[2]][x[3]].type = "acquireResponse"
                  /\ net[x[1]][x[2]][x[3]].LockId = l
                  /\ x[2] = p
  BY <1>1, <1>2
<1>4. Spots(Claim(p, l)) =
        At(LAMBDA m : m = Request(p, l))
          \cup {x \in At(LAMBDA m : m.type = "acquireResponse" /\ m.LockId = l) : x[2] = p}
  BY <1>3 DEF Spots, At
<1>5. QED
  BY <1>4 DEF Claims

\* A blocked AcquireLock is recorded in exactly one place (a request, a next
\* field, a response, a wake-up), and nothing else is.
THEOREM OneClaimCorrect == Spec => []OneClaim
<1>1. ASSUME IInv, There PROVE OneClaim
  <2> SUFFICES ASSUME NEW p \in Node, NEW l \in LockId
               PROVE  Cardinality(Claims(p, l)) = IF waitFor[p] = l THEN 1 ELSE 0
    BY DEF OneClaim
  <2> DEFINE net_ == Spots(Claim(p, l))
             next_ == {<<q>> : q \in {n \in Node : lock[n][l].next = p}}
             wake_ == IF channel[p] /\ waitFor[p] = l THEN {<<>>} ELSE {}
  <2>1. TypeOK /\ ClaimInv
    BY <1>1 DEF IInv
  <2>2. Claims(p, l) = net_ \cup next_ \cup wake_
    BY <2>1, ClaimsAre
  <2>3. Has(net, Claim(p, l)) => Has(net, AnyClaim(p))
    BY ClaimIsAny
  <2>4. ~Has(net, Claim(p, l)) => net_ = {}
    BY <2>1, SpotsCount
  <2>5. (\A n \in Node : lock[n][l].next # p) => next_ = {}
    OBVIOUS
  <2>6. CASE waitFor[p] # l
    <3>1. ~Has(net, Claim(p, l)) /\ \A n \in Node : lock[n][l].next # p
      BY <2>1, <2>6 DEF ClaimInv
    <3>2. Claims(p, l) = {}
      BY <2>2, <2>4, <2>5, <2>6, <3>1
    <3>3. QED
      BY <3>2, <2>6, FS_EmptySet
  <2>7. CASE waitFor[p] = l /\ channel[p]
    <3>1. ~Has(net, Claim(p, l)) /\ \A n \in Node : lock[n][l].next # p
      BY <2>1, <2>3, <2>7 DEF ClaimInv
    <3>2. Claims(p, l) = {<<>>}
      BY <2>2, <2>4, <2>5, <2>7, <3>1
    <3>3. QED
      BY <3>2, <2>7, FS_Singleton
  <2>8. CASE waitFor[p] = l /\ ~channel[p] /\ \E n \in Node : lock[n][l].next = p
    <3>1. PICK n \in Node : lock[n][l].next = p
      BY <2>8
    <3>2. ~Has(net, Claim(p, l)) /\ \A x \in Node : lock[x][l].next = p => x = n
      BY <3>1, <2>1, <2>3 DEF ClaimInv
    <3>3. {x \in Node : lock[x][l].next = p} = {n}
      BY <3>1, <3>2
    <3>4. Claims(p, l) = {<<n>>}
      BY <2>2, <2>4, <2>8, <3>2, <3>3
    <3>5. QED
      BY <3>4, <2>8, FS_Singleton
  <2>9. CASE waitFor[p] = l /\ ~channel[p] /\ \A n \in Node : lock[n][l].next # p
    <3>1. Has(net, Claim(p, l))
      BY <1>1, <2>9 DEF There, ClaimThere
    <3>2. One(net, Claim(p, l))
      <4>1. One(net, AnyClaim(p))
        BY <2>1 DEF ClaimInv
      <4>2. \A n \in Node : Claim(p, l)[n] \subseteq AnyClaim(p)[n]
        BY DEF Claim, AnyClaim
      <4> SUFFICES ASSUME NEW a \in Node, NEW b \in Node, NEW c \in Node, NEW d \in Node,
                          NEW i \in 1 .. Len(net[a][b]), NEW j \in 1 .. Len(net[c][d]),
                          net[a][b][i] \in Claim(p, l)[b], net[c][d][j] \in Claim(p, l)[d]
                   PROVE  a = c /\ b = d /\ i = j
        BY DEF One
      <4>3. net[a][b][i] \in AnyClaim(p)[b] /\ net[c][d][j] \in AnyClaim(p)[d]
        BY <4>2
      <4>4. QED
        BY <4>1, <4>3 DEF One
    <3>3. PICK x : net_ = {x}
      BY <3>1, <3>2, <2>1, SpotsCount
    <3>4. Claims(p, l) = {x}
      BY <2>2, <2>5, <2>9, <3>3
    <3>5. QED
      BY <3>4, <2>9, FS_Singleton
  <2>10. QED
    BY <2>6, <2>7, <2>8, <2>9
<1>2. QED
  BY <1>1, Invariance, NothingLost, PTL
===============================================================================
