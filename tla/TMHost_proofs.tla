----------------------------- MODULE TMHost_proofs ----------------------------
(***************************************************************************)
(* Proofs about TMHost for every number of hosts, every set of pages,      *)
(* locks and accesses and every bound: what a host's thread is woken by,   *)
(* its locks and its barriers.  The data of the hosts play no part.        *)
(*                                                                         *)
(* All of a host's waits share one channel, so that each of the properties *)
(* rests on there being no wake-up too many.  These are counted: at every  *)
(* moment the wake-ups in the channel and the messages under way that will *)
(* become one are no more than what the thread is waiting for.             *)
(***************************************************************************)
EXTENDS TMHost, TLAPS, FunctionTheorems, FiniteSetTheorems

-------------------------------------------------------------------------------
(* The inductive invariant *)

\* The messages from a to b in the network nw, and those of one type.
Messages(nw, a, b) == {nw[a][b][i] : i \in 1 .. Len(nw[a][b])}
Of(nw, a, b, type) == {m \in Messages(nw, a, b) : m.type = type}

\* There is one barrierRequest at most from a to b.
Single(nw, a, b) ==
  \A i, j \in 1 .. Len(nw[a][b]) :
    nw[a][b][i].type = "barrierRequest" /\ nw[a][b][j].type = "barrierRequest" => i = j

\* Whose thread is woken by message m from a to b, or by the answer to it.
Asking == {"copyRequest", "diffRequest"}
Answering == {"copyResponse", "diffResponse", "lockAcquireResponse", "barrierResponse"}

Waiter(m, a, b) ==
  IF m.type \in Asking THEN a ELSE IF m.type \in Answering THEN b ELSE NoNode

\* Where that thread is.
Reason(type) ==
  CASE type \in {"copyRequest", "copyResponse"} -> "copy"
    [] type \in {"diffRequest", "diffResponse"} -> "answers"
    [] type = "lockAcquireResponse" -> "lock"
    [] type = "barrierResponse" -> "barrier"

\* The places in the network of messages that will wake p.
Place == Node \X Node \X (Nat \ {0})
Wakes(nw, p) ==
  {x \in Place : /\ x[3] <= Len(nw[x[1]][x[2]])
                 /\ Waiter(nw[x[1]][x[2]][x[3]], x[1], x[2]) = p}

Owed(p) == channel[p] + Cardinality(Wakes(net, p))

\* The wake-ups that a thread is going to receive where it is.
Awaited(o) ==
  IF o.pc \in {"copy", "lock", "barrier"} THEN 1
  ELSE IF o.pc = "answers" THEN o.left ELSE 0

Faulting == {"round", "copy", "diffs", "answers", "twin", "rights"}

\* p's thread, which is inside the locks ls, has all it needs to know of its call.
Sound(p, o, ls) ==
  /\ o.pc \in Faulting \cup {"idle", "store", "lock", "counting", "barrier"}
  /\ o.pc \in Faulting =>
       /\ {"pc", "requests", "left"} \subseteq DOMAIN o
       /\ o.left \in Nat
       /\ o.pc # "answers" => o.left = 0
  /\ o.pc = "lock" => o.lock \in LockId /\ o.lock \notin ls
  /\ o.pc = "counting" => p = getManagerId

OpInv ==
  /\ op = [p \in Node |-> op[p]]
  /\ \A p \in Node : Sound(p, op[p], held[p])

\* The network is queues of messages.
Queues(M) == [Node -> [Node -> Seq(M)]]
NetInv == \E M : net \in Queues(M)

\* Nobody is woken more often than it waits, ...
WakeInv ==
  /\ channel \in [Node -> Nat]
  /\ \A p \in Node : IsFiniteSet(Wakes(net, p)) /\ Owed(p) <= Awaited(op[p])

\* ... or by something else than it waits for.
ReasonInv ==
  \A a, b \in Node : \A m \in Messages(net, a, b) :
    /\ m.type \in Asking \cup Answering \cup {"barrierRequest"}
    /\ m.type # "barrierRequest" => op[Waiter(m, a, b)].pc = Reason(m.type)

\* The token of l is on its way to p.
Coming(l, p) ==
  \E q \in Node : \E m \in Of(net, q, p, "lockAcquireResponse") : m.LockId = l

\* A token is at one host or in one message, to a host that waits for it; the
\* host that is inside a lock, or about to be, has the token.
TokenInv ==
  /\ token \in [LockId -> Node \cup {NoNode}]
  /\ locked \in [LockId -> BOOLEAN]
  /\ held \in [Node -> SUBSET LockId]
  /\ \A l \in LockId : \A p \in Node :
       /\ Coming(l, p) => token[l] = NoNode
       /\ l \in held[p] => token[l] = p /\ locked[l]
       /\ \A q \in Node : Coming(l, p) /\ Coming(l, q) => p = q
  /\ \A p \in Node : op[p].pc = "lock" /\ channel[p] > 0 =>
       token[op[p].lock] = p /\ locked[op[p].lock]
  /\ \A a, b \in Node : \A m \in Of(net, a, b, "lockAcquireResponse") :
       m.LockId = op[b].lock

\* A request that waits for the token is all there is of its call.
RequestInv ==
  /\ requests = [l \in LockId |-> requests[l]]
  /\ \A l \in LockId : \A r \in requests[l] :
       /\ r.From \in Node
       /\ op[r.From].pc = "lock" /\ op[r.From].lock = l /\ Owed(r.From) = 0
       /\ \A s \in requests[l] : s.From = r.From => s = r

Answered(p) == Owed(p) > 0
Waits(p) == InBarrier(p) /\ ~Answered(p)

\* A barrier has ended and the manager is yet to answer p.
Responding == respond # Nobody
Served(p) == Responding /\ (p = getManagerId \/ p >= respond.next)

\* The hosts that have come to a barrier that has not ended, and those whose
\* requests the manager has got.
Pending == {p \in Node : Waits(p) /\ ~Served(p)}
Requested(p) == Of(net, p, getManagerId, "barrierRequest") # {}
Arrived == {p \in Pending : ~Requested(p)}

Arrivals == IF Responding THEN 0 ELSE barrier

ManagerInv ==
  /\ respond \in [thread : {"none", "app", "net"}, next : Nat]
  /\ Responding => respond.thread # "none" /\ respond.next > 0 /\ barrier = Empty
  /\ ~Responding => barrier \in Nat
  /\ counting \subseteq {"app", "net"}
  /\ "app" \in counting => ~Responding /\ op[getManagerId].pc = "counting"
  /\ op[getManagerId].pc = "counting" =>
       "app" \in counting \/ (Responding /\ respond.thread = "app")
  /\ respond.thread = "app" => op[getManagerId].pc = "counting"

\* The manager counts no more arrivals than there are.
ArrivalInv ==
  /\ \A p \in Node : Served(p) => Waits(p)
  /\ Arrivals + Cardinality(counting) <= Cardinality(Arrived)
  /\ \A a, b \in Node : Of(net, a, b, "barrierRequest") # {} =>
       b = getManagerId /\ a # getManagerId /\ a \in Pending
  /\ \A a, b \in Node : Single(net, a, b)

\* Those who wait for the barrier to end are one ahead of the others.
PhaseInv ==
  /\ phase \in [Node -> Nat]
  /\ \A p, q \in Node : (p \in Pending <=> q \in Pending) => phase[p] = phase[q]
  /\ \A p \in Pending : \A q \in Node \ Pending : phase[p] = phase[q] + 1

CallInv == NetInv /\ OpInv /\ WakeInv /\ ReasonInv /\ TokenInv /\ RequestInv
BarrierInv == ManagerInv /\ ArrivalInv /\ PhaseInv
HostInv == CallInv /\ BarrierInv

-------------------------------------------------------------------------------
(* Queues *)

\* What is sent is the last of its queue.
Longer(nw, t, a, b, m) ==
  /\ \A x, y \in Node : x # a \/ y # b => t[x][y] = nw[x][y]
  /\ Len(nw[a][b]) \in Nat /\ Len(t[a][b]) = Len(nw[a][b]) + 1
  /\ t[a][b][Len(nw[a][b]) + 1] = m
  /\ \A i \in 1 .. Len(nw[a][b]) : t[a][b][i] = nw[a][b][i]

LEMMA SentQueues ==
  ASSUME NEW M, NEW nw \in Queues(M), NEW a \in Node, NEW b \in Node, NEW m \in M,
         NEW t, t = Sent(nw, a, b, m)
  PROVE  t \in Queues(M) /\ Longer(nw, t, a, b, m)
<1>1. nw[a][b] \in Seq(M)
  BY DEF Queues
<1>2. t = [nw EXCEPT ![a][b] = Append(nw[a][b], m)]
  BY DEF Sent
<1>3. Append(nw[a][b], m) \in Seq(M)
  BY <1>1
<1>4. t \in Queues(M)
  BY <1>2, <1>3 DEF Queues
<1>5. /\ t[a][b] = Append(nw[a][b], m)
      /\ \A x, y \in Node : x # a \/ y # b => t[x][y] = nw[x][y]
  BY <1>2 DEF Queues
<1>6. QED
  BY <1>1, <1>4, <1>5 DEF Longer

\* Taking a message moves the others of its queue one place forward.
Shorter(nw, t, q, p) ==
  /\ \A x, y \in Node : x # q \/ y # p => t[x][y] = nw[x][y]
  /\ Len(nw[q][p]) \in Nat \ {0} /\ Len(t[q][p]) = Len(nw[q][p]) - 1
  /\ Head(nw[q][p]) = nw[q][p][1]
  /\ \A i \in 1 .. Len(nw[q][p]) - 1 : t[q][p][i] = nw[q][p][i + 1]

LEMMA TakenQueues ==
  ASSUME NEW M, NEW nw \in Queues(M), NEW q \in Node, NEW p \in Node, nw[q][p] # <<>>,
         NEW t, t = Taken(nw, q, p)
  PROVE  t \in Queues(M) /\ Shorter(nw, t, q, p)
<1>1. nw[q][p] \in Seq(M)
  BY DEF Queues
<1>2. t = [nw EXCEPT ![q][p] = Tail(nw[q][p])]
  BY DEF Taken
<1>3. Tail(nw[q][p]) \in Seq(M)
  BY <1>1
<1>4. t \in Queues(M)
  BY <1>2, <1>3 DEF Queues
<1>5. /\ t[q][p] = Tail(nw[q][p])
      /\ \A x, y \in Node : x # q \/ y # p => t[x][y] = nw[x][y]
  BY <1>2 DEF Queues
<1>6. QED
  BY <1>1, <1>4, <1>5 DEF Shorter

LEMMA SentMessages ==
  ASSUME NEW nw, NEW a \in Node, NEW b \in Node, NEW m, NEW t, Longer(nw, t, a, b, m)
  PROVE  /\ Messages(t, a, b) = Messages(nw, a, b) \cup {m}
         /\ \A x, y \in Node : x # a \/ y # b => Messages(t, x, y) = Messages(nw, x, y)
<1>1. /\ \A x, y \in Node : x # a \/ y # b => t[x][y] = nw[x][y]
      /\ Len(nw[a][b]) \in Nat /\ Len(t[a][b]) = Len(nw[a][b]) + 1
      /\ t[a][b][Len(nw[a][b]) + 1] = m
      /\ \A i \in 1 .. Len(nw[a][b]) : t[a][b][i] = nw[a][b][i]
  BY DEF Longer
<1>2. \A z \in Messages(t, a, b) : z \in Messages(nw, a, b) \cup {m}
  <2>1. SUFFICES ASSUME NEW i \in 1 .. Len(t[a][b]), i # Len(nw[a][b]) + 1
                 PROVE  t[a][b][i] \in Messages(nw, a, b)
    BY <1>1 DEF Messages
  <2>2. i \in 1 .. Len(nw[a][b]) /\ t[a][b][i] = nw[a][b][i]
    BY <1>1, <2>1
  <2>3. QED
    BY <2>2 DEF Messages
<1>3. \A z \in Messages(nw, a, b) : z \in Messages(t, a, b)
  <2>1. SUFFICES ASSUME NEW i \in 1 .. Len(nw[a][b])
                 PROVE  nw[a][b][i] \in Messages(t, a, b)
    BY DEF Messages
  <2>2. i \in 1 .. Len(t[a][b]) /\ t[a][b][i] = nw[a][b][i]
    BY <1>1
  <2>3. QED
    BY <2>2 DEF Messages
<1>4. m \in Messages(t, a, b)
  <2>1. Len(nw[a][b]) + 1 \in 1 .. Len(t[a][b]) /\ t[a][b][Len(nw[a][b]) + 1] = m
    BY <1>1
  <2>2. QED
    BY <2>1 DEF Messages
<1>5. Messages(t, a, b) = Messages(nw, a, b) \cup {m}
  BY <1>2, <1>3, <1>4
<1>6. \A x, y \in Node : x # a \/ y # b => Messages(t, x, y) = Messages(nw, x, y)
  BY <1>1 DEF Messages
<1>7. QED
  BY <1>5, <1>6

LEMMA TakenMessages ==
  ASSUME NEW nw, NEW q \in Node, NEW p \in Node, NEW t, Shorter(nw, t, q, p)
  PROVE  /\ \A x, y \in Node : Messages(t, x, y) \subseteq Messages(nw, x, y)
         /\ \A x, y \in Node : x # q \/ y # p => Messages(t, x, y) = Messages(nw, x, y)
         /\ Head(nw[q][p]) \in Messages(nw, q, p)
         /\ Messages(nw, q, p) = Messages(t, q, p) \cup {Head(nw[q][p])}
<1>1. /\ Len(nw[q][p]) \in Nat \ {0} /\ Len(t[q][p]) = Len(nw[q][p]) - 1
      /\ Head(nw[q][p]) = nw[q][p][1]
      /\ \A i \in 1 .. Len(nw[q][p]) - 1 : t[q][p][i] = nw[q][p][i + 1]
  BY DEF Shorter
<1>2. \A x, y \in Node : x # q \/ y # p => Messages(t, x, y) = Messages(nw, x, y)
  BY DEF Shorter, Messages
<1>3. 1 \in 1 .. Len(nw[q][p]) /\ Head(nw[q][p]) \in Messages(nw, q, p)
  BY <1>1 DEF Messages
<1>4. \A z \in Messages(t, q, p) : z \in Messages(nw, q, p)
  <2>1. SUFFICES ASSUME NEW i \in 1 .. Len(t[q][p])
                 PROVE  t[q][p][i] \in Messages(nw, q, p)
    BY DEF Messages
  <2>2. i + 1 \in 1 .. Len(nw[q][p]) /\ t[q][p][i] = nw[q][p][i + 1]
    BY <1>1
  <2>3. QED
    BY <2>2 DEF Messages
<1>5. \A z \in Messages(nw, q, p) : z \in Messages(t, q, p) \cup {Head(nw[q][p])}
  <2>1. SUFFICES ASSUME NEW i \in 1 .. Len(nw[q][p]), i # 1
                 PROVE  nw[q][p][i] \in Messages(t, q, p)
    BY <1>1 DEF Messages
  <2>2. i - 1 \in 1 .. Len(t[q][p]) /\ t[q][p][i - 1] = nw[q][p][(i - 1) + 1]
    BY <1>1, <2>1
  <2>3. (i - 1) + 1 = i
    OBVIOUS
  <2>4. QED
    BY <2>2, <2>3 DEF Messages
<1>6. QED
  BY <1>2, <1>3, <1>4, <1>5

LEMMA SentWakes ==
  ASSUME NEW nw, NEW a \in Node, NEW b \in Node, NEW m, NEW t, Longer(nw, t, a, b, m),
         NEW w, IsFiniteSet(Wakes(nw, w))
  PROVE  /\ Waiter(m, a, b) # w => Wakes(t, w) = Wakes(nw, w)
         /\ Waiter(m, a, b) = w => /\ IsFiniteSet(Wakes(t, w))
                                   /\ Cardinality(Wakes(t, w)) = Cardinality(Wakes(nw, w)) + 1
<1> DEFINE n == Len(nw[a][b])
           k == <<a, b, n + 1>>
<1>1. /\ n \in Nat /\ Len(t[a][b]) = n + 1 /\ t[a][b][n + 1] = m
      /\ \A i \in 1 .. n : t[a][b][i] = nw[a][b][i]
      /\ \A x, y \in Node : x # a \/ y # b => t[x][y] = nw[x][y]
  BY DEF Longer
<1>2. k \in Place /\ k[1] = a /\ k[2] = b /\ k[3] = n + 1
  BY <1>1 DEF Place
<1>3. ASSUME NEW x \in Place, x # k
      PROVE  x \in Wakes(t, w) <=> x \in Wakes(nw, w)
  <2>1. x[1] \in Node /\ x[2] \in Node /\ x[3] \in Nat \ {0} /\ x = <<x[1], x[2], x[3]>>
    BY DEF Place
  <2>2. CASE x[1] # a \/ x[2] # b
    BY <1>1, <2>1, <2>2 DEF Wakes
  <2>3. CASE x[1] = a /\ x[2] = b
    <3>1. x[3] # n + 1
      BY <1>3, <2>1, <2>3
    <3>2. (x[3] <= Len(t[a][b]) <=> x[3] <= n) /\ (x[3] <= n => t[a][b][x[3]] = nw[a][b][x[3]])
      BY <1>1, <2>1, <3>1
    <3>3. QED
      BY <2>3, <3>2 DEF Wakes
  <2>4. QED
    BY <2>2, <2>3
<1>4. k \notin Wakes(nw, w) /\ (k \in Wakes(t, w) <=> Waiter(m, a, b) = w)
  BY <1>1, <1>2 DEF Wakes
<1> HIDE DEF k
<1>5. CASE Waiter(m, a, b) # w
  <2>1. Wakes(t, w) = Wakes(nw, w)
    BY <1>3, <1>4, <1>5 DEF Wakes
  <2>2. QED
    BY <1>5, <2>1
<1>6. CASE Waiter(m, a, b) = w
  <2>1. Wakes(t, w) = Wakes(nw, w) \cup {k}
    BY <1>2, <1>3, <1>4, <1>6 DEF Wakes
  <2>2. QED
    BY <1>4, <1>6, <2>1, FS_AddElement
<1>7. QED
  BY <1>5, <1>6

LEMMA TakenWakes ==
  ASSUME NEW nw, NEW q \in Node, NEW p \in Node, NEW t, Shorter(nw, t, q, p),
         NEW w, IsFiniteSet(Wakes(nw, w))
  PROVE  /\ IsFiniteSet(Wakes(t, w))
         /\ Cardinality(Wakes(t, w)) = IF Waiter(Head(nw[q][p]), q, p) = w
                                       THEN Cardinality(Wakes(nw, w)) - 1
                                       ELSE Cardinality(Wakes(nw, w))
<1> DEFINE n == Len(nw[q][p])
           k == <<q, p, 1>>
           S == Wakes(t, w)
           T == Wakes(nw, w) \ {k}
           f == [x \in S |-> IF x[1] = q /\ x[2] = p THEN <<q, p, x[3] + 1>> ELSE x]
<1>1. /\ n \in Nat \ {0} /\ Len(t[q][p]) = n - 1 /\ Head(nw[q][p]) = nw[q][p][1]
      /\ \A i \in 1 .. n - 1 : t[q][p][i] = nw[q][p][i + 1]
      /\ \A x, y \in Node : x # q \/ y # p => t[x][y] = nw[x][y]
  BY DEF Shorter
<1>2. k \in Place /\ k[1] = q /\ k[2] = p /\ k[3] = 1
  BY DEF Place
<1>3. k \in Wakes(nw, w) <=> Waiter(Head(nw[q][p]), q, p) = w
  BY <1>1, <1>2 DEF Wakes
<1>4. ASSUME NEW x \in Place
      PROVE  x[1] \in Node /\ x[2] \in Node /\ x[3] \in Nat \ {0} /\ x = <<x[1], x[2], x[3]>>
  BY DEF Place
<1>5. ASSUME NEW x \in S
      PROVE  f[x] \in T
  <2>1. x \in Place /\ x[3] <= Len(t[x[1]][x[2]])
        /\ Waiter(t[x[1]][x[2]][x[3]], x[1], x[2]) = w
    BY DEF Wakes
  <2>2. CASE x[1] = q /\ x[2] = p
    <3>1. f[x] = <<q, p, x[3] + 1>>
      BY <2>2
    <3>2. x[3] \in 1 .. n - 1
      BY <1>1, <1>4, <2>1, <2>2
    <3>3. <<q, p, x[3] + 1>> \in Place /\ x[3] + 1 <= n /\ x[3] + 1 # 1
      BY <1>1, <3>2 DEF Place
    <3>4. t[q][p][x[3]] = nw[q][p][x[3] + 1]
      BY <1>1, <3>2
    <3>5. <<q, p, x[3] + 1>> \in Wakes(nw, w)
      BY <2>1, <2>2, <3>3, <3>4 DEF Wakes
    <3>6. QED
      BY <3>1, <3>3, <3>5
  <2>3. CASE x[1] # q \/ x[2] # p
    <3>1. f[x] = x /\ x # k
      BY <1>2, <2>3
    <3>2. t[x[1]][x[2]] = nw[x[1]][x[2]]
      BY <1>1, <1>4, <2>1, <2>3
    <3>3. x \in Wakes(nw, w)
      BY <2>1, <3>2 DEF Wakes
    <3>4. QED
      BY <3>1, <3>3
  <2>4. QED
    BY <2>2, <2>3
<1>6. ASSUME NEW x \in S, NEW y \in S, f[x] = f[y]
      PROVE  x = y
  <2>1. x \in Place /\ y \in Place
    BY DEF Wakes
  <2>2. /\ x = <<x[1], x[2], x[3]>> /\ x[3] \in Nat
        /\ y = <<y[1], y[2], y[3]>> /\ y[3] \in Nat
    BY <1>4, <2>1
  <2>3. /\ f[x][1] = x[1] /\ f[x][2] = x[2]
        /\ f[x][3] = IF x[1] = q /\ x[2] = p THEN x[3] + 1 ELSE x[3]
    OBVIOUS
  <2>4. /\ f[y][1] = y[1] /\ f[y][2] = y[2]
        /\ f[y][3] = IF y[1] = q /\ y[2] = p THEN y[3] + 1 ELSE y[3]
    OBVIOUS
  <2>5. x[1] = y[1] /\ x[2] = y[2] /\ x[3] = y[3]
    BY <1>6, <2>2, <2>3, <2>4
  <2>6. QED
    BY <2>2, <2>5
<1>7. ASSUME NEW y \in T
      PROVE  \E x \in S : f[x] = y
  <2>1. /\ y \in Place /\ y # k /\ y[3] <= Len(nw[y[1]][y[2]])
        /\ Waiter(nw[y[1]][y[2]][y[3]], y[1], y[2]) = w
    BY DEF Wakes
  <2>2. y[1] \in Node /\ y[2] \in Node /\ y[3] \in Nat \ {0} /\ y = <<y[1], y[2], y[3]>>
    BY <1>4, <2>1
  <2>3. CASE y[1] = q /\ y[2] = p
    <3>1. y[3] # 1
      BY <2>1, <2>2, <2>3
    <3>2. y[3] - 1 \in 1 .. n - 1 /\ (y[3] - 1) + 1 = y[3]
      BY <1>1, <2>1, <2>2, <2>3, <3>1
    <3>3. PICK x : x = <<q, p, y[3] - 1>>
      OBVIOUS
    <3>4. x \in Place /\ x[1] = q /\ x[2] = p /\ x[3] = y[3] - 1
      BY <3>2, <3>3 DEF Place
    <3>5. t[q][p][x[3]] = nw[q][p][y[3]] /\ x[3] <= Len(t[q][p])
      <4>1. x[3] \in 1 .. n - 1 /\ x[3] + 1 = y[3]
        BY <3>2, <3>4
      <4>2. t[q][p][x[3]] = nw[q][p][x[3] + 1]
        BY <1>1, <4>1
      <4>3. x[3] <= Len(t[q][p])
        BY <1>1, <4>1
      <4>4. QED
        BY <4>1, <4>2, <4>3
    <3>6. x \in S
      BY <2>1, <2>3, <3>4, <3>5 DEF Wakes
    <3>7. f[x] = y
      BY <2>2, <2>3, <3>2, <3>4, <3>6
    <3>8. QED
      BY <3>6, <3>7
  <2>4. CASE y[1] # q \/ y[2] # p
    <3>1. t[y[1]][y[2]] = nw[y[1]][y[2]]
      BY <1>1, <2>2, <2>4
    <3>2. y \in S
      BY <2>1, <3>1 DEF Wakes
    <3>3. f[y] = y
      BY <2>4, <3>2
    <3>4. QED
      BY <3>2, <3>3
  <2>5. QED
    BY <2>3, <2>4
<1>8. f \in [S -> T]
  <2>1. f = [x \in S |-> f[x]]
    OBVIOUS
  <2>2. QED
    BY <1>5, <2>1
<1> HIDE DEF f, S, T
<1>9. f \in Injection(S, T)
  BY <1>6, <1>8, Fun_IsInj
<1>10. f \in Surjection(S, T)
  BY <1>7, <1>8, Fun_IsSurj
<1>11. IsFiniteSet(T) /\ Cardinality(T) = IF k \in Wakes(nw, w) THEN Cardinality(Wakes(nw, w)) - 1
                                                             ELSE Cardinality(Wakes(nw, w))
  BY FS_RemoveElement DEF T
<1>12. IsFiniteSet(S) /\ Cardinality(S) = Cardinality(T)
  BY <1>9, <1>10, <1>11, FS_Injection
<1>13. QED
  BY <1>3, <1>11, <1>12 DEF S

\* The messages of one type.
LEMMA SentOf ==
  ASSUME NEW nw, NEW a \in Node, NEW b \in Node, NEW m, NEW t, Longer(nw, t, a, b, m),
         NEW type
  PROVE  /\ m.type = type => Of(t, a, b, type) = Of(nw, a, b, type) \cup {m}
         /\ \A x, y \in Node : x # a \/ y # b \/ m.type # type =>
              Of(t, x, y, type) = Of(nw, x, y, type)
<1>1. /\ Messages(t, a, b) = Messages(nw, a, b) \cup {m}
      /\ \A x, y \in Node : x # a \/ y # b => Messages(t, x, y) = Messages(nw, x, y)
  BY SentMessages
<1>2. m.type = type => Of(t, a, b, type) = Of(nw, a, b, type) \cup {m}
  BY <1>1 DEF Of
<1>3. m.type # type => Of(t, a, b, type) = Of(nw, a, b, type)
  BY <1>1 DEF Of
<1>4. \A x, y \in Node : x # a \/ y # b => Of(t, x, y, type) = Of(nw, x, y, type)
  BY <1>1 DEF Of
<1>5. QED
  BY <1>2, <1>3, <1>4

LEMMA SentOther ==
  ASSUME NEW nw, NEW a \in Node, NEW b \in Node, NEW m, NEW t, Longer(nw, t, a, b, m),
         NEW type, m.type # type
  PROVE  \A x, y \in Node : Of(t, x, y, type) = Of(nw, x, y, type)
BY SentOf

LEMMA SentElsewhere ==
  ASSUME NEW nw, NEW a \in Node, NEW b \in Node, NEW m, NEW t, Longer(nw, t, a, b, m),
         NEW type, NEW x \in Node, NEW y \in Node, x # a \/ y # b
  PROVE  Of(t, x, y, type) = Of(nw, x, y, type)
<1>1. t[x][y] = nw[x][y]
  BY DEF Longer
<1>2. QED
  BY <1>1 DEF Of, Messages

LEMMA TakenOf ==
  ASSUME NEW nw, NEW q \in Node, NEW p \in Node, NEW t, Shorter(nw, t, q, p), NEW type
  PROVE  /\ \A x, y \in Node : Of(t, x, y, type) \subseteq Of(nw, x, y, type)
         /\ \A x, y \in Node : x # q \/ y # p \/ Head(nw[q][p]).type # type =>
              Of(t, x, y, type) = Of(nw, x, y, type)
         /\ Head(nw[q][p]).type = type => Head(nw[q][p]) \in Of(nw, q, p, type)
<1>1. /\ \A x, y \in Node : Messages(t, x, y) \subseteq Messages(nw, x, y)
      /\ \A x, y \in Node : x # q \/ y # p => Messages(t, x, y) = Messages(nw, x, y)
      /\ Head(nw[q][p]) \in Messages(nw, q, p)
      /\ Messages(nw, q, p) = Messages(t, q, p) \cup {Head(nw[q][p])}
  BY TakenMessages
<1>2. QED
  BY <1>1 DEF Of

LEMMA SentSingle ==
  ASSUME NEW nw, NEW a \in Node, NEW b \in Node, NEW m, NEW t, Longer(nw, t, a, b, m),
         \A x, y \in Node : Single(nw, x, y),
         m.type = "barrierRequest" => Of(nw, a, b, "barrierRequest") = {}
  PROVE  \A x, y \in Node : Single(t, x, y)
<1>1. /\ Len(nw[a][b]) \in Nat /\ Len(t[a][b]) = Len(nw[a][b]) + 1
      /\ t[a][b][Len(nw[a][b]) + 1] = m
      /\ \A i \in 1 .. Len(nw[a][b]) : t[a][b][i] = nw[a][b][i]
      /\ \A x, y \in Node : x # a \/ y # b => t[x][y] = nw[x][y]
  BY DEF Longer
<1>2. SUFFICES ASSUME NEW x \in Node, NEW y \in Node PROVE Single(t, x, y)
  OBVIOUS
<1>3. CASE x # a \/ y # b
  <2>1. t[x][y] = nw[x][y] /\ Single(nw, x, y)
    BY <1>1, <1>3
  <2>2. QED
    BY <2>1 DEF Single
<1>4. CASE x = a /\ y = b
  <2>1. SUFFICES ASSUME NEW i \in 1 .. Len(t[a][b]), NEW j \in 1 .. Len(t[a][b]),
                        t[a][b][i].type = "barrierRequest", t[a][b][j].type = "barrierRequest"
                 PROVE  i = j
    BY <1>4 DEF Single
  <2>2. CASE m.type = "barrierRequest"
    <3>1. \A k \in 1 .. Len(nw[a][b]) : nw[a][b][k].type # "barrierRequest"
      BY <2>2 DEF Of, Messages
    <3>2. ASSUME NEW k \in 1 .. Len(t[a][b]), t[a][b][k].type = "barrierRequest"
          PROVE  k = Len(nw[a][b]) + 1
      <4>1. k \in 1 .. Len(nw[a][b]) => t[a][b][k] = nw[a][b][k]
        BY <1>1
      <4>2. k \notin 1 .. Len(nw[a][b])
        BY <3>1, <3>2, <4>1
      <4>3. QED
        BY <1>1, <4>2
    <3>3. QED
      BY <2>1, <3>2
  <2>3. CASE m.type # "barrierRequest"
    <3>1. ASSUME NEW k \in 1 .. Len(t[a][b]), t[a][b][k].type = "barrierRequest"
          PROVE  k \in 1 .. Len(nw[a][b]) /\ nw[a][b][k].type = "barrierRequest"
      <4>1. k # Len(nw[a][b]) + 1
        BY <1>1, <2>3, <3>1
      <4>2. k \in 1 .. Len(nw[a][b])
        <5>1. Len(t[a][b]) = Len(nw[a][b]) + 1 /\ Len(nw[a][b]) \in Nat
          BY <1>1
        <5>2. QED
          BY <4>1, <5>1
      <4>3. nw[a][b][k] = t[a][b][k]
        BY <1>1, <4>2
      <4>4. QED
        BY <3>1, <4>2, <4>3
    <3>2. i \in 1 .. Len(nw[a][b]) /\ nw[a][b][i].type = "barrierRequest"
      BY <2>1, <3>1
    <3>3. j \in 1 .. Len(nw[a][b]) /\ nw[a][b][j].type = "barrierRequest"
      BY <2>1, <3>1
    <3>4. Single(nw, a, b)
      OBVIOUS
    <3>5. QED
      BY <3>2, <3>3, <3>4 DEF Single
  <2>4. QED
    BY <2>2, <2>3
<1>5. QED
  BY <1>3, <1>4

LEMMA TakenSingle ==
  ASSUME NEW nw, NEW q \in Node, NEW p \in Node, NEW t, Shorter(nw, t, q, p),
         \A x, y \in Node : Single(nw, x, y)
  PROVE  /\ \A x, y \in Node : Single(t, x, y)
         /\ Head(nw[q][p]).type = "barrierRequest" => Of(t, q, p, "barrierRequest") = {}
<1>1. /\ Len(nw[q][p]) \in Nat \ {0} /\ Len(t[q][p]) = Len(nw[q][p]) - 1
      /\ Head(nw[q][p]) = nw[q][p][1]
      /\ \A i \in 1 .. Len(nw[q][p]) - 1 : t[q][p][i] = nw[q][p][i + 1]
      /\ \A x, y \in Node : x # q \/ y # p => t[x][y] = nw[x][y]
  BY DEF Shorter
<1>2. \A i, j \in 1 .. Len(nw[q][p]) :
        nw[q][p][i].type = "barrierRequest" /\ nw[q][p][j].type = "barrierRequest" => i = j
  BY DEF Single
<1>3. ASSUME NEW i \in 1 .. Len(t[q][p])
      PROVE  i \in Nat /\ i + 1 \in 2 .. Len(nw[q][p]) /\ t[q][p][i] = nw[q][p][i + 1]
  BY <1>1
<1>4. Single(t, q, p)
  <2>1. SUFFICES ASSUME NEW i \in 1 .. Len(t[q][p]), NEW j \in 1 .. Len(t[q][p]),
                        t[q][p][i].type = "barrierRequest", t[q][p][j].type = "barrierRequest"
                 PROVE  i = j
    BY DEF Single
  <2>2. /\ i \in Nat /\ i + 1 \in 1 .. Len(nw[q][p]) /\ t[q][p][i] = nw[q][p][i + 1]
        /\ j \in Nat /\ j + 1 \in 1 .. Len(nw[q][p]) /\ t[q][p][j] = nw[q][p][j + 1]
    BY <1>3
  <2>3. i + 1 = j + 1
    BY <1>2, <2>1, <2>2
  <2>4. QED
    BY <2>2, <2>3
<1>5. ASSUME NEW x \in Node, NEW y \in Node, x # q \/ y # p
      PROVE  Single(t, x, y)
  <2>1. t[x][y] = nw[x][y] /\ Single(nw, x, y)
    BY <1>1, <1>5
  <2>2. QED
    BY <2>1 DEF Single
<1>6. ASSUME Head(nw[q][p]).type = "barrierRequest"
      PROVE  Of(t, q, p, "barrierRequest") = {}
  <2>1. ASSUME NEW i \in 1 .. Len(t[q][p])
        PROVE  t[q][p][i].type # "barrierRequest"
    <3>1. i \in Nat /\ i + 1 \in 1 .. Len(nw[q][p]) /\ i + 1 # 1 /\ t[q][p][i] = nw[q][p][i + 1]
      BY <1>3
    <3>2. 1 \in 1 .. Len(nw[q][p]) /\ nw[q][p][1].type = "barrierRequest"
      BY <1>1, <1>6
    <3>3. QED
      BY <1>2, <3>1, <3>2
  <2>2. QED
    BY <2>1 DEF Of, Messages
<1>7. QED
  BY <1>4, <1>5, <1>6

\* A message is counted.
LEMMA MessageCounts ==
  ASSUME NEW M, NEW nw \in Queues(M), NEW a \in Node, NEW b \in Node, NEW m \in Messages(nw, a, b),
         NEW w, Waiter(m, a, b) = w, IsFiniteSet(Wakes(nw, w))
  PROVE  Cardinality(Wakes(nw, w)) > 0
<1>1. PICK i \in 1 .. Len(nw[a][b]) : m = nw[a][b][i]
  BY DEF Messages
<1>2. Len(nw[a][b]) \in Nat
  BY DEF Queues
<1>3. PICK k : k = <<a, b, i>>
  OBVIOUS
<1>4. k \in Place /\ k[1] = a /\ k[2] = b /\ k[3] = i /\ i <= Len(nw[a][b])
  BY <1>2, <1>3 DEF Place
<1>5. k \in Wakes(nw, w)
  BY <1>1, <1>4 DEF Wakes
<1>6. QED
  BY <1>5, FS_EmptySet, FS_CardinalityType

-------------------------------------------------------------------------------
(* What a step keeps *)

LEMMA OwedType ==
  ASSUME WakeInv, NEW p \in Node
  PROVE  /\ channel[p] \in Nat /\ Cardinality(Wakes(net, p)) \in Nat /\ Owed(p) \in Nat
         /\ Owed(p) = channel[p] + Cardinality(Wakes(net, p))
<1>1. channel[p] \in Nat /\ IsFiniteSet(Wakes(net, p))
  BY DEF WakeInv
<1>2. Cardinality(Wakes(net, p)) \in Nat
  BY <1>1, FS_CardinalityType
<1>3. QED
  BY <1>1, <1>2 DEF Owed

\* A message that will wake p is counted in what p is owed.
LEMMA MessageOwed ==
  ASSUME NetInv, WakeInv, NEW a \in Node, NEW b \in Node, NEW m \in Messages(net, a, b),
         NEW w \in Node, Waiter(m, a, b) = w
  PROVE  Cardinality(Wakes(net, w)) > 0 /\ Owed(w) > 0
<1>1. PICK M : net \in Queues(M)
  BY DEF NetInv
<1>2. IsFiniteSet(Wakes(net, w))
  BY DEF WakeInv
<1>3. Cardinality(Wakes(net, w)) > 0
  BY <1>1, <1>2, MessageCounts
<1>4. QED
  BY <1>3, OwedType

\* A step that has nothing to do with locks.
LockFrame ==
  /\ UNCHANGED <<locks, held>>
  /\ \A q \in Node : op[q].pc = "lock" =>
       op'[q] = op[q] /\ channel'[q] = channel[q] /\ Owed(q)' = Owed(q)
  /\ \A q \in Node : op'[q].pc = "lock" => op[q].pc = "lock"
  /\ \A a, b \in Node :
       Of(net, a, b, "lockAcquireResponse")' = Of(net, a, b, "lockAcquireResponse")

LEMMA LocksKept ==
  ASSUME CallInv, LockFrame
  PROVE  TokenInv' /\ RequestInv'
<1>1. /\ token' = token /\ locked' = locked /\ requests' = requests /\ held' = held
      /\ \A q \in Node : op[q].pc = "lock" =>
           op'[q] = op[q] /\ channel'[q] = channel[q] /\ Owed(q)' = Owed(q)
      /\ \A q \in Node : op'[q].pc = "lock" => op[q].pc = "lock"
  BY DEF LockFrame, locks
<1>2. \A l \in LockId : \A p \in Node : Coming(l, p)' <=> Coming(l, p)
  BY DEF LockFrame, Coming
<1>3. ASSUME NEW a \in Node, NEW b \in Node, NEW m \in Of(net, a, b, "lockAcquireResponse")'
      PROVE  m.LockId = op'[b].lock
  <2>1. m \in Of(net, a, b, "lockAcquireResponse")
    BY <1>3 DEF LockFrame
  <2>2. m \in Messages(net, a, b) /\ m.type = "lockAcquireResponse" /\ m.LockId = op[b].lock
    BY <2>1 DEF Of, CallInv, TokenInv
  <2>3. Waiter(m, a, b) = b /\ Reason(m.type) = "lock"
    BY <2>2 DEF Waiter, Asking, Answering, Reason
  <2>4. op[b].pc = "lock"
    BY <2>2, <2>3 DEF CallInv, ReasonInv
  <2>5. QED
    BY <1>1, <2>2, <2>4
<1>4. ASSUME NEW p \in Node, op'[p].pc = "lock", channel'[p] > 0
      PROVE  token'[op'[p].lock] = p /\ locked'[op'[p].lock]
  <2>1. op[p].pc = "lock" /\ op'[p] = op[p] /\ channel'[p] = channel[p]
    BY <1>1, <1>4
  <2>2. token[op[p].lock] = p /\ locked[op[p].lock]
    BY <1>4, <2>1 DEF CallInv, TokenInv
  <2>3. QED
    BY <1>1, <2>1, <2>2
<1>5. TokenInv'
  <2>1. /\ token \in [LockId -> Node \cup {NoNode}]
        /\ locked \in [LockId -> BOOLEAN]
        /\ held \in [Node -> SUBSET LockId]
        /\ \A l \in LockId : \A p \in Node :
             /\ Coming(l, p) => token[l] = NoNode
             /\ l \in held[p] => token[l] = p /\ locked[l]
             /\ \A q \in Node : Coming(l, p) /\ Coming(l, q) => p = q
    BY DEF CallInv, TokenInv
  <2>2. QED
    BY <1>1, <1>2, <1>3, <1>4, <2>1 DEF TokenInv
<1>6. ASSUME NEW l \in LockId, NEW r \in requests[l]
      PROVE  /\ r.From \in Node /\ op'[r.From].pc = "lock" /\ op'[r.From].lock = l
             /\ Owed(r.From)' = 0
             /\ \A s \in requests[l] : s.From = r.From => s = r
  <2>1. /\ r.From \in Node /\ op[r.From].pc = "lock" /\ op[r.From].lock = l
        /\ Owed(r.From) = 0
        /\ \A s \in requests[l] : s.From = r.From => s = r
    BY DEF CallInv, RequestInv
  <2>2. op'[r.From] = op[r.From] /\ Owed(r.From)' = Owed(r.From)
    BY <1>1, <2>1
  <2>3. QED
    BY <2>1, <2>2
<1>7. requests = [l \in LockId |-> requests[l]]
  BY DEF CallInv, RequestInv
<1>8. RequestInv'
  BY <1>1, <1>6, <1>7 DEF RequestInv
<1>9. QED
  BY <1>5, <1>8

\* A step that has nothing to do with barriers.
BarrierFrame ==
  /\ UNCHANGED <<barriers, phase>>
  /\ \A q \in Node : InBarrier(q)' <=> InBarrier(q)
  /\ op'[getManagerId].pc = "counting" <=> op[getManagerId].pc = "counting"
  /\ \A q \in Node : InBarrier(q) => Owed(q)' = Owed(q)
  /\ \A a, b \in Node : Of(net, a, b, "barrierRequest")' = Of(net, a, b, "barrierRequest")
  /\ \A a, b \in Node : Single(net, a, b)'

LEMMA ManagerIsNode == getManagerId \in Node
  BY NrProcsAssumption DEF getManagerId, Node

\* A step that leaves those who wait for a barrier where they are.
LEMMA BarriersStay ==
  ASSUME BarrierInv, UNCHANGED <<barriers, phase>>,
         \A q \in Node : Waits(q)' <=> Waits(q),
         op'[getManagerId].pc = "counting" <=> op[getManagerId].pc = "counting",
         \A a, b \in Node : Of(net', a, b, "barrierRequest") = Of(net, a, b, "barrierRequest"),
         \A a, b \in Node : Single(net', a, b)
  PROVE  BarrierInv'
<1>1. /\ barrier' = barrier /\ counting' = counting /\ respond' = respond /\ phase' = phase
  BY DEF barriers
<1>3. (Responding' <=> Responding) /\ \A q : Served(q)' <=> Served(q)
  BY <1>1 DEF Responding, Served
<1>4. Pending' = Pending
  BY <1>3 DEF Pending
<1>5. \A q \in Node : Requested(q)' <=> Requested(q)
  BY ManagerIsNode DEF Requested
<1>6. Arrived' = Arrived
  BY <1>4, <1>5 DEF Arrived, Pending
<1>7. Arrivals' = Arrivals
  BY <1>1, <1>3 DEF Arrivals
<1>8. ManagerInv'
  BY <1>1, <1>3 DEF BarrierInv, ManagerInv
<1>9. ArrivalInv'
  <2>1. \A p \in Node : Served(p)' => Waits(p)'
    BY <1>3 DEF BarrierInv, ArrivalInv
  <2>2. Arrivals' + Cardinality(counting') <= Cardinality(Arrived')
    BY <1>1, <1>6, <1>7 DEF BarrierInv, ArrivalInv
  <2>3. \A a, b \in Node : Of(net', a, b, "barrierRequest") # {} =>
          b = getManagerId /\ a # getManagerId /\ a \in Pending'
    BY <1>4 DEF BarrierInv, ArrivalInv
  <2>4. QED
    BY <2>1, <2>2, <2>3 DEF ArrivalInv
<1>10. PhaseInv'
  BY <1>1, <1>4 DEF BarrierInv, PhaseInv
<1>11. QED
  BY <1>8, <1>9, <1>10 DEF BarrierInv

LEMMA BarriersKept ==
  ASSUME BarrierInv, BarrierFrame
  PROVE  BarrierInv'
<1>1. \A q \in Node : Waits(q)' <=> Waits(q)
  BY DEF BarrierFrame, Waits, Answered
<1>2. /\ \A a, b \in Node : Of(net', a, b, "barrierRequest") = Of(net, a, b, "barrierRequest")
      /\ \A a, b \in Node : Single(net', a, b)
      /\ op'[getManagerId].pc = "counting" <=> op[getManagerId].pc = "counting"
      /\ UNCHANGED <<barriers, phase>>
  BY DEF BarrierFrame
<1>3. QED
  BY <1>1, <1>2, BarriersStay

-------------------------------------------------------------------------------
(* The network in a step *)

LEMMA SentNet ==
  ASSUME NEW M, NEW nw \in Queues(M), NEW a \in Node, NEW b \in Node, NEW m,
         NEW t, t = Sent(nw, a, b, m)
  PROVE  (\E N : t \in Queues(N)) /\ Longer(nw, t, a, b, m)
<1>1. nw \in Queues(M \cup {m})
  <2>1. ASSUME NEW x \in Node, NEW y \in Node
        PROVE  nw[x][y] \in Seq(M \cup {m})
    <3>1. nw[x][y] \in Seq(M)
      BY DEF Queues
    <3>2. QED
      BY <3>1
  <2>2. QED
    BY <2>1 DEF Queues
<1>2. PICK N : N = M \cup {m}
  OBVIOUS
<1>3. nw \in Queues(N) /\ m \in N
  BY <1>1, <1>2
<1>4. t \in Queues(N) /\ Longer(nw, t, a, b, m)
  BY <1>3, SentQueues
<1>5. QED
  BY <1>4

\* A message is sent.
LEMMA NetSent ==
  ASSUME NetInv, WakeInv, NEW a \in Node, NEW b \in Node, NEW m, net' = Sent(net, a, b, m)
  PROVE  /\ NetInv' /\ Longer(net, net', a, b, m)
         /\ \A w \in Node : IsFiniteSet(Wakes(net', w))
         /\ \A w \in Node : w # Waiter(m, a, b) =>
              Cardinality(Wakes(net', w)) = Cardinality(Wakes(net, w))
         /\ \A w \in Node : w = Waiter(m, a, b) =>
              Cardinality(Wakes(net', w)) = Cardinality(Wakes(net, w)) + 1
<1>1. PICK M : net \in Queues(M)
  BY DEF NetInv
<1>2. (\E N : net' \in Queues(N)) /\ Longer(net, net', a, b, m)
  BY <1>1, SentNet
<1>3. ASSUME NEW w \in Node
      PROVE  /\ IsFiniteSet(Wakes(net', w))
             /\ w # Waiter(m, a, b) => Cardinality(Wakes(net', w)) = Cardinality(Wakes(net, w))
             /\ w = Waiter(m, a, b) => Cardinality(Wakes(net', w)) = Cardinality(Wakes(net, w)) + 1
  <2>1. IsFiniteSet(Wakes(net, w))
    BY DEF WakeInv
  <2>2. QED
    BY <1>2, <2>1, SentWakes
<1>4. QED
  BY <1>2, <1>3 DEF NetInv

\* A message is taken.
LEMMA NetTaken ==
  ASSUME NetInv, WakeInv, NEW q \in Node, NEW p \in Node, net[q][p] # <<>>,
         net' = Taken(net, q, p)
  PROVE  /\ NetInv' /\ Shorter(net, net', q, p)
         /\ Head(net[q][p]) \in Messages(net, q, p)
         /\ \A w \in Node : IsFiniteSet(Wakes(net', w))
         /\ \A w \in Node : w # Waiter(Head(net[q][p]), q, p) =>
              Cardinality(Wakes(net', w)) = Cardinality(Wakes(net, w))
         /\ \A w \in Node : w = Waiter(Head(net[q][p]), q, p) =>
              Cardinality(Wakes(net', w)) = Cardinality(Wakes(net, w)) - 1
<1>1. PICK M : net \in Queues(M)
  BY DEF NetInv
<1>2. net' \in Queues(M) /\ Shorter(net, net', q, p)
  BY <1>1, TakenQueues
<1>3. ASSUME NEW w \in Node
      PROVE  /\ IsFiniteSet(Wakes(net', w))
             /\ w # Waiter(Head(net[q][p]), q, p) =>
                  Cardinality(Wakes(net', w)) = Cardinality(Wakes(net, w))
             /\ w = Waiter(Head(net[q][p]), q, p) =>
                  Cardinality(Wakes(net', w)) = Cardinality(Wakes(net, w)) - 1
  <2>1. IsFiniteSet(Wakes(net, w))
    BY DEF WakeInv
  <2>2. QED
    BY <1>2, <2>1, TakenWakes
<1>4. Head(net[q][p]) \in Messages(net, q, p)
  BY <1>2, TakenMessages
<1>5. QED
  BY <1>2, <1>3, <1>4 DEF NetInv

\* A message is taken and answered: whoever is woken by the one is woken by the
\* other.
LEMMA NetAnswered ==
  ASSUME NetInv, WakeInv, NEW q \in Node, NEW p \in Node, net[q][p] # <<>>, NEW m,
         net' = Sent(Taken(net, q, p), p, q, m),
         Waiter(Head(net[q][p]), q, p) = q, Waiter(m, p, q) = q
  PROVE  /\ NetInv'
         /\ \E t : Shorter(net, t, q, p) /\ Longer(t, net', p, q, m)
         /\ Head(net[q][p]) \in Messages(net, q, p)
         /\ \A w \in Node : IsFiniteSet(Wakes(net', w))
         /\ \A w \in Node : Cardinality(Wakes(net', w)) = Cardinality(Wakes(net, w))
<1>1. PICK M : net \in Queues(M)
  BY DEF NetInv
<1>2. PICK t : t = Taken(net, q, p)
  OBVIOUS
<1>3. t \in Queues(M) /\ Shorter(net, t, q, p)
  BY <1>1, <1>2, TakenQueues
<1>4. net' = Sent(t, p, q, m)
  BY <1>2
<1>5. (\E N : net' \in Queues(N)) /\ Longer(t, net', p, q, m)
  BY <1>3, <1>4, SentNet
<1>6. ASSUME NEW w \in Node
      PROVE  /\ IsFiniteSet(Wakes(net', w))
             /\ Cardinality(Wakes(net', w)) = Cardinality(Wakes(net, w))
  <2>1. IsFiniteSet(Wakes(net, w)) /\ Cardinality(Wakes(net, w)) \in Nat
    BY FS_CardinalityType DEF WakeInv
  <2>2. CASE w = q
    <3>1. IsFiniteSet(Wakes(t, w)) /\ Cardinality(Wakes(t, w)) = Cardinality(Wakes(net, w)) - 1
      BY <1>3, <2>1, <2>2, TakenWakes
    <3>2. /\ IsFiniteSet(Wakes(net', w))
          /\ Cardinality(Wakes(net', w)) = Cardinality(Wakes(t, w)) + 1
      BY <1>5, <2>2, <3>1, SentWakes
    <3>3. QED
      BY <2>1, <3>1, <3>2
  <2>3. CASE w # q
    <3>1. IsFiniteSet(Wakes(t, w)) /\ Cardinality(Wakes(t, w)) = Cardinality(Wakes(net, w))
      BY <1>3, <2>1, <2>3, TakenWakes
    <3>2. Wakes(net', w) = Wakes(t, w)
      BY <1>5, <2>3, <3>1, SentWakes
    <3>3. QED
      BY <3>1, <3>2
  <2>4. QED
    BY <2>2, <2>3
<1>7. Head(net[q][p]) \in Messages(net, q, p)
  BY <1>3, TakenMessages
<1>8. QED
  BY <1>3, <1>5, <1>6, <1>7 DEF NetInv

-------------------------------------------------------------------------------
(* Steps of a thread that is in no lock and no barrier *)

Outside == {"idle", "store"} \cup Faulting

LEMMA OpKept ==
  ASSUME OpInv, NEW p \in Node, NEW o, op' = [op EXCEPT ![p] = o], Sound(p, o, held'[p]),
         \A q \in Node : q # p => held'[q] = held[q]
  PROVE  OpInv' /\ op'[p] = o /\ \A q \in Node : q # p => op'[q] = op[q]
<1>1. op = [q \in Node |-> op[q]]
  BY DEF OpInv
<1>2. /\ op'[p] = o /\ \A q \in Node : q # p => op'[q] = op[q]
      /\ op' = [q \in Node |-> op'[q]]
  BY <1>1
<1>3. \A q \in Node : Sound(q, op'[q], held'[q])
  BY <1>2 DEF OpInv
<1>4. QED
  BY <1>2, <1>3 DEF OpInv

LEMMA OpSame == ASSUME OpInv, op' = op, held' = held PROVE OpInv'
  BY DEF OpInv

LEMMA OutsideFrame ==
  ASSUME NEW p \in Node, op[p].pc \in Outside, op'[p].pc \in Outside,
         \A q \in Node : q # p => op'[q] = op[q],
         UNCHANGED <<locks, barriers, held, phase>>,
         \A q \in Node : q # p => channel'[q] = channel[q] /\ Owed(q)' = Owed(q),
         \A a, b \in Node : \A type \in {"lockAcquireResponse", "barrierRequest"} :
           Of(net', a, b, type) = Of(net, a, b, type),
         \A a, b \in Node : Single(net', a, b)
  PROVE  LockFrame /\ BarrierFrame
<1>1. /\ op[p].pc \notin {"lock", "counting", "barrier"}
      /\ op'[p].pc \notin {"lock", "counting", "barrier"}
  BY DEF Outside, Faulting
<1>2. LockFrame
  BY <1>1 DEF LockFrame
<1>3. \A q \in Node : InBarrier(q)' <=> InBarrier(q)
  BY <1>1 DEF InBarrier
<1>4. op'[getManagerId].pc = "counting" <=> op[getManagerId].pc = "counting"
  BY <1>1, ManagerIsNode
<1>5. \A q \in Node : InBarrier(q) => Owed(q)' = Owed(q)
  BY <1>1 DEF InBarrier
<1>6. BarrierFrame
  BY <1>3, <1>4, <1>5 DEF BarrierFrame
<1>7. QED
  BY <1>2, <1>6

\* A step that keeps the invariant, and in which no program sees anything of a lock.
Unseen == HostInv' /\ LockFrame

LEMMA Framed ==
  ASSUME HostInv, NetInv', OpInv', WakeInv', ReasonInv', LockFrame, BarrierFrame
  PROVE  Unseen
<1>1. TokenInv' /\ RequestInv'
  BY LocksKept DEF HostInv
<1>2. BarrierInv'
  BY BarriersKept DEF HostInv
<1>3. QED
  BY <1>1, <1>2 DEF Unseen, HostInv, CallInv

\* The thread goes on without waiting.
LEMMA LocalStep ==
  ASSUME HostInv, NEW p \in Node, NEW o, op' = [op EXCEPT ![p] = o], Sound(p, o, held[p]),
         op[p].pc \in Outside, o.pc \in Outside, Awaited(op[p]) = 0,
         UNCHANGED <<channel, net, locks, barriers, held, phase>>
  PROVE  Unseen
<1>1. NetInv /\ OpInv /\ WakeInv /\ ReasonInv
  BY DEF HostInv, CallInv
<1>2. OpInv' /\ op'[p] = o /\ \A q \in Node : q # p => op'[q] = op[q]
  BY <1>1, OpKept
<1>3. \A q \in Node : Owed(q)' = Owed(q)
  BY DEF Owed
<1>4. Owed(p) = 0
  BY <1>1, OwedType DEF WakeInv
<1>5. WakeInv'
  <2>1. Awaited(o) \in Nat
    BY DEF Awaited, Sound, Faulting
  <2>2. Owed(p)' <= Awaited(op'[p])
    BY <1>2, <1>3, <1>4, <2>1
  <2>3. \A q \in Node : Owed(q)' <= Awaited(op'[q])
    BY <1>1, <1>2, <1>3, <2>2 DEF WakeInv
  <2>4. channel' \in [Node -> Nat] /\ \A q \in Node : IsFiniteSet(Wakes(net', q))
    BY <1>1 DEF WakeInv
  <2>5. QED
    BY <2>3, <2>4 DEF WakeInv
<1>6. ReasonInv'
  <2>1. SUFFICES ASSUME NEW a \in Node, NEW b \in Node, NEW m \in Messages(net, a, b),
                        m.type # "barrierRequest"
                 PROVE  op'[Waiter(m, a, b)] = op[Waiter(m, a, b)]
    BY <1>1 DEF ReasonInv
  <2>2. Waiter(m, a, b) \in Node
    BY <1>1, <2>1 DEF ReasonInv, Waiter
  <2>3. Owed(Waiter(m, a, b)) > 0
    BY <1>1, <2>2, MessageOwed
  <2>4. QED
    BY <1>2, <1>4, <2>2, <2>3
<1>7. LockFrame /\ BarrierFrame
  <2>1. \A a, b \in Node : Single(net, a, b)
    BY DEF HostInv, BarrierInv, ArrivalInv
  <2>2. net' = net /\ channel' = channel
    OBVIOUS
  <2>3. QED
    BY <1>2, <1>3, <2>1, <2>2, OutsideFrame
<1>8. NetInv'
  BY <1>1 DEF NetInv
<1>9. QED
  BY <1>2, <1>5, <1>6, <1>7, <1>8, Framed

\* The thread receives a wake-up it has waited for.
LEMMA ReceiveStep ==
  ASSUME HostInv, NEW p \in Node, NEW o, op' = [op EXCEPT ![p] = o], Sound(p, o, held[p]),
         op[p].pc \in Outside, o.pc \in Outside, Awaited(op[p]) = Awaited(o) + 1,
         o.pc = op[p].pc \/ Awaited(o) = 0, Received(p),
         UNCHANGED <<net, locks, barriers, held, phase>>
  PROVE  Unseen
<1>1. NetInv /\ OpInv /\ WakeInv /\ ReasonInv
  BY DEF HostInv, CallInv
<1>2. OpInv' /\ op'[p] = o /\ \A q \in Node : q # p => op'[q] = op[q]
  BY <1>1, OpKept
<1>3. /\ channel[p] > 0 /\ channel' \in [Node -> Nat] /\ channel'[p] = channel[p] - 1
      /\ \A q \in Node : q # p => channel'[q] = channel[q]
  BY <1>1 DEF Received, WakeInv
<1>4. Awaited(o) \in Nat
  BY DEF Awaited, Sound, Faulting
<1>5. /\ Owed(p)' = Owed(p) - 1
      /\ \A q \in Node : q # p => Owed(q)' = Owed(q)
  <2>1. /\ Owed(p) = channel[p] + Cardinality(Wakes(net, p))
        /\ channel[p] \in Nat /\ Cardinality(Wakes(net, p)) \in Nat
    BY <1>1, OwedType
  <2>2. Owed(p)' = channel'[p] + Cardinality(Wakes(net, p))
    BY DEF Owed
  <2>3. \A q \in Node : q # p => Owed(q)' = Owed(q)
    BY <1>3 DEF Owed
  <2>4. QED
    BY <1>3, <2>1, <2>2, <2>3
<1>6. WakeInv'
  <2>1. Owed(p)' <= Awaited(op'[p])
    <3>1. Owed(p) \in Nat /\ Owed(p) <= Awaited(o) + 1
      BY <1>1, OwedType DEF WakeInv
    <3>2. QED
      BY <1>2, <1>4, <1>5, <3>1
  <2>2. \A q \in Node : q # p => Owed(q)' <= Awaited(op'[q])
    BY <1>1, <1>2, <1>5 DEF WakeInv
  <2>3. \A q \in Node : IsFiniteSet(Wakes(net', q))
    BY <1>1 DEF WakeInv
  <2>4. QED
    BY <1>3, <2>1, <2>2, <2>3 DEF WakeInv
<1>7. ReasonInv'
  <2>1. SUFFICES ASSUME NEW a \in Node, NEW b \in Node, NEW m \in Messages(net, a, b),
                        m.type # "barrierRequest"
                 PROVE  op'[Waiter(m, a, b)].pc = op[Waiter(m, a, b)].pc
    BY <1>1 DEF ReasonInv
  <2>2. Waiter(m, a, b) \in Node
    BY <1>1, <2>1 DEF ReasonInv, Waiter
  <2>3. CASE Waiter(m, a, b) = p
    <3>1. Cardinality(Wakes(net, p)) > 0
      BY <1>1, <2>3, MessageOwed
    <3>2. Owed(p) >= 2
      BY <1>1, <1>3, <3>1, OwedType
    <3>3. Awaited(o) # 0
      BY <1>1, <1>4, <3>2, OwedType DEF WakeInv
    <3>4. QED
      BY <1>2, <2>3, <3>3
  <2>4. QED
    BY <1>2, <2>2, <2>3
<1>8. LockFrame /\ BarrierFrame
  <2>1. \A a, b \in Node : Single(net, a, b)
    BY DEF HostInv, BarrierInv, ArrivalInv
  <2>2. net' = net
    OBVIOUS
  <2>3. QED
    BY <1>2, <1>3, <1>5, <2>1, <2>2, OutsideFrame
<1>9. NetInv'
  BY <1>1 DEF NetInv
<1>10. QED
  BY <1>2, <1>6, <1>7, <1>8, <1>9, Framed

\* What a thread that waits for more, and a message to wake it, come to.
LEMMA AskStep ==
  ASSUME HostInv, NEW p \in Node, NEW o, op' = [op EXCEPT ![p] = o], Sound(p, o, held[p]),
         op[p].pc \in Outside, o.pc \in Outside,
         NEW b, NEW m, m.type \in Asking, o.pc = Reason(m.type), net' = Sent(net, p, b, m),
         Awaited(o) = Awaited(op[p]) + 1, Awaited(op[p]) = 0 \/ o.pc = op[p].pc,
         UNCHANGED <<channel, locks, barriers, held, phase>>
  PROVE  Unseen
<1>1. NetInv /\ OpInv /\ WakeInv /\ ReasonInv /\ \A x, y \in Node : Single(net, x, y)
  BY DEF HostInv, CallInv, BarrierInv, ArrivalInv
<1>2. OpInv' /\ op'[p] = o /\ \A q \in Node : q # p => op'[q] = op[q]
  BY <1>1, OpKept
<1>3. Waiter(m, p, b) = p /\ m.type # "lockAcquireResponse" /\ m.type # "barrierRequest"
  BY DEF Waiter, Asking
<1> DEFINE Fewer(w) == Cardinality(Wakes(net', w)) = Cardinality(Wakes(net, w))
           More == Cardinality(Wakes(net', p)) = Cardinality(Wakes(net, p)) + 1
<1>4. /\ NetInv' /\ \A w \in Node : IsFiniteSet(Wakes(net', w))
      /\ \A w \in Node : w # p => Fewer(w)
      /\ Fewer(p) \/ More
      /\ \A x, y \in Node : \A z \in Messages(net', x, y) :
           z \in Messages(net, x, y) \/ (z = m /\ x = p /\ y = b)
      /\ \A x, y \in Node : \A type \in {"lockAcquireResponse", "barrierRequest"} :
           Of(net', x, y, type) = Of(net, x, y, type)
      /\ \A x, y \in Node : Single(net', x, y)
  <2>1. CASE b \notin Node
    <3>1. PICK M : net \in Queues(M)
      BY <1>1 DEF NetInv
    <3>2. net' = net
      BY <2>1, <3>1 DEF Sent, Queues
    <3>3. NetInv'
      BY <1>1, <3>2 DEF NetInv
    <3>4. \A w \in Node : IsFiniteSet(Wakes(net, w))
      BY <1>1 DEF WakeInv
    <3>5. QED
      BY <1>1, <3>2, <3>3, <3>4
  <2>2. CASE b \in Node
    <3>1. /\ NetInv' /\ Longer(net, net', p, b, m)
          /\ \A w \in Node : IsFiniteSet(Wakes(net', w))
          /\ \A w \in Node : w # p => Fewer(w)
          /\ More
      BY <1>1, <1>3, <2>2, NetSent
    <3>2. \A x, y \in Node : \A z \in Messages(net', x, y) :
            z \in Messages(net, x, y) \/ (z = m /\ x = p /\ y = b)
      <4>1. /\ Messages(net', p, b) = Messages(net, p, b) \cup {m}
            /\ \A x, y \in Node : x # p \/ y # b => Messages(net', x, y) = Messages(net, x, y)
        BY <2>2, <3>1, SentMessages
      <4>2. QED
        BY <4>1
    <3>3. ASSUME NEW type \in {"lockAcquireResponse", "barrierRequest"}
          PROVE  \A x, y \in Node : Of(net', x, y, type) = Of(net, x, y, type)
      <4>1. m.type # type
        BY <1>3
      <4>2. QED
        BY <2>2, <3>1, <4>1, SentOf
    <3>4. \A x, y \in Node : Single(net', x, y)
      BY <1>1, <1>3, <2>2, <3>1, SentSingle
    <3>5. QED
      BY <3>1, <3>2, <3>3, <3>4
  <2>3. QED
    BY <2>1, <2>2
<1>5. /\ \A w \in Node : w # p => Owed(w)' = Owed(w)
      /\ Owed(p)' = Owed(p) \/ Owed(p)' = Owed(p) + 1
  <2>1. channel' = channel
    OBVIOUS
  <2>2. \A w \in Node : w # p => Owed(w)' = Owed(w)
    BY <1>4, <2>1 DEF Owed
  <2>3. channel[p] \in Nat /\ Cardinality(Wakes(net, p)) \in Nat
    BY <1>1, OwedType
  <2>4. Owed(p)' = Owed(p) \/ Owed(p)' = Owed(p) + 1
    BY <1>4, <2>1, <2>3 DEF Owed
  <2>5. QED
    BY <2>2, <2>4
<1> HIDE DEF Fewer, More
<1>6. Owed(p) \in Nat /\ Owed(p) <= Awaited(op[p])
  BY <1>1, OwedType DEF WakeInv
<1>7. WakeInv'
  <2>1. Sound(p, op[p], held[p])
    BY <1>1 DEF OpInv
  <2>2. Awaited(op[p]) \in Nat
    BY <2>1 DEF Awaited, Sound, Faulting, Outside
  <2>3. Owed(p)' <= Awaited(op'[p])
    BY <1>2, <1>5, <1>6, <2>2
  <2>4. \A w \in Node : w # p => Owed(w)' <= Awaited(op'[w])
    BY <1>1, <1>2, <1>5 DEF WakeInv
  <2>5. channel' \in [Node -> Nat]
    BY <1>1 DEF WakeInv
  <2>6. QED
    BY <1>4, <2>3, <2>4, <2>5 DEF WakeInv
<1>8. ReasonInv'
  <2>1. ASSUME NEW x \in Node, NEW y \in Node, NEW z \in Messages(net', x, y)
        PROVE  /\ z.type \in Asking \cup Answering \cup {"barrierRequest"}
               /\ z.type # "barrierRequest" => op'[Waiter(z, x, y)].pc = Reason(z.type)
    <3>1. CASE z = m /\ x = p /\ y = b
      BY <1>2, <1>3, <3>1
    <3>2. CASE z \in Messages(net, x, y) /\ z.type # "barrierRequest"
      <4>1. /\ z.type \in Asking \cup Answering
            /\ op[Waiter(z, x, y)].pc = Reason(z.type)
        BY <1>1, <3>2 DEF ReasonInv
      <4>2. Waiter(z, x, y) \in Node
        BY <4>1 DEF Waiter
      <4>3. Owed(Waiter(z, x, y)) > 0
        BY <1>1, <3>2, <4>2, MessageOwed
      <4>4. CASE Waiter(z, x, y) = p
        <5>1. Awaited(op[p]) # 0
          BY <1>6, <4>3, <4>4
        <5>2. QED
          BY <1>2, <4>1, <4>4, <5>1
      <4>5. QED
        BY <1>2, <4>1, <4>2, <4>4
    <3>3. CASE z \in Messages(net, x, y) /\ z.type = "barrierRequest"
      BY <3>3
    <3>4. QED
      BY <1>4, <3>1, <3>2, <3>3
  <2>2. QED
    BY <2>1 DEF ReasonInv
<1>9. LockFrame /\ BarrierFrame
  BY <1>2, <1>4, <1>5, OutsideFrame
<1>10. QED
  BY <1>2, <1>4, <1>7, <1>8, <1>9, Framed

\* A network thread answers a request: the thread that asked is yet to be woken.
LEMMA ReplyStep ==
  ASSUME HostInv, NEW p \in Node, NEW q \in Node, net[q][p] # <<>>,
         Head(net[q][p]).type \in Asking,
         NEW m, m.type \in {"copyResponse", "diffResponse"},
         Reason(m.type) = Reason(Head(net[q][p]).type),
         net' = Sent(Taken(net, q, p), p, q, m),
         UNCHANGED <<op, channel, locks, barriers, held, phase>>
  PROVE  Unseen
<1>1. NetInv /\ OpInv /\ WakeInv /\ ReasonInv /\ \A x, y \in Node : Single(net, x, y)
  BY DEF HostInv, CallInv, BarrierInv, ArrivalInv
<1>2. PICK h : h = Head(net[q][p])
  OBVIOUS
<1>3. /\ Waiter(h, q, p) = q /\ Waiter(m, p, q) = q
      /\ h.type \notin {"lockAcquireResponse", "barrierRequest"}
      /\ m.type \notin {"lockAcquireResponse", "barrierRequest"}
      /\ m.type \in Answering
  BY <1>2 DEF Waiter, Asking, Answering
<1>4. /\ NetInv'
      /\ \E t : Shorter(net, t, q, p) /\ Longer(t, net', p, q, m)
      /\ h \in Messages(net, q, p)
      /\ \A w \in Node : IsFiniteSet(Wakes(net', w))
      /\ \A w \in Node : Cardinality(Wakes(net', w)) = Cardinality(Wakes(net, w))
  BY <1>1, <1>2, <1>3, NetAnswered
<1>5. PICK mid : Shorter(net, mid, q, p) /\ Longer(mid, net', p, q, m)
  BY <1>4
<1>6. \A w \in Node : Owed(w)' = Owed(w)
  BY <1>4 DEF Owed
<1>7. op[q].pc = Reason(h.type) /\ op[q].pc \in Outside
  <2>1. op[q].pc = Reason(h.type)
    BY <1>1, <1>3, <1>4 DEF ReasonInv
  <2>2. QED
    BY <1>2, <2>1 DEF Reason, Asking, Outside, Faulting
<1>8. WakeInv'
  BY <1>1, <1>4, <1>6 DEF WakeInv
<1>9. ReasonInv'
  <2>1. /\ \A x, y \in Node : Messages(mid, x, y) \subseteq Messages(net, x, y)
        /\ Messages(net', p, q) = Messages(mid, p, q) \cup {m}
        /\ \A x, y \in Node : x # p \/ y # q => Messages(net', x, y) = Messages(mid, x, y)
    BY <1>5, TakenMessages, SentMessages
  <2>2. ASSUME NEW x \in Node, NEW y \in Node, NEW z \in Messages(net', x, y)
        PROVE  /\ z.type \in Asking \cup Answering \cup {"barrierRequest"}
               /\ z.type # "barrierRequest" => op[Waiter(z, x, y)].pc = Reason(z.type)
    <3>1. z \in Messages(net, x, y) \/ (z = m /\ x = p /\ y = q)
      BY <2>1
    <3>2. CASE z = m /\ x = p /\ y = q
      BY <1>2, <1>3, <1>7, <3>2
    <3>3. CASE z \in Messages(net, x, y)
      BY <1>1, <3>3 DEF ReasonInv
    <3>4. QED
      BY <3>1, <3>2, <3>3
  <2>3. op' = op
    OBVIOUS
  <2>4. QED
    BY <2>2, <2>3 DEF ReasonInv
<1>10. OpInv'
  BY <1>1, OpSame
<1>11. LockFrame /\ BarrierFrame
  <2>1. ASSUME NEW type \in {"lockAcquireResponse", "barrierRequest"}
        PROVE  \A x, y \in Node : Of(net', x, y, type) = Of(net, x, y, type)
    <3>1. m.type # type /\ Head(net[q][p]).type # type
      BY <1>2, <1>3
    <3>2. \A x, y \in Node : Of(mid, x, y, type) = Of(net, x, y, type)
      BY <1>5, <3>1, TakenOf
    <3>3. \A x, y \in Node : Of(net', x, y, type) = Of(mid, x, y, type)
      BY <1>5, <3>1, SentOther
    <3>4. QED
      BY <3>2, <3>3
  <2>2. \A x, y \in Node : Single(mid, x, y)
    BY <1>1, <1>5, TakenSingle
  <2>3. \A x, y \in Node : Single(net', x, y)
    BY <1>3, <1>5, <2>2, SentSingle
  <2>4. op' = op /\ channel' = channel
    OBVIOUS
  <2>5. QED
    BY <1>6, <1>7, <2>1, <2>3, <2>4, OutsideFrame
<1>12. QED
  BY <1>4, <1>8, <1>9, <1>10, <1>11, Framed

\* What the taking of h by p's network thread changes, and what it leaves alone.
TakeFrame(h, q, p) ==
  /\ NetInv' /\ h \in Messages(net, q, p)
  /\ \A w \in Node : IsFiniteSet(Wakes(net', w))
  /\ \A w \in Node : w # Waiter(h, q, p) =>
       Cardinality(Wakes(net', w)) = Cardinality(Wakes(net, w))
  /\ \A w \in Node : w = Waiter(h, q, p) =>
       Cardinality(Wakes(net', w)) = Cardinality(Wakes(net, w)) - 1
  /\ \A x, y \in Node : Messages(net', x, y) \subseteq Messages(net, x, y)
  /\ \A x, y \in Node : \A type : x # q \/ y # p \/ h.type # type =>
       Of(net', x, y, type) = Of(net, x, y, type)
  /\ \A x, y \in Node : Single(net', x, y)
  /\ h.type = "barrierRequest" => Of(net', q, p, "barrierRequest") = {}

LEMMA TakeKeeps ==
  ASSUME HostInv, NEW q \in Node, NEW p \in Node, net[q][p] # <<>>,
         NEW h, h = Head(net[q][p]), net' = Taken(net, q, p)
  PROVE  TakeFrame(h, q, p)
<1>1. NetInv /\ WakeInv /\ \A x, y \in Node : Single(net, x, y)
  BY DEF HostInv, CallInv, BarrierInv, ArrivalInv
<1>2. /\ NetInv' /\ Shorter(net, net', q, p)
      /\ h \in Messages(net, q, p)
      /\ \A w \in Node : IsFiniteSet(Wakes(net', w))
      /\ \A w \in Node : w # Waiter(h, q, p) =>
           Cardinality(Wakes(net', w)) = Cardinality(Wakes(net, w))
      /\ \A w \in Node : w = Waiter(h, q, p) =>
           Cardinality(Wakes(net', w)) = Cardinality(Wakes(net, w)) - 1
  BY <1>1, NetTaken
<1>3. \A x, y \in Node : Messages(net', x, y) \subseteq Messages(net, x, y)
  BY <1>2, TakenMessages
<1>4. ASSUME NEW type
      PROVE  \A x, y \in Node : x # q \/ y # p \/ h.type # type =>
               Of(net', x, y, type) = Of(net, x, y, type)
  BY <1>2, TakenOf
<1>5. /\ \A x, y \in Node : Single(net', x, y)
      /\ h.type = "barrierRequest" => Of(net', q, p, "barrierRequest") = {}
  BY <1>1, <1>2, TakenSingle
<1>6. QED
  BY <1>2, <1>3, <1>4, <1>5 DEF TakeFrame

\* A step that takes messages only and moves no thread.
LEMMA ReasonKept ==
  ASSUME ReasonInv, op' = op,
         \A x, y \in Node : Messages(net', x, y) \subseteq Messages(net, x, y)
  PROVE  ReasonInv'
BY DEF ReasonInv

\* A network thread that takes an answer wakes its own host, and nobody is owed
\* more than before.
LEMMA AnswerKeeps ==
  ASSUME HostInv, NEW p \in Node, NEW q \in Node, NEW h, TakeFrame(h, q, p), Signal(p),
         h.type \in Answering, op' = op
  PROVE  /\ \A w \in Node : Owed(w)' = Owed(w)
         /\ \A w \in Node : w # p => channel'[w] = channel[w]
         /\ channel'[p] = channel[p] + 1
         /\ WakeInv' /\ ReasonInv' /\ op[p].pc = Reason(h.type) /\ Owed(p) > 0
<1>1. NetInv /\ WakeInv /\ ReasonInv
  BY DEF HostInv, CallInv
<1>2. /\ h \in Messages(net, q, p)
      /\ \A w \in Node : IsFiniteSet(Wakes(net', w))
      /\ \A w \in Node : w # Waiter(h, q, p) =>
           Cardinality(Wakes(net', w)) = Cardinality(Wakes(net, w))
      /\ \A w \in Node : w = Waiter(h, q, p) =>
           Cardinality(Wakes(net', w)) = Cardinality(Wakes(net, w)) - 1
      /\ \A x, y \in Node : Messages(net', x, y) \subseteq Messages(net, x, y)
  BY DEF TakeFrame
<1>3. Waiter(h, q, p) = p
  BY DEF Waiter, Asking, Answering
<1>4. /\ channel'[p] = channel[p] + 1 /\ channel' \in [Node -> Nat]
      /\ \A w \in Node : w # p => channel'[w] = channel[w]
  BY <1>1 DEF Signal, WakeInv
<1>5. \A w \in Node : Owed(w)' = Owed(w)
  <2>1. \A w \in Node : w # p => Owed(w)' = Owed(w)
    BY <1>2, <1>3, <1>4 DEF Owed
  <2>2. /\ channel[p] \in Nat /\ Cardinality(Wakes(net, p)) \in Nat
        /\ Cardinality(Wakes(net', p)) = Cardinality(Wakes(net, p)) - 1
    BY <1>1, <1>2, <1>3, OwedType
  <2>3. Owed(p)' = Owed(p)
    BY <1>4, <2>2 DEF Owed
  <2>4. QED
    BY <2>1, <2>3
<1>6. WakeInv'
  BY <1>1, <1>2, <1>4, <1>5 DEF WakeInv
<1>7. ReasonInv'
  BY <1>1, <1>2, ReasonKept
<1>8. op[p].pc = Reason(h.type)
  <2>1. h.type # "barrierRequest"
    BY DEF Answering
  <2>2. QED
    BY <1>1, <1>2, <1>3, <2>1 DEF ReasonInv
<1>9. Owed(p) > 0
  BY <1>1, <1>2, <1>3, MessageOwed
<1>10. QED
  BY <1>4, <1>5, <1>6, <1>7, <1>8, <1>9

LEMMA AnswerStep ==
  ASSUME HostInv, NEW p \in Node, NEW q \in Node, net[q][p] # <<>>,
         Head(net[q][p]).type \in {"copyResponse", "diffResponse"},
         net' = Taken(net, q, p), Signal(p),
         UNCHANGED <<op, locks, barriers, held, phase>>
  PROVE  Unseen
<1>1. PICK h : h = Head(net[q][p])
  OBVIOUS
<1>2. TakeFrame(h, q, p)
  BY <1>1, TakeKeeps
<1>3. h.type \in Answering /\ h.type \notin {"lockAcquireResponse", "barrierRequest"}
  BY <1>1 DEF Answering
<1>4. /\ \A w \in Node : Owed(w)' = Owed(w)
      /\ \A w \in Node : w # p => channel'[w] = channel[w]
      /\ WakeInv' /\ ReasonInv' /\ op[p].pc = Reason(h.type)
  BY <1>2, <1>3, AnswerKeeps
<1>5. op[p].pc \in Outside
  BY <1>1, <1>4 DEF Reason, Outside, Faulting
<1>6. /\ NetInv' /\ \A x, y \in Node : Single(net', x, y)
      /\ \A x, y \in Node : \A type \in {"lockAcquireResponse", "barrierRequest"} :
           Of(net', x, y, type) = Of(net, x, y, type)
  BY <1>2, <1>3 DEF TakeFrame
<1>7. OpInv'
  BY OpSame DEF HostInv, CallInv
<1>8. op' = op
  OBVIOUS
<1>9. LockFrame /\ BarrierFrame
  BY <1>4, <1>5, <1>6, <1>8, OutsideFrame
<1>10. QED
  BY <1>4, <1>6, <1>7, <1>9, Framed

-------------------------------------------------------------------------------
(* Locks *)

LEMMA LocksAssembled ==
  ASSUME HostInv, NetInv', OpInv', WakeInv', ReasonInv', TokenInv', RequestInv', BarrierFrame
  PROVE  HostInv'
BY BarriersKept DEF HostInv, CallInv

\* A thread that awaits nothing is woken by nothing.
LEMMA NotWoken ==
  ASSUME HostInv, NEW p \in Node, Awaited(op[p]) = 0
  PROVE  /\ channel[p] = 0 /\ Owed(p) = 0
         /\ \A x, y \in Node : \A z \in Messages(net, x, y) :
              z.type # "barrierRequest" => Waiter(z, x, y) \in Node \ {p}
<1>1. NetInv /\ WakeInv /\ ReasonInv
  BY DEF HostInv, CallInv
<1>2. channel[p] = 0 /\ Owed(p) = 0
  BY <1>1, OwedType DEF WakeInv
<1>3. ASSUME NEW x \in Node, NEW y \in Node, NEW z \in Messages(net, x, y),
             z.type # "barrierRequest"
      PROVE  Waiter(z, x, y) \in Node \ {p}
  <2>1. Waiter(z, x, y) \in Node
    BY <1>1, <1>3 DEF ReasonInv, Waiter
  <2>2. Waiter(z, x, y) # p
    BY <1>1, <1>2, MessageOwed
  <2>3. QED
    BY <2>1, <2>2
<1>4. QED
  BY <1>2, <1>3

\* A thread that was woken by nothing goes somewhere else.
LEMMA ReasonMoved ==
  ASSUME ReasonInv, NEW p \in Node, \A q \in Node : q # p => op'[q] = op[q], net' = net,
         \A x, y \in Node : \A z \in Messages(net, x, y) :
           z.type # "barrierRequest" => Waiter(z, x, y) \in Node \ {p}
  PROVE  ReasonInv'
BY DEF ReasonInv

\* AcquireLock of a lock whose token is here.
LEMMA TakeStep ==
  ASSUME HostInv, NEW p \in Node, NEW l \in LockId, op[p].pc = "idle", token[l] = p,
         locked' = [locked EXCEPT ![l] = TRUE],
         held' = [held EXCEPT ![p] = @ \cup {l}],
         UNCHANGED <<op, requests, channel, net, token, barriers, phase>>
  PROVE  HostInv'
<1>1. NetInv /\ OpInv /\ WakeInv /\ ReasonInv /\ TokenInv /\ RequestInv
      /\ \A x, y \in Node : Single(net, x, y)
  BY DEF HostInv, CallInv, BarrierInv, ArrivalInv
<1>2. /\ op' = op /\ requests' = requests /\ channel' = channel /\ net' = net /\ token' = token
      /\ barriers' = barriers /\ phase' = phase
  OBVIOUS
<1>3. \A x \in Node : Owed(x)' = Owed(x)
  BY <1>2 DEF Owed
<1>4. /\ held' \in [Node -> SUBSET LockId] /\ held'[p] = held[p] \cup {l}
      /\ \A x \in Node : x # p => held'[x] = held[x]
      /\ locked' \in [LockId -> BOOLEAN] /\ locked'[l] = TRUE
      /\ \A k \in LockId : k # l => locked'[k] = locked[k]
  BY <1>1 DEF TokenInv
<1>5. OpInv'
  <2>1. \A x \in Node : Sound(x, op[x], held[x])
    BY <1>1 DEF OpInv
  <2>2. \A x \in Node : Sound(x, op[x], held'[x])
    BY <1>4, <2>1 DEF Sound, Faulting
  <2>3. QED
    BY <1>1, <1>2, <2>2 DEF OpInv
<1>6. NetInv' /\ WakeInv' /\ ReasonInv'
  BY <1>1, <1>2, <1>3 DEF NetInv, WakeInv, ReasonInv
<1>7. TokenInv'
  <2>1. \A k \in LockId : \A x \in Node : Coming(k, x)' <=> Coming(k, x)
    BY <1>2 DEF Coming
  <2>2. ASSUME NEW k \in LockId, NEW x \in Node
        PROVE  /\ Coming(k, x)' => token'[k] = NoNode
               /\ k \in held'[x] => token'[k] = x /\ locked'[k]
               /\ \A q \in Node : Coming(k, x)' /\ Coming(k, q)' => x = q
    BY <1>1, <1>2, <1>4, <2>1 DEF TokenInv
  <2>3. ASSUME NEW x \in Node, op[x].pc = "lock", channel[x] > 0
        PROVE  token[op[x].lock] = x /\ locked'[op[x].lock]
    <3>1. op[x].lock \in LockId
      BY <1>1, <2>3 DEF OpInv, Sound
    <3>2. token[op[x].lock] = x /\ locked[op[x].lock]
      BY <1>1, <2>3 DEF TokenInv
    <3>3. QED
      BY <1>4, <3>1, <3>2
  <2>4. \A a, b \in Node : \A m \in Of(net, a, b, "lockAcquireResponse") : m.LockId = op[b].lock
    BY <1>1 DEF TokenInv
  <2>5. token \in [LockId -> Node \cup {NoNode}]
    BY <1>1 DEF TokenInv
  <2>6. QED
    BY <1>2, <1>4, <2>2, <2>3, <2>4, <2>5 DEF TokenInv
<1>8. RequestInv'
  BY <1>1, <1>2, <1>3 DEF RequestInv
<1>9. BarrierFrame
  BY <1>1, <1>2, <1>3 DEF BarrierFrame, InBarrier
<1>10. QED
  BY <1>5, <1>6, <1>7, <1>8, <1>9, LocksAssembled

\* AcquireLock of a lock whose token is elsewhere.
LEMMA BlockStep ==
  ASSUME HostInv, NEW p \in Node, NEW l \in LockId, op[p].pc = "idle", token[l] # p,
         NEW r, r.From = p, requests' = [requests EXCEPT ![l] = @ \cup {r}],
         op' = [op EXCEPT ![p] = [pc |-> "lock", lock |-> l]],
         UNCHANGED <<locked, held, channel, net, token, barriers, phase>>
  PROVE  HostInv'
<1>1. NetInv /\ OpInv /\ WakeInv /\ ReasonInv /\ TokenInv /\ RequestInv
      /\ \A x, y \in Node : Single(net, x, y)
  BY DEF HostInv, CallInv, BarrierInv, ArrivalInv
<1>2. /\ locked' = locked /\ held' = held /\ channel' = channel /\ net' = net /\ token' = token
      /\ barriers' = barriers /\ phase' = phase
  OBVIOUS
<1>3. \A x \in Node : Owed(x)' = Owed(x)
  BY <1>2 DEF Owed
<1>4. Awaited(op[p]) = 0
  BY DEF Awaited
<1>5. /\ channel[p] = 0 /\ Owed(p) = 0
      /\ \A x, y \in Node : \A z \in Messages(net, x, y) :
           z.type # "barrierRequest" => Waiter(z, x, y) \in Node \ {p}
  BY <1>4, NotWoken
<1>6. OpInv' /\ op'[p] = [pc |-> "lock", lock |-> l]
      /\ \A q \in Node : q # p => op'[q] = op[q]
  <2>1. l \notin held[p]
    BY <1>1 DEF TokenInv
  <2>2. Sound(p, [pc |-> "lock", lock |-> l], held[p])
    BY <2>1 DEF Sound, Faulting
  <2>3. QED
    BY <1>1, <1>2, <2>2, OpKept
<1>7. WakeInv'
  <2>1. Awaited(op'[p]) = 1
    BY <1>6 DEF Awaited
  <2>2. \A q \in Node : Owed(q)' <= Awaited(op'[q])
    BY <1>1, <1>3, <1>5, <1>6, <2>1 DEF WakeInv
  <2>3. QED
    BY <1>1, <1>2, <2>2 DEF WakeInv
<1>8. NetInv' /\ ReasonInv'
  <2>1. ReasonInv'
    BY <1>1, <1>2, <1>5, <1>6, ReasonMoved
  <2>2. QED
    BY <1>1, <1>2, <2>1 DEF NetInv
<1>9. TokenInv'
  <2>1. \A k \in LockId : \A x \in Node : Coming(k, x)' <=> Coming(k, x)
    BY <1>2 DEF Coming
  <2>2. /\ token \in [LockId -> Node \cup {NoNode}]
        /\ locked \in [LockId -> BOOLEAN]
        /\ held \in [Node -> SUBSET LockId]
        /\ \A k \in LockId : \A x \in Node :
             /\ Coming(k, x) => token[k] = NoNode
             /\ k \in held[x] => token[k] = x /\ locked[k]
             /\ \A q \in Node : Coming(k, x) /\ Coming(k, q) => x = q
    BY <1>1 DEF TokenInv
  <2>3. ASSUME NEW x \in Node, op'[x].pc = "lock", channel[x] > 0
        PROVE  token[op'[x].lock] = x /\ locked[op'[x].lock]
    <3>1. x # p
      BY <1>5, <2>3
    <3>2. QED
      BY <1>1, <1>6, <2>3, <3>1 DEF TokenInv
  <2>4. ASSUME NEW a \in Node, NEW b \in Node, NEW m \in Of(net, a, b, "lockAcquireResponse")
        PROVE  m.LockId = op'[b].lock
    <3>1. m \in Messages(net, a, b) /\ m.type = "lockAcquireResponse"
      BY DEF Of
    <3>2. Waiter(m, a, b) = b
      BY <3>1 DEF Waiter, Asking, Answering
    <3>3. b # p
      BY <1>5, <3>1, <3>2
    <3>4. QED
      BY <1>1, <1>6, <3>3 DEF TokenInv
  <2>5. QED
    BY <1>2, <2>1, <2>2, <2>3, <2>4 DEF TokenInv
<1>10. RequestInv'
  <2>1. /\ requests' = [k \in LockId |-> requests'[k]] /\ requests'[l] = requests[l] \cup {r}
        /\ \A k \in LockId : k # l => requests'[k] = requests[k]
    BY <1>1 DEF RequestInv
  <2>2. ASSUME NEW k \in LockId, NEW s \in requests[k]
        PROVE  /\ s.From \in Node /\ s.From # p
               /\ op'[s.From].pc = "lock" /\ op'[s.From].lock = k /\ Owed(s.From)' = 0
               /\ \A z \in requests[k] : z.From = s.From => z = s
    <3>1. /\ s.From \in Node /\ op[s.From].pc = "lock" /\ op[s.From].lock = k
          /\ Owed(s.From) = 0
          /\ \A z \in requests[k] : z.From = s.From => z = s
      BY <1>1 DEF RequestInv
    <3>2. s.From # p
      BY <3>1
    <3>3. QED
      BY <1>3, <1>6, <3>1, <3>2
  <2>3. op'[p].pc = "lock" /\ op'[p].lock = l /\ Owed(p)' = 0
    BY <1>3, <1>5, <1>6
  <2>4. ASSUME NEW k \in LockId, NEW s \in requests'[k]
        PROVE  /\ s.From \in Node
               /\ op'[s.From].pc = "lock" /\ op'[s.From].lock = k /\ Owed(s.From)' = 0
               /\ \A z \in requests'[k] : z.From = s.From => z = s
    <3>1. s \in requests[k] \/ (k = l /\ s = r)
      BY <2>1
    <3>2. \A z \in requests'[k] : z \in requests[k] \/ z = r
      BY <2>1
    <3>3. CASE s \in requests[k]
      <4>1. /\ s.From \in Node /\ s.From # p
            /\ op'[s.From].pc = "lock" /\ op'[s.From].lock = k /\ Owed(s.From)' = 0
            /\ \A z \in requests[k] : z.From = s.From => z = s
        BY <2>2, <3>3
      <4>2. QED
        BY <3>2, <4>1
    <3>4. CASE k = l /\ s = r
      <4>1. \A z \in requests[k] : z.From # p
        BY <2>2
      <4>2. QED
        BY <2>3, <3>2, <3>4, <4>1
    <3>5. QED
      BY <3>1, <3>3, <3>4
  <2>5. QED
    BY <2>1, <2>4 DEF RequestInv
<1>11. BarrierFrame
  <2>1. \A q \in Node : InBarrier(q)' <=> InBarrier(q)
    BY <1>6 DEF InBarrier
  <2>2. op'[getManagerId].pc = "counting" <=> op[getManagerId].pc = "counting"
    BY <1>6, ManagerIsNode
  <2>3. QED
    BY <1>1, <1>2, <1>3, <2>1, <2>2 DEF BarrierFrame
<1>12. QED
  BY <1>6, <1>7, <1>8, <1>9, <1>10, <1>11, LocksAssembled

\* AcquireLock returns: the one wake-up that p waited for is received.
LEMMA HaveStep ==
  ASSUME HostInv, NEW p \in Node, op[p].pc = "lock", Received(p),
         held' = [held EXCEPT ![p] = @ \cup {op[p].lock}],
         op' = [op EXCEPT ![p] = Idle],
         UNCHANGED <<net, locks, barriers, phase>>
  PROVE  HostInv'
<1>1. NetInv /\ OpInv /\ WakeInv /\ ReasonInv /\ TokenInv /\ RequestInv
      /\ \A x, y \in Node : Single(net, x, y)
  BY DEF HostInv, CallInv, BarrierInv, ArrivalInv
<1>2. /\ locked' = locked /\ token' = token /\ requests' = requests /\ net' = net
      /\ barriers' = barriers /\ phase' = phase
  BY DEF locks
<1>3. PICK l : l = op[p].lock
  OBVIOUS
<1>4. /\ channel[p] > 0 /\ channel' \in [Node -> Nat] /\ channel'[p] = channel[p] - 1
      /\ \A q \in Node : q # p => channel'[q] = channel[q]
  BY <1>1 DEF Received, WakeInv
<1>5. /\ l \in LockId /\ l \notin held[p] /\ token[l] = p /\ locked[l]
  BY <1>1, <1>3, <1>4 DEF OpInv, Sound, TokenInv
<1>6. /\ held' \in [Node -> SUBSET LockId] /\ held'[p] = held[p] \cup {l}
      /\ \A x \in Node : x # p => held'[x] = held[x]
  BY <1>1, <1>3, <1>5 DEF TokenInv
<1>7. OpInv' /\ op'[p] = Idle /\ \A q \in Node : q # p => op'[q] = op[q]
  <2>1. Sound(p, Idle, held'[p])
    BY DEF Sound, Faulting, Idle
  <2>2. QED
    BY <1>1, <1>6, <2>1, OpKept
<1>8. Owed(p) = 1 /\ Cardinality(Wakes(net, p)) = 0 /\ Owed(p)' = 0
      /\ \A q \in Node : q # p => Owed(q)' = Owed(q)
  <2>1. /\ Owed(p) = channel[p] + Cardinality(Wakes(net, p))
        /\ channel[p] \in Nat /\ Cardinality(Wakes(net, p)) \in Nat
    BY <1>1, OwedType
  <2>2. Owed(p) <= 1
    BY <1>1 DEF WakeInv, Awaited
  <2>3. Owed(p)' = channel'[p] + Cardinality(Wakes(net, p))
    BY <1>2 DEF Owed
  <2>4. \A q \in Node : q # p => Owed(q)' = Owed(q)
    BY <1>2, <1>4 DEF Owed
  <2>5. QED
    BY <1>4, <2>1, <2>2, <2>3, <2>4
<1>9. WakeInv'
  <2>1. Awaited(op'[p]) = 0
    BY <1>7 DEF Awaited, Idle
  <2>2. \A q \in Node : Owed(q)' <= Awaited(op'[q])
    BY <1>1, <1>7, <1>8, <2>1 DEF WakeInv
  <2>3. \A q \in Node : IsFiniteSet(Wakes(net', q))
    BY <1>1, <1>2 DEF WakeInv
  <2>4. QED
    BY <1>4, <2>2, <2>3 DEF WakeInv
<1>10. \A x, y \in Node : \A z \in Messages(net, x, y) :
         z.type # "barrierRequest" => Waiter(z, x, y) \in Node \ {p}
  <2>1. SUFFICES ASSUME NEW x \in Node, NEW y \in Node, NEW z \in Messages(net, x, y),
                        z.type # "barrierRequest"
                 PROVE  Waiter(z, x, y) \in Node \ {p}
    OBVIOUS
  <2>2. Waiter(z, x, y) \in Node
    BY <1>1, <2>1 DEF ReasonInv, Waiter
  <2>3. Waiter(z, x, y) # p
    BY <1>1, <1>8, MessageOwed
  <2>4. QED
    BY <2>2, <2>3
<1>11. NetInv' /\ ReasonInv'
  <2>1. ReasonInv'
    BY <1>1, <1>2, <1>7, <1>10, ReasonMoved
  <2>2. QED
    BY <1>1, <1>2, <2>1 DEF NetInv
<1>12. TokenInv'
  <2>1. \A k \in LockId : \A x \in Node : Coming(k, x)' <=> Coming(k, x)
    BY <1>2 DEF Coming
  <2>2. ASSUME NEW k \in LockId, NEW x \in Node
        PROVE  /\ Coming(k, x) => token[k] = NoNode
               /\ k \in held'[x] => token[k] = x /\ locked[k]
               /\ \A q \in Node : Coming(k, x) /\ Coming(k, q) => x = q
    BY <1>1, <1>5, <1>6 DEF TokenInv
  <2>3. ASSUME NEW x \in Node, op'[x].pc = "lock", channel'[x] > 0
        PROVE  token[op'[x].lock] = x /\ locked[op'[x].lock]
    <3>1. x # p
      BY <1>7, <2>3 DEF Idle
    <3>2. QED
      BY <1>1, <1>4, <1>7, <2>3, <3>1 DEF TokenInv
  <2>4. ASSUME NEW a \in Node, NEW b \in Node, NEW m \in Of(net, a, b, "lockAcquireResponse")
        PROVE  m.LockId = op'[b].lock
    <3>1. m \in Messages(net, a, b) /\ m.type = "lockAcquireResponse"
      BY DEF Of
    <3>2. Waiter(m, a, b) = b
      BY <3>1 DEF Waiter, Asking, Answering
    <3>3. b # p
      BY <1>10, <3>1, <3>2
    <3>4. QED
      BY <1>1, <1>7, <3>3 DEF TokenInv
  <2>5. token \in [LockId -> Node \cup {NoNode}] /\ locked \in [LockId -> BOOLEAN]
    BY <1>1 DEF TokenInv
  <2>6. QED
    BY <1>2, <1>6, <2>1, <2>2, <2>3, <2>4, <2>5 DEF TokenInv
<1>13. RequestInv'
  <2>1. ASSUME NEW k \in LockId, NEW s \in requests[k]
        PROVE  /\ s.From \in Node
               /\ op'[s.From].pc = "lock" /\ op'[s.From].lock = k /\ Owed(s.From)' = 0
               /\ \A z \in requests[k] : z.From = s.From => z = s
    <3>1. /\ s.From \in Node /\ op[s.From].pc = "lock" /\ op[s.From].lock = k
          /\ Owed(s.From) = 0
          /\ \A z \in requests[k] : z.From = s.From => z = s
      BY <1>1 DEF RequestInv
    <3>2. s.From # p
      BY <1>8, <3>1
    <3>3. QED
      BY <1>7, <1>8, <3>1, <3>2
  <2>2. QED
    BY <1>1, <1>2, <2>1 DEF RequestInv
<1>14. BarrierFrame
  <2>1. op[p].pc = "lock" /\ op'[p].pc = "idle"
    BY <1>7 DEF Idle
  <2>2. \A q \in Node : InBarrier(q)' <=> InBarrier(q)
    BY <1>7, <2>1 DEF InBarrier
  <2>3. op'[getManagerId].pc = "counting" <=> op[getManagerId].pc = "counting"
    BY <1>7, <2>1, ManagerIsNode
  <2>4. \A q \in Node : InBarrier(q) => Owed(q)' = Owed(q)
    BY <1>8, <2>1 DEF InBarrier
  <2>5. QED
    BY <1>1, <1>2, <2>2, <2>3, <2>4 DEF BarrierFrame
<1>15. QED
  BY <1>7, <1>9, <1>11, <1>12, <1>13, <1>14, LocksAssembled

\* ReleaseLock that keeps the token.
LEMMA KeepStep ==
  ASSUME HostInv, NEW p \in Node, NEW l \in LockId, op[p].pc = "idle", l \in held[p],
         locked' = [locked EXCEPT ![l] = FALSE],
         held' = [held EXCEPT ![p] = @ \ {l}],
         UNCHANGED <<op, requests, channel, net, token, barriers, phase>>
  PROVE  HostInv'
<1>1. NetInv /\ OpInv /\ WakeInv /\ ReasonInv /\ TokenInv /\ RequestInv
      /\ \A x, y \in Node : Single(net, x, y)
  BY DEF HostInv, CallInv, BarrierInv, ArrivalInv
<1>2. /\ op' = op /\ requests' = requests /\ channel' = channel /\ net' = net /\ token' = token
      /\ barriers' = barriers /\ phase' = phase
  OBVIOUS
<1>3. \A x \in Node : Owed(x)' = Owed(x)
  BY <1>2 DEF Owed
<1>4. /\ held' \in [Node -> SUBSET LockId] /\ held'[p] = held[p] \ {l}
      /\ \A x \in Node : x # p => held'[x] = held[x]
      /\ locked' \in [LockId -> BOOLEAN]
      /\ \A k \in LockId : k # l => locked'[k] = locked[k]
      /\ token[l] = p
  BY <1>1 DEF TokenInv
<1>5. OpInv'
  <2>1. \A x \in Node : Sound(x, op[x], held[x])
    BY <1>1 DEF OpInv
  <2>2. \A x \in Node : Sound(x, op[x], held'[x])
    BY <1>4, <2>1 DEF Sound, Faulting
  <2>3. QED
    BY <1>1, <1>2, <2>2 DEF OpInv
<1>6. NetInv' /\ WakeInv' /\ ReasonInv'
  BY <1>1, <1>2, <1>3 DEF NetInv, WakeInv, ReasonInv
<1>7. TokenInv'
  <2>1. \A k \in LockId : \A x \in Node : Coming(k, x)' <=> Coming(k, x)
    BY <1>2 DEF Coming
  <2>2. ASSUME NEW k \in LockId, NEW x \in Node
        PROVE  /\ Coming(k, x)' => token'[k] = NoNode
               /\ k \in held'[x] => token'[k] = x /\ locked'[k]
               /\ \A q \in Node : Coming(k, x)' /\ Coming(k, q)' => x = q
    BY <1>1, <1>2, <1>4, <2>1 DEF TokenInv
  <2>3. ASSUME NEW x \in Node, op[x].pc = "lock", channel[x] > 0
        PROVE  token[op[x].lock] = x /\ locked'[op[x].lock]
    <3>1. op[x].lock \in LockId /\ x # p
      BY <1>1, <2>3 DEF OpInv, Sound
    <3>2. token[op[x].lock] = x /\ locked[op[x].lock]
      BY <1>1, <2>3 DEF TokenInv
    <3>3. QED
      BY <1>4, <3>1, <3>2
  <2>4. \A a, b \in Node : \A m \in Of(net, a, b, "lockAcquireResponse") : m.LockId = op[b].lock
    BY <1>1 DEF TokenInv
  <2>5. token \in [LockId -> Node \cup {NoNode}]
    BY <1>1 DEF TokenInv
  <2>6. QED
    BY <1>2, <1>4, <2>2, <2>3, <2>4, <2>5 DEF TokenInv
<1>8. RequestInv'
  BY <1>1, <1>2, <1>3 DEF RequestInv
<1>9. BarrierFrame
  BY <1>1, <1>2, <1>3 DEF BarrierFrame, InBarrier
<1>10. QED
  BY <1>5, <1>6, <1>7, <1>8, <1>9, LocksAssembled

\* The token leaves p, where no program is inside the lock any more.
LEMMA GrantStep ==
  ASSUME HostInv, NEW p \in Node, NEW l \in LockId, NEW req, Grant(p, l, req), token[l] = p,
         held' \in [Node -> SUBSET LockId],
         \A x \in Node : held'[x] \subseteq held[x] /\ l \notin held'[x],
         locked' \in [LockId -> BOOLEAN], \A k \in LockId \ {l} : locked'[k] = locked[k],
         \A x \in Node : op[x].pc = "lock" /\ channel[x] > 0 => op[x].lock # l,
         UNCHANGED <<op, channel, barriers, phase>>
  PROVE  HostInv'
<1>1. NetInv /\ OpInv /\ WakeInv /\ ReasonInv /\ TokenInv /\ RequestInv
      /\ \A x, y \in Node : Single(net, x, y)
  BY DEF HostInv, CallInv, BarrierInv, ArrivalInv
<1>2. op' = op /\ channel' = channel /\ barriers' = barriers /\ phase' = phase
  OBVIOUS
<1>3. PICK to, m : /\ to = req.From /\ m.type = "lockAcquireResponse" /\ m.LockId = l
                   /\ net' = Sent(net, p, to, m)
  BY DEF Grant
<1>4. /\ req \in requests[l]
      /\ token' = [token EXCEPT ![l] = NoNode]
      /\ requests' = [requests EXCEPT ![l] = @ \ {req}]
  BY DEF Grant
<1>5. to \in Node /\ op[to].pc = "lock" /\ op[to].lock = l /\ Owed(to) = 0
  BY <1>1, <1>3, <1>4 DEF RequestInv
<1>6. Waiter(m, p, to) = to /\ Reason(m.type) = "lock" /\ m.type \in Answering
  BY <1>3 DEF Waiter, Asking, Answering, Reason
<1>7. /\ NetInv' /\ Longer(net, net', p, to, m)
      /\ \A w \in Node : IsFiniteSet(Wakes(net', w))
      /\ \A w \in Node : w # to => Cardinality(Wakes(net', w)) = Cardinality(Wakes(net, w))
      /\ Cardinality(Wakes(net', to)) = Cardinality(Wakes(net, to)) + 1
  BY <1>1, <1>3, <1>5, <1>6, NetSent
<1>8. Owed(to)' = 1 /\ \A w \in Node : w # to => Owed(w)' = Owed(w)
  <2>1. /\ Owed(to) = channel[to] + Cardinality(Wakes(net, to))
        /\ channel[to] \in Nat /\ Cardinality(Wakes(net, to)) \in Nat
    BY <1>1, <1>5, OwedType
  <2>2. Owed(to)' = channel[to] + Cardinality(Wakes(net', to))
    BY <1>2 DEF Owed
  <2>3. \A w \in Node : w # to => Owed(w)' = Owed(w)
    BY <1>2, <1>7 DEF Owed
  <2>4. QED
    BY <1>5, <1>7, <2>1, <2>2, <2>3
<1>9. OpInv'
  <2>1. \A x \in Node : Sound(x, op[x], held[x])
    BY <1>1 DEF OpInv
  <2>2. \A x \in Node : Sound(x, op[x], held'[x])
    BY <2>1 DEF Sound
  <2>3. QED
    BY <1>1, <1>2, <2>2 DEF OpInv
<1>10. WakeInv'
  <2>1. Awaited(op[to]) = 1
    BY <1>5 DEF Awaited
  <2>2. \A w \in Node : Owed(w)' <= Awaited(op[w])
    BY <1>1, <1>8, <2>1 DEF WakeInv
  <2>3. channel' \in [Node -> Nat]
    BY <1>1, <1>2 DEF WakeInv
  <2>4. QED
    BY <1>2, <1>7, <2>2, <2>3 DEF WakeInv
<1>11. ReasonInv'
  <2>1. /\ Messages(net', p, to) = Messages(net, p, to) \cup {m}
        /\ \A x, y \in Node : x # p \/ y # to => Messages(net', x, y) = Messages(net, x, y)
    BY <1>5, <1>7, SentMessages
  <2>2. ASSUME NEW x \in Node, NEW y \in Node, NEW z \in Messages(net', x, y)
        PROVE  /\ z.type \in Asking \cup Answering \cup {"barrierRequest"}
               /\ z.type # "barrierRequest" => op[Waiter(z, x, y)].pc = Reason(z.type)
    <3>1. z \in Messages(net, x, y) \/ (z = m /\ x = p /\ y = to)
      BY <2>1
    <3>2. CASE z = m /\ x = p /\ y = to
      BY <1>5, <1>6, <3>2
    <3>3. CASE z \in Messages(net, x, y)
      BY <1>1, <3>3 DEF ReasonInv
    <3>4. QED
      BY <3>1, <3>2, <3>3
  <2>3. QED
    BY <1>2, <2>2 DEF ReasonInv
<1>12. /\ Of(net', p, to, "lockAcquireResponse") = Of(net, p, to, "lockAcquireResponse") \cup {m}
       /\ \A x, y \in Node : x # p \/ y # to =>
            Of(net', x, y, "lockAcquireResponse") = Of(net, x, y, "lockAcquireResponse")
  <2>1. Of(net', p, to, "lockAcquireResponse") = Of(net, p, to, "lockAcquireResponse") \cup {m}
    <3>1. Messages(net', p, to) = Messages(net, p, to) \cup {m}
      BY <1>5, <1>7, SentMessages
    <3>2. QED
      BY <1>3, <3>1 DEF Of
  <2>2. ASSUME NEW x \in Node, NEW y \in Node, x # p \/ y # to
        PROVE  Of(net', x, y, "lockAcquireResponse") = Of(net, x, y, "lockAcquireResponse")
    BY <1>5, <1>7, <2>2, SentElsewhere
  <2>3. QED
    BY <2>1, <2>2
<1>13. TokenInv'
  <2>1. \A x \in Node : ~Coming(l, x)
    <3>1. token[l] # NoNode
      BY NoNodeAssumption
    <3>2. QED
      BY <1>1, <3>1 DEF TokenInv
  <2>2. ASSUME NEW k \in LockId, NEW x \in Node, Coming(k, x)'
        PROVE  (k = l /\ x = to) \/ (k # l /\ Coming(k, x))
    <3>1. PICK q \in Node : \E z \in Of(net', q, x, "lockAcquireResponse") : z.LockId = k
      BY <2>2 DEF Coming
    <3>2. PICK z \in Of(net', q, x, "lockAcquireResponse") : z.LockId = k
      BY <3>1
    <3>3. CASE z \in Of(net, q, x, "lockAcquireResponse")
      BY <2>1, <3>2, <3>3 DEF Coming
    <3>4. CASE z = m /\ x = to
      BY <1>3, <3>2, <3>4
    <3>5. QED
      BY <1>12, <3>3, <3>4
  <2>3. /\ token' \in [LockId -> Node \cup {NoNode}] /\ token'[l] = NoNode
        /\ \A k \in LockId \ {l} : token'[k] = token[k]
    BY <1>1, <1>4 DEF TokenInv
  <2>4. ASSUME NEW k \in LockId, NEW x \in Node
        PROVE  /\ Coming(k, x)' => token'[k] = NoNode
               /\ k \in held'[x] => token'[k] = x /\ locked'[k]
               /\ \A q \in Node : Coming(k, x)' /\ Coming(k, q)' => x = q
    <3>1. Coming(k, x)' => token'[k] = NoNode
      BY <1>1, <2>2, <2>3 DEF TokenInv
    <3>2. k \in held'[x] => token'[k] = x /\ locked'[k]
      BY <1>1, <2>3 DEF TokenInv
    <3>3. \A q \in Node : Coming(k, x)' /\ Coming(k, q)' => x = q
      BY <1>1, <2>2 DEF TokenInv
    <3>4. QED
      BY <3>1, <3>2, <3>3
  <2>5. ASSUME NEW x \in Node, op[x].pc = "lock", channel[x] > 0
        PROVE  token'[op[x].lock] = x /\ locked'[op[x].lock]
    <3>1. op[x].lock \in LockId \ {l}
      BY <1>1, <2>5 DEF OpInv, Sound
    <3>2. token[op[x].lock] = x /\ locked[op[x].lock]
      BY <1>1, <2>5 DEF TokenInv
    <3>3. QED
      BY <2>3, <3>1, <3>2
  <2>6. ASSUME NEW a \in Node, NEW b \in Node, NEW z \in Of(net', a, b, "lockAcquireResponse")
        PROVE  z.LockId = op[b].lock
    <3>1. CASE z = m /\ b = to
      BY <1>3, <1>5, <3>1
    <3>2. CASE z \in Of(net, a, b, "lockAcquireResponse")
      BY <1>1, <3>2 DEF TokenInv
    <3>3. QED
      BY <1>12, <3>1, <3>2
  <2>7. QED
    BY <1>2, <2>3, <2>4, <2>5, <2>6 DEF TokenInv
<1>14. RequestInv'
  <2>1. /\ requests' = [k \in LockId |-> requests'[k]] /\ requests'[l] = requests[l] \ {req}
        /\ \A k \in LockId : k # l => requests'[k] = requests[k]
    BY <1>1, <1>4 DEF RequestInv
  <2>2. ASSUME NEW k \in LockId, NEW s \in requests'[k]
        PROVE  /\ s.From \in Node
               /\ op[s.From].pc = "lock" /\ op[s.From].lock = k /\ Owed(s.From)' = 0
               /\ \A z \in requests'[k] : z.From = s.From => z = s
    <3>1. s \in requests[k] /\ (k = l => s # req) /\ requests'[k] \subseteq requests[k]
      BY <2>1
    <3>2. /\ s.From \in Node /\ op[s.From].pc = "lock" /\ op[s.From].lock = k
          /\ Owed(s.From) = 0
          /\ \A z \in requests[k] : z.From = s.From => z = s
      BY <1>1, <3>1 DEF RequestInv
    <3>3. s.From # to
      <4>1. SUFFICES ASSUME s.From = to PROVE FALSE
        OBVIOUS
      <4>2. k = l
        BY <1>5, <3>2, <4>1
      <4>3. req = s
        BY <1>3, <1>4, <3>2, <4>1, <4>2
      <4>4. QED
        BY <3>1, <4>2, <4>3
    <3>4. Owed(s.From)' = 0
      BY <1>8, <3>2, <3>3
    <3>5. \A z \in requests'[k] : z.From = s.From => z = s
      BY <3>1, <3>2
    <3>6. QED
      BY <3>2, <3>4, <3>5
  <2>3. QED
    BY <1>2, <2>1, <2>2 DEF RequestInv
<1>15. BarrierFrame
  <2>1. \A x, y \in Node : Single(net', x, y)
    BY <1>1, <1>3, <1>5, <1>7, SentSingle
  <2>2. \A x, y \in Node : Of(net', x, y, "barrierRequest") = Of(net, x, y, "barrierRequest")
    <3>1. m.type # "barrierRequest"
      BY <1>3
    <3>2. QED
      BY <1>5, <1>7, <3>1, SentOther
  <2>3. \A q \in Node : InBarrier(q) => Owed(q)' = Owed(q)
    BY <1>5, <1>8 DEF InBarrier
  <2>4. \A q \in Node : InBarrier(q)' <=> InBarrier(q)
    BY <1>2 DEF InBarrier
  <2>5. QED
    BY <1>2, <2>1, <2>2, <2>3, <2>4 DEF BarrierFrame
<1>16. QED
  BY <1>7, <1>9, <1>10, <1>11, <1>13, <1>14, <1>15, LocksAssembled

\* The token arrives at p, whose thread will be woken.
LEMMA ResponseStep ==
  ASSUME HostInv, NEW p \in Node, NEW q \in Node, net[q][p] # <<>>,
         NEW h, h = Head(net[q][p]), h.type = "lockAcquireResponse",
         net' = Taken(net, q, p), Signal(p), NEW l, l = h.LockId,
         locked' = [locked EXCEPT ![l] = TRUE],
         token' = [token EXCEPT ![l] = p],
         UNCHANGED <<op, requests, barriers, held, phase>>
  PROVE  HostInv'
<1>1. NetInv /\ OpInv /\ WakeInv /\ ReasonInv /\ TokenInv /\ RequestInv
  BY DEF HostInv, CallInv
<1>2. op' = op /\ requests' = requests /\ barriers' = barriers /\ held' = held /\ phase' = phase
  OBVIOUS
<1>3. l = h.LockId
  OBVIOUS
<1>4. TakeFrame(h, q, p)
  BY TakeKeeps
<1>5. h.type \in Answering /\ Reason(h.type) = "lock"
  BY DEF Answering, Reason
<1>6. /\ \A w \in Node : Owed(w)' = Owed(w)
      /\ \A w \in Node : w # p => channel'[w] = channel[w]
      /\ channel'[p] = channel[p] + 1
      /\ WakeInv' /\ ReasonInv' /\ op[p].pc = "lock" /\ Owed(p) > 0
  BY <1>2, <1>4, <1>5, AnswerKeeps
<1>7. h \in Of(net, q, p, "lockAcquireResponse")
  BY <1>4 DEF TakeFrame, Of
<1>8. /\ l \in LockId /\ l = op[p].lock /\ Coming(l, p) /\ token[l] = NoNode
      /\ \A x \in Node : Coming(l, x) => x = p
  <2>1. l = op[p].lock /\ l \in LockId
    BY <1>1, <1>3, <1>6, <1>7 DEF TokenInv, OpInv, Sound
  <2>2. Coming(l, p)
    BY <1>3, <1>7 DEF Coming
  <2>3. QED
    BY <1>1, <2>1, <2>2 DEF TokenInv
<1>9. /\ NetInv' /\ \A x, y \in Node : Messages(net', x, y) \subseteq Messages(net, x, y)
      /\ \A x, y \in Node : Of(net', x, y, "barrierRequest") = Of(net, x, y, "barrierRequest")
      /\ \A x, y \in Node : Single(net', x, y)
      /\ \A w \in Node : IsFiniteSet(Wakes(net', w))
  BY <1>4 DEF TakeFrame
<1>10. \A x \in Node : Of(net', x, p, "lockAcquireResponse") = {}
  <2>1. SUFFICES ASSUME NEW x \in Node, NEW z \in Of(net', x, p, "lockAcquireResponse")
                 PROVE  FALSE
    OBVIOUS
  <2>2. z \in Messages(net', x, p) /\ Waiter(z, x, p) = p
    BY DEF Of, Waiter, Asking, Answering
  <2>3. PICK M : net' \in Queues(M)
    BY <1>9 DEF NetInv
  <2>4. Cardinality(Wakes(net', p)) > 0 /\ Cardinality(Wakes(net', p)) \in Nat
    BY <1>9, <2>2, <2>3, MessageCounts, FS_CardinalityType
  <2>5. Owed(p)' <= 1
    BY <1>2, <1>6 DEF WakeInv, Awaited
  <2>6. Owed(p)' = channel'[p] + Cardinality(Wakes(net', p)) /\ channel[p] \in Nat
    BY <1>1, OwedType DEF Owed
  <2>7. QED
    BY <1>6, <2>4, <2>5, <2>6
<1>11. TokenInv'
  <2>1. ASSUME NEW k \in LockId, NEW x \in Node, Coming(k, x)'
        PROVE  Coming(k, x) /\ k # l
    <3>1. PICK a \in Node : \E z \in Of(net', a, x, "lockAcquireResponse") : z.LockId = k
      BY <2>1 DEF Coming
    <3>2. PICK z \in Of(net', a, x, "lockAcquireResponse") : z.LockId = k
      BY <3>1
    <3>3. z \in Of(net, a, x, "lockAcquireResponse")
      BY <1>9 DEF Of
    <3>4. Coming(k, x) /\ x # p
      BY <1>10, <3>2, <3>3 DEF Coming
    <3>5. QED
      BY <1>8, <3>4
  <2>2. /\ token' \in [LockId -> Node \cup {NoNode}] /\ locked' \in [LockId -> BOOLEAN]
        /\ token'[l] = p /\ locked'[l] = TRUE
        /\ \A k \in LockId \ {l} : token'[k] = token[k] /\ locked'[k] = locked[k]
    <3>1. token \in [LockId -> Node \cup {NoNode}] /\ locked \in [LockId -> BOOLEAN]
      BY <1>1 DEF TokenInv
    <3>2. QED
      BY <1>8, <3>1
  <2>3. ASSUME NEW k \in LockId, NEW x \in Node
        PROVE  /\ Coming(k, x)' => token'[k] = NoNode
               /\ k \in held[x] => token'[k] = x /\ locked'[k]
               /\ \A y \in Node : Coming(k, x)' /\ Coming(k, y)' => x = y
    <3>1. Coming(k, x)' => token'[k] = NoNode
      BY <1>1, <2>1, <2>2 DEF TokenInv
    <3>2. k \in held[x] => token'[k] = x /\ locked'[k]
      BY <1>1, <1>8, <2>2, NoNodeAssumption DEF TokenInv
    <3>3. \A y \in Node : Coming(k, x)' /\ Coming(k, y)' => x = y
      BY <1>1, <2>1 DEF TokenInv
    <3>4. QED
      BY <3>1, <3>2, <3>3
  <2>4. ASSUME NEW x \in Node, op[x].pc = "lock", channel'[x] > 0
        PROVE  token'[op[x].lock] = x /\ locked'[op[x].lock]
    <3>1. CASE x = p
      BY <1>8, <2>2, <3>1
    <3>2. CASE x # p
      <4>1. op[x].lock \in LockId /\ token[op[x].lock] = x /\ locked[op[x].lock]
        BY <1>1, <1>6, <2>4, <3>2 DEF TokenInv, OpInv, Sound
      <4>2. op[x].lock # l
        BY <1>8, <4>1, NoNodeAssumption
      <4>3. QED
        BY <2>2, <4>1, <4>2
    <3>3. QED
      BY <3>1, <3>2
  <2>5. ASSUME NEW a \in Node, NEW b \in Node, NEW z \in Of(net', a, b, "lockAcquireResponse")
        PROVE  z.LockId = op[b].lock
    <3>1. z \in Of(net, a, b, "lockAcquireResponse")
      BY <1>9 DEF Of
    <3>2. QED
      BY <1>1, <3>1 DEF TokenInv
  <2>6. held \in [Node -> SUBSET LockId]
    BY <1>1 DEF TokenInv
  <2>7. QED
    BY <1>2, <2>2, <2>3, <2>4, <2>5, <2>6 DEF TokenInv
<1>12. RequestInv'
  BY <1>1, <1>2, <1>6 DEF RequestInv
<1>13. OpInv'
  BY <1>1, <1>2, OpSame
<1>14. BarrierFrame
  BY <1>2, <1>6, <1>9 DEF BarrierFrame, InBarrier
<1>15. QED
  BY <1>6, <1>9, <1>11, <1>12, <1>13, <1>14, LocksAssembled

-------------------------------------------------------------------------------
(* Barriers *)

LEMMA BarriersAssembled ==
  ASSUME HostInv, NetInv', OpInv', WakeInv', ReasonInv', LockFrame,
         ManagerInv', ArrivalInv', PhaseInv'
  PROVE  Unseen
<1>1. TokenInv' /\ RequestInv'
  BY LocksKept DEF HostInv
<1>2. QED
  BY <1>1 DEF Unseen, HostInv, CallInv, BarrierInv

LEMMA NodeCardinality == IsFiniteSet(Node) /\ Cardinality(Node) = NrProcs
<1>1. 0 \in Int /\ NrProcs - 1 \in Int /\ NrProcs \in Nat \ {0}
  BY NrProcsAssumption
<1>2. IsFiniteSet(0 .. NrProcs - 1)
      /\ Cardinality(0 .. NrProcs - 1) = IF 0 > NrProcs - 1 THEN 0 ELSE (NrProcs - 1) - 0 + 1
  BY <1>1, FS_Interval
<1>3. QED
  BY <1>1, <1>2 DEF Node

LEMMA ArrivedFinite ==
  /\ IsFiniteSet(Arrived) /\ Cardinality(Arrived) \in Nat /\ Cardinality(Arrived) <= NrProcs
  /\ Cardinality(Arrived) = NrProcs => Arrived = Node
<1>1. Arrived \subseteq Node
  BY DEF Arrived, Pending
<1>2. IsFiniteSet(Arrived) /\ Cardinality(Arrived) <= Cardinality(Node)
      /\ (Cardinality(Arrived) = Cardinality(Node) => Arrived = Node)
  BY <1>1, NodeCardinality, FS_Subset
<1>3. Cardinality(Arrived) \in Nat
  BY <1>2, FS_CardinalityType
<1>4. QED
  BY <1>2, <1>3, NodeCardinality

LEMMA CountingFinite ==
  ASSUME counting \subseteq {"app", "net"}
  PROVE  IsFiniteSet(counting) /\ Cardinality(counting) \in Nat
<1>1. IsFiniteSet({"app", "net"})
  <2>1. IsFiniteSet({}) /\ IsFiniteSet({} \cup {"app"})
    BY FS_EmptySet, FS_AddElement
  <2>2. IsFiniteSet({} \cup {"app"} \cup {"net"})
    BY <2>1, FS_AddElement
  <2>3. {"app", "net"} = {} \cup {"app"} \cup {"net"}
    OBVIOUS
  <2>4. QED
    BY <2>2, <2>3
<1>2. IsFiniteSet(counting)
  BY <1>1, FS_Subset
<1>3. QED
  BY <1>2, FS_CardinalityType

\* A thread comes to a barrier.
LEMMA PhaseArrives ==
  ASSUME PhaseInv, NEW p \in Node, p \notin Pending, Pending' = Pending \cup {p},
         phase' = [phase EXCEPT ![p] = @ + 1]
  PROVE  PhaseInv'
<1>1. /\ phase \in [Node -> Nat]
      /\ \A x, y \in Node : (x \in Pending <=> y \in Pending) => phase[x] = phase[y]
      /\ \A x \in Pending : \A y \in Node \ Pending : phase[x] = phase[y] + 1
  BY DEF PhaseInv
<1>2. /\ phase' \in [Node -> Nat] /\ phase'[p] = phase[p] + 1
      /\ \A x \in Node : x # p => phase'[x] = phase[x]
  BY <1>1
<1>3. Pending \subseteq Node
  BY DEF Pending
<1>4. \A x \in Node : /\ x \in Pending => phase'[x] = phase[p] + 1
                      /\ x \notin Pending' => phase'[x] = phase[p]
  BY <1>1, <1>2, <1>3
<1>5. \A x \in Pending' : phase'[x] = phase[p] + 1
  BY <1>2, <1>3, <1>4
<1>6. \A x, y \in Node : (x \in Pending' <=> y \in Pending') => phase'[x] = phase'[y]
  BY <1>4, <1>5
<1>7. \A x \in Pending' : \A y \in Node \ Pending' : phase'[x] = phase'[y] + 1
  BY <1>4, <1>5
<1>8. QED
  BY <1>2, <1>6, <1>7 DEF PhaseInv

\* Barrier of a host that is not the manager.
LEMMA ArriveStep ==
  ASSUME HostInv, NEW p \in Node, p # getManagerId, op[p].pc = "idle",
         NEW m, m.type = "barrierRequest", net' = Sent(net, p, getManagerId, m),
         op' = [op EXCEPT ![p] = [pc |-> "barrier"]],
         phase' = [phase EXCEPT ![p] = @ + 1],
         UNCHANGED <<channel, locks, barriers, held>>
  PROVE  Unseen
<1>1. NetInv /\ OpInv /\ WakeInv /\ ReasonInv /\ ManagerInv /\ ArrivalInv /\ PhaseInv
  BY DEF HostInv, CallInv, BarrierInv
<1>2. /\ channel' = channel /\ held' = held
      /\ barrier' = barrier /\ counting' = counting /\ respond' = respond
  BY DEF barriers
<1>3. Awaited(op[p]) = 0
  BY DEF Awaited
<1>4. /\ channel[p] = 0 /\ Owed(p) = 0
      /\ \A x, y \in Node : \A z \in Messages(net, x, y) :
           z.type # "barrierRequest" => Waiter(z, x, y) \in Node \ {p}
  BY <1>3, NotWoken
<1>5. OpInv' /\ op'[p] = [pc |-> "barrier"] /\ \A q \in Node : q # p => op'[q] = op[q]
  <2>1. Sound(p, [pc |-> "barrier"], held[p])
    BY DEF Sound, Faulting
  <2>2. QED
    BY <1>1, <1>2, <2>1, OpKept
<1>6. \A w \in Node : w # Waiter(m, p, getManagerId)
  BY NoNodeAssumption DEF Waiter, Asking, Answering
<1>7. /\ NetInv' /\ Longer(net, net', p, getManagerId, m)
      /\ \A w \in Node : IsFiniteSet(Wakes(net', w))
      /\ \A w \in Node : Cardinality(Wakes(net', w)) = Cardinality(Wakes(net, w))
  BY <1>1, <1>6, ManagerIsNode, NetSent
<1>8. \A w \in Node : Owed(w)' = Owed(w)
  BY <1>2, <1>7 DEF Owed
<1>9. WakeInv'
  <2>1. \A q \in Node : Owed(q)' <= Awaited(op'[q])
    <3>1. Awaited(op'[p]) = 1
      BY <1>5 DEF Awaited
    <3>2. QED
      BY <1>1, <1>4, <1>5, <1>8, <3>1 DEF WakeInv
  <2>2. channel' \in [Node -> Nat]
    BY <1>1, <1>2 DEF WakeInv
  <2>3. QED
    BY <1>7, <2>1, <2>2 DEF WakeInv
<1>10. /\ Messages(net', p, getManagerId) = Messages(net, p, getManagerId) \cup {m}
       /\ \A x, y \in Node : x # p \/ y # getManagerId => Messages(net', x, y) = Messages(net, x, y)
  BY <1>7, ManagerIsNode, SentMessages
<1>11. ReasonInv'
  <2>1. ASSUME NEW x \in Node, NEW y \in Node, NEW z \in Messages(net', x, y)
        PROVE  /\ z.type \in Asking \cup Answering \cup {"barrierRequest"}
               /\ z.type # "barrierRequest" => op'[Waiter(z, x, y)].pc = Reason(z.type)
    <3>1. z \in Messages(net, x, y) \/ z = m
      BY <1>10
    <3>2. CASE z \in Messages(net, x, y)
      BY <1>1, <1>4, <1>5, <3>2 DEF ReasonInv
    <3>3. QED
      BY <3>1, <3>2
  <2>2. QED
    BY <2>1 DEF ReasonInv
<1>12. LockFrame
  <2>1. \A x, y \in Node :
          Of(net', x, y, "lockAcquireResponse") = Of(net, x, y, "lockAcquireResponse")
    <3>1. m.type # "lockAcquireResponse"
      OBVIOUS
    <3>2. QED
      BY <1>7, <3>1, ManagerIsNode, SentOther
  <2>2. op'[p].pc # "lock"
    BY <1>5
  <2>3. QED
    BY <1>2, <1>5, <1>8, <2>1, <2>2 DEF LockFrame
<1>13. (Responding' <=> Responding) /\ \A q : Served(q)' <=> Served(q)
  BY <1>2 DEF Responding, Served
<1>14. Waits(p)' /\ ~Waits(p) /\ ~Served(p) /\ \A q \in Node : q # p => (Waits(q)' <=> Waits(q))
  <2>1. Waits(p)' /\ ~Waits(p)
    BY <1>4, <1>5, <1>8 DEF Waits, InBarrier, Answered
  <2>2. \A q \in Node : q # p => (Waits(q)' <=> Waits(q))
    BY <1>5, <1>8 DEF Waits, InBarrier, Answered
  <2>3. QED
    BY <1>1, <2>1, <2>2 DEF ArrivalInv
<1>15. p \notin Pending /\ Pending' = Pending \cup {p}
  BY <1>13, <1>14 DEF Pending
<1>16. /\ Of(net, p, getManagerId, "barrierRequest") = {}
       /\ m \in Of(net', p, getManagerId, "barrierRequest")
       /\ \A x, y \in Node : x # p \/ y # getManagerId =>
            Of(net', x, y, "barrierRequest") = Of(net, x, y, "barrierRequest")
  <2>1. Of(net, p, getManagerId, "barrierRequest") = {}
    BY <1>1, <1>15, ManagerIsNode DEF ArrivalInv
  <2>2. QED
    BY <1>10, <2>1 DEF Of
<1>17. Arrived' = Arrived
  <2>1. Requested(p)' /\ \A q \in Node : q # p => (Requested(q)' <=> Requested(q))
    BY <1>16, ManagerIsNode DEF Requested
  <2>2. QED
    BY <1>15, <2>1 DEF Arrived, Pending
<1>18. ManagerInv'
  BY <1>1, <1>2, <1>5, <1>13, ManagerIsNode DEF ManagerInv
<1>19. ArrivalInv'
  <2>1. \A q \in Node : Served(q)' => Waits(q)'
    BY <1>1, <1>13, <1>14 DEF ArrivalInv
  <2>2. Arrivals' + Cardinality(counting') <= Cardinality(Arrived')
    BY <1>1, <1>2, <1>13, <1>17 DEF ArrivalInv, Arrivals
  <2>3. \A a, b \in Node : Of(net', a, b, "barrierRequest") # {} =>
          b = getManagerId /\ a # getManagerId /\ a \in Pending'
    BY <1>1, <1>15, <1>16 DEF ArrivalInv
  <2>4. \A a, b \in Node : Single(net', a, b)
    <3>1. \A a, b \in Node : Single(net, a, b)
      BY <1>1 DEF ArrivalInv
    <3>2. QED
      BY <1>7, <1>16, <3>1, ManagerIsNode, SentSingle
  <2>5. QED
    BY <2>1, <2>2, <2>3, <2>4 DEF ArrivalInv
<1>20. PhaseInv'
  BY <1>1, <1>15, PhaseArrives
<1>21. QED
  BY <1>5, <1>7, <1>9, <1>11, <1>12, <1>18, <1>19, <1>20, BarriersAssembled

\* A thread of the manager has one more arrival to count.
LEMMA CountingMore ==
  ASSUME ArrivalInv, counting \subseteq {"app", "net"}, Arrivals \in Nat, Arrivals' = Arrivals,
         NEW thread, thread \notin counting, counting' = counting \cup {thread},
         NEW p, p \notin Arrived, Arrived' = Arrived \cup {p}
  PROVE  Arrivals' + Cardinality(counting') <= Cardinality(Arrived')
<1>1. /\ IsFiniteSet(counting) /\ Cardinality(counting) \in Nat
      /\ IsFiniteSet(Arrived) /\ Cardinality(Arrived) \in Nat
  BY CountingFinite, ArrivedFinite
<1>2. Cardinality(counting \cup {thread}) = Cardinality(counting) + 1
  BY <1>1, FS_AddElement
<1>3. Cardinality(Arrived \cup {p}) = Cardinality(Arrived) + 1
  BY <1>1, FS_AddElement
<1>4. Arrivals + Cardinality(counting) <= Cardinality(Arrived)
  BY DEF ArrivalInv
<1>5. QED
  BY <1>1, <1>2, <1>3, <1>4

\* Barrier of the manager.
LEMMA ManagerStep ==
  ASSUME HostInv, NEW p \in Node, p = getManagerId, op[p].pc = "idle",
         counting' = counting \cup {"app"},
         op' = [op EXCEPT ![p] = [pc |-> "counting"]],
         phase' = [phase EXCEPT ![p] = @ + 1],
         UNCHANGED <<net, channel, locks, barrier, respond, held>>
  PROVE  Unseen
<1>1. NetInv /\ OpInv /\ WakeInv /\ ReasonInv /\ ManagerInv /\ ArrivalInv /\ PhaseInv
  BY DEF HostInv, CallInv, BarrierInv
<1>2. /\ net' = net /\ channel' = channel /\ held' = held
      /\ barrier' = barrier /\ respond' = respond
  OBVIOUS
<1>3. Awaited(op[p]) = 0
  BY DEF Awaited
<1>4. /\ channel[p] = 0 /\ Owed(p) = 0
      /\ \A x, y \in Node : \A z \in Messages(net, x, y) :
           z.type # "barrierRequest" => Waiter(z, x, y) \in Node \ {p}
  BY <1>3, NotWoken
<1>5. OpInv' /\ op'[p] = [pc |-> "counting"] /\ \A q \in Node : q # p => op'[q] = op[q]
  <2>1. Sound(p, [pc |-> "counting"], held[p])
    BY DEF Sound, Faulting
  <2>2. QED
    BY <1>1, <1>2, <2>1, OpKept
<1>6. \A w \in Node : Owed(w)' = Owed(w)
  BY <1>2 DEF Owed
<1>7. WakeInv'
  <2>1. \A q \in Node : Owed(q)' <= Awaited(op'[q])
    <3>1. Awaited(op'[p]) = 0
      BY <1>5 DEF Awaited
    <3>2. QED
      BY <1>1, <1>4, <1>5, <1>6, <3>1 DEF WakeInv
  <2>2. QED
    BY <1>1, <1>2, <2>1 DEF WakeInv
<1>8. NetInv' /\ ReasonInv'
  <2>1. ReasonInv'
    BY <1>1, <1>2, <1>4, <1>5, ReasonMoved
  <2>2. QED
    BY <1>1, <1>2, <2>1 DEF NetInv
<1>9. LockFrame
  <2>1. op'[p].pc # "lock"
    BY <1>5
  <2>2. QED
    BY <1>2, <1>5, <1>6, <2>1 DEF LockFrame
<1>10. ~Waits(p) /\ ~Responding /\ Waits(p)' /\ \A q \in Node : q # p => (Waits(q)' <=> Waits(q))
  <2>1. ~Waits(p)
    BY DEF Waits, InBarrier
  <2>2. ~Responding
    BY <1>1, <2>1 DEF ArrivalInv, Served
  <2>3. Waits(p)'
    BY <1>4, <1>5, <1>6 DEF Waits, InBarrier, Answered
  <2>4. \A q \in Node : q # p => (Waits(q)' <=> Waits(q))
    BY <1>5, <1>6 DEF Waits, InBarrier, Answered
  <2>5. QED
    BY <2>1, <2>2, <2>3, <2>4
<1>11. ~Responding' /\ \A q : ~Served(q) /\ ~Served(q)'
  BY <1>2, <1>10 DEF Responding, Served
<1>12. p \notin Pending /\ Pending' = Pending \cup {p}
  BY <1>10, <1>11 DEF Pending
<1>13. p \notin Arrived /\ Arrived' = Arrived \cup {p}
  <2>1. ~Requested(p) /\ \A q \in Node : Requested(q)' <=> Requested(q)
    BY <1>1, <1>2, ManagerIsNode DEF Requested, ArrivalInv
  <2>2. QED
    BY <1>12, <2>1 DEF Arrived, Pending
<1>14. "app" \notin counting /\ counting \subseteq {"app", "net"}
  BY <1>1 DEF ManagerInv
<1>15. ManagerInv'
  <2>1. op'[getManagerId].pc = "counting" /\ "app" \in counting'
    BY <1>5
  <2>2. counting' \subseteq {"app", "net"}
    BY <1>14
  <2>3. QED
    BY <1>1, <1>2, <1>10, <1>11, <2>1, <2>2 DEF ManagerInv
<1>16. ArrivalInv'
  <2>1. Arrivals \in Nat /\ Arrivals' = Arrivals
    BY <1>1, <1>2, <1>10, <1>11 DEF Arrivals, ManagerInv
  <2>2. Arrivals' + Cardinality(counting') <= Cardinality(Arrived')
    BY <1>1, <1>13, <1>14, <2>1, CountingMore
  <2>3. \A a, b \in Node : Of(net', a, b, "barrierRequest") # {} =>
          b = getManagerId /\ a # getManagerId /\ a \in Pending'
    BY <1>1, <1>2, <1>12 DEF ArrivalInv
  <2>4. \A a, b \in Node : Single(net', a, b)
    BY <1>1, <1>2 DEF ArrivalInv
  <2>5. QED
    BY <1>11, <2>2, <2>3, <2>4 DEF ArrivalInv
<1>17. PhaseInv'
  BY <1>1, <1>12, PhaseArrives
<1>18. QED
  BY <1>5, <1>7, <1>8, <1>9, <1>15, <1>16, <1>17, BarriersAssembled

\* The manager gets the request of a host that has come to the barrier.
LEMMA RequestStep ==
  ASSUME HostInv, NEW p \in Node, NEW q \in Node, net[q][p] # <<>>,
         NEW h, h = Head(net[q][p]), h.type = "barrierRequest", Listening(p),
         net' = Taken(net, q, p), counting' = counting \cup {"net"},
         UNCHANGED <<op, channel, locks, barrier, respond, held, phase>>
  PROVE  Unseen
<1>1. NetInv /\ OpInv /\ WakeInv /\ ReasonInv /\ ManagerInv /\ ArrivalInv /\ PhaseInv
  BY DEF HostInv, CallInv, BarrierInv
<1>2. /\ op' = op /\ channel' = channel /\ held' = held /\ phase' = phase
      /\ barrier' = barrier /\ respond' = respond
  OBVIOUS
<1>3. TakeFrame(h, q, p)
  BY TakeKeeps
<1>4. \A w \in Node : w # Waiter(h, q, p)
  BY NoNodeAssumption DEF Waiter, Asking, Answering
<1>5. /\ NetInv' /\ h \in Messages(net, q, p)
      /\ \A w \in Node : IsFiniteSet(Wakes(net', w))
      /\ \A w \in Node : Cardinality(Wakes(net', w)) = Cardinality(Wakes(net, w))
      /\ \A x, y \in Node : Messages(net', x, y) \subseteq Messages(net, x, y)
      /\ \A x, y \in Node : Single(net', x, y)
      /\ Of(net', q, p, "barrierRequest") = {}
  BY <1>3, <1>4 DEF TakeFrame
<1>6. /\ \A x, y \in Node :
           Of(net', x, y, "lockAcquireResponse") = Of(net, x, y, "lockAcquireResponse")
      /\ \A x, y \in Node : x # q \/ y # p =>
           Of(net', x, y, "barrierRequest") = Of(net, x, y, "barrierRequest")
  BY <1>3 DEF TakeFrame
<1>7. \A w \in Node : Owed(w)' = Owed(w)
  BY <1>2, <1>5 DEF Owed
<1>8. OpInv' /\ WakeInv' /\ ReasonInv'
  <2>1. WakeInv'
    BY <1>1, <1>2, <1>5, <1>7 DEF WakeInv
  <2>2. ReasonInv'
    BY <1>1, <1>2, <1>5, ReasonKept
  <2>3. QED
    BY <1>1, <1>2, <2>1, <2>2, OpSame
<1>9. LockFrame
  BY <1>2, <1>6, <1>7 DEF LockFrame
<1>10. p = getManagerId /\ q # getManagerId /\ q \in Pending /\ Requested(q)
  <2>1. h \in Of(net, q, p, "barrierRequest")
    BY <1>5 DEF Of
  <2>2. p = getManagerId /\ q # getManagerId /\ q \in Pending
    BY <1>1, <2>1 DEF ArrivalInv
  <2>3. QED
    BY <2>1, <2>2 DEF Requested
<1>11. "net" \notin counting /\ counting \subseteq {"app", "net"}
  BY <1>1, <1>10 DEF Listening, ManagerInv
<1>12. (Responding' <=> Responding) /\ \A w : Served(w)' <=> Served(w)
  BY <1>2 DEF Responding, Served
<1>13. \A w \in Node : Waits(w)' <=> Waits(w)
  BY <1>2, <1>7 DEF Waits, InBarrier, Answered
<1>14. Pending' = Pending
  BY <1>12, <1>13 DEF Pending
<1>15. q \notin Arrived /\ Arrived' = Arrived \cup {q}
  <2>1. ~Requested(q)' /\ \A w \in Node : w # q => (Requested(w)' <=> Requested(w))
    BY <1>5, <1>6, <1>10 DEF Requested
  <2>2. QED
    BY <1>10, <1>14, <2>1 DEF Arrived, Pending
<1>16. ManagerInv'
  <2>1. counting' \subseteq {"app", "net"} /\ ("app" \in counting' <=> "app" \in counting)
    BY <1>11
  <2>2. QED
    BY <1>1, <1>2, <1>12, <2>1 DEF ManagerInv
<1>17. ArrivalInv'
  <2>1. Arrivals \in Nat /\ Arrivals' = Arrivals
    BY <1>1, <1>2, <1>12 DEF Arrivals, ManagerInv
  <2>2. Arrivals' + Cardinality(counting') <= Cardinality(Arrived')
    BY <1>1, <1>11, <1>15, <2>1, CountingMore
  <2>3. \A a, b \in Node : Of(net', a, b, "barrierRequest") # {} =>
          b = getManagerId /\ a # getManagerId /\ a \in Pending'
    BY <1>1, <1>5, <1>6, <1>14 DEF ArrivalInv
  <2>4. \A w \in Node : Served(w)' => Waits(w)'
    BY <1>1, <1>12, <1>13 DEF ArrivalInv
  <2>5. QED
    BY <1>5, <2>2, <2>3, <2>4 DEF ArrivalInv
<1>18. PhaseInv'
  BY <1>1, <1>2, <1>14 DEF PhaseInv
<1>19. QED
  BY <1>5, <1>8, <1>9, <1>16, <1>17, <1>18, BarriersAssembled

\* The manager has counted an arrival that was not the last.
LEMMA CountedStep ==
  ASSUME HostInv, NEW thread, thread \in counting, barrier # Empty,
         barrier' = barrier + 1, counting' = counting \ {thread}, AppWaits(thread),
         UNCHANGED <<channel, net, locks, respond, held, phase>>
  PROVE  Unseen
<1>1. NetInv /\ OpInv /\ WakeInv /\ ReasonInv /\ ManagerInv /\ ArrivalInv /\ PhaseInv
  BY DEF HostInv, CallInv, BarrierInv
<1>2. /\ net' = net /\ channel' = channel /\ held' = held /\ respond' = respond /\ phase' = phase
  OBVIOUS
<1>3. PICK p : p = getManagerId
  OBVIOUS
<1>4. p \in Node
  BY <1>3, ManagerIsNode
<1>5. ~Responding /\ ~Responding' /\ barrier \in Nat /\ counting \subseteq {"app", "net"}
      /\ \A q : ~Served(q) /\ ~Served(q)'
  BY <1>1, <1>2 DEF ManagerInv, Responding, Served
<1>6. \A w \in Node : Owed(w)' = Owed(w)
  BY <1>2 DEF Owed
<1>7. thread = "app" => op[p].pc = "counting" /\ op' = [op EXCEPT ![p] = [pc |-> "barrier"]]
  BY <1>1, <1>3, <1>4 DEF AppWaits, ManagerInv
<1>8. thread # "app" => op' = op
  BY DEF AppWaits
<1>9. OpInv' /\ (\A q \in Node : q # p => op'[q] = op[q])
      /\ (thread = "app" => op'[p] = [pc |-> "barrier"])
  <2>1. CASE thread = "app"
    <3>1. Sound(p, [pc |-> "barrier"], held[p])
      BY DEF Sound, Faulting
    <3>2. op' = [op EXCEPT ![p] = [pc |-> "barrier"]]
      BY <1>7, <2>1
    <3>3. QED
      BY <1>1, <1>2, <1>4, <3>1, <3>2, OpKept
  <2>2. CASE thread # "app"
    BY <1>1, <1>2, <1>8, <2>2, OpSame
  <2>3. QED
    BY <2>1, <2>2
<1>10. WakeInv' /\ ReasonInv'
  <2>1. CASE thread = "app"
    <3>1. Awaited(op[p]) = 0
      BY <1>7, <2>1 DEF Awaited
    <3>2. /\ Owed(p) = 0
          /\ \A x, y \in Node : \A z \in Messages(net, x, y) :
               z.type # "barrierRequest" => Waiter(z, x, y) \in Node \ {p}
      BY <1>4, <3>1, NotWoken
    <3>3. ReasonInv'
      BY <1>1, <1>2, <1>4, <1>9, <3>2, ReasonMoved
    <3>4. Awaited(op'[p]) = 1
      BY <1>9, <2>1 DEF Awaited
    <3>5. \A q \in Node : Owed(q)' <= Awaited(op'[q])
      BY <1>1, <1>6, <1>9, <3>2, <3>4 DEF WakeInv
    <3>6. WakeInv'
      BY <1>1, <1>2, <3>5 DEF WakeInv
    <3>7. QED
      BY <3>3, <3>6
  <2>2. CASE thread # "app"
    BY <1>1, <1>2, <1>6, <1>8, <2>2 DEF WakeInv, ReasonInv
  <2>3. QED
    BY <2>1, <2>2
<1>11. \A q \in Node : Waits(q)' <=> Waits(q)
  <2>1. thread = "app" => (InBarrier(p) /\ InBarrier(p)')
    BY <1>7, <1>9 DEF InBarrier
  <2>2. \A q \in Node : InBarrier(q)' <=> InBarrier(q)
    BY <1>8, <1>9, <2>1 DEF InBarrier
  <2>3. QED
    BY <1>6, <2>2 DEF Waits, Answered
<1>12. LockFrame
  <2>1. op[p].pc = "lock" => op' = op
    BY <1>7, <1>8
  <2>2. op'[p].pc = "lock" => op' = op
    BY <1>8, <1>9
  <2>3. QED
    BY <1>2, <1>6, <1>9, <2>1, <2>2 DEF LockFrame
<1>13. Pending' = Pending
  BY <1>5, <1>11 DEF Pending
<1>14. Arrived' = Arrived
  BY <1>2, <1>13 DEF Arrived, Requested
<1>15. ManagerInv'
  <2>1. /\ respond \in [thread : {"none", "app", "net"}, next : Nat]
        /\ respond.thread = "app" => op[p].pc = "counting"
        /\ "app" \in counting => op[p].pc = "counting"
        /\ op[p].pc = "counting" => "app" \in counting
    BY <1>1, <1>3, <1>5 DEF ManagerInv
  <2>2. respond.thread # "app"
    BY <1>5 DEF Responding, Nobody
  <2>3. counting' \subseteq {"app", "net"} /\ ("app" \in counting' <=> thread # "app" /\ "app" \in counting)
    BY <1>5
  <2>4. op'[p].pc = "counting" <=> thread # "app" /\ op[p].pc = "counting"
    BY <1>8, <1>9
  <2>5. barrier' \in Nat
    BY <1>5
  <2>6. QED
    BY <1>2, <1>3, <1>5, <2>1, <2>2, <2>3, <2>4, <2>5 DEF ManagerInv
<1>16. ArrivalInv'
  <2>1. Arrivals' + Cardinality(counting') <= Cardinality(Arrived')
    <3>1. IsFiniteSet(counting) /\ Cardinality(counting) \in Nat
      BY <1>5, CountingFinite
    <3>2. Cardinality(counting') = Cardinality(counting) - 1
      BY <3>1, FS_RemoveElement
    <3>3. barrier + Cardinality(counting) <= Cardinality(Arrived)
      BY <1>1, <1>5 DEF ArrivalInv, Arrivals
    <3>4. Arrivals' = barrier + 1
      BY <1>5 DEF Arrivals
    <3>5. Cardinality(Arrived) \in Nat
      BY ArrivedFinite
    <3>6. QED
      BY <1>5, <1>14, <3>1, <3>2, <3>3, <3>4, <3>5
  <2>2. /\ \A a, b \in Node : Of(net, a, b, "barrierRequest") # {} =>
             b = getManagerId /\ a # getManagerId /\ a \in Pending
        /\ \A a, b \in Node : Single(net, a, b)
    BY <1>1 DEF ArrivalInv
  <2>3. QED
    BY <1>2, <1>5, <1>13, <2>1, <2>2 DEF ArrivalInv
<1>17. PhaseInv'
  BY <1>1, <1>2, <1>13 DEF PhaseInv
<1>18. NetInv'
  BY <1>1, <1>2 DEF NetInv
<1>19. QED
  BY <1>9, <1>10, <1>12, <1>15, <1>16, <1>17, <1>18, BarriersAssembled

\* The manager has counted the last arrival: everybody has come to the barrier.
LEMMA GatheredStep ==
  ASSUME HostInv, NEW thread, thread \in counting, barrier # Empty, AllArrived(barrier + 1),
         barrier' = Empty, counting' = counting \ {thread},
         respond' = [thread |-> thread, next |-> getManagerId + 1],
         UNCHANGED <<op, channel, net, locks, held, phase>>
  PROVE  Unseen
<1>1. NetInv /\ OpInv /\ WakeInv /\ ReasonInv /\ ManagerInv /\ ArrivalInv /\ PhaseInv
  BY DEF HostInv, CallInv, BarrierInv
<1>2. /\ op' = op /\ net' = net /\ channel' = channel /\ held' = held /\ phase' = phase
  OBVIOUS
<1>3. ~Responding /\ barrier \in Nat /\ counting \subseteq {"app", "net"} /\ \A q : ~Served(q)
  BY <1>1 DEF ManagerInv, Responding, Served
<1>4. \A w \in Node : Owed(w)' = Owed(w)
  BY <1>2 DEF Owed
<1>5. OpInv' /\ NetInv' /\ WakeInv' /\ ReasonInv' /\ LockFrame
  BY <1>1, <1>2, <1>4, OpSame DEF NetInv, WakeInv, ReasonInv, LockFrame
<1>6. Arrived = Node /\ counting' = {}
  <2>1. /\ IsFiniteSet(counting) /\ Cardinality(counting) \in Nat
        /\ IsFiniteSet(Arrived) /\ Cardinality(Arrived) \in Nat /\ Cardinality(Arrived) <= NrProcs
        /\ Cardinality(Arrived) = NrProcs => Arrived = Node
    BY <1>3, CountingFinite, ArrivedFinite
  <2>2. IsFiniteSet(counting') /\ Cardinality(counting') = Cardinality(counting) - 1
    BY <2>1, FS_RemoveElement
  <2>3. Cardinality(counting') \in Nat
    BY <2>2, FS_CardinalityType
  <2>4. barrier + Cardinality(counting) <= Cardinality(Arrived)
    BY <1>1, <1>3 DEF ArrivalInv, Arrivals
  <2>5. barrier + 1 >= NrProcs /\ NrProcs \in Nat
    BY NrProcsAssumption DEF AllArrived
  <2>6. Cardinality(counting') = 0 /\ Cardinality(Arrived) = NrProcs
    BY <1>3, <2>1, <2>2, <2>3, <2>4, <2>5
  <2>7. QED
    BY <2>1, <2>2, <2>6, FS_EmptySet
<1>7. Pending = Node /\ \A q \in Node : Waits(q) /\ ~Requested(q)
  BY <1>6 DEF Arrived, Pending
<1>8. \A q \in Node : Waits(q)'
  BY <1>2, <1>4, <1>7 DEF Waits, InBarrier, Answered
<1>9. thread \in {"app", "net"} /\ respond'.thread = thread /\ respond'.next = 1 /\ Responding'
      /\ respond' \in [thread : {"none", "app", "net"}, next : Nat]
  BY <1>3 DEF Responding, Nobody, getManagerId
<1>10. \A q \in Node : Served(q)'
  <2>1. \A q \in Node : q \in Nat
    BY NrProcsAssumption DEF Node
  <2>2. QED
    BY <1>9, <2>1 DEF Served, getManagerId
<1>11. Pending' = {} /\ Arrived' = {}
  BY <1>10 DEF Pending, Arrived
<1>12. ManagerInv'
  <2>1. op[getManagerId].pc = "counting" <=> "app" \in counting
    BY <1>1, <1>3 DEF ManagerInv
  <2>2. counting = {thread}
    BY <1>6
  <2>3. op[getManagerId].pc = "counting" <=> thread = "app"
    BY <2>1, <2>2
  <2>4. respond'.thread # "none"
    BY <1>9
  <2>5. QED
    BY <1>2, <1>6, <1>9, <2>3, <2>4 DEF ManagerInv
<1>13. ArrivalInv'
  <2>1. Arrivals' + Cardinality(counting') <= Cardinality(Arrived')
    <3>1. Arrivals' = 0
      BY <1>9 DEF Arrivals
    <3>2. Cardinality(counting') = 0 /\ Cardinality(Arrived') = 0
      BY <1>6, <1>11, FS_EmptySet
    <3>3. QED
      BY <3>1, <3>2
  <2>2. \A a, b \in Node : Of(net, a, b, "barrierRequest") = {}
    BY <1>1, <1>7 DEF ArrivalInv, Requested
  <2>3. \A a, b \in Node : Single(net, a, b)
    BY <1>1 DEF ArrivalInv
  <2>4. QED
    BY <1>2, <1>8, <2>1, <2>2, <2>3 DEF ArrivalInv
<1>14. PhaseInv'
  BY <1>1, <1>2, <1>7, <1>11 DEF PhaseInv
<1>15. QED
  BY <1>5, <1>12, <1>13, <1>14, BarriersAssembled

\* The manager answers the next host.
LEMMA RespondStep ==
  ASSUME HostInv, sendBarrierResponse
  PROVE  Unseen
<1>1. NetInv /\ OpInv /\ WakeInv /\ ReasonInv /\ ManagerInv /\ ArrivalInv /\ PhaseInv
  BY DEF HostInv, CallInv, BarrierInv
<1>2. /\ op' = op /\ channel' = channel /\ held' = held /\ phase' = phase
      /\ barrier' = barrier /\ counting' = counting /\ UNCHANGED locks
  BY DEF sendBarrierResponse, program
<1>3. PICK i, m : /\ i = respond.next /\ m.type = "barrierResponse"
                  /\ net' = Sent(net, getManagerId, i, m)
  BY DEF sendBarrierResponse
<1>4. Responding /\ i \in Nat /\ i > 0 /\ i \in Node
  <2>1. Responding /\ i < NrProcs
    BY <1>3 DEF sendBarrierResponse, Responding
  <2>2. i \in Nat /\ i > 0
    BY <1>1, <1>3, <2>1 DEF ManagerInv
  <2>3. QED
    BY <2>1, <2>2, NrProcsAssumption DEF Node
<1>5. /\ respond' = [respond EXCEPT !.next = @ + 1]
      /\ respond \in [thread : {"none", "app", "net"}, next : Nat]
      /\ respond.thread # "none" /\ barrier = Empty
  BY <1>1, <1>4 DEF sendBarrierResponse, ManagerInv
<1>6. /\ respond' \in [thread : {"none", "app", "net"}, next : Nat]
      /\ respond'.thread = respond.thread /\ respond'.next = i + 1 /\ Responding'
  BY <1>3, <1>5 DEF Responding, Nobody
<1>7. Served(i) /\ ~Served(i)' /\ \A q \in Node : q # i => (Served(q)' <=> Served(q))
  <2>1. \A q \in Node : q \in Nat
    BY NrProcsAssumption DEF Node
  <2>2. Served(i) /\ ~Served(i)'
    BY <1>3, <1>4, <1>6 DEF Served, getManagerId
  <2>3. \A q \in Node : q # i => (q >= i + 1 <=> q >= i)
    BY <1>4, <2>1
  <2>4. QED
    BY <1>3, <1>4, <1>6, <2>2, <2>3 DEF Served
<1>8. Waits(i) /\ Owed(i) = 0 /\ op[i].pc = "barrier"
  <2>1. Waits(i)
    BY <1>1, <1>4, <1>7 DEF ArrivalInv
  <2>2. Owed(i) = 0
    BY <1>1, <1>4, <2>1, OwedType DEF Waits, Answered
  <2>3. op[i].pc # "counting"
    BY <1>1, <1>4 DEF OpInv, Sound, getManagerId
  <2>4. QED
    BY <2>1, <2>2, <2>3 DEF Waits, InBarrier
<1>9. Waiter(m, getManagerId, i) = i /\ Reason(m.type) = "barrier" /\ m.type \in Answering
  BY <1>3 DEF Waiter, Asking, Answering, Reason
<1>10. /\ NetInv' /\ Longer(net, net', getManagerId, i, m)
       /\ \A w \in Node : IsFiniteSet(Wakes(net', w))
       /\ \A w \in Node : w # i => Cardinality(Wakes(net', w)) = Cardinality(Wakes(net, w))
       /\ Cardinality(Wakes(net', i)) = Cardinality(Wakes(net, i)) + 1
  BY <1>1, <1>3, <1>4, <1>9, ManagerIsNode, NetSent
<1>11. Owed(i)' = 1 /\ \A w \in Node : w # i => Owed(w)' = Owed(w)
  <2>1. /\ Owed(i) = channel[i] + Cardinality(Wakes(net, i))
        /\ channel[i] \in Nat /\ Cardinality(Wakes(net, i)) \in Nat
    BY <1>1, <1>4, OwedType
  <2>2. Owed(i)' = channel[i] + Cardinality(Wakes(net', i))
    BY <1>2 DEF Owed
  <2>3. \A w \in Node : w # i => Owed(w)' = Owed(w)
    BY <1>2, <1>10 DEF Owed
  <2>4. QED
    BY <1>8, <1>10, <2>1, <2>2, <2>3
<1>12. OpInv' /\ WakeInv'
  <2>1. Awaited(op[i]) = 1
    BY <1>8 DEF Awaited
  <2>2. \A w \in Node : Owed(w)' <= Awaited(op[w])
    BY <1>1, <1>11, <2>1 DEF WakeInv
  <2>3. channel' \in [Node -> Nat]
    BY <1>1, <1>2 DEF WakeInv
  <2>4. QED
    BY <1>1, <1>2, <1>10, <2>2, <2>3, OpSame DEF WakeInv
<1>13. ReasonInv'
  <2>1. /\ Messages(net', getManagerId, i) = Messages(net, getManagerId, i) \cup {m}
        /\ \A x, y \in Node : x # getManagerId \/ y # i => Messages(net', x, y) = Messages(net, x, y)
    BY <1>4, <1>10, ManagerIsNode, SentMessages
  <2>2. ASSUME NEW x \in Node, NEW y \in Node, NEW z \in Messages(net', x, y)
        PROVE  /\ z.type \in Asking \cup Answering \cup {"barrierRequest"}
               /\ z.type # "barrierRequest" => op[Waiter(z, x, y)].pc = Reason(z.type)
    <3>1. z \in Messages(net, x, y) \/ (z = m /\ x = getManagerId /\ y = i)
      BY <2>1
    <3>2. CASE z = m /\ x = getManagerId /\ y = i
      BY <1>8, <1>9, <3>2
    <3>3. CASE z \in Messages(net, x, y)
      BY <1>1, <3>3 DEF ReasonInv
    <3>4. QED
      BY <3>1, <3>2, <3>3
  <2>3. QED
    BY <1>2, <2>2 DEF ReasonInv
<1>14. /\ \A x, y \in Node :
            Of(net', x, y, "lockAcquireResponse") = Of(net, x, y, "lockAcquireResponse")
       /\ \A x, y \in Node : Of(net', x, y, "barrierRequest") = Of(net, x, y, "barrierRequest")
       /\ \A x, y \in Node : Single(net', x, y)
  <2>1. m.type # "lockAcquireResponse" /\ m.type # "barrierRequest"
    BY <1>3
  <2>2. \A x, y \in Node : Single(net, x, y)
    BY <1>1 DEF ArrivalInv
  <2>3. \A x, y \in Node : Single(net', x, y)
    BY <1>4, <1>10, <2>1, <2>2, ManagerIsNode, SentSingle
  <2>4. \A x, y \in Node :
          Of(net', x, y, "lockAcquireResponse") = Of(net, x, y, "lockAcquireResponse")
    BY <1>4, <1>10, <2>1, ManagerIsNode, SentOther
  <2>5. \A x, y \in Node : Of(net', x, y, "barrierRequest") = Of(net, x, y, "barrierRequest")
    BY <1>4, <1>10, <2>1, ManagerIsNode, SentOther
  <2>6. QED
    BY <2>3, <2>4, <2>5
<1>15. LockFrame
  <2>1. op[i].pc # "lock"
    BY <1>8
  <2>2. QED
    BY <1>2, <1>11, <1>14, <2>1 DEF LockFrame
<1>16. \A q \in Node : q # i => (Waits(q)' <=> Waits(q))
  BY <1>2, <1>11 DEF Waits, InBarrier, Answered
<1>17. Pending' = Pending
  <2>1. ~Waits(i)'
    BY <1>11 DEF Waits, Answered
  <2>2. QED
    BY <1>7, <1>16, <2>1 DEF Pending
<1>18. Arrived' = Arrived
  <2>1. \A q \in Node : Requested(q)' <=> Requested(q)
    BY <1>14, ManagerIsNode DEF Requested
  <2>2. QED
    BY <1>17, <2>1 DEF Arrived, Pending
<1>19. ManagerInv'
  <2>1. i + 1 > 0
    BY <1>4
  <2>2. QED
    BY <1>1, <1>2, <1>4, <1>5, <1>6, <2>1 DEF ManagerInv
<1>20. ArrivalInv'
  <2>1. Arrivals' = Arrivals
    BY <1>4, <1>6 DEF Arrivals
  <2>2. \A q \in Node : Served(q)' => Waits(q)'
    BY <1>1, <1>7, <1>16 DEF ArrivalInv
  <2>3. Arrivals' + Cardinality(counting') <= Cardinality(Arrived')
    BY <1>1, <1>2, <1>18, <2>1 DEF ArrivalInv
  <2>4. \A a, b \in Node : Of(net', a, b, "barrierRequest") # {} =>
          b = getManagerId /\ a # getManagerId /\ a \in Pending'
    BY <1>1, <1>14, <1>17 DEF ArrivalInv
  <2>5. QED
    BY <1>14, <2>2, <2>3, <2>4 DEF ArrivalInv
<1>21. PhaseInv'
  BY <1>1, <1>2, <1>17 DEF PhaseInv
<1>22. QED
  BY <1>10, <1>12, <1>13, <1>15, <1>19, <1>20, <1>21, BarriersAssembled

\* The barrier is over: the manager's own thread is woken.
LEMMA EndStep ==
  ASSUME HostInv, EndBarrier
  PROVE  Unseen
<1>1. NetInv /\ OpInv /\ WakeInv /\ ReasonInv /\ ManagerInv /\ ArrivalInv /\ PhaseInv
  BY DEF HostInv, CallInv, BarrierInv
<1>2. /\ net' = net /\ held' = held /\ phase' = phase /\ counting' = counting
      /\ barrier' = 0 /\ respond' = Nobody /\ UNCHANGED locks
  BY DEF EndBarrier, program
<1>3. PICK p : p = getManagerId
  OBVIOUS
<1>4. p \in Node
  BY <1>3, ManagerIsNode
<1>5. /\ Responding /\ respond.next = NrProcs /\ respond.thread # "none"
      /\ respond.thread \in {"none", "app", "net"}
      /\ ~Responding' /\ \A q : ~Served(q)'
  BY <1>1, <1>2 DEF EndBarrier, Responding, ManagerInv, Served
<1>6. Served(p) /\ \A q \in Node : q # p => ~Served(q)
  <2>1. \A q \in Node : q \in Nat /\ q < NrProcs /\ NrProcs \in Nat
    BY NrProcsAssumption DEF Node
  <2>2. \A q \in Node : ~(q >= NrProcs)
    BY <2>1
  <2>3. QED
    BY <1>3, <1>5, <2>2 DEF Served
<1>7. Waits(p) /\ Owed(p) = 0 /\ InBarrier(p)
  <2>1. Waits(p)
    BY <1>1, <1>4, <1>6 DEF ArrivalInv
  <2>2. QED
    BY <1>1, <1>4, <2>1, OwedType DEF Waits, Answered
<1>8. "app" \notin counting
  BY <1>1, <1>5 DEF ManagerInv
<1>9. op[p].pc = IF respond.thread = "app" THEN "counting" ELSE "barrier"
  <2>1. respond.thread = "app" => op[p].pc = "counting"
    BY <1>1, <1>3 DEF ManagerInv
  <2>2. op[p].pc = "counting" => respond.thread = "app"
    BY <1>1, <1>3, <1>8 DEF ManagerInv
  <2>3. QED
    BY <1>7, <2>1, <2>2 DEF InBarrier
<1>10. OpInv' /\ op'[p].pc = "barrier" /\ \A q \in Node : q # p => op'[q] = op[q]
  <2>1. CASE respond.thread = "app"
    <3>1. op' = [op EXCEPT ![p] = [pc |-> "barrier"]]
      BY <1>3, <2>1 DEF EndBarrier, AppWaits
    <3>2. Sound(p, [pc |-> "barrier"], held[p])
      BY DEF Sound, Faulting
    <3>3. OpInv' /\ op'[p] = [pc |-> "barrier"] /\ \A q \in Node : q # p => op'[q] = op[q]
      BY <1>1, <1>2, <1>4, <3>1, <3>2, OpKept
    <3>4. QED
      BY <3>3
  <2>2. CASE respond.thread # "app"
    <3>1. op' = op
      BY <2>2 DEF EndBarrier, AppWaits
    <3>2. QED
      BY <1>1, <1>2, <1>9, <2>2, <3>1, OpSame
  <2>3. QED
    BY <2>1, <2>2
<1>11. /\ channel' \in [Node -> Nat] /\ channel'[p] = channel[p] + 1
       /\ \A q \in Node : q # p => channel'[q] = channel[q]
  BY <1>1, <1>3, <1>4 DEF EndBarrier, Signal, WakeInv
<1>12. Owed(p)' = 1 /\ \A q \in Node : q # p => Owed(q)' = Owed(q)
  <2>1. /\ Owed(p) = channel[p] + Cardinality(Wakes(net, p))
        /\ channel[p] \in Nat /\ Cardinality(Wakes(net, p)) \in Nat
    BY <1>1, <1>4, OwedType
  <2>2. Owed(p)' = channel'[p] + Cardinality(Wakes(net, p))
    BY <1>2 DEF Owed
  <2>3. \A q \in Node : q # p => Owed(q)' = Owed(q)
    BY <1>2, <1>11 DEF Owed
  <2>4. QED
    BY <1>7, <1>11, <2>1, <2>2, <2>3
<1>13. WakeInv'
  <2>1. Awaited(op'[p]) = 1
    BY <1>10 DEF Awaited
  <2>2. \A q \in Node : Owed(q)' <= Awaited(op'[q])
    BY <1>1, <1>10, <1>12, <2>1 DEF WakeInv
  <2>3. \A q \in Node : IsFiniteSet(Wakes(net', q))
    BY <1>1, <1>2 DEF WakeInv
  <2>4. QED
    BY <1>11, <2>2, <2>3 DEF WakeInv
<1>14. NetInv' /\ ReasonInv'
  <2>1. ASSUME NEW x \in Node, NEW y \in Node, NEW z \in Messages(net, x, y),
               z.type # "barrierRequest"
        PROVE  Waiter(z, x, y) \in Node \ {p}
    <3>1. Waiter(z, x, y) \in Node
      BY <1>1, <2>1 DEF ReasonInv, Waiter
    <3>2. Waiter(z, x, y) # p
      BY <1>1, <1>4, <1>7, MessageOwed
    <3>3. QED
      BY <3>1, <3>2
  <2>2. ReasonInv'
    BY <1>1, <1>2, <1>4, <1>10, <2>1, ReasonMoved
  <2>3. QED
    BY <1>1, <1>2, <2>2 DEF NetInv
<1>15. LockFrame
  <2>1. op[p].pc # "lock" /\ op'[p].pc # "lock"
    BY <1>9, <1>10
  <2>2. QED
    BY <1>2, <1>10, <1>11, <1>12, <2>1 DEF LockFrame
<1>16. Pending' = Pending
  <2>1. \A q \in Node : q # p => (Waits(q)' <=> Waits(q))
    BY <1>10, <1>12 DEF Waits, InBarrier, Answered
  <2>2. ~Waits(p)'
    BY <1>12 DEF Waits, Answered
  <2>3. QED
    BY <1>5, <1>6, <2>1, <2>2 DEF Pending
<1>17. Arrived' = Arrived
  BY <1>2, <1>16 DEF Arrived, Requested
<1>18. ManagerInv'
  <2>1. respond' \in [thread : {"none", "app", "net"}, next : Nat] /\ respond'.thread = "none"
    BY <1>2 DEF Nobody
  <2>2. counting \subseteq {"app", "net"}
    BY <1>1 DEF ManagerInv
  <2>3. op'[getManagerId].pc = "barrier"
    BY <1>3, <1>10
  <2>4. QED
    BY <1>2, <1>5, <1>8, <2>1, <2>2, <2>3 DEF ManagerInv
<1>19. ArrivalInv'
  <2>1. Arrivals' = Arrivals
    BY <1>2, <1>5 DEF Arrivals
  <2>2. Arrivals' + Cardinality(counting') <= Cardinality(Arrived')
    BY <1>1, <1>2, <1>17, <2>1 DEF ArrivalInv
  <2>3. /\ \A a, b \in Node : Of(net, a, b, "barrierRequest") # {} =>
             b = getManagerId /\ a # getManagerId /\ a \in Pending
        /\ \A a, b \in Node : Single(net, a, b)
    BY <1>1 DEF ArrivalInv
  <2>4. QED
    BY <1>2, <1>5, <1>16, <2>2, <2>3 DEF ArrivalInv
<1>20. PhaseInv'
  BY <1>1, <1>2, <1>16 DEF PhaseInv
<1>21. QED
  BY <1>10, <1>13, <1>14, <1>15, <1>18, <1>19, <1>20, BarriersAssembled

\* A host is told that the barrier is over.
LEMMA ToldStep ==
  ASSUME HostInv, NEW p \in Node, NEW q \in Node, net[q][p] # <<>>,
         NEW h, h = Head(net[q][p]), h.type = "barrierResponse",
         net' = Taken(net, q, p), Signal(p),
         UNCHANGED <<op, locks, barriers, held, phase>>
  PROVE  Unseen
<1>1. NetInv /\ OpInv
  BY DEF HostInv, CallInv
<1>2. op' = op /\ held' = held /\ phase' = phase /\ UNCHANGED <<locks, barriers>>
  OBVIOUS
<1>3. TakeFrame(h, q, p)
  BY TakeKeeps
<1>4. h.type \in Answering /\ Reason(h.type) = "barrier"
  BY DEF Answering, Reason
<1>5. /\ \A w \in Node : Owed(w)' = Owed(w)
      /\ \A w \in Node : w # p => channel'[w] = channel[w]
      /\ WakeInv' /\ ReasonInv' /\ op[p].pc = "barrier"
  BY <1>2, <1>3, <1>4, AnswerKeeps
<1>6. /\ NetInv' /\ \A x, y \in Node : Single(net', x, y)
      /\ \A x, y \in Node :
           Of(net', x, y, "lockAcquireResponse") = Of(net, x, y, "lockAcquireResponse")
      /\ \A x, y \in Node : Of(net', x, y, "barrierRequest") = Of(net, x, y, "barrierRequest")
  BY <1>3 DEF TakeFrame
<1>7. OpInv'
  BY <1>1, <1>2, OpSame
<1>8. LockFrame
  <2>1. op[p].pc # "lock"
    BY <1>5
  <2>2. QED
    BY <1>2, <1>5, <1>6, <2>1 DEF LockFrame
<1>9. BarrierFrame
  BY <1>2, <1>5, <1>6 DEF BarrierFrame, InBarrier
<1>10. QED
  BY <1>5, <1>6, <1>7, <1>8, <1>9, Framed

\* Barrier returns: the one wake-up that p waited for is received.
LEMMA LeaveStep ==
  ASSUME HostInv, NEW p \in Node, op[p].pc = "barrier", Received(p),
         op' = [op EXCEPT ![p] = Idle],
         UNCHANGED <<net, locks, barriers, held, phase>>
  PROVE  Unseen
<1>1. NetInv /\ OpInv /\ WakeInv /\ ReasonInv /\ BarrierInv
      /\ \A x, y \in Node : Single(net, x, y)
  BY DEF HostInv, CallInv, BarrierInv, ArrivalInv
<1>2. net' = net /\ held' = held /\ phase' = phase /\ UNCHANGED <<locks, barriers>>
  OBVIOUS
<1>3. /\ channel[p] > 0 /\ channel' \in [Node -> Nat] /\ channel'[p] = channel[p] - 1
      /\ \A q \in Node : q # p => channel'[q] = channel[q]
  BY <1>1 DEF Received, WakeInv
<1>4. OpInv' /\ op'[p] = Idle /\ \A q \in Node : q # p => op'[q] = op[q]
  <2>1. Sound(p, Idle, held[p])
    BY DEF Sound, Faulting, Idle
  <2>2. QED
    BY <1>1, <1>2, <2>1, OpKept
<1>5. Owed(p) = 1 /\ Cardinality(Wakes(net, p)) = 0 /\ Owed(p)' = 0
      /\ \A q \in Node : q # p => Owed(q)' = Owed(q)
  <2>1. /\ Owed(p) = channel[p] + Cardinality(Wakes(net, p))
        /\ channel[p] \in Nat /\ Cardinality(Wakes(net, p)) \in Nat
    BY <1>1, OwedType
  <2>2. Owed(p) <= 1
    BY <1>1 DEF WakeInv, Awaited
  <2>3. Owed(p)' = channel'[p] + Cardinality(Wakes(net, p))
    BY <1>2 DEF Owed
  <2>4. \A q \in Node : q # p => Owed(q)' = Owed(q)
    BY <1>2, <1>3 DEF Owed
  <2>5. QED
    BY <1>3, <2>1, <2>2, <2>3, <2>4
<1>6. WakeInv'
  <2>1. Awaited(op'[p]) = 0
    BY <1>4 DEF Awaited, Idle
  <2>2. \A q \in Node : Owed(q)' <= Awaited(op'[q])
    BY <1>1, <1>4, <1>5, <2>1 DEF WakeInv
  <2>3. \A q \in Node : IsFiniteSet(Wakes(net', q))
    BY <1>1, <1>2 DEF WakeInv
  <2>4. QED
    BY <1>3, <2>2, <2>3 DEF WakeInv
<1>7. NetInv' /\ ReasonInv'
  <2>1. ASSUME NEW x \in Node, NEW y \in Node, NEW z \in Messages(net, x, y),
               z.type # "barrierRequest"
        PROVE  Waiter(z, x, y) \in Node \ {p}
    <3>1. Waiter(z, x, y) \in Node
      BY <1>1, <2>1 DEF ReasonInv, Waiter
    <3>2. Waiter(z, x, y) # p
      BY <1>1, <1>5, MessageOwed
    <3>3. QED
      BY <3>1, <3>2
  <2>2. ReasonInv'
    BY <1>1, <1>2, <1>4, <2>1, ReasonMoved
  <2>3. QED
    BY <1>1, <1>2, <2>2 DEF NetInv
<1>8. LockFrame
  <2>1. op[p].pc # "lock" /\ op'[p].pc # "lock"
    BY <1>4 DEF Idle
  <2>2. QED
    BY <1>2, <1>3, <1>4, <1>5, <2>1 DEF LockFrame
<1>9. BarrierInv'
  <2>1. ~Waits(p) /\ ~Waits(p)'
    BY <1>4, <1>5 DEF Waits, Answered, InBarrier, Idle
  <2>2. \A q \in Node : Waits(q)' <=> Waits(q)
    BY <1>4, <1>5, <2>1 DEF Waits, Answered, InBarrier
  <2>3. op[p].pc # "counting" /\ op'[p].pc # "counting"
    BY <1>4 DEF Idle
  <2>4. op'[getManagerId].pc = "counting" <=> op[getManagerId].pc = "counting"
    BY <1>4, <2>3, ManagerIsNode
  <2>5. QED
    BY <1>1, <1>2, <2>2, <2>4, BarriersStay
<1>10. QED
  BY <1>4, <1>6, <1>7, <1>8, <1>9, BarriersAssembled DEF BarrierInv

-------------------------------------------------------------------------------
(* The actions *)

\* A call that is at a fault and waits for nothing goes on with its record.
LEMMA RecordFields ==
  ASSUME NEW o, {"pc", "requests", "left"} \subseteq DOMAIN o, NEW pc, NEW x
  PROVE  /\ {"pc", "requests", "left"} \subseteq DOMAIN [o EXCEPT !.pc = pc]
         /\ [o EXCEPT !.pc = pc].pc = pc /\ [o EXCEPT !.pc = pc].left = o.left
         /\ {"pc", "requests", "left"} \subseteq DOMAIN [o EXCEPT !.rounds = x]
         /\ [o EXCEPT !.rounds = x].left = o.left
OBVIOUS

LEMMA SoundFault ==
  ASSUME NEW p, NEW o, NEW ls, {"pc", "requests", "left"} \subseteq DOMAIN o,
         o.pc \in Faulting, o.left = 0
  PROVE  Sound(p, o, ls) /\ o.pc \in Outside
BY DEF Sound, Outside, Faulting

LEMMA FaultSound ==
  ASSUME OpInv, NEW p \in Node, op[p].pc \in Faulting
  PROVE  /\ {"pc", "requests", "left"} \subseteq DOMAIN op[p] /\ op[p].left \in Nat
         /\ op[p].pc # "answers" => op[p].left = 0
         /\ op[p].pc \in Outside
BY DEF OpInv, Sound, Outside

\* The thread goes from one place in onFault to another.
LEMMA MoveStep ==
  ASSUME HostInv, NEW p \in Node, op[p].pc \in Faulting, Awaited(op[p]) = 0,
         NEW pc \in Faulting \ {"copy", "answers"}, GoTo(p, pc),
         UNCHANGED <<channel, net, locks, barriers, held, phase>>
  PROVE  Unseen
<1>1. OpInv
  BY DEF HostInv, CallInv
<1>2. PICK o : o = [op[p] EXCEPT !.pc = pc]
  OBVIOUS
<1>3. op' = [op EXCEPT ![p] = o]
  <2>1. op = [q \in Node |-> op[q]]
    BY <1>1 DEF OpInv
  <2>2. QED
    BY <1>2, <2>1 DEF GoTo
<1>4. op[p].left = 0 /\ {"pc", "requests", "left"} \subseteq DOMAIN op[p] /\ op[p].pc \in Outside
  BY <1>1, FaultSound DEF Awaited
<1>5. /\ {"pc", "requests", "left"} \subseteq DOMAIN o
      /\ o.pc = pc /\ o.left = 0
  BY <1>2, <1>4, RecordFields
<1>6. Sound(p, o, held[p]) /\ o.pc \in Outside
  BY <1>5, SoundFault
<1>7. QED
  BY <1>3, <1>4, <1>6, LocalStep

LEMMA AfterPlaces ==
  ASSUME NEW o
  PROVE  /\ AfterRound(o) \in Faulting \ {"copy", "answers"}
         /\ AfterDiffs(o) \in Faulting \ {"copy", "answers"}
BY DEF AfterRound, AfterDiffs, Faulting

\* A round of onFault's loop, of a call that awaits nothing.
LEMMA RoundStep ==
  ASSUME HostInv, NEW p \in Node, op[p].pc \in Outside, Awaited(op[p]) = 0,
         NEW o, {"pc", "requests", "left"} \subseteq DOMAIN o, o.left = 0, Round(p, o),
         UNCHANGED <<channel, locks, barriers, held, phase>>
  PROVE  Unseen
<1> DEFINE left == [o EXCEPT !.rounds = Tail(@)]
           next(pc) == [left EXCEPT !.pc = pc]
           ask == [type |-> "copyRequest", PageNr |-> o.page]
<1>1. {"pc", "requests", "left"} \subseteq DOMAIN left /\ left.left = 0
  BY RecordFields
<1> HIDE DEF left
<1>2. ASSUME NEW pc \in Faulting
      PROVE  next(pc).pc = pc /\ Sound(p, next(pc), held[p]) /\ next(pc).pc \in Outside
  <2>1. /\ {"pc", "requests", "left"} \subseteq DOMAIN next(pc)
        /\ next(pc).pc = pc /\ next(pc).left = 0
    BY <1>1, RecordFields
  <2>2. QED
    BY <2>1, SoundFault
<1>3. \/ net' = Sent(net, p, getManagerId, ask) /\ op' = [op EXCEPT ![p] = next("copy")]
      \/ op' = [op EXCEPT ![p] = next("diffs")] /\ net' = net
      \/ op' = [op EXCEPT ![p] = next(AfterDiffs(left))] /\ net' = net
  <2>1. CASE Head(o.rounds) # NO_ACCESS
    BY <2>1 DEF Round, left
  <2>2. CASE Head(o.rounds) = NO_ACCESS /\ ~host[p].pagearray[o.page].hasCopy /\ p # getManagerId
    BY <2>2 DEF Round, left
  <2>3. CASE Head(o.rounds) = NO_ACCESS /\ (host[p].pagearray[o.page].hasCopy \/ p = getManagerId)
    BY <2>3 DEF Round, left
  <2>4. QED
    BY <2>1, <2>2, <2>3
<1>4. CASE net' = Sent(net, p, getManagerId, ask) /\ op' = [op EXCEPT ![p] = next("copy")]
  <2>1. /\ next("copy").pc = "copy" /\ Sound(p, next("copy"), held[p])
        /\ next("copy").pc \in Outside
    BY <1>2 DEF Faulting
  <2>2. PICK n, m : n = next("copy") /\ m = ask
    OBVIOUS
  <2>3. m.type \in Asking /\ n.pc = Reason(m.type)
    BY <2>1, <2>2 DEF Asking, Reason
  <2>4. Awaited(n) = Awaited(op[p]) + 1
    BY <2>1, <2>2 DEF Awaited
  <2>5. op' = [op EXCEPT ![p] = n] /\ net' = Sent(net, p, getManagerId, m)
    BY <1>4, <2>2
  <2>6. Sound(p, n, held[p]) /\ n.pc \in Outside
    BY <2>1, <2>2
  <2>7. QED
    BY <2>3, <2>4, <2>5, <2>6, AskStep
<1>5. ASSUME NEW pc \in Faulting, op' = [op EXCEPT ![p] = next(pc)], net' = net
      PROVE  Unseen
  <2>1. PICK n : n = next(pc)
    OBVIOUS
  <2>2. op' = [op EXCEPT ![p] = n] /\ Sound(p, n, held[p]) /\ n.pc \in Outside
    BY <1>2, <1>5, <2>1
  <2>3. QED
    BY <1>5, <2>2, LocalStep
<1>6. "diffs" \in Faulting /\ AfterDiffs(left) \in Faulting
  BY AfterPlaces DEF Faulting
<1>7. QED
  BY <1>3, <1>4, <1>5, <1>6

LEMMA FaultStep ==
  ASSUME HostInv, NEW p \in Node, op[p].pc = "idle", NEW a, NEW n, NEW type, NEW cells, NEW v,
         onFault(p, a, n, type, cells, v),
         UNCHANGED <<channel, locks, barriers, held, phase>>
  PROVE  Unseen
<1>1. PICK o : /\ Round(p, o) /\ o.left = 0
               /\ {"pc", "requests", "left"} \subseteq DOMAIN o
  BY DEF onFault
<1>2. op[p].pc \in Outside /\ Awaited(op[p]) = 0
  BY DEF Outside, Awaited
<1>3. QED
  BY <1>1, <1>2, RoundStep

LEMMA ReadKeeps ==
  ASSUME HostInv, NEW p \in Node, NEW a, Read(p, a)
  PROVE  Unseen
BY FaultStep DEF Read, At

LEMMA ReadBytesKeeps ==
  ASSUME HostInv, NEW p \in Node, NEW a, NEW n, ReadBytes(p, a, n)
  PROVE  Unseen
BY FaultStep DEF ReadBytes, At

LEMMA WriteBytesKeeps ==
  ASSUME HostInv, NEW p \in Node, NEW a, NEW n, NEW v, WriteBytes(p, a, n, v)
  PROVE  Unseen
<1>1. op[p].pc = "idle" /\ UNCHANGED <<channel, locks, barriers, held, phase>>
  BY DEF WriteBytes, At
<1>2. CASE \E b, cells : onFault(p, b, n, "WRITE", cells, v)
  BY <1>1, <1>2, FaultStep
<1>3. CASE \E cells : op' = [op EXCEPT ![p] = [pc |-> "store", cells |-> cells, val |-> v]]
                      /\ net' = net
  <2>1. PICK o : op' = [op EXCEPT ![p] = o] /\ o.pc = "store"
    <3>1. PICK cells : op' = [op EXCEPT ![p] = [pc |-> "store", cells |-> cells, val |-> v]]
      BY <1>3
    <3>2. [pc |-> "store", cells |-> cells, val |-> v].pc = "store"
      OBVIOUS
    <3>3. QED
      BY <3>1, <3>2, Zenon
  <2>2. Sound(p, o, held[p]) /\ o.pc \in Outside
    BY <2>1 DEF Sound, Outside, Faulting
  <2>3. op[p].pc \in Outside /\ Awaited(op[p]) = 0
    BY <1>1 DEF Outside, Awaited
  <2>4. QED
    BY <1>1, <1>3, <2>1, <2>2, <2>3, LocalStep
<1>4. QED
  BY <1>2, <1>3 DEF WriteBytes

LEMMA NextRoundKeeps ==
  ASSUME HostInv, NEW p \in Node, NextRound(p)
  PROVE  Unseen
<1>1. OpInv /\ op[p].pc = "round" /\ Round(p, op[p])
      /\ UNCHANGED <<channel, locks, barriers, held, phase>>
  BY DEF HostInv, CallInv, NextRound, At, program
<1>2. /\ op[p].pc \in Outside /\ op[p].left = 0
      /\ {"pc", "requests", "left"} \subseteq DOMAIN op[p]
  BY <1>1, FaultSound DEF Faulting
<1>3. Awaited(op[p]) = 0
  BY <1>1 DEF Awaited
<1>4. QED
  BY <1>1, <1>2, <1>3, RoundStep

LEMMA ReceiveCopyKeeps ==
  ASSUME HostInv, NEW p \in Node, ReceiveCopy(p)
  PROVE  Unseen
<1>1. OpInv /\ op[p].pc = "copy" /\ GoTo(p, "diffs") /\ Received(p)
      /\ UNCHANGED <<net, locks, barriers, held, phase>>
  BY DEF HostInv, CallInv, ReceiveCopy, At, program
<1>2. /\ op[p].pc \in Outside /\ op[p].left = 0
      /\ {"pc", "requests", "left"} \subseteq DOMAIN op[p]
  BY <1>1, FaultSound DEF Faulting
<1>3. PICK o : o = [op[p] EXCEPT !.pc = "diffs"]
  OBVIOUS
<1>4. op' = [op EXCEPT ![p] = o]
  <2>1. op = [q \in Node |-> op[q]]
    BY <1>1 DEF OpInv
  <2>2. QED
    BY <1>1, <1>3, <2>1 DEF GoTo
<1>5. {"pc", "requests", "left"} \subseteq DOMAIN o /\ o.pc = "diffs" /\ o.left = 0
  BY <1>2, <1>3, RecordFields
<1>6. Sound(p, o, held[p]) /\ o.pc \in Outside
  BY <1>5, SoundFault DEF Faulting
<1>7. Awaited(op[p]) = Awaited(o) + 1 /\ Awaited(o) = 0
  BY <1>1, <1>5 DEF Awaited
<1>8. QED
  BY <1>1, <1>2, <1>4, <1>6, <1>7, ReceiveStep

LEMMA SendDiffRequestsKeeps ==
  ASSUME HostInv, NEW p \in Node, sendDiffRequests(p)
  PROVE  Unseen
<1>1. OpInv /\ op[p].pc = "diffs" /\ UNCHANGED <<channel, net, locks, barriers, held, phase>>
  BY DEF HostInv, CallInv, sendDiffRequests, At, program
<1>2. /\ op[p].pc \in Outside /\ op[p].pc \in Faulting /\ op[p].left = 0
      /\ {"pc", "requests", "left"} \subseteq DOMAIN op[p]
  BY <1>1, FaultSound DEF Faulting
<1>3. Awaited(op[p]) = 0
  BY <1>1 DEF Awaited
<1>4. CASE GoTo(p, AfterDiffs(op[p]))
  BY <1>1, <1>2, <1>3, <1>4, AfterPlaces, MoveStep
<1>5. CASE op' = [op EXCEPT ![p].pc = "answers",
                            ![p].requests = createDiffRequests(host[p], op[p].page)]
  <2>1. PICK o : o = [op[p] EXCEPT !.pc = "answers",
                                   !.requests = createDiffRequests(host[p], op[p].page)]
    OBVIOUS
  <2>2. op' = [op EXCEPT ![p] = o]
    <3>1. op = [q \in Node |-> op[q]]
      BY <1>1 DEF OpInv
    <3>2. QED
      BY <1>5, <2>1, <3>1
  <2>3. {"pc", "requests", "left"} \subseteq DOMAIN o /\ o.pc = "answers" /\ o.left = 0
    BY <1>2, <2>1
  <2>4. Sound(p, o, held[p]) /\ o.pc \in Outside
    BY <2>3, SoundFault DEF Faulting
  <2>5. QED
    BY <1>1, <1>2, <1>3, <2>2, <2>4, LocalStep
<1>6. QED
  BY <1>4, <1>5 DEF sendDiffRequests

LEMMA SendDiffRequestKeeps ==
  ASSUME HostInv, NEW p \in Node, sendDiffRequest(p)
  PROVE  Unseen
<1>1. OpInv /\ op[p].pc = "answers" /\ UNCHANGED <<channel, locks, barriers, held, phase>>
  BY DEF HostInv, CallInv, sendDiffRequest, At, program
<1>2. /\ op[p].pc \in Outside /\ op[p].left \in Nat
      /\ {"pc", "requests", "left"} \subseteq DOMAIN op[p]
  BY <1>1, FaultSound DEF Faulting
<1>3. PICK b, m : m.type = "diffRequest" /\ net' = Sent(net, p, b, m)
  BY DEF sendDiffRequest
<1>4. PICK o : o = [op[p] EXCEPT !.requests = Tail(@), !.left = @ + 1]
  OBVIOUS
<1>5. op' = [op EXCEPT ![p] = o]
  <2>1. op = [q \in Node |-> op[q]]
    BY <1>1 DEF OpInv
  <2>2. op' = [op EXCEPT ![p].requests = Tail(@), ![p].left = @ + 1]
    BY DEF sendDiffRequest
  <2>3. QED
    BY <1>4, <2>1, <2>2
<1>6. {"pc", "requests", "left"} \subseteq DOMAIN o /\ o.pc = "answers" /\ o.left = op[p].left + 1
  BY <1>1, <1>2, <1>4
<1>7. Sound(p, o, held[p]) /\ o.pc \in Outside
  BY <1>2, <1>6 DEF Sound, Outside, Faulting
<1>8. Awaited(o) = Awaited(op[p]) + 1 /\ o.pc = op[p].pc
  BY <1>1, <1>6 DEF Awaited
<1>9. m.type \in Asking /\ o.pc = Reason(m.type)
  BY <1>3, <1>6 DEF Asking, Reason
<1>10. QED
  BY <1>1, <1>2, <1>3, <1>5, <1>7, <1>8, <1>9, AskStep

LEMMA ReceiveDiffKeeps ==
  ASSUME HostInv, NEW p \in Node, ReceiveDiff(p)
  PROVE  Unseen
<1>1. /\ OpInv /\ op[p].pc = "answers" /\ op[p].left > 0 /\ Received(p)
      /\ UNCHANGED <<net, locks, barriers, held, phase>>
  BY DEF HostInv, CallInv, ReceiveDiff, At, program
<1>2. /\ op[p].pc \in Outside /\ op[p].left \in Nat
      /\ {"pc", "requests", "left"} \subseteq DOMAIN op[p]
  BY <1>1, FaultSound DEF Faulting
<1>3. PICK o : o = [op[p] EXCEPT !.left = @ - 1]
  OBVIOUS
<1>4. op' = [op EXCEPT ![p] = o]
  <2>1. op = [q \in Node |-> op[q]]
    BY <1>1 DEF OpInv
  <2>2. op' = [op EXCEPT ![p].left = @ - 1]
    BY DEF ReceiveDiff
  <2>3. QED
    BY <1>3, <2>1, <2>2
<1>5. {"pc", "requests", "left"} \subseteq DOMAIN o /\ o.pc = "answers" /\ o.left = op[p].left - 1
  BY <1>1, <1>2, <1>3
<1>6. Sound(p, o, held[p]) /\ o.pc \in Outside
  BY <1>1, <1>2, <1>5 DEF Sound, Outside, Faulting
<1>7. Awaited(op[p]) = Awaited(o) + 1 /\ o.pc = op[p].pc
  BY <1>1, <1>2, <1>5 DEF Awaited
<1>8. QED
  BY <1>1, <1>2, <1>4, <1>6, <1>7, ReceiveStep

LEMMA ApplyDiffsKeeps ==
  ASSUME HostInv, NEW p \in Node, ApplyDiffs(p)
  PROVE  Unseen
<1>1. /\ op[p].pc = "answers" /\ op[p].left = 0 /\ GoTo(p, AfterDiffs(op[p]))
      /\ UNCHANGED <<channel, net, locks, barriers, held, phase>>
  BY DEF ApplyDiffs, At, program
<1>2. op[p].pc \in Faulting /\ Awaited(op[p]) = 0
  BY <1>1 DEF Faulting, Awaited
<1>3. QED
  BY <1>1, <1>2, AfterPlaces, MoveStep

LEMMA MakeTwinKeeps ==
  ASSUME HostInv, NEW p \in Node, MakeTwin(p)
  PROVE  Unseen
<1>1. /\ op[p].pc = "twin" /\ GoTo(p, AfterRound(op[p]))
      /\ UNCHANGED <<channel, net, locks, barriers, held, phase>>
  BY DEF MakeTwin, At, program
<1>2. op[p].pc \in Faulting /\ Awaited(op[p]) = 0
  BY <1>1 DEF Faulting, Awaited
<1>3. QED
  BY <1>1, <1>2, AfterPlaces, MoveStep

LEMMA SetRightsKeeps ==
  ASSUME HostInv, NEW p \in Node, SetRights(p)
  PROVE  Unseen
<1>1. /\ op[p].pc = "rights" /\ UNCHANGED <<channel, net, locks, barriers, held, phase>>
  BY DEF SetRights, At, program
<1>2. OpInv
  BY DEF HostInv, CallInv
<1>3. PICK o : o = IF op[p].type = "WRITE"
                   THEN [pc |-> "store", cells |-> op[p].cells, val |-> op[p].val]
                   ELSE Idle
  OBVIOUS
<1>4. op' = [op EXCEPT ![p] = o]
  BY <1>2, <1>3 DEF SetRights, OpInv
<1>5. o.pc \in {"store", "idle"}
  BY <1>3 DEF Idle
<1>6. Sound(p, o, held[p]) /\ o.pc \in Outside /\ op[p].pc \in Outside /\ Awaited(op[p]) = 0
  BY <1>1, <1>5 DEF Sound, Outside, Faulting, Awaited
<1>7. QED
  BY <1>1, <1>4, <1>6, LocalStep

LEMMA StoreKeeps ==
  ASSUME HostInv, NEW p \in Node, Store(p)
  PROVE  Unseen
<1>1. /\ op[p].pc = "store" /\ UNCHANGED <<channel, net, locks, barriers, held, phase>>
      /\ op' = [op EXCEPT ![p] = Idle]
  BY DEF Store, At
<1>2. Sound(p, Idle, held[p]) /\ Idle.pc \in Outside /\ op[p].pc \in Outside /\ Awaited(op[p]) = 0
  BY <1>1 DEF Sound, Outside, Faulting, Awaited, Idle
<1>3. QED
  BY <1>1, <1>2, LocalStep

LEMMA AcquireLockKeeps ==
  ASSUME HostInv, NEW p \in Node, NEW l \in LockId, AcquireLock(p, l)
  PROVE  HostInv'
<1>1. op[p].pc = "idle" /\ UNCHANGED <<channel, net, token, barriers, phase>>
  BY DEF AcquireLock, At
<1>2. CASE token[l] = p
  BY <1>1, <1>2, TakeStep DEF AcquireLock
<1>3. CASE token[l] # p
  <2>1. PICK r : r.From = p /\ requests' = [requests EXCEPT ![l] = @ \cup {r}]
    <3>1. PICK r : r = [From |-> p, Timestamp |-> host[p].timestamp]
      OBVIOUS
    <3>2. r.From = p /\ requests' = [requests EXCEPT ![l] = @ \cup {r}]
      BY <1>3, <3>1 DEF AcquireLock
    <3>3. QED
      BY <3>2
  <2>2. op' = [op EXCEPT ![p] = [pc |-> "lock", lock |-> l]] /\ UNCHANGED <<locked, held>>
    BY <1>3 DEF AcquireLock
  <2>3. QED
    BY <1>1, <1>3, <2>1, <2>2, BlockStep
<1>4. QED
  BY <1>2, <1>3

LEMMA HaveLockKeeps ==
  ASSUME HostInv, NEW p \in Node, HaveLock(p)
  PROVE  HostInv'
BY HaveStep DEF HaveLock, At

LEMMA ReleaseLockKeeps ==
  ASSUME HostInv, NEW p \in Node, NEW l \in LockId, ReleaseLock(p, l)
  PROVE  HostInv'
<1>1. /\ op[p].pc = "idle" /\ l \in held[p]
      /\ locked' = [locked EXCEPT ![l] = FALSE]
      /\ held' = [held EXCEPT ![p] = @ \ {l}]
      /\ UNCHANGED <<op, channel, barriers, phase>>
  BY DEF ReleaseLock, At
<1>2. CASE UNCHANGED <<host, net, token, requests>>
  BY <1>1, <1>2, KeepStep
<1>3. ASSUME NEW req \in requests[l], Grant(p, l, req)
      PROVE  HostInv'
  <2>1. TokenInv
    BY DEF HostInv, CallInv
  <2>2. token[l] = p /\ \A x \in Node : l \in held[x] => x = p
    BY <1>1, <2>1 DEF TokenInv
  <2>3. /\ held' \in [Node -> SUBSET LockId]
        /\ \A x \in Node : held'[x] \subseteq held[x] /\ l \notin held'[x]
    BY <1>1, <2>1, <2>2 DEF TokenInv
  <2>4. locked' \in [LockId -> BOOLEAN] /\ \A k \in LockId \ {l} : locked'[k] = locked[k]
    BY <1>1, <2>1 DEF TokenInv
  <2>5. \A x \in Node : op[x].pc = "lock" /\ channel[x] > 0 => op[x].lock # l
    BY <1>1, <2>1, <2>2 DEF TokenInv
  <2>6. QED
    BY <1>1, <1>3, <2>2, <2>3, <2>4, <2>5, GrantStep
<1>4. QED
  BY <1>2, <1>3 DEF ReleaseLock

LEMMA LockAcquireRequestKeeps ==
  ASSUME HostInv, NEW p \in Node, NEW l \in LockId, handleLockAcquireRequest(p, l)
  PROVE  HostInv'
<1>1. token[l] = p /\ ~locked[l] /\ UNCHANGED <<op, channel, locked, barriers, held, phase>>
  BY DEF handleLockAcquireRequest, CanGrant, program
<1>2. PICK req : Grant(p, l, req)
  BY DEF handleLockAcquireRequest
<1>3. TokenInv
  BY DEF HostInv, CallInv
<1>4. held' \in [Node -> SUBSET LockId] /\ \A x \in Node : held'[x] \subseteq held[x] /\ l \notin held'[x]
  BY <1>1, <1>3 DEF TokenInv
<1>5. locked' \in [LockId -> BOOLEAN] /\ \A k \in LockId \ {l} : locked'[k] = locked[k]
  BY <1>1, <1>3 DEF TokenInv
<1>6. \A x \in Node : op[x].pc = "lock" /\ channel[x] > 0 => op[x].lock # l
  BY <1>1, <1>3 DEF TokenInv
<1>7. QED
  BY <1>1, <1>2, <1>4, <1>5, <1>6, GrantStep

LEMMA BarrierKeeps ==
  ASSUME HostInv, NEW p \in Node, Barrier(p)
  PROVE  Unseen
<1>1. /\ op[p].pc = "idle" /\ phase' = [phase EXCEPT ![p] = @ + 1]
      /\ UNCHANGED <<channel, locks, barrier, respond, held>>
  BY DEF Barrier, At
<1>2. CASE p # getManagerId
  <2>1. PICK m : m.type = "barrierRequest" /\ net' = Sent(net, p, getManagerId, m)
    BY <1>2 DEF Barrier
  <2>2. op' = [op EXCEPT ![p] = [pc |-> "barrier"]] /\ UNCHANGED barriers
    BY <1>1, <1>2 DEF Barrier, barriers
  <2>3. QED
    BY <1>1, <1>2, <2>1, <2>2, ArriveStep
<1>3. CASE p = getManagerId
  <2>1. /\ counting' = counting \cup {"app"} /\ UNCHANGED net
        /\ op' = [op EXCEPT ![p] = [pc |-> "counting"]]
    BY <1>3 DEF Barrier
  <2>2. QED
    BY <1>1, <1>3, <2>1, ManagerStep
<1>4. QED
  BY <1>2, <1>3

LEMMA LeaveBarrierKeeps ==
  ASSUME HostInv, NEW p \in Node, LeaveBarrier(p)
  PROVE  Unseen
BY LeaveStep DEF LeaveBarrier, At, program

LEMMA CountKeeps ==
  ASSUME HostInv, NEW thread, Count(thread)
  PROVE  Unseen
<1>1. /\ thread \in counting /\ barrier # Empty /\ counting' = counting \ {thread}
      /\ UNCHANGED <<channel, net, locks, held, phase>>
  BY DEF Count, program
<1>2. CASE ~AllArrived(barrier + 1)
  <2>1. barrier' = barrier + 1 /\ AppWaits(thread) /\ UNCHANGED respond
    BY <1>2 DEF Count
  <2>2. QED
    BY <1>1, <2>1, CountedStep
<1>3. CASE AllArrived(barrier + 1)
  <2>1. /\ barrier' = Empty /\ respond' = [thread |-> thread, next |-> getManagerId + 1]
        /\ UNCHANGED op
    BY <1>3 DEF Count
  <2>2. QED
    BY <1>1, <1>3, <2>1, GatheredStep
<1>4. QED
  BY <1>2, <1>3

LEMMA HandleIncomingKeeps ==
  ASSUME HostInv, NEW p \in Node, NEW q \in Node, handleIncoming(p, q)
  PROVE  Unseen \/ (HostInv' /\ UNCHANGED <<op, held>>)
<1>1. PICK h : h = Head(net[q][p])
  OBVIOUS
<1>2. ASSUME handleCopyRequest(p, q, h)
      PROVE  Unseen
  <2>1. PICK m : m.type = "copyResponse" /\ net' = Sent(Taken(net, q, p), p, q, m)
    BY <1>2 DEF handleCopyRequest
  <2>2. net[q][p] # <<>> /\ h.type = "copyRequest"
    BY <1>2 DEF handleCopyRequest, Arrives
  <2>3. UNCHANGED <<op, channel, locks, barriers, held, phase>>
    BY <1>2 DEF handleCopyRequest, program
  <2>4. Head(net[q][p]).type \in Asking /\ m.type \in {"copyResponse", "diffResponse"}
    BY <1>1, <2>1, <2>2 DEF Asking
  <2>5. Reason(m.type) = Reason(Head(net[q][p]).type)
    BY <1>1, <2>1, <2>2 DEF Reason
  <2>6. QED
    BY <2>1, <2>2, <2>3, <2>4, <2>5, ReplyStep
<1>3. ASSUME handleDiffRequest(p, q, h)
      PROVE  Unseen
  <2>1. PICK m : m.type = "diffResponse" /\ net' = Sent(Taken(net, q, p), p, q, m)
    BY <1>3 DEF handleDiffRequest
  <2>2. net[q][p] # <<>> /\ h.type = "diffRequest"
    BY <1>3 DEF handleDiffRequest, Arrives
  <2>3. UNCHANGED <<op, channel, locks, barriers, held, phase>>
    BY <1>3 DEF handleDiffRequest, program
  <2>4. Head(net[q][p]).type \in Asking /\ m.type \in {"copyResponse", "diffResponse"}
    BY <1>1, <2>1, <2>2 DEF Asking
  <2>5. Reason(m.type) = Reason(Head(net[q][p]).type)
    BY <1>1, <2>1, <2>2 DEF Reason
  <2>6. QED
    BY <2>1, <2>2, <2>3, <2>4, <2>5, ReplyStep
<1>4. ASSUME handleCopyResponse(p, q, h) \/ handleDiffResponse(p, q, h)
      PROVE  Unseen
  <2>1. /\ net[q][p] # <<>> /\ Head(net[q][p]).type \in {"copyResponse", "diffResponse"}
        /\ net' = Taken(net, q, p) /\ Signal(p)
    BY <1>1, <1>4 DEF handleCopyResponse, handleDiffResponse, Arrives
  <2>2. UNCHANGED <<op, locks, barriers, held, phase>>
    BY <1>4 DEF handleCopyResponse, handleDiffResponse, program
  <2>3. QED
    BY <2>1, <2>2, AnswerStep
<1>5. ASSUME handleLockAcquireResponse(p, q, h)
      PROVE  HostInv' /\ UNCHANGED <<op, held>>
  <2>1. PICK l : l = h.LockId
    OBVIOUS
  <2>2. /\ net[q][p] # <<>> /\ h.type = "lockAcquireResponse"
        /\ net' = Taken(net, q, p) /\ Signal(p)
        /\ locked' = [locked EXCEPT ![l] = TRUE] /\ token' = [token EXCEPT ![l] = p]
    BY <1>5, <2>1 DEF handleLockAcquireResponse, Arrives
  <2>3. UNCHANGED <<op, requests, barriers, held, phase>>
    BY <1>5 DEF handleLockAcquireResponse, program
  <2>4. QED
    BY <1>1, <2>1, <2>2, <2>3, ResponseStep
<1>6. ASSUME handleBarrierRequest(p, q, h)
      PROVE  Unseen
  <2>1. /\ net[q][p] # <<>> /\ h.type = "barrierRequest" /\ Listening(p)
        /\ net' = Taken(net, q, p) /\ counting' = counting \cup {"net"}
    BY <1>6 DEF handleBarrierRequest, Arrives
  <2>2. UNCHANGED <<op, channel, locks, barrier, respond, held, phase>>
    BY <1>6 DEF handleBarrierRequest, program
  <2>3. QED
    BY <1>1, <2>1, <2>2, RequestStep
<1>7. ASSUME handleBarrierResponse(p, q, h)
      PROVE  Unseen
  <2>1. /\ net[q][p] # <<>> /\ h.type = "barrierResponse"
        /\ net' = Taken(net, q, p) /\ Signal(p)
    BY <1>7 DEF handleBarrierResponse, Arrives
  <2>2. UNCHANGED <<op, locks, barriers, held, phase>>
    BY <1>7 DEF handleBarrierResponse, program
  <2>3. QED
    BY <1>1, <2>1, <2>2, ToldStep
<1>8. QED
  BY <1>1, <1>2, <1>3, <1>4, <1>5, <1>6, <1>7 DEF handleIncoming

-------------------------------------------------------------------------------
(* Theorems *)

LEMMA HostInit ==
  ASSUME Init
  PROVE  HostInv
<1>1. /\ op = [p \in Node |-> Idle] /\ channel = [p \in Node |-> 0]
      /\ net = [p \in Node |-> [q \in Node |-> <<>>]]
      /\ token = [l \in LockId |-> getManagerId] /\ locked = [l \in LockId |-> FALSE]
      /\ requests = [l \in LockId |-> {}] /\ held = [p \in Node |-> {}]
      /\ barrier = 0 /\ counting = {} /\ respond = Nobody /\ phase = [p \in Node |-> 0]
  BY DEF Init
<1>2. \A x, y \in Node : net[x][y] = <<>> /\ Len(net[x][y]) = 0
  BY <1>1
<1>3. /\ \A x, y \in Node : Messages(net, x, y) = {} /\ Single(net, x, y)
      /\ \A x, y \in Node : \A type : Of(net, x, y, type) = {}
  <2>1. \A x, y \in Node : Messages(net, x, y) = {} /\ Single(net, x, y)
    BY <1>2 DEF Messages, Single
  <2>2. QED
    BY <2>1 DEF Of
<1>4. \A p \in Node : Wakes(net, p) = {}
  <2>1. SUFFICES ASSUME NEW p \in Node, NEW x \in Wakes(net, p) PROVE FALSE
    OBVIOUS
  <2>2. x[1] \in Node /\ x[2] \in Node /\ x[3] \in Nat \ {0} /\ x[3] <= Len(net[x[1]][x[2]])
    BY DEF Wakes, Place
  <2>3. QED
    BY <1>2, <2>2
<1>5. \A p \in Node : op[p].pc = "idle"
  BY <1>1 DEF Idle
<1>6. NetInv
  <2>1. net \in Queues({})
    BY <1>1 DEF Queues
  <2>2. QED
    BY <2>1 DEF NetInv
<1>7. OpInv
  BY <1>1, <1>5 DEF OpInv, Sound, Faulting
<1>8. WakeInv
  <2>1. IsFiniteSet({}) /\ Cardinality({}) = 0
    BY FS_EmptySet
  <2>2. \A p \in Node : IsFiniteSet(Wakes(net, p)) /\ Cardinality(Wakes(net, p)) = 0
    BY <1>4, <2>1
  <2>3. \A p \in Node : Awaited(op[p]) = 0
    BY <1>5 DEF Awaited
  <2>4. \A p \in Node : Owed(p) = 0
    BY <1>1, <2>2 DEF Owed
  <2>5. channel \in [Node -> Nat] /\ \A p \in Node : Owed(p) <= Awaited(op[p])
    <3>1. channel \in [Node -> Nat]
      BY <1>1
    <3>2. \A p \in Node : Owed(p) <= Awaited(op[p])
      BY <2>3, <2>4
    <3>3. QED
      BY <3>1, <3>2
  <2>6. QED
    BY <2>2, <2>5 DEF WakeInv
<1>9. ReasonInv
  BY <1>3 DEF ReasonInv
<1>10. TokenInv
  <2>1. \A l \in LockId : \A p \in Node : ~Coming(l, p)
    BY <1>3 DEF Coming
  <2>2. QED
    BY <1>1, <1>3, <1>5, <2>1, ManagerIsNode DEF TokenInv
<1>11. RequestInv
  BY <1>1 DEF RequestInv
<1>12. ~Responding /\ \A p : ~Served(p)
  BY <1>1 DEF Responding, Served
<1>13. ManagerInv
  BY <1>1, <1>5, <1>12, ManagerIsNode DEF ManagerInv, Nobody
<1>14. ArrivalInv
  <2>1. Arrivals + Cardinality(counting) <= Cardinality(Arrived)
    <3>1. Arrivals = 0 /\ Cardinality(counting) = 0
      BY <1>1, <1>12, FS_EmptySet DEF Arrivals
    <3>2. QED
      BY <3>1, ArrivedFinite
  <2>2. QED
    BY <1>3, <1>12, <2>1 DEF ArrivalInv
<1>15. PhaseInv
  <2>1. Pending = {}
    BY <1>5 DEF Pending, Waits, InBarrier
  <2>2. QED
    BY <1>1, <2>1 DEF PhaseInv
<1>16. QED
  BY <1>6, <1>7, <1>8, <1>9, <1>10, <1>11, <1>13, <1>14, <1>15 DEF HostInv, CallInv, BarrierInv

\* The steps of a thread of the program that have to do with locks.
LockStep(p) == HaveLock(p) \/ \E l \in LockId : AcquireLock(p, l) \/ ReleaseLock(p, l)

\* Every other step keeps the invariant unseen by the programs.
LEMMA OtherKeeps ==
  ASSUME HostInv, Next, \A p \in Node : ~LockStep(p)
  PROVE  Unseen \/ (HostInv' /\ UNCHANGED <<op, held>>)
<1>1. ASSUME NEW p \in Node, Call(p)
      PROVE  Unseen
  BY <1>1, ReadKeeps, ReadBytesKeeps, WriteBytesKeeps, BarrierKeeps DEF Call, LockStep
<1>2. ASSUME NEW p \in Node, Continue(p)
      PROVE  Unseen
  BY <1>2, NextRoundKeeps, ReceiveCopyKeeps, SendDiffRequestsKeeps, SendDiffRequestKeeps,
     ReceiveDiffKeeps, ApplyDiffsKeeps, MakeTwinKeeps, SetRightsKeeps, StoreKeeps,
     LeaveBarrierKeeps
  DEF Continue, LockStep
<1>3. ASSUME NEW p \in Node, NEW q \in Node, handleIncoming(p, q)
      PROVE  Unseen \/ (HostInv' /\ UNCHANGED <<op, held>>)
  BY <1>3, HandleIncomingKeeps
<1>4. ASSUME NEW p \in Node, NEW l \in LockId, handleLockAcquireRequest(p, l)
      PROVE  HostInv' /\ UNCHANGED <<op, held>>
  BY <1>4, LockAcquireRequestKeeps DEF handleLockAcquireRequest, program
<1>5. ASSUME Manager
      PROVE  Unseen
  BY <1>5, CountKeeps, RespondStep, EndStep DEF Manager
<1>6. QED
  BY <1>1, <1>2, <1>3, <1>4, <1>5 DEF Next

LEMMA NextKeeps ==
  ASSUME HostInv, [Next]_vars
  PROVE  HostInv'
<1>1. CASE \E p \in Node : LockStep(p)
  BY <1>1, HaveLockKeeps, AcquireLockKeeps, ReleaseLockKeeps DEF LockStep
<1>2. CASE Next /\ \A p \in Node : ~LockStep(p)
  BY <1>2, OtherKeeps DEF Unseen
<1>3. CASE UNCHANGED vars
  <2>1. /\ op' = op /\ channel' = channel /\ net' = net /\ held' = held /\ phase' = phase
        /\ token' = token /\ locked' = locked /\ requests' = requests
        /\ barrier' = barrier /\ counting' = counting /\ respond' = respond
        /\ UNCHANGED <<locks, barriers>>
    BY <1>3 DEF vars, program, locks, barriers
  <2>2. NetInv /\ OpInv /\ WakeInv /\ ReasonInv /\ \A x, y \in Node : Single(net, x, y)
    BY DEF HostInv, CallInv, BarrierInv, ArrivalInv
  <2>3. \A q \in Node : Owed(q)' = Owed(q)
    BY <2>1 DEF Owed
  <2>4. NetInv' /\ OpInv' /\ WakeInv' /\ ReasonInv'
    BY <2>1, <2>2, <2>3, OpSame DEF NetInv, WakeInv, ReasonInv
  <2>5. LockFrame
    BY <2>1, <2>3 DEF LockFrame
  <2>6. BarrierFrame
    BY <2>1, <2>2, <2>3 DEF BarrierFrame, InBarrier
  <2>7. QED
    BY <2>4, <2>5, <2>6, Framed DEF Unseen
<1>4. QED
  BY <1>1, <1>2, <1>3

\* Wake-ups, tokens and barriers are accounted for: no thread is woken more
\* often than it waits, or by something else than it waits for (t.channel); a
\* token is at one host or under way to one that waits for it (haveToken); the
\* manager counts no more arrivals than there are (t.barrier).
THEOREM HostInvariance == Spec => []HostInv
<1>1. Init => HostInv
  BY HostInit
<1>2. HostInv /\ [Next]_vars => HostInv'
  BY NextKeeps
<1>3. QED
  BY <1>1, <1>2, PTL DEF Spec

\* Nobody passes a barrier before everybody has come to it (Barrier,
\* handleBarrierRequest, sendBarrierResponse).
THEOREM NobodyAheadCorrect == Spec => []NobodyAhead
<1>1. HostInv => NobodyAhead
  <2>1. SUFFICES ASSUME HostInv, NEW p \in Node, NEW q \in Node, ~InBarrier(p)
                 PROVE  phase[q] >= phase[p]
    BY DEF NobodyAhead
  <2>2. p \notin Pending
    BY <2>1 DEF Pending, Waits
  <2>3. /\ phase[p] \in Nat /\ phase[q] \in Nat
        /\ q \notin Pending => phase[p] = phase[q]
        /\ q \in Pending => phase[q] = phase[p] + 1
    BY <2>1, <2>2 DEF HostInv, BarrierInv, PhaseInv
  <2>4. QED
    BY <2>3
<1>2. QED
  BY <1>1, HostInvariance, PTL

\* Only the host that has a lock's token has a program inside the lock.
LEMMA TokenMeansFree ==
  ASSUME HostInv, NEW p \in Node, NEW l \in LockId, token[l] = p, l \notin held[p]
  PROVE  Service!Free(l)
<1>1. \A x \in Node : l \in held[x] => token[l] = x
  BY DEF HostInv, CallInv, TokenInv
<1>2. QED
  BY <1>1 DEF Service!Free

\* A step of the hosts is a step of the lock service or one that no program sees.
LEMMA ServiceStep ==
  ASSUME HostInv, [Next]_vars
  PROVE  [Service!Next]_(Service!vars)
<1>1. /\ OpInv /\ TokenInv
      /\ held \in [Node -> SUBSET LockId]
      /\ op = [p \in Node |-> op[p]]
      /\ \A x \in Node : x \in Nat
  <2>1. \A x \in Node : x \in Nat
    BY NrProcsAssumption DEF Node
  <2>2. QED
    BY <2>1 DEF HostInv, CallInv, TokenInv, OpInv
<1>2. ASSUME NEW p \in Node, HaveLock(p)
      PROVE  Service!Grant(p)
  <2>1. /\ op[p].pc = "lock" /\ channel[p] > 0 /\ op' = [op EXCEPT ![p] = Idle]
        /\ held' = [held EXCEPT ![p] = @ \cup {op[p].lock}]
    BY <1>2 DEF HaveLock, At, Received
  <2>2. /\ op[p].lock \in LockId /\ op[p].lock \notin held[p] /\ token[op[p].lock] = p
    BY <1>1, <2>1 DEF OpInv, Sound, TokenInv
  <2>3. Service!Free(op[p].lock)
    BY <2>2, TokenMeansFree
  <2>4. waitFor[p] = op[p].lock
    BY <2>1 DEF waitFor, At
  <2>5. waitFor' = [waitFor EXCEPT ![p] = NoLock]
    <3>1. op'[p].pc = "idle" /\ \A q \in Node : q # p => op'[q] = op[q]
      BY <1>1, <2>1 DEF Idle
    <3>2. QED
      BY <3>1 DEF waitFor, At
  <2>6. QED
    BY <2>1, <2>2, <2>3, <2>4, <2>5 DEF Service!Grant
<1>3. ASSUME NEW p \in Node, NEW l \in LockId, AcquireLock(p, l)
      PROVE  Service!Take(p, l) \/ Service!Block(p, l)
  <2>1. op[p].pc = "idle" /\ \A k \in held[p] : k < l
    BY <1>3 DEF AcquireLock, At
  <2>2. waitFor[p] = NoLock /\ Service!InOrder(p, l)
    BY <2>1 DEF waitFor, At, Service!InOrder
  <2>3. CASE token[l] = p
    <3>1. l \notin held[p]
      <4>1. l \in Nat /\ ~(l < l)
        BY LockIdAssumption
      <4>2. QED
        BY <2>1, <4>1
    <3>2. Service!Free(l)
      BY <2>3, <3>1, TokenMeansFree
    <3>3. held' = [held EXCEPT ![p] = @ \cup {l}] /\ op' = op
      BY <1>3, <2>3 DEF AcquireLock
    <3>4. waitFor' = waitFor
      BY <3>3 DEF waitFor, At
    <3>5. QED
      BY <2>2, <3>2, <3>3, <3>4 DEF Service!Take
  <2>4. CASE token[l] # p
    <3>1. op' = [op EXCEPT ![p] = [pc |-> "lock", lock |-> l]] /\ held' = held
      BY <1>3, <2>4 DEF AcquireLock
    <3>2. op'[p] = [pc |-> "lock", lock |-> l] /\ \A q \in Node : q # p => op'[q] = op[q]
      BY <1>1, <3>1
    <3>3. op'[p].pc = "lock" /\ op'[p].lock = l
      BY <3>2
    <3>4. waitFor' = [waitFor EXCEPT ![p] = l]
      BY <3>2, <3>3 DEF waitFor, At
    <3>5. QED
      BY <2>2, <3>1, <3>4 DEF Service!Block
  <2>5. QED
    BY <2>3, <2>4
<1>4. ASSUME NEW p \in Node, NEW l \in LockId, ReleaseLock(p, l)
      PROVE  Service!Release(p, l)
  <2>1. op[p].pc = "idle" /\ l \in held[p] /\ held' = [held EXCEPT ![p] = @ \ {l}] /\ op' = op
    BY <1>4 DEF ReleaseLock, At
  <2>2. waitFor[p] = NoLock /\ waitFor' = waitFor
    BY <2>1 DEF waitFor, At
  <2>3. QED
    BY <2>1, <2>2 DEF Service!Release
<1>5. ASSUME LockFrame
      PROVE  UNCHANGED <<waitFor, held>>
  <2>1. /\ held' = held
        /\ \A q \in Node : op[q].pc = "lock" => op'[q] = op[q]
        /\ \A q \in Node : op'[q].pc = "lock" => op[q].pc = "lock"
    BY <1>5 DEF LockFrame
  <2>2. QED
    BY <2>1 DEF waitFor, At
<1>6. ASSUME UNCHANGED <<op, held>>
      PROVE  UNCHANGED <<waitFor, held>>
  BY <1>6 DEF waitFor, At
<1>7. CASE \E p \in Node : LockStep(p)
  BY <1>2, <1>3, <1>4, <1>7 DEF LockStep, Service!Next
<1>8. CASE Next /\ \A p \in Node : ~LockStep(p)
  <2>1. UNCHANGED <<waitFor, held>>
    BY <1>5, <1>6, <1>8, OtherKeeps DEF Unseen
  <2>2. QED
    BY <2>1 DEF Service!vars
<1>9. CASE UNCHANGED vars
  <2>1. UNCHANGED <<op, held>>
    BY <1>9 DEF vars, program
  <2>2. QED
    BY <1>6, <2>1 DEF Service!vars
<1>10. QED
  BY <1>7, <1>8, <1>9

\* The hosts' locks implement the lock service (safety), with pages and
\* barriers sharing the threads and the channel that wakes them (AcquireLock,
\* ReleaseLock, handleLockAcquireRequest, handleLockAcquireResponse).
THEOREM ServiceCorrect == Spec => ServiceSteps
<1>1. Init => Service!Init
  <2>1. ASSUME Init
        PROVE  Service!Init
    <3>1. \A p \in Node : op[p].pc = "idle"
      BY <2>1 DEF Init, Idle
    <3>2. waitFor = [p \in Node |-> NoLock] /\ held = [p \in Node |-> {}]
      BY <2>1, <3>1 DEF waitFor, At, Init
    <3>3. QED
      BY <3>2 DEF Service!Init
  <2>2. QED
    BY <2>1
<1>2. HostInv /\ [Next]_vars => [Service!Next]_(Service!vars)
  BY ServiceStep
<1>3. QED
  BY <1>1, <1>2, HostInvariance, PTL DEF Spec, ServiceSteps, Service!Spec
===============================================================================
