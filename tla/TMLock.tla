-------------------------------- MODULE TMLock --------------------------------
(***************************************************************************)
(* The distributed locks of dsm-api/treadmarks/host.go.                    *)
(*                                                                         *)
(* Each lock has one token.  A node that has it locks without a message;   *)
(* any other node sends a request along its `last` pointer, the request is *)
(* forwarded until it meets the node that has (or will get) the token, and *)
(* that node remembers the requester as its `next` and passes the token on *)
(* when it unlocks.                                                        *)
(*                                                                         *)
(* Every node runs one application thread (AcquireLock, ReleaseLock) and   *)
(* one network thread (handleIncoming), which exclude each other with the  *)
(* mutex of the lock they work on; each critical region is one action.     *)
(* The connection delivers the messages of an ordered pair of nodes in     *)
(* the order they were sent, and merges the senders in any order.          *)
(*                                                                         *)
(* Passing a lock also passes knowledge: the sender closes its interval    *)
(* (newInterval) and the response carries the intervals the requester      *)
(* lacks.  Here a node's intervals are summarised by its timestamp, the    *)
(* least upper bound of the intervals it knows.                            *)
(***************************************************************************)
EXTENDS Timestamps, Sequences, FiniteSets

CONSTANTS
  Node,          \* the processes, 0 .. nrProcs-1
  LockId,        \* the locks, 0 .. nrLocks-1
  Manager,       \* getManagerId: the one node that owns every token at first
  NoNode,        \* a lock's next when its nextTimestamp is nil
  NoLock,        \* an application thread that waits for no lock
  MaxInterval    \* bound: intervals one node closes

ASSUME ManagerAssumption == Manager \in Node
ASSUME LockIdAssumption == LockId \subseteq Nat
ASSUME NoNodeAssumption == NoNode \notin Node
ASSUME NoLockAssumption == NoLock \notin LockId
ASSUME MaxIntervalAssumption == MaxInterval \in Nat

VARIABLES
  lock,          \* lock[p][l]: node p's record of lock l
  timestamp,     \* timestamp[p]: the intervals node p has seen
  dirty,         \* dirty[p]: node p wrote pages since its last interval
  net,           \* net[p][q]: messages from p that q has not handled yet
  channel,       \* channel[p]: t.channel holds a wake-up for p's application
  waitFor,       \* the lock p's application is blocked on in AcquireLock
  held,          \* the locks p's application is inside of
  released       \* history: the intervals that precede lock l's last release

vars == <<lock, timestamp, dirty, net, channel, waitFor, held, released>>

Timestamp == [Node -> Nat]

LockRecord == [locked : BOOLEAN, haveToken : BOOLEAN, last : Node,
               next : Node \cup {NoNode}]

Message ==
  [type : {"acquireRequest"}, From : Node, LockId : LockId]
    \cup [type : {"acquireResponse"}, LockId : LockId, Timestamp : Timestamp]

Request(p, l) == [type |-> "acquireRequest", From |-> p, LockId |-> l]
Response(l, ts) == [type |-> "acquireResponse", LockId |-> l, Timestamp |-> ts]

TypeOK ==
  /\ lock \in [Node -> [LockId -> LockRecord]]
  /\ timestamp \in [Node -> Timestamp]
  /\ dirty \in [Node -> BOOLEAN]
  /\ net \in [Node -> [Node -> Seq(Message)]]
  /\ channel \in [Node -> BOOLEAN]
  /\ waitFor \in [Node -> LockId \cup {NoLock}]
  /\ held \in [Node -> SUBSET LockId]
  /\ released \in [LockId -> Timestamp]

Init ==
  /\ lock = [p \in Node |-> [l \in LockId |->
               [locked |-> FALSE, haveToken |-> p = Manager,
                last |-> Manager, next |-> NoNode]]]
  /\ timestamp = [p \in Node |-> NewTimestamp(Node)]
  /\ dirty = [p \in Node |-> FALSE]
  /\ net = [p \in Node |-> [q \in Node |-> <<>>]]
  /\ channel = [p \in Node |-> FALSE]
  /\ waitFor = [p \in Node |-> NoLock]
  /\ held = [p \in Node |-> {}]
  /\ released = [l \in LockId |-> NewTimestamp(Node)]

-------------------------------------------------------------------------------
(* Helpers of the handlers *)

\* The network after node p sends m to q, and after p takes q's next message.
Sent(nw, p, q, m) == [nw EXCEPT ![p][q] = Append(@, m)]
Taken(nw, q, p) == [nw EXCEPT ![q][p] = Tail(@)]

\* newInterval: the timestamp of p once its dirty pages are in an interval.
Closed(p) == IF dirty[p] THEN increment(timestamp[p], p) ELSE timestamp[p]

newInterval(p) ==
  /\ timestamp' = [timestamp EXCEPT ![p] = Closed(p)]
  /\ dirty' = [dirty EXCEPT ![p] = FALSE]

Running(p) == waitFor[p] = NoLock

\* The record of a lock whose token ReleaseLock passes on.  (The variants are
\* mistakes that the properties below detect.)
HandedOver_last(r) == [r EXCEPT !.locked = FALSE, !.haveToken = FALSE,
                                !.last = NoNode, !.next = NoNode]
HandedOver_next(r) == [r EXCEPT !.locked = FALSE, !.haveToken = FALSE]
HandedOver_token(r) == [r EXCEPT !.locked = FALSE, !.next = NoNode]
HandedOver_locked(r) == [r EXCEPT !.haveToken = FALSE, !.next = NoNode]
HandedOver(r) == [r EXCEPT !.locked = FALSE, !.haveToken = FALSE, !.next = NoNode]

-------------------------------------------------------------------------------
(* The application thread *)

\* The application's first write to a page in an interval (onFault).
Write(p) ==
  /\ Running(p)
  /\ ~dirty[p]
  /\ timestamp[p][p] < MaxInterval
  /\ dirty' = [dirty EXCEPT ![p] = TRUE]
  /\ UNCHANGED <<lock, timestamp, net, channel, waitFor, held, released>>

\* A program that takes several locks takes them in one order: any lock
\* service deadlocks on programs that do not.
InOrder(p, l) == \A k \in held[p] : k < l

\* AcquireLock where the token is here.
AcquireLocal(p, l) ==
  /\ Running(p)
  /\ InOrder(p, l)
  /\ lock[p][l].haveToken
  /\ ~lock[p][l].locked
  /\ lock' = [lock EXCEPT ![p][l].locked = TRUE]
  /\ held' = [held EXCEPT ![p] = @ \cup {l}]
  /\ UNCHANGED <<timestamp, dirty, net, channel, waitFor, released>>

\* AcquireLock where it is not: send a request and block on t.channel.
AcquireRemote(p, l) ==
  /\ Running(p)
  /\ InOrder(p, l)
  /\ ~lock[p][l].haveToken
  /\ net' = Sent(net, p, lock[p][l].last, Request(p, l))
  /\ lock' = [lock EXCEPT ![p][l].last = p]
  /\ waitFor' = [waitFor EXCEPT ![p] = l]
  /\ UNCHANGED <<timestamp, dirty, channel, held, released>>

\* The application returns from <-t.channel, and so from AcquireLock.
Wake(p) ==
  /\ channel[p]
  /\ channel' = [channel EXCEPT ![p] = FALSE]
  /\ waitFor' = [waitFor EXCEPT ![p] = NoLock]
  /\ held' = [held EXCEPT ![p] = @ \cup {waitFor[p]}]
  /\ UNCHANGED <<lock, timestamp, dirty, net, released>>

ReleaseLock(p, l) ==
  /\ Running(p)
  /\ l \in held[p]
  /\ held' = [held EXCEPT ![p] = @ \ {l}]
  /\ released' = [released EXCEPT ![l] = Closed(p)]
  /\ IF lock[p][l].next # NoNode
     THEN /\ newInterval(p)
          /\ net' = Sent(net, p, lock[p][l].next, Response(l, Closed(p)))
          /\ lock' = [lock EXCEPT ![p][l] = HandedOver(@)]
     ELSE /\ lock' = [lock EXCEPT ![p][l].locked = FALSE]
          /\ UNCHANGED <<timestamp, dirty, net>>
  /\ UNCHANGED <<channel, waitFor>>

-------------------------------------------------------------------------------
(* The network thread *)

\* The message from q that p's network thread handles next.
Next1(q, p, type) == net[q][p] # <<>> /\ Head(net[q][p]).type = type

\* The token is here and free (or, by mistake, in use).
CanPass_used(p, l) == lock[p][l].haveToken
CanPass(p, l) == ~lock[p][l].locked /\ lock[p][l].haveToken

\* Pass the token to the requester.
PassToken(p, q) ==
  LET req == Head(net[q][p])
      l   == req.LockId
  IN /\ Next1(q, p, "acquireRequest")
     /\ CanPass(p, l)
     /\ newInterval(p)
     /\ net' = Sent(Taken(net, q, p), p, req.From, Response(l, Closed(p)))
     /\ lock' = [lock EXCEPT ![p][l] = [@ EXCEPT !.haveToken = FALSE,
                                                 !.last = req.From]]
     /\ UNCHANGED <<channel, waitFor, held, released>>

\* The node is inside the lock, or waits for it and is the last to do so.
AtTail(p, l) ==
  \/ lock[p][l].locked
  \/ ~lock[p][l].haveToken /\ lock[p][l].last = p

\* Nobody is to get the token after this node yet (nextTimestamp is nil).
NextFree_always(p, l) == TRUE
NextFree(p, l) == lock[p][l].next = NoNode

\* Remember the requester as the next one to get the token.
Enqueue(p, q) ==
  LET req == Head(net[q][p])
      l   == req.LockId
  IN /\ Next1(q, p, "acquireRequest")
     /\ AtTail(p, l)
     /\ NextFree(p, l)
     /\ net' = Taken(net, q, p)
     /\ lock' = [lock EXCEPT ![p][l] = [@ EXCEPT !.next = req.From,
                                                 !.last = req.From]]
     /\ UNCHANGED <<timestamp, dirty, channel, waitFor, held, released>>

\* Send the request on along `last`; the requester is the last one now.
Forward(p, q) ==
  LET req == Head(net[q][p])
      l   == req.LockId
  IN /\ Next1(q, p, "acquireRequest")
     /\ IF AtTail(p, l) THEN ~NextFree(p, l)
                        ELSE ~lock[p][l].haveToken
     /\ net' = Sent(Taken(net, q, p), p, lock[p][l].last, req)
     /\ lock' = [lock EXCEPT ![p][l].last = req.From]
     /\ UNCHANGED <<timestamp, dirty, channel, waitFor, held, released>>

handleLockAcquireRequest(p, q) == PassToken(p, q) \/ Enqueue(p, q) \/ Forward(p, q)

\* The token arrives: close the own interval, add those of the response,
\* lock on behalf of the application and wake it.
handleLockAcquireResponse(p, q) ==
  LET resp == Head(net[q][p])
      l    == resp.LockId
  IN /\ Next1(q, p, "acquireResponse")
     /\ timestamp' = [timestamp EXCEPT ![p] = merge(Closed(p), resp.Timestamp)]
     /\ dirty' = [dirty EXCEPT ![p] = FALSE]
     /\ lock' = [lock EXCEPT ![p][l] = [@ EXCEPT !.locked = TRUE,
                                                 !.haveToken = TRUE]]
     /\ channel' = [channel EXCEPT ![p] = TRUE]
     /\ net' = Taken(net, q, p)
     /\ UNCHANGED <<waitFor, held, released>>

-------------------------------------------------------------------------------
Application(p) ==
  \/ Write(p)
  \/ Wake(p)
  \/ \E l \in LockId : AcquireLocal(p, l) \/ AcquireRemote(p, l) \/ ReleaseLock(p, l)

handleIncoming(p, q) == handleLockAcquireRequest(p, q) \/ handleLockAcquireResponse(p, q)

Next ==
  \/ \E p \in Node : Application(p)
  \/ \E p, q \in Node : handleIncoming(p, q)

Spec == Init /\ [][Next]_vars

\* The goroutines are scheduled and the connection delivers (TCP), and a
\* program leaves every critical section it entered, however many other locks
\* it takes inside (hence strong fairness).  Nothing makes it acquire or write.
Fairness ==
  /\ \A p, q \in Node : WF_vars(handleIncoming(p, q))
  /\ \A p \in Node : WF_vars(Wake(p))
  /\ \A p \in Node : \A l \in LockId : SF_vars(ReleaseLock(p, l))

FairSpec == Spec /\ Fairness

-------------------------------------------------------------------------------
(* Properties *)

\* Two programs are never inside one lock (AcquireLock, ReleaseLock).
MutualExclusion ==
  \A l \in LockId : \A p, q \in Node :
    l \in held[p] /\ l \in held[q] => p = q

\* The messages in the network: <<q, p, i>> is the i-th from q to p.
Places ==
  UNION {{<<q, p, i>> : i \in DOMAIN net[q][p]} : q, p \in Node}

At(Is(_)) == {x \in Places : Is(net[x[1]][x[2]][x[3]])}

Tokens(l) ==
  {<<p>> : p \in {n \in Node : lock[n][l].haveToken}}
    \cup At(LAMBDA m : m.type = "acquireResponse" /\ m.LockId = l)

\* A lock's token is at one node or in one message, whatever requests,
\* releases and responses are under way: it is neither lost nor copied.
OneToken == \A l \in LockId : Cardinality(Tokens(l)) = 1

\* The places where p's pending acquisition of l is recorded: a request on
\* its way, the next field of a node, a response to p, a wake-up of p.
Claims(p, l) ==
  At(LAMBDA m : m = Request(p, l))
    \cup {<<q>> : q \in {n \in Node : lock[n][l].next = p}}
    \cup {x \in At(LAMBDA m : m.type = "acquireResponse" /\ m.LockId = l) : x[2] = p}
    \cup (IF channel[p] /\ waitFor[p] = l THEN {<<>>} ELSE {})

\* A blocked AcquireLock is known to exactly one place, and no place knows of
\* an acquisition nobody waits for: handlers neither drop a request (by
\* overwriting next), nor answer it twice, nor wake the wrong call.
OneClaim ==
  \A p \in Node : \A l \in LockId :
    Cardinality(Claims(p, l)) = IF waitFor[p] = l THEN 1 ELSE 0

\* The panic "locking lock twice" of AcquireLock is not reachable for a
\* program that does not itself lock twice.
NoDoubleLock ==
  \A p \in Node : \A l \in LockId :
    Running(p) /\ l \notin held[p] => ~lock[p][l].locked

\* Whoever is inside a lock has seen every interval written before the lock's
\* latest release: the promise of release consistency.
ReleaseVisible ==
  \A l \in LockId : \A p \in Node :
    l \in held[p] => covers(Closed(p), released[l])

\* The protocol implements the lock service: every step is a step of the
\* service or changes nothing a program sees; and every blocked program that
\* the service promises to grant a lock is granted it.
Service == INSTANCE LockService
ServiceSteps == Service!Spec
ImplementsService == Service!FairSpec
===============================================================================
