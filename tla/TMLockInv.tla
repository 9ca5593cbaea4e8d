------------------------------- MODULE TMLockInv ------------------------------
(***************************************************************************)
(* The inductive invariant behind the safety properties of TMLock.  TLC    *)
(* checks it on small instances, TMLock_proofs proves it.                  *)
(*                                                                         *)
(* It speaks of messages in the network only through two predicates on     *)
(* sets of deliveries, a delivery being a message on its way to a node, so *)
(* that the proof needs to know of the queues only what taking a message   *)
(* and sending one do to these predicates.  S[n] is the set of messages to *)
(* n that belong to the set of deliveries S.                               *)
(***************************************************************************)
EXTENDS TMLock

Network == [Node -> [Node -> Seq(Message)]]

\* Some message in nw is one of the deliveries in S.
Has(nw, S) ==
  \E q, n \in Node : \E i \in 1 .. Len(nw[q][n]) : nw[q][n][i] \in S[n]

\* At most one message in nw is.
One(nw, S) ==
  \A q1, q2, n1, n2 \in Node :
    \A i \in 1 .. Len(nw[q1][n1]) : \A j \in 1 .. Len(nw[q2][n2]) :
      nw[q1][n1][i] \in S[n1] /\ nw[q2][n2][j] \in S[n2]
        => q1 = q2 /\ n1 = n2 /\ i = j

\* The requests of p for l, and the responses to p about l.
Claim(p, l) ==
  [n \in Node |-> {m \in Message :
     /\ m.LockId = l
     /\ \/ m.type = "acquireRequest" /\ m.From = p
        \/ m.type = "acquireResponse" /\ n = p}]

AnyClaim(p) ==
  [n \in Node |-> {m \in Message :
     \/ m.type = "acquireRequest" /\ m.From = p
     \/ m.type = "acquireResponse" /\ n = p}]

\* The messages that carry l's token, and those that carry it with a
\* timestamp older than l's last release.
Token(l) ==
  [n \in Node |-> {m \in Message : m.type = "acquireResponse" /\ m.LockId = l}]

StaleToken(l) ==
  [n \in Node |-> {m \in Message :
     /\ m.type = "acquireResponse" /\ m.LockId = l
     /\ ~covers(m.Timestamp, released[l])}]

\* An application waits for a lock it is not in, and is woken only from
\* such a wait.
WaitInv ==
  \A p \in Node : /\ waitFor[p] \notin held[p]
                  /\ channel[p] => waitFor[p] \in LockId

\* A pending acquisition is in one place: a message, a next field, a wake-up.
ClaimInv ==
  \A p \in Node :
    /\ One(net, AnyClaim(p))
    /\ \A n, m \in Node : \A l, k \in LockId :
         lock[n][l].next = p /\ lock[m][k].next = p => n = m /\ l = k
    /\ \A n \in Node : \A l \in LockId : lock[n][l].next = p =>
         waitFor[p] = l /\ ~channel[p] /\ ~Has(net, AnyClaim(p))
    /\ channel[p] => ~Has(net, AnyClaim(p))
    /\ \A l \in LockId : Has(net, Claim(p, l)) => waitFor[p] = l

\* A token is in one place: a node or a message.
TokenInv ==
  \A l \in LockId :
    /\ One(net, Token(l))
    /\ \A p \in Node : lock[p][l].haveToken => ~Has(net, Token(l))
    /\ \A p, q \in Node : lock[p][l].haveToken /\ lock[q][l].haveToken => p = q

\* Only the node with the token is locked, and it is locked for its
\* application or for the one that is about to wake up.
LockedInv ==
  \A p \in Node : \A l \in LockId :
    /\ lock[p][l].locked => lock[p][l].haveToken
    /\ l \in held[p] => lock[p][l].locked
    /\ channel[p] /\ waitFor[p] = l => lock[p][l].locked
    /\ lock[p][l].locked => l \in held[p] \/ (channel[p] /\ waitFor[p] = l)

\* A token travels with the knowledge of the lock's last release.
ReleasedInv ==
  \A l \in LockId :
    /\ ~Has(net, StaleToken(l))
    /\ \A p \in Node : lock[p][l].haveToken => covers(Closed(p), released[l])

IInv ==
  /\ TypeOK
  /\ WaitInv
  /\ ClaimInv
  /\ TokenInv
  /\ LockedInv
  /\ ReleasedInv
===============================================================================
