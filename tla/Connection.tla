------------------------------ MODULE Connection ------------------------------
(***************************************************************************)
(* The peer-to-peer network of network/connection.go.                      *)
(*                                                                         *)
(* The first host starts alone.  Every other one dials it, is told its id  *)
(* (the length of the first host's list of peers) and the addresses of the *)
(* hosts before it, and dials those.  A host has goroutines that run at    *)
(* the same time and share its list of peers without a lock: listen        *)
(* accepts one dial after the other, Connect joins, sendLoop sends what    *)
(* the channel out has, and a receive goroutine for each peer puts what    *)
(* comes into the channel in.                                              *)
(*                                                                         *)
(* sendLoop gives a message for an id beyond its list of peers to a        *)
(* goroutine that puts it back half a second later.  The goroutine refers  *)
(* to the loop's variable msg, which is one variable for all messages (the *)
(* repository predates Go 1.22): it puts back what the loop has in hand by *)
(* then, whose first byte is 1 if it has been written to a peer.           *)
(*                                                                         *)
(* addPeer lets the list grow before it sets the new entry.  If sendLoop   *)
(* takes the entry in between, its host's process ends, and the model with *)
(* it: what happens to those that are connected to that host is left out.  *)
(*                                                                         *)
(* An address is the host it leads to, a connection the pair of its ends.  *)
(* An id is a byte of a message, so that there are at most 256 hosts.      *)
(* The network is in time: no read deadline passes within a message.       *)
(***************************************************************************)
EXTENDS Integers, Sequences, FiniteSets

CONSTANTS
  Host,       \* the processes
  First,      \* the one the others dial
  Nil,        \* an entry without a peer, no host
  MaxSends,   \* bound: messages the programs send
  Overlap,    \* whether hosts join at the same time
  Eager       \* whether a program sends while a message waits to be put back

ASSUME FirstAssumption == First \in Host /\ Nil \notin Host /\ IsFiniteSet(Host)
ASSUME IdAssumption == Cardinality(Host) <= 256
ASSUME BoundAssumption == MaxSends \in Nat
ASSUME RaceAssumption == {Overlap, Eager} \subseteq BOOLEAN

VARIABLES
  at,         \* at[h]: how far h's Connect is
  myId,       \* myId[h]
  peers,      \* peers[h]: the list of peers, from id 0 on
  todo,       \* todo[h]: what Connect has left of the reply
  backlog,    \* backlog[h]: the dials h's listener has not accepted
  adding,     \* adding[h]: the host and its id that h's addHost has yet to add
  receiving,  \* receiving[h]: the goroutines receive, by host and id
  wire,       \* wire[g][h]: what is on its way from g to h
  out, in,    \* the channels of h
  msg,        \* msg[h]: the variable msg of sendLoop
  retries,    \* retries[h]: how many goroutines will put a message back
  sends,      \* how many messages the programs have sent
  ended       \* a process has ended

joining == <<at, myId, peers, todo, backlog, adding, receiving>>
sending == <<out, msg, retries, sends>>
vars == <<joining, wire, in, sending, ended>>

Id == 0 .. Cardinality(Host) - 1
Body == 1 .. MaxSends
NoEntry == [id |-> 0, host |-> Nil]
NoMsg == [to |-> 0, body |-> 0]

Init ==
  /\ at = [h \in Host |-> IF h = First THEN "joined" ELSE "off"]
  /\ myId = [h \in Host |-> 0]
  /\ peers = [h \in Host |-> [i \in {0} |-> Nil]]
  /\ todo = [h \in Host |-> <<>>]
  /\ backlog = [h \in Host |-> <<>>]
  /\ adding = [h \in Host |-> NoEntry]
  /\ receiving = [h \in Host |-> {}]
  /\ wire = [g \in Host |-> [h \in Host |-> <<>>]]
  /\ in = [h \in Host |-> <<>>]
  /\ out = [h \in Host |-> <<>>]
  /\ msg = [h \in Host |-> NoMsg]
  /\ retries = [h \in Host |-> 0]
  /\ sends = 0
  /\ ended = FALSE

Running == ~ended /\ UNCHANGED ended

-------------------------------------------------------------------------------
(* The list of peers *)

NumPeers(h) == Cardinality(DOMAIN peers[h])

\* addPeer: the list grows to hold the id, with nil in between.
WithPeer(ps, id, g) ==
  [i \in DOMAIN ps \cup 0 .. id |-> IF i = id THEN g
                                    ELSE IF i \in DOMAIN ps THEN ps[i] ELSE Nil]

\* A goroutine receive for one more peer.
Receiving_not(h, e) == receiving
Receiving(h, e) == [receiving EXCEPT ![h] = @ \cup {e}]

\* A connection carries whole messages, in order: write and read.
Put(g, h, m) == wire' = [wire EXCEPT ![g][h] = Append(@, m)]
Got(g, h) == wire' = [wire EXCEPT ![g][h] = Tail(@)]

-------------------------------------------------------------------------------
(* Joining: Connect of the new host *)

\* It dials the first host and asks for an id.
Dial(h) ==
  /\ at[h] = "off"
  /\ Overlap \/ \A g \in Host : at[g] \in {"off", "joined"}
  /\ at' = [at EXCEPT ![h] = "asked"]
  /\ backlog' = [backlog EXCEPT ![First] = Append(@, h)]
  /\ Put(h, First, [type |-> "hello", id |-> 0])
  /\ UNCHANGED <<myId, peers, todo, adding, receiving, in, sending>>

\* It reads the reply and makes its list of peers anew.
NewPeers_longer(id) == [i \in 0 .. id + 1 |-> Nil]
NewPeers(id) == [i \in 0 .. id |-> Nil]

ReadReply(h) ==
  LET m == Head(wire[First][h])
  IN /\ at[h] = "asked"
     /\ wire[First][h] # <<>>
     /\ at' = [at EXCEPT ![h] = "dialling"]
     /\ myId' = [myId EXCEPT ![h] = m.id]
     /\ peers' = [peers EXCEPT ![h] = WithPeer(NewPeers(m.id), m.other, First)]
     /\ todo' = [todo EXCEPT ![h] = m.list]
     /\ Got(First, h)
     /\ UNCHANGED <<backlog, adding, receiving, in, sending>>

\* It dials the next host of the reply.
DialPeer(h) ==
  LET e == Head(todo[h])
  IN /\ at[h] = "dialling"
     /\ todo[h] # <<>>
     /\ todo' = [todo EXCEPT ![h] = Tail(@)]
     /\ backlog' = [backlog EXCEPT ![e.host] = Append(@, h)]
     /\ Put(h, e.host, [type |-> "hello", id |-> myId[h]])
     /\ peers' = [peers EXCEPT ![h] = WithPeer(@, e.id, e.host)]
     /\ receiving' = Receiving(h, e)
     /\ UNCHANGED <<at, myId, adding, in, sending>>

\* It starts to receive from the first host, and Connect returns.
Connected(h) ==
  /\ at[h] = "dialling"
  /\ todo[h] = <<>>
  /\ at' = [at EXCEPT ![h] = "joined"]
  /\ receiving' = Receiving(h, [id |-> 0, host |-> First])
  /\ UNCHANGED <<myId, peers, todo, backlog, adding, wire, in, sending>>

-------------------------------------------------------------------------------
(* Joining: listen and addHost of a host that is dialled *)

\* The ids and addresses of the peers in their order, without the host itself.
PeerList(h) ==
  [k \in 1 .. NumPeers(h) - 1 |->
    LET i == IF k <= myId[h] THEN k - 1 ELSE k IN [id |-> i, host |-> peers[h][i]]]

\* The id of a host that has none.
NextId_again(h) == NumPeers(h) - 1
NextId(h) == NumPeers(h)

\* It reads the message of the host that dialled, and answers one that has no
\* id yet.
AddHost(h) ==
  LET g  == Head(backlog[h])
      m  == Head(wire[g][h])
      id == IF m.id = 0 THEN NextId(h) ELSE m.id
      reply == [type |-> "reply", id |-> id, other |-> myId[h], list |-> PeerList(h)]
  IN /\ adding[h] = NoEntry
     /\ backlog[h] # <<>>
     /\ backlog' = [backlog EXCEPT ![h] = Tail(@)]
     /\ adding' = [adding EXCEPT ![h] = [id |-> id, host |-> g]]
     /\ wire' = [wire EXCEPT ![g][h] = Tail(@),
                             ![h][g] = IF m.id = 0 THEN Append(@, reply) ELSE @]
     /\ UNCHANGED <<at, myId, peers, todo, receiving, in, sending>>

\* addPeer, called by addHost: the list grows, with nil for the new peer, ...
Grown(h) == adding[h] # NoEntry /\ adding[h].id < NumPeers(h)

Grow(h) ==
  /\ adding[h] # NoEntry
  /\ ~Grown(h)
  /\ peers' = [peers EXCEPT ![h] = WithPeer(@, adding[h].id, Nil)]
  /\ UNCHANGED <<at, myId, todo, backlog, adding, receiving, wire, in, sending>>

\* ... and then the entry is set.  addHost starts to receive from the peer.
AddHostEnds(h) ==
  LET e == adding[h]
  IN /\ Grown(h)
     /\ adding' = [adding EXCEPT ![h] = NoEntry]
     /\ peers' = [peers EXCEPT ![h] = WithPeer(@, e.id, e.host)]
     /\ receiving' = Receiving(h, e)
     /\ UNCHANGED <<at, myId, todo, backlog, wire, in, sending>>

-------------------------------------------------------------------------------
(* Sending and receiving *)

\* A message for which sendLoop has no place in its list of peers yet.
Early(h, m) == m.to # myId[h] /\ m.to >= NumPeers(h)

\* A program that has joined sends.
Send(h, id) ==
  /\ at[h] = "joined"
  /\ sends < MaxSends
  /\ Eager \/ (retries[h] = 0 /\ \A i \in DOMAIN out[h] : ~Early(h, out[h][i]))
  /\ sends' = sends + 1
  /\ out' = [out EXCEPT ![h] = Append(@, [to |-> id, body |-> sends + 1])]
  /\ UNCHANGED <<joining, wire, in, msg, retries>>

\* sendLoop takes a message from out: for the host itself, ...
SendToSelf(h) ==
  LET m == Head(out[h])
  IN /\ out[h] # <<>>
     /\ m.to = myId[h]
     /\ in' = [in EXCEPT ![h] = Append(@, [from |-> m.to, body |-> m.body])]
     /\ out' = [out EXCEPT ![h] = Tail(@)]
     /\ msg' = [msg EXCEPT ![h] = m]
     /\ UNCHANGED <<joining, wire, retries, sends>>

\* ... for a host that is not known yet, ...
SendLater(h) ==
  LET m == Head(out[h])
  IN /\ out[h] # <<>>
     /\ Early(h, m)
     /\ out' = [out EXCEPT ![h] = Tail(@)]
     /\ msg' = [msg EXCEPT ![h] = m]
     /\ retries' = [retries EXCEPT ![h] = @ + 1]
     /\ UNCHANGED <<joining, wire, in, sends>>

\* ... or for a peer, with 1 for its first byte.
SendToPeer(h) ==
  LET m == Head(out[h])
  IN /\ out[h] # <<>>
     /\ m.to # myId[h]
     /\ ~Early(h, m)
     /\ peers[h][m.to] # Nil
     /\ Put(h, peers[h][m.to], [type |-> "data", body |-> m.body])
     /\ out' = [out EXCEPT ![h] = Tail(@)]
     /\ msg' = [msg EXCEPT ![h] = [m EXCEPT !.to = 1]]
     /\ UNCHANGED <<joining, in, retries, sends>>

\* An entry that is nil has no connection: the process ends.
SendToNil(h) ==
  LET m == Head(out[h])
  IN /\ out[h] # <<>>
     /\ m.to # myId[h]
     /\ ~Early(h, m)
     /\ peers[h][m.to] = Nil
     /\ ended' = TRUE
     /\ UNCHANGED <<joining, wire, in, sending>>

\* Half a second later: the goroutine puts back what msg is by now.
PutBack(h) ==
  /\ retries[h] > 0
  /\ retries' = [retries EXCEPT ![h] = @ - 1]
  /\ out' = [out EXCEPT ![h] = Append(@, msg[h])]
  /\ UNCHANGED <<joining, wire, in, msg, sends>>

\* receive: the message gets the id of the peer it came from.
Stamped_not(e, m) == [from |-> 1, body |-> m.body]
Stamped(e, m) == [from |-> e.id, body |-> m.body]

Receive(h, e) ==
  /\ wire[e.host][h] # <<>>
  /\ in' = [in EXCEPT ![h] = Append(@, Stamped(e, Head(wire[e.host][h])))]
  /\ Got(e.host, h)
  /\ UNCHANGED <<joining, sending>>

-------------------------------------------------------------------------------
Joins(h) == Running /\ (Dial(h) \/ ReadReply(h) \/ DialPeer(h) \/ Connected(h))
Listens(h) == Running /\ (AddHost(h) \/ Grow(h) \/ AddHostEnds(h))
sendLoop(h) ==
  \/ Running /\ (SendToSelf(h) \/ SendLater(h) \/ SendToPeer(h))
  \/ ~ended /\ SendToNil(h)
PutsBack(h) == Running /\ PutBack(h)
Receives(h, e) == Running /\ Receive(h, e)

Next ==
  \E h \in Host :
    \/ Joins(h) \/ Listens(h) \/ sendLoop(h) \/ PutsBack(h)
    \/ \E id \in Id : Running /\ Send(h, id)
    \/ \E e \in receiving[h] : Receives(h, e)

Spec == Init /\ [][Next]_vars

\* Every goroutine is scheduled, and every host joins.
Fairness ==
  \A h \in Host :
    /\ WF_vars(Joins(h)) /\ WF_vars(Listens(h))
    /\ WF_vars(sendLoop(h)) /\ WF_vars(PutsBack(h))
    /\ \A g \in Host : WF_vars(\E e \in receiving[h] : e.host = g /\ Receives(h, e))

FairSpec == Spec /\ Fairness

-------------------------------------------------------------------------------
(* Properties *)

\* A message that the program has given to h and that h has not written yet.
Unwritten(h) ==
  (IF retries[h] > 0 THEN <<msg[h]>> ELSE <<>>) \o out[h]

\* The id of a host is decided when the reply with it is on its way.
HasId(h) == h = First \/ at[h] \in {"dialling", "joined"} \/ wire[First][h] # <<>>
IdOf(h) == IF at[h] = "asked" THEN Head(wire[First][h]).id ELSE myId[h]

\* The bodies that wait between two hosts, in order.
Waiting(g, h) ==
  LET data == SelectSeq(wire[g][h], LAMBDA m : m.type = "data")
  IN [k \in DOMAIN data |-> data[k].body]

ToId(h, j) ==
  LET ms == SelectSeq(Unwritten(h), LAMBDA m : m.to = j)
  IN [k \in DOMAIN ms |-> ms[k].body]

HostsOf(i) == {h \in Host : HasId(h) /\ IdOf(h) = i}
HostOf(i) == CHOOSE h \in HostsOf(i) : TRUE

queue ==
  [i \in Id |-> [j \in Id |->
    IF HostsOf(i) = {} THEN <<>>
    ELSE (IF HostsOf(j) = {} THEN <<>> ELSE Waiting(HostOf(i), HostOf(j)))
           \o ToId(HostOf(i), j)]]

got == [j \in Id |-> IF HostsOf(j) = {} THEN <<>> ELSE in[HostOf(j)]]

\* What a program sends to an id comes to the host with that id, once, in
\* order and with the id of its sender, although the id may belong to nobody
\* yet when it is sent and the lists of peers change while it is under way.
Service == INSTANCE Channels WITH Id <- Id, Body <- Body, queue <- queue, got <- got

ImplementsChannels == Service!Spec

\* Every message comes in the end, when all hosts have joined: none stays with
\* a goroutine, in out or on the wire, unless a process ends.
Delivered == <>[](ended \/ queue = [i \in Id |-> [j \in Id |-> <<>>]])

\* No host is joining or being added.
Settled ==
  \A h \in Host : at[h] = "joined" /\ backlog[h] = <<>> /\ adding[h] = NoEntry

\* When everybody has joined, ids are unique and every host has every other
\* one at its id in its list of peers.  Comment (connection.go:192):
\* "If the ID is different from 0, the host has already joined the network,
\* and should just be added to our list of peers".
PeersComplete ==
  Settled => \A g, h \in Host : g # h =>
    /\ myId[g] # myId[h]
    /\ myId[g] < NumPeers(h)
    /\ peers[h][myId[g]] = g

\* A process ends only if sendLoop runs between the two assignments of an
\* addPeer of its own host and takes a message for the host that is being
\* added, whatever joins and messages came before.
EndsOnlyInAddPeer ==
  [][ended' # ended =>
       \E h \in Host : Grown(h) /\ out[h] # <<>> /\ Head(out[h]).to = adding[h].id]_vars
===============================================================================
