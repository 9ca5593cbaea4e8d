--------------------------- MODULE Connection_proofs ---------------------------
(***************************************************************************)
(* Hosts that join one after the other know each other: PeersComplete and  *)
(* EndsOnlyInAddPeer of Connection, for any hosts and messages.            *)
(*                                                                         *)
(* What one host knows depends on what the others have in their backlogs,  *)
(* in replies and in lists that a joining host has yet to dial.  The       *)
(* invariant relates all of these to the number of ids that the first host *)
(* has given.                                                              *)
(***************************************************************************)
EXTENDS Connection, FiniteSetTheorems, TLAPS

-------------------------------------------------------------------------------
(* The inductive invariant *)

Entry == [id : Nat, host : Host]
Envelope == [to : Nat, body : Nat]
Message ==
  [type : {"hello"}, id : Nat]
    \cup [type : {"reply"}, id : Nat, other : Nat, list : Seq(Entry)]
    \cup [type : {"data"}, body : Nat]

TypeInv ==
  /\ at \in [Host -> {"off", "asked", "dialling", "joined"}]
  /\ myId \in [Host -> Nat]
  /\ peers = [h \in Host |-> peers[h]]
  /\ \A h \in Host : NumPeers(h) \in Nat \ {0}
                      /\ peers[h] \in [0 .. NumPeers(h) - 1 -> Host \cup {Nil}]
  /\ todo \in [Host -> Seq(Entry)]
  /\ backlog \in [Host -> Seq(Host)]
  /\ adding \in [Host -> Entry \cup {NoEntry}]
  /\ receiving \in [Host -> SUBSET Entry]
  /\ wire \in [Host -> [Host -> Seq(Message)]]
  /\ out \in [Host -> Seq(Envelope)]
  /\ msg \in [Host -> Envelope]
  /\ retries \in [Host -> Nat]
  /\ sends \in Nat

\* One host at a time joins, and nobody dials it or sends for it before it has.
JoinInv ==
  /\ at[First] = "joined" /\ myId[First] = 0
  /\ \A g, h \in Host :
       at[g] \in {"asked", "dialling"} /\ at[h] \in {"asked", "dialling"} => g = h
  /\ \A h \in Host : at[h] \in {"off", "asked"} =>
       myId[h] = 0 /\ NumPeers(h) = 1 /\ receiving[h] = {}
  /\ \A h \in Host : at[h] # "joined" =>
       backlog[h] = <<>> /\ adding[h] = NoEntry /\ out[h] = <<>> /\ retries[h] = 0

\* The id after those that h has in its list or is about to add, and the one
\* after those that the first host has given.
Expects(h) == IF adding[h] = NoEntry THEN NumPeers(h) ELSE adding[h].id + 1
Given == Expects(First)

\* An id belongs to one host, and a joining host has the last one.
IdInv ==
  /\ \A h \in Host : HasId(h) =>
       IdOf(h) \in 0 .. Given - 1 /\ (IdOf(h) = 0 <=> h = First)
  /\ \A g, h \in Host : HasId(g) /\ HasId(h) /\ IdOf(g) = IdOf(h) => g = h
  /\ \A h \in Host : HasId(h) /\ at[h] # "joined" => IdOf(h) = Given - 1

\* The hosts with smaller ids are those that a joining host has dialled.
Dialled(h) == IF at[h] = "asked" THEN 1 ELSE myId[h] - Len(todo[h])

\* s is the list of the hosts with the ids from i on.
HostsFrom(s, i) ==
  \A k \in 1 .. Len(s) :
    s[k].id = i + k - 1 /\ at[s[k].host] = "joined" /\ myId[s[k].host] = s[k].id

\* A joining host is told of all hosts that have joined before it.
ReplyInv ==
  /\ \A h \in Host : at[h] = "asked" /\ wire[First][h] # <<>> =>
       LET m == Head(wire[First][h])
       IN m.type = "reply" /\ m.other = 0 /\ Len(m.list) = m.id - 1 /\ HostsFrom(m.list, 1)
  /\ \A h \in Host : at[h] = "dialling" =>
       /\ Len(todo[h]) < myId[h] /\ HostsFrom(todo[h], Dialled(h))
       /\ NumPeers(h) = myId[h] + 1

\* An entry of a list of peers is the host with that id, and all entries below
\* those that are still to be dialled or to be set are there.
PeerInv ==
  /\ \A h \in Host : \A i \in 0 .. NumPeers(h) - 1 : peers[h][i] # Nil =>
       HasId(peers[h][i]) /\ IdOf(peers[h][i]) = i /\ i # myId[h]
  /\ \A h \in Host : \A i \in 0 .. NumPeers(h) - 1 :
       at[h] = "joined" /\ i # myId[h] /\ ~(Grown(h) /\ i = adding[h].id)
         => peers[h][i] # Nil
  /\ \A h \in Host : \A i \in 0 .. Dialled(h) - 1 : at[h] = "dialling" =>
       peers[h][i] # Nil
  /\ \A h \in Host : at[h] = "joined" => myId[h] < NumPeers(h)

\* The host that is being added is the next one.
AddInv ==
  \A h \in Host : adding[h] # NoEntry =>
    /\ HasId(adding[h].host) /\ IdOf(adding[h].host) = adding[h].id
    /\ adding[h].id # myId[h] /\ adding[h].id \in {NumPeers(h) - 1, NumPeers(h)}

\* A dial that was not accepted comes with its greeting.  At the first host it
\* is of a host without an id, at others of the hosts with the next ids, ...
Hello(g, h) == [type |-> "hello", id |-> IF h = First THEN 0 ELSE myId[g]]

BacklogInv ==
  /\ \A h \in Host : \A k \in 1 .. Len(backlog[h]) :
       wire[backlog[h][k]][h] # <<>> /\ Head(wire[backlog[h][k]][h]) = Hello(backlog[h][k], h)
  /\ \A k \in 1 .. Len(backlog[First]) :
       k = 1 /\ at[backlog[First][k]] = "asked" /\ ~HasId(backlog[First][k])
  /\ \A h \in Host \ {First} : \A k \in 1 .. Len(backlog[h]) :
       /\ at[backlog[h][k]] \in {"dialling", "joined"}
       /\ myId[backlog[h][k]] = Expects(h) + k - 1

\* ... and nobody is left out who has dialled.
Undialled(h) == \E j \in Host : at[j] # "joined" /\ HasId(j) /\ myId[h] >= Dialled(j)

CountInv ==
  \A h \in Host \ {First} : at[h] = "joined" =>
    Expects(h) + Len(backlog[h]) = IF Undialled(h) THEN Given - 1 ELSE Given

\* Nothing is sent to or by a host before it dials or is dialled.
SilentInv ==
  /\ \A g, h \in Host : at[h] = "off" => wire[h][g] = <<>> /\ wire[g][h] = <<>>
  /\ \A h \in Host : \A g \in Host \ {First} : at[h] = "asked" => wire[h][g] = <<>>

WireInv ==
  /\ SilentInv
  /\ \A h \in Host : \A g \in Host \ {First} :
       at[h] = "dialling" /\ at[g] = "joined" /\ myId[g] >= Dialled(h) => wire[h][g] = <<>>

\* A host receives from those it has added.
ReceiveInv ==
  \A h \in Host : \A e \in receiving[h] : HasId(e.host) /\ IdOf(e.host) < Expects(h)

ConnInv ==
  /\ TypeInv /\ JoinInv /\ IdInv /\ ReplyInv /\ PeerInv /\ AddInv
  /\ BacklogInv /\ CountInv /\ WireInv /\ ReceiveInv

-------------------------------------------------------------------------------
(* Lists of peers, connections and ids *)

\* addPeer of an id in the list changes an entry, that of the next id lengthens
\* the list by one.
LEMMA Replacing ==
  ASSUME NEW n \in Nat \ {0}, NEW ps \in [0 .. n - 1 -> Host \cup {Nil}],
         NEW id \in 0 .. n - 1, NEW g \in Host \cup {Nil}
  PROVE  /\ WithPeer(ps, id, g) \in [0 .. n - 1 -> Host \cup {Nil}]
         /\ \A i \in 0 .. n - 1 : WithPeer(ps, id, g)[i] = IF i = id THEN g ELSE ps[i]
<1>1. DOMAIN ps \cup 0 .. id = 0 .. n - 1
  OBVIOUS
<1>2. WithPeer(ps, id, g) = [i \in 0 .. n - 1 |-> IF i = id THEN g ELSE ps[i]]
  BY <1>1 DEF WithPeer
<1>3. QED
  BY <1>2

LEMMA Extending ==
  ASSUME NEW n \in Nat \ {0}, NEW ps \in [0 .. n - 1 -> Host \cup {Nil}],
         NEW g \in Host \cup {Nil}
  PROVE  /\ WithPeer(ps, n, g) \in [0 .. n -> Host \cup {Nil}]
         /\ \A i \in 0 .. n : WithPeer(ps, n, g)[i] = IF i = n THEN g ELSE ps[i]
<1>1. DOMAIN ps \cup 0 .. n = 0 .. n
  OBVIOUS
<1>2. \A i \in 0 .. n : i # n => i \in DOMAIN ps
  OBVIOUS
<1>3. WithPeer(ps, n, g) = [i \in 0 .. n |-> IF i = n THEN g ELSE ps[i]]
  BY <1>1, <1>2 DEF WithPeer
<1>4. QED
  BY <1>2, <1>3

\* A list of peers that is replaced by one of n entries.
LEMMA Replaced ==
  ASSUME TypeInv, NEW h \in Host, NEW n \in Nat \ {0},
         NEW ps \in [0 .. n - 1 -> Host \cup {Nil}],
         peers' = [peers EXCEPT ![h] = ps]
  PROVE  /\ NumPeers(h)' = n /\ peers'[h] = ps
         /\ \A x \in Host \ {h} : NumPeers(x)' = NumPeers(x) /\ peers'[x] = peers[x]
         /\ peers' = [x \in Host |-> peers'[x]]
         /\ \A x \in Host : NumPeers(x)' \in Nat \ {0}
                             /\ peers'[x] \in [0 .. NumPeers(x)' - 1 -> Host \cup {Nil}]
<1>1. Cardinality(0 .. n - 1) = n
  BY FS_Interval
<1>2. peers = [x \in Host |-> peers[x]]
  BY DEF TypeInv
<1>3. /\ peers'[h] = ps
      /\ \A x \in Host \ {h} : peers'[x] = peers[x]
      /\ peers' = [x \in Host |-> peers'[x]]
  BY <1>2
<1>4. NumPeers(h)' = n
  BY <1>1, <1>3 DEF NumPeers
<1>5. \A x \in Host \ {h} : NumPeers(x)' = NumPeers(x)
  BY <1>3 DEF NumPeers
<1>6. QED
  BY <1>3, <1>4, <1>5 DEF TypeInv

\* A sequence that grows at its end keeps its head.
LEMMA Grows ==
  ASSUME NEW S, NEW s \in Seq(S), NEW e \in S
  PROVE  /\ Append(s, e) \in Seq(S) /\ Append(s, e) # <<>>
         /\ Len(Append(s, e)) = Len(s) + 1
         /\ Head(Append(s, e)) = IF s = <<>> THEN e ELSE Head(s)
         /\ \A k \in 1 .. Len(s) + 1 :
              Append(s, e)[k] = IF k = Len(s) + 1 THEN e ELSE s[k]
<1>1. Append(s, e) \in Seq(S) /\ Len(Append(s, e)) = Len(s) + 1 /\ Len(s) \in Nat
  OBVIOUS
<1>2. \A k \in 1 .. Len(s) + 1 :
        Append(s, e)[k] = IF k = Len(s) + 1 THEN e ELSE s[k]
  OBVIOUS
<1>3. Append(s, e) # <<>>
  BY <1>1
<1>4. Head(Append(s, e)) = Append(s, e)[1]
  BY <1>1, <1>3
<1>5. s # <<>> => Len(s) # 0 /\ Head(s) = s[1]
  OBVIOUS
<1>6. s = <<>> => Len(s) = 0
  OBVIOUS
<1>7. Head(Append(s, e)) = IF s = <<>> THEN e ELSE Head(s)
  <2>1. CASE s = <<>>
    BY <2>1, <1>1, <1>2, <1>4, <1>6
  <2>2. CASE s # <<>>
    BY <2>2, <1>1, <1>2, <1>4, <1>5
  <2>3. QED
    BY <2>1, <2>2
<1>8. QED
  BY <1>1, <1>2, <1>3, <1>7

\* What is written comes behind what is on its way already, ...
LEMMA PutKeeps ==
  ASSUME TypeInv, NEW g \in Host, NEW h \in Host, NEW m \in Message, Put(g, h, m)
  PROVE  /\ wire' \in [Host -> [Host -> Seq(Message)]]
         /\ \A x, y \in Host : x # g \/ y # h => wire'[x][y] = wire[x][y]
         /\ wire'[g][h] # <<>>
         /\ Head(wire'[g][h]) = IF wire[g][h] = <<>> THEN m ELSE Head(wire[g][h])
<1>1. wire \in [Host -> [Host -> Seq(Message)]] /\ wire[g][h] \in Seq(Message)
  BY DEF TypeInv
<1>5. \A s \in Seq(Message) : \A e \in Message :
        /\ Append(s, e) \in Seq(Message) /\ Append(s, e) # <<>>
        /\ Head(Append(s, e)) = IF s = <<>> THEN e ELSE Head(s)
  BY Grows
<1> DEFINE q == Append(wire[g][h], m)
<1> HIDE DEF q
<1>2. /\ q \in Seq(Message) /\ q # <<>>
      /\ Head(q) = IF wire[g][h] = <<>> THEN m ELSE Head(wire[g][h])
  BY <1>1, <1>5 DEF q
<1>3. wire' = [wire EXCEPT ![g][h] = q]
  BY DEF Put, q
<1>4. QED
  BY <1>1, <1>2, <1>3

\* ... and what is read is gone.
LEMMA GotKeeps ==
  ASSUME TypeInv, NEW g \in Host, NEW h \in Host, wire[g][h] # <<>>, Got(g, h)
  PROVE  /\ wire' \in [Host -> [Host -> Seq(Message)]]
         /\ \A x, y \in Host : x # g \/ y # h => wire'[x][y] = wire[x][y]
         /\ Head(wire[g][h]) \in Message
<1>1. wire \in [Host -> [Host -> Seq(Message)]] /\ wire[g][h] \in Seq(Message)
  BY DEF TypeInv
<1>2. Tail(wire[g][h]) \in Seq(Message) /\ Head(wire[g][h]) \in Message
  BY <1>1
<1>3. QED
  BY <1>1, <1>2 DEF Got

\* Lists and records are of hosts.
LEMMA Hosts ==
  ASSUME TypeInv, NEW h \in Host
  PROVE  /\ \A i \in 0 .. NumPeers(h) - 1 : peers[h][i] # Nil => peers[h][i] \in Host
         /\ adding[h] # NoEntry => adding[h].host \in Host /\ adding[h].id \in Nat
         /\ \A e \in receiving[h] : e.host \in Host /\ e.id \in Nat
         /\ \A k \in 1 .. Len(backlog[h]) : backlog[h][k] \in Host
         /\ \A k \in 1 .. Len(todo[h]) : todo[h][k].host \in Host /\ todo[h][k].id \in Nat
<1>1. peers[h] \in [0 .. NumPeers(h) - 1 -> Host \cup {Nil}]
  BY DEF TypeInv
<1>2. adding[h] \in Entry \cup {NoEntry} /\ receiving[h] \subseteq Entry
  BY DEF TypeInv
<1>3. backlog[h] \in Seq(Host) /\ todo[h] \in Seq(Entry)
  BY DEF TypeInv
<1>4. \A i \in 0 .. NumPeers(h) - 1 : peers[h][i] # Nil => peers[h][i] \in Host
  BY <1>1
<1>5. adding[h] # NoEntry => adding[h].host \in Host /\ adding[h].id \in Nat
  BY <1>2 DEF Entry
<1>6. \A e \in receiving[h] : e.host \in Host /\ e.id \in Nat
  BY <1>2 DEF Entry
<1>7. \A k \in 1 .. Len(backlog[h]) : backlog[h][k] \in Host
  BY <1>3
<1>8. \A k \in 1 .. Len(todo[h]) : todo[h][k] \in Entry
  BY <1>3
<1>9. QED
  BY <1>4, <1>5, <1>6, <1>7, <1>8 DEF Entry

LEMMA ExpectsNat ==
  ASSUME TypeInv, NEW h \in Host
  PROVE  Expects(h) \in Nat /\ Expects(h) >= 1 /\ NumPeers(h) \in Nat \ {0}
<1>1. NumPeers(h) \in Nat \ {0}
  BY DEF TypeInv
<1>2. CASE adding[h] = NoEntry
  BY <1>1, <1>2 DEF Expects
<1>3. CASE adding[h] # NoEntry
  <2>1. adding[h].id \in Nat
    BY <1>3, Hosts
  <2>2. QED
    BY <1>1, <1>3, <2>1 DEF Expects
<1>4. QED
  BY <1>2, <1>3

\* A host that has an id has dialled, and the id is its own unless it has yet to
\* read the reply.
LEMMA Known ==
  ASSUME TypeInv, JoinInv, WireInv, NEW h \in Host
  PROVE  /\ at[h] \in {"dialling", "joined"} => HasId(h) /\ IdOf(h) = myId[h]
         /\ HasId(h) => \/ at[h] \in {"dialling", "joined"}
                        \/ at[h] = "asked" /\ wire[First][h] # <<>>
<1>1. First \in Host
  BY FirstAssumption
<1>2. at[h] \in {"off", "asked", "dialling", "joined"}
  BY DEF TypeInv
<1>3. QED
  BY <1>1, <1>2 DEF JoinInv, WireInv, SilentInv, HasId, IdOf

-------------------------------------------------------------------------------
(* The initial state, and the steps of sendLoop and of the programs *)

LEMMA ConnInit == Init => ConnInv
<1> SUFFICES ASSUME Init PROVE ConnInv
  OBVIOUS
<1> USE FirstAssumption
<1>1. \A h \in Host : NumPeers(h) = 1 /\ peers[h] = [i \in {0} |-> Nil]
  BY FS_Singleton DEF Init, NumPeers
<1>2. \A h \in Host : HasId(h) => h = First /\ IdOf(h) = 0
  BY DEF Init, HasId, IdOf
<1>3. Given = 1
  BY <1>1 DEF Init, Given, Expects
<1>4. TypeInv
  <2>1. \A h \in Host : peers[h] \in [0 .. NumPeers(h) - 1 -> Host \cup {Nil}]
    <3>1. 0 .. 1 - 1 = {0}
      OBVIOUS
    <3>2. QED
      BY <1>1, <3>1
  <2>2. peers = [h \in Host |-> peers[h]]
    BY DEF Init
  <2>3. QED
    BY <1>1, <2>1, <2>2 DEF Init, TypeInv, NoMsg, Envelope
<1>5. JoinInv
  BY <1>1 DEF Init, JoinInv
<1>6. IdInv
  BY <1>2, <1>3 DEF IdInv, Init
<1>7. ReplyInv
  BY DEF Init, ReplyInv
<1>8. PeerInv
  BY <1>1 DEF Init, PeerInv
<1>9. AddInv /\ BacklogInv /\ CountInv /\ WireInv /\ ReceiveInv
  BY DEF Init, AddInv, BacklogInv, CountInv, WireInv, SilentInv, ReceiveInv
<1>10. QED
  BY <1>4, <1>5, <1>6, <1>7, <1>8, <1>9 DEF ConnInv

\* What a host has yet to send does not concern the others.
LEMMA Apart ==
  ASSUME ConnInv, UNCHANGED <<joining, wire>>, TypeInv', JoinInv'
  PROVE  ConnInv'
<1> USE DEF ConnInv, joining
<1>1. \A h \in Host : /\ (HasId(h) <=> HasId(h)') /\ IdOf(h) = IdOf(h)'
                      /\ NumPeers(h) = NumPeers(h)' /\ Expects(h) = Expects(h)'
                      /\ Dialled(h) = Dialled(h)' /\ (Grown(h) <=> Grown(h)')
                      /\ (Undialled(h) <=> Undialled(h)')
  BY DEF HasId, IdOf, NumPeers, Expects, Dialled, Grown, Undialled
<1>2. Given = Given'
  BY <1>1, FirstAssumption DEF Given
<1>3. IdInv'
  BY <1>1, <1>2 DEF IdInv
<1>4. ReplyInv'
  BY <1>1 DEF ReplyInv, HostsFrom
<1>5. PeerInv'
  BY <1>1, Hosts DEF PeerInv
<1>6. AddInv' /\ ReceiveInv'
  BY <1>1, <1>2, Hosts DEF AddInv, ReceiveInv
<1>7. BacklogInv'
  BY <1>1 DEF BacklogInv, Hello, HasId
<1>8. CountInv' /\ WireInv'
  BY <1>1, <1>2 DEF CountInv, WireInv, SilentInv
<1>9. QED
  BY <1>3, <1>4, <1>5, <1>6, <1>7, <1>8

LEMMA SendStep ==
  ASSUME ConnInv, NEW h \in Host,
         (\E id \in Id : Send(h, id)) \/ SendToSelf(h) \/ SendLater(h) \/ PutBack(h)
  PROVE  ConnInv'
<1> USE DEF ConnInv
<1>1. UNCHANGED <<joining, wire>>
  BY DEF Send, SendToSelf, SendLater, PutBack
<1>2. \A x \in Host : NumPeers(x)' = NumPeers(x)
  BY <1>1 DEF joining, NumPeers
<1>3. /\ out[h] \in Seq(Envelope) /\ msg[h] \in Envelope /\ retries[h] \in Nat
      /\ sends \in Nat
  BY DEF TypeInv
<1>4. /\ out' \in [Host -> Seq(Envelope)] /\ msg' \in [Host -> Envelope]
      /\ retries' \in [Host -> Nat] /\ sends' \in Nat
      /\ at[h] = "joined" /\ \A x \in Host \ {h} : out'[x] = out[x] /\ retries'[x] = retries[x]
  <2>1. CASE \E id \in Id : Send(h, id)
    <3> PICK id \in Id : Send(h, id)
      BY <2>1
    <3>1. [to |-> id, body |-> sends + 1] \in Envelope
      BY <1>3 DEF Id, Envelope
    <3>2. QED
      BY <1>3, <3>1 DEF Send, TypeInv
  <2>2. CASE SendToSelf(h)
    <3>1. Tail(out[h]) \in Seq(Envelope) /\ Head(out[h]) \in Envelope
      BY <1>3, <2>2 DEF SendToSelf
    <3>2. QED
      BY <2>2, <3>1 DEF SendToSelf, TypeInv, JoinInv
  <2>3. CASE SendLater(h)
    <3>1. Tail(out[h]) \in Seq(Envelope) /\ Head(out[h]) \in Envelope
      BY <1>3, <2>3 DEF SendLater
    <3>2. out' \in [Host -> Seq(Envelope)] /\ msg' \in [Host -> Envelope]
      BY <2>3, <3>1 DEF SendLater, TypeInv
    <3>3. at[h] = "joined"
      BY <2>3 DEF SendLater, JoinInv
    <3>5. retries' \in [Host -> Nat]
      BY <1>3, <2>3 DEF SendLater, TypeInv
    <3>4. QED
      BY <1>3, <2>3, <3>2, <3>3, <3>5 DEF SendLater, TypeInv
  <2>4. CASE PutBack(h)
    <3>1. Append(out[h], msg[h]) \in Seq(Envelope) /\ retries[h] - 1 \in Nat
      BY <1>3, <2>4 DEF PutBack
    <3>2. out' \in [Host -> Seq(Envelope)] /\ retries' \in [Host -> Nat]
      BY <2>4, <3>1 DEF PutBack, TypeInv
    <3>3. at[h] = "joined"
      BY <1>3, <2>4 DEF PutBack, JoinInv
    <3>4. QED
      BY <2>4, <3>2, <3>3 DEF PutBack, TypeInv
  <2>5. QED
    BY <2>1, <2>2, <2>3, <2>4
<1>5. TypeInv'
  BY <1>1, <1>2, <1>4 DEF TypeInv, joining
<1>6. JoinInv'
  BY <1>1, <1>2, <1>4 DEF JoinInv, joining
<1>7. QED
  BY <1>1, <1>5, <1>6, Apart

\* Replies that are waited for and greetings of dials that were not accepted
\* are where they were.
LEMMA OnTheWire ==
  ASSUME ConnInv, UNCHANGED joining, TypeInv', JoinInv', WireInv',
         \A h \in Host : at[h] = "asked" =>
           /\ wire[First][h] = <<>> <=> wire'[First][h] = <<>>
           /\ wire[First][h] # <<>> => Head(wire'[First][h]) = Head(wire[First][h]),
         \A h \in Host : \A k \in 1 .. Len(backlog[h]) :
           /\ wire'[backlog[h][k]][h] # <<>>
           /\ Head(wire'[backlog[h][k]][h]) = Head(wire[backlog[h][k]][h])
  PROVE  ConnInv'
<1> USE DEF ConnInv, joining
<1>1. First \in Host
  BY FirstAssumption
<1>2. \A h \in Host : (HasId(h) <=> HasId(h)') /\ (HasId(h) => IdOf(h) = IdOf(h)')
  <2> SUFFICES ASSUME NEW h \in Host
               PROVE  (HasId(h) <=> HasId(h)') /\ (HasId(h) => IdOf(h) = IdOf(h)')
    OBVIOUS
  <2>1. CASE at[h] = "asked"
    BY <2>1, <1>1 DEF HasId, IdOf, JoinInv
  <2>2. CASE at[h] = "off"
    BY <2>2, <1>1 DEF HasId, IdOf, WireInv, SilentInv, JoinInv
  <2>3. CASE at[h] \in {"dialling", "joined"}
    BY <2>3 DEF HasId, IdOf
  <2>4. QED
    BY <2>1, <2>2, <2>3 DEF TypeInv
<1>3. \A h \in Host : /\ NumPeers(h) = NumPeers(h)' /\ Expects(h) = Expects(h)'
                      /\ Dialled(h) = Dialled(h)' /\ (Grown(h) <=> Grown(h)')
  BY DEF NumPeers, Expects, Dialled, Grown
<1>4. \A h \in Host : Undialled(h) <=> Undialled(h)'
  BY <1>2, <1>3 DEF Undialled
<1>5. Given = Given'
  BY <1>1, <1>3 DEF Given
<1>6. IdInv'
  BY <1>2, <1>5 DEF IdInv
<1>7. ReplyInv'
  <2>1. at' = at /\ myId' = myId /\ todo' = todo
    OBVIOUS
  <2>2. \A s, i : HostsFrom(s, i) <=> HostsFrom(s, i)'
    BY <2>1 DEF HostsFrom
  <2>3. QED
    BY <1>3, <2>1, <2>2 DEF ReplyInv
<1>8. PeerInv'
  BY <1>2, <1>3, Hosts DEF PeerInv
<1>9. AddInv' /\ ReceiveInv'
  BY <1>2, <1>3, Hosts DEF AddInv, ReceiveInv
<1>10. BacklogInv'
  BY <1>1, <1>2, <1>3, Hosts DEF BacklogInv, Hello
<1>11. CountInv'
  BY <1>3, <1>4, <1>5 DEF CountInv
<1>12. QED
  BY <1>6, <1>7, <1>8, <1>9, <1>10, <1>11

\* What is sent to a peer, who has an id, comes behind a reply or a greeting.
LEMMA SendToPeerStep ==
  ASSUME ConnInv, NEW h \in Host, SendToPeer(h)
  PROVE  ConnInv'
<1> USE DEF ConnInv
<1> DEFINE m == Head(out[h])
           g == peers[h][m.to]
           d == [type |-> "data", body |-> m.body]
<1>1. /\ out[h] \in Seq(Envelope) /\ out[h] # <<>>
      /\ m.to # myId[h] /\ ~Early(h, m) /\ g # Nil /\ Put(h, g, d)
      /\ out' = [out EXCEPT ![h] = Tail(@)]
      /\ msg' = [msg EXCEPT ![h] = [m EXCEPT !.to = 1]]
      /\ UNCHANGED <<joining, in, retries, sends>>
  BY DEF SendToPeer, TypeInv
<1>2. m \in Envelope /\ Tail(out[h]) \in Seq(Envelope)
  BY <1>1
<1>3. d \in Message /\ [m EXCEPT !.to = 1] \in Envelope /\ m.to \in Nat
  BY <1>2 DEF Message, Envelope
<1>4. m.to \in 0 .. NumPeers(h) - 1
  BY <1>1, <1>3 DEF Early, TypeInv
<1>5. g \in Host /\ HasId(g) /\ IdOf(g) = m.to /\ at[h] = "joined"
  BY <1>1, <1>4, Hosts DEF PeerInv, JoinInv
<1> HIDE DEF m, g, d
<1>6. /\ wire' \in [Host -> [Host -> Seq(Message)]]
      /\ \A x, y \in Host : x # h \/ y # g => wire'[x][y] = wire[x][y]
      /\ wire'[h][g] # <<>>
      /\ Head(wire'[h][g]) = IF wire[h][g] = <<>> THEN d ELSE Head(wire[h][g])
  BY <1>1, <1>3, <1>5, PutKeeps
<1>7. at[g] # "off" /\ (at[g] = "asked" => wire[First][g] # <<>>)
  BY <1>5, Known
<1>8. TypeInv'
  <2>1. \A x \in Host : NumPeers(x)' = NumPeers(x)
    BY <1>1 DEF joining, NumPeers
  <2>2. out' \in [Host -> Seq(Envelope)] /\ msg' \in [Host -> Envelope]
    BY <1>1, <1>2, <1>3 DEF TypeInv
  <2>3. QED
    BY <1>1, <1>6, <2>1, <2>2 DEF TypeInv, joining
<1>9. JoinInv'
  BY <1>1, <1>5 DEF JoinInv, joining, NumPeers, TypeInv
<1>10. WireInv'
  <2>1. at' = at /\ myId' = myId /\ todo' = todo
    BY <1>1 DEF joining
  <2>2. \A x \in Host : Dialled(x)' = Dialled(x)
    BY <2>1 DEF Dialled
  <2>3. \A x, y \in Host : at[x] = "off" => wire'[x][y] = <<>> /\ wire'[y][x] = <<>>
    <3>1. \A x, y \in Host : at[x] = "off" => wire[x][y] = <<>> /\ wire[y][x] = <<>>
      BY DEF WireInv, SilentInv
    <3>2. \A x \in Host : at[x] = "off" => x # h /\ x # g
      BY <1>5, <1>7
    <3>3. \A x, y \in Host : x # h \/ y # g => wire'[x][y] = wire[x][y]
      BY <1>6
    <3>4. QED
      BY <3>1, <3>2, <3>3
  <2>4. \A x \in Host : at[x] # "joined" => \A y \in Host : wire'[x][y] = wire[x][y]
    BY <1>5, <1>6
  <2>5. QED
    BY <2>1, <2>2, <2>3, <2>4 DEF WireInv, SilentInv
<1>11. \A x \in Host : at[x] = "asked" =>
         /\ wire[First][x] = <<>> <=> wire'[First][x] = <<>>
         /\ wire[First][x] # <<>> => Head(wire'[First][x]) = Head(wire[First][x])
  BY <1>6, <1>7, FirstAssumption
<1>12. \A x \in Host : \A k \in 1 .. Len(backlog[x]) :
         /\ wire'[backlog[x][k]][x] # <<>>
         /\ Head(wire'[backlog[x][k]][x]) = Head(wire[backlog[x][k]][x])
  <2> SUFFICES ASSUME NEW x \in Host, NEW k \in 1 .. Len(backlog[x])
               PROVE  /\ wire'[backlog[x][k]][x] # <<>>
                      /\ Head(wire'[backlog[x][k]][x]) = Head(wire[backlog[x][k]][x])
    OBVIOUS
  <2>1. backlog[x][k] \in Host /\ wire[backlog[x][k]][x] # <<>>
    BY Hosts DEF BacklogInv
  <2>2. QED
    BY <1>6, <2>1
<1>13. QED
  BY <1>1, <1>8, <1>9, <1>10, <1>11, <1>12, OnTheWire

\* Whom a host receives from it has accepted, so that it has no greeting left,
\* and a reply is not for receive.
LEMMA ReceiveStep ==
  ASSUME ConnInv, NEW h \in Host, NEW e \in receiving[h], Receive(h, e)
  PROVE  ConnInv'
<1> USE DEF ConnInv
<1> DEFINE g == e.host
<1>1. /\ wire[g][h] # <<>> /\ Got(g, h) /\ UNCHANGED <<joining, sending>>
      /\ g \in Host
  BY Hosts DEF Receive
<1>2. HasId(g) /\ IdOf(g) < Expects(h)
  BY DEF ReceiveInv
<1>3. at[h] \in {"dialling", "joined"}
  BY DEF JoinInv, TypeInv
<1> HIDE DEF g
<1>4. /\ wire' \in [Host -> [Host -> Seq(Message)]]
      /\ \A x, y \in Host : x # g \/ y # h => wire'[x][y] = wire[x][y]
  BY <1>1, GotKeeps
<1>5. TypeInv'
  BY <1>1, <1>4 DEF TypeInv, joining, sending, NumPeers
<1>6. JoinInv'
  BY <1>1 DEF JoinInv, joining, sending, NumPeers
<1>7. WireInv'
  <2>1. at' = at /\ myId' = myId /\ todo' = todo
    BY <1>1 DEF joining
  <2>2. \A x \in Host : Dialled(x)' = Dialled(x)
    BY <2>1 DEF Dialled
  <2>3. \A x, y \in Host : wire[x][y] = <<>> => wire'[x][y] = <<>>
    BY <1>1, <1>4
  <2>4. QED
    BY <2>1, <2>2, <2>3 DEF WireInv, SilentInv
<1>8. \A x \in Host : at[x] = "asked" => wire'[First][x] = wire[First][x]
  BY <1>3, <1>4, FirstAssumption
<1>9. ASSUME NEW x \in Host, NEW k \in 1 .. Len(backlog[x])
      PROVE  wire'[backlog[x][k]][x] = wire[backlog[x][k]][x]
  <2>1. backlog[x][k] \in Host
    BY Hosts
  <2>2. SUFFICES ASSUME x = h, backlog[x][k] = g
                 PROVE  FALSE
    BY <1>4, <2>1
  <2>3. CASE h = First
    BY <1>2, <2>2, <2>3 DEF BacklogInv
  <2>4. CASE h # First
    <3>1. at[g] \in {"dialling", "joined"} /\ myId[g] = Expects(h) + k - 1
      BY <2>2, <2>4 DEF BacklogInv
    <3>2. IdOf(g) = myId[g]
      BY <3>1 DEF IdOf
    <3>3. Expects(h) \in Nat
      BY ExpectsNat
    <3>4. k \in Nat \ {0}
      <4>1. backlog[x] \in Seq(Host)
        BY DEF TypeInv
      <4>2. QED
        BY <4>1
    <3>5. myId[g] >= Expects(h)
      BY <3>1, <3>3, <3>4
    <3>6. myId[g] < Expects(h)
      BY <1>2, <3>2
    <3>7. myId[g] \in Nat
      BY <1>1 DEF TypeInv
    <3>8. QED
      BY <3>3, <3>5, <3>6, <3>7
  <2>5. QED
    BY <2>3, <2>4
<1>10. \A x \in Host : \A k \in 1 .. Len(backlog[x]) :
         /\ wire'[backlog[x][k]][x] # <<>>
         /\ Head(wire'[backlog[x][k]][x]) = Head(wire[backlog[x][k]][x])
  BY <1>9 DEF BacklogInv
<1>11. QED
  BY <1>1, <1>5, <1>6, <1>7, <1>8, <1>10, OnTheWire

-------------------------------------------------------------------------------
(* Joining *)

\* Nobody else joins, so that the first host has no other dial to accept.
LEMMA DialStep ==
  ASSUME ~Overlap, ConnInv, NEW h \in Host, Dial(h)
  PROVE  ConnInv'
<1> USE DEF ConnInv
<1>1. /\ at[h] = "off" /\ \A g \in Host : at[g] \in {"off", "joined"}
      /\ at' = [at EXCEPT ![h] = "asked"]
      /\ backlog' = [backlog EXCEPT ![First] = Append(@, h)]
      /\ Put(h, First, [type |-> "hello", id |-> 0])
      /\ UNCHANGED <<myId, peers, todo, adding, receiving, in, sending>>
  BY DEF Dial
<1>2. First \in Host /\ h # First
  BY <1>1, FirstAssumption DEF JoinInv
<1>3. /\ wire' \in [Host -> [Host -> Seq(Message)]]
      /\ \A x, y \in Host : x # h \/ y # First => wire'[x][y] = wire[x][y]
      /\ wire[h][First] = <<>> /\ wire'[h][First] # <<>>
      /\ Head(wire'[h][First]) = [type |-> "hello", id |-> 0]
  <2>1. [type |-> "hello", id |-> 0] \in Message
    BY DEF Message
  <2>2. wire[h][First] = <<>>
    BY <1>1, <1>2 DEF WireInv, SilentInv
  <2>3. QED
    BY <1>1, <1>2, <2>1, <2>2, PutKeeps
<1>4. /\ backlog' \in [Host -> Seq(Host)]
      /\ backlog[First] = <<>> /\ backlog'[First] = <<h>>
      /\ \A x \in Host \ {First} : backlog'[x] = backlog[x]
  <2>1. backlog[First] \in Seq(Host)
    BY <1>2 DEF TypeInv
  <2>2. ~(1 \in 1 .. Len(backlog[First]))
    BY <1>1, <2>1, Hosts, <1>2 DEF BacklogInv
  <2>3. backlog[First] = <<>>
    BY <2>1, <2>2
  <2>4. QED
    BY <1>1, <1>2, <2>3 DEF TypeInv
<1>5. /\ at' \in [Host -> {"off", "asked", "dialling", "joined"}] /\ at'[h] = "asked"
      /\ \A x \in Host \ {h} : at'[x] = at[x]
  BY <1>1 DEF TypeInv
<1>6. \A x \in Host : /\ NumPeers(x)' = NumPeers(x) /\ Expects(x)' = Expects(x)
                      /\ (Grown(x)' <=> Grown(x))
  BY <1>1 DEF NumPeers, Expects, Grown
<1>7. Given' = Given
  BY <1>2, <1>6 DEF Given
<1>8. ~HasId(h) /\ ~HasId(h)'
  BY <1>1, <1>2, <1>3, <1>5 DEF HasId, WireInv, SilentInv
<1>9. \A x \in Host : (HasId(x)' <=> HasId(x)) /\ (HasId(x) => IdOf(x)' = IdOf(x))
  BY <1>1, <1>2, <1>3, <1>5, <1>8 DEF HasId, IdOf
<1>10. TypeInv'
  <2>1. /\ peers' = [x \in Host |-> peers'[x]]
        /\ \A x \in Host : /\ NumPeers(x)' \in Nat \ {0}
                            /\ peers'[x] \in [0 .. NumPeers(x)' - 1 -> Host \cup {Nil}]
    BY <1>1, <1>6 DEF TypeInv
  <2>2. QED
    BY <1>1, <1>3, <1>4, <1>5, <2>1 DEF TypeInv, sending
<1>11. JoinInv'
  BY <1>1, <1>2, <1>4, <1>5, <1>6 DEF JoinInv, sending
<1>12. IdInv'
  BY <1>5, <1>7, <1>8, <1>9 DEF IdInv
<1>13. ReplyInv'
  BY <1>1, <1>2, <1>3, <1>5, <1>8 DEF ReplyInv, HasId
<1>14. PeerInv'
  <2>1. \A x \in Host : at'[x] # "dialling" /\ (at'[x] = "joined" <=> at[x] = "joined")
    BY <1>1, <1>5
  <2>2. peers' = peers /\ myId' = myId /\ adding' = adding
    BY <1>1
  <2>3. QED
    BY <1>6, <1>9, <2>1, <2>2, Hosts DEF PeerInv
<1>15. AddInv' /\ ReceiveInv'
  BY <1>1, <1>6, <1>9, Hosts DEF AddInv, ReceiveInv
<1>16. BacklogInv'
  <2>1. ASSUME NEW x \in Host, NEW k \in 1 .. Len(backlog'[x])
        PROVE  /\ (wire[backlog[x][k]][x] # <<>>)'
               /\ (Head(wire[backlog[x][k]][x]) = Hello(backlog[x][k], x))'
    <3>1. CASE x = First
      <4>1. backlog'[x][k] = h
        BY <1>4, <3>1
      <4>2. QED
        BY <1>3, <3>1, <4>1 DEF Hello
    <3>2. CASE x # First
      <4>1. backlog'[x][k] = backlog[x][k] /\ k \in 1 .. Len(backlog[x])
        BY <1>4, <3>2
      <4>2. backlog[x][k] \in Host
        BY <4>1, Hosts
      <4>3. wire'[backlog[x][k]][x] = wire[backlog[x][k]][x]
        BY <1>2, <1>3, <3>2, <4>2
      <4>4. wire[backlog[x][k]][x] # <<>>
            /\ Head(wire[backlog[x][k]][x]) = Hello(backlog[x][k], x)
        BY <4>1 DEF BacklogInv
      <4>5. QED
        BY <1>1, <4>1, <4>3, <4>4 DEF Hello
    <3>3. QED
      BY <3>1, <3>2
  <2>2. \A k \in 1 .. Len(backlog'[First]) : k = 1 /\ backlog'[First][k] = h
    BY <1>4
  <2>3. ASSUME NEW x \in Host \ {First}, NEW k \in 1 .. Len(backlog'[x])
        PROVE  (/\ at[backlog[x][k]] \in {"dialling", "joined"}
                /\ myId[backlog[x][k]] = Expects(x) + k - 1)'
    <3>1. backlog'[x][k] = backlog[x][k] /\ k \in 1 .. Len(backlog[x])
      BY <1>4
    <3>2. backlog[x][k] \in Host
      BY <3>1, Hosts
    <3>3. at[backlog[x][k]] \in {"dialling", "joined"}
          /\ myId[backlog[x][k]] = Expects(x) + k - 1
      BY <3>1 DEF BacklogInv
    <3>4. QED
      BY <1>1, <1>5, <1>6, <3>1, <3>2, <3>3
  <2>4. QED
    BY <1>5, <1>8, <2>1, <2>2, <2>3 DEF BacklogInv
<1>17. CountInv'
  <2>1. ASSUME NEW x \in Host PROVE Undialled(x)' <=> Undialled(x)
    <3>1. \A j \in Host : at'[j] # "joined" /\ HasId(j)' => j # h
      BY <1>8
    <3>2. \A j \in Host : j # h => (at'[j] # "joined" /\ HasId(j)' <=> at[j] # "joined" /\ HasId(j))
      BY <1>5, <1>9
    <3>3. \A j \in Host : j # h => Dialled(j)' = Dialled(j)
      BY <1>1, <1>5 DEF Dialled
    <3>4. QED
      BY <1>1, <1>8, <3>1, <3>2, <3>3 DEF Undialled
  <2>2. QED
    BY <1>4, <1>5, <1>6, <1>7, <2>1 DEF CountInv
<1>18. WireInv'
  <2>1. ASSUME NEW x \in Host, NEW y \in Host, at'[x] = "off"
        PROVE  wire'[x][y] = <<>> /\ wire'[y][x] = <<>>
    <3>1. SilentInv /\ x # h /\ x # First /\ at[x] = "off"
      BY <1>2, <1>5, <2>1 DEF WireInv, JoinInv
    <3>2. wire[x][y] = <<>> /\ wire[y][x] = <<>>
      BY <3>1 DEF SilentInv
    <3>3. wire'[x][y] = wire[x][y] /\ wire'[y][x] = wire[y][x]
      BY <1>3, <3>1
    <3>4. QED
      BY <3>2, <3>3
  <2>2. ASSUME NEW x \in Host, NEW y \in Host \ {First}, at'[x] = "asked"
        PROVE  wire'[x][y] = <<>>
    <3>1. SilentInv /\ x = h
      BY <1>1, <1>5, <2>2 DEF WireInv
    <3>2. wire[x][y] = <<>>
      BY <1>1, <3>1 DEF SilentInv
    <3>3. wire'[x][y] = wire[x][y]
      BY <1>3
    <3>4. QED
      BY <3>2, <3>3
  <2>3. \A x \in Host : at'[x] # "dialling"
    BY <1>1, <1>5
  <2>4. SilentInv'
    BY <2>1, <2>2 DEF SilentInv
  <2>5. QED
    BY <2>3, <2>4 DEF WireInv
<1>19. QED
  BY <1>10, <1>11, <1>12, <1>13, <1>14, <1>15, <1>16, <1>17, <1>18

\* The new host learns its id and the hosts it has to dial.
LEMMA ReadReplyStep ==
  ASSUME ConnInv, NEW h \in Host, ReadReply(h)
  PROVE  ConnInv'
<1> USE DEF ConnInv
<1> DEFINE m == Head(wire[First][h])
<1>1. /\ at[h] = "asked" /\ wire[First][h] # <<>>
      /\ at' = [at EXCEPT ![h] = "dialling"]
      /\ myId' = [myId EXCEPT ![h] = m.id]
      /\ peers' = [peers EXCEPT ![h] = WithPeer(NewPeers(m.id), m.other, First)]
      /\ todo' = [todo EXCEPT ![h] = m.list]
      /\ Got(First, h)
      /\ UNCHANGED <<backlog, adding, receiving, in, sending>>
  BY DEF ReadReply
<1>2. /\ First \in Host /\ h # First
      /\ \A x \in Host \ {h} : at[x] \in {"off", "joined"}
  BY <1>1, FirstAssumption DEF JoinInv, TypeInv
<1>3. HasId(h) /\ IdOf(h) = m.id
  BY <1>1 DEF HasId, IdOf
<1>4. m \in Message /\ m.type = "reply" /\ m.other = 0 /\ Len(m.list) = m.id - 1
      /\ HostsFrom(m.list, 1)
  BY <1>1, <1>2, GotKeeps DEF ReplyInv
<1>5. m.list \in Seq(Entry) /\ m.id \in Nat \ {0} /\ m.id = Given - 1
  <2>1. m.list \in Seq(Entry) /\ m.id \in Nat
    BY <1>4 DEF Message
  <2>2. m.id # 0 /\ m.id = Given - 1
    BY <1>1, <1>2, <1>3 DEF IdInv
  <2>3. QED
    BY <2>1, <2>2
<1>6. /\ wire' \in [Host -> [Host -> Seq(Message)]]
      /\ \A x, y \in Host : x # First \/ y # h => wire'[x][y] = wire[x][y]
  BY <1>1, <1>2, GotKeeps
<1> HIDE DEF m
<1>7. \A x, y \in Host : x # First \/ y # h => wire'[x][y] = wire[x][y]
  BY <1>6
<1> DEFINE n == m.id + 1
           ps == WithPeer(NewPeers(m.id), 0, First)
<1>25. n \in Nat \ {0} /\ n - 1 = m.id /\ 0 \in 0 .. n - 1
  BY <1>5
<1> HIDE DEF n
<1>8. /\ peers' = [peers EXCEPT ![h] = ps] /\ ps \in [0 .. n - 1 -> Host \cup {Nil}]
      /\ \A i \in 0 .. n - 1 : ps[i] = IF i = 0 THEN First ELSE Nil
  <2>1. NewPeers(m.id) = [i \in 0 .. n - 1 |-> Nil]
    BY <1>25 DEF NewPeers
  <2>2. NewPeers(m.id) \in [0 .. n - 1 -> Host \cup {Nil}]
    BY <2>1
  <2>3. /\ ps \in [0 .. n - 1 -> Host \cup {Nil}]
        /\ \A i \in 0 .. n - 1 : ps[i] = IF i = 0 THEN First ELSE NewPeers(m.id)[i]
    BY <1>2, <1>25, <2>2, Replacing
  <2>4. QED
    BY <1>1, <1>4, <2>1, <2>3
<1> HIDE DEF ps
<1>9. /\ NumPeers(h)' = n /\ peers'[h] = ps
      /\ \A x \in Host \ {h} : NumPeers(x)' = NumPeers(x) /\ peers'[x] = peers[x]
      /\ peers' = [x \in Host |-> peers'[x]]
      /\ \A x \in Host : NumPeers(x)' \in Nat \ {0}
                          /\ peers'[x] \in [0 .. NumPeers(x)' - 1 -> Host \cup {Nil}]
  BY <1>8, <1>25, Replaced
<1>10. /\ at' \in [Host -> {"off", "asked", "dialling", "joined"}] /\ at'[h] = "dialling"
       /\ myId' \in [Host -> Nat] /\ myId'[h] = m.id
       /\ todo' \in [Host -> Seq(Entry)] /\ todo'[h] = m.list
       /\ \A x \in Host \ {h} : at'[x] = at[x] /\ myId'[x] = myId[x] /\ todo'[x] = todo[x]
  BY <1>1, <1>5 DEF TypeInv
<1>11. /\ backlog[h] = <<>> /\ adding[h] = NoEntry /\ receiving[h] = {}
       /\ \A x \in Host \ {h} : Expects(x)' = Expects(x) /\ (Grown(x)' <=> Grown(x))
  BY <1>1, <1>9 DEF JoinInv, Expects, Grown
<1>12. Given' = Given
  BY <1>2, <1>11 DEF Given
<1>13. \A x \in Host : (HasId(x)' <=> HasId(x)) /\ (HasId(x) => IdOf(x)' = IdOf(x))
  <2>1. HasId(h)' /\ IdOf(h)' = m.id
    BY <1>10 DEF HasId, IdOf
  <2>2. ASSUME NEW x \in Host \ {h}
        PROVE  (HasId(x)' <=> HasId(x)) /\ IdOf(x)' = IdOf(x)
    <3>1. at'[x] = at[x] /\ myId'[x] = myId[x] /\ wire'[First][x] = wire[First][x]
      BY <1>2, <1>7, <1>10
    <3>2. QED
      BY <3>1 DEF HasId, IdOf
  <2>3. QED
    BY <1>3, <2>1, <2>2
<1>14. /\ Dialled(h) = 1 /\ Dialled(h)' = 1
       /\ \A x \in Host \ {h} : Dialled(x)' = Dialled(x)
  BY <1>1, <1>4, <1>5, <1>10 DEF Dialled
<1>15. TypeInv'
  BY <1>1, <1>6, <1>9, <1>10 DEF TypeInv, sending
<1>16. JoinInv'
  BY <1>1, <1>2, <1>9, <1>10 DEF JoinInv, sending
<1>17. IdInv'
  <2>1. \A x \in Host : at'[x] # "joined" => at[x] # "joined"
    BY <1>1, <1>10
  <2>2. QED
    BY <1>12, <1>13, <2>1 DEF IdInv
<1>18. ReplyInv'
  <2>1. \A x \in Host : at'[x] # "asked" /\ (at'[x] = "dialling" => x = h)
    BY <1>2, <1>10
  <2>2. ASSUME NEW k \in 1 .. Len(m.list)
        PROVE  /\ m.list[k].id = 1 + k - 1 /\ at'[m.list[k].host] = "joined"
               /\ myId'[m.list[k].host] = m.list[k].id
    <3>1. m.list[k] \in Entry
      BY <1>5
    <3>2. m.list[k].host \in Host
      BY <3>1 DEF Entry
    <3>3. /\ m.list[k].id = 1 + k - 1 /\ at[m.list[k].host] = "joined"
          /\ myId[m.list[k].host] = m.list[k].id
      BY <1>4 DEF HostsFrom
    <3>4. QED
      BY <1>1, <1>10, <3>2, <3>3
  <2>3. Len(todo'[h]) < myId'[h] /\ NumPeers(h)' = myId'[h] + 1
    BY <1>4, <1>5, <1>9, <1>10, <1>25
  <2>4. HostsFrom(todo[h], Dialled(h))'
    BY <1>10, <1>14, <2>2 DEF HostsFrom
  <2>5. QED
    BY <2>1, <2>3, <2>4 DEF ReplyInv
<1>19. PeerInv'
  <2>1. HasId(First)' /\ IdOf(First)' = 0
    <3>1. HasId(First)
      BY DEF HasId
    <3>2. QED
      BY <1>2, <1>13, <3>1 DEF IdInv
  <2>2. ASSUME NEW x \in Host, NEW i \in 0 .. NumPeers(x)' - 1, peers'[x][i] # Nil
        PROVE  (HasId(peers[x][i]) /\ IdOf(peers[x][i]) = i /\ i # myId[x])'
    <3>1. CASE x = h
      <4>1. i = 0 /\ peers'[x][i] = First
        BY <1>8, <1>9, <1>25, <2>2, <3>1
      <4>2. QED
        BY <1>5, <1>10, <2>1, <3>1, <4>1
    <3>2. CASE x # h
      <4>1. peers'[x][i] = peers[x][i] /\ i \in 0 .. NumPeers(x) - 1 /\ myId'[x] = myId[x]
        BY <1>9, <1>10, <3>2
      <4>2. peers[x][i] \in Host
        BY <2>2, <4>1, Hosts
      <4>3. QED
        BY <1>13, <2>2, <4>1, <4>2 DEF PeerInv
    <3>3. QED
      BY <3>1, <3>2
  <2>3. ASSUME NEW x \in Host, at'[x] = "joined"
        PROVE  /\ x # h /\ at[x] = "joined" /\ peers'[x] = peers[x] /\ myId'[x] = myId[x]
               /\ adding'[x] = adding[x] /\ (Grown(x)' <=> Grown(x)) /\ NumPeers(x)' = NumPeers(x)
    BY <1>1, <1>9, <1>10, <1>11, <2>3
  <2>4. \A i \in 0 .. Dialled(h)' - 1 : peers'[h][i] # Nil
    <3>1. Nil # First
      BY FirstAssumption
    <3>2. QED
      BY <1>8, <1>9, <1>14, <1>25, <3>1
  <2>5. \A x \in Host : at'[x] = "dialling" => x = h
    BY <1>2, <1>10
  <2>6. QED
    BY <2>2, <2>3, <2>4, <2>5 DEF PeerInv
<1>20. AddInv'
  BY <1>1, <1>9, <1>10, <1>11, <1>13, Hosts DEF AddInv
<1>21. BacklogInv'
  <2>1. ASSUME NEW x \in Host, NEW k \in 1 .. Len(backlog[x])
        PROVE  /\ x # h /\ backlog[x][k] \in Host
               /\ wire'[backlog[x][k]][x] = wire[backlog[x][k]][x]
    <3>1. x # h
      BY <1>11
    <3>2. QED
      BY <1>7, <3>1, Hosts
  <2>2. ASSUME NEW k \in 1 .. Len(backlog[First])
        PROVE  FALSE
    BY <1>1, <1>2, <1>3, <2>1 DEF BacklogInv
  <2>3. ASSUME NEW x \in Host \ {First}, NEW k \in 1 .. Len(backlog[x])
        PROVE  /\ backlog[x][k] # h
               /\ (at[backlog[x][k]] \in {"dialling", "joined"})'
               /\ (myId[backlog[x][k]] = Expects(x) + k - 1)'
    <3>1. /\ at[backlog[x][k]] \in {"dialling", "joined"}
          /\ myId[backlog[x][k]] = Expects(x) + k - 1
      BY DEF BacklogInv
    <3>2. QED
      BY <1>1, <1>10, <1>11, <2>1, <3>1
  <2>4. ASSUME NEW x \in Host, NEW k \in 1 .. Len(backlog[x])
        PROVE  (/\ wire[backlog[x][k]][x] # <<>>
                /\ Head(wire[backlog[x][k]][x]) = Hello(backlog[x][k], x))'
    <3>1. x # First
      BY <2>2
    <3>2. myId'[backlog[x][k]] = myId[backlog[x][k]]
      BY <1>10, <2>1, <2>3, <3>1
    <3>3. QED
      BY <1>1, <2>1, <3>1, <3>2 DEF BacklogInv, Hello
  <2>5. backlog' = backlog
    BY <1>1
  <2>6. QED
    BY <2>2, <2>3, <2>4, <2>5 DEF BacklogInv
<1>22. CountInv'
  <2>1. \A x \in Host \ {h} : Undialled(x)' <=> Undialled(x)
    BY <1>1, <1>10, <1>13, <1>14 DEF Undialled
  <2>2. QED
    BY <1>1, <1>10, <1>11, <1>12, <2>1 DEF CountInv
<1>23. WireInv'
  <2>1. \A x \in Host : at'[x] = "off" => x # h /\ x # First /\ at[x] = "off"
    BY <1>2, <1>10 DEF JoinInv
  <2>2. ASSUME NEW x \in Host, NEW y \in Host, at'[x] = "off"
        PROVE  wire'[x][y] = <<>> /\ wire'[y][x] = <<>>
    <3>1. wire[x][y] = <<>> /\ wire[y][x] = <<>>
      BY <2>1, <2>2 DEF WireInv, SilentInv
    <3>2. QED
      BY <1>7, <2>1, <2>2, <3>1
  <2>3. \A x \in Host : at'[x] # "asked" /\ (at'[x] = "dialling" => x = h)
    BY <1>2, <1>10
  <2>4. \A y \in Host \ {First} : wire'[h][y] = <<>>
    <3>1. \A y \in Host \ {First} : wire[h][y] = <<>>
      BY <1>1 DEF WireInv, SilentInv
    <3>2. QED
      BY <1>2, <1>7, <3>1
  <2>5. SilentInv'
    BY <2>2, <2>3 DEF SilentInv
  <2>6. QED
    BY <2>3, <2>4, <2>5 DEF WireInv
<1>24. ReceiveInv'
  BY <1>1, <1>11, <1>13, Hosts DEF ReceiveInv
<1>26. QED
  BY <1>15, <1>16, <1>17, <1>18, <1>19, <1>20, <1>21, <1>22, <1>23, <1>24

\* What a joining host has still to dial.
LEMMA ToDial ==
  ASSUME ConnInv, NEW h \in Host, at[h] = "dialling", todo[h] # <<>>
  PROVE  LET e == Head(todo[h])
         IN /\ e \in Entry /\ e.host \notin {First, h} /\ at[e.host] = "joined"
            /\ e.id = Dialled(h) /\ myId[e.host] = e.id /\ e.id \in 1 .. myId[h] - 1
            /\ Tail(todo[h]) \in Seq(Entry) /\ Len(Tail(todo[h])) = Len(todo[h]) - 1
            /\ HostsFrom(Tail(todo[h]), Dialled(h) + 1)
<1> USE DEF ConnInv
<1> DEFINE e == Head(todo[h])
<1>1. todo[h] \in Seq(Entry) /\ myId[h] \in Nat
  BY DEF TypeInv
<1>2. Len(todo[h]) \in Nat \ {0} /\ e = todo[h][1] /\ e \in Entry
  BY <1>1
<1>3. Len(todo[h]) < myId[h] /\ HostsFrom(todo[h], Dialled(h))
  BY DEF ReplyInv
<1>4. Dialled(h) = myId[h] - Len(todo[h]) /\ Dialled(h) \in 1 .. myId[h] - 1
  BY <1>1, <1>2, <1>3 DEF Dialled
<1>5. e.id = Dialled(h) /\ at[e.host] = "joined" /\ myId[e.host] = e.id
  <2>1. 1 \in 1 .. Len(todo[h]) /\ Dialled(h) + 1 - 1 = Dialled(h)
    BY <1>2, <1>4
  <2>2. QED
    BY <1>2, <1>3, <2>1 DEF HostsFrom
<1>6. e.host \notin {First, h}
  BY <1>4, <1>5 DEF JoinInv
<1>7. /\ Tail(todo[h]) \in Seq(Entry) /\ Len(Tail(todo[h])) = Len(todo[h]) - 1
      /\ \A k \in 1 .. Len(Tail(todo[h])) :
           Tail(todo[h])[k] = todo[h][k + 1] /\ k + 1 \in 1 .. Len(todo[h])
  BY <1>1, <1>2
<1>8. HostsFrom(Tail(todo[h]), Dialled(h) + 1)
  <2> SUFFICES ASSUME NEW k \in 1 .. Len(Tail(todo[h]))
               PROVE  LET f == Tail(todo[h])[k]
                      IN f.id = Dialled(h) + 1 + k - 1 /\ at[f.host] = "joined" /\ myId[f.host] = f.id
    BY DEF HostsFrom
  <2>1. /\ todo[h][k + 1].id = Dialled(h) + (k + 1) - 1
        /\ at[todo[h][k + 1].host] = "joined"
        /\ myId[todo[h][k + 1].host] = todo[h][k + 1].id
    BY <1>3, <1>7 DEF HostsFrom
  <2>2. Dialled(h) + (k + 1) - 1 = Dialled(h) + 1 + k - 1
    BY <1>4, <1>7
  <2>3. QED
    BY <1>7, <2>1, <2>2
<1>9. QED
  BY <1>2, <1>4, <1>5, <1>6, <1>7, <1>8

\* The new host is the next one in the backlog of the host it dials.
LEMMA DialPeerStep ==
  ASSUME ConnInv, NEW h \in Host, DialPeer(h)
  PROVE  ConnInv'
<1> USE DEF ConnInv
<1> DEFINE e == Head(todo[h])
           d == e.host
           hello == [type |-> "hello", id |-> myId[h]]
<1>1. /\ at[h] = "dialling" /\ todo[h] # <<>>
      /\ todo' = [todo EXCEPT ![h] = Tail(@)]
      /\ backlog' = [backlog EXCEPT ![d] = Append(@, h)]
      /\ Put(h, d, hello)
      /\ peers' = [peers EXCEPT ![h] = WithPeer(@, e.id, d)]
      /\ receiving' = [receiving EXCEPT ![h] = @ \cup {e}]
      /\ UNCHANGED <<at, myId, adding, in, sending>>
  BY DEF DialPeer, Receiving
<1>2. /\ e \in Entry /\ d \notin {First, h} /\ at[d] = "joined"
      /\ e.id = Dialled(h) /\ myId[d] = e.id /\ e.id \in 1 .. myId[h] - 1
      /\ Tail(todo[h]) \in Seq(Entry) /\ Len(Tail(todo[h])) = Len(todo[h]) - 1
      /\ HostsFrom(Tail(todo[h]), Dialled(h) + 1)
  BY <1>1, ToDial
<1>3. /\ First \in Host /\ h # First /\ d \in Host /\ e.id \in Nat
      /\ \A x \in Host \ {h} : at[x] \in {"off", "joined"}
  BY <1>1, <1>2, FirstAssumption DEF JoinInv, TypeInv, Entry
<1>4. myId[h] \in Nat /\ HasId(h) /\ IdOf(h) = myId[h] /\ myId[h] = Given - 1
  BY <1>1, Known DEF IdInv, TypeInv
<1>5. HasId(d) /\ IdOf(d) = e.id
  BY <1>2, <1>3, Known
<1>6. hello \in Message
  BY <1>4 DEF Message
<1>7. wire[h][d] = <<>>
  BY <1>1, <1>2, <1>3 DEF WireInv
<1> HIDE DEF e, d, hello
<1>8. /\ wire' \in [Host -> [Host -> Seq(Message)]]
      /\ \A x, y \in Host : x # h \/ y # d => wire'[x][y] = wire[x][y]
      /\ wire'[h][d] # <<>> /\ Head(wire'[h][d]) = hello
  <2>1. TypeInv /\ Put(h, d, hello)
    BY <1>1
  <2> HIDE DEF ConnInv
  <2>2. /\ wire' \in [Host -> [Host -> Seq(Message)]]
        /\ \A x, y \in Host : x # h \/ y # d => wire'[x][y] = wire[x][y]
        /\ wire'[h][d] # <<>>
        /\ Head(wire'[h][d]) = IF wire[h][d] = <<>> THEN hello ELSE Head(wire[h][d])
    BY <1>3, <1>6, <2>1, PutKeeps
  <2>3. QED
    BY <1>7, <2>2
<1>9. \A x, y \in Host : x # h \/ y # d => wire'[x][y] = wire[x][y]
  BY <1>8
<1> DEFINE n == NumPeers(h)
           ps == WithPeer(peers[h], e.id, d)
<1>10. n \in Nat \ {0} /\ n = myId[h] + 1 /\ e.id \in 0 .. n - 1 /\ Expects(h) = n
  <2>1. n = myId[h] + 1
    BY <1>1 DEF ReplyInv
  <2>2. adding[h] = NoEntry
    BY <1>1 DEF JoinInv
  <2>3. Expects(h) = n
    BY <2>2 DEF Expects
  <2>4. QED
    BY <1>2, <1>4, <2>1, <2>3
<1>11. peers[h] \in [0 .. n - 1 -> Host \cup {Nil}]
  BY DEF TypeInv
<1> HIDE DEF n
<1>12. /\ peers' = [peers EXCEPT ![h] = ps] /\ ps \in [0 .. n - 1 -> Host \cup {Nil}]
       /\ \A i \in 0 .. n - 1 : ps[i] = IF i = e.id THEN d ELSE peers[h][i]
  <2>1. peers' = [peers EXCEPT ![h] = ps]
    BY <1>1
  <2>2. d \in Host \cup {Nil}
    BY <1>3
  <2>3. n \in Nat \ {0} /\ e.id \in 0 .. n - 1
    BY <1>10
  <2>4. PICK q \in [0 .. n - 1 -> Host \cup {Nil}] : q = peers[h]
    BY <1>11
  <2>5. /\ WithPeer(q, e.id, d) \in [0 .. n - 1 -> Host \cup {Nil}]
        /\ \A i \in 0 .. n - 1 : WithPeer(q, e.id, d)[i] = IF i = e.id THEN d ELSE q[i]
    BY <2>2, <2>3, Replacing
  <2>6. QED
    BY <2>1, <2>4, <2>5
<1> HIDE DEF ps
<1>13. /\ NumPeers(h)' = n /\ peers'[h] = ps
       /\ \A x \in Host \ {h} : NumPeers(x)' = NumPeers(x) /\ peers'[x] = peers[x]
       /\ peers' = [x \in Host |-> peers'[x]]
       /\ \A x \in Host : NumPeers(x)' \in Nat \ {0}
                           /\ peers'[x] \in [0 .. NumPeers(x)' - 1 -> Host \cup {Nil}]
  BY <1>10, <1>12, Replaced
<1>14. \A x \in Host : NumPeers(x)' = NumPeers(x)
  BY <1>13 DEF n
<1>15. \A x \in Host : Expects(x)' = Expects(x) /\ (Grown(x)' <=> Grown(x))
  BY <1>1, <1>14 DEF Expects, Grown
<1>16. Given' = Given
  BY <1>3, <1>15 DEF Given
<1>17. at' = at /\ myId' = myId /\ adding' = adding
  BY <1>1
<1>18. \A x \in Host : (HasId(x)' <=> HasId(x)) /\ IdOf(x)' = IdOf(x)
  <2>1. \A x \in Host : wire'[First][x] = wire[First][x]
    BY <1>3, <1>9
  <2>2. QED
    BY <1>17, <2>1 DEF HasId, IdOf
<1>19. /\ todo' \in [Host -> Seq(Entry)] /\ todo'[h] = Tail(todo[h])
       /\ \A x \in Host \ {h} : todo'[x] = todo[x]
  BY <1>1, <1>2 DEF TypeInv
<1>20. Dialled(h)' = Dialled(h) + 1 /\ Dialled(h) \in Nat
       /\ \A x \in Host \ {h} : Dialled(x)' = Dialled(x)
  <2>1. Len(todo[h]) \in Nat
    BY DEF TypeInv
  <2>2. QED
    BY <1>1, <1>2, <1>3, <1>4, <1>17, <1>19, <2>1 DEF Dialled
<1>21. /\ backlog' \in [Host -> Seq(Host)]
       /\ backlog[d] \in Seq(Host)
       /\ backlog'[d] = Append(backlog[d], h)
       /\ \A x \in Host \ {d} : backlog'[x] = backlog[x]
  <2>1. backlog \in [Host -> Seq(Host)]
    BY DEF TypeInv
  <2>2. backlog[d] \in Seq(Host) /\ Append(backlog[d], h) \in Seq(Host)
    BY <1>3, <2>1
  <2>3. QED
    BY <1>1, <1>3, <2>1, <2>2
<1>22. /\ Len(backlog'[d]) = Len(backlog[d]) + 1
       /\ Len(backlog[d]) \in Nat
       /\ \A k \in 1 .. Len(backlog[d]) + 1 :
            backlog'[d][k] = IF k = Len(backlog[d]) + 1 THEN h ELSE backlog[d][k]
  BY <1>21, Grows
<1>23. Expects(d) + Len(backlog[d]) = myId[h]
  <2>1. Undialled(d)
    BY <1>1, <1>2, <1>3, <1>4, <1>20 DEF Undialled
  <2>2. QED
    BY <1>2, <1>3, <1>4, <2>1 DEF CountInv
<1>24. Expects(d) \in Nat
  BY <1>3, ExpectsNat
<1>25. TypeInv'
  <2>1. receiving' \in [Host -> SUBSET Entry]
    BY <1>1, <1>2 DEF TypeInv, e
  <2>2. QED
    BY <1>1, <1>8, <1>13, <1>17, <1>19, <1>21, <2>1 DEF TypeInv, sending
<1>26. JoinInv'
  <2>1. \A x \in Host : at[x] \in {"off", "asked"} => receiving'[x] = receiving[x]
    BY <1>1 DEF TypeInv
  <2>2. \A x \in Host : at[x] # "joined" => backlog'[x] = backlog[x]
    BY <1>2, <1>21
  <2>3. out' = out /\ retries' = retries
    BY <1>1 DEF sending
  <2>4. QED
    BY <1>14, <1>17, <2>1, <2>2, <2>3 DEF JoinInv
<1>27. IdInv'
  BY <1>16, <1>17, <1>18 DEF IdInv
<1>28. ReplyInv'
  <2>1. \A x \in Host : at'[x] # "asked" /\ (at'[x] = "dialling" => x = h)
    BY <1>1, <1>3, <1>17
  <2>2. HostsFrom(todo[h], Dialled(h))'
    BY <1>2, <1>17, <1>19, <1>20 DEF HostsFrom
  <2>3. Len(todo'[h]) < myId'[h] /\ NumPeers(h)' = myId'[h] + 1
    <3>1. Len(todo[h]) \in Nat /\ Len(todo[h]) < myId[h]
      BY <1>1 DEF ReplyInv, TypeInv
    <3>2. QED
      BY <1>2, <1>4, <1>10, <1>13, <1>17, <1>19, <3>1
  <2>4. QED
    BY <2>1, <2>2, <2>3 DEF ReplyInv
<1>29. PeerInv'
  <2>1. ASSUME NEW x \in Host, NEW i \in 0 .. NumPeers(x)' - 1, peers'[x][i] # Nil
        PROVE  (HasId(peers[x][i]) /\ IdOf(peers[x][i]) = i /\ i # myId[x])'
    <3>1. CASE x = h /\ i = e.id
      <4>1. peers'[x][i] = d
        BY <1>10, <1>12, <1>13, <3>1
      <4>2. QED
        BY <1>2, <1>3, <1>4, <1>5, <1>17, <1>18, <3>1, <4>1
    <3>2. CASE x # h \/ i # e.id
      <4>1. peers'[x][i] = peers[x][i] /\ i \in 0 .. NumPeers(x) - 1
        <5>1. i \in 0 .. NumPeers(x) - 1
          BY <1>14, <2>1
        <5>2. CASE x # h
          BY <1>13, <5>1, <5>2
        <5>3. CASE x = h
          BY <1>12, <1>13, <3>2, <5>1, <5>3 DEF n
        <5>4. QED
          BY <5>1, <5>2, <5>3
      <4>2. peers[x][i] \in Host
        BY <2>1, <4>1, Hosts
      <4>3. QED
        BY <1>17, <1>18, <2>1, <4>1, <4>2 DEF PeerInv
    <3>3. QED
      BY <3>1, <3>2
  <2>2. \A x \in Host : at[x] = "joined" => peers'[x] = peers[x]
    BY <1>1, <1>13
  <2>3. ASSUME NEW i \in 0 .. Dialled(h)' - 1
        PROVE  peers'[h][i] # Nil
    <3>1. d # Nil
      BY <1>3, FirstAssumption
    <3>2. i \in 0 .. n - 1 /\ (i # e.id => i \in 0 .. Dialled(h) - 1)
      BY <1>2, <1>10, <1>20
    <3>3. i # e.id => peers[h][i] # Nil
      BY <1>1, <3>2 DEF PeerInv
    <3>4. QED
      BY <1>12, <1>13, <3>1, <3>2, <3>3
  <2>4. \A x \in Host : at'[x] = "dialling" => x = h
    BY <1>3, <1>17
  <2>5. QED
    BY <1>14, <1>15, <1>17, <2>1, <2>2, <2>3, <2>4 DEF PeerInv
<1>30. AddInv'
  BY <1>14, <1>17, <1>18, Hosts DEF AddInv
<1>31. BacklogInv'
  <2>1. ASSUME NEW x \in Host, NEW k \in 1 .. Len(backlog'[x]),
               ~(x = d /\ k = Len(backlog[d]) + 1)
        PROVE  /\ k \in 1 .. Len(backlog[x])
               /\ backlog'[x][k] = backlog[x][k] /\ backlog[x][k] \in Host
    <3>1. k \in 1 .. Len(backlog[x]) /\ backlog'[x][k] = backlog[x][k]
      <4>1. CASE x = d
        <5>1. k \in 1 .. Len(backlog[d]) + 1 /\ k # Len(backlog[d]) + 1
          BY <1>22, <2>1, <4>1
        <5>2. k \in 1 .. Len(backlog[d])
          BY <1>22, <5>1
        <5>3. QED
          BY <1>22, <4>1, <5>1, <5>2
      <4>2. CASE x # d
        BY <1>21, <2>1, <4>2
      <4>3. QED
        BY <4>1, <4>2
    <3>2. QED
      BY <3>1, Hosts
  <2>2. ASSUME NEW x \in Host, NEW k \in 1 .. Len(backlog'[x])
        PROVE  (/\ wire[backlog[x][k]][x] # <<>>
                /\ Head(wire[backlog[x][k]][x]) = Hello(backlog[x][k], x))'
    <3>1. CASE x = d /\ k = Len(backlog[d]) + 1
      <4>1. backlog'[x][k] = h
        BY <1>22, <3>1
      <4>2. QED
        BY <1>2, <1>8, <1>17, <3>1, <4>1 DEF Hello, hello
    <3>2. CASE ~(x = d /\ k = Len(backlog[d]) + 1)
      <4>1. /\ k \in 1 .. Len(backlog[x])
            /\ backlog'[x][k] = backlog[x][k] /\ backlog[x][k] \in Host
        BY <2>1, <3>2
      <4>2. wire[backlog[x][k]][x] # <<>>
            /\ Head(wire[backlog[x][k]][x]) = Hello(backlog[x][k], x)
        BY <4>1 DEF BacklogInv
      <4>3. wire'[backlog[x][k]][x] = wire[backlog[x][k]][x]
        <5>1. backlog[x][k] # h \/ x # d
          BY <1>7, <4>2
        <5>2. QED
          BY <1>9, <4>1, <5>1
      <4>4. QED
        BY <1>17, <4>1, <4>2, <4>3 DEF Hello
    <3>3. QED
      BY <3>1, <3>2
  <2>3. ASSUME NEW k \in 1 .. Len(backlog'[First])
        PROVE  (k = 1 /\ at[backlog[First][k]] = "asked" /\ ~HasId(backlog[First][k]))'
    <3>1. /\ k \in 1 .. Len(backlog[First])
          /\ backlog'[First][k] = backlog[First][k] /\ backlog[First][k] \in Host
      BY <1>2, <1>3, <2>1
    <3>2. k = 1 /\ at[backlog[First][k]] = "asked" /\ ~HasId(backlog[First][k])
      BY <3>1 DEF BacklogInv
    <3>3. QED
      BY <1>17, <1>18, <3>1, <3>2
  <2>4. ASSUME NEW x \in Host \ {First}, NEW k \in 1 .. Len(backlog'[x])
        PROVE  (/\ at[backlog[x][k]] \in {"dialling", "joined"}
                /\ myId[backlog[x][k]] = Expects(x) + k - 1)'
    <3>1. CASE x = d /\ k = Len(backlog[d]) + 1
      <4>1. backlog'[x][k] = h
        BY <1>22, <3>1
      <4>2. Expects(d) + k - 1 = myId[h]
        BY <1>4, <1>22, <1>23, <1>24, <3>1
      <4>3. QED
        BY <1>1, <1>15, <1>17, <3>1, <4>1, <4>2
    <3>2. CASE ~(x = d /\ k = Len(backlog[d]) + 1)
      <4>1. /\ k \in 1 .. Len(backlog[x])
            /\ backlog'[x][k] = backlog[x][k] /\ backlog[x][k] \in Host
        BY <2>1, <3>2
      <4>2. /\ at[backlog[x][k]] \in {"dialling", "joined"}
            /\ myId[backlog[x][k]] = Expects(x) + k - 1
        BY <4>1 DEF BacklogInv
      <4>3. QED
        BY <1>15, <1>17, <4>1, <4>2
    <3>3. QED
      BY <3>1, <3>2
  <2>5. QED
    BY <2>2, <2>3, <2>4 DEF BacklogInv
<1>32. CountInv'
  <2>1. ASSUME NEW x \in Host
        PROVE  /\ Undialled(x) <=> myId[x] >= Dialled(h)
               /\ Undialled(x)' <=> myId[x] >= Dialled(h) + 1
    <3>1. \A j \in Host : at[j] # "joined" /\ HasId(j) => j = h
      BY <1>3, Known
    <3>2. QED
      BY <1>1, <1>4, <1>17, <1>18, <1>20, <3>1 DEF Undialled
  <2>2. ASSUME NEW x \in Host \ {First}, at'[x] = "joined"
        PROVE  Expects(x)' + Len(backlog'[x]) = IF Undialled(x)' THEN Given' - 1 ELSE Given'
    <3>1. CASE x = d
      <4>1. ~Undialled(x)'
        BY <1>2, <1>3, <1>20, <2>1, <3>1
      <4>2. QED
        <5>1. Expects(d) + (Len(backlog[d]) + 1) = Given
          <6>1. Given \in Nat
            BY <1>3, ExpectsNat DEF Given
          <6>2. Expects(d) + Len(backlog[d]) = Given - 1
            BY <1>4, <1>23
          <6>3. Len(backlog[d]) \in Nat
            BY <1>22
          <6>4. QED
            BY <1>24, <6>1, <6>2, <6>3
        <5>2. QED
          BY <1>3, <1>15, <1>16, <1>22, <3>1, <4>1, <5>1
    <3>2. CASE x # d
      <4>1. myId[x] # Dialled(h) /\ myId[x] \in Nat
        <5>1. HasId(x) /\ IdOf(x) = myId[x]
          BY <1>17, <2>2, Known
        <5>2. QED
          BY <1>2, <1>3, <1>5, <3>2, <5>1 DEF IdInv, TypeInv
      <4>2. Undialled(x)' <=> Undialled(x)
        BY <1>20, <2>1, <4>1
      <4>3. Expects(x) + Len(backlog[x]) = IF Undialled(x) THEN Given - 1 ELSE Given
        BY <1>17, <2>2 DEF CountInv
      <4>4. QED
        BY <1>15, <1>16, <1>21, <3>2, <4>2, <4>3
    <3>3. QED
      BY <3>1, <3>2
  <2>3. QED
    BY <2>2 DEF CountInv
<1>33. WireInv'
  <2>1. ASSUME NEW x \in Host, NEW y \in Host, at'[x] = "off"
        PROVE  wire'[x][y] = <<>> /\ wire'[y][x] = <<>>
    <3>1. at[x] = "off" /\ x # h /\ x # d
      BY <1>1, <1>2, <1>17, <2>1
    <3>2. wire[x][y] = <<>> /\ wire[y][x] = <<>>
      BY <3>1 DEF WireInv, SilentInv
    <3>3. QED
      BY <1>9, <3>1, <3>2
  <2>2. \A x \in Host : at'[x] # "asked" /\ (at'[x] = "dialling" => x = h)
    BY <1>1, <1>3, <1>17
  <2>3. ASSUME NEW y \in Host \ {First}, at'[y] = "joined", myId'[y] >= Dialled(h)'
        PROVE  wire'[h][y] = <<>>
    <3>1. y # d /\ myId[y] >= Dialled(h) /\ at[y] = "joined"
      <4>1. myId[y] \in Nat
        BY DEF TypeInv
      <4>2. QED
        BY <1>2, <1>17, <1>20, <2>3, <4>1
    <3>2. wire[h][y] = <<>>
      BY <1>1, <3>1 DEF WireInv
    <3>3. QED
      BY <1>9, <3>1, <3>2
  <2>4. SilentInv'
    BY <2>1, <2>2 DEF SilentInv
  <2>5. QED
    BY <2>2, <2>3, <2>4 DEF WireInv
<1>34. ReceiveInv'
  <2>1. ASSUME NEW x \in Host, NEW f \in receiving'[x]
        PROVE  (HasId(f.host) /\ IdOf(f.host) < Expects(x))'
    <3>1. CASE x = h /\ f = e
      BY <1>3, <1>5, <1>10, <1>15, <1>18, <3>1 DEF d
    <3>2. CASE ~(x = h /\ f = e)
      <4>1. f \in receiving[x]
        BY <1>1, <3>2 DEF TypeInv
      <4>2. f.host \in Host
        BY <4>1, Hosts
      <4>3. QED
        BY <1>15, <1>18, <4>1, <4>2 DEF ReceiveInv
    <3>3. QED
      BY <3>1, <3>2
  <2>2. QED
    BY <2>1 DEF ReceiveInv
<1>35. QED
  BY <1>25, <1>26, <1>27, <1>28, <1>29, <1>30, <1>31, <1>32, <1>33, <1>34

\* The new host has dialled everybody, and everybody will have added it.
LEMMA ConnectedStep ==
  ASSUME ConnInv, NEW h \in Host, Connected(h)
  PROVE  ConnInv'
<1> USE DEF ConnInv
<1>1. /\ at[h] = "dialling" /\ todo[h] = <<>>
      /\ at' = [at EXCEPT ![h] = "joined"]
      /\ receiving' = [receiving EXCEPT ![h] = @ \cup {[id |-> 0, host |-> First]}]
      /\ UNCHANGED <<myId, peers, todo, backlog, adding, wire, in, sending>>
  BY DEF Connected, Receiving
<1>2. /\ First \in Host /\ h # First
      /\ \A x \in Host \ {h} : at[x] \in {"off", "joined"}
  BY <1>1, FirstAssumption DEF JoinInv, TypeInv
<1>3. /\ at' \in [Host -> {"off", "asked", "dialling", "joined"}] /\ at'[h] = "joined"
      /\ \A x \in Host \ {h} : at'[x] = at[x]
  BY <1>1 DEF TypeInv
<1>4. /\ NumPeers(h) = myId[h] + 1 /\ Dialled(h) = myId[h]
      /\ backlog[h] = <<>> /\ adding[h] = NoEntry /\ myId[h] \in Nat
  <2>1. myId[h] \in Nat
    BY DEF TypeInv
  <2>2. Len(todo[h]) = 0
    BY <1>1
  <2>3. QED
    BY <1>1, <2>1, <2>2 DEF ReplyInv, JoinInv, Dialled
<1>5. HasId(h) /\ IdOf(h) = myId[h] /\ myId[h] = Given - 1
  BY <1>1, Known DEF IdInv
<1>6. /\ peers' = peers /\ myId' = myId /\ todo' = todo /\ backlog' = backlog
      /\ adding' = adding /\ wire' = wire
  BY <1>1
<1>7. \A x \in Host : /\ NumPeers(x)' = NumPeers(x) /\ Expects(x)' = Expects(x)
                      /\ (Grown(x)' <=> Grown(x))
  BY <1>6 DEF NumPeers, Expects, Grown
<1>8. Given' = Given /\ Given \in Nat
  BY <1>2, <1>7, ExpectsNat DEF Given
<1>9. \A x \in Host : (HasId(x)' <=> HasId(x)) /\ (HasId(x) => IdOf(x)' = IdOf(x))
  BY <1>1, <1>3, <1>6 DEF HasId, IdOf
<1>10. \A x \in Host : at'[x] \in {"off", "joined"} /\ (at'[x] = "off" => at[x] = "off")
  BY <1>1, <1>2, <1>3
<1>11. TypeInv'
  <2>1. [id |-> 0, host |-> First] \in Entry
    BY <1>2 DEF Entry
  <2>2. receiving' \in [Host -> SUBSET Entry]
    BY <1>1, <2>1 DEF TypeInv
  <2>3. \A x \in Host : /\ NumPeers(x)' \in Nat \ {0}
                        /\ peers'[x] \in [0 .. NumPeers(x)' - 1 -> Host \cup {Nil}]
    BY <1>6, <1>7 DEF TypeInv
  <2>4. QED
    BY <1>1, <1>3, <2>2, <2>3 DEF TypeInv, sending
<1>12. JoinInv'
  <2>1. \A x \in Host : at'[x] # "joined" => at[x] # "joined" /\ receiving'[x] = receiving[x]
    BY <1>1, <1>3 DEF TypeInv
  <2>2. at'[First] = "joined"
    BY <1>2, <1>3 DEF JoinInv
  <2>3. out' = out /\ retries' = retries
    BY <1>1 DEF sending
  <2>4. QED
    BY <1>6, <1>7, <1>10, <2>1, <2>2, <2>3 DEF JoinInv
<1>13. IdInv'
  BY <1>3, <1>8, <1>9 DEF IdInv
<1>14. ReplyInv'
  BY <1>10 DEF ReplyInv
<1>15. PeerInv'
  <2>1. ASSUME NEW x \in Host, NEW i \in 0 .. NumPeers(x) - 1, peers[x][i] # Nil
        PROVE  (HasId(peers[x][i]) /\ IdOf(peers[x][i]) = i /\ i # myId[x])'
    <3>1. peers[x][i] \in Host /\ HasId(peers[x][i]) /\ IdOf(peers[x][i]) = i /\ i # myId[x]
      BY <2>1, Hosts DEF PeerInv
    <3>2. QED
      BY <1>6, <1>9, <3>1
  <2>2. ASSUME NEW x \in Host, NEW i \in 0 .. NumPeers(x) - 1,
               at'[x] = "joined", i # myId[x], ~(Grown(x) /\ i = adding[x].id)
        PROVE  peers[x][i] # Nil
    <3>1. CASE x = h
      <4>1. i \in 0 .. Dialled(h) - 1
        BY <1>4, <2>2, <3>1
      <4>2. QED
        BY <1>1, <3>1, <4>1 DEF PeerInv
    <3>2. CASE x # h
      BY <1>3, <2>2, <3>2 DEF PeerInv
    <3>3. QED
      BY <3>1, <3>2
  <2>3. \A x \in Host : at'[x] = "joined" => myId[x] < NumPeers(x)
    BY <1>3, <1>4 DEF PeerInv
  <2>4. QED
    BY <1>6, <1>7, <1>10, <2>1, <2>2, <2>3 DEF PeerInv
<1>16. AddInv'
  BY <1>6, <1>7, <1>9, Hosts DEF AddInv
<1>17. BacklogInv'
  <2>1. ASSUME NEW x \in Host, NEW k \in 1 .. Len(backlog[x])
        PROVE  /\ backlog[x][k] \in Host /\ wire[backlog[x][k]][x] # <<>>
               /\ Head(wire[backlog[x][k]][x]) = Hello(backlog[x][k], x)
    BY Hosts DEF BacklogInv
  <2>2. ASSUME NEW k \in 1 .. Len(backlog[First])
        PROVE  FALSE
    <3>1. backlog[First][k] \in Host /\ at[backlog[First][k]] = "asked"
      BY <1>2, <2>1 DEF BacklogInv
    <3>2. QED
      BY <1>1, <1>2, <3>1
  <2>3. ASSUME NEW x \in Host \ {First}, NEW k \in 1 .. Len(backlog[x])
        PROVE  /\ at'[backlog[x][k]] \in {"dialling", "joined"}
               /\ myId[backlog[x][k]] = Expects(x) + k - 1
    <3>1. /\ at[backlog[x][k]] \in {"dialling", "joined"}
          /\ myId[backlog[x][k]] = Expects(x) + k - 1
      BY DEF BacklogInv
    <3>2. QED
      BY <1>3, <2>1, <3>1
  <2>4. \A x \in Host : \A k \in 1 .. Len(backlog[x]) :
          Hello(backlog[x][k], x)' = Hello(backlog[x][k], x)
    BY <1>6 DEF Hello
  <2>5. QED
    BY <1>6, <1>7, <2>1, <2>2, <2>3, <2>4 DEF BacklogInv
<1>18. CountInv'
  <2>1. \A x \in Host : ~Undialled(x)'
    BY <1>9, <1>10, Known DEF Undialled
  <2>2. ASSUME NEW x \in Host \ {First}, at'[x] = "joined"
        PROVE  Expects(x) + Len(backlog[x]) = Given
    <3>1. CASE x = h
      BY <1>4, <1>5, <1>8, <3>1 DEF Expects
    <3>2. CASE x # h
      <4>1. at[x] = "joined" /\ myId[x] \in Nat
        BY <1>3, <2>2, <3>2 DEF TypeInv
      <4>2. HasId(x) /\ IdOf(x) = myId[x]
        BY <4>1, Known
      <4>3. myId[x] < myId[h]
        BY <1>4, <1>5, <1>8, <3>2, <4>1, <4>2 DEF IdInv
      <4>4. \A j \in Host : at[j] # "joined" /\ HasId(j) => j = h
        BY <1>2, Known
      <4>5. ~Undialled(x)
        BY <1>4, <4>1, <4>3, <4>4 DEF Undialled
      <4>6. QED
        BY <4>1, <4>5 DEF CountInv
    <3>3. QED
      BY <3>1, <3>2
  <2>3. QED
    BY <1>6, <1>7, <1>8, <2>1, <2>2 DEF CountInv
<1>19. WireInv'
  <2>1. SilentInv'
    BY <1>6, <1>10 DEF WireInv, SilentInv
  <2>2. QED
    BY <1>10, <2>1 DEF WireInv
<1>20. ReceiveInv'
  <2>1. HasId(First) /\ IdOf(First) = 0
    <3>1. HasId(First)
      BY DEF HasId
    <3>2. QED
      BY <1>2, <3>1 DEF IdInv
  <2>2. ASSUME NEW x \in Host, NEW f \in receiving'[x]
        PROVE  (HasId(f.host) /\ IdOf(f.host) < Expects(x))'
    <3>1. CASE f.host = First
      <4>1. Expects(x) \in Nat /\ Expects(x) >= 1
        BY ExpectsNat
      <4>2. QED
        BY <1>2, <1>7, <1>9, <2>1, <3>1, <4>1
    <3>2. CASE f.host # First
      <4>1. f \in receiving[x]
        BY <1>1, <3>2 DEF TypeInv
      <4>2. f.host \in Host
        BY <4>1, Hosts
      <4>3. QED
        BY <1>7, <1>9, <4>1, <4>2 DEF ReceiveInv
    <3>3. QED
      BY <3>1, <3>2
  <2>3. QED
    BY <2>2 DEF ReceiveInv
<1>21. QED
  BY <1>11, <1>12, <1>13, <1>14, <1>15, <1>16, <1>17, <1>18, <1>19, <1>20

\* The greeting of the first dial in the backlog has come.
LEMMA Accepted ==
  ASSUME ConnInv, NEW h \in Host, adding[h] = NoEntry, backlog[h] # <<>>
  PROVE  LET g == Head(backlog[h])
         IN /\ g \in Host /\ g # h /\ at[h] = "joined" /\ g = backlog[h][1]
            /\ wire[g][h] # <<>> /\ Head(wire[g][h]) = Hello(g, h)
            /\ Len(backlog[h]) \in Nat \ {0} /\ Tail(backlog[h]) \in Seq(Host)
            /\ Len(Tail(backlog[h])) = Len(backlog[h]) - 1
            /\ \A k \in 1 .. Len(Tail(backlog[h])) :
                 k + 1 \in 1 .. Len(backlog[h]) /\ Tail(backlog[h])[k] = backlog[h][k + 1]
            /\ h # First => /\ at[g] \in {"dialling", "joined"} /\ g # First
                            /\ myId[g] = NumPeers(h) /\ myId[g] # 0
            /\ h = First => at[g] = "asked" /\ ~HasId(g) /\ Tail(backlog[h]) = <<>>
<1> USE DEF ConnInv
<1> DEFINE g == Head(backlog[h])
<1>1. backlog[h] \in Seq(Host)
  BY DEF TypeInv
<1>2. /\ Len(backlog[h]) \in Nat \ {0} /\ Tail(backlog[h]) \in Seq(Host)
      /\ g = backlog[h][1] /\ g \in Host
      /\ Len(Tail(backlog[h])) = Len(backlog[h]) - 1
      /\ \A k \in 1 .. Len(Tail(backlog[h])) :
           k + 1 \in 1 .. Len(backlog[h]) /\ Tail(backlog[h])[k] = backlog[h][k + 1]
  BY <1>1
<1>3. 1 \in 1 .. Len(backlog[h])
  BY <1>2
<1>4. at[h] = "joined"
  BY DEF JoinInv
<1>5. wire[g][h] # <<>> /\ Head(wire[g][h]) = Hello(g, h)
  BY <1>2, <1>3 DEF BacklogInv
<1>6. ASSUME h # First
      PROVE  /\ at[g] \in {"dialling", "joined"} /\ g # First /\ g # h
             /\ myId[g] = NumPeers(h) /\ myId[g] # 0
  <2>1. at[g] \in {"dialling", "joined"} /\ myId[g] = Expects(h) + 1 - 1
    BY <1>2, <1>3, <1>6 DEF BacklogInv
  <2>2. NumPeers(h) \in Nat \ {0} /\ Expects(h) = NumPeers(h)
    BY ExpectsNat DEF Expects
  <2>3. myId[h] < NumPeers(h) /\ myId[h] \in Nat
    BY <1>4 DEF PeerInv, TypeInv
  <2>4. QED
    BY <2>1, <2>2, <2>3 DEF JoinInv
<1>7. ASSUME h = First
      PROVE  at[g] = "asked" /\ ~HasId(g) /\ Tail(backlog[h]) = <<>> /\ g # h
  <2>1. \A k \in 1 .. Len(backlog[h]) : k = 1
    BY <1>7 DEF BacklogInv
  <2>2. Len(backlog[h]) = 1
    <3>1. Len(backlog[h]) \in 1 .. Len(backlog[h])
      BY <1>2
    <3>2. QED
      BY <2>1, <3>1
  <2>3. Tail(backlog[h]) = <<>>
    <3>1. Tail(backlog[h]) \in Seq(Host) /\ Len(Tail(backlog[h])) = 0
      BY <1>2, <2>2
    <3>2. \A s \in Seq(Host) : Len(s) = 0 => s = <<>>
      OBVIOUS
    <3>3. QED
      BY <3>1, <3>2
  <2>4. at[g] = "asked" /\ ~HasId(g)
    BY <1>2, <1>3, <1>7 DEF BacklogInv
  <2>5. QED
    BY <1>4, <2>3, <2>4
<1>8. QED
  BY <1>2, <1>4, <1>5, <1>6, <1>7

\* The first host gives the next id to the one host that has none, and tells it
\* of all others.
LEMMA AddFirstStep ==
  ASSUME ConnInv, AddHost(First)
  PROVE  ConnInv'
<1> USE DEF ConnInv
<1>1. adding[First] = NoEntry /\ backlog[First] # <<>> /\ First \in Host
  BY FirstAssumption DEF AddHost
<1>2. PICK g \in Host : g = Head(backlog[First])
  BY <1>1, Accepted
<1>3. PICK id \in Nat \ {0} : id = NumPeers(First)
  BY <1>1, ExpectsNat
<1>4. /\ g # First /\ wire[g][First] # <<>> /\ Head(wire[g][First]) = Hello(g, First)
      /\ at[g] = "asked" /\ ~HasId(g) /\ Tail(backlog[First]) = <<>>
  BY <1>1, <1>2, Accepted
<1>5. myId[First] = 0 /\ at[First] = "joined" /\ Expects(First) = id /\ Given = id
  BY <1>1, <1>3 DEF JoinInv, Expects, Given
<1>6. ASSUME NEW k \in 1 .. id - 1
      PROVE  /\ peers[First][k] \in Host /\ at[peers[First][k]] = "joined"
             /\ myId[peers[First][k]] = k
  <2>1. k \in 0 .. NumPeers(First) - 1 /\ k # 0
    BY <1>3
  <2>2. peers[First][k] # Nil
    BY <1>1, <1>5, <2>1 DEF PeerInv, Grown
  <2>3. /\ peers[First][k] \in Host /\ HasId(peers[First][k])
        /\ IdOf(peers[First][k]) = k
    BY <1>1, <2>1, <2>2, Hosts DEF PeerInv
  <2>4. at[peers[First][k]] \in {"dialling", "joined"} \/ at[peers[First][k]] = "asked"
    BY <2>3, Known
  <2>5. at[peers[First][k]] = "joined"
    BY <1>4, <2>3, <2>4 DEF JoinInv
  <2>6. QED
    BY <2>3, <2>5, Known
<1>7. PICK list \in Seq(Entry) :
        list = PeerList(First) /\ Len(list) = id - 1 /\ HostsFrom(list, 1)
  <2>1. PeerList(First) = [k \in 1 .. id - 1 |-> [id |-> k, host |-> peers[First][k]]]
    BY <1>3, <1>5 DEF PeerList
  <2>2. \A k \in 1 .. id - 1 : [id |-> k, host |-> peers[First][k]] \in Entry
    BY <1>6 DEF Entry
  <2>3. id - 1 \in Nat
    OBVIOUS
  <2>4. PeerList(First) \in Seq(Entry) /\ Len(PeerList(First)) = id - 1
    BY <2>1, <2>2, <2>3
  <2>5. HostsFrom(PeerList(First), 1)
    BY <1>6, <2>1, <2>3, <2>4 DEF HostsFrom
  <2>6. QED
    BY <2>4, <2>5
<1>8. PICK reply \in Message :
        reply = [type |-> "reply", id |-> id, other |-> 0, list |-> list]
  BY DEF Message
<1>9. /\ backlog' = [backlog EXCEPT ![First] = <<>>]
      /\ adding' = [adding EXCEPT ![First] = [id |-> id, host |-> g]]
      /\ wire' = [wire EXCEPT ![g][First] = Tail(@), ![First][g] = Append(@, reply)]
      /\ UNCHANGED <<at, myId, peers, todo, receiving, in, sending>>
  <2>1. Head(wire[g][First]).id = 0
    BY <1>4 DEF Hello
  <2>2. QED
    BY <1>2, <1>3, <1>4, <1>5, <1>7, <1>8, <2>1 DEF AddHost, NextId
<1>10. wire[First][g] = <<>>
  BY <1>4 DEF HasId
<1>11. /\ wire' \in [Host -> [Host -> Seq(Message)]]
       /\ wire'[First][g] = <<reply>>
       /\ \A x, y \in Host : ~(x = g /\ y = First) /\ ~(x = First /\ y = g)
            => wire'[x][y] = wire[x][y]
  <2>1. wire \in [Host -> [Host -> Seq(Message)]]
    BY DEF TypeInv
  <2>2. Tail(wire[g][First]) \in Seq(Message) /\ Append(wire[First][g], reply) = <<reply>>
        /\ <<reply>> \in Seq(Message)
    BY <1>1, <1>4, <1>10, <2>1
  <2>3. wire' = [wire EXCEPT ![g][First] = Tail(wire[g][First]), ![First][g] = <<reply>>]
    BY <1>1, <1>4, <1>9, <2>1, <2>2
  <2>4. QED
    BY <1>1, <1>4, <2>1, <2>2, <2>3
<1>12. \A x, y \in Host : x \notin {g, First} \/ y \notin {g, First}
         => wire'[x][y] = wire[x][y]
  BY <1>11
<1>13. at' = at /\ myId' = myId /\ peers' = peers /\ todo' = todo /\ receiving' = receiving
  BY <1>9
<1>14. /\ backlog' \in [Host -> Seq(Host)] /\ backlog'[First] = <<>>
       /\ \A x \in Host \ {First} : backlog'[x] = backlog[x]
       /\ adding' \in [Host -> Entry \cup {NoEntry}]
       /\ adding'[First] = [id |-> id, host |-> g]
       /\ \A x \in Host \ {First} : adding'[x] = adding[x]
  <2>1. [id |-> id, host |-> g] \in Entry /\ <<>> \in Seq(Host)
    BY DEF Entry
  <2>2. QED
    BY <1>1, <1>9, <2>1 DEF TypeInv
<1>15. adding'[First] # NoEntry
  BY <1>14, FirstAssumption DEF NoEntry
<1>16. \A x \in Host : NumPeers(x)' = NumPeers(x)
  BY <1>13 DEF NumPeers
<1>17. /\ Expects(First)' = id + 1 /\ Given' = Given + 1
       /\ \A x \in Host \ {First} : Expects(x)' = Expects(x) /\ (Grown(x)' <=> Grown(x))
       /\ ~Grown(First) /\ ~Grown(First)'
  BY <1>1, <1>3, <1>5, <1>14, <1>15, <1>16 DEF Expects, Given, Grown
<1>18. HasId(g)' /\ IdOf(g)' = id
  BY <1>4, <1>8, <1>11, <1>13 DEF HasId, IdOf
<1>19. \A x \in Host \ {g} : (HasId(x)' <=> HasId(x)) /\ IdOf(x)' = IdOf(x)
  <2>1. \A x \in Host \ {g} : wire'[First][x] = wire[First][x]
    BY <1>1, <1>4, <1>11
  <2>2. QED
    BY <1>13, <2>1 DEF HasId, IdOf
<1>20. \A x \in Host : HasId(x) => HasId(x)' /\ IdOf(x)' = IdOf(x)
  BY <1>4, <1>19
<1>21. \A x \in Host : Dialled(x)' = Dialled(x)
  BY <1>13 DEF Dialled
<1>22. \A x \in Host : at[x] # "joined" /\ HasId(x)' => x = g
  <2>1. \A x \in Host \ {g} : at[x] \in {"off", "joined"}
    BY <1>4 DEF JoinInv, TypeInv
  <2>2. QED
    BY <1>19, <2>1, Known
<1>23. TypeInv'
  <2>1. \A x \in Host : /\ NumPeers(x)' \in Nat \ {0}
                        /\ peers'[x] \in [0 .. NumPeers(x)' - 1 -> Host \cup {Nil}]
    BY <1>13, <1>16 DEF TypeInv
  <2>2. peers' = [x \in Host |-> peers'[x]]
    BY <1>13 DEF TypeInv
  <2>3. /\ at' \in [Host -> {"off", "asked", "dialling", "joined"}]
        /\ myId' \in [Host -> Nat] /\ todo' \in [Host -> Seq(Entry)]
        /\ receiving' \in [Host -> SUBSET Entry]
    BY <1>13 DEF TypeInv
  <2>4. /\ out' \in [Host -> Seq(Envelope)] /\ msg' \in [Host -> Envelope]
        /\ retries' \in [Host -> Nat] /\ sends' \in Nat
    BY <1>9 DEF TypeInv, sending
  <2>5. QED
    BY <1>11, <1>14, <2>1, <2>2, <2>3, <2>4 DEF TypeInv
<1>24. JoinInv'
  <2>1. \A x \in Host : at[x] # "joined" => backlog'[x] = backlog[x] /\ adding'[x] = adding[x]
    BY <1>5, <1>14
  <2>2. out' = out /\ retries' = retries
    BY <1>9 DEF sending
  <2>3. QED
    BY <1>13, <1>16, <2>1, <2>2 DEF JoinInv
<1>25. IdInv'
  <2>1. ASSUME NEW x \in Host, HasId(x)'
        PROVE  IdOf(x)' \in 0 .. id /\ (IdOf(x)' = 0 <=> x = First)
               /\ (IdOf(x)' = id => x = g)
    <3>1. CASE x = g
      BY <1>4, <1>18, <3>1
    <3>2. CASE x # g
      BY <1>5, <1>19, <2>1, <3>2 DEF IdInv
    <3>3. QED
      BY <3>1, <3>2
  <2>2. ASSUME NEW x \in Host, NEW y \in Host, HasId(x)', HasId(y)', IdOf(x)' = IdOf(y)'
        PROVE  x = y
    <3>1. CASE x = g \/ y = g
      BY <1>18, <2>1, <2>2, <3>1
    <3>2. CASE x # g /\ y # g
      BY <1>19, <2>2, <3>2 DEF IdInv
    <3>3. QED
      BY <3>1, <3>2
  <2>3. Given' - 1 = id
    BY <1>5, <1>17
  <2>4. QED
    BY <1>13, <1>18, <1>22, <2>1, <2>2, <2>3 DEF IdInv
<1>26. ReplyInv'
  <2>1. \A x \in Host : at'[x] # "dialling" /\ (at'[x] = "asked" => x = g)
    BY <1>4, <1>13 DEF JoinInv, TypeInv
  <2>2. /\ Head(wire'[First][g]) = reply /\ reply.type = "reply" /\ reply.other = 0
        /\ reply.id = id /\ reply.list = list
    BY <1>8, <1>11
  <2>3. HostsFrom(list, 1)'
    BY <1>7, <1>13 DEF HostsFrom
  <2>4. Len(reply.list) = reply.id - 1
    BY <1>7, <2>2
  <2>5. QED
    BY <2>1, <2>2, <2>3, <2>4 DEF ReplyInv
<1>27. PeerInv'
  <2>1. ASSUME NEW x \in Host, NEW i \in 0 .. NumPeers(x) - 1, peers[x][i] # Nil
        PROVE  (HasId(peers[x][i]) /\ IdOf(peers[x][i]) = i /\ i # myId[x])'
    <3>1. peers[x][i] \in Host /\ HasId(peers[x][i]) /\ IdOf(peers[x][i]) = i /\ i # myId[x]
      BY <2>1, Hosts DEF PeerInv
    <3>2. QED
      BY <1>13, <1>20, <3>1
  <2>2. ASSUME NEW x \in Host, NEW i \in 0 .. NumPeers(x) - 1,
               at[x] = "joined", i # myId[x], ~(Grown(x)' /\ i = adding'[x].id)
        PROVE  peers[x][i] # Nil
    <3>1. ~(Grown(x) /\ i = adding[x].id)
      BY <1>14, <1>17, <2>2
    <3>2. QED
      BY <2>2, <3>1 DEF PeerInv
  <2>3. QED
    BY <1>13, <1>16, <1>21, <2>1, <2>2 DEF PeerInv
<1>28. AddInv'
  <2>1. ASSUME NEW x \in Host, adding'[x] # NoEntry
        PROVE  (/\ HasId(adding[x].host) /\ IdOf(adding[x].host) = adding[x].id
                /\ adding[x].id # myId[x] /\ adding[x].id \in {NumPeers(x) - 1, NumPeers(x)})'
    <3>1. CASE x = First
      BY <1>3, <1>5, <1>13, <1>14, <1>16, <1>18, <3>1
    <3>2. CASE x # First
      <4>1. adding'[x] = adding[x] /\ adding[x] # NoEntry /\ adding[x].host \in Host
        BY <1>14, <2>1, <3>2, Hosts
      <4>2. QED
        BY <1>13, <1>16, <1>20, <4>1 DEF AddInv
    <3>3. QED
      BY <3>1, <3>2
  <2>2. QED
    BY <2>1 DEF AddInv
<1>29. BacklogInv'
  <2>1. Len(backlog'[First]) = 0
    BY <1>14
  <2>2. ASSUME NEW x \in Host \ {First}, NEW k \in 1 .. Len(backlog'[x])
        PROVE  (/\ wire[backlog[x][k]][x] # <<>>
                /\ Head(wire[backlog[x][k]][x]) = Hello(backlog[x][k], x)
                /\ at[backlog[x][k]] \in {"dialling", "joined"}
                /\ myId[backlog[x][k]] = Expects(x) + k - 1)'
    <3>1. backlog'[x] = backlog[x] /\ k \in 1 .. Len(backlog[x]) /\ backlog[x][k] \in Host
      BY <1>14, <2>2, Hosts
    <3>2. x # g
      <4>1. backlog[g] = <<>>
        BY <1>4 DEF JoinInv
      <4>2. QED
        BY <3>1, <4>1
    <3>3. wire'[backlog[x][k]][x] = wire[backlog[x][k]][x]
      BY <1>12, <3>1, <3>2
    <3>4. /\ wire[backlog[x][k]][x] # <<>>
          /\ Head(wire[backlog[x][k]][x]) = Hello(backlog[x][k], x)
          /\ at[backlog[x][k]] \in {"dialling", "joined"}
          /\ myId[backlog[x][k]] = Expects(x) + k - 1
      BY <3>1 DEF BacklogInv
    <3>5. Hello(backlog[x][k], x)' = Hello(backlog[x][k], x)
      BY <1>13, <3>1 DEF Hello
    <3>6. QED
      BY <1>13, <1>17, <3>1, <3>3, <3>4, <3>5
  <2>3. QED
    BY <2>1, <2>2 DEF BacklogInv
<1>30. CountInv'
  <2>1. ASSUME NEW x \in Host \ {First}, at'[x] = "joined"
        PROVE  Expects(x)' + Len(backlog'[x]) = IF Undialled(x)' THEN Given' - 1 ELSE Given'
    <3>1. at[x] = "joined" /\ HasId(x) /\ IdOf(x) = myId[x]
      BY <1>13, <2>1, Known
    <3>2. myId[x] >= 1
      BY <3>1 DEF IdInv
    <3>3. Undialled(x)'
      BY <1>4, <1>13, <1>18, <3>2 DEF Undialled, Dialled
    <3>4. ~Undialled(x)
      BY <1>4, <1>20, <1>22 DEF Undialled
    <3>5. Expects(x) + Len(backlog[x]) = Given
      BY <3>1, <3>4 DEF CountInv
    <3>6. QED
      BY <1>5, <1>14, <1>17, <3>3, <3>5
  <2>2. QED
    BY <2>1 DEF CountInv
<1>31. WireInv'
  <2>1. ASSUME NEW x \in Host, NEW y \in Host, at'[x] = "off"
        PROVE  wire'[x][y] = <<>> /\ wire'[y][x] = <<>>
    <3>1. at[x] = "off" /\ x # g /\ x # First
      BY <1>4, <1>5, <1>13, <2>1
    <3>2. wire[x][y] = <<>> /\ wire[y][x] = <<>>
      BY <3>1 DEF WireInv, SilentInv
    <3>3. QED
      BY <1>12, <3>1, <3>2
  <2>2. \A x \in Host : at'[x] # "dialling" /\ (at'[x] = "asked" => x = g)
    BY <1>4, <1>13 DEF JoinInv, TypeInv
  <2>3. ASSUME NEW y \in Host \ {First}
        PROVE  wire'[g][y] = <<>>
    <3>1. wire[g][y] = <<>>
      BY <1>4 DEF WireInv, SilentInv
    <3>2. QED
      BY <1>4, <1>11, <3>1
  <2>4. SilentInv'
    BY <2>1, <2>2, <2>3 DEF SilentInv
  <2>5. QED
    BY <2>2, <2>4 DEF WireInv
<1>32. ReceiveInv'
  <2>1. ASSUME NEW x \in Host, NEW f \in receiving[x]
        PROVE  HasId(f.host)' /\ IdOf(f.host)' < Expects(x)'
    <3>1. f.host \in Host /\ HasId(f.host) /\ IdOf(f.host) < Expects(x)
      BY Hosts DEF ReceiveInv
    <3>2. IdOf(f.host) \in Nat
      BY <1>1, <1>5, <3>1 DEF IdInv
    <3>3. CASE x = First
      BY <1>5, <1>17, <1>20, <3>1, <3>2, <3>3
    <3>4. CASE x # First
      BY <1>17, <1>20, <3>1, <3>4
    <3>5. QED
      BY <3>3, <3>4
  <2>2. QED
    BY <1>13, <2>1 DEF ReceiveInv
<1>33. QED
  BY <1>23, <1>24, <1>25, <1>26, <1>27, <1>28, <1>29, <1>30, <1>31, <1>32


\* Another host adds the one with the next id.
LEMMA AddOtherStep ==
  ASSUME ConnInv, NEW h \in Host, h # First, AddHost(h)
  PROVE  ConnInv'
<1> USE DEF ConnInv
<1>1. adding[h] = NoEntry /\ backlog[h] # <<>> /\ First \in Host
  BY FirstAssumption DEF AddHost
<1>2. PICK g \in Host : g = Head(backlog[h])
  BY <1>1, Accepted
<1>3. PICK id \in Nat \ {0} : id = NumPeers(h)
  BY <1>1, ExpectsNat
<1>4. PICK tail \in Seq(Host) : tail = Tail(backlog[h])
  BY <1>1, Accepted
<1>5. /\ g # h /\ g # First /\ at[h] = "joined" /\ g = backlog[h][1]
      /\ wire[g][h] # <<>> /\ Head(wire[g][h]) = Hello(g, h)
      /\ Len(backlog[h]) \in Nat \ {0} /\ Len(tail) = Len(backlog[h]) - 1
      /\ \A k \in 1 .. Len(tail) :
           k + 1 \in 1 .. Len(backlog[h]) /\ tail[k] = backlog[h][k + 1]
      /\ at[g] \in {"dialling", "joined"} /\ myId[g] = id
  BY <1>1, <1>2, <1>3, <1>4, Accepted
<1>6. HasId(g) /\ IdOf(g) = id /\ Expects(h) = id
  BY <1>1, <1>3, <1>5, Known DEF Expects
<1>7. /\ backlog' = [backlog EXCEPT ![h] = tail]
      /\ adding' = [adding EXCEPT ![h] = [id |-> id, host |-> g]]
      /\ Got(g, h)
      /\ UNCHANGED <<at, myId, peers, todo, receiving, in, sending>>
  <2>1. Head(wire[g][h]).id = id /\ id # 0
    BY <1>5 DEF Hello
  <2>2. /\ backlog' = [backlog EXCEPT ![h] = tail]
        /\ adding' = [adding EXCEPT ![h] = [id |-> id, host |-> g]]
        /\ UNCHANGED <<at, myId, peers, todo, receiving, in, sending>>
    BY <1>2, <1>3, <1>4, <2>1 DEF AddHost
  <2>3. wire' = [wire EXCEPT ![g][h] = Tail(@), ![h][g] = @]
    BY <1>2, <1>3, <1>4, <2>1 DEF AddHost
  <2>4. wire \in [Host -> [Host -> Seq(Message)]]
    BY DEF TypeInv
  <2>5. wire' = [wire EXCEPT ![g][h] = Tail(@)]
    BY <1>5, <2>3, <2>4
  <2>6. QED
    BY <2>2, <2>5 DEF Got
<1>8. /\ wire' \in [Host -> [Host -> Seq(Message)]]
      /\ \A x, y \in Host : x # g \/ y # h => wire'[x][y] = wire[x][y]
  BY <1>5, <1>7, GotKeeps
<1>9. at' = at /\ myId' = myId /\ peers' = peers /\ todo' = todo /\ receiving' = receiving
  BY <1>7
<1>10. /\ backlog' \in [Host -> Seq(Host)] /\ backlog'[h] = tail
       /\ \A x \in Host \ {h} : backlog'[x] = backlog[x]
       /\ adding' \in [Host -> Entry \cup {NoEntry}]
       /\ adding'[h] = [id |-> id, host |-> g]
       /\ \A x \in Host \ {h} : adding'[x] = adding[x]
  <2>1. [id |-> id, host |-> g] \in Entry
    BY DEF Entry
  <2>2. QED
    BY <1>7, <2>1 DEF TypeInv
<1>11. adding'[h] # NoEntry
  BY <1>10, FirstAssumption DEF NoEntry
<1>12. \A x \in Host : NumPeers(x)' = NumPeers(x)
  BY <1>9 DEF NumPeers
<1>13. /\ Expects(h)' = id + 1
       /\ \A x \in Host \ {h} : Expects(x)' = Expects(x) /\ (Grown(x)' <=> Grown(x))
       /\ ~Grown(h) /\ ~Grown(h)'
  BY <1>1, <1>3, <1>10, <1>11, <1>12 DEF Expects, Grown
<1>14. Given' = Given
  BY <1>1, <1>13 DEF Given
<1>15. \A x \in Host : /\ (HasId(x)' <=> HasId(x)) /\ IdOf(x)' = IdOf(x)
                       /\ Dialled(x)' = Dialled(x)
  <2>1. \A x \in Host : wire'[First][x] = wire[First][x]
    BY <1>1, <1>5, <1>8
  <2>2. QED
    BY <1>9, <2>1 DEF HasId, IdOf, Dialled
<1>16. \A x \in Host : Undialled(x)' <=> Undialled(x)
  BY <1>9, <1>15 DEF Undialled
<1>17. TypeInv'
  <2>1. \A x \in Host : /\ NumPeers(x)' \in Nat \ {0}
                        /\ peers'[x] \in [0 .. NumPeers(x)' - 1 -> Host \cup {Nil}]
    BY <1>9, <1>12 DEF TypeInv
  <2>2. peers' = [x \in Host |-> peers'[x]]
    BY <1>9 DEF TypeInv
  <2>3. /\ at' \in [Host -> {"off", "asked", "dialling", "joined"}]
        /\ myId' \in [Host -> Nat] /\ todo' \in [Host -> Seq(Entry)]
        /\ receiving' \in [Host -> SUBSET Entry]
    BY <1>9 DEF TypeInv
  <2>4. /\ out' \in [Host -> Seq(Envelope)] /\ msg' \in [Host -> Envelope]
        /\ retries' \in [Host -> Nat] /\ sends' \in Nat
    BY <1>7 DEF TypeInv, sending
  <2>5. QED
    BY <1>8, <1>10, <2>1, <2>2, <2>3, <2>4 DEF TypeInv
<1>18. JoinInv'
  <2>1. \A x \in Host : at[x] # "joined" => backlog'[x] = backlog[x] /\ adding'[x] = adding[x]
    BY <1>5, <1>10
  <2>2. out' = out /\ retries' = retries
    BY <1>7 DEF sending
  <2>3. QED
    BY <1>9, <1>12, <2>1, <2>2 DEF JoinInv
<1>19. IdInv'
  BY <1>9, <1>14, <1>15 DEF IdInv
<1>20. ReplyInv'
  <2>1. \A x \in Host : wire'[First][x] = wire[First][x]
    BY <1>1, <1>5, <1>8
  <2>2. \A s, i : HostsFrom(s, i) <=> HostsFrom(s, i)'
    BY <1>9 DEF HostsFrom
  <2>3. \A x \in Host : at[x] = "dialling" => HostsFrom(todo[x], Dialled(x))'
    BY <1>9, <1>15, <2>2 DEF ReplyInv
  <2>4. QED
    BY <1>9, <1>12, <2>1, <2>2, <2>3 DEF ReplyInv
<1>21. PeerInv'
  <2>1. ASSUME NEW x \in Host, NEW i \in 0 .. NumPeers(x) - 1, peers[x][i] # Nil
        PROVE  (HasId(peers[x][i]) /\ IdOf(peers[x][i]) = i /\ i # myId[x])'
    <3>1. peers[x][i] \in Host /\ HasId(peers[x][i]) /\ IdOf(peers[x][i]) = i /\ i # myId[x]
      BY <2>1, Hosts DEF PeerInv
    <3>2. QED
      BY <1>9, <1>15, <3>1
  <2>2. ASSUME NEW x \in Host, NEW i \in 0 .. NumPeers(x) - 1,
               at[x] = "joined", i # myId[x], ~(Grown(x)' /\ i = adding'[x].id)
        PROVE  peers[x][i] # Nil
    <3>1. ~(Grown(x) /\ i = adding[x].id)
      BY <1>10, <1>13, <2>2
    <3>2. QED
      BY <2>2, <3>1 DEF PeerInv
  <2>3. QED
    BY <1>9, <1>12, <1>15, <2>1, <2>2 DEF PeerInv
<1>22. AddInv'
  <2>1. ASSUME NEW x \in Host, adding'[x] # NoEntry
        PROVE  (/\ HasId(adding[x].host) /\ IdOf(adding[x].host) = adding[x].id
                /\ adding[x].id # myId[x] /\ adding[x].id \in {NumPeers(x) - 1, NumPeers(x)})'
    <3>1. CASE x = h
      <4>1. adding'[x].host = g /\ adding'[x].id = id /\ HasId(g)' /\ IdOf(g)' = id
        BY <1>6, <1>10, <1>15, <3>1
      <4>2. id # myId'[x] /\ id = NumPeers(x)'
        BY <1>3, <1>5, <1>9, <1>12, <3>1 DEF PeerInv, TypeInv
      <4>3. QED
        BY <4>1, <4>2
    <3>2. CASE x # h
      <4>1. adding'[x] = adding[x] /\ adding[x] # NoEntry /\ adding[x].host \in Host
        BY <1>10, <2>1, <3>2, Hosts
      <4>2. QED
        BY <1>9, <1>12, <1>15, <4>1 DEF AddInv
    <3>3. QED
      BY <3>1, <3>2
  <2>2. QED
    BY <2>1 DEF AddInv
<1>23. BacklogInv'
  <2>1. ASSUME NEW x \in Host \ {h}, NEW k \in 1 .. Len(backlog[x])
        PROVE  /\ backlog[x][k] \in Host
               /\ wire'[backlog[x][k]][x] = wire[backlog[x][k]][x]
               /\ Hello(backlog[x][k], x)' = Hello(backlog[x][k], x)
    <3>1. PICK z \in Host : z = backlog[x][k]
      BY Hosts
    <3>2. wire'[z][x] = wire[z][x] /\ Hello(z, x)' = Hello(z, x)
      BY <1>8, <1>9 DEF Hello
    <3>3. QED
      BY <1>10, <2>1, <3>1, <3>2 DEF Hello
  <2>2. ASSUME NEW k \in 1 .. Len(tail)
        PROVE  (/\ wire[tail[k]][h] # <<>> /\ Head(wire[tail[k]][h]) = Hello(tail[k], h)
                /\ at[tail[k]] \in {"dialling", "joined"}
                /\ myId[tail[k]] = Expects(h) + k - 1)'
    <3>1. PICK j \in 1 .. Len(backlog[h]) : j = k + 1
      BY <1>5
    <3>2. PICK z \in Host : z = backlog[h][j]
      BY Hosts
    <3>3. tail[k] = z
      BY <1>5, <3>1, <3>2
    <3>4. /\ wire[z][h] # <<>> /\ Head(wire[z][h]) = Hello(z, h)
          /\ at[z] \in {"dialling", "joined"} /\ myId[z] = id + j - 1
      BY <1>6, <3>2 DEF BacklogInv
    <3>5. z # g
      BY <1>5, <3>1, <3>4
    <3>6. wire'[z][h] = wire[z][h] /\ Hello(z, h)' = Hello(z, h)
      BY <1>8, <1>9, <3>5 DEF Hello
    <3>7. myId[z] = Expects(h)' + k - 1
      BY <1>13, <3>1, <3>4
    <3>8. QED
      BY <1>9, <3>3, <3>4, <3>6, <3>7
  <2>3. \A x \in Host : \A k \in 1 .. Len(backlog'[x]) :
          (wire[backlog[x][k]][x] # <<>> /\ Head(wire[backlog[x][k]][x]) = Hello(backlog[x][k], x))'
    <3>1. ASSUME NEW x \in Host, NEW k \in 1 .. Len(backlog'[x]), x # h
          PROVE  (wire[backlog[x][k]][x] # <<>>
                   /\ Head(wire[backlog[x][k]][x]) = Hello(backlog[x][k], x))'
      <4>1. backlog'[x] = backlog[x] /\ k \in 1 .. Len(backlog[x])
        BY <1>10, <3>1
      <4>2. wire[backlog[x][k]][x] # <<>>
              /\ Head(wire[backlog[x][k]][x]) = Hello(backlog[x][k], x)
        BY <4>1 DEF BacklogInv
      <4>3. QED
        BY <2>1, <3>1, <4>1, <4>2
    <3>2. QED
      BY <1>10, <2>2, <3>1
  <2>4. \A k \in 1 .. Len(backlog'[First]) :
          (k = 1 /\ at[backlog[First][k]] = "asked" /\ ~HasId(backlog[First][k]))'
    <3>1. backlog'[First] = backlog[First]
      BY <1>1, <1>10
    <3>2. QED
      BY <1>1, <1>9, <1>15, <3>1, Hosts DEF BacklogInv
  <2>5. \A x \in Host \ {First} : \A k \in 1 .. Len(backlog'[x]) :
          (/\ at[backlog[x][k]] \in {"dialling", "joined"}
           /\ myId[backlog[x][k]] = Expects(x) + k - 1)'
    <3>1. ASSUME NEW x \in Host \ {First}, NEW k \in 1 .. Len(backlog'[x]), x # h
          PROVE  (/\ at[backlog[x][k]] \in {"dialling", "joined"}
                  /\ myId[backlog[x][k]] = Expects(x) + k - 1)'
      <4>1. backlog'[x] = backlog[x] /\ k \in 1 .. Len(backlog[x]) /\ Expects(x)' = Expects(x)
        BY <1>10, <1>13, <3>1
      <4>2. /\ at[backlog[x][k]] \in {"dialling", "joined"}
            /\ myId[backlog[x][k]] = Expects(x) + k - 1
        BY <4>1 DEF BacklogInv
      <4>3. QED
        BY <1>9, <4>1, <4>2
    <3>2. QED
      BY <1>10, <2>2, <3>1
  <2>6. QED
    BY <2>3, <2>4, <2>5 DEF BacklogInv
<1>24. CountInv'
  <2>1. ASSUME NEW x \in Host \ {First}, at'[x] = "joined"
        PROVE  Expects(x)' + Len(backlog'[x]) = IF Undialled(x)' THEN Given' - 1 ELSE Given'
    <3>1. Expects(x) + Len(backlog[x]) = IF Undialled(x) THEN Given - 1 ELSE Given
      BY <1>9, <2>1 DEF CountInv
    <3>2. Expects(x)' + Len(backlog'[x]) = Expects(x) + Len(backlog[x])
      <4>1. CASE x = h
        <5>1. Len(backlog'[h]) = Len(backlog[h]) - 1 /\ Len(backlog[h]) \in Nat
          BY <1>5, <1>10
        <5>2. Expects(h)' = Expects(h) + 1 /\ Expects(h) \in Nat
          BY <1>6, <1>13
        <5>3. QED
          BY <4>1, <5>1, <5>2
      <4>2. CASE x # h
        BY <1>10, <1>13, <4>2
      <4>3. QED
        BY <4>1, <4>2
    <3>3. QED
      BY <1>14, <1>16, <3>1, <3>2
  <2>2. QED
    BY <2>1 DEF CountInv
<1>25. WireInv'
  <2>1. SilentInv'
    <3>1. \A x \in Host : at[x] = "off" => x # g /\ x # h
      BY <1>5
    <3>2. \A x \in Host : at[x] = "asked" => x # g
      BY <1>5
    <3>3. \A x, y \in Host : at'[x] = "off" => wire'[x][y] = <<>> /\ wire'[y][x] = <<>>
      <4>1. \A x, y \in Host : at[x] = "off" => wire[x][y] = <<>> /\ wire[y][x] = <<>>
        BY DEF WireInv, SilentInv
      <4>2. QED
        BY <1>8, <1>9, <3>1, <4>1
    <3>4. \A x \in Host : \A y \in Host \ {First} : at'[x] = "asked" => wire'[x][y] = <<>>
      <4>1. \A x \in Host : \A y \in Host \ {First} : at[x] = "asked" => wire[x][y] = <<>>
        BY DEF WireInv, SilentInv
      <4>2. QED
        BY <1>8, <1>9, <3>2, <4>1
    <3>5. QED
      BY <3>3, <3>4 DEF SilentInv
  <2>2. ASSUME NEW x \in Host, NEW y \in Host \ {First},
               at[x] = "dialling", at[y] = "joined", myId[y] >= Dialled(x)
        PROVE  wire'[x][y] = <<>>
    <3>1. wire[x][y] = <<>>
      BY <2>2 DEF WireInv
    <3>2. x # g \/ y # h
      BY <1>5, <3>1
    <3>3. QED
      BY <1>8, <3>1, <3>2
  <2>3. QED
    BY <1>9, <1>15, <2>1, <2>2 DEF WireInv
<1>26. ReceiveInv'
  <2>1. ASSUME NEW x \in Host, NEW f \in receiving[x]
        PROVE  HasId(f.host)' /\ IdOf(f.host)' < Expects(x)'
    <3>1. f.host \in Host /\ HasId(f.host) /\ IdOf(f.host) < Expects(x)
      BY Hosts DEF ReceiveInv
    <3>2. IdOf(f.host) \in Int
      <4>1. Given \in Nat
        BY <1>1, ExpectsNat DEF Given
      <4>2. QED
        BY <3>1, <4>1 DEF IdInv
    <3>3. CASE x = h
      BY <1>6, <1>13, <1>15, <3>1, <3>2, <3>3
    <3>4. CASE x # h
      BY <1>13, <1>15, <3>1, <3>4
    <3>5. QED
      BY <3>3, <3>4
  <2>2. QED
    BY <1>9, <2>1 DEF ReceiveInv
<1>27. QED
  BY <1>17, <1>18, <1>19, <1>20, <1>21, <1>22, <1>23, <1>24, <1>25, <1>26


\* The list of peers has room for the host that is being added.
LEMMA GrowStep ==
  ASSUME ConnInv, NEW h \in Host, Grow(h)
  PROVE  ConnInv'
<1> USE DEF ConnInv
<1>1. PICK n \in Nat \ {0} : n = NumPeers(h)
  BY ExpectsNat
<1>2. /\ adding[h] # NoEntry /\ adding[h].id = n /\ at[h] = "joined"
      /\ adding[h].host \in Host /\ n # myId[h] /\ First \in Host
  <2>1. adding[h] # NoEntry /\ ~(adding[h].id < n)
    BY <1>1 DEF Grow, Grown
  <2>2. adding[h].id \in {n - 1, n} /\ adding[h].id # myId[h]
    BY <1>1, <2>1 DEF AddInv
  <2>3. adding[h].id = n
    BY <2>1, <2>2
  <2>4. QED
    BY <2>1, <2>2, <2>3, Hosts, FirstAssumption DEF JoinInv
<1>3. PICK q \in [0 .. n - 1 -> Host \cup {Nil}] : q = peers[h]
  BY <1>1 DEF TypeInv
<1>4. PICK ps \in [0 .. n -> Host \cup {Nil}] :
        ps = WithPeer(peers[h], n, Nil) /\ \A i \in 0 .. n : ps[i] = IF i = n THEN Nil ELSE q[i]
  BY <1>3, Extending
<1>5. /\ peers' = [peers EXCEPT ![h] = ps]
      /\ UNCHANGED <<at, myId, todo, backlog, adding, receiving, wire, in, sending>>
  <2>1. peers' = [peers EXCEPT ![h] = WithPeer(@, adding[h].id, Nil)]
    BY DEF Grow
  <2>2. peers = [x \in Host |-> peers[x]]
    BY DEF TypeInv
  <2>3. QED
    BY <1>2, <1>4, <2>1, <2>2 DEF Grow
<1>6. /\ NumPeers(h)' = n + 1 /\ peers'[h] = ps
      /\ \A x \in Host \ {h} : NumPeers(x)' = NumPeers(x) /\ peers'[x] = peers[x]
      /\ peers' = [x \in Host |-> peers'[x]]
      /\ \A x \in Host : NumPeers(x)' \in Nat \ {0}
                          /\ peers'[x] \in [0 .. NumPeers(x)' - 1 -> Host \cup {Nil}]
  <2>1. PICK k \in Nat \ {0} : k = n + 1
    BY <1>1
  <2>2. ps \in [0 .. k - 1 -> Host \cup {Nil}]
    BY <2>1
  <2>3. QED
    BY <1>5, <2>1, <2>2, Replaced
<1>7. /\ at' = at /\ myId' = myId /\ todo' = todo /\ backlog' = backlog /\ adding' = adding
      /\ receiving' = receiving /\ wire' = wire
  BY <1>5
<1>8. /\ Grown(h)' /\ \A x \in Host \ {h} : Grown(x)' <=> Grown(x)
      /\ \A x \in Host : Expects(x)' = Expects(x)
  <2>1. Grown(h)'
    BY <1>2, <1>6, <1>7 DEF Grown
  <2>2. Expects(h)' = Expects(h)
    BY <1>2, <1>7 DEF Expects
  <2>3. QED
    BY <1>6, <1>7, <2>1, <2>2 DEF Grown, Expects
<1>9. Given' = Given
  BY <1>2, <1>8 DEF Given
<1>10. \A x \in Host : /\ (HasId(x)' <=> HasId(x)) /\ IdOf(x)' = IdOf(x)
                       /\ Dialled(x)' = Dialled(x)
  BY <1>7 DEF HasId, IdOf, Dialled
<1>11. \A x \in Host : Undialled(x)' <=> Undialled(x)
  BY <1>7, <1>10 DEF Undialled
<1>12. TypeInv'
  <2>1. /\ out' \in [Host -> Seq(Envelope)] /\ msg' \in [Host -> Envelope]
        /\ retries' \in [Host -> Nat] /\ sends' \in Nat
    BY <1>5 DEF TypeInv, sending
  <2>2. QED
    BY <1>6, <1>7, <2>1 DEF TypeInv
<1>13. JoinInv'
  <2>1. out' = out /\ retries' = retries
    BY <1>5 DEF sending
  <2>2. \A x \in Host : at[x] # "joined" => NumPeers(x)' = NumPeers(x)
    BY <1>2, <1>6
  <2>3. QED
    BY <1>7, <2>1, <2>2 DEF JoinInv
<1>14. IdInv'
  BY <1>7, <1>9, <1>10 DEF IdInv
<1>15. ReplyInv'
  <2>1. \A s, i : HostsFrom(s, i) <=> HostsFrom(s, i)'
    BY <1>7 DEF HostsFrom
  <2>2. \A x \in Host : at[x] = "dialling" => HostsFrom(todo[x], Dialled(x))'
    BY <1>7, <1>10, <2>1 DEF ReplyInv
  <2>3. \A x \in Host : at[x] = "dialling" => NumPeers(x)' = NumPeers(x)
    BY <1>2, <1>6
  <2>4. QED
    BY <1>7, <2>1, <2>2, <2>3 DEF ReplyInv
<1>16. PeerInv'
  <2>1. \A i \in 0 .. n : peers'[h][i] = IF i = n THEN Nil ELSE peers[h][i]
    BY <1>3, <1>4, <1>6
  <2>2. ASSUME NEW x \in Host, NEW i \in 0 .. NumPeers(x)' - 1, peers'[x][i] # Nil
        PROVE  i \in 0 .. NumPeers(x) - 1 /\ peers'[x][i] = peers[x][i]
    <3>1. CASE x = h
      <4>1. i \in 0 .. n /\ peers'[h][i] # Nil
        BY <1>1, <1>6, <2>2, <3>1
      <4>2. i # n /\ peers'[h][i] = peers[h][i]
        BY <2>1, <4>1
      <4>3. QED
        BY <1>1, <3>1, <4>1, <4>2
    <3>2. CASE x # h
      BY <1>6, <2>2, <3>2
    <3>3. QED
      BY <3>1, <3>2
  <2>3. ASSUME NEW x \in Host, NEW i \in 0 .. NumPeers(x)' - 1, peers'[x][i] # Nil
        PROVE  (HasId(peers[x][i]) /\ IdOf(peers[x][i]) = i /\ i # myId[x])'
    <3>1. PICK z \in Host : z = peers[x][i] /\ z = peers'[x][i]
      BY <2>2, <2>3, Hosts
    <3>2. HasId(z) /\ IdOf(z) = i /\ i # myId[x]
      BY <2>2, <2>3, <3>1 DEF PeerInv
    <3>3. QED
      BY <1>7, <1>10, <3>1, <3>2
  <2>4. ASSUME NEW x \in Host, NEW i \in 0 .. NumPeers(x)' - 1,
               at[x] = "joined", i # myId[x], ~(Grown(x)' /\ i = adding[x].id)
        PROVE  peers'[x][i] # Nil
    <3>1. CASE x = h
      <4>1. i \in 0 .. n /\ i # n
        BY <1>1, <1>2, <1>6, <1>8, <2>4, <3>1
      <4>2. i \in 0 .. NumPeers(h) - 1 /\ ~Grown(h)
        BY <1>1, <4>1 DEF Grow
      <4>3. peers[h][i] # Nil
        BY <2>4, <3>1, <4>2 DEF PeerInv
      <4>4. QED
        BY <2>1, <3>1, <4>1, <4>3
    <3>2. CASE x # h
      <4>1. /\ NumPeers(x)' = NumPeers(x) /\ peers'[x] = peers[x]
            /\ Grown(x)' <=> Grown(x)
        BY <1>6, <1>8, <3>2
      <4>2. i \in 0 .. NumPeers(x) - 1 /\ ~(Grown(x) /\ i = adding[x].id)
        BY <2>4, <4>1
      <4>3. peers[x][i] # Nil
        BY <2>4, <4>2 DEF PeerInv
      <4>4. QED
        BY <4>1, <4>3
    <3>3. QED
      BY <3>1, <3>2
  <2>5. ASSUME NEW x \in Host, at[x] = "dialling", NEW i \in 0 .. Dialled(x) - 1
        PROVE  peers'[x][i] # Nil
    <3>1. peers'[x] = peers[x]
      BY <1>2, <1>6, <2>5
    <3>2. peers[x][i] # Nil
      BY <2>5 DEF PeerInv
    <3>3. QED
      BY <3>1, <3>2
  <2>6. ASSUME NEW x \in Host, at[x] = "joined"
        PROVE  myId[x] < NumPeers(x)'
    <3>1. myId[x] < NumPeers(x) /\ myId[x] \in Nat
      BY <2>6 DEF PeerInv, TypeInv
    <3>2. QED
      BY <1>1, <1>6, <3>1
  <2>7. QED
    BY <1>7, <1>10, <2>3, <2>4, <2>5, <2>6 DEF PeerInv
<1>17. AddInv'
  <2>1. ASSUME NEW x \in Host, adding[x] # NoEntry
        PROVE  adding[x].id \in {NumPeers(x)' - 1, NumPeers(x)'}
    <3>1. CASE x = h
      BY <1>2, <1>6, <3>1
    <3>2. CASE x # h
      BY <1>6, <2>1, <3>2 DEF AddInv
    <3>3. QED
      BY <3>1, <3>2
  <2>2. QED
    BY <1>7, <1>10, <2>1, Hosts DEF AddInv
<1>18. BacklogInv'
  BY <1>2, <1>7, <1>8, <1>10, Hosts DEF BacklogInv, Hello
<1>19. CountInv'
  BY <1>7, <1>8, <1>9, <1>11 DEF CountInv
<1>20. WireInv'
  BY <1>7, <1>10 DEF WireInv, SilentInv
<1>21. ReceiveInv'
  BY <1>7, <1>8, <1>10, Hosts DEF ReceiveInv
<1>22. QED
  BY <1>12, <1>13, <1>14, <1>15, <1>16, <1>17, <1>18, <1>19, <1>20, <1>21

\* The entry is set, and the host has one more peer.
LEMMA AddHostEndsStep ==
  ASSUME ConnInv, NEW h \in Host, AddHostEnds(h)
  PROVE  ConnInv'
<1> USE DEF ConnInv
<1>1. PICK n \in Nat \ {0} : n = NumPeers(h)
  BY ExpectsNat
<1>2. PICK e \in Entry : e = adding[h]
  BY DEF TypeInv, AddHostEnds, Grown
<1>3. /\ e # NoEntry /\ e.id = n - 1 /\ at[h] = "joined" /\ e.id # myId[h]
      /\ e.host \in Host /\ e.id \in 0 .. n - 1 /\ First \in Host
      /\ HasId(e.host) /\ IdOf(e.host) = e.id
  <2>1. e # NoEntry /\ e.id < n
    BY <1>1, <1>2 DEF AddHostEnds, Grown
  <2>2. /\ e.id \in {n - 1, n} /\ e.id # myId[h]
        /\ HasId(e.host) /\ IdOf(e.host) = e.id
    BY <1>1, <1>2, <2>1 DEF AddInv
  <2>3. e.id = n - 1 /\ e.id \in 0 .. n - 1
    BY <2>1, <2>2
  <2>4. at[h] = "joined"
    BY <1>2, <2>1 DEF JoinInv
  <2>5. QED
    BY <2>1, <2>2, <2>3, <2>4, FirstAssumption DEF Entry
<1>4. PICK q \in [0 .. n - 1 -> Host \cup {Nil}] : q = peers[h]
  BY <1>1 DEF TypeInv
<1>5. PICK ps \in [0 .. n - 1 -> Host \cup {Nil}] :
        /\ ps = WithPeer(peers[h], e.id, e.host)
        /\ \A i \in 0 .. n - 1 : ps[i] = IF i = e.id THEN e.host ELSE q[i]
  BY <1>3, <1>4, Replacing
<1>6. /\ peers' = [peers EXCEPT ![h] = ps]
      /\ adding' = [adding EXCEPT ![h] = NoEntry]
      /\ receiving' = [receiving EXCEPT ![h] = @ \cup {e}]
      /\ UNCHANGED <<at, myId, todo, backlog, wire, in, sending>>
  <2>1. /\ peers' = [peers EXCEPT ![h] = WithPeer(@, e.id, e.host)]
        /\ receiving' = [receiving EXCEPT ![h] = @ \cup {e}]
    BY <1>2 DEF AddHostEnds, Receiving
  <2>2. peers = [x \in Host |-> peers[x]]
    BY DEF TypeInv
  <2>3. QED
    BY <1>5, <2>1, <2>2 DEF AddHostEnds
<1>7. /\ NumPeers(h)' = n /\ peers'[h] = ps
      /\ \A x \in Host \ {h} : NumPeers(x)' = NumPeers(x) /\ peers'[x] = peers[x]
      /\ peers' = [x \in Host |-> peers'[x]]
      /\ \A x \in Host : NumPeers(x)' \in Nat \ {0}
                          /\ peers'[x] \in [0 .. NumPeers(x)' - 1 -> Host \cup {Nil}]
  BY <1>5, <1>6, Replaced
<1>8. at' = at /\ myId' = myId /\ todo' = todo /\ backlog' = backlog /\ wire' = wire
  BY <1>6
<1>9. /\ adding' \in [Host -> Entry \cup {NoEntry}] /\ adding'[h] = NoEntry
      /\ \A x \in Host \ {h} : adding'[x] = adding[x]
      /\ receiving' \in [Host -> SUBSET Entry]
      /\ \A x \in Host : receiving'[x] \subseteq receiving[x] \cup {e}
      /\ \A x \in Host \ {h} : receiving'[x] = receiving[x]
  BY <1>6 DEF TypeInv
<1>10. \A x \in Host : NumPeers(x)' = NumPeers(x)
  BY <1>1, <1>7
<1>11. Expects(h) = n
  BY <1>2, <1>3 DEF Expects
<1>12. /\ ~Grown(h)' /\ \A x \in Host \ {h} : Grown(x)' <=> Grown(x)
       /\ \A x \in Host : Expects(x)' = Expects(x)
  <2>1. ~Grown(h)' /\ Expects(h)' = n
    BY <1>7, <1>9 DEF Grown, Expects
  <2>2. \A x \in Host \ {h} : (Grown(x)' <=> Grown(x)) /\ Expects(x)' = Expects(x)
    BY <1>9, <1>10 DEF Grown, Expects
  <2>3. QED
    BY <1>11, <2>1, <2>2
<1>13. Given' = Given
  BY <1>3, <1>12 DEF Given
<1>14. \A x \in Host : /\ (HasId(x)' <=> HasId(x)) /\ IdOf(x)' = IdOf(x)
                       /\ Dialled(x)' = Dialled(x)
  BY <1>8 DEF HasId, IdOf, Dialled
<1>15. \A x \in Host : Undialled(x)' <=> Undialled(x)
  BY <1>8, <1>14 DEF Undialled
<1>16. TypeInv'
  <2>1. /\ out' \in [Host -> Seq(Envelope)] /\ msg' \in [Host -> Envelope]
        /\ retries' \in [Host -> Nat] /\ sends' \in Nat
    BY <1>6 DEF TypeInv, sending
  <2>2. QED
    BY <1>7, <1>8, <1>9, <2>1 DEF TypeInv
<1>17. JoinInv'
  <2>1. out' = out /\ retries' = retries
    BY <1>6 DEF sending
  <2>2. \A x \in Host : at[x] # "joined" => adding'[x] = adding[x] /\ receiving'[x] = receiving[x]
    BY <1>3, <1>9
  <2>3. QED
    BY <1>8, <1>10, <2>1, <2>2 DEF JoinInv
<1>18. IdInv'
  BY <1>8, <1>13, <1>14 DEF IdInv
<1>19. ReplyInv'
  <2>1. \A s, i : HostsFrom(s, i) <=> HostsFrom(s, i)'
    BY <1>8 DEF HostsFrom
  <2>2. \A x \in Host : at[x] = "dialling" => HostsFrom(todo[x], Dialled(x))'
    BY <1>8, <1>14, <2>1 DEF ReplyInv
  <2>3. QED
    BY <1>8, <1>10, <2>1, <2>2 DEF ReplyInv
<1>20. PeerInv'
  <2>1. \A i \in 0 .. n - 1 : peers'[h][i] = IF i = e.id THEN e.host ELSE peers[h][i]
    BY <1>4, <1>5, <1>7
  <2>2. ASSUME NEW x \in Host, NEW i \in 0 .. NumPeers(x) - 1, peers'[x][i] # Nil
        PROVE  (HasId(peers[x][i]) /\ IdOf(peers[x][i]) = i /\ i # myId[x])'
    <3>1. CASE x = h /\ i = e.id
      <4>1. peers'[x][i] = e.host
        BY <1>3, <2>1, <3>1
      <4>2. QED
        BY <1>3, <1>8, <1>14, <3>1, <4>1
    <3>2. CASE x # h \/ i # e.id
      <4>1. peers'[x][i] = peers[x][i]
        BY <1>1, <1>7, <2>1, <2>2, <3>2
      <4>2. PICK z \in Host : z = peers[x][i]
        BY <2>2, <4>1, Hosts
      <4>3. HasId(z) /\ IdOf(z) = i /\ i # myId[x]
        BY <2>2, <4>1, <4>2 DEF PeerInv
      <4>4. QED
        BY <1>8, <1>14, <4>1, <4>2, <4>3
    <3>3. QED
      BY <3>1, <3>2
  <2>3. ASSUME NEW x \in Host, NEW i \in 0 .. NumPeers(x) - 1,
               at[x] = "joined", i # myId[x], ~(Grown(x)' /\ i = adding'[x].id)
        PROVE  peers'[x][i] # Nil
    <3>1. CASE x = h /\ i = e.id
      <4>1. peers'[x][i] = e.host /\ e.host \in Host
        BY <1>3, <2>1, <3>1
      <4>2. QED
        BY <4>1, FirstAssumption
    <3>2. CASE x = h /\ i # e.id
      <4>1. peers[x][i] # Nil
        BY <1>2, <2>3, <3>2 DEF PeerInv
      <4>2. QED
        BY <1>1, <2>1, <2>3, <3>2, <4>1
    <3>3. CASE x # h
      <4>1. peers'[x] = peers[x] /\ adding'[x] = adding[x] /\ (Grown(x)' <=> Grown(x))
        BY <1>7, <1>9, <1>12, <3>3
      <4>2. ~(Grown(x) /\ i = adding[x].id)
        BY <2>3, <4>1
      <4>3. peers[x][i] # Nil
        BY <2>3, <4>2 DEF PeerInv
      <4>4. QED
        BY <4>1, <4>3
    <3>4. QED
      BY <3>1, <3>2, <3>3
  <2>4. ASSUME NEW x \in Host, at[x] = "dialling", NEW i \in 0 .. Dialled(x) - 1
        PROVE  peers'[x][i] # Nil
    <3>1. peers'[x] = peers[x]
      BY <1>3, <1>7, <2>4
    <3>2. peers[x][i] # Nil
      BY <2>4 DEF PeerInv
    <3>3. QED
      BY <3>1, <3>2
  <2>5. QED
    BY <1>8, <1>10, <1>14, <2>2, <2>3, <2>4 DEF PeerInv
<1>21. AddInv'
  <2>1. ASSUME NEW x \in Host, adding'[x] # NoEntry
        PROVE  (/\ HasId(adding[x].host) /\ IdOf(adding[x].host) = adding[x].id
                /\ adding[x].id # myId[x] /\ adding[x].id \in {NumPeers(x) - 1, NumPeers(x)})'
    <3>1. x # h
      BY <1>9, <2>1
    <3>2. adding'[x] = adding[x] /\ adding[x] # NoEntry /\ adding[x].host \in Host
      BY <1>9, <2>1, <3>1, Hosts
    <3>3. QED
      BY <1>8, <1>10, <1>14, <3>2 DEF AddInv
  <2>2. QED
    BY <2>1 DEF AddInv
<1>22. BacklogInv'
  BY <1>3, <1>8, <1>12, <1>14, Hosts DEF BacklogInv, Hello
<1>23. CountInv'
  BY <1>8, <1>12, <1>13, <1>15 DEF CountInv
<1>24. WireInv'
  BY <1>8, <1>14 DEF WireInv, SilentInv
<1>25. ReceiveInv'
  <2>1. ASSUME NEW x \in Host, NEW f \in receiving'[x]
        PROVE  (HasId(f.host) /\ IdOf(f.host) < Expects(x))'
    <3>1. CASE x = h /\ f = e
      BY <1>3, <1>11, <1>12, <1>14, <3>1
    <3>2. CASE x # h \/ f # e
      <4>1. f \in receiving[x]
        BY <1>9, <2>1, <3>2
      <4>2. f.host \in Host
        BY <4>1, Hosts
      <4>3. QED
        BY <1>12, <1>14, <4>1, <4>2 DEF ReceiveInv
    <3>3. QED
      BY <3>1, <3>2
  <2>2. QED
    BY <2>1 DEF ReceiveInv
<1>26. QED
  BY <1>16, <1>17, <1>18, <1>19, <1>20, <1>21, <1>22, <1>23, <1>24, <1>25


-------------------------------------------------------------------------------
(* The theorems *)

LEMMA ConnStep ==
  ASSUME ~Overlap, ConnInv, [Next]_vars
  PROVE  ConnInv'
<1>1. ASSUME UNCHANGED <<joining, wire, in, sending>> PROVE ConnInv'
  <2>1. TypeInv' /\ JoinInv'
    <3>1. \A h \in Host : NumPeers(h)' = NumPeers(h)
      BY <1>1 DEF joining, NumPeers
    <3>2. QED
      BY <1>1, <3>1 DEF ConnInv, TypeInv, JoinInv, joining, sending
  <2>2. QED
    BY <1>1, <2>1, Apart
<1>2. CASE Next
  <2>1. PICK h \in Host :
          \/ Joins(h) \/ Listens(h) \/ sendLoop(h) \/ PutBack(h)
          \/ \E id \in Id : Send(h, id)
          \/ \E e \in receiving[h] : Receive(h, e)
    BY <1>2 DEF Next, PutsBack, Receives
  <2>2. CASE Joins(h)
    BY <2>2, DialStep, ReadReplyStep, DialPeerStep, ConnectedStep DEF Joins
  <2>3. CASE Listens(h)
    <3>1. CASE AddHost(h)
      BY <3>1, AddFirstStep, AddOtherStep
    <3>2. QED
      BY <2>3, <3>1, GrowStep, AddHostEndsStep DEF Listens
  <2>4. CASE sendLoop(h)
    <3>1. CASE SendToNil(h)
      BY <1>1, <3>1 DEF SendToNil
    <3>2. QED
      BY <2>4, <3>1, SendStep, SendToPeerStep DEF sendLoop
  <2>5. CASE PutBack(h) \/ \E id \in Id : Send(h, id)
    BY <2>5, SendStep
  <2>6. CASE \E e \in receiving[h] : Receive(h, e)
    BY <2>6, ReceiveStep
  <2>7. QED
    BY <2>1, <2>2, <2>3, <2>4, <2>5, <2>6
<1>3. QED
  BY <1>1, <1>2 DEF vars

\* When hosts join one after the other, the backlogs, replies, lists of peers
\* and messages of network/connection.go stay related by the number of ids that
\* addHost of the first host has given.
THEOREM ConnInvariance ==
  ASSUME ~Overlap
  PROVE  Spec => []ConnInv
<1>1. ConnInv /\ [Next]_vars => ConnInv'
  BY ConnStep
<1>2. QED
  BY <1>1, ConnInit, PTL DEF Spec

\* Once everybody has joined, Connect and addHost have given every host its own
\* id, and every host has every other one at its id in its list of peers.
THEOREM PeersCompleteCorrect ==
  ASSUME ~Overlap
  PROVE  Spec => []PeersComplete
<1>1. ASSUME ConnInv, Settled, NEW g \in Host, NEW h \in Host, g # h
      PROVE  /\ myId[g] # myId[h] /\ myId[g] < NumPeers(h)
             /\ peers[h][myId[g]] = g
  <2> USE <1>1 DEF ConnInv
  <2>1. /\ \A x \in Host : at[x] = "joined" /\ HasId(x) /\ IdOf(x) = myId[x]
        /\ \A x \in Host : Expects(x) = NumPeers(x) /\ ~Grown(x) /\ Len(backlog[x]) = 0
    BY Known DEF Settled, Expects, Grown
  <2>2. myId[g] # myId[h]
    BY <2>1 DEF IdInv
  <2>3. NumPeers(h) = Given
    <3>1. CASE h = First
      BY <2>1, <3>1 DEF Given
    <3>2. CASE h # First
      <4>1. ~Undialled(h)
        BY <2>1 DEF Undialled
      <4>2. NumPeers(h) + 0 = Given
        BY <2>1, <3>2, <4>1 DEF CountInv
      <4>3. QED
        BY <4>2, ExpectsNat
    <3>3. QED
      BY <3>1, <3>2
  <2>4. PICK i \in 0 .. NumPeers(h) - 1 : i = myId[g]
    BY <2>1, <2>3 DEF IdInv
  <2>5. peers[h][i] # Nil
    BY <2>1, <2>2, <2>4 DEF PeerInv
  <2>6. PICK z \in Host : z = peers[h][i]
    BY <2>5, Hosts
  <2>7. HasId(z) /\ IdOf(z) = i
    BY <2>5, <2>6 DEF PeerInv
  <2>8. z = g
    BY <2>1, <2>4, <2>7 DEF IdInv
  <2>9. QED
    BY <2>2, <2>4, <2>6, <2>8, ExpectsNat
<1>2. ConnInv => PeersComplete
  BY <1>1 DEF PeersComplete
<1>3. QED
  BY <1>2, ConnInvariance, PTL

\* When hosts join one after the other, sendLoop ends its process only in the
\* middle of an addPeer of its host, and by a message for the new peer: all
\* other entries of its list of peers have a connection.
THEOREM EndsOnlyInAddPeerCorrect ==
  ASSUME ~Overlap
  PROVE  Spec => EndsOnlyInAddPeer
<1> DEFINE InAddPeer(h) == Grown(h) /\ out[h] # <<>> /\ Head(out[h]).to = adding[h].id
<1>1. ASSUME ConnInv, NEW h \in Host, SendToNil(h) PROVE InAddPeer(h)
  <2> DEFINE i == Head(out[h]).to
  <2>1. out[h] # <<>> /\ i # myId[h] /\ ~Early(h, Head(out[h])) /\ peers[h][i] = Nil
    BY <1>1 DEF SendToNil
  <2>2. at[h] = "joined"
    BY <1>1, <2>1 DEF ConnInv, JoinInv
  <2>3. i \in 0 .. NumPeers(h) - 1
    <3>1. Head(out[h]) \in Envelope
      BY <1>1, <2>1 DEF ConnInv, TypeInv
    <3>2. i \in Nat /\ NumPeers(h) \in Nat
      BY <1>1, <3>1 DEF Envelope, ConnInv, TypeInv
    <3>3. QED
      BY <2>1, <3>2 DEF Early
  <2>4. Grown(h) /\ i = adding[h].id
    BY <1>1, <2>1, <2>2, <2>3 DEF ConnInv, PeerInv
  <2>5. QED
    BY <2>1, <2>4
<1>2. ConnInv /\ [Next]_vars => [ended' # ended => \E h \in Host : InAddPeer(h)]_vars
  <2>1. SUFFICES ASSUME ConnInv, Next, ended' # ended PROVE \E h \in Host : InAddPeer(h)
    OBVIOUS
  <2>2. PICK h \in Host : SendToNil(h)
    BY <2>1 DEF Next, Joins, Listens, sendLoop, PutsBack, Receives, Running
  <2>3. QED
    BY <1>1, <2>1, <2>2
<1>3. QED
  BY <1>2, ConnInvariance, PTL DEF Spec, EndsOnlyInAddPeer
===============================================================================
