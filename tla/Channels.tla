------------------------------- MODULE Channels -------------------------------
(***************************************************************************)
(* What a connection promises the code above it: a message that a process  *)
(* sends to an id comes to the process with that id once, with the id of   *)
(* its sender, and behind what the same sender sent there before.  There   *)
(* are no peers, dials and retries here; Connection is shown to implement  *)
(* this, and TMLock and TMHost assume it of the network.                   *)
(***************************************************************************)
EXTENDS Sequences

CONSTANTS Id, Body

VARIABLES
  queue,   \* queue[i][j]: what i has sent to j and j has not got
  got      \* got[j]: what j has got, in order

vars == <<queue, got>>

Init ==
  /\ queue = [i \in Id |-> [j \in Id |-> <<>>]]
  /\ got = [j \in Id |-> <<>>]

Send(i, j, b) ==
  /\ queue' = [queue EXCEPT ![i][j] = Append(@, b)]
  /\ UNCHANGED got

Deliver(i, j) ==
  /\ queue[i][j] # <<>>
  /\ queue' = [queue EXCEPT ![i][j] = Tail(@)]
  /\ got' = [got EXCEPT ![j] = Append(@, [from |-> i, body |-> Head(queue[i][j])])]

Next ==
  \E i, j \in Id : Deliver(i, j) \/ \E b \in Body : Send(i, j, b)

Spec == Init /\ [][Next]_vars
===============================================================================
