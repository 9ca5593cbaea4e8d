---------------------------- MODULE BarrierManager ----------------------------
(***************************************************************************)
(* The barrier manager of treadmarks/tm_manager.go (BarrierManagerImp),    *)
(* which serves Barrier of the multiview and the first TreadMarks hosts.   *)
(*                                                                         *)
(* HandleBarrier runs in a goroutine for each request.  The first to       *)
(* arrive at a barrier makes a WaitGroup that expects every node; each one *)
(* calls Done and waits; and each one that gets through deletes the        *)
(* barrier's entry if there is one.  Between Wait and that deletion other  *)
(* hosts may go on to their next barrier.                                  *)
(*                                                                         *)
(* A program is the sequence of the ids of the barriers it passes; all     *)
(* hosts run the same one.  MVSync composes this with the lock manager and *)
(* the calls of the hosts.                                                 *)
(***************************************************************************)
EXTENDS Integers, Sequences, FiniteSets

CONSTANTS
  Node,       \* the hosts; NewBarrierManagerImp is told how many
  NoGroup,    \* no entry in the map of barriers
  Program     \* the ids of the barriers, in the order the hosts come to them

Ids == {Program[i] : i \in DOMAIN Program}
Group == 1 .. Cardinality(Node) * Len(Program)

ASSUME NodeAssumption == IsFiniteSet(Node) /\ Node # {}
ASSUME NoGroupAssumption == NoGroup \notin Nat
ASSUME ProgramAssumption == Program \in Seq(Nat)

VARIABLES
  barriers,   \* barriers[id]: the WaitGroup of barrier id
  counter,    \* counter[g]: how many WaitGroup g still waits for
  created,    \* how many WaitGroups there are
  waitsFor,   \* waitsFor[h]: the WaitGroup h's goroutine waits for
  passed      \* passed[h]: how many barriers h has passed

vars == <<barriers, counter, created, waitsFor, passed>>

TypeOK ==
  /\ barriers \in [Ids -> Group \cup {NoGroup}]
  /\ counter \in [Group -> Int]
  /\ created \in Nat
  /\ waitsFor \in [Node -> Group \cup {NoGroup}]
  /\ passed \in [Node -> 0 .. Len(Program)]

Init ==
  /\ barriers = [id \in Ids |-> NoGroup]
  /\ counter = [g \in Group |-> Cardinality(Node)]
  /\ created = 0
  /\ waitsFor = [h \in Node |-> NoGroup]
  /\ passed = [h \in Node |-> 0]

\* The id of the barrier h is at or comes to next.
Next_id(h) == Program[passed[h] + 1]

\* The WaitGroup of barrier id, a new one if there is none.
GroupOf_new(id) == created + 1
GroupOf(id) == IF barriers[id] = NoGroup THEN created + 1 ELSE barriers[id]

\* HandleBarrier up to Wait, under bm.Mutex.
Arrive(h) ==
  LET id == Next_id(h)
      g  == GroupOf(id)
  IN /\ waitsFor[h] = NoGroup
     /\ passed[h] < Len(Program)
     /\ barriers' = [barriers EXCEPT ![id] = g]
     /\ created' = IF g > created THEN g ELSE created
     /\ counter' = [counter EXCEPT ![g] = @ - 1]
     /\ waitsFor' = [waitsFor EXCEPT ![h] = g]
     /\ UNCHANGED passed

\* What the deletion after Wait leaves in the map (a nil entry is not one).
Deleted_nil(b, id) == [b EXCEPT ![id] = 0]
Deleted_not(b, id) == b
Deleted(b, id) == [b EXCEPT ![id] = NoGroup]

\* Wait returns when the counter is at zero.
Through_early(g) == counter[g] <= 1
Through(g) == counter[g] = 0

\* HandleBarrier from the return of Wait, and the response to the host.
Leave(h) ==
  /\ waitsFor[h] # NoGroup
  /\ Through(waitsFor[h])
  /\ barriers' = Deleted(barriers, Next_id(h))
  /\ waitsFor' = [waitsFor EXCEPT ![h] = NoGroup]
  /\ passed' = [passed EXCEPT ![h] = @ + 1]
  /\ UNCHANGED <<counter, created>>

-------------------------------------------------------------------------------
(* Properties *)

\* The number of barriers h has come to.
Arrived(h) == passed[h] + (IF waitsFor[h] = NoGroup THEN 0 ELSE 1)

\* No host passes a barrier that another has not come to.
NobodyAhead == \A g, h \in Node : passed[h] <= Arrived(g)

\* Done is never called on a WaitGroup that is at zero, which panics.
CounterNotNegative == \A g \in Group : counter[g] >= 0

\* A host gets through every barrier it comes to.  Test (tm_system_test.go,
\* lines 331 to 390): two hosts call Barrier(1) three times and get through.
BarrierPassed == \A h \in Node : waitsFor[h] # NoGroup ~> waitsFor[h] = NoGroup
===============================================================================
