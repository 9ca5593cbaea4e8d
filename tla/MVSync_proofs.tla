----------------------------- MODULE MVSync_proofs -----------------------------
(***************************************************************************)
(* The safety of Lock, Release and Barrier of the multiview hosts, for     *)
(* every set of hosts, every set of locks and every sequence of barriers.  *)
(*                                                                         *)
(* First what HandleBarrier preserves: no host passes a barrier that       *)
(* another has not come to, and Done is never called on a WaitGroup that   *)
(* is at zero.  Then the locks, and the composed system.                   *)
(***************************************************************************)
EXTENDS MVSync, TLAPS, FiniteSetTheorems

-------------------------------------------------------------------------------
(* Barriers: the inductive invariant *)

N == Cardinality(Node)

Waiters(g) == {h \in Node : waitsFor[h] = g}

\* The arrivals so far: <<h, i>> is h's arrival at its i-th barrier.
Arrivals == {e \in Node \X (1 .. Len(Program)) : e[2] <= Arrived(e[1])}

\* A WaitGroup is made by an arrival, so that there are never more.
CreatedInv ==
  /\ created <= Cardinality(Arrivals)
  /\ \A h \in Node : waitsFor[h] # NoGroup =>
       waitsFor[h] <= created /\ passed[h] < Len(Program)
  /\ \A id \in Ids : barriers[id] # NoGroup => barriers[id] <= created

\* A WaitGroup in the map waits for those who do not wait for it; one that is
\* no longer there is done, or nobody will come to it any more.
CounterInv ==
  /\ \A g \in Group : g > created => counter[g] = N
  /\ \A g \in Group :
       counter[g] = 0 \/ counter[g] = N - Cardinality(Waiters(g))
  /\ \A id \in Ids : \A g \in Group : barriers[id] = g =>
       counter[g] = N - Cardinality(Waiters(g))

\* The map has a WaitGroup under one id, the one its waiters came with.
MapInv ==
  /\ \A id \in Ids : \A g \in Group : barriers[id] = g => Waiters(g) # {}
  /\ \A id \in Ids : \A h \in Node :
       barriers[id] # NoGroup /\ waitsFor[h] = barriers[id] => Next_id(h) = id

\* Hosts that wait together have passed equally many barriers; when a
\* WaitGroup is done, every host waits for it or has gone through; and who is
\* behind another host waits for a WaitGroup that is not in the map.
RoundInv ==
  /\ NobodyAhead
  /\ \A h, k \in Node :
       waitsFor[h] # NoGroup /\ waitsFor[k] = waitsFor[h] => passed[k] = passed[h]
  /\ \A h, k \in Node :
       waitsFor[h] # NoGroup /\ counter[waitsFor[h]] = 0 =>
         waitsFor[k] = waitsFor[h] \/ passed[k] > passed[h]
  /\ \A h, k \in Node :
       waitsFor[h] # NoGroup /\ passed[k] > passed[h] =>
         \A id \in Ids : barriers[id] # waitsFor[h]

BarrierInv == TypeOK /\ CreatedInv /\ CounterInv /\ MapInv /\ RoundInv

-------------------------------------------------------------------------------
(* Barriers: facts about the constants *)

LEMMA NodeCount == N \in Nat \ {0} /\ IsFiniteSet(Node)
<1>1. IsFiniteSet(Node) /\ Node # {}
  BY NodeAssumption
<1>2. N \in Nat
  BY <1>1, FS_CardinalityType DEF N
<1>3. N # 0
  BY <1>1, FS_EmptySet DEF N
<1>4. QED
  BY <1>1, <1>2, <1>3

LEMMA ProgramLength ==
  /\ Len(Program) \in Nat
  /\ DOMAIN Program = 1 .. Len(Program)
  /\ N * Len(Program) \in Nat
<1>1. Len(Program) \in Nat /\ DOMAIN Program = 1 .. Len(Program)
  BY ProgramAssumption
<1>2. QED
  BY <1>1, NodeCount

LEMMA GroupType == Group \subseteq Nat /\ NoGroup \notin Group
BY NoGroupAssumption, ProgramLength DEF Group, N

\* A barrier that is still to come has an id.
LEMMA NextIdType ==
  ASSUME NEW h \in Node, passed[h] \in 0 .. Len(Program), passed[h] < Len(Program)
  PROVE  Next_id(h) \in Ids
<1>1. passed[h] + 1 \in DOMAIN Program
  BY ProgramLength
<1>2. QED
  BY <1>1 DEF Next_id, Ids

\* The hosts that wait for a WaitGroup are finitely many, at most all.
LEMMA WaitersCount ==
  ASSUME NEW g
  PROVE  /\ IsFiniteSet(Waiters(g))
         /\ Cardinality(Waiters(g)) \in 0 .. N
         /\ Cardinality(Waiters(g)) = N => Waiters(g) = Node
         /\ Waiters(g) = {} => Cardinality(Waiters(g)) = 0
<1>1. Waiters(g) \in SUBSET Node
  BY DEF Waiters
<1>2. /\ IsFiniteSet(Waiters(g))
      /\ Cardinality(Waiters(g)) <= N
      /\ Cardinality(Waiters(g)) = N => Waiters(g) = Node
  BY <1>1, NodeCount, FS_Subset DEF N
<1>3. Cardinality(Waiters(g)) \in Nat
  BY <1>2, FS_CardinalityType
<1>4. Waiters(g) = {} => Cardinality(Waiters(g)) = 0
  BY FS_EmptySet
<1>5. QED
  BY <1>2, <1>3, <1>4, NodeCount

\* There is room for every arrival.
LEMMA ArrivalsCount ==
  /\ IsFiniteSet(Arrivals)
  /\ Cardinality(Arrivals) \in 0 .. N * Len(Program)
<1> DEFINE All == Node \X (1 .. Len(Program))
<1>1. IsFiniteSet(1 .. Len(Program)) /\ Cardinality(1 .. Len(Program)) = Len(Program)
  <2>1. 1 \in Int /\ Len(Program) \in Int
    BY ProgramLength
  <2>2. /\ IsFiniteSet(1 .. Len(Program))
        /\ Cardinality(1 .. Len(Program)) =
             IF 1 > Len(Program) THEN 0 ELSE Len(Program) - 1 + 1
    BY <2>1, FS_Interval
  <2>3. QED
    BY <2>2, ProgramLength
<1>2. IsFiniteSet(All) /\ Cardinality(All) = N * Len(Program)
  BY <1>1, NodeCount, FS_Product DEF N
<1>3. Arrivals \in SUBSET All
  BY DEF Arrivals
<1>4. IsFiniteSet(Arrivals) /\ Cardinality(Arrivals) <= Cardinality(All)
  BY <1>2, <1>3, FS_Subset
<1>5. Cardinality(Arrivals) \in Nat
  BY <1>4, FS_CardinalityType
<1>6. QED
  BY <1>2, <1>4, <1>5, ProgramLength

-------------------------------------------------------------------------------
(* Barriers: the steps *)

LEMMA BarrierInit == Init => BarrierInv
<1> SUFFICES ASSUME Init PROVE BarrierInv
  OBVIOUS
<1> USE DEF Init
<1>1. TypeOK
  BY NodeCount, ProgramLength DEF TypeOK, N
<1>2. CreatedInv
  BY ArrivalsCount, ProgramLength DEF CreatedInv
<1>3. CounterInv
  <2>1. ASSUME NEW g \in Group PROVE Waiters(g) = {}
    BY NoGroupAssumption, ProgramLength DEF Waiters, Group, N
  <2>2. QED
    BY <2>1, WaitersCount, NodeCount DEF CounterInv, N
<1>4. MapInv
  BY GroupType DEF MapInv
<1>5. RoundInv
  BY DEF RoundInv, NobodyAhead, Arrived
<1>6. QED
  BY <1>1, <1>2, <1>3, <1>4, <1>5 DEF BarrierInv

\* An arrival is one more, and finds a WaitGroup that waits for it.
LEMMA ArriveGroup ==
  ASSUME BarrierInv, NEW h \in Node, Arrive(h), NEW id, NEW g,
         id = Next_id(h), g = GroupOf(id)
  PROVE  /\ id \in Ids
         /\ g \in Group
         /\ g <= created + 1
         /\ created' \in Nat
         /\ created' = IF g > created THEN g ELSE created
         /\ created' <= Cardinality(Arrivals')
         /\ Waiters(g)' = Waiters(g) \cup {h}
         /\ Cardinality(Waiters(g)') = Cardinality(Waiters(g)) + 1
         /\ counter[g] = N - Cardinality(Waiters(g))
         /\ barriers[id] # NoGroup => g = barriers[id]
         /\ barriers[id] = NoGroup => g = created + 1 /\ Waiters(g) = {}
<1> USE DEF BarrierInv
<1>1. id \in Ids
  BY NextIdType DEF Arrive, TypeOK
<1>2. created' = IF g > created THEN g ELSE created
  BY DEF Arrive
<1>3. barriers[id] # NoGroup => g = barriers[id]
  BY DEF GroupOf
<1>4. barriers[id] = NoGroup => g = created + 1 /\ Waiters(g) = {}
  <2>1. SUFFICES ASSUME barriers[id] = NoGroup PROVE g = created + 1 /\ Waiters(g) = {}
    OBVIOUS
  <2>2. g = created + 1
    BY <2>1 DEF GroupOf
  <2>3. ASSUME NEW k \in Node PROVE waitsFor[k] # g
    BY <2>2, NoGroupAssumption, ProgramLength DEF TypeOK, CreatedInv, Group, N
  <2>4. QED
    BY <2>2, <2>3 DEF Waiters
<1>5. Cardinality(Arrivals') = Cardinality(Arrivals) + 1 /\ IsFiniteSet(Arrivals')
  <2> DEFINE e == <<h, passed[h] + 1>>
  <2>1. passed[h] \in Nat /\ passed[h] + 1 \in 1 .. Len(Program)
    BY ProgramLength DEF Arrive, TypeOK
  <2>2. Arrived(h) = passed[h]
    BY <2>1 DEF Arrive, Arrived
  <2>3. g # NoGroup
    BY <1>1, <1>3, <1>4, NoGroupAssumption DEF TypeOK
  <2>4. ASSUME NEW k \in Node
        PROVE  Arrived(k)' = IF k = h THEN passed[h] + 1 ELSE Arrived(k)
    BY <2>3, <2>1 DEF Arrive, Arrived, TypeOK
  <2>5. e \notin Arrivals
    BY <2>1, <2>2 DEF Arrivals
  <2>6. Arrivals' = Arrivals \cup {e}
    <3>1. ASSUME NEW x \in Node \X (1 .. Len(Program))
          PROVE  x \in Arrivals' <=> x \in Arrivals \cup {e}
      <4>1. PICK k \in Node, i \in 1 .. Len(Program) : x = <<k, i>>
        BY <3>1
      <4>2. x \in Arrivals' <=> i <= Arrived(k)'
        BY <4>1 DEF Arrivals
      <4>3. x \in Arrivals <=> i <= Arrived(k)
        BY <4>1 DEF Arrivals
      <4>4. CASE k # h
        BY <4>1, <4>2, <4>3, <4>4, <2>4
      <4>5. CASE k = h
        <5>1. i <= passed[h] + 1 <=> i <= passed[h] \/ i = passed[h] + 1
          BY <2>1
        <5>2. QED
          BY <4>1, <4>2, <4>3, <4>5, <5>1, <2>2, <2>4
      <4>6. QED
        BY <4>4, <4>5
    <3>2. e \in Node \X (1 .. Len(Program))
      BY <2>1
    <3>3. QED
      BY <3>1, <3>2 DEF Arrivals
  <2>7. QED
    BY <2>5, <2>6, ArrivalsCount, FS_AddElement
<1>6. Cardinality(Arrivals) < N * Len(Program)
  <2>1. (Cardinality(Arrivals) \in 0 .. N * Len(Program))'
    BY ArrivalsCount, PTL
  <2>2. Cardinality(Arrivals') \in 0 .. N * Len(Program)
    BY <2>1 DEF N
  <2>3. QED
    BY <1>5, <2>2, ArrivalsCount, ProgramLength
<1>7. g \in Group /\ g <= created + 1 /\ created \in Nat
  <2>1. created \in Nat /\ created <= Cardinality(Arrivals)
    BY DEF TypeOK, CreatedInv
  <2>2. CASE barriers[id] = NoGroup
    BY <1>4, <1>6, <2>1, <2>2, ArrivalsCount, ProgramLength DEF Group, N
  <2>3. CASE barriers[id] # NoGroup
    <3>1. g \in Group /\ g <= created
      BY <1>1, <1>3, <2>3 DEF TypeOK, CreatedInv
    <3>2. QED
      BY <3>1, <2>1, ProgramLength DEF Group, N
  <2>4. QED
    BY <2>2, <2>3
<1>8. created' \in Nat /\ created' <= Cardinality(Arrivals')
  BY <1>2, <1>5, <1>7, ArrivalsCount, ProgramLength DEF Group, CreatedInv, N
<1>9. /\ Waiters(g)' = Waiters(g) \cup {h}
      /\ Cardinality(Waiters(g)') = Cardinality(Waiters(g)) + 1
  <2>1. g # NoGroup
    BY <1>7, NoGroupAssumption, ProgramLength DEF Group, N
  <2>2. h \notin Waiters(g)
    BY <2>1 DEF Waiters, Arrive
  <2>3. Waiters(g)' = Waiters(g) \cup {h}
    BY DEF Waiters, Arrive, TypeOK
  <2>4. QED
    BY <2>2, <2>3, WaitersCount, FS_AddElement
<1>10. counter[g] = N - Cardinality(Waiters(g))
  <2>1. CASE barriers[id] = NoGroup
    BY <1>4, <1>7, <2>1, WaitersCount, NodeCount DEF CounterInv
  <2>2. CASE barriers[id] # NoGroup
    BY <1>1, <1>3, <1>7, <2>2 DEF CounterInv
  <2>3. QED
    BY <2>1, <2>2
<1>11. QED
  BY <1>1, <1>2, <1>3, <1>4, <1>7, <1>8, <1>9, <1>10

LEMMA ArriveStep == ASSUME BarrierInv, NEW h \in Node, Arrive(h) PROVE BarrierInv'
<1> USE DEF BarrierInv
<1>1. PICK id, g : id = Next_id(h) /\ g = GroupOf(id)
  OBVIOUS
<1>2. /\ id \in Ids /\ g \in Group /\ g <= created + 1
      /\ created' \in Nat /\ created' = IF g > created THEN g ELSE created
      /\ created' <= Cardinality(Arrivals')
      /\ Waiters(g)' = Waiters(g) \cup {h}
      /\ Cardinality(Waiters(g)') = Cardinality(Waiters(g)) + 1
      /\ counter[g] = N - Cardinality(Waiters(g))
      /\ barriers[id] # NoGroup => g = barriers[id]
      /\ barriers[id] = NoGroup => g = created + 1 /\ Waiters(g) = {}
  BY <1>1, ArriveGroup
<1>3. /\ waitsFor[h] = NoGroup
      /\ passed[h] < Len(Program)
      /\ barriers' = [barriers EXCEPT ![id] = g]
      /\ counter' = [counter EXCEPT ![g] = @ - 1]
      /\ waitsFor' = [waitsFor EXCEPT ![h] = g]
      /\ passed' = passed
  BY <1>1 DEF Arrive
<1>4. /\ Group \subseteq Nat /\ NoGroup \notin Group /\ created \in Nat
      /\ created <= created'
  BY <1>2, NoGroupAssumption, ProgramLength DEF Group, N, TypeOK
<1>5. TypeOK'
  BY <1>2, <1>3 DEF TypeOK
<1>6. CreatedInv'
  <2>1. ASSUME NEW k \in Node, waitsFor'[k] # NoGroup
        PROVE  waitsFor'[k] <= created' /\ passed'[k] < Len(Program)
    <3>1. CASE k = h
      BY <3>1, <1>2, <1>3, <1>4 DEF TypeOK
    <3>2. CASE k # h
      <4>1. waitsFor'[k] = waitsFor[k] /\ waitsFor[k] \in Group
        BY <3>2, <2>1, <1>3 DEF TypeOK
      <4>2. waitsFor[k] <= created /\ passed[k] < Len(Program)
        BY <4>1, <2>1 DEF CreatedInv
      <4>3. waitsFor[k] \in Nat /\ created' \in Nat /\ created \in Nat
        BY <4>1, <1>2, GroupType DEF TypeOK
      <4>4. waitsFor'[k] <= created'
        BY <4>1, <4>2, <4>3, <1>4
      <4>5. QED
        BY <4>2, <4>4, <1>3
    <3>3. QED
      BY <3>1, <3>2
  <2>2. ASSUME NEW j \in Ids, barriers'[j] # NoGroup
        PROVE  barriers'[j] <= created'
    <3>1. CASE j = id
      BY <3>1, <1>2, <1>3, <1>4 DEF TypeOK
    <3>2. CASE j # id
      <4>1. barriers'[j] = barriers[j] /\ barriers[j] \in Group
        BY <3>2, <2>2, <1>3 DEF TypeOK
      <4>2. barriers[j] <= created
        BY <4>1, <2>2 DEF CreatedInv
      <4>3. /\ barriers[j] \in Nat /\ created \in Nat /\ created' \in Nat
            /\ created <= created'
        BY <4>1, <1>2, <1>4
      <4>4. barriers[j] <= created'
        BY <4>2, <4>3
      <4>5. QED
        BY <4>1, <4>4
    <3>3. QED
      BY <3>1, <3>2
  <2>3. QED
    BY <2>1, <2>2, <1>2 DEF CreatedInv
<1>7. ASSUME NEW x \in Group, x # g PROVE Waiters(x)' = Waiters(x)
  BY <1>3, <1>4, <1>7 DEF Waiters, TypeOK
<1>8. CounterInv'
  <2>1. ASSUME NEW x \in Group, x > created' PROVE counter'[x] = N
    <3>1. x > created /\ x # g
      BY <2>1, <1>2, <1>4
    <3>2. QED
      BY <3>1, <1>3 DEF TypeOK, CounterInv
  <2>2. /\ counter'[g] = N - Cardinality(Waiters(g)')
    BY <1>2, <1>3, NodeCount, WaitersCount DEF TypeOK
  <2>3. ASSUME NEW x \in Group, x # g
        PROVE  counter'[x] = counter[x] /\ Waiters(x)' = Waiters(x)
    BY <2>3, <1>3, <1>7 DEF TypeOK
  <2>4. ASSUME NEW x \in Group
        PROVE  counter'[x] = 0 \/ counter'[x] = N - Cardinality(Waiters(x)')
    BY <2>2, <2>3 DEF CounterInv
  <2>5. ASSUME NEW j \in Ids, NEW x \in Group, barriers'[j] = x
        PROVE  counter'[x] = N - Cardinality(Waiters(x)')
    <3>1. CASE x = g
      BY <3>1, <2>2
    <3>2. CASE x # g
      <4>1. barriers[j] = x
        BY <2>5, <3>2, <1>3, <1>2 DEF TypeOK
      <4>2. counter[x] = N - Cardinality(Waiters(x))
        BY <4>1 DEF CounterInv
      <4>3. QED
        BY <4>2, <3>2, <2>3
    <3>3. QED
      BY <3>1, <3>2
  <2>6. QED
    BY <2>1, <2>4, <2>5 DEF CounterInv, N
<1>9. ASSUME NEW k \in Node, waitsFor[k] = g
      PROVE  Next_id(k) = id /\ passed[k] = passed[h] /\ barriers[id] = g
  <2>1. k \in Waiters(g)
    BY <1>9 DEF Waiters
  <2>2. barriers[id] = g /\ g # NoGroup
    BY <2>1, <1>2, <1>4
  <2>3. Next_id(k) = id
    BY <2>2, <1>2, <1>9 DEF MapInv
  <2>4. passed[h] <= passed[k]
    <3>1. ~(passed[h] > passed[k])
      BY <2>2, <1>2, <1>9 DEF RoundInv
    <3>2. QED
      BY <3>1, ProgramLength DEF TypeOK
  <2>5. passed[k] <= passed[h]
    BY <1>3, ProgramLength DEF RoundInv, NobodyAhead, Arrived, TypeOK
  <2>6. QED
    BY <2>2, <2>3, <2>4, <2>5, ProgramLength DEF TypeOK
<1>10. MapInv'
  <2>1. ASSUME NEW j \in Ids, NEW x \in Group, barriers'[j] = x
        PROVE  Waiters(x)' # {}
    <3>1. CASE x = g
      BY <3>1, <1>2
    <3>2. CASE x # g
      <4>1. barriers[j] = x
        BY <2>1, <3>2, <1>2, <1>3 DEF TypeOK
      <4>2. QED
        BY <4>1, <3>2, <1>7 DEF MapInv
    <3>3. QED
      BY <3>1, <3>2
  <2>2. ASSUME NEW j \in Ids, NEW k \in Node, barriers'[j] # NoGroup,
               waitsFor'[k] = barriers'[j]
        PROVE  Next_id(k)' = j
    <3>1. Next_id(k)' = Next_id(k)
      BY <1>3 DEF Next_id
    <3>2. CASE j = id
      <4>1. waitsFor'[k] = g
        BY <3>2, <2>2, <1>2, <1>3 DEF TypeOK
      <4>2. k = h \/ waitsFor[k] = g
        BY <4>1, <1>3 DEF TypeOK
      <4>3. QED
        BY <4>2, <3>1, <3>2, <1>1, <1>9
    <3>3. CASE j # id
      <4>1. barriers'[j] = barriers[j] /\ barriers[j] \in Group
        BY <3>3, <2>2, <1>3 DEF TypeOK
      <4>2. barriers[j] # g
        <5>1. SUFFICES ASSUME barriers[j] = g PROVE FALSE
          OBVIOUS
        <5>2. PICK w \in Node : waitsFor[w] = g
          BY <5>1, <4>1, <1>4 DEF MapInv, Waiters
        <5>3. Next_id(w) = id /\ Next_id(w) = j
          BY <5>1, <5>2, <4>1, <1>4, <1>9 DEF MapInv
        <5>4. QED
          BY <5>3, <3>3
      <4>3. k # h /\ waitsFor[k] = barriers[j]
        BY <4>1, <4>2, <2>2, <1>3 DEF TypeOK
      <4>4. QED
        BY <4>1, <4>3, <3>1, <1>4 DEF MapInv
    <3>4. QED
      BY <3>2, <3>3
  <2>3. QED
    BY <2>1, <2>2 DEF MapInv
<1>11. RoundInv'
  <2>1. NobodyAhead'
    <3>1. ASSUME NEW k \in Node PROVE Arrived(k)' >= Arrived(k) /\ Arrived(k) \in Int
      BY <1>3, <1>4, <1>2, ProgramLength DEF Arrived, TypeOK
    <3>2. ASSUME NEW k \in Node, NEW j \in Node PROVE passed'[j] <= Arrived(k)'
      <4>1. passed[j] <= Arrived(k)
        BY DEF RoundInv, NobodyAhead
      <4>2. passed[j] \in Int /\ passed'[j] = passed[j] /\ Arrived(k)' \in Int
        BY <1>3, <1>5, ProgramLength DEF TypeOK, Arrived
      <4>3. QED
        BY <4>1, <4>2, <3>1
    <3>3. QED
      BY <3>2 DEF NobodyAhead
  <2>2. ASSUME NEW k \in Node, NEW j \in Node, waitsFor'[k] # NoGroup,
               waitsFor'[j] = waitsFor'[k]
        PROVE  passed'[j] = passed'[k]
    <3>1. CASE k = h /\ j = h
      BY <3>1
    <3>2. CASE k = h /\ j # h
      BY <3>2, <2>2, <1>3, <1>9 DEF TypeOK
    <3>3. CASE k # h /\ j = h
      BY <3>3, <2>2, <1>3, <1>9 DEF TypeOK
    <3>4. CASE k # h /\ j # h
      BY <3>4, <2>2, <1>3 DEF TypeOK, RoundInv
    <3>5. QED
      BY <3>1, <3>2, <3>3, <3>4
  <2>3. ASSUME NEW k \in Node, NEW j \in Node, waitsFor'[k] # NoGroup,
               counter'[waitsFor'[k]] = 0
        PROVE  waitsFor'[j] = waitsFor'[k] \/ passed'[j] > passed'[k]
    <3>1. CASE waitsFor'[k] = g
      <4>1. Cardinality(Waiters(g)') = N
        <5>1. counter[g] - 1 = 0
          BY <3>1, <2>3, <1>2, <1>3 DEF TypeOK
        <5>2. QED
          BY <5>1, <1>2, NodeCount, WaitersCount
      <4>2. (Cardinality(Waiters(g)) = N => Waiters(g) = Node)'
        BY WaitersCount, PTL
      <4>3. Waiters(g)' = Node
        BY <4>1, <4>2 DEF N
      <4>4. QED
        BY <4>3, <3>1 DEF Waiters
    <3>2. CASE waitsFor'[k] # g
      <4>1. k # h /\ waitsFor'[k] = waitsFor[k] /\ waitsFor[k] \in Group
        BY <3>2, <2>3, <1>3 DEF TypeOK
      <4>2. counter[waitsFor[k]] = 0
        BY <4>1, <3>2, <2>3, <1>3 DEF TypeOK
      <4>3. waitsFor[j] = waitsFor[k] \/ passed[j] > passed[k]
        BY <4>1, <4>2, <2>3 DEF RoundInv
      <4>4. QED
        BY <4>1, <4>3, <2>3, <1>3 DEF TypeOK
    <3>3. QED
      BY <3>1, <3>2
  <2>4. ASSUME NEW k \in Node, NEW j \in Node, waitsFor'[k] # NoGroup,
               passed'[j] > passed'[k], NEW i \in Ids
        PROVE  barriers'[i] # waitsFor'[k]
    <3>1. k # h
      <4>1. passed[j] <= passed[h]
        BY <1>3, ProgramLength DEF RoundInv, NobodyAhead, Arrived, TypeOK
      <4>2. QED
        BY <4>1, <2>4, <1>3, ProgramLength DEF TypeOK
    <3>2. waitsFor'[k] = waitsFor[k]
      BY <3>1, <1>3 DEF TypeOK
    <3>3. barriers[i] # waitsFor[k] /\ barriers[id] # waitsFor[k]
      BY <3>2, <2>4, <1>2, <1>3 DEF RoundInv
    <3>4. waitsFor[k] # g
      BY <3>3, <1>9
    <3>5. QED
      BY <3>2, <3>3, <3>4, <1>3 DEF TypeOK
  <2>5. QED
    BY <2>1, <2>2, <2>3, <2>4 DEF RoundInv
<1>12. QED
  BY <1>5, <1>6, <1>8, <1>10, <1>11

LEMMA LeaveStep == ASSUME BarrierInv, NEW h \in Node, Leave(h) PROVE BarrierInv'
<1> USE DEF BarrierInv
<1>1. PICK id, g : id = Next_id(h) /\ g = waitsFor[h]
  OBVIOUS
<1>2. /\ g # NoGroup /\ counter[g] = 0
      /\ barriers' = [barriers EXCEPT ![id] = NoGroup]
      /\ waitsFor' = [waitsFor EXCEPT ![h] = NoGroup]
      /\ passed' = [passed EXCEPT ![h] = @ + 1]
      /\ counter' = counter /\ created' = created
  BY <1>1 DEF Leave, Through, Deleted
<1>3. g \in Group
  BY <1>1, <1>2 DEF TypeOK
<1>4. passed[h] < Len(Program) /\ \A k \in Node : passed[k] \in Nat
  BY <1>1, <1>2, ProgramLength DEF CreatedInv, TypeOK
<1>5. id \in Ids
  BY <1>1, <1>4, NextIdType DEF TypeOK
<1>6. \A j \in Ids : barriers'[j] # g /\ (barriers'[j] # NoGroup => barriers'[j] = barriers[j])
  BY <1>1, <1>2, <1>3, <1>5, GroupType DEF MapInv, TypeOK
<1>7. ASSUME NEW x \in Group, x # g PROVE Waiters(x)' = Waiters(x)
  BY <1>1, <1>2, <1>7, GroupType DEF Waiters, TypeOK
<1>8. ASSUME NEW k \in Node PROVE Arrived(k)' = Arrived(k) /\ Arrived(k) \in Nat
  <2>1. CASE k = h
    BY <2>1, <1>1, <1>2, <1>4 DEF Arrived, TypeOK
  <2>2. CASE k # h
    BY <2>2, <1>2, <1>4 DEF Arrived, TypeOK
  <2>3. QED
    BY <2>1, <2>2
<1>9. TypeOK'
  BY <1>2, <1>4, <1>5, ProgramLength DEF TypeOK
<1>10. CreatedInv'
  <2>1. Arrivals' = Arrivals
    <3>1. ASSUME NEW e \in Node \X (1 .. Len(Program))
          PROVE  Arrived(e[1])' = Arrived(e[1])
      <4>1. PICK k \in Node, i \in 1 .. Len(Program) : e = <<k, i>>
        BY <3>1
      <4>2. QED
        BY <4>1, <1>8
    <3>2. QED
      BY <3>1 DEF Arrivals
  <2>2. ASSUME NEW k \in Node, waitsFor'[k] # NoGroup
        PROVE  waitsFor'[k] <= created' /\ passed'[k] < Len(Program)
    <3>1. k # h /\ waitsFor'[k] = waitsFor[k] /\ passed'[k] = passed[k]
      BY <2>2, <1>2 DEF TypeOK
    <3>2. QED
      BY <3>1, <2>2, <1>2 DEF CreatedInv
  <2>3. ASSUME NEW j \in Ids, barriers'[j] # NoGroup PROVE barriers'[j] <= created'
    BY <2>3, <1>6, <1>2 DEF CreatedInv
  <2>4. created' <= Cardinality(Arrivals')
    BY <2>1, <1>2 DEF CreatedInv
  <2>5. QED
    BY <2>2, <2>3, <2>4 DEF CreatedInv
<1>11. CounterInv'
  <2>1. ASSUME NEW x \in Group, x > created' PROVE counter'[x] = N
    BY <2>1, <1>2 DEF CounterInv
  <2>2. ASSUME NEW x \in Group
        PROVE  counter'[x] = 0 \/ counter'[x] = N - Cardinality(Waiters(x)')
    BY <1>2, <1>7 DEF CounterInv
  <2>3. ASSUME NEW j \in Ids, NEW x \in Group, barriers'[j] = x
        PROVE  counter'[x] = N - Cardinality(Waiters(x)')
    <3>1. barriers[j] = x /\ x # g
      BY <2>3, <1>6, GroupType
    <3>2. QED
      BY <3>1, <1>2, <1>7 DEF CounterInv
  <2>4. QED
    BY <2>1, <2>2, <2>3 DEF CounterInv, N
<1>12. MapInv'
  <2>1. ASSUME NEW j \in Ids, NEW x \in Group, barriers'[j] = x
        PROVE  Waiters(x)' # {}
    <3>1. barriers[j] = x /\ x # g
      BY <2>1, <1>6, GroupType
    <3>2. QED
      BY <3>1, <1>7 DEF MapInv
  <2>2. ASSUME NEW j \in Ids, NEW k \in Node, barriers'[j] # NoGroup,
               waitsFor'[k] = barriers'[j]
        PROVE  Next_id(k)' = j
    <3>1. k # h /\ waitsFor[k] = barriers[j] /\ barriers[j] # NoGroup
      BY <2>2, <1>2, <1>6 DEF TypeOK
    <3>2. Next_id(k)' = Next_id(k)
      BY <3>1, <1>2 DEF Next_id, TypeOK
    <3>3. QED
      BY <3>1, <3>2 DEF MapInv
  <2>3. QED
    BY <2>1, <2>2 DEF MapInv
<1>13. ASSUME NEW k \in Node
       PROVE  (waitsFor[k] = g /\ passed[k] = passed[h]) \/ passed[k] > passed[h]
  BY <1>1, <1>2 DEF RoundInv
<1>14. RoundInv'
  <2>1. NobodyAhead'
    <3>1. ASSUME NEW k \in Node PROVE passed[h] + 1 <= Arrived(k)
      <4>1. CASE waitsFor[k] = g /\ passed[k] = passed[h]
        BY <4>1, <1>2, <1>4 DEF Arrived
      <4>2. CASE passed[k] > passed[h]
        BY <4>2, <1>4 DEF Arrived
      <4>3. QED
        BY <4>1, <4>2, <1>13
    <3>2. ASSUME NEW k \in Node, NEW j \in Node PROVE passed'[j] <= Arrived(k)'
      <4>1. passed'[j] = IF j = h THEN passed[h] + 1 ELSE passed[j]
        BY <1>2 DEF TypeOK
      <4>2. passed[j] <= Arrived(k)
        BY DEF RoundInv, NobodyAhead
      <4>3. QED
        BY <4>1, <4>2, <3>1, <1>8
    <3>3. QED
      BY <3>2 DEF NobodyAhead
  <2>2. ASSUME NEW k \in Node, NEW j \in Node, waitsFor'[k] # NoGroup,
               waitsFor'[j] = waitsFor'[k]
        PROVE  passed'[j] = passed'[k]
    BY <2>2, <1>2 DEF TypeOK, RoundInv
  <2>3. ASSUME NEW k \in Node, NEW j \in Node, waitsFor'[k] # NoGroup,
               counter'[waitsFor'[k]] = 0
        PROVE  waitsFor'[j] = waitsFor'[k] \/ passed'[j] > passed'[k]
    <3>1. k # h /\ waitsFor'[k] = waitsFor[k] /\ passed'[k] = passed[k]
      BY <2>3, <1>2 DEF TypeOK
    <3>2. waitsFor[j] = waitsFor[k] \/ passed[j] > passed[k]
      BY <3>1, <2>3, <1>2 DEF RoundInv
    <3>3. CASE j # h
      BY <3>1, <3>2, <3>3, <1>2 DEF TypeOK
    <3>4. CASE j = h
      <4>1. passed'[h] = passed[h] + 1
        BY <1>2 DEF TypeOK
      <4>2. waitsFor[h] = waitsFor[k] => passed[h] = passed[k]
        BY <2>3, <3>1 DEF RoundInv
      <4>3. QED
        BY <3>1, <3>2, <3>4, <4>1, <4>2, <1>4
    <3>5. QED
      BY <3>3, <3>4
  <2>4. ASSUME NEW k \in Node, NEW j \in Node, waitsFor'[k] # NoGroup,
               passed'[j] > passed'[k], NEW i \in Ids
        PROVE  barriers'[i] # waitsFor'[k]
    <3>1. k # h /\ waitsFor'[k] = waitsFor[k] /\ passed'[k] = passed[k]
      BY <2>4, <1>2 DEF TypeOK
    <3>2. CASE waitsFor[k] = g
      BY <3>1, <3>2, <1>6
    <3>3. CASE waitsFor[k] # g
      <4>1. passed[k] > passed[h]
        BY <3>3, <1>13
      <4>2. j # h
        BY <2>4, <3>1, <4>1, <1>2, <1>4 DEF TypeOK
      <4>3. passed[j] > passed[k]
        BY <2>4, <3>1, <4>2, <1>2 DEF TypeOK
      <4>4. barriers[i] # waitsFor[k]
        BY <2>4, <3>1, <4>3 DEF RoundInv
      <4>5. QED
        BY <2>4, <3>1, <4>4, <1>6
    <3>4. QED
      BY <3>2, <3>3
  <2>5. QED
    BY <2>1, <2>2, <2>3, <2>4 DEF RoundInv
<1>15. QED
  BY <1>9, <1>10, <1>11, <1>12, <1>14

\* Other steps do not touch the barriers.
LEMMA BarrierStutter == ASSUME BarrierInv, UNCHANGED vars PROVE BarrierInv'
<1> USE DEF vars
<1>1. /\ \A k \in Node : Arrived(k)' = Arrived(k) /\ Next_id(k)' = Next_id(k)
      /\ \A x : Waiters(x)' = Waiters(x)
  BY DEF Arrived, Next_id, Waiters
<1>2. Arrivals' = Arrivals
  BY DEF Arrivals, Arrived
<1>3. QED
  BY <1>1, <1>2 DEF BarrierInv, TypeOK, CreatedInv, CounterInv, MapInv, RoundInv,
                    NobodyAhead, N

\* A WaitGroup is at zero, or counts those who do not wait for it.
LEMMA CounterFromInv == BarrierInv => CounterNotNegative
<1>1. SUFFICES ASSUME BarrierInv, NEW g \in Group PROVE counter[g] >= 0
  BY DEF CounterNotNegative
<1>2. counter[g] = 0 \/ counter[g] = N - Cardinality(Waiters(g))
  BY <1>1 DEF BarrierInv, CounterInv
<1>3. QED
  BY <1>2, WaitersCount, NodeCount

-------------------------------------------------------------------------------
(* Locks: the inductive invariant, and that of the whole *)

ReleaseRecord == [from : Node, id : LockId, stage : {"sent", "noted"}]

LockTypeOK ==
  /\ locks \subseteq LockId
  /\ locked \subseteq locks
  /\ hasLock \in [Node -> SUBSET LockId]
  /\ call \in [Node -> LockId \cup {NoLock}]
  /\ stage \in [Node -> Stage]
  /\ releases \subseteq ReleaseRecord
  /\ \A h \in Node : call[h] = NoLock <=> stage[h] = "none"

\* h has the mutex of l: the response is on its way, or has come.
Owns(h, l) == (stage[h] = "answered" /\ call[h] = l) \/ l \in hasLock[h]

\* The lock manager's mutex is free, and its map has every lock that somebody
\* waits for.
FoundInv ==
  /\ lmFree = TRUE
  /\ \A h \in Node : stage[h] \in {"waits", "answered"} => call[h] \in locks

\* A mutex that is locked has one owner or one release that will unlock it;
\* one that is not has none.
OwnerInv ==
  /\ \A g, h \in Node : \A l \in LockId : Owns(g, l) /\ Owns(h, l) => g = h
  /\ \A h \in Node : stage[h] = "answered" => call[h] \notin hasLock[h]
  /\ \A h \in Node : \A l \in LockId : Owns(h, l) => l \in locked
  /\ \A r \in releases : r.id \in locked /\ \A h \in Node : ~Owns(h, r.id)
  /\ \A r, s \in releases : r.id = s.id => r = s
  /\ \A l \in locked :
       (\E h \in Node : Owns(h, l)) \/ (\E r \in releases : r.id = l)

LockInv == LockTypeOK /\ FoundInv /\ OwnerInv

\* The inductive invariant of the composed system.
SyncInv == BarrierInv /\ LockInv

-------------------------------------------------------------------------------
(* Locks *)

LEMMA LockInit == SyncInit => LockInv
BY DEF SyncInit, LM!Init, LockInv, LockTypeOK, FoundInv, OwnerInv, Owns, Stage

LEMMA LockStutter == ASSUME LockInv, UNCHANGED <<hostVars, lockVars>> PROVE LockInv'
BY DEF hostVars, lockVars, LockInv, LockTypeOK, FoundInv, OwnerInv, Owns

\* Lock: the request is on its way, and no mutex is touched.
LEMMA LockStep ==
  ASSUME LockInv, NEW h \in Node, NEW l \in LockId, Lock(h, l)
  PROVE  LockInv'
<1> USE DEF LockInv, Lock, lockVars
<1>1. ASSUME NEW g \in Node, NEW k \in LockId PROVE Owns(g, k)' <=> Owns(g, k)
  BY LockIdAssumption DEF Owns, LockTypeOK, Runs
<1>2. LockTypeOK'
  BY LockIdAssumption DEF LockTypeOK, Stage
<1>3. FoundInv'
  BY DEF FoundInv, LockTypeOK
<1>4. OwnerInv'
  BY <1>1 DEF OwnerInv, LockTypeOK, ReleaseRecord
<1>5. QED
  BY <1>2, <1>3, <1>4

LEMMA AcquireRequestStep ==
  ASSUME LockInv, NEW h \in Node, AcquireRequest(h)
  PROVE  LockInv'
<1> USE DEF LockInv, AcquireRequest, LM!FindLock
<1>1. ASSUME NEW g \in Node, NEW k \in LockId PROVE Owns(g, k)' <=> Owns(g, k)
  BY DEF Owns, LockTypeOK
<1>2. call[h] \in LockId
  BY LockIdAssumption DEF LockTypeOK
<1>3. LockTypeOK'
  BY <1>2, LockIdAssumption DEF LockTypeOK, Stage
<1>4. FoundInv'
  BY DEF FoundInv, LockTypeOK
<1>5. OwnerInv'
  BY <1>1 DEF OwnerInv, LockTypeOK, ReleaseRecord
<1>6. QED
  BY <1>3, <1>4, <1>5

\* The response: the mutex was free, so nobody else owns it.
LEMMA AcquireRespondStep ==
  ASSUME LockInv, NEW h \in Node, AcquireRespond(h)
  PROVE  LockInv'
<1> USE DEF LockInv, AcquireRespond, LM!LockMutex
<1>1. call[h] \in LockId /\ call[h] \in locks
  BY LockIdAssumption DEF LockTypeOK, FoundInv
<1>2. ASSUME NEW g \in Node, NEW k \in LockId
      PROVE  Owns(g, k)' <=> Owns(g, k) \/ (g = h /\ k = call[h])
  BY DEF Owns, LockTypeOK
<1>3. ASSUME NEW g \in Node PROVE ~Owns(g, call[h])
  BY <1>1 DEF OwnerInv
<1>4. LockTypeOK'
  BY <1>1, LockIdAssumption DEF LockTypeOK, Stage
<1>5. FoundInv'
  BY <1>1 DEF FoundInv, LockTypeOK
<1>6. OwnerInv'
  BY <1>1, <1>2, <1>3 DEF OwnerInv, LockTypeOK, ReleaseRecord, Owns
<1>7. QED
  BY <1>4, <1>5, <1>6

LEMMA LockReturnsStep ==
  ASSUME LockInv, NEW h \in Node, LockReturns(h)
  PROVE  LockInv'
<1> USE DEF LockInv, LockReturns, lockVars
<1>1. call[h] \in LockId
  BY LockIdAssumption DEF LockTypeOK, FoundInv
<1>2. ASSUME NEW g \in Node, NEW k \in LockId PROVE Owns(g, k)' <=> Owns(g, k)
  BY <1>1 DEF Owns, LockTypeOK
<1>3. LockTypeOK'
  BY <1>1, LockIdAssumption DEF LockTypeOK, Stage
<1>4. FoundInv'
  BY <1>1 DEF FoundInv, LockTypeOK
<1>5. OwnerInv'
  BY <1>1, <1>2 DEF OwnerInv, LockTypeOK, ReleaseRecord
<1>6. QED
  BY <1>3, <1>4, <1>5

\* Release: the message stands for the mutex in the place of the holder.
LEMMA ReleaseStep ==
  ASSUME LockInv, NEW h \in Node, NEW l \in LockId, Release(h, l)
  PROVE  LockInv'
<1> USE DEF LockInv, Release, Unheld, lockVars
<1> DEFINE new == [from |-> h, id |-> l, stage |-> "sent"]
<1>1. new \in ReleaseRecord /\ new.id = l
  BY DEF ReleaseRecord
<1>2. Owns(h, l) /\ l \in locked
  BY DEF Owns, OwnerInv
<1>3. ASSUME NEW g \in Node, NEW k \in LockId
      PROVE  Owns(g, k)' <=> Owns(g, k) /\ k # l
  <2>1. Owns(g, l) => g = h
    BY <1>2 DEF OwnerInv
  <2>2. stage[h] = "none"
    BY DEF Runs, LockTypeOK
  <2>3. QED
    BY <2>1, <2>2 DEF Owns, LockTypeOK
<1>4. ASSUME NEW r \in releases PROVE r.id # l /\ r.id \in LockId
  BY <1>2 DEF OwnerInv, LockTypeOK, ReleaseRecord
<1>5. LockTypeOK'
  BY <1>1, LockIdAssumption DEF LockTypeOK
<1>6. FoundInv'
  BY DEF FoundInv
<1>7. OwnerInv'
  <2>1. releases' = releases \cup {new}
    OBVIOUS
  <2>2. ASSUME NEW r \in releases'
        PROVE  r.id \in locked' /\ \A g \in Node : ~Owns(g, r.id)'
    <3>1. CASE r = new
      BY <3>1, <1>1, <1>2, <1>3
    <3>2. CASE r \in releases
      BY <3>2, <1>3, <1>4 DEF OwnerInv
    <3>3. QED
      BY <2>1, <3>1, <3>2
  <2>3. ASSUME NEW r \in releases', NEW s \in releases', r.id = s.id PROVE r = s
    BY <2>1, <2>3, <1>1, <1>4 DEF OwnerInv
  <2>4. ASSUME NEW k \in locked'
        PROVE  (\E g \in Node : Owns(g, k)') \/ (\E r \in releases' : r.id = k)
    <3>1. CASE k = l
      BY <3>1, <2>1, <1>1
    <3>2. CASE k # l
      BY <3>2, <2>1, <1>3 DEF OwnerInv, LockTypeOK
    <3>3. QED
      BY <3>1, <3>2
  <2>5. \A g \in Node : stage'[g] = "answered" => call'[g] \notin hasLock'[g]
    BY DEF OwnerInv, LockTypeOK
  <2>6. \A g \in Node : \A k \in LockId : Owns(g, k)' => k \in locked'
    BY <1>3 DEF OwnerInv
  <2>7. \A g, j \in Node : \A k \in LockId : Owns(g, k)' /\ Owns(j, k)' => g = j
    BY <1>3 DEF OwnerInv
  <2>8. QED
    BY <2>2, <2>3, <2>4, <2>5, <2>6, <2>7 DEF OwnerInv
<1>8. QED
  BY <1>5, <1>6, <1>7

\* HandleLockRelease finds the lock in the map.
LEMMA ReleaseRequestStep ==
  ASSUME LockInv, NEW r \in releases, ReleaseRequest(r)
  PROVE  LockInv'
<1> USE DEF LockInv, ReleaseRequest, LM!NoteRelease
<1> DEFINE new == [r EXCEPT !.stage = "noted"]
<1>1. r \in ReleaseRecord /\ r.id \in locks
  BY DEF LockTypeOK, OwnerInv
<1>2. new \in ReleaseRecord /\ new.id = r.id
  BY <1>1 DEF ReleaseRecord
<1>3. releases' = (releases \ {r}) \cup {new}
  BY <1>1
<1>4. \A g \in Node : \A k \in LockId : Owns(g, k)' <=> Owns(g, k)
  BY DEF Owns
<1>5. LockTypeOK'
  BY <1>2, <1>3 DEF LockTypeOK
<1>6. FoundInv'
  BY <1>1 DEF FoundInv
<1>7. OwnerInv'
  <2>1. \A s \in releases' : \E q \in releases : s.id = q.id /\ s.id \in LockId
    BY <1>1, <1>2, <1>3 DEF LockTypeOK, ReleaseRecord
  <2>2. ASSUME NEW s \in releases'
        PROVE  s.id \in locked' /\ \A g \in Node : ~Owns(g, s.id)'
    BY <2>1, <1>4 DEF OwnerInv
  <2>3. ASSUME NEW s \in releases', NEW q \in releases', s.id = q.id PROVE s = q
    BY <2>3, <1>2, <1>3 DEF OwnerInv
  <2>4. ASSUME NEW k \in locked'
        PROVE  (\E g \in Node : Owns(g, k)') \/ (\E s \in releases' : s.id = k)
    <3>1. (\E g \in Node : Owns(g, k)) \/ (\E s \in releases : s.id = k)
      BY DEF OwnerInv
    <3>2. k \in LockId
      BY DEF LockTypeOK
    <3>3. (\E s \in releases : s.id = k) => (\E s \in releases' : s.id = k)
      BY <1>2, <1>3
    <3>4. QED
      BY <3>1, <3>2, <3>3, <1>4
  <2>5. QED
    BY <2>2, <2>3, <2>4, <1>4 DEF OwnerInv
<1>8. QED
  BY <1>5, <1>6, <1>7

\* The mutex is unlocked when nothing stands for it any more.
LEMMA ReleaseUnlockStep ==
  ASSUME LockInv, NEW r \in releases, ReleaseUnlock(r)
  PROVE  LockInv'
<1> USE DEF LockInv, ReleaseUnlock, LM!UnlockMutex
<1>1. \A g \in Node : \A k \in LockId : Owns(g, k)' <=> Owns(g, k)
  BY DEF Owns
<1>2. LockTypeOK'
  BY DEF LockTypeOK
<1>3. FoundInv'
  BY DEF FoundInv
<1>4. OwnerInv'
  <2>1. \A s \in releases : s.id \in LockId
    BY DEF LockTypeOK, ReleaseRecord
  <2>2. \A s \in releases' : s \in releases /\ s.id # r.id
    BY DEF OwnerInv
  <2>3. \A g \in Node : ~Owns(g, r.id)
    BY DEF OwnerInv
  <2>4. ASSUME NEW k \in locked'
        PROVE  (\E g \in Node : Owns(g, k)') \/ (\E s \in releases' : s.id = k)
    <3>1. k \in locked /\ k # r.id /\ k \in LockId
      BY DEF LockTypeOK
    <3>2. QED
      BY <3>1, <1>1 DEF OwnerInv
  <2>5. \A g \in Node : \A k \in LockId : Owns(g, k)' => k \in locked'
    BY <2>3, <1>1 DEF OwnerInv
  <2>6. \A s \in releases' : s.id \in locked' /\ \A g \in Node : ~Owns(g, s.id)'
    BY <2>1, <2>2, <1>1 DEF OwnerInv
  <2>7. QED
    BY <2>2, <2>4, <2>5, <2>6, <1>1 DEF OwnerInv
<1>5. QED
  BY <1>2, <1>3, <1>4

-------------------------------------------------------------------------------
(* The composed system *)

LEMMA SyncStep == ASSUME SyncInv, [SyncNext]_syncVars PROVE SyncInv'
<1> USE DEF SyncInv
<1>1. CASE UNCHANGED syncVars
  <2>1. UNCHANGED vars /\ UNCHANGED <<hostVars, lockVars>>
    BY <1>1 DEF syncVars
  <2>2. QED
    BY <2>1, BarrierStutter, LockStutter
<1>2. ASSUME NEW h \in Node, NEW l \in LockId, Lock(h, l) PROVE SyncInv'
  BY <1>2, BarrierStutter, LockStep DEF Lock
<1>3. ASSUME NEW h \in Node, NEW l \in LockId, Release(h, l) PROVE SyncInv'
  BY <1>3, BarrierStutter, ReleaseStep DEF Release
<1>4. ASSUME NEW h \in Node, AcquireRequest(h) PROVE SyncInv'
  BY <1>4, BarrierStutter, AcquireRequestStep DEF AcquireRequest
<1>5. ASSUME NEW h \in Node, AcquireRespond(h) PROVE SyncInv'
  BY <1>5, BarrierStutter, AcquireRespondStep DEF AcquireRespond
<1>6. ASSUME NEW h \in Node, LockReturns(h) PROVE SyncInv'
  BY <1>6, BarrierStutter, LockReturnsStep DEF LockReturns
<1>7. ASSUME NEW h \in Node, BarrierArrive(h) PROVE SyncInv'
  BY <1>7, ArriveStep, LockStutter DEF BarrierArrive
<1>8. ASSUME NEW h \in Node, BarrierLeave(h) PROVE SyncInv'
  BY <1>8, LeaveStep, LockStutter DEF BarrierLeave
<1>9. ASSUME NEW r \in releases, ReleaseRequest(r) PROVE SyncInv'
  BY <1>9, BarrierStutter, ReleaseRequestStep DEF ReleaseRequest
<1>10. ASSUME NEW r \in releases, ReleaseUnlock(r) PROVE SyncInv'
  BY <1>10, BarrierStutter, ReleaseUnlockStep DEF ReleaseUnlock
<1>11. QED
  BY <1>1, <1>2, <1>3, <1>4, <1>5, <1>6, <1>7, <1>8, <1>9, <1>10 DEF SyncNext

\* SyncInv holds in every state of the composed system.
THEOREM SyncInvariance == SyncSpec => []SyncInv
<1>1. SyncInit => SyncInv
  BY BarrierInit, LockInit DEF SyncInit, SyncInv
<1>2. SyncInv /\ [SyncNext]_syncVars => SyncInv'
  BY SyncStep
<1>3. QED
  BY <1>1, <1>2, PTL DEF SyncSpec

\* Hosts, lock manager and barrier manager keep to their types; in particular
\* there are never more WaitGroups than hosts come to barriers.
THEOREM SyncTypeCorrect == SyncSpec => []SyncTypeOK
<1>1. SyncInv => SyncTypeOK
  BY DEF SyncInv, BarrierInv, LockInv, LockTypeOK, FoundInv, ReleaseRecord,
         SyncTypeOK, LM!TypeOK
<1>2. QED
  BY <1>1, SyncInvariance, PTL

\* No host passes a barrier another has not come to, whatever ids the program
\* gives its barriers (barrier 1 three times in a row included).
THEOREM NobodyAheadCorrect == SyncSpec => []NobodyAhead
<1>1. SyncInv => NobodyAhead
  BY DEF SyncInv, BarrierInv, RoundInv
<1>2. QED
  BY <1>1, SyncInvariance, PTL

\* HandleBarrier never calls Done on a WaitGroup that is at zero.
THEOREM CounterCorrect == SyncSpec => []CounterNotNegative
<1>1. SyncInv => CounterNotNegative
  BY CounterFromInv DEF SyncInv
<1>2. QED
  BY <1>1, SyncInvariance, PTL

\* Nobody stands for a mutex that is not locked.
LEMMA NoClaims ==
  ASSUME LockInv, NEW l \in LockId, l \notin locked
  PROVE  Claims(l) = {}
BY DEF LockInv, OwnerInv, Owns, Claims

\* Exactly one stands for one that is.
LEMMA SingleClaim ==
  ASSUME LockInv, NEW l \in LockId, l \in locked
  PROVE  \E c : Claims(l) = {c}
<1> USE DEF LockInv
<1>1. CASE \E h \in Node : Owns(h, l)
  <2>1. PICK h \in Node : Owns(h, l)
    BY <1>1
  <2>2. \A r \in releases : r.id # l
    BY <2>1 DEF OwnerInv
  <2>3. \A g \in Node : Owns(g, l) => g = h
    BY <2>1 DEF OwnerInv
  <2>4. CASE l \in hasLock[h]
    <3>1. {g \in Node : stage[g] = "answered" /\ call[g] = l} = {}
      BY <2>3, <2>4 DEF Owns, OwnerInv
    <3>2. {g \in Node : l \in hasLock[g]} = {h}
      BY <2>3, <2>4 DEF Owns
    <3>3. {q \in releases : q.id = l} = {}
      BY <2>2
    <3>4. Claims(l) = {<<"has", h>>}
      BY <3>1, <3>2, <3>3 DEF Claims
    <3>5. QED
      BY <3>4
  <2>5. CASE l \notin hasLock[h]
    <3>1. {g \in Node : stage[g] = "answered" /\ call[g] = l} = {h}
      BY <2>1, <2>3, <2>5 DEF Owns
    <3>2. {g \in Node : l \in hasLock[g]} = {}
      BY <2>3, <2>5 DEF Owns
    <3>3. {q \in releases : q.id = l} = {}
      BY <2>2
    <3>4. Claims(l) = {<<"answered", h>>}
      BY <3>1, <3>2, <3>3 DEF Claims
    <3>5. QED
      BY <3>4
  <2>6. QED
    BY <2>4, <2>5
<1>2. CASE \E r \in releases : r.id = l
  <2>1. PICK r \in releases : r.id = l
    BY <1>2
  <2>2. \A g \in Node : ~Owns(g, l)
    BY <2>1 DEF OwnerInv
  <2>3. {g \in Node : stage[g] = "answered" /\ call[g] = l} = {}
    BY <2>2 DEF Owns
  <2>4. {g \in Node : l \in hasLock[g]} = {}
    BY <2>2 DEF Owns
  <2>5. {q \in releases : q.id = l} = {r}
    BY <2>1 DEF OwnerInv
  <2>6. Claims(l) = {<<"releases", r.from>>}
    BY <2>3, <2>4, <2>5 DEF Claims
  <2>7. QED
    BY <2>6
<1>3. QED
  BY <1>1, <1>2 DEF OwnerInv

\* A lock's mutex in the manager is locked exactly while one response, holder
\* or release stands for it, and HandleLockRelease always leaves lm.Mutex free.
THEOREM LockAccountedCorrect == SyncSpec => []LockAccounted
<1>1. ASSUME SyncInv PROVE LockAccounted
  <2>1. LockInv /\ lmFree
    BY <1>1 DEF SyncInv, LockInv, FoundInv
  <2>2. ASSUME NEW l \in LockId, l \in locked PROVE Cardinality(Claims(l)) = 1
    <3>1. PICK c : Claims(l) = {c}
      BY <2>1, <2>2, SingleClaim
    <3>2. QED
      BY <3>1, FS_Singleton
  <2>3. ASSUME NEW l \in LockId, l \notin locked PROVE Cardinality(Claims(l)) = 0
    BY <2>1, <2>3, NoClaims, FS_EmptySet
  <2>4. QED
    BY <2>1, <2>2, <2>3 DEF LockAccounted
<1>2. QED
  BY <1>1, SyncInvariance, PTL

-------------------------------------------------------------------------------
(* The lock service *)

LEMMA ServiceStep ==
  ASSUME SyncInv, [SyncNext]_syncVars
  PROVE  [Service!Next]_(Service!vars)
<1> USE DEF SyncInv, LockInv
<1>1. ASSUME NEW h \in Node, NEW l \in LockId, Lock(h, l)
      PROVE  Service!Block(h, l)
  BY <1>1 DEF Lock, Runs, Service!Block, Service!InOrder
<1>2. ASSUME NEW h \in Node, NEW l \in LockId, Release(h, l)
      PROVE  Service!Release(h, l)
  BY <1>2 DEF Release, Runs, Unheld, Service!Release, LockTypeOK
<1>3. ASSUME NEW h \in Node, LockReturns(h)
      PROVE  Service!Grant(h)
  <2>1. call[h] \in LockId
    BY <1>3, LockIdAssumption DEF LockReturns, LockTypeOK
  <2>2. ASSUME NEW p \in Node PROVE call[h] \notin hasLock[p]
    BY <1>3, <2>1 DEF LockReturns, OwnerInv, Owns
  <2>3. QED
    BY <1>3, <2>1, <2>2 DEF LockReturns, Service!Grant, Service!Free
<1>4. ASSUME SyncNext,
             ~ \E h \in Node : LockReturns(h) \/ \E l \in LockId : Lock(h, l) \/ Release(h, l)
      PROVE  UNCHANGED <<call, hasLock>>
  BY <1>4 DEF SyncNext, AcquireRequest, AcquireRespond, BarrierArrive, BarrierLeave,
              ReleaseRequest, ReleaseUnlock, hostVars
<1>5. UNCHANGED syncVars => UNCHANGED <<call, hasLock>>
  BY DEF syncVars, hostVars
<1>6. QED
  BY <1>1, <1>2, <1>3, <1>4, <1>5 DEF Service!Next, Service!vars

\* Every step of Lock, Release, the manager's handlers and the barriers is a
\* step of the abstract lock service or changes nothing a program sees of it.
THEOREM ServiceCorrect == SyncSpec => ServiceSteps
<1>1. SyncInit => Service!Init
  BY DEF SyncInit, Service!Init
<1>2. SyncInv /\ [SyncNext]_syncVars => [Service!Next]_(Service!vars)
  BY ServiceStep
<1>3. QED
  BY <1>1, <1>2, SyncInvariance, PTL DEF SyncSpec, ServiceSteps, Service!Spec
===============================================================================
