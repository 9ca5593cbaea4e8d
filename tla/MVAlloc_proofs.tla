---------------------------- MODULE MVAlloc_proofs ----------------------------
(***************************************************************************)
(* Proofs about the allocator of memory/mem.go and the manager's use of it *)
(* (MVAlloc), for any sizes that are asked for and any hosts, also when    *)
(* their calls overlap.  In every memory free ranges that touch are one    *)
(* range; in a memory of whole pages the free list and the allocations     *)
(* share out the memory.                                                   *)
(*                                                                         *)
(* Free is a loop over the free list, a fold in Vmem.  What it computes is *)
(* shown by an invariant of the loop, and that by induction on the length  *)
(* of the list, in the form that a set of numbers has a least element.     *)
(***************************************************************************)
EXTENDS MVAlloc, WellFoundedInduction, SequenceTheorems, TLAPS

-------------------------------------------------------------------------------
(* Least numbers *)

LEMMA Least ==
  ASSUME NEW T, T \subseteq Nat, T # {}
  PROVE  \E n \in T : \A m \in T : n <= m
<1>1. PICK n \in T : \A m \in T : ~ (<<m, n>> \in OpToRel(<, Nat))
  <2> HIDE DEF OpToRel
  <2>1. QED
    BY NatLessThanWellFounded, WFMin
<1>2. \A m \in T : ~ (m < n)
  BY <1>1 DEF OpToRel
<1>3. QED
  BY <1>2

LEMMA LeastOf ==
  ASSUME NEW T, T \subseteq Nat, T # {}
  PROVE  Min(T) \in T /\ \A m \in T : Min(T) <= m
BY Least DEF Min

-------------------------------------------------------------------------------
(* Lists of ranges *)

Ranges == Seq(Int \X Int)

\* The ranges of a list are in order and do not touch; some may be empty.
WellFormed(r) == r[1] <= r[2] + 1
Before(r, t) == r[2] + 1 < t[1]
Ordered(s) ==
  /\ \A i \in DOMAIN s : WellFormed(s[i])
  /\ \A i, j \in DOMAIN s : i < j => Before(s[i], s[j])

\* Byte x is in a range of the list.
In(s, x) == \E i \in DOMAIN s : x \in Bytes(s[i])

LEMMA AppendOrdered ==
  ASSUME NEW s \in Ranges, NEW r \in Int \X Int, Ordered(s), WellFormed(r),
         \A i \in DOMAIN s : Before(s[i], r)
  PROVE  /\ Append(s, r) \in Ranges
         /\ Ordered(Append(s, r))
         /\ \A x : In(Append(s, r), x) <=> In(s, x) \/ x \in Bytes(r)
<1> DEFINE t == Append(s, r)
<1>1. /\ t \in Ranges /\ DOMAIN s = 1 .. Len(s) /\ Len(s) \in Nat
      /\ DOMAIN t = 1 .. Len(s) + 1
      /\ t[Len(s) + 1] = r /\ \A i \in 1 .. Len(s) : t[i] = s[i]
  BY DEF Ranges
<1> HIDE DEF t
<1>2. \A i \in 1 .. Len(s) + 1 : i = Len(s) + 1 \/ i \in 1 .. Len(s)
  BY <1>1
<1>3. \A i \in DOMAIN t : WellFormed(t[i])
  BY <1>1, <1>2 DEF Ordered
<1>4. ASSUME NEW i \in DOMAIN t, NEW j \in DOMAIN t, i < j PROVE Before(t[i], t[j])
  <2>1. i \in 1 .. Len(s)
    BY <1>1, <1>4
  <2>2. j \in 1 .. Len(s) => Before(s[i], s[j])
    BY <1>1, <1>4, <2>1 DEF Ordered
  <2>3. j = Len(s) + 1 => Before(s[i], r)
    BY <1>1, <2>1
  <2>4. QED
    BY <1>1, <1>2, <2>1, <2>2, <2>3
<1>5. ASSUME NEW x PROVE In(t, x) <=> In(s, x) \/ x \in Bytes(r)
  <2>1. In(t, x) => In(s, x) \/ x \in Bytes(r)
    BY <1>1, <1>2 DEF In
  <2>2. In(s, x) => In(t, x)
    <3>1. \A i \in 1 .. Len(s) : i \in DOMAIN t
      BY <1>1
    <3>2. QED
      BY <1>1, <3>1 DEF In
  <2>3. x \in Bytes(r) => In(t, x)
    <3>1. Len(s) + 1 \in DOMAIN t
      BY <1>1
    <3>2. QED
      BY <1>1, <3>1 DEF In
  <2>4. QED
    BY <2>1, <2>2, <2>3
<1>6. QED
  BY <1>1, <1>3, <1>4, <1>5 DEF Ordered, t

LEMMA JoinOrdered ==
  ASSUME NEW s \in Ranges, NEW t \in Ranges, Ordered(s), Ordered(t),
         \A i \in DOMAIN s : \A j \in DOMAIN t : Before(s[i], t[j])
  PROVE  /\ s \o t \in Ranges
         /\ Ordered(s \o t)
         /\ \A x : In(s \o t, x) <=> In(s, x) \/ In(t, x)
<1> DEFINE u == s \o t
           n == Len(s)
<1>1. /\ u \in Ranges /\ n \in Nat /\ Len(t) \in Nat
      /\ DOMAIN s = 1 .. n /\ DOMAIN t = 1 .. Len(t)
      /\ DOMAIN u = 1 .. n + Len(t)
      /\ \A i \in 1 .. n + Len(t) : u[i] = IF i <= n THEN s[i] ELSE t[i - n]
  BY DEF Ranges
<1> HIDE DEF u, n
<1>2. \A i \in DOMAIN u :
        \/ i \in DOMAIN s /\ u[i] = s[i]
        \/ i > n /\ i - n \in DOMAIN t /\ u[i] = t[i - n]
  BY <1>1
<1>3. \A i \in DOMAIN u : WellFormed(u[i])
  BY <1>2 DEF Ordered
<1>4. ASSUME NEW i \in DOMAIN u, NEW j \in DOMAIN u, i < j PROVE Before(u[i], u[j])
  <2>1. CASE j \in DOMAIN s /\ u[j] = s[j]
    <3>1. i \in DOMAIN s /\ u[i] = s[i]
      BY <1>1, <1>2, <1>4, <2>1
    <3>2. QED
      BY <1>4, <2>1, <3>1 DEF Ordered
  <2>2. CASE j > n /\ j - n \in DOMAIN t /\ u[j] = t[j - n]
    <3>1. CASE i \in DOMAIN s /\ u[i] = s[i]
      BY <2>2, <3>1
    <3>2. CASE i > n /\ i - n \in DOMAIN t /\ u[i] = t[i - n]
      <4>1. i - n < j - n
        BY <1>1, <1>4
      <4>2. QED
        BY <2>2, <3>2, <4>1 DEF Ordered
    <3>3. QED
      BY <1>2, <3>1, <3>2
  <2>3. QED
    BY <1>2, <2>1, <2>2
<1>5. ASSUME NEW x PROVE In(u, x) <=> In(s, x) \/ In(t, x)
  <2>1. In(u, x) => In(s, x) \/ In(t, x)
    BY <1>2 DEF In
  <2>2. ASSUME NEW i \in DOMAIN s, x \in Bytes(s[i]) PROVE In(u, x)
    <3>1. i \in DOMAIN u /\ u[i] = s[i]
      BY <1>1
    <3>2. QED
      BY <2>2, <3>1 DEF In
  <2>3. ASSUME NEW i \in DOMAIN t, x \in Bytes(t[i]) PROVE In(u, x)
    <3>1. n + i \in DOMAIN u /\ u[n + i] = t[i]
      BY <1>1
    <3>2. QED
      BY <2>3, <3>1 DEF In
  <2>4. QED
    BY <2>1, <2>2, <2>3 DEF In
<1>6. QED
  BY <1>1, <1>3, <1>4, <1>5 DEF Ordered, u

-------------------------------------------------------------------------------
(* Malloc *)

\* FirstFit finds a range if one is large enough, and then one that is.
LEMMA FirstFitFinds ==
  ASSUME NEW s \in Ranges, NEW n
  PROVE  /\ FirstFit(s, n) # 0 =>
              /\ FirstFit(s, n) \in DOMAIN s
              /\ s[FirstFit(s, n)][2] - s[FirstFit(s, n)][1] + 1 >= n
         /\ FirstFit(s, n) = 0 => \A i \in DOMAIN s : ~ (s[i][2] - s[i][1] + 1 >= n)
<1> DEFINE I == {i \in 1 .. Len(s) : s[i][2] - s[i][1] + 1 >= n}
<1>1. FirstFit(s, n) = IF I # {} THEN Min(I) ELSE 0
  BY DEF FirstFit, SelectInSeq
<1>2. DOMAIN s = 1 .. Len(s) /\ Len(s) \in Nat
  BY DEF Ranges
<1>3. I \subseteq Nat /\ 0 \notin I /\ I \subseteq DOMAIN s
  BY <1>2
<1>4. I # {} => Min(I) \in I
  <2> HIDE DEF I
  <2>1. QED
    BY <1>3, LeastOf
<1>5. \A i \in I : s[i][2] - s[i][1] + 1 >= n
  OBVIOUS
<1>6. I = {} => \A i \in DOMAIN s : ~ (s[i][2] - s[i][1] + 1 >= n)
  BY <1>2
<1> HIDE DEF I
<1>7. QED
  BY <1>1, <1>3, <1>4, <1>5, <1>6

\* Malloc takes the first n bytes of a range.
LEMMA TakenOrdered ==
  ASSUME NEW s \in Ranges, Ordered(s), NEW i \in DOMAIN s, NEW n \in Nat \ {0},
         s[i][2] - s[i][1] + 1 >= n
  PROVE  /\ Taken(s, i, n) \in Ranges
         /\ Ordered(Taken(s, i, n))
         /\ \A x \in Int : In(Taken(s, i, n), x) <=>
              In(s, x) /\ x \notin s[i][1] .. s[i][1] + n - 1
         /\ \A x \in s[i][1] .. s[i][1] + n - 1 : In(s, x)
<1> DEFINE t == Taken(s, i, n)
           r == <<s[i][1] + n, s[i][2]>>
<1>1. /\ DOMAIN t = DOMAIN s /\ t[i] = r
      /\ \A j \in DOMAIN s : j # i => t[j] = s[j]
  BY DEF Taken
<1>2. \A j \in DOMAIN s : s[j] \in Int \X Int /\ s[j][1] \in Int /\ s[j][2] \in Int
  BY DEF Ranges
<1>3. r \in Int \X Int /\ r[1] = s[i][1] + n /\ r[2] = s[i][2]
  BY <1>2
<1>4. t \in Ranges
  BY <1>3 DEF Ranges, Taken
<1> HIDE DEF t, r
<1>5. \A j \in DOMAIN t : WellFormed(t[j])
  <2>1. WellFormed(r)
    BY <1>2, <1>3 DEF WellFormed
  <2>2. QED
    BY <1>1, <2>1 DEF Ordered
<1>6. ASSUME NEW j \in DOMAIN t, NEW k \in DOMAIN t, j < k PROVE Before(t[j], t[k])
  <2>1. Before(s[j], s[k])
    BY <1>1, <1>6 DEF Ordered
  <2>2. t[j][2] = s[j][2]
    BY <1>1, <1>3
  <2>3. t[k][1] = s[k][1] \/ (t[k][1] = s[k][1] + n)
    BY <1>1, <1>3
  <2>4. QED
    BY <1>1, <1>2, <2>1, <2>2, <2>3 DEF Before
<1>7. ASSUME NEW x \in s[i][1] .. s[i][1] + n - 1 PROVE x \in Bytes(s[i])
  BY <1>2 DEF Bytes
<1>8. \A x \in Int : x \in Bytes(r) <=>
        x \in Bytes(s[i]) /\ x \notin s[i][1] .. s[i][1] + n - 1
  BY <1>2, <1>3 DEF Bytes
<1>9. ASSUME NEW j \in DOMAIN s, j # i, NEW x \in Int, x \in Bytes(s[j])
      PROVE  x \notin Bytes(s[i])
  <2>1. i \in Nat /\ j \in Nat
    BY DEF Ranges
  <2>2. Before(s[i], s[j]) \/ Before(s[j], s[i])
    BY <1>9, <2>1 DEF Ordered
  <2>3. QED
    BY <1>2, <1>9, <2>2 DEF Before, Bytes
<1>10. ASSUME NEW x \in Int
       PROVE  In(t, x) <=> In(s, x) /\ x \notin s[i][1] .. s[i][1] + n - 1
  <2>1. ASSUME NEW j \in DOMAIN s, j # i, x \in Bytes(s[j])
        PROVE  x \notin s[i][1] .. s[i][1] + n - 1
    BY <1>7, <1>9, <2>1
  <2>2. In(t, x) <=> x \in Bytes(r) \/ \E j \in DOMAIN s : j # i /\ x \in Bytes(s[j])
    BY <1>1 DEF In
  <2>3. In(s, x) <=> x \in Bytes(s[i]) \/ \E j \in DOMAIN s : j # i /\ x \in Bytes(s[j])
    BY DEF In
  <2>4. QED
    BY <1>8, <2>1, <2>2, <2>3
<1>11. QED
  BY <1>4, <1>5, <1>6, <1>7, <1>10 DEF Ordered, In, t

-------------------------------------------------------------------------------
(* Free: a step of the loop *)

Accumulator == [first : Int, last : Int, before : Ranges, after : Ranges]

\* The loop has looked at the first k ranges of s.
Merging(s, first, last, k, m) ==
  /\ m \in Accumulator
  /\ m.first <= m.last
  /\ Ordered(m.before) /\ Ordered(m.after)
  /\ \A i \in DOMAIN m.before : m.before[i][2] + 1 < m.first
  /\ \A i \in DOMAIN m.after : m.last + 1 < m.after[i][1]
  /\ \A j \in DOMAIN s : j > k =>
       /\ \A i \in DOMAIN m.before : Before(m.before[i], s[j])
       /\ \A i \in DOMAIN m.after : Before(m.after[i], s[j])
  /\ \A x \in Int : (In(m.before, x) \/ x \in m.first .. m.last \/ In(m.after, x)) <=>
       x \in first .. last \/ \E j \in DOMAIN s : j <= k /\ x \in Bytes(s[j])

LEMMA EmptyOrdered ==
  <<>> \in Ranges /\ DOMAIN <<>> = {} /\ Ordered(<<>>) /\ \A x : ~ In(<<>>, x)
BY DEF Ranges, Ordered, In

LEMMA AppendElements ==
  ASSUME NEW s \in Ranges, NEW r
  PROVE  \A i \in DOMAIN Append(s, r) :
           \/ i \in DOMAIN s /\ Append(s, r)[i] = s[i]
           \/ Append(s, r)[i] = r
BY DEF Ranges

LEMMA MergeStart ==
  ASSUME NEW s \in Ranges, NEW first \in Int, NEW last \in Int, first <= last
  PROVE  Merging(s, first, last, 0,
                 [first |-> first, last |-> last, before |-> <<>>, after |-> <<>>])
<1>1. \A j \in DOMAIN s : ~ (j <= 0)
  BY DEF Ranges
<1>2. QED
  BY <1>1, EmptyOrdered DEF Merging, Accumulator

LEMMA MergeStepKeeps ==
  ASSUME NEW s \in Ranges, Ordered(s), NEW first \in Int, NEW last \in Int,
         NEW k \in Nat, k + 1 \in DOMAIN s, NEW m, Merging(s, first, last, k, m)
  PROVE  Merging(s, first, last, k + 1, MergeStep(m, s[k + 1]))
<1> DEFINE r == s[k + 1]
<1>1. r \in Int \X Int /\ r[1] \in Int /\ r[2] \in Int /\ WellFormed(r)
  BY DEF Ranges, Ordered
<1>2. /\ m.first \in Int /\ m.last \in Int /\ m.before \in Ranges /\ m.after \in Ranges
      /\ m = [first |-> m.first, last |-> m.last, before |-> m.before, after |-> m.after]
      /\ m.first <= m.last
  BY DEF Merging, Accumulator
<1>3. /\ \A j \in DOMAIN s : j \in Nat
      /\ \A j \in DOMAIN s : j > k + 1 => j > k /\ Before(r, s[j])
      /\ \A j \in DOMAIN s : j <= k + 1 <=> j <= k \/ j = k + 1
  <2>1. \A j \in DOMAIN s : j \in Nat
    BY DEF Ranges
  <2>2. \A j \in DOMAIN s : k + 1 < j => Before(s[k + 1], s[j])
    BY DEF Ordered
  <2>3. \A j \in Nat : /\ j > k + 1 => j > k /\ k + 1 < j
                       /\ j <= k + 1 <=> j <= k \/ j = k + 1
    OBVIOUS
  <2> HIDE DEF r
  <2>4. QED
    BY <2>1, <2>2, <2>3 DEF r
<1>4. /\ \A i \in DOMAIN m.before : Before(m.before[i], r)
      /\ \A i \in DOMAIN m.after : Before(m.after[i], r)
  BY <1>3 DEF Merging
<1>5. \A x \in Int :
        (x \in first .. last \/ \E j \in DOMAIN s : j <= k + 1 /\ x \in Bytes(s[j])) <=>
          \/ In(m.before, x) \/ x \in m.first .. m.last \/ In(m.after, x)
          \/ x \in Bytes(r)
  BY <1>3 DEF Merging
<1>6. \A j \in DOMAIN s : j > k + 1 =>
        /\ \A i \in DOMAIN m.before : Before(m.before[i], s[j])
        /\ \A i \in DOMAIN m.after : Before(m.after[i], s[j])
        /\ Before(r, s[j])
  BY <1>3 DEF Merging
<1>7. /\ Ordered(m.before) /\ Ordered(m.after)
      /\ \A i \in DOMAIN m.before : m.before[i][2] + 1 < m.first
      /\ \A i \in DOMAIN m.after : m.last + 1 < m.after[i][1]
  BY DEF Merging
<1> DEFINE b == Append(m.before, r)
           a == Append(m.after, r)
           f == Lesser(m.first, r[1])
           l == Greater(m.last, r[2])
<1> HIDE DEF r
<1>8. b \in Ranges /\ Ordered(b) /\ \A x : In(b, x) <=> In(m.before, x) \/ x \in Bytes(r)
  BY <1>1, <1>2, <1>4, <1>7, AppendOrdered
<1>9. a \in Ranges /\ Ordered(a) /\ \A x : In(a, x) <=> In(m.after, x) \/ x \in Bytes(r)
  BY <1>1, <1>2, <1>4, <1>7, AppendOrdered
<1>10. /\ \A i \in DOMAIN b : (i \in DOMAIN m.before /\ b[i] = m.before[i]) \/ b[i] = r
       /\ \A i \in DOMAIN a : (i \in DOMAIN m.after /\ a[i] = m.after[i]) \/ a[i] = r
  BY <1>2, AppendElements
<1> HIDE DEF b, a
\* The range comes after what is merged.
<1>11. ASSUME NEW n, n = [m EXCEPT !.after = a], m.last + 1 < r[1]
       PROVE  Merging(s, first, last, k + 1, n)
  <2>1. /\ n \in Accumulator /\ n.first = m.first /\ n.last = m.last
        /\ n.before = m.before /\ n.after = a
    BY <1>2, <1>9, <1>11 DEF Accumulator
  <2>2. \A i \in DOMAIN a : m.last + 1 < a[i][1]
    BY <1>7, <1>10, <1>11
  <2>3. \A j \in DOMAIN s : j > k + 1 =>
          /\ \A i \in DOMAIN m.before : Before(m.before[i], s[j])
          /\ \A i \in DOMAIN a : Before(a[i], s[j])
    BY <1>6, <1>10
  <2>4. \A x \in Int : (In(m.before, x) \/ x \in m.first .. m.last \/ In(a, x)) <=>
          x \in first .. last \/ \E j \in DOMAIN s : j <= k + 1 /\ x \in Bytes(s[j])
    BY <1>5, <1>9
  <2>5. QED
    BY <1>2, <1>7, <1>9, <2>1, <2>2, <2>3, <2>4 DEF Merging
<1>12. CASE m.after # <<>>
  <2>1. MergeStep(m, r) = [m EXCEPT !.after = a]
    <3>1. MergeStep(m, r) = [m EXCEPT !.after = Append(@, r)]
      BY <1>12 DEF MergeStep
    <3>2. QED
      BY <1>2, <3>1 DEF a
  <2>2. m.last + 1 < r[1]
    <3>1. 1 \in DOMAIN m.after
      BY <1>2, <1>12 DEF Ranges
    <3>2. m.after[1] \in Int \X Int
      BY <1>2, <3>1 DEF Ranges
    <3>3. m.last + 1 < m.after[1][1] /\ WellFormed(m.after[1]) /\ Before(m.after[1], r)
      BY <1>4, <1>7, <3>1 DEF Ordered
    <3>4. QED
      BY <1>1, <1>2, <3>2, <3>3 DEF WellFormed, Before
  <2>3. QED
    BY <1>11, <2>1, <2>2 DEF r
\* The range ends before what is merged.
<1>13. CASE m.after = <<>> /\ r[2] + 1 < m.first
  <2> DEFINE n == [m EXCEPT !.before = b]
  <2>1. MergeStep(m, r) = n
    <3>1. MergeStep(m, r) = [m EXCEPT !.before = Append(@, r)]
      BY <1>13 DEF MergeStep
    <3>2. QED
      BY <1>2, <3>1 DEF b
  <2>2. /\ n \in Accumulator /\ n.first = m.first /\ n.last = m.last
        /\ n.before = b /\ n.after = m.after
    BY <1>2, <1>8 DEF Accumulator
  <2> HIDE DEF n
  <2>3. \A i \in DOMAIN b : b[i][2] + 1 < m.first
    BY <1>7, <1>10, <1>13
  <2>4. \A j \in DOMAIN s : j > k + 1 =>
          /\ \A i \in DOMAIN b : Before(b[i], s[j])
          /\ \A i \in DOMAIN m.after : Before(m.after[i], s[j])
    BY <1>6, <1>10
  <2>5. \A x \in Int : (In(b, x) \/ x \in m.first .. m.last \/ In(m.after, x)) <=>
          x \in first .. last \/ \E j \in DOMAIN s : j <= k + 1 /\ x \in Bytes(s[j])
    BY <1>5, <1>8
  <2>6. Merging(s, first, last, k + 1, n)
    BY <1>2, <1>7, <1>8, <2>2, <2>3, <2>4, <2>5 DEF Merging
  <2>7. QED
    BY <2>1, <2>6 DEF r
<1>14. CASE m.after = <<>> /\ ~ (r[2] + 1 < m.first) /\ m.last + 1 < r[1]
  <2>1. MergeStep(m, r) = [m EXCEPT !.after = <<r>>]
    BY <1>14 DEF MergeStep
  <2>2. a = <<r>>
    BY <1>14 DEF a
  <2>3. QED
    BY <1>11, <1>14, <2>1, <2>2 DEF r
\* The range touches what is merged.
<1>15. CASE m.after = <<>> /\ ~ (r[2] + 1 < m.first) /\ ~ (m.last + 1 < r[1])
  <2> DEFINE n == [m EXCEPT !.first = f, !.last = l]
  <2>1. MergeStep(m, r) = n
    <3>1. MergeStep(m, r) = [m EXCEPT !.first = Lesser(@, r[1]), !.last = Greater(@, r[2])]
      BY <1>15 DEF MergeStep
    <3>2. QED
      BY <1>2, <3>1
  <2>2. /\ f \in Int /\ l \in Int /\ f <= l
        /\ f = m.first \/ f = r[1]
        /\ \A x \in Int : x \in f .. l <=> x \in m.first .. m.last \/ x \in Bytes(r)
    BY <1>1, <1>2, <1>15 DEF Lesser, Greater, Bytes, WellFormed
  <2> HIDE DEF f, l
  <2>3. /\ n \in Accumulator /\ n.first = f /\ n.last = l
        /\ n.before = m.before /\ n.after = m.after
    BY <1>2, <2>2 DEF Accumulator
  <2> HIDE DEF n
  <2>4. \A i \in DOMAIN m.before : m.before[i][2] + 1 < f
    BY <1>4, <1>7, <2>2 DEF Before
  <2>5. \A i \in DOMAIN m.after : l + 1 < m.after[i][1]
    BY <1>15, EmptyOrdered
  <2>6. \A x \in Int : (In(m.before, x) \/ x \in f .. l \/ In(m.after, x)) <=>
          x \in first .. last \/ \E j \in DOMAIN s : j <= k + 1 /\ x \in Bytes(s[j])
    BY <1>5, <2>2
  <2>7. Merging(s, first, last, k + 1, n)
    BY <1>6, <1>7, <2>2, <2>3, <2>4, <2>5, <2>6 DEF Merging
  <2>8. QED
    BY <2>1, <2>7 DEF r
<1>16. QED
  BY <1>12, <1>13, <1>14, <1>15

-------------------------------------------------------------------------------
(* Free: the loop *)

\* g gives what the loop makes of a set of places of the list, in order.
IsFold(g, s, start, n) ==
  /\ g = [p \in SUBSET (1 .. n) |-> g[p]]
  /\ g[{}] = start
  /\ \A p \in SUBSET (1 .. n) : p # {} =>
       g[p] = MergeStep(g[p \ {Max(p)}], s[Max(p)])

LEMMA FoldExists ==
  ASSUME NEW s, NEW start, NEW n \in Nat
  PROVE  \E g : IsFold(g, s, start, n)
<1> DEFINE T == {k \in Nat : ~ \E g : IsFold(g, s, start, k)}
<1>1. SUFFICES ASSUME T # {} PROVE FALSE
  OBVIOUS
<1>2. PICK k \in T : \A m \in T : k <= m
  <2> HIDE DEF T
  <2>1. T \subseteq Nat
    BY DEF T
  <2>2. QED
    BY <1>1, <2>1, Least
<1>3. ASSUME k = 0 PROVE FALSE
  <2> DEFINE g == [p \in SUBSET (1 .. 0) |-> start]
  <2>1. IsFold(g, s, start, 0)
    BY DEF IsFold
  <2>2. QED
    BY <1>3, <2>1
<1>4. PICK g : IsFold(g, s, start, k - 1)
  <2>1. k - 1 \in Nat /\ k - 1 \notin T
    BY <1>2, <1>3
  <2>2. QED
    BY <2>1
<1> DEFINE h == [p \in SUBSET (1 .. k) |->
                   IF k \in p THEN MergeStep(g[p \ {k}], s[k]) ELSE g[p]]
<1>5. IsFold(h, s, start, k)
  <2>1. \A p \in SUBSET (1 .. k) : k \notin p => p \in SUBSET (1 .. k - 1)
    BY <1>2
  <2>2. h[{}] = start
    BY <1>4 DEF IsFold
  <2>3. ASSUME NEW p \in SUBSET (1 .. k), p # {}
        PROVE  h[p] = MergeStep(h[p \ {Max(p)}], s[Max(p)])
    <3>1. CASE k \in p
      <4>1. \A x \in p : (\A y \in p : x >= y) <=> x = k
        BY <3>1, <1>2
      <4>2. Max(p) = k
        BY <3>1, <4>1 DEF Max
      <4>3. p \ {k} \in SUBSET (1 .. k) /\ k \notin p \ {k}
        OBVIOUS
      <4>4. h[p \ {k}] = g[p \ {k}]
        BY <4>3
      <4>5. QED
        BY <4>2, <4>4, <3>1
    <3>2. CASE k \notin p
      <4>1. /\ p \ {Max(p)} \in SUBSET (1 .. k) /\ k \notin p \ {Max(p)}
            /\ p \in SUBSET (1 .. k - 1)
        BY <3>2, <2>1
      <4>2. h[p \ {Max(p)}] = g[p \ {Max(p)}] /\ h[p] = g[p]
        BY <3>2, <4>1
      <4>3. QED
        BY <1>4, <4>1, <4>2, <2>3 DEF IsFold
    <3>3. QED
      BY <3>1, <3>2
  <2>4. QED
    BY <2>2, <2>3 DEF IsFold
<1>6. QED
  BY <1>5, <1>2

\* Merged puts together what the loop has made of the whole list.
LEMMA MergedIsFold ==
  ASSUME NEW s \in Ranges, NEW first, NEW last,
         NEW start, start = [first |-> first, last |-> last, before |-> <<>>, after |-> <<>>]
  PROVE  \E g : /\ IsFold(g, s, start, Len(s))
                /\ LET m == g[1 .. Len(s)]
                   IN Merged(s, first, last) = Append(m.before, <<m.first, m.last>>) \o m.after
<1> DEFINE Is(g) == g = [p \in SUBSET DOMAIN s |->
                           IF p = {} THEN start ELSE MergeStep(g[p \ {Max(p)}], s[Max(p)])]
           iter == CHOOSE iter : Is(iter)
<1>1. Len(s) \in Nat /\ DOMAIN s = 1 .. Len(s)
  BY DEF Ranges
<1>2. PICK h : IsFold(h, s, start, Len(s))
  BY <1>1, FoldExists
<1>3. Is(h)
  BY <1>1, <1>2 DEF IsFold
<1>4. Is(iter)
  BY <1>3
<1>5. IsFold(iter, s, start, Len(s))
  BY <1>1, <1>4 DEF IsFold
<1>6. Merged(s, first, last) =
        Append(iter[DOMAIN s].before, <<iter[DOMAIN s].first, iter[DOMAIN s].last>>)
          \o iter[DOMAIN s].after
  BY DEF Merged, FoldLeft, MapThenFoldSet
<1>7. QED
  BY <1>1, <1>5, <1>6

\* Free puts the bytes into the list, and keeps it in order.
LEMMA MergedOrdered ==
  ASSUME NEW s \in Ranges, Ordered(s), NEW first \in Int, NEW last \in Int, first <= last
  PROVE  /\ Merged(s, first, last) \in Ranges
         /\ Ordered(Merged(s, first, last))
         /\ \A x \in Int : In(Merged(s, first, last), x) <=> In(s, x) \/ x \in first .. last
<1> DEFINE start == [first |-> first, last |-> last, before |-> <<>>, after |-> <<>>]
<1>1. Len(s) \in Nat /\ DOMAIN s = 1 .. Len(s)
  BY DEF Ranges
<1>2. PICK g : /\ IsFold(g, s, start, Len(s))
               /\ LET m == g[1 .. Len(s)]
                  IN Merged(s, first, last) = Append(m.before, <<m.first, m.last>>) \o m.after
  <2> HIDE DEF start
  <2>1. start = [first |-> first, last |-> last, before |-> <<>>, after |-> <<>>]
    BY DEF start
  <2>2. QED
    BY <2>1, MergedIsFold
<1>3. ASSUME NEW k \in Nat, k <= Len(s) PROVE Merging(s, first, last, k, g[1 .. k])
  <2> DEFINE T == {j \in Nat : j <= Len(s) /\ ~ Merging(s, first, last, j, g[1 .. j])}
  <2>1. SUFFICES ASSUME T # {} PROVE FALSE
    BY <1>3
  <2>2. PICK j \in T : \A i \in T : j <= i
    <3> HIDE DEF T
    <3>1. T \subseteq Nat
      BY DEF T
    <3>2. QED
      BY <2>1, <3>1, Least
  <2>3. ASSUME j = 0 PROVE FALSE
    <3>1. 1 .. 0 = {}
      OBVIOUS
    <3>2. g[1 .. 0] = start
      BY <1>2, <3>1 DEF IsFold
    <3>3. Merging(s, first, last, 0, g[1 .. 0])
      BY <3>2, MergeStart
    <3>4. QED
      BY <2>2, <2>3, <3>3
  <2>4. /\ j - 1 \in Nat /\ j \in DOMAIN s /\ (j - 1) + 1 = j
        /\ Merging(s, first, last, j - 1, g[1 .. j - 1])
    <3>1. j - 1 \in Nat /\ j - 1 <= Len(s) /\ j - 1 \notin T
      BY <1>1, <2>2, <2>3
    <3>2. QED
      BY <1>1, <2>2, <3>1
  <2>5. g[1 .. j] = MergeStep(g[1 .. j - 1], s[j])
    <3>1. /\ 1 .. j \in SUBSET (1 .. Len(s)) /\ 1 .. j # {}
          /\ (1 .. j) \ {j} = 1 .. j - 1
      BY <1>1, <2>4
    <3>2. \A x \in 1 .. j : (\A y \in 1 .. j : x >= y) <=> x = j
      BY <2>4
    <3>3. Max(1 .. j) = j
      BY <2>4, <3>2 DEF Max
    <3>4. QED
      BY <1>2, <3>1, <3>3 DEF IsFold
  <2>6. Merging(s, first, last, (j - 1) + 1, MergeStep(g[1 .. j - 1], s[(j - 1) + 1]))
    BY <2>4, MergeStepKeeps
  <2>7. QED
    BY <2>2, <2>4, <2>5, <2>6
<1> DEFINE m == g[1 .. Len(s)]
           r == <<m.first, m.last>>
           b == Append(m.before, r)
<1>4. Merging(s, first, last, Len(s), m)
  BY <1>1, <1>3
<1> HIDE DEF m
<1>5. /\ m.first \in Int /\ m.last \in Int /\ m.before \in Ranges /\ m.after \in Ranges
      /\ m.first <= m.last /\ Ordered(m.before) /\ Ordered(m.after)
      /\ \A i \in DOMAIN m.before : m.before[i][2] + 1 < m.first
      /\ \A i \in DOMAIN m.after : m.last + 1 < m.after[i][1]
  BY <1>4 DEF Merging, Accumulator
<1>6. /\ r \in Int \X Int /\ WellFormed(r) /\ Bytes(r) = m.first .. m.last
      /\ \A i \in DOMAIN m.before : Before(m.before[i], r)
      /\ \A i \in DOMAIN m.after : Before(r, m.after[i])
  BY <1>5 DEF WellFormed, Before, Bytes
<1> HIDE DEF r
<1>7. b \in Ranges /\ Ordered(b) /\ \A x : In(b, x) <=> In(m.before, x) \/ x \in Bytes(r)
  BY <1>5, <1>6, AppendOrdered
<1>8. \A i \in DOMAIN b : \A j \in DOMAIN m.after : Before(b[i], m.after[j])
  <2>1. \A i \in DOMAIN b : (i \in DOMAIN m.before /\ b[i] = m.before[i]) \/ b[i] = r
    BY <1>5, AppendElements
  <2>2. ASSUME NEW i \in DOMAIN m.before, NEW j \in DOMAIN m.after
        PROVE  Before(m.before[i], m.after[j])
    <3>1. m.before[i][2] \in Int /\ m.after[j][1] \in Int
      BY <1>5 DEF Ranges
    <3>2. QED
      BY <1>5, <3>1 DEF Before
  <2>3. QED
    BY <1>6, <2>1, <2>2
<1> HIDE DEF b
<1>9. /\ b \o m.after \in Ranges /\ Ordered(b \o m.after)
      /\ \A x : In(b \o m.after, x) <=> In(b, x) \/ In(m.after, x)
  BY <1>5, <1>7, <1>8, JoinOrdered
<1>10. Merged(s, first, last) = b \o m.after
  BY <1>2 DEF b, m, r
<1>11. \A x \in Int : In(b \o m.after, x) <=> In(s, x) \/ x \in first .. last
  <2>1. \A x \in Int : In(b \o m.after, x) <=>
          x \in first .. last \/ \E j \in DOMAIN s : j <= Len(s) /\ x \in Bytes(s[j])
    BY <1>4, <1>6, <1>7, <1>9 DEF Merging
  <2>2. \A j \in DOMAIN s : j <= Len(s)
    BY <1>1
  <2>3. QED
    BY <2>1, <2>2 DEF In
<1>12. QED
  BY <1>9, <1>10, <1>11

\* Ranges that do not touch cover what is contiguous one at a time: this is
\* RoomIsFound for any list in order.
LEMMA OrderedRoom ==
  ASSUME NEW s \in Ranges, Ordered(s), NEW a \in Int, NEW b \in Int, a <= b,
         \A x \in a .. b : In(s, x)
  PROVE  \E i \in DOMAIN s : a .. b \subseteq Bytes(s[i])
<1>1. \A i \in DOMAIN s : i \in Nat /\ s[i][1] \in Int /\ s[i][2] \in Int
  BY DEF Ranges
<1>2. PICK i \in DOMAIN s : a \in Bytes(s[i])
  BY DEF In
<1>3. s[i][1] <= a /\ a <= s[i][2]
  BY <1>1, <1>2 DEF Bytes
<1>4. CASE b <= s[i][2]
  BY <1>1, <1>3, <1>4 DEF Bytes
<1>5. CASE s[i][2] < b
  <2>1. s[i][2] + 1 \in a .. b
    BY <1>1, <1>3, <1>5
  <2>2. PICK j \in DOMAIN s : s[i][2] + 1 \in Bytes(s[j])
    BY <2>1 DEF In
  <2>3. s[j][1] <= s[i][2] + 1 /\ s[i][2] + 1 <= s[j][2]
    BY <1>1, <2>2 DEF Bytes
  <2>4. j = i \/ Before(s[i], s[j]) \/ Before(s[j], s[i])
    BY <1>1 DEF Ordered
  <2>5. QED
    BY <1>1, <1>3, <2>3, <2>4 DEF Before
<1>6. QED
  BY <1>1, <1>4, <1>5

-------------------------------------------------------------------------------
(* The inductive invariant *)

\* The hosts whose MultiMalloc has memory that has no pages yet, and it.
Taking == {h \in Host : call[h].op = "multi" /\ call[h].ptr # NoPtr}
Wanted(h) == call[h].sizes[Len(call[h].result) + 1]
Part(h) == call[h].ptr .. call[h].ptr + Wanted(h) - 1

Calls == [op : {"none", "malloc", "multi", "free", "dropped"}, sizes : Seq(Nat \ {0}),
          ptr : Int, view : Nat, result : Seq(Nat)]

\* A call that is under way has a size yet to be served.
Sound(c) ==
  /\ c \in Calls
  /\ c.op = "malloc" => c.sizes # <<>>
  /\ c.op = "multi" => Len(c.result) < Len(c.sizes) /\ (c.view # NoView => c.ptr # NoPtr)

CallInv ==
  /\ call = [h \in Host |-> call[h]]
  /\ \A h \in Host : Sound(call[h])

FreeInv == free \in Ranges /\ Ordered(free)

\* mallocHistory has the size of what was given out at a place.
PlaceInv ==
  /\ history \in [0 .. Size - 1 -> Nat]
  /\ heap \subseteq [addr : Nat, ptr : 0 .. Size - 1, size : Nat \ {0},
                     state : {"given", "freeing", "made"}]
  /\ \A a \in heap : a.addr % Size = a.ptr /\ history[a.ptr] = a.size
  /\ \A h \in Taking : call[h].ptr \in 0 .. Size - 1 /\ history[call[h].ptr] = Wanted(h)

\* No byte is in two allocations, and those in none are free.
ShareInv ==
  /\ \A a \in heap : Place(a) \subseteq 0 .. Size - 1
  /\ \A h \in Taking : Part(h) \subseteq 0 .. Size - 1
  /\ \A a, b \in heap : a # b => Place(a) \cap Place(b) = {}
  /\ \A g, h \in Taking : g # h => Part(g) \cap Part(h) = {}
  /\ \A a \in heap : \A h \in Taking : Place(a) \cap Part(h) = {}
  /\ \A x \in Int : In(free, x) <=> /\ x \in 0 .. Size - 1
                                    /\ \A a \in heap : x \notin Place(a)
                                    /\ \A h \in Taking : x \notin Part(h)

\* What is being freed is an allocation, and is freed by one host.
Freeing(h) == call[h].op = "free"
FreeingInv ==
  /\ \A h \in Host : Freeing(h) => \E a \in heap : a.addr = call[h].ptr /\ a.state = "freeing"
  /\ \A g, h \in Host : Freeing(g) /\ Freeing(h) /\ g # h => call[g].ptr # call[h].ptr

\* What a MultiMalloc has made so far is not anybody else's.
Result(h) == IF call[h].op = "multi" THEN Range(call[h].result) ELSE {}
MadeInv ==
  /\ \A h \in Host : \A x \in Result(h) : \E a \in heap : a.addr = x /\ a.state = "made"
  /\ \A g, h \in Host : g # h => Result(g) \cap Result(h) = {}

AllocInv == CallInv /\ FreeInv /\ PlaceInv /\ ShareInv /\ FreeingInv /\ MadeInv

-------------------------------------------------------------------------------
(* Addresses and places *)

\* An address is a page of a view, and the place in it.
LEMMA AddressForm ==
  ASSUME NEW ptr \in 0 .. Size - 1, NEW n \in Nat \ {0}, NEW view \in Nat
  PROVE  /\ Address(ptr, n, view) \in Nat
         /\ Address(ptr, n, view) =
              (view * npages + ptr \div PageSize) * PageSize + (ptr % PageSize)
<1> DEFINE q == ptr \div PageSize
           r == ptr % PageSize
           last == (ptr + n - 1) \div PageSize
<1>1. PageSize \in Nat \ {0} /\ Size \in Nat \ {0} /\ ptr \in Nat
  BY SizeAssumption
<1>2. q \in Nat /\ r \in Nat /\ r < PageSize /\ ptr = q * PageSize + r
  BY <1>1
<1>3. npages \in Nat
  BY <1>1 DEF npages
<1>4. last \in Nat /\ q <= last
  <2>1. ptr + n - 1 \in Nat /\ ptr <= ptr + n - 1
    BY <1>1
  <2>2. last \in Nat
    BY <1>1, <2>1
  <2>3. ptr + n - 1 < (last + 1) * PageSize
    BY <1>1, <2>1
  <2>4. ASSUME last + 1 <= q PROVE FALSE
    <3>1. (last + 1) * PageSize <= q * PageSize
      BY <1>1, <1>2, <2>2, <2>4
    <3>2. q * PageSize \in Int /\ (last + 1) * PageSize \in Int
      BY <1>1, <1>2, <2>2
    <3>3. QED
      BY <1>1, <1>2, <2>1, <2>3, <3>1, <3>2
  <2>5. QED
    BY <1>2, <2>2, <2>4
<1>5. Minipages(ptr, n)[0].offset = r
  <2> HIDE DEF q, last
  <2>1. 0 \in 0 .. last - q
    BY <1>2, <1>4
  <2>2. Minipages(ptr, n)[0].offset = Greater(ptr, (q + 0) * PageSize) % PageSize
    BY <2>1 DEF Minipages, q, last
  <2>3. Greater(ptr, (q + 0) * PageSize) = ptr
    <3>1. (q + 0) * PageSize = q * PageSize /\ q * PageSize \in Int
      BY <1>1, <1>2
    <3>2. QED
      BY <1>1, <1>2, <3>1 DEF Greater
  <2>4. QED
    BY <2>2, <2>3
<1>6. Address(ptr, n, view) = (view * npages + q) * PageSize + r
  BY <1>5 DEF Address
<1>7. (view * npages + q) * PageSize + r \in Nat
  <2> HIDE DEF q, r, last
  <2>1. view * npages + q \in Nat
    BY <1>2, <1>3
  <2>2. QED
    BY <1>1, <1>2, <2>1
<1>8. QED
  BY <1>6, <1>7

\* If the memory is whole pages, it is that of the memory plus a number of
\* times its size.
LEMMA AddressOf ==
  ASSUME WholePages,
         NEW ptr \in 0 .. Size - 1, NEW n \in Nat \ {0}, NEW view \in Nat
  PROVE  Address(ptr, n, view) \in Nat /\ Address(ptr, n, view) % Size = ptr
<1> DEFINE q == ptr \div PageSize
           r == ptr % PageSize
<1>1. PageSize \in Nat \ {0} /\ Size \in Nat \ {0} /\ Size % PageSize = 0 /\ ptr \in Nat
  BY SizeAssumption DEF WholePages
<1>2. q \in Nat /\ r \in Nat /\ r < PageSize /\ ptr = q * PageSize + r
  BY <1>1
<1>3. npages \in Nat /\ Size = npages * PageSize
  BY <1>1 DEF npages
<1>4. Address(ptr, n, view) = (view * npages + q) * PageSize + r
  BY AddressForm
<1> HIDE DEF q, r
<1>5. (view * npages + q) * PageSize = view * Size + q * PageSize
  <2>1. (view * npages + q) * PageSize = (view * npages) * PageSize + q * PageSize
    BY <1>1, <1>2, <1>3
  <2>2. (view * npages) * PageSize = view * (npages * PageSize)
    BY <1>1, <1>3
  <2>3. QED
    BY <1>3, <2>1, <2>2
<1>6. view * Size \in Nat /\ q * PageSize \in Nat
  BY <1>1, <1>2
<1>7. Address(ptr, n, view) = view * Size + ptr
  BY <1>1, <1>2, <1>4, <1>5, <1>6
<1>8. (view * Size + ptr) % Size = ptr
  BY <1>1
<1>9. QED
  BY <1>1, <1>6, <1>7, <1>8

LEMMA ViewType ==
  ASSUME NEW ptr, NEW n
  PROVE  View(ptr, n) \in Nat
<1> DEFINE room == {v \in Views : PagesNeeded(ptr, n, v) \cap DOMAIN mpt = {}}
<1>1. PageSize - 1 \in Nat /\ room \subseteq Nat
  BY SizeAssumption DEF Views
<1>2. View(ptr, n) = IF room = {} THEN PageSize - 1
                     ELSE CHOOSE v \in room : \A w \in room : v <= w
  BY DEF View
<1> HIDE DEF room
<1>3. room # {} => \E v \in room : \A w \in room : v <= w
  BY <1>1, Least
<1>4. QED
  BY <1>1, <1>2, <1>3

\* An allocation has its first byte; two with one address are the same.
LEMMA PlaceStart ==
  ASSUME AllocInv
  PROVE  /\ \A a \in heap : /\ a.ptr \in Int /\ a.size \in Nat \ {0}
                            /\ a.ptr \in Place(a)
                            /\ a.addr \in Nat
         /\ \A a, b \in heap : a.addr = b.addr => a = b
         /\ \A h \in Taking : /\ call[h].ptr \in Int /\ Wanted(h) \in Nat \ {0}
                              /\ call[h].ptr \in Part(h)
<1>1. \A a \in heap : a.ptr \in Int /\ a.size \in Nat \ {0} /\ a.addr \in Nat
  BY DEF AllocInv, PlaceInv
<1>2. \A a \in heap : a.ptr \in Place(a)
  BY <1>1 DEF Place
<1>3. ASSUME NEW a \in heap, NEW b \in heap, a.addr = b.addr PROVE a = b
  <2>1. a.ptr = b.ptr
    BY <1>3 DEF AllocInv, PlaceInv
  <2>2. a.ptr \in Place(a) \cap Place(b)
    BY <1>2, <2>1
  <2>3. QED
    BY <2>2 DEF AllocInv, ShareInv
<1>4. ASSUME NEW h \in Taking
      PROVE  call[h].ptr \in Int /\ Wanted(h) \in Nat \ {0} /\ call[h].ptr \in Part(h)
  <2>1. h \in Host /\ call[h].op = "multi" /\ Sound(call[h])
    BY <1>4 DEF Taking, AllocInv, CallInv
  <2>2. Wanted(h) \in Nat \ {0}
    BY <2>1 DEF Sound, Calls, Wanted
  <2>3. call[h].ptr \in Int
    BY <2>1 DEF Sound, Calls
  <2>4. QED
    BY <2>2, <2>3 DEF Part
<1>5. QED
  BY <1>1, <1>2, <1>3, <1>4

\* What Malloc gives out was free: it is nobody's, and has an entry of its own.
LEMMA MallocPlace ==
  ASSUME AllocInv, NEW n \in Nat \ {0}, NEW i, i = FirstFit(free, n), i # 0, VmMalloc(i, n)
  PROVE  /\ FreeInv'
         /\ free[i][1] \in 0 .. Size - 1
         /\ history' \in [0 .. Size - 1 -> Nat]
         /\ history'[free[i][1]] = n
         /\ \A a \in heap : history'[a.ptr] = a.size
         /\ \A h \in Taking : history'[call[h].ptr] = Wanted(h)
         /\ \A x \in free[i][1] .. free[i][1] + n - 1 :
              /\ x \in 0 .. Size - 1
              /\ \A a \in heap : x \notin Place(a)
              /\ \A h \in Taking : x \notin Part(h)
         /\ \A x \in Int : In(free', x) <=> In(free, x) /\ x \notin free[i][1] .. free[i][1] + n - 1
<1> DEFINE p == free[i][1]
<1>1. free \in Ranges /\ Ordered(free)
  BY DEF AllocInv, FreeInv
<1>2. i \in DOMAIN free /\ free[i][2] - free[i][1] + 1 >= n
  BY <1>1, FirstFitFinds
<1>3. p \in Int
  BY <1>1, <1>2 DEF Ranges
<1>4. free' = Taken(free, i, n) /\ history' = [history EXCEPT ![p] = n]
  BY DEF VmMalloc
<1>5. /\ free' \in Ranges /\ Ordered(free')
      /\ \A x \in Int : In(free', x) <=> In(free, x) /\ x \notin p .. p + n - 1
      /\ \A x \in p .. p + n - 1 : In(free, x)
  BY <1>1, <1>2, <1>4, TakenOrdered
<1> HIDE DEF p
<1>6. \A x \in p .. p + n - 1 :
        /\ x \in 0 .. Size - 1
        /\ \A a \in heap : x \notin Place(a)
        /\ \A h \in Taking : x \notin Part(h)
  BY <1>3, <1>5 DEF AllocInv, ShareInv
<1>7. p \in p .. p + n - 1
  BY <1>3
<1>8. p \in 0 .. Size - 1
  BY <1>6, <1>7
<1>9. /\ \A a \in heap : a.ptr # p
      /\ \A h \in Taking : call[h].ptr # p
  BY <1>6, <1>7, PlaceStart
<1>10. /\ history' \in [0 .. Size - 1 -> Nat] /\ history'[p] = n
       /\ \A q \in 0 .. Size - 1 : q # p => history'[q] = history[q]
  BY <1>4, <1>8 DEF AllocInv, PlaceInv
<1>11. /\ \A a \in heap : history'[a.ptr] = a.size
       /\ \A h \in Taking : history'[call[h].ptr] = Wanted(h)
  BY <1>9, <1>10 DEF AllocInv, PlaceInv
<1>12. QED
  BY <1>5, <1>6, <1>8, <1>10, <1>11 DEF FreeInv, p

-------------------------------------------------------------------------------
(* Steps *)

LEMMA CallChange ==
  ASSUME CallInv, NEW h \in Host, NEW c, Sound(c), call' = [call EXCEPT ![h] = c]
  PROVE  /\ CallInv'
         /\ call'[h] = c
         /\ \A g \in Host \ {h} :
              /\ call'[g] = call[g]
              /\ g \in Taking' <=> g \in Taking
              /\ Part(g)' = Part(g)
              /\ Wanted(g)' = Wanted(g)
              /\ Freeing(g)' <=> Freeing(g)
              /\ Result(g)' = Result(g)
<1>1. call = [g \in Host |-> call[g]]
  BY DEF CallInv
<1>2. /\ call' = [g \in Host |-> call'[g]] /\ call'[h] = c
      /\ \A g \in Host \ {h} : call'[g] = call[g]
  BY <1>1
<1>3. CallInv'
  <2>1. \A g \in Host : Sound(call'[g])
    BY <1>2 DEF CallInv
  <2>2. QED
    BY <1>2, <2>1 DEF CallInv
<1>4. QED
  BY <1>2, <1>3 DEF Taking, Part, Wanted, Freeing, Result

\* A step of a host's call that leaves the memory and the heap alone.
LEMMA OnlyCall ==
  ASSUME AllocInv, NEW h \in Host, NEW c, Sound(c), call' = [call EXCEPT ![h] = c],
         UNCHANGED <<free, history, heap>>, c.op # "free",
         h \in Taking <=> c.op = "multi" /\ c.ptr # NoPtr,
         c.op = "multi" =>
           \/ c.result = <<>> /\ h \notin Taking
           \/ /\ call[h].op = "multi"
              /\ c.ptr = call[h].ptr /\ c.sizes = call[h].sizes /\ c.result = call[h].result
  PROVE  AllocInv'
<1>1. /\ CallInv' /\ call'[h] = c
      /\ \A g \in Host \ {h} :
           /\ call'[g] = call[g]
           /\ g \in Taking' <=> g \in Taking
           /\ Part(g)' = Part(g)
           /\ Wanted(g)' = Wanted(g)
           /\ Freeing(g)' <=> Freeing(g)
           /\ Result(g)' = Result(g)
  BY CallChange DEF AllocInv
<1>2. h \in Taking' <=> h \in Taking
  BY <1>1 DEF Taking
<1>3. h \in Taking => call'[h].ptr = call[h].ptr /\ Part(h)' = Part(h) /\ Wanted(h)' = Wanted(h)
  BY <1>1 DEF Part, Wanted
<1>4. Taking' = Taking
  BY <1>1, <1>2 DEF Taking
<1>5. /\ \A g \in Taking : Part(g)' = Part(g)
      /\ \A g \in Taking : Wanted(g)' = Wanted(g)
      /\ \A g \in Taking : call'[g].ptr = call[g].ptr
  BY <1>1, <1>3 DEF Taking
<1>6. FreeInv'
  BY DEF AllocInv, FreeInv
<1>7. PlaceInv'
  BY <1>4, <1>5 DEF AllocInv, PlaceInv
<1>8. ShareInv'
  <2>1. \A a \in heap : Place(a)' = Place(a)
    BY DEF Place
  <2>2. \A x : In(free, x)' <=> In(free, x)
    BY DEF In
  <2>3. QED
    BY <1>4, <1>5, <2>1, <2>2 DEF AllocInv, ShareInv
<1>9. FreeingInv'
  <2>1. ~ Freeing(h)'
    BY <1>1 DEF Freeing
  <2>2. QED
    BY <1>1, <2>1 DEF AllocInv, FreeingInv
<1>10. MadeInv'
  <2>1. Result(h)' \subseteq Result(h)
    <3>1. c.op = "multi" /\ c.result = <<>> => Result(h)' = {}
      BY <1>1 DEF Result, Range
    <3>2. c.op # "multi" => Result(h)' = {}
      BY <1>1 DEF Result
    <3>3. c.op = "multi" /\ call[h].op = "multi" /\ c.result = call[h].result =>
            Result(h)' = Result(h)
      BY <1>1 DEF Result
    <3>4. QED
      BY <3>1, <3>2, <3>3
  <2>2. \A g \in Host : Result(g)' \subseteq Result(g)
    BY <1>1, <2>1
  <2>3. QED
    BY <2>2 DEF AllocInv, MadeInv
<1>11. QED
  BY <1>1, <1>6, <1>7, <1>8, <1>9, <1>10 DEF AllocInv

LEMMA IdleSound ==
  /\ Sound(Idle) /\ Idle \in Calls /\ Idle.op = "none"
  /\ Idle.ptr = NoPtr /\ Idle.view = NoView /\ Idle.result = <<>>
BY DEF Sound, Idle, Calls, NoPtr, NoView

LEMMA MallocKeeps ==
  ASSUME AllocInv, NEW h \in Host, NEW n \in Sizes, Malloc(h, n)
  PROVE  AllocInv'
<1> DEFINE c == [Idle EXCEPT !.op = "malloc", !.sizes = <<n>>]
<1>1. n \in Nat \ {0}
  BY SizesAssumption
<1>2. Sound(c) /\ c.op = "malloc"
  <2>1. <<n>> \in Seq(Nat \ {0}) /\ <<n>> # <<>>
    BY <1>1
  <2>2. c \in Calls /\ c.op = "malloc" /\ c.sizes = <<n>>
    BY <2>1, IdleSound DEF Calls
  <2>3. QED
    BY <2>1, <2>2 DEF Sound
<1>3. /\ call' = [call EXCEPT ![h] = c] /\ UNCHANGED <<free, history, heap>>
      /\ call[h].op = "none"
  BY IdleSound DEF Malloc, MayCall
<1>4. h \notin Taking
  BY <1>3 DEF Taking
<1> HIDE DEF c
<1>5. QED
  BY <1>2, <1>3, <1>4, OnlyCall

LEMMA MultiMallocKeeps ==
  ASSUME AllocInv, NEW h \in Host, NEW ns \in MultiSizes, MultiMalloc(h, ns)
  PROVE  AllocInv'
<1> DEFINE c == [Idle EXCEPT !.op = "multi", !.sizes = ns]
<1>1. ns \in Seq(Nat \ {0}) /\ ns # <<>>
  BY SizesAssumption
<1>2. Len(<<>>) < Len(ns)
  BY <1>1
<1>3. Sound(c) /\ c.op = "multi" /\ c.ptr = NoPtr /\ c.result = <<>>
  <2>1. /\ c \in Calls /\ c.op = "multi" /\ c.sizes = ns /\ c.ptr = NoPtr
        /\ c.view = NoView /\ c.result = <<>>
    BY <1>1, IdleSound DEF Calls
  <2>2. QED
    BY <1>2, <2>1 DEF Sound
<1>4. /\ call' = [call EXCEPT ![h] = c] /\ UNCHANGED <<free, history, heap>>
      /\ call[h].op = "none"
  BY IdleSound DEF MultiMalloc, MayCall
<1>5. h \notin Taking
  BY <1>4 DEF Taking
<1> HIDE DEF c
<1>6. QED
  BY <1>3, <1>4, <1>5, OnlyCall

LEMMA MultiViewKeeps ==
  ASSUME AllocInv, NEW h \in Host, MultiView(h)
  PROVE  AllocInv'
<1> DEFINE v == View(call[h].ptr, call[h].sizes[Len(call[h].result) + 1])
           c == [call[h] EXCEPT !.view = v]
<1>1. v \in Nat
  BY ViewType
<1> HIDE DEF v
<1>2. /\ call[h].op = "multi" /\ call[h].ptr # NoPtr /\ h \in Taking
      /\ call' = [call EXCEPT ![h].view = v] /\ UNCHANGED <<free, history, heap>>
  BY DEF MultiView, Taking, v
<1>3. Sound(call[h]) /\ call = [g \in Host |-> call[g]]
  BY DEF AllocInv, CallInv
<1>4. call' = [call EXCEPT ![h] = c]
  BY <1>2, <1>3
<1>5. /\ c.op = "multi" /\ c.ptr = call[h].ptr /\ c.sizes = call[h].sizes
      /\ c.result = call[h].result /\ c \in Calls
  BY <1>1, <1>2, <1>3 DEF Sound, Calls
<1>6. Sound(c)
  BY <1>2, <1>3, <1>5 DEF Sound
<1> HIDE DEF c
<1>7. QED
  BY <1>2, <1>4, <1>5, <1>6, OnlyCall

\* A program begins to free an allocation: only its state changes.
LEMMA FreeKeeps ==
  ASSUME AllocInv, NEW h \in Host, NEW a \in heap, Free(h, a)
  PROVE  AllocInv'
<1> DEFINE c == [Idle EXCEPT !.op = "free", !.ptr = a.addr]
           b == [a EXCEPT !.state = "freeing"]
<1>1. /\ a \in [addr : Nat, ptr : 0 .. Size - 1, size : Nat \ {0},
                state : {"given", "freeing", "made"}]
      /\ a.state = "given"
  BY DEF AllocInv, PlaceInv, Free
<1>2. /\ b \in [addr : Nat, ptr : 0 .. Size - 1, size : Nat \ {0},
                state : {"given", "freeing", "made"}]
      /\ b.addr = a.addr /\ b.ptr = a.ptr /\ b.size = a.size /\ b.state = "freeing"
      /\ Place(b) = Place(a)
  BY <1>1 DEF Place
<1>3. /\ call' = [call EXCEPT ![h] = c] /\ UNCHANGED <<free, history>>
      /\ heap' = (heap \ {a}) \cup {b}
      /\ call[h].op = "none"
  BY IdleSound DEF Free, MayCall
<1>4. Sound(c) /\ c.op = "free" /\ c.ptr = a.addr
  <2>1. a.addr \in Int
    BY <1>1
  <2>2. c \in Calls /\ c.op = "free" /\ c.ptr = a.addr
    BY <2>1, IdleSound DEF Calls
  <2>3. QED
    BY <2>2 DEF Sound
<1> HIDE DEF c, b
<1>5. /\ CallInv' /\ call'[h] = c
      /\ \A g \in Host \ {h} :
           /\ call'[g] = call[g]
           /\ g \in Taking' <=> g \in Taking
           /\ Part(g)' = Part(g)
           /\ Wanted(g)' = Wanted(g)
           /\ Freeing(g)' <=> Freeing(g)
           /\ Result(g)' = Result(g)
  BY <1>3, <1>4, CallChange DEF AllocInv
<1>6. Taking' = Taking /\ h \notin Taking
  BY <1>3, <1>4, <1>5 DEF Taking
<1>7. \A g \in Taking : /\ Part(g)' = Part(g) /\ Wanted(g)' = Wanted(g)
                        /\ call'[g].ptr = call[g].ptr
  BY <1>5, <1>6 DEF Taking
<1>8. FreeInv'
  BY <1>3 DEF AllocInv, FreeInv
<1>9. PlaceInv'
  <2>1. heap' \subseteq [addr : Nat, ptr : 0 .. Size - 1, size : Nat \ {0},
                         state : {"given", "freeing", "made"}]
    BY <1>2, <1>3 DEF AllocInv, PlaceInv
  <2>2. \A d \in heap' : d.addr % Size = d.ptr /\ history[d.ptr] = d.size
    BY <1>2, <1>3 DEF AllocInv, PlaceInv
  <2>3. QED
    BY <1>3, <1>6, <1>7, <2>1, <2>2 DEF AllocInv, PlaceInv
<1>10. ShareInv'
  <2>1. \A d : Place(d)' = Place(d)
    BY DEF Place
  <2>2. \A x : In(free, x)' <=> In(free, x)
    BY <1>3 DEF In
  <2>3. \A d \in heap' : (d \in heap /\ d # a) \/ d = b
    BY <1>3
  <2>4. \A d \in heap : d \in heap' \/ d = a
    BY <1>3
  <2>5. b \in heap'
    BY <1>3
  <2>6. \A d, e \in heap' : d # e => Place(d) \cap Place(e) = {}
    BY <1>2, <2>3 DEF AllocInv, ShareInv
  <2>7. \A d \in heap' : \A g \in Taking : Place(d) \cap Part(g) = {}
    BY <1>2, <2>3 DEF AllocInv, ShareInv
  <2>8. \A x : (\A d \in heap' : x \notin Place(d)) <=> (\A d \in heap : x \notin Place(d))
    BY <1>2, <2>3, <2>4, <2>5
  <2>9. \A d \in heap' : Place(d) \subseteq 0 .. Size - 1
    BY <1>2, <2>3 DEF AllocInv, ShareInv
  <2>10. QED
    BY <1>6, <1>7, <2>1, <2>2, <2>6, <2>7, <2>8, <2>9 DEF AllocInv, ShareInv
<1>11. FreeingInv'
  <2>1. \A g \in Host \ {h} : Freeing(g) =>
          \E d \in heap' : d.addr = call[g].ptr /\ d.state = "freeing" /\ d.addr # a.addr
    <3>1. SUFFICES ASSUME NEW g \in Host \ {h}, Freeing(g)
                   PROVE  \E d \in heap' : d.addr = call[g].ptr /\ d.state = "freeing"
                                             /\ d.addr # a.addr
      OBVIOUS
    <3>2. PICK d \in heap : d.addr = call[g].ptr /\ d.state = "freeing"
      BY <3>1 DEF AllocInv, FreeingInv
    <3>3. d # a
      BY <1>1, <3>2
    <3>4. d.addr # a.addr
      BY <3>3, PlaceStart
    <3>5. QED
      BY <1>3, <3>2, <3>3, <3>4
  <2>2. b \in heap' /\ b.addr = a.addr /\ b.state = "freeing"
    BY <1>2, <1>3
  <2>3. /\ \A g \in Host \ {h} : Freeing(g)' => call'[g].ptr # a.addr
        /\ call'[h].ptr = a.addr
    BY <1>4, <1>5, <2>1
  <2>4. \A g \in Host : Freeing(g)' => \E d \in heap' : d.addr = call'[g].ptr /\ d.state = "freeing"
    BY <1>5, <2>1, <2>2, <2>3
  <2>5. \A f, g \in Host : Freeing(f)' /\ Freeing(g)' /\ f # g => call'[f].ptr # call'[g].ptr
    BY <1>5, <2>3 DEF AllocInv, FreeingInv
  <2>6. QED
    BY <2>4, <2>5 DEF FreeingInv
<1>12. MadeInv'
  <2>1. Result(h)' = {}
    BY <1>4, <1>5 DEF Result
  <2>2. \A g \in Host : Result(g)' \subseteq Result(g)
    BY <1>5, <2>1
  <2>3. \A d \in heap : d.state = "made" => d \in heap'
    BY <1>1, <1>3
  <2>4. QED
    BY <2>2, <2>3 DEF AllocInv, MadeInv
<1>13. QED
  BY <1>5, <1>8, <1>9, <1>10, <1>11, <1>12 DEF AllocInv

\* HandleFree: the allocation goes, and its bytes are free.
LEMMA HandleFreeKeeps ==
  ASSUME AllocInv, NEW h \in Host, HandleFree(h)
  PROVE  AllocInv'
<1> DEFINE addr == call[h].ptr
           ptr == addr % Size
<1>1. /\ call[h].op = "free"
      /\ call' = [call EXCEPT ![h] = Idle]
      /\ free' = IF history[ptr] = 0 THEN free
                 ELSE Merged(free, ptr, ptr + history[ptr] - 1)
      /\ heap' = {d \in heap : d.addr # addr}
      /\ history' = history
  BY DEF HandleFree
<1>2. PICK a \in heap : a.addr = addr /\ a.state = "freeing"
  BY <1>1 DEF AllocInv, FreeingInv, Freeing
<1>3. heap' = heap \ {a}
  BY <1>1, <1>2, PlaceStart
<1>4. /\ a.ptr = ptr /\ history[ptr] = a.size /\ ptr \in Int /\ a.size \in Nat \ {0}
      /\ Place(a) = ptr .. ptr + history[ptr] - 1
  BY <1>2, PlaceStart DEF AllocInv, PlaceInv, Place
<1> HIDE DEF ptr, addr
<1>5. /\ free' \in Ranges /\ Ordered(free')
      /\ \A x \in Int : In(free', x) <=> In(free, x) \/ x \in Place(a)
  <2>1. free' = Merged(free, ptr, ptr + history[ptr] - 1)
    BY <1>1, <1>4
  <2>2. /\ free \in Ranges /\ Ordered(free)
        /\ ptr + history[ptr] - 1 \in Int /\ ptr <= ptr + history[ptr] - 1
    BY <1>4 DEF AllocInv, FreeInv
  <2>3. QED
    BY <1>4, <2>1, <2>2, MergedOrdered
<1>6. /\ CallInv' /\ call'[h] = Idle
      /\ \A g \in Host \ {h} :
           /\ call'[g] = call[g]
           /\ g \in Taking' <=> g \in Taking
           /\ Part(g)' = Part(g)
           /\ Wanted(g)' = Wanted(g)
           /\ Freeing(g)' <=> Freeing(g)
           /\ Result(g)' = Result(g)
  BY <1>1, IdleSound, CallChange DEF AllocInv
<1>7. Taking' = Taking /\ h \notin Taking
  BY <1>1, <1>6, IdleSound DEF Taking
<1>8. \A g \in Taking : /\ Part(g)' = Part(g) /\ Wanted(g)' = Wanted(g)
                        /\ call'[g].ptr = call[g].ptr
  BY <1>6, <1>7 DEF Taking
<1>9. FreeInv'
  BY <1>5 DEF FreeInv
<1>10. PlaceInv'
  BY <1>1, <1>3, <1>7, <1>8 DEF AllocInv, PlaceInv
<1>11. ShareInv'
  <2>1. \A d : Place(d)' = Place(d)
    BY DEF Place
  <2>2. \A x \in Int : In(free, x)' <=> In(free, x) \/ x \in Place(a)
    BY <1>5 DEF In
  <2>3. \A x \in Place(a) : /\ x \in 0 .. Size - 1
                            /\ \A d \in heap' : x \notin Place(d)
                            /\ \A g \in Taking : x \notin Part(g)
    <3>1. \A d \in heap' : d \in heap /\ d # a
      BY <1>3
    <3>2. QED
      BY <1>2, <3>1 DEF AllocInv, ShareInv
  <2>4. \A x : (\A d \in heap : x \notin Place(d)) <=>
                  x \notin Place(a) /\ \A d \in heap' : x \notin Place(d)
    BY <1>2, <1>3
  <2>5. \A x \in Int : In(free, x)' <=> /\ x \in 0 .. Size - 1
                                        /\ \A d \in heap' : x \notin Place(d)
                                        /\ \A g \in Taking : x \notin Part(g)
    BY <2>2, <2>3, <2>4 DEF AllocInv, ShareInv
  <2>6. QED
    BY <1>3, <1>7, <1>8, <2>1, <2>5 DEF AllocInv, ShareInv
<1>12. FreeingInv'
  <2>1. ~ Freeing(h)'
    BY <1>6, IdleSound DEF Freeing
  <2>2. \A g \in Host \ {h} : Freeing(g) => call[g].ptr # addr
    BY <1>1 DEF AllocInv, FreeingInv, Freeing, addr
  <2>3. \A d \in heap : d.addr # addr => d \in heap'
    BY <1>1
  <2>4. QED
    BY <1>6, <2>1, <2>2, <2>3 DEF AllocInv, FreeingInv
<1>13. MadeInv'
  <2>1. Result(h)' = {}
    BY <1>6, IdleSound DEF Result
  <2>2. \A g \in Host : Result(g)' \subseteq Result(g)
    BY <1>6, <2>1
  <2>3. \A d \in heap : d.state = "made" => d \in heap'
    BY <1>2, <1>3
  <2>4. QED
    BY <2>2, <2>3 DEF AllocInv, MadeInv
<1>14. QED
  BY <1>6, <1>9, <1>10, <1>11, <1>12, <1>13 DEF AllocInv

\* A byte range that is new to the heap and to those who are taking.
Fresh(p, n) ==
  \A x \in p .. p + n - 1 : /\ x \in 0 .. Size - 1
                            /\ \A a \in heap : x \notin Place(a)
                            /\ \A h \in Taking : x \notin Part(h)

\* HandleAlloc: what was free is an allocation.
LEMMA HandleAllocKeeps ==
  ASSUME WholePages, AllocInv, NEW h \in Host, HandleAlloc(h)
  PROVE  AllocInv'
<1> DEFINE n == call[h].sizes[1]
           i == FirstFit(free, n)
           p == free[i][1]
           b == Allocation(p, n, View(p, n), "given")
<1>1. call[h].op = "malloc" /\ call' = [call EXCEPT ![h] = Idle]
  BY DEF HandleAlloc
<1>2. h \notin Taking
  BY <1>1 DEF Taking
<1>3. n \in Nat \ {0}
  BY <1>1 DEF AllocInv, CallInv, Sound, Calls
<1>4. CASE UNCHANGED <<free, history, heap>>
  BY <1>1, <1>2, <1>4, IdleSound, OnlyCall
<1>5. CASE i # 0 /\ VmMalloc(i, n) /\ heap' = heap \cup {b}
  <2>1. b = [addr |-> Address(p, n, View(p, n)), ptr |-> p, size |-> n, state |-> "given"]
    BY DEF Allocation
  <2>2. /\ FreeInv'
        /\ p \in 0 .. Size - 1
        /\ history' \in [0 .. Size - 1 -> Nat]
        /\ history'[p] = n
        /\ \A a \in heap : history'[a.ptr] = a.size
        /\ \A g \in Taking : history'[call[g].ptr] = Wanted(g)
        /\ Fresh(p, n)
        /\ \A x \in Int : In(free', x) <=> In(free, x) /\ x \notin p .. p + n - 1
    <3> HIDE DEF n
    <3>1. i = FirstFit(free, n)
      OBVIOUS
    <3> HIDE DEF i
    <3>2. QED
      BY <1>3, <1>5, <3>1, MallocPlace DEF Fresh
  <2>3. Address(p, n, View(p, n)) \in Nat /\ Address(p, n, View(p, n)) % Size = p
    BY <1>3, <2>2, ViewType, AddressOf
  <2> HIDE DEF n, i, p, b
  <2>4. /\ b \in [addr : Nat, ptr : 0 .. Size - 1, size : Nat \ {0},
                  state : {"given", "freeing", "made"}]
        /\ b.addr % Size = b.ptr /\ b.ptr = p /\ b.size = n
        /\ Place(b) = p .. p + n - 1
    BY <1>3, <2>1, <2>2, <2>3 DEF Place
  <2>5. /\ CallInv' /\ call'[h] = Idle
        /\ \A g \in Host \ {h} :
             /\ call'[g] = call[g]
             /\ g \in Taking' <=> g \in Taking
             /\ Part(g)' = Part(g)
             /\ Wanted(g)' = Wanted(g)
             /\ Freeing(g)' <=> Freeing(g)
             /\ Result(g)' = Result(g)
    BY <1>1, IdleSound, CallChange DEF AllocInv
  <2>6. Taking' = Taking
    BY <1>2, <2>5, IdleSound DEF Taking
  <2>7. \A g \in Taking : /\ Part(g)' = Part(g) /\ Wanted(g)' = Wanted(g)
                          /\ call'[g].ptr = call[g].ptr
    BY <1>2, <2>5, <2>6 DEF Taking
  <2>8. PlaceInv'
    BY <1>5, <2>2, <2>4, <2>6, <2>7 DEF AllocInv, PlaceInv
  <2>9. ShareInv'
    <3>1. \A d : Place(d)' = Place(d)
      BY DEF Place
    <3>2. \A x \in Int : In(free, x)' <=> In(free, x) /\ x \notin Place(b)
      BY <2>2, <2>4 DEF In
    <3>3. \A x \in Place(b) : /\ x \in 0 .. Size - 1
                              /\ \A a \in heap : x \notin Place(a)
                              /\ \A g \in Taking : x \notin Part(g)
      BY <2>2, <2>4 DEF Fresh
    <3>4. \A d, e \in heap' : d # e => Place(d) \cap Place(e) = {}
      BY <1>5, <3>3 DEF AllocInv, ShareInv
    <3>5. \A d \in heap' : \A g \in Taking : Place(d) \cap Part(g) = {}
      BY <1>5, <3>3 DEF AllocInv, ShareInv
    <3>6. \A d \in heap' : Place(d) \subseteq 0 .. Size - 1
      BY <1>5, <3>3 DEF AllocInv, ShareInv
    <3>7. \A x \in Int : In(free, x)' <=> /\ x \in 0 .. Size - 1
                                          /\ \A a \in heap' : x \notin Place(a)
                                          /\ \A g \in Taking : x \notin Part(g)
      BY <1>5, <3>2 DEF AllocInv, ShareInv
    <3>8. QED
      BY <2>6, <2>7, <3>1, <3>4, <3>5, <3>6, <3>7 DEF AllocInv, ShareInv
  <2>10. FreeingInv'
    <3>1. ~ Freeing(h)'
      BY <2>5, IdleSound DEF Freeing
    <3>2. QED
      BY <1>5, <2>5, <3>1 DEF AllocInv, FreeingInv
  <2>11. MadeInv'
    <3>1. Result(h)' = {}
      BY <2>5, IdleSound DEF Result
    <3>2. \A g \in Host : Result(g)' \subseteq Result(g)
      BY <2>5, <3>1
    <3>3. QED
      BY <1>5, <3>2 DEF AllocInv, MadeInv
  <2>12. QED
    BY <2>2, <2>5, <2>8, <2>9, <2>10, <2>11 DEF AllocInv
<1>6. QED
  BY <1>4, <1>5 DEF HandleAlloc

\* MultiTake: what was free is a part that waits for its pages.
LEMMA MultiTakeKeeps ==
  ASSUME AllocInv, NEW h \in Host, MultiTake(h)
  PROVE  AllocInv'
<1> DEFINE n == call[h].sizes[Len(call[h].result) + 1]
           i == FirstFit(free, n)
           p == free[i][1]
           c == [call[h] EXCEPT !.ptr = p]
           dropped == [Idle EXCEPT !.op = "dropped"]
<1>1. call[h].op = "multi" /\ call[h].ptr = NoPtr /\ UNCHANGED heap
  BY DEF MultiTake
<1>2. h \notin Taking
  BY <1>1 DEF Taking
<1>3. /\ Sound(call[h]) /\ call[h] \in Calls /\ n \in Nat \ {0} /\ call[h].view = NoView
      /\ Len(call[h].result) < Len(call[h].sizes)
  BY <1>1 DEF AllocInv, CallInv, Sound, Calls
<1>4. CASE call' = [call EXCEPT ![h] = dropped] /\ UNCHANGED <<free, history>>
  <2>1. dropped \in Calls /\ dropped.op = "dropped"
    BY IdleSound DEF Calls
  <2> HIDE DEF dropped
  <2>2. Sound(dropped)
    BY <2>1 DEF Sound
  <2>3. QED
    BY <1>1, <1>2, <1>4, <2>1, <2>2, OnlyCall
<1>5. CASE i # 0 /\ VmMalloc(i, n) /\ call' = [call EXCEPT ![h].ptr = p]
  <2>1. /\ FreeInv'
        /\ p \in 0 .. Size - 1
        /\ history' \in [0 .. Size - 1 -> Nat]
        /\ history'[p] = n
        /\ \A a \in heap : history'[a.ptr] = a.size
        /\ \A g \in Taking : history'[call[g].ptr] = Wanted(g)
        /\ Fresh(p, n)
        /\ \A x \in Int : In(free', x) <=> In(free, x) /\ x \notin p .. p + n - 1
    <3> HIDE DEF n
    <3>1. i = FirstFit(free, n)
      OBVIOUS
    <3> HIDE DEF i
    <3>2. QED
      BY <1>3, <1>5, <3>1, MallocPlace DEF Fresh
  <2> HIDE DEF p
  <2>2. p \in Int /\ p # NoPtr
    BY <2>1 DEF NoPtr
  <2>3. /\ c \in Calls /\ c.op = "multi" /\ c.ptr = p /\ c.sizes = call[h].sizes
        /\ c.result = call[h].result /\ c.view = NoView
    BY <1>1, <1>3, <2>2 DEF Calls
  <2>4. Sound(c)
    BY <1>3, <2>3 DEF Sound
  <2>5. call' = [call EXCEPT ![h] = c]
    <3>1. call = [g \in Host |-> call[g]]
      BY DEF AllocInv, CallInv
    <3>2. QED
      BY <1>5, <3>1
  <2> HIDE DEF c
  <2>6. /\ CallInv' /\ call'[h] = c
        /\ \A g \in Host \ {h} :
             /\ call'[g] = call[g]
             /\ g \in Taking' <=> g \in Taking
             /\ Part(g)' = Part(g)
             /\ Wanted(g)' = Wanted(g)
             /\ Freeing(g)' <=> Freeing(g)
             /\ Result(g)' = Result(g)
    BY <2>4, <2>5, CallChange DEF AllocInv
  <2>7. Wanted(h)' = n /\ Part(h)' = p .. p + n - 1
    BY <2>3, <2>6 DEF Wanted, Part
  <2> HIDE DEF n, i
  <2>8. Taking' = Taking \cup {h}
    BY <2>2, <2>3, <2>6 DEF Taking
  <2>9. \A g \in Taking : /\ g # h /\ Part(g)' = Part(g) /\ Wanted(g)' = Wanted(g)
                          /\ call'[g].ptr = call[g].ptr
    BY <1>2, <2>6 DEF Taking
  <2>10. PlaceInv'
    <3>1. \A g \in Taking' : call'[g].ptr \in 0 .. Size - 1 /\ history'[call'[g].ptr] = Wanted(g)'
      BY <2>1, <2>3, <2>6, <2>7, <2>8, <2>9 DEF AllocInv, PlaceInv
    <3>2. QED
      BY <1>1, <2>1, <3>1 DEF AllocInv, PlaceInv
  <2>11. ShareInv'
    <3>1. \A d : Place(d)' = Place(d)
      BY DEF Place
    <3>2. \A x \in Int : In(free, x)' <=> In(free, x) /\ x \notin Part(h)'
      BY <2>1, <2>7 DEF In
    <3>3. \A x \in Part(h)' : /\ x \in 0 .. Size - 1
                              /\ \A a \in heap : x \notin Place(a)
                              /\ \A g \in Taking : x \notin Part(g)
      BY <2>1, <2>7 DEF Fresh
    <3>4. \A f, g \in Taking' : f # g => Part(f)' \cap Part(g)' = {}
      BY <2>8, <2>9, <3>3 DEF AllocInv, ShareInv
    <3>5. \A d \in heap : \A g \in Taking' : Place(d) \cap Part(g)' = {}
      BY <2>8, <2>9, <3>3 DEF AllocInv, ShareInv
    <3>6. \A g \in Taking' : Part(g)' \subseteq 0 .. Size - 1
      BY <2>8, <2>9, <3>3 DEF AllocInv, ShareInv
    <3>7. \A x \in Int : In(free, x)' <=> /\ x \in 0 .. Size - 1
                                          /\ \A a \in heap : x \notin Place(a)
                                          /\ \A g \in Taking' : x \notin Part(g)'
      BY <2>8, <2>9, <3>2 DEF AllocInv, ShareInv
    <3>8. QED
      BY <1>1, <3>1, <3>4, <3>5, <3>6, <3>7 DEF AllocInv, ShareInv
  <2>12. FreeingInv'
    <3>1. ~ Freeing(h)'
      BY <2>3, <2>6 DEF Freeing
    <3>2. QED
      BY <1>1, <2>6, <3>1 DEF AllocInv, FreeingInv
  <2>13. MadeInv'
    <3>1. Result(h)' = Result(h)
      BY <1>1, <2>3, <2>6 DEF Result
    <3>2. \A g \in Host : Result(g)' = Result(g)
      BY <2>6, <3>1
    <3>3. QED
      BY <1>1, <3>2 DEF AllocInv, MadeInv
  <2>14. QED
    BY <2>1, <2>6, <2>10, <2>11, <2>12, <2>13 DEF AllocInv
<1>6. QED
  BY <1>4, <1>5 DEF MultiTake

\* MultiInsert: the part that waited is an allocation; what the call has made
\* is still its own or, after the last one, its program's.
LEMMA MultiInsertKeeps ==
  ASSUME WholePages, AllocInv, NEW h \in Host, MultiInsert(h)
  PROVE  AllocInv'
<1> DEFINE c == call[h]
           n == Wanted(h)
           addr == Address(c.ptr, n, c.view)
           res == Append(c.result, addr)
           ready == Len(res) = Len(c.sizes)
           b == Allocation(c.ptr, n, c.view, "made")
           made == {a \in heap : \E i \in DOMAIN c.result : a.addr = c.result[i]} \cup {b}
           state == IF ready THEN "given" ELSE "made"
           After(a) == IF a \in made THEN [a EXCEPT !.state = state] ELSE a
           next == IF ready THEN Idle
                   ELSE [c EXCEPT !.ptr = NoPtr, !.view = NoView, !.result = res]
           Typed == [addr : Nat, ptr : 0 .. Size - 1, size : Nat \ {0},
                     state : {"given", "freeing", "made"}]
<1>1. /\ c.op = "multi" /\ c.view # NoView
      /\ call' = [call EXCEPT ![h] = next]
      /\ heap' = (heap \ made) \cup {[a EXCEPT !.state = state] : a \in made}
      /\ UNCHANGED <<free, history>>
  BY DEF MultiInsert, Wanted
<1>2. /\ Sound(c) /\ c \in Calls /\ c.ptr # NoPtr /\ h \in Taking
      /\ Len(c.result) < Len(c.sizes) /\ c.view \in Nat /\ c.result \in Seq(Nat)
  BY <1>1 DEF AllocInv, CallInv, Sound, Calls, Taking
<1>3. /\ n \in Nat \ {0} /\ c.ptr \in Part(h) /\ c.ptr \in 0 .. Size - 1
      /\ history[c.ptr] = n /\ Part(h) = c.ptr .. c.ptr + n - 1
  BY <1>2, PlaceStart DEF AllocInv, PlaceInv, Part
<1>4. addr \in Nat /\ addr % Size = c.ptr
  BY <1>2, <1>3, AddressOf
<1>5. /\ b = [addr |-> addr, ptr |-> c.ptr, size |-> n, state |-> "made"]
      /\ b \in made
  BY DEF Allocation
<1>6. heap' = {After(a) : a \in heap \cup {b}}
  BY <1>1
<1>7. Sound(next)
  <2>1. /\ res \in Seq(Nat) /\ Len(res) = Len(c.result) + 1
        /\ Len(c.result) \in Nat /\ Len(c.sizes) \in Nat
    BY <1>2, <1>4 DEF Calls
  <2> HIDE DEF res
  <2>2. NoPtr \in Int /\ NoView \in Nat
    BY DEF NoPtr, NoView
  <2>3. CASE ~ ready
    <3>1. /\ next \in Calls /\ next.op = "multi" /\ next.view = NoView
          /\ next.result = res /\ next.sizes = c.sizes
      BY <1>1, <1>2, <2>1, <2>2, <2>3 DEF Calls
    <3>2. Len(res) < Len(c.sizes)
      BY <1>2, <2>1, <2>3
    <3>3. QED
      BY <3>1, <3>2 DEF Sound
  <2>4. CASE ready
    BY <2>4, IdleSound
  <2>5. QED
    BY <2>3, <2>4
<1>8. next.op = "multi" => /\ ~ ready /\ next.ptr = NoPtr /\ next.result = res
  BY <1>2, IdleSound DEF Calls
<1>9. next.op \in {"none", "multi"} /\ (next.op = "multi" => next.ptr = NoPtr)
  BY <1>1, <1>2, <1>8, IdleSound DEF Calls
<1>10. Result(h) = Range(c.result) /\ Range(res) = Range(c.result) \cup {addr}
  <2>1. /\ DOMAIN res = 1 .. Len(c.result) + 1 /\ DOMAIN c.result = 1 .. Len(c.result)
        /\ Len(c.result) \in Nat
        /\ res[Len(c.result) + 1] = addr
        /\ \A i \in 1 .. Len(c.result) : res[i] = c.result[i]
    BY <1>2, <1>4
  <2> HIDE DEF res, addr
  <2>2. \A i \in DOMAIN res : i \in DOMAIN c.result \/ i = Len(c.result) + 1
    BY <2>1
  <2>3. (\A i \in DOMAIN c.result : i \in DOMAIN res) /\ Len(c.result) + 1 \in DOMAIN res
    BY <2>1
  <2>4. QED
    BY <1>1, <2>1, <2>2, <2>3 DEF Range, Result
<1>11. \A a \in heap : a \in made <=> a = b \/ a.addr \in Result(h)
  BY <1>10 DEF Range
<1>12. state \in {"given", "made"} /\ (~ ready => state = "made")
  OBVIOUS
<1> HIDE DEF made, state, next, res, addr, ready, b, n
\* The new allocation has the part that waited.
<1>13. /\ b \in Typed /\ b.addr = addr /\ b.ptr = c.ptr /\ b.size = n /\ b.state = "made"
       /\ b.addr % Size = b.ptr /\ history[b.ptr] = b.size
       /\ Place(b) = Part(h)
  BY <1>3, <1>4, <1>5 DEF Place
<1>14. \A a \in heap : a.addr # addr
  <2>1. SUFFICES ASSUME NEW a \in heap, a.addr = addr PROVE FALSE
    OBVIOUS
  <2>2. a.ptr = c.ptr
    BY <1>4, <2>1 DEF AllocInv, PlaceInv
  <2>3. c.ptr \in Place(a) \cap Part(h)
    BY <1>3, <2>1, <2>2, PlaceStart
  <2>4. QED
    BY <1>2, <2>1, <2>3 DEF AllocInv, ShareInv
<1>15. b \notin heap
  BY <1>13, <1>14
\* What there is afterwards differs from what there was in the state only.
<1>16. \A a \in heap \cup {b} : a \in Typed
  BY <1>13 DEF AllocInv, PlaceInv
<1>17. \A a \in heap \cup {b} :
         /\ After(a) \in Typed /\ After(a) \in heap'
         /\ After(a).addr = a.addr /\ After(a).ptr = a.ptr /\ After(a).size = a.size
         /\ Place(After(a)) = Place(a)
         /\ a \in made => After(a).state = state
         /\ a \notin made => After(a) = a
  <2>1. SUFFICES ASSUME NEW a \in heap \cup {b}
                 PROVE  /\ After(a) \in Typed
                        /\ After(a).addr = a.addr /\ After(a).ptr = a.ptr /\ After(a).size = a.size
                        /\ a \in made => After(a).state = state
    BY <1>6 DEF Place
  <2>2. CASE a \in made
    BY <1>12, <1>16, <2>1, <2>2
  <2>3. CASE a \notin made
    BY <1>16, <2>1, <2>3
  <2>4. QED
    BY <2>2, <2>3
<1>18. \A d \in heap' : \E a \in heap \cup {b} : d = After(a)
  BY <1>6
<1> HIDE DEF After
<1>19. /\ CallInv' /\ call'[h] = next
       /\ \A g \in Host \ {h} :
            /\ call'[g] = call[g]
            /\ g \in Taking' <=> g \in Taking
            /\ Part(g)' = Part(g)
            /\ Wanted(g)' = Wanted(g)
            /\ Freeing(g)' <=> Freeing(g)
            /\ Result(g)' = Result(g)
  BY <1>1, <1>7, CallChange DEF AllocInv
<1>20. Taking' = Taking \ {h}
  BY <1>9, <1>19 DEF Taking
<1>21. \A g \in Taking' : /\ g \in Taking /\ g # h
                          /\ Part(g)' = Part(g) /\ Wanted(g)' = Wanted(g)
                          /\ call'[g].ptr = call[g].ptr
  BY <1>19, <1>20 DEF Taking
<1>22. FreeInv'
  BY <1>1 DEF AllocInv, FreeInv
<1>23. PlaceInv'
  <2>1. \A a \in heap \cup {b} : a.addr % Size = a.ptr /\ history[a.ptr] = a.size
    BY <1>13 DEF AllocInv, PlaceInv
  <2>2. \A d \in heap' : d \in Typed /\ d.addr % Size = d.ptr /\ history[d.ptr] = d.size
    BY <1>17, <1>18, <2>1
  <2>3. \A g \in Taking' : call'[g].ptr \in 0 .. Size - 1 /\ history[call'[g].ptr] = Wanted(g)'
    BY <1>21 DEF AllocInv, PlaceInv
  <2>4. QED
    BY <1>1, <2>2, <2>3 DEF AllocInv, PlaceInv
<1>24. ShareInv'
  <2>1. \A d : Place(d)' = Place(d)
    BY DEF Place
  <2>2. \A x : In(free, x)' <=> In(free, x)
    BY <1>1 DEF In
  <2>3. \A a, d \in heap \cup {b} : a # d => Place(a) \cap Place(d) = {}
    BY <1>2, <1>13 DEF AllocInv, ShareInv
  <2>4. \A a \in heap \cup {b} : /\ Place(a) \subseteq 0 .. Size - 1
                                 /\ \A g \in Taking' : Place(a) \cap Part(g) = {}
    BY <1>2, <1>13, <1>21 DEF AllocInv, ShareInv
  <2>5. \A x : /\ (\A d \in heap' : x \notin Place(d)) <=>
                     (\A a \in heap : x \notin Place(a)) /\ x \notin Part(h)
               /\ (\A g \in Taking : x \notin Part(g)) <=>
                     (\A g \in Taking' : x \notin Part(g)) /\ x \notin Part(h)
    <3>1. \A x : (\A d \in heap' : x \notin Place(d)) <=>
                    \A a \in heap \cup {b} : x \notin Place(a)
      BY <1>17, <1>18
    <3>2. QED
      BY <1>2, <1>13, <1>20, <3>1
  <2>6. \A d, e \in heap' : d # e => Place(d) \cap Place(e) = {}
    BY <1>17, <1>18, <2>3
  <2>7. \A d \in heap' : /\ Place(d) \subseteq 0 .. Size - 1
                         /\ \A g \in Taking' : Place(d) \cap Part(g) = {}
    BY <1>17, <1>18, <2>4
  <2>8. \A x \in Int : In(free, x) <=> /\ x \in 0 .. Size - 1
                                       /\ \A d \in heap' : x \notin Place(d)
                                       /\ \A g \in Taking' : x \notin Part(g)
    BY <2>5 DEF AllocInv, ShareInv
  <2>9. /\ \A g \in Taking' : Part(g) \subseteq 0 .. Size - 1
        /\ \A f, g \in Taking' : f # g => Part(f) \cap Part(g) = {}
    BY <1>21 DEF AllocInv, ShareInv
  <2>10. QED
    BY <1>21, <2>1, <2>2, <2>6, <2>7, <2>8, <2>9 DEF ShareInv
<1>25. FreeingInv'
  <2>1. ~ Freeing(h)'
    BY <1>9, <1>19 DEF Freeing
  <2>2. ASSUME NEW a \in heap, a.state = "freeing" PROVE a \in heap'
    <3>1. ASSUME a.addr \in Result(h) PROVE FALSE
      <4>1. PICK d \in heap : d.addr = a.addr /\ d.state = "made"
        BY <3>1 DEF AllocInv, MadeInv
      <4>2. QED
        BY <2>2, <4>1, PlaceStart
    <3>2. a \notin made
      BY <1>11, <1>15, <3>1
    <3>3. QED
      BY <1>17, <3>2
  <2>3. \A g \in Host : Freeing(g)' => \E a \in heap' : a.addr = call'[g].ptr /\ a.state = "freeing"
    BY <1>19, <2>1, <2>2 DEF AllocInv, FreeingInv
  <2>4. QED
    BY <1>19, <2>1, <2>3 DEF AllocInv, FreeingInv
<1>26. MadeInv'
  <2>1. ASSUME NEW g \in Host, NEW x \in Result(g)
        PROVE  \E d \in heap' : d.addr = x /\ (g # h \/ ~ ready => d.state = "made")
    <3>1. PICK a \in heap : a.addr = x /\ a.state = "made"
      BY <2>1 DEF AllocInv, MadeInv
    <3>2. CASE g = h
      <4>1. a \in made
        BY <1>11, <2>1, <3>1, <3>2
      <4>2. QED
        BY <1>12, <1>17, <3>1, <3>2, <4>1
    <3>3. CASE g # h
      <4>1. a.addr \notin Result(h)
        BY <2>1, <3>1, <3>3 DEF AllocInv, MadeInv
      <4>2. a \notin made
        BY <1>11, <1>15, <4>1
      <4>3. QED
        BY <1>17, <3>1, <4>2
    <3>4. QED
      BY <3>2, <3>3
  <2>2. Result(h)' = {} \/ (~ ready /\ Result(h)' = Result(h) \cup {addr})
    <3>1. CASE next.op = "multi"
      BY <1>8, <1>10, <1>19, <3>1 DEF Result
    <3>2. CASE next.op # "multi"
      BY <1>19, <3>2 DEF Result
    <3>3. QED
      BY <3>1, <3>2
  <2>3. ~ ready => \E d \in heap' : d.addr = addr /\ d.state = "made"
    BY <1>5, <1>12, <1>13, <1>17
  <2>4. \A g \in Host : addr \notin Result(g)
    BY <1>14 DEF AllocInv, MadeInv
  <2>5. \A g \in Host : \A x \in Result(g)' : \E d \in heap' : d.addr = x /\ d.state = "made"
    BY <1>19, <2>1, <2>2, <2>3
  <2>6. \A f, g \in Host : f # g => Result(f)' \cap Result(g)' = {}
    BY <1>19, <2>2, <2>4 DEF AllocInv, MadeInv
  <2>7. QED
    BY <2>5, <2>6 DEF MadeInv
<1>27. QED
  BY <1>19, <1>22, <1>23, <1>24, <1>25, <1>26 DEF AllocInv

LEMMA InitAlloc ==
  ASSUME Init
  PROVE  AllocInv
<1>1. Size \in Nat \ {0}
  BY SizeAssumption
<1>2. /\ free = <<<<0, Size - 1>>>> /\ history = [a \in 0 .. Size - 1 |-> 0]
      /\ call = [h \in Host |-> Idle] /\ heap = {}
  BY DEF Init
<1>3. /\ DOMAIN free = {1} /\ free[1] = <<0, Size - 1>>
      /\ free[1][1] = 0 /\ free[1][2] = Size - 1
  BY <1>2
<1>4. \A h \in Host : call[h] = Idle
  BY <1>2
<1>5. Taking = {} /\ \A h \in Host : ~ Freeing(h) /\ Result(h) = {}
  BY <1>4, IdleSound DEF Taking, Freeing, Result
<1>6. CallInv
  BY <1>2, <1>4, IdleSound DEF CallInv
<1>7. FreeInv
  <2>1. <<0, Size - 1>> \in Int \X Int
    BY <1>1
  <2>2. free \in Ranges
    BY <1>2, <2>1 DEF Ranges
  <2>3. Ordered(free)
    BY <1>1, <1>3 DEF Ordered, WellFormed
  <2>4. QED
    BY <2>2, <2>3 DEF FreeInv
<1>8. PlaceInv
  BY <1>2, <1>5 DEF PlaceInv
<1>9. ShareInv
  <2>1. \A x \in Int : In(free, x) <=> x \in 0 .. Size - 1
    BY <1>3 DEF In, Bytes
  <2>2. QED
    BY <1>2, <1>5, <2>1 DEF ShareInv
<1>10. FreeingInv
  BY <1>5 DEF FreeingInv
<1>11. MadeInv
  BY <1>5 DEF MadeInv
<1>12. QED
  BY <1>6, <1>7, <1>8, <1>9, <1>10, <1>11 DEF AllocInv

LEMMA StutterKeeps ==
  ASSUME AllocInv, UNCHANGED vars
  PROVE  AllocInv'
<1>1. UNCHANGED <<free, history, call, heap>>
  BY DEF vars
<1>2. CallInv' /\ FreeInv' /\ PlaceInv' /\ FreeingInv' /\ MadeInv'
  <2>1. CallInv' /\ FreeInv'
    BY <1>1 DEF AllocInv, CallInv, FreeInv
  <2>2. Taking' = Taking /\ \A h : Wanted(h)' = Wanted(h)
    BY <1>1 DEF Taking, Wanted
  <2>3. PlaceInv'
    BY <1>1, <2>2 DEF AllocInv, PlaceInv
  <2>4. FreeingInv' /\ MadeInv'
    BY <1>1 DEF AllocInv, FreeingInv, MadeInv, Freeing, Result
  <2>5. QED
    BY <2>1, <2>3, <2>4
<1>3. ShareInv'
  <2>1. Taking' = Taking /\ \A h : Part(h)' = Part(h)
    BY <1>1 DEF Taking, Part, Wanted
  <2>2. (\A a : Place(a)' = Place(a)) /\ \A x : In(free, x)' <=> In(free, x)
    BY <1>1 DEF Place, In
  <2>3. QED
    BY <1>1, <2>1, <2>2 DEF AllocInv, ShareInv
<1>4. QED
  BY <1>2, <1>3 DEF AllocInv

LEMMA NextKeeps ==
  ASSUME WholePages, AllocInv, [Next]_vars
  PROVE  AllocInv'
<1>1. CASE UNCHANGED vars
  BY <1>1, StutterKeeps
<1>2. ASSUME NEW h \in Host, NEW n \in Sizes, Malloc(h, n) PROVE AllocInv'
  BY <1>2, MallocKeeps
<1>3. ASSUME NEW h \in Host, NEW ns \in MultiSizes, MultiMalloc(h, ns) PROVE AllocInv'
  BY <1>3, MultiMallocKeeps
<1>4. ASSUME NEW h \in Host, NEW a \in heap, Free(h, a) PROVE AllocInv'
  BY <1>4, FreeKeeps
<1>5. ASSUME NEW h \in Host, HandleAlloc(h) PROVE AllocInv'
  BY <1>5, HandleAllocKeeps
<1>6. ASSUME NEW h \in Host, MultiTake(h) PROVE AllocInv'
  BY <1>6, MultiTakeKeeps
<1>7. ASSUME NEW h \in Host, MultiView(h) PROVE AllocInv'
  BY <1>7, MultiViewKeeps
<1>8. ASSUME NEW h \in Host, MultiInsert(h) PROVE AllocInv'
  BY <1>8, MultiInsertKeeps
<1>9. ASSUME NEW h \in Host, HandleFree(h) PROVE AllocInv'
  BY <1>9, HandleFreeKeeps
<1>10. QED
  BY <1>1, <1>2, <1>3, <1>4, <1>5, <1>6, <1>7, <1>8, <1>9 DEF Next

-------------------------------------------------------------------------------
(* The free list in every memory *)

Within(x) == x \in 0 .. Size - 1

Made == [addr : Nat, ptr : Int, size : Nat, state : {"given", "freeing", "made"}]

\* The part of the invariant that holds in every memory: the list is in order
\* and, like the sizes that were given out, within the memory.
ListInv ==
  /\ CallInv /\ FreeInv
  /\ heap \subseteq Made
  /\ \A x \in Int : In(free, x) => Within(x)
  /\ history \in [0 .. Size - 1 -> Nat]
  /\ \A p \in 0 .. Size - 1 : p + history[p] <= Size
  /\ \A h \in Taking : Within(call[h].ptr)

LEMMA InitList ==
  ASSUME Init
  PROVE  ListInv
<1>1. Size \in Nat \ {0}
  BY SizeAssumption
<1>2. /\ free = <<<<0, Size - 1>>>> /\ history = [a \in 0 .. Size - 1 |-> 0]
      /\ call = [h \in Host |-> Idle] /\ heap = {}
  BY DEF Init
<1>3. Taking = {}
  BY <1>2, IdleSound DEF Taking
<1>4. \A x \in Int : In(free, x) => Within(x)
  <2>1. DOMAIN free = {1} /\ free[1][1] = 0 /\ free[1][2] = Size - 1
    BY <1>2
  <2>2. QED
    BY <2>1 DEF In, Bytes, Within
<1>5. CallInv /\ FreeInv
  BY InitAlloc DEF AllocInv
<1>6. QED
  BY <1>1, <1>2, <1>3, <1>4, <1>5 DEF ListInv

LEMMA CallOnlyList ==
  ASSUME ListInv, NEW h \in Host, NEW c, Sound(c), call' = [call EXCEPT ![h] = c],
         UNCHANGED <<free, history>>, heap' \subseteq Made,
         c.op = "multi" /\ c.ptr # NoPtr => Within(c.ptr)
  PROVE  ListInv'
<1>1. /\ CallInv' /\ call'[h] = c
      /\ \A g \in Host \ {h} : call'[g] = call[g] /\ (g \in Taking' <=> g \in Taking)
  BY CallChange DEF ListInv
<1>2. \A g \in Taking' : Within(call'[g].ptr)
  BY <1>1 DEF ListInv, Taking, CallInv
<1>3. FreeInv' /\ \A x \in Int : In(free, x)' => Within(x)
  BY DEF ListInv, FreeInv, In
<1>4. QED
  BY <1>1, <1>2, <1>3 DEF ListInv, Within

\* What Malloc takes is within the memory.
LEMMA MallocWithin ==
  ASSUME ListInv, NEW n \in Nat \ {0}, NEW i, i = FirstFit(free, n), i # 0
  PROVE  /\ i \in DOMAIN free /\ free[i][2] - free[i][1] + 1 >= n
         /\ free[i][1] \in 0 .. Size - 1
         /\ free[i][1] + n <= Size
<1> DEFINE p == free[i][1]
<1>1. free \in Ranges /\ Ordered(free)
  BY DEF ListInv, FreeInv
<1>2. i \in DOMAIN free /\ free[i][2] - free[i][1] + 1 >= n
  BY <1>1, FirstFitFinds
<1>3. p \in Int
  BY <1>1, <1>2 DEF Ranges
<1>4. \A x \in p .. p + n - 1 : In(free, x)
  BY <1>1, <1>2, TakenOrdered
<1> HIDE DEF p
<1>5. p \in p .. p + n - 1 /\ p + n - 1 \in p .. p + n - 1 /\ p + n - 1 \in Int
  BY <1>3
<1>6. p \in 0 .. Size - 1 /\ p + n - 1 \in 0 .. Size - 1
  BY <1>3, <1>4, <1>5 DEF ListInv, Within
<1>7. p + n <= Size
  BY <1>3, <1>6, SizeAssumption
<1>8. QED
  BY <1>2, <1>6, <1>7 DEF p

\* Malloc takes a part of the memory and notes its size.
LEMMA MallocList ==
  ASSUME ListInv, NEW n \in Nat \ {0}, NEW i, i = FirstFit(free, n), i # 0, VmMalloc(i, n),
         NEW h \in Host, NEW c, Sound(c), call' = [call EXCEPT ![h] = c],
         heap' \subseteq Made, c.op = "multi" => c.ptr = free[i][1]
  PROVE  ListInv'
<1> DEFINE p == free[i][1]
<1>1. /\ i \in DOMAIN free /\ free[i][2] - free[i][1] + 1 >= n
      /\ p \in 0 .. Size - 1 /\ p + n <= Size
  BY MallocWithin
<1>2. free' = Taken(free, i, n) /\ history' = [history EXCEPT ![p] = n]
  BY DEF VmMalloc
<1>3. /\ free' \in Ranges /\ Ordered(free')
      /\ \A x \in Int : In(free', x) => In(free, x)
  BY <1>1, <1>2, TakenOrdered DEF ListInv, FreeInv
<1> HIDE DEF p
<1>4. history' \in [0 .. Size - 1 -> Nat] /\ \A q \in 0 .. Size - 1 : q + history'[q] <= Size
  <2>1. /\ history' \in [0 .. Size - 1 -> Nat] /\ history'[p] = n
        /\ \A q \in 0 .. Size - 1 : q # p => history'[q] = history[q]
    BY <1>1, <1>2 DEF ListInv
  <2>2. QED
    BY <1>1, <2>1 DEF ListInv
<1>5. /\ CallInv' /\ call'[h] = c
      /\ \A g \in Host \ {h} : call'[g] = call[g] /\ (g \in Taking' <=> g \in Taking)
  BY CallChange DEF ListInv
<1>6. \A g \in Taking' : Within(call'[g].ptr)
  BY <1>1, <1>5 DEF ListInv, Taking, Within, p
<1>7. FreeInv' /\ \A x \in Int : In(free, x)' => Within(x)
  BY <1>3 DEF ListInv, FreeInv, In
<1>8. QED
  BY <1>4, <1>5, <1>6, <1>7 DEF ListInv, Within

\* What is allocated has an address.
LEMMA AllocationMade ==
  ASSUME NEW p \in 0 .. Size - 1, NEW n \in Nat \ {0}, NEW v \in Nat,
         NEW state \in {"given", "made"}
  PROVE  Allocation(p, n, v, state) \in Made
<1>1. Address(p, n, v) \in Nat
  BY AddressForm
<1>2. QED
  BY <1>1 DEF Allocation, Made

LEMMA AllocList ==
  ASSUME ListInv, NEW h \in Host, HandleAlloc(h)
  PROVE  ListInv'
<1> DEFINE n == call[h].sizes[1]
           i == FirstFit(free, n)
           p == free[i][1]
           b == Allocation(p, n, View(p, n), "given")
<1>1. call[h].op = "malloc" /\ call' = [call EXCEPT ![h] = Idle]
  BY DEF HandleAlloc
<1>2. n \in Nat \ {0}
  BY <1>1 DEF ListInv, CallInv, Sound, Calls
<1>3. CASE UNCHANGED <<free, history, heap>>
  <2>1. heap' \subseteq Made
    BY <1>3 DEF ListInv
  <2>2. QED
    BY <1>1, <1>3, <2>1, IdleSound, CallOnlyList
<1>4. CASE i # 0 /\ VmMalloc(i, n) /\ heap' = heap \cup {b}
  <2> HIDE DEF n
  <2>1. i = FirstFit(free, n)
    OBVIOUS
  <2> HIDE DEF i
  <2>2. p \in 0 .. Size - 1
    BY <1>2, <1>4, <2>1, MallocWithin
  <2> HIDE DEF p
  <2>3. b \in Made
    BY <1>2, <2>2, ViewType, AllocationMade
  <2> HIDE DEF b
  <2>4. heap' \subseteq Made
    BY <1>4, <2>3 DEF ListInv
  <2>5. QED
    BY <1>1, <1>2, <1>4, <2>1, <2>4, IdleSound, MallocList
<1>5. QED
  BY <1>3, <1>4 DEF HandleAlloc

LEMMA TakeList ==
  ASSUME ListInv, NEW h \in Host, MultiTake(h)
  PROVE  ListInv'
<1> DEFINE n == call[h].sizes[Len(call[h].result) + 1]
           i == FirstFit(free, n)
           p == free[i][1]
           c == [call[h] EXCEPT !.ptr = p]
           dropped == [Idle EXCEPT !.op = "dropped"]
<1>1. call[h].op = "multi" /\ call[h].ptr = NoPtr /\ heap' \subseteq Made
  BY DEF MultiTake, ListInv
<1>2. /\ Sound(call[h]) /\ call[h] \in Calls /\ n \in Nat \ {0} /\ call[h].view = NoView
      /\ Len(call[h].result) < Len(call[h].sizes)
  BY <1>1 DEF ListInv, CallInv, Sound, Calls
<1>3. CASE call' = [call EXCEPT ![h] = dropped] /\ UNCHANGED <<free, history>>
  <2>1. dropped \in Calls /\ dropped.op = "dropped"
    BY IdleSound DEF Calls
  <2> HIDE DEF dropped
  <2>2. Sound(dropped)
    BY <2>1 DEF Sound
  <2>3. QED
    BY <1>1, <1>3, <2>1, <2>2, CallOnlyList
<1>4. CASE i # 0 /\ VmMalloc(i, n) /\ call' = [call EXCEPT ![h].ptr = p]
  <2>1. p \in Int
    <3> HIDE DEF n
    <3>1. i \in DOMAIN free
      BY <1>4, FirstFitFinds DEF ListInv, FreeInv
    <3>2. QED
      BY <3>1 DEF ListInv, FreeInv, Ranges
  <2> HIDE DEF p
  <2>2. /\ c \in Calls /\ c.op = "multi" /\ c.ptr = p /\ c.sizes = call[h].sizes
        /\ c.result = call[h].result /\ c.view = NoView
    BY <1>1, <1>2, <2>1 DEF Calls
  <2>3. Sound(c)
    BY <1>2, <2>2 DEF Sound
  <2>4. call' = [call EXCEPT ![h] = c]
    <3>1. call = [g \in Host |-> call[g]]
      BY DEF ListInv, CallInv
    <3>2. QED
      BY <1>4, <3>1
  <2> HIDE DEF c, n
  <2>5. i = FirstFit(free, n) /\ c.ptr = free[i][1]
    BY <2>2 DEF p
  <2> HIDE DEF i
  <2>6. QED
    BY <1>1, <1>2, <1>4, <2>3, <2>4, <2>5, MallocList
<1>5. QED
  BY <1>3, <1>4 DEF MultiTake

LEMMA InsertList ==
  ASSUME ListInv, NEW h \in Host, MultiInsert(h)
  PROVE  ListInv'
<1> DEFINE c == call[h]
           n == Wanted(h)
           res == Append(c.result, Address(c.ptr, n, c.view))
           ready == Len(res) = Len(c.sizes)
           next == IF ready THEN Idle
                   ELSE [c EXCEPT !.ptr = NoPtr, !.view = NoView, !.result = res]
<1>1. /\ c.op = "multi" /\ c.view # NoView
      /\ call' = [call EXCEPT ![h] = next]
      /\ UNCHANGED <<free, history>>
  BY DEF MultiInsert, Wanted
<1>2. /\ Sound(c) /\ c \in Calls /\ c.ptr # NoPtr /\ h \in Taking
      /\ Len(c.result) < Len(c.sizes) /\ c.view \in Nat /\ c.result \in Seq(Nat)
  BY <1>1 DEF ListInv, CallInv, Sound, Calls, Taking
<1>3. n \in Nat \ {0} /\ c.ptr \in 0 .. Size - 1
  BY <1>2 DEF ListInv, Within, Wanted, Calls
<1>4. Address(c.ptr, n, c.view) \in Nat
  BY <1>2, <1>3, AddressForm
<1>5. /\ res \in Seq(Nat) /\ Len(res) = Len(c.result) + 1
      /\ Len(c.result) \in Nat /\ Len(c.sizes) \in Nat
  BY <1>2, <1>4 DEF Calls
<1> HIDE DEF res
<1>6. Sound(next) /\ (next.op = "multi" => next.ptr = NoPtr)
  <2>1. NoPtr \in Int /\ NoView \in Nat
    BY DEF NoPtr, NoView
  <2>2. CASE ~ ready
    <3>1. /\ next \in Calls /\ next.op = "multi" /\ next.view = NoView /\ next.ptr = NoPtr
          /\ next.result = res /\ next.sizes = c.sizes
      BY <1>1, <1>2, <1>5, <2>1, <2>2 DEF Calls
    <3>2. Len(res) < Len(c.sizes)
      BY <1>2, <1>5, <2>2
    <3>3. QED
      BY <3>1, <3>2 DEF Sound
  <2>3. CASE ready
    BY <2>3, IdleSound
  <2>4. QED
    BY <2>2, <2>3
<1> HIDE DEF next
<1>7. heap' \subseteq Made
  <2> DEFINE b == Allocation(c.ptr, n, c.view, "made")
  <2>1. b \in Made
    BY <1>2, <1>3, AllocationMade
  <2>2. \E made \in SUBSET (heap \cup {b}), state \in {"given", "made"} :
          heap' = (heap \ made) \cup {[a EXCEPT !.state = state] : a \in made}
    <3> DEFINE made == {a \in heap : \E i \in DOMAIN c.result : a.addr = c.result[i]} \cup {b}
               state == IF ready THEN "given" ELSE "made"
    <3>1. heap' = (heap \ made) \cup {[a EXCEPT !.state = state] : a \in made}
      BY DEF MultiInsert, Wanted, res
    <3>2. made \in SUBSET (heap \cup {b}) /\ state \in {"given", "made"}
      OBVIOUS
    <3> HIDE DEF made, state
    <3>3. QED
      BY <3>1, <3>2
  <2>3. heap \cup {b} \subseteq Made
    BY <2>1 DEF ListInv
  <2>4. \A a \in Made : \A state \in {"given", "made"} : [a EXCEPT !.state = state] \in Made
    BY DEF Made
  <2> HIDE DEF b
  <2>5. QED
    BY <2>2, <2>3, <2>4
<1>8. QED
  BY <1>1, <1>6, <1>7, CallOnlyList

LEMMA HandleFreeList ==
  ASSUME ListInv, NEW h \in Host, HandleFree(h)
  PROVE  ListInv'
<1> DEFINE ptr == call[h].ptr % Size
           last == ptr + history[ptr] - 1
<1>1. /\ call' = [call EXCEPT ![h] = Idle]
      /\ free' = IF history[ptr] = 0 THEN free ELSE Merged(free, ptr, last)
      /\ history' = history
      /\ heap' \subseteq Made
  BY DEF HandleFree, ListInv
<1>2. call[h].ptr \in Int /\ Size \in Nat \ {0}
  BY SizeAssumption DEF ListInv, CallInv, Sound, Calls
<1>3. ptr \in 0 .. Size - 1
  BY <1>2
<1> HIDE DEF ptr
<1>4. history[ptr] \in Nat /\ ptr + history[ptr] <= Size
  BY <1>3 DEF ListInv
<1>5. CASE history[ptr] = 0
  BY <1>1, <1>5, IdleSound, CallOnlyList
<1>6. CASE history[ptr] # 0
  <2>1. ptr \in Int /\ last \in Int /\ ptr <= last /\ \A x \in ptr .. last : Within(x)
    BY <1>2, <1>3, <1>4, <1>6 DEF Within
  <2> HIDE DEF last
  <2>2. /\ free' \in Ranges /\ Ordered(free')
        /\ \A x \in Int : In(free', x) => In(free, x) \/ x \in ptr .. last
    BY <1>1, <1>6, <2>1, MergedOrdered DEF ListInv, FreeInv
  <2>3. FreeInv' /\ \A x \in Int : In(free, x)' => Within(x)
    BY <2>1, <2>2 DEF ListInv, FreeInv, In
  <2>4. /\ CallInv' /\ call'[h] = Idle
        /\ \A g \in Host \ {h} : call'[g] = call[g] /\ (g \in Taking' <=> g \in Taking)
    BY <1>1, IdleSound, CallChange DEF ListInv
  <2>5. \A g \in Taking' : Within(call'[g].ptr)
    BY <2>4, IdleSound DEF ListInv, Taking
  <2>6. QED
    BY <1>1, <2>3, <2>4, <2>5 DEF ListInv, Within
<1>7. QED
  BY <1>5, <1>6

\* The other steps leave the list and mallocHistory alone.
LEMMA CallsList ==
  ASSUME ListInv, NEW h \in Host,
         \/ \E n \in Sizes : Malloc(h, n)
         \/ \E ns \in MultiSizes : MultiMalloc(h, ns)
         \/ \E a \in heap : Free(h, a)
  PROVE  ListInv'
<1>1. ASSUME NEW n \in Sizes, Malloc(h, n) PROVE ListInv'
  <2> DEFINE c == [Idle EXCEPT !.op = "malloc", !.sizes = <<n>>]
  <2>1. <<n>> \in Seq(Nat \ {0}) /\ <<n>> # <<>>
    BY SizesAssumption
  <2>2. c \in Calls /\ c.op = "malloc" /\ c.sizes = <<n>>
    BY <2>1, IdleSound DEF Calls
  <2>3. call' = [call EXCEPT ![h] = c] /\ UNCHANGED <<free, history>> /\ heap' \subseteq Made
    BY <1>1 DEF Malloc, ListInv
  <2> HIDE DEF c
  <2>4. Sound(c)
    BY <2>1, <2>2 DEF Sound
  <2>5. QED
    BY <2>2, <2>3, <2>4, CallOnlyList
<1>2. ASSUME NEW ns \in MultiSizes, MultiMalloc(h, ns) PROVE ListInv'
  <2> DEFINE c == [Idle EXCEPT !.op = "multi", !.sizes = ns]
  <2>1. ns \in Seq(Nat \ {0}) /\ ns # <<>>
    BY SizesAssumption
  <2>2. Len(<<>>) < Len(ns)
    BY <2>1
  <2>3. /\ c \in Calls /\ c.op = "multi" /\ c.sizes = ns /\ c.ptr = NoPtr
        /\ c.view = NoView /\ c.result = <<>>
    BY <2>1, IdleSound DEF Calls
  <2>4. call' = [call EXCEPT ![h] = c] /\ UNCHANGED <<free, history>> /\ heap' \subseteq Made
    BY <1>2 DEF MultiMalloc, ListInv
  <2> HIDE DEF c
  <2>5. Sound(c)
    BY <2>2, <2>3 DEF Sound
  <2>6. QED
    BY <2>3, <2>4, <2>5, CallOnlyList
<1>3. ASSUME NEW a \in heap, Free(h, a) PROVE ListInv'
  <2> DEFINE c == [Idle EXCEPT !.op = "free", !.ptr = a.addr]
  <2>1. a \in Made /\ a.addr \in Int /\ [a EXCEPT !.state = "freeing"] \in Made
    BY DEF ListInv, Made
  <2>2. c \in Calls /\ c.op = "free"
    BY <2>1, IdleSound DEF Calls
  <2>3. call' = [call EXCEPT ![h] = c] /\ UNCHANGED <<free, history>> /\ heap' \subseteq Made
    BY <1>3, <2>1 DEF Free, ListInv
  <2> HIDE DEF c
  <2>4. Sound(c)
    BY <2>2 DEF Sound
  <2>5. QED
    BY <2>2, <2>3, <2>4, CallOnlyList
<1>4. QED
  BY <1>1, <1>2, <1>3

LEMMA MultiViewList ==
  ASSUME ListInv, NEW h \in Host, MultiView(h)
  PROVE  ListInv'
<1> DEFINE v == View(call[h].ptr, call[h].sizes[Len(call[h].result) + 1])
           c == [call[h] EXCEPT !.view = v]
<1>1. v \in Nat
  BY ViewType
<1> HIDE DEF v
<1>2. /\ call[h].op = "multi" /\ call[h].ptr # NoPtr /\ h \in Taking
      /\ call' = [call EXCEPT ![h].view = v] /\ UNCHANGED <<free, history>>
      /\ heap' \subseteq Made
  BY DEF MultiView, Taking, ListInv, v
<1>3. Sound(call[h]) /\ call = [g \in Host |-> call[g]]
  BY DEF ListInv, CallInv
<1>4. call' = [call EXCEPT ![h] = c]
  BY <1>2, <1>3
<1>5. /\ c.op = "multi" /\ c.ptr = call[h].ptr /\ c.sizes = call[h].sizes
      /\ c.result = call[h].result /\ c \in Calls
  BY <1>1, <1>2, <1>3 DEF Sound, Calls
<1>6. Sound(c)
  BY <1>2, <1>3, <1>5 DEF Sound
<1>7. Within(c.ptr)
  BY <1>2, <1>5 DEF ListInv
<1> HIDE DEF c
<1>8. QED
  BY <1>2, <1>4, <1>6, <1>7, CallOnlyList

LEMMA NextList ==
  ASSUME ListInv, [Next]_vars
  PROVE  ListInv'
<1>1. CASE UNCHANGED vars
  <2>1. UNCHANGED <<free, history, call, heap>>
    BY <1>1 DEF vars
  <2>2. CallInv' /\ FreeInv' /\ Taking' = Taking
    BY <2>1 DEF ListInv, CallInv, FreeInv, Taking
  <2>3. \A x \in Int : In(free, x)' => Within(x)
    BY <2>1 DEF ListInv, In
  <2>4. QED
    BY <2>1, <2>2, <2>3 DEF ListInv, Within
<1>2. ASSUME NEW h \in Host,
             \/ \E n \in Sizes : Malloc(h, n)
             \/ \E ns \in MultiSizes : MultiMalloc(h, ns)
             \/ \E a \in heap : Free(h, a)
      PROVE  ListInv'
  BY <1>2, CallsList
<1>3. ASSUME NEW h \in Host, HandleAlloc(h) PROVE ListInv'
  BY <1>3, AllocList
<1>4. ASSUME NEW h \in Host, MultiTake(h) PROVE ListInv'
  BY <1>4, TakeList
<1>5. ASSUME NEW h \in Host, MultiView(h) PROVE ListInv'
  BY <1>5, MultiViewList
<1>6. ASSUME NEW h \in Host, MultiInsert(h) PROVE ListInv'
  BY <1>6, InsertList
<1>7. ASSUME NEW h \in Host, HandleFree(h) PROVE ListInv'
  BY <1>7, HandleFreeList
<1>8. QED
  BY <1>1, <1>2, <1>3, <1>4, <1>5, <1>6, <1>7 DEF Next

-------------------------------------------------------------------------------
(* Theorems *)

\* In a memory of whole pages, whatever the programs allocate and free, one
\* call at a time or several, mallocHistory has the size of what was given out
\* at each place in use, every byte is free, in one allocation or in one part
\* that waits for its pages, and an allocation that is being freed is freed by
\* one host.
THEOREM AllocInvariance ==
  ASSUME WholePages
  PROVE  Spec => []AllocInv
<1>1. Init => AllocInv
  BY InitAlloc
<1>2. AllocInv /\ [Next]_vars => AllocInv'
  BY NextKeeps
<1>3. QED
  BY <1>1, <1>2, PTL DEF Spec

LEMMA ConservedState ==
  ASSUME AllocInv
  PROVE  Conserved
<1> DEFINE parts == [i \in DOMAIN free |-> Bytes(free[i])]
           places == UNION {Place(a) : a \in heap \cup Pending}
<1>1. \A i \in DOMAIN free : /\ i \in Nat /\ parts[i] \subseteq Int
                             /\ free[i][1] \in Int /\ free[i][2] \in Int
  BY DEF AllocInv, FreeInv, Ranges, Bytes
<1>2. ASSUME NEW i \in DOMAIN free, NEW j \in DOMAIN free, i # j
      PROVE  parts[i] \cap parts[j] = {}
  <2>1. Before(free[i], free[j]) \/ Before(free[j], free[i])
    BY <1>1, <1>2 DEF AllocInv, FreeInv, Ordered
  <2>2. \A x : ~ (x \in Bytes(free[i]) /\ x \in Bytes(free[j]))
    BY <1>1, <2>1 DEF Before, Bytes
  <2>3. QED
    BY <2>2
\* What is pending are the parts of the hosts that are taking.
<1>3. /\ \A a \in Pending : \E h \in Taking :
           a = [ptr |-> call[h].ptr, size |-> Wanted(h)] /\ Place(a) = Part(h)
      /\ \A h \in Taking : \E a \in Pending : Place(a) = Part(h)
  <2> DEFINE Waiting(h) == [ptr |-> call[h].ptr, size |-> Wanted(h)]
  <2>1. \A a \in Pending : \E h \in Taking : a = Waiting(h)
    BY DEF Pending, Taking, Wanted
  <2>2. \A h \in Taking : Waiting(h) \in Pending
    BY DEF Pending, Taking, Wanted
  <2>3. \A h : Place(Waiting(h)) = Part(h)
    BY DEF Place, Part
  <2> HIDE DEF Waiting
  <2>4. \A a \in Pending : \E h \in Taking : a = Waiting(h) /\ Place(a) = Part(h)
    BY <2>1, <2>3
  <2>5. QED
    BY <2>2, <2>3, <2>4 DEF Waiting
<1>4. ASSUME NEW a \in heap \cup Pending, NEW b \in heap \cup Pending, a # b
      PROVE  Place(a) \cap Place(b) = {}
  <2>1. CASE a \in heap /\ b \in heap
    BY <1>4, <2>1 DEF AllocInv, ShareInv
  <2>2. CASE a \in heap /\ b \in Pending
    BY <1>3, <2>2 DEF AllocInv, ShareInv
  <2>3. CASE a \in Pending /\ b \in heap
    BY <1>3, <2>3 DEF AllocInv, ShareInv
  <2>4. CASE a \in Pending /\ b \in Pending
    BY <1>3, <1>4, <2>4 DEF AllocInv, ShareInv
  <2>5. QED
    BY <2>1, <2>2, <2>3, <2>4
<1>5. UNION {parts[i] : i \in DOMAIN free} = (0 .. Size - 1) \ places
  <2>1. \A x : x \in UNION {parts[i] : i \in DOMAIN free} <=> x \in Int /\ In(free, x)
    BY <1>1 DEF In
  <2>2. \A x : x \in places <=> \/ \E a \in heap : x \in Place(a)
                                \/ \E h \in Taking : x \in Part(h)
    BY <1>3
  <2>3. \A x : x \in 0 .. Size - 1 => x \in Int
    OBVIOUS
  <2> HIDE DEF parts, places
  <2>4. \A x : x \in UNION {parts[i] : i \in DOMAIN free} <=> x \in (0 .. Size - 1) \ places
    BY <2>1, <2>2, <2>3 DEF AllocInv, ShareInv
  <2>5. QED
    BY <2>4
<1>6. QED
  BY <1>2, <1>4, <1>5 DEF Conserved

\* In a memory of whole pages, no byte is in two allocations or lost, whatever
\* the sizes asked for and however the calls of the hosts come in between one
\* another.
THEOREM ConservedCorrect ==
  ASSUME WholePages
  PROVE  Spec => []Conserved
BY AllocInvariance, ConservedState, PTL

\* In every memory, also if HandleFree gets the place of an allocation wrong,
\* the free list stays in order and within the memory, and mallocHistory has
\* no size that leads out of it.
THEOREM ListInvariance == Spec => []ListInv
<1>1. Init => ListInv
  BY InitList
<1>2. ListInv /\ [Next]_vars => ListInv'
  BY NextList
<1>3. QED
  BY <1>1, <1>2, PTL DEF Spec

LEMMA RoomState ==
  ASSUME ListInv
  PROVE  RoomIsFound
<1>1. free \in Ranges /\ Ordered(free)
  BY DEF ListInv, FreeInv
<1>2. SUFFICES ASSUME NEW a \in 0 .. Size - 1, NEW b \in a .. Size - 1,
                      \A x \in a .. b : \E i \in DOMAIN free : x \in Bytes(free[i])
               PROVE  \E i \in DOMAIN free : a .. b \subseteq Bytes(free[i])
  BY DEF RoomIsFound
<1>3. a \in Int /\ b \in Int /\ a <= b
  OBVIOUS
<1>4. \A x \in a .. b : In(free, x)
  BY <1>2 DEF In
<1>5. QED
  BY <1>1, <1>3, <1>4, OrderedRoom

\* In every memory Malloc and MultiMalloc find room whenever there is any: free
\* bytes that follow one another are one range of the list.
THEOREM RoomIsFoundCorrect == Spec => []RoomIsFound
BY ListInvariance, RoomState, PTL
===============================================================================
