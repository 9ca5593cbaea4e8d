--------------------------------- MODULE Vmem ---------------------------------
(***************************************************************************)
(* The allocator of memory/mem.go: Malloc and Free over the list           *)
(* FreeMemObjects of free ranges and the map mallocHistory of the sizes    *)
(* that were given out.  A range is a pair <<first, last>> of addresses;   *)
(* an exact fit leaves an empty one, <<a, a - 1>>, in the list.            *)
(***************************************************************************)
EXTENDS Integers, Sequences, SequencesExt

\* The bytes of a range.
Bytes(r) == r[1] .. r[2]

\* The first range of the list that is large enough for n bytes; 0 if none is.
FirstFit(free, n) ==
  SelectInSeq(free, LAMBDA r : r[2] - r[1] + 1 >= n)

\* What Malloc leaves of the list when it takes n bytes from range i.
Taken_one_less(free, i, n) == [free EXCEPT ![i] = <<@[1] + n - 1, @[2]>>]
Taken(free, i, n) == [free EXCEPT ![i] = <<@[1] + n, @[2]>>]

\* Free puts first .. last into the list.  Ranges that end before it stay,
\* ranges it touches are merged into it, and from the first range that starts
\* after it on the list is as it was.
Lesser(a, b) == IF a < b THEN a ELSE b
Greater(a, b) == IF a < b THEN b ELSE a

MergeStep_touching(acc, r) ==
  IF acc.after # <<>> THEN [acc EXCEPT !.after = Append(@, r)]
  ELSE IF r[2] < acc.first THEN [acc EXCEPT !.before = Append(@, r)]
  ELSE IF acc.last + 1 < r[1] THEN [acc EXCEPT !.after = <<r>>]
  ELSE [acc EXCEPT !.first = Lesser(@, r[1]), !.last = Greater(@, r[2])]
MergeStep(acc, r) ==
  IF acc.after # <<>> THEN [acc EXCEPT !.after = Append(@, r)]
  ELSE IF r[2] + 1 < acc.first THEN [acc EXCEPT !.before = Append(@, r)]
  ELSE IF acc.last + 1 < r[1] THEN [acc EXCEPT !.after = <<r>>]
  ELSE [acc EXCEPT !.first = Lesser(@, r[1]), !.last = Greater(@, r[2])]

Merged(free, first, last) ==
  LET m == FoldLeft(MergeStep,
                    [first |-> first, last |-> last, before |-> <<>>, after |-> <<>>],
                    free)
  IN Append(m.before, <<m.first, m.last>>) \o m.after
===============================================================================
