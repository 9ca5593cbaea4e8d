------------------------------- MODULE MVAlloc --------------------------------
(***************************************************************************)
(* Malloc, MultiMalloc and Free of multiview: the calls of the hosts       *)
(* (multiview/host.go), the handlers of the manager (multiview/manager.go) *)
(* and the allocator they use (Vmem).                                      *)
(*                                                                         *)
(* The manager gives an allocation pages in a view of the memory in which  *)
(* none of them is taken, so that allocations which share a page of memory *)
(* have virtual pages of their own.  A view is npages virtual pages; view  *)
(* 0 is the memory itself, and there are PageSize - 1 others.  mpt says    *)
(* which part of its page an allocation has, log to which allocation a     *)
(* virtual page belongs.  The copy sets and the locks of the pages, which  *)
(* the handlers set up and delete too, are MVCoherence's.                  *)
(*                                                                         *)
(* npages is rounded up, but an address is taken modulo the size of the    *)
(* memory, which is not: unless the memory is whole pages, addresses of a  *)
(* view lead to other bytes than those that were allocated.                *)
(*                                                                         *)
(* HandleAlloc has m.Mutex throughout.  handleMultiAlloc takes no mutex    *)
(* for the memory or for mpt: it takes three steps for each allocation,    *)
(* and another call may come between the search for a view and its use.    *)
(***************************************************************************)
EXTENDS Vmem, FiniteSets

CONSTANTS
  Host,        \* the processes
  Size,        \* bytes of memory
  PageSize,    \* bytes of a page
  Sizes,       \* what programs ask Malloc for
  MultiSizes,  \* what programs ask MultiMalloc for, sequences of sizes
  Alone        \* programs do not have two calls under way at a time

ASSUME SizeAssumption ==
  PageSize \in Nat \ {0, 1} /\ Size \in Nat /\ Size >= PageSize
ASSUME SizesAssumption ==
  /\ Sizes \subseteq Nat \ {0}
  /\ \A s \in MultiSizes : s \in Seq(Nat \ {0}) /\ s # <<>>  \* none: answered at once
ASSUME AloneAssumption == Alone \in BOOLEAN

VARIABLES
  free,     \* manager: FreeMemObjects
  history,  \* manager: mallocHistory, 0 for no entry
  mpt,      \* manager: the minipage of each virtual page that has one
  log,      \* manager: the first virtual page of its allocation
  call,     \* call[h]: the call h's program waits in
  heap      \* the allocations made: where they are and what becomes of them

vars == <<free, history, mpt, log, call, heap>>

npages == (Size \div PageSize) + (IF Size % PageSize > 0 THEN 1 ELSE 0)
Views == 1 .. PageSize - 1
NoPtr == -1
NoView == 0

Idle == [op |-> "none", sizes |-> <<>>, ptr |-> NoPtr, view |-> NoView, result |-> <<>>]

Init ==
  /\ free = <<<<0, Size - 1>>>>
  /\ history = [a \in 0 .. Size - 1 |-> 0]
  /\ mpt = <<>>
  /\ log = <<>>
  /\ call = [h \in Host |-> Idle]
  /\ heap = {}

-------------------------------------------------------------------------------
(* The calls of a program.  A call whose MultiMalloc was dropped never       *)
(* returns.                                                                  *)

MayCall(h) ==
  /\ call[h] = Idle
  /\ Alone => \A g \in Host : call[g].op \in {"none", "dropped"}

Malloc(h, n) ==
  /\ MayCall(h)
  /\ call' = [call EXCEPT ![h] = [Idle EXCEPT !.op = "malloc", !.sizes = <<n>>]]
  /\ UNCHANGED <<free, history, mpt, log, heap>>

MultiMalloc(h, ns) ==
  /\ MayCall(h)
  /\ call' = [call EXCEPT ![h] = [Idle EXCEPT !.op = "multi", !.sizes = ns]]
  /\ UNCHANGED <<free, history, mpt, log, heap>>

\* A program frees what some program has been given, and once.
Free(h, a) ==
  /\ MayCall(h)
  /\ a.state = "given"
  /\ call' = [call EXCEPT ![h] = [Idle EXCEPT !.op = "free", !.ptr = a.addr]]
  /\ heap' = (heap \ {a}) \cup {[a EXCEPT !.state = "freeing"]}
  /\ UNCHANGED <<free, history, mpt, log>>

-------------------------------------------------------------------------------
(* The manager *)

\* "generate minipages": the parts of n bytes at ptr, page by page.
Minipages(ptr, n) ==
  LET first   == ptr \div PageSize
      last    == (ptr + n - 1) \div PageSize
      from(p) == Greater(ptr, p * PageSize)
      to(p)   == Lesser(ptr + n, (p + 1) * PageSize)
  IN [i \in 0 .. last - first |->
        [offset |-> from(first + i) % PageSize, length |-> to(first + i) - from(first + i)]]

\* The virtual pages of view v that must be free for n bytes at ptr.
PagesNeeded_first(ptr, n, v) == {v * npages + ptr \div PageSize}
PagesNeeded(ptr, n, v) ==
  v * npages + ptr \div PageSize .. v * npages + (ptr + n) \div PageSize

\* "loop over views to find free space": the first view with room, and the
\* last view if none has.
View(ptr, n) ==
  LET room == {v \in Views : PagesNeeded(ptr, n, v) \cap DOMAIN mpt = {}}
  IN IF room = {} THEN PageSize - 1 ELSE CHOOSE v \in room : \A w \in room : v <= w

\* "insert into virtual memory": mpt and log get the minipages from startpg on.
Over(f, g) ==
  [x \in DOMAIN f \cup DOMAIN g |-> IF x \in DOMAIN f THEN f[x] ELSE g[x]]

Insert(ptr, n, view) ==
  LET startpg == view * npages + ptr \div PageSize
      mps     == Minipages(ptr, n)
      pages   == {startpg + i : i \in DOMAIN mps}
  IN /\ mpt' = Over([v \in pages |-> mps[v - startpg]], mpt)
     /\ log' = Over([v \in pages |-> startpg], log)

\* The address of the reply.
Address(ptr, n, view) ==
  LET startpg == view * npages + ptr \div PageSize
  IN startpg * PageSize + Minipages(ptr, n)[0].offset

Allocation(ptr, n, view, state) ==
  [addr |-> Address(ptr, n, view), ptr |-> ptr, size |-> n, state |-> state]

\* vm.Malloc of n bytes from range i.
VmMalloc(i, n) ==
  /\ free' = Taken(free, i, n)
  /\ history' = [history EXCEPT ![free[i][1]] = n]

HandleAlloc(h) ==
  LET n    == call[h].sizes[1]
      i    == FirstFit(free, n)
      ptr  == free[i][1]
      view == View(ptr, n)
  IN /\ call[h].op = "malloc"
     /\ call' = [call EXCEPT ![h] = Idle]
     /\ \/ /\ i = 0
           /\ UNCHANGED <<free, history, mpt, log, heap>>
        \/ /\ i # 0
           /\ VmMalloc(i, n)
           /\ Insert(ptr, n, view)
           /\ heap' = heap \cup {Allocation(ptr, n, view, "given")}

\* handleMultiAlloc: the memory for the next size.  If there is none it ends,
\* without a reply, and what it has allocated stays.
MultiTake(h) ==
  LET c == call[h]
      n == c.sizes[Len(c.result) + 1]
      i == FirstFit(free, n)
  IN /\ c.op = "multi"
     /\ c.ptr = NoPtr
     /\ \/ /\ i = 0
           /\ call' = [call EXCEPT ![h] = [Idle EXCEPT !.op = "dropped"]]
           /\ UNCHANGED <<free, history>>
        \/ /\ i # 0
           /\ VmMalloc(i, n)
           /\ call' = [call EXCEPT ![h].ptr = free[i][1]]
     /\ UNCHANGED <<mpt, log, heap>>

\* ... a view for it, ...
MultiView(h) ==
  LET c == call[h]
  IN /\ c.op = "multi"
     /\ c.ptr # NoPtr
     /\ c.view = NoView
     /\ call' = [call EXCEPT ![h].view = View(c.ptr, c.sizes[Len(c.result) + 1])]
     /\ UNCHANGED <<free, history, mpt, log, heap>>

\* ... its pages, and the reply after the last one.
MultiInsert(h) ==
  LET c     == call[h]
      n     == c.sizes[Len(c.result) + 1]
      res   == Append(c.result, Address(c.ptr, n, c.view))
      ready == Len(res) = Len(c.sizes)
      made  == {a \in heap : \E i \in DOMAIN c.result : a.addr = c.result[i]}
                 \cup {Allocation(c.ptr, n, c.view, "made")}
  IN /\ c.op = "multi"
     /\ c.view # NoView
     /\ Insert(c.ptr, n, c.view)
     /\ call' = [call EXCEPT ![h] = IF ready THEN Idle
                          ELSE [c EXCEPT !.ptr = NoPtr, !.view = NoView, !.result = res]]
     /\ heap' = (heap \ made) \cup {[a EXCEPT !.state = IF ready THEN "given" ELSE "made"] : a \in made}
     /\ UNCHANGED <<free, history>>

\* The virtual pages from vpage on that point back to it.
Belonging_first(vpage) == {vpage}
Belonging(vpage) ==
  {v \in DOMAIN log :
     vpage <= v /\ \A w \in vpage .. v : w \in DOMAIN log /\ log[w] = vpage}

\* HandleFree: the pages, then the memory; vm.Free of a place that was never
\* given out returns an error, which nobody looks at.  The manager ends here
\* (translate panics) if the address has no minipage.
HandleFree(h) ==
  LET addr  == call[h].ptr
      ptr   == addr % Size
      pages == Belonging(addr \div PageSize)
  IN /\ call[h].op = "free"
     /\ addr \div PageSize \in DOMAIN mpt
     /\ mpt' = [v \in DOMAIN mpt \ pages |-> mpt[v]]
     /\ log' = [v \in DOMAIN log \ pages |-> log[v]]
     /\ free' = IF history[ptr] = 0 THEN free
                ELSE Merged(free, ptr, ptr + history[ptr] - 1)
     /\ call' = [call EXCEPT ![h] = Idle]
     /\ heap' = {a \in heap : a.addr # addr}
     /\ UNCHANGED history

Next ==
  \E h \in Host :
    \/ \E n \in Sizes : Malloc(h, n)
    \/ \E ns \in MultiSizes : MultiMalloc(h, ns)
    \/ \E a \in heap : Free(h, a)
    \/ HandleAlloc(h) \/ MultiTake(h) \/ MultiView(h) \/ MultiInsert(h) \/ HandleFree(h)

Spec == Init /\ [][Next]_vars

-------------------------------------------------------------------------------
(* Properties *)

\* What HeapIntact, NoFalseSharing and Conserved suppose of the memory.
WholePages == Size % PageSize = 0

Place(a) == a.ptr .. a.ptr + a.size - 1

\* Address x + k of an allocation at x leads a host to byte k of it: its page
\* has a minipage that contains it, which points back to the allocation's
\* first page, and translateAddr finds the byte.
Reaches(a, k) ==
  LET x == a.addr + k
      v == x \div PageSize
  IN /\ v \in DOMAIN mpt
     /\ x % PageSize \in mpt[v].offset .. mpt[v].offset + mpt[v].length - 1
     /\ log[v] = a.addr \div PageSize
     /\ x % Size = a.ptr + k

\* Every byte of every allocation can be reached, until it is freed, whatever
\* was allocated and freed around it (in a memory of whole pages).
HeapIntact == \A a \in heap : \A k \in 0 .. a.size - 1 : Reaches(a, k)

\* A minipage has the bytes of one allocation only, and no two allocations
\* have a virtual page in common: a page that is sent or invalidated on behalf
\* of one allocation does not touch another (in a memory of whole pages).
NoFalseSharing ==
  /\ \A v \in DOMAIN mpt : \E a \in heap :
       \A k \in mpt[v].offset .. mpt[v].offset + mpt[v].length - 1 :
         (v * PageSize + k) % Size \in Place(a) /\ log[v] = a.addr \div PageSize
  /\ \A a, b \in heap : a # b => a.addr \div PageSize # b.addr \div PageSize

\* What MultiMalloc has taken and not yet given pages.
Pending ==
  {[ptr |-> c.ptr, size |-> c.sizes[Len(c.result) + 1]] :
     c \in {call[h] : h \in {g \in Host : call[g].op = "multi" /\ call[g].ptr # NoPtr}}}

\* The free list and the allocations share out the memory: no byte is in two
\* of them, and none is lost (in a memory of whole pages; in others HandleFree
\* looks for an allocation at the wrong place).
Conserved ==
  LET parts == [i \in DOMAIN free |-> Bytes(free[i])]
  IN /\ \A i, j \in DOMAIN free : i # j => parts[i] \cap parts[j] = {}
     /\ \A a, b \in heap \cup Pending : a # b => Place(a) \cap Place(b) = {}
     /\ UNION {parts[i] : i \in DOMAIN free} =
          (0 .. Size - 1) \ UNION {Place(a) : a \in heap \cup Pending}

\* Free ranges that touch are one range, so that Malloc and MultiMalloc fail
\* only if there is no room for the bytes they want, however the memory was
\* given out and freed before.
RoomIsFound ==
  \A a \in 0 .. Size - 1 : \A b \in a .. Size - 1 :
    (\A x \in a .. b : \E i \in DOMAIN free : x \in Bytes(free[i]))
      => \E i \in DOMAIN free : a .. b \subseteq Bytes(free[i])
===============================================================================
