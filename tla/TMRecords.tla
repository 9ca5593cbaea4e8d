------------------------------ MODULE TMRecords -------------------------------
(***************************************************************************)
(* The intervals, write notices and diffs of dsm-api/treadmarks/host.go,   *)
(* as functions of one host's data.                                        *)
(*                                                                         *)
(* A host's writes between two synchronisations are an interval, stamped   *)
(* with the host's timestamp and naming the pages written.  A host that    *)
(* hears of an interval adds a write notice to each of its pages and loses *)
(* access to them; at its next access it fetches the diffs of the notices  *)
(* that have none and applies them in the order of their timestamps.  A    *)
(* diff is made from the page and its twin (which is meant to be its state *)
(* before the first write) as late as possible: when somebody asks for it. *)
(*                                                                         *)
(* h stands for the Go value t, p for t.myId, g for a page.                *)
(***************************************************************************)
EXTENDS Timestamps, SequencesExt

CONSTANTS
  NrProcs,       \* nrProcs
  PageSize,      \* pageByteSize
  Page,          \* the numbers of the pages that are used
  Byte,          \* the bytes of a page that are used
  NoDiff,        \* a write notice whose Diff is nil
  NoTwin         \* a page whose twin is nil

ASSUME NrProcsAssumption == NrProcs \in Nat \ {0}
ASSUME PageAssumption ==
  /\ PageSize \in Nat \ {0}
  /\ Page \subseteq Nat
  /\ \A g \in Page : g \div PageSize \in Page

Node == 0 .. NrProcs - 1

NO_ACCESS == 0
READ_ONLY == 1
READ_WRITE == 2

\* What a loop over the processes appends.
ForProcs(Of(_)) == FlattenSeq([i \in 1 .. NrProcs |-> Of(i - 1)])

\* The last place of list (0 if none) where Is holds: a loop that goes down
\* from the end and breaks there has seen what comes after it, backwards.
LastPlace(list, Is(_)) == Max({i \in DOMAIN list : Is(list[i])} \cup {0})
DownTo(list, Is(_)) == Reverse(SubSeq(list, LastPlace(list, Is) + 1, Len(list)))

\* The pages of n bytes at address a.
PageOf(a) == a \div PageSize
PagesOf(a, n) == PageOf(a) .. PageOf(a + n - 1)

\* GetRightsList; a page that is not in the access map has no rights.
Rights(h, g) == IF g \in Page THEN h.access[g] ELSE NO_ACCESS
SetRightsList(h, pages, right) ==
  [h EXCEPT !.access = [g \in Page |-> IF g \in pages THEN right ELSE @[g]]]

NewPageArrayEntry ==
  [hasCopy |-> FALSE, hasMissingDiffs |-> FALSE, index |-> [q \in Node |-> 0],
   writenotices |-> [q \in Node |-> <<>>]]

NewHost ==
  [timestamp |-> NewTimestamp(Node),
   procarray |-> [q \in Node |-> <<>>],
   dirtyPages |-> {},
   pagearray |-> [g \in Page |-> NewPageArrayEntry],
   twins |-> [g \in Page |-> NoTwin],
   access |-> [g \in Page |-> NO_ACCESS],
   memory |-> [g \in Page |-> [b \in Byte |-> 0]]]

-------------------------------------------------------------------------------
(* Data generation *)

newWritenoticeRecord(h, p, g) ==
  LET wn == [Timestamp |-> h.timestamp, Diff |-> NoDiff]
  IN [h EXCEPT !.pagearray[g].writenotices[p] = Append(@, wn),
               !.dirtyPages = @ \ {g}]

newInterval(h, p) ==
  LET pages  == h.dirtyPages
      inc    == [h EXCEPT !.timestamp = increment(@, p)]
      marked == FoldSet(LAMBDA g, t : newWritenoticeRecord(t, p, g), inc, pages)
      record == [Owner |-> p, Timestamp |-> inc.timestamp, Pages |-> pages]
  IN IF pages = {} THEN h
     ELSE [marked EXCEPT !.procarray[p] = Append(@, record)]

\* A page that is about to be written: its twin is made and it is dirty.  The
\* twin is read at the address GetPageAddr(g), which takes the number of the
\* page for an address: below page number PageSize that is page 0.
TwinSource(g) == g \div PageSize

Twinned_clean(h, g) == [h EXCEPT !.twins[g] = h.memory[TwinSource(g)]]
Twinned(h, g) ==
  [h EXCEPT !.twins[g] = h.memory[TwinSource(g)], !.dirtyPages = @ \cup {g}]

\* The bytes of page g that differ from its twin.
Changes(h, g) ==
  [b \in {c \in Byte : h.memory[g][c] # h.twins[g][c]} |-> h.memory[g][b]]

\* A page whose changes are in a diff is no longer written without a fault.
Protected_writable(h, g) == [h EXCEPT !.twins[g] = NoTwin,
                                      !.pagearray[g].hasMissingDiffs = FALSE]
Protected(h, g) == [h EXCEPT !.access[g] = READ_ONLY,
                             !.twins[g] = NoTwin,
                             !.pagearray[g].hasMissingDiffs = FALSE]

\* generateDiff, and the caller's removal of the twin.  The diff belongs to
\* the latest own write notice; an empty one takes the notice away.
generateDiff(h, p, g) ==
  LET diff == Changes(h, g)
      wnl  == h.pagearray[g].writenotices[p]
  IN [Protected(h, g) EXCEPT
        !.pagearray[g].writenotices[p] =
          IF DOMAIN diff = {} THEN Front(wnl) ELSE [wnl EXCEPT ![Len(wnl)].Diff = diff]]

\* A diff of page g, with a write notice for it if the page has none yet.
noticeAndDiff(h, p, g) ==
  generateDiff(IF g \in h.dirtyPages THEN newWritenoticeRecord(h, p, g) ELSE h, p, g)

addWritenoticeRecord(h, p, g, procId, timestamp) ==
  LET kept == IF h.access[g] = READ_WRITE THEN noticeAndDiff(h, p, g) ELSE h
      wn   == [Timestamp |-> timestamp, Diff |-> NoDiff]
  IN [kept EXCEPT !.access[g] = NO_ACCESS,
                  !.pagearray[g].hasMissingDiffs = TRUE,
                  !.pagearray[g].writenotices[procId] = Append(@, wn)]

\* The interval is recorded, and the timestamp says so.
Recorded_only(h, interval) ==
  [h EXCEPT !.procarray[interval.Owner] = Append(@, interval)]
Recorded(h, interval) ==
  [h EXCEPT !.procarray[interval.Owner] = Append(@, interval),
            !.timestamp = merge(@, interval.Timestamp)]

addInterval(h, p, interval) ==
  LET notice(g, t) == addWritenoticeRecord(t, p, g, interval.Owner, interval.Timestamp)
      noticed      == FoldSet(notice, h, interval.Pages)
  IN IF covers(h.timestamp, interval.Timestamp) /\ covers(interval.Timestamp, h.timestamp)
     THEN h
     ELSE Recorded(noticed, interval)

\* The handlers of responses add their intervals from the last to the first.
addIntervals(h, p, intervals) ==
  FoldRight(LAMBDA interval, t : addInterval(t, p, interval), intervals, h)

-------------------------------------------------------------------------------
(* Data query *)

\* From the latest interval down to one that is covered (or, by mistake, from
\* the first one on).
getMissingIntervalsForProc_up(h, procId, ts) ==
  LET up == Reverse(h.procarray[procId])
  IN DownTo(up, LAMBDA interval : covers(ts, interval.Timestamp))
getMissingIntervalsForProc(h, procId, ts) ==
  DownTo(h.procarray[procId], LAMBDA interval : covers(ts, interval.Timestamp))

getMissingIntervals(h, ts) == ForProcs(LAMBDA q : getMissingIntervalsForProc(h, q, ts))

getHighestTimestamp(h, procId) ==
  IF h.procarray[procId] = <<>> THEN NewTimestamp(Node)
                                ELSE Last(h.procarray[procId]).Timestamp

\* The request, if any, for the latest diffs of procId that are missing.
createDiffRequest(h, g, procId) ==
  LET missing == DownTo(h.pagearray[g].writenotices[procId], LAMBDA wn : wn.Diff # NoDiff)
  IN IF missing = <<>> THEN <<>>
     ELSE <<[to |-> procId, First |-> Last(missing).Timestamp, Last |-> missing[1].Timestamp]>>

\* A request whose last interval is covered by another's is left to the
\* process that the other is sent to: it must have had those diffs to write.
addDiffRequest(reqs, req) ==
  LET above(o) == covers(o.Last, req.Last)
      below(o) == ~above(o) /\ covers(req.Last, o.Last)
      joined(o) == IF above(o) THEN [o EXCEPT !.First = meet(@, req.First)]
                   ELSE IF below(o) THEN [to |-> req.to, First |-> meet(o.First, req.First),
                                          Last |-> merge(o.Last, req.Last)]
                   ELSE o
      insert == \A i \in DOMAIN reqs : ~above(reqs[i]) /\ ~below(reqs[i])
      all == [i \in DOMAIN reqs |-> joined(reqs[i])]
  IN IF insert THEN Append(all, req) ELSE all

createDiffRequests(h, g) ==
  FoldLeft(addDiffRequest, <<>>, ForProcs(LAMBDA q : createDiffRequest(h, g, q)))

\* The write notices that handleDiffRequest answers with.  A Diff that is nil
\* arrives as an empty map: the decoder allocates every map it fills.
requestedWritenotices(h, from, req) ==
  LET list(q) == h.pagearray[req.PageNr].writenotices[q]
      since(q) == DownTo(list(q), LAMBDA wn : ~covers(wn.Timestamp, req.First))
      until(q) == SelectSeq(since(q), LAMBDA wn : covers(req.Last, wn.Timestamp))
      all == ForProcs(LAMBDA q : IF q = from THEN <<>> ELSE until(q))
  IN [i \in DOMAIN all |->
        IF all[i].Diff = NoDiff THEN [all[i] EXCEPT !.Diff = <<>>] ELSE all[i]]

\* handleDiffResponse: the answer's notices, in turn, are matched with those of
\* each process from its latest on, up to the first that is a different one.
storeDiffs(h, p, g, wnl) ==
  LET match(list, rest) ==
        LastPlace([i \in 1 .. Min({Len(list), Len(rest)}) |-> i],
                  LAMBDA n : \A i \in 1 .. n :
                    list[Len(list) - i + 1].Timestamp = rest[i].Timestamp)
      filled(list, rest) ==
        [i \in DOMAIN list |->
           IF Len(list) - i < match(list, rest)
           THEN [list[i] EXCEPT !.Diff = rest[Len(list) - i + 1].Diff] ELSE list[i]]
      take(s, q) ==
        LET list == s.wn[q]
        IN IF q = p THEN s
           ELSE [wn |-> [s.wn EXCEPT ![q] = filled(list, s.rest)],
                 rest |-> SubSeq(s.rest, match(list, s.rest) + 1, Len(s.rest))]
      done == FoldLeft(take, [wn |-> h.pagearray[g].writenotices, rest |-> wnl],
                       [i \in 1 .. NrProcs |-> i - 1])
  IN [h EXCEPT !.pagearray[g].writenotices = done.wn]

\* A notice is preferred to another unless it has seen the other.
Sooner_covers(wn, best) == covers(wn.Timestamp, best.Timestamp)
Sooner(wn, best) == ~covers(wn.Timestamp, best.Timestamp)

\* One round of applyAllDiffs: find the best among the processes' next notices
\* and apply its diff (nothing if it has none).
applyNextDiff(h, g) ==
  LET page == h.pagearray[g]
      next(q) == page.writenotices[q][page.index[q] + 1]
      better(best, q) ==
        IF /\ Len(page.writenotices[q]) > page.index[q]
           /\ best # <<>> => Sooner(next(q), next(best[1]))
        THEN <<q>> ELSE best
      best == FoldLeft(better, <<>>, [i \in 1 .. NrProcs |-> i - 1])
      diff == next(best[1]).Diff
  IN IF best = <<>> THEN h
     ELSE [h EXCEPT !.pagearray[g].index[best[1]] = @ + 1,
                    !.memory[g] = IF diff = NoDiff THEN @
                                  ELSE [b \in Byte |-> IF b \in DOMAIN diff THEN diff[b] ELSE @[b]]]

applyAllDiffs(h, g) ==
  LET notices == ForProcs(LAMBDA q : h.pagearray[g].writenotices[q])
  IN FoldLeft(LAMBDA t, wn : applyNextDiff(t, g), h, notices)
===============================================================================
