---------------------------- MODULE AccessPattern ----------------------------
(***************************************************************************)
(* The detection of access patterns in the accesses of one I/O handle:     *)
(* detect_local_access_pattern (access_pattern_detection.cpp), one pass    *)
(* that cuts the accesses into intervals, each with a pattern, and sums up *)
(* bytes and times per pattern.                                            *)
(*                                                                         *)
(* The accesses are chosen as the loop comes to them.  They follow one     *)
(* another in time, so that a number stands for the start and for the end  *)
(* of an access.  Positions are only ever compared by their differences    *)
(* and count from the first access here.  Of PatternStatistics the model   *)
(* keeps how often each access is in it: bytes and ticks are sums over     *)
(* that.                                                                   *)
(***************************************************************************)
EXTENDS Integers, FiniteSets

CONSTANTS
  MaxAccesses,   \* bound: accesses of the handle
  Gaps,          \* where an access may start, counted from the end of the one before
  Sizes          \* its possible sizes

ASSUME AccessPatternAssumption ==
  MaxAccesses \in Nat \ 0 .. 2 /\ Gaps \subseteq Int /\ Sizes \subseteq Nat

Threshold == 3   \* NR_ACCESSES_THRESHOLD
Indices == 1 .. MaxAccesses
Patterns == {"NONE", "CONTIGUOUS", "STRIDED", "RANDOM"}

VARIABLES
  n,        \* io_accesses.size()
  i,        \* the access the loop is at
  loop,     \* the local variables of the function, see Locals
  results,  \* pattern_per_timeinterval, and stats_per_pattern
  pc,       \* in the head of the loop, in its switch, or behind it
  kept,     \* history: the accesses that transfer data
  shapes    \* history: the patterns of three in a row

vars == <<n, i, loop, results, pc, kept, shapes>>

Accesses == [id : Indices, fpos : Int, size : Nat]
Stats == [Indices -> 0 .. 1]
NoStats == [j \in Indices |-> 0]
Intervals == [from : Indices, to : Indices, pattern : Patterns]

(* The switch aborts the program for the pattern NONE.                     *)
(* last_x_accesses are the latest three accesses, the oldest first; nr is  *)
(* nr_io_access_in_current_access_pattern.                                 *)
Locals ==
  [last_x_accesses : [1 .. 3 -> Accesses], next_fpos_if_contiguous : Int, nr : Nat,
   interval_start : Indices, curr_pattern : Patterns \ {"NONE"}, curr_stats : Stats,
   is_equi_distant : BOOLEAN, do_start_new_interval : BOOLEAN]

TypeOK ==
  /\ n \in 0 .. MaxAccesses /\ i \in 0 .. MaxAccesses + 1
  /\ loop \in Locals
  /\ results.patterns \subseteq Intervals
  /\ results.stats \in [Patterns -> [Indices -> Nat]]
  /\ pc \in {"loop", "switch", "done"}
  /\ kept \subseteq Indices /\ shapes \subseteq Patterns

-----------------------------------------------------------------------------
Plus(s, t) == [j \in Indices |-> s[j] + t[j]]
Only(ids) == [j \in Indices |-> IF j \in ids THEN 1 ELSE 0]

(* detect_access_pattern_from_3_acccesses                                  *)
Shape(x, y, z) ==
  CASE x.fpos + x.size = y.fpos /\ y.fpos + y.size = z.fpos -> "CONTIGUOUS"
    [] OTHER -> IF y.fpos - x.fpos = z.fpos - y.fpos THEN "STRIDED" ELSE "RANDOM"

Latest(j) == loop.last_x_accesses[j]
Newest == Latest(3)

(* In the loop the ring buffer is read from its newest element on, so that *)
(* the newest access comes before the two that precede it.                 *)
LivePattern == Shape(Latest(3), Latest(1), Latest(2))

(* An access that transfers data, or (meta) does not and stays where the   *)
(* one before ended.                                                       *)
DataAccess(id, before, gap, size) ==
  [id |-> id, fpos |-> before.fpos + before.size + gap, size |-> size]

(* Fewer than three accesses are no pattern, none have no interval.        *)
ShortResult(m) ==
  [patterns |-> IF m = 0 THEN {} ELSE {[from |-> 1, to |-> m, pattern |-> "NONE"]},
   stats    |-> [p \in Patterns |-> IF p = "NONE" THEN Only(1 .. m) ELSE NoStats]]

(* The first three accesses are taken as they are, also those without data.*)
(* is_equi_distant is not initialised.                                     *)
Init ==
  /\ n \in 0 .. MaxAccesses
  /\ \E g, h \in Gaps, s \in [1 .. 3 -> Sizes], meta \in SUBSET (1 .. 3),
        equi \in BOOLEAN :
       LET size(j) == IF j \in meta THEN 0 ELSE s[j]
           a == [id |-> 1, fpos |-> 0, size |-> size(1)]
           b == DataAccess(2, a, IF 2 \in meta THEN 0 ELSE g, size(2))
           c == DataAccess(3, b, IF 3 \in meta THEN 0 ELSE h, size(3))
       IN  /\ loop = [last_x_accesses |-> <<a, b, c>>, nr |-> 3,
                      next_fpos_if_contiguous |-> c.fpos + c.size,
                      interval_start |-> 1, curr_stats |-> Only(1 .. 3),
                      curr_pattern |-> Shape(a, b, c), is_equi_distant |-> equi,
                      do_start_new_interval |-> FALSE]
           /\ shapes = {Shape(a, b, c)} \cup (IF meta = {} THEN {} ELSE {"NONE"})
           /\ kept = (1 .. (IF n < 3 THEN n ELSE 3)) \ meta
  /\ IF n < Threshold
     THEN results = ShortResult(n) /\ pc = "done" /\ i = 0
     ELSE results = ShortResult(0) /\ pc = "loop" /\ i = 4

(* An access without data.                                                 *)
Skip ==
  /\ pc = "loop" /\ i <= n
  /\ ~(loop.do_start_new_interval /\ Newest.id = i)
  /\ i' = i + 1
  /\ shapes' = shapes \cup {"NONE"}
  /\ UNCHANGED <<n, loop, results, pc, kept>>

(* A new interval starts with this access, or the current one goes on.     *)
Fresh(io) ==
  IF loop.do_start_new_interval
  THEN [loop EXCEPT !.curr_pattern = "CONTIGUOUS", !.next_fpos_if_contiguous = io.fpos,
                    !.curr_stats = NoStats, !.nr = 0, !.interval_start = io.id,
                    !.is_equi_distant = TRUE, !.do_start_new_interval = FALSE]
  ELSE loop

(* The head of the loop, up to the switch.                                 *)
Take(io) ==
  /\ pc = "loop" /\ i <= n
  /\ loop' = [Fresh(io) EXCEPT !.last_x_accesses = <<@[2], @[3], io>>,
                               !.curr_stats = Plus(@, Only({io.id}))]
  /\ pc' = "switch"
  /\ UNCHANGED <<n, i, results>>

TakeNext(gap, size) ==
  LET io == DataAccess(i, Newest, gap, size)
  IN  /\ Newest.id < i
      /\ Take(io)
      /\ kept' = kept \cup {i}
      /\ shapes' = shapes \cup {Shape(Latest(2), Latest(3), io)}

(* After i-- the access comes a second time.                               *)
TakeAgain ==
  /\ Newest.id = i
  /\ Take(Newest)
  /\ UNCHANGED <<kept, shapes>>

-----------------------------------------------------------------------------
(* The cases of the switch: from a pattern, on to the loop's head with the *)
(* access next and the local variables st.                                 *)
In(pattern) == pc = "switch" /\ loop.curr_pattern = pattern
Onward(next, st) ==
  /\ pc' = "loop" /\ i' = next /\ loop' = st
  /\ UNCHANGED <<n, kept, shapes>>

(* An interval and its statistics are added to the result, in place of the *)
(* same interval if that is there already.                                 *)
CheckIn(to, pattern, stats) ==
  results' =
    [patterns |-> {v \in results.patterns : v.from # loop.interval_start \/ v.to # to}
                    \cup {[from |-> loop.interval_start, to |-> to, pattern |-> pattern]},
     stats    |-> [results.stats EXCEPT ![pattern] = Plus(@, stats)]]

Contiguous == Newest.fpos = loop.next_fpos_if_contiguous

(* Slip: the next position is that of this access.                         *)
ContiguousStays ==
  /\ In("CONTIGUOUS") /\ Contiguous
  /\ Onward(i + 1, [loop EXCEPT !.nr = @ + 1])
  /\ UNCHANGED results

ContiguousGoesOn ==
  /\ In("CONTIGUOUS") /\ Contiguous
  /\ Onward(i + 1, [loop EXCEPT !.nr = @ + 1,
                                !.next_fpos_if_contiguous = Newest.fpos + Newest.size])
  /\ UNCHANGED results

(* The interval takes the access that ends it.                             *)
ContiguousEnds ==
  /\ In("CONTIGUOUS") /\ ~Contiguous /\ loop.nr > Threshold
  /\ CheckIn(i, "CONTIGUOUS", loop.curr_stats)
  /\ Onward(i + 1, [loop EXCEPT !.do_start_new_interval = TRUE])

ContiguousBreaks ==
  /\ In("CONTIGUOUS") /\ ~Contiguous /\ loop.nr <= Threshold
  /\ Onward(i + 1, [loop EXCEPT !.nr = @ + 1,
                      !.curr_pattern = IF loop.is_equi_distant THEN "STRIDED" ELSE "RANDOM"])
  /\ UNCHANGED results

(* The last access of all counts as strided in any case.                   *)
StridedLast ==
  /\ In("STRIDED") /\ i = n
  /\ CheckIn(i, "STRIDED", loop.curr_stats)
  /\ Onward(i + 1, [loop EXCEPT !.nr = 0])

(* nr > 2 * Threshold is never true right after nr = Threshold: what came  *)
(* before is not checked in.  assert(is_equi_distant) ends the program in  *)
(* builds with assertions only.                                            *)
StridedTurns ==
  /\ In("STRIDED") /\ i # n /\ LivePattern = "CONTIGUOUS"
  /\ Onward(i + 1, [loop EXCEPT !.curr_pattern = "CONTIGUOUS", !.nr = Threshold,
                                !.interval_start = Latest(2).id])
  /\ UNCHANGED results

SameDistance == Newest.fpos - Latest(2).fpos = Latest(2).fpos - Latest(1).fpos
StillStrided == In("STRIDED") /\ i # n /\ LivePattern # "CONTIGUOUS"

StridedGoesOn ==
  /\ StillStrided /\ SameDistance
  /\ Onward(i + 1, [loop EXCEPT !.is_equi_distant = TRUE, !.nr = @ + 1])
  /\ UNCHANGED results

StridedBreaks ==
  /\ StillStrided /\ ~SameDistance /\ loop.nr < Threshold
  /\ Onward(i + 1, [loop EXCEPT !.is_equi_distant = FALSE, !.curr_pattern = "RANDOM"])
  /\ UNCHANGED results

(* What is checked in when the access i does not fit.                      *)
WithoutThis == [loop.curr_stats EXCEPT ![i] = @ - 1]

(* Slip: the interval also takes the access that starts the next one.      *)
StridedEndsLate ==
  /\ StillStrided /\ ~SameDistance /\ loop.nr >= Threshold
  /\ CheckIn(i, "STRIDED", WithoutThis)
  /\ Onward(i, [loop EXCEPT !.do_start_new_interval = TRUE, !.curr_stats = WithoutThis])

(* Slip: without i--, the access is in no interval.                        *)
StridedEndsLoses ==
  /\ StillStrided /\ ~SameDistance /\ loop.nr >= Threshold
  /\ CheckIn(i - 1, "STRIDED", WithoutThis)
  /\ Onward(i + 1, [loop EXCEPT !.do_start_new_interval = TRUE, !.curr_stats = WithoutThis])

(* Slip: the access is taken again for the interval that has just ended.   *)
StridedEndsAgain ==
  /\ StillStrided /\ ~SameDistance /\ loop.nr >= Threshold
  /\ CheckIn(i - 1, "STRIDED", WithoutThis)
  /\ Onward(i, [loop EXCEPT !.curr_stats = WithoutThis])

(* i--: the access that does not fit is the first of the next interval.    *)
(* (The case of the last access is StridedLast's.)                         *)
StridedEnds ==
  /\ StillStrided /\ ~SameDistance /\ loop.nr >= Threshold
  /\ CheckIn(i - 1, "STRIDED", WithoutThis)
  /\ Onward(i, [loop EXCEPT !.do_start_new_interval = TRUE, !.curr_stats = WithoutThis])

(* What came before the turn is not checked in, as in StridedTurns.        *)
RandomTurns ==
  /\ In("RANDOM") /\ LivePattern # "RANDOM"
  /\ Onward(i + 1, [loop EXCEPT
       !.curr_pattern = LivePattern, !.nr = Threshold, !.interval_start = Latest(2).id,
       !.is_equi_distant = (\/ LivePattern = "STRIDED"
                            \/ Latest(2).size - Latest(1).size
                                 = Latest(1).size - Latest(3).size)])
  /\ UNCHANGED results

RandomGoesOn ==
  /\ In("RANDOM") /\ LivePattern = "RANDOM"
  /\ Onward(i + 1, [loop EXCEPT !.nr = @ + 1])
  /\ UNCHANGED results

(* The end of the loop: what is still open is checked in.                  *)
Finish ==
  /\ pc = "loop" /\ i > n
  /\ IF loop.nr > 0
     THEN CheckIn(Newest.id, loop.curr_pattern, loop.curr_stats)
     ELSE UNCHANGED results
  /\ pc' = "done"
  /\ UNCHANGED <<n, i, loop, kept, shapes>>

Done == pc = "done" /\ UNCHANGED vars

Next ==
  \/ Skip \/ TakeAgain \/ \E gap \in Gaps, size \in Sizes : TakeNext(gap, size)
  \/ ContiguousGoesOn \/ ContiguousEnds \/ ContiguousBreaks
  \/ StridedLast \/ StridedTurns \/ StridedGoesOn \/ StridedBreaks \/ StridedEnds
  \/ RandomTurns \/ RandomGoesOn
  \/ Finish \/ Done

Spec == Init /\ [][Next]_vars

-----------------------------------------------------------------------------
(* How often an access is in the statistics.                               *)
Counted(j) == LET times(p) == results.stats[p][j]
              IN  times("NONE") + times("CONTIGUOUS") + times("STRIDED") + times("RANDOM")

(* The intervals, with the one that is still open, do not overlap: the     *)
(* JSON file gives a pattern for a time only once, although the start of   *)
(* the open interval is moved and an access may be taken twice.            *)
Disjoint ==
  \A u, v \in results.patterns :
    u.from <= u.to /\ (u = v \/ u.to < v.from \/ v.to < u.from)

(* The loop index is set back at most once for an access: after that the   *)
(* access is the first of its interval and fits, whatever came before, so  *)
(* that the loop ends and the three latest accesses are never one access.  *)
RetakenOnce == Cardinality({Latest(j).id : j \in 1 .. 3}) > 1

(* No access with data is lost from the statistics, whatever the patterns  *)
(* before and behind it.                                                   *)
NoneLost == pc = "done" => \A j \in kept : Counted(j) >= 1

(* Accesses that follow one pattern from the first to the last are one     *)
(* interval of that pattern, which has all of them (the unit tests'        *)
(* contiguous_only and strided_only).                                      *)
PureOf(p) ==
  pc = "done" /\ n >= Threshold /\ shapes = {p} =>
    /\ results.patterns = {[from |-> 1, to |-> n, pattern |-> p]}
    /\ results.stats[p] = Only(1 .. n)

Pure == PureOf("CONTIGUOUS") /\ PureOf("STRIDED")

(* "check in remaining accesses" (access_pattern_detection.cpp:272): what  *)
(* is added at the end was not added before, so that each access with data *)
(* is in the statistics once.                                              *)
CountedOnce == pc = "done" => \A j \in kept : Counted(j) = 1
=============================================================================
