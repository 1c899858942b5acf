------------------------ MODULE AccessPatternProofs ------------------------
(***************************************************************************)
(* AccessPattern for any number of accesses, any gaps and any sizes: the   *)
(* intervals do not overlap, no access is lost, the loop index is set back *)
(* at most once for an access, and accesses of one pattern throughout are  *)
(* one interval, the strided ones if none of them is empty.                *)
(***************************************************************************)
EXTENDS AccessPattern, FiniteSetTheorems, TLAPS

USE AccessPatternAssumption DEF Threshold

(* The three latest accesses come in order; one may be there twice.        *)
Ordered ==
  /\ Latest(1).id <= Latest(2).id /\ Latest(2).id <= Latest(3).id
  /\ Latest(1).id < Latest(3).id

(* Where the loop is: in the switch, it is at the newest access; in its    *)
(* head, it is behind it, or back at it to start an interval with it.      *)
Place ==
  /\ pc = "switch" => Newest.id = i /\ i <= n /\ ~loop.do_start_new_interval
  /\ pc = "loop" =>
       /\ i <= n + 1
       /\ Newest.id < i \/ (loop.do_start_new_interval /\ Newest.id = i /\ i <= n)
       /\ loop.do_start_new_interval => Latest(2).id < Latest(3).id

(* The open interval starts at or before the newest access.  An access     *)
(* that is taken again is contiguous; a pattern that is none starts before *)
(* it.  Only the last access leaves nr at 0.                               *)
Open ==
  /\ loop.interval_start <= Newest.id
  /\ pc = "switch" =>
       /\ loop.curr_pattern # "CONTIGUOUS" =>
            /\ loop.interval_start <= Latest(2).id /\ Latest(2).id < Latest(3).id
            /\ loop.nr > 0
       /\ Latest(2).id = Latest(3).id => Contiguous
  /\ pc = "loop" => loop.nr > 0 \/ i > n

(* The open interval's statistics hold nothing that is still to come.      *)
Current ==
  /\ \A j \in Indices : j > Newest.id => loop.curr_stats[j] = 0
  /\ pc = "switch" => loop.curr_stats[i] = 1

(* The intervals that were checked in lie before the open one, or are it.  *)
Before(v) == v.to < loop.interval_start
Closed ==
  /\ Disjoint
  /\ \A v \in results.patterns :
       /\ pc = "switch" => Before(v)
       /\ pc = "loop" /\ ~loop.do_start_new_interval /\ loop.nr > 0 => Before(v)
       /\ pc = "loop" /\ loop.do_start_new_interval =>
            /\ v.to < i
            /\ \/ Before(v) \/ Newest.id = i
               \/ v.from = loop.interval_start /\ v.to = Newest.id

(* An access with data is in the result, in the open interval, or about to *)
(* be taken again.                                                         *)
InOpen(j) ==
  /\ pc = "switch" \/ (pc = "loop" /\ ~loop.do_start_new_interval /\ loop.nr > 0)
  /\ loop.curr_stats[j] = 1
Retaken(j) == pc = "loop" /\ loop.do_start_new_interval /\ Newest.id = i /\ j = i
Saved == \A j \in kept : Counted(j) >= 1 \/ InOpen(j) \/ Retaken(j)

Inv == TypeOK /\ Ordered /\ Place /\ Open /\ Current /\ Closed /\ Saved

-----------------------------------------------------------------------------
LEMMA Types ==
  ASSUME TypeOK
  PROVE  /\ loop.last_x_accesses \in [1 .. 3 -> Accesses]
         /\ \A j \in 1 .. 3 : /\ Latest(j) \in Accesses /\ Latest(j).id \in Indices
                              /\ Latest(j).fpos \in Int /\ Latest(j).size \in Nat
         /\ Newest = Latest(3)
         /\ loop.next_fpos_if_contiguous \in Int /\ loop.nr \in Nat
         /\ loop.interval_start \in Indices
         /\ loop.curr_pattern \in {"CONTIGUOUS", "STRIDED", "RANDOM"}
         /\ loop.curr_stats \in Stats
         /\ loop.is_equi_distant \in BOOLEAN /\ loop.do_start_new_interval \in BOOLEAN
         /\ n \in Nat /\ i \in Nat
<1>1. loop \in Locals
  BY DEF TypeOK
<1>2. /\ loop.last_x_accesses \in [1 .. 3 -> Accesses]
      /\ loop.next_fpos_if_contiguous \in Int /\ loop.nr \in Nat
      /\ loop.interval_start \in Indices
      /\ loop.curr_pattern \in {"CONTIGUOUS", "STRIDED", "RANDOM"}
      /\ loop.curr_stats \in Stats
      /\ loop.is_equi_distant \in BOOLEAN /\ loop.do_start_new_interval \in BOOLEAN
  BY <1>1 DEF Locals, Patterns
<1>3. \A j \in 1 .. 3 : /\ Latest(j) \in Accesses /\ Latest(j).id \in Indices
                        /\ Latest(j).fpos \in Int /\ Latest(j).size \in Nat
  BY <1>2 DEF Latest, Accesses
<1>4. n \in Nat /\ i \in Nat
  BY DEF TypeOK
<1> QED
  BY <1>2, <1>3, <1>4 DEF Newest

LEMMA Shapes ==
  ASSUME NEW x, NEW y, NEW z
  PROVE  Shape(x, y, z) \in {"CONTIGUOUS", "STRIDED", "RANDOM"}
BY DEF Shape

(* Checking in an interval behind the others, or once more.                *)
LEMMA CheckedIn ==
  ASSUME TypeOK, Disjoint, NEW to \in Indices, NEW pattern \in Patterns \ {"NONE"},
         NEW stats \in Stats, CheckIn(to, pattern, stats),
         loop.interval_start <= to,
         \A v \in results.patterns :
           Before(v) \/ (v.from = loop.interval_start /\ v.to = to)
  PROVE  /\ results'.patterns \subseteq Intervals
         /\ results'.stats \in [Patterns -> [Indices -> Nat]]
         /\ Disjoint'
         /\ \A v \in results'.patterns :
              Before(v) \/ (v.from = loop.interval_start /\ v.to = to)
         /\ \A j \in Indices : /\ Counted(j)' \in Nat /\ Counted(j) \in Nat
                               /\ Counted(j)' >= Counted(j)
                               /\ stats[j] = 1 => Counted(j)' >= 1
<1> DEFINE new == [from |-> loop.interval_start, to |-> to, pattern |-> pattern]
<1>1. /\ results'.patterns =
           {v \in results.patterns : v.from # loop.interval_start \/ v.to # to} \cup {new}
      /\ results'.stats = [results.stats EXCEPT ![pattern] = Plus(@, stats)]
  BY DEF CheckIn
<1>2. new \in Intervals
  BY Types DEF Intervals
<1>3. /\ results.patterns \subseteq Intervals
      /\ results.stats \in [Patterns -> [Indices -> Nat]]
  BY DEF TypeOK
<1>4. results'.patterns \subseteq Intervals
  BY <1>1, <1>2, <1>3
<1>5. results'.stats \in [Patterns -> [Indices -> Nat]]
  <2>1. Plus(results.stats[pattern], stats) \in [Indices -> Nat]
    BY <1>3 DEF Plus, Stats
  <2> QED
    BY <1>1, <1>3, <2>1
<1>6. \A v \in results'.patterns :
        v = new \/ (v \in results.patterns /\ Before(v))
  BY <1>1
<1>7. Disjoint'
  <2> SUFFICES ASSUME NEW u \in results'.patterns, NEW v \in results'.patterns
               PROVE  /\ u.from <= u.to
                      /\ u = v \/ u.to < v.from \/ v.to < u.from
    BY DEF Disjoint
  <2>1. /\ u = new \/ (u \in results.patterns /\ Before(u))
        /\ v = new \/ (v \in results.patterns /\ Before(v))
    BY <1>6
  <2>2. new.from = loop.interval_start /\ new.to = to
    OBVIOUS
  <2> HIDE DEF new
  <2> QED
    BY <2>1, <2>2 DEF Disjoint, Before
<1>8. ASSUME NEW j \in Indices
      PROVE  /\ Counted(j)' \in Nat /\ Counted(j) \in Nat
             /\ Counted(j)' >= Counted(j)
             /\ stats[j] = 1 => Counted(j)' >= 1
  <2>1. \A p \in Patterns : results.stats[p][j] \in Nat /\ results'.stats[p][j] \in Nat
    BY <1>3, <1>5
  <2>2. stats[j] \in 0 .. 1
    BY DEF Stats
  <2>3. results'.stats[pattern][j] = results.stats[pattern][j] + stats[j]
    BY <1>1, <1>3 DEF Plus
  <2>4. \A p \in Patterns : p # pattern => results'.stats[p] = results.stats[p]
    BY <1>1, <1>3
  <2>5. {"NONE", "CONTIGUOUS", "STRIDED", "RANDOM"} = Patterns
    BY DEF Patterns
  <2>6. /\ Counted(j) = results.stats["NONE"][j] + results.stats["CONTIGUOUS"][j]
                        + results.stats["STRIDED"][j] + results.stats["RANDOM"][j]
        /\ Counted(j)' = results'.stats["NONE"][j] + results'.stats["CONTIGUOUS"][j]
                         + results'.stats["STRIDED"][j] + results'.stats["RANDOM"][j]
    BY DEF Counted
  <2>7. \A p \in Patterns :
          /\ results'.stats[p][j] >= results.stats[p][j]
          /\ p = pattern => results'.stats[p][j] >= stats[j]
    BY <2>1, <2>2, <2>3, <2>4
  <2>8. pattern \in Patterns
    OBVIOUS
  <2> HIDE DEF new
  <2> QED
    BY <2>1, <2>2, <2>5, <2>6, <2>7, <2>8
<1> QED
  BY <1>4, <1>5, <1>6, <1>7, <1>8

-----------------------------------------------------------------------------
LEMMA InitInv == Init => Inv
<1> SUFFICES ASSUME Init PROVE Inv
  OBVIOUS
<1>1. PICK g \in Gaps, h \in Gaps, s \in [1 .. 3 -> Sizes], meta \in SUBSET (1 .. 3),
           equi \in BOOLEAN :
        LET size(j) == IF j \in meta THEN 0 ELSE s[j]
            a == [id |-> 1, fpos |-> 0, size |-> size(1)]
            b == DataAccess(2, a, IF 2 \in meta THEN 0 ELSE g, size(2))
            c == DataAccess(3, b, IF 3 \in meta THEN 0 ELSE h, size(3))
        IN  /\ loop = [last_x_accesses |-> <<a, b, c>>, nr |-> 3,
                       next_fpos_if_contiguous |-> c.fpos + c.size,
                       interval_start |-> 1, curr_stats |-> Only(1 .. 3),
                       curr_pattern |-> Shape(a, b, c), is_equi_distant |-> equi,
                       do_start_new_interval |-> FALSE]
            /\ shapes = {Shape(a, b, c)} \cup (IF meta = {} THEN {} ELSE {"NONE"})
            /\ kept = (1 .. (IF n < 3 THEN n ELSE 3)) \ meta
  BY DEF Init
<1> DEFINE size(j) == IF j \in meta THEN 0 ELSE s[j]
           a == [id |-> 1, fpos |-> 0, size |-> size(1)]
           b == DataAccess(2, a, IF 2 \in meta THEN 0 ELSE g, size(2))
           c == DataAccess(3, b, IF 3 \in meta THEN 0 ELSE h, size(3))
<1>2. /\ n \in 0 .. MaxAccesses /\ MaxAccesses \in Nat /\ MaxAccesses >= 3
      /\ 1 \in Indices /\ 2 \in Indices /\ 3 \in Indices
  BY DEF Init, Indices
<1>3. a \in Accesses /\ b \in Accesses /\ c \in Accesses
  <2>1. size(1) \in Nat /\ size(2) \in Nat /\ size(3) \in Nat
    <3>1. \A j \in 1 .. 3 : s[j] \in Sizes /\ s[j] \in Nat
      OBVIOUS
    <3> QED
      BY <3>1
  <2>2. a \in Accesses
    BY <1>2, <2>1 DEF Accesses
  <2>3. b \in Accesses
    BY <1>2, <2>1, <2>2 DEF Accesses, DataAccess
  <2> HIDE DEF a, b, size
  <2> QED
    BY <1>2, <2>1, <2>2, <2>3 DEF Accesses, DataAccess
<1>4. a.id = 1 /\ b.id = 2 /\ c.id = 3
  BY DEF DataAccess
<1>5. Only(1 .. 3) \in Stats /\ (\A j \in Indices : Only(1 .. 3)[j] = IF j <= 3 THEN 1 ELSE 0)
  BY DEF Only, Stats, Indices
<1>6. Shape(a, b, c) \in {"CONTIGUOUS", "STRIDED", "RANDOM"}
  BY Shapes
<1>7. /\ loop = [last_x_accesses |-> <<a, b, c>>, nr |-> 3,
                 next_fpos_if_contiguous |-> c.fpos + c.size,
                 interval_start |-> 1, curr_stats |-> Only(1 .. 3),
                 curr_pattern |-> Shape(a, b, c), is_equi_distant |-> equi,
                 do_start_new_interval |-> FALSE]
      /\ shapes = {Shape(a, b, c)} \cup (IF meta = {} THEN {} ELSE {"NONE"})
      /\ kept = (1 .. (IF n < 3 THEN n ELSE 3)) \ meta
  BY <1>1
<1> HIDE DEF a, b, c, size
<1>8. loop \in Locals
  BY <1>2, <1>3, <1>5, <1>6, <1>7 DEF Locals, Patterns, Accesses
<1>9. /\ Latest(1) = a /\ Latest(2) = b /\ Latest(3) = c /\ Newest = c
      /\ loop.nr = 3 /\ loop.interval_start = 1 /\ loop.curr_stats = Only(1 .. 3)
      /\ loop.do_start_new_interval = FALSE
  BY <1>7 DEF Latest, Newest
<1>10. kept \subseteq Indices /\ shapes \subseteq Patterns
  BY <1>2, <1>6, <1>7 DEF Indices, Patterns
<1>11. ASSUME NEW m \in 0 .. MaxAccesses
       PROVE  /\ ShortResult(m).patterns \subseteq Intervals
              /\ ShortResult(m).stats \in [Patterns -> [Indices -> Nat]]
              /\ \A j \in Indices : ShortResult(m).stats["NONE"][j]
                                      = IF j <= m THEN 1 ELSE 0
  BY <1>2 DEF ShortResult, Intervals, Patterns, Indices, Only, NoStats
<1>12. Ordered /\ Current
  <2>1. pc # "switch"
    BY DEF Init
  <2> QED
    BY <1>4, <1>5, <1>9, <2>1 DEF Ordered, Current, Indices
<1>13. CASE n < Threshold
  <2>1. results = ShortResult(n) /\ pc = "done" /\ i = 0
    BY <1>13 DEF Init
  <2>2. TypeOK
    BY <1>2, <1>8, <1>10, <1>11, <2>1 DEF TypeOK
  <2>3. Place /\ Open
    BY <1>4, <1>9, <2>1 DEF Place, Open
  <2>4. Closed
    BY <1>2, <2>1 DEF Closed, Disjoint, ShortResult
  <2>5. \A j \in kept : Counted(j) >= 1
    <3> SUFFICES ASSUME NEW j \in kept PROVE Counted(j) >= 1
      OBVIOUS
    <3>1. j \in Indices /\ j <= n /\ n \in 0 .. MaxAccesses
      BY <1>2, <1>7, <1>10, <1>13
    <3>2. \A p \in Patterns : results.stats[p][j] \in Nat
      BY <2>2, <3>1 DEF TypeOK
    <3>3. results.stats["NONE"][j] = 1
      BY <1>11, <2>1, <3>1
    <3> QED
      BY <3>2, <3>3 DEF Counted, Patterns
  <2> QED
    BY <1>12, <2>2, <2>3, <2>4, <2>5 DEF Inv, Saved
<1>14. CASE n >= Threshold
  <2>1. results = ShortResult(0) /\ pc = "loop" /\ i = 4
    BY <1>2, <1>14 DEF Init
  <2>2. 0 \in 0 .. MaxAccesses /\ 4 \in 0 .. MaxAccesses + 1
    BY <1>2
  <2>3. TypeOK
    BY <1>2, <1>8, <1>10, <1>11, <2>1, <2>2 DEF TypeOK
  <2>4. Place /\ Open
    BY <1>2, <1>4, <1>9, <1>14, <2>1 DEF Place, Open
  <2>5. Closed
    BY <2>1 DEF Closed, Disjoint, ShortResult
  <2>6. \A j \in kept : InOpen(j)
    BY <1>2, <1>5, <1>7, <1>9, <1>10, <1>14, <2>1 DEF InOpen
  <2> QED
    BY <1>12, <2>3, <2>4, <2>5, <2>6 DEF Inv, Saved
<1> QED
  BY <1>2, <1>13, <1>14


(* An access is taken: one that is new, or the newest again for the        *)
(* interval that it starts.                                                *)
LEMMA TakeStep ==
  ASSUME Inv, NEW io \in Accesses, Take(io), io.id = i,
         kept \subseteq kept', kept' \subseteq kept \cup {i}, shapes' \subseteq Patterns,
         Newest.id < i \/ (Newest.id = i /\ io = Newest)
  PROVE  Inv'
<1>1. /\ TypeOK /\ Ordered /\ Place /\ Open /\ Current /\ Closed /\ Saved
      /\ pc = "loop" /\ i <= n /\ pc' = "switch" /\ n' = n /\ i' = i /\ results' = results
  BY DEF Inv, Take
<1>2. /\ loop \in Locals
      /\ \A j \in 1 .. 3 : Latest(j) \in Accesses /\ Latest(j).id \in Indices
      /\ Newest = Latest(3) /\ loop.nr \in Nat /\ loop.interval_start \in Indices
      /\ loop.curr_stats \in Stats /\ n \in 0 .. MaxAccesses /\ i \in Nat /\ i \in Indices
      /\ kept \subseteq Indices /\ MaxAccesses \in Nat
      /\ \A j \in Indices : j \in Nat
  BY <1>1, Types DEF TypeOK, Indices, Accesses
<1>0. /\ loop.do_start_new_interval \/ Newest.id < i
      /\ loop.do_start_new_interval => Latest(2).id < Latest(3).id
      /\ Latest(2).id <= Latest(3).id
      /\ loop.nr > 0 /\ loop.interval_start <= Newest.id
      /\ \A j \in Indices : j > Newest.id => loop.curr_stats[j] = 0
  BY <1>1, <1>2 DEF Place, Ordered, Open, Current
<1> DEFINE st == Fresh(io)
           stats == Plus(st.curr_stats, Only({i}))
<1>3. /\ loop.do_start_new_interval =>
           /\ st.curr_pattern = "CONTIGUOUS" /\ st.next_fpos_if_contiguous = io.fpos
           /\ st.curr_stats = NoStats /\ st.interval_start = i
      /\ ~loop.do_start_new_interval => st = loop /\ Newest.id < i
      /\ st \in Locals /\ st.do_start_new_interval = FALSE
      /\ st.last_x_accesses = loop.last_x_accesses
  <2>1. NoStats \in Stats /\ "CONTIGUOUS" \in Patterns \ {"NONE"}
    BY DEF NoStats, Stats, Patterns
  <2>2. io.fpos \in Int /\ io.id \in Indices /\ 0 \in Nat
    BY DEF Accesses
  <2>3. CASE loop.do_start_new_interval
    BY <1>2, <2>1, <2>2, <2>3 DEF Fresh, Locals
  <2>4. CASE ~loop.do_start_new_interval
    BY <1>0, <1>2, <2>4 DEF Fresh, Locals
  <2> QED
    BY <2>3, <2>4
<1>4. /\ st.curr_stats \in Stats
      /\ \A j \in Indices : j >= i => st.curr_stats[j] = 0
  <2>1. CASE loop.do_start_new_interval
    BY <1>3, <2>1 DEF NoStats, Stats
  <2>2. CASE ~loop.do_start_new_interval
    <3>1. st.curr_stats = loop.curr_stats /\ Newest.id < i /\ Newest.id \in Nat
      BY <1>2, <1>3, <2>2 DEF Indices
    <3> HIDE DEF st
    <3>2. \A j \in Indices : j >= i => j > Newest.id
      BY <1>2, <3>1
    <3> QED
      BY <1>0, <1>2, <3>1, <3>2
  <2> QED
    BY <2>1, <2>2
<1>5. /\ stats \in Stats /\ stats[i] = 1
      /\ \A j \in Indices : j # i => stats[j] = st.curr_stats[j]
  BY <1>2, <1>4 DEF Plus, Only, Stats
<1>6. loop' = [st EXCEPT !.last_x_accesses = <<loop.last_x_accesses[2],
                                               loop.last_x_accesses[3], io>>,
                         !.curr_stats = stats]
  <2> HIDE DEF stats
  <2>1. loop' = [st EXCEPT !.last_x_accesses = <<@[2], @[3], io>>,
                           !.curr_stats = stats]
    BY DEF Take, stats
  <2> QED
    BY <1>3, <2>1
<1> HIDE DEF st, stats
<1>7. <<loop.last_x_accesses[2], loop.last_x_accesses[3], io>> \in [1 .. 3 -> Accesses]
  BY <1>2 DEF Latest
<1>8. /\ loop' \in Locals
      /\ loop'.last_x_accesses = <<loop.last_x_accesses[2], loop.last_x_accesses[3], io>>
      /\ loop'.curr_stats = stats /\ loop'.nr = st.nr
      /\ loop'.interval_start = st.interval_start /\ loop'.curr_pattern = st.curr_pattern
      /\ loop'.next_fpos_if_contiguous = st.next_fpos_if_contiguous
      /\ loop'.do_start_new_interval = FALSE
  BY <1>3, <1>5, <1>6, <1>7 DEF Locals
<1>9. /\ Latest(1)' = Latest(2) /\ Latest(2)' = Latest(3) /\ Latest(3)' = io /\ Newest' = io
  BY <1>8 DEF Latest, Newest
<1>10. TypeOK'
  BY <1>1, <1>2, <1>8 DEF TypeOK
<1>11. Latest(2).id <= Newest.id /\ Newest.id <= i /\ Latest(2).id < i
  BY <1>0, <1>2 DEF Indices
<1>12. Ordered'
  BY <1>2, <1>9, <1>11 DEF Ordered
<1>13. Place'
  BY <1>1, <1>8, <1>9 DEF Place
<1>14. Open'
  <2>1. CASE loop.do_start_new_interval
    <3>1. /\ loop'.interval_start = i /\ loop'.curr_pattern = "CONTIGUOUS"
          /\ loop'.next_fpos_if_contiguous = io.fpos
      BY <1>3, <1>8, <2>1
    <3> QED
      BY <1>1, <1>2, <1>9, <3>1 DEF Open, Contiguous
  <2>2. CASE ~loop.do_start_new_interval
    <3>1. /\ loop'.interval_start = loop.interval_start /\ loop'.nr = loop.nr
          /\ Newest.id < i
      BY <1>3, <1>8, <2>2
    <3>2. /\ loop'.interval_start <= Latest(2)'.id /\ Latest(2)'.id < Latest(3)'.id
          /\ loop'.nr > 0 /\ loop'.interval_start <= Newest'.id
      BY <1>0, <1>2, <1>9, <3>1 DEF Indices
    <3>3. Latest(2)'.id # Latest(3)'.id
      BY <1>2, <1>9, <3>1 DEF Indices
    <3> QED
      BY <1>1, <3>2, <3>3 DEF Open
  <2> QED
    BY <2>1, <2>2
<1>15. Current'
  BY <1>1, <1>2, <1>4, <1>5, <1>8, <1>9 DEF Current
<1>16. Closed'
  <2>1. Disjoint'
    BY <1>1 DEF Closed, Disjoint
  <2>2. \A v \in results.patterns : v.to < loop'.interval_start
    BY <1>1, <1>2, <1>3, <1>8 DEF Closed, Before, Open
  <2> QED
    BY <1>1, <2>1, <2>2 DEF Closed, Before
<1>17. Saved'
  <2> SUFFICES ASSUME NEW j \in kept' PROVE Counted(j)' >= 1 \/ InOpen(j)'
    BY DEF Saved
  <2>1. CASE j = i
    BY <1>1, <1>5, <1>8, <2>1 DEF InOpen
  <2>2. CASE j # i
    <3>1. j \in kept /\ j \in Indices
      BY <1>2, <2>2
    <3>2. Counted(j) >= 1 \/ InOpen(j)
      BY <1>1, <2>2, <3>1 DEF Saved, Retaken
    <3>3. CASE Counted(j) >= 1
      BY <1>1, <3>3 DEF Counted
    <3>4. CASE InOpen(j)
      <4>1. loop.curr_stats[j] = 1 /\ ~loop.do_start_new_interval
        BY <1>1, <3>4 DEF InOpen
      <4> QED
        BY <1>1, <1>3, <1>5, <1>8, <2>2, <3>1, <4>1 DEF InOpen
    <3> QED
      BY <3>2, <3>3, <3>4
  <2> QED
    BY <2>1, <2>2
<1> QED
  BY <1>10, <1>12, <1>13, <1>14, <1>15, <1>16, <1>17 DEF Inv


(* The loop goes on with the next access; the open interval may be cut to  *)
(* start at the access before the newest.                                  *)
LEMMA GoOn ==
  ASSUME Inv, NEW st \in Locals, pc = "switch", Onward(i + 1, st), UNCHANGED results,
         st.last_x_accesses = loop.last_x_accesses, st.curr_stats = loop.curr_stats,
         ~st.do_start_new_interval, st.nr > 0,
         \/ st.interval_start = loop.interval_start
         \/ st.interval_start = Latest(2).id /\ loop.curr_pattern # "CONTIGUOUS"
  PROVE  Inv'
<1>1. /\ TypeOK /\ Ordered /\ Place /\ Open /\ Current /\ Closed /\ Saved
      /\ pc' = "loop" /\ i' = i + 1 /\ loop' = st
      /\ n' = n /\ kept' = kept /\ shapes' = shapes /\ results' = results
  BY DEF Inv, Onward
<1>2. /\ \A j \in 1 .. 3 : Latest(j)' = Latest(j)
      /\ Newest' = Newest
  BY <1>1 DEF Latest, Newest
<1>3. /\ Latest(2).id \in Indices /\ Latest(3).id \in Indices /\ Newest = Latest(3)
      /\ loop.interval_start \in Indices /\ st.interval_start \in Indices
      /\ n \in 0 .. MaxAccesses /\ i \in Nat /\ MaxAccesses \in Nat
      /\ \A j \in Indices : j \in Nat
      /\ \A v \in results.patterns : v.to \in Indices
  <2>1. \A v \in results.patterns : v.to \in Indices
    BY <1>1 DEF TypeOK, Intervals
  <2>2. st.interval_start \in Indices
    BY DEF Locals
  <2> QED
    <3>1. n \in 0 .. MaxAccesses /\ i \in Nat /\ MaxAccesses \in Nat
      BY <1>1, Types DEF TypeOK
    <3>2. /\ Latest(2).id \in Indices /\ Latest(3).id \in Indices /\ Newest = Latest(3)
          /\ loop.interval_start \in Indices
      BY <1>1, Types
    <3> QED
      BY <2>1, <2>2, <3>1, <3>2 DEF Indices
<1>4. Newest.id = i /\ i <= n
  BY <1>1 DEF Place
<1>5. TypeOK'
  BY <1>1, <1>3, <1>4 DEF TypeOK
<1>6. Ordered'
  BY <1>1, <1>2 DEF Ordered
<1>7. Place'
  BY <1>1, <1>2, <1>3, <1>4 DEF Place
<1>8. /\ st.interval_start <= Newest.id
      /\ loop.interval_start <= st.interval_start
  BY <1>1, <1>3 DEF Ordered, Open
<1>9. Open'
  BY <1>1, <1>2, <1>8 DEF Open
<1>10. Current'
  BY <1>1, <1>2 DEF Current
<1>11. Closed'
  <2>1. Disjoint'
    BY <1>1 DEF Closed, Disjoint
  <2>2. \A v \in results.patterns : v.to < st.interval_start
    <3> SUFFICES ASSUME NEW v \in results.patterns PROVE v.to < st.interval_start
      OBVIOUS
    <3>1. v.to < loop.interval_start
      BY <1>1 DEF Closed, Before
    <3> QED
      BY <1>3, <1>8, <3>1
  <2> QED
    BY <1>1, <2>1, <2>2 DEF Closed, Before
<1>12. Saved'
  <2> SUFFICES ASSUME NEW j \in kept PROVE Counted(j)' >= 1 \/ InOpen(j)'
    BY <1>1 DEF Saved
  <2>1. Counted(j) >= 1 \/ InOpen(j)
    BY <1>1 DEF Saved, Retaken
  <2>2. Counted(j) >= 1 => Counted(j)' >= 1
    BY <1>1 DEF Counted
  <2>3. InOpen(j) => InOpen(j)'
    BY <1>1 DEF InOpen
  <2> QED
    BY <2>1, <2>2, <2>3
<1> QED
  BY <1>5, <1>6, <1>7, <1>9, <1>10, <1>11, <1>12 DEF Inv

(* An interval is checked in; the loop goes on behind the newest access,   *)
(* or goes back to it.                                                     *)
LEMMA Ends ==
  ASSUME Inv, NEW to \in Indices, NEW pattern \in Patterns \ {"NONE"}, NEW stats \in Stats,
         NEW next \in {i, i + 1}, NEW st \in Locals,
         pc = "switch", CheckIn(to, pattern, stats), Onward(next, st),
         loop.interval_start <= to, to < next,
         st.last_x_accesses = loop.last_x_accesses,
         st.interval_start = loop.interval_start,
         \/ st.do_start_new_interval /\ st.nr > 0 /\ Latest(2).id < Latest(3).id
         \/ ~st.do_start_new_interval /\ st.nr = 0 /\ next > n,
         to = Newest.id \/ next = i, next = i => st.do_start_new_interval,
         \A j \in Indices : j # next => stats[j] = loop.curr_stats[j],
         \A j \in Indices : j > Newest.id => st.curr_stats[j] = 0
  PROVE  Inv'
<1>1. /\ TypeOK /\ Ordered /\ Place /\ Open /\ Current /\ Closed /\ Saved
      /\ pc' = "loop" /\ i' = next /\ loop' = st
      /\ n' = n /\ kept' = kept /\ shapes' = shapes
  BY DEF Inv, Onward
<1>2. /\ \A j \in 1 .. 3 : Latest(j)' = Latest(j)
      /\ Newest' = Newest
  BY <1>1 DEF Latest, Newest
<1>3. /\ Latest(2).id \in Indices /\ Latest(3).id \in Indices /\ Newest = Latest(3)
      /\ loop.interval_start \in Indices
      /\ n \in 0 .. MaxAccesses /\ i \in Nat /\ MaxAccesses \in Nat
      /\ \A j \in Indices : j \in Nat
      /\ kept \subseteq Indices
  BY <1>1, Types DEF TypeOK, Indices
<1>4. Newest.id = i /\ i <= n
  BY <1>1 DEF Place
<1>5. /\ results'.patterns \subseteq Intervals
      /\ results'.stats \in [Patterns -> [Indices -> Nat]]
      /\ Disjoint'
      /\ \A v \in results'.patterns :
           Before(v) \/ (v.from = loop.interval_start /\ v.to = to)
      /\ \A j \in Indices : /\ Counted(j)' \in Nat /\ Counted(j) \in Nat
                            /\ Counted(j)' >= Counted(j)
                            /\ stats[j] = 1 => Counted(j)' >= 1
  BY <1>1, CheckedIn DEF Closed
<1>6. TypeOK'
  BY <1>1, <1>3, <1>4, <1>5 DEF TypeOK
<1>7. Ordered'
  BY <1>1, <1>2 DEF Ordered
<1>8. Place'
  BY <1>1, <1>2, <1>3, <1>4 DEF Place
<1>9. Open'
  <2>1. loop.interval_start <= Newest.id
    BY <1>1 DEF Open
  <2> QED
    BY <1>1, <1>2, <2>1 DEF Open
<1>10. Current'
  BY <1>1, <1>2 DEF Current
<1>11. Closed'
  <2> SUFFICES ASSUME NEW v \in results'.patterns
               PROVE  st.do_start_new_interval =>
                        /\ v.to < next
                        /\ \/ v.to < loop.interval_start \/ Newest.id = next
                           \/ v.from = loop.interval_start /\ v.to = Newest.id
    BY <1>1, <1>2, <1>5 DEF Closed, Before
  <2>1. v.to < loop.interval_start \/ (v.from = loop.interval_start /\ v.to = to)
    BY <1>5 DEF Before
  <2>2. v.to \in Nat
    BY <1>3, <1>5 DEF Intervals
  <2> QED
    BY <1>3, <1>4, <2>1, <2>2
<1>12. Saved'
  <2> SUFFICES ASSUME NEW j \in kept PROVE Counted(j)' >= 1 \/ Retaken(j)'
    BY <1>1 DEF Saved
  <2>1. j \in Indices
    BY <1>3
  <2>2. Counted(j) >= 1 \/ InOpen(j)
    BY <1>1 DEF Saved, Retaken
  <2>3. CASE Counted(j) >= 1
    BY <1>5, <2>1, <2>3
  <2>4. CASE InOpen(j) /\ j # next
    BY <1>5, <2>1, <2>4 DEF InOpen
  <2>5. CASE InOpen(j) /\ j = next
    <3>1. CASE next = i
      BY <1>1, <1>2, <1>4, <2>5, <3>1 DEF Retaken
    <3>2. CASE next = i + 1
      <4>1. j > Newest.id /\ loop.curr_stats[j] = 1
        BY <1>3, <1>4, <2>5, <3>2 DEF InOpen
      <4> QED
        BY <1>1, <2>1, <4>1 DEF Current
    <3> QED
      BY <3>1, <3>2
  <2> QED
    BY <2>2, <2>3, <2>4, <2>5
<1> QED
  BY <1>6, <1>7, <1>8, <1>9, <1>10, <1>11, <1>12 DEF Inv


LEMMA SkipStep == Inv /\ Skip => Inv'
<1> SUFFICES ASSUME Inv, Skip PROVE Inv'
  OBVIOUS
<1>1. /\ TypeOK /\ Ordered /\ Place /\ Open /\ Current /\ Closed /\ Saved
      /\ pc = "loop" /\ i <= n /\ i' = i + 1
      /\ ~(loop.do_start_new_interval /\ Newest.id = i)
      /\ shapes' = shapes \cup {"NONE"}
      /\ n' = n /\ loop' = loop /\ results' = results /\ pc' = pc /\ kept' = kept
  BY DEF Inv, Skip
<1>2. Newest.id < i /\ Newest.id \in Nat /\ i \in Nat /\ n \in 0 .. MaxAccesses
      /\ loop.nr > 0 /\ MaxAccesses \in Nat
  BY <1>1, Types DEF Place, Open, TypeOK, Indices
<1>3. (\A j \in 1 .. 3 : Latest(j)' = Latest(j)) /\ Newest' = Newest
  BY <1>1 DEF Latest, Newest
<1>4. TypeOK'
  BY <1>1, <1>2 DEF TypeOK, Patterns
<1>5. Ordered' /\ Place' /\ Open' /\ Current'
  BY <1>1, <1>2, <1>3 DEF Ordered, Place, Open, Current
<1>6. Closed'
  <2>1. Disjoint'
    BY <1>1 DEF Closed, Disjoint
  <2>2. \A v \in results.patterns : v.to \in Nat
    BY <1>1 DEF TypeOK, Intervals, Indices
  <2> QED
    BY <1>1, <1>2, <1>3, <2>1, <2>2 DEF Closed, Before
<1>7. Saved'
  BY <1>1, <1>2, <1>3 DEF Saved, InOpen, Retaken, Counted
<1> QED
  BY <1>4, <1>5, <1>6, <1>7 DEF Inv

LEMMA FinishStep == Inv /\ Finish => Inv'
<1> SUFFICES ASSUME Inv, Finish PROVE Inv'
  OBVIOUS
<1>1. /\ TypeOK /\ Ordered /\ Place /\ Open /\ Current /\ Closed /\ Saved
      /\ pc = "loop" /\ i > n /\ pc' = "done"
      /\ n' = n /\ i' = i /\ loop' = loop /\ kept' = kept /\ shapes' = shapes
  BY DEF Inv, Finish
<1>2. /\ Newest.id < i /\ Newest.id \in Indices /\ loop.nr \in Nat
      /\ loop.interval_start <= Newest.id
      /\ loop.curr_pattern \in Patterns \ {"NONE"} /\ loop.curr_stats \in Stats
      /\ kept \subseteq Indices /\ i \in Nat /\ n \in Nat
  <2>1. /\ Newest.id \in Indices /\ loop.nr \in Nat /\ loop.curr_stats \in Stats
        /\ loop.curr_pattern \in {"CONTIGUOUS", "STRIDED", "RANDOM"}
        /\ i \in Nat /\ n \in Nat
    BY <1>1, Types
  <2>2. ~(i <= n)
    BY <1>1, <2>1
  <2>3. Newest.id < i /\ loop.interval_start <= Newest.id
    BY <1>1, <2>2 DEF Place, Open
  <2>4. kept \subseteq Indices
    BY <1>1 DEF TypeOK
  <2> QED
    BY <2>1, <2>3, <2>4 DEF Patterns
<1>3. (\A j \in 1 .. 3 : Latest(j)' = Latest(j)) /\ Newest' = Newest
  BY <1>1 DEF Latest, Newest
<1>4. Ordered' /\ Place' /\ Open' /\ Current'
  BY <1>1, <1>3 DEF Ordered, Place, Open, Current
<1>5. \A j \in kept : Counted(j) >= 1 \/ (loop.nr > 0 /\ loop.curr_stats[j] = 1)
  BY <1>1, <1>2 DEF Saved, InOpen, Retaken
<1>6. CASE loop.nr > 0
  <2>1. CheckIn(Newest.id, loop.curr_pattern, loop.curr_stats)
    BY <1>6 DEF Finish
  <2>2. \A v \in results.patterns :
          Before(v) \/ (v.from = loop.interval_start /\ v.to = Newest.id)
    BY <1>1, <1>2, <1>6 DEF Closed
  <2>3. /\ results'.patterns \subseteq Intervals
        /\ results'.stats \in [Patterns -> [Indices -> Nat]]
        /\ Disjoint'
        /\ \A j \in Indices : /\ Counted(j)' \in Nat /\ Counted(j) \in Nat
                              /\ Counted(j)' >= Counted(j)
                              /\ loop.curr_stats[j] = 1 => Counted(j)' >= 1
    BY <1>1, <1>2, <2>1, <2>2, CheckedIn DEF Closed
  <2>4. TypeOK'
    BY <1>1, <2>3 DEF TypeOK
  <2>5. Closed'
    BY <1>1, <2>3 DEF Closed
  <2>6. Saved'
    <3> SUFFICES ASSUME NEW j \in kept PROVE Counted(j)' >= 1
      BY <1>1 DEF Saved
    <3> QED
      BY <1>2, <1>5, <2>3
  <2> QED
    BY <1>4, <2>4, <2>5, <2>6 DEF Inv
<1>7. CASE ~(loop.nr > 0)
  <2>1. results' = results
    BY <1>7 DEF Finish
  <2>2. TypeOK' /\ Closed'
    BY <1>1, <2>1 DEF TypeOK, Closed, Disjoint
  <2>3. Saved'
    BY <1>1, <1>5, <1>7, <2>1 DEF Saved, Counted
  <2> QED
    BY <1>4, <2>2, <2>3 DEF Inv
<1> QED
  BY <1>6, <1>7


(* What an action of the switch starts from.                               *)
LEMMA InSwitch ==
  ASSUME Inv, NEW pattern, In(pattern)
  PROVE  /\ loop \in Locals /\ pc = "switch" /\ loop.curr_pattern = pattern
         /\ loop.nr \in Nat /\ loop.curr_stats \in Stats /\ loop.interval_start \in Indices
         /\ Latest(2) \in Accesses /\ Latest(3) \in Accesses /\ Newest = Latest(3)
         /\ Newest.fpos + Newest.size \in Int
         /\ Newest.id = i /\ i \in Indices /\ i \in Nat /\ i <= n
         /\ ~loop.do_start_new_interval /\ loop.interval_start <= i
         /\ (\A j \in Indices : j > i => loop.curr_stats[j] = 0) /\ loop.curr_stats[i] = 1
         /\ pattern # "CONTIGUOUS" =>
              loop.interval_start <= Latest(2).id /\ Latest(2).id < i /\ loop.nr > 0
         /\ Latest(2).id # i \/ Contiguous
         /\ Latest(2).id \in Indices /\ Latest(2).id <= i
<1>1. TypeOK /\ Ordered /\ Place /\ Open /\ Current /\ pc = "switch"
      /\ loop.curr_pattern = pattern
  BY DEF Inv, In
<1>2. /\ loop \in Locals /\ loop.nr \in Nat /\ loop.curr_stats \in Stats
      /\ loop.interval_start \in Indices
      /\ Latest(2) \in Accesses /\ Latest(3) \in Accesses /\ Newest = Latest(3)
      /\ Latest(2).id \in Indices /\ Latest(3).id \in Indices /\ i \in Nat
      /\ Newest.fpos \in Int /\ Newest.size \in Nat
  BY <1>1, Types DEF TypeOK
<1>3. Newest.id = i /\ i <= n /\ ~loop.do_start_new_interval /\ Latest(2).id <= i
  BY <1>1, <1>2 DEF Place, Ordered
<1>4. Newest.fpos + Newest.size \in Int
  BY <1>2
<1> QED
  BY <1>1, <1>2, <1>3, <1>4 DEF Open, Current

LEMMA Inductive == Inv /\ [Next]_vars => Inv'
<1> SUFFICES ASSUME Inv, [Next]_vars PROVE Inv'
  OBVIOUS
<1> USE DEF Patterns
<1>1. ASSUME NEW gap \in Gaps, NEW size \in Sizes, TakeNext(gap, size) PROVE Inv'
  <2> DEFINE io == DataAccess(i, Newest, gap, size)
  <2>1. /\ TypeOK /\ pc = "loop" /\ i <= n /\ Newest.id < i /\ Take(io)
        /\ kept' = kept \cup {i} /\ shapes' = shapes \cup {Shape(Latest(2), Latest(3), io)}
    BY <1>1 DEF TakeNext, Take, Inv
  <2>2. i \in Indices /\ gap \in Int /\ size \in Nat /\ shapes \subseteq Patterns
        /\ Newest.fpos \in Int /\ Newest.size \in Nat
    <3>1. /\ Newest.fpos \in Int /\ Newest.size \in Nat /\ Newest.id \in Indices
          /\ i \in Nat
      BY <2>1, Types
    <3>2. n \in 0 .. MaxAccesses /\ shapes \subseteq Patterns
      BY <2>1 DEF TypeOK
    <3> QED
      BY <2>1, <3>1, <3>2 DEF Indices
  <2>3. io \in Accesses /\ io.id = i
    BY <2>2 DEF Accesses, DataAccess
  <2>4. shapes' \subseteq Patterns
    BY <2>1, <2>2, Shapes
  <2> HIDE DEF io
  <2> QED
    BY <2>1, <2>3, <2>4, TakeStep
<1>2. ASSUME TakeAgain PROVE Inv'
  <2>1. TypeOK /\ Newest.id = i /\ Take(Newest) /\ kept' = kept /\ shapes' = shapes
    BY <1>2 DEF TakeAgain, Inv
  <2>2. Newest \in Accesses /\ shapes \subseteq Patterns
    BY <2>1, Types DEF TypeOK
  <2> QED
    BY <2>1, <2>2, TakeStep
<1>3. ASSUME ContiguousGoesOn PROVE Inv'
  <2> DEFINE st == [loop EXCEPT !.nr = @ + 1,
                                !.next_fpos_if_contiguous = Newest.fpos + Newest.size]
  <2>1. In("CONTIGUOUS") /\ Onward(i + 1, st) /\ UNCHANGED results
    BY <1>3 DEF ContiguousGoesOn
  <2>2. /\ loop \in Locals /\ loop.nr + 1 \in Nat /\ loop.nr + 1 > 0
        /\ Newest.fpos + Newest.size \in Int /\ pc = "switch" /\ ~loop.do_start_new_interval
    BY <2>1, InSwitch
  <2>3. /\ st \in Locals /\ st.nr > 0
        /\ st.last_x_accesses = loop.last_x_accesses /\ st.curr_stats = loop.curr_stats
        /\ ~st.do_start_new_interval /\ st.interval_start = loop.interval_start
    BY <2>2 DEF Locals
  <2> HIDE DEF st
  <2> QED
    BY <2>1, <2>2, <2>3, GoOn
<1>4. ASSUME ContiguousEnds PROVE Inv'
  <2> DEFINE st == [loop EXCEPT !.do_start_new_interval = TRUE]
  <2>1. /\ In("CONTIGUOUS") /\ ~Contiguous /\ loop.nr > Threshold
        /\ CheckIn(i, "CONTIGUOUS", loop.curr_stats) /\ Onward(i + 1, st)
    BY <1>4 DEF ContiguousEnds
  <2>2. st \in Locals /\ st.nr > 0 /\ st.do_start_new_interval
        /\ st.last_x_accesses = loop.last_x_accesses /\ st.curr_stats = loop.curr_stats
        /\ st.interval_start = loop.interval_start
    <3>1. loop \in Locals /\ loop.nr > 0
      BY <2>1, InSwitch
    <3> QED
      BY <3>1 DEF Locals
  <2>3. Latest(2).id < Latest(3).id
    BY <2>1, InSwitch DEF Indices
  <2> HIDE DEF st
  <2> QED
    BY <2>1, <2>2, <2>3, InSwitch, Ends
<1>5. ASSUME ContiguousBreaks PROVE Inv'
  <2> DEFINE st == [loop EXCEPT !.nr = @ + 1,
                      !.curr_pattern = IF loop.is_equi_distant THEN "STRIDED" ELSE "RANDOM"]
  <2>1. In("CONTIGUOUS") /\ Onward(i + 1, st) /\ UNCHANGED results
    BY <1>5 DEF ContiguousBreaks
  <2>2. /\ loop \in Locals /\ loop.nr + 1 \in Nat /\ loop.nr + 1 > 0
        /\ Newest.fpos + Newest.size \in Int /\ pc = "switch" /\ ~loop.do_start_new_interval
    BY <2>1, InSwitch
  <2>3. /\ st \in Locals /\ st.nr > 0
        /\ st.last_x_accesses = loop.last_x_accesses /\ st.curr_stats = loop.curr_stats
        /\ ~st.do_start_new_interval /\ st.interval_start = loop.interval_start
    BY <2>2 DEF Locals
  <2> HIDE DEF st
  <2> QED
    BY <2>1, <2>2, <2>3, GoOn
<1>6. ASSUME StridedLast PROVE Inv'
  <2> DEFINE st == [loop EXCEPT !.nr = 0]
  <2>1. /\ In("STRIDED") /\ i = n
        /\ CheckIn(i, "STRIDED", loop.curr_stats) /\ Onward(i + 1, st)
    BY <1>6 DEF StridedLast
  <2>2. st \in Locals /\ st.nr = 0 /\ ~st.do_start_new_interval
        /\ st.last_x_accesses = loop.last_x_accesses /\ st.curr_stats = loop.curr_stats
        /\ st.interval_start = loop.interval_start
    <3>1. loop \in Locals /\ ~loop.do_start_new_interval
      BY <2>1, InSwitch
    <3> QED
      BY <3>1 DEF Locals
  <2> HIDE DEF st
  <2> QED
    BY <2>1, <2>2, InSwitch, Ends
<1>7. ASSUME StridedTurns PROVE Inv'
  <2> DEFINE st == [loop EXCEPT !.curr_pattern = "CONTIGUOUS", !.nr = Threshold,
                                !.interval_start = Latest(2).id]
  <2>1. In("STRIDED") /\ Onward(i + 1, st) /\ UNCHANGED results
    BY <1>7 DEF StridedTurns
  <2>2. /\ loop \in Locals /\ Latest(2).id \in Indices /\ pc = "switch"
        /\ ~loop.do_start_new_interval /\ loop.curr_pattern # "CONTIGUOUS"
    BY <2>1, InSwitch
  <2>3. /\ st \in Locals /\ st.nr = Threshold /\ st.interval_start = Latest(2).id
        /\ st.last_x_accesses = loop.last_x_accesses /\ st.curr_stats = loop.curr_stats
        /\ ~st.do_start_new_interval
    BY <2>2 DEF Locals
  <2> HIDE DEF st
  <2> QED
    BY <2>1, <2>2, <2>3, GoOn
<1>8. ASSUME StridedGoesOn PROVE Inv'
  <2> DEFINE st == [loop EXCEPT !.is_equi_distant = TRUE, !.nr = @ + 1]
  <2>1. In("STRIDED") /\ Onward(i + 1, st) /\ UNCHANGED results
    BY <1>8 DEF StridedGoesOn, StillStrided
  <2>2. /\ loop \in Locals /\ loop.nr + 1 \in Nat /\ loop.nr + 1 > 0 /\ loop.nr > 0
        /\ Newest.fpos + Newest.size \in Int /\ pc = "switch" /\ ~loop.do_start_new_interval
    BY <2>1, InSwitch
  <2>3. /\ st \in Locals /\ st.nr > 0
        /\ st.last_x_accesses = loop.last_x_accesses /\ st.curr_stats = loop.curr_stats
        /\ ~st.do_start_new_interval /\ st.interval_start = loop.interval_start
    BY <2>2 DEF Locals
  <2> HIDE DEF st
  <2> QED
    BY <2>1, <2>2, <2>3, GoOn
<1>9. ASSUME StridedBreaks PROVE Inv'
  <2> DEFINE st == [loop EXCEPT !.is_equi_distant = FALSE, !.curr_pattern = "RANDOM"]
  <2>1. In("STRIDED") /\ Onward(i + 1, st) /\ UNCHANGED results
    BY <1>9 DEF StridedBreaks, StillStrided
  <2>2. /\ loop \in Locals /\ loop.nr + 1 \in Nat /\ loop.nr + 1 > 0 /\ loop.nr > 0
        /\ Newest.fpos + Newest.size \in Int /\ pc = "switch" /\ ~loop.do_start_new_interval
    BY <2>1, InSwitch
  <2>3. /\ st \in Locals /\ st.nr > 0
        /\ st.last_x_accesses = loop.last_x_accesses /\ st.curr_stats = loop.curr_stats
        /\ ~st.do_start_new_interval /\ st.interval_start = loop.interval_start
    BY <2>2 DEF Locals
  <2> HIDE DEF st
  <2> QED
    BY <2>1, <2>2, <2>3, GoOn
<1>10. ASSUME StridedEnds PROVE Inv'
  <2> DEFINE st == [loop EXCEPT !.do_start_new_interval = TRUE, !.curr_stats = WithoutThis]
  <2>1. /\ In("STRIDED") /\ CheckIn(i - 1, "STRIDED", WithoutThis) /\ Onward(i, st)
    BY <1>10 DEF StridedEnds, StillStrided
  <2>2. /\ WithoutThis \in Stats
        /\ \A j \in Indices : j # i => WithoutThis[j] = loop.curr_stats[j]
    BY <2>1, InSwitch DEF WithoutThis, Stats
  <2>3. st \in Locals /\ st.nr > 0 /\ st.do_start_new_interval
        /\ st.last_x_accesses = loop.last_x_accesses /\ st.curr_stats = WithoutThis
        /\ st.interval_start = loop.interval_start
    <3>1. loop \in Locals /\ loop.nr > 0
      BY <2>1, InSwitch
    <3> HIDE DEF WithoutThis
    <3> QED
      BY <2>2, <3>1 DEF Locals
  <2>4. /\ i - 1 \in Indices /\ loop.interval_start <= i - 1 /\ i - 1 < i
        /\ Latest(2).id < Latest(3).id
    BY <2>1, InSwitch DEF Indices
  <2>5. \A j \in Indices : j > Newest.id => st.curr_stats[j] = 0
    BY <2>1, <2>2, <2>3, InSwitch DEF Indices
  <2> HIDE DEF st
  <2> QED
    BY <2>1, <2>2, <2>3, <2>4, <2>5, InSwitch, Ends
<1>11. ASSUME RandomTurns PROVE Inv'
  <2> DEFINE st == [loop EXCEPT
       !.curr_pattern = LivePattern, !.nr = Threshold, !.interval_start = Latest(2).id,
       !.is_equi_distant = (\/ LivePattern = "STRIDED"
                            \/ Latest(2).size - Latest(1).size
                                 = Latest(1).size - Latest(3).size)]
  <2>1. In("RANDOM") /\ Onward(i + 1, st) /\ UNCHANGED results
    BY <1>11 DEF RandomTurns
  <2>2. LivePattern \in {"CONTIGUOUS", "STRIDED", "RANDOM"}
    BY Shapes DEF LivePattern
  <2>3. /\ loop \in Locals /\ Latest(2).id \in Indices /\ pc = "switch"
        /\ ~loop.do_start_new_interval /\ loop.curr_pattern # "CONTIGUOUS"
    BY <2>1, InSwitch
  <2>4. /\ st \in Locals /\ st.nr = Threshold /\ st.interval_start = Latest(2).id
        /\ st.last_x_accesses = loop.last_x_accesses /\ st.curr_stats = loop.curr_stats
        /\ ~st.do_start_new_interval
    BY <2>2, <2>3 DEF Locals
  <2> HIDE DEF st
  <2> QED
    BY <2>1, <2>3, <2>4, GoOn
<1>12. ASSUME RandomGoesOn PROVE Inv'
  <2> DEFINE st == [loop EXCEPT !.nr = @ + 1]
  <2>1. In("RANDOM") /\ Onward(i + 1, st) /\ UNCHANGED results
    BY <1>12 DEF RandomGoesOn
  <2>2. /\ loop \in Locals /\ loop.nr + 1 \in Nat /\ loop.nr + 1 > 0
        /\ Newest.fpos + Newest.size \in Int /\ pc = "switch" /\ ~loop.do_start_new_interval
    BY <2>1, InSwitch
  <2>3. /\ st \in Locals /\ st.nr > 0
        /\ st.last_x_accesses = loop.last_x_accesses /\ st.curr_stats = loop.curr_stats
        /\ ~st.do_start_new_interval /\ st.interval_start = loop.interval_start
    BY <2>2 DEF Locals
  <2> HIDE DEF st
  <2> QED
    BY <2>1, <2>2, <2>3, GoOn
<1>13. CASE UNCHANGED vars
  <2>1. Latest(1)' = Latest(1) /\ Latest(2)' = Latest(2) /\ Latest(3)' = Latest(3)
        /\ Newest' = Newest
    BY <1>13 DEF vars, Latest, Newest
  <2>2. TypeOK' /\ Ordered' /\ Place' /\ Open' /\ Current'
    BY <1>13, <2>1 DEF vars, Inv, TypeOK, Ordered, Place, Open, Current, Contiguous
  <2>3. Closed' /\ Saved'
    BY <1>13, <2>1 DEF vars, Inv, Closed, Disjoint, Before, Saved, Counted, InOpen, Retaken
  <2> QED
    BY <2>2, <2>3 DEF Inv
<1> QED
  BY <1>1, <1>2, <1>3, <1>4, <1>5, <1>6, <1>7, <1>8, <1>9, <1>10, <1>11, <1>12, <1>13,
     SkipStep, FinishStep DEF Next, Done

-----------------------------------------------------------------------------
(* Every value the loop and the result can take has its type.              *)
THEOREM Typing == Spec => []TypeOK
<1>1. Inv => TypeOK
  BY DEF Inv
<1> QED
  BY <1>1, InitInv, Inductive, PTL DEF Spec

(* The intervals with a pattern never overlap, however many accesses there *)
(* are and wherever they start.                                            *)
THEOREM IntervalsDisjoint == Spec => []Disjoint
<1>1. Inv => Disjoint
  BY DEF Inv, Closed
<1> QED
  BY <1>1, InitInv, Inductive, PTL DEF Spec

(* No access that transfers data is missing from the statistics at the end.*)
THEOREM AllCounted == Spec => []NoneLost
<1>1. Inv => NoneLost
  BY DEF Inv, Saved, InOpen, Retaken, NoneLost
<1> QED
  BY <1>1, InitInv, Inductive, PTL DEF Spec

(* The three latest accesses are never one: the index of the loop is set   *)
(* back at most once for an access.                                        *)
THEOREM SetBackOnce == Spec => []RetakenOnce
<1>1. ASSUME Inv PROVE RetakenOnce
  <2> DEFINE ids == {Latest(j).id : j \in 1 .. 3}
  <2>1. Latest(1).id \in Nat /\ Latest(3).id \in Nat /\ Latest(1).id < Latest(3).id
    BY <1>1, Types DEF Inv, Ordered, Indices
  <2>2. IsFiniteSet(ids) /\ Cardinality(ids) \in Nat
    <3>1. \A x, y, z : IsFiniteSet(({x} \cup {y}) \cup {z})
      <4> SUFFICES ASSUME NEW x, NEW y, NEW z PROVE IsFiniteSet(({x} \cup {y}) \cup {z})
        OBVIOUS
      <4>1. IsFiniteSet({x})
        BY FS_Singleton
      <4>2. IsFiniteSet({x} \cup {y})
        BY <4>1, FS_AddElement
      <4> QED
        BY <4>2, FS_AddElement
    <3>2. ids = ({Latest(1).id} \cup {Latest(2).id}) \cup {Latest(3).id}
      OBVIOUS
    <3> HIDE DEF ids
    <3>3. IsFiniteSet(ids)
      BY <3>1, <3>2
    <3> QED
      BY <3>3, FS_CardinalityType
  <2>3. {Latest(1).id} \subseteq ids /\ {Latest(1).id} # ids
    BY <2>1
  <2>4. Cardinality({Latest(1).id}) = 1
    BY FS_Singleton
  <2>5. Cardinality(ids) > 1
    <3> HIDE DEF ids
    <3>1. /\ Cardinality({Latest(1).id}) <= Cardinality(ids)
          /\ Cardinality({Latest(1).id}) # Cardinality(ids)
      BY <2>2, <2>3, FS_Subset
    <3> QED
      BY <2>2, <2>4, <3>1
  <2> QED
    BY <2>5 DEF RetakenOnce
<1> QED
  BY <1>1, InitInv, Inductive, PTL DEF Spec
-----------------------------------------------------------------------------
(* Accesses of one pattern p.  Until the end, one interval holds them all. *)
All(p) == n >= Threshold /\ shapes = {p}

Whole(p) ==
  /\ results.patterns = {} /\ results.stats[p] = NoStats
  /\ loop.curr_pattern = p /\ loop.nr > 0 /\ loop.curr_stats = Only(1 .. Newest.id)
  /\ loop.interval_start = 1 /\ ~loop.do_start_new_interval

One(p) ==
  /\ results.patterns = {[from |-> 1, to |-> n, pattern |-> p]}
  /\ results.stats[p] = Only(1 .. n)

(* What the next access, and then the case of the switch, is compared to.  *)
Continues ==
  IF pc = "switch" THEN Contiguous
  ELSE loop.next_fpos_if_contiguous = Newest.fpos + Newest.size

Equidistant ==
  /\ Shape(Latest(1), Latest(2), Latest(3)) = "STRIDED"
  /\ \A j \in 1 .. 3 : Latest(j).size > 0

(* StridedLast checks the interval in before the loop ends.                *)
ContiguousRow ==
  All("CONTIGUOUS") =>
    \/ pc = "done" /\ One("CONTIGUOUS")
    \/ pc = "switch" /\ Whole("CONTIGUOUS") /\ Continues
    \/ pc = "loop" /\ Whole("CONTIGUOUS") /\ Continues /\ i = Newest.id + 1

StridedRow ==
  All("STRIDED") =>
    \/ pc = "done" /\ One("STRIDED")
    \/ pc = "switch" /\ Whole("STRIDED") /\ Equidistant
    \/ pc = "loop" /\ Whole("STRIDED") /\ Equidistant /\ i = Newest.id + 1
    \/ pc = "loop" /\ One("STRIDED") /\ i > n /\ loop.nr = 0


LEMMA Narrow ==
  ASSUME NEW p, [Next]_vars, shapes # {}, All(p)'
  PROVE  All(p)
<1>1. n' = n /\ shapes \subseteq shapes'
  BY DEF Next, Skip, TakeNext, TakeAgain, Take, Onward, ContiguousGoesOn, ContiguousEnds,
         ContiguousBreaks, StridedLast, StridedTurns, StridedGoesOn, StridedBreaks, StridedEnds,
         RandomTurns, RandomGoesOn, Finish, Done, vars
<1> QED
  BY <1>1 DEF All

LEMMA NeverEmpty ==
  ASSUME [Next]_vars, shapes # {}
  PROVE  shapes' # {}
<1>1. shapes \subseteq shapes'
  BY DEF Next, Skip, TakeNext, TakeAgain, Take, Onward, ContiguousGoesOn, ContiguousEnds,
         ContiguousBreaks, StridedLast, StridedTurns, StridedGoesOn, StridedBreaks, StridedEnds,
         RandomTurns, RandomGoesOn, Finish, Done, vars
<1> QED
  BY <1>1

(* The first three accesses.                                               *)
LEMMA Begun ==
  ASSUME Init, n >= Threshold
  PROVE  /\ pc = "loop" /\ i = 4 /\ results.patterns = {}
         /\ results.stats["CONTIGUOUS"] = NoStats /\ results.stats["STRIDED"] = NoStats
         /\ loop.nr = 3 /\ loop.interval_start = 1 /\ ~loop.do_start_new_interval
         /\ loop.curr_stats = Only(1 .. 3) /\ Newest.id = 3
         /\ loop.next_fpos_if_contiguous = Newest.fpos + Newest.size
         /\ loop.curr_pattern = Shape(Latest(1), Latest(2), Latest(3))
         /\ \/ /\ shapes = {loop.curr_pattern}
               /\ \A j \in 1 .. 3 : Latest(j).size \in Sizes
            \/ "NONE" \in shapes
         /\ shapes # {}
<1>1. PICK g \in Gaps, h \in Gaps, s \in [1 .. 3 -> Sizes], meta \in SUBSET (1 .. 3),
           equi \in BOOLEAN :
        LET size(j) == IF j \in meta THEN 0 ELSE s[j]
            a == [id |-> 1, fpos |-> 0, size |-> size(1)]
            b == DataAccess(2, a, IF 2 \in meta THEN 0 ELSE g, size(2))
            c == DataAccess(3, b, IF 3 \in meta THEN 0 ELSE h, size(3))
        IN  /\ loop = [last_x_accesses |-> <<a, b, c>>, nr |-> 3,
                       next_fpos_if_contiguous |-> c.fpos + c.size,
                       interval_start |-> 1, curr_stats |-> Only(1 .. 3),
                       curr_pattern |-> Shape(a, b, c), is_equi_distant |-> equi,
                       do_start_new_interval |-> FALSE]
            /\ shapes = {Shape(a, b, c)} \cup (IF meta = {} THEN {} ELSE {"NONE"})
            /\ kept = (1 .. (IF n < 3 THEN n ELSE 3)) \ meta
  BY DEF Init
<1> DEFINE size(j) == IF j \in meta THEN 0 ELSE s[j]
           a == [id |-> 1, fpos |-> 0, size |-> size(1)]
           b == DataAccess(2, a, IF 2 \in meta THEN 0 ELSE g, size(2))
           c == DataAccess(3, b, IF 3 \in meta THEN 0 ELSE h, size(3))
<1>2. /\ loop = [last_x_accesses |-> <<a, b, c>>, nr |-> 3,
                 next_fpos_if_contiguous |-> c.fpos + c.size,
                 interval_start |-> 1, curr_stats |-> Only(1 .. 3),
                 curr_pattern |-> Shape(a, b, c), is_equi_distant |-> equi,
                 do_start_new_interval |-> FALSE]
      /\ shapes = {Shape(a, b, c)} \cup (IF meta = {} THEN {} ELSE {"NONE"})
  BY <1>1
<1>3. c.id = 3 /\ a.size = size(1) /\ b.size = size(2) /\ c.size = size(3)
  BY DEF DataAccess
<1>4. meta = {} => size(1) \in Sizes /\ size(2) \in Sizes /\ size(3) \in Sizes
  OBVIOUS
<1> HIDE DEF a, b, c, size
<1>5. /\ Latest(1) = a /\ Latest(2) = b /\ Latest(3) = c /\ Newest = c
      /\ loop.nr = 3 /\ loop.interval_start = 1 /\ ~loop.do_start_new_interval
      /\ loop.curr_stats = Only(1 .. 3) /\ loop.next_fpos_if_contiguous = c.fpos + c.size
      /\ loop.curr_pattern = Shape(a, b, c)
  BY <1>2 DEF Latest, Newest
<1>6. results = ShortResult(0) /\ pc = "loop" /\ i = 4
  <2>1. n \in 0 .. MaxAccesses
    BY DEF Init
  <2>2. ~(n < Threshold)
    BY <2>1
  <2> QED
    BY <2>2 DEF Init
<1>7. /\ results.patterns = {}
      /\ results.stats["CONTIGUOUS"] = NoStats /\ results.stats["STRIDED"] = NoStats
  BY <1>6 DEF ShortResult, Patterns
<1>8. \/ /\ shapes = {loop.curr_pattern}
         /\ \A j \in 1 .. 3 : Latest(j).size \in Sizes
      \/ "NONE" \in shapes
  <2>1. CASE meta = {}
    <3>1. \A j \in 1 .. 3 : j = 1 \/ j = 2 \/ j = 3
      OBVIOUS
    <3> QED
      BY <1>2, <1>3, <1>4, <1>5, <2>1, <3>1
  <2>2. CASE meta # {}
    BY <1>2, <2>2
  <2> QED
    BY <2>1, <2>2
<1> QED
  BY <1>2, <1>3, <1>5, <1>6, <1>7, <1>8

(* One access more of an interval that goes on.                            *)
LEMMA TakenInto ==
  ASSUME Inv, NEW io \in Accesses, Take(io), io.id = i, i = Newest.id + 1,
         ~loop.do_start_new_interval, loop.curr_stats = Only(1 .. Newest.id)
  PROVE  /\ Latest(1)' = Latest(2) /\ Latest(2)' = Latest(3) /\ Latest(3)' = io /\ Newest' = io
         /\ loop'.curr_stats = Only(1 .. i) /\ loop'.nr = loop.nr
         /\ loop'.interval_start = loop.interval_start /\ ~loop'.do_start_new_interval
         /\ loop'.curr_pattern = loop.curr_pattern
         /\ loop'.next_fpos_if_contiguous = loop.next_fpos_if_contiguous
         /\ pc' = "switch" /\ i' = i /\ n' = n /\ results' = results
<1> DEFINE stats == Plus(loop.curr_stats, Only({i}))
           three == <<loop.last_x_accesses[2], loop.last_x_accesses[3], io>>
<1>1. loop \in Locals /\ Newest.id \in Nat /\ ~loop.do_start_new_interval
  BY Types DEF Inv, TypeOK, Indices
<1>2. Fresh(io) = loop
  BY DEF Fresh
<1>3. loop' = [loop EXCEPT !.last_x_accesses = three, !.curr_stats = stats]
  BY <1>2 DEF Take
<1>4. stats = Only(1 .. i)
  BY <1>1 DEF Plus, Only, Indices
<1> HIDE DEF stats, three
<1>5. /\ loop'.last_x_accesses = three /\ loop'.curr_stats = stats /\ loop'.nr = loop.nr
      /\ loop'.interval_start = loop.interval_start /\ ~loop'.do_start_new_interval
      /\ loop'.curr_pattern = loop.curr_pattern
      /\ loop'.next_fpos_if_contiguous = loop.next_fpos_if_contiguous
  BY <1>1, <1>3 DEF Locals
<1>6. Latest(1)' = Latest(2) /\ Latest(2)' = Latest(3) /\ Latest(3)' = io /\ Newest' = io
  BY <1>5 DEF Latest, Newest, three
<1> QED
  BY <1>4, <1>5, <1>6 DEF Take

(* The interval that holds all accesses is checked in.                     *)
LEMMA CheckedInWhole ==
  ASSUME NEW p \in Patterns, Inv, Whole(p), Newest.id = n, CheckIn(n, p, loop.curr_stats),
         n' = n
  PROVE  One(p)'
<1>1. results.stats \in [Patterns -> [Indices -> Nat]]
  BY DEF Inv, TypeOK
<1>2. Plus(NoStats, Only(1 .. n)) = Only(1 .. n)
  BY DEF Plus, NoStats, Only
<1>3. results'.patterns = {[from |-> 1, to |-> n, pattern |-> p]}
  BY DEF CheckIn, Whole
<1>4. results'.stats[p] = Plus(NoStats, Only(1 .. n))
  BY <1>1 DEF CheckIn, Whole
<1> QED
  BY <1>2, <1>3, <1>4 DEF One

(* Which step may come.                                                    *)
LEMMA FromLoop ==
  ASSUME Inv, [Next]_vars, pc = "loop", "NONE" \notin shapes'
  PROVE  \/ TakeAgain \/ Finish \/ UNCHANGED vars
         \/ \E gap \in Gaps, size \in Sizes : TakeNext(gap, size)
BY DEF Next, Skip, In, ContiguousGoesOn, ContiguousEnds, ContiguousBreaks, StridedLast,
       StridedTurns, StridedGoesOn, StridedBreaks, StridedEnds, StillStrided, RandomTurns,
       RandomGoesOn, Done

LEMMA FromSwitch ==
  ASSUME [Next]_vars, pc = "switch"
  PROVE  /\ loop.curr_pattern = "CONTIGUOUS" =>
              ContiguousGoesOn \/ ContiguousEnds \/ ContiguousBreaks \/ UNCHANGED vars
         /\ loop.curr_pattern = "STRIDED" =>
              \/ StridedLast \/ StridedTurns \/ StridedGoesOn \/ StridedBreaks
              \/ StridedEnds \/ UNCHANGED vars
BY DEF Next, Skip, In, TakeNext, TakeAgain, Take, Finish, ContiguousGoesOn, ContiguousEnds,
       ContiguousBreaks, StridedLast, StridedTurns, StridedGoesOn, StridedBreaks, StridedEnds,
       StillStrided, RandomTurns, RandomGoesOn, Done

LEMMA FromDone ==
  ASSUME [Next]_vars, pc = "done"
  PROVE  UNCHANGED vars
BY DEF Next, Skip, In, TakeNext, TakeAgain, Take, Finish, ContiguousGoesOn, ContiguousEnds,
       ContiguousBreaks, StridedLast, StridedTurns, StridedGoesOn, StridedBreaks, StridedEnds,
       StillStrided, RandomTurns, RandomGoesOn, Done

LEMMA RowStutters ==
  ASSUME UNCHANGED vars
  PROVE  /\ ContiguousRow => ContiguousRow'
         /\ StridedRow => StridedRow'
<1>1. /\ \A j : Latest(j)' = Latest(j)
      /\ Newest' = Newest /\ (Contiguous' <=> Contiguous)
  BY DEF vars, Latest, Newest, Contiguous
<1> QED
  BY <1>1 DEF vars, ContiguousRow, StridedRow, All, Whole, One, Continues, Equidistant

LEMMA ContiguousKept ==
  ASSUME Inv, shapes # {}, ContiguousRow, [Next]_vars
  PROVE  ContiguousRow'
<1> SUFFICES ASSUME All("CONTIGUOUS")'
             PROVE  \/ pc' = "done" /\ One("CONTIGUOUS")'
                    \/ pc' = "switch" /\ Whole("CONTIGUOUS")' /\ Continues'
                    \/ /\ pc' = "loop" /\ Whole("CONTIGUOUS")' /\ Continues'
                       /\ i' = Newest'.id + 1
  BY DEF ContiguousRow
<1>1. All("CONTIGUOUS")
  BY Narrow
<1>2. /\ TypeOK /\ shapes' = {"CONTIGUOUS"} /\ n >= Threshold
      /\ loop \in Locals /\ Newest = Latest(3) /\ Latest(2) \in Accesses
      /\ Latest(3) \in Accesses /\ Newest.id \in Nat /\ i \in Nat /\ n \in Nat
      /\ n <= MaxAccesses /\ Newest.fpos \in Int /\ Newest.size \in Nat
  <2>1. TypeOK /\ shapes' = {"CONTIGUOUS"} /\ n >= Threshold
    BY <1>1 DEF All, Inv
  <2>2. /\ loop \in Locals /\ n <= MaxAccesses /\ n \in Nat /\ i \in Nat
    BY <2>1 DEF TypeOK
  <2>3. /\ Newest = Latest(3) /\ Latest(2) \in Accesses /\ Latest(3) \in Accesses
        /\ Newest.id \in Indices /\ Newest.fpos \in Int /\ Newest.size \in Nat
    BY <2>1, Types
  <2> QED
    BY <2>1, <2>2, <2>3 DEF Indices
<1>3. CASE UNCHANGED vars
  <2>1. ContiguousRow'
    BY <1>3, RowStutters
  <2> QED
    BY <2>1 DEF ContiguousRow
<1>4. CASE pc = "done"
  BY <1>3, <1>4, FromDone
<1>5. CASE pc = "switch" /\ Whole("CONTIGUOUS") /\ Continues
  <2>1. Contiguous /\ loop.curr_pattern = "CONTIGUOUS"
    BY <1>5 DEF Continues, Whole
  <2>2. ContiguousGoesOn \/ UNCHANGED vars
    BY <1>5, <2>1, FromSwitch DEF ContiguousEnds, ContiguousBreaks
  <2>3. CASE ContiguousGoesOn
    <3> DEFINE end == Newest.fpos + Newest.size
    <3>1. /\ loop' = [loop EXCEPT !.nr = @ + 1, !.next_fpos_if_contiguous = end]
          /\ pc' = "loop" /\ i' = i + 1 /\ n' = n /\ results' = results
      BY <2>3 DEF ContiguousGoesOn, Onward
    <3>2. /\ loop'.last_x_accesses = loop.last_x_accesses
          /\ loop'.curr_stats = loop.curr_stats /\ loop'.nr = loop.nr + 1
          /\ loop'.interval_start = loop.interval_start
          /\ loop'.do_start_new_interval = loop.do_start_new_interval
          /\ loop'.curr_pattern = loop.curr_pattern
          /\ loop'.next_fpos_if_contiguous = end
      <4> HIDE DEF end
      <4> QED
        BY <1>2, <3>1 DEF Locals
    <3>3. Newest' = Newest
      BY <3>2 DEF Newest, Latest
    <3>4. loop.nr + 1 > 0
      BY <1>2, Types
    <3>5. Newest.id = i
      BY <1>5 DEF Inv, Place
    <3>6. Whole("CONTIGUOUS")'
      BY <1>5, <3>1, <3>2, <3>3, <3>4 DEF Whole
    <3>7. Continues'
      BY <3>1, <3>2, <3>3 DEF Continues
    <3> QED
      BY <3>1, <3>3, <3>5, <3>6, <3>7
  <2> QED
    BY <1>3, <2>2, <2>3
<1>6. CASE pc = "loop" /\ Whole("CONTIGUOUS") /\ Continues /\ i = Newest.id + 1
  <2>1. "NONE" \notin shapes'
    BY <1>2
  <2>2. ~TakeAgain
    BY <1>2, <1>6 DEF TakeAgain
  <2>3. CASE Finish
    <3>1. /\ i > n /\ i <= n + 1 /\ loop.nr > 0 /\ loop.curr_pattern = "CONTIGUOUS"
          /\ n' = n /\ pc' = "done" /\ CheckIn(Newest.id, loop.curr_pattern, loop.curr_stats)
      BY <1>6, <2>3 DEF Finish, Whole, Inv, Place
    <3>2. Newest.id = n
      BY <1>2, <1>6, <3>1
    <3>3. One("CONTIGUOUS")'
      BY <1>6, <3>1, <3>2, CheckedInWhole DEF Patterns
    <3> QED
      BY <3>1, <3>3
  <2>4. ASSUME NEW gap \in Gaps, NEW size \in Sizes, TakeNext(gap, size)
        PROVE  pc' = "switch" /\ Whole("CONTIGUOUS")' /\ Continues'
    <3> DEFINE io == DataAccess(i, Newest, gap, size)
    <3>1. /\ Take(io) /\ i <= n /\ shapes' = shapes \cup {Shape(Latest(2), Latest(3), io)}
      BY <2>4 DEF TakeNext, Take
    <3>2. io \in Accesses /\ io.id = i
      <4>1. i \in Indices /\ Newest.fpos + Newest.size + gap \in Int /\ size \in Nat
        BY <1>2, <1>6, <3>1 DEF Indices
      <4> QED
        BY <4>1 DEF DataAccess, Accesses
    <3>3. Shape(Latest(2), Latest(3), io) = "CONTIGUOUS"
      BY <1>2, <3>1
    <3>4. Newest.fpos + Newest.size = io.fpos
      <4> HIDE DEF io
      <4> QED
        BY <1>2, <3>3 DEF Shape
    <3> HIDE DEF io
    <3>5. ~loop.do_start_new_interval /\ loop.curr_stats = Only(1 .. Newest.id)
      BY <1>6 DEF Whole
    <3>6. /\ Newest' = io /\ loop'.curr_stats = Only(1 .. i) /\ loop'.nr = loop.nr
          /\ loop'.interval_start = loop.interval_start /\ ~loop'.do_start_new_interval
          /\ loop'.curr_pattern = loop.curr_pattern
          /\ loop'.next_fpos_if_contiguous = loop.next_fpos_if_contiguous
          /\ pc' = "switch" /\ i' = i /\ n' = n /\ results' = results
      BY <1>6, <3>1, <3>2, <3>5, TakenInto
    <3>7. Whole("CONTIGUOUS")'
      BY <1>6, <3>2, <3>6 DEF Whole
    <3>8. Contiguous'
      BY <1>6, <3>4, <3>6 DEF Contiguous, Continues
    <3> QED
      BY <3>6, <3>7, <3>8 DEF Continues
  <2> QED
    BY <1>3, <1>6, <2>1, <2>2, <2>3, <2>4, FromLoop
<1> QED
  BY <1>1, <1>4, <1>5, <1>6 DEF ContiguousRow

(* In the order in which the ring buffer is handed over, equidistant       *)
(* accesses of at least a byte never look contiguous.                      *)
LEMMA NeverContiguous ==
  ASSUME Inv, Equidistant
  PROVE  LivePattern # "CONTIGUOUS" /\ SameDistance
<1> DEFINE x == Latest(1)
           y == Latest(2)
           z == Latest(3)
<1>1. /\ x.fpos \in Int /\ x.size \in Nat /\ y.fpos \in Int /\ y.size \in Nat
      /\ z.fpos \in Int /\ z.size \in Nat /\ Newest = z
  BY Types DEF Inv
<1>2. x.size > 0 /\ z.size > 0
  BY DEF Equidistant
<1>3. Shape(x, y, z) = "STRIDED"
  BY DEF Equidistant
<1> HIDE DEF x, y, z
<1>4. y.fpos - x.fpos = z.fpos - y.fpos
  BY <1>3 DEF Shape
<1>5. Shape(z, x, y) # "CONTIGUOUS"
  <2>1. ~(z.fpos + z.size = x.fpos /\ x.fpos + x.size = y.fpos)
    BY <1>1, <1>2, <1>4
  <2> QED
    BY <2>1 DEF Shape
<1> QED
  BY <1>1, <1>4, <1>5 DEF LivePattern, SameDistance, x, y, z

LEMMA StridedKept ==
  ASSUME Inv, shapes # {}, StridedRow, [Next]_vars, 0 \notin Sizes
  PROVE  StridedRow'
<1> SUFFICES ASSUME All("STRIDED")'
             PROVE  \/ pc' = "done" /\ One("STRIDED")'
                    \/ pc' = "switch" /\ Whole("STRIDED")' /\ Equidistant'
                    \/ /\ pc' = "loop" /\ Whole("STRIDED")' /\ Equidistant'
                       /\ i' = Newest'.id + 1
                    \/ pc' = "loop" /\ One("STRIDED")' /\ i' > n' /\ loop'.nr = 0
  BY DEF StridedRow
<1>1. All("STRIDED")
  BY Narrow
<1>2. /\ TypeOK /\ shapes' = {"STRIDED"} /\ n >= Threshold
      /\ loop \in Locals /\ Newest = Latest(3) /\ Latest(2) \in Accesses
      /\ Latest(3) \in Accesses /\ Newest.id \in Nat /\ i \in Nat /\ n \in Nat
      /\ n <= MaxAccesses /\ Newest.fpos \in Int /\ Newest.size \in Nat
  <2>1. TypeOK /\ shapes' = {"STRIDED"} /\ n >= Threshold
    BY <1>1 DEF All, Inv
  <2>2. /\ loop \in Locals /\ n <= MaxAccesses /\ n \in Nat /\ i \in Nat
    BY <2>1 DEF TypeOK
  <2>3. /\ Newest = Latest(3) /\ Latest(2) \in Accesses /\ Latest(3) \in Accesses
        /\ Newest.id \in Indices /\ Newest.fpos \in Int /\ Newest.size \in Nat
    BY <2>1, Types
  <2> QED
    BY <2>1, <2>2, <2>3 DEF Indices
<1>3. CASE UNCHANGED vars
  <2>1. StridedRow'
    BY <1>3, RowStutters
  <2> QED
    BY <2>1 DEF StridedRow
<1>4. CASE pc = "done"
  BY <1>3, <1>4, FromDone
<1>5. CASE pc = "switch" /\ Whole("STRIDED") /\ Equidistant
  <2>1. /\ loop.curr_pattern = "STRIDED" /\ LivePattern # "CONTIGUOUS" /\ SameDistance
        /\ Newest.id = i
    BY <1>5, NeverContiguous DEF Whole, Inv, Place
  <2>2. StridedLast \/ StridedGoesOn \/ UNCHANGED vars
    BY <1>5, <2>1, FromSwitch DEF StridedTurns, StridedBreaks, StridedEnds
  <2>3. CASE StridedLast
    <3>1. /\ i = n /\ CheckIn(i, "STRIDED", loop.curr_stats) /\ n' = n /\ pc' = "loop"
          /\ i' = i + 1 /\ loop' = [loop EXCEPT !.nr = 0]
      BY <2>3 DEF StridedLast, Onward
    <3>2. One("STRIDED")'
      BY <1>5, <2>1, <3>1, CheckedInWhole DEF Patterns
    <3>3. loop'.nr = 0
      BY <1>2, <3>1 DEF Locals
    <3> QED
      BY <1>2, <3>1, <3>2, <3>3
  <2>4. CASE StridedGoesOn
    <3>1. /\ loop' = [loop EXCEPT !.is_equi_distant = TRUE, !.nr = @ + 1]
          /\ pc' = "loop" /\ i' = i + 1 /\ n' = n /\ results' = results
      BY <2>4 DEF StridedGoesOn, Onward
    <3>2. /\ loop'.last_x_accesses = loop.last_x_accesses
          /\ loop'.curr_stats = loop.curr_stats /\ loop'.nr = loop.nr + 1
          /\ loop'.interval_start = loop.interval_start
          /\ loop'.do_start_new_interval = loop.do_start_new_interval
          /\ loop'.curr_pattern = loop.curr_pattern
      BY <1>2, <3>1 DEF Locals
    <3>3. Newest' = Newest /\ \A j : Latest(j)' = Latest(j)
      BY <3>2 DEF Newest, Latest
    <3>4. loop.nr + 1 > 0
      BY <1>2, Types
    <3>5. Whole("STRIDED")'
      BY <1>5, <3>1, <3>2, <3>3, <3>4 DEF Whole
    <3>6. Equidistant'
      BY <1>5, <3>3 DEF Equidistant
    <3> QED
      BY <2>1, <3>1, <3>3, <3>5, <3>6
  <2> QED
    BY <1>3, <2>2, <2>3, <2>4
<1>6. CASE pc = "loop" /\ Whole("STRIDED") /\ Equidistant /\ i = Newest.id + 1
  <2>1. "NONE" \notin shapes'
    BY <1>2
  <2>2. ~TakeAgain
    BY <1>2, <1>6 DEF TakeAgain
  <2>3. CASE Finish
    <3>1. /\ i > n /\ i <= n + 1 /\ loop.nr > 0 /\ loop.curr_pattern = "STRIDED"
          /\ n' = n /\ pc' = "done" /\ CheckIn(Newest.id, loop.curr_pattern, loop.curr_stats)
      BY <1>6, <2>3 DEF Finish, Whole, Inv, Place
    <3>2. Newest.id = n
      BY <1>2, <1>6, <3>1
    <3>3. One("STRIDED")'
      BY <1>6, <3>1, <3>2, CheckedInWhole DEF Patterns
    <3> QED
      BY <3>1, <3>3
  <2>4. ASSUME NEW gap \in Gaps, NEW size \in Sizes, TakeNext(gap, size)
        PROVE  pc' = "switch" /\ Whole("STRIDED")' /\ Equidistant'
    <3> DEFINE io == DataAccess(i, Newest, gap, size)
    <3>1. /\ Take(io) /\ i <= n /\ shapes' = shapes \cup {Shape(Latest(2), Latest(3), io)}
      BY <2>4 DEF TakeNext, Take
    <3>2. io \in Accesses /\ io.id = i /\ io.size > 0
      <4>1. /\ i \in Indices /\ Newest.fpos + Newest.size + gap \in Int
            /\ size \in Nat /\ size > 0
        BY <1>2, <1>6, <3>1 DEF Indices
      <4> QED
        BY <4>1 DEF DataAccess, Accesses
    <3>3. Shape(Latest(2), Latest(3), io) = "STRIDED"
      BY <1>2, <3>1
    <3> HIDE DEF io
    <3>4. ~loop.do_start_new_interval /\ loop.curr_stats = Only(1 .. Newest.id)
      BY <1>6 DEF Whole
    <3>5. /\ Latest(1)' = Latest(2) /\ Latest(2)' = Latest(3) /\ Latest(3)' = io
          /\ Newest' = io /\ loop'.curr_stats = Only(1 .. i) /\ loop'.nr = loop.nr
          /\ loop'.interval_start = loop.interval_start /\ ~loop'.do_start_new_interval
          /\ loop'.curr_pattern = loop.curr_pattern
          /\ pc' = "switch" /\ i' = i /\ n' = n /\ results' = results
      BY <1>6, <3>1, <3>2, <3>4, TakenInto
    <3>6. Whole("STRIDED")'
      BY <1>6, <3>2, <3>5 DEF Whole
    <3>7. Equidistant'
      <4>1. Latest(2).size > 0 /\ Latest(3).size > 0
        BY <1>6 DEF Equidistant
      <4> SUFFICES /\ Shape(Latest(1)', Latest(2)', Latest(3)') = "STRIDED"
                   /\ \A j \in 1 .. 3 : Latest(j)'.size > 0
        BY DEF Equidistant
      <4>2. \A j \in 1 .. 3 : j = 1 \/ j = 2 \/ j = 3
        OBVIOUS
      <4> QED
        BY <3>2, <3>3, <3>5, <4>1, <4>2
    <3> QED
      BY <3>5, <3>6, <3>7
  <2> QED
    BY <1>3, <1>6, <2>1, <2>2, <2>3, <2>4, FromLoop
<1>7. CASE pc = "loop" /\ One("STRIDED") /\ i > n /\ loop.nr = 0
  <2>1. "NONE" \notin shapes'
    BY <1>2
  <2>2. ~TakeAgain /\ \A gap \in Gaps, size \in Sizes : ~TakeNext(gap, size)
    <3>1. ~(i <= n)
      BY <1>2, <1>7
    <3> QED
      BY <3>1 DEF TakeAgain, TakeNext, Take
  <2>3. CASE Finish
    <3>1. pc' = "done" /\ n' = n /\ results' = results
      BY <1>7, <2>3 DEF Finish
    <3> QED
      BY <1>7, <3>1 DEF One
  <2> QED
    BY <1>3, <1>7, <2>1, <2>2, <2>3, FromLoop
<1> QED
  BY <1>1, <1>4, <1>5, <1>6, <1>7 DEF StridedRow

RowsHold == shapes # {} /\ ContiguousRow /\ (0 \notin Sizes => StridedRow)

LEMMA RowsBegin == Init => RowsHold
<1> SUFFICES ASSUME Init PROVE RowsHold
  OBVIOUS
<1>1. shapes # {}
  BY DEF Init
<1>2. CASE n >= Threshold
  <2>1. /\ pc = "loop" /\ i = Newest.id + 1
        /\ loop.next_fpos_if_contiguous = Newest.fpos + Newest.size
        /\ results.patterns = {} /\ loop.nr > 0 /\ loop.curr_stats = Only(1 .. Newest.id)
        /\ loop.interval_start = 1 /\ ~loop.do_start_new_interval
        /\ results.stats["CONTIGUOUS"] = NoStats /\ results.stats["STRIDED"] = NoStats
    <3>1. /\ pc = "loop" /\ i = 4 /\ Newest.id = 3 /\ loop.nr = 3
          /\ loop.next_fpos_if_contiguous = Newest.fpos + Newest.size
          /\ loop.interval_start = 1 /\ ~loop.do_start_new_interval
      BY <1>2, Begun
    <3>2. results.patterns = {} /\ loop.curr_stats = Only(1 .. 3)
      BY <1>2, Begun
    <3>3. results.stats["CONTIGUOUS"] = NoStats /\ results.stats["STRIDED"] = NoStats
      BY <1>2, Begun
    <3>4. i = Newest.id + 1 /\ loop.nr > 0
      BY <3>1
    <3> QED
      BY <3>1, <3>2, <3>3, <3>4
  <2>2. ASSUME NEW p, p # "NONE", shapes = {p}
        PROVE  /\ loop.curr_pattern = p /\ Shape(Latest(1), Latest(2), Latest(3)) = p
               /\ \A j \in 1 .. 3 : Latest(j).size \in Sizes
    BY <1>2, <2>2, Begun
  <2>3. ContiguousRow
    BY <2>1, <2>2 DEF ContiguousRow, All, Whole, Continues
  <2>4. ASSUME 0 \notin Sizes, shapes = {"STRIDED"} PROVE Equidistant
    <3>1. \A s \in Sizes : s > 0
      BY <2>4
    <3> QED
      BY <2>2, <2>4, <3>1 DEF Equidistant
  <2>5. 0 \notin Sizes => StridedRow
    BY <2>1, <2>2, <2>4 DEF StridedRow, All, Whole
  <2> QED
    BY <1>1, <2>3, <2>5 DEF RowsHold
<1>3. CASE ~(n >= Threshold)
  BY <1>1, <1>3 DEF ContiguousRow, StridedRow, All, RowsHold
<1> QED
  BY <1>2, <1>3

LEMMA RowsKept == Inv /\ RowsHold /\ [Next]_vars => RowsHold'
<1> SUFFICES ASSUME Inv, RowsHold, [Next]_vars PROVE RowsHold'
  OBVIOUS
<1>1. shapes' # {} /\ ContiguousRow'
  BY NeverEmpty, ContiguousKept DEF RowsHold
<1>2. ASSUME 0 \notin Sizes PROVE StridedRow'
  BY <1>2, StridedKept DEF RowsHold
<1> QED
  BY <1>1, <1>2 DEF RowsHold

LEMMA Rows == Spec => []RowsHold
<1>1. Spec => []Inv
  BY InitInv, Inductive, PTL DEF Spec
<1> QED
  BY <1>1, RowsBegin, RowsKept, PTL DEF Spec

(* Contiguous accesses, any number of at least three, are one contiguous   *)
(* interval that counts each of them once.                                 *)
THEOREM ContiguousOnly == Spec => []PureOf("CONTIGUOUS")
<1>1. RowsHold => PureOf("CONTIGUOUS")
  BY DEF RowsHold, ContiguousRow, PureOf, All, One
<1> QED
  BY <1>1, Rows, PTL

(* So are strided ones, if each transfers at least a byte: the three       *)
(* latest are compared in the order newest, oldest, middle, in which two   *)
(* empty accesses at the position of a third look contiguous.              *)
THEOREM StridedOnly == 0 \notin Sizes => (Spec => []Pure)
<1> SUFFICES ASSUME 0 \notin Sizes PROVE Spec => []Pure
  OBVIOUS
<1>1. RowsHold => Pure
  BY DEF RowsHold, ContiguousRow, StridedRow, Pure, PureOf, All, One
<1> QED
  BY <1>1, Rows, PTL
=============================================================================
