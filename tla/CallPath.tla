------------------------------ MODULE CallPath ------------------------------
(***************************************************************************)
(* Collecting a call-path profile from the events of one location after    *)
(* the other: the callbacks handle_enter, handle_leave, handle_metric and  *)
(* the message callbacks (OTF2Reader.cpp) and tree_node::add_data          *)
(* (data_tree.cpp).  All of them work on a stack, a tree and a pending     *)
(* metric that are static, that is, shared by all locations of a rank.     *)
(*                                                                         *)
(* The trace is not fixed: the events come in any order a trace can hold   *)
(* them, timestamps never decreasing.  A node of the tree is its path, the *)
(* sequence of the regions on the way to it.                               *)
(***************************************************************************)
EXTENDS Integers, Sequences, FiniteSets, Sums

CONSTANTS
  Regions,        \* the regions of the trace
  NumLocs,        \* locations, read in the order 1 .. NumLocs
  HasMetric,      \* does the trace hold a (synchronous, strict) metric?
  MetricTypes,    \* the types that metric may have
  MayTruncate,    \* can the events of a location end inside a region?
  MaxDepth,       \* bound: nesting of regions
  MaxEvents,      \* bound: enter, message and collective events in all locations
  Deltas          \* time that may pass before an event

ASSUME CallPathAssumption ==
  /\ IsFiniteSet(Regions)
  /\ NumLocs \in Nat \ {0} /\ MaxDepth \in Nat \ {0}
  /\ MaxEvents \in Nat
  /\ Deltas \subseteq Nat
  /\ HasMetric \in BOOLEAN /\ MayTruncate \in BOOLEAN

ASSUME MetricTypesAssumption == MetricTypes \subseteq {"UINT64", "INT64", "DOUBLE"}

Locs == 1 .. NumLocs
Paths == UNION {[1 .. d -> Regions] : d \in 1 .. MaxDepth}
Cells == Paths \X Locs
NoLoc == 0
NoValue == -1

VARIABLES
  loc,         \* the location whose events are being read
  node_stack,  \* the open regions, the innermost first: node, time, child_incl
  present,     \* the cells (node, location) that have an entry in node_data
  f_data,      \* cell -> its FunctionData
  metric,      \* cell -> its MetricData (one metric)
  metric_type, \* its type, the same in all of the trace
  metered,     \* the cells whose metrics map holds the metric
  m_data,      \* cell -> number of messages in m_data
  c_data,      \* cell -> number of records in c_data
  callers,     \* <<region, caller>> -> parent_regions_by_callcount
  has_p2p,     \* the nodes with has_p2p set
  has_collop,  \* the nodes with has_collop set
  last_loc,    \* node -> the location its last_data points to
  tmp_metric,  \* the value handle_metric left behind, or NoValue
  clock,       \* timestamp of the latest event
  paired,      \* has the event a metric was recorded for not come yet?
  events,      \* enter, message and collective events so far
  self,        \* history: cell -> time that passed with the node innermost
  cut          \* history: locations whose events ended inside a region

(* What point-to-point messages and collectives leave in the tree.         *)
comm == <<m_data, c_data, has_p2p, has_collop>>
vars == <<loc, node_stack, present, f_data, metric, metric_type, metered, comm, callers,
          last_loc, tmp_metric, clock, paired, events, self, cut>>

Frames == [node : Paths, time : Nat, child_incl : Nat]

TypeOK ==
  /\ loc \in 1 .. NumLocs + 1
  /\ node_stack \in Seq(Frames) /\ Len(node_stack) <= MaxDepth
  /\ present \subseteq Cells
  /\ f_data \in [Cells -> [count : Nat, incl : Nat, excl : Nat]]
  /\ metric \in [Cells -> [incl : Int, excl : Int]]
  /\ metric_type \in MetricTypes
  /\ metered \subseteq Cells
  /\ m_data \in [Cells -> Nat] /\ c_data \in [Cells -> Nat]
  /\ callers \in [Regions \X Regions -> Nat]
  /\ has_p2p \subseteq Paths /\ has_collop \subseteq Paths
  /\ last_loc \in [Paths -> Locs \cup {NoLoc}]
  /\ tmp_metric \in Nat \cup {NoValue}
  /\ clock \in Nat /\ paired \in BOOLEAN /\ events \in 0 .. MaxEvents
  /\ self \in [Cells -> Nat]
  /\ cut \subseteq Locs

-----------------------------------------------------------------------------
Top == Head(node_stack)
Idle == node_stack = <<>>
ParentOf(p) == SubSeq(p, 1, Len(p) - 1)
RegionOf(p) == p[Len(p)]

(* Slip for the mutation runs: last_data is used whatever last_loc is.     *)
AddFunctionStale(p, f) ==
  LET cell == <<p, IF last_loc[p] = NoLoc THEN loc ELSE last_loc[p]>>
  IN  /\ f_data' = [f_data EXCEPT ![cell] =
                      [count |-> @.count + f.count, incl |-> @.incl + f.incl,
                       excl |-> @.excl + f.excl]]
      /\ present' = present \cup {cell}
      /\ last_loc' = [last_loc EXCEPT ![p] = cell[2]]

(* Slip: the entry is found but not remembered.                            *)
AddFunctionForgets(p, f) ==
  LET cell == <<p, loc>>
  IN  /\ f_data' = [f_data EXCEPT ![cell] =
                      [count |-> @.count + f.count, incl |-> @.incl + f.incl,
                       excl |-> @.excl + f.excl]]
      /\ present' = present \cup {cell}
      /\ UNCHANGED last_loc

(* tree_node::add_data: last_data is used when last_loc is the location,   *)
(* otherwise the entry is looked up or inserted and remembered.            *)
AddFunction(p, f) ==
  LET cell == <<p, loc>>
  IN  /\ f_data' = [f_data EXCEPT ![cell] =
                      [count |-> @.count + f.count, incl |-> @.incl + f.incl,
                       excl |-> @.excl + f.excl]]
      /\ present' = present \cup {cell}
      /\ last_loc' = [last_loc EXCEPT ![p] = loc]

(* An event of the current location, d after the one before it.  A trace   *)
(* with a strict metric has a metric event right before, and at the time   *)
(* of, every enter and leave.                                              *)
Event(d) ==
  /\ loc \in Locs
  /\ clock' = clock + d
  /\ self' = IF Idle THEN self
             ELSE [self EXCEPT ![<<Top.node, loc>>] = @ + d]

Paired(d) ==
  /\ HasMetric => paired
  /\ paired => d = 0
  /\ paired' = FALSE

(* Slip: the parent hears of a leave only.                                 *)
MeterLeaves(p, sign) ==
  LET cell == <<p, loc>>
      up == <<ParentOf(p), last_loc[ParentOf(p)]>>
      own == [metric EXCEPT ![cell].incl = @ + sign * tmp_metric]
  IN  IF tmp_metric = NoValue
      THEN UNCHANGED <<metric, metered, tmp_metric>>
      ELSE /\ metric' = IF Len(p) = 1 \/ sign = -1 THEN own
                        ELSE [own EXCEPT ![up].excl = @ - sign * tmp_metric]
           /\ metered' = metered \cup {cell}
           /\ tmp_metric' = NoValue

(* Slip: the value at the enter is dropped.                                *)
MeterAtLeave(p, sign) ==
  LET cell == <<p, loc>>
      up == <<ParentOf(p), last_loc[ParentOf(p)]>>
      own == [metric EXCEPT ![cell].incl = @ + tmp_metric]
  IN  IF tmp_metric = NoValue \/ sign = -1
      THEN tmp_metric' = NoValue /\ UNCHANGED <<metric, metered>>
      ELSE /\ metric' = IF Len(p) = 1 THEN own
                        ELSE [own EXCEPT ![up].excl = @ - tmp_metric]
           /\ metered' = metered \cup {cell}
           /\ tmp_metric' = NoValue

(* Slip: tmp_metric is not cleared, so that no further value is inserted.  *)
MeterKeeps(p, sign) ==
  LET cell == <<p, loc>>
      up == <<ParentOf(p), last_loc[ParentOf(p)]>>
      own == [metric EXCEPT ![cell].incl = @ + sign * tmp_metric]
  IN  IF tmp_metric = NoValue
      THEN UNCHANGED <<metric, metered, tmp_metric>>
      ELSE /\ metric' = IF Len(p) = 1 THEN own
                        ELSE [own EXCEPT ![up].excl = @ - sign * tmp_metric]
           /\ metered' = metered \cup {cell}
           /\ UNCHANGED tmp_metric

(* The metric part of handle_enter (sign -1) and handle_leave (sign 1):    *)
(* the value goes to the inclusive value of the node, and with the other   *)
(* sign to the exclusive value of its parent, in the parent's last_data.   *)
(* A MetricData built from an event has exclusive value 0, so the          *)
(* exclusive value of the node itself is left as it is.  (Numbers are      *)
(* added modulo 2^64 or with a sign; values that large are left out.)      *)
Meter(p, sign) ==
  LET cell == <<p, loc>>
      up == <<ParentOf(p), last_loc[ParentOf(p)]>>
      own == [metric EXCEPT ![cell].incl = @ + sign * tmp_metric]
  IN  IF tmp_metric = NoValue
      THEN UNCHANGED <<metric, metered, tmp_metric>>
      ELSE /\ metric' = IF Len(p) = 1 THEN own
                        ELSE [own EXCEPT ![up].excl = @ - sign * tmp_metric]
           /\ metered' = metered \cup {cell}
           /\ tmp_metric' = NoValue

-----------------------------------------------------------------------------
Init ==
  /\ loc = 1
  /\ node_stack = <<>>
  /\ present = {}
  /\ f_data = [c \in Cells |-> [count |-> 0, incl |-> 0, excl |-> 0]]
  /\ metric = [c \in Cells |-> [incl |-> 0, excl |-> 0]]
  /\ metric_type \in MetricTypes
  /\ metered = {}
  /\ m_data = [c \in Cells |-> 0] /\ c_data = [c \in Cells |-> 0]
  /\ callers = [c \in Regions \X Regions |-> 0]
  /\ has_p2p = {} /\ has_collop = {}
  /\ last_loc = [p \in Paths |-> NoLoc]
  /\ tmp_metric = NoValue
  /\ clock = 0
  /\ paired = FALSE
  /\ events = 0
  /\ self = [c \in Cells |-> 0]
  /\ cut = {}

(* What a MetricData takes over from an event.  handle_metric builds it    *)
(* from a type, an unsigned and a signed number, so that a metric of type  *)
(* DOUBLE has the constructor's default as its d, which is 0.0.            *)
Recorded(value) == IF metric_type = "DOUBLE" THEN 0 ELSE value

(* The metric grows as the clock does.  map::insert keeps a value that an  *)
(* earlier location left behind.                                           *)
HandleMetric(d) ==
  /\ HasMetric /\ ~paired
  /\ ~Idle \/ events < MaxEvents
  /\ Event(d)
  /\ tmp_metric' = IF tmp_metric = NoValue THEN Recorded(clock') ELSE tmp_metric
  /\ paired' = TRUE
  /\ UNCHANGED <<loc, node_stack, present, f_data, metric, metered, comm,
                 callers, last_loc, events, cut>>

(* Slip: looked up after the region has been pushed.                       *)
CountCallPushed(region) ==
  IF Idle THEN callers ELSE [callers EXCEPT ![<<region, region>>] = @ + 1]

(* parent_regions_by_callcount: the region was called from the one that is *)
(* innermost so far.                                                       *)
CountCall(region) ==
  IF Idle THEN callers
  ELSE [callers EXCEPT ![<<region, RegionOf(Top.node)>>] = @ + 1]

HandleEnter(d, region) ==
  LET p == IF Idle THEN <<region>> ELSE Append(Top.node, region)
  IN  /\ Len(p) <= MaxDepth /\ events < MaxEvents
      /\ Event(d) /\ Paired(d)
      /\ AddFunction(p, [count |-> 0, incl |-> 0, excl |-> 0])
      /\ Meter(p, -1)
      /\ node_stack' = <<[node |-> p, time |-> clock', child_incl |-> 0]>> \o node_stack
      /\ events' = events + 1
      /\ callers' = CountCall(region)
      /\ UNCHANGED <<loc, comm, cut>>

SelfTime(incl_time) == incl_time - Top.child_incl

(* Slip: the caller is not told.                                           *)
ChargeNobody(rest, incl_time) == rest

(* Slip: the caller is charged with a time stamp, not with a duration.     *)
ChargeStamp(rest, incl_time) ==
  IF rest = <<>> THEN rest ELSE [rest EXCEPT ![1].child_incl = @ + clock']

(* The caller learns how long its call took.                               *)
ChargeCaller(rest, incl_time) ==
  IF rest = <<>> THEN rest ELSE [rest EXCEPT ![1].child_incl = @ + incl_time]

HandleLeave(d) ==
  /\ ~Idle
  /\ Event(d) /\ Paired(d)
  /\ LET incl_time == clock' - Top.time
     IN  /\ AddFunction(Top.node, [count |-> 1, incl |-> incl_time,
                                   excl |-> SelfTime(incl_time)])
         /\ Meter(Top.node, 1)
         /\ node_stack' = ChargeCaller(Tail(node_stack), incl_time)
  /\ UNCHANGED <<loc, comm, callers, events, cut>>

FlagP2p == has_p2p' = has_p2p \cup {Top.node} /\ UNCHANGED has_collop

(* Slip: the flag of the other kind.                                       *)
FlagCollopMixed == FlagP2p

FlagCollop == has_collop' = has_collop \cup {Top.node} /\ UNCHANGED has_p2p

(* A message or collective of the innermost region, with n records: those  *)
(* go through tree_node::add_data, which remembers the location.           *)
Communicate(d, n) ==
  /\ ~Idle /\ ~paired
  /\ events < MaxEvents /\ events' = events + 1
  /\ Event(d)
  /\ present' = IF n = 0 THEN present ELSE present \cup {<<Top.node, loc>>}
  /\ last_loc' = IF n = 0 THEN last_loc ELSE [last_loc EXCEPT ![Top.node] = loc]
  /\ UNCHANGED <<loc, node_stack, f_data, metric, metered, callers, tmp_metric,
                 paired, cut>>

(* handle_mpi_send, _recv, _isend and _irecv.                              *)
HandleMessage(d) ==
  /\ Communicate(d, 1)
  /\ m_data' = [m_data EXCEPT ![<<Top.node, loc>>] = @ + 1]
  /\ FlagP2p
  /\ UNCHANGED c_data

(* handle_mpi_collective_end: one record for what was sent, if anything    *)
(* was, and one for what was received; the flag is set without any, too.   *)
(* (A barrier is left at once and is no event here.)                       *)
HandleCollective(d, n) ==
  /\ Communicate(d, n)
  /\ c_data' = [c_data EXCEPT ![<<Top.node, loc>>] = @ + n]
  /\ FlagCollop
  /\ UNCHANGED m_data

(* Slip: the stack is not cleared.                                         *)
NextLocationKeeps ==
  /\ loc \in Locs
  /\ MayTruncate \/ (Idle /\ ~paired)
  /\ loc' = loc + 1
  /\ paired' = FALSE
  /\ cut' = IF Idle /\ ~paired THEN cut ELSE cut \cup {loc}
  /\ UNCHANGED <<node_stack, present, f_data, metric, metered, comm, callers,
                 last_loc, tmp_metric, clock, events, self>>

(* readEvents goes on to its next location: node_stack.clear().            *)
NextLocation ==
  /\ loc \in Locs
  /\ MayTruncate \/ (Idle /\ ~paired)
  /\ loc' = loc + 1
  /\ node_stack' = <<>>
  /\ paired' = FALSE
  /\ cut' = IF Idle /\ ~paired THEN cut ELSE cut \cup {loc}
  /\ UNCHANGED <<present, f_data, metric, metered, comm, callers,
                 last_loc, tmp_metric, clock, events, self>>

Done == loc \notin Locs /\ UNCHANGED vars

Next ==
  /\ \/ \E d \in Deltas :
          \/ HandleMetric(d)
          \/ HandleLeave(d)
          \/ HandleMessage(d)
          \/ \E region \in Regions : HandleEnter(d, region)
          \/ \E n \in 0 .. 2 : HandleCollective(d, n)
     \/ NextLocation
     \/ Done
  /\ UNCHANGED metric_type

Spec == Init /\ [][Next]_vars

-----------------------------------------------------------------------------
Below(p) == {q \in Paths : Len(q) >= Len(p) /\ SubSeq(q, 1, Len(p)) = p}
(* Locations that were read to the end of their last region.               *)
Settled == {l \in Locs : l \notin cut /\ (l < loc \/ (l = loc /\ Idle /\ ~paired))}

(* The exclusive time of a call path on a location is the time that passed *)
(* while it was innermost, although it is computed from inclusive times    *)
(* and the child_incl of the frames, however calls nest and repeat.        *)
ExclusiveTimes ==
  \A p \in Paths, l \in Settled : f_data[<<p, l>>].excl = self[<<p, l>>]

(* The inclusive time of a call path is the time that passed in it or in   *)
(* any call path below it.                                                 *)
InclusiveTimes ==
  \A p \in Paths, l \in Settled :
    f_data[<<p, l>>].incl = Total([q \in Below(p) |-> self[<<q, l>>]])

(* The calls counted by region and caller are those counted in the tree.   *)
CallsOf(r, c) ==
  {cell \in Cells : /\ Len(cell[1]) > 1 /\ RegionOf(cell[1]) = r
                   /\ RegionOf(ParentOf(cell[1])) = c}
CallersMatch ==
  Settled = Locs =>
    \A r, c \in Regions :
      callers[<<r, c>>] = Total([cell \in CallsOf(r, c) |-> f_data[cell].count])

(* incl_time - child_incl cannot wrap around: the children of an open      *)
(* region never took longer than the region so far.                        *)
ChildTime ==
  \A i \in DOMAIN node_stack :
    node_stack[i].child_incl <= clock - node_stack[i].time

(* The cache of an open region points to the current location: it is read  *)
(* by the metric part of its children's events without a look at last_loc. *)
CacheCurrent ==
  \A i \in DOMAIN node_stack :
    /\ last_loc[node_stack[i].node] = loc
    /\ <<node_stack[i].node, loc>> \in present

(* The tree of each location is closed towards the root: a location that   *)
(* has data at a call path has data at its caller too, although the tree   *)
(* is shared and an earlier location's events may have ended inside calls. *)
Rooted ==
  \A c \in present :
    Len(c[1]) > 1 => <<ParentOf(c[1]), c[2]>> \in present

(* A node with data of messages or of collectives has the flag of that     *)
(* kind: the reduction packs what is flagged only, each kind by its flag.  *)
MessagesFlagged ==
  \A c \in Cells : /\ m_data[c] > 0 => c[1] \in has_p2p
                   /\ c_data[c] > 0 => c[1] \in has_collop

(* The metric of an open region is in its map of metrics: handle_enter and *)
(* handle_leave of a child read what find() gives without a test.          *)
MetricFound ==
  HasMetric => \A i \in DOMAIN node_stack : <<node_stack[i].node, loc>> \in metered

Children(p) == {q \in Paths : Len(q) > 1 /\ ParentOf(q) = p}

(* The exclusive value of a metric is charged with the inclusive values of *)
(* the calls made there, no more and no less (main_structs.h:148: the      *)
(* inclusive data is subtracted from the exclusive data of the parent),    *)
(* whatever the metric's type, although an enter and a leave each charge   *)
(* it, through the parent's cache, with a value that waited in tmp_metric, *)
(* and although locations before may have left one there.                  *)
ParentCharged ==
  \A p \in Paths, l \in Settled :
    metric[<<p, l>>].excl = -Total([q \in Children(p) |-> metric[<<q, l>>].incl])

(* The inclusive value of an integer metric is what it grew by in the call *)
(* path, which is the inclusive time here.  A value that a location cut    *)
(* short left behind in tmp_metric gets into the outermost calls of later  *)
(* locations only.                                                         *)
MetricGrowth ==
  metric_type # "DOUBLE" =>
    \A c \in metered :
      /\ c[2] \in Settled
      /\ Len(c[1]) > 1 \/ \A k \in cut : c[2] < k
      => metric[c].incl = f_data[c].incl
=============================================================================
