# A TLA+ model of otf2_cli_profile

The program reads an OTF2 trace, builds a call-path profile and I/O statistics
from its events, and writes them as JSON. It runs sequentially or on several MPI
ranks. This directory models how the ranks share the trace, how one rank turns
events into a profile, and how the ranks' profiles become one.

Paths below are relative to the repository; line numbers are those of the files
named.

## 1. The system

| component | code | state | operations | what must hold |
|---|---|---|---|---|
| main program | `src/otf-profiler.cpp` | `AllData` of a rank | parse arguments, read, reduce, write; barriers between the phases; `MPI_Abort` on an error | the phases of different ranks do not overlap where they must not; an error leaves no output; the output is whole |
| work sharing | `readEvents`, `src/reader/OTF2Reader.cpp:1318-1387` | an integer in rank 0's memory (MPI window); per rank `to_read`, `initial`, `result` | compare-and-swap, get, read a location | each location is read by exactly one rank; every rank gets out of the loop |
| call-path collection | callbacks `OTF2Reader.cpp:815-1065`, `src/data_tree.cpp:253-333`, `MetricData` in `include/main_structs.h` | `node_stack`, `tmp_metric`, the tree with per-node caches (`last_loc`, `last_data`), `parent_regions_by_callcount`; all shared by the locations of a rank | enter, leave, metric, send and receive, collective end, next location | times and values in the tree are the times and values that passed; nothing leaks from one location to the next |
| reduction | `src/reduce_data.cpp`, `data_tree.cpp` | the tree with its raw parent pointers; pack buffer; the round | number, pack, send, receive, rebuild, merge, iterate | rank 0 ends with everything; no cyclic wait; no parent pointer into a tree that is gone; the buffer holds what is packed |
| I/O statistics | `OTF2Reader.cpp:219-250, 620-813`, `File` and `IoHandle` in `include/definitions.h` | tables per paradigm, handle and location; file sizes and positions; operations that are open | define, begin, complete, seek, create | the tables account for the same operations; positions and sizes are consistent |
| JSON output | `src/output/create_json.cpp` | none of its own | sum up, write | bytes and times are attributed to what caused them |
| access pattern detection | `src/analysis/access_pattern_detection.cpp` | three recent accesses, counters, current pattern | one pass over the accesses of a handle | intervals cover the accesses; statistics add up |
| definitions, system tree | `OTF2Reader.cpp:394-558`, `SystemTree` in `include/definitions.h:129-392` | the string table; nodes with their level; vectors of nodes by reference; the iterator | define a string, a node, a group, a location; iterate | every node hangs where the trace says; each is counted once |
| reader selection | `src/reader/tracereader.cpp` | none | choose a reader by the file's name | |
| parameters, time measurement | `include/utils.h` | settings, stop watches | parse, start, stop | |
| scripts and report | `scripts/` | none | present the JSON file | |
| build, tests | `CMakeLists.txt`, `tests/` | none | | the macro that is defined is the one that is asked for |

**Interaction.** `main` calls the reader, whose callbacks are called by the OTF2
library, one event at a time, one location after the other; they fill the tree
and the I/O tables in `AllData`. The ranks meet in `MPI_Barrier`s, in the window
of `readEvents`, and in the point-to-point messages of `ReduceData`. At the end
every rank, not only rank 0, calls `CreateJSON`.

**What is hard.** Interleavings of one-sided calls; a reduction over a number of
ranks that is not a power of two, with blocking sends; state that is shared by
all locations of a rank and survives from one to the next; caches that are read
without a look at what they are for; operations that overlap and are matched by
ids; one completion that updates three tables; unsigned differences; all ranks
writing one file; tree nodes that change their owner in a merge; a text in the
string table that is changed by whoever reads it; a loop index that is set back.
`PROJECT.json` lists these under `hazards`, each at its line.
There are no threads, no timeouts or retries and nothing is persisted but the
output, so there are no hazards of those kinds.

**Two branches.** `CMakeLists.txt:160` defines `OTFPROFILER_MPI`, but
`OTF2Reader.cpp:1288` asks for `OTFPROFILE_MPI`. In the parallel program as
built every rank therefore reads *all* locations; the work-sharing branch is in
the source but not in the binary. Both are modelled, and every statement below
says which it is about.

## 2. The modules

| module | models | proved in |
|---|---|---|
| `WorkClaim` | the work-sharing branch, MPI call by MPI call | `WorkClaimProofs` |
| `LocationPool` | what sharing promises: an atomic pool of locations | (implemented: `WorkClaimProofs`) |
| `Reduce` | `ReduceData` on all ranks, with trees as sets of call paths | `ReduceProofs` |
| `TreeTransfer` | how one tree gets into another, node by node: numbering, packing, rebuilding, merging, iterating | `TreeTransferProofs` |
| `CallPath` | the callbacks of enter, leave, metric and message events, `add_data` | `CallPathProofs` |
| `IoEvents` | I/O handles, operations and seeks | `IoEventsProofs` |
| `AccessPattern` | the pass over the accesses of a handle that finds intervals and their patterns | `AccessPatternProofs` |
| `SystemTree` | the definition callbacks, the tree they build, its iterator and the counts of the JSON output | `SystemTreeProofs` |
| `Sums` | sums of natural numbers, for the accounts of `CallPath` and `IoEvents` | (`CallPathProofs`, `IoEventsProofs`) |
| `Profiler` | `main` on all ranks; composes `LocationPool` and `Reduce` | `ProfilerProofs` |
| `MCReduce`, `MCTreeTransfer`, `MCCallPath`, `MCIoEvents`, `MCAccessPattern`, `MCSystemTree`, `MCProfiler` | values of the constants for TLC | |

`Profiler` stands on two other modules: `LocationPool` replaces `WorkClaim` in it,
which `PoolSpec` justifies, and `Reduce` takes part as it is. `Reduce` in turn
takes the transfer of a tree as one step on a set of call paths, which
`RoundTrip` and `MergedUnion` of `TreeTransfer` justify.

Operators whose comment starts with "Slip" are not part of a model: each is a
form of the definition behind it with a plausible programming error, and
`PROJECT.json` (`mutants`) names the property that finds it.

### WorkClaim

A rank's `pc` follows the loop of `readEvents`: `loop` (the swap), `test` (is
`result` the expected value?), `defs` (local definitions, where `readEvents` may
return false: `failed`), `events` (the location's events are read), `next` (the
jump to `initial + 1` after a lost swap). `window` is the integer of rank 0,
`have[r]` the locations rank r has read. The swap and the get each take two
steps: the call, and its effect at rank 0 (`LandCas`, `LandGet`). The code calls
no `MPI_Win_flush` between a call and the use of its result, so MPI allows the
effect at any time before `MPI_Win_unlock_all`. `CompletesAtCall` says whether
the library completes calls before they return. `result` is not initialised
(line 1324); its first value is any.

`Exclusive`: no two ranks claim a location. `NoneSkipped`: when a rank is done,
every location is claimed. `ReadOnce`: no step reads a location again.
`Termination`. `PoolSpec`: with `holder` and `left` as defined at the end of the
module, each step is a step of `LocationPool` or stutters; a location is taken
in the step in which the swap takes effect.

### Reduce

In round 1, 2, 4, ... rank r's peer is `r XOR round`, written with `%` because
`round` is a power of two. The larger of two ranks packs its tree, sends the
sizes (tag 4), then the buffer (tag 5), and is finished; the smaller one
receives, unpacks into a temporary tree and merges. `eager` chooses between
`MPI_Send`s that buffer and ones that wait for the receiver, as MPI allows
both. A tree is a set of nodes, a datum per node and location, and a set of
flags per node. Packing a tree into bytes and back is not the identity and is
modelled by what it does: `Pack` drops message data of nodes that are not
flagged, `Rebuilt` is what becomes of a metric's two values in `unpack`, and
`Merge` keeps the flags of a node that is already there.

`NothingLost`: every collected entry is, at every moment, in a tree that has not
been handed over. `MasterComplete`: when rank 0 leaves, it has all of them.
`OwnKept`: the data a rank has read itself is never replaced by what it
receives. Everybody has read everything in the program as built, so this is what
protects rank 0's output from the two losses on the way (`Pack`, `Rebuilt`).
`Termination`: no cycle of blocking sends and receives. For message data what `MasterComplete` says of entries does not hold (section 5).

### TreeTransfer

One receiver, several senders one after the other, as in the rounds of
`ReduceData`. Here a node is an object: `<<k, p>>` is the one created for path p
out of sender k's message, `<<0, p>>` one the receiver collected itself.
`getting_serial` and `merge_node` are recursive in the code; `frames` is their
stack of calls, `node_stack` and `mapping` are the code's own vectors; `f_data` says
which pairs of a number and a location are packed, in whatever order. `Reach` is the
set of objects one comes to from some roots, from child to child, which is what a
destructor, or the iterator, gets at. `Sizes` and `Room` are the sums of `pack_worker_data`, `Packed` what the packing loops
move `position` by, in words of 8 bytes. `Destroy` is the end of
`unpack_worker_data`, where `tmp_tree` goes with every node that was not moved
into the own tree.

`RoundTrip`: what the receiver rebuilds from numbers is the sender's tree with
its data. `MergedUnion`: a merge is the union of the entries; this and
`RoundTrip` are what `Reduce` takes for granted when its trees are sets of call
paths. `ParentsLive`: the raw parent pointers agree with the maps of children,
so that none leads into a destroyed tree. `VisitedOnce`: the iterator, which
climbs along these pointers, comes to every node once.
`BufferHolds`: what is packed fits what was reserved, on both ranks and after
earlier messages of any size.

### CallPath

A node is its path from a root, `node_stack` the frames with entry time and
`child_incl`, `last_loc` the per-node cache. An event happens `d` after the one
before, for `d` in `Deltas`; `self` is a history variable that records, cell by
cell, for how long a path was innermost. The metric is strict and synchronous,
the case `main_structs.h:60-66` names as the only one that is supported: its
value is the clock, and it comes immediately before each enter and leave.
`MayTruncate` lets the events of a location end inside regions.

`ExclusiveTimes` and `InclusiveTimes` compare the program's arithmetic with
`self`. `ChildTime` is why the unsigned difference in `handle_leave` does not
wrap. `CacheCurrent` is why the metric code may use the parent's `last_data`
without looking at `last_loc`. `Rooted` holds because the stack is cleared
between locations. `MessagesFlagged` is what `Reduce` relies on, for one rank and
for either kind of data with its own flag. `CallersMatch` ties the table of callers
to the tree.

A metric has one type in a trace (`metric_type`). `Recorded` is what a `MetricData`
takes over from an event: nothing, if the type is `DOUBLE` (section 5). The values
at enter and leave go to the node and, with the other sign, to its parent, at four
places of the code; a value waits in `tmp_metric` in between, and may wait there
when a location is cut short, for the next one. `MetricFound`: the parent's map has
the metric whenever a child's event looks it up without a test. `ParentCharged`: the
exclusive value is charged with exactly what the children have as inclusive values,
for every type and also in locations that found a value left behind.
`MetricGrowth`: the inclusive value of an integer metric is what it grew by in the
call path; a value left behind gets into outermost calls of later locations, which
are excepted, and no further.

### IoEvents

A `File` is named by the handle it was first made for, so that two handles share
a size exactly if `file_handle` maps them to the same one. `truth` and `pending`
are history: what the traced program did. The three tables differ on purpose:
the code's loop sets an undefined `bytesResult` to 0 in its first turn
(`OTF2Reader.cpp:717`), so only the first table takes the operation as one
without transfer (`Tables`). `fpos` starts as any value of `Leftovers` because
the constructor does not set it.

`TablesAgree`: each of the three tables adds up to what was done, although ids
recur in other locations after operations that were never completed.
`AccessesCounted`: the list of accesses and the statistics of a handle agree.
`ParadigmTimes`: the table from which `MetaOperationTime` is output has the
right times. `SharedSize`: no access ends behind the size that a seek from the
end starts from, through the same handle or through any two that must point to the
registered `File` (`Sharing`): those without an OTF2 I/O file and the first one of a
file. `DefIoHandle` chooses for each handle whether it has one. `SizeCoversFile`
says it of all handles of a file and does not hold (section 5).

### AccessPattern

`detect_local_access_pattern` is one loop with a switch; each branch of the switch
is an action, and so are the head of the loop (`Skip` for operations without
data, `TakeNext`, `TakeAgain` after `i--`) and the end (`Finish`). The ring buffer
is the sequence `last_x_accesses`, oldest first; it and the other local variables
are the fields of `loop`, the two tables of the result those of `results`. An
access is chosen when the loop comes to it. `curr_stats` and `results.stats` say how often each access is
in them, which is more than the sums of bytes and ticks the code keeps.
`is_equi_distant` starts as either value, because line 92 does not initialise it.
`kept` and `shapes` are history: which accesses transfer data, and which patterns
three consecutive ones ever had.

`Disjoint`: no two intervals overlap. `NoneLost`: every access that transfers
data is in the statistics at the end. `Pure`: if all accesses are contiguous, or
all strided, there is one interval with all of them; for strided ones this needs
that no access is empty (section 5). `RetakenOnce`: `i--` is
executed at most once for an access, which is why the loop ends; it says so by the
three latest accesses never being one and the same. `CountedOnce` does not hold
(section 5).

### SystemTree

A trace is any sequence of definitions in which system tree nodes and groups
come in the order of their references and after their parents, as OTF2 demands.
Strings may be missing (`Interrupt`), locations may have no name, and metric
locations that have none are not taken over. A text is a sequence of words, so
that appending the node's name to the text of its class, which
`handle_def_system_tree_node` does in the string table itself, is visible to the
next definition that uses the string. `nodes` is in the order of `node_id`;
`system_nodes` and `location_grps` are the code's vectors from references to
nodes. The loop of `CreateJSON` is `CountNode`, the iterator's `operator++` is the
rest of it and `Climb`. `trace` is history: what was defined, by kind and
reference.

`ParentAsDefined`: each node hangs below the definition that has its parent's
reference. `CountsComplete`: the loop counts each process and each thread the
trace defined once. `NodesCounted` does not hold (section 5).

### Profiler

`pc` numbers the places in `main`, so that "everybody is in this barrier or
past it" is `>=`. `sharing` is the branch of `readEvents` that was compiled.
With it `LocationPool` stands for the loop, which is sound by `PoolSpec` of
`WorkClaim` if one-sided calls complete when they return; without it a rank
reads all locations in order. Reading may fail at any rank and any time
(`Fail`), which aborts all. `Reduction` is `Reduce` with its variables. The
output file is untouched, empty, or has some rank's content whole or garbled: a
rank that writes what is there already does no harm, other ranks' longer output
may stay behind a shorter one. A rank writes its output in one step, since as built
all write the same bytes, so that overlapping writes differ from this in nothing.

`OutputComplete` (as built): whatever the order of truncating and writing, the
file at the end is whole and has everything. `AbortLeavesNothing`: an aborted
run never touched the file. `MasterHasCalls` (both branches): rank 0 has all
calls when it is past the reduction. `Termination`.

## 3. The runs

| run | module, cfg | expected | checks |
|---|---|---|---|
| `work_claim` | `WorkClaim`, `WorkClaim` | pass | `NoneSkipped Exclusive ReadOnce PoolSpec Termination`; calls complete at once |
| `work_claim_deferred` | `WorkClaim`, `WorkClaimDeferred` | violation | `Exclusive`; calls complete late |
| `reduce` | `MCReduce`, `Reduce` | pass | `NothingLost MasterComplete OwnKept Termination` |
| `tree_transfer` | `MCTreeTransfer`, `TreeTransfer` | pass | `TypeOK RoundTrip MergedUnion ParentsLive VisitedOnce BufferHolds` |
| `call_path` | `MCCallPath`, `CallPath` | pass | `ExclusiveTimes InclusiveTimes ChildTime CacheCurrent Rooted MetricFound ParentCharged MetricGrowth MessagesFlagged CallersMatch` |
| `io_events` | `MCIoEvents`, `IoEvents` | pass | `TypeOK TablesAgree AccessesCounted ParadigmTimes SharedSize` |
| `io_events_size` | `MCIoEvents`, `IoEventsSize` | violation | `SizeCoversFile` |
| `access_pattern` | `MCAccessPattern`, `AccessPattern` | pass | `Disjoint RetakenOnce NoneLost Pure` |
| `access_pattern_once` | `MCAccessPattern`, `AccessPatternOnce` | violation | `CountedOnce` |
| `system_tree` | `MCSystemTree`, `SystemTree` | pass | `ParentAsDefined CountsComplete` |
| `system_tree_nodes` | `MCSystemTree`, `SystemTreeNodes` | violation | `NodesCounted` |
| `profiler` | `MCProfiler`, `Profiler` | pass | `OutputComplete AbortLeavesNothing MasterHasCalls Termination` |

All type invariants are theorems (section 4). Those of `TreeTransfer` and
`IoEvents` are checked by their runs too; no run repeats the others.

To repeat one: `tlc -workers 2 -config Reduce.cfg MCReduce`.

**Bounds, and why they are enough.**

- `work_claim`: 3 ranks, 3 locations, every subset of them unreadable. A rank
  can lose its swap to either of the others, lose twice in a row, and still find
  a location left. Deadlock is not checked: ranks stop when all have finished.
- `reduce`: 5 ranks is the smallest number with a skipped round for a rank that
  is not the last, a tree handed on twice (3 to 2 to 0), and a third round. Each
  of two locations is read by any rank, or both by all; each of the two entries
  is absent, plain or with message data, or both have a metric. One call path:
  the operations on trees treat nodes independently.
- `call_path`: 2 locations, 2 regions, nesting of 2, 4 events besides leaves and
  metrics (`MaxEvents`), 0 or 1 time units between events. That is enough for
  recursion, for repeated calls to one path, for a call that follows another
  below the same caller, and for both locations in the same paths. The metric is
  unsigned or floating-point; a signed one is treated as an unsigned one is.
- `io_events`: 2 handles of one file, each with an OTF2 I/O file or without;
  2 locations with the same 2 matching ids; 4 events (`MaxEvents`). Two
  operations can overlap, or one can be left open and its id recur. All seeks,
  also the unsupported ones (`exit`). The module also checks that `Total` of `Sums`
  is the sum. `io_events_size` is the same instance.
- `access_pattern`: up to 8 accesses. An interval needs 4 to be checked in and the
  next one another 3 to turn into something else, so that two intervals of any
  patterns follow each other, also with a turn (`RandomTurns`, `StridedTurns`)
  between them. A gap of 0 is contiguous, equal gaps are strided, -3 runs
  backwards. One size: the code uses sizes only through where an access ends and,
  in `RandomTurns`, for `is_equi_distant`, which starts as either value anyway. (Two
  sizes, a gap of -4 and seven accesses, where that flag takes both values in
  `RandomTurns`, give the same result in a run 15 times as long.) Size 0 is
  left out because `Pure` does not hold for it (section 5).
- `tree_transfer`: two functions; the receiver and the first sender have any tree
  of two levels, the first sender and the second also some of three, so that
  branches are merged, moved and merged into again at every level, on both sides
  of a node that is there. Data of 0, 1 or 2 locations per node, some with and
  some without flags. No metrics: for each of them `pack_worker_data` reserves 7
  words and packs 6, and this slack would hide a shortage anywhere else.
- `system_tree`: 6 definitions below one root (`MaxNodes`, `MaxRoots`): a root, two
  more system nodes, and groups and locations below either, in every order, so
  that the iteration climbs two levels to a sibling. A class that is a node, one
  that is none, a name, the empty name. `system_tree_nodes`: 4, of which two are
  of one class.
- `profiler`: 5 ranks, 2 locations, both branches; a middle rank merges before it
  sends, rank 4 skips rounds, and ranks may have nothing to contribute.

**Fairness.** `WorkClaim`, `Reduce` and `Profiler` assume weak fairness of each
rank's next step: ranks are processes of their own, and nothing they wait for
is taken back (a message that has arrived stays, a barrier that is complete
stays complete). `WorkClaim` also assumes that a one-sided call takes effect
eventually, which is MPI's progress rule. The other modules are sequential and
state no liveness: `CallPath`, `IoEvents`, `AccessPattern` and the definitions of
`SystemTree` are driven by the trace, in which nothing must happen, and the loops of
`SystemTree` and `TreeTransfer` wait for nobody. That these stop nowhere but at
their end is what TLC's check for deadlocks says of them.

## 4. What is proved

TLAPS checks these for every value of the constants that the named assumption
allows: any number of ranks, locations, regions, definitions or accesses, where
the runs of section 3 take a few.

`WorkClaimProofs`, from `NumRanksAssumption`, `NumLocsAssumption` and
`CompletionAssumption`:

- `Typing`: the type invariant, for both values of `CompletesAtCall`. It needs
  `InRange`: a rank that is past the head of the loop has a `to_read` below
  `NumLocs`.
- If `CompletesAtCall`: `WindowCounts` (the invariant), `ClaimsExclusive`
  (`Exclusive`), `NothingSkipped` (`NoneSkipped`), `NothingReadTwice` (`ReadOnce`)
  and `ImplementsPool` (`PoolSpec`: every behaviour is one of `LocationPool`).

Neither `Exclusive` nor `NoneSkipped` is inductive. The strengthening is `IInv`:
`Collective` (the fence: nobody is in the loop before the window is allocated and
holds -1), `InFlight` (a swap or a get under way belongs to the place its rank is
in and has its operands), `Indices` (`to_read = initial + 1` except after a lost
swap, and `initial` never runs ahead of the window) and, the heart of it,
`Counted`: the locations up to `window` are exactly those some rank holds. A swap
that succeeds moves the window from `initial` to `initial + 1`, which nobody
holds, so that it adds one holder and one location (`SwapGains`); all other steps
leave holdings alone (`HoldingKept`, `SameHolding`). `NoneSkipped` follows because
a rank that is done has `initial >= NumLocs - 1`, hence so has the window;
`ReadOnce`, because what a rank has read lies below what it claims; the
refinement, because the step that gains a location is `Take` of the pool, whose
`holder` a rank's holdings determine (`HolderIs`), and every other step stutters.

`ReduceProofs`, from `ReduceAssumption`:

- `Typing`, and `LinksAndCover` (the invariant `IInv`).
- `NoEntryLost`: `NothingLost`.
- `MasterHasAll`: `MasterComplete`, for any trace and any way it is shared, and
  whether sends buffer or not.
- `OwnDataKept`: `OwnKept`. It is inductive as it stands.

`IInv` is `Links /\ Covered /\ NothingLost`. `Links` says who is connected to whom:
a sending rank has a smaller peer and its parcel is its tree as packed. `Covered`
says that a rank in round k has been given the trees of the k - 1 ranks above it.
Lemmas about `Pack`, `Unpack`, `Merge` and `Collect` say what they do to the
presence of entries, and `NothingLost` follows since the only step that hands a
tree over is the one that merges it. At the end `Covered` says that everybody but
rank 0 has handed its tree over, so what is not lost is at rank 0. Nothing about
the width of `round` is used: `Peer` moves by `round`, and `round` doubles.

`CallPathProofs`, from `CallPathAssumption` and `MetricTypesAssumption`:

- `Typing`: every time the callbacks compute is a natural number.
- `ChildrenWithin` (`ChildTime`), `CachesCurrent` (`CacheCurrent`), `TreesRooted`
  (`Rooted`), `MessagesArePacked` (`MessagesFlagged`).
- `ExclusiveTimesHold`, `InclusiveTimesHold`, `CallersMatchHolds`, `ParentChargedHolds`,
  `MetricGrowthHolds`, of the properties of these names, and `MetricIsFound`
  (`MetricFound`).

The invariant adds two things to these. `Depth`: the i-th frame from the bottom
has a call path of length i. `Nested`: the `child_incl` of a frame is at most the
time between its own entry and that of the frame opened in it, or now. Of a frame
that is left, the duration is what its caller's `child_incl` grows by
(`LeaveStep`, with `Push`, `Charge` and `Pop` about the stack), so that the bound
moves up one frame. That the subtraction in `handle_leave` stays in the natural
numbers is the same bound, so `Typing` depends on it.

The last six rest on a second layer, `Accounts`, of one statement per table. What
the tree holds for a cell and what is still on the stack for it add up to what
passed: times in `self`, calls, and the clock of the metric. `Pending` says what
waits in `tmp_metric`, `Metrics` what the two values of an integer metric are by the
times of the node, calls under way included, and `Doubles` that there are none of a
floating-point one; with `Shares`, that the children's times are what the two times
of a node differ by, these give `ParentCharged`. Sums over calls are
cardinalities (`Total` of `Sums`, the number of units in a set), so that the lemmas about
them, which begin `CallPathProofs` and `IoEventsProofs`, get by without an induction: a sum grows by what one of its terms grows by
(`TotalGrows`), and a new term of 0 does not change it (`TotalExtends`).

`IoEventsProofs`, from `IoAssumption`:

- `Typing` (`TypeOK`), `TablesHold` (`TablesAgree`), `AccessesHold`
  (`AccessesCounted`), `ParadigmTimesHold` (`ParadigmTimes`), for any number of
  handles, files, locations and operations, in any order, with ids that recur.
- `OwnFileCovers`: the `File` a handle has covers the handle's own accesses.
- `SharedSizeHolds` (`SharedSize`), for any number of handles of a file, of which any
  may be defined with an OTF2 I/O file, in any order.

The invariant: `OpenTimes` (an open operation began in the past), `Definitions` (what
is defined for a handle, and that nothing happens before all are), `Covered`, and
`Accounts`: for each handle what the tables have is what `truth` has, and for each
paradigm the sum over its handles. `Registry` says what is registered for a name,
and `SameFile` that the handles that share point to it.

`ProfilerProofs`, from `ProfilerAssumption`:

- `AbortSafe` (`AbortLeavesNothing`), for any number of ranks and any of them
  failing at any time. `Phases` says why: the barrier in front of the reduction
  separates what can fail from what touches the file.
- `OutputWhole` (`OutputComplete`). `Loaded`: a tree holds nothing that is not of
  the trace and all calls of the locations its rank has read, so as built they
  all say the same, and every order of opening and writing ends with that.
- `MasterHasTrace` (`MasterHasCalls`), both branches. The steps of the composition
  are steps of `Reduce` or leave it alone (`SameInit`, `SameStep`, `SameTypes`), so
  that its invariant, proved in `ReduceProofs`, holds here too; `Quiet` is
  where a reduction stands that no rank has begun. `Shared` says that what was
  handed out was read.
- `Typing`, which includes the types of the reduction.

`AccessPatternProofs`, from `AccessPatternAssumption`:

- `Typing`, `IntervalsDisjoint` (`Disjoint`), `AllCounted` (`NoneLost`),
  `SetBackOnce` (`RetakenOnce`), for any number of accesses, gaps and sizes.
- `ContiguousOnly`: the half of `Pure` about contiguous accesses, likewise.
  `StridedOnly`: `Pure`, if no access is empty (`0 \notin Sizes`). TLC shows that it
  is false otherwise (section 5).

The parts of the invariant: `Ordered` (the three latest accesses come in order,
and at most one is there twice), `Place` (where the newest one is relative to the
loop index), `Open` (the open interval starts at or before the newest access and,
unless the pattern is contiguous, before it), `Current` (its statistics hold nothing that is still to
come), `Closed` (intervals that are checked in lie before it) and `Saved` (an
access with data is in the result, in the open interval, or about to be taken
again). `TakeStep` is about the head of the loop, `GoOn` about the branches that
extend an interval, `Ends` about those that check it in, `CheckedIn` about what
checking in does to the result. For `Pure` two more say what one pattern from the
start means at each place of the loop: `ContiguousRow` (the next position is that
of the newest access's end, in front of the switch that of its start) and
`StridedRow` (the three latest accesses are equidistant and not empty, so that they
are not contiguous in the order in which the loop compares them).

`SystemTreeProofs`, from `SystemTreeAssumption`:

- `Typing`, and `TreeAsDefined` (`ParentAsDefined`), for any number of definitions
  and of roots.

The invariant says that the k-th entry of `system_nodes` and of `location_grps` is
the node of the definition with reference k - 1 (`Registered`), which is what the
code looks parents up with, and that the iterator stands on a node (`OnNode`).

- `LocationsInTree`: every location that is read has a node, and parents come before
  their children.
- `CountsHold` (`CountsComplete`), for one root (`MaxRoots = 1`) and trees of any
  shape. With two roots the iteration begins at the one that was defined last, and
  what hangs below the other is not counted.

`Halfway` is the invariant of the iteration. `A` is the way from the root to where the
iterator is, `V` the nodes that were counted; `Before` says that these are the way
itself and all that hangs to the left of it. `Descend`, `AtLeaf`, `Aside` and `Ascend`
are the four moves of `operator++`. At the root (`BackAtRoot`) the counted nodes
contain the root and the children of each of them: if one were missing, the one
with the least `node_id` would be, but its parent comes before it.
`LeastNumber` takes the least element from the well-foundedness of `<`.

`TreeTransferProofs`, from `TransferAssumption` (call paths are sequences of natural
numbers, a sent tree has the prefixes of its call paths and finitely many data at
each):

- `SpecRoundTrip` (`RoundTrip`), `SpecMergedUnion` (`MergedUnion`), `SpecParentsLive`
  (`ParentsLive`), `SpecVisitedOnce` (`VisitedOnce`), `SpecBufferHolds` (`BufferHolds`)
  and `SpecTypeOK` (`TypeOK`): all that the run checks, for trees of any shape, any
  number of functions and senders, and any data.

None of them is inductive as it stands. The invariant has three layers, each of which stands on
those before it:

- `Serial`, about numbers. There is an order of call paths such that `mapping` and
  `f_data` are what numbering them in this order gives, with parents in front of
  their children (`Numbering`). While `getting_serial` runs, a path that has no number
  is on the list of an open call or below a path that has none either (`OpenCalls`);
  hence all have one when only the loop over the roots is open and nothing is left in
  it: a shortest path without a number would have to be on that list (`AllNumbered`).
  `OrderOf` names this order for what follows.
- `Trees`, about objects. `Shape`: the own tree is `Linked`, that is, linked in both
  directions, each object named after its way from a root, with one object for a
  call path. `Rebuilding`: what is built so far is the message's tree up to the number
  `Len(node_of)`. `Received` and `Merging`: a call path that is, or extends, one on
  the list of an open call is still to come (`Pending`), and its object is not in the
  own tree; for every other path of the message the own tree has an object with at
  least the data that were sent (`There`). No two lists are about one path
  (`OneList`), so taking over a branch settles exactly the paths in it, and what it
  brings into the own tree is apart from all that is there (`NotThere`). At the end of
  a merge nothing is pending, which with the balance in `Received` gives `MergedUnion`.
  There is a lemma for each action, from `PrepareTrees` to `BeginTrees`.
- `Walk`, about the iterator. `Before` is the order of call paths in which it goes
  (a path before what extends it, branches by function id). When it comes to an object,
  the visited ones are those before it (`Upto`); when it climbs from one, also those
  below that (`Through`). `StepDown`, `StepOn` and `Levels` are about its moves: to
  the first child, to the next sibling or root, and up. `parent` takes it from a
  child to where it came from, by `Linked`.

What one reaches from roots is a set of ways, each a choice of message numbers along
the prefixes of a path. If a set of objects holds the roots and all children, and each
other object in it is a child of one in it (`Forest`), then no way leaves it (`ChainIn`)
and each of its objects is on one, so that it is what `Reach` gives (`ReachedIs`).
Where one would use induction over a tree, the proofs take a shortest path, or a
least number, for which a statement fails (`ChainIn`, `AllNumbered`); these come from the well-foundedness of `<` (`Shortest`,
`LeastNumber`). `BufferHolds` needs that the data are finitely many (`DataFinite`),
and that `Room` has its terms in the same numbers as `Packed` (`PackedFits`).

**Only model-checked.** All liveness: `Termination` (three times), because temporal
formulas with fairness and `ENABLED` are out of the proof system's reach. Every
invariant and every action property of a passing run is a theorem; two of these
theorems have a hypothesis on the constants that the property needs (`StridedOnly`
and `CountsHold`), and those of `WorkClaim` have `CompletesAtCall`.

## 5. Where code and words disagree

Each is a run that finds a violation; `PROJECT.json` quotes the line.

1. `work_claim_deferred`: without a flush `result` and `initial` may be read
   before they have arrived, and two ranks may claim a location.
2. `io_events_size`: a handle whose definition names an OTF2 I/O file gets the
   `File` made for it, also where `emplace` kept one that was registered before
   (`OTF2Reader.cpp:232-234`; the other branch, line 246, takes the registered one).
   A file that is opened more than once then has several sizes, though
   `definitions.h:405` has all locations that write to it update one.
3. `access_pattern_once`: if the last access of a handle ends a contiguous
   interval, the interval's bytes and ticks are added twice.
4. `system_tree_nodes`: `handle_def_system_tree_node` appends the node's name to
   the text of its class in the string table (`OTF2Reader.cpp:533`), so that the
   next node of the class is not recognised as a node, and `node_count` misses it.

1 matters only with the work-sharing branch. More were met and have no run, most of
them because the statement would repeat one line of the code:

- `merge_node` does not carry `has_p2p` and `has_collop` over to a node that is
  already there (`data_tree.cpp:109`), and `getting_serial` packs message data of
  flagged nodes only (`data_tree.cpp:165, 169`): what reaches a middle rank by a
  merge is not packed in the next round. It takes four ranks, the sharing of
  locations, and a call path that communicates in some of them: rank 3's messages
  are merged by rank 2 and lost on the way to rank 0. `Pack` and `Merge` of `Reduce`
  are as the code has them. As built, ranks never depend on what they receive.
- `handle_metric` makes a metric of type `DOUBLE` from a type, an unsigned and a
  signed number (`OTF2Reader.cpp:840-842`), but the constructor takes the value of
  that type as its fourth parameter, which stays 0.0 (`main_structs.h:122-130`). By the
  comment at `main_structs.h:73` it should hold what OTF2 has in `.floating_point`. All
  values of such metrics are recorded as 0 (`Recorded`).
- The exclusive value of a metric is 0 less the children's share: what `main_structs.h:148`
  calls for is subtracted from a value to which the node's own inclusive value was
  never added. This value, as an unsigned number, is what the output adds up per
  metric (`create_json.cpp:577-581`). `ParentCharged` states what comes out.
- The macro of section 1: `reduce_data.cpp:253-254` says that ranks work on
  locations exclusively, and as built they do not (`Profiler` with `sharing`
  FALSE).
- The ring buffer of access patterns is handed over with the index of its newest
  element as its start (`access_pattern_detection.cpp:185`), so that the three are
  compared in the order newest, oldest, middle (`LivePattern`). With accesses that
  transfer nothing, equidistant accesses may seem contiguous in that order: five
  accesses at one position of 1, 0, 1, 0, 0 bytes end up as one random interval from
  the third on (`Pure`, with 0 among `Sizes` and -1 among `Gaps`). Accesses that are
  not empty are never mistaken in this way (`StridedOnly`).
- All bytes of a handle count as read or as written, by the mode of its last
  operation (`OTF2Reader.cpp:712`, `create_json.cpp:615`; the comments at
  `create_json.cpp:207, 209` speak of bytes read and bytes written).
- The end of an access in nanoseconds is computed from its start
  (`OTF2Reader.cpp:728`).
- `unpack_worker_data` passes two values where the constructor of `MetricData`
  takes one per type, so that a received metric loses its exclusive value, and
  an INT64 one gets the exclusive value as its inclusive one (`Rebuilt`;
  `reduce_data.cpp:339`, `main_structs.h:122`).
- `nr > 2 * NR_ACCESSES_THRESHOLD` (`access_pattern_detection.cpp:196, 253`) is never
  true right after `nr` was set to the threshold, so accesses before such a turn are counted
  under the pattern they turn into. Built with assertions, line 193 may end
  the program where the model goes on.
- In the tables per handle and per location, time without transfer is counted
  as transfer time (`OTF2Reader.cpp:717`; `main_structs.h:314` says otherwise).
  Those times are not output; `Tables` shows it.
- For `OTF2_IO_SEEK_FROM_CURRENT`, `OTF2Reader.cpp:762` adds `offsetResult` to the
  position. If OTF2 counts it from the start of the file, positions are wrong
  from there on. The repository does not say which it is.
- A metric location that has a name is taken into the system tree and counted as
  a thread; one without a name is not.
- With the work-sharing branch, every rank would still write the one output
  file, including ranks whose tree is a part of the trace, and the I/O
  statistics are not reduced. `OutputComplete` is therefore stated for the
  program as built; without its first conjunct TLC finds this.

## 6. What is not modelled

- **Bytes and widths.** The one-byte type that is unpacked as eight
  (`reduce_data.cpp:329`), the wrap of `bytesize` at 4 GiB (`reduce_data.cpp:63`;
  `TreeTransfer` counts words without a limit), the wrap of 64-bit times. Times
  and counters are natural numbers; that the differences do not become negative
  is proved or checked (`ChildTime`, the type invariants).
- **Malformed traces.** A leave, a message or an I/O operation outside any
  region reads the front of an empty stack. The models generate no such traces.
- **MPI errors.** The default error handler ends the program. **`MPI_Win_free`**
  (`OTF2Reader.cpp:1384`) is collective; `Finish` is a step of one rank, since no rank
  reads or writes the window behind it.
- **`have_message` and `have_collop`** of tree nodes: raw pointers to message data,
  which a merge copies from nodes that are then destroyed (`data_tree.cpp:114-115`).
  They do lead into a tree that is gone, but nothing ever reads them
  (`data_tree.h:87-88` would have them removed).
- **Text**: names of files and regions, JSON syntax, messages, stop watches.
- **Order of locations.** The code reads locations one by one, so the size of a
  file is that of the locations read so far. `OTF2Reader.cpp:765-766` states this
  limitation; the model has it too, and no property is about it.
- **Code that nothing calls**: `insert_node` of the system tree with given ids or
  with a `SystemNode`, `summarize`, `copy_reduced`, what would read
  `num_nodes_per_level`, and `detect_global_access_pattern`, which only throws.
- **Pre-created handles and access modes of handles**: the former only set the
  latter, which are printed and nothing else.
- **The rest of the JSON output**: sums per region, and how the intervals of
  several handles of a file are listed. They are loops over finished tables.
- **The JavaScript under `scripts/output_files/libs`.** It is the runtime of
  the Quarto page that one of the scripts rendered: third-party code, kept in the
  repository with the page. It has no part in reading, reducing or writing
  profiles. The program is the C++ code in `src` and `include`, and all
  source lines in `PROJECT.json` are of these.
- The components marked `not_modelled` in `PROJECT.json`.

Several roots of the system tree are modelled; the runs take one (`MaxRoots`), the
proofs any number, apart from `CountsHold`.

## 7. Plan

The order was: what decides correctness across ranks first (`WorkClaim`,
`Reduce`), then what one rank computes (`CallPath`, `IoEvents`, `AccessPattern`),
the whole (`Profiler`), then the two data structures that everything stands on
(`SystemTree`, `TreeTransfer`), each with its proofs.
What could follow:

1. The value that `tmp_metric` hands to the outermost calls of a location read after
   one was cut short, which `MetricGrowth` leaves out.
2. The sums per region of the JSON output.
