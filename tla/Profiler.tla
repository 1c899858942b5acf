------------------------------ MODULE Profiler ------------------------------
(***************************************************************************)
(* The parallel program as a whole: main (otf-profiler.cpp) on every MPI   *)
(* rank, from the barrier in front of the trace reader to the JSON file.   *)
(* The ranks collect call-path trees from the locations of the trace,      *)
(* reduce them to rank 0 (module Reduce) and then all write the output.    *)
(*                                                                         *)
(* sharing is the branch of OTF2Reader::readEvents the build has compiled. *)
(* TRUE is the branch under OTFPROFILE_MPI, in which the ranks share the   *)
(* locations; it is represented by what it promises, LocationPool, which   *)
(* WorkClaim implements.  FALSE is the other branch, in which a rank reads *)
(* all of them; it is the one CMakeLists.txt gives, because it defines     *)
(* OTFPROFILER_MPI and OTF2Reader.cpp asks for OTFPROFILE_MPI.             *)
(***************************************************************************)
EXTENDS Integers, FiniteSets

CONSTANTS
  NumRanks,   \* metaData.numRanks
  Nodes,      \* the call paths of the trace
  Locs,       \* its locations
  Trace       \* what it holds, as in Reduce

ASSUME ProfilerAssumption == NumRanks \in Nat \ {0} /\ Locs \subseteq Nat

VARIABLES
  pc,            \* rank -> how far main is
  have,          \* rank -> the locations it has read
  holder, left,  \* the pool of locations, if they are shared
  tree, parcel, round, rpc, sizesTo, bufferTo, eager, orig,   \* ReduceData
  sharing,       \* are the locations shared?
  file,          \* the output file
  aborted        \* has a rank called MPI_Abort?

pool == <<holder, left>>
reduction == <<tree, parcel, round, rpc, sizesTo, bufferTo, eager, orig>>
vars == <<pc, have, pool, reduction, sharing, file, aborted>>

Ranks == 0 .. NumRanks - 1

Pool == INSTANCE LocationPool WITH Nobody <- NumRanks
Reduction == INSTANCE Reduce WITH
               pc <- rpc, Traces <- {Trace}, Owners <- {[l \in Locs |-> {}]}

ASSUME TraceAssumption ==
  Trace \in [Nodes \X Locs -> Reduction!Data \cup {Reduction!Absent}]

(* The places in main, in their order: in the first barrier, in readEvents,*)
(* in the barrier behind it, in ReduceData, in the barrier behind that, in *)
(* CreateJSON with the file not opened, opened, and at the end.            *)
Starting == 1
Collecting == 2
Collected == 3
Reducing == 4
Reduced == 5
Opening == 6
Writing == 7
Finished == 8

(* What a rank writes: the entries of its tree and, as io_data is never    *)
(* reduced, the I/O of the locations it has read itself.                   *)
Content(r) == [calls |-> {e \in Nodes \X Locs : tree[r].data[e] # Reduction!Absent},
               io |-> have[r]]
Contents == [calls : SUBSET (Nodes \X Locs), io : SUBSET Locs]
Untouched == [state |-> "untouched"]
Empty == [state |-> "empty"]
Files == {Untouched, Empty} \cup [state : {"whole", "garbled"}, content : Contents]

TypeOK ==
  /\ pc \in [Ranks -> Starting .. Finished]
  /\ have \in [Ranks -> SUBSET Locs]
  /\ holder \in [Locs -> Ranks \cup {NumRanks}] /\ left \subseteq Ranks
  /\ Reduction!TypeOK
  /\ sharing \in BOOLEAN
  /\ file \in Files
  /\ aborted \in BOOLEAN

-----------------------------------------------------------------------------
Init ==
  /\ pc = [r \in Ranks |-> Starting]
  /\ have = [r \in Ranks |-> {}]
  /\ Pool!Init
  /\ Reduction!Init
  /\ sharing \in BOOLEAN
  /\ file = Untouched
  /\ aborted = FALSE

Goto(r, place) == pc' = [pc EXCEPT ![r] = place]

(* Slip for the mutation runs: nobody waits.                               *)
BarrierMissing(r, place) == pc[r] = place

(* MPI_Barrier: left when all ranks are in it.                             *)
Barrier(r, place) == pc[r] = place /\ \A q \in Ranks : pc[q] >= place

Start(r) ==
  /\ Barrier(r, Starting)
  /\ Goto(r, Collecting)
  /\ UNCHANGED <<have, pool, reduction, sharing, file, aborted>>

(* Slip: the tree of the location before is dropped.                       *)
CollectOnly(r, l) == Reduction!Collect(Trace, {l})

(* The tree of a rank with the location l added to it.                     *)
CollectAll(r, l) == Reduction!Collect(Trace, have[r] \cup {l})

(* One iteration of the loop in readEvents.                                *)
Read(r, l) ==
  /\ pc[r] = Collecting
  /\ IF sharing
     THEN Pool!Take(r, l)
     ELSE l \notin have[r] /\ (\A k \in Locs : k < l => k \in have[r]) /\ UNCHANGED pool
  /\ have' = [have EXCEPT ![r] = @ \cup {l}]
  /\ tree' = [tree EXCEPT ![r] = CollectAll(r, l)]
  /\ orig' = [orig EXCEPT ![r] = CollectAll(r, l)]
  /\ UNCHANGED <<pc, parcel, round, rpc, sizesTo, bufferTo, eager,
                 sharing, file, aborted>>

(* readEvents and readStatistics have returned true.                       *)
Collect(r) ==
  /\ pc[r] = Collecting
  /\ IF sharing
     THEN Pool!Leave(r)
     ELSE have[r] = Locs /\ UNCHANGED pool
  /\ Goto(r, Collected)
  /\ UNCHANGED <<have, reduction, sharing, file, aborted>>

(* One of the reader's functions has returned false: error().              *)
Fail(r) ==
  /\ pc[r] = Collecting
  /\ aborted' = TRUE
  /\ UNCHANGED <<pc, have, pool, reduction, sharing, file>>

(* Slip: a rank that has read nothing does not take part in the reduction. *)
ReduceReaders(r) ==
  /\ Barrier(r, Collected)
  /\ Goto(r, CASE NumRanks = 1                   -> Opening
               [] NumRanks # 1 /\ have[r] = {}  -> Reduced
               [] OTHER                          -> Reducing)
  /\ UNCHANGED <<have, pool, reduction, sharing, file, aborted>>

(* The barriers around the reduction; a single rank does not reduce.       *)
Reduce(r) ==
  /\ Barrier(r, Collected)
  /\ Goto(r, IF 1 < NumRanks THEN Reducing ELSE Opening)
  /\ UNCHANGED <<have, pool, reduction, sharing, file, aborted>>

ReduceStep(r) ==
  /\ pc[r] = Reducing
  /\ Reduction!RankStep(r)
  /\ Goto(r, IF rpc'[r] \in {"sent", "complete"} THEN Reduced ELSE Reducing)
  /\ UNCHANGED <<have, pool, sharing, file, aborted>>

AfterReduction(r) ==
  /\ Barrier(r, Reduced)
  /\ Goto(r, Opening)
  /\ UNCHANGED <<have, pool, reduction, sharing, file, aborted>>

(* CreateJSON, on every rank: the constructor of ofstream truncates the    *)
(* file.                                                                   *)
Open(r) ==
  /\ pc[r] = Opening
  /\ file' = Empty
  /\ Goto(r, Writing)
  /\ UNCHANGED <<have, pool, reduction, sharing, aborted>>

(* Slip: the file is opened to append.                                     *)
WriteAppended(r) ==
  /\ pc[r] = Writing
  /\ file' = [state |-> IF file = Empty THEN "whole" ELSE "garbled",
              content |-> Content(r)]
  /\ Goto(r, Finished)
  /\ UNCHANGED <<have, pool, reduction, sharing, aborted>>

(* All of the output in one step; the ranks' writes really overlap, but as *)
(* built they all write the same bytes.  It is written from the start of   *)
(* the file, over what another rank has written since the file was         *)
(* truncated; if that was different and longer its rest stays.             *)
Write(r) ==
  /\ pc[r] = Writing
  /\ \E state \in IF file = Empty \/ file = [state |-> "whole", content |-> Content(r)]
                   THEN {"whole"} ELSE {"whole", "garbled"} :
       file' = [state |-> state, content |-> Content(r)]
  /\ Goto(r, Finished)
  /\ UNCHANGED <<have, pool, reduction, sharing, aborted>>

RankStep(r) ==
  /\ ~aborted
  /\ \/ Start(r) \/ Collect(r) \/ Fail(r)
     \/ \E l \in Locs : Read(r, l)
     \/ Reduce(r) \/ ReduceStep(r) \/ AfterReduction(r)
     \/ Open(r) \/ Write(r)

Ended ==
  /\ aborted \/ \A r \in Ranks : pc[r] = Finished
  /\ UNCHANGED vars

Next == Ended \/ \E r \in Ranks : RankStep(r)

(* Every rank is a process of its own that keeps running.                  *)
Fairness == \A r \in Ranks : WF_vars(RankStep(r))

Spec == Init /\ [][Next]_vars /\ Fairness

-----------------------------------------------------------------------------
AllCalls == {e \in Nodes \X Locs : Trace[e] # Reduction!Absent}

(* When the program as built has ended without an error the output holds   *)
(* the calls and the I/O of every location, although all ranks open,       *)
(* truncate and write the one file, in any order.                          *)
OutputComplete ==
  ~sharing /\ (\A r \in Ranks : pc[r] = Finished) =>
    /\ file.state = "whole"
    /\ file.content = [calls |-> AllCalls, io |-> Locs]

(* An abort leaves no output behind: the file is touched only after every  *)
(* rank is past the last call that can fail.                               *)
AbortLeavesNothing == aborted => file = Untouched

(* Rank 0 has every call in its tree after the reduction, whichever rank   *)
(* read which location.                                                    *)
MasterHasCalls == pc[0] >= Opening => Content(0).calls = AllCalls

(* The program ends, by an error or with all ranks at the end of main.     *)
Termination == <>(aborted \/ \A r \in Ranks : pc[r] = Finished)
=============================================================================
