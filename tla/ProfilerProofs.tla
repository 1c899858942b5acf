--------------------------- MODULE ProfilerProofs ---------------------------
(***************************************************************************)
(* Profiler for every number of ranks and every trace: an aborted run has  *)
(* not touched the output, and the output of the program as built is       *)
(* complete, in whatever order the ranks open and write it.                *)
(***************************************************************************)
EXTENDS Profiler, TLAPS

USE ProfilerAssumption
    DEF Ranks, Starting, Collecting, Collected, Reducing, Reduced, Opening, Writing,
        Finished, Goto

Places ==
  /\ pc \in [Ranks -> Starting .. Finished]
  /\ have \in [Ranks -> SUBSET Locs]

(* The barrier in front of the reduction separates what can fail from what *)
(* touches the file.                                                       *)
Phases ==
  /\ (\E r \in Ranks : pc[r] >= Reducing) => \A q \in Ranks : pc[q] >= Collected
  /\ file # Untouched => \A q \in Ranks : pc[q] >= Collected
  /\ aborted => \E r \in Ranks : pc[r] = Collecting

LEMMA PhasesInit == Init => Places /\ Phases
<1> SUFFICES ASSUME Init PROVE Places /\ Phases
  OBVIOUS
<1>1. /\ pc = [r \in Ranks |-> Starting] /\ have = [r \in Ranks |-> {}]
      /\ file = Untouched /\ aborted = FALSE
  BY DEF Init
<1> QED
  BY <1>1 DEF Places, Phases

LEMMA PlacesStep == Places /\ [Next]_vars => Places'
<1> SUFFICES ASSUME Places, [Next]_vars PROVE Places'
  OBVIOUS
<1> USE DEF Places
<1>1. ASSUME NEW r \in Ranks, RankStep(r) PROVE Places'
  <2>1. UNCHANGED pc \/ \E place \in Starting .. Finished : pc' = [pc EXCEPT ![r] = place]
    BY <1>1 DEF RankStep, Start, Collect, Fail, Read, Reduce, ReduceStep, AfterReduction,
                Open, Write
  <2>2. UNCHANGED have \/ \E l \in Locs : have' = [have EXCEPT ![r] = @ \cup {l}]
    BY <1>1 DEF RankStep, Start, Collect, Fail, Read, Reduce, ReduceStep, AfterReduction,
                Open, Write
  <2>3. pc' \in [Ranks -> Starting .. Finished]
    BY <2>1
  <2>4. have' \in [Ranks -> SUBSET Locs]
    BY <2>2
  <2> QED
    BY <2>3, <2>4
<1>2. CASE UNCHANGED vars
  BY <1>2 DEF vars
<1> QED
  BY <1>1, <1>2 DEF Next, Ended

(* Nobody goes back, and a rank that advances leaves the others alone.     *)
LEMMA PhasesStep == Places /\ Phases /\ [Next]_vars => Phases'
<1> SUFFICES ASSUME Places, Phases, [Next]_vars PROVE Phases'
  OBVIOUS
<1> USE DEF Places, Phases
<1>1. ASSUME NEW r \in Ranks, ~aborted, Start(r) PROVE Phases'
  BY <1>1 DEF Start, Barrier
<1>2. ASSUME NEW r \in Ranks, ~aborted, Collect(r) PROVE Phases'
  BY <1>2 DEF Collect
<1>3. ASSUME NEW r \in Ranks, ~aborted, Fail(r) PROVE Phases'
  BY <1>3 DEF Fail
<1>4. ASSUME NEW r \in Ranks, NEW l \in Locs, ~aborted, Read(r, l) PROVE Phases'
  BY <1>4 DEF Read
<1>5. ASSUME NEW r \in Ranks, ~aborted, Reduce(r) PROVE Phases'
  BY <1>5 DEF Reduce, Barrier
<1>6. ASSUME NEW r \in Ranks, ~aborted, ReduceStep(r) PROVE Phases'
  BY <1>6 DEF ReduceStep
<1>7. ASSUME NEW r \in Ranks, ~aborted, AfterReduction(r) PROVE Phases'
  BY <1>7 DEF AfterReduction, Barrier
<1>8. ASSUME NEW r \in Ranks, ~aborted, Open(r) PROVE Phases'
  BY <1>8 DEF Open
<1>9. ASSUME NEW r \in Ranks, ~aborted, Write(r) PROVE Phases'
  BY <1>9 DEF Write
<1>10. CASE UNCHANGED vars
  BY <1>10 DEF vars
<1> QED
  BY <1>1, <1>2, <1>3, <1>4, <1>5, <1>6, <1>7, <1>8, <1>9, <1>10 DEF Next, RankStep, Ended

(* An error of any rank leaves no output: the file is not even opened.     *)
THEOREM AbortSafe == Spec => []AbortLeavesNothing
<1>1. Places /\ Phases => AbortLeavesNothing
  BY DEF Places, Phases, AbortLeavesNothing
<1> QED
  BY <1>1, PhasesInit, PlacesStep, PhasesStep, PTL DEF Spec

-----------------------------------------------------------------------------
(* Reduce, with what was proved of it.                                     *)
R == INSTANCE ReduceProofs WITH
       pc <- rpc, Traces <- {Trace}, Owners <- {[l \in Locs |-> {}]}

LEMMA ReductionAssumption == R!ReduceAssumption
BY TraceAssumption
DEF R!ReduceAssumption, R!Entries, R!Data, R!Absent, R!Metrics, R!Kinds, R!Ranks,
    Reduction!Data, Reduction!Absent, Reduction!Metrics, Reduction!Kinds

(* Profiler's instance of Reduce and this one are the same.                *)
LEMMA SameTrees ==
  /\ Reduction!Absent = R!Absent
  /\ \A t : Reduction!Pack(t) = R!Pack(t) /\ Reduction!Unpack(t) = R!Unpack(t)
  /\ \A s, t : Reduction!Merge(s, t) = R!Merge(s, t)
  /\ \A L : Reduction!Collect(Trace, L) = R!Collect(Trace, L)
  /\ \A r : Reduction!Peer(r) = R!Peer(r)
BY DEF Reduction!Absent, R!Absent, Reduction!Pack, R!Pack, Reduction!Unpack, R!Unpack,
       Reduction!Rebuilt, R!Rebuilt, Reduction!Merge, R!Merge, Reduction!Collect, R!Collect,
       Reduction!Entries, R!Entries, Reduction!Peer, R!Peer

LEMMA SameTypes == Reduction!TypeOK <=> R!TypeOK
BY DEF Reduction!TypeOK, R!TypeOK, Reduction!Trees, R!Trees, Reduction!Ranks, R!Ranks,
       Reduction!Entries, R!Entries, Reduction!Data, R!Data, Reduction!Absent, R!Absent,
       Reduction!Metrics, R!Metrics, Reduction!Kinds, R!Kinds, Reduction!Labels, R!Labels,
       Reduction!Nobody, R!Nobody

LEMMA SameInit == Reduction!Init => R!Init
<1> SUFFICES ASSUME Reduction!Init PROVE R!Init
  OBVIOUS
<1>1. orig = [r \in Ranks |-> R!Collect(Trace, {l \in Locs : r \in [k \in Locs |-> {}][l]})]
  BY SameTrees DEF Reduction!Init, Reduction!Ranks
<1>2. \E trace \in {Trace}, owner \in {[l \in Locs |-> {}]} :
        orig = [r \in R!Ranks |-> R!Collect(trace, {l \in Locs : r \in owner[l]})]
  BY <1>1 DEF R!Ranks
<1> QED
  BY <1>2 DEF Reduction!Init, R!Init, Reduction!Ranks, R!Ranks, Reduction!Nobody, R!Nobody

LEMMA SameStep ==
  ASSUME NEW r \in Ranks, Reduction!RankStep(r)
  PROVE  R!Next
<1> USE SameTrees
    DEF Reduction!InRound, R!InRound, Reduction!NextRound, R!NextRound, Reduction!Goto,
        R!Goto, Reduction!Nobody, R!Nobody
<1>1. CASE Reduction!Skip(r)
  BY <1>1 DEF Reduction!Skip, R!Next, R!RankStep, R!Skip, R!Ranks
<1>2. CASE Reduction!RecvSizes(r)
  BY <1>2 DEF Reduction!RecvSizes, R!Next, R!RankStep, R!RecvSizes, R!Ranks
<1>3. CASE Reduction!RecvBuffer(r)
  BY <1>3 DEF Reduction!RecvBuffer, R!Next, R!RankStep, R!RecvBuffer, R!Ranks
<1>4. CASE Reduction!SendSizes(r)
  BY <1>4 DEF Reduction!SendSizes, R!Next, R!RankStep, R!SendSizes, R!Ranks
<1>5. CASE Reduction!SendBuffer(r)
  BY <1>5 DEF Reduction!SendBuffer, R!Next, R!RankStep, R!SendBuffer, R!Ranks
<1>6. CASE Reduction!Sent(r)
  BY <1>6 DEF Reduction!Sent, R!Next, R!RankStep, R!Sent, R!Ranks
<1>7. CASE Reduction!Complete(r)
  BY <1>7 DEF Reduction!Complete, R!Next, R!RankStep, R!Complete, R!Ranks
<1> QED
  BY <1>1, <1>2, <1>3, <1>4, <1>5, <1>6, <1>7 DEF Reduction!RankStep

(* Until a rank begins to reduce, the reduction is where it starts.        *)
Quiet ==
  (\A r \in Ranks : pc[r] < Reducing) =>
    /\ rpc = [r \in Ranks |-> "round"] /\ round = [r \in Ranks |-> 1]
    /\ bufferTo = [r \in Ranks |-> NumRanks] /\ tree = orig

Reducible == R!TypeOK /\ R!IInv /\ Quiet

LEMMA ReducibleInit == Init => Reducible
<1> SUFFICES ASSUME Init PROVE Reducible
  OBVIOUS
<1>1. R!Init
  BY SameInit DEF Init
<1>2. R!TypeOK /\ R!IInv
  BY <1>1, ReductionAssumption, R!InitTypes, R!InitInv
<1>3. Quiet
  BY <1>1 DEF R!Init, R!Ranks, R!Nobody, Quiet
<1> QED
  BY <1>2, <1>3 DEF Reducible

LEMMA ReducibleStep == Places /\ Phases /\ Reducible /\ [Next]_vars => Reducible'
<1> SUFFICES ASSUME Places, Phases, Reducible, [Next]_vars PROVE Reducible'
  OBVIOUS
<1>1. ASSUME NEW r \in Ranks, NEW l \in Locs, Read(r, l) PROVE Reducible'
  <2> DEFINE t == R!Collect(Trace, have[r] \cup {l})
  <2>1. /\ tree' = [tree EXCEPT ![r] = t] /\ orig' = [orig EXCEPT ![r] = t]
        /\ UNCHANGED <<pc, parcel, round, rpc, sizesTo, bufferTo, eager>>
        /\ pc[r] = Collecting
    BY <1>1, SameTrees DEF Read, CollectAll
  <2>2. /\ rpc = [q \in Ranks |-> "round"] /\ round = [q \in Ranks |-> 1]
        /\ bufferTo = [q \in Ranks |-> NumRanks] /\ tree = orig
    <3>1. \A q \in Ranks : pc[q] < Reducing
      BY <2>1 DEF Places, Phases
    <3> QED
      BY <3>1 DEF Reducible, Quiet
  <2>3. R!TypeOK'
    <3>1. t \in R!Trees
      BY ReductionAssumption, R!CollectTree DEF Places
    <3>2. tree' \in [Ranks -> R!Trees] /\ orig' \in [Ranks -> R!Trees]
      BY <2>1, <3>1 DEF Reducible, R!TypeOK, R!Ranks
    <3> QED
      BY <2>1, <3>2 DEF Reducible, R!TypeOK, R!Ranks
  <2>4. R!Links'
    BY <2>1, <2>2 DEF R!Links, R!Sending, R!Ranks, R!Nobody
  <2>5. R!Covered'
    BY <2>1, <2>2 DEF R!Covered, R!Ranks
  <2>6. R!NothingLost'
    BY <2>1, <2>2 DEF R!NothingLost, R!Collected, R!Holds, R!Handed, R!Ranks
  <2>7. Quiet'
    BY <2>1, <2>2 DEF Quiet
  <2> QED
    BY <2>3, <2>4, <2>5, <2>6, <2>7 DEF Reducible, R!IInv
<1>2. ASSUME NEW r \in Ranks, ReduceStep(r) PROVE Reducible'
  <2>1. R!Next
    BY <1>2, SameStep DEF ReduceStep
  <2>2. R!TypeOK' /\ R!IInv'
    BY <2>1, ReductionAssumption, R!StepTypes, R!StepLinks, R!StepCovered, R!StepNothingLost
    DEF Reducible, R!IInv
  <2>3. Quiet'
    BY <1>2 DEF ReduceStep, Quiet, Places
  <2> QED
    BY <2>2, <2>3 DEF Reducible
<1>3. ASSUME NEW r \in Ranks,
             \/ Start(r) \/ Collect(r) \/ Fail(r) \/ Reduce(r) \/ AfterReduction(r)
             \/ Open(r) \/ Write(r)
      PROVE  Reducible'
  <2>1. UNCHANGED reduction
    BY <1>3 DEF Start, Collect, Fail, Reduce, AfterReduction, Open, Write
  <2>2. R!TypeOK' /\ R!IInv'
    BY <2>1, ReductionAssumption, R!StepTypes, R!StepLinks, R!StepCovered, R!StepNothingLost
    DEF Reducible, R!IInv, reduction, R!vars
  <2>3. Quiet'
    BY <1>3, <2>1 DEF Start, Collect, Fail, Reduce, AfterReduction, Open, Write, Barrier,
                      Quiet, Places, reduction, Reducible
  <2> QED
    BY <2>2, <2>3 DEF Reducible
<1>4. CASE UNCHANGED vars
  <2>1. UNCHANGED reduction /\ UNCHANGED pc
    BY <1>4 DEF vars
  <2>2. R!TypeOK' /\ R!IInv'
    BY <2>1, ReductionAssumption, R!StepTypes, R!StepLinks, R!StepCovered, R!StepNothingLost
    DEF Reducible, R!IInv, reduction, R!vars
  <2> QED
    BY <2>1, <2>2 DEF Reducible, Quiet, reduction
<1> QED
  BY <1>1, <1>2, <1>3, <1>4 DEF Next, RankStep, Ended

-----------------------------------------------------------------------------
(* What the operations of the reduction do to the presence of an entry.    *)
Entries == Nodes \X Locs
Absent == Reduction!Absent
Known(t) == \A e \in Entries : t.data[e] # Absent => Trace[e] # Absent

LEMMA CollectEntries ==
  ASSUME NEW L
  PROVE  \A e \in Entries :
           Reduction!Collect(Trace, L).data[e] # Absent <=> e[2] \in L /\ Trace[e] # Absent
BY DEF Reduction!Collect, Entries, Reduction!Entries, Absent

LEMMA PackKnown ==
  ASSUME NEW t, Known(t)
  PROVE  Known(Reduction!Pack(t))
<1> SUFFICES ASSUME NEW e \in Entries, t.data[e] = Absent
             PROVE  Reduction!Pack(t).data[e] = Absent
  BY DEF Known
<1>1. Reduction!Pack(t).data[e] = [comm   |-> t.data[e].comm \cap t.has[e[1]],
                                   metric |-> t.data[e].metric]
  BY DEF Reduction!Pack, Entries, Reduction!Entries
<1>2. t.data[e].comm = {} /\ t.data[e].metric = Absent.metric
  BY DEF Absent, Reduction!Absent
<1> QED
  BY <1>1, <1>2 DEF Absent, Reduction!Absent

LEMMA MergeKnown ==
  ASSUME NEW s, NEW t, Known(s), Known(t)
  PROVE  Known(Reduction!Merge(s, Reduction!Unpack(t)))
BY DEF Known, Reduction!Merge, Reduction!Unpack, Entries, Reduction!Entries, Absent

LEMMA MergeKeeps ==
  ASSUME NEW s, NEW t, NEW e \in Entries, s.data[e] # Absent
  PROVE  Reduction!Merge(s, t).data[e] # Absent
BY DEF Reduction!Merge, Entries, Reduction!Entries, Absent

(* Trees hold calls of the trace only, and all those of the locations a    *)
(* rank has read; a rank that shares nothing reads all of them.            *)
Loaded ==
  /\ tree = [r \in Ranks |-> tree[r]] /\ parcel = [r \in Ranks |-> parcel[r]]
  /\ \A r \in Ranks : Known(tree[r]) /\ Known(parcel[r])
  /\ \A r \in Ranks : \A e \in Entries :
       e[2] \in have[r] /\ Trace[e] # Absent => tree[r].data[e] # Absent
  /\ ~sharing => \A r \in Ranks : pc[r] >= Collected => have[r] = Locs

LEMMA LoadedInit == Init => Loaded
<1> SUFFICES ASSUME Init PROVE Loaded
  OBVIOUS
<1>1. PICK owner \in {[l \in Locs |-> {}]} :
        tree = [r \in Ranks |-> Reduction!Collect(Trace, {l \in Locs : r \in owner[l]})]
  BY DEF Init, Reduction!Init, Reduction!Ranks
<1>2. parcel = tree
  BY DEF Init, Reduction!Init
<1>3. \A r \in Ranks : Known(tree[r])
  BY <1>1, CollectEntries DEF Known
<1> QED
  BY <1>1, <1>2, <1>3 DEF Init, Loaded

LEMMA LoadedStep == Places /\ Reducible /\ Loaded /\ [Next]_vars => Loaded'
<1> SUFFICES ASSUME Places, Reducible, Loaded, [Next]_vars PROVE Loaded'
  OBVIOUS
<1> USE DEF Places
<1>1. ASSUME NEW r \in Ranks, NEW l \in Locs, Read(r, l) PROVE Loaded'
  <2>1. /\ tree' = [tree EXCEPT ![r] = Reduction!Collect(Trace, have[r] \cup {l})]
        /\ have' = [have EXCEPT ![r] = @ \cup {l}]
        /\ pc[r] = Collecting /\ UNCHANGED <<pc, parcel, sharing>>
    BY <1>1 DEF Read, CollectAll
  <2>2. \A q \in Ranks : Known(tree'[q])
    BY <2>1, CollectEntries DEF Loaded, Known
  <2>3. \A q \in Ranks : \A e \in Entries :
          e[2] \in have'[q] /\ Trace[e] # Absent => tree'[q].data[e] # Absent
    BY <2>1, CollectEntries DEF Loaded
  <2>4. tree' = [q \in Ranks |-> tree'[q]]
    BY <2>1 DEF Loaded
  <2>5. ~sharing' => \A q \in Ranks : pc'[q] >= Collected => have'[q] = Locs
    BY <2>1 DEF Loaded
  <2>6. UNCHANGED parcel /\ \A q \in Ranks : Known(parcel'[q])
    BY <2>1 DEF Loaded, Known
  <2> QED
    BY <2>2, <2>3, <2>4, <2>5, <2>6 DEF Loaded, Known
<1>2. ASSUME NEW r \in Ranks, Collect(r) PROVE Loaded'
  BY <1>2 DEF Collect, Loaded, Known, reduction
<1>3. ASSUME NEW r \in Ranks, ReduceStep(r) PROVE Loaded'
  <2>1. pc[r] = Reducing /\ pc'[r] \in {Reducing, Reduced} /\ UNCHANGED <<have, sharing>>
        /\ \A q \in Ranks \ {r} : pc'[q] = pc[q]
    BY <1>3 DEF ReduceStep
  <2>2. ~sharing' => \A q \in Ranks : pc'[q] >= Collected => have'[q] = Locs
    BY <2>1 DEF Loaded
  <2>3. CASE Reduction!SendSizes(r)
    <3>1. UNCHANGED tree /\ parcel' = [parcel EXCEPT ![r] = Reduction!Pack(tree[r])]
      BY <2>3 DEF Reduction!SendSizes
    <3>2. \A q \in Ranks : Known(parcel'[q])
      BY <3>1, PackKnown DEF Loaded
    <3>3. parcel' = [q \in Ranks |-> parcel'[q]]
      BY <3>1 DEF Loaded
    <3> QED
      BY <2>1, <2>2, <3>1, <3>2, <3>3 DEF Loaded, Known
  <2>4. CASE Reduction!RecvBuffer(r)
    <3> DEFINE t == parcel[Reduction!Peer(r)]
    <3>1. UNCHANGED parcel
          /\ tree' = [tree EXCEPT ![r] = Reduction!Merge(@, Reduction!Unpack(t))]
      BY <2>4 DEF Reduction!RecvBuffer
    <3>2. Reduction!Peer(r) \in Ranks
      <4>1. R!TypeOK /\ R!Links /\ rpc[r] = "recv" /\ r \in R!Ranks
        BY <2>4 DEF Reduction!RecvBuffer, Reducible, R!IInv, R!Ranks
      <4>2. R!Peer(r) \in R!Ranks
        BY <4>1, ReductionAssumption, R!ReceivingPeer
      <4> QED
        BY <4>2, SameTrees DEF R!Ranks
    <3>3. Known(t)
      BY <3>2 DEF Loaded
    <3>4. \A q \in Ranks : Known(tree'[q])
      BY <3>1, <3>3, MergeKnown DEF Loaded
    <3>5. \A q \in Ranks : \A e \in Entries :
            tree[q].data[e] # Absent => tree'[q].data[e] # Absent
      BY <3>1, MergeKeeps DEF Loaded
    <3>6. tree' = [q \in Ranks |-> tree'[q]]
      BY <3>1 DEF Loaded
    <3>7. \A q \in Ranks : \A e \in Entries :
            e[2] \in have'[q] /\ Trace[e] # Absent => tree'[q].data[e] # Absent
      BY <2>1, <3>5 DEF Loaded
    <3>8. parcel' = [q \in Ranks |-> parcel'[q]] /\ \A q \in Ranks : Known(parcel'[q])
      BY <3>1 DEF Loaded, Known
    <3> QED
      BY <2>2, <3>4, <3>6, <3>7, <3>8 DEF Loaded, Known
  <2>5. CASE \/ Reduction!Skip(r) \/ Reduction!RecvSizes(r) \/ Reduction!SendBuffer(r)
             \/ Reduction!Sent(r) \/ Reduction!Complete(r)
    <3>1. UNCHANGED <<tree, parcel>>
      BY <2>5 DEF Reduction!Skip, Reduction!RecvSizes, Reduction!SendBuffer,
                  Reduction!Sent, Reduction!Complete
    <3> QED
      BY <2>1, <2>2, <3>1 DEF Loaded, Known
  <2> QED
    BY <1>3, <2>3, <2>4, <2>5 DEF ReduceStep, Reduction!RankStep
<1>4. ASSUME NEW r \in Ranks,
             \/ Start(r) \/ Fail(r) \/ Reduce(r) \/ AfterReduction(r) \/ Open(r) \/ Write(r)
      PROVE  Loaded'
  <2>1. UNCHANGED <<tree, parcel, have, sharing>>
    BY <1>4 DEF Start, Fail, Reduce, AfterReduction, Open, Write, reduction
  <2>2. \A q \in Ranks : pc'[q] >= Collected => pc[q] >= Collected
    BY <1>4 DEF Start, Fail, Reduce, AfterReduction, Open, Write, Barrier
  <2> QED
    BY <2>1, <2>2 DEF Loaded, Known
<1>5. CASE UNCHANGED vars
  BY <1>5 DEF vars, reduction, Loaded, Known
<1> QED
  BY <1>1, <1>2, <1>3, <1>4, <1>5 DEF Next, RankStep, Ended

-----------------------------------------------------------------------------
(* A rank that has read everything writes everything.                      *)
Whole == [state |-> "whole", content |-> [calls |-> AllCalls, io |-> Locs]]

LEMMA FullContent ==
  ASSUME Places, Loaded, ~sharing, NEW r \in Ranks, pc[r] >= Collected
  PROVE  Content(r) = [calls |-> AllCalls, io |-> Locs]
<1>1. have[r] = Locs
  BY DEF Loaded
<1>2. \A e \in Entries : tree[r].data[e] # Absent <=> Trace[e] # Absent
  BY <1>1 DEF Loaded, Known, Entries
<1> QED
  BY <1>1, <1>2 DEF Content, AllCalls, Entries, Absent

(* Once a rank has opened the file it is either empty, and then somebody is*)
(* about to write, or it is whole.                                         *)
Output ==
  ~sharing =>
    /\ file \in {Untouched, Empty, Whole}
    /\ file = Untouched => \A r \in Ranks : pc[r] < Writing
    /\ file = Empty => \E r \in Ranks : pc[r] = Writing

LEMMA SharingFixed == [Next]_vars => UNCHANGED sharing
BY DEF Next, RankStep, Ended, vars, Start, Collect, Fail, Read, Reduce, ReduceStep,
       AfterReduction, Open, Write

LEMMA OutputStep == Places /\ Loaded /\ Output /\ [Next]_vars => Output'
<1> SUFFICES ASSUME Places, Loaded, Output, [Next]_vars, ~sharing, ~sharing'
             PROVE  Output'
  BY SharingFixed DEF Output
<1> USE DEF Places, Output
<1>1. ASSUME NEW r \in Ranks, Open(r) PROVE Output'
  <2>1. file' = Empty /\ pc'[r] = Writing
    BY <1>1 DEF Open
  <2> QED
    BY <2>1 DEF Empty, Untouched, Whole
<1>2. ASSUME NEW r \in Ranks, Write(r) PROVE Output'
  <2>1. Content(r) = [calls |-> AllCalls, io |-> Locs]
    BY <1>2, FullContent DEF Write
  <2>2. file = Empty \/ file = Whole
    BY <1>2 DEF Write
  <2>3. file' = Whole
    BY <1>2, <2>1, <2>2 DEF Write, Whole
  <2>4. Whole # Untouched /\ Whole # Empty
    BY DEF Whole, Untouched, Empty
  <2> QED
    BY <2>3, <2>4
<1>3. ASSUME NEW r \in Ranks,
             \/ Start(r) \/ Collect(r) \/ Fail(r) \/ Reduce(r) \/ ReduceStep(r)
             \/ AfterReduction(r) \/ \E l \in Locs : Read(r, l)
      PROVE  Output'
  <2>1. UNCHANGED file
    BY <1>3 DEF Start, Collect, Fail, Reduce, ReduceStep, AfterReduction, Read
  <2>2. \A q \in Ranks : pc'[q] = pc[q] \/ (pc[q] < Writing /\ pc'[q] < Writing)
    BY <1>3 DEF Start, Collect, Fail, Reduce, ReduceStep, AfterReduction, Read, Barrier
  <2> QED
    BY <2>1, <2>2
<1>4. CASE UNCHANGED vars
  BY <1>4 DEF vars
<1> QED
  BY <1>1, <1>2, <1>3, <1>4 DEF Next, RankStep, Ended

(* As built, the output of a run without an error is whole and has the     *)
(* calls and the I/O of every location, for any number of ranks.           *)
THEOREM OutputWhole == Spec => []OutputComplete
<1>1. Init => Output
  BY DEF Init, Output, Untouched, Empty
<1>2. Places /\ Output => OutputComplete
  <2> SUFFICES ASSUME Places, Output, ~sharing, \A r \in Ranks : pc[r] = Finished
               PROVE  file = Whole
    BY DEF OutputComplete, Whole
  <2>1. 0 \in Ranks
    OBVIOUS
  <2> QED
    BY <2>1 DEF Output
<1> QED
  BY <1>1, <1>2, PhasesInit, PlacesStep, PhasesStep, ReducibleInit, ReducibleStep,
     LoadedInit, LoadedStep, OutputStep, PTL DEF Spec

-----------------------------------------------------------------------------
(* When a rank is through with reading, every location was read by some    *)
(* rank, and what was read is in the trees the reduction begins with.      *)
Shared ==
  /\ holder \in [Locs -> Ranks \cup {NumRanks}]
  /\ sharing => \A l \in Locs : holder[l] # NumRanks => l \in have[holder[l]]
  /\ sharing => \A r \in Ranks : pc[r] >= Collected =>
                  \A l \in Locs : holder[l] # NumRanks
  /\ \A r \in Ranks : \A e \in Entries :
       e[2] \in have[r] /\ Trace[e] # Absent => orig[r].data[e] # Absent
  /\ 1 < NumRanks => \A r \in Ranks : pc[r] >= Reduced => rpc[r] \in {"sent", "complete"}

LEMMA SharedInit == Init => Shared
<1> SUFFICES ASSUME Init PROVE Shared
  OBVIOUS
<1>1. holder = [l \in Locs |-> NumRanks]
  BY DEF Init, Pool!Init
<1>2. pc = [r \in Ranks |-> Starting] /\ have = [r \in Ranks |-> {}]
  BY DEF Init
<1> QED
  BY <1>1, <1>2 DEF Shared

LEMMA SharedStep == Places /\ Reducible /\ Shared /\ [Next]_vars => Shared'
<1> SUFFICES ASSUME Places, Reducible, Shared, [Next]_vars PROVE Shared'
  OBVIOUS
<1> USE DEF Places
<1>1. ASSUME NEW r \in Ranks, NEW l \in Locs, Read(r, l) PROVE Shared'
  <2>1. /\ orig' = [orig EXCEPT ![r] = Reduction!Collect(Trace, have[r] \cup {l})]
        /\ have' = [have EXCEPT ![r] = @ \cup {l}]
        /\ pc[r] = Collecting /\ UNCHANGED <<pc, rpc, sharing>>
    BY <1>1 DEF Read, CollectAll
  <2>2. \A q \in Ranks : \A e \in Entries :
          e[2] \in have'[q] /\ Trace[e] # Absent => orig'[q].data[e] # Absent
    <3>1. orig \in [Ranks -> R!Trees]
      BY DEF Reducible, R!TypeOK, R!Ranks
    <3> QED
      BY <2>1, <3>1, CollectEntries DEF Shared
  <2>3. holder' = IF sharing THEN [holder EXCEPT ![l] = r] ELSE holder
    BY <1>1 DEF Read, Pool!Take, pool
  <2>4. sharing => holder[l] = NumRanks
    BY <1>1 DEF Read, Pool!Take
  <2>5. holder' \in [Locs -> Ranks \cup {NumRanks}]
    BY <2>3 DEF Shared
  <2>6. sharing' => \A k \in Locs : holder'[k] # NumRanks => k \in have'[holder'[k]]
    BY <2>1, <2>3 DEF Shared
  <2>7. sharing' => \A q \in Ranks : pc'[q] >= Collected =>
                      \A k \in Locs : holder'[k] # NumRanks
    BY <2>1, <2>3 DEF Shared
  <2> QED
    BY <2>1, <2>2, <2>5, <2>6, <2>7 DEF Shared
<1>2. ASSUME NEW r \in Ranks, Collect(r) PROVE Shared'
  <2>1. UNCHANGED <<have, holder, reduction, sharing>> /\ pc' = [pc EXCEPT ![r] = Collected]
    BY <1>2 DEF Collect, pool, Pool!Leave
  <2>2. sharing => \A l \in Locs : holder[l] # NumRanks
    BY <1>2 DEF Collect, Pool!Leave
  <2> QED
    BY <2>1, <2>2 DEF Shared, reduction
<1>3. ASSUME NEW r \in Ranks, ReduceStep(r) PROVE Shared'
  <2>1. UNCHANGED <<have, holder, sharing>> /\ pc[r] = Reducing
        /\ pc' = [pc EXCEPT ![r] = IF rpc'[r] \in {"sent", "complete"}
                                   THEN Reduced ELSE Reducing]
    BY <1>3 DEF ReduceStep, pool
  <2>2. UNCHANGED orig /\ \A q \in Ranks \ {r} : rpc'[q] = rpc[q]
    <3>1. rpc = [q \in Ranks |-> rpc[q]]
      BY DEF Reducible, R!TypeOK, R!Ranks
    <3> QED
      BY <1>3, <3>1 DEF ReduceStep, Reduction!RankStep, Reduction!Skip, Reduction!RecvSizes,
         Reduction!RecvBuffer, Reduction!SendSizes, Reduction!SendBuffer, Reduction!Sent,
         Reduction!Complete, Reduction!Goto
  <2>3. \A q \in Ranks : pc'[q] >= Reduced =>
          pc[q] >= Reduced \/ rpc'[q] \in {"sent", "complete"}
    BY <2>1
  <2>4. \A q \in Ranks : pc'[q] >= Collected => pc[q] >= Collected
    BY <2>1
  <2>5. 1 < NumRanks => \A q \in Ranks : pc'[q] >= Reduced => rpc'[q] \in {"sent", "complete"}
    <3>1. pc[r] < Reduced
      BY <2>1
    <3> QED
      BY <2>2, <2>3, <3>1 DEF Shared
  <2> QED
    BY <2>1, <2>2, <2>4, <2>5 DEF Shared
<1>4. ASSUME NEW r \in Ranks,
             \/ Start(r) \/ Fail(r) \/ Reduce(r) \/ AfterReduction(r) \/ Open(r) \/ Write(r)
      PROVE  Shared'
  <2>1. UNCHANGED <<have, holder, reduction, sharing>>
    BY <1>4 DEF Start, Fail, Reduce, AfterReduction, Open, Write, pool
  <2>2. \A q \in Ranks : pc'[q] >= Collected => pc[q] >= Collected
    BY <1>4 DEF Start, Fail, Reduce, AfterReduction, Open, Write, Barrier
  <2>3. 1 < NumRanks => \A q \in Ranks : pc'[q] >= Reduced => pc[q] >= Reduced
    BY <1>4 DEF Start, Fail, Reduce, AfterReduction, Open, Write, Barrier
  <2> QED
    BY <2>1, <2>2, <2>3 DEF Shared, reduction
<1>5. CASE UNCHANGED vars
  BY <1>5 DEF vars, reduction, pool, Shared
<1> QED
  BY <1>1, <1>2, <1>3, <1>4, <1>5 DEF Next, RankStep, Ended

LEMMA MasterHas ==
  Places /\ Phases /\ Reducible /\ Loaded /\ Shared => MasterHasCalls
<1> SUFFICES ASSUME Places, Phases, Reducible, Loaded, Shared, pc[0] >= Opening
             PROVE  Content(0).calls = AllCalls
  BY DEF MasterHasCalls
<1>1. 0 \in Ranks /\ pc[0] >= Collected
  BY DEF Places
<1>2. \A e \in Entries : R!Collected(e) => tree[0].data[e] # R!Absent
  <2>1. CASE 1 < NumRanks
    <3>1. rpc[0] \in {"sent", "complete"}
      BY <1>1, <2>1 DEF Shared, Places
    <3>2. rpc[0] # "sent"
      <4>1. R!TypeOK /\ 0 \in R!Ranks
        BY <1>1 DEF Reducible, R!Ranks
      <4>2. R!Peer(0) \in Nat
        BY <4>1, ReductionAssumption, R!PeerRange
      <4>3. R!Sending(0) => R!Peer(0) < 0
        BY <4>1 DEF Reducible, R!IInv, R!Links
      <4> QED
        BY <4>2, <4>3 DEF R!Sending
    <3>3. R!MasterComplete
      BY ReductionAssumption, R!MasterCovers DEF Reducible
    <3> QED
      BY <3>1, <3>2, <3>3 DEF R!MasterComplete, R!Holds, Entries, R!Entries
  <2>2. CASE NumRanks = 1
    <3>1. R!Ranks = {0}
      BY <2>2 DEF R!Ranks
    <3> QED
      BY <3>1 DEF Reducible, R!IInv, R!NothingLost, R!Holds, Entries, R!Entries
  <2> QED
    BY <2>1, <2>2
<1>3. \A e \in Entries : Trace[e] # Absent => R!Collected(e)
  <2> SUFFICES ASSUME NEW e \in Entries, Trace[e] # Absent PROVE R!Collected(e)
    OBVIOUS
  <2>1. e[2] \in Locs
    BY DEF Entries
  <2>2. \E q \in Ranks : e[2] \in have[q]
    <3>1. CASE sharing
      BY <1>1, <2>1, <3>1 DEF Shared
    <3>2. CASE ~sharing
      BY <1>1, <2>1, <3>2 DEF Loaded
    <3> QED
      BY <3>1, <3>2
  <2> QED
    BY <2>2, SameTrees DEF Shared, R!Collected, R!Ranks, Absent
<1>4. \A e \in Entries : tree[0].data[e] # Absent <=> Trace[e] # Absent
  BY <1>1, <1>2, <1>3, SameTrees DEF Loaded, Known, Absent
<1> QED
  BY <1>4 DEF Content, AllCalls, Entries, Absent

(* Rank 0 has every call of the trace after the reduction, in both builds, *)
(* for any number of ranks and whoever read what.                          *)
THEOREM MasterHasTrace == Spec => []MasterHasCalls
BY MasterHas, PhasesInit, PlacesStep, PhasesStep, ReducibleInit, ReducibleStep,
   LoadedInit, LoadedStep, SharedInit, SharedStep, PTL DEF Spec

-----------------------------------------------------------------------------
(* Every variable keeps its type; the file holds contents of ranks.        *)
Rest == left \subseteq Ranks /\ sharing \in BOOLEAN /\ file \in Files /\ aborted \in BOOLEAN

LEMMA RestStep == Places /\ Rest /\ [Next]_vars => Rest'
<1> SUFFICES ASSUME Places, Rest, [Next]_vars PROVE Rest'
  OBVIOUS
<1> USE DEF Rest
<1>1. UNCHANGED sharing
  BY SharingFixed
<1>2. ASSUME NEW r \in Ranks, Write(r) PROVE Rest'
  <2>1. Content(r) \in Contents
    BY DEF Content, Contents, Places
  <2>2. \E state \in {"whole", "garbled"} : file' = [state |-> state, content |-> Content(r)]
    BY <1>2 DEF Write
  <2>3. file' \in Files
    BY <2>1, <2>2 DEF Files
  <2> QED
    BY <1>1, <1>2, <2>3 DEF Write, pool
<1>3. ASSUME NEW r \in Ranks, Open(r) PROVE Rest'
  BY <1>1, <1>3 DEF Open, pool, Files
<1>4. ASSUME NEW r \in Ranks,
             \/ Start(r) \/ Collect(r) \/ Fail(r) \/ Reduce(r) \/ ReduceStep(r)
             \/ AfterReduction(r) \/ \E l \in Locs : Read(r, l)
      PROVE  Rest'
  <2>1. UNCHANGED file /\ (UNCHANGED aborted \/ aborted' = TRUE)
    BY <1>4 DEF Start, Collect, Fail, Reduce, ReduceStep, AfterReduction, Read
  <2>2. UNCHANGED left \/ left' = left \cup {r}
    BY <1>4 DEF Start, Collect, Fail, Reduce, ReduceStep, AfterReduction, Read, pool,
                Pool!Take, Pool!Leave
  <2> QED
    BY <1>1, <2>1, <2>2
<1>5. CASE UNCHANGED vars
  BY <1>5 DEF vars, pool
<1> QED
  BY <1>2, <1>3, <1>4, <1>5 DEF Next, RankStep, Ended

(* Reading, reducing, aborting and writing keep every variable in its type.*)
THEOREM Typing == Spec => []TypeOK
<1>1. Init => Rest
  BY DEF Init, Rest, Pool!Init, Files
<1>2. Places /\ Reducible /\ Shared /\ Rest => TypeOK
  BY SameTypes DEF Places, Reducible, Shared, Rest, TypeOK
<1> QED
  BY <1>1, <1>2, RestStep, PhasesInit, PlacesStep, PhasesStep, ReducibleInit, ReducibleStep,
     SharedInit, SharedStep, PTL DEF Spec
=============================================================================
