------------------------------- MODULE Reduce -------------------------------
(***************************************************************************)
(* The reduction of the call-path trees to rank 0: ReduceData, with        *)
(* pack_worker_data and unpack_worker_data (reduce_data.cpp), and the      *)
(* serialisation and merging of trees they call (data_tree.cpp).           *)
(*                                                                         *)
(* In round 1, 2, 4, ... a rank talks to the rank whose number differs in  *)
(* that bit: the larger one serialises its tree, sends it and is finished, *)
(* the smaller one receives it and merges it into its own.                 *)
(*                                                                         *)
(* A call-path node stands for its whole path from a root, so that merging *)
(* trees by function id along the path is a union of nodes here.  Of the   *)
(* data of a node at a location the model keeps that there is an entry     *)
(* (with its FunctionData), whether the entry has message and collective   *)
(* data, and one metric; times and counts are moved, never computed with.  *)
(***************************************************************************)
EXTENDS Integers

CONSTANTS
  NumRanks,    \* metaData.numRanks
  Nodes,       \* the call paths of the trace
  Locs,        \* the locations of the trace
  Traces,      \* what the trace may hold: functions from Entries to Data
  Owners       \* who may have read what: functions from Locs to sets of ranks

Ranks == 0 .. NumRanks - 1
Nobody == NumRanks
Entries == Nodes \X Locs
Kinds == {"p2p", "collop"}

(* A metric's two values, by where they come from: "zero" is a value that  *)
(* was never filled in.                                                    *)
Metrics == [type : {"UINT64", "INT64", "DOUBLE", "none"},
            incl : {"incl", "excl", "zero"}, excl : {"excl", "zero"}]
NoMetric == [type |-> "none", incl |-> "zero", excl |-> "zero"]

(* What node_data holds for a node and a location: comm are the kinds of   *)
(* message data that are not all zero.                                     *)
Data == [comm : SUBSET Kinds, metric : Metrics]
Absent == [comm |-> {}, metric |-> [type |-> "absent", incl |-> "zero", excl |-> "zero"]]

(* A tree: its nodes, their data by location, and per node the flags       *)
(* has_p2p and has_collop.                                                 *)
Trees == [nodes : SUBSET Nodes, data : [Entries -> Data \cup {Absent}],
          has : [Nodes -> SUBSET Kinds]]

ASSUME ReduceAssumption ==
  /\ NumRanks \in Nat \ {0}
  /\ Traces \subseteq [Entries -> Data \cup {Absent}]
  /\ Owners \subseteq [Locs -> SUBSET Ranks]

VARIABLES
  tree,       \* rank -> its call_path_tree
  parcel,     \* rank -> the packed tree in its pack buffer
  round,      \* rank -> the round it is in
  pc,         \* rank -> where it is in ReduceData
  sizesTo,    \* rank -> to whom its tag 4 message is under way, or Nobody
  bufferTo,   \* rank -> to whom its tag 5 message is under way, or Nobody
  eager,      \* does MPI_Send buffer, or wait for the receiver?
  orig        \* rank -> its tree before the reduction (history)

vars == <<tree, parcel, round, pc, sizesTo, bufferTo, eager, orig>>

Labels == {"round", "recv", "send", "posted", "sent", "complete"}

TypeOK ==
  /\ tree \in [Ranks -> Trees]
  /\ parcel \in [Ranks -> Trees]
  /\ round \in [Ranks -> Nat \ {0}]
  /\ pc \in [Ranks -> Labels]
  /\ sizesTo \in [Ranks -> Ranks \cup {Nobody}]
  /\ bufferTo \in [Ranks -> Ranks \cup {Nobody}]
  /\ eager \in BOOLEAN
  /\ orig \in [Ranks -> Trees]

-----------------------------------------------------------------------------
(* The operations on trees.                                                *)

(* Collecting the events of the locations locs: add_data creates the       *)
(* entries and sets a node's flag with its first message.                  *)
Collect(trace, locs) ==
  LET seen == {e \in Entries : e[2] \in locs /\ trace[e] # Absent}
  IN  [nodes |-> {e[1] : e \in seen},
       data  |-> [e \in Entries |-> IF e \in seen THEN trace[e] ELSE Absent],
       has   |-> [n \in Nodes |-> UNION {trace[e].comm : e \in {f \in seen : f[1] = n}}]]

(* serialize_data and pack_worker_data: every entry is packed, its message *)
(* data only if the node's flag is set.                                    *)
Pack(t) ==
  [nodes |-> t.nodes,
   data  |-> [e \in Entries |-> [comm   |-> t.data[e].comm \cap t.has[e[1]],
                                 metric |-> t.data[e].metric]],
   has   |-> t.has]

(* MetricData{type, value_incl, value_excl}: the two values land in the    *)
(* constructor's parameters u and s, d stays 0, and only data_incl is      *)
(* filled, from the parameter that belongs to the type.                    *)
Rebuilt(m) ==
  [type |-> m.type,
   incl |-> CASE m.type = "UINT64" -> m.incl
              [] m.type = "INT64"  -> m.excl
              [] OTHER             -> "zero",
   excl |-> "zero"]

(* unpack_worker_data: a temporary tree; add_data sets a node's flag when  *)
(* message data arrives for it.                                            *)
Unpack(t) ==
  [nodes |-> t.nodes,
   data  |-> [e \in Entries |->
                IF t.data[e] = Absent THEN Absent
                ELSE [comm   |-> t.data[e].comm,
                      metric |-> Rebuilt(t.data[e].metric)]],
   has   |-> [n \in Nodes |->
                {k \in t.has[n] : \E l \in Locs : t.data[<<n, l>>] # Absent}]]

(* Slip for the mutation runs: call paths the own tree lacks are not merged.*)
MergeKnown(lhs, rhs) ==
  [nodes |-> lhs.nodes \cup rhs.nodes,
   data  |-> [e \in Entries |->
                IF lhs.data[e] # Absent \/ e[1] \notin lhs.nodes
                THEN lhs.data[e] ELSE rhs.data[e]],
   has   |-> [n \in Nodes |-> IF n \in lhs.nodes THEN lhs.has[n] ELSE rhs.has[n]]]

(* Slip: what is received replaces what is there.                          *)
MergeReceived(lhs, rhs) ==
  [nodes |-> lhs.nodes \cup rhs.nodes,
   data  |-> [e \in Entries |->
                IF rhs.data[e] # Absent THEN rhs.data[e] ELSE lhs.data[e]],
   has   |-> [n \in Nodes |-> IF n \in lhs.nodes THEN lhs.has[n] ELSE rhs.has[n]]]

(* merge_tree: an entry that is already there is kept; a node that is      *)
(* already there keeps its flags, a new one comes with its own.  The       *)
(* pointers have_message and have_collop of a node, which are overwritten  *)
(* (data_tree.cpp:114-115), are left out: nothing reads them.              *)
Merge(lhs, rhs) ==
  [nodes |-> lhs.nodes \cup rhs.nodes,
   data  |-> [e \in Entries |->
                IF lhs.data[e] # Absent THEN lhs.data[e] ELSE rhs.data[e]],
   has   |-> [n \in Nodes |-> IF n \in lhs.nodes THEN lhs.has[n] ELSE rhs.has[n]]]

(* myRank ^ round, round being a power of two.                             *)
Peer(r) == IF r % (2 * round[r]) < round[r] THEN r + round[r] ELSE r - round[r]

-----------------------------------------------------------------------------
Init ==
  /\ \E trace \in Traces, owner \in Owners :
       orig = [r \in Ranks |-> Collect(trace, {l \in Locs : r \in owner[l]})]
  /\ tree = orig
  /\ parcel = orig
  /\ round = [r \in Ranks |-> 1]
  /\ pc = [r \in Ranks |-> "round"]
  /\ sizesTo = [r \in Ranks |-> Nobody]
  /\ bufferTo = [r \in Ranks |-> Nobody]
  /\ eager \in BOOLEAN

Goto(r, label) == pc' = [pc EXCEPT ![r] = label]
InRound(r) == pc[r] = "round" /\ round[r] < NumRanks
NextRound(r) == round' = [round EXCEPT ![r] = 2 * @]

(* Slip: continue before the round is advanced.                            *)
SkipStuck(r) ==
  /\ InRound(r)
  /\ Peer(r) >= NumRanks
  /\ UNCHANGED vars

(* The peer's rank does not exist: go on to the next round.                *)
Skip(r) ==
  /\ InRound(r)
  /\ Peer(r) >= NumRanks
  /\ NextRound(r)
  /\ UNCHANGED <<tree, parcel, pc, sizesTo, bufferTo, eager, orig>>

(* The smaller rank: MPI_Recv with tag 4, then a buffer of that size.      *)
RecvSizes(r) ==
  /\ InRound(r)
  /\ r < Peer(r) /\ Peer(r) < NumRanks
  /\ sizesTo[Peer(r)] = r
  /\ sizesTo' = [sizesTo EXCEPT ![Peer(r)] = Nobody]
  /\ Goto(r, "recv")
  /\ UNCHANGED <<tree, parcel, round, bufferTo, eager, orig>>

(* MPI_Recv with tag 5, unpacking, merging.                                *)
RecvBuffer(r) ==
  /\ pc[r] = "recv"
  /\ bufferTo[Peer(r)] = r
  /\ bufferTo' = [bufferTo EXCEPT ![Peer(r)] = Nobody]
  /\ tree' = [tree EXCEPT ![r] = Merge(@, Unpack(parcel[Peer(r)]))]
  /\ NextRound(r)
  /\ Goto(r, "round")
  /\ UNCHANGED <<parcel, sizesTo, eager, orig>>

(* The larger rank: serialise, pack, MPI_Send with tag 4.                  *)
SendSizes(r) ==
  /\ InRound(r)
  /\ Peer(r) < r
  /\ parcel' = [parcel EXCEPT ![r] = Pack(tree[r])]
  /\ sizesTo' = [sizesTo EXCEPT ![r] = Peer(r)]
  /\ Goto(r, "send")
  /\ UNCHANGED <<tree, round, bufferTo, eager, orig>>

(* The first MPI_Send has returned; MPI_Send with tag 5.                   *)
SendBuffer(r) ==
  /\ pc[r] = "send"
  /\ eager \/ sizesTo[r] = Nobody
  /\ bufferTo' = [bufferTo EXCEPT ![r] = Peer(r)]
  /\ Goto(r, "posted")
  /\ UNCHANGED <<tree, parcel, round, sizesTo, eager, orig>>

(* The second MPI_Send has returned: break, free the pack buffer.          *)
Sent(r) ==
  /\ pc[r] = "posted"
  /\ eager \/ bufferTo[r] = Nobody
  /\ Goto(r, "sent")
  /\ UNCHANGED <<tree, parcel, round, sizesTo, bufferTo, eager, orig>>

(* Slip: one round too few.                                                *)
CompleteEarly(r) ==
  /\ pc[r] = "round" /\ 2 * round[r] >= NumRanks
  /\ Goto(r, "complete")
  /\ UNCHANGED <<tree, parcel, round, sizesTo, bufferTo, eager, orig>>

(* No round is left.                                                       *)
Complete(r) ==
  /\ pc[r] = "round" /\ round[r] >= NumRanks
  /\ Goto(r, "complete")
  /\ UNCHANGED <<tree, parcel, round, sizesTo, bufferTo, eager, orig>>

RankStep(r) ==
  \/ Skip(r) \/ RecvSizes(r) \/ RecvBuffer(r)
  \/ SendSizes(r) \/ SendBuffer(r) \/ Sent(r) \/ Complete(r)

(* All ranks have left ReduceData.                                         *)
Terminated ==
  /\ \A r \in Ranks : pc[r] \in {"sent", "complete"}
  /\ UNCHANGED vars

Next == Terminated \/ \E r \in Ranks : RankStep(r)

Fairness == \A r \in Ranks : WF_vars(RankStep(r))

Spec == Init /\ [][Next]_vars /\ Fairness

-----------------------------------------------------------------------------
Handed(r) == pc[r] \in {"posted", "sent"} /\ bufferTo[r] = Nobody

Holds(r, e) == tree[r].data[e] # Absent
Collected(e) == \E r \in Ranks : orig[r].data[e] # Absent

(* No entry is ever lost: from the first round to the last, each node's    *)
(* data for each location is in the tree of a rank that has not handed its *)
(* tree over, on whichever side of whichever message the ranks are.        *)
NothingLost ==
  \A e \in Entries :
    Collected(e) => \E r \in Ranks : Holds(r, e) /\ ~Handed(r)

(* A rank that reached round k has merged the trees of the k - 1 ranks     *)
(* above it, so what it sends on is complete for all of them.              *)
Covered ==
  \A q, r \in Ranks : r < q /\ q < r + round[r] => Handed(q)

(* "how many rounds until master has all the data?" (reduce_data.cpp:382): *)
(* when rank 0 leaves ReduceData its tree has an entry for every node and  *)
(* location some rank collected.                                           *)
MasterComplete ==
  pc[0] = "complete" => \A e \in Entries : Collected(e) => Holds(0, e)

(* What a rank has read itself stays as it was, message data and metrics   *)
(* included: a merge never puts what was sent and Rebuilt in its place.    *)
(* In the program as built every rank reads everything, and this is why    *)
(* rank 0's output does not suffer from what the way through the messages  *)
(* does to the data.                                                       *)
OwnKept ==
  \A r \in Ranks, e \in Entries :
    orig[r].data[e] # Absent => tree[r].data[e] = orig[r].data[e]

(* The conjuncts that make NothingLost and Covered inductive: which rank   *)
(* waits for, or has sent to, which peer.                                  *)
Sending(r) == pc[r] \in {"send", "posted", "sent"}

Links ==
  \A r \in Ranks :
    /\ Sending(r) => Peer(r) < r /\ parcel[r] = Pack(tree[r])
    /\ bufferTo[r] # Nobody => pc[r] \in {"posted", "sent"} /\ bufferTo[r] = Peer(r)
    /\ pc[r] = "recv" => r < Peer(r) /\ Peer(r) < NumRanks
    /\ pc[r] = "complete" => round[r] >= NumRanks

IInv == Links /\ Covered /\ NothingLost

(* Every rank leaves ReduceData, also when MPI_Send waits for the receiver:*)
(* the order of sends and receives has no cycle.                           *)
Termination == <>(\A r \in Ranks : pc[r] \in {"sent", "complete"})
=============================================================================
