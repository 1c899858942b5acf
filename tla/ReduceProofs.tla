---------------------------- MODULE ReduceProofs ----------------------------
(***************************************************************************)
(* Reduce for every number of ranks (a power of two or not), every trace   *)
(* and every way the ranks shared it: no entry is lost on the way, and     *)
(* when rank 0 is through it has them all.                                 *)
(***************************************************************************)
EXTENDS Reduce, TLAPS

USE ReduceAssumption DEF Ranks, Nobody

(* What the operations on trees do to the entries.                         *)
LEMMA PresentEntry ==
  ASSUME NEW d \in Data \cup {Absent}
  PROVE  d # Absent <=> d \in Data
BY DEF Data, Absent, Metrics

LEMMA PackTree ==
  ASSUME NEW t \in Trees
  PROVE  /\ Pack(t) \in Trees
         /\ \A e \in Entries : Pack(t).data[e] # Absent <=> t.data[e] # Absent
<1> DEFINE D(e) == [comm |-> t.data[e].comm \cap t.has[e[1]], metric |-> t.data[e].metric]
<1>1. ASSUME NEW e \in Entries
      PROVE  D(e) \in Data \cup {Absent} /\ (D(e) # Absent <=> t.data[e] # Absent)
  <2>1. t.data[e] \in Data \cup {Absent}
    BY DEF Trees
  <2>2. CASE t.data[e] \in Data
    <3>1. D(e) \in Data
      BY <2>2 DEF Data
    <3> QED
      BY <2>2, <3>1, PresentEntry
  <2>3. CASE t.data[e] = Absent
    <3>1. D(e) = Absent
      BY <2>3 DEF Absent
    <3> QED
      BY <2>3, <3>1
  <2> QED
    BY <2>1, <2>2, <2>3
<1>2. Pack(t) = [nodes |-> t.nodes, data |-> [e \in Entries |-> D(e)], has |-> t.has]
  BY DEF Pack
<1> HIDE DEF D
<1> QED
  BY <1>1, <1>2 DEF Trees

LEMMA UnpackTree ==
  ASSUME NEW t \in Trees
  PROVE  /\ Unpack(t) \in Trees
         /\ \A e \in Entries : Unpack(t).data[e] # Absent <=> t.data[e] # Absent
<1> DEFINE D(e) == IF t.data[e] = Absent THEN Absent
                   ELSE [comm |-> t.data[e].comm, metric |-> Rebuilt(t.data[e].metric)]
           H(n) == {k \in t.has[n] : \E l \in Locs : t.data[<<n, l>>] # Absent}
<1>1. ASSUME NEW e \in Entries
      PROVE  D(e) \in Data \cup {Absent} /\ (D(e) # Absent <=> t.data[e] # Absent)
  <2>1. CASE t.data[e] # Absent
    <3>1. t.data[e] \in Data
      BY <2>1 DEF Trees
    <3>2. Rebuilt(t.data[e].metric) \in Metrics
      BY <3>1 DEF Data, Metrics, Rebuilt
    <3>3. D(e) \in Data
      BY <2>1, <3>1, <3>2 DEF Data
    <3> QED
      BY <2>1, <3>3, PresentEntry
  <2> QED
    BY <2>1
<1>2. \A n \in Nodes : H(n) \in SUBSET Kinds
  BY DEF Trees
<1>3. Unpack(t) = [nodes |-> t.nodes, data |-> [e \in Entries |-> D(e)],
                   has |-> [n \in Nodes |-> H(n)]]
  BY DEF Unpack
<1> HIDE DEF D, H
<1> QED
  BY <1>1, <1>2, <1>3 DEF Trees

LEMMA MergeTrees ==
  ASSUME NEW s \in Trees, NEW t \in Trees
  PROVE  /\ Merge(s, t) \in Trees
         /\ \A e \in Entries :
              Merge(s, t).data[e] # Absent <=> s.data[e] # Absent \/ t.data[e] # Absent
BY DEF Merge, Trees

LEMMA CollectTree ==
  ASSUME NEW trace \in Traces, NEW locs \in SUBSET Locs
  PROVE  Collect(trace, locs) \in Trees
<1> DEFINE seen == {e \in Entries : e[2] \in locs /\ trace[e] # Absent}
           K(n) == UNION {trace[e].comm : e \in {f \in seen : f[1] = n}}
<1>1. \A e \in seen : trace[e] \in Data
  OBVIOUS
<1>2. ASSUME NEW n \in Nodes PROVE K(n) \in SUBSET Kinds
  <2>1. \A e \in seen : trace[e].comm \in SUBSET Kinds
    BY <1>1 DEF Data
  <2> QED
    BY <2>1
<1>3. {e[1] : e \in seen} \in SUBSET Nodes
  BY DEF Entries
<1>4. [e \in Entries |-> IF e \in seen THEN trace[e] ELSE Absent]
        \in [Entries -> Data \cup {Absent}]
  BY <1>1
<1>5. Collect(trace, locs) =
        [nodes |-> {e[1] : e \in seen},
         data |-> [e \in Entries |-> IF e \in seen THEN trace[e] ELSE Absent],
         has |-> [n \in Nodes |-> K(n)]]
  BY DEF Collect
<1> HIDE DEF K, seen
<1> QED
  BY <1>2, <1>3, <1>4, <1>5 DEF Trees

-----------------------------------------------------------------------------
(* The peer is a rank below, or one above by the size of the round.        *)
LEMMA PeerRange ==
  ASSUME TypeOK, NEW r \in Ranks
  PROVE  /\ Peer(r) \in Nat
         /\ Peer(r) = r + round[r] \/ (Peer(r) = r - round[r] /\ Peer(r) < r)
<1>1. round[r] \in Nat /\ round[r] > 0 /\ r \in Nat
  BY DEF TypeOK
<1>2. r % (2 * round[r]) \in Nat /\ r % (2 * round[r]) <= r
  BY <1>1
<1> QED
  BY <1>1, <1>2 DEF Peer

(* A rank that receives has a larger peer.                                 *)
LEMMA ReceivingPeer ==
  ASSUME TypeOK, Links, NEW r \in Ranks, pc[r] = "recv"
  PROVE  Peer(r) \in Ranks /\ Peer(r) = r + round[r] /\ Peer(r) # r
<1>1. r < Peer(r) /\ Peer(r) < NumRanks
  BY DEF Links
<1>2. /\ Peer(r) \in Nat
      /\ Peer(r) = r + round[r] \/ (Peer(r) = r - round[r] /\ Peer(r) < r)
  BY PeerRange
<1>3. r \in Nat
  OBVIOUS
<1> QED
  BY <1>1, <1>2, <1>3

LEMMA InitTypes == Init => TypeOK
<1> SUFFICES ASSUME Init PROVE TypeOK
  OBVIOUS
<1>1. orig \in [Ranks -> Trees]
  <2>1. PICK trace \in Traces, owner \in Owners :
          orig = [r \in Ranks |-> Collect(trace, {l \in Locs : r \in owner[l]})]
    BY DEF Init
  <2>2. \A r \in Ranks : Collect(trace, {l \in Locs : r \in owner[l]}) \in Trees
    BY CollectTree
  <2> QED
    BY <2>1, <2>2
<1>2. tree = orig /\ parcel = orig /\ eager \in BOOLEAN
  BY DEF Init
<1>3. round \in [Ranks -> Nat \ {0}] /\ pc \in [Ranks -> Labels]
  BY DEF Init, Labels
<1>4. sizesTo \in [Ranks -> Ranks \cup {Nobody}] /\ bufferTo \in [Ranks -> Ranks \cup {Nobody}]
  BY DEF Init
<1> QED
  BY <1>1, <1>2, <1>3, <1>4 DEF TypeOK

LEMMA StepTypes == TypeOK /\ Links /\ [Next]_vars => TypeOK'
<1> SUFFICES ASSUME TypeOK, Links, [Next]_vars PROVE TypeOK'
  OBVIOUS
<1> USE DEF Goto, InRound, NextRound
<1>1. ASSUME NEW r \in Ranks, Skip(r) PROVE TypeOK'
  BY <1>1 DEF Skip, TypeOK, Labels
<1>2. ASSUME NEW r \in Ranks, RecvSizes(r) PROVE TypeOK'
  BY <1>2 DEF RecvSizes, TypeOK, Labels
<1>3. ASSUME NEW r \in Ranks, RecvBuffer(r) PROVE TypeOK'
  <2>1. Peer(r) \in Ranks
    BY <1>3, ReceivingPeer DEF RecvBuffer
  <2>2. Merge(tree[r], Unpack(parcel[Peer(r)])) \in Trees
    BY <2>1, UnpackTree, MergeTrees DEF TypeOK
  <2> QED
    BY <1>3, <2>1, <2>2 DEF RecvBuffer, TypeOK, Labels
<1>4. ASSUME NEW r \in Ranks, SendSizes(r) PROVE TypeOK'
  <2>1. Peer(r) \in Ranks
    BY <1>4, PeerRange DEF SendSizes
  <2>2. Pack(tree[r]) \in Trees
    BY PackTree DEF TypeOK
  <2> QED
    BY <1>4, <2>1, <2>2 DEF SendSizes, TypeOK, Labels
<1>5. ASSUME NEW r \in Ranks, SendBuffer(r) PROVE TypeOK'
  <2>1. Peer(r) \in Ranks
    BY <1>5, PeerRange DEF SendBuffer, Links, Sending
  <2> QED
    BY <1>5, <2>1 DEF SendBuffer, TypeOK, Labels
<1>6. ASSUME NEW r \in Ranks, Sent(r) PROVE TypeOK'
  BY <1>6 DEF Sent, TypeOK, Labels
<1>7. ASSUME NEW r \in Ranks, Complete(r) PROVE TypeOK'
  BY <1>7 DEF Complete, TypeOK, Labels
<1>8. CASE UNCHANGED vars
  BY <1>8 DEF vars, TypeOK
<1> QED
  BY <1>1, <1>2, <1>3, <1>4, <1>5, <1>6, <1>7, <1>8 DEF Next, RankStep, Terminated

-----------------------------------------------------------------------------
LEMMA InitInv == Init => IInv
<1> SUFFICES ASSUME Init PROVE IInv
  OBVIOUS
<1>1. Links
  BY DEF Init, Links, Sending
<1>2. Covered
  BY DEF Init, Covered
<1>3. NothingLost
  BY DEF Init, NothingLost, Collected, Holds, Handed
<1> QED
  BY <1>1, <1>2, <1>3 DEF IInv

(* A step that moves no tree and no buffer message and takes no rank out   *)
(* of, or into, the ranks that have handed their tree over.                *)
LEMMA Undisturbed ==
  ASSUME NothingLost, UNCHANGED <<tree, orig>>,
         \A q \in Ranks : Handed(q)' <=> Handed(q)
  PROVE  NothingLost'
BY DEF NothingLost, Collected, Holds

LEMMA StepLinks == TypeOK /\ Links /\ [Next]_vars => Links'
<1> SUFFICES ASSUME TypeOK, Links, [Next]_vars PROVE Links'
  OBVIOUS
<1> USE DEF TypeOK, Goto, InRound, NextRound, Links, Sending, Peer
<1>1. ASSUME NEW r \in Ranks, Skip(r) PROVE Links'
  BY <1>1 DEF Skip
<1>2. ASSUME NEW r \in Ranks, RecvSizes(r) PROVE Links'
  BY <1>2 DEF RecvSizes
<1>3. ASSUME NEW r \in Ranks, RecvBuffer(r) PROVE Links'
  BY <1>3 DEF RecvBuffer
<1>4. ASSUME NEW r \in Ranks, SendSizes(r) PROVE Links'
  BY <1>4 DEF SendSizes
<1>5. ASSUME NEW r \in Ranks, SendBuffer(r) PROVE Links'
  BY <1>5 DEF SendBuffer
<1>6. ASSUME NEW r \in Ranks, Sent(r) PROVE Links'
  BY <1>6 DEF Sent
<1>7. ASSUME NEW r \in Ranks, Complete(r) PROVE Links'
  BY <1>7 DEF Complete
<1>8. CASE UNCHANGED vars
  BY <1>8 DEF vars
<1> QED
  BY <1>1, <1>2, <1>3, <1>4, <1>5, <1>6, <1>7, <1>8 DEF Next, RankStep, Terminated

LEMMA StepCovered == TypeOK /\ Links /\ Covered /\ [Next]_vars => Covered'
<1> SUFFICES ASSUME TypeOK, Links, Covered, [Next]_vars PROVE Covered'
  OBVIOUS
<1> USE DEF TypeOK, Goto, InRound, NextRound
<1>1. ASSUME NEW r \in Ranks, Skip(r) PROVE Covered'
  (* The ranks from r + round up do not exist.                             *)
  <2>1. r + round[r] >= NumRanks
    <3>1. Peer(r) >= NumRanks /\ (Peer(r) = r + round[r] \/ Peer(r) < r)
      BY <1>1, PeerRange DEF Skip
    <3>2. r < NumRanks /\ r \in Nat /\ round[r] \in Nat
      OBVIOUS
    <3>3. Peer(r) \in Nat
      BY PeerRange
    <3> QED
      BY <3>1, <3>2, <3>3
  <2>2. \A q \in Ranks : Handed(q)' <=> Handed(q)
    BY <1>1 DEF Skip, Handed
  <2> QED
    BY <1>1, <2>1, <2>2 DEF Skip, Covered
<1>2. ASSUME NEW r \in Ranks, RecvSizes(r) PROVE Covered'
  BY <1>2 DEF RecvSizes, Covered, Handed
<1>3. ASSUME NEW r \in Ranks, RecvBuffer(r) PROVE Covered'
  <2>0. Peer(r) \in Ranks /\ Peer(r) = r + round[r]
    BY <1>3, ReceivingPeer DEF RecvBuffer
  <2> PICK p \in Ranks, k \in Nat \ {0} : p = Peer(r) /\ k = round[r]
    BY <2>0
  <2>1. p = r + k /\ p # r
    BY <2>0
  <2>2. Peer(p) = r /\ Peer(p) < p
    BY <1>3, <2>1 DEF RecvBuffer, Links, Sending
  <2>3. round[p] = k
    <3>1. Peer(p) = p + round[p] \/ Peer(p) = p - round[p]
      BY <2>1, PeerRange
    <3>2. round[p] \in Nat \ {0} /\ k \in Nat \ {0}
      BY <2>1
    <3> QED
      BY <2>1, <2>2, <3>1, <3>2
  <2>4. Handed(p)'
    <3>1. bufferTo[p] = r /\ r # Nobody
      BY <1>3 DEF RecvBuffer
    <3>2. pc[p] \in {"posted", "sent"}
      BY <3>1 DEF Links
    <3> QED
      BY <1>3, <2>1, <3>2 DEF RecvBuffer, Handed
  <2>5. \A q \in Ranks : Handed(q) => Handed(q)'
    BY <1>3, <2>1 DEF RecvBuffer, Handed
  <2>6. ASSUME NEW q \in Ranks, r < q, q < r + 2 * k PROVE Handed(q)'
    <3>1. CASE q < p
      BY <2>1, <2>5, <2>6, <3>1 DEF Covered
    <3>2. CASE q = p
      BY <2>4, <3>2
    <3>3. CASE q > p
      <4>1. q < p + round[p]
        BY <2>1, <2>3, <2>6
      <4> QED
        BY <2>1, <2>5, <3>3, <4>1 DEF Covered
    <3> QED
      BY <2>1, <3>1, <3>2, <3>3
  <2> QED
    BY <1>3, <2>5, <2>6 DEF RecvBuffer, Covered
<1>4. ASSUME NEW r \in Ranks, SendSizes(r) PROVE Covered'
  BY <1>4 DEF SendSizes, Covered, Handed
<1>5. ASSUME NEW r \in Ranks, SendBuffer(r) PROVE Covered'
  <2>1. \A q \in Ranks : Handed(q) => Handed(q)'
    BY <1>5 DEF SendBuffer, Handed
  <2> QED
    BY <1>5, <2>1 DEF SendBuffer, Covered
<1>6. ASSUME NEW r \in Ranks, Sent(r) PROVE Covered'
  BY <1>6 DEF Sent, Covered, Handed
<1>7. ASSUME NEW r \in Ranks, Complete(r) PROVE Covered'
  BY <1>7 DEF Complete, Covered, Handed
<1>8. CASE UNCHANGED vars
  BY <1>8 DEF vars, Covered, Handed
<1> QED
  BY <1>1, <1>2, <1>3, <1>4, <1>5, <1>6, <1>7, <1>8 DEF Next, RankStep, Terminated

LEMMA StepNothingLost ==
  TypeOK /\ Links /\ NothingLost /\ [Next]_vars => NothingLost'
<1> SUFFICES ASSUME TypeOK, Links, NothingLost, [Next]_vars PROVE NothingLost'
  OBVIOUS
<1> USE DEF TypeOK, Goto, InRound, NextRound
<1>1. ASSUME NEW r \in Ranks, Skip(r) PROVE NothingLost'
  BY <1>1, Undisturbed DEF Skip, Handed
<1>2. ASSUME NEW r \in Ranks, RecvSizes(r) PROVE NothingLost'
  BY <1>2, Undisturbed DEF RecvSizes, Handed
<1>3. ASSUME NEW r \in Ranks, RecvBuffer(r) PROVE NothingLost'
  <2> DEFINE p == Peer(r)
  <2>1. p \in Ranks /\ p # r
    BY <1>3, ReceivingPeer DEF RecvBuffer
  <2>2. parcel[p] = Pack(tree[p])
    BY <1>3, <2>1 DEF RecvBuffer, Links, Sending
  <2>3. \A e \in Entries : Holds(r, e)' <=> Holds(r, e) \/ Holds(p, e)
    <3>1. tree'[r] = Merge(tree[r], Unpack(Pack(tree[p])))
      BY <1>3, <2>2 DEF RecvBuffer
    <3>2. Pack(tree[p]) \in Trees /\ Unpack(Pack(tree[p])) \in Trees
      BY <2>1, PackTree, UnpackTree
    <3>3. \A e \in Entries : Unpack(Pack(tree[p])).data[e] # Absent <=> Holds(p, e)
      BY <2>1, <3>2, PackTree, UnpackTree DEF Holds
    <3> QED
      BY <3>1, <3>2, <3>3, MergeTrees DEF Holds
  <2>4. ~Handed(r)'
    BY <1>3 DEF RecvBuffer, Handed
  <2>5. \A q \in Ranks \ {p, r} : /\ Handed(q)' <=> Handed(q)
                                 /\ \A e \in Entries : Holds(q, e)' <=> Holds(q, e)
    BY <1>3, <2>1 DEF RecvBuffer, Handed, Holds
  <2> HIDE DEF p
  <2> SUFFICES ASSUME NEW e \in Entries, Collected(e)'
               PROVE  \E q \in Ranks : Holds(q, e)' /\ ~Handed(q)'
    BY DEF NothingLost
  <2>6. PICK h \in Ranks : Holds(h, e) /\ ~Handed(h)
    BY <1>3 DEF NothingLost, Collected, RecvBuffer
  <2> QED
    BY <2>3, <2>4, <2>5, <2>6
<1>4. ASSUME NEW r \in Ranks, SendSizes(r) PROVE NothingLost'
  BY <1>4, Undisturbed DEF SendSizes, Handed
<1>5. ASSUME NEW r \in Ranks, SendBuffer(r) PROVE NothingLost'
  <2>1. Peer(r) \in Ranks
    BY <1>5, PeerRange DEF SendBuffer, Links, Sending
  <2>2. \A q \in Ranks : Handed(q)' <=> Handed(q)
    BY <1>5, <2>1 DEF SendBuffer, Handed
  <2> QED
    BY <1>5, <2>2, Undisturbed DEF SendBuffer
<1>6. ASSUME NEW r \in Ranks, Sent(r) PROVE NothingLost'
  BY <1>6, Undisturbed DEF Sent, Handed
<1>7. ASSUME NEW r \in Ranks, Complete(r) PROVE NothingLost'
  BY <1>7, Undisturbed DEF Complete, Handed
<1>8. CASE UNCHANGED vars
  BY <1>8, Undisturbed DEF vars, Handed
<1> QED
  BY <1>1, <1>2, <1>3, <1>4, <1>5, <1>6, <1>7, <1>8 DEF Next, RankStep, Terminated

LEMMA Inductive == Spec => [](TypeOK /\ IInv)
<1>1. Init => TypeOK /\ IInv
  BY InitTypes, InitInv
<1>2. TypeOK /\ IInv /\ [Next]_vars => TypeOK' /\ IInv'
  BY StepTypes, StepLinks, StepCovered, StepNothingLost DEF IInv
<1> QED
  BY <1>1, <1>2, PTL DEF Spec

(* Packing, unpacking and merging keep every variable in its type.         *)
THEOREM Typing == Spec => []TypeOK
BY Inductive, PTL

(* The strengthening the others rest on holds in every state.              *)
THEOREM LinksAndCover == Spec => []IInv
BY Inductive, PTL

(* At no moment is an entry only in a tree that was handed over already.   *)
THEOREM NoEntryLost == Spec => []NothingLost
<1>1. IInv => NothingLost
  BY DEF IInv
<1> QED
  BY <1>1, Inductive, PTL

LEMMA MasterCovers == TypeOK /\ IInv => MasterComplete
<1> SUFFICES ASSUME TypeOK, IInv, pc[0] = "complete", NEW e \in Entries, Collected(e)
             PROVE  Holds(0, e)
  BY DEF MasterComplete
<1>1. PICK h \in Ranks : Holds(h, e) /\ ~Handed(h)
  BY DEF IInv, NothingLost
<1>2. 0 \in Ranks /\ round[0] >= NumRanks
  BY DEF IInv, Links
<1>3. ASSUME h # 0 PROVE FALSE
  <2>1. 0 < h /\ h < 0 + round[0]
    BY <1>2, <1>3 DEF TypeOK
  <2> QED
    BY <1>1, <1>2, <2>1 DEF IInv, Covered
<1> QED
  BY <1>1, <1>3

(* When rank 0 is through the rounds its tree has every entry that some    *)
(* rank collected: the other ranks have all handed theirs over.            *)
THEOREM MasterHasAll == Spec => []MasterComplete
BY MasterCovers, Inductive, PTL

(* Merging never replaces what a rank has read itself.                     *)
THEOREM OwnDataKept == Spec => []OwnKept
<1>1. Init => OwnKept
  BY DEF Init, OwnKept
<1>2. TypeOK /\ OwnKept /\ [Next]_vars => OwnKept'
  <2> SUFFICES ASSUME TypeOK, OwnKept, [Next]_vars PROVE OwnKept'
    OBVIOUS
  <2>1. ASSUME NEW r \in Ranks, RecvBuffer(r) PROVE OwnKept'
    <3>1. tree' = [tree EXCEPT ![r] = Merge(@, Unpack(parcel[Peer(r)]))] /\ orig' = orig
      BY <2>1 DEF RecvBuffer
    <3>2. \A s, t : \A e \in Entries :
            s.data[e] # Absent => Merge(s, t).data[e] = s.data[e]
      BY DEF Merge
    <3> QED
      BY <3>1, <3>2 DEF OwnKept, TypeOK
  <2>2. CASE UNCHANGED <<tree, orig>>
    BY <2>2 DEF OwnKept
  <2>3. (\E r \in Ranks : RecvBuffer(r)) \/ UNCHANGED <<tree, orig>>
    BY DEF Next, RankStep, Terminated, vars, Skip, RecvSizes, SendSizes, SendBuffer,
           Sent, Complete
  <2> QED
    BY <2>1, <2>2, <2>3
<1> QED
  BY <1>1, <1>2, Inductive, PTL DEF Spec
=============================================================================
