---------------------------- MODULE TreeTransfer ----------------------------
(***************************************************************************)
(* How a call-path tree gets from one rank into the tree of another, node  *)
(* by node: serialize_data with getting_serial, the constructor from a     *)
(* mapping, merge_tree with merge_node (data_tree.cpp), pack_worker_data   *)
(* and unpack_worker_data with the pack buffer they share (reduce_data.cpp,*)
(* definitions.h), and tree_iter, with which CreateJSON goes through the   *)
(* result (data_tree.h).  Reduce takes all of this as operations on sets   *)
(* of call paths; the properties here say that it may.                     *)
(*                                                                         *)
(* A tree is given as the set of its call paths, sequences of function     *)
(* ids.  One rank receives the trees of several senders, one after the     *)
(* other.  Its nodes are objects: the node that is created for path p out  *)
(* of sender k's message is the object <<k, p>>, and <<0, p>> is one the   *)
(* rank collected itself.  What a node holds for a location is only        *)
(* counted here; Reduce says what becomes of it.                           *)
(***************************************************************************)
EXTENDS Integers, Sequences, SequencesExt

CONSTANTS
  Functions,      \* function ids
  OwnTrees,       \* trees the receiver may have: sets of call paths
  SentTrees,      \* sender k = 1, 2, ... -> the trees it may send
  LocationsOf,    \* 0 or k -> call path -> the locations with data there
  P2P, Collop,    \* the functions with point-to-point, collective data
  NumMetrics      \* metrics a node has for each location

NoParent == -1    \* (uint64_t)-1
Null == <<>>
Senders == DOMAIN SentTrees
Closed(paths) == \A p \in paths : Len(p) > 1 => Front(p) \in paths

ASSUME TransferAssumption ==
  /\ Functions \subseteq Nat
  /\ OwnTrees \subseteq SUBSET Seq(Functions)
  /\ SentTrees \in Seq(SUBSET SUBSET Seq(Functions)) /\ SentTrees # <<>>
  /\ \A T \in OwnTrees : Closed(T) /\ <<>> \notin T
  /\ \A k \in Senders : \A T \in SentTrees[k] :
       /\ Closed(T) /\ <<>> \notin T
       /\ \A p \in T : IsFiniteSet(LocationsOf[k][p])
  /\ NumMetrics \in Nat

VARIABLES
  pc,           \* which loop the two ranks are in
  sender,       \* the sender whose turn it is
  tree,         \* the call paths of the sender's tree
  frames,       \* the calls of getting_serial, or of merge_node, that are open
  node_stack,   \* numbers of the nodes getting_serial is in
  mapping,      \* by number 0, 1, ...: [function, parent]
  f_data,       \* the [id, location] that are packed
  position,     \* words of 8 bytes that are packed
  bytesize,     \* words the packed tree may have
  packBufferSize,   \* 0 or k -> words the pack buffer of that rank holds
  node_of,      \* by number 0, 1, ...: the object made for it
  roots,        \* roots of the receiver's tree
  tmp_roots,    \* roots of tmp_tree
  parent,       \* object -> object, or Null
  children,     \* object -> its children
  node_data,    \* object -> the locations it has data for
  current,      \* where the iterator is, or Null
  visited,      \* the objects it came to (history)
  expected      \* what the receiver's tree should hold (history)

serial == <<sender, tree, node_stack, mapping, f_data>>
buffers == <<position, bytesize, packBufferSize>>
nodes == <<parent, children, node_data>>
iteration == <<current, visited>>
vars == <<pc, frames, serial, buffers, node_of, roots, tmp_roots, nodes,
          iteration, expected>>

Function(o) == Last(o[2])
Objects == DOMAIN parent
Under(paths, p) == {q \in paths : Len(q) = Len(p) + 1 /\ Front(q) = p}
Object(k, p) == IF p = <<>> THEN Null ELSE <<k, p>>

(* What is first in a map by function id.                                  *)
First(S) == CHOOSE o \in S : \A q \in S : Function(o) <= Function(q)

(* The objects of the tree with these roots: those one comes to from them, *)
(* from child to child.  On the way to the object of a path are objects of *)
(* its prefixes (ParentsLive), out of whatever messages k they are.        *)
Reach(from) ==
  {o \in Objects :
     \E k \in [1 .. Len(o[2]) -> {0} \cup Senders] :
       LET on(i) == <<k[i], SubSeq(o[2], 1, i)>>
       IN  /\ on(1) \in from /\ k[Len(o[2])] = o[1]
           /\ \A i \in 1 .. Len(o[2]) - 1 : on(i) \in Objects /\ on(i + 1) \in children[on(i)]}
EntriesOf(objects) == UNION {{<<o[2], l>> : l \in node_data[o]} : o \in objects}
PathsOf(objects) == {o[2] : o \in objects}
SentEntries == UNION {{<<p, l>> : l \in LocationsOf[sender][p]} : p \in tree}

Labels == {"serialize", "receive", "rebuild", "merge", "count", "climb", "done"}

TypeOK ==
  /\ pc \in Labels
  /\ sender \in Senders /\ tree \in SentTrees[sender]
  /\ \A m \in Range(mapping) : m.function \in Functions /\ m.parent \in -1 .. Len(mapping)
  /\ \A f \in f_data : f.id \in 0 .. Len(mapping) - 1
  /\ position \in Nat /\ bytesize \in Nat
  /\ packBufferSize \in [{0} \cup Senders -> Nat]
  /\ Range(node_of) \subseteq Objects \cup {Null}
  /\ roots \cup tmp_roots \subseteq Objects
  /\ children \in [Objects -> SUBSET Objects]
  /\ DOMAIN node_data = Objects
  /\ current \in Objects \cup {Null}

-----------------------------------------------------------------------------
(* getting_serial and serialize_data.  The lowest frame is serialize_data, *)
(* whose node is the empty path: its loop is over the roots.               *)

Call(node, left) == [node |-> node, left |-> left]
Top == Last(frames)
Push(from, call) == Append([frames EXCEPT ![Len(frames)].left = @ \ {from}], call)
PathFirst(paths) == CHOOSE p \in paths : \A q \in paths : Last(p) <= Last(q)

SerializeData(T) == <<Call(<<>>, Under(T, <<>>))>>

Init ==
  /\ pc = "serialize" /\ sender = 1
  /\ tree \in SentTrees[1] /\ frames = SerializeData(tree)
  /\ node_stack = <<>> /\ mapping = <<>> /\ f_data = {}
  /\ position = 0 /\ bytesize = 0
  /\ packBufferSize = [k \in {0} \cup Senders |-> 0]
  /\ node_of = <<>> /\ tmp_roots = {}
  /\ \E T \in OwnTrees :
       /\ roots = {<<0, p>> : p \in Under(T, <<>>)}
       /\ parent = [o \in {<<0, p>> : p \in T} |-> Object(0, Front(o[2]))]
       /\ children = [o \in {<<0, p>> : p \in T} |-> {<<0, p>> : p \in Under(T, o[2])}]
  /\ node_data = [o \in Objects |-> LocationsOf[0][o[2]]]
  /\ current = Null /\ visited = <<>>
  /\ expected = EntriesOf(Objects)

(* Slip: counted up before the data are numbered.                          *)
CounterNext == Len(mapping) + 1

(* counter: how many nodes have got their number.                          *)
Counter == Len(mapping)

(* The call of getting_serial for a node.                                  *)
SerializeNode ==
  /\ pc = "serialize" /\ Top.left # {}
  /\ LET p == PathFirst(Top.left)
     IN  /\ frames' = Push(p, Call(p, Under(tree, p)))
         /\ mapping' = Append(mapping,
              [function |-> Last(p),
               parent   |-> IF node_stack = <<>> THEN NoParent ELSE Last(node_stack)])
         /\ node_stack' = Append(node_stack, Counter)
         /\ f_data' = f_data \cup
              {[id |-> Counter, location |-> l] : l \in LocationsOf[sender][p]}
  /\ UNCHANGED <<pc, sender, tree, buffers, node_of, roots, tmp_roots, nodes,
                 iteration, expected>>

(* Slip: the node stays on node_stack.                                     *)
SerializeReturnKeep ==
  /\ pc = "serialize" /\ Top.left = {} /\ Len(frames) > 1
  /\ frames' = Front(frames)
  /\ UNCHANGED <<pc, serial, buffers, node_of, roots, tmp_roots, nodes,
                 iteration, expected>>

(* All children of a node are done.                                        *)
SerializeReturn ==
  /\ pc = "serialize" /\ Top.left = {} /\ Len(frames) > 1
  /\ frames' = Front(frames)
  /\ node_stack' = Front(node_stack)
  /\ UNCHANGED <<pc, sender, tree, mapping, f_data, buffers, node_of, roots,
                 tmp_roots, nodes, iteration, expected>>

-----------------------------------------------------------------------------
(* The messages.                                                           *)

(* m_data and c_data: the entries of nodes with the flag.                  *)
EntriesWith(flagged) ==
  Cardinality({f \in f_data : mapping[f.id + 1].function \in flagged})
Sizes == [mapping |-> Len(mapping), function |-> Cardinality(f_data),
          message |-> EntriesWith(P2P), collop |-> EntriesWith(Collop),
          metric  |-> NumMetrics * Cardinality(f_data)]

(* Slip: num_fences starts at 0.                                           *)
RoomNoFence(s) ==
  5 + 3 * s.mapping + (3 + 2) * s.function + 6 * s.message + 6 * s.collop + 7 * s.metric

(* bytesize: num_fences ends at 6.                                         *)
Room(s) ==
  6 + 3 * s.mapping + (3 + 2) * s.function + 6 * s.message + 6 * s.collop + 7 * s.metric

(* What MPI_Pack moves position by, one call after the other.              *)
Packed(s) ==
  LET fence == 1
  IN  fence + 3 * s.mapping + fence + 5 * s.function + fence + 6 * s.message
      + fence + 6 * s.collop + fence + (4 + 2) * s.metric + fence

(* Slip: the buffer is not made larger once there is one.                  *)
GuaranteeOnce(rank, size) ==
  packBufferSize' = [packBufferSize EXCEPT ![rank] = IF @ = 0 THEN size ELSE @]

GuaranteePackBuffer(rank, size) ==
  packBufferSize' = [packBufferSize EXCEPT ![rank] = IF @ < size THEN size ELSE @]

(* pack_worker_data; the sizes and the buffer are sent.                    *)
PackWorkerData ==
  /\ pc = "serialize" /\ Top.left = {} /\ Len(frames) = 1
  /\ bytesize' = Room(Sizes)
  /\ GuaranteePackBuffer(sender, Room(Sizes))
  /\ position' = Packed(Sizes)
  /\ pc' = "receive"
  /\ UNCHANGED <<frames, serial, node_of, roots, tmp_roots, nodes, iteration, expected>>

(* prepare_worker_data; the buffer is received; a new tmp_tree.            *)
PrepareWorkerData ==
  /\ pc = "receive"
  /\ GuaranteePackBuffer(0, bytesize)
  /\ node_of' = <<>> /\ tmp_roots' = {}
  /\ pc' = "rebuild"
  /\ UNCHANGED <<frames, serial, position, bytesize, roots, nodes, iteration, expected>>

-----------------------------------------------------------------------------
(* unpack_worker_data.                                                     *)

(* The constructor data_tree(mapping) makes the next node.  A child that   *)
(* is there already gives no node; a parent that has no node yet is a      *)
(* nullptr, so that the node becomes a root.                               *)
RebuildNode ==
  /\ pc = "rebuild" /\ Len(node_of) < Len(mapping)
  /\ LET m     == mapping[Len(node_of) + 1]
         above == IF m.parent + 1 \in DOMAIN node_of THEN node_of[m.parent + 1] ELSE Null
         self  == <<sender, Append(IF above = Null THEN <<>> ELSE above[2], m.function)>>
         there == IF above = Null THEN {} ELSE {o \in children[above] : Function(o) = m.function}
     IN  IF there # {}
           THEN /\ node_of' = Append(node_of, Null)
                /\ UNCHANGED <<tmp_roots, parent, children, node_data>>
           ELSE /\ node_of' = Append(node_of, self)
                /\ tmp_roots' = tmp_roots \cup IF above = Null THEN {self} ELSE {}
                /\ parent' = [o \in Objects \cup {self} |->
                                IF o = self THEN above ELSE parent[o]]
                /\ children' = [o \in Objects \cup {self} |->
                                  CASE o = self  -> {}
                                    [] o = above -> children[o] \cup {self}
                                    [] OTHER     -> children[o]]
                /\ node_data' = [o \in Objects \cup {self} |->
                                   IF o = self THEN {} ELSE node_data[o]]
  /\ UNCHANGED <<pc, frames, serial, buffers, roots, iteration, expected>>

(* The function data of every entry goes to the node with its number; then *)
(* merge_tree is called: its loop is over the roots of tmp_tree.           *)
UnpackFunctionData ==
  /\ pc = "rebuild" /\ Len(node_of) = Len(mapping)
  /\ node_data' = [o \in Objects |-> node_data[o] \cup
                     {f.location : f \in {g \in f_data : node_of[g.id + 1] = o}}]
  /\ frames' = <<Call(Null, tmp_roots)>>
  /\ expected' = expected \cup SentEntries
  /\ pc' = "merge"
  /\ UNCHANGED <<serial, buffers, node_of, roots, tmp_roots, parent, children, iteration>>

Matching(c) ==
  {o \in IF Top.node = Null THEN roots ELSE children[Top.node] : Function(o) = Function(c)}

(* Slip: the data of a node that is there already are not merged.          *)
MergeNodeOnly ==
  /\ pc = "merge" /\ Top.left # {}
  /\ LET c == First(Top.left)
     IN  \E o \in Matching(c) : frames' = Push(c, Call(o, children[c]))
  /\ UNCHANGED <<pc, serial, buffers, node_of, roots, tmp_roots, nodes,
                 iteration, expected>>

(* merge_tree and merge_node find the node in the own tree: merge_node.    *)
(* data_tree.cpp:114-115 also copy have_message and have_collop, pointers  *)
(* to data of the node in tmp_tree, which is destroyed after the merge;    *)
(* they are left out, since nothing reads them.                            *)
MergeNode ==
  /\ pc = "merge" /\ Top.left # {}
  /\ LET c == First(Top.left)
     IN  \E o \in Matching(c) :
           /\ node_data' = [node_data EXCEPT ![o] = @ \cup node_data[c]]
           /\ frames' = Push(c, Call(o, children[c]))
  /\ UNCHANGED <<pc, serial, buffers, node_of, roots, tmp_roots, parent, children,
                 iteration, expected>>

(* Slip: the parent of a subtree that moves is not set.                    *)
InsertSubTreeOnly(c) ==
  /\ children' = [children EXCEPT ![Top.node] = @ \cup {c}]
  /\ UNCHANGED parent

InsertSubTree(c) ==
  /\ parent' = [parent EXCEPT ![c] = Top.node]
  /\ children' = [children EXCEPT ![Top.node] = @ \cup {c}]

(* They do not find it: the node is taken over with all below it.          *)
TakeOver ==
  /\ pc = "merge" /\ Top.left # {}
  /\ LET c == First(Top.left)
     IN  /\ Matching(c) = {}
         /\ frames' = [frames EXCEPT ![Len(frames)].left = @ \ {c}]
         /\ IF Top.node = Null
              THEN roots' = roots \cup {c} /\ UNCHANGED <<parent, children>>
              ELSE InsertSubTree(c) /\ UNCHANGED roots
  /\ UNCHANGED <<pc, serial, buffers, node_of, tmp_roots, node_data, iteration, expected>>

MergeReturn ==
  /\ pc = "merge" /\ Top.left = {} /\ Len(frames) > 1
  /\ frames' = Front(frames)
  /\ UNCHANGED <<pc, serial, buffers, node_of, roots, tmp_roots, nodes, iteration, expected>>

(* unpack_worker_data returns: tmp_tree is destroyed, and with it all nodes*)
(* that the own tree does not hold.                                        *)
Destroy ==
  LET live == Reach(roots)
  IN  /\ parent' = [o \in live |-> parent[o]]
      /\ children' = [o \in live |-> children[o]]
      /\ node_data' = [o \in live |-> node_data[o]]
      /\ node_of' = <<>> /\ tmp_roots' = {}
Merged == pc = "merge" /\ Top.left = {} /\ Len(frames) = 1

(* The next round of ReduceData, with another sender.                      *)
NextSender ==
  /\ Merged /\ Destroy
  /\ sender + 1 \in Senders
  /\ sender' = sender + 1
  /\ tree' \in SentTrees[sender'] /\ frames' = SerializeData(tree')
  /\ node_stack' = <<>> /\ mapping' = <<>> /\ f_data' = {}
  /\ pc' = "serialize"
  /\ UNCHANGED <<buffers, roots, iteration, expected>>

-----------------------------------------------------------------------------
(* CreateJSON goes through the tree with tree_iter.                        *)

Begin ==
  /\ Merged /\ Destroy
  /\ sender + 1 \notin Senders
  /\ current' = IF roots = {} THEN Null ELSE First(roots)
  /\ pc' = "count"
  /\ UNCHANGED <<frames, serial, buffers, roots, visited, expected>>

(* The loop's body, and operator++ as far as the first child.              *)
Visit ==
  /\ pc = "count" /\ current # Null
  /\ visited' = Append(visited, current)
  /\ IF children[current] # {}
       THEN current' = First(children[current]) /\ UNCHANGED pc
       ELSE pc' = "climb" /\ UNCHANGED current
  /\ UNCHANGED <<frames, serial, buffers, node_of, roots, tmp_roots, nodes, expected>>

Later(S) == {o \in S : Function(o) > Function(current)}

(* Slip: the iteration ends with the first root.                           *)
ClimbRoot ==
  /\ pc = "climb"
  /\ IF parent[current] = Null
       THEN current' = Null /\ pc' = "count"
       ELSE LET next == Later(children[parent[current]])
            IN  IF next # {} THEN current' = First(next) /\ pc' = "count"
                ELSE current' = parent[current] /\ UNCHANGED pc
  /\ UNCHANGED <<frames, serial, buffers, node_of, roots, tmp_roots, nodes, visited, expected>>

(* A turn of operator++'s loop: the next sibling, the next root, or up.    *)
Climb ==
  /\ pc = "climb"
  /\ LET next == Later(IF parent[current] = Null THEN roots ELSE children[parent[current]])
     IN  \/ next # {} /\ current' = First(next) /\ pc' = "count"
         \/ next = {} /\ parent[current] # Null /\ current' = parent[current] /\ UNCHANGED pc
         \/ next = {} /\ parent[current] = Null /\ current' = Null /\ pc' = "count"
  /\ UNCHANGED <<frames, serial, buffers, node_of, roots, tmp_roots, nodes, visited, expected>>

End ==
  /\ pc = "count" /\ current = Null
  /\ pc' = "done"
  /\ UNCHANGED <<frames, serial, buffers, node_of, roots, tmp_roots, nodes, iteration, expected>>

Terminated == pc = "done" /\ UNCHANGED vars

Next ==
  \/ SerializeNode \/ SerializeReturn \/ PackWorkerData \/ PrepareWorkerData
  \/ RebuildNode \/ UnpackFunctionData
  \/ MergeNode \/ TakeOver \/ MergeReturn \/ NextSender
  \/ Begin \/ Visit \/ Climb \/ End
  \/ Terminated

Spec == Init /\ [][Next]_vars

-----------------------------------------------------------------------------
(* What is rebuilt from numbers is what was numbered: tmp_tree has the     *)
(* sender's call paths and, at each, its data (data_tree.h:34: the order   *)
(* of the mapping is important).                                           *)
RoundTrip ==
  pc = "merge" => /\ PathsOf(Reach(tmp_roots)) = tree
                  /\ EntriesOf(Reach(tmp_roots)) = SentEntries

(* A merge is a union: after it the tree has an entry for every path and   *)
(* location that some tree had, and no other, although branches of         *)
(* tmp_tree become part of it and the rest is destroyed.                   *)
MergedUnion ==
  pc # "merge" => EntriesOf(Reach(roots)) = expected

(* The raw parent pointers, which the iterator climbs along, agree with    *)
(* the maps of children, also where two trees have grown together: none    *)
(* leads into a tmp_tree that is gone.                                     *)
ParentsLive ==
  /\ \A o \in Reach(roots) : \A c \in children[o] :
       parent[c] = o /\ c[2] = Append(o[2], Function(c))
  /\ \A o \in roots : parent[o] = Null /\ Len(o[2]) = 1
  /\ \A o, q \in Reach(roots) : o[2] = q[2] => o = q

(* The iterator comes to each node of the merged tree once.                *)
VisitedOnce ==
  /\ IsInjective(visited)
  /\ pc = "done" => Range(visited) = Reach(roots)

(* What is packed fits what was reserved for it, on both ranks, whatever   *)
(* the rank received before.                                               *)
BufferHolds ==
  /\ position <= bytesize
  /\ pc = "receive" => bytesize <= packBufferSize[sender]
  /\ pc \in {"rebuild", "merge"} => bytesize <= packBufferSize[0]
=============================================================================
