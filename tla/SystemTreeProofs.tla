-------------------------- MODULE SystemTreeProofs --------------------------
(***************************************************************************)
(* SystemTree for traces of any length, any strings and any number of      *)
(* roots: every node hangs below the one the trace says; and for any tree  *)
(* with one root: the iterator comes to every node once, and the counts    *)
(* are complete.                                                           *)
(***************************************************************************)
EXTENDS SystemTree, FiniteSetTheorems, WellFoundedInduction, TLAPS

USE SystemTreeAssumption DEF None

(* The k-th entry of a vector is the node of the definition with the       *)
(* reference k, counted from 0.                                            *)
Registered(vector, kind, definitions) ==
  \A k \in 1 .. Len(vector) : /\ definitions[vector[k] + 1].kind = kind
                              /\ definitions[vector[k] + 1].ref = k - 1

(* The iterator stands on a node while it climbs.                          *)
OnNode == pc = "climb" => current \in NodeIds

Inv ==
  /\ TypeOK
  /\ Registered(system_nodes, "node", trace)
  /\ Registered(location_grps, "group", trace)
  /\ ParentAsDefined
  /\ OnNode

-----------------------------------------------------------------------------
(* A node and its definition are added.                                    *)
LEMMA Added ==
  ASSUME TypeOK, NEW new, new = Len(nodes),
         NEW node \in SystemData, NEW d \in Definitions,
         nodes' = Append(nodes, node), trace' = Append(trace, d)
  PROVE  /\ nodes' \in Seq(SystemData) /\ Len(nodes') = Len(nodes) + 1
         /\ trace' \in Seq(Definitions) /\ Len(trace') = Len(trace) + 1
         /\ NodeIds' = NodeIds \cup {new} /\ new \in Nat
         /\ new \notin NodeIds
         /\ \A n \in NodeIds : n \in Nat /\ Node(n)' = Node(n) /\ trace'[n + 1] = trace[n + 1]
         /\ Node(new)' = node /\ trace'[new + 1] = d
<1>1. /\ nodes \in Seq(SystemData) /\ trace \in Seq(Definitions)
      /\ Len(trace) = Len(nodes) /\ new \in Nat
  BY DEF TypeOK
<1> HIDE DEF TypeOK
<1>2. /\ nodes' \in Seq(SystemData) /\ Len(nodes') = Len(nodes) + 1
      /\ trace' \in Seq(Definitions) /\ Len(trace') = Len(trace) + 1
  BY <1>1
<1>3. NodeIds' = NodeIds \cup {new} /\ new \notin NodeIds
  BY <1>1, <1>2 DEF NodeIds
<1>4. ASSUME NEW n \in NodeIds
      PROVE  n \in Nat /\ Node(n)' = Node(n) /\ trace'[n + 1] = trace[n + 1]
  <2>1. n \in Nat /\ n + 1 \in 1 .. Len(nodes)
    BY <1>1 DEF NodeIds
  <2> QED
    BY <1>1, <2>1 DEF Node
<1>5. Node(new)' = node /\ trace'[new + 1] = d
  BY <1>1 DEF Node
<1> QED
  BY <1>1, <1>2, <1>3, <1>4, <1>5

(* It hangs below the one that its definition names.                       *)
LEMMA AddedBelow ==
  ASSUME TypeOK, ParentAsDefined, NEW new, new = Len(nodes),
         NEW node \in SystemData, NEW d \in Definitions,
         nodes' = Append(nodes, node), trace' = Append(trace, d),
         IF d.parent = None
         THEN node.parent = None
         ELSE /\ node.parent \in NodeIds
              /\ trace[node.parent + 1].kind = ParentKind(d.kind)
              /\ trace[node.parent + 1].ref = d.parent
  PROVE  ParentAsDefined'
<1>1. /\ NodeIds' = NodeIds \cup {new} /\ new \notin NodeIds
      /\ \A n \in NodeIds : Node(n)' = Node(n) /\ trace'[n + 1] = trace[n + 1]
      /\ Node(new)' = node /\ trace'[new + 1] = d
  BY Added
<1>2. ASSUME NEW n \in NodeIds PROVE HangsBelow(n, trace[n + 1])'
  <2>1. HangsBelow(n, trace[n + 1])
    BY DEF ParentAsDefined
  <2> QED
    BY <1>1, <2>1 DEF HangsBelow
<1>3. HangsBelow(new, d)'
  BY <1>1 DEF HangsBelow
<1>4. HangsBelow(new, trace[new + 1])'
  BY <1>1, <1>3 DEF HangsBelow
<1> QED
  BY <1>1, <1>2, <1>4 DEF ParentAsDefined

(* A vector gets the new node, or stays as it is.                          *)
LEMMA StillRegistered ==
  ASSUME TypeOK, NEW vector \in Seq(NodeIds), NEW kind, Registered(vector, kind, trace),
         NEW new, new = Len(nodes),
         NEW node \in SystemData, NEW d \in Definitions,
         nodes' = Append(nodes, node), trace' = Append(trace, d)
  PROVE  /\ vector \in Seq(NodeIds')
         /\ Registered(vector, kind, trace')
         /\ d.kind = kind /\ d.ref = Len(vector) =>
              /\ Append(vector, new) \in Seq(NodeIds')
              /\ Registered(Append(vector, new), kind, trace')
<1>1. /\ NodeIds' = NodeIds \cup {new} /\ new \in Nat
      /\ \A n \in NodeIds : trace'[n + 1] = trace[n + 1]
      /\ trace'[new + 1] = d
  BY Added
<1>2. vector \in Seq(NodeIds')
  BY <1>1
<1>3. \A k \in 1 .. Len(vector) :
        vector[k] \in NodeIds /\ trace'[vector[k] + 1].kind = kind
        /\ trace'[vector[k] + 1].ref = k - 1
  <2>1. \A k \in 1 .. Len(vector) : vector[k] \in NodeIds
    OBVIOUS
  <2> QED
    BY <1>1, <2>1 DEF Registered
<1>4. ASSUME d.kind = kind, d.ref = Len(vector)
      PROVE  /\ Append(vector, new) \in Seq(NodeIds')
             /\ \A k \in 1 .. Len(Append(vector, new)) :
                  /\ trace'[Append(vector, new)[k] + 1].kind = kind
                  /\ trace'[Append(vector, new)[k] + 1].ref = k - 1
  <2> DEFINE longer == Append(vector, new)
  <2>1. /\ longer \in Seq(NodeIds') /\ Len(longer) = Len(vector) + 1
        /\ \A k \in 1 .. Len(vector) : longer[k] = vector[k]
        /\ longer[Len(vector) + 1] = new /\ Len(vector) \in Nat
    BY <1>1, <1>2
  <2> HIDE DEF longer
  <2>2. ASSUME NEW k \in 1 .. Len(longer)
        PROVE  trace'[longer[k] + 1].kind = kind /\ trace'[longer[k] + 1].ref = k - 1
    <3>1. CASE k \in 1 .. Len(vector)
      BY <1>3, <2>1, <3>1
    <3>2. CASE k = Len(vector) + 1
      <4>1. longer[k] = new /\ k - 1 = Len(vector)
        BY <2>1, <3>2
      <4> QED
        BY <1>1, <1>4, <4>1
    <3>3. k \in 1 .. Len(vector) \/ k = Len(vector) + 1
      BY <2>1
    <3> QED
      BY <3>1, <3>2, <3>3
  <2> QED
    BY <2>1, <2>2 DEF longer
<1> QED
  BY <1>2, <1>3, <1>4 DEF Registered


(* The three kinds of definitions.                                         *)
Fits(id, class, parent, d) ==
  \/ /\ class = "LOCATION" /\ d.kind = "location" /\ id \in LocationIds
     /\ parent \in 0 .. Len(location_grps) - 1
  \/ /\ class = "LOCATION_GROUP" /\ d.kind = "group" /\ d.ref = Len(location_grps)
     /\ parent \in 0 .. Len(system_nodes) - 1
  \/ /\ class \notin {"LOCATION", "LOCATION_GROUP"} /\ d.kind = "node"
     /\ d.ref = Len(system_nodes)
     /\ parent \in (0 .. Len(system_nodes) - 1) \cup {None}

(* Its parent is the node that was registered with the parent's reference. *)
Found(class, parent, d) ==
  IF parent = None
  THEN ParentOf(class, parent) = None
  ELSE /\ ParentOf(class, parent) \in NodeIds
       /\ trace[ParentOf(class, parent) + 1].kind = ParentKind(d.kind)
       /\ trace[ParentOf(class, parent) + 1].ref = d.parent

LEMMA ParentFound ==
  ASSUME Inv, NEW id, NEW class \in SystemClasses, NEW parent, NEW d,
         Fits(id, class, parent, d), d.parent = parent
  PROVE  Found(class, parent, d)
<1>1. /\ system_nodes \in Seq(NodeIds) /\ location_grps \in Seq(NodeIds)
      /\ Registered(system_nodes, "node", trace)
      /\ Registered(location_grps, "group", trace)
  BY DEF Inv, TypeOK
<1>2. CASE class = "LOCATION"
  <2>1. /\ d.kind = "location" /\ parent \in 0 .. Len(location_grps) - 1
    BY <1>2 DEF Fits
  <2>2. /\ parent + 1 \in 1 .. Len(location_grps) /\ (parent + 1) - 1 = parent
        /\ parent # None
    BY <1>1, <2>1
  <2>3. ParentOf(class, parent) = location_grps[parent + 1]
    BY <1>2 DEF ParentOf
  <2>4. location_grps[parent + 1] \in NodeIds
    BY <1>1, <2>2
  <2> QED
    BY <1>1, <2>1, <2>2, <2>3, <2>4 DEF Registered, ParentKind, Found
<1>3. CASE class # "LOCATION" /\ parent # None
  <2>1. /\ d.kind \in {"group", "node"} /\ parent \in 0 .. Len(system_nodes) - 1
    BY <1>3 DEF Fits
  <2>2. /\ parent + 1 \in 1 .. Len(system_nodes) /\ (parent + 1) - 1 = parent
    BY <1>1, <2>1
  <2>3. ParentOf(class, parent) = system_nodes[parent + 1]
    BY <1>3 DEF ParentOf
  <2>4. system_nodes[parent + 1] \in NodeIds
    BY <1>1, <2>2
  <2> QED
    BY <1>1, <1>3, <2>1, <2>2, <2>3, <2>4 DEF Registered, ParentKind, Found
<1>4. CASE class # "LOCATION" /\ parent = None
  BY <1>4, Zenon DEF ParentOf, Found
<1> QED
  BY <1>2, <1>3, <1>4

(* A definition that is taken over.                                        *)
LEMMA Defines ==
  ASSUME Inv, NEW new, new = Len(nodes), new < MaxNodes,
         NEW id \in Nat, NEW class \in SystemClasses, NEW parent, NEW d \in Definitions,
         Fits(id, class, parent, d), d.parent = parent,
         InsertNode(id, class, parent), trace' = Append(trace, d)
  PROVE  /\ nodes' \in Seq(SystemData) /\ Len(nodes') <= MaxNodes
         /\ NodeIds \subseteq NodeIds' /\ root' \in NodeIds' \cup {None}
         /\ system_nodes' \in Seq(NodeIds') /\ location_grps' \in Seq(NodeIds')
         /\ locations' \in [LocationIds -> NodeIds' \cup {None}]
         /\ num_nodes_per_level' \in Seq(Nat)
         /\ trace' \in Seq(Definitions) /\ Len(trace') = Len(nodes')
         /\ Registered(system_nodes', "node", trace')
         /\ Registered(location_grps', "group", trace')
         /\ ParentAsDefined'
<1> DEFINE p == ParentOf(class, parent)
           level == IF p = None THEN 0 ELSE Node(p).level + 1
           node == [class_id |-> class, location_id |-> id, level |-> level, parent |-> p]
<1>1. /\ TypeOK /\ ParentAsDefined /\ nodes \in Seq(SystemData) /\ new \in Nat
      /\ system_nodes \in Seq(NodeIds) /\ location_grps \in Seq(NodeIds)
      /\ Registered(system_nodes, "node", trace)
      /\ Registered(location_grps, "group", trace)
      /\ locations \in [LocationIds -> NodeIds \cup {None}]
      /\ num_nodes_per_level \in Seq(Nat) /\ root \in NodeIds \cup {None}
  BY DEF Inv, TypeOK
<1>2. IF parent = None
      THEN p = None
      ELSE /\ p \in NodeIds
           /\ trace[p + 1].kind = ParentKind(d.kind) /\ trace[p + 1].ref = d.parent
  <2>1. Found(class, parent, d)
    BY ParentFound, Zenon
  <2> QED
    BY <2>1, Zenon DEF Found
<1>3. nodes' = Append(nodes, node)
  BY DEF InsertNode
<1>4. root' = (IF p = None THEN new ELSE root)
      /\ num_nodes_per_level' = IF p = None THEN Append(num_nodes_per_level, 1)
                                ELSE CountLevel(num_nodes_per_level, level)
  BY DEF InsertNode
<1> HIDE DEF p
<1>5. p \in NodeIds \cup {None} /\ level \in Nat
  <2>1. p \in NodeIds => Node(p).level \in Nat
    <3>1. ASSUME NEW m \in NodeIds PROVE Node(m).level \in Nat
      <4>1. m + 1 \in 1 .. Len(nodes)
        BY <1>1 DEF NodeIds
      <4>2. nodes[m + 1] \in SystemData
        BY <1>1, <4>1
      <4> QED
        BY <4>2 DEF Node, SystemData
    <3> QED
      BY <3>1
  <2>2. -1 \notin NodeIds
    BY DEF NodeIds
  <2> QED
    BY <1>2, <2>1, <2>2
<1>6. node \in SystemData
  <2>1. NodeIds \subseteq Nat
    BY <1>1 DEF NodeIds
  <2> HIDE DEF level
  <2> QED
    BY <1>5, <2>1 DEF SystemData
<1> HIDE DEF node, level
<1>7. node.parent = p
  BY DEF node
<1>8. ParentAsDefined'
  BY <1>1, <1>2, <1>3, <1>6, <1>7, AddedBelow
<1>9. /\ nodes' \in Seq(SystemData) /\ Len(nodes') = new + 1
      /\ trace' \in Seq(Definitions) /\ Len(trace') = Len(nodes')
      /\ NodeIds' = NodeIds \cup {new}
  BY <1>1, <1>3, <1>6, Added DEF TypeOK
<1>10. Len(nodes') <= MaxNodes /\ NodeIds \subseteq NodeIds' /\ root' \in NodeIds' \cup {None}
  BY <1>1, <1>4, <1>9
<1>11. num_nodes_per_level' \in Seq(Nat)
  <2>1. CountLevel(num_nodes_per_level, level) \in Seq(Nat)
    <3>1. CASE level < Len(num_nodes_per_level)
      <4>1. level + 1 \in 1 .. Len(num_nodes_per_level)
        BY <1>1, <1>5, <3>1
      <4>2. num_nodes_per_level[level + 1] + 1 \in Nat
        BY <1>1, <4>1
      <4> QED
        BY <1>1, <3>1, <4>1, <4>2 DEF CountLevel
    <3>2. CASE ~(level < Len(num_nodes_per_level))
      BY <1>1, <3>2 DEF CountLevel
    <3> QED
      BY <3>1, <3>2
  <2> QED
    BY <1>1, <1>4, <2>1
<1>12. /\ system_nodes \in Seq(NodeIds') /\ location_grps \in Seq(NodeIds')
       /\ Registered(system_nodes, "node", trace')
       /\ Registered(location_grps, "group", trace')
       /\ d.kind = "node" /\ d.ref = Len(system_nodes) =>
            /\ Append(system_nodes, new) \in Seq(NodeIds')
            /\ Registered(Append(system_nodes, new), "node", trace')
       /\ d.kind = "group" /\ d.ref = Len(location_grps) =>
            /\ Append(location_grps, new) \in Seq(NodeIds')
            /\ Registered(Append(location_grps, new), "group", trace')
  BY <1>1, <1>3, <1>6, StillRegistered
<1>13. CASE class = "LOCATION"
  <2>1. /\ locations' = [locations EXCEPT ![id] = new] /\ id \in LocationIds
        /\ location_grps' = location_grps /\ system_nodes' = system_nodes
    BY <1>13 DEF InsertNode, Fits
  <2>2. locations' \in [LocationIds -> NodeIds' \cup {None}]
    BY <1>1, <1>9, <2>1
  <2> QED
    BY <1>8, <1>9, <1>10, <1>11, <1>12, <2>1, <2>2
<1>14. CASE class = "LOCATION_GROUP"
  <2>1. /\ location_grps' = Append(location_grps, new)
        /\ locations' = locations /\ system_nodes' = system_nodes
        /\ d.kind = "group" /\ d.ref = Len(location_grps)
    BY <1>14 DEF InsertNode, Fits
  <2> QED
    BY <1>1, <1>8, <1>9, <1>10, <1>11, <1>12, <2>1
<1>15. CASE class \notin {"LOCATION", "LOCATION_GROUP"}
  <2>1. /\ system_nodes' = Append(system_nodes, new)
        /\ locations' = locations /\ location_grps' = location_grps
        /\ d.kind = "node" /\ d.ref = Len(system_nodes)
    BY <1>15 DEF InsertNode, Fits
  <2> QED
    BY <1>1, <1>8, <1>9, <1>10, <1>11, <1>12, <2>1
<1> QED
  BY <1>13, <1>14, <1>15


(* What the definition callbacks leave to do, once Defines is known.       *)
LEMMA Taken ==
  ASSUME Inv, pc = "definitions", UNCHANGED <<pc, iteration>>,
         nodes' \in Seq(SystemData) /\ Len(nodes') <= MaxNodes,
         NodeIds \subseteq NodeIds' /\ root' \in NodeIds' \cup {None},
         system_nodes' \in Seq(NodeIds') /\ location_grps' \in Seq(NodeIds'),
         locations' \in [LocationIds -> NodeIds' \cup {None}],
         num_nodes_per_level' \in Seq(Nat),
         trace' \in Seq(Definitions) /\ Len(trace') = Len(nodes'),
         Registered(system_nodes', "node", trace'),
         Registered(location_grps', "group", trace'),
         ParentAsDefined',
         DOMAIN string_definitions' \subseteq Refs, locationList' \in Seq(LocationIds)
  PROVE  Inv'
<1>1. /\ current \in NodeIds \cup {None}
      /\ profile \in [thread_count : Nat, process_count : Nat, node_count : Nat]
  BY DEF Inv, TypeOK
<1>2. TypeOK'
  BY <1>1 DEF TypeOK, iteration
<1> QED
  BY <1>2 DEF Inv, OnNode

LEMMA Classes == ASSUME NEW text
                 PROVE Classify(text) \in SystemClasses \ {"LOCATION", "LOCATION_GROUP"}
BY DEF Classify, SystemClasses

LEMMA InitInv == Init => Inv
<1> SUFFICES ASSUME Init PROVE Inv
  OBVIOUS
<1>1. NodeIds = {} /\ Len(nodes) = 0 /\ Len(trace) = 0
      /\ Len(system_nodes) = 0 /\ Len(location_grps) = 0
  BY DEF Init, NodeIds
<1>2. TypeOK
  BY <1>1 DEF Init, TypeOK, Refs
<1>3. ParentAsDefined /\ OnNode
  BY <1>1 DEF Init, ParentAsDefined, OnNode
<1> QED
  BY <1>1, <1>2, <1>3 DEF Inv, Registered

LEMMA Inductive == Inv /\ [Next]_vars => Inv'
<1> SUFFICES ASSUME Inv, [Next]_vars PROVE Inv'
  OBVIOUS
<1>1. ASSUME NEW ref \in Refs, DefString(ref) PROVE Inv'
  BY <1>1 DEF DefString, Inv, TypeOK, tables, iteration, Registered, ParentAsDefined,
              HangsBelow, OnNode, NodeIds, Node
<1>2. ASSUME NEW ref \in Refs, Interrupt(ref) PROVE Inv'
  BY <1>2 DEF Interrupt, Inv, TypeOK, tables, iteration, Registered, ParentAsDefined,
              HangsBelow, OnNode, NodeIds, Node
<1>3. ASSUME NEW name \in NameRefs, NEW className \in ClassRefs, NEW parent \in -1 .. MaxNodes,
             DefSystemTreeNode(name, className, parent)
      PROVE  Inv'
  <2> DEFINE class == Classify(string_definitions[className])
             d == [kind |-> "node", class |-> Classify(Texts[className]),
                   ref |-> Len(system_nodes), parent |-> parent]
  <2>1. /\ pc = "definitions" /\ Len(nodes) < MaxNodes
        /\ parent \in (0 .. Len(system_nodes) - 1) \cup {None}
        /\ InsertNode(Len(system_nodes), class, parent) /\ trace' = Append(trace, d)
        /\ DOMAIN string_definitions' = DOMAIN string_definitions
        /\ locationList' = locationList /\ UNCHANGED <<pc, iteration>>
    BY <1>3 DEF DefSystemTreeNode, Room, Note
  <2>2. Len(system_nodes) \in Nat /\ parent \in Nat \cup {None}
    BY <2>1 DEF Inv, TypeOK
  <2>3. class \in SystemClasses /\ class \notin {"LOCATION", "LOCATION_GROUP"}
    BY Classes
  <2>4. d \in Definitions /\ d.parent = parent
    BY <2>2, Classes DEF Definitions
  <2>5. Fits(Len(system_nodes), class, parent, d)
    BY <2>1, <2>3 DEF Fits
  <2>6. DOMAIN string_definitions' \subseteq Refs /\ locationList' \in Seq(LocationIds)
    BY <2>1 DEF Inv, TypeOK
  <2> HIDE DEF class, d
  <2> QED
    BY <2>1, <2>2, <2>3, <2>4, <2>5, <2>6, Defines, Taken
<1>4. ASSUME NEW name \in NameRefs, NEW parent \in 0 .. MaxNodes, DefLocationGroup(name, parent)
      PROVE  Inv'
  <2> DEFINE d == [kind |-> "group", class |-> "LOCATION_GROUP",
                   ref |-> Len(location_grps), parent |-> parent]
  <2>1. /\ pc = "definitions" /\ Len(nodes) < MaxNodes
        /\ parent \in 0 .. Len(system_nodes) - 1
        /\ InsertNode(Len(location_grps), "LOCATION_GROUP", parent) /\ trace' = Append(trace, d)
        /\ string_definitions' = string_definitions
        /\ locationList' = locationList /\ UNCHANGED <<pc, iteration>>
    BY <1>4 DEF DefLocationGroup, Room, Note
  <2>2. Len(location_grps) \in Nat /\ parent \in Nat
    BY <2>1 DEF Inv, TypeOK
  <2>3. "LOCATION_GROUP" \in SystemClasses
    BY DEF SystemClasses
  <2>4. d \in Definitions /\ d.parent = parent
    BY <2>2, <2>3 DEF Definitions
  <2>5. Fits(Len(location_grps), "LOCATION_GROUP", parent, d)
    BY <2>1 DEF Fits
  <2>6. DOMAIN string_definitions' \subseteq Refs /\ locationList' \in Seq(LocationIds)
    BY <2>1 DEF Inv, TypeOK
  <2> HIDE DEF d
  <2> QED
    BY <2>1, <2>2, <2>3, <2>4, <2>5, <2>6, Defines, Taken
<1>5. ASSUME NEW id \in LocationIds, NEW name \in LocationNames, NEW type \in LocationTypes,
             NEW group \in 0 .. MaxNodes, DefLocation(id, name, type, group)
      PROVE  Inv'
  <2> DEFINE d == [kind |-> "location", class |-> "LOCATION", ref |-> id, parent |-> group]
  <2>1. /\ pc = "definitions" /\ Len(nodes) < MaxNodes
        /\ group \in 0 .. Len(location_grps) - 1
        /\ InsertNode(id, "LOCATION", group) /\ trace' = Append(trace, d)
        /\ string_definitions' = string_definitions
        /\ locationList' = locationList \o IF type \in {"CPU_THREAD", "GPU"} THEN <<id>> ELSE <<>>
        /\ UNCHANGED <<pc, iteration>>
    BY <1>5 DEF DefLocation, Room, Note
  <2>2. id \in Nat /\ group \in Nat
    OBVIOUS
  <2>3. "LOCATION" \in SystemClasses
    BY DEF SystemClasses
  <2>4. d \in Definitions /\ d.parent = group
    BY <2>2, <2>3 DEF Definitions
  <2>5. Fits(id, "LOCATION", group, d)
    BY <2>1 DEF Fits
  <2>6. DOMAIN string_definitions' \subseteq Refs /\ locationList' \in Seq(LocationIds)
    BY <2>1 DEF Inv, TypeOK
  <2> HIDE DEF d
  <2> QED
    BY <2>1, <2>2, <2>3, <2>4, <2>5, <2>6, Defines, Taken
<1>6. ASSUME Count PROVE Inv'
  <2>1. /\ TypeOK /\ UNCHANGED <<string_definitions, tables, trace>> /\ OnNode
        /\ Registered(system_nodes, "node", trace) /\ Registered(location_grps, "group", trace)
        /\ ParentAsDefined
    BY <1>6 DEF Count, BeginCount, CountNode, Climb, EndCount, Inv
  <2>2. /\ Registered(system_nodes, "node", trace)' /\ Registered(location_grps, "group", trace)'
        /\ ParentAsDefined' /\ NodeIds' = NodeIds
    BY <2>1 DEF tables, Registered, ParentAsDefined, HangsBelow, NodeIds, Node
  <2>3. /\ current' \in NodeIds \cup {None}
        /\ profile' \in [thread_count : Nat, process_count : Nat, node_count : Nat]
        /\ pc' \in {"count", "climb", "done"} /\ (pc' = "climb" => current' \in NodeIds)
    <3>1. CASE BeginCount
      BY <2>1, <3>1 DEF BeginCount, TypeOK
    <3>2. CASE CountNode
      <4>1. Lowest(Children(current)) \subseteq NodeIds
        BY DEF Lowest, Children
      <4>2. Counted(Node(current).class_id)
              \in [thread_count : Nat, process_count : Nat, node_count : Nat]
        <5>1. profile \in [thread_count : Nat, process_count : Nat, node_count : Nat]
          BY <2>1 DEF TypeOK
        <5>2. \A class : \/ Counted(class) = [profile EXCEPT !.thread_count = @ + 1]
                          \/ Counted(class) = [profile EXCEPT !.process_count = @ + 1]
                          \/ Counted(class) = [profile EXCEPT !.node_count = @ + 1]
                          \/ Counted(class) = profile
          BY DEF Counted
        <5>3. /\ profile.thread_count + 1 \in Nat /\ profile.process_count + 1 \in Nat
              /\ profile.node_count + 1 \in Nat
          BY <5>1
        <5> QED
          BY <5>1, <5>2, <5>3
      <4>3. current \in NodeIds
        BY <2>1, <3>2 DEF CountNode, TypeOK
      <4> QED
        BY <3>2, <4>1, <4>2, <4>3 DEF CountNode
    <3>3. CASE Climb
      <4>1. current \in NodeIds
        BY <2>1, <3>3 DEF Climb, OnNode
      <4>2. Lowest(Later(current)) \subseteq NodeIds
        BY DEF Lowest, Later, Children
      <4>3. Node(current).parent # None => Node(current).parent \in NodeIds
        BY <2>1, <4>1 DEF ParentAsDefined, HangsBelow
      <4>4. UNCHANGED profile
        BY <3>3 DEF Climb
      <4>5. \/ current' = None /\ pc' = "count"
            \/ current' \in NodeIds /\ pc' \in {"count", "climb"}
        BY <3>3, <4>2, <4>3 DEF Climb
      <4> QED
        BY <2>1, <4>4, <4>5 DEF TypeOK
    <3>4. CASE EndCount
      BY <2>1, <3>4 DEF EndCount, TypeOK, iteration
    <3> QED
      BY <1>6, <3>1, <3>2, <3>3, <3>4 DEF Count
  <2>4. TypeOK'
    BY <2>1, <2>2, <2>3 DEF TypeOK, tables
  <2> QED
    BY <2>2, <2>3, <2>4 DEF Inv, OnNode
<1>7. CASE UNCHANGED vars
  BY <1>7 DEF vars, Inv, TypeOK, tables, iteration, Registered, ParentAsDefined,
              HangsBelow, OnNode, NodeIds, Node
<1> QED
  BY <1>1, <1>2, <1>3, <1>4, <1>5, <1>6, <1>7 DEF Next, Terminated

-----------------------------------------------------------------------------
(* The tables of the tree and the iterator's place have their types: no    *)
(* position in a vector leaves it, and the iterator stands on a node.      *)
THEOREM Typing == Spec => []TypeOK
<1>1. Inv => TypeOK
  BY DEF Inv
<1> QED
  BY <1>1, InitInv, Inductive, PTL DEF Spec

(* In every trace each node hangs below the one that the trace defined     *)
(* with the reference of its parent.                                       *)
THEOREM TreeAsDefined == Spec => []ParentAsDefined
<1>1. Inv => ParentAsDefined
  BY DEF Inv
<1> QED
  BY <1>1, InitInv, Inductive, PTL DEF Spec

-----------------------------------------------------------------------------
(* What the definitions make of the tree: parents come before children,    *)
(* the classes that are counted are those of the trace, the root has no    *)
(* parent, and every location that is read has its node.                   *)
Formed ==
  \A n \in NodeIds : Node(n).parent # None => Node(n).parent \in NodeIds /\ Node(n).parent < n
Classed ==
  \A n \in NodeIds : \A class \in {"LOCATION", "LOCATION_GROUP"} :
    Node(n).class_id = class <=> trace[n + 1].class = class
OneRoot == MaxRoots = 1 => \A n \in NodeIds : Node(n).parent = None => n = 0
RootFound == root # None => Node(root).parent = None
LocationsFound ==
  /\ \A l \in Range(locationList) : locations[l] # None
  /\ \A l \in LocationIds :
       locations[l] # None => Node(locations[l]).class_id = "LOCATION"
Tree == Formed /\ Classed /\ OneRoot /\ RootFound /\ LocationsFound

(* The counts are those of the nodes V.                                    *)
Within(V, class) == Cardinality({n \in V : Node(n).class_id = class})
Tally(V) == /\ profile.process_count = Within(V, "LOCATION_GROUP")
            /\ profile.thread_count = Within(V, "LOCATION")

(* A is the way from the root to the node c.                               *)
Way(A, c) ==
  /\ c \in A
  /\ \A a \in A : a <= c /\ (Node(a).parent # None => Node(a).parent \in A)
  /\ \A a, b \in A : a < b => a <= Node(b).parent

(* V are the nodes that come before c in the iterator's order: those of the*)
(* way, and all that hangs to the left of it.                              *)
Before(V, A, c) ==
  /\ \A v \in V : Node(v).parent # None => Node(v).parent \in V
  /\ A \ {c} \subseteq V
  /\ \A a \in A : Node(a).parent # None =>
       \A b \in Children(Node(a).parent) : (b < a => b \in V) /\ (b > a => b \notin V)
  /\ \A v \in V \ A : Children(v) \subseteq V

Halfway ==
  \E V, A \in SUBSET NodeIds :
    /\ Tally(V) /\ Way(A, current) /\ Before(V, A, current)
    /\ pc = "count" => current \notin V
    /\ pc = "climb" => {current} \cup Children(current) \subseteq V

Walked ==
  MaxRoots = 1 =>
    /\ pc = "definitions" => profile.process_count = 0 /\ profile.thread_count = 0
    /\ pc \in {"count", "climb"} /\ current # None => Halfway
    /\ pc = "done" \/ (pc = "count" /\ current = None) => Tally(NodeIds)

-----------------------------------------------------------------------------
(* Steps of the iterator, in a tree that does not change.                  *)
LEMMA Numbers == Inv => \A n \in NodeIds : n \in Nat
BY DEF Inv, TypeOK, NodeIds

(* Down to the first child.                                                *)
LEMMA Descend ==
  ASSUME Inv, Formed, NEW V \in SUBSET NodeIds, NEW A \in SUBSET NodeIds, NEW c \in NodeIds,
         Way(A, c), Before(V, A, c), c \notin V, NEW d \in Lowest(Children(c))
  PROVE  Way(A \cup {d}, d) /\ Before(V \cup {c}, A \cup {d}, d) /\ d \notin V \cup {c}
<1>1. /\ d \in NodeIds /\ Node(d).parent = c /\ c # None
      /\ \A b \in Children(c) : d <= b
  BY Numbers DEF Lowest, Children
<1>2. \A n \in NodeIds : n \in Nat
  BY Numbers
<1>3. c < d
  BY <1>1 DEF Formed
<1>4. \A v \in V : Node(v).parent # c
  BY <1>1 DEF Before
<1>5. d \notin V \cup {c}
  BY <1>1, <1>2, <1>3, <1>4
<1>6. \A a \in A : a \in Nat /\ a <= c /\ a < d
  <2>1. \A a \in A : a \in Nat /\ a <= c
    BY <1>2 DEF Way
  <2>2. c \in Nat /\ d \in Nat
    BY <1>1, <1>2
  <2> QED
    BY <1>3, <2>1, <2>2
<1>7. Way(A \cup {d}, d)
  <2>1. \A a \in A \cup {d} : a <= d /\ (Node(a).parent # None => Node(a).parent \in A \cup {d})
    BY <1>1, <1>2, <1>6 DEF Way
  <2>2. ASSUME NEW a \in A \cup {d}, NEW b \in A \cup {d}, a < b
        PROVE  a <= Node(b).parent
    <3>1. CASE b = d
      <4>1. a \in A
        BY <1>1, <1>2, <2>2, <3>1
      <4> QED
        BY <1>1, <1>6, <3>1, <4>1
    <3>2. CASE b \in A /\ a \in A
      BY <2>2, <3>2 DEF Way
    <3>3. CASE b \in A /\ a = d
      <4>1. b \in Nat /\ b < d /\ d < b /\ d \in Nat
        BY <1>1, <1>2, <1>6, <2>2, <3>3
      <4> QED
        BY <4>1
    <3> QED
      BY <3>1, <3>2, <3>3
  <2> QED
    BY <2>1, <2>2 DEF Way
<1>8. Before(V \cup {c}, A \cup {d}, d)
  <2>1. A \subseteq V \cup {c}
    BY DEF Before
  <2>2. ASSUME NEW v \in V \cup {c}, Node(v).parent # None PROVE Node(v).parent \in V \cup {c}
    <3>1. CASE v \in V
      BY <2>2, <3>1 DEF Before
    <3>2. CASE v = c
      BY <2>1, <2>2, <3>2 DEF Way
    <3> QED
      BY <3>1, <3>2
  <2>3. ASSUME NEW a \in A \cup {d}, Node(a).parent # None, NEW b \in Children(Node(a).parent)
        PROVE  (b < a => b \in V \cup {c}) /\ (b > a => b \notin V \cup {c})
    <3>1. b \in NodeIds /\ Node(b).parent = Node(a).parent
      BY DEF Children
    <3>2. CASE a = d
      <4>1. b \in Nat /\ d \in Nat /\ c \in Nat /\ d <= b
        BY <1>1, <1>2, <3>1, <3>2
      <4>2. b \notin V
        BY <1>1, <1>4, <3>1, <3>2
      <4> QED
        BY <1>3, <3>2, <4>1, <4>2
    <3>3. CASE a \in A
      <4>1. /\ b < a => b \in V
            /\ b > a => b \notin V
        BY <2>3, <3>3 DEF Before
      <4>2. ASSUME b = c, b > a PROVE FALSE
        <5>1. a <= Node(c).parent
          BY <3>3, <4>2 DEF Way
        <5>2. a \in NodeIds /\ Node(a).parent < a /\ Node(a).parent \in NodeIds
          BY <2>3, <3>3 DEF Formed
        <5> QED
          BY <1>2, <3>1, <4>2, <5>1, <5>2
      <4> QED
        BY <4>1, <4>2
    <3> QED
      BY <3>2, <3>3
  <2>4. ASSUME NEW v \in (V \cup {c}) \ (A \cup {d}) PROVE Children(v) \subseteq V \cup {c}
    <3>1. v \in V \ A
      BY DEF Way
    <3> QED
      BY <3>1 DEF Before
  <2> QED
    BY <2>1, <2>2, <2>3, <2>4 DEF Before
<1> QED
  BY <1>5, <1>7, <1>8

(* A node without children.                                                *)
LEMMA AtLeaf ==
  ASSUME Inv, Formed, NEW V \in SUBSET NodeIds, NEW A \in SUBSET NodeIds, NEW c \in NodeIds,
         Way(A, c), Before(V, A, c), c \notin V
  PROVE  Before(V \cup {c}, A, c)
<1>1. \A n \in NodeIds : n \in Nat
  BY Numbers
<1>2. A \subseteq V \cup {c} /\ c \in A
  BY DEF Before, Way
<1>3. ASSUME NEW v \in V \cup {c}, Node(v).parent # None PROVE Node(v).parent \in V \cup {c}
  <2>1. CASE v \in V
    BY <1>3, <2>1 DEF Before
  <2>2. CASE v = c
    BY <1>2, <1>3, <2>2 DEF Way
  <2> QED
    BY <2>1, <2>2
<1>4. ASSUME NEW a \in A, Node(a).parent # None, NEW b \in Children(Node(a).parent)
      PROVE  (b < a => b \in V \cup {c}) /\ (b > a => b \notin V \cup {c})
  <2>1. b \in NodeIds /\ Node(b).parent = Node(a).parent
    BY DEF Children
  <2>2. /\ b < a => b \in V
        /\ b > a => b \notin V
    BY <1>4 DEF Before
  <2>3. ASSUME b = c, b > a PROVE FALSE
    <3>1. a <= Node(c).parent
      BY <1>2, <2>3 DEF Way
    <3>2. a \in NodeIds /\ Node(a).parent < a /\ Node(a).parent \in NodeIds
      BY <1>4 DEF Formed
    <3> QED
      BY <1>1, <2>1, <2>3, <3>1, <3>2
  <2> QED
    BY <2>2, <2>3
<1>5. \A v \in (V \cup {c}) \ A : Children(v) \subseteq V \cup {c}
  BY <1>2 DEF Before
<1> QED
  BY <1>2, <1>3, <1>4, <1>5 DEF Before

(* From c, with all below it, to its next sibling.                         *)
LEMMA Aside ==
  ASSUME Inv, Formed, NEW V \in SUBSET NodeIds, NEW A \in SUBSET NodeIds, NEW c \in NodeIds,
         Way(A, c), Before(V, A, c), {c} \cup Children(c) \subseteq V,
         Node(c).parent # None, NEW d \in Lowest(Later(c))
  PROVE  /\ Way((A \ {c}) \cup {d}, d) /\ Before(V, (A \ {c}) \cup {d}, d) /\ d \notin V
<1> DEFINE p == Node(c).parent
           B == (A \ {c}) \cup {d}
<1>1. /\ d \in NodeIds /\ Node(d).parent = p /\ c < d
      /\ \A b \in Children(p) : b > c => d <= b
  BY DEF Lowest, Later, Children
<1>2. \A n \in NodeIds : n \in Nat
  BY Numbers
<1>3. /\ p \in A /\ p < c /\ p # None /\ c \in A /\ p \in NodeIds
  BY DEF Way, Formed
<1> HIDE DEF p
<1>4. /\ \A b \in Children(p) : (b < c => b \in V) /\ (b > c => b \notin V)
      /\ d \in Children(p)
  BY <1>1, <1>3 DEF Before, p, Children
<1>5. d \notin V
  BY <1>1, <1>4
<1>6. \A a \in A \ {c} : a \in Nat /\ a < c /\ a < d /\ a <= p
  <2>1. ASSUME NEW a \in A \ {c} PROVE a \in Nat /\ a < c /\ a < d /\ a <= p
    <3>1. a \in Nat /\ c \in Nat /\ d \in Nat /\ a <= c /\ a # c
      BY <1>1, <1>2 DEF Way
    <3>2. a < c
      BY <3>1
    <3>3. a <= p
      BY <1>3, <3>2 DEF Way, p
    <3> QED
      BY <1>1, <3>1, <3>2, <3>3
  <2> QED
    BY <2>1
<1>7. p \in A \ {c}
  BY <1>2, <1>3
<1>8. Way(B, d)
  <2>1. ASSUME NEW a \in B PROVE a <= d /\ (Node(a).parent # None => Node(a).parent \in B)
    <3>1. CASE a = d
      BY <1>1, <1>2, <1>7, <3>1
    <3>2. CASE a \in A \ {c}
      <4>1. Node(a).parent # None => Node(a).parent \in A /\ Node(a).parent < a
        BY <3>2 DEF Way, Formed
      <4>2. Node(a).parent # None => Node(a).parent # c
        BY <1>2, <1>6, <3>2, <4>1
      <4> QED
        BY <1>1, <1>2, <1>6, <3>2, <4>1, <4>2
    <3> QED
      BY <3>1, <3>2
  <2>2. ASSUME NEW a \in B, NEW b \in B, a < b PROVE a <= Node(b).parent
    <3>1. CASE b = d
      <4>1. a \in A \ {c}
        BY <1>1, <1>2, <2>2, <3>1
      <4> QED
        BY <1>1, <1>6, <3>1, <4>1
    <3>2. CASE b \in A \ {c} /\ a \in A \ {c}
      BY <2>2, <3>2 DEF Way
    <3>3. CASE b \in A \ {c} /\ a = d
      <4>1. b \in Nat /\ b < d /\ d < b /\ d \in Nat
        BY <1>1, <1>2, <1>6, <2>2, <3>3
      <4> QED
        BY <4>1
    <3> QED
      BY <3>1, <3>2, <3>3
  <2> QED
    BY <2>1, <2>2 DEF Way
<1>9. Before(V, B, d)
  <2>1. B \ {d} \subseteq V
    BY DEF Before
  <2>2. ASSUME NEW a \in B, Node(a).parent # None, NEW b \in Children(Node(a).parent)
        PROVE  (b < a => b \in V) /\ (b > a => b \notin V)
    <3>1. CASE a = d
      <4>1. b \in Children(p) /\ b \in Nat /\ c \in Nat /\ d \in Nat
        BY <1>1, <1>2, <2>2, <3>1 DEF Children
      <4>2. b < d => b < c \/ b = c
        BY <1>1, <4>1
      <4>3. b > d => b > c
        BY <1>1, <4>1
      <4> QED
        BY <1>4, <3>1, <4>1, <4>2, <4>3
    <3>2. CASE a \in A \ {c}
      BY <2>2, <3>2 DEF Before
    <3> QED
      BY <3>1, <3>2
  <2>3. ASSUME NEW v \in V \ B PROVE Children(v) \subseteq V
    BY DEF Before
  <2> QED
    BY <2>1, <2>2, <2>3 DEF Before
<1> QED
  BY <1>5, <1>8, <1>9

(* From the last of them up to their parent.                               *)
LEMMA Ascend ==
  ASSUME Inv, Formed, NEW V \in SUBSET NodeIds, NEW A \in SUBSET NodeIds, NEW c \in NodeIds,
         Way(A, c), Before(V, A, c), {c} \cup Children(c) \subseteq V,
         NEW p, p = Node(c).parent, p # None, Later(c) = {}
  PROVE  /\ Way(A \ {c}, p) /\ Before(V, A \ {c}, p)
         /\ p \in NodeIds /\ {p} \cup Children(p) \subseteq V
<1>1. \A n \in NodeIds : n \in Nat
  BY Numbers
<1>2. /\ p \in A /\ p < c /\ c \in A /\ p \in NodeIds
  BY DEF Way, Formed
<1>3. \A a \in A \ {c} : a \in Nat /\ a < c /\ a <= p
  <2>1. ASSUME NEW a \in A \ {c} PROVE a \in Nat /\ a < c /\ a <= p
    <3>1. a \in Nat /\ c \in Nat /\ a <= c /\ a # c
      BY <1>1 DEF Way
    <3>2. a < c
      BY <3>1
    <3>3. a <= p
      BY <1>2, <3>2 DEF Way
    <3> QED
      BY <3>1, <3>2, <3>3
  <2> QED
    BY <2>1
<1>4. p \in A \ {c}
  BY <1>1, <1>2
<1>5. Way(A \ {c}, p)
  <2>1. ASSUME NEW a \in A \ {c}
        PROVE  Node(a).parent # None => Node(a).parent \in A \ {c}
    <3>1. Node(a).parent # None =>
            Node(a).parent \in A /\ Node(a).parent < a /\ Node(a).parent \in Nat
      BY <1>1 DEF Way, Formed
    <3> QED
      BY <1>3, <3>1
  <2>2. \A a, b \in A \ {c} : a < b => a <= Node(b).parent
    BY DEF Way
  <2> QED
    BY <1>3, <1>4, <2>1, <2>2 DEF Way
<1>6. p \in V /\ (A \ {c}) \ {p} \subseteq V
  BY <1>4 DEF Before
<1>7. Before(V, A \ {c}, p)
  BY <1>6 DEF Before
<1>8. Children(p) \subseteq V
  <2>1. ASSUME NEW b \in Children(p) PROVE b \in V
    <3>1. b \in Nat /\ c \in Nat /\ ~(b > c)
      BY <1>1 DEF Later, Children
    <3>2. b < c => b \in V
      BY <1>2 DEF Before
    <3> QED
      BY <3>1, <3>2
  <2> QED
    BY <2>1
<1> QED
  BY <1>2, <1>5, <1>6, <1>7, <1>8

(* Every set of numbers has a least one.                                   *)
LEMMA LeastNumber ==
  ASSUME NEW S, S \subseteq Nat, S # {} PROVE \E x \in S : \A y \in S : x <= y
<1> DEFINE less == {ss \in Nat \X Nat : ss[1] < ss[2]}
<1>1. IsWellFoundedOn(less, Nat)
  BY NatLessThanWellFounded DEF OpToRel
<1>2. \A x, y \in Nat : y < x => <<y, x>> \in less
  OBVIOUS
<1> HIDE DEF less
<1>3. \E x \in S : \A y \in S : ~(<<y, x>> \in less)
  BY <1>1, WFMin
<1>4. ASSUME NEW x \in S, \A y \in S : ~(<<y, x>> \in less), NEW y \in S PROVE x <= y
  <2>1. x \in Nat /\ y \in Nat
    OBVIOUS
  <2>2. ~(y < x)
    BY <1>2, <1>4, <2>1, Zenon
  <2> QED
    BY <2>1, <2>2
<1> QED
  BY <1>3, <1>4

(* When the iterator is back at the root, it was at every node.            *)
LEMMA BackAtRoot ==
  ASSUME Inv, Formed, OneRoot, MaxRoots = 1,
         NEW V \in SUBSET NodeIds, NEW A \in SUBSET NodeIds, NEW c \in NodeIds,
         Way(A, c), Before(V, A, c), {c} \cup Children(c) \subseteq V, Node(c).parent = None
  PROVE  V = NodeIds
<1>1. \A n \in NodeIds : n \in Nat
  BY Numbers
<1>2. c = 0 /\ c \in V
  BY DEF OneRoot
<1>3. A \subseteq {c}
  BY <1>1, <1>2 DEF Way
<1>4. \A v \in V : Children(v) \subseteq V
  BY <1>3 DEF Before
<1>5. ASSUME NodeIds \ V # {} PROVE FALSE
  <2>1. PICK x \in NodeIds \ V : \A y \in NodeIds \ V : x <= y
    <3>1. NodeIds \ V \subseteq Nat
      BY <1>1
    <3> QED
      BY <1>5, <3>1, LeastNumber
  <2>2. Node(x).parent # None
    BY <1>2 DEF OneRoot
  <2>3. Node(x).parent \in NodeIds /\ Node(x).parent < x
    BY <2>2 DEF Formed
  <2>4. Node(x).parent \in V
    BY <1>1, <2>1, <2>3
  <2>5. x \in Children(Node(x).parent)
    BY DEF Children
  <2> QED
    BY <1>4, <2>4, <2>5
<1> QED
  BY <1>5

-----------------------------------------------------------------------------
(* One node more is counted.                                               *)
LEMMA OneMore ==
  ASSUME Inv, NEW V \in SUBSET NodeIds, NEW c \in NodeIds, c \notin V, Tally(V),
         profile' = Counted(Node(c).class_id), nodes' = nodes
  PROVE  Tally(V \cup {c})'
<1>1. profile \in [thread_count : Nat, process_count : Nat, node_count : Nat]
  BY DEF Inv, TypeOK
<1>2. IsFiniteSet(V)
  <2>1. Len(nodes) \in Nat
    BY DEF Inv, TypeOK
  <2>2. IsFiniteSet(NodeIds)
    BY <2>1, FS_Interval DEF NodeIds
  <2> QED
    BY <2>2, FS_Subset
<1>3. ASSUME NEW class
      PROVE  Within(V \cup {c}, class) =
               IF Node(c).class_id = class THEN Within(V, class) + 1 ELSE Within(V, class)
  <2> DEFINE S == {n \in V : Node(n).class_id = class}
  <2>1. IsFiniteSet(S) /\ c \notin S
    BY <1>2, FS_Subset
  <2>2. {n \in V \cup {c} : Node(n).class_id = class} =
          IF Node(c).class_id = class THEN S \cup {c} ELSE S
    OBVIOUS
  <2> HIDE DEF S
  <2>3. Cardinality(S \cup {c}) = Cardinality(S) + 1
    BY <2>1, FS_AddElement
  <2> QED
    BY <2>2, <2>3 DEF Within, S
<1>4. /\ profile'.process_count = IF Node(c).class_id = "LOCATION_GROUP"
                                  THEN profile.process_count + 1 ELSE profile.process_count
      /\ profile'.thread_count = IF Node(c).class_id = "LOCATION"
                                 THEN profile.thread_count + 1 ELSE profile.thread_count
  BY <1>1 DEF Counted
<1>5. \A class : Within(V \cup {c}, class)' = Within(V \cup {c}, class)
  BY DEF Within, Node
<1> QED
  BY <1>3, <1>4, <1>5 DEF Tally

(* As long as the tree is the same, so are its parts.                      *)
LEMMA SameTree ==
  ASSUME nodes' = nodes
  PROVE  /\ NodeIds' = NodeIds
         /\ \A V, A, c : Way(A, c)' = Way(A, c) /\ Before(V, A, c)' = Before(V, A, c)
         /\ \A c : Children(c)' = Children(c)
         /\ \A V, class : Within(V, class)' = Within(V, class)
<1>1. NodeIds' = NodeIds /\ \A c : Node(c)' = Node(c)
  BY DEF NodeIds, Node
<1>2. \A c : Children(c)' = Children(c)
  BY <1>1 DEF Children
<1>3. \A A, c : Way(A, c)' = Way(A, c)
  BY <1>1 DEF Way
<1>4. \A V, A, c : Before(V, A, c)' = Before(V, A, c)
  BY <1>1, <1>2 DEF Before
<1>5. \A V, class : Within(V, class)' = Within(V, class)
  BY <1>1 DEF Within
<1> QED
  BY <1>1, <1>2, <1>3, <1>4, <1>5

(* The iterator stands where the way A leads, after the nodes V.           *)
LEMMA Stands ==
  ASSUME NEW V \in SUBSET NodeIds, NEW A \in SUBSET NodeIds, nodes' = nodes,
         Tally(V)', Way(A, current'), Before(V, A, current'),
         pc' = "count" => current' \notin V,
         pc' = "climb" => {current'} \cup Children(current') \subseteq V
  PROVE  Halfway'
<1>1. Way(A, current)' /\ Before(V, A, current)'
  BY DEF Way, Before, Children, NodeIds, Node
<1>2. Children(current)' = Children(current') /\ NodeIds' = NodeIds
  BY DEF Children, NodeIds, Node
<1> QED
  BY <1>1, <1>2 DEF Halfway

LEMMA Walks ==
  ASSUME Inv, Tree, Walked, MaxRoots = 1, Count
  PROVE  Walked'
<1>1. nodes' = nodes /\ NodeIds' = NodeIds /\ root' = root
  BY DEF Count, BeginCount, CountNode, Climb, EndCount, tables, NodeIds
<1>2. Formed /\ OneRoot /\ RootFound
  BY DEF Tree
<1>3. current \in NodeIds \cup {None} /\ root \in NodeIds \cup {None} /\ None \notin NodeIds
  BY DEF Inv, TypeOK, NodeIds
<1>4. CASE BeginCount
  <2>1. /\ pc = "definitions" /\ root \in NodeIds /\ pc' = "count" /\ current' = root
        /\ profile' = profile
    BY <1>3, <1>4 DEF BeginCount
  <2>2. profile.process_count = 0 /\ profile.thread_count = 0
    BY <2>1 DEF Walked
  <2>3. Tally({})'
    <3>1. \A class : {n \in {} : Node(n)'.class_id = class} = {}
      OBVIOUS
    <3> QED
      BY <2>1, <2>2, <3>1, FS_EmptySet DEF Tally, Within
  <2>4. Node(root).parent = None /\ root \in Nat
    BY <1>2, <2>1, Numbers DEF RootFound
  <2>5. Way({root}, root)
    BY <2>4 DEF Way
  <2>6. Before({}, {root}, root)
    BY <2>4 DEF Before
  <2>7. Halfway'
    BY <1>1, <2>1, <2>3, <2>5, <2>6, Stands
  <2> QED
    BY <1>3, <2>1, <2>7 DEF Walked
<1>5. CASE CountNode
  <2>1. /\ pc = "count" /\ current \in NodeIds /\ profile' = Counted(Node(current).class_id)
        /\ IF Children(current) # {}
             THEN current' \in Lowest(Children(current)) /\ pc' = "count"
             ELSE pc' = "climb" /\ current' = current
    BY <1>3, <1>5 DEF CountNode
  <2>2. PICK V \in SUBSET NodeIds, A \in SUBSET NodeIds :
          /\ Tally(V) /\ Way(A, current) /\ Before(V, A, current) /\ current \notin V
    <3>1. Halfway
      BY <1>3, <2>1 DEF Walked
    <3> QED
      BY <2>1, <3>1 DEF Halfway
  <2>3. PICK c \in NodeIds : c = current
    BY <2>1
  <2>7. Tally(V \cup {c})'
    BY <1>1, <2>1, <2>2, <2>3, OneMore
  <2>4. CASE Children(current) # {}
    <3>1. PICK d \in NodeIds : d = current' /\ d \in Lowest(Children(c)) /\ pc' = "count"
      BY <2>1, <2>3, <2>4 DEF Lowest, Children
    <3>2. Way(A \cup {d}, d) /\ Before(V \cup {c}, A \cup {d}, d) /\ d \notin V \cup {c}
      BY <1>2, <2>2, <2>3, <3>1, Descend
    <3>3. V \cup {c} \in SUBSET NodeIds /\ A \cup {d} \in SUBSET NodeIds
      OBVIOUS
    <3>4. Halfway'
      BY <1>1, <2>7, <3>1, <3>2, <3>3, Stands
    <3> QED
      BY <1>3, <3>1, <3>4 DEF Walked
  <2>5. CASE Children(current) = {}
    <3>1. current' = current /\ pc' = "climb"
      BY <2>1, <2>5
    <3>2. Before(V \cup {c}, A, c) /\ V \cup {c} \in SUBSET NodeIds
      BY <1>2, <2>2, <2>3, AtLeaf
    <3>3. Halfway'
      BY <1>1, <2>2, <2>3, <2>5, <2>7, <3>1, <3>2, Stands
    <3> QED
      BY <3>1, <3>3 DEF Walked
  <2> QED
    BY <2>4, <2>5
<1>6. CASE Climb
  <2>1. /\ pc = "climb" /\ current \in NodeIds /\ profile' = profile
    BY <1>6 DEF Climb, Inv, OnNode
  <2>2. PICK V \in SUBSET NodeIds, A \in SUBSET NodeIds :
          /\ Tally(V) /\ Way(A, current) /\ Before(V, A, current)
          /\ {current} \cup Children(current) \subseteq V
    <3>1. Halfway
      BY <1>3, <2>1 DEF Walked
    <3> QED
      BY <2>1, <3>1 DEF Halfway
  <2>3. Tally(V)'
    BY <1>1, <2>1, <2>2, SameTree DEF Tally
  <2>4. CASE Node(current).parent = None
    <3>1. current' = None /\ pc' = "count"
      BY <1>6, <2>4 DEF Climb
    <3>2. V = NodeIds
      BY <1>2, <2>1, <2>2, <2>4, BackAtRoot
    <3>3. Tally(NodeIds)'
      BY <1>1, <2>3, <3>2 DEF Tally, Within
    <3> QED
      BY <3>1, <3>3 DEF Walked
  <2>5. CASE Node(current).parent # None /\ Later(current) # {}
    <3>1. PICK c \in NodeIds, d \in NodeIds :
            c = current /\ d = current' /\ d \in Lowest(Later(c)) /\ pc' = "count"
      BY <1>6, <2>1, <2>5 DEF Climb, Lowest, Later, Children
    <3> DEFINE B == (A \ {c}) \cup {d}
    <3>2. Way(B, d) /\ Before(V, B, d) /\ d \notin V
      BY <1>2, <2>2, <2>5, <3>1, Aside
    <3>3. B \in SUBSET NodeIds
      BY <3>1
    <3> HIDE DEF B
    <3>4. Halfway'
      BY <1>1, <2>3, <3>1, <3>2, <3>3, Stands
    <3> QED
      BY <1>3, <3>1, <3>4 DEF Walked
  <2>6. CASE Node(current).parent # None /\ Later(current) = {}
    <3>1. current' = Node(current).parent /\ pc' = "climb"
      BY <1>6, <2>1, <2>6 DEF Climb
    <3>2. /\ Way(A \ {current}, current') /\ Before(V, A \ {current}, current')
          /\ current' \in NodeIds /\ {current'} \cup Children(current') \subseteq V
      BY <1>2, <2>1, <2>2, <2>6, <3>1, Ascend
    <3>3. Halfway'
      BY <1>1, <2>3, <3>1, <3>2, Stands
    <3> QED
      BY <3>1, <3>3 DEF Walked
  <2> QED
    BY <2>4, <2>5, <2>6
<1>7. CASE EndCount
  <2>1. pc = "count" /\ current = None /\ pc' = "done" /\ profile' = profile
    BY <1>7 DEF EndCount, iteration
  <2>2. Tally(NodeIds)
    BY <2>1 DEF Walked
  <2>3. Tally(NodeIds)'
    BY <1>1, <2>1, <2>2 DEF Tally, Within, NodeIds, Node
  <2> QED
    BY <2>1, <2>3 DEF Walked
<1> QED
  BY <1>4, <1>5, <1>6, <1>7 DEF Count

-----------------------------------------------------------------------------
(* What a definition does to the tree: the node new, of this class, hangs  *)
(* below the node p.                                                       *)
Grows(new, p, id, class, d) ==
  /\ NodeIds' = NodeIds \cup {new} /\ new \in Nat
  /\ \A n \in NodeIds : n < new /\ Node(n)' = Node(n) /\ trace'[n + 1] = trace[n + 1]
  /\ Node(new)'.class_id = class /\ Node(new)'.parent = p /\ trace'[new + 1] = d
  /\ root' = IF p = None THEN new ELSE root
  /\ locations' = IF class = "LOCATION" THEN [locations EXCEPT ![id] = new] ELSE locations

LEMMA Inserted ==
  ASSUME Inv, NEW new, new = Len(nodes),
         NEW id \in Nat, NEW class \in SystemClasses, NEW parent, NEW d \in Definitions,
         Fits(id, class, parent, d), d.parent = parent,
         InsertNode(id, class, parent), trace' = Append(trace, d)
  PROVE  \E p \in NodeIds \cup {None} :
           (parent = None <=> p = None) /\ Grows(new, p, id, class, d)
<1> DEFINE p == ParentOf(class, parent)
           level == IF p = None THEN 0 ELSE Node(p).level + 1
           node == [class_id |-> class, location_id |-> id, level |-> level, parent |-> p]
<1>1. TypeOK /\ nodes \in Seq(SystemData) /\ new \in Nat
  BY DEF Inv, TypeOK
<1>2. \A n \in NodeIds : n \in Nat /\ n < new /\ n # None
  BY <1>1 DEF NodeIds
<1>3. Found(class, parent, d)
  BY ParentFound, Zenon
<1>4. p \in NodeIds \cup {None} /\ (parent = None <=> p = None)
  <2>1. CASE parent = None
    BY <1>3, <2>1, Zenon DEF Found
  <2>2. CASE parent # None
    <3>1. p \in NodeIds
      BY <1>3, <2>2, Zenon DEF Found
    <3> HIDE DEF p
    <3> QED
      BY <1>2, <2>2, <3>1
  <2> QED
    BY <2>1, <2>2
<1>5. /\ nodes' = Append(nodes, node) /\ root' = IF p = None THEN new ELSE root
      /\ locations' = IF class = "LOCATION" THEN [locations EXCEPT ![id] = new] ELSE locations
  BY DEF InsertNode
<1> HIDE DEF p
<1>6. level \in Nat
  <2>1. ASSUME NEW m \in NodeIds PROVE Node(m).level \in Nat
    <3>1. m + 1 \in 1 .. Len(nodes)
      BY <1>1 DEF NodeIds
    <3>2. nodes[m + 1] \in SystemData
      BY <1>1, <3>1
    <3> QED
      BY <3>2 DEF Node, SystemData
  <2> QED
    BY <1>4, <2>1
<1> HIDE DEF level
<1>7. node \in SystemData /\ node.class_id = class /\ node.parent = p
  <2>1. NodeIds \subseteq Nat
    BY <1>2
  <2> QED
    BY <1>4, <1>6, <2>1 DEF SystemData
<1> HIDE DEF node
<1>8. /\ NodeIds' = NodeIds \cup {new}
      /\ \A n \in NodeIds : Node(n)' = Node(n) /\ trace'[n + 1] = trace[n + 1]
      /\ Node(new)' = node /\ trace'[new + 1] = d
  BY <1>1, <1>5, <1>7, Added
<1>9. Grows(new, p, id, class, d)
  BY <1>1, <1>2, <1>5, <1>7, <1>8 DEF Grows
<1> QED
  BY <1>4, <1>9

LEMMA NoRoots ==
  ASSUME Inv, Formed, Cardinality(Roots) < 1 PROVE NodeIds = {}
<1>1. Len(nodes) \in Nat
  BY DEF Inv, TypeOK
<1>2. IsFiniteSet(Roots)
  <2>1. IsFiniteSet(NodeIds)
    BY <1>1, FS_Interval DEF NodeIds
  <2> QED
    BY <2>1, FS_Subset DEF Roots
<1>3. Roots = {}
  <2>1. Cardinality(Roots) = 0
    BY <1>2, FS_CardinalityType
  <2> QED
    BY <1>2, <2>1, FS_EmptySet
<1>4. ASSUME 0 \in NodeIds PROVE FALSE
  <2>1. Node(0).parent # None
    BY <1>3, <1>4 DEF Roots
  <2>2. Node(0).parent \in NodeIds /\ Node(0).parent < 0
    BY <1>4, <2>1 DEF Formed
  <2> QED
    BY <2>2, Numbers
<1> QED
  BY <1>1, <1>4 DEF NodeIds

LEMMA TreeDefined ==
  ASSUME Inv, Tree, NEW new, new = Len(nodes),
         NEW id \in Nat, NEW class \in SystemClasses, NEW parent, NEW d \in Definitions,
         Fits(id, class, parent, d), d.parent = parent,
         InsertNode(id, class, parent), trace' = Append(trace, d),
         parent = None => Cardinality(Roots) < MaxRoots,
         \A counted \in {"LOCATION", "LOCATION_GROUP"} : class = counted <=> d.class = counted,
         \A l \in Range(locationList') : l \in Range(locationList) \/ (class = "LOCATION" /\ l = id)
  PROVE  Tree'
<1>0. PICK p \in NodeIds \cup {None} :
        (parent = None <=> p = None) /\ Grows(new, p, id, class, d)
  BY Inserted
<1>1. /\ NodeIds' = NodeIds \cup {new} /\ new \in Nat
      /\ \A n \in NodeIds : n < new /\ Node(n)' = Node(n) /\ trace'[n + 1] = trace[n + 1]
      /\ Node(new)'.class_id = class /\ Node(new)'.parent = p /\ trace'[new + 1] = d
      /\ root' = IF p = None THEN new ELSE root
      /\ locations' = IF class = "LOCATION" THEN [locations EXCEPT ![id] = new] ELSE locations
      /\ parent = None <=> p = None
  BY <1>0 DEF Grows
<1>2. Formed /\ Classed /\ OneRoot /\ RootFound /\ LocationsFound
  BY DEF Tree
<1>3. /\ root \in NodeIds \cup {None} /\ locations \in [LocationIds -> NodeIds \cup {None}]
      /\ locationList \in Seq(LocationIds) /\ None \notin NodeIds
  BY DEF Inv, TypeOK, NodeIds
<1>4. Formed'
  <2>1. ASSUME NEW n \in NodeIds', Node(n)'.parent # None
        PROVE  Node(n)'.parent \in NodeIds' /\ Node(n)'.parent < n
    <3>1. CASE n \in NodeIds
      <4>1. Node(n).parent # None
        BY <1>1, <2>1, <3>1
      <4>2. Node(n).parent \in NodeIds /\ Node(n).parent < n
        BY <1>2, <3>1, <4>1 DEF Formed
      <4> QED
        BY <1>1, <3>1, <4>2
    <3>2. CASE n = new
      BY <1>1, <2>1, <3>2
    <3> QED
      BY <1>1, <3>1, <3>2
  <2> QED
    BY <2>1 DEF Formed
<1>5. Classed'
  <2>1. ASSUME NEW n \in NodeIds', NEW counted \in {"LOCATION", "LOCATION_GROUP"}
        PROVE  Node(n)'.class_id = counted <=> trace'[n + 1].class = counted
    <3>1. CASE n \in NodeIds
      <4>1. Node(n).class_id = counted <=> trace[n + 1].class = counted
        BY <1>2, <3>1 DEF Classed
      <4> QED
        BY <1>1, <3>1, <4>1
    <3>2. CASE n = new
      BY <1>1, <3>2
    <3> QED
      BY <1>1, <3>1, <3>2
  <2> QED
    BY <2>1 DEF Classed
<1>6. OneRoot'
  <2>1. ASSUME MaxRoots = 1, NEW n \in NodeIds', Node(n)'.parent = None PROVE n = 0
    <3>1. CASE n \in NodeIds
      <4>1. Node(n).parent = None
        BY <1>1, <2>1, <3>1
      <4> QED
        BY <1>2, <2>1, <3>1, <4>1 DEF OneRoot
    <3>2. CASE n = new
      <4>1. p = None
        BY <1>1, <2>1, <3>2
      <4>2. Cardinality(Roots) < 1
        BY <1>1, <2>1, <4>1
      <4>3. NodeIds = {} /\ Len(nodes) \in Nat
        BY <1>2, <4>2, NoRoots DEF Inv, TypeOK
      <4>4. Len(nodes) = 0
        <5>1. Len(nodes) > 0 => 0 \in NodeIds
          BY <4>3 DEF NodeIds
        <5> QED
          BY <4>3, <5>1
      <4> QED
        BY <3>2, <4>4
    <3> QED
      BY <1>1, <3>1, <3>2
  <2> QED
    BY <2>1 DEF OneRoot
<1>7. RootFound'
  <2>1. PICK r : r = root'
    OBVIOUS
  <2>2. ASSUME r # None PROVE r \in NodeIds' /\ Node(r)'.parent = None
    <3>1. CASE p = None
      BY <1>1, <2>1, <3>1
    <3>2. CASE p # None
      <4>1. r = root /\ root \in NodeIds /\ Node(root).parent = None
        BY <1>1, <1>2, <1>3, <2>1, <2>2, <3>2 DEF RootFound
      <4>2. r \in NodeIds /\ Node(r).parent = None
        BY <4>1
      <4> QED
        BY <1>1, <4>2
    <3> QED
      BY <3>1, <3>2
  <2>3. Node(root)' = Node(r)'
    BY <2>1 DEF Node
  <2> QED
    BY <2>1, <2>2, <2>3 DEF RootFound
<1>8. LocationsFound'
  <2>1. ASSUME class = "LOCATION" PROVE id \in LocationIds
    BY <2>1 DEF Fits
  <2>2. \A l \in LocationIds :
          locations'[l] = IF class = "LOCATION" /\ l = id THEN new ELSE locations[l]
    BY <1>1, <1>3
  <2>3. \A l \in Range(locationList) : l \in LocationIds
    BY <1>3 DEF Range
  <2>4. new # None
    BY <1>1
  <2>5. \A l \in Range(locationList') : locations'[l] # None
    BY <1>2, <2>1, <2>2, <2>3, <2>4 DEF LocationsFound
  <2>6. ASSUME NEW l \in LocationIds, NEW at, at = locations'[l], at # None
        PROVE  Node(at)'.class_id = "LOCATION"
    <3>1. CASE class = "LOCATION" /\ l = id
      <4>1. at = new
        BY <2>2, <2>6, <3>1
      <4> QED
        BY <1>1, <3>1, <4>1
    <3>2. CASE ~(class = "LOCATION" /\ l = id)
      <4>1. at = locations[l] /\ at \in NodeIds
        BY <1>3, <2>2, <2>6, <3>2
      <4>2. Node(at).class_id = "LOCATION"
        BY <1>2, <2>6, <4>1 DEF LocationsFound
      <4> QED
        BY <1>1, <4>1, <4>2
    <3> QED
      BY <3>1, <3>2
  <2>7. ASSUME NEW l \in LocationIds, locations'[l] # None
        PROVE  Node(locations[l])'.class_id = "LOCATION"
    <3>1. PICK at : at = locations'[l]
      OBVIOUS
    <3>2. Node(locations[l])' = Node(at)'
      BY <3>1 DEF Node
    <3> QED
      BY <2>6, <2>7, <3>1, <3>2
  <2> QED
    BY <2>5, <2>7 DEF LocationsFound
<1> QED
  BY <1>4, <1>5, <1>6, <1>7, <1>8 DEF Tree

LEMMA InitTree == Init => Tree /\ Walked
<1> SUFFICES ASSUME Init PROVE Tree /\ Walked
  OBVIOUS
<1>1. NodeIds = {}
  BY DEF Init, NodeIds
<1>2. Tree
  BY <1>1 DEF Init, Tree, Formed, Classed, OneRoot, RootFound, LocationsFound, Range
<1>3. Walked
  BY DEF Init, Walked
<1> QED
  BY <1>2, <1>3

LEMMA TreeInductive == Inv /\ Tree /\ Walked /\ [Next]_vars => Tree' /\ Walked'
<1> SUFFICES ASSUME Inv, Tree, Walked, [Next]_vars PROVE Tree' /\ Walked'
  OBVIOUS
<1>1. ASSUME UNCHANGED tables, UNCHANGED trace PROVE Tree'
  BY <1>1 DEF Tree, Formed, Classed, OneRoot, RootFound, LocationsFound, tables, NodeIds, Node
<1>2. ASSUME UNCHANGED <<pc, iteration>>, pc = "definitions" PROVE Walked'
  BY <1>2 DEF Walked, iteration
<1>3. ASSUME NEW ref \in Refs, DefString(ref) PROVE Tree' /\ Walked'
  BY <1>1, <1>2, <1>3 DEF DefString
<1>4. ASSUME NEW ref \in Refs, Interrupt(ref) PROVE Tree' /\ Walked'
  BY <1>1, <1>4 DEF Interrupt, Walked
<1>5. ASSUME NEW name \in NameRefs, NEW className \in ClassRefs, NEW parent \in -1 .. MaxNodes,
             DefSystemTreeNode(name, className, parent)
      PROVE  Tree' /\ Walked'
  <2> DEFINE class == Classify(string_definitions[className])
             d == [kind |-> "node", class |-> Classify(Texts[className]),
                   ref |-> Len(system_nodes), parent |-> parent]
  <2>1. /\ pc = "definitions"
        /\ parent \in (0 .. Len(system_nodes) - 1) \cup {None}
        /\ parent = None => Cardinality(Roots) < MaxRoots
        /\ InsertNode(Len(system_nodes), class, parent) /\ trace' = Append(trace, d)
        /\ locationList' = locationList /\ UNCHANGED <<pc, iteration>>
    BY <1>5 DEF DefSystemTreeNode, Room, Note
  <2>2. Len(system_nodes) \in Nat /\ parent \in Nat \cup {None}
    BY <2>1 DEF Inv, TypeOK
  <2>3. /\ class \in SystemClasses /\ class \notin {"LOCATION", "LOCATION_GROUP"}
        /\ d.class \notin {"LOCATION", "LOCATION_GROUP"}
    BY Classes
  <2>4. d \in Definitions /\ d.parent = parent
    BY <2>2, Classes DEF Definitions
  <2>5. Fits(Len(system_nodes), class, parent, d)
    BY <2>1, <2>3 DEF Fits
  <2> HIDE DEF class, d
  <2>6. Tree'
    BY <2>1, <2>2, <2>3, <2>4, <2>5, TreeDefined
  <2> QED
    BY <1>2, <2>1, <2>6
<1>6. ASSUME NEW name \in NameRefs, NEW parent \in 0 .. MaxNodes, DefLocationGroup(name, parent)
      PROVE  Tree' /\ Walked'
  <2> DEFINE d == [kind |-> "group", class |-> "LOCATION_GROUP",
                   ref |-> Len(location_grps), parent |-> parent]
  <2>1. /\ pc = "definitions" /\ parent \in 0 .. Len(system_nodes) - 1
        /\ InsertNode(Len(location_grps), "LOCATION_GROUP", parent) /\ trace' = Append(trace, d)
        /\ locationList' = locationList /\ UNCHANGED <<pc, iteration>>
    BY <1>6 DEF DefLocationGroup, Room, Note
  <2>2. Len(location_grps) \in Nat /\ parent \in Nat /\ parent # None
    BY <2>1 DEF Inv, TypeOK
  <2>3. "LOCATION_GROUP" \in SystemClasses
    BY DEF SystemClasses
  <2>4. d \in Definitions /\ d.parent = parent /\ d.class = "LOCATION_GROUP"
    BY <2>2, <2>3 DEF Definitions
  <2>5. Fits(Len(location_grps), "LOCATION_GROUP", parent, d)
    BY <2>1 DEF Fits
  <2> HIDE DEF d
  <2>6. Tree'
    BY <2>1, <2>2, <2>3, <2>4, <2>5, TreeDefined
  <2> QED
    BY <1>2, <2>1, <2>6
<1>7. ASSUME NEW id \in LocationIds, NEW name \in LocationNames, NEW type \in LocationTypes,
             NEW group \in 0 .. MaxNodes, DefLocation(id, name, type, group)
      PROVE  Tree' /\ Walked'
  <2> DEFINE d == [kind |-> "location", class |-> "LOCATION", ref |-> id, parent |-> group]
             more == IF type \in {"CPU_THREAD", "GPU"} THEN <<id>> ELSE <<>>
  <2>1. /\ pc = "definitions" /\ group \in 0 .. Len(location_grps) - 1
        /\ InsertNode(id, "LOCATION", group) /\ trace' = Append(trace, d)
        /\ locationList' = locationList \o more /\ UNCHANGED <<pc, iteration>>
    BY <1>7 DEF DefLocation, Room, Note
  <2>2. id \in Nat /\ group \in Nat /\ group # None
    OBVIOUS
  <2>3. "LOCATION" \in SystemClasses
    BY DEF SystemClasses
  <2>4. d \in Definitions /\ d.parent = group /\ d.class = "LOCATION"
    BY <2>2, <2>3 DEF Definitions
  <2>5. Fits(id, "LOCATION", group, d)
    BY <2>1 DEF Fits
  <2>6. \A l \in Range(locationList') : l \in Range(locationList) \/ l = id
    <3>1. /\ locationList \in Seq(LocationIds) /\ more \in Seq(LocationIds)
          /\ \A k \in 1 .. Len(more) : more[k] = id
      BY DEF Inv, TypeOK
    <3> HIDE DEF more
    <3>2. ASSUME NEW k \in 1 .. Len(locationList')
          PROVE  locationList'[k] \in Range(locationList) \/ locationList'[k] = id
      <4>1. CASE k \in 1 .. Len(locationList)
        <5>1. locationList'[k] = locationList[k]
          BY <2>1, <3>1, <4>1
        <5> QED
          BY <3>1, <4>1, <5>1 DEF Range
      <4>2. CASE k > Len(locationList)
        <5>1. k - Len(locationList) \in 1 .. Len(more)
              /\ locationList'[k] = more[k - Len(locationList)]
          BY <2>1, <3>1, <4>2
        <5> QED
          BY <3>1, <5>1
      <4> QED
        BY <3>1, <4>1, <4>2
    <3>3. DOMAIN locationList' = 1 .. Len(locationList')
      BY <2>1, <3>1
    <3> QED
      BY <3>2, <3>3 DEF Range
  <2> HIDE DEF d, more
  <2>7. Tree'
    BY <2>1, <2>2, <2>3, <2>4, <2>5, <2>6, TreeDefined
  <2> QED
    BY <1>2, <2>1, <2>7
<1>8. ASSUME Count PROVE Tree' /\ Walked'
  <2>1. Tree'
    BY <1>1, <1>8 DEF Count, BeginCount, CountNode, Climb, EndCount
  <2>2. Walked'
    BY <1>8, Walks DEF Walked
  <2> QED
    BY <2>1, <2>2
<1>9. CASE UNCHANGED vars
  <2>1. nodes' = nodes /\ NodeIds' = NodeIds /\ pc' = pc /\ current' = current
        /\ profile' = profile
    BY <1>9 DEF vars, tables, iteration, NodeIds
  <2>2. Tree'
    BY <1>1, <1>9 DEF vars
  <2>3. \A V : Tally(V)' = Tally(V)
    BY <2>1, SameTree DEF Tally
  <2>4. Halfway => Halfway'
    <3> SUFFICES ASSUME Halfway PROVE Halfway'
      OBVIOUS
    <3>1. PICK V \in SUBSET NodeIds, A \in SUBSET NodeIds :
            /\ Tally(V) /\ Way(A, current) /\ Before(V, A, current)
            /\ pc = "count" => current \notin V
            /\ pc = "climb" => {current} \cup Children(current) \subseteq V
      BY DEF Halfway
    <3> QED
      BY <2>1, <2>3, <3>1, Stands
  <2>5. Tally(NodeIds)' = Tally(NodeIds)
    BY <2>1 DEF Tally, Within, NodeIds, Node
  <2>6. Walked'
    BY <2>1, <2>4, <2>5 DEF Walked
  <2> QED
    BY <2>2, <2>6
<1> QED
  BY <1>3, <1>4, <1>5, <1>6, <1>7, <1>8, <1>9 DEF Next, Terminated

-----------------------------------------------------------------------------
(* Every location that is read has its node in the tree, of the class of a *)
(* location, and a parent's node comes before its children's, in every     *)
(* trace (handle_def_location, insert_node).                               *)
THEOREM LocationsInTree == Spec => [](LocationsFound /\ Formed)
<1>1. Inv /\ Tree /\ Walked => LocationsFound /\ Formed
  BY DEF Tree
<1> QED
  BY <1>1, InitInv, InitTree, Inductive, TreeInductive, PTL DEF Spec

(* In every trace with one root, of any number of definitions and in any   *)
(* shape, CreateJSON's loop counts each group and each location once.      *)
THEOREM CountsHold == MaxRoots = 1 => (Spec => []CountsComplete)
<1> SUFFICES ASSUME MaxRoots = 1 PROVE Spec => []CountsComplete
  OBVIOUS
<1>1. Inv /\ Tree /\ Walked => CountsComplete
  <2> SUFFICES ASSUME Inv, Tree, Walked PROVE CountsComplete
    OBVIOUS
  <2>1. LocationsFound /\ Classed
    BY DEF Tree
  <2>2. ASSUME NEW class \in {"LOCATION", "LOCATION_GROUP"}
        PROVE  Within(NodeIds, class) = OfClass(class)
    <3>1. {n \in NodeIds : Node(n).class_id = class} = {n \in NodeIds : trace[n + 1].class = class}
      BY <2>1 DEF Classed
    <3> QED
      BY <3>1 DEF Within, OfClass
  <2>3. pc = "done" => Tally(NodeIds)
    BY DEF Walked
  <2> QED
    BY <2>1, <2>2, <2>3 DEF Tally, CountsComplete, LocationsFound
<1> QED
  BY <1>1, InitInv, InitTree, Inductive, TreeInductive, PTL DEF Spec
=============================================================================
