----------------------------- MODULE SystemTree -----------------------------
(***************************************************************************)
(* The system tree of a trace: the definition callbacks for strings,       *)
(* system tree nodes, location groups and locations (OTF2Reader.cpp), the  *)
(* string table (OTF2Reader.h), SystemTree and its iterator                *)
(* (definitions.h), and the loop of CreateJSON that counts nodes,          *)
(* processes and threads with it (create_json.cpp).                        *)
(*                                                                         *)
(* A trace is any sequence of definitions in which system tree nodes and   *)
(* groups come in the order of their references and after what they refer  *)
(* to; a string may be missing.  A text is a sequence of words and blanks. *)
(* The names of nodes are only stored and are left out; the class is not.  *)
(***************************************************************************)
EXTENDS Integers, Sequences, SequencesExt

CONSTANTS
  Texts,         \* StringRef -> the text the trace defines for it
  UndefinedString, \* OTF2_UNDEFINED_STRING, which stands for the empty text
  NameRefs,      \* the strings that occur as names of nodes and groups
  LocationNames, \* ... as names of locations
  ClassRefs,     \* the strings that occur as their classes
  LocationIds,   \* references of locations
  MaxNodes,      \* bound: definitions of nodes, groups and locations
  MaxRoots       \* bound: system tree nodes without a parent

None == -1       \* OTF2_UNDEFINED_SYSTEM_TREE_NODE, or a null pointer
Refs == DOMAIN Texts
SystemClasses == {"OTHER", "LOCATION", "LOCATION_GROUP", "NODE", "BLADE",
                  "CAGE", "CABINET", "CABINET_ROW", "MACHINE"}
LocationTypes == {"CPU_THREAD", "GPU", "METRIC"}

ASSUME SystemTreeAssumption ==
  /\ UndefinedString \in Refs /\ Texts[UndefinedString] = <<>>
  /\ NameRefs \cup LocationNames \subseteq Refs /\ ClassRefs \subseteq Refs
  /\ LocationIds \subseteq Nat
  /\ MaxNodes \in Nat /\ MaxRoots \in Nat

VARIABLES
  string_definitions,   \* StringRef -> text, for the strings defined so far
  nodes,                \* the nodes, in the order of their node_id 0, 1, ...
  root,                 \* the root's node_id
  system_nodes,         \* node_ids by SystemTreeNodeRef 0, 1, ...
  location_grps,        \* node_ids by LocationGroupRef 0, 1, ...
  locations,            \* LocationRef -> node_id, or None
  num_nodes_per_level,  \* by level 0, 1, ...
  locationList,         \* the locations whose events will be read
  pc,                   \* "definitions", "count", "climb", "done" or "failed"
  current,              \* where the iterator is
  profile,              \* the three counts of WorkflowProfile
  trace                 \* what the trace defined for each node_id (history):
                        \* its reference, and that of its parent

tables == <<nodes, root, system_nodes, location_grps, locations,
            num_nodes_per_level, locationList>>
iteration == <<current, profile>>
vars == <<string_definitions, tables, pc, iteration, trace>>

NodeIds == 0 .. Len(nodes) - 1
Node(n) == nodes[n + 1]
(* nodes' map of children, by node_id.                                     *)
Children(n) == {c \in NodeIds : Node(c).parent = n}

SystemData == [class_id : SystemClasses, location_id : Nat, level : Nat,
               parent : Nat \cup {None}]

Definitions == [kind : {"node", "group", "location"}, class : SystemClasses,
                ref : Nat, parent : Nat \cup {None}]

TypeOK ==
  /\ DOMAIN string_definitions \subseteq Refs
  /\ nodes \in Seq(SystemData) /\ Len(nodes) <= MaxNodes
  /\ root \in NodeIds \cup {None} /\ current \in NodeIds \cup {None}
  /\ system_nodes \in Seq(NodeIds) /\ location_grps \in Seq(NodeIds)
  /\ locations \in [LocationIds -> NodeIds \cup {None}]
  /\ num_nodes_per_level \in Seq(Nat)
  /\ locationList \in Seq(LocationIds)
  /\ pc \in {"definitions", "count", "climb", "done", "failed"}
  /\ profile \in [thread_count : Nat, process_count : Nat, node_count : Nat]
  /\ trace \in Seq(Definitions) /\ Len(trace) = Len(nodes)

-----------------------------------------------------------------------------
Init ==
  /\ string_definitions = [ref \in {UndefinedString} |-> <<>>]
  /\ nodes = <<>> /\ root = None
  /\ system_nodes = <<>> /\ location_grps = <<>> /\ locations = [id \in LocationIds |-> None]
  /\ num_nodes_per_level = <<>>
  /\ locationList = <<>>
  /\ pc = "definitions"
  /\ current = None
  /\ profile = [thread_count |-> 0, process_count |-> 0, node_count |-> 0]
  /\ trace = <<>>

Defined(ref) == ref \in DOMAIN string_definitions

(* handle_def_string.                                                      *)
DefString(ref) ==
  /\ pc = "definitions" /\ ~Defined(ref)
  /\ string_definitions' = [r \in DOMAIN string_definitions \cup {ref} |->
                              IF r = ref THEN Texts[ref] ELSE string_definitions[r]]
  /\ UNCHANGED <<tables, pc, iteration, trace>>

(* num_nodes_per_level after a node was put on a level.                    *)
CountLevel(levels, level) ==
  IF level < Len(levels)
    THEN [levels EXCEPT ![level + 1] = @ + 1]
    ELSE Append(levels, 1)

(* Slip: the parent of a group is looked up among the groups.              *)
ParentOfMixed(class_id, parent_id) ==
  CASE class_id \in {"LOCATION", "LOCATION_GROUP"} /\ parent_id < Len(location_grps)
         -> location_grps[parent_id + 1]
    [] parent_id # None /\ parent_id < Len(system_nodes) -> system_nodes[parent_id + 1]
    [] OTHER -> None

(* The parent's node: by position in the vector of groups for a location,  *)
(* in that of system nodes for anything else.                              *)
ParentOf(class_id, parent_id) ==
  CASE class_id = "LOCATION" -> location_grps[parent_id + 1]
    [] class_id # "LOCATION" /\ parent_id # None -> system_nodes[parent_id + 1]
    [] OTHER -> None

(* SystemTree::insert_node: a node without a parent becomes the root and   *)
(* begins a level; a location that is there already keeps its node.        *)
InsertNode(id, class_id, parent_id) ==
  LET parent == ParentOf(class_id, parent_id)
      level  == IF parent = None THEN 0 ELSE Node(parent).level + 1
      self   == Len(nodes)
  IN  /\ nodes' = Append(nodes, [class_id |-> class_id, location_id |-> id,
                                 level |-> level, parent |-> parent])
      /\ root' = IF parent = None THEN self ELSE root
      /\ num_nodes_per_level' = IF parent = None THEN Append(num_nodes_per_level, 1)
                                ELSE CountLevel(num_nodes_per_level, level)
      /\ CASE class_id = "LOCATION" ->
                /\ locations' = [locations EXCEPT ![id] = self]
                /\ UNCHANGED <<location_grps, system_nodes>>
           [] class_id = "LOCATION_GROUP" ->
                /\ location_grps' = Append(location_grps, self)
                /\ UNCHANGED <<locations, system_nodes>>
           [] OTHER ->
                /\ system_nodes' = Append(system_nodes, self)
                /\ UNCHANGED <<locations, location_grps>>

(* The class that a text names.                                            *)
Classify(text) ==
  CASE text = <<"machine">>                       -> "MACHINE"
    [] text = <<"cabinet", " ", "row">>           -> "CABINET_ROW"
    [] text \in {<<"cabinet">>, <<"rack">>}       -> "CABINET"
    [] text \in {<<"cage">>, <<"midplane">>}      -> "CAGE"
    [] text \in {<<"blade">>, <<"nodeboard">>}    -> "BLADE"
    [] text \in {<<"node">>, <<"nodecard">>}      -> "NODE"
    [] OTHER                                      -> "OTHER"

Note(definition) == trace' = Append(trace, definition)
Room == pc = "definitions" /\ Len(nodes) < MaxNodes
Roots == {n \in NodeIds : Node(n).parent = None}

(* handle_def_system_tree_node: the class is read from the string table,   *)
(* and the name is appended to the text in the table itself.               *)
DefSystemTreeNode(name, className, parent) ==
  /\ Room /\ Defined(name) /\ Defined(className)
  /\ parent \in (0 .. Len(system_nodes) - 1) \cup {None}
  /\ parent = None => Cardinality(Roots) < MaxRoots
  /\ InsertNode(Len(system_nodes), Classify(string_definitions[className]), parent)
  /\ string_definitions' = [string_definitions EXCEPT
                              ![className] = @ \o <<" ">> \o string_definitions[name]]
  /\ Note([kind |-> "node", class |-> Classify(Texts[className]),
           ref |-> Len(system_nodes), parent |-> parent])
  /\ UNCHANGED <<locationList, pc, iteration>>

(* handle_def_location_group.                                              *)
DefLocationGroup(name, parent) ==
  /\ Room /\ Defined(name)
  /\ parent \in 0 .. Len(system_nodes) - 1
  /\ InsertNode(Len(location_grps), "LOCATION_GROUP", parent)
  /\ Note([kind |-> "group", class |-> "LOCATION_GROUP",
           ref |-> Len(location_grps), parent |-> parent])
  /\ UNCHANGED <<string_definitions, locationList, pc, iteration>>

(* handle_def_location: a location without a name is a "Thread" or a       *)
(* "GPU_Thread"; if it is neither, it is not taken over.                   *)
DefLocation(id, name, type, group) ==
  /\ Room /\ Defined(name)
  /\ group \in 0 .. Len(location_grps) - 1
  /\ locations[id] = None
  /\ string_definitions[name] # <<>> \/ type \in {"CPU_THREAD", "GPU"}
  /\ InsertNode(id, "LOCATION", group)
  /\ locationList' = locationList \o IF type \in {"CPU_THREAD", "GPU"} THEN <<id>> ELSE <<>>
  /\ Note([kind |-> "location", class |-> "LOCATION", ref |-> id, parent |-> group])
  /\ UNCHANGED <<string_definitions, pc, iteration>>

(* One of the three refers to a string that is not defined:                *)
(* OTF2_CALLBACK_INTERRUPT, on which readDefinitions returns false.        *)
Interrupt(ref) ==
  /\ Room /\ ~Defined(ref)
  /\ pc' = "failed"
  /\ UNCHANGED <<string_definitions, tables, iteration, trace>>

-----------------------------------------------------------------------------
(* All definitions are read; CreateJSON begins its loop at the root.  A    *)
(* tree without a root is no trace: begin() asserts that there is one.     *)
BeginCount ==
  /\ pc = "definitions" /\ root # None
  /\ pc' = "count" /\ current' = root
  /\ UNCHANGED <<string_definitions, tables, profile, trace>>

(* The switch in the loop's body.                                          *)
Counted(class_id) ==
  CASE class_id = "LOCATION"       -> [profile EXCEPT !.thread_count = @ + 1]
    [] class_id = "LOCATION_GROUP" -> [profile EXCEPT !.process_count = @ + 1]
    [] class_id = "NODE"           -> [profile EXCEPT !.node_count = @ + 1]
    [] OTHER                       -> profile

Lowest(S) == {x \in S : \A y \in S : x <= y}

(* The body of the loop, and operator++ as far as the first child.         *)
CountNode ==
  /\ pc = "count" /\ current # None
  /\ profile' = Counted(Node(current).class_id)
  /\ IF Children(current) # {}
       THEN current' \in Lowest(Children(current)) /\ UNCHANGED pc
       ELSE pc' = "climb" /\ UNCHANGED current
  /\ UNCHANGED <<string_definitions, tables, trace>>

Later(n) == {c \in Children(Node(n).parent) : c > n}

(* Slip: the siblings of the ancestors are passed over.                    *)
ClimbOnce ==
  /\ pc = "climb"
  /\ pc' = "count"
  /\ IF Node(current).parent # None /\ Later(current) # {}
       THEN current' \in Lowest(Later(current))
       ELSE current' = None
  /\ UNCHANGED <<string_definitions, tables, profile, trace>>

(* A turn of operator++'s loop: the next sibling, or up to the parent; the *)
(* iteration ends at the root.                                             *)
Climb ==
  /\ pc = "climb"
  /\ CASE Node(current).parent = None ->
            current' = None /\ pc' = "count"
       [] Node(current).parent # None /\ Later(current) # {} ->
            current' \in Lowest(Later(current)) /\ pc' = "count"
       [] OTHER ->
            current' = Node(current).parent /\ UNCHANGED pc
  /\ UNCHANGED <<string_definitions, tables, profile, trace>>

EndCount ==
  /\ pc = "count" /\ current = None
  /\ pc' = "done"
  /\ UNCHANGED <<string_definitions, tables, iteration, trace>>

Terminated == pc \in {"done", "failed"} /\ UNCHANGED vars

Count == BeginCount \/ CountNode \/ Climb \/ EndCount

Next ==
  \/ \E ref \in Refs : DefString(ref) \/ Interrupt(ref)
  \/ \E name \in NameRefs, className \in ClassRefs, parent \in -1 .. MaxNodes :
       DefSystemTreeNode(name, className, parent)
  \/ \E name \in NameRefs, parent \in 0 .. MaxNodes : DefLocationGroup(name, parent)
  \/ \E id \in LocationIds, name \in LocationNames, type \in LocationTypes, group \in 0 .. MaxNodes :
       DefLocation(id, name, type, group)
  \/ Count
  \/ Terminated

Spec == Init /\ [][Next]_vars

-----------------------------------------------------------------------------
(* Every node hangs below the one that the trace defined with the          *)
(* reference of its parent, a group for a location and a system tree node  *)
(* for the others, although the tree looks parents up by their position in *)
(* one of two vectors and some definitions are not taken over.             *)
ParentKind(kind) == IF kind = "location" THEN "group" ELSE "node"
HangsBelow(n, definition) ==
  IF definition.parent = None
  THEN Node(n).parent = None
  ELSE /\ Node(n).parent \in NodeIds
       /\ LET above == trace[Node(n).parent + 1]
          IN  above.kind = ParentKind(definition.kind) /\ above.ref = definition.parent
ParentAsDefined == \A n \in NodeIds : HangsBelow(n, trace[n + 1])

OfClass(class) == Cardinality({n \in NodeIds : trace[n + 1].class = class})

(* "Nr of Processes", "Nr of Threads used during execution" (create_json): *)
(* all groups and locations the trace defined and the reader took over,    *)
(* each of them once, wherever the iteration climbs from a deep branch to  *)
(* the next sibling of an ancestor; and no location is read that is not    *)
(* counted.                                                                *)
CountsComplete ==
  /\ pc = "done" => /\ profile.process_count = OfClass("LOCATION_GROUP")
                    /\ profile.thread_count = OfClass("LOCATION")
  /\ \A l \in Range(locationList) : locations[l] # None
  /\ \A l \in LocationIds :
       locations[l] # None => Node(locations[l]).class_id = "LOCATION"

(* "Nr of Nodes used during execution" (create_json.cpp:391): all system   *)
(* tree nodes whose class in the trace is a node.                          *)
NodesCounted == pc = "done" => profile.node_count = OfClass("NODE")
=============================================================================
