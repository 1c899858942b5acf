--------------------------- MODULE CallPathProofs ---------------------------
(***************************************************************************)
(* CallPath for every number of regions, locations and events, and every   *)
(* depth: its types, what its callbacks rely on without a look, and that   *)
(* times, calls and metric of the tree are those that passed.              *)
(***************************************************************************)
EXTENDS CallPath, FiniteSetTheorems, TLAPS

-----------------------------------------------------------------------------
(* Sums: what one is when one of its numbers grows.                        *)
LEMMA UnitsAre ==
  ASSUME NEW S, NEW f \in [S -> Nat], NEW u
  PROVE  u \in Units(f) <=> \E x \in S : u \in {x} \X (1 .. f[x])
BY DEF Units

(* A sum over a finite set is a natural number.                            *)
LEMMA TotalType ==
  ASSUME NEW S, IsFiniteSet(S), NEW f \in [S -> Nat]
  PROVE  IsFiniteSet(Units(f)) /\ Total(f) \in Nat
<1> DEFINE Of(x) == {x} \X (1 .. f[x])
           F == [x \in S |-> Of(x)]
           U == {Of(x) : x \in S}
<1>1. F \in Surjection(S, U)
  BY DEF Surjection
<1>2. IsFiniteSet(U)
  <2> HIDE DEF F, U
  <2> QED
    BY <1>1, FS_Surjection
<1>3. \A T \in U : IsFiniteSet(T)
  <2> SUFFICES ASSUME NEW x \in S PROVE IsFiniteSet(Of(x))
    OBVIOUS
  <2> DEFINE k == f[x]
  <2>1. 1 \in Int /\ k \in Int
    OBVIOUS
  <2> HIDE DEF k
  <2>2. IsFiniteSet({x})
    BY FS_Singleton
  <2>3. IsFiniteSet(1 .. k)
    BY <2>1, FS_Interval
  <2>4. IsFiniteSet({x} \X (1 .. k))
    BY <2>2, <2>3, FS_Product
  <2> QED
    BY <2>4 DEF k
<1>4. Units(f) = UNION U
  BY DEF Units
<1> HIDE DEF U
<1>5. IsFiniteSet(Units(f))
  BY <1>2, <1>3, <1>4, FS_UNION
<1> QED
  BY <1>5, FS_CardinalityType DEF Total

(* If all is zero, so is the sum.                                          *)
LEMMA TotalZero ==
  ASSUME NEW S, NEW f \in [S -> Nat], \A x \in S : f[x] = 0
  PROVE  Total(f) = 0
<1>1. Units(f) = {}
  BY UnitsAre
<1> QED
  BY <1>1, FS_EmptySet DEF Total

(* d units more of x, which may be new.                                    *)
More(x, k, d) == {x} \X (k + 1 .. k + d)

LEMMA UnitsMore ==
  ASSUME NEW S, IsFiniteSet(S), NEW f \in [S -> Nat],
         NEW g, NEW x, NEW k \in Nat, NEW d \in Nat,
         Units(g) = Units(f) \cup More(x, k, d),
         Units(f) \cap More(x, k, d) = {}
  PROVE  Total(g) = Total(f) + d
<1> DEFINE I == k + 1 .. k + d
           M == {x} \X I
<1>1. IsFiniteSet(I) /\ Cardinality(I) = d
  <2>1. k + 1 \in Int /\ k + d \in Int /\ (k + 1 > k + d <=> d = 0)
        /\ (k + d) - (k + 1) + 1 = d
    OBVIOUS
  <2> QED
    BY <2>1, FS_Interval
<1>2. IsFiniteSet({x}) /\ Cardinality({x}) = 1
  BY FS_Singleton
<1> HIDE DEF I
<1>3. IsFiniteSet(M) /\ Cardinality(M) = 1 * d
  BY <1>1, <1>2, FS_Product
<1>4. IsFiniteSet(Units(f)) /\ Cardinality(Units(f)) \in Nat
  BY TotalType DEF Total
<1>5. Units(g) = Units(f) \cup M /\ Units(f) \cap M = {}
  BY DEF I, More
<1> HIDE DEF M
<1>6. Cardinality(Units(g)) = Cardinality(Units(f)) + Cardinality(M)
                              - Cardinality(Units(f) \cap M)
  BY <1>3, <1>4, <1>5, FS_Union
<1>7. Cardinality(Units(f) \cap M) = 0
  BY <1>5, FS_EmptySet
<1> QED
  BY <1>3, <1>4, <1>6, <1>7 DEF Total

(* One of the numbers grows.                                               *)
LEMMA TotalGrows ==
  ASSUME NEW S, IsFiniteSet(S), NEW f \in [S -> Nat], NEW g \in [S -> Nat],
         NEW x \in S, NEW d \in Nat, g[x] = f[x] + d,
         \A y \in S : y # x => g[y] = f[y]
  PROVE  Total(g) = Total(f) + d
<1> DEFINE k == f[x]
           M == More(x, k, d)
<1>1. k \in Nat /\ g[x] = k + d
  OBVIOUS
<1>2. 1 .. k + d = (1 .. k) \cup (k + 1 .. k + d) /\ (1 .. k) \cap (k + 1 .. k + d) = {}
  <2> HIDE DEF k
  <2> QED
    BY <1>1
<1>3. Units(g) = Units(f) \cup M
  <2> SUFFICES ASSUME NEW u PROVE u \in Units(g) <=> u \in Units(f) \/ u \in M
    OBVIOUS
  <2>1. ASSUME NEW y \in S, y # x PROVE {y} \X (1 .. g[y]) = {y} \X (1 .. f[y])
    BY <2>1
  <2>2. {x} \X (1 .. g[x]) = ({x} \X (1 .. f[x])) \cup M
    BY <1>1, <1>2 DEF More
  <2> HIDE DEF M
  <2>3. u \in Units(g) <=> \E y \in S : u \in {y} \X (1 .. g[y])
    BY UnitsAre
  <2>4. u \in Units(f) <=> \E y \in S : u \in {y} \X (1 .. f[y])
    BY UnitsAre
  <2> QED
    BY <2>1, <2>2, <2>3, <2>4, Zenon
<1>4. Units(f) \cap M = {}
  <2> SUFFICES ASSUME NEW u \in Units(f), u \in M PROVE FALSE
    OBVIOUS
  <2>1. PICK y \in S : u \in {y} \X (1 .. f[y])
    BY UnitsAre
  <2>2. y = x
    BY <2>1 DEF More
  <2>3. u[2] \in 1 .. k /\ u[2] \in k + 1 .. k + d
    BY <2>1, <2>2 DEF More
  <2> QED
    BY <1>2, <2>3
<1> HIDE DEF k
<1> QED
  BY <1>1, <1>3, <1>4, UnitsMore

-----------------------------------------------------------------------------
USE CallPathAssumption DEF Locs, NoLoc, NoValue

(* The stack: pushing and popping a frame.                                 *)
LEMMA PathLength ==
  ASSUME NEW p \in Paths
  PROVE  /\ p \in Seq(Regions) /\ Len(p) \in 1 .. MaxDepth
         /\ RegionOf(p) \in Regions
<1>1. PICK d \in 1 .. MaxDepth : p \in [1 .. d -> Regions]
  BY DEF Paths
<1>2. p \in Seq(Regions) /\ Len(p) = d
  BY <1>1
<1> QED
  BY <1>2 DEF RegionOf

LEMMA PathOfSeq ==
  ASSUME NEW p \in Seq(Regions), Len(p) \in 1 .. MaxDepth
  PROVE  p \in Paths
BY DEF Paths

LEMMA Push ==
  ASSUME NEW s \in Seq(Frames), NEW f \in Frames
  PROVE  /\ <<f>> \o s \in Seq(Frames) /\ Len(<<f>> \o s) = Len(s) + 1
         /\ (<<f>> \o s)[1] = f
         /\ \A i \in 2 .. Len(s) + 1 : (<<f>> \o s)[i] = s[i - 1]
OBVIOUS

LEMMA Charge ==
  ASSUME NEW r \in Seq(Frames), r # <<>>, NEW d \in Nat
  PROVE  LET t == [r EXCEPT ![1].child_incl = @ + d]
         IN  /\ t \in Seq(Frames) /\ Len(t) = Len(r)
             /\ \A i \in 1 .. Len(r) :
                  t[i] = IF i = 1 THEN [r[1] EXCEPT !.child_incl = @ + d] ELSE r[i]
<1>1. 1 \in 1 .. Len(r) /\ r[1] \in Frames
  OBVIOUS
<1>2. r[1].child_incl + d \in Nat
  BY <1>1 DEF Frames
<1>3. [r[1] EXCEPT !.child_incl = @ + d] \in Frames
  BY <1>1, <1>2 DEF Frames
<1>4. [r EXCEPT ![1].child_incl = @ + d] = [r EXCEPT ![1] = [r[1] EXCEPT !.child_incl = @ + d]]
  OBVIOUS
<1> QED
  BY <1>1, <1>3, <1>4

LEMMA Pop ==
  ASSUME NEW s \in Seq(Frames), s # <<>>, NEW d \in Nat
  PROVE  LET t == ChargeCaller(Tail(s), d)
         IN  /\ t \in Seq(Frames) /\ Len(t) = Len(s) - 1
             /\ \A i \in 1 .. Len(t) :
                  t[i] = IF i = 1 THEN [s[2] EXCEPT !.child_incl = @ + d] ELSE s[i + 1]
<1> USE DEF ChargeCaller
<1>1. /\ Tail(s) \in Seq(Frames) /\ Len(Tail(s)) = Len(s) - 1
      /\ \A i \in 1 .. Len(Tail(s)) : Tail(s)[i] = s[i + 1]
  OBVIOUS
<1>2. CASE Tail(s) = <<>>
  BY <1>1, <1>2
<1>3. CASE Tail(s) # <<>>
  <2> DEFINE r == Tail(s)
             t == [r EXCEPT ![1].child_incl = @ + d]
  <2>1. /\ t \in Seq(Frames) /\ Len(t) = Len(r)
        /\ \A i \in 1 .. Len(r) :
             t[i] = IF i = 1 THEN [r[1] EXCEPT !.child_incl = @ + d] ELSE r[i]
    <3> HIDE DEF r
    <3> QED
      BY <1>1, <1>3, Charge DEF r
  <2>2. /\ Len(r) = Len(s) - 1 /\ Len(r) > 0
        /\ \A i \in 1 .. Len(r) : r[i] = s[i + 1]
    BY <1>1, <1>3
  <2>3. r[1] = s[2]
    BY <2>2, 1 + 1 = 2
  <2> HIDE DEF r
  <2>4. \A i \in 1 .. Len(t) :
          t[i] = IF i = 1 THEN [s[2] EXCEPT !.child_incl = @ + d] ELSE s[i + 1]
    <3> HIDE DEF t
    <3> QED
      BY <2>1, <2>2, <2>3
  <2> QED
    BY <2>1, <2>2, <2>4, <1>3 DEF r
<1> QED
  BY <1>2, <1>3

(* What a step relies on: the stack holds one frame for each region of its *)
(* innermost path, and children never took longer than their caller: a     *)
(* closed child of a frame fits between it and the frame opened in it, or  *)
(* between it and now.                                                     *)
Depth ==
  \A i \in 1 .. Len(node_stack) : Len(node_stack[i].node) = Len(node_stack) - i + 1

Nested ==
  \A i \in 1 .. Len(node_stack) :
    /\ node_stack[i].time <= clock
    /\ i = 1 => node_stack[i].child_incl <= clock - node_stack[i].time
    /\ i > 1 => node_stack[i].child_incl <= node_stack[i - 1].time - node_stack[i].time

Inv == TypeOK /\ Depth /\ Nested /\ CacheCurrent /\ Rooted /\ MessagesFlagged

LEMMA PathsGrow ==
  ASSUME NEW q \in Paths, NEW r \in Regions, Len(q) < MaxDepth
  PROVE  /\ Append(q, r) \in Paths /\ Len(Append(q, r)) = Len(q) + 1
         /\ ParentOf(Append(q, r)) = q
<1>1. q \in Seq(Regions) /\ Len(q) \in 1 .. MaxDepth
  BY PathLength
<1>2. /\ Append(q, r) \in Seq(Regions) /\ Len(Append(q, r)) = Len(q) + 1
      /\ \A i \in 1 .. Len(q) : Append(q, r)[i] = q[i]
  BY <1>1
<1>3. Append(q, r) \in Paths
  <2> DEFINE p == Append(q, r)
  <2>1. p \in Seq(Regions) /\ Len(p) \in 1 .. MaxDepth
    BY <1>1, <1>2
  <2> HIDE DEF p
  <2> QED
    BY <2>1, PathOfSeq DEF p
<1>4. ParentOf(Append(q, r)) = q
  BY <1>1, <1>2 DEF ParentOf
<1> QED
  BY <1>2, <1>3, <1>4

-----------------------------------------------------------------------------
LEMMA InitInv == Init => Inv
<1> SUFFICES ASSUME Init PROVE Inv
  OBVIOUS
<1>1. TypeOK
  <2>1. /\ loc \in 1 .. NumLocs + 1 /\ clock \in Nat /\ paired \in BOOLEAN
        /\ events \in 0 .. MaxEvents /\ tmp_metric \in Nat \cup {NoValue}
    <3>1. 1 \in 1 .. NumLocs + 1 /\ 0 \in 0 .. MaxEvents
      BY SMT
    <3> QED
      BY <3>1 DEF Init
  <2>2. node_stack \in Seq(Frames) /\ Len(node_stack) <= MaxDepth
    BY DEF Init
  <2>3. /\ present \subseteq Cells /\ metered \subseteq Cells /\ metric_type \in MetricTypes
        /\ has_p2p \subseteq Paths /\ has_collop \subseteq Paths /\ cut \subseteq Locs
    BY DEF Init
  <2>4. /\ f_data \in [Cells -> [count : Nat, incl : Nat, excl : Nat]]
        /\ metric \in [Cells -> [incl : Int, excl : Int]]
        /\ m_data \in [Cells -> Nat] /\ c_data \in [Cells -> Nat]
        /\ self \in [Cells -> Nat]
    BY DEF Init
  <2>5. /\ callers \in [Regions \X Regions -> Nat]
        /\ last_loc \in [Paths -> Locs \cup {NoLoc}]
    BY DEF Init
  <2> QED
    BY <2>1, <2>2, <2>3, <2>4, <2>5 DEF TypeOK
<1>2. Depth /\ Nested /\ CacheCurrent /\ Rooted
  BY DEF Init, Depth, Nested, CacheCurrent, Rooted
<1>3. MessagesFlagged
  BY DEF Init, MessagesFlagged
<1> QED
  BY <1>1, <1>2, <1>3 DEF Inv

(* What every event does: time goes on, and the node on top is in order.   *)
LEMMA Now ==
  ASSUME Inv, NEW d \in Deltas, Event(d)
  PROVE  /\ loc \in Locs /\ clock' \in Nat /\ clock' >= clock
         /\ self' \in [Cells -> Nat]
<1>1. d \in Nat /\ clock \in Nat /\ clock' = clock + d
  BY DEF Inv, TypeOK, Event
<1>2. self' \in [Cells -> Nat]
  <2> DEFINE cell == <<Top.node, loc>>
  <2>1. self \in [Cells -> Nat]
    BY DEF Inv, TypeOK
  <2>2. self' = self \/ self' = [self EXCEPT ![cell] = @ + d]
    BY DEF Event
  <2> HIDE DEF cell
  <2> QED
    BY <1>1, <2>1, <2>2
<1> QED
  BY <1>1, <1>2 DEF Event

LEMMA OnTop ==
  ASSUME Inv, ~Idle, loc \in Locs
  PROVE  /\ Len(node_stack) \in 1 .. MaxDepth
         /\ Top = node_stack[1] /\ Top \in Frames /\ Top.node \in Paths
         /\ Len(Top.node) = Len(node_stack)
         /\ <<Top.node, loc>> \in Cells /\ <<Top.node, loc>> \in present
         /\ last_loc[Top.node] = loc
         /\ Top.time \in Nat /\ Top.time <= clock
         /\ Top.child_incl \in Nat /\ Top.child_incl <= clock - Top.time
<1>1. /\ node_stack \in Seq(Frames) /\ node_stack # <<>> /\ Len(node_stack) <= MaxDepth
      /\ Len(node_stack) \in Nat
  BY DEF Inv, TypeOK, Idle
<1>2. Len(node_stack) \in 1 .. MaxDepth /\ 1 \in 1 .. Len(node_stack)
  BY <1>1
<1>3. Top = node_stack[1] /\ node_stack[1] \in Frames
  BY <1>1, <1>2 DEF Top
<1>4. Len(node_stack[1].node) = Len(node_stack) - 1 + 1
  BY <1>2 DEF Inv, Depth
<1>5. node_stack[1].time <= clock /\ node_stack[1].child_incl <= clock - node_stack[1].time
  BY <1>2 DEF Inv, Nested
<1>6. last_loc[node_stack[1].node] = loc /\ <<node_stack[1].node, loc>> \in present
  BY <1>1, <1>2 DEF Inv, CacheCurrent
<1> QED
  BY <1>1, <1>2, <1>3, <1>4, <1>5, <1>6 DEF Frames, Cells

(* What is added to the tree of a location keeps the types and the closure *)
(* towards the root, as long as the caller is in the tree.                 *)
LEMMA Added ==
  ASSUME Inv, loc \in Locs, NEW p \in Paths,
         NEW f \in [count : Nat, incl : Nat, excl : Nat],
         AddFunction(p, f),
         Len(p) > 1 => <<ParentOf(p), loc>> \in present
  PROVE  /\ f_data' \in [Cells -> [count : Nat, incl : Nat, excl : Nat]]
         /\ present' = present \cup {<<p, loc>>} /\ present' \subseteq Cells
         /\ last_loc' = [last_loc EXCEPT ![p] = loc]
         /\ last_loc' \in [Paths -> Locs \cup {NoLoc}]
         /\ Rooted'
<1> DEFINE cell == <<p, loc>>
<1>1. cell \in Cells /\ f_data \in [Cells -> [count : Nat, incl : Nat, excl : Nat]]
  BY DEF Cells, Inv, TypeOK
<1>2. [count |-> f_data[cell].count + f.count, incl |-> f_data[cell].incl + f.incl,
       excl |-> f_data[cell].excl + f.excl] \in [count : Nat, incl : Nat, excl : Nat]
  BY <1>1
<1>3. f_data' = [f_data EXCEPT ![cell] =
                   [count |-> f_data[cell].count + f.count,
                    incl |-> f_data[cell].incl + f.incl,
                    excl |-> f_data[cell].excl + f.excl]]
  BY DEF AddFunction
<1>4. f_data' \in [Cells -> [count : Nat, incl : Nat, excl : Nat]]
  BY <1>1, <1>2, <1>3
<1>5. present' = present \cup {cell} /\ last_loc' = [last_loc EXCEPT ![p] = loc]
  BY DEF AddFunction
<1>6. Rooted'
  <2> SUFFICES ASSUME NEW c \in present', Len(c[1]) > 1
               PROVE  <<ParentOf(c[1]), c[2]>> \in present'
    BY DEF Rooted
  <2>1. CASE c \in present
    BY <2>1, <1>5 DEF Inv, Rooted
  <2>2. CASE c = cell
    BY <2>2, <1>5
  <2> QED
    BY <2>1, <2>2, <1>5
<1> QED
  BY <1>1, <1>4, <1>5, <1>6 DEF Inv, TypeOK

LEMMA Metered ==
  ASSUME Inv, loc \in Locs, NEW p \in Paths, NEW sign \in {-1, 1}, Meter(p, sign)
  PROVE  /\ metric' \in [Cells -> [incl : Int, excl : Int]]
         /\ metered' \subseteq Cells /\ tmp_metric' \in Nat \cup {NoValue}
<1> DEFINE cell == <<p, loc>>
           up == <<ParentOf(p), last_loc[ParentOf(p)]>>
           own == [metric EXCEPT ![cell].incl = @ + sign * tmp_metric]
<1>0. /\ metric \in [Cells -> [incl : Int, excl : Int]] /\ metered \subseteq Cells
      /\ tmp_metric \in Nat \cup {NoValue} /\ cell \in Cells
  BY DEF Inv, TypeOK, Cells
<1>1. CASE tmp_metric = NoValue
  BY <1>0, <1>1 DEF Meter
<1>2. CASE tmp_metric # NoValue
  <2>1. tmp_metric \in Nat /\ sign * tmp_metric \in Int
    BY <1>0, <1>2
  <2>2. own \in [Cells -> [incl : Int, excl : Int]]
    BY <1>0, <2>1
  <2>3. [own EXCEPT ![up].excl = @ - sign * tmp_metric] \in [Cells -> [incl : Int, excl : Int]]
    <3> HIDE DEF own, up
    <3>1. ASSUME NEW m \in Int, NEW w \in [Cells -> [incl : Int, excl : Int]], NEW u
          PROVE  [w EXCEPT ![u].excl = @ - m] \in [Cells -> [incl : Int, excl : Int]]
      <4>1. CASE u \in Cells
        <5>1. w[u].excl - m \in Int
          BY <4>1
        <5>2. [w[u] EXCEPT !.excl = @ - m] \in [incl : Int, excl : Int]
          BY <4>1, <5>1
        <5> QED
          BY <5>2
      <4>2. CASE u \notin Cells
        BY <4>2
      <4> QED
        BY <4>1, <4>2
    <3> QED
      BY <3>1, <2>1, <2>2
  <2>4. /\ metric' = IF Len(p) = 1 THEN own ELSE [own EXCEPT ![up].excl = @ - sign * tmp_metric]
        /\ metered' = metered \cup {cell} /\ tmp_metric' = NoValue
    BY <1>2 DEF Meter
  <2> QED
    BY <2>2, <2>3, <2>4, <1>0
<1> QED
  BY <1>1, <1>2

(* What the events leave as it is in a step that neither pushes nor pops.  *)
LEMMA StackKept ==
  ASSUME Inv, UNCHANGED <<node_stack, loc>>, clock' \in Nat, clock' >= clock,
         present \subseteq present',
         \A i \in DOMAIN node_stack :
           last_loc'[node_stack[i].node] = last_loc[node_stack[i].node]
  PROVE  Depth' /\ Nested' /\ CacheCurrent'
<1>1. Depth'
  BY DEF Inv, Depth
<1>2. Nested'
  <2> SUFFICES ASSUME NEW i \in 1 .. Len(node_stack)
               PROVE  /\ node_stack[i].time <= clock'
                      /\ i = 1 => node_stack[i].child_incl <= clock' - node_stack[i].time
                      /\ i > 1 => node_stack[i].child_incl
                                   <= node_stack[i - 1].time - node_stack[i].time
    BY DEF Nested
  <2>1. node_stack[i].time \in Nat /\ node_stack[i].child_incl \in Nat /\ clock \in Nat
    <3>1. node_stack \in Seq(Frames) /\ clock \in Nat
      BY DEF Inv, TypeOK
    <3>2. node_stack[i] \in Frames
      BY <3>1
    <3> QED
      BY <3>1, <3>2 DEF Frames
  <2>2. /\ node_stack[i].time <= clock
        /\ i = 1 => node_stack[i].child_incl <= clock - node_stack[i].time
        /\ i > 1 => node_stack[i].child_incl
                     <= node_stack[i - 1].time - node_stack[i].time
    BY DEF Inv, Nested
  <2> QED
    BY <2>1, <2>2
<1>3. CacheCurrent'
  BY DEF Inv, CacheCurrent
<1> QED
  BY <1>1, <1>2, <1>3

LEMMA MetricStep ==
  ASSUME Inv, UNCHANGED metric_type, NEW d \in Deltas, HandleMetric(d)
  PROVE  Inv'
<1>1. Event(d) /\ loc \in Locs /\ clock' \in Nat /\ clock' >= clock
      /\ self' \in [Cells -> Nat]
  BY Now DEF HandleMetric
<1>2. TypeOK'
  <2>1. tmp_metric' \in Nat \cup {NoValue}
    BY <1>1 DEF HandleMetric, Recorded, Inv, TypeOK
  <2> QED
    BY <1>1, <2>1 DEF HandleMetric, comm, Inv, TypeOK
<1>3. Depth' /\ Nested' /\ CacheCurrent'
  BY <1>1, StackKept DEF HandleMetric
<1>4. Rooted' /\ MessagesFlagged'
  BY DEF HandleMetric, comm, Inv, Rooted, MessagesFlagged
<1> QED
  BY <1>2, <1>3, <1>4 DEF Inv

(* What all messages and collectives do, whatever they count and flag.     *)
LEMMA CommunicateStep ==
  ASSUME Inv, UNCHANGED metric_type, NEW d \in Deltas, NEW n \in 0 .. 2, Communicate(d, n),
         m_data' \in [Cells -> Nat], c_data' \in [Cells -> Nat],
         has_p2p' \subseteq Paths, has_collop' \subseteq Paths, MessagesFlagged'
  PROVE  Inv'
<1> DEFINE cell == <<Top.node, loc>>
<1>1. /\ loc \in Locs /\ clock' \in Nat /\ clock' >= clock /\ ~Idle
      /\ self' \in [Cells -> Nat]
  BY Now DEF Communicate
<1>2. cell \in Cells /\ cell \in present /\ last_loc[Top.node] = loc /\ Top.node \in Paths
  BY <1>1, OnTop
<1>3. present' = present /\ last_loc' = last_loc
  <2>1. last_loc \in [Paths -> Locs \cup {NoLoc}]
    BY DEF Inv, TypeOK
  <2>2. present \cup {cell} = present /\ [last_loc EXCEPT ![Top.node] = loc] = last_loc
    BY <1>2, <2>1
  <2> QED
    BY <2>2 DEF Communicate
<1>4. TypeOK'
  <2>1. events' \in 0 .. MaxEvents
    BY DEF Communicate, Inv, TypeOK
  <2> QED
    BY <1>1, <1>3, <2>1 DEF Communicate, Inv, TypeOK
<1>5. Depth' /\ Nested' /\ CacheCurrent'
  BY <1>1, <1>3, StackKept DEF Communicate
<1>6. Rooted'
  BY <1>3 DEF Inv, Rooted
<1> QED
  BY <1>4, <1>5, <1>6 DEF Inv

LEMMA MessageStep ==
  ASSUME Inv, UNCHANGED metric_type, NEW d \in Deltas, HandleMessage(d)
  PROVE  Inv'
<1> DEFINE cell == <<Top.node, loc>>
<1>1. cell \in Cells /\ Top.node \in Paths
  BY Now, OnTop DEF HandleMessage, Communicate
<1>2. /\ m_data' = [m_data EXCEPT ![cell] = @ + 1] /\ m_data' \in [Cells -> Nat]
      /\ m_data \in [Cells -> Nat] /\ c_data' = c_data /\ c_data' \in [Cells -> Nat]
  BY <1>1 DEF HandleMessage, Inv, TypeOK
<1>3. /\ has_p2p' = has_p2p \cup {Top.node} /\ has_collop' = has_collop
      /\ has_p2p' \subseteq Paths /\ has_collop' \subseteq Paths
  BY <1>1 DEF HandleMessage, FlagP2p, Inv, TypeOK
<1>4. MessagesFlagged'
  <2> SUFFICES ASSUME NEW c \in Cells
               PROVE  /\ m_data'[c] > 0 => c[1] \in has_p2p'
                      /\ c_data'[c] > 0 => c[1] \in has_collop'
    BY DEF MessagesFlagged
  <2>1. /\ m_data[c] > 0 => c[1] \in has_p2p
        /\ c_data[c] > 0 => c[1] \in has_collop
    BY DEF Inv, MessagesFlagged
  <2>2. CASE c = cell
    BY <1>2, <1>3, <2>1, <2>2
  <2>3. CASE c # cell
    BY <1>2, <1>3, <2>1, <2>3
  <2> QED
    BY <2>2, <2>3
<1>5. Communicate(d, 1) /\ 1 \in 0 .. 2
  BY DEF HandleMessage
<1> HIDE DEF cell
<1> QED
  BY <1>2, <1>3, <1>4, <1>5, CommunicateStep

LEMMA CollectiveStep ==
  ASSUME Inv, UNCHANGED metric_type, NEW d \in Deltas, NEW n \in 0 .. 2,
         HandleCollective(d, n)
  PROVE  Inv'
<1> DEFINE cell == <<Top.node, loc>>
<1>1. cell \in Cells /\ Top.node \in Paths
  BY Now, OnTop DEF HandleCollective, Communicate
<1>2. /\ c_data' = [c_data EXCEPT ![cell] = @ + n] /\ c_data' \in [Cells -> Nat]
      /\ c_data \in [Cells -> Nat] /\ m_data' = m_data /\ m_data' \in [Cells -> Nat]
  BY <1>1 DEF HandleCollective, Inv, TypeOK
<1>3. /\ has_collop' = has_collop \cup {Top.node} /\ has_p2p' = has_p2p
      /\ has_p2p' \subseteq Paths /\ has_collop' \subseteq Paths
  BY <1>1 DEF HandleCollective, FlagCollop, Inv, TypeOK
<1>4. MessagesFlagged'
  <2> SUFFICES ASSUME NEW c \in Cells
               PROVE  /\ m_data'[c] > 0 => c[1] \in has_p2p'
                      /\ c_data'[c] > 0 => c[1] \in has_collop'
    BY DEF MessagesFlagged
  <2>1. /\ m_data[c] > 0 => c[1] \in has_p2p
        /\ c_data[c] > 0 => c[1] \in has_collop
    BY DEF Inv, MessagesFlagged
  <2>2. CASE c = cell
    BY <1>2, <1>3, <2>1, <2>2
  <2>3. CASE c # cell
    BY <1>2, <1>3, <2>1, <2>3
  <2> QED
    BY <2>2, <2>3
<1>5. Communicate(d, n)
  BY DEF HandleCollective
<1> HIDE DEF cell
<1> QED
  BY <1>2, <1>3, <1>4, <1>5, CommunicateStep

LEMMA LocationStep ==
  ASSUME Inv, UNCHANGED metric_type, NextLocation
  PROVE  Inv'
<1>1. loc \in Locs /\ loc' \in 1 .. NumLocs + 1 /\ node_stack' = <<>>
      /\ cut' \subseteq Locs
  BY DEF NextLocation, Inv, TypeOK
<1>2. TypeOK'
  <2>1. node_stack' \in Seq(Frames) /\ Len(node_stack') <= MaxDepth
    BY <1>1
  <2> QED
    BY <1>1, <2>1 DEF NextLocation, comm, Inv, TypeOK
<1>3. Depth' /\ Nested' /\ CacheCurrent'
  BY <1>1 DEF Depth, Nested, CacheCurrent
<1>4. Rooted' /\ MessagesFlagged'
  BY DEF NextLocation, comm, Inv, Rooted, MessagesFlagged
<1> QED
  BY <1>2, <1>3, <1>4 DEF Inv

(* What handle_enter does to the stack: the region it pushes.              *)
Entering(region) == IF Idle THEN <<region>> ELSE Append(Top.node, region)

LEMMA Entered ==
  ASSUME Inv, NEW d \in Deltas, NEW region \in Regions, HandleEnter(d, region)
  PROVE  /\ Entering(region) \in Paths /\ Len(Entering(region)) = Len(node_stack) + 1
         /\ RegionOf(Entering(region)) = region
         /\ Len(Entering(region)) > 1 => ~Idle /\ ParentOf(Entering(region)) = Top.node
         /\ node_stack' \in Seq(Frames) /\ Len(node_stack') = Len(node_stack) + 1
         /\ node_stack'[1] = [node |-> Entering(region), time |-> clock', child_incl |-> 0]
         /\ \A i \in 2 .. Len(node_stack) + 1 : node_stack'[i] = node_stack[i - 1]
<1> DEFINE p == Entering(region)
           f == [node |-> p, time |-> clock', child_incl |-> 0]
           n == Len(node_stack)
<1>1. loc \in Locs /\ clock' \in Nat /\ Len(p) <= MaxDepth
  BY Now DEF HandleEnter, Entering
<1>2. node_stack \in Seq(Frames) /\ n \in Nat
  BY DEF Inv, TypeOK
<1>3. /\ p \in Paths /\ Len(p) = n + 1 /\ RegionOf(p) = region
      /\ Len(p) > 1 => ~Idle /\ ParentOf(p) = Top.node
  <2>1. CASE Idle
    <3>1. p \in Seq(Regions) /\ Len(p) = 1 /\ p[1] = region
      BY <2>1 DEF Entering
    <3>2. \A q \in Seq(Regions) : Len(q) = 1 => q \in Paths
      <4> SUFFICES ASSUME NEW q \in Seq(Regions), Len(q) = 1 PROVE q \in Paths
        OBVIOUS
      <4>1. 1 \in 1 .. MaxDepth
        BY SMT
      <4> QED
        BY <4>1, PathOfSeq
    <3>3. n = 0
      BY <2>1 DEF Idle
    <3> HIDE DEF p
    <3> QED
      BY <2>1, <3>1, <3>2, <3>3 DEF RegionOf
  <2>2. CASE ~Idle
    <3>1. Top.node \in Paths /\ Len(Top.node) = n
      BY <1>1, <2>2, OnTop
    <3>2. Top.node \in Seq(Regions)
      BY <3>1, PathLength
    <3>3. p = Append(Top.node, region) /\ Len(Top.node) < MaxDepth
      BY <1>1, <1>2, <2>2, <3>1, <3>2 DEF Entering
    <3>4. RegionOf(p) = region
      BY <3>2, <3>3 DEF RegionOf
    <3> QED
      BY <2>2, <3>1, <3>3, <3>4, PathsGrow
  <2> QED
    BY <2>1, <2>2
<1>4. f \in Frames
  BY <1>1, <1>3 DEF Frames
<1>5. node_stack' = <<f>> \o node_stack
  BY DEF HandleEnter, Entering
<1>6. /\ node_stack' \in Seq(Frames) /\ Len(node_stack') = n + 1
      /\ node_stack'[1] = f
      /\ \A i \in 2 .. n + 1 : node_stack'[i] = node_stack[i - 1]
  <2> HIDE DEF f
  <2> QED
    BY <1>2, <1>4, <1>5, Push
<1> QED
  BY <1>3, <1>6

LEMMA EnterStep ==
  ASSUME Inv, UNCHANGED metric_type, NEW d \in Deltas, NEW region \in Regions, HandleEnter(d, region)
  PROVE  Inv'
<1> DEFINE p == Entering(region)
           f == [node |-> p, time |-> clock', child_incl |-> 0]
           zero == [count |-> 0, incl |-> 0, excl |-> 0]
           n == Len(node_stack)
<1>1. /\ loc \in Locs /\ clock' \in Nat /\ clock' >= clock
      /\ self' \in [Cells -> Nat] /\ Len(p) <= MaxDepth
  BY Now DEF HandleEnter, Entering
<1>2. /\ node_stack \in Seq(Frames) /\ n \in Nat /\ clock \in Nat
      /\ \A i \in 1 .. n : node_stack[i] \in Frames
  BY DEF Inv, TypeOK
<1>3. /\ p \in Paths /\ Len(p) = n + 1
      /\ Len(p) > 1 => ~Idle /\ ParentOf(p) = Top.node /\ <<ParentOf(p), loc>> \in present
  BY <1>1, Entered, OnTop
<1>4. f \in Frames /\ zero \in [count : Nat, incl : Nat, excl : Nat]
  BY <1>1, <1>3 DEF Frames
<1> HIDE DEF p
<1>5. AddFunction(p, zero) /\ Meter(p, -1)
  BY DEF HandleEnter, p, Entering
<1>6. /\ f_data' \in [Cells -> [count : Nat, incl : Nat, excl : Nat]]
      /\ present' = present \cup {<<p, loc>>} /\ present' \subseteq Cells
      /\ last_loc' = [last_loc EXCEPT ![p] = loc]
      /\ last_loc' \in [Paths -> Locs \cup {NoLoc}]
      /\ Rooted'
  <2> HIDE DEF zero
  <2> QED
    BY <1>1, <1>3, <1>4, <1>5, Added
<1>7. /\ metric' \in [Cells -> [incl : Int, excl : Int]]
      /\ metered' \subseteq Cells /\ tmp_metric' \in Nat \cup {NoValue}
  BY <1>1, <1>3, <1>5, Metered
<1>8. /\ node_stack' \in Seq(Frames) /\ Len(node_stack') = n + 1
      /\ node_stack'[1] = f
      /\ \A i \in 2 .. n + 1 : node_stack'[i] = node_stack[i - 1]
  BY Entered DEF p
<1>9. callers' \in [Regions \X Regions -> Nat]
  <2>1. callers \in [Regions \X Regions -> Nat]
    BY DEF Inv, TypeOK
  <2>2. callers' = callers \/ \E c \in Regions \X Regions : callers' = [callers EXCEPT ![c] = @ + 1]
    <3>1. CASE Idle
      BY <3>1 DEF HandleEnter, CountCall
    <3>2. CASE ~Idle
      <4>1. RegionOf(Top.node) \in Regions
        BY <1>1, <3>2, OnTop, PathLength
      <4>2. callers' = [callers EXCEPT ![<<region, RegionOf(Top.node)>>] = @ + 1]
        BY <3>2 DEF HandleEnter, CountCall
      <4> QED
        BY <4>1, <4>2
    <3> QED
      BY <3>1, <3>2
  <2> QED
    BY <2>1, <2>2
<1>10. TypeOK'
  <2>1. events' \in 0 .. MaxEvents
    BY DEF HandleEnter, Inv, TypeOK
  <2>2. Len(node_stack') <= MaxDepth
    BY <1>1, <1>2, <1>3, <1>8
  <2>3. /\ loc' \in 1 .. NumLocs + 1 /\ m_data' \in [Cells -> Nat]
        /\ c_data' \in [Cells -> Nat] /\ metric_type' \in MetricTypes
        /\ has_p2p' \subseteq Paths /\ has_collop' \subseteq Paths
        /\ cut' \subseteq Locs /\ paired' \in BOOLEAN
    BY DEF HandleEnter, comm, Paired, Inv, TypeOK
  <2> QED
    BY <1>1, <1>6, <1>7, <1>8, <1>9, <2>1, <2>2, <2>3 DEF TypeOK
<1>11. Depth'
  <2> SUFFICES ASSUME NEW i \in 1 .. n + 1
               PROVE  Len(node_stack'[i].node) = n + 1 - i + 1
    BY <1>8 DEF Depth
  <2>1. CASE i = 1
    BY <1>2, <1>3, <1>8, <2>1
  <2>2. CASE i > 1
    <3>1. i - 1 \in 1 .. n /\ node_stack'[i] = node_stack[i - 1]
      BY <1>2, <1>8, <2>2
    <3>2. Len(node_stack[i - 1].node) = n - (i - 1) + 1
      BY <3>1 DEF Inv, Depth
    <3> QED
      BY <1>2, <3>1, <3>2
  <2> QED
    BY <1>2, <2>1, <2>2
<1>12. Nested'
  <2> SUFFICES ASSUME NEW i \in 1 .. n + 1
               PROVE  /\ node_stack'[i].time <= clock'
                      /\ i = 1 => node_stack'[i].child_incl <= clock' - node_stack'[i].time
                      /\ i > 1 => node_stack'[i].child_incl
                                   <= node_stack'[i - 1].time - node_stack'[i].time
    BY <1>8 DEF Nested
  <2>1. CASE i = 1
    BY <1>1, <1>8, <2>1
  <2>2. CASE i > 1
    <3> DEFINE j == i - 1
    <3>1. j \in 1 .. n /\ node_stack'[i] = node_stack[j]
      BY <1>2, <1>8, <2>2
    <3>2. /\ node_stack[j].time \in Nat /\ node_stack[j].child_incl \in Nat
          /\ node_stack[j].time <= clock
          /\ j = 1 => node_stack[j].child_incl <= clock - node_stack[j].time
          /\ j > 1 => node_stack[j].child_incl <= node_stack[j - 1].time - node_stack[j].time
      BY <1>2, <3>1 DEF Inv, Nested, Frames
    <3>3. CASE j = 1
      BY SMTT(20), <1>1, <1>2, <1>8, <3>1, <3>2, <3>3
    <3>4. CASE j > 1
      <4>1. j \in 2 .. n + 1
        BY <1>2, <3>1, <3>4
      <4>2. node_stack'[j] = node_stack[j - 1]
        BY <1>8, <4>1
      <4> QED
        BY SMTT(20), <1>1, <1>2, <3>1, <3>2, <3>4, <4>2
    <3> QED
      BY <3>1, <3>3, <3>4
  <2> QED
    BY <1>2, <2>1, <2>2
<1>13. CacheCurrent'
  <2> SUFFICES ASSUME NEW i \in 1 .. n + 1
               PROVE  /\ last_loc'[node_stack'[i].node] = loc
                      /\ <<node_stack'[i].node, loc>> \in present'
    <3>1. DOMAIN node_stack' = 1 .. n + 1
      BY <1>2, <1>8
    <3>2. loc' = loc
      BY DEF HandleEnter
    <3> HIDE DEF n
    <3> QED
      BY <3>1, <3>2 DEF CacheCurrent
  <2>0. last_loc \in [Paths -> Locs \cup {NoLoc}]
    BY DEF Inv, TypeOK
  <2>1. CASE i = 1
    BY <1>3, <1>6, <1>8, <2>0, <2>1
  <2>2. CASE i > 1
    <3>1. i - 1 \in 1 .. n /\ node_stack'[i] = node_stack[i - 1]
      BY <1>2, <1>8, <2>2
    <3>2. /\ node_stack[i - 1].node \in Paths
          /\ last_loc[node_stack[i - 1].node] = loc
          /\ <<node_stack[i - 1].node, loc>> \in present
      BY <1>2, <3>1 DEF Inv, CacheCurrent, Frames
    <3> QED
      BY <1>6, <2>0, <3>1, <3>2
  <2> QED
    BY <1>2, <2>1, <2>2
<1>14. MessagesFlagged'
  BY DEF HandleEnter, comm, Inv, MessagesFlagged
<1> QED
  BY <1>6, <1>10, <1>11, <1>12, <1>13, <1>14 DEF Inv

(* What handle_leave does to the stack: the region it pops, and the time   *)
(* its caller is charged with.                                             *)
Taken == clock' - Top.time

LEMMA Left ==
  ASSUME Inv, NEW d \in Deltas, HandleLeave(d)
  PROVE  /\ Taken \in Nat /\ Len(node_stack) \in Nat /\ Len(node_stack) > 0
         /\ node_stack' \in Seq(Frames) /\ Len(node_stack') = Len(node_stack) - 1
         /\ \A i \in 1 .. Len(node_stack) - 1 :
              /\ i + 1 \in 1 .. Len(node_stack)
              /\ node_stack'[i].node = node_stack[i + 1].node
              /\ node_stack'[i].time = node_stack[i + 1].time
              /\ node_stack'[i].child_incl = IF i = 1 THEN node_stack[2].child_incl + Taken
                                             ELSE node_stack[i + 1].child_incl
<1> DEFINE t == Taken
           n == Len(node_stack)
<1>1. /\ loc \in Locs /\ clock' \in Nat /\ clock' >= clock /\ ~Idle
  BY Now DEF HandleLeave
<1>2. /\ node_stack \in Seq(Frames) /\ node_stack # <<>> /\ n \in Nat /\ n > 0
      /\ clock \in Nat /\ \A i \in 1 .. n : node_stack[i] \in Frames
  BY <1>1 DEF Inv, TypeOK, Idle
<1>3. t \in Nat
  <2>1. Top.time \in Nat /\ Top.time <= clock
    BY <1>1, OnTop
  <2> QED
    BY <1>1, <1>2, <2>1 DEF Taken
<1>4. node_stack' = ChargeCaller(Tail(node_stack), t)
  BY DEF HandleLeave, Taken
<1>5. /\ node_stack' \in Seq(Frames) /\ Len(node_stack') = n - 1
      /\ \A i \in 1 .. n - 1 :
           node_stack'[i] = IF i = 1 THEN [node_stack[2] EXCEPT !.child_incl = @ + t]
                            ELSE node_stack[i + 1]
  <2> HIDE DEF t
  <2> QED
    <3> DEFINE rest == ChargeCaller(Tail(node_stack), t)
    <3>1. /\ rest \in Seq(Frames) /\ Len(rest) = n - 1
          /\ \A i \in 1 .. Len(rest) :
               rest[i] = IF i = 1 THEN [node_stack[2] EXCEPT !.child_incl = @ + t]
                         ELSE node_stack[i + 1]
      BY <1>2, <1>3, Pop
    <3>2. node_stack' = rest
      BY <1>4
    <3> HIDE DEF rest
    <3> QED
      BY <3>1, <3>2
<1>6. \A i \in 1 .. n - 1 :
         /\ i + 1 \in 1 .. n
         /\ node_stack'[i].node = node_stack[i + 1].node
         /\ node_stack'[i].time = node_stack[i + 1].time
         /\ node_stack'[i].child_incl = IF i = 1 THEN node_stack[2].child_incl + t
                                        ELSE node_stack[i + 1].child_incl
  <2> SUFFICES ASSUME NEW i \in 1 .. n - 1
               PROVE  /\ i + 1 \in 1 .. n
                      /\ node_stack'[i].node = node_stack[i + 1].node
                      /\ node_stack'[i].time = node_stack[i + 1].time
                      /\ node_stack'[i].child_incl = IF i = 1 THEN node_stack[2].child_incl + t
                                                     ELSE node_stack[i + 1].child_incl
    OBVIOUS
  <2> HIDE DEF t
  <2>1. i + 1 \in 1 .. n
    BY <1>2
  <2>2. CASE i = 1
    <3>1. node_stack[2] \in Frames
      BY <1>2, <2>1, <2>2
    <3>2. node_stack'[1] = [node_stack[2] EXCEPT !.child_incl = @ + t]
      BY <1>5, <2>2
    <3> QED
      BY <2>1, <2>2, <3>1, <3>2 DEF Frames
  <2>3. CASE i # 1
    BY <1>5, <2>1, <2>3
  <2> QED
    BY <2>2, <2>3
<1> QED
  BY <1>2, <1>3, <1>5, <1>6

LEMMA LeaveStep ==
  ASSUME Inv, UNCHANGED metric_type, NEW d \in Deltas, HandleLeave(d)
  PROVE  Inv'
<1> DEFINE p == Top.node
           t == clock' - Top.time
           f == [count |-> 1, incl |-> t, excl |-> SelfTime(t)]
           n == Len(node_stack)
<1>1. /\ loc \in Locs /\ clock' \in Nat /\ clock' >= clock /\ ~Idle
      /\ self' \in [Cells -> Nat]
  BY Now DEF HandleLeave
<1>2. /\ node_stack \in Seq(Frames) /\ node_stack # <<>> /\ n \in Nat /\ n > 0
      /\ n <= MaxDepth /\ clock \in Nat
      /\ \A i \in 1 .. n : node_stack[i] \in Frames
  BY <1>1 DEF Inv, TypeOK, Idle
<1>3. /\ Top = node_stack[1] /\ p \in Paths /\ <<p, loc>> \in Cells
      /\ <<p, loc>> \in present /\ last_loc[p] = loc
      /\ Top.time \in Nat /\ Top.time <= clock
      /\ Top.child_incl \in Nat /\ Top.child_incl <= clock - Top.time
  BY <1>1, OnTop
<1>4. t \in Nat /\ f \in [count : Nat, incl : Nat, excl : Nat]
  <2>1. t \in Nat /\ SelfTime(t) \in Nat
    BY <1>1, <1>2, <1>3, SMTT(20) DEF SelfTime
  <2> QED
    BY <2>1
<1>5. AddFunction(p, f) /\ Meter(p, 1)
  BY DEF HandleLeave
<1>6. /\ f_data' \in [Cells -> [count : Nat, incl : Nat, excl : Nat]]
      /\ present' = present \cup {<<p, loc>>} /\ present' \subseteq Cells
      /\ last_loc' = [last_loc EXCEPT ![p] = loc]
      /\ last_loc' \in [Paths -> Locs \cup {NoLoc}]
      /\ Rooted'
  <2>1. Len(p) > 1 => <<ParentOf(p), loc>> \in present
    BY <1>3 DEF Inv, Rooted
  <2> HIDE DEF f, p
  <2> QED
    BY <1>1, <1>3, <1>4, <1>5, <2>1, Added
<1>7. present' = present /\ last_loc' = last_loc
  <2>1. last_loc \in [Paths -> Locs \cup {NoLoc}]
    BY DEF Inv, TypeOK
  <2> HIDE DEF p
  <2> QED
    BY <1>3, <1>6, <2>1
<1>8. /\ metric' \in [Cells -> [incl : Int, excl : Int]]
      /\ metered' \subseteq Cells /\ tmp_metric' \in Nat \cup {NoValue}
  BY <1>1, <1>3, <1>5, Metered
<1>9. /\ node_stack' \in Seq(Frames) /\ Len(node_stack') = n - 1
      /\ \A i \in 1 .. n - 1 :
           /\ i + 1 \in 1 .. n
           /\ node_stack'[i].node = node_stack[i + 1].node
           /\ node_stack'[i].time = node_stack[i + 1].time
           /\ node_stack'[i].child_incl = IF i = 1 THEN node_stack[2].child_incl + t
                                          ELSE node_stack[i + 1].child_incl
  BY Left DEF Taken
<1>11. TypeOK'
  <2>1. Len(node_stack') <= MaxDepth
    BY <1>2, <1>9
  <2>2. /\ loc' \in 1 .. NumLocs + 1 /\ m_data' \in [Cells -> Nat]
        /\ c_data' \in [Cells -> Nat] /\ metric_type' \in MetricTypes
        /\ has_p2p' \subseteq Paths /\ has_collop' \subseteq Paths
        /\ cut' \subseteq Locs /\ paired' \in BOOLEAN
        /\ events' \in 0 .. MaxEvents /\ callers' \in [Regions \X Regions -> Nat]
    BY DEF HandleLeave, comm, Paired, Inv, TypeOK
  <2> QED
    BY <1>1, <1>6, <1>8, <1>9, <2>1, <2>2 DEF TypeOK
<1>12. Depth'
  <2> SUFFICES ASSUME NEW i \in 1 .. n - 1
               PROVE  Len(node_stack'[i].node) = n - 1 - i + 1
    BY <1>9 DEF Depth
  <2>1. Len(node_stack[i + 1].node) = n - (i + 1) + 1
    BY <1>9 DEF Inv, Depth
  <2>2. n - (i + 1) + 1 = n - 1 - i + 1
    BY <1>2
  <2>3. node_stack'[i].node = node_stack[i + 1].node
    BY <1>9
  <2> QED
    BY <2>1, <2>2, <2>3
<1>13. Nested'
  <2> SUFFICES ASSUME NEW i \in 1 .. n - 1
               PROVE  /\ node_stack'[i].time <= clock'
                      /\ i = 1 => node_stack'[i].child_incl <= clock' - node_stack'[i].time
                      /\ i > 1 => node_stack'[i].child_incl
                                   <= node_stack'[i - 1].time - node_stack'[i].time
    BY <1>9 DEF Nested
  <2>1. /\ i + 1 \in 1 .. n
        /\ node_stack[i + 1].time \in Nat /\ node_stack[i + 1].child_incl \in Nat
        /\ node_stack[i].time \in Nat
    <3>1. i \in 1 .. n /\ i + 1 \in 1 .. n
      BY <1>2, <1>9
    <3>2. node_stack[i] \in Frames /\ node_stack[i + 1] \in Frames
      BY <1>2, <3>1
    <3> QED
      BY <3>1, <3>2 DEF Frames
  <2>2. /\ node_stack[i + 1].time <= clock
        /\ node_stack[i + 1].child_incl <= node_stack[i].time - node_stack[i + 1].time
    BY <1>2, <2>1 DEF Inv, Nested
  <2>3. CASE i = 1
    <3>1. /\ node_stack'[1].time = node_stack[2].time
          /\ node_stack'[1].child_incl = node_stack[2].child_incl + t
      BY <1>9, <2>3
    <3>2. /\ node_stack[2].time <= clock /\ node_stack[2].time \in Nat
          /\ node_stack[2].child_incl \in Nat
          /\ node_stack[2].child_incl <= Top.time - node_stack[2].time
      BY <1>3, <2>1, <2>2, <2>3
    <3>3. node_stack[2].child_incl + t <= clock' - node_stack[2].time
      <4>1. \A ch, tm, up, now \in Nat : ch <= up - tm => ch + (now - up) <= now - tm
        BY SMT
      <4> QED
        BY <1>1, <1>3, <3>2, <4>1
    <3>4. node_stack[2].time <= clock'
      BY <1>1, <1>2, <3>2
    <3> HIDE DEF n, t
    <3> QED
      BY <2>3, <3>1, <3>3, <3>4
  <2>4. CASE i > 1
    <3>1. i - 1 \in 1 .. n - 1 /\ (i - 1) + 1 = i
      BY <1>2, <2>4
    <3>2. node_stack'[i - 1].time = node_stack[i].time
      BY <1>9, <3>1
    <3>3. node_stack'[i].time = node_stack[i + 1].time
          /\ node_stack'[i].child_incl = node_stack[i + 1].child_incl
      BY <1>9, <2>4
    <3> QED
      BY <1>1, <1>2, <2>1, <2>2, <2>4, <3>2, <3>3
  <2> QED
    BY <1>2, <2>3, <2>4
<1>14. CacheCurrent'
  <2> SUFFICES ASSUME NEW i \in 1 .. n - 1
               PROVE  /\ last_loc'[node_stack'[i].node] = loc
                      /\ <<node_stack'[i].node, loc>> \in present'
    <3>1. DOMAIN node_stack' = 1 .. n - 1
      BY <1>2, <1>9
    <3>2. loc' = loc
      BY DEF HandleLeave
    <3> HIDE DEF n
    <3> QED
      BY <3>1, <3>2 DEF CacheCurrent
  <2>1. i + 1 \in DOMAIN node_stack
    BY <1>2, <1>9
  <2> QED
    BY <1>7, <1>9, <2>1 DEF Inv, CacheCurrent
<1>15. MessagesFlagged'
  BY DEF HandleLeave, comm, Inv, MessagesFlagged
<1> QED
  BY <1>6, <1>11, <1>12, <1>13, <1>14, <1>15 DEF Inv

-----------------------------------------------------------------------------
LEMMA Inductive == Spec => []Inv
<1>1. Init => Inv
  BY InitInv
<1>2. Inv /\ [Next]_vars => Inv'
  <2> SUFFICES ASSUME Inv, [Next]_vars
               PROVE  Inv'
    OBVIOUS
  <2>0. UNCHANGED metric_type
    BY DEF Next, vars
  <2>1. ASSUME NEW d \in Deltas, HandleMetric(d) PROVE Inv'
    BY <2>0, <2>1, MetricStep
  <2>2. ASSUME NEW d \in Deltas, HandleLeave(d) PROVE Inv'
    BY <2>0, <2>2, LeaveStep
  <2>3. ASSUME NEW d \in Deltas, NEW region \in Regions, HandleEnter(d, region) PROVE Inv'
    BY <2>0, <2>3, EnterStep
  <2>4. ASSUME NEW d \in Deltas, HandleMessage(d) PROVE Inv'
    BY <2>0, <2>4, MessageStep
  <2>5. ASSUME NEW d \in Deltas, NEW n \in 0 .. 2, HandleCollective(d, n) PROVE Inv'
    BY <2>0, <2>5, CollectiveStep
  <2>6. CASE NextLocation
    BY <2>0, <2>6, LocationStep
  <2>7. CASE UNCHANGED vars
    BY <2>7 DEF vars, comm, Inv, TypeOK, Depth, Nested, CacheCurrent, Rooted, MessagesFlagged
  <2> QED
    BY <2>1, <2>2, <2>3, <2>4, <2>5, <2>6, <2>7 DEF Next, Done
<1> QED
  BY <1>1, <1>2, PTL DEF Spec

(* Every variable keeps its type.  That times are natural numbers is the   *)
(* point: a wrapped difference of handle_leave would be a negative one.    *)
THEOREM Typing == Spec => []TypeOK
<1>1. Inv => TypeOK
  BY DEF Inv
<1> QED
  BY <1>1, Inductive, PTL

(* incl_time - child_incl of handle_leave never wraps around: however      *)
(* calls nest, the children of an open region took at most as long as it   *)
(* has been open.                                                          *)
THEOREM ChildrenWithin == Spec => []ChildTime
<1>1. Inv => ChildTime
  <2> SUFFICES ASSUME Inv PROVE ChildTime
    OBVIOUS
  <2> SUFFICES ASSUME NEW i \in 1 .. Len(node_stack)
               PROVE  node_stack[i].child_incl <= clock - node_stack[i].time
    <3>1. node_stack \in Seq(Frames)
      BY DEF Inv, TypeOK
    <3>2. DOMAIN node_stack = 1 .. Len(node_stack)
      BY <3>1
    <3> QED
      BY <3>2 DEF ChildTime
  <2>1. /\ node_stack \in Seq(Frames) /\ Len(node_stack) \in Nat /\ clock \in Nat
        /\ \A j \in 1 .. Len(node_stack) : node_stack[j] \in Frames
    BY DEF Inv, TypeOK
  <2>2. CASE i = 1
    BY <2>2 DEF Inv, Nested
  <2>3. CASE i > 1
    <3>1. i - 1 \in 1 .. Len(node_stack)
      BY <2>1, <2>3
    <3>2. /\ node_stack[i].child_incl <= node_stack[i - 1].time - node_stack[i].time
          /\ node_stack[i - 1].time <= clock
      BY <2>3, <3>1 DEF Inv, Nested
    <3>3. node_stack[i].child_incl <= clock - node_stack[i].time
      <4>1. /\ node_stack[i].time \in Nat /\ node_stack[i - 1].time \in Nat
            /\ node_stack[i].child_incl \in Nat
        BY <2>1, <3>1 DEF Frames
      <4> QED
        BY <2>1, <3>2, <4>1
    <3> QED
      BY <3>3
  <2> QED
    BY <2>1, <2>2, <2>3
<1> QED
  BY <1>1, Inductive, PTL

(* The last_data of an open region is that of the location being read, so  *)
(* that the metric part of its children's callbacks may use it unseen.     *)
THEOREM CachesCurrent == Spec => []CacheCurrent
<1>1. Inv => CacheCurrent
  BY DEF Inv
<1> QED
  BY <1>1, Inductive, PTL

(* The tree of each location is closed towards the root, also when earlier *)
(* locations were cut short inside a region.                               *)
THEOREM TreesRooted == Spec => []Rooted
<1>1. Inv => Rooted
  BY DEF Inv
<1> QED
  BY <1>1, Inductive, PTL

(* No data of messages or of collectives at a node without the flag of its *)
(* kind: the reduction packs all of it.                                    *)
THEOREM MessagesArePacked == Spec => []MessagesFlagged
<1>1. Inv => MessagesFlagged
  BY DEF Inv
<1> QED
  BY <1>1, Inductive, PTL
-----------------------------------------------------------------------------
(* The accounts of the times and of the metric balance at every moment if  *)
(* the calls that are open are counted in.                                 *)

(* The frame of an open call path p, and the time until which the call was *)
(* innermost: it is now, or it is when the call opened in it began.        *)
At(p) == Len(node_stack) - Len(p) + 1
Open(p) == At(p) \in 1 .. Len(node_stack) /\ node_stack[At(p)].node = p
Start(p) == node_stack[At(p)].time
Kids(p) == node_stack[At(p)].child_incl
Until(p) == IF At(p) = 1 THEN clock ELSE node_stack[At(p) - 1].time
Inner(p) == ~Idle /\ p = Top.node

LEMMA OpenTypes ==
  ASSUME Inv, NEW p \in Paths, Open(p)
  PROVE  /\ Start(p) \in Nat /\ Kids(p) \in Nat /\ Until(p) \in Nat
         /\ At(p) \in 1 .. Len(node_stack) /\ ~Idle
<1> DEFINE i == At(p)
           n == Len(node_stack)
<1>1. /\ node_stack \in Seq(Frames) /\ n \in Nat /\ clock \in Nat
      /\ i \in 1 .. n
  BY DEF Inv, TypeOK, Open
<1>2. \A j \in 1 .. n : node_stack[j].time \in Nat /\ node_stack[j].child_incl \in Nat
  <2> SUFFICES ASSUME NEW j \in 1 .. n
               PROVE  node_stack[j].time \in Nat /\ node_stack[j].child_incl \in Nat
    OBVIOUS
  <2>1. node_stack[j] \in Frames
    BY <1>1
  <2> QED
    BY <2>1 DEF Frames
<1>3. i = 1 \/ i - 1 \in 1 .. n
  BY <1>1
<1>4. ~Idle
  BY <1>1 DEF Idle
<1> QED
  BY <1>1, <1>2, <1>3, <1>4 DEF Start, Kids, Until

LEMMA InnerIs ==
  ASSUME Inv, loc \in Locs, NEW p \in Paths
  PROVE  Inner(p) <=> Open(p) /\ At(p) = 1
<1> DEFINE n == Len(node_stack)
<1>1. node_stack \in Seq(Frames) /\ n \in Nat /\ Len(p) \in Nat
  BY PathLength DEF Inv, TypeOK
<1>2. ASSUME Inner(p) PROVE Open(p) /\ At(p) = 1
  <2>1. Top = node_stack[1] /\ Len(p) = n /\ n \in 1 .. MaxDepth /\ p = Top.node
    BY <1>2, OnTop DEF Inner
  <2>2. At(p) = 1 /\ 1 \in 1 .. n
    BY <2>1 DEF At
  <2> QED
    BY <2>1, <2>2 DEF Open
<1>3. ASSUME Open(p), At(p) = 1 PROVE Inner(p)
  <2>1. ~Idle
    BY <1>3, OpenTypes
  <2>2. Top = node_stack[1]
    BY <2>1, OnTop
  <2> QED
    BY <1>3, <2>1, <2>2 DEF Open, Inner
<1> QED
  BY <1>2, <1>3

(* The open regions are the beginnings of the innermost path.              *)
Prefixes ==
  \A i \in 1 .. Len(node_stack) : \A j \in 1 .. Len(node_stack) - i + 1 :
    node_stack[i].node[j] = node_stack[1].node[j]

LEMMA Underneath ==
  ASSUME Inv, Prefixes, loc \in Locs, ~Idle, NEW p \in Paths
  PROVE  Open(p) <=> Top.node \in Below(p)
<1> DEFINE n == Len(node_stack)
           m == Len(p)
           q == Top.node
           i == n - m + 1
<1>1. /\ node_stack \in Seq(Frames) /\ n \in Nat /\ m \in Nat /\ m > 0
      /\ p \in Seq(Regions)
  BY PathLength DEF Inv, TypeOK
<1>2. /\ Top = node_stack[1] /\ q \in Paths /\ q \in Seq(Regions) /\ Len(q) = n
  BY OnTop, PathLength
<1>3. CASE m > n
  <2>1. ~(i \in 1 .. n) /\ ~(Len(q) >= m)
    BY <1>1, <1>2, <1>3
  <2> QED
    BY <2>1 DEF Open, At, Below
<1>4. CASE m <= n
  <2>1. i \in 1 .. n /\ n - i + 1 = m
    BY <1>1, <1>4
  <2>2. node_stack[i].node \in Seq(Regions) /\ Len(node_stack[i].node) = m
    <3>1. node_stack[i] \in Frames
      BY <1>1, <2>1
    <3>2. Len(node_stack[i].node) = n - i + 1
      BY <2>1 DEF Inv, Depth
    <3> QED
      BY <2>1, <3>1, <3>2, PathLength DEF Frames
  <2>3. SubSeq(q, 1, m) \in Seq(Regions) /\ Len(SubSeq(q, 1, m)) = m
        /\ \A j \in 1 .. m : SubSeq(q, 1, m)[j] = q[j]
    BY <1>1, <1>2, <1>4
  <2>4. \A j \in 1 .. m : node_stack[i].node[j] = q[j]
    BY <1>2, <2>1 DEF Prefixes
  <2>5. node_stack[i].node = SubSeq(q, 1, m)
    <3> DEFINE a == node_stack[i].node
               b == SubSeq(q, 1, m)
    <3>1. a \in Seq(Regions) /\ b \in Seq(Regions) /\ Len(a) = m /\ Len(b) = m
          /\ \A j \in 1 .. m : a[j] = b[j]
      BY <2>2, <2>3, <2>4
    <3> HIDE DEF a, b, m
    <3>2. a = b
      BY <3>1
    <3> QED
      BY <3>2 DEF a, b
  <2>6. Open(p) <=> node_stack[i].node = p
    BY <2>1 DEF Open, At
  <2>7. q \in Below(p) <=> SubSeq(q, 1, m) = p
    BY <1>2, <1>4 DEF Below
  <2> QED
    BY <2>5, <2>6, <2>7
<1> QED
  BY <1>1, <1>3, <1>4

(* An event that leaves the stack alone.                                   *)
LEMMA StackAlone ==
  ASSUME Inv, node_stack' = node_stack, NEW q \in Paths
  PROVE  /\ Open(q)' <=> Open(q)
         /\ At(q)' = At(q) /\ Start(q)' = Start(q) /\ Kids(q)' = Kids(q)
         /\ Until(q)' = IF At(q) = 1 THEN clock' ELSE Until(q)
BY DEF Open, At, Start, Kids, Until

(* handle_enter: the call is opened, and time goes on for all others.      *)
LEMMA StackEntered ==
  ASSUME Inv, NEW d \in Deltas, NEW region \in Regions, HandleEnter(d, region),
         NEW q \in Paths
  PROVE  /\ q = Entering(region) =>
              /\ ~Open(q) /\ Open(q)' /\ At(q)' = 1
              /\ Start(q)' = clock' /\ Kids(q)' = 0 /\ Until(q)' = clock'
         /\ q # Entering(region) =>
              /\ Open(q)' <=> Open(q)
              /\ Open(q) => /\ At(q)' = At(q) + 1
                            /\ Start(q)' = Start(q) /\ Kids(q)' = Kids(q)
                            /\ Until(q)' = IF At(q) = 1 THEN clock' ELSE Until(q)
<1> DEFINE n == Len(node_stack)
           p == Entering(region)
           i == At(q)
<1>1. /\ p \in Paths /\ Len(p) = n + 1
      /\ node_stack' \in Seq(Frames) /\ Len(node_stack') = n + 1
      /\ node_stack'[1] = [node |-> p, time |-> clock', child_incl |-> 0]
      /\ \A j \in 2 .. n + 1 : node_stack'[j] = node_stack[j - 1]
  BY Entered
<1>2. n \in Nat /\ Len(q) \in Nat
  BY PathLength DEF Inv, TypeOK
<1>3. i = n - Len(q) + 1 /\ i \in Int /\ At(q)' = i + 1
  <2>1. At(q)' = Len(node_stack') - Len(q) + 1
    BY DEF At
  <2> QED
    BY <1>1, <1>2, <2>1 DEF At
<1>4. /\ node_stack'[1].node = p /\ node_stack'[1].time = clock'
      /\ node_stack'[1].child_incl = 0
  BY <1>1
<1> HIDE DEF p
<1>5. CASE q = p
  <2>1. i = 0 /\ At(q)' = 1 /\ 1 \in 1 .. n + 1
    BY <1>1, <1>2, <1>3, <1>5
  <2>2. ~Open(q)
    BY <2>1 DEF Open
  <2>3. Open(q)'
    BY <1>1, <1>4, <1>5, <2>1 DEF Open
  <2>4. Start(q)' = clock' /\ Kids(q)' = 0 /\ Until(q)' = clock'
    BY <1>4, <2>1 DEF Start, Kids, Until
  <2> QED
    BY <1>5, <2>1, <2>2, <2>3, <2>4 DEF p
<1>6. CASE q # p
  <2>1. i \in 1 .. n => /\ i + 1 \in 2 .. n + 1 /\ node_stack'[i + 1] = node_stack[i]
                        /\ i > 1 => node_stack'[i] = node_stack[i - 1]
    BY <1>1, <1>2, <1>3
  <2>2. Open(q) => Open(q)'
    BY <1>1, <1>2, <1>3, <2>1 DEF Open
  <2>3. Open(q)' => Open(q)
    <3>1. Open(q)' <=> i + 1 \in 1 .. n + 1 /\ node_stack'[i + 1].node = q
      BY <1>1, <1>3 DEF Open
    <3>2. ~(i + 1 = 1 /\ node_stack'[i + 1].node = q)
      BY <1>4, <1>6
    <3>3. Open(q)' => i \in 1 .. n
      BY <1>2, <1>3, <3>1, <3>2
    <3> QED
      BY <2>1, <3>1, <3>3 DEF Open
  <2>4. ASSUME Open(q)
        PROVE  /\ Start(q)' = Start(q) /\ Kids(q)' = Kids(q)
               /\ Until(q)' = IF At(q) = 1 THEN clock' ELSE Until(q)
    <3>1. i \in 1 .. n
      BY <2>4 DEF Open
    <3>2. Start(q)' = Start(q) /\ Kids(q)' = Kids(q)
      BY <1>3, <2>1, <3>1 DEF Start, Kids
    <3>3. Until(q)' = node_stack'[i].time
      <4>1. i + 1 # 1 /\ (i + 1) - 1 = i
        BY <1>3, <3>1
      <4>2. Until(q)' = IF At(q)' = 1 THEN clock' ELSE node_stack'[At(q)' - 1].time
        BY DEF Until
      <4> QED
        BY <1>3, <4>1, <4>2
    <3>4. CASE i = 1
      <4>1. node_stack'[i].time = clock'
        BY <1>4, <3>4
      <4>2. Until(q)' = clock' /\ At(q) = 1
        BY <3>3, <3>4, <4>1
      <4> HIDE DEF i, n
      <4> QED
        BY <3>2, <4>2
    <3>5. CASE i # 1
      <4>1. node_stack'[i] = node_stack[i - 1]
        BY <1>2, <2>1, <3>1, <3>5
      <4> QED
        BY <3>2, <3>3, <3>5, <4>1 DEF Until
    <3> QED
      BY <3>2, <3>4, <3>5
  <2> QED
    BY <1>3, <1>6, <2>2, <2>3, <2>4 DEF p
<1> QED
  BY <1>5, <1>6

(* handle_leave: the innermost call is closed; what it took is charged to  *)
(* its caller, for which time goes on.                                     *)
LEMMA StackLeft ==
  ASSUME Inv, NEW d \in Deltas, HandleLeave(d), NEW q \in Paths
  PROVE  /\ q = Top.node => Open(q) /\ At(q) = 1 /\ ~Open(q)' /\ Start(q) = Top.time
                            /\ Kids(q) = Top.child_incl
         /\ q # Top.node =>
              /\ Open(q)' <=> Open(q)
              /\ Open(q) => /\ At(q) > 1 /\ At(q)' = At(q) - 1
                            /\ Start(q)' = Start(q)
                            /\ Kids(q)' = IF At(q) = 2 THEN Kids(q) + Taken ELSE Kids(q)
                            /\ Until(q)' = IF At(q) = 2 THEN clock' ELSE Until(q)
                            /\ At(q) = 2 => Until(q) = Top.time
<1> DEFINE n == Len(node_stack)
           p == Top.node
           i == At(q)
<1>1. /\ n \in Nat /\ n > 0 /\ node_stack' \in Seq(Frames) /\ Len(node_stack') = n - 1
      /\ \A j \in 1 .. n - 1 :
           /\ j + 1 \in 1 .. n
           /\ node_stack'[j].node = node_stack[j + 1].node
           /\ node_stack'[j].time = node_stack[j + 1].time
           /\ node_stack'[j].child_incl = IF j = 1 THEN node_stack[2].child_incl + Taken
                                          ELSE node_stack[j + 1].child_incl
  BY Left
<1>2. /\ loc \in Locs /\ ~Idle
  BY Now DEF HandleLeave
<1>3. /\ Top = node_stack[1] /\ p \in Paths /\ Len(p) = n
  BY <1>2, OnTop
<1>4. Len(q) \in Nat /\ i = n - Len(q) + 1 /\ i \in Int /\ At(q)' = i - 1
  <2>1. At(q)' = Len(node_stack') - Len(q) + 1
    BY DEF At
  <2>2. Len(q) \in Nat
    BY PathLength
  <2> QED
    BY <1>1, <2>1, <2>2 DEF At
<1> HIDE DEF p
<1>5. CASE q = p
  <2>1. i = 1 /\ At(q)' = 0 /\ 1 \in 1 .. n
    BY <1>1, <1>3, <1>4, <1>5
  <2>2. Open(q) /\ Start(q) = Top.time /\ Kids(q) = Top.child_incl
    BY <1>3, <1>5, <2>1 DEF Open, Start, Kids, p
  <2>3. ~Open(q)'
    <3>1. Open(q)' => At(q)' \in 1 .. n - 1
      BY <1>1 DEF Open
    <3> QED
      BY <2>1, <3>1
  <2> QED
    BY <1>5, <2>1, <2>2, <2>3 DEF p
<1>6. CASE q # p
  <2>1. Open(q) => i # 1
    BY <1>3, <1>6 DEF Open, p
  <2>2. Open(q) => i \in 2 .. n /\ i - 1 \in 1 .. n - 1
    BY <1>1, <1>4, <2>1 DEF Open
  <2>3. i - 1 \in 1 .. n - 1 => /\ i \in 2 .. n /\ (i - 1) + 1 = i
                                /\ node_stack'[i - 1].node = node_stack[i].node
                                /\ node_stack'[i - 1].time = node_stack[i].time
                                /\ i # 2 => node_stack'[i - 1].child_incl = node_stack[i].child_incl
                                /\ i = 2 => node_stack'[i - 1].child_incl
                                              = node_stack[i].child_incl + Taken
    <3> HIDE DEF n, i
    <3> SUFFICES ASSUME i - 1 \in 1 .. n - 1
                 PROVE  /\ i \in 2 .. n /\ (i - 1) + 1 = i
                        /\ node_stack'[i - 1].node = node_stack[i].node
                        /\ node_stack'[i - 1].time = node_stack[i].time
                        /\ i # 2 => node_stack'[i - 1].child_incl = node_stack[i].child_incl
                        /\ i = 2 => node_stack'[i - 1].child_incl
                                      = node_stack[i].child_incl + Taken
      OBVIOUS
    <3>1. i \in 2 .. n /\ (i - 1) + 1 = i /\ (i - 1 = 1 <=> i = 2)
      BY <1>1, <1>4
    <3> QED
      BY <1>1, <3>1
  <2>4. Open(q)' <=> i - 1 \in 1 .. n - 1 /\ node_stack'[i - 1].node = q
    BY <1>1, <1>4 DEF Open
  <2>5. Open(q)' <=> Open(q)
    <3>1. Open(q)' => Open(q)
      <4>1. i \in 2 .. n => i \in 1 .. n
        BY <1>1
      <4> QED
        BY <2>3, <2>4, <4>1 DEF Open
    <3>2. Open(q) => Open(q)'
      BY <2>2, <2>3, <2>4 DEF Open
    <3> QED
      BY <3>1, <3>2
  <2>6. ASSUME Open(q)
        PROVE  /\ At(q) > 1 /\ Start(q)' = Start(q)
               /\ Kids(q)' = IF At(q) = 2 THEN Kids(q) + Taken ELSE Kids(q)
               /\ Until(q)' = IF At(q) = 2 THEN clock' ELSE Until(q)
               /\ At(q) = 2 => Until(q) = Top.time
    <3>1. i \in 2 .. n /\ i - 1 \in 1 .. n - 1 /\ i > 1
      BY <1>1, <2>2, <2>6
    <3>2. /\ Start(q)' = node_stack'[i - 1].time /\ Start(q) = node_stack[i].time
          /\ Kids(q)' = node_stack'[i - 1].child_incl /\ Kids(q) = node_stack[i].child_incl
      BY <1>4 DEF Start, Kids
    <3>3. Until(q) = node_stack[i - 1].time
      BY <3>1 DEF Until
    <3>4. Until(q)' = IF i - 1 = 1 THEN clock' ELSE node_stack'[(i - 1) - 1].time
      BY <1>4 DEF Until
    <3>5. CASE i = 2
      <4>1. i - 1 = 1
        BY <3>5
      <4> QED
        BY <1>3, <2>3, <3>1, <3>2, <3>3, <3>4, <3>5, <4>1
    <3>6. CASE i # 2
      <4> DEFINE j == i - 2
      <4>1. j \in 1 .. n - 1 /\ (i - 1) - 1 = j /\ j + 1 = i - 1 /\ i - 1 # 1
        BY <1>1, <3>1, <3>6
      <4> HIDE DEF j, i, n
      <4>2. node_stack'[j].time = node_stack[j + 1].time
        BY <1>1, <4>1
      <4> QED
        BY <2>3, <3>1, <3>2, <3>3, <3>4, <3>6, <4>1, <4>2 DEF i
    <3> QED
      BY <3>5, <3>6
  <2> QED
    BY <1>4, <1>6, <2>5, <2>6 DEF p
<1> QED
  BY <1>5, <1>6

-----------------------------------------------------------------------------
(* What the steps add to the tree and to the history of the times.         *)
OpenIn(p, l) == l = loc /\ Open(p)
Spent(p, l) == Total([q \in Below(p) |-> self[<<q, l>>]])

LEMMA CellAdded ==
  ASSUME Inv, loc \in Locs, NEW p \in Paths,
         NEW f \in [count : Nat, incl : Nat, excl : Nat], AddFunction(p, f),
         NEW c \in Cells
  PROVE  /\ c # <<p, loc>> => f_data'[c] = f_data[c]
         /\ c = <<p, loc>> => /\ f_data'[c].count = f_data[c].count + f.count
                              /\ f_data'[c].incl = f_data[c].incl + f.incl
                              /\ f_data'[c].excl = f_data[c].excl + f.excl
<1> DEFINE cell == <<p, loc>>
<1>1. f_data \in [Cells -> [count : Nat, incl : Nat, excl : Nat]]
  BY DEF Inv, TypeOK
<1>2. f_data' = [f_data EXCEPT ![cell] =
                   [count |-> f_data[cell].count + f.count,
                    incl |-> f_data[cell].incl + f.incl,
                    excl |-> f_data[cell].excl + f.excl]]
  BY DEF AddFunction
<1> HIDE DEF cell
<1>3. c # cell => f_data'[c] = f_data[c]
  BY <1>1, <1>2
<1>4. c = cell => f_data'[c] = [count |-> f_data[cell].count + f.count,
                                incl |-> f_data[cell].incl + f.incl,
                                excl |-> f_data[cell].excl + f.excl]
  BY <1>1, <1>2
<1> QED
  BY <1>3, <1>4 DEF cell

LEMMA CellTypes ==
  ASSUME Inv, NEW p \in Paths, NEW l \in Locs
  PROVE  /\ <<p, l>> \in Cells
         /\ f_data[<<p, l>>].count \in Nat /\ f_data[<<p, l>>].incl \in Nat
         /\ f_data[<<p, l>>].excl \in Nat /\ self[<<p, l>>] \in Nat
         /\ metric[<<p, l>>].incl \in Int /\ metric[<<p, l>>].excl \in Int
<1>1. <<p, l>> \in Cells
  BY DEF Cells
<1>2. /\ f_data \in [Cells -> [count : Nat, incl : Nat, excl : Nat]]
      /\ self \in [Cells -> Nat] /\ metric \in [Cells -> [incl : Int, excl : Int]]
  BY DEF Inv, TypeOK
<1>3. /\ f_data[<<p, l>>] \in [count : Nat, incl : Nat, excl : Nat]
      /\ metric[<<p, l>>] \in [incl : Int, excl : Int]
  BY <1>1, <1>2
<1> QED
  BY <1>1, <1>2, <1>3

(* Time passes for the call path that is innermost.                        *)
LEMMA SelfTicks ==
  ASSUME Inv, NEW d \in Deltas, Event(d), NEW q \in Paths, NEW l \in Locs
  PROVE  self'[<<q, l>>] = self[<<q, l>>] + (IF l = loc /\ Inner(q) THEN d ELSE 0)
<1>1. d \in Nat /\ loc \in Locs /\ self \in [Cells -> Nat] /\ <<q, l>> \in Cells
  BY DEF Inv, TypeOK, Event, Cells
<1>2. CASE Idle
  BY <1>1, <1>2 DEF Event, Inner
<1>3. CASE ~Idle
  <2>1. <<Top.node, loc>> \in Cells
    BY <1>1, <1>3, OnTop
  <2>2. self' = [self EXCEPT ![<<Top.node, loc>>] = @ + d]
    BY <1>3 DEF Event
  <2> QED
    BY <1>1, <1>3, <2>1, <2>2 DEF Inner
<1> QED
  BY <1>2, <1>3

(* There are finitely many call paths: a path is the set of its places.    *)
LEMMA PathsFinite == IsFiniteSet(Paths)
<1> DEFINE D == (1 .. MaxDepth) \X Regions
           places == [p \in Paths |-> {<<i, p[i]>> : i \in 1 .. Len(p)}]
<1>1. IsFiniteSet(SUBSET D)
  <2>1. IsFiniteSet(1 .. MaxDepth)
    BY FS_Interval
  <2>2. IsFiniteSet(D)
    BY <2>1, FS_Product
  <2> HIDE DEF D
  <2> QED
    BY <2>2, FS_SUBSET
<1>2. places \in [Paths -> SUBSET D]
  <2> SUFFICES ASSUME NEW p \in Paths PROVE places[p] \in SUBSET D
    OBVIOUS
  <2>1. p \in Seq(Regions) /\ Len(p) \in 1 .. MaxDepth
    BY PathLength
  <2> QED
    BY <2>1
<1>3. \A p, q \in Paths : places[p] = places[q] => p = q
  <2> SUFFICES ASSUME NEW p \in Paths, NEW q \in Paths, places[p] = places[q]
               PROVE  p = q
    OBVIOUS
  <2>1. /\ p \in Seq(Regions) /\ Len(p) \in 1 .. MaxDepth
        /\ q \in Seq(Regions) /\ Len(q) \in 1 .. MaxDepth
    BY PathLength
  <2>2. \A i \in 1 .. Len(p) : i \in 1 .. Len(q) /\ q[i] = p[i]
    <3> SUFFICES ASSUME NEW i \in 1 .. Len(p) PROVE i \in 1 .. Len(q) /\ q[i] = p[i]
      OBVIOUS
    <3>1. <<i, p[i]>> \in places[q]
      BY <2>1
    <3> QED
      BY <3>1
  <2>3. \A i \in 1 .. Len(q) : i \in 1 .. Len(p)
    <3> SUFFICES ASSUME NEW i \in 1 .. Len(q) PROVE i \in 1 .. Len(p)
      OBVIOUS
    <3>1. <<i, q[i]>> \in places[p]
      BY <2>1
    <3> QED
      BY <3>1
  <2> HIDE DEF places
  <2>4. Len(p) = Len(q)
    <3>1. Len(p) \in 1 .. Len(q) /\ Len(q) \in 1 .. Len(p)
      BY <2>1, <2>2, <2>3
    <3> QED
      BY <2>1, <3>1
  <2> QED
    BY <2>1, <2>2, <2>4
<1>4. places \in Injection(Paths, SUBSET D)
  BY <1>2, <1>3 DEF Injection, IsInjective
<1> QED
  <2> HIDE DEF D, places
  <2> QED
    BY <1>1, <1>4, FS_Injection

LEMMA CellsFinite == IsFiniteSet(Cells)
<1>1. IsFiniteSet(Locs)
  BY FS_Interval
<1> QED
  BY <1>1, PathsFinite, FS_Product DEF Cells

(* Time passes below every call path that is open.                         *)
LEMMA SpentTicks ==
  ASSUME Inv, Prefixes, NEW d \in Deltas, Event(d), NEW p \in Paths, NEW l \in Locs
  PROVE  /\ Spent(p, l) \in Nat
         /\ Spent(p, l)' = Spent(p, l) + (IF OpenIn(p, l) THEN d ELSE 0)
<1> DEFINE S == Below(p)
           f == [q \in S |-> self[<<q, l>>]]
           g == [q \in S |-> self'[<<q, l>>]]
<1>1. S \subseteq Paths /\ IsFiniteSet(S)
  BY PathsFinite, FS_Subset DEF Below
<1>2. d \in Nat /\ loc \in Locs /\ self' \in [Cells -> Nat]
  BY Now DEF Event
<1>3. f \in [S -> Nat] /\ g \in [S -> Nat]
  <2>1. \A q \in S : self[<<q, l>>] \in Nat /\ self'[<<q, l>>] \in Nat
    BY <1>1, <1>2, CellTypes
  <2> QED
    BY <2>1
<1>4. \A q \in S : g[q] = f[q] + (IF l = loc /\ Inner(q) THEN d ELSE 0)
  BY <1>1, SelfTicks
<1>5. Spent(p, l) = Total(f) /\ Spent(p, l)' = Total(g)
  BY DEF Spent, Below
<1> HIDE DEF S, f, g
<1>6. Total(f) \in Nat
  BY <1>1, <1>3, TotalType
<1>7. CASE OpenIn(p, l)
  <2>1. ~Idle
    BY <1>7, OpenTypes DEF OpenIn
  <2>2. l = loc /\ Top.node \in S
    BY <1>2, <1>7, <2>1, Underneath DEF OpenIn, S
  <2>3. g[Top.node] = f[Top.node] + d /\ \A q \in S : q # Top.node => g[q] = f[q]
    <3>1. \A q \in S : f[q] \in Nat
      BY <1>3
    <3> QED
      BY <1>4, <2>1, <2>2, <3>1 DEF Inner
  <2> QED
    BY <1>1, <1>2, <1>3, <1>5, <1>6, <1>7, <2>2, <2>3, TotalGrows
<1>8. CASE ~OpenIn(p, l)
  <2>1. \A q \in S : ~(l = loc /\ Inner(q))
    BY <1>2, <1>8, Underneath DEF OpenIn, Inner, S
  <2>2. \A q \in S : g[q] = f[q]
    <3>1. \A q \in S : f[q] \in Nat
      BY <1>3
    <3> QED
      BY <1>4, <2>1, <3>1
  <2>3. f = g
    BY <1>3, <2>2
  <2> QED
    BY <1>5, <1>6, <1>8, <2>3
<1> QED
  BY <1>5, <1>6, <1>7, <1>8

-----------------------------------------------------------------------------
(* The times.  What an open call is going to add to its two times, as far  *)
(* as it has come.                                                         *)
OwnTime(p, l) == IF OpenIn(p, l) THEN Until(p) - Start(p) - Kids(p) ELSE 0
Elapsed(p, l) == IF OpenIn(p, l) THEN clock - Start(p) ELSE 0

TimesOf(p, l) ==
  /\ self[<<p, l>>] = f_data[<<p, l>>].excl + OwnTime(p, l)
  /\ Spent(p, l) = f_data[<<p, l>>].incl + Elapsed(p, l)

Times == \A p \in Paths, l \in Locs \ cut : TimesOf(p, l)

(* Nothing changes in a location that is not being read.                   *)
LEMMA TimesElsewhere ==
  ASSUME Inv, Prefixes, NEW d \in Deltas, Event(d), loc' = loc,
         NEW p \in Paths, NEW l \in Locs, l # loc, TimesOf(p, l),
         f_data'[<<p, l>>] = f_data[<<p, l>>]
  PROVE  TimesOf(p, l)'
<1>1. ~OpenIn(p, l) /\ ~OpenIn(p, l)'
  BY DEF OpenIn
<1>2. self'[<<p, l>>] = self[<<p, l>>] /\ Spent(p, l)' = Spent(p, l)
  BY <1>1, SelfTicks, SpentTicks, CellTypes
<1> QED
  BY <1>1, <1>2 DEF TimesOf, OwnTime, Elapsed

(* An open call that stays open: time goes on for it, and for its own time *)
(* if it is the innermost one.                                             *)
LEMMA TimesGoOn ==
  ASSUME Inv, Prefixes, NEW d \in Deltas, Event(d), loc' = loc,
         NEW p \in Paths, TimesOf(p, loc),
         f_data'[<<p, loc>>] = f_data[<<p, loc>>],
         Open(p)' <=> Open(p),
         Open(p) =>
           /\ Start(p)' = Start(p)
           /\ Until(p)' - Kids(p)' = (IF At(p) = 1 THEN clock' ELSE Until(p)) - Kids(p)
           /\ Until(p)' \in Nat /\ Kids(p)' \in Nat
  PROVE  TimesOf(p, loc)'
<1>1. loc \in Locs /\ d \in Nat /\ clock \in Nat /\ clock' = clock + d
  BY DEF Inv, TypeOK, Event
<1>2. /\ f_data[<<p, loc>>].excl \in Nat /\ f_data[<<p, loc>>].incl \in Nat
      /\ self[<<p, loc>>] \in Nat
  BY <1>1, CellTypes
<1>3. /\ self'[<<p, loc>>] = self[<<p, loc>>] + (IF Inner(p) THEN d ELSE 0)
      /\ Spent(p, loc) \in Nat
      /\ Spent(p, loc)' = Spent(p, loc) + (IF Open(p) THEN d ELSE 0)
  BY <1>1, SelfTicks, SpentTicks DEF OpenIn
<1>4. Inner(p) <=> Open(p) /\ At(p) = 1
  BY <1>1, InnerIs
<1>5. /\ self[<<p, loc>>] = f_data[<<p, loc>>].excl
                              + (IF Open(p) THEN Until(p) - Start(p) - Kids(p) ELSE 0)
      /\ Spent(p, loc) = f_data[<<p, loc>>].incl + (IF Open(p) THEN clock - Start(p) ELSE 0)
  BY DEF TimesOf, OwnTime, Elapsed, OpenIn
<1>6. /\ OwnTime(p, loc)' = IF Open(p)' THEN Until(p)' - Start(p)' - Kids(p)' ELSE 0
      /\ Elapsed(p, loc)' = IF Open(p)' THEN clock' - Start(p)' ELSE 0
  BY DEF OwnTime, Elapsed, OpenIn
<1>7. CASE Open(p)
  <2>1. /\ Start(p) \in Nat /\ Kids(p) \in Nat /\ Until(p) \in Nat
        /\ At(p) = 1 => Until(p) = clock
    BY <1>7, OpenTypes DEF Until
  <2>2. /\ OwnTime(p, loc)' = Until(p)' - Kids(p)' - Start(p)
        /\ Elapsed(p, loc)' = clock' - Start(p)
    BY <1>6, <1>7, <2>1
  <2>3. self'[<<p, loc>>] = f_data'[<<p, loc>>].excl + OwnTime(p, loc)'
    <3>1. CASE At(p) = 1
      BY <1>1, <1>2, <1>3, <1>4, <1>5, <1>7, <2>1, <2>2, <3>1
    <3>2. CASE At(p) # 1
      BY <1>1, <1>2, <1>3, <1>4, <1>5, <1>7, <2>1, <2>2, <3>2
    <3> QED
      BY <3>1, <3>2
  <2>4. Spent(p, loc)' = f_data'[<<p, loc>>].incl + Elapsed(p, loc)'
    BY <1>1, <1>2, <1>3, <1>5, <1>7, <2>1, <2>2
  <2> QED
    BY <2>3, <2>4 DEF TimesOf
<1>8. CASE ~Open(p)
  BY <1>2, <1>3, <1>4, <1>5, <1>6, <1>8 DEF TimesOf
<1> QED
  BY <1>7, <1>8

LEMMA TimesAlone ==
  ASSUME Inv, Prefixes, Times, NEW d \in Deltas, Event(d),
         UNCHANGED <<loc, node_stack, f_data, cut>>
  PROVE  Times'
<1> SUFFICES ASSUME NEW p \in Paths, NEW l \in Locs \ cut
             PROVE  TimesOf(p, l)'
  BY DEF Times
<1>1. TimesOf(p, l)
  BY DEF Times
<1>2. CASE l # loc
  BY <1>1, <1>2, TimesElsewhere
<1>3. CASE l = loc
  <2>1. /\ Open(p)' <=> Open(p)
        /\ Start(p)' = Start(p) /\ Kids(p)' = Kids(p)
        /\ Until(p)' = IF At(p) = 1 THEN clock' ELSE Until(p)
    BY StackAlone
  <2>2. Open(p) => Kids(p) \in Nat /\ Until(p) \in Nat /\ clock' \in Nat
    BY OpenTypes, Now
  <2> QED
    BY <1>1, <1>3, <2>1, <2>2, TimesGoOn
<1> QED
  BY <1>2, <1>3

LEMMA TimesEntered ==
  ASSUME Inv, Prefixes, Times, NEW d \in Deltas, NEW region \in Regions,
         HandleEnter(d, region)
  PROVE  Times'
<1> DEFINE zero == [count |-> 0, incl |-> 0, excl |-> 0]
           e == Entering(region)
<1>1. /\ Event(d) /\ loc' = loc /\ cut' = cut /\ loc \in Locs
      /\ e \in Paths /\ clock' \in Nat
  BY Entered, Now DEF HandleEnter
<1>2. AddFunction(e, zero)
  BY DEF HandleEnter, Entering
<1> SUFFICES ASSUME NEW p \in Paths, NEW l \in Locs \ cut
             PROVE  TimesOf(p, l)'
  BY <1>1 DEF Times
<1>3. TimesOf(p, l)
  BY DEF Times
<1>4. /\ f_data'[<<p, l>>].excl = f_data[<<p, l>>].excl
      /\ f_data'[<<p, l>>].incl = f_data[<<p, l>>].incl
      /\ <<p, l>> # <<e, loc>> => f_data'[<<p, l>>] = f_data[<<p, l>>]
  <2> HIDE DEF e
  <2>1. zero \in [count : Nat, incl : Nat, excl : Nat]
    OBVIOUS
  <2>2. <<p, l>> \in Cells /\ f_data[<<p, l>>].excl \in Nat /\ f_data[<<p, l>>].incl \in Nat
    BY CellTypes
  <2>3. /\ <<p, l>> # <<e, loc>> => f_data'[<<p, l>>] = f_data[<<p, l>>]
        /\ <<p, l>> = <<e, loc>> =>
             /\ f_data'[<<p, l>>].incl = f_data[<<p, l>>].incl + 0
             /\ f_data'[<<p, l>>].excl = f_data[<<p, l>>].excl + 0
    BY <1>1, <1>2, <2>1, <2>2, CellAdded
  <2> QED
    BY <2>2, <2>3
<1> HIDE DEF e
<1>5. CASE l # loc
  BY <1>1, <1>3, <1>4, <1>5, TimesElsewhere
<1>6. CASE l = loc /\ p = e
  <2>1. /\ ~Open(p) /\ Open(p)'
        /\ Start(p)' = clock' /\ Kids(p)' = 0 /\ Until(p)' = clock'
    BY <1>6, StackEntered DEF e
  <2>2. self'[<<p, l>>] = self[<<p, l>>] /\ Spent(p, l)' = Spent(p, l)
    <3>1. ~Inner(p) /\ ~OpenIn(p, l)
      BY <1>1, <2>1, InnerIs DEF OpenIn
    <3> QED
      BY <1>1, <3>1, SelfTicks, SpentTicks, CellTypes
  <2>3. /\ OwnTime(p, l) = 0 /\ Elapsed(p, l) = 0
    BY <2>1 DEF OwnTime, Elapsed, OpenIn
  <2>4. OwnTime(p, l)' = 0 /\ Elapsed(p, l)' = 0
    <3>1. clock' - clock' - 0 = 0 /\ clock' - clock' = 0
      <4>1. clock' \in Nat
        BY <1>1
      <4>2. \A t \in Nat : t - t - 0 = 0 /\ t - t = 0
        BY SMT
      <4> QED
        BY <4>1, <4>2
    <3>2. OpenIn(p, l)'
      BY <1>1, <1>6, <2>1 DEF OpenIn
    <3>3. /\ OwnTime(p, l)' = Until(p)' - Start(p)' - Kids(p)'
          /\ Elapsed(p, l)' = clock' - Start(p)'
      BY <3>2 DEF OwnTime, Elapsed
    <3> QED
      BY <2>1, <3>1, <3>3
  <2> QED
    BY <1>3, <1>4, <2>2, <2>3, <2>4 DEF TimesOf
<1>7. CASE l = loc /\ p # e
  <2>1. /\ Open(p)' <=> Open(p)
        /\ Open(p) => /\ Start(p)' = Start(p) /\ Kids(p)' = Kids(p)
                      /\ Until(p)' = IF At(p) = 1 THEN clock' ELSE Until(p)
    BY <1>7, StackEntered DEF e
  <2>2. Open(p) => Kids(p) \in Nat /\ Until(p) \in Nat
    BY OpenTypes
  <2>3. f_data'[<<p, loc>>] = f_data[<<p, loc>>]
    BY <1>4, <1>7
  <2> QED
    BY <1>1, <1>3, <1>7, <2>1, <2>2, <2>3, TimesGoOn
<1> QED
  BY <1>5, <1>6, <1>7

LEMMA TimesLeft ==
  ASSUME Inv, Prefixes, Times, NEW d \in Deltas, HandleLeave(d)
  PROVE  Times'
<1> DEFINE f == [count |-> 1, incl |-> Taken, excl |-> SelfTime(Taken)]
           e == Top.node
<1>1. /\ Event(d) /\ loc' = loc /\ cut' = cut /\ loc \in Locs /\ ~Idle
      /\ clock' \in Nat /\ clock \in Nat /\ d \in Nat /\ clock' = clock + d
  BY Now DEF HandleLeave, Inv, TypeOK, Event
<1>2. /\ e \in Paths /\ Top.time \in Nat /\ Top.time <= clock
      /\ Top.child_incl \in Nat /\ Top.child_incl <= clock - Top.time
  BY <1>1, OnTop
<1>3. /\ Taken = clock' - Top.time /\ SelfTime(Taken) = clock' - Top.time - Top.child_incl
      /\ Taken \in Nat /\ SelfTime(Taken) \in Nat
  BY <1>1, <1>2 DEF Taken, SelfTime
<1>4. AddFunction(e, f)
  BY DEF HandleLeave, Taken
<1> SUFFICES ASSUME NEW p \in Paths, NEW l \in Locs \ cut
             PROVE  TimesOf(p, l)'
  BY <1>1 DEF Times
<1>5. TimesOf(p, l)
  BY DEF Times
<1>6. /\ <<p, l>> # <<e, loc>> => f_data'[<<p, l>>] = f_data[<<p, l>>]
      /\ <<p, l>> = <<e, loc>> =>
           /\ f_data'[<<p, l>>].incl = f_data[<<p, l>>].incl + Taken
           /\ f_data'[<<p, l>>].excl = f_data[<<p, l>>].excl + SelfTime(Taken)
  <2>1. f \in [count : Nat, incl : Nat, excl : Nat]
    BY <1>3
  <2>2. f.incl = Taken /\ f.excl = SelfTime(Taken)
    OBVIOUS
  <2> HIDE DEF e, f
  <2> QED
    BY <1>1, <1>2, <1>4, <2>1, <2>2, CellTypes, CellAdded
<1> HIDE DEF e, f
<1>7. CASE l # loc
  BY <1>1, <1>5, <1>6, <1>7, TimesElsewhere
<1>8. CASE l = loc /\ p = e
  <2>1. /\ Open(p) /\ At(p) = 1 /\ ~Open(p)'
        /\ Start(p) = Top.time /\ Kids(p) = Top.child_incl
    BY <1>8, StackLeft DEF e
  <2>2. /\ self'[<<p, l>>] = self[<<p, l>>] + d /\ Spent(p, l)' = Spent(p, l) + d
        /\ Spent(p, l) \in Nat
    <3>1. Inner(p) /\ OpenIn(p, l)
      BY <1>1, <1>8, <2>1, InnerIs DEF OpenIn
    <3> QED
      BY <1>1, <1>8, <3>1, SelfTicks, SpentTicks
  <2>3. /\ self[<<p, l>>] = f_data[<<p, l>>].excl + (clock - Top.time - Top.child_incl)
        /\ Spent(p, l) = f_data[<<p, l>>].incl + (clock - Top.time)
    BY <1>5, <1>8, <2>1 DEF TimesOf, OwnTime, Elapsed, OpenIn, Until
  <2>4. OwnTime(p, l)' = 0 /\ Elapsed(p, l)' = 0
    BY <2>1 DEF OwnTime, Elapsed, OpenIn
  <2>5. /\ f_data[<<p, l>>].excl \in Nat /\ f_data[<<p, l>>].incl \in Nat
    BY CellTypes
  <2>6. self'[<<p, l>>] = f_data'[<<p, l>>].excl + OwnTime(p, l)'
    BY <1>1, <1>2, <1>3, <1>6, <1>8, <2>2, <2>3, <2>4, <2>5
  <2>7. Spent(p, l)' = f_data'[<<p, l>>].incl + Elapsed(p, l)'
    BY <1>1, <1>2, <1>3, <1>6, <1>8, <2>2, <2>3, <2>4, <2>5
  <2> QED
    BY <2>6, <2>7 DEF TimesOf
<1>9. CASE l = loc /\ p # e
  <2>1. /\ Open(p)' <=> Open(p)
        /\ Open(p) => /\ At(p) > 1
                      /\ Start(p)' = Start(p)
                      /\ Kids(p)' = IF At(p) = 2 THEN Kids(p) + Taken ELSE Kids(p)
                      /\ Until(p)' = IF At(p) = 2 THEN clock' ELSE Until(p)
                      /\ At(p) = 2 => Until(p) = Top.time
    BY <1>9, StackLeft DEF e
  <2>2. Open(p) => /\ Kids(p) \in Nat /\ Until(p) \in Nat
                   /\ Kids(p)' \in Nat /\ Until(p)' \in Nat /\ At(p) # 1
    <3>1. Open(p) => Kids(p) \in Nat /\ Until(p) \in Nat /\ At(p) \in Int
      BY OpenTypes
    <3> QED
      BY <1>1, <1>3, <2>1, <3>1
  <2>3. f_data'[<<p, loc>>] = f_data[<<p, loc>>]
    BY <1>6, <1>9
  <2>4. Open(p) => Until(p)' - Kids(p)' = Until(p) - Kids(p)
    BY <1>1, <1>2, <1>3, <2>1, <2>2
  <2> QED
    BY <1>1, <1>5, <1>9, <2>1, <2>2, <2>3, <2>4, TimesGoOn
<1> QED
  BY <1>7, <1>8, <1>9

-----------------------------------------------------------------------------
(* The stack stays the path to its innermost region.                       *)
LEMMA PrefixesEntered ==
  ASSUME Inv, Prefixes, NEW d \in Deltas, NEW region \in Regions, HandleEnter(d, region)
  PROVE  Prefixes'
<1> DEFINE n == Len(node_stack)
           p == Entering(region)
<1>0. /\ p \in Paths /\ Len(node_stack') = n + 1
      /\ node_stack'[1] = [node |-> p, time |-> clock', child_incl |-> 0]
      /\ \A i \in 2 .. n + 1 : node_stack'[i] = node_stack[i - 1]
  BY Entered
<1>1. node_stack'[1].node = p
  BY <1>0
<1>2. n \in Nat /\ loc \in Locs
  BY Now DEF Inv, TypeOK, HandleEnter
<1>3. \A j \in 1 .. n : p[j] = node_stack[1].node[j]
  <2> SUFFICES ASSUME NEW j \in 1 .. n PROVE p[j] = node_stack[1].node[j]
    OBVIOUS
  <2>1. ~Idle
    BY <1>2 DEF Idle
  <2>2. Top = node_stack[1] /\ Top.node \in Seq(Regions) /\ Len(Top.node) = n
    BY <1>2, <2>1, OnTop, PathLength
  <2> QED
    BY <2>1, <2>2 DEF Entering
<1> HIDE DEF p
<1> SUFFICES ASSUME NEW i \in 1 .. Len(node_stack'), NEW j \in 1 .. Len(node_stack') - i + 1
             PROVE  node_stack'[i].node[j] = node_stack'[1].node[j]
  BY DEF Prefixes
<1>4. i \in 1 .. n + 1 /\ j \in 1 .. n + 1 - i + 1
  BY <1>0
<1>5. CASE i = 1
  BY <1>5
<1>6. CASE i # 1
  <2>1. /\ i \in 2 .. n + 1 /\ i - 1 \in 1 .. n /\ j \in 1 .. n - (i - 1) + 1 /\ j \in 1 .. n
    BY <1>2, <1>4, <1>6
  <2>2. node_stack[i - 1].node[j] = node_stack[1].node[j]
    BY <2>1 DEF Prefixes
  <2> QED
    BY <1>0, <1>1, <1>3, <2>1, <2>2
<1> QED
  BY <1>5, <1>6

LEMMA PrefixesLeft ==
  ASSUME Inv, Prefixes, NEW d \in Deltas, HandleLeave(d)
  PROVE  Prefixes'
<1> DEFINE n == Len(node_stack)
<1>1. /\ n \in Nat /\ n > 0 /\ Len(node_stack') = n - 1
      /\ \A i \in 1 .. n - 1 : node_stack'[i].node = node_stack[i + 1].node
  BY Left
<1> SUFFICES ASSUME NEW i \in 1 .. n - 1, NEW j \in 1 .. n - 1 - i + 1
             PROVE  node_stack'[i].node[j] = node_stack'[1].node[j]
  BY <1>1 DEF Prefixes
<1>2. /\ i + 1 \in 1 .. n /\ j \in 1 .. n - (i + 1) + 1 /\ 1 \in 1 .. n - 1
      /\ 1 + 1 \in 1 .. n /\ j \in 1 .. n - (1 + 1) + 1
  BY <1>1
<1>3. /\ node_stack[i + 1].node[j] = node_stack[1].node[j]
      /\ node_stack[1 + 1].node[j] = node_stack[1].node[j]
  BY <1>2 DEF Prefixes
<1> QED
  BY <1>1, <1>2, <1>3

(* The caller of the innermost region is the frame below it.               *)
LEMMA CallerOpen ==
  ASSUME Inv, Prefixes, loc \in Locs, ~Idle, Len(Top.node) > 1
  PROVE  /\ ParentOf(Top.node) \in Paths /\ Open(ParentOf(Top.node))
         /\ At(ParentOf(Top.node)) = 2 /\ last_loc[ParentOf(Top.node)] = loc
<1> DEFINE q == Top.node
           up == ParentOf(q)
           n == Len(node_stack)
<1>1. /\ q \in Paths /\ q \in Seq(Regions) /\ Len(q) \in 1 .. MaxDepth /\ Len(q) = n
  BY OnTop, PathLength
<1>2. up \in Seq(Regions) /\ Len(up) = n - 1 /\ n - 1 \in 1 .. MaxDepth
  BY <1>1 DEF ParentOf
<1>3. up \in Paths
  <2> HIDE DEF up
  <2> QED
    BY <1>2, PathOfSeq
<1>4. q \in Below(up)
  BY <1>1, <1>2 DEF Below, ParentOf
<1>5. Open(up)
  <2> HIDE DEF up
  <2> QED
    BY <1>3, <1>4, Underneath
<1>6. At(up) = 2
  BY <1>1, <1>2 DEF At
<1>7. last_loc[up] = loc
  <2>1. At(up) \in DOMAIN node_stack /\ node_stack[At(up)].node = up
    <3>1. node_stack \in Seq(Frames)
      BY DEF Inv, TypeOK
    <3> HIDE DEF up
    <3> QED
      BY <1>5, <3>1 DEF Open
  <2> HIDE DEF up
  <2> QED
    BY <2>1 DEF Inv, CacheCurrent
<1> QED
  BY <1>3, <1>5, <1>6, <1>7

LEMMA CallerIs ==
  ASSUME Inv, Prefixes, loc \in Locs, NEW q \in Paths, Open(q), At(q) = 2
  PROVE  Len(Top.node) > 1 /\ q = ParentOf(Top.node)
<1>1. ~Idle
  BY OpenTypes
<1>2. Top.node \in Below(q) /\ Len(Top.node) = Len(node_stack)
  BY <1>1, Underneath, OnTop
<1>3. Len(node_stack) \in Nat /\ Len(q) \in Nat /\ Len(q) > 0
  BY PathLength DEF Inv, TypeOK
<1>4. Len(q) = Len(Top.node) - 1 /\ Len(Top.node) > 1
  BY <1>2, <1>3 DEF At
<1> QED
  BY <1>2, <1>4 DEF Below, ParentOf

-----------------------------------------------------------------------------
(* The calls.  A call counts in the tree when it ends, by caller when it   *)
(* begins.                                                                 *)
CallCount(p, l) == f_data[<<p, l>>].count + (IF OpenIn(p, l) THEN 1 ELSE 0)
Called(r, c) == Total([cell \in CallsOf(r, c) |-> CallCount(cell[1], cell[2])])
Calls == cut = {} => \A r, c \in Regions : callers[<<r, c>>] = Called(r, c)

LEMMA CallCountType ==
  ASSUME Inv, NEW p \in Paths, NEW l \in Locs
  PROVE  CallCount(p, l) \in Nat
BY CellTypes DEF CallCount

LEMMA CallsSame ==
  ASSUME cut' = {} => cut = {}, Calls, callers' = callers,
         cut' = {} => \A p \in Paths, l \in Locs : CallCount(p, l)' = CallCount(p, l)
  PROVE  Calls'
<1> SUFFICES ASSUME cut' = {}, NEW r \in Regions, NEW c \in Regions
             PROVE  callers'[<<r, c>>] = Called(r, c)'
  BY DEF Calls
<1> DEFINE S == CallsOf(r, c)
           f == [cell \in S |-> CallCount(cell[1], cell[2])]
           g == [cell \in S |-> CallCount(cell[1], cell[2])']
<1>1. Called(r, c) = Total(f) /\ Called(r, c)' = Total(g)
  BY DEF Called, CallsOf
<1>2. \A cell \in S : CallCount(cell[1], cell[2])' = CallCount(cell[1], cell[2])
  BY DEF CallsOf, Cells
<1>3. f = g
  BY <1>2
<1> QED
  BY <1>1, <1>3 DEF Calls

LEMMA CallsAlone ==
  ASSUME Inv, Calls, UNCHANGED <<loc, node_stack, f_data, callers, cut>>
  PROVE  Calls'
<1>1. \A p \in Paths, l \in Locs : CallCount(p, l)' = CallCount(p, l)
  BY StackAlone DEF CallCount, OpenIn
<1> QED
  BY <1>1, CallsSame

LEMMA CallsEntered ==
  ASSUME Inv, Calls, NEW d \in Deltas, NEW region \in Regions, HandleEnter(d, region)
  PROVE  Calls'
<1> DEFINE e == Entering(region)
           zero == [count |-> 0, incl |-> 0, excl |-> 0]
           by == RegionOf(Top.node)
<1>1. /\ loc' = loc /\ cut' = cut /\ loc \in Locs
      /\ callers \in [Regions \X Regions -> Nat]
  BY Now DEF HandleEnter, Inv, TypeOK
<1>2. /\ e \in Paths /\ Len(e) = Len(node_stack) + 1 /\ RegionOf(e) = region
      /\ Len(e) > 1 => ~Idle /\ ParentOf(e) = Top.node
  BY Entered
<1>3. AddFunction(e, zero)
  BY DEF HandleEnter, Entering
<1> HIDE DEF e
<1>4. \A p \in Paths, l \in Locs :
        CallCount(p, l)' = CallCount(p, l) + (IF p = e /\ l = loc THEN 1 ELSE 0)
  <2> SUFFICES ASSUME NEW p \in Paths, NEW l \in Locs
               PROVE  CallCount(p, l)' = CallCount(p, l) + (IF p = e /\ l = loc THEN 1 ELSE 0)
    OBVIOUS
  <2>1. <<p, l>> \in Cells /\ f_data[<<p, l>>].count \in Nat
    BY CellTypes
  <2>2. f_data'[<<p, l>>].count = f_data[<<p, l>>].count
    <3>1. zero \in [count : Nat, incl : Nat, excl : Nat]
      OBVIOUS
    <3>2. /\ <<p, l>> # <<e, loc>> => f_data'[<<p, l>>] = f_data[<<p, l>>]
          /\ <<p, l>> = <<e, loc>> => f_data'[<<p, l>>].count = f_data[<<p, l>>].count + 0
      BY <1>1, <1>2, <1>3, <2>1, <3>1, CellAdded
    <3> QED
      BY <2>1, <3>2
  <2>3. p = e => ~Open(p) /\ Open(p)'
    BY StackEntered DEF e
  <2>4. p # e => (Open(p)' <=> Open(p))
    BY StackEntered DEF e
  <2> QED
    BY <1>1, <2>1, <2>2, <2>3, <2>4 DEF CallCount, OpenIn
<1> SUFFICES ASSUME cut = {}, NEW r \in Regions, NEW c \in Regions
             PROVE  callers'[<<r, c>>] = Called(r, c)'
  BY <1>1 DEF Calls
<1> DEFINE S == CallsOf(r, c)
           x == <<e, loc>>
           f == [cell \in S |-> CallCount(cell[1], cell[2])]
           g == [cell \in S |-> CallCount(cell[1], cell[2])']
<1>5. Called(r, c) = Total(f) /\ Called(r, c)' = Total(g)
  BY DEF Called, CallsOf
<1>6. callers[<<r, c>>] = Total(f)
  BY <1>5 DEF Calls
<1>7. IsFiniteSet(S) /\ S \subseteq Cells
  BY CellsFinite, FS_Subset DEF CallsOf
<1>8. /\ f \in [S -> Nat] /\ g \in [S -> Nat]
      /\ \A cell \in S : g[cell] = f[cell] + (IF cell = x THEN 1 ELSE 0)
  <2> SUFFICES ASSUME NEW cell \in S
               PROVE  /\ CallCount(cell[1], cell[2]) \in Nat
                      /\ CallCount(cell[1], cell[2])' \in Nat
                      /\ CallCount(cell[1], cell[2])'
                           = CallCount(cell[1], cell[2]) + (IF cell = x THEN 1 ELSE 0)
    OBVIOUS
  <2>1. cell[1] \in Paths /\ cell[2] \in Locs /\ cell = <<cell[1], cell[2]>>
    BY <1>7 DEF Cells
  <2>2. CallCount(cell[1], cell[2]) \in Nat
    BY <2>1, CallCountType
  <2>3. cell = x <=> cell[1] = e /\ cell[2] = loc
    BY <2>1
  <2>4. CallCount(cell[1], cell[2])'
          = CallCount(cell[1], cell[2]) + (IF cell[1] = e /\ cell[2] = loc THEN 1 ELSE 0)
    BY <1>4, <2>1
  <2> QED
    BY <2>2, <2>3, <2>4
<1>9. Len(e) > 1 <=> ~Idle
  BY <1>2 DEF Idle, Inv, TypeOK
<1>10. x \in S <=> ~Idle /\ r = region /\ c = by
  <2>1. x \in Cells /\ x[1] = e
    BY <1>1, <1>2, CellTypes
  <2>2. x \in S <=> Len(e) > 1 /\ RegionOf(e) = r /\ RegionOf(ParentOf(e)) = c
    BY <2>1 DEF CallsOf
  <2> QED
    BY <1>2, <1>9, <2>2
<1> HIDE DEF S, x, f, g, by
<1>11. CASE x \in S
  <2>1. Total(g) = Total(f) + 1
    BY <1>7, <1>8, <1>11, TotalGrows
  <2>2. callers' = [callers EXCEPT ![<<region, by>>] = @ + 1]
    BY <1>10, <1>11 DEF HandleEnter, CountCall, by
  <2> QED
    BY <1>1, <1>5, <1>6, <1>10, <1>11, <2>1, <2>2
<1>12. CASE x \notin S
  <2>1. \A cell \in S : g[cell] = f[cell]
    <3>1. \A cell \in S : f[cell] \in Nat /\ cell # x
      BY <1>8, <1>12
    <3> QED
      BY <1>8, <3>1
  <2>2. g = f
    BY <1>8, <2>1
  <2>3. callers'[<<r, c>>] = callers[<<r, c>>]
    <3>1. CASE Idle
      BY <3>1 DEF HandleEnter, CountCall
    <3>2. CASE ~Idle
      <4>1. callers' = [callers EXCEPT ![<<region, by>>] = @ + 1]
        BY <3>2 DEF HandleEnter, CountCall, by
      <4>2. <<r, c>> # <<region, by>>
        BY <1>10, <1>12, <3>2
      <4> QED
        BY <1>1, <4>1, <4>2
    <3> QED
      BY <3>1, <3>2
  <2> QED
    BY <1>5, <1>6, <2>2, <2>3
<1> QED
  BY <1>11, <1>12

LEMMA CallsLeft ==
  ASSUME Inv, Calls, NEW d \in Deltas, HandleLeave(d)
  PROVE  Calls'
<1> DEFINE f == [count |-> 1, incl |-> Taken, excl |-> SelfTime(Taken)]
           e == Top.node
<1>1. /\ loc' = loc /\ cut' = cut /\ callers' = callers /\ loc \in Locs /\ ~Idle
      /\ clock' \in Nat /\ clock' >= clock /\ clock \in Nat
  BY Now DEF HandleLeave, Inv, TypeOK
<1>2. /\ e \in Paths /\ Top.time \in Nat /\ Top.time <= clock
      /\ Top.child_incl \in Nat /\ Top.child_incl <= clock - Top.time
  BY <1>1, OnTop
<1>3. f \in [count : Nat, incl : Nat, excl : Nat] /\ f.count = 1
  <2>1. Taken \in Nat /\ SelfTime(Taken) \in Nat
    BY <1>1, <1>2 DEF Taken, SelfTime
  <2> QED
    BY <2>1
<1>4. AddFunction(e, f)
  BY DEF HandleLeave, Taken
<1> HIDE DEF e, f
<1>5. ASSUME NEW p \in Paths, NEW l \in Locs
      PROVE  CallCount(p, l)' = CallCount(p, l)
  <2>1. <<p, l>> \in Cells /\ f_data[<<p, l>>].count \in Nat
    BY CellTypes
  <2>2. /\ <<p, l>> # <<e, loc>> => f_data'[<<p, l>>] = f_data[<<p, l>>]
        /\ <<p, l>> = <<e, loc>> => f_data'[<<p, l>>].count = f_data[<<p, l>>].count + 1
    BY <1>1, <1>2, <1>3, <1>4, <2>1, CellAdded
  <2>3. p = e => Open(p) /\ ~Open(p)'
    BY StackLeft DEF e
  <2>4. p # e => (Open(p)' <=> Open(p))
    BY StackLeft DEF e
  <2>5. CASE p = e /\ l = loc
    BY <1>1, <2>1, <2>2, <2>3, <2>5 DEF CallCount, OpenIn
  <2>6. CASE ~(p = e /\ l = loc)
    BY <1>1, <2>1, <2>2, <2>4, <2>6 DEF CallCount, OpenIn
  <2> QED
    BY <2>5, <2>6
<1> QED
  BY <1>1, <1>5, CallsSame

-----------------------------------------------------------------------------
(* What the calls made from a call path took is what lies between its two  *)
(* times.                                                                  *)
ChildTimes(p, l) == Total([q \in Children(p) |-> f_data[<<q, l>>].incl])

SharesOf(p, l) ==
  ChildTimes(p, l) + f_data[<<p, l>>].excl
    = f_data[<<p, l>>].incl + (IF OpenIn(p, l) THEN Kids(p) ELSE 0)

Shares == \A p \in Paths, l \in Locs \ cut : SharesOf(p, l)

LEMMA ChildTimesType ==
  ASSUME Inv, NEW p \in Paths, NEW l \in Locs
  PROVE  /\ IsFiniteSet(Children(p))
         /\ [q \in Children(p) |-> f_data[<<q, l>>].incl] \in [Children(p) -> Nat]
         /\ ChildTimes(p, l) \in Nat
<1> DEFINE S == Children(p)
           f == [q \in S |-> f_data[<<q, l>>].incl]
<1>1. IsFiniteSet(S)
  BY PathsFinite, FS_Subset DEF Children
<1>2. f \in [S -> Nat]
  BY CellTypes DEF Children
<1>3. ChildTimes(p, l) = Total(f)
  BY DEF ChildTimes
<1> HIDE DEF f, S
<1>4. Total(f) \in Nat
  BY <1>1, <1>2, TotalType
<1> QED
  BY <1>1, <1>2, <1>3, <1>4 DEF f, S

(* Children take their time at their leave only.                           *)
LEMMA SharesSame ==
  ASSUME UNCHANGED <<loc, cut>>, Shares,
         \A p \in Paths, l \in Locs : /\ f_data'[<<p, l>>].incl = f_data[<<p, l>>].incl
                                     /\ f_data'[<<p, l>>].excl = f_data[<<p, l>>].excl,
         \A p \in Paths : (IF Open(p)' THEN Kids(p)' ELSE 0) = IF Open(p) THEN Kids(p) ELSE 0
  PROVE  Shares'
<1> SUFFICES ASSUME NEW p \in Paths, NEW l \in Locs \ cut PROVE SharesOf(p, l)'
  BY DEF Shares
<1>1. SharesOf(p, l)
  BY DEF Shares
<1>2. ChildTimes(p, l)' = ChildTimes(p, l)
  <2>1. [q \in Children(p) |-> f_data'[<<q, l>>].incl] = [q \in Children(p) |-> f_data[<<q, l>>].incl]
    BY DEF Children
  <2> QED
    BY <2>1 DEF ChildTimes, Children
<1>3. (IF OpenIn(p, l)' THEN Kids(p)' ELSE 0) = IF OpenIn(p, l) THEN Kids(p) ELSE 0
  BY DEF OpenIn
<1> QED
  BY <1>1, <1>2, <1>3 DEF SharesOf

LEMMA SharesAlone ==
  ASSUME Inv, Shares, UNCHANGED <<loc, node_stack, f_data, cut>>
  PROVE  Shares'
<1>1. \A p \in Paths : Kids(p)' = Kids(p) /\ (Open(p)' <=> Open(p))
  BY StackAlone
<1> QED
  BY <1>1, SharesSame

LEMMA SharesEntered ==
  ASSUME Inv, Shares, NEW d \in Deltas, NEW region \in Regions, HandleEnter(d, region)
  PROVE  Shares'
<1> DEFINE zero == [count |-> 0, incl |-> 0, excl |-> 0]
           e == Entering(region)
<1>1. loc' = loc /\ cut' = cut /\ loc \in Locs /\ e \in Paths /\ AddFunction(e, zero)
  BY Entered, Now DEF HandleEnter, Entering
<1> HIDE DEF e
<1>2. ASSUME NEW p \in Paths, NEW l \in Locs
      PROVE  /\ f_data'[<<p, l>>].incl = f_data[<<p, l>>].incl
             /\ f_data'[<<p, l>>].excl = f_data[<<p, l>>].excl
  <2>1. zero \in [count : Nat, incl : Nat, excl : Nat]
    OBVIOUS
  <2>2. <<p, l>> \in Cells /\ f_data[<<p, l>>].excl \in Nat /\ f_data[<<p, l>>].incl \in Nat
    BY CellTypes
  <2>3. /\ <<p, l>> # <<e, loc>> => f_data'[<<p, l>>] = f_data[<<p, l>>]
        /\ <<p, l>> = <<e, loc>> =>
             /\ f_data'[<<p, l>>].incl = f_data[<<p, l>>].incl + 0
             /\ f_data'[<<p, l>>].excl = f_data[<<p, l>>].excl + 0
    BY <1>1, <2>1, <2>2, CellAdded
  <2> QED
    BY <2>2, <2>3
<1>3. ASSUME NEW p \in Paths
      PROVE  (IF Open(p)' THEN Kids(p)' ELSE 0) = IF Open(p) THEN Kids(p) ELSE 0
  <2>1. CASE p = e
    BY <2>1, StackEntered DEF e
  <2>2. CASE p # e
    BY <2>2, StackEntered DEF e
  <2> QED
    BY <2>1, <2>2
<1> QED
  BY <1>1, <1>2, <1>3, SharesSame

LEMMA SharesLeft ==
  ASSUME Inv, Prefixes, Shares, NEW d \in Deltas, HandleLeave(d)
  PROVE  Shares'
<1> DEFINE f == [count |-> 1, incl |-> Taken, excl |-> SelfTime(Taken)]
           e == Top.node
<1>1. /\ loc' = loc /\ cut' = cut /\ loc \in Locs /\ ~Idle
      /\ clock' \in Nat /\ clock' >= clock /\ clock \in Nat
  BY Now DEF HandleLeave, Inv, TypeOK
<1>2. /\ e \in Paths /\ Top.time \in Nat /\ Top.time <= clock
      /\ Top.child_incl \in Nat /\ Top.child_incl <= clock - Top.time
  BY <1>1, OnTop
<1>3. /\ SelfTime(Taken) = Taken - Top.child_incl
      /\ Taken \in Nat /\ SelfTime(Taken) \in Nat
  BY <1>1, <1>2 DEF Taken, SelfTime
<1>4. ASSUME NEW p \in Paths, NEW l \in Locs
      PROVE  /\ <<p, l>> # <<e, loc>> => f_data'[<<p, l>>] = f_data[<<p, l>>]
             /\ <<p, l>> = <<e, loc>> =>
                  /\ f_data'[<<p, l>>].incl = f_data[<<p, l>>].incl + Taken
                  /\ f_data'[<<p, l>>].excl = f_data[<<p, l>>].excl + SelfTime(Taken)
  <2>1. f \in [count : Nat, incl : Nat, excl : Nat] /\ AddFunction(e, f)
    BY <1>3 DEF HandleLeave, Taken
  <2>2. f.incl = Taken /\ f.excl = SelfTime(Taken)
    OBVIOUS
  <2> HIDE DEF e, f
  <2> QED
    BY <1>1, <1>2, <2>1, <2>2, CellTypes, CellAdded
<1> HIDE DEF e, f
<1> SUFFICES ASSUME NEW p \in Paths, NEW l \in Locs \ cut PROVE SharesOf(p, l)'
  BY <1>1 DEF Shares
<1>5. SharesOf(p, l)
  BY DEF Shares
<1>6. /\ ChildTimes(p, l) \in Nat
      /\ f_data[<<p, l>>].excl \in Nat /\ f_data[<<p, l>>].incl \in Nat
  BY ChildTimesType, CellTypes
<1>7. ChildTimes(p, l)'
        = ChildTimes(p, l) + (IF l = loc /\ Len(e) > 1 /\ p = ParentOf(e) THEN Taken ELSE 0)
  <2> DEFINE S == Children(p)
             g == [q \in S |-> f_data[<<q, l>>].incl]
             h == [q \in S |-> f_data'[<<q, l>>].incl]
  <2>1. IsFiniteSet(S) /\ g \in [S -> Nat] /\ ChildTimes(p, l) = Total(g)
    BY ChildTimesType DEF ChildTimes
  <2>2. ChildTimes(p, l)' = Total(h)
    BY DEF ChildTimes, Children
  <2>3. e \in S <=> Len(e) > 1 /\ p = ParentOf(e)
    BY <1>2 DEF Children, e
  <2>4. S \subseteq Paths
    BY DEF Children
  <2> HIDE DEF S
  <2>5. CASE l = loc /\ e \in S
    <3>1. h[e] = g[e] + Taken /\ \A q \in S : q # e => h[q] = g[q]
      BY <1>4, <2>4, <2>5
    <3>2. h \in [S -> Nat]
      <4>1. \A q \in S : h[q] \in Nat
        BY <1>3, <2>1, <3>1
      <4> QED
        BY <4>1
    <3> HIDE DEF g, h
    <3>3. Total(h) = Total(g) + Taken
      BY <1>3, <2>1, <2>5, <3>1, <3>2, TotalGrows
    <3> QED
      BY <2>1, <2>2, <2>3, <2>5, <3>3
  <2>6. CASE ~(l = loc /\ e \in S)
    <3>1. \A q \in S : f_data'[<<q, l>>].incl = f_data[<<q, l>>].incl
      BY <1>4, <2>4, <2>6
    <3>2. h = g
      BY <3>1
    <3> HIDE DEF g, h
    <3>3. ChildTimes(p, l)' = ChildTimes(p, l)
      BY <2>1, <2>2, <3>2
    <3> QED
      BY <1>6, <2>3, <2>6, <3>3
  <2> QED
    BY <2>5, <2>6
<1>8. CASE l # loc
  <2>1. f_data'[<<p, l>>] = f_data[<<p, l>>] /\ ChildTimes(p, l)' = ChildTimes(p, l)
    BY <1>4, <1>6, <1>7, <1>8
  <2> QED
    BY <1>1, <1>5, <1>8, <2>1 DEF SharesOf, OpenIn
<1>9. CASE l = loc /\ p = e
  <2>1. Open(p) /\ ~Open(p)' /\ Kids(p) = Top.child_incl
    BY <1>9, StackLeft DEF e
  <2>2. ~(Len(e) > 1 /\ p = ParentOf(e))
    <3>1. e \in Seq(Regions) /\ Len(e) \in Nat
      BY <1>2, PathLength DEF e
    <3>2. Len(e) > 1 => Len(ParentOf(e)) = Len(e) - 1
      BY <3>1 DEF ParentOf
    <3> QED
      BY <1>9, <3>1, <3>2
  <2>3. /\ ChildTimes(p, l)' = ChildTimes(p, l)
        /\ f_data'[<<p, l>>].incl = f_data[<<p, l>>].incl + Taken
        /\ f_data'[<<p, l>>].excl = f_data[<<p, l>>].excl + (Taken - Top.child_incl)
    BY <1>3, <1>4, <1>6, <1>7, <1>9, <2>2
  <2>4. ChildTimes(p, l) + f_data[<<p, l>>].excl = f_data[<<p, l>>].incl + Top.child_incl
    BY <1>5, <1>9, <2>1 DEF SharesOf, OpenIn
  <2>5. ChildTimes(p, l)' + f_data'[<<p, l>>].excl = f_data'[<<p, l>>].incl + 0
    BY <1>2, <1>3, <1>6, <2>3, <2>4
  <2> QED
    BY <2>1, <2>5 DEF SharesOf, OpenIn
<1>10. CASE l = loc /\ p # e
  <2>1. /\ Open(p)' <=> Open(p)
        /\ Open(p) => Kids(p)' = IF At(p) = 2 THEN Kids(p) + Taken ELSE Kids(p)
    BY <1>10, StackLeft DEF e
  <2>2. Len(e) > 1 /\ p = ParentOf(e) <=> Open(p) /\ At(p) = 2
    BY <1>1, CallerOpen, CallerIs DEF e
  <2>3. f_data'[<<p, l>>] = f_data[<<p, l>>]
    BY <1>4, <1>10
  <2>4. Open(p) => Kids(p) \in Nat
    BY OpenTypes
  <2>5. ChildTimes(p, l)' = ChildTimes(p, l) + (IF Open(p) /\ At(p) = 2 THEN Taken ELSE 0)
    BY <1>7, <1>10, <2>2
  <2>6. (IF Open(p)' THEN Kids(p)' ELSE 0)
          = (IF Open(p) THEN Kids(p) ELSE 0) + (IF Open(p) /\ At(p) = 2 THEN Taken ELSE 0)
    BY <1>3, <2>1, <2>4
  <2>7. ChildTimes(p, l) + f_data[<<p, l>>].excl
          = f_data[<<p, l>>].incl + (IF Open(p) THEN Kids(p) ELSE 0)
    BY <1>5, <1>10 DEF SharesOf, OpenIn
  <2>8. ChildTimes(p, l)' + f_data'[<<p, l>>].excl
          = f_data'[<<p, l>>].incl + (IF Open(p)' THEN Kids(p)' ELSE 0)
    BY <1>3, <1>6, <2>3, <2>4, <2>5, <2>6, <2>7
  <2> QED
    BY <1>1, <1>10, <2>8 DEF SharesOf, OpenIn
<1> QED
  BY <1>8, <1>9, <1>10

-----------------------------------------------------------------------------
(* The metric.  An integer metric grows as the clock does: its inclusive   *)
(* value lacks what it was at the enter of an open call, its exclusive     *)
(* value holds, negated, what the calls made from there have taken.  Only  *)
(* the first enter of a location can take a value an earlier one left.     *)
Pending ==
  /\ HasMetric /\ (~Idle \/ cut = {}) =>
       tmp_metric = IF paired THEN Recorded(clock) ELSE NoValue
  /\ paired => tmp_metric # NoValue
  /\ ~HasMetric => tmp_metric = NoValue /\ metered = {} /\ ~paired
  /\ metric_type = "DOUBLE" => tmp_metric \in {0, NoValue}

MetricIncl(p, l) ==
  f_data[<<p, l>>].incl - (IF OpenIn(p, l) THEN Start(p) ELSE 0)

MetricExcl(p, l) ==
  f_data[<<p, l>>].excl - f_data[<<p, l>>].incl
    - (IF OpenIn(p, l) THEN Kids(p) ELSE 0)
    + (IF OpenIn(p, l) /\ At(p) # 1 THEN Until(p) ELSE 0)

Exact(p, l) == Len(p) > 1 \/ \A k \in cut : l < k

MetricsOf(p, l) ==
  /\ Exact(p, l) => metric[<<p, l>>].incl = MetricIncl(p, l)
  /\ metric[<<p, l>>].excl = MetricExcl(p, l)

Metrics ==
  HasMetric /\ metric_type # "DOUBLE" =>
    \A p \in Paths, l \in Locs \ cut : MetricsOf(p, l)

(* Of a metric of type DOUBLE nothing is ever recorded.                    *)
Doubles ==
  metric_type = "DOUBLE" =>
    \A p \in Paths, l \in Locs : metric[<<p, l>>].incl = 0 /\ metric[<<p, l>>].excl = 0

(* Open regions have the metric.                                           *)
Found == HasMetric => \A p \in Paths : Open(p) => <<p, loc>> \in metered

CutBefore == \A l \in cut : l < loc

LEMMA Deep ==
  ASSUME NEW p \in Paths
  PROVE  Len(p) # 1 <=> Len(p) > 1
<1>1. Len(p) \in Nat /\ Len(p) > 0
  BY PathLength
<1> QED
  BY <1>1

LEMMA MetricCells ==
  ASSUME Inv, loc \in Locs, NEW p \in Paths, NEW sign \in {-1, 1}, Meter(p, sign),
         Len(p) > 1 => ParentOf(p) \in Paths /\ last_loc[ParentOf(p)] = loc,
         NEW q \in Paths, NEW l \in Locs
  PROVE  /\ l # loc => metric'[<<q, l>>] = metric[<<q, l>>]
         /\ tmp_metric # NoValue =>
              /\ metric'[<<q, loc>>].incl
                   = metric[<<q, loc>>].incl + (IF q = p THEN sign * tmp_metric ELSE 0)
              /\ metric'[<<q, loc>>].excl
                   = metric[<<q, loc>>].excl
                       - (IF Len(p) > 1 /\ q = ParentOf(p) THEN sign * tmp_metric ELSE 0)
<1> DEFINE cell == <<p, loc>>
           up == <<ParentOf(p), loc>>
           m == sign * tmp_metric
           own == [metric EXCEPT ![cell].incl = @ + m]
           both == [own EXCEPT ![up].excl = @ - m]
<1>1. /\ metric \in [Cells -> [incl : Int, excl : Int]] /\ cell \in Cells
      /\ <<q, l>> \in Cells /\ <<q, loc>> \in Cells
      /\ Len(p) > 1 => up \in Cells
      /\ tmp_metric \in Nat \cup {NoValue}
  BY DEF Inv, TypeOK, Cells
<1>2. CASE tmp_metric = NoValue
  BY <1>2 DEF Meter
<1>3. CASE tmp_metric # NoValue
  <2>1. m \in Int
    BY <1>1, <1>3
  <2>2. metric' = IF Len(p) > 1 THEN both ELSE own
    <3>1. /\ Len(p) = 1 => metric' = own
          /\ Len(p) # 1 => metric' = [own EXCEPT ![<<ParentOf(p), last_loc[ParentOf(p)]>>].excl
                                        = @ - m]
      BY <1>3 DEF Meter
    <3>2. Len(p) > 1 => <<ParentOf(p), last_loc[ParentOf(p)]>> = up
      OBVIOUS
    <3> HIDE DEF own, m, up
    <3>3. Len(p) # 1 => metric' = both
      BY <3>1, <3>2, Deep
    <3> HIDE DEF both
    <3> QED
      BY <3>1, <3>3, Deep
  <2>4. own \in [Cells -> [incl : Int, excl : Int]]
    <3> HIDE DEF m, cell
    <3>1. metric[cell] \in [incl : Int, excl : Int]
      BY <1>1
    <3>2. [metric[cell] EXCEPT !.incl = @ + m] \in [incl : Int, excl : Int]
      <4>1. metric[cell].incl + m \in Int
        BY <2>1, <3>1
      <4> QED
        BY <3>1, <4>1
    <3>3. own = [metric EXCEPT ![cell] = [metric[cell] EXCEPT !.incl = @ + m]]
      OBVIOUS
    <3> HIDE DEF own
    <3> QED
      BY <1>1, <3>2, <3>3
  <2> HIDE DEF cell, up, m
  <2>3. ASSUME NEW c \in Cells
        PROVE  /\ own[c].incl = metric[c].incl + (IF c = cell THEN m ELSE 0)
               /\ own[c].excl = metric[c].excl
               /\ c # cell => own[c] = metric[c]
               /\ own[c] \in [incl : Int, excl : Int]
    <3>1. metric[c] \in [incl : Int, excl : Int] /\ metric[c].incl \in Int
      BY <1>1
    <3>2. CASE c = cell
      <4>1. own[c] = [metric[c] EXCEPT !.incl = @ + m]
        BY <1>1, <3>2
      <4>2. metric[c].incl + m \in Int
        BY <2>1, <3>1
      <4> QED
        BY <3>1, <3>2, <4>1, <4>2
    <3>3. CASE c # cell
      BY <1>1, <3>1, <3>3
    <3> QED
      BY <3>2, <3>3
  <2> HIDE DEF own
  <2>5. ASSUME NEW c \in Cells, Len(p) > 1
        PROVE  /\ both[c].incl = own[c].incl
               /\ both[c].excl = own[c].excl - (IF c = up THEN m ELSE 0)
               /\ c # up => both[c] = own[c]
    <3>1. own[c] \in [incl : Int, excl : Int] /\ own[c].excl \in Int
      BY <2>3
    <3>2. CASE c = up
      <4>1. both[c] = [own[c] EXCEPT !.excl = @ - m]
        BY <2>4, <3>2
      <4> QED
        BY <3>1, <3>2, <4>1
    <3>3. CASE c # up
      BY <2>4, <3>1, <3>3
    <3> QED
      BY <3>2, <3>3
  <2> HIDE DEF both
  <2>6. ASSUME NEW c \in Cells
        PROVE  /\ metric'[c].incl = metric[c].incl + (IF c = cell THEN m ELSE 0)
               /\ metric'[c].excl = metric[c].excl - (IF Len(p) > 1 /\ c = up THEN m ELSE 0)
               /\ c # cell /\ c # up => metric'[c] = metric[c]
    <3>1. CASE Len(p) > 1
      BY <2>2, <2>3, <2>5, <3>1
    <3>2. CASE ~(Len(p) > 1)
      <4>1. metric[c].excl \in Int
        BY <1>1
      <4> QED
        BY <2>2, <2>3, <3>2, <4>1
    <3> QED
      BY <3>1, <3>2
  <2>7. /\ l # loc => <<q, l>> # cell /\ <<q, l>> # up
        /\ <<q, loc>> = cell <=> q = p
        /\ <<q, loc>> = up <=> q = ParentOf(p)
    BY DEF cell, up
  <2> QED
    BY <1>1, <2>6, <2>7 DEF m
<1> QED
  BY <1>2, <1>3

(* Nothing changes in a location that is not being read.                   *)
LEMMA MetricsElsewhere ==
  ASSUME loc' = loc, cut' = cut, NEW p \in Paths, NEW l \in Locs, l # loc, MetricsOf(p, l),
         f_data'[<<p, l>>] = f_data[<<p, l>>], metric'[<<p, l>>] = metric[<<p, l>>]
  PROVE  MetricsOf(p, l)'
BY DEF MetricsOf, Exact, MetricIncl, MetricExcl, OpenIn

LEMMA MetricsAlone ==
  ASSUME Inv, Metrics, UNCHANGED <<loc, node_stack, f_data, metric, metric_type, cut>>
  PROVE  Metrics'
<1> SUFFICES ASSUME HasMetric, metric_type # "DOUBLE", NEW p \in Paths, NEW l \in Locs \ cut
             PROVE  MetricsOf(p, l)'
  BY DEF Metrics
<1>1. MetricsOf(p, l)
  BY DEF Metrics
<1>2. /\ Open(p)' <=> Open(p)
      /\ At(p)' = At(p) /\ Start(p)' = Start(p) /\ Kids(p)' = Kids(p)
      /\ At(p) # 1 => Until(p)' = Until(p)
  BY StackAlone
<1>3. MetricIncl(p, l)' = MetricIncl(p, l)
  BY <1>2 DEF MetricIncl, OpenIn
<1>4. MetricExcl(p, l)' = MetricExcl(p, l)
  BY <1>2 DEF MetricExcl, OpenIn
<1> QED
  BY <1>1, <1>3, <1>4 DEF MetricsOf, Exact

(* The event a metric was recorded for comes at the same time.             *)
LEMMA MetricNow ==
  ASSUME Inv, Pending, HasMetric, metric_type # "DOUBLE", NEW d \in Deltas, Event(d), Paired(d)
  PROVE  /\ tmp_metric # NoValue /\ tmp_metric \in Nat /\ clock' = clock /\ clock \in Nat
         /\ ~Idle \/ cut = {} => tmp_metric = clock
<1>1. clock \in Nat /\ paired /\ d = 0 /\ clock' = clock + d
  BY DEF Inv, TypeOK, Event, Paired
<1>2. tmp_metric # NoValue /\ tmp_metric \in Nat
  BY <1>1 DEF Pending, Inv, TypeOK
<1> QED
  BY <1>1, <1>2 DEF Pending, Recorded

LEMMA MetricsEntered ==
  ASSUME Inv, Prefixes, Metrics, Pending, CutBefore, UNCHANGED metric_type,
         NEW d \in Deltas, NEW region \in Regions, HandleEnter(d, region)
  PROVE  Metrics'
<1> DEFINE zero == [count |-> 0, incl |-> 0, excl |-> 0]
           e == Entering(region)
<1>1. /\ Event(d) /\ Paired(d) /\ loc' = loc /\ cut' = cut /\ loc \in Locs /\ e \in Paths
  BY Entered, Now DEF HandleEnter
<1>2. AddFunction(e, zero) /\ Meter(e, -1)
  BY DEF HandleEnter, Entering
<1>3. Len(e) > 1 => /\ ~Idle /\ ParentOf(e) = Top.node /\ ParentOf(e) \in Paths
                    /\ last_loc[ParentOf(e)] = loc
  BY <1>1, Entered, OnTop
<1>4. Len(e) > 1 <=> ~Idle
  <2>1. Len(e) = Len(node_stack) + 1
    BY Entered
  <2> HIDE DEF e
  <2> QED
    BY <2>1 DEF Idle, Inv, TypeOK
<1> HIDE DEF e
<1> SUFFICES ASSUME HasMetric, metric_type # "DOUBLE", NEW p \in Paths, NEW l \in Locs \ cut
             PROVE  MetricsOf(p, l)'
  BY <1>1 DEF Metrics
<1>5. MetricsOf(p, l)
  BY DEF Metrics
<1>6. /\ f_data'[<<p, l>>].excl = f_data[<<p, l>>].excl
      /\ f_data'[<<p, l>>].incl = f_data[<<p, l>>].incl
      /\ l # loc => f_data'[<<p, l>>] = f_data[<<p, l>>]
  <2>1. zero \in [count : Nat, incl : Nat, excl : Nat]
    OBVIOUS
  <2>2. <<p, l>> \in Cells /\ f_data[<<p, l>>].excl \in Nat /\ f_data[<<p, l>>].incl \in Nat
    BY CellTypes
  <2>3. /\ <<p, l>> # <<e, loc>> => f_data'[<<p, l>>] = f_data[<<p, l>>]
        /\ <<p, l>> = <<e, loc>> =>
             /\ f_data'[<<p, l>>].incl = f_data[<<p, l>>].incl + 0
             /\ f_data'[<<p, l>>].excl = f_data[<<p, l>>].excl + 0
    BY <1>1, <1>2, <2>1, <2>2, CellAdded
  <2> QED
    BY <2>2, <2>3
<1>7. /\ l # loc => metric'[<<p, l>>] = metric[<<p, l>>]
      /\ tmp_metric # NoValue =>
           /\ metric'[<<p, loc>>].incl
                = metric[<<p, loc>>].incl + (IF p = e THEN 0 - tmp_metric ELSE 0)
           /\ metric'[<<p, loc>>].excl
                = metric[<<p, loc>>].excl
                    - (IF Len(e) > 1 /\ p = ParentOf(e) THEN 0 - tmp_metric ELSE 0)
  <2> DEFINE s == -1
  <2>1. s \in {-1, 1} /\ Meter(e, s)
    BY <1>2
  <2> HIDE DEF s
  <2>2. /\ l # loc => metric'[<<p, l>>] = metric[<<p, l>>]
        /\ tmp_metric # NoValue =>
             /\ metric'[<<p, loc>>].incl
                  = metric[<<p, loc>>].incl + (IF p = e THEN s * tmp_metric ELSE 0)
             /\ metric'[<<p, loc>>].excl
                  = metric[<<p, loc>>].excl
                      - (IF Len(e) > 1 /\ p = ParentOf(e) THEN s * tmp_metric ELSE 0)
    BY <1>1, <1>3, <2>1, MetricCells
  <2>3. tmp_metric # NoValue => s * tmp_metric = 0 - tmp_metric
    BY DEF s, Inv, TypeOK
  <2> QED
    BY <2>2, <2>3
<1>8. CASE l # loc
  BY <1>1, <1>5, <1>6, <1>7, <1>8, MetricsElsewhere
<1>9. CASE l = loc
  <2> DEFINE excl == f_data[<<p, loc>>].excl
             incl == f_data[<<p, loc>>].incl
  <2>1. /\ Exact(p, l)' <=> Exact(p, loc)
        /\ Exact(p, loc) => Len(p) > 1 \/ cut = {}
    BY <1>1, <1>9 DEF Exact, CutBefore, Inv, TypeOK
  <2>2. /\ tmp_metric # NoValue /\ tmp_metric \in Nat /\ clock' = clock /\ clock \in Nat
        /\ ~Idle \/ cut = {} => tmp_metric = clock
    BY <1>1, MetricNow
  <2>3. excl \in Nat /\ incl \in Nat
    BY <1>1, CellTypes
  <2>4. /\ Exact(p, loc) => metric'[<<p, loc>>].incl
                               = metric[<<p, loc>>].incl - (IF p = e THEN clock ELSE 0)
        /\ metric'[<<p, loc>>].excl
             = metric[<<p, loc>>].excl + (IF ~Idle /\ p = Top.node THEN clock ELSE 0)
        /\ metric[<<p, loc>>].incl \in Int /\ metric[<<p, loc>>].excl \in Int
    <3>1. metric[<<p, loc>>].incl \in Int /\ metric[<<p, loc>>].excl \in Int
      BY <1>1, CellTypes
    <3>2. Len(e) > 1 /\ p = ParentOf(e) <=> ~Idle /\ p = Top.node
      BY <1>3, <1>4
    <3>3. Exact(p, loc) /\ p = e => tmp_metric = clock
      BY <1>4, <2>1, <2>2
    <3> QED
      BY <1>4, <1>7, <2>2, <3>1, <3>2, <3>3
  <2>5. ~Idle /\ p = Top.node <=> Open(p) /\ At(p) = 1
    BY <1>1, InnerIs DEF Inner
  <2>6. /\ Exact(p, loc) => metric[<<p, loc>>].incl = incl - (IF Open(p) THEN Start(p) ELSE 0)
        /\ metric[<<p, loc>>].excl = excl - incl - (IF Open(p) THEN Kids(p) ELSE 0)
                                       + (IF Open(p) /\ At(p) # 1 THEN Until(p) ELSE 0)
    BY <1>5, <1>9 DEF MetricsOf, MetricIncl, MetricExcl, OpenIn
  <2>7. /\ MetricIncl(p, l)' = incl - (IF Open(p)' THEN Start(p)' ELSE 0)
        /\ MetricExcl(p, l)' = excl - incl - (IF Open(p)' THEN Kids(p)' ELSE 0)
                                   + (IF Open(p)' /\ At(p)' # 1 THEN Until(p)' ELSE 0)
    BY <1>1, <1>6, <1>9 DEF MetricIncl, MetricExcl, OpenIn
  <2>8. Open(p) => Start(p) \in Nat /\ Kids(p) \in Nat /\ Until(p) \in Nat
                   /\ At(p) \in Nat /\ At(p) > 0
    BY OpenTypes
  <2> HIDE DEF excl, incl
  <2>9. CASE p = e
    <3>1. /\ ~Open(p) /\ Open(p)' /\ At(p)' = 1 /\ Start(p)' = clock' /\ Kids(p)' = 0
      BY <2>9, StackEntered DEF e
    <3>2. /\ Exact(p, loc) => metric[<<p, loc>>].incl = incl
          /\ metric[<<p, loc>>].excl = excl - incl
      BY <2>3, <2>6, <3>1
    <3>3. MetricIncl(p, l)' = incl - clock /\ MetricExcl(p, l)' = excl - incl
      BY <2>2, <2>3, <2>7, <3>1
    <3> QED
      BY <1>9, <2>1, <2>2, <2>3, <2>4, <2>5, <2>9, <3>1, <3>2, <3>3 DEF MetricsOf
  <2>10. CASE p # e
    <3>1. /\ Open(p)' <=> Open(p)
          /\ Open(p) => /\ At(p)' = At(p) + 1
                        /\ Start(p)' = Start(p) /\ Kids(p)' = Kids(p)
                        /\ Until(p)' = IF At(p) = 1 THEN clock' ELSE Until(p)
      BY <2>10, StackEntered DEF e
    <3>2. CASE ~Open(p)
      BY <1>9, <2>1, <2>3, <2>4, <2>5, <2>6, <2>7, <2>10, <3>1, <3>2 DEF MetricsOf
    <3>3. CASE Open(p) /\ At(p) = 1
      BY <1>9, <2>1, <2>2, <2>3, <2>4, <2>5, <2>6, <2>7, <2>8, <2>10, <3>1, <3>3 DEF MetricsOf
    <3>4. CASE Open(p) /\ At(p) # 1
      BY <1>9, <2>1, <2>2, <2>3, <2>4, <2>5, <2>6, <2>7, <2>8, <2>10, <3>1, <3>4 DEF MetricsOf
    <3> QED
      BY <3>2, <3>3, <3>4
  <2> QED
    BY <2>9, <2>10
<1> QED
  BY <1>8, <1>9

LEMMA MetricsLeft ==
  ASSUME Inv, Prefixes, Metrics, Pending, CutBefore, UNCHANGED metric_type,
         NEW d \in Deltas, HandleLeave(d)
  PROVE  Metrics'
<1> DEFINE f == [count |-> 1, incl |-> Taken, excl |-> SelfTime(Taken)]
           e == Top.node
<1>1. /\ Event(d) /\ Paired(d) /\ loc' = loc /\ cut' = cut /\ loc \in Locs /\ ~Idle
      /\ clock' \in Nat /\ clock' >= clock /\ clock \in Nat
  BY Now DEF HandleLeave, Inv, TypeOK
<1>2. /\ e \in Paths /\ Top.time \in Nat /\ Top.time <= clock
      /\ Top.child_incl \in Nat /\ Top.child_incl <= clock - Top.time
  BY <1>1, OnTop
<1>3. /\ Taken = clock' - Top.time /\ SelfTime(Taken) = clock' - Top.time - Top.child_incl
      /\ Taken \in Nat /\ SelfTime(Taken) \in Nat
  BY <1>1, <1>2 DEF Taken, SelfTime
<1>4. AddFunction(e, f) /\ Meter(e, 1)
  BY DEF HandleLeave, Taken
<1>5. Len(e) > 1 => /\ ParentOf(e) \in Paths /\ last_loc[ParentOf(e)] = loc
                    /\ Open(ParentOf(e)) /\ At(ParentOf(e)) = 2
  BY <1>1, CallerOpen
<1> SUFFICES ASSUME HasMetric, metric_type # "DOUBLE", NEW p \in Paths, NEW l \in Locs \ cut
             PROVE  MetricsOf(p, l)'
  BY <1>1 DEF Metrics
<1>6. MetricsOf(p, l)
  BY DEF Metrics
<1>7. /\ <<p, l>> # <<e, loc>> => f_data'[<<p, l>>] = f_data[<<p, l>>]
      /\ <<p, l>> = <<e, loc>> =>
           /\ f_data'[<<p, l>>].incl = f_data[<<p, l>>].incl + Taken
           /\ f_data'[<<p, l>>].excl = f_data[<<p, l>>].excl + SelfTime(Taken)
  <2>1. f \in [count : Nat, incl : Nat, excl : Nat]
    BY <1>3
  <2>2. f.incl = Taken /\ f.excl = SelfTime(Taken)
    OBVIOUS
  <2> HIDE DEF e, f
  <2> QED
    BY <1>1, <1>2, <1>4, <2>1, <2>2, CellTypes, CellAdded
<1> HIDE DEF e, f
<1>8. /\ l # loc => metric'[<<p, l>>] = metric[<<p, l>>]
      /\ tmp_metric # NoValue =>
           /\ metric'[<<p, loc>>].incl
                = metric[<<p, loc>>].incl + (IF p = e THEN tmp_metric ELSE 0)
           /\ metric'[<<p, loc>>].excl
                = metric[<<p, loc>>].excl
                    - (IF Len(e) > 1 /\ p = ParentOf(e) THEN tmp_metric ELSE 0)
  <2> DEFINE s == 1
  <2>1. s \in {-1, 1} /\ Meter(e, s)
    BY <1>4
  <2>2. tmp_metric # NoValue => s * tmp_metric = tmp_metric
    BY DEF Inv, TypeOK
  <2> HIDE DEF s
  <2>3. /\ l # loc => metric'[<<p, l>>] = metric[<<p, l>>]
        /\ tmp_metric # NoValue =>
             /\ metric'[<<p, loc>>].incl
                  = metric[<<p, loc>>].incl + (IF p = e THEN s * tmp_metric ELSE 0)
             /\ metric'[<<p, loc>>].excl
                  = metric[<<p, loc>>].excl
                      - (IF Len(e) > 1 /\ p = ParentOf(e) THEN s * tmp_metric ELSE 0)
    <3>1. /\ loc \in Locs /\ e \in Paths
          /\ Len(e) > 1 => ParentOf(e) \in Paths /\ last_loc[ParentOf(e)] = loc
      BY <1>1, <1>2, <1>5
    <3> QED
      BY <2>1, <3>1, MetricCells
  <2> QED
    BY <2>2, <2>3
<1>9. CASE l # loc
  BY <1>1, <1>6, <1>7, <1>8, <1>9, MetricsElsewhere
<1>10. CASE l = loc
  <2> DEFINE excl == f_data[<<p, loc>>].excl
             incl == f_data[<<p, loc>>].incl
  <2>1. Exact(p, l)' <=> Exact(p, loc)
    BY <1>1, <1>10 DEF Exact
  <2>2. tmp_metric = clock /\ tmp_metric # NoValue /\ clock' = clock
    BY <1>1, MetricNow
  <2>3. excl \in Nat /\ incl \in Nat
    BY <1>1, CellTypes
  <2>4. Len(e) > 1 /\ p = ParentOf(e) <=> Open(p) /\ At(p) = 2
    BY <1>1, <1>5, CallerIs DEF e
  <2>5. /\ metric'[<<p, loc>>].incl = metric[<<p, loc>>].incl + (IF p = e THEN clock ELSE 0)
        /\ metric'[<<p, loc>>].excl
             = metric[<<p, loc>>].excl - (IF Open(p) /\ At(p) = 2 THEN clock ELSE 0)
        /\ metric[<<p, loc>>].incl \in Int /\ metric[<<p, loc>>].excl \in Int
    <3>1. metric[<<p, loc>>].incl \in Int /\ metric[<<p, loc>>].excl \in Int
      BY <1>1, CellTypes
    <3> QED
      BY <1>8, <2>2, <2>4, <3>1
  <2>6. /\ Exact(p, loc) => metric[<<p, loc>>].incl = incl - (IF Open(p) THEN Start(p) ELSE 0)
        /\ metric[<<p, loc>>].excl = excl - incl - (IF Open(p) THEN Kids(p) ELSE 0)
                                       + (IF Open(p) /\ At(p) # 1 THEN Until(p) ELSE 0)
    BY <1>6, <1>10 DEF MetricsOf, MetricIncl, MetricExcl, OpenIn
  <2>7. /\ MetricIncl(p, l)' = f_data'[<<p, loc>>].incl - (IF Open(p)' THEN Start(p)' ELSE 0)
        /\ MetricExcl(p, l)' = f_data'[<<p, loc>>].excl - f_data'[<<p, loc>>].incl
                                   - (IF Open(p)' THEN Kids(p)' ELSE 0)
                                   + (IF Open(p)' /\ At(p)' # 1 THEN Until(p)' ELSE 0)
    BY <1>1, <1>10 DEF MetricIncl, MetricExcl, OpenIn
  <2>8. Open(p) => Start(p) \in Nat /\ Kids(p) \in Nat /\ Until(p) \in Nat
                   /\ At(p) \in Nat /\ At(p) > 0
    BY OpenTypes
  <2>9. CASE p = e
    <3>1. /\ Open(p) /\ At(p) = 1 /\ ~Open(p)' /\ Start(p) = Top.time
          /\ Kids(p) = Top.child_incl
      BY <2>9, StackLeft DEF e
    <3>2. /\ f_data'[<<p, loc>>].incl = incl + Taken
          /\ f_data'[<<p, loc>>].excl = excl + SelfTime(Taken)
      BY <1>7, <1>10, <2>9
    <3> HIDE DEF excl, incl
    <3>3. /\ Exact(p, loc) => metric'[<<p, loc>>].incl = incl - Top.time + clock
          /\ metric'[<<p, loc>>].excl = excl - incl - Top.child_incl
      BY <1>2, <2>3, <2>5, <2>6, <2>9, <3>1
    <3>4. MetricIncl(p, l)' = incl + (clock - Top.time)
      BY <1>1, <1>2, <1>3, <2>2, <2>3, <2>7, <3>1, <3>2
    <3>5. MetricExcl(p, l)' = excl + (clock - Top.time - Top.child_incl)
                                - (incl + (clock - Top.time))
      BY <1>1, <1>2, <1>3, <2>2, <2>3, <2>7, <3>1, <3>2
    <3> QED
      BY <1>1, <1>2, <1>10, <2>1, <2>3, <3>3, <3>4, <3>5 DEF MetricsOf
  <2>10. CASE p # e
    <3>1. /\ Open(p)' <=> Open(p)
          /\ Open(p) => /\ At(p) > 1 /\ At(p)' = At(p) - 1
                        /\ Start(p)' = Start(p)
                        /\ Kids(p)' = IF At(p) = 2 THEN Kids(p) + Taken ELSE Kids(p)
                        /\ Until(p)' = IF At(p) = 2 THEN clock' ELSE Until(p)
                        /\ At(p) = 2 => Until(p) = Top.time
      BY <2>10, StackLeft DEF e
    <3>2. f_data'[<<p, loc>>].incl = incl /\ f_data'[<<p, loc>>].excl = excl
      BY <1>7, <1>10, <2>10
    <3> HIDE DEF excl, incl
    <3>3. CASE ~Open(p)
      BY <1>10, <2>1, <2>3, <2>5, <2>6, <2>7, <2>10, <3>1, <3>2, <3>3 DEF MetricsOf
    <3>4. CASE Open(p) /\ At(p) = 2
      <4>1. /\ Exact(p, loc) => metric'[<<p, loc>>].incl = incl - Start(p)
            /\ metric'[<<p, loc>>].excl = excl - incl - Kids(p) + Top.time - clock
        BY <1>1, <1>2, <2>3, <2>5, <2>6, <2>8, <2>10, <3>1, <3>4
      <4>2. MetricIncl(p, l)' = incl - Start(p)
        BY <2>7, <3>1, <3>2, <3>4
      <4>3. MetricExcl(p, l)' = excl - incl - (Kids(p) + (clock - Top.time)) + 0
        BY <1>3, <2>2, <2>7, <3>1, <3>2, <3>4
      <4> QED
        BY <1>1, <1>2, <1>10, <2>1, <2>3, <2>8, <3>4, <4>1, <4>2, <4>3 DEF MetricsOf
    <3>5. CASE Open(p) /\ At(p) # 2
      <4>1. At(p) # 1 /\ At(p)' # 1
        BY <2>8, <3>1, <3>5
      <4>2. /\ Exact(p, loc) => metric'[<<p, loc>>].incl = incl - Start(p)
            /\ metric'[<<p, loc>>].excl = excl - incl - Kids(p) + Until(p)
        BY <2>3, <2>5, <2>6, <2>8, <2>10, <3>5, <4>1
      <4>3. /\ MetricIncl(p, l)' = incl - Start(p)
            /\ MetricExcl(p, l)' = excl - incl - Kids(p) + Until(p)
        BY <2>7, <3>1, <3>2, <3>5, <4>1
      <4> QED
        BY <1>10, <2>1, <4>2, <4>3 DEF MetricsOf
    <3> QED
      BY <3>3, <3>4, <3>5
  <2> QED
    BY <2>9, <2>10
<1> QED
  BY <1>9, <1>10

LEMMA DoublesMetered ==
  ASSUME Inv, Pending, Doubles, UNCHANGED <<loc, metric_type>>, loc \in Locs,
         NEW p \in Paths, NEW sign \in {-1, 1}, Meter(p, sign),
         Len(p) > 1 => ParentOf(p) \in Paths /\ last_loc[ParentOf(p)] = loc
  PROVE  Doubles'
<1> SUFFICES ASSUME metric_type = "DOUBLE", NEW q \in Paths, NEW l \in Locs
             PROVE  metric'[<<q, l>>].incl = 0 /\ metric'[<<q, l>>].excl = 0
  BY DEF Doubles
<1>1. metric[<<q, l>>].incl = 0 /\ metric[<<q, l>>].excl = 0
  BY DEF Doubles
<1>2. CASE tmp_metric = NoValue
  BY <1>1, <1>2 DEF Meter
<1>3. CASE tmp_metric # NoValue
  <2>1. tmp_metric = 0 /\ sign * tmp_metric = 0
    BY <1>3 DEF Pending
  <2>2. /\ l # loc => metric'[<<q, l>>] = metric[<<q, l>>]
        /\ l = loc =>
             /\ metric'[<<q, l>>].incl
                  = metric[<<q, l>>].incl + (IF q = p THEN sign * tmp_metric ELSE 0)
             /\ metric'[<<q, l>>].excl
                  = metric[<<q, l>>].excl
                      - (IF Len(p) > 1 /\ q = ParentOf(p) THEN sign * tmp_metric ELSE 0)
    <3>1. /\ l # loc => metric'[<<q, l>>] = metric[<<q, l>>]
          /\ tmp_metric # NoValue =>
               /\ metric'[<<q, loc>>].incl
                    = metric[<<q, loc>>].incl + (IF q = p THEN sign * tmp_metric ELSE 0)
               /\ metric'[<<q, loc>>].excl
                    = metric[<<q, loc>>].excl
                        - (IF Len(p) > 1 /\ q = ParentOf(p) THEN sign * tmp_metric ELSE 0)
      BY MetricCells
    <3> QED
      BY <1>3, <3>1
  <2> QED
    BY <1>1, <2>1, <2>2
<1> QED
  BY <1>2, <1>3

(* An enter finds a value in tmp_metric, so that the region it opens has   *)
(* the metric; a leave opens none.                                         *)
LEMMA FoundEntered ==
  ASSUME Inv, Pending, Found, NEW d \in Deltas, NEW region \in Regions, HandleEnter(d, region)
  PROVE  Found'
<1> SUFFICES ASSUME HasMetric, NEW p \in Paths, Open(p)' PROVE <<p, loc>> \in metered'
  BY DEF Found, HandleEnter
<1>1. tmp_metric # NoValue
  BY DEF HandleEnter, Paired, Pending
<1>2. metered' = metered \cup {<<Entering(region), loc>>}
  BY <1>1 DEF HandleEnter, Meter, Entering
<1>3. p # Entering(region) => Open(p)
  BY StackEntered
<1> QED
  BY <1>2, <1>3 DEF Found

LEMMA FoundLeft ==
  ASSUME Inv, Found, NEW d \in Deltas, HandleLeave(d)
  PROVE  Found'
<1> SUFFICES ASSUME HasMetric, NEW p \in Paths, Open(p)' PROVE <<p, loc>> \in metered'
  BY DEF Found, HandleLeave
<1>1. metered \subseteq metered'
  BY DEF HandleLeave, Meter
<1>2. Open(p)
  BY StackLeft
<1> QED
  BY <1>1, <1>2 DEF Found

-----------------------------------------------------------------------------
(* All accounts, through every step.                                       *)
Accounts ==
  /\ Prefixes /\ CutBefore /\ Times /\ Calls /\ Shares
  /\ Pending /\ Metrics /\ Doubles /\ Found

LEMMA InitAccounts == Init => Accounts
<1> SUFFICES ASSUME Init PROVE Accounts
  OBVIOUS
<1>1. /\ node_stack = <<>> /\ cut = {} /\ loc = 1 /\ Inv /\ metered = {}
      /\ tmp_metric = NoValue /\ ~paired
  BY InitInv DEF Init
<1>2. \A p : ~Open(p)
  BY <1>1 DEF Open
<1>3. Prefixes /\ CutBefore /\ Pending /\ Found
  BY <1>1, <1>2 DEF Prefixes, CutBefore, Pending, Found
<1>4. ASSUME NEW p \in Paths, NEW l \in Locs
      PROVE  /\ f_data[<<p, l>>] = [count |-> 0, incl |-> 0, excl |-> 0]
             /\ metric[<<p, l>>] = [incl |-> 0, excl |-> 0] /\ self[<<p, l>>] = 0
  BY DEF Init, Cells
<1>5. Times
  <2> SUFFICES ASSUME NEW p \in Paths, NEW l \in Locs PROVE TimesOf(p, l)
    BY DEF Times
  <2> DEFINE S == Below(p)
             f == [q \in S |-> self[<<q, l>>]]
  <2>1. \A q \in S : self[<<q, l>>] = 0
    BY <1>4 DEF Below
  <2>2. f \in [S -> Nat] /\ \A q \in S : f[q] = 0
    BY <2>1
  <2>3. Total(f) = 0
    <3> HIDE DEF f, S
    <3> QED
      BY <2>2, TotalZero
  <2>4. Spent(p, l) = 0
    BY <2>3 DEF Spent
  <2> QED
    BY <1>2, <1>4, <2>4 DEF TimesOf, OwnTime, Elapsed, OpenIn
<1>6. Calls
  <2> SUFFICES ASSUME NEW r \in Regions, NEW c \in Regions
               PROVE  callers[<<r, c>>] = Called(r, c)
    BY DEF Calls
  <2> DEFINE S == CallsOf(r, c)
             f == [cell \in S |-> CallCount(cell[1], cell[2])]
  <2>1. \A cell \in S : CallCount(cell[1], cell[2]) = 0
    BY <1>2, <1>4 DEF CallsOf, Cells, CallCount, OpenIn
  <2>2. f \in [S -> Nat] /\ \A cell \in S : f[cell] = 0
    BY <2>1
  <2>3. Total(f) = 0
    <3> HIDE DEF f, S
    <3> QED
      BY <2>2, TotalZero
  <2> QED
    BY <2>3 DEF Called, Init
<1>7. Metrics /\ Doubles
  BY <1>2, <1>4 DEF Metrics, MetricsOf, MetricIncl, MetricExcl, OpenIn, Doubles
<1>8. Shares
  <2> SUFFICES ASSUME NEW p \in Paths, NEW l \in Locs PROVE SharesOf(p, l)
    BY DEF Shares
  <2> DEFINE S == Children(p)
             f == [q \in S |-> f_data[<<q, l>>].incl]
  <2>1. f \in [S -> Nat] /\ \A q \in S : f[q] = 0
    BY <1>4 DEF Children
  <2>2. Total(f) = 0
    <3> HIDE DEF f, S
    <3> QED
      BY <2>1, TotalZero
  <2>3. ChildTimes(p, l) = 0
    BY <2>2 DEF ChildTimes
  <2> QED
    BY <1>2, <1>4, <2>3 DEF SharesOf, OpenIn
<1> QED
  BY <1>3, <1>5, <1>6, <1>7, <1>8 DEF Accounts

LEMMA CutKept ==
  ASSUME CutBefore, loc' = loc, cut' = cut
  PROVE  CutBefore'
BY DEF CutBefore

(* Steps that leave the stack and the times as they are.                   *)
LEMMA AccountsAlone ==
  ASSUME Inv, Accounts, NEW d \in Deltas, Event(d), Pending',
         UNCHANGED <<loc, node_stack, f_data, metric, metric_type, metered, callers, cut>>
  PROVE  Accounts'
<1>1. Prefixes' /\ CutBefore'
  BY DEF Accounts, Prefixes, CutBefore
<1>2. Times'
  BY TimesAlone DEF Accounts
<1>3. Calls'
  BY CallsAlone DEF Accounts
<1>4. Shares'
  BY SharesAlone DEF Accounts
<1>5. Metrics'
  BY MetricsAlone DEF Accounts
<1>6. Doubles'
  BY DEF Accounts, Doubles
<1>7. Found'
  BY StackAlone DEF Accounts, Found
<1> QED
  BY <1>1, <1>2, <1>3, <1>4, <1>5, <1>6, <1>7 DEF Accounts

LEMMA MetricAccounts ==
  ASSUME Inv, Accounts, UNCHANGED metric_type, NEW d \in Deltas, HandleMetric(d)
  PROVE  Accounts'
<1>1. clock' \in Nat /\ tmp_metric \in Nat \cup {NoValue} /\ 0 # NoValue
  BY Now DEF HandleMetric, Inv, TypeOK
<1>2. Pending'
  <2>1. Pending /\ HasMetric /\ ~paired /\ paired' /\ UNCHANGED <<node_stack, cut, metric_type>>
        /\ tmp_metric' = IF tmp_metric = NoValue THEN Recorded(clock') ELSE tmp_metric
    BY DEF HandleMetric, Accounts
  <2>2. Recorded(clock') # NoValue /\ Recorded(clock)' = Recorded(clock')
    BY <1>1, <2>1 DEF Recorded
  <2>3. metric_type = "DOUBLE" => Recorded(clock') = 0
    BY DEF Recorded
  <2>4. ~Idle \/ cut = {} => tmp_metric = NoValue
    BY <2>1 DEF Pending
  <2> QED
    BY <2>1, <2>2, <2>3, <2>4 DEF Pending, Idle
<1> QED
  BY <1>2, AccountsAlone DEF HandleMetric

LEMMA CommunicateAccounts ==
  ASSUME Inv, Accounts, UNCHANGED metric_type, NEW d \in Deltas, NEW n, Communicate(d, n)
  PROVE  Accounts'
<1>1. Pending'
  BY DEF Communicate, Accounts, Pending, Idle
<1> QED
  BY <1>1, AccountsAlone DEF Communicate

(* After an enter or a leave no metric is pending.                         *)
LEMMA MetricTaken ==
  ASSUME Pending, UNCHANGED metric_type, NEW d \in Deltas, NEW p, NEW sign \in {-1, 1},
         Paired(d), Meter(p, sign), cut' = cut
  PROVE  Pending'
<1>1. ~paired' /\ tmp_metric' = NoValue
  BY DEF Paired, Meter
<1>2. ~HasMetric => metered' = {}
  BY DEF Meter, Pending
<1> QED
  BY <1>1, <1>2 DEF Pending

LEMMA EnterAccounts ==
  ASSUME Inv, Accounts, UNCHANGED metric_type, NEW d \in Deltas, NEW region \in Regions,
         HandleEnter(d, region)
  PROVE  Accounts'
<1>1. Prefixes' /\ Times' /\ Calls' /\ Shares' /\ Metrics' /\ Found'
  BY PrefixesEntered, TimesEntered, CallsEntered, SharesEntered, MetricsEntered, FoundEntered
     DEF Accounts
<1>2. CutBefore'
  BY CutKept DEF HandleEnter, Accounts
<1>3. Pending' /\ Doubles'
  <2> DEFINE s == -1
             p == Entering(region)
  <2>1. /\ s \in {-1, 1} /\ Meter(p, s) /\ Paired(d) /\ cut' = cut /\ loc' = loc /\ Event(d)
    BY DEF HandleEnter, Entering
  <2>2. /\ p \in Paths /\ loc \in Locs
        /\ Len(p) > 1 => ParentOf(p) \in Paths /\ last_loc[ParentOf(p)] = loc
    BY <2>1, Entered, OnTop, Now
  <2> HIDE DEF s, p
  <2>3. Pending'
    BY <2>1, MetricTaken DEF Accounts
  <2>4. Doubles'
    BY <2>1, <2>2, DoublesMetered DEF Accounts
  <2> QED
    BY <2>3, <2>4
<1> QED
  BY <1>1, <1>2, <1>3 DEF Accounts

LEMMA LeaveAccounts ==
  ASSUME Inv, Accounts, UNCHANGED metric_type, NEW d \in Deltas, HandleLeave(d)
  PROVE  Accounts'
<1>1. Prefixes' /\ Times' /\ Calls' /\ Shares' /\ Metrics' /\ Found'
  BY PrefixesLeft, TimesLeft, CallsLeft, SharesLeft, MetricsLeft, FoundLeft DEF Accounts
<1>2. CutBefore'
  BY CutKept DEF HandleLeave, Accounts
<1>3. Pending' /\ Doubles'
  <2> DEFINE s == 1
             p == Top.node
  <2>1. /\ s \in {-1, 1} /\ Meter(p, s) /\ Paired(d) /\ cut' = cut /\ loc' = loc /\ Event(d)
        /\ ~Idle
    BY DEF HandleLeave
  <2>2. /\ p \in Paths /\ loc \in Locs
        /\ Len(p) > 1 => ParentOf(p) \in Paths /\ last_loc[ParentOf(p)] = loc
    BY <2>1, OnTop, Now, CallerOpen DEF Accounts
  <2> HIDE DEF s, p
  <2>3. Pending'
    BY <2>1, MetricTaken DEF Accounts
  <2>4. Doubles'
    BY <2>1, <2>2, DoublesMetered DEF Accounts
  <2> QED
    BY <2>3, <2>4
<1> QED
  BY <1>1, <1>2, <1>3 DEF Accounts

(* A location that ends with no region open has settled its accounts; one  *)
(* that does not is cut.                                                   *)
LEMMA LocationAccounts ==
  ASSUME Inv, Accounts, UNCHANGED metric_type, NextLocation
  PROVE  Accounts'
<1>1. /\ loc \in Locs /\ loc' = loc + 1 /\ node_stack' = <<>> /\ ~paired'
      /\ cut' = IF Idle /\ ~paired THEN cut ELSE cut \cup {loc}
      /\ UNCHANGED <<f_data, metric, metered, callers, tmp_metric, clock, self>>
      /\ cut \subseteq cut'
  BY DEF NextLocation
<1>2. \A p : ~Open(p)'
  BY <1>1 DEF Open
<1>3. ASSUME NEW l \in Locs, l \notin cut', NEW p \in Paths
      PROVE  ~OpenIn(p, l) /\ ~OpenIn(p, l)'
  <2>1. CASE l = loc
    <3>1. Idle
      <4>1. ~(loc < loc)
        BY <1>1
      <4>2. ~(loc \in cut')
        BY <1>3, <2>1, <4>1
      <4> QED
        BY <1>1, <4>2
    <3> QED
      BY <1>2, <3>1, OpenTypes DEF OpenIn
  <2>2. CASE l # loc
    BY <1>2, <2>2 DEF OpenIn
  <2> QED
    BY <2>1, <2>2
<1>4. Prefixes'
  BY <1>1 DEF Prefixes
<1>5. CutBefore'
  BY <1>1 DEF CutBefore, Accounts, Inv, TypeOK
<1>6. Times'
  <2> SUFFICES ASSUME NEW p \in Paths, NEW l \in Locs \ cut' PROVE TimesOf(p, l)'
    BY DEF Times
  <2>1. TimesOf(p, l)
    BY <1>1 DEF Accounts, Times
  <2>2. ~OpenIn(p, l) /\ ~OpenIn(p, l)'
    BY <1>3
  <2>3. Spent(p, l)' = Spent(p, l)
    BY <1>1 DEF Spent, Below
  <2> QED
    BY <1>1, <2>1, <2>2, <2>3 DEF TimesOf, OwnTime, Elapsed
<1>7. Calls'
  <2>1. cut' = {} => cut = {}
    BY <1>1
  <2>2. cut' = {} => \A p \in Paths, l \in Locs : CallCount(p, l)' = CallCount(p, l)
    BY <1>1, <1>3 DEF CallCount
  <2> QED
    BY <1>1, <2>1, <2>2, CallsSame DEF Accounts
<1>8. Pending'
  <2>1. cut' = {} => Idle /\ ~paired /\ cut = {}
    BY <1>1
  <2> QED
    BY <1>1, <2>1 DEF Pending, Accounts, Idle
<1>9. Metrics'
  <2> SUFFICES ASSUME HasMetric, metric_type # "DOUBLE", NEW p \in Paths, NEW l \in Locs \ cut'
               PROVE  MetricsOf(p, l)'
    BY DEF Metrics
  <2>1. MetricsOf(p, l)
    BY <1>1 DEF Accounts, Metrics
  <2>2. ~OpenIn(p, l) /\ ~OpenIn(p, l)'
    BY <1>3
  <2>3. MetricIncl(p, l)' = MetricIncl(p, l) /\ MetricExcl(p, l)' = MetricExcl(p, l)
    BY <1>1, <2>2 DEF MetricIncl, MetricExcl
  <2>4. Exact(p, l)' => Exact(p, l)
    BY <1>1 DEF Exact
  <2> QED
    BY <1>1, <2>1, <2>3, <2>4 DEF MetricsOf
<1>10. Shares'
  <2> SUFFICES ASSUME NEW p \in Paths, NEW l \in Locs \ cut' PROVE SharesOf(p, l)'
    BY DEF Shares
  <2>1. SharesOf(p, l)
    BY <1>1 DEF Accounts, Shares
  <2>2. ~OpenIn(p, l) /\ ~OpenIn(p, l)'
    BY <1>3
  <2>3. ChildTimes(p, l)' = ChildTimes(p, l)
    BY <1>1 DEF ChildTimes, Children
  <2> QED
    BY <1>1, <2>1, <2>2, <2>3 DEF SharesOf
<1>11. Doubles' /\ Found'
  BY <1>1, <1>2 DEF Accounts, Doubles, Found
<1> QED
  BY <1>4, <1>5, <1>6, <1>7, <1>8, <1>9, <1>10, <1>11 DEF Accounts

LEMMA Balanced == Spec => [](Inv /\ Accounts)
<1>1. Init => Accounts
  BY InitAccounts
<1>2. Inv /\ Inv' /\ Accounts /\ [Next]_vars => Accounts'
  <2> SUFFICES ASSUME Inv, Accounts, [Next]_vars
               PROVE  Accounts'
    OBVIOUS
  <2>0. UNCHANGED metric_type
    BY DEF Next, vars
  <2>1. ASSUME NEW d \in Deltas, HandleMetric(d) PROVE Accounts'
    BY <2>0, <2>1, MetricAccounts
  <2>2. ASSUME NEW d \in Deltas, HandleLeave(d) PROVE Accounts'
    BY <2>0, <2>2, LeaveAccounts
  <2>3. ASSUME NEW d \in Deltas, NEW region \in Regions, HandleEnter(d, region)
        PROVE  Accounts'
    BY <2>0, <2>3, EnterAccounts
  <2>4. ASSUME NEW d \in Deltas, NEW n \in 0 .. 2, HandleMessage(d) \/ HandleCollective(d, n)
        PROVE  Accounts'
    BY <2>0, <2>4, CommunicateAccounts DEF HandleMessage, HandleCollective
  <2>5. CASE NextLocation
    BY <2>0, <2>5, LocationAccounts
  <2>6. CASE UNCHANGED vars
    <3>1. Prefixes' /\ CutBefore' /\ Pending'
      BY <2>6 DEF vars, Accounts, Prefixes, CutBefore, Pending, Idle, Recorded
    <3>2. Calls' /\ Shares'
      BY <2>6, CallsAlone, SharesAlone DEF vars, Accounts
    <3>3. Metrics' /\ Doubles' /\ Found'
      BY <2>6, MetricsAlone, StackAlone DEF vars, Accounts, Doubles, Found
    <3>4. Times'
      <4> SUFFICES ASSUME NEW p \in Paths, NEW l \in Locs \ cut' PROVE TimesOf(p, l)'
        BY DEF Times
      <4>1. TimesOf(p, l)
        BY <2>6 DEF vars, Accounts, Times
      <4>2. Spent(p, l)' = Spent(p, l)
        BY <2>6 DEF vars, Spent, Below
      <4>3. OwnTime(p, l)' = OwnTime(p, l) /\ Elapsed(p, l)' = Elapsed(p, l)
        BY <2>6 DEF vars, OwnTime, Elapsed, OpenIn, Open, Until, Start, Kids, At
      <4> QED
        BY <2>6, <4>1, <4>2, <4>3 DEF vars, TimesOf
    <3> QED
      BY <3>1, <3>2, <3>3, <3>4 DEF Accounts
  <2>7. 0 \in 0 .. 2
    OBVIOUS
  <2> QED
    BY <2>1, <2>2, <2>3, <2>4, <2>5, <2>6, <2>7 DEF Next, Done
<1> QED
  BY <1>1, <1>2, Inductive, PTL DEF Spec

(* In a settled location no call is open.                                  *)
LEMMA SettledClosed ==
  ASSUME Inv, NEW l \in Settled, NEW p \in Paths
  PROVE  l \in Locs \ cut /\ ~OpenIn(p, l)
<1>1. l \in Locs /\ l \notin cut /\ (l < loc \/ (l = loc /\ Idle))
  BY DEF Settled
<1>2. l = loc => Idle
  BY <1>1 DEF Inv, TypeOK
<1> QED
  BY <1>1, <1>2, OpenTypes DEF OpenIn

(* The exclusive time of a call path, although it is computed from the     *)
(* inclusive times of the calls made there, is the time that passed while  *)
(* it was innermost, in every location that was read to its end.           *)
THEOREM ExclusiveTimesHold == Spec => []ExclusiveTimes
<1>1. Inv /\ Accounts => ExclusiveTimes
  <2> SUFFICES ASSUME Inv, Accounts, NEW p \in Paths, NEW l \in Settled
               PROVE  f_data[<<p, l>>].excl = self[<<p, l>>]
    BY DEF ExclusiveTimes
  <2>1. l \in Locs \ cut /\ ~OpenIn(p, l)
    BY SettledClosed
  <2>2. self[<<p, l>>] = f_data[<<p, l>>].excl + 0 /\ f_data[<<p, l>>].excl \in Nat
    BY <2>1, CellTypes DEF Accounts, Times, TimesOf, OwnTime
  <2> QED
    BY <2>2
<1> QED
  BY <1>1, Balanced, PTL

(* The inclusive time of a call path is the time that passed in it and in  *)
(* the call paths below it, in every location that was read to its end.    *)
THEOREM InclusiveTimesHold == Spec => []InclusiveTimes
<1>1. Inv /\ Accounts => InclusiveTimes
  <2> SUFFICES ASSUME Inv, Accounts, NEW p \in Paths, NEW l \in Settled
               PROVE  f_data[<<p, l>>].incl = Spent(p, l)
    BY DEF InclusiveTimes, Spent
  <2>1. l \in Locs \ cut /\ ~OpenIn(p, l)
    BY SettledClosed
  <2>2. Spent(p, l) = f_data[<<p, l>>].incl + 0 /\ f_data[<<p, l>>].incl \in Nat
    BY <2>1, CellTypes DEF Accounts, Times, TimesOf, Elapsed
  <2> QED
    BY <2>2
<1> QED
  BY <1>1, Balanced, PTL

(* What the callbacks count by region and caller is what the tree counts,  *)
(* although the one is counted at the enter and the other at the leave.    *)
THEOREM CallersMatchHolds == Spec => []CallersMatch
<1>1. Inv /\ Accounts => CallersMatch
  <2> SUFFICES ASSUME Inv, Accounts, Settled = Locs, NEW r \in Regions, NEW c \in Regions
               PROVE  callers[<<r, c>>]
                        = Total([cell \in CallsOf(r, c) |-> f_data[cell].count])
    BY DEF CallersMatch
  <2> DEFINE S == CallsOf(r, c)
  <2>1. cut = {}
    BY DEF Settled, Inv, TypeOK
  <2>2. ASSUME NEW cell \in S
        PROVE  CallCount(cell[1], cell[2]) = f_data[cell].count
    <3>1. cell[1] \in Paths /\ cell[2] \in Settled /\ cell = <<cell[1], cell[2]>>
      BY DEF CallsOf, Cells
    <3>2. ~OpenIn(cell[1], cell[2]) /\ cell[2] \in Locs
      BY <3>1, SettledClosed
    <3>3. f_data[<<cell[1], cell[2]>>].count \in Nat
      BY <3>1, <3>2, CellTypes
    <3> QED
      BY <3>1, <3>2, <3>3 DEF CallCount
  <2>3. [cell \in S |-> CallCount(cell[1], cell[2])] = [cell \in S |-> f_data[cell].count]
    BY <2>2
  <2>4. callers[<<r, c>>] = Total([cell \in S |-> CallCount(cell[1], cell[2])])
    BY <2>1 DEF Accounts, Calls, Called
  <2> QED
    BY <2>3, <2>4
<1> QED
  BY <1>1, Balanced, PTL

(* find() of a parent's metric is never past the end: whenever a region is *)
(* open, its entry for the location being read has the metric.             *)
THEOREM MetricIsFound == Spec => []MetricFound
<1>1. Inv /\ Accounts => MetricFound
  <2> SUFFICES ASSUME Inv, Accounts, HasMetric, NEW i \in DOMAIN node_stack
               PROVE  <<node_stack[i].node, loc>> \in metered
    BY DEF MetricFound
  <2> DEFINE p == node_stack[i].node
             n == Len(node_stack)
  <2>1. node_stack \in Seq(Frames) /\ n \in Nat /\ i \in 1 .. n /\ node_stack[i] \in Frames
    BY DEF Inv, TypeOK
  <2>2. p \in Paths /\ Len(p) = n - i + 1
    BY <2>1 DEF Frames, Inv, Depth
  <2>3. At(p) = i
    <3> HIDE DEF p
    <3> QED
      BY <2>1, <2>2 DEF At
  <2>4. Open(p)
    BY <2>1, <2>3 DEF Open
  <2> QED
    BY <2>2, <2>4 DEF Accounts, Found
<1> QED
  BY <1>1, Balanced, PTL

(* In a settled location the exclusive value is the children's share of    *)
(* the time, negated, and the inclusive value below the root is the time.  *)
LEMMA SettledMetric ==
  ASSUME Inv, Accounts, NEW p \in Paths, NEW l \in Settled
  PROVE  /\ ChildTimes(p, l) + f_data[<<p, l>>].excl = f_data[<<p, l>>].incl
         /\ HasMetric /\ metric_type # "DOUBLE" =>
              /\ Exact(p, l) => metric[<<p, l>>].incl = f_data[<<p, l>>].incl
              /\ metric[<<p, l>>].excl = f_data[<<p, l>>].excl - f_data[<<p, l>>].incl
<1>1. l \in Locs \ cut /\ ~OpenIn(p, l)
  BY SettledClosed
<1>2. f_data[<<p, l>>].incl \in Nat /\ f_data[<<p, l>>].excl \in Nat /\ ChildTimes(p, l) \in Nat
  BY <1>1, CellTypes, ChildTimesType
<1>3. SharesOf(p, l) /\ (HasMetric /\ metric_type # "DOUBLE" => MetricsOf(p, l))
  BY <1>1 DEF Accounts, Shares, Metrics
<1> QED
  BY <1>1, <1>2, <1>3 DEF SharesOf, MetricsOf, MetricIncl, MetricExcl

(* Where there is no metric none of its values changes.                    *)
Unmetered ==
  ~HasMetric => \A p \in Paths, l \in Locs : metric[<<p, l>>].incl = 0 /\ metric[<<p, l>>].excl = 0

LEMMA NoMetric == Spec => []Unmetered
<1>1. Init => Unmetered
  BY DEF Init, Unmetered, Cells
<1>2. Inv /\ Accounts /\ Unmetered /\ [Next]_vars => Unmetered'
  <2> SUFFICES ASSUME Accounts, Unmetered, [Next]_vars, ~HasMetric
               PROVE  metric' = metric
    BY DEF Unmetered
  <2>1. tmp_metric = NoValue
    BY DEF Accounts, Pending
  <2>2. ASSUME NEW d \in Deltas, NEW region \in Regions, HandleEnter(d, region)
        PROVE  metric' = metric
    BY <2>1, <2>2 DEF HandleEnter, Meter
  <2>3. ASSUME NEW d \in Deltas, HandleLeave(d)
        PROVE  metric' = metric
    BY <2>1, <2>3 DEF HandleLeave, Meter
  <2> QED
    BY <2>2, <2>3 DEF Next, HandleMetric, HandleMessage, HandleCollective, Communicate,
                      NextLocation, Done, vars
<1> QED
  BY <1>1, <1>2, Balanced, PTL DEF Spec

(* The exclusive value of a metric of any type is charged with what the    *)
(* calls made there recorded as their inclusive values, exactly, through   *)
(* tmp_metric and the caller's last_data, and whatever locations that were *)
(* cut short left behind.                                                  *)
THEOREM ParentChargedHolds == Spec => []ParentCharged
<1>1. Inv /\ Accounts /\ Unmetered => ParentCharged
  <2> SUFFICES ASSUME Inv, Accounts, Unmetered, NEW p \in Paths, NEW l \in Settled
               PROVE  metric[<<p, l>>].excl
                        = -Total([q \in Children(p) |-> metric[<<q, l>>].incl])
    BY DEF ParentCharged
  <2> DEFINE S == Children(p)
             f == [q \in S |-> metric[<<q, l>>].incl]
  <2>1. l \in Locs /\ S \subseteq Paths
    BY DEF Settled, Children
  <2>2. CASE HasMetric /\ metric_type # "DOUBLE"
    <3>1. \A q \in S : metric[<<q, l>>].incl = f_data[<<q, l>>].incl
      BY <2>1, <2>2, SettledMetric DEF Exact, Children
    <3>2. Total(f) = ChildTimes(p, l)
      <4>1. f = [q \in S |-> f_data[<<q, l>>].incl]
        BY <3>1
      <4> QED
        BY <4>1 DEF ChildTimes
    <3>3. f_data[<<p, l>>].incl \in Nat /\ f_data[<<p, l>>].excl \in Nat /\ ChildTimes(p, l) \in Nat
      BY <2>1, CellTypes, ChildTimesType
    <3> HIDE DEF f
    <3>4. /\ ChildTimes(p, l) + f_data[<<p, l>>].excl = f_data[<<p, l>>].incl
          /\ metric[<<p, l>>].excl = f_data[<<p, l>>].excl - f_data[<<p, l>>].incl
      BY <2>2, SettledMetric
    <3>5. metric[<<p, l>>].excl = -Total(f)
      BY <3>2, <3>3, <3>4
    <3> QED
      BY <3>5 DEF f
  <2>3. CASE ~HasMetric \/ metric_type = "DOUBLE"
    <3>1. \A q \in Paths : metric[<<q, l>>].incl = 0 /\ metric[<<q, l>>].excl = 0
      BY <2>1, <2>3 DEF Accounts, Doubles, Unmetered
    <3>2. f \in [S -> Nat] /\ \A q \in S : f[q] = 0
      BY <2>1, <3>1
    <3>3. Total(f) = 0
      <4> HIDE DEF f, S
      <4> QED
        BY <3>2, TotalZero
    <3> QED
      BY <3>1, <3>3
  <2> QED
    BY <2>2, <2>3
<1> QED
  BY <1>1, Balanced, NoMetric, PTL

(* The inclusive value of an integer metric is what it grew by in the call *)
(* path, although it is only passed on in tmp_metric; what a location cut  *)
(* short leaves there damages the outermost calls of later ones at most.   *)
THEOREM MetricGrowthHolds == Spec => []MetricGrowth
<1>1. Inv /\ Accounts => MetricGrowth
  <2> SUFFICES ASSUME Inv, Accounts, metric_type # "DOUBLE", NEW c \in metered,
                      c[2] \in Settled, Len(c[1]) > 1 \/ \A k \in cut : c[2] < k
               PROVE  metric[c].incl = f_data[c].incl
    BY DEF MetricGrowth
  <2> DEFINE p == c[1]
             l == c[2]
  <2>1. p \in Paths /\ l \in Settled /\ c = <<p, l>>
    BY DEF Inv, TypeOK, Cells
  <2>2. HasMetric
    BY DEF Accounts, Pending
  <2>3. Exact(p, l)
    BY DEF Exact
  <2> HIDE DEF p, l
  <2> QED
    BY <2>1, <2>2, <2>3, SettledMetric
<1> QED
  BY <1>1, Balanced, PTL
=============================================================================
