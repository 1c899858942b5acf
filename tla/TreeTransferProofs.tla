------------------------- MODULE TreeTransferProofs -------------------------
(***************************************************************************)
(* TreeTransfer for any trees, any number of senders and any data: what    *)
(* arrives is what was sent, a merge is a union of well-linked trees, what *)
(* is packed fits, and the iterator comes to every node once.              *)
(***************************************************************************)
EXTENDS TreeTransfer, FiniteSetTheorems, SequenceTheorems, WellFoundedInduction, TLAPS

Paths == Seq(Functions) \ {<<>>}

-----------------------------------------------------------------------------
(* Call paths.                                                             *)
LEMMA LeastNumber ==
  ASSUME NEW S, S \subseteq Nat, S # {} PROVE \E x \in S : \A y \in S : x <= y
<1> DEFINE less == {ss \in Nat \X Nat : ss[1] < ss[2]}
<1>1. IsWellFoundedOn(less, Nat)
  BY NatLessThanWellFounded DEF OpToRel
<1>2. \A x, y \in Nat : y < x => <<y, x>> \in less
  OBVIOUS
<1> HIDE DEF less
<1>3. \E x \in S : \A y \in S : ~(<<y, x>> \in less)
  BY <1>1, WFMin
<1>4. ASSUME NEW x \in S, \A y \in S : ~(<<y, x>> \in less), NEW y \in S PROVE x <= y
  <2>1. x \in Nat /\ y \in Nat
    OBVIOUS
  <2>2. ~(y < x)
    BY <1>2, <1>4, <2>1, Zenon
  <2> QED
    BY <2>1, <2>2
<1> QED
  BY <1>3, <1>4

(* Of some call paths one is a shortest.                                   *)
LEMMA Shortest ==
  ASSUME NEW S, S \subseteq Paths, S # {}
  PROVE  \E p \in S : \A q \in S : Len(p) <= Len(q)
<1> DEFINE N == {Len(p) : p \in S}
<1>1. N \subseteq Nat /\ N # {}
  BY DEF Paths
<1> HIDE DEF N
<1>2. PICK n \in N : \A m \in N : n <= m
  BY <1>1, LeastNumber
<1> QED
  BY <1>2 DEF N

LEMMA PathParts ==
  ASSUME NEW p \in Paths
  PROVE  /\ Front(p) \in Seq(Functions) /\ Len(Front(p)) = Len(p) - 1
         /\ Last(p) \in Functions /\ Last(p) = p[Len(p)]
         /\ p = Append(Front(p), Last(p))
         /\ Len(p) \in Nat /\ Len(p) >= 1
         /\ Len(p) = 1 <=> Front(p) = <<>>
         /\ Len(p) > 1 <=> Front(p) \in Paths
         /\ \A j \in 1 .. Len(p) - 1 : Front(p)[j] = p[j]
<1>1. p \in Seq(Functions) /\ p # <<>> /\ Len(p) \in Nat /\ Len(p) >= 1
  BY EmptySeq DEF Paths
<1>2. /\ Front(p) \in Seq(Functions) /\ Len(Front(p)) = Len(p) - 1
      /\ \A j \in 1 .. Len(p) - 1 : Front(p)[j] = p[j]
  <2> DEFINE n == Len(p) - 1
  <2>1. 1 \in Int /\ n \in Int /\ \A i \in 1 .. n : p[i] \in Functions
    BY <1>1
  <2>2. n - 1 + 1 = n /\ \A j \in 1 .. n : 1 + j - 1 = j
    BY <1>1
  <2> HIDE DEF n
  <2>3. /\ SubSeq(p, 1, n) \in Seq(Functions)
        /\ Len(SubSeq(p, 1, n)) = IF 1 <= n THEN n - 1 + 1 ELSE 0
        /\ \A j \in 1 .. n - 1 + 1 : SubSeq(p, 1, n)[j] = p[1 + j - 1]
    BY <2>1, SubSeqProperties
  <2> QED
    BY <1>1, <2>2, <2>3 DEF Front, n
<1>3. Last(p) \in Functions /\ Last(p) = p[Len(p)]
  BY <1>1 DEF Last
<1>4. p = Append(Front(p), Last(p))
  <2> DEFINE q == Append(Front(p), Last(p))
  <2>1. /\ q \in Seq(Functions) /\ Len(q) = Len(p)
        /\ \A i \in 1 .. Len(p) - 1 : q[i] = Front(p)[i]
        /\ q[Len(p)] = Last(p)
    BY <1>1, <1>2, <1>3, AppendProperties
  <2>2. \A i \in 1 .. Len(p) : p[i] = q[i]
    BY <1>1, <1>2, <1>3, <2>1
  <2> QED
    BY <1>1, <2>1, <2>2, SeqEqual
<1>5. Len(Front(p)) = 0 <=> Front(p) = <<>>
  BY <1>2, EmptySeq
<1> QED
  BY <1>1, <1>2, <1>3, <1>4, <1>5 DEF Paths

LEMMA Extended ==
  ASSUME NEW p \in Seq(Functions), NEW f \in Functions
  PROVE  /\ Append(p, f) \in Paths /\ Len(Append(p, f)) = Len(p) + 1
         /\ Front(Append(p, f)) = p /\ Last(Append(p, f)) = f
<1> DEFINE q == Append(p, f)
<1>1. /\ q \in Paths /\ Len(q) = Len(p) + 1 /\ q[Len(p) + 1] = f
      /\ Len(p) \in Nat
  BY AppendProperties, LenProperties DEF Paths
<1>2. Last(q) = f
  BY <1>1 DEF Last
<1>3. Front(q) = p
  <2>1. Front(q) \in Seq(Functions) /\ Append(Front(q), f) = Append(p, f)
    BY <1>1, <1>2, PathParts
  <2> QED
    BY <2>1, AppendInjective
<1> QED
  BY <1>1, <1>2, <1>3

(* What is right below p: the call paths whose caller is p.                *)
LEMMA UnderIs ==
  ASSUME NEW T \in SUBSET Paths, NEW p \in Seq(Functions)
  PROVE  Under(T, p) = {q \in T : Front(q) = p}
BY PathParts DEF Under

(* The first i calls of a path.                                            *)
LEMMA Initial ==
  ASSUME NEW p \in Paths, NEW i \in 1 .. Len(p)
  PROVE  /\ SubSeq(p, 1, i) \in Paths /\ Len(SubSeq(p, 1, i)) = i
         /\ \A j \in 1 .. i : SubSeq(p, 1, i)[j] = p[j]
<1>1. Len(p) \in Nat /\ \A j \in 1 .. i : p[j] \in Functions
  BY DEF Paths
<1>2. /\ SubSeq(p, 1, i) \in Seq(Functions) /\ Len(SubSeq(p, 1, i)) = i
      /\ \A j \in 1 .. i - 1 + 1 : SubSeq(p, 1, i)[j] = p[1 + j - 1]
  BY <1>1, SubSeqProperties
<1>3. SubSeq(p, 1, i) # <<>>
  BY <1>2, EmptySeq
<1>4. \A j \in 1 .. i : SubSeq(p, 1, i)[j] = p[j]
  BY <1>2
<1> QED
  BY <1>2, <1>3, <1>4 DEF Paths

LEMMA InitialParts ==
  ASSUME NEW p \in Paths
  PROVE  /\ SubSeq(p, 1, Len(p)) = p
         /\ \A i \in 1 .. Len(p) - 1 :
              /\ SubSeq(p, 1, i + 1) = Append(SubSeq(p, 1, i), p[i + 1])
              /\ SubSeq(Front(p), 1, i) = SubSeq(p, 1, i)
<1>1. Len(p) \in Nat /\ Len(p) >= 1
  BY PathParts
<1>2. SubSeq(p, 1, Len(p)) = p
  BY SubSeqFull DEF Paths
<1>3. ASSUME NEW i \in 1 .. Len(p) - 1
      PROVE  /\ SubSeq(p, 1, i + 1) = Append(SubSeq(p, 1, i), p[i + 1])
             /\ SubSeq(Front(p), 1, i) = SubSeq(p, 1, i)
  <2> DEFINE s == SubSeq(p, 1, i)
             t == SubSeq(p, 1, i + 1)
  <2>0. i \in 1 .. Len(p) /\ i + 1 \in 1 .. Len(p) /\ p[i + 1] \in Functions
    BY <1>1 DEF Paths
  <2>1. s \in Paths /\ Len(s) = i /\ \A j \in 1 .. i : s[j] = p[j]
    BY <2>0, Initial
  <2>2. t \in Paths /\ Len(t) = i + 1 /\ \A j \in 1 .. i + 1 : t[j] = p[j]
    BY <2>0, Initial
  <2>3. /\ Append(s, p[i + 1]) \in Seq(Functions) /\ Len(Append(s, p[i + 1])) = i + 1
        /\ \A j \in 1 .. i : Append(s, p[i + 1])[j] = s[j]
        /\ Append(s, p[i + 1])[i + 1] = p[i + 1]
    BY <2>0, <2>1, AppendProperties DEF Paths
  <2>4. \A j \in 1 .. i + 1 : t[j] = Append(s, p[i + 1])[j]
    BY <2>1, <2>2, <2>3
  <2>5. t = Append(s, p[i + 1])
    BY <2>2, <2>3, <2>4, SeqEqual DEF Paths
  <2>6. /\ Front(p) \in Paths /\ Len(Front(p)) = Len(p) - 1
        /\ \A j \in 1 .. Len(p) - 1 : Front(p)[j] = p[j]
    BY <1>1, PathParts
  <2> DEFINE u == SubSeq(Front(p), 1, i)
  <2>7. u \in Paths /\ Len(u) = i /\ \A j \in 1 .. i : u[j] = Front(p)[j]
    BY <2>6, Initial
  <2>8. \A j \in 1 .. i : u[j] = s[j]
    BY <2>1, <2>6, <2>7
  <2>9. u = s
    BY <2>1, <2>7, <2>8, SeqEqual DEF Paths
  <2> QED
    BY <2>5, <2>9
<1> QED
  BY <1>2, <1>3

-----------------------------------------------------------------------------
(* Trees of objects.  L is the set of objects of a tree with these roots:  *)
(* it holds all their children, named after them, and nothing else.        *)
AllObjects == ({0} \cup Senders) \X Paths

Forest(L, from, C) ==
  /\ from \subseteq L
  /\ \A o \in from : Len(o[2]) = 1
  /\ \A o \in L : /\ C[o] \subseteq L
                  /\ \A c \in C[o] : c[2] = Append(o[2], Function(c))
                  /\ o \in from \/ \E q \in L : o \in C[q]

(* k names the objects on a way from a root to o.                          *)
Chain(k, o, from, O, C) ==
  LET on(i) == <<k[i], SubSeq(o[2], 1, i)>>
  IN  /\ on(1) \in from /\ k[Len(o[2])] = o[1]
      /\ \A i \in 1 .. Len(o[2]) - 1 : on(i) \in O /\ on(i + 1) \in C[on(i)]
Reached(from, O, C) ==
  {o \in O : \E k \in [1 .. Len(o[2]) -> {0} \cup Senders] : Chain(k, o, from, O, C)}

LEMMA ReachIs == \A from : Reach(from) = Reached(from, Objects, children)
BY DEF Reach, Reached, Chain

LEMMA ForestParts ==
  ASSUME NEW L \in SUBSET AllObjects, NEW from, NEW C, Forest(L, from, C), NEW o \in L
  PROVE  /\ o[2] \in Paths /\ o[1] \in {0} \cup Senders
         /\ \A c \in C[o] : /\ c \in L /\ c[2] \in Paths /\ Front(c[2]) = o[2]
                            /\ Len(c[2]) = Len(o[2]) + 1
         /\ Len(o[2]) = 1 <=> o \in from
         /\ o \notin from => \E q \in L : o \in C[q] /\ q[2] = Front(o[2])
<1>1. ASSUME NEW q \in L
      PROVE  /\ q[2] \in Paths /\ q[1] \in {0} \cup Senders
             /\ Len(q[2]) \in Nat /\ Len(q[2]) >= 1
             /\ \A c \in C[q] : /\ c \in L /\ c[2] \in Paths /\ Front(c[2]) = q[2]
                                /\ Len(c[2]) = Len(q[2]) + 1
  <2>1. q[2] \in Paths /\ q[1] \in {0} \cup Senders
    BY DEF AllObjects
  <2>2. Len(q[2]) \in Nat /\ Len(q[2]) >= 1
    BY <2>1, PathParts
  <2>3. ASSUME NEW c \in C[q]
        PROVE  /\ c \in L /\ c[2] \in Paths /\ Front(c[2]) = q[2]
               /\ Len(c[2]) = Len(q[2]) + 1
    <3>1. c \in L /\ c[2] = Append(q[2], Function(c))
      BY DEF Forest
    <3>2. c[2] \in Paths
      BY <3>1 DEF AllObjects
    <3>3. Function(c) \in Functions
      BY <3>2, PathParts DEF Function
    <3> QED
      BY <2>1, <3>1, <3>2, <3>3, Extended DEF Paths
  <2> QED
    BY <2>1, <2>2, <2>3
<1>2. o \in from => Len(o[2]) = 1
  BY DEF Forest
<1>3. o \notin from => \E q \in L : o \in C[q]
  BY DEF Forest
<1>4. o \notin from => \E q \in L : o \in C[q] /\ q[2] = Front(o[2]) /\ Len(o[2]) > 1
  BY <1>1, <1>3
<1>5. Len(o[2]) = 1 <=> o \in from
  <2>1. Len(o[2]) \in Nat
    BY <1>1
  <2>2. \A n \in Nat : n > 1 => n # 1
    OBVIOUS
  <2> QED
    BY <1>2, <1>4, <2>1, <2>2, Zenon
<1>6. /\ o[2] \in Paths /\ o[1] \in {0} \cup Senders
      /\ \A c \in C[o] : /\ c \in L /\ c[2] \in Paths /\ Front(c[2]) = o[2]
                         /\ Len(c[2]) = Len(o[2]) + 1
  BY <1>1, Zenon
<1> QED
  BY <1>4, <1>5, <1>6

LEMMA ChainEnds ==
  ASSUME NEW o \in AllObjects, NEW k, k[Len(o[2])] = o[1]
  PROVE  <<k[Len(o[2])], SubSeq(o[2], 1, Len(o[2]))>> = o
BY InitialParts DEF AllObjects

(* A way from a root does not leave the tree.                              *)
LEMMA ChainIn ==
  ASSUME NEW O \in SUBSET AllObjects, NEW L \in SUBSET O, NEW from, NEW C, Forest(L, from, C),
         NEW o \in O, NEW k, Chain(k, o, from, O, C)
  PROVE  o \in L /\ \A i \in 1 .. Len(o[2]) : <<k[i], SubSeq(o[2], 1, i)>> \in L
<1> DEFINE n == Len(o[2])
           on(i) == <<k[i], SubSeq(o[2], 1, i)>>
           Out == {i \in 1 .. n : on(i) \notin L}
<1>1. o[2] \in Paths /\ n \in Nat /\ n >= 1
  BY PathParts DEF AllObjects
<1>2. /\ on(1) \in from /\ k[n] = o[1]
      /\ \A i \in 1 .. n - 1 : on(i) \in O /\ on(i + 1) \in C[on(i)]
  BY DEF Chain
<1>3. from \subseteq L /\ \A q \in L : C[q] \subseteq L
  BY DEF Forest
<1>4. on(n) = o
  BY <1>2, ChainEnds
<1> HIDE DEF n, on
<1>5. Out = {}
  <2> SUFFICES ASSUME Out # {} PROVE FALSE
    OBVIOUS
  <2>1. Out \subseteq Nat
    OBVIOUS
  <2>2. PICK m \in Out : \A i \in Out : m <= i
    BY <2>1, LeastNumber
  <2>3. m \in 1 .. n /\ on(m) \notin L
    OBVIOUS
  <2>4. m # 1
    BY <1>2, <1>3, <2>3
  <2>5. m - 1 \in 1 .. n - 1 /\ m - 1 \in 1 .. n /\ (m - 1) + 1 = m
    BY <1>1, <2>3, <2>4
  <2>6. on(m - 1) \in L
    BY <2>2, <2>5
  <2>7. on(m) \in C[on(m - 1)]
    BY <1>2, <2>5
  <2> QED
    BY <1>3, <2>3, <2>6, <2>7
<1>6. o \in L
  BY <1>1, <1>4, <1>5
<1> QED
  BY <1>5, <1>6 DEF on, n

LEMMA ReachedIs ==
  ASSUME NEW O \in SUBSET AllObjects, NEW L \in SUBSET O, NEW from, NEW C, Forest(L, from, C)
  PROVE  Reached(from, O, C) = L
<1>0. \A o \in L :
        /\ o[2] \in Paths /\ o[1] \in {0} \cup Senders
        /\ Len(o[2]) = 1 <=> o \in from
        /\ o \notin from => \E q \in L : o \in C[q] /\ q[2] = Front(o[2])
  <2>1. L \in SUBSET AllObjects
    OBVIOUS
  <2>2. \A o \in L :
         /\ o[2] \in Paths /\ o[1] \in {0} \cup Senders
         /\ \A c \in C[o] : /\ c \in L /\ c[2] \in Paths /\ Front(c[2]) = o[2]
                            /\ Len(c[2]) = Len(o[2]) + 1
         /\ Len(o[2]) = 1 <=> o \in from
         /\ o \notin from => \E q \in L : o \in C[q] /\ q[2] = Front(o[2])
    BY <2>1, ForestParts
  <2> QED
    BY <2>2
<1> DEFINE R == Reached(from, O, C)
<1>1. R \subseteq L
  BY ChainIn DEF Reached
<1>2. L \subseteq R
  <2> DEFINE Missing == {o[2] : o \in L \ R}
  <2> SUFFICES ASSUME Missing # {} PROVE FALSE
    OBVIOUS
  <2>1. Missing \subseteq Paths
    BY DEF AllObjects
  <2>2. PICK p \in Missing : \A q \in Missing : Len(p) <= Len(q)
    BY <2>1, Shortest
  <2>3. PICK o \in L \ R : o[2] = p
    OBVIOUS
  <2> DEFINE n == Len(o[2])
             on(k, i) == <<k[i], SubSeq(o[2], 1, i)>>
  <2>4. /\ o[2] \in Paths /\ o[1] \in {0} \cup Senders
        /\ n = 1 <=> o \in from
        /\ o \notin from => \E q \in L : o \in C[q] /\ q[2] = Front(o[2])
    BY <1>0
  <2>5. n \in Nat /\ n >= 1
    BY <2>4, PathParts
  <2>6. n # 1
    <3> SUFFICES ASSUME n = 1 PROVE FALSE
      OBVIOUS
    <3> DEFINE k == [i \in 1 .. n |-> o[1]]
    <3>1. k \in [1 .. n -> {0} \cup Senders] /\ k[n] = o[1]
      BY <2>4, <2>5
    <3>2. on(k, 1) = o
      BY <2>4, <3>1, ChainEnds
    <3>3. 1 .. n - 1 = {}
      BY <2>5
    <3>4. Chain(k, o, from, O, C)
      BY <2>4, <3>1, <3>2, <3>3 DEF Chain
    <3> QED
      BY <3>1, <3>4 DEF Reached
  <2>7. PICK q \in L : o \in C[q] /\ q[2] = Front(o[2])
    BY <2>4, <2>6
  <2>8. q[2] \in Paths /\ Len(q[2]) = n - 1 /\ q = <<q[1], q[2]>>
    BY <2>4, <2>6, <2>5, <2>7, PathParts DEF AllObjects
  <2>9. q \in R
    <3> SUFFICES ASSUME q \notin R PROVE FALSE
      OBVIOUS
    <3>1. q[2] \in Missing
      OBVIOUS
    <3>2. Len(p) <= Len(q[2])
      BY <2>2, <3>1
    <3> QED
      BY <2>3, <2>5, <2>8, <3>2
  <2>10. PICK k \in [1 .. Len(q[2]) -> {0} \cup Senders] : Chain(k, q, from, O, C)
    BY <2>9 DEF Reached
  <2> DEFINE m == [i \in 1 .. n |-> IF i = n THEN o[1] ELSE k[i]]
             before(i) == <<k[i], SubSeq(q[2], 1, i)>>
  <2>11. m \in [1 .. n -> {0} \cup Senders] /\ m[n] = o[1]
    BY <2>4, <2>5, <2>8
  <2>12. \A i \in 1 .. n - 1 : on(m, i) = before(i)
    BY <2>4, <2>5, <2>7, InitialParts
  <2>13. on(m, n) = o
    BY <2>4, <2>11, ChainEnds
  <2>14. /\ before(1) \in from /\ k[n - 1] = q[1] /\ before(n - 1) = q
         /\ \A i \in 1 .. n - 2 : before(i) \in O /\ before(i + 1) \in C[before(i)]
    <3>1. before(Len(q[2])) = q
      BY <2>10, ChainEnds DEF Chain
    <3>2. Len(q[2]) = n - 1 /\ Len(q[2]) - 1 = n - 2
      BY <2>5, <2>8
    <3>3. /\ before(1) \in from /\ k[Len(q[2])] = q[1]
          /\ \A i \in 1 .. Len(q[2]) - 1 : before(i) \in O /\ before(i + 1) \in C[before(i)]
      BY <2>10 DEF Chain
    <3> QED
      BY <3>1, <3>2, <3>3
  <2> HIDE DEF m, on, before, n
  <2>15. on(m, 1) \in from
    BY <2>5, <2>6, <2>12, <2>14
  <2>16. ASSUME NEW i \in 1 .. n - 1 PROVE on(m, i) \in O /\ on(m, i + 1) \in C[on(m, i)]
    <3>1. CASE i = n - 1
      <4>1. on(m, i) = q /\ i + 1 = n
        BY <2>5, <2>12, <2>14, <3>1
      <4> QED
        BY <2>7, <2>13, <4>1
    <3>2. CASE i # n - 1
      <4>1. i \in 1 .. n - 2 /\ i + 1 \in 1 .. n - 1
        BY <2>5, <3>2
      <4> QED
        BY <2>12, <2>14, <4>1
    <3> QED
      BY <3>1, <3>2
  <2>17. Chain(m, o, from, O, C)
    BY <2>11, <2>15, <2>16 DEF Chain, n, on
  <2>18. o \in R
    BY <2>11, <2>17 DEF Reached, n
  <2> QED
    BY <2>18
<1> QED
  BY <1>1, <1>2

(* On the way to an object of the tree is one for each prefix of its path. *)
LEMMA Ancestor ==
  ASSUME NEW L \in SUBSET AllObjects, NEW from, NEW C, Forest(L, from, C),
         NEW o \in L, NEW i \in 1 .. Len(o[2])
  PROVE  \E a \in L : a[2] = SubSeq(o[2], 1, i)
<1>1. o \in Reached(from, L, C)
  BY ReachedIs
<1>2. PICK k : Chain(k, o, from, L, C)
  BY <1>1 DEF Reached
<1>3. <<k[i], SubSeq(o[2], 1, i)>> \in L
  BY <1>2, ChainIn
<1> QED
  BY <1>3

-----------------------------------------------------------------------------
(* The invariant of numbering.  order is the sequence in which the call    *)
(* paths of tree T, of sender k, get their numbers; map is the mapping and *)
(* data the f_data that come of it.                                        *)
Mappings == Seq([function : Functions, parent : Int])

ParentNumbered(order, map, i) ==
  IF Len(order[i]) = 1 THEN map[i].parent = NoParent
  ELSE map[i].parent + 1 \in 1 .. i - 1 /\ order[map[i].parent + 1] = Front(order[i])

PathData(k, p, id) == {[id |-> id, location |-> l] : l \in LocationsOf[k][p]}
DataOf(order, k, i) == PathData(k, order[i], i - 1)

Numbering(order, T, k, map, data) ==
  /\ order \in Seq(T) /\ map \in Mappings /\ Len(order) = Len(map)
  /\ \A i, j \in 1 .. Len(order) : order[i] = order[j] => i = j
  /\ \A i \in 1 .. Len(order) :
       map[i].function = Last(order[i]) /\ ParentNumbered(order, map, i)
  /\ data = UNION {DataOf(order, k, i) : i \in 1 .. Len(order)}

Calls(N, lists) == [node : N, left : lists]
Has(order, p) == \E i \in 1 .. Len(order) : order[i] = p

(* What is not numbered yet is on the list of an open call, or below a     *)
(* node that is not numbered either.                                       *)
OpenCalls(order, T, calls, stack) ==
  /\ calls \in Seq(Calls(Seq(Functions), SUBSET T))
  /\ stack \in Seq(Int) /\ Len(calls) = Len(stack) + 1
  /\ calls[1].node = <<>>
  /\ \A i \in 1 .. Len(calls) : Len(calls[i].node) = i - 1
  /\ \A i \in 1 .. Len(calls) : \A p \in calls[i].left :
       Front(p) = calls[i].node /\ ~Has(order, p)
  /\ \A i \in 1 .. Len(stack) :
       /\ calls[i + 1].node \in T
       /\ stack[i] + 1 \in 1 .. Len(order)
       /\ order[stack[i] + 1] = calls[i + 1].node
  /\ \A p \in T : ~Has(order, p) =>
       \/ Front(p) \in T /\ ~Has(order, Front(p))
       \/ \E i \in 1 .. Len(calls) : calls[i].node = Front(p) /\ p \in calls[i].left

Numbered(order, T, k, map, data) ==
  Numbering(order, T, k, map, data) /\ \A p \in T : Has(order, p)
OrderOf(T, k, map, data) == CHOOSE order : Numbered(order, T, k, map, data)
Order == OrderOf(tree, sender, mapping, f_data)

Serial ==
  /\ pc \in Labels /\ sender \in Senders /\ tree \in SentTrees[sender]
  /\ pc = "serialize" =>
       \E order : Numbering(order, tree, sender, mapping, f_data) /\ OpenCalls(order, tree, frames, node_stack)
  /\ pc # "serialize" => Numbered(Order, tree, sender, mapping, f_data)

LEMMA TreeFacts ==
  ASSUME NEW k \in Senders, NEW T \in SentTrees[k]
  PROVE  /\ T \subseteq Paths
         /\ \A p \in T : Len(p) > 1 => Front(p) \in T
         /\ \A p \in T : IsFiniteSet(LocationsOf[k][p])
<1>1. T \in SUBSET Seq(Functions)
  <2>1. SentTrees[k] \in SUBSET SUBSET Seq(Functions)
    BY TransferAssumption, LenProperties DEF Senders
  <2> QED
    BY <2>1
<1>2. Closed(T) /\ <<>> \notin T /\ \A p \in T : IsFiniteSet(LocationsOf[k][p])
  BY TransferAssumption
<1> QED
  BY <1>1, <1>2 DEF Closed, Paths

LEMMA SenderFacts ==
  /\ 1 \in Senders
  /\ \A k \in Senders : k \in Nat /\ k >= 1
BY TransferAssumption, LenProperties, EmptySeq DEF Senders

LEMMA SerialStart ==
  ASSUME NEW k \in Senders, NEW T \in SentTrees[k]
  PROVE  Numbering(<<>>, T, k, <<>>, {}) /\ OpenCalls(<<>>, T, SerializeData(T), <<>>)
<1>2. T \subseteq Paths /\ \A p \in T : Len(p) > 1 => Front(p) \in T
  BY TreeFacts
<1>3. Numbering(<<>>, T, k, <<>>, {})
  <2>1. <<>> \in Seq(T) /\ <<>> \in Mappings /\ Len(<<>>) = 0
    BY EmptySeq DEF Mappings
  <2> QED
    BY <2>1 DEF Numbering
<1>4. OpenCalls(<<>>, T, SerializeData(T), <<>>)
  <2> DEFINE calls == SerializeData(T)
  <2>1. Under(T, <<>>) = {p \in T : Front(p) = <<>>}
    BY <1>2, UnderIs, EmptySeq
  <2>2. /\ calls \in Seq(Calls(Seq(Functions), SUBSET T)) /\ Len(calls) = 1
        /\ calls[1].node = <<>> /\ calls[1].left = Under(T, <<>>)
        /\ <<>> \in Seq(Int) /\ Len(<<>>) = 0
    BY <2>1, EmptySeq DEF Calls, SerializeData, Call
  <2>3. \A p : ~Has(<<>>, p)
    BY <2>2 DEF Has
  <2>4. \A p \in T : Front(p) \in T \/ Front(p) = <<>>
    BY <1>2, PathParts
  <2> HIDE DEF calls
  <2>5. OpenCalls(<<>>, T, calls, <<>>)
    BY <2>1, <2>2, <2>3, <2>4 DEF OpenCalls
  <2> QED
    BY <2>5 DEF calls
<1> QED
  BY <1>3, <1>4

LEMMA SerialInit == Init => Serial
<1> SUFFICES ASSUME Init PROVE Serial
  OBVIOUS
<1>1. /\ pc = "serialize" /\ sender = 1 /\ tree \in SentTrees[1]
      /\ frames = SerializeData(tree)
      /\ node_stack = <<>> /\ mapping = <<>> /\ f_data = {}
  BY DEF Init
<1>2. sender \in Senders
  BY <1>1, SenderFacts
<1>3. Numbering(<<>>, tree, 1, <<>>, {}) /\ OpenCalls(<<>>, tree, SerializeData(tree), <<>>)
  BY <1>1, SenderFacts, SerialStart
<1> QED
  BY <1>1, <1>2, <1>3 DEF Serial, Labels

LEMMA FunctionNumbers == Functions \subseteq Nat
BY TransferAssumption

LEMMA PathFirstIn ==
  ASSUME NEW S \in SUBSET Paths, S # {} PROVE PathFirst(S) \in S
<1> DEFINE N == {Last(p) : p \in S}
<1>1. N \subseteq Nat /\ N # {}
  <2>1. \A p \in S : Last(p) \in Functions
    BY PathParts
  <2> QED
    BY <2>1, FunctionNumbers
<1> HIDE DEF N
<1>2. PICK n \in N : \A m \in N : n <= m
  BY <1>1, LeastNumber
<1>3. \E p \in S : \A q \in S : Last(p) <= Last(q)
  BY <1>2 DEF N
<1> QED
  BY <1>3 DEF PathFirst

(* A call is taken off the list of the innermost open one.                 *)
Less(calls, p) == [calls EXCEPT ![Len(calls)].left = @ \ {p}]

LEMMA TakenOff ==
  ASSUME NEW A, NEW B, NEW calls \in Seq(Calls(A, B)), Len(calls) >= 1,
         NEW p, calls[Len(calls)].left \ {p} \in B
  PROVE  /\ Less(calls, p) \in Seq(Calls(A, B)) /\ Len(Less(calls, p)) = Len(calls)
         /\ \A i \in 1 .. Len(calls) - 1 : Less(calls, p)[i] = calls[i]
         /\ Less(calls, p)[Len(calls)] =
              [node |-> calls[Len(calls)].node, left |-> calls[Len(calls)].left \ {p}]
<1> DEFINE n == Len(calls)
           F == Calls(A, B)
           f == [calls EXCEPT ![n].left = @ \ {p}]
<1>1. n \in Nat /\ n \in 1 .. n /\ calls[n] \in F
  <2>1. calls \in Seq(F)
    OBVIOUS
  <2> HIDE DEF F
  <2>2. Len(calls) \in Nat /\ \A i \in 1 .. Len(calls) : calls[i] \in F
    BY <2>1, LenProperties
  <2> QED
    BY <2>2
<1>2. /\ f \in [1 .. n -> F] /\ f[n] = [node |-> calls[n].node, left |-> calls[n].left \ {p}]
      /\ \A i \in 1 .. n - 1 : f[i] = calls[i]
  <2>1. calls \in [1 .. n -> F]
    BY LenProperties
  <2>2. f[n] = [node |-> calls[n].node, left |-> calls[n].left \ {p}]
    BY <1>1, <2>1 DEF Calls
  <2>3. \A i \in 1 .. n - 1 : f[i] = calls[i]
    BY <1>1, <2>1
  <2>4. \A i \in 1 .. n : f[i] \in F
    BY <1>1, <2>1, <2>2, <2>3 DEF Calls
  <2>5. f = [i \in 1 .. n |-> f[i]]
    BY <2>1
  <2> QED
    BY <2>2, <2>3, <2>4, <2>5
<1>3. f \in Seq(F) /\ Len(f) = n
  BY <1>1, <1>2
<1>4. Less(calls, p) = f
  BY DEF Less
<1> HIDE DEF f
<1> QED
  BY <1>2, <1>3, <1>4

(* The same, and the call is opened.                                       *)
LEMMA Pushed ==
  ASSUME NEW A, NEW B, frames \in Seq(Calls(A, B)), Len(frames) >= 1,
         NEW p, NEW call \in Calls(A, B), Top.left \ {p} \in B,
         Push(p, call) = frames'
  PROVE  /\ frames' \in Seq(Calls(A, B)) /\ Len(frames') = Len(frames) + 1
         /\ \A i \in 1 .. Len(frames) - 1 : frames'[i] = frames[i]
         /\ frames'[Len(frames)] = [node |-> Top.node, left |-> Top.left \ {p}]
         /\ frames'[Len(frames) + 1] = call
<1> DEFINE to == frames'
           n == Len(frames)
           f == [frames EXCEPT ![n].left = @ \ {p}]
           F == Calls(A, B)
<1>1. n \in Nat /\ n \in 1 .. n /\ Top = frames[n]
  BY LenProperties DEF Last, Top
<1>2. /\ f \in Seq(F) /\ Len(f) = n /\ f[n] = [node |-> Top.node, left |-> Top.left \ {p}]
      /\ \A i \in 1 .. n - 1 : f[i] = frames[i]
  <2>1. f = [frames EXCEPT ![n].left = @ \ {p}]
    OBVIOUS
  <2> HIDE DEF f
  <2> QED
    <3>1. frames \in Seq(Calls(A, B)) /\ Len(frames) >= 1 /\ frames[Len(frames)].left \ {p} \in B
      BY <1>1
    <3>2. f = Less(frames, p)
      BY <2>1 DEF Less
    <3> QED
      BY <1>1, <3>1, <3>2, TakenOff
<1>4. to = Append(f, call)
  BY DEF Push
<1> HIDE DEF f, F
<1>5. /\ to \in Seq(F) /\ Len(to) = n + 1 /\ \A i \in 1 .. n : to[i] = f[i]
      /\ to[n + 1] = call
  BY <1>2, <1>4, AppendProperties DEF F
<1>6. \A i \in 1 .. n - 1 : to[i] = frames[i]
  BY <1>1, <1>2, <1>5
<1>7. to[n] = [node |-> Top.node, left |-> Top.left \ {p}]
  BY <1>1, <1>2, <1>5
<1> QED
  BY <1>5, <1>6, <1>7 DEF F

MarkFor(m, p, order) ==
  /\ m \in [function : Functions, parent : Int] /\ m.function = Last(p)
  /\ IF Len(p) = 1 THEN m.parent = NoParent
     ELSE m.parent + 1 \in 1 .. Len(order) /\ order[m.parent + 1] = Front(p)

LEMMA HasNext ==
  ASSUME NEW T, NEW order \in Seq(T), NEW p \in T
  PROVE  /\ \A q : Has(Append(order, p), q) <=> Has(order, q) \/ q = p
         /\ Len(Append(order, p)) = Len(order) + 1
         /\ \A i \in 1 .. Len(order) : Append(order, p)[i] = order[i]
         /\ Append(order, p)[Len(order) + 1] = p
<1> DEFINE n == Len(order)
           o == Append(order, p)
<1>1. /\ n \in Nat /\ Len(o) = n + 1 /\ o[n + 1] = p /\ \A i \in 1 .. n : o[i] = order[i]
  BY AppendProperties
<1>2. /\ n + 1 \in 1 .. n + 1 /\ \A i \in 1 .. n : i \in 1 .. n + 1
      /\ \A i \in 1 .. n + 1 : i \in 1 .. n \/ i = n + 1
  BY <1>1
<1> HIDE DEF o, n
<1>3. \A q : Has(o, q) <=> Has(order, q) \/ q = p
  BY <1>1, <1>2 DEF Has, n
<1> QED
  BY <1>1, <1>3 DEF o, n

LEMMA NextNumber ==
  ASSUME NEW T \in SUBSET Paths, NEW k, NEW map, NEW data, NEW order,
         Numbering(order, T, k, map, data),
         NEW p \in T, ~Has(order, p), NEW m, MarkFor(m, p, order)
  PROVE  Numbering(Append(order, p), T, k, Append(map, m), data \cup PathData(k, p, Len(map)))
<1> DEFINE n == Len(order)
           o == Append(order, p)
           t == Append(map, m)
           more == PathData(k, p, Len(map))
<1>0. /\ m \in [function : Functions, parent : Int] /\ m.function = Last(p)
      /\ IF Len(p) = 1 THEN m.parent = NoParent
         ELSE m.parent + 1 \in 1 .. n /\ order[m.parent + 1] = Front(p)
  BY DEF MarkFor
<1>1. /\ order \in Seq(T) /\ map \in Mappings /\ n = Len(map) /\ n \in Nat
      /\ \A i, j \in 1 .. n : order[i] = order[j] => i = j
      /\ \A i \in 1 .. n : map[i].function = Last(order[i]) /\ ParentNumbered(order, map, i)
      /\ data = UNION {DataOf(order, k, i) : i \in 1 .. n}
  BY DEF Numbering
<1>2. /\ o \in Seq(T) /\ Len(o) = n + 1 /\ o[n + 1] = p /\ \A i \in 1 .. n : o[i] = order[i]
  BY <1>1, AppendProperties
<1>3. /\ t \in Mappings /\ Len(t) = n + 1 /\ t[n + 1] = m /\ \A i \in 1 .. n : t[i] = map[i]
  BY <1>0, <1>1, AppendProperties DEF Mappings
<1> HIDE DEF o, t, n
<1>4. \A i \in 1 .. n + 1 : i \in 1 .. n \/ i = n + 1
  BY <1>1
<1>5. \A i \in 1 .. n : order[i] # p
  BY DEF Has, n
<1>6. \A i, j \in 1 .. n + 1 : o[i] = o[j] => i = j
  BY <1>1, <1>2, <1>4, <1>5
<1>7. ASSUME NEW i \in 1 .. n + 1
      PROVE  t[i].function = Last(o[i]) /\ ParentNumbered(o, t, i)
  <2>1. CASE i \in 1 .. n
    <3>1. o[i] = order[i] /\ t[i] = map[i] /\ \A j \in 1 .. i - 1 : o[j] = order[j]
      BY <1>1, <1>2, <1>3, <2>1
    <3> QED
      BY <1>1, <2>1, <3>1 DEF ParentNumbered
  <2>2. CASE i = n + 1
    <3>1. o[i] = p /\ t[i] = m /\ i - 1 = n
      BY <1>1, <1>2, <1>3, <2>2
    <3> QED
      BY <1>0, <1>2, <3>1 DEF ParentNumbered
  <2> QED
    BY <1>4, <2>1, <2>2
<1>8. data \cup more = UNION {DataOf(o, k, i) : i \in 1 .. n + 1}
  <2>1. \A i \in 1 .. n : DataOf(o, k, i) = DataOf(order, k, i)
    BY <1>2 DEF DataOf
  <2>2. DataOf(o, k, n + 1) = more
    <3>1. (n + 1) - 1 = Len(map)
      BY <1>1
    <3> QED
      BY <1>2, <3>1 DEF DataOf
  <2>3. n + 1 \in 1 .. n + 1 /\ \A i \in 1 .. n : i \in 1 .. n + 1
    BY <1>1
  <2> HIDE DEF DataOf
  <2> QED
    BY <1>1, <1>4, <2>1, <2>2, <2>3
<1>9. Numbering(o, T, k, t, data \cup more)
  BY <1>2, <1>3, <1>6, <1>7, <1>8 DEF Numbering
<1> QED
  BY <1>9 DEF o, t

(* Who has a number has a numbered caller.                                 *)
LEMMA CallerNumbered ==
  ASSUME NEW T \in SUBSET Paths, NEW k, NEW map, NEW data, NEW order,
         Numbering(order, T, k, map, data), NEW q, Has(order, q), Front(q) \in Paths
  PROVE  Has(order, Front(q))
<1>1. PICK i \in 1 .. Len(order) : order[i] = q
  BY DEF Has
<1>2. order \in Seq(T) /\ ParentNumbered(order, map, i)
  BY DEF Numbering
<1>3. q \in Paths
  BY <1>1, <1>2, ElementOfSeq
<1>4. Len(q) # 1
  <2>1. Front(q) # <<>>
    BY DEF Paths
  <2> QED
    BY <1>3, <2>1, PathParts
<1>5. map[i].parent + 1 \in 1 .. i - 1 /\ order[map[i].parent + 1] = Front(q)
  BY <1>1, <1>2, <1>4 DEF ParentNumbered
<1>6. 1 .. i - 1 \subseteq 1 .. Len(order)
  BY <1>2, LenProperties
<1> QED
  BY <1>5, <1>6 DEF Has

LEMMA SerializeNodeStep == Serial /\ SerializeNode => Serial'
<1> SUFFICES ASSUME Serial, SerializeNode PROVE Serial'
  OBVIOUS
<1>2. sender \in Senders /\ tree \in SentTrees[sender] /\ pc \in Labels
  BY DEF Serial
<1>3. tree \in SUBSET Paths /\ \A q \in tree : Len(q) > 1 => Front(q) \in tree
  BY <1>2, TreeFacts
<1>0. pc = "serialize"
  BY DEF SerializeNode
<1>4. PICK order : Numbering(order, tree, sender, mapping, f_data) /\ OpenCalls(order, tree, frames, node_stack)
  BY <1>0 DEF Serial
<1> DEFINE p == PathFirst(Top.left)
           n == Len(frames)
           d == Len(node_stack)
           m == [function |-> Last(p),
                 parent   |-> IF node_stack = <<>> THEN NoParent ELSE Last(node_stack)]
           call == Call(p, Under(tree, p))
           F == Calls(Seq(Functions), SUBSET tree)
           more == PathData(sender, p, Len(mapping))
<1>1. /\ pc = "serialize" /\ Top.left # {}
      /\ frames' = Push(p, call) /\ mapping' = Append(mapping, m)
      /\ node_stack' = Append(node_stack, Len(mapping)) /\ f_data' = f_data \cup more
      /\ pc' = pc /\ sender' = sender /\ tree' = tree
  BY DEF SerializeNode, Counter, PathData
<1>5. /\ frames \in Seq(F) /\ node_stack \in Seq(Int) /\ n = d + 1 /\ d \in Nat
      /\ frames[1].node = <<>>
      /\ \A i \in 1 .. n : Len(frames[i].node) = i - 1
      /\ \A i \in 1 .. n : \A q \in frames[i].left : Front(q) = frames[i].node /\ ~Has(order, q)
      /\ \A i \in 1 .. d : /\ frames[i + 1].node \in tree
                           /\ node_stack[i] + 1 \in 1 .. Len(order)
                           /\ order[node_stack[i] + 1] = frames[i + 1].node
      /\ \A q \in tree : ~Has(order, q) =>
           \/ Front(q) \in tree /\ ~Has(order, Front(q))
           \/ \E i \in 1 .. n : frames[i].node = Front(q) /\ q \in frames[i].left
  <2>1. node_stack \in Seq(Int) => Len(node_stack) \in Nat
    BY LenProperties
  <2> HIDE DEF Has
  <2> QED
    BY <1>4, <2>1, Zenon DEF OpenCalls, n, d, F
<1>6. Len(order) = Len(mapping) /\ Len(order) \in Nat /\ order \in Seq(tree)
  BY <1>4 DEF Numbering
<1>7. n \in 1 .. n /\ Top = frames[n] /\ Top.left \in SUBSET tree /\ Top.node \in Seq(Functions)
  <2>1. n \in 1 .. n /\ Top = frames[n]
    BY <1>5 DEF Top, Last
  <2>2. frames[n] \in F
    BY <1>5, <2>1, ElementOfSeq
  <2> QED
    BY <2>1, <2>2 DEF Calls
<1>8. p \in Top.left
  BY <1>1, <1>3, <1>7, PathFirstIn
<1>9. p \in tree /\ p \in Paths /\ Front(p) = Top.node /\ ~Has(order, p)
  BY <1>3, <1>5, <1>7, <1>8
<1>10. MarkFor(m, p, order)
  <2>1. Last(p) \in Functions /\ (Len(p) = 1 <=> Front(p) = <<>>)
    BY <1>9, PathParts
  <2>2. CASE node_stack = <<>>
    <3>1. d = 0 /\ n = 1
      BY <1>5, <2>2
    <3>2. Len(p) = 1 /\ m.parent = NoParent
      BY <1>5, <1>7, <1>9, <2>1, <2>2, <3>1
    <3> QED
      BY <2>1, <3>2 DEF NoParent, MarkFor
  <2>3. CASE node_stack # <<>>
    <3>1. d >= 1 /\ d \in 1 .. d /\ Last(node_stack) = node_stack[d] /\ m.parent = node_stack[d]
      BY <1>5, <2>3, EmptySeq DEF Last
    <3>2. /\ Top.node \in tree /\ node_stack[d] + 1 \in 1 .. Len(order)
          /\ order[node_stack[d] + 1] = Top.node
      BY <1>5, <1>7, <3>1
    <3>3. Top.node # <<>> /\ node_stack[d] \in Int
      BY <1>3, <1>5, <3>1, <3>2, ElementOfSeq DEF Paths
    <3> QED
      BY <1>9, <2>1, <3>1, <3>2, <3>3 DEF MarkFor
  <2> QED
    BY <2>2, <2>3 DEF MarkFor
<1>26. PICK o : o = Append(order, p)
  OBVIOUS
<1>12. call \in F /\ call.node = p /\ call.left = {q \in tree : Front(q) = p}
  <2>1. Under(tree, p) = {q \in tree : Front(q) = p}
    BY <1>3, <1>9, UnderIs DEF Paths
  <2> QED
    BY <1>9, <2>1 DEF Call, Calls, Paths
<1>14. /\ node_stack' \in Seq(Int) /\ Len(node_stack') = d + 1
       /\ \A i \in 1 .. d : node_stack'[i] = node_stack[i]
       /\ node_stack'[d + 1] = Len(order)
  BY <1>1, <1>5, <1>6, AppendProperties
<1>20. Len(frames) = n /\ F = Calls(Seq(Functions), SUBSET tree)
       /\ Len(node_stack) = d
  OBVIOUS
<1>21. more = PathData(sender, p, Len(mapping))
  OBVIOUS
<1> HIDE DEF p, n, d, m, call, F, more
<1>11. /\ Numbering(o, tree, sender, mapping', f_data')
       /\ \A q : Has(o, q) <=> Has(order, q) \/ q = p
       /\ Len(o) = Len(order) + 1
       /\ \A i \in 1 .. Len(order) : o[i] = order[i]
       /\ o[Len(order) + 1] = p
  <2>2. /\ \A q : Has(Append(order, p), q) <=> Has(order, q) \/ q = p
        /\ Len(Append(order, p)) = Len(order) + 1
        /\ \A i \in 1 .. Len(order) : Append(order, p)[i] = order[i]
        /\ Append(order, p)[Len(order) + 1] = p
    BY <1>6, <1>9, HasNext
  <2>1. Numbering(Append(order, p), tree, sender, Append(mapping, m),
                  f_data \cup PathData(sender, p, Len(mapping)))
    <3>1. Numbering(order, tree, sender, mapping, f_data) /\ p \in tree /\ ~Has(order, p)
      BY <1>4, <1>9
    <3>2. tree \in SUBSET Paths
      BY <1>3
    <3> QED
      BY <1>10, <3>1, <3>2, NextNumber, Zenon
  <2> QED
    BY <1>1, <1>21, <1>26, <2>1, <2>2
<1>13. /\ frames' \in Seq(F) /\ Len(frames') = n + 1
       /\ \A i \in 1 .. n - 1 : frames'[i] = frames[i]
       /\ frames'[n] = [node |-> Top.node, left |-> Top.left \ {p}]
       /\ frames'[n + 1] = call
  <2> DEFINE A == Seq(Functions)
             B == SUBSET tree
  <2>1. /\ Len(frames) >= 1 /\ Top.left \ {p} \in B /\ frames \in Seq(Calls(A, B))
        /\ call \in Calls(A, B)
    BY <1>5, <1>7, <1>12, <1>20
  <2>2. F = Calls(A, B)
    BY <1>20
  <2> HIDE DEF A, B
  <2>3. /\ frames' \in Seq(Calls(A, B)) /\ Len(frames') = Len(frames) + 1
        /\ \A i \in 1 .. Len(frames) - 1 : frames'[i] = frames[i]
        /\ frames'[Len(frames)] = [node |-> Top.node, left |-> Top.left \ {p}]
        /\ frames'[Len(frames) + 1] = call
    <3>1. Push(p, call) = frames'
      BY <1>1
    <3> QED
      BY <2>1, <3>1, Pushed
  <2> QED
    BY <1>20, <2>2, <2>3
<1>16. /\ \A i \in 1 .. n : frames'[i].node = frames[i].node
       /\ \A i \in 1 .. n : \A q : q \in frames'[i].left <=> q \in frames[i].left /\ (i = n => q # p)
       /\ \A i \in 1 .. n + 1 : i \in 1 .. n \/ i = n + 1
       /\ n + 1 \in 1 .. n + 1 /\ \A i \in 1 .. n : i \in 1 .. n + 1
       /\ n \in Nat
  <2>1. \A i \in 1 .. n : i \in 1 .. n - 1 \/ i = n
    BY <1>5
  <2>2. \A i \in 1 .. n - 1 : i # n
    BY <1>5
  <2>3. /\ \A i \in 1 .. n : frames'[i].node = frames[i].node
        /\ \A i \in 1 .. n : \A q : q \in frames'[i].left <=> q \in frames[i].left /\ (i = n => q # p)
    BY <1>7, <1>13, <2>1, <2>2
  <2>4. /\ \A i \in 1 .. n + 1 : i \in 1 .. n \/ i = n + 1
        /\ n + 1 \in 1 .. n + 1 /\ \A i \in 1 .. n : i \in 1 .. n + 1
        /\ n \in Nat
    BY <1>5
  <2> QED
    BY <2>3, <2>4
<1>15. frames'[1].node = <<>>
  <2>1. 1 \in 1 .. n
    BY <1>7
  <2> QED
    BY <1>5, <1>16, <2>1
<1>22. Len(p) = n /\ Len(p) \in Nat
  BY <1>5, <1>7, <1>9, PathParts
<1>23. \A i \in 1 .. n + 1 : Len(frames'[i].node) = i - 1
  <2>1. Len(frames'[n + 1].node) = (n + 1) - 1
    BY <1>12, <1>13, <1>16, <1>22
  <2> QED
    BY <1>5, <1>16, <2>1
<1>17. ASSUME NEW i \in 1 .. n + 1, NEW q \in frames'[i].left
       PROVE  Front(q) = frames'[i].node /\ ~Has(o, q)
  <2>1. CASE i \in 1 .. n
    <3>1. q \in frames[i].left /\ frames'[i].node = frames[i].node /\ (i = n => q # p)
      BY <1>16, <1>17, <2>1
    <3>2. Front(q) = frames[i].node /\ ~Has(order, q)
      BY <1>5, <2>1, <3>1
    <3>3. q # p
      <4> SUFFICES ASSUME q = p PROVE FALSE
        OBVIOUS
      <4>1. i - 1 = n - 1
        BY <1>5, <1>7, <1>9, <2>1, <3>2
      <4> QED
        BY <1>16, <2>1, <3>1, <4>1
    <3> QED
      BY <1>11, <3>1, <3>2, <3>3
  <2>2. CASE i = n + 1
    <3>1. q \in tree /\ Front(q) = p /\ frames'[i].node = p
      BY <1>12, <1>13, <1>17, <2>2
    <3>2. q # p
      <4>1. Len(Front(q)) = Len(q) - 1 /\ Len(q) \in Nat
        BY <1>3, <3>1, PathParts
      <4> QED
        BY <3>1, <4>1
    <3>3. ~Has(order, q)
      BY <1>3, <1>4, <1>9, <3>1, CallerNumbered
    <3> QED
      BY <1>11, <3>1, <3>2, <3>3
  <2> QED
    BY <1>16, <2>1, <2>2
<1>18. ASSUME NEW i \in 1 .. d + 1
       PROVE  /\ frames'[i + 1].node \in tree
              /\ node_stack'[i] + 1 \in 1 .. Len(o)
              /\ o[node_stack'[i] + 1] = frames'[i + 1].node
  <2>1. CASE i \in 1 .. d
    <3>1. i + 1 \in 1 .. n
      BY <1>5, <2>1
    <3>2. frames'[i + 1].node = frames[i + 1].node /\ node_stack'[i] = node_stack[i]
      BY <1>14, <1>16, <2>1, <3>1
    <3>3. 1 .. Len(order) \subseteq 1 .. Len(o)
      BY <1>6, <1>11
    <3>4. /\ frames[i + 1].node \in tree /\ node_stack[i] + 1 \in 1 .. Len(order)
          /\ order[node_stack[i] + 1] = frames[i + 1].node
      BY <1>5, <2>1, Zenon
    <3>5. o[node_stack[i] + 1] = order[node_stack[i] + 1]
      BY <1>11, <3>4, Zenon
    <3> QED
      BY <3>2, <3>3, <3>4, <3>5, Zenon
  <2>2. CASE i = d + 1
    <3>1. frames'[i + 1] = call /\ node_stack'[i] = Len(order)
      BY <1>5, <1>13, <1>14, <2>2
    <3> QED
      BY <1>6, <1>9, <1>11, <1>12, <3>1
  <2> QED
    BY <1>5, <2>1, <2>2
<1>19. ASSUME NEW q \in tree, ~Has(o, q)
       PROVE  \/ Front(q) \in tree /\ ~Has(o, Front(q))
              \/ \E i \in 1 .. n + 1 : frames'[i].node = Front(q) /\ q \in frames'[i].left
  <2>1. ~Has(order, q) /\ q # p
    BY <1>11, <1>19
  <2>2. CASE Front(q) = p
    BY <1>12, <1>13, <1>16, <2>2
  <2>3. CASE Front(q) # p /\ Front(q) \in tree /\ ~Has(order, Front(q))
    BY <1>11, <2>3
  <2>4. CASE \E i \in 1 .. n : frames[i].node = Front(q) /\ q \in frames[i].left
    BY <1>16, <2>1, <2>4
  <2> QED
    BY <1>5, <2>1, <2>2, <2>3, <2>4
<1>24. OpenCalls(o, tree', frames', node_stack')
  <2>1. frames' \in Seq(Calls(Seq(Functions), SUBSET tree'))
    BY <1>1, <1>13, <1>20
  <2>2. node_stack' \in Seq(Int) /\ Len(frames') = n + 1 /\ Len(node_stack') = d + 1
        /\ n = d + 1 /\ tree' = tree
    BY <1>1, <1>5, <1>13, <1>14
  <2>3. /\ \A i \in 1 .. Len(frames') : Len(frames'[i].node) = i - 1
        /\ \A i \in 1 .. Len(frames') : \A q \in frames'[i].left :
             Front(q) = frames'[i].node /\ ~Has(o, q)
        /\ \A i \in 1 .. Len(node_stack') :
             /\ frames'[i + 1].node \in tree'
             /\ node_stack'[i] + 1 \in 1 .. Len(o)
             /\ o[node_stack'[i] + 1] = frames'[i + 1].node
        /\ \A q \in tree' : ~Has(o, q) =>
             \/ Front(q) \in tree' /\ ~Has(o, Front(q))
             \/ \E i \in 1 .. Len(frames') : frames'[i].node = Front(q) /\ q \in frames'[i].left
    BY <1>17, <1>18, <1>19, <1>23, <2>2, Zenon
  <2>4. Len(frames') = Len(node_stack') + 1
    BY <2>2
  <2> QED
    BY <1>15, <2>1, <2>2, <2>3, <2>4, Zenon DEF OpenCalls
<1>25. Numbering(o, tree', sender', mapping', f_data')
  BY <1>1, <1>11
<1> QED
  BY <1>1, <1>2, <1>24, <1>25 DEF Serial

LEMMA FrontParts ==
  ASSUME NEW S, NEW s \in Seq(S), Len(s) >= 1
  PROVE  /\ Front(s) \in Seq(S) /\ Len(Front(s)) = Len(s) - 1
         /\ \A j \in 1 .. Len(s) - 1 : Front(s)[j] = s[j]
<1> DEFINE n == Len(s) - 1
<1>1. Len(s) \in Nat /\ 1 \in Int /\ n \in Int /\ n >= 0 /\ \A i \in 1 .. n : s[i] \in S
  OBVIOUS
<1>2. n - 1 + 1 = n /\ (\A j \in 1 .. n : 1 + j - 1 = j) /\ ~(1 <= n) => n = 0
  BY <1>1
<1>3. Front(s) = SubSeq(s, 1, n)
  BY DEF Front
<1> HIDE DEF n
<1>4. /\ SubSeq(s, 1, n) \in Seq(S)
      /\ Len(SubSeq(s, 1, n)) = IF 1 <= n THEN n - 1 + 1 ELSE 0
      /\ \A j \in 1 .. n - 1 + 1 : SubSeq(s, 1, n)[j] = s[1 + j - 1]
  BY <1>1, SubSeqProperties
<1>5. Len(SubSeq(s, 1, n)) = n
  BY <1>1, <1>4
<1>6. \A j \in 1 .. n : SubSeq(s, 1, n)[j] = s[j]
  BY <1>1, <1>4
<1> QED
  BY <1>3, <1>4, <1>5, <1>6 DEF n

LEMMA SerializeReturnStep == Serial /\ SerializeReturn => Serial'
<1> SUFFICES ASSUME Serial, SerializeReturn PROVE Serial'
  OBVIOUS
<1>1. /\ pc = "serialize" /\ Top.left = {} /\ Len(frames) > 1
      /\ frames' = Front(frames) /\ node_stack' = Front(node_stack)
      /\ pc' = pc /\ sender' = sender /\ tree' = tree /\ mapping' = mapping /\ f_data' = f_data
  BY DEF SerializeReturn
<1>2. PICK order : /\ Numbering(order, tree, sender, mapping, f_data)
                   /\ OpenCalls(order, tree, frames, node_stack)
  BY <1>1 DEF Serial
<1> DEFINE n == Len(frames)
           d == Len(node_stack)
           F == Calls(Seq(Functions), SUBSET tree)
<1>3. /\ frames \in Seq(F) /\ node_stack \in Seq(Int) /\ n = d + 1 /\ d \in Nat /\ n > 1
  <2>1. node_stack \in Seq(Int) => Len(node_stack) \in Nat
    BY LenProperties
  <2> QED
    BY <1>1, <1>2, <2>1 DEF OpenCalls
<1>4. /\ frames' \in Seq(F) /\ Len(frames') = n - 1
      /\ \A j \in 1 .. n - 1 : frames'[j] = frames[j]
  <2>1. Len(frames) >= 1 /\ frames \in Seq(F)
    BY <1>3
  <2> HIDE DEF F
  <2> QED
    BY <1>1, <2>1, FrontParts
<1>5. /\ node_stack' \in Seq(Int) /\ Len(node_stack') = d - 1
      /\ \A j \in 1 .. d - 1 : node_stack'[j] = node_stack[j]
  <2>1. Len(node_stack) >= 1
    BY <1>3
  <2> QED
    BY <1>1, <1>3, <2>1, FrontParts
<1>6. Top = frames[n]
  BY DEF Top, Last
<1> HIDE DEF n, d, F
<1>7. /\ \A j \in 1 .. n - 1 : j \in 1 .. n
      /\ \A j \in 1 .. n : j \in 1 .. n - 1 \/ j = n
      /\ \A j \in 1 .. d - 1 : j \in 1 .. d /\ j + 1 \in 1 .. n - 1
      /\ 1 \in 1 .. n - 1 /\ n - 1 = (d - 1) + 1
  BY <1>3
<1>8. OpenCalls(order, tree, frames', node_stack')
  <2>1. /\ frames[1].node = <<>>
        /\ \A i \in 1 .. n : Len(frames[i].node) = i - 1
        /\ \A i \in 1 .. n : \A q \in frames[i].left : Front(q) = frames[i].node /\ ~Has(order, q)
        /\ \A i \in 1 .. d : /\ frames[i + 1].node \in tree
                             /\ node_stack[i] + 1 \in 1 .. Len(order)
                             /\ order[node_stack[i] + 1] = frames[i + 1].node
        /\ \A q \in tree : ~Has(order, q) =>
             \/ Front(q) \in tree /\ ~Has(order, Front(q))
             \/ \E i \in 1 .. n : frames[i].node = Front(q) /\ q \in frames[i].left
    BY <1>2, Zenon DEF OpenCalls, n, d
  <2>2. /\ frames'[1].node = <<>>
        /\ \A i \in 1 .. n - 1 : Len(frames'[i].node) = i - 1
        /\ \A i \in 1 .. n - 1 : \A q \in frames'[i].left : Front(q) = frames'[i].node /\ ~Has(order, q)
    BY <1>4, <1>7, <2>1
  <2>3. \A i \in 1 .. d - 1 : /\ frames'[i + 1].node \in tree
                              /\ node_stack'[i] + 1 \in 1 .. Len(order)
                              /\ order[node_stack'[i] + 1] = frames'[i + 1].node
    BY <1>4, <1>5, <1>7, <2>1
  <2>4. \A q \in tree : ~Has(order, q) =>
             \/ Front(q) \in tree /\ ~Has(order, Front(q))
             \/ \E i \in 1 .. n - 1 : frames'[i].node = Front(q) /\ q \in frames'[i].left
    BY <1>1, <1>4, <1>6, <1>7, <2>1
  <2>5. Len(frames') = Len(node_stack') + 1
    BY <1>4, <1>5, <1>7
  <2> QED
    BY <1>4, <1>5, <2>2, <2>3, <2>4, <2>5, Zenon DEF OpenCalls, F
<1> QED
  BY <1>1, <1>2, <1>8 DEF Serial

(* The loop over the roots ends when all call paths have their numbers.    *)
LEMMA AllNumbered ==
  ASSUME NEW T \in SUBSET Paths, NEW order, NEW calls, NEW stack, OpenCalls(order, T, calls, stack),
         Len(calls) = 1, Last(calls).left = {}
  PROVE  \A p \in T : Has(order, p)
<1> DEFINE Missing == {p \in T : ~Has(order, p)}
<1> SUFFICES ASSUME Missing # {} PROVE FALSE
  OBVIOUS
<1>1. PICK p \in Missing : \A q \in Missing : Len(p) <= Len(q)
  BY Shortest
<1>2. \/ Front(p) \in T /\ ~Has(order, Front(p))
      \/ \E i \in 1 .. Len(calls) : calls[i].node = Front(p) /\ p \in calls[i].left
  BY DEF OpenCalls
<1>3. CASE Front(p) \in T /\ ~Has(order, Front(p))
  <2>1. Len(Front(p)) = Len(p) - 1 /\ Len(p) \in Nat
    BY PathParts
  <2> QED
    BY <1>1, <1>3, <2>1
<1>4. CASE \E i \in 1 .. Len(calls) : calls[i].node = Front(p) /\ p \in calls[i].left
  BY <1>4 DEF Last
<1> QED
  BY <1>2, <1>3, <1>4

LEMMA PackStep == Serial /\ PackWorkerData => Serial'
<1> SUFFICES ASSUME Serial, PackWorkerData PROVE Serial'
  OBVIOUS
<1>1. /\ pc = "serialize" /\ Top.left = {} /\ Len(frames) = 1 /\ pc' = "receive"
      /\ sender' = sender /\ tree' = tree /\ mapping' = mapping /\ f_data' = f_data
  BY DEF PackWorkerData, serial
<1>2. PICK order : /\ Numbering(order, tree, sender, mapping, f_data)
                   /\ OpenCalls(order, tree, frames, node_stack)
  BY <1>1 DEF Serial
<1>3. sender \in Senders /\ tree \in SentTrees[sender] /\ tree \in SUBSET Paths
  BY TreeFacts DEF Serial
<1>4. \A p \in tree : Has(order, p)
  BY <1>1, <1>2, <1>3, AllNumbered DEF Top
<1>5. Numbered(order, tree, sender, mapping, f_data)
  BY <1>2, <1>4 DEF Numbered
<1>6. Numbered(OrderOf(tree, sender, mapping, f_data), tree, sender, mapping, f_data)
  BY <1>5 DEF OrderOf
<1> QED
  BY <1>1, <1>3, <1>6 DEF Serial, Order, Labels

(* What is sent stays as it is while it is received, merged and counted.   *)
LEMMA SentStep ==
  ASSUME Serial, pc # "serialize", pc' \in Labels \ {"serialize"}, UNCHANGED serial PROVE Serial'
<1>1. sender' = sender /\ tree' = tree /\ mapping' = mapping /\ f_data' = f_data
  BY DEF serial
<1> QED
  BY <1>1 DEF Serial, Order

LEMMA SerialStep == Serial /\ [Next]_vars => Serial'
<1> SUFFICES ASSUME Serial, [Next]_vars PROVE Serial'
  OBVIOUS
<1>0. pc \in Labels
  BY DEF Serial
<1>1. CASE SerializeNode
  BY <1>1, SerializeNodeStep
<1>2. CASE SerializeReturn
  BY <1>2, SerializeReturnStep
<1>3. CASE PackWorkerData
  BY <1>3, PackStep
<1>4. CASE PrepareWorkerData
  BY <1>4, SentStep DEF PrepareWorkerData, Labels
<1>5. CASE RebuildNode
  BY <1>0, <1>5, SentStep DEF RebuildNode
<1>6. CASE UnpackFunctionData
  BY <1>6, SentStep DEF UnpackFunctionData, Labels
<1>7. CASE MergeNode
  BY <1>0, <1>7, SentStep DEF MergeNode
<1>8. CASE TakeOver
  BY <1>0, <1>8, SentStep DEF TakeOver
<1>9. CASE MergeReturn
  BY <1>0, <1>9, SentStep DEF MergeReturn
<1>10. CASE NextSender
  <2>1. /\ sender' \in Senders /\ tree' \in SentTrees[sender'] /\ frames' = SerializeData(tree')
        /\ node_stack' = <<>> /\ mapping' = <<>> /\ f_data' = {} /\ pc' = "serialize"
    BY <1>10 DEF NextSender
  <2>2. /\ Numbering(<<>>, tree', sender', <<>>, {})
        /\ OpenCalls(<<>>, tree', SerializeData(tree'), <<>>)
    BY <2>1, SerialStart
  <2> QED
    BY <2>1, <2>2 DEF Serial, Labels
<1>11. CASE Begin
  BY <1>11, SentStep DEF Begin, Merged, Labels
<1>12. CASE Visit
  BY <1>0, <1>12, SentStep DEF Visit, Labels
<1>13. CASE Climb
  BY <1>0, <1>13, SentStep DEF Climb, Labels
<1>14. CASE End
  BY <1>14, SentStep DEF End, Labels
<1>15. CASE UNCHANGED vars
  BY <1>15 DEF vars, serial, Serial, Order
<1> QED
  BY <1>1, <1>2, <1>3, <1>4, <1>5, <1>6, <1>7, <1>8, <1>9, <1>10, <1>11, <1>12, <1>13,
     <1>14, <1>15 DEF Next, Terminated

-----------------------------------------------------------------------------
(* The pack buffers.                                                       *)
LEMMA FiniteImage ==
  ASSUME NEW S, IsFiniteSet(S), NEW f, f \in [S -> {f[x] : x \in S}]
  PROVE  IsFiniteSet({f[x] : x \in S})
<1> DEFINE T == {f[x] : x \in S}
<1>1. f \in Surjection(S, T)
  BY DEF Surjection
<1> HIDE DEF T
<1>2. IsFiniteSet(T)
  BY <1>1, FS_Surjection
<1> QED
  BY <1>2 DEF T

LEMMA DataFinite ==
  ASSUME NEW k \in Senders, NEW T \in SentTrees[k], NEW map, NEW data, NEW order,
         Numbering(order, T, k, map, data)
  PROVE  IsFiniteSet(data)
<1>1. /\ order \in Seq(T) /\ data = UNION {DataOf(order, k, i) : i \in 1 .. Len(order)}
  BY DEF Numbering
<1>2. \A p \in T : IsFiniteSet(LocationsOf[k][p])
  BY TreeFacts
<1>3. ASSUME NEW i \in 1 .. Len(order) PROVE IsFiniteSet(DataOf(order, k, i))
  <2> DEFINE S == LocationsOf[k][order[i]]
             f == [l \in S |-> [id |-> i - 1, location |-> l]]
  <2>1. IsFiniteSet(S)
    BY <1>1, <1>2
  <2>2. f \in [S -> {f[x] : x \in S}] /\ {f[x] : x \in S} = DataOf(order, k, i)
    BY DEF DataOf, PathData
  <2> HIDE DEF S, f
  <2> QED
    BY <2>1, <2>2, FiniteImage
<1>4. IsFiniteSet({DataOf(order, k, i) : i \in 1 .. Len(order)})
  <2> DEFINE S == 1 .. Len(order)
             f == [i \in S |-> DataOf(order, k, i)]
  <2>1. IsFiniteSet(S)
    BY <1>1, FS_Interval
  <2>2. f \in [S -> {f[x] : x \in S}] /\ {f[x] : x \in S} = {DataOf(order, k, i) : i \in S}
    OBVIOUS
  <2>4. S = 1 .. Len(order)
    OBVIOUS
  <2> HIDE DEF S, f
  <2>3. IsFiniteSet({f[x] : x \in S})
    BY <2>1, <2>2, FiniteImage
  <2> QED
    BY <2>2, <2>3, <2>4
<1>5. \A D \in {DataOf(order, k, i) : i \in 1 .. Len(order)} : IsFiniteSet(D)
  BY <1>3
<1> QED
  BY <1>1, <1>4, <1>5, FS_UNION

(* What the sender counts, and what it moves position by.                  *)
LEMMA PackedFits ==
  ASSUME Serial, PackWorkerData
  PROVE  Packed(Sizes) \in Nat /\ Room(Sizes) \in Nat /\ Packed(Sizes) <= Room(Sizes)
<1>1. PICK order : Numbering(order, tree, sender, mapping, f_data)
  BY DEF Serial, PackWorkerData
<1>2. IsFiniteSet(f_data)
  BY <1>1, DataFinite DEF Serial
<1>3. Len(mapping) \in Nat
  BY <1>1, LenProperties DEF Numbering, Mappings
<1>4. Cardinality(f_data) \in Nat
  BY <1>2, FS_CardinalityType
<1>5. ASSUME NEW S PROVE EntriesWith(S) \in Nat
  <2> DEFINE E == {f \in f_data : mapping[f.id + 1].function \in S}
  <2>1. E \in SUBSET f_data
    OBVIOUS
  <2> HIDE DEF E
  <2>2. Cardinality(E) \in Nat
    BY <1>2, <2>1, FS_Subset, FS_CardinalityType
  <2> QED
    BY <2>2 DEF E, EntriesWith
<1>6. NumMetrics * Cardinality(f_data) \in Nat
  BY <1>4, TransferAssumption
<1> DEFINE s == Sizes
<1>7. /\ s.mapping \in Nat /\ s.function \in Nat /\ s.message \in Nat /\ s.collop \in Nat
      /\ s.metric \in Nat
  BY <1>3, <1>4, <1>5, <1>6 DEF Sizes
<1> HIDE DEF s
<1>8. Packed(s) \in Nat /\ Room(s) \in Nat /\ Packed(s) <= Room(s)
  <2>1. \A m, f, p, c, k \in Nat :
          LET used == 1 + 3 * m + 1 + 5 * f + 1 + 6 * p + 1 + 6 * c + 1 + (4 + 2) * k + 1
              room == 6 + 3 * m + (3 + 2) * f + 6 * p + 6 * c + 7 * k
          IN  used \in Nat /\ room \in Nat /\ used <= room
    OBVIOUS
  <2> QED
    BY <1>7, <2>1, Zenon DEF Packed, Room
<1> QED
  BY <1>8 DEF s

BuffersType ==
  position \in Nat /\ bytesize \in Nat /\ packBufferSize \in [{0} \cup Senders -> Nat]

LEMMA Guaranteed ==
  ASSUME packBufferSize \in [{0} \cup Senders -> Nat], NEW rank \in {0} \cup Senders,
         NEW size \in Nat, GuaranteePackBuffer(rank, size)
  PROVE  packBufferSize' \in [{0} \cup Senders -> Nat] /\ size <= packBufferSize'[rank]
BY DEF GuaranteePackBuffer

LEMMA BuffersInit == Init => BuffersType /\ BufferHolds
BY DEF Init, BuffersType, BufferHolds

LEMMA BuffersStep ==
  ASSUME Serial, BuffersType, BufferHolds, [Next]_vars PROVE BuffersType' /\ BufferHolds'
<1> USE DEF BuffersType
<1>0. sender \in {0} \cup Senders
  BY DEF Serial
<1>1. CASE PackWorkerData
  <2>1. /\ pc' = "receive" /\ bytesize' = Room(Sizes) /\ position' = Packed(Sizes)
        /\ GuaranteePackBuffer(sender, Room(Sizes)) /\ sender' = sender
    BY <1>1 DEF PackWorkerData, serial
  <2>2. Packed(Sizes) \in Nat /\ Room(Sizes) \in Nat /\ Packed(Sizes) <= Room(Sizes)
    BY <1>1, PackedFits
  <2>3. packBufferSize' \in [{0} \cup Senders -> Nat] /\ Room(Sizes) <= packBufferSize'[sender]
    BY <1>0, <2>1, <2>2, Guaranteed
  <2> QED
    BY <2>1, <2>2, <2>3 DEF BufferHolds
<1>2. CASE PrepareWorkerData
  <2>1. /\ pc' = "rebuild" /\ GuaranteePackBuffer(0, bytesize) /\ UNCHANGED <<position, bytesize>>
    BY <1>2 DEF PrepareWorkerData
  <2>2. packBufferSize' \in [{0} \cup Senders -> Nat] /\ bytesize <= packBufferSize'[0]
    BY <2>1, Guaranteed
  <2> QED
    BY <2>1, <2>2 DEF BufferHolds
<1>3. CASE UNCHANGED buffers /\ UNCHANGED pc /\ UNCHANGED sender
  BY <1>3 DEF buffers, BufferHolds
<1>4. CASE UNCHANGED buffers /\ pc = "rebuild" /\ pc' = "merge"
  BY <1>4 DEF buffers, BufferHolds
<1>5. CASE UNCHANGED buffers /\ pc' \notin {"receive", "rebuild", "merge"}
  BY <1>5 DEF buffers, BufferHolds
<1>6. ASSUME SerializeNode \/ SerializeReturn \/ RebuildNode \/ MergeNode \/ TakeOver
             \/ MergeReturn
      PROVE  UNCHANGED buffers /\ UNCHANGED pc /\ UNCHANGED sender
  BY <1>6 DEF SerializeNode, SerializeReturn, RebuildNode, MergeNode, TakeOver, MergeReturn, serial
<1>7. ASSUME NextSender \/ Begin \/ Visit \/ Climb \/ End
      PROVE  UNCHANGED buffers /\ pc' \notin {"receive", "rebuild", "merge"}
  BY <1>7 DEF NextSender, Begin, Visit, Climb, End
<1>8. CASE UNCHANGED vars
  BY <1>3, <1>8 DEF vars, serial, buffers
<1> QED
  BY <1>1, <1>2, <1>3, <1>4, <1>5, <1>6, <1>7, <1>8 DEF Next, Terminated, UnpackFunctionData

(* However many trees a rank receives, what is packed fits what is         *)
(* reserved for it on both ranks.                                          *)
THEOREM SpecBufferHolds == Spec => []BufferHolds
<1>1. Init => Serial /\ BuffersType /\ BufferHolds
  BY SerialInit, BuffersInit
<1>2. Serial /\ BuffersType /\ BufferHolds /\ [Next]_vars => (Serial /\ BuffersType /\ BufferHolds)'
  BY SerialStep, BuffersStep
<1> QED
  BY <1>1, <1>2, PTL DEF Spec

-----------------------------------------------------------------------------
(* Prefixes.  q extends p: it starts with p.                               *)
Extends(q, p) == Len(p) <= Len(q) /\ \A j \in 1 .. Len(p) : q[j] = p[j]

LEMMA ExtendsBasics ==
  /\ \A p \in Seq(Functions) : Extends(p, p) /\ Extends(p, <<>>)
  /\ \A p, q, r \in Seq(Functions) : Extends(r, q) /\ Extends(q, p) => Extends(r, p)
  /\ \A p, q \in Seq(Functions) : Extends(q, p) /\ Len(q) = Len(p) => q = p
  /\ \A p, q, r \in Seq(Functions) :
       Extends(r, p) /\ Extends(r, q) /\ Len(p) <= Len(q) => Extends(q, p)
<1>0. \A p \in Seq(Functions) : Len(p) \in Nat
  BY LenProperties
<1>1. \A p \in Seq(Functions) : Extends(p, p) /\ Extends(p, <<>>)
  BY <1>0 DEF Extends
<1>2. ASSUME NEW p \in Seq(Functions), NEW q \in Seq(Functions), NEW r \in Seq(Functions),
             Extends(r, q) /\ Extends(q, p)
      PROVE  Extends(r, p)
  BY <1>0, <1>2 DEF Extends
<1>3. ASSUME NEW p \in Seq(Functions), NEW q \in Seq(Functions), Extends(q, p) /\ Len(q) = Len(p)
      PROVE  q = p
  BY <1>3, SeqEqual DEF Extends
<1>4. ASSUME NEW p \in Seq(Functions), NEW q \in Seq(Functions), NEW r \in Seq(Functions),
             Extends(r, p) /\ Extends(r, q) /\ Len(p) <= Len(q)
      PROVE  Extends(q, p)
  BY <1>0, <1>4 DEF Extends
<1> QED
  BY <1>1, <1>2, <1>3, <1>4

LEMMA ExtendsFront ==
  ASSUME NEW q \in Paths
  PROVE  /\ Extends(q, Front(q))
         /\ \A p \in Seq(Functions) : Extends(q, p) /\ q # p => Extends(Front(q), p) /\ Len(p) < Len(q)
<1>1. /\ Front(q) \in Seq(Functions) /\ Len(Front(q)) = Len(q) - 1
      /\ Len(q) \in Nat /\ Len(q) >= 1
      /\ \A j \in 1 .. Len(q) - 1 : Front(q)[j] = q[j]
  BY PathParts
<1>2. Extends(q, Front(q))
  BY <1>1 DEF Extends
<1>3. ASSUME NEW p \in Seq(Functions), Extends(q, p), q # p
      PROVE  Extends(Front(q), p) /\ Len(p) < Len(q)
  <2>1. Len(p) \in Nat /\ Len(p) <= Len(q)
    BY <1>3 DEF Extends
  <2>2. Len(p) # Len(q)
    BY <1>3, ExtendsBasics DEF Paths
  <2>3. Len(p) <= Len(q) - 1 /\ Len(p) < Len(q)
    BY <1>1, <2>1, <2>2
  <2>4. \A j \in 1 .. Len(p) : j \in 1 .. Len(q) - 1
    BY <1>1, <2>1, <2>3
  <2> QED
    BY <1>1, <1>3, <2>3, <2>4 DEF Extends
<1> QED
  BY <1>2, <1>3

(* A tree has the prefixes of its call paths.                              *)
LEMMA PrefixIn ==
  ASSUME NEW T \in SUBSET Paths, \A p \in T : Len(p) > 1 => Front(p) \in T,
         NEW q \in T, NEW i \in 1 .. Len(q)
  PROVE  SubSeq(q, 1, i) \in T
<1> DEFINE n == Len(q)
           at(j) == SubSeq(q, 1, n - j)
           Bad == {j \in 0 .. n - 1 : at(j) \notin T}
<1>1. q \in Paths /\ n \in Nat /\ n >= 1
  BY PathParts
<1>2. Bad = {}
  <2> SUFFICES ASSUME Bad # {} PROVE FALSE
    OBVIOUS
  <2>1. Bad \subseteq Nat
    OBVIOUS
  <2> HIDE DEF Bad
  <2>2. PICK m \in Bad : \A j \in Bad : m <= j
    BY <2>1, LeastNumber
  <2>3. m \in 0 .. n - 1 /\ at(m) \notin T
    BY DEF Bad
  <2>4. m # 0
    <3>1. n - 0 = n /\ SubSeq(q, 1, n) = q
      BY <1>1, InitialParts
    <3> QED
      BY <2>3, <3>1
  <2>5. m - 1 \in 0 .. n - 1 /\ ~(m <= m - 1) /\ n - (m - 1) = (n - m) + 1
        /\ n - m \in 1 .. n - 1 /\ n - m \in 1 .. n /\ (n - m) + 1 \in 1 .. n
    BY <1>1, <2>3, <2>4
  <2>6. at(m - 1) \in T
    BY <2>2, <2>5 DEF Bad
  <2>7. at(m - 1) = SubSeq(q, 1, (n - m) + 1)
    BY <2>5
  <2> DEFINE s == SubSeq(q, 1, n - m)
             f == q[(n - m) + 1]
  <2>8. at(m - 1) = Append(s, f)
    BY <1>1, <2>5, <2>7, InitialParts
  <2>9. s \in Paths /\ Len(s) = n - m /\ f \in Functions
    <3>1. q \in Seq(Functions) /\ (n - m) + 1 \in 1 .. Len(q)
      BY <1>1, <2>5 DEF Paths
    <3>2. f \in Functions
      BY <3>1, ElementOfSeq
    <3> QED
      BY <1>1, <2>5, <3>2, Initial
  <2>10. Front(Append(s, f)) = s /\ Len(Append(s, f)) = Len(s) + 1
    BY <2>9, Extended DEF Paths
  <2>11. Len(Append(s, f)) > 1
    BY <2>5, <2>9, <2>10
  <2>12. s \in T
    BY <2>6, <2>8, <2>10, <2>11
  <2> QED
    BY <2>3, <2>12
<1>3. n - i \in 0 .. n - 1 /\ n - (n - i) = i
  BY <1>1
<1>4. at(n - i) \in T
  BY <1>2, <1>3
<1> QED
  BY <1>3, <1>4

(* Below a call path on the way to q is another one.                       *)
LEMMA NextOnWay ==
  ASSUME NEW T \in SUBSET Paths, \A p \in T : Len(p) > 1 => Front(p) \in T,
         NEW q \in T, NEW p \in Seq(Functions), Extends(q, p), q # p
  PROVE  \E c \in T : Front(c) = p /\ Extends(q, c)
<1> DEFINE i == Len(p) + 1
           c == SubSeq(q, 1, i)
<1>1. Len(p) \in Nat /\ Len(p) < Len(q) /\ Len(q) \in Nat /\ q \in Paths
  BY ExtendsFront, PathParts
<1>2. i \in 1 .. Len(q) /\ i \in Nat
  BY <1>1
<1>3. c \in T /\ Len(c) = i /\ \A j \in 1 .. i : c[j] = q[j]
  BY <1>1, <1>2, PrefixIn, Initial
<1>4. Extends(q, c)
  BY <1>1, <1>2, <1>3 DEF Extends
<1>5. /\ Front(c) \in Seq(Functions) /\ Len(Front(c)) = Len(c) - 1
      /\ \A j \in 1 .. Len(c) - 1 : Front(c)[j] = c[j]
  BY <1>3, PathParts
<1> HIDE DEF c
<1>6. Len(Front(c)) = Len(p)
  BY <1>1, <1>3, <1>5
<1>7. \A j \in 1 .. Len(p) : Front(c)[j] = p[j]
  <2>1. \A j \in 1 .. Len(p) : j \in 1 .. Len(c) - 1 /\ j \in 1 .. i
    BY <1>1, <1>3
  <2> QED
    BY <1>3, <1>5, <2>1 DEF Extends
<1>8. Front(c) = p
  BY <1>5, <1>6, <1>7, SeqEqual
<1> QED
  BY <1>3, <1>4, <1>8

-----------------------------------------------------------------------------
(* The invariant of the objects.  The own tree is linked in both           *)
(* directions and has one object for a call path.                          *)
Own == Reach(roots)
SentObjects(k, T) == {<<k, p>> : p \in T}
Entries(L, D) == UNION {{<<o[2], l>> : l \in D[o]} : o \in L}

Linked(L, from, C, P) ==
  /\ Forest(L, from, C)
  /\ \A o \in L : \A c \in C[o] : P[c] = o
  /\ \A o \in from : P[o] = Null
  /\ \A o, q \in L : o[2] = q[2] => o = q

(* The objects made for the call paths T out of a message of k.            *)
MessageTree(k, T, from, C) ==
  /\ from = SentObjects(k, Under(T, <<>>))
  /\ \A p \in T : C[<<k, p>>] = SentObjects(k, Under(T, p))

Shape ==
  /\ Objects \subseteq AllObjects /\ DOMAIN children = Objects /\ DOMAIN node_data = Objects
  /\ \A o \in Objects : o[1] <= sender
  /\ Linked(Own, roots, children, parent)

(* Between two messages there are no objects but those of the own tree.    *)
Apart ==
  /\ pc \in {"serialize", "receive", "rebuild"} => \A o \in Own : o[1] < sender
  /\ pc \notin {"rebuild", "merge"} => Objects = Own /\ node_of = <<>> /\ tmp_roots = {}
  /\ pc # "merge" => Entries(Own, node_data) = expected

Built == {Order[i] : i \in 1 .. Len(node_of)}
Rebuilding ==
  /\ node_of \in Seq(Objects) /\ Len(node_of) <= Len(mapping)
  /\ \A i \in 1 .. Len(node_of) : node_of[i] = <<sender, Order[i]>>
  /\ Objects = Own \cup SentObjects(sender, Built)
  /\ MessageTree(sender, Built, tmp_roots, children)
  /\ \A p \in Built : /\ parent[<<sender, p>>] = Object(sender, Front(p))
                      /\ node_data[<<sender, p>>] = {}

Received ==
  /\ node_of \in Seq(Objects)
  /\ Objects = Own \cup SentObjects(sender, tree)
  /\ MessageTree(sender, tree, tmp_roots, children)
  /\ \A p \in tree :
       /\ node_data[<<sender, p>>] = LocationsOf[sender][p]
       /\ <<sender, p>> \notin Own => parent[<<sender, p>>] = Object(sender, Front(p))
  /\ Entries(Own, node_data) \cup SentEntries = expected

(* A merge is at a call path as long as it, or one it extends, is on the   *)
(* list of an open call; after that the own tree has what was sent for it. *)
PathOf(o) == IF o = Null THEN <<>> ELSE o[2]
Pending(p, calls) == \E i \in 1 .. Len(calls) : \E c \in calls[i].left : Extends(p, c[2])
There(p, k, L, D) == \E o \in L : o[2] = p /\ LocationsOf[k][p] \subseteq D[o]

OpenMerges(calls, k, T, L) ==
  /\ calls \in Seq(Calls(L \cup {Null}, SUBSET SentObjects(k, T))) /\ Len(calls) >= 1
  /\ \A i \in 1 .. Len(calls) :
       /\ Len(PathOf(calls[i].node)) = i - 1
       /\ calls[i].node # Null => calls[i].node[1] # k
       /\ \A c \in calls[i].left : Front(c[2]) = PathOf(calls[i].node)
       /\ \A j \in i .. Len(calls) : Extends(PathOf(calls[j].node), PathOf(calls[i].node))
       /\ i < Len(calls) => <<k, PathOf(calls[i + 1].node)>> \notin calls[i].left
Merging ==
  /\ OpenMerges(frames, sender, tree, Own)
  /\ \A p \in tree : IF Pending(p, frames) THEN <<sender, p>> \notin Own
                     ELSE There(p, sender, Own, node_data)

Trees ==
  /\ Shape /\ Apart
  /\ pc = "rebuild" => Rebuilding
  /\ pc = "merge" => Received /\ Merging

LEMMA OwnIn == Own \subseteq Objects
BY DEF Own, Reach

LEMMA OwnNext ==
  ASSUME DOMAIN parent' \in SUBSET AllObjects, NEW L, L \subseteq DOMAIN parent',
         Linked(L, roots', children', parent')
  PROVE  Own' = L
<1>1. Own' = Reached(roots', DOMAIN parent', children')
  BY DEF Own, Reach, Reached, Chain, Objects
<1>2. Forest(L, roots', children')
  BY DEF Linked
<1> HIDE DEF Own
<1>3. Reached(roots', DOMAIN parent', children') = L
  BY <1>2, ReachedIs
<1> QED
  BY <1>1, <1>3

LEMMA SameOwn ==
  ASSUME roots' = roots, parent' = parent, children' = children PROVE Own' = Own
BY DEF Own, Reach, Objects

(* What is made out of a message is a tree.                                *)
LEMMA MessageForest ==
  ASSUME NEW k \in {0} \cup Senders, NEW T \in SUBSET Paths,
         \A p \in T : Len(p) > 1 => Front(p) \in T,
         NEW from, NEW C, MessageTree(k, T, from, C)
  PROVE  Forest(SentObjects(k, T), from, C) /\ SentObjects(k, T) \in SUBSET AllObjects
<1> DEFINE L == SentObjects(k, T)
<1>1. /\ from = {<<k, p>> : p \in {q \in T : Front(q) = <<>>}}
      /\ \A p \in T : C[<<k, p>>] = {<<k, q>> : q \in {q \in T : Front(q) = p}}
  <2>1. \A p \in T : p \in Seq(Functions)
    BY DEF Paths
  <2>2. /\ Under(T, <<>>) = {q \in T : Front(q) = <<>>}
        /\ \A p \in T : Under(T, p) = {q \in T : Front(q) = p}
    BY <2>1, UnderIs, EmptySeq
  <2> QED
    BY <2>2 DEF MessageTree, SentObjects
<1>2. from \subseteq L
  BY <1>1 DEF SentObjects
<1>3. \A o \in from : Len(o[2]) = 1
  BY <1>1, PathParts
<1>4. ASSUME NEW p \in T
      PROVE  /\ C[<<k, p>>] \subseteq L
             /\ \A c \in C[<<k, p>>] : c[2] = Append(p, Function(c))
             /\ <<k, p>> \in from \/ \E q \in L : <<k, p>> \in C[q]
  <2>1. C[<<k, p>>] \subseteq L
    BY <1>1 DEF SentObjects
  <2>2. \A c \in C[<<k, p>>] : c[2] = Append(p, Function(c))
    BY <1>1, PathParts DEF Function
  <2>3. CASE Len(p) = 1
    <3>1. Front(p) = <<>>
      BY <2>3, PathParts
    <3> QED
      BY <1>1, <2>1, <2>2, <3>1
  <2>4. CASE Len(p) > 1
    <3>1. Front(p) \in T /\ <<k, Front(p)>> \in L /\ <<k, p>> \in C[<<k, Front(p)>>]
      BY <1>1, <2>4 DEF SentObjects
    <3> QED
      BY <2>1, <2>2, <3>1
  <2>5. Len(p) = 1 \/ Len(p) > 1
    BY PathParts
  <2> QED
    BY <2>1, <2>2, <2>3, <2>4, <2>5
<1>5. Forest(L, from, C)
  BY <1>2, <1>3, <1>4 DEF Forest, SentObjects
<1>6. L \in SUBSET AllObjects
  BY DEF SentObjects, AllObjects
<1> QED
  BY <1>5, <1>6

(* Nothing has been received yet.                                          *)
LEMMA TreesInit == Init => Trees
<1> SUFFICES ASSUME Init PROVE Trees
  OBVIOUS
<1>1. PICK T \in OwnTrees :
        /\ roots = {<<0, p>> : p \in Under(T, <<>>)}
        /\ parent = [o \in {<<0, p>> : p \in T} |-> Object(0, Front(o[2]))]
        /\ children = [o \in {<<0, p>> : p \in T} |-> {<<0, p>> : p \in Under(T, o[2])}]
  BY DEF Init
<1>2. T \in SUBSET Paths /\ \A p \in T : Len(p) > 1 => Front(p) \in T
  BY TransferAssumption DEF Paths, Closed
<1> DEFINE L == SentObjects(0, T)
<1>3. /\ Objects = L /\ DOMAIN children = L
      /\ \A p \in T : parent[<<0, p>>] = Object(0, Front(p))
      /\ MessageTree(0, T, roots, children)
  <2>1. Objects = L /\ DOMAIN children = L
    BY <1>1 DEF Objects, SentObjects
  <2>2. \A p \in T : /\ parent[<<0, p>>] = Object(0, Front(p))
                     /\ children[<<0, p>>] = SentObjects(0, Under(T, p))
    BY <1>1 DEF SentObjects
  <2>3. roots = SentObjects(0, Under(T, <<>>))
    BY <1>1 DEF SentObjects
  <2> QED
    BY <2>1, <2>2, <2>3 DEF MessageTree
<1>4. Forest(L, roots, children) /\ L \in SUBSET AllObjects
  BY <1>2, <1>3, MessageForest
<1>5. Own = L
  <2>1. Own = Reached(roots, Objects, children)
    BY ReachIs DEF Own
  <2> HIDE DEF L
  <2> QED
    BY <1>3, <1>4, <2>1, ReachedIs
<1>6. Linked(L, roots, children, parent)
  <2>1. ASSUME NEW p \in T
        PROVE  \A c \in children[<<0, p>>] : parent[c] = <<0, p>>
    <3>1. p \in Paths /\ p # <<>> /\ p \in Seq(Functions)
      BY <1>2 DEF Paths
    <3>2. Under(T, p) = {q \in T : Front(q) = p}
      BY <1>2, <3>1, UnderIs
    <3> QED
      BY <1>3, <3>1, <3>2 DEF MessageTree, SentObjects, Object
  <2>2. \A o \in roots : parent[o] = Null
    <3>1. Under(T, <<>>) = {q \in T : Front(q) = <<>>}
      BY <1>2, UnderIs, EmptySeq
    <3> QED
      BY <1>3, <3>1 DEF MessageTree, SentObjects, Object
  <2>3. \A o, q \in L : o[2] = q[2] => o = q
    BY DEF SentObjects
  <2> QED
    BY <1>4, <2>1, <2>2, <2>3 DEF Linked, SentObjects
<1>7. /\ pc = "serialize" /\ sender = 1 /\ node_of = <<>> /\ tmp_roots = {}
      /\ DOMAIN node_data = Objects /\ expected = EntriesOf(Objects)
  BY DEF Init
<1>8. \A o \in L : o[1] = 0
  BY DEF SentObjects
<1>9. Shape
  BY <1>3, <1>4, <1>5, <1>6, <1>7, <1>8 DEF Shape
<1>10. Apart
  BY <1>3, <1>5, <1>7, <1>8 DEF Apart, EntriesOf, Entries
<1> QED
  BY <1>7, <1>9, <1>10 DEF Trees

(* Steps that leave the nodes alone.                                       *)
LEMMA IdleStep ==
  ASSUME Trees, UNCHANGED <<roots, nodes, node_of, tmp_roots, expected>>,
         UNCHANGED sender
  PROVE  /\ Own' = Own /\ Shape'
         /\ /\ pc' \in {"serialize", "receive", "rebuild"} => pc \in {"serialize", "receive", "rebuild"}
            /\ pc' \notin {"rebuild", "merge"} => pc \notin {"rebuild", "merge"}
            /\ pc' # "merge" => pc # "merge"
            => Apart'
<1>1. /\ roots' = roots /\ parent' = parent /\ children' = children /\ node_data' = node_data
      /\ node_of' = node_of /\ tmp_roots' = tmp_roots /\ expected' = expected /\ sender' = sender
  BY DEF nodes
<1>2. Own' = Own
  BY <1>1, SameOwn
<1> HIDE DEF Own
<1>3. Shape'
  BY <1>1, <1>2 DEF Trees, Shape, Objects
<1> QED
  BY <1>1, <1>2, <1>3 DEF Trees, Apart, Objects

LEMMA PrepareTrees == Trees /\ Serial /\ PrepareWorkerData => Trees'
<1> SUFFICES ASSUME Trees, Serial, PrepareWorkerData PROVE Trees'
  OBVIOUS
<1>1. /\ pc = "receive" /\ pc' = "rebuild" /\ node_of' = <<>> /\ tmp_roots' = {}
      /\ UNCHANGED <<roots, nodes, expected, sender, mapping>>
  BY DEF PrepareWorkerData, serial
<1>2. Apart /\ Objects = Own /\ node_of = <<>> /\ tmp_roots = {}
  BY <1>1 DEF Trees, Apart
<1>3. Own' = Own /\ Shape' /\ Apart'
  BY <1>1, <1>2, IdleStep
<1>4. Objects' = Objects
  BY <1>1 DEF Objects, nodes
<1>5. Built' = {}
  <2>1. 1 .. Len(<<>>) = {}
    BY EmptySeq
  <2> QED
    BY <1>1, <2>1 DEF Built
<1>6. Rebuilding'
  <2>1. Len(mapping) \in Nat
    BY <1>1, LenProperties DEF Serial, Numbered, Numbering, Mappings
  <2>2. /\ <<>> \in Seq(Objects') /\ Len(<<>>) = 0 /\ 0 <= Len(mapping')
        /\ 1 .. Len(<<>>) = {}
    BY <1>1, <2>1, EmptySeq
  <2>3. /\ SentObjects(sender', {}) = {} /\ Under({}, <<>>) = {}
        /\ Objects' = Own' \cup SentObjects(sender', {})
    BY <1>2, <1>3, <1>4 DEF SentObjects, Under
  <2>4. MessageTree(sender', {}, tmp_roots', children')
    BY <1>1, <2>3 DEF MessageTree
  <2> HIDE DEF Own
  <2> QED
    BY <1>1, <1>5, <2>2, <2>3, <2>4 DEF Rebuilding
<1> QED
  BY <1>1, <1>3, <1>6 DEF Trees

(* Whatever is numbered is a call path of the tree.                        *)
MappingOf(order, T, map) ==
  /\ Len(order) = Len(map) /\ Len(map) \in Nat
  /\ \A i, j \in 1 .. Len(map) : order[i] = order[j] => i = j
  /\ \A i \in 1 .. Len(map) :
       /\ order[i] \in T /\ order[i] \in Paths
       /\ map[i].function = Last(order[i]) /\ map[i].function \in Functions
       /\ map[i].parent \in Int
       /\ Len(order[i]) = 1 => map[i].parent = NoParent
       /\ Len(order[i]) # 1 => /\ map[i].parent + 1 \in 1 .. i - 1
                               /\ order[map[i].parent + 1] = Front(order[i])

LEMMA NumberingParts ==
  ASSUME NEW T \in SUBSET Paths, NEW k, NEW map, NEW data, NEW order,
         Numbering(order, T, k, map, data)
  PROVE  MappingOf(order, T, map)
<1>1. /\ order \in Seq(T) /\ map \in Mappings /\ Len(order) = Len(map)
      /\ \A i, j \in 1 .. Len(order) : order[i] = order[j] => i = j
      /\ \A i \in 1 .. Len(order) :
           map[i].function = Last(order[i]) /\ ParentNumbered(order, map, i)
  BY DEF Numbering
<1>2. Len(map) \in Nat
  BY <1>1, LenProperties
<1>3. ASSUME NEW i \in 1 .. Len(map)
      PROVE  /\ order[i] \in T /\ order[i] \in Paths
             /\ map[i].function \in Functions /\ map[i].parent \in Int
  <2>1. order[i] \in T
    BY <1>1, ElementOfSeq
  <2>2. map[i] \in [function : Functions, parent : Int]
    BY <1>1, ElementOfSeq DEF Mappings
  <2> QED
    BY <2>1, <2>2
<1> QED
  BY <1>1, <1>2, <1>3 DEF ParentNumbered, MappingOf

LEMMA LinkedSame ==
  ASSUME NEW L, NEW from, NEW C, NEW P, Linked(L, from, C, P),
         NEW C2, NEW P2, \A o \in L : C2[o] = C[o] /\ P2[o] = P[o]
  PROVE  Linked(L, from, C2, P2)
<1>1. /\ from \subseteq L
      /\ \A o \in L : C[o] \subseteq L
  BY DEF Linked, Forest
<1>2. Forest(L, from, C2)
  BY DEF Linked, Forest
<1>3. \A o \in L : \A c \in C2[o] : P2[c] = o
  BY <1>1 DEF Linked
<1>4. \A o \in from : P2[o] = Null
  BY <1>1 DEF Linked
<1> QED
  BY <1>2, <1>3, <1>4 DEF Linked

LEMMA EntriesSame ==
  ASSUME NEW L, NEW D, NEW E, \A o \in L : D[o] = E[o] PROVE Entries(L, D) = Entries(L, E)
BY DEF Entries

LEMMA RebuildTrees == Trees /\ Serial /\ RebuildNode => Trees'
<1> SUFFICES ASSUME Trees, Serial, RebuildNode PROVE Trees'
  OBVIOUS
<1> DEFINE n == Len(node_of)
           m == mapping[n + 1]
           above == IF m.parent + 1 \in DOMAIN node_of THEN node_of[m.parent + 1] ELSE Null
           self == <<sender, Append(IF above = Null THEN <<>> ELSE above[2], m.function)>>
           there == IF above = Null THEN {} ELSE {o \in children[above] : Function(o) = m.function}
<1>1. /\ pc = "rebuild" /\ pc' = "rebuild" /\ n < Len(mapping)
      /\ UNCHANGED <<roots, expected, sender, tree, mapping, f_data>>
      /\ there = {} =>
           /\ node_of' = Append(node_of, self)
           /\ tmp_roots' = tmp_roots \cup IF above = Null THEN {self} ELSE {}
           /\ parent' = [o \in Objects \cup {self} |-> IF o = self THEN above ELSE parent[o]]
           /\ children' = [o \in Objects \cup {self} |->
                             CASE o = self  -> {}
                               [] o = above -> children[o] \cup {self}
                               [] OTHER     -> children[o]]
           /\ node_data' = [o \in Objects \cup {self} |-> IF o = self THEN {} ELSE node_data[o]]
  BY DEF RebuildNode, serial
<1>20. n = Len(node_of)
  OBVIOUS
<1> HIDE DEF n, m, above, self, there
<1>2. /\ node_of \in Seq(Objects) /\ n \in Nat
      /\ \A i \in 1 .. n : node_of[i] = <<sender, Order[i]>>
      /\ Objects = Own \cup SentObjects(sender, Built)
      /\ MessageTree(sender, Built, tmp_roots, children)
      /\ \A q \in Built : /\ parent[<<sender, q>>] = Object(sender, Front(q))
                          /\ node_data[<<sender, q>>] = {}
  BY <1>1, <1>20, LenProperties DEF Trees, Rebuilding
<1>3. Shape /\ Apart /\ Own \subseteq Objects
  BY OwnIn DEF Trees
<1>4. PICK order : order = Order
  OBVIOUS
<1>5. /\ sender \in Senders /\ tree \in SUBSET Paths /\ Order' = Order
      /\ \A q \in tree : Len(q) > 1 => Front(q) \in tree
      /\ Numbering(order, tree, sender, mapping, f_data)
  <2>1. sender \in Senders /\ tree \in SentTrees[sender]
    BY DEF Serial
  <2>2. Order' = Order
    BY <1>1 DEF Order
  <2> QED
    BY <1>1, <1>4, <2>1, <2>2, TreeFacts DEF Serial, Numbered
<1>6. /\ Len(order) = Len(mapping) /\ Len(mapping) \in Nat
      /\ \A i, j \in 1 .. Len(mapping) : order[i] = order[j] => i = j
      /\ \A i \in 1 .. Len(mapping) :
           /\ order[i] \in tree /\ order[i] \in Paths
           /\ mapping[i].function = Last(order[i]) /\ mapping[i].function \in Functions
           /\ mapping[i].parent \in Int
           /\ Len(order[i]) = 1 => mapping[i].parent = NoParent
           /\ Len(order[i]) # 1 => /\ mapping[i].parent + 1 \in 1 .. i - 1
                                   /\ order[mapping[i].parent + 1] = Front(order[i])
  <2>1. Numbering(order, tree, sender, mapping, f_data)
    BY <1>5
  <2>2. tree \in SUBSET Paths
    BY <1>5
  <2>3. MappingOf(order, tree, mapping)
    BY <2>1, <2>2, NumberingParts
  <2> QED
    BY <2>3, Zenon DEF MappingOf
<1> DEFINE i == n + 1
           p == order[i]
<1>7. /\ i \in 1 .. Len(mapping) /\ p \in tree /\ p \in Paths /\ m.function = Last(p)
      /\ DOMAIN node_of = 1 .. n /\ i - 1 = n
      /\ Built = {order[j] : j \in 1 .. n}
      /\ \A j \in 1 .. n : node_of[j] = <<sender, order[j]>> /\ j \in 1 .. Len(mapping) /\ j # i
  <2>1. i \in 1 .. Len(mapping)
    BY <1>1, <1>2, <1>6
  <2>2. DOMAIN node_of = 1 .. n /\ i - 1 = n
    BY <1>2, <1>20, LenProperties
  <2>3. \A j \in 1 .. n : j \in 1 .. Len(mapping) /\ j # i
    BY <1>1, <1>2, <1>6
  <2>4. p \in tree /\ p \in Paths /\ m.function = Last(p)
    BY <1>6, <2>1 DEF m
  <2>5. Built = {order[j] : j \in 1 .. n}
    BY <1>4, <1>20, Zenon DEF Built
  <2>6. \A j \in 1 .. n : node_of[j] = <<sender, order[j]>>
    BY <1>2, <1>4, Zenon
  <2> QED
    BY <2>1, <2>2, <2>3, <2>4, <2>5, <2>6, Zenon
<1>8. Built \subseteq tree /\ p \notin Built
  BY <1>6, <1>7
<1>9. above = Object(sender, Front(p)) /\ (Front(p) # <<>> => Front(p) \in Built)
  <2>1. CASE Len(p) = 1
    <3>1. Front(p) = <<>> /\ m.parent = NoParent
      BY <1>6, <1>7, <2>1, PathParts DEF m
    <3>2. m.parent + 1 \notin 1 .. n
      BY <1>2, <3>1 DEF NoParent
    <3> QED
      BY <1>7, <3>1, <3>2 DEF Object, above
  <2>2. CASE Len(p) # 1
    <3>1. m.parent + 1 \in 1 .. n /\ order[m.parent + 1] = Front(p) /\ Front(p) # <<>>
      <4>1. mapping[i].parent + 1 \in 1 .. i - 1 /\ order[mapping[i].parent + 1] = Front(p)
        BY <1>6, <1>7, <2>2
      <4> QED
        BY <1>7, <2>2, <4>1, PathParts DEF m
    <3> QED
      BY <1>7, <3>1 DEF Object, above
  <2> QED
    BY <2>1, <2>2
<1>10. self = <<sender, p>> /\ (above = Null <=> Front(p) = <<>>)
  <2>1. p = Append(Front(p), Last(p))
    BY <1>7, PathParts
  <2>2. <<sender, Front(p)>> # Null
    BY DEF Null
  <2>3. CASE Front(p) = <<>>
    <3>1. above = Null
      BY <1>9, <2>3 DEF Object
    <3> QED
      BY <1>7, <2>1, <2>3, <3>1 DEF self
  <2>4. CASE Front(p) # <<>>
    <3>1. above = <<sender, Front(p)>>
      BY <1>9, <2>4 DEF Object
    <3> QED
      BY <1>7, <2>1, <2>2, <2>4, <3>1 DEF self
  <2> QED
    BY <2>3, <2>4
<1> HIDE DEF i, p
<1>11. there = {}
  <2>1. CASE above = Null
    BY <2>1 DEF there
  <2>2. ASSUME above # Null, NEW o \in there PROVE FALSE
    <3>1. Front(p) \in Built /\ above = <<sender, Front(p)>>
      BY <1>9, <1>10, <2>2 DEF Object
    <3>2. o \in children[above] /\ Function(o) = Last(p)
      BY <1>7, <2>2 DEF there
    <3>3. PICK q \in Under(Built, Front(p)) : o = <<sender, q>>
      BY <1>2, <3>1, <3>2 DEF MessageTree, SentObjects
    <3>4. q \in Built /\ Front(q) = Front(p) /\ Last(q) = Last(p)
      BY <3>2, <3>3 DEF Under, Function
    <3>5. q = Append(Front(q), Last(q)) /\ p = Append(Front(p), Last(p))
      BY <1>5, <1>7, <1>8, <3>4, PathParts
    <3> QED
      BY <1>8, <3>4, <3>5
  <2> QED
    BY <2>1, <2>2
<1>12. /\ self \notin Objects /\ \A o \in Own : o # self /\ o # above
       /\ \A o \in Objects : o # Null
  <2>1. \A o \in Own : o[1] < sender
    BY <1>1, <1>3 DEF Apart
  <2>2. \A o \in Objects : o # Null
    BY <1>3 DEF Shape, AllObjects, Null
  <2>3. self \notin SentObjects(sender, Built)
    BY <1>8, <1>10 DEF SentObjects
  <2>4. self[1] = sender /\ (above # Null => above[1] = sender) /\ sender \in Nat
    BY <1>5, <1>9, <1>10, SenderFacts DEF Object
  <2>5. \A o \in Own : o[1] # sender
    BY <2>1, <2>4
  <2> QED
    BY <1>2, <1>3, <2>2, <2>3, <2>4, <2>5
<1>13. /\ node_of' = Append(node_of, self)
       /\ tmp_roots' = tmp_roots \cup IF above = Null THEN {self} ELSE {}
       /\ DOMAIN parent' = Objects \cup {self} /\ DOMAIN children' = Objects \cup {self}
       /\ DOMAIN node_data' = Objects \cup {self}
       /\ \A o \in Objects : /\ parent'[o] = parent[o] /\ node_data'[o] = node_data[o]
                             /\ o # above => children'[o] = children[o]
                             /\ o = above => children'[o] = children[o] \cup {self}
       /\ parent'[self] = above /\ node_data'[self] = {} /\ children'[self] = {}
  <2> HIDE DEF Own
  <2>1. /\ node_of' = Append(node_of, self)
        /\ tmp_roots' = tmp_roots \cup IF above = Null THEN {self} ELSE {}
        /\ parent' = [o \in Objects \cup {self} |-> IF o = self THEN above ELSE parent[o]]
        /\ children' = [o \in Objects \cup {self} |->
                          CASE o = self  -> {}
                            [] o = above -> children[o] \cup {self}
                            [] OTHER     -> children[o]]
        /\ node_data' = [o \in Objects \cup {self} |-> IF o = self THEN {} ELSE node_data[o]]
    BY <1>1, <1>11, Zenon
  <2>2. \A o \in Objects : o # self /\ o \in Objects \cup {self}
    BY <1>12
  <2>3. /\ DOMAIN parent' = Objects \cup {self}
        /\ \A o \in Objects : parent'[o] = parent[o]
        /\ parent'[self] = above
    BY <2>1, <2>2
  <2>4. /\ DOMAIN node_data' = Objects \cup {self}
        /\ \A o \in Objects : node_data'[o] = node_data[o]
        /\ node_data'[self] = {}
    BY <2>1, <2>2
  <2>5. /\ DOMAIN children' = Objects \cup {self}
        /\ \A o \in Objects : /\ o # above => children'[o] = children[o]
                              /\ o = above => children'[o] = children[o] \cup {self}
        /\ children'[self] = {}
    <3>1. /\ DOMAIN children' = Objects \cup {self}
          /\ \A o \in Objects \cup {self} :
               children'[o] = CASE o = self  -> {}
                                [] o = above -> children[o] \cup {self}
                                [] OTHER     -> children[o]
      BY <2>1
    <3>2. above # self
      <4>1. CASE above = Null
        BY <1>10, <4>1 DEF Null
      <4>2. CASE above # Null
        <5>1. above = <<sender, Front(p)>> /\ Front(p) \in Built /\ self = <<sender, p>>
          BY <1>9, <1>10, <4>2 DEF Object
        <5> QED
          BY <1>8, <5>1
      <4> QED
        BY <4>1, <4>2
    <3>3. self \in Objects \cup {self} /\ children'[self] = {}
      BY <3>1, <3>2
    <3>4. ASSUME NEW o \in Objects
          PROVE  /\ o # above => children'[o] = children[o]
                 /\ o = above => children'[o] = children[o] \cup {self}
      <4>1. o # self /\ o \in Objects \cup {self}
        BY <2>2
      <4>2. children'[o] = CASE o = self  -> {}
                             [] o = above -> children[o] \cup {self}
                             [] OTHER     -> children[o]
        BY <3>1, <4>1
      <4> QED
        BY <4>1, <4>2
    <3> QED
      BY <3>1, <3>3, <3>4
  <2> QED
    BY <2>1, <2>3, <2>4, <2>5
<1>14. Objects' = Objects \cup {self}
  BY <1>13 DEF Objects
<1>15. self \in AllObjects
  BY <1>5, <1>7, <1>10 DEF AllObjects
<1>16. Linked(Own, roots', children', parent')
  <2>1. \A o \in Own : children'[o] = children[o] /\ parent'[o] = parent[o]
    BY <1>3, <1>12, <1>13
  <2>2. Linked(Own, roots, children, parent) /\ roots' = roots
    BY <1>1, <1>3 DEF Shape
  <2> HIDE DEF Own
  <2> QED
    BY <2>1, <2>2, LinkedSame
<1>17. Own' = Own
  <2>1. DOMAIN parent' \in SUBSET AllObjects /\ Own \subseteq DOMAIN parent'
    BY <1>3, <1>13, <1>15 DEF Shape
  <2> HIDE DEF Own
  <2>2. \A L : L \subseteq DOMAIN parent' /\ Linked(L, roots', children', parent') => Own' = L
    BY <2>1, OwnNext
  <2> QED
    BY <1>16, <2>1, <2>2
<1> HIDE DEF Own
<1>18. Shape'
  <2>1. \A o \in Objects' : o[1] <= sender
    BY <1>3, <1>5, <1>10, <1>14, SenderFacts DEF Shape
  <2> QED
    BY <1>1, <1>3, <1>13, <1>14, <1>15, <1>16, <1>17, <2>1 DEF Shape
<1>19. Apart'
  <2>1. Entries(Own, node_data') = Entries(Own, node_data)
    BY <1>3, <1>13, EntriesSame
  <2> QED
    BY <1>1, <1>3, <1>17, <2>1 DEF Apart
<1>21. Built' = Built \cup {p}
  <2>1. Len(node_of') = n + 1
    BY <1>2, <1>13, <1>20, <1>14, AppendProperties
  <2>2. Built' = {order[j] : j \in 1 .. n + 1}
    BY <1>4, <1>5, <2>1 DEF Built
  <2>3. \A j : j \in 1 .. n + 1 <=> j \in 1 .. n \/ j = i
    BY <1>2 DEF i
  <2> QED
    BY <1>7, <2>2, <2>3 DEF p
<1>22. p \in tree /\ p \in Paths /\ self = <<sender, p>>
  BY <1>7, <1>10
<1>23. Built \cup {p} \in SUBSET Paths
  BY <1>5, <1>8, <1>22
<1>24. /\ \A q \in Built : Under(Built \cup {p}, q) =
                           Under(Built, q) \cup IF Front(p) = q THEN {p} ELSE {}
       /\ Under(Built \cup {p}, <<>>) = Under(Built, <<>>) \cup IF Front(p) = <<>> THEN {p} ELSE {}
       /\ Under(Built \cup {p}, p) = {}
  <2>1. \A q \in Built \cup {p, <<>>} : q \in Seq(Functions)
    BY <1>23, EmptySeq DEF Paths
  <2>2. /\ \A q \in Built \cup {p, <<>>} : Under(Built \cup {p}, q) = {r \in Built \cup {p} : Front(r) = q}
        /\ \A q \in Built \cup {p, <<>>} : Under(Built, q) = {r \in Built : Front(r) = q}
    <3>1. Built \in SUBSET Paths
      BY <1>23
    <3> QED
      BY <1>23, <2>1, <3>1, UnderIs
  <2>3. \A q : {r \in Built \cup {p} : Front(r) = q} =
              {r \in Built : Front(r) = q} \cup IF Front(p) = q THEN {p} ELSE {}
    OBVIOUS
  <2>4. Under(Built \cup {p}, p) = {}
    <3> SUFFICES ASSUME NEW r \in Under(Built \cup {p}, p) PROVE FALSE
      OBVIOUS
    <3>1. r \in Built \cup {p} /\ Front(r) = p /\ r \in Paths
      BY <1>23, <2>2
    <3>2. Len(Front(r)) = Len(r) - 1 /\ Len(r) \in Nat /\ (Len(r) = 1 <=> Front(r) = <<>>)
      BY <3>1, PathParts
    <3>3. r # p
      BY <3>1, <3>2
    <3>4. PICK j \in 1 .. n : r = order[j]
      BY <1>7, <3>1, <3>3
    <3>5. Len(r) # 1
      BY <1>22, <3>1, <3>2 DEF Paths
    <3>6. j \in 1 .. Len(mapping) /\ j # i
      BY <1>7, <3>4
    <3>7. mapping[j].parent + 1 \in 1 .. j - 1 /\ order[mapping[j].parent + 1] = p
      BY <1>6, <3>1, <3>4, <3>5, <3>6
    <3> DEFINE e == mapping[j].parent + 1
    <3>8. e \in 1 .. j - 1 /\ order[e] = p
      BY <3>7
    <3> HIDE DEF e
    <3>9. e \in 1 .. n
      BY <1>2, <3>4, <3>8
    <3> QED
      BY <1>7, <1>8, <3>8, <3>9
  <2> QED
    BY <2>2, <2>3, <2>4
<1>25. MessageTree(sender, Built \cup {p}, tmp_roots', children')
  <2>1. tmp_roots' = SentObjects(sender, Under(Built \cup {p}, <<>>))
    <3>1. tmp_roots = SentObjects(sender, Under(Built, <<>>))
      BY <1>2 DEF MessageTree
    <3>2. CASE Front(p) = <<>>
      <4>1. tmp_roots' = SentObjects(sender, Under(Built, <<>>)) \cup {self}
        BY <1>10, <1>13, <3>1, <3>2
      <4>2. Under(Built \cup {p}, <<>>) = Under(Built, <<>>) \cup {p}
        BY <1>24, <3>2
      <4> QED
        BY <1>22, <4>1, <4>2 DEF SentObjects
    <3>3. CASE Front(p) # <<>>
      <4>1. tmp_roots' = tmp_roots
        <5>1. tmp_roots' = tmp_roots \cup IF above = Null THEN {self} ELSE {}
          BY <1>13, Zenon
        <5> QED
          BY <1>10, <3>3, <5>1
      <4>2. Under(Built \cup {p}, <<>>) = Under(Built, <<>>)
        BY <1>24, <3>3, Zenon
      <4> QED
        BY <3>1, <4>1, <4>2, Zenon
    <3> QED
      BY <3>2, <3>3
  <2>2. ASSUME NEW q \in Built
        PROVE  children'[<<sender, q>>] = SentObjects(sender, Under(Built \cup {p}, q))
    <3>1. <<sender, q>> \in Objects
      BY <1>2 DEF SentObjects
    <3>2. children[<<sender, q>>] = SentObjects(sender, Under(Built, q)) /\ q # <<>>
      BY <1>2, <1>23 DEF MessageTree, Paths
    <3>3. <<sender, q>> = above <=> Front(p) = q
      BY <1>9, <3>2 DEF Object, Null
    <3>4. CASE Front(p) = q
      <4>1. children'[<<sender, q>>] = SentObjects(sender, Under(Built, q)) \cup {self}
        BY <1>13, <3>1, <3>2, <3>3, <3>4
      <4>2. Under(Built \cup {p}, q) = Under(Built, q) \cup {p}
        BY <1>24, <3>4
      <4> QED
        BY <1>22, <4>1, <4>2 DEF SentObjects
    <3>5. CASE Front(p) # q
      <4>1. children'[<<sender, q>>] = SentObjects(sender, Under(Built, q))
        BY <1>13, <3>1, <3>2, <3>3, <3>5
      <4>2. Under(Built \cup {p}, q) = Under(Built, q)
        BY <1>24, <3>5
      <4> QED
        BY <4>1, <4>2
    <3> QED
      BY <3>4, <3>5
  <2>3. children'[<<sender, p>>] = SentObjects(sender, Under(Built \cup {p}, p))
    BY <1>13, <1>22, <1>24 DEF SentObjects
  <2> QED
    BY <2>1, <2>2, <2>3 DEF MessageTree
<1>26. \A q \in Built \cup {p} : /\ parent'[<<sender, q>>] = Object(sender, Front(q))
                                 /\ node_data'[<<sender, q>>] = {}
  <2>1. \A q \in Built : <<sender, q>> \in Objects
    BY <1>2 DEF SentObjects
  <2> QED
    BY <1>2, <1>9, <1>13, <1>22, <2>1
<1>27. /\ node_of' \in Seq(Objects') /\ Len(node_of') <= Len(mapping)
       /\ \A j \in 1 .. Len(node_of') : node_of'[j] = <<sender, order[j]>>
  <2>1. node_of \in Seq(Objects \cup {self})
    BY <1>2, ElementOfSeq, SeqDef
  <2>2. /\ node_of' \in Seq(Objects \cup {self}) /\ Len(node_of') = n + 1
        /\ \A j \in 1 .. n : node_of'[j] = node_of[j]
        /\ node_of'[n + 1] = self
    BY <1>13, <1>20, <2>1, AppendProperties
  <2>3. \A j : j \in 1 .. n + 1 => j \in 1 .. n \/ j = n + 1
    BY <1>2
  <2>4. n + 1 <= Len(mapping)
    BY <1>1, <1>2, <1>6
  <2>5. order[n + 1] = p
    BY DEF p, i
  <2> QED
    BY <1>7, <1>14, <1>22, <2>2, <2>3, <2>4, <2>5
<1>28. Objects' = Own \cup SentObjects(sender, Built \cup {p})
  BY <1>2, <1>14, <1>22 DEF SentObjects
<1>29. Rebuilding'
  BY <1>1, <1>4, <1>5, <1>17, <1>21, <1>25, <1>26, <1>27, <1>28 DEF Rebuilding
<1> QED
  BY <1>1, <1>18, <1>19, <1>29 DEF Trees

LEMMA UnpackTrees == Trees /\ Serial /\ UnpackFunctionData => Trees'
<1> SUFFICES ASSUME Trees, Serial, UnpackFunctionData PROVE Trees'
  OBVIOUS
<1> DEFINE found(o) == {f.location : f \in {g \in f_data : node_of[g.id + 1] = o}}
<1>1. /\ pc = "rebuild" /\ pc' = "merge" /\ Len(node_of) = Len(mapping)
      /\ UNCHANGED <<roots, parent, children, node_of, tmp_roots, sender, tree, mapping, f_data>>
      /\ node_data' = [o \in Objects |-> node_data[o] \cup found(o)]
      /\ frames' = <<Call(Null, tmp_roots)>> /\ expected' = expected \cup SentEntries
  BY DEF UnpackFunctionData, serial
<1>2. /\ node_of \in Seq(Objects)
      /\ \A i \in 1 .. Len(node_of) : node_of[i] = <<sender, Order[i]>>
      /\ Objects = Own \cup SentObjects(sender, Built)
      /\ MessageTree(sender, Built, tmp_roots, children)
      /\ \A q \in Built : /\ parent[<<sender, q>>] = Object(sender, Front(q))
                          /\ node_data[<<sender, q>>] = {}
  BY <1>1 DEF Trees, Rebuilding
<1>3. Shape /\ Apart /\ Own \subseteq Objects
  BY OwnIn DEF Trees
<1>4. PICK order : order = Order
  OBVIOUS
<1>5. /\ sender \in Senders /\ tree \in SUBSET Paths
      /\ \A q \in tree : Len(q) > 1 => Front(q) \in tree
      /\ Numbering(order, tree, sender, mapping, f_data)
      /\ \A q \in tree : Has(order, q)
  <2>1. sender \in Senders /\ tree \in SentTrees[sender]
    BY DEF Serial
  <2> QED
    BY <1>1, <1>4, <2>1, TreeFacts DEF Serial, Numbered
<1>6. /\ Len(order) = Len(mapping) /\ Len(mapping) \in Nat
      /\ \A i, j \in 1 .. Len(mapping) : order[i] = order[j] => i = j
      /\ \A i \in 1 .. Len(mapping) : order[i] \in tree
  <2>1. Numbering(order, tree, sender, mapping, f_data)
    BY <1>5
  <2>2. tree \in SUBSET Paths
    BY <1>5
  <2>3. MappingOf(order, tree, mapping)
    BY <2>1, <2>2, NumberingParts
  <2> QED
    BY <2>3, Zenon DEF MappingOf
<1>7. Built = tree
  <2>1. Built = {order[i] : i \in 1 .. Len(mapping)}
    BY <1>1, <1>4 DEF Built
  <2>2. \A q \in tree : \E i \in 1 .. Len(mapping) : order[i] = q
    BY <1>5, <1>6 DEF Has
  <2> QED
    BY <1>6, <2>1, <2>2
<1>8. f_data = UNION {DataOf(order, sender, i) : i \in 1 .. Len(mapping)}
  BY <1>5, <1>6 DEF Numbering
<1>9. \A f \in f_data : \E i \in 1 .. Len(mapping) :
        /\ f.id = i - 1 /\ f.location \in LocationsOf[sender][order[i]]
        /\ node_of[f.id + 1] = <<sender, order[i]>>
  <2> SUFFICES ASSUME NEW f \in f_data
               PROVE  \E i \in 1 .. Len(mapping) :
                        /\ f.id = i - 1 /\ f.location \in LocationsOf[sender][order[i]]
                        /\ node_of[f.id + 1] = <<sender, order[i]>>
    OBVIOUS
  <2>1. PICK i \in 1 .. Len(mapping) : f \in DataOf(order, sender, i)
    BY <1>8
  <2>2. PICK l \in LocationsOf[sender][order[i]] : f = [id |-> i - 1, location |-> l]
    BY <2>1 DEF DataOf, PathData
  <2>3. (i - 1) + 1 = i
    BY <1>6
  <2>4. node_of[i] = <<sender, order[i]>>
    BY <1>1, <1>2, <1>4
  <2> QED
    BY <2>2, <2>3, <2>4
<1>10. \A o \in Own : o[1] < sender /\ o[1] # sender
  <2>1. sender \in Nat
    BY <1>5, SenderFacts
  <2> QED
    BY <1>1, <1>3, <2>1 DEF Apart
<1>11. \A o \in Own : node_data'[o] = node_data[o]
  <2> SUFFICES ASSUME NEW o \in Own PROVE node_data'[o] = node_data[o]
    OBVIOUS
  <2>1. \A f \in f_data : node_of[f.id + 1] # o
    <3> SUFFICES ASSUME NEW f \in f_data PROVE node_of[f.id + 1] # o
      OBVIOUS
    <3>1. PICK i \in 1 .. Len(mapping) : node_of[f.id + 1] = <<sender, order[i]>>
      BY <1>9
    <3>2. o[1] # sender
      BY <1>10
    <3> QED
      BY <3>1, <3>2
  <2>2. found(o) = {}
    BY <2>1
  <2> HIDE DEF found
  <2> QED
    BY <1>1, <1>3, <2>2
<1>12. \A p \in tree : node_data'[<<sender, p>>] = LocationsOf[sender][p]
  <2> SUFFICES ASSUME NEW p \in tree PROVE node_data'[<<sender, p>>] = LocationsOf[sender][p]
    OBVIOUS
  <2>1. PICK i \in 1 .. Len(mapping) : order[i] = p
    BY <1>5, <1>6 DEF Has
  <2>2. <<sender, p>> \in Objects /\ node_data[<<sender, p>>] = {}
    BY <1>2, <1>7 DEF SentObjects
  <2>3. found(<<sender, p>>) \subseteq LocationsOf[sender][p]
    BY <1>9
  <2>4. ASSUME NEW l \in LocationsOf[sender][p] PROVE l \in found(<<sender, p>>)
    <3> DEFINE f == [id |-> i - 1, location |-> l]
    <3>1. f \in DataOf(order, sender, i)
      BY <2>1 DEF DataOf, PathData
    <3>2. f \in f_data
      BY <1>8, <3>1
    <3>3. f.id + 1 = i /\ f.location = l
      BY <1>6
    <3>4. node_of[i] = <<sender, p>>
      BY <1>1, <1>2, <1>4, <2>1
    <3> HIDE DEF f
    <3> QED
      BY <3>2, <3>3, <3>4
  <2>5. found(<<sender, p>>) = LocationsOf[sender][p]
    BY <2>3, <2>4
  <2> HIDE DEF found
  <2> QED
    BY <1>1, <2>2, <2>5
<1>13. Own' = Own /\ Objects' = Objects /\ SentEntries' = SentEntries
  <2>1. SentEntries' = SentEntries
    BY <1>1 DEF SentEntries
  <2> QED
    BY <1>1, SameOwn, <2>1 DEF Objects
<1> HIDE DEF Own, found
<1>14. Shape'
  <2>1. Linked(Own', roots', children', parent')
    BY <1>1, <1>3, <1>13 DEF Shape
  <2> QED
    BY <1>1, <1>3, <1>13, <2>1 DEF Shape
<1>15. Apart'
  BY <1>1 DEF Apart
<1>16. Received'
  <2>1. Entries(Own, node_data') = Entries(Own, node_data) /\ Entries(Own, node_data) = expected
    BY <1>1, <1>3, <1>11, EntriesSame DEF Apart
  <2>2. Entries(Own', node_data') \cup SentEntries' = expected'
    BY <1>1, <1>13, <2>1
  <2>3. \A p \in tree' : /\ node_data'[<<sender', p>>] = LocationsOf[sender'][p]
                         /\ parent'[<<sender', p>>] = Object(sender', Front(p))
    BY <1>1, <1>2, <1>7, <1>12
  <2>4. MessageTree(sender', tree', tmp_roots', children')
    BY <1>1, <1>2, <1>7
  <2>5. node_of' \in Seq(Objects') /\ Objects' = Own' \cup SentObjects(sender', tree')
    BY <1>1, <1>2, <1>7, <1>13
  <2> QED
    BY <2>2, <2>3, <2>4, <2>5 DEF Received
<1>17. tmp_roots = {<<sender, q>> : q \in {r \in tree : Front(r) = <<>>}}
  <2>1. Under(tree, <<>>) = {r \in tree : Front(r) = <<>>}
    BY <1>5, UnderIs, EmptySeq
  <2> QED
    BY <1>2, <1>7, <2>1 DEF MessageTree, SentObjects
<1>18. /\ frames' \in Seq(Calls(Own \cup {Null}, SUBSET SentObjects(sender, tree)))
       /\ Len(frames') = 1 /\ frames'[1].node = Null /\ frames'[1].left = tmp_roots
  BY <1>1, <1>17 DEF Call, Calls, SentObjects
<1>19. OpenMerges(frames', sender, tree, Own)
  <2>1. PathOf(Null) = <<>> /\ Len(<<>>) = 0 /\ <<>> \in Seq(Functions)
    BY EmptySeq DEF PathOf
  <2>2. Extends(<<>>, <<>>) /\ \A i \in 1 .. 1 : i = 1
    <3>1. \A p \in Seq(Functions) : Extends(p, p)
      BY ExtendsBasics
    <3>2. Extends(<<>>, <<>>)
      BY <2>1, <3>1
    <3> QED
      BY <3>2
  <2>3. \A c \in tmp_roots : Front(c[2]) = <<>>
    BY <1>17
  <2> QED
    BY <1>18, <2>1, <2>2, <2>3 DEF OpenMerges
<1>20. ASSUME NEW p \in tree PROVE Pending(p, frames') /\ <<sender, p>> \notin Own
  <2>1. p \in Paths /\ p # <<>> /\ p \in Seq(Functions) /\ <<>> \in Seq(Functions)
    BY <1>5, EmptySeq DEF Paths
  <2>2. Extends(p, <<>>)
    BY <2>1, ExtendsBasics
  <2>3. \E c \in tree : Front(c) = <<>> /\ Extends(p, c)
    <3>1. tree \in SUBSET Paths
      BY <1>5
    <3> QED
      BY <1>5, <2>1, <2>2, <3>1, NextOnWay
  <2>4. PICK c \in tree : Front(c) = <<>> /\ Extends(p, c)
    BY <2>3
  <2>5. <<sender, c>> \in frames'[1].left /\ <<sender, c>>[2] = c /\ 1 \in 1 .. Len(frames')
    BY <1>17, <1>18, <2>4
  <2>6. Pending(p, frames')
    BY <2>4, <2>5 DEF Pending
  <2> QED
    BY <1>10, <2>6
<1>21. Merging'
  BY <1>1, <1>13, <1>19, <1>20 DEF Merging
<1> QED
  BY <1>1, <1>14, <1>15, <1>16, <1>21 DEF Trees

LEMMA FirstIn ==
  ASSUME NEW S \in SUBSET AllObjects, S # {}
  PROVE  First(S) \in S /\ \A q \in S : Function(First(S)) <= Function(q)
<1> DEFINE N == {Function(o) : o \in S}
<1>1. N \subseteq Nat /\ N # {}
  <2>1. \A o \in S : Function(o) \in Functions
    BY PathParts DEF Function, AllObjects
  <2> QED
    BY <2>1, FunctionNumbers
<1> HIDE DEF N
<1>2. PICK n \in N : \A m \in N : n <= m
  BY <1>1, LeastNumber
<1>3. \E o \in S : \A q \in S : Function(o) <= Function(q)
  BY <1>2 DEF N
<1> QED
  BY <1>3 DEF First

(* The child of tmp_tree the merge is at, and what it may match.           *)
MergeAt(c) ==
  /\ c \in Top.left /\ c \in SentObjects(sender, tree) /\ c[2] \in tree /\ c[1] = sender
  /\ c \notin Own /\ Front(c[2]) = PathOf(Top.node) /\ Len(c[2]) = Len(frames)
  /\ Top.node \in Own \cup {Null} /\ (Top.node # Null => Top.node[1] # sender)
  /\ Top = frames[Len(frames)] /\ Len(frames) \in 1 .. Len(frames) /\ Len(frames) \in Nat
  /\ \A o \in Matching(c) : o \in Own /\ o[2] = c[2] /\ o[1] # sender

LEMMA MergeTop ==
  ASSUME Serial, Trees, pc = "merge", Top.left # {} PROVE MergeAt(First(Top.left))
<1> DEFINE n == Len(frames)
           F == Calls(Own \cup {Null}, SUBSET SentObjects(sender, tree))
           c == First(Top.left)
<1>1. Shape /\ Received /\ Merging /\ Own \subseteq Objects
  BY OwnIn DEF Trees
<1>2. /\ sender \in Senders /\ tree \in SUBSET Paths
      /\ \A q \in tree : Len(q) > 1 => Front(q) \in tree
  BY TreeFacts DEF Serial
<1>3. /\ frames \in Seq(F) /\ n >= 1
      /\ \A i \in 1 .. n :
           /\ Len(PathOf(frames[i].node)) = i - 1
           /\ frames[i].node # Null => frames[i].node[1] # sender
           /\ \A d \in frames[i].left : Front(d[2]) = PathOf(frames[i].node)
  BY <1>1 DEF Merging, OpenMerges
<1>4. n \in Nat /\ n \in 1 .. n /\ Top = frames[n]
  BY <1>3, LenProperties DEF Top, Last
<1>5. Top.node \in Own \cup {Null} /\ Top.left \in SUBSET SentObjects(sender, tree)
  <2>1. frames[n] \in F
    BY <1>3, <1>4, ElementOfSeq
  <2> HIDE DEF Own
  <2> QED
    BY <1>4, <2>1 DEF Calls
<1>6. c \in Top.left
  <2>1. Top.left \in SUBSET AllObjects
    BY <1>2, <1>5 DEF SentObjects, AllObjects
  <2> QED
    BY <2>1, FirstIn
<1> HIDE DEF c, F
<1>7. c \in SentObjects(sender, tree) /\ c[2] \in tree /\ c[1] = sender
  BY <1>5, <1>6 DEF SentObjects
<1>8. c \notin Own
  <2>1. Extends(c[2], c[2])
    BY <1>2, <1>7, ExtendsBasics DEF Paths
  <2>2. Pending(c[2], frames)
    BY <1>4, <1>6, <2>1 DEF Pending
  <2>3. <<sender, c[2]>> = c
    BY <1>7 DEF SentObjects
  <2> QED
    BY <1>1, <1>7, <2>2, <2>3 DEF Merging
<1>9. Front(c[2]) = PathOf(Top.node) /\ Len(c[2]) = n
  <2>1. Front(c[2]) = PathOf(Top.node) /\ Len(PathOf(Top.node)) = n - 1
    BY <1>3, <1>4, <1>6
  <2>2. Len(Front(c[2])) = Len(c[2]) - 1 /\ Len(c[2]) \in Nat
    BY <1>2, <1>7, PathParts
  <2> QED
    BY <1>4, <2>1, <2>2
<1>10. ASSUME NEW o \in Matching(c) PROVE o \in Own /\ o[2] = c[2] /\ o[1] # sender
  <2>1. Function(o) = Function(c) /\ o \in IF Top.node = Null THEN roots ELSE children[Top.node]
    BY DEF Matching
  <2>2. Forest(Own, roots, children) /\ Own \in SUBSET AllObjects
    BY <1>1 DEF Shape, Linked
  <2>3. o \in Own /\ Front(o[2]) = PathOf(Top.node)
    <3>1. CASE Top.node = Null
      <4>1. o \in roots /\ o \in Own
        BY <2>1, <2>2, <3>1 DEF Forest
      <4>2. Len(o[2]) = 1 /\ o[2] \in Paths
        BY <2>2, <4>1 DEF Forest, AllObjects
      <4> QED
        BY <3>1, <4>1, <4>2, PathParts DEF PathOf
    <3>2. CASE Top.node # Null
      <4>1. Top.node \in Own /\ o \in children[Top.node]
        BY <1>5, <2>1, <3>2
      <4> HIDE DEF Own
      <4>2. \A q \in Own : \A d \in children[q] :
              d \in Own /\ d[2] \in Paths /\ d[2] = Append(q[2], Function(d)) /\ q[2] \in Paths
        BY <2>2 DEF Forest, AllObjects
      <4>3. /\ o \in Own /\ o[2] \in Paths /\ o[2] = Append(Top.node[2], Function(o))
            /\ Top.node[2] \in Paths
        BY <4>1, <4>2
      <4>4. Function(o) \in Functions
        BY <4>3, PathParts DEF Function
      <4>5. Front(Append(Top.node[2], Function(o))) = Top.node[2]
        BY <4>3, <4>4, Extended DEF Paths
      <4> QED
        BY <3>2, <4>3, <4>5 DEF PathOf
    <3> QED
      BY <3>1, <3>2
  <2>4. o[2] = c[2]
    <3>1. o[2] \in Paths /\ c[2] \in Paths /\ Front(o[2]) = Front(c[2]) /\ Last(o[2]) = Last(c[2])
      BY <1>2, <1>7, <1>9, <2>1, <2>2, <2>3 DEF AllObjects, Function
    <3>2. o[2] = Append(Front(o[2]), Last(o[2])) /\ c[2] = Append(Front(c[2]), Last(c[2]))
      BY <3>1, PathParts
    <3> QED
      BY <3>1, <3>2
  <2>5. o[1] # sender
    <3>1. o \in AllObjects /\ c \in {<<sender, p>> : p \in tree}
      BY <1>7, <2>2, <2>3 DEF SentObjects
    <3>2. o[1] = sender => o = c
      BY <2>4, <3>1 DEF AllObjects
    <3> QED
      BY <1>8, <2>3, <3>2
  <2> QED
    BY <2>3, <2>4, <2>5
<1> HIDE DEF Own
<1> QED
  BY <1>3, <1>4, <1>5, <1>6, <1>7, <1>8, <1>9, <1>10 DEF MergeAt, c

(* A call path is on, or below, one open list only.                        *)
LEMMA OneList ==
  ASSUME NEW k \in Senders, NEW T \in SUBSET Paths, NEW L \in SUBSET AllObjects,
         NEW calls, OpenMerges(calls, k, T, L),
         NEW p \in Paths, NEW c \in calls[Len(calls)].left, Extends(p, c[2]),
         NEW i \in 1 .. Len(calls), NEW d \in calls[i].left, Extends(p, d[2])
  PROVE  d = c
<1> DEFINE n == Len(calls)
           F == Calls(L \cup {Null}, SUBSET SentObjects(k, T))
           at(j) == PathOf(calls[j].node)
<1>1. /\ calls \in Seq(F) /\ n >= 1
      /\ \A j \in 1 .. n :
           /\ Len(at(j)) = j - 1
           /\ \A e \in calls[j].left : Front(e[2]) = at(j)
           /\ \A m \in j .. n : Extends(at(m), at(j))
           /\ j < n => <<k, at(j + 1)>> \notin calls[j].left
  BY DEF OpenMerges
<1>2. n \in Nat /\ n \in 1 .. n
  BY <1>1, LenProperties
<1>3. ASSUME NEW j \in 1 .. n, NEW e \in calls[j].left
      PROVE  e[2] \in T /\ e[2] \in Paths /\ <<k, e[2]>> = e /\ Len(e[2]) = j /\ Front(e[2]) = at(j)
  <2>1. calls[j] \in F
    BY <1>1, ElementOfSeq
  <2>2. e \in SentObjects(k, T)
    BY <2>1 DEF Calls
  <2>3. e[2] \in T /\ e[2] \in Paths /\ <<k, e[2]>> = e
    BY <2>2 DEF SentObjects
  <2>4. Len(Front(e[2])) = Len(e[2]) - 1 /\ Len(e[2]) \in Nat
    BY <2>3, PathParts
  <2>5. Front(e[2]) = at(j) /\ Len(at(j)) = j - 1
    BY <1>1
  <2>6. Len(e[2]) = j
    BY <2>4, <2>5
  <2> QED
    BY <2>3, <2>5, <2>6
<1>9. ASSUME NEW j \in 1 .. n PROVE at(j) \in Seq(Functions)
  <2>1. calls[j] \in F
    BY <1>1, ElementOfSeq
  <2>2. calls[j].node \in L \cup {Null}
    BY <2>1 DEF Calls
  <2> QED
    BY <2>2, EmptySeq DEF PathOf, AllObjects, Paths
<1> HIDE DEF n, F, at
<1>4. c \in calls[n].left /\ i \in 1 .. n
  BY DEF n
<1>5. /\ c[2] \in Paths /\ Len(c[2]) = n /\ Front(c[2]) = at(n) /\ <<k, c[2]>> = c
      /\ d[2] \in Paths /\ Len(d[2]) = i /\ <<k, d[2]>> = d /\ p \in Seq(Functions)
      /\ c[2] \in Seq(Functions) /\ d[2] \in Seq(Functions)
  BY <1>2, <1>3, <1>4 DEF Paths
<1>6. Extends(c[2], d[2])
  <2>1. Len(d[2]) <= Len(c[2])
    BY <1>2, <1>4, <1>5
  <2> QED
    BY <1>5, <2>1, ExtendsBasics
<1>7. CASE i = n
  <2>1. c[2] = d[2]
    BY <1>5, <1>6, <1>7, ExtendsBasics
  <2> QED
    BY <1>5, <2>1
<1>8. CASE i # n
  <2>1. i < n /\ i + 1 \in 1 .. n /\ n \in i + 1 .. n
    BY <1>2, <1>4, <1>8
  <2>2. Extends(at(n), at(i + 1)) /\ Len(at(i + 1)) = i
    <3>1. Len(at(i + 1)) = (i + 1) - 1
      BY <1>1, <2>1
    <3> QED
      <4>1. i \in Nat /\ (i + 1) - 1 = i
        BY <1>2, <1>4
      <4>2. \A m \in i + 1 .. n : Extends(at(m), at(i + 1))
        BY <1>1, <2>1
      <4> QED
        BY <2>1, <3>1, <4>1, <4>2
  <2>3. Extends(c[2], at(n)) /\ at(n) \in Seq(Functions)
    BY <1>5, ExtendsFront, PathParts
  <2>4. Extends(c[2], at(i + 1))
    BY <1>5, <2>2, <2>3 DEF Extends
  <2>5. Extends(d[2], at(i + 1)) /\ Len(d[2]) = Len(at(i + 1))
    BY <1>5, <1>6, <2>2, <2>4 DEF Extends
  <2>6. d[2] = at(i + 1)
    <3>1. at(i + 1) \in Seq(Functions)
      BY <1>9, <2>1
    <3> QED
      BY <1>5, <2>5, <3>1, ExtendsBasics
  <2>7. <<k, at(i + 1)>> \notin calls[i].left
    BY <1>1, <1>4, <2>1
  <2> QED
    BY <1>5, <2>6, <2>7
<1> QED
  BY <1>7, <1>8

LEMMA OpenMergesParts ==
  ASSUME NEW k, NEW T, NEW L, NEW calls, OpenMerges(calls, k, T, L)
  PROVE  /\ calls \in Seq(Calls(L \cup {Null}, SUBSET SentObjects(k, T)))
         /\ Len(calls) >= 1 /\ Len(calls) \in Nat
         /\ \A i \in 1 .. Len(calls) :
              /\ calls[i].node \in L \cup {Null}
              /\ calls[i].left \in SUBSET SentObjects(k, T)
<1> DEFINE N == L \cup {Null}
           B == SUBSET SentObjects(k, T)
<1>1. calls \in Seq(Calls(N, B)) /\ Len(calls) >= 1
  BY DEF OpenMerges
<1> HIDE DEF N, B
<1>2. \A i \in 1 .. Len(calls) : calls[i].node \in N /\ calls[i].left \in B
  <2> SUFFICES ASSUME NEW i \in 1 .. Len(calls) PROVE calls[i].node \in N /\ calls[i].left \in B
    OBVIOUS
  <2>1. calls[i] \in Calls(N, B)
    BY <1>1, ElementOfSeq
  <2> QED
    BY <2>1 DEF Calls
<1> QED
  BY <1>1, <1>2, LenProperties DEF N, B

(* A node that is there gets the data of c, and its children are next.     *)
LEMMA MergeNodeTrees == Trees /\ Serial /\ MergeNode => Trees'
<1> SUFFICES ASSUME Trees, Serial, MergeNode PROVE Trees'
  OBVIOUS
<1> DEFINE c == First(Top.left)
           n == Len(frames)
<1>1. /\ pc = "merge" /\ pc' = "merge" /\ Top.left # {}
      /\ UNCHANGED <<roots, parent, children, node_of, tmp_roots, expected, sender, tree>>
  BY DEF MergeNode, serial
<1>2. PICK o \in Matching(c) :
        /\ node_data' = [node_data EXCEPT ![o] = @ \cup node_data[c]]
        /\ frames' = Push(c, Call(o, children[c]))
  BY DEF MergeNode
<1>3. MergeAt(c)
  BY <1>1, MergeTop
<1> HIDE DEF c
<1>4. Shape /\ Received /\ Merging /\ Own \subseteq Objects
  BY <1>1, OwnIn DEF Trees
<1>5. /\ sender \in Senders /\ tree \in SUBSET Paths
      /\ \A q \in tree : Len(q) > 1 => Front(q) \in tree
  BY TreeFacts DEF Serial
<1>6. Own' = Own /\ Objects' = Objects /\ SentEntries' = SentEntries
  <2>1. SentEntries' = SentEntries
    BY <1>1 DEF SentEntries
  <2> QED
    BY <1>1, <2>1, SameOwn DEF Objects
<1> HIDE DEF Own
<1>7. /\ c \in Top.left /\ c \in SentObjects(sender, tree) /\ c[2] \in tree /\ c[1] = sender
      /\ c \notin Own /\ Front(c[2]) = PathOf(Top.node) /\ Len(c[2]) = n
      /\ Top = frames[n] /\ n \in 1 .. n /\ n \in Nat
      /\ o \in Own /\ o[2] = c[2] /\ o[1] # sender
      /\ Top.node \in Own \cup {Null}
  BY <1>2, <1>3 DEF MergeAt
<1>8. c = <<sender, c[2]>> /\ c[2] \in Paths /\ c[2] \in Seq(Functions) /\ Own \in SUBSET AllObjects
  BY <1>4, <1>5, <1>7 DEF SentObjects, Paths, Shape
<1>9. node_data[c] = LocationsOf[sender][c[2]] /\ children[c] = SentObjects(sender, Under(tree, c[2]))
  BY <1>4, <1>7, <1>8 DEF Received, MessageTree
<1>10. Under(tree, c[2]) = {q \in tree : Front(q) = c[2]}
  BY <1>5, <1>8, UnderIs
<1>11. /\ DOMAIN node_data' = Objects
       /\ node_data'[o] = node_data[o] \cup LocationsOf[sender][c[2]]
       /\ \A q \in Objects : q # o => node_data'[q] = node_data[q]
       /\ \A q \in Own : node_data[q] \subseteq node_data'[q]
  <2>1. DOMAIN node_data = Objects /\ o \in Objects
    BY <1>4, <1>7 DEF Shape
  <2> QED
    BY <1>2, <1>4, <1>9, <2>1
<1>12. Shape'
  <2>1. Linked(Own', roots', children', parent')
    BY <1>1, <1>4, <1>6 DEF Shape
  <2> QED
    BY <1>1, <1>4, <1>6, <1>11, <2>1 DEF Shape
<1>13. Received'
  <2>1. Entries(Own, node_data') \cup SentEntries = Entries(Own, node_data) \cup SentEntries
    <3>1. \A l \in LocationsOf[sender][c[2]] : <<o[2], l>> \in SentEntries
      BY <1>7 DEF SentEntries
    <3>2. Entries(Own, node_data) \subseteq Entries(Own, node_data')
      BY <1>11 DEF Entries
    <3>3. ASSUME NEW e \in Entries(Own, node_data') PROVE e \in Entries(Own, node_data) \cup SentEntries
      <4>1. PICK q \in Own : \E l \in node_data'[q] : e = <<q[2], l>>
        BY DEF Entries
      <4>2. PICK l \in node_data'[q] : e = <<q[2], l>>
        BY <4>1
      <4>3. CASE l \in node_data[q]
        BY <4>2, <4>3 DEF Entries
      <4>4. CASE l \notin node_data[q]
        <5>1. q = o /\ l \in LocationsOf[sender][c[2]]
          BY <1>4, <1>11, <4>2, <4>4
        <5> QED
          BY <3>1, <4>2, <5>1
      <4> QED
        BY <4>3, <4>4
    <3> QED
      BY <3>2, <3>3
  <2>2. \A p \in tree : node_data'[<<sender, p>>] = LocationsOf[sender][p]
    <3> SUFFICES ASSUME NEW p \in tree PROVE node_data'[<<sender, p>>] = LocationsOf[sender][p]
      OBVIOUS
    <3>1. <<sender, p>> \in Objects /\ <<sender, p>> # o
      BY <1>4, <1>7 DEF Received, SentObjects
    <3> QED
      BY <1>4, <1>11, <3>1 DEF Received
  <2> QED
    BY <1>1, <1>4, <1>6, <2>1, <2>2 DEF Received
<1> DEFINE call == Call(o, children[c])
           A == Own \cup {Null}
           B == SUBSET SentObjects(sender, tree)
<1>14. OpenMerges(frames, sender, tree, Own)
  BY <1>4 DEF Merging
<1>15. /\ frames \in Seq(Calls(A, B)) /\ Len(frames) >= 1
       /\ \A i \in 1 .. n : frames[i].node \in A /\ frames[i].left \in B
  BY <1>14, OpenMergesParts
<1>16. call \in Calls(A, B) /\ call.node = o /\ call.left = SentObjects(sender, Under(tree, c[2]))
  BY <1>7, <1>9, <1>10 DEF Call, Calls, SentObjects
<1>17. Top.left \ {c} \in B
  BY <1>7, <1>15
<1> HIDE DEF A, B, call
<1>18. /\ frames' \in Seq(Calls(A, B)) /\ Len(frames') = n + 1
       /\ \A i \in 1 .. n - 1 : frames'[i] = frames[i]
       /\ frames'[n] = [node |-> Top.node, left |-> Top.left \ {c}]
       /\ frames'[n + 1] = call
  <2>1. Push(c, call) = frames'
    BY <1>2 DEF call
  <2> QED
    BY <1>15, <1>16, <1>17, <2>1, Pushed
<1> HIDE DEF n
<1>19. /\ \A i \in 1 .. n : frames'[i].node = frames[i].node
       /\ \A i \in 1 .. n : \A q : q \in frames'[i].left <=> q \in frames[i].left /\ (i = n => q # c)
  <2>1. \A i \in 1 .. n : i \in 1 .. n - 1 \/ i = n
    BY <1>7
  <2>2. \A i \in 1 .. n - 1 : i # n
    BY <1>7
  <2> QED
    BY <1>7, <1>18, <2>1, <2>2
<1>20. /\ \A i \in 1 .. n + 1 : i \in 1 .. n \/ i = n + 1
       /\ n + 1 \in 1 .. n + 1 /\ \A i \in 1 .. n : i \in 1 .. n + 1
       /\ n + 1 \notin 1 .. n
  BY <1>7
<1>21. \A i \in 1 .. n :
         /\ Len(PathOf(frames[i].node)) = i - 1
         /\ frames[i].node # Null => frames[i].node[1] # sender
         /\ \A d \in frames[i].left : Front(d[2]) = PathOf(frames[i].node)
         /\ \A j \in i .. n : Extends(PathOf(frames[j].node), PathOf(frames[i].node))
         /\ i < n => <<sender, PathOf(frames[i + 1].node)>> \notin frames[i].left
  BY <1>14, Zenon DEF OpenMerges, n
<1>22. PathOf(o) = c[2] /\ o # Null
  BY <1>7, <1>8 DEF PathOf, AllObjects, Null
<1>23. \A i \in 1 .. n : Extends(c[2], PathOf(frames[i].node))
  <2> SUFFICES ASSUME NEW i \in 1 .. n PROVE Extends(c[2], PathOf(frames[i].node))
    OBVIOUS
  <2>1. Extends(PathOf(frames[n].node), PathOf(frames[i].node))
    <3>1. n \in i .. n
      BY <1>7
    <3> QED
      BY <1>21, <3>1
  <2>2. \A j \in 1 .. n : PathOf(frames[j].node) \in Seq(Functions)
    BY <1>8, <1>15, EmptySeq DEF PathOf, A, AllObjects, Paths
  <2>3. Extends(c[2], PathOf(frames[n].node))
    BY <1>7, <1>8, ExtendsFront
  <2> QED
    BY <1>7, <1>8, <2>1, <2>2, <2>3, ExtendsBasics
<1>24. ASSUME NEW i \in 1 .. n + 1
       PROVE  /\ Len(PathOf(frames'[i].node)) = i - 1
              /\ frames'[i].node # Null => frames'[i].node[1] # sender
              /\ \A d \in frames'[i].left : Front(d[2]) = PathOf(frames'[i].node)
              /\ \A j \in i .. n + 1 : Extends(PathOf(frames'[j].node), PathOf(frames'[i].node))
              /\ i < n + 1 => <<sender, PathOf(frames'[i + 1].node)>> \notin frames'[i].left
  <2>1. CASE i \in 1 .. n
    <3>1. frames'[i].node = frames[i].node
      BY <1>19, <2>1
    <3>2. /\ Len(PathOf(frames'[i].node)) = i - 1
          /\ frames'[i].node # Null => frames'[i].node[1] # sender
          /\ \A d \in frames'[i].left : Front(d[2]) = PathOf(frames'[i].node)
      BY <1>19, <1>21, <2>1, <3>1
    <3>3. ASSUME NEW j \in i .. n + 1
          PROVE  Extends(PathOf(frames'[j].node), PathOf(frames'[i].node))
      <4>1. CASE j = n + 1
        BY <1>16, <1>18, <1>22, <1>23, <2>1, <3>1, <4>1
      <4>2. CASE j # n + 1
        <5>1. j \in i .. n /\ j \in 1 .. n
          BY <1>7, <2>1, <4>2
        <5> QED
          BY <1>19, <1>21, <2>1, <3>1, <5>1
      <4> QED
        BY <4>1, <4>2
    <3>4. <<sender, PathOf(frames'[i + 1].node)>> \notin frames'[i].left
      <4>1. CASE i = n
        <5>1. <<sender, PathOf(frames'[i + 1].node)>> = c
          BY <1>8, <1>16, <1>18, <1>22, <4>1
        <5> QED
          BY <1>18, <4>1, <5>1
      <4>2. CASE i # n
        <5>1. i < n /\ i + 1 \in 1 .. n
          BY <1>7, <2>1, <4>2
        <5> QED
          BY <1>19, <1>21, <2>1, <5>1
      <4> QED
        BY <4>1, <4>2
    <3> QED
      BY <3>2, <3>3, <3>4
  <2>2. CASE i = n + 1
    <3>1. frames'[i] = call /\ PathOf(frames'[i].node) = c[2]
      BY <1>16, <1>18, <1>22, <2>2
    <3>2. /\ Len(PathOf(frames'[i].node)) = i - 1 /\ ~(i < n + 1)
          /\ \A j \in i .. n + 1 : j = i
      BY <1>7, <2>2, <3>1
    <3>3. frames'[i].node[1] # sender
      BY <1>7, <1>16, <3>1
    <3>4. \A d \in frames'[i].left : Front(d[2]) = c[2]
      BY <1>10, <1>16, <3>1 DEF SentObjects
    <3>5. Extends(c[2], c[2])
      BY <1>8, ExtendsBasics
    <3> QED
      BY <3>1, <3>2, <3>3, <3>4, <3>5
  <2> QED
    BY <1>20, <2>1, <2>2
<1>25. OpenMerges(frames', sender, tree, Own)
  <2>1. Len(frames') >= 1
    BY <1>7, <1>18
  <2> QED
    BY <1>18, <1>24, <2>1 DEF OpenMerges, A, B
<1>26. ASSUME NEW p \in tree
       PROVE  /\ Pending(p, frames') => Pending(p, frames)
              /\ Pending(p, frames) /\ p # c[2] => Pending(p, frames')
              /\ There(p, sender, Own, node_data) => There(p, sender, Own, node_data')
  <2>1. p \in Paths /\ p \in Seq(Functions)
    BY <1>5 DEF Paths
  <2>2. ASSUME Pending(p, frames') PROVE Pending(p, frames)
    <3>4. PICK i \in 1 .. n + 1 : \E d \in frames'[i].left : Extends(p, d[2])
      BY <1>18, <2>2 DEF Pending
    <3>1. PICK d \in frames'[i].left : Extends(p, d[2])
      BY <3>4
    <3>2. CASE i \in 1 .. n
      BY <1>19, <3>1, <3>2 DEF Pending, n
    <3>3. CASE i = n + 1
      <4>1. d[2] \in tree /\ Front(d[2]) = c[2]
        BY <1>10, <1>16, <1>18, <3>1, <3>3 DEF SentObjects
      <4>2. d[2] \in Paths /\ d[2] \in Seq(Functions) /\ Extends(d[2], c[2])
        BY <1>5, <4>1, ExtendsFront DEF Paths
      <4>3. Extends(p, c[2])
        BY <1>8, <2>1, <3>1, <4>2, ExtendsBasics
      <4>4. n \in 1 .. Len(frames) /\ c \in frames[n].left
        BY <1>7 DEF n
      <4> QED
        BY <4>3, <4>4 DEF Pending
    <3> QED
      BY <1>20, <3>2, <3>3
  <2>3. ASSUME Pending(p, frames), p # c[2] PROVE Pending(p, frames')
    <3>4. PICK i \in 1 .. n : \E d \in frames[i].left : Extends(p, d[2])
      BY <2>3 DEF Pending, n
    <3>1. PICK d \in frames[i].left : Extends(p, d[2])
      BY <3>4
    <3>2. CASE i = n /\ d = c
      <4>1. \E e \in tree : Front(e) = c[2] /\ Extends(p, e)
        <5>1. tree \in SUBSET Paths /\ Extends(p, c[2]) /\ p # c[2] /\ c[2] \in Seq(Functions)
          BY <1>5, <1>8, <2>3, <3>1, <3>2
        <5>2. \A q \in tree : Len(q) > 1 => Front(q) \in tree
          BY <1>5
        <5> QED
          BY <5>1, <5>2, NextOnWay
      <4>2. PICK e \in tree : Front(e) = c[2] /\ Extends(p, e)
        BY <4>1
      <4>3. <<sender, e>> \in frames'[n + 1].left /\ <<sender, e>>[2] = e
        BY <1>10, <1>16, <1>18, <4>2 DEF SentObjects
      <4> QED
        BY <1>18, <1>20, <4>2, <4>3 DEF Pending
    <3>3. CASE ~(i = n /\ d = c)
      <4>1. d \in frames'[i].left /\ i \in 1 .. Len(frames')
        BY <1>18, <1>19, <1>20, <3>1, <3>3
      <4> QED
        BY <3>1, <4>1 DEF Pending
    <3> QED
      BY <3>2, <3>3
  <2>4. ASSUME There(p, sender, Own, node_data) PROVE There(p, sender, Own, node_data')
    BY <1>11, <2>4 DEF There
  <2> QED
    BY <2>2, <2>3, <2>4
<1>27. There(c[2], sender, Own, node_data')
  BY <1>7, <1>11 DEF There
<1>28. Merging'
  <2>1. \A p \in tree : IF Pending(p, frames) THEN <<sender, p>> \notin Own
                       ELSE There(p, sender, Own, node_data)
    BY <1>4 DEF Merging
  <2>2. \A p \in tree : IF Pending(p, frames') THEN <<sender, p>> \notin Own
                       ELSE There(p, sender, Own, node_data')
    BY <1>26, <1>27, <2>1
  <2> QED
    BY <1>1, <1>6, <1>25, <2>2 DEF Merging
<1>29. Apart'
  BY <1>1 DEF Apart
<1> QED
  BY <1>1, <1>12, <1>13, <1>28, <1>29 DEF Trees

LEMMA MergeReturnTrees == Trees /\ Serial /\ MergeReturn => Trees'
<1> SUFFICES ASSUME Trees, Serial, MergeReturn PROVE Trees'
  OBVIOUS
<1> DEFINE n == Len(frames)
           F == Calls(Own \cup {Null}, SUBSET SentObjects(sender, tree))
<1>1. /\ pc = "merge" /\ pc' = "merge" /\ Top.left = {} /\ n > 1
      /\ frames' = Front(frames) /\ Top = frames[n]
      /\ UNCHANGED <<roots, nodes, node_of, tmp_roots, expected, sender, tree>>
      /\ UNCHANGED <<parent, children, node_data>>
  BY DEF MergeReturn, serial, Top, Last, nodes
<1>2. Shape /\ Received /\ Merging
  BY <1>1 DEF Trees
<1>3. Own' = Own /\ Shape' /\ SentEntries' = SentEntries /\ Objects' = Objects
  <2>1. SentEntries' = SentEntries /\ Objects' = Objects
    BY <1>1 DEF SentEntries, Objects
  <2> QED
    BY <1>1, <2>1, IdleStep
<1> HIDE DEF Own
<1>4. Apart'
  BY <1>1 DEF Apart
<1>5. Received'
  BY <1>1, <1>2, <1>3 DEF Received
<1>6. frames \in Seq(F) /\ n \in Nat /\ n >= 1
  <2>1. OpenMerges(frames, sender, tree, Own)
    BY <1>2 DEF Merging
  <2> QED
    BY <2>1, OpenMergesParts
<1>7. frames' \in Seq(F) /\ Len(frames') = n - 1 /\ \A i \in 1 .. n - 1 : frames'[i] = frames[i]
  <2> HIDE DEF F
  <2> QED
    BY <1>1, <1>6, FrontParts
<1>8. \A i \in 1 .. n :
         /\ Len(PathOf(frames[i].node)) = i - 1
         /\ frames[i].node # Null => frames[i].node[1] # sender
         /\ \A d \in frames[i].left : Front(d[2]) = PathOf(frames[i].node)
         /\ \A j \in i .. n : Extends(PathOf(frames[j].node), PathOf(frames[i].node))
         /\ i < n => <<sender, PathOf(frames[i + 1].node)>> \notin frames[i].left
  BY <1>2, Zenon DEF Merging, OpenMerges, n
<1> HIDE DEF n, F
<1>9. /\ \A i \in 1 .. n - 1 : /\ i \in 1 .. n
                               /\ \A j \in i .. n - 1 : j \in i .. n /\ j \in 1 .. n - 1
                               /\ i < n - 1 => i + 1 \in 1 .. n - 1 /\ i < n
      /\ \A i \in 1 .. n : i \in 1 .. n - 1 \/ i = n
      /\ n - 1 >= 1
  BY <1>1, <1>6
<1>10. OpenMerges(frames', sender, tree, Own)
  <2>1. ASSUME NEW i \in 1 .. n - 1
        PROVE  /\ Len(PathOf(frames'[i].node)) = i - 1
               /\ frames'[i].node # Null => frames'[i].node[1] # sender
               /\ \A d \in frames'[i].left : Front(d[2]) = PathOf(frames'[i].node)
               /\ \A j \in i .. n - 1 : Extends(PathOf(frames'[j].node), PathOf(frames'[i].node))
               /\ i < n - 1 => <<sender, PathOf(frames'[i + 1].node)>> \notin frames'[i].left
    BY <1>7, <1>8, <1>9
  <2> QED
    BY <1>7, <1>9, <2>1 DEF OpenMerges, F
<1>11. \A p : Pending(p, frames') <=> Pending(p, frames)
  BY <1>1, <1>7, <1>9 DEF Pending, n
<1>12. Merging'
  BY <1>1, <1>2, <1>3, <1>10, <1>11 DEF Merging
<1> QED
  BY <1>1, <1>3, <1>4, <1>5, <1>12 DEF Trees

(* The part of the message that is taken over with c.                      *)
Below(c) == {p \in tree : Extends(p, c[2])}

LEMMA BelowParts ==
  ASSUME Serial, Trees, pc = "merge", NEW c, MergeAt(c)
  PROVE  /\ c[2] \in Below(c) /\ Below(c) \in SUBSET Paths /\ Below(c) \subseteq tree
         /\ c = <<sender, c[2]>>
         /\ \A p \in Below(c) : <<sender, p>> \notin Own
         /\ \A q \in tree : Front(q) \in Below(c) => q \in Below(c)
         /\ \A q \in Below(c) : q # c[2] => Front(q) \in Below(c)
<1>1. /\ c \in Top.left /\ c \in SentObjects(sender, tree) /\ c[2] \in tree
      /\ Top = frames[Len(frames)] /\ Len(frames) \in 1 .. Len(frames)
  BY DEF MergeAt
<1>2. /\ sender \in Senders /\ tree \in SUBSET Paths
      /\ \A q \in tree : Len(q) > 1 => Front(q) \in tree
  BY TreeFacts DEF Serial
<1>3. /\ \A p \in tree : p \in Paths /\ p \in Seq(Functions)
      /\ c[2] \in Seq(Functions) /\ c[2] \in Paths
  BY <1>1, <1>2 DEF Paths
<1>4. c[2] \in Below(c) /\ Below(c) \subseteq tree /\ Below(c) \in SUBSET Paths
  <2>1. Extends(c[2], c[2])
    BY <1>3, ExtendsBasics
  <2> QED
    BY <1>1, <1>2, <2>1 DEF Below
<1>5. \A p \in Below(c) : <<sender, p>> \notin Own
  <2>1. \A p \in Below(c) : p \in tree /\ Pending(p, frames)
    BY <1>1 DEF Below, Pending
  <2> QED
    BY <2>1 DEF Trees, Merging
<1>6. ASSUME NEW q \in tree, Front(q) \in Below(c) PROVE q \in Below(c)
  <2>1. Extends(q, Front(q)) /\ Extends(Front(q), c[2]) /\ Front(q) \in Seq(Functions)
    BY <1>3, <1>6, ExtendsFront, PathParts DEF Below
  <2> QED
    BY <1>3, <2>1, ExtendsBasics DEF Below
<1>7. ASSUME NEW q \in Below(c), q # c[2] PROVE Front(q) \in Below(c)
  <2>1. q \in tree /\ q \in Paths /\ Extends(q, c[2])
    BY <1>3 DEF Below
  <2>2. Extends(Front(q), c[2]) /\ Len(c[2]) < Len(q)
    BY <1>3, <1>7, <2>1, ExtendsFront
  <2>3. Len(q) > 1
    <3>1. Len(c[2]) >= 1 /\ Len(c[2]) \in Nat /\ Len(q) \in Nat
      BY <1>3, <2>1, PathParts
    <3> QED
      BY <2>2, <3>1
  <2> QED
    BY <1>2, <2>1, <2>2, <2>3 DEF Below
<1>8. c = <<sender, c[2]>>
  BY <1>1 DEF SentObjects
<1> HIDE DEF Own
<1> QED
  BY <1>4, <1>5, <1>6, <1>7, <1>8

(* What a node is taken over for: the own tree has none for its call path, *)
(* nor for one below.                                                      *)
LEMMA NotThere ==
  ASSUME Serial, Trees, pc = "merge", NEW c, MergeAt(c), Matching(c) = {},
         NEW o \in Own
  PROVE  o[2] \notin Below(c)
<1> SUFFICES ASSUME o[2] \in Below(c) PROVE FALSE
  OBVIOUS
<1> DEFINE n == Len(c[2])
<1>1. /\ Front(c[2]) = PathOf(Top.node) /\ Top.node \in Own \cup {Null} /\ c[2] \in tree
  BY DEF MergeAt
<1>2. /\ Own \in SUBSET AllObjects /\ Forest(Own, roots, children)
      /\ \A a, b \in Own : a[2] = b[2] => a = b
  BY OwnIn DEF Trees, Shape, Linked
<1>3. c[2] \in Below(c) /\ Below(c) \in SUBSET Paths
  BY BelowParts
<1> HIDE DEF Own
<1>4. /\ Extends(o[2], c[2]) /\ o[2] \in Paths /\ c[2] \in Paths /\ n \in Nat /\ n >= 1
      /\ c[2] \in Seq(Functions) /\ n <= Len(o[2]) /\ Len(o[2]) \in Nat
  <2>1. Extends(o[2], c[2]) /\ o[2] \in Paths /\ c[2] \in Paths
    BY <1>3 DEF Below
  <2> QED
    BY <2>1, PathParts DEF Extends, Paths
<1>5. n \in 1 .. Len(o[2])
  BY <1>4
<1>6. PICK a \in Own : a[2] = SubSeq(o[2], 1, n)
  BY <1>2, <1>5, Ancestor
<1>7. a[2] = c[2]
  <2>1. /\ SubSeq(o[2], 1, n) \in Paths /\ Len(SubSeq(o[2], 1, n)) = n
        /\ \A j \in 1 .. n : SubSeq(o[2], 1, n)[j] = o[2][j]
    BY <1>4, <1>5, Initial
  <2>2. \A j \in 1 .. n : o[2][j] = c[2][j]
    BY <1>4 DEF Extends
  <2> HIDE DEF n
  <2>3. a[2] \in Seq(Functions) /\ Len(a[2]) = Len(c[2]) /\ \A j \in 1 .. Len(c[2]) : a[2][j] = c[2][j]
    BY <1>6, <2>1, <2>2 DEF Paths, n
  <2> QED
    BY <1>4, <2>3, SeqEqual
<1>8. /\ Len(a[2]) = 1 <=> a \in roots
      /\ a \notin roots => \E q \in Own : a \in children[q] /\ q[2] = Front(a[2])
  <2>1. /\ a[2] \in Paths /\ a[1] \in {0} \cup Senders
        /\ \A d \in children[a] : /\ d \in Own /\ d[2] \in Paths /\ Front(d[2]) = a[2]
                                  /\ Len(d[2]) = Len(a[2]) + 1
        /\ Len(a[2]) = 1 <=> a \in roots
        /\ a \notin roots => \E q \in Own : a \in children[q] /\ q[2] = Front(a[2])
    BY <1>2, ForestParts
  <2> QED
    BY <2>1
<1>9. Function(a) = Function(c)
  BY <1>7 DEF Function
<1>10. CASE Top.node = Null
  <2>1. a \in roots
    BY <1>1, <1>4, <1>7, <1>8, <1>10, PathParts DEF PathOf
  <2> QED
    BY <1>9, <1>10, <2>1 DEF Matching
<1>11. CASE Top.node # Null
  <2>1. Top.node \in Own /\ Front(c[2]) = Top.node[2] /\ Top.node[2] # <<>>
    BY <1>1, <1>2, <1>11 DEF PathOf, AllObjects, Paths
  <2>2. a \notin roots
    BY <1>4, <1>7, <1>8, <2>1, PathParts
  <2>3. PICK q \in Own : a \in children[q] /\ q[2] = Front(a[2])
    BY <1>8, <2>2
  <2>4. q = Top.node
    BY <1>2, <1>7, <2>1, <2>3
  <2> QED
    BY <1>9, <1>11, <2>3, <2>4 DEF Matching
<1> QED
  BY <1>10, <1>11

(* c and all below it become part of the own tree.                         *)
LEMMA TakeOverLinks ==
  ASSUME Serial, Trees, TakeOver, NEW c, c = First(Top.left)
  PROVE  /\ MergeAt(c) /\ Matching(c) = {}
         /\ Own' = Own \cup SentObjects(sender, Below(c))
         /\ Linked(Own', roots', children', parent')
         /\ DOMAIN parent' = Objects /\ DOMAIN children' = Objects
         /\ \A o \in Objects : /\ o # c => parent'[o] = parent[o]
                               /\ o # Top.node => children'[o] = children[o]
<1>1. /\ pc = "merge" /\ Top.left # {} /\ Matching(c) = {}
      /\ IF Top.node = Null THEN roots' = roots \cup {c} /\ UNCHANGED <<parent, children>>
         ELSE /\ parent' = [parent EXCEPT ![c] = Top.node]
              /\ children' = [children EXCEPT ![Top.node] = @ \cup {c}]
              /\ roots' = roots
  BY DEF TakeOver, InsertSubTree
<1>2. MergeAt(c)
  BY <1>1, MergeTop
<1>3. Shape /\ Received /\ Own \subseteq Objects /\ Own \in SUBSET AllObjects
  BY <1>1, OwnIn DEF Trees, Shape
<1>4. /\ Linked(Own, roots, children, parent) /\ Forest(Own, roots, children)
      /\ DOMAIN children = Objects /\ DOMAIN parent = Objects /\ Objects \subseteq AllObjects
  BY <1>3 DEF Shape, Linked, Objects
<1> HIDE DEF Own
<1>5. /\ c \in SentObjects(sender, tree) /\ c[2] \in tree /\ c[1] = sender
      /\ c \notin Own /\ Front(c[2]) = PathOf(Top.node)
      /\ Top.node \in Own \cup {Null} /\ (Top.node # Null => Top.node[1] # sender)
  BY <1>2 DEF MergeAt
<1>6. /\ c[2] \in Below(c) /\ Below(c) \in SUBSET Paths /\ Below(c) \subseteq tree
      /\ c = <<sender, c[2]>>
      /\ \A p \in Below(c) : <<sender, p>> \notin Own
      /\ \A q \in tree : Front(q) \in Below(c) => q \in Below(c)
      /\ \A q \in Below(c) : q # c[2] => Front(q) \in Below(c)
  BY <1>1, <1>2, BelowParts
<1>7. /\ sender \in Senders /\ tree \in SUBSET Paths
  BY TreeFacts DEF Serial
<1> DEFINE M == SentObjects(sender, Below(c))
           L == Own \cup M
<1>8. /\ c \in M /\ M \subseteq Objects /\ c \in Objects /\ L \subseteq Objects /\ L \subseteq AllObjects
      /\ \A o \in M : o \notin Own /\ o[1] = sender /\ o[2] \in Below(c) /\ o = <<sender, o[2]>>
      /\ \A o \in Objects : o # Null
  <2>1. c \in M /\ M \subseteq Objects
    BY <1>3, <1>6 DEF SentObjects, Received
  <2>2. \A o \in M : o \notin Own /\ o[1] = sender /\ o[2] \in Below(c) /\ o = <<sender, o[2]>>
    BY <1>6 DEF SentObjects
  <2>3. \A o \in Objects : o # Null
    BY <1>4 DEF AllObjects, Null
  <2> QED
    BY <1>3, <1>4, <2>1, <2>2, <2>3
<1>9. /\ DOMAIN parent' = Objects /\ DOMAIN children' = Objects
      /\ \A o \in Objects : /\ o # c => parent'[o] = parent[o]
                            /\ o # Top.node => children'[o] = children[o]
      /\ Top.node # Null => children'[Top.node] = children[Top.node] \cup {c}
      /\ roots' = roots \cup IF Top.node = Null THEN {c} ELSE {}
      /\ parent'[c] = Top.node
  <2>1. CASE Top.node = Null
    <3>1. parent[c] = Object(sender, Front(c[2])) /\ Front(c[2]) = <<>>
      BY <1>3, <1>5, <1>6, <2>1 DEF Received, PathOf
    <3>2. parent[c] = Null
      BY <3>1 DEF Object
    <3> QED
      BY <1>1, <1>4, <2>1, <3>2
  <2>2. CASE Top.node # Null
    <3>1. Top.node \in Objects
      BY <1>3, <1>5, <2>2
    <3>2. parent' = [parent EXCEPT ![c] = Top.node] /\ children' = [children EXCEPT ![Top.node] = @ \cup {c}]
          /\ roots' = roots
      BY <1>1, <2>2
    <3> HIDE DEF M, L
    <3>3. /\ DOMAIN parent' = Objects /\ (\A o \in Objects : o # c => parent'[o] = parent[o])
          /\ parent'[c] = Top.node
      BY <1>4, <1>8, <3>2
    <3>4. /\ DOMAIN children' = Objects
          /\ \A o \in Objects : o # Top.node => children'[o] = children[o]
          /\ children'[Top.node] = children[Top.node] \cup {c}
      BY <1>4, <3>1, <3>2
    <3> QED
      BY <2>2, <3>2, <3>3, <3>4
  <2> QED
    BY <2>1, <2>2
<1>10. \A p \in tree : children[<<sender, p>>] = {<<sender, q>> : q \in {r \in tree : Front(r) = p}}
  <2>1. \A p \in tree : p \in Seq(Functions)
    BY <1>7 DEF Paths
  <2>2. \A p \in tree : Under(tree, p) = {r \in tree : Front(r) = p}
    BY <1>7, <2>1, UnderIs
  <2> QED
    BY <1>3, <2>2 DEF Received, MessageTree, SentObjects
<1>11. \A o \in M : /\ children'[o] = children[o] /\ children'[o] \subseteq M
                    /\ \A d \in children[o] : Front(d[2]) = o[2] /\ d[2] \in Below(c)
  <2> SUFFICES ASSUME NEW o \in M
               PROVE  /\ children'[o] = children[o] /\ children'[o] \subseteq M
                      /\ \A d \in children[o] : Front(d[2]) = o[2] /\ d[2] \in Below(c)
    OBVIOUS
  <2>1. o # Top.node /\ o \in Objects /\ o[2] \in Below(c) /\ o = <<sender, o[2]>>
    BY <1>5, <1>8
  <2>2. children'[o] = children[o]
    BY <1>9, <2>1
  <2>3. children[o] = {<<sender, q>> : q \in {r \in tree : Front(r) = o[2]}}
    BY <1>6, <1>10, <2>1
  <2>4. \A q \in {r \in tree : Front(r) = o[2]} : q \in Below(c)
    BY <1>6, <2>1
  <2> QED
    BY <2>2, <2>3, <2>4 DEF SentObjects
<1> HIDE DEF M, L
<1>12. L = Own \cup M
  BY DEF L
<1>13. /\ roots \subseteq Own /\ \A o \in roots : Len(o[2]) = 1 /\ parent[o] = Null
       /\ \A o \in Own : /\ children[o] \subseteq Own
                         /\ \A d \in children[o] : d[2] = Append(o[2], Function(d)) /\ parent[d] = o
                         /\ o \in roots \/ \E q \in Own : o \in children[q]
       /\ \A o, q \in Own : o[2] = q[2] => o = q
  BY <1>4 DEF Linked, Forest
<1>14. /\ \A o \in Own : /\ o \in Objects /\ o # c
                          /\ children'[o] = children[o] \cup IF o = Top.node THEN {c} ELSE {}
       /\ c[2] = Append(Front(c[2]), Function(c)) /\ (Front(c[2]) = <<>> => Len(c[2]) = 1)
       /\ Top.node = Null => Front(c[2]) = <<>>
       /\ Top.node # Null => Front(c[2]) = Top.node[2] /\ Top.node \in Own
       /\ Front(c[2]) \notin Below(c)
  <2>1. \A o \in Own : /\ o \in Objects /\ o # c
                       /\ children'[o] = children[o] \cup IF o = Top.node THEN {c} ELSE {}
    <3> SUFFICES ASSUME NEW o \in Own
                 PROVE  /\ o \in Objects /\ o # c
                        /\ children'[o] = children[o] \cup IF o = Top.node THEN {c} ELSE {}
      OBVIOUS
    <3>1. o \in Objects /\ o # c /\ o # Null
      BY <1>3, <1>5, <1>8
    <3> QED
      BY <1>9, <3>1
  <2>2. c[2] \in Paths
    BY <1>6
  <2>3. c[2] = Append(Front(c[2]), Function(c)) /\ (Front(c[2]) = <<>> => Len(c[2]) = 1)
    BY <2>2, PathParts DEF Function
  <2>4. /\ Top.node = Null => Front(c[2]) = <<>>
        /\ Top.node # Null => Front(c[2]) = Top.node[2] /\ Top.node \in Own
    BY <1>5 DEF PathOf
  <2>5. Front(c[2]) \notin Below(c)
    <3>1. Len(Front(c[2])) = Len(c[2]) - 1 /\ Len(c[2]) \in Nat
      BY <2>2, PathParts
    <3> QED
      BY <3>1 DEF Below, Extends
  <2> QED
    BY <2>1, <2>3, <2>4, <2>5
<1>15. roots' \subseteq L /\ \A o \in roots' : Len(o[2]) = 1 /\ parent'[o] = Null
  <2>1. \A o \in roots : o \in L /\ Len(o[2]) = 1 /\ parent'[o] = Null
    BY <1>9, <1>12, <1>13, <1>14
  <2>2. Top.node = Null => c \in L /\ Len(c[2]) = 1 /\ parent'[c] = Null
    BY <1>8, <1>9, <1>12, <1>14
  <2> QED
    BY <1>9, <2>1, <2>2
<1>16. ASSUME NEW o \in Own
       PROVE  /\ children'[o] \subseteq L
              /\ \A d \in children'[o] : d[2] = Append(o[2], Function(d)) /\ parent'[d] = o
              /\ o \in roots' \/ \E q \in L : o \in children'[q]
  <2>1. ASSUME NEW d \in children[o]
        PROVE  d \in L /\ d[2] = Append(o[2], Function(d)) /\ parent'[d] = o
    <3>1. d \in Own /\ d[2] = Append(o[2], Function(d)) /\ parent[d] = o
      BY <1>13
    <3>2. d \in Objects /\ d # c
      BY <1>14, <3>1
    <3> QED
      BY <1>9, <1>12, <3>1, <3>2
  <2>2. o = Top.node => c \in L /\ c[2] = Append(o[2], Function(c)) /\ parent'[c] = o
    <3>1. o # Null
      BY <1>8, <1>14
    <3>2. c \in L
      BY <1>8, <1>12
    <3> QED
      BY <1>9, <1>14, <3>1, <3>2
  <2>3. \A d \in children'[o] : d \in children[o] \/ (d = c /\ o = Top.node)
    BY <1>14
  <2>4. o \in roots' \/ \E q \in L : o \in children'[q]
    <3>1. CASE o \in roots
      BY <1>9, <3>1
    <3>2. CASE o \notin roots
      <4>1. PICK q \in Own : o \in children[q]
        BY <1>13, <3>2
      <4>2. q \in L /\ o \in children'[q]
        BY <1>12, <1>14, <4>1
      <4> QED
        BY <4>2
    <3> QED
      BY <3>1, <3>2
  <2> QED
    BY <2>1, <2>2, <2>3, <2>4
<1>17. ASSUME NEW o \in M
       PROVE  /\ children'[o] \subseteq L
              /\ \A d \in children'[o] : d[2] = Append(o[2], Function(d)) /\ parent'[d] = o
              /\ o \in roots' \/ \E q \in L : o \in children'[q]
  <2>1. /\ children'[o] = children[o] /\ children'[o] \subseteq M
        /\ o[2] \in Below(c) /\ o = <<sender, o[2]>>
    BY <1>8, <1>11
  <2>2. ASSUME NEW d \in children'[o] PROVE d[2] = Append(o[2], Function(d)) /\ parent'[d] = o
    <3>1. /\ Front(d[2]) = o[2] /\ d[2] \in Below(c) /\ d \in M
      BY <1>11, <2>1
    <3>2. d = <<sender, d[2]>> /\ d \notin Own /\ d[2] \in tree /\ d[2] \in Paths
      BY <1>6, <1>8, <3>1
    <3>3. d[2] = Append(o[2], Function(d))
      BY <3>1, <3>2, PathParts DEF Function
    <3>4. parent[d] = Object(sender, o[2])
      BY <1>3, <3>1, <3>2 DEF Received
    <3>5. o[2] # <<>>
      BY <1>6, <2>1 DEF Paths
    <3>6. parent[d] = o
      BY <2>1, <3>4, <3>5 DEF Object
    <3>7. d # c /\ d \in Objects
      BY <1>8, <1>14, <2>1, <3>1
    <3> QED
      BY <1>9, <3>3, <3>6, <3>7
  <2>3. o \in roots' \/ \E q \in L : o \in children'[q]
    <3>1. CASE o = c
      <4>1. CASE Top.node = Null
        BY <1>9, <3>1, <4>1
      <4>2. CASE Top.node # Null
        BY <1>9, <1>12, <1>14, <3>1, <4>2
      <4> QED
        BY <4>1, <4>2
    <3>2. CASE o # c
      <4>1. o[2] # c[2]
        BY <1>6, <2>1, <3>2
      <4>2. Front(o[2]) \in Below(c) /\ o[2] \in tree
        BY <1>6, <2>1, <4>1
      <4> DEFINE q == <<sender, Front(o[2])>>
      <4>3. q \in M /\ o \in children[q]
        <5>1. q \in M
          BY <4>2 DEF M, SentObjects
        <5>2. Front(o[2]) \in tree
          BY <1>6, <4>2
        <5>3. children[q] = {<<sender, e>> : e \in {r \in tree : Front(r) = Front(o[2])}}
          BY <1>10, <5>2
        <5> QED
          BY <2>1, <4>2, <5>1, <5>3
      <4> HIDE DEF q
      <4>4. q \in L /\ o \in children'[q]
        BY <1>11, <1>12, <4>3
      <4> QED
        BY <4>4
    <3> QED
      BY <3>1, <3>2
  <2> QED
    BY <1>12, <2>1, <2>2, <2>3
<1>18. \A o, q \in L : o[2] = q[2] => o = q
  <2>1. \A o \in Own, q \in M : o[2] # q[2]
    <3> SUFFICES ASSUME NEW o \in Own, NEW q \in M PROVE o[2] # q[2]
      OBVIOUS
    <3>1. o[2] \notin Below(c)
      BY <1>1, <1>2, NotThere
    <3> QED
      BY <1>8, <3>1
  <2>2. \A o, q \in M : o[2] = q[2] => o = q
    BY <1>8
  <2> QED
    BY <1>12, <1>13, <2>1, <2>2
<1>19. Linked(L, roots', children', parent')
  <2>1. \A o \in L : /\ children'[o] \subseteq L
                     /\ \A d \in children'[o] : d[2] = Append(o[2], Function(d)) /\ parent'[d] = o
                     /\ o \in roots' \/ \E q \in L : o \in children'[q]
    BY <1>12, <1>16, <1>17
  <2> QED
    BY <1>15, <1>18, <2>1 DEF Linked, Forest
<1>20. Own' = L
  <2>1. DOMAIN parent' \in SUBSET AllObjects /\ L \subseteq DOMAIN parent'
    BY <1>4, <1>8, <1>9
  <2> QED
    BY <1>19, <2>1, OwnNext
<1> QED
  BY <1>1, <1>2, <1>9, <1>12, <1>19, <1>20 DEF M

LEMMA TakeOverTrees == Trees /\ Serial /\ TakeOver => Trees'
<1> SUFFICES ASSUME Trees, Serial, TakeOver PROVE Trees'
  OBVIOUS
<1> DEFINE c == First(Top.left)
           n == Len(frames)
           M == SentObjects(sender, Below(c))
<1>1. /\ pc = "merge" /\ pc' = "merge"
      /\ frames' = [frames EXCEPT ![n].left = @ \ {c}]
      /\ UNCHANGED <<node_of, tmp_roots, node_data, expected, sender, tree>>
  BY DEF TakeOver, serial
<1>2. /\ MergeAt(c) /\ Matching(c) = {} /\ Own' = Own \cup M
      /\ Linked(Own', roots', children', parent')
      /\ DOMAIN parent' = Objects /\ DOMAIN children' = Objects
      /\ \A o \in Objects : /\ o # c => parent'[o] = parent[o]
                            /\ o # Top.node => children'[o] = children[o]
  BY TakeOverLinks
<1> HIDE DEF c
<1>3. Shape /\ Received /\ Merging /\ Own \in SUBSET AllObjects
  BY <1>1, OwnIn DEF Trees, Shape
<1>4. /\ sender \in Senders /\ tree \in SUBSET Paths
  BY TreeFacts DEF Serial
<1>5. Objects' = Objects /\ SentEntries' = SentEntries
  BY <1>1, <1>2 DEF Objects, SentEntries
<1> HIDE DEF Own
<1>6. /\ c[2] \in Below(c) /\ Below(c) \in SUBSET Paths /\ Below(c) \subseteq tree
      /\ c = <<sender, c[2]>> /\ \A p \in Below(c) : <<sender, p>> \notin Own
  BY <1>1, <1>2, BelowParts
<1>7. /\ c \in Top.left /\ c[2] \in tree /\ c[1] = sender /\ Top = frames[n]
      /\ n \in 1 .. n /\ n \in Nat
      /\ Top.node \in Own \cup {Null} /\ (Top.node # Null => Top.node[1] # sender)
  BY <1>2 DEF MergeAt
<1>8. Shape'
  BY <1>1, <1>2, <1>3, <1>5 DEF Shape
<1>9. \A p \in tree : <<sender, p>> \in Objects /\ <<sender, p>> # Top.node
  <2>1. \A p \in tree : <<sender, p>> # Null
    BY DEF Null
  <2> QED
    BY <1>3, <1>7, <2>1 DEF Received, SentObjects
<1>10. Received'
  <2>1. Objects' = Own' \cup SentObjects(sender, tree)
    BY <1>2, <1>3, <1>5, <1>6 DEF Received, SentObjects
  <2>2. MessageTree(sender, tree, tmp_roots, children')
    BY <1>2, <1>3, <1>9 DEF Received, MessageTree
  <2>3. \A p \in tree : /\ node_data[<<sender, p>>] = LocationsOf[sender][p]
                        /\ <<sender, p>> \notin Own' => parent'[<<sender, p>>] = Object(sender, Front(p))
    <3>1. c \in Own'
      BY <1>2, <1>6 DEF SentObjects
    <3> QED
      BY <1>2, <1>3, <1>9, <3>1 DEF Received
  <2>4. Entries(Own', node_data) \cup SentEntries = expected
    <3>1. Entries(M, node_data) \subseteq SentEntries
      <4> SUFFICES ASSUME NEW p \in Below(c), NEW l \in node_data[<<sender, p>>]
                   PROVE  <<p, l>> \in SentEntries
        BY DEF Entries, SentObjects
      <4> QED
        BY <1>6, <2>3 DEF SentEntries
    <3>2. Entries(Own', node_data) = Entries(Own, node_data) \cup Entries(M, node_data)
      <4> HIDE DEF M
      <4> QED
        BY <1>2 DEF Entries
    <3> HIDE DEF M
    <3> QED
      BY <1>3, <3>1, <3>2 DEF Received
  <2>5. node_of \in Seq(Objects)
    BY <1>3 DEF Received
  <2> QED
    BY <1>1, <1>5, <2>1, <2>2, <2>3, <2>4, <2>5 DEF Received
<1> DEFINE A == Own' \cup {Null}
           B == SUBSET SentObjects(sender, tree)
<1>11. OpenMerges(frames, sender, tree, Own)
  BY <1>3 DEF Merging
<1>12. /\ frames \in Seq(Calls(Own \cup {Null}, B)) /\ n >= 1
       /\ \A i \in 1 .. n : frames[i].node \in Own \cup {Null} /\ frames[i].left \in B
  BY <1>11, OpenMergesParts
<1>13. frames \in Seq(Calls(A, B))
  <2>1. Own \cup {Null} \subseteq A
    BY <1>2
  <2> HIDE DEF A, B
  <2>2. Calls(Own \cup {Null}, B) \subseteq Calls(A, B)
    BY <2>1 DEF Calls
  <2>3. \A i \in 1 .. Len(frames) : frames[i] \in Calls(A, B)
    BY <1>12, <2>2, ElementOfSeq
  <2>4. Len(frames) \in Nat /\ frames \in [1 .. Len(frames) -> Calls(A, B)]
    BY <1>12, <2>3, LenProperties
  <2> QED
    BY <2>4
<1>14. frames[n].left \ {c} \in B
  BY <1>7, <1>12
<1> HIDE DEF A, B, M
<1>15. /\ frames' \in Seq(Calls(A, B)) /\ Len(frames') = n
       /\ \A i \in 1 .. n - 1 : frames'[i] = frames[i]
       /\ frames'[n] = [node |-> frames[n].node, left |-> frames[n].left \ {c}]
  <2> DEFINE f == frames'
  <2>1. f = [frames EXCEPT ![n].left = @ \ {c}]
    BY <1>1
  <2> HIDE DEF f
  <2>2. /\ f \in Seq(Calls(A, B)) /\ Len(f) = n
        /\ \A i \in 1 .. n - 1 : f[i] = frames[i]
        /\ f[n] = [node |-> frames[n].node, left |-> frames[n].left \ {c}]
    <3>1. frames \in Seq(Calls(A, B)) /\ Len(frames) >= 1 /\ frames[Len(frames)].left \ {c} \in B
      BY <1>12, <1>13, <1>14 DEF n
    <3>2. f = Less(frames, c)
      BY <2>1 DEF n, Less
    <3> QED
      BY <3>1, <3>2, TakenOff DEF n
  <2> QED
    BY <2>2 DEF f
<1> HIDE DEF n
<1>16. /\ \A i \in 1 .. n : frames'[i].node = frames[i].node
       /\ \A i \in 1 .. n : \A q : q \in frames'[i].left <=> q \in frames[i].left /\ (i = n => q # c)
  <2>1. \A i \in 1 .. n : i \in 1 .. n - 1 \/ i = n
    BY <1>7
  <2>2. \A i \in 1 .. n - 1 : i # n
    BY <1>7
  <2> QED
    BY <1>7, <1>15, <2>1, <2>2
<1>17. OpenMerges(frames', sender, tree, Own')
  <2>1. \A i \in 1 .. n :
          /\ Len(PathOf(frames[i].node)) = i - 1
          /\ frames[i].node # Null => frames[i].node[1] # sender
          /\ \A d \in frames[i].left : Front(d[2]) = PathOf(frames[i].node)
          /\ \A j \in i .. n : Extends(PathOf(frames[j].node), PathOf(frames[i].node))
          /\ i < n => <<sender, PathOf(frames[i + 1].node)>> \notin frames[i].left
    BY <1>11, Zenon DEF OpenMerges, n
  <2>2. \A i \in 1 .. n : /\ \A j \in i .. n : j \in 1 .. n
                          /\ i < n => i + 1 \in 1 .. n
    BY <1>7
  <2>3. ASSUME NEW i \in 1 .. n
        PROVE  /\ Len(PathOf(frames'[i].node)) = i - 1
               /\ frames'[i].node # Null => frames'[i].node[1] # sender
               /\ \A d \in frames'[i].left : Front(d[2]) = PathOf(frames'[i].node)
               /\ \A j \in i .. n : Extends(PathOf(frames'[j].node), PathOf(frames'[i].node))
               /\ i < n => <<sender, PathOf(frames'[i + 1].node)>> \notin frames'[i].left
    BY <1>16, <2>1, <2>2
  <2> QED
    BY <1>12, <1>15, <2>3 DEF OpenMerges, A, B, n
<1>18. ASSUME NEW p \in tree, Pending(p, frames')
       PROVE  Pending(p, frames) /\ <<sender, p>> \notin Own'
  <2>1. PICK i \in 1 .. n : \E d \in frames'[i].left : Extends(p, d[2])
    BY <1>15, <1>18 DEF Pending
  <2>2. PICK d \in frames'[i].left : Extends(p, d[2])
    BY <2>1
  <2>3. d \in frames[i].left /\ (i = n => d # c)
    BY <1>16, <2>2
  <2>4. Pending(p, frames)
    BY <2>2, <2>3 DEF Pending, n
  <2>5. <<sender, p>> \notin Own
    BY <1>3, <2>4 DEF Merging
  <2>6. ~Extends(p, c[2])
    <3> SUFFICES ASSUME Extends(p, c[2]) PROVE FALSE
      OBVIOUS
    <3>1. p \in Paths /\ c \in frames[Len(frames)].left /\ i \in 1 .. Len(frames)
      BY <1>4, <1>7 DEF n
    <3>2. d = c
      <4>1. /\ sender \in Senders /\ tree \in SUBSET Paths /\ Own \in SUBSET AllObjects
            /\ OpenMerges(frames, sender, tree, Own) /\ Extends(p, d[2]) /\ d \in frames[i].left
        BY <1>3, <1>4, <1>11, <2>2, <2>3
      <4> QED
        BY <3>1, <4>1, OneList, SMTT(60)
    <3>3. i # n
      BY <2>3, <3>2
    <3>4. PathOf(frames[i].node) = PathOf(frames[n].node)
      BY <1>7, <1>11, <2>3, <3>2 DEF OpenMerges, n
    <3>5. i - 1 = n - 1
      BY <1>7, <1>11, <3>4 DEF OpenMerges, n
    <3> QED
      BY <1>7, <3>3, <3>5
  <2>7. <<sender, p>> \notin M
    BY <2>6 DEF M, SentObjects, Below
  <2> QED
    BY <1>2, <2>4, <2>5, <2>7
<1>19. ASSUME NEW p \in tree, ~Pending(p, frames')
       PROVE  There(p, sender, Own', node_data)
  <2>1. CASE Pending(p, frames)
    <3>1. PICK i \in 1 .. n : \E d \in frames[i].left : Extends(p, d[2])
      BY <2>1 DEF Pending, n
    <3>2. PICK d \in frames[i].left : Extends(p, d[2])
      BY <3>1
    <3>3. d = c
      <4>1. d \notin frames'[i].left
        BY <1>15, <1>19, <3>2 DEF Pending
      <4> QED
        BY <1>16, <3>2, <4>1
    <3>4. p \in Below(c)
      BY <3>2, <3>3 DEF Below
    <3>5. <<sender, p>> \in Own' /\ <<sender, p>>[2] = p
      BY <1>2, <3>4 DEF M, SentObjects
    <3>6. LocationsOf[sender][p] \subseteq node_data[<<sender, p>>]
      BY <1>3 DEF Received
    <3> QED
      BY <3>5, <3>6 DEF There
  <2>2. CASE ~Pending(p, frames)
    <3>1. There(p, sender, Own, node_data)
      BY <1>3, <2>2 DEF Merging
    <3> QED
      BY <1>2, <3>1 DEF There
  <2> QED
    BY <2>1, <2>2
<1>20. Merging'
  BY <1>1, <1>17, <1>18, <1>19 DEF Merging
<1>21. Apart'
  BY <1>1 DEF Apart
<1> QED
  BY <1>1, <1>8, <1>10, <1>20, <1>21 DEF Trees

(* After a merge the own tree has all that was sent, and is all that is    *)
(* left once tmp_tree has been destroyed.                                  *)
LEMMA MergedTree ==
  ASSUME Trees, Serial, Merged, Destroy, roots' = roots, expected' = expected
  PROVE  /\ Own' = Own /\ Objects' = Own /\ Own \in SUBSET AllObjects
         /\ \A o \in Own : o[1] \in Nat /\ o[1] <= sender
         /\ Linked(Own, roots', children', parent')
         /\ DOMAIN children' = Own /\ DOMAIN node_data' = Own
         /\ Entries(Own, node_data') = expected' /\ node_of' = <<>> /\ tmp_roots' = {}
         /\ \A o \in Own : children'[o] = children[o]
<1>1. /\ parent' = [o \in Own |-> parent[o]] /\ children' = [o \in Own |-> children[o]]
      /\ node_data' = [o \in Own |-> node_data[o]] /\ node_of' = <<>> /\ tmp_roots' = {}
  BY DEF Destroy, Own
<1>2. Shape /\ Received /\ Merging /\ Own \in SUBSET AllObjects
  BY OwnIn DEF Trees, Shape, Merged
<1>3. Own \subseteq Objects
  BY OwnIn
<1> HIDE DEF Own
<1>4. /\ \A o \in Own : /\ parent'[o] = parent[o] /\ children'[o] = children[o]
                        /\ node_data'[o] = node_data[o]
      /\ DOMAIN parent' = Own /\ DOMAIN children' = Own /\ DOMAIN node_data' = Own
  BY <1>1
<1>5. Linked(Own, roots', children', parent')
  <2>1. Linked(Own, roots, children, parent)
    BY <1>2 DEF Shape
  <2>2. Linked(Own, roots, children', parent')
    BY <1>4, <2>1, LinkedSame
  <2> QED
    BY <2>2
<1>6. Own' = Own
  BY <1>2, <1>4, <1>5, OwnNext
<1>7. Objects' = Own
  BY <1>4 DEF Objects
<1>8. Len(frames) = 1 /\ frames[1].left = {}
  BY DEF Merged, Top, Last
<1>9. \A p \in tree : There(p, sender, Own, node_data)
  <2>1. \A i \in 1 .. Len(frames) : i = 1
    BY <1>8
  <2>2. \A p \in tree : ~Pending(p, frames)
    BY <1>8, <2>1 DEF Pending
  <2> QED
    BY <1>2, <2>2 DEF Merging
<1>10. SentEntries \subseteq Entries(Own, node_data)
  <2> SUFFICES ASSUME NEW p \in tree, NEW l \in LocationsOf[sender][p]
               PROVE  <<p, l>> \in Entries(Own, node_data)
    BY DEF SentEntries
  <2>1. PICK o \in Own : o[2] = p /\ LocationsOf[sender][p] \subseteq node_data[o]
    BY <1>9 DEF There
  <2> QED
    BY <2>1 DEF Entries
<1>11. Entries(Own, node_data') = Entries(Own, node_data)
  BY <1>4, EntriesSame
<1>12. Entries(Own, node_data') = expected'
  BY <1>2, <1>10, <1>11 DEF Received
<1>13. \A o \in Own : o[1] \in Nat /\ o[1] <= sender
  <2>1. \A o \in Own : o[1] \in {0} \cup Senders
    BY <1>2 DEF AllObjects
  <2> QED
    BY <1>2, <1>3, <2>1, SenderFacts DEF Shape
<1> QED
  BY <1>1, <1>2, <1>4, <1>5, <1>6, <1>7, <1>12, <1>13

LEMMA NextSenderTrees == Trees /\ Serial /\ NextSender => Trees'
<1> SUFFICES ASSUME Trees, Serial, NextSender PROVE Trees'
  OBVIOUS
<1>1. /\ Merged /\ Destroy /\ sender' = sender + 1 /\ sender \in Nat /\ pc' = "serialize"
      /\ roots' = roots /\ expected' = expected
  BY SenderFacts DEF NextSender, Serial
<1>2. /\ Own' = Own /\ Objects' = Own /\ Own \in SUBSET AllObjects
      /\ \A o \in Own : o[1] \in Nat /\ o[1] <= sender
      /\ Linked(Own, roots', children', parent')
      /\ DOMAIN children' = Own /\ DOMAIN node_data' = Own
      /\ Entries(Own, node_data') = expected' /\ node_of' = <<>> /\ tmp_roots' = {}
  BY <1>1, MergedTree
<1> HIDE DEF Own
<1>3. \A o \in Own : o[1] < sender' /\ o[1] <= sender'
  BY <1>1, <1>2
<1>4. Shape'
  BY <1>2, <1>3 DEF Shape
<1>5. Apart'
  BY <1>1, <1>2, <1>3 DEF Apart
<1> QED
  BY <1>1, <1>4, <1>5 DEF Trees

LEMMA BeginTrees == Trees /\ Serial /\ Begin => Trees'
<1> SUFFICES ASSUME Trees, Serial, Begin PROVE Trees'
  OBVIOUS
<1>1. /\ Merged /\ Destroy /\ sender' = sender /\ pc' = "count"
      /\ roots' = roots /\ expected' = expected
  BY DEF Begin, serial
<1>2. /\ Own' = Own /\ Objects' = Own /\ Own \in SUBSET AllObjects
      /\ \A o \in Own : o[1] \in Nat /\ o[1] <= sender
      /\ Linked(Own, roots', children', parent')
      /\ DOMAIN children' = Own /\ DOMAIN node_data' = Own
      /\ Entries(Own, node_data') = expected' /\ node_of' = <<>> /\ tmp_roots' = {}
  BY <1>1, MergedTree
<1> HIDE DEF Own
<1>3. Shape'
  BY <1>1, <1>2 DEF Shape
<1>4. Apart'
  BY <1>1, <1>2 DEF Apart
<1> QED
  BY <1>1, <1>3, <1>4 DEF Trees

LEMMA TreesStep == Trees /\ Serial /\ [Next]_vars => Trees'
<1> SUFFICES ASSUME Trees, Serial, [Next]_vars PROVE Trees'
  OBVIOUS
<1>0. ASSUME UNCHANGED <<roots, nodes, node_of, tmp_roots, expected>>, UNCHANGED sender,
             pc' \notin {"rebuild", "merge"} /\ pc \notin {"rebuild", "merge"},
             pc' \in {"serialize", "receive"} => pc \in {"serialize", "receive"}
      PROVE  Trees'
  <2>1. Shape' /\ Apart'
    BY <1>0, IdleStep
  <2> QED
    BY <1>0, <2>1 DEF Trees
<1>1. CASE SerializeNode
  BY <1>0, <1>1 DEF SerializeNode
<1>2. CASE SerializeReturn
  BY <1>0, <1>2 DEF SerializeReturn
<1>3. CASE PackWorkerData
  BY <1>0, <1>3 DEF PackWorkerData, serial
<1>4. CASE PrepareWorkerData
  BY <1>4, PrepareTrees
<1>5. CASE RebuildNode
  BY <1>5, RebuildTrees
<1>6. CASE UnpackFunctionData
  BY <1>6, UnpackTrees
<1>7. CASE MergeNode
  BY <1>7, MergeNodeTrees
<1>8. CASE TakeOver
  BY <1>8, TakeOverTrees
<1>9. CASE MergeReturn
  BY <1>9, MergeReturnTrees
<1>10. CASE NextSender
  BY <1>10, NextSenderTrees
<1>11. CASE Begin
  BY <1>11, BeginTrees
<1>12. CASE Visit
  BY <1>0, <1>12 DEF Visit, serial
<1>13. CASE Climb
  BY <1>0, <1>13 DEF Climb, serial
<1>14. CASE End
  BY <1>0, <1>14 DEF End, serial
<1>15. CASE UNCHANGED vars
  <2>1. /\ UNCHANGED <<pc, frames, sender, tree, mapping, f_data, node_of, roots, tmp_roots>>
        /\ UNCHANGED <<parent, children, node_data, expected>>
    BY <1>15 DEF vars, serial, nodes
  <2>2. Own' = Own /\ Objects' = Objects /\ SentEntries' = SentEntries /\ Built' = Built
    BY <2>1, SameOwn DEF Objects, SentEntries, Built, Order
  <2> HIDE DEF Own
  <2>3. Shape' /\ Apart'
    BY <2>1, <2>2 DEF Trees, Shape, Apart
  <2>4. (pc = "rebuild" => Rebuilding)'
    BY <2>1, <2>2 DEF Trees, Rebuilding, Order
  <2>5. (pc = "merge" => Received /\ Merging)'
    BY <2>1, <2>2 DEF Trees, Received, Merging
  <2> QED
    BY <2>3, <2>4, <2>5 DEF Trees
<1> QED
  BY <1>1, <1>2, <1>3, <1>4, <1>5, <1>6, <1>7, <1>8, <1>9, <1>10, <1>11, <1>12, <1>13,
     <1>14, <1>15 DEF Next, Terminated

LEMMA SpecTrees == Spec => [](Serial /\ Trees)
<1>1. Init => Serial /\ Trees
  BY SerialInit, TreesInit
<1>2. Serial /\ Trees /\ [Next]_vars => (Serial /\ Trees)'
  BY SerialStep, TreesStep
<1> QED
  BY <1>1, <1>2, PTL DEF Spec

(* When the merge begins, tmp_tree has the sender's call paths and, at     *)
(* each, its data; and it keeps them while branches are taken over.        *)
THEOREM SpecRoundTrip == Spec => []RoundTrip
<1>1. Serial /\ Trees => RoundTrip
  <2> SUFFICES ASSUME Serial, Trees, pc = "merge"
               PROVE  /\ PathsOf(Reach(tmp_roots)) = tree
                      /\ EntriesOf(Reach(tmp_roots)) = SentEntries
    BY DEF RoundTrip
  <2>1. Shape /\ Received
    BY DEF Trees
  <2>2. /\ sender \in {0} \cup Senders /\ tree \in SUBSET Paths
        /\ \A q \in tree : Len(q) > 1 => Front(q) \in tree
    BY TreeFacts DEF Serial
  <2> DEFINE L == SentObjects(sender, tree)
  <2>3. Forest(L, tmp_roots, children)
    BY <2>1, <2>2, MessageForest DEF Received
  <2>4. L \in SUBSET Objects /\ Objects \in SUBSET AllObjects
    BY <2>1 DEF Received, Shape
  <2>5. Reach(tmp_roots) = L
    <3>1. Reach(tmp_roots) = Reached(tmp_roots, Objects, children)
      BY ReachIs
    <3> HIDE DEF L
    <3> QED
      BY <2>3, <2>4, <3>1, ReachedIs
  <2>6. \A p \in tree : node_data[<<sender, p>>] = LocationsOf[sender][p]
    BY <2>1 DEF Received
  <2>7. /\ \A p \in tree : <<sender, p>> \in L /\ <<sender, p>>[2] = p
        /\ \A o \in L : o[2] \in tree /\ o = <<sender, o[2]>>
    BY DEF SentObjects
  <2> HIDE DEF L
  <2>8. PathsOf(L) = tree
    <3>1. \A p \in tree : p \in PathsOf(L)
      BY <2>7, Zenon DEF PathsOf
    <3>2. \A p \in PathsOf(L) : p \in tree
      BY <2>7, Zenon DEF PathsOf
    <3> QED
      BY <3>1, <3>2
  <2>9. EntriesOf(L) = SentEntries
    <3>1. \A o \in L : node_data[o] = LocationsOf[sender][o[2]]
      BY <2>6, <2>7
    <3>2. ASSUME NEW e \in SentEntries PROVE e \in EntriesOf(L)
      <4>1. PICK p \in tree : \E l \in LocationsOf[sender][p] : e = <<p, l>>
        BY DEF SentEntries
      <4>2. PICK l \in LocationsOf[sender][p] : e = <<p, l>>
        BY <4>1
      <4> DEFINE o == <<sender, p>>
      <4>3. o \in L /\ o[2] = p /\ l \in node_data[o]
        BY <2>7, <3>1
      <4> HIDE DEF o
      <4> QED
        BY <4>2, <4>3 DEF EntriesOf
    <3>3. ASSUME NEW e \in EntriesOf(L) PROVE e \in SentEntries
      <4>1. PICK o \in L : \E l \in node_data[o] : e = <<o[2], l>>
        BY DEF EntriesOf
      <4>2. \E p \in tree : \E l \in LocationsOf[sender][p] : e = <<p, l>>
        BY <2>7, <3>1, <4>1
      <4> QED
        BY <4>2 DEF SentEntries
    <3> QED
      BY <3>2, <3>3
  <2> QED
    BY <2>5, <2>8, <2>9
<1> QED
  BY <1>1, SpecTrees, PTL

(* Between two merges the own tree has an entry for every call path and    *)
(* location that it had or was sent, and no other.                         *)
THEOREM SpecMergedUnion == Spec => []MergedUnion
<1>1. Trees => MergedUnion
  BY DEF Trees, Apart, MergedUnion, Own, Entries, EntriesOf
<1> QED
  BY <1>1, SpecTrees, PTL

(* At any time, also half way through a merge, the nodes of the own tree   *)
(* are linked to their parents in both directions, are named after them,   *)
(* and no two of them stand for one call path.                             *)
THEOREM SpecParentsLive == Spec => []ParentsLive
<1>1. Trees => ParentsLive
  BY DEF Trees, Shape, Linked, Forest, ParentsLive, Own
<1> QED
  BY <1>1, SpecTrees, PTL

-----------------------------------------------------------------------------
(* The order in which the iterator comes to call paths: p before q when q  *)
(* goes on from p, or where they part, p has the smaller function id.      *)
Before(p, q) ==
  \/ Len(p) < Len(q) /\ Extends(q, p)
  \/ \E i \in 1 .. Len(p) : i <= Len(q) /\ p[i] < q[i] /\ \A j \in 1 .. i - 1 : p[j] = q[j]
Beyond(p, q) == Len(q) < Len(p) /\ Extends(p, q)
Past(p, q) == Before(p, q) \/ p = q
TurnsBefore(p, q, f) == Beyond(p, q) /\ p[Len(q) + 1] < f
TurnsInto(p, q, f) == Beyond(p, q) /\ p[Len(q) + 1] = f

LEMMA BeforeBasics ==
  ASSUME NEW p \in Paths
  PROVE  /\ ~Before(p, p) /\ ~Before(p, <<>>)
         /\ \A q \in Seq(Functions) : Extends(p, q) <=> p = q \/ Beyond(p, q)
<1>1. /\ p \in Seq(Functions) /\ Len(p) \in Nat /\ Len(p) >= 1
      /\ \A i \in 1 .. Len(p) : p[i] \in Nat
  <2>1. p \in Seq(Functions) /\ Len(p) \in Nat /\ Len(p) >= 1
    BY PathParts DEF Paths
  <2>2. \A i \in 1 .. Len(p) : p[i] \in Functions
    BY <2>1, ElementOfSeq
  <2> QED
    BY <2>1, <2>2, FunctionNumbers
<1>2. ~Before(p, p)
  <2>1. \A i \in 1 .. Len(p) : ~(p[i] < p[i])
    BY <1>1
  <2> QED
    BY <1>1, <2>1 DEF Before
<1>3. ~Before(p, <<>>)
  BY <1>1, EmptySeq DEF Before
<1>4. ASSUME NEW q \in Seq(Functions)
      PROVE  Extends(p, q) <=> p = q \/ Beyond(p, q)
  <2>1. Extends(p, q) /\ ~(Len(q) < Len(p)) => Len(p) = Len(q)
    BY <1>1, LenProperties DEF Extends
  <2>2. Extends(p, p)
    BY <1>1, ExtendsBasics
  <2> QED
    BY <1>1, <2>1, <2>2, ExtendsBasics DEF Beyond
<1> QED
  BY <1>2, <1>3, <1>4

LEMMA BeforeChild ==
  ASSUME NEW p \in Paths, NEW q \in Seq(Functions), NEW f \in Functions
  PROVE  /\ Before(p, Append(q, f)) <=> Past(p, q) \/ TurnsBefore(p, q, f)
         /\ Extends(p, Append(q, f)) <=> TurnsInto(p, q, f)
<1> DEFINE r == Append(q, f)
           m == Len(q)
<1>1. /\ p \in Seq(Functions) /\ Len(p) \in Nat /\ Len(p) >= 1 /\ m \in Nat /\ f \in Nat
      /\ \A i \in 1 .. Len(p) : p[i] \in Nat
      /\ \A i \in 1 .. m : q[i] \in Nat
  <2>1. p \in Seq(Functions) /\ Len(p) \in Nat /\ Len(p) >= 1 /\ m \in Nat
    BY PathParts, LenProperties DEF Paths
  <2>2. /\ \A i \in 1 .. Len(p) : p[i] \in Functions
        /\ \A i \in 1 .. m : q[i] \in Functions
    BY <2>1, ElementOfSeq
  <2> QED
    BY <2>1, <2>2, FunctionNumbers
<1>2. Len(r) = m + 1 /\ r[m + 1] = f /\ \A i \in 1 .. m : r[i] = q[i]
  BY AppendProperties
<1> HIDE DEF r
<1>3. ASSUME Before(p, r)
      PROVE  Before(p, q) \/ p = q \/ (Beyond(p, q) /\ p[m + 1] < f)
  <2>1. CASE Len(p) < Len(r) /\ Extends(r, p)
    <3>1. Len(p) <= m /\ \A j \in 1 .. Len(p) : q[j] = p[j]
      BY <1>1, <1>2, <2>1 DEF Extends
    <3>2. Extends(q, p)
      BY <3>1 DEF Extends
    <3>3. Len(p) = m => p = q
      BY <1>1, <3>2, ExtendsBasics
    <3>4. Len(p) < m => Before(p, q)
      BY <3>2 DEF Before
    <3>5. Len(p) = m \/ Len(p) < m
      BY <1>1, <3>1
    <3> QED
      BY <3>3, <3>4, <3>5
  <2>2. CASE \E i \in 1 .. Len(p) : i <= Len(r) /\ p[i] < r[i] /\ \A j \in 1 .. i - 1 : p[j] = r[j]
    <3>1. PICK i \in 1 .. Len(p) : i <= Len(r) /\ p[i] < r[i] /\ \A j \in 1 .. i - 1 : p[j] = r[j]
      BY <2>2
    <3>2. \A j \in 1 .. i - 1 : p[j] = q[j]
      BY <1>1, <1>2, <3>1
    <3>3. CASE i <= m
      <4>1. i \in 1 .. m
        BY <1>1, <3>3
      <4>2. p[i] < q[i]
        BY <1>2, <3>1, <4>1
      <4> QED
        BY <3>1, <3>2, <3>3, <4>2 DEF Before
    <3>4. CASE i = m + 1
      <4>1. m < Len(p) /\ p[m + 1] < f /\ \A j \in 1 .. m : p[j] = q[j]
        BY <1>1, <1>2, <3>1, <3>2, <3>4
      <4> QED
        BY <1>1, <4>1 DEF Beyond, Extends
    <3> QED
      BY <1>1, <1>2, <3>1, <3>3, <3>4
  <2> QED
    BY <1>3, <2>1, <2>2 DEF Before
<1>4. ASSUME Before(p, q) PROVE Before(p, r)
  <2>1. CASE Len(p) < m /\ Extends(q, p)
    <3>1. Len(p) < Len(r) /\ Extends(r, p)
      BY <1>1, <1>2, <2>1 DEF Extends
    <3> QED
      BY <3>1 DEF Before
  <2>2. CASE \E i \in 1 .. Len(p) : i <= m /\ p[i] < q[i] /\ \A j \in 1 .. i - 1 : p[j] = q[j]
    <3>1. PICK i \in 1 .. Len(p) : i <= m /\ p[i] < q[i] /\ \A j \in 1 .. i - 1 : p[j] = q[j]
      BY <2>2
    <3>2. i <= Len(r) /\ p[i] < r[i] /\ \A j \in 1 .. i - 1 : p[j] = r[j]
      BY <1>1, <1>2, <3>1
    <3> QED
      BY <3>2 DEF Before
  <2> QED
    BY <1>4, <2>1, <2>2 DEF Before
<1>5. ASSUME p = q PROVE Before(p, r)
  BY <1>1, <1>2, <1>5 DEF Before, Extends
<1>6. ASSUME Beyond(p, q), p[m + 1] < f PROVE Before(p, r)
  <2>1. m + 1 \in 1 .. Len(p) /\ m + 1 <= Len(r) /\ p[m + 1] < r[m + 1]
    BY <1>1, <1>2, <1>6 DEF Beyond
  <2>2. \A j \in 1 .. (m + 1) - 1 : p[j] = r[j]
    BY <1>1, <1>2, <1>6 DEF Beyond, Extends
  <2> QED
    BY <2>1, <2>2 DEF Before
<1>7. Extends(p, r) <=> Beyond(p, q) /\ p[m + 1] = f
  <2>1. \A j \in 1 .. m + 1 : j \in 1 .. m \/ j = m + 1
    BY <1>1
  <2>2. /\ m + 1 \in 1 .. m + 1 /\ (\A j \in 1 .. m : j \in 1 .. m + 1)
        /\ m + 1 <= Len(p) <=> m < Len(p)
        /\ m < Len(p) => m <= Len(p)
    BY <1>1
  <2> QED
    BY <1>2, <2>1, <2>2 DEF Beyond, Extends
<1> QED
  BY <1>3, <1>4, <1>5, <1>6, <1>7 DEF r, Past, TurnsBefore, TurnsInto

(* What is passed in a tree when the iterator comes to q, and when it has  *)
(* come to all that is there for q and below.                              *)
Upto(L, q) == {o \in L : Before(o[2], q)}
Through(L, q) == {o \in L : Before(o[2], q) \/ Extends(o[2], q)}

(* D are the objects right below q: whatever is further down is below one. *)
Level(L, D, q) ==
  /\ D \subseteq L
  /\ \A d \in D : Function(d) \in Functions /\ d[2] = Append(q, Function(d))
  /\ \A o \in L : Beyond(o[2], q) => \E d \in D : Function(d) = o[2][Len(q) + 1]
Least(c, D) == c \in D /\ \A d \in D : Function(c) <= Function(d)
After(D, d) == {e \in D : Function(e) > Function(d)}

(* Down to the first of the next level.                                    *)
LEMMA StepDown ==
  ASSUME NEW L \in SUBSET AllObjects, NEW D, NEW q \in Seq(Functions), Level(L, D, q)
  PROVE  /\ \A c : Least(c, D) => Upto(L, c[2]) = {o \in L : Past(o[2], q)}
         /\ D = {} => Through(L, q) = {o \in L : Past(o[2], q)}
<1>1. ASSUME NEW o \in L
      PROVE  /\ o[2] \in Paths
             /\ Beyond(o[2], q) => \E d \in D : Function(d) = o[2][Len(q) + 1]
  BY <1>1 DEF Level, AllObjects
<1>2. ASSUME NEW c, Least(c, D), NEW o \in L
      PROVE  Before(o[2], c[2]) <=> Past(o[2], q)
  <2>1. /\ c \in D /\ c[2] = Append(q, Function(c)) /\ Function(c) \in Functions
        /\ \A d \in D : Function(d) \in Nat /\ Function(c) <= Function(d)
    BY <1>2, FunctionNumbers DEF Level, Least
  <2>2. ~TurnsBefore(o[2], q, Function(c))
    <3> SUFFICES ASSUME Beyond(o[2], q), o[2][Len(q) + 1] < Function(c) PROVE FALSE
      BY DEF TurnsBefore
    <3>1. PICK d \in D : Function(d) = o[2][Len(q) + 1]
      BY <1>1
    <3>2. Function(c) <= Function(d) /\ Function(d) < Function(c) /\ Function(c) \in Nat /\ Function(d) \in Nat
      BY <2>1, <3>1
    <3> QED
      BY <3>2
  <2> QED
    BY <1>1, <2>1, <2>2, BeforeChild
<1>3. ASSUME D = {}, NEW o \in L
      PROVE  Extends(o[2], q) <=> o[2] = q
  BY <1>1, <1>3, BeforeBasics
<1> QED
  BY <1>2, <1>3 DEF Upto, Through, Past

(* On to the next of a level, or up.                                       *)
LEMMA StepOn ==
  ASSUME NEW L \in SUBSET AllObjects, NEW D, NEW q \in Seq(Functions), Level(L, D, q),
         NEW d \in D
  PROVE  /\ \A c : Least(c, After(D, d)) => Upto(L, c[2]) = Through(L, d[2])
         /\ After(D, d) = {} => Through(L, q) = Through(L, d[2])
<1> DEFINE next == {e \in D : Function(e) > Function(d)}
<1>1. ASSUME NEW o \in L
      PROVE  /\ o[2] \in Paths
             /\ Beyond(o[2], q) => \E e \in D : Function(e) = o[2][Len(q) + 1]
  BY <1>1 DEF Level, AllObjects
<1>2. \A e \in D : Function(e) \in Functions /\ Function(e) \in Nat /\ e[2] = Append(q, Function(e))
  BY FunctionNumbers DEF Level
<1>3. ASSUME NEW o \in L
      PROVE  /\ Before(o[2], d[2]) \/ Extends(o[2], d[2]) <=>
                  Past(o[2], q) \/ (Beyond(o[2], q) /\ o[2][Len(q) + 1] <= Function(d))
             /\ Beyond(o[2], q) => o[2][Len(q) + 1] \in Nat
  <2>1. Beyond(o[2], q) => o[2][Len(q) + 1] \in Nat
    BY <1>1, <1>2
  <2>2. /\ Before(o[2], d[2]) <=> Past(o[2], q) \/ TurnsBefore(o[2], q, Function(d))
        /\ Extends(o[2], d[2]) <=> TurnsInto(o[2], q, Function(d))
    BY <1>1, <1>2, BeforeChild
  <2>3. Beyond(o[2], q) =>
          (o[2][Len(q) + 1] <= Function(d) <=>
             o[2][Len(q) + 1] < Function(d) \/ o[2][Len(q) + 1] = Function(d))
    BY <1>2, <2>1
  <2> QED
    BY <2>1, <2>2, <2>3 DEF TurnsBefore, TurnsInto
<1>4. ASSUME NEW c, Least(c, next), NEW o \in L
      PROVE  Before(o[2], c[2]) <=> Before(o[2], d[2]) \/ Extends(o[2], d[2])
  <2>1. /\ c \in D /\ Function(c) > Function(d) /\ Function(c) \in Nat /\ Function(d) \in Nat
        /\ \A e \in D : Function(e) > Function(d) => Function(c) <= Function(e)
    BY <1>2, <1>4 DEF Least
  <2>2. Before(o[2], c[2]) <=> Past(o[2], q) \/ TurnsBefore(o[2], q, Function(c))
    BY <1>1, <1>2, <2>1, BeforeChild
  <2>3. Beyond(o[2], q) => (o[2][Len(q) + 1] < Function(c) <=> o[2][Len(q) + 1] <= Function(d))
    <3> SUFFICES ASSUME Beyond(o[2], q)
                 PROVE  o[2][Len(q) + 1] < Function(c) <=> o[2][Len(q) + 1] <= Function(d)
      OBVIOUS
    <3>1. PICK e \in D : Function(e) = o[2][Len(q) + 1]
      BY <1>1
    <3>2. Function(e) \in Nat /\ (Function(e) > Function(d) => Function(c) <= Function(e))
      BY <1>2, <2>1
    <3>3. Function(e) < Function(c) <=> Function(e) <= Function(d)
      BY <2>1, <3>2
    <3> QED
      BY <3>1, <3>3
  <2> QED
    BY <1>3, <2>2, <2>3 DEF TurnsBefore
<1>5. ASSUME next = {}, NEW o \in L
      PROVE  Before(o[2], q) \/ Extends(o[2], q) <=> Before(o[2], d[2]) \/ Extends(o[2], d[2])
  <2>1. \A e \in D : ~(Function(e) > Function(d))
    BY <1>5
  <2>2. Beyond(o[2], q) => o[2][Len(q) + 1] <= Function(d)
    <3> SUFFICES ASSUME Beyond(o[2], q) PROVE o[2][Len(q) + 1] <= Function(d)
      OBVIOUS
    <3>1. PICK e \in D : Function(e) = o[2][Len(q) + 1]
      BY <1>1
    <3>2. Function(e) <= Function(d)
      BY <1>2, <2>1
    <3> QED
      BY <3>1, <3>2
  <2>3. Extends(o[2], q) <=> o[2] = q \/ Beyond(o[2], q)
    BY <1>1, BeforeBasics
  <2> QED
    BY <1>3, <2>2, <2>3 DEF Past
<1>6. After(D, d) = next
  BY DEF After
<1> QED
  BY <1>4, <1>5, <1>6 DEF Upto, Through

LEMMA Levels ==
  ASSUME NEW L \in SUBSET AllObjects, NEW from, NEW C, NEW P, Linked(L, from, C, P)
  PROVE  Level(L, from, <<>>) /\ \A q \in L : Level(L, C[q], q[2])
<1>0. /\ Forest(L, from, C) /\ from \subseteq L
      /\ \A a, b \in L : a[2] = b[2] => a = b
  BY DEF Linked, Forest
<1>1. ASSUME NEW o \in L
      PROVE  /\ o[2] \in Paths /\ o[2] \in Seq(Functions) /\ Len(o[2]) \in Nat /\ Len(o[2]) >= 1
             /\ Function(o) \in Functions /\ Function(o) = o[2][Len(o[2])]
             /\ o[2] = Append(Front(o[2]), Function(o))
             /\ Len(o[2]) = 1 <=> Front(o[2]) = <<>>
  <2>1. o[2] \in Paths
    BY DEF AllObjects
  <2> QED
    BY <2>1, PathParts DEF Function, Paths
<1>2. ASSUME NEW o \in L
      PROVE  /\ \A c \in C[o] : c \in L /\ Front(c[2]) = o[2]
             /\ Len(o[2]) = 1 <=> o \in from
             /\ o \notin from => \E q \in L : o \in C[q] /\ q[2] = Front(o[2])
  <2>1. /\ o[2] \in Paths /\ o[1] \in {0} \cup Senders
        /\ \A c \in C[o] : /\ c \in L /\ c[2] \in Paths /\ Front(c[2]) = o[2]
                           /\ Len(c[2]) = Len(o[2]) + 1
        /\ Len(o[2]) = 1 <=> o \in from
        /\ o \notin from => \E q \in L : o \in C[q] /\ q[2] = Front(o[2])
    BY <1>0, ForestParts
  <2> QED
    BY <2>1
<1>3. ASSUME NEW o \in L, NEW q \in Seq(Functions), Beyond(o[2], q)
      PROVE  \E a \in L : /\ Front(a[2]) = q /\ Function(a) = o[2][Len(q) + 1]
                          /\ Len(a[2]) = Len(q) + 1
  <2> DEFINE n == Len(q) + 1
  <2>1. n \in 1 .. Len(o[2]) /\ n - 1 = Len(q) /\ n \in Nat /\ n >= 1
    BY <1>1, <1>3, LenProperties DEF Beyond
  <2>2. /\ SubSeq(o[2], 1, n) \in Paths /\ Len(SubSeq(o[2], 1, n)) = n
        /\ \A j \in 1 .. n : SubSeq(o[2], 1, n)[j] = o[2][j]
    BY <1>1, <2>1, Initial
  <2>3. PICK a \in L : a[2] = SubSeq(o[2], 1, n)
    BY <1>0, <2>1, Ancestor
  <2> HIDE DEF n
  <2>4. Function(a) = o[2][n]
    <3>1. Len(a[2]) = n /\ a[2][n] = o[2][n]
      <4>1. n \in 1 .. n
        BY <2>1
      <4> QED
        BY <2>2, <2>3, <4>1
    <3> QED
      BY <1>1, <3>1
  <2>5. /\ Front(a[2]) \in Seq(Functions) /\ Len(Front(a[2])) = n - 1
        /\ \A j \in 1 .. n - 1 : Front(a[2])[j] = a[2][j]
    <3>1. a[2] \in Paths /\ Len(a[2]) = n
      BY <2>2, <2>3
    <3> QED
      BY <3>1, PathParts
  <2>6. \A j \in 1 .. n - 1 : a[2][j] = q[j]
    <3>1. \A j \in 1 .. n - 1 : j \in 1 .. n
      BY <2>1
    <3> QED
      BY <1>3, <2>1, <2>2, <2>3, <3>1 DEF Beyond, Extends
  <2>7. Front(a[2]) = q
    BY <2>1, <2>5, <2>6, SeqEqual
  <2> QED
    BY <2>2, <2>3, <2>4, <2>7 DEF n
<1>4. Level(L, from, <<>>)
  <2>1. \A d \in from : Function(d) \in Functions /\ d[2] = Append(<<>>, Function(d))
    BY <1>0, <1>1, <1>2
  <2>2. ASSUME NEW o \in L, Beyond(o[2], <<>>)
        PROVE  \E d \in from : Function(d) = o[2][Len(<<>>) + 1]
    <3>1. <<>> \in Seq(Functions)
      BY EmptySeq
    <3>2. PICK a \in L : Front(a[2]) = <<>> /\ Function(a) = o[2][Len(<<>>) + 1]
      BY <1>3, <2>2, <3>1
    <3> QED
      BY <1>1, <1>2, <3>2
  <2> QED
    BY <1>0, <2>1, <2>2 DEF Level
<1>5. ASSUME NEW q \in L PROVE Level(L, C[q], q[2])
  <2>1. /\ C[q] \subseteq L
        /\ \A d \in C[q] : Function(d) \in Functions /\ d[2] = Append(q[2], Function(d))
    <3>1. \A d \in C[q] : d \in L /\ Front(d[2]) = q[2]
      BY <1>2
    <3> QED
      BY <1>1, <3>1
  <2>2. ASSUME NEW o \in L, Beyond(o[2], q[2])
        PROVE  \E d \in C[q] : Function(d) = o[2][Len(q[2]) + 1]
    <3>1. PICK a \in L : /\ Front(a[2]) = q[2] /\ Function(a) = o[2][Len(q[2]) + 1]
                         /\ Len(a[2]) = Len(q[2]) + 1
      BY <1>1, <1>3, <2>2
    <3>2. a \notin from
      BY <1>1, <1>2, <3>1
    <3>3. PICK r \in L : a \in C[r] /\ r[2] = Front(a[2])
      BY <1>2, <3>2
    <3>4. r = q
      BY <1>0, <3>1, <3>3
    <3> QED
      BY <3>1, <3>3, <3>4
  <2> QED
    BY <2>1, <2>2 DEF Level
<1> QED
  BY <1>4, <1>5

LEMMA VisitedNext ==
  ASSUME NEW L, NEW s \in Seq(L), IsInjective(s), NEW o \in L, o \notin Range(s)
  PROVE  /\ Append(s, o) \in Seq(L) /\ IsInjective(Append(s, o))
         /\ Range(Append(s, o)) = Range(s) \cup {o}
<1> DEFINE t == Append(s, o)
           n == Len(s)
<1>1. /\ t \in Seq(L) /\ Len(t) = n + 1 /\ t[n + 1] = o /\ \A i \in 1 .. n : t[i] = s[i]
      /\ n \in Nat
  BY AppendProperties, LenProperties
<1>2. DOMAIN s = 1 .. n /\ DOMAIN t = 1 .. n + 1
  BY <1>1, LenProperties
<1>3. /\ n + 1 \in 1 .. n + 1 /\ \A i \in 1 .. n : i \in 1 .. n + 1
      /\ \A i \in 1 .. n + 1 : i \in 1 .. n \/ i = n + 1
  BY <1>1
<1> HIDE DEF t, n
<1>4. \A i \in 1 .. n : s[i] # o
  BY <1>2 DEF Range
<1>5. IsInjective(t)
  BY <1>1, <1>2, <1>3, <1>4 DEF IsInjective
<1>6. Range(t) = Range(s) \cup {o}
  BY <1>1, <1>2, <1>3 DEF Range
<1> QED
  BY <1>1, <1>5, <1>6 DEF t

-----------------------------------------------------------------------------
(* The invariant of the iteration.                                         *)
Walk ==
  /\ visited \in Seq(Own) /\ IsInjective(visited) /\ current \in Own \cup {Null}
  /\ pc \notin {"count", "climb", "done"} => current = Null /\ visited = <<>>
  /\ pc = "climb" => current # Null /\ Range(visited) = Through(Own, current[2])
  /\ pc = "count" => Range(visited) = IF current = Null THEN Own ELSE Upto(Own, current[2])
  /\ pc = "done" => current = Null /\ Range(visited) = Own

LEMMA NothingVisited ==
  \A L : <<>> \in Seq(L) /\ IsInjective(<<>>) /\ Range(<<>>) = {}
<1>1. DOMAIN <<>> = {}
  OBVIOUS
<1> QED
  BY <1>1, EmptySeq DEF IsInjective, Range

LEMMA LeastFirst ==
  ASSUME NEW S \in SUBSET AllObjects, S # {} PROVE Least(First(S), S)
BY FirstIn DEF Least

LEMMA WalkInit == Init => Walk
BY NothingVisited DEF Init, Walk

LEMMA BeginWalk == Trees /\ Serial /\ Walk /\ Begin => Walk'
<1> SUFFICES ASSUME Trees, Serial, Walk, Begin PROVE Walk'
  OBVIOUS
<1>1. /\ Merged /\ Destroy /\ roots' = roots /\ expected' = expected /\ pc = "merge"
      /\ pc' = "count" /\ visited' = visited
      /\ current' = IF roots = {} THEN Null ELSE First(roots)
  BY DEF Begin, Merged
<1>2. visited = <<>>
  BY <1>1 DEF Walk
<1>3. Own' = Own /\ Own \in SUBSET AllObjects /\ Linked(Own, roots', children', parent')
  BY <1>1, MergedTree
<1>4. Level(Own, roots, <<>>) /\ roots \subseteq Own
  <2> DEFINE C == children'
             P == parent'
  <2>1. Linked(Own, roots, C, P) /\ Own \in SUBSET AllObjects
    BY <1>1, <1>3
  <2> HIDE DEF Own, C, P
  <2>2. Level(Own, roots, <<>>)
    BY <2>1, Levels
  <2> QED
    BY <2>2 DEF Level
<1> HIDE DEF Own
<1>5. {o \in Own : Past(o[2], <<>>)} = {}
  <2>1. ASSUME NEW o \in Own PROVE ~Past(o[2], <<>>)
    <3>1. o[2] \in Paths /\ o[2] # <<>>
      BY <1>3 DEF AllObjects, Paths
    <3> QED
      BY <3>1, BeforeBasics DEF Past
  <2> QED
    BY <2>1
<1>6. CASE roots = {}
  <2>1. Own = {}
    <3> SUFFICES ASSUME NEW o \in Own PROVE FALSE
      OBVIOUS
    <3>1. o[2] \in Paths /\ <<>> \in Seq(Functions) /\ o[2] # <<>> /\ o[2] \in Seq(Functions)
      BY <1>3, EmptySeq DEF AllObjects, Paths
    <3>2. Beyond(o[2], <<>>)
      BY <3>1, BeforeBasics, ExtendsBasics
    <3> QED
      BY <1>4, <1>6, <3>2 DEF Level
  <2> QED
    BY <1>1, <1>2, <1>3, <1>6, <2>1, NothingVisited DEF Walk
<1>7. CASE roots # {}
  <2>1. Least(First(roots), roots)
    BY <1>3, <1>4, <1>7, LeastFirst
  <2>2. current' = First(roots) /\ current' \in Own
    BY <1>1, <1>4, <1>7, <2>1 DEF Least
  <2>3. Upto(Own, current'[2]) = {}
    <3>1. <<>> \in Seq(Functions)
      BY EmptySeq
    <3>2. Upto(Own, First(roots)[2]) = {o \in Own : Past(o[2], <<>>)}
      <4>1. Own \in SUBSET AllObjects
        BY <1>3
      <4>2. \A c : Least(c, roots) => Upto(Own, c[2]) = {o \in Own : Past(o[2], <<>>)}
        BY <1>4, <3>1, <4>1, StepDown
      <4> QED
        BY <2>1, <4>2, Zenon
    <3> QED
      BY <1>5, <2>2, <3>2
  <2>4. current' # Null
    BY <1>3, <2>2 DEF AllObjects, Null
  <2> QED
    BY <1>1, <1>2, <1>3, <2>2, <2>3, <2>4, NothingVisited DEF Walk
<1> QED
  BY <1>6, <1>7

(* What the iterator finds at a node of the own tree.                      *)
LEMMA OwnLinks ==
  ASSUME Trees
  PROVE  /\ Own \in SUBSET AllObjects /\ Null \notin Own
         /\ Level(Own, roots, <<>>) /\ roots \in SUBSET AllObjects
         /\ \A q \in Own : Level(Own, children[q], q[2]) /\ children[q] \in SUBSET AllObjects
         /\ \A o, q \in Own : o[2] = q[2] => o = q
         /\ \A o \in Own : IF parent[o] = Null THEN o \in roots
                           ELSE parent[o] \in Own /\ o \in children[parent[o]]
<1>1. Own \in SUBSET AllObjects /\ Linked(Own, roots, children, parent)
  BY OwnIn DEF Trees, Shape
<1> HIDE DEF Own
<1>2. /\ \A o, q \in Own : o[2] = q[2] => o = q
      /\ \A o \in Own : \A c \in children[o] : c \in Own /\ parent[c] = o
      /\ \A o \in roots : parent[o] = Null
      /\ \A o \in Own : o \in roots \/ \E q \in Own : o \in children[q]
  BY <1>1 DEF Linked, Forest
<1>3. Null \notin Own
  BY <1>1 DEF AllObjects, Null
<1>4. \A o \in Own : IF parent[o] = Null THEN o \in roots
                     ELSE parent[o] \in Own /\ o \in children[parent[o]]
  BY <1>2, <1>3
<1>5. Level(Own, roots, <<>>) /\ \A q \in Own : Level(Own, children[q], q[2])
  BY <1>1, Levels
<1>6. roots \subseteq Own /\ \A q \in Own : children[q] \subseteq Own
  BY <1>5 DEF Level
<1>7. roots \in SUBSET AllObjects /\ \A q \in Own : children[q] \in SUBSET AllObjects
  BY <1>1, <1>6
<1> QED
  BY <1>1, <1>2, <1>3, <1>4, <1>5, <1>7

LEMMA VisitWalk == Trees /\ Walk /\ Visit => Walk'
<1> SUFFICES ASSUME Trees, Walk, Visit PROVE Walk'
  OBVIOUS
<1> DEFINE D == children[current]
           q == current[2]
<1>1. /\ pc = "count" /\ current # Null /\ visited' = Append(visited, current)
      /\ D # {} => current' = First(D) /\ pc' = "count"
      /\ D = {} => current' = current /\ pc' = "climb"
      /\ roots' = roots /\ parent' = parent /\ children' = children
  BY DEF Visit, nodes
<1>2. Own' = Own
  BY <1>1, SameOwn
<1>3. /\ Own \in SUBSET AllObjects /\ Null \notin Own
      /\ \A o \in Own : Level(Own, children[o], o[2]) /\ children[o] \in SUBSET AllObjects
      /\ \A o, p \in Own : o[2] = p[2] => o = p
  BY OwnLinks
<1> HIDE DEF Own
<1>4. /\ current \in Own /\ visited \in Seq(Own) /\ IsInjective(visited)
      /\ Range(visited) = Upto(Own, q)
  BY <1>1 DEF Walk
<1>5. q \in Paths /\ q \in Seq(Functions)
  BY <1>3, <1>4 DEF AllObjects, Paths
<1>6. Level(Own, D, q) /\ D \in SUBSET AllObjects
  BY <1>3, <1>4
<1>7. current \notin Range(visited)
  BY <1>4, <1>5, BeforeBasics DEF Upto
<1>8. /\ visited' \in Seq(Own) /\ IsInjective(visited')
      /\ Range(visited') = Upto(Own, q) \cup {current}
  BY <1>1, <1>4, <1>7, VisitedNext
<1>9. Range(visited') = {o \in Own : Past(o[2], q)}
  <2>1. \A o \in Own : o[2] = q <=> o = current
    BY <1>3, <1>4
  <2> QED
    BY <1>4, <1>8, <2>1 DEF Upto, Past
<1> HIDE DEF D, q
<1>10. CASE D # {}
  <2>1. Least(First(D), D)
    BY <1>6, <1>10, LeastFirst
  <2>2. current' = First(D) /\ current' \in Own /\ current' # Null /\ pc' = "count"
    BY <1>1, <1>3, <1>6, <1>10, <2>1 DEF Least, Level
  <2>3. Upto(Own, First(D)[2]) = {o \in Own : Past(o[2], q)}
    <3>1. Own \in SUBSET AllObjects /\ q \in Seq(Functions) /\ Level(Own, D, q)
      BY <1>3, <1>5, <1>6
    <3>2. \A c : Least(c, D) => Upto(Own, c[2]) = {o \in Own : Past(o[2], q)}
      BY <3>1, StepDown
    <3> QED
      BY <2>1, <3>2
  <2>4. Range(visited') = Upto(Own', current'[2])
    BY <1>2, <1>9, <2>2, <2>3
  <2> QED
    BY <1>2, <1>8, <2>2, <2>4 DEF Walk
<1>11. CASE D = {}
  <2>1. current' = current /\ pc' = "climb"
    BY <1>1, <1>11
  <2>2. Through(Own, q) = {o \in Own : Past(o[2], q)}
    BY <1>3, <1>5, <1>6, <1>11, StepDown
  <2>3. Range(visited') = Through(Own', current'[2])
    BY <1>2, <1>9, <2>1, <2>2 DEF q
  <2> QED
    BY <1>1, <1>2, <1>4, <1>8, <2>1, <2>3 DEF Walk
<1> QED
  BY <1>10, <1>11

LEMMA ClimbWalk == Trees /\ Walk /\ Climb => Walk'
<1> SUFFICES ASSUME Trees, Walk, Climb PROVE Walk'
  OBVIOUS
<1> DEFINE D == IF parent[current] = Null THEN roots ELSE children[parent[current]]
           next == Later(D)
           q == IF parent[current] = Null THEN <<>> ELSE parent[current][2]
<1>1. /\ pc = "climb" /\ visited' = visited
      /\ roots' = roots /\ parent' = parent /\ children' = children
      /\ \/ next # {} /\ current' = First(next) /\ pc' = "count"
         \/ next = {} /\ parent[current] # Null /\ current' = parent[current] /\ pc' = "climb"
         \/ next = {} /\ parent[current] = Null /\ current' = Null /\ pc' = "count"
  BY DEF Climb, nodes
<1>2. Own' = Own
  BY <1>1, SameOwn
<1>3. /\ Own \in SUBSET AllObjects /\ Null \notin Own
      /\ Level(Own, roots, <<>>) /\ roots \in SUBSET AllObjects
      /\ \A o \in Own : Level(Own, children[o], o[2]) /\ children[o] \in SUBSET AllObjects
      /\ \A o \in Own : IF parent[o] = Null THEN o \in roots
                        ELSE parent[o] \in Own /\ o \in children[parent[o]]
  BY OwnLinks
<1> HIDE DEF Own
<1>4. /\ current \in Own /\ visited \in Seq(Own) /\ IsInjective(visited)
      /\ Range(visited) = Through(Own, current[2])
  BY <1>1 DEF Walk
<1>5. /\ Level(Own, D, q) /\ D \in SUBSET AllObjects /\ current \in D /\ q \in Seq(Functions)
  <2>1. CASE parent[current] = Null
    BY <1>3, <1>4, <2>1, EmptySeq
  <2>2. CASE parent[current] # Null
    <3>1. parent[current] \in Own /\ current \in children[parent[current]]
      BY <1>3, <1>4, <2>2
    <3>2. parent[current][2] \in Seq(Functions)
      BY <1>3, <3>1 DEF AllObjects, Paths
    <3> QED
      BY <1>3, <2>2, <3>1, <3>2
  <2> QED
    BY <2>1, <2>2
<1>6. next = After(D, current) /\ next \subseteq D
  BY DEF Later, After
<1>7. CASE next # {} /\ current' = First(next) /\ pc' = "count"
  <2> HIDE DEF D, q, next
  <2>1. Least(First(next), next)
    <3>1. next \in SUBSET AllObjects /\ next # {}
      BY <1>5, <1>6, <1>7
    <3> QED
      BY <3>1, LeastFirst
  <2>2. current' \in Own /\ current' # Null
    BY <1>3, <1>5, <1>6, <1>7, <2>1 DEF Least, Level
  <2>3. Upto(Own, First(next)[2]) = Through(Own, current[2])
    BY <1>3, <1>5, <1>6, <2>1, StepOn
  <2>4. Range(visited') = Upto(Own', current'[2])
    BY <1>1, <1>2, <1>4, <1>7, <2>3
  <2> QED
    BY <1>1, <1>2, <1>4, <1>7, <2>2, <2>4 DEF Walk
<1>8. next = {} => Through(Own, q) = Through(Own, current[2])
  <2> HIDE DEF D, q, next
  <2>1. /\ Own \in SUBSET AllObjects /\ q \in Seq(Functions) /\ Level(Own, D, q)
        /\ current \in D /\ next = After(D, current)
    BY <1>3, <1>5, <1>6
  <2> QED
    BY <2>1, StepOn
<1>9. CASE next = {} /\ parent[current] # Null /\ current' = parent[current] /\ pc' = "climb"
  <2>1. current' \in Own /\ current' # Null /\ q = current'[2]
    BY <1>3, <1>4, <1>9
  <2> HIDE DEF D, q, next
  <2>2. Range(visited') = Through(Own', current'[2])
    BY <1>1, <1>2, <1>4, <1>8, <1>9, <2>1
  <2> QED
    BY <1>1, <1>2, <1>4, <1>9, <2>1, <2>2 DEF Walk
<1>10. CASE next = {} /\ parent[current] = Null /\ current' = Null /\ pc' = "count"
  <2>1. q = <<>>
    BY <1>10
  <2> HIDE DEF D, q, next
  <2>2. Through(Own, <<>>) = Own
    <3>1. \A o \in Own : Extends(o[2], <<>>)
      BY <1>3, ExtendsBasics DEF AllObjects, Paths
    <3> QED
      BY <3>1 DEF Through
  <2>3. Range(visited') = Own'
    BY <1>1, <1>2, <1>4, <1>8, <1>10, <2>1, <2>2
  <2> QED
    BY <1>1, <1>2, <1>4, <1>10, <2>3 DEF Walk
<1> QED
  BY <1>1, <1>7, <1>9, <1>10

LEMMA WalkStep == Trees /\ Serial /\ Walk /\ [Next]_vars => Walk'
<1> SUFFICES ASSUME Trees, Serial, Walk, [Next]_vars PROVE Walk'
  OBVIOUS
<1>0. ASSUME UNCHANGED <<current, visited>>, pc \notin {"count", "climb", "done"},
             pc' \notin {"count", "climb", "done"}
      PROVE  Walk'
  BY <1>0, NothingVisited DEF Walk
<1>1. CASE SerializeNode
  BY <1>0, <1>1 DEF SerializeNode, iteration
<1>2. CASE SerializeReturn
  BY <1>0, <1>2 DEF SerializeReturn, iteration
<1>3. CASE PackWorkerData
  BY <1>0, <1>3 DEF PackWorkerData, iteration
<1>4. CASE PrepareWorkerData
  BY <1>0, <1>4 DEF PrepareWorkerData, iteration
<1>5. CASE RebuildNode
  BY <1>0, <1>5 DEF RebuildNode, iteration
<1>6. CASE UnpackFunctionData
  BY <1>0, <1>6 DEF UnpackFunctionData, iteration
<1>7. CASE MergeNode
  BY <1>0, <1>7 DEF MergeNode, iteration
<1>8. CASE TakeOver
  BY <1>0, <1>8 DEF TakeOver, iteration
<1>9. CASE MergeReturn
  BY <1>0, <1>9 DEF MergeReturn, iteration
<1>10. CASE NextSender
  BY <1>0, <1>10 DEF NextSender, Merged, iteration
<1>11. CASE Begin
  BY <1>11, BeginWalk
<1>12. CASE Visit
  BY <1>12, VisitWalk
<1>13. CASE Climb
  BY <1>13, ClimbWalk
<1>14. CASE End
  <2>1. /\ pc = "count" /\ current = Null /\ pc' = "done" /\ current' = current
        /\ visited' = visited /\ roots' = roots /\ parent' = parent /\ children' = children
    BY <1>14 DEF End, iteration, nodes
  <2>2. Own' = Own
    BY <2>1, SameOwn
  <2> HIDE DEF Own
  <2> QED
    BY <2>1, <2>2 DEF Walk
<1>15. CASE UNCHANGED vars
  <2>1. /\ pc' = pc /\ current' = current
        /\ visited' = visited /\ roots' = roots /\ parent' = parent /\ children' = children
    BY <1>15 DEF vars, iteration, nodes
  <2>2. Own' = Own
    BY <2>1, SameOwn
  <2> HIDE DEF Own
  <2> QED
    BY <2>1, <2>2 DEF Walk
<1> QED
  BY <1>1, <1>2, <1>3, <1>4, <1>5, <1>6, <1>7, <1>8, <1>9, <1>10, <1>11, <1>12, <1>13,
     <1>14, <1>15 DEF Next, Terminated

LEMMA SpecInvariant == Spec => [](Serial /\ Trees /\ Walk)
<1>1. Init => Serial /\ Trees /\ Walk
  BY SerialInit, TreesInit, WalkInit
<1>2. Serial /\ Trees /\ Walk /\ [Next]_vars => (Serial /\ Trees /\ Walk)'
  BY SerialStep, TreesStep, WalkStep
<1> QED
  BY <1>1, <1>2, PTL DEF Spec

(* tree_iter comes to no node twice and, when it is at the end, has been   *)
(* at every node of the merged tree: no branch is left out and none is     *)
(* walked again on the way up.                                             *)
THEOREM SpecVisitedOnce == Spec => []VisitedOnce
<1>1. Walk => VisitedOnce
  BY DEF Walk, VisitedOnce, Own
<1> QED
  BY <1>1, SpecInvariant, PTL

-----------------------------------------------------------------------------
(* Types.  That children is a function is said apart: Trees only says what *)
(* it is defined for and what its values are.                              *)
ChildrenMap == children = [o \in DOMAIN children |-> children[o]]

LEMMA ChildrenMapStep == ChildrenMap /\ [Next]_vars => ChildrenMap'
<1> SUFFICES ASSUME ChildrenMap, [Next]_vars PROVE ChildrenMap'
  OBVIOUS
<1> DEFINE to == children'
           same == to = [o \in DOMAIN to |-> to[o]]
<1>1. CASE UNCHANGED children
  BY <1>1 DEF ChildrenMap
<1>2. CASE RebuildNode
  <2>1. \/ UNCHANGED children
        \/ \E S, f : to = [o \in S |-> f[o]]
    <3> DEFINE m == mapping[Len(node_of) + 1]
               above == IF m.parent + 1 \in DOMAIN node_of THEN node_of[m.parent + 1] ELSE Null
               self == <<sender, Append(IF above = Null THEN <<>> ELSE above[2], m.function)>>
               of(o) == CASE o = self  -> {}
                          [] o = above -> children[o] \cup {self}
                          [] OTHER     -> children[o]
               S == Objects \cup {self}
               g == [o \in S |-> of(o)]
    <3>1. UNCHANGED children \/ to = g
      BY <1>2 DEF RebuildNode
    <3> HIDE DEF S, of
    <3>2. g = [o \in S |-> g[o]]
      OBVIOUS
    <3> HIDE DEF g
    <3> QED
      BY <3>1, <3>2
  <2>2. ASSUME NEW S, NEW f, to = [o \in S |-> f[o]] PROVE same
    <3> HIDE DEF to
    <3> QED
      BY <2>2
  <2> QED
    BY <1>1, <2>1, <2>2 DEF ChildrenMap
<1>3. CASE TakeOver
  <2>1. UNCHANGED children \/ \E v : to = [children EXCEPT ![Top.node] = v]
    <3>1. \/ UNCHANGED children
          \/ to = [children EXCEPT ![Top.node] = children[Top.node] \cup {First(Top.left)}]
      BY <1>3 DEF TakeOver, InsertSubTree
    <3> QED
      BY <3>1
  <2>2. ASSUME NEW v, to = [children EXCEPT ![Top.node] = v] PROVE same
    <3> HIDE DEF to
    <3> QED
      BY <2>2 DEF ChildrenMap
  <2> QED
    BY <1>1, <2>1, <2>2 DEF ChildrenMap
<1>4. CASE NextSender \/ Begin
  <2>1. to = [o \in Reach(roots) |-> children[o]]
    BY <1>4 DEF NextSender, Begin, Destroy
  <2>2. same
    <3> HIDE DEF to
    <3> QED
      BY <2>1
  <2> QED
    BY <2>2 DEF ChildrenMap
<1>5. ASSUME SerializeNode \/ SerializeReturn \/ PackWorkerData \/ PrepareWorkerData \/ UnpackFunctionData
             \/ MergeNode \/ MergeReturn \/ Visit \/ Climb \/ End
      PROVE  UNCHANGED children
  BY <1>5 DEF SerializeNode, SerializeReturn, PackWorkerData, PrepareWorkerData, UnpackFunctionData,
              MergeNode, MergeReturn, Visit, Climb, End, nodes
<1> QED
  BY <1>1, <1>2, <1>3, <1>4, <1>5 DEF Next, Terminated, vars, nodes

(* All objects there are have their children among them.                   *)
LEMMA ObjectTypes ==
  ASSUME Serial, Trees
  PROVE  /\ roots \cup tmp_roots \subseteq Objects /\ Range(node_of) \subseteq Objects
         /\ DOMAIN children = Objects /\ DOMAIN node_data = Objects /\ Own \subseteq Objects
         /\ \A o \in Objects : children[o] \subseteq Objects
<1>1. /\ Shape /\ Apart /\ Own \subseteq Objects
      /\ roots \subseteq Own /\ \A o \in Own : children[o] \subseteq Own
  BY OwnIn DEF Trees, Shape, Linked, Forest
<1> HIDE DEF Own
<1>2. \A S : \A s \in Seq(S) : Range(s) \subseteq S
  BY LenProperties, ElementOfSeq DEF Range
<1>3. ASSUME NEW T, MessageTree(sender, T, tmp_roots, children), node_of \in Seq(Objects),
             Objects = Own \cup SentObjects(sender, T)
      PROVE  /\ tmp_roots \subseteq Objects /\ Range(node_of) \subseteq Objects
             /\ \A o \in Objects : children[o] \subseteq Objects
  <2>1. \A p : SentObjects(sender, Under(T, p)) \subseteq Objects
    BY <1>3 DEF SentObjects, Under
  <2>2. \A o \in SentObjects(sender, T) : children[o] \subseteq Objects
    BY <1>3, <2>1 DEF MessageTree, SentObjects
  <2>3. tmp_roots \subseteq Objects
    BY <1>3, <2>1 DEF MessageTree
  <2> QED
    BY <1>1, <1>2, <1>3, <2>2, <2>3
<1>4. /\ tmp_roots \subseteq Objects /\ Range(node_of) \subseteq Objects
      /\ \A o \in Objects : children[o] \subseteq Objects
  <2>1. CASE pc = "rebuild"
    BY <1>3, <2>1 DEF Trees, Rebuilding
  <2>2. CASE pc = "merge"
    BY <1>3, <2>2 DEF Trees, Received
  <2>3. CASE pc \notin {"rebuild", "merge"}
    BY <1>1, <2>3, NothingVisited DEF Apart
  <2> QED
    BY <2>1, <2>2, <2>3
<1> QED
  BY <1>1, <1>4 DEF Shape

(* The types of all variables, in every state.                             *)
THEOREM SpecTypeOK == Spec => []TypeOK
<1>1. ASSUME Serial, Trees, Walk, BuffersType, ChildrenMap PROVE TypeOK
  <2>1. pc \in Labels /\ sender \in Senders /\ tree \in SentTrees[sender]
    BY <1>1 DEF Serial
  <2>2. PICK order : Numbering(order, tree, sender, mapping, f_data)
    BY <1>1 DEF Serial, Numbered
  <2>3. MappingOf(order, tree, mapping)
    <3>1. tree \in SUBSET Paths
      BY <2>1, TreeFacts
    <3> QED
      BY <2>2, <3>1, NumberingParts
  <2>4. \A m \in Range(mapping) : m.function \in Functions /\ m.parent \in -1 .. Len(mapping)
    <3>1. DOMAIN mapping = 1 .. Len(mapping) /\ Len(mapping) \in Nat
      BY <2>2, LenProperties DEF Numbering, Mappings
    <3>2. ASSUME NEW i \in 1 .. Len(mapping)
          PROVE  mapping[i].function \in Functions /\ mapping[i].parent \in -1 .. Len(mapping)
      <4>1. mapping[i].function \in Functions /\ mapping[i].parent \in Int
        BY <2>3 DEF MappingOf
      <4>2. mapping[i].parent = -1 \/ mapping[i].parent + 1 \in 1 .. i - 1
        BY <2>3 DEF MappingOf, NoParent
      <4> QED
        BY <3>1, <4>1, <4>2
    <3> QED
      BY <3>1, <3>2 DEF Range
  <2>5. \A f \in f_data : f.id \in 0 .. Len(mapping) - 1
    <3>1. /\ f_data = UNION {DataOf(order, sender, i) : i \in 1 .. Len(order)}
          /\ Len(order) = Len(mapping) /\ Len(mapping) \in Nat
      BY <2>2, LenProperties DEF Numbering, Mappings
    <3>2. \A i \in 1 .. Len(order) : \A f \in DataOf(order, sender, i) : f.id = i - 1
      BY DEF DataOf, PathData
    <3>3. \A i \in 1 .. Len(order) : i - 1 \in 0 .. Len(mapping) - 1
      BY <3>1
    <3> QED
      BY <3>1, <3>2, <3>3
  <2>6. position \in Nat /\ bytesize \in Nat /\ packBufferSize \in [{0} \cup Senders -> Nat]
    BY <1>1 DEF BuffersType
  <2>7. /\ roots \cup tmp_roots \subseteq Objects /\ Range(node_of) \subseteq Objects
        /\ DOMAIN children = Objects /\ DOMAIN node_data = Objects /\ Own \subseteq Objects
        /\ \A o \in Objects : children[o] \subseteq Objects
    BY <1>1, ObjectTypes
  <2> HIDE DEF Own
  <2>8. children \in [Objects -> SUBSET Objects]
    <3>1. children = [o \in Objects |-> children[o]]
      BY <1>1, <2>7 DEF ChildrenMap
    <3> QED
      BY <2>7, <3>1
  <2>9. current \in Objects \cup {Null}
    BY <1>1, <2>7 DEF Walk
  <2> QED
    BY <2>1, <2>4, <2>5, <2>6, <2>7, <2>8, <2>9 DEF TypeOK
<1>2. Init => ChildrenMap
  <2> SUFFICES ASSUME Init PROVE ChildrenMap
    OBVIOUS
  <2>1. PICK T \in OwnTrees :
          children = [o \in {<<0, p>> : p \in T} |-> {<<0, p>> : p \in Under(T, o[2])}]
    BY DEF Init
  <2> QED
    BY <2>1 DEF ChildrenMap
<1>3. Init => Serial /\ BuffersType /\ BufferHolds
  BY SerialInit, BuffersInit
<1>4. Serial /\ BuffersType /\ BufferHolds /\ [Next]_vars => (Serial /\ BuffersType /\ BufferHolds)'
  BY SerialStep, BuffersStep
<1> QED
  BY <1>1, <1>2, <1>3, <1>4, ChildrenMapStep, SpecInvariant, PTL DEF Spec
=============================================================================
