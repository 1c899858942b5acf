--------------------------- MODULE IoEventsProofs ---------------------------
(***************************************************************************)
(* IoEvents for every number of handles, files, locations and operations:  *)
(* its types, and that its accounts of one operation agree.                *)
(***************************************************************************)
EXTENDS IoEvents, FiniteSetTheorems, TLAPS

-----------------------------------------------------------------------------
(* Sums: what one is when one of its numbers grows, or when there is one   *)
(* number more.                                                            *)
LEMMA UnitsAre ==
  ASSUME NEW S, NEW f \in [S -> Nat], NEW u
  PROVE  u \in Units(f) <=> \E x \in S : u \in {x} \X (1 .. f[x])
BY DEF Units

(* A sum over a finite set is a natural number.                            *)
LEMMA TotalType ==
  ASSUME NEW S, IsFiniteSet(S), NEW f \in [S -> Nat]
  PROVE  IsFiniteSet(Units(f)) /\ Total(f) \in Nat
<1> DEFINE Of(x) == {x} \X (1 .. f[x])
           F == [x \in S |-> Of(x)]
           U == {Of(x) : x \in S}
<1>1. F \in Surjection(S, U)
  BY DEF Surjection
<1>2. IsFiniteSet(U)
  <2> HIDE DEF F, U
  <2> QED
    BY <1>1, FS_Surjection
<1>3. \A T \in U : IsFiniteSet(T)
  <2> SUFFICES ASSUME NEW x \in S PROVE IsFiniteSet(Of(x))
    OBVIOUS
  <2> DEFINE k == f[x]
  <2>1. 1 \in Int /\ k \in Int
    OBVIOUS
  <2> HIDE DEF k
  <2>2. IsFiniteSet({x})
    BY FS_Singleton
  <2>3. IsFiniteSet(1 .. k)
    BY <2>1, FS_Interval
  <2>4. IsFiniteSet({x} \X (1 .. k))
    BY <2>2, <2>3, FS_Product
  <2> QED
    BY <2>4 DEF k
<1>4. Units(f) = UNION U
  BY DEF Units
<1> HIDE DEF U
<1>5. IsFiniteSet(Units(f))
  BY <1>2, <1>3, <1>4, FS_UNION
<1> QED
  BY <1>5, FS_CardinalityType DEF Total

(* If all is zero, so is the sum.                                          *)
LEMMA TotalZero ==
  ASSUME NEW S, NEW f \in [S -> Nat], \A x \in S : f[x] = 0
  PROVE  Total(f) = 0
<1>1. Units(f) = {}
  BY UnitsAre
<1> QED
  BY <1>1, FS_EmptySet DEF Total

(* d units more of x, which may be new.                                    *)
More(x, k, d) == {x} \X (k + 1 .. k + d)

LEMMA UnitsMore ==
  ASSUME NEW S, IsFiniteSet(S), NEW f \in [S -> Nat],
         NEW g, NEW x, NEW k \in Nat, NEW d \in Nat,
         Units(g) = Units(f) \cup More(x, k, d),
         Units(f) \cap More(x, k, d) = {}
  PROVE  Total(g) = Total(f) + d
<1> DEFINE I == k + 1 .. k + d
           M == {x} \X I
<1>1. IsFiniteSet(I) /\ Cardinality(I) = d
  <2>1. k + 1 \in Int /\ k + d \in Int /\ (k + 1 > k + d <=> d = 0)
        /\ (k + d) - (k + 1) + 1 = d
    OBVIOUS
  <2> QED
    BY <2>1, FS_Interval
<1>2. IsFiniteSet({x}) /\ Cardinality({x}) = 1
  BY FS_Singleton
<1> HIDE DEF I
<1>3. IsFiniteSet(M) /\ Cardinality(M) = 1 * d
  BY <1>1, <1>2, FS_Product
<1>4. IsFiniteSet(Units(f)) /\ Cardinality(Units(f)) \in Nat
  BY TotalType DEF Total
<1>5. Units(g) = Units(f) \cup M /\ Units(f) \cap M = {}
  BY DEF I, More
<1> HIDE DEF M
<1>6. Cardinality(Units(g)) = Cardinality(Units(f)) + Cardinality(M)
                              - Cardinality(Units(f) \cap M)
  BY <1>3, <1>4, <1>5, FS_Union
<1>7. Cardinality(Units(f) \cap M) = 0
  BY <1>5, FS_EmptySet
<1> QED
  BY <1>3, <1>4, <1>6, <1>7 DEF Total

(* One of the numbers grows.                                               *)
LEMMA TotalGrows ==
  ASSUME NEW S, IsFiniteSet(S), NEW f \in [S -> Nat], NEW g \in [S -> Nat],
         NEW x \in S, NEW d \in Nat, g[x] = f[x] + d,
         \A y \in S : y # x => g[y] = f[y]
  PROVE  Total(g) = Total(f) + d
<1> DEFINE k == f[x]
           M == More(x, k, d)
<1>1. k \in Nat /\ g[x] = k + d
  OBVIOUS
<1>2. 1 .. k + d = (1 .. k) \cup (k + 1 .. k + d) /\ (1 .. k) \cap (k + 1 .. k + d) = {}
  <2> HIDE DEF k
  <2> QED
    BY <1>1
<1>3. Units(g) = Units(f) \cup M
  <2> SUFFICES ASSUME NEW u PROVE u \in Units(g) <=> u \in Units(f) \/ u \in M
    OBVIOUS
  <2>1. ASSUME NEW y \in S, y # x PROVE {y} \X (1 .. g[y]) = {y} \X (1 .. f[y])
    BY <2>1
  <2>2. {x} \X (1 .. g[x]) = ({x} \X (1 .. f[x])) \cup M
    BY <1>1, <1>2 DEF More
  <2> HIDE DEF M
  <2>3. u \in Units(g) <=> \E y \in S : u \in {y} \X (1 .. g[y])
    BY UnitsAre
  <2>4. u \in Units(f) <=> \E y \in S : u \in {y} \X (1 .. f[y])
    BY UnitsAre
  <2> QED
    BY <2>1, <2>2, <2>3, <2>4, Zenon
<1>4. Units(f) \cap M = {}
  <2> SUFFICES ASSUME NEW u \in Units(f), u \in M PROVE FALSE
    OBVIOUS
  <2>1. PICK y \in S : u \in {y} \X (1 .. f[y])
    BY UnitsAre
  <2>2. y = x
    BY <2>1 DEF More
  <2>3. u[2] \in 1 .. k /\ u[2] \in k + 1 .. k + d
    BY <2>1, <2>2 DEF More
  <2> QED
    BY <1>2, <2>3
<1> HIDE DEF k
<1> QED
  BY <1>1, <1>3, <1>4, UnitsMore

(* There is one number more.                                               *)
LEMMA TotalExtends ==
  ASSUME NEW S, IsFiniteSet(S), NEW f \in [S -> Nat], NEW x, x \notin S,
         NEW T, T = S \cup {x}, NEW g \in [T -> Nat], \A y \in S : g[y] = f[y]
  PROVE  Total(g) = Total(f) + g[x]
<1> DEFINE h == [y \in T |-> IF y = x THEN 0 ELSE f[y]]
<1>1. IsFiniteSet(T) /\ x \in T
  BY FS_AddElement
<1>2. h \in [T -> Nat] /\ h[x] = 0 /\ \A y \in S : h[y] = f[y]
  OBVIOUS
<1>3. Units(h) = Units(f)
  <2> HIDE DEF h
  <2> SUFFICES ASSUME NEW u PROVE u \in Units(h) <=> u \in Units(f)
    OBVIOUS
  <2>1. u \in Units(h) <=> \E y \in T : u \in {y} \X (1 .. h[y])
    BY <1>2, UnitsAre
  <2>2. u \in Units(f) <=> \E y \in S : u \in {y} \X (1 .. f[y])
    BY UnitsAre
  <2>3. u \notin {x} \X (1 .. h[x])
    BY <1>2
  <2> QED
    BY <1>2, <2>1, <2>2, <2>3
<1>4. g[x] \in Nat /\ g[x] = h[x] + g[x]
  BY <1>2
<1> HIDE DEF h
<1>5. Total(g) = Total(h) + g[x]
  BY <1>1, <1>2, <1>4, TotalGrows
<1> QED
  BY <1>3, <1>5 DEF Total

USE DEF Locs, Undef, NoAttribute, NoFile

-----------------------------------------------------------------------------
(* What one operation adds: to an entry of a table, and to the history of  *)
(* its handle.                                                             *)
LEMMA BytesType ==
  ASSUME NEW result \in Nat \cup {Undef}
  PROVE  Bytes(result) \in Nat /\ Bytes(result) \in Nat \cup {Undef}
BY DEF Bytes

LEMMA Counted ==
  ASSUME NEW io \in IoData, NEW result \in Nat \cup {Undef}, NEW d \in Nat,
         NEW mode \in Modes, NEW region \in Regions
  PROVE  LET to == Count(io, result, d, mode, region)
         IN  /\ to \in IoData
             /\ to.num_operations = io.num_operations + 1
             /\ to.num_bytes = io.num_bytes + Bytes(result)
             /\ Time(to) = Time(io) + d
             /\ to.nontransfer_time = io.nontransfer_time + (IF result = Undef THEN d ELSE 0)
<1>1. /\ io.num_operations \in Nat /\ io.num_bytes \in Nat
      /\ io.transfer_time \in Nat /\ io.nontransfer_time \in Nat
  BY DEF IoData
<1>2. Bytes(result) \in Nat
  BY BytesType
<1>3. Count(io, result, d, mode, region) \in IoData
  BY <1>1, <1>2 DEF Count, IoData
<1>4. Time(Count(io, result, d, mode, region)) = Time(io) + d
  BY <1>1 DEF Count, Time
<1> QED
  BY <1>3, <1>4 DEF Count

LEMMA EntryTypes ==
  ASSUME NEW io \in IoData
  PROVE  /\ io.num_operations \in Nat /\ io.num_bytes \in Nat /\ Time(io) \in Nat
         /\ io.transfer_time \in Nat /\ io.nontransfer_time \in Nat
<1>1. /\ io.num_operations \in Nat /\ io.num_bytes \in Nat
      /\ io.transfer_time \in Nat /\ io.nontransfer_time \in Nat
  BY DEF IoData
<1> QED
  BY <1>1 DEF Time

(* A table with one operation more adds up to one operation more.          *)
LEMMA TableGrows ==
  ASSUME NEW S, IsFiniteSet(S), NEW t \in [S -> IoData], NEW k \in S,
         NEW b \in Nat, NEW d \in Nat, NEW u \in [S -> IoData],
         u[k].num_operations = t[k].num_operations + 1,
         u[k].num_bytes = t[k].num_bytes + b, Time(u[k]) = Time(t[k]) + d,
         \A j \in S : j # k => u[j] = t[j]
  PROVE  /\ Operations(u) = Operations(t) + 1
         /\ BytesMoved(u) = BytesMoved(t) + b
         /\ TimeTaken(u) = TimeTaken(t) + d
<1>1. DOMAIN u = S /\ DOMAIN t = S
  OBVIOUS
<1>2. Operations(u) = Operations(t) + 1
  <2> DEFINE f == [j \in S |-> t[j].num_operations]
             g == [j \in S |-> u[j].num_operations]
  <2>1. f \in [S -> Nat] /\ g \in [S -> Nat]
    BY EntryTypes
  <2>2. g[k] = f[k] + 1 /\ \A j \in S : j # k => g[j] = f[j]
    OBVIOUS
  <2> HIDE DEF f, g
  <2>3. Total(g) = Total(f) + 1
    BY <2>1, <2>2, TotalGrows
  <2> QED
    BY <1>1, <2>3 DEF f, g, Operations
<1>3. BytesMoved(u) = BytesMoved(t) + b
  <2> DEFINE f == [j \in S |-> t[j].num_bytes]
             g == [j \in S |-> u[j].num_bytes]
  <2>1. f \in [S -> Nat] /\ g \in [S -> Nat]
    BY EntryTypes
  <2>2. g[k] = f[k] + b /\ \A j \in S : j # k => g[j] = f[j]
    OBVIOUS
  <2> HIDE DEF f, g
  <2>3. Total(g) = Total(f) + b
    BY <2>1, <2>2, TotalGrows
  <2> QED
    BY <1>1, <2>3 DEF f, g, BytesMoved
<1>4. TimeTaken(u) = TimeTaken(t) + d
  <2> DEFINE f == [j \in S |-> Time(t[j])]
             g == [j \in S |-> Time(u[j])]
  <2>1. f \in [S -> Nat] /\ g \in [S -> Nat]
    BY EntryTypes
  <2>2. g[k] = f[k] + d /\ \A j \in S : j # k => g[j] = f[j]
    OBVIOUS
  <2> HIDE DEF f, g
  <2>3. Total(g) = Total(f) + d
    BY <2>1, <2>2, TotalGrows
  <2> QED
    BY <1>1, <2>3 DEF f, g, TimeTaken
<1> QED
  BY <1>1, <1>2, <1>3, <1>4

LEMMA DoneTypes ==
  ASSUME NEW done \in Done
  PROVE  /\ done.operations \in Nat /\ done.read \in Nat /\ done.written \in Nat
         /\ done.other \in Nat /\ done.meta_time \in Nat /\ done.time \in Nat
         /\ done.locs \subseteq Locs /\ AllBytes(done) \in Nat
<1>1. /\ done.operations \in Nat /\ done.read \in Nat /\ done.written \in Nat
      /\ done.other \in Nat /\ done.meta_time \in Nat /\ done.time \in Nat
      /\ done.locs \subseteq Locs
  BY DEF Done
<1> QED
  BY <1>1 DEF AllBytes

(* The same for what was really done.                                      *)
LEMMA PerformedOne ==
  ASSUME NEW done \in Done, NEW op \in Operation, loc \in Locs,
         NEW result \in Nat \cup {Undef}
  PROVE  LET to == Performed(done, op, result)
         IN  /\ to \in Done
             /\ to.operations = done.operations + 1
             /\ AllBytes(to) = AllBytes(done) + Bytes(result)
             /\ to.time = done.time + op.elapsed
             /\ to.meta_time = done.meta_time + (IF result = Undef THEN op.elapsed ELSE 0)
<1>1. op.elapsed \in Nat /\ Bytes(result) \in Nat
  BY BytesType DEF Operation
<1>2. /\ done.operations \in Nat /\ done.read \in Nat /\ done.written \in Nat
      /\ done.other \in Nat /\ done.meta_time \in Nat /\ done.time \in Nat
      /\ done.locs \subseteq Locs
  BY DoneTypes
<1>3. Performed(done, op, result) \in Done
  BY <1>1, <1>2 DEF Performed, Done
<1>4. AllBytes(Performed(done, op, result)) = AllBytes(done) + Bytes(result)
  <2>1. CASE op.mode = "R"
    BY <1>1, <1>2, <2>1 DEF AllBytes, Performed
  <2>2. CASE op.mode = "W"
    BY <1>1, <1>2, <2>2 DEF AllBytes, Performed
  <2>3. CASE op.mode \notin {"R", "W"}
    BY <1>1, <1>2, <2>3 DEF AllBytes, Performed
  <2> QED
    BY <2>1, <2>2, <2>3
<1> QED
  BY <1>3, <1>4 DEF Performed

LEMMA TruthGrows ==
  ASSUME NEW S, IsFiniteSet(S), NEW t \in [S -> Done], NEW h \in S,
         NEW b \in Nat, NEW d \in Nat, NEW u \in [S -> Done],
         u[h].operations = t[h].operations + 1,
         AllBytes(u[h]) = AllBytes(t[h]) + b, u[h].time = t[h].time + d,
         \A j \in S : j # h => u[j] = t[j]
  PROVE  /\ DoneOperations(u) = DoneOperations(t) + 1
         /\ DoneBytes(u) = DoneBytes(t) + b
         /\ DoneTime(u) = DoneTime(t) + d
<1>1. DOMAIN u = S /\ DOMAIN t = S
  OBVIOUS
<1>2. DoneOperations(u) = DoneOperations(t) + 1
  <2> DEFINE f == [j \in S |-> t[j].operations]
             g == [j \in S |-> u[j].operations]
  <2>1. f \in [S -> Nat] /\ g \in [S -> Nat]
    BY DoneTypes
  <2>2. g[h] = f[h] + 1 /\ \A j \in S : j # h => g[j] = f[j]
    OBVIOUS
  <2> HIDE DEF f, g
  <2>3. Total(g) = Total(f) + 1
    BY <2>1, <2>2, TotalGrows
  <2> QED
    BY <1>1, <2>3 DEF f, g, DoneOperations
<1>3. DoneBytes(u) = DoneBytes(t) + b
  <2> DEFINE f == [j \in S |-> AllBytes(t[j])]
             g == [j \in S |-> AllBytes(u[j])]
  <2>1. f \in [S -> Nat] /\ g \in [S -> Nat]
    BY DoneTypes
  <2>2. g[h] = f[h] + b /\ \A j \in S : j # h => g[j] = f[j]
    OBVIOUS
  <2> HIDE DEF f, g
  <2>3. Total(g) = Total(f) + b
    BY <2>1, <2>2, TotalGrows
  <2> QED
    BY <1>1, <2>3 DEF f, g, DoneBytes
<1>4. DoneTime(u) = DoneTime(t) + d
  <2> DEFINE f == [j \in S |-> t[j].time]
             g == [j \in S |-> u[j].time]
  <2>1. f \in [S -> Nat] /\ g \in [S -> Nat]
    BY DoneTypes
  <2>2. g[h] = f[h] + d /\ \A j \in S : j # h => g[j] = f[j]
    OBVIOUS
  <2> HIDE DEF f, g
  <2>3. Total(g) = Total(f) + d
    BY <2>1, <2>2, TotalGrows
  <2> QED
    BY <1>1, <2>3 DEF f, g, DoneTime
<1> QED
  BY <1>1, <1>2, <1>3, <1>4

(* A list with one number more.                                            *)
LEMMA LongerTotal ==
  ASSUME NEW n \in Nat, NEW m, m = n + 1
  PROVE  \A f \in [1 .. n -> Nat], g \in [1 .. m -> Nat] :
           (\A i \in 1 .. n : g[i] = f[i]) => Total(g) = Total(f) + g[m]
<1> DEFINE I == 1 .. n
           J == 1 .. m
<1>1. IsFiniteSet(I) /\ m \notin I
  BY FS_Interval
<1>2. J = I \cup {m}
  OBVIOUS
<1> HIDE DEF I, J
<1>3. ASSUME NEW f \in [I -> Nat], NEW g \in [J -> Nat], \A i \in I : g[i] = f[i]
      PROVE  Total(g) = Total(f) + g[m]
  BY <1>1, <1>2, <1>3, TotalExtends
<1> QED
  BY <1>3 DEF I, J

(* A handle with one access more.                                          *)
LEMMA AppendTotals ==
  ASSUME NEW a \in Seq(Access), NEW x \in Access, NEW b, b = Append(a, x)
  PROVE  /\ b \in Seq(Access) /\ Len(b) = Len(a) + 1
         /\ Sizes(b) = Sizes(a) + x.size
         /\ Durations(b) = Durations(a) + x.duration
<1> DEFINE n == Len(a)
           m == n + 1
<1>1. /\ n \in Nat /\ DOMAIN a = 1 .. n /\ DOMAIN b = 1 .. m /\ Len(b) = m
      /\ b[m] = x /\ m \in 1 .. m /\ b \in Seq(Access)
      /\ \A i \in 1 .. n : b[i] = a[i] /\ a[i] \in Access /\ i \in 1 .. m
  OBVIOUS
<1>2. ASSUME NEW y \in Access PROVE y.size \in Nat /\ y.duration \in Nat
  BY DEF Access
<1>3. \A i \in 1 .. m : b[i] \in Access
  BY <1>1
<1>4. ASSUME NEW f \in [1 .. n -> Nat], NEW g \in [1 .. m -> Nat],
             \A i \in 1 .. n : g[i] = f[i]
      PROVE  Total(g) = Total(f) + g[m]
  BY <1>1, <1>4, LongerTotal
<1> HIDE DEF n, m
<1>5. Sizes(b) = Sizes(a) + x.size
  <2> DEFINE f == [i \in 1 .. n |-> a[i].size]
             g == [i \in 1 .. m |-> b[i].size]
  <2>1. f \in [1 .. n -> Nat] /\ g \in [1 .. m -> Nat]
    BY <1>1, <1>2, <1>3
  <2>2. g[m] = x.size /\ \A i \in 1 .. n : g[i] = f[i]
    BY <1>1
  <2> HIDE DEF f, g
  <2>3. Total(g) = Total(f) + x.size
    BY <1>4, <2>1, <2>2
  <2> QED
    BY <1>1, <2>3 DEF f, g, Sizes
<1>6. Durations(b) = Durations(a) + x.duration
  <2> DEFINE f == [i \in 1 .. n |-> a[i].duration]
             g == [i \in 1 .. m |-> b[i].duration]
  <2>1. f \in [1 .. n -> Nat] /\ g \in [1 .. m -> Nat]
    BY <1>1, <1>2, <1>3
  <2>2. g[m] = x.duration /\ \A i \in 1 .. n : g[i] = f[i]
    BY <1>1
  <2> HIDE DEF f, g
  <2>3. Total(g) = Total(f) + x.duration
    BY <1>4, <2>1, <2>2
  <2> QED
    BY <1>1, <2>3 DEF f, g, Durations
<1> QED
  BY <1>1, <1>5, <1>6 DEF m, n


-----------------------------------------------------------------------------
(* What a step relies on.  An operation that is open was begun at the time *)
(* remembered under its matching id: not only a time that is kept for an   *)
(* operation an earlier location left open.  A handle that is used has a   *)
(* File, which covers the accesses made with it.                           *)
OpenTimes ==
  \A id \in Ids :
    pending[id] # NoOperation =>
      /\ open_io_events[id] \in Nat
      /\ open_io_events[id] + pending[id].elapsed = clock

Definitions ==
  \A h \in Handles :
    /\ h <= defined => file_handle[h] \in Handles
    /\ io_accesses[h] # <<>> => defined = Cardinality(Handles)

Covered ==
  \A h \in Handles : \A i \in DOMAIN io_accesses[h] :
    io_accesses[h][i].fpos + io_accesses[h][i].size <= fsize[file_handle[h]]

Accounts == TablesAgree /\ AccessesCounted /\ ParadigmTimes

Inv == TypeOK /\ OpenTimes /\ Definitions /\ Covered /\ Accounts

LEMMA HandleNumbers ==
  /\ Cardinality(Handles) \in Nat
  /\ \A h : h \in Handles <=> h \in Nat /\ h > 0 /\ h <= Cardinality(Handles)
<1>1. Cardinality(Handles) \in Nat
  BY IoAssumption, FS_CardinalityType
<1>2. \A n \in Nat : \A h : h \in 1 .. n <=> h \in Nat /\ h > 0 /\ h <= n
  BY SMT
<1>3. Handles = 1 .. Cardinality(Handles)
  BY IoAssumption
<1> QED
  BY <1>1, <1>2, <1>3, Zenon

LEMMA SetsFinite ==
  /\ IsFiniteSet(Handles) /\ IsFiniteSet(Locs) /\ IsFiniteSet(Paradigms)
  /\ \A h \in Handles : ParadigmOf[h] \in Paradigms
  /\ NoOperation \notin Operation
<1>1. IsFiniteSet(Handles)
  BY IoAssumption
<1>2. IsFiniteSet(Locs)
  BY FS_Interval, IoAssumption
<1>3. IsFiniteSet(Paradigms)
  <2> DEFINE f == [h \in Handles |-> ParadigmOf[h]]
  <2>1. f \in Surjection(Handles, Paradigms)
    BY DEF Surjection, Paradigms
  <2> HIDE DEF f
  <2> QED
    BY <1>1, <2>1, FS_Surjection
<1>4. NoOperation \notin Operation
  <2>1. 0 \notin Handles
    BY HandleNumbers
  <2> QED
    BY <2>1 DEF Operation, NoOperation
<1> QED
  BY <1>1, <1>2, <1>3, <1>4 DEF Paradigms

LEMMA Tick ==
  ASSUME TypeOK
  PROVE  /\ Ticked \in [Ids -> Operation \cup {NoOperation}]
         /\ \A id \in Ids :
              /\ pending[id] = NoOperation => Ticked[id] = NoOperation
              /\ pending[id] # NoOperation =>
                   /\ pending[id] \in Operation /\ Ticked[id] \in Operation
                   /\ Ticked[id].handle = pending[id].handle
                   /\ Ticked[id].mode = pending[id].mode
                   /\ Ticked[id].elapsed = pending[id].elapsed + 1
<1>1. pending \in [Ids -> Operation \cup {NoOperation}]
  BY DEF TypeOK
<1>2. ASSUME NEW op \in Operation
      PROVE  LET t == [op EXCEPT !.elapsed = @ + 1]
             IN  /\ t \in Operation /\ t.handle = op.handle /\ t.mode = op.mode
                 /\ t.elapsed = op.elapsed + 1
  <2>1. op.elapsed + 1 \in Nat
    BY DEF Operation
  <2> QED
    BY <2>1 DEF Operation
<1>3. \A id \in Ids :
        /\ pending[id] = NoOperation => Ticked[id] = NoOperation
        /\ pending[id] # NoOperation => Ticked[id] = [pending[id] EXCEPT !.elapsed = @ + 1]
  BY DEF Ticked
<1>4. \A id \in Ids : Ticked[id] \in Operation \cup {NoOperation}
  BY <1>1, <1>2, <1>3
<1>5. Ticked \in [Ids -> Operation \cup {NoOperation}]
  BY <1>4 DEF Ticked
<1>6. ASSUME NEW id \in Ids, pending[id] # NoOperation
      PROVE  /\ pending[id] \in Operation /\ Ticked[id] \in Operation
             /\ Ticked[id].handle = pending[id].handle
             /\ Ticked[id].mode = pending[id].mode
             /\ Ticked[id].elapsed = pending[id].elapsed + 1
  <2>1. pending[id] \in Operation
    BY <1>1, <1>6
  <2>2. Ticked[id] = [pending[id] EXCEPT !.elapsed = @ + 1]
    BY <1>3, <1>6
  <2> QED
    BY <1>2, <2>1, <2>2
<1> QED
  BY <1>3, <1>5, <1>6

LEMMA Now ==
  ASSUME TypeOK, Event
  PROVE  /\ clock' = clock + 1 /\ clock' \in Nat /\ events' \in 0 .. MaxEvents
         /\ loc \in Locs /\ defined = Cardinality(Handles)
<1>1. clock \in Nat /\ events \in 0 .. MaxEvents
  BY DEF TypeOK
<1>2. /\ clock' = clock + 1 /\ events' = events + 1 /\ events < MaxEvents
      /\ loc \in Locs /\ defined = Cardinality(Handles)
  BY DEF Event
<1>3. events' \in 0 .. MaxEvents
  BY <1>1, <1>2, IoAssumption
<1> QED
  BY <1>1, <1>2, <1>3

(* An operation goes on, or it begins with its time under its id.          *)
LEMMA TimesGoOn ==
  ASSUME TypeOK, OpenTimes, clock' = clock + 1,
         \A id \in Ids : pending'[id] # NoOperation =>
           \/ pending'[id] = Ticked[id] /\ open_io_events'[id] = open_io_events[id]
           \/ pending'[id].elapsed = 0 /\ open_io_events'[id] = clock'
  PROVE  OpenTimes'
<1> SUFFICES ASSUME NEW id \in Ids, pending'[id] # NoOperation
             PROVE  /\ open_io_events'[id] \in Nat
                    /\ open_io_events'[id] + pending'[id].elapsed = clock'
  BY DEF OpenTimes
<1>1. clock \in Nat /\ clock' \in Nat
  BY DEF TypeOK
<1>2. CASE pending'[id] = Ticked[id] /\ open_io_events'[id] = open_io_events[id]
  <2>1. pending[id] # NoOperation
    BY <1>2, Tick
  <2>2. /\ pending[id].elapsed \in Nat /\ Ticked[id].elapsed = pending[id].elapsed + 1
    BY <2>1, Tick DEF Operation
  <2>3. open_io_events[id] \in Nat /\ open_io_events[id] + pending[id].elapsed = clock
    BY <2>1 DEF OpenTimes
  <2> QED
    BY <1>2, <2>2, <2>3
<1>3. CASE pending'[id].elapsed = 0 /\ open_io_events'[id] = clock'
  BY <1>1, <1>3
<1> QED
  BY <1>2, <1>3

LEMMA AccountsKept ==
  ASSUME Accounts, UNCHANGED <<tables, io_accesses, truth>>
  PROVE  Accounts'
<1>1. TablesAgree'
  BY DEF Accounts, TablesAgree, AddsUp, tables
<1>2. AccessesCounted'
  BY DEF Accounts, AccessesCounted, tables
<1>3. ParadigmTimes'
  BY DEF Accounts, ParadigmTimes, tables, Paradigms
<1> QED
  BY <1>1, <1>2, <1>3 DEF Accounts

LEMMA FilesKept ==
  ASSUME Definitions, Covered, UNCHANGED <<definitions, fsize, io_accesses>>
  PROVE  Definitions' /\ Covered'
BY DEF Definitions, Covered, definitions

-----------------------------------------------------------------------------
LEMMA InitInv == Init => Inv
<1> SUFFICES ASSUME Init PROVE Inv
  OBVIOUS
<1>0. ASSUME NEW h \in Handles
      PROVE  /\ truth[h] = [operations |-> 0, read |-> 0, written |-> 0, other |-> 0,
                            meta_time |-> 0, time |-> 0, locs |-> {}]
             /\ io_accesses[h] = <<>> /\ ~(h <= defined)
  <2>1. h \in Nat /\ h > 0
    BY HandleNumbers
  <2>2. defined = 0 /\ io_accesses[h] = <<>>
    BY DEF Init
  <2>3. truth[h] = [operations |-> 0, read |-> 0, written |-> 0, other |-> 0,
                    meta_time |-> 0, time |-> 0, locs |-> {}]
    BY DEF Init
  <2> QED
    BY <2>1, <2>2, <2>3
<1>1. TypeOK
  <2>1. /\ defined \in 0 .. Cardinality(Handles) /\ loc \in 1 .. NumLocs + 1
        /\ clock \in Nat /\ events \in 0 .. MaxEvents /\ alive \in BOOLEAN
        /\ used \subseteq Ids /\ regular \subseteq Handles
    <3>1. Cardinality(Handles) \in Nat
      BY FS_CardinalityType, IoAssumption
    <3>2. 0 \in 0 .. Cardinality(Handles) /\ 0 \in 0 .. MaxEvents /\ 1 \in 1 .. NumLocs + 1
      BY <3>1, IoAssumption
    <3> QED
      BY <3>2 DEF Init
  <2>2. /\ file_handle \in [Handles -> Handles \cup {NoFile}]
        /\ filehandles \in [Names -> [file : Handles \cup {NoFile}, io_handles : SUBSET Handles]]
        /\ fsize \in [Handles -> Nat] /\ location \in [Handles -> Locs \cup {0}]
        /\ used_io_mode \in [Handles -> [Ids -> Modes]]
        /\ open_io_events \in [Ids -> Nat \cup {Undef}]
    BY DEF Init, Modes
  <2>3. fpos \in [Handles -> Nat]
    BY IoAssumption DEF Init
  <2>4. io_accesses \in [Handles -> Seq(Access)]
    <3>1. ASSUME NEW h \in Handles PROVE io_accesses[h] \in Seq(Access)
      <4>1. <<>> \in Seq(Access)
        OBVIOUS
      <4>2. io_accesses[h] = <<>>
        BY <1>0
      <4> QED
        BY <4>1, <4>2, Zenon
    <3>2. io_accesses = [h \in Handles |-> io_accesses[h]]
      BY DEF Init
    <3> QED
      BY <3>1, <3>2
  <2>5. Nothing \in IoData
    BY DEF Nothing, IoData, Modes
  <2>6. /\ per_paradigm \in [Paradigms -> IoData] /\ per_handle \in [Handles -> IoData]
        /\ per_location \in [Locs -> IoData]
    BY <2>5 DEF Init
  <2>7. pending \in [Ids -> Operation \cup {NoOperation}]
    BY DEF Init
  <2>8. truth \in [Handles -> Done]
    <3>1. \A h \in Handles : truth[h] \in Done
      BY <1>0 DEF Done
    <3>2. truth = [h \in Handles |-> truth[h]]
      BY DEF Init
    <3> QED
      BY <3>1, <3>2
  <2> QED
    BY <2>1, <2>2, <2>3, <2>4, <2>6, <2>7, <2>8 DEF TypeOK
<1>2. OpenTimes /\ Definitions /\ Covered
  <2>1. \A id \in Ids : pending[id] = NoOperation
    BY DEF Init
  <2>2. \A h \in Handles : DOMAIN io_accesses[h] = {}
    BY <1>0
  <2> QED
    BY <1>0, <2>1, <2>2 DEF OpenTimes, Definitions, Covered
<1>3. TablesAgree
  <2>1. ASSUME NEW S, NEW f \in [S -> IoData], \A k \in S : f[k] = Nothing
        PROVE  AddsUp(f)
    <3>1. ASSUME NEW R, NEW z \in [R -> Nat], \A k \in R : z[k] = 0 PROVE Total(z) = 0
      BY <3>1, TotalZero
    <3>2. DOMAIN f = S
      OBVIOUS
    <3>3. /\ Total([k \in S |-> f[k].num_operations]) = 0
          /\ Total([k \in S |-> f[k].num_bytes]) = 0
          /\ Total([k \in S |-> Time(f[k])]) = 0
      <4>1. \A k \in S : f[k].num_operations = 0 /\ f[k].num_bytes = 0 /\ Time(f[k]) = 0
        BY <2>1 DEF Nothing, Time
      <4>2. /\ [k \in S |-> f[k].num_operations] \in [S -> Nat]
            /\ [k \in S |-> f[k].num_bytes] \in [S -> Nat]
            /\ [k \in S |-> Time(f[k])] \in [S -> Nat]
        BY <4>1
      <4> QED
        BY <3>1, <4>1, <4>2
    <3>4. /\ Total([h \in Handles |-> truth[h].operations]) = 0
          /\ Total([h \in Handles |-> AllBytes(truth[h])]) = 0
          /\ Total([h \in Handles |-> truth[h].time]) = 0
      <4>1. \A h \in Handles : /\ truth[h].operations = 0 /\ AllBytes(truth[h]) = 0
                               /\ truth[h].time = 0
        BY <1>0 DEF AllBytes
      <4>2. /\ [h \in Handles |-> truth[h].operations] \in [Handles -> Nat]
            /\ [h \in Handles |-> AllBytes(truth[h])] \in [Handles -> Nat]
            /\ [h \in Handles |-> truth[h].time] \in [Handles -> Nat]
        BY <4>1
      <4> QED
        BY <3>1, <4>1, <4>2
    <3>5. DOMAIN truth = Handles
      BY DEF Init
    <3>6. Operations(f) = 0 /\ BytesMoved(f) = 0 /\ TimeTaken(f) = 0
      BY <3>2, <3>3 DEF Operations, BytesMoved, TimeTaken
    <3>7. DoneOperations(truth) = 0 /\ DoneBytes(truth) = 0 /\ DoneTime(truth) = 0
      BY <3>4, <3>5 DEF DoneOperations, DoneBytes, DoneTime
    <3> QED
      BY <3>6, <3>7 DEF AddsUp
  <2>2. /\ per_paradigm \in [Paradigms -> IoData] /\ per_handle \in [Handles -> IoData]
        /\ per_location \in [Locs -> IoData]
    BY <1>1 DEF TypeOK
  <2>3. /\ \A k \in Paradigms : per_paradigm[k] = Nothing
        /\ \A k \in Handles : per_handle[k] = Nothing
        /\ \A k \in Locs : per_location[k] = Nothing
    BY DEF Init
  <2> QED
    BY <2>1, <2>2, <2>3 DEF TablesAgree
<1>4. AccessesCounted
  <2> SUFFICES ASSUME NEW h \in Handles
               PROVE  /\ Len(io_accesses[h]) = per_handle[h].num_operations
                      /\ Sizes(io_accesses[h]) = per_handle[h].num_bytes
                      /\ Durations(io_accesses[h]) = Time(per_handle[h])
    BY DEF AccessesCounted
  <2>1. io_accesses[h] = <<>> /\ per_handle[h] = Nothing /\ DOMAIN io_accesses[h] = {}
    <3>1. per_handle[h] = Nothing
      BY DEF Init
    <3> QED
      BY <1>0, <3>1
  <2>2. ASSUME NEW z \in [{} -> Nat] PROVE Total(z) = 0
    BY TotalZero
  <2>3. Sizes(io_accesses[h]) = 0 /\ Durations(io_accesses[h]) = 0
    BY <2>1, <2>2 DEF Sizes, Durations
  <2> QED
    BY <2>1, <2>3 DEF Nothing, Time
<1>5. ParadigmTimes
  <2> SUFFICES ASSUME NEW p \in Paradigms
               PROVE  per_paradigm[p].nontransfer_time
                        = Total([h \in {k \in Handles : ParadigmOf[k] = p} |-> truth[h].meta_time])
    BY DEF ParadigmTimes
  <2> DEFINE S == {k \in Handles : ParadigmOf[k] = p}
             z == [h \in S |-> truth[h].meta_time]
  <2>1. \A h \in S : truth[h].meta_time = 0
    BY <1>0
  <2>2. z \in [S -> Nat] /\ \A h \in S : z[h] = 0
    BY <2>1
  <2>3. Total(z) = 0
    <3> HIDE DEF S, z
    <3> QED
      BY <2>2, TotalZero
  <2>4. per_paradigm[p].nontransfer_time = 0
    BY DEF Init, Nothing
  <2> QED
    BY <2>3, <2>4
<1> QED
  BY <1>1, <1>2, <1>3, <1>4, <1>5 DEF Inv, Accounts

-----------------------------------------------------------------------------
(* A handle is defined before anything is done with it.                    *)
LEMMA DefStep ==
  ASSUME Inv, NEW has_file \in BOOLEAN, DefIoHandle(has_file)
  PROVE  Inv'
<1> DEFINE h == defined + 1
           n == FileOf[h]
<1>1. /\ defined < Cardinality(Handles) /\ defined \in Nat /\ defined' = h
      /\ filehandles' = [filehandles EXCEPT ![n] = Registered(h)]
      /\ file_handle' = [file_handle EXCEPT ![h] = IF has_file THEN h
                                                   ELSE Registered(h).file]
      /\ regular' = IF has_file THEN regular \cup {h} ELSE regular
      /\ UNCHANGED <<handles, open_io_events, tables, loc, clock, events, alive, history>>
  BY HandleNumbers DEF DefIoHandle, Inv, TypeOK
<1>2. h \in Handles /\ n \in Names /\ defined' \in 0 .. Cardinality(Handles)
  BY <1>1, HandleNumbers DEF Names
<1>3. /\ Registered(h) \in [file : Handles \cup {NoFile}, io_handles : SUBSET Handles]
      /\ Registered(h).file \in Handles
  <2>1. /\ filehandles[n].file \in Handles \cup {NoFile}
        /\ filehandles[n].io_handles \subseteq Handles
    BY <1>2 DEF Inv, TypeOK
  <2> HIDE DEF h
  <2> QED
    BY <1>2, <2>1 DEF Registered
<1>4. /\ file_handle' \in [Handles -> Handles \cup {NoFile}]
      /\ filehandles' \in [Names -> [file : Handles \cup {NoFile}, io_handles : SUBSET Handles]]
      /\ file_handle'[h] \in Handles
      /\ \A g \in Handles : g # h => file_handle'[g] = file_handle[g]
  <2>1. /\ file_handle \in [Handles -> Handles \cup {NoFile}]
        /\ filehandles \in [Names -> [file : Handles \cup {NoFile}, io_handles : SUBSET Handles]]
    BY DEF Inv, TypeOK
  <2> HIDE DEF h, n
  <2> QED
    BY <1>1, <1>2, <1>3, <2>1
<1>5. TypeOK'
  <2>1. regular' \subseteq Handles
    BY <1>1, <1>2 DEF Inv, TypeOK
  <2> QED
    BY <1>1, <1>2, <1>4, <2>1 DEF Inv, TypeOK, handles, tables, history
<1>6. OpenTimes'
  BY <1>1 DEF Inv, OpenTimes, history
<1>7. \A g \in Handles : io_accesses'[g] = <<>>
  BY <1>1 DEF Inv, Definitions, handles
<1>8. Definitions'
  <2> SUFFICES ASSUME NEW g \in Handles, g <= defined' PROVE file_handle'[g] \in Handles
    BY <1>7 DEF Definitions
  <2>1. g = h \/ g <= defined
    BY <1>1, HandleNumbers
  <2> QED
    BY <1>4, <2>1 DEF Inv, Definitions
<1>9. Covered'
  <2>1. \A g \in Handles : DOMAIN io_accesses'[g] = {}
    BY <1>7
  <2> QED
    BY <2>1 DEF Covered
<1>10. Accounts'
  BY <1>1, AccountsKept DEF Inv, handles, history
<1> QED
  BY <1>5, <1>6, <1>8, <1>9, <1>10 DEF Inv

LEMMA BeginStep ==
  ASSUME Inv, NEW h \in Handles, NEW id \in Ids, NEW mode \in {"R", "W", "-"},
         NEW offset \in Offsets \cup {NoAttribute}, Begin(h, id, mode, offset)
  PROVE  Inv'
<1> DEFINE op == [handle |-> h, mode |-> mode, elapsed |-> 0]
<1>1. TypeOK /\ OpenTimes /\ Definitions /\ Covered /\ Accounts /\ Event
  BY DEF Inv, Begin
<1>2. /\ clock' = clock + 1 /\ clock' \in Nat /\ events' \in 0 .. MaxEvents /\ loc \in Locs
  BY <1>1, Now
<1>3. /\ Ticked \in [Ids -> Operation \cup {NoOperation}] /\ op \in Operation
      /\ pending' = [Ticked EXCEPT ![id] = op]
      /\ pending' \in [Ids -> Operation \cup {NoOperation}]
  <2>1. Ticked \in [Ids -> Operation \cup {NoOperation}]
    BY <1>1, Tick
  <2>2. op \in Operation
    BY DEF Operation, Modes
  <2>3. pending' = [Ticked EXCEPT ![id] = op]
    BY DEF Begin
  <2> HIDE DEF op
  <2> QED
    BY <2>1, <2>2, <2>3
<1>4. /\ open_io_events' = [open_io_events EXCEPT ![id] = clock']
      /\ open_io_events' \in [Ids -> Nat \cup {Undef}]
  BY <1>1, <1>2 DEF Begin, Opened, TypeOK
<1>5. fpos' \in [Handles -> Nat]
  <2>1. offset # NoAttribute => offset \in Nat
    BY IoAssumption
  <2> QED
    BY <1>1, <2>1 DEF Begin, TypeOK
<1>6. used_io_mode' \in [Handles -> [Ids -> Modes]]
  <2>1. used_io_mode \in [Handles -> [Ids -> Modes]] /\ mode \in Modes
    BY <1>1 DEF TypeOK, Modes
  <2>2. [used_io_mode EXCEPT ![h][id] = mode] \in [Handles -> [Ids -> Modes]]
    <3>1. [used_io_mode[h] EXCEPT ![id] = mode] \in [Ids -> Modes]
      BY <2>1
    <3> QED
      BY <2>1, <3>1
  <2> QED
    BY <2>1, <2>2 DEF Begin
<1>7. location' \in [Handles -> Locs \cup {0}] /\ used' \subseteq Ids
  BY <1>1, <1>2 DEF Begin, TypeOK
<1>8. UNCHANGED <<definitions, fsize, io_accesses, tables, loc, alive, truth>>
  BY DEF Begin
<1>9. TypeOK'
  BY <1>1, <1>2, <1>3, <1>4, <1>5, <1>6, <1>7, <1>8 DEF TypeOK, definitions, tables
<1>10. OpenTimes'
  <2>1. \A i \in Ids : i # id => pending'[i] = Ticked[i]
                                 /\ open_io_events'[i] = open_io_events[i]
    BY <1>1, <1>3, <1>4 DEF TypeOK
  <2>2. pending'[id].elapsed = 0 /\ open_io_events'[id] = clock'
    BY <1>1, <1>3, <1>4 DEF TypeOK
  <2> QED
    BY <1>1, <1>2, <2>1, <2>2, TimesGoOn
<1>11. Definitions' /\ Covered' /\ Accounts'
  BY <1>1, <1>8, FilesKept, AccountsKept
<1> QED
  BY <1>9, <1>10, <1>11 DEF Inv

(* The events that neither begin nor complete an operation.                *)
LEMMA OtherEvent ==
  ASSUME Inv, Event, pending' = Ticked,
         UNCHANGED <<definitions, fsize, io_accesses, open_io_events, tables, loc, used, truth,
                     used_io_mode>>,
         fpos' \in [Handles -> Nat], location' \in [Handles -> Locs \cup {0}],
         alive' \in BOOLEAN
  PROVE  Inv'
<1>1. TypeOK /\ OpenTimes /\ Definitions /\ Covered /\ Accounts
  BY DEF Inv
<1>2. /\ clock' = clock + 1 /\ clock' \in Nat /\ events' \in 0 .. MaxEvents
      /\ Ticked \in [Ids -> Operation \cup {NoOperation}]
  BY <1>1, Now, Tick
<1>3. TypeOK'
  BY <1>1, <1>2 DEF TypeOK, definitions, tables
<1>4. OpenTimes'
  BY <1>1, <1>2, TimesGoOn
<1>5. Definitions' /\ Covered' /\ Accounts'
  BY <1>1, FilesKept, AccountsKept
<1> QED
  BY <1>3, <1>4, <1>5 DEF Inv

LEMMA SeekStep ==
  ASSUME Inv, NEW h \in Handles, NEW whence, NEW offsetResult \in {0, 1},
         Seek(h, whence, offsetResult)
  PROVE  Inv'
<1>1. TypeOK /\ Event /\ defined = Cardinality(Handles)
  BY Now DEF Inv, Seek
<1>2. fpos[h] \in Nat /\ fsize[file_handle[h]] \in Nat /\ fpos \in [Handles -> Nat]
  <2>1. h <= defined
    BY <1>1, HandleNumbers
  <2>2. file_handle[h] \in Handles
    BY <2>1 DEF Inv, Definitions
  <2> QED
    BY <1>1, <2>2 DEF TypeOK
<1>3. whence \in {"START", "CURRENT", "END"}
  BY DEF Seek
<1> DEFINE from == CASE whence = "START"   -> 0
                     [] whence = "CURRENT" -> fpos[h]
                     [] whence = "END"     -> fsize[file_handle[h]]
<1>4. from \in Nat
  BY <1>2, <1>3
<1>5. fpos' = [fpos EXCEPT ![h] = offsetResult + from]
  BY DEF Seek
<1>6. fpos' \in [Handles -> Nat]
  <2> HIDE DEF from
  <2>1. offsetResult + from \in Nat
    BY <1>4
  <2> QED
    BY <1>2, <1>5, <2>1
<1> QED
  BY <1>1, <1>6, OtherEvent DEF Seek, TypeOK

LEMMA UnsupportedStep ==
  ASSUME Inv, NEW whence, SeekUnsupported(whence)
  PROVE  Inv'
BY OtherEvent DEF SeekUnsupported, handles, Inv, TypeOK

LEMMA CreateStep ==
  ASSUME Inv, NEW h \in Handles, CreateHandle(h)
  PROVE  Inv'
<1>1. TypeOK /\ Event /\ loc \in Locs
  BY Now DEF Inv, CreateHandle
<1>2. location' \in [Handles -> Locs \cup {0}]
  BY <1>1 DEF CreateHandle, TypeOK
<1> QED
  BY <1>1, <1>2, OtherEvent DEF CreateHandle, TypeOK

LEMMA LocationStep ==
  ASSUME Inv, NextLocation
  PROVE  Inv'
<1>1. /\ loc' \in 1 .. NumLocs + 1 /\ used' = {}
      /\ pending' = [i \in Ids |-> NoOperation]
      /\ UNCHANGED <<definitions, handles, open_io_events, tables, clock, events, alive, truth>>
  <2>1. \A l \in 1 .. NumLocs : l + 1 \in 1 .. NumLocs + 1
    BY IoAssumption
  <2> QED
    BY <2>1 DEF NextLocation
<1>2. TypeOK'
  BY <1>1 DEF Inv, TypeOK, definitions, handles, tables
<1>3. OpenTimes'
  BY <1>1 DEF OpenTimes
<1>4. Definitions' /\ Covered' /\ Accounts'
  BY <1>1, FilesKept, AccountsKept DEF Inv, handles
<1> QED
  BY <1>2, <1>3, <1>4 DEF Inv

-----------------------------------------------------------------------------
(* What the completion of an operation is made of.                         *)
LEMMA Completed ==
  ASSUME Inv, NEW id \in Ids, NEW result \in Results, NEW region \in Regions,
         Complete(id, result, region)
  PROVE  LET h == pending[id].handle
             op == Ticked[id]
         IN  /\ h \in Handles /\ file_handle[h] \in Handles /\ loc \in Locs
             /\ defined = Cardinality(Handles)
             /\ op \in Operation /\ op.elapsed = Duration(id)
             /\ Duration(id) \in Nat
             /\ result \in Nat \cup {Undef} /\ Bytes(result) \in Nat
             /\ used_io_mode[h][id] \in Modes
<1> DEFINE h == pending[id].handle
           op == Ticked[id]
<1>1. /\ TypeOK /\ OpenTimes /\ Definitions /\ Event /\ pending[id] # NoOperation
  BY DEF Inv, Complete
<1>2. /\ clock' = clock + 1 /\ loc \in Locs /\ defined = Cardinality(Handles)
  BY <1>1, Now
<1>3. /\ pending[id] \in Operation /\ op \in Operation
      /\ op.elapsed = pending[id].elapsed + 1
  BY <1>1, Tick
<1>4. h \in Handles /\ pending[id].elapsed \in Nat /\ op.elapsed \in Nat
  BY <1>3 DEF Operation
<1>5. file_handle[h] \in Handles
  <2>1. h <= defined
    BY <1>2, <1>4, HandleNumbers
  <2> QED
    BY <1>1, <1>4, <2>1 DEF Definitions
<1>6. open_io_events[id] \in Nat /\ open_io_events[id] + pending[id].elapsed = clock
  BY <1>1 DEF OpenTimes
<1>7. op.elapsed = Duration(id)
  <2> HIDE DEF op
  <2> QED
    BY <1>2, <1>3, <1>4, <1>6 DEF Duration
<1>8. result \in Nat \cup {Undef}
  BY IoAssumption
<1>9. used_io_mode[h][id] \in Modes
  BY <1>1, <1>4 DEF TypeOK
<1> QED
  BY <1>2, <1>3, <1>4, <1>5, <1>7, <1>8, <1>9, BytesType

(* The three tables count it, with the same bytes and the same time.       *)
LEMMA TablesStep ==
  ASSUME Inv, NEW id \in Ids, NEW result \in Results, NEW region \in Regions,
         Complete(id, result, region)
  PROVE  /\ per_paradigm' \in [Paradigms -> IoData]
         /\ per_handle' \in [Handles -> IoData]
         /\ per_location' \in [Locs -> IoData]
         /\ truth' \in [Handles -> Done]
         /\ TablesAgree'
<1> DEFINE h == pending[id].handle
           op == Ticked[id]
           d == Duration(id)
           mode == used_io_mode[h][id]
           b == Bytes(result)
           p == ParadigmOf[h]
<1>1. /\ h \in Handles /\ p \in Paradigms /\ loc \in Locs /\ op \in Operation
      /\ op.elapsed = d /\ d \in Nat /\ b \in Nat
      /\ result \in Nat \cup {Undef} /\ mode \in Modes
  BY Completed, SetsFinite
<1>2. /\ per_paradigm \in [Paradigms -> IoData] /\ per_handle \in [Handles -> IoData]
      /\ per_location \in [Locs -> IoData] /\ truth \in [Handles -> Done]
      /\ AddsUp(per_paradigm) /\ AddsUp(per_handle) /\ AddsUp(per_location)
  BY DEF Inv, TypeOK, Accounts, TablesAgree
<1>3. /\ per_paradigm' = [per_paradigm EXCEPT ![p] =
                            Count(per_paradigm[p], result, d, mode, region)]
      /\ per_handle' = [per_handle EXCEPT ![h] = Count(per_handle[h], b, d, mode, region)]
      /\ per_location' = [per_location EXCEPT ![loc] =
                            Count(per_location[loc], b, d, mode, region)]
      /\ truth' = [truth EXCEPT ![h] = Performed(truth[h], op, result)]
  BY DEF Complete, Tables
<1>4. Bytes(b) = b /\ b \in Nat \cup {Undef}
  BY <1>1 DEF Bytes
<1> HIDE DEF h, op, d, mode, b, p
<1>5. ASSUME NEW S, IsFiniteSet(S), NEW t \in [S -> IoData], NEW k \in S,
             NEW r \in Nat \cup {Undef}, Bytes(r) = b, NEW u \in [S -> IoData],
             u[k] = Count(t[k], r, d, mode, region), \A j \in S : j # k => u[j] = t[j]
      PROVE  /\ Operations(u) = Operations(t) + 1
             /\ BytesMoved(u) = BytesMoved(t) + b
             /\ TimeTaken(u) = TimeTaken(t) + d
  <2>1. t[k] \in IoData
    OBVIOUS
  <2>2. /\ u[k].num_operations = t[k].num_operations + 1
        /\ u[k].num_bytes = t[k].num_bytes + b /\ Time(u[k]) = Time(t[k]) + d
    BY <1>1, <1>5, <2>1, Counted
  <2> QED
    BY <1>1, <1>5, <2>2, TableGrows
<1>6. /\ truth' \in [Handles -> Done]
      /\ DoneOperations(truth') = DoneOperations(truth) + 1
      /\ DoneBytes(truth') = DoneBytes(truth) + b
      /\ DoneTime(truth') = DoneTime(truth) + d
  <2> DEFINE to == Performed(truth[h], op, result)
  <2>1. /\ to \in Done /\ to.operations = truth[h].operations + 1
        /\ AllBytes(to) = AllBytes(truth[h]) + b /\ to.time = truth[h].time + d
    <3>1. truth[h] \in Done
      BY <1>1, <1>2
    <3>2. b = Bytes(result)
      BY DEF b
    <3> QED
      BY <1>1, <3>1, <3>2, PerformedOne
  <2>2. truth' = [truth EXCEPT ![h] = to]
    BY <1>3
  <2> HIDE DEF to
  <2>3. /\ truth' \in [Handles -> Done] /\ truth'[h] = to
        /\ \A j \in Handles : j # h => truth'[j] = truth[j]
    BY <1>1, <1>2, <2>1, <2>2
  <2> QED
    BY <1>1, <1>2, <2>1, <2>3, TruthGrows, SetsFinite
<1>7. /\ per_paradigm' \in [Paradigms -> IoData] /\ AddsUp(per_paradigm)'
  <2>1. Bytes(result) = b /\ Count(per_paradigm[p], result, d, mode, region) \in IoData
    <3>1. per_paradigm[p] \in IoData
      BY <1>1, <1>2
    <3> QED
      BY <1>1, <1>4, <3>1, Counted DEF b
  <2>2. /\ per_paradigm' \in [Paradigms -> IoData]
        /\ per_paradigm'[p] = Count(per_paradigm[p], result, d, mode, region)
        /\ \A j \in Paradigms : j # p => per_paradigm'[j] = per_paradigm[j]
    BY <1>1, <1>2, <1>3, <2>1
  <2>3. /\ Operations(per_paradigm') = Operations(per_paradigm) + 1
        /\ BytesMoved(per_paradigm') = BytesMoved(per_paradigm) + b
        /\ TimeTaken(per_paradigm') = TimeTaken(per_paradigm) + d
    BY <1>1, <1>2, <1>4, <1>5, <2>1, <2>2, SetsFinite
  <2> QED
    BY <1>2, <1>6, <2>2, <2>3 DEF AddsUp
<1>8. /\ per_handle' \in [Handles -> IoData] /\ AddsUp(per_handle)'
  <2>1. Bytes(b) = b /\ Count(per_handle[h], b, d, mode, region) \in IoData
    <3>1. per_handle[h] \in IoData
      BY <1>1, <1>2
    <3> QED
      BY <1>1, <1>4, <3>1, Counted DEF b
  <2>2. /\ per_handle' \in [Handles -> IoData]
        /\ per_handle'[h] = Count(per_handle[h], b, d, mode, region)
        /\ \A j \in Handles : j # h => per_handle'[j] = per_handle[j]
    BY <1>1, <1>2, <1>3, <2>1
  <2>3. /\ Operations(per_handle') = Operations(per_handle) + 1
        /\ BytesMoved(per_handle') = BytesMoved(per_handle) + b
        /\ TimeTaken(per_handle') = TimeTaken(per_handle) + d
    BY <1>1, <1>2, <1>4, <1>5, <2>1, <2>2, SetsFinite
  <2> QED
    BY <1>2, <1>6, <2>2, <2>3 DEF AddsUp
<1>9. /\ per_location' \in [Locs -> IoData] /\ AddsUp(per_location)'
  <2>1. Bytes(b) = b /\ Count(per_location[loc], b, d, mode, region) \in IoData
    <3>1. per_location[loc] \in IoData
      BY <1>1, <1>2
    <3> QED
      BY <1>1, <1>4, <3>1, Counted DEF b
  <2>2. /\ per_location' \in [Locs -> IoData]
        /\ per_location'[loc] = Count(per_location[loc], b, d, mode, region)
        /\ \A j \in Locs : j # loc => per_location'[j] = per_location[j]
    BY <1>1, <1>2, <1>3, <2>1
  <2>3. /\ Operations(per_location') = Operations(per_location) + 1
        /\ BytesMoved(per_location') = BytesMoved(per_location) + b
        /\ TimeTaken(per_location') = TimeTaken(per_location) + d
    <3> HIDE DEF Locs
    <3>1. IsFiniteSet(Locs)
      BY SetsFinite
    <3>2. per_location \in [Locs -> IoData] /\ loc \in Locs
      BY <1>1, <1>2
    <3> QED
      BY <1>4, <1>5, <2>1, <2>2, <3>1, <3>2
  <2> QED
    BY <1>2, <1>6, <2>2, <2>3 DEF AddsUp
<1> QED
  BY <1>6, <1>7, <1>8, <1>9 DEF TablesAgree

(* The handle's accesses count it too.                                     *)
LEMMA AccessesStep ==
  ASSUME Inv, NEW id \in Ids, NEW result \in Results, NEW region \in Regions,
         Complete(id, result, region)
  PROVE  io_accesses' \in [Handles -> Seq(Access)] /\ AccessesCounted'
<1> DEFINE h == pending[id].handle
           d == Duration(id)
           mode == used_io_mode[h][id]
           b == Bytes(result)
           x == [fpos |-> fpos[h], size |-> b, duration |-> d, is_meta |-> result = Undef]
           io == Count(per_handle[h], b, d, mode, region)
<1>1. /\ h \in Handles /\ d \in Nat /\ b \in Nat /\ mode \in Modes
  BY Completed
<1>2. /\ per_handle \in [Handles -> IoData] /\ io_accesses \in [Handles -> Seq(Access)]
      /\ fpos \in [Handles -> Nat] /\ AccessesCounted
  BY DEF Inv, TypeOK, Accounts
<1>3. /\ per_handle' = [per_handle EXCEPT ![h] = io]
      /\ io_accesses' = [io_accesses EXCEPT ![h] = Append(io_accesses[h], x)]
  BY DEF Complete, Tables, Move
<1>4. Bytes(b) = b /\ b \in Nat \cup {Undef}
  BY <1>1 DEF Bytes
<1>5. x \in Access /\ x.size = b /\ x.duration = d
  BY <1>1, <1>2 DEF Access
<1> HIDE DEF b, d, mode, h, x
<1>6. /\ io.num_operations = per_handle[h].num_operations + 1
      /\ io.num_bytes = per_handle[h].num_bytes + b
      /\ Time(io) = Time(per_handle[h]) + d
  <2>1. per_handle[h] \in IoData
    BY <1>1, <1>2
  <2> QED
    BY <1>1, <1>4, <2>1, Counted
<1> HIDE DEF io
<1>7. /\ per_handle'[h] = io /\ io_accesses'[h] = Append(io_accesses[h], x)
      /\ \A k \in Handles : k # h => per_handle'[k] = per_handle[k]
                                     /\ io_accesses'[k] = io_accesses[k]
  BY <1>1, <1>2, <1>3
<1>8. /\ io_accesses'[h] \in Seq(Access)
      /\ Len(io_accesses'[h]) = Len(io_accesses[h]) + 1
      /\ Sizes(io_accesses'[h]) = Sizes(io_accesses[h]) + b
      /\ Durations(io_accesses'[h]) = Durations(io_accesses[h]) + d
  <2>1. io_accesses[h] \in Seq(Access)
    BY <1>1, <1>2
  <2> QED
    BY <1>5, <1>7, <2>1, AppendTotals
<1>9. io_accesses' \in [Handles -> Seq(Access)]
  <2>1. Append(io_accesses[h], x) \in Seq(Access)
    BY <1>7, <1>8
  <2> QED
    BY <1>1, <1>2, <1>3, <2>1
<1>10. AccessesCounted'
  <2> SUFFICES ASSUME NEW k \in Handles
               PROVE  /\ Len(io_accesses'[k]) = per_handle'[k].num_operations
                      /\ Sizes(io_accesses'[k]) = per_handle'[k].num_bytes
                      /\ Durations(io_accesses'[k]) = Time(per_handle'[k])
    BY DEF AccessesCounted
  <2>1. /\ Len(io_accesses[k]) = per_handle[k].num_operations
        /\ Sizes(io_accesses[k]) = per_handle[k].num_bytes
        /\ Durations(io_accesses[k]) = Time(per_handle[k])
    BY <1>2 DEF AccessesCounted
  <2>2. CASE k = h
    BY <1>6, <1>7, <1>8, <2>1, <2>2
  <2>3. CASE k # h
    BY <1>7, <2>1, <2>3
  <2> QED
    BY <2>2, <2>3
<1> QED
  BY <1>9, <1>10

(* The time without transfer of a paradigm is that of its handles.         *)
LEMMA ParadigmStep ==
  ASSUME Inv, NEW id \in Ids, NEW result \in Results, NEW region \in Regions,
         Complete(id, result, region)
  PROVE  ParadigmTimes'
<1> DEFINE h == pending[id].handle
           op == Ticked[id]
           d == Duration(id)
           mode == used_io_mode[h][id]
           q == ParadigmOf[h]
           meta == IF result = Undef THEN d ELSE 0
           io == Count(per_paradigm[q], result, d, mode, region)
           to == Performed(truth[h], op, result)
<1>1. /\ h \in Handles /\ q \in Paradigms /\ loc \in Locs /\ op \in Operation
      /\ op.elapsed = d /\ d \in Nat /\ result \in Nat \cup {Undef} /\ mode \in Modes
  BY Completed, SetsFinite
<1>2. /\ per_paradigm \in [Paradigms -> IoData] /\ truth \in [Handles -> Done]
      /\ ParadigmTimes
  BY DEF Inv, TypeOK, Accounts
<1>3. /\ per_paradigm' = [per_paradigm EXCEPT ![q] = io]
      /\ truth' = [truth EXCEPT ![h] = to]
  BY DEF Complete, Tables
<1> HIDE DEF h, op, d, mode, q
<1>4. io.nontransfer_time = per_paradigm[q].nontransfer_time + meta
  <2>1. per_paradigm[q] \in IoData
    BY <1>1, <1>2
  <2>2. per_paradigm[q].nontransfer_time \in Nat
    BY <2>1, EntryTypes
  <2> QED
    BY <1>1, <2>2 DEF Count
<1>5. to.meta_time = truth[h].meta_time + meta /\ meta \in Nat
  <2>1. truth[h] \in Done
    BY <1>1, <1>2
  <2> QED
    BY <1>1, <2>1, PerformedOne
<1>6. to \in Done
  <2>1. truth[h] \in Done
    BY <1>1, <1>2
  <2> QED
    BY <1>1, <2>1, PerformedOne
<1> HIDE DEF io, to, meta
<1>7. /\ per_paradigm'[q] = io /\ truth'[h] = to /\ truth' \in [Handles -> Done]
      /\ \A p \in Paradigms : p # q => per_paradigm'[p] = per_paradigm[p]
      /\ \A k \in Handles : k # h => truth'[k] = truth[k]
  BY <1>1, <1>2, <1>3, <1>6
<1> SUFFICES ASSUME NEW p \in Paradigms
             PROVE  per_paradigm'[p].nontransfer_time
                      = Total([k \in {j \in Handles : ParadigmOf[j] = p} |->
                                 truth'[k].meta_time])
  BY DEF ParadigmTimes, Paradigms
<1> DEFINE S == {j \in Handles : ParadigmOf[j] = p}
           f == [k \in S |-> truth[k].meta_time]
           g == [k \in S |-> truth'[k].meta_time]
<1>8. per_paradigm[p].nontransfer_time = Total(f)
  BY <1>2 DEF ParadigmTimes
<1>9. /\ f \in [S -> Nat] /\ g \in [S -> Nat]
      /\ \A k \in S : k # h => g[k] = f[k]
  <2>1. \A k \in S : truth[k].meta_time \in Nat /\ truth'[k].meta_time \in Nat
    BY <1>2, <1>7, DoneTypes
  <2> QED
    BY <1>7, <2>1
<1>10. CASE p = q
  <2>1. h \in S /\ g[h] = f[h] + meta
    BY <1>1, <1>5, <1>7, <1>10 DEF q
  <2>2. IsFiniteSet(S)
    BY SetsFinite, FS_Subset
  <2> HIDE DEF S, f, g
  <2>3. Total(g) = Total(f) + meta
    BY <1>5, <1>9, <2>1, <2>2, TotalGrows
  <2>4. per_paradigm'[p].nontransfer_time = Total(g)
    BY <1>4, <1>7, <1>8, <1>10, <2>3
  <2> QED
    BY <2>4 DEF S, g
<1>11. CASE p # q
  <2>1. h \notin S
    BY <1>11 DEF q
  <2>2. f = g
    <3>1. \A k \in S : truth'[k] = truth[k]
      BY <1>7, <2>1
    <3> QED
      BY <3>1
  <2>3. per_paradigm'[p].nontransfer_time = Total(g)
    <3> HIDE DEF f, g
    <3> QED
      BY <1>7, <1>8, <1>11, <2>2
  <2> QED
    BY <2>3
<1> QED
  BY <1>10, <1>11

(* The File grows to the end of the access.                                *)
LEMMA FilesStep ==
  ASSUME Inv, NEW id \in Ids, NEW result \in Results, NEW region \in Regions,
         Complete(id, result, region)
  PROVE  /\ fpos' \in [Handles -> Nat] /\ fsize' \in [Handles -> Nat]
         /\ Definitions' /\ Covered'
<1> DEFINE h == pending[id].handle
           b == Bytes(result)
           f == file_handle[h]
           end == fpos[h] + b
           x == [fpos |-> fpos[h], size |-> b, duration |-> Duration(id),
                 is_meta |-> result = Undef]
<1>1. /\ h \in Handles /\ f \in Handles /\ b \in Nat /\ defined = Cardinality(Handles)
  BY Completed
<1>2. /\ fpos \in [Handles -> Nat] /\ fsize \in [Handles -> Nat]
      /\ io_accesses \in [Handles -> Seq(Access)]
      /\ file_handle \in [Handles -> Handles \cup {NoFile}]
      /\ Definitions /\ Covered
  BY DEF Inv, TypeOK
<1>3. /\ fpos' = [fpos EXCEPT ![h] = end]
      /\ fsize' = [fsize EXCEPT ![f] = IF fpos'[h] > @ THEN fpos'[h] ELSE @]
      /\ io_accesses' = [io_accesses EXCEPT ![h] = Append(io_accesses[h], x)]
      /\ UNCHANGED definitions
  BY DEF Complete, Move
<1>4. x.fpos + x.size = end
  OBVIOUS
<1> HIDE DEF h, b, f, x
<1>5. fpos[h] \in Nat /\ fsize[f] \in Nat /\ end \in Nat
  BY <1>1, <1>2
<1> HIDE DEF end
<1>6. fpos' \in [Handles -> Nat] /\ fpos'[h] = end
  BY <1>1, <1>2, <1>3, <1>5
<1>7. /\ fsize' \in [Handles -> Nat] /\ end <= fsize'[f] /\ fsize[f] <= fsize'[f]
      /\ \A g \in Handles : g # f => fsize'[g] = fsize[g]
  <2> DEFINE s == IF end > fsize[f] THEN end ELSE fsize[f]
  <2>1. s \in Nat /\ end <= s /\ fsize[f] <= s
    BY <1>5
  <2>2. fsize' = [fsize EXCEPT ![f] = s]
    BY <1>3, <1>6
  <2> HIDE DEF s
  <2> QED
    BY <1>1, <1>2, <2>1, <2>2
<1>8. file_handle' = file_handle /\ defined' = defined
  BY <1>3 DEF definitions
<1>9. Definitions'
  BY <1>1, <1>2, <1>8 DEF Definitions
<1>10. Covered'
  <2> SUFFICES ASSUME NEW g \in Handles, NEW i \in DOMAIN io_accesses'[g]
               PROVE  io_accesses'[g][i].fpos + io_accesses'[g][i].size
                        <= fsize'[file_handle[g]]
    BY <1>8 DEF Covered
  <2>1. file_handle[g] \in Handles
    <3>1. g <= defined
      BY <1>1, HandleNumbers
    <3> QED
      BY <1>2, <3>1 DEF Definitions
  <2>2. fsize[file_handle[g]] <= fsize'[file_handle[g]]
    <3>1. CASE file_handle[g] = f
      BY <1>7, <3>1
    <3>2. CASE file_handle[g] # f
      <4>1. fsize[file_handle[g]] \in Nat
        BY <1>2, <2>1
      <4> QED
        BY <1>7, <2>1, <3>2, <4>1
    <3> QED
      BY <3>1, <3>2
  <2>3. ASSUME NEW j \in DOMAIN io_accesses[g]
        PROVE  io_accesses[g][j].fpos + io_accesses[g][j].size <= fsize'[file_handle[g]]
    <3>1. io_accesses[g][j].fpos + io_accesses[g][j].size <= fsize[file_handle[g]]
      BY <1>2 DEF Covered
    <3>2. io_accesses[g][j] \in Access
      BY <1>2
    <3>3. io_accesses[g][j].fpos + io_accesses[g][j].size \in Nat
      BY <3>2 DEF Access
    <3>4. fsize[file_handle[g]] \in Nat /\ fsize'[file_handle[g]] \in Nat
      BY <1>2, <1>7, <2>1
    <3> HIDE DEF f
    <3> QED
      BY <2>2, <3>1, <3>3, <3>4
  <2>4. CASE g # h
    <3>1. io_accesses'[g] = io_accesses[g]
      BY <1>1, <1>2, <1>3, <2>4
    <3> QED
      BY <2>3, <3>1
  <2>5. CASE g = h
    <3> DEFINE a == io_accesses[g]
    <3>1. a \in Seq(Access)
      BY <1>2
    <3>2. io_accesses'[g] = Append(a, x)
      BY <1>1, <1>2, <1>3, <2>5
    <3>3. i \in 1 .. Len(a) + 1 /\ i \in DOMAIN Append(a, x)
      BY <3>1, <3>2
    <3>4. file_handle[g] = f
      BY <2>5 DEF f
    <3> HIDE DEF a
    <3>5. CASE i = Len(a) + 1
      <4>1. io_accesses'[g][i] = x
        BY <3>1, <3>2, <3>5
      <4> QED
        BY <1>4, <1>7, <3>4, <4>1
    <3>6. CASE i # Len(a) + 1
      <4>1. i \in DOMAIN a /\ io_accesses'[g][i] = a[i]
        BY <3>1, <3>2, <3>3, <3>6
      <4> QED
        BY <2>3, <4>1 DEF a
    <3> QED
      BY <3>5, <3>6
  <2> QED
    BY <2>4, <2>5
<1> QED
  BY <1>6, <1>7, <1>9, <1>10

LEMMA CompleteStep ==
  ASSUME Inv, NEW id \in Ids, NEW result \in Results, NEW region \in Regions,
         Complete(id, result, region)
  PROVE  Inv'
<1>1. TypeOK /\ OpenTimes /\ Event
  BY DEF Inv, Complete
<1>2. /\ clock' = clock + 1 /\ clock' \in Nat /\ events' \in 0 .. MaxEvents
      /\ Ticked \in [Ids -> Operation \cup {NoOperation}]
  BY <1>1, Now, Tick
<1>3. /\ pending' = [Ticked EXCEPT ![id] = NoOperation]
      /\ open_io_events' = [open_io_events EXCEPT ![id] = Undef]
      /\ UNCHANGED <<definitions, location, used_io_mode, loc, alive, used>>
  BY DEF Complete
<1>4. /\ pending' \in [Ids -> Operation \cup {NoOperation}] /\ pending'[id] = NoOperation
      /\ \A i \in Ids : i # id => pending'[i] = Ticked[i]
  BY <1>2, <1>3
<1>5. /\ open_io_events' \in [Ids -> Nat \cup {Undef}]
      /\ \A i \in Ids : i # id => open_io_events'[i] = open_io_events[i]
  BY <1>1, <1>3 DEF TypeOK
<1>6. OpenTimes'
  BY <1>1, <1>2, <1>4, <1>5, TimesGoOn
<1>7. /\ per_paradigm' \in [Paradigms -> IoData] /\ per_handle' \in [Handles -> IoData]
      /\ per_location' \in [Locs -> IoData] /\ truth' \in [Handles -> Done]
      /\ io_accesses' \in [Handles -> Seq(Access)]
      /\ fpos' \in [Handles -> Nat] /\ fsize' \in [Handles -> Nat]
  BY TablesStep, AccessesStep, FilesStep
<1>8. TypeOK'
  BY <1>1, <1>2, <1>3, <1>4, <1>5, <1>7 DEF TypeOK, definitions
<1>9. Definitions' /\ Covered' /\ Accounts'
  BY TablesStep, AccessesStep, ParadigmStep, FilesStep DEF Accounts
<1> QED
  BY <1>6, <1>8, <1>9 DEF Inv

-----------------------------------------------------------------------------
(* Every step keeps all of it.                                             *)
LEMMA Step == Inv /\ [Next]_vars => Inv'
<1> SUFFICES ASSUME Inv, [Next]_vars PROVE Inv'
  OBVIOUS
<1>1. ASSUME NEW has_file \in BOOLEAN, DefIoHandle(has_file) PROVE Inv'
  BY <1>1, DefStep
<1>2. ASSUME NEW h \in Handles, NEW id \in Ids, NEW mode \in {"R", "W", "-"},
             NEW offset \in Offsets \cup {NoAttribute}, Begin(h, id, mode, offset)
      PROVE  Inv'
  BY <1>2, BeginStep
<1>3. ASSUME NEW h \in Handles, NEW whence \in Whences, NEW offset \in {0, 1},
             Seek(h, whence, offset)
      PROVE  Inv'
  BY <1>3, SeekStep
<1>4. ASSUME NEW h \in Handles, CreateHandle(h) PROVE Inv'
  BY <1>4, CreateStep
<1>5. ASSUME NEW id \in Ids, NEW result \in Results, NEW region \in Regions,
             Complete(id, result, region)
      PROVE  Inv'
  BY <1>5, CompleteStep
<1>6. ASSUME NEW whence \in Whences, SeekUnsupported(whence) PROVE Inv'
  BY <1>6, UnsupportedStep
<1>7. CASE NextLocation
  BY <1>7, LocationStep
<1>8. CASE UNCHANGED vars
  <2>1. UNCHANGED <<definitions, handles, open_io_events, tables, loc, clock, events, alive,
                    history>>
    BY <1>8 DEF vars
  <2>2. TypeOK'
    BY <2>1 DEF Inv, TypeOK, definitions, handles, tables, history
  <2>3. OpenTimes'
    BY <2>1 DEF Inv, OpenTimes, history
  <2>4. Definitions' /\ Covered' /\ Accounts'
    BY <2>1, FilesKept, AccountsKept DEF Inv, handles, history
  <2> QED
    BY <2>2, <2>3, <2>4 DEF Inv
<1>9. CASE Ended
  BY <1>8, <1>9 DEF Ended
<1> QED
  BY <1>1, <1>2, <1>3, <1>4, <1>5, <1>6, <1>7, <1>8, <1>9 DEF Next

LEMMA Inductive == Spec => []Inv
BY InitInv, Step, PTL DEF Spec

(* Every part of the state has its type: no table counts a negative time,  *)
(* and every handle that is used points to a File.                         *)
THEOREM Typing == Spec => []TypeOK
BY Inductive, PTL DEF Inv

(* The table per paradigm, the one per handle and the one per location     *)
(* (io_operation_complete_callback) each add up to the operations, bytes   *)
(* and times of what was really done.                                      *)
THEOREM TablesHold == Spec => []TablesAgree
BY Inductive, PTL DEF Inv, Accounts

(* The accesses of a handle add up to its statistics.                      *)
THEOREM AccessesHold == Spec => []AccessesCounted
BY Inductive, PTL DEF Inv, Accounts

(* A paradigm's time without transfer is the time of the operations whose  *)
(* bytesResult is undefined.                                               *)
THEOREM ParadigmTimesHold == Spec => []ParadigmTimes
BY Inductive, PTL DEF Inv, Accounts

-----------------------------------------------------------------------------
(* Which File a handle points to.  A File that is registered for a name    *)
(* was made for a handle of that name that is defined.                     *)
Registry ==
  \A n \in Names :
    filehandles[n].file # NoFile =>
      filehandles[n].file <= defined /\ FileOf[filehandles[n].file] = n

(* The handles that share a File point to the one that is registered.      *)
SameFile ==
  /\ \A h \in regular : h <= defined
  /\ \A h \in Handles :
       h <= defined /\ Sharing(h) => file_handle[h] = filehandles[FileOf[h]].file

LEMMA FilesDefined ==
  ASSUME TypeOK, Inv, Registry, SameFile, NEW has_file \in BOOLEAN, DefIoHandle(has_file)
  PROVE  Registry' /\ SameFile'
<1> DEFINE h == defined + 1
           n == FileOf[h]
           new == Registered(h)
<1>1. /\ defined \in Nat /\ defined' = h /\ h \in Handles /\ n \in Names
      /\ filehandles' = [filehandles EXCEPT ![n] = new]
      /\ file_handle' = [file_handle EXCEPT ![h] = IF has_file THEN h ELSE new.file]
      /\ regular' = IF has_file THEN regular \cup {h} ELSE regular
  <2>1. defined \in Nat /\ defined < Cardinality(Handles)
    BY HandleNumbers DEF TypeOK, DefIoHandle
  <2>2. h \in Handles
    BY <2>1, HandleNumbers
  <2> QED
    BY <2>1, <2>2 DEF DefIoHandle, Names
<1>2. /\ filehandles \in [Names -> [file : Handles \cup {NoFile}, io_handles : SUBSET Handles]]
      /\ file_handle \in [Handles -> Handles \cup {NoFile}]
  BY DEF TypeOK
<1>3. /\ filehandles[n].file = NoFile => new.file = h
      /\ filehandles[n].file # NoFile => new.file = filehandles[n].file
  BY DEF Registered
<1> HIDE DEF new
<1>4. /\ filehandles'[n] = new /\ \A m \in Names : m # n => filehandles'[m] = filehandles[m]
      /\ file_handle'[h] = (IF has_file THEN h ELSE new.file)
      /\ \A g \in Handles : g # h => file_handle'[g] = file_handle[g]
  <2> HIDE DEF h, n
  <2> QED
    BY <1>1, <1>2
<1>5. \A g \in Handles : g \in Nat /\ (g <= defined' <=> g <= defined \/ g = h)
  BY <1>1, HandleNumbers
<1> HIDE DEF h
<1>6. Registry'
  <2> SUFFICES ASSUME NEW m \in Names, filehandles'[m].file # NoFile
               PROVE  filehandles'[m].file <= defined' /\ FileOf[filehandles'[m].file] = m
    BY DEF Registry
  <2>1. ASSUME filehandles[m].file # NoFile
        PROVE  filehandles[m].file <= defined' /\ FileOf[filehandles[m].file] = m
    <3>1. filehandles[m].file \in Handles
      BY <1>2, <2>1
    <3>2. filehandles[m].file <= defined /\ FileOf[filehandles[m].file] = m
      BY <2>1 DEF Registry
    <3> QED
      BY <1>5, <3>1, <3>2
  <2>2. CASE m # n
    BY <1>4, <2>1, <2>2
  <2>3. CASE m = n /\ filehandles[n].file # NoFile
    BY <1>3, <1>4, <2>1, <2>3
  <2>4. CASE m = n /\ filehandles[n].file = NoFile
    <3>1. filehandles'[m].file = h
      BY <1>3, <1>4, <2>4
    <3>2. h <= defined'
      BY <1>1, <1>5
    <3> QED
      BY <2>4, <3>1, <3>2
  <2> QED
    BY <2>2, <2>3, <2>4
<1>7. ASSUME NEW g \in Handles, g <= defined', Sharing(g)'
      PROVE  file_handle'[g] = filehandles'[FileOf[g]].file
  <2>1. \A k \in Handles :
          k <= defined /\ Sharing(k) => file_handle[k] = filehandles[FileOf[k]].file
    BY DEF SameFile
  <2>2. FileOf[g] \in Names
    BY DEF Names
  <2>3. CASE g = h
    <3>1. CASE filehandles[n].file = NoFile
      BY <1>1, <1>3, <1>4, <2>3, <3>1
    <3>2. CASE filehandles[n].file # NoFile
      <4> DEFINE k == filehandles[n].file
      <4>1. k \in Handles /\ k <= defined /\ FileOf[k] = n
        BY <1>1, <1>2, <3>2 DEF Registry
      <4>2. k < h
        BY <1>1, <1>5, <4>1 DEF h
      <4>3. ~ has_file
        <5> SUFFICES ASSUME has_file PROVE FALSE
          OBVIOUS
        <5>1. h \in regular'
          BY <1>1
        <5>2. h <= k
          BY <1>1, <1>7, <2>3, <4>1, <5>1 DEF Sharing
        <5> QED
          BY <1>1, <1>5, <4>1, <4>2, <5>2
      <4> QED
        BY <1>1, <1>3, <1>4, <2>3, <3>2, <4>3
    <3> QED
      BY <3>1, <3>2
  <2>4. CASE g # h
    <3>1. g <= defined /\ file_handle'[g] = file_handle[g]
      BY <1>4, <1>5, <1>7, <2>4
    <3>2. file_handle[g] = filehandles[FileOf[g]].file
      <4>1. Sharing(g)
        BY <1>1, <1>7, <2>4 DEF Sharing
      <4> QED
        BY <2>1, <3>1, <4>1
    <3>3. CASE FileOf[g] # n
      BY <1>4, <2>2, <3>1, <3>2, <3>3
    <3>4. CASE FileOf[g] = n
      <4>1. file_handle[g] # NoFile
        <5>1. file_handle[g] \in Handles
          BY <3>1 DEF Inv, Definitions
        <5> QED
          BY <5>1, HandleNumbers
      <4> QED
        BY <1>3, <1>4, <3>1, <3>2, <3>4, <4>1
    <3> QED
      BY <3>3, <3>4
  <2> QED
    BY <2>3, <2>4
<1>8. SameFile'
  <2>1. \A g \in regular' : g <= defined'
    BY <1>1, <1>5 DEF SameFile, TypeOK
  <2> QED
    BY <1>7, <2>1 DEF SameFile
<1> QED
  BY <1>6, <1>8

LEMMA FilesInductive == Spec => [](Registry /\ SameFile)
<1>1. ASSUME Init PROVE Registry /\ SameFile
  <2>1. \A n \in Names : filehandles[n].file = NoFile
    BY <1>1 DEF Init
  <2>2. \A h \in Handles : ~(h <= defined)
    <3>1. \A h \in Handles : h \in Nat /\ h > 0
      BY HandleNumbers
    <3>2. defined = 0
      BY <1>1 DEF Init
    <3> QED
      BY <3>1, <3>2
  <2>3. regular = {}
    BY <1>1 DEF Init
  <2> QED
    BY <2>1, <2>2, <2>3 DEF Registry, SameFile
<1>2. ASSUME Inv, Registry, SameFile, [Next]_vars PROVE Registry' /\ SameFile'
  <2>1. CASE \E has_file \in BOOLEAN : DefIoHandle(has_file)
    BY <1>2, <2>1, FilesDefined DEF Inv
  <2>2. CASE UNCHANGED definitions
    BY <1>2, <2>2 DEF Registry, SameFile, Sharing, definitions
  <2>3. (\E has_file \in BOOLEAN : DefIoHandle(has_file)) \/ UNCHANGED definitions
    BY <1>2 DEF Next, Begin, Seek, CreateHandle, Complete, SeekUnsupported, NextLocation,
                Ended, vars
  <2> QED
    BY <2>1, <2>2, <2>3
<1> QED
  BY <1>1, <1>2, Inductive, PTL DEF Spec

(* "fsize (which is affected by all writing locations": the File a handle  *)
(* points to covers the handle's own accesses, however the handles of a    *)
(* file were defined.                                                      *)
THEOREM OwnFileCovers == Spec => []Covered
BY Inductive, PTL DEF Inv

(* And it covers those of the handles that share it: all handles of a file *)
(* but the later ones that are defined with an OTF2 I/O file, to which     *)
(* handle_def_io_handle gives the File that emplace refused to register.   *)
THEOREM SharedSizeHolds == Spec => []SharedSize
<1>1. ASSUME Inv, Registry, SameFile PROVE SharedSize
  <2> SUFFICES ASSUME NEW g \in Handles, NEW h \in Handles,
                      g = h \/ (FileOf[g] = FileOf[h] /\ Sharing(g) /\ Sharing(h)),
                      NEW i \in DOMAIN io_accesses[g]
               PROVE  io_accesses[g][i].fpos + io_accesses[g][i].size <= fsize[file_handle[h]]
    BY DEF SharedSize, Covers
  <2>1. defined = Cardinality(Handles)
    <3>1. io_accesses[g] # <<>>
      OBVIOUS
    <3> QED
      BY <1>1, <3>1 DEF Inv, Definitions
  <2>2. file_handle[g] = file_handle[h]
    <3>1. g <= defined /\ h <= defined
      BY <2>1, HandleNumbers
    <3> QED
      BY <1>1, <3>1 DEF SameFile
  <2>3. io_accesses[g][i].fpos + io_accesses[g][i].size <= fsize[file_handle[g]]
    BY <1>1 DEF Inv, Covered
  <2> QED
    BY <2>2, <2>3
<1> QED
  BY <1>1, Inductive, FilesInductive, PTL
=============================================================================
