-------------------------- MODULE WorkClaimProofs --------------------------
(***************************************************************************)
(* WorkClaim for every number of ranks and locations: its types, and, when *)
(* the one-sided calls complete before they return, that no location is    *)
(* claimed twice and none is skipped.                                      *)
(***************************************************************************)
EXTENDS WorkClaim, TLAPS

USE NumRanksAssumption, NumLocsAssumption, CompletionAssumption
    DEF Ranks, Locs, NoLoc, Trash, Values, NoCas, Goto

(* Every variable keeps its type, whenever the calls complete.             *)
LEMMA TypeInit == Init => TypeOK /\ InRange
BY DEF Init, TypeOK, Labels, InRange

LEMMA TypeStep ==
  TypeOK /\ InRange /\ [Next]_vars => TypeOK' /\ InRange'
<1> SUFFICES ASSUME TypeOK, InRange, [Next]_vars PROVE TypeOK' /\ InRange'
  OBVIOUS
<1> USE DEF TypeOK, InRange, Labels
<1>1. ASSUME NEW r \in Ranks, Allocate(r) PROVE TypeOK' /\ InRange'
  BY <1>1 DEF Allocate
<1>2. ASSUME NEW r \in Ranks, Fence(r) PROVE TypeOK' /\ InRange'
  BY <1>2 DEF Fence
<1>3. ASSUME NEW r \in Ranks, TryClaim(r) PROVE TypeOK' /\ InRange'
  BY <1>3 DEF TryClaim
<1>4. ASSUME NEW r \in Ranks, LandCas(r) PROVE TypeOK' /\ InRange'
  BY <1>4 DEF LandCas
<1>5. ASSUME NEW r \in Ranks, Claimed(r) PROVE TypeOK' /\ InRange'
  BY <1>5 DEF Claimed
<1>6. ASSUME NEW r \in Ranks, Lost(r) PROVE TypeOK' /\ InRange'
  BY <1>6 DEF Lost
<1>7. ASSUME NEW r \in Ranks, LandGet(r) PROVE TypeOK' /\ InRange'
  BY <1>7 DEF LandGet
<1>8. ASSUME NEW r \in Ranks, TryNext(r) PROVE TypeOK' /\ InRange'
  <2>1. initial[r] \in Values
    OBVIOUS
  <2>2. initial[r] + 1 \in Nat
    BY <2>1
  <2> QED
    BY <1>8, <2>2 DEF TryNext
<1>9. ASSUME NEW r \in Ranks, ReadDefs(r) PROVE TypeOK' /\ InRange'
  BY <1>9 DEF ReadDefs
<1>10. ASSUME NEW r \in Ranks, ReadEvents(r) PROVE TypeOK' /\ InRange'
  <2>1. to_read[r] \in Nat /\ to_read[r] + 1 \in Nat
    OBVIOUS
  <2> QED
    BY <1>10, <2>1, SMTT(20) DEF ReadEvents
<1>11. ASSUME NEW r \in Ranks, Finish(r) PROVE TypeOK' /\ InRange'
  BY <1>11 DEF Finish
<1>12. CASE UNCHANGED vars
  BY <1>12 DEF vars
<1> QED
  BY <1>1, <1>2, <1>3, <1>4, <1>5, <1>6, <1>7, <1>8, <1>9, <1>10, <1>11, <1>12
  DEF Next, RankStep, Land

THEOREM Typing == Spec => []TypeOK
<1>1. TypeOK /\ InRange /\ UNCHANGED vars => TypeOK' /\ InRange'
  BY TypeStep
<1> QED
  BY TypeInit, TypeStep, PTL DEF Spec

-----------------------------------------------------------------------------
(* From here on one-sided calls complete before they return.               *)
LEMMA InvInit == Init => IInv
BY TypeInit DEF Init, IInv, InRange, Collective, InFlight, Indices, Counted, Exclusive,
   Started, Entered, Holding, Claiming, Won

(* A step that leaves the window alone and lets every rank hold what it    *)
(* held keeps the count of the claims right.                               *)
LEMMA SameHolding ==
  ASSUME TypeOK, IInv, UNCHANGED window, Started, Started',
         \A q \in Ranks : Holding(q)' = Holding(q)
  PROVE  Counted' /\ Exclusive'
BY DEF IInv, Counted, Exclusive

(* Once a rank is past the fence rank 0 has put the first value.           *)
LEMMA EnteredStarted ==
  ASSUME IInv, NEW r \in Ranks, Entered(r)
  PROVE  Started
BY DEF IInv, Counted

(* All steps but the effect of a swap leave every rank with what it held.  *)
LEMMA HoldingKept ==
  ASSUME CompletesAtCall, TypeOK, IInv, NEW r \in Ranks,
         RankStep(r) \/ LandGet(r)
  PROVE  \A q \in Ranks : Holding(q)' = Holding(q)
<1> USE DEF TypeOK, Labels
<1>1. CASE Allocate(r)
  <2>1. \A q \in Ranks : Holding(q) = {} /\ Holding(q)' = {}
    BY <1>1 DEF Allocate, IInv, Collective, Entered, Holding, Claiming, Won
  <2> QED
    BY <2>1
<1>2. CASE Fence(r)
  BY <1>2 DEF Fence, Holding, Claiming, Won
<1>3. CASE TryClaim(r)
  BY <1>3 DEF TryClaim, Holding, Claiming, Won, IInv, InFlight, InRange, Returned
<1>4. CASE Claimed(r)
  <2>1. Won(r)
    BY <1>4 DEF Claimed, Won, Returned
  <2>2. Holding(r)' = Holding(r)
    <3>1. pc'[r] = "defs" /\ UNCHANGED <<have, to_read>>
      BY <1>4 DEF Claimed
    <3>2. Claiming(r) /\ Claiming(r)'
      BY <2>1, <3>1 DEF Claiming
    <3> QED
      BY <3>1, <3>2 DEF Holding
  <2>3. \A q \in Ranks \ {r} : Holding(q)' = Holding(q)
    BY <1>4 DEF Claimed, Holding, Claiming, Won
  <2> QED
    BY <2>2, <2>3
<1>5. CASE Lost(r)
  BY <1>5 DEF Lost, Holding, Claiming, Won, IInv, InFlight, InRange, Returned
<1>6. CASE TryNext(r)
  BY <1>6 DEF TryNext, Holding, Claiming, Won, IInv, InFlight, InRange, Returned
<1>7. CASE ReadDefs(r)
  BY <1>7 DEF ReadDefs, Holding, Claiming, Won, IInv, InFlight, InRange, Returned
<1>8. CASE ReadEvents(r)
  <2>1. to_read[r] \in Locs /\ to_read[r] \in Holding(r)
    BY <1>8 DEF ReadEvents, IInv, InRange, Holding, Claiming
  <2>2. Holding(r)' = Holding(r)
    <3>1. pc[r] = "events" /\ pc'[r] = "loop" /\ have'[r] = have[r] \cup {to_read[r]}
      BY <1>8 DEF ReadEvents
    <3>2. Claiming(r) /\ ~Claiming(r)'
      BY <3>1 DEF Claiming, Won
    <3> QED
      BY <2>1, <3>1, <3>2 DEF Holding
  <2>3. \A q \in Ranks \ {r} : Holding(q)' = Holding(q)
    BY <1>8 DEF ReadEvents, Holding, Claiming, Won
  <2> QED
    BY <2>2, <2>3
<1>9. CASE Finish(r)
  BY <1>9 DEF Finish, Holding, Claiming, Won, IInv, InFlight, InRange, Returned
<1>10. CASE LandGet(r)
  BY <1>10 DEF LandGet, Holding, Claiming, Won, IInv, InFlight, InRange, Returned
<1> QED
  BY <1>1, <1>2, <1>3, <1>4, <1>5, <1>6, <1>7, <1>8, <1>9, <1>10 DEF RankStep

(* A swap that takes effect gives its rank one location, which nobody held *)
(* and to which the window moves, or changes nothing.                      *)
LEMMA SwapGains ==
  ASSUME TypeOK, IInv, NEW r \in Ranks, LandCas(r)
  PROVE  /\ \A q \in Ranks \ {r} : Holding(q)' = Holding(q)
         /\ \/ Holding(r)' = Holding(r) /\ UNCHANGED window
            \/ /\ to_read[r] \in Locs
               /\ window' = to_read[r] /\ to_read[r] = window + 1
               /\ \A q \in Ranks : to_read[r] \notin Holding(q)
               /\ Holding(r)' = Holding(r) \cup {to_read[r]}
<1> USE DEF TypeOK, Labels
<1>1. pc[r] = "test" /\ cas[r].cmp = initial[r] /\ cas[r].new = to_read[r]
  BY DEF LandCas, IInv, InFlight
<1>2. Started
  BY <1>1, EnteredStarted DEF Entered
<1>3. to_read[r] = initial[r] + 1 /\ to_read[r] \in Locs
  BY <1>1 DEF IInv, Indices, Entered, InRange
<1>4. \A q \in Ranks \ {r} : Holding(q)' = Holding(q)
  BY DEF LandCas, Holding, Claiming, Won
<1>5. Holding(r) = have[r]
  BY <1>1 DEF LandCas, Holding, Claiming, Won
<1>6. CASE window # initial[r]
  <2>1. Holding(r)' = Holding(r)
    BY <1>1, <1>5, <1>6 DEF LandCas, Holding, Claiming, Won
  <2>2. UNCHANGED window
    BY <1>1, <1>6 DEF LandCas
  <2> QED
    BY <1>4, <2>1, <2>2
<1>7. CASE window = initial[r]
  <2>1. Holding(r)' = Holding(r) \cup {to_read[r]}
    BY <1>1, <1>3, <1>5, <1>7 DEF LandCas, Holding, Claiming, Won
  <2>2. window' = to_read[r] /\ to_read[r] = window + 1
    BY <1>1, <1>3, <1>7 DEF LandCas
  <2>3. \A q \in Ranks : to_read[r] \notin Holding(q)
    BY <1>2, <1>3, <2>2 DEF IInv, Counted
  <2> QED
    BY <1>3, <1>4, <2>1, <2>2, <2>3
<1> QED
  BY <1>6, <1>7

LEMMA InvStep ==
  ASSUME CompletesAtCall, TypeOK, IInv, InRange', [Next]_vars
  PROVE  IInv'
<1> USE DEF TypeOK, Labels
<1> DEFINE Rest == Collective /\ InFlight /\ Indices
<1>1. ASSUME NEW r \in Ranks, Allocate(r) PROVE IInv'
  <2>1. Rest'
    BY <1>1 DEF Allocate, IInv, Collective, InFlight, Indices, Entered
  <2>2. \A q \in Ranks : Holding(q) = {} /\ Holding(q)' = {}
    BY <1>1 DEF Allocate, IInv, Collective, Entered, Holding, Claiming, Won
  <2>3. \A q \in Ranks : ~Entered(q)'
    BY <1>1 DEF Allocate, IInv, Collective, Entered
  <2>4. CASE r = 0
    <3>1. window' = NoLoc
      BY <1>1, <2>4 DEF Allocate
    <3>2. \A l \in Locs : ~(l <= window')
      BY <3>1
    <3> QED
      BY <2>1, <2>2, <2>3, <3>1, <3>2 DEF IInv, Counted, Exclusive
  <2>5. CASE r # 0
    <3>1. UNCHANGED window /\ (Started' <=> Started)
      BY <1>1, <2>5 DEF Allocate, Started
    <3> QED
      BY <2>1, <2>2, <2>3, <3>1 DEF IInv, Counted, Exclusive
  <2> QED
    BY <2>4, <2>5
<1>2. ASSUME NEW r \in Ranks, Fence(r) PROVE IInv'
  <2>1. Rest'
    BY <1>2 DEF Fence, IInv, Collective, InFlight, Indices, Entered, Counted, Started
  <2>2. \A q \in Ranks : Holding(q)' = Holding(q)
    BY <1>2, HoldingKept DEF RankStep
  <2>3. Started /\ Started'
    BY <1>2 DEF Fence, Started
  <2> QED
    BY <1>2, <2>1, <2>2, <2>3, SameHolding DEF Fence, IInv
<1>3. ASSUME NEW r \in Ranks, TryClaim(r) PROVE IInv'
  <2>1. Rest'
    BY <1>3 DEF TryClaim, IInv, Collective, InFlight, Indices, Entered, Returned, InRange
  <2>2. \A q \in Ranks : Holding(q)' = Holding(q)
    BY <1>3, HoldingKept DEF RankStep
  <2>3. Started
    BY <1>3, EnteredStarted DEF TryClaim, Entered
  <2>4. Started'
    BY <1>3, <2>3 DEF TryClaim, Started
  <2> QED
    BY <1>3, <2>1, <2>2, <2>3, <2>4, SameHolding DEF TryClaim, IInv
<1>5. ASSUME NEW r \in Ranks, Claimed(r) PROVE IInv'
  <2>1. Rest'
    BY <1>5 DEF Claimed, IInv, Collective, InFlight, Indices, Entered, Returned, InRange
  <2>2. \A q \in Ranks : Holding(q)' = Holding(q)
    BY <1>5, HoldingKept DEF RankStep
  <2>3. Started
    BY <1>5, EnteredStarted DEF Claimed, Entered
  <2>4. Started'
    BY <1>5, <2>3 DEF Claimed, Started
  <2> QED
    BY <1>5, <2>1, <2>2, <2>3, <2>4, SameHolding DEF Claimed, IInv
<1>6. ASSUME NEW r \in Ranks, Lost(r) PROVE IInv'
  <2>1. Rest'
    BY <1>6 DEF Lost, IInv, Collective, InFlight, Indices, Entered, Returned, InRange
  <2>2. \A q \in Ranks : Holding(q)' = Holding(q)
    BY <1>6, HoldingKept DEF RankStep
  <2>3. Started
    BY <1>6, EnteredStarted DEF Lost, Entered
  <2>4. Started'
    BY <1>6, <2>3 DEF Lost, Started
  <2> QED
    BY <1>6, <2>1, <2>2, <2>3, <2>4, SameHolding DEF Lost, IInv
<1>8. ASSUME NEW r \in Ranks, TryNext(r) PROVE IInv'
  <2>1. Rest'
    BY <1>8 DEF TryNext, IInv, Collective, InFlight, Indices, Entered, Returned, InRange
  <2>2. \A q \in Ranks : Holding(q)' = Holding(q)
    BY <1>8, HoldingKept DEF RankStep
  <2>3. Started
    BY <1>8, EnteredStarted DEF TryNext, Entered
  <2>4. Started'
    BY <1>8, <2>3 DEF TryNext, Started
  <2> QED
    BY <1>8, <2>1, <2>2, <2>3, <2>4, SameHolding DEF TryNext, IInv
<1>9. ASSUME NEW r \in Ranks, ReadDefs(r) PROVE IInv'
  <2>1. Rest'
    BY <1>9 DEF ReadDefs, IInv, Collective, InFlight, Indices, Entered, Returned, InRange
  <2>2. \A q \in Ranks : Holding(q)' = Holding(q)
    BY <1>9, HoldingKept DEF RankStep
  <2>3. Started
    BY <1>9, EnteredStarted DEF ReadDefs, Entered
  <2>4. Started'
    BY <1>9, <2>3 DEF ReadDefs, Started
  <2> QED
    BY <1>9, <2>1, <2>2, <2>3, <2>4, SameHolding DEF ReadDefs, IInv
<1>10. ASSUME NEW r \in Ranks, ReadEvents(r) PROVE IInv'
  <2>1. to_read[r] \in Locs /\ to_read[r] \in Holding(r)
    BY <1>10 DEF ReadEvents, IInv, InRange, Holding, Claiming
  <2>2. \A q \in Ranks : Holding(q)' = Holding(q)
    BY <1>10, HoldingKept DEF RankStep
  <2>3. Started
    BY <1>10, EnteredStarted DEF ReadEvents, Entered
  <2>4. Started'
    BY <1>10, <2>3 DEF ReadEvents, Started
  <2>5. to_read[r] <= window
    BY <2>1, <2>3 DEF IInv, Counted
  <2>6. Collective' /\ InFlight'
    BY <1>10 DEF ReadEvents, IInv, Collective, InFlight, Entered
  <2>7. Indices'
    BY <1>10, <2>5 DEF ReadEvents, IInv, Indices, Entered
  <2> QED
    BY <1>10, <2>2, <2>3, <2>4, <2>6, <2>7, SameHolding DEF ReadEvents, IInv
<1>11. ASSUME NEW r \in Ranks, Finish(r) PROVE IInv'
  <2>1. Rest'
    BY <1>11 DEF Finish, IInv, Collective, InFlight, Indices, Entered, Returned, InRange
  <2>2. \A q \in Ranks : Holding(q)' = Holding(q)
    BY <1>11, HoldingKept DEF RankStep
  <2>3. Started
    BY <1>11, EnteredStarted DEF Finish, Entered
  <2>4. Started'
    BY <1>11, <2>3 DEF Finish, Started
  <2> QED
    BY <1>11, <2>1, <2>2, <2>3, <2>4, SameHolding DEF Finish, IInv
<1>7. ASSUME NEW r \in Ranks, LandGet(r) PROVE IInv'
  <2>1. Rest'
    BY <1>7 DEF LandGet, IInv, Collective, InFlight, Indices, Entered, Returned, InRange
  <2>2. \A q \in Ranks : Holding(q)' = Holding(q)
    BY <1>7, HoldingKept DEF RankStep
  <2>3. Started
    BY <1>7, EnteredStarted DEF LandGet, Entered, IInv, InFlight
  <2>4. Started'
    BY <1>7, <2>3 DEF LandGet, Started
  <2> QED
    BY <1>7, <2>1, <2>2, <2>3, <2>4, SameHolding DEF LandGet, IInv
<1>4. ASSUME NEW r \in Ranks, LandCas(r) PROVE IInv'
  <2>1. pc[r] = "test" /\ cas[r].cmp = initial[r] /\ cas[r].new = to_read[r]
    BY <1>4 DEF LandCas, IInv, InFlight
  <2>2. Started /\ Started'
    BY <1>4, <2>1, EnteredStarted DEF LandCas, Entered, Started
  <2>3. to_read[r] = initial[r] + 1 /\ initial[r] <= window /\ to_read[r] \in Locs
    BY <2>1 DEF IInv, Indices, Entered, InRange
  <2>4. Rest'
    <3>1. window \in Int /\ window' \in Int /\ window <= window'
      BY <1>4, <2>1, <2>3 DEF LandCas
    <3>2. \A q \in Ranks : initial[q] \in Int
      BY SMTT(20)
    <3>3. Indices'
      BY <1>4, <3>1, <3>2 DEF LandCas, IInv, Indices, Entered
    <3> QED
      BY <1>4, <2>1, <3>3 DEF LandCas, IInv, Collective, InFlight, Entered
  <2>5. \A q \in Ranks \ {r} : Holding(q)' = Holding(q)
    BY <1>4, SwapGains
  <2>6. CASE Holding(r)' = Holding(r) /\ UNCHANGED window
    BY <2>2, <2>4, <2>5, <2>6, SameHolding DEF IInv
  <2>7. CASE /\ window' = to_read[r] /\ to_read[r] = window + 1
             /\ \A q \in Ranks : to_read[r] \notin Holding(q)
             /\ Holding(r)' = Holding(r) \cup {to_read[r]}
    <3>1. Exclusive'
      BY <2>5, <2>7 DEF IInv, Exclusive
    <3>2. \A l \in Locs : l <= window' <=> \E q \in Ranks : l \in Holding(q)'
      <4> SUFFICES ASSUME NEW l \in Locs
                   PROVE  l <= window' <=> \E q \in Ranks : l \in Holding(q)'
        OBVIOUS
      <4>1. l <= window' <=> (l <= window \/ l = to_read[r])
        BY <2>3, <2>7
      <4>2. l <= window <=> \E q \in Ranks : l \in Holding(q)
        BY <2>2 DEF IInv, Counted
      <4>3. (\E q \in Ranks : l \in Holding(q)')
              <=> (l = to_read[r] \/ \E q \in Ranks : l \in Holding(q))
        <5>1. Holding(r)' = Holding(r) \cup {to_read[r]}
          BY <2>7
        <5>2. \A q \in Ranks : q # r => Holding(q)' = Holding(q)
          BY <2>5
        <5>3. ASSUME NEW q \in Ranks, l \in Holding(q)
              PROVE  \E p \in Ranks : l \in Holding(p)'
          BY <5>1, <5>2, <5>3
        <5>4. ASSUME NEW q \in Ranks, l \in Holding(q)'
              PROVE  l = to_read[r] \/ l \in Holding(q)
          BY <5>1, <5>2, <5>4
        <5> QED
          BY <5>1, <5>3, <5>4
      <4> QED
        BY <4>1, <4>2, <4>3
    <3> QED
      BY <2>2, <2>3, <2>4, <2>7, <3>1, <3>2 DEF IInv, Counted
  <2> QED
    BY <1>4, <2>6, <2>7, SwapGains
<1>12. CASE UNCHANGED vars
  <2>1. Rest'
    BY <1>12 DEF vars, IInv, Collective, InFlight, Indices, Entered
  <2>2. \A q \in Ranks : Holding(q)' = Holding(q)
    BY <1>12 DEF vars, Holding, Claiming, Won
  <2>3. UNCHANGED <<window, pc>>
    BY <1>12 DEF vars
  <2> QED
    BY <2>1, <2>2, <2>3 DEF IInv, Counted, Exclusive, Started, Entered
<1> QED
  BY <1>1, <1>2, <1>3, <1>4, <1>5, <1>6, <1>7, <1>8, <1>9, <1>10, <1>11, <1>12
  DEF Next, RankStep, Land

LEMMA Inductive ==
  ASSUME CompletesAtCall
  PROVE  /\ Init => TypeOK /\ IInv
         /\ TypeOK /\ IInv /\ [Next]_vars => TypeOK' /\ IInv'
BY TypeInit, InvInit, TypeStep, InvStep DEF IInv

(* The window counts the claims: the strengthening holds in every state.   *)
THEOREM WindowCounts ==
  ASSUME CompletesAtCall
  PROVE  Spec => []IInv
BY Inductive, PTL DEF Spec

(* No location is ever claimed, read or being read by two ranks, for every *)
(* number of ranks and locations: the ground on which unpack_worker_data   *)
(* inserts a worker's data without looking for an older entry.             *)
THEOREM ClaimsExclusive ==
  ASSUME CompletesAtCall
  PROVE  Spec => []Exclusive
<1>1. IInv => Exclusive
  BY DEF IInv
<1> QED
  BY Inductive, <1>1, PTL DEF Spec

(* A rank leaves the loop only after every location was claimed.           *)
THEOREM NothingSkipped ==
  ASSUME CompletesAtCall
  PROVE  Spec => []NoneSkipped
<1>1. TypeOK /\ IInv => NoneSkipped
  <2> SUFFICES ASSUME TypeOK, IInv, NEW r \in Ranks, pc[r] = "done", NEW l \in Locs
               PROVE  \E q \in Ranks : l \in Holding(q)
    BY DEF NoneSkipped
  <2>1. Started
    BY EnteredStarted DEF Entered
  <2>2. to_read[r] >= NumLocs /\ to_read[r] = initial[r] + 1 /\ initial[r] <= window
    BY DEF IInv, Indices, Entered
  <2>3. l <= window
    <3>1. window \in Int /\ initial[r] \in Int /\ to_read[r] \in Int
      BY DEF TypeOK
    <3> QED
      BY <2>2, <3>1
  <2> QED
    BY <2>1, <2>3 DEF IInv, Counted
<1> QED
  BY Inductive, <1>1, PTL DEF Spec

-----------------------------------------------------------------------------
(* The locations a rank has read lie below the one it tries next.          *)
ReadBelow == \A r \in Ranks : \A l \in have[r] : l <= initial[r]

LEMMA ReadBelowStep ==
  ASSUME TypeOK, IInv, ReadBelow, [Next]_vars
  PROVE  ReadBelow'
<1> USE DEF TypeOK, ReadBelow
<1>1. ASSUME NEW r \in Ranks, ReadEvents(r) PROVE ReadBelow'
  <2>1. to_read[r] = initial[r] + 1 /\ initial[r] \in Int
    BY <1>1 DEF ReadEvents, IInv, Indices
  <2>2. \A l \in have[r] : l \in Int /\ l <= to_read[r]
    BY <2>1
  <2> QED
    BY <1>1, <2>1, <2>2 DEF ReadEvents
<1>2. ASSUME NEW r \in Ranks, LandGet(r) PROVE ReadBelow'
  <2>1. initial[r] <= window /\ initial[r] \in Int /\ window \in Int
    <3>1. pc[r] = "next"
      BY <1>2 DEF LandGet, IInv, InFlight
    <3>2. initial[r] \in Values /\ window \in Values
      OBVIOUS
    <3>3. initial[r] \in Int /\ window \in Int
      BY <3>2
    <3>4. initial[r] <= window
      BY <3>1 DEF IInv, Indices, Entered
    <3> QED
      BY <3>3, <3>4
  <2>2. \A l \in have[r] : l \in Int /\ l <= window
    BY <2>1
  <2> QED
    BY <1>2, <2>2 DEF LandGet
<1>3. ASSUME NEW r \in Ranks, \/ Allocate(r) \/ Fence(r) \/ TryClaim(r) \/ LandCas(r)
                              \/ Claimed(r) \/ Lost(r) \/ TryNext(r) \/ ReadDefs(r)
                              \/ Finish(r)
      PROVE  ReadBelow'
  <2>1. UNCHANGED <<have, initial>>
    BY <1>3 DEF Allocate, Fence, TryClaim, LandCas, Claimed, Lost, TryNext, ReadDefs, Finish
  <2> QED
    BY <2>1
<1>4. CASE UNCHANGED vars
  BY <1>4 DEF vars
<1> QED
  BY <1>1, <1>2, <1>3, <1>4 DEF Next, RankStep, Land

(* No rank reads the events of a location a second time, which add_data    *)
(* would add to its times and counts once more.                            *)
THEOREM NothingReadTwice ==
  ASSUME CompletesAtCall
  PROVE  Spec => ReadOnce
<1>1. Init => ReadBelow
  BY DEF Init, ReadBelow
<1>2. TypeOK /\ IInv /\ ReadBelow /\ [Next]_vars => ReadBelow'
  BY ReadBelowStep
<1>3. TypeOK /\ IInv /\ ReadBelow
        => \A r \in Ranks : ReadEvents(r) => to_read[r] \notin have[r]
  <2> SUFFICES ASSUME TypeOK, IInv, ReadBelow, NEW r \in Ranks, pc[r] = "events"
               PROVE  to_read[r] \notin have[r]
    BY DEF ReadEvents
  <2>1. to_read[r] = initial[r] + 1 /\ initial[r] \in Int
    BY DEF IInv, Indices, TypeOK
  <2> QED
    BY <2>1 DEF ReadBelow
<1>4. TypeOK /\ IInv /\ ReadBelow /\ [Next]_vars
        => [\A r \in Ranks : ReadEvents(r) => to_read[r] \notin have[r]]_vars
  BY <1>3
<1> QED
  BY Inductive, <1>1, <1>2, <1>4, PTL DEF Spec, ReadOnce

-----------------------------------------------------------------------------
(* The pool that the protocol implements.                                  *)
LEMMA HolderIs ==
  ASSUME Exclusive, NEW l \in Locs
  PROVE  /\ \A r \in Ranks : l \in Holding(r) => holder[l] = r
         /\ (\A r \in Ranks : l \notin Holding(r)) => holder[l] = NumRanks
<1>1. ASSUME NEW r \in Ranks, l \in Holding(r) PROVE holder[l] = r
  <2>1. \A q \in Ranks : l \in Holding(q) => q = r
    BY <1>1 DEF Exclusive
  <2>2. holder[l] = CHOOSE q \in Ranks : l \in Holding(q)
    BY <1>1 DEF holder
  <2> QED
    BY <1>1, <2>1, <2>2
<1> QED
  BY <1>1 DEF holder

LEMMA HolderIsNext ==
  ASSUME Exclusive', NEW l \in Locs
  PROVE  /\ \A r \in Ranks : l \in Holding(r)' => holder'[l] = r
         /\ (\A r \in Ranks : l \notin Holding(r)') => holder'[l] = NumRanks
<1>1. ASSUME NEW r \in Ranks, l \in Holding(r)' PROVE holder'[l] = r
  <2>1. \A q \in Ranks : l \in Holding(q)' => q = r
    BY <1>1 DEF Exclusive
  <2>2. holder'[l] = CHOOSE q \in Ranks : l \in Holding(q)'
    BY <1>1 DEF holder
  <2> QED
    BY <1>1, <2>1, <2>2
<1> QED
  BY <1>1 DEF holder

LEMMA SameHolder ==
  ASSUME Exclusive, Exclusive', \A q \in Ranks : Holding(q)' = Holding(q)
  PROVE  UNCHANGED holder
<1>1. \A l \in Locs : holder'[l] = holder[l]
  BY HolderIs, HolderIsNext
<1>2. holder = [l \in Locs |-> holder[l]] /\ holder' = [l \in Locs |-> holder'[l]]
  BY DEF holder
<1> QED
  BY <1>1, <1>2

(* Every step of the protocol is a step of the pool, or none: a location   *)
(* is taken when a swap takes effect.                                      *)
LEMMA PoolInit == TypeOK /\ Init => Pool!Init
<1> SUFFICES ASSUME TypeOK, Init PROVE Pool!Init
  OBVIOUS
<1>1. \A r \in Ranks : Holding(r) = {}
  BY DEF Init, Holding, Claiming, Won
<1>2. holder = [l \in Locs |-> NumRanks]
  BY <1>1 DEF holder
<1>3. left = {}
  BY DEF Init, left
<1> QED
  BY <1>2, <1>3 DEF Pool!Init

LEMMA PoolStep ==
  ASSUME CompletesAtCall, TypeOK, IInv, IInv', [Next]_vars
  PROVE  [Pool!Next]_<<holder, left>>
<1> USE DEF TypeOK, Labels
<1>1. ASSUME NEW r \in Ranks, RankStep(r) \/ LandGet(r)
      PROVE  UNCHANGED holder
  BY <1>1, HoldingKept, SameHolder DEF IInv
<1>2. ASSUME NEW r \in Ranks, Finish(r) PROVE Pool!Leave(r)
  <2>1. UNCHANGED holder
    BY <1>1, <1>2 DEF RankStep
  <2>2. left' = left \cup {r}
    BY <1>2 DEF Finish, left
  <2>3. \A l \in Locs : holder[l] # NumRanks
    <3> SUFFICES ASSUME NEW l \in Locs PROVE holder[l] # NumRanks
      OBVIOUS
    <3>1. Started
      BY <1>2, EnteredStarted DEF Finish, Entered
    <3>2. initial[r] \in Values /\ window \in Values /\ to_read[r] \in Nat
      OBVIOUS
    <3>3. l <= window
      BY <1>2, <3>2 DEF Finish, IInv, Indices, Entered
    <3>4. PICK q \in Ranks : l \in Holding(q)
      BY <3>1, <3>3 DEF IInv, Counted
    <3>5. holder[l] = q
      BY <3>4, HolderIs DEF IInv
    <3> QED
      BY <3>5
  <2> QED
    BY <2>1, <2>2, <2>3 DEF Pool!Leave
<1>3. ASSUME NEW r \in Ranks,
             \/ Allocate(r) \/ Fence(r) \/ TryClaim(r) \/ Claimed(r) \/ Lost(r)
             \/ TryNext(r) \/ ReadDefs(r) \/ ReadEvents(r) \/ LandGet(r)
      PROVE  UNCHANGED <<holder, left>>
  <2>1. UNCHANGED holder
    BY <1>1, <1>3 DEF RankStep
  <2>2. UNCHANGED left
    BY <1>3 DEF left, Allocate, Fence, TryClaim, Claimed, Lost, TryNext, ReadDefs,
                ReadEvents, LandGet
  <2> QED
    BY <2>1, <2>2
<1>4. ASSUME NEW r \in Ranks, LandCas(r) PROVE [Pool!Next]_<<holder, left>>
  <2>1. pc[r] = "test" /\ UNCHANGED left
    BY <1>4 DEF LandCas, IInv, InFlight, left
  <2>2. CASE Holding(r)' = Holding(r)
    <3>1. \A q \in Ranks : Holding(q)' = Holding(q)
      BY <1>4, <2>2, SwapGains
    <3> QED
      BY <2>1, <3>1, SameHolder DEF IInv
  <2>3. CASE /\ to_read[r] \in Locs
             /\ \A q \in Ranks : to_read[r] \notin Holding(q)
             /\ Holding(r)' = Holding(r) \cup {to_read[r]}
    <3>1. r \notin left
      BY <2>1 DEF left
    <3>2. holder[to_read[r]] = NumRanks
      BY <2>3, HolderIs DEF IInv
    <3>3. holder'[to_read[r]] = r
      BY <2>3, HolderIsNext DEF IInv
    <3>4. ASSUME NEW l \in Locs \ {to_read[r]} PROVE holder'[l] = holder[l]
      <4>1. \A q \in Ranks : l \in Holding(q)' <=> l \in Holding(q)
        BY <1>4, <2>3, <3>4, SwapGains
      <4>2. CASE \E q \in Ranks : l \in Holding(q)
        BY <4>1, <4>2, HolderIs, HolderIsNext DEF IInv
      <4>3. CASE \A q \in Ranks : l \notin Holding(q)
        BY <4>1, <4>3, HolderIs, HolderIsNext DEF IInv
      <4> QED
        BY <4>2, <4>3
    <3>5. holder' = [holder EXCEPT ![to_read[r]] = r]
      <4>1. holder = [l \in Locs |-> holder[l]] /\ holder' = [l \in Locs |-> holder'[l]]
        BY DEF holder
      <4> QED
        BY <2>3, <3>3, <3>4, <4>1
    <3>6. Pool!Take(r, to_read[r])
      BY <2>1, <2>3, <3>1, <3>2, <3>5 DEF Pool!Take
    <3> QED
      BY <2>3, <3>6 DEF Pool!Next
  <2> QED
    BY <1>4, <2>2, <2>3, SwapGains
<1>5. CASE UNCHANGED vars
  <2>1. UNCHANGED <<Exclusive, left>> /\ \A q \in Ranks : Holding(q)' = Holding(q)
    BY <1>5 DEF vars, left, Exclusive, Holding, Claiming, Won
  <2> QED
    BY <2>1, SameHolder DEF IInv
<1> QED
  BY <1>2, <1>3, <1>4, <1>5 DEF Next, RankStep, Land, Pool!Next

(* With one-sided calls that complete when they return, the protocol       *)
(* implements the atomic pool that Profiler puts in its place.             *)
THEOREM ImplementsPool ==
  ASSUME CompletesAtCall
  PROVE  Spec => PoolSpec
<1>1. Init => Pool!Init
  BY PoolInit, TypeInit
<1>2. TypeOK /\ IInv /\ TypeOK' /\ IInv' /\ [Next]_vars => [Pool!Next]_<<holder, left>>
  BY PoolStep
<1> QED
  BY Inductive, <1>1, <1>2, PTL DEF Spec, PoolSpec, Pool!Spec
=============================================================================
