----------------------------- MODULE WorkClaim -----------------------------
(***************************************************************************)
(* How the analysis ranks share the locations of a trace: the work-sharing *)
(* branch of OTF2Reader::readEvents (OTF2Reader.cpp, the part compiled     *)
(* under OTFPROFILE_MPI).  Rank 0 exposes one 64-bit integer, the index of *)
(* the last location claimed; a rank claims location to_read by swapping   *)
(* that integer from initial to to_read with MPI_Compare_and_swap, and, if *)
(* another rank was faster, fetches the integer with MPI_Get and tries the *)
(* index behind it.                                                        *)
(*                                                                         *)
(* The loop calls neither MPI_Win_flush nor MPI_Win_flush_local, so MPI    *)
(* does not promise that a call has taken effect, or that its result has   *)
(* arrived, when the next statement reads it.  CompletesAtCall chooses     *)
(* between an MPI library that completes these calls before it returns and *)
(* one that completes them at any moment up to MPI_Win_unlock_all.         *)
(*                                                                         *)
(* The uint64_t value -1 (all ones) is the integer -1 here: adding one     *)
(* gives 0 in both.                                                        *)
(***************************************************************************)
EXTENDS Integers, FiniteSets

CONSTANTS
  NumRanks,          \* metaData.numRanks
  NumLocs,           \* locationList.size(), the same on every rank
  CompletesAtCall    \* does the MPI library complete one-sided calls at once?

ASSUME NumRanksAssumption == NumRanks \in Nat \ {0}
ASSUME NumLocsAssumption == NumLocs \in Nat
ASSUME CompletionAssumption == CompletesAtCall \in BOOLEAN

Ranks == 0 .. NumRanks - 1
Locs == 0 .. NumLocs - 1

NoLoc == -1                            \* the value before the first claim
Trash == NumLocs                       \* memory nobody has written yet
Values == {NoLoc, Trash} \cup Locs
NoCas == [cmp |-> Trash, new |-> Trash]   \* no compare-and-swap under way

VARIABLES
  window,      \* the integer that rank 0 exposes
  to_read,     \* rank -> the index it tries to claim, or has claimed
  initial,     \* rank -> what it believes the window holds
  result,      \* rank -> where MPI_Compare_and_swap stores the old value
  cas,         \* rank -> its compare-and-swap that has not taken effect yet
  get,         \* rank -> does it have an MPI_Get that has not arrived yet?
  pc,          \* rank -> where it is in readEvents
  have,        \* rank -> the locations whose events it has read
  unreadable   \* the locations whose local definitions cannot be read

vars == <<window, to_read, initial, result, cas, get, pc, have, unreadable>>

Labels == {"alloc", "fence", "loop", "test", "defs", "events", "next",
           "done", "failed"}

TypeOK ==
  /\ window \in Values
  /\ to_read \in [Ranks -> Nat]
  /\ initial \in [Ranks -> Values]
  /\ result \in [Ranks -> Values]
  /\ cas \in [Ranks -> [cmp : Values, new : Locs] \cup {NoCas}]
  /\ get \in [Ranks -> BOOLEAN]
  /\ pc \in [Ranks -> Labels]
  /\ have \in [Ranks -> SUBSET Locs]
  /\ unreadable \in SUBSET Locs

-----------------------------------------------------------------------------
(* result is not initialised: before the first call it may or may not be   *)
(* equal to initial, so both cases are initial states.                     *)
Init ==
  /\ window = Trash
  /\ to_read = [r \in Ranks |-> 0]
  /\ initial = [r \in Ranks |-> NoLoc]
  /\ result \in [Ranks -> {NoLoc, Trash}]
  /\ cas = [r \in Ranks |-> NoCas]
  /\ get = [r \in Ranks |-> FALSE]
  /\ pc = [r \in Ranks |-> "alloc"]
  /\ have = [r \in Ranks |-> {}]
  /\ unreadable \in SUBSET Locs

Goto(r, label) == pc' = [pc EXCEPT ![r] = label]

(* MPI_Win_allocate; rank 0 also puts the first value under its own        *)
(* exclusive lock.                                                         *)
Allocate(r) ==
  /\ pc[r] = "alloc"
  /\ window' = IF r = 0 THEN NoLoc ELSE window
  /\ Goto(r, "fence")
  /\ UNCHANGED <<to_read, initial, result, cas, get, have, unreadable>>

(* MPI_Win_fence is collective: nobody leaves it before all have entered.  *)
Fence(r) ==
  /\ pc[r] = "fence"
  /\ \A q \in Ranks : pc[q] # "alloc"
  /\ Goto(r, "loop")
  /\ UNCHANGED <<window, to_read, initial, result, cas, get, have, unreadable>>

(* The head of the while loop calls MPI_Compare_and_swap.                  *)
TryClaim(r) ==
  /\ pc[r] = "loop"
  /\ to_read[r] < NumLocs
  /\ cas[r] = NoCas
  /\ cas' = [cas EXCEPT ![r] = [cmp |-> initial[r], new |-> to_read[r]]]
  /\ Goto(r, "test")
  /\ UNCHANGED <<window, to_read, initial, result, get, have, unreadable>>

(* Slip: a plain put where the swap is, the old value is not compared.     *)
LandPut(r) ==
  /\ cas[r] # NoCas
  /\ result' = [result EXCEPT ![r] = window]
  /\ window' = cas[r].new
  /\ cas' = [cas EXCEPT ![r] = NoCas]
  /\ UNCHANGED <<to_read, initial, get, pc, have, unreadable>>

(* The MPI library carries out the compare-and-swap in rank 0's memory and *)
(* delivers the old value.                                                 *)
LandCas(r) ==
  /\ cas[r] # NoCas
  /\ result' = [result EXCEPT ![r] = window]
  /\ window' = IF window = cas[r].cmp THEN cas[r].new ELSE window
  /\ cas' = [cas EXCEPT ![r] = NoCas]
  /\ UNCHANGED <<to_read, initial, get, pc, have, unreadable>>

Returned(r) == CompletesAtCall => cas[r] = NoCas /\ ~get[r]

(* result == initial: the location is ours.                                *)
Claimed(r) ==
  /\ pc[r] = "test"
  /\ Returned(r)
  /\ result[r] = initial[r]
  /\ Goto(r, "defs")
  /\ UNCHANGED <<window, to_read, initial, result, cas, get, have, unreadable>>

(* Another rank was faster: ask for the current value.                     *)
Lost(r) ==
  /\ pc[r] = "test"
  /\ Returned(r)
  /\ result[r] # initial[r]
  /\ ~get[r]
  /\ get' = [get EXCEPT ![r] = TRUE]
  /\ Goto(r, "next")
  /\ UNCHANGED <<window, to_read, initial, result, cas, have, unreadable>>

(* Slip: a rank that lost the swap does not learn the current value.       *)
LandGetStale(r) ==
  /\ get[r]
  /\ get' = [get EXCEPT ![r] = FALSE]
  /\ UNCHANGED <<window, to_read, initial, result, cas, pc, have, unreadable>>

LandGet(r) ==
  /\ get[r]
  /\ initial' = [initial EXCEPT ![r] = window]
  /\ get' = [get EXCEPT ![r] = FALSE]
  /\ UNCHANGED <<window, to_read, result, cas, pc, have, unreadable>>

(* Slip: off by one.                                                       *)
TryNextButOne(r) ==
  /\ pc[r] = "next"
  /\ Returned(r)
  /\ to_read' = [to_read EXCEPT ![r] = initial[r] + 2]
  /\ Goto(r, "loop")
  /\ UNCHANGED <<window, initial, result, cas, get, have, unreadable>>

TryNext(r) ==
  /\ pc[r] = "next"
  /\ Returned(r)
  /\ to_read' = [to_read EXCEPT ![r] = initial[r] + 1]
  /\ Goto(r, "loop")
  /\ UNCHANGED <<window, initial, result, cas, get, have, unreadable>>

(* OTF2_Reader_ReadAllLocalDefinitions, _CloseDefReader, _GetEvtReader: if *)
(* one of them fails readEvents returns false (and main calls MPI_Abort).  *)
ReadDefs(r) ==
  /\ pc[r] = "defs"
  /\ Goto(r, IF to_read[r] \in unreadable THEN "failed" ELSE "events")
  /\ UNCHANGED <<window, to_read, initial, result, cas, get, have, unreadable>>

(* Slip: to_read is not advanced.                                          *)
ReadEventsAgain(r) ==
  /\ pc[r] = "events"
  /\ have' = [have EXCEPT ![r] = @ \cup {to_read[r]}]
  /\ initial' = [initial EXCEPT ![r] = to_read[r]]
  /\ Goto(r, "loop")
  /\ UNCHANGED <<window, to_read, result, cas, get, unreadable>>

(* OTF2_Reader_ReadLocalEvents; an error in it is printed and ignored.     *)
ReadEvents(r) ==
  /\ pc[r] = "events"
  /\ have' = [have EXCEPT ![r] = @ \cup {to_read[r]}]
  /\ initial' = [initial EXCEPT ![r] = to_read[r]]
  /\ to_read' = [to_read EXCEPT ![r] = @ + 1]
  /\ Goto(r, "loop")
  /\ UNCHANGED <<window, result, cas, get, unreadable>>

(* Slip: the last location is left out.                                    *)
FinishEarly(r) ==
  /\ pc[r] = "loop"
  /\ to_read[r] >= NumLocs - 1
  /\ cas[r] = NoCas /\ ~get[r]
  /\ Goto(r, "done")
  /\ UNCHANGED <<window, to_read, initial, result, cas, get, have, unreadable>>

(* The loop ends and MPI_Win_unlock_all completes what is still pending.   *)
(* MPI_Win_free, which waits for all ranks behind it, changes nothing that *)
(* a rank reads or writes, and is left out.                                *)
Finish(r) ==
  /\ pc[r] = "loop"
  /\ to_read[r] >= NumLocs
  /\ cas[r] = NoCas /\ ~get[r]
  /\ Goto(r, "done")
  /\ UNCHANGED <<window, to_read, initial, result, cas, get, have, unreadable>>

RankStep(r) ==
  \/ Allocate(r) \/ Fence(r) \/ TryClaim(r) \/ Claimed(r) \/ Lost(r)
  \/ TryNext(r) \/ ReadDefs(r) \/ ReadEvents(r) \/ Finish(r)

Land(r) == LandCas(r) \/ LandGet(r)

Next == \E r \in Ranks : RankStep(r) \/ Land(r)

(* A rank keeps running (MPI ranks are processes of their own), and a      *)
(* one-sided call takes effect eventually.                                 *)
Fairness == \A r \in Ranks : WF_vars(RankStep(r)) /\ WF_vars(Land(r))

Spec == Init /\ [][Next]_vars /\ Fairness

-----------------------------------------------------------------------------
(* The locations a rank has read, is reading, or has claimed: a claim      *)
(* counts from the moment the swap succeeds.                               *)
Won(r) == pc[r] = "test" /\ cas[r] = NoCas /\ result[r] = initial[r]
Claiming(r) == Won(r) \/ pc[r] \in {"defs", "events", "failed"}
Holding(r) ==
  {l \in Locs : l \in have[r] \/ (Claiming(r) /\ l = to_read[r])}

(* "An analysis rank is working on trace ranks exclusively"                *)
(* (reduce_data.cpp:253-254): no location is claimed by two ranks, however *)
(* their swaps, fetches and reads interleave.                              *)
Exclusive ==
  \A q, r \in Ranks : q # r => Holding(q) \cap Holding(r) = {}

(* A rank leaves the loop only when every location is in somebody's hands: *)
(* none is skipped by the jump to initial + 1 after a lost swap.           *)
NoneSkipped ==
  (\E r \in Ranks : pc[r] = "done")
    => \A l \in Locs : \E q \in Ranks : l \in Holding(q)

(* What makes Exclusive and NoneSkipped inductive when one-sided calls     *)
(* complete at once: the window counts the claims.                         *)
Started == pc[0] # "alloc"
Entered(r) == pc[r] \notin {"alloc", "fence"}

InRange ==
  \A r \in Ranks :
    pc[r] \in {"test", "defs", "events", "failed"} => to_read[r] \in Locs

Collective ==
  \A r \in Ranks :
    /\ Entered(r) => \A q \in Ranks : pc[q] # "alloc"
    /\ ~Entered(r) => /\ have[r] = {} /\ cas[r] = NoCas /\ ~get[r]
                      /\ initial[r] = NoLoc /\ to_read[r] = 0

InFlight ==
  \A r \in Ranks :
    /\ cas[r] # NoCas => /\ pc[r] = "test"
                         /\ cas[r].cmp = initial[r] /\ cas[r].new = to_read[r]
    /\ get[r] => pc[r] = "next"

Indices ==
  \A r \in Ranks :
    /\ pc[r] # "next" => to_read[r] = initial[r] + 1
    /\ Entered(r) => initial[r] <= window
    /\ pc[r] = "done" => to_read[r] >= NumLocs

Counted ==
  /\ Started => window \in {NoLoc} \cup Locs
  /\ ~Started => \A r \in Ranks : ~Entered(r)
  /\ Started => \A l \in Locs : l <= window <=> \E r \in Ranks : l \in Holding(r)

IInv == InRange /\ Collective /\ InFlight /\ Indices /\ Counted /\ Exclusive

(* A rank never reads the events of one location twice: add_data would     *)
(* add its times and counts a second time.                                 *)
ReadOnce ==
  [][\A r \in Ranks : ReadEvents(r) => to_read[r] \notin have[r]]_vars

(* Every rank leaves the loop or gives up with an error, although a rank   *)
(* can lose every swap it tries.                                           *)
Termination == <>(\A r \in Ranks : pc[r] \in {"done", "failed"})

-----------------------------------------------------------------------------
(* The abstract pool: taking a location is one atomic step.                *)
holder == [l \in Locs |->
             IF \E r \in Ranks : l \in Holding(r)
             THEN CHOOSE r \in Ranks : l \in Holding(r)
             ELSE NumRanks]
left == {r \in Ranks : pc[r] = "done"}

Pool == INSTANCE LocationPool WITH Nobody <- NumRanks
PoolSpec == Pool!Spec
=============================================================================
