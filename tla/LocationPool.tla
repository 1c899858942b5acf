---------------------------- MODULE LocationPool ----------------------------
(***************************************************************************)
(* What sharing the trace between the ranks promises to the rest of the    *)
(* program: each location is taken at most once, by one rank, which never  *)
(* gives it back, and a rank goes on to the reduction only when nothing is *)
(* left to take.                                                           *)
(***************************************************************************)
CONSTANTS Ranks, Locs, Nobody

VARIABLES
  holder,   \* location -> the rank that took it, or Nobody
  left      \* the ranks that went on to the reduction

Init ==
  /\ holder = [l \in Locs |-> Nobody]
  /\ left = {}

(* A rank takes a location that is still in the pool.                      *)
Take(r, l) ==
  /\ r \notin left
  /\ holder[l] = Nobody
  /\ holder' = [holder EXCEPT ![l] = r]
  /\ UNCHANGED left

Leave(r) ==
  /\ \A l \in Locs : holder[l] # Nobody
  /\ left' = left \cup {r}
  /\ UNCHANGED holder

Next == \E r \in Ranks : Leave(r) \/ \E l \in Locs : Take(r, l)

Spec == Init /\ [][Next]_<<holder, left>>
=============================================================================
