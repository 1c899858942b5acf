-------------------------- MODULE MCAccessPattern --------------------------
(* Instances of AccessPattern: accesses that are contiguous, strided, or   *)
(* run backwards.                                                          *)
EXTENDS AccessPattern
Jumps == {-3, 0, 1}
=============================================================================
