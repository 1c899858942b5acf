-------------------------------- MODULE Sums --------------------------------
(***************************************************************************)
(* Sums of natural numbers, for statements that two accounts of the same   *)
(* events agree.  A sum is the number of units in it, which makes it a     *)
(* cardinality: facts about finite sets are all that proofs need.          *)
(***************************************************************************)
EXTENDS Integers, FiniteSets

(* The units that make up the numbers f[x].                                *)
Units(f) == UNION {{x} \X (1 .. f[x]) : x \in DOMAIN f}

(* The sum of f[x] over all x for which f is defined.                      *)
Total(f) == Cardinality(Units(f))
=============================================================================
