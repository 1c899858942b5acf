--------------------------- MODULE MCTreeTransfer ---------------------------
(* Values of TreeTransfer's constants: two functions, call paths of up to  *)
(* three functions, two senders.                                           *)
EXTENDS TreeTransfer

MCFunctions == {1, 2}
Two == {<<f>> : f \in MCFunctions} \cup (MCFunctions \X MCFunctions)
Three == Two \cup (MCFunctions \X MCFunctions \X MCFunctions)

(* All trees of two levels, and some of three.                             *)
MCOwnTrees == {T \in SUBSET Two : Closed(T)}
DeepTrees == {{<<1>>, <<1, 1>>, <<1, 1, 1>>, <<1, 2>>, <<2>>},
              {<<1>>, <<1, 2>>, <<1, 2, 1>>, <<1, 2, 2>>},
              {<<2>>, <<2, 1>>, <<2, 1, 2>>, <<2, 2>>, <<2, 2, 1>>},
              Two}
MCSentTrees == <<MCOwnTrees \cup DeepTrees, DeepTrees \cup {{}}>>

(* Rank k has the locations 2k and 2k + 1, the second one below a call of  *)
(* function 1 only; function 2 has no data at the own rank.                *)
MCLocationsOf ==
  [k \in 0 .. 2 |-> [p \in Three |->
     CASE k = 0 /\ p[Len(p)] = 2 -> {}
       [] p[1] = 1 -> {2 * k, 2 * k + 1}
       [] OTHER -> {2 * k}]]
=============================================================================
