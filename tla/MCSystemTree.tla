---------------------------- MODULE MCSystemTree ----------------------------
(* Values of SystemTree's constants: a class that is a node, one that is   *)
(* none, a name, and no name.                                              *)
EXTENDS SystemTree

MCTexts == <<<<"machine">>, <<"node">>, <<"n1">>, <<>>>>
=============================================================================
