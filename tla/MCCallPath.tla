----------------------------- MODULE MCCallPath -----------------------------
(* Instances of CallPath: the time that passes between two events.         *)
EXTENDS CallPath
Steps == {0, 1}
=============================================================================
