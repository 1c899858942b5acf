----------------------------- MODULE MCProfiler -----------------------------
(* Instances of Profiler: a trace with one call path and messages.         *)
EXTENDS Profiler

OneNode == {"main"}
TwoLocs == 1 .. 2
Messages == [e \in Nodes \X Locs |->
              [comm |-> {"p2p"},
               metric |-> [type |-> "none", incl |-> "zero", excl |-> "zero"]]]
=============================================================================
