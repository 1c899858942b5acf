------------------------------ MODULE MCReduce ------------------------------
(* Instances of Reduce: one call path, and what the runs let a trace hold. *)
EXTENDS Reduce

OneNode == {"main"}
TwoLocs == 1 .. 2

Quiet == [comm |-> {}, metric |-> NoMetric]
Talking == [comm |-> {"p2p"}, metric |-> NoMetric]
Counting(t) == [comm |-> {}, metric |-> [type |-> t, incl |-> "incl", excl |-> "excl"]]

(* Every way to leave out an entry or to give it message data.             *)
EveryTrace == [Entries -> {Absent, Quiet, Talking}]
(* Every location holds an integer metric of one type.                     *)
MetricTraces == {[e \in Entries |-> Counting(t)] : t \in {"UINT64", "INT64"}}
EveryTraceAndMetrics == EveryTrace \cup MetricTraces

(* Each location is read by one rank, by any.                              *)
AnyOwner == [Locs -> {{r} : r \in Ranks}]
(* Every rank reads every location.                                        *)
Everybody == {[l \in Locs |-> Ranks]}
AnyOwnerOrEverybody == AnyOwner \cup Everybody
=============================================================================
