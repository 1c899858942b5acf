----------------------------- MODULE MCIoEvents -----------------------------
(* Instances of IoEvents: two handles of one file, operations with one     *)
(* byte or none, seeks.                                                    *)
EXTENDS IoEvents

(* What Sums defines as a cardinality is the sum.                          *)
ASSUME TotalIsSum == \A f \in [0 .. 2 -> 0 .. 3] : Total(f) = f[0] + f[1] + f[2]

TwoHandles == {1, 2}
OneFile == [h \in TwoHandles |-> "data"]
TwoParadigms == <<"POSIX", "MPI-IO">>
MetaOrBytes == {Undef, 1}
AllSeeks == {"START", "CURRENT", "END", "HOLE"}
=============================================================================
