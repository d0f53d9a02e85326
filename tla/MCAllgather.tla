---------------------------- MODULE MCAllgather ----------------------------
(* Instances of Allgather for TLC. *)
EXTENDS AllgatherInv

Int32 == 2147483647

TwoBytes == [p \in Objs |-> 2]

\* A count short of the dump, its own size, one more, and one that wraps.
AnyLengths == {0, 1, 2, Int32}
\* strlen of the dump.
StrlenLengths == {2}
=============================================================================
