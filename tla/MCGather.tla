------------------------------ MODULE MCGather ------------------------------
(* Instances of Gather for TLC. *)
EXTENDS GatherInv

Int32 == 2147483647

TwoBytes == [o \in Objs |-> 2]

\* A length short of the dump, one short of it in bcast only, its own size, and
\* one that wraps.
AnyLengths == {0, 1, 2, Int32}

\* Any two rounds, the root at either end, and three gathers in a row.
Rounds == {"gather", "bcast", "report"} \X {0, N - 1}
TwoRounds == {<<a, b>> : a, b \in Rounds} \cup {<<<<"gather", 1>>, <<"gather", 1>>, <<"gather", 1>>>>}
=============================================================================
