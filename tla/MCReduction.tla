---------------------------- MODULE MCReduction ----------------------------
(* Instances of Reduction for TLC. *)
EXTENDS ReductionInv

Int32 == 2147483647

\* The dump of a union of arrays (examples/op.rb) grows.
Growing == [s \in Objs |-> 2 + Cardinality(s)]

\* Any two of the methods, one after the other, with the root at either end.
TwoOfAny == {<<a, b>> : a, b \in {<<"reduce", N - 1>>, <<"allreduce", 0>>, <<"scan", 0>>,
                                  <<"reduce_scatter", 0>>}}
Union == {<<<<"allreduce", 0>>>>}

\* A scalar, and an array that does not go with it, nor with the counts.
SomeLens == {-1, 2}
Scalar   == {-1}

\* A length no buffer has, one short of a dump, one that covers it, one that
\* covers a union of two, and one that wraps.
AnyLengths  == {-2, -1, 3, 4, Int32}
FullLengths == {3}
=============================================================================
