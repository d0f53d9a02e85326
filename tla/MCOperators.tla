---------------------------- MODULE MCOperators ----------------------------
(* Instances of Operators for TLC. *)
EXTENDS Operators, TLC

CONSTANTS a, b, c

\* One contribution unlike the others, larger or smaller: MPI orders and brackets
\* them as it likes, so it does not matter whose it is.
Odd(x, y) == [r \in Ranks |-> IF r = 0 THEN x ELSE y]

Contributions ==
  [o \in AllOps |->
     CASE o \in Ops -> {[r \in Ranks |-> {r}]}
       [] o \in {"maxloc", "minloc"} ->
            {[r \in Ranks |-> <<v[r], r>>] : v \in {Odd(1, 2), Odd(2, 1)}}
       [] o \in {"band", "bor", "bxor"} -> {Odd({1}, {1, 2})}
       [] o \in {"land", "lor", "lxor"} -> {Odd("true", "false")}
       [] o \in {"sum", "prod"} -> {Odd(1, 2)}
       [] OTHER -> {Odd(1, 2), Odd(2, 1)}]

\* Operations whose Procs are kept are interchangeable.
Interchangeable == Permutations(Kept)
=============================================================================
