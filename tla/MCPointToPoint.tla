--------------------------- MODULE MCPointToPoint ---------------------------
(* Instances of PointToPoint for TLC. *)
EXTENDS PointToPointInv

CONSTANTS p1, p2, p3, t1, t2, o1

OneDump == [o \in {o1} |-> 2]

Int32 == 2147483647

\* Lengths short of the dump, covering it, and one whose count wraps.
AnyLengths == {0, 1, Int32}
OneLength == {1}

\* Two workers answer a master that receives from anywhere.
Workers == {p1, p2}
FanInSendTo == [p \in Proc |-> IF p \in Workers THEN {p3} ELSE {}]
FanInRecvFrom == [p \in Proc |-> IF p \in Workers THEN {} ELSE {p1, AnySource}]
FanInCalls == [p \in Proc |-> IF p \in Workers THEN 2 ELSE 3]

Nowhere == [p \in Proc |-> {}]

\* Every process talks to every process, itself included.
AllSendTo == [p \in Proc |-> Proc]
AllRecvFrom == [p \in Proc |-> Proc \cup {AnySource}]
AllExchFrom == [p \in Proc |-> Proc]
TwoCalls == [p \in Proc |-> 2]
=============================================================================
