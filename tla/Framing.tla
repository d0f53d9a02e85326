------------------------------ MODULE Framing ------------------------------
(***************************************************************************)
(* How the binding puts a Ruby object on the wire: its Marshal dump as     *)
(* length + 1 bytes, after a message that holds the int "length" (all the  *)
(* send and receive functions of src/mpi_comm.c and src/mpi_request.c).    *)
(*                                                                         *)
(* No sending function assigns "length" between its declaration and its    *)
(* use: a sender transmits some int, here any member of Lengths.           *)
(*                                                                         *)
(* StringValueCStr raises, before anything is sent, for an object whose    *)
(* dump contains a null byte: Objs holds the others.                       *)
(***************************************************************************)
EXTENDS MpiMatching

CONSTANTS Objs,       \* objects the program sends
          DumpLen,    \* DumpLen[o]: bytes of Marshal.dump(o)
          Lengths,    \* values the variable "length" may hold
          MaxInt,     \* largest int
          IntBytes,   \* sizeof(int)
          Raised      \* an exception instead of an object

ASSUME IntsOk  == /\ MaxInt \in Nat /\ IntBytes \in Nat
                  /\ Lengths \subseteq -MaxInt - 1 .. MaxInt
ASSUME DumpsOk == DumpLen \in [Objs -> Nat \ {0}] /\ Raised \notin Objs

CountShort(len) == len   \* mutant: no room for the terminator

\* length + 1 in an int.
Count(len) == IF len = MaxInt THEN -MaxInt - 1 ELSE len + 1

\* MPI and ALLOC_N reject a negative count.
Whole(l) == Count(l.len) >= 0

Bytes(m) == IF m.kind = "size" THEN IntBytes ELSE Count(m.of.len)

\* The values a received message leaves in an int.
Stored(m) == IF m.kind = "size" THEN {m.of.len} ELSE Lengths

\* What Marshal.load makes of the bytes of m: trailing bytes do not matter.
Load(m) ==
  IF m.kind = "data" /\ DumpLen[m.of.obj] <= Bytes(m) THEN m.of.obj ELSE Raised

\* Every length covers its object's dump, as strlen(dump) would.
Covering == \A len \in Lengths, o \in Objs : Count(len) >= DumpLen[o]
=============================================================================
