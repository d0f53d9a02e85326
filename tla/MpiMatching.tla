----------------------------- MODULE MpiMatching -----------------------------
(***************************************************************************)
(* The message matching rules of the MPI library, as far as the binding    *)
(* leans on them.  The library is not part of the repository: what follows *)
(* is what comm_send, comm_recv and their siblings take for granted.       *)
(*                                                                         *)
(* The binding transmits one Ruby object as two MPI messages, the size of  *)
(* its dump and then the dump.  Both carry the letter they belong to.      *)
(***************************************************************************)
EXTENDS Integers

CONSTANTS AnySource,   \* MPI_ANY_SOURCE
          AnyTag       \* MPI_ANY_TAG

\* The two messages of a letter l.
Size(l) == [kind |-> "size", of |-> l]
Data(l) == [kind |-> "data", of |-> l]

\* The sender handed a to MPI before b.
Before(a, b) ==
  /\ a.of.src = b.of.src
  /\ \/ a.of.n < b.of.n
     \/ a.of.n = b.of.n /\ a.kind = "size" /\ b.kind = "data"

\* A receive posted at dst for (src, tag) accepts message m.
Accepts(dst, src, tag, m) ==
  /\ m.of.dst = dst
  /\ src \in {AnySource, m.of.src}
  /\ tag \in {AnyTag, m.of.tag}

\* The messages such a receive may take next: MPI messages of one sender do
\* not overtake one another, those of different senders do as they please.
Receivable(wire, dst, src, tag) ==
  {m \in wire : /\ Accepts(dst, src, tag, m)
                /\ \A b \in wire : Before(b, m) => ~Accepts(dst, src, tag, b)}
=============================================================================
