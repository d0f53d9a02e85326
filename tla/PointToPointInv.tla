--------------------------- MODULE PointToPointInv ---------------------------
(***************************************************************************)
(* The inductive invariant behind the safety properties of PointToPoint.   *)
(***************************************************************************)
EXTENDS PointToPoint

Sending(l) == out[l.src] = l /\ pc[l.src] = "size"

Reading(l) == first[l.dst] = Size(l) /\ second[l.dst] = None

\* Letters some process or the wire still holds.
Live == {m.of : m \in wire}
        \cup {out[p] : p \in {q \in Proc : out[q] # None}}
        \cup {first[p].of : p \in {q \in Proc : first[q] # None}}

\* The local state of a call follows its program counter.
CallShape ==
  \A p \in Proc :
    /\ pc[p] = "idle" => out[p] = None /\ from[p] = None
    /\ flying[p] => out[p] # None
    /\ await[p] => from[p] # None
    /\ first[p] # None <=> from[p] # None /\ ~(pc[p] = "size" /\ await[p])
    /\ second[p] # None <=> from[p] # None /\ pc[p] = "data" /\ ~await[p]
    /\ out[p] # None => out[p].src = p /\ out[p].n + 1 = calls[p]
    /\ out[p] # None /\ from[p] # None =>
         from[p] # AnySource /\ \A len \in Lengths : Count(len) >= 0

\* A letter is known by its sender and number.
Fresh ==
  /\ \A l \in Live : l.n < calls[l.src]
  /\ \A k, l \in Live : k.src = l.src /\ k.n = l.n => k = l

\* Wherever the size of a letter is, its data is not far.
SizeBeforeData ==
  /\ \A m \in wire :
       IF m.kind = "size"
       THEN Whole(m.of) => Data(m.of) \in wire \/ Sending(m.of)
       ELSE Whole(m.of) /\ (Size(m.of) \in wire \/ Reading(m.of))
  /\ \A p \in Proc : out[p] # None /\ pc[p] = "size" =>
       /\ Data(out[p]) \notin wire
       /\ Whole(out[p]) => Size(out[p]) \in wire \/ Reading(out[p])

\* p has taken the size of l: it is reading l and nothing else.
Reads(p, l) ==
  /\ first[p] = Size(l) /\ first[p] \notin wire
  /\ length[p] = l.len
  /\ Accepts(p, from[p], tagf[p], first[p])
  /\ \A b \in wire : Accepts(p, l.src, tagf[p], b) => l.n <= b.of.n
  /\ pc[p] = "data" => from[p] = l.src /\ Whole(l)
  /\ second[p] = None => (Whole(l) => Data(l) \in wire \/ Sending(l))
  /\ second[p] # None => second[p] = Data(l)

ReaderOk == \A p \in Proc : first[p] # None => Reads(p, first[p].of)

\* Inductive under Disciplined: it is what Pairing, NoOrphans and the
\* refinement rest on.
IInv == TypeOK /\ CallShape /\ Fresh /\ SizeBeforeData /\ ReaderOk
=============================================================================
