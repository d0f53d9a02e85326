------------------------------ MODULE GatherInv ------------------------------
(***************************************************************************)
(* The inductive invariant behind the safety properties of Gather.         *)
(***************************************************************************)
EXTENDS Gather

Tag(n) == IF plan[n][1] = "report" THEN ReportTag ELSE GATHER_TAG

\* p is the root of the round it is in, and receives.
Receiving(p) == pc[p] \in {"size", "data"}

\* The turn in which p takes the object of q.
Turn(p, q) == IF q < p THEN q ELSE q - 1

\* l is being read by its addressee.
Reading(l) == pc[l.dst] = "data" /\ first[l.dst] = Size(l)

\* Letters some process or the wire still holds.
Live == {m.of : m \in wire}
        \cup {out[p] : p \in {q \in Ranks : out[q] # None}}
        \cup {first[p].of : p \in {q \in Ranks : first[q] # None}}

\* The local state of a round follows the program counter and the plan.
Formed(p) ==
  /\ pc[p] # "out" => calls[p] \in DOMAIN plan
  /\ pc[p] = "out" => k[p] = 0
  /\ Receiving(p) => plan[calls[p]] \in {<<"gather", p>>, <<"report", p>>}
  /\ pc[p] \in {"sending", "sent", "cast", "hear"} => plan[calls[p]] # <<"gather", p>>
  /\ pc[p] = "sending" => Kind(p) = "report" /\ Root(p) # p
  /\ pc[p] = "data" => k[p] + 1 < N /\ first[p] # None
  /\ first[p] # None => pc[p] \in {"data", "raised"}
  /\ out[p] # None => out[p].src = p /\ out[p].n = calls[p]
  /\ pc[p] \in {"sending", "cast"} => out[p] # None
  /\ pc[p] = "cast" => plan[calls[p]] = <<"bcast", p>> /\ Len(cast[calls[p]]) = 1

CallShape == DOMAIN cast = DOMAIN plan /\ \A p \in Ranks : Formed(p)

\* A letter is known by its sender and round, which determine all but its length.
Letters ==
  /\ \A l \in Live : /\ l.n \in 1 .. calls[l.src] /\ l.n \in DOMAIN plan
                     /\ l.dst = plan[l.n][2] /\ l.tag = Tag(l.n) /\ l.obj = l.src
  /\ \A l1, l2 \in Live : l1.src = l2.src /\ l1.n = l2.n => l1 = l2
  /\ \A m \in wire : m.of.src # m.of.dst /\ plan[m.of.n][1] # "bcast"

\* Wherever the size of a letter is, its data is not far.
Paired(m) ==
  IF m.kind = "size"
  THEN Whole(m.of) => Data(m.of) \in wire \/ (pc[m.of.src] = "sending" /\ out[m.of.src] = m.of)
  ELSE Whole(m.of) /\ (Size(m.of) \in wire \/ Reading(m.of))
Announced(p) ==
  pc[p] = "sending" => /\ Data(out[p]) \notin wire
                       /\ Whole(out[p]) => Size(out[p]) \in wire \/ Reading(out[p])
SizeBeforeData == (\A m \in wire : Paired(m)) /\ (\A p \in Ranks : Announced(p))

\* The gather that sends l has raised, its data will not come.
CutOff(l) == l.tag = GATHER_TAG /\ pc[l.src] = "raised" /\ calls[l.src] = l.n
CutShort == \A m \in wire : m.of.tag = GATHER_TAG /\ ~Whole(m.of) => CutOff(m.of)

\* p has taken the size of l: it is reading l and nothing else.
Reads(p, l) ==
  /\ first[p] = Size(l) /\ first[p] \notin wire
  /\ l.dst = p /\ l.tag = Tag(calls[p])
  /\ Kind(p) = "gather" => l.src = Sender(p) /\ l.n = calls[p]
  /\ \A b \in wire : Accepts(p, l.src, l.tag, b) => l.n <= b.of.n
  /\ IF Whole(l)
     THEN length[p] = l.len /\ (Data(l) \in wire \/ (pc[l.src] = "sending" /\ out[l.src] = l))
     ELSE CutOff(l)

ReaderOk == \A p \in Ranks : pc[p] = "data" => Reads(p, first[p].of)

\* Root p has the object of q in round n still to come.
Lacks(p, q, n) ==
  \/ n > calls[p]
  \/ /\ n = calls[p] /\ Receiving(p)
     /\ Turn(p, q) > k[p] \/ (Turn(p, q) = k[p] /\ pc[p] = "size")

\* What a process has sent to a root that lacks it is on the wire.
Awaited ==
  \A p, q \in Ranks : \A n \in DOMAIN plan :
    q # p /\ plan[n] = <<"gather", p>> /\ n <= calls[q] /\ Lacks(p, q, n) =>
      \E m \in wire : m.kind = "size" /\ m.of.src = q /\ m.of.n = n

\* What the root of a gather has on the wire is still to come.
StillDue(p, m) ==
  /\ m.of.n >= calls[p]
  /\ m.of.n = calls[p] => /\ pc[p] # "out"
                          /\ Receiving(p) => Turn(p, m.of.src) >= k[p]
NothingOld == \A m \in wire : m.of.tag = GATHER_TAG => StillDue(m.of.dst, m)

\* What has been gathered came from a process that has begun the round, and
\* the turns taken have filled their slots.
RowFilled(p) ==
  /\ \A q \in Ranks : ary[p][q] # None => calls[q] >= calls[p]
  /\ Receiving(p) /\ Kind(p) = "gather" =>
       \A q \in Ranks : q = p \/ Turn(p, q) < k[p] => ary[p][q] # None
Filled == \A p \in Ranks : RowFilled(p)

\* A gather has returned at its root only when everybody had begun it.
Visited ==
  \A p, q \in Ranks : \A n \in DOMAIN plan :
    /\ plan[n] = <<"gather", p>>
    /\ n < calls[p] \/ (n = calls[p] /\ pc[p] = "out")
    => n <= calls[q]

\* Inductive: it is what InPlace, Ordered and the refinement rest on.
IInv == /\ TypeOK /\ CallShape /\ Letters /\ SizeBeforeData /\ CutShort /\ ReaderOk
        /\ Awaited /\ NothingOld /\ Filled /\ Visited /\ InPlace
=============================================================================
