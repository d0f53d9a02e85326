----------------------------- MODULE RequestsInv -----------------------------
(****************************************************************************)
(* The inductive invariants of Requests: IInv, behind the safety properties *)
(* that hold for every program, sender and set of requests, and PairInv,    *)
(* behind those that hold for the careful ones.                             *)
(****************************************************************************)
EXTENDS Requests

\* What a receive of the size may store.
Measured ==
  /\ \A m \in wire : m.kind = "size" => m.of.len \in Lengths \cup {0}
  /\ \A s \in Senders : out[s] # None => out[s].len \in Lengths

\* The program and the background thread never run at once, and the program
\* waits for requests it has started.
Turns ==
  /\ upc # "idle" => scan = 0
  /\ upc \in {"size", "post", "data", "any"} => group # {} /\ \A q \in group : Started(q)
  /\ upc = "post" => \A q \in InSize : Complete(req[q])

\* A started request has a handle; another waits for a size, unwatched.
Known(q) ==
  IF Started(q) THEN req[q] # None
  ELSE stage[q] = "TX_SIZE" /\ Slots(q) = {}

\* A request started once is on rlist exactly while its size is missing.
Watched(q) ==
  "restart" \notin Uses[q] =>
    /\ \A i, j \in Slots(q) : i = j
    /\ Slots(q) # {} => stage[q] = "TX_SIZE"
    /\ Started(q) /\ stage[q] = "TX_SIZE" /\ "cancel" \notin Uses[q] => Slots(q) # {}

\* And posts the receive of its data when it leaves that stage.
Receives(q, part) == {i \in DOMAIN recvs : recvs[i].q = q /\ recvs[i].part = part}
Posted(q) ==
  {"restart", "cancel"} \cap Uses[q] = {} =>
    /\ \A i, j \in Receives(q, "data") : i = j
    /\ stage[q] = "TX_SIZE" /\ upc # "astray" => Receives(q, "data") = {}

\* The inductive invariant of every program.
IInv ==
  /\ TypeOK /\ Measured /\ Turns
  /\ \A q \in Req : Known(q) /\ Watched(q) /\ Posted(q)
  /\ NoStrayReceive
-----------------------------------------------------------------------------
(* What makes a receive get both halves of one letter.                      *)

\* The letters that q accepts.
For(q, m) == Source[q] \in {AnySource, m.of.src} /\ TagOf[q] \in {AnyTag, m.of.tag}

\* A program that the code serves: no letter is for two requests, no request is
\* started twice, those that are waited for name their sender and are not
\* cancelled (wait goes by the source of irecv), and no isend fails on its data.
Careful ==
  /\ \A q, r \in Req :
       (\E s \in Senders, t \in Tags :
          /\ Source[q] \in {AnySource, s} /\ TagOf[q] \in {AnyTag, t}
          /\ Source[r] \in {AnySource, s} /\ TagOf[r] \in {AnyTag, t}) => q = r
  /\ \A q \in Req :
       /\ "restart" \notin Uses[q]
       /\ {"wait", "waitall"} \cap Uses[q] # {} => Source[q] # AnySource /\ "cancel" \notin Uses[q]
  /\ \A s \in Senders : \A w \in Ways(s, "isend") : Count(w[3]) >= 0

\* What MPI has or will be handed: the data of a letter that is being sent too.
Coming == wire \cup {Data(out[s]) : s \in {t \in Senders : out[t] # None /\ Whole(out[t])}}

\* A letter is known by its sender and its number; its halves have its tag and
\* its object.
Twins(a, b) == a.of.src = b.of.src /\ a.of.n = b.of.n
Halves(d, z) == OtherHalf(d, z) /\ d.of.tag = z.of.tag /\ d.of.obj = z.of.obj
Numbered == \A m \in Coming : m.of.n < count[m.of.src]
Matched ==
  \A a, b \in Coming : Twins(a, b) =>
    IF a.kind = b.kind THEN a = b ELSE a.of.tag = b.of.tag /\ a.of.obj = b.of.obj
Outgoing ==
  \A s \in Senders : out[s] # None => out[s].n + 1 = count[s] /\ Data(out[s]) \notin wire
Streams == Numbered /\ Matched /\ Outgoing

\* The data of z come, or the length tells that they do not.
Followed(z) == Count(z.of.len) < 0 \/ \E d \in Coming : Halves(d, z)

\* The size of d is still there.
Announced(d) == \E z \in Coming : z.kind = "size" /\ Twins(z, d)

\* q has not got its size: of its letters nothing is gone.
Untouched(q) ==
  sized[q] = None => \A d \in Coming : d.kind = "data" /\ For(q, d) => Announced(d)

\* q has got z: of that sender the data come next, whatever else follows.
DataNext(q, z) ==
  \A m \in Coming : m.of.src = z.of.src /\ For(q, m) =>
    Halves(m, z) \/ (z.of.n < m.of.n /\ (m.kind = "data" => Announced(m)))

Reads(q, z) ==
  /\ z \in Messages /\ z.kind = "size" /\ For(q, z) /\ z.of.n < count[z.of.src]
  /\ buflen[q] = z.of.len
  /\ (\A i \in Receives(q, "data") : recvs[i].got = None) => Followed(z) /\ DataNext(q, z)
  /\ \A i \in Receives(q, "data") :
       IF recvs[i].got = None THEN recvs[i].src = z.of.src /\ Count(buflen[q]) >= 0
       ELSE Halves(recvs[i].got, z)

Reader(q) == sized[q] # None => Reads(q, sized[q])

\* The receive of the size, posted once.
SizeOf(q) ==
  /\ \A i, j \in Receives(q, "size") : i = j
  /\ \A i \in Receives(q, "size") : recvs[i].got = sized[q] /\ recvs[i].room = IntBytes
                                    /\ recvs[i].src = Source[q]
  /\ Receives(q, "size") = {} => sized[q] = None
  /\ obj[q] # None => sized[q] # None /\ obj[q] = sized[q].of.obj

\* A length that cannot be received.
Hopeless(q) == sized[q] # None /\ Count(buflen[q]) < 0

\* A request on rlist waits for its size with the handle of that receive.
Waiting(q) ==
  /\ ~Started(q) => peer[q] = Source[q]
  /\ Slots(q) # {} =>
       /\ peer[q] = Source[q] \/ Hopeless(q)
       /\ Receives(q, "data") = {}
       /\ \E i \in Receives(q, "size") :
            ~recvs[i].cancelled /\ (req[q] = i \/ (req[q] = Null /\ Hopeless(q)))

\* One in its data stage has that of the data, until that is complete.
Filling(q) ==
  /\ \A i, j \in Receives(q, "data") : i = j
  /\ Receives(q, "data") # {} => sized[q] # None
  /\ stage[q] = "TX_DATA" =>
       \E i \in Receives(q, "data") :
         ~recvs[i].cancelled /\ (req[q] = i \/ (req[q] = Null /\ recvs[i].got # None))
  /\ req[q] \in DOMAIN recvs => recvs[req[q]].q = q
  /\ buf[q] # None => buf[q] \in Receives(q, "data")
  /\ answer[q] = "done" => \E i \in Receives(q, "data") : recvs[i].got # None

\* The methods that block for both stages.
Blocking ==
  /\ upc \in {"size", "post", "data"} =>
       call \in {"wait", "waitall"} /\ \A q \in group : call \in Uses[q]
  /\ upc = "data" => InSize = {}

Paired ==
  /\ sized \in [Req -> Messages \cup {None}] /\ Streams /\ \A q \in Req : SizeOf(q)
  /\ upc # "astray" =>
       /\ \A z \in Coming : z.kind = "size" => Followed(z)
       /\ \A q \in Req : Untouched(q) /\ Reader(q) /\ Waiting(q) /\ Filling(q)
       /\ Blocking

\* The inductive invariant of a careful program: what MPI still has of a letter
\* and what a request has taken of it are together a letter, so that the receive
\* of the data, posted by a wait or the background thread, finds the right one.
PairInv == IInv /\ (Careful => Paired)

\* A receive of data still posted, that of a wait included, is not posted in
\* vain: the data of its letter are with MPI or about to be.
DataComes ==
  upc # "astray" => \A i \in DOMAIN recvs :
    Pending(i) /\ recvs[i].part = "data" => \E d \in Coming : OtherHalf(d, sized[recvs[i].q])
=============================================================================
