----------------------------- MODULE GatherProofs -----------------------------
(* Proofs about Gather for any number of processes, plans and lengths. *)
EXTENDS GatherInv, TLAPS

-----------------------------------------------------------------------------
(* Facts about letters, messages, plans and turns.                          *)

\* What the records of a letter and its messages hold.
LEMMA LetterFields ==
  ASSUME NEW l \in Letter
  PROVE  /\ l.src \in Ranks /\ l.dst \in Ranks /\ l.n \in Nat
         /\ l.len \in Lengths /\ l.obj \in Ranks
         /\ l # None
BY NoneOk, RoundsOk DEF Letter

LEMMA PartFields ==
  ASSUME NEW l
  PROVE  /\ Size(l).kind = "size" /\ Size(l).of = l
         /\ Data(l).kind = "data" /\ Data(l).of = l
         /\ Size(l) # Data(l)
BY DEF Size, Data

LEMMA PartTypes ==
  ASSUME NEW l \in Letter
  PROVE  Size(l) \in Message /\ Data(l) \in Message
BY DEF Size, Data, Message

\* Every message is the size or the data of its letter.
LEMMA MessageParts ==
  ASSUME NEW m \in Message
  PROVE  /\ m.of \in Letter /\ m.kind \in {"size", "data"} /\ m # None
         /\ m.kind = "size" => m = Size(m.of)
         /\ m.kind = "data" => m = Data(m.of)
BY NoneOk DEF Size, Data, Message

LEMMA CountInt ==
  ASSUME NEW len \in Lengths
  PROVE  len \in Int /\ Count(len) \in Int
BY IntsOk DEF Count

\* A round is a kind and a root.
LEMMA PlanOk ==
  ASSUME TypeOK, NEW n \in DOMAIN plan
  PROVE  /\ n \in Nat \ {0} /\ n <= Len(plan)
         /\ plan[n][1] \in {"gather", "bcast", "report"} /\ plan[n][2] \in Ranks
         /\ plan[n] = <<plan[n][1], plan[n][2]>>
<1>1. plan \in Seq({"gather", "bcast", "report"} \X Ranks)
  BY RoundsOk DEF TypeOK
<1> QED BY <1>1

LEMMA PlanDomain ==
  ASSUME TypeOK
  PROVE  DOMAIN plan = 1 .. Len(plan) /\ Len(plan) \in Nat
<1>1. plan \in Seq({"gather", "bcast", "report"} \X Ranks)
  BY RoundsOk DEF TypeOK
<1> QED BY <1>1

LEMMA TagIs ==
  ASSUME TypeOK, NEW n \in DOMAIN plan
  PROVE  /\ Tag(n) = GATHER_TAG <=> plan[n][1] # "report"
         /\ Tag(n) = ReportTag <=> plan[n][1] = "report"
         /\ Tag(n) \in {GATHER_TAG, ReportTag}
BY RoundsOk DEF Tag

\* The turns of the root of a gather are 0 .. N - 2, and Sender tells whose
\* turn it is.
LEMMA Turns ==
  ASSUME NEW p \in Ranks, NEW q \in Ranks, q # p
  PROVE  Turn(p, q) \in 0 .. N - 2
BY RoundsOk DEF Turn, Ranks

LEMMA SenderTurn ==
  ASSUME TypeOK, NEW p \in Ranks, k[p] + 1 < N, Kind(p) = "gather"
  PROVE  /\ Sender(p) \in Ranks /\ Sender(p) # p
         /\ \A q \in Ranks \ {p} : Turn(p, q) = k[p] <=> q = Sender(p)
<1>1. N \in Nat /\ p \in 0 .. N - 1 /\ k[p] \in 0 .. N - 1
  BY RoundsOk DEF Ranks, TypeOK
<1>2. Sender(p) = IF k[p] < p THEN k[p] ELSE k[p] + 1
  BY DEF Sender
<1>3. ASSUME NEW q \in Ranks \ {p}
      PROVE  Turn(p, q) = k[p] <=> q = Sender(p)
  <2>1. q \in 0 .. N - 1 /\ q # p
    BY <1>3 DEF Ranks
  <2> QED BY <1>1, <1>2, <2>1 DEF Turn
<1> QED BY <1>1, <1>2, <1>3 DEF Ranks

\* Membership in Live, unfolded.
LEMMA LiveMembers ==
  /\ \A m \in wire : m.of \in Live
  /\ \A q \in Ranks : out[q] # None => out[q] \in Live
  /\ \A q \in Ranks : first[q] # None => first[q].of \in Live
  /\ \A l \in Live : \/ \E m \in wire : l = m.of
                     \/ \E q \in Ranks : out[q] # None /\ l = out[q]
                     \/ \E q \in Ranks : first[q] # None /\ l = first[q].of
BY DEF Live

LEMMA LiveLetters == TypeOK => Live \subseteq Letter
BY MessageParts DEF Live, TypeOK

\* What is known of a message on the wire.
LEMMA WireFacts ==
  ASSUME IInv, NEW m \in wire
  PROVE  /\ m \in Message /\ m.of \in Letter /\ m.of \in Live
         /\ m.of.src \in Ranks /\ m.of.dst \in Ranks /\ m.of.src # m.of.dst
         /\ m.of.n \in DOMAIN plan /\ m.of.n \in Nat /\ m.of.n <= calls[m.of.src]
         /\ m.of.dst = plan[m.of.n][2] /\ m.of.tag = Tag(m.of.n) /\ m.of.obj = m.of.src
         /\ m.of.tag = GATHER_TAG <=> plan[m.of.n] = <<"gather", m.of.dst>>
         /\ m.of.tag = ReportTag <=> plan[m.of.n] = <<"report", m.of.dst>>
<1>1. m \in Message /\ m.of \in Letter /\ m.of \in Live
  BY MessageParts DEF IInv, TypeOK, Live
<1>2. /\ m.of.n \in 1 .. calls[m.of.src] /\ m.of.n \in DOMAIN plan
      /\ m.of.dst = plan[m.of.n][2] /\ m.of.tag = Tag(m.of.n) /\ m.of.obj = m.of.src
      /\ m.of.src # m.of.dst /\ plan[m.of.n][1] # "bcast"
  BY <1>1 DEF IInv, Letters
<1>3. TypeOK
  BY DEF IInv
<1>4. calls[m.of.src] \in Nat
  BY <1>1, <1>3, LetterFields, PlanDomain DEF TypeOK
<1> QED BY <1>1, <1>2, <1>3, <1>4, LetterFields, PlanOk, TagIs

\* CallShape at one process.
LEMMA Shape ==
  ASSUME IInv, NEW p \in Ranks
  PROVE  /\ calls[p] \in Nat /\ calls[p] <= Len(plan) /\ k[p] \in 0 .. N - 1
         /\ pc[p] # "out" => /\ calls[p] \in DOMAIN plan
                            /\ Kind(p) \in {"gather", "bcast", "report"} /\ Root(p) \in Ranks
                            /\ plan[calls[p]] = <<Kind(p), Root(p)>>
         /\ Receiving(p) => Kind(p) \in {"gather", "report"} /\ Root(p) = p
         /\ pc[p] \in {"sending", "sent", "cast", "hear"} => plan[calls[p]] # <<"gather", p>>
         /\ first[p] # None => pc[p] \in {"data", "raised"}
         /\ pc[p] = "data" => first[p] # None
         /\ pc[p] = "data" \/ (pc[p] = "size" /\ ~Received(p)) => k[p] + 1 < N
<1>1. TypeOK /\ CallShape
  BY DEF IInv
<1>2. calls[p] \in 0 .. Len(plan) /\ k[p] \in 0 .. N - 1 /\ Len(plan) \in Nat
  BY <1>1, PlanDomain DEF TypeOK
<1>3. pc[p] # "out" => /\ calls[p] \in DOMAIN plan
                       /\ Kind(p) \in {"gather", "bcast", "report"} /\ Root(p) \in Ranks
                       /\ plan[calls[p]] = <<Kind(p), Root(p)>>
  BY <1>1, PlanOk DEF CallShape, Formed, Kind, Root
<1>4. Receiving(p) => plan[calls[p]] \in {<<"gather", p>>, <<"report", p>>}
  BY <1>1 DEF CallShape, Formed
<1>5. Receiving(p) => Kind(p) \in {"gather", "report"} /\ Root(p) = p
  BY <1>4 DEF Kind, Root
<1>6. pc[p] = "size" /\ ~Received(p) => k[p] + 1 < N
  BY <1>2, RoundsOk DEF Received
<1> QED BY <1>1, <1>2, <1>3, <1>5, <1>6 DEF CallShape, Formed

\* The invariant's bound on where a letter comes from.
LEMMA LiveFacts ==
  ASSUME IInv, NEW l \in Live
  PROVE  /\ l \in Letter /\ l # None
         /\ l.src \in Ranks /\ l.dst \in Ranks /\ l.len \in Lengths
         /\ l.n \in Nat /\ l.n <= calls[l.src] /\ l.n \in DOMAIN plan
         /\ l.dst = plan[l.n][2] /\ l.tag = Tag(l.n) /\ l.obj = l.src
         /\ Size(l) \in Message /\ Data(l) \in Message
<1>1. l \in Letter
  BY LiveLetters DEF IInv
<1>2. l.n \in 1 .. calls[l.src] /\ l.n \in DOMAIN plan
      /\ l.dst = plan[l.n][2] /\ l.tag = Tag(l.n) /\ l.obj = l.src
  BY DEF IInv, Letters
<1>3. calls[l.src] \in Nat
  BY <1>1, LetterFields, Shape
<1> QED BY <1>1, <1>2, <1>3, LetterFields, PartTypes

\* Two letters of one sender and round are one.
LEMMA OneLetter ==
  ASSUME IInv, NEW l1 \in Live, NEW l2 \in Live, l1.src = l2.src, l1.n = l2.n
  PROVE  l1 = l2
BY DEF IInv, Letters

\* What a root lacks and has been sent, it has been sent from the size on.
LEMMA OnItsWay ==
  ASSUME IInv, NEW p \in Ranks, NEW q \in Ranks, NEW n \in DOMAIN plan,
         q # p, plan[n] = <<"gather", p>>, n <= calls[q], Lacks(p, q, n)
  PROVE  \E m \in wire : m.kind = "size" /\ m.of.src = q /\ m.of.n = n
BY DEF IInv, Awaited

\* Formed(q) is not disturbed from outside.
LEMMA FormedFrame ==
  ASSUME NEW q \in Ranks, Formed(q), plan' = plan, pc'[q] = pc[q], calls'[q] = calls[q],
         k'[q] = k[q], first'[q] = first[q], out'[q] = out[q],
         pc[q] = "cast" => cast'[calls[q]] = cast[calls[q]]
  PROVE  Formed(q)'
BY DEF Formed, Receiving, Kind, Root

-----------------------------------------------------------------------------
(* What the receiving root can take next.                                   *)

\* Due, in terms of the round the root is in.
LEMMA DueAccepts ==
  ASSUME IInv, NEW p \in Ranks, Receiving(p), ~Received(p), NEW m \in Due(p)
  PROVE  /\ m \in wire /\ m.of.dst = p /\ m.of.tag = Tag(calls[p])
         /\ pc[p] = "size" /\ Kind(p) = "gather" => m.of.src = Sender(p)
         /\ pc[p] = "data" => m.of.src = first[p].of.src
         /\ \A b \in wire : b.of.src = m.of.src /\ b.of.dst = p /\ b.of.tag = Tag(calls[p])
                            => ~Before(b, m)
<1> DEFINE src == IF pc[p] = "size" THEN Sender(p) ELSE first[p].of.src
<1>1. (IF Kind(p) = "gather" THEN GATHER_TAG ELSE ReportTag) = Tag(calls[p])
  BY Shape DEF Tag, Kind
<1>2. m \in Receivable(wire, p, src, Tag(calls[p]))
  BY <1>1 DEF Due
<1>3. /\ m \in wire /\ Accepts(p, src, Tag(calls[p]), m)
      /\ \A b \in wire : Before(b, m) => ~Accepts(p, src, Tag(calls[p]), b)
  BY <1>2 DEF Receivable
<1>4. Tag(calls[p]) # AnyTag
  BY RoundsOk DEF Tag
<1>5. m.of.dst = p /\ m.of.tag = Tag(calls[p]) /\ src \in {AnySource, m.of.src}
  BY <1>3, <1>4 DEF Accepts
<1>6. ASSUME NEW b \in wire, b.of.src = m.of.src, b.of.dst = p, b.of.tag = Tag(calls[p])
      PROVE  Accepts(p, src, Tag(calls[p]), b)
  BY <1>5, <1>6 DEF Accepts
<1>7. k[p] + 1 < N
  BY Shape DEF Receiving
<1>8. pc[p] = "size" /\ Kind(p) = "gather" => m.of.src = Sender(p)
  <2> SUFFICES ASSUME pc[p] = "size", Kind(p) = "gather" PROVE m.of.src = Sender(p)
    OBVIOUS
  <2>1. Sender(p) \in Ranks
    BY <1>7, SenderTurn DEF IInv
  <2> QED BY <1>5, <2>1, RoundsOk
<1>9. pc[p] = "data" => m.of.src = first[p].of.src
  <2> SUFFICES ASSUME pc[p] = "data" PROVE m.of.src = first[p].of.src
    OBVIOUS
  <2>1. first[p] # None /\ first[p].of \in Live
    BY LiveMembers DEF IInv, CallShape, Formed
  <2>2. first[p].of.src \in Ranks
    BY <2>1, LiveFacts
  <2> QED BY <1>5, <2>2, RoundsOk
<1> QED BY <1>3, <1>5, <1>6, <1>8, <1>9

\* The size the root takes is that of the letter whose turn it is.
LEMMA DueSize ==
  ASSUME IInv, NEW p \in Ranks, pc[p] = "size", ~Received(p), NEW m \in Due(p)
  PROVE  /\ m \in wire /\ m = Size(m.of) /\ m.kind = "size"
         /\ m.of.dst = p /\ m.of.tag = Tag(calls[p])
         /\ Kind(p) = "gather" => m.of.src = Sender(p) /\ m.of.n = calls[p]
         /\ \A b \in wire : Accepts(p, m.of.src, m.of.tag, b) => m.of.n <= b.of.n
<1>1. /\ m \in wire /\ m.of.dst = p /\ m.of.tag = Tag(calls[p])
      /\ Kind(p) = "gather" => m.of.src = Sender(p)
      /\ \A b \in wire : b.of.src = m.of.src /\ b.of.dst = p /\ b.of.tag = Tag(calls[p])
                         => ~Before(b, m)
  BY DueAccepts DEF Receiving
<1>2. /\ m \in Message /\ m.of.src \in Ranks /\ m.of.n \in Nat /\ m.of.src # p
      /\ m.of \in Live /\ m.of.n <= calls[m.of.src] /\ calls[m.of.src] \in Nat
  BY <1>1, WireFacts, Shape
<1>3. \A b \in wire : Accepts(p, m.of.src, m.of.tag, b) => m.of.n <= b.of.n
  <2> SUFFICES ASSUME NEW b \in wire, Accepts(p, m.of.src, m.of.tag, b)
               PROVE  m.of.n <= b.of.n
    OBVIOUS
  <2>1. m.of.tag # AnyTag /\ m.of.src # AnySource
    BY <1>1, <1>2, RoundsOk DEF Tag
  <2>2. b.of.src = m.of.src /\ b.of.dst = p /\ b.of.tag = Tag(calls[p])
    BY <1>1, <2>1 DEF Accepts
  <2>3. b.of.n \in Nat
    BY WireFacts
  <2> QED BY <1>1, <1>2, <2>2, <2>3 DEF Before
<1>4. Kind(p) = "gather" => m.kind = "size" /\ m.of.n = calls[p]
  <2> SUFFICES ASSUME Kind(p) = "gather" PROVE m.kind = "size" /\ m.of.n = calls[p]
    OBVIOUS
  <2>1. /\ plan[calls[p]] = <<"gather", p>> /\ calls[p] \in DOMAIN plan /\ calls[p] \in Nat
        /\ k[p] + 1 < N
    <3>1. Receiving(p)
      BY DEF Receiving
    <3> QED BY <3>1, Shape
  <2>2. Tag(calls[p]) = GATHER_TAG
    BY DEF Tag, Kind
  <2>3. calls[p] <= m.of.n
    BY <1>1, <2>2 DEF IInv, NothingOld, StillDue
  <2>4. Turn(p, m.of.src) = k[p]
    BY <1>1, <1>2, <2>1, SenderTurn DEF IInv
  <2>5. PICK b \in wire : b.kind = "size" /\ b.of.src = m.of.src /\ b.of.n = calls[p]
    <3>1. calls[p] <= calls[m.of.src]
      BY <1>2, <2>1, <2>3
    <3>2. Lacks(p, m.of.src, calls[p])
      BY <2>4 DEF Lacks, Receiving
    <3>3. ASSUME NEW q \in Ranks, q = m.of.src, NEW n \in DOMAIN plan, n = calls[p]
          PROVE  \E b \in wire : b.kind = "size" /\ b.of.src = q /\ b.of.n = n
      <4>1. q # p /\ plan[n] = <<"gather", p>> /\ n <= calls[q] /\ Lacks(p, q, n)
        BY <1>2, <2>1, <3>1, <3>2, <3>3
      <4> QED BY <4>1, OnItsWay
    <3> QED BY <1>2, <2>1, <3>3
  <2>6. b.of.dst = p /\ b.of.tag = Tag(calls[p])
    BY <2>1, <2>5, WireFacts
  <2>7. ~Before(b, m)
    BY <1>1, <2>5, <2>6
  <2>8. m.of.n = calls[p]
    BY <1>2, <2>1, <2>3, <2>5, <2>7 DEF Before
  <2> QED BY <1>2, <2>5, <2>7, <2>8, MessageParts DEF Before
<1>5. Kind(p) # "gather" => m.kind = "size"
  <2> SUFFICES ASSUME Kind(p) # "gather", m.kind # "size" PROVE FALSE
    OBVIOUS
  <2>1. m.kind = "data"
    BY <1>2, MessageParts
  <2>2. Size(m.of) \in wire \/ Reading(m.of)
    BY <1>1, <2>1 DEF IInv, SizeBeforeData, Paired
  <2>3. Size(m.of) \in wire
    BY <1>1, <2>2 DEF Reading
  <2>4. Before(Size(m.of), m)
    BY <2>1, PartFields DEF Before
  <2> QED BY <1>1, <2>3, <2>4, PartFields
<1> QED BY <1>1, <1>2, <1>3, <1>4, <1>5, MessageParts

\* The data it takes next is that letter's.
LEMMA DueData ==
  ASSUME IInv, NEW p \in Ranks, pc[p] = "data", NEW m \in Due(p)
  PROVE  m \in wire /\ m = Data(first[p].of)
<1> DEFINE l == first[p].of
<1>1. first[p] # None /\ l \in Live /\ Reads(p, l)
  BY LiveMembers DEF IInv, CallShape, Formed, ReaderOk
<1>2. m \in wire /\ m.of.dst = p /\ m.of.tag = Tag(calls[p]) /\ m.of.src = l.src
      /\ \A b \in wire : b.of.src = m.of.src /\ b.of.dst = p /\ b.of.tag = Tag(calls[p])
                         => ~Before(b, m)
  BY DueAccepts DEF Receiving, Received
<1>3. /\ l.n \in Nat /\ m.of.n \in Nat /\ m.of \in Live /\ m \in Message
      /\ m.of.n <= calls[l.src] /\ l.src \in Ranks
  BY <1>1, <1>2, LiveFacts, WireFacts
<1>4. l.n <= m.of.n
  <2>1. Accepts(p, l.src, l.tag, m)
    BY <1>1, <1>2 DEF Accepts, Reads
  <2> QED BY <1>1, <1>2, <2>1 DEF Reads
<1>5. m.of.n <= l.n
  <2>1. CASE Data(l) \in wire
    <3>1. ~Before(Data(l), m)
      BY <1>1, <1>2, <2>1, PartFields DEF Reads
    <3>2. ~(l.n < m.of.n)
      BY <1>2, <3>1, PartFields DEF Before
    <3> QED BY <1>3, <3>2
  <2>2. CASE pc[l.src] = "sending" /\ out[l.src] = l
    <3>1. l # None
      BY <1>1, LiveFacts
    <3>2. l.n = calls[l.src]
      BY <1>3, <2>2, <3>1 DEF IInv, CallShape, Formed
    <3> QED BY <1>3, <3>2
  <2>3. CASE CutOff(l)
    BY <1>3, <2>3 DEF CutOff
  <2> QED BY <1>1, <2>1, <2>2, <2>3 DEF Reads
<1>6. m.of = l
  BY <1>1, <1>2, <1>3, <1>4, <1>5, OneLetter
<1>7. m # Size(l)
  BY <1>1, <1>2 DEF Reads
<1> QED BY <1>2, <1>3, <1>6, <1>7, MessageParts
\* What p is reading.
LEMMA ReaderFacts ==
  ASSUME IInv, NEW p \in Ranks, pc[p] = "data"
  PROVE  /\ Reads(p, first[p].of) /\ first[p] # None /\ first[p].of \in Live
         /\ first[p].of.src \in Ranks /\ first[p].of.n \in Nat
         /\ first[p].of.n <= calls[first[p].of.src]
BY LiveMembers, LiveFacts DEF IInv, ReaderOk, CallShape, Formed

\* A process that has raised stops there.
StillRaised(r) == pc[r] = "raised" => pc'[r] = "raised" /\ calls'[r] = calls[r]

\* A reader is disturbed only through the wire and the sender.
LEMMA ReadsFrame ==
  ASSUME IInv, NEW q \in Ranks, pc[q] = "data", plan' = plan, calls'[q] = calls[q],
         k'[q] = k[q], first'[q] = first[q], length'[q] = length[q], first[q] \notin wire',
         \A b \in wire' : Accepts(q, first[q].of.src, first[q].of.tag, b)
                           => first[q].of.n <= b.of.n,
         Whole(first[q].of) =>
           \/ Data(first[q].of) \in wire'
           \/ pc'[first[q].of.src] = "sending" /\ out'[first[q].of.src] = first[q].of,
         StillRaised(first[q].of.src)
  PROVE  Reads(q, first[q].of)'
<1>1. Reads(q, first[q].of)
  BY DEF IInv, ReaderOk
<1>2. Kind(q)' = Kind(q) /\ Sender(q)' = Sender(q) /\ Tag(calls[q])' = Tag(calls[q])
  BY DEF Kind, Sender, Tag
<1> QED BY <1>1, <1>2 DEF Reads, Whole, CutOff, StillRaised

\* The data that will not come never come.
LEMMA CutShortKept ==
  ASSUME IInv, \A r \in Ranks : StillRaised(r),
         \A m \in wire' \ wire : m.of.tag = GATHER_TAG /\ ~Whole(m.of) => CutOff(m.of)'
  PROVE  CutShort'
<1> SUFFICES ASSUME NEW m \in wire', m.of.tag = GATHER_TAG, ~Whole(m.of)
             PROVE  CutOff(m.of)'
  BY DEF CutShort, Whole
<1>1. CASE m \in wire
  <2>1. CutOff(m.of) /\ m.of.src \in Ranks
    BY <1>1, WireFacts DEF IInv, CutShort
  <2> QED BY <2>1 DEF CutOff, StillRaised
<1> QED BY <1>1

-----------------------------------------------------------------------------
(* The five ways to begin a round.                                          *)

Fresh(p) == calls[p] + 1

\* What the five have in common: p goes from out to next with the letter l,
\* and gives MPI the messages W.
Begins(p, l, next, W) ==
  /\ pc[p] = "out" /\ Fresh(p) \in DOMAIN plan
  /\ Begin(p, l, next) /\ wire' = wire \cup W
  /\ next \in {"sent", "sending", "raised", "size", "cast", "hear"}
  /\ l # None => l \in NewLetters(p)
  /\ next = "size" <=> plan[Fresh(p)] \in {<<"gather", p>>, <<"report", p>>}
  /\ next = "hear" => plan[Fresh(p)][1] = "bcast"
  /\ next = "sending" => plan[Fresh(p)][1] = "report"
  /\ next = "cast" => l # None /\ plan[Fresh(p)] = <<"bcast", p>>
  /\ IF next \in {"sent", "sending", "raised"}
     THEN /\ l # None /\ plan[Fresh(p)][1] # "bcast" /\ plan[Fresh(p)][2] # p
          /\ W = {Size(l)} \cup (IF next = "sent" THEN {Data(l)} ELSE {})
          /\ next # "sending" => (Whole(l) <=> next = "sent")
     ELSE W = {} /\ (plan[Fresh(p)][1] = "gather" => plan[Fresh(p)][2] = p)
  /\ cast' = IF next = "cast" THEN [cast EXCEPT ![Fresh(p)] = <<Size(l)>>] ELSE cast

\* What a new letter says.
LEMMA NewLetter ==
  ASSUME IInv, NEW p \in Ranks, Fresh(p) \in DOMAIN plan, NEW l \in NewLetters(p)
  PROVE  /\ l \in Letter /\ l # None
         /\ l.src = p /\ l.n = Fresh(p) /\ l.obj = p
         /\ l.dst = plan[Fresh(p)][2] /\ l.tag = Tag(Fresh(p))
<1>1. /\ l.src = p /\ l.dst = plan[Fresh(p)][2] /\ l.n = Fresh(p) /\ l.obj = p
      /\ l.tag = Tag(Fresh(p)) /\ l.len \in Lengths
      /\ l = [src |-> l.src, dst |-> l.dst, n |-> l.n, len |-> l.len, obj |-> l.obj, tag |-> l.tag]
  BY DEF NewLetters, Fresh, Tag
<1>2. l.dst \in Ranks /\ l.n \in Nat /\ l.tag \in {GATHER_TAG, ReportTag}
  BY <1>1, PlanOk, TagIs DEF IInv
<1>3. l \in Letter
  BY <1>1, <1>2, RoundsOk DEF Letter
<1> QED BY <1>1, <1>3, LetterFields

LEMMA CallBegins ==
  ASSUME IInv, NEW p \in Ranks, Call(p)
  PROVE  \E l, next, W : Begins(p, l, next, W)
<1>1. \A kind, atRoot : Role(p, kind, atRoot) =>
        /\ pc[p] = "out" /\ Fresh(p) \in DOMAIN plan
        /\ plan[Fresh(p)][1] = kind /\ plan[Fresh(p)] = <<kind, plan[Fresh(p)][2]>>
        /\ plan[Fresh(p)][2] \in Ranks /\ atRoot = (p = plan[Fresh(p)][2])
  <2> SUFFICES ASSUME NEW kind, NEW atRoot, Role(p, kind, atRoot)
               PROVE  /\ pc[p] = "out" /\ Fresh(p) \in DOMAIN plan
                      /\ plan[Fresh(p)][1] = kind /\ plan[Fresh(p)] = <<kind, plan[Fresh(p)][2]>>
                      /\ plan[Fresh(p)][2] \in Ranks /\ atRoot = (p = plan[Fresh(p)][2])
    OBVIOUS
  <2>1. Fresh(p) \in DOMAIN plan
    BY Shape, PlanDomain DEF Role, Fresh, IInv
  <2> QED BY <2>1, PlanOk DEF Role, Fresh, IInv
<1>2. CASE GatherSend(p)
  <2>1. PICK l \in NewLetters(p) :
          /\ wire' = wire \cup {Size(l)} \cup (IF Whole(l) THEN {Data(l)} ELSE {})
          /\ Begin(p, l, IF Whole(l) THEN "sent" ELSE "raised")
    BY <1>2 DEF GatherSend
  <2>2. pc[p] = "out" /\ Fresh(p) \in DOMAIN plan /\ plan[Fresh(p)][1] = "gather"
        /\ plan[Fresh(p)][2] # p /\ cast' = cast
    BY <1>1, <1>2 DEF GatherSend
  <2>3. l # None
    BY <2>2, NewLetter
  <2> DEFINE next == IF Whole(l) THEN "sent" ELSE "raised"
             W == {Size(l)} \cup (IF next = "sent" THEN {Data(l)} ELSE {})
  <2>4. wire' = wire \cup W
    BY <2>1
  <2>5. Begin(p, l, next) /\ next \in {"sent", "raised"} /\ (next = "sent" <=> Whole(l))
    BY <2>1
  <2> HIDE DEF next
  <2>6. Begins(p, l, next, W)
    BY <2>2, <2>3, <2>4, <2>5 DEF Begins
  <2> QED BY <2>6
<1>3. CASE ReportSend(p)
  <2>1. PICK l \in NewLetters(p) : wire' = wire \cup {Size(l)} /\ Begin(p, l, "sending")
    BY <1>3 DEF ReportSend
  <2>2. pc[p] = "out" /\ Fresh(p) \in DOMAIN plan /\ plan[Fresh(p)][1] = "report"
        /\ plan[Fresh(p)][2] # p /\ cast' = cast
    BY <1>1, <1>3 DEF ReportSend
  <2>3. l # None
    BY <2>2, NewLetter
  <2>4. Begins(p, l, "sending", {Size(l)})
    BY <2>1, <2>2, <2>3 DEF Begins
  <2> QED BY <2>4
<1>4. CASE Receive(p)
  <2>1. PICK kind \in {"gather", "report"} : Role(p, kind, TRUE)
    BY <1>4 DEF Receive
  <2>2. pc[p] = "out" /\ Fresh(p) \in DOMAIN plan /\ plan[Fresh(p)] = <<kind, p>>
        /\ Begin(p, None, "size") /\ cast' = cast /\ wire' = wire
    BY <1>1, <1>4, <2>1 DEF Receive
  <2>3. Begins(p, None, "size", {})
    BY <2>2 DEF Begins
  <2> QED BY <2>3
<1>5. CASE CastLength(p)
  <2>1. PICK l \in NewLetters(p) :
          cast' = [cast EXCEPT ![l.n] = <<Size(l)>>] /\ Begin(p, l, "cast")
    BY <1>5 DEF CastLength
  <2>2. pc[p] = "out" /\ Fresh(p) \in DOMAIN plan /\ plan[Fresh(p)] = <<"bcast", p>>
        /\ wire' = wire
    BY <1>1, <1>5 DEF CastLength
  <2>3. l # None /\ l.n = Fresh(p)
    BY <2>2, NewLetter
  <2>4. Begins(p, l, "cast", {})
    BY <2>1, <2>2, <2>3 DEF Begins
  <2> QED BY <2>4
<1>6. CASE Listen(p)
  <2>1. pc[p] = "out" /\ Fresh(p) \in DOMAIN plan /\ plan[Fresh(p)][1] = "bcast"
        /\ plan[Fresh(p)][2] # p /\ Begin(p, None, "hear") /\ cast' = cast /\ wire' = wire
    BY <1>1, <1>6 DEF Listen
  <2>2. Begins(p, None, "hear", {})
    BY <2>1 DEF Begins
  <2> QED BY <2>2
<1> QED BY <1>2, <1>3, <1>4, <1>5, <1>6 DEF Call

\* Field by field.
LEMMA BeginsPoints ==
  ASSUME IInv, NEW p \in Ranks, NEW l, NEW next, NEW W, Begins(p, l, next, W)
  PROVE  /\ plan' = plan /\ k' = k /\ first' = first /\ length' = length
         /\ pc[p] = "out" /\ first[p] = None /\ k[p] = 0
         /\ calls'[p] = Fresh(p) /\ pc'[p] = next /\ out'[p] = l
         /\ next # "out" /\ next # "data"
         /\ \A q \in Ranks \ {p} : calls'[q] = calls[q] /\ pc'[q] = pc[q] /\ out'[q] = out[q]
<1>1. /\ plan' = plan /\ k' = k /\ first' = first /\ length' = length /\ pc[p] = "out"
      /\ calls' = [calls EXCEPT ![p] = Fresh(p)] /\ pc' = [pc EXCEPT ![p] = next]
      /\ out' = [out EXCEPT ![p] = l] /\ next # "out" /\ next # "data"
  BY DEF Begins, Begin, Fresh
<1>2. /\ calls'[p] = Fresh(p) /\ pc'[p] = next /\ out'[p] = l
      /\ \A q \in Ranks \ {p} : calls'[q] = calls[q] /\ pc'[q] = pc[q] /\ out'[q] = out[q]
  BY <1>1 DEF IInv, TypeOK
<1>3. first[p] = None /\ k[p] = 0
  BY <1>1, Shape DEF IInv, CallShape, Formed
<1> QED BY <1>1, <1>2, <1>3

LEMMA BeginsCalls ==
  ASSUME IInv, NEW p \in Ranks, NEW l, NEW next, NEW W, Begins(p, l, next, W)
  PROVE  /\ Fresh(p) \in Nat /\ Fresh(p) <= Len(plan) /\ calls[p] < Fresh(p)
         /\ \A q \in Ranks : calls[q] \in Nat /\ calls'[q] \in Nat /\ calls[q] <= calls'[q]
<1>1. calls[p] \in Nat /\ \A q \in Ranks : calls[q] \in Nat
  BY Shape
<1>2. Fresh(p) \in DOMAIN plan
  BY DEF Begins
<1>3. Fresh(p) \in Nat /\ Fresh(p) <= Len(plan) /\ calls[p] < Fresh(p)
  BY <1>1, <1>2, PlanDomain DEF Fresh, IInv
<1>4. calls'[p] = Fresh(p) /\ \A q \in Ranks \ {p} : calls'[q] = calls[q]
  BY BeginsPoints
<1> QED BY <1>1, <1>3, <1>4

\* It starts with an empty row, but for its own object if it gathers.
LEMMA BeginsRows ==
  ASSUME IInv, NEW p \in Ranks, NEW l, NEW next, NEW W, Begins(p, l, next, W)
  PROVE  /\ \A q \in Ranks \ {p} : ary'[q] = ary[q]
         /\ \A q \in Ranks : ary'[p][q] # None => ary'[p][q] = [of |-> p, n |-> Fresh(p)] /\ q = p
         /\ plan[Fresh(p)] = <<"gather", p>> => ary'[p][p] # None
<1>1. Fresh(p) \in DOMAIN plan /\ pc[p] = "out"
      /\ ary' = [ary EXCEPT ![p] = [q \in Ranks |-> IF q = p /\ Role(p, "gather", TRUE)
                                                    THEN [of |-> p, n |-> Fresh(p)] ELSE None]]
  BY DEF Begins, Begin, Fresh
<1>2. /\ \A q \in Ranks \ {p} : ary'[q] = ary[q]
      /\ ary'[p] = [q \in Ranks |-> IF q = p /\ Role(p, "gather", TRUE)
                                    THEN [of |-> p, n |-> Fresh(p)] ELSE None]
  BY <1>1 DEF IInv, TypeOK
<1>3. plan[Fresh(p)] = <<"gather", p>> => Role(p, "gather", TRUE)
  <2>1. calls[p] < Len(plan)
    BY BeginsCalls, Shape, PlanDomain DEF IInv
  <2> QED BY <1>1, <2>1 DEF Role, Fresh
<1>4. [of |-> p, n |-> Fresh(p)] # None
  BY BeginsCalls, NoneOk
<1> QED BY <1>2, <1>3, <1>4

\* The new letter, and who it is for.
LEMMA BeginsLetter ==
  ASSUME IInv, NEW p \in Ranks, NEW l, NEW next, NEW W, Begins(p, l, next, W), l # None
  PROVE  /\ l \in Letter /\ l.src = p /\ l.n = Fresh(p) /\ l.obj = p
         /\ l.dst = plan[Fresh(p)][2] /\ l.tag = Tag(Fresh(p)) /\ l \notin Live
<1>1. l \in NewLetters(p) /\ Fresh(p) \in DOMAIN plan
  BY DEF Begins
<1>2. ASSUME l \in Live PROVE FALSE
  <2>1. l.n = Fresh(p) /\ l.src = p
    BY <1>1, NewLetter
  <2>2. l.n <= calls[l.src]
    BY <1>2, LiveFacts
  <2>3. calls[p] \in Nat /\ Fresh(p) = calls[p] + 1
    BY Shape DEF Fresh
  <2> QED BY <2>1, <2>2, <2>3
<1> QED BY <1>1, <1>2, NewLetter

\* What it puts on the wire.
LEMMA BeginsWire ==
  ASSUME IInv, NEW p \in Ranks, NEW l, NEW next, NEW W, Begins(p, l, next, W)
  PROVE  /\ wire' = wire \cup W
         /\ \A m \in W : /\ l # None /\ m.of = l /\ m \in Message /\ m \notin wire
                          /\ plan[Fresh(p)][1] # "bcast" /\ plan[Fresh(p)][2] # p
                          /\ l.src = p /\ l.dst # p /\ m \in {Size(l), Data(l)}
         /\ next \in {"sent", "sending", "raised"} => Size(l) \in W
         /\ Data(l) \in W => next = "sent" /\ Whole(l) /\ Size(l) \in W
         /\ next = "sent" => Data(l) \in W
         /\ next = "raised" => ~Whole(l)
<1>1. /\ wire' = wire \cup W
      /\ IF next \in {"sent", "sending", "raised"}
         THEN /\ l # None /\ plan[Fresh(p)][1] # "bcast" /\ plan[Fresh(p)][2] # p
              /\ W = {Size(l)} \cup (IF next = "sent" THEN {Data(l)} ELSE {})
              /\ next # "sending" => (Whole(l) <=> next = "sent")
         ELSE W = {}
  BY DEF Begins
<1>2. CASE next \in {"sent", "sending", "raised"}
  <2>1. /\ l # None /\ plan[Fresh(p)][1] # "bcast" /\ plan[Fresh(p)][2] # p
        /\ W = {Size(l)} \cup (IF next = "sent" THEN {Data(l)} ELSE {})
        /\ next # "sending" => (Whole(l) <=> next = "sent")
    BY <1>1, <1>2
  <2>2. l \in Letter /\ l.src = p /\ l.dst # p /\ l \notin Live
    BY <2>1, BeginsLetter
  <2>3. Size(l) \notin wire /\ Data(l) \notin wire /\ Size(l) # Data(l)
    BY <2>2, LiveMembers, PartFields
  <2> QED BY <1>1, <1>2, <2>1, <2>2, <2>3, PartFields, PartTypes
<1>3. CASE next \notin {"sent", "sending", "raised"}
  BY <1>1, <1>3
<1> QED BY <1>2, <1>3

LEMMA BeginsLive ==
  ASSUME IInv, NEW p \in Ranks, NEW l, NEW next, NEW W, Begins(p, l, next, W)
  PROVE  \A l2 \in Live' : l2 \in Live \/ (l2 = l /\ l # None)
<1> SUFFICES ASSUME NEW l2 \in Live' PROVE l2 \in Live \/ (l2 = l /\ l # None)
  OBVIOUS
<1>1. \/ \E m \in wire' : l2 = m.of
      \/ \E q \in Ranks : out'[q] # None /\ l2 = out'[q]
      \/ \E q \in Ranks : first'[q] # None /\ l2 = first'[q].of
  BY DEF Live
<1>2. CASE \E m \in wire' : l2 = m.of
  BY <1>2, BeginsWire, LiveMembers
<1>3. ASSUME NEW q \in Ranks, out'[q] # None, l2 = out'[q]
      PROVE  l2 \in Live \/ (l2 = l /\ l # None)
  <2>1. out'[p] = l /\ \A r \in Ranks \ {p} : out'[r] = out[r]
    BY BeginsPoints
  <2> QED BY <1>3, <2>1, LiveMembers
<1>4. CASE \E q \in Ranks : first'[q] # None /\ l2 = first'[q].of
  <2>1. first' = first
    BY BeginsPoints
  <2> QED BY <1>4, <2>1, LiveMembers
<1> QED BY <1>1, <1>2, <1>3, <1>4

LEMMA BeginsType ==
  ASSUME IInv, NEW p \in Ranks, NEW l, NEW next, NEW W, Begins(p, l, next, W)
  PROVE  TypeOK'
<1>1. TypeOK /\ DOMAIN plan = 1 .. Len(plan) /\ DOMAIN cast = DOMAIN plan
  BY PlanDomain DEF IInv, CallShape, Formed
<1>2. /\ plan' = plan /\ k' = k /\ first' = first /\ length' = length
      /\ calls' = [calls EXCEPT ![p] = Fresh(p)] /\ pc' = [pc EXCEPT ![p] = next]
      /\ out' = [out EXCEPT ![p] = l] /\ Fresh(p) \in DOMAIN plan
      /\ ary' = [ary EXCEPT ![p] = [q \in Ranks |-> IF q = p /\ Role(p, "gather", TRUE)
                                                    THEN [of |-> p, n |-> Fresh(p)] ELSE None]]
  BY DEF Begins, Begin, Fresh
<1>3. l \in Letter \cup {None}
  BY BeginsLetter
<1>4. wire' \subseteq Message
  BY <1>1, BeginsWire DEF TypeOK
<1>5. calls' \in [Ranks -> 0 .. Len(plan)]
  BY <1>1, <1>2 DEF TypeOK
<1>6. pc' \in [Ranks -> {"out", "sending", "sent", "size", "data", "cast", "hear", "raised"}]
  BY <1>1, <1>2 DEF TypeOK, Begins
<1>7. ary' \in [Ranks -> [Ranks -> [of : Ranks, n : Nat] \cup {None}]]
  <2>1. Fresh(p) \in Nat
    BY <1>1, <1>2, PlanOk
  <2>2. [q \in Ranks |-> IF q = p /\ Role(p, "gather", TRUE) THEN [of |-> p, n |-> Fresh(p)] ELSE None]
          \in [Ranks -> [of : Ranks, n : Nat] \cup {None}]
    BY <2>1
  <2> QED BY <1>1, <1>2, <2>2 DEF TypeOK
<1>8. \A n \in DOMAIN plan : cast'[n] \in Seq(Message) /\ Len(cast'[n]) <= 2
  <2>1. cast' = IF next = "cast" THEN [cast EXCEPT ![Fresh(p)] = <<Size(l)>>] ELSE cast
    BY DEF Begins
  <2>2. next = "cast" => Size(l) \in Message
    BY BeginsLetter, PartTypes DEF Begins
  <2>3. next = "cast" => <<Size(l)>> \in Seq(Message) /\ Len(<<Size(l)>>) <= 2
    BY <2>2
  <2> QED BY <1>1, <2>1, <2>3 DEF TypeOK
<1>9. out' \in [Ranks -> Letter \cup {None}]
  BY <1>1, <1>2, <1>3 DEF TypeOK
<1> QED BY <1>1, <1>2, <1>4, <1>5, <1>6, <1>7, <1>8, <1>9 DEF TypeOK

LEMMA BeginsShape ==
  ASSUME IInv, NEW p \in Ranks, NEW l, NEW next, NEW W, Begins(p, l, next, W)
  PROVE  CallShape'
<1>1. /\ plan' = plan /\ k' = k /\ first' = first /\ pc[p] = "out" /\ first[p] = None
      /\ calls'[p] = Fresh(p) /\ pc'[p] = next /\ out'[p] = l
      /\ next # "out" /\ next # "data"
      /\ \A q \in Ranks \ {p} : calls'[q] = calls[q] /\ pc'[q] = pc[q] /\ out'[q] = out[q]
  BY BeginsPoints
<1>2. DOMAIN cast = DOMAIN plan /\ Fresh(p) \in DOMAIN plan
  BY DEF IInv, CallShape, Formed, Begins
<1>3. cast' = IF next = "cast" THEN [cast EXCEPT ![Fresh(p)] = <<Size(l)>>] ELSE cast
  BY DEF Begins
<1>4. DOMAIN cast' = DOMAIN plan'
  BY <1>1, <1>2, <1>3
<1>5. ASSUME NEW q \in Ranks \ {p}
      PROVE  Formed(q)'
  <2>1. Formed(q)
    BY DEF IInv, CallShape, Formed
  <2>2. pc[q] = "cast" => cast'[calls[q]] = cast[calls[q]]
    <3>1. next = "cast" => plan[Fresh(p)] = <<"bcast", p>>
      BY DEF Begins
    <3>2. pc[q] = "cast" => plan[calls[q]] = <<"bcast", q>> /\ calls[q] \in DOMAIN plan
      BY <2>1 DEF Formed
    <3> QED BY <1>2, <1>3, <3>1, <3>2
  <2> QED BY <1>1, <2>1, <2>2, FormedFrame
<1>6. Formed(p)'
  <2>1. /\ next \in {"size", "data"} => plan[Fresh(p)] \in {<<"gather", p>>, <<"report", p>>}
        /\ next \in {"sending", "sent", "cast", "hear"} => plan[Fresh(p)] # <<"gather", p>>
        /\ next = "sending" => plan[Fresh(p)][1] = "report" /\ plan[Fresh(p)][2] # p
        /\ next \in {"sending", "cast"} => l # None
        /\ next = "cast" => plan[Fresh(p)] = <<"bcast", p>> /\ Len(cast'[Fresh(p)]) = 1
    BY <1>2, <1>3 DEF Begins
  <2>2. l # None => l.src = p /\ l.n = Fresh(p)
    BY BeginsLetter
  <2> QED BY <1>1, <1>2, <2>1, <2>2 DEF Formed, Receiving, Kind, Root
<1> QED BY <1>4, <1>5, <1>6 DEF CallShape

LEMMA BeginsLetters ==
  ASSUME IInv, NEW p \in Ranks, NEW l, NEW next, NEW W, Begins(p, l, next, W)
  PROVE  Letters'
<1>1. /\ plan' = plan /\ Fresh(p) \in Nat /\ calls[p] < Fresh(p) /\ calls'[p] = Fresh(p)
      /\ \A q \in Ranks : calls[q] \in Nat /\ calls'[q] \in Nat /\ calls[q] <= calls'[q]
  BY BeginsPoints, BeginsCalls
<1>2. \A l2 \in Live' : l2 \in Live \/ (l2 = l /\ l # None)
  BY BeginsLive
<1>3. l # None => /\ l.src = p /\ l.n = Fresh(p) /\ l.obj = p /\ l.dst = plan[Fresh(p)][2]
                  /\ l.tag = Tag(Fresh(p)) /\ Fresh(p) \in DOMAIN plan /\ Fresh(p) \in 1 .. Fresh(p)
  <2>1. Fresh(p) \in DOMAIN plan /\ Fresh(p) \in 1 .. Fresh(p)
    BY PlanOk DEF Begins, IInv
  <2> QED BY <2>1, BeginsLetter
<1>4. ASSUME NEW l2 \in Live'
      PROVE  /\ l2.n \in 1 .. calls'[l2.src] /\ l2.n \in DOMAIN plan
             /\ l2.dst = plan[l2.n][2] /\ l2.tag = Tag(l2.n) /\ l2.obj = l2.src
  <2>1. CASE l2 \in Live
    <3>1. /\ l2.n \in 1 .. calls[l2.src] /\ l2.n \in DOMAIN plan /\ l2.src \in Ranks
          /\ l2.dst = plan[l2.n][2] /\ l2.tag = Tag(l2.n) /\ l2.obj = l2.src
      BY <2>1, LiveFacts DEF IInv, Letters
    <3> QED BY <1>1, <3>1
  <2> QED BY <1>1, <1>2, <1>3, <1>4, <2>1
<1>5. ASSUME NEW l1 \in Live', NEW l2 \in Live', l1.src = l2.src, l1.n = l2.n
      PROVE  l1 = l2
  <2>1. \A x \in Live : x.src = p => x.n # Fresh(p)
    BY <1>1, LiveFacts
  <2> QED BY <1>2, <1>3, <1>5, <2>1, OneLetter
<1>6. \A m \in wire' : m.of.src # m.of.dst /\ plan[m.of.n][1] # "bcast"
  <2>1. \A m \in wire : m.of.src # m.of.dst /\ plan[m.of.n][1] # "bcast"
    BY DEF IInv, Letters
  <2>2. \A m \in W : m.of.src # m.of.dst /\ plan[m.of.n][1] # "bcast"
    BY <1>3, BeginsWire
  <2> QED BY <2>1, <2>2, BeginsWire
<1> QED BY <1>1, <1>4, <1>5, <1>6 DEF Letters, Tag

LEMMA BeginsPairs ==
  ASSUME IInv, NEW p \in Ranks, NEW l, NEW next, NEW W, Begins(p, l, next, W)
  PROVE  SizeBeforeData'
<1>1. /\ first' = first /\ pc[p] = "out" /\ pc'[p] = next /\ out'[p] = l /\ next # "data"
      /\ \A q \in Ranks \ {p} : pc'[q] = pc[q] /\ out'[q] = out[q]
  BY BeginsPoints
<1>2. /\ wire' = wire \cup W
      /\ \A m \in W : l # None /\ m.of = l /\ l.src = p /\ m \in {Size(l), Data(l)}
      /\ next \in {"sent", "sending", "raised"} => Size(l) \in W
      /\ Data(l) \in W => next = "sent" /\ Whole(l) /\ Size(l) \in W
      /\ next = "sent" => Data(l) \in W
      /\ next = "raised" => ~Whole(l)
  BY BeginsWire
<1>3. next = "sending" => l # None /\ l \notin Live
  BY BeginsLetter DEF Begins
<1>4. \A l2 : l2.dst \in Ranks /\ Reading(l2) => Reading(l2)'
  BY <1>1 DEF Reading
<1>5. ASSUME NEW m \in wire
      PROVE  Paired(m)'
  <2>1. Paired(m) /\ m.of.src \in Ranks /\ m.of.dst \in Ranks
    BY WireFacts DEF IInv, SizeBeforeData
  <2>2. pc[m.of.src] = "sending" => pc'[m.of.src] = "sending" /\ out'[m.of.src] = out[m.of.src]
    BY <1>1, <2>1
  <2> QED BY <1>2, <1>4, <2>1, <2>2 DEF Paired, Whole
<1>6. ASSUME NEW m \in W
      PROVE  Paired(m)'
  <2>1. m.of = l /\ l.src = p /\ m \in {Size(l), Data(l)}
    BY <1>2
  <2>2. CASE m = Size(l)
    <3>1. next \in {"sent", "sending", "raised"}
      BY <1>6 DEF Begins
    <3> QED BY <1>1, <1>2, <2>1, <2>2, <3>1, PartFields DEF Paired, Whole
  <2>3. CASE m = Data(l)
    BY <1>2, <1>6, <2>1, <2>3, PartFields DEF Paired, Whole
  <2> QED BY <2>1, <2>2, <2>3
<1>7. ASSUME NEW q \in Ranks \ {p}
      PROVE  Announced(q)'
  <2> SUFFICES ASSUME pc'[q] = "sending" PROVE Announced(q)'
    BY DEF Announced
  <2>1. pc[q] = "sending" /\ out'[q] = out[q] /\ out[q] # None /\ out[q].src = q
    BY <1>1 DEF IInv, CallShape, Formed
  <2>2. Announced(q) /\ out[q].dst \in Ranks
    BY <2>1, LiveMembers, LiveFacts DEF IInv, SizeBeforeData
  <2>3. Data(out[q]) \notin W
    BY <1>2, <2>1, PartFields
  <2> QED BY <1>2, <1>4, <2>1, <2>2, <2>3 DEF Announced, Whole
<1>8. Announced(p)'
  <2> SUFFICES ASSUME next = "sending" PROVE Announced(p)'
    BY <1>1 DEF Announced
  <2>1. Data(l) \notin wire /\ Data(l) \notin W /\ Size(l) \in W
    BY <1>2, <1>3, LiveMembers, PartFields
  <2> QED BY <1>1, <1>2, <2>1 DEF Announced
<1> QED BY <1>2, <1>5, <1>6, <1>7, <1>8 DEF SizeBeforeData

LEMMA BeginsReader ==
  ASSUME IInv, NEW p \in Ranks, NEW l, NEW next, NEW W, Begins(p, l, next, W)
  PROVE  ReaderOk'
<1>1. /\ plan' = plan /\ k' = k /\ first' = first /\ length' = length /\ pc[p] = "out"
      /\ next # "data" /\ pc'[p] = next
      /\ \A r \in Ranks \ {p} : calls'[r] = calls[r] /\ pc'[r] = pc[r] /\ out'[r] = out[r]
  BY BeginsPoints
<1>2. ASSUME NEW q \in Ranks, pc'[q] = "data"
      PROVE  Reads(q, first[q].of)'
  <2> DEFINE lq == first[q].of
  <2>1. q # p /\ pc[q] = "data" /\ calls'[q] = calls[q]
    BY <1>1, <1>2
  <2>2. Reads(q, lq) /\ lq \in Live /\ lq.src \in Ranks /\ lq.n \in Nat /\ lq.n <= calls[lq.src]
    BY <2>1, ReaderFacts
  <2>3. wire' = wire \cup W /\ \A m \in W : l # None /\ m.of = l /\ l.src = p
    BY BeginsWire
  <2>4. l # None => l.n = Fresh(p) /\ l \notin Live
    BY BeginsLetter
  <2>5. first[q] \notin wire'
    BY <2>2, <2>3, <2>4, PartFields DEF Reads
  <2>6. ASSUME NEW b \in W, Accepts(q, lq.src, lq.tag, b)
        PROVE  lq.n <= b.of.n
    <3>1. lq.src = p
      BY <2>2, <2>3, <2>6, RoundsOk DEF Accepts
    <3>2. calls[p] < Fresh(p) /\ Fresh(p) \in Nat /\ calls[p] \in Nat
      BY BeginsCalls
    <3> QED BY <2>2, <2>3, <2>4, <3>1, <3>2
  <2>7. \A b \in wire' : Accepts(q, lq.src, lq.tag, b) => lq.n <= b.of.n
    BY <2>2, <2>3, <2>6 DEF Reads
  <2>8. Whole(lq) => Data(lq) \in wire' \/ (pc'[lq.src] = "sending" /\ out'[lq.src] = lq)
    BY <1>1, <2>2, <2>3 DEF Reads
  <2>9. StillRaised(lq.src)
    BY <1>1, <2>2 DEF StillRaised
  <2> QED BY <1>1, <2>1, <2>5, <2>7, <2>8, <2>9, ReadsFrame
<1> QED BY <1>2 DEF ReaderOk

LEMMA BeginsCutShort ==
  ASSUME IInv, NEW p \in Ranks, NEW l, NEW next, NEW W, Begins(p, l, next, W)
  PROVE  CutShort'
<1>1. /\ pc[p] = "out" /\ pc'[p] = next /\ calls'[p] = Fresh(p)
      /\ \A r \in Ranks \ {p} : calls'[r] = calls[r] /\ pc'[r] = pc[r]
  BY BeginsPoints
<1>2. \A r \in Ranks : StillRaised(r)
  BY <1>1 DEF StillRaised
<1>3. ASSUME NEW m \in wire' \ wire, m.of.tag = GATHER_TAG, ~Whole(m.of)
      PROVE  CutOff(m.of)'
  <2>1. m \in W /\ l # None /\ m.of = l /\ l.src = p
    BY <1>3, BeginsWire
  <2>2. l.tag = Tag(Fresh(p)) /\ l.n = Fresh(p)
    BY <2>1, BeginsLetter
  <2>3. next # "sending"
    BY <1>3, <2>1, <2>2, RoundsOk DEF Begins, Tag
  <2>4. next = "raised"
    BY <1>3, <2>1, <2>3 DEF Begins
  <2> QED BY <1>1, <1>3, <2>1, <2>2, <2>4 DEF CutOff
<1> QED BY <1>2, <1>3, CutShortKept

LEMMA BeginsAwaited ==
  ASSUME IInv, NEW p \in Ranks, NEW l, NEW next, NEW W, Begins(p, l, next, W)
  PROVE  Awaited'
<1>1. /\ plan' = plan /\ k' = k /\ pc[p] = "out" /\ calls'[p] = Fresh(p)
      /\ \A r \in Ranks \ {p} : calls'[r] = calls[r] /\ pc'[r] = pc[r]
  BY BeginsPoints
<1>2. /\ Fresh(p) \in Nat /\ Fresh(p) = calls[p] + 1 /\ Fresh(p) \in DOMAIN plan
      /\ \A r \in Ranks : calls[r] \in Nat
  BY BeginsCalls DEF Begins, Fresh
<1>3. wire' = wire \cup W
  BY BeginsWire
<1>4. SUFFICES ASSUME NEW r \in Ranks, NEW q \in Ranks, NEW n \in DOMAIN plan,
                      q # r, plan[n] = <<"gather", r>>, n <= calls'[q], Lacks(r, q, n)'
               PROVE  \E m \in wire' : m.kind = "size" /\ m.of.src = q /\ m.of.n = n
  BY <1>1 DEF Awaited
<1>5. n \in Nat
  BY PlanOk DEF IInv
<1>6. CASE q = p /\ n = Fresh(p)
  <2>1. next \in {"sent", "sending", "raised"} /\ l # None
    BY <1>4, <1>6 DEF Begins
  <2>2. Size(l) \in W /\ l.src = p /\ l.n = Fresh(p)
    BY <2>1, BeginsWire, BeginsLetter
  <2> QED BY <1>3, <1>6, <2>2, PartFields
<1>7. CASE ~(q = p /\ n = Fresh(p))
  <2>1. n <= calls[q]
    <3>1. CASE q = p
      BY <1>1, <1>2, <1>4, <1>5, <1>7, <3>1
    <3>2. CASE q # p
      BY <1>1, <1>4, <3>2
    <3> QED BY <3>1, <3>2
  <2>2. Lacks(r, q, n)
    <3>1. CASE r = p
      BY <1>1, <1>2, <1>4, <1>5, <3>1 DEF Lacks, Receiving
    <3>2. CASE r # p
      BY <1>1, <1>4, <3>2 DEF Lacks, Receiving
    <3> QED BY <3>1, <3>2
  <2>3. \E m \in wire : m.kind = "size" /\ m.of.src = q /\ m.of.n = n
    BY <1>4, <2>1, <2>2, OnItsWay
  <2> QED BY <1>3, <2>3
<1> QED BY <1>6, <1>7

LEMMA BeginsNothingOld ==
  ASSUME IInv, NEW p \in Ranks, NEW l, NEW next, NEW W, Begins(p, l, next, W)
  PROVE  NothingOld'
<1>1. /\ plan' = plan /\ k' = k /\ pc[p] = "out" /\ calls'[p] = Fresh(p) /\ k[p] = 0
      /\ pc'[p] = next /\ next # "out"
      /\ \A r \in Ranks \ {p} : calls'[r] = calls[r] /\ pc'[r] = pc[r]
  BY BeginsPoints
<1>2. /\ Fresh(p) \in Nat /\ Fresh(p) = calls[p] + 1 /\ Fresh(p) \in DOMAIN plan
      /\ \A r \in Ranks : calls[r] \in Nat
  BY BeginsCalls DEF Begins, Fresh
<1>3. ASSUME NEW m \in wire, m.of.tag = GATHER_TAG
      PROVE  StillDue(m.of.dst, m)'
  <2>1. StillDue(m.of.dst, m) /\ m.of.n \in Nat /\ m.of.dst \in Ranks /\ m.of.src \in Ranks
        /\ m.of.src # m.of.dst
    BY <1>3, WireFacts DEF IInv, NothingOld
  <2>2. CASE m.of.dst = p
    <3>1. Turn(p, m.of.src) >= 0
      BY <2>1, <2>2, Turns, RoundsOk
    <3>2. m.of.n >= Fresh(p)
      BY <1>1, <1>2, <2>1, <2>2 DEF StillDue
    <3> QED BY <1>1, <2>2, <3>1, <3>2 DEF StillDue, Turn
  <2>3. CASE m.of.dst # p
    BY <1>1, <2>1, <2>3 DEF StillDue, Receiving, Turn
  <2> QED BY <2>2, <2>3
<1>4. ASSUME NEW m \in W, m.of.tag = GATHER_TAG
      PROVE  StillDue(m.of.dst, m)'
  <2>1. l # None /\ m.of = l /\ l.src = p /\ l.dst # p /\ plan[Fresh(p)][1] # "bcast"
    BY <1>4, BeginsWire
  <2>2. l.n = Fresh(p) /\ l.dst = plan[Fresh(p)][2] /\ l.tag = Tag(Fresh(p))
    BY <2>1, BeginsLetter
  <2> DEFINE r == l.dst
  <2>3. r \in Ranks /\ r # p /\ plan[Fresh(p)] = <<"gather", r>>
    BY <1>2, <1>4, <2>1, <2>2, PlanOk, TagIs DEF IInv
  <2>4. ~(Fresh(p) < calls[r] \/ (Fresh(p) = calls[r] /\ pc[r] = "out"))
    <3>1. ~(Fresh(p) <= calls[p])
      BY <1>2
    <3> QED BY <1>2, <2>3, <3>1 DEF IInv, Visited
  <2>5. Fresh(p) = calls[r] /\ Receiving(r) => Turn(r, p) >= k[r]
    <3> SUFFICES ASSUME Fresh(p) = calls[r], Receiving(r), ~(Turn(r, p) >= k[r])
                 PROVE  FALSE
      OBVIOUS
    <3>1. Kind(r) = "gather"
      BY <2>3 DEF Kind
    <3>2. Turn(r, p) < k[r]
      BY <2>3, Turns, Shape
    <3>3. calls[p] >= calls[r]
      BY <2>3, <3>1, <3>2 DEF IInv, Filled, RowFilled
    <3> QED BY <1>2, <3>3
  <2>6. calls'[r] = calls[r] /\ pc'[r] = pc[r] /\ k'[r] = k[r] /\ calls[r] \in Nat
    BY <1>1, <1>2, <2>3
  <2> QED BY <1>2, <2>1, <2>2, <2>4, <2>5, <2>6 DEF StillDue, Receiving, Turn
<1> QED BY <1>3, <1>4, BeginsWire DEF NothingOld

LEMMA BeginsRowsOk ==
  ASSUME IInv, NEW p \in Ranks, NEW l, NEW next, NEW W, Begins(p, l, next, W)
  PROVE  Filled' /\ Visited' /\ InPlace'
<1>1. /\ plan' = plan /\ k' = k /\ pc[p] = "out" /\ calls'[p] = Fresh(p) /\ k[p] = 0
      /\ pc'[p] = next /\ next # "out"
      /\ \A r \in Ranks \ {p} : calls'[r] = calls[r] /\ pc'[r] = pc[r]
  BY BeginsPoints
<1>2. /\ Fresh(p) \in Nat /\ Fresh(p) = calls[p] + 1 /\ Fresh(p) \in DOMAIN plan
      /\ \A r \in Ranks : calls[r] \in Nat /\ calls'[r] \in Nat /\ calls[r] <= calls'[r]
  BY BeginsCalls DEF Begins, Fresh
<1>3. /\ \A q \in Ranks \ {p} : ary'[q] = ary[q]
      /\ \A q \in Ranks : ary'[p][q] # None => ary'[p][q] = [of |-> p, n |-> Fresh(p)] /\ q = p
      /\ plan[Fresh(p)] = <<"gather", p>> => ary'[p][p] # None
  BY BeginsRows
<1>4. InPlace'
  BY <1>1, <1>3 DEF IInv, InPlace
<1>5. Visited'
  <2> SUFFICES ASSUME NEW r \in Ranks, NEW q \in Ranks, NEW n \in DOMAIN plan,
                      plan[n] = <<"gather", r>>,
                      n < calls'[r] \/ (n = calls'[r] /\ pc'[r] = "out")
               PROVE  n <= calls'[q]
    BY <1>1 DEF Visited
  <2>1. n \in Nat
    BY PlanOk DEF IInv
  <2>2. n < calls[r] \/ (n = calls[r] /\ pc[r] = "out")
    <3>1. CASE r = p
      BY <1>1, <1>2, <2>1, <3>1
    <3>2. CASE r # p
      BY <1>1, <3>2
    <3> QED BY <3>1, <3>2
  <2>3. n <= calls[q]
    BY <2>2 DEF IInv, Visited
  <2> QED BY <1>2, <2>1, <2>3
<1>6. ASSUME NEW r \in Ranks
      PROVE  RowFilled(r)'
  <2>1. CASE r = p
    <3>1. \A q \in Ranks : ary'[p][q] # None => calls'[q] >= calls'[p]
      BY <1>1, <1>2, <1>3
    <3>2. ASSUME Receiving(p)', Kind(p)' = "gather", NEW q \in Ranks, q = p \/ Turn(p, q) < 0
          PROVE  ary'[p][q] # None
      <4>1. plan[Fresh(p)] = <<"gather", p>>
        BY <1>1, <3>2 DEF Receiving, Kind, Begins
      <4>2. q = p
        BY <3>2, Turns, RoundsOk
      <4> QED BY <1>3, <4>1, <4>2
    <3> QED BY <1>1, <2>1, <3>1, <3>2 DEF RowFilled, Turn
  <2>2. CASE r # p
    <3>1. RowFilled(r)
      BY DEF IInv, Filled
    <3>2. ary'[r] = ary[r] /\ calls'[r] = calls[r] /\ pc'[r] = pc[r]
      BY <1>1, <1>3, <2>2
    <3>3. \A q \in Ranks : ary'[r][q] # None => calls'[q] >= calls'[r]
      BY <1>2, <3>1, <3>2 DEF RowFilled
    <3> QED BY <1>1, <3>1, <3>2, <3>3 DEF RowFilled, Receiving, Kind, Turn
  <2> QED BY <2>1, <2>2
<1> QED BY <1>4, <1>5, <1>6 DEF Filled

LEMMA CallPreserves ==
  ASSUME IInv, NEW p \in Ranks, Call(p)
  PROVE  IInv'
<1>1. PICK l, next, W : Begins(p, l, next, W)
  BY CallBegins
<1> QED BY <1>1, BeginsType, BeginsShape, BeginsLetters, BeginsPairs, BeginsReader, BeginsCutShort,
           BeginsAwaited, BeginsNothingOld, BeginsRowsOk DEF IInv
-----------------------------------------------------------------------------
(* The ways to return, or to raise in a step that takes nothing.            *)

Returns(p, how) ==
  /\ Return(p, how) /\ wire' = wire /\ how \in {"out", "raised"}
  /\ pc[p] \in {"sending", "sent", "size", "cast", "hear"}
  /\ pc[p] = "sending" => how = "raised" /\ ~Whole(out[p])
  /\ pc[p] = "size" => how = "out" /\ Received(p)
  /\ \/ cast' = cast
     \/ pc[p] = "cast" /\ cast' = [cast EXCEPT ![calls[p]] = Append(@, Data(out[p]))]

LEMMA ReturnSteps ==
  ASSUME NEW p, \/ SendReturns(p) \/ Leave(p) \/ CastData(p) \/ Hear(p)
                \/ SendData(p) /\ ~Whole(out[p])
  PROVE  \E how : Returns(p, how)
<1>1. CASE SendReturns(p)
  <2>1. Returns(p, "out")
    BY <1>1 DEF SendReturns, Returns
  <2> QED BY <2>1
<1>2. CASE Leave(p)
  <2>1. Returns(p, "out")
    BY <1>2 DEF Leave, Received, Returns
  <2> QED BY <2>1
<1>3. CASE CastData(p)
  <2>1. Returns(p, IF Whole(out[p]) THEN "out" ELSE "raised")
    BY <1>3 DEF CastData, Returns
  <2> QED BY <2>1
<1>4. CASE Hear(p)
  <2>1. PICK how \in {"out", "raised"} : Return(p, how)
    BY <1>4 DEF Hear
  <2>2. Returns(p, how)
    BY <1>4, <2>1 DEF Hear, Returns
  <2> QED BY <2>2
<1>5. CASE SendData(p) /\ ~Whole(out[p])
  <2>1. Returns(p, "raised")
    BY <1>5 DEF SendData, Returns
  <2> QED BY <2>1
<1> QED BY <1>1, <1>2, <1>3, <1>4, <1>5

\* Field by field.
LEMMA ReturnsPoints ==
  ASSUME IInv, NEW p \in Ranks, NEW how, Returns(p, how)
  PROVE  /\ plan' = plan /\ calls' = calls /\ first' = first /\ length' = length /\ ary' = ary
         /\ wire' = wire /\ first[p] = None /\ pc[p] # "out" /\ pc[p] # "data"
         /\ pc'[p] = how /\ out'[p] = None /\ k'[p] = 0 /\ how \in {"out", "raised"}
         /\ \A q \in Ranks \ {p} : pc'[q] = pc[q] /\ out'[q] = out[q] /\ k'[q] = k[q]
<1>1. /\ plan' = plan /\ calls' = calls /\ first' = first /\ length' = length /\ ary' = ary
      /\ wire' = wire /\ pc[p] # "out" /\ pc[p] # "data" /\ pc[p] # "raised"
      /\ pc' = [pc EXCEPT ![p] = how] /\ out' = [out EXCEPT ![p] = None]
      /\ k' = [k EXCEPT ![p] = 0] /\ how \in {"out", "raised"}
  BY DEF Returns, Return
<1>2. first[p] = None
  BY <1>1 DEF IInv, CallShape, Formed
<1> QED BY <1>1, <1>2 DEF IInv, TypeOK

LEMMA ReturnsLive ==
  ASSUME IInv, NEW p \in Ranks, NEW how, Returns(p, how)
  PROVE  Live' \subseteq Live
<1> SUFFICES ASSUME NEW l \in Live' PROVE l \in Live
  OBVIOUS
<1>1. /\ wire' = wire /\ first' = first /\ out'[p] = None
      /\ \A q \in Ranks \ {p} : out'[q] = out[q]
  BY ReturnsPoints
<1>2. \/ \E m \in wire' : l = m.of
      \/ \E q \in Ranks : out'[q] # None /\ l = out'[q]
      \/ \E q \in Ranks : first'[q] # None /\ l = first'[q].of
  BY DEF Live
<1> QED BY <1>1, <1>2, LiveMembers

LEMMA ReturnsType ==
  ASSUME IInv, NEW p \in Ranks, NEW how, Returns(p, how)
  PROVE  TypeOK' /\ CallShape'
<1>1. /\ plan' = plan /\ calls' = calls /\ first' = first /\ length' = length /\ ary' = ary
      /\ wire' = wire /\ first[p] = None /\ pc[p] # "out"
      /\ pc'[p] = how /\ out'[p] = None /\ k'[p] = 0 /\ how \in {"out", "raised"}
      /\ \A q \in Ranks \ {p} : pc'[q] = pc[q] /\ out'[q] = out[q] /\ k'[q] = k[q]
  BY ReturnsPoints
<1>2. TypeOK /\ DOMAIN cast = DOMAIN plan /\ calls[p] \in DOMAIN plan /\ Formed(p)
  BY <1>1 DEF IInv, CallShape, Formed
<1>3. 0 \in 0 .. N - 1
  BY RoundsOk
<1>4. pc[p] = "cast" => /\ out[p] # None /\ out[p] \in Letter /\ plan[calls[p]] = <<"bcast", p>>
                        /\ Len(cast[calls[p]]) = 1 /\ cast[calls[p]] \in Seq(Message)
                        /\ Data(out[p]) \in Message
  BY <1>2, LiveMembers, LiveFacts DEF Formed, TypeOK
<1>5. /\ DOMAIN cast' = DOMAIN plan
      /\ \A n \in DOMAIN plan : cast'[n] \in Seq(Message) /\ Len(cast'[n]) <= 2
  <2>1. CASE cast' = cast
    BY <1>2, <2>1 DEF TypeOK
  <2>2. CASE pc[p] = "cast" /\ cast' = [cast EXCEPT ![calls[p]] = Append(@, Data(out[p]))]
    <3>1. /\ Append(cast[calls[p]], Data(out[p])) \in Seq(Message)
          /\ Len(Append(cast[calls[p]], Data(out[p]))) = 2
      <4>1. ASSUME NEW s \in Seq(Message), Len(s) = 1, NEW d \in Message
            PROVE  Append(s, d) \in Seq(Message) /\ Len(Append(s, d)) = 2
        BY <4>1
      <4> QED BY <1>4, <2>2, <4>1
    <3> QED BY <1>2, <2>2, <3>1 DEF TypeOK
  <2> QED BY <2>1, <2>2 DEF Returns
<1>6. TypeOK'
  <2>1. pc' = [pc EXCEPT ![p] = how] /\ out' = [out EXCEPT ![p] = None] /\ k' = [k EXCEPT ![p] = 0]
    BY DEF Returns, Return
  <2>2. pc' \in [Ranks -> {"out", "sending", "sent", "size", "data", "cast", "hear", "raised"}]
        /\ out' \in [Ranks -> Letter \cup {None}] /\ k' \in [Ranks -> 0 .. N - 1]
    BY <1>1, <1>2, <1>3, <2>1 DEF TypeOK
  <2> QED BY <1>1, <1>2, <1>5, <2>2 DEF TypeOK
<1>7. Formed(p)'
  BY <1>1, <1>2 DEF Formed, Receiving
<1>8. ASSUME NEW q \in Ranks \ {p} PROVE Formed(q)'
  <2>1. Formed(q)
    BY DEF IInv, CallShape
  <2>2. pc[q] = "cast" => cast'[calls[q]] = cast[calls[q]]
    <3>1. pc[q] = "cast" => plan[calls[q]] = <<"bcast", q>> /\ calls[q] \in DOMAIN plan
      BY <2>1 DEF Formed
    <3> QED BY <1>2, <1>4, <3>1 DEF Returns
  <2> QED BY <1>1, <2>1, <2>2, FormedFrame
<1> QED BY <1>1, <1>5, <1>6, <1>7, <1>8 DEF CallShape

LEMMA ReturnsRest ==
  ASSUME IInv, NEW p \in Ranks, NEW how, Returns(p, how)
  PROVE  Letters' /\ SizeBeforeData' /\ CutShort' /\ ReaderOk'
<1>1. /\ plan' = plan /\ calls' = calls /\ first' = first /\ length' = length /\ k'[p] = 0
      /\ wire' = wire /\ pc[p] # "data" /\ pc[p] # "raised"
      /\ pc'[p] = how /\ out'[p] = None /\ how \in {"out", "raised"}
      /\ \A q \in Ranks \ {p} : pc'[q] = pc[q] /\ out'[q] = out[q] /\ k'[q] = k[q]
  BY ReturnsPoints DEF Returns
<1>a. \A r \in Ranks : StillRaised(r)
  BY <1>1 DEF StillRaised
<1>b. CutShort'
  BY <1>1, <1>a, CutShortKept
<1>2. pc[p] = "sending" => ~Whole(out[p])
  BY DEF Returns
<1>3. Letters'
  <2>1. Live' \subseteq Live
    BY ReturnsLive
  <2> QED BY <1>1, <2>1 DEF IInv, Letters, Tag
<1>4. \A l : l.dst \in Ranks /\ Reading(l) => Reading(l)'
  BY <1>1 DEF Reading
<1>5. ASSUME NEW m \in wire PROVE Paired(m)'
  <2>1. Paired(m) /\ m.of.src \in Ranks /\ m.of.dst \in Ranks
    BY WireFacts DEF IInv, SizeBeforeData
  <2>2. pc[m.of.src] = "sending" /\ out[m.of.src] = m.of /\ Whole(m.of)
          => pc'[m.of.src] = "sending" /\ out'[m.of.src] = out[m.of.src]
    BY <1>1, <1>2, <2>1
  <2> QED BY <1>1, <1>4, <2>1, <2>2 DEF Paired, Whole
<1>6. ASSUME NEW q \in Ranks, pc'[q] = "sending" PROVE Announced(q)'
  <2>1. q # p
    BY <1>1, <1>6
  <2>2. pc[q] = "sending" /\ out'[q] = out[q] /\ out[q] # None
    BY <1>1, <1>6, <2>1 DEF IInv, CallShape, Formed
  <2>3. Announced(q) /\ out[q].dst \in Ranks
    BY <2>2, LiveMembers, LiveFacts DEF IInv, SizeBeforeData
  <2> QED BY <1>1, <1>4, <2>2, <2>3 DEF Announced, Whole
<1>7. \A q \in Ranks : Announced(q)'
  BY <1>6 DEF Announced
<1>8. ASSUME NEW q \in Ranks, pc'[q] = "data" PROVE Reads(q, first[q].of)'
  <2>1. q # p
    BY <1>1, <1>8
  <2>2. pc[q] = "data" /\ k'[q] = k[q]
    BY <1>1, <1>8, <2>1
  <2> DEFINE l == first[q].of
  <2>3. Reads(q, l) /\ l.src \in Ranks
    BY <2>2, ReaderFacts
  <2>4. Whole(l) => Data(l) \in wire' \/ (pc'[l.src] = "sending" /\ out'[l.src] = l)
    BY <1>1, <1>2, <2>3 DEF Reads
  <2>5. /\ first[q] \notin wire'
        /\ \A b \in wire' : Accepts(q, l.src, l.tag, b) => l.n <= b.of.n
    BY <1>1, <2>3 DEF Reads
  <2> QED BY <1>1, <1>a, <2>2, <2>3, <2>4, <2>5, ReadsFrame
<1> QED BY <1>1, <1>3, <1>5, <1>7, <1>8, <1>b DEF SizeBeforeData, ReaderOk

\* A gather that returns at its root has filled the row.
LEMMA LastTurn ==
  ASSUME IInv, NEW p \in Ranks, Received(p), Kind(p) = "gather", NEW q \in Ranks
  PROVE  ary[p][q] # None /\ ary[p][q] = [of |-> q, n |-> calls[p]] /\ calls[q] >= calls[p]
<1>1. Receiving(p) /\ k[p] + 1 = N /\ k[p] \in 0 .. N - 1 /\ N \in Nat
  BY Shape, RoundsOk DEF Received, Receiving
<1>2. q = p \/ Turn(p, q) < k[p]
  BY <1>1, Turns
<1>3. ary[p][q] # None
  BY <1>1, <1>2 DEF IInv, Filled, RowFilled
<1> QED BY <1>3 DEF IInv, Filled, RowFilled, InPlace

LEMMA ReturnsRows ==
  ASSUME IInv, NEW p \in Ranks, NEW how, Returns(p, how)
  PROVE  Awaited' /\ NothingOld' /\ Filled' /\ Visited' /\ InPlace'
<1>1. /\ plan' = plan /\ calls' = calls /\ ary' = ary /\ wire' = wire /\ pc[p] # "out"
      /\ pc'[p] = how /\ how \in {"out", "raised"}
      /\ \A q \in Ranks \ {p} : pc'[q] = pc[q] /\ k'[q] = k[q]
  BY ReturnsPoints
<1>2. how = "out" /\ plan[calls[p]] = <<"gather", p>> => pc[p] = "size" /\ Received(p) /\ Kind(p) = "gather"
  BY Shape DEF Returns, Kind
<1>3. Awaited'
  <2> SUFFICES ASSUME NEW r \in Ranks, NEW q \in Ranks, NEW n \in DOMAIN plan,
                      q # r, plan[n] = <<"gather", r>>, n <= calls[q], Lacks(r, q, n)'
               PROVE  \E m \in wire : m.kind = "size" /\ m.of.src = q /\ m.of.n = n
    BY <1>1 DEF Awaited
  <2>1. Lacks(r, q, n)
    <3>1. CASE r = p
      BY <1>1, <3>1 DEF Lacks, Receiving
    <3>2. CASE r # p
      BY <1>1, <3>2 DEF Lacks, Receiving, Turn
    <3> QED BY <3>1, <3>2
  <2> QED BY <2>1, OnItsWay
<1>4. ASSUME NEW m \in wire, m.of.tag = GATHER_TAG PROVE StillDue(m.of.dst, m)'
  <2>1. StillDue(m.of.dst, m) /\ m.of.n \in Nat /\ m.of.dst \in Ranks /\ m.of.src \in Ranks
        /\ m.of.src # m.of.dst /\ plan[m.of.n] = <<"gather", m.of.dst>>
    BY <1>4, WireFacts DEF IInv, NothingOld
  <2>2. CASE m.of.dst = p
    <3>1. how = "out" => m.of.n # calls[p]
      <4> SUFFICES ASSUME how = "out", m.of.n = calls[p] PROVE FALSE
        OBVIOUS
      <4>1. Received(p) /\ Receiving(p) /\ k[p] + 1 = N
        BY <1>2, <2>1, <2>2 DEF Received, Receiving
      <4>2. Turn(p, m.of.src) >= k[p]
        BY <2>1, <2>2, <4>1 DEF StillDue
      <4> QED BY <2>1, <2>2, <4>1, <4>2, Turns, Shape, RoundsOk
    <3> QED BY <1>1, <2>1, <2>2, <3>1 DEF StillDue, Receiving
  <2>3. CASE m.of.dst # p
    BY <1>1, <2>1, <2>3 DEF StillDue, Receiving, Turn
  <2> QED BY <2>2, <2>3
<1>5. ASSUME NEW r \in Ranks PROVE RowFilled(r)'
  <2>1. RowFilled(r)
    BY DEF IInv, Filled
  <2>2. CASE r = p
    BY <1>1, <2>1, <2>2 DEF RowFilled, Receiving
  <2>3. CASE r # p
    BY <1>1, <2>1, <2>3 DEF RowFilled, Receiving, Kind, Turn
  <2> QED BY <2>2, <2>3
<1>6. Visited'
  <2> SUFFICES ASSUME NEW r \in Ranks, NEW q \in Ranks, NEW n \in DOMAIN plan,
                      plan[n] = <<"gather", r>>,
                      n < calls[r] \/ (n = calls[r] /\ pc'[r] = "out")
               PROVE  n <= calls[q]
    BY <1>1 DEF Visited
  <2>1. CASE n < calls[r] \/ (n = calls[r] /\ pc[r] = "out")
    BY <2>1 DEF IInv, Visited
  <2>2. CASE n = calls[r] /\ pc'[r] = "out" /\ pc[r] # "out"
    <3>1. r = p /\ how = "out"
      BY <1>1, <2>2
    <3>2. calls[q] >= calls[p]
      BY <1>2, <2>2, <3>1, LastTurn
    <3> QED BY <2>2, <3>1, <3>2, Shape
  <2> QED BY <2>1, <2>2
<1>7. InPlace'
  BY <1>1 DEF IInv, InPlace
<1> QED BY <1>1, <1>3, <1>4, <1>5, <1>6, <1>7 DEF NothingOld, Filled

LEMMA ReturnPreserves ==
  ASSUME IInv, NEW p \in Ranks, NEW how, Returns(p, how)
  PROVE  IInv'
BY ReturnsType, ReturnsRest, ReturnsRows DEF IInv
-----------------------------------------------------------------------------
(* A report's second message.                                               *)

LEMMA SendDataPreserves ==
  ASSUME IInv, NEW p \in Ranks, SendData(p), Whole(out[p])
  PROVE  IInv'
<1> DEFINE l == out[p]
           m0 == Data(l)
<1>1. /\ pc[p] = "sending" /\ wire' = wire \cup {m0} /\ pc' = [pc EXCEPT ![p] = "sent"]
      /\ UNCHANGED <<plan, calls, out, k, first, length, ary, cast>>
  BY DEF SendData
<1>2. /\ TypeOK /\ pc'[p] = "sent" /\ \A q \in Ranks \ {p} : pc'[q] = pc[q]
      /\ \A q \in Ranks : Receiving(q)' = Receiving(q)
  BY <1>1 DEF IInv, TypeOK, Receiving
<1>a. \A r \in Ranks : StillRaised(r)
  BY <1>1, <1>2 DEF StillRaised
<1>3. /\ l # None /\ l \in Live /\ l.src = p /\ l.n = calls[p] /\ Formed(p)
      /\ plan[calls[p]][1] = "report" /\ plan[calls[p]][2] # p
  BY <1>1, LiveMembers DEF IInv, CallShape, Formed, Kind, Root
<1>4. /\ l.dst = plan[l.n][2] /\ l.tag = ReportTag /\ l.dst \in Ranks /\ l.dst # p
      /\ l \in Letter /\ m0 \in Message /\ m0.of = l /\ m0.kind = "data"
  BY <1>3, LiveFacts, PartFields DEF Tag
<1>5. Announced(p) /\ m0 \notin wire
  BY <1>1 DEF IInv, SizeBeforeData, Announced
<1>6. TypeOK'
  <2>1. pc' \in [Ranks -> {"out", "sending", "sent", "size", "data", "cast", "hear", "raised"}]
    BY <1>1, <1>2 DEF TypeOK
  <2> QED BY <1>1, <1>2, <1>4, <2>1 DEF TypeOK
<1>7. CallShape'
  <2>1. Formed(p)'
    BY <1>1, <1>2, <1>3 DEF Formed, Receiving
  <2>2. \A q \in Ranks \ {p} : Formed(q)'
    BY <1>1, <1>2, FormedFrame DEF IInv, CallShape
  <2> QED BY <1>1, <2>1, <2>2 DEF IInv, CallShape
<1>8. Letters'
  <2>1. Live' \subseteq Live
    BY <1>1, <1>3, <1>4 DEF Live
  <2>2. m0.of.src # m0.of.dst /\ plan[m0.of.n][1] # "bcast"
    BY <1>3, <1>4
  <2> QED BY <1>1, <2>1, <2>2 DEF IInv, Letters, Tag
<1>9. \A l2 : l2.dst \in Ranks /\ Reading(l2) => Reading(l2)'
  BY <1>1, <1>2 DEF Reading
<1>10. ASSUME NEW m \in wire PROVE Paired(m)'
  <2>1. Paired(m) /\ m.of.src \in Ranks /\ m.of.dst \in Ranks
    BY WireFacts DEF IInv, SizeBeforeData
  <2>2. pc[m.of.src] = "sending" /\ out[m.of.src] = m.of
          => pc'[m.of.src] = "sending" \/ Data(m.of) = m0
    BY <1>2, <2>1
  <2> QED BY <1>1, <1>9, <2>1, <2>2 DEF Paired, Whole
<1>11. Paired(m0)'
  BY <1>1, <1>4, <1>5, <1>9 DEF Paired, Announced, Whole
<1>12. ASSUME NEW q \in Ranks, pc'[q] = "sending" PROVE Announced(q)'
  <2>1. q # p /\ pc[q] = "sending"
    BY <1>2, <1>12
  <2>2. out[q] # None /\ out[q].src = q
    BY <2>1 DEF IInv, CallShape, Formed
  <2>3. Announced(q) /\ out[q].dst \in Ranks /\ Data(out[q]) # m0
    BY <1>3, <1>4, <2>1, <2>2, LiveMembers, LiveFacts, PartFields DEF IInv, SizeBeforeData
  <2> QED BY <1>1, <1>9, <2>1, <2>3 DEF Announced, Whole
<1>13. SizeBeforeData'
  <2>1. \A q \in Ranks : Announced(q)'
    BY <1>12 DEF Announced
  <2> QED BY <1>1, <1>10, <1>11, <2>1 DEF SizeBeforeData
<1>14. ASSUME NEW q \in Ranks, pc'[q] = "data" PROVE Reads(q, first[q].of)'
  <2> DEFINE lq == first[q].of
  <2>1. pc[q] = "data"
    BY <1>2, <1>14
  <2>2. Reads(q, lq) /\ lq \in Live /\ lq.src \in Ranks /\ lq.n <= calls[lq.src]
    BY <2>1, ReaderFacts
  <2>3. first[q] \notin wire'
    BY <1>1, <1>4, <2>2, PartFields DEF Reads
  <2>4. Accepts(q, lq.src, lq.tag, m0) => lq.n <= m0.of.n
    BY <1>3, <1>4, <2>2, RoundsOk DEF Accepts
  <2>5. \A b \in wire' : Accepts(q, lq.src, lq.tag, b) => lq.n <= b.of.n
    BY <1>1, <2>2, <2>4 DEF Reads
  <2>6. Whole(lq) => Data(lq) \in wire' \/ (pc'[lq.src] = "sending" /\ out'[lq.src] = lq)
    BY <1>1, <1>2, <2>2 DEF Reads
  <2> QED BY <1>1, <1>a, <2>1, <2>2, <2>3, <2>5, <2>6, ReadsFrame
<1>15. Awaited'
  <2> SUFFICES ASSUME NEW r \in Ranks, NEW q \in Ranks, NEW n \in DOMAIN plan,
                      q # r, plan[n] = <<"gather", r>>, n <= calls[q], Lacks(r, q, n)'
               PROVE  \E m \in wire' : m.kind = "size" /\ m.of.src = q /\ m.of.n = n
    BY <1>1 DEF Awaited
  <2>1. Lacks(r, q, n)
    BY <1>1, <1>2 DEF Lacks, Receiving, Turn
  <2> QED BY <1>1, <2>1, OnItsWay
<1>16. NothingOld'
  <2>1. ASSUME NEW m \in wire, m.of.tag = GATHER_TAG PROVE StillDue(m.of.dst, m)'
    <3>1. StillDue(m.of.dst, m) /\ m.of.dst \in Ranks
      BY <2>1, WireFacts DEF IInv, NothingOld
    <3> QED BY <1>1, <1>2, <3>1 DEF StillDue, Turn
  <2>2. m0.of.tag # GATHER_TAG
    BY <1>4, RoundsOk
  <2> QED BY <1>1, <2>1, <2>2 DEF NothingOld
<1>17. Filled' /\ Visited' /\ InPlace'
  <2>1. \A q \in Ranks : RowFilled(q)'
    BY <1>1, <1>2 DEF IInv, Filled, RowFilled, Kind, Turn
  <2>2. \A q \in Ranks : pc'[q] = "out" => pc[q] = "out"
    BY <1>2
  <2> QED BY <1>1, <2>1, <2>2 DEF IInv, Filled, Visited, InPlace
<1>18. CutShort'
  BY <1>1, <1>4, <1>a, CutShortKept
<1> QED BY <1>6, <1>7, <1>8, <1>13, <1>14, <1>15, <1>16, <1>17, <1>18 DEF IInv, ReaderOk
-----------------------------------------------------------------------------
(* The root takes a size.                                                   *)

LEMMA TakeSizePreserves ==
  ASSUME IInv, NEW p \in Ranks, TakeSize(p)
  PROVE  IInv'
<1>1. PICK m \in Due(p) :
        /\ wire' = wire \ {m} /\ first' = [first EXCEPT ![p] = m]
        /\ \E len \in Read(m) :
             /\ length' = [length EXCEPT ![p] = len]
             /\ pc' = [pc EXCEPT ![p] = IF Bytes(m) > IntBytes \/ Count(len) < 0
                                         THEN "raised" ELSE "data"]
  BY DEF TakeSize
<1> DEFINE l == m.of
<1>2. pc[p] = "size" /\ ~Received(p) /\ UNCHANGED <<plan, cast, calls, out, k, ary>>
  BY DEF TakeSize
<1>3. /\ m \in wire /\ m = Size(l) /\ m.kind = "size" /\ l.dst = p /\ l.tag = Tag(calls[p])
      /\ Kind(p) = "gather" => l.src = Sender(p) /\ l.n = calls[p]
      /\ \A b \in wire : Accepts(p, l.src, l.tag, b) => l.n <= b.of.n
  BY <1>2, DueSize
<1>4. /\ l \in Letter /\ l \in Live /\ m \in Message /\ l.src \in Ranks /\ l.src # p
      /\ m # None /\ l.len \in Lengths /\ Count(l.len) \in Int /\ l.n \in Nat
  BY <1>3, WireFacts, MessageParts, LetterFields, CountInt
<1>5. PICK len \in Lengths :
        /\ length' = [length EXCEPT ![p] = len]
        /\ pc' = [pc EXCEPT ![p] = IF Count(len) < 0 THEN "raised" ELSE "data"]
        /\ len = l.len \/ (l.tag = GATHER_TAG /\ ~Whole(l))
  <2>1. Stored(m) = {l.len} /\ Bytes(m) = IntBytes /\ ~(IntBytes > IntBytes)
    BY <1>3, IntsOk DEF Stored, Bytes
  <2> QED BY <1>1, <1>4, <2>1 DEF Read
<1>a. l.tag = GATHER_TAG /\ ~Whole(l) => CutOff(l)
  BY <1>3 DEF IInv, CutShort
<1>6. /\ TypeOK /\ Formed(p) /\ k[p] + 1 < N /\ Receiving(p)
      /\ pc'[p] \in {"data", "raised"} /\ first'[p] = m /\ length'[p] = len
      /\ Whole(l) => pc'[p] = "data" /\ len = l.len
      /\ pc'[p] = "data" /\ ~Whole(l) => CutOff(l)
      /\ \A q \in Ranks \ {p} : pc'[q] = pc[q] /\ first'[q] = first[q] /\ length'[q] = length[q]
  <2>1. /\ TypeOK /\ Formed(p) /\ k[p] + 1 < N /\ Receiving(p)
    BY <1>2, Shape DEF IInv, CallShape, Receiving
  <2>2. pc'[p] = (IF Count(len) < 0 THEN "raised" ELSE "data")
    BY <1>5, <2>1 DEF TypeOK
  <2>3. len = l.len => (pc'[p] = "data" <=> Whole(l))
    BY <1>4, <2>2 DEF Whole
  <2> QED BY <1>1, <1>5, <1>a, <2>1, <2>2, <2>3 DEF TypeOK
<1>b. \A r \in Ranks : StillRaised(r)
  BY <1>2, <1>6 DEF StillRaised
<1>c. CutShort'
  BY <1>1, <1>b, CutShortKept
<1>7. TypeOK'
  <2>1. /\ wire' \subseteq Message /\ first' \in [Ranks -> Message \cup {None}]
        /\ length' \in [Ranks -> Lengths \cup {0}]
        /\ pc' \in [Ranks -> {"out", "sending", "sent", "size", "data", "cast", "hear", "raised"}]
    BY <1>1, <1>4, <1>5, <1>6 DEF TypeOK
  <2> QED BY <1>2, <1>6, <2>1 DEF TypeOK
<1>8. CallShape'
  <2>1. Formed(p)'
    BY <1>2, <1>4, <1>6 DEF Formed, Receiving, Kind, Root
  <2>2. \A q \in Ranks \ {p} : Formed(q)'
    BY <1>2, <1>6, FormedFrame DEF IInv, CallShape
  <2> QED BY <1>2, <2>1, <2>2 DEF IInv, CallShape
<1>9. Letters'
  <2>1. Live' \subseteq Live
    <3> SUFFICES ASSUME NEW x \in Live' PROVE x \in Live
      OBVIOUS
    <3>1. \/ \E b \in wire' : x = b.of
          \/ \E q \in Ranks : out'[q] # None /\ x = out'[q]
          \/ \E q \in Ranks : first'[q] # None /\ x = first'[q].of
      BY DEF Live
    <3> QED BY <1>1, <1>2, <1>4, <1>6, <3>1, LiveMembers
  <2> QED BY <1>1, <1>2, <2>1 DEF IInv, Letters, Tag
<1>10. \A l2 : l2.dst \in Ranks /\ Reading(l2) => Reading(l2)'
  BY <1>2, <1>6 DEF Reading
<1>11. Whole(l) => Reading(l)'
  BY <1>3, <1>6 DEF Reading
<1>12. \A b : b.kind = "data" \/ b \notin {m} => (b \in wire => b \in wire')
  BY <1>1, <1>3
<1>13. ASSUME NEW b \in wire' PROVE Paired(b)'
  <2>1. /\ b \in wire /\ b # m /\ Paired(b) /\ b.of.src \in Ranks /\ b.of.dst \in Ranks
    BY <1>1, WireFacts DEF IInv, SizeBeforeData
  <2>2. pc[b.of.src] = "sending" => pc'[b.of.src] = "sending"
    BY <1>2, <1>6, <2>1
  <2>3. Data(b.of) \in wire => Data(b.of) \in wire'
    BY <1>12, PartFields
  <2>4. Whole(b.of) /\ Size(b.of) \in wire => Size(b.of) \in wire' \/ Reading(b.of)'
    <3>1. Size(b.of) = m => b.of = l
      BY PartFields
    <3> QED BY <1>11, <1>12, <3>1
  <2> QED BY <1>2, <1>10, <2>1, <2>2, <2>3, <2>4 DEF Paired, Whole
<1>14. ASSUME NEW q \in Ranks, pc'[q] = "sending" PROVE Announced(q)'
  <2>1. q # p /\ pc[q] = "sending"
    BY <1>6, <1>14
  <2>2. Announced(q) /\ out[q] # None /\ out[q].dst \in Ranks
    BY <2>1, LiveMembers, LiveFacts DEF IInv, SizeBeforeData, CallShape, Formed
  <2>3. Whole(out[q]) /\ Size(out[q]) \in wire => Size(out[q]) \in wire' \/ Reading(out[q])'
    <3>1. Size(out[q]) = m => out[q] = l
      BY PartFields
    <3>2. out'[q] = l /\ Whole(l) => Reading(out[q])'
      BY <1>11 DEF Reading
    <3> QED BY <1>2, <1>12, <3>1, <3>2
  <2> QED BY <1>1, <1>2, <1>10, <2>1, <2>2, <2>3 DEF Announced, Whole
<1>15. SizeBeforeData'
  <2>1. \A q \in Ranks : Announced(q)'
    BY <1>14 DEF Announced
  <2> QED BY <1>13, <2>1 DEF SizeBeforeData
<1>16. ASSUME NEW q \in Ranks \ {p}, pc'[q] = "data" PROVE Reads(q, first[q].of)'
  <2> DEFINE lq == first[q].of
  <2>1. pc[q] = "data" /\ Reads(q, lq) /\ lq.src \in Ranks
    BY <1>6, <1>16, ReaderFacts
  <2>2. Whole(lq) => Data(lq) \in wire' \/ (pc'[lq.src] = "sending" /\ out'[lq.src] = lq)
    BY <1>2, <1>6, <1>12, <2>1, PartFields DEF Reads
  <2>3. /\ first[q] \notin wire'
        /\ \A b \in wire' : Accepts(q, lq.src, lq.tag, b) => lq.n <= b.of.n
    BY <1>1, <2>1 DEF Reads
  <2> QED BY <1>2, <1>6, <1>b, <2>1, <2>2, <2>3, ReadsFrame
<1>17. ASSUME pc'[p] = "data" PROVE Reads(p, first[p].of)'
  <2>1. Whole(l) => Data(l) \in wire' \/ (pc'[l.src] = "sending" /\ out'[l.src] = l)
    <3>1. Paired(m)
      BY <1>3 DEF IInv, SizeBeforeData
    <3> QED BY <1>2, <1>3, <1>4, <1>6, <1>12, <3>1, PartFields DEF Paired
  <2>2. ~Whole(l) => CutOff(l)'
    BY <1>4, <1>6, <1>17, <1>b DEF CutOff, StillRaised
  <2>3. Kind(p)' = Kind(p) /\ Sender(p)' = Sender(p) /\ Tag(calls[p])' = Tag(calls[p])
    BY <1>2 DEF Kind, Sender, Tag
  <2>4. Whole(l)' = Whole(l) /\ first'[p].of = l
    BY <1>6 DEF Whole
  <2> QED BY <1>1, <1>2, <1>3, <1>6, <2>1, <2>2, <2>3, <2>4 DEF Reads
<1>18. ReaderOk'
  BY <1>16, <1>17 DEF ReaderOk
<1>19. Awaited'
  <2> SUFFICES ASSUME NEW r \in Ranks, NEW q \in Ranks, NEW n \in DOMAIN plan,
                      q # r, plan[n] = <<"gather", r>>, n <= calls[q], Lacks(r, q, n)'
               PROVE  \E b \in wire' : b.kind = "size" /\ b.of.src = q /\ b.of.n = n
    BY <1>2 DEF Awaited
  <2>1. Lacks(r, q, n)
    BY <1>2, <1>6 DEF Lacks, Receiving, Turn
  <2>2. PICK b \in wire : b.kind = "size" /\ b.of.src = q /\ b.of.n = n
    BY <2>1, OnItsWay
  <2>3. b # m
    <3> SUFFICES ASSUME b = m PROVE FALSE
      OBVIOUS
    <3>1. l.src = q /\ l.n = n /\ l.dst = r
      BY <2>2, WireFacts
    <3>2. r = p /\ l.tag = GATHER_TAG
      BY <1>3, <3>1, WireFacts
    <3>3. Kind(p) = "gather"
      BY <1>3, <1>6, <3>2, Shape, RoundsOk DEF Tag, Kind
    <3>4. n = calls[p] /\ q = Sender(p)
      BY <1>3, <3>1, <3>3
    <3>5. Turn(p, q) = k[p]
      BY <1>6, <3>2, <3>3, <3>4, SenderTurn
    <3>6. pc'[p] # "size" /\ calls'[p] = calls[p] /\ k'[p] = k[p] /\ calls[p] \in Nat /\ k[p] \in Int
      BY <1>2, <1>6, Shape
    <3>7. ~(n > calls'[p]) /\ ~(Turn(p, q) > k'[p])
      BY <3>4, <3>5, <3>6
    <3> QED BY <3>2, <3>6, <3>7 DEF Lacks, Turn
  <2> QED BY <1>1, <2>2, <2>3
<1>20. \A q \in Ranks : Receiving(q)' => Receiving(q)
  BY <1>6 DEF Receiving
<1>21. \A q \in Ranks : pc'[q] = "out" => pc[q] = "out"
  BY <1>6
<1>22. NothingOld'
  <2>1. ASSUME NEW b \in wire', b.of.tag = GATHER_TAG PROVE StillDue(b.of.dst, b)'
    <3>1. b \in wire /\ StillDue(b.of.dst, b) /\ b.of.dst \in Ranks
      BY <1>1, <2>1, WireFacts DEF IInv, NothingOld
    <3> QED BY <1>2, <1>20, <1>21, <3>1 DEF StillDue, Turn
  <2> QED BY <2>1 DEF NothingOld
<1>23. Filled' /\ Visited' /\ InPlace'
  <2>1. \A q \in Ranks : RowFilled(q)'
    BY <1>2, <1>20 DEF IInv, Filled, RowFilled, Kind, Turn
  <2> QED BY <1>2, <1>21, <2>1 DEF IInv, Filled, Visited, InPlace
<1> QED BY <1>7, <1>8, <1>9, <1>15, <1>18, <1>19, <1>22, <1>23, <1>c DEF IInv
-----------------------------------------------------------------------------
(* The root takes the data.                                                 *)

\* Field by field: it takes the data of the letter it is reading, and either
\* raises or puts the object into the slot of the sender.
LEMMA TakeDataPoints ==
  ASSUME IInv, NEW p \in Ranks, TakeData(p)
  PROVE  /\ UNCHANGED <<plan, cast, calls, out>> /\ pc[p] = "data"
         /\ Data(first[p].of) \in wire /\ wire' = wire \ {Data(first[p].of)}
         /\ first' = [first EXCEPT ![p] = None] /\ length' = [length EXCEPT ![p] = 0]
         /\ \/ pc' = [pc EXCEPT ![p] = "raised"] /\ UNCHANGED <<k, ary>>
            \/ /\ pc' = [pc EXCEPT ![p] = "size"] /\ k' = [k EXCEPT ![p] = @ + 1]
               /\ Kind(p) = "report" => ary' = ary
               /\ Kind(p) = "gather" =>
                    ary' = [ary EXCEPT ![p][Sender(p)] = [of |-> Sender(p), n |-> calls[p]]]
<1>1. PICK m \in Due(p) :
        /\ wire' = wire \ {m}
        /\ IF Bytes(m) > Room(p) \/ Load(m) = Raised
           THEN pc' = [pc EXCEPT ![p] = "raised"] /\ UNCHANGED <<k, ary>>
           ELSE /\ pc' = [pc EXCEPT ![p] = "size"]
                /\ k' = [k EXCEPT ![p] = @ + 1]
                /\ ary' = IF Kind(p) = "report" THEN ary
                          ELSE [ary EXCEPT ![p][Sender(p)] = [of |-> m.of.obj, n |-> m.of.n]]
  BY DEF TakeData
<1>2. /\ pc[p] = "data" /\ UNCHANGED <<plan, cast, calls, out>>
      /\ first' = [first EXCEPT ![p] = None] /\ length' = [length EXCEPT ![p] = 0]
  BY DEF TakeData
<1>3. m \in wire /\ m = Data(first[p].of) /\ m.of = first[p].of
  BY <1>2, DueData, PartFields
<1>4. Kind(p) = "gather" => m.of.obj = Sender(p) /\ m.of.n = calls[p]
  BY <1>2, <1>3, ReaderFacts, WireFacts DEF Reads
<1>5. Kind(p) = "report" => Kind(p) # "gather"
  OBVIOUS
<1> QED BY <1>1, <1>2, <1>3, <1>4, <1>5

LEMMA TakeDataPreserves ==
  ASSUME IInv, NEW p \in Ranks, TakeData(p)
  PROVE  IInv'
<1> DEFINE l == first[p].of
           m == Data(l)
           taken == pc'[p] = "size"
<1>1. /\ UNCHANGED <<plan, cast, calls, out>> /\ pc[p] = "data" /\ m \in wire /\ wire' = wire \ {m}
      /\ first' = [first EXCEPT ![p] = None] /\ length' = [length EXCEPT ![p] = 0]
      /\ \/ pc' = [pc EXCEPT ![p] = "raised"] /\ UNCHANGED <<k, ary>>
         \/ /\ pc' = [pc EXCEPT ![p] = "size"] /\ k' = [k EXCEPT ![p] = @ + 1]
            /\ Kind(p) = "report" => ary' = ary
            /\ Kind(p) = "gather" =>
                 ary' = [ary EXCEPT ![p][Sender(p)] = [of |-> Sender(p), n |-> calls[p]]]
  BY TakeDataPoints
<1>2. /\ TypeOK /\ Formed(p) /\ k[p] + 1 < N /\ Receiving(p) /\ k[p] \in 0 .. N - 1 /\ N \in Nat
      /\ Kind(p) \in {"gather", "report"} /\ calls[p] \in Nat
  BY <1>1, Shape, RoundsOk DEF IInv, CallShape, Receiving
<1>3. /\ Reads(p, l) /\ first[p] = Size(l) /\ l \in Live /\ l \in Letter /\ l.dst = p
      /\ l.src \in Ranks /\ l.n \in Nat /\ l.n <= calls[l.src]
      /\ m.kind = "data" /\ m.of = l
  BY <1>1, ReaderFacts, LiveFacts, PartFields DEF Reads
<1>4. Kind(p) = "gather" => /\ Sender(p) \in Ranks /\ Sender(p) # p
                            /\ l.src = Sender(p) /\ l.n = calls[p]
                            /\ \A q \in Ranks \ {p} : Turn(p, q) = k[p] <=> q = Sender(p)
  BY <1>2, <1>3, SenderTurn DEF Reads
<1>5. /\ pc'[p] \in {"size", "raised"} /\ first'[p] = None
      /\ k'[p] = (IF taken THEN k[p] + 1 ELSE k[p])
      /\ \A q \in Ranks \ {p} : pc'[q] = pc[q] /\ first'[q] = first[q] /\ length'[q] = length[q] /\ k'[q] = k[q]
  BY <1>1, <1>2 DEF TypeOK
<1>6. /\ \A q \in Ranks \ {p} : ary'[q] = ary[q]
      /\ \A q \in Ranks :
           IF taken /\ Kind(p) = "gather" /\ q = Sender(p)
           THEN ary'[p][q] = [of |-> q, n |-> calls[p]] ELSE ary'[p][q] = ary[p][q]
  BY <1>1, <1>2, <1>4 DEF TypeOK
<1>7. TypeOK'
  <2>1. k' \in [Ranks -> 0 .. N - 1]
    <3>1. k[p] + 1 \in 0 .. N - 1
      BY <1>2
    <3>2. k' = k \/ k' = [k EXCEPT ![p] = k[p] + 1]
      BY <1>1
    <3> QED BY <1>2, <3>1, <3>2 DEF TypeOK
  <2>2. ary' \in [Ranks -> [Ranks -> [of : Ranks, n : Nat] \cup {None}]]
    <3>1. ary \in [Ranks -> [Ranks -> [of : Ranks, n : Nat] \cup {None}]]
      BY <1>2 DEF TypeOK
    <3>2. CASE ary' = ary
      BY <3>1, <3>2
    <3>3. CASE /\ Kind(p) = "gather"
               /\ ary' = [ary EXCEPT ![p][Sender(p)] = [of |-> Sender(p), n |-> calls[p]]]
      <4>1. [of |-> Sender(p), n |-> calls[p]] \in [of : Ranks, n : Nat]
        BY <1>2, <1>4, <3>3
      <4> QED BY <1>4, <3>1, <3>3, <4>1
    <3> QED BY <1>1, <1>2, <3>2, <3>3
  <2>3. /\ wire' \subseteq Message /\ first' \in [Ranks -> Message \cup {None}]
        /\ length' \in [Ranks -> Lengths \cup {0}]
        /\ pc' \in [Ranks -> {"out", "sending", "sent", "size", "data", "cast", "hear", "raised"}]
    BY <1>1, <1>2 DEF TypeOK
  <2> QED BY <1>1, <1>2, <2>1, <2>2, <2>3 DEF TypeOK
<1>8. CallShape'
  <2>1. Formed(p)'
    BY <1>1, <1>2, <1>5 DEF Formed, Receiving, Kind, Root
  <2>2. \A q \in Ranks \ {p} : Formed(q)'
    BY <1>1, <1>5, FormedFrame DEF IInv, CallShape
  <2> QED BY <1>1, <2>1, <2>2 DEF IInv, CallShape
<1>9. Letters'
  <2>1. Live' \subseteq Live
    <3> SUFFICES ASSUME NEW x \in Live' PROVE x \in Live
      OBVIOUS
    <3>1. \/ \E b \in wire' : x = b.of
          \/ \E q \in Ranks : out'[q] # None /\ x = out'[q]
          \/ \E q \in Ranks : first'[q] # None /\ x = first'[q].of
      BY DEF Live
    <3> QED BY <1>1, <1>5, <3>1, LiveMembers
  <2> QED BY <1>1, <2>1 DEF IInv, Letters, Tag
<1>a. \A r \in Ranks : StillRaised(r)
  BY <1>1, <1>5 DEF StillRaised
<1>b. CutShort'
  BY <1>1, <1>a, CutShortKept
<1>10. \A l2 : l2.dst \in Ranks /\ l2 # l /\ Reading(l2) => Reading(l2)'
  <2> SUFFICES ASSUME NEW l2, l2.dst \in Ranks, l2 # l, Reading(l2) PROVE Reading(l2)'
    OBVIOUS
  <2>1. l2.dst # p
    BY PartFields DEF Reading
  <2> QED BY <1>5, <2>1 DEF Reading
<1>11. \A b : b # m /\ b \in wire => b \in wire'
  BY <1>1
<1>12. ASSUME NEW b \in wire' PROVE Paired(b)'
  <2>1. /\ b \in wire /\ b # m /\ Paired(b) /\ b.of.src \in Ranks /\ b.of.dst \in Ranks /\ b \in Message
    BY <1>1, WireFacts DEF IInv, SizeBeforeData
  <2>2. pc[b.of.src] = "sending" => pc'[b.of.src] = "sending"
    BY <1>1, <1>5, <2>1
  <2>3. b.kind = "size" /\ Data(b.of) \in wire => Data(b.of) \in wire'
    <3> SUFFICES ASSUME b.kind = "size", Data(b.of) = m PROVE FALSE
      BY <1>11
    <3>1. b.of = l /\ b = Size(l)
      BY <1>3, <2>1, PartFields, MessageParts
    <3> QED BY <1>3, <2>1, <3>1 DEF Reads
  <2>4. Size(b.of) \in wire => Size(b.of) \in wire'
    BY <1>3, <1>11, PartFields
  <2>5. b.kind = "data" => b.of # l
    BY <2>1, MessageParts
  <2>6. b.kind = "size" \/ b.kind = "data"
    BY <2>1, MessageParts
  <2> QED BY <1>1, <1>10, <2>1, <2>2, <2>3, <2>4, <2>5, <2>6 DEF Paired, Whole
<1>13. ASSUME NEW q \in Ranks, pc'[q] = "sending" PROVE Announced(q)'
  <2>1. q # p /\ pc[q] = "sending"
    BY <1>5, <1>13
  <2>2. Announced(q) /\ out[q] # None /\ out[q].dst \in Ranks /\ Data(out[q]) \notin wire
    BY <2>1, LiveMembers, LiveFacts DEF IInv, SizeBeforeData, CallShape, Formed, Announced
  <2>3. out[q] # l
    BY <1>1, <2>2
  <2>4. Size(out[q]) # m
    BY <1>3, PartFields
  <2>5. Size(out[q]) \in wire => Size(out[q]) \in wire'
    BY <1>11, <2>4
  <2>6. Reading(out[q]) => Reading(out[q])'
    BY <1>1, <1>5, <1>10, <2>2, <2>3 DEF Reading
  <2> QED BY <1>1, <2>1, <2>2, <2>5, <2>6 DEF Announced, Whole
<1>14. SizeBeforeData'
  <2>1. \A q \in Ranks : Announced(q)'
    BY <1>13 DEF Announced
  <2> QED BY <1>12, <2>1 DEF SizeBeforeData
<1>15. ASSUME NEW q \in Ranks, pc'[q] = "data" PROVE Reads(q, first[q].of)'
  <2> DEFINE lq == first[q].of
  <2>1. q # p /\ pc[q] = "data"
    BY <1>5, <1>15
  <2>2. Reads(q, lq) /\ lq.src \in Ranks /\ lq.dst = q
    BY <2>1, ReaderFacts DEF Reads
  <2>3. Data(lq) # m
    BY <1>3, <2>1, <2>2, PartFields
  <2>4. Whole(lq) => Data(lq) \in wire' \/ (pc'[lq.src] = "sending" /\ out'[lq.src] = lq)
    BY <1>1, <1>5, <1>11, <2>2, <2>3 DEF Reads
  <2>5. /\ first[q] \notin wire'
        /\ \A b \in wire' : Accepts(q, lq.src, lq.tag, b) => lq.n <= b.of.n
    BY <1>1, <2>2 DEF Reads
  <2> QED BY <1>1, <1>5, <1>a, <2>1, <2>2, <2>4, <2>5, ReadsFrame
<1>16. \A r \in Ranks : k'[r] >= k[r] /\ (Receiving(r)' => Receiving(r))
  <2>1. \A r \in Ranks : k[r] \in Int
    BY <1>2 DEF TypeOK
  <2> QED BY <1>1, <1>5, <2>1 DEF Receiving
<1>17. Awaited'
  <2> SUFFICES ASSUME NEW r \in Ranks, NEW q \in Ranks, NEW n \in DOMAIN plan,
                      q # r, plan[n] = <<"gather", r>>, n <= calls[q], Lacks(r, q, n)'
               PROVE  \E b \in wire' : b.kind = "size" /\ b.of.src = q /\ b.of.n = n
    BY <1>1 DEF Awaited
  <2>1. Lacks(r, q, n)
    <3>1. CASE r = p
      <4>1. Turn(p, q) \in Int /\ Turn(p, q)' = Turn(p, q)
        BY <3>1, Turns DEF Turn
      <4> QED BY <1>1, <1>2, <1>5, <3>1, <4>1 DEF Lacks, Receiving
    <3>2. CASE r # p
      BY <1>1, <1>5, <3>2 DEF Lacks, Receiving, Turn
    <3> QED BY <3>1, <3>2
  <2>2. PICK b \in wire : b.kind = "size" /\ b.of.src = q /\ b.of.n = n
    BY <2>1, OnItsWay
  <2> QED BY <1>3, <1>11, <2>2
<1>18. ASSUME NEW b \in wire', b.of.tag = GATHER_TAG PROVE StillDue(b.of.dst, b)'
  <2>1. /\ b \in wire /\ b # m /\ StillDue(b.of.dst, b) /\ b.of.dst \in Ranks /\ b.of.src \in Ranks
        /\ b.of.src # b.of.dst /\ b.of.n \in Nat /\ b.of \in Live /\ b \in Message
        /\ plan[b.of.n] = <<"gather", b.of.dst>>
    BY <1>1, <1>18, WireFacts DEF IInv, NothingOld
  <2>2. CASE b.of.dst = p
    <3>1. ASSUME b.of.n = calls[p], taken PROVE Turn(p, b.of.src) >= k[p] + 1
      <4>1. Turn(p, b.of.src) >= k[p] /\ Turn(p, b.of.src) \in Int
        BY <1>2, <2>1, <2>2, <3>1, Turns DEF StillDue
      <4>2. Kind(p) = "gather"
        BY <2>1, <2>2, <3>1 DEF Kind
      <4>3. Turn(p, b.of.src) # k[p]
        <5> SUFFICES ASSUME Turn(p, b.of.src) = k[p] PROVE FALSE
          OBVIOUS
        <5>1. b.of.src = l.src
          BY <1>4, <2>1, <2>2, <4>2
        <5>2. b.of = l
          BY <1>3, <1>4, <2>1, <3>1, <4>2, <5>1, OneLetter
        <5>3. b = Size(l)
          BY <2>1, <5>2, MessageParts
        <5> QED BY <1>3, <2>1, <5>3 DEF Reads
      <4> QED BY <1>2, <4>1, <4>3
    <3>2. b.of.n = calls[p] => pc'[p] # "out" /\ (Receiving(p)' => Turn(p, b.of.src) >= k'[p])
      BY <1>5, <3>1 DEF Receiving
    <3> QED BY <1>1, <2>1, <2>2, <3>2 DEF StillDue, Turn
  <2>3. CASE b.of.dst # p
    BY <1>1, <1>5, <2>1, <2>3 DEF StillDue, Receiving, Turn
  <2> QED BY <2>2, <2>3
<1>19. ASSUME NEW r \in Ranks PROVE RowFilled(r)'
  <2>1. RowFilled(r)
    BY DEF IInv, Filled
  <2>2. CASE r = p
    <3>1. \A q \in Ranks : ary'[p][q] # None => calls[q] >= calls[p]
      BY <1>3, <1>4, <1>6, <2>1, <2>2 DEF RowFilled
    <3>2. ASSUME Receiving(p)', Kind(p) = "gather", NEW q \in Ranks, q = p \/ Turn(p, q) < k'[p]
          PROVE  ary'[p][q] # None
      <4>1. taken /\ k'[p] = k[p] + 1
        BY <1>5, <3>2 DEF Receiving
      <4>2. CASE q = Sender(p)
        <5>1. [of |-> q, n |-> calls[p]] # None
          BY <1>2, NoneOk
        <5> QED BY <1>6, <3>2, <4>1, <4>2, <5>1
      <4>3. CASE q # Sender(p)
        <5>1. q = p \/ Turn(p, q) < k[p]
          BY <1>2, <1>4, <3>2, <4>1, <4>3, Turns
        <5> QED BY <1>2, <1>6, <2>1, <2>2, <3>2, <4>3, <5>1 DEF RowFilled
      <4> QED BY <4>2, <4>3
    <3> QED BY <1>1, <2>2, <3>1, <3>2 DEF RowFilled, Kind, Turn
  <2>3. CASE r # p
    BY <1>1, <1>5, <1>6, <2>1, <2>3 DEF RowFilled, Receiving, Kind, Turn
  <2> QED BY <2>2, <2>3
<1>20. Visited'
  <2>1. \A q \in Ranks : pc'[q] = "out" => pc[q] = "out"
    BY <1>5
  <2> QED BY <1>1, <2>1 DEF IInv, Visited
<1>21. InPlace'
  BY <1>1, <1>6 DEF IInv, InPlace
<1> QED BY <1>7, <1>8, <1>9, <1>14, <1>15, <1>17, <1>18, <1>19, <1>20, <1>21, <1>b
        DEF IInv, ReaderOk, NothingOld, Filled
-----------------------------------------------------------------------------
(* The theorems.                                                            *)

LEMMA StepCases ==
  ASSUME NEW p, Step(p)
  PROVE  \/ Call(p)
         \/ \E how : Returns(p, how)
         \/ SendData(p) /\ Whole(out[p])
         \/ TakeSize(p)
         \/ TakeData(p)
BY ReturnSteps DEF Step

LEMMA StepPreserves == IInv /\ [Next]_vars => IInv'
<1> SUFFICES ASSUME IInv, [Next]_vars PROVE IInv'
  OBVIOUS
<1>1. CASE UNCHANGED vars
  <2>1. UNCHANGED <<plan, wire, cast, calls, pc, out, k, first, length, ary>>
    BY <1>1 DEF vars
  <2>2. /\ TypeOK' /\ CallShape' /\ Live' = Live
        /\ \A p \in Ranks : Receiving(p)' = Receiving(p) /\ Kind(p)' = Kind(p) /\ Sender(p)' = Sender(p)
    BY <2>1 DEF IInv, TypeOK, CallShape, Formed, Live, Receiving, Kind, Root, Sender
  <2>3. Letters' /\ SizeBeforeData' /\ CutShort'
    BY <2>1, <2>2 DEF IInv, Letters, Tag, SizeBeforeData, Paired, Announced, Reading, Whole,
                      CutShort, CutOff
  <2>4. ReaderOk'
    BY <2>1, <2>2 DEF IInv, ReaderOk, Reads, Tag, Whole, CutOff
  <2>5. Awaited' /\ NothingOld'
    <3>1. \A p \in Ranks : \A q, n : Lacks(p, q, n)' = Lacks(p, q, n)
      BY <2>1, <2>2 DEF Lacks, Turn
    <3>2. \A m \in wire : StillDue(m.of.dst, m)' = StillDue(m.of.dst, m)
      BY <2>1, <2>2, WireFacts DEF StillDue, Turn
    <3>3. Awaited'
      BY <2>1, <3>1 DEF IInv, Awaited
    <3>4. NothingOld'
      BY <2>1, <3>2 DEF IInv, NothingOld
    <3> QED BY <3>3, <3>4
  <2>6. Filled' /\ Visited' /\ InPlace'
    BY <2>1, <2>2 DEF IInv, Filled, RowFilled, Visited, InPlace, Turn
  <2> QED BY <2>2, <2>3, <2>4, <2>5, <2>6 DEF IInv
<1>2. ASSUME NEW p \in Ranks, Step(p) PROVE IInv'
  BY <1>2, StepCases, CallPreserves, ReturnPreserves, SendDataPreserves, TakeSizePreserves,
     TakeDataPreserves
<1> QED BY <1>1, <1>2 DEF Next

LEMMA InitOk == Init => IInv
<1> SUFFICES ASSUME Init PROVE IInv
  OBVIOUS
<1>1. plan \in Seq({"gather", "bcast", "report"} \X Ranks) /\ Len(plan) \in Nat
  BY RoundsOk DEF Init
<1>2. 0 \in 0 .. Len(plan) /\ 0 \in 0 .. N - 1
  BY <1>1, RoundsOk
<1>3. TypeOK
  <2>1. <<>> \in Seq(Message) /\ Len(<<>>) = 0
    OBVIOUS
  <2>2. \A n \in DOMAIN plan : cast[n] \in Seq(Message) /\ Len(cast[n]) <= 2
    BY <2>1 DEF Init
  <2> QED BY <1>1, <1>2, <2>2 DEF Init, TypeOK
<1>4. Live = {}
  BY DEF Init, Live
<1>5. CallShape
  BY DEF Init, CallShape, Formed, Receiving
<1>6. Letters /\ SizeBeforeData /\ CutShort /\ ReaderOk /\ NothingOld
  BY <1>4 DEF Init, Letters, SizeBeforeData, CutShort, Announced, ReaderOk, NothingOld
<1>7. Awaited /\ Visited
  <2>1. \A n \in DOMAIN plan : n \in Nat /\ n > 0
    BY <1>1
  <2> QED BY <2>1 DEF Init, Awaited, Visited
<1>8. Filled /\ InPlace
  BY DEF Init, Filled, RowFilled, Receiving, InPlace
<1> QED BY <1>3, <1>5, <1>6, <1>7, <1>8 DEF IInv

\* The inductive invariant holds in every program of rounds, of any length,
\* among any number of processes and however far they run ahead of one another.
THEOREM SpecInv == Spec => []IInv
BY InitOk, StepPreserves, PTL DEF Spec

\* gather puts every object into the slot of its sender, and it is the object
\* of this very round: the tag that all rounds share does no harm.
THEOREM SpecInPlace == Spec => []InPlace
<1>1. IInv => InPlace
  BY DEF IInv
<1> QED BY SpecInv, <1>1, PTL

\* A root receives the size that is due, in a gather that of this very round,
\* and then the data of that letter and of no other.
THEOREM SpecOrdered == Spec => []Ordered
<1>1. IInv => Ordered
  <2> SUFFICES ASSUME IInv, NEW p \in Ranks
               PROVE  /\ pc[p] = "size" /\ ~Received(p) =>
                           \A m \in Due(p) : m.kind = "size" /\ (Kind(p) = "gather" => m.of.n = calls[p])
                      /\ pc[p] = "data" => \A m \in Due(p) : m = Data(first[p].of)
    BY DEF Ordered
  <2> QED BY DueSize, DueData
<1> QED BY SpecInv, <1>1, PTL

\* When gather has returned at its root, nothing of it or of an earlier one is
\* left on the wire for a later gather to take.
THEOREM SpecNothingLeft == Spec => []NothingLeft
<1>1. IInv => NothingLeft
  <2> SUFFICES ASSUME IInv, NEW m \in wire, m.of.tag = GATHER_TAG, m.of.n <= calls[m.of.dst]
               PROVE  m.of.n = calls[m.of.dst] /\ pc[m.of.dst] # "out"
    BY DEF NothingLeft
  <2>1. StillDue(m.of.dst, m) /\ m.of.n \in Nat /\ calls[m.of.dst] \in Nat
    BY WireFacts, Shape DEF IInv, NothingOld
  <2> QED BY <2>1 DEF StillDue
<1> QED BY SpecInv, <1>1, PTL
-----------------------------------------------------------------------------

-----------------------------------------------------------------------------
(* The refinement of Collective.                                            *)

State(p) == IF pc[p] \in {"out", "raised"} THEN pc[p] ELSE "in"

\* What p has from its round, seen from above, depends on p alone.
LEMMA OthersLook ==
  ASSUME IInv, NEW p \in Ranks, Step(p), NEW q \in Ranks \ {p}
  PROVE  State(q)' = State(q) /\ Gotten(q)' = Gotten(q)
<1>1. plan' = plan /\ pc'[q] = pc[q] /\ calls'[q] = calls[q] /\ ary'[q] = ary[q]
  <2>1. CASE Call(p)
    <3>1. PICK l, next, W : Begins(p, l, next, W)
      BY <2>1, CallBegins
    <3>2. plan' = plan /\ pc'[q] = pc[q] /\ calls'[q] = calls[q]
      BY <3>1, BeginsPoints
    <3>3. ary'[q] = ary[q]
      BY <3>1, BeginsRows
    <3> QED BY <3>2, <3>3
  <2>2. ASSUME NEW how, Returns(p, how)
        PROVE  plan' = plan /\ pc'[q] = pc[q] /\ calls'[q] = calls[q] /\ ary'[q] = ary[q]
    BY <2>2, ReturnsPoints
  <2>3. CASE SendData(p) /\ Whole(out[p])
    BY <2>3 DEF SendData, IInv, TypeOK
  <2>4. CASE TakeSize(p)
    BY <2>4 DEF TakeSize, IInv, TypeOK
  <2>5. CASE TakeData(p)
    <3>1. TypeOK /\ (Kind(p) = "gather" \/ Kind(p) = "report")
      BY <2>5, TakeDataPoints, Shape DEF Receiving, IInv
    <3>2. /\ UNCHANGED <<plan, calls>>
          /\ pc' = [pc EXCEPT ![p] = "raised"] \/ pc' = [pc EXCEPT ![p] = "size"]
          /\ \/ ary' = ary
             \/ ary' = [ary EXCEPT ![p][Sender(p)] = [of |-> Sender(p), n |-> calls[p]]]
      BY <2>5, <3>1, TakeDataPoints
    <3>3. pc'[q] = pc[q] /\ ary'[q] = ary[q]
      BY <3>1, <3>2 DEF TypeOK
    <3> QED BY <3>2, <3>3
  <2> QED BY <2>1, <2>2, <2>3, <2>4, <2>5, StepCases
<1> QED BY <1>1 DEF State, Gotten

\* What a step of p looks like from above.
LEMMA StepLooks ==
  ASSUME IInv, NEW p \in Ranks, Step(p)
  PROVE  /\ plan' = plan
         /\ \/ /\ State(p) = "out" /\ State(p)' \in {"in", "raised"} /\ Gotten(p)' = None
               /\ calls' = [calls EXCEPT ![p] = @ + 1]
            \/ /\ State(p) = "in" /\ State(p)' = "out" /\ UNCHANGED calls
               /\ plan[calls[p]] = <<"gather", p>> /\ calls[p] \in DOMAIN plan
               /\ Gotten(p)' = [q \in Ranks |-> [of |-> q, call |-> calls[p]]]
               /\ \A q \in Ranks : calls[q] >= calls[p]
            \/ /\ State(p) = "in" /\ State(p)' = "out" /\ UNCHANGED calls
               /\ plan[calls[p]] # <<"gather", p>> /\ Gotten(p)' = Gotten(p)
            \/ /\ State(p) = "in" /\ State(p)' \in {"in", "raised"} /\ UNCHANGED calls
               /\ Gotten(p)' = Gotten(p)
<1>1. CASE Call(p)
  <2>1. PICK l, next, W : Begins(p, l, next, W)
    BY <1>1, CallBegins
  <2>2. plan' = plan /\ pc[p] = "out" /\ pc'[p] = next /\ next # "out"
    BY <2>1, BeginsPoints
  <2>3. calls' = [calls EXCEPT ![p] = @ + 1]
    BY <2>1 DEF Begins, Begin
  <2> QED BY <2>2, <2>3 DEF State, Gotten
<1>2. ASSUME NEW how, Returns(p, how)
      PROVE  /\ plan' = plan /\ State(p) = "in" /\ UNCHANGED calls
             /\ \/ /\ State(p)' = "out"
                   /\ plan[calls[p]] = <<"gather", p>> /\ calls[p] \in DOMAIN plan
                   /\ Gotten(p)' = [q \in Ranks |-> [of |-> q, call |-> calls[p]]]
                   /\ \A q \in Ranks : calls[q] >= calls[p]
                \/ /\ State(p)' = "out"
                   /\ plan[calls[p]] # <<"gather", p>> /\ Gotten(p)' = Gotten(p)
                \/ State(p)' = "raised" /\ Gotten(p)' = Gotten(p)
  <2>1. /\ plan' = plan /\ calls' = calls /\ ary' = ary /\ pc[p] # "out" /\ pc[p] # "raised"
        /\ pc'[p] = how /\ how \in {"out", "raised"}
    BY <1>2, ReturnsPoints DEF Returns
  <2>2. calls[p] \in DOMAIN plan /\ calls[p] > 0
    BY <2>1, Shape, PlanOk DEF IInv
  <2>3. CASE how = "out" /\ plan[calls[p]] = <<"gather", p>>
    <3>1. Received(p) /\ Kind(p) = "gather"
      BY <1>2, <2>3, Shape DEF Returns, Kind
    <3>2. \A q \in Ranks : /\ ary[p][q] # None /\ calls[q] >= calls[p]
                           /\ ary[p][q].of = q /\ ary[p][q].n = calls[p]
      <4> TAKE q \in Ranks
      <4>1. ary[p][q] # None /\ ary[p][q] = [of |-> q, n |-> calls[p]] /\ calls[q] >= calls[p]
        BY <3>1, LastTurn
      <4> QED BY <4>1
    <3>3. Gotten(p)' = [q \in Ranks |-> IF ary[p][q] = None THEN None
                                       ELSE [of |-> ary[p][q].of, call |-> ary[p][q].n]]
      BY <2>1, <2>2, <2>3 DEF Gotten
    <3>4. Gotten(p)' = [q \in Ranks |-> [of |-> q, call |-> calls[p]]]
      BY <3>2, <3>3
    <3> QED BY <2>1, <2>2, <2>3, <3>2, <3>4 DEF State
  <2>4. CASE how = "out" /\ plan[calls[p]] # <<"gather", p>>
    BY <2>1, <2>4 DEF State, Gotten
  <2>5. CASE how = "raised"
    BY <2>1, <2>5 DEF State, Gotten
  <2> QED BY <2>1, <2>3, <2>4, <2>5
<1>3. CASE (SendData(p) /\ Whole(out[p])) \/ TakeSize(p) \/ TakeData(p)
  <2>1. /\ plan' = plan /\ calls' = calls /\ pc[p] \in {"sending", "size", "data"}
        /\ pc'[p] \in {"sent", "size", "data", "raised"}
    <3>1. CASE SendData(p) /\ Whole(out[p])
      BY <3>1 DEF SendData, IInv, TypeOK
    <3>2. CASE TakeSize(p)
      BY <3>2 DEF TakeSize, IInv, TypeOK
    <3>3. CASE TakeData(p)
      BY <3>3, TakeDataPoints DEF IInv, TypeOK
    <3> QED BY <1>3, <3>1, <3>2, <3>3
  <2> QED BY <2>1 DEF State, Gotten
<1> QED BY <1>1, <1>2, <1>3, StepCases

LEMMA StepRefines ==
  IInv /\ [Next]_vars => [Abstract!CollectiveNext]_(Abstract!collectiveVars)
<1> SUFFICES ASSUME IInv, [Next]_vars
             PROVE  [Abstract!CollectiveNext]_(Abstract!collectiveVars)
  OBVIOUS
<1> DEFINE states == [q \in Ranks |-> State(q)]
           results == [q \in Ranks |-> Gotten(q)]
           collecting == [q \in Ranks |-> {n \in DOMAIN plan : plan[n] = <<"gather", q>>}]
<1>1. CASE UNCHANGED vars
  <2>1. UNCHANGED <<plan, pc, calls, ary>>
    BY <1>1 DEF vars
  <2> QED
    BY <2>1 DEF Abstract!collectiveVars, Gotten
<1>2. ASSUME NEW p \in Ranks, Step(p)
      PROVE  \/ Abstract!Begin(p) \/ Abstract!Finish(p) \/ Abstract!Fail(p)
             \/ UNCHANGED Abstract!collectiveVars
  <2>1. \A s, r : /\ State(p)' = s => states' = [states EXCEPT ![p] = s]
                  /\ Gotten(p)' = r => results' = [results EXCEPT ![p] = r]
    BY <1>2, OthersLook
  <2>2. /\ State(p)' = State(p) => states' = states
        /\ Gotten(p)' = Gotten(p) => results' = results
    BY <1>2, OthersLook
  <2>3. plan' = plan
    BY <1>2, StepLooks
  <2>4. collecting' = collecting
    BY <2>3
  <2>5. CASE /\ State(p) = "out" /\ State(p)' \in {"in", "raised"} /\ Gotten(p)' = None
             /\ calls' = [calls EXCEPT ![p] = @ + 1]
    <3>1. /\ states[p] = "out" /\ results' = [results EXCEPT ![p] = None]
          /\ \E s \in {"in", "raised"} : states' = [states EXCEPT ![p] = s]
      BY <2>1, <2>5
    <3> QED
      BY <2>4, <2>5, <3>1 DEF Abstract!Begin, State
  <2>6. CASE /\ State(p) = "in" /\ State(p)' = "out" /\ UNCHANGED calls
             /\ plan[calls[p]] = <<"gather", p>> /\ calls[p] \in DOMAIN plan
             /\ Gotten(p)' = [q \in Ranks |-> [of |-> q, call |-> calls[p]]]
             /\ \A q \in Ranks : calls[q] >= calls[p]
    <3>1. states[p] = "in" /\ states' = [states EXCEPT ![p] = "out"]
          /\ results' = [results EXCEPT ![p] = [q \in Ranks |-> [of |-> q, call |-> calls[p]]]]
      BY <2>1, <2>6
    <3>2. calls[p] \in collecting[p]
      BY <2>6
    <3> QED
      BY <2>4, <2>6, <3>1, <3>2 DEF Abstract!Finish, Abstract!Contribution, State
  <2>7. CASE /\ State(p) = "in" /\ State(p)' = "out" /\ UNCHANGED calls
             /\ plan[calls[p]] # <<"gather", p>> /\ Gotten(p)' = Gotten(p)
    <3>1. states[p] = "in" /\ states' = [states EXCEPT ![p] = "out"] /\ results' = results
      BY <2>1, <2>2, <2>7
    <3>2. calls[p] \notin collecting[p]
      BY <2>7
    <3> QED
      BY <2>4, <2>7, <3>1, <3>2 DEF Abstract!Finish, State
  <2>8. CASE /\ State(p) = "in" /\ State(p)' \in {"in", "raised"} /\ UNCHANGED calls
             /\ Gotten(p)' = Gotten(p)
    <3>1. CASE State(p)' = "in"
      <4>1. states' = states /\ results' = results
        BY <2>2, <2>8, <3>1
      <4> QED
        BY <2>4, <2>8, <4>1 DEF Abstract!collectiveVars, State
    <3>2. CASE State(p)' = "raised"
      <4>1. states[p] = "in" /\ states' = [states EXCEPT ![p] = "raised"] /\ results' = results
        BY <2>1, <2>2, <2>8, <3>2
      <4> QED
        BY <2>4, <2>8, <4>1 DEF Abstract!Fail, State
    <3> QED
      BY <2>8, <3>1, <3>2
  <2> QED
    BY <1>2, <2>5, <2>6, <2>7, <2>8, StepLooks
<1> QED
  BY <1>1, <1>2 DEF Next, Abstract!CollectiveNext

\* A program of rounds implements the abstract collective calls, for any number
\* of processes, rounds and lengths: a gather that returns at its root returns
\* every object of this very round in its place, and not before all have begun it.
THEOREM SpecCollective == Spec => ImplementsCollective
<1>1. Init => Abstract!CollectiveInit
  <2> SUFFICES ASSUME Init PROVE Abstract!CollectiveInit
    OBVIOUS
  <2>1. \A p \in Ranks : pc[p] = "out" /\ calls[p] = 0
    BY DEF Init
  <2>2. \A p \in Ranks : Gotten(p) = None
    BY <2>1 DEF Gotten
  <2>3. DOMAIN plan \subseteq Nat
    <3>1. plan \in Seq({"gather", "bcast", "report"} \X Ranks)
      BY RoundsOk DEF Init
    <3> QED BY <3>1
  <2> QED
    BY <2>1, <2>2, <2>3 DEF Init, Abstract!CollectiveInit
<1> QED
  BY SpecInv, StepRefines, <1>1, PTL
     DEF Spec, ImplementsCollective, Abstract!CollectiveSpec
=============================================================================
