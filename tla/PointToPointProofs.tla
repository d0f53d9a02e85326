-------------------------- MODULE PointToPointProofs --------------------------
(* Proofs about PointToPoint for every set of processes, tags, lengths, ... *)
EXTENDS PointToPointInv, TLAPS

-----------------------------------------------------------------------------
(* Facts about letters and messages.                                        *)

\* What the records of a letter and a message hold.
LEMMA LetterFields ==
  ASSUME NEW l \in Letter
  PROVE  /\ l.src \in Proc /\ l.dst \in Proc /\ l.tag \in Tags /\ l.n \in Nat
         /\ l.len \in Lengths /\ l.obj \in Objs
         /\ l # None
BY NoneOk DEF Letter

LEMMA PartFields ==
  ASSUME NEW l
  PROVE  /\ Size(l).kind = "size" /\ Size(l).of = l
         /\ Data(l).kind = "data" /\ Data(l).of = l
         /\ Size(l) # Data(l)
BY DEF Size, Data

LEMMA PartTypes ==
  ASSUME NEW l \in Letter
  PROVE  Size(l) \in Message /\ Data(l) \in Message
BY DEF Size, Data, Message

\* Every message is the size or the data of its letter.
LEMMA MessageParts ==
  ASSUME NEW m \in Message
  PROVE  /\ m.of \in Letter /\ m.kind \in {"size", "data"} /\ m # None
         /\ m.kind = "size" => m = Size(m.of)
         /\ m.kind = "data" => m = Data(m.of)
BY NoneOk DEF Size, Data, Message

LEMMA CountInt ==
  ASSUME NEW len \in Lengths
  PROVE  len \in Int /\ Count(len) \in Int
BY IntsOk DEF Count

LEMMA NewLetterType ==
  ASSUME TypeOK, NEW p \in Proc, NEW dst \in Proc, NEW tag \in Tags, NEW len \in Lengths,
         NEW obj \in Objs, NEW mode \in Modes \cup {"standard"}
  PROVE  LET l == NewLetter(p, dst, tag, len, obj, mode)
         IN  l \in Letter /\ l.src = p /\ l.n = calls[p]
BY DEF NewLetter, Letter, TypeOK

-----------------------------------------------------------------------------
(* The parameters of Start in the calls that make one.                      *)

CallArgs(p, l, src, tag) ==
  /\ l \in Letter \cup {None}
  /\ l # None => l.src = p /\ l.n = calls[p]
  /\ src \in Proc \cup {AnySource, None}
  /\ tag \in Tags \cup {AnyTag, None}

\* Every call is a Start with well-formed arguments.
LEMMA Calls ==
  ASSUME TypeOK, NEW p \in Proc, Send(p) \/ Recv(p) \/ Sendrecv(p)
  PROVE  \E l, src, tag :
           /\ CallArgs(p, l, src, tag) /\ Start(p, l, src, tag)
           /\ l # None /\ src # None => src \in ExchFrom[p]
<1>1. CASE Send(p)
  <2>1. PICK dst \in Proc, tg \in Tags, len \in Lengths, obj \in Objs, mode \in Modes :
          Start(p, NewLetter(p, dst, tg, len, obj, mode), None, None)
    BY <1>1, PeersOk DEF Send
  <2> QED
    BY <2>1, NewLetterType DEF CallArgs
<1>2. CASE Recv(p)
  <2>1. PICK src \in Proc \cup {AnySource}, tg \in Tags \cup {AnyTag} : Start(p, None, src, tg)
    BY <1>2, PeersOk, TagsOk DEF Recv
  <2> QED
    BY <2>1 DEF CallArgs
<1>3. CASE Sendrecv(p)
  <2>1. PICK dst \in Proc, tg \in Tags, len \in Lengths, obj \in Objs,
             src \in ExchFrom[p], stag \in Tags \cup {AnyTag} :
          Start(p, NewLetter(p, dst, tg, len, obj, "standard"), src, stag)
    BY <1>3, PeersOk, TagsOk DEF Sendrecv
  <2>2. src \in Proc \cup {AnySource}
    BY PeersOk
  <2> QED
    BY <2>1, <2>2, NewLetterType DEF CallArgs
<1> QED
  BY <1>1, <1>2, <1>3

-----------------------------------------------------------------------------
(* Type correctness.                                                        *)

LEMMA InitType == Init => TypeOK
BY DEF Init, TypeOK

LEMMA StartType ==
  ASSUME TypeOK, NEW p \in Proc, NEW l, NEW src, NEW tag,
         CallArgs(p, l, src, tag), Start(p, l, src, tag)
  PROVE  TypeOK'
<1>1. wire' \subseteq Message
  BY PartTypes DEF Start, CallArgs, TypeOK
<1>2. out' \in [Proc -> Letter \cup {None}] /\ calls' \in [Proc -> Nat]
  BY DEF Start, CallArgs, TypeOK
<1> QED
  BY <1>1, <1>2 DEF Start, CallArgs, TypeOK

LEMMA MatchType ==
  ASSUME TypeOK, NEW p \in Proc, Match(p)
  PROVE  TypeOK'
<1>1. PICK m \in wire : Match(p)!3!(m)
  BY DEF Match, Receivable
<1>2. m \in Message /\ Stored(m) \subseteq Lengths
  BY LetterFields, MessageParts DEF TypeOK, Stored
<1> QED
  BY <1>1, <1>2 DEF Match, TypeOK, sendVars

LEMMA FinishType ==
  ASSUME TypeOK, NEW p \in Proc, NEW r \in Objs \cup {None, Sent, Raised}, Finish(p, r)
  PROVE  TypeOK'
BY DEF Finish, TypeOK

LEMMA SizeDoneType ==
  ASSUME TypeOK, NEW p \in Proc, SizeDone(p), first[p] = None => from[p] = None
  PROVE  TypeOK'
<1>1. wire' \subseteq Message
  BY PartTypes DEF SizeDone, TypeOK
<1>2. DataSource(p) \in Proc \cup {AnySource, None}
  BY LetterFields, MessageParts, DistinctOk DEF DataSource, TypeOK
<1> QED
  BY <1>1, <1>2 DEF SizeDone, TypeOK

-----------------------------------------------------------------------------
(* Every step keeps the rest of the inductive invariant.                    *)

\* Membership in Live, unfolded.
LEMMA LiveMembers ==
  /\ \A m \in wire : m.of \in Live
  /\ \A q \in Proc : out[q] # None => out[q] \in Live
  /\ \A q \in Proc : first[q] # None => first[q].of \in Live
  /\ \A k \in Live : \/ \E m \in wire : k = m.of
                     \/ \E q \in Proc : out[q] # None /\ k = out[q]
                     \/ \E q \in Proc : first[q] # None /\ k = first[q].of
BY DEF Live

LEMMA LiveLetters == TypeOK => Live \subseteq Letter
BY MessageParts DEF Live, TypeOK

\* A step that creates no letter leaves letters unique.
LEMMA FreshKept ==
  ASSUME Fresh, Live' \subseteq Live, calls' = calls
  PROVE  Fresh'
BY DEF Fresh

LEMMA InitInv == Init => IInv
<1> SUFFICES ASSUME Init PROVE IInv
  OBVIOUS
<1>1. TypeOK
  BY InitType
<1>2. CallShape /\ ReaderOk
  BY DEF Init, CallShape, ReaderOk, Reads
<1>3. Fresh
  <2>1. Live = {}
    BY LiveMembers DEF Init
  <2> QED
    BY <2>1 DEF Fresh
<1>4. SizeBeforeData
  BY DEF Init, SizeBeforeData
<1> QED
  BY <1>1, <1>2, <1>3, <1>4 DEF IInv

LEMMA StartKeeps ==
  ASSUME IInv, NEW p \in Proc, NEW l, NEW src, NEW tag,
         CallArgs(p, l, src, tag), Start(p, l, src, tag),
         l # None /\ src # None =>
           src # AnySource /\ \A len \in Lengths : Count(len) >= 0
  PROVE  IInv'
<1> USE DEF IInv
<1>1. TypeOK'
  BY StartType
<1>2. CallShape'
  BY DEF Start, CallArgs, TypeOK, CallShape
<1>3. /\ out[p] = None /\ first[p] = None /\ out'[p] = l /\ pc'[p] = "size"
      /\ \A q \in Proc \ {p} : out'[q] = out[q] /\ pc'[q] = pc[q]
      /\ first' = first /\ second' = second /\ length' = length
  BY DEF Start, TypeOK, CallShape
<1>4. /\ wire \subseteq wire'
      /\ \A m \in wire' : m \in wire \/ (l # None /\ m = Size(l))
      /\ l # None => Size(l) \in wire'
  BY DEF Start
<1>5. Fresh'
  <2>1. \A k \in Live' : k \in Live \/ (l # None /\ k = l)
    BY <1>3, <1>4, PartFields DEF Live
  <2>2. \A k \in Live : k.n < calls[k.src] /\ k.n \in Nat /\ k.src \in Proc
    BY LiveLetters, LetterFields DEF Fresh
  <2>3. \A k \in Live' : k.n < calls'[k.src]
    BY <2>1, <2>2, <1>1 DEF Start, CallArgs, TypeOK
  <2>4. l # None => \A k \in Live : ~(k.src = l.src /\ k.n = l.n)
    BY <2>2 DEF CallArgs, TypeOK
  <2> QED
    BY <2>1, <2>3, <2>4 DEF Fresh
<1>6. l # None => Data(l) \notin wire /\ Size(l) \notin wire
  BY LiveMembers, PartFields DEF CallArgs, Fresh, TypeOK
<1>7. SizeBeforeData'
  <2>1. \A m \in wire : m.of.src \in Proc /\ m.of \in Letter /\ m \in Message /\ m.of.dst \in Proc
    BY MessageParts, LetterFields DEF TypeOK
  <2>2. ASSUME NEW k \in Letter PROVE (Sending(k) => Sending(k)') /\ (Reading(k) <=> Reading(k)')
    BY <1>3, LetterFields DEF Sending, Reading
  <2>3. l # None => l \in Letter /\ Sending(l)'
    BY <1>3 DEF CallArgs, Sending
  <2>4. ASSUME NEW m \in wire', m.kind = "size"
        PROVE  Whole(m.of) => Data(m.of) \in wire' \/ Sending(m.of)'
    BY <2>1, <2>2, <2>3, <2>4, <1>4, PartFields DEF SizeBeforeData
  <2>5. ASSUME NEW m \in wire', m.kind # "size"
        PROVE  Whole(m.of) /\ (Size(m.of) \in wire' \/ Reading(m.of)')
    BY <2>1, <2>2, <2>5, <1>4, PartFields DEF SizeBeforeData
  <2>6. ASSUME NEW q \in Proc, out'[q] # None, pc'[q] = "size"
        PROVE  (/\ Data(out[q]) \notin wire
                /\ Whole(out[q]) => Size(out[q]) \in wire \/ Reading(out[q]))'
    <3>1. CASE q = p
      BY <3>1, <2>6, <1>3, <1>4, <1>6, PartFields
    <3>2. CASE q # p
      <4>1. out'[q] = out[q] /\ pc[q] = "size" /\ out[q] \in Letter
        BY <3>2, <2>6, <1>3 DEF TypeOK
      <4>2. /\ Data(out[q]) \notin wire'
            /\ Whole(out[q]) => Size(out[q]) \in wire' \/ Reading(out[q])'
        BY <4>1, <2>6, <2>2, <1>4, PartFields DEF SizeBeforeData
      <4> QED
        BY <4>1, <4>2 DEF Reading, Whole
    <3> QED
      BY <3>1, <3>2
  <2> QED
    BY <2>4, <2>5, <2>6 DEF SizeBeforeData, Whole
<1>8. ReaderOk'
  <2> SUFFICES ASSUME NEW q \in Proc, first[q] # None
               PROVE  LET k == first[q].of IN
                 /\ first[q] = Size(k) /\ first[q] \notin wire'
                 /\ length[q] = k.len
                 /\ Accepts(q, from'[q], tagf'[q], first[q])
                 /\ \A b \in wire' : Accepts(q, k.src, tagf'[q], b) => k.n <= b.of.n
                 /\ pc'[q] = "data" => from'[q] = k.src /\ Whole(k)
                 /\ second[q] = None => (Whole(k) => Data(k) \in wire' \/ Sending(k)')
                 /\ second[q] # None => second[q] = Data(k)
    BY <1>3 DEF ReaderOk, Reads, Whole
  <2> DEFINE k == first[q].of
  <2>1. q # p /\ from'[q] = from[q] /\ tagf'[q] = tagf[q] /\ pc'[q] = pc[q]
    BY <1>3 DEF Start, TypeOK
  <2>2. k \in Letter /\ k.n < calls[k.src] /\ k.src \in Proc /\ k.n \in Nat
    BY MessageParts, LiveMembers, LetterFields DEF Fresh, TypeOK
  <2>3. Sending(k) => Sending(k)'
    BY <1>3, <2>2, LetterFields DEF Sending
  <2>4. l # None => l.src = p /\ l.n = calls[p] /\ calls[p] \in Nat
    BY DEF CallArgs, TypeOK
  <2>5. first[q] \notin wire'
    BY <1>4, <2>2, <2>4, PartFields DEF ReaderOk, Reads
  <2>6. \A b \in wire' : Accepts(q, k.src, tagf[q], b) => k.n <= b.of.n
    BY <1>4, <2>2, <2>4, PartFields, DistinctOk DEF ReaderOk, Reads, Accepts
  <2> QED
    BY <1>3, <1>4, <2>1, <2>2, <2>3, <2>5, <2>6 DEF ReaderOk, Reads
<1> QED
  BY <1>1, <1>2, <1>5, <1>7, <1>8

LEMMA SendReturnsKeeps ==
  ASSUME IInv, NEW p \in Proc, SendReturns(p)
  PROVE  IInv'
<1>1. TypeOK' /\ CallShape'
  BY DEF IInv, SendReturns, recvVars, TypeOK, CallShape
<1>2. UNCHANGED <<wire, calls, pc, out, recvVars, result>>
  BY DEF SendReturns
<1>3. (Fresh /\ SizeBeforeData /\ ReaderOk)'
  BY <1>2 DEF IInv, recvVars, Fresh, Live, SizeBeforeData, ReaderOk, Reads, Sending, Reading, Whole
<1> QED
  BY <1>1, <1>3 DEF IInv

\* A receive that waits for a size is never given a data message.
LEMMA TakesSize ==
  ASSUME IInv, NEW p \in Proc, await[p], pc[p] = "size",
         NEW m \in Receivable(wire, p, from[p], tagf[p])
  PROVE  m.kind = "size"
<1> SUFFICES ASSUME m.kind # "size" PROVE FALSE
  OBVIOUS
<1>1. m \in wire /\ m.of \in Letter /\ m = Data(m.of) /\ m.kind = "data" /\ m.of.dst = p
  BY MessageParts DEF Receivable, Accepts, IInv, TypeOK
<1>2. ~Reading(m.of)
  BY <1>1, PartFields, PartTypes, MessageParts DEF Reading, IInv, CallShape
<1>3. Size(m.of) \in wire
  BY <1>1, <1>2 DEF IInv, SizeBeforeData
<1>4. Before(Size(m.of), m) /\ Accepts(p, from[p], tagf[p], Size(m.of))
  BY <1>1, PartFields DEF Before, Accepts, Receivable
<1> QED
  BY <1>3, <1>4 DEF Receivable

\* A receive that waits for data is given that of the letter being read.
LEMMA TakesData ==
  ASSUME IInv, NEW p \in Proc, await[p], pc[p] = "data",
         NEW m \in Receivable(wire, p, from[p], tagf[p])
  PROVE  m = Data(first[p].of)
<1> DEFINE l == first[p].of
<1>1. first[p] # None /\ second[p] = None
  BY DEF IInv, CallShape
<1>2. /\ first[p] = Size(l) /\ Size(l) \notin wire /\ from[p] = l.src /\ Whole(l)
      /\ Accepts(p, from[p], tagf[p], Size(l))
      /\ \A b \in wire : Accepts(p, l.src, tagf[p], b) => l.n <= b.of.n
      /\ Data(l) \in wire \/ Sending(l)
      /\ l \in Letter /\ l \in Live
  BY <1>1, LiveMembers, MessageParts DEF IInv, ReaderOk, Reads, TypeOK
<1>3. /\ m \in wire /\ m \in Message /\ m.of \in Letter /\ m.of \in Live
      /\ Accepts(p, l.src, tagf[p], m)
  BY <1>2, LiveMembers, MessageParts DEF IInv, Receivable, TypeOK
<1>4. m.of.src = l.src /\ l.n <= m.of.n /\ m.of.n \in Nat /\ l.n \in Nat
  BY <1>2, <1>3, LetterFields, DistinctOk DEF Accepts
<1>5. m.of.n = l.n
  <2>1. CASE Data(l) \in wire
    <3>1. Accepts(p, from[p], tagf[p], Data(l))
      BY <1>2, PartFields DEF Accepts
    <3>2. ~Before(Data(l), m)
      BY <2>1, <3>1 DEF Receivable
    <3> QED
      BY <3>2, <1>4, PartFields DEF Before
  <2>2. CASE Sending(l)
    <3>1. l.n + 1 = calls[l.src]
      BY <2>2, <1>2, LetterFields DEF Sending, IInv, CallShape
    <3>2. m.of.n < calls[m.of.src]
      BY <1>3 DEF IInv, Fresh
    <3>3. calls[l.src] \in Nat
      BY <1>2, LetterFields DEF IInv, TypeOK
    <3> QED
      BY <3>1, <3>2, <3>3, <1>4
  <2> QED
    BY <1>2, <2>1, <2>2
<1>6. m.of = l
  BY <1>2, <1>3, <1>4, <1>5 DEF IInv, Fresh
<1> QED
  BY <1>2, <1>3, <1>6, MessageParts, PartFields

LEMMA MatchSizeKeeps ==
  ASSUME IInv, NEW p \in Proc, Match(p), pc[p] = "size"
  PROVE  IInv'
<1>1. PICK m \in Receivable(wire, p, from[p], tagf[p]) :
        /\ wire' = wire \ {m} /\ first' = [first EXCEPT ![p] = m]
        /\ \E len \in Stored(m) : length' = [length EXCEPT ![p] = len]
        /\ UNCHANGED second
  BY DEF Match
<1> DEFINE l == m.of
<1>2. m \in wire /\ l \in Letter /\ m = Size(l) /\ m # None /\ m.kind = "size"
  BY <1>1, TakesSize, MessageParts DEF Match, Receivable, IInv, TypeOK
<1>3. /\ UNCHANGED <<calls, pc, out, flying, from, tagf, result>>
      /\ await' = [await EXCEPT ![p] = FALSE] /\ await[p]
  BY DEF Match, sendVars
<1>4. length' = [length EXCEPT ![p] = l.len]
  BY <1>1, <1>2 DEF Stored
<1>5. first[p] = None /\ second[p] = None /\ from[p] # None
  BY <1>3 DEF IInv, CallShape
<1>6. TypeOK'
  BY MatchType DEF IInv
<1>7. CallShape'
  BY <1>1, <1>2, <1>3, <1>5 DEF IInv, TypeOK, CallShape
<1>8. first'[p] = m /\ \A q \in Proc \ {p} : first'[q] = first[q]
  BY <1>1 DEF IInv, TypeOK
<1>9. Fresh'
  <2>1. Live' \subseteq Live
    BY <1>1, <1>2, <1>3, <1>8 DEF Live
  <2> QED
    BY <2>1, <1>3, FreshKept DEF IInv
<1>10. l.dst = p
  BY <1>1 DEF Receivable, Accepts
<1>11. \A k \in Letter : Sending(k) <=> Sending(k)'
  BY <1>3 DEF Sending
<1>12. \A k \in Letter : (Reading(k) => Reading(k)') /\ (k = l => Reading(k)')
  BY <1>1, <1>2, <1>5, <1>8, <1>10, PartTypes, MessageParts, LetterFields DEF Reading
<1>13. \A k : Data(k) \in wire' <=> Data(k) \in wire
  BY <1>1, <1>2, PartFields
<1>14. \A k : Size(k) \in wire => Size(k) \in wire' \/ k = l
  BY <1>1, <1>2, PartFields
<1>15. SizeBeforeData'
  <2>1. ASSUME NEW b \in wire'
        PROVE  IF b.kind = "size"
               THEN Whole(b.of) => Data(b.of) \in wire' \/ Sending(b.of)'
               ELSE Whole(b.of) /\ (Size(b.of) \in wire' \/ Reading(b.of)')
    <3>1. b \in wire /\ b.of \in Letter
      BY <1>1, MessageParts DEF IInv, TypeOK
    <3> QED
      BY <3>1, <1>11, <1>12, <1>13, <1>14 DEF IInv, SizeBeforeData
  <2>2. ASSUME NEW q \in Proc, out[q] # None, pc[q] = "size"
        PROVE  /\ Data(out[q]) \notin wire'
               /\ Whole(out[q]) => Size(out[q]) \in wire' \/ Reading(out[q])'
    <3>1. out[q] \in Letter
      BY <2>2 DEF IInv, TypeOK
    <3>2. Reading(out[q]) => Reading(out[q])'
      BY <3>1, <1>3, <1>12 DEF Reading
    <3>3. out[q] = l => Reading(out[q])'
      BY <3>1, <1>3, <1>12 DEF Reading
    <3> QED
      BY <2>2, <3>1, <3>2, <3>3, <1>13, <1>14 DEF IInv, SizeBeforeData
  <2> QED
    BY <2>1, <2>2, <1>3 DEF SizeBeforeData, Whole, Reading
<1>16. ReaderOk'
  <2>1. Reads(p, l)'
    <3>1. \A b \in wire' : Accepts(p, l.src, tagf[p], b) => l.n <= b.of.n
      <4> SUFFICES ASSUME NEW b \in wire', Accepts(p, l.src, tagf[p], b)
                   PROVE  l.n <= b.of.n
        OBVIOUS
      <4>1. b \in wire /\ b.of.n \in Nat /\ l.n \in Nat /\ l.src \in Proc
        BY <1>1, <1>2, MessageParts, LetterFields DEF IInv, TypeOK
      <4>2. Accepts(p, from[p], tagf[p], b) /\ b.of.src = l.src
        BY <4>1, <1>1, DistinctOk DEF Receivable, Accepts
      <4> QED
        BY <4>1, <4>2, <1>1 DEF Receivable, Before
    <3>2. Whole(l) => Data(l) \in wire \/ Sending(l)
      BY <1>2 DEF IInv, SizeBeforeData
    <3>3. l.dst = p /\ Accepts(p, from[p], tagf[p], m)
      BY <1>1 DEF Receivable, Accepts
    <3>4. length'[p] = l.len
      BY <1>4 DEF IInv, TypeOK
    <3> QED
      BY <3>1, <3>2, <3>3, <3>4, <1>1, <1>2, <1>3, <1>5, <1>8, <1>11, <1>13
         DEF Reads, Whole
  <2>2. ASSUME NEW q \in Proc \ {p}, first[q] # None, Reads(q, first[q].of)
        PROVE  Reads(q, first[q].of)'
    <3>1. first[q].of \in Letter
      BY <2>2, MessageParts DEF IInv, TypeOK
    <3> QED
      BY <2>2, <3>1, <1>1, <1>3, <1>4, <1>8, <1>11, <1>13 DEF Reads, Whole, IInv, TypeOK
  <2> QED
    BY <2>1, <2>2, <1>8 DEF IInv, ReaderOk
<1> QED
  BY <1>6, <1>7, <1>9, <1>15, <1>16 DEF IInv

LEMMA MatchDataKeeps ==
  ASSUME IInv, NEW p \in Proc, Match(p), pc[p] = "data"
  PROVE  IInv'
<1> DEFINE l == first[p].of
           m == Data(l)
<1>1. /\ m \in Receivable(wire, p, from[p], tagf[p])
      /\ wire' = wire \ {m} /\ second' = [second EXCEPT ![p] = m]
      /\ UNCHANGED <<first, length>>
  <2>1. PICK b \in Receivable(wire, p, from[p], tagf[p]) :
          /\ wire' = wire \ {b} /\ second' = [second EXCEPT ![p] = b]
          /\ UNCHANGED <<first, length>>
    BY DEF Match
  <2>2. b = m
    BY TakesData DEF Match
  <2> QED
    BY <2>1, <2>2
<1>2. /\ UNCHANGED <<calls, pc, out, flying, from, tagf, result>>
      /\ await' = [await EXCEPT ![p] = FALSE] /\ await[p]
  BY DEF Match, sendVars
<1>3. first[p] # None /\ second[p] = None /\ from[p] # None
  BY <1>2 DEF IInv, CallShape
<1>4. m \in wire /\ first[p] = Size(l) /\ l \in Letter /\ m \in Message /\ m # None /\ Size(l) \notin wire
  BY <1>1, <1>3, MessageParts, PartTypes DEF Receivable, IInv, TypeOK, ReaderOk, Reads
<1>5. TypeOK'
  BY MatchType DEF IInv
<1>6. CallShape'
  BY <1>1, <1>2, <1>3, <1>4 DEF IInv, TypeOK, CallShape
<1>7. second'[p] = m /\ \A q \in Proc \ {p} : second'[q] = second[q]
  BY <1>1 DEF IInv, TypeOK
<1>8. Fresh'
  <2>1. Live' \subseteq Live
    BY <1>1, <1>2 DEF Live
  <2> QED
    BY <2>1, <1>2, FreshKept DEF IInv
<1>9. l.dst = p
  BY <1>1, PartFields DEF Receivable, Accepts
<1>10. /\ \A k : Size(k) \in wire' <=> Size(k) \in wire
       /\ \A k : Data(k) \in wire => Data(k) \in wire' \/ k = l
       /\ Data(l) \notin wire'
  BY <1>1, PartFields
<1>11. \A k \in Letter : Sending(k) <=> Sending(k)'
  BY <1>2 DEF Sending
<1>12. \A k \in Letter : k # l /\ Reading(k) => Reading(k)'
  BY <1>1, <1>4, <1>7, <1>9, PartFields, LetterFields DEF Reading
<1>13. ~Sending(l)
  BY <1>4, LetterFields DEF Sending, IInv, SizeBeforeData
<1>14. SizeBeforeData'
  <2>1. ASSUME NEW b \in wire'
        PROVE  IF b.kind = "size"
               THEN Whole(b.of) => Data(b.of) \in wire' \/ Sending(b.of)'
               ELSE Whole(b.of) /\ (Size(b.of) \in wire' \/ Reading(b.of)')
    <3>1. b \in wire /\ b \in Message /\ b.of \in Letter /\ b # m
      BY <1>1, MessageParts DEF IInv, TypeOK
    <3>2. b.of # l
      BY <3>1, <1>4, MessageParts
    <3> QED
      BY <3>1, <3>2, <1>10, <1>11, <1>12 DEF IInv, SizeBeforeData
  <2>2. ASSUME NEW q \in Proc, out[q] # None, pc[q] = "size"
        PROVE  /\ Data(out[q]) \notin wire'
               /\ Whole(out[q]) => Size(out[q]) \in wire' \/ Reading(out[q])'
    <3>1. out[q] \in Letter /\ Sending(out[q])
      BY <2>2 DEF IInv, TypeOK, CallShape, Sending
    <3>2. Reading(out[q]) => Reading(out[q])'
      BY <3>1, <1>2, <1>12, <1>13 DEF Reading
    <3> QED
      BY <2>2, <3>1, <3>2, <1>1, <1>10 DEF IInv, SizeBeforeData
  <2> QED
    BY <2>1, <2>2, <1>2 DEF SizeBeforeData, Whole, Reading
<1>15. ReaderOk'
  <2>1. ASSUME NEW q \in Proc, first[q] # None, Reads(q, first[q].of)
        PROVE  Reads(q, first[q].of)'
    <3>1. first[q].of \in Letter /\ first[q].of.dst = q
      BY <2>1, MessageParts DEF IInv, TypeOK, Reads, Accepts
    <3>2. q # p => first[q].of # l
      BY <3>1, <1>9
    <3> QED
      BY <2>1, <3>1, <3>2, <1>1, <1>2, <1>4, <1>7, <1>10, <1>11 DEF Reads, Whole
  <2> QED
    BY <2>1, <1>1 DEF IInv, ReaderOk
<1> QED
  BY <1>5, <1>6, <1>8, <1>14, <1>15 DEF IInv

LEMMA SizeDoneKeeps ==
  ASSUME IInv, NEW p \in Proc, SizeDone(p)
  PROVE  IInv'
<1> DEFINE l == out[p]
<1>1. /\ pc[p] = "size" /\ pc' = [pc EXCEPT ![p] = "data"]
      /\ wire' = IF l = None THEN wire ELSE wire \cup {Data(l)}
      /\ flying' = [flying EXCEPT ![p] = l # None]
      /\ await' = [await EXCEPT ![p] = from[p] # None]
      /\ from' = [from EXCEPT ![p] = DataSource(p)]
      /\ UNCHANGED <<calls, out, tagf, first, length, second, result>>
      /\ ~SizeFails(p) /\ ~flying[p] /\ ~await[p]
  BY DEF SizeDone, Returned
<1>2. first[p] # None <=> from[p] # None
  BY <1>1 DEF IInv, CallShape
<1>3. TypeOK'
  BY <1>2, SizeDoneType DEF IInv
<1>4. from[p] # None =>
        /\ first[p] = Size(first[p].of) /\ first[p].of \in Letter
        /\ DataSource(p) = first[p].of.src /\ Whole(first[p].of)
        /\ first[p].of.src \in Proc /\ second[p] = None
  <2> SUFFICES ASSUME from[p] # None PROVE <1>4!2
    OBVIOUS
  <2>1. /\ first[p] = Size(first[p].of) /\ length[p] = first[p].of.len
        /\ from[p] \in {AnySource, first[p].of.src}
    BY <1>2 DEF IInv, ReaderOk, Reads, Accepts
  <2>2. first[p].of \in Letter /\ first[p].of.len \in Lengths /\ first[p].of.src \in Proc
    BY <1>2, MessageParts, LetterFields DEF IInv, TypeOK
  <2>3. Whole(first[p].of)
    BY <1>1, <2>1, <2>2, CountInt DEF SizeFails, Whole
  <2>4. DataSource(p) = first[p].of.src
    BY <2>1 DEF DataSource, IInv, CallShape
  <2>5. second[p] = None
    BY <1>1 DEF IInv, CallShape
  <2> QED
    BY <2>1, <2>2, <2>3, <2>4, <2>5
<1>5. from'[p] # None <=> from[p] # None
  BY <1>1, <1>4, DistinctOk DEF IInv, TypeOK, DataSource
<1>6. CallShape'
  <2>1. /\ pc'[p] = "data" /\ (flying'[p] => l # None) /\ (await'[p] <=> from[p] # None)
        /\ from[p] # None => from'[p] = first[p].of.src
        /\ from[p] = None => from'[p] = None
    BY <1>1, <1>4, <1>5 DEF IInv, TypeOK
  <2>2. \A q \in Proc \ {p} : /\ pc'[q] = pc[q] /\ flying'[q] = flying[q]
                             /\ await'[q] = await[q] /\ from'[q] = from[q]
    BY <1>1 DEF IInv, TypeOK
  <2>3. second[p] = None
    BY <1>1 DEF IInv, CallShape
  <2> QED
    BY <1>1, <1>2, <1>4, <2>1, <2>2, <2>3, DistinctOk DEF IInv, CallShape
<1>7. l # None => l \in Letter /\ l.src = p /\ Whole(l) /\ Data(l) \notin wire /\ Sending(l)
                   /\ (Size(l) \in wire \/ Reading(l))
  <2> SUFFICES ASSUME l # None PROVE <1>7!2
    OBVIOUS
  <2>1. l \in Letter /\ l.src = p /\ Whole(l)
    BY <1>1, LetterFields, CountInt DEF IInv, TypeOK, CallShape, SizeFails, Whole
  <2> QED
    BY <2>1, <1>1 DEF IInv, SizeBeforeData, Sending
<1>8. Fresh'
  <2>1. Live' \subseteq Live
    BY <1>1, PartFields DEF Live
  <2> QED
    BY <2>1, <1>1, FreshKept DEF IInv
<1>9. /\ \A k : Size(k) \in wire' <=> Size(k) \in wire
      /\ wire \subseteq wire'
      /\ \A b \in wire' : b \in wire \/ (l # None /\ b = Data(l))
      /\ l # None => Data(l) \in wire'
  BY <1>1, PartFields
<1>10. \A k \in Letter : Reading(k) <=> Reading(k)'
  BY <1>1 DEF Reading
<1>11. \A k \in Letter : Sending(k) => Sending(k)' \/ Data(k) \in wire'
  BY <1>1, <1>7, <1>9, LetterFields DEF Sending, IInv, TypeOK
<1>12. \A q \in Proc : q # p => pc'[q] = pc[q]
  BY <1>1 DEF IInv, TypeOK
<1>13. SizeBeforeData'
  <2>1. ASSUME NEW b \in wire'
        PROVE  IF b.kind = "size"
               THEN Whole(b.of) => Data(b.of) \in wire' \/ Sending(b.of)'
               ELSE Whole(b.of) /\ (Size(b.of) \in wire' \/ Reading(b.of)')
    <3>1. CASE b \in wire
      <4>1. b.of \in Letter
        BY <3>1, MessageParts DEF IInv, TypeOK
      <4> QED
        BY <3>1, <4>1, <1>9, <1>10, <1>11 DEF IInv, SizeBeforeData
    <3>2. CASE l # None /\ b = Data(l)
      BY <3>2, <1>7, <1>9, <1>10, PartFields
    <3> QED
      BY <3>1, <3>2, <1>9
  <2>2. ASSUME NEW q \in Proc, out[q] # None, pc'[q] = "size"
        PROVE  /\ Data(out[q]) \notin wire'
               /\ Whole(out[q]) => Size(out[q]) \in wire' \/ Reading(out[q])'
    <3>1. q # p /\ pc[q] = "size" /\ out[q] \in Letter /\ out[q].src = q
      BY <2>2, <1>1, <1>12 DEF IInv, TypeOK, CallShape
    <3>2. Data(out[q]) \notin wire'
      BY <2>2, <3>1, <1>7, <1>9, PartFields DEF IInv, SizeBeforeData
    <3> QED
      BY <2>2, <3>1, <3>2, <1>1, <1>9 DEF IInv, SizeBeforeData, Reading
  <2> QED
    BY <2>1, <2>2, <1>1 DEF SizeBeforeData, Whole, Reading
<1>14. ReaderOk'
  <2>1. ASSUME NEW q \in Proc, first[q] # None, Reads(q, first[q].of)
        PROVE  Reads(q, first[q].of)'
    <3> DEFINE k == first[q].of
    <3>1. /\ k \in Letter /\ k \in Live /\ k.n \in Nat /\ k.n < calls[k.src] /\ k.src \in Proc
          /\ first[q] = Size(k)
      BY <2>1, MessageParts, LetterFields, LiveMembers DEF IInv, TypeOK, Fresh, Reads
    <3>2. \A b \in wire' : Accepts(q, k.src, tagf[q], b) => k.n <= b.of.n
      <4> SUFFICES ASSUME l # None, k.src = l.src PROVE k.n <= l.n
        BY <2>1, <3>1, <1>9, PartFields, DistinctOk DEF Reads, Accepts
      <4>1. l.n + 1 = calls[l.src] /\ l.n \in Nat
        BY <1>7, LetterFields DEF IInv, CallShape
      <4> QED
        BY <4>1, <3>1
    <3>3. first[q] \notin wire'
      BY <2>1, <3>1, <1>9 DEF Reads
    <3>4. /\ Accepts(q, from'[q], tagf[q], first[q])
          /\ pc'[q] = "data" => from'[q] = k.src /\ Whole(k)
      <4>1. CASE q = p
        BY <4>1, <2>1, <3>1, <1>1, <1>2, <1>4 DEF Reads, Accepts, IInv, TypeOK
      <4>2. CASE q # p
        BY <4>2, <2>1, <1>1, <1>12 DEF Reads, IInv, TypeOK
      <4> QED
        BY <4>1, <4>2
    <3>5. second[q] = None => (Whole(k) => Data(k) \in wire' \/ Sending(k)')
      BY <2>1, <3>1, <1>1, <1>9, <1>11 DEF Reads
    <3> QED
      BY <2>1, <3>2, <3>3, <3>4, <3>5, <1>1 DEF Reads, Whole
  <2> QED
    BY <2>1, <1>1 DEF IInv, ReaderOk
<1> QED
  BY <1>3, <1>6, <1>8, <1>13, <1>14 DEF IInv

\* A call may end when nobody relies on it to read or to send any more.
LEMMA FinishKeeps ==
  ASSUME IInv, NEW p \in Proc, NEW r \in Objs \cup {None, Sent, Raised}, Finish(p, r),
         ~flying[p], ~await[p],
         first[p] # None =>
           /\ Data(first[p].of) \notin wire
           /\ ~(Sending(first[p].of) /\ Whole(first[p].of)),
         out[p] # None /\ pc[p] = "size" => ~Whole(out[p])
  PROVE  IInv'
<1>1. /\ UNCHANGED <<wire, calls, flying, await>>
      /\ pc'[p] = "idle" /\ out'[p] = None /\ from'[p] = None
      /\ first'[p] = None /\ second'[p] = None
      /\ \A q \in Proc \ {p} :
           /\ pc'[q] = pc[q] /\ out'[q] = out[q] /\ from'[q] = from[q] /\ tagf'[q] = tagf[q]
           /\ first'[q] = first[q] /\ second'[q] = second[q] /\ length'[q] = length[q]
  BY DEF Finish, IInv, TypeOK
<1>2. TypeOK'
  BY FinishType DEF IInv
<1>3. CallShape'
  BY <1>1 DEF IInv, CallShape
<1>4. Fresh'
  <2>1. Live' \subseteq Live
    BY <1>1 DEF Live
  <2> QED
    BY <2>1, <1>1, FreshKept DEF IInv
<1>5. \A k \in Letter : Sending(k) /\ Whole(k) => Sending(k)'
  <2> SUFFICES ASSUME NEW k \in Letter, Sending(k), Whole(k) PROVE Sending(k)'
    OBVIOUS
  <2>1. k.src \in Proc /\ k # None
    BY LetterFields
  <2>2. k.src # p
    BY <2>1 DEF Sending
  <2> QED
    BY <1>1, <2>1, <2>2 DEF Sending
<1>6. \A k \in Letter : Reading(k) /\ (Data(k) \in wire \/ (Sending(k) /\ Whole(k))) => Reading(k)'
  <2> SUFFICES ASSUME NEW k \in Letter, Reading(k), Data(k) \in wire \/ (Sending(k) /\ Whole(k))
               PROVE  Reading(k)'
    OBVIOUS
  <2>1. k.dst \in Proc /\ Size(k) # None
    BY LetterFields, PartTypes, MessageParts
  <2>2. k.dst # p
    BY <2>1, PartFields DEF Reading
  <2> QED
    BY <1>1, <2>1, <2>2 DEF Reading
<1>7. SizeBeforeData'
  <2>1. ASSUME NEW b \in wire
        PROVE  IF b.kind = "size"
               THEN Whole(b.of) => Data(b.of) \in wire \/ Sending(b.of)'
               ELSE Whole(b.of) /\ (Size(b.of) \in wire \/ Reading(b.of)')
    <3>1. b.of \in Letter /\ (b.kind # "size" => b = Data(b.of))
      BY MessageParts DEF IInv, TypeOK
    <3> QED
      BY <3>1, <1>5, <1>6 DEF IInv, SizeBeforeData
  <2>2. ASSUME NEW q \in Proc \ {p}, out[q] # None, pc[q] = "size"
        PROVE  /\ Data(out[q]) \notin wire
               /\ Whole(out[q]) => Size(out[q]) \in wire \/ Reading(out[q])'
    <3>1. out[q] \in Letter /\ Sending(out[q])
      BY <2>2 DEF IInv, TypeOK, CallShape, Sending
    <3>2. Reading(out[q]) /\ Whole(out[q]) => Reading(out[q])'
      BY <3>1, <2>2, <1>1, <1>6 DEF Reading
    <3> QED
      BY <2>2, <3>2 DEF IInv, SizeBeforeData
  <2> QED
    BY <2>1, <2>2, <1>1 DEF SizeBeforeData, Whole, Reading
<1>8. ReaderOk'
  <2>1. ASSUME NEW q \in Proc \ {p}, first[q] # None, Reads(q, first[q].of)
        PROVE  Reads(q, first[q].of)'
    <3>1. first[q].of \in Letter
      BY <2>1, MessageParts DEF IInv, TypeOK
    <3> QED
      BY <2>1, <3>1, <1>1, <1>5 DEF Reads, Whole
  <2> QED
    BY <2>1, <1>1 DEF IInv, ReaderOk
<1> QED
  BY <1>2, <1>3, <1>4, <1>7, <1>8 DEF IInv

LEMMA SizeRaisesKeeps ==
  ASSUME IInv, NEW p \in Proc, SizeRaises(p)
  PROVE  IInv'
<1>1. pc[p] = "size" /\ ~flying[p] /\ ~await[p] /\ SizeFails(p) /\ Finish(p, Raised)
  BY DEF SizeRaises, Returned
<1>2. first[p] # None <=> from[p] # None
  BY <1>1 DEF IInv, CallShape
<1>3. out[p] # None => out[p] \in Letter /\ Count(out[p].len) \in Int /\ out[p].len \in Lengths
  BY LetterFields, CountInt DEF IInv, TypeOK
<1>4. from[p] # None =>
        LET l == first[p].of IN
        /\ Bytes(first[p]) = IntBytes /\ length[p] = l.len
        /\ Count(l.len) \in Int /\ l.len \in Lengths
  BY <1>2, MessageParts, LetterFields, CountInt, PartFields DEF IInv, TypeOK, ReaderOk, Reads, Bytes
<1>5. ~(out[p] # None /\ from[p] # None)
  <2> SUFFICES ASSUME out[p] # None, from[p] # None PROVE FALSE
    OBVIOUS
  <2>1. \A len \in Lengths : Count(len) >= 0
    BY DEF IInv, CallShape
  <2> QED
    BY <2>1, <1>1, <1>3, <1>4, IntsOk DEF SizeFails
<1>6. first[p] # None => ~Whole(first[p].of) /\ Data(first[p].of) \notin wire
  <2>1. first[p] # None => ~Whole(first[p].of)
    BY <1>1, <1>2, <1>4, <1>5, IntsOk DEF SizeFails, Whole
  <2> QED
    BY <2>1, PartFields DEF IInv, SizeBeforeData
<1>7. out[p] # None => ~Whole(out[p])
  BY <1>1, <1>3, <1>5 DEF SizeFails, Whole
<1> QED
  BY <1>1, <1>6, <1>7, FinishKeeps

LEMMA LoadedType ==
  ASSUME TypeOK, NEW p \in Proc, second[p] # None
  PROVE  Loaded(p) \in Objs \cup {Raised}
<1>1. second[p].of.obj \in Objs
  BY MessageParts, LetterFields DEF TypeOK
<1> QED
  BY <1>1 DEF Loaded, Load

LEMMA DataDoneKeeps ==
  ASSUME IInv, NEW p \in Proc, DataDone(p)
  PROVE  IInv'
<1>1. /\ pc[p] = "data" /\ ~flying[p] /\ ~await[p]
      /\ Finish(p, IF from[p] = None THEN Sent ELSE Loaded(p))
  BY DEF DataDone, Returned
<1>2. from[p] # None <=> first[p] # None /\ second[p] # None
  BY <1>1 DEF IInv, CallShape
<1>3. first[p] # None => from[p] # None
  BY DEF IInv, CallShape
<1>4. first[p] # None =>
        /\ Data(first[p].of) \notin wire
        /\ ~(Sending(first[p].of) /\ Whole(first[p].of))
  <2> SUFFICES ASSUME first[p] # None PROVE <1>4!2
    OBVIOUS
  <2> DEFINE l == first[p].of
  <2>1. l \in Letter /\ l.dst = p /\ l.src \in Proc /\ first[p] = Size(l) /\ Size(l) \notin wire
    BY MessageParts, LetterFields DEF IInv, TypeOK, ReaderOk, Reads, Accepts
  <2>2. ~Reading(l)
    BY <2>1, <1>2, <1>3 DEF Reading
  <2>3. Data(l) \notin wire
    BY <2>1, <2>2, PartFields DEF IInv, SizeBeforeData
  <2>4. ~(Sending(l) /\ Whole(l))
    BY <2>1, <2>2, LetterFields DEF IInv, SizeBeforeData, Sending
  <2> QED
    BY <2>3, <2>4
<1>5. (IF from[p] = None THEN Sent ELSE Loaded(p)) \in Objs \cup {None, Sent, Raised}
  BY <1>2, LoadedType DEF IInv
<1> QED
  BY <1>1, <1>4, <1>5, FinishKeeps

-----------------------------------------------------------------------------
(* The theorems.                                                            *)

LEMMA StepKeeps ==
  ASSUME Disciplined, IInv, [Next]_vars
  PROVE  IInv'
<1>1. CASE UNCHANGED vars
  <2>1. TypeOK' /\ CallShape'
    BY <1>1 DEF IInv, vars, sendVars, recvVars, TypeOK, CallShape
  <2>2. Fresh' /\ SizeBeforeData' /\ ReaderOk'
    BY <1>1 DEF IInv, vars, sendVars, recvVars, Fresh, Live, SizeBeforeData, ReaderOk, Reads,
                Sending, Reading, Whole
  <2> QED
    BY <2>1, <2>2 DEF IInv
<1>2. CASE Next
  <2>1. PICK p \in Proc : Step(p)
    BY <1>2 DEF Next
  <2>2. CASE Send(p) \/ Recv(p) \/ Sendrecv(p)
    <3>1. PICK l, src, tag :
            /\ CallArgs(p, l, src, tag) /\ Start(p, l, src, tag)
            /\ l # None /\ src # None => src \in ExchFrom[p]
      BY <2>2, Calls DEF IInv
    <3>2. l # None /\ src # None => src # AnySource /\ \A len \in Lengths : Count(len) >= 0
      BY <3>1 DEF Disciplined
    <3> QED
      BY <3>1, <3>2, StartKeeps
  <2>3. CASE CompleteMatched(p) \/ CompleteEager(p)
    BY <2>3, SendReturnsKeeps DEF CompleteMatched, CompleteEager
  <2>4. CASE Match(p)
    <3>1. pc[p] \in {"size", "data"}
      BY <2>4 DEF Match
    <3> QED
      BY <2>4, <3>1, MatchSizeKeeps, MatchDataKeeps
  <2>5. CASE SizeRaises(p)
    BY <2>5, SizeRaisesKeeps
  <2>6. CASE SizeDone(p)
    BY <2>6, SizeDoneKeeps
  <2>7. CASE DataDone(p)
    BY <2>7, DataDoneKeeps
  <2> QED
    BY <2>1, <2>2, <2>3, <2>4, <2>5, <2>6, <2>7 DEF Step
<1> QED
  BY <1>1, <1>2

\* The strengthened invariant holds in every state of every program that
\* keeps to Disciplined: comm_send, comm_ssend, comm_rsend, comm_recv and
\* comm_sendrecv between any number of processes.
THEOREM SpecInv == ASSUME Disciplined PROVE Spec => []IInv
<1>1. IInv /\ [Next]_vars => IInv'
  BY StepKeeps
<1> QED
  BY InitInv, <1>1, PTL DEF Spec

LEMMA InvPairing == IInv => Pairing
<1> SUFFICES ASSUME IInv, NEW p \in Proc, first[p] # None \/ second[p] # None
             PROVE  first[p] # None /\ first[p].kind = "size"
                    /\ (second[p] # None => second[p] = Data(first[p].of))
  BY DEF Pairing
<1>1. first[p] # None
  BY DEF IInv, CallShape
<1> QED
  BY <1>1, PartFields DEF IInv, ReaderOk, Reads

LEMMA InvNoOrphans == IInv => NoOrphans
BY DEF IInv, SizeBeforeData, Reading, NoOrphans

\* The data a receiving call takes is that of the letter whose size it took.
THEOREM SpecPairing == ASSUME Disciplined PROVE Spec => []Pairing
BY SpecInv, InvPairing, PTL

\* No data message outlives the interest of its addressee.
THEOREM SpecNoOrphans == ASSUME Disciplined PROVE Spec => []NoOrphans
BY SpecInv, InvNoOrphans, PTL

-----------------------------------------------------------------------------
(* When every length covers its dump, nothing raises.                       *)

LEMMA StepDelivered ==
  ASSUME Covering, IInv, Delivered, [Next]_vars
  PROVE  Delivered'
<1>1. \A l \in Letter : Count(l.len) \in Int /\ Count(l.len) >= DumpLen[l.obj] /\ Count(l.len) >= 0
  <2> SUFFICES ASSUME NEW l \in Letter PROVE <1>1!(l)
    OBVIOUS
  <2>1. l.len \in Lengths /\ l.obj \in Objs /\ Count(l.len) \in Int /\ DumpLen[l.obj] \in Nat
    BY LetterFields, CountInt, DumpsOk
  <2> QED
    BY <2>1 DEF Covering
<1>2. ASSUME NEW p \in Proc PROVE ~SizeRaises(p)
  <2> SUFFICES ASSUME SizeRaises(p) PROVE FALSE
    OBVIOUS
  <2>1. pc[p] = "size" /\ SizeFails(p) /\ (first[p] # None <=> from[p] # None)
    BY DEF SizeRaises, Returned, IInv, CallShape
  <2>2. CASE out[p] # None /\ Count(out[p].len) < 0
    BY <2>2, <1>1 DEF IInv, TypeOK
  <2>3. CASE first[p] # None /\ (Bytes(first[p]) > IntBytes \/ Count(length[p]) < 0)
    <3>1. first[p].of \in Letter /\ first[p] = Size(first[p].of) /\ length[p] = first[p].of.len
      BY <2>3, MessageParts DEF IInv, TypeOK, ReaderOk, Reads
    <3>2. Bytes(first[p]) = IntBytes
      BY <3>1, PartFields DEF Bytes
    <3> QED
      BY <2>3, <3>1, <3>2, <1>1, IntsOk
  <2> QED
    BY <2>1, <2>2, <2>3 DEF SizeFails
<1>3. ASSUME NEW p \in Proc, DataDone(p) PROVE result' = [result EXCEPT ![p] = result'[p]] /\ result'[p] # Raised
  <2>1. result' = [result EXCEPT ![p] = IF from[p] = None THEN Sent ELSE Loaded(p)]
    BY <1>3 DEF DataDone, Finish
  <2>2. from[p] # None => Loaded(p) \in Objs
    <3> SUFFICES ASSUME from[p] # None PROVE Loaded(p) \in Objs
      OBVIOUS
    <3> DEFINE l == first[p].of
    <3>1. first[p] # None /\ second[p] # None
      BY <1>3 DEF DataDone, Returned, IInv, CallShape
    <3>2. l \in Letter /\ second[p] = Data(l) /\ length[p] = l.len
      BY <3>1, MessageParts DEF IInv, TypeOK, ReaderOk, Reads
    <3>3. l.obj \in Objs /\ DumpLen[l.obj] \in Nat /\ Bytes(Data(l)) = Count(l.len)
      BY <3>2, LetterFields, PartFields, DumpsOk DEF Bytes
    <3> QED
      BY <3>2, <3>3, <1>1, PartFields DEF Loaded, Load
  <2>3. result'[p] = IF from[p] = None THEN Sent ELSE Loaded(p)
    BY <2>1 DEF IInv, TypeOK
  <2> QED
    BY <2>1, <2>2, <2>3, DistinctOk, DumpsOk
<1>4. CASE UNCHANGED result
  BY <1>4 DEF Delivered
<1>5. CASE \E p \in Proc : DataDone(p)
  BY <1>3, <1>5 DEF Delivered, IInv, TypeOK
<1>6. UNCHANGED result \/ \E p \in Proc : DataDone(p)
  BY <1>2 DEF Next, Step, Send, Recv, Sendrecv, Start, CompleteMatched, CompleteEager, SendReturns,
              Match, SizeDone, vars
<1> QED
  BY <1>4, <1>5, <1>6

\* If the sender's "length" covered the dump, as strlen(dump) would, every
\* send would return true and every recv an object: what the two MPI calls
\* per object need from the length, and all they need.
THEOREM SpecDelivered == ASSUME Disciplined, Covering PROVE Spec => []Delivered
<1>1. Init => Delivered
  BY DistinctOk DEF Init, Delivered
<1>2. IInv /\ Delivered /\ [Next]_vars => Delivered'
  BY StepDelivered
<1> QED
  BY SpecInv, <1>1, <1>2, PTL DEF Spec

-----------------------------------------------------------------------------
(* Refinement: PointToPoint implements ObjectMailbox.                       *)

MailBar == {m.of : m \in {s \in wire : s.kind = "size"}}
HandBar == [p \in Proc |-> IF first[p] = None THEN None ELSE first[p].of]
BusyBar == [p \in Proc |-> pc[p] # "idle"]

LEMMA MailBarMembers ==
  ASSUME TypeOK
  PROVE  MailBar \subseteq Letter /\ \A l : l \in MailBar <=> l \in Letter /\ Size(l) \in wire
<1>1. \A m \in wire : m.kind = "size" => m.of \in Letter /\ m = Size(m.of)
  BY MessageParts DEF TypeOK
<1> QED
  BY <1>1, PartFields DEF MailBar

LEMMA CallRefines ==
  ASSUME IInv, NEW p \in Proc, NEW l, NEW src, NEW tag,
         CallArgs(p, l, src, tag), Start(p, l, src, tag)
  PROVE  Mailbox!Call(p)
<1>1. TypeOK'
  BY StartType DEF IInv
<1>2. /\ MailBar \subseteq MailBar'
      /\ \A k \in MailBar' \ MailBar : l # None /\ k = l
  BY <1>1, MailBarMembers, PartFields DEF IInv, MailBar, Start
<1>3. /\ \A k \in MailBar' \ MailBar : k.src = p /\ k.n = calls[p]
      /\ \A j, k \in MailBar' \ MailBar : j = k
  BY <1>2 DEF CallArgs
<1>4. BusyBar[p] = FALSE /\ BusyBar' = [BusyBar EXCEPT ![p] = TRUE]
  BY DEF Start, BusyBar, IInv, TypeOK
<1>5. /\ calls' = [calls EXCEPT ![p] = @ + 1]
      /\ UNCHANGED <<first, result>>
  BY DEF Start
<1>6. HandBar' = HandBar
  BY <1>5 DEF HandBar
<1> QED
  BY <1>2, <1>3, <1>4, <1>5, <1>6 DEF Mailbox!Call, MailBar, BusyBar, HandBar

LEMMA TakeRefines ==
  ASSUME IInv, NEW p \in Proc, Match(p), pc[p] = "size"
  PROVE  \E l \in MailBar : Mailbox!Take(p, l)
<1>1. PICK m \in Receivable(wire, p, from[p], tagf[p]) :
        /\ wire' = wire \ {m} /\ first' = [first EXCEPT ![p] = m]
        /\ UNCHANGED <<calls, pc, result>>
  BY DEF Match
<1> DEFINE l == m.of
<1>2. m \in wire /\ l \in Letter /\ m = Size(l) /\ m.kind = "size" /\ m # None
  BY <1>1, TakesSize, MessageParts DEF Match, Receivable, IInv, TypeOK
<1>3. first[p] = None
  BY DEF Match, IInv, CallShape
<1>4. l \in MailBar /\ MailBar' = MailBar \ {l}
  <2>1. \A b \in wire : b.kind = "size" => b = Size(b.of)
    BY MessageParts DEF IInv, TypeOK
  <2> QED
    BY <2>1, <1>1, <1>2, PartFields DEF MailBar
<1>5. \A k \in MailBar : Mailbox!SameRoute(k, l) => l.n <= k.n
  <2> SUFFICES ASSUME NEW k \in MailBar, Mailbox!SameRoute(k, l) PROVE l.n <= k.n
    OBVIOUS
  <2>1. Size(k) \in wire /\ k.n \in Nat /\ l.n \in Nat
    BY <1>2, MailBarMembers, LetterFields DEF IInv
  <2>2. Accepts(p, from[p], tagf[p], Size(k))
    BY <1>1, PartFields DEF Receivable, Accepts, Mailbox!SameRoute
  <2>3. ~Before(Size(k), m)
    BY <2>1, <2>2, <1>1 DEF Receivable
  <2> QED
    BY <2>1, <2>3, <1>2, PartFields DEF Before, Mailbox!SameRoute
<1>6. l.dst = p
  BY <1>1 DEF Receivable, Accepts
<1>7. HandBar[p] = None /\ HandBar' = [HandBar EXCEPT ![p] = l]
  BY <1>1, <1>2, <1>3 DEF HandBar, IInv, TypeOK
<1>8. BusyBar[p] /\ BusyBar' = BusyBar
  BY <1>1 DEF BusyBar
<1>9. UNCHANGED <<calls, result>>
  BY <1>1
<1>10. Mailbox!Take(p, l)
  BY <1>4, <1>5, <1>6, <1>7, <1>8, <1>9 DEF Mailbox!Take, MailBar, BusyBar, HandBar
<1> QED
  BY <1>4, <1>10

LEMMA ReplyRefines ==
  ASSUME IInv, NEW p \in Proc, NEW r, Finish(p, r), pc[p] # "idle",
         r \in {IF first[p] = None THEN Sent ELSE first[p].of.obj, Raised}
  PROVE  Mailbox!Reply(p)
<1>1. BusyBar[p] /\ BusyBar' = [BusyBar EXCEPT ![p] = FALSE]
  BY DEF Finish, BusyBar, IInv, TypeOK
<1>2. HandBar' = [HandBar EXCEPT ![p] = None]
  BY DEF Finish, HandBar, IInv, TypeOK
<1>3. MailBar' = MailBar /\ UNCHANGED calls /\ result' = [result EXCEPT ![p] = r]
  BY DEF Finish, MailBar
<1>4. r \in {IF HandBar[p] = None THEN Sent ELSE HandBar[p].obj, Raised}
  <2>1. first[p] # None => first[p].of # None
    BY MessageParts, LetterFields DEF IInv, TypeOK
  <2> QED
    BY <2>1 DEF HandBar
<1> QED
  BY <1>1, <1>2, <1>3, <1>4 DEF Mailbox!Reply, MailBar, BusyBar, HandBar

LEMMA DataDoneRefines ==
  ASSUME IInv, NEW p \in Proc, DataDone(p)
  PROVE  Mailbox!Reply(p)
<1>1. /\ pc[p] = "data" /\ ~await[p]
      /\ Finish(p, IF from[p] = None THEN Sent ELSE Loaded(p))
      /\ (first[p] # None <=> from[p] # None) /\ (second[p] # None <=> from[p] # None)
  BY DEF DataDone, Returned, IInv, CallShape
<1>2. first[p] # None => Loaded(p) \in {first[p].of.obj, Raised}
  <2>1. first[p] # None => second[p] = Data(first[p].of)
    BY <1>1 DEF IInv, ReaderOk, Reads
  <2> QED
    BY <2>1, PartFields DEF Loaded, Load
<1> QED
  BY <1>1, <1>2, ReplyRefines

LEMMA StepRefines ==
  ASSUME Disciplined, IInv, [Next]_vars
  PROVE  [Mailbox!MailNext]_(Mailbox!mailVars)
<1>1. ASSUME UNCHANGED <<calls, pc, first, result>>, MailBar' = MailBar
      PROVE  UNCHANGED Mailbox!mailVars
  BY <1>1 DEF Mailbox!mailVars, MailBar
<1>2. CASE UNCHANGED vars
  BY <1>1, <1>2 DEF vars, recvVars, MailBar
<1>3. CASE Next
  <2>1. PICK p \in Proc : Step(p)
    BY <1>3 DEF Next
  <2>2. CASE Send(p) \/ Recv(p) \/ Sendrecv(p)
    <3>1. Mailbox!Call(p)
      BY <2>2, Calls, CallRefines DEF IInv
    <3> QED
      BY <3>1 DEF Mailbox!MailNext
  <2>3. CASE CompleteMatched(p) \/ CompleteEager(p)
    BY <2>3, <1>1 DEF CompleteMatched, CompleteEager, SendReturns, recvVars, MailBar
  <2>4. CASE Match(p) /\ pc[p] = "size"
    BY <2>4, TakeRefines DEF Mailbox!MailNext, MailBar
  <2>5. CASE Match(p) /\ pc[p] # "size"
    <3>1. pc[p] = "data"
      BY <2>5 DEF Match
    <3>2. PICK m \in Receivable(wire, p, from[p], tagf[p]) :
            wire' = wire \ {m} /\ UNCHANGED <<calls, pc, first, result>>
      BY <2>5, <3>1 DEF Match
    <3>3. m = Data(first[p].of)
      BY <2>5, <3>1, TakesData DEF Match
    <3>4. MailBar' = MailBar
      BY <3>2, <3>3, PartFields DEF MailBar
    <3> QED
      BY <3>2, <3>4, <1>1
  <2>6. CASE SizeRaises(p)
    <3>1. Finish(p, Raised) /\ pc[p] # "idle"
      BY <2>6 DEF SizeRaises
    <3>2. Mailbox!Reply(p)
      BY <3>1, ReplyRefines
    <3> QED
      BY <3>2 DEF Mailbox!MailNext
  <2>7. CASE SizeDone(p)
    <3>1. MailBar' = MailBar
      BY <2>7, PartFields DEF SizeDone, MailBar
    <3>2. BusyBar' = BusyBar /\ UNCHANGED <<calls, first, result>>
      BY <2>7 DEF SizeDone, Returned, BusyBar, IInv, TypeOK
    <3> QED
      BY <3>1, <3>2 DEF Mailbox!mailVars, MailBar, BusyBar
  <2>8. CASE DataDone(p)
    BY <2>8, DataDoneRefines DEF Mailbox!MailNext
  <2> QED
    BY <2>1, <2>2, <2>3, <2>4, <2>5, <2>6, <2>7, <2>8 DEF Step
<1> QED
  BY <1>2, <1>3

\* The blocking calls of MPI::Comm implement a mailbox of whole objects, for
\* every program that keeps to Disciplined: each letter is taken at most
\* once, by its addressee, in order, and the object returned is its own.
THEOREM SpecMailbox == ASSUME Disciplined PROVE Spec => ImplementsMailbox
<1>1. Init => Mailbox!MailInit
  BY DEF Init, Mailbox!MailInit
<1>2. IInv /\ [Next]_vars => [Mailbox!MailNext]_(Mailbox!mailVars)
  BY StepRefines
<1> QED
  BY SpecInv, <1>1, <1>2, PTL DEF Spec, ImplementsMailbox, Mailbox!MailSpec
=============================================================================
