------------------------- MODULE RequestsPairProofs -------------------------
(* Proofs that a careful program gets both halves of one letter from each   *)
(* of its requests.                                                         *)
EXTENDS RequestsProofs

-----------------------------------------------------------------------------
(* The invariant in parts.                                                  *)

\* What is on its way, and what the requests know of it.
Mail ==
  /\ \A z \in Coming : z.kind = "size" => Followed(z)
  /\ \A q \in Req : Untouched(q) /\ Reader(q)

\* What the two threads know of the requests.
Desk == \A q \in Req : Waiting(q) /\ Filling(q)

LEMMA PairedParts ==
  /\ Paired <=> /\ sized \in [Req -> Messages \cup {None}]
                /\ Streams /\ \A q \in Req : SizeOf(q)
                /\ upc # "astray" => Mail /\ Desk /\ Blocking
  /\ Paired' <=> /\ sized' \in [Req -> Messages \cup {None}]
                 /\ Streams' /\ \A q \in Req : SizeOf(q)'
                 /\ upc' # "astray" => Mail' /\ Desk' /\ Blocking'
BY DEF Paired, Mail, Desk

-----------------------------------------------------------------------------
(* Facts about messages.                                                    *)

\* A message is for one request, and so is the other half of its letter.
LEMMA ForOne ==
  ASSUME Careful, NEW q \in Req, NEW r \in Req, NEW a \in Messages, NEW b \in Messages,
         a.of.src = b.of.src, a.of.tag = b.of.tag, For(q, a), For(r, b)
  PROVE  q = r /\ For(q, b)
<1>1. a.of.src \in Senders /\ a.of.tag \in Tags
  BY DEF Messages, Letters
<1> QED BY <1>1 DEF Careful, For

LEMMA ComingTyped ==
  ASSUME TypeOK
  PROVE  /\ wire \subseteq Coming
         /\ \A m \in Coming : m \in Messages
         /\ \A m \in Coming : m \notin wire =>
              /\ m.of.src \in Senders /\ out[m.of.src] # None /\ m = Data(out[m.of.src])
              /\ m.of = out[m.of.src] /\ m.kind = "data"
<1>1. wire \subseteq Messages /\ out \in [Senders -> Letters \cup {None}]
      /\ \A s \in Senders : out[s] # None => out[s].src = s
  BY TypeParts DEF WireOk
<1>2. ASSUME NEW s \in Senders, out[s] # None
      PROVE  /\ Data(out[s]) \in Messages /\ Data(out[s]).of = out[s] /\ Data(out[s]).of.src = s
             /\ Data(out[s]).kind = "data"
  <2>1. out[s] \in Letters /\ out[s].src = s
    BY <1>1, <1>2
  <2> QED BY <2>1, Parts DEF Data
<1>3. \A m \in Coming : m \in wire \/ \E s \in Senders : out[s] # None /\ m = Data(out[s])
  BY DEF Coming
<1> QED BY <1>1, <1>2, <1>3 DEF Coming

LEMMA MessageNumbers ==
  ASSUME NEW m \in Messages
  PROVE  /\ m.of.n \in Nat /\ m.of.len \in Int /\ m.of.src \in Senders /\ m.of.dst = Me
         /\ m.of # None /\ m # None /\ m.kind \in {"size", "data"}
BY NoneOk DEF Messages, Letters

LEMMA CountNat ==
  ASSUME TypeOK
  PROVE  \A s \in Senders : count[s] \in Nat
BY TypeParts DEF WireOk

-----------------------------------------------------------------------------
(* Steps that leave the messages alone.                                     *)

LEMMA StreamsSame ==
  ASSUME Streams, UNCHANGED <<wire, out, count>>
  PROVE  Streams'
<1>1. Coming' = Coming
  BY DEF Coming
<1> QED BY <1>1 DEF Streams, Numbered, Matched, Outgoing

LEMMA ReaderIs ==
  ASSUME NEW q
  PROVE  /\ Reader(q) <=> \A z : z = sized[q] /\ z # None => Reads(q, z)
         /\ Reader(q)' <=> \A z : z = sized'[q] /\ z # None => Reads(q, z)'
BY DEF Reader

\* No receive takes a message; if one is posted for data, it is for the sender
\* of the size.
LEMMA MailKept ==
  ASSUME Mail, Coming' = Coming, UNCHANGED <<count, sized, buflen>>,
         \A i \in DOMAIN recvs : recvs'[i].got = recvs[i].got /\ recvs'[i].src = recvs[i].src,
         \A q \in Req :
           /\ Receives(q, "data") \subseteq Receives(q, "data")'
           /\ \A i \in Receives(q, "data")' \ Receives(q, "data") :
                recvs'[i].got = None /\ recvs'[i].src = sized[q].of.src /\ Count(buflen[q]) >= 0
  PROVE  Mail'
<1>1. Coming' = Coming
  OBVIOUS
<1>2. \A z : /\ Followed(z)' <=> Followed(z)
             /\ Announced(z)' <=> Announced(z)
  BY <1>1 DEF Followed, Announced
<1>3. \A z \in Coming' : z.kind = "size" => Followed(z)'
  BY <1>1, <1>2 DEF Mail
<1>4. ASSUME NEW q \in Req
      PROVE  Untouched(q)' /\ Reader(q)'
  <2>1. Untouched(q) /\ Reader(q)
    BY DEF Mail
  <2>2. Untouched(q)'
    BY <1>1, <1>2, <2>1 DEF Untouched
  <2>3. \A z : DataNext(q, z)' <=> DataNext(q, z)
    BY <1>1, <1>2 DEF DataNext
  <2>4. ASSUME NEW z, z = sized[q], z # None
        PROVE  Reads(q, z)'
    <3>1. Reads(q, z)
      BY <2>1, <2>4, ReaderIs
    <3>2. sized'[q] = z /\ buflen'[q] = buflen[q] /\ count' = count
      BY <2>4
    <3>3. \A i \in Receives(q, "data") : recvs'[i].got = recvs[i].got /\ recvs'[i].src = recvs[i].src
      BY DEF Receives
    <3>4. (\A i \in Receives(q, "data")' : recvs'[i].got = None) => Followed(z)' /\ DataNext(q, z)'
      BY <1>2, <2>3, <3>1, <3>3 DEF Reads
    <3>5. ASSUME NEW i \in Receives(q, "data")'
          PROVE  IF recvs'[i].got = None THEN recvs'[i].src = z.of.src /\ Count(buflen[q]) >= 0
                 ELSE Halves(recvs'[i].got, z)
      <4>1. CASE i \in Receives(q, "data")
        BY <3>1, <3>3, <4>1 DEF Reads
      <4>2. CASE i \notin Receives(q, "data")
        BY <2>4, <4>2
      <4> QED BY <4>1, <4>2
    <3> QED BY <3>1, <3>2, <3>4, <3>5 DEF Reads
  <2>5. Reader(q)'
    BY <2>4, ReaderIs
  <2> QED BY <2>2, <2>5
<1> QED BY <1>3, <1>4 DEF Mail

-----------------------------------------------------------------------------
(* The senders.                                                             *)

\* A letter is begun: its size, as a says, and if they leave at all its data,
\* as d says.
LEMMA NewLetter ==
  ASSUME TypeOK, Streams, NEW s \in Senders, NEW a \in Letters, NEW d \in Letters,
         a.src = s, d.src = s, a.n = count[s], d.n = count[s], a.tag = d.tag, a.obj = d.obj,
         Coming' = Coming \cup {Size(a)} \cup (IF Whole(d) THEN {Data(d)} ELSE {}),
         count' = [count EXCEPT ![s] = @ + 1]
  PROVE  Numbered' /\ Matched'
<1> DEFINE X == {Size(a)} \cup (IF Whole(d) THEN {Data(d)} ELSE {})
<1>1. \A m \in Coming : /\ m.of.src \in Senders /\ m.of.n \in Nat /\ m.of.n < count[m.of.src]
                        /\ m.kind \in {"size", "data"}
  BY ComingTyped, MessageNumbers DEF Streams, Numbered
<1>2. \A m \in X : /\ m.of.src = s /\ m.of.n = count[s] /\ m.of.tag = a.tag /\ m.of.obj = a.obj
                   /\ m = IF m.kind = "size" THEN Size(a) ELSE Data(d)
                   /\ m.kind \in {"size", "data"}
  BY DEF Size, Data
<1>3. Coming' = Coming \cup X
  OBVIOUS
<1> HIDE DEF X
<1>4. count[s] \in Nat /\ count'[s] = count[s] + 1
      /\ \A p \in Senders \ {s} : count'[p] = count[p]
  BY TypeParts DEF WireOk
<1>5. \A m \in Coming' : m.of.n < count'[m.of.src]
  <2> TAKE m \in Coming'
  <2>1. CASE m \in Coming
    BY <1>1, <1>4, <2>1, CountNat
  <2>2. CASE m \in X
    BY <1>2, <1>4, <2>2
  <2> QED BY <1>3, <2>1, <2>2
<1>6. \A b \in Coming : \A c \in X : ~Twins(b, c) /\ ~Twins(c, b)
  BY <1>1, <1>2, <1>4 DEF Twins
<1>7. \A b, c \in X : IF b.kind = c.kind THEN b = c ELSE b.of.tag = c.of.tag /\ b.of.obj = c.of.obj
  BY <1>2
<1>8. \A b, c \in Coming : Twins(b, c) =>
        IF b.kind = c.kind THEN b = c ELSE b.of.tag = c.of.tag /\ b.of.obj = c.of.obj
  BY DEF Streams, Matched
<1>9. Matched'
  BY <1>3, <1>6, <1>7, <1>8 DEF Matched, Twins
<1> QED BY <1>5, <1>9 DEF Numbered

LEMMA MailSent ==
  ASSUME TypeOK, Streams, Mail, NEW s \in Senders, NEW a \in Letters, NEW d \in Letters,
         a.src = s, d.src = s, a.n = count[s], d.n = count[s], a.tag = d.tag, a.obj = d.obj,
         Whole(d) \/ Count(a.len) < 0,
         Coming' = Coming \cup {Size(a)} \cup (IF Whole(d) THEN {Data(d)} ELSE {}),
         count' = [count EXCEPT ![s] = @ + 1],
         UNCHANGED <<recvs, sized, buflen>>
  PROVE  Mail'
<1> DEFINE X == {Size(a)} \cup (IF Whole(d) THEN {Data(d)} ELSE {})
<1>1. Coming' = Coming \cup X
  OBVIOUS
<1>2. \A m \in X : /\ m.of.src = s /\ m.of.n = count[s]
                   /\ m = Size(a) \/ (m.kind = "data" /\ Whole(d) /\ m = Data(d))
  BY DEF Size, Data
<1>3. Size(a).kind = "size" /\ Size(a).of = a /\ Size(a) \in Coming'
  BY DEF Size
<1>4. \A z : Followed(z) => Followed(z)'
  BY <1>1 DEF Followed
<1>5. Followed(Size(a))'
  <2>1. CASE Whole(d)
    <3>1. Data(d) \in Coming' /\ Halves(Data(d), Size(a))
      BY <2>1 DEF Halves, OtherHalf, Data, Size
    <3> QED BY <3>1 DEF Followed
  <2>2. CASE Count(a.len) < 0
    BY <1>3, <2>2 DEF Followed
  <2> QED BY <2>1, <2>2
<1>6. \A m : Announced(m) => Announced(m)'
  BY <1>1 DEF Announced
<1>7. \A m \in X : Announced(m)'
  BY <1>2, <1>3 DEF Announced, Twins
<1>8. \A z \in Coming' : z.kind = "size" => Followed(z)'
  BY <1>1, <1>2, <1>4, <1>5 DEF Mail
<1> HIDE DEF X
<1>9. ASSUME NEW q \in Req
      PROVE  Untouched(q)' /\ Reader(q)'
  <2>1. Untouched(q) /\ Reader(q)
    BY DEF Mail
  <2>2. Untouched(q)'
    BY <1>1, <1>6, <1>7, <2>1 DEF Untouched
  <2>3. ASSUME NEW z, z = sized[q], z # None
        PROVE  Reads(q, z)'
    <3>1. Reads(q, z)
      BY <2>1, <2>3, ReaderIs
    <3>2. z \in Messages /\ z.of.n < count[z.of.src] /\ z.of.src \in Senders /\ z.of.n \in Nat
      BY <3>1, MessageNumbers DEF Reads
    <3>3. DataNext(q, z) => DataNext(q, z)'
      <4> SUFFICES ASSUME DataNext(q, z), NEW m \in Coming', m.of.src = z.of.src, For(q, m)
                   PROVE  Halves(m, z) \/ (z.of.n < m.of.n /\ (m.kind = "data" => Announced(m)'))
        BY DEF DataNext
      <4>1. CASE m \in Coming
        BY <1>6, <4>1 DEF DataNext
      <4>2. CASE m \in X
        BY <1>2, <1>7, <3>2, <4>2
      <4> QED BY <1>1, <4>1, <4>2
    <3>4. z.of.n < count'[z.of.src]
      BY <3>2, TypeParts DEF WireOk
    <3>5. Receives(q, "data")' = Receives(q, "data")
      BY DEF Receives
    <3> QED BY <1>4, <2>3, <3>1, <3>3, <3>4, <3>5 DEF Reads
  <2>4. Reader(q)'
    BY <2>3, ReaderIs
  <2> QED BY <2>2, <2>4
<1> QED BY <1>8, <1>9 DEF Mail

LEMMA SendSizeMail ==
  ASSUME TypeOK, Streams, NEW s \in Senders, SendSize(s)
  PROVE  Streams' /\ (Mail => Mail')
<1>1. PICK w \in Writes[s] :
        /\ wire' = wire \cup {Size(Letter(s, w, w[3]))}
        /\ out' = [out EXCEPT ![s] = Letter(s, w, w[3])]
  BY DEF SendSize, Ways
<1>2. w[3] \in Int
  <2>1. 0 \in Int
    OBVIOUS
  <2> QED BY <2>1, LetterOf
<1>3. PICK l \in Letters : l = Letter(s, w, w[3]) /\ l.src = s /\ l.n = count[s]
  <2>1. Letter(s, w, w[3]).n = count[s]
    BY DEF Letter
  <2> QED BY <1>2, <2>1, LetterOf
<1>4. /\ wire' = wire \cup {Size(l)} /\ out' = [out EXCEPT ![s] = l]
      /\ count' = [count EXCEPT ![s] = @ + 1] /\ out[s] = None /\ l # None
  BY <1>1, <1>3, NoneOk DEF SendSize, Ready
<1>5. out \in [Senders -> Letters \cup {None}] /\ count \in [Senders -> Nat]
      /\ \A p \in Senders : out[p] # None => out[p].src = p
  BY TypeParts DEF WireOk
<1>6. out'[s] = l /\ \A p \in Senders \ {s} : out'[p] = out[p]
  BY <1>4, <1>5
<1>7. Coming' = Coming \cup {Size(l)} \cup (IF Whole(l) THEN {Data(l)} ELSE {})
  <2>1. Coming' = wire' \cup {Data(out'[p]) : p \in {t \in Senders : out'[t] # None /\ Whole(out'[t])}}
    BY DEF Coming, Whole
  <2>2. \A x : x \in Coming' <=> x \in Coming \/ x = Size(l) \/ (Whole(l) /\ x = Data(l))
    BY <1>4, <1>6, <2>1 DEF Coming
  <2> QED BY <2>2
<1>8. Numbered' /\ Matched'
  BY <1>3, <1>4, <1>7, NewLetter
<1>9. ASSUME NEW p \in Senders, out'[p] # None
      PROVE  out'[p].n + 1 = count'[p] /\ Data(out'[p]) \notin wire'
  <2>1. Data(out'[p]) # Size(l)
    BY DEF Data, Size
  <2>2. CASE p = s
    <3>1. Data(l) \notin wire
      <4> SUFFICES ASSUME Data(l) \in wire PROVE FALSE
        OBVIOUS
      <4>1. Data(l).of.n < count[Data(l).of.src]
        BY ComingTyped DEF Streams, Numbered
      <4> QED BY <1>3, <1>5, <4>1 DEF Data
    <3> QED BY <1>3, <1>4, <1>5, <1>6, <2>1, <2>2, <3>1
  <2>3. CASE p # s
    BY <1>4, <1>5, <1>6, <1>9, <2>1, <2>3 DEF Streams, Outgoing
  <2> QED BY <2>2, <2>3
<1>10. Streams'
  BY <1>8, <1>9 DEF Streams, Outgoing
<1>11. Whole(l) \/ Count(l.len) < 0
  <2>1. l.len \in Lengths
    BY <1>2, <1>3, LetterOf
  <2>2. Count(l.len) \in Int
    BY <2>1, Constants
  <2> QED BY <2>2 DEF Whole
<1>12. UNCHANGED <<recvs, sized, buflen>>
  BY DEF SendSize, mr
<1> QED BY <1>3, <1>4, <1>7, <1>10, <1>11, <1>12, MailSent

LEMMA SendDataMail ==
  ASSUME TypeOK, Streams, NEW s \in Senders, SendData(s)
  PROVE  Streams' /\ (Mail => Mail')
<1>1. /\ wire' = IF Whole(out[s]) THEN wire \cup {Data(out[s])} ELSE wire
      /\ out' = [out EXCEPT ![s] = None] /\ out[s] # None
      /\ UNCHANGED <<count, recvs, sized, buflen>>
  BY DEF SendData, mr
<1>2. out \in [Senders -> Letters \cup {None}]
      /\ \A p \in Senders : out[p] # None => out[p].src = p
  BY TypeParts DEF WireOk
<1>3. out'[s] = None /\ \A p \in Senders \ {s} : out'[p] = out[p]
  BY <1>1, <1>2
<1>4. Coming' = Coming
  <2>1. Coming' = wire' \cup {Data(out'[p]) : p \in {t \in Senders : out'[t] # None /\ Whole(out'[t])}}
    BY DEF Coming, Whole
  <2>2. \A x : x \in Coming' <=> x \in Coming
    BY <1>1, <1>3, <2>1 DEF Coming
  <2> QED BY <2>2
<1>5. ASSUME NEW p \in Senders, out'[p] # None
      PROVE  out'[p].n + 1 = count'[p] /\ Data(out'[p]) \notin wire'
  <2>1. p # s /\ out'[p] = out[p] /\ out[p].src # out[s].src
    BY <1>1, <1>2, <1>3, <1>5
  <2>2. Data(out[p]) # Data(out[s])
    BY <2>1 DEF Data
  <2> QED BY <1>1, <1>5, <2>1, <2>2 DEF Streams, Outgoing
<1>6. Streams'
  BY <1>1, <1>4, <1>5 DEF Streams, Numbered, Matched, Outgoing
<1>7. \A q : Receives(q, "data")' = Receives(q, "data")
  BY <1>1 DEF Receives
<1> QED BY <1>1, <1>4, <1>6, <1>7, MailKept

LEMMA SendBothMail ==
  ASSUME TypeOK, Streams, NEW s \in Senders, NEW w \in Writes[s], NEW n \in Int, NEW len \in Int,
         Count(len) >= 0, SendBoth(s, Letter(s, w, n), Letter(s, w, len))
  PROVE  Streams' /\ (Mail => Mail')
<1>1. PICK a \in Letters, d \in Letters :
        /\ a = Letter(s, w, n) /\ d = Letter(s, w, len)
        /\ a.src = s /\ d.src = s /\ d.len = len
  BY LetterOf
<1>2. a.n = count[s] /\ d.n = count[s] /\ a.tag = d.tag /\ a.obj = d.obj /\ Whole(d)
  BY <1>1 DEF Letter, Whole
<1>3. /\ wire' = wire \cup {Size(a)} \cup (IF Whole(d) THEN {Data(d)} ELSE {})
      /\ count' = [count EXCEPT ![s] = @ + 1] /\ out[s] = None
      /\ UNCHANGED <<out, recvs, sized, buflen>>
  BY <1>1 DEF SendBoth, Ready, mr
<1>4. Coming' = Coming \cup {Size(a)} \cup (IF Whole(d) THEN {Data(d)} ELSE {})
  BY <1>3 DEF Coming
<1>5. Numbered' /\ Matched'
  BY <1>1, <1>2, <1>3, <1>4, NewLetter
<1>6. ASSUME NEW p \in Senders, out'[p] # None
      PROVE  out'[p].n + 1 = count'[p] /\ Data(out'[p]) \notin wire'
  <2>1. p # s /\ out'[p] = out[p] /\ out[p] # None /\ out[p].src = p /\ count'[p] = count[p]
    BY <1>3, <1>6, TypeParts DEF WireOk
  <2>2. Data(out[p]) # Size(a) /\ Data(out[p]) # Data(d)
    BY <1>1, <2>1 DEF Data, Size
  <2> QED BY <1>3, <2>1, <2>2 DEF Streams, Outgoing
<1>7. Streams'
  BY <1>5, <1>6 DEF Streams, Outgoing
<1> QED BY <1>1, <1>2, <1>3, <1>4, <1>7, MailSent

LEMMA SendingPaired ==
  ASSUME IInv, Careful, Paired, NEW s \in Senders, Sending(s)
  PROVE  Paired'
<1>1. TypeOK /\ Streams
  BY DEF IInv, Paired
<1>a. \A w \in Writes[s] : w[3] \in Int /\ w[3] \in Lengths
  <2>1. 0 \in Int
    OBVIOUS
  <2> QED BY <1>1, <2>1, LetterOf
<1>2. Streams' /\ (Mail => Mail')
  <2>1. CASE Isend(s)
    <3>1. PICK w \in Ways(s, "isend"), frame \in Ways(s, "isend") :
            SendBoth(s, Letter(s, w, frame[3]), Letter(s, w, w[3]))
      BY <2>1 DEF Isend
    <3>2. w \in Writes[s] /\ frame \in Writes[s] /\ Count(w[3]) >= 0
      BY DEF Careful, Ways
    <3> QED BY <1>1, <1>a, <3>1, <3>2, SendBothMail
  <2>2. CASE StartSend(s)
    <3>1. PICK w \in Writes[s] : SendBoth(s, Letter(s, w, 0), Letter(s, w, -1))
      BY <2>2 DEF StartSend, Ways
    <3>2. 0 \in Int /\ -1 \in Int /\ Count(-1) >= 0
      BY IntsOk DEF Count
    <3> QED BY <1>1, <3>1, <3>2, SendBothMail
  <2> QED BY <1>1, <2>1, <2>2, SendSizeMail, SendDataMail DEF Sending
<1>3. UNCHANGED <<recvs, req, stage, peer, buflen, sized, buf, obj, rlist, upc, call, group, answer>>
  BY DEF Sending, SendSize, SendData, Isend, StartSend, SendBoth, mr, user
<1>4. \A q \in Req : SizeOf(q)'
  BY <1>3 DEF Paired, SizeOf, Receives
<1>5. Desk => Desk'
  BY <1>3 DEF Desk, Waiting, Filling, Receives, Slots, Started, Hopeless
<1>6. Blocking => Blocking'
  BY <1>3 DEF Blocking, InSize
<1>7. sized' \in [Req -> Messages \cup {None}]
  BY <1>3 DEF Paired
<1> QED BY <1>2, <1>3, <1>4, <1>5, <1>6, <1>7, PairedParts

-----------------------------------------------------------------------------
(* MPI hands over a message.                                                *)

LEMMA OneLess ==
  ASSUME TypeOK, Streams, NEW m \in wire, wire' = wire \ {m}, UNCHANGED <<out, count>>
  PROVE  /\ m \in Coming /\ Coming' = Coming \ {m} /\ Streams'
         /\ \A z \in Coming : z.kind = "size" => z \in wire
<1>1. \A p \in Senders : out[p] # None => Data(out[p]) # m
  BY DEF Streams, Outgoing
<1>2. Coming' = Coming \ {m}
  <2>1. \A x : x \in Coming' <=> x \in Coming /\ x # m
    BY <1>1 DEF Coming
  <2> QED BY <2>1
<1>3. m \in Coming
  BY DEF Coming
<1>4. \A z \in Coming : z.kind = "size" => z \in wire
  BY DEF Coming, Data
<1>5. Streams'
  <2>1. Numbered' /\ Matched'
    BY <1>2 DEF Streams, Numbered, Matched
  <2>2. Outgoing'
    BY DEF Streams, Outgoing
  <2> QED BY <2>1, <2>2 DEF Streams
<1> QED BY <1>2, <1>3, <1>4, <1>5

\* The size of a letter leaves the wire: no request is waiting for it but q.
LEMMA StillAnnounced ==
  ASSUME Careful, TypeOK, Streams, NEW m \in Coming, NEW q \in Req, For(q, m),
         Coming' = Coming \ {m},
         NEW r \in Req, r # q, NEW d \in Coming, For(r, d), Announced(d)
  PROVE  Announced(d)'
<1>1. PICK z \in Coming : z.kind = "size" /\ Twins(z, d)
  BY DEF Announced
<1>2. z \in Messages /\ d \in Messages /\ m \in Messages
  BY ComingTyped
<1>3. z.of.src = d.of.src /\ z.of.tag = d.of.tag
  BY <1>1 DEF Streams, Matched, Twins
<1>4. z # m
  BY <1>2, <1>3, ForOne
<1> QED BY <1>1, <1>4 DEF Announced

\* What has been received says nothing of another request's letters.
LEMMA OthersRead ==
  ASSUME Careful, TypeOK, Streams, Mail, NEW m \in Coming, NEW q \in Req, For(q, m),
         Coming' = Coming \ {m}, UNCHANGED count, NEW r \in Req, r # q,
         sized'[r] = sized[r], buflen'[r] = buflen[r], Receives(r, "data")' = Receives(r, "data"),
         \A i \in Receives(r, "data") : recvs'[i] = recvs[i]
  PROVE  Untouched(r)' /\ Reader(r)'
<1>1. Untouched(r) /\ Reader(r)
  BY DEF Mail
<1>2. \A d \in Coming : For(r, d) /\ Announced(d) => Announced(d)'
  BY StillAnnounced
<1>3. Untouched(r)'
  BY <1>1, <1>2 DEF Untouched, For
<1>4. ASSUME NEW z, z = sized[r], z # None
      PROVE  Reads(r, z)'
  <2>1. Reads(r, z)
    BY <1>1, <1>4, ReaderIs
  <2>2. z \in Messages /\ For(r, z) /\ m \in Messages
    BY <2>1, ComingTyped DEF Reads
  <2>3. Followed(z) => Followed(z)'
    <3> SUFFICES ASSUME NEW d \in Coming, Halves(d, z) PROVE d # m
      BY DEF Followed
    <3>1. d.of.src = z.of.src /\ d.of.tag = z.of.tag
      BY DEF Halves, OtherHalf
    <3> QED BY <2>2, <3>1, ForOne
  <2>4. DataNext(r, z) => DataNext(r, z)'
    BY <1>2 DEF DataNext, For
  <2> QED BY <1>4, <2>1, <2>3, <2>4 DEF Reads, For
<1> QED BY <1>3, <1>4, ReaderIs

\* The receive of a size takes one, and learns where its data are.
LEMMA SizeArrives ==
  ASSUME Careful, TypeOK, Streams, Mail, NEW m \in wire, wire' = wire \ {m},
         UNCHANGED <<out, count>>, NEW q \in Req, sized[q] = None, Receives(q, "data") = {},
         m \in Receivable(wire, Me, Source[q], TagOf[q]),
         sized' = [sized EXCEPT ![q] = m],
         \E len \in Stored(m) : buflen' = [buflen EXCEPT ![q] = len],
         DOMAIN sized = Req,
         \A r \in Req : Receives(r, "data")' = Receives(r, "data"),
         \A r \in Req \ {q} : \A i \in Receives(r, "data") : recvs'[i] = recvs[i]
  PROVE  Mail' /\ m.kind = "size" /\ buflen'[q] = m.of.len
<1>1. /\ m \in Coming /\ Coming' = Coming \ {m} /\ m \in Messages
      /\ \A z \in Coming : z.kind = "size" => z \in wire
      /\ \A z \in Coming : z \in Messages
  BY OneLess, ComingTyped
<1>2. Accepts(Me, Source[q], TagOf[q], m)
      /\ \A b \in wire : Before(b, m) => ~Accepts(Me, Source[q], TagOf[q], b)
  BY DEF Receivable
<1>3. For(q, m)
  BY <1>2 DEF For, Accepts
<1>4. \A b \in wire : For(q, b) => ~Before(b, m)
  <2> SUFFICES ASSUME NEW b \in wire, For(q, b) PROVE Accepts(Me, Source[q], TagOf[q], b)
    BY <1>2
  <2>1. b.of.dst = Me
    BY <1>1, OneLess, ComingTyped, MessageNumbers
  <2> QED BY <2>1 DEF For, Accepts
<1>5. \A d \in Coming : d.kind = "data" /\ For(q, d) => Announced(d)
  BY DEF Mail, Untouched
\* A size it accepts is not older, one with its number is itself.
<1>6. ASSUME NEW z \in Coming, z.kind = "size", For(q, z), z.of.src = m.of.src
      PROVE  /\ m.of.n <= z.of.n
             /\ m.kind = "data" => m.of.n # z.of.n
             /\ m.kind = "size" /\ m.of.n = z.of.n => m = z
  <2>1. z \in wire /\ m.of.n \in Nat /\ z.of.n \in Nat
    BY <1>1, <1>6, MessageNumbers
  <2>2. ~Before(z, m)
    BY <1>4, <1>6, <2>1
  <2>3. ~(z.of.n < m.of.n) /\ ~(z.of.n = m.of.n /\ m.kind = "data")
    BY <1>6, <2>2 DEF Before
  <2>4. m.kind = "size" /\ m.of.n = z.of.n => m = z
    BY <1>1, <1>6 DEF Streams, Matched, Twins
  <2> QED BY <2>1, <2>3, <2>4
<1>7. m.kind = "size"
  <2> SUFFICES ASSUME m.kind # "size" PROVE FALSE
    OBVIOUS
  <2>1. m.kind = "data"
    BY <1>1, MessageNumbers
  <2>2. PICK z \in Coming : z.kind = "size" /\ Twins(z, m)
    BY <1>1, <1>3, <1>5, <2>1 DEF Announced
  <2>3. z.of.src = m.of.src /\ z.of.n = m.of.n /\ z.of.tag = m.of.tag
    BY <1>1, <2>1, <2>2 DEF Streams, Matched, Twins
  <2> QED BY <1>3, <1>6, <2>1, <2>2, <2>3 DEF For
<1>8. /\ buflen'[q] = m.of.len /\ sized'[q] = m
      /\ \A r \in Req \ {q} : buflen'[r] = buflen[r] /\ sized'[r] = sized[r]
  <2>1. buflen' = [buflen EXCEPT ![q] = m.of.len]
    BY <1>7 DEF Stored
  <2> QED BY <2>1, TypeParts DEF HandlesOk
\* The data of every announced letter are still coming.
<1>9. \A z \in Coming : z.kind = "size" => Followed(z)'
  <2> SUFFICES ASSUME NEW z \in Coming, z.kind = "size" PROVE Followed(z)'
    OBVIOUS
  <2>1. Followed(z)
    BY DEF Mail
  <2>2. \A d : Halves(d, z) => d # m
    BY <1>7 DEF Halves, OtherHalf
  <2> QED BY <1>1, <2>1, <2>2 DEF Followed
<1>10. DataNext(q, m)'
  <2> SUFFICES ASSUME NEW b \in Coming', b.of.src = m.of.src, For(q, b)
               PROVE  Halves(b, m) \/ (m.of.n < b.of.n /\ (b.kind = "data" => Announced(b)'))
    BY DEF DataNext, For
  <2>1. b \in Coming /\ b # m /\ b.of.n \in Nat /\ m.of.n \in Nat /\ b.kind \in {"size", "data"}
    BY <1>1, MessageNumbers
  <2>2. CASE b.kind = "size"
    <3>1. m.of.n <= b.of.n /\ m.of.n # b.of.n
      BY <1>6, <1>7, <2>1, <2>2
    <3> QED BY <2>1, <2>2, <3>1
  <2>3. CASE b.kind = "data"
    <3>1. PICK z \in Coming : z.kind = "size" /\ Twins(z, b)
      BY <1>5, <2>1, <2>3 DEF Announced
    <3>2. z.of.src = b.of.src /\ z.of.n = b.of.n /\ z.of.tag = b.of.tag /\ z.of.obj = b.of.obj
      BY <2>1, <2>3, <3>1 DEF Streams, Matched, Twins
    <3>3. CASE z = m
      BY <2>3, <3>2, <3>3 DEF Halves, OtherHalf
    <3>4. CASE z # m
      <4>1. m.of.n <= z.of.n /\ m.of.n # z.of.n
        BY <1>6, <1>7, <3>1, <3>2, <3>4 DEF For
      <4>2. Announced(b)'
        BY <1>1, <3>1, <3>4 DEF Announced
      <4> QED BY <2>1, <3>2, <4>1, <4>2
    <3> QED BY <3>3, <3>4
  <2> QED BY <2>1, <2>2, <2>3
<1>11. Untouched(q)' /\ Reader(q)'
  <2>1. m # None /\ m.of.n < count'[m.of.src]
    BY <1>1, MessageNumbers DEF Streams, Numbered
  <2>2. Untouched(q)'
    BY <1>8, <2>1 DEF Untouched
  <2>3. For(q, m)'
    BY <1>3 DEF For
  <2>4. Receives(q, "data")' = {}
    OBVIOUS
  <2>5. Reads(q, m)'
    BY <1>1, <1>7, <1>8, <1>9, <1>10, <2>1, <2>3, <2>4 DEF Reads
  <2> QED BY <1>8, <2>2, <2>5, ReaderIs
<1>12. \A r \in Req \ {q} : Untouched(r)' /\ Reader(r)'
  <2> TAKE r \in Req \ {q}
  <2> QED BY <1>1, <1>3, <1>8, OthersRead
<1>13. Mail'
  BY <1>1, <1>9, <1>11, <1>12 DEF Mail
<1> QED BY <1>7, <1>8, <1>13

\* The receive of the data takes those of the same letter.
LEMMA DataArrives ==
  ASSUME Careful, TypeOK, Streams, Mail, NEW m \in wire, wire' = wire \ {m},
         UNCHANGED <<out, count, sized, buflen>>, NEW q \in Req, NEW i \in Receives(q, "data"),
         Receives(q, "data") = {i}, recvs[i].got = None, sized[q] # None,
         m \in Receivable(wire, Me, recvs[i].src, TagOf[q]),
         recvs'[i].got = m,
         \A r \in Req : Receives(r, "data")' = Receives(r, "data"),
         \A r \in Req \ {q} : \A j \in Receives(r, "data") : recvs'[j] = recvs[j]
  PROVE  Mail' /\ Halves(m, sized[q])
<1>1. /\ m \in Coming /\ Coming' = Coming \ {m} /\ m \in Messages
      /\ \A z \in Coming : z \in Messages
  BY OneLess, ComingTyped
<1>2. PICK z : z = sized[q] /\ Reads(q, z)
  BY DEF Mail, Reader
<1>3. /\ z \in Messages /\ z.kind = "size" /\ For(q, z) /\ z.of.n < count[z.of.src]
      /\ Followed(z) /\ DataNext(q, z) /\ recvs[i].src = z.of.src /\ ~(Count(z.of.len) < 0)
  <2>1. Count(z.of.len) \in Int
    <3>1. buflen[q] = z.of.len /\ buflen[q] \in Lengths \cup {0}
      BY <1>2, TypeParts DEF Reads, HandlesOk
    <3> QED BY <3>1, Constants
  <2> QED BY <1>2, <2>1 DEF Reads
<1>4. PICK d \in Coming : Halves(d, z)
  BY <1>3 DEF Followed
<1>5. z.of.src = m.of.src /\ For(q, m)
      /\ \A b \in wire : Before(b, m) => ~Accepts(Me, z.of.src, TagOf[q], b)
  <2>1. z.of.src # AnySource
    BY <1>3, MessageNumbers, NoneOk
  <2> QED BY <1>3, <2>1 DEF Receivable, Accepts, For
<1>6. d.kind = "data" /\ d.of.src = z.of.src /\ d.of.n = z.of.n /\ d.of.tag = z.of.tag
  BY <1>4 DEF Halves, OtherHalf
<1>7. Halves(m, z)
  <2> SUFFICES ASSUME z.of.n < m.of.n PROVE FALSE
    BY <1>1, <1>3, <1>5 DEF DataNext
  <2>1. d.of.dst = Me /\ m.of.n \in Nat /\ d.of.n \in Nat
    BY <1>1, MessageNumbers
  <2>2. CASE d \in wire
    <3>1. Accepts(Me, z.of.src, TagOf[q], d)
      BY <1>3, <1>6, <2>1 DEF Accepts, For
    <3>2. Before(d, m)
      BY <1>5, <1>6 DEF Before
    <3> QED BY <1>5, <2>2, <3>1, <3>2
  <2>3. CASE d \notin wire
    <3>1. d.of.src \in Senders /\ out[d.of.src] # None /\ d.of = out[d.of.src]
      BY <2>3, ComingTyped
    <3>2. d.of.n + 1 = count[d.of.src]
      BY <3>1 DEF Streams, Outgoing
    <3>3. m.of.n < count[m.of.src] /\ count[m.of.src] \in Nat
      BY <1>1, MessageNumbers, CountNat DEF Streams, Numbered
    <3> QED BY <1>5, <1>6, <2>1, <3>2, <3>3
  <2> QED BY <2>2, <2>3
<1>8. m.kind = "data" /\ m.of.src = z.of.src /\ m.of.n = z.of.n /\ m.of.tag = z.of.tag
  BY <1>7 DEF Halves, OtherHalf
<1>9. \A y \in Coming : y.kind = "size" => Followed(y)'
  <2> SUFFICES ASSUME NEW y \in Coming, y.kind = "size" PROVE Followed(y)'
    OBVIOUS
  <2>1. Followed(y)
    BY DEF Mail
  <2>2. ~Halves(m, y)
    <3> SUFFICES ASSUME Halves(m, y) PROVE FALSE
      OBVIOUS
    <3>1. y.of.src = z.of.src /\ y.of.n = z.of.n /\ y.of.tag = z.of.tag
      BY <1>8 DEF Halves, OtherHalf
    <3>2. For(q, y) /\ ~Halves(y, z) /\ z.of.n \in Nat
      BY <1>3, <3>1, MessageNumbers DEF For, Halves, OtherHalf
    <3> QED BY <1>3, <3>1, <3>2 DEF DataNext
  <2> QED BY <1>1, <2>1, <2>2 DEF Followed
<1>10. Untouched(q)' /\ Reader(q)'
  <2>1. m # None /\ For(q, z)'
    BY <1>1, <1>3, MessageNumbers DEF For
  <2>2. Untouched(q)'
    BY DEF Untouched
  <2>3. Reads(q, z)'
    BY <1>2, <1>3, <1>7, <2>1 DEF Reads
  <2> QED BY <1>2, <2>2, <2>3, ReaderIs
<1>11. \A r \in Req \ {q} : Untouched(r)' /\ Reader(r)'
  <2> TAKE r \in Req \ {q}
  <2>1. sized'[r] = sized[r] /\ buflen'[r] = buflen[r]
    OBVIOUS
  <2> QED BY <1>1, <1>5, <2>1, OthersRead
<1>12. Mail'
  BY <1>1, <1>9, <1>10, <1>11 DEF Mail
<1> QED BY <1>2, <1>7, <1>12

LEMMA SizeOfKept ==
  ASSUME NEW q \in Req, SizeOf(q), Receives(q, "size")' = Receives(q, "size"),
         \A i \in Receives(q, "size") : /\ recvs'[i].got = recvs[i].got
                                        /\ recvs'[i].room = recvs[i].room
                                        /\ recvs'[i].src = recvs[i].src,
         sized'[q] = sized[q],
         obj'[q] = obj[q] \/ (sized[q] # None /\ obj'[q] = sized[q].of.obj)
  PROVE  SizeOf(q)'
<1>1. PICK S, z : S = Receives(q, "size") /\ z = sized[q]
  OBVIOUS
<1>2. /\ \A i, j \in S : i = j
      /\ \A i \in S : recvs'[i].got = z /\ recvs'[i].room = IntBytes /\ recvs'[i].src = Source[q]
      /\ S = {} => z = None
      /\ obj[q] # None => z # None /\ obj[q] = z.of.obj
  BY <1>1 DEF SizeOf
<1>3. Receives(q, "size")' = S /\ sized'[q] = z
  BY <1>1
<1>4. obj'[q] # None => z # None /\ obj'[q] = z.of.obj
  BY <1>1, <1>2
<1> QED BY <1>2, <1>3, <1>4 DEF SizeOf

LEMMA WaitingKept ==
  ASSUME NEW q \in Req, Waiting(q), Started(q)' <=> Started(q), Slots(q)' \subseteq Slots(q),
         Receives(q, "size")' = Receives(q, "size"), Receives(q, "data")' = Receives(q, "data"),
         \A i \in Receives(q, "size") : recvs'[i].cancelled = recvs[i].cancelled,
         Hopeless(q) => Hopeless(q)',
         peer'[q] = peer[q] \/ (Started(q) /\ (Slots(q)' = {} \/ Hopeless(q))),
         req'[q] = req[q] \/ (req'[q] = Null /\ (Slots(q)' = {} \/ Hopeless(q)))
  PROVE  Waiting(q)'
<1>1. PICK S, D : S = Receives(q, "size") /\ D = Receives(q, "data")
  OBVIOUS
<1>2. S = Receives(q, "size")' /\ D = Receives(q, "data")'
  BY <1>1
<1>3. ~Started(q)' => peer'[q] = Source[q]
  BY DEF Waiting
<1>4. ASSUME Slots(q)' # {}
      PROVE  /\ peer'[q] = Source[q] \/ Hopeless(q)'
             /\ D = {}
             /\ \E i \in S : ~recvs'[i].cancelled /\ (req'[q] = i \/ (req'[q] = Null /\ Hopeless(q)'))
  <2>1. Slots(q) # {}
    BY <1>4
  <2>2. peer'[q] = Source[q] \/ Hopeless(q)'
    BY <1>4, <2>1 DEF Waiting
  <2>3. D = {}
    BY <1>1, <2>1 DEF Waiting
  <2>4. PICK i \in S : ~recvs[i].cancelled /\ (req[q] = i \/ (req[q] = Null /\ Hopeless(q)))
    BY <1>1, <2>1 DEF Waiting
  <2>5. ~recvs'[i].cancelled
    BY <1>1, <2>4
  <2>6. req'[q] = i \/ (req'[q] = Null /\ Hopeless(q)')
    BY <1>4, <2>4
  <2> QED BY <2>2, <2>3, <2>5, <2>6
<1> QED BY <1>2, <1>3, <1>4 DEF Waiting

LEMMA FillingKept ==
  ASSUME TypeOK, TypeOK', NEW q \in Req, Filling(q), Receives(q, "data")' = Receives(q, "data"),
         \A i \in DOMAIN recvs : i \in DOMAIN recvs' /\ recvs'[i].q = recvs[i].q,
         \A i \in Receives(q, "data") : /\ recvs'[i].cancelled = recvs[i].cancelled
                                        /\ recvs[i].got # None => recvs'[i].got # None,
         sized[q] # None => sized'[q] # None,
         stage'[q] = stage[q], buf'[q] \in {buf[q], None},
         \/ req'[q] = req[q]
         \/ /\ req'[q] = Null
            /\ stage[q] = "TX_DATA" => \E i \in Receives(q, "data") : recvs[i].got # None,
         answer'[q] = "done" =>
           answer[q] = "done" \/ \E i \in Receives(q, "data") : recvs[i].got # None
  PROVE  Filling(q)'
<1>1. PICK D : D = Receives(q, "data") /\ D = Receives(q, "data")'
  OBVIOUS
<1>2. /\ \A i, j \in D : i = j
      /\ D # {} => sized'[q] # None
      /\ \A i \in D : recvs[i].got # None => recvs'[i].got # None
  BY <1>1 DEF Filling
<1>3. stage'[q] = "TX_DATA" =>
        \E i \in D : ~recvs'[i].cancelled /\ (req'[q] = i \/ (req'[q] = Null /\ recvs'[i].got # None))
  <2> SUFFICES ASSUME stage[q] = "TX_DATA"
               PROVE  \E i \in D : /\ ~recvs'[i].cancelled
                                   /\ req'[q] = i \/ (req'[q] = Null /\ recvs'[i].got # None)
    OBVIOUS
  <2>1. PICK i \in D : ~recvs[i].cancelled /\ (req[q] = i \/ (req[q] = Null /\ recvs[i].got # None))
    BY <1>1 DEF Filling
  <2>2. ~recvs'[i].cancelled
    BY <1>1, <2>1
  <2>3. CASE req'[q] = req[q]
    BY <1>2, <2>1, <2>2, <2>3
  <2>4. CASE req'[q] = Null /\ \E j \in D : recvs[j].got # None
    BY <1>2, <2>2, <2>4
  <2> QED BY <1>1, <2>3, <2>4
<1>4. req'[q] \in DOMAIN recvs' => recvs'[req'[q]].q = q
  <2>1. req[q] \in DOMAIN recvs \cup {None, Null} /\ None \notin DOMAIN recvs' /\ Null \notin DOMAIN recvs'
    <3>1. recvs' \in Seq(Receive)
      BY TypeParts DEF HandlesOk
    <3> QED BY <3>1, NoneOk, TypeParts DEF HandlesOk
  <2>2. CASE req'[q] = req[q]
    <3>1. req[q] \in DOMAIN recvs => recvs'[req[q]].q = q
      BY DEF Filling
    <3> QED BY <2>1, <2>2, <3>1
  <2> QED BY <2>1, <2>2
<1>5. buf'[q] # None => buf'[q] \in D
  BY <1>1 DEF Filling
<1>6. answer'[q] = "done" => \E i \in D : recvs'[i].got # None
  BY <1>1, <1>2 DEF Filling
<1> QED BY <1>1, <1>2, <1>3, <1>4, <1>5, <1>6 DEF Filling

LEMMA DeliverPaired ==
  ASSUME IInv, Careful, Paired, NEW i \in DOMAIN recvs, NEW m \in wire, Deliver(i, m)
  PROVE  Paired'
<1>t. TypeOK'
  BY DeliverInv DEF IInv
<1>a. /\ TypeOK /\ HandlesOk /\ Streams /\ sized \in [Req -> Messages \cup {None}]
      /\ \A r \in Req : SizeOf(r)
      /\ upc # "astray" => Mail /\ Desk /\ Blocking
  BY Typed, PairedParts
<1>1. PICK q \in Req : q = recvs[i].q
  BY <1>a, RecvsAt
<1>2. /\ Pending(i) /\ m \in Receivable(wire, Me, recvs[i].src, TagOf[q])
      /\ wire' = wire \ {m} /\ recvs' = [recvs EXCEPT ![i].got = m]
      /\ UNCHANGED <<out, count, req, stage, peer, buf, obj, rlist, upc, call, group, answer>>
  BY <1>1 DEF Deliver, user
<1>3. m \in Messages /\ m # None
  BY <1>a, <1>2, ComingTyped, MessageNumbers
<1>4. recvs[i] \in Receive /\ recvs[i].part \in {"size", "data"} /\ recvs[i].got = None
  BY <1>a, <1>2, RecvsAt DEF Receive, Pending
<1>5. /\ DOMAIN recvs' = DOMAIN recvs
      /\ recvs'[i] = [recvs[i] EXCEPT !.got = m]
      /\ \A j \in DOMAIN recvs \ {i} : recvs'[j] = recvs[j]
  BY <1>2, <1>a DEF HandlesOk
<1>6. /\ recvs'[i].q = q /\ recvs'[i].part = recvs[i].part /\ recvs'[i].src = recvs[i].src
      /\ recvs'[i].room = recvs[i].room /\ recvs'[i].got = m
      /\ recvs'[i].cancelled = recvs[i].cancelled
  BY <1>1, <1>4, <1>5 DEF Receive
<1>7. \A r, part : Receives(r, part)' = Receives(r, part)
  <2> TAKE r, part
  <2>1. Receives(r, part)' = {j \in DOMAIN recvs' : recvs'[j].q = r /\ recvs'[j].part = part}
    BY DEF Receives
  <2>2. \A j \in DOMAIN recvs : recvs'[j].q = recvs[j].q /\ recvs'[j].part = recvs[j].part
    BY <1>1, <1>5, <1>6
  <2> QED BY <1>5, <2>1, <2>2 DEF Receives
<1>8. \A r \in Req \ {q} : \A part : \A j \in Receives(r, part) : recvs'[j] = recvs[j]
  BY <1>1, <1>5 DEF Receives
<1>9. \A r \in Req : Slots(r)' = Slots(r) /\ (Started(r)' <=> Started(r))
  BY <1>1, <1>2, <1>5, <1>6 DEF Slots, Started
<1>10. Streams'
  BY <1>a, <1>2, OneLess
<1>11. Blocking => Blocking'
  BY <1>2 DEF Blocking, InSize
\* The other requests.
<1>12. ASSUME NEW r \in Req \ {q}, sized'[r] = sized[r], buflen'[r] = buflen[r]
       PROVE  SizeOf(r)' /\ (Desk => Waiting(r)' /\ Filling(r)')
  <2>1. SizeOf(r)'
    BY <1>a, <1>2, <1>7, <1>8, <1>12, SizeOfKept
  <2>2. Waiting(r) => Waiting(r)'
    <3>1. Hopeless(r)' <=> Hopeless(r)
      BY <1>12 DEF Hopeless
    <3> QED BY <1>2, <1>7, <1>8, <1>9, <3>1, WaitingKept
  <2>3. Filling(r) => Filling(r)'
    <3>1. \A j \in DOMAIN recvs : j \in DOMAIN recvs' /\ recvs'[j].q = recvs[j].q
      BY <1>1, <1>5, <1>6
    <3>2. \A j \in Receives(r, "data") : /\ recvs'[j].cancelled = recvs[j].cancelled
                                         /\ recvs[j].got # None => recvs'[j].got # None
      BY <1>8
    <3>3. Receives(r, "data")' = Receives(r, "data") /\ sized'[r] = sized[r] /\ stage'[r] = stage[r]
          /\ buf'[r] = buf[r] /\ req'[r] = req[r] /\ answer'[r] = answer[r]
      BY <1>2, <1>7, <1>12
    <3> QED BY <1>t, <1>a, <3>1, <3>2, <3>3, FillingKept
  <2> QED BY <2>1, <2>2, <2>3 DEF Desk
\* The receive of the size.
<1>13. CASE recvs[i].part = "size"
  <2>1. i \in Receives(q, "size") /\ Receives(q, "size") = {i}
    BY <1>a, <1>1, <1>13 DEF Receives, SizeOf
  <2>2. sized[q] = None /\ recvs[i].src = Source[q] /\ obj[q] = None
    BY <1>a, <1>4, <2>1 DEF SizeOf
  <2>3. sized' = [sized EXCEPT ![q] = m] /\ \E len \in Stored(m) : buflen' = [buflen EXCEPT ![q] = len]
    BY <1>1, <1>13 DEF Deliver
  <2>4. sized' \in [Req -> Messages \cup {None}] /\ sized'[q] = m
        /\ \A r \in Req \ {q} : sized'[r] = sized[r] /\ buflen'[r] = buflen[r]
    BY <1>a, <1>3, <2>3 DEF HandlesOk
  <2>5. SizeOf(q)'
    BY <1>a, <1>2, <1>6, <1>7, <2>1, <2>2, <2>4 DEF SizeOf
  <2>6. ASSUME upc # "astray"
        PROVE  Mail' /\ Waiting(q)' /\ Filling(q)'
    <3>1. Mail /\ Waiting(q) /\ Filling(q)
      BY <1>a, <2>6 DEF Desk
    <3>2. Receives(q, "data") = {}
      BY <2>2, <3>1 DEF Filling
    <3>3. Mail'
      <4>1. DOMAIN sized = Req
        BY <1>a
      <4>2. \A r \in Req : Receives(r, "data")' = Receives(r, "data")
        BY <1>7
      <4>3. \A r \in Req \ {q} : \A j \in Receives(r, "data") : recvs'[j] = recvs[j]
        BY <1>8
      <4>4. m \in Receivable(wire, Me, Source[q], TagOf[q])
        BY <1>2, <2>2
      <4>5. UNCHANGED <<out, count>> /\ wire' = wire \ {m}
        BY <1>2
      <4> QED BY <1>a, <2>2, <2>3, <3>1, <3>2, <4>1, <4>2, <4>3, <4>4, <4>5, SizeArrives
    <3>4. Waiting(q)'
      <4>1. ~Hopeless(q)
        BY <2>2 DEF Hopeless
      <4> QED BY <1>2, <1>6, <1>7, <1>9, <2>1, <3>1, <4>1 DEF Waiting
    <3>5. Filling(q)'
      <4>1. req[q] \in DOMAIN recvs' => recvs'[req[q]].q = q
        BY <1>5, <1>6, <3>1 DEF Filling
      <4> QED BY <1>2, <1>7, <3>1, <3>2, <4>1 DEF Filling
    <3> QED BY <3>3, <3>4, <3>5
  <2>7. \A r \in Req : SizeOf(r)'
    BY <1>12, <2>4, <2>5
  <2>8. upc' # "astray" => Mail' /\ Desk' /\ Blocking'
    BY <1>a, <1>2, <1>11, <1>12, <2>4, <2>6 DEF Desk
  <2> QED BY <1>10, <2>4, <2>7, <2>8, PairedParts
\* The receive of the data.
<1>14. CASE recvs[i].part = "data"
  <2>1. i \in Receives(q, "data") /\ i \notin Receives(q, "size")
    BY <1>1, <1>14 DEF Receives
  <2>2. UNCHANGED <<sized, buflen>>
    BY <1>14 DEF Deliver
  <2>3. \A j \in Receives(q, "size") : recvs'[j] = recvs[j]
    BY <1>5, <2>1 DEF Receives
  <2>4. SizeOf(q)'
    BY <1>a, <1>2, <1>7, <2>2, <2>3, SizeOfKept
  <2>5. ASSUME upc # "astray"
        PROVE  Mail' /\ Waiting(q)' /\ Filling(q)'
    <3>1. Mail /\ Waiting(q) /\ Filling(q)
      BY <1>a, <2>5 DEF Desk
    <3>2. Receives(q, "data") = {i} /\ sized[q] # None
      BY <2>1, <3>1 DEF Filling
    <3>3. Mail'
      <4>1. \A r \in Req : Receives(r, "data")' = Receives(r, "data")
        BY <1>7
      <4>2. \A r \in Req \ {q} : \A j \in Receives(r, "data") : recvs'[j] = recvs[j]
        BY <1>8
      <4>3. UNCHANGED <<out, count, sized, buflen>> /\ wire' = wire \ {m}
        BY <1>2, <2>2
      <4> QED BY <1>a, <1>2, <1>4, <1>6, <2>1, <3>1, <3>2, <4>1, <4>2, <4>3, DataArrives
    <3>4. Waiting(q)'
      BY <1>2, <1>7, <1>9, <2>2, <2>3, <3>1 DEF Waiting, Hopeless
    <3>5. Filling(q)'
      <4>1. req[q] \in DOMAIN recvs' => recvs'[req[q]].q = q
        BY <1>5, <1>6, <3>1 DEF Filling
      <4> QED BY <1>2, <1>3, <1>6, <1>7, <2>2, <3>1, <3>2, <4>1 DEF Filling
    <3> QED BY <3>3, <3>4, <3>5
  <2>6. \A r \in Req : SizeOf(r)'
    BY <1>12, <2>2, <2>4
  <2>7. upc' # "astray" => Mail' /\ Desk' /\ Blocking'
    BY <1>a, <1>2, <1>11, <1>12, <2>2, <2>5 DEF Desk
  <2> QED BY <1>a, <1>10, <2>2, <2>6, <2>7, PairedParts
<1> QED BY <1>4, <1>13, <1>14

-----------------------------------------------------------------------------
(* What the program and the background thread know of a request that is     *)
(* complete.                                                                *)

HasData(q) == \E i \in Receives(q, "data") : recvs[i].got # None

\* The handle of q is not needed any more.
Over(q) == /\ Slots(q) = {} \/ Hopeless(q)
           /\ stage[q] = "TX_DATA" => HasData(q)

LEMMA DataIn ==
  ASSUME IInv, Careful, NEW q \in Req, Filling(q), stage[q] = "TX_DATA", Complete(req[q])
  PROVE  HasData(q) /\ Over(q)
<1>1. PICK i \in Receives(q, "data") :
        ~recvs[i].cancelled /\ (req[q] = i \/ (req[q] = Null /\ recvs[i].got # None))
  BY DEF Filling
<1>2. i \in DOMAIN recvs /\ i # Null
  BY RecvsAt DEF IInv, Receives
<1>3. HasData(q)
  BY <1>1, <1>2 DEF Complete, Pending, HasData
<1>4. Slots(q) = {}
  <2>1. "restart" \notin Uses[q] /\ Watched(q)
    BY DEF Careful, IInv
  <2> QED BY <2>1 DEF Watched
<1> QED BY <1>3, <1>4 DEF Over

\* A request on rlist whose handle is complete has its size.
LEMMA SizeIn ==
  ASSUME IInv, NEW q \in Req, SizeOf(q), Waiting(q), Reader(q), Slots(q) # {}, Complete(req[q])
  PROVE  /\ sized[q] # None /\ sized[q] \in Messages /\ For(q, sized[q])
         /\ ~Truncated(req[q])
         /\ Hopeless(q) \/ (SourceOf(req[q]) = sized[q].of.src /\ peer[q] = Source[q])
<1>1. PICK i \in Receives(q, "size") :
        ~recvs[i].cancelled /\ (req[q] = i \/ (req[q] = Null /\ Hopeless(q)))
  BY DEF Waiting
<1>2. i \in DOMAIN recvs /\ i # Null
  BY RecvsAt DEF IInv, Receives
<1>3. recvs[i].got = sized[q] /\ recvs[i].room = IntBytes
  BY <1>1 DEF SizeOf
<1>4. peer[q] = Source[q] \/ Hopeless(q)
  BY DEF Waiting
<1>5. CASE req[q] = Null
  <2>1. sized[q] # None /\ Hopeless(q)
    BY <1>1, <1>2, <1>5 DEF Hopeless
  <2> QED BY <1>5, <2>1 DEF Truncated, Reader, Reads
<1>6. CASE req[q] = i
  <2>1. sized[q] # None
    BY <1>1, <1>2, <1>3, <1>6 DEF Complete, Pending
  <2>2. sized[q].kind = "size" /\ sized[q] \in Messages /\ For(q, sized[q])
    BY <2>1 DEF Reader, Reads
  <2>3. ~Truncated(req[q])
    BY <1>3, <1>6, <2>2, Constants DEF Truncated, Bytes
  <2> QED BY <1>1, <1>2, <1>3, <1>4, <1>6, <2>1, <2>2, <2>3 DEF SourceOf
<1> QED BY <1>1, <1>5, <1>6

\* A request that a wait finds in its size stage is on rlist.
LEMMA StillWatched ==
  ASSUME IInv, Careful, Blocking, upc \in {"size", "post"}, NEW q \in InSize
  PROVE  q \in Req /\ Slots(q) # {} /\ Source[q] # AnySource /\ "cancel" \notin Uses[q]
<1>1. q \in Req /\ q \in group /\ stage[q] = "TX_SIZE"
  BY Typed DEF InSize
<1>2. Started(q) /\ call \in {"wait", "waitall"} /\ call \in Uses[q]
  BY <1>1 DEF IInv, Turns, Blocking
<1>3. /\ "restart" \notin Uses[q] /\ "cancel" \notin Uses[q] /\ Source[q] # AnySource
  <2>1. {"wait", "waitall"} \cap Uses[q] # {}
    BY <1>2
  <2> QED BY <1>1, <2>1 DEF Careful
<1>4. Watched(q)
  BY <1>1 DEF IInv
<1> QED BY <1>1, <1>2, <1>3, <1>4 DEF Watched

-----------------------------------------------------------------------------
(* Steps that post no receive.                                              *)

LEMMA QuietPaired ==
  ASSUME IInv, TypeOK', Paired,
         UNCHANGED <<wire, out, count, recvs, stage, buflen, sized, rlist>>,
         \A q \in Req : \/ obj'[q] = obj[q]
                        \/ sized[q] # None /\ obj'[q] = sized[q].of.obj,
         upc' # "astray" =>
           /\ upc # "astray" /\ Blocking'
           /\ \A q \in Req :
                /\ buf'[q] \in {buf[q], None}
                /\ peer'[q] = peer[q] \/ (Started(q) /\ (Slots(q) = {} \/ Hopeless(q)))
                /\ req'[q] = req[q] \/ (req'[q] = Null /\ Over(q))
                /\ answer'[q] = "done" => answer[q] = "done" \/ HasData(q)
  PROVE  Paired'
<1>a. /\ TypeOK /\ Streams /\ sized \in [Req -> Messages \cup {None}]
      /\ \A r \in Req : SizeOf(r)
      /\ upc # "astray" => Mail /\ Desk
  BY PairedParts DEF IInv
<1>1. \A r, part : Receives(r, part)' = Receives(r, part)
  BY DEF Receives
<1>2. Streams'
  BY <1>a, StreamsSame
<1>3. ASSUME NEW q \in Req
      PROVE  SizeOf(q)'
  BY <1>a, <1>1, SizeOfKept
<1>4. ASSUME upc' # "astray"
      PROVE  Mail'
  <2>1. Coming' = Coming
    BY DEF Coming
  <2>2. \A i \in DOMAIN recvs : recvs'[i].got = recvs[i].got /\ recvs'[i].src = recvs[i].src
    OBVIOUS
  <2>3. Mail
    BY <1>a, <1>4
  <2> QED BY <1>1, <2>1, <2>2, <2>3, MailKept
<1>5. ASSUME upc' # "astray", NEW q \in Req
      PROVE  Waiting(q)' /\ Filling(q)'
  <2>1. Waiting(q) /\ Filling(q)
    BY <1>a, <1>5 DEF Desk
  <2>2. Slots(q)' = Slots(q) /\ (Started(q)' <=> Started(q)) /\ (Hopeless(q)' <=> Hopeless(q))
    BY DEF Slots, Started, Hopeless
  <2>3. Waiting(q)'
    <3>1. peer'[q] = peer[q] \/ (Started(q) /\ (Slots(q)' = {} \/ Hopeless(q)))
      BY <1>5, <2>2
    <3>2. req'[q] = req[q] \/ (req'[q] = Null /\ (Slots(q)' = {} \/ Hopeless(q)))
      BY <1>5, <2>2 DEF Over
    <3> QED BY <1>1, <2>1, <2>2, <3>1, <3>2, WaitingKept
  <2>4. Filling(q)'
    <3>1. /\ buf'[q] \in {buf[q], None} /\ stage'[q] = stage[q] /\ sized'[q] = sized[q]
          /\ req'[q] = req[q] \/ (req'[q] = Null /\ (stage[q] = "TX_DATA" => HasData(q)))
          /\ answer'[q] = "done" => answer[q] = "done" \/ HasData(q)
      BY <1>5 DEF Over
    <3> QED BY <1>a, <1>1, <2>1, <3>1, FillingKept DEF HasData
  <2> QED BY <2>3, <2>4
<1>6. upc' # "astray" => Desk'
  BY <1>5 DEF Desk
<1> QED BY <1>a, <1>2, <1>3, <1>4, <1>6, PairedParts

\* In particular those that change no field but the handle.
LEMMA ToldPaired ==
  ASSUME IInv, IInv', Paired, UNCHANGED <<mpi, stage, peer, buflen, sized, buf, obj, rlist>>,
         upc' # "astray" =>
           /\ upc # "astray" /\ Blocking'
           /\ \A q \in Req :
                /\ req'[q] = req[q] \/ (req'[q] = Null /\ Over(q))
                /\ answer'[q] = "done" => answer[q] = "done" \/ HasData(q)
  PROVE  Paired'
BY QuietPaired DEF IInv, mpi

\* A method that is not one of those that block for both stages, or that ends.
LEMMA NotBlocking ==
  ASSUME upc' \notin {"size", "post", "data"}
  PROVE  Blocking'
BY DEF Blocking

\* An exception that leaves freed handles behind: no more is said of pairs.
LEMMA StrayedPaired ==
  ASSUME IInv, IInv', Paired, UNCHANGED <<mpi, stage, peer, buflen, sized, buf, obj, rlist>>,
         NEW S, RaiseStale(S)
  PROVE  Paired'
BY ToldPaired DEF RaiseStale, GoAstray

LEMMA LookPaired ==
  ASSUME IInv, Careful, Paired, BeginPass \/ SkipSlot \/ WildSlot
  PROVE  Paired'
<1>1. UNCHANGED <<mpi, mr, rlist, call, group, answer>>
  BY DEF BeginPass, SkipSlot, WildSlot, user
<1>2. upc = "idle" /\ upc' \in {"idle", "crashed"}
  BY ThreadTurn DEF BeginPass, SkipSlot, WildSlot, user
<1>3. UNCHANGED <<mpi, req, stage, peer, buflen, sized, buf, obj, rlist, answer>>
  BY <1>1 DEF mr
<1> QED BY <1>2, <1>3, LookInv, NotBlocking, ToldPaired

LEMMA RecvInitPaired ==
  ASSUME IInv, Careful, Paired, NEW q \in Req, RecvInit(q)
  PROVE  Paired'
<1>1. upc = "idle" /\ upc' = "idle" /\ UNCHANGED <<mpi, stage, peer, buflen, sized, buf, obj, rlist, answer>>
      /\ req[q] = None /\ req' = [req EXCEPT ![q] = Null]
  BY DEF RecvInit, Calling, user
<1>2. Over(q)
  BY <1>1 DEF IInv, Known, Over
<1>3. \A p \in Req : req'[p] = req[p] \/ (req'[p] = Null /\ Over(p))
  BY <1>1, <1>2, Typed
<1> QED BY <1>1, <1>3, RecvInitInv, NotBlocking, ToldPaired

LEMMA WaitCallPaired ==
  ASSUME IInv, Careful, Paired, NEW S \in SUBSET Req, S # {},
         NEW m \in {"wait", "waitall", "waitany", "waitsome"}, WaitCall(m, S)
  PROVE  Paired'
<1>1. upc = "idle" /\ upc' = (IF m \in {"wait", "waitall"} THEN "size" ELSE "any")
      /\ call' = m /\ group' = S /\ \A q \in S : m \in Uses[q]
  BY DEF WaitCall, Calling
<1>2. UNCHANGED <<mpi, req, stage, peer, buflen, sized, buf, obj, rlist, answer>>
  BY DEF WaitCall, mr
<1>3. Blocking'
  BY <1>1 DEF Blocking
<1> QED BY <1>1, <1>2, <1>3, WaitCallInv, ToldPaired

LEMMA SizesCompletePaired ==
  ASSUME IInv, Careful, Paired, SizesComplete
  PROVE  Paired'
<1>1. upc = "size" /\ UNCHANGED <<mpi, stage, peer, buflen, sized, buf, obj, rlist>>
      /\ \A q \in InSize : Complete(req[q])
  BY DEF SizesComplete
<1>2. Mail /\ Desk /\ Blocking /\ \A q \in Req : SizeOf(q)
  BY <1>1, PairedParts
<1>3. \A q \in InSize : ~Truncated(req[q])
  <2> TAKE q \in InSize
  <2>1. q \in Req /\ Slots(q) # {}
    BY <1>1, <1>2, StillWatched
  <2> QED BY <1>1, <1>2, <2>1, SizeIn DEF Desk, Mail
<1>4. upc' = "post" /\ UNCHANGED <<req, call, group, answer>>
  BY <1>3 DEF SizesComplete
<1>5. Blocking'
  BY <1>1, <1>2, <1>4 DEF Blocking
<1>6. IInv'
  BY SizesCompleteInv
<1>7. upc # "astray" /\ UNCHANGED <<req, answer>>
      /\ UNCHANGED <<mpi, stage, peer, buflen, sized, buf, obj, rlist>>
  BY <1>1, <1>4
<1> QED BY <1>5, <1>6, <1>7, ToldPaired

LEMMA SizesPostedPaired ==
  ASSUME IInv, Careful, Paired, SizesPosted
  PROVE  Paired'
<1>1. upc = "post" /\ upc' = "data" /\ InSize = {} /\ UNCHANGED <<call, group, answer>>
      /\ UNCHANGED <<mpi, req, stage, peer, buflen, sized, buf, obj, rlist>>
  BY DEF SizesPosted, mr
<1>2. Blocking
  BY <1>1, PairedParts
<1>3. Blocking'
  BY <1>1, <1>2 DEF Blocking, InSize
<1> QED BY <1>1, <1>3, SizesPostedInv, ToldPaired

\* The requests of a blocking call that has come to its end have their data.
LEMMA GroupHasData ==
  ASSUME IInv, Careful, Paired, upc = "data", NEW q \in group, Complete(req[q])
  PROVE  q \in Req /\ HasData(q) /\ Over(q) /\ Filling(q) /\ SizeOf(q) /\ Started(q) /\ Reader(q)
<1>1. q \in Req /\ stage[q] \in {"TX_SIZE", "TX_DATA"}
  BY Typed DEF HandlesOk
<1>2. Mail /\ Desk /\ Blocking /\ SizeOf(q)
  BY <1>1, PairedParts
<1>3. stage[q] = "TX_DATA"
  BY <1>1, <1>2 DEF Blocking, InSize
<1>4. Filling(q) /\ Started(q) /\ Reader(q)
  BY <1>1, <1>2 DEF Desk, Mail, IInv, Turns
<1> QED BY <1>1, <1>2, <1>3, <1>4, DataIn

\* What a buffer holds is of the letter whose size came.
LEMMA OwnContents ==
  ASSUME IInv, NEW q \in Req, Filling(q), Reader(q), HasData(q), Contents(q) # Raised
  PROVE  sized[q] # None /\ Contents(q) = sized[q].of.obj
<1>1. PICK i \in Receives(q, "data") : recvs[i].got # None /\ buf[q] = i
  <2>1. buf[q] # None /\ buf[q] \in Receives(q, "data")
    BY DEF Contents, Filling
  <2> QED BY <2>1 DEF HasData, Filling
<1>2. sized[q] # None /\ Halves(recvs[i].got, sized[q])
  BY <1>1 DEF Filling, Reader, Reads
<1>3. Contents(q) = Load(recvs[i].got)
  <2>1. buf[q] # None
    BY DEF Contents
  <2> QED BY <1>1, <2>1 DEF Contents
<1> QED BY <1>2, <1>3 DEF Load, Halves

LEMMA WaitReturnsPaired ==
  ASSUME IInv, Careful, Paired, NEW q \in Req, WaitReturns(q)
  PROVE  Paired'
<1>1. upc = "data" /\ q \in group /\ group = {q} /\ Complete(req[q])
      /\ UNCHANGED <<wire, out, count, recvs, stage, buflen, sized, rlist>>
      /\ req' = [req EXCEPT ![q] = Null]
  BY DEF WaitReturns, DataArrived, mpi
<1>2. HasData(q) /\ Over(q) /\ Filling(q) /\ SizeOf(q) /\ Started(q) /\ Reader(q)
  BY <1>1, GroupHasData
<1>3. upc' = "idle" /\ \A p \in Req : answer'[p] = answer[p] \/ p = q
  BY <1>1, Typed DEF WaitReturns, Return, Inform, Leave, UserOk
<1>4. \A p \in Req : req'[p] = req[p] \/ (req'[p] = Null /\ Over(p))
  BY <1>1, <1>2, Typed
<1>5. \A p \in Req : peer'[p] = peer[p] \/ (Started(p) /\ (Slots(p) = {} \/ Hopeless(p)))
  BY <1>2, Typed DEF WaitReturns, HandlesOk, Over
<1>6. \A p \in Req : \/ obj'[p] = obj[p]
                     \/ sized[p] # None /\ obj'[p] = sized[p].of.obj
  <2>1. CASE UNCHANGED obj
    BY <2>1
  <2>2. CASE Contents(q) # Raised /\ obj' = [obj EXCEPT ![q] = Contents(q)]
    <3>1. sized[q] # None /\ Contents(q) = sized[q].of.obj
      BY <1>2, <2>2, OwnContents
    <3> QED BY <2>2, <3>1, Typed DEF HandlesOk
  <2> QED BY <2>1, <2>2 DEF WaitReturns
<1>7. \A p \in Req : buf'[p] \in {buf[p], None}
  BY Typed DEF WaitReturns, HandlesOk
<1>8. \A p \in Req : answer'[p] = "done" => answer[p] = "done" \/ HasData(p)
  BY <1>2, <1>3
<1>9. TypeOK' /\ Blocking'
  BY <1>3, WaitReturnsInv, NotBlocking DEF IInv
<1> QED BY <1>1, <1>4, <1>5, <1>6, <1>7, <1>8, <1>9, QuietPaired

LEMMA WaitallReturnsPaired ==
  ASSUME IInv, Careful, Paired, WaitallReturns
  PROVE  Paired'
<1>1. upc = "data" /\ \A q \in group : Complete(req[q])
  BY DEF WaitallReturns, DataArrived
<1>2. \A q \in group : HasData(q) /\ Over(q)
  BY <1>1, GroupHasData
<1>3. UNCHANGED <<mpi, stage, peer, buflen, sized, buf, obj, rlist>>
  BY DEF WaitallReturns
<1>4. CASE RaiseStale(group)
  BY <1>3, <1>4, WaitallReturnsInv, StrayedPaired
<1>5. CASE Return("done") /\ Clear(group)
  <2>1. \A p \in Req : /\ req'[p] = req[p] \/ (req'[p] = Null /\ Over(p))
                       /\ answer'[p] = "done" => answer[p] = "done" \/ HasData(p)
    BY <1>2, <1>5 DEF Return, Inform, Clear
  <2> QED BY <1>1, <1>3, <1>5, <2>1, WaitallReturnsInv, NotBlocking, ToldPaired DEF Return, Leave
<1> QED BY <1>4, <1>5 DEF WaitallReturns

LEMMA TestCallPaired ==
  ASSUME IInv, Careful, Paired, NEW q \in Req, TestCall(q)
  PROVE  Paired'
<1>1. upc = "idle" /\ upc' = "idle" /\ UNCHANGED <<mpi, stage, peer, buflen, sized, buf, obj, rlist>>
  BY DEF TestCall, Calling
<1>2. Filling(q)
  BY <1>1, PairedParts DEF Desk
<1>3. \/ UNCHANGED req /\ answer' = [answer EXCEPT ![q] = "no"]
      \/ /\ stage[q] = "TX_DATA" /\ Complete(req[q]) /\ req' = [req EXCEPT ![q] = Null]
         /\ \E says \in {"raised", "done"} : answer' = [answer EXCEPT ![q] = says]
  BY Typed DEF TestCall, HandlesOk
<1>4. /\ \A p \in Req : req'[p] = req[p] \/ (req'[p] = Null /\ Over(p))
      /\ \A p \in Req : answer'[p] = "done" => answer[p] = "done" \/ HasData(p)
  BY <1>2, <1>3, Typed, DataIn DEF UserOk
<1> QED BY <1>1, <1>4, TestCallInv, NotBlocking, ToldPaired

\* The methods that take an array.
LEMMA OneOfTells ==
  ASSUME IInv, Careful, Paired, upc # "astray", NEW S \in SUBSET Req, OneOf(S)
  PROVE  upc' # "astray" =>
           /\ upc' = "idle"
           /\ \A p \in Req : /\ req'[p] = req[p] \/ (req'[p] = Null /\ Over(p))
                             /\ answer'[p] = "done" => answer[p] = "done" \/ HasData(p)
<1> SUFFICES ASSUME upc' # "astray"
             PROVE  /\ upc' = "idle"
                    /\ \A p \in Req : /\ req'[p] = req[p] \/ (req'[p] = Null /\ Over(p))
                                      /\ answer'[p] = "done" => answer[p] = "done" \/ HasData(p)
  OBVIOUS
<1>1. PICK q \in Active(S \ {r \in S : stage[r] = "TX_SIZE"}) :
        Complete(req[q]) /\ Inform({q}, "done") /\ Clear({q}) /\ Leave
  BY DEF OneOf, ClearAny, RaiseStale, GoAstray
<1>2. q \in Req /\ stage[q] = "TX_DATA" /\ Filling(q)
  <2>1. q \in S /\ stage[q] # "TX_SIZE"
    BY DEF Active
  <2>2. q \in Req /\ stage[q] \in {"TX_SIZE", "TX_DATA"}
    BY <2>1, Typed DEF HandlesOk
  <2> QED BY <2>1, <2>2, PairedParts DEF Desk
<1>3. HasData(q) /\ Over(q)
  BY <1>1, <1>2, DataIn
<1> QED BY <1>1, <1>3 DEF Inform, Clear, Leave

LEMMA SomeOfTells ==
  ASSUME IInv, Careful, Paired, upc # "astray", NEW S \in SUBSET Req, SomeOf(S)
  PROVE  upc' # "astray" =>
           /\ upc' = "idle"
           /\ \A p \in Req : /\ req'[p] = req[p] \/ (req'[p] = Null /\ Over(p))
                             /\ answer'[p] = "done" => answer[p] = "done" \/ HasData(p)
<1> SUFFICES ASSUME upc' # "astray"
             PROVE  /\ upc' = "idle"
                    /\ \A p \in Req : /\ req'[p] = req[p] \/ (req'[p] = Null /\ Over(p))
                                      /\ answer'[p] = "done" => answer[p] = "done" \/ HasData(p)
  OBVIOUS
<1>1. PICK done \in SUBSET Req :
        /\ \A q \in done : Complete(req[q])
        /\ Inform(done, "done") /\ Clear(done) /\ Leave
        /\ \A q \in done : stage[q] = "TX_DATA"
  <2>1. \A done \in (SUBSET Active(S)) \ {{}} : done \in SUBSET Req
    BY DEF Active
  <2> QED BY <2>1 DEF SomeOf, RaiseStale, GoAstray
<1>2. \A q \in done : stage[q] = "TX_DATA" => HasData(q) /\ Over(q)
  <2> TAKE q \in done
  <2>1. Filling(q)
    BY PairedParts DEF Desk
  <2> QED BY <1>1, <2>1, DataIn
<1> QED BY <1>1, <1>2 DEF Inform, Clear, Leave

LEMMA WaitanyReturnsPaired ==
  ASSUME IInv, Careful, Paired, WaitanyReturns
  PROVE  Paired'
<1>1. upc = "any" /\ group \in SUBSET Req
      /\ UNCHANGED <<mpi, stage, peer, buflen, sized, buf, obj, rlist>>
  BY Typed DEF WaitanyReturns
<1>2. upc' # "astray" =>
        /\ upc' = "idle"
        /\ \A p \in Req : /\ req'[p] = req[p] \/ (req'[p] = Null /\ Over(p))
                          /\ answer'[p] = "done" => answer[p] = "done" \/ HasData(p)
  <2>1. CASE OneOf(group)
    BY <1>1, <2>1, OneOfTells
  <2> QED BY <2>1 DEF WaitanyReturns, Leave
<1> QED BY <1>1, <1>2, WaitanyReturnsInv, NotBlocking, ToldPaired

LEMMA WaitsomeReturnsPaired ==
  ASSUME IInv, Careful, Paired, WaitsomeReturns
  PROVE  Paired'
<1>1. upc = "any" /\ group \in SUBSET Req
      /\ UNCHANGED <<mpi, stage, peer, buflen, sized, buf, obj, rlist>>
  BY Typed DEF WaitsomeReturns
<1>2. upc' # "astray" =>
        /\ upc' = "idle"
        /\ \A p \in Req : /\ req'[p] = req[p] \/ (req'[p] = Null /\ Over(p))
                          /\ answer'[p] = "done" => answer[p] = "done" \/ HasData(p)
  <2>1. CASE SomeOf(group)
    BY <1>1, <2>1, SomeOfTells
  <2> QED BY <2>1 DEF WaitsomeReturns, Leave
<1> QED BY <1>1, <1>2, WaitsomeReturnsInv, NotBlocking, ToldPaired

LEMMA TestArrayPaired ==
  ASSUME IInv, Careful, Paired, NEW S \in SUBSET Req, S # {},
         TestanyCall(S) \/ TestsomeCall(S) \/ TestallCall(S)
  PROVE  Paired'
<1>1. upc = "idle" /\ UNCHANGED <<mpi, stage, peer, buflen, sized, buf, obj, rlist>>
  BY DEF TestanyCall, TestsomeCall, TestallCall, TestArray, Calling
<1>2. upc' # "astray" =>
        /\ upc' = "idle"
        /\ \A p \in Req : /\ req'[p] = req[p] \/ (req'[p] = Null /\ Over(p))
                          /\ answer'[p] = "done" => answer[p] = "done" \/ HasData(p)
  <2>1. CASE TestanyCall(S)
    BY <1>1, <2>1, OneOfTells DEF TestanyCall
  <2>2. CASE TestsomeCall(S)
    <3>1. CASE SomeOf(S)
      BY <1>1, <3>1, SomeOfTells
    <3> QED BY <1>1, <2>2, <3>1 DEF TestsomeCall, Inform
  <2>3. CASE TestallCall(S)
    <3>1. \A q \in S : HasData(q) /\ Over(q)
      <4> TAKE q \in S
      <4>1. Filling(q) /\ stage[q] = "TX_DATA" /\ Complete(req[q])
        BY <1>1, <2>3, PairedParts DEF Desk, TestallCall
      <4> QED BY <4>1, DataIn
    <3> QED BY <1>1, <2>3, <3>1 DEF TestallCall, RaiseStale, GoAstray, Inform, Clear, Leave
  <2> QED BY <2>1, <2>2, <2>3
<1>3. IInv'
  BY TestArrayInv
<1> QED BY <1>1, <1>2, <1>3, NotBlocking, ToldPaired

-----------------------------------------------------------------------------
(* Steps that post a receive, and cancel.                                   *)

\* A receive posted for q leaves those of the others alone.
LEMMA Posting ==
  ASSUME TypeOK, NEW r \in Receive, recvs' = Append(recvs, r)
  PROVE  /\ \A i \in DOMAIN recvs : i \in DOMAIN recvs' /\ recvs'[i] = recvs[i]
         /\ recvs'[Len(recvs) + 1] = r /\ Len(recvs) + 1 \notin DOMAIN recvs
         /\ \A q, part : Receives(q, part)' = Receives(q, part) \cup
                           (IF r.q = q /\ r.part = part THEN {Len(recvs) + 1} ELSE {})
         /\ \A q \in Req : Started(q)' <=> Started(q) \/ q = r.q
<1> DEFINE new == Len(recvs) + 1
<1>1. /\ DOMAIN recvs' = DOMAIN recvs \cup {new} /\ recvs'[new] = r /\ new \notin DOMAIN recvs
      /\ \A i \in DOMAIN recvs : recvs'[i] = recvs[i]
  BY Appended, RecvsAt
<1>2. \A q \in Req : Started(q)' <=> Started(q) \/ q = r.q
  BY AppendedSame
<1> HIDE DEF new
<1>3. ASSUME NEW q, NEW part
      PROVE  Receives(q, part)' = Receives(q, part) \cup
                           (IF r.q = q /\ r.part = part THEN {new} ELSE {})
  <2>1. Receives(q, part)' = {j \in DOMAIN recvs' : recvs'[j].q = q /\ recvs'[j].part = part}
    BY DEF Receives
  <2>2. \A j : j \in Receives(q, part)' <=>
                 j \in Receives(q, part) \/ (j = new /\ r.q = q /\ r.part = part)
    BY <1>1, <2>1 DEF Receives
  <2> QED BY <2>2
<1> QED BY <1>1, <1>2, <1>3 DEF new

LEMMA PostedPaired ==
  ASSUME IInv, IInv', Paired, upc # "astray", Blocking',
         NEW q \in Req, NEW r \in Receive, r.q = q, r.got = None, recvs' = Append(recvs, r),
         UNCHANGED <<wire, out, count, buflen, sized, obj>>,
         \A p \in Req \ {q} : /\ Slots(p)' = Slots(p) /\ stage'[p] = stage[p] /\ peer'[p] = peer[p]
                              /\ req'[p] = req[p] /\ buf'[p] = buf[p] /\ answer'[p] = answer[p],
         SizeOf(q)', Waiting(q)', Filling(q)',
         r.part = "data" => r.src = sized[q].of.src /\ Count(buflen[q]) >= 0
  PROVE  Paired'
<1>a. /\ TypeOK /\ TypeOK' /\ Streams /\ sized \in [Req -> Messages \cup {None}]
      /\ \A p \in Req : SizeOf(p)
      /\ Mail /\ Desk
  BY PairedParts DEF IInv
<1> DEFINE new == Len(recvs) + 1
<1>1. /\ \A i \in DOMAIN recvs : i \in DOMAIN recvs' /\ recvs'[i] = recvs[i]
      /\ recvs'[new] = r
      /\ \A p, part : Receives(p, part)' = Receives(p, part) \cup
                        (IF q = p /\ r.part = part THEN {new} ELSE {})
      /\ \A p \in Req : Started(p)' <=> Started(p) \/ p = q
  BY <1>a, Posting
<1> HIDE DEF new
<1>2. Streams'
  BY <1>a, StreamsSame
<1>3. Mail'
  <2>1. Coming' = Coming
    BY DEF Coming
  <2>2. \A i \in DOMAIN recvs : recvs'[i].got = recvs[i].got /\ recvs'[i].src = recvs[i].src
    BY <1>1
  <2>3. ASSUME NEW p \in Req
        PROVE  /\ Receives(p, "data") \subseteq Receives(p, "data")'
               /\ \A i \in Receives(p, "data")' \ Receives(p, "data") :
                    recvs'[i].got = None /\ recvs'[i].src = sized[p].of.src /\ Count(buflen[p]) >= 0
    BY <1>1
  <2> QED BY <1>a, <2>1, <2>2, <2>3, MailKept
<1>4. ASSUME NEW p \in Req \ {q}
      PROVE  SizeOf(p)' /\ Waiting(p)' /\ Filling(p)'
  <2>1. \A part : Receives(p, part)' = Receives(p, part)
    BY <1>1
  <2>2. \A part : \A i \in Receives(p, part) : recvs'[i] = recvs[i]
    BY <1>1 DEF Receives
  <2>3. Waiting(p) /\ Filling(p) /\ SizeOf(p)
    BY <1>a DEF Desk
  <2>4. SizeOf(p)'
    BY <2>1, <2>2, <2>3, SizeOfKept
  <2>5. Waiting(p)'
    <3>1. Hopeless(p) => Hopeless(p)'
      BY DEF Hopeless
    <3>2. Started(p)' <=> Started(p)
      BY <1>1
    <3>3. /\ peer'[p] = peer[p] \/ (Started(p) /\ (Slots(p)' = {} \/ Hopeless(p)))
          /\ req'[p] = req[p] \/ (req'[p] = Null /\ (Slots(p)' = {} \/ Hopeless(p)))
          /\ Slots(p)' \subseteq Slots(p)
      OBVIOUS
    <3>4. \A i \in Receives(p, "size") : recvs'[i].cancelled = recvs[i].cancelled
      BY <2>2
    <3>5. Receives(p, "size")' = Receives(p, "size") /\ Receives(p, "data")' = Receives(p, "data")
      BY <2>1
    <3> QED BY <2>3, <3>1, <3>2, <3>3, <3>4, <3>5, WaitingKept
  <2>6. Filling(p)'
    <3>1. \A i \in DOMAIN recvs : i \in DOMAIN recvs' /\ recvs'[i].q = recvs[i].q
      BY <1>1
    <3>2. \A i \in Receives(p, "data") : /\ recvs'[i].cancelled = recvs[i].cancelled
                                         /\ recvs[i].got # None => recvs'[i].got # None
      BY <2>2
    <3>3. sized'[p] = sized[p]
      OBVIOUS
    <3> QED BY <1>a, <2>1, <2>3, <3>1, <3>2, <3>3, FillingKept
  <2> QED BY <2>4, <2>5, <2>6
<1>5. Desk' /\ \A p \in Req : SizeOf(p)'
  BY <1>4 DEF Desk
<1> QED BY <1>a, <1>2, <1>3, <1>5, PairedParts

\* request_start and irecv.
LEMMA PostPaired ==
  ASSUME IInv, IInv', Careful, Paired, NEW q \in Req, upc = "idle", ~Started(q), Post(q)
  PROVE  Paired'
<1> DEFINE r == [q |-> q, part |-> "size", src |-> peer[q], room |-> IntBytes,
                 got |-> None, cancelled |-> FALSE]
           new == Len(recvs) + 1
<1>a. TypeOK /\ HandlesOk /\ ThreadsOk /\ SizeOf(q) /\ Waiting(q) /\ Filling(q) /\ Known(q)
  BY Typed, PairedParts DEF Desk, IInv
<1>1. r \in Receive
  BY <1>a, Constants DEF HandlesOk, Receive
<1>2. /\ r.q = q /\ r.part = "size" /\ r.src = peer[q] /\ r.room = IntBytes /\ r.got = None
      /\ ~r.cancelled
  OBVIOUS
<1>3. recvs' = Append(recvs, r) /\ req' = [req EXCEPT ![q] = new]
      /\ answer' = [answer EXCEPT ![q] = "no"] /\ Watch(q)
      /\ UNCHANGED <<wire, out, count, stage, peer, buflen, sized, buf, obj, upc, call, group>>
  BY DEF Post, Irecv
<1> HIDE DEF r
<1>4. /\ Receives(q, "size")' = Receives(q, "size") \cup {new}
      /\ Receives(q, "data")' = Receives(q, "data")
      /\ recvs'[new] = r /\ Started(q)'
  <2>1. \A part : Receives(q, part)' = Receives(q, part) \cup
                    (IF r.q = q /\ r.part = part THEN {new} ELSE {})
    BY <1>a, <1>1, <1>3, Posting DEF new
  <2>2. recvs'[new] = r /\ Started(q)'
    BY <1>a, <1>1, <1>2, <1>3, Posting DEF new
  <2> HIDE DEF new
  <2>3. Receives(q, "size")' = Receives(q, "size") \cup (IF r.q = q /\ r.part = "size" THEN {new} ELSE {})
    BY <2>1
  <2>4. Receives(q, "data")' = Receives(q, "data") \cup (IF r.q = q /\ r.part = "data" THEN {new} ELSE {})
    BY <2>1
  <2> QED BY <1>2, <2>2, <2>3, <2>4
<1>5. Receives(q, "size") = {} /\ Receives(q, "data") = {}
  BY DEF Started, Receives
<1>6. peer[q] = Source[q] /\ sized[q] = None /\ obj[q] = None /\ stage[q] = "TX_SIZE" /\ buf[q] = None
  BY <1>a, <1>5 DEF Waiting, SizeOf, Known, Filling
<1>7. /\ req'[q] = new /\ answer'[q] = "no"
      /\ \A p \in Req \ {q} : req'[p] = req[p] /\ answer'[p] = answer[p]
  BY <1>3, <1>a DEF HandlesOk, ThreadsOk
<1> HIDE DEF new
<1>8. SizeOf(q)'
  <2>1. Receives(q, "size")' = {new} /\ sized'[q] = None /\ obj'[q] = None
    BY <1>3, <1>4, <1>5, <1>6
  <2> QED BY <1>2, <1>4, <1>6, <2>1 DEF SizeOf
<1>9. Waiting(q)'
  <2>1. Receives(q, "size")' = {new} /\ Receives(q, "data")' = {} /\ peer'[q] = Source[q]
    BY <1>3, <1>4, <1>5, <1>6
  <2> QED BY <1>2, <1>4, <1>7, <2>1 DEF Waiting
<1>10. Filling(q)'
  <2>1. Receives(q, "data")' = {} /\ stage'[q] # "TX_DATA" /\ buf'[q] = None /\ recvs'[req'[q]].q = q
    BY <1>2, <1>3, <1>4, <1>5, <1>6, <1>7
  <2> QED BY <1>7, <2>1 DEF Filling
<1>11. \A p \in Req \ {q} : /\ Slots(p)' = Slots(p) /\ stage'[p] = stage[p] /\ peer'[p] = peer[p]
                            /\ req'[p] = req[p] /\ buf'[p] = buf[p] /\ answer'[p] = answer[p]
  BY <1>a, <1>3, <1>7, NowWatched
<1>12. Blocking'
  BY <1>3, NotBlocking
<1> QED BY <1>1, <1>2, <1>3, <1>8, <1>9, <1>10, <1>11, <1>12, PostedPaired

\* Whoever posts the receive of the data, posts it for the sender of the size.
LEMMA DataPosted ==
  ASSUME IInv, IInv', Careful, Paired, NEW q \in Req, upc # "astray", Blocking',
         Receives(q, "data") = {}, sized[q] # None, Count(buflen[q]) >= 0, Started(q),
         Irecv(q, "data", sized[q].of.src, Count(buflen[q])),
         buf' = [buf EXCEPT ![q] = Len(recvs) + 1],
         stage' = [stage EXCEPT ![q] = "TX_DATA"],
         \A p \in Req \ {q} : Slots(p)' = Slots(p) /\ peer'[p] = peer[p],
         Slots(q)' = {}, UNCHANGED <<wire, out, count, buflen, sized, obj, answer>>
  PROVE  Paired'
<1> DEFINE r == [q |-> q, part |-> "data", src |-> sized[q].of.src, room |-> Count(buflen[q]),
                 got |-> None, cancelled |-> FALSE]
           new == Len(recvs) + 1
<1>a. TypeOK /\ HandlesOk /\ SizeOf(q) /\ Filling(q) /\ Reader(q)
  BY Typed, PairedParts DEF Desk, Mail
<1>1. r \in Receive
  <2>1. sized[q].of.src \in Senders
    BY <1>a, MessageNumbers DEF Reader, Reads
  <2>2. Count(buflen[q]) \in Nat
    <3>1. buflen[q] \in Lengths \cup {0}
      BY <1>a DEF HandlesOk
    <3>2. Count(buflen[q]) \in Int
      BY <3>1, Constants
    <3> QED BY <3>2
  <2> QED BY <2>1, <2>2 DEF Receive
<1>2. r.q = q /\ r.part = "data" /\ r.src = sized[q].of.src /\ r.got = None /\ ~r.cancelled
  OBVIOUS
<1>3. recvs' = Append(recvs, r) /\ req' = [req EXCEPT ![q] = new]
  BY DEF Irecv
<1> HIDE DEF r
<1>4. /\ \A i \in DOMAIN recvs : recvs'[i] = recvs[i]
      /\ Receives(q, "size")' = Receives(q, "size")
      /\ Receives(q, "data")' = Receives(q, "data") \cup {new}
      /\ recvs'[new] = r /\ Started(q)'
  <2>1. \A part : Receives(q, part)' = Receives(q, part) \cup
                    (IF r.q = q /\ r.part = part THEN {new} ELSE {})
    BY <1>a, <1>1, <1>3, Posting DEF new
  <2>2. recvs'[new] = r /\ Started(q)' /\ \A i \in DOMAIN recvs : recvs'[i] = recvs[i]
    BY <1>a, <1>1, <1>2, <1>3, Posting DEF new
  <2> HIDE DEF new
  <2>3. Receives(q, "size")' = Receives(q, "size") \cup (IF r.q = q /\ r.part = "size" THEN {new} ELSE {})
    BY <2>1
  <2>4. Receives(q, "data")' = Receives(q, "data") \cup (IF r.q = q /\ r.part = "data" THEN {new} ELSE {})
    BY <2>1
  <2> QED BY <1>2, <2>2, <2>3, <2>4
<1>5. /\ req'[q] = new /\ buf'[q] = new /\ stage'[q] = "TX_DATA"
      /\ \A p \in Req \ {q} : req'[p] = req[p] /\ buf'[p] = buf[p] /\ stage'[p] = stage[p]
  BY <1>3, <1>a DEF HandlesOk
<1> HIDE DEF new
<1>6. SizeOf(q)'
  <2>1. \A i \in Receives(q, "size") : recvs'[i] = recvs[i]
    BY <1>4 DEF Receives
  <2> QED BY <1>a, <1>4, <2>1, SizeOfKept
<1>7. Waiting(q)'
  BY <1>4 DEF Waiting
<1>8. Filling(q)'
  <2>1. Receives(q, "data")' = {new} /\ sized'[q] # None /\ recvs'[req'[q]].q = q
    BY <1>2, <1>4, <1>5
  <2>2. answer'[q] # "done"
    BY <1>a DEF Filling
  <2> QED BY <1>2, <1>4, <1>5, <2>1, <2>2 DEF Filling
<1>9. \A p \in Req \ {q} : /\ Slots(p)' = Slots(p) /\ stage'[p] = stage[p] /\ peer'[p] = peer[p]
                           /\ req'[p] = req[p] /\ buf'[p] = buf[p] /\ answer'[p] = answer[p]
  BY <1>5
<1> QED BY <1>1, <1>2, <1>3, <1>6, <1>7, <1>8, <1>9, PostedPaired
-----------------------------------------------------------------------------
(* The steps that post one.                                                 *)

LEMMA StartingPaired ==
  ASSUME IInv, Careful, Paired, NEW q \in Req, IrecvCall(q) \/ StartCall(q)
  PROVE  Paired'
<1>1. upc = "idle" /\ Post(q)
  BY DEF IrecvCall, StartCall, Calling
<1>2. ~Started(q)
  <2>1. CASE IrecvCall(q)
    BY <2>1 DEF IrecvCall, IInv, Known
  <2>2. CASE StartCall(q)
    BY <2>2 DEF StartCall, Calling, Careful
  <2> QED BY <2>1, <2>2
<1> QED BY <1>1, <1>2, StartingInv, PostPaired

LEMMA TestSlotPaired ==
  ASSUME IInv, Careful, Paired, TestSlot
  PROVE  Paired'
<1>a. TypeOK /\ HandlesOk /\ ThreadsOk /\ IInv'
  BY Typed, TestSlotInv
<1>1. PICK q \in Req : q = rlist[scan]
  BY DEF TestSlot
<1>2. scan > 0 /\ upc = "idle" /\ upc' = "idle" /\ Complete(req[q])
      /\ UNCHANGED <<wire, out, count, buflen, sized, obj, answer>>
  BY <1>1, ThreadTurn DEF TestSlot, user
<1>3. scan \in Slots(q) /\ Started(q)
  <2>1. scan \in DOMAIN rlist
    <3>1. scan \in 0 .. Len(rlist) /\ DOMAIN rlist = 1 .. Len(rlist)
      BY <1>a, SlotsOf DEF ThreadsOk
    <3> QED BY <1>2, <3>1
  <2>2. scan \in Slots(q)
    BY <1>1, <2>1 DEF Slots
  <2> QED BY <2>2 DEF IInv, Known
<1>4. Mail /\ Waiting(q) /\ Reader(q) /\ SizeOf(q)
  BY <1>2, PairedParts DEF Desk, Mail
<1>5. /\ sized[q] # None /\ ~Truncated(req[q])
      /\ Hopeless(q) \/ SourceOf(req[q]) = sized[q].of.src
  BY <1>2, <1>3, <1>4, SizeIn
<1>6. stage[q] = "TX_SIZE" /\ Slots(q) = {scan} /\ Receives(q, "data") = {}
  <2>1. "restart" \notin Uses[q] /\ Watched(q)
    BY DEF Careful, IInv
  <2> QED BY <1>3, <1>4, <2>1 DEF Watched, Waiting
<1>7. Blocking'
  BY <1>2, NotBlocking
<1>8. Count(buflen[q]) \in Int
  <2>1. buflen[q] \in Lengths \cup {0}
    BY <1>a DEF HandlesOk
  <2> QED BY <2>1, Constants
<1>9. peer' = [peer EXCEPT ![q] = SourceOf(req[q])]
  BY <1>1, <1>5 DEF TestSlot
<1>10. CASE Count(buflen[q]) < 0
  <2>1. Hopeless(q) /\ Over(q)
    BY <1>5, <1>6, <1>10 DEF Hopeless, Over
  <2>2. req' = [req EXCEPT ![q] = Null] /\ UNCHANGED <<recvs, stage, buf, rlist>>
    BY <1>1, <1>5, <1>10 DEF TestSlot
  <2>3. \A p \in Req : peer'[p] = peer[p] \/ (Started(p) /\ (Slots(p) = {} \/ Hopeless(p)))
    BY <1>3, <1>9, <2>1, <1>a DEF HandlesOk
  <2>4. \A p \in Req : req'[p] = req[p] \/ (req'[p] = Null /\ Over(p))
    BY <2>1, <2>2, <1>a DEF HandlesOk
  <2>5. TypeOK'
    BY <1>a DEF IInv
  <2> QED BY <1>2, <1>7, <2>2, <2>3, <2>4, <2>5, QuietPaired
<1>11. CASE ~(Count(buflen[q]) < 0)
  <2>1. SourceOf(req[q]) = sized[q].of.src
    BY <1>5, <1>11 DEF Hopeless
  <2>2. /\ Irecv(q, "data", sized[q].of.src, Count(buflen[q]))
        /\ buf' = [buf EXCEPT ![q] = Len(recvs) + 1]
        /\ stage' = [stage EXCEPT ![q] = "TX_DATA"]
        /\ rlist' = [rlist EXCEPT ![scan] = None]
    BY <1>1, <1>5, <1>11, <2>1 DEF TestSlot
  <2>3. Slots(q)' = {} /\ \A p \in Req \ {q} : Slots(p)' = Slots(p)
    BY <1>a, <1>3, <1>6, <2>2, SlotFreed
  <2>4. \A p \in Req \ {q} : Slots(p)' = Slots(p) /\ peer'[p] = peer[p]
    BY <1>9, <1>a, <2>3 DEF HandlesOk
  <2>5. Count(buflen[q]) >= 0
    BY <1>8, <1>11
  <2> QED BY <1>a, <1>2, <1>3, <1>5, <1>6, <1>7, <2>2, <2>3, <2>4, <2>5, DataPosted
<1> QED BY <1>10, <1>11

LEMMA PostDataPaired ==
  ASSUME IInv, Careful, Paired, NEW q \in Req, PostData(q)
  PROVE  Paired'
<1>a. TypeOK /\ HandlesOk /\ IInv'
  BY Typed, PostDataInv
<1>1. upc = "post" /\ q \in InSize /\ Complete(req[q]) /\ stage[q] = "TX_SIZE"
  BY DEF PostData, IInv, Turns, InSize
<1>2. Mail /\ Waiting(q) /\ Reader(q) /\ SizeOf(q) /\ Blocking
  BY <1>1, PairedParts DEF Desk, Mail
<1>3. Slots(q) # {} /\ Source[q] # AnySource /\ Started(q)
  <2>1. q \in group
    BY <1>1, Typed
  <2> QED BY <1>1, <1>2, <2>1, StillWatched DEF IInv, Turns
<1>4. /\ sized[q] # None /\ For(q, sized[q]) /\ Receives(q, "data") = {}
      /\ Hopeless(q) \/ peer[q] = Source[q]
  BY <1>1, <1>2, <1>3, SizeIn DEF Waiting
<1>5. UNCHANGED <<wire, out, count, peer, buflen, sized, obj>>
  BY DEF PostData
<1>6. CASE /\ Count(buflen[q]) < 0
           /\ Raise({q})
           /\ UNCHANGED <<recvs, stage, buf, rlist>>
  <2>1. Over(q)
    BY <1>1, <1>4, <1>6 DEF Hopeless, Over
  <2>2. UNCHANGED <<mpi, stage, peer, buflen, sized, buf, obj, rlist>>
    BY <1>5, <1>6 DEF mpi
  <2>3. CASE Return("raised") /\ Clear({q})
    <3>1. upc' = "idle" /\ \A p \in Req :
            /\ req'[p] = req[p] \/ (req'[p] = Null /\ Over(p))
            /\ answer'[p] = "done" => answer[p] = "done" \/ HasData(p)
      BY <2>1, <2>3 DEF Clear, Return, Inform, Leave
    <3>2. Blocking'
      BY <3>1, NotBlocking
    <3> QED BY <1>a, <1>1, <2>2, <3>1, <3>2, ToldPaired
  <2>4. CASE RaiseStale(group)
    BY <1>a, <2>2, <2>4, StrayedPaired
  <2> QED BY <1>6, <2>3, <2>4 DEF Raise
<1>7. CASE /\ Count(buflen[q]) >= 0
           /\ Irecv(q, "data", peer[q], Count(buflen[q]))
           /\ buf' = [buf EXCEPT ![q] = Len(recvs) + 1]
           /\ stage' = [stage EXCEPT ![q] = "TX_DATA"]
           /\ Unwatch(q)
           /\ UNCHANGED user
  <2>1. peer[q] = sized[q].of.src
    <3>1. ~Hopeless(q)
      <4>1. buflen[q] \in Lengths \cup {0}
        BY <1>a DEF HandlesOk
      <4>2. Count(buflen[q]) \in Int
        BY <4>1, Constants
      <4> QED BY <1>7, <4>2 DEF Hopeless
    <3> QED BY <1>3, <1>4, <3>1 DEF For
  <2>2. /\ Slots(q)' = {}
        /\ \A p \in Req \ {q} : Slots(p)' = Slots(p) /\ peer'[p] = peer[p]
    <3>1. \A i, j \in Slots(q) : i = j
      BY DEF Careful, IInv, Watched
    <3> QED BY <1>a, <1>5, <1>7, <3>1, Unwatched
  <2>3. UNCHANGED <<upc, call, group, answer>>
    BY <1>7 DEF user
  <2>4. Blocking'
    BY <1>1, <1>2, <2>3 DEF Blocking
  <2>5. Irecv(q, "data", sized[q].of.src, Count(buflen[q]))
    BY <1>7, <2>1
  <2> QED BY <1>a, <1>1, <1>3, <1>4, <1>5, <1>7, <2>2, <2>3, <2>4, <2>5, DataPosted
<1> QED BY <1>6, <1>7 DEF PostData

\* waitany may post a receive of data too soon, and then goes astray.
LEMMA WaitanyInSizePaired ==
  ASSUME IInv, Careful, Paired, WaitanyInSize
  PROVE  Paired'
<1>a. /\ TypeOK /\ HandlesOk /\ Streams /\ sized \in [Req -> Messages \cup {None}]
      /\ \A p \in Req : SizeOf(p)
  BY Typed, PairedParts
<1>1. /\ upc = "any" /\ group \in SUBSET Req /\ group # {}
      /\ UNCHANGED <<wire, out, count, stage, peer, buflen, sized, obj, rlist>>
  BY Typed DEF WaitanyInSize, IInv, Turns
<1>2. PICK last \in group : last = LastIn(group)
  BY <1>1, LastOf
<1> DEFINE r == [q |-> last, part |-> "data", src |-> peer[last], room |-> Count(buflen[last]),
                 got |-> None, cancelled |-> FALSE]
<1>3. CASE /\ UNCHANGED <<recvs, buf>>
           /\ (Leave /\ UNCHANGED <<req, answer>>) \/ \E q : RaiseStale({q})
  <2>1. UNCHANGED <<mpi, stage, peer, buflen, sized, buf, obj, rlist>>
    BY <1>1, <1>3 DEF mpi
  <2>2. CASE Leave /\ UNCHANGED <<req, answer>>
    <3>1. upc' = "idle"
      BY <2>2 DEF Leave
    <3>2. Blocking'
      BY <3>1, NotBlocking
    <3> QED BY <1>1, <2>1, <2>2, <3>1, <3>2, WaitanyInSizeInv, ToldPaired
  <2>3. CASE \E q : RaiseStale({q})
    BY <2>1, <2>3, WaitanyInSizeInv, StrayedPaired
  <2> QED BY <1>3, <2>2, <2>3
<1>4. CASE /\ ~(Count(buflen[last]) < 0)
           /\ recvs' = Append(recvs, r) /\ upc' = "astray"
  <2>1. r \in Receive /\ r.part = "data"
    <3>1. last \in Req
      BY <1>1
    <3>2. Count(buflen[last]) \in Int
      <4>1. buflen[last] \in Lengths \cup {0}
        BY <1>a, <3>1 DEF HandlesOk
      <4> QED BY <4>1, Constants
    <3>3. Count(buflen[last]) >= 0
      BY <1>4, <3>2
    <3> QED BY <3>1, <3>3, DataReceive
  <2> HIDE DEF r
  <2>2. \A p \in Req : SizeOf(p)'
    <3> TAKE p \in Req
    <3> DEFINE new == Len(recvs) + 1
    <3>1. Receives(p, "size")' = Receives(p, "size") \cup
            (IF r.q = p /\ r.part = "size" THEN {new} ELSE {})
      BY <1>a, <1>4, <2>1, Posting
    <3>2. \A i \in Receives(p, "size") : recvs'[i] = recvs[i]
      BY <1>a, <1>4, <2>1, Posting DEF Receives
    <3> HIDE DEF new
    <3>3. Receives(p, "size")' = Receives(p, "size")
      BY <2>1, <3>1
    <3> QED BY <1>a, <1>1, <3>2, <3>3, SizeOfKept
  <2>3. Streams'
    BY <1>a, <1>1, StreamsSame
  <2> QED BY <1>a, <1>1, <1>4, <2>2, <2>3, PairedParts
<1> QED BY <1>2, <1>3, <1>4 DEF WaitanyInSize, GoAstray

LEMMA CancelPaired ==
  ASSUME IInv, Careful, Paired, NEW q \in Req, CancelCall(q)
  PROVE  Paired'
<1>a. /\ TypeOK /\ HandlesOk /\ TypeOK' /\ Streams /\ sized \in [Req -> Messages \cup {None}]
      /\ \A p \in Req : SizeOf(p)
  BY Typed, CancelInv, PairedParts DEF IInv
<1>1. /\ upc = "idle" /\ upc' = "idle" /\ Started(q)
      /\ UNCHANGED <<wire, out, count, req, peer, buflen, sized, obj>>
      /\ answer' = [answer EXCEPT ![q] = "raised"] \/ UNCHANGED answer
  BY DEF CancelCall, Calling
<1>2. Mail /\ Desk
  BY <1>1, PairedParts
<1>3. /\ stage'[q] = "TX_SIZE" /\ buf'[q] = None
      /\ \A p \in Req \ {q} : stage'[p] = stage[p] /\ buf'[p] = buf[p]
  BY <1>a DEF CancelCall, HandlesOk
<1>4. Slots(q)' = {} /\ \A p \in Req \ {q} : Slots(p)' = Slots(p)
  <2>1. \A i, j \in Slots(q) : i = j
    BY DEF Careful, IInv, Watched
  <2> QED BY <1>a, <2>1, Unwatched DEF CancelCall
\* Only a handle of q is cancelled.
<1>5. /\ DOMAIN recvs' = DOMAIN recvs
      /\ \A i \in DOMAIN recvs :
           /\ recvs'[i].q = recvs[i].q /\ recvs'[i].part = recvs[i].part
           /\ recvs'[i].src = recvs[i].src /\ recvs'[i].room = recvs[i].room
           /\ recvs'[i].got = recvs[i].got
           /\ recvs[i].q # q => recvs'[i].cancelled = recvs[i].cancelled
  <2>1. CASE Complete(req[q])
    BY <2>1 DEF CancelCall
  <2>2. CASE ~Complete(req[q])
    <3>1. PICK h \in DOMAIN recvs : h = req[q] /\ recvs[h].q = q
      <4>1. req[q] \in DOMAIN recvs
        BY <1>1, <2>2, HandleOf DEF Complete
      <4> QED BY <1>2, <4>1 DEF Desk, Filling
    <3>2. recvs' = [recvs EXCEPT ![h].cancelled = TRUE] /\ recvs \in Seq(Receive)
      BY <1>a, <2>2, <3>1 DEF CancelCall, HandlesOk
    <3>3. recvs[h] \in Receive
      BY <1>a, RecvsAt
    <3>4. DOMAIN recvs' = DOMAIN recvs /\ recvs'[h] = [recvs[h] EXCEPT !.cancelled = TRUE]
          /\ \A i \in DOMAIN recvs \ {h} : recvs'[i] = recvs[i]
      BY <3>2
    <3>5. /\ recvs'[h].q = recvs[h].q /\ recvs'[h].part = recvs[h].part
          /\ recvs'[h].src = recvs[h].src /\ recvs'[h].room = recvs[h].room
          /\ recvs'[h].got = recvs[h].got
      BY <3>3, <3>4 DEF Receive
    <3> QED BY <3>1, <3>4, <3>5
  <2> QED BY <2>1, <2>2
<1>6. \A p, part : Receives(p, part)' = Receives(p, part)
  <2> TAKE p, part
  <2>1. Receives(p, part)' = {i \in DOMAIN recvs' : recvs'[i].q = p /\ recvs'[i].part = part}
    BY DEF Receives
  <2> QED BY <1>5, <2>1 DEF Receives
<1>7. \A p \in Req : Started(p)' <=> Started(p)
  BY <1>5 DEF Started
<1>8. Streams' /\ Coming' = Coming
  BY <1>a, <1>1, StreamsSame DEF Coming
<1>9. Mail'
  <2>1. \A i \in DOMAIN recvs : recvs'[i].got = recvs[i].got /\ recvs'[i].src = recvs[i].src
    BY <1>5
  <2> QED BY <1>1, <1>2, <1>6, <1>8, <2>1, MailKept
<1>10. \A p \in Req : SizeOf(p)'
  <2> TAKE p \in Req
  <2>1. \A i \in Receives(p, "size") : /\ recvs'[i].got = recvs[i].got
                                       /\ recvs'[i].room = recvs[i].room
                                       /\ recvs'[i].src = recvs[i].src
    BY <1>5 DEF Receives
  <2> QED BY <1>a, <1>1, <1>6, <2>1, SizeOfKept
<1>11. ASSUME NEW p \in Req \ {q}
       PROVE  Waiting(p)' /\ Filling(p)'
  <2>1. Waiting(p) /\ Filling(p)
    BY <1>2 DEF Desk
  <2>2. \A part : \A i \in Receives(p, part) : recvs'[i].cancelled = recvs[i].cancelled
    BY <1>5 DEF Receives
  <2>3. Waiting(p)'
    <3>1. Hopeless(p) => Hopeless(p)'
      BY <1>1 DEF Hopeless
    <3> QED BY <1>1, <1>4, <1>6, <1>7, <2>1, <2>2, <3>1, WaitingKept
  <2>4. Filling(p)'
    <3>1. \A i \in DOMAIN recvs : i \in DOMAIN recvs' /\ recvs'[i].q = recvs[i].q
      BY <1>5
    <3>2. \A i \in Receives(p, "data") : /\ recvs'[i].cancelled = recvs[i].cancelled
                                         /\ recvs[i].got # None => recvs'[i].got # None
      BY <1>5, <2>2 DEF Receives
    <3>3. /\ sized'[p] = sized[p] /\ req'[p] = req[p] /\ answer'[p] = answer[p]
          /\ Receives(p, "data")' = Receives(p, "data")
      BY <1>1, <1>6, Typed DEF UserOk
    <3> QED BY <1>a, <1>3, <2>1, <3>1, <3>2, <3>3, FillingKept
  <2> QED BY <2>3, <2>4
<1>12. Waiting(q)'
  BY <1>1, <1>4, <1>7 DEF Waiting
<1>13. Filling(q)'
  <2>1. Filling(q)
    BY <1>2 DEF Desk
  <2>2. \A i \in Receives(q, "data") : recvs'[i].got = recvs[i].got
    BY <1>5 DEF Receives
  <2>3. req[q] \in DOMAIN recvs => recvs'[req[q]].q = q
    BY <1>5, <2>1 DEF Filling
  <2>4. answer'[q] = "done" => answer[q] = "done"
    BY <1>1, Typed DEF UserOk
  <2> QED BY <1>1, <1>3, <1>5, <1>6, <2>1, <2>2, <2>3, <2>4 DEF Filling
<1>14. Desk' /\ Blocking'
  BY <1>1, <1>11, <1>12, <1>13, NotBlocking DEF Desk
<1> QED BY <1>a, <1>1, <1>8, <1>9, <1>10, <1>14, PairedParts

-----------------------------------------------------------------------------
(* The theorems.                                                            *)

LEMMA InitPaired ==
  ASSUME Init
  PROVE  Paired
<1>1. /\ wire = {} /\ recvs = <<>> /\ DOMAIN recvs = {} /\ upc = "idle"
      /\ \A s \in Senders : out[s] = None
      /\ \A q \in Req : /\ sized[q] = None /\ obj[q] = None /\ buf[q] = None /\ req[q] = None
                        /\ stage[q] = "TX_SIZE" /\ peer[q] = Source[q] /\ answer[q] = "no"
      /\ \A i \in DOMAIN rlist : rlist[i] = None
  BY DEF Init
<1>2. Coming = {}
  BY <1>1 DEF Coming
<1>3. Streams
  BY <1>1, <1>2 DEF Streams, Numbered, Matched, Outgoing
<1>4. \A q, part : Receives(q, part) = {}
  BY <1>1 DEF Receives
<1>5. \A q \in Req : Slots(q) = {}
  BY <1>1, NoneOk DEF Slots
<1>6. sized \in [Req -> Messages \cup {None}]
  BY DEF Init
<1>7. Mail
  BY <1>1, <1>2 DEF Mail, Untouched, Reader
<1>8. Desk
  <2>1. \A q \in Req : Waiting(q)
    BY <1>1, <1>5 DEF Waiting
  <2>2. \A q \in Req : Filling(q)
    BY <1>1, <1>4 DEF Filling
  <2> QED BY <2>1, <2>2 DEF Desk
<1>9. Blocking
  BY <1>1 DEF Blocking
<1>10. \A q \in Req : SizeOf(q)
  BY <1>1, <1>4 DEF SizeOf
<1> QED BY <1>3, <1>6, <1>7, <1>8, <1>9, <1>10, PairedParts

LEMMA NextPaired ==
  ASSUME IInv, Careful, Paired, [Next]_vars
  PROVE  Paired'
<1>1. CASE \E s \in Senders : Sending(s)
  BY <1>1, SendingPaired
<1>2. CASE Mpi
  BY <1>2, DeliverPaired DEF Mpi
<1>3. CASE Background
  BY <1>3, LookPaired, TestSlotPaired DEF Background
<1>4. CASE Blocked
  BY <1>4, SizesCompletePaired, SizesPostedPaired, WaitallReturnsPaired, WaitanyReturnsPaired,
     WaitanyInSizePaired, WaitsomeReturnsPaired, PostDataPaired, WaitReturnsPaired DEF Blocked
<1>5. CASE Program
  <2>1. ASSUME NEW q \in Req, WaitCall("wait", {q})
        PROVE  Paired'
    BY <2>1, WaitCallPaired
  <2> QED BY <1>5, <2>1, StartingPaired, RecvInitPaired, TestCallPaired, CancelPaired,
             WaitCallPaired, TestArrayPaired DEF Program
<1>6. CASE UNCHANGED vars
  <2>1. UNCHANGED <<mpi, stage, peer, buflen, sized, buf, obj, rlist, req, upc, call, group, answer>>
    BY <1>6 DEF vars, mr, user
  <2>2. IInv'
    BY NextInv
  <2>3. upc # "astray" => Blocking'
    BY <2>1, PairedParts DEF Blocking, InSize
  <2> QED BY <2>1, <2>2, <2>3, ToldPaired
<1> QED BY <1>1, <1>2, <1>3, <1>4, <1>5, <1>6 DEF Next

\* In a careful program each letter keeps its two halves together on the way
\* and in the request that receives it.
THEOREM SpecPairInv == Spec => []PairInv
<1>1. Init => PairInv
  BY InitInv, InitPaired DEF PairInv
<1>2. PairInv /\ [Next]_vars => PairInv'
  <2> SUFFICES ASSUME PairInv, [Next]_vars PROVE PairInv'
    OBVIOUS
  <2>1. IInv'
    BY NextInv DEF PairInv
  <2>2. Careful => Paired'
    BY NextPaired DEF PairInv
  <2> QED BY <2>1, <2>2 DEF PairInv, Careful
<1> QED BY <1>1, <1>2, PTL DEF Spec

\* Whoever posts the second receive of a request, wait, waitall or the
\* background thread, it takes the data of the letter whose size the first one
\* took, however many letters its sender sends and in whatever way.
THEOREM SpecRequestPairing ==
  ASSUME Careful
  PROVE  Spec => []RequestPairing
<1>1. PairInv => RequestPairing
  <2> SUFFICES ASSUME PairInv, upc # "astray", NEW i \in DOMAIN recvs, recvs[i].got # None
               PROVE  IF recvs[i].part = "size" THEN recvs[i].got.kind = "size"
                      ELSE OtherHalf(recvs[i].got, sized[recvs[i].q])
    BY DEF RequestPairing
  <2>1. PICK q \in Req : q = recvs[i].q
    BY RecvsAt DEF PairInv, IInv
  <2>2. recvs[i].part \in {"size", "data"}
    BY RecvsAt DEF PairInv, IInv, Receive
  <2>3. SizeOf(q) /\ Reader(q) /\ Filling(q)
    BY PairedParts DEF PairInv, Mail, Desk
  <2>4. CASE recvs[i].part = "size"
    <3>1. recvs[i].got = sized[q]
      BY <2>1, <2>3, <2>4 DEF Receives, SizeOf
    <3> QED BY <2>3, <2>4, <3>1 DEF Reader, Reads
  <2>5. CASE recvs[i].part = "data"
    <3>1. i \in Receives(q, "data")
      BY <2>1, <2>5 DEF Receives
    <3>2. sized[q] # None
      BY <2>3, <3>1 DEF Filling
    <3>3. Halves(recvs[i].got, sized[q])
      BY <2>3, <3>1, <3>2 DEF Reader, Reads
    <3> QED BY <2>1, <2>5, <3>3 DEF Halves
  <2> QED BY <2>2, <2>4, <2>5
<1> QED BY <1>1, SpecPairInv, PTL

\* What wait, waitall or test call complete has both its halves.
THEOREM SpecDoneIsDone ==
  ASSUME Careful
  PROVE  Spec => []DoneIsDone
<1>1. PairInv => DoneIsDone
  <2> SUFFICES ASSUME PairInv, upc # "astray", NEW q \in Req, answer[q] = "done"
               PROVE  /\ sized[q] # None
                      /\ \E i \in DOMAIN recvs : recvs[i].q = q /\ recvs[i].got # None
                                               /\ OtherHalf(recvs[i].got, sized[q])
    BY DEF DoneIsDone
  <2>1. Filling(q) /\ Reader(q)
    BY PairedParts DEF PairInv, Mail, Desk
  <2>2. PICK i \in Receives(q, "data") : recvs[i].got # None
    BY <2>1 DEF Filling
  <2>3. sized[q] # None /\ Halves(recvs[i].got, sized[q])
    BY <2>1, <2>2 DEF Filling, Reader, Reads
  <2> QED BY <2>2, <2>3 DEF Receives, Halves
<1> QED BY <1>1, SpecPairInv, PTL

\* The object wait leaves in a request is that of the letter it received.
THEOREM SpecOwnObject ==
  ASSUME Careful
  PROVE  Spec => []OwnObject
<1>1. PairInv => OwnObject
  BY DEF PairInv, Paired, SizeOf, OwnObject
<1> QED BY <1>1, SpecPairInv, PTL

\* What a posted receive of data waits for has been sent, or its sender is
\* between its two messages: the safety half of WaitEnds.
THEOREM SpecDataComes ==
  ASSUME Careful
  PROVE  Spec => []DataComes
<1>1. PairInv => DataComes
  <2> SUFFICES ASSUME PairInv, upc # "astray", NEW i \in DOMAIN recvs,
                      Pending(i), recvs[i].part = "data"
               PROVE  \E d \in Coming : OtherHalf(d, sized[recvs[i].q])
    BY DEF DataComes
  <2>1. PICK q \in Req : q = recvs[i].q
    BY RecvsAt DEF PairInv, IInv
  <2>2. Filling(q) /\ Reader(q)
    BY PairedParts DEF PairInv, Mail, Desk
  <2>3. Receives(q, "data") = {i} /\ recvs[i].got = None
    BY <2>1, <2>2 DEF Receives, Filling, Pending
  <2>4. PICK z : z = sized[q] /\ Reads(q, z)
    BY <2>2, <2>3 DEF Filling, Reader
  <2>5. Followed(z) /\ Count(z.of.len) >= 0 /\ Count(z.of.len) \in Int
    <3>1. Followed(z) /\ Count(buflen[q]) >= 0 /\ buflen[q] = z.of.len
      BY <2>3, <2>4 DEF Reads
    <3>2. buflen[q] \in Lengths \cup {0}
      BY Typed DEF PairInv, HandlesOk
    <3>3. Count(buflen[q]) \in Int
      BY <3>2, Constants
    <3> QED BY <3>1, <3>3
  <2>6. PICK d \in Coming : Halves(d, z)
    BY <2>5 DEF Followed
  <2> QED BY <2>1, <2>4, <2>6 DEF Halves
<1> QED BY <1>1, SpecPairInv, PTL
=============================================================================
