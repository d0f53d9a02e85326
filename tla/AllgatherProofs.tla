-------------------------- MODULE AllgatherProofs --------------------------
(* Proofs about Allgather for every number of processes, calls, objects and *)
(* lengths.                                                                 *)
EXTENDS AllgatherInv, SequenceTheorems, TLAPS

-----------------------------------------------------------------------------
(* The ring.                                                                *)

LEMMA Neighbours ==
  ASSUME NEW p \in Ranks
  PROVE  /\ Back(p) \in Ranks /\ Ahead(p) \in Ranks
         /\ Back(p) = IF p = 0 THEN N - 1 ELSE p - 1
         /\ Ahead(p) = IF p = N - 1 THEN 0 ELSE p + 1
<1>1. N \in Nat \ {0} /\ p \in 0 .. N - 1
  BY RingOk DEF Ranks
<1>2. (N + p - 1) % N = IF p = 0 THEN N - 1 ELSE p - 1
  BY <1>1, SMTT(30)
<1>3. (p + 1) % N = IF p = N - 1 THEN 0 ELSE p + 1
  BY <1>1, SMTT(30)
<1> QED
  BY <1>1, <1>2, <1>3 DEF Back, Ahead, Ranks

\* Each process has one neighbour on each side.
LEMMA RingInverse ==
  ASSUME NEW p \in Ranks
  PROVE  Ahead(Back(p)) = p /\ Back(Ahead(p)) = p
<1>1. /\ Back(p) \in Ranks /\ Ahead(p) \in Ranks
      /\ Back(p) = IF p = 0 THEN N - 1 ELSE p - 1
      /\ Ahead(p) = IF p = N - 1 THEN 0 ELSE p + 1
  BY Neighbours
<1>2. Ahead(Back(p)) = IF Back(p) = N - 1 THEN 0 ELSE Back(p) + 1
  BY <1>1, Neighbours
<1>3. Back(Ahead(p)) = IF Ahead(p) = 0 THEN N - 1 ELSE Ahead(p) - 1
  BY <1>1, Neighbours
<1> QED
  BY <1>1, <1>2, <1>3, RingOk DEF Ranks

LEMMA AheadBack ==
  ASSUME NEW p \in Ranks, NEW q \in Ranks
  PROVE  Ahead(p) = q <=> p = Back(q)
BY RingInverse

LEMMA TwoNeighbours ==
  ASSUME N > 1, NEW p \in Ranks
  PROVE  Back(p) # p
<1>1. Back(p) = IF p = 0 THEN N - 1 ELSE p - 1
  BY Neighbours
<1> QED
  BY <1>1, RingOk DEF Ranks

\* The slots of one rank, round by round, and those of its left neighbour.
LEMMA Slots ==
  ASSUME NEW p \in Ranks, NEW r \in 1 .. N
  PROVE  /\ Slot(p, r) \in Ranks
         /\ Slot(p, 1) = p
         /\ r < N => Slot(p, r + 1) = Back(Slot(p, r))
         /\ Slot(Back(p), r) = Back(Slot(p, r))
<1>1. Slot(p, r) \in Ranks /\ Slot(p, 1) = p
  BY RingOk DEF Slot, Ranks
<1>2. Back(Slot(p, r)) = IF Slot(p, r) = 0 THEN N - 1 ELSE Slot(p, r) - 1
  BY <1>1, Neighbours
<1>3. r < N => Slot(p, r + 1) = Back(Slot(p, r))
  BY <1>2, RingOk DEF Slot, Ranks
<1>4. Slot(Back(p), r) = Back(Slot(p, r))
  <2>1. Back(p) = IF p = 0 THEN N - 1 ELSE p - 1
    BY Neighbours
  <2> QED
    BY <1>2, <2>1, RingOk DEF Slot, Ranks
<1> QED
  BY <1>1, <1>3, <1>4

-----------------------------------------------------------------------------
(* Strings and messages.                                                    *)

LEMMA CountInt ==
  ASSUME NEW len \in Lengths
  PROVE  len \in Int /\ Count(len) \in Int
BY IntsOk DEF Count

LEMMA StrFields ==
  ASSUME NEW s \in Str
  PROVE  /\ s.of \in Ranks /\ s.call \in Nat /\ s.prefix \in Nat /\ s.size \in Nat
         /\ s # None
BY NoneOk DEF Str

LEMMA MessageFields ==
  ASSUME NEW m \in Message
  PROVE  /\ m.part \in {"size", "data"} /\ m.len \in Lengths /\ m.str \in Str
         /\ m.round \in 1 .. N
         /\ m # None
BY NoneOk DEF Message

LEMMA DumpType ==
  ASSUME TypeOK, NEW p \in Ranks
  PROVE  Dump(p) \in Str /\ Dump(p).of = p /\ Dump(p).call = calls[p] + 1
<1>1. DumpLen[p] \in Nat
  BY DumpsOk, RingOk
<1> QED
  BY <1>1 DEF Dump, Str, TypeOK

LEMMA CopyType ==
  ASSUME NEW s \in Str, NEW c \in Nat
  PROVE  /\ Copy(s, c) \in Str
         /\ Copy(s, c).of = s.of /\ Copy(s, c).call = s.call /\ Copy(s, c).size = c
BY DEF Copy, Str

\* What a process passes on, once it has a slot to send.
LEMMA PassesStr ==
  ASSUME TypeOK, Rounds, NEW p \in Ranks, pc[p] \in {"top", "size", "data"}
  PROVE  Passes(p) \in Str /\ Passes(p) # None
BY DEF TypeOK, Rounds, Passes

-----------------------------------------------------------------------------
(* Type correctness.                                                        *)

LEMMA InitType == Init => TypeOK
<1> SUFFICES ASSUME Init PROVE TypeOK
  OBVIOUS
<1>1. 1 \in 1 .. N /\ 0 \in Ranks
  BY RingOk DEF Ranks
<1> QED
  BY <1>1 DEF Init, TypeOK

LEMMA ExchangeType ==
  ASSUME TypeOK, NEW p \in Ranks, NEW m \in Message, Exchange(p, m)
  PROVE  /\ chan' \in [Ranks -> Seq(Message)]
         /\ flying' \in [Ranks -> BOOLEAN] /\ await' \in [Ranks -> BOOLEAN]
<1>1. Ahead(p) \in Ranks /\ chan[Ahead(p)] \in Seq(Message)
  BY Neighbours DEF TypeOK
<1>2. Append(chan[Ahead(p)], m) \in Seq(Message)
  BY <1>1
<1> QED
  BY <1>1, <1>2 DEF Exchange, TypeOK

\* The messages of p's round are messages.
LEMMA RoundMessage ==
  ASSUME TypeOK, Rounds, NEW p \in Ranks, pc[p] = "top"
  PROVE  [part |-> "size", len |-> right[p], str |-> Passes(p), round |-> i[p]] \in Message
BY PassesStr DEF Message, TypeOK

LEMMA SizeMessage ==
  ASSUME TypeOK, Rounds, NEW p \in Ranks, pc[p] = "size", Count(right[p]) >= 0
  PROVE  [part |-> "data", len |-> right[p],
          str |-> Copy(Passes(p), SendBytes(p)), round |-> i[p]] \in Message
<1>1. SendBytes(p) \in Nat
  BY CountInt DEF SendBytes, TypeOK
<1>2. Copy(Passes(p), SendBytes(p)) \in Str
  BY <1>1, PassesStr, CopyType
<1> QED
  BY <1>2 DEF Message, TypeOK

\* The string a round ends with.
LEMMA ReceivedType ==
  ASSUME TypeOK, NEW p \in Ranks, in[p] # None, Count(left[p]) = in[p].str.size
  PROVE  /\ Received(p) \in Str /\ Received(p) # None
         /\ Received(p).of = in[p].str.of /\ Received(p).call = in[p].str.call
<1>1. in[p] \in Message
  BY DEF TypeOK
<1>2. in[p].str \in Str
  BY <1>1, MessageFields
<1>3. Count(left[p]) \in Nat
  BY <1>2, StrFields
<1>4. Received(p) \in Str
  BY <1>2, <1>3, StrFields DEF Received, Str
<1> QED
  BY <1>2, <1>4, StrFields DEF Received, Str

\* A round never ends in a truncated message.
LEMMA Untruncated ==
  ASSUME TypeOK, Rounds, Holds, NEW p \in Ranks, DataDone(p)
  PROVE  /\ pc[p] = "data" /\ ~flying[p] /\ ~await[p] /\ i[p] \in 1 .. N /\ i[p] < N
         /\ in[p] # None /\ Count(left[p]) = in[p].str.size
         /\ Keep(p)
<1>1. pc[p] = "data" /\ ~flying[p] /\ ~await[p] /\ i[p] \in 1 .. N /\ i[p] < N
  BY DEF DataDone, Returned, Rounds, TypeOK
<1>2. /\ in[p] # None /\ in[p].part = "data" /\ in[p].len = left[p]
      /\ in[p].str.size = Count(in[p].len)
  BY <1>1 DEF Holds, At, Place, Sound
<1>3. in[p].str.size \in Nat
  BY <1>2, MessageFields, StrFields DEF TypeOK
<1>4. ~(Extent(in[p]) > Count(left[p]))
  BY <1>2, <1>3 DEF Extent
<1> QED
  BY <1>1, <1>2, <1>4 DEF DataDone

LEMMA TypeStep ==
  ASSUME TypeOK, Rounds, Holds, NEW p \in Ranks, Step(p)
  PROVE  TypeOK'
<1>1. CASE Enter(p)
  <2>1. Dump(p) \in Str
    BY DumpType
  <2>2. 1 \in 1 .. N /\ Back(p) \in Ranks
    BY RingOk, Neighbours
  <2>3. \A k \in Ranks : (IF k = p THEN Dump(p) ELSE None) \in Str \cup {None}
    BY <2>1
  <2>4. ary' \in [Ranks -> [Ranks -> Str \cup {None}]]
    BY <1>1, <2>3 DEF Enter, TypeOK
  <2>5. calls' \in [Ranks -> Nat] /\ right' \in [Ranks -> Lengths]
    BY <1>1 DEF Enter, TypeOK
  <2> QED
    BY <1>1, <2>2, <2>4, <2>5 DEF Enter, TypeOK
<1>2. CASE Round(p)
  <2>1. PICK m \in Message : Exchange(p, m)
    BY <1>2, RoundMessage DEF Round
  <2> QED
    BY <1>2, <2>1, ExchangeType DEF Round, TypeOK
<1>3. CASE Match(p)
  <2>1. chan[p] \in Seq(Message) /\ chan[p] # <<>>
    BY <1>3 DEF Match, TypeOK
  <2>2. Head(chan[p]) \in Message /\ Tail(chan[p]) \in Seq(Message)
    BY <2>1
  <2>3. Head(chan[p]).len \in Lengths
    BY <2>2, MessageFields
  <2>4. left' \in [Ranks -> Lengths]
    BY <1>3, <2>3 DEF Match, TypeOK
  <2> QED
    BY <1>3, <2>2, <2>4 DEF Match, TypeOK
<1>4. CASE SendReturns(p)
  BY <1>4 DEF SendReturns, TypeOK
<1>5. CASE SizeDone(p)
  <2>1. Count(right[p]) >= 0
    BY <1>5, CountInt DEF SizeDone, SizeFails, TypeOK
  <2>2. PICK m \in Message : Exchange(p, m)
    BY <1>5, <2>1, SizeMessage DEF SizeDone
  <2> QED
    BY <1>5, <2>2, ExchangeType DEF SizeDone, TypeOK
<1>6. CASE Raise(p)
  BY <1>6 DEF Raise, TypeOK
<1>7. CASE DataDone(p)
  <2>1. Keep(p) /\ i[p] \in 1 .. N /\ i[p] < N
    BY <1>7, Untruncated
  <2>2. Received(p) \in Str
    BY <1>7, Untruncated, ReceivedType
  <2>3. jnext[p] \in Ranks /\ Back(jnext[p]) \in Ranks
    BY Neighbours DEF TypeOK
  <2>4. ary' \in [Ranks -> [Ranks -> Str \cup {None}]]
    <3>1. [ary[p] EXCEPT ![jnext[p]] = Received(p)] \in [Ranks -> Str \cup {None}]
      BY <2>2, <2>3 DEF TypeOK
    <3>2. ary' = [ary EXCEPT ![p] = [ary[p] EXCEPT ![jnext[p]] = Received(p)]]
      BY <2>1 DEF Keep
    <3> QED
      BY <3>1, <3>2 DEF TypeOK
  <2>5. i' \in [Ranks -> 1 .. N]
    <3>1. i[p] + 1 \in 1 .. N
      BY <2>1, RingOk
    <3>2. i' = [i EXCEPT ![p] = i[p] + 1]
      BY <2>1 DEF Keep
    <3> QED
      BY <3>1, <3>2 DEF TypeOK
  <2>6. j' \in [Ranks -> Ranks] /\ jnext' \in [Ranks -> Ranks]
    BY <2>1, <2>3 DEF Keep, TypeOK
  <2> QED
    BY <2>1, <2>4, <2>5, <2>6 DEF Keep, TypeOK
<1>8. CASE Leave(p)
  BY <1>8 DEF Leave, TypeOK
<1> QED
  BY <1>1, <1>2, <1>3, <1>4, <1>5, <1>6, <1>7, <1>8
     DEF Step, RoundRaises, SizeRaises, LoadRaises

-----------------------------------------------------------------------------
(* Where a process is in the call.                                          *)

LEMMA RoundsStep ==
  ASSUME TypeOK, Rounds, Holds, NEW p \in Ranks, Step(p)
  PROVE  Rounds'
<1> DEFINE R(q) == /\ pc[q] \notin {"size", "data"} => ~await[q] /\ ~flying[q]
                   /\ pc[q] \in {"size", "data"} => i[q] < N
                   /\ pc[q] \in {"top", "size", "data"} =>
                        /\ j[q] = Slot(q, i[q]) /\ jnext[q] = Back(j[q])
                        /\ ary[q][j[q]] # None
<1>1. \A q \in Ranks : R(q)
  BY DEF Rounds
<1>2. CASE Enter(p)
  <2>1. Slot(p, 1) = p /\ Dump(p) # None
    BY Slots, RingOk, DumpType, StrFields
  <2>2. R(p)'
    BY <1>1, <1>2, <2>1 DEF Enter, TypeOK
  <2>3. \A q \in Ranks \ {p} : R(q)'
    BY <1>1, <1>2 DEF Enter, TypeOK
  <2> QED
    BY <2>2, <2>3 DEF Rounds
<1>3. CASE Round(p)
  BY <1>1, <1>3 DEF Round, Exchange, Rounds, TypeOK
<1>4. CASE Match(p)
  BY <1>1, <1>4 DEF Match, Rounds, TypeOK
<1>5. CASE SendReturns(p)
  BY <1>1, <1>5 DEF SendReturns, Rounds, TypeOK
<1>6. CASE SizeDone(p)
  BY <1>1, <1>6 DEF SizeDone, Exchange, Rounds, TypeOK
<1>7. CASE Raise(p) /\ ~await[p] /\ ~flying[p]
  BY <1>1, <1>7 DEF Raise, Rounds, TypeOK
<1>8. CASE DataDone(p)
  <2>1. Keep(p) /\ i[p] \in 1 .. N /\ i[p] < N /\ ~flying[p] /\ ~await[p] /\ pc[p] = "data"
    BY <1>8, Untruncated
  <2>2. Received(p) # None
    BY <1>8, Untruncated, ReceivedType
  <2>3. Slot(p, i[p] + 1) = jnext[p]
    BY <1>1, <2>1, Slots
  <2>4. R(p)'
    BY <2>1, <2>2, <2>3 DEF Keep, TypeOK
  <2>5. \A q \in Ranks \ {p} : R(q)'
    BY <1>1, <2>1 DEF Keep, TypeOK
  <2> QED
    BY <2>4, <2>5 DEF Rounds
<1>9. CASE Leave(p)
  BY <1>1, <1>9 DEF Leave, Rounds, TypeOK
<1> QED
  BY <1>1, <1>2, <1>3, <1>4, <1>5, <1>6, <1>7, <1>8, <1>9
     DEF Step, RoundRaises, SizeRaises, LoadRaises, Returned

-----------------------------------------------------------------------------
(* What a step changes of the places of a process.                          *)

LEMMA StepCases ==
  ASSUME NEW p \in Ranks, Step(p)
  PROVE  \/ Enter(p) \/ Round(p) \/ Match(p) \/ SendReturns(p)
         \/ SizeDone(p) \/ DataDone(p) \/ Leave(p)
         \/ Raise(p) /\ pc[p] \in {"top", "size"}
BY DEF Step, RoundRaises, SizeRaises, LoadRaises

LEMMA CallsGrow ==
  ASSUME TypeOK, NEW p \in Ranks, Step(p)
  PROVE  \A k \in Ranks : calls'[k] \in Nat /\ calls[k] \in Nat /\ calls'[k] >= calls[k]
<1>1. CASE Enter(p)
  BY <1>1 DEF Enter, TypeOK
<1>2. CASE calls' = calls
  BY <1>2 DEF TypeOK
<1> QED
  BY <1>1, <1>2 DEF Step, Round, RoundRaises, Match, SendReturns, SizeRaises, SizeDone,
     DataDone, Keep, Leave, LoadRaises, Raise

LEMMA OthersStay ==
  ASSUME TypeOK, NEW p \in Ranks, Step(p), NEW q \in Ranks \ {p}
  PROVE  /\ pc'[q] = pc[q] /\ calls'[q] = calls[q] /\ left'[q] = left[q] /\ right'[q] = right[q]
         /\ await'[q] = await[q] /\ in'[q] = in[q] /\ ary'[q] = ary[q] /\ i'[q] = i[q]
         /\ SendAt(q)' = SendAt(q) /\ RecvAt(q)' = RecvAt(q)
<1>1. /\ pc'[q] = pc[q] /\ calls'[q] = calls[q] /\ left'[q] = left[q] /\ right'[q] = right[q]
      /\ await'[q] = await[q] /\ in'[q] = in[q] /\ ary'[q] = ary[q] /\ i'[q] = i[q]
  BY DEF TypeOK, Step, Enter, Round, RoundRaises, Match, SendReturns, SizeRaises, SizeDone,
     DataDone, Keep, Leave, LoadRaises, Raise, Exchange
<1>2. SendAt(q)' = SendAt(q)
  BY <1>1 DEF SendAt
<1> QED
  BY <1>1, <1>2 DEF RecvAt

\* The first step of a chain.
LEMMA Matched ==
  ASSUME TypeOK, Rounds, Chained, NEW p \in Ranks, Match(p)
  PROVE  /\ N > 1 /\ pc[p] \in {"size", "data"}
         /\ chan[p] # <<>> /\ chan[p] \in Seq(Message) /\ chan[p][1] \in Message
         /\ Chain(p, Back(p), chan[p])
         /\ in' = [in EXCEPT ![p] = chan[p][1]]
         /\ At(chan[p][1]) = Place(calls[p], i[p], pc[p])
         /\ chan[p][1].part = pc[p]
         /\ left'[p] = chan[p][1].len
<1>1. await[p] /\ pc[p] \in {"size", "data"} /\ i[p] < N /\ i[p] \in 1 .. N
  BY DEF Match, Rounds, TypeOK
<1>2. N > 1
  BY <1>1, RingOk
<1>3. Chain(p, Back(p), chan[p])
  BY <1>1, <1>2 DEF Chained
<1>4. /\ chan[p] # <<>> /\ chan[p] \in Seq(Message) /\ chan[p][1] \in Message
      /\ Head(chan[p]) = chan[p][1]
  BY DEF Match, TypeOK
<1>5. At(chan[p][1]) = Place(calls[p], i[p], pc[p])
  BY <1>1, <1>3, <1>4 DEF Chain, Begins, RecvAt
<1>6. chan[p][1].part = pc[p]
  BY <1>5 DEF At, Place
<1>7. left'[p] = chan[p][1].len
  <2>1. CASE pc[p] = "size"
    BY <2>1, <1>4, <1>6 DEF Match, TypeOK
  <2>2. CASE pc[p] = "data"
    BY <2>2, <1>3, <1>4, <1>6 DEF Match, Chain, Begins
  <2> QED
    BY <1>1, <2>1, <2>2
<1> QED
  BY <1>1, <1>2, <1>3, <1>4, <1>5, <1>6, <1>7 DEF Match

LEMMA MatchMoves ==
  ASSUME TypeOK, Rounds, Chained, NEW p \in Ranks, Match(p)
  PROVE  /\ SendAt(p)' = SendAt(p)
         /\ RecvAt(p)' = After(At(chan[p][1]))
<1>1. pc[p] \in {"size", "data"} /\ ~await'[p] /\ UNCHANGED <<calls, pc, i>>
  BY Matched DEF Match, TypeOK
<1>2. SendAt(p)' = SendAt(p)
  BY <1>1 DEF SendAt
<1>3. SendAt(p) = After(Place(calls[p], i[p], pc[p]))
  BY <1>1 DEF SendAt, After, Place
<1> QED
  BY <1>1, <1>2, <1>3, Matched DEF RecvAt

LEMMA SendMoves ==
  ASSUME TypeOK, InPlace, Rounds, Begun, NEW p \in Ranks, Round(p) \/ SizeDone(p)
  PROVE  \E m \in Message :
           /\ Exchange(p, m) /\ Sound(p, m)
           /\ At(m) = SendAt(p) /\ m.len = right[p]
           /\ SendAt(p)' = After(At(m)) /\ RecvAt(p)' = RecvAt(p)
           /\ pc[p] # "raised" /\ UNCHANGED <<calls, left, right>>
<1>1. /\ pc[p] \in {"top", "size"} /\ ~await[p] /\ i[p] < N
      /\ i[p] \in 1 .. N /\ UNCHANGED <<calls, i, left, right>>
      /\ await'[p]
  BY DEF Round, SizeDone, Returned, Exchange, Rounds, TypeOK
<1>2. /\ Passes(p) \in Str /\ Passes(p).of = Slot(p, i[p]) /\ Passes(p).call = calls[p]
      /\ Passes(p).call <= calls[Slot(p, i[p])]
  <2>1. ary[p][j[p]] # None /\ j[p] = Slot(p, i[p]) /\ j[p] \in Ranks
    BY <1>1 DEF Rounds, TypeOK
  <2> QED
    BY <1>1, <2>1, PassesStr DEF InPlace, Begun, Passes
<1>3. CASE Round(p)
  <2> DEFINE m == [part |-> "size", len |-> right[p], str |-> Passes(p), round |-> i[p]]
  <2>1. m \in Message /\ Exchange(p, m) /\ pc[p] = "top" /\ pc'[p] = "size"
    BY <1>3, RoundMessage DEF Round, TypeOK
  <2>2. Sound(p, m)
    BY <1>1, <1>2 DEF Sound
  <2>3. At(m) = SendAt(p)
    BY <1>1, <1>2, <2>1 DEF At, SendAt
  <2>4. SendAt(p)' = After(At(m)) /\ RecvAt(p)' = RecvAt(p)
    BY <1>1, <2>1, <2>3 DEF SendAt, RecvAt, After, Place
  <2> QED
    BY <1>1, <2>1, <2>2, <2>3, <2>4
<1>4. CASE SizeDone(p)
  <2> DEFINE m == [part |-> "data", len |-> right[p],
                   str |-> Copy(Passes(p), SendBytes(p)), round |-> i[p]]
  <2>1. Exchange(p, m) /\ pc[p] = "size" /\ pc'[p] = "data"
    BY <1>4 DEF SizeDone, TypeOK
  <2>2. Count(right[p]) \in Nat
    BY <1>4, CountInt DEF SizeDone, SizeFails, TypeOK
  <2>3. m \in Message
    BY <2>1, <2>2, SizeMessage
  <2>4. Sound(p, m) /\ m.str.call = calls[p]
    BY <1>1, <1>2, <2>2, CopyType DEF Sound, SendBytes
  <2>5. At(m) = SendAt(p)
    BY <1>1, <2>1, <2>4 DEF At, SendAt
  <2>6. SendAt(p)' = After(At(m)) /\ RecvAt(p)' = RecvAt(p)
    BY <1>1, <2>1, <2>5 DEF SendAt, RecvAt, After, Place
  <2> QED
    BY <1>1, <2>1, <2>3, <2>4, <2>5, <2>6
<1> QED
  BY <1>3, <1>4

\* No other step of p that does not raise is seen by its neighbours.
LEMMA QuietMoves ==
  ASSUME TypeOK, Rounds, Holds, N > 1, NEW p \in Ranks,
         Enter(p) \/ SendReturns(p) \/ DataDone(p) \/ Leave(p)
  PROVE  /\ chan' = chan /\ left'[p] = left[p] /\ pc[p] # "raised" /\ pc'[p] # "raised"
         /\ SendAt(p)' = SendAt(p) /\ RecvAt(p)' = RecvAt(p)
         /\ right'[p] = right[p] \/ SendAt(p).part = "size"
<1>1. CASE Enter(p)
  <2>1. pc[p] = "out" /\ pc'[p] = "top" /\ ~await[p] /\ UNCHANGED <<chan, left, await>>
        /\ i'[p] = 1 /\ calls'[p] = calls[p] + 1
    BY <1>1 DEF Enter, Rounds, TypeOK
  <2>2. SendAt(p)' = SendAt(p) /\ SendAt(p).part = "size"
    BY <2>1 DEF SendAt, Place
  <2> QED
    BY <2>1, <2>2 DEF RecvAt
<1>2. CASE SendReturns(p)
  <2>1. UNCHANGED <<chan, calls, pc, i, left, right, await>> /\ pc[p] # "raised"
    BY <1>2 DEF SendReturns, Rounds
  <2> QED
    BY <2>1 DEF SendAt, RecvAt
<1>3. CASE DataDone(p)
  <2>1. /\ pc[p] = "data" /\ pc'[p] = "top" /\ ~await[p] /\ i[p] \in 1 .. N
        /\ i'[p] = i[p] + 1 /\ UNCHANGED <<chan, calls, left, right, await>>
    BY <1>3, Untruncated DEF Keep, TypeOK
  <2>2. SendAt(p)' = SendAt(p)
    BY <2>1 DEF SendAt, After, Place
  <2> QED
    BY <2>1, <2>2 DEF RecvAt
<1>4. CASE Leave(p)
  <2>1. /\ pc[p] = "top" /\ pc'[p] = "out" /\ ~await[p] /\ i[p] = N
        /\ UNCHANGED <<chan, calls, i, left, right, await>>
    BY <1>4 DEF Leave, Rounds, TypeOK
  <2>2. SendAt(p)' = SendAt(p)
    BY <2>1, RingOk DEF SendAt
  <2> QED
    BY <2>1, <2>2 DEF RecvAt
<1> QED
  BY <1>1, <1>2, <1>3, <1>4

-----------------------------------------------------------------------------
(* The messages between two neighbours.                                     *)

LEMMA SoundStays ==
  ASSUME TypeOK, NEW p \in Ranks, Step(p), NEW q \in Ranks, NEW m \in Message, Sound(q, m)
  PROVE  Sound(q, m)'
<1>1. m.str.of \in Ranks /\ m.str.call \in Nat
  BY MessageFields, StrFields
<1>2. m.str.call <= calls'[m.str.of]
  BY <1>1, CallsGrow DEF Sound
<1> QED
  BY <1>2 DEF Sound

LEMMA AllSoundStay ==
  ASSUME TypeOK, NEW s \in Ranks, Step(s), NEW q \in Ranks, NEW c \in Seq(Message),
         \A k \in 1 .. Len(c) : Sound(q, c[k])
  PROVE  \A k \in 1 .. Len(c) : Sound(q, c[k])'
<1> SUFFICES ASSUME NEW k \in 1 .. Len(c) PROVE Sound(q, c[k])'
  OBVIOUS
<1>1. c[k] \in Message /\ Sound(q, c[k])
  OBVIOUS
<1>2. PICK m \in Message : m = c[k] /\ Sound(q, m)
  BY <1>1
<1>3. Sound(q, m)'
  BY <1>2, SoundStays
<1> QED
  BY <1>2, <1>3

\* A place for the data follows only one for the size.
LEMMA AfterPart ==
  ASSUME NEW m \in Message
  PROVE  /\ At(m).part = m.part
         /\ After(At(m)).part = IF m.part = "size" THEN "data" ELSE "size"
BY MessageFields DEF At, After, Place

\* The channel of two neighbours neither of which moves along it.
LEMMA ChainSame ==
  ASSUME TypeOK, NEW s \in Ranks, Step(s), NEW p \in Ranks, NEW q \in Ranks,
         Chain(p, q, chan[p]), chan'[p] = chan[p],
         RecvAt(p)' = RecvAt(p), left'[p] = left[p],
         pc'[q] # "raised" =>
           /\ pc[q] # "raised" /\ SendAt(q)' = SendAt(q)
           /\ right'[q] = right[q] \/ SendAt(q).part = "size"
  PROVE  Chain(p, q, chan[p])'
<1>1. PICK c \in Seq(Message) : c = chan[p] /\ c = chan'[p]
  BY DEF TypeOK
<1>2. \A k \in 1 .. Len(c) : Sound(q, c[k])'
  BY <1>1, AllSoundStay DEF Chain
<1>3. Consecutive(c)'
  BY <1>1 DEF Chain, Consecutive
<1>4. Begins(p, c)'
  BY <1>1 DEF Chain, Begins
<1>5. Ends(p, q, c)'
  <2> SUFFICES ASSUME pc'[q] # "raised" PROVE Ends(p, q, c)'
    BY DEF Ends
  <2>1. CASE right'[q] = right[q]
    BY <1>1, <2>1 DEF Chain, Ends
  <2>2. CASE SendAt(q).part = "size" /\ c = <<>>
    BY <1>1, <2>2 DEF Chain, Ends
  <2>3. CASE SendAt(q).part = "size" /\ c # <<>>
    <3>1. c[Len(c)] \in Message
      BY <2>3
    <3>2. SendAt(q) = After(At(c[Len(c)]))
      BY <1>1, <2>3 DEF Chain, Ends
    <3>3. c[Len(c)].part # "size"
      BY <2>3, <3>1, <3>2, AfterPart
    <3> QED
      BY <2>3, <3>2, <3>3 DEF Ends
  <2> QED
    BY <2>1, <2>2, <2>3
<1> QED
  BY <1>1, <1>2, <1>3, <1>4, <1>5 DEF Chain

\* q sends.
LEMMA ChainAppend ==
  ASSUME TypeOK, NEW p \in Ranks, NEW q \in Ranks, Step(q), NEW m \in Message,
         Chain(p, q, chan[p]), chan'[p] = Append(chan[p], m),
         RecvAt(p)' = RecvAt(p), left'[p] = left[p], right'[q] = right[q],
         pc[q] # "raised", Sound(q, m), At(m) = SendAt(q), m.len = right[q],
         SendAt(q)' = After(At(m))
  PROVE  Chain(p, q, chan[p])'
<1>1. PICK c \in Seq(Message), d \in Seq(Message) :
        c = chan[p] /\ d = Append(c, m) /\ d = chan'[p]
  <2>1. chan[p] \in Seq(Message)
    BY DEF TypeOK
  <2> QED
    BY <2>1, AppendProperties
<1>2. /\ Len(c) \in Nat /\ (c # <<>> <=> Len(c) > 0)
      /\ Len(d) = Len(c) + 1 /\ d # <<>> /\ d[Len(d)] = m
      /\ \A k \in 1 .. Len(c) : d[k] = c[k]
  BY <1>1
<1>3. \A k \in 1 .. Len(d) : Sound(q, d[k])'
  <2>1. \A k \in 1 .. Len(d) : Sound(q, d[k])
    BY <1>1, <1>2 DEF Chain
  <2> QED
    BY <2>1, AllSoundStay
<1>4. Consecutive(d)'
  <2> SUFFICES ASSUME NEW k \in 1 .. Len(d) - 1
               PROVE  /\ At(d[k + 1]) = After(At(d[k]))
                      /\ d[k].part = "size" => d[k + 1].len = d[k].len
    BY DEF Consecutive, At, After, Place
  <2>1. CASE k < Len(c)
    <3>1. d[k] = c[k] /\ d[k + 1] = c[k + 1] /\ k \in 1 .. Len(c) - 1
      BY <2>1, <1>2
    <3> QED
      BY <3>1, <1>1 DEF Chain, Consecutive
  <2>2. CASE k = Len(c)
    <3>1. d[k] = c[Len(c)] /\ d[k + 1] = m /\ c # <<>>
      BY <2>2, <1>2
    <3> QED
      BY <3>1, <1>1 DEF Chain, Ends
  <2> QED
    BY <2>1, <2>2, <1>2
<1>5. Begins(p, d)'
  <2>1. CASE c = <<>>
    <3>1. d[1] = m /\ SendAt(q) = RecvAt(p) /\ (RecvAt(p).part = "data" => right[q] = left[p])
      BY <2>1, <1>1, <1>2 DEF Chain, Ends
    <3>2. m.part = RecvAt(p).part
      BY <3>1, AfterPart
    <3> QED
      BY <3>1, <3>2 DEF Begins, At, Place
  <2>2. CASE c # <<>>
    <3>1. d[1] = c[1]
      BY <2>2, <1>2
    <3> QED
      BY <3>1, <2>2, <1>1 DEF Chain, Begins, At, Place
  <2> QED
    BY <2>1, <2>2
<1>6. Ends(p, q, d)'
  BY <1>2 DEF Ends, At, After, Place
<1> QED
  BY <1>1, <1>3, <1>4, <1>5, <1>6 DEF Chain

\* p receives.
LEMMA ChainTail ==
  ASSUME TypeOK, NEW p \in Ranks, NEW q \in Ranks, Step(p),
         Chain(p, q, chan[p]), chan[p] # <<>>, chan'[p] = Tail(chan[p]),
         RecvAt(p)' = After(At(chan[p][1])), left'[p] = chan[p][1].len,
         right'[q] = right[q], pc'[q] = pc[q], SendAt(q)' = SendAt(q)
  PROVE  Chain(p, q, chan[p])'
<1>1. PICK c \in Seq(Message), d \in Seq(Message) :
        c = chan[p] /\ d = Tail(c) /\ d = chan'[p]
  <2>1. chan[p] \in Seq(Message)
    BY DEF TypeOK
  <2> QED
    BY <2>1, HeadTailProperties
<1>2. /\ Len(c) \in Nat \ {0} /\ Len(d) = Len(c) - 1 /\ (d = <<>> <=> Len(c) = 1)
      /\ \A k \in 1 .. Len(d) : d[k] = c[k + 1]
      /\ c[1] \in Message
  <2>1. Len(c) \in Nat \ {0} /\ c # <<>>
    BY <1>1, EmptySeq
  <2>2. Len(d) = Len(c) - 1 /\ \A k \in 1 .. Len(d) : d[k] = c[k + 1]
    BY <1>1, <2>1, HeadTailProperties
  <2>3. d = <<>> <=> Len(d) = 0
    BY EmptySeq
  <2> QED
    BY <2>1, <2>2, <2>3
<1>3. \A k \in 1 .. Len(d) : Sound(q, d[k])'
  <2>1. \A k \in 1 .. Len(d) : d[k] = c[k + 1] /\ k + 1 \in 1 .. Len(c)
    BY <1>2
  <2>2. \A k \in 1 .. Len(d) : Sound(q, d[k])
    BY <1>1, <2>1 DEF Chain
  <2> QED
    BY <2>2, AllSoundStay
<1>4. Consecutive(d)'
  <2> SUFFICES ASSUME NEW k \in 1 .. Len(d) - 1
               PROVE  /\ At(d[k + 1]) = After(At(d[k]))
                      /\ d[k].part = "size" => d[k + 1].len = d[k].len
    BY DEF Consecutive, At, After, Place
  <2>1. d[k] = c[k + 1] /\ d[k + 1] = c[k + 1 + 1] /\ k + 1 \in 1 .. Len(c) - 1
    <3>1. k \in 1 .. Len(d) /\ k + 1 \in 1 .. Len(d) /\ k + 1 \in 1 .. Len(c) - 1
      BY <1>2
    <3> QED
      BY <3>1, <1>2
  <2> QED
    BY <2>1, <1>1 DEF Chain, Consecutive
<1>5. c[1].part = "size" <=> After(At(c[1])).part = "data"
  BY <1>2, AfterPart
<1>6. Begins(p, d)'
  <2> SUFFICES ASSUME d # <<>> PROVE Begins(p, d)'
    BY DEF Begins
  <2>1. d[1] = c[2] /\ 1 \in 1 .. Len(c) - 1 /\ d[1] \in Message
    BY <1>2
  <2>2. At(c[2]) = After(At(c[1])) /\ (c[1].part = "size" => c[2].len = c[1].len)
    BY <2>1, <1>1 DEF Chain, Consecutive
  <2>3. d[1].part = "data" => c[1].part = "size"
    BY <2>1, <2>2, <1>5, AfterPart
  <2> QED
    BY <2>1, <2>2, <2>3, <1>1 DEF Begins, At, Place
<1>7. Ends(p, q, d)'
  <2>1. CASE d = <<>>
    BY <2>1, <1>1, <1>2, <1>5 DEF Chain, Ends
  <2>2. CASE d # <<>>
    <3>1. d[Len(d)] = c[Len(c)] /\ c # <<>>
      BY <2>2, <1>2
    <3> QED
      BY <3>1, <2>2, <1>1 DEF Chain, Ends, At, After, Place
  <2> QED
    BY <2>1, <2>2
<1> QED
  BY <1>1, <1>3, <1>4, <1>6, <1>7 DEF Chain

LEMMA ChainedStep ==
  ASSUME IInv, NEW s \in Ranks, Step(s)
  PROVE  Chained'
<1> SUFFICES ASSUME N > 1, NEW p \in Ranks, pc'[p] # "raised"
             PROVE  Chain(p, Back(p), chan[p])'
  BY DEF Chained
<1>1. PICK q \in Ranks : q = Back(p)
  BY Neighbours
<1>2. q # p /\ Ahead(q) = p
  BY <1>1, TwoNeighbours, RingInverse
<1>3. pc[p] # "raised"
  <2>1. CASE s = p
    <3>1. pc[p] = "raised" => ~await[p] /\ ~flying[p]
      BY DEF IInv, Rounds
    <3> QED
      BY <2>1, <3>1, StepCases DEF Enter, Round, Match, SendReturns, SizeDone, DataDone, Leave
  <2> QED
    BY <2>1, OthersStay DEF IInv
<1>4. Chain(p, q, chan[p])
  BY <1>1, <1>3 DEF IInv, Chained
<1>5. \A m : Exchange(s, m) /\ s # q => chan'[p] = chan[p]
  BY <1>1, AheadBack, Neighbours DEF Exchange, IInv, TypeOK
<1>6. CASE s = p
  <2>1. /\ pc'[q] = pc[q] /\ right'[q] = right[q] /\ SendAt(q)' = SendAt(q)
    BY <1>2, <1>6, OthersStay DEF IInv
  <2>2. CASE Match(p)
    <3>1. /\ chan[p] # <<>> /\ left'[p] = chan[p][1].len
          /\ RecvAt(p)' = After(At(chan[p][1]))
      BY <2>2, Matched, MatchMoves DEF IInv
    <3>2. chan'[p] = Tail(chan[p])
      BY <2>2 DEF Match, IInv, TypeOK
    <3> QED
      BY <1>1, <1>4, <1>6, <2>1, <3>1, <3>2, ChainTail DEF IInv
  <2>3. CASE Round(p) \/ SizeDone(p)
    <3>1. RecvAt(p)' = RecvAt(p) /\ left'[p] = left[p] /\ chan'[p] = chan[p]
      BY <1>2, <1>5, <1>6, <2>3, SendMoves DEF IInv
    <3> QED
      BY <1>1, <1>4, <2>1, <3>1, ChainSame DEF IInv
  <2>4. CASE Enter(p) \/ SendReturns(p) \/ DataDone(p) \/ Leave(p)
    <3>1. RecvAt(p)' = RecvAt(p) /\ left'[p] = left[p] /\ chan'[p] = chan[p]
      BY <2>4, QuietMoves DEF IInv
    <3> QED
      BY <1>1, <1>4, <2>1, <3>1, ChainSame DEF IInv
  <2>5. ~Raise(p)
    BY DEF Raise, IInv, TypeOK
  <2> QED
    BY <1>6, <2>2, <2>3, <2>4, <2>5, StepCases
<1>7. CASE s = q
  <2>1. RecvAt(p)' = RecvAt(p) /\ left'[p] = left[p]
    BY <1>2, <1>7, OthersStay DEF IInv
  <2>2. CASE Round(q) \/ SizeDone(q)
    <3>1. PICK m \in Message :
            /\ Exchange(q, m) /\ Sound(q, m)
            /\ At(m) = SendAt(q) /\ m.len = right[q]
            /\ SendAt(q)' = After(At(m))
            /\ pc[q] # "raised" /\ UNCHANGED right
      BY <2>2, SendMoves DEF IInv
    <3>2. chan'[p] = Append(chan[p], m)
      BY <3>1, <1>2 DEF Exchange, IInv, TypeOK
    <3> QED
      BY <1>1, <1>4, <1>7, <2>1, <3>1, <3>2, ChainAppend DEF IInv
  <2>3. CASE Match(q)
    <3>1. /\ chan'[p] = chan[p] /\ pc[q] # "raised" /\ right' = right
          /\ SendAt(q)' = SendAt(q)
      BY <1>2, <2>3, Matched, MatchMoves DEF Match, IInv, TypeOK
    <3> QED
      BY <1>1, <1>4, <2>1, <3>1, ChainSame DEF IInv
  <2>4. CASE Enter(q) \/ SendReturns(q) \/ DataDone(q) \/ Leave(q)
    <3>1. /\ chan'[p] = chan[p] /\ pc[q] # "raised" /\ SendAt(q)' = SendAt(q)
          /\ right'[q] = right[q] \/ SendAt(q).part = "size"
      BY <2>4, QuietMoves DEF IInv
    <3> QED
      BY <1>1, <1>4, <2>1, <3>1, ChainSame DEF IInv
  <2>5. CASE Raise(q)
    <3>1. chan'[p] = chan[p] /\ pc'[q] = "raised"
      BY <2>5 DEF Raise, IInv, TypeOK
    <3> QED
      BY <1>1, <1>4, <2>1, <3>1, ChainSame DEF IInv
  <2> QED
    BY <1>7, <2>2, <2>3, <2>4, <2>5, StepCases
<1>8. CASE s # p /\ s # q
  <2>1. /\ RecvAt(p)' = RecvAt(p) /\ left'[p] = left[p]
        /\ pc'[q] = pc[q] /\ right'[q] = right[q] /\ SendAt(q)' = SendAt(q)
    BY <1>8, OthersStay DEF IInv
  <2>2. chan'[p] = chan[p]
    <3>1. CASE Round(s) \/ SizeDone(s)
      BY <3>1, <1>5, <1>8 DEF Round, SizeDone
    <3>2. CASE Match(s)
      BY <3>2, <1>8 DEF Match, IInv, TypeOK
    <3>3. CASE chan' = chan
      BY <3>3
    <3> QED
      BY <3>1, <3>2, <3>3, StepCases
         DEF Enter, SendReturns, DataDone, Keep, Leave, Raise
  <2> QED
    BY <1>1, <1>4, <2>1, <2>2, ChainSame DEF IInv
<1> QED
  BY <1>6, <1>7, <1>8

LEMMA HoldsStep ==
  ASSUME IInv, NEW s \in Ranks, Step(s)
  PROVE  Holds'
<1> SUFFICES ASSUME NEW p \in Ranks, pc'[p] \in {"size", "data"}, ~await'[p]
             PROVE  (/\ in[p] # None
                     /\ Sound(Back(p), in[p])
                     /\ At(in[p]) = Place(calls[p], i[p], pc[p])
                     /\ in[p].len = left[p])'
  BY DEF Holds
<1>1. Back(p) \in Ranks
  BY Neighbours
<1>2. CASE Match(s) /\ s = p
  <2>1. PICK m \in Message : m = chan[p][1]
    BY <1>2, Matched DEF IInv
  <2>2. in'[p] = m /\ m # None /\ UNCHANGED <<calls, i, pc>>
    BY <1>2, <2>1, Matched, MessageFields DEF Match, IInv, TypeOK
  <2>3. Sound(Back(p), m)
    <3>1. 1 \in 1 .. Len(chan[p])
      BY <1>2, Matched, EmptySeq DEF IInv
    <3> QED
      BY <1>2, <2>1, <3>1, Matched DEF Chain, IInv
  <2>4. Sound(Back(p), m)'
    BY <1>1, <2>3, SoundStays DEF IInv
  <2> QED
    BY <1>2, <2>1, <2>2, <2>4, Matched DEF IInv, Sound, At
<1>3. CASE ~(Match(s) /\ s = p)
  <2>1. /\ UNCHANGED <<in[p], calls[p], i[p], pc[p], left[p], await[p]>>
    <3>1. CASE s = p
      BY <1>3, <3>1, StepCases DEF IInv, TypeOK, Enter, Round, SendReturns, SizeDone,
         DataDone, Keep, Leave, Raise, Exchange
    <3>2. CASE s # p
      BY <3>2, OthersStay DEF IInv
    <3> QED
      BY <3>1, <3>2
  <2>2. /\ in[p] # None /\ Sound(Back(p), in[p])
        /\ At(in[p]) = Place(calls[p], i[p], pc[p]) /\ in[p].len = left[p]
    BY <2>1 DEF IInv, Holds
  <2>3. PICK m \in Message : m = in[p]
    BY <2>2 DEF IInv, TypeOK
  <2>4. Sound(Back(p), m)'
    BY <1>1, <2>2, <2>3, SoundStays DEF IInv
  <2> QED
    BY <2>1, <2>2, <2>3, <2>4 DEF Sound, At
<1> QED
  BY <1>2, <1>3

-----------------------------------------------------------------------------
(* What the slots hold, and who has met whom.                               *)

LEMMA PlaceStep ==
  ASSUME IInv, NEW s \in Ranks, Step(s)
  PROVE  InPlace' /\ Begun'
<1>1. CASE Enter(s)
  <2>1. Dump(s).of = s /\ Dump(s).call = calls'[s] /\ calls'[s] \in Nat
    BY <1>1, DumpType DEF Enter, IInv, TypeOK
  <2>2. \A k \in Ranks : ary'[s][k] = IF k = s THEN Dump(s) ELSE None
    BY <1>1 DEF Enter, IInv, TypeOK
  <2>3. \A p \in Ranks \ {s} : ary'[p] = ary[p] /\ calls'[p] = calls[p]
    BY <1>1 DEF Enter, IInv, TypeOK
  <2>4. InPlace'
    BY <2>1, <2>2, <2>3 DEF InPlace, IInv
  <2>5. Begun'
    <3> SUFFICES ASSUME NEW p \in Ranks, NEW k \in Ranks, ary'[p][k] # None
                 PROVE  ary'[p][k].call <= calls'[k]
      BY DEF Begun
    <3>1. CASE p = s
      BY <3>1, <2>1, <2>2
    <3>2. CASE p # s
      <4>1. ary[p][k].call <= calls[k] /\ ary[p][k].call \in Nat
        BY <3>2, <2>3, StrFields DEF IInv, Begun, TypeOK
      <4>2. calls'[k] >= calls[k] /\ calls'[k] \in Nat /\ calls[k] \in Nat
        BY CallsGrow DEF IInv
      <4> QED
        BY <3>2, <2>3, <4>1, <4>2
    <3> QED
      BY <3>1, <3>2
  <2> QED
    BY <2>4, <2>5
<1>2. CASE DataDone(s)
  <2>1. /\ Keep(s) /\ in[s] # None /\ i[s] \in 1 .. N /\ pc[s] = "data" /\ ~await[s]
        /\ Received(s).of = in[s].str.of /\ Received(s).call = in[s].str.call
    BY <1>2, Untruncated, ReceivedType DEF IInv
  <2>2. Sound(Back(s), in[s]) /\ in[s].str.call = calls[s] /\ in[s].round = i[s]
    BY <2>1 DEF IInv, Holds, At, Place
  <2>3. in[s].str.of = jnext[s]
    BY <2>1, <2>2, Slots DEF Sound, IInv, Rounds
  <2>4. /\ Received(s).of = jnext[s] /\ Received(s).call = calls[s]
        /\ Received(s).call <= calls[jnext[s]]
    BY <2>1, <2>2, <2>3 DEF Sound
  <2>5. /\ UNCHANGED calls
        /\ \A p, k \in Ranks :
             ary'[p][k] = IF p = s /\ k = jnext[s] THEN Received(s) ELSE ary[p][k]
    BY <2>1 DEF Keep, IInv, TypeOK
  <2> QED
    BY <2>4, <2>5 DEF InPlace, Begun, IInv
<1>3. CASE UNCHANGED <<ary, calls>>
  BY <1>3 DEF InPlace, Begun, IInv
<1> QED
  BY <1>1, <1>2, <1>3, StepCases
     DEF Round, Match, SendReturns, SizeDone, Leave, Raise

LEMMA MeetsStep ==
  ASSUME IInv, NEW s \in Ranks, Step(s)
  PROVE  Meets'
<1> SUFFICES ASSUME NEW p \in Ranks, NEW q \in Ranks, pc'[p] = "out"
             PROVE  calls'[q] >= calls'[p]
  BY DEF Meets
<1>1. calls[q] \in Nat /\ calls'[q] \in Nat /\ calls'[q] >= calls[q] /\ calls[p] \in Nat
  BY CallsGrow DEF IInv
<1>2. CASE Leave(s) /\ s = p
  <2>1. ary[p][q] # None /\ UNCHANGED calls
    BY <1>2 DEF Leave, Loadable
  <2>2. ary[p][q].call = calls[p] /\ ary[p][q].call <= calls[q]
    BY <2>1 DEF IInv, InPlace, Begun
  <2> QED
    BY <2>1, <2>2, <1>1
<1>3. CASE ~(Leave(s) /\ s = p)
  <2>1. pc[p] = "out" /\ calls'[p] = calls[p]
    <3>1. CASE s = p
      BY <1>3, <3>1, StepCases DEF IInv, TypeOK, Enter, Round, Match, SendReturns, SizeDone,
         DataDone, Keep, Leave, Raise, Rounds
    <3>2. CASE s # p
      BY <3>2, OthersStay DEF IInv
    <3> QED
      BY <3>1, <3>2
  <2>2. calls[q] >= calls[p]
    BY <2>1 DEF IInv, Meets
  <2> QED
    BY <1>1, <2>1, <2>2
<1> QED
  BY <1>2, <1>3

-----------------------------------------------------------------------------
LEMMA InitInv == Init => IInv
<1> SUFFICES ASSUME Init PROVE IInv
  OBVIOUS
<1>1. TypeOK
  BY InitType
<1>2. InPlace /\ Rounds /\ Begun /\ Meets /\ Holds
  BY DEF Init, InPlace, Rounds, Begun, Meets, Holds
<1>3. Chained
  <2> SUFFICES ASSUME NEW p \in Ranks PROVE Chain(p, Back(p), chan[p])
    BY DEF Chained
  <2>1. /\ chan[p] = <<>> /\ Back(p) \in Ranks /\ Len(chan[p]) = 0
    BY Neighbours, EmptySeq DEF Init
  <2>2. SendAt(Back(p)) = Place(1, 1, "size") /\ RecvAt(p) = Place(1, 1, "size")
    BY <2>1 DEF Init, SendAt, RecvAt
  <2>3. Ends(p, Back(p), chan[p])
    BY <2>1, <2>2 DEF Ends, Place
  <2> QED
    BY <2>1, <2>3 DEF Chain, Consecutive, Begins
<1> QED
  BY <1>1, <1>2, <1>3 DEF IInv

LEMMA StutterInv == IInv /\ UNCHANGED vars => IInv'
<1> SUFFICES ASSUME IInv, UNCHANGED vars PROVE IInv'
  OBVIOUS
<1>1. UNCHANGED <<chan, calls, pc, i, j, jnext, ary, right, left, in, flying, await>>
  BY DEF vars
<1>2. TypeOK' /\ InPlace' /\ Begun' /\ Meets' /\ Rounds'
  BY <1>1 DEF IInv, TypeOK, InPlace, Begun, Meets, Rounds
<1>3. \A q, m : Sound(q, m)' <=> Sound(q, m)
  BY <1>1 DEF Sound
<1>4. \A p : SendAt(p)' = SendAt(p) /\ RecvAt(p)' = RecvAt(p)
  BY <1>1 DEF SendAt, RecvAt
<1>5. Holds'
  BY <1>1, <1>3 DEF IInv, Holds, Sound, At
<1>6. Chained'
  BY <1>1, <1>3, <1>4 DEF IInv, Chained, Chain, Consecutive, Begins, Ends, Sound, At, After, Place
<1> QED
  BY <1>2, <1>5, <1>6 DEF IInv

LEMMA NextInv == IInv /\ [Next]_vars => IInv'
<1> SUFFICES ASSUME IInv, Next PROVE IInv'
  BY StutterInv
<1>1. PICK s \in Ranks : Step(s)
  BY DEF Next
<1>2. TypeOK' /\ Rounds'
  BY <1>1, TypeStep, RoundsStep DEF IInv
<1>3. InPlace' /\ Begun' /\ Meets' /\ Holds' /\ Chained'
  BY <1>1, PlaceStep, MeetsStep, HoldsStep, ChainedStep
<1> QED
  BY <1>2, <1>3 DEF IInv

\* The invariant of the ring, for any number of processes and calls.
THEOREM SpecInv == Spec => []IInv
BY InitInv, NextInv, PTL DEF Spec

\* Whatever length_right holds and however far ahead a neighbour is, slot k
\* only ever holds what rank k contributed to this call.
THEOREM SpecInPlace == Spec => []InPlace
<1>1. IInv => InPlace
  BY DEF IInv
<1> QED
  BY SpecInv, <1>1, PTL

\* A receive for a length takes a length and a receive for bytes the bytes it
\* announced: with one tag for everything, no message is ever truncated.
THEOREM SpecFramed == Spec => []Framed
<1>1. IInv => Framed
  BY DEF IInv, Holds, Framed, At, Place, Sound
<1> QED
  BY SpecInv, <1>1, PTL

\* No process leaves a call before all the others have entered it.
THEOREM SpecMeets == Spec => []Meets
<1>1. IInv => Meets
  BY DEF IInv
<1> QED
  BY SpecInv, <1>1, PTL

-----------------------------------------------------------------------------
(* The ring implements a collective call that collects everywhere.          *)

\* Calls are numbered from one up to the bound.
Numbered == \A p \in Ranks : calls[p] <= MaxCalls /\ (pc[p] # "out" => calls[p] > 0)

\* The state of a process at the abstract level.
State(p) == IF pc[p] \in {"out", "raised"} THEN pc[p] ELSE "in"

LEMMA NumberedStep == IInv /\ Numbered /\ [Next]_vars => Numbered'
<1> SUFFICES ASSUME IInv, Numbered, [Next]_vars PROVE Numbered'
  OBVIOUS
<1>1. CASE UNCHANGED vars
  BY <1>1 DEF Numbered, vars
<1>2. ASSUME NEW p \in Ranks, Step(p) PROVE Numbered'
  <2>1. CASE Enter(p)
    <3>1. calls[p] \in Nat /\ MaxCalls \in Nat /\ calls[p] < MaxCalls
          /\ calls' = [calls EXCEPT ![p] = @ + 1] /\ pc' = [pc EXCEPT ![p] = "top"]
      BY <2>1, RingOk DEF Enter, IInv, TypeOK
    <3> QED
      BY <3>1 DEF Numbered, IInv, TypeOK
  <2>2. CASE DataDone(p)
    <3>1. calls' = calls /\ pc[p] # "out"
      BY <2>2, Untruncated DEF IInv, Keep
    <3> QED
      BY <1>2, <3>1, OthersStay DEF IInv, Numbered
  <2>3. CASE Round(p) \/ Match(p) \/ SendReturns(p) \/ SizeDone(p) \/ Leave(p)
             \/ (Raise(p) /\ pc[p] \in {"top", "size"})
    <3>1. calls' = calls /\ pc[p] # "out"
      BY <2>3 DEF IInv, Rounds, Round, Match, SendReturns, SizeDone, Leave, Raise
    <3> QED
      BY <1>2, <3>1, OthersStay DEF IInv, Numbered
  <2> QED
    BY <1>2, <2>1, <2>2, <2>3, StepCases
<1> QED
  BY <1>1, <1>2 DEF Next

\* The other processes look the same at the abstract level.
LEMMA OthersLook ==
  ASSUME TypeOK, NEW p \in Ranks, Step(p), NEW q \in Ranks \ {p}
  PROVE  State(q)' = State(q) /\ Gotten(q)' = Gotten(q)
<1>1. pc'[q] = pc[q] /\ calls'[q] = calls[q] /\ ary'[q] = ary[q]
  BY OthersStay
<1> QED
  BY <1>1 DEF State, Gotten, Loadable

\* What a process leaves a call with.
LEMMA GottenOnLeave ==
  ASSUME IInv, Numbered, NEW p \in Ranks, Leave(p)
  PROVE  /\ Gotten(p)' = [k \in Ranks |-> [of |-> k, call |-> calls[p]]]
         /\ \A q \in Ranks : calls[q] >= calls[p]
<1>1. /\ pc' = [pc EXCEPT ![p] = "out"] /\ UNCHANGED <<calls, ary>>
      /\ \A k \in Ranks : Loadable(ary[p][k])
  BY DEF Leave
<1>2. \A k \in Ranks : ary[p][k] # None /\ ary[p][k].of = k /\ ary[p][k].call = calls[p]
  BY <1>1 DEF Loadable, IInv, InPlace
<1>3. \A q \in Ranks : calls[q] >= calls[p]
  BY <1>2 DEF IInv, Begun, TypeOK
<1>4. calls[p] > 0
  BY DEF Leave, Numbered
<1>5. pc'[p] = "out"
  BY <1>1 DEF IInv, TypeOK
<1> QED
  BY <1>1, <1>2, <1>3, <1>4, <1>5 DEF Gotten, Loadable

\* A step in which p begins a call, returns, or raises, and any other.
LEMMA StepLooks ==
  ASSUME IInv, Numbered, NEW p \in Ranks, Step(p)
  PROVE  \/ /\ State(p) = "out" /\ State(p)' = "in" /\ Gotten(p)' = None
            /\ calls' = [calls EXCEPT ![p] = @ + 1]
         \/ /\ State(p) = "in" /\ State(p)' = "out" /\ UNCHANGED calls
            /\ Gotten(p)' = [k \in Ranks |-> [of |-> k, call |-> calls[p]]]
            /\ \A q \in Ranks : calls[q] >= calls[p]
         \/ /\ State(p) = "in" /\ State(p)' = "raised" /\ UNCHANGED calls
            /\ Gotten(p)' = None /\ Gotten(p) = None
         \/ State(p)' = State(p) /\ Gotten(p)' = Gotten(p) /\ UNCHANGED calls
<1>1. pc \in [Ranks -> {"out", "top", "size", "data", "raised"}]
  BY DEF IInv, TypeOK
<1>2. CASE Enter(p)
  <2>1. pc[p] = "out" /\ pc'[p] = "top" /\ calls' = [calls EXCEPT ![p] = @ + 1]
    BY <1>1, <1>2 DEF Enter
  <2> QED
    BY <2>1 DEF State, Gotten
<1>3. CASE Leave(p)
  <2>1. pc[p] = "top" /\ pc'[p] = "out" /\ UNCHANGED calls
    BY <1>1, <1>3 DEF Leave
  <2> QED
    BY <1>3, <2>1, GottenOnLeave DEF State
<1>4. CASE Raise(p) /\ pc[p] \in {"top", "size"}
  <2>1. pc'[p] = "raised" /\ UNCHANGED calls
    BY <1>1, <1>4 DEF Raise
  <2> QED
    BY <1>4, <2>1 DEF State, Gotten
<1>5. CASE Round(p) \/ Match(p) \/ SendReturns(p) \/ SizeDone(p) \/ DataDone(p)
  <2>1. pc[p] \in {"top", "size", "data"} /\ pc'[p] \in {"top", "size", "data"} /\ UNCHANGED calls
    BY <1>1, <1>5, Untruncated
       DEF IInv, Rounds, Round, Match, SendReturns, SizeDone, Keep
  <2> QED
    BY <2>1 DEF State, Gotten
<1> QED
  BY <1>2, <1>3, <1>4, <1>5, StepCases

LEMMA StepRefines ==
  IInv /\ Numbered /\ Numbered' /\ [Next]_vars
    => [Abstract!CollectiveNext]_(Abstract!collectiveVars)
<1> SUFFICES ASSUME IInv, Numbered, Numbered', [Next]_vars
             PROVE  [Abstract!CollectiveNext]_(Abstract!collectiveVars)
  OBVIOUS
<1> DEFINE states == [q \in Ranks |-> State(q)]
           results == [q \in Ranks |-> Gotten(q)]
<1>1. CASE UNCHANGED vars
  <2>1. UNCHANGED <<pc, calls, ary>>
    BY <1>1 DEF vars
  <2> QED
    BY <2>1 DEF Abstract!collectiveVars, Gotten, Loadable
<1>2. ASSUME NEW p \in Ranks, Step(p)
      PROVE  \/ Abstract!Begin(p) \/ Abstract!Finish(p) \/ Abstract!Fail(p)
             \/ UNCHANGED Abstract!collectiveVars
  <2>1. \A s, r : /\ State(p)' = s => states' = [states EXCEPT ![p] = s]
                  /\ Gotten(p)' = r => results' = [results EXCEPT ![p] = r]
    BY <1>2, OthersLook DEF IInv
  <2>2. /\ State(p)' = State(p) => states' = states
        /\ Gotten(p)' = Gotten(p) => results' = results
    BY <1>2, OthersLook DEF IInv
  <2>3. calls[p] \in Nat /\ MaxCalls \in Nat
    BY RingOk DEF IInv, TypeOK
  <2> DEFINE cs == [q \in Ranks |-> 1 .. MaxCalls]
  <2>4. CASE /\ State(p) = "out" /\ State(p)' = "in" /\ Gotten(p)' = None
             /\ calls' = [calls EXCEPT ![p] = @ + 1]
    <3>1. states[p] = "out" /\ states' = [states EXCEPT ![p] = "in"]
          /\ results' = [results EXCEPT ![p] = None]
      BY <2>1, <2>4
    <3> QED
      BY <2>4, <3>1 DEF Abstract!Begin, State
  <2>5. CASE /\ State(p) = "in" /\ State(p)' = "out" /\ UNCHANGED calls
             /\ Gotten(p)' = [k \in Ranks |-> [of |-> k, call |-> calls[p]]]
             /\ \A q \in Ranks : calls[q] >= calls[p]
    <3>1. states[p] = "in" /\ states' = [states EXCEPT ![p] = "out"]
          /\ results' = [results EXCEPT ![p] = [k \in Ranks |-> [of |-> k, call |-> calls[p]]]]
      BY <2>1, <2>5
    <3>2. calls[p] \in cs[p]
      <4>1. pc[p] # "out"
        BY <2>5 DEF State
      <4> QED
        BY <2>3, <4>1 DEF Numbered
    <3> QED
      BY <2>5, <3>1, <3>2 DEF Abstract!Finish, Abstract!Contribution, State
  <2>6. CASE /\ State(p) = "in" /\ State(p)' = "raised" /\ UNCHANGED calls
             /\ Gotten(p)' = None /\ Gotten(p) = None
    <3>1. states[p] = "in" /\ states' = [states EXCEPT ![p] = "raised"] /\ results' = results
      BY <2>1, <2>2, <2>6
    <3> QED
      BY <2>6, <3>1 DEF Abstract!Fail, State
  <2>7. CASE State(p)' = State(p) /\ Gotten(p)' = Gotten(p) /\ UNCHANGED calls
    <3>1. states' = states /\ results' = results
      BY <2>2, <2>7
    <3> QED
      BY <2>7, <3>1 DEF Abstract!collectiveVars, State
  <2> QED
    BY <1>2, <2>4, <2>5, <2>6, <2>7, StepLooks
<1> QED
  BY <1>1, <1>2 DEF Next, Abstract!CollectiveNext

\* The ring implements the collective call, for any number of processes and
\* calls, any lengths and however far ahead a neighbour is: an allgather that
\* returns returns every object of this very call, whole and in its place.
THEOREM SpecCollective == Spec => ImplementsCollective
<1>1. Init => Abstract!CollectiveInit /\ Numbered
  <2> SUFFICES ASSUME Init PROVE Abstract!CollectiveInit /\ Numbered
    OBVIOUS
  <2>1. \A p \in Ranks : pc[p] = "out" /\ calls[p] = 0
    BY DEF Init
  <2>2. MaxCalls \in Nat
    BY RingOk
  <2>3. 1 .. MaxCalls \subseteq Nat
    BY <2>2
  <2>4. \A p \in Ranks : Gotten(p) = None
    BY <2>1 DEF Gotten
  <2> QED
    BY <2>1, <2>2, <2>3, <2>4 DEF Init, Abstract!CollectiveInit, Numbered
<1>2. IInv /\ Numbered /\ Numbered' /\ [Next]_vars
        => [Abstract!CollectiveNext]_(Abstract!collectiveVars)
  BY StepRefines
<1> QED
  BY SpecInv, NumberedStep, <1>1, <1>2, PTL
     DEF Spec, ImplementsCollective, Abstract!CollectiveSpec
=============================================================================
