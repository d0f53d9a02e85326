--------------------------- MODULE RequestsProofs ---------------------------
(* Proofs about Requests for any senders, requests and programs. *)
EXTENDS RequestsInv, Numbers, TLAPS, FiniteSetTheorems

-----------------------------------------------------------------------------
(* The type invariant in three parts.                                       *)

Receive == [q : Req, part : {"size", "data"}, src : Senders \cup {AnySource},
            room : Nat, got : Messages \cup {None}, cancelled : BOOLEAN]

WireOk ==
  /\ wire \subseteq Messages
  /\ count \in [Senders -> Nat] /\ \A s \in Senders : count[s] <= MaxLetters[s]
  /\ out \in [Senders -> Letters \cup {None}]
  /\ \A s \in Senders : out[s] # None => out[s].src = s

HandlesOk ==
  /\ recvs \in Seq(Receive)
  /\ req \in [Req -> DOMAIN recvs \cup {None, Null}]
  /\ stage \in [Req -> {"TX_SIZE", "TX_DATA"}]
  /\ peer \in [Req -> Senders \cup {AnySource}]
  /\ buflen \in [Req -> Lengths \cup {0}]
  /\ buf \in [Req -> DOMAIN recvs \cup {None}]
  /\ obj \in [Req -> Objs \cup {None}]

ThreadsOk ==
  /\ rlist \in Seq(Req \cup {None, Wild}) /\ Len(rlist) # 0
  /\ scan \in 0 .. Len(rlist) /\ alive \in BOOLEAN
  /\ upc \in {"idle", "size", "post", "data", "any", "crashed", "astray"}
  /\ call \in {"none", "wait", "waitall", "waitany", "waitsome"} /\ group \subseteq Req
  /\ answer \in [Req -> {"no", "done", "raised"}]

LEMMA TypeParts ==
  /\ TypeOK <=> WireOk /\ HandlesOk /\ ThreadsOk
  /\ TypeOK' <=> WireOk' /\ HandlesOk' /\ ThreadsOk'
BY DEF TypeOK, WireOk, HandlesOk, ThreadsOk, Receive

-----------------------------------------------------------------------------
(* Facts about numbers, letters and receives.                               *)

LEMMA Constants ==
  /\ Lengths \subseteq Int /\ IntBytes \in Nat
  /\ \A len \in Lengths \cup {0} : Count(len) \in Int
<1>1. \A len \in Lengths \cup {0} : len \in Int
  BY IntsOk
<1> QED BY <1>1, IntsOk DEF Count

LEMMA FirstOf ==
  ASSUME NEW S \in SUBSET Nat, S # {}
  PROVE  First(S) \in S
BY LeastNat DEF First

\* The last of the requests of an array.
LEMMA LastOf ==
  ASSUME NEW S \in SUBSET Req, S # {}
  PROVE  LastIn(S) \in S
<1> DEFINE N == Cardinality(Req)
           T == {N - Order[q] : q \in S}
<1>1. N \in Nat
  BY RequestsOk, FS_CardinalityType
<1>2. \A q \in S : Order[q] \in 1 .. N
  BY RequestsOk
<1>3. T \in SUBSET Nat /\ T # {}
  BY <1>1, <1>2
<1>4. PICK k \in T : \A j \in T : k <= j
  <2> HIDE DEF T
  <2> QED BY <1>3, LeastNat
<1>5. PICK q \in S : k = N - Order[q]
  BY <1>4
<1>6. \A r \in S : Order[r] <= Order[q]
  <2> TAKE r \in S
  <2>1. N - Order[q] <= N - Order[r]
    BY <1>4, <1>5
  <2> QED
    <3> HIDE DEF N
    <3> QED BY <2>1, <1>1, <1>2
<1> QED BY <1>6 DEF LastIn

LEMMA MessageFields ==
  ASSUME NEW m \in Messages
  PROVE  /\ m.kind \in {"size", "data"} /\ m.of \in Letters /\ m # None
         /\ m.of.src \in Senders /\ m.of.obj \in Objs
BY NoneOk DEF Messages, Letters

LEMMA RecvsAt ==
  ASSUME TypeOK
  PROVE  /\ Len(recvs) \in Nat /\ DOMAIN recvs = 1 .. Len(recvs)
         /\ Len(recvs) + 1 \notin DOMAIN recvs
         /\ None \notin DOMAIN recvs /\ Null \notin DOMAIN recvs /\ None # Null
         /\ \A i \in DOMAIN recvs : /\ i \in Nat \ {0} /\ recvs[i] \in Receive
                                    /\ recvs[i].q \in Req
<1>1. recvs \in Seq(Receive)
  BY TypeParts DEF HandlesOk
<1>2. \A i \in DOMAIN recvs : recvs[i] \in Receive
  BY <1>1
<1>3. \A i \in DOMAIN recvs : recvs[i].q \in Req
  BY <1>2 DEF Receive
<1> QED BY <1>1, <1>2, <1>3, NoneOk

LEMMA Appended ==
  ASSUME TypeOK, NEW r \in Receive, recvs' = Append(recvs, r)
  PROVE  /\ recvs' \in Seq(Receive)
         /\ DOMAIN recvs' = DOMAIN recvs \cup {Len(recvs) + 1}
         /\ \A i \in DOMAIN recvs : recvs'[i] = recvs[i]
         /\ recvs'[Len(recvs) + 1] = r
<1>1. recvs \in Seq(Receive)
  BY TypeParts DEF HandlesOk
<1> QED BY <1>1, RecvsAt

-----------------------------------------------------------------------------
(* Receives and requests.                                                   *)

\* No receive of q is pending.
Settled(q) == \A i \in DOMAIN recvs : recvs[i].q = q => ~Pending(i)

\* A request whose handle is complete, null or not allocated has no receive
\* pending: its handle may be overwritten.
LEMMA NothingPending ==
  ASSUME IInv, upc # "astray", NEW q \in Req,
         Complete(req[q]) \/ req[q] \in {None, Null}
  PROVE  Settled(q)
<1> SUFFICES ASSUME NEW i \in DOMAIN recvs, recvs[i].q = q, Pending(i) PROVE FALSE
  BY DEF Settled
<1>1. req[q] = i
  BY DEF IInv, NoStrayReceive
<1>2. i # None /\ i # Null
  BY RecvsAt DEF IInv
<1> QED BY <1>1, <1>2 DEF Complete

LEMMA HandleOf ==
  ASSUME IInv, NEW q \in Req, Started(q)
  PROVE  req[q] \in DOMAIN recvs \cup {Null}
BY TypeParts DEF IInv, Known, HandlesOk

\* What a complete receive says of its source.
LEMMA SourceKnown ==
  ASSUME IInv, NEW q \in Req, Started(q), Complete(req[q])
  PROVE  SourceOf(req[q]) \in Senders \cup {AnySource}
<1>1. CASE req[q] = Null
  BY <1>1 DEF SourceOf
<1>2. CASE req[q] # Null
  <2>1. req[q] \in DOMAIN recvs /\ ~Pending(req[q])
    BY <1>2, HandleOf DEF Complete
  <2>2. recvs[req[q]].got \in Messages \cup {None} /\ recvs[req[q]].cancelled \in BOOLEAN
    BY <2>1, RecvsAt DEF Receive, IInv
  <2>3. recvs[req[q]].cancelled \/ recvs[req[q]].got \in Messages
    BY <2>1, <2>2 DEF Pending
  <2> QED BY <2>3, MessageFields DEF SourceOf
<1> QED BY <1>1, <1>2

\* A step that posts no receive and at most completes some.
Kept ==
  /\ DOMAIN recvs' = DOMAIN recvs
  /\ \A i \in DOMAIN recvs :
       /\ recvs'[i].q = recvs[i].q /\ recvs'[i].part = recvs[i].part
       /\ recvs'[i].got = None /\ ~recvs'[i].cancelled => Pending(i)

LEMMA KeptSame ==
  ASSUME Kept, NEW q \in Req
  PROVE  /\ Started(q)' <=> Started(q)
         /\ Receives(q, "data")' = Receives(q, "data")
BY DEF Kept, Started, Receives

\* A step that posts r.
LEMMA AppendedSame ==
  ASSUME TypeOK, NEW r \in Receive, recvs' = Append(recvs, r), NEW q \in Req
  PROVE  /\ Started(q)' <=> Started(q) \/ q = r.q
         /\ Receives(q, "data")' = IF q = r.q /\ r.part = "data"
                                   THEN Receives(q, "data") \cup {Len(recvs) + 1}
                                   ELSE Receives(q, "data")
<1> DEFINE new == Len(recvs) + 1
<1>1. /\ DOMAIN recvs' = DOMAIN recvs \cup {new}
      /\ \A i \in DOMAIN recvs : recvs'[i] = recvs[i]
      /\ recvs'[new] = r
  BY Appended
<1>2. new \notin DOMAIN recvs
  BY RecvsAt
<1> HIDE DEF new
<1>3. Started(q)' <=> Started(q) \/ q = r.q
  BY <1>1, <1>2 DEF Started
<1>4. Receives(q, "data")' = {i \in DOMAIN recvs' : recvs'[i].q = q /\ recvs'[i].part = "data"}
  BY DEF Receives
<1>5. \A i : i \in Receives(q, "data")' <=>
              \/ i \in Receives(q, "data")
              \/ i = new /\ q = r.q /\ r.part = "data"
  BY <1>1, <1>2, <1>4 DEF Receives
<1>6. Receives(q, "data")' = IF q = r.q /\ r.part = "data"
                             THEN Receives(q, "data") \cup {new} ELSE Receives(q, "data")
  BY <1>5
<1> QED BY <1>3, <1>6 DEF new

-----------------------------------------------------------------------------
(* rlist.                                                                   *)

LEMMA SlotsOf ==
  ASSUME TypeOK, NEW q
  PROVE  Slots(q) \in SUBSET Nat /\ Slots(q) \subseteq 1 .. Len(rlist) /\ Len(rlist) \in Nat
         /\ DOMAIN rlist = 1 .. Len(rlist)
<1>1. rlist \in Seq(Req \cup {None, Wild})
  BY TypeParts DEF ThreadsOk
<1> QED BY <1>1 DEF Slots

\* A slot of q is set free.
LEMMA SlotFreed ==
  ASSUME TypeOK, NEW q \in Req, NEW i \in Slots(q), rlist' = [rlist EXCEPT ![i] = None]
  PROVE  /\ rlist' \in Seq(Req \cup {None, Wild}) /\ Len(rlist') = Len(rlist)
         /\ \A p \in Req \ {q} : Slots(p)' = Slots(p)
         /\ Slots(q)' = Slots(q) \ {i}
<1>1. rlist \in Seq(Req \cup {None, Wild}) /\ i \in DOMAIN rlist /\ rlist[i] = q
  BY TypeParts DEF ThreadsOk, Slots
<1>2. rlist' \in Seq(Req \cup {None, Wild}) /\ Len(rlist') = Len(rlist) /\ DOMAIN rlist' = DOMAIN rlist
  BY <1>1
<1>3. rlist'[i] = None /\ \A j \in DOMAIN rlist \ {i} : rlist'[j] = rlist[j]
  BY <1>1
<1>4. \A p \in Req : Slots(p)' = {j \in DOMAIN rlist : rlist'[j] = p}
  BY <1>2 DEF Slots
<1>5. \A p \in Req : Slots(p)' = IF p = q THEN Slots(p) \ {i} ELSE Slots(p)
  BY <1>1, <1>3, <1>4, NoneOk DEF Slots
<1> QED BY <1>2, <1>5

\* request_unwatch frees one slot of q, if it has one.
LEMMA Unwatched ==
  ASSUME TypeOK, NEW q \in Req, Unwatch(q)
  PROVE  /\ rlist' \in Seq(Req \cup {None, Wild}) /\ Len(rlist') = Len(rlist)
         /\ \A p \in Req \ {q} : Slots(p)' = Slots(p)
         /\ Slots(q)' \subseteq Slots(q)
         /\ (\A i, j \in Slots(q) : i = j) => Slots(q)' = {}
<1>1. CASE Slots(q) = {}
  <2>1. rlist' = rlist
    BY <1>1 DEF Unwatch
  <2>2. \A p \in Req : Slots(p)' = Slots(p)
    BY <2>1 DEF Slots
  <2> QED BY <1>1, <2>1, <2>2, TypeParts DEF ThreadsOk
<1>2. CASE Slots(q) # {}
  <2>1. First(Slots(q)) \in Slots(q)
    BY <1>2, SlotsOf, FirstOf
  <2>2. rlist' = [rlist EXCEPT ![First(Slots(q))] = None]
    BY <1>2 DEF Unwatch
  <2> QED BY <2>1, <2>2, SlotFreed
<1> QED BY <1>1, <1>2

LEMMA Concatenated ==
  ASSUME NEW S, NEW a \in Seq(S), NEW b \in Seq(S)
  PROVE  /\ a \o b \in Seq(S) /\ Len(a \o b) = Len(a) + Len(b)
         /\ \A i \in 1 .. Len(a) + Len(b) :
              (a \o b)[i] = IF i <= Len(a) THEN a[i] ELSE b[i - Len(a)]
OBVIOUS

\* request_watch gives q one slot more, and takes none from the others.
LEMMA NowWatched ==
  ASSUME TypeOK, NEW q \in Req, Watch(q)
  PROVE  /\ rlist' \in Seq(Req \cup {None, Wild}) /\ Len(rlist') \in Nat
         /\ Len(rlist) <= Len(rlist')
         /\ \A p \in Req \ {q} : Slots(p)' = Slots(p)
         /\ \E i : Slots(q)' = Slots(q) \cup {i}
<1>1. rlist \in Seq(Req \cup {None, Wild}) /\ Len(rlist) \in Nat /\ DOMAIN rlist = 1 .. Len(rlist)
  BY TypeParts DEF ThreadsOk
<1>2. CASE Slots(None) # {} /\ rlist' = [rlist EXCEPT ![First(Slots(None))] = q]
  <2> DEFINE i == First(Slots(None))
  <2>1. i \in Slots(None)
    BY <1>2, SlotsOf, FirstOf
  <2>2. i \in DOMAIN rlist /\ rlist[i] = None
    BY <2>1 DEF Slots
  <2>3. rlist' = [rlist EXCEPT ![i] = q]
    BY <1>2
  <2> HIDE DEF i
  <2>4. rlist' \in Seq(Req \cup {None, Wild}) /\ Len(rlist') = Len(rlist) /\ DOMAIN rlist' = DOMAIN rlist
    BY <1>1, <2>2, <2>3
  <2>5. rlist'[i] = q /\ \A j \in DOMAIN rlist \ {i} : rlist'[j] = rlist[j]
    BY <1>1, <2>2, <2>3
  <2>6. \A p \in Req : Slots(p)' = {j \in DOMAIN rlist : rlist'[j] = p}
    BY <2>4 DEF Slots
  <2>7. \A p \in Req : Slots(p)' = IF p = q THEN Slots(p) \cup {i} ELSE Slots(p)
    BY <2>2, <2>5, <2>6, NoneOk DEF Slots
  <2>8. \E j : Slots(q)' = Slots(q) \cup {j}
    <3>1. Slots(q)' = Slots(q) \cup {i}
      BY <2>7
    <3> QED BY <3>1, Zenon
  <2>9. \A p \in Req \ {q} : Slots(p)' = Slots(p)
    BY <2>7
  <2>10. rlist' \in Seq(Req \cup {None, Wild}) /\ Len(rlist') \in Nat /\ Len(rlist) <= Len(rlist')
    BY <1>1, <2>4
  <2> QED BY <2>8, <2>9, <2>10, Zenon
<1>3. CASE \E junk \in {None, Wild} :
             rlist' = rlist \o <<q>> \o [i \in 1 .. Len(rlist) - 1 |-> junk]
  <2>1. PICK junk \in {None, Wild} :
               rlist' = rlist \o <<q>> \o [i \in 1 .. Len(rlist) - 1 |-> junk]
    BY <1>3
  <2> DEFINE n == Len(rlist)
             tail == [i \in 1 .. n - 1 |-> junk]
  <2>2. CASE n = 0
    <3>1. rlist' = rlist \o <<q>> \o <<>>
      <4>1. tail = <<>>
        BY <2>2
      <4> QED BY <2>1, <4>1
    <3>2. rlist' = <<q>>
      BY <1>1, <2>2, <3>1
    <3>3. \A p \in Req : Slots(p) = {} /\ Slots(p)' = IF p = q THEN {1} ELSE {}
      BY <1>1, <2>2, <3>2 DEF Slots
    <3>4. \E j : Slots(q)' = Slots(q) \cup {j}
      <4>1. Slots(q)' = Slots(q) \cup {1}
        BY <3>3
      <4> QED BY <4>1, Zenon
    <3>5. \A p \in Req \ {q} : Slots(p)' = Slots(p)
      BY <3>3
    <3>6. rlist' \in Seq(Req \cup {None, Wild}) /\ Len(rlist') = 1
      BY <3>2
    <3>7. Len(rlist') \in Nat /\ Len(rlist) <= Len(rlist')
      BY <2>2, <3>6
    <3> QED BY <3>4, <3>5, <3>6, <3>7, Zenon
  <2>3. CASE n # 0
    <3>1. tail \in Seq({None, Wild}) /\ Len(tail) = n - 1 /\ \A i \in 1 .. n - 1 : tail[i] = junk
      BY <1>1, <2>3
    <3> HIDE DEF tail
    <3> DEFINE most == rlist \o <<q>>
    <3>2. /\ most \in Seq(Req \cup {None, Wild}) /\ Len(most) = n + 1
          /\ \A i \in 1 .. n : most[i] = rlist[i]
          /\ most[n + 1] = q
      BY <1>1
    <3>3. rlist' = most \o tail
      BY <2>1 DEF tail
    <3> HIDE DEF most
    <3>4. /\ rlist' \in Seq(Req \cup {None, Wild}) /\ Len(rlist') = n + n
          /\ \A i \in 1 .. n + 1 : rlist'[i] = most[i]
          /\ \A i \in n + 2 .. n + n : rlist'[i] = junk
      <4>1. tail \in Seq(Req \cup {None, Wild})
        BY <3>1
      <4>2. rlist' \in Seq(Req \cup {None, Wild}) /\ Len(rlist') = n + n
        <5>1. /\ most \o tail \in Seq(Req \cup {None, Wild})
              /\ Len(most \o tail) = Len(most) + Len(tail)
          BY <3>2, <4>1, Concatenated
        <5>2. Len(most) + Len(tail) = n + n
          BY <3>1, <3>2, <1>1
        <5> QED BY <5>1, <5>2, <3>3
      <4>3. ASSUME NEW i \in 1 .. n + n
            PROVE  rlist'[i] = IF i <= n + 1 THEN most[i] ELSE tail[i - (n + 1)]
        BY <3>1, <3>2, <3>3, <4>1, <1>1
      <4>4. \A i \in n + 2 .. n + n : i - (n + 1) \in 1 .. n - 1
        BY <1>1
      <4>5. \A i \in 1 .. n + 1 : i \in 1 .. n + n /\ i <= n + 1
        BY <1>1, <2>3
      <4>6. \A i \in n + 2 .. n + n : i \in 1 .. n + n /\ ~(i <= n + 1)
        BY <1>1
      <4>7. \A i \in 1 .. n + 1 : rlist'[i] = most[i]
        BY <4>3, <4>5
      <4>8. \A i \in n + 2 .. n + n : rlist'[i] = junk
        BY <4>3, <4>4, <4>6, <3>1
      <4> QED BY <4>2, <4>7, <4>8
    <3>5. \A p \in Req : Slots(p)' = {j \in 1 .. n + n : rlist'[j] = p}
      BY <3>4, <1>1 DEF Slots
    <3>6. \A p \in Req : Slots(p) = {j \in 1 .. n : rlist[j] = p}
      BY <1>1 DEF Slots
    <3>7. \A p \in Req : \A j : j \in Slots(p)' <=> j \in Slots(p) \/ (p = q /\ j = n + 1)
      <4>1. \A p \in Req : junk # p
        BY NoneOk
      <4>2. \A j \in 1 .. n + n : j \in 1 .. n \/ j = n + 1 \/ j \in n + 2 .. n + n
        BY <1>1
      <4>3. \A j \in 1 .. n : j \in 1 .. n + n /\ rlist'[j] = rlist[j]
        BY <3>2, <3>4, <1>1
      <4>4. n + 1 \in 1 .. n + n /\ rlist'[n + 1] = q /\ n + 1 \notin 1 .. n
        BY <3>2, <3>4, <1>1, <2>3
      <4>5. \A j \in n + 2 .. n + n : rlist'[j] = junk /\ j \in 1 .. n + n /\ j \notin 1 .. n /\ j # n + 1
        BY <3>4, <1>1
      <4> HIDE DEF n
      <4> QED BY <4>1, <4>2, <4>3, <4>4, <4>5, <3>5, <3>6
    <3>8. \A p \in Req : Slots(p)' = IF p = q THEN Slots(p) \cup {n + 1} ELSE Slots(p)
      BY <3>7
    <3>9. \E j : Slots(q)' = Slots(q) \cup {j}
      <4>1. Slots(q)' = Slots(q) \cup {n + 1}
        BY <3>8
      <4> QED BY <4>1, Zenon
    <3>10. \A p \in Req \ {q} : Slots(p)' = Slots(p)
      BY <3>8
    <3>11. Len(rlist') \in Nat /\ Len(rlist) <= Len(rlist')
      BY <3>4, <1>1
    <3> QED BY <3>4, <3>9, <3>10, <3>11, Zenon
  <2> QED BY <2>2, <2>3
<1> QED BY <1>2, <1>3 DEF Watch

-----------------------------------------------------------------------------
(* What is true of a request stays true when a step leaves it alone, gives   *)
(* up its handle, or posts a receive for it.                                *)

LEMMA Elsewhere ==
  ASSUME IInv, NEW q \in Req,
         Slots(q)' = Slots(q), Started(q)' <=> Started(q), stage'[q] = stage[q],
         Receives(q, "data")' = Receives(q, "data"),
         req'[q] = req[q] \/ req'[q] # None,
         upc = "astray" => upc' = "astray"
  PROVE  Known(q)' /\ Watched(q)' /\ Posted(q)'
<1> DEFINE S == Slots(q)
           D == Receives(q, "data")
<1>1. Known(q) /\ Watched(q) /\ Posted(q)
  BY DEF IInv
<1>2. Known(q)'
  BY <1>1 DEF Known
<1>3. Watched(q)'
  BY <1>1 DEF Watched
<1>4. Posted(q)'
  BY <1>1 DEF Posted
<1> QED BY <1>2, <1>3, <1>4

\* Handles change only where no receive is pending, or the program goes astray.
Dropped ==
  \A q \in Req : req'[q] # req[q] => req'[q] = Null /\ (Settled(q) \/ upc' = "astray")

LEMMA KeptStep ==
  ASSUME IInv, TypeOK', Measured', Turns', Dropped, Kept, UNCHANGED <<stage, rlist>>,
         upc = "astray" => upc' = "astray"
  PROVE  IInv'
<1>1. ASSUME NEW q \in Req
      PROVE  Known(q)' /\ Watched(q)' /\ Posted(q)'
  <2>1. Slots(q)' = Slots(q)
    BY DEF Slots
  <2>2. req'[q] = req[q] \/ req'[q] # None
    BY NoneOk DEF Dropped
  <2> QED BY <2>1, <2>2, KeptSame, Elsewhere
<1>2. NoStrayReceive'
  <2> SUFFICES ASSUME upc' # "astray", NEW i \in DOMAIN recvs,
                      recvs'[i].got = None, ~recvs'[i].cancelled
               PROVE  req'[recvs'[i].q] = i
    BY DEF NoStrayReceive, Kept, Pending
  <2>1. Pending(i) /\ recvs'[i].q = recvs[i].q /\ recvs[i].q \in Req
    BY RecvsAt DEF Kept, IInv
  <2>2. req[recvs[i].q] = i
    BY <2>1 DEF IInv, NoStrayReceive
  <2>3. ~Settled(recvs[i].q)
    BY <2>1 DEF Settled
  <2> QED BY <2>1, <2>2, <2>3 DEF Dropped
<1> QED BY <1>1, <1>2 DEF IInv

\* A step of the program or of the background thread that posts nothing.
LEMMA QuietStep ==
  ASSUME IInv, HandlesOk', ThreadsOk', Turns', Dropped,
         UNCHANGED <<wire, out, count, recvs, stage, rlist>>,
         upc = "astray" => upc' = "astray"
  PROVE  IInv'
<1>1. WireOk'
  BY TypeParts DEF IInv, WireOk
<1>2. TypeOK'
  BY <1>1, TypeParts
<1>3. Measured'
  BY DEF Measured, IInv
<1>4. Kept
  BY DEF Kept, Pending
<1> QED BY <1>2, <1>3, <1>4, KeptStep

\* A step that posts a receive for q.
LEMMA PostingStep ==
  ASSUME IInv, NEW q \in Req, NEW r \in Receive, r.q = q, recvs' = Append(recvs, r),
         HandlesOk', ThreadsOk', Turns', UNCHANGED <<wire, out, count>>,
         \A p \in Req \ {q} : Slots(p)' = Slots(p) /\ stage'[p] = stage[p],
         \A p \in Req \ {q} : req'[p] = req[p] \/ (req'[p] = Null /\ upc' = "astray"),
         req'[q] \in {Len(recvs) + 1, Null}, Watched(q)', Posted(q)',
         upc' # "astray" => upc # "astray" /\ Settled(q) /\ req'[q] = Len(recvs) + 1
  PROVE  IInv'
<1> DEFINE new == Len(recvs) + 1
<1>a. TypeOK
  BY DEF IInv
<1>0. /\ DOMAIN recvs' = DOMAIN recvs \cup {new} /\ recvs'[new] = r
      /\ \A i \in DOMAIN recvs : recvs'[i] = recvs[i]
  BY <1>a, Appended
<1>1. WireOk' /\ TypeOK'
  <2>1. WireOk'
    BY TypeParts DEF IInv, WireOk
  <2> QED BY <2>1, TypeParts
<1>2. Measured'
  BY DEF Measured, IInv
<1>3. new # None /\ new \notin DOMAIN recvs /\ None # Null
  BY <1>a, RecvsAt, NoneOk
<1>4. Known(q)'
  <2>1. Started(q)'
    BY <1>a, AppendedSame
  <2>2. req'[q] # None
    BY <1>3
  <2> QED BY <2>1, <2>2 DEF Known
<1>5. ASSUME NEW p \in Req \ {q}
      PROVE  Known(p)' /\ Watched(p)' /\ Posted(p)'
  <2>1. /\ Started(p)' <=> Started(p)
        /\ Receives(p, "data")' = Receives(p, "data")
    BY <1>a, AppendedSame
  <2>2. req'[p] = req[p] \/ req'[p] # None
    BY NoneOk
  <2>3. upc = "astray" => upc' = "astray"
    OBVIOUS
  <2> QED BY <2>1, <2>2, <2>3, Elsewhere
<1>6. NoStrayReceive'
  <2> SUFFICES ASSUME upc' # "astray", NEW i \in DOMAIN recvs',
                      recvs'[i].got = None, ~recvs'[i].cancelled
               PROVE  req'[recvs'[i].q] = i
    BY DEF NoStrayReceive, Pending
  <2>1. CASE i = new
    <3>1. recvs'[i].q = q
      BY <1>0, <2>1
    <3> QED BY <3>1, <2>1
  <2>2. CASE i \in DOMAIN recvs
    <3>1. recvs'[i] = recvs[i] /\ Pending(i) /\ recvs[i].q \in Req
      BY <1>0, <1>a, <2>2, RecvsAt DEF Pending
    <3>2. req[recvs[i].q] = i
      BY <2>2, <3>1 DEF IInv, NoStrayReceive
    <3>3. recvs[i].q # q
      BY <2>2, <3>1 DEF Settled
    <3> QED BY <3>1, <3>2, <3>3
  <2> QED BY <1>0, <2>1, <2>2
<1> QED BY <1>1, <1>2, <1>4, <1>5, <1>6 DEF IInv

-----------------------------------------------------------------------------
(* The initial states, and the steps of the senders and of MPI.             *)

LEMMA InitInv ==
  ASSUME Init
  PROVE  IInv
<1>1. HandlesOk
  <2>1. recvs \in Seq(Receive) /\ DOMAIN recvs = {}
    BY DEF Init
  <2> QED BY <2>1, RequestsOk DEF Init, HandlesOk
<1>2. ThreadsOk
  <2>1. rlist \in Seq(Req \cup {None, Wild}) /\ Len(rlist) \in Nat /\ Len(rlist) # 0
    BY RequestsOk DEF Init
  <2>2. scan \in 0 .. Len(rlist)
    <3>1. scan = 0
      BY DEF Init
    <3> QED BY <2>1, <3>1
  <2>3. answer \in [Req -> {"no", "done", "raised"}]
    BY DEF Init
  <2>4. /\ alive \in BOOLEAN /\ upc = "idle" /\ call = "none" /\ group \subseteq Req
    BY DEF Init
  <2> QED BY <2>1, <2>2, <2>3, <2>4 DEF ThreadsOk
<1>3. WireOk
  BY RequestsOk DEF Init, WireOk
<1>4. Measured /\ Turns
  BY DEF Init, Measured, Turns
<1>5. ASSUME NEW q \in Req
      PROVE  Known(q) /\ Watched(q) /\ Posted(q)
  <2>1. DOMAIN recvs = {}
    BY DEF Init
  <2>2. Slots(q) = {}
    BY NoneOk DEF Init, Slots
  <2>3. ~Started(q) /\ Receives(q, "data") = {}
    BY <2>1 DEF Started, Receives
  <2> QED BY <2>2, <2>3 DEF Known, Watched, Posted, Init
<1>6. NoStrayReceive
  <2>1. DOMAIN recvs = {}
    BY DEF Init
  <2> QED BY <2>1 DEF NoStrayReceive
<1> QED BY <1>1, <1>2, <1>3, <1>4, <1>5, <1>6, TypeParts DEF IInv

\* A step of a sender touches nothing of Me's.
LEMMA SenderStep ==
  ASSUME IInv, WireOk', Measured', UNCHANGED <<recvs, mr, rlist, thread, user>>
  PROVE  IInv'
<1>1. HandlesOk' /\ ThreadsOk'
  BY TypeParts DEF IInv, HandlesOk, ThreadsOk, mr, thread, user
<1>2. Turns'
  BY DEF IInv, Turns, InSize, Started, Complete, Pending, mr, thread, user
<1>3. Kept /\ Dropped
  BY DEF Kept, Dropped, Pending, mr
<1>4. UNCHANGED <<stage, rlist, upc>>
  BY DEF mr, user
<1> QED BY <1>1, <1>2, <1>3, <1>4, TypeParts, KeptStep

LEMMA LetterOf ==
  ASSUME TypeOK, NEW s \in Senders, NEW w \in Writes[s], NEW len \in Int
  PROVE  /\ Letter(s, w, len) \in Letters
         /\ Letter(s, w, len).src = s /\ Letter(s, w, len).len = len
         /\ w[3] \in Lengths /\ w[3] \in Int
<1>1. w \in {"send", "isend", "start"} \X Tags \X Lengths \X Objs
  BY RequestsOk
<1>2. w[2] \in Tags /\ w[3] \in Lengths /\ w[4] \in Objs /\ w[3] \in Int
  BY <1>1, Constants
<1>3. count[s] \in Nat
  BY TypeParts DEF WireOk
<1> QED BY <1>2, <1>3 DEF Letter, Letters

LEMMA Parts ==
  ASSUME NEW l \in Letters
  PROVE  /\ Size(l) \in Messages /\ Size(l).kind = "size" /\ Size(l).of = l
         /\ Data(l) \in Messages /\ Data(l).kind = "data"
BY DEF Messages, Size, Data

LEMMA Counted ==
  ASSUME TypeOK, NEW s \in Senders, Ready(s), count' = [count EXCEPT ![s] = @ + 1]
  PROVE  count' \in [Senders -> Nat] /\ \A z \in Senders : count'[z] <= MaxLetters[z]
<1>1. count \in [Senders -> Nat] /\ \A z \in Senders : count[z] <= MaxLetters[z]
  BY TypeParts DEF WireOk
<1>2. count[s] < MaxLetters[s] /\ \A z \in Senders : MaxLetters[z] \in Nat
  BY RequestsOk DEF Ready
<1>3. count' \in [Senders -> Nat]
  BY <1>1
<1>4. ASSUME NEW z \in Senders
      PROVE  count'[z] <= MaxLetters[z]
  BY <1>1, <1>2
<1> QED BY <1>3, <1>4

LEMMA SendSizeInv ==
  ASSUME IInv, NEW s \in Senders, SendSize(s)
  PROVE  IInv'
<1>1. PICK w \in Writes[s] :
        /\ wire' = wire \cup {Size(Letter(s, w, w[3]))}
        /\ out' = [out EXCEPT ![s] = Letter(s, w, w[3])]
  BY DEF SendSize, Ways
<1>a. TypeOK
  BY DEF IInv
<1>2. w[3] \in Lengths /\ w[3] \in Int
  <2>1. 0 \in Int
    OBVIOUS
  <2> QED BY <1>a, <2>1, LetterOf
<1>3. PICK l \in Letters : l = Letter(s, w, w[3]) /\ l.src = s /\ l.len = w[3]
  BY <1>a, <1>2, LetterOf
<1>4. wire' = wire \cup {Size(l)} /\ out' = [out EXCEPT ![s] = l]
  BY <1>1, <1>3
<1>5. WireOk'
  <2>1. wire' \subseteq Messages
    BY <1>a, <1>4, Parts, TypeParts DEF WireOk
  <2>2. /\ out' \in [Senders -> Letters \cup {None}]
        /\ \A z \in Senders : out'[z] # None => out'[z].src = z
    BY <1>a, <1>3, <1>4, TypeParts DEF WireOk
  <2>3. count' \in [Senders -> Nat] /\ \A z \in Senders : count'[z] <= MaxLetters[z]
    BY <1>a, Counted DEF SendSize
  <2> QED BY <2>1, <2>2, <2>3 DEF WireOk
<1>6. Measured'
  <2>1. \A m \in wire' : m.kind = "size" => m.of.len \in Lengths \cup {0}
    BY <1>2, <1>3, <1>4, Parts DEF IInv, Measured
  <2>2. \A z \in Senders : out'[z] # None => out'[z].len \in Lengths
    BY <1>a, <1>2, <1>3, <1>4, TypeParts DEF IInv, Measured, WireOk
  <2> QED BY <2>1, <2>2 DEF Measured
<1>7. UNCHANGED <<recvs, mr, rlist, thread, user>>
  BY DEF SendSize
<1> QED BY <1>5, <1>6, <1>7, SenderStep

LEMMA SendDataInv ==
  ASSUME IInv, NEW s \in Senders, SendData(s)
  PROVE  IInv'
<1>1. wire' \in {wire, wire \cup {Data(out[s])}} /\ out' = [out EXCEPT ![s] = None]
      /\ out[s] # None /\ count' = count
  BY DEF SendData
<1>2. WireOk /\ out[s] \in Letters
  BY <1>1, TypeParts DEF IInv, WireOk
<1>3. WireOk'
  BY <1>1, <1>2, Parts DEF WireOk
<1>4. Measured'
  <2>1. \A m \in wire' : m.kind = "size" => m.of.len \in Lengths \cup {0}
    BY <1>1, <1>2, Parts DEF IInv, Measured
  <2>2. \A z \in Senders : out'[z] # None => out'[z].len \in Lengths
    BY <1>1, <1>2 DEF IInv, Measured, WireOk
  <2> QED BY <2>1, <2>2 DEF Measured
<1>5. UNCHANGED <<recvs, mr, rlist, thread, user>>
  BY DEF SendData
<1> QED BY <1>3, <1>4, <1>5, SenderStep

\* A letter whose two messages leave at once.
LEMMA SendBothInv ==
  ASSUME IInv, NEW s \in Senders, NEW w \in Writes[s], NEW n \in Lengths \cup {0}, NEW len \in Int,
         SendBoth(s, Letter(s, w, n), Letter(s, w, len))
  PROVE  IInv'
<1>a. TypeOK
  BY DEF IInv
<1>b. n \in Int
  <2>1. 0 \in Int
    OBVIOUS
  <2> QED BY <2>1, Constants
<1>1. PICK l \in Letters : l = Letter(s, w, n) /\ l.len = n
  BY <1>a, <1>b, LetterOf
<1>2. PICK d \in Letters : d = Letter(s, w, len)
  BY <1>a, LetterOf
<1>3. wire' \subseteq wire \cup {Size(l), Data(d)} /\ UNCHANGED out
  BY <1>1, <1>2 DEF SendBoth
<1>4. WireOk'
  <2>1. wire' \subseteq Messages
    BY <1>a, <1>3, Parts, TypeParts DEF WireOk
  <2>2. count' \in [Senders -> Nat] /\ \A z \in Senders : count'[z] <= MaxLetters[z]
    BY <1>a, Counted DEF SendBoth
  <2> QED BY <1>a, <1>3, <2>1, <2>2, TypeParts DEF WireOk
<1>5. Measured'
  BY <1>1, <1>3, Parts DEF IInv, Measured
<1>6. UNCHANGED <<recvs, mr, rlist, thread, user>>
  BY DEF SendBoth
<1> QED BY <1>4, <1>5, <1>6, SenderStep

LEMMA SendingInv ==
  ASSUME IInv, NEW s \in Senders, Sending(s)
  PROVE  IInv'
<1>a. \A w \in Writes[s] : w[3] \in Lengths /\ w[3] \in Int
  <2>1. TypeOK /\ 0 \in Int
    BY DEF IInv
  <2> QED BY <2>1, LetterOf
<1>1. CASE Isend(s)
  <2>1. PICK w \in Writes[s], frame \in Writes[s] :
          SendBoth(s, Letter(s, w, frame[3]), Letter(s, w, w[3]))
    BY <1>1 DEF Isend, Ways
  <2> QED BY <1>a, <2>1, SendBothInv
<1>2. CASE StartSend(s)
  <2>1. PICK w \in Writes[s] : SendBoth(s, Letter(s, w, 0), Letter(s, w, -1))
    BY <1>2 DEF StartSend, Ways
  <2>2. 0 \in Lengths \cup {0} /\ -1 \in Int
    OBVIOUS
  <2> QED BY <2>1, <2>2, SendBothInv
<1> QED BY <1>1, <1>2, SendSizeInv, SendDataInv DEF Sending

LEMMA DeliverInv ==
  ASSUME IInv, NEW i \in DOMAIN recvs, NEW m \in wire, Deliver(i, m)
  PROVE  IInv'
<1>a. TypeOK /\ HandlesOk /\ WireOk
  BY TypeParts DEF IInv
<1>1. m \in Messages /\ m # None /\ wire' = wire \ {m} /\ Pending(i)
      /\ recvs' = [recvs EXCEPT ![i].got = m]
  BY <1>a, MessageFields DEF Deliver, WireOk
<1>2. recvs \in Seq(Receive) /\ recvs[i] \in Receive /\ recvs[i].q \in Req
  BY <1>a, RecvsAt DEF HandlesOk
<1>3. [recvs[i] EXCEPT !.got = m] \in Receive
  BY <1>1, <1>2 DEF Receive
<1>4. recvs' \in Seq(Receive) /\ DOMAIN recvs' = DOMAIN recvs
      /\ recvs'[i] = [recvs[i] EXCEPT !.got = m]
      /\ \A j \in DOMAIN recvs \ {i} : recvs'[j] = recvs[j]
  BY <1>1, <1>2, <1>3
<1>5. Kept
  <2>1. recvs'[i].got = m /\ recvs'[i].q = recvs[i].q /\ recvs'[i].part = recvs[i].part
    BY <1>2, <1>4 DEF Receive
  <2> QED BY <1>1, <1>4, <2>1 DEF Kept, Pending
<1>6. Stored(m) \subseteq Lengths \cup {0}
  BY DEF IInv, Measured, Stored
<1>7. buflen' \in [Req -> Lengths \cup {0}]
  <2>1. buflen' = buflen \/ \E len \in Stored(m) : buflen' = [buflen EXCEPT ![recvs[i].q] = len]
    BY DEF Deliver
  <2> QED BY <1>a, <1>2, <1>6, <2>1 DEF HandlesOk
<1>8. UNCHANGED <<out, count, req, stage, peer, buf, obj, rlist, thread, user>>
  BY DEF Deliver
<1>9. HandlesOk' /\ WireOk' /\ ThreadsOk'
  <2>1. HandlesOk'
    BY <1>a, <1>4, <1>7, <1>8 DEF HandlesOk
  <2>2. WireOk'
    BY <1>a, <1>1, <1>8 DEF WireOk
  <2>3. ThreadsOk'
    BY <1>8, TypeParts DEF IInv, ThreadsOk, thread, user
  <2> QED BY <2>1, <2>2, <2>3
<1>10. Measured'
  BY <1>1, <1>8 DEF IInv, Measured
<1>11. Turns'
  <2>1. \A q \in Req : Started(q)' <=> Started(q)
    BY <1>5, KeptSame
  <2>2. UNCHANGED <<upc, scan, group, stage, req>>
    BY <1>8 DEF thread, user
  <2>3. upc' \in {"size", "post", "data", "any"} => group' # {} /\ \A q \in group' : Started(q)'
    BY <2>1, <2>2, TypeParts DEF IInv, Turns, ThreadsOk
  <2>4. ASSUME upc' = "post", NEW q \in InSize
        PROVE  Complete(req[q])'
    <3>1. Complete(req[q]) /\ q \in Req /\ Started(q)
      BY <2>2, <2>4, TypeParts DEF IInv, Turns, InSize, ThreadsOk
    <3>2. req'[q] = req[q] /\ req[q] \in DOMAIN recvs \cup {Null}
      BY <2>2, <3>1, HandleOf
    <3> QED BY <1>5, <3>1, <3>2 DEF Complete, Pending, Kept
  <2>5. InSize' = InSize
    BY <2>2 DEF InSize
  <2>6. upc' = "post" => \A q \in InSize' : Complete(req[q])'
    BY <2>4, <2>5
  <2> QED BY <2>2, <2>3, <2>6 DEF IInv, Turns
<1>12. Dropped
  BY <1>8 DEF Dropped
<1>13. UNCHANGED <<stage, rlist, upc>>
  BY <1>8 DEF user
<1> QED BY <1>5, <1>9, <1>10, <1>11, <1>12, <1>13, TypeParts, KeptStep

-----------------------------------------------------------------------------
(* The steps of the background thread.                                      *)

LEMMA ScanMoves ==
  ASSUME TypeOK, scan > 0, NextSlot
  PROVE  scan' \in 0 .. Len(rlist)
<1>1. scan \in 0 .. Len(rlist) /\ Len(rlist) \in Nat
  BY SlotsOf, TypeParts DEF ThreadsOk
<1> QED BY <1>1 DEF NextSlot

\* While the thread runs the program is idle.
LEMMA ThreadTurn ==
  ASSUME IInv, scan > 0
  PROVE  upc = "idle"
<1>1. scan # 0
  BY TypeParts DEF IInv, ThreadsOk
<1> QED BY <1>1 DEF IInv, Turns

\* A step that only moves the thread.
LEMMA LookInv ==
  ASSUME IInv, BeginPass \/ SkipSlot \/ WildSlot
  PROVE  IInv'
<1>a. TypeOK /\ ThreadsOk /\ HandlesOk
  BY TypeParts DEF IInv
<1>1. UNCHANGED <<mpi, mr, rlist, call, group, answer>> /\ alive' \in BOOLEAN
  BY <1>a DEF BeginPass, SkipSlot, WildSlot, user, ThreadsOk
<1>2. upc = "idle"
  BY ThreadTurn DEF BeginPass, SkipSlot, WildSlot
<1>3. scan' \in 0 .. Len(rlist)
  <2>1. CASE BeginPass
    <3>1. Len(rlist) \in Nat /\ Len(rlist) # 0 /\ scan' = 1
      BY <1>a, <2>1, SlotsOf DEF ThreadsOk, BeginPass
    <3> QED BY <3>1
  <2>2. CASE SkipSlot
    BY <1>a, <2>2, ScanMoves DEF SkipSlot
  <2>3. CASE WildSlot
    <3>1. Len(rlist) \in Nat /\ scan' = 0
      BY <1>a, <2>3, SlotsOf DEF WildSlot
    <3> QED BY <3>1
  <2> QED BY <2>1, <2>2, <2>3
<1>4. upc' = "idle" \/ (upc' = "crashed" /\ scan' = 0)
  BY <1>2 DEF BeginPass, SkipSlot, WildSlot, user
<1>5. HandlesOk' /\ ThreadsOk' /\ Turns'
  <2>1. HandlesOk'
    BY <1>a, <1>1 DEF HandlesOk, mpi, mr
  <2>2. ThreadsOk'
    BY <1>a, <1>1, <1>3, <1>4 DEF ThreadsOk
  <2>3. Turns'
    BY <1>4 DEF Turns
  <2> QED BY <2>1, <2>2, <2>3
<1>6. UNCHANGED <<wire, out, count, recvs, req, stage, rlist>>
  BY <1>1 DEF mpi, mr
<1>7. Dropped
  BY <1>6 DEF Dropped
<1> QED BY <1>2, <1>5, <1>6, <1>7, QuietStep

LEMMA TestSlotInv ==
  ASSUME IInv, TestSlot
  PROVE  IInv'
<1>a. TypeOK /\ ThreadsOk /\ HandlesOk
  BY TypeParts DEF IInv
<1>1. PICK q \in Req : q = rlist[scan]
  BY DEF TestSlot
<1>2. scan > 0 /\ upc = "idle" /\ Complete(req[q]) /\ UNCHANGED <<wire, out, count, buflen, sized, obj, user>>
  BY <1>1, ThreadTurn DEF TestSlot
<1>3. scan \in Slots(q) /\ Started(q)
  <2>1. scan \in DOMAIN rlist
    <3>1. scan \in 0 .. Len(rlist) /\ DOMAIN rlist = 1 .. Len(rlist)
      BY <1>a, SlotsOf DEF ThreadsOk
    <3> QED BY <1>2, <3>1
  <2>2. scan \in Slots(q)
    BY <1>1, <2>1 DEF Slots
  <2> QED BY <2>2 DEF IInv, Known
<1>4. Settled(q)
  BY <1>2, NothingPending
<1>5. SourceOf(req[q]) \in Senders \cup {AnySource}
  BY <1>2, <1>3, SourceKnown
<1>6. upc' = "idle" /\ UNCHANGED <<call, group, answer>>
  BY <1>2 DEF user
<1>7. Turns'
  BY <1>6 DEF Turns
<1>8. Len(rlist) \in Nat /\ 0 \in 0 .. Len(rlist)
  BY <1>a, SlotsOf
\* It raises.
<1>9. CASE req' = [req EXCEPT ![q] = Null] /\ alive' = FALSE /\ scan' = 0
           /\ peer' \in {peer, [peer EXCEPT ![q] = SourceOf(req[q])]}
           /\ UNCHANGED <<recvs, stage, buf, rlist>>
  <2>1. HandlesOk'
    <3>1. req' \in [Req -> DOMAIN recvs \cup {None, Null}]
      BY <1>a, <1>9 DEF HandlesOk
    <3>2. peer' \in [Req -> Senders \cup {AnySource}]
      BY <1>a, <1>5, <1>9 DEF HandlesOk
    <3> QED BY <1>a, <1>2, <1>9, <3>1, <3>2 DEF HandlesOk
  <2>2. ThreadsOk'
    BY <1>a, <1>6, <1>8, <1>9 DEF ThreadsOk
  <2>3. Dropped
    BY <1>a, <1>4, <1>9 DEF Dropped, HandlesOk
  <2> QED BY <1>2, <1>7, <1>9, <2>1, <2>2, <2>3, QuietStep
\* It posts the receive of the data.
<1>10. CASE /\ Count(buflen[q]) >= 0
            /\ Irecv(q, "data", SourceOf(req[q]), Count(buflen[q]))
            /\ peer' = [peer EXCEPT ![q] = SourceOf(req[q])]
            /\ buf' = [buf EXCEPT ![q] = Len(recvs) + 1]
            /\ stage' = [stage EXCEPT ![q] = "TX_DATA"]
            /\ rlist' = [rlist EXCEPT ![scan] = None]
            /\ NextSlot
            /\ UNCHANGED alive
  <2> DEFINE r == [q |-> q, part |-> "data", src |-> SourceOf(req[q]), room |-> Count(buflen[q]),
                   got |-> None, cancelled |-> FALSE]
             new == Len(recvs) + 1
  <2>1. r \in Receive /\ r.q = q /\ r.part = "data" /\ recvs' = Append(recvs, r)
        /\ req' = [req EXCEPT ![q] = new]
    <3>1. Count(buflen[q]) \in Nat
      <4>1. buflen[q] \in Lengths \cup {0}
        BY <1>a DEF HandlesOk
      <4>2. Count(buflen[q]) \in Int
        BY <4>1, Constants
      <4> QED BY <1>10, <4>2
    <3>2. r \in Receive
      BY <1>5, <3>1 DEF Receive
    <3> QED BY <1>10, <3>2 DEF Irecv
  <2> HIDE DEF r
  <2>2. DOMAIN recvs' = DOMAIN recvs \cup {new} /\ recvs' \in Seq(Receive)
    BY <1>a, <2>1, Appended
  <2> HIDE DEF new
  <2>3. HandlesOk'
    <3>1. req' \in [Req -> DOMAIN recvs' \cup {None, Null}]
      BY <1>a, <2>1, <2>2 DEF HandlesOk
    <3>2. peer' \in [Req -> Senders \cup {AnySource}]
      BY <1>a, <1>5, <1>10 DEF HandlesOk
    <3>3. buf' \in [Req -> DOMAIN recvs' \cup {None}]
      BY <1>a, <1>10, <2>2 DEF HandlesOk, new
    <3>4. stage' \in [Req -> {"TX_SIZE", "TX_DATA"}]
      BY <1>a, <1>10 DEF HandlesOk
    <3> QED BY <1>a, <1>2, <2>2, <3>1, <3>2, <3>3, <3>4 DEF HandlesOk
  <2>4. /\ rlist' \in Seq(Req \cup {None, Wild}) /\ Len(rlist') = Len(rlist)
        /\ \A p \in Req \ {q} : Slots(p)' = Slots(p)
        /\ Slots(q)' = Slots(q) \ {scan}
    BY <1>a, <1>3, <1>10, SlotFreed
  <2>5. ThreadsOk'
    <3>1. scan' \in 0 .. Len(rlist')
      BY <1>a, <1>2, <1>10, <2>4, ScanMoves
    <3> QED BY <1>a, <1>6, <1>10, <2>4, <3>1 DEF ThreadsOk
  <2>6. stage'[q] = "TX_DATA" /\ \A p \in Req \ {q} : stage'[p] = stage[p]
    BY <1>a, <1>10 DEF HandlesOk
  <2>7. Watched(q)'
    BY <1>3, <2>4, <2>6 DEF IInv, Watched
  <2>8. Posted(q)'
    <3>1. Receives(q, "data")' = Receives(q, "data") \cup {new}
      BY <1>a, <2>1, AppendedSame DEF new
    <3>2. {"restart", "cancel"} \cap Uses[q] = {} => Receives(q, "data") = {}
      BY <1>2, <1>3 DEF IInv, Watched, Posted
    <3> QED BY <2>6, <3>1, <3>2 DEF Posted
  <2>9. req'[q] = new /\ \A p \in Req \ {q} : req'[p] = req[p]
    BY <1>a, <2>1 DEF HandlesOk
  <2>10. UNCHANGED <<wire, out, count>>
    BY <1>2
  <2> QED BY <1>2, <1>4, <1>7, <2>1, <2>3, <2>4, <2>5, <2>6, <2>7, <2>8, <2>9, <2>10, PostingStep
       DEF new
<1> QED
  <2>1. ~(Count(buflen[q]) < 0) => Count(buflen[q]) >= 0
    <3>1. buflen[q] \in Lengths \cup {0}
      BY <1>a DEF HandlesOk
    <3>2. Count(buflen[q]) \in Int
      BY <3>1, Constants
    <3> QED BY <3>2
  <2> QED BY <1>1, <1>9, <1>10, <2>1 DEF TestSlot

LEMMA BackgroundInv ==
  ASSUME IInv, Background
  PROVE  IInv'
BY LookInv, TestSlotInv DEF Background

-----------------------------------------------------------------------------
(* The steps of the program.                                                *)

\* What the program is doing, and what it has been told.
UserOk ==
  /\ upc \in {"idle", "size", "post", "data", "any", "crashed", "astray"}
  /\ call \in {"none", "wait", "waitall", "waitany", "waitsome"} /\ group \subseteq Req
  /\ answer \in [Req -> {"no", "done", "raised"}]

\* A method that posts nothing.
LEMMA CallStep ==
  ASSUME IInv, upc # "astray", UNCHANGED <<mpi, stage, buflen, rlist, thread>>,
         req' \in [Req -> DOMAIN recvs \cup {None, Null}],
         peer' \in [Req -> Senders \cup {AnySource}],
         buf' \in [Req -> DOMAIN recvs \cup {None}],
         obj' \in [Req -> Objs \cup {None}],
         UserOk', Turns', Dropped
  PROVE  IInv'
<1>a. HandlesOk /\ ThreadsOk
  BY TypeParts DEF IInv
<1>1. HandlesOk'
  BY <1>a DEF HandlesOk, mpi
<1>2. ThreadsOk'
  BY <1>a DEF ThreadsOk, UserOk, thread
<1> QED BY <1>1, <1>2, QuietStep DEF mpi

\* In particular one that changes no field but the handle.
LEMMA HandleStep ==
  ASSUME IInv, upc # "astray",
         UNCHANGED <<mpi, stage, peer, buflen, sized, buf, obj, rlist, thread>>,
         req' \in [Req -> DOMAIN recvs \cup {None, Null}],
         UserOk', Turns', Dropped
  PROVE  IInv'
BY CallStep, TypeParts DEF IInv, HandlesOk

LEMMA Typed ==
  ASSUME IInv
  PROVE  /\ TypeOK /\ HandlesOk /\ ThreadsOk /\ UserOk
         /\ group \subseteq Req /\ req \in [Req -> DOMAIN recvs \cup {None, Null}]
         /\ InSize \subseteq group
BY TypeParts DEF IInv, HandlesOk, ThreadsOk, UserOk, InSize

\* Handles set to Null where nothing is pending.
LEMMA Nulled ==
  ASSUME IInv, NEW S \in SUBSET Req, upc' = "astray" \/ \A q \in S : Settled(q),
         req' = [q \in Req |-> IF q \in S THEN Null ELSE req[q]]
  PROVE  Dropped /\ req' \in [Req -> DOMAIN recvs \cup {None, Null}]
BY Typed DEF Dropped

LEMMA NulledOne ==
  ASSUME IInv, NEW q \in Req, Settled(q), req' = [req EXCEPT ![q] = Null]
  PROVE  Dropped /\ req' \in [Req -> DOMAIN recvs \cup {None, Null}]
BY Typed DEF Dropped

LEMMA NulledNone ==
  ASSUME IInv, UNCHANGED req
  PROVE  Dropped /\ req' \in [Req -> DOMAIN recvs \cup {None, Null}]
BY Typed DEF Dropped

\* The ways a method ends, or goes astray.
LEMMA AtRest ==
  ASSUME IInv, upc' = "idle" \/ (upc' = "astray" /\ scan' = 0)
  PROVE  Turns'
BY DEF Turns

LEMMA Informed ==
  ASSUME IInv, NEW S, NEW says \in {"no", "done", "raised"}, Inform(S, says)
  PROVE  answer' \in [Req -> {"no", "done", "raised"}]
BY Typed DEF Inform, UserOk

LEMMA Returned ==
  ASSUME IInv, NEW says \in {"done", "raised"}, Return(says)
  PROVE  UserOk' /\ Turns' /\ upc' = "idle"
<1>1. upc' = "idle" /\ call' = "none" /\ group' = {}
  BY DEF Return, Leave
<1>2. answer' \in [Req -> {"no", "done", "raised"}]
  BY Informed DEF Return
<1> QED BY <1>1, <1>2, AtRest DEF UserOk

LEMMA Left ==
  ASSUME IInv, Leave, answer' \in [Req -> {"no", "done", "raised"}]
  PROVE  UserOk' /\ Turns' /\ upc' = "idle"
BY AtRest DEF Leave, UserOk

\* An exception that leaves freed handles behind.
LEMMA Strayed ==
  ASSUME IInv, scan = 0, UNCHANGED scan, NEW S, RaiseStale(S)
  PROVE  /\ UserOk' /\ Turns' /\ upc' = "astray"
         /\ Dropped /\ req' \in [Req -> DOMAIN recvs \cup {None, Null}]
<1>1. upc' = "astray" /\ UNCHANGED <<call, group, req>>
  BY DEF RaiseStale, GoAstray
<1>2. answer' \in [Req -> {"no", "done", "raised"}]
  BY Informed DEF RaiseStale
<1>3. UserOk'
  BY <1>1, <1>2, Typed DEF UserOk
<1> QED BY <1>1, <1>3, AtRest, NulledNone

\* An exception in wait or in waitall.
LEMMA Raising ==
  ASSUME IInv, scan = 0, UNCHANGED scan, NEW S \in SUBSET Req, \A q \in S : Settled(q), Raise(S)
  PROVE  /\ UserOk' /\ Turns'
         /\ Dropped /\ req' \in [Req -> DOMAIN recvs \cup {None, Null}]
<1>1. CASE call = "wait"
  <2>1. Return("raised") /\ Clear(S)
    BY <1>1 DEF Raise
  <2> QED BY <2>1, Returned, Nulled DEF Clear
<1>2. CASE call # "wait"
  BY <1>2, Strayed DEF Raise
<1> QED BY <1>1, <1>2

LEMMA RecvInitInv ==
  ASSUME IInv, NEW q \in Req, RecvInit(q)
  PROVE  IInv'
<1>1. upc = "idle" /\ Settled(q) /\ UNCHANGED user
  BY NothingPending DEF RecvInit, Calling
<1>2. UserOk' /\ Turns'
  BY <1>1, Typed, AtRest DEF UserOk, user
<1> QED BY <1>1, <1>2, NulledOne, HandleStep DEF RecvInit

LEMMA WaitCallInv ==
  ASSUME IInv, NEW S \in SUBSET Req, S # {},
         NEW m \in {"wait", "waitall", "waitany", "waitsome"}, WaitCall(m, S)
  PROVE  IInv'
<1>1. upc = "idle" /\ scan = 0 /\ \A q \in S : Started(q)
  BY DEF WaitCall, Calling
<1>2. UserOk'
  BY Typed DEF WaitCall, UserOk
<1>3. UNCHANGED <<scan, recvs>> /\ upc' \in {"size", "any"} /\ group' = S
  BY DEF WaitCall, mpi, thread
<1>4. Turns'
  BY <1>1, <1>3 DEF Turns, Started
<1>5. UNCHANGED <<mpi, req, stage, peer, buflen, sized, buf, obj, rlist, thread>>
  BY DEF WaitCall, mr
<1> QED BY <1>1, <1>2, <1>4, <1>5, NulledNone, HandleStep

LEMMA SizesCompleteInv ==
  ASSUME IInv, SizesComplete
  PROVE  IInv'
<1>1. upc = "size" /\ \A q \in InSize : Complete(req[q])
  BY DEF SizesComplete
<1>2. \A q \in InSize : Settled(q)
  BY <1>1, Typed, NothingPending
<1>3. CASE Raise(InSize)
  <2>1. InSize \in SUBSET Req /\ scan = 0 /\ UNCHANGED scan
    BY <1>1, Typed DEF SizesComplete, IInv, Turns, thread
  <2> QED BY <1>1, <1>2, <1>3, <2>1, Raising, HandleStep DEF SizesComplete
<1>4. CASE upc' = "post" /\ UNCHANGED <<req, call, group, answer>>
  <2>1. UserOk'
    BY <1>4, Typed DEF UserOk
  <2>2. UNCHANGED <<recvs, stage, scan>>
    BY DEF SizesComplete, mpi, thread
  <2>3. Turns'
    BY <1>1, <1>4, <2>2 DEF IInv, Turns, Started, InSize, Complete, Pending
  <2> QED BY <1>1, <1>4, <2>1, <2>3, NulledNone, HandleStep DEF SizesComplete
<1> QED BY <1>3, <1>4 DEF SizesComplete

LEMMA SizesPostedInv ==
  ASSUME IInv, SizesPosted
  PROVE  IInv'
<1>1. UserOk' /\ upc = "post" /\ upc' = "data"
  BY Typed DEF SizesPosted, UserOk
<1>2. UNCHANGED <<recvs, scan, group>>
  BY DEF SizesPosted, mpi, thread
<1>3. Turns'
  BY <1>1, <1>2 DEF IInv, Turns, Started
<1>4. UNCHANGED <<mpi, req, stage, peer, buflen, sized, buf, obj, rlist, thread>>
  BY DEF SizesPosted, mr
<1> QED BY <1>1, <1>3, <1>4, NulledNone, HandleStep

LEMMA ContentsOf ==
  ASSUME IInv, NEW q \in Req
  PROVE  Contents(q) \in Objs \cup {Raised}
<1>1. CASE buf[q] = None
  BY <1>1 DEF Contents
<1>2. CASE buf[q] # None
  <2>1. buf[q] \in DOMAIN recvs
    BY <1>2, Typed DEF HandlesOk
  <2>2. recvs[buf[q]].got \in Messages \cup {None}
    BY <2>1, Typed, RecvsAt DEF Receive
  <2>3. recvs[buf[q]].got # None => Load(recvs[buf[q]].got) \in Objs \cup {Raised}
    BY <2>2, MessageFields DEF Load
  <2> QED BY <1>2, <2>3 DEF Contents
<1> QED BY <1>1, <1>2

LEMMA WaitReturnsInv ==
  ASSUME IInv, NEW q \in Req, WaitReturns(q)
  PROVE  IInv'
<1>1. upc = "data" /\ Complete(req[q]) /\ Started(q)
  BY DEF WaitReturns, DataArrived, IInv, Turns
<1>2. peer' \in [Req -> Senders \cup {AnySource}]
  BY <1>1, SourceKnown, Typed DEF WaitReturns, HandlesOk
<1>3. Settled(q)
  BY <1>1, NothingPending
<1>4. Dropped /\ req' \in [Req -> DOMAIN recvs \cup {None, Null}]
  BY <1>3, NulledOne DEF WaitReturns
<1>5. UserOk' /\ Turns'
  BY Returned DEF WaitReturns
<1>6. buf' \in [Req -> DOMAIN recvs \cup {None}]
  BY Typed DEF WaitReturns, HandlesOk
<1>7. obj' \in [Req -> Objs \cup {None}]
  BY Typed, ContentsOf DEF WaitReturns, HandlesOk
<1> QED BY <1>1, <1>2, <1>4, <1>5, <1>6, <1>7, CallStep DEF WaitReturns

LEMMA WaitallReturnsInv ==
  ASSUME IInv, WaitallReturns
  PROVE  IInv'
<1>1. upc = "data" /\ \A q \in group : Complete(req[q])
  BY DEF WaitallReturns, DataArrived
<1>2. \A q \in group : Settled(q)
  BY <1>1, Typed, NothingPending
<1>3. group \in SUBSET Req /\ scan = 0 /\ UNCHANGED scan
  BY <1>1, Typed DEF WaitallReturns, IInv, Turns, thread
<1>4. /\ UserOk' /\ Turns'
      /\ Dropped /\ req' \in [Req -> DOMAIN recvs \cup {None, Null}]
  <2>1. CASE RaiseStale(group)
    BY <1>3, <2>1, Strayed
  <2>2. CASE Return("done") /\ Clear(group)
    BY <1>2, <1>3, <2>2, Returned, Nulled DEF Clear
  <2> QED BY <2>1, <2>2 DEF WaitallReturns
<1> QED BY <1>1, <1>4, HandleStep DEF WaitallReturns

LEMMA TestCallInv ==
  ASSUME IInv, NEW q \in Req, TestCall(q)
  PROVE  IInv'
<1>1. upc = "idle" /\ UNCHANGED <<upc, call, group>>
  BY DEF TestCall, Calling
<1>2. UserOk'
  BY <1>1, Typed DEF TestCall, UserOk
<1>3. Turns'
  BY <1>1, AtRest
<1>4. Dropped /\ req' \in [Req -> DOMAIN recvs \cup {None, Null}]
  <2>1. CASE UNCHANGED req
    BY <2>1, NulledNone
  <2>2. CASE Complete(req[q]) /\ req' = [req EXCEPT ![q] = Null]
    <3>1. Settled(q)
      BY <1>1, <2>2, NothingPending
    <3> QED BY <2>2, <3>1, NulledOne
  <2> QED BY <2>1, <2>2 DEF TestCall
<1> QED BY <1>1, <1>2, <1>3, <1>4, HandleStep DEF TestCall

\* The methods that take an array.
LEMMA OneOfKeeps ==
  ASSUME IInv, upc # "astray", scan = 0, UNCHANGED scan, NEW S \in SUBSET Req, OneOf(S)
  PROVE  /\ Dropped /\ req' \in [Req -> DOMAIN recvs \cup {None, Null}]
         /\ UserOk' /\ Turns'
<1>1. PICK q \in Active(S \ {r \in S : stage[r] = "TX_SIZE"}) :
        /\ Complete(req[q])
        /\ RaiseStale({q}) \/ (Inform({q}, "done") /\ Clear({q}) /\ Leave)
  BY DEF OneOf, ClearAny
<1>2. CASE RaiseStale({q})
  BY <1>2, Strayed
<1>3. CASE Inform({q}, "done") /\ Clear({q}) /\ Leave
  <2>1. {q} \in SUBSET Req /\ \A p \in {q} : Settled(p)
    BY <1>1, NothingPending DEF Active
  <2>2. req' = [p \in Req |-> IF p \in {q} THEN Null ELSE req[p]]
    BY <1>3 DEF Clear
  <2>3. UserOk' /\ Turns'
    BY <1>3, Informed, Left
  <2> QED BY <2>1, <2>2, <2>3, Nulled
<1> QED BY <1>1, <1>2, <1>3

\* MPI completes some; the first of the array are cleared.
LEMMA SomeOfKeeps ==
  ASSUME IInv, upc # "astray", scan = 0, UNCHANGED scan, NEW S \in SUBSET Req, SomeOf(S)
  PROVE  /\ Dropped /\ req' \in [Req -> DOMAIN recvs \cup {None, Null}]
         /\ UserOk' /\ Turns'
<1>1. PICK done \in (SUBSET Active(S)) \ {{}} :
        /\ \A q \in done : Complete(req[q])
        /\ \/ RaiseStale(done)
           \/ /\ Inform(done, "done") /\ Clear(Leading(S, Cardinality(done)))
              /\ \/ Leading(S, Cardinality(done)) = done /\ Leave
                 \/ GoAstray
  BY DEF SomeOf
<1>2. \A q \in done : q \in Req /\ Settled(q)
  <2> TAKE q \in done
  <2>1. q \in Req
    BY DEF Active
  <2> QED BY <1>1, <2>1, NothingPending
<1>3. CASE RaiseStale(done)
  BY <1>3, Strayed
<1>4. CASE /\ Inform(done, "done") /\ Clear(Leading(S, Cardinality(done)))
           /\ (Leading(S, Cardinality(done)) = done /\ Leave) \/ GoAstray
  <2> DEFINE L == Leading(S, Cardinality(done))
  <2>1. L \in SUBSET Req
    BY DEF Leading
  <2>2. upc' = "astray" \/ \A q \in L : Settled(q)
    BY <1>2, <1>4 DEF GoAstray
  <2>3. req' = [p \in Req |-> IF p \in L THEN Null ELSE req[p]]
    BY <1>4 DEF Clear
  <2>4. answer' \in [Req -> {"no", "done", "raised"}]
    BY <1>4, Informed
  <2>5. UserOk' /\ Turns'
    <3>1. CASE Leave
      BY <2>4, <3>1, Left
    <3>2. CASE GoAstray
      BY <2>4, <3>2, Typed, AtRest DEF UserOk, GoAstray
    <3> QED BY <1>4, <3>1, <3>2
  <2> HIDE DEF L
  <2> QED BY <2>1, <2>2, <2>3, <2>5, Nulled
<1> QED BY <1>1, <1>3, <1>4

LEMMA WaitanyReturnsInv ==
  ASSUME IInv, WaitanyReturns
  PROVE  IInv'
<1>1. upc = "any" /\ scan = 0 /\ UNCHANGED scan /\ group \in SUBSET Req
  BY Typed DEF WaitanyReturns, IInv, Turns, thread
<1>2. /\ Dropped /\ req' \in [Req -> DOMAIN recvs \cup {None, Null}]
      /\ UserOk' /\ Turns'
  <2>1. CASE OneOf(group)
    BY <1>1, <2>1, OneOfKeeps
  <2>2. CASE Leave /\ UNCHANGED <<req, answer>>
    BY <2>2, NulledNone, Typed, Left DEF UserOk
  <2> QED BY <2>1, <2>2 DEF WaitanyReturns
<1> QED BY <1>1, <1>2, HandleStep DEF WaitanyReturns

LEMMA WaitsomeReturnsInv ==
  ASSUME IInv, WaitsomeReturns
  PROVE  IInv'
<1>1. upc = "any" /\ scan = 0 /\ UNCHANGED scan /\ group \in SUBSET Req
  BY Typed DEF WaitsomeReturns, IInv, Turns, thread
<1>2. /\ Dropped /\ req' \in [Req -> DOMAIN recvs \cup {None, Null}]
      /\ UserOk' /\ Turns'
  <2>1. CASE SomeOf(group)
    BY <1>1, <2>1, SomeOfKeeps
  <2>2. CASE Leave /\ UNCHANGED <<req, answer>>
    BY <2>2, NulledNone, Typed, Left DEF UserOk
  <2> QED BY <2>1, <2>2 DEF WaitsomeReturns
<1> QED BY <1>1, <1>2, HandleStep DEF WaitsomeReturns

LEMMA TestArrayInv ==
  ASSUME IInv, NEW S \in SUBSET Req, S # {}, TestanyCall(S) \/ TestsomeCall(S) \/ TestallCall(S)
  PROVE  IInv'
<1>1. upc = "idle" /\ scan = 0
  BY DEF TestanyCall, TestsomeCall, TestallCall, TestArray, Calling
<1>2. UNCHANGED <<mpi, stage, peer, buflen, sized, buf, obj, rlist, thread, scan>>
  BY DEF TestanyCall, TestsomeCall, TestallCall, TestArray, thread
<1>3. CASE TestanyCall(S)
  <2>1. /\ Dropped /\ req' \in [Req -> DOMAIN recvs \cup {None, Null}]
        /\ UserOk' /\ Turns'
    BY <1>1, <1>2, <1>3, OneOfKeeps DEF TestanyCall
  <2> QED BY <1>1, <1>2, <2>1, HandleStep
<1>4. CASE TestsomeCall(S)
  <2>1. CASE SomeOf(S)
    <3>1. /\ Dropped /\ req' \in [Req -> DOMAIN recvs \cup {None, Null}]
          /\ UserOk' /\ Turns'
      BY <1>1, <1>2, <2>1, SomeOfKeeps
    <3> QED BY <1>1, <1>2, <3>1, HandleStep
  <2>2. CASE Inform(S, "raised") /\ UNCHANGED <<req, upc, call, group>>
    <3>1. answer' \in [Req -> {"no", "done", "raised"}]
      BY <2>2, Informed
    <3>2. UserOk' /\ Turns'
      BY <1>1, <2>2, <3>1, Typed, AtRest DEF UserOk
    <3> QED BY <1>1, <1>2, <2>2, <3>2, NulledNone, HandleStep
  <2> QED BY <1>4, <2>1, <2>2 DEF TestsomeCall
<1>5. CASE TestallCall(S)
  <2>1. \A q \in S : Settled(q)
    BY <1>1, <1>5, NothingPending DEF TestallCall
  <2>2. /\ Dropped /\ req' \in [Req -> DOMAIN recvs \cup {None, Null}]
        /\ UserOk' /\ Turns'
    <3>1. CASE RaiseStale(S)
      BY <1>1, <1>2, <3>1, Strayed
    <3>2. CASE Inform(S, "done") /\ Clear(S) /\ Leave
      BY <2>1, <3>2, Informed, Left, Nulled DEF Clear
    <3> QED BY <1>5, <3>1, <3>2 DEF TestallCall
  <2> QED BY <1>1, <1>2, <2>2, HandleStep
<1> QED BY <1>3, <1>4, <1>5

-----------------------------------------------------------------------------
(* The steps that post a receive, and cancel.                               *)

\* What a new receive does to the table of handles.
LEMMA NewHandle ==
  ASSUME IInv, NEW q \in Req, NEW r \in Receive, recvs' = Append(recvs, r),
         req' \in [Req -> DOMAIN recvs \cup {Len(recvs) + 1, None, Null}],
         buf' \in [Req -> DOMAIN recvs \cup {Len(recvs) + 1, None}],
         stage' \in [Req -> {"TX_SIZE", "TX_DATA"}],
         UNCHANGED <<peer, buflen, obj>>
  PROVE  HandlesOk'
<1>1. recvs' \in Seq(Receive) /\ DOMAIN recvs' = DOMAIN recvs \cup {Len(recvs) + 1}
  BY Typed, Appended
<1>2. req' \in [Req -> DOMAIN recvs' \cup {None, Null}]
  BY <1>1
<1>3. buf' \in [Req -> DOMAIN recvs' \cup {None}]
  BY <1>1
<1> QED BY <1>1, <1>2, <1>3, Typed DEF HandlesOk

\* A receive with room for a length that was received.
LEMMA DataReceive ==
  ASSUME IInv, NEW q \in Req, Count(buflen[q]) >= 0
  PROVE  [q |-> q, part |-> "data", src |-> peer[q], room |-> Count(buflen[q]),
          got |-> None, cancelled |-> FALSE] \in Receive
<1>1. buflen[q] \in Lengths \cup {0} /\ peer[q] \in Senders \cup {AnySource}
  BY Typed DEF HandlesOk
<1>2. Count(buflen[q]) \in Int
  BY <1>1, Constants
<1>3. Count(buflen[q]) \in Nat
  BY <1>2
<1> QED BY <1>1, <1>3 DEF Receive

LEMMA PostInv ==
  ASSUME IInv, NEW q \in Req, upc = "idle", req[q] \in {None, Null}, Post(q),
         "restart" \notin Uses[q] => ~Started(q)
  PROVE  IInv'
<1> DEFINE r == [q |-> q, part |-> "size", src |-> peer[q], room |-> IntBytes,
                 got |-> None, cancelled |-> FALSE]
<1>a. TypeOK /\ HandlesOk /\ ThreadsOk
  BY Typed
<1>1. r \in Receive /\ r.q = q /\ r.part = "size"
  BY <1>a, Constants DEF HandlesOk, Receive
<1>2. recvs' = Append(recvs, r) /\ req' = [req EXCEPT ![q] = Len(recvs) + 1]
  BY DEF Post, Irecv
<1> HIDE DEF r
<1>3. UNCHANGED <<wire, out, count, stage, peer, buflen, buf, obj, scan, alive, upc, call, group>>
  BY DEF Post, thread
<1>4. HandlesOk'
  <2>1. req' \in [Req -> DOMAIN recvs \cup {Len(recvs) + 1, None, Null}]
    BY <1>2, Typed
  <2>2. buf' \in [Req -> DOMAIN recvs \cup {Len(recvs) + 1, None}]
    BY <1>3, <1>a DEF HandlesOk
  <2>3. stage' \in [Req -> {"TX_SIZE", "TX_DATA"}]
    BY <1>3, <1>a DEF HandlesOk
  <2> QED BY <1>1, <1>2, <1>3, <2>1, <2>2, <2>3, NewHandle
<1>5. /\ rlist' \in Seq(Req \cup {None, Wild}) /\ Len(rlist') \in Nat
      /\ Len(rlist) <= Len(rlist')
      /\ \A p \in Req \ {q} : Slots(p)' = Slots(p)
      /\ \E i : Slots(q)' = Slots(q) \cup {i}
  BY <1>a, NowWatched DEF Post
<1>6. ThreadsOk'
  <2>1. Len(rlist') # 0 /\ scan' \in 0 .. Len(rlist')
    BY <1>a, <1>3, <1>5, SlotsOf DEF ThreadsOk
  <2>2. answer' \in [Req -> {"no", "done", "raised"}]
    BY <1>a DEF Post, ThreadsOk
  <2> QED BY <1>a, <1>3, <1>5, <2>1, <2>2 DEF ThreadsOk
<1>7. Turns'
  BY <1>3, AtRest
<1>8. Settled(q)
  BY NothingPending
<1>9. Watched(q)'
  <2>1. "restart" \notin Uses[q] => stage[q] = "TX_SIZE" /\ Slots(q) = {}
    BY DEF IInv, Known
  <2>2. PICK i : Slots(q)' = Slots(q) \cup {i}
    BY <1>5
  <2>3. "restart" \notin Uses[q] => Slots(q)' = {i} /\ stage'[q] = "TX_SIZE"
    BY <1>3, <2>1, <2>2
  <2> QED BY <2>3 DEF Watched
<1>10. Posted(q)'
  <2>1. Receives(q, "data")' = Receives(q, "data")
    BY <1>a, <1>1, <1>2, AppendedSame
  <2> QED BY <1>3, <2>1 DEF IInv, Posted
<1>11. req'[q] = Len(recvs) + 1 /\ \A p \in Req \ {q} : req'[p] = req[p] /\ stage'[p] = stage[p]
  BY <1>2, <1>3, Typed
<1>12. UNCHANGED <<wire, out, count>>
  BY <1>3
<1> QED BY <1>1, <1>2, <1>4, <1>5, <1>6, <1>7, <1>8, <1>9, <1>10, <1>11, <1>12, PostingStep

LEMMA StartingInv ==
  ASSUME IInv, NEW q \in Req, IrecvCall(q) \/ StartCall(q)
  PROVE  IInv'
<1>1. CASE IrecvCall(q)
  <2>1. upc = "idle" /\ req[q] = None /\ Post(q)
    BY <1>1 DEF IrecvCall, Calling
  <2>2. ~Started(q)
    BY <2>1 DEF IInv, Known
  <2> QED BY <2>1, <2>2, PostInv
<1>2. CASE StartCall(q)
  <2>1. upc = "idle" /\ req[q] = Null /\ Post(q)
    BY <1>2 DEF StartCall, Calling
  <2>2. "restart" \notin Uses[q] => ~Started(q)
    BY <1>2 DEF StartCall, Calling
  <2> QED BY <2>1, <2>2, PostInv
<1> QED BY <1>1, <1>2

LEMMA PostDataInv ==
  ASSUME IInv, NEW q \in Req, PostData(q)
  PROVE  IInv'
<1>a. TypeOK /\ HandlesOk /\ ThreadsOk
  BY Typed
<1>1. upc = "post" /\ q \in InSize /\ Complete(req[q]) /\ stage[q] = "TX_SIZE"
  BY DEF PostData, IInv, Turns, InSize
<1>2. Settled(q) /\ Started(q) /\ scan = 0
  <2>1. q \in group
    BY <1>1, Typed
  <2> QED BY <1>1, <2>1, NothingPending DEF IInv, Turns
<1>3. UNCHANGED <<wire, out, count, peer, buflen, sized, obj, scan, alive>>
  BY DEF PostData, thread
<1>4. CASE Raise({q}) /\ UNCHANGED <<recvs, stage, buf, rlist>>
  <2>1. /\ UserOk' /\ Turns'
        /\ Dropped /\ req' \in [Req -> DOMAIN recvs \cup {None, Null}]
    BY <1>2, <1>3, <1>4, Raising
  <2>2. UNCHANGED <<mpi, stage, peer, buflen, sized, buf, obj, rlist, thread>>
    BY <1>3, <1>4 DEF mpi, thread
  <2> QED BY <1>1, <2>1, <2>2, HandleStep
<1>5. CASE /\ Count(buflen[q]) >= 0
           /\ Irecv(q, "data", peer[q], Count(buflen[q]))
           /\ buf' = [buf EXCEPT ![q] = Len(recvs) + 1]
           /\ stage' = [stage EXCEPT ![q] = "TX_DATA"]
           /\ Unwatch(q)
           /\ UNCHANGED user
  <2> DEFINE r == [q |-> q, part |-> "data", src |-> peer[q], room |-> Count(buflen[q]),
                   got |-> None, cancelled |-> FALSE]
             new == Len(recvs) + 1
  <2>1. r \in Receive /\ r.q = q /\ r.part = "data" /\ recvs' = Append(recvs, r)
        /\ req' = [req EXCEPT ![q] = new]
    BY <1>5, DataReceive DEF Irecv
  <2> HIDE DEF r
  <2>2. HandlesOk'
    <3>1. req' \in [Req -> DOMAIN recvs \cup {Len(recvs) + 1, None, Null}]
      BY <2>1, Typed
    <3>2. buf' \in [Req -> DOMAIN recvs \cup {Len(recvs) + 1, None}]
      BY <1>5, <1>a DEF HandlesOk
    <3>3. stage' \in [Req -> {"TX_SIZE", "TX_DATA"}]
      BY <1>5, <1>a DEF HandlesOk
    <3> QED BY <1>3, <2>1, <3>1, <3>2, <3>3, NewHandle
  <2>3. /\ rlist' \in Seq(Req \cup {None, Wild}) /\ Len(rlist') = Len(rlist)
        /\ \A p \in Req \ {q} : Slots(p)' = Slots(p)
        /\ Slots(q)' \subseteq Slots(q)
        /\ (\A i, j \in Slots(q) : i = j) => Slots(q)' = {}
    BY <1>a, <1>5, Unwatched
  <2>4. ThreadsOk'
    BY <1>a, <1>3, <1>5, <2>3 DEF ThreadsOk, user
  <2>5. stage'[q] = "TX_DATA" /\ \A p \in Req \ {q} : stage'[p] = stage[p]
    BY <1>a, <1>5 DEF HandlesOk
  <2>6. req'[q] = new /\ \A p \in Req \ {q} : req'[p] = req[p]
    BY <2>1, Typed
  <2>7. Watched(q)'
    BY <2>3, <2>5 DEF IInv, Watched
  <2>8. Posted(q)'
    <3>1. Receives(q, "data")' = Receives(q, "data") \cup {new}
      BY <1>a, <2>1, AppendedSame DEF new
    <3>2. {"restart", "cancel"} \cap Uses[q] = {} => Receives(q, "data") = {}
      BY <1>1 DEF IInv, Posted
    <3> QED BY <2>5, <3>1, <3>2 DEF Posted
  <2>9. UNCHANGED <<upc, group, scan>>
    BY <1>3, <1>5 DEF user
  <2>10. Turns'
    <3>1. \A p \in Req : Started(p) => Started(p)'
      BY <1>a, <2>1, AppendedSame
    <3>2. group' # {} /\ \A p \in group' : Started(p)'
      BY <1>1, <2>9, <3>1, Typed DEF IInv, Turns
    <3>3. ASSUME NEW p \in InSize'
          PROVE  Complete(req[p])'
      <4>1. p \in Req \ {q} /\ p \in InSize
        BY <2>5, <2>9, Typed DEF InSize
      <4>2. Complete(req[p]) /\ req'[p] = req[p] /\ req[p] \in DOMAIN recvs \cup {Null}
        <5>1. Complete(req[p]) /\ Started(p)
          BY <1>1, <4>1, Typed DEF IInv, Turns
        <5> QED BY <2>6, <4>1, <5>1, HandleOf
      <4>3. \A i \in DOMAIN recvs : recvs'[i] = recvs[i]
        BY <1>a, <2>1, Appended
      <4> QED BY <4>2, <4>3 DEF Complete, Pending
    <3> QED BY <1>2, <2>9, <3>2, <3>3 DEF Turns
  <2>11. UNCHANGED <<wire, out, count>>
    BY <1>3
  <2> QED BY <1>1, <1>2, <2>1, <2>2, <2>3, <2>4, <2>5, <2>6, <2>7, <2>8, <2>10, <2>11, PostingStep
       DEF new
<1> QED BY <1>4, <1>5 DEF PostData

LEMMA WaitanyInSizeInv ==
  ASSUME IInv, WaitanyInSize
  PROVE  IInv'
<1>a. TypeOK /\ HandlesOk /\ ThreadsOk /\ UserOk
  BY Typed
<1>1. upc = "any" /\ InSize = group /\ group # {} /\ group \in SUBSET Req /\ scan = 0
  BY Typed DEF WaitanyInSize, IInv, Turns
<1>2. UNCHANGED <<wire, out, count, stage, peer, buflen, sized, obj, rlist, scan, alive>>
  BY DEF WaitanyInSize, thread
<1>3. CASE /\ UNCHANGED <<recvs, buf>>
           /\ (Leave /\ UNCHANGED <<req, answer>>) \/ \E q \in Req : RaiseStale({q})
  <2>1. /\ UserOk' /\ Turns'
        /\ Dropped /\ req' \in [Req -> DOMAIN recvs \cup {None, Null}]
    <3>1. CASE Leave /\ UNCHANGED <<req, answer>>
      BY <1>a, <3>1, Left, NulledNone DEF UserOk
    <3>2. CASE \E q \in Req : RaiseStale({q})
      BY <1>1, <1>2, <3>2, Strayed
    <3> QED BY <1>3, <3>1, <3>2
  <2>2. UNCHANGED <<mpi, stage, peer, buflen, sized, buf, obj, rlist, thread>>
    BY <1>2, <1>3 DEF mpi, thread
  <2> QED BY <1>1, <2>1, <2>2, HandleStep
<1>b. PICK last \in group : last = LastIn(group)
  BY <1>1, LastOf
<1> DEFINE new == Len(recvs) + 1
           r == [q |-> last, part |-> "data", src |-> peer[last], room |-> Count(buflen[last]),
                 got |-> None, cancelled |-> FALSE]
<1>4. CASE \E q \in Active(group) :
             /\ ~(Count(buflen[last]) < 0)
             /\ recvs' = Append(recvs, r)
             /\ req' = [req EXCEPT ![last] = new, ![q] = Null]
             /\ buf' = [buf EXCEPT ![last] = new]
             /\ GoAstray /\ UNCHANGED answer
  <2>1. PICK q \in Req :
             /\ ~(Count(buflen[last]) < 0)
             /\ recvs' = Append(recvs, r)
             /\ req' = [req EXCEPT ![last] = new, ![q] = Null]
             /\ buf' = [buf EXCEPT ![last] = new]
             /\ GoAstray /\ UNCHANGED answer
    BY <1>1, <1>4 DEF Active
  <2>2. last \in group /\ last \in Req /\ stage[last] = "TX_SIZE"
    BY <1>1 DEF InSize
  <2>3. r \in Receive /\ r.q = last /\ r.part = "data"
    <3>1. buflen[last] \in Lengths \cup {0}
      BY <1>a, <2>2 DEF HandlesOk
    <3>2. Count(buflen[last]) \in Int
      BY <3>1, Constants
    <3>3. Count(buflen[last]) >= 0
      BY <2>1, <3>2
    <3> QED BY <2>2, <3>3, DataReceive
  <2> HIDE DEF r
  <2>4. HandlesOk'
    <3>1. req' \in [Req -> DOMAIN recvs \cup {Len(recvs) + 1, None, Null}]
      BY <2>1, Typed
    <3>2. buf' \in [Req -> DOMAIN recvs \cup {Len(recvs) + 1, None}]
      BY <1>a, <2>1 DEF HandlesOk
    <3>3. stage' \in [Req -> {"TX_SIZE", "TX_DATA"}]
      BY <1>a, <1>2 DEF HandlesOk
    <3> QED BY <1>2, <2>1, <2>2, <2>3, <3>1, <3>2, <3>3, NewHandle
  <2>5. upc' = "astray" /\ UNCHANGED <<call, group, answer>>
    BY <2>1 DEF GoAstray
  <2>6. ThreadsOk'
    BY <1>a, <1>2, <2>5 DEF ThreadsOk
  <2>7. Turns'
    BY <1>1, <1>2, <2>5, AtRest
  <2>8. \A p \in Req : Slots(p)' = Slots(p) /\ stage'[p] = stage[p]
    BY <1>2 DEF Slots
  <2>9. Watched(last)'
    <3>1. Started(last)
      BY <1>1, <2>2 DEF IInv, Turns
    <3>2. Started(last)'
      BY <1>a, <2>1, <2>2, <2>3, AppendedSame
    <3> QED BY <2>2, <2>8, <3>1, <3>2 DEF IInv, Watched
  <2>10. Posted(last)'
    <3>1. Receives(last, "data")' = Receives(last, "data") \cup {new}
      BY <1>a, <2>1, <2>2, <2>3, AppendedSame DEF new
    <3>2. {"restart", "cancel"} \cap Uses[last] = {} => Receives(last, "data") = {}
      BY <1>1, <2>2 DEF IInv, Posted
    <3> QED BY <2>5, <3>1, <3>2 DEF Posted
  <2>11. req'[last] \in {new, Null}
         /\ \A p \in Req \ {last} : req'[p] = req[p] \/ req'[p] = Null
    BY <2>1, <2>2, Typed
  <2>12. UNCHANGED <<wire, out, count>>
    BY <1>2
  <2> QED BY <2>1, <2>2, <2>3, <2>4, <2>5, <2>6, <2>7, <2>8, <2>9, <2>10, <2>11, <2>12, PostingStep
       DEF new
<1> QED
  <2>1. \A q \in Active(group) : q \in Req
    BY <1>1 DEF Active
  <2> QED BY <1>b, <1>3, <1>4, <2>1 DEF WaitanyInSize

LEMMA CancelInv ==
  ASSUME IInv, NEW q \in Req, CancelCall(q)
  PROVE  IInv'
<1>a. TypeOK /\ HandlesOk /\ ThreadsOk
  BY Typed
<1>1. upc = "idle" /\ "cancel" \in Uses[q] /\ Started(q)
      /\ UNCHANGED <<wire, out, count, req, peer, buflen, obj, scan, alive, upc, call, group>>
  BY DEF CancelCall, Calling, thread
<1>2. stage' = [stage EXCEPT ![q] = "TX_SIZE"] /\ buf' = [buf EXCEPT ![q] = None] /\ Unwatch(q)
  BY DEF CancelCall
<1>3. recvs' \in Seq(Receive) /\ Kept
  <2>1. CASE Complete(req[q])
    BY <1>a, <2>1 DEF CancelCall, Kept, HandlesOk, Pending
  <2>2. CASE ~Complete(req[q])
    <3> DEFINE h == req[q]
    <3>1. h \in DOMAIN recvs
      BY <1>1, <2>2, HandleOf DEF Complete
    <3>2. recvs' = [recvs EXCEPT ![h].cancelled = TRUE]
      BY <2>2 DEF CancelCall
    <3>3. recvs \in Seq(Receive) /\ recvs[h] \in Receive
      BY <1>a, <3>1, RecvsAt DEF HandlesOk
    <3> HIDE DEF h
    <3>4. [recvs[h] EXCEPT !.cancelled = TRUE] \in Receive
      BY <3>3 DEF Receive
    <3>5. recvs' \in Seq(Receive) /\ DOMAIN recvs' = DOMAIN recvs
          /\ recvs'[h] = [recvs[h] EXCEPT !.cancelled = TRUE]
          /\ \A j \in DOMAIN recvs \ {h} : recvs'[j] = recvs[j]
      BY <3>1, <3>2, <3>3, <3>4
    <3>6. recvs'[h].cancelled = TRUE /\ recvs'[h].q = recvs[h].q /\ recvs'[h].part = recvs[h].part
      BY <3>3, <3>5 DEF Receive
    <3> QED BY <3>5, <3>6 DEF Kept, Pending
  <2> QED BY <2>1, <2>2
<1>4. HandlesOk'
  <2>1. DOMAIN recvs' = DOMAIN recvs
    BY <1>3 DEF Kept
  <2> QED BY <1>a, <1>1, <1>2, <1>3, <2>1 DEF HandlesOk
<1>5. /\ rlist' \in Seq(Req \cup {None, Wild}) /\ Len(rlist') = Len(rlist)
      /\ \A p \in Req \ {q} : Slots(p)' = Slots(p)
      /\ Slots(q)' \subseteq Slots(q)
      /\ (\A i, j \in Slots(q) : i = j) => Slots(q)' = {}
  BY <1>a, <1>2, Unwatched
<1>6. ThreadsOk' /\ WireOk' /\ Measured' /\ Turns'
  <2>1. ThreadsOk'
    <3>1. answer' \in [Req -> {"no", "done", "raised"}]
      BY <1>a DEF CancelCall, ThreadsOk
    <3> QED BY <1>a, <1>1, <1>5, <3>1 DEF ThreadsOk
  <2>2. WireOk' /\ Measured'
    BY <1>1, TypeParts DEF IInv, WireOk, Measured
  <2> QED BY <1>1, <2>1, <2>2, AtRest
<1>7. ASSUME NEW p \in Req \ {q}
      PROVE  Known(p)' /\ Watched(p)' /\ Posted(p)'
  <2>1. stage'[p] = stage[p]
    BY <1>a, <1>2 DEF HandlesOk
  <2> QED BY <1>1, <1>3, <1>5, <2>1, KeptSame, Elsewhere
<1>8. Known(q)' /\ Watched(q)' /\ Posted(q)'
  <2>1. stage'[q] = "TX_SIZE"
    BY <1>a, <1>2 DEF HandlesOk
  <2>2. Started(q)' /\ req'[q] # None
    BY <1>1, <1>3, KeptSame DEF IInv, Known
  <2>3. Known(q)'
    BY <2>2 DEF Known
  <2>4. Watched(q)'
    BY <1>1, <1>5, <2>1 DEF IInv, Watched
  <2>5. Posted(q)'
    BY <1>1 DEF Posted
  <2> QED BY <2>3, <2>4, <2>5
<1>9. NoStrayReceive'
  <2> SUFFICES ASSUME NEW i \in DOMAIN recvs, recvs'[i].got = None, ~recvs'[i].cancelled
               PROVE  req'[recvs'[i].q] = i
    BY <1>3 DEF NoStrayReceive, Kept, Pending
  <2>1. Pending(i) /\ recvs'[i].q = recvs[i].q
    BY <1>3 DEF Kept
  <2> QED BY <1>1, <2>1 DEF IInv, NoStrayReceive
<1> QED BY <1>4, <1>6, <1>7, <1>8, <1>9, TypeParts DEF IInv

-----------------------------------------------------------------------------
(* The theorems.                                                            *)

LEMMA NextInv ==
  ASSUME IInv, [Next]_vars
  PROVE  IInv'
<1>1. CASE \E s \in Senders : Sending(s)
  BY <1>1, SendingInv
<1>2. CASE Mpi
  BY <1>2, DeliverInv DEF Mpi
<1>3. CASE Background
  BY <1>3, BackgroundInv
<1>4. CASE Blocked
  BY <1>4, SizesCompleteInv, SizesPostedInv, WaitallReturnsInv, WaitanyReturnsInv, WaitanyInSizeInv,
     WaitsomeReturnsInv, PostDataInv, WaitReturnsInv DEF Blocked
<1>5. CASE Program
  <2>1. ASSUME NEW q \in Req, WaitCall("wait", {q})
        PROVE  IInv'
    BY <2>1, WaitCallInv
  <2> QED BY <1>5, <2>1, StartingInv, RecvInitInv, TestCallInv, CancelInv, WaitCallInv, TestArrayInv
          DEF Program
<1>6. CASE UNCHANGED vars
  <2>1. UNCHANGED <<mpi, mr, rlist, thread, user>>
    BY <1>6 DEF vars
  <2>2. UNCHANGED <<wire, out, count, recvs>>
    BY <2>1 DEF mpi
  <2>3. WireOk' /\ Measured'
    BY <2>2, TypeParts DEF IInv, WireOk, Measured
  <2> QED BY <2>1, <2>2, <2>3, SenderStep
<1> QED BY <1>1, <1>2, <1>3, <1>4, <1>5, <1>6 DEF Next

\* The inductive invariant of the receive requests, of the thread that watches
\* them and of the program that waits for them holds in every reachable state.
THEOREM SpecInv == Spec => []IInv
<1>1. Init => IInv
  BY InitInv
<1>2. IInv /\ [Next]_vars => IInv'
  BY NextInv
<1> QED BY <1>1, <1>2, PTL DEF Spec

\* Whatever the program and the background thread do, no receive is left with
\* MPI that no request knows of, nor has a request two.
THEOREM SpecNoStrayReceive == Spec => []NoStrayReceive
<1>1. IInv => NoStrayReceive
  BY DEF IInv
<1> QED BY <1>1, SpecInv, PTL

\* request_watch and request_unwatch keep a request on the list of the thread
\* exactly while its size is missing, in one slot, however the list grows.
THEOREM SpecWatchedExactly == Spec => []WatchedExactly
<1>1. IInv => WatchedExactly
  <2> SUFFICES ASSUME IInv, NEW q \in Req, "restart" \notin Uses[q]
               PROVE  /\ Cardinality(Slots(q)) <= IF Started(q) /\ stage[q] = "TX_SIZE" THEN 1 ELSE 0
                      /\ Started(q) /\ stage[q] = "TX_SIZE" /\ "cancel" \notin Uses[q] => Slots(q) # {}
    BY DEF WatchedExactly
  <2>1. Watched(q) /\ Known(q)
    BY DEF IInv
  <2>2. CASE Slots(q) = {}
    <3>1. Cardinality(Slots(q)) = 0
      BY <2>2, FS_EmptySet
    <3> QED BY <2>1, <3>1 DEF Watched
  <2>3. CASE Slots(q) # {}
    <3>1. PICK i : Slots(q) = {i}
      <4>1. PICK i : i \in Slots(q)
        BY <2>3
      <4>2. Slots(q) = {i}
        BY <2>1, <4>1 DEF Watched
      <4> QED BY <4>2
    <3>2. Cardinality(Slots(q)) = 1
      BY <3>1, FS_Singleton
    <3>3. Started(q) /\ stage[q] = "TX_SIZE"
      BY <2>1, <2>3 DEF Watched, Known
    <3> QED BY <2>3, <3>2, <3>3
  <2> QED BY <2>2, <2>3
<1> QED BY <1>1, SpecInv, PTL

\* The receive of the data is posted once, by a wait or by the background
\* thread, never by both.
THEOREM SpecOneDataReceive == Spec => []OneDataReceive
<1>1. IInv => OneDataReceive
  BY DEF IInv, Posted, Receives, OneDataReceive
<1> QED BY <1>1, SpecInv, PTL
=============================================================================
