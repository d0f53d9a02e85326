------------------------------- MODULE Gather -------------------------------
(***************************************************************************)
(* MPI::Comm#gather and #bcast (comm_gather, comm_bcast, src/mpi_comm.c)   *)
(* in a program of rounds.  In a round all processes gather, or broadcast, *)
(* or the workers send a report to the root, which receives from anywhere  *)
(* (examples/red.rb).                                                      *)
(*                                                                         *)
(* gather is made of point-to-point messages with the tag GATHER_TAG, on   *)
(* the communicator of the program, and nobody waits for the others before *)
(* the next round: rounds overlap on the wire.  A recv with ANY_TAG would  *)
(* take them for its own: the programs here name the tag of their reports. *)
(***************************************************************************)
EXTENDS Framing, Sequences

CONSTANTS N,          \* csize
          Plans,      \* sequences of rounds: what is done, and the root
          ReportTag,  \* tag of the reports, which the root passes to recv
          None        \* no letter, no message yet

Ranks == 0 .. N - 1
GATHER_TAG == 42

ASSUME RoundsOk ==
  /\ N \in Nat \ {0} /\ Objs = Ranks
  /\ Plans \subseteq Seq({"gather", "bcast", "report"} \X Ranks)
  /\ ReportTag # GATHER_TAG
  /\ AnySource \notin Ranks /\ AnyTag \notin {GATHER_TAG, ReportTag}

\* The object of rank src in round n, with the length that goes with it.
Letter == [src : Ranks, dst : Ranks, tag : {GATHER_TAG, ReportTag}, n : Nat,
           len : Lengths, obj : Objs]
Message == [kind : {"size", "data"}, of : Letter]

ASSUME NoneOk == None \notin Letter /\ None \notin Message /\ None \notin [of : Ranks, n : Nat]

VARIABLES plan,    \* the rounds of the program
          wire,    \* messages handed to MPI and not matched yet
          cast,    \* cast[n]: what the root of round n has given to MPI_Bcast
          calls,   \* calls[p]: rounds p has begun
          pc,      \* pc[p]: out of them, or which MPI call p is in, or raised
          out,     \* out[p]: the letter p sends in this round, or None
          k,       \* k[p]: objects p, the root, has received in this round
          first,   \* first[p]: the size p has received, or None
          length,  \* length[p]: the int it stored
          ary      \* ary[p]: the objects p has gathered: whose, of which round

vars == <<plan, wire, cast, calls, pc, out, k, first, length, ary>>

Init ==
  /\ plan \in Plans
  /\ wire = {}
  /\ cast = [n \in DOMAIN plan |-> <<>>]
  /\ calls = [p \in Ranks |-> 0]
  /\ pc = [p \in Ranks |-> "out"]
  /\ out = [p \in Ranks |-> None]
  /\ k = [p \in Ranks |-> 0]
  /\ first = [p \in Ranks |-> None]
  /\ length = [p \in Ranks |-> 0]
  /\ ary = [p \in Ranks |-> [q \in Ranks |-> None]]

-----------------------------------------------------------------------------
Kind(p) == plan[calls[p]][1]
Root(p) == plan[calls[p]][2]

\* p is about to begin a round of this kind, at its root or elsewhere.
Role(p, kind, atRoot) ==
  /\ pc[p] = "out" /\ calls[p] < Len(plan)
  /\ plan[calls[p] + 1][1] = kind
  /\ atRoot = (p = plan[calls[p] + 1][2])

NewLetters(p) ==
  {[src |-> p, dst |-> plan[calls[p] + 1][2], n |-> calls[p] + 1, len |-> len, obj |-> p,
    tag |-> IF plan[calls[p] + 1][1] = "report" THEN ReportTag ELSE GATHER_TAG] :
   len \in Lengths}

\* It begins with a letter to send, or None, and goes to next.
Begin(p, l, next) ==
  /\ calls' = [calls EXCEPT ![p] = @ + 1]
  /\ pc' = [pc EXCEPT ![p] = next]
  /\ out' = [out EXCEPT ![p] = l]
  /\ ary' = [ary EXCEPT ![p] =
               [q \in Ranks |-> IF q = p /\ Role(p, "gather", TRUE)
                                THEN [of |-> p, n |-> calls[p] + 1] ELSE None]]
  /\ UNCHANGED <<plan, k, first, length>>

\* The call returns, or raises.
Return(p, how) ==
  /\ pc' = [pc EXCEPT ![p] = how]
  /\ out' = [out EXCEPT ![p] = None]
  /\ k' = [k EXCEPT ![p] = 0]
  /\ UNCHANGED <<plan, calls, first, length, ary>>

\* gather, not at the root: two MPI_Isend in a row.
GatherSend(p) ==
  /\ Role(p, "gather", FALSE)
  /\ \E l \in NewLetters(p) :
       /\ wire' = wire \cup {Size(l)} \cup (IF Whole(l) THEN {Data(l)} ELSE {})
       /\ Begin(p, l, IF Whole(l) THEN "sent" ELSE "raised")
  /\ UNCHANGED cast

\* A report: comm_send, whose second MPI_Send waits for the first.
ReportSend(p) ==
  /\ Role(p, "report", FALSE)
  /\ \E l \in NewLetters(p) : wire' = wire \cup {Size(l)} /\ Begin(p, l, "sending")
  /\ UNCHANGED cast

SendData(p) ==
  /\ pc[p] = "sending"
  /\ \/ /\ Whole(out[p])
        /\ wire' = wire \cup {Data(out[p])}
        /\ pc' = [pc EXCEPT ![p] = "sent"]
        /\ UNCHANGED <<plan, calls, out, k, first, length, ary>>
     \/ ~Whole(out[p]) /\ Return(p, "raised") /\ UNCHANGED wire
  /\ UNCHANGED cast

\* MPI_Waitall, or the second MPI_Send, returns.
SendReturns(p) == pc[p] = "sent" /\ Return(p, "out") /\ UNCHANGED <<wire, cast>>

-----------------------------------------------------------------------------
\* The root of a gather, or of a round of reports, begins to receive.
Receive(p) ==
  /\ \E kind \in {"gather", "report"} : Role(p, kind, TRUE)
  /\ Begin(p, None, "size")
  /\ UNCHANGED <<wire, cast>>

\* The loop has received from all other processes.
LeavesEarly(p) == pc[p] = "size" /\ k[p] + 2 = N   \* mutant: one turn short
LeavesLate(p) == pc[p] = "size" /\ k[p] = N        \* mutant: one turn too many
Received(p) == pc[p] = "size" /\ k[p] + 1 = N

Leave(p) == Received(p) /\ Return(p, "out") /\ UNCHANGED <<wire, cast>>

\* The other ranks in order, in gather; anywhere, in recv, which then keeps to
\* the sender of the size.
SelfToo(p) == IF Kind(p) = "gather" THEN k[p] ELSE AnySource   \* mutant: root not skipped
Sender(p) ==
  IF Kind(p) # "gather" THEN AnySource
  ELSE IF k[p] < p THEN k[p] ELSE k[p] + 1

AnySize(p) ==          \* mutant: gather takes them as they come
  Receivable(wire, p, IF pc[p] = "size" THEN AnySource ELSE first[p].of.src,
             IF Kind(p) = "gather" THEN GATHER_TAG ELSE ReportTag)
AnyData(p) ==          \* mutant: the data may come from anyone
  Receivable(wire, p, IF pc[p] = "size" THEN Sender(p) ELSE AnySource,
             IF Kind(p) = "gather" THEN GATHER_TAG ELSE ReportTag)
Due(p) ==
  Receivable(wire, p, IF pc[p] = "size" THEN Sender(p) ELSE first[p].of.src,
             IF Kind(p) = "gather" THEN GATHER_TAG ELSE ReportTag)

\* The int that comes with a size.  A gather whose data MPI refuses has raised,
\* and MPI may yet read the variable length of a call that is over.
Read(m) == IF m.of.tag = GATHER_TAG /\ ~Whole(m.of) THEN Lengths ELSE Stored(m)

\* MPI_Recv of the size and the allocation of the buffer.
TakeSize(p) ==
  /\ pc[p] = "size" /\ ~Received(p)
  /\ \E m \in Due(p) :
       /\ wire' = wire \ {m}
       /\ first' = [first EXCEPT ![p] = m]
       /\ \E len \in Read(m) :
            /\ length' = [length EXCEPT ![p] = len]
            /\ pc' = [pc EXCEPT ![p] = IF Bytes(m) > IntBytes \/ Count(len) < 0
                                        THEN "raised" ELSE "data"]
  /\ UNCHANGED <<plan, cast, calls, out, k, ary>>

\* gather passes MPI_INT for the data it receives.
Room(p) == IF Kind(p) = "gather" THEN IntBytes * Count(length[p]) ELSE Count(length[p])

\* MPI_Recv of the data and Marshal.load.
TakeData(p) ==
  /\ pc[p] = "data"
  /\ first' = [first EXCEPT ![p] = None]
  /\ length' = [length EXCEPT ![p] = 0]
  /\ \E m \in Due(p) :
       /\ wire' = wire \ {m}
       /\ IF Bytes(m) > Room(p) \/ Load(m) = Raised
          THEN pc' = [pc EXCEPT ![p] = "raised"] /\ UNCHANGED <<k, ary>>
          ELSE /\ pc' = [pc EXCEPT ![p] = "size"]
               /\ k' = [k EXCEPT ![p] = @ + 1]
               /\ ary' = IF Kind(p) = "report" THEN ary
                         ELSE [ary EXCEPT ![p][Sender(p)] = [of |-> m.of.obj, n |-> m.of.n]]
  /\ UNCHANGED <<plan, cast, calls, out>>

-----------------------------------------------------------------------------
\* bcast.  MPI_Bcast returns at the root whether the others have come or not.
CastLength(p) ==
  /\ Role(p, "bcast", TRUE)
  /\ \E l \in NewLetters(p) :
       cast' = [cast EXCEPT ![l.n] = <<Size(l)>>] /\ Begin(p, l, "cast")
  /\ UNCHANGED wire

CastData(p) ==
  /\ pc[p] = "cast"
  /\ IF Whole(out[p])
     THEN cast' = [cast EXCEPT ![calls[p]] = Append(@, Data(out[p]))] /\ Return(p, "out")
     ELSE Return(p, "raised") /\ UNCHANGED cast
  /\ UNCHANGED wire

Listen(p) == Role(p, "bcast", FALSE) /\ Begin(p, None, "hear") /\ UNCHANGED <<wire, cast>>

\* length bytes are loaded, not length + 1.
Hear(p) ==
  /\ pc[p] = "hear"
  /\ LET c == cast[calls[p]] IN
     \/ c # <<>> /\ ~Whole(c[1].of) /\ Return(p, "raised")
     \/ Len(c) = 2 /\ Return(p, IF c[2].of.len < DumpLen[c[2].of.obj] THEN "raised" ELSE "out")
  /\ UNCHANGED <<wire, cast>>

-----------------------------------------------------------------------------
Call(p) == GatherSend(p) \/ ReportSend(p) \/ Receive(p) \/ CastLength(p) \/ Listen(p)

Step(p) == \/ Call(p)
           \/ SendData(p) \/ SendReturns(p)
           \/ Leave(p) \/ TakeSize(p) \/ TakeData(p)
           \/ CastData(p) \/ Hear(p)

Next == \E p \in Ranks : Step(p)

Spec == Init /\ [][Next]_vars

\* Every process makes its calls, and MPI delivers.  MPI need not buffer: a
\* send is sure to return only when its messages have been taken, a broadcast
\* only when all have come to it.
Taken(p) == \A m \in wire : m.of # out[p]
AllCome(p) == \A q \in Ranks : calls[q] >= calls[p]
Progress(p) ==
  \/ Call(p) \/ Leave(p) \/ TakeSize(p) \/ TakeData(p) \/ Hear(p)
  \/ AllCome(p) /\ CastData(p)
  \/ Taken(p) /\ (SendData(p) \/ SendReturns(p))

FairSpec == Spec /\ \A p \in Ranks : WF_vars(Progress(p))

-----------------------------------------------------------------------------
TypeOK ==
  /\ plan \in Plans
  /\ wire \subseteq Message
  /\ \A n \in DOMAIN plan : cast[n] \in Seq(Message) /\ Len(cast[n]) <= 2
  /\ calls \in [Ranks -> 0 .. Len(plan)]
  /\ pc \in [Ranks -> {"out", "sending", "sent", "size", "data", "cast", "hear", "raised"}]
  /\ out \in [Ranks -> Letter \cup {None}]
  /\ k \in [Ranks -> 0 .. N - 1]
  /\ first \in [Ranks -> Message \cup {None}]
  /\ length \in [Ranks -> Lengths \cup {0}]
  /\ ary \in [Ranks -> [Ranks -> [of : Ranks, n : Nat] \cup {None}]]

\* Slot q of what a root gathers is the object of rank q in this very round,
\* although a fast process may be rounds ahead under the same tag.
InPlace ==
  \A p, q \in Ranks : ary[p][q] # None => ary[p][q] = [of |-> q, n |-> calls[p]]

\* The next message a receiver can take is a size, in gather one of this very
\* round, and then the data of that letter and nothing else.
Ordered ==
  \A p \in Ranks :
    /\ pc[p] = "size" /\ ~Received(p) =>
         \A m \in Due(p) : m.kind = "size" /\ (Kind(p) = "gather" => m.of.n = calls[p])
    /\ pc[p] = "data" => \A m \in Due(p) : m = Data(first[p].of)

\* A gather that has returned at its root leaves nothing on the wire for a
\* later one to find.
NothingLeft ==
  \A m \in wire :
    m.of.tag = GATHER_TAG /\ m.of.n <= calls[m.of.dst] =>
      m.of.n = calls[m.of.dst] /\ pc[m.of.dst] # "out"

\* Unless a length makes some process raise, every process comes to the end of
\* the program: no round waits for a message another round has taken.
Smooth == \A p \in Ranks : pc[p] # "raised"
AllDone == []Smooth => \A p \in Ranks : <>(pc[p] = "out" /\ calls[p] = Len(plan))

\* A round is a collective call, which collects at the root of a gather: it
\* gets every object of this very round, while the others return without
\* waiting for anybody.
Gotten(p) ==
  IF pc[p] = "out" /\ calls[p] > 0 /\ plan[calls[p]] = <<"gather", p>>
  THEN [q \in Ranks |-> IF ary[p][q] = None THEN None
                        ELSE [of |-> ary[p][q].of, call |-> ary[p][q].n]]
  ELSE None
Abstract == INSTANCE Collective WITH
  Proc <- Ranks,
  collects <- [p \in Ranks |-> {n \in DOMAIN plan : plan[n] = <<"gather", p>>}],
  state <- [p \in Ranks |-> IF pc[p] \in {"out", "raised"} THEN pc[p] ELSE "in"],
  result <- [p \in Ranks |-> Gotten(p)]
ImplementsCollective == Abstract!CollectiveSpec
=============================================================================
