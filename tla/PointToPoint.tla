---------------------------- MODULE PointToPoint ----------------------------
(***************************************************************************)
(* The blocking point-to-point calls of MPI::Comm (src/mpi_comm.c): send,  *)
(* ssend, rsend, recv and sendrecv.  Every one of them is a pair of        *)
(* blocking MPI calls, the first for the length of the object's dump, the  *)
(* second for length + 1 bytes of it.                                      *)
(***************************************************************************)
EXTENDS Framing

CONSTANTS Proc,          \* ranks of the communicator
          Tags,          \* tags a sender uses
          Modes,         \* sending calls in use: standard, sync, ready
          SendTo,        \* SendTo[p]: destinations p sends to
          RecvFrom,      \* RecvFrom[p]: sources p passes to recv
          ExchFrom,      \* ExchFrom[p]: sources p passes to sendrecv
          RecvTags,      \* tags passed to recv and sendrecv
          MaxCalls,      \* bound: MaxCalls[p] calls of p
          None,          \* no letter, no filter, no result yet
          Sent           \* true, the result of a sending call

ASSUME ModesKnown  == Modes \subseteq {"standard", "sync", "ready"}
ASSUME PeersOk     == /\ SendTo \in [Proc -> SUBSET Proc]
                      /\ RecvFrom \in [Proc -> SUBSET (Proc \cup {AnySource})]
                      /\ ExchFrom \in [Proc -> SUBSET (Proc \cup {AnySource})]
ASSUME TagsOk      == RecvTags \subseteq Tags \cup {AnyTag}
ASSUME BoundsOk    == MaxCalls \in [Proc -> Nat]
ASSUME DistinctOk  == /\ AnySource \notin Proc /\ AnyTag \notin Tags
                      /\ None \notin Proc \cup {AnySource} \cup Objs
                      /\ Raised \notin {None, Sent} /\ Sent \notin Objs

Letter == [src : Proc, dst : Proc, tag : Tags, n : Nat,
           len : Lengths, obj : Objs, mode : Modes \cup {"standard"}]
Message == [kind : {"size", "data"}, of : Letter]

ASSUME NoneOk == None \notin Letter /\ None \notin Message

VARIABLES wire,     \* messages handed to MPI and not matched yet
          calls,    \* calls[p]: calls p has made
          pc,       \* pc[p]: idle, or in the first or second MPI call
          out,      \* out[p]: the letter p is sending, or None
          flying,   \* flying[p]: the send half of the MPI call is pending
          from,     \* from[p]: src, the source p receives from, or None
          tagf,     \* tagf[p]: tag, the tag p receives
          await,    \* await[p]: the receive half of the MPI call is pending
          first,    \* first[p]: the message the first receive took
          length,   \* length[p]: the int it stored
          second,   \* second[p]: the message the second receive took
          result    \* result[p]: what the last call returned

sendVars == <<out, flying>>
recvVars == <<from, tagf, await, first, length, second>>
vars == <<wire, calls, pc, sendVars, recvVars, result>>

Init ==
  /\ wire = {}
  /\ calls = [p \in Proc |-> 0]
  /\ pc = [p \in Proc |-> "idle"]
  /\ out = [p \in Proc |-> None]
  /\ flying = [p \in Proc |-> FALSE]
  /\ from = [p \in Proc |-> None]
  /\ tagf = [p \in Proc |-> None]
  /\ await = [p \in Proc |-> FALSE]
  /\ first = [p \in Proc |-> None]
  /\ length = [p \in Proc |-> 0]
  /\ second = [p \in Proc |-> None]
  /\ result = [p \in Proc |-> None]

-----------------------------------------------------------------------------
\* A call starts: its first MPI call posts the size of l and a receive of a
\* size from (src, tag), each unless it is None.
Start(p, l, src, tag) ==
  /\ pc[p] = "idle"
  /\ calls[p] < MaxCalls[p]
  /\ calls' = [calls EXCEPT ![p] = @ + 1]
  /\ pc' = [pc EXCEPT ![p] = "size"]
  /\ wire' = IF l = None THEN wire ELSE wire \cup {Size(l)}
  /\ out' = [out EXCEPT ![p] = l]
  /\ flying' = [flying EXCEPT ![p] = l # None]
  /\ from' = [from EXCEPT ![p] = src]
  /\ tagf' = [tagf EXCEPT ![p] = tag]
  /\ await' = [await EXCEPT ![p] = src # None]
  /\ UNCHANGED <<first, length, second, result>>

NewLetter(p, dst, tag, len, obj, mode) ==
  [src |-> p, dst |-> dst, tag |-> tag, n |-> calls[p],
   len |-> len, obj |-> obj, mode |-> mode]

\* The receiver sits in an MPI receive that accepts m.
Expecting(p, m) == await[p] /\ Accepts(p, from[p], tagf[p], m)

\* Comm#send, #ssend and #rsend.  A ready send is correct only when the
\* receive is posted; only the first of the two messages is a ready send.
Send(p) ==
  \E dst \in SendTo[p], tag \in Tags, len \in Lengths, obj \in Objs, mode \in Modes :
    LET l == NewLetter(p, dst, tag, len, obj, mode) IN
    /\ mode = "ready" => Expecting(dst, Size(l))
    /\ Start(p, l, None, None)

\* Comm#recv.
Recv(p) ==
  \E src \in RecvFrom[p], tag \in RecvTags : Start(p, None, src, tag)

\* Comm#sendrecv.
Sendrecv(p) ==
  \E dst \in SendTo[p], dtag \in Tags, len \in Lengths, obj \in Objs,
     src \in ExchFrom[p], stag \in RecvTags :
    Start(p, NewLetter(p, dst, dtag, len, obj, "standard"), src, stag)

-----------------------------------------------------------------------------
\* The MPI library completes a send: a synchronous one when its message has
\* been matched, the others then or earlier, when it chooses to buffer.
Outgoing(p) == IF pc[p] = "size" THEN Size(out[p]) ELSE Data(out[p])

SendReturns(p) ==
  /\ flying[p]
  /\ flying' = [flying EXCEPT ![p] = FALSE]
  /\ UNCHANGED <<wire, calls, pc, out, recvVars, result>>

CompleteMatched(p) == Outgoing(p) \notin wire /\ SendReturns(p)
CompleteEager(p)   == flying[p] /\ out[p].mode # "sync" /\ SendReturns(p)

\* The MPI library hands p's receive one of the messages it may take.
Match(p) ==
  /\ await[p]
  /\ await' = [await EXCEPT ![p] = FALSE]
  /\ \E m \in Receivable(wire, p, from[p], tagf[p]) :
       /\ wire' = wire \ {m}
       /\ \/ /\ pc[p] = "size"
             /\ first' = [first EXCEPT ![p] = m]
             /\ \E len \in Stored(m) : length' = [length EXCEPT ![p] = len]
             /\ UNCHANGED second
          \/ /\ pc[p] = "data"
             /\ second' = [second EXCEPT ![p] = m]
             /\ UNCHANGED <<first, length>>
  /\ UNCHANGED <<calls, pc, sendVars, from, tagf, result>>

-----------------------------------------------------------------------------
Returned(p) == pc[p] # "idle" /\ ~flying[p] /\ ~await[p]

Finish(p, r) ==
  /\ pc' = [pc EXCEPT ![p] = "idle"]
  /\ result' = [result EXCEPT ![p] = r]
  /\ out' = [out EXCEPT ![p] = None]
  /\ from' = [from EXCEPT ![p] = None]
  /\ tagf' = [tagf EXCEPT ![p] = None]
  /\ first' = [first EXCEPT ![p] = None]
  /\ length' = [length EXCEPT ![p] = 0]
  /\ second' = [second EXCEPT ![p] = None]
  /\ UNCHANGED <<wire, calls, flying, await>>

TimidReceiver(p) ==   \* mutant: the receiver wants more bytes than an int has
  \/ out[p] # None /\ Count(out[p].len) < 0
  \/ from[p] # None /\ Count(length[p]) < IntBytes
TimidSender(p) ==     \* mutant: the sender does
  \/ out[p] # None /\ Count(out[p].len) < IntBytes
  \/ from[p] # None /\ (Bytes(first[p]) > IntBytes \/ Count(length[p]) < 0)

\* The size message was truncated, the buffer cannot be allocated, or MPI
\* rejects the count of the data send.
SizeFails(p) ==
  \/ out[p] # None /\ Count(out[p].len) < 0
  \/ from[p] # None /\ (Bytes(first[p]) > IntBytes \/ Count(length[p]) < 0)

Unpinned(p) == from[p]   \* mutant: recv keeps ANY_SOURCE

\* The source of the second receive: recv replaces ANY_SOURCE by the sender
\* of the size, sendrecv passes its own argument again.
DataSource(p) ==
  IF from[p] = AnySource /\ out[p] = None THEN first[p].of.src ELSE from[p]

\* Between the two MPI calls: raise, or make the second.
SizeRaises(p) ==
  /\ pc[p] = "size" /\ Returned(p) /\ SizeFails(p)
  /\ Finish(p, Raised)

SizeDone(p) ==
  /\ pc[p] = "size" /\ Returned(p) /\ ~SizeFails(p)
  /\ pc' = [pc EXCEPT ![p] = "data"]
  /\ wire' = IF out[p] = None THEN wire ELSE wire \cup {Data(out[p])}
  /\ flying' = [flying EXCEPT ![p] = out[p] # None]
  /\ await' = [await EXCEPT ![p] = from[p] # None]
  /\ from' = [from EXCEPT ![p] = DataSource(p)]
  /\ UNCHANGED <<calls, out, tagf, first, length, second, result>>

\* The second message truncated, or loaded.
Loaded(p) ==
  IF Bytes(second[p]) <= Count(length[p]) THEN Load(second[p]) ELSE Raised

DataDone(p) ==
  /\ pc[p] = "data" /\ Returned(p)
  /\ Finish(p, IF from[p] = None THEN Sent ELSE Loaded(p))

-----------------------------------------------------------------------------
Step(p) == \/ Send(p) \/ Recv(p) \/ Sendrecv(p)
           \/ CompleteMatched(p) \/ CompleteEager(p) \/ Match(p)
           \/ SizeRaises(p) \/ SizeDone(p) \/ DataDone(p)

Next == \E p \in Proc : Step(p)

Spec == Init /\ [][Next]_vars

\* A process that is running runs on, and MPI delivers: what has a matching
\* receive is matched, and a matched send returns.  The program need not make
\* a call and MPI need not buffer.
Progress(p) == CompleteMatched(p) \/ Match(p) \/ SizeRaises(p) \/ SizeDone(p) \/ DataDone(p)

FairSpec == Spec /\ \A p \in Proc : WF_vars(Progress(p))

-----------------------------------------------------------------------------
TypeOK ==
  /\ wire \subseteq Message
  /\ calls \in [Proc -> Nat]
  /\ pc \in [Proc -> {"idle", "size", "data"}]
  /\ out \in [Proc -> Letter \cup {None}]
  /\ flying \in [Proc -> BOOLEAN]
  /\ from \in [Proc -> Proc \cup {AnySource, None}]
  /\ tagf \in [Proc -> Tags \cup {AnyTag, None}]
  /\ await \in [Proc -> BOOLEAN]
  /\ first \in [Proc -> Message \cup {None}]
  /\ length \in [Proc -> Lengths \cup {0}]
  /\ second \in [Proc -> Message \cup {None}]
  /\ result \in [Proc -> Objs \cup {None, Sent, Raised}]

\* The two messages a receiving call takes are the size and the data of one
\* letter: senders that answer one ANY_SOURCE receiver are not intermingled
\* (comm_recv pins the source between its two receives).
Pairing ==
  \A p \in Proc :
    /\ first[p] # None => first[p].kind = "size"
    /\ second[p] # None => second[p] = Data(first[p].of)

\* No data message is left behind: while the data of a letter is in transit
\* its size is too, or the addressee has taken the size and has a second
\* receive ahead of it, in comm_recv or comm_sendrecv.
NoOrphans ==
  \A m \in wire :
    m.kind = "data" =>
      \/ Size(m.of) \in wire
      \/ /\ first[m.of.dst] = Size(m.of)
         /\ second[m.of.dst] = None

\* No call ends in an exception.  Depends on what "length" holds.
Delivered == \A p \in Proc : result[p] # Raised

\* Once comm_recv has the size of an object it returns: the data follows,
\* whatever the other senders do.
RecvReturns ==
  \A p \in Proc : (first[p] # None /\ out[p] = None) ~> (pc[p] = "idle")

\* The calls implement a mailbox of whole objects: a letter is in the mail
\* until its size is matched, and in the hand of the call that matched it.
Mailbox == INSTANCE ObjectMailbox WITH
  mail <- {m.of : m \in {s \in wire : s.kind = "size"}},
  busy <- [p \in Proc |-> pc[p] # "idle"],
  hand <- [p \in Proc |-> IF first[p] = None THEN None ELSE first[p].of]

\* Objects travel whole, once, to their addressee, and those of one sender
\* and tag in the order they were sent (comm_send, comm_recv, comm_sendrecv).
ImplementsMailbox == Mailbox!MailSpec

\* What the program must keep to: no ANY_SOURCE sendrecv, and where sendrecv
\* is called every length is a count MPI accepts.
Disciplined ==
  \A p \in Proc : ExchFrom[p] # {} => /\ AnySource \notin ExchFrom[p]
                                       /\ \A len \in Lengths : Count(len) >= 0
=============================================================================
