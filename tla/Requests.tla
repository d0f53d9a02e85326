------------------------------ MODULE Requests ------------------------------
(***************************************************************************)
(* Nonblocking and persistent receives (src/mpi_request.c; comm_irecv and  *)
(* comm_recv_init of src/mpi_comm.c) in one process, Me.                   *)
(*                                                                         *)
(* A receive is two MPI receives in a row, first of the size, then of the  *)
(* data, behind one Ruby object.  The second is posted by whoever sees the *)
(* first complete: the program, in wait or waitall, or a background thread *)
(* that scans rlist, the list of the requests in their size stage.         *)
(*                                                                         *)
(* The two are Ruby threads: one runs until it returns to Ruby or calls    *)
(* rb_thread_schedule.  The MPI library and the senders run all the time.  *)
(***************************************************************************)
EXTENDS Framing, Naturals, Sequences, FiniteSets

CONSTANTS Me,           \* the receiving process
          Senders,      \* the processes that send to it
          Tags,         \* tags they use
          Writes,       \* bound: Writes[s]: letters of s, each with the way it is
                        \*   sent (send, isend, start), tag, length and object
          MaxLetters,   \* bound: MaxLetters[s] letters of s
          Req,          \* the program's receive requests
          Source,       \* Source[q], TagOf[q]: the arguments of irecv or
          TagOf,        \*   recv_init that created q
          Uses,         \* Uses[q]: the methods the program calls on q
          Order,        \* the order of the requests in the arrays it passes
          MaxStarts,    \* bound: size receives posted
          InitialCap,   \* INITIAL_RLIST_CAP
          None,         \* NULL, nil, nothing yet
          Null,         \* MPI_REQUEST_NULL
          Wild          \* what REALLOC_N leaves in the slots nobody wrote

ASSUME RequestsOk ==
  /\ Source \in [Req -> Senders \cup {AnySource}]
  /\ TagOf \in [Req -> Tags \cup {AnyTag}]
  /\ Uses \in [Req -> SUBSET {"irecv", "recv_init", "start", "restart", "wait", "waitall",
                              "waitany", "waitsome", "test", "testall", "testany",
                              "testsome", "cancel"}]
  /\ IsFiniteSet(Req) /\ Order \in [Req -> 1 .. Cardinality(Req)]
  /\ \A q, r \in Req : Order[q] = Order[r] => q = r
  /\ InitialCap \in Nat \ {0} /\ MaxStarts \in Nat
  /\ MaxLetters \in [Senders -> Nat]
  /\ Writes \in [Senders -> SUBSET ({"send", "isend", "start"} \X Tags \X Lengths \X Objs)]

Letters == [src : Senders, dst : {Me}, tag : Tags, n : Nat, len : Int, obj : Objs]
Messages == [kind : {"size", "data"}, of : Letters]

ASSUME NoneOk ==
  /\ None \notin Letters /\ None \notin Messages /\ None \notin Nat /\ None \notin Req
  /\ AnySource \notin Senders
  /\ Null \notin Nat /\ None # Null /\ Wild \notin Req \cup {None}

VARIABLES
  \* Senders and wire.
  wire,     \* messages handed to MPI and not matched yet
  out,      \* out[s]: the letter s has sent the size of, or None
  count,    \* count[s]: letters s has begun to send
  \* MPI receives posted by Me, oldest first: the request, which of the two
  \* receives it is, the source, the bytes it has room for, the message it
  \* took, and whether it was cancelled.
  recvs,
  \* struct mpi_request.
  req,      \* req[q]: index in recvs, Null, or None while not allocated
  stage,    \* stage[q]: TX_SIZE or TX_DATA
  peer,     \* peer[q]: the source
  buflen,   \* buflen[q]: the length received
  sized,    \* sized[q]: the message it came with (not in the code)
  buf,      \* buf[q]: the receive that fills the buffer, or None
  obj,      \* obj[q]: the object received, Nil
  \* The two threads.
  rlist,    \* the watched requests, a sequence of capacity slots
  scan,     \* the slot the background thread looks at, 0 when it has yielded
  alive,    \* the background thread has not died of an exception
  upc,      \* where the program is: idle, size, post, data, any; crashed or astray
  call,     \* the method it is in: wait, waitall, waitany or waitsome
  group,    \* the requests it waits for
  answer    \* answer[q]: no, done or raised: what the last method said of q

mpi == <<wire, out, count, recvs>>
mr == <<req, stage, peer, buflen, sized, buf, obj>>
user == <<upc, call, group, answer>>
thread == <<scan, alive>>
vars == <<mpi, mr, rlist, thread, user>>

Init ==
  /\ wire = {}
  /\ out = [s \in Senders |-> None]
  /\ count = [s \in Senders |-> 0]
  /\ recvs = <<>>
  /\ req = [q \in Req |-> None]
  /\ stage = [q \in Req |-> "TX_SIZE"]
  /\ peer = Source
  /\ buflen = [q \in Req |-> 0]
  /\ sized = [q \in Req |-> None]
  /\ buf = [q \in Req |-> None]
  /\ obj = [q \in Req |-> None]
  /\ rlist = [i \in 1 .. InitialCap |-> None]
  /\ scan = 0
  /\ alive = TRUE
  /\ upc = "idle"
  /\ call = "none"
  /\ group = {}
  /\ answer = [q \in Req |-> "no"]

-----------------------------------------------------------------------------
(* The senders, one letter at a time.  A count below zero makes the second  *)
(* MPI call fail, after the size has left.                                  *)

Ready(s) == out[s] = None /\ count[s] < MaxLetters[s]
\* What s may write that way.
Ways(s, way) == {w \in Writes[s] : w[1] = way}
Letter(s, w, len) ==
  [src |-> s, dst |-> Me, tag |-> w[2], n |-> count[s], len |-> len, obj |-> w[4]]

\* comm_send and its variants: the data leave once the size has.
SendSize(s) ==
  /\ Ready(s)
  /\ \E w \in Ways(s, "send") :
       LET l == Letter(s, w, w[3]) IN
       wire' = wire \cup {Size(l)} /\ out' = [out EXCEPT ![s] = l]
  /\ count' = [count EXCEPT ![s] = @ + 1]
  /\ UNCHANGED <<recvs, mr, rlist, thread, user>>

SendData(s) ==
  /\ out[s] # None
  /\ wire' = IF Whole(out[s]) THEN wire \cup {Data(out[s])} ELSE wire
  /\ out' = [out EXCEPT ![s] = None]
  /\ UNCHANGED <<count, recvs, mr, rlist, thread, user>>

SendBoth(s, size, data) ==
  /\ Ready(s)
  /\ wire' = wire \cup {Size(size)} \cup (IF Whole(data) THEN {Data(data)} ELSE {})
  /\ count' = [count EXCEPT ![s] = @ + 1]
  /\ UNCHANGED <<out, recvs, mr, rlist, thread, user>>

\* comm_isend and its variants return at once: when MPI reads the variable
\* length it may have changed since the data were posted with it.
Isend(s) ==
  \E w, frame \in Ways(s, "isend") : SendBoth(s, Letter(s, w, frame[3]), Letter(s, w, w[3]))

\* request_start of a persistent send: buflen is still 0, and so is the count
\* of the data.
StartSend(s) ==
  \E w \in Ways(s, "start") : SendBoth(s, Letter(s, w, 0), Letter(s, w, -1))

-----------------------------------------------------------------------------
(* The MPI library: a message goes to the oldest receive that accepts it.   *)

Pending(i) == recvs[i].got = None /\ ~recvs[i].cancelled
Takes(i, m) == Accepts(Me, recvs[i].src, TagOf[recvs[i].q], m)

Deliver(i, m) ==
  /\ Pending(i)
  /\ m \in Receivable(wire, Me, recvs[i].src, TagOf[recvs[i].q])
  /\ \A j \in 1 .. i - 1 : Pending(j) => ~Takes(j, m)
  /\ wire' = wire \ {m}
  /\ recvs' = [recvs EXCEPT ![i].got = m]
  /\ LET q == recvs[i].q IN
     IF recvs[i].part = "size"
     THEN /\ sized' = [sized EXCEPT ![q] = m]
          /\ \E len \in Stored(m) : buflen' = [buflen EXCEPT ![q] = len]
     ELSE UNCHANGED <<sized, buflen>>
  /\ UNCHANGED <<out, count, req, stage, peer, buf, obj, rlist, thread, user>>

\* Whether a request is complete, whether with an error, and what it says of
\* the source.  The null request is complete, with an empty status.
Complete(h) == h # Null => ~Pending(h)
Truncated(h) ==
  h # Null /\ recvs[h].got # None /\ Bytes(recvs[h].got) > recvs[h].room
SourceIgnored(h) == AnySource   \* mutant: the status is ignored
SourceOf(h) ==
  IF h = Null \/ recvs[h].cancelled THEN AnySource ELSE recvs[h].got.of.src

\* MPI_Irecv for a request.
IrecvLost(q, part, src, room) ==   \* mutant: the handle goes to a temporary
  /\ recvs' = Append(recvs, [q |-> q, part |-> part, src |-> src, room |-> room,
                             got |-> None, cancelled |-> FALSE])
  /\ UNCHANGED req
IrecvAnyone(q, part, src, room) ==   \* mutant: the source is not passed on
  /\ recvs' = Append(recvs, [q |-> q, part |-> part, src |-> AnySource, room |-> room,
                             got |-> None, cancelled |-> FALSE])
  /\ req' = [req EXCEPT ![q] = Len(recvs) + 1]
Irecv(q, part, src, room) ==
  /\ recvs' = Append(recvs, [q |-> q, part |-> part, src |-> src, room |-> room,
                             got |-> None, cancelled |-> FALSE])
  /\ req' = [req EXCEPT ![q] = Len(recvs) + 1]

-----------------------------------------------------------------------------
(* rlist.                                                                   *)

Slots(q) == {i \in DOMAIN rlist : rlist[i] = q}
First(S) == CHOOSE i \in S : \A j \in S : i <= j

\* request_watch: the first free slot, or twice the slots; those after the
\* first new one hold whatever was in memory.
Watch(q) ==
  \/ Slots(None) # {} /\ rlist' = [rlist EXCEPT ![First(Slots(None))] = q]
  \/ /\ Slots(None) = {}
     /\ \E junk \in {None, Wild} :
          rlist' = rlist \o <<q>> \o [i \in 1 .. Len(rlist) - 1 |-> junk]

\* request_unwatch.
UnwatchNothing(q) == UNCHANGED rlist   \* mutant: wait leaves q on rlist
Unwatch(q) ==
  rlist' = IF Slots(q) = {} THEN rlist ELSE [rlist EXCEPT ![First(Slots(q))] = None]

-----------------------------------------------------------------------------
(* The background thread: one pass over rlist, then it yields.              *)

BeginPass ==
  /\ alive /\ scan = 0 /\ upc = "idle"
  /\ scan' = 1
  /\ UNCHANGED <<mpi, mr, rlist, alive, user>>

NextSlotPast == scan' = IF scan > Len(rlist) THEN 0 ELSE scan + 1        \* mutant: i <= capacity
NextSlotShort == scan' = IF scan + 1 >= Len(rlist) THEN 0 ELSE scan + 1  \* mutant: i < capacity - 1
NextSlot == scan' = IF scan = Len(rlist) THEN 0 ELSE scan + 1

SkipSlot ==
  /\ scan > 0 /\ rlist[scan] # Wild
  /\ rlist[scan] # None => ~Complete(req[rlist[scan]])
  /\ NextSlot
  /\ UNCHANGED <<mpi, mr, rlist, alive, user>>

\* MPI_Test succeeds: post the receive of the data from the sender of the
\* size.  A truncated size or a length that cannot be allocated raises, and
\* the exception ends the thread.
TestSlot ==
  /\ scan > 0 /\ rlist[scan] \in Req
  /\ LET q == rlist[scan]
         h == req[q] IN
     /\ Complete(h)
     /\ IF Truncated(h)
        THEN /\ req' = [req EXCEPT ![q] = Null]
             /\ alive' = FALSE /\ scan' = 0
             /\ UNCHANGED <<recvs, stage, peer, buf, rlist>>
        ELSE /\ peer' = [peer EXCEPT ![q] = SourceOf(h)]
             /\ IF Count(buflen[q]) < 0
                THEN /\ req' = [req EXCEPT ![q] = Null]
                     /\ alive' = FALSE /\ scan' = 0
                     /\ UNCHANGED <<recvs, stage, buf, rlist>>
                ELSE /\ Irecv(q, "data", SourceOf(h), Count(buflen[q]))
                     /\ buf' = [buf EXCEPT ![q] = Len(recvs) + 1]
                     /\ stage' = [stage EXCEPT ![q] = "TX_DATA"]
                     /\ rlist' = [rlist EXCEPT ![scan] = None]
                     /\ NextSlot
                     /\ UNCHANGED alive
  /\ UNCHANGED <<wire, out, count, buflen, sized, obj, user>>

\* The thread follows a pointer nobody wrote.
WildSlot ==
  /\ scan > 0 /\ rlist[scan] = Wild
  /\ alive' = FALSE /\ scan' = 0 /\ upc' = "crashed"
  /\ UNCHANGED <<mpi, mr, rlist, call, group, answer>>

-----------------------------------------------------------------------------
(* The program.                                                             *)

Calling(m, q) == m \in Uses[q] /\ upc = "idle" /\ scan = 0

\* request_start of a receive.  The program starts only inactive requests.
\* It neither resets stage nor restores peer.
Post(q) ==
  /\ Cardinality({i \in DOMAIN recvs : recvs[i].part = "size"}) < MaxStarts
  /\ Irecv(q, "size", peer[q], IntBytes)
  /\ Watch(q)
  /\ answer' = [answer EXCEPT ![q] = "no"]
  /\ UNCHANGED <<wire, out, count, stage, peer, buflen, sized, buf, obj, thread, upc, call, group>>

\* comm_irecv.
IrecvCall(q) == Calling("irecv", q) /\ req[q] = None /\ Post(q)

\* comm_recv_init: the request exists and is inactive.  Its handle is not
\* initialised, the program starts it before anything else.
RecvInit(q) ==
  /\ Calling("recv_init", q) /\ req[q] = None
  /\ req' = [req EXCEPT ![q] = Null]
  /\ UNCHANGED <<mpi, stage, peer, buflen, sized, buf, obj, rlist, thread, user>>

Started(q) == \E i \in DOMAIN recvs : recvs[i].q = q

\* start, for the first time or (restart) once more.
StartCall(q) ==
  /\ Calling(IF Started(q) THEN "restart" ELSE "start", q) /\ req[q] = Null
  /\ Post(q)

\* request_wait and request_waitall block for the sizes that are missing,
\* post the receives of the data, and block for the data.
WaitCall(m, S) ==
  /\ \A q \in S : Calling(m, q) /\ Started(q)
  /\ upc' = IF m \in {"wait", "waitall"} THEN "size" ELSE "any"
  /\ call' = m /\ group' = S
  /\ UNCHANGED <<mpi, mr, rlist, thread, answer>>

Inform(S, says) == answer' = [q \in Req |-> IF q \in S THEN says ELSE answer[q]]
Clear(S) == req' = [q \in Req |-> IF q \in S THEN Null ELSE req[q]]
Leave == upc' = "idle" /\ call' = "none" /\ group' = {}
\* The handle of a receive that is still posted is overwritten, or a freed one
\* kept: whatever MPI makes of that is not modelled.
GoAstray == upc' = "astray" /\ UNCHANGED <<call, group>>

Return(says) == Inform(group, says) /\ Leave

InSizeNone == {}       \* mutant: the size stage is ignored
InSize == {q \in group : stage[q] = "TX_SIZE"}

\* An exception in wait, when MPI has freed the handles in S.  The methods that
\* take an array wait on copies: then the requests keep freed handles.
RaiseStale(S) == Inform(S, "raised") /\ GoAstray /\ UNCHANGED req
Raise(S) ==
  IF call = "wait" THEN Return("raised") /\ Clear(S) ELSE RaiseStale(group)

SizesComplete ==
  /\ upc = "size" /\ \A q \in InSize : Complete(req[q])
  /\ \/ /\ \E q \in InSize : Truncated(req[q])
        /\ Raise(InSize)
     \/ /\ \A q \in InSize : ~Truncated(req[q])
        /\ upc' = "post" /\ UNCHANGED <<req, call, group, answer>>
  /\ UNCHANGED <<mpi, stage, peer, buflen, sized, buf, obj, rlist, thread>>

\* The receive of the data comes from peer, as irecv was given it.
PostData(q) ==
  /\ upc = "post" /\ q \in InSize
  /\ \/ /\ Count(buflen[q]) < 0
        /\ Raise({q})
        /\ UNCHANGED <<recvs, stage, buf, rlist>>
     \/ /\ Count(buflen[q]) >= 0
        /\ Irecv(q, "data", peer[q], Count(buflen[q]))
        /\ buf' = [buf EXCEPT ![q] = Len(recvs) + 1]
        /\ stage' = [stage EXCEPT ![q] = "TX_DATA"]
        /\ Unwatch(q)
        /\ UNCHANGED user
  /\ UNCHANGED <<wire, out, count, peer, buflen, sized, obj, thread>>

SizesPosted ==
  /\ upc = "post" /\ InSize = {}
  /\ upc' = "data"
  /\ UNCHANGED <<mpi, mr, rlist, thread, call, group, answer>>

DataArrived(m) == upc = "data" /\ call = m /\ \A q \in group : Complete(req[q])

ContentsLast(q) ==     \* mutant: the last request's buffer, whichever it is
  IF recvs[Len(recvs)].got = None THEN Raised ELSE Load(recvs[Len(recvs)].got)

\* Marshal.load of the buffer; rb_str_new2 raises on NULL.
Contents(q) ==
  IF buf[q] = None THEN Raised
  ELSE LET r == recvs[buf[q]] IN
       IF r.got = None \/ Bytes(r.got) > r.room THEN Raised ELSE Load(r.got)

\* The end of request_wait.
WaitReturns(q) ==
  /\ DataArrived("wait") /\ group = {q}
  /\ peer' = [peer EXCEPT ![q] = SourceOf(req[q])]
  /\ req' = [req EXCEPT ![q] = Null]
  /\ IF Truncated(req[q]) \/ Contents(q) = Raised
     THEN Return("raised") /\ UNCHANGED <<buf, obj>>
     ELSE /\ Return("done")
          /\ obj' = [obj EXCEPT ![q] = Contents(q)]
          /\ buf' = [buf EXCEPT ![q] = None]
  /\ UNCHANGED <<mpi, stage, buflen, sized, rlist, thread>>

\* The end of request_waitall: it loads no object.
WaitallReturns ==
  /\ DataArrived("waitall")
  /\ \/ /\ \E q \in group : Truncated(req[q])
        /\ RaiseStale(group)
     \/ /\ \A q \in group : ~Truncated(req[q])
        /\ Return("done") /\ Clear(group)
  /\ UNCHANGED <<mpi, stage, peer, buflen, sized, buf, obj, rlist, thread>>

\* request_test: false while the size is missing.  It loads no object.
TestCall(q) ==
  /\ Calling("test", q) /\ Started(q)
  /\ IF stage[q] = "TX_SIZE" \/ ~Complete(req[q])
     THEN answer' = [answer EXCEPT ![q] = "no"] /\ UNCHANGED req
     ELSE /\ answer' = [answer EXCEPT ![q] = IF Truncated(req[q]) THEN "raised" ELSE "done"]
          /\ req' = [req EXCEPT ![q] = Null]
  /\ UNCHANGED <<mpi, stage, peer, buflen, sized, buf, obj, rlist, thread, upc, call, group>>

-----------------------------------------------------------------------------
(* The methods that take an array and return when some of it is complete.   *)

Active(S) == {q \in S : req[q] # Null}

FirstIn(S) == CHOOSE q \in S : \A r \in S : Order[q] <= Order[r]
LastIn(S) == CHOOSE q \in S : \A r \in S : Order[r] <= Order[q]
ClearFirst(S, q) == Clear({FirstIn(S)})   \* mutant: the index is not used
ClearAny(S, q) == Clear({q})

\* MPI_Waitany and MPI_Testany complete one of the requests past the size
\* stage.
OneOf(S) ==
  \E q \in Active(S \ {r \in S : stage[r] = "TX_SIZE"}) :
    /\ Complete(req[q])
    /\ IF Truncated(req[q]) THEN RaiseStale({q})
       ELSE Inform({q}, "done") /\ ClearAny(S, q) /\ Leave

WaitanyReturns ==
  /\ upc = "any" /\ call = "waitany" /\ InSize # group
  /\ \/ Active(group \ InSize) = {} /\ Leave /\ UNCHANGED <<req, answer>>
     \/ OneOf(group)
  /\ UNCHANGED <<mpi, stage, peer, buflen, sized, buf, obj, rlist, thread>>

\* All of them are in their size stage.  waitany takes one that has its size,
\* but posts the receive of the data for the last request of the array, drops
\* the handle of the first and loads its buffer at once.
WaitanyInSize ==
  /\ upc = "any" /\ call = "waitany" /\ InSize = group
  /\ \/ /\ Active(group) = {} /\ Leave
        /\ UNCHANGED <<recvs, req, buf, answer>>
     \/ \E q \in Active(group) :
          /\ Complete(req[q])
          /\ LET last == LastIn(group) IN
             IF Truncated(req[q]) \/ Count(buflen[last]) < 0
             THEN RaiseStale({q}) /\ UNCHANGED <<recvs, buf>>
             ELSE /\ recvs' = Append(recvs, [q |-> last, part |-> "data", src |-> peer[last],
                                room |-> Count(buflen[last]), got |-> None, cancelled |-> FALSE])
                  /\ req' = [req EXCEPT ![last] = Len(recvs) + 1, ![q] = Null]
                  /\ buf' = [buf EXCEPT ![last] = Len(recvs) + 1]
                  /\ GoAstray /\ UNCHANGED answer
  /\ UNCHANGED <<wire, out, count, stage, peer, buflen, sized, obj, rlist, thread>>

\* MPI_Waitsome and MPI_Testsome complete several, those in their size stage
\* too.  The handles that are cleared are the first of the array, as many as
\* are complete.
Leading(S, n) == {q \in S : Cardinality({r \in S : Order[r] < Order[q]}) < n}
SomeOf(S) ==
  \E done \in (SUBSET Active(S)) \ {{}} :
    /\ \A q \in done : Complete(req[q])
    /\ IF \E q \in done : Truncated(req[q])
       THEN RaiseStale(done)
       ELSE /\ Inform(done, "done") /\ Clear(Leading(S, Cardinality(done)))
            /\ IF Leading(S, Cardinality(done)) = done /\ \A q \in done : stage[q] = "TX_DATA"
               THEN Leave ELSE GoAstray

WaitsomeReturns ==
  /\ upc = "any" /\ call = "waitsome"
  /\ \/ Active(group) = {} /\ Leave /\ UNCHANGED <<req, answer>>
     \/ SomeOf(group)
  /\ UNCHANGED <<mpi, stage, peer, buflen, sized, buf, obj, rlist, thread>>

\* testany, testsome and testall.  What they do when they find nothing
\* complete changes nothing.
TestArray(m, S) ==
  /\ \A q \in S : Calling(m, q) /\ Started(q)
  /\ UNCHANGED <<mpi, stage, peer, buflen, sized, buf, obj, rlist, thread>>

TestanyCall(S) == TestArray("testany", S) /\ OneOf(S)

\* testsome raises when all handles are null: it looks at i, not at outcount.
TestsomeCall(S) ==
  /\ TestArray("testsome", S)
  /\ \/ SomeOf(S)
     \/ Active(S) = {} /\ Inform(S, "raised") /\ UNCHANGED <<req, upc, call, group>>

TestallCall(S) ==
  /\ TestArray("testall", S)
  /\ \A q \in S : stage[q] = "TX_DATA" /\ Complete(req[q])
  /\ IF \E q \in S : Truncated(req[q]) THEN RaiseStale(S)
     ELSE Inform(S, "done") /\ Clear(S) /\ Leave

\* request_cancel: back to the size stage whatever stage it was in, then
\* MPI_Cancel, which does nothing to a receive that has its message, and raises
\* for a null handle.
CancelCall(q) ==
  /\ Calling("cancel", q) /\ Started(q)
  /\ stage' = [stage EXCEPT ![q] = "TX_SIZE"]
  /\ buf' = [buf EXCEPT ![q] = None]
  /\ Unwatch(q)
  /\ recvs' = IF Complete(req[q]) THEN recvs
              ELSE [recvs EXCEPT ![req[q]].cancelled = TRUE]
  /\ answer' = IF req[q] = Null THEN [answer EXCEPT ![q] = "raised"] ELSE answer
  /\ UNCHANGED <<wire, out, count, req, peer, buflen, sized, obj, thread, upc, call, group>>

-----------------------------------------------------------------------------
Sending(s) == SendSize(s) \/ SendData(s) \/ Isend(s) \/ StartSend(s)

Mpi == \E i \in DOMAIN recvs, m \in wire : Deliver(i, m)

Background == BeginPass \/ SkipSlot \/ TestSlot \/ WildSlot

Blocked == \/ SizesComplete \/ SizesPosted \/ WaitallReturns
           \/ WaitanyReturns \/ WaitanyInSize \/ WaitsomeReturns
           \/ \E q \in Req : PostData(q) \/ WaitReturns(q)

Program ==
  \/ \E q \in Req : \/ IrecvCall(q) \/ RecvInit(q) \/ StartCall(q)
                    \/ WaitCall("wait", {q}) \/ TestCall(q) \/ CancelCall(q)
  \/ \E S \in (SUBSET Req) \ {{}} :
       \/ \E m \in {"waitall", "waitany", "waitsome"} : WaitCall(m, S)
       \/ TestanyCall(S) \/ TestsomeCall(S) \/ TestallCall(S)

Next == \/ \E s \in Senders : Sending(s)
        \/ Mpi \/ Background \/ Blocked \/ Program

Spec == Init /\ [][Next]_vars

\* A sender that is in a call finishes it (its size is matched or buffered),
\* MPI delivers, the background thread gets its turn whenever the program is
\* back in Ruby, and a blocked call goes on when it can.
FairSpec ==
  /\ Spec
  /\ \A s \in Senders : WF_vars(SendData(s))
  /\ WF_vars(Mpi) /\ WF_vars(Background) /\ WF_vars(Blocked)

\* A program that goes on testing its requests, and gets its turn again after
\* a pass of the background thread (rb_thread_schedule runs the other thread).
PollSpec == FairSpec /\ \A q \in Req : SF_vars(TestCall(q))

-----------------------------------------------------------------------------
TypeOK ==
  /\ wire \subseteq Messages
  /\ count \in [Senders -> Nat] /\ \A s \in Senders : count[s] <= MaxLetters[s]
  /\ out \in [Senders -> Letters \cup {None}]
  /\ \A s \in Senders : out[s] # None => out[s].src = s
  /\ recvs \in Seq([q : Req, part : {"size", "data"}, src : Senders \cup {AnySource},
                    room : Nat, got : Messages \cup {None}, cancelled : BOOLEAN])
  /\ req \in [Req -> DOMAIN recvs \cup {None, Null}]
  /\ stage \in [Req -> {"TX_SIZE", "TX_DATA"}]
  /\ peer \in [Req -> Senders \cup {AnySource}]
  /\ buflen \in [Req -> Lengths \cup {0}]
  /\ buf \in [Req -> DOMAIN recvs \cup {None}]
  /\ obj \in [Req -> Objs \cup {None}]
  /\ rlist \in Seq(Req \cup {None, Wild}) /\ Len(rlist) # 0
  /\ scan \in 0 .. Len(rlist) /\ alive \in BOOLEAN
  /\ upc \in {"idle", "size", "post", "data", "any", "crashed", "astray"}
  /\ call \in {"none", "wait", "waitall", "waitany", "waitsome"} /\ group \subseteq Req
  /\ answer \in [Req -> {"no", "done", "raised"}]

\* d is the data of the letter whose size is z.
OtherHalf(d, z) == d.kind = "data" /\ d.of.src = z.of.src /\ d.of.n = z.of.n

\* The data a request receives is that of the letter whose size it received,
\* whoever posts the second receive, wait, waitall or the background thread.
RequestPairing ==
  upc # "astray" => \A i \in DOMAIN recvs :
    recvs[i].got # None =>
      IF recvs[i].part = "size" THEN recvs[i].got.kind = "size"
      ELSE OtherHalf(recvs[i].got, sized[recvs[i].q])

\* A request started once is on rlist, once, exactly as long as it is in its
\* size stage, or until it is cancelled: the background thread will see its
\* size, and only its size.
WatchedExactly ==
  \A q \in Req : "restart" \notin Uses[q] =>
    /\ Cardinality(Slots(q)) <= IF Started(q) /\ stage[q] = "TX_SIZE" THEN 1 ELSE 0
    /\ Started(q) /\ stage[q] = "TX_SIZE" /\ "cancel" \notin Uses[q] => Slots(q) # {}

\* Every receive still posted with MPI belongs to the request that waits for
\* it: nothing is left to steal a later message, and a request never has two.
NoStrayReceive ==
  upc # "astray" => \A i \in DOMAIN recvs : Pending(i) => req[recvs[i].q] = i

\* wait, waitall and test say a receive is complete only when its data is in.
DoneIsDone ==
  upc # "astray" => \A q \in Req : answer[q] = "done" =>
    /\ sized[q] # None
    /\ \E i \in DOMAIN recvs : recvs[i].q = q /\ recvs[i].got # None
                             /\ OtherHalf(recvs[i].got, sized[q])

\* An object a request holds is the one of the letter it received.
OwnObject ==
  \A q \in Req : obj[q] # None => sized[q] # None /\ obj[q] = sized[q].of.obj

\* A request started once and not cancelled posts one receive for its data: the
\* background thread and a wait never both do it.
OneDataReceive ==
  \A q \in Req : {"restart", "cancel"} \cap Uses[q] = {} =>
    \A i, j \in DOMAIN recvs :
      recvs[i].q = q /\ recvs[j].q = q /\ recvs[i].part = "data" /\ recvs[j].part = "data" => i = j

\* A wait whose sizes have come returns: the data follows.
WaitEnds ==
  (upc # "idle" /\ \A q \in group : sized[q] # None) ~> (upc \in {"idle", "crashed", "astray"})

\* A polled request that has its size is eventually reported complete, unless
\* the program blocks in a wait: the background thread posts the receive of
\* the data behind the program's back.
TestSucceeds ==
  \A q \in Req : "test" \in Uses[q] =>
    ((sized[q] # None) ~> (answer[q] = "done" \/ upc # "idle"))
=============================================================================
