----------------------------- MODULE Allgather -----------------------------
(***************************************************************************)
(* MPI::Comm#allgather (comm_allgather, src/mpi_comm.c): a ring.  In each  *)
(* of csize - 1 rounds every process passes to its right the string it got *)
(* in the round before and takes one from its left, with one MPI_Sendrecv  *)
(* for the length and one for the bytes.  All messages of all rounds of    *)
(* all calls have one tag: only their order tells them apart.              *)
(*                                                                         *)
(* length_right is never assigned.  Each call finds some int in it and     *)
(* uses it for every string it passes on.                                  *)
(***************************************************************************)
EXTENDS Framing, Sequences

CONSTANTS N,          \* csize
          MaxCalls,   \* bound: calls of each process
          None        \* nothing in a slot yet

Ranks == 0 .. N - 1

\* Objs: the object that rank p contributes is p.
ASSUME RingOk == N \in Nat \ {0} /\ Objs = Ranks /\ MaxCalls \in Nat

\* A Ruby string that began as the dump of rank of's object in a call: how
\* many of its first bytes are those of the dump, and its size.
Str == [of : Ranks, call : Nat, prefix : Nat, size : Nat]
\* A message.  Both carry the string, and the round it is sent in, which is
\* not in the code.
Message == [part : {"size", "data"}, len : Lengths, str : Str, round : 1 .. N]

ASSUME NoneOk == None \notin Str /\ None \notin Message

VARIABLES chan,     \* chan[p]: messages from p's left, oldest first
          calls,    \* calls[p]: calls p has made
          pc,       \* pc[p]: out of the call, top of the loop, in the first
                    \*   or the second MPI_Sendrecv, or raised
          i,        \* i[p]: the round
          j,        \* j[p]: the slot p sends
          jnext,    \* jnext[p]: the slot p receives
          ary,      \* ary[p]: the strings gathered
          right,    \* right[p]: length_right
          left,     \* left[p]: length_left
          in,       \* in[p]: the message the last receive took
          flying,   \* flying[p]: the send half of the MPI call is pending
          await     \* await[p]: the receive half is

vars == <<chan, calls, pc, i, j, jnext, ary, right, left, in, flying, await>>

Init ==
  /\ chan = [p \in Ranks |-> <<>>]
  /\ calls = [p \in Ranks |-> 0]
  /\ pc = [p \in Ranks |-> "out"]
  /\ i = [p \in Ranks |-> 1]
  /\ j = [p \in Ranks |-> 0]
  /\ jnext = [p \in Ranks |-> 0]
  /\ ary = [p \in Ranks |-> [k \in Ranks |-> None]]
  /\ right \in [Ranks -> Lengths]
  /\ left = right
  /\ in = [p \in Ranks |-> None]
  /\ flying = [p \in Ranks |-> FALSE]
  /\ await = [p \in Ranks |-> FALSE]

-----------------------------------------------------------------------------
Back(k) == (N + k - 1) % N
Ahead(k) == (k + 1) % N

Dump(p) == [of |-> p, call |-> calls[p] + 1, prefix |-> DumpLen[p], size |-> DumpLen[p]]

CountsNul(s) == s.size >= s.prefix   \* mutant: the terminator counts as one

\* StringValueCStr raises on a null byte within the string; there is one past
\* the end of every string passed on.
HasNul(s) == s.size > s.prefix

\* The string a receiver makes of c bytes from where s is.
Copy(s, c) == [s EXCEPT !.prefix = IF c < @ THEN c ELSE @, !.size = c]

Loadable(s) == s # None /\ s.prefix = DumpLen[s.of]

\* An MPI_Sendrecv starts.
Exchange(p, m) ==
  /\ chan' = [chan EXCEPT ![Ahead(p)] = Append(@, m)]
  /\ flying' = [flying EXCEPT ![p] = TRUE]
  /\ await' = [await EXCEPT ![p] = TRUE]

\* The string p sends in this round.
SendsOwn(p) == ary[p][p]     \* mutant: its own in every round
Passes(p) == ary[p][j[p]]

-----------------------------------------------------------------------------
Enter(p) ==
  /\ pc[p] = "out" /\ calls[p] < MaxCalls
  /\ calls' = [calls EXCEPT ![p] = @ + 1]
  /\ ary' = [ary EXCEPT ![p] = [k \in Ranks |-> IF k = p THEN Dump(p) ELSE None]]
  /\ i' = [i EXCEPT ![p] = 1]
  /\ j' = [j EXCEPT ![p] = p]
  /\ jnext' = [jnext EXCEPT ![p] = Back(p)]
  /\ \E len \in Lengths : right' = [right EXCEPT ![p] = len]
  /\ pc' = [pc EXCEPT ![p] = "top"]
  /\ UNCHANGED <<chan, left, in, flying, await>>

Raise(p) ==
  /\ pc' = [pc EXCEPT ![p] = "raised"]
  /\ UNCHANGED <<chan, calls, i, j, jnext, ary, right, left, in, flying, await>>

\* The first MPI_Sendrecv of a round, unless the string has a null byte.
Round(p) ==
  /\ pc[p] = "top" /\ i[p] < N
  /\ ~HasNul(Passes(p))
  /\ Exchange(p, [part |-> "size", len |-> right[p], str |-> Passes(p), round |-> i[p]])
  /\ pc' = [pc EXCEPT ![p] = "size"]
  /\ UNCHANGED <<calls, i, j, jnext, ary, right, left, in>>

RoundRaises(p) ==
  /\ pc[p] = "top" /\ i[p] < N /\ HasNul(Passes(p))
  /\ Raise(p)

\* MPI: a receive takes the oldest message from the left; a send returns when
\* its message has been taken, or earlier when MPI buffers it.
Extent(m) == IF m.part = "size" THEN IntBytes ELSE m.str.size

Match(p) ==
  /\ await[p] /\ chan[p] # <<>>
  /\ await' = [await EXCEPT ![p] = FALSE]
  /\ chan' = [chan EXCEPT ![p] = Tail(@)]
  /\ in' = [in EXCEPT ![p] = Head(chan[p])]
  /\ \/ /\ pc[p] = "size"
        /\ \E len \in IF Head(chan[p]).part = "size" THEN {Head(chan[p]).len} ELSE Lengths :
             left' = [left EXCEPT ![p] = len]
     \/ pc[p] = "data" /\ UNCHANGED left
  /\ UNCHANGED <<calls, pc, i, j, jnext, ary, right, flying>>

SendReturns(p) ==
  /\ flying[p]
  /\ flying' = [flying EXCEPT ![p] = FALSE]
  /\ UNCHANGED <<chan, calls, pc, i, j, jnext, ary, right, left, in, await>>

Returned(p) == ~flying[p] /\ ~await[p]

\* Between the two: a truncated message, no buffer, or a count MPI rejects.
SizeFails(p) ==
  Extent(in[p]) > IntBytes \/ Count(left[p]) < 0 \/ Count(right[p]) < 0

SizeRaises(p) == pc[p] = "size" /\ Returned(p) /\ SizeFails(p) /\ Raise(p)

LeftBytes(p) == Count(left[p])   \* mutant: the length just received
SendBytes(p) == Count(right[p])

SizeDone(p) ==
  /\ pc[p] = "size" /\ Returned(p) /\ ~SizeFails(p)
  /\ Exchange(p, [part |-> "data", len |-> right[p],
                  str |-> Copy(Passes(p), SendBytes(p)), round |-> i[p]])
  /\ pc' = [pc EXCEPT ![p] = "data"]
  /\ UNCHANGED <<calls, i, j, jnext, ary, right, left, in>>

Received(p) ==
  [in[p].str EXCEPT !.prefix = IF in[p].part = "data" THEN @ ELSE 0, !.size = Count(left[p])]

Keep(p) ==
  /\ ary' = [ary EXCEPT ![p][jnext[p]] = Received(p)]
  /\ j' = [j EXCEPT ![p] = jnext[p]]
  /\ jnext' = [jnext EXCEPT ![p] = Back(@)]
  /\ i' = [i EXCEPT ![p] = @ + 1]
  /\ pc' = [pc EXCEPT ![p] = "top"]
  /\ UNCHANGED <<chan, calls, right, left, in, flying, await>>

\* After the second, which raises if its message is truncated.
DataDone(p) ==
  /\ pc[p] = "data" /\ Returned(p)
  /\ IF Extent(in[p]) > Count(left[p]) THEN Raise(p) ELSE Keep(p)

\* After the last round every string is loaded.
Leave(p) ==
  /\ pc[p] = "top" /\ i[p] = N
  /\ \A k \in Ranks : Loadable(ary[p][k])
  /\ pc' = [pc EXCEPT ![p] = "out"]
  /\ UNCHANGED <<chan, calls, i, j, jnext, ary, right, left, in, flying, await>>

LoadRaises(p) ==
  /\ pc[p] = "top" /\ i[p] = N
  /\ \E k \in Ranks : ~Loadable(ary[p][k])
  /\ Raise(p)

-----------------------------------------------------------------------------
Step(p) == \/ Enter(p) \/ Round(p) \/ RoundRaises(p) \/ Match(p) \/ SendReturns(p)
           \/ SizeRaises(p) \/ SizeDone(p) \/ DataDone(p) \/ Leave(p)
           \/ LoadRaises(p)

Next == \E p \in Ranks : Step(p)

Spec == Init /\ [][Next]_vars

\* Every process makes its calls, and a call goes on.  MPI need not buffer: a
\* send is sure to return only when its message has been taken.
Progress(p) ==
  \/ Enter(p) \/ Round(p) \/ Match(p) \/ SizeDone(p) \/ DataDone(p) \/ Leave(p)
  \/ chan[Ahead(p)] = <<>> /\ SendReturns(p)

FairSpec == Spec /\ \A p \in Ranks : WF_vars(Progress(p))

-----------------------------------------------------------------------------
TypeOK ==
  /\ chan \in [Ranks -> Seq(Message)]
  /\ calls \in [Ranks -> Nat]
  /\ pc \in [Ranks -> {"out", "top", "size", "data", "raised"}]
  /\ i \in [Ranks -> 1 .. N]
  /\ j \in [Ranks -> Ranks]
  /\ jnext \in [Ranks -> Ranks]
  /\ ary \in [Ranks -> [Ranks -> Str \cup {None}]]
  /\ right \in [Ranks -> Lengths]
  /\ left \in [Ranks -> Lengths]
  /\ in \in [Ranks -> Message \cup {None}]
  /\ flying \in [Ranks -> BOOLEAN]
  /\ await \in [Ranks -> BOOLEAN]

\* Slot k holds what rank k contributed to this very call, although the
\* strings of all ranks, rounds and calls travel under one tag and a fast
\* neighbour may be a call ahead.
InPlace ==
  \A p, k \in Ranks :
    ary[p][k] # None => ary[p][k].of = k /\ ary[p][k].call = calls[p]

\* The first receive of a round takes a size and the second the bytes it
\* announced, as many as there is room for: neither is ever truncated.
Framed ==
  \A p \in Ranks :
    ~await[p] => /\ pc[p] = "size" => in[p].part = "size"
                 /\ pc[p] = "data" => in[p].part = "data" /\ in[p].str.size = Count(left[p])

\* A process that has left a call has met all the others in it: allgather
\* does for a barrier.
Meets == \A p, q \in Ranks : pc[p] = "out" => calls[q] >= calls[p]

\* No process ends in an exception (docs/rd/mpi_comm.rd, allgather: an array
\* with a copy of every process's object is returned at all processes).
Gathered == \A p \in Ranks : pc[p] # "raised"

\* While every length_right makes a count that is exactly that of every dump,
\* every process makes all its calls and returns: the ring does not deadlock.
Exact == \A p, k \in Ranks : Count(right[p]) = DumpLen[k]
AllReturn ==
  []Exact => \A p \in Ranks : <>[](pc[p] = "out" /\ calls[p] = MaxCalls)

\* The ring is a collective call that collects everywhere: each process gets
\* the object of every other, whole and of this very call, and not before it
\* has been contributed, or an exception.
Gotten(p) ==
  IF pc[p] = "out" /\ calls[p] > 0
  THEN [k \in Ranks |-> IF Loadable(ary[p][k])
                        THEN [of |-> ary[p][k].of, call |-> ary[p][k].call] ELSE None]
  ELSE None
Abstract == INSTANCE Collective WITH
  Proc <- Ranks,
  collects <- [p \in Ranks |-> 1 .. MaxCalls],
  state <- [p \in Ranks |-> IF pc[p] \in {"out", "raised"} THEN pc[p] ELSE "in"],
  result <- [p \in Ranks |-> Gotten(p)]
ImplementsCollective == Abstract!CollectiveSpec
=============================================================================
