---------------------------- MODULE AllgatherInv ----------------------------
(***************************************************************************)
(* The inductive invariant of Allgather.                                   *)
(*                                                                         *)
(* A message has a place in its sender's programme: the call, the round,   *)
(* and which of the two it is.  The messages between two neighbours are    *)
(* the places from the receiver's next receive up to the sender's next     *)
(* send, one after the other.                                              *)
(***************************************************************************)
EXTENDS Allgather

\* The slot a rank sends in a round: r - 1 steps back from its own.
Slot(p, r) == IF r - 1 <= p THEN p - (r - 1) ELSE N + p - (r - 1)

Place(c, r, part) == [call |-> c, round |-> r, part |-> part]
At(m) == Place(m.str.call, m.round, m.part)
After(a) ==
  IF a.part = "size" THEN Place(a.call, a.round, "data")
  ELSE IF a.round + 1 < N THEN Place(a.call, a.round + 1, "size")
  ELSE Place(a.call + 1, 1, "size")

\* The place of the next message p sends, and of the next it receives.
SendAt(p) ==
  CASE pc[p] = "out"  -> Place(calls[p] + 1, 1, "size")
    [] pc[p] = "top"  -> IF i[p] < N THEN Place(calls[p], i[p], "size")
                         ELSE Place(calls[p] + 1, 1, "size")
    [] pc[p] = "size" -> Place(calls[p], i[p], "data")
    [] OTHER          -> After(Place(calls[p], i[p], "data"))
RecvAt(p) == IF await[p] THEN Place(calls[p], i[p], pc[p]) ELSE SendAt(p)

-----------------------------------------------------------------------------
\* Where a process is in the call, and what it holds there.
Rounds ==
  \A p \in Ranks :
    /\ pc[p] \notin {"size", "data"} => ~await[p] /\ ~flying[p]
    /\ pc[p] \in {"size", "data"} => i[p] < N
    /\ pc[p] \in {"top", "size", "data"} =>
         /\ j[p] = Slot(p, i[p]) /\ jnext[p] = Back(j[p])
         /\ ary[p][j[p]] # None

\* No string is of a call its rank has not begun.
Begun == \A p, k \in Ranks : ary[p][k] # None => ary[p][k].call <= calls[k]

\* A message from q, as q sends it.
Sound(q, m) ==
  /\ m.round < N
  /\ m.str.of = Slot(q, m.round)
  /\ m.str.call <= calls[m.str.of]
  /\ m.part = "data" => m.str.size = Count(m.len)

\* The message a process has just taken.
Holds ==
  \A p \in Ranks :
    pc[p] \in {"size", "data"} /\ ~await[p] =>
      /\ in[p] # None
      /\ Sound(Back(p), in[p])
      /\ At(in[p]) = Place(calls[p], i[p], pc[p])
      /\ in[p].len = left[p]

\* The channel c from q to p, q's next message being due there too if due.
Consecutive(c) ==
  \A k \in 1 .. Len(c) - 1 :
    /\ At(c[k + 1]) = After(At(c[k]))
    /\ c[k].part = "size" => c[k + 1].len = c[k].len
Begins(p, c) ==
  c # <<>> => /\ At(c[1]) = RecvAt(p)
              /\ c[1].part = "data" => c[1].len = left[p]
Ends(p, q, c) ==
  pc[q] # "raised" =>
    IF c = <<>>
    THEN /\ SendAt(q) = RecvAt(p)
         /\ RecvAt(p).part = "data" => right[q] = left[p]
    ELSE /\ SendAt(q) = After(At(c[Len(c)]))
         /\ c[Len(c)].part = "size" => right[q] = c[Len(c)].len
Chain(p, q, c) ==
  /\ \A k \in 1 .. Len(c) : Sound(q, c[k])
  /\ Consecutive(c) /\ Begins(p, c) /\ Ends(p, q, c)
Chained == N > 1 => \A p \in Ranks : pc[p] # "raised" => Chain(p, Back(p), chan[p])

IInv == /\ TypeOK /\ InPlace /\ Rounds /\ Begun /\ Meets /\ Holds /\ Chained
=============================================================================
