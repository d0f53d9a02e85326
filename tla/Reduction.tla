----------------------------- MODULE Reduction -----------------------------
(***************************************************************************)
(* MPI::Comm#reduce, #allreduce, #scan and #reduce_scatter                 *)
(* (src/mpi_comm.c) with an operation of the program (src/ops.rb).         *)
(*                                                                         *)
(* All four agree on the shape of their arguments and on the longest dump, *)
(* and reduce in one MPI collective over elements of that size.  The       *)
(* operation is called back inside the collective, on whichever processes  *)
(* MPI likes.  A result that does not fit is not stored: op_table[].resize *)
(* of that process then asks it, and it alone, to reduce once more with    *)
(* larger elements.                                                        *)
(*                                                                         *)
(* An array is reduced element by element: one element is followed here.   *)
(* length is never assigned (nor longest, in the array case): some int.    *)
(***************************************************************************)
EXTENDS Framing, Sequences, FiniteSetsExt

CONSTANTS N,          \* size of the communicator
          Plans,      \* sequences of reductions the program may make
          ArrayLens,  \* lengths of arrays it passes, -1 standing for a scalar
          MaxCalls    \* bound: reductions of each process

Ranks == 0 .. N - 1

\* Objs: the object made of the contributions of a set of ranks.
Kinds == {"reduce", "allreduce", "scan", "reduce_scatter"}

ASSUME ReductionOk ==
  /\ N \in Nat \ {0} /\ MaxCalls \in Nat
  /\ Objs = (SUBSET Ranks) \ {{}}
  /\ Plans \subseteq [1 .. MaxCalls -> Kinds \X Ranks]
  /\ ArrayLens \subseteq Int

VARIABLES plan,     \* plan[c]: the c-th reduction of the program, and its root
          calls,    \* calls[p]: reductions p has called
          pc,       \* pc[p]: out of them, the MPI call p is in, or how p ended
          arylen,   \* arylen[p]
          arymax,   \* arymax[p]
          length,   \* length[p]
          longest,  \* longest[p]
          resize,   \* resize[p]: op_table[idx].resize of the operation at p
          log,      \* log[p]: the MPI collectives p has joined
          got       \* got[p]: what p's last reduction returned, if anything: the
                    \*   ranks whose contributions are in it

vars == <<plan, calls, pc, arylen, arymax, length, longest, resize, log, got>>
args == <<plan, calls, arylen, length>>

\* A process in an MPI collective: of which reduction (not in the code), the
\* int it contributes or the size of its elements, the contribution itself
\* ({} if cut short), the ranks MPI has put together at this process so far,
\* and those that are in the value there.
Entry == [step : {"max", "min", "ok", "longest", "reduce"}, call : Nat, val : Int,
          own : SUBSET Ranks, covers : SUBSET Ranks, has : SUBSET Ranks]

Init ==
  /\ plan \in Plans
  /\ calls = [p \in Ranks |-> 0]
  /\ pc = [p \in Ranks |-> "out"]
  /\ arylen = [p \in Ranks |-> -1]
  /\ arymax = [p \in Ranks |-> -1]
  /\ length = [p \in Ranks |-> 0]
  /\ longest = [p \in Ranks |-> 0]
  /\ resize = [p \in Ranks |-> 0]
  /\ log = [p \in Ranks |-> <<>>]
  /\ got = [p \in Ranks |-> {}]

-----------------------------------------------------------------------------
Kind(p) == plan[calls[p]][1]
Root(p) == plan[calls[p]][2]

Turn(p) == Len(log[p])
Here(p) == log[p][Turn(p)]

Join(p, e) ==
  /\ log' = [log EXCEPT ![p] = Append(@, e)]
  /\ pc' = [pc EXCEPT ![p] = e.step]

Agree(c, step, val) ==
  [step |-> step, call |-> c, val |-> val, own |-> {}, covers |-> {}, has |-> {}]

\* The send buffer has the first length + 1 bytes of the dump.
Sent(p) == IF Count(length[p]) >= DumpLen[{p}] THEN {p} ELSE {}
Reducing(p, size) ==
  [step |-> "reduce", call |-> calls[p], val |-> size,
   own |-> Sent(p), covers |-> {p}, has |-> Sent(p)]

\* MPI matches the n-th collectives of all processes, whatever they are: an
\* MPI call on ints is over when all are in the same one.
Alike(e, f) == e.step = f.step /\ (e.step = "reduce" => e.val = f.val)
Met(p) == \A q \in Ranks : Turn(q) >= Turn(p) /\ Alike(log[q][Turn(p)], Here(p))
Values(p) == {log[q][Turn(p)].val : q \in Ranks}

-----------------------------------------------------------------------------
\* A call, up to its first MPI collective.
Call(p, kind, step, val) ==
  /\ pc[p] = "out" /\ calls[p] < MaxCalls
  /\ plan[calls[p] + 1][1] = kind
  /\ calls' = [calls EXCEPT ![p] = @ + 1]
  /\ \E len \in ArrayLens :
       /\ arylen' = [arylen EXCEPT ![p] = len]
       /\ Join(p, Agree(calls[p] + 1, step, val[len]))
  /\ \E len \in Lengths : length' = [length EXCEPT ![p] = len]
  /\ got' = [got EXCEPT ![p] = {}]
  /\ UNCHANGED <<plan, arymax, longest, resize>>

Itself == [len \in ArrayLens |-> len]
\* The counts are 1 at the root and 0 elsewhere: an array must have one element.
ary_ok == [len \in ArrayLens |-> IF len \in {-1, 1} THEN 1 ELSE 0]

\* The four methods.  What follows the first collective is in all of them the
\* same code, twice over: for an array and for a scalar.
Reduce(p) == Call(p, "reduce", "max", Itself)
Allreduce(p) == Call(p, "allreduce", "max", Itself)
Scan(p) == Call(p, "scan", "max", Itself)
ReduceScatter(p) == Call(p, "reduce_scatter", "ok", ary_ok)

End(p, how) ==
  /\ pc' = [pc EXCEPT ![p] = how]
  /\ UNCHANGED <<args, arymax, longest, resize, log, got>>

\* reduce_scatter raises before it has met anybody if it is not given one count
\* for each process.
CountsRaise(p) ==
  /\ pc[p] = "out" /\ calls[p] < MaxCalls
  /\ plan[calls[p] + 1][1] = "reduce_scatter"
  /\ End(p, "raised")

MaxDone(p) ==
  /\ pc[p] = "max" /\ Met(p)
  /\ arymax' = [arymax EXCEPT ![p] = Max(Values(p))]
  /\ Join(p, Agree(calls[p], "min", arylen[p]))
  /\ UNCHANGED <<args, longest, resize, got>>

RefusesOwn(p) ==   \* mutant: compares its own array only
  IF pc[p] = "min" THEN Min(Values(p)) # arylen[p] ELSE ary_ok[arylen[p]] = 0

\* The arrays are not of one length, or not of the length the counts add to.
Refuses(p) ==
  IF pc[p] = "min" THEN Min(Values(p)) # arymax[p] ELSE Min(Values(p)) = 0

Refuse(p) == pc[p] \in {"min", "ok"} /\ Met(p) /\ Refuses(p) /\ End(p, "refused")

Accept(p) ==
  /\ pc[p] \in {"min", "ok"} /\ Met(p) /\ ~Refuses(p)
  /\ Join(p, Agree(calls[p], "longest", length[p]))
  /\ UNCHANGED <<args, arymax, longest, resize, got>>

\* StringValueCStr raises when the dump has a null byte, on this process only.
DumpRaises(p) ==
  /\ pc[p] \in {"min", "ok"} /\ Met(p) /\ ~Refuses(p)
  /\ End(p, "raised")

OwnLength(p) == length[p]   \* mutant: no global length check
Longest(p) == Max(Values(p))

\* MPI rejects a negative size, at every process; a process whose own length is
\* negative does not survive the copy of its dump, of length + 1 bytes.
LongestDone(p) ==
  /\ pc[p] = "longest" /\ Met(p)
  /\ IF Count(Longest(p)) < 0 \/ Count(length[p]) < 0 THEN End(p, "raised")
     ELSE /\ longest' = [longest EXCEPT ![p] = Longest(p)]
          /\ Join(p, Reducing(p, Count(Longest(p))))
          /\ UNCHANGED <<args, arymax, resize, got>>

-----------------------------------------------------------------------------
\* The operation, called at p on two values in elements of this size: the
\* result is stored in the second, or resize is set.
NoResize(len) == 0   \* mutant: a result too long is dropped
NoNul(len) == len    \* mutant: no room for the terminator
Resize(len) == len + 1

Operate(p, a, b) ==
  LET len == DumpLen[a \cup b] IN
  IF len + 1 > Here(p).val
  THEN [has |-> b, resize |-> Resize(len)]
  ELSE [has |-> a \cup b, resize |-> resize[p]]

\* The ranks whose contributions make p's result.
Wanted(p) ==
  CASE Kind(p) = "scan"      -> 0 .. p
    [] Kind(p) = "allreduce" -> Ranks
    [] OTHER                 -> IF p = Root(p) THEN Ranks ELSE {}

\* MPI puts a value of q together with what p has: q's own, or what q has put
\* together itself.  An operation that cannot load an argument raises.
Fold(p, q) ==
  /\ pc[p] = "reduce" /\ Turn(q) >= Turn(p)
  /\ LET e == Here(p)  f == log[q][Turn(p)] IN
     /\ Alike(e, f)
     /\ \E g \in {[covers |-> {q}, has |-> f.own], [covers |-> f.covers, has |-> f.has]} :
          /\ g.covers \cap e.covers = {}
          /\ Kind(p) = "scan" => g.covers \subseteq Wanted(p)
          /\ IF g.has = {} \/ e.has = {} THEN End(p, "raised")
             ELSE LET r == Operate(p, g.has, e.has) IN
                  /\ log' = [log EXCEPT ![p][Turn(p)].covers = @ \cup g.covers,
                                        ![p][Turn(p)].has = r.has]
                  /\ resize' = [resize EXCEPT ![p] = r.resize]
                  /\ UNCHANGED <<args, pc, arymax, longest, got>>

\* MPI may also give p the whole result of q.
Spread(p, q) ==
  /\ pc[p] = "reduce" /\ Kind(p) = "allreduce" /\ Turn(q) >= Turn(p)
  /\ LET f == log[q][Turn(p)] IN
     /\ Alike(Here(p), f) /\ f.covers = Ranks /\ Here(p).covers # Ranks
     /\ log' = [log EXCEPT ![p][Turn(p)].covers = Ranks, ![p][Turn(p)].has = f.has]
  /\ UNCHANGED <<args, pc, arymax, longest, resize, got>>

\* The MPI reduction returns at p.
Reduced(p) == pc[p] = "reduce" /\ Wanted(p) \subseteq Here(p).covers

\* The loop: all over again in elements of the size that was asked for.
Repeat(p) ==
  /\ Reduced(p) /\ resize[p] > 0
  /\ resize' = [resize EXCEPT ![p] = 0]
  /\ Join(p, Reducing(p, resize[p]))
  /\ UNCHANGED <<args, arymax, longest, got>>

\* Marshal.load reads longest + 1 bytes of the result.
Return(p) ==
  /\ Reduced(p) /\ resize[p] = 0
  /\ LET has == Here(p).has IN
     IF Wanted(p) # {} /\ (has = {} \/ DumpLen[has] > Count(longest[p])) THEN End(p, "raised")
     ELSE /\ got' = [got EXCEPT ![p] = {IF Wanted(p) = {} THEN {} ELSE has}]
          /\ pc' = [pc EXCEPT ![p] = "out"]
          /\ UNCHANGED <<args, arymax, longest, resize, log>>

-----------------------------------------------------------------------------
Step(p) == \/ Reduce(p) \/ Allreduce(p) \/ Scan(p) \/ ReduceScatter(p) \/ CountsRaise(p)
           \/ MaxDone(p) \/ Refuse(p) \/ Accept(p) \/ DumpRaises(p) \/ LongestDone(p)
           \/ \E q \in Ranks \ {p} : Fold(p, q) \/ Spread(p, q)
           \/ Repeat(p) \/ Return(p)

Next == \E p \in Ranks : Step(p)

Spec == Init /\ [][Next]_vars

\* Every process makes its calls, and MPI goes on with a collective.
FairSpec == Spec /\ \A p \in Ranks : WF_vars(Step(p))

-----------------------------------------------------------------------------
\* A process asks for a repetition only inside a reduction, and always for
\* larger elements than it has.
TypeOK ==
  /\ plan \in Plans
  /\ calls \in [Ranks -> 0 .. MaxCalls]
  /\ pc \in [Ranks -> {"out", "max", "min", "ok", "longest", "reduce", "refused", "raised"}]
  /\ arylen \in [Ranks -> ArrayLens \cup {-1}] /\ arymax \in [Ranks -> ArrayLens \cup {-1}]
  /\ length \in [Ranks -> Int] /\ longest \in [Ranks -> Int] /\ resize \in [Ranks -> Nat]
  /\ log \in [Ranks -> Seq(Entry)]
  /\ got \in [Ranks -> SUBSET SUBSET Ranks]
  /\ \A p \in Ranks : resize[p] > 0 => Here(p).step = "reduce" /\ resize[p] > Here(p).val

\* No process has been asked to reduce once more.
Calm ==
  \A p \in Ranks :
    /\ resize[p] = 0
    /\ \A n \in 2 .. Turn(p) : log[p][n].step = "reduce" => log[p][n - 1].step = "longest"

\* Until an operation outgrows the elements, the collectives that MPI matches
\* are the same step of the same reduction at all processes, with elements of
\* the same size, although no two processes hold the same length.
InStep ==
  Calm => \A p, q \in Ranks : \A n \in 1 .. Min({Turn(p), Turn(q)}) :
            log[p][n].call = log[q][n].call /\ Alike(log[p][n], log[q][n])

\* A result a method returns has the contributions of exactly the processes
\* it should (docs/rd/mpi_comm.rd, reduce, allreduce, scan, reduce_scatter).
Result == \A p \in Ranks : \A r \in got[p] : r = Wanted(p)

\* Result, until an operation outgrows the elements: however MPI brackets it.
WholeResult == Calm => Result

\* Arrays that do not fit together are refused by every process or by none:
\* nobody goes on to reduce with a process that has raised MPI_ERR_ARG.
RefusedByAll ==
  \A p, q \in Ranks : pc[p] = "refused" =>
    \A n \in 1 .. Turn(q) : log[q][n].call = calls[p] => log[q][n].step \in {"max", "min", "ok"}

\* Unless a process is asked to reduce once more or raises in the middle,
\* every process makes all its reductions or is refused.
Undisturbed == Calm /\ \A p \in Ranks : pc[p] # "raised"
AllReduced ==
  []Undisturbed =>
    \A p \in Ranks : <>(pc[p] = "refused" \/ (pc[p] = "out" /\ calls[p] = MaxCalls))
=============================================================================
