------------------------------ MODULE Operators ------------------------------
(***************************************************************************)
(* MPI::Op in one process (src/mpi_op.c, src/ops.rb) and the reductions    *)
(* that use it, as far as the operation is concerned (comm_reduce and its  *)
(* like in src/mpi_comm.c).                                                *)
(*                                                                         *)
(* An operation of the program has a slot of op_table, one of MAX_OPS C    *)
(* functions, which calls the Proc in the slot.  A result too long for the *)
(* elements of the reduction is not stored: the function leaves the size   *)
(* it needs in the slot, and the reduction is repeated.                    *)
(*                                                                         *)
(* The predefined operations share one struct with them, but idx of theirs *)
(* is never assigned, and they report a long result in slot 0.             *)
(*                                                                         *)
(* All the calls MPI makes of the operation happen in this process here:   *)
(* the worst case for the table.  What one process knows of another's      *)
(* table is the matter of Reduction.                                       *)
(***************************************************************************)
EXTENDS Integers, FiniteSets

CONSTANTS MaxOps,       \* MAX_OPS
          Ops,          \* operations the program creates, and the Proc of each
          Kept,         \* those whose Proc the program itself holds on to
          Predefined,   \* names of predefined operations
          Ranks,        \* the processes that contribute to a reduction
          Bits,         \* bits of the integers band, bor and bxor work on
          Args,         \* Args[o]: contributions to a reduction with o
          None,         \* 0, NULL, nothing
          Outside,      \* an idx that is not one of the table
          Cut           \* the first bytes of a dump

Slots == 0 .. MaxOps - 1
AllOps == Ops \cup Predefined

\* Integers are compared and added as such and and-ed as sets of bits; maxloc
\* takes pairs of a value and a location, lxor truth values and integers.  An
\* operation of the program unites what the ranks contribute.
Truths == {"true", "false", "0", "1"}
Operands(o) ==
  CASE o \in Ops -> SUBSET Ranks
    [] o \in {"maxloc", "minloc"} -> Int \X Ranks
    [] o \in {"band", "bor", "bxor"} -> SUBSET Bits
    [] o \in {"land", "lor", "lxor"} -> Truths
    [] OTHER -> Int

Names == {"max", "min", "sum", "prod", "land", "lor", "lxor", "band", "bor", "bxor",
          "maxloc", "minloc"}

ASSUME OperatorsOk ==
  /\ MaxOps \in Nat \ {0} /\ Kept \subseteq Ops /\ IsFiniteSet(Ranks)
  /\ Predefined \subseteq Names /\ Ops \cap Names = {}
  /\ None \notin AllOps /\ Predefined \notin Ops \cup {None} /\ {None, Outside} \cap Slots = {} /\ None # Outside
  /\ \A o \in AllOps : Args[o] \subseteq [Ranks -> Operands(o)]
  /\ \A o \in Ops : Args[o] \subseteq {[r \in Ranks |-> {r}]}

VARIABLES
  \* op_table.
  assigned,  \* assigned[s]
  proc,      \* proc[s]: the Proc, by the operation it was made for, or None
  resize,    \* resize[s]: None for 0, else what has set it: an operation of the
             \*   program, or Predefined for any of the predefined ones
  \* struct mpi_op and the Ruby objects.
  idx,       \* idx[o]: the slot of o, None before it has one
  life,      \* life[o]: new, live, freed, failed or refused
  swept,     \* Procs the garbage collector has taken
  \* The reduction in progress.
  pc,        \* out, mpi, or crashed
  cur,       \* its operation, None outside
  slot,      \* the idx that op_get_resize finds in the operation
  vals,      \* vals[r]: what r contributes
  part,      \* part[r]: the value at r in MPI, None when it has been used up
  covers,    \* covers[r]: the ranks MPI has put together in part[r]
  lost,      \* in this pass a result has not been stored whole (not in the code)
  burnt      \* operations with a reduction that ended in an exception (not in the code)

table == <<assigned, proc, resize>>
objects == <<idx, life, swept>>
values == <<vals, part, covers>>
reduction == <<pc, cur, slot, values, lost, burnt>>
vars == <<table, objects, reduction>>

Init ==
  /\ assigned = [s \in Slots |-> FALSE]
  /\ proc = [s \in Slots |-> None]
  /\ resize = [s \in Slots |-> None]
  /\ idx = [o \in Ops |-> None]
  /\ life = [o \in Ops |-> "new"]
  /\ swept = {}
  /\ pc = "out" /\ cur = None /\ slot = None
  /\ vals = [r \in Ranks |-> None]
  /\ part = [r \in Ranks |-> None]
  /\ covers = [r \in Ranks |-> {}]
  /\ lost = FALSE
  /\ burnt = {}

-----------------------------------------------------------------------------
(* Operations come and go, also while a Proc runs inside a reduction.       *)

Free == {s \in Slots : ~assigned[s]}
First(s) == s \in Free /\ \A t \in Free : s <= t

RegisterStale(o, s) ==   \* mutant: resize keeps what the last owner left
  /\ assigned' = [assigned EXCEPT ![s] = TRUE]
  /\ proc' = [proc EXCEPT ![s] = o]
  /\ UNCHANGED resize
RegisterLate(o, s) ==    \* mutant: the Proc is stored only if there is none
  /\ assigned' = [assigned EXCEPT ![s] = TRUE]
  /\ proc' = [proc EXCEPT ![s] = IF @ = None THEN o ELSE @]
  /\ resize' = [resize EXCEPT ![s] = None]
\* op_register.
Register(o, s) ==
  /\ assigned' = [assigned EXCEPT ![s] = TRUE]
  /\ proc' = [proc EXCEPT ![s] = o]
  /\ resize' = [resize EXCEPT ![s] = None]

\* op_create.  When MPI_Op_create fails the exception leaves the slot taken.
Create(o) ==
  /\ pc # "crashed" /\ life[o] = "new"
  /\ \E s \in Slots : First(s) /\ Register(o, s) /\ idx' = [idx EXCEPT ![o] = s]
  /\ \E end \in {"live", "failed"} : life' = [life EXCEPT ![o] = end]
  /\ UNCHANGED <<swept, reduction>>

CreateRefused(o) ==
  /\ pc # "crashed" /\ life[o] = "new" /\ Free = {}
  /\ life' = [life EXCEPT ![o] = "refused"]
  /\ UNCHANGED <<table, idx, swept, reduction>>

ReleaseNot(s) == IF s > 0 THEN [assigned EXCEPT ![s] = FALSE] ELSE assigned  \* mutant: idx > 0
Release(s) == [assigned EXCEPT ![s] = FALSE]

\* op_free, run by the garbage collector: not for the operation of a reduction
\* in progress, which is on the C stack.
Collect(o) ==
  /\ pc # "crashed" /\ life[o] = "live" /\ cur # o
  /\ assigned' = Release(idx[o])
  /\ life' = [life EXCEPT ![o] = "freed"]
  /\ UNCHANGED <<proc, resize, idx, swept, reduction>>

\* Nobody marks the Proc in the table (op_new has no mark function).
Sweep(o) ==
  /\ pc # "crashed" /\ o \notin Kept \cup swept /\ life[o] # "new"
  /\ swept' = swept \cup {o}
  /\ UNCHANGED <<table, idx, life, reduction>>

-----------------------------------------------------------------------------
(* A reduction.                                                             *)

Contribute(v) ==
  /\ vals' = v /\ part' = v
  /\ covers' = [r \in Ranks |-> {r}]
  /\ lost' = FALSE

Begin(o) ==
  /\ pc = "out"
  /\ \/ o \in Ops /\ life[o] = "live" /\ slot' = idx[o]
     \/ o \in Predefined /\ slot' \in Slots \cup {Outside}
  /\ pc' = "mpi" /\ cur' = o
  /\ \E v \in Args[o] : Contribute(v)
  /\ UNCHANGED <<table, objects, burnt>>

\* The result of each operation.  Four of them keep one of their arguments: y
\* where it is, unless x is copied over it.  max and maxloc look at the VALUE of
\* what <=> returns, which is positive for 0 too.
Keeps == {"max", "min", "maxloc", "minloc"}
CopiesLarger(o, x, y) ==   \* mutant: minloc is a copy of maxloc, min of max
  IF o \in {"max", "min"} THEN x >= y ELSE x[1] >= y[1]
Copies(o, x, y) ==
  CASE o = "max" -> x >= y
    [] o = "min" -> x < y
    [] o = "maxloc" -> x[1] >= y[1]
    [] o = "minloc" -> x[1] < y[1]

\* lxor takes any object but false and nil for true.
Truth(v) == v # "false"
op_sum(x, y) == x + y
op_prod(x, y) == x * y
op_band(x, y) == x \cap y
op_bor(x, y) == x \cup y
op_bxor(x, y) == (x \ y) \cup (y \ x)
op_lxor(x, y) == IF Truth(x) = Truth(y) THEN "0" ELSE "1"
Combine(o, x, y) ==
  CASE o \in Ops -> x \cup y
    [] o \in Keeps -> IF Copies(o, x, y) THEN x ELSE y
    [] o = "sum" -> op_sum(x, y)
    [] o = "prod" -> op_prod(x, y)
    [] o = "band" -> op_band(x, y)
    [] o = "bor" -> op_bor(x, y)
    [] o = "bxor" -> op_bxor(x, y)
    [] o = "lxor" -> op_lxor(x, y)

\* land and lor call methods "and" and "or", which no object has.
NoMethod == {"land", "lor"}

\* What may become of a result.  A function of the table knows its length; in
\* the predefined ones length is never assigned, and those that copy do not ask
\* whether it fits.
Outcomes(o, x, y) ==
  CASE o \in Ops -> {"stored", "outgrown"}
    [] o \in Keeps -> IF Copies(o, x, y) THEN {"stored", "cut"} ELSE {"stored"}
    [] OTHER -> {"stored", "cut", "outgrown"}

\* The slot in which operation o reports a result that does not fit.
Reports(o) == IF o \in Ops THEN idx[o] ELSE 0
By(o) == IF o \in Ops THEN o ELSE Predefined

Ready(p, q) == pc = "mpi" /\ p # q /\ covers[p] # {} /\ covers[q] # {}

\* MPI calls the operation on the values at p and q; the result goes to q.
Call(p, q) ==
  /\ Ready(p, q) /\ {part[p], part[q]} \cap {Cut} = {}
  /\ cur \notin NoMethod /\ cur \notin swept
  /\ \E end \in Outcomes(cur, part[p], part[q]) :
       /\ part' = [part EXCEPT ![p] = None,
                               ![q] = CASE end = "stored" -> Combine(cur, part[p], part[q])
                                        [] end = "cut" -> Cut
                                        [] OTHER -> part[q]]
       /\ resize' = IF end = "outgrown" THEN [resize EXCEPT ![Reports(cur)] = By(cur)]
                    ELSE resize
       /\ lost' = (lost \/ end # "stored")
  /\ covers' = [covers EXCEPT ![p] = {}, ![q] = covers[p] \cup covers[q]]
  /\ UNCHANGED <<assigned, proc, objects, pc, cur, slot, vals, burnt>>

\* The Proc or the method, Marshal.load or MPI raises.
Idle == [r \in Ranks |-> None]
End ==
  /\ pc' = "out" /\ cur' = None /\ slot' = None
  /\ vals' = Idle /\ part' = Idle
  /\ covers' = [r \in Ranks |-> {}]
  /\ lost' = FALSE
CallRaises ==
  /\ pc = "mpi" /\ cur \notin swept
  /\ burnt' = burnt \cup ({cur} \cap Ops)
  /\ End
  /\ UNCHANGED <<table, objects>>

\* The call of a Proc that has been collected.
CallSwept(p, q) ==
  /\ Ready(p, q) /\ cur \in swept
  /\ pc' = "crashed"
  /\ UNCHANGED <<table, objects, cur, slot, values, lost, burnt>>

FlagsOfZero == {resize[0] # None}   \* mutant: op_get_resize looks at slot 0
\* op_get_resize > 0.  Outside the table anything may be found.
Flags == IF slot = Outside THEN BOOLEAN ELSE {resize[slot] # None}

Over == pc = "mpi" /\ \E r \in Ranks : covers[r] = Ranks

\* op_clear_resize, and all over again.
Repeat ==
  /\ Over /\ TRUE \in Flags
  /\ resize' = IF slot = Outside THEN resize ELSE [resize EXCEPT ![slot] = None]
  /\ Contribute(vals)
  /\ UNCHANGED <<assigned, proc, objects, pc, cur, slot, burnt>>

Return ==
  /\ Over /\ FALSE \in Flags
  /\ End
  /\ UNCHANGED <<table, objects, burnt>>

-----------------------------------------------------------------------------
Next ==
  \/ \E o \in Ops : Create(o) \/ CreateRefused(o) \/ Collect(o) \/ Sweep(o)
  \/ \E o \in AllOps : Begin(o)
  \/ \E p, q \in Ranks : Call(p, q) \/ CallSwept(p, q)
  \/ CallRaises \/ Repeat \/ Return

Spec == Init /\ [][Next]_vars

-----------------------------------------------------------------------------
TypeOK ==
  /\ assigned \in [Slots -> BOOLEAN]
  /\ proc \in [Slots -> Ops \cup {None}] /\ resize \in [Slots -> Ops \cup {Predefined, None}]
  /\ idx \in [Ops -> Slots \cup {None}]
  /\ \A o \in Ops : life[o] \in {"live", "failed"} => idx[o] # None
  /\ life \in [Ops -> {"new", "live", "freed", "failed", "refused"}]
  /\ swept \subseteq Ops \ Kept
  /\ pc \in {"out", "mpi", "crashed"}
  /\ cur \in AllOps \cup {None} /\ (pc = "out" <=> cur = None)
  /\ slot \in Slots \cup {Outside, None} /\ (pc # "out" => slot # None)
  /\ DOMAIN vals = Ranks /\ DOMAIN part = Ranks
  /\ covers \in [Ranks -> SUBSET Ranks]
  /\ lost \in BOOLEAN /\ burnt \subseteq Ops

\* The operations that own a slot: the live ones, and those MPI refused.
Owns(o, s) == life[o] \in {"live", "failed"} /\ idx[o] = s

\* A slot is taken exactly as long as one operation owns it, and no two
\* operations ever share one, whatever order they are created and collected in.
SlotsExact ==
  /\ \A s \in Slots : assigned[s] <=> \E o \in Ops : Owns(o, s)
  /\ \A o1, o2 \in Ops : \A s \in Slots : Owns(o1, s) /\ Owns(o2, s) => o1 = o2

\* MPI calls the Proc the program gave to this operation, never that of one
\* that had the slot before or got it since.
OwnProc == pc = "mpi" /\ cur \in Ops => assigned[slot] /\ proc[slot] = cur

\* The resize an operation finds in its slot is its own, and from the reduction
\* in progress unless an earlier one ended in an exception.  Slot 0 may hold
\* that of a predefined operation instead: its owner then reduces twice.
OwnFlag ==
  \A o \in Ops : \A s \in Slots : Owns(o, s) /\ resize[s] # None =>
    \/ resize[s] = o /\ (cur = o \/ o \in burnt)
    \/ resize[s] = Predefined /\ s = 0

\* A reduction with an operation of the program returns only from a pass in
\* which every result was stored: a result that did not fit is always seen,
\* and the reduction repeated.  (Of a predefined operation it is not seen.)
NothingDropped == [][Return /\ cur \in Ops => ~lost]_vars

\* v is what the operation o stands for, of the contributions c of the ranks S.
\* lxor is left out (it takes its own 0 for true), so are land and lor, which
\* raise; sums are not in question.
Means(o, c, S, v) ==
  CASE o \in Ops -> v = S
    [] o = "max" -> \A r \in S : v >= c[r]
    [] o = "min" -> \A r \in S : v <= c[r]
    [] o = "maxloc" -> \A r \in S : v[1] >= c[r][1]
    [] o = "minloc" -> \A r \in S : v[1] <= c[r][1]
    [] o = "band" -> v = {b \in Bits : \A r \in S : b \in c[r]}
    [] o = "bor" -> v = {b \in Bits : \E r \in S : b \in c[r]}
    [] OTHER -> TRUE

\* However MPI brackets and orders the calls, the value it has put together is
\* the one the operation stands for, and one that somebody contributed if the
\* operation chooses between its arguments, as long as nothing was lost.
Right ==
  pc = "mpi" /\ ~lost =>
    \A r \in Ranks : covers[r] # {} =>
      /\ Means(cur, vals, covers[r], part[r])
      /\ cur \in Keeps => \E q \in covers[r] : part[r] = vals[q]

-----------------------------------------------------------------------------
(* The inductive invariant.                                                 *)

\* The operation of a reduction lives, and MPI has its slot and its arguments.
InUse ==
  pc # "out" => /\ cur \in Ops => life[cur] = "live" /\ slot = idx[cur]
                /\ vals \in Args[cur]
                /\ ~lost => \A r \in Ranks : covers[r] # {} => part[r] \in Operands(cur)

\* The Proc is in the slot from the start, also that of an idle operation.
ProcsInPlace == \A o \in Ops : \A s \in Slots : Owns(o, s) => proc[s] = o

\* A result that was not stored has left its mark.
Armed == pc = "mpi" /\ cur \in Ops /\ lost => resize[slot] # None

IInv == TypeOK /\ SlotsExact /\ OwnFlag /\ InUse /\ ProcsInPlace /\ Armed /\ Right
=============================================================================
