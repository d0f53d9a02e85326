----------------------------- MODULE ReductionInv -----------------------------
(***************************************************************************)
(* The inductive invariant behind the safety properties of Reduction.      *)
(***************************************************************************)
EXTENDS Reduction

Agreements == {"max", "min", "ok", "longest"}

\* The ranks whose contributions p wants in its c-th reduction.
WantedIn(p, c) ==
  CASE plan[c][1] = "scan"      -> 0 .. p
    [] plan[c][1] = "allreduce" -> Ranks
    [] OTHER                    -> IF p = plan[c][2] THEN Ranks ELSE {}

FirstStep(c) == IF plan[c][1] = "reduce_scatter" THEN "ok" ELSE "max"

\* What all processes have contributed to their n-th collective.
ValuesAt(n) == {log[q][n].val : q \in Ranks}

\* p is through with its n-th collective, or has been refused by it.
Passed(p, n) == n < Turn(p) \/ pc[p] \in {"out", "refused"}

\* The last entry of a log is the collective the process is in, or was in last.
Current(p) ==
  IF Turn(p) = 0 THEN calls[p] = 0 /\ pc[p] \in {"out", "raised"}
  ELSE /\ Here(p).call = calls[p]
       /\ pc[p] \in Agreements \cup {"reduce"} => Here(p).step = pc[p]
       /\ pc[p] = "out" => Here(p).step = "reduce"
       /\ pc[p] = "refused" => Here(p).step \in {"min", "ok"}

\* No process comes out of a reduction while it is asked to repeat it.
Idle(p) == pc[p] = "out" => resize[p] = 0

\* What an entry of p holds.
EntryOk(p, e) ==
  /\ e.call \in 1 .. MaxCalls
  /\ e.step = "max" => e.val \in ArrayLens \cup {-1}
  /\ e.step = "longest" => e.val \in Int
  /\ e.own \subseteq {p}
  /\ e.step = "reduce" /\ plan[e.call][1] = "scan" => e.covers \subseteq 0 .. p
Held(p) == \A n \in 1 .. Turn(p) : EntryOk(p, log[p][n])

\* The collectives of a program follow one another.
Follows(e, f) ==
  \/ e.step = "max" /\ f.step = "min" /\ f.call = e.call
  \/ e.step \in {"min", "ok"} /\ f.step = "longest" /\ f.call = e.call
  \/ e.step \in {"longest", "reduce"} /\ f.step = "reduce" /\ f.call = e.call
  \/ e.step = "reduce" /\ f.call = e.call + 1 /\ f.step = FirstStep(f.call)
InOrder(p) ==
  /\ Turn(p) > 0 => log[p][1].call = 1 /\ log[p][1].step = FirstStep(1)
  /\ \A n \in 2 .. Turn(p) : Follows(log[p][n - 1], log[p][n])

\* Reductions are made one after the other, each reduced at its end.
Ahead(e, f) ==
  /\ e.call <= f.call
  /\ e.call = f.call /\ e.step \in {"longest", "reduce"} => f.step = "reduce"
Later(p) == \A n \in 1 .. Turn(p) : \A m \in 1 .. n - 1 : Ahead(log[p][m], log[p][n])

\* An agreement is over only when every process has come to the same one.
Agreed(p) ==
  \A n \in 1 .. Turn(p) : log[p][n].step \in Agreements /\ Passed(p, n) =>
    \A q \in Ranks : n <= Turn(q) /\ log[q][n].step = log[p][n].step

\* What a process went on with is what the agreements before have found.
Found(e, f, n) ==
  /\ e.step = "longest" => f.val = Count(Max(ValuesAt(n - 1)))
  /\ e.step = "min" => Min(ValuesAt(n - 1)) = Max(ValuesAt(n - 2))
  /\ e.step = "ok" => Min(ValuesAt(n - 1)) # 0
Founded(p) == \A n \in 2 .. Turn(p) : Found(log[p][n - 1], log[p][n], n)

\* A process that compares the lengths holds the longest, and one that was
\* refused had a reason all processes share.
Compares(p) ==
  /\ Turn(p) > 0 /\ pc[p] \in {"min", "refused"} /\ Here(p).step = "min" =>
       Turn(p) > 1 /\ arymax[p] = Max(ValuesAt(Turn(p) - 1))
  /\ pc[p] = "refused" =>
       IF Here(p).step = "min" THEN Min(ValuesAt(Turn(p))) # arymax[p]
       ELSE Min(ValuesAt(Turn(p))) = 0

\* Contributions come from processes in the same collective, and a reduction is
\* over only with those that are wanted.
Gathered(p) ==
  \A n \in 1 .. Turn(p) : log[p][n].step = "reduce" =>
    /\ \A r \in log[p][n].covers : n <= Turn(r) /\ Alike(log[r][n], log[p][n])
    /\ Passed(p, n) => WantedIn(p, log[p][n].call) \subseteq log[p][n].covers

\* A collective that all processes have left was the same one for all.
SameAt(n) ==
  \A p, q \in Ranks : log[p][n].call = log[q][n].call /\ Alike(log[p][n], log[q][n])
Behind ==
  \A p \in Ranks : \A n \in 1 .. Turn(p) : (\A r \in Ranks : n < Turn(r)) => SameAt(n)

\* Until an operation outgrows the elements, what a process has put together is
\* what MPI has brought it, unless it was cut short.
Uncut(p) ==
  \A n \in 1 .. Turn(p) : log[p][n].step = "reduce" => log[p][n].has \in {{}, log[p][n].covers}

\* The inductive invariant.
IInv ==
  /\ TypeOK
  /\ \A p \in Ranks : Current(p) /\ Idle(p) /\ Held(p) /\ InOrder(p) /\ Later(p)
  /\ \A p \in Ranks : Agreed(p) /\ Founded(p) /\ Compares(p) /\ Gathered(p)
  /\ Behind
  /\ InStep
  /\ Calm => \A p \in Ranks : Uncut(p)
  /\ WholeResult
=============================================================================
