--------------------------- MODULE OperatorsProofs ---------------------------
(***************************************************************************)
(* Proofs about Operators: for any number of slots, of operations, of      *)
(* ranks and for any contributions, IInv is an invariant; what Operators   *)
(* promises follows from it.                                               *)
(***************************************************************************)
EXTENDS Operators, TLAPS

\* Values that mean two sets of contributions combine to one that means both.
LEMMA MeansJoin ==
  ASSUME NEW o \in AllOps, o \notin NoMethod, NEW c \in Args[o],
         NEW S \in SUBSET Ranks, NEW T \in SUBSET Ranks,
         NEW a \in Operands(o), NEW b \in Operands(o),
         Means(o, c, S, a), Means(o, c, T, b)
  PROVE  /\ Combine(o, a, b) \in Operands(o)
         /\ Means(o, c, S \cup T, Combine(o, a, b))
         /\ o \in Keeps => Combine(o, a, b) \in {a, b}
<1>1. c \in [Ranks -> Operands(o)]
  BY OperatorsOk
<1>2. CASE o \in Ops
  <2>1. o \notin Names
    BY <1>2, OperatorsOk
  <2> QED BY <1>2, <2>1 DEF Operands, Means, Combine, Names, Keeps
<1>3. CASE o \in Names /\ o \notin Ops
  <2>1. CASE o = "max"
    BY <2>1, <1>1, <1>3 DEF Operands, Means, Combine, Keeps, Copies
  <2>2. CASE o = "min"
    BY <2>2, <1>1, <1>3 DEF Operands, Means, Combine, Keeps, Copies
  <2>3. CASE o = "maxloc"
    BY <2>3, <1>1, <1>3 DEF Operands, Means, Combine, Keeps, Copies
  <2>4. CASE o = "minloc"
    BY <2>4, <1>1, <1>3 DEF Operands, Means, Combine, Keeps, Copies
  <2>5. CASE o = "band"
    BY <2>5, <1>1, <1>3 DEF Operands, Means, Combine, Keeps, op_band
  <2>6. CASE o = "bor"
    BY <2>6, <1>1, <1>3 DEF Operands, Means, Combine, Keeps, op_bor
  <2>7. CASE o \in {"sum", "prod", "bxor", "lxor"}
    BY <2>7, <1>1, <1>3 DEF Operands, Means, Combine, Keeps, Truths,
                           op_sum, op_prod, op_bxor, op_lxor
  <2> QED BY <1>3, <2>1, <2>2, <2>3, <2>4, <2>5, <2>6, <2>7 DEF Names, NoMethod
<1> QED BY <1>2, <1>3, OperatorsOk DEF AllOps
-----------------------------------------------------------------------------
\* Every step, the stuttering one included.
LEMMA Steps ==
  ASSUME IInv, [Next]_vars
  PROVE  \/ \E o \in Ops : Create(o) \/ CreateRefused(o) \/ Collect(o) \/ Sweep(o)
         \/ \E o \in AllOps : Begin(o)
         \/ \E p, q \in Ranks : Call(p, q) \/ CallSwept(p, q)
         \/ CallRaises \/ Repeat \/ Return \/ UNCHANGED vars
  BY DEF Next

LEMMA InitInv == Init => IInv
<1> SUFFICES ASSUME Init PROVE IInv
  OBVIOUS
<1>1. TypeOK
  BY OperatorsOk DEF Init, TypeOK
<1>2. SlotsExact /\ OwnFlag /\ InUse /\ ProcsInPlace /\ Armed /\ Right
  BY OperatorsOk DEF Init, SlotsExact, OwnFlag, InUse, ProcsInPlace, Armed, Right, Owns
<1> QED BY <1>1, <1>2 DEF IInv

\* Creating an operation gives it a slot nobody owns.
LEMMA CreateInv ==
  ASSUME IInv, NEW o \in Ops, Create(o)
  PROVE  IInv'
<1>1. PICK s \in Slots : First(s) /\ Register(o, s) /\ idx' = [idx EXCEPT ![o] = s]
  BY DEF Create
<1>2. PICK end \in {"live", "failed"} : life' = [life EXCEPT ![o] = end]
  BY DEF Create
<1>3. ~assigned[s] /\ life[o] = "new"
  BY <1>1 DEF First, Free, Create
<1>4. \A o2 \in Ops : ~Owns(o2, s)
  BY <1>3 DEF IInv, SlotsExact
<1>5. \A o2 \in Ops : \A t \in Slots : Owns(o2, t)' <=> (Owns(o2, t) \/ (o2 = o /\ t = s))
  BY <1>1, <1>2, <1>3, <1>4, OperatorsOk DEF IInv, TypeOK, Owns
<1>6. /\ assigned' = [assigned EXCEPT ![s] = TRUE]
      /\ proc' = [proc EXCEPT ![s] = o]
      /\ resize' = [resize EXCEPT ![s] = None]
      /\ UNCHANGED <<swept, reduction>>
  BY <1>1 DEF Register, Create
<1>7. TypeOK'
  BY <1>1, <1>2, <1>6, OperatorsOk DEF IInv, TypeOK, reduction, values
<1>8. SlotsExact'
  BY <1>4, <1>5, <1>6 DEF IInv, SlotsExact, TypeOK
<1>9. OwnFlag'
  BY <1>4, <1>5, <1>6 DEF IInv, OwnFlag, TypeOK, reduction
<1>10. ProcsInPlace'
  BY <1>4, <1>5, <1>6 DEF IInv, ProcsInPlace, TypeOK
<1>11. InUse'
  BY <1>1, <1>2, <1>3, <1>6 DEF IInv, InUse, TypeOK, reduction, values
<1>12. Armed'
  <2> SUFFICES ASSUME pc = "mpi", cur \in Ops, lost
               PROVE  resize'[slot] # None
    BY <1>6 DEF Armed, reduction
  <2>1. Owns(cur, slot) /\ slot \in Slots
    BY DEF IInv, InUse, Owns, TypeOK
  <2>2. slot # s
    BY <2>1, <1>4
  <2> QED BY <2>1, <2>2, <1>6 DEF IInv, Armed, TypeOK
<1>13. Right'
  BY <1>6 DEF IInv, Right, reduction, values
<1> QED BY <1>7, <1>8, <1>9, <1>10, <1>11, <1>12, <1>13 DEF IInv

\* A refused creation, the collection of a Proc: no slot changes.
LEMMA IdleInv ==
  ASSUME IInv, NEW o \in Ops, CreateRefused(o) \/ Sweep(o)
  PROVE  IInv'
<1>1. \A o2 \in Ops : \A t : Owns(o2, t)' <=> Owns(o2, t)
  BY DEF IInv, TypeOK, Owns, CreateRefused, Sweep
<1>2. \A o2 \in Ops : life'[o2] = "live" <=> life[o2] = "live"
  BY DEF IInv, TypeOK, CreateRefused, Sweep
<1>3. UNCHANGED <<table, idx, reduction>>
  BY DEF CreateRefused, Sweep
<1>4. TypeOK'
  BY OperatorsOk DEF IInv, TypeOK, CreateRefused, Sweep, table, reduction, values
<1>5. SlotsExact' /\ OwnFlag' /\ ProcsInPlace'
  BY <1>1, <1>3 DEF IInv, SlotsExact, OwnFlag, ProcsInPlace, table, reduction
<1>6. InUse'
  BY <1>2, <1>3 DEF IInv, InUse, reduction, values
<1>7. Armed' /\ Right'
  BY <1>3 DEF IInv, Armed, Right, table, reduction, values
<1> QED BY <1>4, <1>5, <1>6, <1>7 DEF IInv

\* Collecting an operation gives back its slot and no other.
LEMMA CollectInv ==
  ASSUME IInv, NEW o \in Ops, Collect(o)
  PROVE  IInv'
<1>1. idx[o] \in Slots /\ Owns(o, idx[o])
  BY DEF IInv, TypeOK, Collect, Owns
<1>2. \A o2 \in Ops : \A t \in Slots : Owns(o2, t)' <=> Owns(o2, t) /\ o2 # o
  BY DEF IInv, TypeOK, Collect, Owns
<1>3. \A o2 \in Ops : Owns(o2, idx[o]) => o2 = o
  BY <1>1 DEF IInv, SlotsExact
<1>4. /\ assigned' = [assigned EXCEPT ![idx[o]] = FALSE]
      /\ UNCHANGED <<proc, resize, idx, swept, reduction>>
  BY DEF Collect, Release
<1>5. TypeOK'
  BY <1>4 DEF IInv, TypeOK, Collect, reduction, values
<1>6. SlotsExact'
  <2>1. \A s \in Slots : assigned'[s] <=> \E o2 \in Ops : Owns(o2, s)'
    BY <1>1, <1>2, <1>3, <1>4 DEF IInv, SlotsExact, TypeOK, Owns
  <2>2. \A o1, o2 \in Ops : \A s \in Slots : Owns(o1, s)' /\ Owns(o2, s)' => o1 = o2
    BY <1>2 DEF IInv, SlotsExact
  <2> QED BY <2>1, <2>2 DEF SlotsExact
<1>7. OwnFlag' /\ ProcsInPlace'
  BY <1>2, <1>4 DEF IInv, OwnFlag, ProcsInPlace, reduction
<1>8. InUse' /\ Armed' /\ Right'
  BY <1>4 DEF IInv, InUse, Armed, Right, Collect, TypeOK, reduction, values
<1> QED BY <1>5, <1>6, <1>7, <1>8 DEF IInv

\* Contributions mean what they are.
LEMMA ContributeRight ==
  ASSUME NEW o \in AllOps, NEW v \in Args[o], Contribute(v), cur' = o
  PROVE  /\ DOMAIN vals' = Ranks /\ DOMAIN part' = Ranks
         /\ covers' \in [Ranks -> SUBSET Ranks]
         /\ lost' = FALSE /\ vals' \in Args[o]
         /\ \A r \in Ranks : part'[r] \in Operands(o)
         /\ Right'
<1>1. v \in [Ranks -> Operands(o)]
  BY OperatorsOk
<1>2. vals' = v /\ part' = v /\ covers' = [r \in Ranks |-> {r}] /\ lost' = FALSE
  BY DEF Contribute
<1>3. ASSUME NEW r \in Ranks
      PROVE  Means(o, v, {r}, v[r])
  <2>1. CASE o \in Ops
    <3>1. o \notin Names /\ v[r] = {r}
      BY <2>1, OperatorsOk DEF AllOps
    <3> QED BY <2>1, <3>1 DEF Means, Names
  <2>2. CASE o \in Names /\ o \notin Ops
    BY <2>2, <1>1, <1>2 DEF Means, Operands, Names
  <2> QED BY <2>1, <2>2, OperatorsOk DEF AllOps
<1>4. Right'
  BY <1>2, <1>3 DEF Right
<1> QED BY <1>1, <1>2, <1>4

LEMMA BeginInv ==
  ASSUME IInv, NEW o \in AllOps, Begin(o)
  PROVE  IInv'
<1>1. PICK v \in Args[o] : Contribute(v)
  BY DEF Begin
<1>2. cur' = o /\ pc' = "mpi" /\ UNCHANGED <<table, objects, burnt>>
  BY DEF Begin
<1>3. /\ slot' \in Slots \cup {Outside}
      /\ o \in Ops => life[o] = "live" /\ slot' = idx[o]
  BY OperatorsOk DEF Begin, IInv, TypeOK, AllOps
<1>4. pc = "out" /\ cur = None
  BY DEF Begin, IInv, TypeOK
<1>5. TypeOK'
  BY <1>1, <1>2, <1>3, ContributeRight, OperatorsOk DEF IInv, TypeOK, table, objects
<1>6. SlotsExact' /\ ProcsInPlace'
  BY <1>2 DEF IInv, SlotsExact, ProcsInPlace, Owns, table, objects
<1>7. OwnFlag'
  BY <1>2, <1>4, OperatorsOk DEF IInv, OwnFlag, Owns, table, objects, AllOps
<1>8. InUse'
  BY <1>1, <1>2, <1>3, ContributeRight DEF InUse, objects
<1>9. Armed' /\ Right'
  BY <1>1, <1>2, ContributeRight DEF Armed
<1> QED BY <1>5, <1>6, <1>7, <1>8, <1>9 DEF IInv

\* A pass begins anew: the flag goes down and nothing has been lost.
LEMMA RepeatInv ==
  ASSUME IInv, Repeat
  PROVE  IInv'
<1>1. cur \in AllOps /\ vals \in Args[cur] /\ Contribute(vals)
  BY OperatorsOk DEF Repeat, Over, IInv, InUse, TypeOK
<1>2. /\ UNCHANGED <<assigned, proc, objects, pc, cur, slot, burnt>>
      /\ \A s \in Slots : resize'[s] = resize[s] \/ resize'[s] = None
      /\ resize' \in [Slots -> Ops \cup {Predefined, None}]
  BY DEF Repeat, IInv, TypeOK
<1>3. TypeOK'
  BY <1>1, <1>2, ContributeRight DEF IInv, TypeOK, objects
<1>4. SlotsExact' /\ ProcsInPlace'
  BY <1>2 DEF IInv, SlotsExact, ProcsInPlace, Owns, objects
<1>5. OwnFlag'
  BY <1>2 DEF IInv, OwnFlag, Owns, objects
<1>6. InUse'
  BY <1>1, <1>2, ContributeRight DEF IInv, InUse, objects
<1>7. Armed' /\ Right'
  BY <1>1, <1>2, ContributeRight DEF Armed
<1> QED BY <1>3, <1>4, <1>5, <1>6, <1>7 DEF IInv

\* A reduction ends, with a result only when the flag is down.
LEMMA EndInv ==
  ASSUME IInv, CallRaises \/ Return
  PROVE  IInv'
<1>1. End /\ pc = "mpi" /\ UNCHANGED <<table, objects>>
  BY DEF CallRaises, Return, Over
<1>2. burnt' \subseteq Ops /\ burnt \subseteq burnt'
  BY DEF CallRaises, Return, IInv, TypeOK
<1>3. cur \in Ops => cur \in burnt' \/ resize[slot] = None
  <2>1. CASE CallRaises
    BY <2>1 DEF CallRaises
  <2>2. CASE Return
    <3>1. cur \in Ops => slot \in Slots
      BY <1>1 DEF IInv, InUse, TypeOK
    <3> QED BY <2>2, <3>1, OperatorsOk DEF Return, Flags
  <2> QED BY <2>1, <2>2
<1>4. TypeOK'
  BY <1>1, <1>2 DEF IInv, TypeOK, End, Idle, table, objects
<1>5. SlotsExact' /\ ProcsInPlace'
  BY <1>1 DEF IInv, SlotsExact, ProcsInPlace, Owns, table, objects
<1>6. OwnFlag'
  <2> SUFFICES ASSUME NEW o \in Ops, NEW s \in Slots, Owns(o, s), resize[s] # None
               PROVE  \/ resize[s] = o /\ o \in burnt'
                      \/ resize[s] = Predefined /\ s = 0
    BY <1>1 DEF OwnFlag, Owns, table, objects
  <2>1. CASE cur = o
    BY <2>1, <1>1, <1>2, <1>3 DEF IInv, InUse, OwnFlag, Owns
  <2>2. CASE cur # o
    BY <2>2, <1>2 DEF IInv, OwnFlag
  <2> QED BY <2>1, <2>2
<1>7. InUse' /\ Armed' /\ Right'
  BY <1>1 DEF End, InUse, Armed, Right
<1> QED BY <1>4, <1>5, <1>6, <1>7 DEF IInv

\* A call that meets a collected Proc is the last step.
LEMMA CallSweptInv ==
  ASSUME IInv, NEW p \in Ranks, NEW q \in Ranks, CallSwept(p, q)
  PROVE  IInv'
<1>1. pc = "mpi" /\ pc' = "crashed" /\ UNCHANGED <<table, objects, cur, slot, values, lost, burnt>>
  BY DEF CallSwept, Ready
<1>2. TypeOK'
  BY <1>1 DEF IInv, TypeOK, table, objects, values
<1>3. SlotsExact' /\ OwnFlag' /\ ProcsInPlace' /\ InUse'
  BY <1>1 DEF IInv, SlotsExact, OwnFlag, ProcsInPlace, InUse, Owns, table, objects, values
<1>4. Armed' /\ Right'
  BY <1>1 DEF Armed, Right
<1> QED BY <1>2, <1>3, <1>4 DEF IInv

\* A call of the operation: the result is stored, or the flag goes up in the
\* slot of this operation, or in slot 0.
LEMMA CallInv ==
  ASSUME IInv, NEW p \in Ranks, NEW q \in Ranks, Call(p, q)
  PROVE  IInv'
<1> USE OperatorsOk
<1>1. PICK end \in Outcomes(cur, part[p], part[q]) :
        /\ part' = [part EXCEPT ![p] = None,
                                ![q] = CASE end = "stored" -> Combine(cur, part[p], part[q])
                                         [] end = "cut" -> Cut
                                         [] OTHER -> part[q]]
        /\ resize' = IF end = "outgrown" THEN [resize EXCEPT ![Reports(cur)] = By(cur)]
                     ELSE resize
        /\ lost' = (lost \/ end # "stored")
  BY DEF Call
<1>2. /\ pc = "mpi" /\ p # q /\ covers[p] # {} /\ covers[q] # {}
      /\ cur \in AllOps /\ cur \notin NoMethod
      /\ covers' = [covers EXCEPT ![p] = {}, ![q] = covers[p] \cup covers[q]]
      /\ UNCHANGED <<assigned, proc, objects, pc, cur, slot, vals, burnt>>
  BY DEF Call, Ready, IInv, TypeOK
<1>3. Reports(cur) \in Slots /\ (cur \in Ops => Reports(cur) = slot /\ Owns(cur, slot))
  BY <1>2 DEF Reports, IInv, InUse, TypeOK, Slots, Owns
<1>4. TypeOK'
  <2>1. resize' \in [Slots -> Ops \cup {Predefined, None}]
    BY <1>1, <1>2 DEF By, IInv, TypeOK
  <2>2. lost' \in BOOLEAN /\ DOMAIN part' = Ranks
    BY <1>1 DEF IInv, TypeOK
  <2>3. covers' \in [Ranks -> SUBSET Ranks]
    BY <1>2 DEF IInv, TypeOK
  <2> QED BY <2>1, <2>2, <2>3, <1>2 DEF IInv, TypeOK, objects
<1>5. SlotsExact' /\ ProcsInPlace'
  BY <1>2 DEF IInv, SlotsExact, ProcsInPlace, Owns, objects
<1>6. OwnFlag'
  <2> SUFFICES ASSUME NEW o \in Ops, NEW s \in Slots, Owns(o, s), resize'[s] # None
               PROVE  \/ resize'[s] = o /\ (cur = o \/ o \in burnt)
                      \/ resize'[s] = Predefined /\ s = 0
    BY <1>2 DEF OwnFlag, Owns, objects
  <2>1. CASE resize'[s] = resize[s]
    BY <2>1 DEF IInv, OwnFlag
  <2>2. CASE resize'[s] # resize[s]
    <3>1. s = Reports(cur) /\ resize'[s] = By(cur)
      BY <2>2, <1>1, <1>3 DEF IInv, TypeOK
    <3>2. CASE cur \in Ops
      BY <3>1, <3>2, <1>3 DEF By, IInv, SlotsExact
    <3>3. CASE cur \notin Ops
      BY <3>1, <3>3 DEF By, Reports
    <3> QED BY <3>2, <3>3
  <2> QED BY <2>1, <2>2
<1>7. Armed'
  <2> SUFFICES ASSUME cur \in Ops, lost'
               PROVE  resize'[slot] # None
    BY <1>2 DEF Armed
  <2>1. CASE end = "outgrown"
    BY <2>1, <1>1, <1>3 DEF By, AllOps, IInv, TypeOK
  <2>2. CASE end # "outgrown"
    <3>1. end = "stored"
      BY <2>2, <1>1 DEF Outcomes, Keeps, Names
    <3> QED BY <3>1, <1>1, <1>2 DEF IInv, Armed
  <2> QED BY <2>1, <2>2
<1>8. InUse' /\ Right'
  <2>1. CASE lost'
    BY <2>1, <1>2 DEF IInv, InUse, Right, objects
  <2>2. CASE ~lost'
    <3>1. ~lost /\ end = "stored" /\ vals \in Args[cur]
      BY <2>2, <1>1, <1>2 DEF IInv, InUse, TypeOK
    <3>2. /\ part[p] \in Operands(cur) /\ part[q] \in Operands(cur)
          /\ Means(cur, vals, covers[p], part[p]) /\ Means(cur, vals, covers[q], part[q])
      BY <3>1, <1>2 DEF IInv, InUse, Right
    <3>3. /\ part'[q] = Combine(cur, part[p], part[q])
          /\ \A r \in Ranks \ {p, q} : part'[r] = part[r]
      BY <3>1, <1>1, <1>2 DEF IInv, TypeOK
    <3>4. /\ covers'[p] = {} /\ covers'[q] = covers[p] \cup covers[q]
          /\ \A r \in Ranks \ {p, q} : covers'[r] = covers[r]
      BY <1>2 DEF IInv, TypeOK
    <3>5. /\ part'[q] \in Operands(cur)
          /\ Means(cur, vals, covers'[q], part'[q])
          /\ cur \in Keeps => part'[q] \in {part[p], part[q]}
      <4>1. covers[p] \in SUBSET Ranks /\ covers[q] \in SUBSET Ranks
        BY DEF IInv, TypeOK
      <4>2. /\ Combine(cur, part[p], part[q]) \in Operands(cur)
            /\ Means(cur, vals, covers[p] \cup covers[q], Combine(cur, part[p], part[q]))
            /\ cur \in Keeps => Combine(cur, part[p], part[q]) \in {part[p], part[q]}
        BY ONLY <4>1, <3>1, <3>2, <1>2, MeansJoin
      <4> QED BY <4>2, <3>3, <3>4
    <3>6. InUse'
      BY <3>1, <3>3, <3>4, <3>5, <1>2 DEF IInv, InUse, objects
    <3>7. Right'
      <4> SUFFICES ASSUME NEW r \in Ranks, covers'[r] # {}
                   PROVE  /\ Means(cur, vals, covers'[r], part'[r])
                          /\ cur \in Keeps => \E x \in covers'[r] : part'[r] = vals[x]
        BY <1>2 DEF Right
      <4>1. CASE r = q
        BY <4>1, <3>1, <3>4, <3>5, <1>2 DEF IInv, Right
      <4>2. CASE r # q
        <5>1. covers'[r] = covers[r] /\ part'[r] = part[r] /\ covers[r] # {}
          BY <4>2, <3>3, <3>4
        <5> QED BY <5>1, <3>1, <1>2 DEF IInv, Right
      <4> QED BY <4>1, <4>2
    <3> QED BY <3>6, <3>7
  <2> QED BY <2>1, <2>2
<1> QED BY <1>4, <1>5, <1>6, <1>7, <1>8 DEF IInv

LEMMA StutterInv ==
  ASSUME IInv, UNCHANGED vars
  PROVE  IInv'
BY DEF IInv, TypeOK, SlotsExact, OwnFlag, InUse, ProcsInPlace, Armed, Right, Owns,
       vars, table, objects, reduction, values

LEMMA NextInv == IInv /\ [Next]_vars => IInv'
BY Steps, CreateInv, IdleInv, CollectInv, BeginInv, CallInv, CallSweptInv, EndInv,
   RepeatInv, StutterInv

-----------------------------------------------------------------------------
\* The inductive invariant of the operator table and the reductions holds in
\* every reachable state: op_register, op_free and the C functions of ops.rb
\* keep slots, Procs and flags of the operations apart.
THEOREM SpecInv == Spec => []IInv
BY InitInv, NextInv, PTL DEF Spec

\* MPI never calls another operation's Proc.
THEOREM SpecOwnProc == Spec => []OwnProc
<1>1. IInv => OwnProc
  <2> SUFFICES ASSUME IInv, pc = "mpi", cur \in Ops
               PROVE  assigned[slot] /\ proc[slot] = cur
    BY DEF OwnProc
  <2>1. Owns(cur, slot) /\ slot \in Slots
    BY DEF IInv, InUse, TypeOK, Owns
  <2> QED BY <2>1 DEF IInv, SlotsExact, ProcsInPlace
<1> QED BY <1>1, SpecInv, PTL

\* The resize flag op_get_resize reads is the operation's own.
THEOREM SpecOwnFlag == Spec => []OwnFlag
<1>1. IInv => OwnFlag
  BY DEF IInv
<1> QED BY <1>1, SpecInv, PTL

\* Values are put together as the operation means, in whatever order MPI calls it.
THEOREM SpecRight == Spec => []Right
<1>1. IInv => Right
  BY DEF IInv
<1> QED BY <1>1, SpecInv, PTL

\* A reduction with an operation of the program does not return while a result
\* has been left out.
THEOREM SpecNothingDropped == Spec => NothingDropped
<1>1. IInv /\ [Next]_vars => [Return /\ cur \in Ops => ~lost]_vars
  <2> SUFFICES ASSUME IInv, Return, cur \in Ops PROVE ~lost
    OBVIOUS
  <2>1. slot \in Slots /\ pc = "mpi"
    BY DEF Return, Over, IInv, InUse, TypeOK
  <2>2. resize[slot] = None
    BY <2>1, OperatorsOk DEF Return, Flags
  <2> QED BY <2>1, <2>2 DEF IInv, Armed
<1> QED BY <1>1, SpecInv, PTL DEF Spec, NothingDropped
=============================================================================
