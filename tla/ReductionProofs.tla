---------------------------- MODULE ReductionProofs ----------------------------
(* Proofs about Reduction for any number of processes, plans and lengths. *)
EXTENDS ReductionInv, Numbers, TLAPS

-----------------------------------------------------------------------------
(* Facts about numbers and sets of ranks.                                   *)

\* The largest of the values of all processes is one of them.
LEMMA MaxOfRanks ==
  ASSUME NEW f, \A q \in Ranks : f[q] \in Int
  PROVE  Max({f[q] : q \in Ranks}) \in {f[q] : q \in Ranks}
<1> DEFINE Top(k) == \E j \in 0 .. k : \A i \in 0 .. k : f[j] >= f[i]
           T == {k \in 0 .. N - 1 : ~Top(k)}
<1>1. T = {}
  <2> SUFFICES ASSUME T # {} PROVE FALSE
    OBVIOUS
  <2>a. T \in SUBSET Nat
    BY ReductionOk
  <2>1. PICK k \in T : \A j \in T : k <= j
    <3> HIDE DEF T
    <3> QED BY <2>a, LeastNat
  <2>2. k \in 0 .. N - 1 /\ ~Top(k) /\ N \in Nat
    BY ReductionOk
  <2>3. k # 0
    BY <2>2 DEF Ranks
  <2>4. k - 1 \in 0 .. N - 1 /\ k - 1 \notin T
    <3>1. k - 1 \in 0 .. N - 1 /\ ~(k <= k - 1)
      BY <2>2, <2>3
    <3> HIDE DEF T
    <3> QED BY <2>1, <3>1
  <2>5. PICK j \in 0 .. k - 1 : \A i \in 0 .. k - 1 : f[j] >= f[i]
    BY <2>4
  <2>6. \A i \in 0 .. k : f[i] \in Int
    BY <2>2 DEF Ranks
  <2>7. CASE f[j] >= f[k]
    <3>1. j \in 0 .. k /\ \A i \in 0 .. k : f[j] >= f[i]
      BY <2>2, <2>5, <2>7
    <3> QED BY <3>1, <2>2
  <2>8. CASE ~(f[j] >= f[k])
    <3>1. k \in 0 .. k /\ \A i \in 0 .. k : f[k] >= f[i]
      BY <2>2, <2>5, <2>6, <2>8
    <3> QED BY <3>1, <2>2
  <2> QED BY <2>7, <2>8
<1>2. N - 1 \in 0 .. N - 1
  BY ReductionOk
<1>3. PICK j \in Ranks : \A i \in Ranks : f[j] >= f[i]
  BY <1>1, <1>2 DEF Ranks
<1>4. \E x \in {f[q] : q \in Ranks} : \A y \in {f[q] : q \in Ranks} : x >= y
  BY <1>3
<1> HIDE DEF T, Top
<1> QED BY <1>4 DEF Max

LEMMA MinOfTwo ==
  ASSUME NEW a \in Nat, NEW b \in Nat
  PROVE  \A n : n \in 1 .. Min({a, b}) <=> n \in Nat \ {0} /\ n <= a /\ n <= b
<1>1. CASE a <= b
  <2>1. \E x \in {a, b} : \A y \in {a, b} : x <= y
    BY <1>1
  <2>2. Min({a, b}) \in {a, b} /\ \A y \in {a, b} : Min({a, b}) <= y
    BY <2>1 DEF Min
  <2> QED BY <1>1, <2>2
<1>2. CASE b <= a
  <2>1. \E x \in {a, b} : \A y \in {a, b} : x <= y
    BY <1>2
  <2>2. Min({a, b}) \in {a, b} /\ \A y \in {a, b} : Min({a, b}) <= y
    BY <2>1 DEF Min
  <2> QED BY <1>2, <2>2
<1> QED BY <1>1, <1>2

-----------------------------------------------------------------------------
(* Facts about entries and logs.                                            *)

LEMMA EntryFields ==
  ASSUME NEW e \in Entry
  PROVE  /\ e.step \in {"max", "min", "ok", "longest", "reduce"}
         /\ e.call \in Nat /\ e.val \in Int
         /\ e.own \in SUBSET Ranks /\ e.covers \in SUBSET Ranks /\ e.has \in SUBSET Ranks
BY DEF Entry

LEMMA LogTypes ==
  ASSUME TypeOK, NEW p \in Ranks
  PROVE  /\ log[p] \in Seq(Entry) /\ Turn(p) \in Nat
         /\ \A n \in 1 .. Turn(p) : log[p][n] \in Entry
<1>1. log[p] \in Seq(Entry)
  BY DEF TypeOK
<1> QED BY <1>1 DEF Turn

LEMMA Lens ==
  ASSUME NEW len \in Lengths
  PROVE  len \in Int /\ Count(len) \in Int
BY IntsOk DEF Count

LEMMA PlanOk ==
  ASSUME TypeOK, NEW c \in 1 .. MaxCalls
  PROVE  plan[c][1] \in Kinds /\ plan[c][2] \in Ranks
<1>1. plan \in [1 .. MaxCalls -> Kinds \X Ranks]
  BY ReductionOk DEF TypeOK
<1>2. plan[c] \in Kinds \X Ranks
  BY <1>1
<1> QED BY <1>2

\* What all processes have contributed stays as long as the entries do.
LEMMA ValuesKept ==
  ASSUME NEW n, \A q \in Ranks : log'[q][n].val = log[q][n].val
  PROVE  ValuesAt(n)' = ValuesAt(n)
BY DEF ValuesAt

\* p adds e to its log and goes into that collective.
Joined(p, e) ==
  /\ Turn(p)' = Turn(p) + 1 /\ log'[p][Turn(p) + 1] = e
  /\ \A q \in Ranks \ {p} : Turn(q)' = Turn(q)
  /\ \A q \in Ranks : \A n \in 1 .. Turn(q) : log'[q][n] = log[q][n]
  /\ pc'[p] = e.step /\ \A q \in Ranks \ {p} : pc'[q] = pc[q]

LEMMA JoinFrame ==
  ASSUME TypeOK, NEW p \in Ranks, NEW e \in Entry, Join(p, e)
  PROVE  Joined(p, e) /\ Here(p)' = e /\ log' \in [Ranks -> Seq(Entry)]
<1>1. log[p] \in Seq(Entry) /\ Turn(p) \in Nat
  BY LogTypes
<1>2. log'[p] = Append(log[p], e) /\ \A q \in Ranks \ {p} : log'[q] = log[q]
  BY DEF Join, TypeOK
<1>3. /\ Turn(p)' = Turn(p) + 1 /\ log'[p][Turn(p) + 1] = e
      /\ \A n \in 1 .. Turn(p) : log'[p][n] = log[p][n]
      /\ log'[p] \in Seq(Entry)
  <2> DEFINE s == log[p]
  <2>1. s \in Seq(Entry)
    BY <1>1
  <2>2. /\ Len(Append(s, e)) = Len(s) + 1 /\ Append(s, e)[Len(s) + 1] = e
        /\ \A n \in 1 .. Len(s) : Append(s, e)[n] = s[n]
        /\ Append(s, e) \in Seq(Entry)
    <3> HIDE DEF s
    <3> QED BY <2>1
  <2> QED BY <1>2, <2>2 DEF Turn
<1>4. \A q \in Ranks \ {p} : Turn(q)' = Turn(q)
  BY <1>2 DEF Turn
<1>5. \A q \in Ranks : \A n \in 1 .. Turn(q) : log'[q][n] = log[q][n]
  BY <1>2, <1>3
<1>6. pc'[p] = e.step /\ \A q \in Ranks \ {p} : pc'[q] = pc[q]
  BY DEF Join, TypeOK
<1>7. Here(p)' = e
  BY <1>3 DEF Here
<1>8. log' \in [Ranks -> Seq(Entry)]
  BY <1>3 DEF Join, TypeOK
<1> QED BY <1>3, <1>4, <1>5, <1>6, <1>7, <1>8 DEF Joined

-----------------------------------------------------------------------------
(* A process goes into another collective.                                  *)

\* The code lets p add e to its log.
CanJoin(p, e) ==
  /\ EntryOk(p, e)
  /\ IF Turn(p) = 0 THEN e.call = 1 /\ e.step = FirstStep(1)
     ELSE /\ Follows(Here(p), e) /\ Found(Here(p), e, Turn(p) + 1)
          /\ Here(p).step \in Agreements =>
               \A q \in Ranks : Turn(p) <= Turn(q) /\ log[q][Turn(p)].step = Here(p).step
          /\ Here(p).step = "reduce" => WantedIn(p, Here(p).call) \subseteq Here(p).covers
  /\ e.step = "reduce" => e.covers = {p} /\ e.has \in {{}, {p}}

\* Old entries and the new one.
LEMMA JoinTurns ==
  ASSUME TypeOK, NEW p \in Ranks, NEW e \in Entry, Joined(p, e), NEW q \in Ranks
  PROVE  /\ Turn(q) \in Nat /\ Turn(q)' \in Nat /\ Turn(q) <= Turn(q)'
         /\ \A n \in 1 .. Turn(q)' :
              \/ n \in 1 .. Turn(q) /\ log'[q][n] = log[q][n] /\ log[q][n] \in Entry
              \/ q = p /\ n = Turn(p) + 1 /\ log'[q][n] = e
         /\ \A n \in Int : Passed(q, n)' /\ n <= Turn(q)' => n <= Turn(q)
<1>1. Turn(q) \in Nat /\ \A n \in 1 .. Turn(q) : log[q][n] \in Entry
  BY LogTypes
<1>2. Turn(q)' = IF q = p THEN Turn(q) + 1 ELSE Turn(q)
  BY DEF Joined
<1>3. \A n \in 1 .. Turn(q)' :
        \/ n \in 1 .. Turn(q) /\ log'[q][n] = log[q][n] /\ log[q][n] \in Entry
        \/ q = p /\ n = Turn(p) + 1 /\ log'[q][n] = e
  BY <1>1, <1>2 DEF Joined
<1>4. ASSUME NEW n \in Int, Passed(q, n)', n <= Turn(q)' PROVE n <= Turn(q)
  <2>1. CASE q = p
    <3>1. pc'[p] \notin {"out", "refused"}
      BY EntryFields DEF Joined
    <3> QED BY <1>1, <1>2, <1>4, <2>1, <3>1 DEF Passed
  <2> QED BY <1>1, <1>2, <1>4, <2>1
<1> QED BY <1>1, <1>2, <1>3, <1>4

LEMMA JoinHeld ==
  ASSUME TypeOK, NEW p \in Ranks, NEW e \in Entry, Joined(p, e), CanJoin(p, e),
         plan' = plan, \A q \in Ranks : Held(q), NEW q \in Ranks
  PROVE  Held(q)'
<1> SUFFICES ASSUME NEW n \in 1 .. Turn(q)' PROVE EntryOk(q, log[q][n])'
  BY DEF Held
<1>1. CASE n \in 1 .. Turn(q) /\ log'[q][n] = log[q][n]
  BY <1>1 DEF Held, EntryOk
<1>2. CASE q = p /\ log'[q][n] = e
  BY <1>2 DEF CanJoin, EntryOk
<1> QED BY <1>1, <1>2, JoinTurns

LEMMA JoinOrder ==
  ASSUME TypeOK, NEW p \in Ranks, NEW e \in Entry, Joined(p, e), CanJoin(p, e),
         plan' = plan, \A q \in Ranks : InOrder(q), NEW q \in Ranks
  PROVE  InOrder(q)'
<1>1. Turn(q)' > 0 => log'[q][1].call = 1 /\ log'[q][1].step = FirstStep(1)
  <2>1. CASE Turn(q) > 0
    <3>1. 1 \in 1 .. Turn(q)
      BY <2>1, LogTypes
    <3> QED BY <2>1, <3>1 DEF Joined, InOrder
  <2>2. CASE Turn(q) = 0 /\ q = p
    BY <2>2 DEF Joined, CanJoin
  <2> QED BY <2>1, <2>2, LogTypes DEF Joined
<1>2. ASSUME NEW n \in 2 .. Turn(q)' PROVE Follows(log'[q][n - 1], log'[q][n])
  <2>0. n \in 1 .. Turn(q)' /\ n - 1 \in 1 .. Turn(q)' /\ Turn(q) \in Nat /\ n \in Nat
    BY JoinTurns
  <2>1. CASE n \in 1 .. Turn(q) /\ log'[q][n] = log[q][n]
    <3>1. n - 1 \in 1 .. Turn(q) /\ n \in 2 .. Turn(q)
      BY <2>0, <2>1
    <3>2. log'[q][n - 1] = log[q][n - 1]
      BY <3>1 DEF Joined
    <3> QED BY <2>1, <3>1, <3>2 DEF InOrder
  <2>2. CASE q = p /\ n = Turn(p) + 1 /\ log'[q][n] = e
    <3>1. n - 1 = Turn(p) /\ Turn(p) # 0 /\ log'[p][n - 1] = Here(p)
      BY <2>0, <2>2 DEF Joined, Here
    <3> QED BY <2>2, <3>1 DEF CanJoin
  <2> QED BY <2>0, <2>1, <2>2, JoinTurns
<1> QED BY <1>1, <1>2 DEF InOrder, Follows, FirstStep

LEMMA JoinLater ==
  ASSUME TypeOK, NEW p \in Ranks, NEW e \in Entry, Joined(p, e), CanJoin(p, e),
         \A q \in Ranks : Later(q), NEW q \in Ranks
  PROVE  Later(q)'
<1> SUFFICES ASSUME NEW n \in 1 .. Turn(q)', NEW m \in 1 .. n - 1
             PROVE  Ahead(log'[q][m], log'[q][n])
  BY DEF Later, Ahead
<1>0. m \in 1 .. Turn(q) /\ log'[q][m] = log[q][m] /\ log[q][m] \in Entry /\ Turn(q) \in Nat
  <2>1. m \in 1 .. Turn(q)
    BY JoinTurns
  <2> QED BY <2>1, LogTypes DEF Joined
<1>1. CASE n \in 1 .. Turn(q) /\ log'[q][n] = log[q][n]
  BY <1>0, <1>1 DEF Later
<1>2. CASE q = p /\ n = Turn(p) + 1 /\ log'[q][n] = e
  <2> DEFINE h == Here(p)
             d == log[p][m]
  <2>1. Turn(p) # 0 /\ Follows(h, e) /\ h \in Entry /\ Turn(p) \in 1 .. Turn(p)
    <3>1. Turn(p) # 0 /\ Turn(p) \in 1 .. Turn(p)
      BY <1>0, <1>2
    <3> QED BY <3>1, LogTypes DEF CanJoin, Here
  <2>2. d = h \/ Ahead(d, h)
    <3>1. m = Turn(p) \/ m \in 1 .. Turn(p) - 1
      BY <1>0, <1>2
    <3> QED BY <2>1, <3>1 DEF Later, Here
  <2>3. d \in Entry /\ d.call \in Nat /\ h.call \in Nat /\ e.call \in Nat
    BY <1>0, <1>2, <2>1, EntryFields
  <2>4. Ahead(d, e)
    <3> HIDE DEF d, h
    <3> QED BY <2>1, <2>2, <2>3 DEF Ahead, Follows
  <2> QED BY <1>0, <1>2, <2>4
<1> QED BY <1>1, <1>2, JoinTurns

\* What the agreements that are over say of every log.
Settled ==
  \A q \in Ranks : \A n \in 1 .. Turn(q) : log[q][n].step \in Agreements /\ Passed(q, n)' =>
    \A r \in Ranks : n <= Turn(r) /\ log[r][n].step = log[q][n].step

LEMMA JoinSettled ==
  ASSUME TypeOK, NEW p \in Ranks, NEW e \in Entry, Joined(p, e), CanJoin(p, e),
         \A q \in Ranks : Agreed(q)
  PROVE  Settled
<1> SUFFICES ASSUME NEW q \in Ranks, NEW n \in 1 .. Turn(q),
                    log[q][n].step \in Agreements, Passed(q, n)'
             PROVE  \A r \in Ranks : n <= Turn(r) /\ log[r][n].step = log[q][n].step
  BY DEF Settled
<1>0. Turn(q) \in Nat
  BY LogTypes
<1>1. CASE Passed(q, n)
  BY <1>1 DEF Agreed
<1>2. CASE q = p /\ n = Turn(p)
  BY <1>0, <1>2 DEF CanJoin, Here
<1>3. Passed(q, n) \/ (q = p /\ n = Turn(p))
  BY <1>0 DEF Passed, Joined
<1> QED BY <1>1, <1>2, <1>3

LEMMA JoinAgreed ==
  ASSUME TypeOK, NEW p \in Ranks, NEW e \in Entry, Joined(p, e), Settled, NEW q \in Ranks
  PROVE  Agreed(q)'
<1> SUFFICES ASSUME NEW n \in 1 .. Turn(q)', log'[q][n].step \in Agreements, Passed(q, n)',
                    NEW r \in Ranks
             PROVE  n <= Turn(r)' /\ log'[r][n].step = log'[q][n].step
  BY DEF Agreed
<1>1. n \in 1 .. Turn(q) /\ log'[q][n] = log[q][n]
  BY JoinTurns DEF Joined
<1>2. n <= Turn(r) /\ log[r][n].step = log[q][n].step
  BY <1>1 DEF Settled
<1>3. n \in 1 .. Turn(r) /\ Turn(r) <= Turn(r)' /\ Turn(r)' \in Nat /\ Turn(r) \in Nat
  BY <1>2, JoinTurns
<1>4. log'[r][n] = log[r][n]
  BY <1>3 DEF Joined
<1> QED BY <1>1, <1>2, <1>3, <1>4

\* The values an agreement found are there to stay.
LEMMA SettledValues ==
  ASSUME TypeOK, NEW p \in Ranks, NEW e \in Entry, Joined(p, e), Settled,
         NEW q \in Ranks, NEW n \in 1 .. Turn(q), log[q][n].step \in Agreements, Passed(q, n)'
  PROVE  ValuesAt(n)' = ValuesAt(n)
<1>1. \A r \in Ranks : n <= Turn(r)
  BY DEF Settled
<1>2. \A r \in Ranks : n \in 1 .. Turn(r)
  BY <1>1, LogTypes
<1>3. \A r \in Ranks : log'[r][n] = log[r][n]
  BY <1>2 DEF Joined
<1> QED BY <1>3, ValuesKept

LEMMA JoinFounded ==
  ASSUME TypeOK, NEW p \in Ranks, NEW e \in Entry, Joined(p, e), CanJoin(p, e), Settled,
         \A q \in Ranks : InOrder(q) /\ Founded(q), NEW q \in Ranks
  PROVE  Founded(q)'
<1> SUFFICES ASSUME NEW n \in 2 .. Turn(q)' PROVE Found(log[q][n - 1], log[q][n], n)'
  BY DEF Founded
<1> DEFINE d == log[q][n - 1]
           f == log'[q][n]
<1>0. /\ n \in Int /\ n - 1 \in 1 .. Turn(q) /\ n - 1 < Turn(q)' /\ log'[q][n - 1] = d
      /\ Passed(q, n - 1)' /\ Turn(q) \in Nat /\ Turn(q)' \in Nat
  <2>1. n \in Int /\ n - 1 \in 1 .. Turn(q)' /\ n - 1 < Turn(q)' /\ Turn(q) \in Nat
        /\ Turn(q)' \in Nat
    BY JoinTurns
  <2>2. Passed(q, n - 1)'
    BY <2>1 DEF Passed
  <2>3. n - 1 \in 1 .. Turn(q)
    BY <2>1, <2>2, JoinTurns
  <2> QED BY <2>1, <2>2, <2>3 DEF Joined
<1>1. Found(d, f, n)
  <2>1. CASE n \in 1 .. Turn(q) /\ f = log[q][n]
    <3>1. n \in 2 .. Turn(q)
      BY <2>1, <1>0
    <3> QED BY <2>1, <3>1 DEF Founded
  <2>2. CASE q = p /\ n = Turn(p) + 1 /\ f = e
    <3>1. n - 1 = Turn(p) /\ Turn(p) # 0
      BY <1>0, <2>2
    <3> QED BY <2>2, <3>1 DEF CanJoin, Here
  <2>3. n \in 1 .. Turn(q)'
    BY <1>0
  <2> QED BY <2>1, <2>2, <2>3, JoinTurns
<1>2. d.step \in Agreements => ValuesAt(n - 1)' = ValuesAt(n - 1)
  BY <1>0, SettledValues
<1>3. d.step = "min" => ValuesAt(n - 2)' = ValuesAt(n - 2)
  <2> SUFFICES ASSUME d.step = "min" PROVE ValuesAt(n - 2)' = ValuesAt(n - 2)
    OBVIOUS
  <2>1. n - 1 # 1
    BY <1>0 DEF InOrder, FirstStep
  <2>2. n - 1 \in 2 .. Turn(q) /\ n - 2 \in 1 .. Turn(q) /\ n - 2 < Turn(q)' /\ (n - 1) - 1 = n - 2
    BY <1>0, <2>1
  <2>3. Follows(log[q][n - 2], d)
    BY <2>2 DEF InOrder
  <2>4. log[q][n - 2].step \in Agreements
    BY <2>3 DEF Follows, Agreements, FirstStep
  <2>5. Passed(q, n - 2)'
    BY <2>2 DEF Passed
  <2> QED BY <2>2, <2>4, <2>5, SettledValues
<1>4. {"longest", "min", "ok"} \subseteq Agreements
  BY DEF Agreements
<1> QED BY <1>0, <1>1, <1>2, <1>3, <1>4 DEF Found

\* What the reductions that are over say of every log.
Complete ==
  \A q \in Ranks : \A n \in 1 .. Turn(q) : log[q][n].step = "reduce" =>
    /\ \A r \in log[q][n].covers : n <= Turn(r) /\ Alike(log[r][n], log[q][n])
    /\ Passed(q, n)' => WantedIn(q, log[q][n].call) \subseteq log[q][n].covers

LEMMA JoinComplete ==
  ASSUME TypeOK, NEW p \in Ranks, NEW e \in Entry, Joined(p, e), CanJoin(p, e),
         \A q \in Ranks : Gathered(q)
  PROVE  Complete
<1> SUFFICES ASSUME NEW q \in Ranks, NEW n \in 1 .. Turn(q), log[q][n].step = "reduce",
                    Passed(q, n)'
             PROVE  WantedIn(q, log[q][n].call) \subseteq log[q][n].covers
  BY DEF Complete, Gathered
<1>1. CASE Passed(q, n)
  BY <1>1 DEF Gathered
<1>2. CASE q = p /\ n = Turn(p)
  BY <1>2, LogTypes DEF CanJoin, Here
<1>3. Passed(q, n) \/ (q = p /\ n = Turn(p))
  BY LogTypes DEF Passed, Joined
<1> QED BY <1>1, <1>2, <1>3

LEMMA JoinGathered ==
  ASSUME TypeOK, NEW p \in Ranks, NEW e \in Entry, Joined(p, e), CanJoin(p, e), Complete,
         plan' = plan, NEW q \in Ranks
  PROVE  Gathered(q)'
<1> SUFFICES ASSUME NEW n \in 1 .. Turn(q)', log'[q][n].step = "reduce"
             PROVE  /\ \A r \in log'[q][n].covers :
                         n <= Turn(r)' /\ Alike(log'[r][n], log'[q][n])
                    /\ Passed(q, n)' =>
                         WantedIn(q, log'[q][n].call) \subseteq log'[q][n].covers
  BY DEF Gathered, Alike, WantedIn
<1>1. CASE n \in 1 .. Turn(q) /\ log'[q][n] = log[q][n] /\ log[q][n] \in Entry
  <2>1. ASSUME NEW r \in log[q][n].covers
        PROVE  n <= Turn(r)' /\ Alike(log'[r][n], log[q][n])
    <3>1. r \in Ranks /\ n <= Turn(r) /\ Alike(log[r][n], log[q][n])
      BY <1>1, EntryFields DEF Complete
    <3>2. n \in 1 .. Turn(r) /\ n <= Turn(r)'
      BY <3>1, JoinTurns
    <3>3. log'[r][n] = log[r][n]
      BY <3>1, <3>2 DEF Joined
    <3> QED BY <3>1, <3>2, <3>3
  <2> QED BY <1>1, <2>1 DEF Complete
<1>2. CASE q = p /\ n = Turn(p) + 1 /\ log'[q][n] = e
  <2>1. e.covers = {p} /\ n <= Turn(p)'
    BY <1>2, LogTypes DEF CanJoin, Joined
  <2>2. Alike(e, e)
    BY DEF Alike
  <2>3. ~Passed(q, n)'
    BY <1>2, JoinTurns
  <2> QED BY <1>2, <2>1, <2>2, <2>3
<1> QED BY <1>1, <1>2, JoinTurns

\* Some process wants the contributions of all.
LEMMA WantsAll ==
  ASSUME TypeOK, NEW c \in 1 .. MaxCalls
  PROVE  \E u \in Ranks : WantedIn(u, c) = Ranks
<1>1. plan[c][1] \in Kinds /\ plan[c][2] \in Ranks
  BY PlanOk
<1>2. CASE plan[c][1] = "scan"
  <2>1. N - 1 \in Ranks /\ 0 .. N - 1 = Ranks
    BY ReductionOk DEF Ranks
  <2> QED BY <1>2, <2>1 DEF WantedIn
<1>3. CASE plan[c][1] = "allreduce"
  BY <1>1, <1>3 DEF WantedIn
<1>4. CASE plan[c][1] \notin {"scan", "allreduce"}
  BY <1>1, <1>4 DEF WantedIn
<1> QED BY <1>2, <1>3, <1>4

\* A collective every process has left is the same one for all if the one
\* before it was.
LEMMA SameNext ==
  ASSUME TypeOK, \A q \in Ranks : InOrder(q) /\ Founded(q) /\ Held(q), Settled, Complete,
         NEW n, \A q \in Ranks : n \in 2 .. Turn(q) /\ Passed(q, n)', SameAt(n - 1)
  PROVE  SameAt(n)
<1> DEFINE d(q) == log[q][n - 1]
           f(q) == log[q][n]
<1> SUFFICES ASSUME NEW r \in Ranks, NEW s \in Ranks
             PROVE  f(r).call = f(s).call /\ Alike(f(r), f(s))
  BY DEF SameAt
<1>0. \A q \in Ranks : n \in 1 .. Turn(q) /\ n - 1 \in 1 .. Turn(q)
  BY LogTypes
<1>1. /\ \A q \in Ranks : Follows(d(q), f(q))
      /\ \A q \in Ranks : Found(d(q), f(q), n)
      /\ \A q \in Ranks : d(q).call = d(r).call /\ d(q).step = d(r).step
      /\ \A q \in Ranks : f(q) \in Entry /\ d(q) \in Entry /\ d(q).call \in 1 .. MaxCalls
  <2>1. \A q \in Ranks : d(q).call = d(r).call /\ d(q).step = d(r).step
    BY DEF SameAt, Alike
  <2>2. \A q \in Ranks : d(q).call \in 1 .. MaxCalls
    BY <1>0 DEF Held, EntryOk
  <2> QED BY <1>0, <2>1, <2>2, LogTypes DEF InOrder, Founded
<1>2. CASE d(r).step \in {"max", "min", "ok"}
  <2> HIDE DEF d, f
  <2> QED BY <1>1, <1>2 DEF Follows, Alike
<1>3. CASE d(r).step = "longest"
  <2> HIDE DEF d, f
  <2> QED BY <1>1, <1>3 DEF Follows, Alike, Found
<1>4. CASE d(r).step = "reduce"
  <2>1. CASE \E u \in Ranks : f(u).step \in Agreements
    <3>1. PICK u \in Ranks : f(u).step \in Agreements
      BY <2>1
    <3>2. f(r).step = f(u).step /\ f(s).step = f(u).step
      BY <1>0, <3>1 DEF Settled
    <3>3. f(u).step # "reduce"
      BY <3>1 DEF Agreements
    <3> HIDE DEF d, f
    <3> QED BY <1>1, <1>4, <3>2, <3>3 DEF Follows, Alike
  <2>2. CASE \A u \in Ranks : f(u).step \notin Agreements
    <3>1. \A u \in Ranks : f(u).step = "reduce"
      BY <1>1, <2>2, EntryFields DEF Agreements
    <3>2. \A u \in Ranks : f(u).call = d(r).call
      <4>1. \A c : FirstStep(c) # "reduce"
        BY DEF FirstStep
      <4> HIDE DEF d, f
      <4> QED BY <1>1, <1>4, <3>1, <4>1 DEF Follows
    <3>3. PICK u \in Ranks : WantedIn(u, d(r).call) = Ranks
      BY <1>1, WantsAll
    <3>4. Ranks \subseteq f(u).covers
      BY <1>0, <3>1, <3>2, <3>3 DEF Complete
    <3>5. Alike(f(r), f(u)) /\ Alike(f(s), f(u))
      BY <1>0, <3>1, <3>4 DEF Complete
    <3> HIDE DEF d, f
    <3> QED BY <3>1, <3>2, <3>5 DEF Alike
  <2> QED BY <2>1, <2>2
<1> QED BY <1>1, <1>2, <1>3, <1>4, EntryFields

LEMMA SameFirst ==
  ASSUME \A q \in Ranks : Turn(q) \in Nat /\ Turn(q) > 0 /\ InOrder(q)
  PROVE  SameAt(1)
<1>1. \A q \in Ranks : log[q][1].call = 1 /\ log[q][1].step = FirstStep(1)
  BY DEF InOrder
<1>2. FirstStep(1) # "reduce"
  BY DEF FirstStep
<1> QED BY <1>1, <1>2 DEF SameAt, Alike

LEMMA JoinBehind ==
  ASSUME TypeOK, NEW p \in Ranks, NEW e \in Entry, Joined(p, e), Settled, Complete,
         \A q \in Ranks : InOrder(q) /\ Founded(q) /\ Held(q), Behind
  PROVE  Behind'
<1> SUFFICES ASSUME NEW t \in Ranks, NEW n \in 1 .. Turn(t)',
                    \A r \in Ranks : n < Turn(r)'
             PROVE  SameAt(n)'
  BY DEF Behind
<1>1. \A q \in Ranks : n \in 1 .. Turn(q) /\ Passed(q, n)' /\ Turn(q) \in Nat
  <2> SUFFICES ASSUME NEW q \in Ranks PROVE n \in 1 .. Turn(q) /\ Passed(q, n)' /\ Turn(q) \in Nat
    OBVIOUS
  <2>1. Passed(q, n)'
    BY DEF Passed
  <2> QED BY <2>1, JoinTurns
<1>2. SameAt(n)
  <2>1. CASE n = 1
    BY <1>1, <2>1, SameFirst
  <2>2. CASE n # 1
    <3>1. \A q \in Ranks : n \in 2 .. Turn(q) /\ n - 1 \in 1 .. Turn(q) /\ n - 1 < Turn(q)
      BY <1>1, <2>2
    <3>2. SameAt(n - 1)
      BY <3>1 DEF Behind
    <3> QED BY <1>1, <3>1, <3>2, SameNext
  <2> QED BY <2>1, <2>2
<1>3. \A q \in Ranks : log'[q][n] = log[q][n]
  BY <1>1 DEF Joined
<1> QED BY <1>2, <1>3 DEF SameAt, Alike

\* The collectives a process joins without having been asked to repeat one.
LEMMA CalmBefore ==
  ASSUME TypeOK, NEW p \in Ranks, NEW e \in Entry, Joined(p, e),
         resize' = resize \/ (Turn(p) > 0 /\ Here(p).step = "reduce" /\ e.step = "reduce"),
         Calm'
  PROVE  /\ Calm
         /\ \A q \in Ranks : \A n \in 2 .. Turn(q)' :
              log'[q][n].step = "reduce" => log'[q][n - 1].step = "longest"
<1>1. \A q \in Ranks : \A n \in 2 .. Turn(q)' :
        log'[q][n].step = "reduce" => log'[q][n - 1].step = "longest"
  BY DEF Calm
<1>2. ASSUME NEW q \in Ranks, NEW n \in 2 .. Turn(q), log[q][n].step = "reduce"
      PROVE  log[q][n - 1].step = "longest"
  <2>1. n \in 1 .. Turn(q) /\ n - 1 \in 1 .. Turn(q) /\ n \in 2 .. Turn(q)'
    BY JoinTurns
  <2>2. log'[q][n] = log[q][n] /\ log'[q][n - 1] = log[q][n - 1]
    BY <2>1 DEF Joined
  <2> QED BY <1>1, <1>2, <2>1, <2>2
<1>3. ~(Turn(p) > 0 /\ Here(p).step = "reduce" /\ e.step = "reduce")
  <2> SUFFICES ASSUME Turn(p) > 0, Here(p).step = "reduce", e.step = "reduce" PROVE FALSE
    OBVIOUS
  <2> DEFINE n == Turn(p) + 1
  <2>1. n \in 2 .. Turn(p)' /\ n - 1 = Turn(p) /\ Turn(p) \in 1 .. Turn(p)
    BY LogTypes DEF Joined
  <2>2. log'[p][n] = e /\ log'[p][n - 1] = Here(p)
    BY <2>1 DEF Joined, Here
  <2> HIDE DEF n
  <2> QED BY <1>1, <2>1, <2>2
<1>4. \A q \in Ranks : resize[q] = 0
  BY <1>3 DEF Calm
<1> QED BY <1>1, <1>2, <1>4 DEF Calm

LEMMA JoinUncut ==
  ASSUME TypeOK, NEW p \in Ranks, NEW e \in Entry, Joined(p, e), CanJoin(p, e),
         \A q \in Ranks : Uncut(q), NEW q \in Ranks
  PROVE  Uncut(q)'
<1> SUFFICES ASSUME NEW n \in 1 .. Turn(q)', log'[q][n].step = "reduce"
             PROVE  log'[q][n].has \in {{}, log'[q][n].covers}
  BY DEF Uncut
<1>1. CASE n \in 1 .. Turn(q) /\ log'[q][n] = log[q][n]
  BY <1>1 DEF Uncut
<1>2. CASE q = p /\ log'[q][n] = e
  BY <1>2 DEF CanJoin
<1> QED BY <1>1, <1>2, JoinTurns

\* As long as nobody repeats, what a process joins is what the others joined.
LEMMA JoinInStep ==
  ASSUME TypeOK, NEW p \in Ranks, NEW e \in Entry, Joined(p, e), CanJoin(p, e),
         resize' = resize \/ (Turn(p) > 0 /\ Here(p).step = "reduce" /\ e.step = "reduce"),
         \A q \in Ranks : InOrder(q) /\ Founded(q), InStep
  PROVE  InStep'
<1> SUFFICES ASSUME Calm', NEW r \in Ranks, NEW s \in Ranks,
                    NEW n \in Nat \ {0}, n <= Turn(r)', n <= Turn(s)'
             PROVE  log'[r][n].call = log'[s][n].call /\ Alike(log'[r][n], log'[s][n])
  <2>1. \A a, b \in Nat : \A n \in 1 .. Min({a, b}) : n \in Nat \ {0} /\ n <= a /\ n <= b
    BY MinOfTwo
  <2> QED BY <2>1, JoinTurns DEF InStep, Alike
<1>1. Calm /\ \A q \in Ranks : \A m \in 2 .. Turn(q)' :
        log'[q][m].step = "reduce" => log'[q][m - 1].step = "longest"
  BY CalmBefore
<1>2. \A q, t \in Ranks : \A m \in Nat \ {0} : m <= Turn(q) /\ m <= Turn(t) =>
        log[q][m].call = log[t][m].call /\ Alike(log[q][m], log[t][m])
  BY <1>1, MinOfTwo, LogTypes DEF InStep
\* The new collective and that of another process.
<1>3. ASSUME NEW q \in Ranks \ {p}, Turn(p) + 1 <= Turn(q)
      PROVE  e.call = log[q][Turn(p) + 1].call /\ Alike(e, log[q][Turn(p) + 1])
  <2> DEFINE m == Turn(p) + 1
             f == log[q][m]
  <2>0. Turn(p) \in Nat /\ Turn(q) \in Nat /\ m \in 1 .. Turn(q) /\ m \in 1 .. Turn(q)'
    BY <1>3, LogTypes DEF Joined
  <2>1. CASE Turn(p) = 0
    <3>1. f.call = 1 /\ f.step = FirstStep(1)
      BY <1>3, <2>0, <2>1 DEF InOrder
    <3>2. e.call = 1 /\ e.step = FirstStep(1)
      BY <2>1 DEF CanJoin
    <3>3. FirstStep(1) # "reduce"
      BY DEF FirstStep
    <3> QED BY <3>1, <3>2, <3>3 DEF Alike
  <2>2. CASE Turn(p) # 0
    <3> DEFINE d == log[q][m - 1]
               h == Here(p)
    <3>1. m \in 2 .. Turn(q) /\ m - 1 \in 1 .. Turn(q) /\ m - 1 = Turn(p) /\ m \in 2 .. Turn(q)'
          /\ m \in 2 .. Turn(p)' /\ m - 1 \in 1 .. Turn(p)
      BY <1>3, <2>0, <2>2 DEF Joined
    <3>2. Follows(d, f) /\ Found(d, f, m)
      BY <3>1 DEF InOrder, Founded
    <3>3. Follows(h, e) /\ Found(h, e, m)
      BY <2>2 DEF CanJoin
    <3>4. d.call = h.call /\ d.step = h.step
      <4>1. m - 1 \in Nat \ {0} /\ m - 1 <= Turn(q) /\ m - 1 <= Turn(p) /\ h = log[p][m - 1]
        BY <2>0, <3>1 DEF Here
      <4> DEFINE k == m - 1
      <4>2. k \in Nat \ {0} /\ k <= Turn(q) /\ k <= Turn(p)
        BY <4>1
      <4> HIDE DEF k
      <4>3. log[q][k].call = log[p][k].call /\ Alike(log[q][k], log[p][k])
        BY <1>2, <4>2
      <4> QED BY <4>1, <4>3 DEF Alike, k
    <3>5. (f.step = "reduce" => d.step = "longest") /\ (e.step = "reduce" => h.step = "longest")
      <4>1. log'[q][m] = f /\ log'[q][m - 1] = d
        BY <2>0, <3>1 DEF Joined
      <4>2. log'[p][m] = e /\ log'[p][m - 1] = h
        BY <3>1 DEF Joined, Here
      <4> HIDE DEF m, f, d, h
      <4> QED BY <1>1, <3>1, <4>1, <4>2
    <3>6. \A c : FirstStep(c) # "reduce"
      BY DEF FirstStep
    <3> HIDE DEF m, f, d, h
    <3>7. e.call = f.call /\ Alike(e, f)
      BY <3>2, <3>3, <3>4, <3>5, <3>6 DEF Follows, Found, Alike
    <3> QED BY <3>7 DEF f, m
  <2> QED BY <2>1, <2>2
<1>4. ASSUME NEW q \in Ranks, n <= Turn(q)'
      PROVE  \/ n <= Turn(q) /\ log'[q][n] = log[q][n]
             \/ q = p /\ n = Turn(p) + 1 /\ log'[q][n] = e
  <2>1. n \in 1 .. Turn(q)'
    BY <1>4, JoinTurns
  <2> QED BY <2>1, JoinTurns
<1>5. n = Turn(p) + 1 => ~(n <= Turn(p))
  BY LogTypes
<1> QED BY <1>2, <1>3, <1>4, <1>5 DEF Alike

LEMMA JoinCurrent ==
  ASSUME TypeOK, NEW p \in Ranks, NEW e \in Entry, Joined(p, e),
         calls'[p] = e.call, \A q \in Ranks \ {p} : calls'[q] = calls[q],
         \A q \in Ranks : Current(q), NEW q \in Ranks
  PROVE  Current(q)'
<1>0. Turn(q) \in Nat
  BY LogTypes
<1>1. CASE q = p
  <2>1. Here(p)' = e /\ Turn(p)' # 0 /\ pc'[p] = e.step /\ pc'[p] \notin {"out", "refused"}
    BY <1>0, <1>1, EntryFields DEF Joined, Here
  <2> QED BY <1>1, <2>1 DEF Current
<1>2. CASE q # p /\ Turn(q) = 0
  BY <1>2 DEF Joined, Current
<1>3. CASE q # p /\ Turn(q) # 0
  <2>1. Turn(q) \in 1 .. Turn(q) /\ Turn(q)' = Turn(q)
    BY <1>0, <1>3 DEF Joined
  <2>2. Here(q)' = Here(q)
    BY <2>1 DEF Joined, Here
  <2> QED BY <1>3, <2>1, <2>2 DEF Current, Joined
<1> QED BY <1>1, <1>2, <1>3

\* The collective before a comparison of lengths is the one for the longest.
LEMMA BeforeMin ==
  ASSUME TypeOK, NEW q \in Ranks, InOrder(q), NEW n \in 2 .. Turn(q), log[q][n].step = "min"
  PROVE  n - 1 \in 1 .. Turn(q) /\ log[q][n - 1].step = "max"
         /\ log[q][n - 1].call = log[q][n].call
<1>1. n - 1 \in 1 .. Turn(q)
  BY LogTypes
<1>2. Follows(log[q][n - 1], log[q][n])
  BY DEF InOrder
<1> QED BY <1>1, <1>2 DEF Follows, FirstStep

LEMMA JoinCompares ==
  ASSUME TypeOK, NEW p \in Ranks, NEW e \in Entry, Joined(p, e), CanJoin(p, e), Settled,
         e.step = "min" => arymax'[p] = Max(ValuesAt(Turn(p))),
         \A q \in Ranks \ {p} : arymax'[q] = arymax[q],
         NEW q \in Ranks, InOrder(q), Current(q), Compares(q)
  PROVE  Compares(q)'
<1> SUFFICES ASSUME NEW t \in Nat, t = Turn(q) PROVE Compares(q)'
  BY LogTypes
<1>1. CASE q = p
  <2>1. Here(p)' = e /\ pc'[p] = e.step /\ pc'[p] # "refused" /\ Turn(p)' = t + 1
    BY <1>1, EntryFields DEF Joined, Here
  <2>2. ASSUME e.step = "min"
        PROVE  t > 0 /\ ValuesAt(t)' = ValuesAt(t)
    <3>1. t \in 1 .. Turn(p)
      BY <1>1, <2>2 DEF CanJoin, FirstStep
    <3>2. Here(p).step = "max"
      BY <1>1, <2>2, <3>1 DEF CanJoin, Follows, FirstStep
    <3>3. log[p][t].step \in Agreements
      BY <1>1, <3>2 DEF Here, Agreements
    <3>4. Passed(p, t)'
      BY <2>1, <3>1 DEF Passed
    <3> QED BY <3>1, <3>3, <3>4, SettledValues
  <2>3. (Turn(p) - 1)' = t
    BY <2>1
  <2> QED BY <1>1, <2>1, <2>2, <2>3 DEF Compares
<1>2. CASE q # p
  <2>0. Turn(q)' = t /\ pc'[q] = pc[q] /\ arymax'[q] = arymax[q]
    BY <1>2 DEF Joined
  <2>1. t > 0 => Here(q)' = Here(q)
    BY <2>0 DEF Joined, Here
  <2>2. ASSUME t > 1, Here(q).step = "min" PROVE ValuesAt(t - 1)' = ValuesAt(t - 1)
    <3>1. t \in 2 .. Turn(q) /\ log[q][t].step = "min" /\ t - 1 < Turn(q)'
      BY <2>0, <2>2 DEF Here
    <3>2. t - 1 \in 1 .. Turn(q) /\ log[q][t - 1].step \in Agreements
      BY <3>1, BeforeMin DEF Agreements
    <3>3. Passed(q, t - 1)'
      BY <3>1 DEF Passed
    <3> QED BY <3>2, <3>3, SettledValues
  <2>3. ASSUME pc[q] = "refused" PROVE t > 0 /\ ValuesAt(t)' = ValuesAt(t)
    <3>1. t # 0 /\ Here(q).step \in {"min", "ok"}
      BY <2>3 DEF Current
    <3>2. t \in 1 .. Turn(q) /\ log[q][t].step \in Agreements
      BY <3>1 DEF Agreements, Here
    <3>3. Passed(q, t)'
      BY <2>0, <2>3 DEF Passed
    <3> QED BY <3>1, <3>2, <3>3, SettledValues
  <2>4. (Turn(q) > 0 /\ pc[q] \in {"min", "refused"} /\ Here(q).step = "min")' =>
          Turn(q)' > 1 /\ arymax'[q] = Max(ValuesAt(t - 1)')
    BY <2>0, <2>1, <2>2 DEF Compares
  <2>5. (pc[q] = "refused")' =>
          IF (Here(q).step = "min")' THEN Min(ValuesAt(t)') # arymax'[q] ELSE Min(ValuesAt(t)') = 0
    BY <2>0, <2>1, <2>3 DEF Compares
  <2> QED BY <2>0, <2>4, <2>5 DEF Compares
<1> QED BY <1>1, <1>2

\* The parts of the invariant together.
LEMMA JoinKeeps ==
  ASSUME IInv, NEW p \in Ranks, NEW e \in Entry, Join(p, e), CanJoin(p, e), plan' = plan,
         calls'[p] = e.call, \A q \in Ranks \ {p} : calls'[q] = calls[q],
         e.step = "min" => arymax'[p] = Max(ValuesAt(Turn(p))),
         \A q \in Ranks \ {p} : arymax'[q] = arymax[q],
         resize' = resize \/ (Turn(p) > 0 /\ Here(p).step = "reduce" /\ e.step = "reduce"),
         \A q \in Ranks \ {p} : resize'[q] = resize[q],
         Result => Result', TypeOK'
  PROVE  IInv'
<1>0. TypeOK /\ Joined(p, e)
  BY JoinFrame DEF IInv
<1>1. \A q \in Ranks : Current(q) /\ Held(q) /\ InOrder(q) /\ Later(q) /\ Agreed(q)
                       /\ Founded(q) /\ Compares(q) /\ Gathered(q)
  BY DEF IInv
<1>2. Settled /\ Complete
  BY <1>0, <1>1, JoinSettled, JoinComplete
<1>3. \A q \in Ranks : Current(q)' /\ Held(q)' /\ InOrder(q)' /\ Later(q)'
  BY <1>0, <1>1, JoinCurrent, JoinHeld, JoinOrder, JoinLater
<1>4. \A q \in Ranks : Agreed(q)' /\ Founded(q)' /\ Compares(q)' /\ Gathered(q)'
  BY <1>0, <1>1, <1>2, JoinAgreed, JoinFounded, JoinCompares, JoinGathered
<1>5. Behind' /\ InStep'
  BY <1>0, <1>1, <1>2, JoinBehind, JoinInStep DEF IInv
<1>6. Calm' => \A q \in Ranks : Uncut(q)'
  BY <1>0, CalmBefore, JoinUncut DEF IInv
<1>7. WholeResult'
  BY <1>0, CalmBefore DEF IInv, WholeResult
<1>8. \A q \in Ranks : Idle(q)'
  <2>1. pc'[p] # "out"
    BY <1>0, EntryFields DEF Joined
  <2> QED BY <1>0, <2>1 DEF IInv, Idle, Joined
<1> QED BY <1>3, <1>4, <1>5, <1>6, <1>7, <1>8 DEF IInv

-----------------------------------------------------------------------------
(* A process stays in its collective, or leaves it without joining another. *)

\* The logs but for what MPI has put together, and nothing else than p's pc.
Skeleton ==
  /\ plan' = plan /\ calls' = calls /\ arymax' = arymax
  /\ \A q \in Ranks : Turn(q)' = Turn(q)
  /\ \A q \in Ranks : \A n \in 1 .. Turn(q) :
       /\ log'[q][n].step = log[q][n].step /\ log'[q][n].call = log[q][n].call
       /\ log'[q][n].val = log[q][n].val /\ log'[q][n].own = log[q][n].own
Touched(p, C, H) ==
  /\ Turn(p) > 0 /\ Skeleton
  /\ \A q \in Ranks \ {p} : pc'[q] = pc[q]
  /\ log'[p][Turn(p)].covers = C /\ log'[p][Turn(p)].has = H
  /\ \A q \in Ranks : \A n \in 1 .. Turn(q) : q # p \/ n # Turn(p) =>
       log'[q][n].covers = log[q][n].covers /\ log'[q][n].has = log[q][n].has

\* The code lets p put C together, as H, and go where it goes.
CanTouch(p, C, H) ==
  /\ pc'[p] \in {pc[p], "out", "refused", "raised"}
  /\ pc'[p] = "out" => Here(p).step = "reduce"
  /\ pc'[p] = "refused" =>
       /\ Here(p).step \in {"min", "ok"}
       /\ \A q \in Ranks : Turn(p) <= Turn(q) /\ log[q][Turn(p)].step = Here(p).step
       /\ IF Here(p).step = "min"
          THEN /\ Turn(p) > 1 /\ arymax[p] = Max(ValuesAt(Turn(p) - 1))
               /\ Min(ValuesAt(Turn(p))) # arymax[p]
          ELSE Min(ValuesAt(Turn(p))) = 0
  /\ Here(p).step = "reduce" =>
       /\ C \subseteq Ranks
       /\ \A r \in C : Turn(p) <= Turn(r) /\ Alike(log[r][Turn(p)], Here(p))
       /\ plan[Here(p).call][1] = "scan" => C \subseteq 0 .. p
       /\ pc'[p] \in {"out", "refused"} => WantedIn(p, Here(p).call) \subseteq C
       /\ Calm' => H \in {{}, C}

LEMMA TouchSettled ==
  ASSUME TypeOK, NEW p \in Ranks, NEW C, NEW H, Touched(p, C, H), CanTouch(p, C, H),
         pc[p] \notin {"out", "refused"}, \A q \in Ranks : Agreed(q)
  PROVE  Settled
<1> SUFFICES ASSUME NEW q \in Ranks, NEW n \in 1 .. Turn(q),
                    log[q][n].step \in Agreements, Passed(q, n)'
             PROVE  \A r \in Ranks : n <= Turn(r) /\ log[r][n].step = log[q][n].step
  BY DEF Settled
<1>1. CASE Passed(q, n)
  BY <1>1 DEF Agreed
<1>2. CASE ~Passed(q, n)
  <2>1. q = p /\ n = Turn(p) /\ pc'[p] \in {"out", "refused"}
    BY <1>2, LogTypes DEF Passed, Touched, Skeleton
  <2>2. pc'[p] # "out"
    BY <2>1 DEF CanTouch, Agreements, Here
  <2> QED BY <2>1, <2>2 DEF CanTouch, Here
<1> QED BY <1>1, <1>2

LEMMA SkeletonValues ==
  ASSUME TypeOK, Skeleton, Settled,
         NEW q \in Ranks, NEW n \in 1 .. Turn(q), log[q][n].step \in Agreements, Passed(q, n)'
  PROVE  ValuesAt(n)' = ValuesAt(n)
<1>1. \A r \in Ranks : n \in 1 .. Turn(r)
  BY LogTypes DEF Settled
<1>2. \A r \in Ranks : log'[r][n].val = log[r][n].val
  BY <1>1 DEF Skeleton
<1> QED BY <1>2, ValuesKept

LEMMA SkeletonOrder ==
  ASSUME TypeOK, Skeleton, NEW q \in Ranks, InOrder(q), Later(q)
  PROVE  InOrder(q)' /\ Later(q)'
<1>0. Turn(q) \in Nat /\ Turn(q)' = Turn(q)
  BY LogTypes DEF Skeleton
<1>1. Turn(q)' > 0 => log'[q][1].call = 1 /\ log'[q][1].step = FirstStep(1)
  <2>1. Turn(q) > 0 => 1 \in 1 .. Turn(q)
    BY <1>0
  <2> QED BY <1>0, <2>1 DEF Skeleton, InOrder
<1>2. ASSUME NEW n \in 2 .. Turn(q) PROVE Follows(log'[q][n - 1], log'[q][n])
  <2>1. n \in 1 .. Turn(q) /\ n - 1 \in 1 .. Turn(q)
    BY <1>0
  <2>2. Follows(log[q][n - 1], log[q][n])
    BY DEF InOrder
  <2> QED BY <2>1, <2>2 DEF Skeleton, Follows
<1>3. ASSUME NEW n \in 1 .. Turn(q), NEW m \in 1 .. n - 1
      PROVE  Ahead(log'[q][m], log'[q][n])
  <2>1. m \in 1 .. Turn(q)
    BY <1>0
  <2>2. Ahead(log[q][m], log[q][n])
    BY DEF Later
  <2> QED BY <2>1, <2>2 DEF Skeleton, Ahead
<1>4. \A c : FirstStep(c)' = FirstStep(c)
  BY DEF Skeleton, FirstStep
<1>5. InOrder(q)'
  BY <1>0, <1>1, <1>2, <1>4 DEF InOrder, Follows
<1>6. Later(q)'
  BY <1>0, <1>3 DEF Later, Ahead
<1> QED BY <1>5, <1>6

LEMMA SkeletonAgreed ==
  ASSUME TypeOK, Skeleton, Settled, NEW q \in Ranks
  PROVE  Agreed(q)'
<1> SUFFICES ASSUME NEW n \in 1 .. Turn(q)', log'[q][n].step \in Agreements, Passed(q, n)',
                    NEW r \in Ranks
             PROVE  n <= Turn(r)' /\ log'[r][n].step = log'[q][n].step
  BY DEF Agreed
<1>1. n \in 1 .. Turn(q) /\ log'[q][n].step = log[q][n].step
  BY DEF Skeleton
<1>2. n <= Turn(r) /\ log[r][n].step = log[q][n].step
  BY <1>1 DEF Settled
<1>3. n \in 1 .. Turn(r)
  BY <1>2, LogTypes
<1> QED BY <1>1, <1>2, <1>3 DEF Skeleton

LEMMA SkeletonFounded ==
  ASSUME TypeOK, Skeleton, Settled, NEW q \in Ranks, InOrder(q), Founded(q)
  PROVE  Founded(q)'
<1> SUFFICES ASSUME NEW n \in 2 .. Turn(q)' PROVE Found(log[q][n - 1], log[q][n], n)'
  BY DEF Founded
<1> DEFINE d == log[q][n - 1]
           f == log[q][n]
<1>0. /\ Turn(q)' = Turn(q) /\ Turn(q) \in Nat /\ n \in 2 .. Turn(q)
      /\ n \in 1 .. Turn(q) /\ n - 1 \in 1 .. Turn(q) /\ n - 1 < Turn(q)'
  BY LogTypes DEF Skeleton
<1>1. Found(d, f, n) /\ Passed(q, n - 1)'
  BY <1>0 DEF Founded, Passed
<1>2. d.step \in Agreements => ValuesAt(n - 1)' = ValuesAt(n - 1)
  BY <1>0, <1>1, SkeletonValues
<1>3. d.step = "min" => ValuesAt(n - 2)' = ValuesAt(n - 2)
  <2> SUFFICES ASSUME d.step = "min" PROVE ValuesAt(n - 2)' = ValuesAt(n - 2)
    OBVIOUS
  <2>1. n - 1 # 1
    BY <1>0 DEF InOrder, FirstStep
  <2>2. n - 1 \in 2 .. Turn(q) /\ n - 2 < Turn(q)' /\ (n - 1) - 1 = n - 2
    BY <1>0, <2>1
  <2>3. n - 2 \in 1 .. Turn(q) /\ log[q][n - 2].step \in Agreements
    BY <2>2, BeforeMin DEF Agreements
  <2>4. Passed(q, n - 2)'
    BY <2>2 DEF Passed
  <2> QED BY <2>3, <2>4, SkeletonValues
<1>4. {"longest", "min", "ok"} \subseteq Agreements
  BY DEF Agreements
<1>5. log'[q][n - 1].step = d.step /\ log'[q][n].val = f.val
  BY <1>0 DEF Skeleton
<1> QED BY <1>1, <1>2, <1>3, <1>4, <1>5 DEF Found

LEMMA SkeletonBehind ==
  ASSUME TypeOK, Skeleton, Behind
  PROVE  Behind'
<1> SUFFICES ASSUME NEW t \in Ranks, NEW n \in 1 .. Turn(t)',
                    \A r \in Ranks : n < Turn(r)'
             PROVE  SameAt(n)'
  BY DEF Behind
<1>1. \A r \in Ranks : n \in 1 .. Turn(r) /\ n < Turn(r)
  BY LogTypes DEF Skeleton
<1>2. SameAt(n)
  BY <1>1 DEF Behind
<1>3. \A q \in Ranks : /\ log'[q][n].step = log[q][n].step /\ log'[q][n].call = log[q][n].call
                       /\ log'[q][n].val = log[q][n].val
  BY <1>1 DEF Skeleton
<1> QED BY <1>2, <1>3 DEF SameAt, Alike

LEMMA SkeletonInStep ==
  ASSUME TypeOK, Skeleton, Calm' => Calm, InStep
  PROVE  InStep'
<1> SUFFICES ASSUME Calm', NEW r \in Ranks, NEW s \in Ranks,
                    NEW n \in 1 .. Min({Turn(r), Turn(s)})'
             PROVE  log'[r][n].call = log'[s][n].call /\ Alike(log'[r][n], log'[s][n])
  BY DEF InStep, Alike
<1>1. n \in 1 .. Min({Turn(r), Turn(s)}) /\ n \in 1 .. Turn(r) /\ n \in 1 .. Turn(s)
  <2>1. n \in 1 .. Min({Turn(r), Turn(s)})
    BY DEF Skeleton
  <2> QED BY <2>1, LogTypes, MinOfTwo
<1>2. log[r][n].call = log[s][n].call /\ Alike(log[r][n], log[s][n])
  BY <1>1 DEF InStep
<1> QED BY <1>1, <1>2 DEF Skeleton, Alike

\* Nobody has been asked to repeat if nobody is asked now.
LEMMA SkeletonCalm ==
  ASSUME TypeOK, Skeleton, \A q \in Ranks : resize'[q] = resize[q] \/ resize'[q] # 0, Calm'
  PROVE  Calm
<1>1. \A q \in Ranks : resize[q] = 0
  BY DEF Calm
<1>2. ASSUME NEW q \in Ranks, NEW n \in 2 .. Turn(q), log[q][n].step = "reduce"
      PROVE  log[q][n - 1].step = "longest"
  <2>1. n \in 1 .. Turn(q) /\ n - 1 \in 1 .. Turn(q) /\ n \in 2 .. Turn(q)'
    BY LogTypes DEF Skeleton
  <2>2. log'[q][n].step = "reduce" => log'[q][n - 1].step = "longest"
    BY <2>1 DEF Calm
  <2> QED BY <1>2, <2>1, <2>2 DEF Skeleton
<1> QED BY <1>1, <1>2 DEF Calm

LEMMA TouchHere ==
  ASSUME TypeOK, NEW q \in Ranks, Skeleton, Turn(q) # 0
  PROVE  /\ Turn(q) \in 1 .. Turn(q) /\ Turn(q)' = Turn(q)
         /\ Here(q)'.step = Here(q).step /\ Here(q)'.call = Here(q).call
<1>1. Turn(q) \in 1 .. Turn(q) /\ Turn(q)' = Turn(q)
  BY LogTypes DEF Skeleton
<1> QED BY <1>1 DEF Skeleton, Here

LEMMA TouchCurrent ==
  ASSUME TypeOK, NEW p \in Ranks, NEW C, NEW H, Touched(p, C, H), CanTouch(p, C, H),
         NEW q \in Ranks, Current(q)
  PROVE  Current(q)'
<1>0. Skeleton /\ Turn(p) # 0 /\ calls' = calls /\ Turn(q)' = Turn(q) /\ (q # p => pc'[q] = pc[q])
  BY LogTypes DEF Touched, Skeleton
<1>1. CASE Turn(q) = 0
  BY <1>0, <1>1 DEF Current
<1>2. CASE Turn(q) # 0
  <2>1. Here(q)'.step = Here(q).step /\ Here(q)'.call = Here(q).call
    BY <1>0, <1>2, TouchHere
  <2>2. \/ pc'[q] = pc[q]
        \/ pc'[q] = "out" /\ Here(q).step = "reduce"
        \/ pc'[q] = "refused" /\ Here(q).step \in {"min", "ok"}
        \/ pc'[q] = "raised"
    BY <1>0 DEF CanTouch
  <2>3. {"out", "refused", "raised"} \cap (Agreements \cup {"reduce"}) = {}
    BY DEF Agreements
  <2> QED BY <1>0, <1>2, <2>1, <2>2, <2>3 DEF Current
<1> QED BY <1>1, <1>2

LEMMA TouchCompares ==
  ASSUME TypeOK, NEW p \in Ranks, NEW C, NEW H, Touched(p, C, H), CanTouch(p, C, H), Settled,
         NEW q \in Ranks, InOrder(q), Current(q), Compares(q)
  PROVE  Compares(q)'
<1> SUFFICES ASSUME NEW t \in Nat, t = Turn(q), t # 0 PROVE Compares(q)'
  <2>1. Turn(q) = 0 => pc'[q] \in {"out", "raised"} /\ Turn(q)' = 0
    BY DEF Current, Touched, Skeleton
  <2> QED BY <2>1, LogTypes DEF Compares
<1>0. /\ Skeleton /\ Turn(q)' = t /\ arymax' = arymax /\ Here(q)'.step = Here(q).step
      /\ (q # p => pc'[q] = pc[q]) /\ t \in 1 .. Turn(q)
  BY TouchHere DEF Touched, Skeleton
<1>1. ASSUME pc'[q] \in {"min", "refused"}, Here(q).step = "min"
      PROVE  t > 1 /\ arymax[q] = Max(ValuesAt(t - 1)) /\ ValuesAt(t - 1)' = ValuesAt(t - 1)
  <2>1. t > 1 /\ arymax[q] = Max(ValuesAt(t - 1))
    BY <1>0, <1>1 DEF Compares, CanTouch
  <2>2. t \in 2 .. Turn(q) /\ log[q][t].step = "min" /\ t - 1 < Turn(q)'
    BY <1>0, <1>1, <2>1 DEF Here
  <2>3. t - 1 \in 1 .. Turn(q) /\ log[q][t - 1].step \in Agreements
    BY <2>2, BeforeMin DEF Agreements
  <2>4. Passed(q, t - 1)'
    BY <2>2 DEF Passed
  <2> QED BY <1>0, <2>1, <2>3, <2>4, SkeletonValues
<1>2. ASSUME pc'[q] = "refused"
      PROVE  /\ IF Here(q).step = "min" THEN Min(ValuesAt(t)) # arymax[q]
                ELSE Min(ValuesAt(t)) = 0
             /\ ValuesAt(t)' = ValuesAt(t)
  <2>1. Here(q).step \in {"min", "ok"}
    BY <1>0, <1>2 DEF Current, CanTouch
  <2>2. IF Here(q).step = "min" THEN Min(ValuesAt(t)) # arymax[q] ELSE Min(ValuesAt(t)) = 0
    BY <1>0, <1>2 DEF Compares, CanTouch
  <2>3. log[q][t].step \in Agreements
    BY <2>1 DEF Agreements, Here
  <2>4. Passed(q, t)'
    BY <1>2 DEF Passed
  <2> QED BY <1>0, <2>2, <2>3, <2>4, SkeletonValues
<1>3. (Turn(q) > 0 /\ pc[q] \in {"min", "refused"} /\ Here(q).step = "min")' =>
        Turn(q)' > 1 /\ arymax'[q] = Max(ValuesAt(t - 1)')
  BY <1>0, <1>1
<1>4. (pc[q] = "refused")' =>
        IF (Here(q).step = "min")' THEN Min(ValuesAt(t)') # arymax'[q] ELSE Min(ValuesAt(t)') = 0
  BY <1>0, <1>2
<1> QED BY <1>0, <1>3, <1>4 DEF Compares

LEMMA TouchHeld ==
  ASSUME TypeOK, NEW p \in Ranks, NEW C, NEW H, Touched(p, C, H), CanTouch(p, C, H),
         NEW q \in Ranks, Held(q)
  PROVE  Held(q)'
<1> SUFFICES ASSUME NEW n \in 1 .. Turn(q)' PROVE EntryOk(q, log[q][n])'
  BY DEF Held
<1>0. n \in 1 .. Turn(q) /\ Skeleton
  BY DEF Touched, Skeleton
<1>1. CASE q # p \/ n # Turn(p)
  BY <1>0, <1>1 DEF Touched, Skeleton, Held, EntryOk
<1>2. CASE q = p /\ n = Turn(p)
  <2>1. log'[q][n].covers = C /\ log[q][n] = Here(p)
    BY <1>2 DEF Touched, Here
  <2> QED BY <1>0, <1>2, <2>1 DEF Skeleton, Held, EntryOk, CanTouch
<1> QED BY <1>1, <1>2

LEMMA TouchUncut ==
  ASSUME TypeOK, NEW p \in Ranks, NEW C, NEW H, Touched(p, C, H), CanTouch(p, C, H),
         NEW q \in Ranks, Uncut(q), Calm'
  PROVE  Uncut(q)'
<1> SUFFICES ASSUME NEW n \in 1 .. Turn(q)', log'[q][n].step = "reduce"
             PROVE  log'[q][n].has \in {{}, log'[q][n].covers}
  BY DEF Uncut
<1>0. n \in 1 .. Turn(q) /\ log[q][n].step = "reduce"
  BY DEF Touched, Skeleton
<1>1. CASE q # p \/ n # Turn(p)
  BY <1>0, <1>1 DEF Touched, Uncut
<1>2. CASE q = p /\ n = Turn(p)
  BY <1>0, <1>2 DEF Touched, CanTouch, Here
<1> QED BY <1>1, <1>2

LEMMA TouchGathered ==
  ASSUME TypeOK, NEW p \in Ranks, NEW C, NEW H, Touched(p, C, H), CanTouch(p, C, H),
         NEW q \in Ranks, Gathered(q)
  PROVE  Gathered(q)'
<1> SUFFICES ASSUME NEW n \in 1 .. Turn(q)', log'[q][n].step = "reduce"
             PROVE  /\ \A r \in log'[q][n].covers :
                         n <= Turn(r)' /\ Alike(log'[r][n], log'[q][n])
                    /\ Passed(q, n)' =>
                         WantedIn(q, log'[q][n].call) \subseteq log'[q][n].covers
  <2>1. \A c : WantedIn(q, c)' = WantedIn(q, c)
    BY DEF WantedIn, Touched, Skeleton
  <2> QED BY <2>1 DEF Gathered, Alike
<1>0. /\ n \in 1 .. Turn(q) /\ log[q][n].step = "reduce" /\ log[q][n] \in Entry
      /\ log'[q][n].call = log[q][n].call /\ log'[q][n].val = log[q][n].val
  BY LogTypes DEF Touched, Skeleton
<1>1. ASSUME NEW r \in Ranks, n <= Turn(r), Alike(log[r][n], log[q][n])
      PROVE  n <= Turn(r)' /\ Alike(log'[r][n], log'[q][n])
  <2>1. n \in 1 .. Turn(r) /\ Turn(r)' = Turn(r)
    BY <1>1, LogTypes DEF Touched, Skeleton
  <2> QED BY <1>0, <1>1, <2>1 DEF Touched, Skeleton, Alike
<1>2. CASE q # p \/ n # Turn(p)
  <2>1. log'[q][n].covers = log[q][n].covers
    BY <1>0, <1>2 DEF Touched
  <2>2. Passed(q, n)' => Passed(q, n)
    BY <1>0, <1>2, LogTypes DEF Passed, Touched, Skeleton
  <2>3. log[q][n].covers \subseteq Ranks
    BY <1>0, EntryFields
  <2>4. \A r \in log[q][n].covers : n <= Turn(r) /\ Alike(log[r][n], log[q][n])
    BY <1>0 DEF Gathered
  <2> QED BY <1>0, <1>1, <2>1, <2>2, <2>3, <2>4 DEF Gathered
<1>3. CASE q = p /\ n = Turn(p)
  <2>1. log'[q][n].covers = C /\ log[q][n] = Here(p)
    BY <1>3 DEF Touched, Here
  <2>2. Passed(q, n)' => pc'[p] \in {"out", "refused"}
    BY <1>0, <1>3, LogTypes DEF Passed, Touched, Skeleton
  <2>3. \A r \in C : r \in Ranks /\ n <= Turn(r) /\ Alike(log[r][n], log[q][n])
    BY <1>0, <1>3, <2>1 DEF CanTouch
  <2> QED BY <1>0, <1>1, <1>3, <2>1, <2>2, <2>3 DEF CanTouch
<1> QED BY <1>2, <1>3

\* The parts of the invariant together.
LEMMA TouchKeeps ==
  ASSUME IInv, NEW p \in Ranks, NEW C, NEW H, Touched(p, C, H), CanTouch(p, C, H),
         pc[p] \notin {"out", "refused"},
         \A q \in Ranks \ {p} : resize'[q] = resize[q],
         resize'[p] = resize[p] \/ resize'[p] # 0, pc'[p] = "out" => resize'[p] = 0,
         Calm' /\ Result => Result', TypeOK'
  PROVE  IInv'
<1>0. TypeOK /\ Skeleton
  BY DEF IInv, Touched
<1>1. \A q \in Ranks : Current(q) /\ Held(q) /\ InOrder(q) /\ Later(q) /\ Agreed(q)
                       /\ Founded(q) /\ Compares(q) /\ Gathered(q)
  BY DEF IInv
<1>2. Settled
  BY <1>0, <1>1, TouchSettled
<1>3. \A q \in Ranks : Current(q)' /\ Held(q)' /\ InOrder(q)' /\ Later(q)'
  BY <1>0, <1>1, TouchCurrent, TouchHeld, SkeletonOrder
<1>4. \A q \in Ranks : Agreed(q)' /\ Founded(q)' /\ Compares(q)' /\ Gathered(q)'
  BY <1>0, <1>1, <1>2, SkeletonAgreed, SkeletonFounded, TouchCompares, TouchGathered
<1>5. Calm' => Calm
  <2>1. \A q \in Ranks : resize'[q] = resize[q] \/ resize'[q] # 0
    OBVIOUS
  <2> QED BY <1>0, <2>1, SkeletonCalm
<1>6. Behind' /\ InStep'
  BY <1>0, <1>5, SkeletonBehind, SkeletonInStep DEF IInv
<1>7. Calm' => \A q \in Ranks : Uncut(q)'
  BY <1>0, <1>5, TouchUncut DEF IInv
<1>8. WholeResult'
  BY <1>5 DEF IInv, WholeResult
<1>9. \A q \in Ranks : Idle(q)'
  BY DEF IInv, Idle, Touched
<1> QED BY <1>3, <1>4, <1>6, <1>7, <1>8, <1>9 DEF IInv

-----------------------------------------------------------------------------
(* The actions.                                                             *)

\* A process in an MPI call, and the collective it is in.
LEMMA InCollective ==
  ASSUME IInv, NEW p \in Ranks, pc[p] \in Agreements \cup {"reduce"}
  PROVE  /\ Turn(p) \in Nat \ {0} /\ Here(p) \in Entry /\ EntryOk(p, Here(p))
         /\ Here(p).step = pc[p] /\ Here(p).call = calls[p] /\ calls[p] \in 1 .. MaxCalls
         /\ pc[p] # "reduce" => resize[p] = 0
<1>1. TypeOK /\ Current(p) /\ Held(p)
  BY DEF IInv
<1>2. pc[p] \notin {"out", "raised"}
  BY DEF Agreements
<1>3. Turn(p) \in Nat \ {0} /\ Here(p).step = pc[p] /\ Here(p).call = calls[p]
  BY <1>1, <1>2, LogTypes DEF Current
<1>4. Turn(p) \in 1 .. Turn(p)
  BY <1>3
<1>5. Here(p) \in Entry /\ EntryOk(p, Here(p))
  BY <1>1, <1>4, LogTypes DEF Here, Held
<1>6. calls[p] \in 1 .. MaxCalls
  BY <1>3, <1>5 DEF EntryOk
<1>7. resize[p] \in Nat
  BY <1>1 DEF TypeOK
<1>8. pc[p] # "reduce" => resize[p] = 0
  BY <1>1, <1>3, <1>7 DEF TypeOK
<1> QED BY <1>3, <1>5, <1>6, <1>8

LEMMA JoinTypes ==
  ASSUME TypeOK, NEW p \in Ranks, NEW e \in Entry, Join(p, e), plan' = plan,
         calls' \in [Ranks -> 0 .. MaxCalls], arylen' \in [Ranks -> ArrayLens \cup {-1}],
         arymax' \in [Ranks -> ArrayLens \cup {-1}], length' \in [Ranks -> Int],
         longest' \in [Ranks -> Int], resize' \in [Ranks -> Nat],
         got' \in [Ranks -> SUBSET SUBSET Ranks],
         resize'[p] = 0, \A q \in Ranks \ {p} : resize'[q] = resize[q]
  PROVE  TypeOK'
<1>1. log' \in [Ranks -> Seq(Entry)]
  BY JoinFrame
<1>2. \A q \in Ranks \ {p} : log'[q] = log[q]
  BY DEF Join, TypeOK
<1>3. \A q \in Ranks \ {p} : Here(q)' = Here(q)
  BY <1>2 DEF Here, Turn
<1>4. \A q \in Ranks : resize'[q] > 0 => Here(q)'.step = "reduce" /\ resize'[q] > Here(q)'.val
  <2>1. \A q \in Ranks \ {p} : resize[q] > 0 => Here(q).step = "reduce" /\ resize[q] > Here(q).val
    BY DEF TypeOK
  <2>2. ~(0 > 0)
    OBVIOUS
  <2> QED BY <1>3, <2>1, <2>2
<1>5. pc' \in [Ranks -> {"out", "max", "min", "ok", "longest", "reduce", "refused", "raised"}]
  BY EntryFields DEF Join, TypeOK
<1>6. plan' \in Plans
  BY DEF TypeOK
<1> QED BY <1>1, <1>4, <1>5, <1>6 DEF TypeOK

\* An entry of an agreement.
LEMMA AgreeEntry ==
  ASSUME NEW c \in Nat, NEW step \in Agreements, NEW val \in Int
  PROVE  /\ Agree(c, step, val) \in Entry
         /\ Agree(c, step, val).step = step /\ Agree(c, step, val).call = c
         /\ Agree(c, step, val).val = val /\ Agree(c, step, val).own = {}
BY DEF Agree, Entry, Agreements

LEMMA MetAll ==
  ASSUME NEW p \in Ranks, Met(p)
  PROVE  \A q \in Ranks : Turn(p) <= Turn(q) /\ log[q][Turn(p)].step = Here(p).step
<1>1. \A q \in Ranks : Turn(q) >= Turn(p) /\ log[q][Turn(p)].step = Here(p).step
  BY DEF Met, Alike
<1> QED BY <1>1

\* The largest value is one that some process holds.
LEMMA MaxValue ==
  ASSUME TypeOK, NEW p \in Ranks, Met(p), Turn(p) # 0
  PROVE  /\ Values(p) = ValuesAt(Turn(p))
         /\ \E q \in Ranks : Turn(p) \in 1 .. Turn(q) /\ log[q][Turn(p)].step = Here(p).step
                             /\ Max(Values(p)) = log[q][Turn(p)].val
<1> SUFFICES ASSUME NEW t \in Nat \ {0}, t = Turn(p)
             PROVE  \E q \in Ranks : t \in 1 .. Turn(q) /\ log[q][t].step = Here(p).step
                             /\ Max(Values(p)) = log[q][t].val
  BY LogTypes DEF Values, ValuesAt
<1>1. \A q \in Ranks : t \in 1 .. Turn(q) /\ log[q][t].step = Here(p).step
  BY MetAll, LogTypes
<1>2. \A q \in Ranks : log[q][t] \in Entry
  BY <1>1, LogTypes
<1>3. \A q \in Ranks : log[q][t].val \in Int
  BY <1>2, EntryFields
<1> DEFINE f == [q \in Ranks |-> log[q][t].val]
<1>4. \A q \in Ranks : f[q] \in Int
  BY <1>3
<1>5. Values(p) = {f[q] : q \in Ranks}
  BY DEF Values
<1>6. Max({f[q] : q \in Ranks}) \in {f[q] : q \in Ranks}
  <2> HIDE DEF f
  <2> QED BY <1>4, MaxOfRanks
<1> QED BY <1>1, <1>5, <1>6

LEMMA WantedIs ==
  ASSUME NEW p \in Ranks
  PROVE  Wanted(p) = WantedIn(p, calls[p])
BY DEF Wanted, WantedIn, Kind, Root

LEMMA ResultKept ==
  ASSUME plan' = plan, calls' = calls, got' = got
  PROVE  Result => Result'
BY DEF Result, Wanted, Kind, Root

\* A call of one of the four methods.
LEMMA CallKeeps ==
  ASSUME IInv, NEW p \in Ranks, NEW kind \in Kinds, NEW step \in {"max", "ok"}, NEW val,
         step = (IF kind = "reduce_scatter" THEN "ok" ELSE "max"),
         \A len \in ArrayLens : val[len] \in Int /\ (step = "max" => val[len] \in ArrayLens),
         Call(p, kind, step, val)
  PROVE  IInv'
<1>0. TypeOK /\ Current(p) /\ Idle(p) /\ Gathered(p)
  BY DEF IInv
<1>1. pc[p] = "out" /\ calls[p] \in 0 .. MaxCalls /\ calls[p] < MaxCalls
      /\ plan[calls[p] + 1][1] = kind /\ resize[p] = 0 /\ MaxCalls \in Nat
  BY <1>0, ReductionOk DEF Call, TypeOK, Idle
<1>2. PICK len \in ArrayLens : arylen' = [arylen EXCEPT ![p] = len]
                               /\ Join(p, Agree(calls[p] + 1, step, val[len]))
  BY DEF Call
<1> DEFINE c == calls[p] + 1
           e == Agree(c, step, val[len])
<1>3. /\ e \in Entry /\ e.step = step /\ e.call = c /\ e.val = val[len] /\ e.own = {}
      /\ c \in 1 .. MaxCalls /\ FirstStep(c) = step /\ step \notin {"reduce", "min", "longest"}
  <2>1. c \in 1 .. MaxCalls /\ c \in Nat
    BY <1>1
  <2>2. step \in Agreements /\ val[len] \in Int
    BY DEF Agreements
  <2>3. FirstStep(c) = step
    BY <1>1 DEF FirstStep
  <2> HIDE DEF c
  <2> QED BY <2>1, <2>2, <2>3, AgreeEntry
<1>4. CanJoin(p, e)
  <2>1. EntryOk(p, e)
    <3>1. step = "max" => val[len] \in ArrayLens \cup {-1}
      OBVIOUS
    <3> HIDE DEF e, c
    <3> QED BY <1>3, <3>1 DEF EntryOk
  <2>2. CASE Turn(p) = 0
    <3>1. c = 1
      BY <1>0, <1>1, <2>2 DEF Current
    <3> HIDE DEF e, c
    <3> QED BY <1>3, <2>1, <2>2, <3>1 DEF CanJoin
  <2>3. CASE Turn(p) # 0
    <3>1. Here(p).step = "reduce" /\ Here(p).call = calls[p]
      BY <1>0, <1>1, <2>3 DEF Current
    <3>2. Turn(p) \in 1 .. Turn(p) /\ Passed(p, Turn(p))
      BY <1>0, <1>1, <2>3, LogTypes DEF Passed
    <3>3. WantedIn(p, Here(p).call) \subseteq Here(p).covers
      BY <1>0, <3>1, <3>2 DEF Gathered, Here
    <3>4. e.call = Here(p).call + 1
      BY <1>3, <3>1
    <3> HIDE DEF e, c
    <3>5. Follows(Here(p), e) /\ Found(Here(p), e, Turn(p) + 1)
      BY <1>3, <3>1, <3>4 DEF Follows, Found
    <3> QED BY <1>3, <2>1, <2>3, <3>1, <3>3, <3>5 DEF CanJoin, Agreements
  <2> QED BY <2>2, <2>3
<1>5. calls'[p] = c /\ \A q \in Ranks \ {p} : calls'[q] = calls[q]
  BY <1>0 DEF Call, TypeOK
<1>6. TypeOK'
  <2>1. calls' \in [Ranks -> 0 .. MaxCalls]
    BY <1>0, <1>3 DEF Call, TypeOK
  <2>2. arylen' \in [Ranks -> ArrayLens \cup {-1}]
    BY <1>0, <1>2 DEF TypeOK
  <2>3. length' \in [Ranks -> Int]
    BY <1>0, Lens DEF Call, TypeOK
  <2>4. got' \in [Ranks -> SUBSET SUBSET Ranks]
    BY <1>0 DEF Call, TypeOK
  <2>5. /\ arymax' = arymax /\ longest' = longest /\ resize' = resize /\ plan' = plan
        /\ arymax \in [Ranks -> ArrayLens \cup {-1}] /\ longest \in [Ranks -> Int]
        /\ resize \in [Ranks -> Nat]
    BY <1>0 DEF Call, TypeOK
  <2> HIDE DEF e, c
  <2> QED BY <1>0, <1>1, <1>2, <1>3, <2>1, <2>2, <2>3, <2>4, <2>5, JoinTypes DEF e, c
<1>7. Result => Result'
  <2>1. plan' = plan /\ got'[p] = {} /\ \A q \in Ranks \ {p} : got'[q] = got[q]
    BY <1>0 DEF Call, TypeOK
  <2> QED BY <1>5, <2>1 DEF Result, Wanted, Kind, Root
<1>8. plan' = plan /\ arymax' = arymax /\ resize' = resize /\ Join(p, e)
  BY <1>2 DEF Call
<1>9. calls'[p] = e.call /\ (e.step = "min" => arymax'[p] = Max(ValuesAt(Turn(p))))
  BY <1>3, <1>5
<1> HIDE DEF e, c
<1> QED BY <1>3, <1>4, <1>5, <1>6, <1>7, <1>8, <1>9, JoinKeeps

LEMMA MethodsKeep ==
  ASSUME IInv, NEW p \in Ranks, Reduce(p) \/ Allreduce(p) \/ Scan(p) \/ ReduceScatter(p)
  PROVE  IInv'
<1>1. \A len \in ArrayLens : Itself[len] \in Int /\ Itself[len] \in ArrayLens
  BY ReductionOk DEF Itself
<1>2. \A len \in ArrayLens : ary_ok[len] \in Int
  BY DEF ary_ok
<1>3. CASE ReduceScatter(p)
  BY <1>2, <1>3, CallKeeps DEF ReduceScatter, Kinds
<1>4. CASE Reduce(p)
  BY <1>1, <1>4, CallKeeps DEF Reduce, Kinds
<1>5. CASE Allreduce(p)
  BY <1>1, <1>5, CallKeeps DEF Allreduce, Kinds
<1>6. CASE Scan(p)
  BY <1>1, <1>6, CallKeeps DEF Scan, Kinds
<1> QED BY <1>3, <1>4, <1>5, <1>6

LEMMA MaxDoneKeeps ==
  ASSUME IInv, NEW p \in Ranks, MaxDone(p)
  PROVE  IInv'
<1> DEFINE e == Agree(calls[p], "min", arylen[p])
<1>0. TypeOK /\ pc[p] = "max" /\ Met(p) /\ Join(p, e)
  BY DEF IInv, MaxDone
<1>1. /\ Turn(p) \in Nat \ {0} /\ Here(p) \in Entry /\ Here(p).step = "max"
      /\ Here(p).call = calls[p] /\ calls[p] \in 1 .. MaxCalls /\ resize[p] = 0
  BY <1>0, InCollective DEF Agreements
<1>2. /\ e \in Entry /\ e.step = "min" /\ e.call = calls[p] /\ e.own = {}
  <2>1. arylen[p] \in ArrayLens \cup {-1}
    BY <1>0 DEF TypeOK
  <2>2. arylen[p] \in Int
    <3>1. -1 \in Int
      OBVIOUS
    <3>2. ArrayLens \subseteq Int
      BY ReductionOk
    <3> QED BY <2>1, <3>1, <3>2, Zenon
  <2>3. calls[p] \in Nat /\ "min" \in Agreements
    BY <1>1 DEF Agreements
  <2> QED BY <2>2, <2>3, AgreeEntry
<1>3. CanJoin(p, e)
  <2> HIDE DEF e
  <2>1. EntryOk(p, e)
    BY <1>1, <1>2 DEF EntryOk
  <2>2. Follows(Here(p), e) /\ Found(Here(p), e, Turn(p) + 1)
    BY <1>1, <1>2 DEF Follows, Found
  <2> QED BY <1>0, <1>1, <1>2, <2>1, <2>2, MetAll DEF CanJoin
<1>4. arymax'[p] = Max(ValuesAt(Turn(p))) /\ arymax'[p] \in ArrayLens \cup {-1}
  <2>1. PICK q \in Ranks : Turn(p) \in 1 .. Turn(q) /\ log[q][Turn(p)].step = "max"
                           /\ Max(Values(p)) = log[q][Turn(p)].val
    BY <1>0, <1>1, MaxValue
  <2>2. EntryOk(q, log[q][Turn(p)])
    BY <2>1 DEF IInv, Held
  <2>3. arymax'[p] = Max(Values(p)) /\ Values(p) = ValuesAt(Turn(p))
    BY <1>0, <1>1, MaxValue DEF MaxDone, TypeOK
  <2> QED BY <2>1, <2>2, <2>3 DEF EntryOk
<1>5. plan' = plan /\ calls' = calls /\ resize' = resize /\ got' = got /\ arylen' = arylen
      /\ length' = length /\ longest' = longest
      /\ \A q \in Ranks \ {p} : arymax'[q] = arymax[q]
  BY <1>0 DEF MaxDone, args, TypeOK
<1>6. TypeOK'
  <2>1. arymax' \in [Ranks -> ArrayLens \cup {-1}]
    BY <1>0, <1>4 DEF MaxDone, TypeOK
  <2>2. /\ calls \in [Ranks -> 0 .. MaxCalls] /\ arylen \in [Ranks -> ArrayLens \cup {-1}]
        /\ length \in [Ranks -> Int] /\ longest \in [Ranks -> Int] /\ resize \in [Ranks -> Nat]
        /\ got \in [Ranks -> SUBSET SUBSET Ranks]
    BY <1>0 DEF TypeOK
  <2> HIDE DEF e
  <2> QED BY <1>0, <1>1, <1>2, <1>5, <2>1, <2>2, JoinTypes
<1> HIDE DEF e
<1> QED BY <1>0, <1>1, <1>2, <1>3, <1>4, <1>5, <1>6, JoinKeeps, ResultKept

\* A process ends in the middle of a method.
LEMMA EndKeeps ==
  ASSUME IInv, NEW p \in Ranks, NEW how \in {"refused", "raised"}, End(p, how),
         pc[p] \in Agreements \cup {"reduce"},
         how = "refused" =>
           /\ pc[p] \in {"min", "ok"} /\ Met(p)
           /\ IF pc[p] = "min" THEN Min(ValuesAt(Turn(p))) # arymax[p]
              ELSE Min(ValuesAt(Turn(p))) = 0
  PROVE  IInv'
<1> DEFINE C == Here(p).covers
           H == Here(p).has
<1>0. TypeOK /\ Compares(p) /\ Gathered(p) /\ (Calm => Uncut(p))
  BY DEF IInv
<1>1. /\ Turn(p) \in Nat \ {0} /\ Here(p) \in Entry /\ EntryOk(p, Here(p))
      /\ Here(p).step = pc[p] /\ Turn(p) \in 1 .. Turn(p)
  BY InCollective
<1>2. /\ log' = log /\ plan' = plan /\ calls' = calls /\ arylen' = arylen /\ arymax' = arymax
      /\ length' = length /\ longest' = longest /\ resize' = resize /\ got' = got
      /\ pc'[p] = how /\ \A q \in Ranks \ {p} : pc'[q] = pc[q]
  BY <1>0 DEF End, args, TypeOK
<1>3. Touched(p, C, H)
  <2>1. \A q \in Ranks : Turn(q)' = Turn(q)
    BY <1>2 DEF Turn
  <2> QED BY <1>1, <1>2, <2>1 DEF Touched, Skeleton, Here
<1>4. CanTouch(p, C, H)
  <2>1. Calm' => Calm
    BY <1>2 DEF Calm, Turn
  <2>2. Here(p).step = "reduce" =>
          /\ C \subseteq Ranks
          /\ \A r \in C : Turn(p) <= Turn(r) /\ Alike(log[r][Turn(p)], Here(p))
          /\ plan[Here(p).call][1] = "scan" => C \subseteq 0 .. p
          /\ Calm' => H \in {{}, C}
    BY <1>0, <1>1, <2>1, EntryFields DEF Gathered, Uncut, EntryOk, Here
  <2>3. pc'[p] = "refused" =>
       /\ Here(p).step \in {"min", "ok"}
       /\ \A q \in Ranks : Turn(p) <= Turn(q) /\ log[q][Turn(p)].step = Here(p).step
       /\ IF Here(p).step = "min"
          THEN /\ Turn(p) > 1 /\ arymax[p] = Max(ValuesAt(Turn(p) - 1))
               /\ Min(ValuesAt(Turn(p))) # arymax[p]
          ELSE Min(ValuesAt(Turn(p))) = 0
    BY <1>0, <1>1, <1>2, MetAll DEF Compares
  <2>4. pc'[p] \in {pc[p], "out", "refused", "raised"} /\ pc'[p] # "out"
    BY <1>2
  <2>5. Here(p).step = "reduce" => pc'[p] \notin {"out", "refused"}
    BY <1>2, <2>3, <2>4
  <2> HIDE DEF C, H
  <2> QED BY <2>2, <2>3, <2>4, <2>5 DEF CanTouch
<1>5. TypeOK'
  <2>1. pc' \in [Ranks -> {"out", "max", "min", "ok", "longest", "reduce", "refused", "raised"}]
    BY <1>0 DEF End, TypeOK
  <2>2. \A q \in Ranks : Here(q)' = Here(q)
    BY <1>2 DEF Here, Turn
  <2> QED BY <1>0, <1>2, <2>1, <2>2 DEF TypeOK
<1>6. pc[p] \notin {"out", "refused"}
  BY DEF Agreements
<1>7. Result => Result'
  BY <1>2, ResultKept
<1>8. /\ \A q \in Ranks \ {p} : resize'[q] = resize[q]
      /\ resize'[p] = resize[p] /\ pc'[p] # "out"
  BY <1>2
<1> HIDE DEF C, H
<1> QED BY <1>3, <1>4, <1>5, <1>6, <1>7, <1>8, TouchKeeps

LEMMA RefuseKeeps ==
  ASSUME IInv, NEW p \in Ranks, Refuse(p)
  PROVE  IInv'
<1>1. /\ pc[p] \in {"min", "ok"} /\ Met(p) /\ End(p, "refused")
      /\ IF pc[p] = "min" THEN Min(Values(p)) # arymax[p] ELSE Min(Values(p)) = 0
  BY DEF Refuse, Refuses
<1>2. Values(p) = ValuesAt(Turn(p)) /\ pc[p] \in Agreements
  BY <1>1 DEF Values, ValuesAt, Agreements
<1> QED BY <1>1, <1>2, EndKeeps

LEMMA DumpRaisesKeeps ==
  ASSUME IInv, NEW p \in Ranks, DumpRaises(p)
  PROVE  IInv'
BY EndKeeps DEF DumpRaises, Agreements

\* A process that is out of the collectives stays out of them.
LEMMA CountsRaiseKeeps ==
  ASSUME IInv, NEW p \in Ranks, CountsRaise(p)
  PROVE  IInv'
<1>0. TypeOK /\ pc[p] = "out" /\ End(p, "raised")
  BY DEF IInv, CountsRaise
<1>1. /\ log' = log /\ plan' = plan /\ calls' = calls /\ arylen' = arylen /\ arymax' = arymax
      /\ length' = length /\ longest' = longest /\ resize' = resize /\ got' = got
      /\ pc'[p] = "raised" /\ \A q \in Ranks \ {p} : pc'[q] = pc[q]
  BY <1>0 DEF End, args, TypeOK
<1>2. /\ \A q : Turn(q)' = Turn(q) /\ Here(q)' = Here(q)
      /\ \A n : ValuesAt(n)' = ValuesAt(n) /\ SameAt(n)' = SameAt(n)
      /\ \A c : FirstStep(c)' = FirstStep(c) /\ \A q : WantedIn(q, c)' = WantedIn(q, c)
      /\ \A q, e : EntryOk(q, e)' = EntryOk(q, e)
      /\ \A e, f : Follows(e, f)' = Follows(e, f)
      /\ \A e, f, n : Found(e, f, n)' = Found(e, f, n)
  BY <1>1 DEF Turn, Here, ValuesAt, SameAt, Alike, FirstStep, WantedIn, EntryOk, Follows, Found
<1>3. \A q \in Ranks : \A n : Passed(q, n)' => Passed(q, n)
  BY <1>1, <1>2 DEF Passed
<1>4. TypeOK' /\ Calm' = Calm /\ (Result => Result')
  <2>1. pc' \in [Ranks -> {"out", "max", "min", "ok", "longest", "reduce", "refused", "raised"}]
    BY <1>0 DEF End, TypeOK
  <2>2. Calm' = Calm
    BY <1>1, <1>2 DEF Calm
  <2> QED BY <1>0, <1>1, <1>2, <2>1, <2>2, ResultKept DEF TypeOK
<1>5. \A q \in Ranks : Current(q)'
  <2>1. {"out", "raised", "refused"} \cap (Agreements \cup {"reduce"}) = {}
    BY DEF Agreements
  <2> QED BY <1>0, <1>1, <1>2, <2>1 DEF IInv, Current
<1>6. \A q \in Ranks : Idle(q)' /\ Held(q)' /\ InOrder(q)' /\ Later(q)'
  BY <1>1, <1>2 DEF IInv, Idle, Held, InOrder, Later
<1>7. \A q \in Ranks : Agreed(q)' /\ Founded(q)' /\ Gathered(q)'
  BY <1>1, <1>2, <1>3 DEF IInv, Agreed, Founded, Gathered
<1>8. \A q \in Ranks : Compares(q)'
  BY <1>1, <1>2 DEF IInv, Compares
<1>9. (Calm => \A q \in Ranks : Uncut(q)') /\ Behind' /\ InStep' /\ WholeResult'
  BY <1>1, <1>2, <1>4 DEF IInv, Uncut, Behind, InStep, WholeResult
<1> QED BY <1>4, <1>5, <1>6, <1>7, <1>8, <1>9 DEF IInv

LEMMA AcceptKeeps ==
  ASSUME IInv, NEW p \in Ranks, Accept(p)
  PROVE  IInv'
<1> DEFINE e == Agree(calls[p], "longest", length[p])
<1>0. TypeOK /\ pc[p] \in {"min", "ok"} /\ Met(p) /\ ~Refuses(p) /\ Join(p, e) /\ Compares(p)
  BY DEF IInv, Accept
<1>1. /\ Turn(p) \in Nat \ {0} /\ Here(p) \in Entry /\ Here(p).step = pc[p]
      /\ Here(p).call = calls[p] /\ calls[p] \in 1 .. MaxCalls /\ resize[p] = 0
  BY <1>0, InCollective DEF Agreements
<1>2. e \in Entry /\ e.step = "longest" /\ e.call = calls[p] /\ e.own = {} /\ e.val = length[p]
      /\ length[p] \in Int
  <2>1. length[p] \in Int /\ calls[p] \in Nat /\ "longest" \in Agreements
    BY <1>0, <1>1 DEF TypeOK, Agreements
  <2> QED BY <2>1, AgreeEntry
<1>3. CanJoin(p, e)
  <2> HIDE DEF e
  <2>1. EntryOk(p, e)
    BY <1>1, <1>2 DEF EntryOk
  <2>2. Follows(Here(p), e)
    BY <1>0, <1>1, <1>2 DEF Follows
  <2>3. Found(Here(p), e, Turn(p) + 1)
    <3> SUFFICES ASSUME NEW t \in Nat \ {0}, t = Turn(p) PROVE Found(Here(p), e, t + 1)
      BY <1>1
    <3>1. t + 1 - 1 = t /\ t + 1 - 2 = t - 1 /\ Values(p) = ValuesAt(t)
      BY DEF Values, ValuesAt
    <3>2. Here(p).step = "min" => Min(ValuesAt(t)) = Max(ValuesAt(t - 1))
      BY <1>0, <1>1, <3>1 DEF Refuses, Compares
    <3>3. Here(p).step = "ok" => Min(ValuesAt(t)) # 0
      BY <1>0, <1>1, <3>1 DEF Refuses
    <3> QED BY <1>0, <1>1, <3>1, <3>2, <3>3 DEF Found
  <2> QED BY <1>0, <1>1, <1>2, <2>1, <2>2, <2>3, MetAll DEF CanJoin
<1>5. plan' = plan /\ calls' = calls /\ resize' = resize /\ got' = got /\ arylen' = arylen
      /\ length' = length /\ longest' = longest /\ arymax' = arymax
  BY <1>0 DEF Accept, args, TypeOK
<1>6. TypeOK'
  <2>2. /\ calls \in [Ranks -> 0 .. MaxCalls] /\ arylen \in [Ranks -> ArrayLens \cup {-1}]
        /\ arymax \in [Ranks -> ArrayLens \cup {-1}]
        /\ length \in [Ranks -> Int] /\ longest \in [Ranks -> Int] /\ resize \in [Ranks -> Nat]
        /\ got \in [Ranks -> SUBSET SUBSET Ranks]
    BY <1>0 DEF TypeOK
  <2> HIDE DEF e
  <2> QED BY <1>0, <1>1, <1>2, <1>5, <2>2, JoinTypes
<1> HIDE DEF e
<1> QED BY <1>0, <1>1, <1>2, <1>3, <1>5, <1>6, JoinKeeps, ResultKept

\* The first entry of a process for a reduction.
LEMMA ReducingEntry ==
  ASSUME NEW p \in Ranks, NEW size \in Int, calls[p] \in Nat
  PROVE  /\ Reducing(p, size) \in Entry
         /\ Reducing(p, size).step = "reduce" /\ Reducing(p, size).call = calls[p]
         /\ Reducing(p, size).val = size /\ Reducing(p, size).covers = {p}
         /\ Reducing(p, size).own \in {{}, {p}} /\ Reducing(p, size).has \in {{}, {p}}
<1>1. Sent(p) \in {{}, {p}}
  BY DEF Sent
<1> QED BY <1>1 DEF Reducing, Entry

LEMMA LongestDoneKeeps ==
  ASSUME IInv, NEW p \in Ranks, LongestDone(p)
  PROVE  IInv'
<1>0. TypeOK /\ pc[p] = "longest" /\ Met(p)
  BY DEF IInv, LongestDone
<1>1. /\ Turn(p) \in Nat \ {0} /\ Here(p) \in Entry /\ Here(p).step = "longest"
      /\ Here(p).call = calls[p] /\ calls[p] \in 1 .. MaxCalls /\ resize[p] = 0
  BY <1>0, InCollective DEF Agreements
<1>2. CASE Count(Longest(p)) < 0 \/ Count(length[p]) < 0
  <2>1. End(p, "raised") /\ pc[p] \in Agreements
    BY <1>0, <1>2 DEF LongestDone, Agreements
  <2> QED BY <2>1, EndKeeps
<1>3. CASE ~(Count(Longest(p)) < 0 \/ Count(length[p]) < 0)
  <2> DEFINE size == Count(Longest(p))
             e == Reducing(p, size)
  <2>1. Longest(p) \in Int /\ size \in Int
    <3>1. PICK q \in Ranks : Turn(p) \in 1 .. Turn(q) /\ log[q][Turn(p)].step = "longest"
                             /\ Max(Values(p)) = log[q][Turn(p)].val
      BY <1>0, <1>1, MaxValue
    <3>2. EntryOk(q, log[q][Turn(p)])
      BY <3>1 DEF IInv, Held
    <3>3. Longest(p) \in Int
      BY <3>1, <3>2 DEF EntryOk, Longest
    <3> QED BY <3>3, IntsOk DEF Count
  <2>2. /\ Join(p, e) /\ longest' = [longest EXCEPT ![p] = Longest(p)]
        /\ plan' = plan /\ calls' = calls /\ resize' = resize /\ got' = got
        /\ arylen' = arylen /\ length' = length /\ arymax' = arymax
    BY <1>3 DEF LongestDone, args
  <2>3. /\ e \in Entry /\ e.step = "reduce" /\ e.call = calls[p] /\ e.val = size
        /\ e.covers = {p} /\ e.own \in {{}, {p}} /\ e.has \in {{}, {p}}
    <3>1. calls[p] \in Nat
      BY <1>1
    <3> HIDE DEF size
    <3> QED BY <2>1, <3>1, ReducingEntry
  <2>4. CanJoin(p, e)
    <3>1. size = Count(Max(ValuesAt(Turn(p))))
      BY DEF Longest, Values, ValuesAt
    <3> HIDE DEF e, size
    <3>2. EntryOk(p, e)
      <4>1. p \in 0 .. p
        BY ReductionOk DEF Ranks
      <4> QED BY <1>1, <2>3, <4>1 DEF EntryOk
    <3>3. Follows(Here(p), e)
      BY <1>1, <2>3 DEF Follows
    <3>4. Found(Here(p), e, Turn(p) + 1)
      <4> SUFFICES ASSUME NEW t \in Nat \ {0}, t = Turn(p) PROVE Found(Here(p), e, t + 1)
        BY <1>1
      <4>1. t + 1 - 1 = t
        OBVIOUS
      <4> QED BY <1>1, <2>3, <3>1, <4>1 DEF Found
    <3> QED BY <1>0, <1>1, <2>3, <3>2, <3>3, <3>4, MetAll DEF CanJoin
  <2>5. TypeOK'
    <3>1. longest' \in [Ranks -> Int]
      BY <1>0, <2>1, <2>2 DEF TypeOK
    <3>2. /\ calls \in [Ranks -> 0 .. MaxCalls] /\ arylen \in [Ranks -> ArrayLens \cup {-1}]
          /\ arymax \in [Ranks -> ArrayLens \cup {-1}]
          /\ length \in [Ranks -> Int] /\ resize \in [Ranks -> Nat]
          /\ got \in [Ranks -> SUBSET SUBSET Ranks]
      BY <1>0 DEF TypeOK
    <3> HIDE DEF e
    <3> QED BY <1>0, <1>1, <2>2, <2>3, <3>1, <3>2, JoinTypes
  <2> HIDE DEF e, size
  <2> QED BY <1>0, <1>1, <2>2, <2>3, <2>4, <2>5, JoinKeeps, ResultKept
<1> QED BY <1>2, <1>3

-----------------------------------------------------------------------------
(* The reduction.                                                           *)

\* What MPI puts together at p is a change of two fields of its last entry.
LEMMA PutFrame ==
  ASSUME TypeOK, NEW p \in Ranks, Turn(p) \in Nat \ {0},
         NEW C \in SUBSET Ranks, NEW H \in SUBSET Ranks,
         log' = [log EXCEPT ![p] = [log[p] EXCEPT ![Turn(p)] =
                   [log[p][Turn(p)] EXCEPT !.covers = C, !.has = H]]],
         pc' = pc, plan' = plan, calls' = calls, arymax' = arymax
  PROVE  Touched(p, C, H) /\ log' \in [Ranks -> Seq(Entry)]
<1> DEFINE t == Turn(p)
           s == log[p]
           f == [s[t] EXCEPT !.covers = C, !.has = H]
<1>1. s \in Seq(Entry) /\ t = Len(s) /\ t \in 1 .. Len(s) /\ s[t] \in Entry
  BY LogTypes DEF Turn
<1>2. /\ f.step = s[t].step /\ f.call = s[t].call /\ f.val = s[t].val /\ f.own = s[t].own
      /\ f.covers = C /\ f.has = H /\ f \in Entry
  <2>1. \A d \in Entry :
          LET g == [d EXCEPT !.covers = C, !.has = H] IN
            /\ g.step = d.step /\ g.call = d.call /\ g.val = d.val /\ g.own = d.own
            /\ g.covers = C /\ g.has = H /\ g \in Entry
    BY DEF Entry
  <2> HIDE DEF s, t
  <2> QED BY <1>1, <2>1
<1>3. log'[p] = [s EXCEPT ![t] = f] /\ \A q \in Ranks \ {p} : log'[q] = log[q]
  BY DEF TypeOK
<1>4. /\ Len([s EXCEPT ![t] = f]) = Len(s) /\ [s EXCEPT ![t] = f] \in Seq(Entry)
      /\ \A n \in 1 .. Len(s) : [s EXCEPT ![t] = f][n] = IF n = t THEN f ELSE s[n]
  <2> HIDE DEF s, t, f
  <2> QED BY <1>1, <1>2
<1>5. \A q \in Ranks : Turn(q)' = Turn(q)
  BY <1>3, <1>4 DEF Turn
<1>6. \A n \in 1 .. Turn(p) : log'[p][n] = IF n = t THEN f ELSE s[n]
  BY <1>3, <1>4 DEF Turn
<1>7. log' \in [Ranks -> Seq(Entry)]
  <2>1. [s EXCEPT ![t] = f] \in Seq(Entry)
    BY <1>4
  <2>2. log' = [log EXCEPT ![p] = [s EXCEPT ![t] = f]]
    OBVIOUS
  <2> HIDE DEF s, t, f
  <2> QED BY <2>1, <2>2 DEF TypeOK
<1>8. log'[p][t] = f
  BY <1>1, <1>6 DEF Turn
<1>9. \A q \in Ranks : \A n \in 1 .. Turn(q) :
        \/ log'[q][n] = log[q][n]
        \/ q = p /\ n = Turn(p)
  BY <1>3, <1>6
<1>10. \A q \in Ranks : \A n \in 1 .. Turn(q) :
       /\ log'[q][n].step = log[q][n].step /\ log'[q][n].call = log[q][n].call
       /\ log'[q][n].val = log[q][n].val /\ log'[q][n].own = log[q][n].own
  BY <1>2, <1>8, <1>9
<1>11. Skeleton
  BY <1>5, <1>10 DEF Skeleton
<1>12. log'[p][Turn(p)].covers = C /\ log'[p][Turn(p)].has = H
  BY <1>2, <1>8
<1> HIDE DEF s, t, f
<1> QED BY <1>1, <1>7, <1>9, <1>11, <1>12 DEF Touched, t

\* What MPI puts together at p leaves the invariant true.
LEMMA PutKeeps ==
  ASSUME IInv, NEW p \in Ranks, pc[p] = "reduce",
         NEW C \in SUBSET Ranks, NEW H \in SUBSET Ranks,
         log' = [log EXCEPT ![p] = [log[p] EXCEPT ![Turn(p)] =
                   [log[p][Turn(p)] EXCEPT !.covers = C, !.has = H]]],
         pc' = pc, plan' = plan, calls' = calls, arymax' = arymax, arylen' = arylen,
         length' = length, longest' = longest, got' = got,
         resize' \in [Ranks -> Nat], \A q \in Ranks \ {p} : resize'[q] = resize[q],
         resize'[p] = resize[p] \/ (resize'[p] > Here(p).val /\ resize'[p] # 0),
         \A r \in C : Turn(p) <= Turn(r) /\ Alike(log[r][Turn(p)], Here(p)),
         Kind(p) = "scan" => C \subseteq 0 .. p,
         Calm /\ Calm' => H \in {{}, C}
  PROVE  IInv'
<1>0. TypeOK
  BY DEF IInv
<1>1. Turn(p) \in Nat \ {0} /\ Here(p).step = "reduce" /\ Here(p).call = calls[p]
  BY InCollective
<1>2. Touched(p, C, H) /\ log' \in [Ranks -> Seq(Entry)]
  BY <1>0, <1>1, PutFrame
<1>3. \A q \in Ranks \ {p} : log'[q] = log[q]
  BY <1>0 DEF TypeOK
<1>4. \A q \in Ranks \ {p} : Here(q)' = Here(q)
  BY <1>3 DEF Here, Turn
<1>5. Here(p)'.step = "reduce" /\ Here(p)'.val = Here(p).val
  BY <1>1, <1>2 DEF Touched, Skeleton, Here
<1>6. TypeOK'
  <2>1. \A q \in Ranks : resize'[q] > 0 => Here(q)'.step = "reduce" /\ resize'[q] > Here(q)'.val
    <3>1. \A q \in Ranks : resize[q] > 0 => Here(q).step = "reduce" /\ resize[q] > Here(q).val
      BY <1>0 DEF TypeOK
    <3>2. resize'[p] > 0 => resize'[p] > Here(p).val
      BY <3>1
    <3>3. \A q \in Ranks \ {p} :
            resize'[q] > 0 => Here(q)'.step = "reduce" /\ resize'[q] > Here(q)'.val
      BY <1>4, <3>1
    <3> QED BY <1>5, <3>2, <3>3
  <2> QED BY <1>0, <1>2, <2>1 DEF TypeOK
<1>7. Calm' => Calm
  BY <1>0, <1>2, SkeletonCalm DEF Touched
<1>8. CanTouch(p, C, H)
  BY <1>1, <1>7 DEF CanTouch, Kind
<1>9. pc'[p] # "out" /\ pc[p] \notin {"out", "refused"}
  OBVIOUS
<1> QED BY <1>2, <1>6, <1>8, <1>9, TouchKeeps, ResultKept

\* What a process has put together is a set of ranks that MPI has brought it.
LEMMA EntryHas ==
  ASSUME IInv, NEW q \in Ranks, NEW n \in 1 .. Turn(q)
  PROVE  /\ log[q][n] \in Entry /\ EntryOk(q, log[q][n])
         /\ log[q][n].own \in {{}, {q}}
         /\ Calm /\ log[q][n].step = "reduce" => log[q][n].has \in {{}, log[q][n].covers}
<1>1. log[q][n] \in Entry /\ EntryOk(q, log[q][n])
  BY LogTypes DEF IInv, Held
<1>2. log[q][n].own \in {{}, {q}}
  BY <1>1 DEF EntryOk
<1> QED BY <1>1, <1>2 DEF IInv, Uncut

LEMMA FoldKeeps ==
  ASSUME IInv, NEW p \in Ranks, NEW q \in Ranks, Fold(p, q)
  PROVE  IInv'
<1> DEFINE e == Here(p)
           f == log[q][Turn(p)]
<1>0. TypeOK /\ pc[p] = "reduce" /\ Alike(e, f)
  BY DEF IInv, Fold
<1>1. /\ Turn(p) \in Nat \ {0} /\ e \in Entry /\ e.step = "reduce" /\ e.call = calls[p]
      /\ Turn(p) \in 1 .. Turn(p) /\ Turn(p) \in 1 .. Turn(q) /\ f.step = "reduce"
  BY <1>0, InCollective, LogTypes DEF Fold, Alike
<1>2. PICK g \in {[covers |-> {q}, has |-> f.own], [covers |-> f.covers, has |-> f.has]} :
          /\ g.covers \cap e.covers = {}
          /\ Kind(p) = "scan" => g.covers \subseteq Wanted(p)
          /\ IF g.has = {} \/ e.has = {} THEN End(p, "raised")
             ELSE LET r == Operate(p, g.has, e.has) IN
                  /\ log' = [log EXCEPT ![p][Turn(p)].covers = @ \cup g.covers,
                                        ![p][Turn(p)].has = r.has]
                  /\ resize' = [resize EXCEPT ![p] = r.resize]
                  /\ UNCHANGED <<args, pc, arymax, longest, got>>
  BY DEF Fold
<1>3. CASE g.has = {} \/ e.has = {}
  BY <1>0, <1>2, <1>3, EndKeeps
<1>4. CASE g.has # {} /\ e.has # {}
  <2> DEFINE r == Operate(p, g.has, e.has)
             C == e.covers \cup g.covers
             H == r.has
  <2>1. /\ g.covers \in SUBSET Ranks /\ g.has \in SUBSET Ranks
        /\ Calm => g.has \in {{}, g.covers}
        /\ \A s \in g.covers : Turn(p) <= Turn(s) /\ Alike(log[s][Turn(p)], f)
    <3>1. /\ f \in Entry /\ f.own \in {{}, {q}}
          /\ Calm => f.has \in {{}, f.covers}
      BY <1>1, EntryHas
    <3>2. \A s \in f.covers : Turn(p) <= Turn(s) /\ Alike(log[s][Turn(p)], f)
      BY <1>1 DEF IInv, Gathered
    <3>3. Turn(p) <= Turn(q) /\ Alike(log[q][Turn(p)], f)
      BY <1>1 DEF Alike
    <3>4. CASE g = [covers |-> {q}, has |-> f.own]
      <4>1. g.covers = {q} /\ g.has = f.own
        BY <3>4
      <4> QED BY <3>1, <3>3, <4>1
    <3>5. CASE g = [covers |-> f.covers, has |-> f.has]
      <4>1. g.covers = f.covers /\ g.has = f.has
        BY <3>5
      <4>2. f.covers \in SUBSET Ranks /\ f.has \in SUBSET Ranks
        BY <3>1, EntryFields
      <4> QED BY <3>1, <3>2, <4>1, <4>2
    <3> QED BY <3>4, <3>5
  <2>2. /\ e.covers \in SUBSET Ranks /\ e.has \in SUBSET Ranks /\ e.val \in Int
        /\ Calm => e.has \in {{}, e.covers}
        /\ \A s \in e.covers : Turn(p) <= Turn(s) /\ Alike(log[s][Turn(p)], e)
        /\ Kind(p) = "scan" => e.covers \subseteq 0 .. p
    <3>1. e = log[p][Turn(p)]
      BY DEF Here
    <3>2. e.covers \in SUBSET Ranks /\ e.has \in SUBSET Ranks /\ e.val \in Int
      BY <1>1, EntryFields
    <3>3. Calm => e.has \in {{}, e.covers}
      BY <1>1, <3>1, EntryHas
    <3>4. \A s \in e.covers : Turn(p) <= Turn(s) /\ Alike(log[s][Turn(p)], e)
      BY <1>1, <3>1 DEF IInv, Gathered
    <3>5. EntryOk(p, e)
      BY <1>1, <3>1, EntryHas
    <3> QED BY <1>1, <3>2, <3>3, <3>4, <3>5 DEF EntryOk, Kind
  <2>3. /\ H \in {e.has, g.has \cup e.has}
        /\ \/ r.resize = resize[p] /\ H = g.has \cup e.has
           \/ r.resize \in Nat /\ r.resize > e.val /\ r.resize # 0
    <3> DEFINE len == DumpLen[g.has \cup e.has]
    <3>1. g.has \cup e.has \in Objs
      BY <1>4, <2>1, <2>2, ReductionOk
    <3>2. len \in Nat \ {0}
      BY <3>1, DumpsOk
    <3>3. CASE len + 1 > e.val
      <4>1. r = [has |-> e.has, resize |-> len + 1]
        BY <3>3 DEF Operate, Resize
      <4>2. r.has = e.has /\ r.resize = len + 1
        BY <4>1
      <4> HIDE DEF r, len
      <4> QED BY <3>2, <3>3, <4>2
    <3>4. CASE ~(len + 1 > e.val)
      <4>1. r = [has |-> g.has \cup e.has, resize |-> resize[p]]
        BY <3>4 DEF Operate
      <4> QED BY <4>1
    <3> QED BY <3>3, <3>4
  <2>4. /\ log' = [log EXCEPT ![p] = [log[p] EXCEPT ![Turn(p)] =
                   [log[p][Turn(p)] EXCEPT !.covers = C, !.has = H]]]
    <3>1. log' = [log EXCEPT ![p][Turn(p)].covers = @ \cup g.covers, ![p][Turn(p)].has = H]
      BY <1>2, <1>4
    <3> HIDE DEF r, H
    <3> QED BY <3>1 DEF TypeOK, Here
  <2>5. /\ resize' = [resize EXCEPT ![p] = r.resize]
        /\ pc' = pc /\ plan' = plan /\ calls' = calls /\ arymax' = arymax /\ arylen' = arylen
        /\ length' = length /\ longest' = longest /\ got' = got
    BY <1>2, <1>4 DEF args
  <2>6. /\ resize' \in [Ranks -> Nat] /\ \A s \in Ranks \ {p} : resize'[s] = resize[s]
        /\ resize'[p] = r.resize
    <3>1. resize \in [Ranks -> Nat]
      BY <1>0 DEF TypeOK
    <3>2. r.resize \in Nat
      BY <2>3, <3>1
    <3> HIDE DEF r
    <3> QED BY <2>5, <3>1, <3>2
  <2>7. \A s \in C : Turn(p) <= Turn(s) /\ Alike(log[s][Turn(p)], e)
    BY <1>0, <1>1, <2>1, <2>2 DEF Alike
  <2>8. Kind(p) = "scan" => C \subseteq 0 .. p
    BY <1>2, <2>2 DEF Wanted
  <2>9. Calm /\ Calm' => H \in {{}, C}
    <3>1. Calm' => resize'[p] = 0
      BY DEF Calm
    <3>2. Calm' => H = g.has \cup e.has
      BY <2>3, <2>6, <3>1
    <3>3. Calm => g.has = g.covers /\ e.has = e.covers
      BY <1>4, <2>1, <2>2
    <3> QED BY <3>2, <3>3
  <2>10. C \in SUBSET Ranks /\ H \in SUBSET Ranks
    BY <2>1, <2>2, <2>3
  <2>11. resize'[p] = resize[p] \/ (resize'[p] > Here(p).val /\ resize'[p] # 0)
    BY <2>3, <2>6
  <2> HIDE DEF C, H, r, f
  <2> QED BY <1>0, <2>4, <2>5, <2>6, <2>7, <2>8, <2>9, <2>10, <2>11, PutKeeps
<1> QED BY <1>3, <1>4

LEMMA SpreadKeeps ==
  ASSUME IInv, NEW p \in Ranks, NEW q \in Ranks, Spread(p, q)
  PROVE  IInv'
<1> DEFINE f == log[q][Turn(p)]
           H == f.has
<1>0. /\ TypeOK /\ pc[p] = "reduce" /\ Alike(Here(p), f) /\ Kind(p) = "allreduce"
      /\ f.covers = Ranks
  BY DEF IInv, Spread
<1>1. /\ Turn(p) \in Nat \ {0} /\ Here(p).step = "reduce"
      /\ Turn(p) \in 1 .. Turn(q) /\ f.step = "reduce"
  BY <1>0, InCollective, LogTypes DEF Spread, Alike
<1>2. f \in Entry /\ (Calm => H \in {{}, Ranks})
  BY <1>0, <1>1, EntryHas
<1>3. H \in SUBSET Ranks
  BY <1>2, EntryFields
<1>4. \A r \in Ranks : Turn(p) <= Turn(r) /\ Alike(log[r][Turn(p)], Here(p))
  <2>1. \A r \in f.covers : Turn(p) <= Turn(r) /\ Alike(log[r][Turn(p)], f)
    BY <1>1 DEF IInv, Gathered
  <2> QED BY <1>0, <2>1 DEF Alike
<1>5. log' = [log EXCEPT ![p] = [log[p] EXCEPT ![Turn(p)] =
                [log[p][Turn(p)] EXCEPT !.covers = Ranks, !.has = H]]]
  <2>1. log' = [log EXCEPT ![p][Turn(p)].covers = Ranks, ![p][Turn(p)].has = H]
    BY DEF Spread
  <2> HIDE DEF H, f
  <2> QED BY <2>1 DEF TypeOK
<1>6. /\ pc' = pc /\ plan' = plan /\ calls' = calls /\ arymax' = arymax /\ arylen' = arylen
      /\ length' = length /\ longest' = longest /\ got' = got /\ resize' = resize
  BY DEF Spread, args
<1>7. resize' \in [Ranks -> Nat] /\ Ranks \in SUBSET Ranks /\ Kind(p) # "scan"
  BY <1>0, <1>6 DEF TypeOK
<1> HIDE DEF H, f
<1> QED BY <1>0, <1>2, <1>3, <1>4, <1>5, <1>6, <1>7, PutKeeps

LEMMA RepeatKeeps ==
  ASSUME IInv, NEW p \in Ranks, Repeat(p)
  PROVE  IInv'
<1> DEFINE e == Reducing(p, resize[p])
<1>0. /\ TypeOK /\ pc[p] = "reduce" /\ Wanted(p) \subseteq Here(p).covers
      /\ resize[p] \in Nat /\ Join(p, e)
  BY DEF IInv, TypeOK, Repeat, Reduced
<1>1. /\ Turn(p) \in Nat \ {0} /\ Here(p).step = "reduce" /\ Here(p).call = calls[p]
      /\ calls[p] \in 1 .. MaxCalls
  BY <1>0, InCollective
<1>2. /\ e \in Entry /\ e.step = "reduce" /\ e.call = calls[p]
      /\ e.covers = {p} /\ e.own \in {{}, {p}} /\ e.has \in {{}, {p}}
  <2>1. calls[p] \in Nat /\ resize[p] \in Int
    BY <1>0, <1>1
  <2> QED BY <2>1, ReducingEntry
<1>3. CanJoin(p, e)
  <2> HIDE DEF e
  <2>1. EntryOk(p, e)
    <3>1. p \in 0 .. p
      BY ReductionOk DEF Ranks
    <3> QED BY <1>1, <1>2, <3>1 DEF EntryOk
  <2>2. Follows(Here(p), e) /\ Found(Here(p), e, Turn(p) + 1)
    BY <1>1, <1>2 DEF Follows, Found
  <2>3. WantedIn(p, Here(p).call) \subseteq Here(p).covers
    BY <1>0, <1>1, WantedIs
  <2>4. "reduce" \notin Agreements
    BY DEF Agreements
  <2> QED BY <1>1, <1>2, <2>1, <2>2, <2>3, <2>4 DEF CanJoin
<1>4. /\ plan' = plan /\ calls' = calls /\ got' = got /\ arylen' = arylen
      /\ length' = length /\ longest' = longest /\ arymax' = arymax
  BY DEF Repeat, args
<1>5. /\ resize' \in [Ranks -> Nat] /\ resize'[p] = 0
      /\ \A q \in Ranks \ {p} : resize'[q] = resize[q]
  BY <1>0 DEF TypeOK, Repeat
<1>6. TypeOK'
  <2>1. /\ calls \in [Ranks -> 0 .. MaxCalls] /\ arylen \in [Ranks -> ArrayLens \cup {-1}]
        /\ arymax \in [Ranks -> ArrayLens \cup {-1}]
        /\ length \in [Ranks -> Int] /\ longest \in [Ranks -> Int]
        /\ got \in [Ranks -> SUBSET SUBSET Ranks]
    BY <1>0 DEF TypeOK
  <2> HIDE DEF e
  <2> QED BY <1>0, <1>2, <1>4, <1>5, <2>1, JoinTypes
<1> HIDE DEF e
<1> QED BY <1>0, <1>1, <1>2, <1>3, <1>4, <1>5, <1>6, JoinKeeps, ResultKept

LEMMA ReturnKeeps ==
  ASSUME IInv, NEW p \in Ranks, Return(p)
  PROVE  IInv'
<1> DEFINE C == Here(p).covers
           H == Here(p).has
           out == IF Wanted(p) = {} THEN {} ELSE H
<1>0. /\ TypeOK /\ pc[p] = "reduce" /\ Wanted(p) \subseteq C /\ resize[p] = 0
  BY DEF IInv, Return, Reduced
<1>1. /\ Turn(p) \in Nat \ {0} /\ Here(p) \in Entry /\ Here(p).step = "reduce"
      /\ Here(p).call = calls[p] /\ EntryOk(p, Here(p)) /\ Turn(p) \in 1 .. Turn(p)
  BY <1>0, InCollective
<1>2. CASE Wanted(p) # {} /\ (H = {} \/ DumpLen[H] > Count(longest[p]))
  BY <1>0, <1>2, EndKeeps DEF Return
<1>3. CASE ~(Wanted(p) # {} /\ (H = {} \/ DumpLen[H] > Count(longest[p])))
  <2>1. /\ got' = [got EXCEPT ![p] = {out}] /\ pc' = [pc EXCEPT ![p] = "out"]
        /\ log' = log /\ plan' = plan /\ calls' = calls /\ arylen' = arylen /\ arymax' = arymax
        /\ length' = length /\ longest' = longest /\ resize' = resize
    BY <1>3 DEF Return, args
  <2>2. C \in SUBSET Ranks /\ H \in SUBSET Ranks
    BY <1>1, EntryFields
  <2>3. Touched(p, C, H)
    <3>1. \A q \in Ranks : Turn(q)' = Turn(q)
      BY <2>1 DEF Turn
    <3>2. \A q \in Ranks \ {p} : pc'[q] = pc[q]
      BY <1>0, <2>1 DEF TypeOK
    <3> QED BY <1>1, <2>1, <3>1, <3>2 DEF Touched, Skeleton, Here
  <2>4. Calm' => Calm
    BY <2>1 DEF Calm, Turn
  <2>5. Calm => H \in {{}, C}
    BY <1>1, EntryHas DEF Here
  <2>6. CanTouch(p, C, H)
    <3>1. pc'[p] = "out"
      BY <1>0, <2>1 DEF TypeOK
    <3>2. WantedIn(p, Here(p).call) \subseteq C
      BY <1>0, <1>1, WantedIs
    <3>3. \A r \in C : Turn(p) <= Turn(r) /\ Alike(log[r][Turn(p)], Here(p))
      BY <1>1 DEF IInv, Gathered, Here
    <3>4. plan[Here(p).call][1] = "scan" => C \subseteq 0 .. p
      BY <1>1 DEF EntryOk
    <3> HIDE DEF C, H
    <3> QED BY <1>1, <2>2, <2>4, <2>5, <3>1, <3>2, <3>3, <3>4 DEF CanTouch
  <2>7. TypeOK'
    <3>1. pc' \in [Ranks -> {"out", "max", "min", "ok", "longest", "reduce", "refused", "raised"}]
      BY <1>0, <2>1 DEF TypeOK
    <3>2. \A q \in Ranks : Here(q)' = Here(q)
      BY <2>1 DEF Here, Turn
    <3>3. got' \in [Ranks -> SUBSET SUBSET Ranks]
      <4>1. {out} \in SUBSET SUBSET Ranks
        BY <2>2
      <4> HIDE DEF out
      <4> QED BY <1>0, <2>1, <4>1 DEF TypeOK
    <3> QED BY <1>0, <2>1, <3>1, <3>2, <3>3 DEF TypeOK
  <2>8. Calm => out = Wanted(p)
    <3> SUFFICES ASSUME Calm, Wanted(p) # {} PROVE H = Wanted(p)
      OBVIOUS
    <3>1. H = C
      BY <1>3, <2>5
    <3>2. CASE Kind(p) = "scan"
      <4>1. Wanted(p) = 0 .. p
        BY <3>2 DEF Wanted
      <4>2. C \subseteq 0 .. p
        BY <1>1, <3>2 DEF EntryOk, Kind
      <4> QED BY <1>0, <3>1, <4>1, <4>2
    <3>3. CASE Kind(p) # "scan"
      <4>1. Wanted(p) = Ranks
        <5>1. Wanted(p) \in {{}, Ranks}
          BY <3>3 DEF Wanted
        <5> QED BY <5>1
      <4> QED BY <1>0, <2>2, <3>1, <4>1
    <3> QED BY <3>2, <3>3
  <2>9. Calm' /\ Result => Result'
    <3> SUFFICES ASSUME Calm', Result PROVE Result'
      OBVIOUS
    <3>1. \A q \in Ranks : Wanted(q)' = Wanted(q)
      BY <2>1 DEF Wanted, Kind, Root
    <3>2. got'[p] = {out} /\ \A q \in Ranks \ {p} : got'[q] = got[q]
      <4> HIDE DEF out
      <4> QED BY <1>0, <2>1 DEF TypeOK
    <3>3. out = Wanted(p)
      BY <2>4, <2>8
    <3> HIDE DEF out
    <3> QED BY <3>1, <3>2, <3>3 DEF Result
  <2> HIDE DEF C, H, out
  <2> QED BY <1>0, <2>1, <2>3, <2>6, <2>7, <2>9, TouchKeeps
<1> QED BY <1>2, <1>3

-----------------------------------------------------------------------------
(* The invariant.                                                           *)

LEMMA InitIInv == Init => IInv
<1> SUFFICES ASSUME Init PROVE IInv
  OBVIOUS
<1>1. \A p \in Ranks : /\ Turn(p) = 0 /\ pc[p] = "out" /\ calls[p] = 0
                       /\ resize[p] = 0 /\ got[p] = {}
  BY DEF Init, Turn
<1>2. TypeOK
  <2>1. <<>> \in Seq(Entry)
    OBVIOUS
  <2>2. log \in [Ranks -> Seq(Entry)]
    BY <2>1 DEF Init
  <2>3. calls \in [Ranks -> 0 .. MaxCalls]
    BY ReductionOk DEF Init
  <2>4. \A p \in Ranks : ~(resize[p] > 0)
    BY <1>1
  <2> QED BY <2>2, <2>3, <2>4 DEF Init, TypeOK
<1>3. \A p \in Ranks : Current(p) /\ Idle(p) /\ Held(p) /\ InOrder(p) /\ Later(p)
  BY <1>1 DEF Current, Idle, Held, InOrder, Later
<1>4. \A p \in Ranks : Agreed(p) /\ Founded(p) /\ Compares(p) /\ Gathered(p) /\ Uncut(p)
  BY <1>1 DEF Agreed, Founded, Compares, Gathered, Uncut
<1>5. Behind /\ WholeResult
  BY <1>1 DEF Behind, WholeResult, Result
<1>6. InStep
  <2>1. \A p, q \in Ranks : 1 .. Min({Turn(p), Turn(q)}) = {}
    <3> SUFFICES ASSUME NEW p \in Ranks, NEW q \in Ranks PROVE 1 .. Min({Turn(p), Turn(q)}) = {}
      OBVIOUS
    <3>1. \A n \in 1 .. Min({0, 0}) : n \in Nat \ {0} /\ n <= 0
      BY MinOfTwo
    <3> QED BY <1>1, <3>1
  <2> QED BY <2>1 DEF InStep
<1> QED BY <1>2, <1>3, <1>4, <1>5, <1>6 DEF IInv

LEMMA StutterKeeps ==
  ASSUME IInv, UNCHANGED vars
  PROVE  IInv'
<1>1. UNCHANGED <<plan, calls, pc, arylen, arymax, length, longest, resize, log, got>>
  BY DEF vars
<1>2. /\ \A p : Turn(p)' = Turn(p) /\ Here(p)' = Here(p) /\ \A n : Passed(p, n)' = Passed(p, n)
      /\ \A n : ValuesAt(n)' = ValuesAt(n) /\ SameAt(n)' = SameAt(n)
      /\ \A c : FirstStep(c)' = FirstStep(c) /\ \A p : WantedIn(p, c)' = WantedIn(p, c)
      /\ \A p : Wanted(p)' = Wanted(p) /\ \A e : EntryOk(p, e)' = EntryOk(p, e)
      /\ \A e, f : Follows(e, f)' = Follows(e, f)
      /\ \A e, f, n : Found(e, f, n)' = Found(e, f, n)
  BY <1>1 DEF Turn, Here, Passed, ValuesAt, SameAt, Alike, FirstStep, WantedIn, Wanted, Kind, Root,
              EntryOk, Follows, Found
<1>3. TypeOK' /\ Calm' = Calm /\ Result' = Result
  BY <1>1, <1>2 DEF IInv, TypeOK, Calm, Result
<1>4. \A p \in Ranks : Current(p)' /\ Idle(p)' /\ Held(p)' /\ InOrder(p)' /\ Later(p)'
  BY <1>1, <1>2 DEF IInv, Current, Idle, Held, InOrder, Later
<1>5. \A p \in Ranks : Agreed(p)' /\ Founded(p)' /\ Compares(p)' /\ Gathered(p)'
  BY <1>1, <1>2 DEF IInv, Agreed, Founded, Compares, Gathered
<1>6. \A p \in Ranks : Uncut(p)' = Uncut(p)
  BY <1>1, <1>2 DEF Uncut
<1>7. Behind' /\ InStep' /\ WholeResult'
  BY <1>1, <1>2, <1>3 DEF IInv, Behind, InStep, WholeResult
<1> QED BY <1>3, <1>4, <1>5, <1>6, <1>7 DEF IInv

LEMMA NextIInv == IInv /\ [Next]_vars => IInv'
<1> SUFFICES ASSUME IInv, [Next]_vars PROVE IInv'
  OBVIOUS
<1>1. CASE UNCHANGED vars
  BY <1>1, StutterKeeps
<1>2. ASSUME NEW p \in Ranks, Step(p) PROVE IInv'
  <2>1. CASE Reduce(p) \/ Allreduce(p) \/ Scan(p) \/ ReduceScatter(p)
    BY <2>1, MethodsKeep
  <2>2. CASE MaxDone(p)
    BY <2>2, MaxDoneKeeps
  <2>3. CASE Refuse(p)
    BY <2>3, RefuseKeeps
  <2>4. CASE Accept(p)
    BY <2>4, AcceptKeeps
  <2>5. CASE DumpRaises(p)
    BY <2>5, DumpRaisesKeeps
  <2>6. CASE LongestDone(p)
    BY <2>6, LongestDoneKeeps
  <2>7. CASE \E q \in Ranks \ {p} : Fold(p, q) \/ Spread(p, q)
    BY <2>7, FoldKeeps, SpreadKeeps
  <2>8. CASE Repeat(p)
    BY <2>8, RepeatKeeps
  <2>9. CASE Return(p)
    BY <2>9, ReturnKeeps
  <2>10. CASE CountsRaise(p)
    BY <2>10, CountsRaiseKeeps
  <2> QED BY <1>2, <2>1, <2>2, <2>3, <2>4, <2>5, <2>6, <2>7, <2>8, <2>9, <2>10 DEF Step
<1> QED BY <1>1, <1>2 DEF Next

\* What the collectives of all processes have in common, at every moment of
\* any reductions of any number of processes.
THEOREM SpecInv == Spec => []IInv
BY InitIInv, NextIInv, PTL DEF Spec

\* Until an operation outgrows the elements, the collectives that MPI matches
\* are the same step of the same reduction, with elements of one size.
THEOREM SpecInStep == Spec => []InStep
<1>1. IInv => InStep
  BY DEF IInv
<1> QED BY <1>1, SpecInv, PTL

\* Until then a method returns the contributions of exactly the processes it
\* should, however MPI brackets the reduction.
THEOREM SpecWholeResult == Spec => []WholeResult
<1>1. IInv => WholeResult
  BY DEF IInv
<1> QED BY <1>1, SpecInv, PTL

\* Where one process was refused, another is in the same collective of the
\* same reduction, or was.
LEMMA RefusedAt ==
  ASSUME IInv, NEW p \in Ranks, NEW q \in Ranks, pc[p] = "refused",
         NEW t \in Nat, t = Turn(p)
  PROVE  /\ t \in 1 .. Turn(q) /\ log[q][t].call = calls[p]
         /\ log[q][t].step = log[p][t].step /\ log[p][t].step \in {"min", "ok"}
         /\ \A r \in Ranks : t <= Turn(r)
<1>1. TypeOK /\ Behind /\ \A r \in Ranks : Current(r) /\ InOrder(r) /\ Agreed(r)
  BY DEF IInv
<1>2. t # 0 /\ log[p][t].step \in {"min", "ok"} /\ log[p][t].call = calls[p]
  BY <1>1 DEF Current, Here
<1>3. \A r \in Ranks : t \in 1 .. Turn(r) /\ log[r][t].step = log[p][t].step
  <2>1. t \in 1 .. Turn(p) /\ Passed(p, t) /\ log[p][t].step \in Agreements
    BY <1>2 DEF Passed, Agreements
  <2>2. \A r \in Ranks : t <= Turn(r) /\ log[r][t].step = log[p][t].step
    BY <1>1, <2>1 DEF Agreed
  <2> QED BY <1>1, <2>1, <2>2, LogTypes
<1>4. log[q][t].call = log[p][t].call
  <2>1. CASE t = 1
    <3>1. log[q][1].call = 1 /\ log[p][1].call = 1
      BY <1>1, <1>3, <2>1, LogTypes DEF InOrder
    <3> QED BY <2>1, <3>1
  <2>2. CASE t # 1
    <3>1. \A r \in Ranks : t \in 2 .. Turn(r) /\ t - 1 \in 1 .. Turn(r) /\ t - 1 < Turn(r)
      BY <1>1, <1>3, <2>2, LogTypes
    <3>2. SameAt(t - 1)
      BY <1>1, <3>1 DEF Behind
    <3>3. log[p][t - 1].call = log[q][t - 1].call /\ log[p][t - 1].step = log[q][t - 1].step
      BY <3>2 DEF SameAt, Alike
    <3>4. Follows(log[p][t - 1], log[p][t]) /\ Follows(log[q][t - 1], log[q][t])
      BY <1>1, <3>1 DEF InOrder
    <3> QED BY <1>2, <1>3, <3>3, <3>4 DEF Follows
  <2> QED BY <2>1, <2>2
<1> QED BY <1>2, <1>3, <1>4

\* Arrays that do not fit together are refused by every process or by none.
THEOREM SpecRefusedByAll == Spec => []RefusedByAll
<1>1. IInv => RefusedByAll
  <2> SUFFICES ASSUME IInv, NEW p \in Ranks, NEW q \in Ranks, pc[p] = "refused",
                      NEW n \in 1 .. Turn(q), log[q][n].call = calls[p],
                      log[q][n].step \notin {"max", "min", "ok"}
               PROVE  FALSE
    BY DEF RefusedByAll
  <2>0. TypeOK /\ Later(q) /\ Founded(q) /\ Compares(p) /\ InOrder(q)
    BY DEF IInv
  <2>1. PICK t \in Nat : t = Turn(p)
    BY <2>0, LogTypes
  <2>2. /\ t \in 1 .. Turn(q) /\ log[q][t].call = calls[p]
        /\ log[q][t].step = log[p][t].step /\ log[p][t].step \in {"min", "ok"}
        /\ \A r \in Ranks : t <= Turn(r)
    BY <2>1, RefusedAt
  <2>3. log[q][n].step \in {"longest", "reduce"} /\ Turn(q) \in Nat
    BY <2>0, LogTypes, EntryFields
  <2>4. CASE n < t
    <3>1. n \in 1 .. t - 1
      BY <2>2, <2>3, <2>4
    <3>2. Ahead(log[q][n], log[q][t])
      BY <2>0, <2>2, <3>1 DEF Later
    <3> QED BY <2>2, <2>3, <3>2 DEF Ahead
  <2>5. CASE n = t
    BY <2>2, <2>3, <2>5
  <2>6. CASE n > t
    <3>1. t + 1 \in 2 .. Turn(q) /\ (t + 1) - 1 = t /\ (t + 1) - 2 = t - 1
      BY <2>2, <2>3, <2>6
    <3>2. Found(log[q][t], log[q][t + 1], t + 1)
      BY <2>0, <3>1 DEF Founded
    <3>3. CASE log[p][t].step = "min"
      <4>1. Min(ValuesAt(t)) = Max(ValuesAt(t - 1))
        BY <2>2, <3>1, <3>2, <3>3 DEF Found
      <4>2. Turn(p) > 0
        BY <2>1, <2>2
      <4>3. arymax[p] = Max(ValuesAt(t - 1)) /\ Min(ValuesAt(t)) # arymax[p]
        BY <2>0, <2>1, <3>3, <4>2 DEF Compares, Here
      <4> QED BY <4>1, <4>3
    <3>4. CASE log[p][t].step = "ok"
      <4>1. Min(ValuesAt(t)) # 0
        BY <2>2, <3>1, <3>2, <3>4 DEF Found
      <4>2. Min(ValuesAt(t)) = 0
        BY <2>0, <2>1, <3>4 DEF Compares, Here
      <4> QED BY <4>1, <4>2
    <3> QED BY <2>2, <3>3, <3>4
  <2> QED BY <2>2, <2>3, <2>4, <2>5, <2>6
<1> QED BY <1>1, SpecInv, PTL
=============================================================================
