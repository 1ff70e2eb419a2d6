---------------------- MODULE ReconcileRotationProofs ----------------------
(***************************************************************************)
(* The rotation of ReconcileRecentPayments starves no candidate, for every *)
(* batch size and every number of rows.  What a candidate has waited is    *)
(* charged to the others it met: each of them is checked at most once      *)
(* while it waits, so the runs behind it and the others the cursor has     *)
(* still to come to before it stay within a bound together.                *)
(***************************************************************************)
EXTENDS ReconcileRotation, TLAPS, FiniteSetTheorems, WellFoundedInduction

-----------------------------------------------------------------------------
(* Division and counting.                                                  *)

\* What a division by the batch size leaves.
LEMMA Quotient ==
    ASSUME NEW a \in Nat
    PROVE  /\ a \div Batch \in Nat
           /\ Batch * (a \div Batch) <= a
           /\ a < Batch * (a \div Batch) + Batch
<1>1. Batch \in Nat /\ Batch > 0
  BY RotationAssumption
<1>2. a \div Batch \in Nat /\ a % Batch \in 0 .. Batch - 1
      /\ a = Batch * (a \div Batch) + (a % Batch)
  BY <1>1, SMTT(30)
<1> QED BY <1>1, <1>2

\* Sets of rows are finite, and a smaller one has no more rows.
LEMMA RowsCounted ==
    ASSUME NEW n \in Nat, NEW S \in SUBSET (1 .. n), NEW T \in SUBSET S
    PROVE  /\ IsFiniteSet(S) /\ IsFiniteSet(T)
           /\ Cardinality(S) \in Nat /\ Cardinality(T) \in Nat
           /\ Cardinality(T) <= Cardinality(S)
<1>1. IsFiniteSet(1 .. n)
  BY FS_Interval
<1>2. IsFiniteSet(S)
  BY <1>1, FS_Subset
<1>3. IsFiniteSet(T) /\ Cardinality(T) <= Cardinality(S)
  BY <1>2, FS_Subset
<1> QED BY <1>2, <1>3, FS_CardinalityType

\* Two disjoint parts have no more rows than the whole.
LEMMA PartsCounted ==
    ASSUME NEW n \in Nat, NEW S \in SUBSET (1 .. n),
           NEW T \in SUBSET S, NEW U \in SUBSET S, T \cap U = {}
    PROVE  Cardinality(T) + Cardinality(U) <= Cardinality(S)
<1>1. IsFiniteSet(T) /\ IsFiniteSet(U)
  BY RowsCounted
<1>2. Cardinality(T \cup U) = Cardinality(T) + Cardinality(U) - Cardinality({})
  BY <1>1, FS_Union
<1>3. Cardinality({}) = 0
  BY FS_EmptySet
<1>4. Cardinality(T \cup U) <= Cardinality(S)
  <2>1. T \cup U \in SUBSET S
    OBVIOUS
  <2> QED BY <2>1, RowsCounted
<1>5. Cardinality(T) \in Nat /\ Cardinality(U) \in Nat
  BY RowsCounted
<1> QED BY <1>2, <1>3, <1>4, <1>5

\* A nonempty set of rows has a greatest one.
LEMMA GreatestExists ==
    ASSUME NEW n \in Nat, NEW P \in SUBSET (1 .. n), P # {}
    PROVE  \E g \in P : \A q \in P : q <= g
<1>1. \A k \in P : k \in Nat /\ k <= n
  OBVIOUS
<1> DEFINE T == {n - i : i \in P}
<1>2. T \subseteq Nat /\ T # {}
  <2>1. ASSUME NEW i \in P PROVE n - i \in Nat
    BY <1>1
  <2>2. T \subseteq Nat
    BY <2>1, Zenon
  <2> QED BY <2>2, Zenon
<1>3. PICK t \in T : \A u \in T : <<u, t>> \notin OpToRel(<, Nat)
  BY <1>2, NatLessThanWellFounded, WFMin, Zenon
<1>4. PICK g \in P : t = n - g
  BY <1>3, Zenon
<1>5. ASSUME NEW q \in P PROVE q <= g
  <2>1. n - q \in T /\ n - q \in Nat /\ n - g \in Nat
    BY <1>1, <1>2, <1>4, Zenon
  <2>2. <<n - q, n - g>> \notin OpToRel(<, Nat)
    BY <1>3, <1>4, <2>1, Zenon
  <2>3. ~(n - q < n - g)
    BY <2>1, <2>2 DEF OpToRel
  <2>4. q \in Nat /\ g \in Nat
    BY <1>1, Zenon
  <2> HIDE DEF T
  <2> QED BY <2>3, <2>4
<1> QED BY <1>5

-----------------------------------------------------------------------------
(* The invariant.                                                          *)

\* The job, its cursor at c, has left r behind and comes to it after a wrap.
Behind(r, c) == c # None /\ r >= c

\* The rows of m that it has still to come to before r: those below the cursor
\* and, after the wrap, those above r.
Before(r, c, m) == {q \in m : \/ Behind(r, c) /\ (q < c \/ q > r)
                              \/ ~Behind(r, c) /\ q > r /\ (c = None \/ q < c)}

\* The short run that wraps, once it is spent.
Wrap(r, c) == IF Behind(r, c) THEN 0 ELSE Batch

\* The variables take the values their comments say: only candidates wait, and
\* each has met all the others there are.
RowsInv ==
    /\ life \in [Row -> Lives]
    /\ cursor \in 0 .. MaxRow
    /\ waited \in [Row -> Nat]
    /\ met \in [Row -> SUBSET Row]
    /\ \A r \in Row \ rows : waited[r] = 0
    /\ \A r \in rows : rows \ {r} \in SUBSET met[r]

\* What a candidate has waited is paid for by the others it has met and seen
\* checked, a full batch of them a run but for the one that wraps.
Paid(r) == Batch * waited[r] + Cardinality(Before(r, cursor, met[r]))
               <= Wrap(r, cursor) + Cardinality(met[r])
WaitInv == \A r \in rows : Paid(r)

RotationInv == RowsInv /\ WaitInv

\* The rows below the cursor and the batch are rows.
LEMMA RowsArrived ==
    /\ MaxRow \in Nat /\ Row = 1 .. MaxRow
    /\ rows \in SUBSET Row
    /\ BelowCursor \in SUBSET rows /\ BelowCursor \in SUBSET (1 .. MaxRow)
    /\ Candidates \in SUBSET BelowCursor /\ Candidates \in SUBSET (1 .. MaxRow)
    /\ \A q \in Row : q \in Nat /\ q > 0
<1>1. MaxRow \in Nat /\ Row = 1 .. MaxRow
  BY RotationAssumption DEF Row
<1>2. rows \in SUBSET Row
  BY Zenon DEF rows
<1>3. BelowCursor \in SUBSET rows
  BY Zenon DEF BelowCursor
<1>4. Candidates \in SUBSET BelowCursor
  BY Zenon DEF Candidates
<1>5. \A q \in Row : q \in Nat /\ q > 0
  BY <1>1
<1> QED BY <1>1, <1>2, <1>3, <1>4, <1>5, Zenon

\* A short batch is everything below the cursor: the job never wraps past a
\* candidate it has not looked at.
LEMMA ShortBatchIsAll ==
    ASSUME Cardinality(Candidates) < Batch
    PROVE  Candidates = BelowCursor
<1>1. MaxRow \in Nat /\ BelowCursor \in SUBSET (1 .. MaxRow)
      /\ Candidates \in SUBSET BelowCursor /\ Candidates \in SUBSET (1 .. MaxRow)
  BY RowsArrived
<1> DEFINE left == BelowCursor \ Candidates
<1>2. ASSUME left # {} PROVE FALSE
  <2>1. left \in SUBSET (1 .. MaxRow)
    BY <1>1
  <2>2. PICK g \in left : \A q \in left : q <= g
    BY <1>1, <1>2, <2>1, GreatestExists
  <2> DEFINE above == {q \in BelowCursor : q > g}
  <2>3. above \in SUBSET Candidates
    <3>1. SUFFICES ASSUME NEW q \in BelowCursor, q > g, q \notin Candidates PROVE FALSE
      OBVIOUS
    <3>2. q <= g
      BY <2>2, <3>1
    <3>3. q \in Nat /\ g \in Nat
      BY <1>1, <2>1
    <3> QED BY <3>1, <3>2, <3>3
  <2>4. ~(Cardinality(above) < Batch)
    BY <2>2 DEF Candidates
  <2>5. Cardinality(above) <= Cardinality(Candidates)
        /\ Cardinality(above) \in Nat /\ Cardinality(Candidates) \in Nat
    BY <1>1, <2>3, RowsCounted
  <2> HIDE DEF above
  <2> QED BY <2>4, <2>5, RotationAssumption
<1> QED BY <1>1, <1>2

\* A row a run leaves below the cursor has the whole batch before it.
LEMMA BatchComesFirst ==
    ASSUME NEW r \in BelowCursor, r \notin Candidates, NEW q \in Candidates
    PROVE  q > r
<1>1. MaxRow \in Nat /\ BelowCursor \in SUBSET (1 .. MaxRow)
      /\ q \in BelowCursor /\ q \in Nat /\ r \in Nat
      /\ \A y \in BelowCursor : y \in Nat
  BY RowsArrived, Zenon
<1> DEFINE aboveR == {y \in BelowCursor : y > r}
           aboveQ == {y \in BelowCursor : y > q}
<1>2. ASSUME q <= r PROVE FALSE
  <2>1. aboveR \in SUBSET aboveQ
    <3>1. \A y \in BelowCursor : y > r => y > q
      BY <1>1, <1>2
    <3> QED BY <3>1, Zenon
  <2>2. aboveQ \in SUBSET (1 .. MaxRow)
    BY <1>1, Zenon
  <2>3. Cardinality(aboveR) <= Cardinality(aboveQ)
        /\ Cardinality(aboveR) \in Nat /\ Cardinality(aboveQ) \in Nat
    BY <1>1, <2>1, <2>2, RowsCounted, Zenon
  <2>4. Cardinality(aboveQ) < Batch /\ ~(Cardinality(aboveR) < Batch)
    BY DEF Candidates
  <2> HIDE DEF aboveR, aboveQ
  <2> QED BY <2>3, <2>4, RotationAssumption
<1> QED BY <1>1, <1>2

\* A wait of no runs is paid for by anything.
LEMMA FreshIsPaid ==
    ASSUME NEW r, NEW c, NEW m \in SUBSET Row
    PROVE  /\ Cardinality(Before(r, c, m)) \in Nat /\ Cardinality(m) \in Nat
           /\ Wrap(r, c) \in Nat
           /\ Batch * 0 + Cardinality(Before(r, c, m)) <= Wrap(r, c) + Cardinality(m)
<1>1. Before(r, c, m) \in SUBSET m /\ m \in SUBSET (1 .. MaxRow) /\ MaxRow \in Nat
  BY RowsArrived DEF Before
<1>2. /\ Cardinality(Before(r, c, m)) \in Nat /\ Cardinality(m) \in Nat
      /\ Cardinality(Before(r, c, m)) <= Cardinality(m)
  BY <1>1, RowsCounted
<1>3. Wrap(r, c) \in Nat /\ Batch \in Nat
  BY RotationAssumption DEF Wrap
<1> QED BY <1>2, <1>3

\* Meeting one more pays for the one more that may come before.
LEMMA MeetingIsPaid ==
    ASSUME NEW r, NEW c, NEW m \in SUBSET Row, NEW q \in Row
    PROVE  Cardinality(Before(r, c, m \union {q})) - Cardinality(Before(r, c, m))
               <= Cardinality(m \union {q}) - Cardinality(m)
<1> DEFINE n == m \union {q}
<1>1. CASE q \in m
  <2>1. n = m
    BY <1>1
  <2>2. Cardinality(Before(r, c, m)) \in Nat /\ Cardinality(m) \in Nat
    BY FreshIsPaid
  <2> QED BY <2>1, <2>2
<1>2. CASE q \notin m
  <2>1. IsFiniteSet(m) /\ IsFiniteSet(Before(r, c, m))
    <3>1. Before(r, c, m) \in SUBSET m /\ m \in SUBSET (1 .. MaxRow) /\ MaxRow \in Nat
      BY RowsArrived DEF Before
    <3> QED BY <3>1, RowsCounted
  <2>2. Cardinality(n) = Cardinality(m) + 1
    BY <1>2, <2>1, FS_AddElement
  <2>3. \/ Before(r, c, n) = Before(r, c, m)
        \/ Before(r, c, n) = Before(r, c, m) \union {q}
    BY DEF Before
  <2>4. q \notin Before(r, c, m)
    BY <1>2 DEF Before
  <2>5. Cardinality(Before(r, c, m) \union {q}) = Cardinality(Before(r, c, m)) + 1
    BY <2>1, <2>4, FS_AddElement
  <2>6. Cardinality(Before(r, c, m)) \in Nat /\ Cardinality(m) \in Nat
    BY FreshIsPaid
  <2> DEFINE b == Cardinality(Before(r, c, m))  k == Cardinality(m)
  <2>7. Cardinality(Before(r, c, n)) \in {b, b + 1}
    BY <2>3, <2>5
  <2>8. b \in Nat /\ k \in Nat /\ Cardinality(n) = k + 1
    BY <2>2, <2>6
  <2> HIDE DEF b, k
  <2>9. Cardinality(Before(r, c, n)) - b <= Cardinality(n) - k
    BY <2>7, <2>8
  <2> QED BY <2>9 DEF b, k
<1> QED BY <1>1, <1>2

LEMMA RotationStart == Init => RotationInv
<1> SUFFICES ASSUME Init PROVE RotationInv
  OBVIOUS
<1>1. rows = {}
  BY DEF Init, rows
<1> QED BY <1>1, RotationAssumption DEF Init, RotationInv, RowsInv, WaitInv, Row, None, Lives

\* A newcomer has waited for nothing, and each that meets it is owed one more.
LEMMA EnterKeeps ==
    ASSUME RotationInv, NEW p \in Row, p \notin rows,
           NEW as \in {"pending", "expired"}, Enter(p, as)
    PROVE  RotationInv'
<1>1. /\ life \in [Row -> Lives] /\ cursor' = cursor /\ waited' = waited
      /\ waited \in [Row -> Nat] /\ met \in [Row -> SUBSET Row]
      /\ life' = [life EXCEPT ![p] = as]
      /\ met' = [q \in Row |->
                   IF q = p THEN rows ELSE IF q \in rows THEN met[q] \union {p} ELSE {}]
  BY DEF RotationInv, RowsInv, Enter
<1>2. rows' = rows \union {p} /\ rows \in SUBSET Row
  BY <1>1 DEF rows
<1>3. met' \in [Row -> SUBSET Row] /\ life' \in [Row -> Lives]
  BY <1>1, <1>2 DEF Lives
<1>4. \A r \in rows' : rows' \ {r} \in SUBSET met'[r]
  <2>1. ASSUME NEW r \in rows' PROVE rows' \ {r} \in SUBSET met'[r]
    <3>1. CASE r = p
      BY <1>1, <1>2, <3>1
    <3>2. CASE r \in rows /\ r # p
      <4>1. rows \ {r} \in SUBSET met[r]
        BY <3>2 DEF RotationInv, RowsInv
      <4>2. met'[r] = met[r] \union {p}
        BY <1>1, <1>2, <3>2
      <4> QED BY <1>2, <4>1, <4>2
    <3> QED BY <1>2, <2>1, <3>1, <3>2
  <2> QED BY <2>1
<1>5. RowsInv'
  BY <1>1, <1>2, <1>3, <1>4 DEF RotationInv, RowsInv
<1>6. ASSUME NEW r \in rows' PROVE Paid(r)'
  <2>1. CASE r = p
    <3>1. waited'[r] = 0 /\ met'[r] \in SUBSET Row
      BY <1>1, <1>2, <1>3, <2>1 DEF RotationInv, RowsInv
    <3>2. Batch * 0 + Cardinality(Before(r, cursor', met'[r]))
            <= Wrap(r, cursor') + Cardinality(met'[r])
      BY <3>1, FreshIsPaid
    <3> QED BY <3>1, <3>2 DEF Paid
  <2>2. CASE r # p
    <3>1. /\ r \in rows /\ met'[r] = met[r] \union {p} /\ waited'[r] = waited[r]
          /\ met[r] \in SUBSET Row /\ waited[r] \in Nat /\ met'[r] \in SUBSET Row
      BY <1>1, <1>2, <1>3, <1>6, <2>2
    <3>2. Paid(r)
      BY <3>1 DEF RotationInv, WaitInv
    <3> DEFINE b == Cardinality(Before(r, cursor, met[r]))
               d == Cardinality(Before(r, cursor, met[r] \union {p}))
               k == Cardinality(met[r])
               l == Cardinality(met[r] \union {p})
               w == Batch * waited[r]
               x == Wrap(r, cursor)
    <3>3. b \in Nat /\ d \in Nat /\ k \in Nat /\ l \in Nat /\ x \in Nat
      BY <3>1, FreshIsPaid
    <3>4. d - b <= l - k
      BY <3>1, MeetingIsPaid
    <3>5. w \in Nat
      BY <3>1, RotationAssumption
    <3>6. w + b <= x + k
      BY <3>2 DEF Paid
    <3>7. Paid(r)' <=> w + d <= x + l
      BY <1>1, <3>1, Zenon DEF Paid
    <3> HIDE DEF b, d, k, l, w, x
    <3> QED BY <3>3, <3>4, <3>5, <3>6, <3>7
  <2> QED BY <2>1, <2>2
<1> QED BY <1>5, <1>6 DEF RotationInv, WaitInv

\* Who leaves changes nothing for the others: they have met it.
LEMMA QuitKeeps ==
    ASSUME RotationInv, NEW p \in Row, NEW as \in {"aged", "done"}, Quit(p, as)
    PROVE  RotationInv'
<1>1. /\ life \in [Row -> Lives] /\ cursor' = cursor
      /\ waited \in [Row -> Nat] /\ met \in [Row -> SUBSET Row]
      /\ life' = [life EXCEPT ![p] = as]
      /\ waited' = [waited EXCEPT ![p] = 0] /\ met' = [met EXCEPT ![p] = {}]
  BY DEF RotationInv, RowsInv, Quit
<1>2. rows' = rows \ {p} /\ rows \in SUBSET Row
  BY <1>1 DEF rows
<1>3. met' \in [Row -> SUBSET Row] /\ life' \in [Row -> Lives] /\ waited' \in [Row -> Nat]
  BY <1>1 DEF Lives
<1>4. \A r \in Row : r # p => met'[r] = met[r] /\ waited'[r] = waited[r]
  BY <1>1
<1>5. RowsInv'
  <2>1. \A r \in Row \ rows' : waited'[r] = 0
    BY <1>1, <1>2 DEF RotationInv, RowsInv
  <2>2. \A r \in rows' : rows' \ {r} \in SUBSET met'[r]
    BY <1>2, <1>4 DEF RotationInv, RowsInv
  <2> QED BY <1>1, <1>3, <2>1, <2>2 DEF RotationInv, RowsInv
<1>6. ASSUME NEW r \in rows' PROVE Paid(r)'
  <2>1. r \in rows /\ met'[r] = met[r] /\ waited'[r] = waited[r]
    BY <1>2, <1>4
  <2>2. Paid(r)
    BY <2>1 DEF RotationInv, WaitInv
  <2> QED BY <1>1, <2>1, <2>2 DEF Paid
<1> QED BY <1>5, <1>6 DEF RotationInv, WaitInv

\* One that expires while it is a candidate stays one.
LEMMA ExpireInWindowKeeps ==
    ASSUME RotationInv, NEW p \in Row, life[p] = "pending",
           life' = [life EXCEPT ![p] = "expired"], UNCHANGED <<cursor, waited, met>>
    PROVE  RotationInv'
<1>1. life \in [Row -> Lives]
  BY DEF RotationInv, RowsInv
<1>2. rows' = rows /\ life' \in [Row -> Lives]
  BY <1>1 DEF rows, Lives
<1> QED BY <1>2 DEF RotationInv, RowsInv, WaitInv, Paid

\* A full batch of others is no longer before r, and none is before it anew.
LEMMA BatchIsSpent ==
    ASSUME NEW r \in Row, NEW c, NEW d, NEW m \in SUBSET Row, NEW S \in SUBSET m,
           S \in SUBSET Before(r, c, m),
           Before(r, d, m) \in SUBSET Before(r, c, m), Before(r, d, m) \cap S = {}
    PROVE  /\ Cardinality(Before(r, d, m)) \in Nat /\ Cardinality(Before(r, c, m)) \in Nat
           /\ Cardinality(S) \in Nat
           /\ Cardinality(Before(r, d, m)) + Cardinality(S) <= Cardinality(Before(r, c, m))
<1>1. MaxRow \in Nat /\ Before(r, c, m) \in SUBSET (1 .. MaxRow)
  BY RowsArrived DEF Before
<1>2. /\ Cardinality(Before(r, d, m)) \in Nat /\ Cardinality(Before(r, c, m)) \in Nat
      /\ Cardinality(S) \in Nat
  BY <1>1, RowsCounted
<1>3. Cardinality(Before(r, d, m)) + Cardinality(S) <= Cardinality(Before(r, c, m))
  BY <1>1, PartsCounted
<1> QED BY <1>2, <1>3

\* So the run that r waits for is paid by the batch it checks.
LEMMA StepIsPaid ==
    ASSUME NEW r \in Row, NEW c, NEW d, NEW m \in SUBSET Row, NEW S \in SUBSET m,
           S \in SUBSET Before(r, c, m), ~(Cardinality(S) < Batch),
           Before(r, d, m) \in SUBSET Before(r, c, m), Before(r, d, m) \cap S = {},
           Wrap(r, d) = Wrap(r, c), NEW w \in Nat,
           Batch * w + Cardinality(Before(r, c, m)) <= Wrap(r, c) + Cardinality(m)
    PROVE  Batch * (w + 1) + Cardinality(Before(r, d, m)) <= Wrap(r, d) + Cardinality(m)
<1> DEFINE b == Cardinality(Before(r, c, m))
           a == Cardinality(Before(r, d, m))
           k == Cardinality(m)
           s == Cardinality(S)
           x == Wrap(r, c)
           y == Wrap(r, d)
           v == Batch * w
           u == Batch * (w + 1)
<1>1. a \in Nat /\ b \in Nat /\ s \in Nat /\ a + s <= b
  BY BatchIsSpent
<1>2. k \in Nat /\ x \in Nat /\ y = x
  BY FreshIsPaid
<1>3. Batch \in Nat /\ v \in Nat /\ u = v + Batch
  BY RotationAssumption
<1>4. ~(s < Batch) /\ v + b <= x + k
  OBVIOUS
<1> HIDE DEF a, b, k, s, x, y, v, u
<1>5. u + a <= y + k
  BY <1>1, <1>2, <1>3, <1>4
<1> QED BY <1>5 DEF a, k, y, u

\* A run takes a batch off what is before each candidate it does not check.
LEMMA RunKeeps ==
    ASSUME RotationInv, Run
    PROVE  RotationInv'
<1>1. /\ Batch \in Nat /\ Batch > 0 /\ cursor \in 0 .. MaxRow /\ cursor \in Nat
      /\ life \in [Row -> Lives] /\ life' = life
      /\ waited \in [Row -> Nat] /\ met \in [Row -> SUBSET Row]
      /\ \A r \in rows : rows \ {r} \in SUBSET met[r]
      /\ waited' = [r \in Row |-> IF r \in rows \ Candidates THEN waited[r] + 1 ELSE 0]
      /\ met' = [r \in Row |-> IF r \in Candidates THEN rows \ {r} ELSE met[r]]
  BY RotationAssumption DEF RotationInv, RowsInv, Run, Checked
<1>2. /\ BelowCursor \in SUBSET rows /\ rows \in SUBSET Row
      /\ Candidates \in SUBSET BelowCursor
      /\ \A q \in Row : q \in Nat /\ q > 0
  BY RowsArrived
<1>3. rows' = rows
  BY <1>1 DEF rows
<1>4. waited' \in [Row -> Nat] /\ met' \in [Row -> SUBSET Row]
  BY <1>1, <1>2
<1>5. cursor' \in 0 .. MaxRow
  <2>1. \A r \in Candidates : r \in 0 .. MaxRow
    BY RowsArrived
  <2>2. None \in 0 .. MaxRow
    BY RotationAssumption DEF None
  <2> QED BY <2>1, <2>2 DEF Run
<1>6. RowsInv'
  <2>1. \A r \in Row \ rows' : waited'[r] = 0
    BY <1>1, <1>3
  <2>2. \A r \in rows' : rows' \ {r} \in SUBSET met'[r]
    BY <1>1, <1>2, <1>3
  <2> QED BY <1>1, <1>3, <1>4, <1>5, <2>1, <2>2 DEF RotationInv, RowsInv
<1>7. ASSUME NEW r \in Candidates PROVE Paid(r)'
  <2>1. waited'[r] = 0 /\ met'[r] \in SUBSET Row
    BY <1>1, <1>2, <1>4
  <2>2. Batch * 0 + Cardinality(Before(r, cursor', met'[r]))
          <= Wrap(r, cursor') + Cardinality(met'[r])
    BY <2>1, FreshIsPaid
  <2> QED BY <2>1, <2>2 DEF Paid
<1>8. ASSUME NEW r \in rows, r \notin Candidates
      PROVE  /\ r \in Row /\ waited[r] \in Nat /\ waited'[r] = waited[r] + 1
             /\ met'[r] = met[r] /\ met[r] \in SUBSET Row
             /\ Candidates \in SUBSET met[r] /\ Paid(r)
  <2>1. rows \ {r} \in SUBSET met[r] /\ Paid(r)
    BY DEF RotationInv, RowsInv, WaitInv
  <2> QED BY <1>1, <1>2, <1>8, <2>1
<1>9. ASSUME Cardinality(Candidates) < Batch, NEW r \in rows, r \notin Candidates
      PROVE  Paid(r)'
  <2>1. cursor' = None
    BY <1>9 DEF Run
  <2>2. r \notin BelowCursor
    BY <1>9, ShortBatchIsAll
  <2>3. Behind(r, cursor) /\ ~Behind(r, cursor')
    BY <1>1, <1>2, <1>9, <2>1, <2>2 DEF BelowCursor, Behind, None
  <2>4. Wrap(r, cursor) = 0 /\ Wrap(r, cursor') = Batch
    BY <2>3 DEF Wrap
  <2>5. Before(r, cursor', met[r]) \in SUBSET Before(r, cursor, met[r])
    BY <2>3 DEF Before
  <2> DEFINE b == Cardinality(Before(r, cursor, met[r]))
             d == Cardinality(Before(r, cursor', met[r]))
             k == Cardinality(met[r])
             w == Batch * waited[r]
             v == Batch * (waited[r] + 1)
  <2>6. b \in Nat /\ d \in Nat /\ k \in Nat
    BY <1>8, <1>9, FreshIsPaid
  <2>7. d <= b
    <3>1. {} \in SUBSET met[r] /\ {} \in SUBSET Before(r, cursor, met[r])
          /\ Before(r, cursor', met[r]) \cap {} = {}
      OBVIOUS
    <3>2. d + Cardinality({}) <= b
      BY <1>8, <1>9, <2>5, <3>1, BatchIsSpent
    <3>3. Cardinality({}) = 0
      BY FS_EmptySet
    <3> HIDE DEF b, d
    <3> QED BY <2>6, <3>2, <3>3
  <2>8. w \in Nat /\ v = w + Batch
    <3>1. \A n \in Nat : Batch * n \in Nat /\ Batch * (n + 1) = Batch * n + Batch
      BY <1>1
    <3>2. waited[r] \in Nat
      BY <1>8, <1>9
    <3> QED BY <3>1, <3>2, Zenon
  <2>9. w + b <= 0 + k
    BY <1>8, <1>9, <2>4 DEF Paid
  <2>10. Paid(r)' <=> v + d <= Batch + k
    BY <1>8, <1>9, <2>4, Zenon DEF Paid
  <2> HIDE DEF b, d, k, w, v
  <2> QED BY <1>1, <2>6, <2>7, <2>8, <2>9, <2>10
<1>10. ASSUME ~(Cardinality(Candidates) < Batch), NEW r \in rows, r \notin Candidates
       PROVE  Paid(r)'
  <2>1. PICK c \in Candidates : (\A q \in Candidates : q >= c) /\ cursor' = c
    BY <1>10 DEF Run
  <2>2. /\ c \in Row /\ c # None /\ c \in Nat /\ r \in Nat /\ r \in Row
        /\ cursor = None \/ c < cursor
    BY <1>2, <1>8, <1>10, <2>1 DEF None, BelowCursor
  <2>3. \A q \in Candidates : q \in Nat /\ q >= c /\ (cursor = None \/ q < cursor)
    BY <1>2, <2>1 DEF BelowCursor
  <2>4. \A q \in met[r] : q \in Nat
    BY <1>2, <1>8, <1>10
  <2>5. ASSUME Before(r, c, met[r]) \in SUBSET Before(r, cursor, met[r]),
               Candidates \in SUBSET Before(r, cursor, met[r]),
               Before(r, c, met[r]) \cap Candidates = {},
               Wrap(r, c) = Wrap(r, cursor)
        PROVE  Paid(r)'
    <3>1. /\ waited[r] \in Nat /\ waited'[r] = waited[r] + 1 /\ met'[r] = met[r]
          /\ met[r] \in SUBSET Row /\ Candidates \in SUBSET met[r]
      BY <1>8, <1>10
    <3>2. Batch * waited[r] + Cardinality(Before(r, cursor, met[r]))
            <= Wrap(r, cursor) + Cardinality(met[r])
      BY <1>8, <1>10 DEF Paid
    <3>3. Batch * (waited[r] + 1) + Cardinality(Before(r, c, met[r]))
            <= Wrap(r, c) + Cardinality(met[r])
      BY <1>10, <2>2, <2>5, <3>1, <3>2, StepIsPaid
    <3> QED BY <2>1, <3>1, <3>3, Zenon DEF Paid
  <2>6. CASE Behind(r, cursor)
    <3>1. Behind(r, c) /\ cursor # None
      BY <1>1, <2>2, <2>6 DEF Behind
    <3>2. Before(r, c, met[r]) \in SUBSET Before(r, cursor, met[r])
      <4>1. ASSUME NEW q \in met[r] PROVE q < c => q < cursor
        BY <1>1, <2>2, <2>4, <3>1
      <4> QED BY <2>6, <3>1, <4>1, Zenon DEF Before
    <3>3. Candidates \in SUBSET Before(r, cursor, met[r])
      BY <1>8, <1>10, <2>3, <2>6, <3>1 DEF Before
    <3>4. Before(r, c, met[r]) \cap Candidates = {}
      <4>1. ASSUME NEW q \in Candidates, q \in Before(r, c, met[r]) PROVE FALSE
        <5>1. q < c \/ q > r
          BY <3>1, <4>1 DEF Before
        <5>2. r >= cursor /\ q < cursor /\ q >= c
          BY <2>3, <2>6, <3>1, <4>1 DEF Behind
        <5> QED BY <1>1, <2>2, <2>3, <4>1, <5>1, <5>2
      <4> QED BY <4>1, Zenon
    <3>5. Wrap(r, c) = Wrap(r, cursor)
      BY <2>6, <3>1 DEF Wrap
    <3> QED BY <2>5, <3>2, <3>3, <3>4, <3>5
  <2>7. CASE ~Behind(r, cursor)
    <3>1. r \in BelowCursor
      BY <1>1, <1>10, <2>2, <2>7 DEF Behind, BelowCursor
    <3>2. \A q \in Candidates : q > r
      BY <1>10, <3>1, BatchComesFirst
    <3>3. ~Behind(r, c)
      BY <2>1, <2>2, <3>2 DEF Behind
    <3>4. Before(r, c, met[r]) \in SUBSET Before(r, cursor, met[r])
      <4>1. ASSUME NEW q \in met[r] PROVE q < c => cursor = None \/ q < cursor
        BY <1>1, <2>2, <2>4
      <4> QED BY <2>2, <2>7, <3>3, <4>1, Zenon DEF Before
    <3>5. Candidates \in SUBSET Before(r, cursor, met[r])
      BY <1>8, <1>10, <2>3, <2>7, <3>2 DEF Before
    <3>6. Before(r, c, met[r]) \cap Candidates = {}
      <4>1. ASSUME NEW q \in Candidates, q \in Before(r, c, met[r]) PROVE FALSE
        <5>1. q < c
          BY <2>2, <3>3, <4>1 DEF Before
        <5> QED BY <2>2, <2>3, <4>1, <5>1
      <4> QED BY <4>1, Zenon
    <3>7. Wrap(r, c) = Wrap(r, cursor)
      BY <2>7, <3>3 DEF Wrap
    <3> QED BY <2>5, <3>4, <3>5, <3>6, <3>7
  <2> QED BY <2>6, <2>7
<1>11. ASSUME NEW r \in rows' PROVE Paid(r)'
  BY <1>3, <1>7, <1>9, <1>10, <1>11
<1> QED BY <1>6, <1>11 DEF RotationInv, WaitInv

LEMMA RotationStep == RotationInv /\ [Next]_vars => RotationInv'
<1> SUFFICES ASSUME RotationInv, [Next]_vars PROVE RotationInv'
  OBVIOUS
<1>1. CASE UNCHANGED vars
  BY <1>1 DEF vars, RotationInv, RowsInv, WaitInv, Paid, rows
<1>2. ASSUME NEW p \in Row, Store(p) PROVE RotationInv'
  <2>1. p \notin rows
    BY <1>2 DEF Store, rows
  <2> QED BY <1>2, <2>1, EnterKeeps DEF Store
<1>3. ASSUME NEW p \in Row, AgeOut(p) PROVE RotationInv'
  BY <1>3, QuitKeeps DEF AgeOut
<1>4. ASSUME NEW p \in Row, Expire(p) PROVE RotationInv'
  <2>1. CASE life[p] = "aged" /\ Enter(p, "expired")
    <3>1. p \notin rows
      BY <2>1 DEF rows
    <3> QED BY <2>1, <3>1, EnterKeeps
  <2> QED BY <1>4, <2>1, ExpireInWindowKeeps DEF Expire
<1>5. ASSUME NEW p \in Row, Leave(p) PROVE RotationInv'
  BY <1>5, QuitKeeps DEF Leave
<1> QED BY <1>1, <1>2, <1>3, <1>4, <1>5, RunKeeps DEF Next

\* However long a wait is, the others it is charged to bound it.
LEMMA WaitsAreBounded == RotationInv => NoCandidateStarves
<1> SUFFICES ASSUME RotationInv, NEW r \in rows
             PROVE  waited[r] < Period(r) + 1
  BY DEF NoCandidateStarves, CoveredWithin
<1>1. r \in Row /\ waited[r] \in Nat /\ met[r] \in SUBSET Row /\ Paid(r)
  BY RowsArrived DEF RotationInv, RowsInv, WaitInv
<1>2. Batch \in Nat /\ Batch > 0
  BY RotationAssumption
<1> DEFINE k == Cardinality(met[r])
           b == Cardinality(Before(r, cursor, met[r]))
           x == Wrap(r, cursor)
           w == waited[r]
           p == (k + Batch) \div Batch
<1>3. k \in Nat /\ b \in Nat /\ x \in Nat /\ x <= Batch
  BY <1>1, <1>2, FreshIsPaid DEF Wrap
<1>4. Batch * w + b <= x + k
  BY <1>1 DEF Paid
<1>5. k + Batch \in Nat
  BY <1>2, <1>3
<1>6. p \in Nat /\ k + Batch < Batch * p + Batch
  BY <1>5, Quotient
<1> HIDE DEF k, b, x, w, p
<1>7. Batch * w < Batch * p + Batch
  <2> DEFINE y == Batch * w
             z == Batch * p + Batch
  <2>1. w \in Nat /\ p \in Nat
    BY <1>1, <1>6 DEF w
  <2>2. y \in Nat /\ z \in Nat
    BY <1>2, <2>1
  <2>3. y + b <= x + k /\ k + Batch < z
    BY <1>4, <1>6
  <2> HIDE DEF y, z
  <2>4. y < z
    BY <1>2, <1>3, <2>2, <2>3
  <2> QED BY <2>4 DEF y, z
<1>8. w \in Nat
  BY <1>1 DEF w
<1>9. ASSUME p < w PROVE FALSE
  <2>1. PICK d \in Nat : w = p + 1 + d
    <3>1. w - p - 1 \in Nat /\ w = p + 1 + (w - p - 1)
      BY <1>6, <1>8, <1>9
    <3> QED BY <3>1
  <2>2. Batch * w = Batch * p + Batch + Batch * d
    BY <1>2, <1>6, <2>1
  <2>3. Batch * d \in Nat /\ Batch * p \in Nat
    BY <1>2, <1>6, <2>1
  <2> QED BY <1>2, <1>7, <2>2, <2>3
<1>10. w < p + 1
  BY <1>6, <1>8, <1>9
<1> QED BY <1>10 DEF w, p, k, Period

\* ReconcileRecentPayments comes round to every candidate, for every batch size
\* and wherever payments enter, leave and come back between its runs: one that
\* waits is checked within one run more than the batches that it and the others
\* that were candidates meanwhile fill.
THEOREM RotationStarvesNobody == Spec => []NoCandidateStarves
BY RotationStart, RotationStep, WaitsAreBounded, PTL DEF Spec
=============================================================================
