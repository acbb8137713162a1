------------------------- MODULE CreditLedgerProofs -------------------------
(***************************************************************************)
(* Proofs about CreditLedger, for every set of wallets, chains,            *)
(* reservations, amounts and chain readings.                               *)
(***************************************************************************)
EXTENDS CreditLedger, Functions, FiniteSetTheorems, WellFoundedInduction, TLAPS

-----------------------------------------------------------------------------
(* Sums over finite sets.  The library defines a sum as a fold, a recursive  *)
(* function of the subsets; what is needed of it follows by induction on     *)
(* their sizes, in the form that a set of naturals has a least element.      *)

LEMMA LeastNatural ==
  ASSUME NEW T, T \subseteq Nat, T # {}
  PROVE  \E m \in T : \A k \in T : m <= k
<1>1. IsWellFoundedOn(OpToRel(<, Nat), Nat)
  BY NatLessThanWellFounded, Zenon
<1>2. PICK m \in T : \A k \in T : ~ (<<k, m>> \in OpToRel(<, Nat))
  BY <1>1, WFMin, Zenon
<1>3. \A k \in T : ~ (k < m)
  BY <1>2 DEF OpToRel
<1>4. QED
  BY <1>3

Pick(s) == CHOOSE x \in s : TRUE

\* What the fold computes for s, from what g says of the smaller sets.
SumStep(g, f, s) == IF s = {} THEN 0 ELSE f[Pick(s)] + g[s \ {Pick(s)}]

\* g is the recursive function that sums f over every subset of S.
IsSum(g, f, S) == g = [s \in SUBSET S |-> SumStep(g, f, s)]

LEMMA PickSmaller ==
  ASSUME NEW s, IsFiniteSet(s), s # {}
  PROVE  /\ Pick(s) \in s
         /\ IsFiniteSet(s \ {Pick(s)})
         /\ Cardinality(s) \in Nat
         /\ Cardinality(s \ {Pick(s)}) = Cardinality(s) - 1
<1>1. Pick(s) \in s
  BY DEF Pick
<1>2. QED
  BY <1>1, FS_CardinalityType, FS_RemoveElement

LEMMA SumExists ==
  ASSUME NEW f, NEW S, IsFiniteSet(S)
  PROVE  \E g : IsSum(g, f, S)
<1> DEFINE Upto(n) == {s \in SUBSET S : Cardinality(s) <= n}
           Sums(g, n) == g = [s \in Upto(n) |-> SumStep(g, f, s)]
           T == {n \in Nat : ~ \E g : Sums(g, n)}
<1>0. \A s \in SUBSET S : IsFiniteSet(s) /\ Cardinality(s) \in Nat
  BY FS_Subset, FS_CardinalityType
<1>1. ASSUME NEW m \in T, \A k \in T : m <= k
      PROVE  FALSE
  <2>1. CASE m = 0
    <3> DEFINE g == [s \in Upto(0) |-> 0]
    <3>1. \A s \in Upto(0) : s = {}
      BY <1>0, FS_EmptySet
    <3>2. \A s \in Upto(0) : SumStep(g, f, s) = 0
      BY <3>1 DEF SumStep
    <3> HIDE DEF Upto
    <3>3. Sums(g, 0)
      BY <3>2
    <3>4. QED
      BY <2>1, <3>3
  <2>2. CASE m # 0
    <3>1. m - 1 \in Nat /\ m - 1 \notin T
      <4>1. T \subseteq Nat
        OBVIOUS
      <4> HIDE DEF T
      <4>2. QED
        BY <1>1, <2>2, <4>1
    <3>2. PICK h : Sums(h, m - 1)
      BY <3>1
    <3> DEFINE g == [s \in Upto(m) |-> SumStep(h, f, s)]
    <3>3. ASSUME NEW s \in Upto(m), s # {}
          PROVE  g[s \ {Pick(s)}] = h[s \ {Pick(s)}]
      <4> DEFINE r == s \ {Pick(s)}
      <4>1. r \in SUBSET S /\ Cardinality(r) = Cardinality(s) - 1
        BY <1>0, <3>3, PickSmaller
      <4>2. Cardinality(s) \in Nat /\ Cardinality(s) <= m
        BY <1>0
      <4>3. r \in Upto(m - 1) /\ r \in Upto(m)
        BY <4>1, <4>2
      <4> HIDE DEF r
      <4>4. h[r] = SumStep(h, f, r)
        BY <3>2, <4>3, Zenon
      <4>5. QED
        BY <4>3, <4>4 DEF r
    <3>4. \A s \in Upto(m) : SumStep(h, f, s) = SumStep(g, f, s)
      BY <3>3 DEF SumStep
    <3>5. Sums(g, m)
      BY <3>4
    <3>6. QED
      BY <3>5
  <2>3. QED
    BY <2>1, <2>2
<1>2. T = {}
  <2>1. T \subseteq Nat
    OBVIOUS
  <2> HIDE DEF T
  <2>2. QED
    BY <1>1, <2>1, LeastNatural
<1>3. PICK g : Sums(g, Cardinality(S))
  BY <1>0, <1>2
<1>4. Upto(Cardinality(S)) = SUBSET S
  BY FS_Subset
<1>5. QED
  BY <1>3, <1>4 DEF IsSum

\* The fold does not look at f outside the set it sums over.
LEMMA SumsAgree ==
  ASSUME NEW f, NEW e, NEW S, NEW R, NEW g, NEW h, IsSum(g, f, S), IsSum(h, e, R),
         NEW r, r \subseteq S, r \subseteq R, IsFiniteSet(r), \A x \in r : f[x] = e[x]
  PROVE  g[r] = h[r]
<1> DEFINE T == {n \in Nat : \E s \in SUBSET r : Cardinality(s) = n /\ g[s] # h[s]}
<1>0. \A s \in SUBSET r : IsFiniteSet(s) /\ Cardinality(s) \in Nat
  BY FS_Subset, FS_CardinalityType
<1>1. ASSUME NEW m \in T, \A k \in T : m <= k
      PROVE  FALSE
  <2>1. PICK s \in SUBSET r : Cardinality(s) = m /\ g[s] # h[s]
    OBVIOUS
  <2>2. g[s] = SumStep(g, f, s) /\ h[s] = SumStep(h, e, s)
    BY DEF IsSum
  <2>3. CASE s = {}
    BY <2>1, <2>2, <2>3 DEF SumStep
  <2>4. CASE s # {}
    <3> DEFINE q == s \ {Pick(s)}
    <3>1. /\ Pick(s) \in s /\ q \in SUBSET r
          /\ Cardinality(q) = m - 1 /\ Cardinality(q) \in Nat
      BY <1>0, <2>1, <2>4, PickSmaller
    <3>2. m - 1 \notin T
      BY <1>1, <3>1
    <3>3. g[q] = h[q]
      BY <3>1, <3>2
    <3>4. QED
      BY <2>1, <2>2, <2>4, <3>1, <3>3 DEF SumStep
  <2>5. QED
    BY <2>3, <2>4
<1>2. T = {}
  <2>1. T \subseteq Nat
    OBVIOUS
  <2> HIDE DEF T
  <2>2. QED
    BY <1>1, <2>1, LeastNatural
<1>3. QED
  BY <1>0, <1>2

\* Any element may be taken off a sum, whichever the fold picks.
LEMMA SumTakesAny ==
  ASSUME NEW f, NEW S, NEW g, IsSum(g, f, S), IsFiniteSet(S),
         \A x \in S : f[x] \in Nat
  PROVE  \A s \in SUBSET S : /\ g[s] \in Nat
                             /\ \A x \in s : g[s] = f[x] + g[s \ {x}]
<1> DEFINE Good(s) == g[s] \in Nat /\ \A x \in s : g[s] = f[x] + g[s \ {x}]
           T == {n \in Nat : \E s \in SUBSET S : Cardinality(s) = n /\ ~ Good(s)}
<1>0. \A s \in SUBSET S : IsFiniteSet(s) /\ Cardinality(s) \in Nat
  BY FS_Subset, FS_CardinalityType
<1>1. ASSUME NEW m \in T, \A k \in T : m <= k
      PROVE  FALSE
  <2>1. PICK s \in SUBSET S : Cardinality(s) = m /\ ~ Good(s)
    OBVIOUS
  <2>2. g[s] = SumStep(g, f, s)
    BY DEF IsSum
  <2>3. \A x \in s : Good(s \ {x})
    <3> SUFFICES ASSUME NEW x \in s PROVE Good(s \ {x})
      OBVIOUS
    <3>1. Cardinality(s \ {x}) = m - 1 /\ m - 1 \in Nat /\ s \ {x} \in SUBSET S
      BY <1>0, <2>1, FS_RemoveElement
    <3>2. m - 1 \notin T
      BY <1>1, <3>1
    <3> HIDE DEF Good
    <3>3. QED
      BY <3>1, <3>2
  <2>4. CASE s = {}
    BY <2>1, <2>2, <2>4 DEF SumStep
  <2>5. CASE s # {}
    <3> DEFINE p == Pick(s)
    <3>1. p \in s /\ g[s] = f[p] + g[s \ {p}]
      BY <2>2, <2>5, PickSmaller, <1>0 DEF SumStep
    <3> HIDE DEF p
    <3>2. g[s] \in Nat
      <4>1. g[s \ {p}] \in Nat
        BY <2>3, <3>1
      <4>2. f[p] \in Nat
        BY <3>1
      <4> HIDE DEF Good, T
      <4>3. QED
        BY <3>1, <4>1, <4>2
    <3>3. ASSUME NEW x \in s
          PROVE  g[s] = f[x] + g[s \ {x}]
      <4>1. CASE x = p
        BY <3>1, <4>1
      <4>2. CASE x # p
        <5>1. g[s \ {p}] = f[x] + g[(s \ {p}) \ {x}]
          BY <2>3, <3>1, <4>2
        <5>2. g[s \ {x}] = f[p] + g[(s \ {x}) \ {p}]
          BY <2>3, <3>1, <4>2
        <5>3. (s \ {x}) \ {p} = (s \ {p}) \ {x}
          OBVIOUS
        <5> DEFINE rest == g[(s \ {p}) \ {x}]
        <5>4. rest \in Nat
          <6>1. (s \ {p}) \ {x} \in SUBSET S
            OBVIOUS
          <6>2. g[s \ {p}] \in Nat /\ f[x] \in Nat /\ f[p] \in Nat
            BY <2>3, <3>1
          <6>3. Cardinality((s \ {p}) \ {x}) = m - 2 /\ m - 2 \in Nat
            <7> DEFINE q == s \ {p}
            <7>1. /\ IsFiniteSet(q) /\ Cardinality(q) = m - 1
                  /\ q \ {x} \in SUBSET S /\ x \in q /\ m \in Nat
              BY <1>0, <2>1, <3>1, <4>2, FS_RemoveElement
            <7> HIDE DEF q
            <7>2. Cardinality(q \ {x}) = Cardinality(q) - 1
              BY <7>1, FS_RemoveElement
            <7>3. Cardinality(q \ {x}) \in Nat
              BY <1>0, <7>1
            <7>4. QED
              BY <7>1, <7>2, <7>3 DEF q
          <6>4. m - 2 \notin T
            BY <1>1, <6>3
          <6>5. QED
            BY <6>1, <6>3, <6>4
        <5> HIDE DEF rest
        <5>5. f[x] \in Nat /\ f[p] \in Nat
          BY <3>1
        <5>6. g[s] = f[p] + (f[x] + rest) /\ g[s \ {x}] = f[p] + rest
          BY <3>1, <5>1, <5>2, <5>3 DEF rest
        <5>7. QED
          BY <5>4, <5>5, <5>6
      <4>3. QED
        BY <4>1, <4>2
    <3>4. QED
      BY <2>1, <3>2, <3>3
  <2>6. QED
    BY <2>4, <2>5
<1>2. T = {}
  <2>1. T \subseteq Nat
    OBVIOUS
  <2> HIDE DEF T
  <2>2. QED
    BY <1>1, <2>1, LeastNatural
<1>3. QED
  BY <1>0, <1>2

\* The library's sum is such a function's value.
LEMMA SumOnSetIsSum ==
  ASSUME NEW f, NEW S, IsFiniteSet(S)
  PROVE  \E g : IsSum(g, f, S) /\ SumFunctionOnSet(f, S) = g[S]
<1> DEFINE iter == CHOOSE it :
                     it = [s \in SUBSET S |->
                             IF s = {} THEN 0
                             ELSE LET x == CHOOSE x \in s : TRUE
                                  IN f[x] + it[s \ {x}]]
<1>1. \E g : IsSum(g, f, S)
  BY SumExists
<1>2. SumFunctionOnSet(f, S) = iter[S]
  BY Zenon DEF SumFunctionOnSet, FoldFunctionOnSet, MapThenFoldSet
<1>3. IsSum(iter, f, S)
  BY <1>1, Zenon DEF IsSum, SumStep, Pick
<1>4. QED
  BY <1>2, <1>3

LEMMA SumType ==
  ASSUME NEW f, NEW S, IsFiniteSet(S), \A x \in S : f[x] \in Nat
  PROVE  SumFunctionOnSet(f, S) \in Nat
<1>1. PICK g : IsSum(g, f, S) /\ SumFunctionOnSet(f, S) = g[S]
  BY SumOnSetIsSum
<1>2. QED
  BY <1>1, SumTakesAny

LEMMA SumOfNone ==
  ASSUME NEW f
  PROVE  SumFunctionOnSet(f, {}) = 0
<1>1. PICK g : IsSum(g, f, {}) /\ SumFunctionOnSet(f, {}) = g[{}]
  BY SumOnSetIsSum, FS_EmptySet
<1>2. QED
  BY <1>1 DEF IsSum, SumStep

LEMMA SumSame ==
  ASSUME NEW f, NEW e, NEW S, IsFiniteSet(S), \A x \in S : f[x] = e[x]
  PROVE  SumFunctionOnSet(f, S) = SumFunctionOnSet(e, S)
<1>1. PICK g : IsSum(g, f, S) /\ SumFunctionOnSet(f, S) = g[S]
  BY SumOnSetIsSum
<1>2. PICK h : IsSum(h, e, S) /\ SumFunctionOnSet(e, S) = h[S]
  BY SumOnSetIsSum
<1>3. g[S] = h[S]
  BY <1>1, <1>2, SumsAgree
<1>4. QED
  BY <1>1, <1>2, <1>3

LEMMA SumOfZeros ==
  ASSUME NEW f, NEW S, IsFiniteSet(S), \A x \in S : f[x] = 0
  PROVE  SumFunctionOnSet(f, S) = 0
<1>1. PICK g : IsSum(g, f, S) /\ SumFunctionOnSet(f, S) = g[S]
  BY SumOnSetIsSum
<1> DEFINE h == [s \in SUBSET S |-> 0]
           e == [x \in S |-> 0]
<1>2. IsSum(h, e, S)
  <2>1. \A s \in SUBSET S : s # {} => Pick(s) \in s
    BY DEF Pick
  <2>2. \A s \in SUBSET S : SumStep(h, e, s) = 0
    BY <2>1 DEF SumStep
  <2>3. QED
    BY <2>2 DEF IsSum
<1>3. h[S] = 0 /\ \A x \in S : f[x] = e[x]
  OBVIOUS
<1> HIDE DEF h, e
<1>4. QED
  BY <1>1, <1>2, <1>3, SumsAgree

LEMMA SumWithout ==
  ASSUME NEW f, NEW S, IsFiniteSet(S), \A x \in S : f[x] \in Nat, NEW x \in S
  PROVE  SumFunctionOnSet(f, S) = f[x] + SumFunctionOnSet(f, S \ {x})
<1> DEFINE R == S \ {x}
<1>0. IsFiniteSet(R) /\ R \subseteq S
  BY FS_Subset
<1>1. PICK g : IsSum(g, f, S) /\ SumFunctionOnSet(f, S) = g[S]
  BY SumOnSetIsSum
<1>2. PICK h : IsSum(h, f, R) /\ SumFunctionOnSet(f, R) = h[R]
  BY <1>0, SumOnSetIsSum
<1> HIDE DEF R
<1>3. g[R] = h[R]
  BY <1>0, <1>1, <1>2, SumsAgree
<1>4. g[S] = f[x] + g[R]
  BY <1>1, SumTakesAny DEF R
<1>5. QED
  BY <1>1, <1>2, <1>3, <1>4 DEF R

LEMMA SumWith ==
  ASSUME NEW f, NEW S, IsFiniteSet(S), NEW x, x \notin S,
         \A y \in S \cup {x} : f[y] \in Nat
  PROVE  SumFunctionOnSet(f, S \cup {x}) = SumFunctionOnSet(f, S) + f[x]
<1>1. IsFiniteSet(S \cup {x})
  BY FS_AddElement
<1>2. (S \cup {x}) \ {x} = S
  OBVIOUS
<1>3. SumFunctionOnSet(f, S \cup {x}) = f[x] + SumFunctionOnSet(f, S)
  BY <1>1, <1>2, SumWithout
<1>4. SumFunctionOnSet(f, S) \in Nat /\ f[x] \in Nat
  BY SumType
<1>5. QED
  BY <1>3, <1>4

LEMMA SumGrows ==
  ASSUME NEW f, NEW S, IsFiniteSet(S), \A x \in S : f[x] \in Nat,
         NEW R, R \subseteq S
  PROVE  SumFunctionOnSet(f, R) <= SumFunctionOnSet(f, S)
<1> DEFINE Less(s) == R \subseteq s /\ ~ (SumFunctionOnSet(f, R) <= SumFunctionOnSet(f, s))
           T == {n \in Nat : \E s \in SUBSET S : Cardinality(s) = n /\ Less(s)}
<1>0. \A s \in SUBSET S : /\ IsFiniteSet(s) /\ Cardinality(s) \in Nat
                          /\ SumFunctionOnSet(f, s) \in Nat
  BY FS_Subset, FS_CardinalityType, SumType
<1>1. ASSUME NEW m \in T, \A k \in T : m <= k
      PROVE  FALSE
  <2>1. PICK s \in SUBSET S : Cardinality(s) = m /\ Less(s)
    OBVIOUS
  <2>2. s # R
    BY <1>0, <2>1
  <2>3. PICK x \in s : x \notin R
    BY <2>1, <2>2
  <2> DEFINE q == s \ {x}
  <2>4. q \in SUBSET S /\ R \subseteq q /\ Cardinality(q) = m - 1 /\ m - 1 \in Nat
    BY <1>0, <2>1, <2>3, FS_RemoveElement
  <2>5. SumFunctionOnSet(f, s) = f[x] + SumFunctionOnSet(f, q)
    BY <1>0, SumWithout
  <2> HIDE DEF q
  <2>6. SumFunctionOnSet(f, R) <= SumFunctionOnSet(f, q)
    <3>1. m - 1 \notin T
      BY <1>1, <2>4
    <3>2. QED
      BY <2>4, <3>1
  <2>7. SumFunctionOnSet(f, R) <= SumFunctionOnSet(f, s)
    BY <1>0, <2>4, <2>5, <2>6
  <2>8. QED
    BY <2>1, <2>7
<1>2. T = {}
  <2>1. T \subseteq Nat
    OBVIOUS
  <2> HIDE DEF T
  <2>2. QED
    BY <1>1, <2>1, LeastNatural
<1>3. QED
  BY <1>0, <1>2

-----------------------------------------------------------------------------
(* Rows *)

\* Every operation takes a row of billing_credit_state to a row of it, as
\* long as reserve checks the balance and commit caps the charge.
LEMMA RowTypes ==
  ASSUME NEW row \in CreditRow, NEW amount \in Nat
  PROVE  /\ amount <= row.balance => Held(row, amount) \in CreditRow
         /\ Returned(row, amount) \in CreditRow
         /\ Hydrated(row, amount) \in CreditRow
         /\ Flushed(row) \in CreditRow
<1>1. amount <= row.balance => Held(row, amount) \in CreditRow
  <2>1. row.balance \in Nat /\ row.reserved \in Int
    BY DEF CreditRow
  <2>2. amount <= row.balance =>
          row.balance - amount \in Nat /\ row.reserved + amount \in Int
    BY <2>1
  <2>3. QED
    BY <2>2 DEF Held, CreditRow
<1>2. Returned(row, amount) \in CreditRow
  <2>1. row.balance + amount \in Nat /\ row.reserved - amount \in Int
    BY DEF CreditRow
  <2>2. QED
    BY <2>1 DEF Returned, CreditRow
<1>3. Hydrated(row, amount) \in CreditRow
  BY DEF Hydrated, CreditRow
<1>4. Flushed(row) \in CreditRow
  BY DEF Flushed, CreditRow
<1>5. QED
  BY <1>1, <1>2, <1>3, <1>4

LEMMA ChargedType ==
  ASSUME NEW row \in CreditRow, NEW amount \in Nat, NEW charge \in 0 .. amount,
         NEW now \in Nat
  PROVE  Charged(row, amount, charge, now) \in CreditRow
  BY DEF Charged, CreditRow

\* The capped charge never exceeds the hold.
LEMMA ChargeWithinHold ==
  ASSUME TypeOK, NEW r \in Open, NEW total \in Nat
  PROVE  /\ reservations[r] \in ReservationRow
         /\ reservations[r].account \in Account
         /\ reservations[r].amount \in Nat
         /\ ActualCharge(r, total) \in 0 .. reservations[r].amount
  BY DEF TypeOK, Open, ReservationRow, ActualCharge, Smaller

-----------------------------------------------------------------------------
(* Type correctness *)

LEMMA CloseType ==
  ASSUME TypeOK, NEW r \in Open, NEW outcome \in Outcome, Close(r, outcome)
  PROVE  /\ DOMAIN reservations' = DOMAIN reservations
         /\ DOMAIN reservations' \subseteq Reservation
         /\ reservations' \in [DOMAIN reservations' -> ReservationRow]
  BY DEF TypeOK, Close, Open, ReservationRow

LEMMA InitType == Init => TypeOK
  BY DEF Init, TypeOK, ZeroRow, CreditRow, ReservationRow, NoTime

LEMMA StepType == TypeOK /\ [Next]_ledgerVars => TypeOK'
<1> SUFFICES ASSUME TypeOK, [Next]_ledgerVars
             PROVE  TypeOK'
  OBVIOUS
<1>1. ASSUME NEW r \in Reservation, NEW a \in Account, NEW amount \in Amount,
             Reserve(r, a, amount)
      PROVE  TypeOK'
  <2>1. amount \in Nat /\ credit[a] \in CreditRow /\ amount <= credit[a].balance
    BY <1>1, AmountsAreNatural DEF TypeOK, Reserve, CreditRow
  <2>2. Held(credit[a], amount) \in CreditRow
    BY <2>1, RowTypes
  <2>3. credit' \in [Account -> CreditRow]
    BY <1>1, <2>2 DEF TypeOK, Reserve
  <2>4. /\ DOMAIN reservations' = DOMAIN reservations \cup {r}
        /\ reservations' \in [DOMAIN reservations' -> ReservationRow]
    BY <1>1, <2>1 DEF TypeOK, Reserve, ReservationRow, Outcome
  <2>5. QED
    BY <1>1, <2>3, <2>4 DEF TypeOK, Reserve
<1>2. ASSUME NEW r \in Reservation, NEW outcome \in ReleaseOutcome,
             Release(r, outcome)
      PROVE  TypeOK'
  <2>1. r \in Open /\ outcome \in Outcome /\ Close(r, outcome)
    BY <1>2 DEF Release, ReleaseOutcome
  <2>2. reservations[r].account \in Account /\ reservations[r].amount \in Nat
    BY <2>1, ChargeWithinHold
  <2>3. Returned(credit[reservations[r].account], reservations[r].amount) \in CreditRow
    <3>1. credit[reservations[r].account] \in CreditRow
      BY <2>2 DEF TypeOK
    <3>2. QED
      BY <2>2, <3>1, RowTypes
  <2>4. credit' \in [Account -> CreditRow]
    BY <1>2, <2>2, <2>3 DEF TypeOK, Release
  <2>5. QED
    BY <1>2, <2>1, <2>4, CloseType DEF TypeOK, Release
<1>3. ASSUME NEW r \in Reservation, NEW total \in Amount, Commit(r, total)
      PROVE  TypeOK'
  <2>1. r \in Open /\ "committed" \in Outcome /\ Close(r, "committed")
    BY <1>3 DEF Commit, Outcome
  <2>2. /\ reservations[r].account \in Account
        /\ reservations[r].amount \in Nat
        /\ ActualCharge(r, total) \in 0 .. reservations[r].amount
    BY <2>1, ChargeWithinHold, AmountsAreNatural
  <2>3. Charged(credit[reservations[r].account], reservations[r].amount,
                ActualCharge(r, total), clock) \in CreditRow
    BY <2>2, ChargedType DEF TypeOK
  <2>4. credit' \in [Account -> CreditRow]
    BY <1>3, <2>2, <2>3 DEF TypeOK, Commit
  <2>5. QED
    BY <1>3, <2>1, <2>4, CloseType DEF TypeOK, Commit
<1>4. ASSUME NEW a \in Account, NEW onChain \in Reading, Hydrate(a, onChain)
      PROVE  TypeOK'
  <2>1. credit[a] \in CreditRow /\ onChain \in Nat
    BY AmountsAreNatural DEF TypeOK
  <2>2. Hydrated(credit[a], onChain) \in CreditRow
    BY <2>1, RowTypes
  <2>3. QED
    BY <1>4, <2>2 DEF TypeOK, Hydrate
<1>5. ASSUME NEW a \in Account, FlushAccrued(a)
      PROVE  TypeOK'
  <2>1. Flushed(credit[a]) \in CreditRow
    BY RowTypes DEF TypeOK
  <2>2. QED
    BY <1>5, <2>1 DEF TypeOK, FlushAccrued
<1>6. CASE UNCHANGED ledgerVars
  BY <1>6 DEF ledgerVars, TypeOK
<1>7. QED
  BY <1>1, <1>2, <1>3, <1>4, <1>5, <1>6 DEF Next

\* Every behaviour of the ledger stays within its tables' types: balances
\* and accruals never go negative.
THEOREM LedgerTypeOK == Spec => []TypeOK
  BY InitType, StepType, PTL DEF Spec

-----------------------------------------------------------------------------
(* Accruals and their stamps *)

LEMMA StampStep ==
  TypeOK /\ AccruedIsStamped /\ [Next]_ledgerVars => AccruedIsStamped'
<1> SUFFICES ASSUME TypeOK, AccruedIsStamped, [Next]_ledgerVars, NEW a \in Account
             PROVE  /\ credit'[a].accrued > 0 <=> credit'[a].firstAt # NoTime
                    /\ credit'[a].firstAt < clock'
  BY DEF AccruedIsStamped
<1> /\ credit[a] \in CreditRow /\ clock \in Nat
    /\ credit[a].accrued > 0 <=> credit[a].firstAt # NoTime
    /\ credit[a].firstAt < clock
  BY DEF TypeOK, AccruedIsStamped
<1>1. ASSUME NEW r \in Reservation, NEW b \in Account, NEW amount \in Amount,
             Reserve(r, b, amount)
      PROVE  /\ credit'[a].accrued = credit[a].accrued
             /\ credit'[a].firstAt = credit[a].firstAt
             /\ clock' = clock
  BY <1>1 DEF Reserve, Held, TypeOK, CreditRow
<1>2. ASSUME NEW r \in Reservation, NEW outcome \in ReleaseOutcome,
             Release(r, outcome)
      PROVE  /\ credit'[a].accrued = credit[a].accrued
             /\ credit'[a].firstAt = credit[a].firstAt
             /\ clock' = clock
  BY <1>2 DEF Release, Returned, TypeOK, CreditRow
<1>3. ASSUME NEW r \in Reservation, NEW total \in Amount, Commit(r, total)
      PROVE  /\ credit'[a].accrued > 0 <=> credit'[a].firstAt # NoTime
             /\ credit'[a].firstAt < clock'
  <2> DEFINE b == reservations[r].account
             charge == ActualCharge(r, total)
  <2>1. r \in Open /\ total \in Nat
    BY <1>3, AmountsAreNatural DEF Commit
  <2>2. b \in Account /\ charge \in Nat
    BY <2>1, ChargeWithinHold
  <2>3. clock' = clock + 1
    BY <1>3 DEF Commit
  <2>4. CASE a # b
    <3>1. credit'[a] = credit[a]
      BY <1>3, <2>4 DEF Commit, TypeOK
    <3>2. QED
      BY <2>3, <3>1 DEF CreditRow, NoTime
  <2>5. CASE a = b
    <3>1. credit'[a] = Charged(credit[a], reservations[r].amount, charge, clock)
      BY <1>3, <2>5 DEF Commit, TypeOK
    <3>2. /\ credit'[a].accrued = credit[a].accrued + charge
          /\ credit'[a].firstAt = IF credit[a].firstAt = NoTime /\ charge > 0
                                 THEN clock ELSE credit[a].firstAt
      BY <3>1 DEF Charged
    <3>3. QED
      BY <2>2, <2>3, <3>2 DEF CreditRow, NoTime
  <2>6. QED
    BY <2>4, <2>5
<1>4. ASSUME NEW b \in Account, NEW onChain \in Reading, Hydrate(b, onChain)
      PROVE  /\ credit'[a].accrued = credit[a].accrued
             /\ credit'[a].firstAt = credit[a].firstAt
             /\ clock' = clock
  BY <1>4 DEF Hydrate, Hydrated, TypeOK, CreditRow
<1>5. ASSUME NEW b \in Account, FlushAccrued(b)
      PROVE  /\ credit'[a].accrued > 0 <=> credit'[a].firstAt # NoTime
             /\ credit'[a].firstAt < clock'
  BY <1>5 DEF FlushAccrued, Flushed, TypeOK, CreditRow, NoTime
<1>6. CASE UNCHANGED ledgerVars
  BY <1>6 DEF ledgerVars
<1>7. QED
  BY <1>1, <1>2, <1>3, <1>4, <1>5, <1>6 DEF Next

\* The "accrued > 0 but firstAccrualAt is null" case of selectFlushable is
\* dead code, and every stamp is older than the clock, so that an accrual
\* which starts later gets a batch id no earlier accrual had.
THEOREM LedgerStamps == Spec => []AccruedIsStamped
<1>1. Init => AccruedIsStamped
  BY DEF Init, AccruedIsStamped, ZeroRow, NoTime
<1>2. QED
  BY <1>1, StampStep, LedgerTypeOK, PTL DEF Spec

-----------------------------------------------------------------------------
(* Reserved credits are those of the open reservations *)

\* A hold of n has n units.
LEMMA UnitsOfHold ==
  ASSUME NEW r, NEW n \in Nat
  PROVE  /\ IsFiniteSet({r} \X (1 .. n))
         /\ Cardinality({r} \X (1 .. n)) = n
<1>1. IsFiniteSet({r}) /\ Cardinality({r}) = 1
  BY FS_Singleton
<1>2. IsFiniteSet(1 .. n) /\ Cardinality(1 .. n) = n
  BY FS_Interval
<1>3. /\ IsFiniteSet({r} \X (1 .. n))
      /\ Cardinality({r} \X (1 .. n)) = Cardinality({r}) * Cardinality(1 .. n)
  BY <1>1, <1>2, FS_Product
<1>4. 1 * n = n
  OBVIOUS
<1>5. QED
  BY <1>1, <1>2, <1>3, <1>4

\* The inductive invariant: the units are finitely many and counted by the
\* reserved column.
HoldsCounted ==
  \A a \in Account : /\ IsFiniteSet(HeldUnits(a))
                     /\ credit[a].reserved = Cardinality(HeldUnits(a))

\* A reservation that appears adds its units to those of its account.
LEMMA UnitsAfterReserve ==
  ASSUME TypeOK, HoldsCounted, NEW r \in Reservation, NEW b \in Account,
         NEW amount \in Amount, Reserve(r, b, amount), NEW a \in Account
  PROVE  /\ IsFiniteSet(HeldUnits(a))'
         /\ Cardinality(HeldUnits(a))' =
              Cardinality(HeldUnits(a)) + (IF a = b THEN amount ELSE 0)
<1>1. /\ r \notin DOMAIN reservations
      /\ DOMAIN reservations' = DOMAIN reservations \cup {r}
      /\ reservations'[r] = [account |-> b, amount |-> amount, outcome |-> "open"]
      /\ \A x \in DOMAIN reservations : reservations'[x] = reservations[x]
  BY DEF Reserve
<1>2. Open' = Open \cup {r}
  BY <1>1 DEF Open
<1>3. CASE a = b
  <2> DEFINE U == {r} \X (1 .. amount)
  <2>1. HeldUnits(a)' = HeldUnits(a) \cup U
    BY <1>1, <1>2, <1>3 DEF HeldUnits, Open
  <2>2. HeldUnits(a) \cap U = {}
    BY <1>1 DEF HeldUnits, Open
  <2>3. IsFiniteSet(U) /\ Cardinality(U) = amount
    BY UnitsOfHold, AmountsAreNatural
  <2>4. IsFiniteSet(HeldUnits(a)) /\ Cardinality(HeldUnits(a)) \in Nat
    BY FS_CardinalityType DEF HoldsCounted
  <2> HIDE DEF U
  <2>5. IsFiniteSet(HeldUnits(a) \cup U) /\ Cardinality(HeldUnits(a) \cup U) =
          Cardinality(HeldUnits(a)) + Cardinality(U) - Cardinality(HeldUnits(a) \cap U)
    BY <2>3, <2>4, FS_Union
  <2>6. Cardinality(HeldUnits(a) \cap U) = 0 /\ amount \in Nat
    BY <2>2, FS_EmptySet, AmountsAreNatural
  <2>7. QED
    BY <1>3, <2>1, <2>3, <2>4, <2>5, <2>6
<1>4. CASE a # b
  <2>1. HeldUnits(a)' = HeldUnits(a)
    BY <1>1, <1>2, <1>4 DEF HeldUnits, Open
  <2>2. IsFiniteSet(HeldUnits(a)) /\ Cardinality(HeldUnits(a)) \in Nat
    BY FS_CardinalityType DEF HoldsCounted
  <2>3. QED
    BY <1>4, <2>1, <2>2
<1>5. QED
  BY <1>3, <1>4

\* A reservation that is closed takes its units with it.
LEMMA UnitsAfterClose ==
  ASSUME TypeOK, HoldsCounted, NEW r \in Open, NEW outcome \in Outcome \ {"open"},
         Close(r, outcome), NEW a \in Account
  PROVE  /\ IsFiniteSet(HeldUnits(a))'
         /\ Cardinality(HeldUnits(a))' = Cardinality(HeldUnits(a)) -
              (IF a = reservations[r].account THEN reservations[r].amount ELSE 0)
<1>1. /\ DOMAIN reservations' = DOMAIN reservations
      /\ \A x \in DOMAIN reservations :
           /\ reservations'[x].account = reservations[x].account
           /\ reservations'[x].amount = reservations[x].amount
           /\ x # r => reservations'[x].outcome = reservations[x].outcome
      /\ reservations'[r].outcome # "open"
  BY DEF Close, Open, TypeOK, ReservationRow
<1>2. Open' = Open \ {r}
  BY <1>1 DEF Open
<1>3. reservations[r].amount \in Nat
  BY DEF TypeOK, Open, ReservationRow
<1>4. IsFiniteSet(HeldUnits(a)) /\ Cardinality(HeldUnits(a)) \in Nat
  BY FS_CardinalityType DEF HoldsCounted
<1>5. CASE a = reservations[r].account
  <2> DEFINE U == {r} \X (1 .. reservations[r].amount)
  <2>1. HeldUnits(a)' = HeldUnits(a) \ U
    BY <1>1, <1>2, <1>5 DEF HeldUnits, Open
  <2>2. HeldUnits(a) \cap U = U
    BY <1>5 DEF HeldUnits, Open
  <2>3. Cardinality(U) = reservations[r].amount
    BY <1>3, UnitsOfHold
  <2> HIDE DEF U
  <2>4. IsFiniteSet(HeldUnits(a) \ U) /\ Cardinality(HeldUnits(a) \ U) =
          Cardinality(HeldUnits(a)) - Cardinality(HeldUnits(a) \cap U)
    BY <1>4, FS_Difference
  <2>5. QED
    BY <1>5, <2>1, <2>2, <2>3, <2>4
<1>6. CASE a # reservations[r].account
  <2>1. HeldUnits(a)' = HeldUnits(a)
    BY <1>1, <1>2, <1>6 DEF HeldUnits, Open
  <2>2. QED
    BY <1>4, <1>6, <2>1
<1>7. QED
  BY <1>5, <1>6

\* A call of the ledger by a component that commits a total or hydrates a
\* reading of its own, any natural number: a cost with its margin, or what
\* the chain has come to hold.
AnyCall ==
  \/ \E r \in Reservation, a \in Account, amount \in Amount : Reserve(r, a, amount)
  \/ \E r \in Reservation, outcome \in ReleaseOutcome : Release(r, outcome)
  \/ \E r \in Reservation, total \in Nat : Commit(r, total)
  \/ \E a \in Account, onChain \in Nat : Hydrate(a, onChain)
  \/ \E a \in Account : FlushAccrued(a)

LEMMA NextIsACall == [Next]_ledgerVars => [AnyCall]_ledgerVars
BY AmountsAreNatural DEF Next, AnyCall

LEMMA HoldsStep == TypeOK /\ HoldsCounted /\ [AnyCall]_ledgerVars => HoldsCounted'
<1> SUFFICES ASSUME TypeOK, HoldsCounted, [AnyCall]_ledgerVars, NEW a \in Account
             PROVE  /\ IsFiniteSet(HeldUnits(a))'
                    /\ credit'[a].reserved = Cardinality(HeldUnits(a))'
  BY DEF HoldsCounted
<1> /\ credit[a] \in CreditRow
    /\ IsFiniteSet(HeldUnits(a))
    /\ credit[a].reserved = Cardinality(HeldUnits(a))
    /\ Cardinality(HeldUnits(a)) \in Nat
  BY FS_CardinalityType DEF TypeOK, HoldsCounted
<1>1. ASSUME NEW r \in Reservation, NEW b \in Account, NEW amount \in Amount,
             Reserve(r, b, amount)
      PROVE  /\ IsFiniteSet(HeldUnits(a))'
             /\ credit'[a].reserved = Cardinality(HeldUnits(a))'
  <2>1. credit'[a].reserved = credit[a].reserved + (IF a = b THEN amount ELSE 0)
    BY <1>1, AmountsAreNatural DEF Reserve, Held, TypeOK, CreditRow
  <2>2. QED
    BY <1>1, <2>1, UnitsAfterReserve
<1>2. ASSUME NEW r \in Reservation, NEW outcome \in ReleaseOutcome,
             Release(r, outcome)
      PROVE  /\ IsFiniteSet(HeldUnits(a))'
             /\ credit'[a].reserved = Cardinality(HeldUnits(a))'
  <2>1. r \in Open /\ Close(r, outcome) /\ outcome \in Outcome \ {"open"}
    BY <1>2 DEF Release, ReleaseOutcome
  <2>2. reservations[r].account \in Account /\ reservations[r].amount \in Nat
    BY <2>1 DEF TypeOK, Open, ReservationRow
  <2>3. credit'[a].reserved = credit[a].reserved -
          (IF a = reservations[r].account THEN reservations[r].amount ELSE 0)
    BY <1>2, <2>2 DEF Release, Returned, TypeOK, CreditRow
  <2>4. QED
    BY <2>1, <2>3, UnitsAfterClose
<1>3. ASSUME NEW r \in Reservation, NEW total \in Nat, Commit(r, total)
      PROVE  /\ IsFiniteSet(HeldUnits(a))'
             /\ credit'[a].reserved = Cardinality(HeldUnits(a))'
  <2>1. r \in Open /\ Close(r, "committed") /\ "committed" \in Outcome \ {"open"}
    BY <1>3 DEF Commit, Outcome
  <2>2. reservations[r].account \in Account /\ reservations[r].amount \in Nat
    BY <2>1 DEF TypeOK, Open, ReservationRow
  <2>3. credit'[a].reserved = credit[a].reserved -
          (IF a = reservations[r].account THEN reservations[r].amount ELSE 0)
    BY <1>3, <2>2 DEF Commit, Charged, TypeOK, CreditRow
  <2>4. QED
    BY <2>1, <2>3, UnitsAfterClose
<1>4. ASSUME NEW b \in Account, NEW onChain \in Nat, Hydrate(b, onChain)
      PROVE  /\ IsFiniteSet(HeldUnits(a))'
             /\ credit'[a].reserved = Cardinality(HeldUnits(a))'
  <2>1. credit'[a].reserved = credit[a].reserved
    BY <1>4 DEF Hydrate, Hydrated, TypeOK, CreditRow
  <2>2. HeldUnits(a)' = HeldUnits(a)
    BY <1>4 DEF Hydrate, HeldUnits, Open
  <2>3. QED
    BY <2>1, <2>2
<1>5. ASSUME NEW b \in Account, FlushAccrued(b)
      PROVE  /\ IsFiniteSet(HeldUnits(a))'
             /\ credit'[a].reserved = Cardinality(HeldUnits(a))'
  <2>1. credit'[a].reserved = credit[a].reserved
    BY <1>5 DEF FlushAccrued, Flushed, TypeOK, CreditRow
  <2>2. HeldUnits(a)' = HeldUnits(a)
    BY <1>5 DEF FlushAccrued, HeldUnits, Open
  <2>3. QED
    BY <2>1, <2>2
<1>6. CASE UNCHANGED ledgerVars
  BY <1>6 DEF ledgerVars, HeldUnits, Open
<1>7. QED
  BY <1>1, <1>2, <1>3, <1>4, <1>5, <1>6 DEF AnyCall

\* The units held are counted when nothing is held yet.
LEMMA NothingHeld ==
  ASSUME reservations = [r \in {} |-> ZeroRow],
         \A a \in Account : credit[a].reserved = 0
  PROVE  HoldsCounted
<1>1. \A a \in Account : HeldUnits(a) = {}
  BY DEF HeldUnits, Open
<1>2. QED
  BY <1>1, FS_EmptySet DEF HoldsCounted

LEMMA CountedIsHeld == HoldsCounted => ReservedIsHeld
BY DEF HoldsCounted, ReservedIsHeld

\* The reserved counter is the total of the open reservations, of any
\* number and any amounts.
THEOREM LedgerReservedIsHeld == Spec => []ReservedIsHeld
<1>1. Init => HoldsCounted
  BY NothingHeld DEF Init, ZeroRow
<1>2. QED
  BY <1>1, CountedIsHeld, HoldsStep, NextIsACall, LedgerTypeOK, PTL DEF Spec

-----------------------------------------------------------------------------
(* Steps *)

\* The row of a reservation changes only when it is closed.
RowsAreFinal ==
  \A r \in DOMAIN reservations :
    /\ r \in DOMAIN reservations'
    /\ reservations'[r] # reservations[r] =>
         /\ reservations[r].outcome = "open"
         /\ reservations'[r].amount = reservations[r].amount
         /\ reservations'[r].account = reservations[r].account

LEMMA FinalStep == TypeOK /\ [AnyCall]_ledgerVars => [RowsAreFinal]_ledgerVars
<1> SUFFICES ASSUME TypeOK, AnyCall PROVE RowsAreFinal
  OBVIOUS
<1>1. ASSUME NEW r \in Reservation, NEW a \in Account, NEW amount \in Amount,
             Reserve(r, a, amount)
      PROVE  RowsAreFinal
  BY <1>1 DEF Reserve, RowsAreFinal
<1>2. ASSUME NEW r \in Open, NEW outcome, Close(r, outcome)
      PROVE  RowsAreFinal
  BY <1>2 DEF Close, Open, TypeOK, ReservationRow, RowsAreFinal
<1>3. CASE UNCHANGED reservations
  BY <1>3 DEF RowsAreFinal
<1>4. QED
  BY <1>1, <1>2, <1>3 DEF AnyCall, Release, Commit, Hydrate, FlushAccrued

\* A closed reservation is never reopened, repriced or moved.
THEOREM LedgerClosedIsFinal == Spec => ClosedIsFinal
BY FinalStep, NextIsACall, LedgerTypeOK, PTL DEF Spec, ClosedIsFinal, RowsAreFinal

\* What a call may do to the credits of an account.
Conserved(a) ==
  \/ Backed(a)' = Backed(a)
  \/ /\ credit'[a].reserved = credit[a].reserved
     /\ credit'[a].accrued = credit[a].accrued
     /\ reservations' = reservations
  \/ /\ Backed(a)' = Backed(a) - credit[a].accrued
     /\ credit'[a].balance = credit[a].balance
     /\ reservations' = reservations

LEMMA ConservedStep ==
  TypeOK /\ [AnyCall]_ledgerVars => [\A a \in Account : Conserved(a)]_ledgerVars
<1> SUFFICES ASSUME TypeOK, AnyCall, NEW a \in Account PROVE Conserved(a)
  OBVIOUS
<1> credit[a] \in CreditRow
  BY DEF TypeOK
<1>1. ASSUME NEW r \in Reservation, NEW b \in Account, NEW amount \in Amount,
             Reserve(r, b, amount)
      PROVE  Backed(a)' = Backed(a)
  BY <1>1, AmountsAreNatural DEF Reserve, Held, Backed, TypeOK, CreditRow
<1>2. ASSUME NEW r \in Reservation, NEW outcome \in ReleaseOutcome,
             Release(r, outcome)
      PROVE  Backed(a)' = Backed(a)
  <2>1. reservations[r].account \in Account /\ reservations[r].amount \in Nat
    BY <1>2 DEF Release, TypeOK, Open, ReservationRow
  <2>2. QED
    BY <1>2, <2>1 DEF Release, Returned, Backed, TypeOK, CreditRow
<1>3. ASSUME NEW r \in Reservation, NEW total \in Nat, Commit(r, total)
      PROVE  Backed(a)' = Backed(a)
  <2>1. /\ reservations[r].account \in Account
        /\ reservations[r].amount \in Nat
        /\ ActualCharge(r, total) \in Nat
    BY <1>3, ChargeWithinHold DEF Commit
  <2>2. QED
    BY <1>3, <2>1 DEF Commit, Charged, Backed, TypeOK, CreditRow
<1>4. ASSUME NEW b \in Account, NEW onChain \in Nat, Hydrate(b, onChain)
      PROVE  /\ credit'[a].reserved = credit[a].reserved
             /\ credit'[a].accrued = credit[a].accrued
             /\ reservations' = reservations
  BY <1>4 DEF Hydrate, Hydrated, TypeOK, CreditRow
<1>5. ASSUME NEW b \in Account, FlushAccrued(b)
      PROVE  \/ Backed(a)' = Backed(a)
             \/ /\ Backed(a)' = Backed(a) - credit[a].accrued
                /\ credit'[a].balance = credit[a].balance
                /\ reservations' = reservations
  BY <1>5 DEF FlushAccrued, Flushed, Backed, TypeOK, CreditRow
<1>6. QED
  BY <1>1, <1>2, <1>3, <1>4, <1>5 DEF AnyCall, Conserved

\* Reserve, release and commit move credits and never create or lose any.
THEOREM LedgerSumIsConserved == Spec => SumIsConserved
BY ConservedStep, NextIsACall, LedgerTypeOK, PTL DEF Spec, SumIsConserved, Conserved

-----------------------------------------------------------------------------
(* The ledger implements the abstract account *)

HoldOf(r) == [id |-> r, account |-> reservations[r].account,
              amount |-> reservations[r].amount]

HoldsInForce == {HoldOf(r) : r \in Open}

Spendable == [a \in Account |-> credit[a].balance]

Owed == [a \in Account |-> credit[a].accrued]

\* Closing a reservation for a charge settles its hold for that charge.
LEMMA CloseSettles ==
  ASSUME TypeOK, NEW r \in Open, NEW outcome \in Outcome \ {"open"},
         Close(r, outcome), NEW charge \in 0 .. reservations[r].amount,
         LET b == reservations[r].account
         IN \A a \in Account :
              /\ credit'[a].balance = credit[a].balance +
                   (IF a = b THEN reservations[r].amount - charge ELSE 0)
              /\ credit'[a].accrued = credit[a].accrued +
                   (IF a = b THEN charge ELSE 0)
  PROVE  Promise!Next
<1> DEFINE h == HoldOf(r)
<1>1. /\ DOMAIN reservations' = DOMAIN reservations
      /\ \A x \in DOMAIN reservations :
           /\ reservations'[x].account = reservations[x].account
           /\ reservations'[x].amount = reservations[x].amount
           /\ x # r => reservations'[x].outcome = reservations[x].outcome
      /\ reservations'[r].outcome # "open"
  BY DEF Close, Open, TypeOK, ReservationRow
<1>2. Open' = Open \ {r} /\ r \in DOMAIN reservations
  BY <1>1 DEF Open
<1>3. /\ h \in HoldsInForce
      /\ h.id = r /\ h.account = reservations[r].account
      /\ h.amount = reservations[r].amount
      /\ h.account \in Account /\ h.amount \in Nat /\ charge \in 0 .. h.amount
  BY DEF HoldsInForce, HoldOf, Open, TypeOK, ReservationRow
<1>4. \A x \in Open' : HoldOf(x)' = HoldOf(x)
  BY <1>1, <1>2 DEF HoldOf, Open
<1>5. HoldsInForce' = HoldsInForce \ {h}
  <2>1. HoldsInForce' = {HoldOf(x)' : x \in Open'}
    BY DEF HoldsInForce
  <2>2. {HoldOf(x)' : x \in Open'} = {HoldOf(x) : x \in Open'}
    BY <1>4
  <2>3. \A x \in Open : HoldOf(x) = h <=> x = r
    BY DEF HoldOf
  <2>4. {HoldOf(x) : x \in Open \ {r}} = {HoldOf(x) : x \in Open} \ {h}
    BY <2>3
  <2>5. QED
    BY <1>2, <2>1, <2>2, <2>4 DEF HoldsInForce
<1>6. (DOMAIN reservations \ Open)' = (DOMAIN reservations \ Open) \cup {h.id}
  BY <1>1, <1>2, <1>3
<1>7. \A a \in Account : credit[a].balance \in Nat /\ credit[a].accrued \in Nat
  BY DEF TypeOK, CreditRow
<1>8. Spendable' = [Spendable EXCEPT ![h.account] = @ + (h.amount - charge)]
  BY <1>3, <1>7 DEF Spendable
<1>9. Owed' = [Owed EXCEPT ![h.account] = @ + charge]
  BY <1>3, <1>7 DEF Owed
<1>10. Promise!Settle(h, charge)
  BY <1>5, <1>6, <1>8, <1>9
  DEF Promise!Settle, HoldsInForce, HoldOf, Spendable, Owed
<1>11. QED
  BY <1>3, <1>10 DEF Promise!Next, HoldsInForce, HoldOf

LEMMA StepImplementsPromise ==
  TypeOK /\ [AnyCall]_ledgerVars => [Promise!Next]_(Promise!accountVars)
<1> SUFFICES ASSUME TypeOK, [AnyCall]_ledgerVars
             PROVE  [Promise!Next]_(Promise!accountVars)
  OBVIOUS
<1>0. \A a \in Account :
        /\ credit[a] \in CreditRow
        /\ credit[a].balance \in Nat /\ credit[a].reserved \in Int
        /\ credit[a].accrued \in Nat
  BY DEF TypeOK, CreditRow
<1>1. ASSUME NEW r \in Reservation, NEW b \in Account, NEW amount \in Amount,
             Reserve(r, b, amount)
      PROVE  Promise!Next
  <2> DEFINE h == [id |-> r, account |-> b, amount |-> amount]
  <2>1. /\ r \notin DOMAIN reservations
        /\ DOMAIN reservations' = DOMAIN reservations \cup {r}
        /\ reservations'[r] = [account |-> b, amount |-> amount, outcome |-> "open"]
        /\ \A x \in DOMAIN reservations : reservations'[x] = reservations[x]
    BY <1>1 DEF Reserve
  <2>2. Open' = Open \cup {r} /\ r \notin Open
    BY <2>1 DEF Open
  <2>3. HoldsInForce' = HoldsInForce \cup {h}
    <3>1. HoldsInForce' = {HoldOf(x)' : x \in Open'}
      BY DEF HoldsInForce
    <3>2. \A x \in Open : HoldOf(x)' = HoldOf(x)
      BY <2>1 DEF HoldOf, Open
    <3>3. HoldOf(r)' = h
      BY <2>1 DEF HoldOf
    <3>4. {HoldOf(x)' : x \in Open'} = {HoldOf(x) : x \in Open} \cup {h}
      BY <2>2, <3>2, <3>3
    <3>5. QED
      BY <3>1, <3>4 DEF HoldsInForce
  <2>4. h \in HoldsInForce' \ HoldsInForce
    BY <2>2, <2>3 DEF HoldsInForce, HoldOf
  <2>5. (DOMAIN reservations \ Open)' = DOMAIN reservations \ Open
    BY <2>1, <2>2
  <2>6. r \notin {g.id : g \in HoldsInForce} \cup (DOMAIN reservations \ Open)
    BY <2>1 DEF HoldsInForce, HoldOf, Open
  <2>7. h.amount \in Nat /\ h.amount <= Spendable[h.account]
    BY <1>0, <1>1, AmountsAreNatural DEF Reserve, Spendable
  <2>8. Spendable' = [Spendable EXCEPT ![h.account] = @ - h.amount]
    <3>1. Held(credit[b], amount).balance = credit[b].balance - amount
      BY <1>0 DEF Held, CreditRow
    <3>2. \A a \in Account : credit'[a] = IF a = b THEN Held(credit[b], amount)
                                        ELSE credit[a]
      BY <1>1 DEF Reserve, TypeOK
    <3>3. QED
      BY <3>1, <3>2 DEF Spendable
  <2>9. Owed' = Owed
    BY <1>0, <1>1 DEF Reserve, Held, Owed, TypeOK, CreditRow
  <2>10. Promise!TakeHold(h)
    BY <2>3, <2>5, <2>6, <2>7, <2>8, <2>9
    DEF Promise!TakeHold, Promise!Ids, HoldsInForce, HoldOf, Spendable, Owed
  <2>11. QED
    BY <2>4, <2>10 DEF Promise!Next, HoldsInForce, HoldOf
<1>2. ASSUME NEW r \in Reservation, NEW outcome \in ReleaseOutcome,
             Release(r, outcome)
      PROVE  Promise!Next
  <2>1. r \in Open /\ Close(r, outcome) /\ outcome \in Outcome \ {"open"}
    BY <1>2 DEF Release, ReleaseOutcome
  <2>2. reservations[r].account \in Account /\ reservations[r].amount \in Nat
    BY <2>1 DEF TypeOK, Open, ReservationRow
  <2>3. \A a \in Account :
          /\ credit'[a].balance = credit[a].balance +
               (IF a = reservations[r].account THEN reservations[r].amount - 0 ELSE 0)
          /\ credit'[a].accrued = credit[a].accrued +
               (IF a = reservations[r].account THEN 0 ELSE 0)
    BY <1>0, <1>2, <2>2 DEF Release, Returned, TypeOK, CreditRow
  <2>4. 0 \in 0 .. reservations[r].amount
    BY <2>2
  <2>5. QED
    BY <2>1, <2>3, <2>4, CloseSettles
<1>3. ASSUME NEW r \in Reservation, NEW total \in Nat, Commit(r, total)
      PROVE  Promise!Next
  <2> DEFINE charge == ActualCharge(r, total)
  <2>1. r \in Open /\ Close(r, "committed") /\ "committed" \in Outcome \ {"open"}
    BY <1>3 DEF Commit, Outcome
  <2>2. /\ reservations[r].account \in Account /\ reservations[r].amount \in Nat
        /\ charge \in 0 .. reservations[r].amount
    BY <2>1, ChargeWithinHold
  <2>3. \A a \in Account :
          /\ credit'[a].balance = credit[a].balance +
               (IF a = reservations[r].account
                THEN reservations[r].amount - charge ELSE 0)
          /\ credit'[a].accrued = credit[a].accrued +
               (IF a = reservations[r].account THEN charge ELSE 0)
    BY <1>0, <1>3, <2>2 DEF Commit, Charged, TypeOK
  <2> HIDE DEF charge
  <2>4. QED
    BY <2>1, <2>2, <2>3, CloseSettles
<1>4. ASSUME NEW b \in Account, NEW onChain \in Nat, Hydrate(b, onChain)
      PROVE  Promise!Next
  <2>1. Hydrated(credit[b], onChain).balance \in Nat
    BY <1>0, RowTypes DEF CreditRow
  <2>2. Spendable' = [Spendable EXCEPT ![b] = Spendable'[b]] /\ Spendable'[b] \in Nat
    BY <1>0, <1>4, <2>1 DEF Hydrate, Spendable, TypeOK
  <2>3. Owed' = Owed
    BY <1>0, <1>4 DEF Hydrate, Hydrated, Owed, TypeOK, CreditRow
  <2>4. reservations' = reservations /\ Open' = Open
    BY <1>4 DEF Hydrate, Open
  <2>5. Promise!Sync(b)
    BY <2>2, <2>3, <2>4 DEF Promise!Sync, Spendable, Owed
  <2>6. QED
    BY <2>5 DEF Promise!Next
<1>5. ASSUME NEW b \in Account, FlushAccrued(b)
      PROVE  Promise!Next
  <2>1. Owed' = [Owed EXCEPT ![b] = 0]
    BY <1>0, <1>5 DEF FlushAccrued, Flushed, Owed, TypeOK, CreditRow
  <2>2. Spendable' = Spendable
    BY <1>0, <1>5 DEF FlushAccrued, Flushed, Spendable, TypeOK, CreditRow
  <2>3. reservations' = reservations /\ Open' = Open
    BY <1>5 DEF FlushAccrued, Open
  <2>4. Promise!Collect(b)
    BY <2>1, <2>2, <2>3 DEF Promise!Collect, Spendable, Owed
  <2>5. QED
    BY <2>4 DEF Promise!Next
<1>6. CASE UNCHANGED ledgerVars
  BY <1>6 DEF ledgerVars, Open, Promise!accountVars
<1>7. QED
  BY <1>1, <1>2, <1>3, <1>4, <1>5, <1>6 DEF AnyCall

\* A ledger that holds nothing and owes nothing is an account at its start,
\* whatever credits it has.
LEMMA StartsAsPromised ==
  ASSUME TypeOK, reservations = [r \in {} |-> ZeroRow],
         \A a \in Account : credit[a].accrued = 0
  PROVE  Promise!Init
<1>1. [a \in Account |-> credit[a].balance] \in [Account -> Nat]
  BY DEF TypeOK, CreditRow
<1>2. QED
  BY <1>1 DEF Promise!Init, Open

\* Every behaviour of the ledger is one of the abstract account: a hold is
\* settled exactly once, for a charge it covers, and what it does not spend
\* is spendable again.
THEOREM LedgerImplementsPromise == Spec => ImplementsPromise
<1>1. Init => Promise!Init
  BY InitType, StartsAsPromised DEF Init, ZeroRow
<1>2. QED
  BY <1>1, StepImplementsPromise, NextIsACall, LedgerTypeOK, PTL
  DEF Spec, ImplementsPromise, Promise!Spec
=============================================================================
