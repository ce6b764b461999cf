------------------------- MODULE CountingTheorems -------------------------
(***************************************************************************)
(* What the proofs about data need to know: the least number of a set,     *)
(* which stands in for induction (the least counterexample to a claim has  *)
(* a predecessor that is none), and the sums of the ledger and the budget. *)
(***************************************************************************)
EXTENDS Totals, FiniteSetTheorems, FunctionTheorems, TLAPS

(* Every set of natural numbers that is not empty has a least element. *)
LEMMA LeastNat ==
    ASSUME NEW S, S \subseteq Nat, S # {}
    PROVE  \E x \in S : \A y \in S : x <= y
<1> DEFINE R == StrictSubsetOrdering(Nat)
           T == {0..n : n \in S}
<1>1. \A n \in S : n \in Nat /\ IsFiniteSet(0..n) /\ 0..n \subseteq Nat
  BY FS_Interval
<1>2. T \subseteq FiniteSubsetsOf(Nat) /\ T # {}
  BY <1>1 DEF FiniteSubsetsOf
<1> HIDE DEF T
<1>3. PICK t \in T : \A u \in T : <<u, t>> \notin R
  BY <1>2, FS_StrictSubsetOrderingWellFounded, WFMin
<1>4. PICK x \in S : t = 0..x
  BY DEF T
<1>5. ASSUME NEW y \in S PROVE x <= y
  <2>1. 0..y \in T
    BY DEF T
  <2>2. ~(0..y \subseteq 0..x /\ 0..y # 0..x)
    BY <1>1, <1>3, <1>4, <2>1 DEF StrictSubsetOrdering
  <2>3. x \in Nat /\ y \in Nat
    BY <1>1
  <2>4. CASE y < x
    <3>1. 0..y \subseteq 0..x
      BY <2>3, <2>4
    <3>2. x \in 0..x /\ x \notin 0..y
      BY <2>3, <2>4
    <3>3. QED
      BY <2>2, <3>1, <3>2
  <2>5. QED
    BY <2>3, <2>4
<1>6. QED
  BY <1>5

-----------------------------------------------------------------------------
(* Sums *)

\* Finitely many rows, an amount for each.
Amounts(f) == IsFiniteSet(DOMAIN f) /\ \A x \in DOMAIN f : f[x] \in Nat

(* The units of one entry. *)
LEMMA UnitsOf ==
    ASSUME NEW f, NEW u
    PROVE  u \in Units(f) <=>
              \E x \in DOMAIN f : \E n \in 1..f[x] : u = <<x, n>>
<1>1. \A x : u \in {x} \X (1..f[x]) <=> \E n \in 1..f[x] : u = <<x, n>>
  OBVIOUS
<1>2. QED
  BY <1>1 DEF Units

LEMMA UnitParts ==
    ASSUME NEW f, NEW u \in Units(f)
    PROVE  u = <<u[1], u[2]>> /\ u[1] \in DOMAIN f /\ u[2] \in 1..f[u[1]]
BY UnitsOf

(* A sum of finitely many amounts is an amount. *)
LEMMA TotalType ==
    ASSUME NEW f, Amounts(f)
    PROVE  IsFiniteSet(Units(f)) /\ Total(f) \in Nat
<1> DEFINE S == DOMAIN f
           T == {{x} \X (1..f[x]) : x \in S}
           g == [x \in S |-> {x} \X (1..f[x])]
<1>1. IsFiniteSet(S) /\ \A x \in S : f[x] \in Nat
  BY DEF Amounts
<1>2. g \in Surjection(S, T)
  BY Fun_IsSurj
<1>3. IsFiniteSet(T)
  BY <1>1, <1>2, FS_Surjection
<1>4. ASSUME NEW x \in S PROVE IsFiniteSet({x} \X (1..f[x]))
  <2>1. IsFiniteSet({x})
    BY FS_Singleton
  <2>2. IsFiniteSet(1..f[x])
    BY <1>1, FS_Interval
  <2>3. QED
    BY <2>1, <2>2, FS_Product
<1>5. \A t \in T : IsFiniteSet(t)
  BY <1>4
<1>6. IsFiniteSet(Units(f))
  BY <1>3, <1>5, FS_UNION DEF Units
<1>7. QED
  BY <1>6, FS_CardinalityType DEF Total

(* The sum over no row is zero. *)
LEMMA TotalOfNone ==
    ASSUME NEW f, DOMAIN f = {}
    PROVE  Amounts(f) /\ Total(f) = 0
<1>1. Units(f) = {}
  BY UnitsOf
<1>2. QED
  BY <1>1, FS_EmptySet DEF Total, Amounts

(* The sum over one row is its amount. *)
LEMMA TotalOfOne ==
    ASSUME NEW f, NEW e, DOMAIN f = {e}, f[e] \in Nat
    PROVE  Amounts(f) /\ Total(f) = f[e]
<1>1. Units(f) = {e} \X (1..f[e])
  BY DEF Units
<1>2. IsFiniteSet({e}) /\ Cardinality({e}) = 1
  BY FS_Singleton
<1>3. IsFiniteSet(1..f[e]) /\ Cardinality(1..f[e]) = f[e]
  BY FS_Interval
<1>4. Cardinality({e} \X (1..f[e])) = 1 * f[e]
  BY <1>2, <1>3, FS_Product
<1>5. QED
  BY <1>1, <1>2, <1>4 DEF Total, Amounts

(* The sum over a set of rows that falls into two parts. *)
LEMMA TotalSplit ==
    ASSUME NEW f, NEW g, NEW h, Amounts(f),
           DOMAIN f = DOMAIN g \cup DOMAIN h,
           DOMAIN g \cap DOMAIN h = {},
           \A x \in DOMAIN g : g[x] = f[x],
           \A x \in DOMAIN h : h[x] = f[x]
    PROVE  /\ Amounts(g) /\ Amounts(h)
           /\ Total(f) = Total(g) + Total(h)
<1>1. Amounts(g) /\ Amounts(h)
  <2>1. DOMAIN g \in SUBSET DOMAIN f /\ DOMAIN h \in SUBSET DOMAIN f
    OBVIOUS
  <2>2. IsFiniteSet(DOMAIN g) /\ IsFiniteSet(DOMAIN h)
    BY <2>1, FS_Subset DEF Amounts
  <2>3. QED
    BY <2>2 DEF Amounts
<1>2. Units(f) = Units(g) \cup Units(h)
  <2>1. ASSUME NEW u PROVE u \in Units(f) <=> u \in Units(g) \/ u \in Units(h)
    BY UnitsOf
  <2>2. QED
    BY <2>1
<1>3. Units(g) \cap Units(h) = {}
  <2>1. ASSUME NEW u PROVE ~(u \in Units(g) /\ u \in Units(h))
    BY UnitsOf
  <2>2. QED
    BY <2>1
<1>4. IsFiniteSet(Units(g)) /\ IsFiniteSet(Units(h))
  BY <1>1, TotalType
<1>5. Cardinality(Units(g) \cap Units(h)) = 0
  BY <1>3, FS_EmptySet
<1>6. Total(g) \in Nat /\ Total(h) \in Nat
  BY <1>1, TotalType
<1>7. Cardinality(Units(g) \cup Units(h)) = Total(g) + Total(h) - 0
  BY <1>4, <1>5, FS_Union DEF Total
<1>8. Total(f) = Total(g) + Total(h)
  BY <1>2, <1>6, <1>7 DEF Total
<1>9. QED
  BY <1>1, <1>8

(* Fewer rows, or smaller amounts, do not add up to more. *)
LEMMA TotalMonotone ==
    ASSUME NEW f, NEW g, Amounts(g), DOMAIN f \subseteq DOMAIN g,
           \A x \in DOMAIN f : f[x] \in Nat /\ f[x] <= g[x]
    PROVE  Amounts(f) /\ Total(f) <= Total(g)
<1>1. IsFiniteSet(DOMAIN f)
  BY FS_Subset DEF Amounts
<1>2. \A x \in DOMAIN f : 1..f[x] \subseteq 1..g[x]
  BY DEF Amounts
<1>3. Units(f) \in SUBSET Units(g)
  <2>1. ASSUME NEW u, u \in Units(f) PROVE u \in Units(g)
    BY <1>2, <2>1, UnitsOf
  <2>2. QED
    BY <2>1
<1>4. QED
  BY <1>1, <1>3, TotalType, FS_Subset DEF Total, Amounts

(* When each amount is covered by two others, so is the sum. *)
LEMMA TotalCovered ==
    ASSUME NEW f, NEW g, NEW h, Amounts(f), Amounts(g), Amounts(h),
           DOMAIN f = DOMAIN g, DOMAIN f = DOMAIN h,
           \A x \in DOMAIN f : f[x] <= g[x] + h[x]
    PROVE  Total(f) <= Total(g) + Total(h)
<1> DEFINE rest == Units(f) \ Units(g)
           move == [u \in rest |-> <<u[1], u[2] - g[u[1]]>>]
<1>1. \A x \in DOMAIN f : f[x] \in Nat /\ g[x] \in Nat /\ h[x] \in Nat
  BY DEF Amounts
<1>2. ASSUME NEW u \in rest
      PROVE  /\ u = <<u[1], u[2]>> /\ u[1] \in DOMAIN f /\ u[2] \in Nat
             /\ u[2] - g[u[1]] \in 1..h[u[1]]
  <2>1. u = <<u[1], u[2]>> /\ u[1] \in DOMAIN f /\ u[2] \in 1..f[u[1]]
    BY UnitParts
  <2>2. u[2] \notin 1..g[u[1]]
    BY <2>1, UnitsOf
  <2>3. f[u[1]] \in Nat /\ g[u[1]] \in Nat /\ h[u[1]] \in Nat /\ f[u[1]] <= g[u[1]] + h[u[1]]
    BY <1>1, <2>1
  <2>4. QED
    BY <2>1, <2>2, <2>3
<1>3. move \in [rest -> Units(h)]
  BY <1>2, UnitsOf
<1>4. ASSUME NEW u \in rest, NEW v \in rest, move[u] = move[v]
      PROVE  u = v
  <2>1. u[1] = v[1] /\ u[2] - g[u[1]] = v[2] - g[u[1]]
    BY <1>4
  <2>2. g[u[1]] \in Nat /\ u[2] \in Nat /\ v[2] \in Nat
    BY <1>1, <1>2
  <2>3. u[2] = v[2]
    BY <2>1, <2>2
  <2>4. QED
    BY <1>2, <2>1, <2>3
<1>5. move \in Injection(rest, Units(h))
  BY <1>3, <1>4, Fun_IsInj
<1>6. /\ IsFiniteSet(Units(f)) /\ IsFiniteSet(Units(g)) /\ IsFiniteSet(Units(h))
      /\ Total(f) \in Nat /\ Total(g) \in Nat /\ Total(h) \in Nat
  BY TotalType
<1> HIDE DEF move
<1>7. IsFiniteSet(rest) /\ Cardinality(rest) <= Cardinality(Units(h))
  BY <1>5, <1>6, FS_Injection
<1>8. Cardinality(rest) = Cardinality(Units(f)) - Cardinality(Units(f) \cap Units(g))
  BY <1>6, FS_Difference
<1>9. /\ IsFiniteSet(Units(f) \cap Units(g))
      /\ Cardinality(Units(f) \cap Units(g)) <= Cardinality(Units(g))
  BY <1>6, FS_Intersection
<1>10. Cardinality(rest) \in Nat /\ Cardinality(Units(f) \cap Units(g)) \in Nat
  BY <1>7, <1>9, FS_CardinalityType
<1>11. QED
  BY <1>6, <1>7, <1>8, <1>9, <1>10 DEF Total

(* Naming the rows differently does not change what they add up to. *)
LEMMA TotalRenamed ==
    ASSUME NEW f, NEW g, NEW b, Amounts(f),
           b \in Bijection(DOMAIN f, DOMAIN g),
           \A x \in DOMAIN f : g[b[x]] = f[x]
    PROVE  Amounts(g) /\ Total(g) = Total(f)
<1> DEFINE move == [u \in Units(f) |-> <<b[u[1]], u[2]>>]
<1>1. /\ b \in [DOMAIN f -> DOMAIN g]
      /\ \A x, y \in DOMAIN f : b[x] = b[y] => x = y
      /\ \A z \in DOMAIN g : \E x \in DOMAIN f : b[x] = z
  BY Fun_BijectionProperties
<1>2. Amounts(g)
  <2>1. IsFiniteSet(DOMAIN g)
    BY Fun_ExistsBij, FS_Bijection DEF Amounts
  <2>2. \A z \in DOMAIN g : g[z] \in Nat
    BY <1>1 DEF Amounts
  <2>3. QED
    BY <2>1, <2>2 DEF Amounts
<1>3. \A u \in Units(f) : u[1] \in DOMAIN f /\ u[2] \in 1..f[u[1]] /\ u = <<u[1], u[2]>>
  BY UnitParts
<1>4. move \in [Units(f) -> Units(g)]
  <2>1. ASSUME NEW u \in Units(f) PROVE <<b[u[1]], u[2]>> \in Units(g)
    BY <1>1, <1>3, UnitsOf
  <2>2. QED
    BY <2>1
<1>5. \A u, v \in Units(f) : move[u] = move[v] => u = v
  BY <1>1, <1>3
<1>6. \A w \in Units(g) : \E u \in Units(f) : move[u] = w
  <2>1. SUFFICES ASSUME NEW w \in Units(g) PROVE \E u \in Units(f) : move[u] = w
    OBVIOUS
  <2>2. w = <<w[1], w[2]>> /\ w[1] \in DOMAIN g /\ w[2] \in 1..g[w[1]]
    BY UnitParts
  <2>3. PICK x \in DOMAIN f : b[x] = w[1]
    BY <1>1, <2>2
  <2>4. <<x, w[2]>> \in Units(f)
    BY <2>2, <2>3, UnitsOf
  <2>5. move[<<x, w[2]>>] = w
    BY <2>2, <2>3, <2>4
  <2>6. QED
    BY <2>4, <2>5
<1>7. move \in Bijection(Units(f), Units(g))
  BY <1>4, <1>5, <1>6, Fun_IsBij
<1>8. ExistsBijection(Units(f), Units(g))
  BY <1>7, Fun_ExistsBij
<1>9. IsFiniteSet(Units(f))
  BY TotalType
<1>10. Cardinality(Units(g)) = Cardinality(Units(f))
  BY <1>8, <1>9, FS_Bijection
<1>11. QED
  BY <1>2, <1>10 DEF Total

=============================================================================
