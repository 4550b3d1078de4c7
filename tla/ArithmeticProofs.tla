-------------------------- MODULE ArithmeticProofs --------------------------
(***************************************************************************)
(* The arithmetic the proofs about both contracts rest on.                 *)
(*                                                                         *)
(* Fixed-point operations: a division rounds to within one unit, in the    *)
(* direction asked for.                                                    *)
(*                                                                         *)
(* Sums: what the sum over a finite function is worth, and how it changes  *)
(* with its parts.  Each fact is proved by a smallest counterexample:      *)
(* strict inclusion is well founded on the subsets of a finite set.        *)
(***************************************************************************)
EXTENDS FixedPoint, FiniteSets, Functions, FiniteSetTheorems, TLAPS

\* The quotient and the remainder of \div.
LEMMA DivBounds ==
    ASSUME NEW x \in Int, NEW y \in Int, y > 0
    PROVE  /\ x \div y \in Int
           /\ y * (x \div y) <= x
           /\ x < y * (x \div y) + y
  BY SMT

\* FloorDiv is the greatest integer not above the quotient.
LEMMA FloorDivBounds ==
    ASSUME NEW x \in Int, NEW y \in Int, y > 0
    PROVE  /\ FloorDiv(x, y) \in Int
           /\ y * FloorDiv(x, y) <= x
           /\ x < y * FloorDiv(x, y) + y
  BY DivBounds DEF FloorDiv

\* CeilDiv is the least integer not below the quotient.
LEMMA CeilDivBounds ==
    ASSUME NEW x \in Int, NEW y \in Int, y > 0
    PROVE  /\ CeilDiv(x, y) \in Int
           /\ x <= y * CeilDiv(x, y)
           /\ y * CeilDiv(x, y) < x + y
<1> DEFINE q == FloorDiv(-x, y)
<1>1. /\ q \in Int
      /\ y * q <= -x
      /\ -x < y * q + y
  BY FloorDivBounds
<1>2. CeilDiv(x, y) = -q
  BY DEF CeilDiv
<1>3. y * (-q) = -(y * q)
  BY <1>1, SMT
<1> QED
  BY <1>1, <1>2, <1>3

-----------------------------------------------------------------------------
(* Comparing a rounded quotient with an integer.                           *)

LEMMA ProductInt ==
    ASSUME NEW a \in Int, NEW b \in Int
    PROVE  a * b \in Int
  BY SMT

LEMMA ProductNat ==
    ASSUME NEW a \in Nat, NEW b \in Nat
    PROVE  a * b \in Nat
  BY SMT

LEMMA ProductMonotone ==
    ASSUME NEW a \in Int, NEW b \in Int, NEW c \in Nat, a <= b
    PROVE  /\ a * c <= b * c
           /\ c * a <= c * b
<1>1. (b - a) * c >= 0
  <2>1. b - a \in Nat
    BY SMT
  <2> QED
    BY <2>1, SMT
<1> QED
  BY <1>1, SMT

\* Multiples of y that differ by less than y are ordered like their factors.
LEMMA Cancel ==
    ASSUME NEW y \in Int, y > 0, NEW a \in Int, NEW b \in Int, y * a < y * b + y
    PROVE  a <= b
<1> SUFFICES ASSUME b + 1 <= a
             PROVE  FALSE
  BY SMT
<1>1. y * (b + 1) <= y * a
  BY ProductMonotone
<1>2. y * (b + 1) = y * b + y
  BY SMT
<1> QED
  BY <1>1, <1>2, SMT

LEMMA FloorDivLower ==
    ASSUME NEW x \in Int, NEW y \in Int, y > 0, NEW k \in Int, y * k <= x
    PROVE  k <= FloorDiv(x, y)
<1>1. /\ FloorDiv(x, y) \in Int
      /\ x < y * FloorDiv(x, y) + y
  BY FloorDivBounds
<1>2. y * k < y * FloorDiv(x, y) + y
  BY <1>1, ProductInt
<1> QED
  BY <1>1, <1>2, Cancel

LEMMA FloorDivUpper ==
    ASSUME NEW x \in Int, NEW y \in Int, y > 0, NEW k \in Int, x < y * k + y
    PROVE  FloorDiv(x, y) <= k
<1>1. /\ FloorDiv(x, y) \in Int
      /\ y * FloorDiv(x, y) <= x
  BY FloorDivBounds
<1>2. y * FloorDiv(x, y) < y * k + y
  BY <1>1, ProductInt
<1> QED
  BY <1>1, <1>2, Cancel

LEMMA CeilDivLower ==
    ASSUME NEW x \in Int, NEW y \in Int, y > 0, NEW k \in Int, y * k < x + y
    PROVE  k <= CeilDiv(x, y)
<1>1. /\ CeilDiv(x, y) \in Int
      /\ x <= y * CeilDiv(x, y)
  BY CeilDivBounds
<1>2. y * k < y * CeilDiv(x, y) + y
  BY <1>1, ProductInt
<1> QED
  BY <1>1, <1>2, Cancel

LEMMA CeilDivUpper ==
    ASSUME NEW x \in Int, NEW y \in Int, y > 0, NEW k \in Int, x <= y * k
    PROVE  CeilDiv(x, y) <= k
<1>1. /\ CeilDiv(x, y) \in Int
      /\ y * CeilDiv(x, y) < x + y
  BY CeilDivBounds
<1>2. y * CeilDiv(x, y) < y * k + y
  BY <1>1, ProductInt
<1> QED
  BY <1>1, <1>2, Cancel

-----------------------------------------------------------------------------
(* The operations on amounts: types, and bounds when a factor is at most 1.*)

LEMMA FloorDivNat ==
    ASSUME NEW x \in Nat, NEW y \in Int, y > 0
    PROVE  FloorDiv(x, y) \in Nat
<1>1. 0 <= FloorDiv(x, y)
  <2>1. y * 0 <= x
    BY SMT
  <2> QED
    BY <2>1, FloorDivLower
<1> QED
  BY <1>1, FloorDivBounds

LEMMA CeilDivNat ==
    ASSUME NEW x \in Nat, NEW y \in Int, y > 0
    PROVE  CeilDiv(x, y) \in Nat
<1>1. 0 <= CeilDiv(x, y)
  <2>1. y * 0 < x + y
    BY SMT
  <2> QED
    BY <2>1, CeilDivLower
<1> QED
  BY <1>1, CeilDivBounds

LEMMA MulNat ==
    ASSUME NEW x \in Nat, NEW y \in Nat, NEW d \in Int, d > 0
    PROVE  /\ MulFloor(x, y, d) \in Nat
           /\ MulCeil(x, y, d) \in Nat
<1>1. x * y \in Nat
  BY ProductNat
<1> QED
  BY <1>1, FloorDivNat, CeilDivNat DEF MulFloor, MulCeil

LEMMA DivNat ==
    ASSUME NEW x \in Nat, NEW y \in Int, y > 0, NEW s \in Nat
    PROVE  /\ DivFloor(x, y, s) \in Nat
           /\ DivCeil(x, y, s) \in Nat
<1>1. x * s \in Nat
  BY ProductNat
<1> QED
  BY <1>1, FloorDivNat, CeilDivNat DEF DivFloor, DivCeil

LEMMA MulInt ==
    ASSUME NEW x \in Int, NEW y \in Int, NEW d \in Int, d > 0
    PROVE  /\ MulFloor(x, y, d) \in Int
           /\ MulCeil(x, y, d) \in Int
<1>1. x * y \in Int
  BY ProductInt
<1> QED
  BY <1>1, FloorDivBounds, CeilDivBounds DEF MulFloor, MulCeil

\* A share of an amount is at most the amount, rounded either way.
LEMMA MulAtMost ==
    ASSUME NEW x \in Nat, NEW y \in Nat, NEW d \in Int, d > 0, y <= d
    PROVE  /\ MulFloor(x, y, d) <= x
           /\ MulCeil(x, y, d) <= x
<1>1. x * y \in Int
  BY ProductInt
<1>2. x * y <= d * x
  <2>1. y * x <= d * x
    BY ProductMonotone
  <2> QED
    BY <2>1, SMT
<1>3. d * x \in Int
  BY ProductInt
<1>4. x * y < d * x + d
  BY <1>1, <1>2, <1>3
<1>5. FloorDiv(x * y, d) <= x
  BY <1>1, <1>4, FloorDivUpper
<1>6. CeilDiv(x * y, d) <= x
  BY <1>1, <1>2, CeilDivUpper
<1> QED
  BY <1>5, <1>6 DEF MulFloor, MulCeil

\* Multiplying by a rate of at least 1 and rounding up does not lose anything.
LEMMA MulCeilAtLeast ==
    ASSUME NEW x \in Int, NEW y \in Nat, NEW d \in Int, d > 0, x >= d
    PROVE  MulCeil(x, y, d) >= y
<1>1. x * y \in Int
  BY ProductInt
<1>2. d * y <= x * y
  BY ProductMonotone
<1>3. d * y < x * y + d
  <2>1. d * y \in Int
    BY ProductInt
  <2> QED
    BY <1>1, <1>2, <2>1
<1>4. y <= CeilDiv(x * y, d)
  BY <1>1, <1>3, CeilDivLower
<1> QED
  BY <1>1, <1>4, CeilDivBounds DEF MulCeil

\* Rounded products and quotients keep the order of what is multiplied.
LEMMA MulMonotone ==
    ASSUME NEW c \in Nat, NEW x \in Nat, NEW y \in Nat, x <= y, NEW d \in Int, d > 0
    PROVE  /\ MulFloor(c, x, d) <= MulFloor(c, y, d)
           /\ MulCeil(c, x, d) <= MulCeil(c, y, d)
<1> DEFINE m == c * x
           n == c * y
<1>1. m \in Int /\ n \in Int
  BY ProductInt
<1>2. m <= n
  BY ProductMonotone
<1> HIDE DEF m, n
<1>3. FloorDiv(m, d) <= FloorDiv(n, d)
  <2>1. FloorDiv(m, d) \in Int /\ d * FloorDiv(m, d) <= m
    BY <1>1, FloorDivBounds
  <2>2. d * FloorDiv(m, d) \in Int
    BY <2>1, ProductInt
  <2>3. d * FloorDiv(m, d) <= n
    BY <1>1, <1>2, <2>1, <2>2
  <2> QED
    BY <1>1, <2>1, <2>3, FloorDivLower
<1>4. CeilDiv(m, d) <= CeilDiv(n, d)
  <2>1. CeilDiv(n, d) \in Int /\ n <= d * CeilDiv(n, d)
    BY <1>1, CeilDivBounds
  <2>2. d * CeilDiv(n, d) \in Int
    BY <2>1, ProductInt
  <2>3. m <= d * CeilDiv(n, d)
    BY <1>1, <1>2, <2>1, <2>2
  <2> QED
    BY <1>1, <2>1, <2>3, CeilDivUpper
<1> QED
  BY <1>3, <1>4 DEF MulFloor, MulCeil, m, n

\* A ratio of a part to the whole is at most 1, of the whole to a part at least.
LEMMA RatioAtMost ==
    ASSUME NEW x \in Nat, NEW y \in Int, y > 0, x <= y, NEW s \in Nat
    PROVE  DivFloor(x, y, s) <= s /\ DivCeil(x, y, s) <= s
<1>1. x * s \in Int /\ y * s \in Int
  BY ProductInt
<1>2. x * s <= y * s
  BY ProductMonotone
<1>3. x * s < y * s + y
  BY <1>1, <1>2
<1> QED
  BY <1>1, <1>2, <1>3, FloorDivUpper, CeilDivUpper DEF DivFloor, DivCeil

LEMMA RatioAtLeast ==
    ASSUME NEW x \in Int, NEW y \in Int, y > 0, x >= y, NEW s \in Nat
    PROVE  DivFloor(x, y, s) >= s
<1>1. x * s \in Int /\ y * s \in Int
  BY ProductInt
<1>2. y * s <= x * s
  BY ProductMonotone
<1>3. s <= FloorDiv(x * s, y)
  BY <1>1, <1>2, FloorDivLower
<1> QED
  BY <1>1, <1>3, FloorDivBounds DEF DivFloor

\* Dividing by a factor of at most 1 and rounding up does not lose anything.
LEMMA DivCeilAtLeast ==
    ASSUME NEW x \in Nat, NEW y \in Nat, y > 0, NEW s \in Nat, y <= s
    PROVE  x <= DivCeil(x, y, s)
<1>1. x * s \in Int /\ y * x \in Int
  BY ProductInt
<1>2. y * x <= x * s
  <2>1. x * y <= x * s
    BY ProductMonotone
  <2> QED
    BY <2>1, SMT
<1>3. y * x < x * s + y
  BY <1>1, <1>2
<1>4. x <= CeilDiv(x * s, y)
  BY <1>1, <1>3, CeilDivLower
<1> QED
  BY <1>4 DEF DivCeil

-----------------------------------------------------------------------------
(* Sums.                                                                   *)

Sum(f, S) == SumFunctionOnSet(f, S)

Pick(s) == CHOOSE x \in s : TRUE

\* One unfolding of the recursive function behind the sum.
SumStep(f, g, s) == IF s = {} THEN 0 ELSE f[Pick(s)] + g[s \ {Pick(s)}]

SumsOn(f, g, S) == g = [s \in SUBSET S |-> SumStep(f, g, s)]

LEMMA SumIsChoice ==
    ASSUME NEW f, NEW S
    PROVE  Sum(f, S) = (CHOOSE g : SumsOn(f, g, S))[S]
  BY DEF Sum, SumFunctionOnSet, FoldFunctionOnSet, MapThenFoldSet, SumsOn, SumStep, Pick

\* A set of subsets of a finite set that has a member has a smallest one.
LEMMA SmallestSubset ==
    ASSUME NEW S, IsFiniteSet(S), NEW T, T \subseteq SUBSET S, T # {}
    PROVE  \E U \in T : \A V \in T : ~(V \subseteq U /\ V # U)
<1>1. T \subseteq FiniteSubsetsOf(S)
  BY FS_FiniteSubsetsOfFinite
<1>2. PICK U \in T : \A V \in T : <<V, U>> \notin StrictSubsetOrdering(S)
  BY <1>1, FS_StrictSubsetOrderingWellFounded, WFMin
<1> QED
  BY <1>2 DEF StrictSubsetOrdering

-----------------------------------------------------------------------------
(* The recursion is well defined.                                          *)

LEMMA SumUnique ==
    ASSUME NEW f, NEW S, IsFiniteSet(S),
           NEW g, SumsOn(f, g, S),
           NEW U \in SUBSET S, NEW h, SumsOn(f, h, U)
    PROVE  g[U] = h[U]
<1> DEFINE Bad == {V \in SUBSET U : g[V] # h[V]}
<1>1. ASSUME Bad # {} PROVE FALSE
  <2>1. Bad \subseteq SUBSET S
    OBVIOUS
  <2>2. PICK V \in Bad : \A W \in Bad : ~(W \subseteq V /\ W # V)
    <3> HIDE DEF Bad
    <3> QED
      BY <1>1, <2>1, SmallestSubset
  <2>3. V \subseteq U /\ V \subseteq S
    BY <2>2
  <2>4. g[V] = SumStep(f, g, V) /\ h[V] = SumStep(f, h, V)
    BY <2>3 DEF SumsOn
  <2>5. V # {}
    BY <2>2, <2>4 DEF SumStep
  <2> DEFINE W == V \ {Pick(V)}
  <2>6. Pick(V) \in V
    BY <2>5 DEF Pick
  <2>7. W \subseteq V /\ W # V /\ W \in SUBSET U
    BY <2>3, <2>6
  <2>8. g[W] = h[W]
    BY <2>2, <2>7
  <2> QED
    BY <2>2, <2>4, <2>5, <2>8 DEF SumStep
<1> QED
  BY <1>1

LEMMA SumExists ==
    ASSUME NEW f, NEW S, IsFiniteSet(S)
    PROVE  \A U \in SUBSET S : \E g : SumsOn(f, g, U)
<1> DEFINE Bad == {U \in SUBSET S : ~(\E g : SumsOn(f, g, U))}
<1>1. ASSUME Bad # {} PROVE FALSE
  <2>1. Bad \subseteq SUBSET S
    OBVIOUS
  <2>2. PICK U \in Bad : \A V \in Bad : ~(V \subseteq U /\ V # U)
    <3> HIDE DEF Bad
    <3> QED
      BY <1>1, <2>1, SmallestSubset
  <2> DEFINE below(V) == CHOOSE g : SumsOn(f, g, V)
             part == [V \in SUBSET U |-> IF V = {} THEN 0 ELSE f[Pick(V)] + below(V \ {Pick(V)})[V \ {Pick(V)}]]
  <2>3. ASSUME NEW V \in SUBSET U, V # U
        PROVE  SumsOn(f, below(V), V)
    BY <2>2, <2>3
  <2>4. ASSUME NEW V \in SUBSET U
        PROVE  part[V] = SumStep(f, part, V)
    <3>1. CASE V = {}
      BY <3>1 DEF SumStep
    <3>2. CASE V # {}
      <4> DEFINE W == V \ {Pick(V)}
      <4>1. Pick(V) \in V
        BY <3>2 DEF Pick
      <4>2. W \in SUBSET U /\ W # U /\ W \subseteq V
        BY <4>1
      <4>3. SumsOn(f, below(W), W)
        BY <2>3, <4>2
      <4>4. below(W)[W] = SumStep(f, below(W), W)
        BY <4>3 DEF SumsOn
      <4>5. SumStep(f, below(W), W) = part[W]
        <5>1. CASE W = {}
          BY <5>1, <4>2 DEF SumStep
        <5>2. CASE W # {}
          <6> DEFINE X == W \ {Pick(W)}
          <6>1. Pick(W) \in W
            BY <5>2 DEF Pick
          <6>2. X \in SUBSET W /\ X \in SUBSET U /\ X # U
            BY <4>2, <6>1
          <6>3. SumsOn(f, below(X), X)
            BY <2>3, <6>2
          <6>4. IsFiniteSet(W)
            BY <4>2, <2>2, FS_Subset
          <6>5. below(W)[X] = below(X)[X]
            BY <4>3, <6>2, <6>3, <6>4, SumUnique
          <6> QED
            BY <5>2, <4>2, <6>5 DEF SumStep
        <5> QED
          BY <5>1, <5>2
      <4> QED
        BY <3>2, <4>2, <4>4, <4>5 DEF SumStep
    <3> QED
      BY <3>1, <3>2
  <2>5. SumsOn(f, part, U)
    BY <2>4 DEF SumsOn
  <2> QED
    BY <2>2, <2>5
<1> QED
  BY <1>1

LEMMA SumUnfolds ==
    ASSUME NEW f, NEW S, IsFiniteSet(S)
    PROVE  /\ S = {} => Sum(f, S) = 0
           /\ S # {} => /\ Pick(S) \in S
                        /\ Sum(f, S) = f[Pick(S)] + Sum(f, S \ {Pick(S)})
<1> DEFINE chosen(V) == CHOOSE g : SumsOn(f, g, V)
<1>1. \A V \in SUBSET S : SumsOn(f, chosen(V), V)
  BY SumExists
<1>2. \A V : Sum(f, V) = chosen(V)[V]
  BY SumIsChoice
<1> HIDE DEF chosen
<1>3. chosen(S)[S] = SumStep(f, chosen(S), S)
  BY <1>1 DEF SumsOn
<1>4. CASE S = {}
  BY <1>2, <1>3, <1>4 DEF SumStep
<1>5. CASE S # {}
  <2> DEFINE V == S \ {Pick(S)}
  <2>1. Pick(S) \in S /\ V \in SUBSET S
    BY <1>5 DEF Pick
  <2>2. SumsOn(f, chosen(S), S) /\ SumsOn(f, chosen(V), V)
    BY <1>1, <2>1
  <2>3. chosen(S)[V] = chosen(V)[V]
    BY <2>1, <2>2, SumUnique
  <2> QED
    BY <1>2, <1>3, <1>5, <2>1, <2>3 DEF SumStep
<1> QED
  BY <1>4, <1>5

-----------------------------------------------------------------------------
(* Sums of integers.                                                       *)

LEMMA SumClosed ==
    ASSUME NEW T, 0 \in T, \A m, n \in T : m + n \in T,
           NEW f, NEW S, IsFiniteSet(S), \A x \in S : f[x] \in T
    PROVE  \A U \in SUBSET S : Sum(f, U) \in T
<1> DEFINE Bad == {U \in SUBSET S : Sum(f, U) \notin T}
<1>1. ASSUME Bad # {} PROVE FALSE
  <2>1. Bad \subseteq SUBSET S
    OBVIOUS
  <2>2. PICK U \in Bad : \A V \in Bad : ~(V \subseteq U /\ V # U)
    <3> HIDE DEF Bad
    <3> QED
      BY <1>1, <2>1, SmallestSubset
  <2>3. IsFiniteSet(U)
    BY <2>2, FS_Subset
  <2>4. U # {}
    <3>1. U = {} => Sum(f, U) = 0
      BY <2>3, SumUnfolds
    <3> QED
      BY <2>2, <3>1
  <2> DEFINE V == U \ {Pick(U)}
  <2>5. Pick(U) \in U /\ Sum(f, U) = f[Pick(U)] + Sum(f, V)
    BY <2>3, <2>4, SumUnfolds
  <2>6. Sum(f, V) \in T
    BY <2>2, <2>5
  <2>7. f[Pick(U)] \in T
    BY <2>2, <2>5
  <2>8. Sum(f, U) \in T
    BY <2>5, <2>6, <2>7
  <2> QED
    BY <2>2, <2>8
<1> QED
  BY <1>1

LEMMA SumInt ==
    ASSUME NEW f, NEW S, IsFiniteSet(S), \A x \in S : f[x] \in Int
    PROVE  \A U \in SUBSET S : Sum(f, U) \in Int
<1>1. 0 \in Int /\ \A m, n \in Int : m + n \in Int
  OBVIOUS
<1> QED
  BY <1>1, SumClosed

LEMMA SumNat ==
    ASSUME NEW f, NEW S, IsFiniteSet(S), \A x \in S : f[x] \in Nat
    PROVE  \A U \in SUBSET S : Sum(f, U) \in Nat
<1>1. 0 \in Nat /\ \A m, n \in Nat : m + n \in Nat
  OBVIOUS
<1> QED
  BY <1>1, SumClosed

\* Only the values on the set matter.
LEMMA SumSame ==
    ASSUME NEW f, NEW g, NEW S, IsFiniteSet(S), \A x \in S : f[x] = g[x]
    PROVE  Sum(f, S) = Sum(g, S)
<1> DEFINE Bad == {U \in SUBSET S : Sum(f, U) # Sum(g, U)}
<1>1. ASSUME Bad # {} PROVE FALSE
  <2>1. Bad \subseteq SUBSET S
    OBVIOUS
  <2>2. PICK U \in Bad : \A V \in Bad : ~(V \subseteq U /\ V # U)
    <3> HIDE DEF Bad
    <3> QED
      BY <1>1, <2>1, SmallestSubset
  <2>3. IsFiniteSet(U)
    BY <2>2, FS_Subset
  <2>4. U # {}
    BY <2>2, <2>3, SumUnfolds
  <2> DEFINE V == U \ {Pick(U)}
  <2>5. /\ Pick(U) \in U
        /\ Sum(f, U) = f[Pick(U)] + Sum(f, V)
        /\ Sum(g, U) = g[Pick(U)] + Sum(g, V)
    BY <2>3, <2>4, SumUnfolds
  <2>6. Sum(f, V) = Sum(g, V)
    BY <2>2, <2>5
  <2>7. f[Pick(U)] = g[Pick(U)]
    BY <2>2, <2>5
  <2> QED
    BY <2>2, <2>5, <2>6, <2>7
<1> QED
  BY <1>1

\* Any element may be taken out first.
LEMMA SumRemove ==
    ASSUME NEW f, NEW S, IsFiniteSet(S), \A x \in S : f[x] \in Int,
           NEW x \in S
    PROVE  Sum(f, S) = f[x] + Sum(f, S \ {x})
<1> DEFINE Bad == {U \in SUBSET S : \E y \in U : Sum(f, U) # f[y] + Sum(f, U \ {y})}
<1>1. ASSUME Bad # {} PROVE FALSE
  <2>1. Bad \subseteq SUBSET S
    OBVIOUS
  <2>2. PICK U \in Bad : \A V \in Bad : ~(V \subseteq U /\ V # U)
    <3> HIDE DEF Bad
    <3> QED
      BY <1>1, <2>1, SmallestSubset
  <2>3. PICK y \in U : Sum(f, U) # f[y] + Sum(f, U \ {y})
    BY <2>2
  <2>4. IsFiniteSet(U) /\ U # {} /\ U \subseteq S
    BY <2>2, <2>3, FS_Subset
  <2> DEFINE p == Pick(U)
  <2>5. p \in U /\ Sum(f, U) = f[p] + Sum(f, U \ {p})
    BY <2>4, SumUnfolds
  <2> HIDE DEF p
  <2>6. p # y
    BY <2>3, <2>5
  <2>7. Sum(f, U \ {p}) = f[y] + Sum(f, (U \ {p}) \ {y})
    BY <2>2, <2>3, <2>5, <2>6
  <2>8. Sum(f, U \ {y}) = f[p] + Sum(f, (U \ {y}) \ {p})
    BY <2>2, <2>3, <2>5, <2>6
  <2>9. (U \ {p}) \ {y} = (U \ {y}) \ {p}
    OBVIOUS
  <2>10. Sum(f, (U \ {y}) \ {p}) \in Int
    BY <2>4, SumInt
  <2>11. f[p] \in Int /\ f[y] \in Int
    BY <2>3, <2>4, <2>5
  <2> DEFINE rest == Sum(f, (U \ {y}) \ {p})
  <2> HIDE DEF rest
  <2>12. f[p] + (f[y] + rest) = f[y] + (f[p] + rest)
    BY <2>10, <2>11 DEF rest
  <2> QED
    BY <2>3, <2>5, <2>7, <2>8, <2>9, <2>12 DEF rest
<1> QED
  BY <1>1

-----------------------------------------------------------------------------
(* SumFunction.                                                            *)

LEMMA SumFunctionIsSum ==
    ASSUME NEW S, NEW f, DOMAIN f = S
    PROVE  SumFunction(f) = Sum(f, S)
  BY DEF SumFunction, Sum

LEMMA SumFunctionNat ==
    ASSUME NEW S, IsFiniteSet(S), NEW f \in [S -> Nat]
    PROVE  SumFunction(f) \in Nat
  BY SumFunctionIsSum, SumNat

\* No part is larger than the whole.
LEMMA SumFunctionBound ==
    ASSUME NEW S, IsFiniteSet(S), NEW f \in [S -> Nat], NEW x \in S
    PROVE  f[x] <= SumFunction(f)
<1>1. Sum(f, S \ {x}) \in Nat
  BY SumNat
<1>2. Sum(f, S) = f[x] + Sum(f, S \ {x})
  BY SumRemove
<1> QED
  BY <1>1, <1>2, SumFunctionIsSum

LEMMA SumFunctionZero ==
    ASSUME NEW S, IsFiniteSet(S), NEW f \in [S -> Nat], \A x \in S : f[x] = 0
    PROVE  SumFunction(f) = 0
<1> DEFINE Bad == {U \in SUBSET S : Sum(f, U) # 0}
<1>1. ASSUME Bad # {} PROVE FALSE
  <2>1. Bad \subseteq SUBSET S
    OBVIOUS
  <2>2. PICK U \in Bad : \A V \in Bad : ~(V \subseteq U /\ V # U)
    <3> HIDE DEF Bad
    <3> QED
      BY <1>1, <2>1, SmallestSubset
  <2>3. IsFiniteSet(U) /\ U \subseteq S
    BY <2>2, FS_Subset
  <2>4. /\ Pick(U) \in U
        /\ Sum(f, U) = f[Pick(U)] + Sum(f, U \ {Pick(U)})
    BY <2>2, <2>3, SumUnfolds
  <2>5. Sum(f, U \ {Pick(U)}) = 0 /\ f[Pick(U)] = 0
    BY <2>2, <2>3, <2>4
  <2> QED
    BY <2>2, <2>4, <2>5
<1> QED
  BY <1>1, SumFunctionIsSum

\* One part changes: the sum changes by as much.
LEMMA SumFunctionUpdate ==
    ASSUME NEW S, IsFiniteSet(S), NEW f \in [S -> Int], NEW g \in [S -> Int],
           NEW x \in S, \A y \in S \ {x} : g[y] = f[y]
    PROVE  SumFunction(g) = SumFunction(f) + g[x] - f[x]
<1>1. Sum(f, S) = f[x] + Sum(f, S \ {x}) /\ Sum(g, S) = g[x] + Sum(g, S \ {x})
  BY SumRemove
<1>2. IsFiniteSet(S \ {x})
  BY FS_Subset
<1>3. Sum(g, S \ {x}) = Sum(f, S \ {x})
  BY <1>2, SumSame
<1>4. Sum(f, S \ {x}) \in Int
  BY SumInt
<1> QED
  BY <1>1, <1>3, <1>4, SumFunctionIsSum

\* What one part loses another gains: the sum stays.
LEMMA SumFunctionMove ==
    ASSUME NEW S, IsFiniteSet(S), NEW f \in [S -> Int], NEW g \in [S -> Int],
           NEW x \in S, NEW y \in S, x # y,
           \A z \in S \ {x, y} : g[z] = f[z],
           g[x] + g[y] = f[x] + f[y]
    PROVE  SumFunction(g) = SumFunction(f)
<1> DEFINE h == [f EXCEPT ![x] = g[x]]
<1>1. h \in [S -> Int] /\ h[x] = g[x] /\ (\A z \in S \ {x} : h[z] = f[z])
  OBVIOUS
<1> HIDE DEF h
<1>2. SumFunction(h) = SumFunction(f) + h[x] - f[x]
  BY <1>1, SumFunctionUpdate
<1>3. \A z \in S \ {y} : g[z] = h[z]
  BY <1>1
<1>4. SumFunction(g) = SumFunction(h) + g[y] - h[y]
  BY <1>1, <1>3, SumFunctionUpdate
<1>5. SumFunction(f) \in Int
  BY SumInt, SumFunctionIsSum
<1>6. h[y] = f[y] /\ g[x] \in Int /\ g[y] \in Int /\ f[x] \in Int /\ f[y] \in Int
  BY <1>1
<1> QED
  BY <1>1, <1>2, <1>4, <1>5, <1>6

\* Larger parts make a larger whole.
LEMMA SumAtMost ==
    ASSUME NEW f, NEW g, NEW S, IsFiniteSet(S),
           \A x \in S : f[x] \in Int /\ g[x] \in Int /\ f[x] <= g[x]
    PROVE  Sum(f, S) <= Sum(g, S)
<1> DEFINE Bad == {U \in SUBSET S : ~(Sum(f, U) <= Sum(g, U))}
<1>1. ASSUME Bad # {} PROVE FALSE
  <2>1. Bad \subseteq SUBSET S
    OBVIOUS
  <2>2. PICK U \in Bad : \A V \in Bad : ~(V \subseteq U /\ V # U)
    <3> HIDE DEF Bad
    <3> QED
      BY <1>1, <2>1, SmallestSubset
  <2>3. IsFiniteSet(U)
    BY <2>2, FS_Subset
  <2>4. U # {}
    <3>1. U = {} => Sum(f, U) = 0 /\ Sum(g, U) = 0
      BY <2>3, SumUnfolds
    <3> QED
      BY <2>2, <3>1
  <2> DEFINE V == U \ {Pick(U)}
  <2>5. /\ Pick(U) \in U
        /\ Sum(f, U) = f[Pick(U)] + Sum(f, V)
        /\ Sum(g, U) = g[Pick(U)] + Sum(g, V)
    BY <2>3, <2>4, SumUnfolds
  <2>6. Sum(f, V) <= Sum(g, V)
    BY <2>2, <2>5
  <2>7. f[Pick(U)] \in Int /\ g[Pick(U)] \in Int /\ f[Pick(U)] <= g[Pick(U)]
    BY <2>2, <2>5
  <2>8. Sum(f, V) \in Int /\ Sum(g, V) \in Int
    <3>1. V \in SUBSET S
      BY <2>2
    <3> QED
      BY <3>1, SumInt
  <2> HIDE DEF V
  <2>9. Sum(f, U) <= Sum(g, U)
    BY <2>5, <2>6, <2>7, <2>8
  <2> QED
    BY <2>2, <2>9
<1> QED
  BY <1>1

LEMMA SumFunctionAtMost ==
    ASSUME NEW S, IsFiniteSet(S), NEW f \in [S -> Int], NEW g \in [S -> Int],
           \A x \in S : f[x] <= g[x]
    PROVE  SumFunction(f) <= SumFunction(g)
  BY SumFunctionIsSum, SumAtMost

-----------------------------------------------------------------------------
(* Sums over parts of a set, and over its images.                          *)

LEMMA SumEmpty ==
    ASSUME NEW f
    PROVE  Sum(f, {}) = 0
  BY SumUnfolds, FS_EmptySet

LEMMA SumOne ==
    ASSUME NEW f, NEW x, f[x] \in Int
    PROVE  Sum(f, {x}) = f[x]
<1>1. IsFiniteSet({x})
  BY FS_Singleton
<1>2. Sum(f, {x}) = f[x] + Sum(f, {x} \ {x})
  BY <1>1, SumRemove
<1>3. {x} \ {x} = {}
  OBVIOUS
<1> QED
  BY <1>2, <1>3, SumEmpty

LEMMA SumUnion ==
    ASSUME NEW f, NEW S, NEW T, IsFiniteSet(S), IsFiniteSet(T), S \cap T = {},
           \A x \in S \cup T : f[x] \in Int
    PROVE  Sum(f, S \cup T) = Sum(f, S) + Sum(f, T)
<1> DEFINE Bad == {U \in SUBSET S : Sum(f, U \cup T) # Sum(f, U) + Sum(f, T)}
<1>1. ASSUME Bad # {} PROVE FALSE
  <2>1. Bad \subseteq SUBSET S
    OBVIOUS
  <2>2. PICK U \in Bad : \A V \in Bad : ~(V \subseteq U /\ V # U)
    <3> HIDE DEF Bad
    <3> QED
      BY <1>1, <2>1, SmallestSubset
  <2>3. IsFiniteSet(U) /\ IsFiniteSet(U \cup T)
    BY <2>2, FS_Subset, FS_Union
  <2>4. Sum(f, T) \in Int
    BY SumInt
  <2>5. U # {}
    <3>1. {} \cup T = T
      OBVIOUS
    <3>2. Sum(f, T) = 0 + Sum(f, T)
      BY <2>4
    <3> QED
      BY <2>2, <3>1, <3>2, SumEmpty
  <2>6. PICK x \in U : TRUE
    BY <2>5
  <2> DEFINE V == U \ {x}
  <2>7. V \in SUBSET S /\ V # U
    BY <2>2, <2>6
  <2>8. Sum(f, V \cup T) = Sum(f, V) + Sum(f, T)
    BY <2>2, <2>7
  <2>9. Sum(f, U) = f[x] + Sum(f, V)
    BY <2>2, <2>3, SumRemove
  <2>10. Sum(f, U \cup T) = f[x] + Sum(f, (U \cup T) \ {x})
    <3>1. \A y \in U \cup T : f[y] \in Int
      BY <2>2
    <3>2. x \in U \cup T
      BY <2>6
    <3> QED
      BY <2>3, <3>1, <3>2, SumRemove
  <2>11. (U \cup T) \ {x} = V \cup T
    BY <2>2, <2>6
  <2>12. Sum(f, V) \in Int /\ f[x] \in Int
    BY <2>2, <2>7, SumInt
  <2> DEFINE m == f[x]
             n == Sum(f, V)
             k == Sum(f, T)
  <2>13. Sum(f, U \cup T) = Sum(f, U) + Sum(f, T)
    <3>1. Sum(f, U \cup T) = m + (n + k) /\ Sum(f, U) = m + n
      BY <2>8, <2>9, <2>10, <2>11
    <3>2. m \in Int /\ n \in Int /\ k \in Int
      BY <2>4, <2>12
    <3> HIDE DEF m, n
    <3> QED
      BY <3>1, <3>2
  <2> QED
    BY <2>2, <2>13
<1> QED
  BY <1>1

\* What is zero outside a part is summed over the part.
LEMMA SumZero ==
    ASSUME NEW f, NEW S, IsFiniteSet(S), \A x \in S : f[x] = 0
    PROVE  Sum(f, S) = 0
<1> DEFINE g == [x \in S |-> 0]
<1>1. g \in [S -> Nat] /\ DOMAIN g = S /\ \A x \in S : f[x] = g[x] /\ g[x] = 0
  OBVIOUS
<1> HIDE DEF g
<1>2. Sum(f, S) = Sum(g, S)
  BY <1>1, SumSame
<1>3. SumFunction(g) = 0
  BY <1>1, SumFunctionZero
<1> QED
  BY <1>1, <1>2, <1>3, SumFunctionIsSum

LEMMA SumOnPart ==
    ASSUME NEW f, NEW S, NEW T \in SUBSET S, IsFiniteSet(S),
           \A x \in S : f[x] \in Int, \A x \in S \ T : f[x] = 0
    PROVE  Sum(f, S) = Sum(f, T)
<1>1. IsFiniteSet(T) /\ IsFiniteSet(S \ T) /\ S = T \cup (S \ T) /\ T \cap (S \ T) = {}
  BY FS_Subset
<1>2. Sum(f, S) = Sum(f, T) + Sum(f, S \ T)
  BY <1>1, SumUnion
<1>3. Sum(f, S \ T) = 0
  BY <1>1, SumZero
<1>4. Sum(f, T) \in Int
  BY SumInt
<1> QED
  BY <1>2, <1>3, <1>4

\* Summing the same values under other names.
LEMMA SumRenamed ==
    ASSUME NEW S, IsFiniteSet(S), NEW T, IsFiniteSet(T), NEW h \in [S -> T], NEW f, NEW g,
           \A x, y \in S : h[x] = h[y] => x = y,
           \A y \in T : \E x \in S : h[x] = y,
           \A x \in S : f[x] \in Int /\ f[x] = g[h[x]]
    PROVE  Sum(f, S) = Sum(g, T)
<1> DEFINE image(U) == {h[x] : x \in U}
           Bad == {U \in SUBSET S : Sum(f, U) # Sum(g, image(U))}
<1>1. ASSUME Bad # {} PROVE FALSE
  <2>1. Bad \subseteq SUBSET S
    OBVIOUS
  <2>2. PICK U \in Bad : \A V \in Bad : ~(V \subseteq U /\ V # U)
    <3> HIDE DEF Bad
    <3> QED
      BY <1>1, <2>1, SmallestSubset
  <2>3. IsFiniteSet(U) /\ IsFiniteSet(image(U))
    <3>1. image(U) \subseteq T
      BY <2>2
    <3> HIDE DEF image
    <3> QED
      BY <2>2, <3>1, FS_Subset
  <2>4. U # {}
    <3>1. image({}) = {}
      OBVIOUS
    <3> QED
      BY <2>2, <3>1, SumEmpty
  <2>5. PICK x \in U : TRUE
    BY <2>4
  <2> DEFINE V == U \ {x}
  <2>6. V \in SUBSET S /\ V # U
    BY <2>2, <2>5
  <2>7. Sum(f, V) = Sum(g, image(V))
    BY <2>2, <2>6
  <2>8. Sum(f, U) = f[x] + Sum(f, V)
    BY <2>2, <2>3, SumRemove
  <2>9. Sum(g, image(U)) = g[h[x]] + Sum(g, image(U) \ {h[x]})
    <3>1. \A y \in image(U) : g[y] \in Int
      BY <2>2
    <3>2. h[x] \in image(U)
      BY <2>5
    <3> HIDE DEF image
    <3> QED
      BY <2>3, <3>1, <3>2, SumRemove
  <2>10. image(U) \ {h[x]} = image(V)
    BY <2>2, <2>5
  <2>11. f[x] = g[h[x]]
    BY <2>2, <2>5
  <2> QED
    BY <2>2, <2>7, <2>8, <2>9, <2>10, <2>11
<1>2. image(S) = T
  OBVIOUS
<1>3. Sum(f, S) = Sum(g, image(S))
  BY <1>1
<1> QED
  BY <1>2, <1>3

-----------------------------------------------------------------------------
(* Sums of sums and of multiples.                                          *)

LEMMA SumAdd ==
    ASSUME NEW f, NEW g, NEW h, NEW S, IsFiniteSet(S),
           \A x \in S : f[x] \in Int /\ g[x] \in Int /\ h[x] = f[x] + g[x]
    PROVE  Sum(h, S) = Sum(f, S) + Sum(g, S)
<1> DEFINE Bad == {U \in SUBSET S : Sum(h, U) # Sum(f, U) + Sum(g, U)}
<1>1. ASSUME Bad # {} PROVE FALSE
  <2>1. Bad \subseteq SUBSET S
    OBVIOUS
  <2>2. PICK U \in Bad : \A V \in Bad : ~(V \subseteq U /\ V # U)
    <3> HIDE DEF Bad
    <3> QED
      BY <1>1, <2>1, SmallestSubset
  <2>3. IsFiniteSet(U)
    BY <2>2, FS_Subset
  <2>4. U # {}
    <3>1. U = {} => Sum(f, U) = 0 /\ Sum(g, U) = 0 /\ Sum(h, U) = 0
      BY SumEmpty
    <3> QED
      BY <2>2, <3>1
  <2> DEFINE x == Pick(U)
             V == U \ {x}
  <2>5. /\ x \in U
        /\ Sum(f, U) = f[x] + Sum(f, V)
        /\ Sum(g, U) = g[x] + Sum(g, V)
        /\ Sum(h, U) = h[x] + Sum(h, V)
    BY <2>3, <2>4, SumUnfolds
  <2> HIDE DEF x
  <2>6. V \in SUBSET S /\ V # U /\ V \subseteq U
    BY <2>2, <2>5
  <2>7. Sum(h, V) = Sum(f, V) + Sum(g, V)
    BY <2>2, <2>6
  <2>8. Sum(f, V) \in Int /\ Sum(g, V) \in Int
    BY <2>6, SumInt
  <2>9. f[x] \in Int /\ g[x] \in Int /\ h[x] = f[x] + g[x]
    BY <2>2, <2>5
  <2> HIDE DEF V
  <2>10. Sum(h, U) = Sum(f, U) + Sum(g, U)
    BY <2>5, <2>7, <2>8, <2>9
  <2> QED
    BY <2>2, <2>10
<1> QED
  BY <1>1

LEMMA SumTimes ==
    ASSUME NEW c \in Int, NEW f, NEW h, NEW S, IsFiniteSet(S),
           \A x \in S : f[x] \in Int /\ h[x] = c * f[x]
    PROVE  Sum(h, S) = c * Sum(f, S)
<1> DEFINE Bad == {U \in SUBSET S : Sum(h, U) # c * Sum(f, U)}
<1>1. ASSUME Bad # {} PROVE FALSE
  <2>1. Bad \subseteq SUBSET S
    OBVIOUS
  <2>2. PICK U \in Bad : \A V \in Bad : ~(V \subseteq U /\ V # U)
    <3> HIDE DEF Bad
    <3> QED
      BY <1>1, <2>1, SmallestSubset
  <2>3. IsFiniteSet(U)
    BY <2>2, FS_Subset
  <2>4. U # {}
    <3>1. U = {} => Sum(f, U) = 0 /\ Sum(h, U) = 0
      BY SumEmpty
    <3>2. c * 0 = 0
      BY SMT
    <3> QED
      BY <2>2, <3>1, <3>2
  <2> DEFINE x == Pick(U)
             V == U \ {x}
  <2>5. /\ x \in U
        /\ Sum(f, U) = f[x] + Sum(f, V)
        /\ Sum(h, U) = h[x] + Sum(h, V)
    BY <2>3, <2>4, SumUnfolds
  <2> HIDE DEF x
  <2>6. V \in SUBSET S /\ V # U /\ V \subseteq U
    BY <2>2, <2>5
  <2>7. Sum(h, V) = c * Sum(f, V)
    BY <2>2, <2>6
  <2>8. Sum(f, V) \in Int
    BY <2>6, SumInt
  <2>9. f[x] \in Int /\ h[x] = c * f[x]
    BY <2>2, <2>5
  <2> DEFINE m == f[x]
             n == Sum(f, V)
  <2>10. m \in Int /\ n \in Int
    BY <2>8, <2>9
  <2>11. c * (m + n) = c * m + c * n
    <3> HIDE DEF m, n
    <3> QED
      BY <2>10, SMT
  <2>12. Sum(h, U) = c * Sum(f, U)
    <3>1. Sum(h, U) = c * m + c * n /\ Sum(f, U) = m + n
      BY <2>5, <2>7, <2>9
    <3> QED
      BY <2>11, <3>1
  <2> QED
    BY <2>2, <2>12
<1> QED
  BY <1>1

-----------------------------------------------------------------------------
(* Dividing a whole among parts and rounding each down gives out no more   *)
(* than the whole.                                                         *)

LEMMA SharedOut ==
    ASSUME NEW S, IsFiniteSet(S), NEW f \in [S -> Nat], NEW g \in [S -> Nat],
           NEW whole \in Nat, SumFunction(f) > 0,
           \A x \in S : SumFunction(f) * g[x] <= whole * f[x]
    PROVE  SumFunction(g) <= whole
<1> DEFINE total == SumFunction(f)
           scaled == [x \in S |-> total * g[x]]
           weighed == [x \in S |-> whole * f[x]]
           given == SumFunction(g)
<1>1. total \in Nat /\ given \in Nat
  BY SumFunctionNat
<1>2. total > 0 /\ \A x \in S : f[x] \in Nat /\ g[x] \in Nat /\ total * g[x] <= whole * f[x]
  OBVIOUS
<1>3. total = Sum(f, S) /\ given = Sum(g, S)
  BY SumFunctionIsSum
<1> HIDE DEF total, given
<1>4. \A x \in S : scaled[x] \in Int /\ weighed[x] \in Int /\ scaled[x] <= weighed[x]
  BY <1>1, <1>2, ProductInt
<1>5. Sum(scaled, S) = total * given
  <2>1. \A x \in S : g[x] \in Int /\ scaled[x] = total * g[x]
    OBVIOUS
  <2> QED
    BY <1>1, <1>3, <2>1, SumTimes
<1>6. Sum(weighed, S) = whole * total
  <2>1. \A x \in S : f[x] \in Int /\ weighed[x] = whole * f[x]
    OBVIOUS
  <2> QED
    BY <1>3, <2>1, SumTimes
<1>7. Sum(scaled, S) <= Sum(weighed, S)
  BY <1>4, SumAtMost
<1>8. total * given <= total * whole
  <2>1. whole * total = total * whole
    BY <1>1, SMT
  <2> QED
    BY <1>5, <1>6, <1>7, <2>1
<1>9. given <= whole
  <2>1. total * given \in Int /\ total * whole \in Int
    BY <1>1, ProductInt
  <2>2. total * given < total * whole + total
    BY <1>1, <1>2, <1>8, <2>1
  <2> QED
    BY <1>1, <1>2, <2>2, Cancel
<1> QED
  BY <1>9 DEF given
=============================================================================
