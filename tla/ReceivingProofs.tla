---------------------------- MODULE ReceivingProofs ----------------------------
(***************************************************************************)
(* Receiving keeps its invariants for any purchases, products, receipts    *)
(* and prices.  Every conjunct of the invariant is preserved from TypeOK   *)
(* and itself, except that resolving a conflict keeps the stock typed only *)
(* because PendingResolvable names the two prices it weighs.               *)
(*                                                                         *)
(* Two groups of lemmas come first: that a weighted average, rounded up,   *)
(* lies between rounded prices; and that the sum over a set of records,    *)
(* a fold of the library, is the sum without one element plus that         *)
(* element, whichever it is.  Conservation of units and the range of a     *)
(* resolved price rest on them.                                            *)
(***************************************************************************)
EXTENDS Receiving, FiniteSetTheorems, WellFoundedInduction, TLAPS

Inv ==
  /\ TypeOK
  /\ PendingResolvable
  /\ OnePrimaryListing
  /\ ObservedOnce
  /\ CompleteIsDelivered

(* ------------------------------- prices -------------------------------- *)

\* The code divides by positive numbers only, and stays among the naturals.
LEMMA DivNat == ASSUME NEW n \in Nat, NEW d \in Nat \ {0} PROVE n \div d \in Nat
OBVIOUS

\* Products of naturals are naturals.
LEMMA MulNat == ASSUME NEW m \in Nat, NEW n \in Nat PROVE m * n \in Nat
OBVIOUS

\* A weighted average of two prices over a positive quantity is a price.
LEMMA WeightedPriceType ==
  ASSUME NEW q1 \in Nat, NEW p1 \in Nat, NEW q2 \in Nat \ {0}, NEW p2 \in Nat
  PROVE  WeightedPrice(q1, p1, q2, p2) \in Nat
<1> DEFINE kopeck == Unit \div 100
           sum == q1 * p1 + q2 * p2
           weight == (q1 + q2) * kopeck
           raw == HalfUp(sum, weight) * kopeck
<1>1. kopeck \in Nat \ {0}
  BY UnitAssumption
<1>2. sum \in Nat
  BY MulNat
<1>3. weight \in Nat \ {0}
  <2>1. q1 + q2 \in Nat \ {0} OBVIOUS
  <2> HIDE DEF kopeck
  <2> QED BY <2>1, <1>1
<1> HIDE DEF kopeck, sum, weight
<1>4. raw \in Nat
  BY <1>1, <1>2, <1>3, DivNat, MulNat DEF HalfUp
<1> HIDE DEF raw
<1>5. RoundingStep(raw) \in Nat \ {0}
  BY UnitAssumption DEF RoundingStep
<1>6. Rounded(raw) \in Nat
  BY <1>4, <1>5, DivNat, MulNat DEF Rounded, ApplyRounding
<1> QED BY <1>6 DEF WeightedPrice, raw, weight, sum, kopeck

\* Multiplication by a natural number keeps the order.
LEMMA MulMono == ASSUME NEW a \in Int, NEW b \in Int, NEW c \in Nat, a <= b PROVE c * a <= c * b
OBVIOUS

\* The quotient of a division is the number of times the divisor fits.
LEMMA DivFits ==
  ASSUME NEW n \in Nat, NEW d \in Nat \ {0}
  PROVE  /\ n \div d \in Nat
         /\ d * (n \div d) <= n /\ n < d * (n \div d) + d
OBVIOUS

\* A quotient is at most h if h + 1 divisors do not fit, and at least h if h do.
LEMMA DivBound ==
  ASSUME NEW n \in Nat, NEW d \in Nat \ {0}, NEW h \in Nat
  PROVE  /\ n < d * h + d => n \div d <= h
         /\ d * h <= n => h <= n \div d
<1> DEFINE q == n \div d
<1>1. q \in Nat /\ d * q <= n /\ n < d * q + d
  BY DivFits
<1> HIDE DEF q
<1>2. ASSUME n < d * h + d, ~(q <= h) PROVE FALSE
  <2>1. h + 1 <= q /\ h + 1 \in Int
    BY <1>1, <1>2
  <2>2. d * (h + 1) <= d * q
    BY <1>1, <2>1, MulMono
  <2>3. d * (h + 1) = d * h + d
    OBVIOUS
  <2>4. d * h \in Nat /\ d * q \in Nat
    BY <1>1, MulNat
  <2> QED BY <1>1, <1>2, <2>2, <2>3, <2>4
<1>3. ASSUME d * h <= n, ~(h <= q) PROVE FALSE
  <2>1. q + 1 <= h /\ q + 1 \in Int
    BY <1>1, <1>3
  <2>2. d * (q + 1) <= d * h
    BY <1>1, <2>1, MulMono
  <2>3. d * (q + 1) = d * q + d
    BY <1>1
  <2>4. d * h \in Nat /\ d * q \in Nat
    BY <1>1, MulNat
  <2> QED BY <1>1, <1>3, <2>2, <2>3, <2>4
<1> QED BY <1>2, <1>3 DEF q

\* Rounding half up stays within whole bounds.
LEMMA HalfUpBound ==
  ASSUME NEW n \in Nat, NEW d \in Nat \ {0}, NEW h \in Nat
  PROVE  /\ HalfUp(n, d) \in Nat
         /\ n <= d * h => HalfUp(n, d) <= h
         /\ d * h <= n => h <= HalfUp(n, d)
<1> DEFINE a == 2 * n + d
           e == 2 * d
           dh == d * h
<1>1. a \in Nat /\ e \in Nat \ {0} /\ dh \in Nat
  BY MulNat
<1>2. e * h = 2 * dh
  OBVIOUS
<1> HIDE DEF dh
<1>3. n <= dh => a < e * h + e
  BY <1>1, <1>2
<1>4. dh <= n => e * h <= a
  BY <1>1, <1>2
<1>5. HalfUp(n, d) = a \div e
  BY DEF HalfUp
<1> HIDE DEF a, e
<1>6. a \div e \in Nat
  BY <1>1, DivFits
<1>7. (n <= dh => a \div e <= h) /\ (dh <= n => h <= a \div e)
  BY <1>1, <1>3, <1>4, DivBound
<1> QED BY <1>5, <1>6, <1>7 DEF dh

\* Prices that are a whole number of steps, and prices that rounding leaves alone.
Multiple(x, s) == \E n \in Nat : x = s * n
IsRounded(p) == p \in Nat /\ Rounded(p) = p

\* A price rounded up to a step is a multiple of the step, not below it, and not above
\* any multiple that is not.
LEMMA RoundingFacts ==
  ASSUME NEW p \in Nat, NEW s \in Nat \ {0}
  PROVE  /\ ApplyRounding(p, s) \in Nat
         /\ p <= ApplyRounding(p, s)
         /\ Multiple(ApplyRounding(p, s), s)
         /\ \A x : Multiple(x, s) /\ p <= x => ApplyRounding(p, s) <= x
<1> DEFINE a == p + s - 1
           q == a \div s
<1>1. a \in Nat
  OBVIOUS
<1>2. q \in Nat /\ s * q <= a /\ a < s * q + s
  <2> HIDE DEF a
  <2> QED BY <1>1, DivFits
<1>3. ApplyRounding(p, s) = s * q
  BY <1>2 DEF ApplyRounding
<1>4. ASSUME NEW n \in Nat, p <= s * n PROVE s * q <= s * n
  <2>1. s * n \in Nat
    BY MulNat
  <2>2. a < s * n + s
    BY <1>4, <2>1
  <2>3. q <= n
    <3> HIDE DEF a
    <3> QED BY <1>1, <2>2, DivBound
  <2> QED BY <1>2, <2>3, MulMono
<1>5. s * q \in Nat
  BY <1>2, MulNat
<1>6. p <= s * q
  BY <1>2, <1>5
<1> QED BY <1>2, <1>3, <1>4, <1>5, <1>6 DEF Multiple

\* A rounded price is a whole number of tens, and of hundreds from the threshold on.
LEMMA RoundedSteps ==
  ASSUME NEW p, IsRounded(p)
  PROVE  /\ Multiple(p, 10 * Unit)
         /\ p >= Threshold => Multiple(p, 100 * Unit)
<1> DEFINE ten == 10 * Unit
           hundred == 100 * Unit
<1>1. ten \in Nat \ {0} /\ hundred \in Nat \ {0} /\ p \in Nat /\ hundred = ten * 10
  BY UnitAssumption DEF IsRounded
<1>2. p = ApplyRounding(p, IF p < Threshold THEN ten ELSE hundred)
  BY DEF IsRounded, Rounded, RoundingStep
<1>3. Multiple(p, hundred) => Multiple(p, ten)
  <2> SUFFICES ASSUME NEW n \in Nat, p = hundred * n PROVE Multiple(p, ten)
    BY DEF Multiple
  <2>1. p = ten * (10 * n)
    BY <1>1
  <2> QED BY <2>1 DEF Multiple
<1> HIDE DEF ten, hundred
<1>4. Threshold \in Nat
  BY UnitAssumption DEF Threshold
<1>5. /\ p < Threshold => Multiple(p, ten)
      /\ ~(p < Threshold) => Multiple(p, hundred)
  BY <1>1, <1>2, RoundingFacts
<1> QED BY <1>1, <1>3, <1>4, <1>5 DEF ten, hundred

\* Rounding goes up, to a rounded price, and past no rounded price.
LEMMA RoundedFacts ==
  ASSUME NEW p \in Nat
  PROVE  /\ IsRounded(Rounded(p))
         /\ p <= Rounded(p)
         /\ \A h : IsRounded(h) /\ p <= h => Rounded(p) <= h
<1> DEFINE ten == 10 * Unit
           hundred == 100 * Unit
           r == Rounded(p)
<1>1. /\ ten \in Nat \ {0} /\ hundred \in Nat \ {0} /\ Threshold \in Nat
      /\ Multiple(Threshold, ten) /\ Multiple(Threshold, hundred)
  <2>1. Threshold = ten * 100 /\ Threshold = hundred * 10
    BY UnitAssumption DEF Threshold
  <2> QED BY <2>1, UnitAssumption DEF Multiple, Threshold
<1>2. \A x \in Nat : Rounded(x) = ApplyRounding(x, IF x < Threshold THEN ten ELSE hundred)
  BY DEF Rounded, RoundingStep
<1>3. \A h : IsRounded(h) => /\ h \in Nat /\ Multiple(h, ten)
                             /\ h >= Threshold => Multiple(h, hundred)
  BY RoundedSteps DEF IsRounded
<1> HIDE DEF ten, hundred
<1>4. r \in Nat /\ p <= r
  BY <1>1, <1>2, RoundingFacts
<1> HIDE DEF r
<1>5. CASE p < Threshold
  <2>1. r = ApplyRounding(p, ten)
    BY <1>2, <1>5 DEF r
  <2>2. Multiple(r, ten) /\ r <= Threshold
    BY <1>1, <1>5, <2>1, RoundingFacts
  <2>3. Rounded(r) <= r /\ r <= Rounded(r) /\ Rounded(r) \in Nat
    <3>1. PICK s \in {ten, hundred} : Rounded(r) = ApplyRounding(r, s) /\ Multiple(r, s)
      <4>1. CASE r < Threshold
        BY <1>2, <1>4, <2>2, <4>1
      <4>2. CASE r = Threshold
        BY <1>1, <1>2, <1>4, <4>2
      <4> QED BY <1>1, <1>4, <2>2, <4>1, <4>2
    <3>2. s \in Nat \ {0}
      BY <1>1, <3>1
    <3> QED BY <1>4, <3>1, <3>2, RoundingFacts
  <2>4. ASSUME NEW h, IsRounded(h), p <= h PROVE r <= h
    BY <1>1, <1>3, <2>1, <2>4, RoundingFacts
  <2> QED BY <1>4, <2>3, <2>4 DEF IsRounded, r
<1>6. CASE ~(p < Threshold)
  <2>1. r = ApplyRounding(p, hundred)
    BY <1>2, <1>6 DEF r
  <2>2. Multiple(r, hundred) /\ ~(r < Threshold)
    BY <1>1, <1>4, <1>6, <2>1, RoundingFacts
  <2>3. Rounded(r) <= r /\ r <= Rounded(r) /\ Rounded(r) \in Nat
    BY <1>1, <1>2, <1>4, <2>2, RoundingFacts
  <2>4. ASSUME NEW h, IsRounded(h), p <= h PROVE r <= h
    <3>1. h \in Nat /\ h >= Threshold
      BY <1>1, <1>3, <1>6, <2>4
    <3> QED BY <1>1, <1>3, <2>1, <2>4, <3>1, RoundingFacts
  <2> QED BY <1>4, <2>3, <2>4 DEF IsRounded, r
<1> QED BY <1>5, <1>6

\* The average of two rounded prices is a rounded price between them.
LEMMA WeightedBetween ==
  ASSUME NEW q1 \in Nat, NEW p1, IsRounded(p1), NEW q2 \in Nat \ {0}, NEW p2, IsRounded(p2),
         NEW lo, IsRounded(lo), NEW hi, IsRounded(hi),
         lo <= p1, lo <= p2, p1 <= hi, p2 <= hi
  PROVE  /\ IsRounded(WeightedPrice(q1, p1, q2, p2))
         /\ lo <= WeightedPrice(q1, p1, q2, p2)
         /\ WeightedPrice(q1, p1, q2, p2) <= hi
<1> DEFINE k == Unit \div 100
           sum == q1 * p1 + q2 * p2
           w == q1 + q2
           d == w * k
           u == HalfUp(sum, d)
           raw == u * k
<1>1. /\ k \in Nat \ {0} /\ Unit = 100 * k
      /\ p1 \in Nat /\ p2 \in Nat /\ lo \in Nat /\ hi \in Nat /\ w \in Nat \ {0}
  BY UnitAssumption DEF IsRounded
<1> HIDE DEF k
<1>2. sum \in Nat /\ w * lo <= sum /\ sum <= w * hi
  <2>1. /\ q1 * lo <= q1 * p1 /\ q1 * p1 <= q1 * hi
        /\ q2 * lo <= q2 * p2 /\ q2 * p2 <= q2 * hi
    BY <1>1, MulMono
  <2>2. w * lo = q1 * lo + q2 * lo /\ w * hi = q1 * hi + q2 * hi
    BY <1>1
  <2>3. /\ q1 * lo \in Nat /\ q2 * lo \in Nat /\ q1 * p1 \in Nat /\ q2 * p2 \in Nat
        /\ q1 * hi \in Nat /\ q2 * hi \in Nat
    BY <1>1, MulNat
  <2> QED BY <2>1, <2>2, <2>3
<1> HIDE DEF w
<1>3. ASSUME NEW h, IsRounded(h)
      PROVE  \E n \in Nat : h = n * k /\ w * h = d * n
  <2>1. PICK n \in Nat : h = (10 * Unit) * n
    BY <1>3, RoundedSteps DEF Multiple
  <2>2. h = (1000 * n) * k
    BY <1>1, <2>1
  <2>3. w * h = d * (1000 * n)
    BY <1>1, <2>2
  <2> QED BY <2>2, <2>3
<1>4. d \in Nat \ {0}
  <2>1. d \in Nat
    BY <1>1, MulNat
  <2>2. d # 0
    BY <1>1
  <2> QED BY <2>1, <2>2
<1> HIDE DEF sum, d
<1>5. u \in Nat
  BY <1>2, <1>4, HalfUpBound
<1>6. PICK l \in Nat : lo = l * k /\ w * lo = d * l
  BY <1>3
<1>7. PICK h \in Nat : hi = h * k /\ w * hi = d * h
  BY <1>3
<1>8. l <= u /\ u <= h
  BY <1>2, <1>4, <1>6, <1>7, HalfUpBound
<1> HIDE DEF u
<1>9. raw \in Nat /\ lo <= raw /\ raw <= hi
  <2>1. k * l <= k * u /\ k * u <= k * h
    BY <1>1, <1>5, <1>8, MulMono
  <2>2. raw \in Nat
    BY <1>1, <1>5, MulNat
  <2>3. k * l = l * k /\ k * u = u * k /\ k * h = h * k
    BY <1>1, <1>5
  <2> QED BY <1>6, <1>7, <2>1, <2>2, <2>3
<1> HIDE DEF raw
<1>10. WeightedPrice(q1, p1, q2, p2) = Rounded(raw)
  BY DEF WeightedPrice, raw, u, d, w, sum, k
<1>11. /\ IsRounded(Rounded(raw)) /\ raw <= Rounded(raw) /\ Rounded(raw) <= hi
  BY <1>9, RoundedFacts
<1>12. lo <= Rounded(raw)
  BY <1>1, <1>9, <1>11 DEF IsRounded
<1> QED BY <1>10, <1>11, <1>12

(* -------------------------------- sums --------------------------------- *)

\* MapThenSumSet adds a set up element by element, in whatever order CHOOSE gives.
\* It is a recursive function; that it exists on a finite set, and that the order does
\* not matter, is shown by looking at a smallest set for which it fails.
Sum(w, S) == MapThenSumSet(LAMBDA r : w[r].qty, S)

Chosen(s) == CHOOSE x \in s : TRUE

\* What is added up when the sums of smaller sets are in f.
Term(f, w, s) == IF s = {} THEN 0 ELSE w[Chosen(s)].qty + f[s \ {Chosen(s)}]

Unfolds(f, w, S) == f = [s \in SUBSET S |-> Term(f, w, s)]

Sums(w, S) == CHOOSE f : Unfolds(f, w, S)

\* The sum is the value of the fold of the library.
LEMMA SumIsFold ==
  ASSUME NEW w, NEW S
  PROVE  Sum(w, S) = Sums(w, S)[S]
BY DEF Sum, MapThenSumSet, MapThenFoldSet, Sums, Unfolds, Term, Chosen

\* Among parts of a finite set there is one none of whose own parts is among them.
LEMMA SmallestPart ==
  ASSUME NEW S, IsFiniteSet(S), NEW B, B \subseteq SUBSET S, B # {}
  PROVE  \E s \in B : \A t \in SUBSET s : t # s => t \notin B
<1> DEFINE R == StrictSubsetOrdering(S)
<1>1. IsWellFoundedOn(R, SUBSET S)
  BY FS_StrictSubsetOrderingWellFounded, FS_FiniteSubsetsOfFinite
<1>2. PICK s \in B : \A t \in B : ~(<<t, s>> \in R)
  <2> HIDE DEF R
  <2> QED BY <1>1, WFMin
<1>3. ASSUME NEW t \in SUBSET s, t # s, t \in B PROVE FALSE
  <2>1. <<t, s>> \in R
    BY <1>2, <1>3 DEF StrictSubsetOrdering
  <2> QED BY <1>2, <1>3, <2>1
<1> QED BY <1>2, <1>3

\* What is chosen is an element.
LEMMA ChosenIsIn == ASSUME NEW s, s # {} PROVE Chosen(s) \in s
BY DEF Chosen

\* The sums of the parts with at most n elements exist.
LEMMA SumsExist ==
  ASSUME NEW w, NEW S, IsFiniteSet(S)
  PROVE  \E f : Unfolds(f, w, S)
<1> DEFINE Upto(n) == {s \in SUBSET S : Cardinality(s) <= n}
           Solved(n) == \E g : g = [s \in Upto(n) |-> Term(g, w, s)]
           B == {n \in Nat : ~Solved(n)}
<1>1. \A s \in SUBSET S : IsFiniteSet(s) /\ Cardinality(s) \in Nat
  BY FS_Subset, FS_CardinalityType
<1>2. Solved(0)
  <2>1. Upto(0) = {{}}
    BY <1>1, FS_EmptySet
  <2> DEFINE g == [s \in {{}} |-> 0]
  <2>2. g = [s \in Upto(0) |-> Term(g, w, s)]
    BY <2>1 DEF Term
  <2> QED BY <2>2
<1>3. ASSUME NEW n \in Nat, Solved(n) PROVE Solved(n + 1)
  <2>1. PICK h : h = [s \in Upto(n) |-> Term(h, w, s)]
    BY <1>3
  <2> DEFINE g == [s \in Upto(n + 1) |-> Term(h, w, s)]
  <2>2. ASSUME NEW s \in Upto(n + 1) PROVE Term(h, w, s) = Term(g, w, s)
    <3>1. CASE s = {}
      BY <3>1 DEF Term
    <3>2. CASE s # {}
      <4> DEFINE t == s \ {Chosen(s)}
      <4>1. t \in Upto(n)
        BY <1>1, <3>2, ChosenIsIn, FS_RemoveElement
      <4>2. t \in Upto(n + 1)
        BY <1>1, <4>1
      <4>3. h[t] = Term(h, w, t) /\ g[t] = Term(h, w, t)
        BY <2>1, <4>1, <4>2
      <4> QED BY <3>2, <4>3 DEF Term
    <3> QED BY <3>1, <3>2
  <2>3. g = [s \in Upto(n + 1) |-> Term(g, w, s)]
    BY <2>2
  <2> QED BY <2>3
<1> HIDE DEF Solved
<1>4. B = {}
  <2> SUFFICES ASSUME B # {} PROVE FALSE
    OBVIOUS
  <2> DEFINE R == OpToRel(<, Nat)
  <2>1. \A x, y \in Nat : x < y => <<x, y>> \in R
    BY DEF OpToRel
  <2>2. PICK n \in B : \A m \in B : ~(<<m, n>> \in R)
    <3>1. IsWellFoundedOn(R, Nat)
      BY NatLessThanWellFounded
    <3> HIDE DEF R
    <3>2. B \subseteq Nat /\ B # {}
      OBVIOUS
    <3> HIDE DEF B
    <3> QED BY <3>1, <3>2, WFMin
  <2> HIDE DEF R
  <2>3. n # 0
    BY <1>2
  <2>4. n - 1 \in Nat /\ n - 1 < n
    BY <2>3
  <2>5. Solved(n - 1)
    BY <2>1, <2>2, <2>4
  <2>6. Solved(n - 1 + 1)
    BY <1>3, <2>4, <2>5
  <2> QED BY <2>2, <2>6
<1>5. Solved(Cardinality(S))
  BY <1>4, FS_CardinalityType
<1>6. Upto(Cardinality(S)) = SUBSET S
  BY FS_Subset
<1> QED BY <1>5, <1>6 DEF Solved, Unfolds

\* The sums of all parts of a finite set.
LEMMA SumsUnfold ==
  ASSUME NEW w, NEW S, IsFiniteSet(S)
  PROVE  Unfolds(Sums(w, S), w, S)
BY SumsExist DEF Sums

\* A part has one sum, whatever set it is taken from, and only the quantities of
\* its elements count.
LEMMA SumsAgree ==
  ASSUME NEW w, NEW v, NEW S, IsFiniteSet(S), NEW T, T \subseteq S,
         \A x \in T : w[x].qty = v[x].qty
  PROVE  Sums(w, S)[T] = Sums(v, T)[T]
<1> DEFINE f == Sums(w, S)
           g == Sums(v, T)
           B == {s \in SUBSET T : f[s] # g[s]}
<1>1. IsFiniteSet(T)
  BY FS_Subset
<1>2. Unfolds(f, w, S) /\ Unfolds(g, v, T)
  BY <1>1, SumsUnfold
<1> HIDE DEF f, g
<1>3. \A s \in SUBSET T : f[s] = Term(f, w, s) /\ g[s] = Term(g, v, s)
  BY <1>2 DEF Unfolds
<1>4. ASSUME NEW s \in B, \A t \in SUBSET s : t # s => t \notin B PROVE FALSE
  <2>1. s # {}
    BY <1>3 DEF Term
  <2> DEFINE t == s \ {Chosen(s)}
  <2>2. Chosen(s) \in s /\ t \in SUBSET s /\ t # s /\ t \in SUBSET T
    BY <2>1, ChosenIsIn
  <2>3. f[t] = g[t]
    BY <1>4, <2>2
  <2>4. w[Chosen(s)].qty = v[Chosen(s)].qty
    BY <2>2
  <2> QED BY <1>3, <2>1, <2>3, <2>4 DEF Term
<1>5. B = {}
  <2> SUFFICES ASSUME B # {} PROVE FALSE
    OBVIOUS
  <2>1. PICK s \in B : \A t \in SUBSET s : t # s => t \notin B
    <3>1. B \subseteq SUBSET T
      OBVIOUS
    <3> HIDE DEF B
    <3> QED BY <1>1, <3>1, SmallestPart
  <2> QED BY <1>4, <2>1
<1> QED BY <1>5 DEF f, g

\* A sum, one element at a time.
LEMMA SumUnfold ==
  ASSUME NEW w, NEW S, IsFiniteSet(S)
  PROVE  /\ S = {} => Sum(w, S) = 0
         /\ S # {} => Sum(w, S) = w[Chosen(S)].qty + Sum(w, S \ {Chosen(S)})
<1>1. Sums(w, S)[S] = Term(Sums(w, S), w, S)
  <2>1. Unfolds(Sums(w, S), w, S)
    BY SumsUnfold
  <2> DEFINE f == Sums(w, S)
  <2> HIDE DEF f
  <2>2. Unfolds(f, w, S) => f[S] = Term(f, w, S)
    BY DEF Unfolds
  <2> QED BY <2>1, <2>2 DEF f
<1>2. Sums(w, S)[S \ {Chosen(S)}] = Sums(w, S \ {Chosen(S)})[S \ {Chosen(S)}]
  BY SumsAgree
<1> QED BY <1>1, <1>2, SumIsFold DEF Term

\* Sums are equal if the quantities are.
LEMMA SumSame ==
  ASSUME NEW w, NEW v, NEW S, IsFiniteSet(S), \A x \in S : w[x].qty = v[x].qty
  PROVE  Sum(w, S) = Sum(v, S)
BY SumsAgree, SumIsFold

\* Quantities add up to a natural number.
LEMMA SumType ==
  ASSUME NEW w, NEW S, IsFiniteSet(S), \A x \in S : w[x].qty \in Nat
  PROVE  Sum(w, S) \in Nat
<1> DEFINE B == {s \in SUBSET S : Sum(w, s) \notin Nat}
<1>1. ASSUME NEW s \in B, \A t \in SUBSET s : t # s => t \notin B PROVE FALSE
  <2>1. IsFiniteSet(s)
    BY FS_Subset
  <2>2. s # {}
    <3>1. Sum(w, s) # 0
      OBVIOUS
    <3> QED BY <2>1, <3>1, SumUnfold
  <2>3. Chosen(s) \in s
    BY <2>2, ChosenIsIn
  <2>4. Sum(w, s \ {Chosen(s)}) \in Nat
    BY <1>1, <2>3
  <2>5. Sum(w, s) = w[Chosen(s)].qty + Sum(w, s \ {Chosen(s)})
    BY <2>1, <2>2, SumUnfold
  <2> QED BY <2>3, <2>4, <2>5
<1>2. B = {}
  <2> SUFFICES ASSUME B # {} PROVE FALSE
    OBVIOUS
  <2>1. PICK s \in B : \A t \in SUBSET s : t # s => t \notin B
    <3>1. B \subseteq SUBSET S
      OBVIOUS
    <3> HIDE DEF B
    <3> QED BY <3>1, SmallestPart
  <2> QED BY <1>1, <2>1
<1> QED BY <1>2

\* The order in which a set is added up does not matter: any element may be the
\* last one.
LEMMA SumRemove ==
  ASSUME NEW w, NEW S, IsFiniteSet(S), \A x \in S : w[x].qty \in Nat, NEW x \in S
  PROVE  Sum(w, S) = w[x].qty + Sum(w, S \ {x})
<1> DEFINE Bad(s) == \E y \in s : Sum(w, s) # w[y].qty + Sum(w, s \ {y})
           B == {s \in SUBSET S : Bad(s)}
<1>1. ASSUME NEW s \in B, \A t \in SUBSET s : t # s => t \notin B PROVE FALSE
  <2>1. PICK y \in s : Sum(w, s) # w[y].qty + Sum(w, s \ {y})
    OBVIOUS
  <2> DEFINE c == Chosen(s)
  <2>2. c \in s /\ Sum(w, s) = w[c].qty + Sum(w, s \ {c})
    BY ChosenIsIn, FS_Subset, SumUnfold
  <2> HIDE DEF c
  <2>3. c # y
    BY <2>1, <2>2
  <2>4. s \ {c} \notin B /\ s \ {y} \notin B
    BY <1>1, <2>1, <2>2
  <2>5. /\ Sum(w, s \ {c}) = w[y].qty + Sum(w, (s \ {c}) \ {y})
        /\ Sum(w, s \ {y}) = w[c].qty + Sum(w, (s \ {y}) \ {c})
    BY <2>2, <2>3, <2>4
  <2>6. (s \ {c}) \ {y} = (s \ {y}) \ {c}
    OBVIOUS
  <2> DEFINE d == Sum(w, (s \ {y}) \ {c})
  <2>7. d \in Nat
    <3>1. IsFiniteSet((s \ {y}) \ {c}) /\ \A x_1 \in (s \ {y}) \ {c} : w[x_1].qty \in Nat
      BY FS_Subset
    <3> QED BY <3>1, SumType
  <2>8. w[c].qty \in Nat /\ w[y].qty \in Nat
    BY <2>2
  <2>9. Sum(w, s \ {c}) = w[y].qty + d /\ Sum(w, s \ {y}) = w[c].qty + d
    BY <2>5, <2>6
  <2> HIDE DEF d
  <2>10. w[c].qty + (w[y].qty + d) = w[y].qty + (w[c].qty + d)
    BY <2>7, <2>8
  <2> QED BY <2>1, <2>2, <2>9, <2>10
<1>2. B = {}
  <2> SUFFICES ASSUME B # {} PROVE FALSE
    OBVIOUS
  <2>1. PICK s \in B : \A t \in SUBSET s : t # s => t \notin B
    <3>1. B \subseteq SUBSET S
      OBVIOUS
    <3> HIDE DEF B
    <3> QED BY <3>1, SmallestPart
  <2> QED BY <1>1, <2>1
<1> QED BY <1>2

(* ----------------------------- induction ------------------------------- *)

\* Before the first call nothing is received, listed or in stock.
LEMMA InitInv == Init => Inv
<1> SUFFICES ASSUME Init PROVE Inv OBVIOUS
<1>1. receipt = <<>> /\ stock = <<>> /\ pending = {} /\ answered = {}
  BY DEF Init
<1>2. TypeOK
  BY <1>1 DEF Init, TypeOK
<1>3. \A c \in Purchases : ReceivedFor(c) = {} /\ purchase[c] # "delivered"
  BY <1>1 DEF Init, ReceivedFor
<1>4. CompleteIsDelivered
  BY <1>3 DEF CompleteIsDelivered
<1>5. PendingResolvable /\ OnePrimaryListing
  BY <1>1 DEF Init, PendingResolvable, OnePrimaryListing
<1>6. ObservedOnce
  BY <1>1, <1>3 DEF Init, ObservedOnce
<1> QED BY <1>2, <1>4, <1>5, <1>6 DEF Inv

\* What the hook does to the stock row of the product received: a row that has a
\* price keeps it, and one that gets a receipt has one.
LEMMA MergedFacts ==
  ASSUME TypeOK, NEW p \in Products, NEW q \in Nat \ {0}, NEW price \in Nat
  PROVE  /\ Merged(p, q, price) \in Stock
         /\ Merged(p, q, price).price # NoPrice
         /\ HasPrice(p) => Merged(p, q, price).price = stock[p].price
<1>1. p \in DOMAIN stock => stock[p] \in Stock
  BY DEF TypeOK
<1> QED BY <1>1 DEF Merged, HasPrice, Stock, NoPrice

\* The stock keeps its type when one row of the right type is put.
LEMMA PutStock ==
  ASSUME TypeOK, NEW p \in Products, NEW row \in Stock, stock' = Put(stock, p, row)
  PROVE  /\ DOMAIN stock' \subseteq Products
         /\ stock' \in [DOMAIN stock' -> Stock]
         /\ \A i \in DOMAIN stock : i # p => i \in DOMAIN stock' /\ stock'[i] = stock[i]
         /\ p \in DOMAIN stock' /\ stock'[p] = row
BY DEF TypeOK, Put

\* Recording prices only adds listings of the purchase's supplier, keeps the
\* primary ones and brings every observation of the given products to one.
LEMMA RecordFacts ==
  ASSUME TypeOK, OnePrimaryListing, NEW c \in Purchases, NEW P \in SUBSET Products,
         RecordListingPrices(c, P)
  PROVE  /\ listing' \in [Products -> SUBSET Suppliers]
         /\ primary' \in [Products -> SUBSET Suppliers]
         /\ observed' \in [Purchases -> [Products -> Nat]]
         /\ OnePrimaryListing'
         /\ \A d \in Purchases, p \in Products :
              /\ observed[d][p] = 1 => observed'[d][p] = 1
              /\ observed[d][p] <= 1 => observed'[d][p] <= 1
              /\ d = c /\ p \in P /\ observed[d][p] <= 1 => observed'[d][p] = 1
<1>1. SupplierOf[c] \in Suppliers
  BY ReceivingAssumption
<1>2. /\ listing' \in [Products -> SUBSET Suppliers]
      /\ primary' \in [Products -> SUBSET Suppliers]
  BY <1>1 DEF TypeOK, RecordListingPrices
<1>3. OnePrimaryListing'
  BY DEF TypeOK, RecordListingPrices, OnePrimaryListing
<1>4. observed' = [observed EXCEPT ![c] = [p \in Products |->
                     IF p \in P /\ observed[c][p] = 0 THEN 1 ELSE observed[c][p]]]
  BY DEF RecordListingPrices
<1>5. observed' \in [Purchases -> [Products -> Nat]]
  BY <1>4 DEF TypeOK
<1>6. ASSUME NEW d \in Purchases, NEW p \in Products
      PROVE  /\ observed[d][p] = 1 => observed'[d][p] = 1
             /\ observed[d][p] <= 1 => observed'[d][p] <= 1
             /\ d = c /\ p \in P /\ observed[d][p] <= 1 => observed'[d][p] = 1
  <2>1. observed[d][p] \in Nat
    BY DEF TypeOK
  <2>2. d # c => observed'[d][p] = observed[d][p]
    BY <1>4 DEF TypeOK
  <2>3. d = c => observed'[d][p] = IF p \in P /\ observed[d][p] = 0 THEN 1 ELSE observed[d][p]
    BY <1>4 DEF TypeOK
  <2> QED BY <2>1, <2>2, <2>3
<1> QED BY <1>2, <1>3, <1>5, <1>6

\* The products received for a purchase are finitely many.
LEMMA ReceivedFinite ==
  ASSUME TypeOK, NEW c \in Purchases
  PROVE  IsFiniteSet(ReceivedFor(c))
<1> DEFINE S == {i \in DOMAIN receipt : receipt[i].purchase = c}
           f == [i \in S |-> receipt[i].product]
<1>1. IsFiniteSet(S)
  BY ReceivingAssumption, FS_Subset DEF TypeOK
<1>2. f \in Surjection(S, ReceivedFor(c))
  BY DEF Surjection, ReceivedFor
<1> QED BY <1>1, <1>2, FS_Surjection

(* ------------------------------- steps --------------------------------- *)

\* receive_stock keeps the invariant.
LEMMA ReceiveStockInv ==
  ASSUME Inv, NEW r \in Receipts, NEW c \in Purchases, NEW p \in Products,
         NEW q \in Quantities, NEW price \in Prices \cup {NoPrice},
         ReceiveStock(r, c, p, q, price)
  PROVE  Inv'
<1> DEFINE new == [purchase |-> c, product |-> p, qty |-> q, price |-> price]
           P == (IF price = NoPrice THEN {} ELSE {p})
                  \cup (IF Completes(c, p) THEN Listable(c) ELSE {})
<1>1. /\ q \in Nat \ {0} /\ price \in Nat \cup {NoPrice}
      /\ Listable(c) \subseteq Products /\ P \in SUBSET Products
  BY ReceivingAssumption DEF Listable
<1>2. /\ DOMAIN receipt' = DOMAIN receipt \cup {r}
      /\ receipt'[r] = new /\ new \in Receipt
      /\ \A i \in DOMAIN receipt : receipt'[i] = receipt[i]
      /\ receipt' \in [DOMAIN receipt' -> Receipt]
  BY <1>1 DEF ReceiveStock, Put, Inv, TypeOK, Receipt
<1>3. RecordListingPrices(c, P)
  BY DEF ReceiveStock
<1>4. /\ DOMAIN stock' \subseteq Products
      /\ stock' \in [DOMAIN stock' -> Stock]
      /\ \A i \in Products : HasPrice(i) => HasPrice(i)'
      /\ price # NoPrice => HasPrice(p)'
  <2>1. CASE price = NoPrice
    BY <2>1 DEF ReceiveStock, Inv, TypeOK, HasPrice
  <2>2. CASE price # NoPrice /\ Conflict(p, price)
    BY <2>2 DEF ReceiveStock, Inv, TypeOK, HasPrice, Conflict
  <2>3. CASE price # NoPrice /\ ~Conflict(p, price)
    <3>1. stock' = Put(stock, p, Merged(p, q, price))
      BY <2>3 DEF ReceiveStock
    <3>2. /\ Merged(p, q, price) \in Stock
          /\ Merged(p, q, price).price # NoPrice
      BY <1>1, <2>3, MergedFacts DEF Inv
    <3> QED BY <3>1, <3>2, PutStock DEF Inv, HasPrice
  <2> QED BY <2>1, <2>2, <2>3
<1>5. TypeOK'
  <2>1. pending' \in SUBSET Receipts
    BY DEF ReceiveStock, Inv, TypeOK
  <2>2. purchase' \in [Purchases -> {"open", "delivered", "cancelled"}]
    BY DEF ReceiveStock, Inv, TypeOK
  <2>3. rate' = rate /\ added' = added /\ answered' = answered
    BY DEF ReceiveStock
  <2>4. DOMAIN receipt' \subseteq Receipts
    BY <1>2 DEF Inv, TypeOK
  <2>5. /\ listing' \in [Products -> SUBSET Suppliers]
        /\ primary' \in [Products -> SUBSET Suppliers]
        /\ observed' \in [Purchases -> [Products -> Nat]]
    BY <1>1, <1>3, RecordFacts DEF Inv
  <2> QED BY <1>2, <1>4, <2>1, <2>2, <2>3, <2>4, <2>5 DEF Inv, TypeOK
<1>6. PendingResolvable'
  <2>1. ASSUME NEW s \in pending'
        PROVE  s \in DOMAIN receipt' /\ receipt'[s].price # NoPrice
               /\ HasPrice(receipt[s].product)'
    <3>1. CASE s \in pending
      <4>1. s \in DOMAIN receipt /\ receipt[s].price # NoPrice
            /\ HasPrice(receipt[s].product) /\ receipt[s].product \in Products
        BY <3>1 DEF Inv, PendingResolvable, TypeOK, Receipt
      <4> QED BY <4>1, <1>2, <1>4 DEF HasPrice
    <3>2. CASE s \notin pending
      <4>1. s = r /\ price # NoPrice
        BY <3>2 DEF ReceiveStock
      <4> QED BY <4>1, <1>2, <1>4 DEF HasPrice
    <3> QED BY <3>1, <3>2
  <2> QED BY <2>1 DEF PendingResolvable
<1>7. OnePrimaryListing'
  BY <1>1, <1>3, RecordFacts DEF Inv
<1>8. ReceivedFor(c)' = ReceivedFor(c) \cup {p}
      /\ \A d \in Purchases : d # c => ReceivedFor(d)' = ReceivedFor(d)
  BY <1>2 DEF ReceivedFor, ReceiveStock
<1>9. purchase'[c] = (IF Completes(c, p) THEN "delivered" ELSE purchase[c])
      /\ \A d \in Purchases : d # c => purchase'[d] = purchase[d]
  BY DEF ReceiveStock, Inv, TypeOK
<1>10. ObservedOnce'
  <2>1. \A d \in Purchases, i \in Products :
          /\ observed[d][i] = 1 => observed'[d][i] = 1
          /\ observed[d][i] <= 1 /\ observed'[d][i] <= 1
          /\ d = c /\ i \in P => observed'[d][i] = 1
    BY <1>1, <1>3, RecordFacts DEF Inv, ObservedOnce
  <2>2. ASSUME NEW s \in DOMAIN receipt', receipt'[s].price # NoPrice
        PROVE  observed'[receipt'[s].purchase][receipt'[s].product] = 1
    <3>1. CASE s = r
      BY <3>1, <2>1, <2>2, <1>2
    <3>2. CASE s # r
      <4>1. s \in DOMAIN receipt /\ receipt'[s] = receipt[s] /\ receipt[s] \in Receipt
        BY <3>2, <1>2 DEF Inv, TypeOK
      <4> QED BY <4>1, <2>1, <2>2 DEF Inv, ObservedOnce, Receipt
    <3> QED BY <3>1, <3>2
  <2>3. ASSUME NEW d \in Purchases, NEW i \in Products,
               purchase'[d] = "delivered", i \in Listable(d)
        PROVE  observed'[d][i] = 1
    BY <2>1, <2>3, <1>9 DEF Inv, ObservedOnce
  <2> QED BY <2>1, <2>2, <2>3 DEF ObservedOnce, Listable
<1>11. CompleteIsDelivered'
  <2>1. ASSUME NEW d \in Purchases, Items[d] # {}, Items[d] \subseteq ReceivedFor(d)'
        PROVE  purchase'[d] = "delivered"
    <3>1. CASE d # c
      BY <3>1, <2>1, <1>8, <1>9 DEF Inv, CompleteIsDelivered
    <3>2. CASE d = c
      <4>1. IsFiniteSet(ReceivedFor(c) \cup {p})
        BY ReceivedFinite, FS_AddElement DEF Inv
      <4>2. Items[c] \in SUBSET (ReceivedFor(c) \cup {p})
        BY <3>2, <2>1, <1>8
      <4>3. Cardinality(ReceivedFor(c) \cup {p}) >= Cardinality(Items[c])
        BY <4>1, <4>2, FS_Subset, FS_CardinalityType
      <4> QED BY <3>2, <2>1, <4>3, <1>9 DEF Completes
    <3> QED BY <3>1, <3>2
  <2> QED BY <2>1 DEF CompleteIsDelivered
<1> QED BY <1>5, <1>6, <1>7, <1>10, <1>11 DEF Inv

\* add_to_stock keeps the invariant: a priced row stays priced.
LEMMA AddToStockInv ==
  ASSUME Inv, NEW p \in Products, NEW q \in Quantities, AddToStock(p, q)
  PROVE  Inv'
<1> DEFINE row == IF p \in DOMAIN stock THEN [stock[p] EXCEPT !.qty = @ + q]
                  ELSE [qty |-> q, price |-> NoPrice]
<1>1. q \in Nat
  BY ReceivingAssumption
<1>2. row \in Stock /\ (HasPrice(p) => row.price # NoPrice)
  BY <1>1 DEF Inv, TypeOK, Stock, HasPrice
<1>3. /\ DOMAIN stock' \subseteq Products
      /\ stock' \in [DOMAIN stock' -> Stock]
      /\ \A i \in Products : HasPrice(i) => HasPrice(i)'
  <2>1. stock' = Put(stock, p, row)
    BY DEF AddToStock
  <2> HIDE DEF row
  <2> QED BY <1>2, <2>1, PutStock DEF Inv, HasPrice
<1>4. /\ purchase' = purchase /\ rate' = rate /\ receipt' = receipt
      /\ pending' = pending /\ listing' = listing /\ primary' = primary
      /\ observed' = observed /\ answered' = answered
      /\ added' \in [Products -> Nat]
  BY <1>1 DEF AddToStock, Inv, TypeOK
<1>5. TypeOK'
  BY <1>3, <1>4 DEF Inv, TypeOK
<1>6. PendingResolvable'
  BY <1>3, <1>4 DEF Inv, PendingResolvable, TypeOK, Receipt
<1>7. OnePrimaryListing' /\ ObservedOnce' /\ CompleteIsDelivered'
  BY <1>4 DEF Inv, OnePrimaryListing, ObservedOnce, CompleteIsDelivered, ReceivedFor
<1> QED BY <1>5, <1>6, <1>7 DEF Inv

\* A resolution gives the stock a price among the naturals.
LEMMA ResolvedPriceType ==
  ASSUME Inv, NEW r \in pending, NEW choice \in ResolutionChoices
  PROVE  /\ receipt[r] \in Receipt /\ stock[receipt[r].product] \in Stock
         /\ ResolvedPrice(r, choice) \in Nat
<1>1. /\ receipt[r] \in Receipt /\ receipt[r].price # NoPrice
      /\ receipt[r].product \in DOMAIN stock
      /\ stock[receipt[r].product] \in Stock
      /\ stock[receipt[r].product].price # NoPrice
  BY DEF Inv, PendingResolvable, TypeOK, HasPrice
<1>2. /\ receipt[r].price \in Nat /\ receipt[r].qty \in Nat \ {0}
      /\ stock[receipt[r].product].price \in Nat
      /\ stock[receipt[r].product].qty \in Nat
  BY <1>1 DEF Receipt, Stock
<1>3. WeightedPrice(stock[receipt[r].product].qty, stock[receipt[r].product].price,
                    receipt[r].qty, receipt[r].price) \in Nat
  BY <1>2, WeightedPriceType
<1> QED BY <1>1, <1>2, <1>3 DEF ResolvedPrice, ResolutionChoices

\* resolve_price_resolution keeps the invariant.
LEMMA ResolvePriceInv ==
  ASSUME Inv, NEW r \in Receipts, NEW choice \in ResolutionChoices,
         ResolvePrice(r, choice)
  PROVE  Inv'
<1> DEFINE p == receipt[r].product
           row == [qty |-> stock[p].qty + receipt[r].qty,
                   price |-> ResolvedPrice(r, choice)]
<1>1. /\ r \in pending /\ receipt[r] \in Receipt /\ stock[p] \in Stock
      /\ ResolvedPrice(r, choice) \in Nat
  BY ResolvedPriceType DEF ResolvePrice
<1>2. row \in Stock /\ row.price # NoPrice /\ p \in Products
  BY <1>1 DEF Stock, Receipt, NoPrice
<1>3. stock' = stock \/ stock' = Put(stock, p, row)
  BY DEF ResolvePrice
<1> HIDE DEF p, row
<1>4. /\ DOMAIN stock' \subseteq Products
      /\ stock' \in [DOMAIN stock' -> Stock]
      /\ \A i \in Products : HasPrice(i) => HasPrice(i)'
  <2>1. CASE stock' = stock
    BY <2>1 DEF Inv, TypeOK, HasPrice
  <2>2. CASE stock' = Put(stock, p, row)
    BY <1>2, <2>2, PutStock DEF Inv, HasPrice
  <2> QED BY <1>3, <2>1, <2>2
<1>5. /\ purchase' = purchase /\ rate' = rate /\ receipt' = receipt
      /\ listing' = listing /\ primary' = primary /\ observed' = observed
      /\ added' = added /\ pending' \subseteq pending
      /\ answered' \in SUBSET Receipts
  BY DEF ResolvePrice, Inv, TypeOK
<1>6. TypeOK'
  BY <1>4, <1>5 DEF Inv, TypeOK
<1>7. PendingResolvable'
  BY <1>4, <1>5 DEF Inv, PendingResolvable, TypeOK, Receipt
<1>8. OnePrimaryListing' /\ ObservedOnce' /\ CompleteIsDelivered'
  BY <1>5 DEF Inv, OnePrimaryListing, ObservedOnce, CompleteIsDelivered, ReceivedFor
<1> QED BY <1>6, <1>7, <1>8 DEF Inv

\* set_exchange_rate and steps that change nothing keep the invariant.
LEMMA RateInv ==
  ASSUME Inv, SetExchangeRate \/ UNCHANGED vars
  PROVE  Inv'
<1>1. /\ purchase' = purchase /\ receipt' = receipt /\ stock' = stock
      /\ pending' = pending /\ listing' = listing /\ primary' = primary
      /\ observed' = observed /\ added' = added /\ answered' = answered
      /\ rate' \in BOOLEAN
  BY DEF SetExchangeRate, vars, Inv, TypeOK
<1>2. TypeOK'
  BY <1>1 DEF Inv, TypeOK
<1>3. PendingResolvable'
  BY <1>1 DEF Inv, PendingResolvable, HasPrice
<1>4. OnePrimaryListing' /\ ObservedOnce' /\ CompleteIsDelivered'
  BY <1>1 DEF Inv, OnePrimaryListing, ObservedOnce, CompleteIsDelivered, ReceivedFor
<1> QED BY <1>2, <1>3, <1>4 DEF Inv

\* Every step keeps the invariant.
LEMMA NextInv == Inv /\ [Next]_vars => Inv'
<1> SUFFICES ASSUME Inv, [Next]_vars PROVE Inv' OBVIOUS
<1>1. CASE \E r \in Receipts, c \in Purchases, p \in Products, q \in Quantities,
             price \in Prices \cup {NoPrice} : ReceiveStock(r, c, p, q, price)
  BY <1>1, ReceiveStockInv
<1>2. CASE \E p \in Products, q \in Quantities : AddToStock(p, q)
  BY <1>2, AddToStockInv
<1>3. CASE SetExchangeRate \/ UNCHANGED vars
  BY <1>3, RateInv
<1>4. CASE \E r \in Receipts, choice \in ResolutionChoices : ResolvePrice(r, choice)
  BY <1>4, ResolvePriceInv
<1> QED BY <1>1, <1>2, <1>3, <1>4 DEF Next

\* The invariant holds in every reachable state.
LEMMA Invariance == Spec => []Inv
BY InitInv, NextInv, PTL DEF Spec

(* ------------------------------ theorems ------------------------------- *)

\* The variables keep their types: prices and quantities stay natural numbers
\* through every merge and every resolution.
THEOREM TypeCorrect == Spec => []TypeOK
BY Invariance, PTL DEF Inv

\* A queued conflict can always be resolved: the scalar_one reads of
\* resolve_price_resolution find their rows.
THEOREM ConflictsResolvable == Spec => []PendingResolvable
BY Invariance, PTL DEF Inv

\* A listed product has one primary listing.
THEOREM PrimaryListing == Spec => []OnePrimaryListing
BY Invariance, PTL DEF Inv

\* A purchase is observed once per product, by whichever of the two hooks comes
\* first, and is observed when either has run.
THEOREM ObservedOnceEach == Spec => []ObservedOnce
BY Invariance, PTL DEF Inv

\* A purchase all of whose products were received is delivered.
THEOREM CompleteDelivered == Spec => []CompleteIsDelivered
BY Invariance, PTL DEF Inv

\* A step that repriced a row resolved a conflict about its product.
LEMMA StepPrices ==
  ASSUME Inv, [Next]_vars
  PROVE  \A p \in DOMAIN stock :
           stock[p].price # NoPrice /\ stock'[p].price # stock[p].price
             => \E r \in pending : r \notin pending' /\ receipt[r].product = p
<1> SUFFICES ASSUME NEW p \in DOMAIN stock,
                    stock[p].price # NoPrice, stock'[p].price # stock[p].price
             PROVE  \E r \in pending : r \notin pending' /\ receipt[r].product = p
  OBVIOUS
<1>1. ASSUME NEW r \in Receipts, NEW c \in Purchases, NEW i \in Products,
             NEW q \in Quantities, NEW price \in Prices \cup {NoPrice},
             ReceiveStock(r, c, i, q, price)
      PROVE  FALSE
  <2>1. stock' # stock
    OBVIOUS
  <2>2. price # NoPrice /\ stock' = Put(stock, i, Merged(i, q, price))
    BY <1>1, <2>1 DEF ReceiveStock
  <2>3. price \in Nat /\ q \in Nat \ {0}
    BY <2>2, ReceivingAssumption
  <2>4. /\ Merged(i, q, price) \in Stock
        /\ HasPrice(i) => Merged(i, q, price).price = stock[i].price
    BY <2>3, MergedFacts DEF Inv
  <2>5. p = i => stock'[p].price = stock[p].price
    BY <2>2, <2>4, PutStock DEF Inv, HasPrice
  <2>6. p # i => stock'[p] = stock[p]
    BY <2>2, <2>4, PutStock DEF Inv
  <2> QED BY <2>5, <2>6
<1>2. ASSUME NEW i \in Products, NEW q \in Quantities, AddToStock(i, q)
      PROVE  FALSE
  <2>1. stock[p] \in Stock
    BY DEF Inv, TypeOK
  <2>2. stock'[p] = IF p = i THEN [stock[p] EXCEPT !.qty = @ + q] ELSE stock[p]
    BY <1>2 DEF AddToStock, Put
  <2> QED BY <2>1, <2>2 DEF Stock
<1>3. ASSUME NEW r \in Receipts, NEW choice \in ResolutionChoices,
             ResolvePrice(r, choice)
      PROVE  \E s \in pending : s \notin pending' /\ receipt[s].product = p
  <2>1. stock' # stock
    OBVIOUS
  <2>2. ResolveCommits /\ r \in pending /\ pending' = pending \ {r}
    BY <1>3, <2>1 DEF ResolvePrice
  <2>3. p # receipt[r].product => stock'[p] = stock[p]
    BY <1>3, <2>2 DEF ResolvePrice, Put
  <2> QED BY <2>2, <2>3
<1>4. CASE SetExchangeRate \/ UNCHANGED vars
  BY <1>4 DEF SetExchangeRate, vars
<1> QED BY <1>1, <1>2, <1>3, <1>4 DEF Next

\* ADR-008: neither a receipt nor an addition changes the price of goods on the
\* shelf; only a resolution does.
THEOREM PricesByDecision == Spec => PriceChangesByDecision
BY Invariance, StepPrices, PTL DEF Spec, PriceChangesByDecision

(* ------------------------------ quantities ----------------------------- *)

\* The receipts whose goods are in the stock row of a product.
Taken(p) == PricedReceipts(p) \ pending

\* What QuantityConserved says.
Conserved == \A p \in Products : InStock(p) = added[p] + Sum(receipt, Taken(p))

LEMMA ConservedIsQuantityConserved == Conserved <=> QuantityConserved
BY Zenon DEF Conserved, QuantityConserved, Sum, Taken

\* The receipts taken are finitely many rows of the table.
LEMMA TakenFacts ==
  ASSUME TypeOK, NEW p \in Products
  PROVE  /\ IsFiniteSet(Taken(p)) /\ Taken(p) \subseteq DOMAIN receipt
         /\ \A i \in Taken(p) : receipt[i].qty \in Nat
         /\ Sum(receipt, Taken(p)) \in Nat
<1>1. Taken(p) \subseteq DOMAIN receipt /\ Taken(p) \subseteq Receipts
  BY DEF Taken, PricedReceipts, TypeOK
<1>2. IsFiniteSet(Taken(p))
  BY <1>1, ReceivingAssumption, FS_Subset
<1>3. \A i \in Taken(p) : receipt[i].qty \in Nat
  BY <1>1 DEF TypeOK, Receipt
<1> QED BY <1>1, <1>2, <1>3, SumType

\* A step that leaves stock, additions and the receipts taken alone conserves.
LEMMA NothingTaken ==
  ASSUME Inv, Conserved, stock' = stock, added' = added,
         \A p \in Products : Taken(p)' = Taken(p),
         \A i \in DOMAIN receipt : receipt'[i] = receipt[i]
  PROVE  Conserved'
<1> SUFFICES ASSUME NEW p \in Products
             PROVE  InStock(p)' = added'[p] + Sum(receipt', Taken(p)')
  BY DEF Conserved
<1>1. Sum(receipt', Taken(p)') = Sum(receipt, Taken(p))
  BY TakenFacts, SumSame DEF Inv
<1>2. InStock(p)' = InStock(p)
  BY DEF InStock
<1> QED BY <1>1, <1>2 DEF Conserved

\* A step that takes one receipt into the stock row of its product conserves.
LEMMA OneTaken ==
  ASSUME Inv, Inv', Conserved, added' = added, NEW r \in DOMAIN receipt', NEW p \in Products,
         r \notin Taken(p), Taken(p)' = Taken(p) \cup {r},
         \A i \in Products : i # p => Taken(i)' = Taken(i),
         \A i \in DOMAIN receipt : receipt'[i] = receipt[i],
         InStock(p)' = InStock(p) + receipt'[r].qty,
         \A i \in Products : i # p => InStock(i)' = InStock(i)
  PROVE  Conserved'
<1>1. ASSUME NEW i \in Products PROVE Sum(receipt', Taken(i)) = Sum(receipt, Taken(i))
  BY <1>1, TakenFacts, SumSame DEF Inv
<1>2. Sum(receipt', Taken(p)') = receipt'[r].qty + Sum(receipt', Taken(p))
  <2>1. /\ IsFiniteSet(Taken(p)')
        /\ \A i \in Taken(p)' : receipt'[i].qty \in Nat
    <3>1. Taken(p)' \subseteq DOMAIN receipt' /\ Taken(p)' \subseteq Receipts
      BY DEF Taken, PricedReceipts, Inv, TypeOK
    <3>2. \A i \in Taken(p)' : receipt'[i].qty \in Nat
      BY <3>1 DEF Inv, TypeOK, Receipt
    <3> QED BY <3>1, <3>2, ReceivingAssumption, FS_Subset
  <2>2. r \in Taken(p)' /\ Taken(p)' \ {r} = Taken(p)
    OBVIOUS
  <2> QED BY <2>1, <2>2, SumRemove
<1>3. Sum(receipt, Taken(p)) \in Nat /\ added[p] \in Nat /\ receipt'[r].qty \in Nat
  BY TakenFacts DEF Inv, TypeOK, Receipt
<1>4. InStock(p)' = added'[p] + Sum(receipt', Taken(p)')
  <2>1. InStock(p) = added[p] + Sum(receipt, Taken(p))
    BY DEF Conserved
  <2> QED BY <1>1, <1>2, <1>3, <2>1
<1>5. ASSUME NEW i \in Products, i # p
      PROVE  InStock(i)' = added'[i] + Sum(receipt', Taken(i)')
  BY <1>1, <1>5 DEF Conserved
<1> QED BY <1>4, <1>5 DEF Conserved

\* receive_stock conserves: the goods of a receipt are taken into stock, or the
\* receipt has no price, or it is queued.
LEMMA ReceiveStockConserves ==
  ASSUME Inv, Inv', Conserved, NEW r \in Receipts, NEW c \in Purchases, NEW p \in Products,
         NEW q \in Quantities, NEW price \in Prices \cup {NoPrice},
         ReceiveStock(r, c, p, q, price)
  PROVE  Conserved'
<1> DEFINE new == [purchase |-> c, product |-> p, qty |-> q, price |-> price]
           kept == price = NoPrice \/ Conflict(p, price)
<1>1. /\ r \notin DOMAIN receipt /\ DOMAIN receipt' = DOMAIN receipt \cup {r}
      /\ receipt'[r] = new /\ \A i \in DOMAIN receipt : receipt'[i] = receipt[i]
      /\ added' = added
  BY DEF ReceiveStock, Put
<1>2. pending \subseteq DOMAIN receipt
  BY DEF Inv, PendingResolvable
<1>3. \A i \in Products : r \notin Taken(i)
  BY <1>1 DEF Taken, PricedReceipts
<1>4. \A i \in Products : PricedReceipts(i)' = IF i = p /\ price # NoPrice
                                              THEN PricedReceipts(i) \cup {r}
                                              ELSE PricedReceipts(i)
  BY <1>1 DEF PricedReceipts
<1>5. CASE kept
  <2>1. stock' = stock
    BY <1>5 DEF ReceiveStock
  <2>2. pending' = IF price # NoPrice THEN pending \cup {r} ELSE pending
    BY <1>5 DEF ReceiveStock
  <2>3. \A i \in Products : Taken(i)' = Taken(i)
    BY <1>3, <1>4, <2>2 DEF Taken
  <2> QED BY <1>1, <2>1, <2>3, NothingTaken
<1>6. CASE ~kept
  <2>1. stock' = Put(stock, p, Merged(p, q, price)) /\ pending' = pending
    BY <1>6 DEF ReceiveStock
  <2>2. q \in Nat /\ (p \in DOMAIN stock => stock[p] \in Stock)
    BY ReceivingAssumption DEF Inv, TypeOK
  <2>3. InStock(p)' = InStock(p) + q
    BY <2>1, <2>2 DEF InStock, Put, Merged, Stock, HasPrice
  <2>4. \A i \in Products : i # p => InStock(i)' = InStock(i)
    BY <2>1 DEF InStock, Put
  <2>5. /\ Taken(p)' = Taken(p) \cup {r}
        /\ \A i \in Products : i # p => Taken(i)' = Taken(i)
    BY <1>1, <1>2, <1>4, <1>6, <2>1 DEF Taken
  <2> QED BY <1>1, <1>3, <2>3, <2>4, <2>5, OneTaken
<1> QED BY <1>5, <1>6

\* add_to_stock conserves: what it adds to the row is added.
LEMMA AddToStockConserves ==
  ASSUME Inv, Conserved, NEW p \in Products, NEW q \in Quantities, AddToStock(p, q)
  PROVE  Conserved'
<1> SUFFICES ASSUME NEW i \in Products
             PROVE  InStock(i)' = added'[i] + Sum(receipt, Taken(i))
  BY DEF Conserved, AddToStock, Taken, PricedReceipts
<1>1. q \in Nat /\ (p \in DOMAIN stock => stock[p] \in Stock)
  BY ReceivingAssumption DEF Inv, TypeOK
<1>2. InStock(i)' = InStock(i) + (IF i = p THEN q ELSE 0)
  <2>1. stock' = Put(stock, p, IF p \in DOMAIN stock THEN [stock[p] EXCEPT !.qty = @ + q]
                              ELSE [qty |-> q, price |-> NoPrice])
    BY DEF AddToStock
  <2>2. i \in DOMAIN stock => stock[i].qty \in Nat
    BY DEF Inv, TypeOK, Stock
  <2> QED BY <1>1, <2>1, <2>2 DEF InStock, Put, Stock
<1>3. added'[i] = added[i] + (IF i = p THEN q ELSE 0) /\ added[i] \in Nat
  BY <1>1 DEF AddToStock, Inv, TypeOK
<1>4. Sum(receipt, Taken(i)) \in Nat
  BY TakenFacts DEF Inv
<1>5. InStock(i) = added[i] + Sum(receipt, Taken(i))
  BY DEF Conserved
<1> QED BY <1>1, <1>2, <1>3, <1>4, <1>5

\* resolve_price_resolution conserves: the receipt leaves the queue as its goods
\* enter the row.
LEMMA ResolvePriceConserves ==
  ASSUME Inv, Inv', Conserved, NEW r \in Receipts, NEW choice \in ResolutionChoices,
         ResolvePrice(r, choice)
  PROVE  Conserved'
<1>1. receipt' = receipt /\ added' = added /\ r \in pending
  BY DEF ResolvePrice
<1>2. CASE ~ResolveCommits
  <2>1. stock' = stock /\ pending' = pending
    BY <1>2 DEF ResolvePrice
  <2> QED BY <1>1, <2>1, NothingTaken DEF Taken, PricedReceipts
<1>3. CASE ResolveCommits
  <2>0. /\ r \in DOMAIN receipt /\ receipt[r].price # NoPrice /\ receipt[r] \in Receipt
        /\ receipt[r].product \in Products /\ receipt[r].product \in DOMAIN stock
    BY <1>1 DEF Inv, TypeOK, PendingResolvable, HasPrice, Receipt
  <2>1. PICK p \in Products : p = receipt[r].product
    BY <2>0
  <2>2. /\ pending' = pending \ {r}
        /\ stock' = Put(stock, p, [qty |-> stock[p].qty + receipt[r].qty,
                                   price |-> ResolvedPrice(r, choice)])
    BY <1>3, <2>1 DEF ResolvePrice
  <2>3. /\ r \notin Taken(p) /\ Taken(p)' = Taken(p) \cup {r}
        /\ \A i \in Products : i # p => Taken(i)' = Taken(i)
    BY <1>1, <2>0, <2>1, <2>2 DEF Taken, PricedReceipts
  <2>4. /\ InStock(p)' = InStock(p) + receipt'[r].qty
        /\ \A i \in Products : i # p => InStock(i)' = InStock(i)
    BY <1>1, <2>0, <2>1, <2>2 DEF InStock, Put
  <2>5. r \in DOMAIN receipt' /\ \A i \in DOMAIN receipt : receipt'[i] = receipt[i]
    BY <1>1, <2>0
  <2> QED BY <1>1, <2>1, <2>3, <2>4, <2>5, OneTaken
<1> QED BY <1>2, <1>3

LEMMA NextConserves == Inv /\ Inv' /\ Conserved /\ [Next]_vars => Conserved'
<1> SUFFICES ASSUME Inv, Inv', Conserved, [Next]_vars PROVE Conserved' OBVIOUS
<1>1. CASE \E r \in Receipts, c \in Purchases, p \in Products, q \in Quantities,
             price \in Prices \cup {NoPrice} : ReceiveStock(r, c, p, q, price)
  BY <1>1, ReceiveStockConserves
<1>2. CASE \E p \in Products, q \in Quantities : AddToStock(p, q)
  BY <1>2, AddToStockConserves
<1>3. CASE SetExchangeRate \/ UNCHANGED vars
  <2>1. stock' = stock /\ added' = added /\ receipt' = receipt /\ pending' = pending
    BY <1>3 DEF SetExchangeRate, vars
  <2> QED BY <2>1, NothingTaken DEF Taken, PricedReceipts
<1>4. CASE \E r \in Receipts, choice \in ResolutionChoices : ResolvePrice(r, choice)
  BY <1>4, ResolvePriceConserves
<1> QED BY <1>1, <1>2, <1>3, <1>4 DEF Next

\* Nothing is received, added or in stock at first.
LEMMA InitConserves == Init => Conserved
<1> SUFFICES ASSUME Init, NEW p \in Products PROVE InStock(p) = added[p] + Sum(receipt, Taken(p))
  BY DEF Conserved
<1>1. InStock(p) = 0 /\ added[p] = 0 /\ Taken(p) = {}
  BY DEF Init, InStock, Taken, PricedReceipts
<1>2. Sum(receipt, {}) = 0
  BY FS_EmptySet, SumUnfold
<1> QED BY <1>1, <1>2

\* No unit is lost or counted twice: the stock of a product is what was added and
\* what was received with a price, less what waits in the queue of conflicts.
THEOREM UnitsConserved == Spec => []QuantityConserved
<1>1. Spec => []Conserved
  BY InitConserves, NextConserves, Invariance, PTL DEF Spec
<1> QED BY <1>1, ConservedIsQuantityConserved, PTL

(* -------------------------- the range of prices ------------------------ *)

\* Every price that was calculated, resolved ones included, is a rounded one.
PricesRounded ==
  /\ \A r \in DOMAIN receipt : receipt[r].price # NoPrice => IsRounded(receipt[r].price)
  /\ \A p \in DOMAIN stock : stock[p].price # NoPrice => IsRounded(stock[p].price)

\* A resolution weighs two rounded prices and gives a rounded one between them.
LEMMA ResolvedBetween ==
  ASSUME Inv, PricesRounded, NEW r \in pending, NEW choice \in ResolutionChoices
  PROVE  LET old == stock[receipt[r].product].price
             new == receipt[r].price
             got == ResolvedPrice(r, choice)
         IN  /\ IsRounded(got)
             /\ (old <= got /\ got <= new) \/ (new <= got /\ got <= old)
<1> DEFINE s == stock[receipt[r].product]
           old == s.price
           new == receipt[r].price
<1>1. /\ s.qty \in Nat /\ receipt[r].qty \in Nat \ {0}
      /\ IsRounded(old) /\ IsRounded(new)
  BY DEF Inv, TypeOK, PendingResolvable, HasPrice, PricesRounded, Stock, Receipt
<1>2. old \in Nat /\ new \in Nat
  BY <1>1 DEF IsRounded
<1>3. ResolvedPrice(r, choice) = CASE choice = "keep_old" -> old
                                   [] choice = "use_new" -> new
                                   [] choice = "weighted_average" ->
                                        WeightedPrice(s.qty, old, receipt[r].qty, new)
  BY DEF ResolvedPrice
<1> HIDE DEF s, old, new
<1>4. LET got == WeightedPrice(s.qty, old, receipt[r].qty, new)
      IN  IsRounded(got) /\ ((old <= got /\ got <= new) \/ (new <= got /\ got <= old))
  <2>1. CASE old <= new
    BY <1>1, <1>2, <2>1, WeightedBetween
  <2>2. CASE new <= old
    BY <1>1, <1>2, <2>2, WeightedBetween
  <2> QED BY <1>2, <2>1, <2>2
<1>5. LET got == ResolvedPrice(r, choice)
      IN  IsRounded(got) /\ ((old <= got /\ got <= new) \/ (new <= got /\ got <= old))
  BY <1>1, <1>2, <1>3, <1>4 DEF ResolutionChoices
<1> QED BY <1>5 DEF s, old, new

\* Every step keeps prices rounded.
LEMMA NextRounded == Inv /\ PricesRounded /\ [Next]_vars => PricesRounded'
<1> SUFFICES ASSUME Inv, PricesRounded, [Next]_vars PROVE PricesRounded' OBVIOUS
<1>1. ASSUME NEW r \in Receipts, NEW c \in Purchases, NEW p \in Products, NEW q \in Quantities,
             NEW price \in Prices \cup {NoPrice}, ReceiveStock(r, c, p, q, price)
      PROVE  PricesRounded'
  <2>1. price # NoPrice => IsRounded(price)
    BY ReceivingAssumption DEF IsRounded
  <2>2. \A i \in DOMAIN receipt' : receipt'[i].price # NoPrice => IsRounded(receipt'[i].price)
    BY <1>1, <2>1 DEF ReceiveStock, Put, PricesRounded
  <2>3. ASSUME NEW i \in DOMAIN stock', stock'[i].price # NoPrice
        PROVE  IsRounded(stock'[i].price)
    <3>1. CASE stock' = stock
      BY <2>3, <3>1 DEF PricesRounded
    <3>2. CASE price # NoPrice /\ stock' = Put(stock, p, Merged(p, q, price))
      <4>1. price \in Nat /\ q \in Nat \ {0}
        BY <3>2, ReceivingAssumption
      <4>2. i # p => i \in DOMAIN stock /\ stock'[i] = stock[i]
        BY <3>2 DEF Put
      <4>3. stock'[p] = Merged(p, q, price)
        BY <3>2 DEF Put
      <4>4. Merged(p, q, price).price = IF HasPrice(p) THEN stock[p].price ELSE price
        BY <4>1 DEF Merged, HasPrice, Inv, TypeOK, Stock
      <4> QED BY <2>1, <2>3, <3>2, <4>2, <4>3, <4>4 DEF PricesRounded, HasPrice
    <3> QED BY <1>1, <3>1, <3>2 DEF ReceiveStock
  <2> QED BY <2>2, <2>3 DEF PricesRounded
<1>2. ASSUME NEW p \in Products, NEW q \in Quantities, AddToStock(p, q)
      PROVE  PricesRounded'
  <2>1. \A i \in DOMAIN stock' : stock'[i].price # NoPrice
          => i \in DOMAIN stock /\ stock'[i].price = stock[i].price
    <3>1. \A i \in DOMAIN stock : stock[i] \in Stock
      BY DEF Inv, TypeOK
    <3> QED BY <1>2, <3>1 DEF AddToStock, Put, Stock
  <2> QED BY <1>2, <2>1 DEF AddToStock, PricesRounded
<1>3. ASSUME NEW r \in Receipts, NEW choice \in ResolutionChoices, ResolvePrice(r, choice)
      PROVE  PricesRounded'
  <2>1. r \in pending /\ receipt' = receipt
    BY <1>3 DEF ResolvePrice
  <2>2. IsRounded(ResolvedPrice(r, choice))
    BY <2>1, ResolvedBetween
  <2>3. \A i \in DOMAIN stock' : \/ i \in DOMAIN stock /\ stock'[i] = stock[i]
                                 \/ stock'[i].price = ResolvedPrice(r, choice)
    BY <1>3 DEF ResolvePrice, Put
  <2> QED BY <2>1, <2>2, <2>3 DEF PricesRounded
<1>4. CASE SetExchangeRate \/ UNCHANGED vars
  BY <1>4 DEF SetExchangeRate, vars, PricesRounded
<1> QED BY <1>1, <1>2, <1>3, <1>4 DEF Next

\* What leaves the queue leaves with a price between the two it was queued for.
LEMMA StepWithinRange ==
  ASSUME Inv, PricesRounded, [Next]_vars
  PROVE  \A r \in pending \ pending' :
           LET old == stock[receipt[r].product].price
               new == receipt[r].price
               got == stock'[receipt[r].product].price
           IN  (old <= got /\ got <= new) \/ (new <= got /\ got <= old)
<1> SUFFICES ASSUME NEW r \in pending \ pending'
             PROVE  LET old == stock[receipt[r].product].price
                        new == receipt[r].price
                        got == stock'[receipt[r].product].price
                    IN  (old <= got /\ got <= new) \/ (new <= got /\ got <= old)
  OBVIOUS
<1>1. ASSUME NEW s \in Receipts, NEW c \in Purchases, NEW p \in Products, NEW q \in Quantities,
             NEW price \in Prices \cup {NoPrice}, ReceiveStock(s, c, p, q, price)
      PROVE  FALSE
  BY <1>1 DEF ReceiveStock
<1>2. ASSUME NEW p \in Products, NEW q \in Quantities, AddToStock(p, q)
      PROVE  FALSE
  BY <1>2 DEF AddToStock
<1>3. PICK s \in Receipts, choice \in ResolutionChoices : ResolvePrice(s, choice)
  BY <1>1, <1>2 DEF Next, vars, SetExchangeRate
<1>4. s = r /\ ResolveCommits
  BY <1>3 DEF ResolvePrice
<1>5. stock'[receipt[r].product].price = ResolvedPrice(r, choice)
  BY <1>3, <1>4 DEF ResolvePrice, Put
<1> QED BY <1>5, ResolvedBetween

\* A resolution never leaves the range of the two prices it weighs: rounding up to
\* the step of the average passes no price that was rounded already.
THEOREM ResolvedWithinRange == Spec => PriceWithinRange
<1>1. Init => PricesRounded
  BY DEF Init, PricesRounded
<1>2. Spec => []PricesRounded
  BY <1>1, NextRounded, Invariance, PTL DEF Spec
<1> QED BY <1>2, Invariance, StepWithinRange, PTL DEF Spec, PriceWithinRange
=============================================================================
