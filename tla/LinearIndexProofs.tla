--------------------------- MODULE LinearIndexProofs ---------------------------
(***************************************************************************)
(* Proofs about LinearIndex, for any vectors, numbers of results and       *)
(* configurations.  The first part is about sums; the second about         *)
(* magnitudes and unit vectors; the third is the invariant of the index;   *)
(* the fourth what a search returns.                                       *)
(***************************************************************************)
EXTENDS LinearIndex, FiniteSetTheorems, TLAPS

-----------------------------------------------------------------------------
(* Sums                                                                    *)
(*                                                                         *)
(* SumFunction folds over the subsets of a function's domain, taking out   *)
(* one element after the other.  What it computes is proved with the       *)
(* smallest subset for which it would be wrong.                            *)

LEMMA SmallestSubset ==
    ASSUME NEW S, IsFiniteSet(S), NEW F \in SUBSET SUBSET S, F # {}
    PROVE  \E T \in F : \A U \in F : U \subseteq T => U = T
<1>1. IsWellFoundedOn(StrictSubsetOrdering(S), FiniteSubsetsOf(S))
  BY FS_StrictSubsetOrderingWellFounded
<1>2. F \subseteq FiniteSubsetsOf(S)
  BY FS_FiniteSubsetsOfFinite
<1>3. \E T \in F : \A U \in F : ~ (<<U, T>> \in StrictSubsetOrdering(S))
  BY <1>1, <1>2, WFMin
<1>4. PICK T \in F : \A U \in F : ~ (<<U, T>> \in StrictSubsetOrdering(S))
  BY <1>3
<1>5. ASSUME NEW U \in F, U \subseteq T
      PROVE  U = T
  BY <1>4, <1>5 DEF StrictSubsetOrdering
<1> QED
  BY <1>5

First(U) == CHOOSE x \in U : TRUE
Rest(U) == U \ {First(U)}

(* g sums v over every subset of S.                                        *)
Adds(g, v, S) ==
    /\ g \in [SUBSET S -> Int]
    /\ \A U \in SUBSET S : g[U] = IF U = {} THEN 0 ELSE v[First(U)] + g[Rest(U)]

LEMMA FirstIn == ASSUME NEW U, U # {}
               PROVE  First(U) \in U /\ Rest(U) \subseteq U /\ Rest(U) # U
  BY DEF First, Rest

LEMMA AddsUnique ==
    ASSUME NEW S, IsFiniteSet(S), NEW v, NEW g, NEW h, Adds(g, v, S), Adds(h, v, S)
    PROVE  \A U \in SUBSET S : g[U] = h[U]
<1> DEFINE F == {U \in SUBSET S : g[U] # h[U]}
<1> SUFFICES ASSUME F # {} PROVE FALSE
  OBVIOUS
<1>1. PICK T \in F : \A U \in F : U \subseteq T => U = T
  <2> F \in SUBSET SUBSET S
    OBVIOUS
  <2> HIDE DEF F
  <2> QED
    BY SmallestSubset
<1>2. T # {}
  BY <1>1 DEF Adds
<1>3. Rest(T) \subseteq T /\ Rest(T) # T
  BY <1>2, FirstIn
<1>4. g[Rest(T)] = h[Rest(T)]
  BY <1>1, <1>3
<1> QED
  BY <1>1, <1>2, <1>4 DEF Adds

LEMMA AddsExist ==
    ASSUME NEW S, IsFiniteSet(S), NEW v, \A x \in S : v[x] \in Int
    PROVE  \E g : Adds(g, v, S)
<1> DEFINE F == {U \in SUBSET S : ~ \E g : Adds(g, v, U)}
<1> SUFFICES ASSUME F # {} PROVE FALSE
  OBVIOUS
<1>1. PICK T \in F : \A U \in F : U \subseteq T => U = T
  <2> F \in SUBSET SUBSET S
    OBVIOUS
  <2> HIDE DEF F
  <2> QED
    BY SmallestSubset
<1> DEFINE G(W) == CHOOSE g : Adds(g, v, W)
<1>2. ASSUME NEW W \in SUBSET T, W # T
      PROVE  Adds(G(W), v, W)
  <2>1. W \notin F
    BY <1>1, <1>2
  <2>2. \E g : Adds(g, v, W)
    BY <2>1, <1>1
  <2> QED
    BY <2>2
<1>3. ASSUME NEW W \in SUBSET T, W # T, NEW U \in SUBSET W
      PROVE  G(W)[U] = G(U)[U]
  <2>1. U # T
    BY <1>3
  <2>2. Adds(G(U), v, U) /\ Adds(G(W), v, W)
    BY <1>2, <1>3, <2>1
  <2> HIDE DEF G
  <2> DEFINE r == [X \in SUBSET U |-> G(W)[X]]
  <2>3. Adds(r, v, U)
    <3>1. r \in [SUBSET U -> Int]
      BY <2>2 DEF Adds
    <3>2. ASSUME NEW X \in SUBSET U
          PROVE  r[X] = IF X = {} THEN 0 ELSE v[First(X)] + r[Rest(X)]
      <4>1. Rest(X) \in SUBSET U
        BY DEF Rest
      <4>2. G(W)[X] = IF X = {} THEN 0 ELSE v[First(X)] + G(W)[Rest(X)]
        BY <2>2 DEF Adds
      <4> QED
        BY <4>1, <4>2
    <3> QED
      BY <3>1, <3>2 DEF Adds
  <2>4. IsFiniteSet(U)
    BY <1>1, FS_Subset
  <2>5. r[U] = G(U)[U]
    <3> HIDE DEF r
    <3> QED
      BY <2>2, <2>3, <2>4, AddsUnique
  <2> QED
    BY <2>5
<1> HIDE DEF G
<1> DEFINE h == [U \in SUBSET T |->
                    IF U = {} THEN 0 ELSE v[First(U)] + G(Rest(U))[Rest(U)]]
<1>4. ASSUME NEW U \in SUBSET T, U # {}
      PROVE  /\ v[First(U)] \in Int
             /\ Rest(U) \in SUBSET T /\ Rest(U) # T
             /\ G(Rest(U))[Rest(U)] \in Int
  <2>1. First(U) \in U /\ Rest(U) \subseteq U /\ Rest(U) # U
    BY <1>4, FirstIn
  <2>2. Rest(U) \in SUBSET T /\ Rest(U) # T
    BY <2>1
  <2>3. Adds(G(Rest(U)), v, Rest(U))
    BY <1>2, <2>2
  <2> QED
    BY <1>1, <2>1, <2>2, <2>3 DEF Adds
<1>5. h \in [SUBSET T -> Int]
  BY <1>4
<1>6. ASSUME NEW W \in SUBSET T, W # T
      PROVE  h[W] = G(W)[W]
  <2>1. Adds(G(W), v, W)
    BY <1>2, <1>6
  <2>2. G(W)[W] = IF W = {} THEN 0 ELSE v[First(W)] + G(W)[Rest(W)]
    BY <2>1 DEF Adds
  <2>3. Rest(W) \in SUBSET W
    BY DEF Rest
  <2>4. G(W)[Rest(W)] = G(Rest(W))[Rest(W)]
    BY <1>3, <1>6, <2>3
  <2> QED
    BY <2>2, <2>4
<1>7. ASSUME NEW U \in SUBSET T
      PROVE  h[U] = IF U = {} THEN 0 ELSE v[First(U)] + h[Rest(U)]
  BY <1>4, <1>6
<1>8. Adds(h, v, T)
  <2> HIDE DEF h
  <2> QED
    BY <1>5, <1>7 DEF Adds
<1> QED
  BY <1>1, <1>8

LEMMA SumAdds ==
    ASSUME NEW v, IsFiniteSet(DOMAIN v), \A x \in DOMAIN v : v[x] \in Int
    PROVE  \E g : Adds(g, v, DOMAIN v) /\ Sum(v) = g[DOMAIN v]
<1> DEFINE S == DOMAIN v
           Equation(g) == g = [U \in SUBSET S |->
                                  IF U = {} THEN 0
                                  ELSE v[CHOOSE x \in U : TRUE]
                                          + g[U \ {CHOOSE x \in U : TRUE}]]
           iter == CHOOSE g : Equation(g)
<1>1. Sum(v) = iter[S]
  BY DEF Sum, SumFunction, SumFunctionOnSet, FoldFunctionOnSet, MapThenFoldSet
<1>2. PICK g : Adds(g, v, S)
  BY AddsExist
<1>3. Equation(g)
  BY <1>2 DEF Adds, First, Rest
<1>4. Equation(iter)
  <2> HIDE DEF Equation
  <2> QED
    BY <1>3
<1> HIDE DEF iter
<1> DEFINE F == {U \in SUBSET S : iter[U] # g[U]}
<1>5. ASSUME F # {}
      PROVE  FALSE
  <2>1. PICK T \in F : \A U \in F : U \subseteq T => U = T
    <3> F \in SUBSET SUBSET S
      OBVIOUS
    <3> HIDE DEF F
    <3> QED
      BY <1>5, SmallestSubset
  <2>2. /\ iter[T] = IF T = {} THEN 0 ELSE v[First(T)] + iter[Rest(T)]
        /\ g[T] = IF T = {} THEN 0 ELSE v[First(T)] + g[Rest(T)]
    BY <1>2, <1>4, <2>1 DEF Adds, First, Rest
  <2>3. T # {} => iter[Rest(T)] = g[Rest(T)]
    BY <2>1, FirstIn
  <2> QED
    BY <2>1, <2>2, <2>3
<1>6. iter[S] = g[S]
  BY <1>5
<1> QED
  BY <1>1, <1>2, <1>6

LEMMA SumInt ==
    ASSUME NEW v, IsFiniteSet(DOMAIN v), \A x \in DOMAIN v : v[x] \in Int
    PROVE  Sum(v) \in Int
<1>1. PICK g : Adds(g, v, DOMAIN v) /\ Sum(v) = g[DOMAIN v]
  BY SumAdds
<1> QED
  BY <1>1 DEF Adds

LEMMA SumLinear ==
    ASSUME NEW u, NEW v, NEW w, NEW a \in Int, NEW b \in Int,
           DOMAIN v = DOMAIN u, DOMAIN w = DOMAIN u, IsFiniteSet(DOMAIN u),
           \A x \in DOMAIN u : /\ u[x] \in Int /\ v[x] \in Int
                               /\ w[x] = a * u[x] + b * v[x]
    PROVE  Sum(w) = a * Sum(u) + b * Sum(v)
<1> DEFINE S == DOMAIN u
<1>1. PICK f : Adds(f, u, S) /\ Sum(u) = f[S]
  BY SumAdds
<1>2. PICK g : Adds(g, v, S) /\ Sum(v) = g[S]
  BY SumAdds
<1>3. PICK h : Adds(h, w, S) /\ Sum(w) = h[S]
  <2>1. \A x \in S : w[x] \in Int
    OBVIOUS
  <2> QED
    BY <2>1, SumAdds
<1> DEFINE F == {U \in SUBSET S : h[U] # a * f[U] + b * g[U]}
<1>4. ASSUME F # {}
      PROVE  FALSE
  <2>1. PICK T \in F : \A U \in F : U \subseteq T => U = T
    <3> F \in SUBSET SUBSET S
      OBVIOUS
    <3> HIDE DEF F
    <3> QED
      BY <1>4, SmallestSubset
  <2>2. T # {}
    <3>1. a * 0 + b * 0 = 0
      OBVIOUS
    <3>2. f[{}] = 0 /\ g[{}] = 0 /\ h[{}] = 0
      BY <1>1, <1>2, <1>3 DEF Adds
    <3> QED
      BY <2>1, <3>1, <3>2
  <2>3. First(T) \in S /\ Rest(T) \subseteq T /\ Rest(T) # T
    BY <2>1, <2>2, FirstIn
  <2>4. h[Rest(T)] = a * f[Rest(T)] + b * g[Rest(T)]
    BY <2>1, <2>3
  <2>5. w[First(T)] = a * u[First(T)] + b * v[First(T)]
    BY <2>3
  <2>6. /\ h[T] = w[First(T)] + h[Rest(T)]
        /\ f[T] = u[First(T)] + f[Rest(T)]
        /\ g[T] = v[First(T)] + g[Rest(T)]
    BY <1>1, <1>2, <1>3, <2>1, <2>2 DEF Adds
  <2>7. /\ f[Rest(T)] \in Int /\ g[Rest(T)] \in Int
        /\ u[First(T)] \in Int /\ v[First(T)] \in Int
    BY <1>1, <1>2, <2>1, <2>3 DEF Adds
  <2>8. \A p, q, r, s \in Int :
           (a * p + b * q) + (a * r + b * s) = a * (p + r) + b * (q + s)
    OBVIOUS
  <2>9. h[T] = a * f[T] + b * g[T]
    BY <2>4, <2>5, <2>6, <2>7, <2>8
  <2> QED
    BY <2>1, <2>9
<1> QED
  BY <1>1, <1>2, <1>3, <1>4

(* A sum of numbers that are not negative is none of them less.            *)
LEMMA SumBounds ==
    ASSUME NEW v, IsFiniteSet(DOMAIN v), \A x \in DOMAIN v : v[x] \in Nat
    PROVE  Sum(v) \in Nat /\ \A x \in DOMAIN v : v[x] <= Sum(v)
<1> DEFINE S == DOMAIN v
<1>1. PICK g : Adds(g, v, S) /\ Sum(v) = g[S]
  BY SumAdds
<1> DEFINE F == {U \in SUBSET S : ~ (g[U] \in Nat /\ \A x \in U : v[x] <= g[U])}
<1>2. ASSUME F # {}
      PROVE  FALSE
  <2>1. PICK T \in F : \A U \in F : U \subseteq T => U = T
    <3> F \in SUBSET SUBSET S
      OBVIOUS
    <3> HIDE DEF F
    <3> QED
      BY <1>2, SmallestSubset
  <2>2. T # {}
    BY <1>1, <2>1 DEF Adds
  <2>3. First(T) \in S /\ Rest(T) \subseteq T /\ Rest(T) # T
    BY <2>1, <2>2, FirstIn
  <2>4. g[Rest(T)] \in Nat /\ \A x \in Rest(T) : v[x] <= g[Rest(T)]
    BY <2>1, <2>3
  <2>5. g[T] = v[First(T)] + g[Rest(T)]
    BY <1>1, <2>1, <2>2 DEF Adds
  <2>6. \A x \in T : x = First(T) \/ x \in Rest(T)
    BY DEF Rest
  <2>7. g[T] \in Nat /\ g[Rest(T)] <= g[T] /\ v[First(T)] <= g[T]
    BY <2>3, <2>4, <2>5
  <2>8. \A x \in T : v[x] <= g[T]
    BY <2>1, <2>4, <2>6, <2>7
  <2> QED
    BY <2>1, <2>7, <2>8
<1> QED
  BY <1>1, <1>2

-----------------------------------------------------------------------------
(* Magnitudes and unit vectors                                             *)

LEMMA Arithmetic ==
    /\ \A x \in Int, m \in Nat \ {0} : x % m = 0 => (x \div m) \in Int /\ (x \div m) * m = x
    /\ \A x \in Int, m \in Nat \ {0} : (x * m) % m = 0 /\ (x * m) \div m = x
    /\ \A x, y, m \in Int : m # 0 /\ m * x = m * y => x = y
    /\ \A k, m \in Nat : k * k = m * m => k = m
    /\ \A m \in Nat : m <= m * m
<1>1. \A x \in Int, m \in Nat \ {0} : x % m = 0 => (x \div m) \in Int /\ (x \div m) * m = x
  OBVIOUS
<1>2. \A x, y, m \in Int : m # 0 /\ m * x = m * y => x = y
  OBVIOUS
<1>3. \A x \in Int, m \in Nat \ {0} : (x * m) % m = 0 /\ (x * m) \div m = x
  OBVIOUS
<1>4. \A k, m \in Nat : k * k = m * m => k = m
  OBVIOUS
<1>5. \A m \in Nat : m <= m * m
  OBVIOUS
<1> QED
  BY <1>1, <1>2, <1>3, <1>4, <1>5

LEMMA SeqDomain ==
    ASSUME NEW v \in Seq(Int)
    PROVE  /\ Len(v) \in Nat /\ DOMAIN v = 1 .. Len(v)
           /\ IsFiniteSet(DOMAIN v) /\ \A i \in DOMAIN v : v[i] \in Int
<1>1. Len(v) \in Nat /\ DOMAIN v = 1 .. Len(v) /\ \A i \in DOMAIN v : v[i] \in Int
  OBVIOUS
<1> QED
  BY <1>1, FS_Interval

LEMMA DotInt ==
    ASSUME NEW u \in Seq(Int), NEW v \in Seq(Int), Len(u) = Len(v)
    PROVE  DotProduct(u, v) \in Int
<1> DEFINE w == [i \in DOMAIN u |-> u[i] * v[i]]
<1>1. IsFiniteSet(DOMAIN w) /\ \A i \in DOMAIN w : w[i] \in Int
  BY SeqDomain
<1>2. Sum(w) \in Int
  <2> HIDE DEF w
  <2> QED
    BY <1>1, SumInt
<1> QED
  BY <1>2 DEF DotProduct

LEMMA MagnitudeIs ==
    ASSUME NEW v \in Seq(Int), NEW m \in Nat, m * m = DotProduct(v, v)
    PROVE  Magnitude(v) = m
<1>1. DotProduct(v, v) = Sum([i \in DOMAIN v |-> v[i] * v[i]])
  BY DEF DotProduct
<1>2. m \in 0 .. Sum([i \in DOMAIN v |-> v[i] * v[i]])
  <2>1. DotProduct(v, v) \in Int
    BY DotInt
  <2>2. m <= m * m
    BY Arithmetic
  <2> QED
    BY <1>1, <2>1, <2>2
<1>3. \A k \in 0 .. Sum([i \in DOMAIN v |-> v[i] * v[i]]) :
         k * k = DotProduct(v, v) => k = m
  BY Arithmetic
<1> QED
  BY <1>2, <1>3 DEF Magnitude

(* The vectors whose normalization is computed without rounding.           *)
Exact(v) ==
    /\ v \in Seq(Int)
    /\ Magnitude(v) \in Nat /\ Magnitude(v) * Magnitude(v) = DotProduct(v, v)
    /\ Magnitude(v) > 0 => \A i \in DOMAIN v : (v[i] * One) % Magnitude(v) = 0

LEMMA RawExact == \A v \in Raw : Exact(v)
BY FloatAssumption, ExactAssumption DEF Exact

Unit(v) == v \in Seq(Int) /\ DotProduct(v, v) = One * One
Zero(v) == v \in Seq(Int) /\ \A i \in DOMAIN v : v[i] = 0

LEMMA UnitExact == ASSUME NEW v, Unit(v) PROVE Exact(v) /\ Magnitude(v) = One
<1>1. Magnitude(v) = One
  BY FloatAssumption, MagnitudeIs DEF Unit
<1>2. \A i \in DOMAIN v : v[i] \in Int
  BY SeqDomain DEF Unit
<1>3. \A i \in DOMAIN v : (v[i] * One) % One = 0
  BY <1>2, FloatAssumption, Arithmetic
<1> QED
  BY <1>1, <1>3, FloatAssumption DEF Exact, Unit

LEMMA ZeroExact == ASSUME NEW v, Zero(v) PROVE Exact(v) /\ Magnitude(v) = 0
<1> DEFINE w == [i \in DOMAIN v |-> v[i] * v[i]]
<1>1. IsFiniteSet(DOMAIN w) /\ \A i \in DOMAIN w : w[i] \in Int /\ w[i] = 0 * w[i] + 0 * w[i]
  <2>1. IsFiniteSet(DOMAIN v)
    BY SeqDomain DEF Zero
  <2> QED
    BY <2>1 DEF Zero
<1>2. Sum(w) \in Int /\ Sum(w) = 0 * Sum(w) + 0 * Sum(w)
  <2> HIDE DEF w
  <2> QED
    BY <1>1, SumInt, SumLinear
<1>3. DotProduct(v, v) = 0 * 0
  BY <1>2 DEF DotProduct
<1>4. Magnitude(v) = 0
  BY <1>3, MagnitudeIs DEF Zero
<1> QED
  BY <1>3, <1>4 DEF Exact, Zero

LEMMA Divides ==
    ASSUME NEW v, Exact(v), Magnitude(v) > 0, Magnitude(v) <= MaxFloat
    PROVE  /\ Normalize(v) \in Seq(Int) /\ Len(Normalize(v)) = Len(v)
           /\ \A i \in DOMAIN v : Normalize(v)[i] * Magnitude(v) = v[i] * One
<1> DEFINE m == Magnitude(v)
<1>1. m \in Nat \ {0} /\ v \in Seq(Int)
  BY DEF Exact
<1>2. ASSUME NEW i \in DOMAIN v
      PROVE  /\ (v[i] * One) \div m \in Int
             /\ ((v[i] * One) \div m) * m = v[i] * One
  <2>1. v[i] * One \in Int /\ (v[i] * One) % m = 0
    BY <1>1, FloatAssumption DEF Exact
  <2> QED
    BY <1>1, <2>1, Arithmetic
<1>3. ~ (m > MaxFloat)
  BY <1>1, FloatAssumption
<1>4. Normalize(v) = [i \in DOMAIN v |-> (v[i] * One) \div m]
  BY <1>3 DEF Normalize
<1> HIDE DEF m
<1>5. Normalize(v) \in Seq(Int) /\ Len(Normalize(v)) = Len(v)
  <2>1. Len(v) \in Nat /\ DOMAIN v = 1 .. Len(v)
    BY <1>1
  <2>2. \A i \in 1 .. Len(v) : Normalize(v)[i] \in Int
    BY <1>2, <1>4, <2>1 DEF m
  <2> QED
    BY <1>4, <2>1, <2>2
<1>6. \A i \in DOMAIN v : Normalize(v)[i] * m = v[i] * One
  BY <1>2, <1>4
<1> QED
  BY <1>5, <1>6 DEF m

LEMMA NormalizeUnit ==
    ASSUME NEW v, Exact(v), Magnitude(v) > 0, Magnitude(v) <= MaxFloat
    PROVE  Unit(Normalize(v))
<1> DEFINE m == Magnitude(v)
           n == Normalize(v)
<1>1. m \in Nat \ {0} /\ v \in Seq(Int) /\ m * m = DotProduct(v, v)
  BY DEF Exact
<1>2. n \in Seq(Int) /\ Len(n) = Len(v) /\ \A i \in DOMAIN v : n[i] * m = v[i] * One
  BY Divides
<1>3. One \in Nat \ {0}
  BY FloatAssumption
<1> HIDE DEF m, n
<1>4. /\ DOMAIN n = DOMAIN v /\ IsFiniteSet(DOMAIN v)
      /\ \A i \in DOMAIN v : n[i] \in Int /\ v[i] \in Int
  <2>1. DOMAIN n = 1 .. Len(n) /\ \A i \in DOMAIN n : n[i] \in Int
    BY <1>2, SeqDomain
  <2>2. DOMAIN v = 1 .. Len(v) /\ IsFiniteSet(DOMAIN v) /\ \A i \in DOMAIN v : v[i] \in Int
    BY <1>1, SeqDomain
  <2> QED
    BY <1>2, <2>1, <2>2
<1> DEFINE nn == [i \in DOMAIN n |-> n[i] * n[i]]
           vv == [i \in DOMAIN v |-> v[i] * v[i]]
           w  == [i \in DOMAIN v |-> (n[i] * m) * (n[i] * m)]
<1>5. /\ DOMAIN nn = DOMAIN w /\ DOMAIN vv = DOMAIN w /\ IsFiniteSet(DOMAIN w)
      /\ \A i \in DOMAIN w : nn[i] \in Int /\ vv[i] \in Int
  BY <1>4
<1>6. \A i \in DOMAIN w : w[i] = (m * m) * nn[i] + 0 * nn[i]
  <2>1. \A x \in Int : (x * m) * (x * m) = (m * m) * (x * x) + 0 * (x * x)
    BY <1>1
  <2> QED
    BY <1>4, <2>1
<1>7. \A i \in DOMAIN w : w[i] = (One * One) * vv[i] + 0 * vv[i]
  <2>1. \A x \in Int : (x * One) * (x * One) = (One * One) * (x * x) + 0 * (x * x)
    BY <1>3
  <2>2. \A i \in DOMAIN v : w[i] = (v[i] * One) * (v[i] * One)
    BY <1>2
  <2> QED
    BY <1>4, <2>1, <2>2
<1>8. m * m \in Int /\ One * One \in Int
  BY <1>1, <1>3
<1>9. Sum(nn) = DotProduct(n, n) /\ Sum(vv) = DotProduct(v, v)
  BY DEF DotProduct
<1> HIDE DEF nn, vv, w
<1>10. Sum(nn) \in Int /\ Sum(vv) \in Int
  BY <1>5, SumInt
<1>11. Sum(w) = (m * m) * Sum(nn) + 0 * Sum(nn)
  BY <1>5, <1>6, <1>8, SumLinear
<1>12. Sum(w) = (One * One) * Sum(vv) + 0 * Sum(vv)
  BY <1>5, <1>7, <1>8, SumLinear
<1>13. (m * m) * DotProduct(n, n) = (m * m) * (One * One)
  <2>1. (m * m) * Sum(nn) = (One * One) * Sum(vv)
    BY <1>8, <1>10, <1>11, <1>12
  <2>2. (One * One) * (m * m) = (m * m) * (One * One)
    BY <1>1, <1>3
  <2> QED
    BY <1>1, <1>9, <2>1, <2>2
<1>14. m * m # 0
  BY <1>1
<1>15. DotProduct(n, n) = One * One
  <2> DEFINE p == m * m
             q == One * One
             d == DotProduct(n, n)
  <2>1. p \in Int /\ p # 0 /\ q \in Int /\ d \in Int /\ p * d = p * q
    BY <1>8, <1>9, <1>10, <1>13, <1>14
  <2> HIDE DEF p, q, d
  <2>2. d = q
    BY <2>1, Arithmetic
  <2> QED
    BY <2>2 DEF d, q
<1> QED
  BY <1>2, <1>15 DEF Unit, n

LEMMA Overflows ==
    ASSUME NEW v, Exact(v), Magnitude(v) > MaxFloat
    PROVE  Zero(Normalize(v)) /\ Len(Normalize(v)) = Len(v)
<1>1. Normalize(v) = [i \in DOMAIN v |-> 0]
  BY DEF Normalize
<1>2. v \in Seq(Int) /\ Len(v) \in Nat /\ DOMAIN v = 1 .. Len(v)
  BY SeqDomain DEF Exact
<1> QED
  BY <1>1, <1>2 DEF Zero

(* What NewVector makes of a vector is a unit vector, or the zero vector   *)
(* if the magnitude is beyond the largest float.                           *)
LEMMA NewVectorMakes ==
    ASSUME NEW v, Exact(v), NewVectorOK(v)
    PROVE  /\ Exact(Normalize(v)) /\ Len(Normalize(v)) = Len(v)
           /\ Magnitude(v) > 0
           /\ Magnitude(v) <= MaxFloat => Unit(Normalize(v))
<1>1. Magnitude(v) \in Nat /\ Magnitude(v) > 0
  BY FloatAssumption DEF Exact, NewVectorOK
<1>2. CASE Magnitude(v) <= MaxFloat
  <2>1. Unit(Normalize(v)) /\ Len(Normalize(v)) = Len(v)
    BY <1>1, <1>2, NormalizeUnit, Divides
  <2>2. Exact(Normalize(v))
    BY <2>1, UnitExact
  <2> QED
    BY <1>1, <2>1, <2>2
<1>3. CASE Magnitude(v) > MaxFloat
  <2>1. Zero(Normalize(v)) /\ Len(Normalize(v)) = Len(v)
    BY <1>3, Overflows
  <2>2. Exact(Normalize(v))
    BY <2>1, ZeroExact
  <2> QED
    BY <1>1, <1>3, <2>1, <2>2, FloatAssumption
<1> QED
  BY <1>1, <1>2, <1>3, FloatAssumption

-----------------------------------------------------------------------------
(* The index                                                               *)

(* Vectors keep to their own address, so no two share one and the caller's *)
(* buffer is no vector's: TypeOK alone leaves open that a write to the     *)
(* buffer changes a vector.  That every value on the heap is exact makes   *)
(* the scores numbers that can be compared.                                *)
IndexInv ==
    /\ config \in Configs /\ config.metric \in {"Cosine", "Dot", "Euclidean"}
    /\ buffer = 0
    /\ DOMAIN vectors \subseteq Ids /\ IsFiniteSet(DOMAIN vectors)
    /\ \A id \in DOMAIN vectors : vectors[id] = id
    /\ DOMAIN heap = {0} \cup DOMAIN vectors
    /\ \A a \in DOMAIN heap : Exact(heap[a])
    /\ \A id \in DOMAIN vectors : Len(heap[id]) = config.dimension
    /\ DOMAIN from = DOMAIN vectors

LEMMA IndexInit == Init => IndexInv
BY RawExact, FS_EmptySet DEF Init, NewIndexConfig, IndexInv, Empty

LEMMA IndexStep == IndexInv /\ [Next]_vars => IndexInv'
<1> SUFFICES ASSUME IndexInv, [Next]_vars PROVE IndexInv'
  OBVIOUS
<1>0. 0 \notin Ids
  BY IdAssumption
<1>1. ASSUME NEW v \in Raw, Fill(v)
      PROVE  IndexInv'
  <2>1. heap' = [heap EXCEPT ![0] = v]
    BY <1>1 DEF Fill, IndexInv
  <2>2. \A id \in DOMAIN vectors : heap'[id] = heap[id]
    BY <1>0, <2>1 DEF IndexInv
  <2> QED
    BY <1>1, <2>1, <2>2, RawExact DEF Fill, IndexInv
<1>2. ASSUME NEW id \in Ids, Add(id)
      PROVE  IndexInv'
  <2> DEFINE n == Normalize(heap[0])
  <2>1. Exact(n) /\ Len(n) = config.dimension
    <3>1. Exact(heap[0]) /\ NewVectorOK(heap[0]) /\ Len(heap[0]) = config.dimension
      BY <1>2 DEF Add, IndexInv
    <3> QED
      BY <3>1, NewVectorMakes
  <2>2. /\ heap' = Put(heap, id, n) /\ vectors' = Put(vectors, id, id)
        /\ from' = Put(from, id, heap[0])
        /\ UNCHANGED <<config, buffer>>
    BY <1>2 DEF Add, IndexInv
  <2> HIDE DEF n
  <2>3. /\ DOMAIN vectors' = DOMAIN vectors \cup {id}
        /\ DOMAIN from' = DOMAIN from \cup {id}
        /\ DOMAIN heap' = DOMAIN heap \cup {id}
        /\ \A j \in DOMAIN vectors' : vectors'[j] = j
        /\ \A a \in DOMAIN heap' : heap'[a] = IF a = id THEN n ELSE heap[a]
    BY <2>2 DEF Put, IndexInv
  <2>4. IsFiniteSet(DOMAIN vectors')
    BY <2>3, FS_AddElement DEF IndexInv
  <2> QED
    BY <1>0, <2>1, <2>2, <2>3, <2>4 DEF IndexInv
<1>3. ASSUME NEW id \in Ids, Delete(id)
      PROVE  IndexInv'
  <2>1. /\ DOMAIN vectors' = DOMAIN vectors \ {id}
        /\ DOMAIN from' = DOMAIN from \ {id}
        /\ DOMAIN heap' = {0} \cup (DOMAIN vectors \ {id})
        /\ \A j \in DOMAIN vectors' : vectors'[j] = vectors[j]
        /\ \A a \in DOMAIN heap' : heap'[a] = heap[a]
        /\ UNCHANGED <<config, buffer>>
    BY <1>0, <1>3 DEF Delete, Drop, IndexInv
  <2>2. IsFiniteSet(DOMAIN vectors')
    BY <2>1, FS_RemoveElement DEF IndexInv
  <2> QED
    BY <1>0, <2>1, <2>2 DEF IndexInv
<1>4. ASSUME NEW id \in Ids, GetValues(id)
      PROVE  IndexInv'
  <2>1. /\ heap' = [heap EXCEPT ![0] = heap[id]] /\ id \in DOMAIN vectors
        /\ buffer' = 0 /\ UNCHANGED <<config, vectors, from>>
    BY <1>4 DEF GetValues, Value, IndexInv
  <2>2. /\ DOMAIN heap' = DOMAIN heap
        /\ \A a \in DOMAIN heap : heap'[a] = IF a = 0 THEN heap[id] ELSE heap[a]
    BY <2>1
  <2> QED
    BY <1>0, <2>1, <2>2 DEF IndexInv
<1>5. ASSUME NEW k \in Ks, Search(k)
      PROVE  IndexInv'
  BY <1>5 DEF Search, IndexInv
<1>6. CASE UNCHANGED vars
  BY <1>6 DEF vars, IndexInv
<1> QED
  BY <1>1, <1>2, <1>3, <1>4, <1>5, <1>6 DEF Next

LEMMA IndexAlways == Spec => []IndexInv
BY IndexInit, IndexStep, PTL DEF Spec

(* The invariant that all stored vectors have the index's dimension, and   *)
(* every address is one of the heap, for any vectors and configurations.   *)
THEOREM TypeCorrect == Spec => []TypeOK
<1>1. IndexInv => TypeOK
  BY DEF IndexInv, TypeOK, Value
<1> QED
  BY <1>1, IndexAlways, PTL

(* A stored vector never changes: NewVector and Values copy, so no write   *)
(* of the caller to a slice of its own reaches the index.                  *)
THEOREM VectorsKept == Spec => Immutable
<1>1. IndexInv /\ [Next]_vars =>
        [\A id \in DOMAIN vectors \cap DOMAIN vectors' : Value(id)' = Value(id)]_vars
  <2> SUFFICES ASSUME IndexInv, Next,
                      NEW id \in DOMAIN vectors, id \in DOMAIN vectors'
               PROVE  heap'[vectors'[id]] = heap[vectors[id]]
    BY DEF Value
  <2>0. id \in Ids /\ id # 0 /\ vectors[id] = id /\ id \in DOMAIN heap
    BY IdAssumption DEF IndexInv
  <2>1. ASSUME NEW v \in Raw, Fill(v)
        PROVE  heap'[vectors'[id]] = heap[vectors[id]]
    BY <2>0, <2>1 DEF Fill, IndexInv
  <2>2. ASSUME NEW j \in Ids, Add(j)
        PROVE  heap'[vectors'[id]] = heap[vectors[id]]
    BY <2>0, <2>2 DEF Add, Put, IndexInv
  <2>3. ASSUME NEW j \in Ids, Delete(j)
        PROVE  heap'[vectors'[id]] = heap[vectors[id]]
    BY <2>0, <2>3 DEF Delete, Drop, IndexInv
  <2>4. ASSUME NEW j \in Ids, GetValues(j)
        PROVE  heap'[vectors'[id]] = heap[vectors[id]]
    BY <2>0, <2>4 DEF GetValues, IndexInv
  <2>5. ASSUME NEW k \in Ks, Search(k)
        PROVE  heap'[vectors'[id]] = heap[vectors[id]]
    BY <2>5 DEF Search
  <2> QED
    BY <2>1, <2>2, <2>3, <2>4, <2>5 DEF Next
<1> QED
  BY <1>1, IndexAlways, PTL DEF Spec, Immutable

-----------------------------------------------------------------------------
(* Search                                                                  *)

(* An answer is right for as long as it stands: every step that changes    *)
(* the vectors takes it away.                                              *)
Returned ==
    Answered =>
        \/ Size = 0 /\ results = <<>>
        \/ /\ Size > 0 /\ answer.k \in Int /\ answer.k > 0
           /\ answer.raw = heap[0]
           /\ Exact(answer.raw) /\ NewVectorOK(answer.raw)
           /\ answer.query = Normalize(answer.raw)
           /\ Len(answer.query) = config.dimension
           /\ \E s \in Rankings(answer.query) :
                 results = Result(Cut(s, answer.k), answer.query)

LEMMA ReturnedInit == Init => Returned
BY DEF Init, Nil, Returned, Answered

LEMMA ReturnedStep == IndexInv /\ Returned /\ [Next]_vars => Returned'
<1> SUFFICES ASSUME IndexInv, Returned, [Next]_vars PROVE Returned'
  OBVIOUS
<1>1. ASSUME answer' = Nil
      PROVE  Returned'
  BY <1>1 DEF Returned, Answered, Nil
<1>2. ASSUME NEW k \in Ks, Search(k)
      PROVE  Returned'
  <2>0. UNCHANGED <<config, vectors, heap, buffer, from>> /\ k \in Int
    BY <1>2, KAssumption DEF Search
  <2>1. CASE Size = 0 /\ answer' = Answer(Query, k, <<>>)
    BY <2>0, <2>1 DEF Returned, Answered, results, Answer, Size
  <2>2. CASE answer' = Error(Query, k)
    BY <2>2 DEF Returned, Answered, Error
  <2>3. CASE /\ Size > 0
             /\ Query # <<>> /\ Len(Query) = config.dimension /\ k > 0
             /\ \E s \in Rankings(Query) :
                   answer' = Answer(Query, k, Result(Cut(s, k), Query))
    <3>1. PICK s \in Rankings(Query) :
                  answer' = Answer(Query, k, Result(Cut(s, k), Query))
      BY <2>3
    <3>2. /\ answer'.raw = heap[buffer] /\ answer'.query = Query /\ answer'.k = k
          /\ answer'.results = Result(Cut(s, k), Query)
      BY <3>1 DEF Answer
    <3>3. NewVectorOK(heap[buffer]) /\ Query = Normalize(heap[buffer])
      BY <2>3 DEF Query
    <3>4. Exact(heap[buffer]) /\ heap'[0] = heap[buffer]
      BY <2>0 DEF IndexInv
    <3>5. s \in Rankings(answer.query)'
      BY <2>0, <3>1, <3>2 DEF Rankings, Sorted, Score, Value
    <3>6. answer'.results = Result(Cut(s, answer.k), answer.query)'
      BY <2>0, <3>2 DEF Size, Result, Cut, Score, Value
    <3>7. Size' > 0
      BY <2>0, <2>3 DEF Size
    <3> QED
      BY <2>0, <2>3, <3>2, <3>3, <3>4, <3>5, <3>6, <3>7 DEF Returned, results
  <2> QED
    BY <1>2, <2>1, <2>2, <2>3 DEF Search
<1>3. CASE UNCHANGED vars
  <2>0. UNCHANGED <<config, vectors, heap, answer>> /\ Size' = Size
    BY <1>3 DEF vars, Size
  <2>1. CASE ~Answered \/ (Size = 0 /\ results = <<>>)
    BY <2>0, <2>1 DEF Returned, Answered, results
  <2>2. CASE Answered /\ ~(Size = 0 /\ results = <<>>)
    <3>1. PICK s \in Rankings(answer.query) :
                  results = Result(Cut(s, answer.k), answer.query)
      BY <2>2 DEF Returned
    <3>2. s \in Rankings(answer.query)'
      BY <2>0, <3>1 DEF Rankings, Sorted, Score, Value
    <3>3. results' = Result(Cut(s, answer.k), answer.query)'
      BY <2>0, <3>1 DEF results, Size, Result, Cut, Score, Value
    <3> QED
      BY <2>0, <2>2, <3>2, <3>3 DEF Returned
  <2> QED
    BY <2>1, <2>2
<1> QED
  BY <1>1, <1>2, <1>3 DEF Next, Fill, Add, Delete, GetValues

LEMMA ReturnedAlways == Spec => [](IndexInv /\ Returned)
<1>1. Init => IndexInv /\ Returned
  BY IndexInit, ReturnedInit
<1>2. IndexInv /\ Returned /\ [Next]_vars => (IndexInv /\ Returned)'
  BY IndexStep, ReturnedStep
<1> QED
  BY <1>1, <1>2, PTL DEF Spec

LEMMA ScoreInt ==
    ASSUME NEW metric \in {"Cosine", "Dot", "Euclidean"},
           NEW u \in Seq(Int), NEW q \in Seq(Int), Len(u) = Len(q)
    PROVE  ScoreBy(metric, u, q) \in Int
<1>1. DotProduct(u, q) \in Int
  BY DotInt
<1>2. Euclidean(u, q) \in Int
  <2> DEFINE w == [i \in DOMAIN u |-> (u[i] - q[i]) * (u[i] - q[i])]
  <2>1. DOMAIN q = DOMAIN u
    BY SeqDomain
  <2>2. IsFiniteSet(DOMAIN w) /\ \A i \in DOMAIN w : w[i] \in Int
    BY <2>1, SeqDomain
  <2>3. Sum(w) \in Int
    <3> HIDE DEF w
    <3> QED
      BY <2>2, SumInt
  <2> QED
    BY <2>3 DEF Euclidean
<1> QED
  BY <1>1, <1>2 DEF ScoreBy, Cosine

(* The positions 1 .. n of the ranking s are what a search for q returns.  *)
Ranks(s, n, q) ==
    /\ s \in [1 .. Size -> DOMAIN vectors]
    /\ \A i, j \in 1 .. Size : s[i] = s[j] => i = j
    /\ \A i, j \in 1 .. Size : i < j => Score(s[i], q) >= Score(s[j], q)
    /\ n \in 1 .. Size /\ DOMAIN results = 1 .. n /\ Len(results) = n
    /\ \A p \in 1 .. n : /\ results[p].id = s[p]
                         /\ results[p].score = Score(s[p], q)

LEMMA Shape ==
    ASSUME IndexInv, Returned, Answered, ~ (Size = 0 /\ results = <<>>)
    PROVE  /\ Size \in Nat \ {0} /\ answer.k \in Nat \ {0}
           /\ \A id \in DOMAIN vectors : Score(id, answer.query) \in Int
           /\ \E s : Ranks(s, IF answer.k > Size THEN Size ELSE answer.k, answer.query)
<1> DEFINE q == answer.query
           k == answer.k
           n == IF k > Size THEN Size ELSE k
<1>1. PICK s \in Rankings(q) : results = Result(Cut(s, k), q)
  BY DEF Returned
<1>2. /\ Size \in Nat \ {0} /\ k \in Nat \ {0} /\ n \in 1 .. Size
  <2>1. Size \in Nat
    BY FS_CardinalityType DEF IndexInv, Size
  <2> QED
    BY <2>1 DEF Returned
<1>3. ASSUME NEW id \in DOMAIN vectors
      PROVE  Score(id, q) \in Int
  <2>1. Value(id) \in Seq(Int) /\ Len(Value(id)) = config.dimension
    BY DEF IndexInv, Value, Exact
  <2>2. q \in Seq(Int) /\ Len(q) = config.dimension
    BY NewVectorMakes DEF Returned, Exact
  <2> QED
    BY <2>1, <2>2, ScoreInt DEF Score, IndexInv
<1>4. /\ s \in [1 .. Size -> DOMAIN vectors]
      /\ \A i, j \in 1 .. Size : s[i] = s[j] => i = j
      /\ \A i, j \in 1 .. Size : i < j => Score(s[i], q) >= Score(s[j], q)
  BY <1>1 DEF Rankings, SetToSeqs, Sorted, Size
<1>5. s \in Seq(DOMAIN vectors) /\ Len(s) = Size
  BY <1>2, <1>4
<1>6. DOMAIN Cut(s, k) = 1 .. n /\ \A p \in 1 .. n : Cut(s, k)[p] = s[p]
  BY <1>2, <1>4, <1>5 DEF Cut
<1>7. /\ DOMAIN results = 1 .. n
      /\ \A p \in 1 .. n : /\ results[p].id = s[p]
                           /\ results[p].score = Score(s[p], q)
  BY <1>1, <1>6 DEF Result
<1>8. Len(results) = n
  <2>1. results = [p \in 1 .. n |-> [id |-> Cut(s, k)[p], score |-> Score(Cut(s, k)[p], q)]]
    BY <1>1, <1>6 DEF Result
  <2> QED
    BY <1>2, <2>1
<1>9. Ranks(s, n, q)
  BY <1>2, <1>4, <1>7, <1>8 DEF Ranks
<1> QED
  BY <1>2, <1>3, <1>9

LEMMA BestFromShape ==
    ASSUME IndexInv, Returned
    PROVE  BestK
<1> SUFFICES ASSUME Answered PROVE BestK
  BY DEF BestK
<1>1. CASE Size = 0 /\ results = <<>>
  <2>1. Len(results) = IF answer.k > Size THEN Size
                       ELSE IF Size = 0 THEN 0 ELSE answer.k
    BY <1>1
  <2> QED
    BY <1>1, <2>1 DEF BestK
<1>2. CASE ~ (Size = 0 /\ results = <<>>)
  <2> DEFINE q == answer.query
             n == IF answer.k > Size THEN Size ELSE answer.k
  <2>1. /\ Size \in Nat \ {0} /\ answer.k \in Nat \ {0}
        /\ \A id \in DOMAIN vectors : Score(id, q) \in Int
    BY <1>2, Shape
  <2>2. PICK s : Ranks(s, n, q)
    BY <1>2, Shape
  <2>3. IsFiniteSet(DOMAIN vectors)
    BY DEF IndexInv
  <2>4. \A id \in DOMAIN vectors : \E i \in 1 .. Size : s[i] = id
    <3>1. s \in Injection(1 .. Size, DOMAIN vectors)
      BY <2>2 DEF Ranks, Injection, IsInjective
    <3>2. Cardinality(1 .. Size) = Cardinality(DOMAIN vectors)
      BY <2>1, FS_Interval DEF Size
    <3>3. s \in Surjection(1 .. Size, DOMAIN vectors)
      BY <2>3, <3>1, <3>2, FS_Injection
    <3> QED
      BY <3>3 DEF Surjection
  <2>5. n \in 1 .. Size /\ DOMAIN results = 1 .. n
    BY <2>2 DEF Ranks
  <2>6. ASSUME NEW p \in 1 .. n
        PROVE  /\ results[p].id \in DOMAIN vectors
               /\ results[p].score = Score(results[p].id, q)
               /\ Cardinality({id \in DOMAIN vectors :
                                 Score(id, q) > results[p].score}) < p
               /\ Cardinality({id \in DOMAIN vectors :
                                 Score(id, q) >= results[p].score}) >= p
    <3> DEFINE above == {id \in DOMAIN vectors : Score(id, q) > results[p].score}
               least == {id \in DOMAIN vectors : Score(id, q) >= results[p].score}
               before == {s[i] : i \in 1 .. p - 1}
    <3>1. /\ p \in 1 .. Size /\ s[p] \in DOMAIN vectors
          /\ results[p].id = s[p] /\ results[p].score = Score(s[p], q)
      <4>1. p \in 1 .. Size
        BY <2>1, <2>5
      <4> HIDE DEF n, q
      <4> QED
        BY <2>2, <4>1 DEF Ranks
    <3>2. IsFiniteSet(before) /\ Cardinality(before) <= p - 1
      <4> DEFINE f == [i \in 1 .. p - 1 |-> s[i]]
      <4>1. f \in Surjection(1 .. p - 1, before)
        BY DEF Surjection
      <4>2. IsFiniteSet(1 .. p - 1) /\ Cardinality(1 .. p - 1) = p - 1
        BY <3>1, FS_Interval
      <4> HIDE DEF f, before
      <4> QED
        BY <4>1, <4>2, FS_Surjection
    <3>3. above \subseteq before
      <4> SUFFICES ASSUME NEW id \in DOMAIN vectors, Score(id, q) > Score(s[p], q)
                   PROVE  id \in before
        BY <3>1
      <4>1. PICK i \in 1 .. Size : s[i] = id
        BY <2>4
      <4>2. ~ (p < i) /\ i # p
        BY <2>1, <2>2, <3>1, <4>1 DEF Ranks
      <4> QED
        BY <2>1, <3>1, <4>1, <4>2
    <3>4. Cardinality(above) < p
      <4>1. Cardinality(above) <= Cardinality(before)
        BY <3>2, <3>3, FS_Subset
      <4>2. Cardinality(above) \in Nat /\ Cardinality(before) \in Nat
        BY <3>2, <3>3, FS_Subset, FS_CardinalityType
      <4> QED
        BY <3>1, <3>2, <4>1, <4>2
    <3>5. Cardinality(least) >= p
      <4> DEFINE f == [i \in 1 .. p |-> s[i]]
      <4>1. \A i \in 1 .. p : s[i] \in least
        <5> TAKE i \in 1 .. p
        <5>1. i \in 1 .. Size /\ s[i] \in DOMAIN vectors
          BY <2>1, <2>2, <3>1 DEF Ranks
        <5>2. i < p => Score(s[i], q) >= Score(s[p], q)
          BY <2>2, <3>1, <5>1 DEF Ranks
        <5> QED
          BY <2>1, <3>1, <5>1, <5>2
      <4>2. \A i, j \in 1 .. p : s[i] = s[j] => i = j
        BY <2>1, <2>2, <3>1 DEF Ranks
      <4> HIDE DEF least
      <4>3. f \in Injection(1 .. p, least)
        BY <4>1, <4>2 DEF Injection, IsInjective
      <4>4. IsFiniteSet(least)
        BY <2>3, FS_Subset DEF least
      <4>5. Cardinality(1 .. p) = p
        BY <3>1, FS_Interval
      <4>6. Cardinality(1 .. p) <= Cardinality(least)
        <5> HIDE DEF f
        <5> QED
          BY <4>3, <4>4, FS_Injection
      <4>7. Cardinality(least) \in Nat
        BY <4>4, FS_CardinalityType
      <4> QED
        BY <3>1, <4>5, <4>6, <4>7
    <3> QED
      BY <3>1, <3>4, <3>5
  <2>7. \A i, j \in 1 .. n : results[i].id = results[j].id => i = j
    BY <2>1, <2>2, <2>5 DEF Ranks
  <2>8. Len(results) = IF answer.k > Size THEN Size
                       ELSE IF Size = 0 THEN 0 ELSE answer.k
    BY <2>1, <2>2 DEF Ranks
  <2> QED
    BY <2>5, <2>6, <2>7, <2>8 DEF BestK
<1> QED
  BY <1>1, <1>2

(* Search returns min(k, Size) different vectors with their scores, the    *)
(* best ones, best first, for any vectors, any k, any metric, and whatever *)
(* order the map's iteration and the unstable sort leave the ties in.      *)
THEOREM SearchIsBest == Spec => []BestK
<1>1. IndexInv /\ Returned => BestK
  BY BestFromShape
<1> QED
  BY <1>1, ReturnedAlways, PTL

-----------------------------------------------------------------------------
(* Directions                                                              *)

LEMMA EuclideanDot ==
    ASSUME NEW u, NEW q, Unit(u), Unit(q), Len(u) = Len(q)
    PROVE  /\ DotProduct(u, q) \in Int
           /\ Euclidean(u, q) = 2 * DotProduct(u, q) - 2 * (One * One)
<1> DEFINE uu == [i \in DOMAIN u |-> u[i] * u[i]]
           qq == [i \in DOMAIN q |-> q[i] * q[i]]
           uq == [i \in DOMAIN u |-> u[i] * q[i]]
           both == [i \in DOMAIN u |-> u[i] * u[i] + q[i] * q[i]]
           w == [i \in DOMAIN u |-> (u[i] - q[i]) * (u[i] - q[i])]
<1>1. /\ DOMAIN q = DOMAIN u /\ IsFiniteSet(DOMAIN u)
      /\ \A i \in DOMAIN u : u[i] \in Int /\ q[i] \in Int
  BY SeqDomain DEF Unit
<1>2. /\ DOMAIN uu = DOMAIN u /\ DOMAIN qq = DOMAIN u /\ DOMAIN uq = DOMAIN u
      /\ DOMAIN both = DOMAIN u /\ DOMAIN w = DOMAIN u
      /\ \A i \in DOMAIN u : /\ uu[i] \in Int /\ qq[i] \in Int /\ uq[i] \in Int
                             /\ both[i] \in Int
                             /\ both[i] = 1 * uu[i] + 1 * qq[i]
  BY <1>1
<1>3. \A i \in DOMAIN u : w[i] = 1 * both[i] + (-2) * uq[i]
  <2>1. \A x, y \in Int : (x - y) * (x - y) = 1 * (x * x + y * y) + (-2) * (x * y)
    OBVIOUS
  <2> QED
    BY <1>1, <2>1
<1>4. /\ Sum(uu) = One * One /\ Sum(qq) = One * One
      /\ Sum(uq) = DotProduct(u, q) /\ Euclidean(u, q) = -Sum(w)
  BY DEF Unit, DotProduct, Euclidean
<1> HIDE DEF uu, qq, uq, both, w
<1>5. Sum(both) = 1 * Sum(uu) + 1 * Sum(qq)
  BY <1>1, <1>2, SumLinear
<1>6. Sum(w) = 1 * Sum(both) + (-2) * Sum(uq)
  BY <1>1, <1>2, <1>3, SumLinear
<1>7. Sum(uq) \in Int
  BY <1>1, <1>2, SumInt
<1>8. One * One \in Int
  BY FloatAssumption
<1> QED
  BY <1>4, <1>5, <1>6, <1>7, <1>8

(* No unit vector is closer to a unit vector than itself.                  *)
LEMMA Closest ==
    ASSUME NEW u, NEW q, Unit(u), Unit(q), Len(u) = Len(q),
           DotProduct(u, q) >= One * One
    PROVE  u = q
<1> DEFINE w == [i \in DOMAIN u |-> (u[i] - q[i]) * (u[i] - q[i])]
<1>1. /\ DOMAIN q = DOMAIN u /\ IsFiniteSet(DOMAIN u)
      /\ \A i \in DOMAIN u : u[i] \in Int /\ q[i] \in Int
  BY SeqDomain DEF Unit
<1>2. \A i \in DOMAIN w : w[i] \in Nat
  <2>1. \A x \in Int : x * x \in Nat
    OBVIOUS
  <2>2. \A i \in DOMAIN u : u[i] - q[i] \in Int
    BY <1>1
  <2> QED
    BY <2>1, <2>2
<1>3. Sum(w) \in Nat /\ \A i \in DOMAIN w : w[i] <= Sum(w)
  <2>1. IsFiniteSet(DOMAIN w)
    BY <1>1
  <2> HIDE DEF w
  <2> QED
    BY <1>2, <2>1, SumBounds
<1>4. Sum(w) <= 0
  <2>1. Euclidean(u, q) = -Sum(w)
    BY DEF Euclidean
  <2>2. One * One \in Int
    BY FloatAssumption
  <2> HIDE DEF w
  <2> QED
    BY <1>3, <2>1, <2>2, EuclideanDot
<1>5. ASSUME NEW i \in DOMAIN u
      PROVE  u[i] = q[i]
  <2>1. w[i] = 0
    <3> HIDE DEF w
    <3> QED
      BY <1>2, <1>3, <1>4, <1>5 DEF w
  <2>2. \A x \in Int : x * x = 0 => x = 0
    OBVIOUS
  <2>3. u[i] - q[i] = 0
    BY <1>1, <2>1, <2>2
  <2> QED
    BY <1>1, <2>3
<1> QED
  BY <1>1, <1>5 DEF Unit

(* Multiplication, for steps about more products than the arithmetic of    *)
(* the provers takes at once.                                              *)
LEMMA Products ==
    /\ \A a, b \in Int : a * b \in Int /\ a * b = b * a
    /\ \A a, b, c \in Int : (a * b) * c = a * (b * c)
    /\ \A a, b, c, d \in Int : (a * b) * (c * d) = (a * c) * (b * d)
    /\ \A a, b \in Nat \ {0} : a * b \in Nat \ {0}
<1>1. \A a, b \in Int : a * b \in Int /\ a * b = b * a
  OBVIOUS
<1>2. \A a, b, c \in Int : (a * b) * c = a * (b * c)
  OBVIOUS
<1>3. \A a, b, c, d \in Int : (a * b) * (c * d) = (a * c) * (b * d)
  OBVIOUS
<1>4. \A a, b \in Nat \ {0} : a * b \in Nat \ {0}
  OBVIOUS
<1> QED
  BY <1>1, <1>2, <1>3, <1>4

LEMMA SumScaled ==
    ASSUME NEW f, NEW g, NEW a \in Int, NEW b \in Int,
           DOMAIN g = DOMAIN f, IsFiniteSet(DOMAIN f),
           \A i \in DOMAIN f : /\ f[i] \in Int /\ g[i] \in Int
                               /\ a * f[i] = b * g[i]
    PROVE  a * Sum(f) = b * Sum(g)
<1> DEFINE w == [i \in DOMAIN f |-> a * f[i]]
<1>1. DOMAIN w = DOMAIN f /\ DOMAIN w = DOMAIN g
  OBVIOUS
<1>2. \A i \in DOMAIN f : w[i] = a * f[i] + 0 * f[i]
  <2>1. \A x \in Int : a * x = a * x + 0 * x
    OBVIOUS
  <2> QED
    BY <2>1
<1>3. \A i \in DOMAIN g : w[i] = b * g[i] + 0 * g[i]
  <2>1. \A x \in Int : b * x = b * x + 0 * x
    OBVIOUS
  <2>2. \A i \in DOMAIN g : w[i] = b * g[i]
    OBVIOUS
  <2> QED
    BY <2>1, <2>2
<1> HIDE DEF w
<1>4. Sum(f) \in Int /\ Sum(g) \in Int
  BY SumInt
<1>5. Sum(w) = a * Sum(f) + 0 * Sum(f)
  BY <1>1, <1>2, SumLinear
<1>6. Sum(w) = b * Sum(g) + 0 * Sum(g)
  BY <1>1, <1>3, SumLinear
<1>7. \A x \in Int, c \in Int : c * x + 0 * x = c * x
  OBVIOUS
<1> QED
  BY <1>4, <1>5, <1>6, <1>7

(* The dot product of parallel vectors is the product of their magnitudes. *)
LEMMA ParallelDot ==
    ASSUME NEW f, NEW r, Exact(f), Exact(r), Parallel(f, r)
    PROVE  /\ DotProduct(f, r) = Magnitude(f) * Magnitude(r)
           /\ \A i \in DOMAIN f : f[i] * (Magnitude(r) * Magnitude(r))
                                    = r[i] * DotProduct(f, r)
<1> DEFINE ff == [i \in DOMAIN f |-> f[i] * f[i]]
           rr == [i \in DOMAIN r |-> r[i] * r[i]]
           fr == [i \in DOMAIN f |-> f[i] * r[i]]
           F == Magnitude(f)
           R == Magnitude(r)
           D == DotProduct(f, r)
<1>1. /\ DOMAIN r = DOMAIN f /\ IsFiniteSet(DOMAIN f)
      /\ \A i \in DOMAIN f : f[i] \in Int /\ r[i] \in Int
  BY SeqDomain DEF Exact, Parallel
<1>2. /\ F \in Nat /\ R \in Nat /\ D \in Nat
      /\ F * F = DotProduct(f, f) /\ R * R = DotProduct(r, r)
  <2>1. D \in Int
    BY DotInt DEF Exact, Parallel
  <2> QED
    BY <2>1 DEF Exact, Parallel
<1>3. Sum(ff) = F * F /\ Sum(rr) = R * R /\ Sum(fr) = D
  BY <1>2 DEF DotProduct
<1>4. /\ DOMAIN ff = DOMAIN f /\ DOMAIN rr = DOMAIN f /\ DOMAIN fr = DOMAIN f
      /\ \A i \in DOMAIN f : /\ ff[i] = f[i] * f[i] /\ ff[i] \in Int
                             /\ rr[i] = r[i] * r[i] /\ rr[i] \in Int
                             /\ fr[i] = f[i] * r[i] /\ fr[i] \in Int
  BY <1>1
<1>5. \A i, j \in DOMAIN f : f[i] * r[j] = r[i] * f[j]
  <2>1. \A i, j \in DOMAIN f : f[i] * r[j] = f[j] * r[i]
    BY DEF Parallel
  <2> QED
    BY <1>1, <2>1, Products
<1> HIDE DEF ff, rr, fr, F, R, D
<1>6. ASSUME NEW i \in DOMAIN f
      PROVE  f[i] * (R * R) = r[i] * D
  <2>1. ASSUME NEW j \in DOMAIN f
        PROVE  f[i] * rr[j] = r[i] * fr[j]
    <3>1. f[i] * (r[j] * r[j]) = (f[i] * r[j]) * r[j]
      BY <1>1, Products
    <3>2. (r[i] * f[j]) * r[j] = r[i] * (f[j] * r[j])
      BY <1>1, Products
    <3> QED
      BY <1>4, <1>5, <3>1, <3>2
  <2>2. f[i] \in Int /\ r[i] \in Int
    BY <1>1
  <2>3. f[i] * Sum(rr) = r[i] * Sum(fr)
    BY <1>1, <1>4, <2>1, <2>2, SumScaled
  <2> QED
    BY <1>3, <2>3
<1>7. D = F * R
  <2>1. ASSUME NEW i \in DOMAIN f
        PROVE  (R * R) * ff[i] = D * fr[i]
    <3>1. (R * R) * (f[i] * f[i]) = f[i] * (f[i] * (R * R))
      BY <1>1, <1>2, Products
    <3>2. f[i] * (r[i] * D) = D * (f[i] * r[i])
      BY <1>1, <1>2, Products
    <3> QED
      BY <1>4, <1>6, <3>1, <3>2
  <2>2. R * R \in Int /\ D \in Int
    BY <1>2
  <2>3. (R * R) * Sum(ff) = D * Sum(fr)
    BY <1>1, <1>4, <2>1, <2>2, SumScaled
  <2>4. (R * R) * (F * F) = D * D
    BY <1>3, <2>3
  <2>5. (R * R) * (F * F) = (F * R) * (F * R)
    BY <1>2
  <2>6. F * R \in Nat
    BY <1>2
  <2> DEFINE P == F * R
  <2>7. P * P = D * D /\ P \in Nat
    BY <2>4, <2>5, <2>6
  <2> HIDE DEF P
  <2>8. P = D
    BY <1>2, <2>7, Arithmetic
  <2> QED
    BY <2>8 DEF P
<1> QED
  BY <1>6, <1>7 DEF F, R, D

LEMMA ParallelNormalize ==
    ASSUME NEW f, NEW r, Exact(f), Exact(r), Parallel(f, r),
           Magnitude(f) > 0, Magnitude(f) <= MaxFloat,
           Magnitude(r) > 0, Magnitude(r) <= MaxFloat
    PROVE  Normalize(f) = Normalize(r)
<1> DEFINE F == Magnitude(f)
           R == Magnitude(r)
           a == Normalize(f)
           b == Normalize(r)
<1>1. F \in Nat \ {0} /\ R \in Nat \ {0} /\ One \in Nat \ {0}
  BY FloatAssumption DEF Exact
<1>2. /\ DOMAIN r = DOMAIN f
      /\ \A i \in DOMAIN f : f[i] \in Int /\ r[i] \in Int
  BY SeqDomain DEF Exact, Parallel
<1>3. /\ a \in Seq(Int) /\ Len(a) = Len(f) /\ \A i \in DOMAIN f : a[i] * F = f[i] * One
      /\ b \in Seq(Int) /\ Len(b) = Len(r) /\ \A i \in DOMAIN r : b[i] * R = r[i] * One
  BY Divides
<1>4. \A i \in DOMAIN f : f[i] * (R * R) = r[i] * (F * R)
  BY ParallelDot
<1> HIDE DEF F, R, a, b
<1>5. ASSUME NEW i \in DOMAIN f
      PROVE  f[i] * R = r[i] * F
  <2>1. f[i] \in Int /\ r[i] \in Int
    BY <1>2
  <2>2. R * (f[i] * R) = f[i] * (R * R)
    BY <1>1, <2>1, Products
  <2>3. R * (r[i] * F) = r[i] * (F * R)
    BY <1>1, <2>1, Products
  <2>4. R * (f[i] * R) = R * (r[i] * F)
    BY <1>4, <2>2, <2>3
  <2> DEFINE x == f[i] * R
             y == r[i] * F
  <2>5. x \in Int /\ y \in Int /\ R \in Int /\ R # 0 /\ R * x = R * y
    BY <1>1, <2>1, <2>4, Products
  <2> HIDE DEF x, y
  <2>6. x = y
    BY <2>5, Arithmetic
  <2> QED
    BY <2>6 DEF x, y
<1>6. /\ DOMAIN f = DOMAIN a /\ DOMAIN b = DOMAIN a
      /\ \A i \in DOMAIN a : a[i] \in Int /\ b[i] \in Int
  <2>1. DOMAIN a = 1 .. Len(a) /\ \A i \in DOMAIN a : a[i] \in Int
    BY <1>3, SeqDomain
  <2>2. DOMAIN b = 1 .. Len(b) /\ \A i \in DOMAIN b : b[i] \in Int
    BY <1>3, SeqDomain
  <2>3. DOMAIN f = 1 .. Len(f) /\ DOMAIN r = 1 .. Len(r) /\ Len(f) = Len(r)
    BY SeqDomain DEF Exact, Parallel
  <2> QED
    BY <1>3, <2>1, <2>2, <2>3
<1>7. ASSUME NEW i \in DOMAIN a
      PROVE  a[i] = b[i]
  <2>1. f[i] \in Int /\ r[i] \in Int /\ a[i] \in Int /\ b[i] \in Int
    BY <1>2, <1>6
  <2>2. (F * R) * a[i] = (a[i] * F) * R
    BY <1>1, <2>1, Products
  <2>3. (f[i] * One) * R = One * (f[i] * R)
    BY <1>1, <2>1, Products
  <2>4. (F * R) * b[i] = (b[i] * R) * F
    BY <1>1, <2>1, Products
  <2>5. (r[i] * One) * F = One * (r[i] * F)
    BY <1>1, <2>1, Products
  <2>6. (F * R) * a[i] = (F * R) * b[i]
    BY <1>2, <1>3, <1>5, <1>6, <2>2, <2>3, <2>4, <2>5
  <2> DEFINE m == F * R
  <2>7. m \in Int /\ m # 0 /\ m * a[i] = m * b[i]
    BY <1>1, <2>6, Products
  <2> HIDE DEF m
  <2> QED
    BY <2>1, <2>7, Arithmetic
<1>8. a = b
  BY <1>3, <1>6, <1>7
<1> QED
  BY <1>8 DEF a, b

LEMMA NormalizeParallel ==
    ASSUME NEW f, NEW r, Exact(f), Exact(r), Normalize(f) = Normalize(r),
           Magnitude(f) > 0, Magnitude(f) <= MaxFloat,
           Magnitude(r) > 0, Magnitude(r) <= MaxFloat
    PROVE  Parallel(f, r)
<1> DEFINE F == Magnitude(f)
           R == Magnitude(r)
           n == Normalize(f)
           nn == [i \in DOMAIN n |-> n[i] * n[i]]
           fr == [i \in DOMAIN f |-> f[i] * r[i]]
           Q == One * One
           P == F * R
<1>1. F \in Nat \ {0} /\ R \in Nat \ {0} /\ One \in Nat \ {0}
  BY FloatAssumption DEF Exact
<1>2. /\ n \in Seq(Int) /\ Len(n) = Len(f) /\ Len(r) = Len(f)
      /\ \A i \in DOMAIN f : n[i] * F = f[i] * One
      /\ \A i \in DOMAIN r : n[i] * R = r[i] * One
  BY Divides
<1>3. /\ DOMAIN r = DOMAIN f /\ DOMAIN n = DOMAIN f /\ IsFiniteSet(DOMAIN f)
      /\ \A i \in DOMAIN f : f[i] \in Int /\ r[i] \in Int /\ n[i] \in Int
  <2>1. DOMAIN n = 1 .. Len(n) /\ \A i \in DOMAIN n : n[i] \in Int
    BY <1>2, SeqDomain
  <2>2. /\ DOMAIN f = 1 .. Len(f) /\ DOMAIN r = 1 .. Len(r) /\ IsFiniteSet(DOMAIN f)
        /\ \A i \in DOMAIN f : f[i] \in Int
        /\ \A i \in DOMAIN r : r[i] \in Int
    BY SeqDomain DEF Exact
  <2> QED
    BY <1>2, <2>1, <2>2
<1>4. Sum(nn) = Q /\ Sum(fr) = DotProduct(f, r)
  <2>1. DotProduct(n, n) = One * One
    BY NormalizeUnit DEF Unit
  <2> QED
    BY <2>1 DEF DotProduct
<1>5. Q \in Nat \ {0} /\ P \in Nat \ {0}
  BY <1>1, Products
<1>6. /\ DOMAIN nn = DOMAIN f /\ DOMAIN fr = DOMAIN f
      /\ \A i \in DOMAIN f : /\ nn[i] = n[i] * n[i] /\ nn[i] \in Int
                             /\ fr[i] = f[i] * r[i] /\ fr[i] \in Int
  BY <1>3
<1> HIDE DEF F, R, n, nn, fr
<1>7. ASSUME NEW i \in DOMAIN f, NEW j \in DOMAIN f
      PROVE  Q * (f[i] * r[j]) = P * (n[i] * n[j])
  <2>1. /\ f[i] \in Int /\ r[j] \in Int /\ n[i] \in Int /\ n[j] \in Int
        /\ One \in Int /\ F \in Int /\ R \in Int
    BY <1>1, <1>3
  <2>2. (f[i] * One) * (r[j] * One) = (f[i] * r[j]) * Q
    BY <2>1, Products
  <2>3. (n[i] * F) * (n[j] * R) = (n[i] * n[j]) * P
    BY <2>1, Products
  <2>4. n[i] * F = f[i] * One /\ n[j] * R = r[j] * One
    BY <1>2, <1>3
  <2> DEFINE x == f[i] * r[j]
             y == n[i] * n[j]
  <2>5. x * Q = y * P /\ x \in Int /\ y \in Int
    BY <2>1, <2>2, <2>3, <2>4, Products
  <2> HIDE DEF x, y, P, Q
  <2>6. Q * x = P * y
    BY <1>5, <2>5, Products
  <2> QED
    BY <2>6 DEF x, y
<1> HIDE DEF P, Q
<1>8. ASSUME NEW i \in DOMAIN f, NEW j \in DOMAIN f
      PROVE  f[i] * r[j] = f[j] * r[i]
  <2> DEFINE x == f[i] * r[j]
             y == f[j] * r[i]
  <2>1. Q * x = P * (n[i] * n[j]) /\ Q * y = P * (n[j] * n[i])
    BY <1>7
  <2>2. n[i] * n[j] = n[j] * n[i] /\ x \in Int /\ y \in Int
    BY <1>3, Products
  <2>3. Q * x = Q * y
    BY <2>1, <2>2
  <2> HIDE DEF x, y
  <2>4. x = y
    BY <1>5, <2>2, <2>3, Arithmetic
  <2> QED
    BY <2>4 DEF x, y
<1>9. DotProduct(f, r) > 0
  <2>1. \A i \in DOMAIN f : Q * fr[i] = P * nn[i]
    BY <1>6, <1>7
  <2>2. Q * Sum(fr) = P * Sum(nn)
    BY <1>3, <1>5, <1>6, <2>1, SumScaled
  <2>3. Q * Sum(fr) = Q * P
    BY <1>4, <1>5, <2>2, Products
  <2>4. Sum(fr) \in Int
    BY <1>3, <1>6, SumInt
  <2>5. Sum(fr) = P
    <3> DEFINE x == Sum(fr)
    <3>1. x \in Int /\ P \in Int /\ Q \in Int /\ Q # 0 /\ Q * x = Q * P
      BY <1>5, <2>3, <2>4
    <3> HIDE DEF x
    <3>2. x = P
      BY <3>1, Arithmetic
    <3> QED
      BY <3>2 DEF x
  <2> QED
    BY <1>4, <1>5, <2>5
<1> QED
  BY <1>2, <1>8, <1>9 DEF Parallel

(* No vector the caller fills in has a magnitude beyond the largest float. *)
(* Without this Normalize may make the zero vector (normalize.go:16),      *)
(* which has no direction, and neither theorem below holds.                *)
FiniteMagnitudes == \A v \in Raw : NewVectorOK(v) => Magnitude(v) <= MaxFloat

(* What the index stores are the directions of what callers passed.        *)
UnitInv ==
    /\ \A id \in DOMAIN vectors :
          /\ Exact(from[id]) /\ heap[id] = Normalize(from[id])
          /\ Magnitude(from[id]) > 0 /\ Magnitude(from[id]) <= MaxFloat
    /\ NewVectorOK(heap[0]) => Magnitude(heap[0]) <= MaxFloat

LEMMA StoredUnit ==
    ASSUME UnitInv, NEW id \in DOMAIN vectors
    PROVE  Unit(heap[id])
BY NormalizeUnit DEF UnitInv

LEMMA UnitInit == ASSUME FiniteMagnitudes PROVE Init => UnitInv
BY DEF Init, Empty, UnitInv, FiniteMagnitudes

LEMMA UnitStep ==
    ASSUME FiniteMagnitudes
    PROVE  IndexInv /\ UnitInv /\ [Next]_vars => UnitInv'
<1> SUFFICES ASSUME IndexInv, UnitInv, [Next]_vars PROVE UnitInv'
  OBVIOUS
<1>0. 0 \notin Ids /\ DOMAIN vectors \subseteq Ids
  BY IdAssumption DEF IndexInv
<1>1. ASSUME NEW v \in Raw, Fill(v)
      PROVE  UnitInv'
  <2>1. /\ heap'[0] = v /\ UNCHANGED <<vectors, from>>
        /\ \A id \in DOMAIN vectors : heap'[id] = heap[id]
    BY <1>0, <1>1 DEF Fill, IndexInv
  <2>2. NewVectorOK(v) => Magnitude(v) <= MaxFloat
    BY DEF FiniteMagnitudes
  <2> QED
    BY <2>1, <2>2 DEF UnitInv
<1>2. ASSUME NEW id \in Ids, Add(id)
      PROVE  UnitInv'
  <2> DEFINE n == Normalize(heap[0])
  <2>1. /\ Exact(heap[0]) /\ NewVectorOK(heap[0])
        /\ Magnitude(heap[0]) > 0 /\ Magnitude(heap[0]) <= MaxFloat
    <3>1. Exact(heap[0]) /\ NewVectorOK(heap[0])
      BY <1>2 DEF Add, IndexInv
    <3> QED
      BY <3>1, NewVectorMakes DEF UnitInv
  <2>2. /\ heap' = Put(heap, id, n) /\ vectors' = Put(vectors, id, id)
        /\ from' = Put(from, id, heap[0])
    BY <1>2 DEF Add, IndexInv
  <2> HIDE DEF n
  <2>3. /\ DOMAIN vectors' = DOMAIN vectors \cup {id}
        /\ \A j \in DOMAIN vectors' : /\ heap'[j] = IF j = id THEN n ELSE heap[j]
                                      /\ from'[j] = IF j = id THEN heap[0] ELSE from[j]
        /\ heap'[0] = heap[0]
    BY <1>0, <2>2 DEF Put, IndexInv
  <2> QED
    BY <2>1, <2>3 DEF UnitInv, n
<1>3. ASSUME NEW id \in Ids, Delete(id)
      PROVE  UnitInv'
  <2>1. /\ DOMAIN vectors' = DOMAIN vectors \ {id}
        /\ \A j \in DOMAIN vectors' : heap'[j] = heap[j] /\ from'[j] = from[j]
        /\ heap'[0] = heap[0]
    BY <1>0, <1>3 DEF Delete, Drop, IndexInv
  <2> QED
    BY <2>1 DEF UnitInv
<1>4. ASSUME NEW id \in Ids, GetValues(id)
      PROVE  UnitInv'
  <2>1. /\ id \in DOMAIN vectors /\ UNCHANGED <<vectors, from>>
        /\ heap'[0] = heap[id] /\ \A j \in DOMAIN vectors : heap'[j] = heap[j]
    BY <1>0, <1>4 DEF GetValues, Value, IndexInv
  <2>2. Magnitude(heap[id]) <= MaxFloat
    BY <2>1, StoredUnit, UnitExact, FloatAssumption
  <2> QED
    BY <2>1, <2>2 DEF UnitInv
<1>5. ASSUME NEW k \in Ks, Search(k)
      PROVE  UnitInv'
  BY <1>5 DEF Search, UnitInv
<1>6. CASE UNCHANGED vars
  BY <1>6 DEF vars, UnitInv
<1> QED
  BY <1>1, <1>2, <1>3, <1>4, <1>5, <1>6 DEF Next

LEMMA UnitAlways ==
    ASSUME FiniteMagnitudes
    PROVE  Spec => [](IndexInv /\ Returned /\ UnitInv)
<1>1. Init => IndexInv /\ Returned /\ UnitInv
  BY IndexInit, ReturnedInit, UnitInit
<1>2. IndexInv /\ Returned /\ UnitInv /\ [Next]_vars
        => (IndexInv /\ Returned /\ UnitInv)'
  BY IndexStep, ReturnedStep, UnitStep
<1> QED
  BY <1>1, <1>2, PTL DEF Spec

(* The parts of an answer that both theorems need.                         *)
LEMMA AnswerShape ==
    ASSUME IndexInv, Returned, UnitInv, Answered, results # <<>>
    PROVE  /\ Unit(answer.query) /\ answer.query = Normalize(answer.raw)
           /\ Exact(answer.raw)
           /\ Magnitude(answer.raw) > 0 /\ Magnitude(answer.raw) <= MaxFloat
           /\ \A id \in DOMAIN vectors :
                 /\ Value(id) = heap[id] /\ Unit(heap[id])
                 /\ Len(heap[id]) = Len(answer.query)
           /\ Size \in Nat \ {0} /\ \E s, n : Ranks(s, n, answer.query)
<1>1. ~ (Size = 0 /\ results = <<>>)
  OBVIOUS
<1>2. /\ answer.raw = heap[0] /\ Exact(answer.raw) /\ NewVectorOK(answer.raw)
      /\ answer.query = Normalize(answer.raw)
      /\ Len(answer.query) = config.dimension
  BY DEF Returned
<1>3. Magnitude(answer.raw) > 0 /\ Magnitude(answer.raw) <= MaxFloat
  BY <1>2, NewVectorMakes DEF UnitInv
<1>4. Unit(answer.query)
  BY <1>2, <1>3, NormalizeUnit
<1>5. \A id \in DOMAIN vectors : /\ Value(id) = heap[id] /\ Unit(heap[id])
                                 /\ Len(heap[id]) = Len(answer.query)
  BY <1>2, StoredUnit DEF Value, IndexInv
<1> QED
  BY <1>1, <1>2, <1>3, <1>4, <1>5, Shape

(* A ranking under one metric is one under each other: the code may answer *)
(* Cosine with the dot product, as long as every stored vector and every   *)
(* query is a unit vector (vec_math.go:38).                                *)
THEOREM AnyMetricRanks ==
    ASSUME FiniteMagnitudes
    PROVE  Spec => []MetricsAgree
<1>1. ASSUME IndexInv, Returned, UnitInv
      PROVE  MetricsAgree
  <2> SUFFICES ASSUME Answered,
                      NEW metric \in {"Cosine", "Dot", "Euclidean"},
                      NEW p \in DOMAIN results, NEW q \in DOMAIN results, p < q
               PROVE  ScoreBy(metric, Value(results[p].id), answer.query)
                        >= ScoreBy(metric, Value(results[q].id), answer.query)
    BY DEF MetricsAgree
  <2>1. results # <<>>
    OBVIOUS
  <2>2. PICK s, n : Ranks(s, n, answer.query)
    BY <1>1, <2>1, AnswerShape
  <2>3. Size \in Nat
    BY <1>1, <2>1, AnswerShape
  <2> DEFINE u == heap[s[p]]
             v == heap[s[q]]
  <2>4. /\ p \in 1 .. Size /\ q \in 1 .. Size
        /\ results[p].id = s[p] /\ results[q].id = s[q]
        /\ s[p] \in DOMAIN vectors /\ s[q] \in DOMAIN vectors
        /\ Score(s[p], answer.query) >= Score(s[q], answer.query)
    <3>1. n \in 1 .. Size /\ p \in 1 .. n /\ q \in 1 .. n
      BY <2>2 DEF Ranks
    <3>2. p \in 1 .. Size /\ q \in 1 .. Size
      BY <2>3, <3>1
    <3> QED
      BY <2>2, <3>1, <3>2 DEF Ranks
  <2>5. /\ Value(s[p]) = u /\ Value(s[q]) = v /\ Unit(u) /\ Unit(v)
        /\ Unit(answer.query)
        /\ Len(u) = Len(answer.query) /\ Len(v) = Len(answer.query)
    BY <1>1, <2>1, <2>4, AnswerShape
  <2>6. /\ DotProduct(u, answer.query) \in Int /\ DotProduct(v, answer.query) \in Int
        /\ Euclidean(u, answer.query) = 2 * DotProduct(u, answer.query) - 2 * (One * One)
        /\ Euclidean(v, answer.query) = 2 * DotProduct(v, answer.query) - 2 * (One * One)
    BY <2>5, EuclideanDot
  <2>7. One * One \in Int
    BY FloatAssumption
  <2>8. ScoreBy(config.metric, u, answer.query) >= ScoreBy(config.metric, v, answer.query)
    BY <2>4, <2>5 DEF Score
  <2> HIDE DEF u, v
  <2>9. DotProduct(u, answer.query) >= DotProduct(v, answer.query)
    BY <1>1, <2>6, <2>7, <2>8 DEF ScoreBy, Cosine, IndexInv
  <2>10. ScoreBy(metric, u, answer.query) >= ScoreBy(metric, v, answer.query)
    BY <2>6, <2>7, <2>9 DEF ScoreBy, Cosine
  <2> QED
    BY <2>4, <2>5, <2>10
<1>2. IndexInv /\ Returned /\ UnitInv => MetricsAgree
  BY <1>1
<1> QED
  BY <1>2, UnitAlways, PTL

(* A search in the direction of a stored vector answers with a vector of   *)
(* that direction first, under every metric, though callers pass vectors   *)
(* of any length: NewVector makes equal vectors of them (DESIGN.md:31).    *)
THEOREM SameDirectionFirst ==
    ASSUME FiniteMagnitudes
    PROVE  Spec => []ClosestFirst
<1>1. ASSUME IndexInv, Returned, UnitInv
      PROVE  ClosestFirst
  <2> SUFFICES ASSUME Answered, results # <<>>,
                      NEW id \in DOMAIN vectors, Parallel(from[id], answer.raw)
               PROVE  Parallel(from[results[1].id], answer.raw)
    BY DEF ClosestFirst
  <2> DEFINE q == answer.query
  <2>1. PICK s, n : Ranks(s, n, q)
    BY <1>1, AnswerShape
  <2>2. /\ Size \in Nat \ {0} /\ Unit(q) /\ q = Normalize(answer.raw)
        /\ Exact(answer.raw)
        /\ Magnitude(answer.raw) > 0 /\ Magnitude(answer.raw) <= MaxFloat
        /\ \A j \in DOMAIN vectors :
              Value(j) = heap[j] /\ Unit(heap[j]) /\ Len(heap[j]) = Len(q)
    BY <1>1, AnswerShape
  <2>3. \A j \in DOMAIN vectors :
           /\ Exact(from[j]) /\ heap[j] = Normalize(from[j])
           /\ Magnitude(from[j]) > 0 /\ Magnitude(from[j]) <= MaxFloat
    BY <1>1 DEF UnitInv
  <2> HIDE DEF q
  <2>4. heap[id] = q
    BY <2>2, <2>3, ParallelNormalize
  <2>5. /\ results[1].id = s[1] /\ s[1] \in DOMAIN vectors
        /\ 1 \in 1 .. Size
    BY <2>1, <2>2 DEF Ranks
  <2>6. PICK i \in 1 .. Size : s[i] = id
    <3>1. s \in Injection(1 .. Size, DOMAIN vectors)
      BY <2>1 DEF Ranks, Injection, IsInjective
    <3>2. Cardinality(1 .. Size) = Cardinality(DOMAIN vectors)
      BY <2>2, FS_Interval DEF Size
    <3>3. s \in Surjection(1 .. Size, DOMAIN vectors)
      BY <1>1, <3>1, <3>2, FS_Injection DEF IndexInv
    <3> QED
      BY <3>3 DEF Surjection
  <2> DEFINE u == heap[s[1]]
  <2>7. /\ DotProduct(u, q) \in Int /\ DotProduct(q, q) = One * One
        /\ Euclidean(u, q) = 2 * DotProduct(u, q) - 2 * (One * One)
        /\ Euclidean(q, q) = 2 * DotProduct(q, q) - 2 * (One * One)
        /\ One * One \in Int
    BY <2>2, <2>5, EuclideanDot, FloatAssumption DEF Unit
  <2>8. ScoreBy(config.metric, u, q) >= ScoreBy(config.metric, q, q)
    <3>1. i = 1 \/ 1 < i
      BY <2>6
    <3>2. CASE 1 < i
      BY <2>1, <2>2, <2>4, <2>5, <2>6, <3>2 DEF Ranks, Score
    <3>3. CASE i = 1
      <4>1. u = q
        BY <2>4, <2>6, <3>3
      <4>2. ScoreBy(config.metric, q, q) \in Int
        BY <1>1, <2>2, ScoreInt DEF IndexInv, Unit
      <4> QED
        BY <4>1, <4>2
    <3> QED
      BY <3>1, <3>2, <3>3
  <2>9. DotProduct(u, q) >= One * One
    BY <1>1, <2>7, <2>8 DEF ScoreBy, Cosine, IndexInv
  <2>10. u = q
    BY <2>2, <2>5, <2>9, Closest
  <2>11. Normalize(from[s[1]]) = Normalize(answer.raw)
    BY <2>2, <2>3, <2>5, <2>10
  <2> QED
    BY <2>2, <2>3, <2>5, <2>11, NormalizeParallel
<1>2. IndexInv /\ Returned /\ UnitInv => ClosestFirst
  BY <1>1
<1> QED
  BY <1>2, UnitAlways, PTL

=============================================================================
