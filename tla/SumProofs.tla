------------------------------ MODULE SumProofs ------------------------------
(***************************************************************************)
(* Induction over finite sets, and what it shows of sums over them; the    *)
(* larger and the smaller of two numbers.                                  *)
(*                                                                         *)
(* A property to be shown by induction is given as the set of what has it. *)
(***************************************************************************)
EXTENDS Integers, Sequences, FiniteSets, SequencesExt, FiniteSetsExt, Functions,
        FiniteSetTheorems, WellFoundedInduction, TLAPS

LEMMA NatSetInduction ==
  ASSUME NEW P, 0 \in P, \A n \in Nat : n \in P => n + 1 \in P
  PROVE  Nat \subseteq P
<1>. SUFFICES ASSUME Nat \ P # {}
              PROVE  FALSE
  OBVIOUS
<1> DEFINE T == Nat \ P
<1>1. PICK x \in T : \A y \in T : ~ (<<y, x>> \in OpToRel(<, Nat))
  BY WFMin, NatLessThanWellFounded, Zenon
<1>2. \A y \in T : ~ (y < x)
  BY <1>1, Zenon DEF OpToRel
<1>3. x # 0 /\ x - 1 \in Nat /\ x - 1 < x
  OBVIOUS
<1>4. x - 1 \in P
  BY <1>2, <1>3
<1>5. (x - 1) + 1 = x
  BY x \in Nat
<1>. QED
  BY <1>3, <1>4, <1>5

\* A set of subsets of S that has a set whenever it has those with one element less.
LEMMA SubsetInduction ==
  ASSUME NEW S, IsFiniteSet(S), NEW P,
         \A T \in SUBSET S : (\A x \in T : T \ {x} \in P) => T \in P
  PROVE  \A T \in SUBSET S : T \in P
<1> DEFINE Q == {n \in Nat : \A T \in SUBSET S : Cardinality(T) = n => T \in P}
<1>1. \A T \in SUBSET S : IsFiniteSet(T) /\ Cardinality(T) \in Nat
  BY FS_Subset, FS_CardinalityType
<1>2. 0 \in Q
  <2>. SUFFICES ASSUME NEW T \in SUBSET S, Cardinality(T) = 0
                PROVE  T \in P
    OBVIOUS
  <2>1. T = {}
    BY <1>1, FS_EmptySet
  <2>. QED
    BY <2>1
<1>3. ASSUME NEW n \in Nat, n \in Q
      PROVE  n + 1 \in Q
  <2>. SUFFICES ASSUME NEW T \in SUBSET S, Cardinality(T) = n + 1
                PROVE  T \in P
    BY <1>3
  <2>1. ASSUME NEW x \in T
        PROVE  T \ {x} \in P
    <3>1. Cardinality(T \ {x}) = Cardinality(T) - 1
      BY <1>1, FS_RemoveElement
    <3>. QED
      BY <1>3, <3>1
  <2>. QED
    BY <2>1
<1> HIDE DEF Q
<1>4. Nat \subseteq Q
  BY <1>2, <1>3, NatSetInduction
<1>. QED
  BY <1>1, <1>4 DEF Q

-----------------------------------------------------------------------------
(* The recursion behind a sum is well defined *)

Chosen(s) == CHOOSE x \in s : TRUE

\* What the sum of f over s is, if g has the sums over smaller sets
SumBody(f, g, s) == IF s = {} THEN 0 ELSE f[Chosen(s)] + g[s \ {Chosen(s)}]

IsSum(f, g, S) == g = [s \in SUBSET S |-> SumBody(f, g, s)]

LEMMA SumExists ==
  ASSUME NEW f, NEW S, IsFiniteSet(S)
  PROVE  \E g : IsSum(f, g, S)
<1> DEFINE UpTo(g, n) == /\ g = [s \in SUBSET S |-> g[s]]
                         /\ \A s \in SUBSET S : Cardinality(s) <= n => g[s] = SumBody(f, g, s)
           Q == {n \in Nat : \E g : UpTo(g, n)}
<1>1. \A s \in SUBSET S : IsFiniteSet(s) /\ Cardinality(s) \in Nat
  BY FS_Subset, FS_CardinalityType
<1>2. \A s \in SUBSET S : s # {} => Chosen(s) \in s
  BY DEF Chosen
<1>3. \A s \in SUBSET S : s # {} => /\ s \ {Chosen(s)} \in SUBSET S
                                    /\ Cardinality(s \ {Chosen(s)}) = Cardinality(s) - 1
  BY <1>1, <1>2, FS_RemoveElement
<1>4. 0 \in Q
  <2> DEFINE g == [s \in SUBSET S |-> 0]
  <2>1. \A s \in SUBSET S : Cardinality(s) <= 0 => s = {}
    BY <1>1, FS_EmptySet
  <2>2. UpTo(g, 0)
    BY <2>1 DEF SumBody
  <2>. QED
    BY <2>2
<1>5. ASSUME NEW n \in Nat, n \in Q
      PROVE  n + 1 \in Q
  <2>1. PICK g : UpTo(g, n)
    BY <1>5
  <2> DEFINE h == [s \in SUBSET S |-> IF Cardinality(s) <= n THEN g[s] ELSE SumBody(f, g, s)]
  <2>2. ASSUME NEW s \in SUBSET S, Cardinality(s) <= n + 1
        PROVE  h[s] = SumBody(f, h, s)
    <3>1. h[s] = SumBody(f, g, s)
      BY <2>1
    <3>2. CASE s = {}
      BY <3>1, <3>2 DEF SumBody
    <3>3. CASE s # {}
      <4>1. s \ {Chosen(s)} \in SUBSET S /\ Cardinality(s \ {Chosen(s)}) <= n
        BY <1>1, <1>3, <2>2, <3>3
      <4>2. h[s \ {Chosen(s)}] = g[s \ {Chosen(s)}]
        BY <4>1
      <4>. QED
        BY <3>1, <3>3, <4>2 DEF SumBody
    <3>. QED
      BY <3>2, <3>3
  <2>3. h = [s \in SUBSET S |-> h[s]]
    OBVIOUS
  <2> HIDE DEF h
  <2>4. UpTo(h, n + 1)
    BY <2>2, <2>3
  <2> HIDE DEF UpTo
  <2>. QED
    BY <2>4
<1> HIDE DEF Q
<1>6. Nat \subseteq Q
  BY <1>4, <1>5, NatSetInduction
<1>7. Cardinality(S) \in Q
  BY <1>1, <1>6
<1>8. PICK g : UpTo(g, Cardinality(S))
  BY <1>7 DEF Q
<1>9. \A s \in SUBSET S : Cardinality(s) <= Cardinality(S)
  BY FS_Subset
<1>10. \A s \in SUBSET S : g[s] = SumBody(f, g, s)
  BY <1>8, <1>9
<1>11. IsSum(f, g, S)
  BY <1>8, <1>10 DEF IsSum
<1>. QED
  BY <1>11

LEMMA SumsAgree ==
  ASSUME NEW f, NEW S, IsFiniteSet(S), NEW g, IsSum(f, g, S),
         NEW T \in SUBSET S, NEW h, IsSum(f, h, T)
  PROVE  g[T] = h[T]
<1> DEFINE P == {s \in SUBSET T : g[s] = h[s]}
<1>1. IsFiniteSet(T)
  BY FS_Subset
<1>2. ASSUME NEW s \in SUBSET T, \A x \in s : s \ {x} \in P
      PROVE  s \in P
  <2>1. g[s] = SumBody(f, g, s) /\ h[s] = SumBody(f, h, s)
    BY DEF IsSum
  <2>2. s # {} => Chosen(s) \in s
    BY DEF Chosen
  <2>3. SumBody(f, g, s) = SumBody(f, h, s)
    BY <1>2, <2>2 DEF SumBody
  <2>. QED
    BY <2>1, <2>3
<1> HIDE DEF P
<1>3. T \in P
  BY <1>1, <1>2, SubsetInduction
<1>. QED
  BY <1>3 DEF P

LEMMA SumIs ==
  ASSUME NEW f, NEW S, IsFiniteSet(S)
  PROVE  \E g : IsSum(f, g, S) /\ SumFunctionOnSet(f, S) = g[S]
<1> DEFINE g == CHOOSE g : IsSum(f, g, S)
<1>1. IsSum(f, g, S)
  BY SumExists
<1>2. SumFunctionOnSet(f, S) =
        (CHOOSE iter : iter = [s \in SUBSET S |->
            IF s = {} THEN 0
            ELSE f[CHOOSE x \in s : TRUE] + iter[s \ {CHOOSE x \in s : TRUE}]])[S]
  BY DEF SumFunctionOnSet, FoldFunctionOnSet, MapThenFoldSet
<1>3. SumFunctionOnSet(f, S) = g[S]
  BY <1>2, Zenon DEF IsSum, SumBody, Chosen
<1> HIDE DEF g
<1>. QED
  BY <1>1, <1>3

-----------------------------------------------------------------------------
(* Sums *)

LEMMA SumOfNone ==
  ASSUME NEW f
  PROVE  SumFunctionOnSet(f, {}) = 0
<1>1. PICK g : IsSum(f, g, {}) /\ SumFunctionOnSet(f, {}) = g[{}]
  BY SumIs, FS_EmptySet
<1>. QED
  BY <1>1 DEF IsSum, SumBody

LEMMA SumStep ==
  ASSUME NEW f, NEW S, IsFiniteSet(S), S # {}
  PROVE  /\ Chosen(S) \in S
         /\ SumFunctionOnSet(f, S) = f[Chosen(S)] + SumFunctionOnSet(f, S \ {Chosen(S)})
<1> DEFINE T == S \ {Chosen(S)}
<1>1. Chosen(S) \in S
  BY DEF Chosen
<1>2. PICK g : IsSum(f, g, S) /\ SumFunctionOnSet(f, S) = g[S]
  BY SumIs
<1>3. g[S] = f[Chosen(S)] + g[T]
  BY <1>2 DEF IsSum, SumBody
<1>4. IsFiniteSet(T) /\ T \in SUBSET S
  BY FS_Subset
<1> HIDE DEF T
<1>5. PICK h : IsSum(f, h, T) /\ SumFunctionOnSet(f, T) = h[T]
  BY <1>4, SumIs
<1>6. g[T] = h[T]
  BY <1>2, <1>4, <1>5, SumsAgree
<1>. QED
  BY <1>1, <1>2, <1>3, <1>5, <1>6 DEF T

\* A sum of natural numbers; it is 0 only if all of them are.
LEMMA SumNat ==
  ASSUME NEW S, IsFiniteSet(S), NEW f, \A i \in S : f[i] \in Nat
  PROVE  /\ SumFunctionOnSet(f, S) \in Nat
         /\ SumFunctionOnSet(f, S) = 0 => \A i \in S : f[i] = 0
<1> DEFINE P == {T \in SUBSET S : /\ SumFunctionOnSet(f, T) \in Nat
                                  /\ SumFunctionOnSet(f, T) = 0 => \A i \in T : f[i] = 0}
<1>1. ASSUME NEW T \in SUBSET S, \A x \in T : T \ {x} \in P
      PROVE  T \in P
  <2>1. CASE T = {}
    BY <2>1, SumOfNone
  <2>2. CASE T # {}
    <3> DEFINE x == Chosen(T)
    <3>1. IsFiniteSet(T)
      BY FS_Subset
    <3>2. x \in T /\ SumFunctionOnSet(f, T) = f[x] + SumFunctionOnSet(f, T \ {x})
      BY <2>2, <3>1, SumStep
    <3> HIDE DEF x
    <3>3. T \ {x} \in P /\ f[x] \in Nat
      BY <1>1, <3>2
    <3>. QED
      BY <3>2, <3>3
  <2>. QED
    BY <2>1, <2>2
<1> HIDE DEF P
<1>2. S \in P
  <2>1. \A T \in SUBSET S : T \in P
    BY <1>1, SubsetInduction, Zenon
  <2>. QED
    BY <2>1
<1>. QED
  BY <1>2 DEF P

\* Smaller numbers have a smaller sum.
LEMMA SumMonotonic ==
  ASSUME NEW S, IsFiniteSet(S), NEW f, NEW g,
         \A i \in S : f[i] \in Int /\ g[i] \in Int /\ f[i] <= g[i]
  PROVE  /\ SumFunctionOnSet(f, S) \in Int /\ SumFunctionOnSet(g, S) \in Int
         /\ SumFunctionOnSet(f, S) <= SumFunctionOnSet(g, S)
         /\ \A i \in S : f[i] < g[i] => SumFunctionOnSet(f, S) < SumFunctionOnSet(g, S)
<1> DEFINE F(T) == SumFunctionOnSet(f, T)
           G(T) == SumFunctionOnSet(g, T)
           P == {T \in SUBSET S : /\ F(T) \in Int /\ G(T) \in Int /\ F(T) <= G(T)
                                  /\ \A i \in T : f[i] < g[i] => F(T) < G(T)}
<1>1. ASSUME NEW T \in SUBSET S, \A x \in T : T \ {x} \in P
      PROVE  T \in P
  <2>1. CASE T = {}
    <3>1. F(T) = 0 /\ G(T) = 0
      BY <2>1, SumOfNone
    <3> HIDE DEF F, G
    <3>. QED
      BY <2>1, <3>1
  <2>2. CASE T # {}
    <3> DEFINE x == Chosen(T)
               a == F(T \ {x})
               b == G(T \ {x})
    <3>1. IsFiniteSet(T)
      BY FS_Subset
    <3>2. x \in T /\ F(T) = f[x] + a /\ G(T) = g[x] + b
      BY <2>2, <3>1, SumStep
    <3> HIDE DEF x
    <3>3. /\ f[x] \in Int /\ g[x] \in Int /\ f[x] <= g[x]
          /\ a \in Int /\ b \in Int /\ a <= b
          /\ \A i \in T \ {x} : f[i] < g[i] => a < b
      BY <1>1, <3>2
    <3> HIDE DEF a, b, F, G
    <3>4. F(T) \in Int /\ G(T) \in Int /\ F(T) <= G(T)
      BY <3>2, <3>3
    <3>5. ASSUME NEW i \in T, f[i] < g[i]
          PROVE  F(T) < G(T)
      <4>1. CASE i = x
        BY <3>2, <3>3, <3>5, <4>1
      <4>2. CASE i # x
        BY <3>2, <3>3, <3>5, <4>2
      <4>. QED
        BY <4>1, <4>2
    <3>. QED
      BY <3>4, <3>5
  <2>. QED
    BY <2>1, <2>2
<1> HIDE DEF P
<1>2. S \in P
  <2>1. \A T \in SUBSET S : T \in P
    BY <1>1, SubsetInduction, Zenon
  <2>. QED
    BY <2>1
<1>. QED
  BY <1>2 DEF P

\* The step of the Cauchy-Schwarz inequality: a and b are the sums of n numbers and of their
\* squares, v is one more number.
LEMMA OneMoreSquare ==
  ASSUME NEW n \in Nat, NEW a \in Int, NEW b \in Int, NEW v \in Int,
         a * a <= n * b, n = 0 => a = 0 /\ b = 0
  PROVE  (v + a) * (v + a) <= (n + 1) * (v * v + b)
<1> DEFINE gap == n * (v * v) + b - 2 * (v * a)
<1>1. gap \in Int /\ gap >= 0
  <2>1. CASE n = 0
    BY <2>1
  <2>2. CASE n > 0
    <3> DEFINE d == n * v - a
    <3>1. d \in Int /\ d * d >= 0
      OBVIOUS
    <3>2. n * gap = d * d + (n * b - a * a)
      OBVIOUS
    <3>3. n * gap >= 0
      <4> HIDE DEF gap, d
      <4>. QED
        BY <3>1, <3>2
    <3>4. gap \in Int
      OBVIOUS
    <3> HIDE DEF gap
    <3>. QED
      BY <2>2, <3>3, <3>4
  <2>. QED
    BY <2>1, <2>2
<1>2. (n + 1) * (v * v + b) - (v + a) * (v + a) = gap + (n * b - a * a)
  OBVIOUS
<1> HIDE DEF gap
<1>. QED
  BY <1>1, <1>2

\* Cauchy and Schwarz: the square of a sum is at most the sum of the squares, that many times.
LEMMA SumSquares ==
  ASSUME NEW S, IsFiniteSet(S), NEW f, NEW g,
         \A i \in S : f[i] \in Int /\ g[i] = f[i] * f[i]
  PROVE  /\ SumFunctionOnSet(f, S) \in Int /\ SumFunctionOnSet(g, S) \in Int
         /\ SumFunctionOnSet(f, S) * SumFunctionOnSet(f, S)
              <= Cardinality(S) * SumFunctionOnSet(g, S)
<1> DEFINE F(T) == SumFunctionOnSet(f, T)
           G(T) == SumFunctionOnSet(g, T)
           P == {T \in SUBSET S : /\ F(T) \in Int /\ G(T) \in Int
                                  /\ F(T) * F(T) <= Cardinality(T) * G(T)}
<1>1. F({}) = 0 /\ G({}) = 0 /\ Cardinality({}) = 0
  BY SumOfNone, FS_EmptySet
<1>2. ASSUME NEW T \in SUBSET S, \A x \in T : T \ {x} \in P
      PROVE  T \in P
  <2>1. CASE T = {}
    <3> HIDE DEF F, G
    <3>. QED
      BY <1>1, <2>1
  <2>2. CASE T # {}
    <3> DEFINE x == Chosen(T)
               a == F(T \ {x})
               b == G(T \ {x})
               n == Cardinality(T \ {x})
    <3>1. IsFiniteSet(T)
      BY FS_Subset
    <3>2. x \in T /\ F(T) = f[x] + a /\ G(T) = g[x] + b
      BY <2>2, <3>1, SumStep
    <3> HIDE DEF x
    <3>3. f[x] \in Int /\ g[x] = f[x] * f[x]
      BY <3>2
    <3>4. IsFiniteSet(T \ {x})
      BY <3>1, FS_Subset
    <3>5. n \in Nat /\ Cardinality(T) = n + 1 /\ (n = 0 => T \ {x} = {})
      <4>1. n \in Nat
        BY <3>4, FS_CardinalityType
      <4>2. Cardinality(T) \in Nat
        BY <3>1, FS_CardinalityType
      <4>3. n = Cardinality(T) - 1
        BY <3>1, <3>2, FS_RemoveElement
      <4>4. n = 0 => T \ {x} = {}
        BY <3>4, FS_EmptySet
      <4> HIDE DEF n
      <4>. QED
        BY <4>1, <4>2, <4>3, <4>4
    <3>6. a \in Int /\ b \in Int /\ a * a <= n * b
      BY <1>2, <3>2
    <3>7. n = 0 => a = 0 /\ b = 0
      BY <1>1, <3>5, Zenon
    <3> HIDE DEF a, b, n, F, G
    <3>8. (f[x] + a) * (f[x] + a) <= (n + 1) * (f[x] * f[x] + b)
      BY <3>3, <3>5, <3>6, <3>7, OneMoreSquare
    <3>9. F(T) \in Int /\ G(T) \in Int
      BY <3>2, <3>3, <3>6
    <3>10. F(T) * F(T) <= Cardinality(T) * G(T)
      BY <3>2, <3>3, <3>5, <3>8, Zenon
    <3>. QED
      BY <3>9, <3>10
  <2>. QED
    BY <2>1, <2>2
<1> HIDE DEF P
<1>3. S \in P
  <2>1. \A T \in SUBSET S : T \in P
    BY <1>2, SubsetInduction, Zenon
  <2>. QED
    BY <2>1
<1>. QED
  BY <1>3 DEF P

-----------------------------------------------------------------------------
(* Two numbers *)

LEMMA MaxOfTwo ==
  ASSUME NEW a \in Int, NEW b \in Int
  PROVE  Max({a, b}) \in {a, b} /\ Max({a, b}) >= a /\ Max({a, b}) >= b
<1> DEFINE S == {a, b}
           IsMax(x) == x \in S /\ \A y \in S : x >= y
<1>1. \E x : IsMax(x)
  <2>1. CASE a <= b
    <3>. QED BY <2>1, IsMax(b)
  <2>2. CASE b <= a
    <3>. QED BY <2>2, IsMax(a)
  <2>. QED
    BY <2>1, <2>2
<1>2. Max(S) = CHOOSE x : IsMax(x)
  BY DEF Max
<1>3. IsMax(Max(S))
  <2> HIDE DEF IsMax
  <2>. QED
    BY <1>1, <1>2
<1>. QED
  BY <1>3

LEMMA MinOfTwo ==
  ASSUME NEW a \in Int, NEW b \in Int
  PROVE  Min({a, b}) \in {a, b} /\ Min({a, b}) <= a /\ Min({a, b}) <= b
<1> DEFINE S == {a, b}
           IsMin(x) == x \in S /\ \A y \in S : x =< y
<1>1. \E x : IsMin(x)
  <2>1. CASE a <= b
    <3>. QED BY <2>1, IsMin(a)
  <2>2. CASE b <= a
    <3>. QED BY <2>2, IsMin(b)
  <2>. QED
    BY <2>1, <2>2
<1>2. Min(S) = CHOOSE x : IsMin(x)
  BY DEF Min
<1>3. IsMin(Min(S))
  <2> HIDE DEF IsMin
  <2>. QED
    BY <1>1, <1>2
<1>. QED
  BY <1>3

\* Every set of natural numbers has a least one, and a largest if it is bounded.
LEMMA LeastExists ==
  ASSUME NEW S, S \subseteq Nat, S # {}
  PROVE  \E x \in S : \A y \in S : x <= y
<1>1. PICK x \in S : \A y \in S : ~ (<<y, x>> \in OpToRel(<, Nat))
  BY WFMin, NatLessThanWellFounded, Zenon
<1>2. \A y \in S : ~ (y < x)
  BY <1>1, Zenon DEF OpToRel
<1>. QED
  BY <1>2

LEMMA MinIn ==
  ASSUME NEW S, S \subseteq Nat, S # {}
  PROVE  Min(S) \in S
<1> DEFINE IsMin(x) == x \in S /\ \A y \in S : x =< y
<1>1. \E x : IsMin(x)
  BY LeastExists
<1>2. Min(S) = CHOOSE x : IsMin(x)
  BY DEF Min
<1>3. IsMin(Min(S))
  <2> HIDE DEF IsMin
  <2>. QED
    BY <1>1, <1>2
<1>. QED
  BY <1>3

LEMMA MaxIn ==
  ASSUME NEW n \in Nat, NEW S, S \subseteq 0 .. n, S # {}
  PROVE  Max(S) \in S
<1> DEFINE T == {k \in 0 .. n : n - k \in S}
           IsMax(x) == x \in S /\ \A y \in S : x >= y
<1>1. PICK s \in S : TRUE
  OBVIOUS
<1>2. n - s \in T
  BY <1>1
<1>3. T \subseteq Nat /\ T # {}
  BY <1>2
<1>4. PICK k \in T : \A j \in T : k <= j
  <2> HIDE DEF T
  <2>. QED
    BY <1>3, LeastExists
<1>5. IsMax(n - k)
  <2>1. n - k \in S /\ k \in 0 .. n
    BY <1>4
  <2>2. ASSUME NEW y \in S
        PROVE  n - k >= y
    <3>1. y \in 0 .. n /\ n - (n - y) = y
      OBVIOUS
    <3>2. n - y \in T
      BY <3>1
    <3>3. k <= n - y
      <4> HIDE DEF T
      <4>. QED
        BY <1>4, <3>2
    <3>. QED
      BY <2>1, <3>1, <3>3
  <2>. QED
    BY <2>1, <2>2
<1>6. Max(S) = CHOOSE x : IsMax(x)
  BY DEF Max
<1>7. IsMax(Max(S))
  <2> HIDE DEF IsMax
  <2>. QED
    BY <1>5, <1>6
<1>. QED
  BY <1>7
-----------------------------------------------------------------------------
(* Sequences that list a set *)

\* Sequence s holds the members of set S once each.
Lists(s, S) == /\ \A i, j \in 1 .. Len(s) : s[i] = s[j] => i = j
               /\ \A i \in 1 .. Len(s) : s[i] \in S
               /\ \A x \in S : \E i \in 1 .. Len(s) : s[i] = x

\* A list of S without repetitions has S as its range, and as many entries as S.
LEMMA ListsRange ==
  ASSUME NEW S, NEW T, NEW s \in Seq(T), Lists(s, S)
  PROVE  Range(s) = S /\ Len(s) = Cardinality(Range(s))
<1>1. DOMAIN s = 1 .. Len(s) /\ Len(s) \in Nat
  OBVIOUS
<1>2. Range(s) = S
  BY <1>1 DEF Lists, Range
<1>3. s \in Bijection(1 .. Len(s), S)
  BY <1>1, <1>2 DEF Lists, Bijection, Injection, Surjection, IsInjective, Range
<1>4. Cardinality(S) = Len(s)
  BY <1>1, <1>3, FS_CountingElements DEF ExistsBijection
<1>. QED
  BY <1>2, <1>4

LEMMA AppendLists ==
  ASSUME NEW S, NEW T, S \subseteq T, NEW s \in Seq(T), Lists(s, S), NEW c \in T, c \notin S
  PROVE  Append(s, c) \in Seq(T) /\ Lists(Append(s, c), S \cup {c})
<1> DEFINE a == Append(s, c)
<1>1. /\ a \in Seq(T) /\ Len(a) = Len(s) + 1 /\ Len(s) \in Nat
      /\ a[Len(s) + 1] = c
      /\ \A i \in 1 .. Len(s) : a[i] = s[i]
  OBVIOUS
<1> HIDE DEF a
<1>2. \A i \in 1 .. Len(a) : i \in 1 .. Len(s) \/ i = Len(s) + 1
  BY <1>1
<1>3. ASSUME NEW i \in 1 .. Len(a), NEW j \in 1 .. Len(a), a[i] = a[j] PROVE i = j
  BY <1>1, <1>2, <1>3 DEF Lists
<1>4. \A i \in 1 .. Len(a) : a[i] \in S \cup {c}
  BY <1>1, <1>2 DEF Lists
<1>5. ASSUME NEW x \in S \cup {c} PROVE \E i \in 1 .. Len(a) : a[i] = x
  <2>1. CASE x = c
    <3>1. Len(s) + 1 \in 1 .. Len(a)
      BY <1>1
    <3>. QED
      BY <1>1, <2>1, <3>1
  <2>2. CASE x \in S
    <3>1. PICK i \in 1 .. Len(s) : s[i] = x
      BY <2>2 DEF Lists
    <3>2. i \in 1 .. Len(a) /\ a[i] = x
      BY <1>1, <3>1
    <3>. QED
      BY <3>2
  <2>. QED
    BY <2>1, <2>2
<1>6. Lists(a, S \cup {c})
  BY <1>3, <1>4, <1>5 DEF Lists
<1>. QED
  BY <1>1, <1>6 DEF a

LEMMA RemoveAtLists ==
  ASSUME NEW S, NEW T, S \subseteq T, NEW s \in Seq(T), Lists(s, S), NEW k \in 1 .. Len(s)
  PROVE  RemoveAt(s, k) \in Seq(T) /\ Lists(RemoveAt(s, k), S \ {s[k]})
<1> DEFINE r == RemoveAt(s, k)
<1>1. /\ r \in Seq(T) /\ Len(r) = Len(s) - 1 /\ Len(s) \in Nat
      /\ \A i \in 1 .. Len(r) : r[i] = IF i < k THEN s[i] ELSE s[i + 1]
  <2> DEFINE a == SubSeq(s, 1, k - 1)
             b == SubSeq(s, k + 1, Len(s))
  <2>1. a \in Seq(T) /\ Len(a) = k - 1 /\ \A i \in 1 .. k - 1 : a[i] = s[i]
    OBVIOUS
  <2>2. b \in Seq(T) /\ Len(b) = Len(s) - k /\ \A i \in 1 .. Len(s) - k : b[i] = s[k + i]
    OBVIOUS
  <2>3. r = a \o b
    BY DEF RemoveAt
  <2> HIDE DEF a, b, r
  <2>4. r \in Seq(T) /\ Len(r) = Len(s) - 1
    BY <2>1, <2>2, <2>3
  <2>5. ASSUME NEW i \in 1 .. Len(r)
        PROVE  r[i] = IF i < k THEN s[i] ELSE s[i + 1]
    <3>1. CASE i < k
      BY <2>1, <2>2, <2>3, <2>4, <3>1
    <3>2. CASE i >= k
      <4>1. i - (k - 1) \in 1 .. Len(s) - k
        BY <2>4, <3>2
      <4>2. r[i] = b[i - (k - 1)]
        BY <2>1, <2>2, <2>3, <2>4, <3>2
      <4>3. k + (i - (k - 1)) = i + 1
        OBVIOUS
      <4>. QED
        BY <2>2, <3>2, <4>1, <4>2, <4>3
    <3>. QED
      BY <3>1, <3>2
  <2>. QED
    BY <2>4, <2>5
<1> HIDE DEF r
<1>2. ASSUME NEW i \in 1 .. Len(r)
      PROVE  \E n \in 1 .. Len(s) : /\ n = (IF i < k THEN i ELSE i + 1) /\ n # k /\ r[i] = s[n]
  BY <1>1
<1>3. ASSUME NEW i \in 1 .. Len(r), NEW j \in 1 .. Len(r), r[i] = r[j] PROVE i = j
  <2>1. PICK n \in 1 .. Len(s) : n = (IF i < k THEN i ELSE i + 1) /\ r[i] = s[n]
    BY <1>2
  <2>2. PICK m \in 1 .. Len(s) : m = (IF j < k THEN j ELSE j + 1) /\ r[j] = s[m]
    BY <1>2
  <2>3. n = m
    BY <1>3, <2>1, <2>2 DEF Lists
  <2>. QED
    BY <1>1, <2>1, <2>2, <2>3
<1>4. ASSUME NEW i \in 1 .. Len(r) PROVE r[i] \in S \ {s[k]}
  BY <1>2 DEF Lists
<1>5. ASSUME NEW x \in S \ {s[k]} PROVE \E i \in 1 .. Len(r) : r[i] = x
  <2>1. PICK n \in 1 .. Len(s) : s[n] = x
    BY DEF Lists
  <2>2. CASE n < k
    <3>1. n \in 1 .. Len(r) /\ r[n] = x
      BY <1>1, <2>1, <2>2
    <3>. QED
      BY <3>1
  <2>3. CASE n > k
    <3>1. n - 1 \in 1 .. Len(r) /\ r[n - 1] = s[n]
      BY <1>1, <2>3
    <3>. QED
      BY <2>1, <3>1
  <2>4. n # k
    BY <2>1
  <2>. QED
    BY <2>2, <2>3, <2>4
<1>6. Lists(r, S \ {s[k]})
  BY <1>3, <1>4, <1>5 DEF Lists
<1>. QED
  BY <1>1, <1>6 DEF r

LEMMA InsertAtLists ==
  ASSUME NEW S, NEW T, S \subseteq T, NEW s \in Seq(T), Lists(s, S),
         NEW k \in 1 .. Len(s) + 1, NEW c \in T, c \notin S
  PROVE  InsertAt(s, k, c) \in Seq(T) /\ Lists(InsertAt(s, k, c), S \cup {c})
<1> DEFINE r == InsertAt(s, k, c)
           \* Where entry i of r was in s
           old(i) == IF i < k THEN i ELSE i - 1
<1>1. /\ r \in Seq(T) /\ Len(r) = Len(s) + 1 /\ Len(s) \in Nat /\ r[k] = c
      /\ \A i \in 1 .. Len(r) : i # k => r[i] = s[old(i)]
  <2> DEFINE a == SubSeq(s, 1, k - 1)
             b == SubSeq(s, k, Len(s))
             d == a \o <<c>>
  <2>1. a \in Seq(T) /\ Len(a) = k - 1 /\ \A i \in 1 .. k - 1 : a[i] = s[i]
    OBVIOUS
  <2>2. /\ b \in Seq(T) /\ Len(b) = Len(s) - (k - 1)
        /\ \A i \in 1 .. Len(s) - (k - 1) : b[i] = s[k + i - 1]
    OBVIOUS
  <2>3. r = d \o b
    BY DEF InsertAt
  <2> HIDE DEF a, b
  <2>4. /\ d \in Seq(T) /\ Len(d) = k /\ d[k] = c
        /\ \A i \in 1 .. k - 1 : d[i] = s[i]
    <3>1. d = Append(a, c)
      BY <2>1
    <3> HIDE DEF d
    <3>. QED
      BY <2>1, <3>1
  <2> HIDE DEF d, r
  <2>5. r \in Seq(T) /\ Len(r) = Len(s) + 1 /\ Len(s) \in Nat
    <3>1. Len(s) \in Nat /\ k \in Nat
      OBVIOUS
    <3>2. r \in Seq(T) /\ Len(r) = Len(d) + Len(b)
      BY <2>2, <2>3, <2>4
    <3>3. Len(d) = k /\ Len(b) = Len(s) - (k - 1)
      BY <2>2, <2>4
    <3>. QED
      BY <3>1, <3>2, <3>3
  <2>6. \A i \in 1 .. k : r[i] = d[i]
    BY <2>2, <2>3, <2>4
  <2>7. ASSUME NEW i \in 1 .. Len(r), i # k
        PROVE  r[i] = s[old(i)]
    <3>1. CASE i < k
      BY <2>4, <2>6, <3>1
    <3>2. CASE i > k
      <4>1. i - k \in 1 .. Len(s) - (k - 1)
        BY <2>5, <3>2
      <4>2. r[i] = b[i - k]
        BY <2>2, <2>3, <2>4, <2>5, <3>2
      <4>3. k + (i - k) - 1 = i - 1
        OBVIOUS
      <4>. QED
        BY <2>2, <3>2, <4>1, <4>2, <4>3
    <3>. QED
      BY <2>7, <3>1, <3>2
  <2>. QED
    BY <2>4, <2>5, <2>6, <2>7
<1> HIDE DEF r
<1>2. \A i \in 1 .. Len(r) : i # k => old(i) \in 1 .. Len(s)
  BY <1>1
<1>3. ASSUME NEW i \in 1 .. Len(r), NEW j \in 1 .. Len(r), r[i] = r[j] PROVE i = j
  <2>1. CASE i # k /\ j # k
    <3>1. s[old(i)] = s[old(j)]
      BY <1>1, <1>3, <2>1
    <3>2. old(i) = old(j)
      BY <1>2, <2>1, <3>1 DEF Lists
    <3>. QED
      BY <2>1, <3>2
  <2>2. CASE i = k \/ j = k
    <3>1. \A m \in 1 .. Len(r) : m # k => r[m] \in S
      BY <1>1, <1>2 DEF Lists
    <3>. QED
      BY <1>1, <1>3, <2>2, <3>1
  <2>. QED
    BY <2>1, <2>2
<1>4. ASSUME NEW i \in 1 .. Len(r) PROVE r[i] \in S \cup {c}
  BY <1>1, <1>2 DEF Lists
<1>5. ASSUME NEW x \in S \cup {c} PROVE \E i \in 1 .. Len(r) : r[i] = x
  <2>1. CASE x = c
    BY <1>1, <2>1
  <2>2. CASE x \in S
    <3>1. PICK i \in 1 .. Len(s) : s[i] = x
      BY <2>2 DEF Lists
    <3>2. CASE i < k
      <4>1. i \in 1 .. Len(r) /\ i # k /\ old(i) = i
        BY <1>1, <3>2
      <4>. QED
        BY <1>1, <3>1, <4>1
    <3>3. CASE i >= k
      <4>1. i + 1 \in 1 .. Len(r) /\ i + 1 # k /\ old(i + 1) = i
        BY <1>1, <3>3
      <4>. QED
        BY <1>1, <3>1, <4>1
    <3>. QED
      BY <3>2, <3>3
  <2>. QED
    BY <2>1, <2>2
<1>6. Lists(r, S \cup {c})
  BY <1>3, <1>4, <1>5 DEF Lists
<1>. QED
  BY <1>1, <1>6 DEF r

=============================================================================
