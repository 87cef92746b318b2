-------------------------- MODULE RecordDataProofs --------------------------
(***************************************************************************)
(* Facts about the conversions of RecordData, for every address and value: *)
(* sums over finite sets, powers of two, and what a record reads from the  *)
(* bytes that carry a value to it.                                         *)
(***************************************************************************)
EXTENDS RecordData, FiniteSetTheorems, WellFoundedInduction, TLAPS

-----------------------------------------------------------------------------
(* Induction, in a form without a predicate: over a set of numbers.        *)

Less == {p \in Nat \X Nat : p[1] < p[2]}

LEMMA LessWellFounded == IsWellFoundedOn(Less, Nat)
  BY NatLessThanWellFounded DEF OpToRel, Less

LEMMA InductionOverNat ==
  ASSUME NEW S, 0 \in S, \A n \in Nat : n \in S => n + 1 \in S
  PROVE  Nat \subseteq S
<1> DEFINE T == Nat \ S
<1>1. SUFFICES ASSUME T # {} PROVE FALSE
  OBVIOUS
<1>2. PICK x \in T : \A y \in T : ~(<<y, x>> \in Less)
  <2>1. T \subseteq Nat
    OBVIOUS
  <2> HIDE DEF T
  <2> QED BY <1>1, <2>1, LessWellFounded, WFMin
<1>3. x \in Nat /\ x # 0
  OBVIOUS
<1>4. x - 1 \in Nat /\ x - 1 < x /\ (x - 1) + 1 = x
  BY <1>3
<1>5. <<x - 1, x>> \in Less
  BY <1>3, <1>4 DEF Less
<1>6. x - 1 \in S
  BY <1>2, <1>4, <1>5
<1> QED BY <1>4, <1>6

-----------------------------------------------------------------------------
(* Sums.  SumFunctionOnSet is a recursive function over the subsets of its  *)
(* set of indices, which takes away some element at each step.             *)

Any(s) == CHOOSE x \in s : TRUE

\* f computes the sums of g over the sets in D.
Sums(f, D, g) == f = [s \in D |-> IF s = {} THEN 0 ELSE g[Any(s)] + f[s \ {Any(s)}]]

LEMMA AnyOf == \A s : s # {} => Any(s) \in s
  BY DEF Any

\* There is such a function, by induction on the size of the sets.
LEMMA SumsExist ==
  ASSUME NEW S, IsFiniteSet(S), NEW g
  PROVE  \E f : Sums(f, SUBSET S, g)
<1> DEFINE D(n) == {s \in SUBSET S : Cardinality(s) <= n}
           Good == {n \in Nat : \E f : Sums(f, D(n), g)}
<1>0. \A s \in SUBSET S : IsFiniteSet(s) /\ Cardinality(s) \in Nat /\ Cardinality(s) <= Cardinality(S)
  BY FS_Subset, FS_CardinalityType
<1>1. 0 \in Good
  <2>1. \A s \in D(0) : s = {}
    BY <1>0, FS_EmptySet
  <2>2. Sums([s \in D(0) |-> 0], D(0), g)
    BY <2>1 DEF Sums
  <2> QED BY <2>2
<1>2. ASSUME NEW n \in Nat, n \in Good PROVE n + 1 \in Good
  <2>1. PICK f : Sums(f, D(n), g)
    BY <1>2
  <2> DEFINE h == [s \in D(n + 1) |-> IF s = {} THEN 0 ELSE g[Any(s)] + f[s \ {Any(s)}]]
  <2>2. \A s \in D(n) : h[s] = f[s]
    <3>1. \A s \in D(n) : s \in D(n + 1)
      BY <1>0
    <3> QED BY <2>1, <3>1 DEF Sums
  <2>3. \A s \in D(n + 1) : s # {} => s \ {Any(s)} \in D(n)
    <3> TAKE s \in D(n + 1)
    <3> HAVE s # {}
    <3>1. Any(s) \in s /\ IsFiniteSet(s) /\ Cardinality(s) \in Nat /\ Cardinality(s) <= n + 1
      BY <1>0, AnyOf
    <3>2. Cardinality(s \ {Any(s)}) = Cardinality(s) - 1
      BY <3>1, FS_RemoveElement
    <3> QED BY <3>1, <3>2
  <2>4. \A s \in D(n + 1) : h[s] = IF s = {} THEN 0 ELSE g[Any(s)] + h[s \ {Any(s)}]
    BY <2>2, <2>3
  <2>5. Sums(h, D(n + 1), g)
    BY <2>4 DEF Sums
  <2> HIDE DEF h, D
  <2> QED BY <2>5
<1>3. Nat \subseteq Good
  <2> HIDE DEF Good
  <2> QED BY <1>1, <1>2, InductionOverNat
<1>4. Cardinality(S) \in Nat /\ D(Cardinality(S)) = SUBSET S
  BY <1>0
<1> QED BY <1>3, <1>4

\* And only one: on the sets that two such functions have in common they agree.
LEMMA SumsUnique ==
  ASSUME NEW S, IsFiniteSet(S), NEW T \in SUBSET S, NEW g, NEW f, NEW h,
         Sums(f, SUBSET S, g), Sums(h, SUBSET T, g)
  PROVE  f[T] = h[T]
<1> DEFINE Bad == {s \in SUBSET T : f[s] # h[s]}
           Sizes == {n \in Nat : \A s \in SUBSET T : Cardinality(s) <= n => f[s] = h[s]}
<1>0. \A s \in SUBSET T : IsFiniteSet(s) /\ Cardinality(s) \in Nat /\ s \in SUBSET S
  BY FS_Subset, FS_CardinalityType
<1>1. 0 \in Sizes
  <2>1. \A s \in SUBSET T : Cardinality(s) <= 0 => s = {}
    BY <1>0, FS_EmptySet
  <2>2. f[{}] = 0 /\ h[{}] = 0
    BY DEF Sums
  <2> QED BY <2>1, <2>2
<1>2. ASSUME NEW n \in Nat, n \in Sizes PROVE n + 1 \in Sizes
  <2> SUFFICES ASSUME NEW s \in SUBSET T, Cardinality(s) <= n + 1 PROVE f[s] = h[s]
    OBVIOUS
  <2>1. CASE s = {}
    BY <2>1 DEF Sums
  <2>2. CASE s # {}
    <3>1. Any(s) \in s
      BY <2>2, AnyOf
    <3>2. Cardinality(s \ {Any(s)}) = Cardinality(s) - 1 /\ s \ {Any(s)} \in SUBSET T
      BY <1>0, <3>1, FS_RemoveElement
    <3>3. f[s \ {Any(s)}] = h[s \ {Any(s)}]
      BY <1>0, <1>2, <3>2
    <3>4. f[s] = g[Any(s)] + f[s \ {Any(s)}]
      BY <1>0, <2>2 DEF Sums
    <3>5. h[s] = g[Any(s)] + h[s \ {Any(s)}]
      BY <2>2 DEF Sums
    <3> QED BY <3>3, <3>4, <3>5
  <2> QED BY <2>1, <2>2
<1>3. Nat \subseteq Sizes
  <2> HIDE DEF Sizes
  <2> QED BY <1>1, <1>2, InductionOverNat
<1> QED BY <1>0, <1>3

\* The equations of SumFunctionOnSet.
LEMMA SumEquations ==
  ASSUME NEW S, IsFiniteSet(S), NEW g
  PROVE  /\ SumFunctionOnSet(g, {}) = 0
         /\ S # {} => SumFunctionOnSet(g, S) = g[Any(S)] + SumFunctionOnSet(g, S \ {Any(S)})
<1> DEFINE it(T) == CHOOSE f : Sums(f, SUBSET T, g)
<1>1. \A T : SumFunctionOnSet(g, T) = it(T)[T]
  BY DEF SumFunctionOnSet, FoldFunctionOnSet, MapThenFoldSet, Sums, Any
<1>2. \A T \in SUBSET S : IsFiniteSet(T) /\ Sums(it(T), SUBSET T, g)
  BY SumsExist, FS_Subset
<1> HIDE DEF it
<1>3. it({})[{}] = 0
  BY <1>2 DEF Sums
<1>4. ASSUME S # {} PROVE it(S)[S] = g[Any(S)] + it(S \ {Any(S)})[S \ {Any(S)}]
  <2>1. it(S)[S] = g[Any(S)] + it(S)[S \ {Any(S)}]
    BY <1>2, <1>4 DEF Sums
  <2>2. it(S)[S \ {Any(S)}] = it(S \ {Any(S)})[S \ {Any(S)}]
    <3> DEFINE U == S \ {Any(S)}
    <3>1. U \in SUBSET S /\ Sums(it(S), SUBSET S, g) /\ Sums(it(U), SUBSET U, g)
      BY <1>2
    <3> HIDE DEF U
    <3>2. it(S)[U] = it(U)[U]
      BY <3>1, SumsUnique
    <3> QED BY <3>2 DEF U
  <2> QED BY <2>1, <2>2
<1> QED BY <1>1, <1>3, <1>4

\* Whole numbers have a whole sum, from which any of them can be taken away.
LEMMA SumFacts ==
  ASSUME NEW S, IsFiniteSet(S), NEW g, \A x \in S : g[x] \in Int
  PROVE  /\ SumFunctionOnSet(g, S) \in Int
         /\ \A x \in S : SumFunctionOnSet(g, S) = g[x] + SumFunctionOnSet(g, S \ {x})
<1> DEFINE Facts(T) == /\ SumFunctionOnSet(g, T) \in Int
                       /\ \A x \in T : SumFunctionOnSet(g, T) = g[x] + SumFunctionOnSet(g, T \ {x})
           Sizes == {n \in Nat : \A T \in SUBSET S : Cardinality(T) <= n => Facts(T)}
<1>0. \A T \in SUBSET S : /\ IsFiniteSet(T) /\ Cardinality(T) \in Nat
                          /\ \A x \in T : /\ Cardinality(T \ {x}) = Cardinality(T) - 1
                                          /\ T \ {x} \in SUBSET S
  BY FS_Subset, FS_CardinalityType, FS_RemoveElement
<1>5. Facts({})
  <2>1. SumFunctionOnSet(g, {}) = 0
    BY SumEquations
  <2> QED BY <2>1
<1>1. 0 \in Sizes
  <2>1. \A T \in SUBSET S : Cardinality(T) <= 0 => T = {}
    BY <1>0, FS_EmptySet
  <2> HIDE DEF Facts
  <2> QED BY <1>5, <2>1
<1>2. ASSUME NEW n \in Nat, n \in Sizes PROVE n + 1 \in Sizes
  <2> SUFFICES ASSUME NEW T \in SUBSET S, Cardinality(T) <= n + 1 PROVE Facts(T)
    OBVIOUS
  <2>0. CASE T = {}
    BY <1>5, <2>0
  <2>1. CASE T # {}
    <3> DEFINE c == Any(T)
    <3>1. c \in T /\ SumFunctionOnSet(g, T) = g[c] + SumFunctionOnSet(g, T \ {c})
      BY <1>0, <2>1, AnyOf, SumEquations
    <3> HIDE DEF c
    <3>2. \A x \in T : Cardinality(T \ {x}) <= n /\ T \ {x} \in SUBSET S
      BY <1>0
    <3>3. \A x \in T : Facts(T \ {x})
      <4> HIDE DEF Facts
      <4> QED BY <1>2, <3>2
    <3>4. SumFunctionOnSet(g, T) \in Int
      BY <3>1, <3>3
    <3>5. ASSUME NEW x \in T PROVE SumFunctionOnSet(g, T) = g[x] + SumFunctionOnSet(g, T \ {x})
      <4>1. CASE x = c
        BY <3>1, <4>1
      <4>2. CASE x # c
        <5>1. x \in T \ {c} /\ c \in T \ {x} /\ (T \ {c}) \ {x} = (T \ {x}) \ {c}
          BY <3>1, <4>2
        <5>2. SumFunctionOnSet(g, T \ {c}) = g[x] + SumFunctionOnSet(g, (T \ {x}) \ {c})
          BY <3>1, <3>3, <5>1
        <5>3. SumFunctionOnSet(g, T \ {x}) = g[c] + SumFunctionOnSet(g, (T \ {x}) \ {c})
          BY <3>3, <5>1
        <5>4. SumFunctionOnSet(g, (T \ {x}) \ {c}) \in Int
          <6>1. (T \ {x}) \ {c} \in SUBSET S /\ Cardinality((T \ {x}) \ {c}) <= n
            <7>1. T \ {x} \in SUBSET S /\ Cardinality(T \ {x}) <= n /\ Cardinality(T \ {x}) \in Nat
              BY <1>0, <3>2
            <7>2. /\ Cardinality((T \ {x}) \ {c}) = Cardinality(T \ {x}) - 1
                  /\ (T \ {x}) \ {c} \in SUBSET S
              BY <1>0, <5>1, <7>1
            <7> QED BY <7>1, <7>2
          <6>2. Facts((T \ {x}) \ {c})
            <7> HIDE DEF Facts
            <7> QED BY <1>2, <6>1
          <6> QED BY <6>2
        <5> QED BY <3>1, <5>2, <5>3, <5>4
      <4> QED BY <4>1, <4>2
    <3> QED BY <3>4, <3>5
  <2> QED BY <2>0, <2>1
<1>3. Nat \subseteq Sizes
  <2> HIDE DEF Sizes
  <2> QED BY <1>1, <1>2, InductionOverNat
<1>4. Cardinality(S) \in Sizes /\ S \in SUBSET S /\ Cardinality(S) <= Cardinality(S)
  BY <1>0, <1>3
<1> HIDE DEF Facts
<1>6. Facts(S)
  BY <1>4
<1> QED BY <1>6 DEF Facts

\* The sum of zeroes, and of one number among zeroes.
LEMMA SumZero ==
  ASSUME NEW S, IsFiniteSet(S), NEW g, \A x \in S : g[x] = 0
  PROVE  SumFunctionOnSet(g, S) = 0
<1> DEFINE Sizes == {n \in Nat : \A T \in SUBSET S : Cardinality(T) <= n => SumFunctionOnSet(g, T) = 0}
<1>0. \A T \in SUBSET S : /\ IsFiniteSet(T) /\ Cardinality(T) \in Nat
                          /\ \A x \in T : Cardinality(T \ {x}) = Cardinality(T) - 1
  BY FS_Subset, FS_CardinalityType, FS_RemoveElement
<1>1. 0 \in Sizes
  <2>1. \A T \in SUBSET S : Cardinality(T) <= 0 => T = {}
    BY <1>0, FS_EmptySet
  <2> QED BY <2>1, SumEquations, FS_EmptySet
<1>2. ASSUME NEW n \in Nat, n \in Sizes PROVE n + 1 \in Sizes
  <2> SUFFICES ASSUME NEW T \in SUBSET S, Cardinality(T) <= n + 1 PROVE SumFunctionOnSet(g, T) = 0
    OBVIOUS
  <2>1. CASE T = {}
    BY <2>1, SumEquations, FS_EmptySet
  <2>2. CASE T # {}
    <3>1. Any(T) \in T
      BY <2>2, AnyOf
    <3>2. Cardinality(T \ {Any(T)}) <= n /\ T \ {Any(T)} \in SUBSET S
      BY <1>0, <3>1
    <3>3. SumFunctionOnSet(g, T \ {Any(T)}) = 0 /\ g[Any(T)] = 0
      BY <1>2, <3>1, <3>2
    <3>4. SumFunctionOnSet(g, T) = g[Any(T)] + SumFunctionOnSet(g, T \ {Any(T)})
      BY <1>0, <2>2, SumEquations
    <3> QED BY <3>3, <3>4
  <2> QED BY <2>1, <2>2
<1>3. Nat \subseteq Sizes
  <2> HIDE DEF Sizes
  <2> QED BY <1>1, <1>2, InductionOverNat
<1> QED BY <1>0, <1>3

LEMMA SumOfOne ==
  ASSUME NEW S, IsFiniteSet(S), NEW g, NEW r \in S, g[r] \in Int, \A x \in S \ {r} : g[x] = 0
  PROVE  SumFunctionOnSet(g, S) = g[r]
<1>1. IsFiniteSet(S \ {r})
  BY FS_RemoveElement
<1>2. SumFunctionOnSet(g, S \ {r}) = 0
  BY <1>1, SumZero
<1>3. \A x \in S : g[x] \in Int
  OBVIOUS
<1> QED BY <1>2, <1>3, SumFacts

-----------------------------------------------------------------------------
(* Powers of two, up to the last one of Powers.                            *)

LEMMA PowerDoubles ==
  ASSUME NEW k \in 0 .. 29
  PROVE  2 ^ (k + 1) = 2 * 2 ^ k
<1>1. k = 0 => 2 ^ (k + 1) = 2 * 2 ^ k  BY SMT
<1>2. k = 1 => 2 ^ (k + 1) = 2 * 2 ^ k  BY SMT
<1>3. k = 2 => 2 ^ (k + 1) = 2 * 2 ^ k  BY SMT
<1>4. k = 3 => 2 ^ (k + 1) = 2 * 2 ^ k  BY SMT
<1>5. k = 4 => 2 ^ (k + 1) = 2 * 2 ^ k  BY SMT
<1>6. k = 5 => 2 ^ (k + 1) = 2 * 2 ^ k  BY SMT
<1>7. k = 6 => 2 ^ (k + 1) = 2 * 2 ^ k  BY SMT
<1>8. k = 7 => 2 ^ (k + 1) = 2 * 2 ^ k  BY SMT
<1>9. k = 8 => 2 ^ (k + 1) = 2 * 2 ^ k  BY SMT
<1>10. k = 9 => 2 ^ (k + 1) = 2 * 2 ^ k  BY SMT
<1>11. k = 10 => 2 ^ (k + 1) = 2 * 2 ^ k  BY SMT
<1>12. k = 11 => 2 ^ (k + 1) = 2 * 2 ^ k  BY SMT
<1>13. k = 12 => 2 ^ (k + 1) = 2 * 2 ^ k  BY SMT
<1>14. k = 13 => 2 ^ (k + 1) = 2 * 2 ^ k  BY SMT
<1>15. k = 14 => 2 ^ (k + 1) = 2 * 2 ^ k  BY SMT
<1>16. k = 15 => 2 ^ (k + 1) = 2 * 2 ^ k  BY SMT
<1>17. k = 16 => 2 ^ (k + 1) = 2 * 2 ^ k  BY SMT
<1>18. k = 17 => 2 ^ (k + 1) = 2 * 2 ^ k  BY SMT
<1>19. k = 18 => 2 ^ (k + 1) = 2 * 2 ^ k  BY SMT
<1>20. k = 19 => 2 ^ (k + 1) = 2 * 2 ^ k  BY SMT
<1>21. k = 20 => 2 ^ (k + 1) = 2 * 2 ^ k  BY SMT
<1>22. k = 21 => 2 ^ (k + 1) = 2 * 2 ^ k  BY SMT
<1>23. k = 22 => 2 ^ (k + 1) = 2 * 2 ^ k  BY SMT
<1>24. k = 23 => 2 ^ (k + 1) = 2 * 2 ^ k  BY SMT
<1>25. k = 24 => 2 ^ (k + 1) = 2 * 2 ^ k  BY SMT
<1>26. k = 25 => 2 ^ (k + 1) = 2 * 2 ^ k  BY SMT
<1>27. k = 26 => 2 ^ (k + 1) = 2 * 2 ^ k  BY SMT
<1>28. k = 27 => 2 ^ (k + 1) = 2 * 2 ^ k  BY SMT
<1>29. k = 28 => 2 ^ (k + 1) = 2 * 2 ^ k  BY SMT
<1>30. k = 29 => 2 ^ (k + 1) = 2 * 2 ^ k  BY SMT
<1> QED
  BY SMT, <1>1, <1>2, <1>3, <1>4, <1>5, <1>6, <1>7, <1>8, <1>9, <1>10, <1>11,
          <1>12, <1>13, <1>14, <1>15, <1>16, <1>17, <1>18, <1>19, <1>20, <1>21,
          <1>22, <1>23, <1>24, <1>25, <1>26, <1>27, <1>28, <1>29, <1>30

LEMMA PowerTypes ==
  ASSUME NEW n \in 0 .. 30
  PROVE  2 ^ n \in Nat /\ 2 ^ n >= 1
<1> DEFINE Good == {k \in Nat : k <= 30 => 2 ^ k \in Nat /\ 2 ^ k >= 1}
<1>1. 0 \in Good
  BY 2 ^ 0 = 1
<1>2. ASSUME NEW k \in Nat, k \in Good PROVE k + 1 \in Good
  <2>1. CASE k \in 0 .. 29
    <3>1. 2 ^ (k + 1) = 2 * 2 ^ k
      BY <2>1, PowerDoubles
    <3> QED BY <1>2, <2>1, <3>1
  <2> QED BY <2>1
<1>3. Nat \subseteq Good
  <2> HIDE DEF Good
  <2> QED BY <1>1, <1>2, InductionOverNat
<1> QED BY <1>3

LEMMA PowerAdds ==
  ASSUME NEW n \in 0 .. 30, NEW m \in 0 .. 30, m + n <= 30
  PROVE  2 ^ (m + n) = 2 ^ m * 2 ^ n
<1> DEFINE Good == {k \in Nat : k + n <= 30 => 2 ^ (k + n) = 2 ^ k * 2 ^ n}
<1>0. 2 ^ n \in Nat
  BY PowerTypes
<1>1. 0 \in Good
  BY <1>0, 2 ^ 0 = 1, 0 + n = n
<1>2. ASSUME NEW k \in Nat, k \in Good PROVE k + 1 \in Good
  <2> SUFFICES ASSUME k + 1 + n <= 30 PROVE 2 ^ (k + 1 + n) = 2 ^ (k + 1) * 2 ^ n
    OBVIOUS
  <2>0. k \in 0 .. 29 /\ k \in 0 .. 30 /\ k + n \in 0 .. 29
    OBVIOUS
  <2>1. 2 ^ (k + 1) = 2 * 2 ^ k
    BY <2>0, PowerDoubles
  <2>2. 2 ^ ((k + n) + 1) = 2 * 2 ^ (k + n)
    BY <2>0, PowerDoubles
  <2>3. 2 ^ (k + n) = 2 ^ k * 2 ^ n
    BY <1>2, <2>0
  <2>4. 2 ^ k \in Nat
    BY <2>0, PowerTypes
  <2>5. k + 1 + n = (k + n) + 1
    OBVIOUS
  <2> QED BY <1>0, <2>1, <2>2, <2>3, <2>4, <2>5
<1>3. Nat \subseteq Good
  <2> HIDE DEF Good
  <2> QED BY <1>1, <1>2, InductionOverNat
<1> QED BY <1>3

LEMMA PowerGrows ==
  ASSUME NEW n \in 0 .. 30, NEW m \in 0 .. 30, m <= n
  PROVE  2 ^ m <= 2 ^ n
<1>1. PICK d \in 0 .. 30 : d + m = n
  <2>1. n - m \in 0 .. 30 /\ (n - m) + m = n
    OBVIOUS
  <2> QED BY <2>1
<1>2. 2 ^ (d + m) = 2 ^ d * 2 ^ m
  <2>1. d + m <= 30
    BY <1>1
  <2> QED BY <2>1, PowerAdds, Zenon
<1>3. 2 ^ m \in Nat /\ 2 ^ d \in Nat /\ 2 ^ d >= 1
  BY PowerTypes
<1>4. \A a, b \in Nat : b >= 1 => a <= b * a
  OBVIOUS
<1> QED BY <1>1, <1>2, <1>3, <1>4

\* What the mask computations rest on.
LEMMA PowersFacts ==
  /\ 1 \in Powers /\ 1073741824 \in Powers
  /\ \A m \in Powers : m \in Nat /\ m >= 1 /\ m <= 1073741824 /\ (m = 1 \/ m = 2 * (m \div 2))
<1>1. 1 = 2 ^ 0 /\ 1073741824 = 2 ^ 30
  BY SMT
<1>2. 1 \in Powers /\ 1073741824 \in Powers
  BY <1>1 DEF Powers
<1>3. ASSUME NEW k \in 0 .. 30
      PROVE  2 ^ k \in Nat /\ 2 ^ k >= 1 /\ 2 ^ k <= 1073741824 /\ (2 ^ k = 1 \/ 2 ^ k = 2 * (2 ^ k \div 2))
  <2>1. 2 ^ k \in Nat /\ 2 ^ k >= 1 /\ 2 ^ k <= 2 ^ 30
    <3>1. 30 \in 0 .. 30 /\ k <= 30
      OBVIOUS
    <3> QED BY <3>1, PowerTypes, PowerGrows
  <2>2. CASE k = 0
    BY <1>1, <2>1, <2>2
  <2>3. CASE k # 0
    <3>1. k - 1 \in 0 .. 29 /\ (k - 1) + 1 = k /\ k - 1 \in 0 .. 30
      BY <2>3
    <3>2. 2 ^ k = 2 * 2 ^ (k - 1) /\ 2 ^ (k - 1) \in Nat
      BY <3>1, PowerDoubles, PowerTypes
    <3>3. \A y \in Nat : (2 * y) \div 2 = y
      OBVIOUS
    <3> QED BY <1>1, <2>1, <3>2, <3>3
  <2> QED BY <2>2, <2>3
<1> QED BY <1>2, <1>3 DEF Powers

-----------------------------------------------------------------------------
(* Analogue records: what is sent is what is read.                         *)

\* A mask is one less than a power of two, and its sign bit is its highest.
LEMMA Masks ==
  ASSUME NEW io, AnalogueAddress(io), io.parameter # 0
  PROVE  LET mask == AnalogueMask(io) IN
         /\ mask \in Nat /\ mask < 1073741824
         /\ mask = 0 \/ mask + 1 = 2 * ((mask + 1) \div 2)
<1> DEFINE n == Fsd(io.parameter)
           S == {m \in Powers : m >= n}
<1>1. n \in Int /\ n <= 1073741824
  <2>1. \A a \in Powers : a - 1 \in Int /\ a - 1 <= 1073741824
    BY PowersFacts
  <2>2. io.parameter \in Int /\ io.parameter >= -1073741824 /\ io.parameter <= 1073741824
    BY DEF AnalogueAddress
  <2> QED BY <2>1, <2>2 DEF Fsd
<1>2. 1073741824 \in S
  BY <1>1, PowersFacts
<1> HIDE DEF n
<1>3. S \subseteq Nat
  BY PowersFacts
<1>4. PICK m \in S : \A y \in S : ~(<<y, m>> \in Less)
  <2>1. S # {}
    BY <1>2
  <2> HIDE DEF S
  <2> QED BY <1>3, <2>1, LessWellFounded, WFMin
<1>5. \A y \in S : m <= y
  <2> HIDE DEF S
  <2>1. m \in Nat
    BY <1>3
  <2> TAKE y \in S
  <2>2. y \in Nat /\ ~(<<y, m>> \in Less)
    BY <1>3, <1>4
  <2> QED BY <2>1, <2>2 DEF Less
<1>6. Min(S) \in S
  BY <1>5 DEF Min
<1>7. AnalogueMask(io) = Min(S) - 1
  BY DEF AnalogueMask, n
<1> HIDE DEF S
<1>8. Min(S) \in Powers
  BY <1>6 DEF S
<1> QED BY <1>7, <1>8, PowersFacts

\* A sum over an interval, and the sum of the bytes of a number.
LEMMA SumUpTo ==
  ASSUME NEW n \in Nat, NEW g, \A i \in 0 .. n : g[i] \in Int
  PROVE  /\ SumFunctionOnSet(g, 0 .. n) \in Int
         /\ n = 0 => SumFunctionOnSet(g, 0 .. n) = g[0]
         /\ n > 0 => SumFunctionOnSet(g, 0 .. n) = g[n] + SumFunctionOnSet(g, 0 .. n - 1)
<1> DEFINE S == 0 .. n
           T == 0 .. n - 1
<1>1. IsFiniteSet(S) /\ n \in S /\ S \ {n} = T /\ \A x \in S : g[x] \in Int
  <2>1. IsFiniteSet(S)
    BY FS_Interval
  <2>2. n \in S /\ S \ {n} = T /\ \A x \in S : g[x] \in Int
    OBVIOUS
  <2> QED BY <2>1, <2>2
<1>2. n = 0 => T = {}
  OBVIOUS
<1> SUFFICES /\ SumFunctionOnSet(g, S) \in Int
             /\ n = 0 => SumFunctionOnSet(g, S) = g[0]
             /\ n > 0 => SumFunctionOnSet(g, S) = g[n] + SumFunctionOnSet(g, T)
  OBVIOUS
<1> HIDE DEF S, T
<1>3. SumFunctionOnSet(g, S) \in Int /\ SumFunctionOnSet(g, S) = g[n] + SumFunctionOnSet(g, T)
  BY <1>1, SumFacts
<1>4. ASSUME n = 0 PROVE SumFunctionOnSet(g, T) = 0
  BY <1>2, <1>4, SumZero, FS_EmptySet
<1> QED BY <1>1, <1>3, <1>4

LEMMA SumOfFew ==
  ASSUME NEW n \in 0 .. 3, NEW g, \A i \in 0 .. n : g[i] \in Int
  PROVE  /\ n = 0 => SumFunctionOnSet(g, 0 .. n) = g[0]
         /\ n = 1 => SumFunctionOnSet(g, 0 .. n) = g[1] + g[0]
         /\ n = 2 => SumFunctionOnSet(g, 0 .. n) = g[2] + (g[1] + g[0])
         /\ n = 3 => SumFunctionOnSet(g, 0 .. n) = g[3] + (g[2] + (g[1] + g[0]))
<1> DEFINE s(k) == SumFunctionOnSet(g, 0 .. k)
<1>1. ASSUME NEW k \in 0 .. n
      PROVE  (k = 0 => s(k) = g[0]) /\ (k > 0 => s(k) = g[k] + s(k - 1))
  <2>1. k \in Nat /\ \A i \in 0 .. k : g[i] \in Int
    OBVIOUS
  <2> QED BY <2>1, SumUpTo
<1> HIDE DEF s
<1>2. /\ n = 0 => s(n) = g[0]
      /\ n = 1 => s(n) = g[1] + g[0]
      /\ n = 2 => s(n) = g[2] + (g[1] + g[0])
      /\ n = 3 => s(n) = g[3] + (g[2] + (g[1] + g[0]))
  BY <1>1
<1> QED BY <1>2 DEF s

\* What the byte of weight p adds to u.
Part(u, p) == ((u \div p) % 256) * p

LEMMA SumOfParts ==
  ASSUME NEW u \in Nat
  PROVE  /\ Part(u, 1) \in Int /\ Part(u, 256) \in Int /\ Part(u, 65536) \in Int /\ Part(u, 16777216) \in Int
         /\ u < 256 => u = Part(u, 1)
         /\ u < 65536 => u = Part(u, 1) + Part(u, 256)
         /\ u < 16777216 => u = Part(u, 1) + (Part(u, 256) + Part(u, 65536))
         /\ u < 4294967296 => u = Part(u, 1) + (Part(u, 256) + (Part(u, 65536) + Part(u, 16777216)))
<1>1. Part(u, 1) \in Int /\ Part(u, 256) \in Int /\ Part(u, 65536) \in Int /\ Part(u, 16777216) \in Int
  BY DEF Part
<1>2. u < 256 => u = Part(u, 1)
  BY DEF Part
<1>3. u < 65536 => u = Part(u, 1) + Part(u, 256)
  BY DEF Part
<1>4. u < 16777216 => u = Part(u, 1) + (Part(u, 256) + Part(u, 65536))
  BY DEF Part
<1>5. u < 4294967296 => u = Part(u, 1) + (Part(u, 256) + (Part(u, 65536) + Part(u, 16777216)))
  BY DEF Part
<1> QED BY <1>1, <1>2, <1>3, <1>4, <1>5

\* How many bytes of 256 values hold a number.
Holds256(u, w) == /\ w = 1 => u < 256
                  /\ w = 2 => u < 65536
                  /\ w = 3 => u < 16777216
                  /\ w = 4 => u < 4294967296

\* The weights of the bytes, the most significant one first.
Weighs(u, w, g) == /\ w = 1 => g[0] = Part(u, 1)
                   /\ w = 2 => g[0] = Part(u, 256) /\ g[1] = Part(u, 1)
                   /\ w = 3 => g[0] = Part(u, 65536) /\ g[1] = Part(u, 256) /\ g[2] = Part(u, 1)
                   /\ w = 4 => /\ g[0] = Part(u, 16777216) /\ g[1] = Part(u, 65536)
                               /\ g[2] = Part(u, 256) /\ g[3] = Part(u, 1)

LEMMA SumOfWeights ==
  ASSUME NEW w \in 1 .. 4, NEW u \in Nat, Holds256(u, w), NEW g, Weighs(u, w, g)
  PROVE  SumFunctionOnSet(g, 0 .. w - 1) = u
<1> DEFINE n == w - 1
<1>1. n \in 0 .. 3 /\ w = n + 1
  OBVIOUS
<1>0. /\ Part(u, 1) \in Int /\ Part(u, 256) \in Int /\ Part(u, 65536) \in Int /\ Part(u, 16777216) \in Int
      /\ u < 256 => u = Part(u, 1)
      /\ u < 65536 => u = Part(u, 1) + Part(u, 256)
      /\ u < 16777216 => u = Part(u, 1) + (Part(u, 256) + Part(u, 65536))
      /\ u < 4294967296 => u = Part(u, 1) + (Part(u, 256) + (Part(u, 65536) + Part(u, 16777216)))
  BY SumOfParts
<1>2. \A i \in 0 .. n : g[i] \in Int
  <2>1. CASE w = 1
    BY <1>0, <2>1 DEF Weighs
  <2>2. CASE w = 2
    BY <1>0, <2>2 DEF Weighs
  <2>3. CASE w = 3
    BY <1>0, <2>3 DEF Weighs
  <2>4. CASE w = 4
    BY <1>0, <2>4 DEF Weighs
  <2> QED BY <2>1, <2>2, <2>3, <2>4
<1> HIDE DEF n
<1>3. /\ n = 0 => SumFunctionOnSet(g, 0 .. n) = g[0]
      /\ n = 1 => SumFunctionOnSet(g, 0 .. n) = g[1] + g[0]
      /\ n = 2 => SumFunctionOnSet(g, 0 .. n) = g[2] + (g[1] + g[0])
      /\ n = 3 => SumFunctionOnSet(g, 0 .. n) = g[3] + (g[2] + (g[1] + g[0]))
  BY <1>1, <1>2, SumOfFew, Zenon
<1>4. SumFunctionOnSet(g, 0 .. n) = u
  <2> DEFINE s == SumFunctionOnSet(g, 0 .. n)
  <2>1. /\ w = 1 => s = g[0]
        /\ w = 2 => s = g[1] + g[0]
        /\ w = 3 => s = g[2] + (g[1] + g[0])
        /\ w = 4 => s = g[3] + (g[2] + (g[1] + g[0]))
    BY <1>1, <1>3
  <2> HIDE DEF s
  <2>2. s = u
    BY <1>0, <2>1 DEF Weighs, Holds256
  <2> QED BY <2>2 DEF s
<1> QED BY <1>4 DEF n

LEMMA Weight ==
  ASSUME NEW u, NEW e, NEW x, x = Part(u, 256 ^ e)
  PROVE  /\ e = 0 => x = Part(u, 1)
         /\ e = 1 => x = Part(u, 256)
         /\ e = 2 => x = Part(u, 65536)
         /\ e = 3 => x = Part(u, 16777216)
<1>1. e = 0 => x = Part(u, 1)
  BY SMT
<1>2. e = 1 => x = Part(u, 256)
  BY SMT
<1>3. e = 2 => x = Part(u, 65536)
  BY SMT
<1>4. e = 3 => x = Part(u, 16777216)
  BY SMT
<1> QED BY <1>1, <1>2, <1>3, <1>4

LEMMA WeightsOfBytes ==
  ASSUME NEW w \in 1 .. 4, NEW u \in Nat,
         NEW g, \A i \in 0 .. w - 1 : g[i] = Part(u, 256 ^ (w - 1 - i))
  PROVE  Weighs(u, w, g)
<1>1. ASSUME NEW i \in 0 .. w - 1
      PROVE  /\ w - 1 - i = 0 => g[i] = Part(u, 1)
             /\ w - 1 - i = 1 => g[i] = Part(u, 256)
             /\ w - 1 - i = 2 => g[i] = Part(u, 65536)
             /\ w - 1 - i = 3 => g[i] = Part(u, 16777216)
  <2> DEFINE e == w - 1 - i
  <2>1. g[i] = Part(u, 256 ^ e)
    OBVIOUS
  <2> HIDE DEF e
  <2>2. /\ e = 0 => g[i] = Part(u, 1)
        /\ e = 1 => g[i] = Part(u, 256)
        /\ e = 2 => g[i] = Part(u, 65536)
        /\ e = 3 => g[i] = Part(u, 16777216)
    BY <2>1, Weight
  <2> QED BY <2>2 DEF e
<1>2. CASE w = 1
  BY <1>1, <1>2 DEF Weighs
<1>3. CASE w = 2
  BY <1>1, <1>3 DEF Weighs
<1>4. CASE w = 3
  BY <1>1, <1>4 DEF Weighs
<1>5. CASE w = 4
  BY <1>1, <1>5 DEF Weighs
<1> QED BY <1>2, <1>3, <1>4, <1>5

\* What a record with this address reads of the value v: too small for a float is zero.
AnalogueRead(io, v) == IF io.paramStr = "float" /\ v = 1 THEN 0 ELSE v

\* What write_ao sends for a value is what aiMessage and read_ai get back, for every
\* full scale, sign, width and offset: the bytes of AoMessage, from the offset on,
\* whatever else the message holds, bring the value to the record.
THEOREM AnalogueRoundTrip ==
  ASSUME NEW io, AnalogueAddress(io), NEW v, AnalogueFits(io, v), NEW data,
         AnalogueMask(io) = 0 => (AnalogueSign(io) = 8 => io.offset = 0),
         \A j \in DOMAIN AoMessage(io, v) : data[io.offset + j] = AoMessage(io, v)[j],
         io.offset \in Int
  PROVE  AiValue(io, AiMessage(io, data)) = AnalogueRead(io, v)
<1> DEFINE mask == AnalogueMask(io)
           sign == AnalogueSign(io)
<1>1. CASE io.parameter = 0
  <2>1. mask = 0
    BY <1>1 DEF AnalogueMask
  <2>2. CASE io.paramStr = "float"
    <3>1. sign = 4
      BY <1>1, <2>2 DEF AnalogueSign
    <3>2. DOMAIN AoMessage(io, v) = {0} /\ AoMessage(io, v)[0] = AnalogueRead(io, v)
      BY <2>1, <2>2, <3>1 DEF AoMessage, AnalogueRead
    <3>3. data[io.offset] = AnalogueRead(io, v)
      BY <3>2, io.offset + 0 = io.offset
    <3> QED BY <2>1, <3>1, <3>3 DEF AiMessage, AiValue
  <2>3. CASE io.paramStr = "double"
    <3>1. sign = 8
      BY <1>1, <2>3 DEF AnalogueSign
    <3>2. DOMAIN AoMessage(io, v) = {0} /\ AoMessage(io, v)[0] = AnalogueRead(io, v)
      BY <2>1, <2>3, <3>1 DEF AoMessage, AnalogueRead
    <3>3. io.offset = 0
      BY <2>1, <3>1
    <3>4. data[0] = AnalogueRead(io, v)
      BY <3>2, <3>3, 0 + 0 = 0
    <3> QED BY <2>1, <3>1, <3>4 DEF AiMessage, AiValue
  <2>4. CASE io.paramStr \notin {"float", "double"}
    <3>1. sign = 0
      BY <1>1, <2>4 DEF AnalogueSign
    <3>2. v = 0 /\ AnalogueRead(io, v) = 0
      BY <2>1, <3>1 DEF AnalogueFits, AnalogueRead
    <3>3. AiMessage(io, data) = 0
      BY <2>1, <3>1 DEF AiMessage
    <3> QED BY <2>1, <3>1, <3>2, <3>3 DEF AiValue
  <2> QED BY <2>2, <2>3, <2>4
<1>2. CASE io.parameter # 0
  <2>1. mask \in Nat /\ mask < 1073741824 /\ (mask = 0 \/ mask + 1 = 2 * ((mask + 1) \div 2))
    BY <1>2, Masks
  <2>2. AnalogueRead(io, v) = v
    BY <1>2 DEF AnalogueAddress, AnalogueRead
  <2>3. sign = IF io.parameter < 0 THEN mask \div 2 + 1 ELSE 0
    BY <1>2 DEF AnalogueSign, AnalogueAddress
  <2>4. CASE mask = 0
    <3>1. sign \in {0, 1}
      BY <2>3, <2>4
    <3>2. v = 0 /\ AiMessage(io, data) = 0
      BY <2>4, <3>1 DEF AnalogueFits, AiMessage
    <3>3. 0 % (mask + 1) = 0
      BY <2>4
    <3> QED BY <2>2, <2>4, <3>1, <3>2, <3>3 DEF AiValue
  <2>5. CASE mask # 0
    <3> DEFINE M == mask + 1
               u == v % M
               w == Width(mask)
    <3>0. /\ M \in Nat /\ M > 0 /\ M = 2 * (M \div 2) /\ M <= 1073741824
          /\ sign # 0 => sign = M \div 2
      <4>1. M = 2 * (M \div 2) => (M - 1) \div 2 + 1 = M \div 2
        BY <2>1
      <4> QED BY <2>1, <2>3, <2>5, <4>1
    <3>1. v \in Int /\ IF sign = 0 THEN 0 <= v /\ v <= mask ELSE -sign <= v /\ v < sign
      BY <2>5 DEF AnalogueFits
    <3>2. u \in Nat /\ u < M
      BY <3>0, <3>1
    <3>3. w \in 1 .. 4 /\ Holds256(u, w)
      <4>1. mask \in Nat /\ u \in Nat /\ u <= mask /\ mask < 1073741824
        BY <2>1, <3>2
      <4> HIDE DEF u, mask
      <4> QED BY <4>1 DEF Width, Holds256
    <3>4. AiMessage(io, data) = u
      <4> DEFINE g == [i \in 0 .. w - 1 |-> data[io.offset + i] * 256 ^ (w - 1 - i)]
                 d == [i \in 0 .. w - 1 |-> (u \div 256 ^ (w - 1 - i)) % 256]
      <4>1. AoMessage(io, v) = d /\ DOMAIN d = 0 .. w - 1
        BY <2>5 DEF AoMessage
      <4>2. \A i \in 0 .. w - 1 : data[io.offset + i] = d[i]
        <5> HIDE DEF d, w
        <5> QED BY <4>1
      <4>3. \A i \in 0 .. w - 1 : d[i] = (u \div 256 ^ (w - 1 - i)) % 256
        BY DEF d
      <4>4. \A i \in 0 .. w - 1 : g[i] = d[i] * 256 ^ (w - 1 - i)
        <5> HIDE DEF d, w
        <5> QED BY <4>2
      <4>5. \A i \in 0 .. w - 1 : g[i] = Part(u, 256 ^ (w - 1 - i))
        <5> HIDE DEF d, w, u, g
        <5> QED BY <4>3, <4>4 DEF Part
      <4>6. AiMessage(io, data) = SumFunctionOnSet(g, 0 .. w - 1)
        <5>1. AiMessage(io, data) = SumFunction(g) /\ DOMAIN g = 0 .. w - 1
          BY <2>5 DEF AiMessage
        <5> QED BY <5>1 DEF SumFunction
      <4> HIDE DEF g, d, u, w
      <4>7. Weighs(u, w, g)
        BY <3>2, <3>3, <4>5, WeightsOfBytes, Zenon
      <4>8. SumFunctionOnSet(g, 0 .. w - 1) = u
        BY <3>2, <3>3, <4>7, SumOfWeights, Zenon
      <4> QED BY <4>6, <4>8
    <3>5. AiValue(io, u) = v
      <4> HIDE DEF w
      <4>1. AiValue(io, u) = IF sign # 0 /\ u >= sign THEN u - M ELSE u
        <5>1. u % M = u
          BY <3>0, <3>2
        <5> HIDE DEF u
        <5> QED BY <2>5, <5>1 DEF AiValue
      <4>2. CASE v >= 0
        <5>1. u = v
          BY <2>1, <3>0, <3>1, <4>2
        <5> QED BY <3>0, <3>1, <4>1, <4>2, <5>1
      <4>3. CASE v < 0
        <5>1. sign # 0 /\ -M <= v
          BY <3>0, <3>1, <4>3
        <5>2. u = v + M
          BY <3>0, <3>1, <4>3, <5>1
        <5> QED BY <3>0, <3>1, <4>1, <4>3, <5>1, <5>2
      <4> QED BY <3>1, <4>2, <4>3
    <3> QED BY <2>2, <3>4, <3>5
  <2> QED BY <2>4, <2>5
<1> QED BY <1>1, <1>2

-----------------------------------------------------------------------------
(* Sums of parts of a set.                                                 *)

LEMMA SubsetInduction ==
  ASSUME NEW S, IsFiniteSet(S), NEW C, {} \in C,
         \A T \in SUBSET S : \A x \in S \ T : T \in C => T \cup {x} \in C
  PROVE  S \in C
<1> DEFINE Sizes == {n \in Nat : \A T \in SUBSET S : Cardinality(T) <= n => T \in C}
<1>0. \A T \in SUBSET S : /\ IsFiniteSet(T) /\ Cardinality(T) \in Nat
                          /\ \A x \in T : Cardinality(T \ {x}) = Cardinality(T) - 1
  BY FS_Subset, FS_CardinalityType, FS_RemoveElement
<1>1. 0 \in Sizes
  <2>1. \A T \in SUBSET S : Cardinality(T) <= 0 => T = {}
    BY <1>0, FS_EmptySet
  <2> QED BY <2>1
<1>2. ASSUME NEW n \in Nat, n \in Sizes PROVE n + 1 \in Sizes
  <2> SUFFICES ASSUME NEW T \in SUBSET S, Cardinality(T) <= n + 1 PROVE T \in C
    OBVIOUS
  <2>0. CASE T = {}
    BY <2>0
  <2> SUFFICES ASSUME T # {} PROVE T \in C
    BY <2>0
  <2>1. PICK x \in T : TRUE
    OBVIOUS
  <2>2. T \ {x} \in SUBSET S /\ Cardinality(T \ {x}) <= n /\ x \in S \ (T \ {x})
    BY <1>0, <2>1
  <2>3. T \ {x} \in C /\ (T \ {x}) \cup {x} = T
    BY <1>2, <2>1, <2>2
  <2> QED BY <2>2, <2>3
<1>3. Nat \subseteq Sizes
  <2> HIDE DEF Sizes
  <2> QED BY <1>1, <1>2, InductionOverNat
<1> QED BY <1>0, <1>3

\* The sum of numbers of a set that is closed under addition.
LEMMA SumClosed ==
  ASSUME NEW S, IsFiniteSet(S), NEW N \in SUBSET Int, 0 \in N, \A a, b \in N : a + b \in N,
         NEW g, \A x \in S : g[x] \in N
  PROVE  SumFunctionOnSet(g, S) \in N
<1> DEFINE C == {T \in SUBSET S : SumFunctionOnSet(g, T) \in N}
<1>1. {} \in C
  BY SumEquations, FS_EmptySet
<1>2. ASSUME NEW T \in SUBSET S, NEW x \in S \ T, T \in C
      PROVE  T \cup {x} \in C
  <2> DEFINE U == T \cup {x}
  <2>1. IsFiniteSet(U) /\ U \ {x} = T /\ x \in U /\ U \subseteq S /\ \A y \in U : g[y] \in Int
    <3>1. U \in SUBSET S /\ U \ {x} = T /\ x \in U /\ \A y \in U : g[y] \in Int
      OBVIOUS
    <3> HIDE DEF U
    <3> QED BY <3>1, FS_Subset
  <2> HIDE DEF U
  <2>2. SumFunctionOnSet(g, U) = g[x] + SumFunctionOnSet(g, T)
    BY <2>1, SumFacts
  <2>3. SumFunctionOnSet(g, U) \in N
    BY <1>2, <2>1, <2>2
  <2> QED BY <2>1, <2>3 DEF U
<1> HIDE DEF C
<1>3. S \in C
  BY <1>1, <1>2, SubsetInduction
<1> QED BY <1>3 DEF C

LEMMA SumSplit ==
  ASSUME NEW S, IsFiniteSet(S), NEW A \in SUBSET S, NEW g, \A x \in S : g[x] \in Int
  PROVE  SumFunctionOnSet(g, S) = SumFunctionOnSet(g, A) + SumFunctionOnSet(g, S \ A)
<1> DEFINE C == {T \in SUBSET A : SumFunctionOnSet(g, S) = SumFunctionOnSet(g, T) + SumFunctionOnSet(g, S \ T)}
<1>0. \A T \in SUBSET S : IsFiniteSet(T) /\ SumFunctionOnSet(g, T) \in Int
  <2> TAKE T \in SUBSET S
  <2>1. IsFiniteSet(T) /\ \A x \in T : g[x] \in Int
    BY FS_Subset
  <2> QED BY <2>1, SumFacts
<1>1. {} \in C
  <2>1. S \ {} = S /\ SumFunctionOnSet(g, {}) = 0
    BY SumEquations, FS_EmptySet
  <2> QED BY <1>0, <2>1
<1>2. ASSUME NEW T \in SUBSET A, NEW x \in A \ T, T \in C
      PROVE  T \cup {x} \in C
  <2> DEFINE U == T \cup {x}
             R == S \ T
  <2>1. U \in SUBSET S /\ U \ {x} = T /\ x \in U /\ R \in SUBSET S /\ x \in R /\ R \ {x} = S \ U
    OBVIOUS
  <2> HIDE DEF U, R
  <2>2. SumFunctionOnSet(g, U) = g[x] + SumFunctionOnSet(g, T)
    BY <1>0, <2>1, SumFacts
  <2>3. SumFunctionOnSet(g, R) = g[x] + SumFunctionOnSet(g, S \ U)
    BY <1>0, <2>1, SumFacts
  <2>4. SumFunctionOnSet(g, S) = SumFunctionOnSet(g, T) + SumFunctionOnSet(g, R)
    BY <1>2 DEF R
  <2>5. SumFunctionOnSet(g, T) \in Int /\ SumFunctionOnSet(g, S \ U) \in Int /\ g[x] \in Int
    BY <1>0, <2>1
  <2>6. SumFunctionOnSet(g, S) = SumFunctionOnSet(g, U) + SumFunctionOnSet(g, S \ U)
    BY <2>2, <2>3, <2>4, <2>5
  <2> QED BY <2>6 DEF U
<1>3. A \in C
  <2>1. IsFiniteSet(A)
    BY <1>0
  <2> HIDE DEF C
  <2> QED BY <1>1, <1>2, <2>1, SubsetInduction
<1> QED BY <1>3

-----------------------------------------------------------------------------
(* Binary and multi-bit records: fields of a byte.                         *)

\* The byte b has the value v in the n bits from bit p.
Carries(b, n, p, v) ==
  \E low, high \in Nat : low < 2 ^ p /\ b = (high * 2 ^ n + v) * 2 ^ p + low

LEMMA FieldOfByte ==
  ASSUME NEW p \in 0 .. 7, NEW n \in 1 .. 8, NEW v \in 0 .. 2 ^ n - 1, NEW byte, Carries(byte, n, p, v)
  PROVE  Field(byte, n, p) = v
<1>0. PICK low \in Nat, high \in Nat : low < 2 ^ p /\ byte = (high * 2 ^ n + v) * 2 ^ p + low
  BY DEF Carries
<1> DEFINE A == 2 ^ p
           B == 2 ^ n
           x == high * B + v
<1>1. A \in Nat /\ A >= 1 /\ B \in Nat /\ B >= 1
  <2>1. p \in 0 .. 30 /\ n \in 0 .. 30
    OBVIOUS
  <2> QED BY <2>1, PowerTypes
<1>2. v \in Nat /\ v < B /\ low < A
  BY <1>0, <1>1
<1> HIDE DEF A, B
<1>3. x \in Nat
  BY <1>1, <1>2
<1>4. x % B = v
  BY <1>1, <1>2
<1> HIDE DEF x
<1>5. (x * A + low) \div A = x
  BY <1>1, <1>2, <1>3
<1>6. Field(x * A + low, n, p) = v
  BY <1>4, <1>5 DEF Field, A, B
<1> QED BY <1>0, <1>6 DEF x, A, B

\* Fields that do not overlap: r has n[r] bits from bit p[r], with the value v[r].
Layout(S, p, n, v) ==
  \A r \in S : /\ p[r] \in 0 .. 7 /\ n[r] \in 1 .. 8 /\ p[r] + n[r] <= 8 /\ v[r] \in 0 .. 2 ^ n[r] - 1
               /\ \A q \in S \ {r} : p[q] + n[q] <= p[r] \/ p[r] + n[r] <= p[q]

LEMMA LayoutTypes ==
  ASSUME NEW S, NEW p, NEW n, NEW v, Layout(S, p, n, v), NEW g, \A r \in S : g[r] = v[r] * 2 ^ p[r],
         NEW r \in S
  PROVE  /\ 2 ^ p[r] \in Nat /\ 2 ^ p[r] >= 1 /\ 2 ^ n[r] \in Nat /\ 2 ^ n[r] >= 1
         /\ v[r] \in Nat /\ v[r] < 2 ^ n[r] /\ g[r] \in Nat
         /\ 2 ^ (n[r] + p[r]) = 2 ^ n[r] * 2 ^ p[r]
<1>1. p[r] \in 0 .. 30 /\ n[r] \in 0 .. 30 /\ n[r] + p[r] <= 30
  BY DEF Layout
<1>2. 2 ^ p[r] \in Nat /\ 2 ^ p[r] >= 1 /\ 2 ^ n[r] \in Nat /\ 2 ^ n[r] >= 1
  BY <1>1, PowerTypes
<1>3. v[r] \in Nat /\ v[r] < 2 ^ n[r]
  BY <1>2 DEF Layout
<1>4. 2 ^ (n[r] + p[r]) = 2 ^ n[r] * 2 ^ p[r]
  BY <1>1, PowerAdds, Zenon
<1>5. \A a, b \in Nat : a * b \in Nat
  OBVIOUS
<1> QED BY <1>2, <1>3, <1>4, <1>5

\* Fields below bit k make a number below 2 ^ k.
LEMMA LowFields ==
  ASSUME NEW S, IsFiniteSet(S), NEW p, NEW n, NEW v, Layout(S, p, n, v),
         NEW g, \A r \in S : g[r] = v[r] * 2 ^ p[r],
         NEW K \in 0 .. 8, \A r \in S : p[r] + n[r] <= K
  PROVE  SumFunctionOnSet(g, S) \in Nat /\ SumFunctionOnSet(g, S) < 2 ^ K
<1> DEFINE sum(T) == SumFunctionOnSet(g, T)
           Below(k) == \A T \in SUBSET S : (\A r \in T : p[r] + n[r] <= k) => sum(T) < 2 ^ k
           Good == {k \in Nat : k <= 8 => \A j \in 0 .. k : Below(j)}
<1>0. \A T \in SUBSET S : IsFiniteSet(T) /\ sum(T) \in Nat
  <2> TAKE T \in SUBSET S
  <2>1. IsFiniteSet(T)
    BY FS_Subset
  <2>2. \A r \in T : g[r] \in Nat
    BY LayoutTypes
  <2>3. Nat \in SUBSET Int /\ 0 \in Nat /\ \A a, b \in Nat : a + b \in Nat
    OBVIOUS
  <2> QED BY <2>1, <2>2, <2>3, SumClosed
<1>1. 0 \in Good
  <2>1. Below(0)
    <3> SUFFICES ASSUME NEW T \in SUBSET S, \A r \in T : p[r] + n[r] <= 0 PROVE sum(T) < 2 ^ 0
      OBVIOUS
    <3>1. T = {}
      BY DEF Layout
    <3>2. sum({}) = 0
      BY SumEquations, FS_EmptySet
    <3> QED BY <3>1, <3>2, 2 ^ 0 = 1
  <2>2. \A j \in 0 .. 0 : j = 0
    OBVIOUS
  <2> HIDE DEF Below
  <2> QED BY <2>1, <2>2
<1>2. ASSUME NEW k \in Nat, k \in Good PROVE k + 1 \in Good
  <2> SUFFICES ASSUME k + 1 <= 8, NEW T \in SUBSET S, \A r \in T : p[r] + n[r] <= k + 1
               PROVE  sum(T) < 2 ^ (k + 1)
    <3>1. k + 1 <= 8 => \A j \in 0 .. k : Below(j)
      BY <1>2
    <3>2. \A j \in 0 .. k + 1 : j \in 0 .. k \/ j = k + 1
      OBVIOUS
    <3>3. k + 1 <= 8 => Below(k + 1)
      OBVIOUS
    <3> HIDE DEF Below
    <3> QED BY <3>1, <3>2, <3>3
  <2>1. \A j \in 0 .. k : Below(j)
    BY <1>2
  <2>2. 2 ^ k \in Nat /\ 2 ^ (k + 1) = 2 * 2 ^ k
    <3>1. k \in 0 .. 29 /\ k \in 0 .. 30
      OBVIOUS
    <3> QED BY <3>1, PowerTypes, PowerDoubles
  <2>3. CASE \A r \in T : p[r] + n[r] # k + 1
    <3>1. \A r \in T : p[r] + n[r] <= k
      BY <2>3 DEF Layout
    <3>2. sum(T) < 2 ^ k
      BY <2>1, <3>1
    <3> QED BY <1>0, <2>2, <3>2
  <2>4. ASSUME NEW r \in T, p[r] + n[r] = k + 1 PROVE sum(T) < 2 ^ (k + 1)
    <3> DEFINE U == T \ {r}
    <3>1. p[r] \in 0 .. k /\ \A q \in U : p[q] + n[q] <= p[r]
      BY <2>4 DEF Layout
    <3>2. U \in SUBSET S
      OBVIOUS
    <3>3. sum(U) < 2 ^ p[r] /\ sum(U) \in Nat
      BY <1>0, <2>1, <3>1, <3>2
    <3>4. sum(T) = g[r] + sum(U)
      <4>1. \A q \in T : g[q] \in Int
        BY LayoutTypes
      <4> QED BY <1>0, <4>1, SumFacts
    <3> DEFINE a == 2 ^ p[r]
               b == 2 ^ n[r]
    <3>5. a \in Nat /\ b \in Nat /\ v[r] \in Nat /\ v[r] < b /\ 2 ^ (k + 1) = b * a /\ g[r] = v[r] * a
      <4>1. n[r] + p[r] = k + 1
        BY <2>4 DEF Layout
      <4>2. /\ 2 ^ p[r] \in Nat /\ 2 ^ n[r] \in Nat /\ v[r] \in Nat /\ v[r] < 2 ^ n[r]
            /\ 2 ^ (n[r] + p[r]) = 2 ^ n[r] * 2 ^ p[r]
        BY LayoutTypes
      <4> QED BY <4>1, <4>2
    <3> HIDE DEF sum, U, a, b
    <3>6. v[r] * a + sum(U) < v[r] * a + a
      BY <3>3, <3>5 DEF a
    <3>7. v[r] * a + a <= b * a
      <4>1. \A x, y, z \in Nat : x < y => x * z + z <= y * z
        OBVIOUS
      <4> QED BY <3>5, <4>1
    <3>8. v[r] * a \in Nat /\ b * a \in Nat
      BY <3>5
    <3> QED BY <3>3, <3>4, <3>5, <3>6, <3>7, <3>8
  <2> QED BY <2>3, <2>4
<1>3. Nat \subseteq Good
  <2> HIDE DEF Good
  <2> QED BY <1>1, <1>2, InductionOverNat
<1>4. K \in Good /\ K \in 0 .. K
  BY <1>3
<1>5. Below(K)
  <2> HIDE DEF Below
  <2> QED BY <1>4
<1> QED BY <1>0, <1>5

\* Fields from bit k on make a multiple of 2 ^ k.
Multiple(x, k) == \E h \in Nat : x = h * 2 ^ k

LEMMA HighFields ==
  ASSUME NEW S, IsFiniteSet(S), NEW p, NEW n, NEW v, Layout(S, p, n, v),
         NEW g, \A r \in S : g[r] = v[r] * 2 ^ p[r],
         NEW K \in 0 .. 8, \A r \in S : p[r] >= K
  PROVE  Multiple(SumFunctionOnSet(g, S), K)
<1> DEFINE M == 2 ^ K
           N == {h * M : h \in Nat}
<1>1. M \in Nat
  <2>1. K \in 0 .. 30
    OBVIOUS
  <2> QED BY <2>1, PowerTypes
<1> HIDE DEF M
<1>2. N \in SUBSET Int /\ 0 \in N
  <2>1. 0 = 0 * M /\ \A h \in Nat : h * M \in Int
    BY <1>1
  <2> QED BY <2>1
<1>3. \A a, b \in N : a + b \in N
  <2> SUFFICES ASSUME NEW h \in Nat, NEW j \in Nat PROVE h * M + j * M \in N
    OBVIOUS
  <2>1. h * M + j * M = (h + j) * M /\ h + j \in Nat
    BY <1>1
  <2> QED BY <2>1
<1>4. ASSUME NEW r \in S PROVE g[r] \in N
  <2>1. PICK d \in 0 .. 30 : p[r] = d + K
    <3>1. p[r] - K \in 0 .. 30 /\ p[r] = (p[r] - K) + K
      BY DEF Layout
    <3> QED BY <3>1
  <2>2. d + K <= 30 /\ K \in 0 .. 30
    BY <2>1 DEF Layout
  <2>3. 2 ^ (d + K) = 2 ^ d * 2 ^ K
    BY <2>2, PowerAdds, Zenon
  <2>4. 2 ^ d \in Nat /\ v[r] \in Nat
    <3>1. 2 ^ d \in Nat
      BY PowerTypes
    <3>2. v[r] \in Nat
      BY LayoutTypes
    <3> QED BY <3>1, <3>2
  <2>5. g[r] = v[r] * (2 ^ d * M)
    BY <2>1, <2>3 DEF M
  <2>6. \A x, y \in Nat : x * (y * M) = (x * y) * M /\ x * y \in Nat
    BY <1>1
  <2> QED BY <2>4, <2>5, <2>6
<1>5. SumFunctionOnSet(g, S) \in N
  <2> HIDE DEF N
  <2> QED BY <1>2, <1>3, <1>4, SumClosed
<1> QED BY <1>5 DEF M, Multiple

\* Every field of the sum is the value that was put there.
LEMMA FieldOfSum ==
  ASSUME NEW S, IsFiniteSet(S), NEW p, NEW n, NEW v, Layout(S, p, n, v),
         NEW g, \A r \in S : g[r] = v[r] * 2 ^ p[r],
         NEW q \in S
  PROVE  Field(SumFunctionOnSet(g, S), n[q], p[q]) = v[q]
<1> DEFINE sum(T) == SumFunctionOnSet(g, T)
           L == {r \in S : p[r] + n[r] <= p[q]}
           H == {r \in S : p[q] + n[q] <= p[r]}
           R == S \ L
<1>1. p[q] \in 0 .. 7 /\ n[q] \in 1 .. 8 /\ p[q] + n[q] \in 0 .. 8 /\ v[q] \in 0 .. 2 ^ n[q] - 1
  BY DEF Layout
<1>2. q \in R /\ R \ {q} = H
  BY <1>1 DEF Layout
<1>3. L \in SUBSET S /\ R \in SUBSET S /\ H \in SUBSET S
  OBVIOUS
<1>4. \A T \in SUBSET S : /\ IsFiniteSet(T) /\ Layout(T, p, n, v) /\ \A r \in T : g[r] = v[r] * 2 ^ p[r]
                          /\ \A r \in T : g[r] \in Int
  <2> TAKE T \in SUBSET S
  <2>1. \A r \in T : g[r] \in Int
    BY LayoutTypes
  <2> QED BY <2>1, FS_Subset DEF Layout
<1>5. sum(L) \in Nat /\ sum(L) < 2 ^ p[q]
  <2>1. \A r \in L : p[r] + n[r] <= p[q]
    OBVIOUS
  <2>2. p[q] \in 0 .. 8
    BY <1>1
  <2> HIDE DEF L
  <2> QED BY <1>3, <1>4, <2>1, <2>2, LowFields
<1>6. PICK h \in Nat : sum(H) = h * 2 ^ (p[q] + n[q])
  <2> DEFINE K == p[q] + n[q]
  <2>1. \A r \in H : p[r] >= K
    BY DEF Layout
  <2>2. K \in 0 .. 8
    BY <1>1
  <2> HIDE DEF H, K
  <2>3. IsFiniteSet(H) /\ Layout(H, p, n, v) /\ \A r \in H : g[r] = v[r] * 2 ^ p[r]
    BY <1>3, <1>4
  <2>4. Multiple(sum(H), K)
    BY <2>1, <2>2, <2>3, HighFields
  <2> QED BY <2>4 DEF K, Multiple
<1> HIDE DEF L, R, H
<1>7. sum(S) = sum(L) + (g[q] + sum(H))
  <2>1. sum(S) = sum(L) + sum(R)
    BY <1>3, <1>4, SumSplit DEF R
  <2>2. sum(R) = g[q] + sum(H)
    BY <1>2, <1>3, <1>4, SumFacts
  <2> QED BY <2>1, <2>2
<1> DEFINE a == 2 ^ p[q]
           b == 2 ^ n[q]
<1>8. a \in Nat /\ b \in Nat /\ v[q] \in Nat /\ 2 ^ (p[q] + n[q]) = b * a /\ g[q] = v[q] * a
  <2>1. 2 ^ (n[q] + p[q]) = 2 ^ n[q] * 2 ^ p[q] /\ 2 ^ p[q] \in Nat /\ 2 ^ n[q] \in Nat /\ v[q] \in Nat
    BY LayoutTypes
  <2>2. n[q] + p[q] = p[q] + n[q]
    BY <1>1
  <2> QED BY <2>1, <2>2
<1>9. sum(S) = (h * b + v[q]) * a + sum(L)
  <2> HIDE DEF a, b, sum
  <2>1. \A w \in Nat : (h * b + w) * a = h * (b * a) + w * a
    BY <1>8
  <2>2. h * (b * a) \in Nat /\ v[q] * a \in Nat
    BY <1>8
  <2> QED BY <1>5, <1>6, <1>7, <1>8, <2>1, <2>2
<1>10. Carries(sum(S), n[q], p[q], v[q])
  BY <1>5, <1>9 DEF Carries
<1> QED BY <1>1, <1>10, FieldOfByte

\* What write_bo, write_mbbo and write_mbboDirect send for the value of a field of n
\* bits fits in the byte, and read_bi, read_mbbi and read_mbbiDirect get it back.
THEOREM FieldMessage ==
  ASSUME NEW io, io.parameter \in 0 .. 7, NEW n, NEW v, FieldFits(n, io, v)
  PROVE  LET byte == v * 2 ^ io.parameter IN
         /\ byte \in Nat /\ (Field(v, n, 0) * 2 ^ io.parameter) % 256 = byte
         /\ Field(byte, n, io.parameter) = v
<1> DEFINE p == io.parameter
           A == 2 ^ p
           B == 2 ^ n
<1>1. /\ p \in 0 .. 7 /\ n \in 1 .. 8 /\ p + n <= 8 /\ v \in 0 .. 2 ^ n - 1
  BY DEF FieldFits
<1> HIDE DEF p
<1>2. p \in 0 .. 30 /\ n \in 0 .. 30 /\ n + p <= 30 /\ n + p \in 0 .. 30 /\ 8 \in 0 .. 30 /\ n + p <= 8
  BY <1>1
<1>3. A \in Nat /\ A >= 1 /\ B \in Nat /\ B >= 1
  BY <1>2, PowerTypes
<1>4. B * A <= 256
  <2>1. 2 ^ (n + p) = B * A
    BY <1>2, PowerAdds, Zenon
  <2>2. 2 ^ (n + p) <= 2 ^ 8
    BY <1>2, PowerGrows, Zenon
  <2> QED BY <2>1, <2>2, 2 ^ 8 = 256
<1>5. v \in Nat /\ v < B
  BY <1>1, <1>3
<1>6. v * A \in Nat /\ v * A < 256
  <2> HIDE DEF A, B
  <2>1. \A x, y, z \in Nat : x < y /\ z >= 1 => x * z \in Nat /\ x * z < y * z
    OBVIOUS
  <2> QED BY <1>3, <1>4, <1>5, <2>1
<1>7. Field(v, n, 0) = v
  <2>1. v \div 1 = v /\ v % B = v
    <3> HIDE DEF B
    <3> QED BY <1>3, <1>5
  <2> QED BY <2>1, 2 ^ 0 = 1 DEF Field
<1>8. Field(v * A, n, p) = v
  <2>1. v * A = (0 * B + v) * A + 0 /\ 0 < A
    <3> HIDE DEF A, B
    <3> QED BY <1>3, <1>5
  <2>2. Carries(v * A, n, p, v)
    BY <2>1 DEF Carries
  <2> QED BY <1>1, <2>2, FieldOfByte
<1>9. (v * A) % 256 = v * A
  <2> HIDE DEF A
  <2> QED BY <1>6
<1> QED BY <1>6, <1>7, <1>8, <1>9 DEF p

\* An analogue message has numbers in bytes of its own.
LEMMA AnalogueBytes ==
  ASSUME NEW io, AnalogueAddress(io), io.offset \in Int, NEW v, AnalogueFits(io, v)
  PROVE  /\ \A j \in DOMAIN AoMessage(io, v) : AoMessage(io, v)[j] \in Int /\ j \in Int
         /\ \A j \in DOMAIN AoMessage(io, v) :
              j + io.offset \in io.offset .. io.offset + (IF AnalogueMask(io) = 0 THEN AnalogueSign(io)
                                                          ELSE Width(AnalogueMask(io))) - 1
<1> DEFINE mask == AnalogueMask(io)
           sign == AnalogueSign(io)
           w == Width(mask)
<1>1. CASE mask = 0 /\ sign \in {4, 8}
  <2>1. v \in 0 .. 3
    BY <1>1 DEF AnalogueFits
  <2>2. DOMAIN AoMessage(io, v) = {0} /\ AoMessage(io, v)[0] \in Int
    BY <1>1, <2>1 DEF AoMessage
  <2> QED BY <1>1, <2>2
<1>2. CASE mask = 0 /\ sign \notin {4, 8}
  <2>1. DOMAIN AoMessage(io, v) = {}
    BY <1>2 DEF AoMessage
  <2> QED BY <2>1
<1>3. CASE mask # 0
  <2>1. io.parameter # 0 /\ v \in Int
    BY <1>3 DEF AnalogueMask, AnalogueFits
  <2>2. mask \in Nat
    BY <2>1, Masks
  <2>3. w \in 1 .. 4
    BY DEF Width
  <2> DEFINE u == v % (mask + 1)
  <2>4. u \in Nat
    BY <2>1, <2>2
  <2> HIDE DEF w, u
  <2>5. AoMessage(io, v) = [i \in 0 .. w - 1 |-> (u \div 256 ^ (w - 1 - i)) % 256]
    BY <1>3 DEF AoMessage, w, u
  <2>6. ASSUME NEW i \in 0 .. w - 1 PROVE (u \div 256 ^ (w - 1 - i)) % 256 \in Int
    <3> DEFINE e == w - 1 - i
    <3>1. e = 0 \/ e = 1 \/ e = 2 \/ e = 3
      BY <2>3
    <3> HIDE DEF e
    <3>2. (u \div 256 ^ e) % 256 \in Int
      <4>1. CASE e = 0
        BY <2>4, <4>1
      <4>2. CASE e = 1
        BY <2>4, <4>2
      <4>3. CASE e = 2
        BY <2>4, <4>3
      <4>4. CASE e = 3
        BY <2>4, <4>4
      <4> QED BY <3>1, <4>1, <4>2, <4>3, <4>4
    <3> QED BY <3>2 DEF e
  <2>7. DOMAIN AoMessage(io, v) = 0 .. w - 1 /\ \A i \in 0 .. w - 1 : AoMessage(io, v)[i] \in Int
    BY <2>5, <2>6
  <2> QED BY <1>3, <2>3, <2>7 DEF w
<1> QED BY <1>1, <1>2, <1>3

\* An address that is read from another byte.
LEMMA InputFields ==
  ASSUME NEW a, CanIoParse(a).good, NEW n
  PROVE  LET io == [CanIoParse(a) EXCEPT !.offset = n] IN
         io.offset = n /\ io.parameter = CanIoParse(a).parameter /\ io.paramStr = CanIoParse(a).paramStr
<1> DEFINE t == IF ColonAt(a) = 2 THEN a.parts[1].num ELSE -1
           i == SumFunctionOnSet([j \in DOMAIN a.parts |-> a.parts[j].num], {ColonAt(a)} \cup Added(a)) % 65536
           f == IF HasOffset(a) THEN a.parts[DotAt(a)].num ELSE 0
           p == a.parts[LastAt(a)].num
           s == a.parts[LastAt(a)].str
           io == [good |-> TRUE, timeout |-> t, identifier |-> i, offset |-> f, parameter |-> p, paramStr |-> s]
<1>1. ~Malformed(a)
  BY DEF CanIoParse
<1>2. CanIoParse(a) = IF Malformed(a) THEN [good |-> FALSE] ELSE io
  BY DEF CanIoParse
<1>3. CanIoParse(a) = io
  <2> HIDE DEF io
  <2> QED BY <1>1, <1>2
<1> HIDE DEF t, i, f, p, s
<1> QED BY <1>3

=============================================================================
