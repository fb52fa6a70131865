--------------------------- MODULE FiniteNaturals ---------------------------
(***************************************************************************)
(* Facts about finite sets that the proofs share.  Sets of natural numbers *)
(* have a least and a greatest element, and their elements are numbered by *)
(* how many others lie below them; a sum over a set can be taken apart at  *)
(* any element.                                                            *)
(***************************************************************************)
EXTENDS FiniteSetTheorems, WorkSplit, Integers, TLAPS

\* The position of x among the elements of S, counted from zero.
Position(S, x) == Cardinality({y \in S : y < x})

\* The d least elements of S.
First(S, d) == {x \in S : Position(S, x) < d}

\* Every nonempty set of naturals has a least element.
LEMMA LeastElement ==
    ASSUME NEW S \in SUBSET Nat, S # {}
    PROVE  \E x \in S : \A y \in S : x <= y
<1>1. PICK x \in S : \A y \in S : << y, x >> \notin OpToRel(<, Nat)
    BY NatLessThanWellFounded, WFMin
<1>2. \A y \in S : ~(y < x)
    BY <1>1 DEF OpToRel
<1>3. QED
    BY <1>2

\* Every nonempty finite set of naturals has a greatest element.
LEMMA GreatestElement ==
    ASSUME NEW S \in SUBSET Nat, IsFiniteSet(S), S # {}
    PROVE  \E x \in S : \A y \in S : y <= x
<1> DEFINE HasGreatest(R) == \E x \in R : \A y \in R : y <= x
           Sizes == {n \in Nat : \E R \in SUBSET S : R # {} /\ Cardinality(R) = n /\ ~HasGreatest(R)}
<1>1. \A R \in SUBSET S : IsFiniteSet(R) /\ Cardinality(R) \in Nat
    BY FS_Subset, FS_CardinalityType
<1>2. SUFFICES ASSUME Sizes # {} PROVE FALSE
    BY <1>1
<1>3. PICK n \in Sizes : \A m \in Sizes : n <= m
    BY <1>2, LeastElement
<1>4. PICK R \in SUBSET S : R # {} /\ Cardinality(R) = n /\ ~HasGreatest(R)
    BY <1>3
<1>5. PICK x \in R : TRUE
    BY <1>4
<1>6. /\ R \ {x} \in SUBSET S
      /\ Cardinality(R \ {x}) = n - 1 /\ Cardinality(R \ {x}) \in Nat
    BY <1>1, <1>4, <1>5, FS_RemoveElement
<1>7. R \ {x} = {} \/ HasGreatest(R \ {x})
  <2>1. n - 1 \in Nat /\ n - 1 \notin Sizes
      BY <1>3, <1>6
  <2>2. QED
      BY <2>1, <1>6
<1>8. CASE R \ {x} = {}
    BY <1>4, <1>5, <1>8
<1>9. CASE HasGreatest(R \ {x})
  <2>1. PICK g \in R \ {x} : \A y \in R \ {x} : y <= g
      BY <1>9
  <2>2. g \in Nat /\ x \in Nat /\ \A y \in R : y \in Nat
      BY <1>4, <1>5, <2>1
  <2>3. CASE g <= x
    <3>1. \A y \in R : y <= x
        BY <2>1, <2>2, <2>3
    <3>2. QED
        BY <1>4, <1>5, <3>1
  <2>4. CASE x <= g
    <3>1. \A y \in R : y <= g
        BY <2>1, <2>4
    <3>2. QED
        BY <1>4, <2>1, <3>1
  <2>5. QED
      BY <2>2, <2>3, <2>4
<1>10. QED
    BY <1>7, <1>8, <1>9

\* Positions count, and they grow with the elements.
LEMMA PositionFacts ==
    ASSUME NEW S \in SUBSET Nat, IsFiniteSet(S), NEW x \in Nat, NEW y \in Nat
    PROVE  /\ Position(S, x) \in Nat
           /\ x <= y => Position(S, x) <= Position(S, y)
           /\ x \in S /\ x < y => Position(S, x) < Position(S, y)
           /\ x \in S => Position(S, x) < Cardinality(S)
<1> DEFINE Under(z) == {q \in S : q < z}
<1>1. \A R \in SUBSET S : IsFiniteSet(R) /\ Cardinality(R) \in Nat
    BY FS_Subset, FS_CardinalityType
<1>2. /\ IsFiniteSet(Under(x)) /\ Cardinality(Under(x)) \in Nat
      /\ IsFiniteSet(Under(y)) /\ Cardinality(Under(y)) \in Nat
    BY <1>1
<1>3. ASSUME x <= y PROVE Cardinality(Under(x)) <= Cardinality(Under(y))
  <2>1. \A q \in S : q \in Nat /\ (q < x => q < y)
      BY <1>3
  <2>2. Under(x) \in SUBSET Under(y)
      BY <2>1
  <2>3. QED
      BY <2>2, <1>2, FS_Subset
<1>4. ASSUME x \in S, NEW T \in SUBSET S, Under(x) \subseteq T, x \in T
      PROVE  Cardinality(Under(x)) < Cardinality(T)
  <2>1. x \notin Under(x) /\ Under(x) \cup {x} \in SUBSET T
      BY <1>4
  <2>2. Cardinality(Under(x) \cup {x}) = Cardinality(Under(x)) + 1
      BY <1>2, <2>1, FS_AddElement
  <2>3. IsFiniteSet(T) /\ Cardinality(T) \in Nat
      BY <1>1
  <2>4. Cardinality(Under(x) \cup {x}) <= Cardinality(T)
      BY <2>1, <2>3, FS_Subset
  <2>5. QED
      BY <1>2, <2>2, <2>3, <2>4
<1>5. ASSUME x \in S, x < y PROVE Cardinality(Under(x)) < Cardinality(Under(y))
  <2>1. \A q \in S : q \in Nat /\ (q < x => q < y)
      BY <1>5
  <2>2. Under(x) \subseteq Under(y) /\ x \in Under(y) /\ Under(y) \in SUBSET S
      BY <1>5, <2>1
  <2>3. QED
      BY <2>2, <1>4, <1>5
<1>6. ASSUME x \in S PROVE Cardinality(Under(x)) < Cardinality(S)
    BY <1>4, <1>6
<1>7. QED
    BY <1>2, <1>3, <1>5, <1>6 DEF Position

\* There are d elements at the first d positions, unless they are all there are.
LEMMA LowPositions ==
    ASSUME NEW S \in SUBSET Nat, IsFiniteSet(S), NEW d \in Nat
    PROVE  /\ IsFiniteSet(First(S, d)) /\ Cardinality(First(S, d)) \in Nat /\ Cardinality(First(S, d)) <= d
           /\ First(S, d) # S => Cardinality(First(S, d)) = d
           /\ \A x \in First(S, d), y \in S \ First(S, d) : x < y
<1>0. First(S, d) \subseteq S
    BY DEF First
<1>1. \A x \in S, y \in S : /\ Position(S, x) \in Nat /\ x \in Nat
                            /\ x < y => Position(S, x) < Position(S, y)
                            /\ x <= y => Position(S, x) <= Position(S, y)
    BY PositionFacts
<1>2. IsFiniteSet(First(S, d)) /\ Cardinality(First(S, d)) \in Nat
    BY FS_Subset, FS_CardinalityType DEF First
<1>3. Cardinality(First(S, d)) <= d
  <2> DEFINE f == [x \in First(S, d) |-> Position(S, x)]
  <2>1. \A x \in First(S, d) : Position(S, x) \in 0 .. d - 1
      BY <1>1 DEF First
  <2>2. ASSUME NEW x \in First(S, d), NEW y \in First(S, d), x # y
        PROVE  Position(S, x) # Position(S, y)
    <3>1. x \in S /\ y \in S
        BY <1>0
    <3>2. /\ Position(S, x) \in Nat /\ Position(S, y) \in Nat /\ x \in Nat /\ y \in Nat
          /\ x < y => Position(S, x) < Position(S, y)
          /\ y < x => Position(S, y) < Position(S, x)
        BY <3>1, <1>1
    <3>3. QED
        BY <3>2, <2>2
  <2>3. f \in Injection(First(S, d), 0 .. d - 1)
      BY <2>1, <2>2 DEF Injection, IsInjective
  <2>4. IsFiniteSet(0 .. d - 1) /\ Cardinality(0 .. d - 1) = d
    <3>1. 0 \in Int /\ d - 1 \in Int /\ (IF 0 > d - 1 THEN 0 ELSE (d - 1) - 0 + 1) = d
        OBVIOUS
    <3>2. QED
        BY <3>1, FS_Interval
  <2>5. QED
      BY <2>3, <2>4, FS_Injection
<1>4. ASSUME NEW x \in First(S, d), NEW y \in S \ First(S, d) PROVE x < y
  <2>1. x \in S /\ Position(S, x) < d /\ ~(Position(S, y) < d)
      BY DEF First
  <2>2. /\ Position(S, x) \in Nat /\ Position(S, y) \in Nat /\ x \in Nat /\ y \in Nat
        /\ y <= x => Position(S, y) <= Position(S, x)
      BY <2>1, <1>1
  <2>3. QED
      BY <2>1, <2>2
<1>5. ASSUME First(S, d) # S PROVE Cardinality(First(S, d)) = d
  <2>1. S \ First(S, d) \in SUBSET Nat /\ S \ First(S, d) # {}
      BY <1>0, <1>5
  <2>2. PICK z \in S \ First(S, d) : \A y \in S \ First(S, d) : z <= y
      BY <2>1, LeastElement
  <2>3. {y \in S : y < z} = First(S, d)
    <3>1. \A y \in S : y \in Nat /\ z \in Nat /\ (y \in S \ First(S, d) => ~(y < z)) /\ (y \in First(S, d) => y < z)
        BY <2>2, <1>1, <1>4
    <3>2. QED
        BY <3>1, <1>0
  <2>4. Position(S, z) = Cardinality(First(S, d)) /\ ~(Position(S, z) < d)
      BY <2>2, <2>3 DEF Position, First
  <2>5. QED
      BY <2>4, <1>2, <1>3
<1>6. QED
    BY <1>2, <1>3, <1>4, <1>5

\* The next n elements after the first d complete the first d + n.
LEMMA NextPositions ==
    ASSUME NEW S \in SUBSET Nat, IsFiniteSet(S), NEW d \in Nat, NEW n \in Nat
    PROVE  First(S, d) \cup First(S \ First(S, d), n) = First(S, d + n)
<1>1. /\ IsFiniteSet(First(S, d)) /\ Cardinality(First(S, d)) \in Nat
      /\ First(S, d) # S => Cardinality(First(S, d)) = d
      /\ \A x \in First(S, d), y \in S \ First(S, d) : x < y
    BY LowPositions
<1>2. First(S, d) \subseteq S /\ \A x \in S : Position(S, x) \in Nat
    BY PositionFacts DEF First
<1>3. ASSUME NEW x \in S \ First(S, d)
      PROVE  /\ Position(S, x) = d + Position(S \ First(S, d), x)
             /\ Position(S \ First(S, d), x) \in Nat
  <2> DEFINE rest == {y \in S \ First(S, d) : y < x}
  <2>1. {y \in S : y < x} = First(S, d) \cup rest
      BY <1>1, <1>2
  <2>2. IsFiniteSet(rest) /\ Cardinality(rest) \in Nat /\ First(S, d) \cap rest = {}
      BY FS_Subset, FS_CardinalityType
  <2>3. /\ Position(S \ First(S, d), x) = Cardinality(rest)
        /\ Position(S, x) = Cardinality(First(S, d) \cup rest)
      BY <2>1 DEF Position
  <2> HIDE DEF rest
  <2>4. Cardinality(First(S, d) \cup rest) = Cardinality(First(S, d)) + Cardinality(rest)
    <3>1. Cardinality(First(S, d) \cup rest) =
              Cardinality(First(S, d)) + Cardinality(rest) - Cardinality(First(S, d) \cap rest)
        BY <1>1, <2>2, FS_Union
    <3>2. Cardinality(First(S, d) \cap rest) = 0
        BY <2>2, FS_EmptySet
    <3>3. QED
        BY <1>1, <2>2, <3>1, <3>2
  <2>5. QED
      BY <1>1, <2>2, <2>3, <2>4
<1>4. \A x \in First(S, d) : x \in First(S, d + n)
    BY <1>2 DEF First
<1>5. ASSUME NEW x \in S \ First(S, d)
      PROVE  x \in First(S \ First(S, d), n) <=> x \in First(S, d + n)
  <2>1. x \in First(S \ First(S, d), n) <=> Position(S \ First(S, d), x) < n
      BY DEF First
  <2>2. x \in First(S, d + n) <=> Position(S, x) < d + n
      BY DEF First
  <2>3. QED
      BY <1>3, <2>1, <2>2
<1>6. First(S \ First(S, d), n) \subseteq S \ First(S, d) /\ First(S, d + n) \subseteq S
    BY DEF First
<1>7. QED
    BY <1>2, <1>4, <1>5, <1>6

-----------------------------------------------------------------------------
(***************************************************************************)
(* Sums.  SumOver is a recursive function over the subsets of a set; that  *)
(* there is one, and that the order of its summands does not matter, is    *)
(* shown by taking the smallest set for which it would not be so.          *)
(***************************************************************************)
\* s adds up f over every set of no more than n elements of S, the element taken
\* first being whichever CHOOSE takes.
Adds(s, f, S, n) ==
    s = [T \in {U \in SUBSET S : Cardinality(U) <= n} |->
            IF T = {} THEN 0
            ELSE f[CHOOSE x \in T : TRUE] + s[T \ {CHOOSE x \in T : TRUE}]]

\* There is such a function for every n.
LEMMA AdderExists ==
    ASSUME NEW S, IsFiniteSet(S), NEW f, NEW n \in Nat
    PROVE  \E s : Adds(s, f, S, n)
<1> DEFINE Bad == {m \in Nat : ~\E s : Adds(s, f, S, m)}
           Dom(m) == {U \in SUBSET S : Cardinality(U) <= m}
<1>1. \A U \in SUBSET S : IsFiniteSet(U) /\ Cardinality(U) \in Nat
    BY FS_Subset, FS_CardinalityType
<1>2. SUFFICES ASSUME Bad # {} PROVE FALSE
    OBVIOUS
<1>3. PICK m \in Bad : \A k \in Bad : m <= k
    BY <1>2, LeastElement
<1>4. CASE m = 0
  <2> DEFINE s == [T \in Dom(m) |-> 0]
  <2>1. \A T \in Dom(m) : T = {}
      BY <1>1, <1>4, FS_EmptySet
  <2>2. s = [T \in Dom(m) |-> IF T = {} THEN 0
                ELSE f[CHOOSE x \in T : TRUE] + s[T \ {CHOOSE x \in T : TRUE}]]
      BY <2>1
  <2>3. Adds(s, f, S, m)
      BY <2>2 DEF Adds
  <2>4. QED
      BY <2>3
<1>5. CASE m # 0
  <2>1. m - 1 \in Nat /\ m - 1 \notin Bad
      BY <1>3, <1>5
  <2>2. PICK old : Adds(old, f, S, m - 1)
      BY <2>1
  <2> DEFINE s == [T \in Dom(m) |-> IF T = {} THEN 0
                      ELSE f[CHOOSE x \in T : TRUE] + old[T \ {CHOOSE x \in T : TRUE}]]
  <2>3. ASSUME NEW T \in Dom(m - 1) PROVE T \in Dom(m) /\ s[T] = old[T]
    <3>1. Cardinality(T) \in Nat /\ T \in Dom(m)
        BY <1>1, <2>1
    <3>2. old[T] = IF T = {} THEN 0
                   ELSE f[CHOOSE x \in T : TRUE] + old[T \ {CHOOSE x \in T : TRUE}]
        BY <2>2 DEF Adds
    <3>3. QED
        BY <3>1, <3>2
  <2>4. ASSUME NEW T \in Dom(m), T # {} PROVE T \ {CHOOSE x \in T : TRUE} \in Dom(m - 1)
    <3>1. (CHOOSE x \in T : TRUE) \in T
        BY <2>4
    <3>2. IsFiniteSet(T) /\ Cardinality(T) \in Nat /\ Cardinality(T) <= m
        BY <1>1
    <3>3. Cardinality(T \ {CHOOSE x \in T : TRUE}) = Cardinality(T) - 1
        BY <3>1, <3>2, FS_RemoveElement
    <3>4. QED
        BY <3>2, <3>3, <2>1
  <2>5. \A T \in Dom(m) : s[T] = IF T = {} THEN 0
                ELSE f[CHOOSE x \in T : TRUE] + s[T \ {CHOOSE x \in T : TRUE}]
    <3>1. ASSUME NEW T \in Dom(m), T # {}
          PROVE  s[T \ {CHOOSE x \in T : TRUE}] = old[T \ {CHOOSE x \in T : TRUE}]
        BY <2>3, <2>4, <3>1
    <3>2. ASSUME NEW T \in Dom(m)
          PROVE  s[T] = IF T = {} THEN 0 ELSE f[CHOOSE x \in T : TRUE] + old[T \ {CHOOSE x \in T : TRUE}]
        OBVIOUS
    <3> HIDE DEF s
    <3>3. QED
        BY <3>1, <3>2
  <2>6. Adds(s, f, S, m)
    <3>1. s = [T \in Dom(m) |-> s[T]]
        OBVIOUS
    <3> HIDE DEF s
    <3>2. QED
        BY <2>5, <3>1 DEF Adds
  <2>7. QED
      BY <2>6
<1>6. QED
    BY <1>4, <1>5

\* s adds up f over every subset of S.
Unfolds(s, f, S) ==
    \A T \in SUBSET S : s[T] = IF T = {} THEN 0
                               ELSE f[CHOOSE x \in T : TRUE] + s[T \ {CHOOSE x \in T : TRUE}]

\* SumOver takes the elements one after the other.
LEMMA SumUnfolds ==
    ASSUME NEW S, IsFiniteSet(S), NEW f
    PROVE  \E s : Unfolds(s, f, S) /\ SumOver(f, S) = s[S]
<1> DEFINE Iter(s) == s = [T \in SUBSET S |-> IF T = {} THEN 0
                ELSE f[CHOOSE x \in T : TRUE] + s[T \ {CHOOSE x \in T : TRUE}]]
           iter == CHOOSE s : Iter(s)
<1>1. {U \in SUBSET S : Cardinality(U) <= Cardinality(S)} = SUBSET S
    BY FS_Subset, FS_CardinalityType
<1>2. \E s : Adds(s, f, S, Cardinality(S))
    BY AdderExists, FS_CardinalityType
<1>3. \E s : Iter(s)
    BY <1>1, <1>2 DEF Adds
<1>4. Iter(iter)
    BY <1>3
<1>5. SumOver(f, S) = iter[S]
    BY DEF SumOver, MapThenSumSet, MapThenFoldSet
<1>6. Unfolds(iter, f, S)
    BY <1>4 DEF Unfolds
<1>7. QED
    BY <1>5, <1>6

\* The value does not depend on the set that the recursion starts from.
LEMMA SumOfSubset ==
    ASSUME NEW S, IsFiniteSet(S), NEW f, NEW s, NEW t, NEW T \in SUBSET S,
           Unfolds(s, f, S), Unfolds(t, f, T)
    PROVE  s[T] = t[T]
<1> DEFINE Sizes == {n \in Nat : \E U \in SUBSET T : Cardinality(U) = n /\ s[U] # t[U]}
<1>1. \A U \in SUBSET T : U \in SUBSET S /\ IsFiniteSet(U) /\ Cardinality(U) \in Nat
    BY FS_Subset, FS_CardinalityType
<1>2. SUFFICES ASSUME Sizes # {} PROVE FALSE
    BY <1>1
<1>3. PICK n \in Sizes : \A m \in Sizes : n <= m
    BY <1>2, LeastElement
<1>4. PICK U \in SUBSET T : Cardinality(U) = n /\ s[U] # t[U]
    BY <1>3
<1>5. U # {}
    BY <1>1, <1>4 DEF Unfolds
<1>6. PICK y \in U : s[U] = f[y] + s[U \ {y}] /\ t[U] = f[y] + t[U \ {y}]
    BY <1>1, <1>5 DEF Unfolds
<1>7. Cardinality(U \ {y}) = n - 1 /\ n - 1 \in Nat
  <2>1. IsFiniteSet(U) /\ IsFiniteSet(U \ {y})
      BY <1>1, FS_RemoveElement
  <2>2. Cardinality(U \ {y}) = n - 1 /\ Cardinality(U \ {y}) \in Nat
      BY <1>4, <2>1, FS_RemoveElement, FS_CardinalityType
  <2>3. QED
      BY <2>2
<1>8. U \ {y} \in SUBSET T /\ n - 1 \notin Sizes
    BY <1>3, <1>7
<1>9. s[U \ {y}] = t[U \ {y}]
    BY <1>7, <1>8
<1>10. QED
    BY <1>4, <1>6, <1>9

\* Whichever element of a set is taken first, s adds up the same.
Commutes(s, f, U) == s[U] \in Nat /\ \A x \in U : s[U] = f[x] + s[U \ {x}]

LEMMA SumCommutes ==
    ASSUME NEW S, IsFiniteSet(S), NEW f, \A x \in S : f[x] \in Nat, NEW s, Unfolds(s, f, S)
    PROVE  \A U \in SUBSET S : Commutes(s, f, U)
<1> DEFINE Sizes == {n \in Nat : \E U \in SUBSET S : Cardinality(U) = n /\ ~Commutes(s, f, U)}
<1>1. \A U \in SUBSET S : IsFiniteSet(U) /\ Cardinality(U) \in Nat
    BY FS_Subset, FS_CardinalityType
<1>2. SUFFICES ASSUME Sizes # {} PROVE FALSE
    BY <1>1
<1>3. PICK n \in Sizes : \A m \in Sizes : n <= m
    BY <1>2, LeastElement
<1>4. PICK U \in SUBSET S : Cardinality(U) = n /\ ~Commutes(s, f, U)
    BY <1>3
<1>5. U # {}
    BY <1>4 DEF Unfolds, Commutes
<1>6. PICK y \in U : s[U] = f[y] + s[U \ {y}]
    BY <1>5 DEF Unfolds
<1>7. ASSUME NEW x \in U
      PROVE  IsFiniteSet(U \ {x}) /\ Cardinality(U \ {x}) = n - 1 /\ n - 1 \in Nat
  <2>1. IsFiniteSet(U) /\ IsFiniteSet(U \ {x})
      BY <1>1, FS_RemoveElement
  <2>2. Cardinality(U \ {x}) = n - 1 /\ Cardinality(U \ {x}) \in Nat
      BY <1>4, <2>1, FS_RemoveElement, FS_CardinalityType
  <2>3. QED
      BY <2>1, <2>2
<1>8. n - 1 \notin Sizes
    BY <1>3
<1>9. ASSUME NEW x \in U PROVE Commutes(s, f, U \ {x})
    BY <1>7, <1>8
<1>10. f[y] \in Nat /\ s[U] \in Nat
  <2>1. f[y] \in Nat /\ Commutes(s, f, U \ {y})
      BY <1>9
  <2>2. s[U \ {y}] \in Nat
      BY <2>1 DEF Commutes
  <2>3. QED
      BY <1>6, <2>1, <2>2
<1>11. ASSUME NEW x \in U, x # y PROVE s[U] = f[x] + s[U \ {x}]
  <2> DEFINE rest == (U \ {x}) \ {y}
  <2>1. rest = (U \ {y}) \ {x} /\ x \in U \ {y} /\ y \in U \ {x}
      BY <1>11
  <2>2. s[U \ {y}] = f[x] + s[rest] /\ s[U \ {x}] = f[y] + s[rest]
      BY <1>9, <2>1 DEF Commutes
  <2>3. s[rest] \in Nat
    <3> DEFINE larger == U \ {x}
    <3>1. IsFiniteSet(larger) /\ Cardinality(larger) = n - 1 /\ y \in larger /\ rest = larger \ {y}
        BY <1>7, <2>1
    <3> HIDE DEF larger
    <3>2. IsFiniteSet(rest) /\ Cardinality(rest) = (n - 1) - 1
        BY <3>1, FS_RemoveElement
    <3>3. Cardinality(rest) \in Nat /\ n \in Nat
        BY <3>2, FS_CardinalityType
    <3>4. n - 2 \notin Sizes /\ Cardinality(rest) = n - 2
        BY <1>3, <3>2, <3>3
    <3>5. rest \in SUBSET S
        OBVIOUS
    <3>6. Commutes(s, f, rest)
        BY <3>3, <3>4, <3>5
    <3>7. QED
        BY <3>6 DEF Commutes
  <2> HIDE DEF rest
  <2>4. f[x] \in Nat
      OBVIOUS
  <2>5. QED
      BY <1>6, <1>10, <2>2, <2>3, <2>4
<1>12. QED
    BY <1>4, <1>6, <1>10, <1>11 DEF Commutes

\* The sum over no elements is zero, and any element may be taken first.
LEMMA SumFacts ==
    ASSUME NEW S, IsFiniteSet(S), NEW f, \A x \in S : f[x] \in Nat
    PROVE  /\ SumOver(f, S) \in Nat
           /\ S = {} => SumOver(f, S) = 0
           /\ \A x \in S : SumOver(f, S) = f[x] + SumOver(f, S \ {x})
<1>1. PICK s : Unfolds(s, f, S) /\ SumOver(f, S) = s[S]
    BY SumUnfolds
<1>2. ASSUME NEW T \in SUBSET S PROVE SumOver(f, T) = s[T]
  <2>1. IsFiniteSet(T)
      BY FS_Subset
  <2>2. PICK t : Unfolds(t, f, T) /\ SumOver(f, T) = t[T]
      BY <2>1, SumUnfolds
  <2>3. s[T] = t[T]
      BY <1>1, <2>2, SumOfSubset
  <2>4. QED
      BY <2>2, <2>3
<1>3. Commutes(s, f, S)
    BY <1>1, SumCommutes
<1>4. S = {} => s[S] = 0
    BY <1>1 DEF Unfolds
<1>5. QED
    BY <1>1, <1>2, <1>3, <1>4 DEF Commutes

\* Larger terms make a larger sum.
LEMMA SumIsMonotone ==
    ASSUME NEW S, IsFiniteSet(S), NEW f, NEW g,
           \A x \in S : f[x] \in Nat /\ g[x] \in Nat /\ f[x] <= g[x]
    PROVE  SumOver(f, S) <= SumOver(g, S)
<1> DEFINE Bad == {n \in Nat : \E T \in SUBSET S : Cardinality(T) = n /\ ~(SumOver(f, T) <= SumOver(g, T))}
<1>1. \A T \in SUBSET S : IsFiniteSet(T) /\ Cardinality(T) \in Nat
    BY FS_Subset, FS_CardinalityType
<1>2. \A T \in SUBSET S : SumOver(f, T) \in Nat /\ SumOver(g, T) \in Nat
    BY <1>1, SumFacts
<1>3. SUFFICES ASSUME Bad # {} PROVE FALSE
    BY <1>1
<1>4. PICK n \in Bad : \A m \in Bad : n <= m
    BY <1>3, LeastElement
<1>5. PICK T \in SUBSET S : Cardinality(T) = n /\ ~(SumOver(f, T) <= SumOver(g, T))
    BY <1>4
<1>6. T # {}
  <2>1. T = {} => SumOver(f, T) = 0 /\ SumOver(g, T) = 0
      BY <1>1, SumFacts
  <2>2. QED
      BY <1>5, <2>1
<1>7. PICK x \in T : TRUE
    BY <1>6
<1>8. T \ {x} \in SUBSET S /\ Cardinality(T \ {x}) = n - 1 /\ n - 1 \in Nat /\ ~(n <= n - 1)
  <2>1. IsFiniteSet(T) /\ IsFiniteSet(T \ {x}) /\ T \ {x} \in SUBSET S
      BY <1>1
  <2>2. Cardinality(T \ {x}) = Cardinality(T) - 1
      BY <1>7, <2>1, FS_RemoveElement
  <2>3. n \in Nat /\ Cardinality(T \ {x}) \in Nat
      BY <1>1, <1>5, <2>1
  <2>4. QED
      BY <1>5, <2>1, <2>2, <2>3
<1>9. SumOver(f, T \ {x}) <= SumOver(g, T \ {x})
    BY <1>4, <1>8
<1>10. /\ SumOver(f, T) = f[x] + SumOver(f, T \ {x})
       /\ SumOver(g, T) = g[x] + SumOver(g, T \ {x})
    BY <1>1, <1>7, SumFacts
<1>11. /\ f[x] \in Nat /\ g[x] \in Nat /\ f[x] <= g[x]
       /\ SumOver(f, T \ {x}) \in Nat /\ SumOver(g, T \ {x}) \in Nat
    BY <1>2, <1>7, <1>8
<1>12. QED
    BY <1>5, <1>9, <1>10, <1>11

\* A sum of terms up to c is at most c for each of them.
LEMMA SumIsBounded ==
    ASSUME NEW S, IsFiniteSet(S), NEW c \in Nat, NEW f, \A x \in S : f[x] \in Nat /\ f[x] <= c
    PROVE  SumOver(f, S) <= Cardinality(S) * c
<1> DEFINE Bad == {n \in Nat : \E T \in SUBSET S : Cardinality(T) = n /\ ~(SumOver(f, T) <= n * c)}
<1>1. \A T \in SUBSET S : IsFiniteSet(T) /\ Cardinality(T) \in Nat
    BY FS_Subset, FS_CardinalityType
<1>2. \A T \in SUBSET S : SumOver(f, T) \in Nat
    BY <1>1, SumFacts
<1>3. SUFFICES ASSUME Bad # {} PROVE FALSE
  <2>1. Cardinality(S) \in Nat /\ S \in SUBSET S
      BY <1>1
  <2>2. QED
      BY <2>1
<1>4. PICK n \in Bad : \A m \in Bad : n <= m
    BY <1>3, LeastElement
<1>5. PICK T \in SUBSET S : Cardinality(T) = n /\ ~(SumOver(f, T) <= n * c)
    BY <1>4
<1>6. T # {}
  <2>1. T = {} => SumOver(f, T) = 0 /\ n = 0
      BY <1>1, <1>5, SumFacts, FS_EmptySet
  <2>2. 0 * c = 0
      OBVIOUS
  <2>3. QED
      BY <1>5, <2>1, <2>2
<1>7. PICK x \in T : TRUE
    BY <1>6
<1>8. T \ {x} \in SUBSET S /\ Cardinality(T \ {x}) = n - 1 /\ n - 1 \in Nat /\ ~(n <= n - 1)
  <2>1. IsFiniteSet(T) /\ IsFiniteSet(T \ {x}) /\ T \ {x} \in SUBSET S
      BY <1>1
  <2>2. Cardinality(T \ {x}) = Cardinality(T) - 1
      BY <1>7, <2>1, FS_RemoveElement
  <2>3. n \in Nat /\ Cardinality(T \ {x}) \in Nat
      BY <1>1, <1>5, <2>1
  <2>4. QED
      BY <1>5, <2>1, <2>2, <2>3
<1>9. SumOver(f, T \ {x}) <= (n - 1) * c
    BY <1>4, <1>8
<1>10. SumOver(f, T) = f[x] + SumOver(f, T \ {x})
    BY <1>1, <1>7, SumFacts
<1>11. f[x] \in Nat /\ f[x] <= c /\ SumOver(f, T \ {x}) \in Nat
    BY <1>2, <1>7, <1>8
<1>12. (n - 1) * c + c = n * c /\ (n - 1) * c \in Nat /\ n * c \in Nat
    BY <1>8
<1>13. QED
    BY <1>5, <1>9, <1>10, <1>11, <1>12

\* One term changes and the others stay.
LEMMA SumOfUpdate ==
    ASSUME NEW S, IsFiniteSet(S), NEW f, NEW g, NEW x \in S, \A y \in S : f[y] \in Nat,
           g[x] \in Nat, \A y \in S \ {x} : g[y] = f[y]
    PROVE  SumOver(g, S) + f[x] = SumOver(f, S) + g[x]
<1>1. IsFiniteSet(S \ {x}) /\ \A y \in S : f[y] \in Nat /\ g[y] \in Nat
    BY FS_RemoveElement
<1>2. /\ SumOver(f, S) = f[x] + SumOver(f, S \ {x})
      /\ SumOver(g, S) = g[x] + SumOver(g, S \ {x})
    BY <1>1, SumFacts
<1>3. SumOver(f, S \ {x}) \in Nat /\ SumOver(g, S \ {x}) \in Nat
    BY <1>1, SumFacts
<1>4. SumOver(f, S \ {x}) <= SumOver(g, S \ {x}) /\ SumOver(g, S \ {x}) <= SumOver(f, S \ {x})
  <2>1. \A y \in S \ {x} : /\ f[y] \in Nat /\ g[y] \in Nat
                           /\ f[y] <= g[y] /\ g[y] <= f[y]
      BY <1>1
  <2>2. QED
      BY <1>1, <2>1, SumIsMonotone
<1>5. QED
    BY <1>1, <1>2, <1>3, <1>4

\* Every number below the size of S is the position of an element.
LEMMA PositionTaken ==
    ASSUME NEW S \in SUBSET Nat, IsFiniteSet(S), NEW d \in Nat, d < Cardinality(S)
    PROVE  \E x \in S : Position(S, x) = d
<1>1. Cardinality(S) \in Nat /\ d + 1 \in Nat
    BY FS_CardinalityType
<1>2. /\ IsFiniteSet(First(S, d)) /\ Cardinality(First(S, d)) <= d /\ Cardinality(First(S, d)) \in Nat
      /\ Cardinality(First(S, d + 1)) \in Nat
      /\ First(S, d + 1) # S => Cardinality(First(S, d + 1)) = d + 1
    BY <1>1, LowPositions
<1>3. Cardinality(First(S, d + 1)) > d
    BY <1>1, <1>2
<1>4. First(S, d + 1) # First(S, d)
    BY <1>2, <1>3
<1>5. \A x \in S : Position(S, x) \in Nat
    BY PositionFacts
<1>6. First(S, d) \subseteq First(S, d + 1)
  <2>1. ASSUME NEW x \in First(S, d) PROVE x \in S /\ Position(S, x) < d + 1
    <3>1. x \in S /\ Position(S, x) < d
        BY DEF First
    <3>2. Position(S, x) \in Nat
        BY <1>5, <3>1
    <3>3. QED
        BY <3>1, <3>2
  <2>2. QED
      BY <2>1 DEF First
<1>7. PICK x \in First(S, d + 1) : x \notin First(S, d)
    BY <1>4, <1>6
<1>8. x \in S /\ Position(S, x) < d + 1 /\ ~(Position(S, x) < d)
    BY <1>7 DEF First
<1>9. QED
    BY <1>5, <1>8

\* A finite set is as large as its classes together.
LEMMA CountByClass ==
    ASSUME NEW R, IsFiniteSet(R), NEW S, IsFiniteSet(S), NEW f, \A x \in R : f[x] \in S
    PROVE  Cardinality(R) = SumOver([s \in S |-> Cardinality({x \in R : f[x] = s})], S)
<1> DEFINE Class(U, s) == {x \in U : f[x] = s}
           Sizes(U)    == [s \in S |-> Cardinality(Class(U, s))]
           Bad == {n \in Nat : \E U \in SUBSET R : Cardinality(U) = n /\ n # SumOver(Sizes(U), S)}
<1>1. \A U \in SUBSET R : IsFiniteSet(U) /\ Cardinality(U) \in Nat
    BY FS_Subset, FS_CardinalityType
<1>2. ASSUME NEW U \in SUBSET R
      PROVE  \A s \in S : /\ Sizes(U)[s] = Cardinality(Class(U, s)) /\ Sizes(U)[s] \in Nat
                          /\ IsFiniteSet(Class(U, s))
  <2>1. \A s \in S : Class(U, s) \in SUBSET R
      OBVIOUS
  <2>2. QED
      BY <1>1, <2>1
<1>3. SUFFICES ASSUME Bad # {} PROVE FALSE
  <2>1. Cardinality(R) \notin Bad /\ Cardinality(R) \in Nat /\ R \in SUBSET R
      BY <1>1, <1>3
  <2>2. Cardinality(R) = SumOver(Sizes(R), S)
      BY <2>1
  <2>3. QED
      BY <2>2
<1>4. PICK n \in Bad : \A m \in Bad : n <= m
    BY <1>3, LeastElement
<1>5. PICK U \in SUBSET R : Cardinality(U) = n /\ n # SumOver(Sizes(U), S)
    BY <1>4
<1>6. CASE U = {}
  <2>1. n = 0
      BY <1>5, <1>6, FS_EmptySet
  <2>2. ASSUME NEW s \in S PROVE Sizes(U)[s] = 0
    <3>1. Class(U, s) = {}
        BY <1>6
    <3>2. QED
        BY <1>2, <3>1, FS_EmptySet
  <2> DEFINE c == Sizes(U)
  <2>3. \A s \in S : c[s] \in Nat /\ c[s] <= 0
      BY <2>2
  <2> HIDE DEF c
  <2>4. SumOver(c, S) <= Cardinality(S) * 0 /\ SumOver(c, S) \in Nat /\ Cardinality(S) \in Nat
      BY <2>3, SumIsBounded, SumFacts, FS_CardinalityType
  <2>5. SumOver(c, S) = 0
      BY <2>4
  <2>6. QED
      BY <1>5, <2>1, <2>5 DEF c
<1>7. CASE U # {}
  <2>1. PICK x \in U : TRUE
      BY <1>7
  <2> DEFINE V == U \ {x}
             c == Sizes(U)
             d == Sizes(V)
  <2>2. /\ V \in SUBSET R /\ f[x] \in S
        /\ Cardinality(V) = n - 1 /\ Cardinality(V) \in Nat /\ n \in Nat
      BY <1>1, <1>4, <1>5, <2>1, FS_RemoveElement
  <2>3. n - 1 = SumOver(d, S)
    <3>1. n - 1 \notin Bad /\ n - 1 \in Nat
      <4> HIDE DEF Bad, V
      <4>1. n \in Nat /\ n - 1 \in Nat
          BY <2>2
      <4>2. ~(n <= n - 1)
          BY <4>1
      <4>3. QED
          BY <1>4, <4>1, <4>2
    <3>2. QED
        BY <2>2, <3>1
  <2>4. /\ \A s \in S : c[s] = Cardinality(Class(U, s)) /\ c[s] \in Nat /\ IsFiniteSet(Class(U, s))
        /\ \A s \in S : d[s] = Cardinality(Class(V, s)) /\ d[s] \in Nat
      BY <1>2, <2>2
  <2>5. ASSUME NEW s \in S, s # f[x] PROVE c[s] = d[s]
    <3>1. Class(U, s) = Class(V, s)
        BY <2>5
    <3>2. QED
        BY <2>4, <3>1
  <2>6. c[f[x]] = d[f[x]] + 1
    <3>1. Class(V, f[x]) = Class(U, f[x]) \ {x} /\ x \in Class(U, f[x])
        BY <2>1
    <3>2. Cardinality(Class(U, f[x]) \ {x}) = Cardinality(Class(U, f[x])) - 1
        BY <2>2, <2>4, <3>1, FS_RemoveElement
    <3>3. c[f[x]] = Cardinality(Class(U, f[x])) /\ d[f[x]] = Cardinality(Class(U, f[x]) \ {x})
        BY <2>2, <2>4, <3>1
    <3>4. c[f[x]] \in Nat
        BY <2>2, <2>4
    <3> HIDE DEF c, d, Class
    <3>5. QED
        BY <3>2, <3>3, <3>4
  <2>7. /\ \A s \in S : c[s] \in Nat /\ d[s] \in Nat
        /\ \A s \in S \ {f[x]} : c[s] = d[s]
      BY <2>4, <2>5
  <2>8. n # SumOver(c, S)
      BY <1>5
  <2> HIDE DEF c, d
  <2>9. SumOver(c, S) + d[f[x]] = SumOver(d, S) + c[f[x]]
      BY <2>2, <2>7, SumOfUpdate
  <2>10. SumOver(c, S) \in Nat /\ SumOver(d, S) \in Nat
      BY <2>7, SumFacts
  <2>11. QED
      BY <2>2, <2>3, <2>6, <2>7, <2>8, <2>9, <2>10
<1>8. QED
    BY <1>6, <1>7

\* Numbers that are no larger than others, but not less in sum, are the same.
LEMMA SumsMeet ==
    ASSUME NEW S, IsFiniteSet(S), NEW f, NEW g,
           \A x \in S : f[x] \in Nat /\ g[x] \in Nat /\ f[x] <= g[x],
           SumOver(g, S) <= SumOver(f, S)
    PROVE  \A x \in S : f[x] = g[x]
<1> SUFFICES ASSUME NEW x \in S PROVE f[x] = g[x]
    OBVIOUS
<1>1. IsFiniteSet(S \ {x})
    BY FS_RemoveElement
<1>2. /\ SumOver(f, S) = f[x] + SumOver(f, S \ {x})
      /\ SumOver(g, S) = g[x] + SumOver(g, S \ {x})
    BY SumFacts
<1>3. SumOver(f, S \ {x}) \in Nat /\ SumOver(g, S \ {x}) \in Nat
    BY <1>1, SumFacts
<1>4. SumOver(f, S \ {x}) <= SumOver(g, S \ {x})
    BY <1>1, SumIsMonotone
<1>5. QED
    BY <1>2, <1>3, <1>4

\* When things are dealt to d places in turn, no place gets two more than another.
LEMMA DealtInTurn ==
    ASSUME NEW S \in SUBSET Nat, IsFiniteSet(S), NEW d \in Nat, d > 0,
           NEW f \in 0 .. d - 1, NEW g \in 0 .. d - 1
    PROVE  Cardinality({x \in S : Position(S, x) % d = f})
              <= Cardinality({x \in S : Position(S, x) % d = g}) + 1
<1> DEFINE F  == {x \in S : Position(S, x) % d = f}
           G  == {x \in S : Position(S, x) % d = g}
           F1 == {x \in F : g <= f \/ Position(S, x) >= d}
           Near(x, y) == Position(S, y) = Position(S, x) - f + (IF g <= f THEN g ELSE g - d)
<1>1. \A R \in SUBSET S : IsFiniteSet(R) /\ Cardinality(R) \in Nat
    BY FS_Subset, FS_CardinalityType
<1>2. /\ \A x \in S : Position(S, x) \in Nat /\ Position(S, x) < Cardinality(S)
      /\ \A x \in S, y \in S : Position(S, x) = Position(S, y) => x = y
  <2>1. \A x \in S, y \in S : /\ Position(S, x) \in Nat /\ Position(S, x) < Cardinality(S)
                              /\ x \in Nat /\ y \in Nat
                              /\ x < y => Position(S, x) < Position(S, y)
                              /\ y < x => Position(S, y) < Position(S, x)
      BY PositionFacts
  <2>2. QED
      BY <2>1
<1>3. ASSUME NEW x \in F1 PROVE \E y \in G : Near(x, y)
  <2> DEFINE p == Position(S, x)
             q == p \div d
             t == IF g <= f THEN q ELSE q - 1
  <2>1. p \in Nat /\ p < Cardinality(S) /\ p % d = f /\ (g <= f \/ p >= d) /\ Cardinality(S) \in Nat
      BY <1>1, <1>2
  <2> HIDE DEF p
  <2>2. p = q * d + f /\ q \in Nat
      BY <2>1
  <2>3. p >= d => q >= 1
      BY <2>1
  <2> HIDE DEF q
  <2>4. t \in Nat
      BY <2>1, <2>2, <2>3
  <2>5. (q - 1) * d = q * d - d /\ q * d \in Nat
      BY <2>2
  <2>6. t * d + g = p - f + (IF g <= f THEN g ELSE g - d)
      BY <2>2, <2>5
  <2>7. t * d + g \in Nat /\ t * d + g <= p
    <3>1. t * d \in Nat
        BY <2>4
    <3>2. QED
        BY <2>1, <2>6, <3>1
  <2>8. (t * d + g) % d = g
    <3> HIDE DEF t
    <3>1. t \in Nat /\ d \in Nat /\ d > 0 /\ g \in 0 .. d - 1
        BY <2>4
    <3>2. QED
        BY <3>1
  <2> HIDE DEF t
  <2>9. PICK y \in S : Position(S, y) = t * d + g
    <3>1. t * d + g < Cardinality(S)
        BY <2>1, <2>7
    <3>2. QED
        BY <2>7, <3>1, PositionTaken
  <2>10. QED
      BY <2>6, <2>8, <2>9 DEF p
<1>4. Cardinality(F1) <= Cardinality(G)
  <2> DEFINE to == [x \in F1 |-> CHOOSE y \in G : Near(x, y)]
  <2>1. \A x \in F1 : to[x] \in G /\ Near(x, to[x])
      BY <1>3
  <2>2. \A x \in F1, y \in F1 : to[x] = to[y] => x = y
    <3>1. TAKE x \in F1, y \in F1
    <3>2. HAVE to[x] = to[y]
    <3>3. Position(S, x) \in Nat /\ Position(S, y) \in Nat /\ Near(x, to[x]) /\ Near(y, to[x])
        BY <1>2, <2>1, <3>2
    <3>4. Position(S, x) = Position(S, y)
        BY <3>3
    <3>5. QED
        BY <1>2, <3>4
  <2>3. to \in [F1 -> G]
      BY <2>1
  <2> HIDE DEF to, F1, G
  <2>4. to \in Injection(F1, G)
      BY <2>2, <2>3 DEF Injection, IsInjective
  <2>5. IsFiniteSet(G)
      BY <1>1 DEF G
  <2>6. QED
      BY <2>4, <2>5, FS_Injection
<1>5. ASSUME NEW x \in F \ F1, NEW y \in F \ F1 PROVE x = y
  <2>1. ASSUME NEW z \in F \ F1 PROVE Position(S, z) = f
    <3>1. Position(S, z) \in Nat /\ Position(S, z) % d = f /\ ~(Position(S, z) >= d)
        BY <1>2
    <3>2. QED
        BY <3>1
  <2>2. QED
      BY <1>2, <2>1
<1>6. Cardinality(F) <= Cardinality(F1) + 1
  <2>1. IsFiniteSet(F) /\ Cardinality(F) \in Nat /\ F1 \subseteq F
    <3>1. F \in SUBSET S
        OBVIOUS
    <3>2. QED
        BY <1>1, <3>1
  <2> HIDE DEF F, F1
  <2>2. CASE F = F1
      BY <2>1, <2>2
  <2>3. CASE F # F1
    <3>1. PICK e \in F : e \notin F1
        BY <2>1, <2>3
    <3>2. F1 = F \ {e}
        BY <1>5, <2>1, <3>1
    <3>3. Cardinality(F \ {e}) = Cardinality(F) - 1
        BY <2>1, <3>1, FS_RemoveElement
    <3>4. QED
        BY <2>1, <3>2, <3>3
  <2>4. QED
      BY <2>2, <2>3
<1>7. Cardinality(F) \in Nat /\ Cardinality(F1) \in Nat /\ Cardinality(G) \in Nat
    BY <1>1
<1>8. QED
    BY <1>4, <1>6, <1>7
=============================================================================
