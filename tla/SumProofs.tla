----------------------------- MODULE SumProofs -----------------------------
(***************************************************************************)
(* What SumFunctionOnSet, the sum the model takes of table columns, does.  *)
(* It is a fold of the community modules: a function CHOSEN to obey a      *)
(* recursion over the subsets of a finite set.  That such a function       *)
(* exists, and that two of them agree, goes by induction on the size of    *)
(* the subsets; the facts the other proofs cite (one summand changed, one  *)
(* taken out, zeros left out) follow from it.                              *)
(***************************************************************************)
EXTENDS Functions, FiniteSetTheorems, WellFoundedInduction, TLAPS

-----------------------------------------------------------------------------
(***************************************************************************)
(* The fold obeys its recursion.                                           *)
(***************************************************************************)

\* Induction over the naturals, as a fact about sets: a least counterexample
\* would have a predecessor.

LEMMA NatSets ==
  ASSUME NEW A, 0 \in A, \A n \in Nat : n \in A => n + 1 \in A
  PROVE  Nat \subseteq A
<1> DEFINE less == OpToRel(<, Nat)
           rest == Nat \ A
<1> SUFFICES ASSUME rest # {} PROVE FALSE
  OBVIOUS
<1>1. PICK m \in rest : \A n \in rest : <<n, m>> \notin less
  <2>1. IsWellFoundedOn(less, Nat)
    BY NatLessThanWellFounded
  <2> HIDE DEF less
  <2> QED BY <2>1, WFMin
<1>2. m # 0 /\ m \in Nat
  OBVIOUS
<1>3. m - 1 \in Nat /\ m - 1 < m
  BY <1>2
<1>4. <<m - 1, m>> \in less
  BY <1>2, <1>3, Zenon DEF OpToRel
<1>5. m - 1 \in A
  BY <1>1, <1>3, <1>4
<1> QED BY <1>2, <1>3, <1>5

\* The element the fold takes next.
Chosen(T) == CHOOSE x \in T : TRUE

\* What one step of the fold makes of the sums of smaller sets.
FoldStep(f, sum, T) == IF T = {} THEN 0 ELSE f[Chosen(T)] + sum[T \ {Chosen(T)}]

\* sum holds the sum of every subset of S.
Sums(f, S, sum) == sum = [T \in SUBSET S |-> FoldStep(f, sum, T)]

\* SumFunctionOnSet, unfolded once.
LEMMA SumDef ==
  ASSUME NEW f, NEW S
  PROVE  SumFunctionOnSet(f, S) = (CHOOSE sum : Sums(f, S, sum))[S]
  BY Zenon DEF SumFunctionOnSet, FoldFunctionOnSet, MapThenFoldSet, Sums, FoldStep, Chosen

\* The recursion comes to an end.
LEMMA SmallerSet ==
  ASSUME NEW T, IsFiniteSet(T), T # {}
  PROVE  /\ Chosen(T) \in T
         /\ IsFiniteSet(T \ {Chosen(T)})
         /\ Cardinality(T) \in Nat \ {0}
         /\ Cardinality(T \ {Chosen(T)}) = Cardinality(T) - 1
<1>1. Chosen(T) \in T
  BY Zenon DEF Chosen
<1>2. Cardinality(T) \in Nat /\ Cardinality(T) # 0
  BY FS_CardinalityType, FS_EmptySet
<1> QED BY <1>1, <1>2, FS_RemoveElement

\* A fold over a finite set is well defined: there is a function that obeys its
\* recursion, built up over the sizes of the subsets.
LEMMA SumsExist ==
  ASSUME NEW f, NEW S, IsFiniteSet(S)
  PROVE  \E sum : Sums(f, S, sum)
<1> DEFINE Small(n) == {T \in SUBSET S : Cardinality(T) <= n}
           Upto(n, sum) == \A T \in Small(n) : sum[T] = FoldStep(f, sum, T)
           A == {n \in Nat : \E sum : Upto(n, sum)}
<1>0. \A T \in SUBSET S : IsFiniteSet(T) /\ Cardinality(T) \in Nat /\ Cardinality(T) <= Cardinality(S)
  BY FS_Subset, FS_CardinalityType
<1>1. 0 \in A
  <2> DEFINE zero == [T \in SUBSET S |-> 0]
  <2>1. ASSUME NEW T \in Small(0) PROVE zero[T] = FoldStep(f, zero, T)
    <3>1. T = {}
      BY <1>0, FS_EmptySet
    <3> QED BY <3>1 DEF FoldStep
  <2> HIDE DEF zero
  <2> QED BY <2>1
<1>2. ASSUME NEW n \in Nat, n \in A PROVE n + 1 \in A
  <2>1. PICK sum : Upto(n, sum)
    BY <1>2
  <2> DEFINE next == [T \in SUBSET S |-> IF Cardinality(T) <= n THEN sum[T] ELSE FoldStep(f, sum, T)]
  <2>2. ASSUME NEW T \in Small(n + 1) PROVE next[T] = FoldStep(f, next, T)
    <3>1. CASE T = {}
      <4>1. Cardinality(T) <= n /\ T \in Small(n)
        BY <3>1, FS_EmptySet
      <4> QED BY <2>1, <3>1, <4>1 DEF FoldStep
    <3>2. CASE T # {}
      <4> DEFINE U == T \ {Chosen(T)}
      <4>1. U \in SUBSET S /\ Cardinality(U) <= n
        BY <1>0, <3>2, SmallerSet
      <4>2. next[U] = sum[U]
        BY <4>1
      <4>3. FoldStep(f, next, T) = FoldStep(f, sum, T)
        BY <3>2, <4>2 DEF FoldStep
      <4>4. Cardinality(T) <= n => sum[T] = FoldStep(f, sum, T)
        BY <2>1
      <4>5. next[T] = FoldStep(f, sum, T)
        BY <4>4
      <4> QED BY <4>3, <4>5
    <3> QED BY <3>1, <3>2
  <2> HIDE DEF next
  <2> QED BY <2>2
<1>3. Nat \subseteq A
  <2> HIDE DEF A
  <2> QED BY <1>1, <1>2, NatSets
<1>4. PICK sum : Upto(Cardinality(S), sum)
  BY <1>0, <1>3
<1> DEFINE total == [T \in SUBSET S |-> sum[T]]
<1>5. ASSUME NEW T \in SUBSET S PROVE total[T] = FoldStep(f, total, T)
  <2>1. sum[T] = FoldStep(f, sum, T)
    BY <1>0, <1>4
  <2>2. FoldStep(f, total, T) = FoldStep(f, sum, T)
    BY DEF FoldStep
  <2> QED BY <2>1, <2>2
<1>6. total = [T \in SUBSET S |-> FoldStep(f, total, T)]
  <2>1. total = [T \in SUBSET S |-> total[T]]
    OBVIOUS
  <2> HIDE DEF total
  <2> QED BY <2>1, <1>5
<1> HIDE DEF total
<1> QED BY <1>6 DEF Sums

\* Two folds of functions that agree give a common set the same sum.
LEMMA SumsAgree ==
  ASSUME NEW f, NEW S, NEW sum, Sums(f, S, sum),
         NEW g, NEW R, NEW other, Sums(g, R, other),
         NEW D, IsFiniteSet(D), D \subseteq S, D \subseteq R,
         \A x \in D : f[x] = g[x]
  PROVE  sum[D] = other[D]
<1> DEFINE A == {n \in Nat : \A T \in SUBSET D : Cardinality(T) = n => sum[T] = other[T]}
<1>0. \A T \in SUBSET D : IsFiniteSet(T) /\ Cardinality(T) \in Nat
  BY FS_Subset, FS_CardinalityType
<1>1. ASSUME NEW T \in SUBSET D
      PROVE  sum[T] = FoldStep(f, sum, T) /\ other[T] = FoldStep(g, other, T)
  <2>1. T \in SUBSET S /\ T \in SUBSET R
    OBVIOUS
  <2>2. sum[T] = FoldStep(f, sum, T)
    BY <2>1, Zenon DEF Sums
  <2>3. other[T] = FoldStep(g, other, T)
    BY <2>1, Zenon DEF Sums
  <2> QED BY <2>2, <2>3
<1>2. 0 \in A
  <2>1. ASSUME NEW T \in SUBSET D, Cardinality(T) = 0 PROVE sum[T] = other[T]
    <3>1. T = {}
      BY <1>0, <2>1, FS_EmptySet
    <3> QED BY <1>1, <3>1 DEF FoldStep
  <2> QED BY <2>1
<1>3. ASSUME NEW n \in Nat, n \in A PROVE n + 1 \in A
  <2>1. ASSUME NEW T \in SUBSET D, Cardinality(T) = n + 1 PROVE sum[T] = other[T]
    <3>1. T # {} /\ IsFiniteSet(T)
      BY <1>0, <2>1, FS_EmptySet
    <3> DEFINE U == T \ {Chosen(T)}
    <3>2. U \in SUBSET D /\ Cardinality(U) = n /\ Chosen(T) \in D
      BY <2>1, <3>1, SmallerSet
    <3>3. sum[U] = other[U] /\ f[Chosen(T)] = g[Chosen(T)]
      BY <1>3, <3>2
    <3> QED BY <1>1, <3>1, <3>3 DEF FoldStep
  <2> QED BY <2>1
<1>4. Nat \subseteq A
  <2> HIDE DEF A
  <2> QED BY <1>2, <1>3, NatSets
<1> QED BY <1>0, <1>4

-----------------------------------------------------------------------------
(***************************************************************************)
(* Sums.                                                                   *)
(***************************************************************************)

\* A sum over nothing.
LEMMA SumOfNothing ==
  ASSUME NEW f PROVE SumFunctionOnSet(f, {}) = 0
<1>1. PICK sum : Sums(f, {}, sum)
  BY SumsExist, FS_EmptySet
<1> DEFINE chosen == CHOOSE s : Sums(f, {}, s)
<1>2. Sums(f, {}, chosen)
  BY <1>1, Zenon
<1> HIDE DEF chosen
<1>3. chosen[{}] = FoldStep(f, chosen, {})
  BY <1>2, Zenon DEF Sums
<1>4. SumFunctionOnSet(f, {}) = chosen[{}]
  BY SumDef, Zenon DEF chosen
<1> QED BY <1>3, <1>4 DEF FoldStep

\* Only what is summed matters.
LEMMA SumOfEqual ==
  ASSUME NEW f, NEW g, NEW S, IsFiniteSet(S), \A x \in S : f[x] = g[x]
  PROVE  SumFunctionOnSet(f, S) = SumFunctionOnSet(g, S)
<1> DEFINE one == CHOOSE s : Sums(f, S, s)
           two == CHOOSE s : Sums(g, S, s)
<1>1. Sums(f, S, one) /\ Sums(g, S, two)
  BY SumsExist, Zenon
<1>2. SumFunctionOnSet(f, S) = one[S] /\ SumFunctionOnSet(g, S) = two[S]
  BY SumDef, Zenon
<1> HIDE DEF one, two
<1> QED BY <1>1, <1>2, SumsAgree

\* The fold takes the element it chooses first.
LEMMA SumOfChosen ==
  ASSUME NEW f, NEW S, IsFiniteSet(S), S # {}
  PROVE  SumFunctionOnSet(f, S)
           = f[Chosen(S)] + SumFunctionOnSet(f, S \ {Chosen(S)})
<1> DEFINE R == S \ {Chosen(S)}
           one == CHOOSE s : Sums(f, S, s)
           two == CHOOSE s : Sums(f, R, s)
<1>1. IsFiniteSet(R)
  BY SmallerSet
<1>2. Sums(f, S, one) /\ Sums(f, R, two)
  BY <1>1, SumsExist, Zenon
<1>3. SumFunctionOnSet(f, S) = one[S] /\ SumFunctionOnSet(f, R) = two[R]
  BY SumDef, Zenon
<1> HIDE DEF one, two
<1>4. one[R] = two[R]
  BY <1>1, <1>2, SumsAgree
<1>5. one[S] = FoldStep(f, one, S)
  BY <1>2, Zenon DEF Sums
<1> QED BY <1>3, <1>4, <1>5 DEF FoldStep

\* A sum of integers is one.
LEMMA SumIsInt ==
  ASSUME NEW S, IsFiniteSet(S), NEW f, \A x \in S : f[x] \in Int
  PROVE  SumFunctionOnSet(f, S) \in Int
<1> DEFINE A == {n \in Nat : \A T \in SUBSET S :
                   Cardinality(T) = n => SumFunctionOnSet(f, T) \in Int}
<1>0. \A T \in SUBSET S : IsFiniteSet(T) /\ Cardinality(T) \in Nat
  BY FS_Subset, FS_CardinalityType
<1>1. 0 \in A
  BY <1>0, FS_EmptySet, SumOfNothing
<1>2. ASSUME NEW n \in Nat, n \in A PROVE n + 1 \in A
  <2>1. ASSUME NEW T \in SUBSET S, Cardinality(T) = n + 1
        PROVE  SumFunctionOnSet(f, T) \in Int
    <3>1. T # {} /\ IsFiniteSet(T)
      BY <1>0, <2>1, FS_EmptySet
    <3> DEFINE U == T \ {Chosen(T)}
    <3>2. U \in SUBSET S /\ Cardinality(U) = n /\ Chosen(T) \in S
      BY <2>1, <3>1, SmallerSet
    <3>3. SumFunctionOnSet(f, U) \in Int /\ f[Chosen(T)] \in Int
      BY <1>2, <3>2
    <3> QED BY <3>1, <3>3, SumOfChosen
  <2> QED BY <2>1
<1>3. Nat \subseteq A
  <2> HIDE DEF A
  <2> QED BY <1>1, <1>2, NatSets
<1> QED BY <1>0, <1>3

\* Any one element can be taken out of a sum.
LEMMA SumWithout ==
  ASSUME NEW S, IsFiniteSet(S), NEW f, \A x \in S : f[x] \in Int, NEW x \in S
  PROVE  SumFunctionOnSet(f, S) = f[x] + SumFunctionOnSet(f, S \ {x})
<1> DEFINE A == {n \in Nat : \A T \in SUBSET S : Cardinality(T) = n =>
                   \A y \in T : SumFunctionOnSet(f, T) = f[y] + SumFunctionOnSet(f, T \ {y})}
<1>0. \A T \in SUBSET S : /\ IsFiniteSet(T) /\ Cardinality(T) \in Nat
                          /\ SumFunctionOnSet(f, T) \in Int
  BY FS_Subset, FS_CardinalityType, SumIsInt
<1>1. 0 \in A
  BY <1>0, FS_EmptySet
<1>2. ASSUME NEW n \in Nat, n \in A PROVE n + 1 \in A
  <2>1. ASSUME NEW T \in SUBSET S, Cardinality(T) = n + 1, NEW y \in T
        PROVE  SumFunctionOnSet(f, T) = f[y] + SumFunctionOnSet(f, T \ {y})
    <3> DEFINE c == Chosen(T)
    <3>1. T # {} /\ IsFiniteSet(T)
      BY <1>0
    <3>2. c \in T /\ Cardinality(T \ {c}) = n
      <4>1. c \in T /\ Cardinality(T \ {c}) = Cardinality(T) - 1
        BY <3>1, SmallerSet
      <4> HIDE DEF c
      <4> QED BY <2>1, <4>1
    <3>3. SumFunctionOnSet(f, T) = f[c] + SumFunctionOnSet(f, T \ {c})
      BY <3>1, SumOfChosen
    <3> HIDE DEF c
    <3>4. CASE y = c
      BY <3>3, <3>4
    <3>5. CASE y # c
      <4> DEFINE R == T \ {c}
                 Q == T \ {y}
                 both == R \ {y}
      <4>1. SumFunctionOnSet(f, R) = f[y] + SumFunctionOnSet(f, both)
        BY <1>2, <3>2, <3>5
      <4>2. Cardinality(Q) = n /\ c \in Q /\ Q \in SUBSET S
        BY <2>1, <3>1, <3>2, <3>5, FS_RemoveElement
      <4>3. both = Q \ {c}
        OBVIOUS
      <4>4. SumFunctionOnSet(f, Q) = f[c] + SumFunctionOnSet(f, both)
        BY <1>2, <4>2, <4>3
      <4>5. /\ SumFunctionOnSet(f, both) \in Int
            /\ f[c] \in Int /\ f[y] \in Int
        BY <1>0, <3>2
      <4> QED BY <3>3, <4>1, <4>4, <4>5
    <3> QED BY <3>4, <3>5
  <2> QED BY <2>1
<1>3. Nat \subseteq A
  <2> HIDE DEF A
  <2> QED BY <1>1, <1>2, NatSets
<1>4. Cardinality(S) \in A
  BY <1>0, <1>3
<1> QED BY <1>4

\* Where two functions differ in one place, their sums differ by as much.
LEMMA SumChangedOnce ==
  ASSUME NEW S, IsFiniteSet(S), NEW f, \A y \in S : f[y] \in Int,
         NEW g, \A y \in S : g[y] \in Int,
         NEW x \in S, \A y \in S \ {x} : g[y] = f[y]
  PROVE  SumFunctionOnSet(g, S) = SumFunctionOnSet(f, S) + g[x] - f[x]
<1>1. IsFiniteSet(S \ {x})
  BY FS_RemoveElement
<1>2. SumFunctionOnSet(g, S \ {x}) = SumFunctionOnSet(f, S \ {x})
  BY <1>1, SumOfEqual
<1>3. SumFunctionOnSet(f, S) = f[x] + SumFunctionOnSet(f, S \ {x})
  BY SumWithout
<1>4. SumFunctionOnSet(g, S) = g[x] + SumFunctionOnSet(g, S \ {x})
  BY SumWithout
<1>5. SumFunctionOnSet(f, S \ {x}) \in Int
  BY <1>1, SumIsInt
<1> QED BY <1>2, <1>3, <1>4, <1>5

\* Where a function is 0 need not be summed.
LEMMA SumOnSupport ==
  ASSUME NEW T, IsFiniteSet(T), NEW S, S \subseteq T,
         NEW f, \A x \in T : f[x] \in Int, \A x \in T \ S : f[x] = 0
  PROVE  SumFunctionOnSet(f, T) = SumFunctionOnSet(f, S)
<1> DEFINE A == {n \in Nat : \A E \in SUBSET (T \ S) : Cardinality(E) = n =>
                   SumFunctionOnSet(f, S \cup E) = SumFunctionOnSet(f, S)}
<1>0. \A E \in SUBSET T : /\ IsFiniteSet(E) /\ Cardinality(E) \in Nat
                          /\ SumFunctionOnSet(f, E) \in Int
  BY FS_Subset, FS_CardinalityType, SumIsInt
<1>1. 0 \in A
  <2>1. ASSUME NEW E \in SUBSET (T \ S), Cardinality(E) = 0
        PROVE  SumFunctionOnSet(f, S \cup E) = SumFunctionOnSet(f, S)
    <3>1. E = {}
      BY <1>0, <2>1, FS_EmptySet
    <3>2. S \cup E = S
      BY <3>1
    <3> QED BY <3>2
  <2> QED BY <2>1
<1>2. ASSUME NEW n \in Nat, n \in A PROVE n + 1 \in A
  <2>1. ASSUME NEW E \in SUBSET (T \ S), Cardinality(E) = n + 1
        PROVE  SumFunctionOnSet(f, S \cup E) = SumFunctionOnSet(f, S)
    <3>1. E # {} /\ IsFiniteSet(E)
      BY <1>0, <2>1, FS_EmptySet
    <3>2. PICK x \in E : TRUE
      BY <3>1
    <3> DEFINE U == S \cup E
               less == E \ {x}
    <3>3. Cardinality(less) = n /\ less \in SUBSET (T \ S)
      <4>1. Cardinality(less) = Cardinality(E) - 1
        BY <3>1, FS_RemoveElement
      <4>2. less \in SUBSET (T \ S)
        OBVIOUS
      <4> HIDE DEF less
      <4> QED BY <2>1, <4>1, <4>2
    <3>4. SumFunctionOnSet(f, S \cup less) = SumFunctionOnSet(f, S)
      BY <1>2, <3>3
    <3>5. U \ {x} = S \cup less /\ x \in U /\ U \in SUBSET T
      OBVIOUS
    <3>6. SumFunctionOnSet(f, U) = f[x] + SumFunctionOnSet(f, U \ {x})
      BY <1>0, <3>5, SumWithout
    <3>7. f[x] = 0 /\ SumFunctionOnSet(f, S) \in Int
      BY <1>0
    <3> HIDE DEF U, less
    <3>8. SumFunctionOnSet(f, U) = SumFunctionOnSet(f, S)
      BY <3>4, <3>5, <3>6, <3>7
    <3> QED BY <3>8 DEF U
  <2> QED BY <2>1
<1>3. Nat \subseteq A
  <2> HIDE DEF A
  <2> QED BY <1>1, <1>2, NatSets
<1>4. Cardinality(T \ S) \in A /\ S \cup (T \ S) = T
  BY <1>0, <1>3
<1> QED BY <1>4

\* A sum of zeros.
LEMMA SumOfZeros ==
  ASSUME NEW S, IsFiniteSet(S), NEW f, \A x \in S : f[x] = 0
  PROVE  SumFunctionOnSet(f, S) = 0
<1>1. SumFunctionOnSet(f, S) = SumFunctionOnSet(f, {})
  BY SumOnSupport
<1> QED BY <1>1, SumOfNothing

\* A column that is the sum of two has the sum of their sums.
LEMMA SumOfSums ==
  ASSUME NEW S, IsFiniteSet(S), NEW f, NEW g, NEW h,
         \A x \in S : g[x] \in Int /\ h[x] \in Int /\ f[x] = g[x] + h[x]
  PROVE  SumFunctionOnSet(f, S) = SumFunctionOnSet(g, S) + SumFunctionOnSet(h, S)
<1> DEFINE Both(T) == SumFunctionOnSet(f, T) = SumFunctionOnSet(g, T) + SumFunctionOnSet(h, T)
           A == {n \in Nat : \A T \in SUBSET S : Cardinality(T) = n => Both(T)}
<1>0. \A T \in SUBSET S :
         /\ IsFiniteSet(T) /\ Cardinality(T) \in Nat
         /\ SumFunctionOnSet(g, T) \in Int /\ SumFunctionOnSet(h, T) \in Int
  BY FS_Subset, FS_CardinalityType, SumIsInt
<1>1. 0 \in A
  <2>1. Both({})
    BY SumOfNothing
  <2>2. \A T \in SUBSET S : Cardinality(T) = 0 => T = {}
    BY <1>0, FS_EmptySet
  <2> HIDE DEF Both
  <2> QED BY <2>1, <2>2
<1>2. ASSUME NEW n \in Nat, n \in A PROVE n + 1 \in A
  <2>1. ASSUME NEW T \in SUBSET S, Cardinality(T) = n + 1 PROVE Both(T)
    <3>1. T # {} /\ IsFiniteSet(T)
      BY <1>0, <2>1, FS_EmptySet
    <3> DEFINE c == Chosen(T)
               U == T \ {c}
    <3>2. U \in SUBSET S /\ Cardinality(U) = n /\ c \in T
      <4>1. c \in T /\ Cardinality(U) = Cardinality(T) - 1
        BY <3>1, SmallerSet
      <4>2. U \in SUBSET S
        OBVIOUS
      <4> HIDE DEF c, U
      <4> QED BY <2>1, <4>1, <4>2
    <3>3. Both(U)
      <4> HIDE DEF Both, U
      <4> QED BY <1>2, <3>2
    <3> HIDE DEF c
    <3>4. \A x \in T : f[x] \in Int /\ g[x] \in Int /\ h[x] \in Int
      OBVIOUS
    <3>5. /\ SumFunctionOnSet(f, T) = f[c] + SumFunctionOnSet(f, U)
          /\ SumFunctionOnSet(g, T) = g[c] + SumFunctionOnSet(g, U)
          /\ SumFunctionOnSet(h, T) = h[c] + SumFunctionOnSet(h, U)
      BY <3>1, <3>2, <3>4, SumWithout
    <3> HIDE DEF U
    <3> QED BY <1>0, <3>2, <3>3, <3>5
  <2> HIDE DEF Both
  <2> QED BY <2>1
<1>3. Nat \subseteq A
  <2> HIDE DEF A
  <2> QED BY <1>1, <1>2, NatSets
<1>4. Cardinality(S) \in A
  BY <1>0, <1>3
<1> QED BY <1>4

\* A sum can be taken in two parts.
LEMMA SumInParts ==
  ASSUME NEW T, IsFiniteSet(T), NEW S, S \subseteq T, NEW f, \A x \in T : f[x] \in Int
  PROVE  SumFunctionOnSet(f, T) = SumFunctionOnSet(f, S) + SumFunctionOnSet(f, T \ S)
<1> DEFINE R == T \ S
           g == [x \in T |-> IF x \in S THEN f[x] ELSE 0]
           h == [x \in T |-> IF x \in S THEN 0 ELSE f[x]]
<1>1. IsFiniteSet(S) /\ IsFiniteSet(R)
  BY FS_Subset
<1>2. /\ \A x \in T : g[x] \in Int /\ h[x] \in Int /\ f[x] = g[x] + h[x]
      /\ \A x \in T : g[x] \in Int
      /\ \A x \in T : h[x] \in Int
  OBVIOUS
<1>3. /\ \A x \in S : g[x] = f[x]
      /\ \A x \in T \ S : g[x] = 0
      /\ \A x \in R : h[x] = f[x]
      /\ \A x \in T \ R : h[x] = 0
      /\ R \subseteq T
  OBVIOUS
<1> HIDE DEF g, h, R
<1>4. SumFunctionOnSet(f, T) = SumFunctionOnSet(g, T) + SumFunctionOnSet(h, T)
  BY <1>2, SumOfSums
<1>5. SumFunctionOnSet(g, T) = SumFunctionOnSet(g, S)
  BY <1>2, <1>3, SumOnSupport
<1>6. SumFunctionOnSet(h, T) = SumFunctionOnSet(h, R)
  BY <1>2, <1>3, SumOnSupport
<1>7. SumFunctionOnSet(g, S) = SumFunctionOnSet(f, S)
  BY <1>1, <1>2, <1>3, SumOfEqual
<1>8. SumFunctionOnSet(h, R) = SumFunctionOnSet(f, R)
  BY <1>1, <1>2, <1>3, SumOfEqual
<1> QED BY <1>4, <1>5, <1>6, <1>7, <1>8 DEF R
=============================================================================
