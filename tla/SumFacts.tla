-------------------------------- MODULE SumFacts --------------------------------
(***************************************************************************)
(* What sums over finite sets return, which the services compute in SQL     *)
(* (SUM) or with reduce, and the least and the greatest of some numbers.    *)
(*                                                                          *)
(* The fold behind a sum is defined by recursion over the subsets of a set. *)
(* Induction is done by hand, from the theorem that a nonempty set of       *)
(* subsets of a finite set has a smallest one: no induction scheme is       *)
(* instantiated.                                                            *)
(***************************************************************************)
EXTENDS Integers, FiniteSets, FiniteSetsExt, FiniteSetTheorems, TLAPS

-----------------------------------------------------------------------------
(* Sums *)

Total(f, S) == MapThenSumSet(LAMBDA x : f[x], S)

OneOf(S) == CHOOSE x \in S : TRUE
Rest(S) == S \ {OneOf(S)}

\* the function by which the fold is defined
IterOf(f, S, it) ==
  it = [T \in SUBSET S |-> IF T = {} THEN 0 ELSE f[OneOf(T)] + it[Rest(T)]]

LEMMA TotalIsIter ==
  ASSUME NEW f, NEW S
  PROVE  Total(f, S) = (CHOOSE it : IterOf(f, S, it))[S]
  BY DEF Total, MapThenSumSet, MapThenFoldSet, OneOf, Rest, IterOf

\* Induction: a set of subsets of a finite set has a minimal element.
LEMMA SmallestBad ==
  ASSUME NEW S, IsFiniteSet(S), NEW Bad \in SUBSET SUBSET S, Bad # {}
  PROVE  \E T \in Bad : \A U \in Bad : ~(U \subseteq T /\ U # T)
  <1>1. IsWellFoundedOn(StrictSubsetOrdering(S), SUBSET S)
    BY FS_FiniteSubsetsOfFinite, FS_StrictSubsetOrderingWellFounded
  <1>2. PICK T \in Bad : \A U \in Bad : ~(<<U, T>> \in StrictSubsetOrdering(S))
    BY <1>1, WFMin
  <1> QED
    BY <1>2 DEF StrictSubsetOrdering

LEMMA RestSmaller ==
  ASSUME NEW T, T # {}
  PROVE  Rest(T) \subseteq T /\ Rest(T) # T /\ OneOf(T) \in T
  BY DEF Rest, OneOf

LEMMA IterAt ==
  ASSUME NEW f, NEW S, NEW it, IterOf(f, S, it), NEW T \in SUBSET S
  PROVE  it[T] = IF T = {} THEN 0 ELSE f[OneOf(T)] + it[Rest(T)]
  BY DEF IterOf

\* Two such functions agree wherever both are defined.
LEMMA IterUnique ==
  ASSUME NEW f, NEW S, IsFiniteSet(S), NEW U, NEW g, IterOf(f, S, g), NEW h, IterOf(f, U, h)
  PROVE  \A T \in SUBSET (S \cap U) : g[T] = h[T]
  <1> DEFINE Bad == {T \in SUBSET (S \cap U) : g[T] # h[T]}
  <1>1. SUFFICES ASSUME Bad # {} PROVE FALSE
    OBVIOUS
  <1>2. Bad \in SUBSET SUBSET S
    OBVIOUS
  <1>3. PICK T \in Bad : \A V \in Bad : ~(V \subseteq T /\ V # T)
    <2> HIDE DEF Bad
    <2> QED
      BY <1>1, <1>2, SmallestBad
  <1>4. /\ g[T] = IF T = {} THEN 0 ELSE f[OneOf(T)] + g[Rest(T)]
        /\ h[T] = IF T = {} THEN 0 ELSE f[OneOf(T)] + h[Rest(T)]
    BY IterAt
  <1>5. T # {} => g[Rest(T)] = h[Rest(T)]
    BY <1>3, RestSmaller
  <1> QED
    BY <1>4, <1>5

\* Where the function exists, the total unfolds once.
LEMMA TotalUnfolds ==
  ASSUME NEW f, NEW S, IsFiniteSet(S), NEW it, IterOf(f, S, it)
  PROVE  Total(f, S) = IF S = {} THEN 0 ELSE f[OneOf(S)] + Total(f, Rest(S))
  <1>1. ASSUME NEW T \in SUBSET S PROVE Total(f, T) = it[T]
    <2>1. PICK g : g = [V \in SUBSET T |-> it[V]]
      OBVIOUS
    <2>2. \A V \in SUBSET T : V # {} => Rest(V) \in SUBSET T
      BY RestSmaller
    <2>3. IterOf(f, T, g)
      BY <2>1, <2>2 DEF IterOf
    <2>4. PICK h : h = CHOOSE i : IterOf(f, T, i)
      OBVIOUS
    <2>5. IterOf(f, T, h)
      BY <2>3, <2>4
    <2>6. it[T] = h[T]
      <3>1. T \in SUBSET (S \cap T)
        OBVIOUS
      <3>2. \A V \in SUBSET (S \cap T) : it[V] = h[V]
        BY <2>5, IterUnique
      <3> QED
        BY <3>1, <3>2
    <2> QED
      BY <2>4, <2>6, TotalIsIter
  <1>2. S # {} => Rest(S) \in SUBSET S
    BY RestSmaller
  <1> QED
    BY <1>1, <1>2, IterAt

LEMMA IterExists ==
  ASSUME NEW f, NEW S, IsFiniteSet(S)
  PROVE  \E it : IterOf(f, S, it)
  <1> DEFINE Bad == {T \in SUBSET S : ~ \E it : IterOf(f, T, it)}
  <1>1. SUFFICES ASSUME Bad # {} PROVE FALSE
    OBVIOUS
  <1>2. PICK T \in Bad : \A U \in Bad : ~(U \subseteq T /\ U # T)
    <2>1. Bad \in SUBSET SUBSET S
      OBVIOUS
    <2> HIDE DEF Bad
    <2> QED
      BY <1>1, <2>1, SmallestBad
  <1>3. ASSUME NEW V \in SUBSET T, V # T
        PROVE  Total(f, V) = IF V = {} THEN 0 ELSE f[OneOf(V)] + Total(f, Rest(V))
    <2>1. V \in SUBSET S /\ V \notin Bad
      BY <1>2, <1>3
    <2>2. IsFiniteSet(V)
      BY <2>1, FS_Subset
    <2> QED
      BY <2>1, <2>2, TotalUnfolds
  <1>4. PICK g : g = [V \in SUBSET T |-> IF V = {} THEN 0 ELSE f[OneOf(V)] + Total(f, Rest(V))]
    OBVIOUS
  <1>5. ASSUME NEW V \in SUBSET T, V # {} PROVE Total(f, Rest(V)) = g[Rest(V)]
    <2>1. Rest(V) \in SUBSET T /\ Rest(V) # T
      BY <1>5, RestSmaller
    <2> QED
      BY <1>3, <1>4, <2>1
  <1>6. IterOf(f, T, g)
    BY <1>4, <1>5 DEF IterOf
  <1> QED
    BY <1>6

-----------------------------------------------------------------------------
LEMMA TotalStep ==
  ASSUME NEW f, NEW S, IsFiniteSet(S)
  PROVE  Total(f, S) = IF S = {} THEN 0 ELSE f[OneOf(S)] + Total(f, Rest(S))
  BY IterExists, TotalUnfolds

LEMMA TotalEmpty == ASSUME NEW f PROVE Total(f, {}) = 0
  BY TotalStep, FS_EmptySet

\* The sum of integers is an integer.
LEMMA TotalType ==
  ASSUME NEW f, NEW S, IsFiniteSet(S), \A x \in S : f[x] \in Int
  PROVE  Total(f, S) \in Int
  <1> DEFINE Bad == {T \in SUBSET S : Total(f, T) \notin Int}
  <1>1. SUFFICES ASSUME Bad # {} PROVE FALSE
    OBVIOUS
  <1>2. PICK T \in Bad : \A U \in Bad : ~(U \subseteq T /\ U # T)
    <2>1. Bad \in SUBSET SUBSET S
      OBVIOUS
    <2> HIDE DEF Bad
    <2> QED
      BY <1>1, <2>1, SmallestBad
  <1>3. Total(f, T) = IF T = {} THEN 0 ELSE f[OneOf(T)] + Total(f, Rest(T))
    BY TotalStep, FS_Subset
  <1>4. T # {} => OneOf(T) \in S /\ Total(f, Rest(T)) \in Int
    BY <1>2, RestSmaller
  <1> QED
    BY <1>3, <1>4

\* Any element may be taken out, not only the one the fold takes first.
LEMMA TotalRemove ==
  ASSUME NEW f, NEW S, IsFiniteSet(S), \A x \in S : f[x] \in Int, NEW e \in S
  PROVE  Total(f, S) = f[e] + Total(f, S \ {e})
  <1> DEFINE Bad == {T \in SUBSET S : \E x \in T : Total(f, T) # f[x] + Total(f, T \ {x})}
  <1>1. SUFFICES ASSUME Bad # {} PROVE FALSE
    OBVIOUS
  <1>2. PICK T \in Bad : \A U \in Bad : ~(U \subseteq T /\ U # T)
    <2>1. Bad \in SUBSET SUBSET S
      OBVIOUS
    <2> HIDE DEF Bad
    <2> QED
      BY <1>1, <2>1, SmallestBad
  <1>3. PICK x \in T : Total(f, T) # f[x] + Total(f, T \ {x})
    OBVIOUS
  <1>4. T \subseteq S
    OBVIOUS
  <1>5. PICK p : p = OneOf(T)
    OBVIOUS
  <1>6. p \in T /\ Rest(T) = T \ {p} /\ Total(f, T) = f[p] + Total(f, T \ {p})
    BY <1>3, <1>4, <1>5, RestSmaller, TotalStep, FS_Subset DEF Rest
  <1>7. p # x
    BY <1>3, <1>6
  <1>8. /\ Total(f, T \ {p}) = f[x] + Total(f, (T \ {p}) \ {x})
        /\ Total(f, T \ {x}) = f[p] + Total(f, (T \ {x}) \ {p})
    <2>1. T \ {p} \notin Bad /\ T \ {x} \notin Bad
      BY <1>2, <1>3, <1>6
    <2>2. x \in T \ {p} /\ p \in T \ {x}
      BY <1>6, <1>7
    <2> QED
      BY <1>4, <2>1, <2>2
  <1>9. (T \ {p}) \ {x} = (T \ {x}) \ {p}
    OBVIOUS
  <1>10. f[x] \in Int /\ f[p] \in Int /\ Total(f, (T \ {p}) \ {x}) \in Int
    <2>1. IsFiniteSet((T \ {p}) \ {x})
      BY <1>4, FS_Subset
    <2> QED
      BY <1>4, <1>6, <2>1, TotalType
  <1>11. PICK n \in Int : n = Total(f, (T \ {p}) \ {x})
    BY <1>10
  <1>12. Total(f, T) = f[p] + (f[x] + n) /\ Total(f, T \ {x}) = f[p] + n
    BY <1>6, <1>8, <1>9, <1>11
  <1>13. f[p] + (f[x] + n) = f[x] + (f[p] + n)
    BY <1>10
  <1> QED
    BY <1>3, <1>12, <1>13

LEMMA TotalAdd ==
  ASSUME NEW f, NEW S, IsFiniteSet(S), NEW e, e \notin S, \A x \in S \cup {e} : f[x] \in Int
  PROVE  Total(f, S \cup {e}) = Total(f, S) + f[e]
  <1>1. IsFiniteSet(S \cup {e}) /\ (S \cup {e}) \ {e} = S
    BY FS_AddElement
  <1> QED
    BY <1>1, TotalRemove, TotalType

\* Only the summands matter.
LEMMA TotalSame ==
  ASSUME NEW f, NEW g, NEW S, IsFiniteSet(S), \A x \in S : f[x] = g[x]
  PROVE  Total(f, S) = Total(g, S)
  <1> DEFINE Bad == {T \in SUBSET S : Total(f, T) # Total(g, T)}
  <1>1. SUFFICES ASSUME Bad # {} PROVE FALSE
    OBVIOUS
  <1>2. PICK T \in Bad : \A U \in Bad : ~(U \subseteq T /\ U # T)
    <2>1. Bad \in SUBSET SUBSET S
      OBVIOUS
    <2> HIDE DEF Bad
    <2> QED
      BY <1>1, <2>1, SmallestBad
  <1>3. /\ Total(f, T) = IF T = {} THEN 0 ELSE f[OneOf(T)] + Total(f, Rest(T))
        /\ Total(g, T) = IF T = {} THEN 0 ELSE g[OneOf(T)] + Total(g, Rest(T))
    BY TotalStep, FS_Subset
  <1>4. T # {} => OneOf(T) \in S /\ Total(f, Rest(T)) = Total(g, Rest(T))
    BY <1>2, RestSmaller
  <1> QED
    BY <1>3, <1>4

\* A summand that changes changes the sum by as much.
LEMMA TotalChange ==
  ASSUME NEW f, NEW g, NEW S, IsFiniteSet(S), NEW e \in S,
         \A x \in S : f[x] \in Int /\ g[x] \in Int,
         \A x \in S \ {e} : g[x] = f[x]
  PROVE  Total(g, S) = Total(f, S) - f[e] + g[e]
  <1>1. IsFiniteSet(S \ {e})
    BY FS_Subset
  <1>2. Total(f, S \ {e}) = Total(g, S \ {e}) /\ Total(f, S \ {e}) \in Int
    BY <1>1, TotalSame, TotalType
  <1>3. Total(f, S) = f[e] + Total(f, S \ {e}) /\ Total(g, S) = g[e] + Total(g, S \ {e})
    BY TotalRemove
  <1> QED
    BY <1>2, <1>3

LEMMA TotalNat ==
  ASSUME NEW f, NEW S, IsFiniteSet(S), \A x \in S : f[x] \in Nat
  PROVE  Total(f, S) \in Nat
  <1> DEFINE Bad == {T \in SUBSET S : Total(f, T) \notin Nat}
  <1>1. SUFFICES ASSUME Bad # {} PROVE FALSE
    OBVIOUS
  <1>2. PICK T \in Bad : \A U \in Bad : ~(U \subseteq T /\ U # T)
    <2>1. Bad \in SUBSET SUBSET S
      OBVIOUS
    <2> HIDE DEF Bad
    <2> QED
      BY <1>1, <2>1, SmallestBad
  <1>3. Total(f, T) = IF T = {} THEN 0 ELSE f[OneOf(T)] + Total(f, Rest(T))
    BY TotalStep, FS_Subset
  <1>4. T # {} => OneOf(T) \in S /\ Total(f, Rest(T)) \in Nat
    BY <1>2, RestSmaller
  <1> QED
    BY <1>3, <1>4

-----------------------------------------------------------------------------
(* The least and the greatest of some numbers *)

LEMMA LeastExists ==
  ASSUME NEW S, S \subseteq Nat, S # {}
  PROVE  \E x \in S : \A y \in S : x <= y
  <1>1. PICK n \in S : TRUE
    OBVIOUS
  <1> DEFINE Bad == {0 .. x : x \in {y \in S : y <= n}}
  <1>2. IsFiniteSet(0 .. n)
    BY FS_Interval
  <1>3. Bad \in SUBSET SUBSET (0 .. n) /\ 0 .. n \in Bad
    OBVIOUS
  <1>4. PICK T \in Bad : \A U \in Bad : ~(U \subseteq T /\ U # T)
    <2>1. Bad # {}
      BY <1>3
    <2> HIDE DEF Bad
    <2>2. PICK N : N = 0 .. n
      OBVIOUS
    <2>3. IsFiniteSet(N) /\ Bad \in SUBSET SUBSET N
      BY <1>2, <1>3, <2>2
    <2> QED
      BY <2>1, <2>3, SmallestBad
  <1>5. PICK x \in S : x <= n /\ T = 0 .. x
    OBVIOUS
  <1>6. ASSUME NEW y \in S, y < x PROVE FALSE
    <2>1. 0 .. y \in Bad
      BY <1>1, <1>5, <1>6
    <2>2. 0 .. y \subseteq 0 .. x /\ x \notin 0 .. y /\ x \in 0 .. x
      BY <1>6
    <2> QED
      BY <1>4, <1>5, <2>1, <2>2
  <1> QED
    BY <1>5, <1>6

LEMMA GreatestOfAny ==
  ASSUME NEW S, IsFiniteSet(S), S \subseteq Nat, S # {}
  PROVE  \E x \in S : \A y \in S : y <= x
  <1> DEFINE Bad == {T \in SUBSET S : T # {} /\ ~ \E x \in T : \A y \in T : y <= x}
  <1>1. SUFFICES ASSUME Bad # {} PROVE FALSE
    OBVIOUS
  <1>2. PICK T \in Bad : \A U \in Bad : ~(U \subseteq T /\ U # T)
    <2>1. PICK N : N = S
      OBVIOUS
    <2>2. IsFiniteSet(N) /\ Bad \in SUBSET SUBSET N
      BY <2>1
    <2> HIDE DEF Bad
    <2> QED
      BY <1>1, <2>2, SmallestBad
  <1>3. PICK p \in T : TRUE
    OBVIOUS
  <1>4. T \ {p} \notin Bad /\ T \ {p} \in SUBSET S
    BY <1>2, <1>3
  <1>5. CASE T \ {p} = {}
    BY <1>2, <1>3, <1>5
  <1>6. CASE T \ {p} # {}
    <2>1. PICK x \in T \ {p} : \A y \in T \ {p} : y <= x
      BY <1>4, <1>6
    <2>2. x \in Nat /\ p \in Nat /\ T \subseteq Nat
      BY <1>2, <1>3, <2>1
    <2>3. CASE p <= x
      BY <1>2, <2>1, <2>2, <2>3
    <2>4. CASE x <= p
      BY <1>2, <2>1, <2>2, <2>4
    <2> QED
      BY <2>2, <2>3, <2>4
  <1> QED
    BY <1>5, <1>6

LEMMA GreatestExists ==
  ASSUME NEW S, IsFiniteSet(S), S \subseteq Nat, S # {}
  PROVE  Max(S) \in S /\ \A y \in S : y <= Max(S)
  <1>1. \E x \in S : \A y \in S : x >= y
    <2>1. PICK x \in S : \A y \in S : y <= x
      BY GreatestOfAny
    <2> QED
      BY <2>1
  <1>2. Max(S) \in S /\ \A y \in S : Max(S) >= y
    BY <1>1 DEF Max
  <1> QED
    BY <1>2

-----------------------------------------------------------------------------
(* Bounds *)

LEMMA ProductGrows ==
  ASSUME NEW m \in Nat, NEW i \in Int, NEW j \in Int, i <= j
  PROVE  i * m \in Int /\ j * m \in Int /\ i * m <= j * m
  OBVIOUS

LEMMA OneMore ==
  ASSUME NEW m \in Nat, NEW i \in Int
  PROVE  (i + 1) * m = i * m + m /\ i * m \in Int
  OBVIOUS

LEMMA TotalAtMost ==
  ASSUME NEW f, NEW S, IsFiniteSet(S), NEW m \in Nat, \A x \in S : f[x] \in Nat /\ f[x] <= m
  PROVE  Total(f, S) <= Cardinality(S) * m
  <1> DEFINE Bad == {T \in SUBSET S : ~(Total(f, T) <= Cardinality(T) * m)}
  <1>1. SUFFICES ASSUME Bad # {} PROVE FALSE
    OBVIOUS
  <1>2. PICK T \in Bad : \A U \in Bad : ~(U \subseteq T /\ U # T)
    <2>1. Bad \in SUBSET SUBSET S
      OBVIOUS
    <2> HIDE DEF Bad
    <2> QED
      BY <1>1, <2>1, SmallestBad
  <1>3. IsFiniteSet(T) /\ T \subseteq S
    BY FS_Subset
  <1>4. CASE T = {}
    BY <1>2, <1>4, TotalEmpty, FS_EmptySet
  <1>5. CASE T # {}
    <2>1. PICK p \in T : p \in S
      BY <1>3, <1>5
    <2>2. Total(f, T) = f[p] + Total(f, T \ {p})
      BY <1>3, <2>1, TotalRemove
    <2>3. IsFiniteSet(T \ {p}) /\ T \ {p} \in SUBSET S /\ T \ {p} # T
      BY <1>3, <2>1, FS_Subset
    <2>4. Total(f, T \ {p}) \in Nat
      BY <2>3, TotalNat
    <2>5. Total(f, T \ {p}) <= Cardinality(T \ {p}) * m
      BY <1>2, <2>3
    <2>6. Cardinality(T) = Cardinality(T \ {p}) + 1 /\ Cardinality(T \ {p}) \in Nat
      BY <1>3, <2>1, <2>3, FS_RemoveElement, FS_CardinalityType
    <2>7. PICK i \in Nat : i = Cardinality(T \ {p})
      BY <2>6
    <2>8. i * m \in Int /\ (i + 1) * m = i * m + m
      BY OneMore
    <2>9. Total(f, T) <= (i + 1) * m
      BY <2>1, <2>2, <2>4, <2>5, <2>7, <2>8
    <2> QED
      BY <1>2, <2>6, <2>7, <2>9
  <1> QED
    BY <1>4, <1>5

\* Summands that are not negative add up to no less over a larger set.
LEMMA TotalLess ==
  ASSUME NEW f, NEW S, IsFiniteSet(S), \A x \in S : f[x] \in Nat, NEW e
  PROVE  /\ Total(f, S \ {e}) \in Nat /\ Total(f, S) \in Nat
         /\ Total(f, S \ {e}) <= Total(f, S)
         /\ e \in S => Total(f, S) = f[e] + Total(f, S \ {e})
  <1>1. IsFiniteSet(S \ {e})
    BY FS_Subset
  <1>2. Total(f, S \ {e}) \in Nat /\ Total(f, S) \in Nat
    BY <1>1, TotalNat
  <1>3. e \in S => Total(f, S) = f[e] + Total(f, S \ {e})
    BY TotalRemove
  <1>4. e \notin S => S \ {e} = S
    OBVIOUS
  <1> QED
    BY <1>2, <1>3, <1>4

\* A part of some numbers that are not negative adds up to no more than all.
LEMMA TotalOfPart ==
  ASSUME NEW f, NEW S, IsFiniteSet(S), \A x \in S : f[x] \in Nat, NEW T \in SUBSET S
  PROVE  Total(f, T) <= Total(f, S)
  <1> DEFINE Bad == {U \in SUBSET S : T \subseteq U /\ ~(Total(f, T) <= Total(f, U))}
  <1>1. SUFFICES ASSUME Bad # {} PROVE FALSE
    OBVIOUS
  <1>2. PICK U \in Bad : \A V \in Bad : ~(V \subseteq U /\ V # U)
    <2>1. Bad \in SUBSET SUBSET S
      OBVIOUS
    <2> HIDE DEF Bad
    <2> QED
      BY <1>1, <2>1, SmallestBad
  <1>3. IsFiniteSet(U) /\ IsFiniteSet(T) /\ \A x \in U : f[x] \in Nat
    BY FS_Subset
  <1>4. Total(f, T) \in Nat /\ Total(f, U) \in Nat
    BY <1>3, TotalNat
  <1>5. CASE U = T
    BY <1>2, <1>4, <1>5
  <1>6. CASE U # T
    <2>1. PICK e \in U : e \notin T
      BY <1>2, <1>6
    <2>2. /\ Total(f, U \ {e}) \in Nat /\ Total(f, U \ {e}) <= Total(f, U)
      BY <1>3, TotalLess
    <2>3. U \ {e} \notin Bad /\ T \subseteq U \ {e} /\ U \ {e} \in SUBSET S
      BY <1>2, <2>1
    <2>4. Total(f, T) <= Total(f, U \ {e})
      BY <2>3
    <2> QED
      BY <1>2, <1>4, <2>2, <2>4
  <1> QED
    BY <1>5, <1>6
\* Zeros add nothing.
LEMMA TotalZeros ==
  ASSUME NEW f, NEW S, IsFiniteSet(S), \A x \in S : f[x] \in Int, NEW T \in SUBSET S,
         \A x \in S \ T : f[x] = 0
  PROVE  Total(f, S) = Total(f, T)
  <1> DEFINE Bad == {U \in SUBSET S : T \subseteq U /\ Total(f, U) # Total(f, T)}
  <1>1. SUFFICES ASSUME Bad # {} PROVE FALSE
    OBVIOUS
  <1>2. PICK U \in Bad : \A V \in Bad : ~(V \subseteq U /\ V # U)
    <2>1. Bad \in SUBSET SUBSET S
      OBVIOUS
    <2> HIDE DEF Bad
    <2> QED
      BY <1>1, <2>1, SmallestBad
  <1>3. PICK e \in U : e \notin T /\ f[e] = 0
    BY <1>2
  <1>4. T \subseteq U \ {e} /\ U \ {e} # U /\ U \ {e} \in SUBSET S
    BY <1>2, <1>3
  <1>5. Total(f, U \ {e}) = Total(f, T)
    BY <1>2, <1>4
  <1>6. IsFiniteSet(U) /\ IsFiniteSet(U \ {e}) /\ \A x \in U : f[x] \in Int
    BY FS_Subset
  <1>7. Total(f, U) = f[e] + Total(f, U \ {e}) /\ Total(f, U \ {e}) \in Int
    BY <1>4, <1>6, TotalRemove, TotalType
  <1> QED
    BY <1>2, <1>3, <1>5, <1>7
=============================================================================
