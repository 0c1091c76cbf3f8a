------------------------------ MODULE SumTheorems ------------------------------
(***************************************************************************)
(* What SumFunctionOnSet computes over a finite set: it is a number, it    *)
(* may be taken apart at any element, it depends on the values over the    *)
(* set only, and it is monotone in them.  The library defines it by        *)
(* recursion over the subsets of the set, so the first lemmas show that    *)
(* such a function exists and is unique; each takes a smallest             *)
(* counterexample, of the well-founded order of the finite subsets.        *)
(***************************************************************************)
EXTENDS Integers, FiniteSets, Functions, FiniteSetTheorems, WellFoundedInduction, TLAPS

Chosen(T) == CHOOSE x \in T : TRUE
Added(f, T, sums) == IF T = {} THEN 0 ELSE f[Chosen(T)] + sums[T \ {Chosen(T)}]
Sums(f, S) == CHOOSE sums : sums = [T \in SUBSET S |-> Added(f, T, sums)]

LEMMA SumIsOfSums ==
  ASSUME NEW f, NEW S
  PROVE  SumFunctionOnSet(f, S) = Sums(f, S)[S]
BY DEF SumFunctionOnSet, FoldFunctionOnSet, MapThenFoldSet, Sums, Added, Chosen

LEMMA SmallestNumber ==
  ASSUME NEW N \in SUBSET Nat, N # {}
  PROVE  \E n \in N : \A m \in N : ~(m < n)
<1> DEFINE less == {ss \in Nat \X Nat : ss[1] < ss[2]}
<1>1. IsWellFoundedOn(less, Nat)
  BY NatLessThanWellFounded DEF OpToRel
<1> HIDE DEF less
<1>2. PICK n \in N : \A m \in N : ~(<<m, n>> \in less)
  BY <1>1, WFMin
<1>3. ASSUME NEW m \in N, m < n PROVE FALSE
  <2>1. m \in Nat /\ n \in Nat
    BY <1>2
  <2>2. <<m, n>> \in less
    BY <1>3, <2>1 DEF less
  <2> QED BY <1>2, <2>2
<1> QED BY <1>2, <1>3

LEMMA SmallestSubset ==
  ASSUME NEW S, IsFiniteSet(S), NEW F \in SUBSET (SUBSET S), F # {}
  PROVE  \E T \in F : \A U \in F : U \subseteq T => U = T
<1>1. IsWellFoundedOn(StrictSubsetOrdering(S), SUBSET S)
  BY FS_StrictSubsetOrderingWellFounded, FS_FiniteSubsetsOfFinite
<1>2. PICK T \in F : \A U \in F : ~(<<U, T>> \in StrictSubsetOrdering(S))
  BY <1>1, WFMin
<1>3. ASSUME NEW U \in F, U \subseteq T, U # T PROVE FALSE
  <2>1. <<U, T>> \in StrictSubsetOrdering(S)
    BY <1>2, <1>3 DEF StrictSubsetOrdering
  <2> QED BY <1>2, <2>1
<1> QED BY <1>2, <1>3

LEMMA ChosenIn ==
  ASSUME NEW T, T # {}
  PROVE  Chosen(T) \in T
BY DEF Chosen

\* Sums over the subsets of up to n elements.
UpTo(S, n) == {T \in SUBSET S : Cardinality(T) <= n}
SumsUpTo(f, S, n, sums) == \A T \in UpTo(S, n) : sums[T] = Added(f, T, sums)

LEMMA SumsExistUpTo ==
  ASSUME NEW f, NEW S, IsFiniteSet(S), NEW n \in Nat
  PROVE  \E sums : SumsUpTo(f, S, n, sums)
<1> DEFINE missing == {m \in Nat : ~\E sums : SumsUpTo(f, S, m, sums)}
<1>1. SUFFICES ASSUME missing # {} PROVE FALSE
  OBVIOUS
<1>2. PICK m \in missing : \A k \in missing : ~(k < m)
  <2>1. missing \in SUBSET Nat
    OBVIOUS
  <2> HIDE DEF missing
  <2> QED BY <1>1, <2>1, SmallestNumber
<1>3. m \in Nat /\ ~\E sums : SumsUpTo(f, S, m, sums)
  BY <1>2
<1>4. CASE m = 0
  <2>1. UpTo(S, 0) \subseteq {{}}
    <3>1. SUFFICES ASSUME NEW T \in UpTo(S, 0) PROVE T = {}
      OBVIOUS
    <3>2. IsFiniteSet(T) /\ Cardinality(T) \in Nat /\ Cardinality(T) <= 0
      BY <3>1, FS_Subset, FS_CardinalityType DEF UpTo
    <3> QED BY <3>2, FS_EmptySet
  <2>2. SumsUpTo(f, S, 0, [T \in SUBSET S |-> 0])
    BY <2>1 DEF SumsUpTo, Added, UpTo
  <2> QED BY <1>3, <1>4, <2>2
<1>5. CASE m # 0
  <2>1. m - 1 \in Nat /\ m - 1 < m
    BY <1>3, <1>5
  <2>2. PICK less : SumsUpTo(f, S, m - 1, less)
    BY <1>2, <2>1
  <2> DEFINE sums == [T \in SUBSET S |-> Added(f, T, less)]
  <2>3. ASSUME NEW T \in UpTo(S, m), T # {}
        PROVE  sums[T \ {Chosen(T)}] = less[T \ {Chosen(T)}]
    <3>1. T \in SUBSET S /\ IsFiniteSet(T) /\ Cardinality(T) <= m /\ Cardinality(T) \in Nat
      BY FS_Subset, FS_CardinalityType DEF UpTo
    <3>2. Cardinality(T \ {Chosen(T)}) = Cardinality(T) - 1
      BY <2>3, <3>1, ChosenIn, FS_RemoveElement
    <3>3. Cardinality(T \ {Chosen(T)}) <= m - 1
      BY <1>3, <3>1, <3>2
    <3>4. T \ {Chosen(T)} \in UpTo(S, m - 1)
      BY <3>1, <3>3 DEF UpTo
    <3>5. T \ {Chosen(T)} \in SUBSET S
      BY <3>1
    <3> QED BY <2>2, <3>4, <3>5 DEF SumsUpTo
  <2>4. ASSUME NEW T \in UpTo(S, m)
        PROVE  sums[T] = Added(f, T, sums)
    <3>1. sums[T] = Added(f, T, less)
      BY DEF UpTo
    <3> HIDE DEF sums
    <3>2. Added(f, T, less) = Added(f, T, sums)
      BY <2>3 DEF Added
    <3> QED BY <3>1, <3>2
  <2>5. SumsUpTo(f, S, m, sums)
    BY <2>4 DEF SumsUpTo
  <2> QED BY <1>3, <2>5
<1> QED BY <1>4, <1>5

LEMMA SumsDefined ==
  ASSUME NEW f, NEW S, IsFiniteSet(S)
  PROVE  Sums(f, S) = [T \in SUBSET S |-> Added(f, T, Sums(f, S))]
<1>1. PICK n \in Nat : n = Cardinality(S)
  BY FS_CardinalityType
<1>2. PICK g : SumsUpTo(f, S, n, g)
  BY SumsExistUpTo
<1>3. UpTo(S, n) = SUBSET S
  BY <1>1, FS_Subset DEF UpTo
<1> DEFINE sums == [T \in SUBSET S |-> g[T]]
<1>4. ASSUME NEW T \in SUBSET S PROVE g[T] = Added(f, T, sums)
  <2>1. g[T] = Added(f, T, g)
    BY <1>2, <1>3 DEF SumsUpTo
  <2>2. T # {} => T \ {Chosen(T)} \in SUBSET S
    OBVIOUS
  <2> QED BY <2>1, <2>2 DEF Added
<1>5. sums = [T \in SUBSET S |-> Added(f, T, sums)]
  BY <1>4
<1>6. \E h : h = [T \in SUBSET S |-> Added(f, T, h)]
  BY <1>5
<1> QED BY <1>6 DEF Sums

LEMMA SumsAdd ==
  ASSUME NEW f, NEW S, IsFiniteSet(S)
  PROVE  \E sums : sums = Sums(f, S) /\ \A T \in SUBSET S : sums[T] = Added(f, T, sums)
<1> DEFINE body == [T \in SUBSET S |-> Added(f, T, Sums(f, S))]
<1>1. \A T \in SUBSET S : body[T] = Added(f, T, Sums(f, S))
  OBVIOUS
<1>2. Sums(f, S) = body
  BY SumsDefined
<1> HIDE DEF body
<1>3. \A T \in SUBSET S : Sums(f, S)[T] = Added(f, T, Sums(f, S))
  BY <1>1, <1>2
<1> QED BY <1>3

LEMMA SumOfPart ==
  ASSUME NEW f, NEW S, IsFiniteSet(S), NEW T \in SUBSET S
  PROVE  SumFunctionOnSet(f, T) = Sums(f, S)[T]
<1>1. IsFiniteSet(T)
  BY FS_Subset
<1>2. PICK all : all = Sums(f, S) /\ \A U \in SUBSET S : all[U] = Added(f, U, all)
  BY SumsAdd
<1>3. PICK part : part = Sums(f, T) /\ \A U \in SUBSET T : part[U] = Added(f, U, part)
  BY <1>1, SumsAdd
<1> DEFINE differ == {U \in SUBSET T : all[U] # part[U]}
<1>4. differ = {}
  <2>1. SUFFICES ASSUME differ # {} PROVE FALSE
    OBVIOUS
  <2>2. PICK U \in differ : \A V \in differ : V \subseteq U => V = U
    <3>1. differ \in SUBSET (SUBSET T)
      OBVIOUS
    <3> HIDE DEF differ
    <3> QED BY <1>1, <2>1, <3>1, SmallestSubset
  <2>3. U \in SUBSET T /\ U \in SUBSET S /\ all[U] # part[U]
    BY <2>2
  <2>4. all[U] = Added(f, U, all) /\ part[U] = Added(f, U, part)
    BY <1>2, <1>3, <2>3
  <2>5. U # {}
    BY <2>3, <2>4 DEF Added
  <2>6. all[U \ {Chosen(U)}] = part[U \ {Chosen(U)}]
    BY <2>2, <2>3, <2>5, ChosenIn
  <2> QED BY <2>3, <2>4, <2>6 DEF Added
<1>5. all[T] = part[T]
  BY <1>4
<1> QED BY <1>2, <1>3, <1>5, SumIsOfSums

-----------------------------------------------------------------------------

\* The sum over no element is zero.
THEOREM SumOfNothing == \A f : SumFunctionOnSet(f, {}) = 0
<1>1. TAKE f
<1>2. Sums(f, {}) = [T \in SUBSET {} |-> Added(f, T, Sums(f, {}))]
  BY SumsDefined, FS_EmptySet
<1>3. Sums(f, {})[{}] = 0
  BY <1>2 DEF Added
<1> QED BY <1>3, SumIsOfSums

LEMMA SumTakesChosen ==
  ASSUME NEW f, NEW S, IsFiniteSet(S), S # {}
  PROVE  SumFunctionOnSet(f, S) = f[Chosen(S)] + SumFunctionOnSet(f, S \ {Chosen(S)})
<1>1. PICK all : all = Sums(f, S) /\ \A U \in SUBSET S : all[U] = Added(f, U, all)
  BY SumsAdd
<1>2. all[S] = f[Chosen(S)] + all[S \ {Chosen(S)}]
  BY <1>1 DEF Added
<1>3. SumFunctionOnSet(f, S) = all[S]
  BY <1>1, SumOfPart
<1>4. SumFunctionOnSet(f, S \ {Chosen(S)}) = all[S \ {Chosen(S)}]
  <2>1. S \ {Chosen(S)} \in SUBSET S
    OBVIOUS
  <2> QED BY <1>1, <2>1, SumOfPart
<1> QED BY <1>2, <1>3, <1>4

\* A sum of numbers is a number.
THEOREM SumIsInt ==
  ASSUME NEW f, NEW S, IsFiniteSet(S), \A x \in S : f[x] \in Int
  PROVE  SumFunctionOnSet(f, S) \in Int
<1> DEFINE bad == {T \in SUBSET S : SumFunctionOnSet(f, T) \notin Int}
<1>1. SUFFICES ASSUME bad # {} PROVE FALSE
  OBVIOUS
<1>2. PICK T \in bad : \A U \in bad : U \subseteq T => U = T
  <2>1. bad \in SUBSET (SUBSET S)
    OBVIOUS
  <2> HIDE DEF bad
  <2> QED BY <1>1, <2>1, SmallestSubset
<1>3. T \in SUBSET S /\ IsFiniteSet(T) /\ SumFunctionOnSet(f, T) \notin Int
  BY <1>2, FS_Subset
<1>4. T # {}
  BY <1>3, SumOfNothing
<1>5. SumFunctionOnSet(f, T) = f[Chosen(T)] + SumFunctionOnSet(f, T \ {Chosen(T)})
  BY <1>3, <1>4, SumTakesChosen
<1>6. SumFunctionOnSet(f, T \ {Chosen(T)}) \in Int
  BY <1>2, <1>3, <1>4, ChosenIn
<1>7. f[Chosen(T)] \in Int
  BY <1>3, <1>4, ChosenIn
<1> QED BY <1>3, <1>5, <1>6, <1>7

\* A sum of naturals is a natural.
THEOREM SumIsNat ==
  ASSUME NEW f, NEW S, IsFiniteSet(S), \A x \in S : f[x] \in Nat
  PROVE  SumFunctionOnSet(f, S) \in Nat
<1> DEFINE bad == {T \in SUBSET S : SumFunctionOnSet(f, T) \notin Nat}
<1>1. SUFFICES ASSUME bad # {} PROVE FALSE
  OBVIOUS
<1>2. PICK T \in bad : \A U \in bad : U \subseteq T => U = T
  <2>1. bad \in SUBSET (SUBSET S)
    OBVIOUS
  <2> HIDE DEF bad
  <2> QED BY <1>1, <2>1, SmallestSubset
<1>3. T \in SUBSET S /\ IsFiniteSet(T) /\ SumFunctionOnSet(f, T) \notin Nat
  BY <1>2, FS_Subset
<1>4. T # {}
  BY <1>3, SumOfNothing
<1>5. SumFunctionOnSet(f, T) = f[Chosen(T)] + SumFunctionOnSet(f, T \ {Chosen(T)})
  BY <1>3, <1>4, SumTakesChosen
<1>6. SumFunctionOnSet(f, T \ {Chosen(T)}) \in Nat
  BY <1>2, <1>3, <1>4, ChosenIn
<1>7. f[Chosen(T)] \in Nat
  BY <1>3, <1>4, ChosenIn
<1> QED BY <1>3, <1>5, <1>6, <1>7

\* Any element may be taken out of a sum.
THEOREM SumTakesAny ==
  ASSUME NEW f, NEW S, IsFiniteSet(S), \A x \in S : f[x] \in Int, NEW y \in S
  PROVE  SumFunctionOnSet(f, S) = f[y] + SumFunctionOnSet(f, S \ {y})
<1> DEFINE bad == {T \in SUBSET S : \E z \in T :
                     SumFunctionOnSet(f, T) # f[z] + SumFunctionOnSet(f, T \ {z})}
<1>1. SUFFICES ASSUME bad # {} PROVE FALSE
  OBVIOUS
<1>2. PICK T \in bad : \A U \in bad : U \subseteq T => U = T
  <2>1. bad \in SUBSET (SUBSET S)
    OBVIOUS
  <2> HIDE DEF bad
  <2> QED BY <1>1, <2>1, SmallestSubset
<1>3. T \in SUBSET S /\ IsFiniteSet(T)
  BY <1>2, FS_Subset
<1>4. PICK z \in T : SumFunctionOnSet(f, T) # f[z] + SumFunctionOnSet(f, T \ {z})
  BY <1>2
<1>5. PICK c \in T : c = Chosen(T)
  BY <1>4, ChosenIn
<1>6. SumFunctionOnSet(f, T) = f[c] + SumFunctionOnSet(f, T \ {c})
  BY <1>3, <1>5, SumTakesChosen
<1>7. c # z
  BY <1>4, <1>6
<1>8. ASSUME NEW x \in T, NEW w \in T, x # w
      PROVE  SumFunctionOnSet(f, T \ {x}) = f[w] + SumFunctionOnSet(f, (T \ {x}) \ {w})
  <2>1. T \ {x} \notin bad
    BY <1>2, <1>8
  <2> QED BY <1>3, <1>8, <2>1
<1>9. (T \ {c}) \ {z} = (T \ {z}) \ {c}
  OBVIOUS
<1>10. PICK rest : rest = SumFunctionOnSet(f, (T \ {c}) \ {z})
  OBVIOUS
<1>11. rest \in Int
  <2>1. (T \ {c}) \ {z} \in SUBSET S /\ IsFiniteSet((T \ {c}) \ {z})
    BY <1>3, FS_Subset
  <2> QED BY <1>10, <2>1, SumIsInt
<1>12. SumFunctionOnSet(f, T \ {c}) = f[z] + rest
  BY <1>7, <1>8, <1>10
<1>13. SumFunctionOnSet(f, T \ {z}) = f[c] + rest
  BY <1>7, <1>8, <1>9, <1>10
<1>14. f[c] \in Int /\ f[z] \in Int
  BY <1>3
<1> QED BY <1>4, <1>6, <1>11, <1>12, <1>13, <1>14

\* A sum depends on the values over its elements only, and grows with them.
THEOREM SumIsMonotone ==
  ASSUME NEW f, NEW g, NEW S, IsFiniteSet(S),
         \A x \in S : f[x] \in Int /\ g[x] \in Int /\ f[x] <= g[x]
  PROVE  SumFunctionOnSet(f, S) <= SumFunctionOnSet(g, S)
<1> DEFINE bad == {T \in SUBSET S : ~(SumFunctionOnSet(f, T) <= SumFunctionOnSet(g, T))}
<1>1. SUFFICES ASSUME bad # {} PROVE FALSE
  OBVIOUS
<1>2. PICK T \in bad : \A U \in bad : U \subseteq T => U = T
  <2>1. bad \in SUBSET (SUBSET S)
    OBVIOUS
  <2> HIDE DEF bad
  <2> QED BY <1>1, <2>1, SmallestSubset
<1>3. T \in SUBSET S /\ IsFiniteSet(T) /\ ~(SumFunctionOnSet(f, T) <= SumFunctionOnSet(g, T))
  BY <1>2, FS_Subset
<1>4. T # {}
  BY <1>3, SumOfNothing
<1>5. PICK c \in T : c = Chosen(T)
  BY <1>4, ChosenIn
<1>6. /\ SumFunctionOnSet(f, T) = f[c] + SumFunctionOnSet(f, T \ {c})
      /\ SumFunctionOnSet(g, T) = g[c] + SumFunctionOnSet(g, T \ {c})
  BY <1>3, <1>4, <1>5, SumTakesChosen
<1>7. SumFunctionOnSet(f, T \ {c}) <= SumFunctionOnSet(g, T \ {c})
  BY <1>2, <1>3, <1>5
<1>8. T \ {c} \in SUBSET S /\ IsFiniteSet(T \ {c})
  BY <1>3, FS_Subset
<1>9. SumFunctionOnSet(f, T \ {c}) \in Int /\ SumFunctionOnSet(g, T \ {c}) \in Int
  BY <1>8, SumIsInt
<1>10. f[c] \in Int /\ g[c] \in Int /\ f[c] <= g[c]
  BY <1>3
<1> QED BY <1>3, <1>6, <1>7, <1>9, <1>10

\* Functions that agree over a set have the same sum over it.
THEOREM SumsAgree ==
  ASSUME NEW f, NEW g, NEW S, IsFiniteSet(S), \A x \in S : f[x] = g[x]
  PROVE  SumFunctionOnSet(f, S) = SumFunctionOnSet(g, S)
<1> DEFINE bad == {T \in SUBSET S : SumFunctionOnSet(f, T) # SumFunctionOnSet(g, T)}
<1>1. SUFFICES ASSUME bad # {} PROVE FALSE
  OBVIOUS
<1>2. PICK T \in bad : \A U \in bad : U \subseteq T => U = T
  <2>1. bad \in SUBSET (SUBSET S)
    OBVIOUS
  <2> HIDE DEF bad
  <2> QED BY <1>1, <2>1, SmallestSubset
<1>3. T \in SUBSET S /\ IsFiniteSet(T) /\ SumFunctionOnSet(f, T) # SumFunctionOnSet(g, T)
  BY <1>2, FS_Subset
<1>4. T # {}
  BY <1>3, SumOfNothing
<1>5. PICK c \in T : c = Chosen(T)
  BY <1>4, ChosenIn
<1>6. /\ SumFunctionOnSet(f, T) = f[c] + SumFunctionOnSet(f, T \ {c})
      /\ SumFunctionOnSet(g, T) = g[c] + SumFunctionOnSet(g, T \ {c})
  BY <1>3, <1>4, <1>5, SumTakesChosen
<1>7. SumFunctionOnSet(f, T \ {c}) = SumFunctionOnSet(g, T \ {c})
  BY <1>2, <1>3, <1>5
<1> QED BY <1>3, <1>6, <1>7
=============================================================================
