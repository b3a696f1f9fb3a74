-------------------------------- MODULE Sums --------------------------------
(***************************************************************************)
(* Sums over finite sets.  MapThenSumSet is a fold by a recursive function *)
(* that takes the elements in an order nobody knows; the lemmas at the end *)
(* say what it yields in any order: a sum is an integer, the same for the  *)
(* same summands, and changes as its summands do.  Each induction is by a  *)
(* smallest set without the property, which exists as strict inclusion is  *)
(* well founded on finite sets.                                            *)
(***************************************************************************)
EXTENDS Integers, FiniteSetsExt, FiniteSetTheorems, WellFoundedInduction, TLAPS

\* T has a member that includes no other.
Lowest(T) == \E x \in T : \A y \in T : y \subseteq x => y = x

\* Among finite sets there is a smallest one.
LEMMA Minimal ==
  ASSUME NEW S, NEW T, T \subseteq SUBSET S, T # {}, \A x \in T : IsFiniteSet(x)
  PROVE  Lowest(T)
<1>1. IsWellFoundedOn(StrictSubsetOrdering(S), FiniteSubsetsOf(S))
  BY FS_StrictSubsetOrderingWellFounded
<1>2. T \subseteq FiniteSubsetsOf(S)
  BY DEF FiniteSubsetsOf
<1>3. PICK x \in T : \A y \in T : ~ (<<y, x>> \in StrictSubsetOrdering(S))
  BY <1>1, <1>2, WFMin, Zenon
<1>4. \A y \in T : y \subseteq x => y = x
  BY <1>3 DEF StrictSubsetOrdering
<1>. QED
  BY <1>4 DEF Lowest

-----------------------------------------------------------------------------
(* The recursive function that adds up f *)

Some(T) == CHOOSE x \in T : TRUE

\* g is such a function, of the subsets of S.
IsSumOf(g, f, S) ==
  g = [T \in SUBSET S |-> IF T = {} THEN 0 ELSE f[Some(T)] + g[T \ {Some(T)}]]

LEMMA SomeIn == ASSUME NEW T, T # {} PROVE Some(T) \in T
BY DEF Some

\* Two of them agree where both are defined and the summands are the same.
LEMMA SumsUnique ==
  ASSUME NEW f, NEW h, NEW S, NEW R, NEW g, NEW k,
         NEW U, U \subseteq S, U \subseteq R, IsFiniteSet(U),
         IsSumOf(g, f, S), IsSumOf(k, h, R), \A x \in U : f[x] = h[x]
  PROVE  g[U] = k[U]
<1>. DEFINE Bad == {T \in SUBSET U : g[T] # k[T]}
<1>1. SUFFICES ASSUME Bad # {} PROVE FALSE
  OBVIOUS
<1>2. Bad \subseteq SUBSET U
  OBVIOUS
<1>3. \A T \in Bad : IsFiniteSet(T)
  BY FS_Subset
<1>4. Lowest(Bad)
  <2>. HIDE DEF Bad
  <2>. QED BY <1>1, <1>2, <1>3, Minimal
<1>5. PICK T \in Bad : \A y \in Bad : y \subseteq T => y = T
  BY <1>4 DEF Lowest
<1>6. T \subseteq S /\ T \subseteq R /\ g[T] # k[T]
  OBVIOUS
<1>7. g[T] = IF T = {} THEN 0 ELSE f[Some(T)] + g[T \ {Some(T)}]
  BY <1>6 DEF IsSumOf
<1>8. k[T] = IF T = {} THEN 0 ELSE h[Some(T)] + k[T \ {Some(T)}]
  BY <1>6 DEF IsSumOf
<1>9. T # {}
  BY <1>6, <1>7, <1>8
<1>10. Some(T) \in T
  BY <1>9, SomeIn
<1>11. g[T \ {Some(T)}] = k[T \ {Some(T)}]
  <2>1. T \ {Some(T)} \notin Bad
    BY <1>5, <1>10
  <2>. QED BY <2>1
<1>12. f[Some(T)] = h[Some(T)]
  BY <1>10
<1>. QED
  BY <1>6, <1>7, <1>8, <1>9, <1>11, <1>12

\* There is one for every finite set: of a smallest set without, all strict
\* subsets have one, and their values make one for it.
LEMMA SumsExist ==
  ASSUME NEW f, NEW S, IsFiniteSet(S), \A x \in S : f[x] \in Int
  PROVE  \E g \in [SUBSET S -> Int] : IsSumOf(g, f, S)
<1>. DEFINE Good(T) == \E g \in [SUBSET T -> Int] : IsSumOf(g, f, T)
            Bad == {T \in SUBSET S : ~Good(T)}
<1>1. SUFFICES ASSUME Bad # {} PROVE FALSE
  OBVIOUS
<1>2. Bad \subseteq SUBSET S
  OBVIOUS
<1>3. \A T \in Bad : IsFiniteSet(T)
  BY FS_Subset
<1>4. Lowest(Bad)
  <2>. HIDE DEF Bad
  <2>. QED BY <1>1, <1>2, <1>3, Minimal
<1>5. PICK T \in Bad : \A y \in Bad : y \subseteq T => y = T
  BY <1>4 DEF Lowest
<1>6. T \subseteq S /\ ~Good(T)
  OBVIOUS
<1>7. \A U \in SUBSET T : U # T => Good(U)
  BY <1>5
<1>. DEFINE of == [U \in SUBSET T |-> CHOOSE g \in [SUBSET U -> Int] : IsSumOf(g, f, U)]
            v == [U \in SUBSET T |->
                    IF U = T
                    THEN (IF T = {} THEN 0 ELSE f[Some(T)] + of[T \ {Some(T)}][T \ {Some(T)}])
                    ELSE of[U][U]]
<1>8. \A U \in SUBSET T : U # T => of[U] \in [SUBSET U -> Int] /\ IsSumOf(of[U], f, U)
  BY <1>7
<1>9. \A U \in SUBSET T : U # {} => Some(U) \in U
  BY SomeIn
<1>10. \A U \in SUBSET T : U # {} =>
         U \ {Some(U)} # T /\ U \ {Some(U)} \in SUBSET T /\ U \ {Some(U)} \subseteq U
  BY <1>9
<1>11. v \in [SUBSET T -> Int]
  <2>1. ASSUME NEW U \in SUBSET T PROVE v[U] \in Int
    <3>0. ASSUME NEW W \in SUBSET T, W # T PROVE of[W][W] \in Int
      BY <1>8, <3>0
    <3>1. CASE U # T
      BY <3>0, <3>1
    <3>2. CASE U = T /\ T # {}
      <4>1. f[Some(T)] \in Int
        BY <1>9, <3>2, <1>6
      <4>2. of[T \ {Some(T)}][T \ {Some(T)}] \in Int
        BY <1>10, <3>2, <3>0
      <4>. HIDE DEF of
      <4>. QED BY <4>1, <4>2, <3>2
    <3>3. CASE U = T /\ T = {}
      BY <3>3
    <3>. QED BY <3>1, <3>2, <3>3
  <2>. HIDE DEF of
  <2>. QED BY <2>1
<1>12. ASSUME NEW U \in SUBSET T
       PROVE  v[U] = IF U = {} THEN 0 ELSE f[Some(U)] + v[U \ {Some(U)}]
  <2>. DEFINE W == U \ {Some(U)}
  <2>1. CASE U = T
    <3>1. CASE U # {}
      <4>1. W # T /\ W \in SUBSET T
        BY <3>1, <1>10
      <4>2. v[W] = of[W][W]
        <5>. HIDE DEF of, W
        <5>. QED BY <4>1
      <4>3. v[U] = f[Some(U)] + of[W][W]
        <5>. HIDE DEF of
        <5>. QED BY <2>1, <3>1
      <4>. HIDE DEF v, of
      <4>. QED BY <4>2, <4>3, <3>1
    <3>. QED BY <2>1, <3>1
  <2>2. CASE U # T
    <3>0. v[U] = of[U][U]
      <4>. HIDE DEF of
      <4>. QED BY <2>2
    <3>1. IsSumOf(of[U], f, U)
      BY <2>2, <1>8
    <3>2. of[U][U] = IF U = {} THEN 0 ELSE f[Some(U)] + of[U][U \ {Some(U)}]
      <4>1. ASSUME NEW g, IsSumOf(g, f, U)
            PROVE  g[U] = IF U = {} THEN 0 ELSE f[Some(U)] + g[U \ {Some(U)}]
        BY <4>1 DEF IsSumOf
      <4>. HIDE DEF of
      <4>. QED BY <4>1, <3>1
    <3>3. CASE U = {}
      <4>. HIDE DEF of, v
      <4>. QED BY <3>0, <3>2, <3>3
    <3>4. CASE U # {}
      <4>1. W # T /\ W \in SUBSET T /\ W \subseteq U
        BY <3>4, <1>10
      <4>2. v[W] = of[W][W]
        <5>. HIDE DEF of, W
        <5>. QED BY <4>1
      <4>3. IsSumOf(of[W], f, W)
        <5>. HIDE DEF of, W
        <5>. QED BY <4>1, <1>8
      <4>4. IsFiniteSet(W)
        BY <1>6, FS_Subset
      <4>5. of[U][W] = of[W][W]
        <5>. HIDE DEF of, W
        <5>. QED BY <3>1, <4>3, <4>1, <4>4, SumsUnique
      <4>. HIDE DEF of, v
      <4>. QED BY <3>0, <3>2, <3>4, <4>2, <4>5
    <3>. QED BY <3>3, <3>4
  <2>. QED BY <2>1, <2>2
<1>13. IsSumOf(v, f, T)
  <2>1. v = [U \in SUBSET T |-> v[U]]
    OBVIOUS
  <2>. HIDE DEF v
  <2>. QED BY <2>1, <1>12 DEF IsSumOf
<1>. QED
  BY <1>6, <1>11, <1>13

\* Its value for a set with elements, and that this is an integer.
LEMMA SumsUnfold ==
  ASSUME NEW f, NEW S, NEW g, IsSumOf(g, f, S), NEW T, T \subseteq S, T # {}
  PROVE  g[T] = f[Some(T)] + g[T \ {Some(T)}]
BY DEF IsSumOf

LEMMA SumsType ==
  ASSUME NEW f, NEW S, NEW g, IsSumOf(g, f, S), IsFiniteSet(S), \A x \in S : f[x] \in Int,
         NEW T, T \subseteq S
  PROVE  g[T] \in Int
<1>1. PICK k \in [SUBSET S -> Int] : IsSumOf(k, f, S)
  BY SumsExist
<1>2. IsFiniteSet(T)
  BY FS_Subset
<1>3. g[T] = k[T]
  BY <1>1, <1>2, SumsUnique
<1>. QED
  BY <1>1, <1>3

\* Any element may be taken first.
LEMMA SumsAny ==
  ASSUME NEW f, NEW S, NEW g, IsSumOf(g, f, S), IsFiniteSet(S), \A x \in S : f[x] \in Int,
         NEW V, V \subseteq S, NEW e \in V
  PROVE  g[V] = f[e] + g[V \ {e}]
<1>. DEFINE Bad == {T \in SUBSET S : \E x \in T : g[T] # f[x] + g[T \ {x}]}
<1>1. SUFFICES ASSUME Bad # {} PROVE FALSE
  OBVIOUS
<1>2. Bad \subseteq SUBSET S
  OBVIOUS
<1>3. \A T \in Bad : IsFiniteSet(T)
  BY FS_Subset
<1>4. Lowest(Bad)
  <2>. HIDE DEF Bad
  <2>. QED BY <1>1, <1>2, <1>3, Minimal
<1>5. PICK T \in Bad : \A y \in Bad : y \subseteq T => y = T
  BY <1>4 DEF Lowest
<1>6. PICK x \in T : g[T] # f[x] + g[T \ {x}]
  OBVIOUS
<1>7. T \subseteq S /\ T # {}
  OBVIOUS
<1>. DEFINE c == Some(T)
            U == T \ {c}
            W == T \ {x}
            R == T \ {c, x}
<1>8. c \in T /\ g[T] = f[c] + g[U]
  BY <1>7, SumsUnfold, SomeIn
<1>9. c # x
  BY <1>6, <1>8
<1>10. U \notin Bad /\ W \notin Bad /\ U \in SUBSET S /\ W \in SUBSET S
  BY <1>5, <1>7, <1>8
<1>11. x \in U /\ U \ {x} = R /\ c \in W /\ W \ {c} = R
  BY <1>8, <1>9
<1>12. g[U] = f[x] + g[R]
  <2>1. \A z \in U : g[U] = f[z] + g[U \ {z}]
    BY <1>10
  <2>. HIDE DEF U, R
  <2>. QED BY <2>1, <1>11
<1>13. g[W] = f[c] + g[R]
  <2>1. \A z \in W : g[W] = f[z] + g[W \ {z}]
    BY <1>10
  <2>. HIDE DEF W, R, c
  <2>. QED BY <2>1, <1>11
<1>14. g[R] \in Int /\ f[c] \in Int /\ f[x] \in Int
  <2>1. R \subseteq S
    BY <1>7
  <2>. HIDE DEF R
  <2>. QED BY <2>1, <1>7, <1>8, SumsType
<1>15. g[T] = f[x] + g[W]
  <2>. HIDE DEF c, U, W, R
  <2>. QED BY <1>8, <1>12, <1>13, <1>14
<1>. QED
  BY <1>6, <1>15

-----------------------------------------------------------------------------

(* The sum of f over S *)

SumOf(f, S) == MapThenSumSet(LAMBDA x : f[x], S)

\* The fold is such a function.
LEMMA SumIs ==
  ASSUME NEW f, NEW S, IsFiniteSet(S), \A x \in S : f[x] \in Int
  PROVE  \E g : IsSumOf(g, f, S) /\ SumOf(f, S) = g[S]
<1>. DEFINE iter == CHOOSE iter : iter = [s \in SUBSET S |-> IF s = {} THEN 0 ELSE
                       f[CHOOSE x \in s : TRUE] + iter[s \ {CHOOSE x \in s : TRUE}]]
<1>1. PICK g : IsSumOf(g, f, S)
  BY SumsExist
<1>2. \E k : k = [s \in SUBSET S |-> IF s = {} THEN 0 ELSE
                       f[CHOOSE x \in s : TRUE] + k[s \ {CHOOSE x \in s : TRUE}]]
  BY <1>1 DEF IsSumOf, Some
<1>3. IsSumOf(iter, f, S)
  BY <1>2 DEF IsSumOf, Some
<1>4. SumOf(f, S) = iter[S]
  BY DEF SumOf, MapThenSumSet, MapThenFoldSet
<1>. QED
  BY <1>3, <1>4

LEMMA SumFrom ==
  ASSUME NEW f, NEW S, NEW g, IsSumOf(g, f, S), IsFiniteSet(S), \A x \in S : f[x] \in Int
  PROVE  SumOf(f, S) = g[S]
<1>1. PICK k : IsSumOf(k, f, S) /\ SumOf(f, S) = k[S]
  BY SumIs
<1>2. S \subseteq S /\ \A x \in S : f[x] = f[x]
  OBVIOUS
<1>3. k[S] = g[S]
  BY <1>1, <1>2, SumsUnique
<1>. QED
  BY <1>1, <1>3

\* A sum is an integer; without summands it is 0.
LEMMA SumType ==
  ASSUME NEW f, NEW S, IsFiniteSet(S), \A x \in S : f[x] \in Int
  PROVE  SumOf(f, S) \in Int
BY SumIs, SumsType

LEMMA SumEmpty == ASSUME NEW f PROVE SumOf(f, {}) = 0
<1>1. IsFiniteSet({})
  BY FS_EmptySet
<1>2. PICK g : IsSumOf(g, f, {}) /\ SumOf(f, {}) = g[{}]
  BY <1>1, SumIs
<1>. QED
  BY <1>2 DEF IsSumOf

\* It depends on the summands only.
LEMMA SumSame ==
  ASSUME NEW f, NEW h, NEW S, IsFiniteSet(S), \A x \in S : f[x] \in Int /\ h[x] = f[x]
  PROVE  SumOf(h, S) = SumOf(f, S)
<1>1. PICK g : IsSumOf(g, f, S) /\ SumOf(f, S) = g[S]
  BY SumIs
<1>2. PICK k : IsSumOf(k, h, S) /\ SumOf(h, S) = k[S]
  BY SumIs
<1>3. g[S] = k[S]
  BY <1>1, <1>2, SumsUnique
<1>. QED
  BY <1>1, <1>2, <1>3

\* Any summand may be taken out.
LEMMA SumSplit ==
  ASSUME NEW f, NEW S, IsFiniteSet(S), \A x \in S : f[x] \in Int, NEW e \in S
  PROVE  SumOf(f, S) = f[e] + SumOf(f, S \ {e})
<1>1. PICK g : IsSumOf(g, f, S) /\ SumOf(f, S) = g[S]
  BY SumIs
<1>2. IsFiniteSet(S \ {e})
  BY FS_Subset
<1>3. PICK k : IsSumOf(k, f, S \ {e}) /\ SumOf(f, S \ {e}) = k[S \ {e}]
  BY <1>2, SumIs
<1>4. g[S] = f[e] + g[S \ {e}]
  BY <1>1, SumsAny
<1>5. g[S \ {e}] = k[S \ {e}]
  BY <1>1, <1>2, <1>3, SumsUnique
<1>. QED
  BY <1>1, <1>3, <1>4, <1>5

\* One summand changes.
LEMMA SumChange ==
  ASSUME NEW f, NEW h, NEW S, IsFiniteSet(S), NEW e \in S, h[e] \in Int,
         \A x \in S : f[x] \in Int, \A x \in S \ {e} : h[x] = f[x]
  PROVE  SumOf(h, S) = SumOf(f, S) - f[e] + h[e]
<1>1. IsFiniteSet(S \ {e})
  BY FS_Subset
<1>2. SumOf(h, S \ {e}) = SumOf(f, S \ {e})
  BY <1>1, SumSame
<1>3. SumOf(f, S) = f[e] + SumOf(f, S \ {e})
  BY SumSplit
<1>4. SumOf(h, S) = h[e] + SumOf(h, S \ {e})
  BY SumSplit
<1>5. SumOf(f, S \ {e}) \in Int
  BY <1>1, SumType
<1>. QED
  BY <1>2, <1>3, <1>4, <1>5

\* A summand more.
LEMMA SumMore ==
  ASSUME NEW f, NEW S, IsFiniteSet(S), NEW e, e \notin S, \A x \in S \cup {e} : f[x] \in Int
  PROVE  SumOf(f, S \cup {e}) = SumOf(f, S) + f[e]
<1>1. IsFiniteSet(S \cup {e}) /\ (S \cup {e}) \ {e} = S
  BY FS_AddElement
<1>2. SumOf(f, S \cup {e}) = f[e] + SumOf(f, (S \cup {e}) \ {e})
  BY <1>1, SumSplit
<1>3. SumOf(f, S) \in Int /\ f[e] \in Int
  BY SumType
<1>4. SumOf(f, S \cup {e}) = f[e] + SumOf(f, S)
  BY <1>1, <1>2, Zenon
<1>. QED
  BY <1>3, <1>4

\* Summands that are no debts: the sum grows with the set.
LEMMA SumGrows ==
  ASSUME NEW f, NEW S, IsFiniteSet(S), \A x \in S : f[x] \in Nat, NEW R, R \subseteq S
  PROVE  SumOf(f, R) <= SumOf(f, S)
<1>. DEFINE Bad == {T \in SUBSET S : R \subseteq T /\ ~(SumOf(f, R) <= SumOf(f, T))}
<1>1. SUFFICES ASSUME Bad # {} PROVE FALSE
  OBVIOUS
<1>2. Bad \subseteq SUBSET S
  OBVIOUS
<1>3. \A T \in SUBSET S : IsFiniteSet(T) /\ SumOf(f, T) \in Int
  BY FS_Subset, SumType
<1>4. Lowest(Bad)
  <2>. HIDE DEF Bad
  <2>. QED BY <1>1, <1>2, <1>3, Minimal
<1>5. PICK T \in Bad : \A y \in Bad : y \subseteq T => y = T
  BY <1>4 DEF Lowest
<1>6. T \in SUBSET S /\ R \subseteq T /\ ~(SumOf(f, R) <= SumOf(f, T))
  OBVIOUS
<1>7. T # R
  BY <1>6, <1>3
<1>8. PICK e \in T : e \notin R
  BY <1>6, <1>7
<1>9. SumOf(f, T) = f[e] + SumOf(f, T \ {e})
  BY <1>6, <1>3, SumSplit
<1>10. T \ {e} \notin Bad /\ T \ {e} \in SUBSET S /\ R \subseteq T \ {e}
  BY <1>5, <1>6, <1>8
<1>11. SumOf(f, R) <= SumOf(f, T \ {e})
  BY <1>10
<1>12. f[e] \in Nat /\ SumOf(f, T \ {e}) \in Int /\ SumOf(f, R) \in Int
  BY <1>3, <1>6, <1>10
<1>. QED
  BY <1>6, <1>9, <1>11, <1>12
=============================================================================
