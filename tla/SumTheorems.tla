---------------------------- MODULE SumTheorems ----------------------------
(***************************************************************************)
(* Facts about SumFunction of the community modules, for functions with    *)
(* natural values: the sums of OrderService (what the orders took of a     *)
(* product) and of OrderApi (the total of an order) are made of it.        *)
(*                                                                         *)
(* SumFunction is defined by recursion over the subsets of the domain.     *)
(* The sum is shown to be the number of pieces in piles of f[x] pieces;    *)
(* everything else follows from the library's facts about cardinalities.   *)
(***************************************************************************)
EXTENDS Integers, Functions, FiniteSetTheorems, TLAPS

\* The piles of f on s, their pieces numbered.
Pile(f, x) == {x} \X (1..f[x])
Pieces(f, s) == UNION {Pile(f, x) : x \in s}

\* One step of the recursion that SumFunction stands for.
SumStep(f, iter) ==
    [s \in SUBSET DOMAIN f |->
        IF s = {} THEN 0
        ELSE f[CHOOSE x \in s : TRUE] + iter[s \ {CHOOSE x \in s : TRUE}]]

-----------------------------------------------------------------------------

\* SumFunction is what its recursion says.
LEMMA SumUnfolds ==
    ASSUME NEW f
    PROVE  SumFunction(f) = (CHOOSE iter : iter = SumStep(f, iter))[DOMAIN f]
BY Zenon DEF SumFunction, SumFunctionOnSet, FoldFunctionOnSet, MapThenFoldSet, SumStep

\* A pile has as many pieces as f says.
LEMMA PileSize ==
    ASSUME NEW S, NEW f \in [S -> Nat], NEW x \in S
    PROVE  IsFiniteSet(Pile(f, x)) /\ Cardinality(Pile(f, x)) = f[x]
<1>1. IsFiniteSet({x}) /\ Cardinality({x}) = 1
  BY FS_Singleton
<1>2. f[x] \in Nat
  OBVIOUS
<1>3. IsFiniteSet(1..f[x]) /\ Cardinality(1..f[x]) = f[x]
  BY <1>2, FS_Interval
<1>4. IsFiniteSet({x} \X (1..f[x])) /\ Cardinality({x} \X (1..f[x])) = 1 * f[x]
  BY <1>1, <1>3, FS_Product
<1> QED
  BY <1>2, <1>4 DEF Pile

\* Finitely many piles have finitely many pieces.
LEMMA PiecesFinite ==
    ASSUME NEW S, NEW f \in [S -> Nat], NEW s \in SUBSET S, IsFiniteSet(s)
    PROVE  IsFiniteSet(Pieces(f, s))
<1> DEFINE Piles == {Pile(f, x) : x \in s}
           pile == [x \in s |-> Pile(f, x)]
<1>1. pile \in Surjection(s, Piles)
  BY DEF Surjection
<1>2. IsFiniteSet(Piles)
  BY <1>1, FS_Surjection
<1>3. \A p \in Piles : IsFiniteSet(p)
  BY PileSize
<1> QED
  BY <1>2, <1>3, FS_UNION DEF Pieces

\* One more pile.
LEMMA OneMorePile ==
    ASSUME NEW S, NEW f \in [S -> Nat], NEW s \in SUBSET S, IsFiniteSet(s), NEW x \in s
    PROVE  Cardinality(Pieces(f, s)) = f[x] + Cardinality(Pieces(f, s \ {x}))
<1> DEFINE rest == Pieces(f, s \ {x})
<1>1. IsFiniteSet(s \ {x})
  BY FS_RemoveElement
<1>2. IsFiniteSet(rest)
  BY <1>1, PiecesFinite
<1>3. IsFiniteSet(Pile(f, x)) /\ Cardinality(Pile(f, x)) = f[x]
  BY PileSize
<1>4. Pieces(f, s) = Pile(f, x) \union rest
  BY DEF Pieces
<1>5. Pile(f, x) \intersect rest = {}
  BY DEF Pieces, Pile
<1>6. Cardinality(Pile(f, x) \union rest)
        = Cardinality(Pile(f, x)) + Cardinality(rest) - Cardinality(Pile(f, x) \intersect rest)
  BY <1>2, <1>3, FS_Union
<1>7. Cardinality({}) = 0 /\ Cardinality(rest) \in Nat /\ f[x] \in Nat
  BY <1>2, FS_EmptySet, FS_CardinalityType
<1> HIDE DEF rest
<1>8. Cardinality(Pile(f, x) \intersect rest) = 0
  BY <1>5, <1>7
<1>9. Cardinality(Pile(f, x) \union rest) = f[x] + Cardinality(rest) - 0
  BY <1>3, <1>6, <1>8
<1> QED
  BY <1>4, <1>7, <1>9 DEF rest

\* The recursion has exactly one solution, the number of pieces: a least
\* set on which two solutions differ is neither empty nor not empty.
LEMMA SumStepUnique ==
    ASSUME NEW S, IsFiniteSet(S), NEW f \in [S -> Nat],
           NEW iter, iter = SumStep(f, iter)
    PROVE  \A s \in SUBSET S : iter[s] = Cardinality(Pieces(f, s))
<1> DEFINE Odd == {s \in SUBSET S : iter[s] # Cardinality(Pieces(f, s))}
<1> SUFFICES ASSUME Odd # {} PROVE FALSE
  OBVIOUS
<1>1. IsWellFoundedOn(StrictSubsetOrdering(S), SUBSET S)
  BY FS_StrictSubsetOrderingWellFounded, FS_FiniteSubsetsOfFinite
<1>2. PICK s \in Odd : \A t \in Odd : ~ (<<t, s>> \in StrictSubsetOrdering(S))
  BY <1>1, WFMin
<1>3. iter[s] = IF s = {} THEN 0
                ELSE f[CHOOSE x \in s : TRUE] + iter[s \ {CHOOSE x \in s : TRUE}]
  BY DEF SumStep
<1>4. CASE s = {}
  <2>1. Pieces(f, s) = {}
    BY <1>4 DEF Pieces
  <2> QED
    BY <1>3, <1>4, <2>1, FS_EmptySet
<1>5. CASE s # {}
  <2> DEFINE x == CHOOSE x \in s : TRUE
  <2>1. x \in s
    BY <1>5
  <2> HIDE DEF x
  <2>2. s \ {x} \notin Odd
    <3>1. <<s \ {x}, s>> \in StrictSubsetOrdering(S)
      BY <2>1 DEF StrictSubsetOrdering
    <3> QED
      BY <1>2, <3>1
  <2>3. iter[s \ {x}] = Cardinality(Pieces(f, s \ {x}))
    BY <2>2
  <2>4. iter[s] = f[x] + iter[s \ {x}]
    BY <1>3, <1>5 DEF x
  <2>5. IsFiniteSet(s)
    BY FS_Subset
  <2> QED
    BY <2>1, <2>3, <2>4, <2>5, OneMorePile
<1> QED
  BY <1>4, <1>5

\* The counting of the pieces solves the recursion.
LEMMA SumStepSolvable ==
    ASSUME NEW S, IsFiniteSet(S), NEW f \in [S -> Nat]
    PROVE  \E iter : iter = SumStep(f, iter)
<1> DEFINE count == [s \in SUBSET S |-> Cardinality(Pieces(f, s))]
<1>1. ASSUME NEW s \in SUBSET S
      PROVE  Cardinality(Pieces(f, s)) =
               IF s = {} THEN 0
               ELSE f[CHOOSE x \in s : TRUE] + count[s \ {CHOOSE x \in s : TRUE}]
  <2>1. CASE s = {}
    <3>1. Pieces(f, s) = {}
      BY <2>1 DEF Pieces
    <3> QED
      BY <2>1, <3>1, FS_EmptySet
  <2>2. CASE s # {}
    <3> DEFINE x == CHOOSE x \in s : TRUE
    <3>1. x \in s
      BY <2>2
    <3> HIDE DEF x
    <3>2. IsFiniteSet(s)
      BY FS_Subset
    <3>3. Cardinality(Pieces(f, s)) = f[x] + Cardinality(Pieces(f, s \ {x}))
      BY <3>1, <3>2, OneMorePile
    <3>4. s \ {x} \in SUBSET S
      OBVIOUS
    <3>5. Cardinality(Pieces(f, s)) = f[x] + count[s \ {x}]
      BY <3>3, <3>4
    <3> QED
      BY <2>2, <3>5 DEF x
  <2> QED
    BY <2>1, <2>2
<1>2. count = SumStep(f, count)
  BY <1>1 DEF SumStep
<1> QED
  BY <1>2

\* The sum of a function with natural values is the number of its pieces.
LEMMA SumIsCount ==
    ASSUME NEW S, IsFiniteSet(S), NEW f \in [S -> Nat]
    PROVE  SumFunction(f) = Cardinality(Pieces(f, S))
<1> DEFINE iter == CHOOSE iter : iter = SumStep(f, iter)
<1>1. iter = SumStep(f, iter)
  BY SumStepSolvable
<1> HIDE DEF iter
<1>2. iter[S] = Cardinality(Pieces(f, S))
  BY <1>1, SumStepUnique
<1>3. SumFunction(f) = iter[DOMAIN f]
  BY SumUnfolds DEF iter
<1> QED
  BY <1>2, <1>3

-----------------------------------------------------------------------------
(* What the models need of sums.                                            *)

\* A sum of naturals is a natural.
LEMMA SumType ==
    ASSUME NEW S, IsFiniteSet(S), NEW f \in [S -> Nat]
    PROVE  SumFunction(f) \in Nat
BY SumIsCount, PiecesFinite, FS_CardinalityType

\* The sum of nothing.
LEMMA SumEmpty ==
    ASSUME NEW f \in [{} -> Nat]
    PROVE  SumFunction(f) = 0
<1>1. Pieces(f, {}) = {}
  BY DEF Pieces
<1> QED
  BY <1>1, SumIsCount, FS_EmptySet

\* A term more.
LEMMA SumAdd ==
    ASSUME NEW S, IsFiniteSet(S), NEW x, x \notin S,
           NEW f \in [S -> Nat], NEW g \in [S \union {x} -> Nat],
           \A y \in S : g[y] = f[y]
    PROVE  SumFunction(g) = SumFunction(f) + g[x]
<1>1. IsFiniteSet(S \union {x})
  BY FS_AddElement
<1>2. Cardinality(Pieces(g, S \union {x})) = g[x] + Cardinality(Pieces(g, (S \union {x}) \ {x}))
  BY <1>1, OneMorePile
<1>3. (S \union {x}) \ {x} = S
  OBVIOUS
<1>4. Pieces(g, S) = Pieces(f, S)
  BY DEF Pieces, Pile
<1>5. SumFunction(f) = Cardinality(Pieces(f, S)) /\ SumFunction(f) \in Nat
  BY SumIsCount, SumType
<1>6. SumFunction(g) = Cardinality(Pieces(g, S \union {x}))
  BY <1>1, SumIsCount
<1>7. g[x] \in Nat
  OBVIOUS
<1>8. SumFunction(g) = g[x] + SumFunction(f)
  BY <1>2, <1>3, <1>4, <1>5, <1>6
<1> QED
  BY <1>5, <1>7, <1>8

\* The sum of one term.
LEMMA SumSingleton ==
    ASSUME NEW x, NEW f \in [{x} -> Nat]
    PROVE  SumFunction(f) = f[x]
<1>1. Pieces(f, {x}) = Pile(f, x)
  BY DEF Pieces
<1>2. IsFiniteSet({x}) /\ x \in {x}
  BY FS_Singleton
<1>3. SumFunction(f) = Cardinality(Pieces(f, {x}))
  BY <1>2, SumIsCount
<1>4. Cardinality(Pile(f, x)) = f[x]
  BY <1>2, PileSize
<1> QED
  BY <1>1, <1>3, <1>4

\* No term exceeds the sum.
LEMMA TermBelowSum ==
    ASSUME NEW S, IsFiniteSet(S), NEW f \in [S -> Nat], NEW x \in S
    PROVE  f[x] <= SumFunction(f)
<1>1. Cardinality(Pieces(f, S)) = f[x] + Cardinality(Pieces(f, S \ {x}))
  BY OneMorePile
<1>2. IsFiniteSet(S \ {x})
  BY FS_RemoveElement
<1>3. Cardinality(Pieces(f, S \ {x})) \in Nat
  BY <1>2, PiecesFinite, FS_CardinalityType
<1> QED
  BY <1>1, <1>3, SumIsCount

\* A sum of multiples of ten is one: of the sets of piles with another
\* number of pieces, a least one has a pile to take away.
LEMMA SumOfTens ==
    ASSUME NEW S, IsFiniteSet(S), NEW f \in [S -> Nat], \A x \in S : f[x] % 10 = 0
    PROVE  SumFunction(f) % 10 = 0
<1> DEFINE size(s) == Cardinality(Pieces(f, s))
           Odd == {s \in SUBSET S : size(s) % 10 # 0}
<1>1. SUFFICES ASSUME Odd # {} PROVE FALSE
  BY SumIsCount
<1>2. IsWellFoundedOn(StrictSubsetOrdering(S), SUBSET S)
  BY FS_StrictSubsetOrderingWellFounded, FS_FiniteSubsetsOfFinite
<1>3. PICK s \in Odd : \A t \in Odd : ~ (<<t, s>> \in StrictSubsetOrdering(S))
  BY <1>1, <1>2, WFMin
<1>4. IsFiniteSet(s)
  BY FS_Subset
<1>5. ASSUME s = {} PROVE FALSE
  <2>1. Pieces(f, s) = {}
    BY <1>5 DEF Pieces
  <2>2. size(s) = 0
    BY <2>1, FS_EmptySet
  <2> QED
    BY <2>2
<1>6. PICK x \in s : TRUE
  BY <1>5
<1>7. s \ {x} \notin Odd
  <2>1. <<s \ {x}, s>> \in StrictSubsetOrdering(S)
    BY DEF StrictSubsetOrdering
  <2> QED
    BY <1>3, <2>1
<1>8. size(s) = f[x] + size(s \ {x})
  BY <1>4, OneMorePile
<1>9. size(s \ {x}) \in Nat /\ size(s \ {x}) % 10 = 0
  <2>1. IsFiniteSet(s \ {x})
    BY <1>4, FS_RemoveElement
  <2>2. size(s \ {x}) \in Nat
    BY <2>1, PiecesFinite, FS_CardinalityType
  <2> QED
    BY <1>7, <2>2
<1>10. f[x] \in Nat /\ f[x] % 10 = 0 /\ size(s) % 10 # 0
  OBVIOUS
<1> HIDE DEF size
<1> QED
  BY <1>8, <1>9, <1>10

\* The same terms under other names.
LEMMA SumRenamed ==
    ASSUME NEW S, NEW T, IsFiniteSet(S), NEW h \in Bijection(S, T),
           NEW f \in [S -> Nat], NEW g \in [T -> Nat],
           \A x \in S : g[h[x]] = f[x]
    PROVE  SumFunction(g) = SumFunction(f)
<1> DEFINE move == [z \in Pieces(f, S) |-> <<h[z[1]], z[2]>>]
<1>1. h \in [S -> T] /\ (\A a, b \in S : h[a] = h[b] => a = b) /\ (\A t \in T : \E s \in S : h[s] = t)
  BY DEF Bijection, Injection, Surjection, IsInjective
<1>2. IsFiniteSet(T)
  BY FS_Bijection DEF ExistsBijection
<1>3. \A z : z \in Pieces(f, S) <=> \E x \in S : \E n \in 1..f[x] : z = <<x, n>>
  BY DEF Pieces, Pile
<1>4. \A z : z \in Pieces(g, T) <=> \E x \in T : \E n \in 1..g[x] : z = <<x, n>>
  BY DEF Pieces, Pile
<1>5. move \in [Pieces(f, S) -> Pieces(g, T)]
  BY <1>1, <1>3, <1>4
<1>6. \A a, b \in Pieces(f, S) : move[a] = move[b] => a = b
  BY <1>1, <1>3
<1>7. \A z \in Pieces(g, T) : \E a \in Pieces(f, S) : move[a] = z
  <2> SUFFICES ASSUME NEW z \in Pieces(g, T) PROVE \E a \in Pieces(f, S) : move[a] = z
    OBVIOUS
  <2>1. PICK t \in T : \E n \in 1..g[t] : z = <<t, n>>
    BY <1>4
  <2>2. PICK n \in 1..g[t] : z = <<t, n>>
    BY <2>1
  <2>3. PICK s \in S : h[s] = t
    BY <1>1
  <2>4. <<s, n>> \in Pieces(f, S)
    BY <1>3, <2>2, <2>3
  <2>5. move[<<s, n>>] = <<t, n>>
    BY <2>3, <2>4
  <2> QED
    BY <2>2, <2>4, <2>5
<1>8. move \in Bijection(Pieces(f, S), Pieces(g, T))
  BY <1>5, <1>6, <1>7 DEF Bijection, Injection, Surjection, IsInjective
<1>9. IsFiniteSet(Pieces(f, S))
  BY PiecesFinite
<1>10. Cardinality(Pieces(f, S)) = Cardinality(Pieces(g, T))
  BY <1>8, <1>9, FS_Bijection DEF ExistsBijection
<1> QED
  BY <1>2, <1>10, SumIsCount

=============================================================================
