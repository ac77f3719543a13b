----------------------------- MODULE SetLemmas ------------------------------
(* What several proofs need of sets: a set of naturals has a least element, *)
(* a bounded one a greatest, and a set whose members are all one has at     *)
(* most one; and of sums over a finite set.                                 *)
EXTENDS Integers, FiniteSetsExt, FiniteSetTheorems, SequenceTheorems, TLAPS, WellFoundedInduction

LEMMA LeastNatural ==
  ASSUME NEW T \in SUBSET Nat, T # {}
  PROVE  \E x \in T : \A y \in T : x <= y
<1>1. \E x \in T : \A y \in T : ~ (<<y, x>> \in OpToRel(<, Nat))
  BY NatLessThanWellFounded, WFMin
<1>2. PICK x \in T : \A y \in T : ~ (<<y, x>> \in OpToRel(<, Nat))
  BY <1>1
<1>3. \A y \in T : ~ (y < x)
  BY <1>2 DEF OpToRel
<1> QED
  BY <1>3

LEMMA GreatestNatural ==
  ASSUME NEW T \in SUBSET Nat, T # {}, NEW bound \in Nat, \A y \in T : y <= bound
  PROVE  \E x \in T : \A y \in T : y <= x
<1> DEFINE D == {bound - y : y \in T}
<1>0. \A y \in T : y \in Nat /\ bound - y \in Nat
  OBVIOUS
<1>1. D \in SUBSET Nat /\ D # {}
  BY <1>0
<1>2. PICK d \in D : \A e \in D : d <= e
  <2> HIDE DEF D
  <2> QED BY <1>1, LeastNatural
<1>3. PICK x \in T : d = bound - x
  OBVIOUS
<1>4. \A y \in T : bound - x <= bound - y
  BY <1>2, <1>3
<1> QED
  BY <1>0, <1>4

(* A set no two of whose members differ has at most one.                   *)
LEMMA AtMostOne ==
  ASSUME NEW S, \A x, y \in S : x = y
  PROVE  Cardinality(S) \in {0, 1} /\ (S = {} => Cardinality(S) = 0)
<1>1. CASE S = {}
  BY <1>1, FS_EmptySet
<1>2. CASE S # {}
  <2>1. PICK x \in S : S = {x}
    BY <1>2
  <2> QED
    BY <2>1, FS_Singleton
<1> QED
  BY <1>1, <1>2

-----------------------------------------------------------------------------
(* Sums.  The library adds up by a recursive function over the subsets; the *)
(* lemmas say that the order does not matter, term by term.                 *)

SumOver(f, S) == MapThenSumSet(LAMBDA k : f[k], S)

(* F gives the total of every set of B: the way the library adds up.        *)
AddsUp(F, f, B) ==
  F = [U \in B |-> IF U = {} THEN 0
                   ELSE f[CHOOSE x \in U : TRUE] + F[U \ {CHOOSE x \in U : TRUE}]]
Terms(f, S) == IsFiniteSet(S) /\ \A x \in S : f[x] \in Int

LEMMA SmallestSubset ==
  ASSUME NEW S, IsFiniteSet(S), NEW B \in SUBSET (SUBSET S), B # {}
  PROVE  \E U \in B : \A V \in SUBSET U : V # U => V \notin B
<1> DEFINE N == {Cardinality(U) : U \in B}
<1>1. \A U \in SUBSET S : IsFiniteSet(U) /\ Cardinality(U) \in Nat
  BY FS_Subset, FS_CardinalityType
<1>2. N \in SUBSET Nat /\ N # {}
  BY <1>1
<1>3. PICK n \in N : \A m \in N : n <= m
  <2> HIDE DEF N
  <2> QED BY <1>2, LeastNatural
<1>4. PICK U \in B : n = Cardinality(U)
  OBVIOUS
<1>5. ASSUME NEW V \in SUBSET U, V # U
      PROVE  V \notin B
  <2>1. V \in SUBSET S /\ Cardinality(V) < Cardinality(U)
    BY <1>1, <1>5, FS_Subset
  <2>2. Cardinality(V) \in Nat /\ Cardinality(U) \in Nat
    BY <1>1, <2>1
  <2>3. V \in B => Cardinality(U) <= Cardinality(V)
    BY <1>3, <1>4
  <2> QED
    BY <2>1, <2>2, <2>3
<1> QED
  BY <1>5

LEMMA OneLess ==
  ASSUME NEW U, U # {}, IsFiniteSet(U)
  PROVE  LET x == CHOOSE x \in U : TRUE
         IN x \in U /\ U \ {x} # U /\ IsFiniteSet(U \ {x}) /\ Cardinality(U \ {x}) = Cardinality(U) - 1
<1> DEFINE x == CHOOSE x \in U : TRUE
<1>1. x \in U
  OBVIOUS
<1> HIDE DEF x
<1>2. x \in U /\ U \ {x} # U /\ IsFiniteSet(U \ {x}) /\ Cardinality(U \ {x}) = Cardinality(U) - 1
  BY <1>1, FS_RemoveElement
<1> QED
  BY <1>2 DEF x

LEMMA SumsExist ==
  ASSUME NEW f, NEW S, IsFiniteSet(S)
  PROVE  \E F : AddsUp(F, f, SUBSET S)
<1> DEFINE B(n) == {U \in SUBSET S : Cardinality(U) <= n}
           Gaps == {n \in Nat : ~ \E F : AddsUp(F, f, B(n))}
<1>1. \A U \in SUBSET S : IsFiniteSet(U) /\ Cardinality(U) \in Nat
  BY FS_Subset, FS_CardinalityType
<1>2. \E F : AddsUp(F, f, B(0))
  <2>1. \A U \in B(0) : U = {}
    BY <1>1, FS_EmptySet
  <2> DEFINE F == [U \in B(0) |-> 0]
  <2>2. AddsUp(F, f, B(0))
    BY <2>1 DEF AddsUp
  <2> QED
    BY <2>2
<1>3. ASSUME NEW n \in Nat, \E F : AddsUp(F, f, B(n))
      PROVE  \E F : AddsUp(F, f, B(n + 1))
  <2>1. PICK F : AddsUp(F, f, B(n))
    BY <1>3
  <2> DEFINE G == [U \in B(n + 1) |-> IF U = {} THEN 0
                    ELSE f[CHOOSE x \in U : TRUE] + F[U \ {CHOOSE x \in U : TRUE}]]
  <2>2. \A U \in B(n) : U \in B(n + 1)
    BY <1>1
  <2>3. \A U \in B(n) : G[U] = F[U]
    BY <2>1, <2>2 DEF AddsUp
  <2>4. \A U \in B(n + 1) : U # {} => U \ {CHOOSE x \in U : TRUE} \in B(n)
    <3> SUFFICES ASSUME NEW U \in B(n + 1), U # {}
                 PROVE  U \ {CHOOSE x \in U : TRUE} \in B(n)
      OBVIOUS
    <3> DEFINE V == U \ {CHOOSE x \in U : TRUE}
    <3>1. V \in SUBSET S /\ Cardinality(V) = Cardinality(U) - 1
      BY <1>1, OneLess
    <3> HIDE DEF V
    <3>2. Cardinality(U) \in Nat /\ Cardinality(U) <= n + 1
      BY <1>1
    <3>3. V \in B(n)
      BY <3>1, <3>2
    <3> QED
      BY <3>3 DEF V
  <2>5. AddsUp(G, f, B(n + 1))
    <3>1. ASSUME NEW U \in B(n + 1)
          PROVE  G[U] = IF U = {} THEN 0 ELSE f[CHOOSE x \in U : TRUE] + G[U \ {CHOOSE x \in U : TRUE}]
      <4>1. CASE U = {}
        BY <4>1
      <4>2. CASE U # {}
        <5>1. G[U \ {CHOOSE x \in U : TRUE}] = F[U \ {CHOOSE x \in U : TRUE}]
          <6> HIDE DEF G, B
          <6> QED BY <2>3, <2>4, <4>2
        <5>2. G[U] = f[CHOOSE x \in U : TRUE] + F[U \ {CHOOSE x \in U : TRUE}]
          BY <4>2
        <5> HIDE DEF G
        <5> QED BY <4>2, <5>1, <5>2
      <4> QED
        BY <4>1, <4>2
    <3>2. G = [U \in B(n + 1) |-> G[U]]
      OBVIOUS
    <3> HIDE DEF G, B
    <3>3. [U \in B(n + 1) |-> G[U]]
            = [U \in B(n + 1) |-> IF U = {} THEN 0 ELSE f[CHOOSE x \in U : TRUE] + G[U \ {CHOOSE x \in U : TRUE}]]
      BY <3>1
    <3> QED
      BY <3>2, <3>3 DEF AddsUp
  <2> HIDE DEF G
  <2> QED
    BY <2>5
<1> HIDE DEF B
<1>4. Gaps = {}
  <2> SUFFICES ASSUME Gaps # {} PROVE FALSE
    OBVIOUS
  <2>1. Gaps \in SUBSET Nat
    OBVIOUS
  <2>2. PICK n \in Gaps : \A m \in Gaps : n <= m
    <3> HIDE DEF Gaps
    <3> QED BY <2>1, LeastNatural
  <2>3. n # 0
    BY <1>2
  <2>4. n - 1 \in Nat /\ n - 1 \notin Gaps /\ (n - 1) + 1 = n
    <3>1. n \in Nat
      OBVIOUS
    <3> HIDE DEF Gaps
    <3> QED BY <2>2, <2>3, <3>1
  <2>5. \E F : AddsUp(F, f, B(n - 1))
    BY <2>4
  <2>6. \E F : AddsUp(F, f, B((n - 1) + 1))
    BY <2>4, <2>5, <1>3
  <2> QED
    BY <2>4, <2>6
<1>5. B(Cardinality(S)) = SUBSET S
  BY <1>1, FS_Subset, FS_CardinalityType DEF B
<1>6. Cardinality(S) \in Nat
  BY FS_CardinalityType
<1>7. \E F : AddsUp(F, f, B(Cardinality(S)))
  BY <1>4, <1>6
<1> QED
  BY <1>5, <1>7

(* Two ways to give totals agree where their terms do.                      *)
LEMMA SumsAgree ==
  ASSUME NEW f, NEW g, NEW F, NEW G, NEW S, NEW T, IsFiniteSet(S), S \subseteq T,
         AddsUp(F, f, SUBSET S), AddsUp(G, g, SUBSET T), \A x \in S : f[x] = g[x]
  PROVE  \A U \in SUBSET S : F[U] = G[U]
<1> DEFINE Bad == {U \in SUBSET S : F[U] # G[U]}
<1> SUFFICES ASSUME Bad # {} PROVE FALSE
  OBVIOUS
<1>1. PICK U \in Bad : \A V \in SUBSET U : V # U => V \notin Bad
  <2>1. Bad \in SUBSET (SUBSET S)
    OBVIOUS
  <2> HIDE DEF Bad
  <2> QED BY <2>1, SmallestSubset
<1>2. U \in SUBSET S /\ U \in SUBSET T /\ F[U] # G[U] /\ IsFiniteSet(U)
  BY FS_Subset
<1>3. CASE U = {}
  BY <1>2, <1>3 DEF AddsUp
<1>4. CASE U # {}
  <2> DEFINE x == CHOOSE x \in U : TRUE
  <2>1. x \in U /\ U \ {x} # U
    BY <1>2, <1>4, OneLess
  <2>2. F[U] = f[x] + F[U \ {x}] /\ G[U] = g[x] + G[U \ {x}]
    BY <1>2, <1>4 DEF AddsUp
  <2> HIDE DEF x
  <2>3. f[x] = g[x] /\ F[U \ {x}] = G[U \ {x}]
    BY <1>1, <1>2, <2>1
  <2> QED
    BY <1>2, <2>2, <2>3
<1> QED
  BY <1>3, <1>4

LEMMA SumsInt ==
  ASSUME NEW f, NEW F, NEW S, Terms(f, S), AddsUp(F, f, SUBSET S)
  PROVE  \A U \in SUBSET S : F[U] \in Int
<1> DEFINE Bad == {U \in SUBSET S : F[U] \notin Int}
<1> SUFFICES ASSUME Bad # {} PROVE FALSE
  OBVIOUS
<1>1. PICK U \in Bad : \A V \in SUBSET U : V # U => V \notin Bad
  <2>1. Bad \in SUBSET (SUBSET S)
    OBVIOUS
  <2> HIDE DEF Bad
  <2> QED BY <2>1, SmallestSubset DEF Terms
<1>2. U \in SUBSET S /\ F[U] \notin Int /\ IsFiniteSet(U)
  BY FS_Subset DEF Terms
<1>3. CASE U = {}
  BY <1>2, <1>3 DEF AddsUp
<1>4. CASE U # {}
  <2> DEFINE x == CHOOSE x \in U : TRUE
  <2>1. x \in U /\ U \ {x} # U
    BY <1>2, <1>4, OneLess
  <2>2. F[U] = f[x] + F[U \ {x}]
    BY <1>2, <1>4 DEF AddsUp
  <2> HIDE DEF x
  <2>3. f[x] \in Int /\ F[U \ {x}] \in Int
    BY <1>1, <1>2, <2>1 DEF Terms
  <2> QED
    BY <1>2, <2>2, <2>3
<1> QED
  BY <1>3, <1>4

(* The total does not depend on which member is taken first.                *)
LEMMA SumsTake ==
  ASSUME NEW f, NEW F, NEW S, Terms(f, S), AddsUp(F, f, SUBSET S),
         NEW T \in SUBSET S, NEW z \in T
  PROVE  F[T] = f[z] + F[T \ {z}]
<1> DEFINE Bad == {U \in SUBSET S : ~ \A y \in U : F[U] = f[y] + F[U \ {y}]}
<1> SUFFICES ASSUME Bad # {} PROVE FALSE
  OBVIOUS
<1>1. PICK U \in Bad : \A V \in SUBSET U : V # U => V \notin Bad
  <2>1. Bad \in SUBSET (SUBSET S)
    OBVIOUS
  <2> HIDE DEF Bad
  <2> QED BY <2>1, SmallestSubset DEF Terms
<1>2. PICK y \in U : F[U] # f[y] + F[U \ {y}]
  OBVIOUS
<1>3. U \in SUBSET S /\ IsFiniteSet(U) /\ U # {}
  BY FS_Subset DEF Terms
<1>0. \A V \in SUBSET U : V # U => \A v \in V : F[V] = f[v] + F[V \ {v}]
  BY <1>1, <1>3
<1> HIDE DEF Bad
<1> DEFINE x == CHOOSE x \in U : TRUE
<1>4. x \in U /\ U \ {x} # U
  BY <1>3, OneLess
<1>5. F[U] = f[x] + F[U \ {x}]
  BY <1>3 DEF AddsUp
<1> HIDE DEF x
<1>6. x # y
  BY <1>2, <1>5
<1>7. F[U \ {x}] = f[y] + F[(U \ {x}) \ {y}]
  BY <1>0, <1>4, <1>6
<1>8. F[U \ {y}] = f[x] + F[(U \ {y}) \ {x}]
  BY <1>0, <1>2, <1>4, <1>6
<1>9. (U \ {x}) \ {y} = (U \ {y}) \ {x}
  OBVIOUS
<1>10. f[x] \in Int /\ f[y] \in Int /\ F[(U \ {y}) \ {x}] \in Int
  <2>1. (U \ {y}) \ {x} \in SUBSET S
    BY <1>3
  <2> QED BY <1>3, <1>4, <2>1, SumsInt DEF Terms
<1>11. F[(U \ {x}) \ {y}] = F[(U \ {y}) \ {x}]
  BY <1>9
<1>12. PICK a \in Int, b \in Int, c \in Int : a = f[x] /\ b = f[y] /\ c = F[(U \ {y}) \ {x}]
  BY <1>10
<1>13. F[U] = a + (b + c) /\ F[U \ {y}] = a + c
  BY <1>5, <1>7, <1>8, <1>11, <1>12, Zenon
<1>14. F[U] # b + (a + c)
  BY <1>2, <1>12, <1>13
<1> QED
  BY <1>13, <1>14

(* What the library returns.                                                *)
LEMMA TotalIs ==
  ASSUME NEW f, NEW S, IsFiniteSet(S)
  PROVE  \E F : AddsUp(F, f, SUBSET S) /\ SumOver(f, S) = F[S]
<1> DEFINE G == CHOOSE G : G = [U \in SUBSET S |-> IF U = {} THEN 0
                     ELSE f[CHOOSE x \in U : TRUE] + G[U \ {CHOOSE x \in U : TRUE}]]
<1>1. PICK H : AddsUp(H, f, SUBSET S)
  BY SumsExist
<1>2. H = [U \in SUBSET S |-> IF U = {} THEN 0
                     ELSE f[CHOOSE x \in U : TRUE] + H[U \ {CHOOSE x \in U : TRUE}]]
  BY <1>1, Zenon DEF AddsUp
<1>3. G = [U \in SUBSET S |-> IF U = {} THEN 0
                     ELSE f[CHOOSE x \in U : TRUE] + G[U \ {CHOOSE x \in U : TRUE}]]
  BY <1>2, Zenon
<1>4. SumOver(f, S) = G[S]
  BY DEF SumOver, MapThenSumSet, MapThenFoldSet
<1> HIDE DEF G
<1>5. AddsUp(G, f, SUBSET S)
  BY <1>3, Zenon DEF AddsUp
<1> QED
  BY <1>4, <1>5

LEMMA TotalSame ==
  ASSUME NEW f, NEW g, NEW S, IsFiniteSet(S), \A x \in S : f[x] = g[x]
  PROVE  SumOver(f, S) = SumOver(g, S)
<1>1. PICK F : AddsUp(F, f, SUBSET S) /\ SumOver(f, S) = F[S]
  BY TotalIs
<1>2. PICK G : AddsUp(G, g, SUBSET S) /\ SumOver(g, S) = G[S]
  BY TotalIs
<1>3. \A U \in SUBSET S : F[U] = G[U]
  BY <1>1, <1>2, SumsAgree
<1> QED
  BY <1>1, <1>2, <1>3

(* A total is the one term and the total of the others.                     *)
LEMMA TotalOf ==
  ASSUME NEW f, NEW S, Terms(f, S)
  PROVE  /\ SumOver(f, S) \in Int
         /\ S = {} => SumOver(f, S) = 0
         /\ \A y \in S : SumOver(f, S) = f[y] + SumOver(f, S \ {y}) /\ SumOver(f, S \ {y}) \in Int
<1>1. PICK F : AddsUp(F, f, SUBSET S) /\ SumOver(f, S) = F[S]
  BY TotalIs DEF Terms
<1>2. \A U \in SUBSET S : F[U] \in Int
  BY <1>1, SumsInt
<1>3. ASSUME NEW y \in S
      PROVE  F[S] = f[y] + F[S \ {y}]
  <2>1. S \in SUBSET S
    OBVIOUS
  <2> QED
    BY <1>1, <2>1, SumsTake
<1>4. \A T \in SUBSET S : SumOver(f, T) = F[T]
  <2> SUFFICES ASSUME NEW T \in SUBSET S PROVE SumOver(f, T) = F[T]
    OBVIOUS
  <2>1. IsFiniteSet(T)
    BY FS_Subset DEF Terms
  <2>2. PICK G : AddsUp(G, f, SUBSET T) /\ SumOver(f, T) = G[T]
    BY <2>1, TotalIs
  <2>3. \A U \in SUBSET T : G[U] = F[U]
    BY <1>1, <2>1, <2>2, SumsAgree
  <2> QED
    BY <2>2, <2>3
<1>5. S = {} => F[S] = 0
  BY <1>1 DEF AddsUp
<1>6. S \in SUBSET S /\ \A y \in S : S \ {y} \in SUBSET S
  OBVIOUS
<1> QED
  BY <1>1, <1>2, <1>3, <1>4, <1>5, <1>6

(* Another member, not counted yet.                                         *)
LEMMA TotalMore ==
  ASSUME NEW f, NEW S, NEW x, x \notin S, Terms(f, S), f[x] \in Int
  PROVE  /\ Terms(f, S \cup {x})
         /\ SumOver(f, S) \in Int
         /\ SumOver(f, S \cup {x}) = SumOver(f, S) + f[x]
<1>1. Terms(f, S \cup {x})
  BY FS_AddElement DEF Terms
<1>2. SumOver(f, S \cup {x}) = f[x] + SumOver(f, (S \cup {x}) \ {x})
  BY <1>1, TotalOf
<1>3. (S \cup {x}) \ {x} = S
  OBVIOUS
<1>4. PICK a \in Int, b \in Int : a = SumOver(f, S) /\ b = f[x]
  BY TotalOf
<1>5. SumOver(f, S \cup {x}) = b + a
  BY <1>2, <1>3, <1>4, Zenon
<1> QED
  BY <1>1, <1>4, <1>5

(* One term is another.                                                     *)
LEMMA TotalChanged ==
  ASSUME NEW f, NEW g, NEW S, NEW k \in S, Terms(f, S), g[k] \in Int,
         \A x \in S : x # k => g[x] = f[x]
  PROVE  /\ Terms(g, S)
         /\ SumOver(f, S) \in Int
         /\ SumOver(g, S) = SumOver(f, S) + g[k] - f[k]
<1>1. Terms(g, S)
  BY DEF Terms
<1>2. IsFiniteSet(S \ {k}) /\ \A x \in S \ {k} : f[x] = g[x]
  BY FS_Subset DEF Terms
<1>3. SumOver(f, S \ {k}) = SumOver(g, S \ {k})
  BY <1>2, TotalSame
<1>4. SumOver(f, S) = f[k] + SumOver(f, S \ {k}) /\ SumOver(g, S) = g[k] + SumOver(g, S \ {k})
  BY <1>1, TotalOf
<1>5. PICK a \in Int, b \in Int, c \in Int : a = f[k] /\ b = g[k] /\ c = SumOver(f, S \ {k})
  BY TotalOf DEF Terms
<1>6. SumOver(f, S) = a + c /\ SumOver(g, S) = b + c
  BY <1>3, <1>4, <1>5, Zenon
<1> QED
  BY <1>1, <1>5, <1>6

(* The total of the amounts of some rows.                                   *)
SumAmounts(rows, T) == MapThenSumSet(LAMBDA t : rows[t].amount, T)

LEMMA AmountsTotal ==
  ASSUME NEW rows, NEW T, IsFiniteSet(T)
  PROVE  SumAmounts(rows, T) = SumOver([t \in T |-> rows[t].amount], T)
<1> DEFINE f == [t \in T |-> rows[t].amount]
           G == CHOOSE G : G = [U \in SUBSET T |-> IF U = {} THEN 0
                     ELSE rows[CHOOSE x \in U : TRUE].amount + G[U \ {CHOOSE x \in U : TRUE}]]
<1>1. PICK H : AddsUp(H, f, SUBSET T)
  BY SumsExist
<1>2. ASSUME NEW F
      PROVE  AddsUp(F, f, SUBSET T) <=>
               F = [U \in SUBSET T |-> IF U = {} THEN 0
                     ELSE rows[CHOOSE x \in U : TRUE].amount + F[U \ {CHOOSE x \in U : TRUE}]]
  <2>1. ASSUME NEW U \in SUBSET T, U # {}
        PROVE  f[CHOOSE x \in U : TRUE] = rows[CHOOSE x \in U : TRUE].amount
    <3>1. (CHOOSE x \in U : TRUE) \in T
      BY <2>1
    <3> QED
      BY <3>1
  <2> HIDE DEF f
  <2>2. [U \in SUBSET T |-> IF U = {} THEN 0
                     ELSE rows[CHOOSE x \in U : TRUE].amount + F[U \ {CHOOSE x \in U : TRUE}]]
        = [U \in SUBSET T |-> IF U = {} THEN 0
                     ELSE f[CHOOSE x \in U : TRUE] + F[U \ {CHOOSE x \in U : TRUE}]]
    BY <2>1
  <2> QED
    BY <2>2, Zenon DEF AddsUp
<1>3. H = [U \in SUBSET T |-> IF U = {} THEN 0
                     ELSE rows[CHOOSE x \in U : TRUE].amount + H[U \ {CHOOSE x \in U : TRUE}]]
  BY <1>1, <1>2, Zenon
<1>4. G = [U \in SUBSET T |-> IF U = {} THEN 0
                     ELSE rows[CHOOSE x \in U : TRUE].amount + G[U \ {CHOOSE x \in U : TRUE}]]
  BY <1>3, Zenon
<1>5. SumAmounts(rows, T) = G[T]
  BY DEF SumAmounts, MapThenSumSet, MapThenFoldSet
<1> HIDE DEF G
<1>6. AddsUp(G, f, SUBSET T)
  BY <1>2, <1>4, Zenon
<1>7. PICK F : AddsUp(F, f, SUBSET T) /\ SumOver(f, T) = F[T]
  BY TotalIs
<1> HIDE DEF f
<1>8. \A U \in SUBSET T : G[U] = F[U]
  BY <1>6, <1>7, SumsAgree
<1>9. SumOver(f, T) = SumAmounts(rows, T)
  BY <1>5, <1>7, <1>8
<1> QED
  BY <1>9 DEF f

(* The total of two sets that have nothing in common.                       *)
LEMMA TotalUnion ==
  ASSUME NEW f, NEW S, NEW T, Terms(f, S \cup T), S \cap T = {}
  PROVE  /\ SumOver(f, S) \in Int /\ SumOver(f, T) \in Int
         /\ SumOver(f, S \cup T) = SumOver(f, S) + SumOver(f, T)
<1>0. \A U \in SUBSET (S \cup T) : Terms(f, U) /\ SumOver(f, U) \in Int
  <2>1. ASSUME NEW U \in SUBSET (S \cup T)
        PROVE  Terms(f, U)
    BY FS_Subset DEF Terms
  <2> QED
    BY <2>1, TotalOf
<1> DEFINE Bad == {V \in SUBSET T : SumOver(f, S \cup V) # SumOver(f, S) + SumOver(f, V)}
<1>1. Bad = {}
  <2> SUFFICES ASSUME Bad # {} PROVE FALSE
    OBVIOUS
  <2>1. PICK V \in Bad : \A W \in SUBSET V : W # V => W \notin Bad
    <3>1. Bad \in SUBSET (SUBSET T) /\ IsFiniteSet(T)
      BY <1>0 DEF Terms
    <3> HIDE DEF Bad
    <3> QED BY <3>1, SmallestSubset
  <2>2. V \in SUBSET T /\ SumOver(f, S \cup V) # SumOver(f, S) + SumOver(f, V)
    OBVIOUS
  <2>3. CASE V = {}
    <3>1. S \cup V = S /\ SumOver(f, V) = 0 /\ SumOver(f, S) \in Int
      BY <1>0, <2>3, TotalOf
    <3>2. PICK b \in Int : b = SumOver(f, S)
      BY <3>1
    <3>3. SumOver(f, S \cup V) = b
      BY <3>1, <3>2, Zenon
    <3>4. b = b + 0
      OBVIOUS
    <3> QED
      BY <2>2, <3>1, <3>2, <3>3, <3>4, Zenon
  <2>4. CASE V # {}
    <3>1. PICK y \in V : TRUE
      BY <2>4
    <3>2. V \ {y} \in SUBSET T /\ V \ {y} \notin Bad
      BY <2>1, <2>2, <3>1
    <3>3. SumOver(f, S \cup (V \ {y})) = SumOver(f, S) + SumOver(f, V \ {y})
      BY <3>2
    <3>4. (S \cup V) \ {y} = S \cup (V \ {y})
      BY <2>2, <3>1
    <3>5. SumOver(f, S \cup V) = f[y] + SumOver(f, (S \cup V) \ {y})
      <4>1. y \in S \cup V /\ Terms(f, S \cup V)
        BY <1>0, <2>2
      <4> QED
        BY <4>1, TotalOf
    <3>6. SumOver(f, V) = f[y] + SumOver(f, V \ {y})
      <4>1. Terms(f, V)
        BY <1>0, <2>2
      <4> QED
        BY <4>1, TotalOf
    <3>7. PICK a \in Int, b \in Int, d \in Int : a = f[y] /\ b = SumOver(f, S) /\ d = SumOver(f, V \ {y})
      BY <1>0, <2>2, <3>2 DEF Terms
    <3>8. SumOver(f, S \cup V) = a + (b + d) /\ SumOver(f, V) = a + d
      BY <3>3, <3>4, <3>5, <3>6, <3>7, Zenon
    <3> QED
      BY <2>2, <3>7, <3>8
  <2> QED
    BY <2>3, <2>4
<1> QED
  BY <1>0, <1>1

LEMMA AmountsJoin ==
  ASSUME NEW rows, NEW S, NEW T, IsFiniteSet(S \cup T), S \cap T = {}, \A t \in S \cup T : rows[t].amount \in Int
  PROVE  /\ SumAmounts(rows, S) \in Int /\ SumAmounts(rows, T) \in Int
         /\ SumAmounts(rows, S \cup T) = SumAmounts(rows, S) + SumAmounts(rows, T)
<1> DEFINE f == [t \in S \cup T |-> rows[t].amount]
<1>1. Terms(f, S \cup T)
  BY DEF Terms
<1>2. ASSUME NEW U \in SUBSET (S \cup T)
      PROVE  SumAmounts(rows, U) = SumOver(f, U)
  <2> DEFINE g == [t \in U |-> rows[t].amount]
  <2>1. IsFiniteSet(U) /\ \A x \in U : g[x] = f[x]
    BY FS_Subset
  <2> HIDE DEF f
  <2>2. SumAmounts(rows, U) = SumOver(g, U)
    BY <2>1, AmountsTotal
  <2> HIDE DEF g
  <2> QED
    BY <2>1, <2>2, TotalSame
<1>3. S \in SUBSET (S \cup T) /\ T \in SUBSET (S \cup T) /\ S \cup T \in SUBSET (S \cup T)
  OBVIOUS
<1> HIDE DEF f
<1>4. /\ SumOver(f, S) \in Int /\ SumOver(f, T) \in Int
      /\ SumOver(f, S \cup T) = SumOver(f, S) + SumOver(f, T)
  BY <1>1, TotalUnion
<1> QED
  BY <1>2, <1>3, <1>4, Zenon

LEMMA AmountsSame ==
  ASSUME NEW rows, NEW others, NEW T, IsFiniteSet(T), \A t \in T : rows[t].amount = others[t].amount
  PROVE  SumAmounts(rows, T) = SumAmounts(others, T)
<1> DEFINE f == [t \in T |-> rows[t].amount]
           g == [t \in T |-> others[t].amount]
<1>1. f = g
  OBVIOUS
<1>2. SumAmounts(rows, T) = SumOver(f, T) /\ SumAmounts(others, T) = SumOver(g, T)
  BY AmountsTotal
<1> QED
  BY <1>1, <1>2

LEMMA AmountsNone ==
  ASSUME NEW rows
  PROVE  SumAmounts(rows, {}) = 0
<1> DEFINE f == [t \in {} |-> rows[t].amount]
<1>1. SumAmounts(rows, {}) = SumOver(f, {}) /\ Terms(f, {})
  BY FS_EmptySet, AmountsTotal DEF Terms
<1> QED
  BY <1>1, TotalOf

=============================================================================
