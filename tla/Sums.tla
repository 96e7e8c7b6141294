-------------------------------- MODULE Sums --------------------------------
(***************************************************************************)
(* What the balances and the money under way need of SumFunctionOnSet, the *)
(* fold of the community modules: the sum of a function over a finite set, *)
(* whatever the order its elements are taken in.  A minimal set with       *)
(* another sum than claimed stands in for the induction over the set.      *)
(***************************************************************************)
EXTENDS Functions, FiniteSetTheorems, WellFoundedInduction, TLAPS

-----------------------------------------------------------------------------
(* The fold has the value its recursive definition says. *)

\* g adds up f over every subset of S, an element at a time.
IsSum(g, f, S) ==
  g = [s \in SUBSET S |->
         IF s = {} THEN 0
         ELSE f[CHOOSE x \in s : TRUE] + g[s \ {CHOOSE x \in s : TRUE}]]

\* The fold is the value at S of such a function, if there is one.
LEMMA SumUnfolds ==
  ASSUME NEW f, NEW S
  PROVE  SumFunctionOnSet(f, S) = (CHOOSE g : IsSum(g, f, S))[S]
BY DEF SumFunctionOnSet, FoldFunctionOnSet, MapThenFoldSet, IsSum

\* Subsets of a finite set: of those with a property, one is minimal.
LEMMA MinimalSubset ==
  ASSUME NEW S, IsFiniteSet(S), NEW T \in SUBSET (SUBSET S), T # {}
  PROVE  \E s \in T : \A t \in SUBSET s : t # s => t \notin T
<1>1. FiniteSubsetsOf(S) = SUBSET S
  BY FS_FiniteSubsetsOfFinite
<1>2. IsWellFoundedOn(StrictSubsetOrdering(S), SUBSET S)
  BY <1>1, FS_StrictSubsetOrderingWellFounded
<1>3. \E s \in T : \A t \in T : <<t, s>> \notin StrictSubsetOrdering(S)
  BY <1>2, WFMin, Zenon
<1> QED
  BY <1>3 DEF StrictSubsetOrdering

\* The value at a set that is not empty.
Applied(g, f, s) == f[CHOOSE x \in s : TRUE] + g[s \ {CHOOSE x \in s : TRUE}]

\* The two cases of the definition.
LEMMA IsSumMeans ==
  ASSUME NEW g, NEW f, NEW S, IsSum(g, f, S)
  PROVE  /\ g[{}] = 0
         /\ \A s \in SUBSET S : s # {} => g[s] = Applied(g, f, s)
BY DEF IsSum, Applied

\* One element less is a smaller set.
LEMMA Chosen ==
  ASSUME NEW s, s # {}
  PROVE  /\ (CHOOSE x \in s : TRUE) \in s
         /\ s \ {CHOOSE x \in s : TRUE} \in SUBSET s
         /\ s \ {CHOOSE x \in s : TRUE} # s
OBVIOUS

\* Two that add up f agree where both are defined.
LEMMA SumsAgree ==
  ASSUME NEW f, NEW S, IsFiniteSet(S), NEW g, NEW h, NEW U, S \subseteq U,
         IsSum(g, f, S), IsSum(h, f, U)
  PROVE  g[S] = h[S]
<1> DEFINE T == {s \in SUBSET S : g[s] # h[s]}
<1>1. SUFFICES ASSUME T # {}
               PROVE  FALSE
  OBVIOUS
<1>0. T \in SUBSET (SUBSET S)
  OBVIOUS
<1>2. \E s \in T : \A t \in SUBSET s : t # s => t \notin T
  <2> HIDE DEF T
  <2> QED
    BY <1>0, <1>1, MinimalSubset
<1>20. PICK s \in T : \A t \in SUBSET s : t # s => t \notin T
  BY <1>2
<1>3. s \in SUBSET S /\ s \in SUBSET U /\ g[s] # h[s]
  OBVIOUS
<1>4. s # {}
  BY <1>3, IsSumMeans
<1> DEFINE t == s \ {CHOOSE x \in s : TRUE}
<1>5. g[t] = h[t]
  BY <1>20, <1>3, <1>4, Chosen
<1>6. g[s] = Applied(g, f, s) /\ h[s] = Applied(h, f, s)
  BY <1>3, <1>4, IsSumMeans
<1> QED
  BY <1>3, <1>5, <1>6 DEF Applied

\* There is one for every finite set.
LEMMA SumExists ==
  ASSUME NEW f, NEW S, IsFiniteSet(S)
  PROVE  \E g : IsSum(g, f, S)
<1> DEFINE T == {s \in SUBSET S : ~\E g : IsSum(g, f, s)}
<1>1. SUFFICES ASSUME T # {}
               PROVE  FALSE
  OBVIOUS
<1>0. T \in SUBSET (SUBSET S)
  OBVIOUS
<1>2. \E s \in T : \A t \in SUBSET s : t # s => t \notin T
  <2> HIDE DEF T
  <2> QED
    BY <1>0, <1>1, MinimalSubset
<1>20. PICK s \in T : \A t \in SUBSET s : t # s => t \notin T
  BY <1>2
<1>3. s \in SUBSET S /\ ~\E g : IsSum(g, f, s)
  OBVIOUS
<1>4. IsFiniteSet(s)
  BY <1>3, FS_Subset
<1> DEFINE Of(t) == CHOOSE g : IsSum(g, f, t)
           G == [t \in SUBSET s |-> Of(t)[t]]
           H == [t \in SUBSET s |-> IF t = {} THEN 0 ELSE Applied(G, f, t)]
<1>5. \A t \in SUBSET s : t # s => IsSum(Of(t), f, t)
  BY <1>20, <1>3
<1>7. ASSUME NEW t \in SUBSET s, t # s
      PROVE  G[t] = H[t]
  <2>1. IsSum(Of(t), f, t) /\ G[t] = Of(t)[t]
    BY <1>5, <1>7
  <2>2. CASE t = {}
    BY <2>1, <2>2, IsSumMeans
  <2>3. CASE t # {}
    <3> DEFINE r == t \ {CHOOSE x \in t : TRUE}
    <3>1. r \in SUBSET s /\ r # s /\ r \subseteq t
      BY <2>3, Chosen
    <3>2. IsSum(Of(r), f, r) /\ G[r] = Of(r)[r]
      BY <1>5, <3>1
    <3>3. IsFiniteSet(r)
      BY <1>4, <3>1, FS_Subset
    <3>4. Of(t)[r] = Of(r)[r]
      <4> HIDE DEF Of, r
      <4> QED
        BY <2>1, <3>1, <3>2, <3>3, SumsAgree
    <3>5. Of(t)[t] = Applied(Of(t), f, t)
      BY <2>1, <2>3, IsSumMeans
    <3>6. H[t] = Applied(G, f, t)
      BY <2>3
    <3> QED
      BY <2>1, <3>2, <3>4, <3>5, <3>6 DEF Applied
  <2> QED
    BY <2>2, <2>3
<1>8. ASSUME NEW t \in SUBSET s, t # {}
      PROVE  Applied(G, f, t) = Applied(H, f, t)
  <2> DEFINE r == t \ {CHOOSE x \in t : TRUE}
  <2>1. r \in SUBSET s /\ r # s
    BY <1>8, Chosen
  <2>2. G[r] = H[r]
    BY <1>7, <2>1
  <2> QED
    BY <2>2 DEF Applied
<1>9. H = [t \in SUBSET s |-> IF t = {} THEN 0 ELSE Applied(H, f, t)]
  <2> HIDE DEF G
  <2> QED
    BY <1>8
<1>10. IsSum(H, f, s)
  <2> HIDE DEF H
  <2> QED
    BY <1>9 DEF IsSum, Applied
<1> QED
  BY <1>3, <1>10

\* The fold over a set is what any such function on a larger one says.
LEMMA SumIsSum ==
  ASSUME NEW f, NEW S, IsFiniteSet(S), NEW g, NEW U, S \subseteq U, IsSum(g, f, U)
  PROVE  SumFunctionOnSet(f, S) = g[S]
<1> DEFINE h == CHOOSE h : IsSum(h, f, S)
<1>1. IsSum(h, f, S)
  BY SumExists
<1>2. SumFunctionOnSet(f, S) = h[S]
  BY SumUnfolds
<1> HIDE DEF h
<1> QED
  BY <1>1, <1>2, SumsAgree

-----------------------------------------------------------------------------
(* What a sum is. *)

\* Nothing adds up to nothing.
LEMMA SumEmpty == ASSUME NEW f PROVE SumFunctionOnSet(f, {}) = 0
<1>1. IsFiniteSet({})
  BY FS_EmptySet
<1>2. PICK g : IsSum(g, f, {})
  BY <1>1, SumExists
<1> QED
  BY <1>1, <1>2, SumIsSum, IsSumMeans

\* Some element comes first.
LEMMA SumChosen ==
  ASSUME NEW f, NEW S, IsFiniteSet(S), S # {}
  PROVE  \E c \in S : SumFunctionOnSet(f, S) = f[c] + SumFunctionOnSet(f, S \ {c})
<1>1. PICK g : IsSum(g, f, S)
  BY SumExists
<1> DEFINE c == CHOOSE x \in S : TRUE
<1>2. c \in S /\ S \ {c} \in SUBSET S
  BY Chosen
<1>3. IsFiniteSet(S \ {c})
  BY <1>2, FS_Subset
<1>4. SumFunctionOnSet(f, S) = g[S] /\ SumFunctionOnSet(f, S \ {c}) = g[S \ {c}]
  <2> HIDE DEF c
  <2> QED
    BY <1>1, <1>2, <1>3, SumIsSum
<1>5. g[S] = f[c] + g[S \ {c}]
  BY <1>1, IsSumMeans DEF Applied
<1> QED
  BY <1>2, <1>4, <1>5

\* A sum of integers is one.
LEMMA SumInt ==
  ASSUME NEW f, NEW S, IsFiniteSet(S), \A x \in S : f[x] \in Int
  PROVE  SumFunctionOnSet(f, S) \in Int
<1> DEFINE T == {s \in SUBSET S : SumFunctionOnSet(f, s) \notin Int}
<1>1. SUFFICES ASSUME T # {}
               PROVE  FALSE
  OBVIOUS
<1>2. T \in SUBSET (SUBSET S)
  OBVIOUS
<1>3. \E s \in T : \A t \in SUBSET s : t # s => t \notin T
  <2> HIDE DEF T
  <2> QED
    BY <1>1, <1>2, MinimalSubset
<1>4. PICK s \in T : \A t \in SUBSET s : t # s => t \notin T
  BY <1>3
<1>5. s # {}
  BY SumEmpty
<1>6. IsFiniteSet(s)
  BY FS_Subset
<1>7. PICK c \in s : SumFunctionOnSet(f, s) = f[c] + SumFunctionOnSet(f, s \ {c})
  BY <1>5, <1>6, SumChosen
<1>8. SumFunctionOnSet(f, s \ {c}) \in Int
  BY <1>4, <1>7
<1> QED
  BY <1>7, <1>8

\* Any element may come first.
LEMMA SumRemove ==
  ASSUME NEW f, NEW S, IsFiniteSet(S), \A x \in S : f[x] \in Int, NEW x \in S
  PROVE  SumFunctionOnSet(f, S) = f[x] + SumFunctionOnSet(f, S \ {x})
<1> DEFINE T == {s \in SUBSET S :
                   \E y \in s : SumFunctionOnSet(f, s) # f[y] + SumFunctionOnSet(f, s \ {y})}
<1>1. SUFFICES ASSUME T # {}
               PROVE  FALSE
  OBVIOUS
<1>2. T \in SUBSET (SUBSET S)
  OBVIOUS
<1>3. \E s \in T : \A t \in SUBSET s : t # s => t \notin T
  <2> HIDE DEF T
  <2> QED
    BY <1>1, <1>2, MinimalSubset
<1>4. PICK s \in T : \A t \in SUBSET s : t # s => t \notin T
  BY <1>3
<1>5. PICK y \in s : SumFunctionOnSet(f, s) # f[y] + SumFunctionOnSet(f, s \ {y})
  OBVIOUS
<1>6. IsFiniteSet(s)
  BY FS_Subset
<1>7. PICK c \in s : SumFunctionOnSet(f, s) = f[c] + SumFunctionOnSet(f, s \ {c})
  BY <1>5, <1>6, SumChosen
<1>8. c # y
  BY <1>5, <1>7
<1>9. SumFunctionOnSet(f, s \ {c}) = f[y] + SumFunctionOnSet(f, (s \ {c}) \ {y})
  BY <1>4, <1>5, <1>7, <1>8
<1>10. SumFunctionOnSet(f, s \ {y}) = f[c] + SumFunctionOnSet(f, (s \ {y}) \ {c})
  BY <1>4, <1>5, <1>7, <1>8
<1> DEFINE rest == (s \ {c}) \ {y}
<1>11. rest = (s \ {y}) \ {c} /\ rest \in SUBSET S
  OBVIOUS
<1>12. SumFunctionOnSet(f, rest) \in Int
  <2>1. IsFiniteSet(rest)
    BY <1>11, FS_Subset
  <2> QED
    BY <1>11, <2>1, SumInt
<1>13. f[c] \in Int /\ f[y] \in Int
  BY <1>5, <1>7
<1> HIDE DEF rest
<1> QED
  BY <1>5, <1>7, <1>9, <1>10, <1>11, <1>12, <1>13 DEF rest

\* A new element adds its term.
LEMMA SumAdd ==
  ASSUME NEW f, NEW S, IsFiniteSet(S), NEW x, x \notin S,
         \A y \in S \cup {x} : f[y] \in Int
  PROVE  SumFunctionOnSet(f, S \cup {x}) = f[x] + SumFunctionOnSet(f, S)
<1>1. IsFiniteSet(S \cup {x}) /\ (S \cup {x}) \ {x} = S /\ x \in S \cup {x}
  BY FS_AddElement
<1> DEFINE U == S \cup {x}
<1> HIDE DEF U
<1>2. SumFunctionOnSet(f, U) = f[x] + SumFunctionOnSet(f, U \ {x})
  BY <1>1, SumRemove DEF U
<1> QED
  BY <1>1, <1>2 DEF U

\* Smaller terms, and fewer of them, add up to no more.
LEMMA SumAtMost ==
  ASSUME NEW f, NEW g, NEW U, IsFiniteSet(U), NEW S \in SUBSET U,
         \A x \in U : f[x] \in Int /\ g[x] \in Int,
         \A x \in S : f[x] <= g[x], \A x \in U \ S : 0 <= g[x]
  PROVE  SumFunctionOnSet(f, S) <= SumFunctionOnSet(g, U)
<1> DEFINE T == {u \in SUBSET U :
                   ~(SumFunctionOnSet(f, S \cap u) <= SumFunctionOnSet(g, u))}
<1>0. U \cap S = S /\ S \cap U = S
  OBVIOUS
<1>1. SUFFICES ASSUME T # {}
               PROVE  FALSE
  BY <1>0
<1>2. T \in SUBSET (SUBSET U)
  OBVIOUS
<1>3. \E u \in T : \A t \in SUBSET u : t # u => t \notin T
  <2> HIDE DEF T
  <2> QED
    BY <1>1, <1>2, MinimalSubset
<1>4. PICK u \in T : \A t \in SUBSET u : t # u => t \notin T
  BY <1>3
<1>5. u # {}
  <2>1. SumFunctionOnSet(f, {}) = 0 /\ SumFunctionOnSet(g, {}) = 0
    BY SumEmpty
  <2> QED
    BY <2>1
<1>6. PICK x \in u : TRUE
  BY <1>5
<1> DEFINE t == u \ {x}
           v == S \cap u
<1>7. /\ IsFiniteSet(u) /\ IsFiniteSet(v) /\ IsFiniteSet(t) /\ IsFiniteSet(S \cap t)
      /\ x \in U /\ u \subseteq U /\ v \subseteq U /\ t \subseteq U
  BY FS_Subset
<1>8. SumFunctionOnSet(f, S \cap t) <= SumFunctionOnSet(g, t)
  BY <1>4, <1>6
<1>9. /\ SumFunctionOnSet(f, S \cap t) \in Int /\ SumFunctionOnSet(g, t) \in Int
      /\ f[x] \in Int /\ g[x] \in Int
  <2>1. (S \cap t) \subseteq U
    OBVIOUS
  <2> HIDE DEF t
  <2> QED
    BY <1>7, <2>1, SumInt
<1>10. SumFunctionOnSet(g, u) = g[x] + SumFunctionOnSet(g, t)
  BY <1>7, SumRemove
<1>11. ~(SumFunctionOnSet(f, v) <= SumFunctionOnSet(g, u))
  OBVIOUS
<1>12. CASE x \in S
  <2>1. x \in v /\ v \ {x} = S \cap t
    BY <1>12
  <2>2. SumFunctionOnSet(f, v) = f[x] + SumFunctionOnSet(f, v \ {x})
    <3> HIDE DEF v
    <3> QED
      BY <1>7, <2>1, SumRemove
  <2>3. f[x] <= g[x]
    BY <1>12
  <2> HIDE DEF t, v
  <2> QED
    BY <1>8, <1>9, <1>10, <1>11, <2>1, <2>2, <2>3
<1>13. CASE x \notin S
  <2>1. v = S \cap t
    BY <1>13
  <2>2. 0 <= g[x]
    BY <1>7, <1>13
  <2> HIDE DEF t, v
  <2> QED
    BY <1>8, <1>9, <1>10, <1>11, <2>1, <2>2
<1> QED
  BY <1>12, <1>13

\* A sum is told by its terms.
LEMMA SumSame ==
  ASSUME NEW f, NEW g, NEW S, IsFiniteSet(S),
         \A x \in S : f[x] \in Int /\ f[x] = g[x]
  PROVE  SumFunctionOnSet(f, S) = SumFunctionOnSet(g, S)
<1>1. /\ SumFunctionOnSet(f, S) <= SumFunctionOnSet(g, S)
      /\ SumFunctionOnSet(g, S) <= SumFunctionOnSet(f, S)
  BY SumAtMost
<1>2. SumFunctionOnSet(f, S) \in Int /\ SumFunctionOnSet(g, S) \in Int
  BY SumInt
<1> QED
  BY <1>1, <1>2

\* Terms that are never negative have a sum that is not.
LEMMA SumNat ==
  ASSUME NEW f, NEW S, IsFiniteSet(S), \A x \in S : f[x] \in Nat
  PROVE  SumFunctionOnSet(f, S) \in Nat
<1>1. SumFunctionOnSet(f, {}) <= SumFunctionOnSet(f, S)
  <2>1. /\ {} \in SUBSET S /\ \A x \in S : f[x] \in Int /\ f[x] \in Int
        /\ \A x \in {} : f[x] <= f[x]
        /\ \A x \in S \ {} : 0 <= f[x]
    OBVIOUS
  <2> QED
    BY <2>1, SumAtMost
<1> QED
  BY <1>1, SumEmpty, SumInt

\* Terms that are nothing have a sum that is nothing.
LEMMA SumZero ==
  ASSUME NEW f, NEW S, IsFiniteSet(S), \A x \in S : f[x] = 0
  PROVE  SumFunctionOnSet(f, S) = 0
<1> DEFINE T == {s \in SUBSET S : SumFunctionOnSet(f, s) # 0}
<1>2. SUFFICES ASSUME T # {}
               PROVE  FALSE
  OBVIOUS
<1>3. T \in SUBSET (SUBSET S)
  OBVIOUS
<1>4. \E s \in T : \A t \in SUBSET s : t # s => t \notin T
  <2> HIDE DEF T
  <2> QED
    BY <1>2, <1>3, MinimalSubset
<1>5. PICK s \in T : \A t \in SUBSET s : t # s => t \notin T
  BY <1>4
<1>6. s # {} /\ IsFiniteSet(s)
  BY SumEmpty, FS_Subset
<1>7. PICK c \in s : SumFunctionOnSet(f, s) = f[c] + SumFunctionOnSet(f, s \ {c})
  BY <1>6, SumChosen
<1>8. SumFunctionOnSet(f, s \ {c}) = 0 /\ f[c] = 0
  BY <1>5, <1>7
<1> QED
  BY <1>5, <1>7, <1>8

\* Equal terms add up to their number of times one.
LEMMA SumConstant ==
  ASSUME NEW f, NEW S, IsFiniteSet(S), NEW c \in Int, \A x \in S : f[x] = c
  PROVE  SumFunctionOnSet(f, S) = Cardinality(S) * c
<1> DEFINE T == {s \in SUBSET S : SumFunctionOnSet(f, s) # Cardinality(s) * c}
<1>2. SUFFICES ASSUME T # {}
               PROVE  FALSE
  OBVIOUS
<1>3. T \in SUBSET (SUBSET S)
  OBVIOUS
<1>4. \E s \in T : \A t \in SUBSET s : t # s => t \notin T
  <2> HIDE DEF T
  <2> QED
    BY <1>2, <1>3, MinimalSubset
<1>5. PICK s \in T : \A t \in SUBSET s : t # s => t \notin T
  BY <1>4
<1>6. s # {} /\ IsFiniteSet(s)
  BY SumEmpty, FS_EmptySet, FS_Subset
<1>7. PICK x \in s : SumFunctionOnSet(f, s) = f[x] + SumFunctionOnSet(f, s \ {x})
  BY <1>6, SumChosen
<1>8. SumFunctionOnSet(f, s \ {x}) = Cardinality(s \ {x}) * c /\ f[x] = c
  BY <1>5, <1>7
<1>9. Cardinality(s) \in Nat /\ Cardinality(s \ {x}) = Cardinality(s) - 1
  BY <1>6, <1>7, FS_CardinalityType, FS_RemoveElement
<1> DEFINE n == Cardinality(s)
<1>10. c + (n - 1) * c = n * c
  <2> HIDE DEF n
  <2> QED
    BY <1>9 DEF n
<1> QED
  BY <1>5, <1>7, <1>8, <1>9, <1>10

\* One term changes.
LEMMA SumChange ==
  ASSUME NEW f, NEW g, NEW S, IsFiniteSet(S), NEW x \in S,
         \A y \in S : f[y] \in Int /\ g[y] \in Int,
         \A y \in S \ {x} : f[y] = g[y]
  PROVE  SumFunctionOnSet(g, S) = SumFunctionOnSet(f, S) + (g[x] - f[x])
<1> DEFINE rest == S \ {x}
<1>1. IsFiniteSet(rest) /\ \A y \in rest : f[y] \in Int /\ g[y] \in Int /\ f[y] = g[y]
  BY FS_Subset
<1>2. /\ SumFunctionOnSet(f, S) = f[x] + SumFunctionOnSet(f, rest)
      /\ SumFunctionOnSet(g, S) = g[x] + SumFunctionOnSet(g, rest)
  BY SumRemove
<1>3. SumFunctionOnSet(f, rest) = SumFunctionOnSet(g, rest)
  <2> HIDE DEF rest
  <2> QED
    BY <1>1, SumSame
<1>4. SumFunctionOnSet(f, rest) \in Int
  <2> HIDE DEF rest
  <2> QED
    BY <1>1, SumInt
<1> HIDE DEF rest
<1> QED
  BY <1>2, <1>3, <1>4
=============================================================================
