---------------------------- MODULE AccountingLaws ----------------------------
(* Laws of the sums and of the rounded shares that the accounting invariants *)
(* are built from.  Induction over a finite set is by a minimal              *)
(* counterexample: the strict subsets of a finite set are well founded.      *)
EXTENDS Functions, FiniteSetTheorems, WellFoundedInduction, TLAPS

-----------------------------------------------------------------------------
(* Sums.                                                                     *)

Pick(s) == CHOOSE x \in s : TRUE

\* The recursion SumFunctionOnSet unfolds to.
SumEquation(f, S, g) ==
  g = [s \in SUBSET S |-> IF s = {} THEN 0 ELSE f[Pick(s)] + g[s \ {Pick(s)}]]

\* The fold of the library, unfolded to the recursion it is chosen by.
LEMMA SumUnfolds ==
  ASSUME NEW f, NEW S
  PROVE  SumFunctionOnSet(f, S) = (CHOOSE g : SumEquation(f, S, g))[S]
  BY Zenon DEF SumFunctionOnSet, FoldFunctionOnSet, MapThenFoldSet, SumEquation, Pick

\* A property of the finite subsets of S fails first at a minimal one.
LEMMA MinimalSubset ==
  ASSUME NEW S, IsFiniteSet(S), NEW Bad \in SUBSET (SUBSET S), Bad # {}
  PROVE  \E s \in Bad : \A t \in SUBSET s : t \in Bad => t = s
  <1>1. FiniteSubsetsOf(S) = SUBSET S
    BY FS_FiniteSubsetsOfFinite
  <1>2. IsWellFoundedOn(StrictSubsetOrdering(S), SUBSET S)
    BY <1>1, FS_StrictSubsetOrderingWellFounded
  <1>3. PICK s \in Bad : \A t \in Bad : ~ (<<t, s>> \in StrictSubsetOrdering(S))
    BY <1>2, WFMin
  <1> QED
    BY <1>3 DEF StrictSubsetOrdering

\* The element a fold takes first is in its set.
LEMMA PickIsIn ==
  ASSUME NEW s, s # {}
  PROVE  Pick(s) \in s
  BY DEF Pick

\* Two solutions agree wherever both are defined.
LEMMA SumEquationUnique ==
  ASSUME NEW f, NEW S, IsFiniteSet(S), NEW U \in SUBSET S, NEW T \in SUBSET S, NEW g, NEW h,
         SumEquation(f, T, g), SumEquation(f, U, h), NEW s \in SUBSET (T \cap U)
  PROVE  g[s] = h[s]
  <1> DEFINE Bad == {t \in SUBSET (T \cap U) : g[t] # h[t]}
  <1> SUFFICES ASSUME Bad # {}
               PROVE  FALSE
    OBVIOUS
  <1>1. PICK t \in Bad : \A u \in SUBSET t : u \in Bad => u = t
    <2>1. Bad \in SUBSET (SUBSET S)
      OBVIOUS
    <2> HIDE DEF Bad
    <2> QED
      BY <2>1, MinimalSubset
  <1>2. t \in SUBSET T /\ t \in SUBSET U
    OBVIOUS
  <1>3. t # {}
    BY <1>2 DEF SumEquation
  <1>4. g[t] = f[Pick(t)] + g[t \ {Pick(t)}] /\ h[t] = f[Pick(t)] + h[t \ {Pick(t)}]
    BY <1>2, <1>3 DEF SumEquation
  <1>5. t \ {Pick(t)} \in SUBSET t /\ t \ {Pick(t)} # t
    BY <1>3, PickIsIn
  <1>6. g[t \ {Pick(t)}] = h[t \ {Pick(t)}]
    BY <1>1, <1>5
  <1> QED
    BY <1>4, <1>6

\* The recursion has a solution on every finite set.
LEMMA SumEquationSolvable ==
  ASSUME NEW f, NEW S, IsFiniteSet(S)
  PROVE  \A T \in SUBSET S : \E g : SumEquation(f, T, g)
  <1> DEFINE Bad == {T \in SUBSET S : ~ \E g : SumEquation(f, T, g)}
  <1> SUFFICES ASSUME Bad # {}
               PROVE  FALSE
    OBVIOUS
  <1>1. PICK T \in Bad : \A u \in SUBSET T : u \in Bad => u = T
    <2>1. Bad \in SUBSET (SUBSET S)
      OBVIOUS
    <2> HIDE DEF Bad
    <2> QED
      BY <2>1, MinimalSubset
  <1> DEFINE Below(t) == (CHOOSE g : SumEquation(f, t, g))[t]
             At(t) == IF t = {} THEN 0 ELSE f[Pick(t)] + Below(t \ {Pick(t)})
             G == [s \in SUBSET T |-> At(s)]
  <1>2. ASSUME NEW t \in SUBSET T, t # T
        PROVE  SumEquation(f, t, CHOOSE g : SumEquation(f, t, g))
    <2>1. \E g : SumEquation(f, t, g)
      BY <1>1, <1>2
    <2> HIDE DEF SumEquation
    <2> QED
      BY <2>1
  <1>3. ASSUME NEW t \in SUBSET T, t # T
        PROVE  Below(t) = At(t)
    <2> DEFINE g == CHOOSE g : SumEquation(f, t, g)
    <2>1. SumEquation(f, t, g)
      BY <1>2, <1>3
    <2> HIDE DEF g
    <2>2. CASE t = {}
      <3>1. g[t] = 0
        BY <2>1, <2>2 DEF SumEquation
      <3> QED
        BY <2>2, <3>1 DEF g
    <2>3. CASE t # {}
      <3> DEFINE u == t \ {Pick(t)}
      <3>1. u \in SUBSET T /\ u # T /\ u \in SUBSET t
        BY <1>3
      <3> DEFINE h == CHOOSE h : SumEquation(f, u, h)
      <3>2. SumEquation(f, u, h)
        BY <1>2, <3>1
      <3>3. g[t] = f[Pick(t)] + g[u]
        BY <2>1, <2>3 DEF SumEquation
      <3> HIDE DEF h
      <3>4. g[u] = h[u]
        <4>1. t \in SUBSET S /\ u \in SUBSET S /\ u \in SUBSET (t \cap u)
          BY <3>1
        <4> HIDE DEF u
        <4> QED
          BY <2>1, <3>2, <4>1, SumEquationUnique
      <3>5. Below(t) = f[Pick(t)] + Below(u)
        BY <3>3, <3>4 DEF g, h
      <3> QED
        BY <2>3, <3>5
    <2> QED
      BY <2>2, <2>3
  <1> HIDE DEF Below
  <1>4. ASSUME NEW s \in SUBSET T
        PROVE  G[s] = IF s = {} THEN 0 ELSE f[Pick(s)] + G[s \ {Pick(s)}]
    <2>1. CASE s = {}
      BY <2>1
    <2>2. CASE s # {}
      <3>1. s \ {Pick(s)} \in SUBSET T /\ s \ {Pick(s)} # T
        BY <2>2, PickIsIn
      <3>2. G[s \ {Pick(s)}] = Below(s \ {Pick(s)})
        BY <1>3, <3>1
      <3> QED
        BY <2>2, <3>2
    <2> QED
      BY <2>1, <2>2
  <1>5. SumEquation(f, T, G)
    <2> DEFINE R == [s \in SUBSET T |-> IF s = {} THEN 0 ELSE f[Pick(s)] + G[s \ {Pick(s)}]]
    <2>1. G = [s \in SUBSET T |-> G[s]]
      OBVIOUS
    <2> HIDE DEF G
    <2>2. G = R
      BY <1>4, <2>1
    <2> QED
      BY <2>2 DEF SumEquation
  <1> QED
    BY <1>5

\* The two lines of the recursion, for the sum itself.
LEMMA SumStep ==
  ASSUME NEW f, NEW S, IsFiniteSet(S)
  PROVE  SumFunctionOnSet(f, S) =
           IF S = {} THEN 0 ELSE f[Pick(S)] + SumFunctionOnSet(f, S \ {Pick(S)})
  <1> DEFINE g == CHOOSE g : SumEquation(f, S, g)
  <1>1. SumEquation(f, S, g)
    <2>1. \E h : SumEquation(f, S, h)
      BY SumEquationSolvable
    <2> QED
      BY <2>1
  <1>2. SumFunctionOnSet(f, S) = g[S]
    BY SumUnfolds, Zenon
  <1> HIDE DEF g
  <1>3. CASE S = {}
    BY <1>1, <1>2, <1>3 DEF SumEquation
  <1>4. CASE S # {}
    <2> DEFINE u == S \ {Pick(S)}
               h == CHOOSE h : SumEquation(f, u, h)
    <2>1. SumEquation(f, u, h)
      <3>1. \E k : SumEquation(f, u, k)
        BY SumEquationSolvable
      <3> QED
        BY <3>1
    <2>2. SumFunctionOnSet(f, u) = h[u]
      BY SumUnfolds, Zenon
    <2> HIDE DEF h
    <2>3. g[u] = h[u]
      <3>1. S \in SUBSET S /\ u \in SUBSET S /\ u \in SUBSET (S \cap u)
        OBVIOUS
      <3> HIDE DEF u
      <3> QED
        BY <1>1, <2>1, <3>1, SumEquationUnique
    <2>4. g[S] = f[Pick(S)] + g[u]
      BY <1>1, <1>4 DEF SumEquation
    <2> QED
      BY <1>2, <1>4, <2>2, <2>3, <2>4
  <1> QED
    BY <1>3, <1>4

\* The sum over no indices.
LEMMA SumEmpty ==
  ASSUME NEW f
  PROVE  SumFunctionOnSet(f, {}) = 0
  BY SumStep, FS_EmptySet

\* Sums of integers are integers.
LEMMA SumType ==
  ASSUME NEW S, IsFiniteSet(S), NEW f, \A x \in S : f[x] \in Int
  PROVE  SumFunctionOnSet(f, S) \in Int
  <1> DEFINE Bad == {T \in SUBSET S : SumFunctionOnSet(f, T) \notin Int}
  <1> SUFFICES ASSUME Bad # {}
               PROVE  FALSE
    OBVIOUS
  <1>1. PICK T \in Bad : \A u \in SUBSET T : u \in Bad => u = T
    <2>1. Bad \in SUBSET (SUBSET S)
      OBVIOUS
    <2> HIDE DEF Bad
    <2> QED
      BY <2>1, MinimalSubset
  <1>2. IsFiniteSet(T)
    BY FS_Subset
  <1>3. T # {}
    BY SumEmpty
  <1>4. SumFunctionOnSet(f, T) = f[Pick(T)] + SumFunctionOnSet(f, T \ {Pick(T)})
    BY <1>2, <1>3, SumStep
  <1>5. SumFunctionOnSet(f, T \ {Pick(T)}) \in Int
    BY <1>1, <1>3, PickIsIn
  <1>6. f[Pick(T)] \in Int
    BY <1>3, PickIsIn
  <1> QED
    BY <1>4, <1>5, <1>6

\* Any member can be taken out of a sum first.
LEMMA SumTakeOut ==
  ASSUME NEW S, IsFiniteSet(S), NEW f, \A x \in S : f[x] \in Int, NEW e \in S
  PROVE  SumFunctionOnSet(f, S) = f[e] + SumFunctionOnSet(f, S \ {e})
  <1> DEFINE TakesOut(T, x) == SumFunctionOnSet(f, T) = f[x] + SumFunctionOnSet(f, T \ {x})
             Bad == {T \in SUBSET S : \E x \in T : ~TakesOut(T, x)}
  <1> SUFFICES ASSUME Bad # {}
               PROVE  FALSE
    OBVIOUS
  <1>1. PICK T \in Bad : \A u \in SUBSET T : u \in Bad => u = T
    <2>1. Bad \in SUBSET (SUBSET S)
      OBVIOUS
    <2> HIDE DEF Bad
    <2> QED
      BY <2>1, MinimalSubset
  <1>2. PICK x \in T : ~TakesOut(T, x)
    OBVIOUS
  <1> DEFINE p == Pick(T)
             R == (T \ {x}) \ {p}
  <1>3. p \in T /\ T \in SUBSET S
    BY PickIsIn
  <1>4. \A U \in SUBSET T : IsFiniteSet(U) /\ SumFunctionOnSet(f, U) \in Int
    <2> SUFFICES ASSUME NEW U \in SUBSET T
                 PROVE  IsFiniteSet(U) /\ SumFunctionOnSet(f, U) \in Int
      OBVIOUS
    <2>1. IsFiniteSet(U)
      BY FS_Subset
    <2>2. \A y \in U : f[y] \in Int
      OBVIOUS
    <2> QED
      BY <2>1, <2>2, SumType
  <1>5. TakesOut(T, p)
    BY <1>3, <1>4, SumStep
  <1>6. p # x
    BY <1>2, <1>5
  <1>7. ASSUME NEW U \in SUBSET T, U # T, NEW y \in U
        PROVE  TakesOut(U, y)
    BY <1>1, <1>7
  <1>8. TakesOut(T \ {p}, x)
    BY <1>3, <1>6, <1>7
  <1>9. TakesOut(T \ {x}, p)
    BY <1>3, <1>6, <1>7
  <1>10. (T \ {p}) \ {x} = R
    OBVIOUS
  <1>11. f[p] \in Int /\ f[x] \in Int /\ SumFunctionOnSet(f, R) \in Int
    <2>1. R \in SUBSET T
      OBVIOUS
    <2> QED
      BY <1>3, <1>4, <2>1
  <1>12. SumFunctionOnSet(f, T) = f[p] + (f[x] + SumFunctionOnSet(f, R))
    BY <1>5, <1>8, <1>10
  <1>13. SumFunctionOnSet(f, T \ {x}) = f[p] + SumFunctionOnSet(f, R)
    BY <1>9
  <1>14. f[p] + (f[x] + SumFunctionOnSet(f, R)) = f[x] + (f[p] + SumFunctionOnSet(f, R))
    BY <1>11
  <1> QED
    BY <1>2, <1>12, <1>13, <1>14

\* Functions that agree on the indices have the same sum.
LEMMA SumSame ==
  ASSUME NEW S, IsFiniteSet(S), NEW f, NEW g, \A x \in S : f[x] = g[x]
  PROVE  SumFunctionOnSet(f, S) = SumFunctionOnSet(g, S)
  <1> DEFINE Bad == {T \in SUBSET S : SumFunctionOnSet(f, T) # SumFunctionOnSet(g, T)}
  <1> SUFFICES ASSUME Bad # {}
               PROVE  FALSE
    OBVIOUS
  <1>1. PICK T \in Bad : \A u \in SUBSET T : u \in Bad => u = T
    <2>1. Bad \in SUBSET (SUBSET S)
      OBVIOUS
    <2> HIDE DEF Bad
    <2> QED
      BY <2>1, MinimalSubset
  <1>2. IsFiniteSet(T)
    BY FS_Subset
  <1>3. T # {}
    BY SumEmpty
  <1>4. SumFunctionOnSet(f, T \ {Pick(T)}) = SumFunctionOnSet(g, T \ {Pick(T)})
    BY <1>1, <1>3, PickIsIn
  <1>5. f[Pick(T)] = g[Pick(T)]
    BY <1>3, PickIsIn
  <1> QED
    BY <1>2, <1>3, <1>4, <1>5, SumStep

\* A function that differs at one index changes the sum by the difference.
LEMMA SumChange ==
  ASSUME NEW S, IsFiniteSet(S), NEW f, NEW g, \A x \in S : f[x] \in Int /\ g[x] \in Int,
         NEW e \in S, \A x \in S \ {e} : f[x] = g[x]
  PROVE  SumFunctionOnSet(g, S) = SumFunctionOnSet(f, S) + (g[e] - f[e])
  <1>1. SumFunctionOnSet(f, S \ {e}) = SumFunctionOnSet(g, S \ {e})
    <2>1. IsFiniteSet(S \ {e})
      BY FS_RemoveElement
    <2> QED
      BY <2>1, SumSame
  <1>2. SumFunctionOnSet(f, S) = f[e] + SumFunctionOnSet(f, S \ {e})
    BY SumTakeOut
  <1>3. SumFunctionOnSet(g, S) = g[e] + SumFunctionOnSet(g, S \ {e})
    BY SumTakeOut
  <1>4. SumFunctionOnSet(f, S \ {e}) \in Int
    <2>1. IsFiniteSet(S \ {e})
      BY FS_RemoveElement
    <2> QED
      BY <2>1, SumType
  <1> QED
    BY <1>1, <1>2, <1>3, <1>4

\* A new index adds its term.
LEMMA SumInsert ==
  ASSUME NEW S, IsFiniteSet(S), NEW f, NEW e, e \notin S, \A x \in S \cup {e} : f[x] \in Int
  PROVE  SumFunctionOnSet(f, S \cup {e}) = SumFunctionOnSet(f, S) + f[e]
  <1>1. IsFiniteSet(S \cup {e}) /\ (S \cup {e}) \ {e} = S
    BY FS_AddElement
  <1>2. SumFunctionOnSet(f, S \cup {e}) = f[e] + SumFunctionOnSet(f, S)
    BY <1>1, SumTakeOut
  <1>3. SumFunctionOnSet(f, S) \in Int
    BY SumType
  <1> QED
    BY <1>2, <1>3

\* Larger terms have a larger sum.
LEMMA SumMonotone ==
  ASSUME NEW S, IsFiniteSet(S), NEW f, NEW g, \A x \in S : f[x] \in Int /\ g[x] \in Int /\ f[x] <= g[x]
  PROVE  SumFunctionOnSet(f, S) <= SumFunctionOnSet(g, S)
  <1> DEFINE Bad == {T \in SUBSET S : ~(SumFunctionOnSet(f, T) <= SumFunctionOnSet(g, T))}
  <1> SUFFICES ASSUME Bad # {}
               PROVE  FALSE
    OBVIOUS
  <1>1. PICK T \in Bad : \A u \in SUBSET T : u \in Bad => u = T
    <2>1. Bad \in SUBSET (SUBSET S)
      OBVIOUS
    <2> HIDE DEF Bad
    <2> QED
      BY <2>1, MinimalSubset
  <1>2. IsFiniteSet(T) /\ IsFiniteSet(T \ {Pick(T)})
    BY FS_Subset, FS_RemoveElement
  <1>3. T # {}
    BY SumEmpty
  <1>4. SumFunctionOnSet(f, T \ {Pick(T)}) <= SumFunctionOnSet(g, T \ {Pick(T)})
    BY <1>1, <1>3, PickIsIn
  <1>5. f[Pick(T)] \in Int /\ g[Pick(T)] \in Int /\ f[Pick(T)] <= g[Pick(T)]
    BY <1>3, PickIsIn
  <1>6. SumFunctionOnSet(f, T \ {Pick(T)}) \in Int /\ SumFunctionOnSet(g, T \ {Pick(T)}) \in Int
    BY <1>2, SumType
  <1>7. SumFunctionOnSet(f, T) = f[Pick(T)] + SumFunctionOnSet(f, T \ {Pick(T)})
    BY <1>2, <1>3, SumStep
  <1>8. SumFunctionOnSet(g, T) = g[Pick(T)] + SumFunctionOnSet(g, T \ {Pick(T)})
    BY <1>2, <1>3, SumStep
  <1> QED
    BY <1>4, <1>5, <1>6, <1>7, <1>8

\* The sum of a pointwise sum is the sum of the sums.
LEMMA SumPointwise ==
  ASSUME NEW S, IsFiniteSet(S), NEW f, NEW g, NEW h,
         \A x \in S : f[x] \in Int /\ g[x] \in Int /\ h[x] = f[x] + g[x]
  PROVE  SumFunctionOnSet(h, S) = SumFunctionOnSet(f, S) + SumFunctionOnSet(g, S)
  <1> DEFINE Bad == {T \in SUBSET S : SumFunctionOnSet(h, T) # SumFunctionOnSet(f, T) + SumFunctionOnSet(g, T)}
  <1> SUFFICES ASSUME Bad # {}
               PROVE  FALSE
    OBVIOUS
  <1>1. PICK T \in Bad : \A u \in SUBSET T : u \in Bad => u = T
    <2>1. Bad \in SUBSET (SUBSET S)
      OBVIOUS
    <2> HIDE DEF Bad
    <2> QED
      BY <2>1, MinimalSubset
  <1> DEFINE p == Pick(T)
             U == T \ {p}
  <1>2. IsFiniteSet(T) /\ IsFiniteSet(U)
    BY FS_Subset, FS_RemoveElement
  <1>3. T # {}
    <2>1. /\ SumFunctionOnSet(f, {}) = 0
          /\ SumFunctionOnSet(g, {}) = 0
          /\ SumFunctionOnSet(h, {}) = 0
      BY SumEmpty
    <2>2. SumFunctionOnSet(h, T) # SumFunctionOnSet(f, T) + SumFunctionOnSet(g, T)
      OBVIOUS
    <2>3. 0 + 0 = 0
      OBVIOUS
    <2> QED
      BY <2>1, <2>2, <2>3, Zenon
  <1>4. SumFunctionOnSet(h, U) = SumFunctionOnSet(f, U) + SumFunctionOnSet(g, U)
    BY <1>1, <1>3, PickIsIn
  <1>5. f[p] \in Int /\ g[p] \in Int /\ h[p] = f[p] + g[p]
    BY <1>3, PickIsIn
  <1>6. SumFunctionOnSet(f, U) \in Int /\ SumFunctionOnSet(g, U) \in Int
    BY <1>2, SumType
  <1>7. /\ SumFunctionOnSet(f, T) = f[p] + SumFunctionOnSet(f, U)
        /\ SumFunctionOnSet(g, T) = g[p] + SumFunctionOnSet(g, U)
        /\ SumFunctionOnSet(h, T) = h[p] + SumFunctionOnSet(h, U)
    BY <1>2, <1>3, SumStep
  <1>8. SumFunctionOnSet(h, T) = SumFunctionOnSet(f, T) + SumFunctionOnSet(g, T)
    <2> HIDE DEF p, U
    <2> QED
      BY <1>4, <1>5, <1>6, <1>7
  <1> QED
    BY <1>8

\* Terms that are zero add up to zero.
LEMMA SumZero ==
  ASSUME NEW S, IsFiniteSet(S), NEW f, \A x \in S : f[x] = 0
  PROVE  SumFunctionOnSet(f, S) = 0
  <1>1. SumFunctionOnSet(f, S) = SumFunctionOnSet(f, S) + SumFunctionOnSet(f, S)
    BY SumPointwise
  <1>2. SumFunctionOnSet(f, S) \in Int
    BY SumType
  <1>3. \A n \in Int : n = n + n => n = 0
    OBVIOUS
  <1> QED
    BY <1>1, <1>2, <1>3, Zenon

\* A sum of natural numbers is one, and no smaller than any of its terms.
LEMMA SumNatural ==
  ASSUME NEW S, IsFiniteSet(S), NEW f, \A x \in S : f[x] \in Nat
  PROVE  SumFunctionOnSet(f, S) \in Nat
  <1> DEFINE zero == [x \in S |-> 0]
  <1>1. SumFunctionOnSet(zero, S) = 0
    BY SumZero
  <1>2. SumFunctionOnSet(zero, S) <= SumFunctionOnSet(f, S)
    BY SumMonotone
  <1>3. SumFunctionOnSet(f, S) \in Int
    BY SumType
  <1> QED
    BY <1>1, <1>2, <1>3

\* One of several natural terms is at most their sum.
LEMMA SumOfTerm ==
  ASSUME NEW S, IsFiniteSet(S), NEW f, \A x \in S : f[x] \in Nat, NEW e \in S
  PROVE  f[e] <= SumFunctionOnSet(f, S)
  <1>1. SumFunctionOnSet(f, S) = f[e] + SumFunctionOnSet(f, S \ {e})
    BY SumTakeOut
  <1>2. SumFunctionOnSet(f, S \ {e}) \in Nat
    <2>1. IsFiniteSet(S \ {e})
      BY FS_RemoveElement
    <2> QED
      BY <2>1, SumNatural
  <1> QED
    BY <1>1, <1>2

\* A sum over two disjoint sets adds up.
LEMMA SumUnion ==
  ASSUME NEW S, IsFiniteSet(S), NEW T, IsFiniteSet(T), S \cap T = {},
         NEW f, \A x \in S \cup T : f[x] \in Int
  PROVE  SumFunctionOnSet(f, S \cup T) = SumFunctionOnSet(f, S) + SumFunctionOnSet(f, T)
  <1> DEFINE Bad == {U \in SUBSET T : SumFunctionOnSet(f, S \cup U) # SumFunctionOnSet(f, S) + SumFunctionOnSet(f, U)}
  <1> SUFFICES ASSUME Bad # {}
               PROVE  FALSE
    OBVIOUS
  <1>1. PICK U \in Bad : \A u \in SUBSET U : u \in Bad => u = U
    <2>1. Bad \in SUBSET (SUBSET T)
      OBVIOUS
    <2> HIDE DEF Bad
    <2> QED
      BY <2>1, MinimalSubset
  <1>2. U \in SUBSET T /\ SumFunctionOnSet(f, S \cup U) # SumFunctionOnSet(f, S) + SumFunctionOnSet(f, U)
    OBVIOUS
  <1>3. SumFunctionOnSet(f, S) \in Int
    BY SumType
  <1>4. U # {}
    <2>1. SumFunctionOnSet(f, {}) = 0 /\ S \cup {} = S
      BY SumEmpty
    <2>2. \A n \in Int : n = n + 0
      OBVIOUS
    <2> QED
      BY <1>2, <1>3, <2>1, <2>2, Zenon
  <1> DEFINE p == Pick(U)
             V == U \ {p}
  <1>5. p \in U /\ V \in SUBSET T /\ V # U /\ V \subseteq U
    BY <1>2, <1>4, PickIsIn
  <1>6. SumFunctionOnSet(f, S \cup V) = SumFunctionOnSet(f, S) + SumFunctionOnSet(f, V)
    BY <1>1, <1>5
  <1>7. IsFiniteSet(V) /\ IsFiniteSet(S \cup V) /\ IsFiniteSet(S \cup U)
    BY <1>2, <1>5, FS_Subset, FS_Union
  <1>8. (S \cup U) = (S \cup V) \cup {p} /\ U = V \cup {p} /\ p \notin S \cup V /\ p \notin V
    BY <1>2, <1>5
  <1>9. f[p] \in Int /\ SumFunctionOnSet(f, V) \in Int
    BY <1>2, <1>5, <1>7, SumType
  <1> HIDE DEF p, V, Bad
  <1>10. /\ SumFunctionOnSet(f, S \cup U) = SumFunctionOnSet(f, S \cup V) + f[p]
         /\ SumFunctionOnSet(f, U) = SumFunctionOnSet(f, V) + f[p]
    <2>1. \A x \in S \cup V \cup {p} : f[x] \in Int
      BY <1>2, <1>5
    <2>2. SumFunctionOnSet(f, (S \cup V) \cup {p}) = SumFunctionOnSet(f, S \cup V) + f[p]
      BY <1>7, <1>8, <2>1, SumInsert
    <2>3. SumFunctionOnSet(f, V \cup {p}) = SumFunctionOnSet(f, V) + f[p]
      BY <1>7, <1>8, <2>1, SumInsert
    <2> QED
      BY <1>8, <2>2, <2>3
  <1> QED
    BY <1>2, <1>3, <1>6, <1>9, <1>10

\* Equal terms add up to a product.
LEMMA SumConstant ==
  ASSUME NEW S, IsFiniteSet(S), NEW v \in Int, NEW f, \A x \in S : f[x] = v
  PROVE  SumFunctionOnSet(f, S) = v * Cardinality(S)
  <1> DEFINE Bad == {U \in SUBSET S : SumFunctionOnSet(f, U) # v * Cardinality(U)}
  <1> SUFFICES ASSUME Bad # {}
               PROVE  FALSE
    OBVIOUS
  <1>1. PICK U \in Bad : \A u \in SUBSET U : u \in Bad => u = U
    <2>1. Bad \in SUBSET (SUBSET S)
      OBVIOUS
    <2> HIDE DEF Bad
    <2> QED
      BY <2>1, MinimalSubset
  <1>2. U \in SUBSET S /\ SumFunctionOnSet(f, U) # v * Cardinality(U)
    OBVIOUS
  <1>3. U # {}
    <2>1. v * 0 = 0
      OBVIOUS
    <2>2. SumFunctionOnSet(f, {}) = 0 /\ Cardinality({}) = 0
      BY SumEmpty, FS_EmptySet
    <2> QED
      BY <1>2, <2>1, <2>2
  <1> DEFINE p == Pick(U)
             V == U \ {p}
  <1>4. p \in U /\ V \in SUBSET S /\ V # U /\ V \subseteq U
    BY <1>2, <1>3, PickIsIn
  <1>5. SumFunctionOnSet(f, V) = v * Cardinality(V)
    BY <1>1, <1>4
  <1>6. IsFiniteSet(U) /\ IsFiniteSet(V)
    BY <1>2, <1>4, FS_Subset
  <1>7. Cardinality(U) \in Nat /\ Cardinality(V) \in Nat /\ Cardinality(U) = Cardinality(V) + 1
    <2>1. Cardinality(V) = Cardinality(U) - 1
      BY <1>4, <1>6, FS_RemoveElement
    <2>2. Cardinality(U) \in Nat /\ Cardinality(V) \in Nat
      BY <1>6, FS_CardinalityType
    <2> QED
      BY <2>1, <2>2
  <1>8. SumFunctionOnSet(f, U) = f[p] + SumFunctionOnSet(f, V)
    BY <1>3, <1>6, SumStep
  <1>9. f[p] = v
    BY <1>2, <1>4
  <1> HIDE DEF p, V, Bad
  <1>10. v * Cardinality(U) = v + v * Cardinality(V)
    BY <1>7
  <1> QED
    BY <1>2, <1>5, <1>8, <1>9, <1>10

\* A common factor comes out of a sum.
LEMMA SumScale ==
  ASSUME NEW S, IsFiniteSet(S), NEW k \in Int, NEW f, NEW g,
         \A x \in S : f[x] \in Int /\ g[x] = f[x] * k
  PROVE  SumFunctionOnSet(g, S) = SumFunctionOnSet(f, S) * k
  <1> DEFINE Bad == {U \in SUBSET S : SumFunctionOnSet(g, U) # SumFunctionOnSet(f, U) * k}
  <1> SUFFICES ASSUME Bad # {}
               PROVE  FALSE
    OBVIOUS
  <1>1. PICK U \in Bad : \A u \in SUBSET U : u \in Bad => u = U
    <2>1. Bad \in SUBSET (SUBSET S)
      OBVIOUS
    <2> HIDE DEF Bad
    <2> QED
      BY <2>1, MinimalSubset
  <1>2. U \in SUBSET S /\ SumFunctionOnSet(g, U) # SumFunctionOnSet(f, U) * k
    OBVIOUS
  <1>3. U # {}
    <2>1. 0 * k = 0
      OBVIOUS
    <2>2. SumFunctionOnSet(f, {}) = 0 /\ SumFunctionOnSet(g, {}) = 0
      BY SumEmpty
    <2> QED
      BY <1>2, <2>1, <2>2
  <1> DEFINE p == Pick(U)
             V == U \ {p}
  <1>4. p \in U /\ V \in SUBSET S /\ V # U /\ V \subseteq U
    BY <1>2, <1>3, PickIsIn
  <1>5. SumFunctionOnSet(g, V) = SumFunctionOnSet(f, V) * k
    BY <1>1, <1>4
  <1>6. IsFiniteSet(U) /\ IsFiniteSet(V)
    BY <1>2, <1>4, FS_Subset
  <1>7. /\ SumFunctionOnSet(f, U) = f[p] + SumFunctionOnSet(f, V)
        /\ SumFunctionOnSet(g, U) = g[p] + SumFunctionOnSet(g, V)
    BY <1>3, <1>6, SumStep
  <1>8. f[p] \in Int /\ g[p] = f[p] * k
    BY <1>2, <1>4
  <1>9. SumFunctionOnSet(f, V) \in Int
    <2>1. \A x \in V : f[x] \in Int
      BY <1>4
    <2> HIDE DEF V
    <2> QED
      BY <1>6, <2>1, SumType
  <1>10. \A m \in Int, n \in Int : (m + n) * k = m * k + n * k
    OBVIOUS
  <1> HIDE DEF p, V, Bad
  <1> QED
    BY <1>2, <1>5, <1>7, <1>8, <1>9, <1>10

-----------------------------------------------------------------------------
(* Finite sets.                                                              *)

\* The values of a function on a finite set are finitely many.
LEMMA ImageFinite ==
  ASSUME NEW S, IsFiniteSet(S), NEW f
  PROVE  IsFiniteSet({f[x] : x \in S})
  <1> DEFINE T == {f[x] : x \in S}
             g == [x \in S |-> f[x]]
  <1>1. g \in Surjection(S, T)
    BY DEF Surjection
  <1> HIDE DEF T, g
  <1>2. IsFiniteSet(T)
    BY <1>1, FS_Surjection
  <1> QED
    BY <1>2 DEF T

\* A finite set of numbers that is not empty has a largest one.
LEMMA FiniteMaximum ==
  ASSUME NEW S, IsFiniteSet(S), S # {}, \A x \in S : x \in Int
  PROVE  \E m \in S : \A x \in S : m >= x
  <1> DEFINE Bad == {U \in SUBSET S : U # {} /\ ~(\E m \in U : \A x \in U : m >= x)}
  <1> SUFFICES ASSUME Bad # {}
               PROVE  FALSE
    OBVIOUS
  <1>1. PICK U \in Bad : \A u \in SUBSET U : u \in Bad => u = U
    <2>1. Bad \in SUBSET (SUBSET S)
      OBVIOUS
    <2> HIDE DEF Bad
    <2> QED
      BY <2>1, MinimalSubset
  <1>2. U \in SUBSET S /\ U # {} /\ ~(\E m \in U : \A x \in U : m >= x)
    OBVIOUS
  <1> DEFINE p == Pick(U)
             V == U \ {p}
  <1>3. p \in U /\ V \in SUBSET S /\ V # U /\ V \subseteq U /\ U \subseteq V \cup {p}
    BY <1>2, PickIsIn
  <1>4. V = {} \/ (\E m \in V : \A x \in V : m >= x)
    BY <1>1, <1>3
  <1> HIDE DEF p, V, Bad
  <1>5. (\E m \in U : \A x \in U : m >= x)
    <2>1. CASE V = {}
      <3>1. \A x \in U : x = p /\ x \in Int
        BY <1>2, <1>3, <2>1
      <3> QED
        BY <1>3, <3>1
    <2>2. CASE (\E m \in V : \A x \in V : m >= x)
      <3>1. PICK m \in V : \A x \in V : m >= x
        BY <2>2
      <3>2. m \in Int /\ p \in Int /\ m \in U /\ \A x \in U : x \in Int /\ (x \in V \/ x = p)
        BY <1>2, <1>3
      <3>3. CASE m >= p
        BY <3>1, <3>2, <3>3
      <3>4. CASE ~(m >= p)
        <4>1. \A x \in U : p >= x
          BY <3>1, <3>2, <3>4
        <4> QED
          BY <1>3, <4>1
      <3> QED
        BY <3>3, <3>4
    <2> QED
      BY <1>4, <2>1, <2>2
  <1> QED
    BY <1>2, <1>5

-----------------------------------------------------------------------------
(* Rounding.                                                                 *)

\* Integer division rounds down.
LEMMA DivisionBounds ==
  ASSUME NEW n \in Nat, NEW d \in Nat \ {0}
  PROVE  /\ n \div d \in Nat
         /\ (n \div d) * d <= n
         /\ n < (n \div d) * d + d
  OBVIOUS

\* A product grows with its factor.
LEMMA ProductMonotone ==
  ASSUME NEW a \in Int, NEW b \in Int, NEW d \in Nat, a <= b
  PROVE  a * d <= b * d
  OBVIOUS

\* And a smaller product by the same positive number is of a smaller factor.
LEMMA ProductLess ==
  ASSUME NEW a \in Int, NEW b \in Int, NEW d \in Nat \ {0}, a * d < b * d
  PROVE  a < b
  OBVIOUS

\* What fits below a product fits below the quotient.
LEMMA DivisionFits ==
  ASSUME NEW q \in Int, NEW n \in Nat, NEW d \in Nat \ {0}, q * d <= n
  PROVE  q <= n \div d
  <1> DEFINE r == n \div d
  <1>1. r \in Nat /\ n < r * d + d
    BY DivisionBounds
  <1> HIDE DEF r
  <1>2. r * d + d = (r + 1) * d
    BY <1>1
  <1>3. q * d < (r + 1) * d
    BY <1>1, <1>2
  <1>4. q < r + 1
    BY <1>1, <1>3, ProductLess
  <1>5. q <= r
    BY <1>1, <1>4
  <1> QED
    BY <1>5 DEF r

\* A quotient grows with its dividend.
LEMMA DivisionMonotone ==
  ASSUME NEW m \in Nat, NEW n \in Nat, NEW d \in Nat \ {0}, m <= n
  PROVE  m \div d <= n \div d
  <1> DEFINE q == m \div d
  <1>1. q \in Nat /\ q * d <= m
    BY DivisionBounds
  <1> HIDE DEF q
  <1>2. q <= n \div d
    BY <1>1, DivisionFits
  <1> QED
    BY <1>2 DEF q

\* Rounding the parts loses at least what rounding the whole does.
LEMMA DivisionSplits ==
  ASSUME NEW m \in Nat, NEW n \in Nat, NEW d \in Nat \ {0}
  PROVE  m \div d + n \div d <= (m + n) \div d
  <1> DEFINE p == m \div d
             q == n \div d
  <1>1. p \in Nat /\ p * d <= m /\ q \in Nat /\ q * d <= n
    BY DivisionBounds
  <1> HIDE DEF p, q
  <1>2. (p + q) * d = p * d + q * d
    BY <1>1
  <1>3. (p + q) * d <= m + n
    BY <1>1, <1>2
  <1>4. p + q <= (m + n) \div d
    BY <1>1, <1>3, DivisionFits
  <1> QED
    BY <1>4 DEF p, q

\* The quotient and the remainder make up the whole.
LEMMA DivisionRemainder ==
  ASSUME NEW n \in Nat, NEW d \in Nat \ {0}
  PROVE  n \div d \in Nat /\ n % d \in Nat /\ n % d < d /\ d * (n \div d) + (n % d) = n
  <1>1. n % d = n - d * (n \div d)
    OBVIOUS
  <1>2. n \div d \in Nat /\ n % d \in Nat /\ n % d < d
    <2>1. n % d \in Nat
      OBVIOUS
    <2>2. n % d < d
      OBVIOUS
    <2> QED
      BY <2>1, <2>2, DivisionBounds
  <1> DEFINE q == n \div d
             r == n % d
  <1>3. d * q \in Int
    BY <1>2
  <1> HIDE DEF q, r
  <1>4. d * q + r = n
    BY <1>1, <1>2, <1>3 DEF q, r
  <1> QED
    BY <1>2, <1>4 DEF q, r

\* A multiple divides exactly.
LEMMA DivisionExact ==
  ASSUME NEW n \in Nat, NEW d \in Nat \ {0}
  PROVE  (n * d) \div d = n
  <1> DEFINE q == (n * d) \div d
  <1>1. n * d \in Nat
    OBVIOUS
  <1>2. q \in Nat /\ q * d <= n * d
    BY <1>1, DivisionBounds
  <1>3. n <= q
    BY <1>1, DivisionFits
  <1> HIDE DEF q
  <1>4. ~(n < q)
    <2> SUFFICES ASSUME n + 1 <= q
                 PROVE  FALSE
      BY <1>2
    <2>1. (n + 1) * d <= q * d
      BY <1>2, ProductMonotone
    <2>2. (n + 1) * d = n * d + d
      OBVIOUS
    <2>3. q * d \in Nat
      BY <1>2
    <2> QED
      BY <1>1, <1>2, <2>1, <2>2, <2>3
  <1>5. q = n
    BY <1>2, <1>3, <1>4
  <1> QED
    BY <1>5 DEF q

=============================================================================
