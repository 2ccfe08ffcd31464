----------------------------- MODULE SumProofs -----------------------------
(***************************************************************************)
(* What sums over finite sets obey: SumFunctionOnSet(f, S) of the          *)
(* Functions module, with which the models add up quantities and money.    *)
(* The library's induction theorems take an operator; SubsetInduction      *)
(* states the same for a set of sets, which a proof can cite, and the rest *)
(* follows from it.                                                        *)
(***************************************************************************)
EXTENDS Functions, FiniteSets, FiniteSetTheorems, TLAPS

\* Induction over the subsets of a finite set, stated with a set of subsets so
\* that it can be cited: a family that holds a set whenever it holds all its
\* strict subsets holds every subset.
LEMMA SubsetInduction ==
  ASSUME NEW S, IsFiniteSet(S), NEW F,
         \A T \in SUBSET S : (\A U \in SUBSET T : U # T => U \in F) => T \in F
  PROVE  SUBSET S \subseteq F
<1> DEFINE Bad == {T \in SUBSET S : T \notin F}
<1>1. IsWellFoundedOn(StrictSubsetOrdering(S), SUBSET S)
  BY FS_StrictSubsetOrderingWellFounded, FS_FiniteSubsetsOfFinite, Zenon
<1>2. SUFFICES ASSUME Bad # {} PROVE FALSE
  OBVIOUS
<1>3. PICK T \in Bad : \A U \in Bad : ~(<<U, T>> \in StrictSubsetOrdering(S))
  <2>1. Bad \subseteq SUBSET S
    OBVIOUS
  <2> HIDE DEF Bad
  <2> QED
    BY <1>1, <1>2, <2>1, WFMin
<1>4. ASSUME NEW U \in SUBSET T, U # T PROVE <<U, T>> \in StrictSubsetOrdering(S)
  BY <1>4 DEF StrictSubsetOrdering
<1>5. ASSUME NEW U \in SUBSET T, U # T PROVE U \in F
  <2>1. U \in SUBSET S
    OBVIOUS
  <2> QED
    BY <1>3, <1>4, <1>5, <2>1
<1> QED
  BY <1>5

\* The element the fold takes out of a set.
First(s) == CHOOSE x \in s : TRUE
\* One round of the recursion that SumFunctionOnSet unfolds to.
Round(f, S, g) ==
  [s \in SUBSET S |-> IF s = {} THEN 0 ELSE f[First(s)] + g[s \ {First(s)}]]

\* A sum is, by definition, a value of some function that obeys Round.
LEMMA SumUnfolds ==
  ASSUME NEW f, NEW S
  PROVE  SumFunctionOnSet(f, S) = (CHOOSE g : g = Round(f, S, g))[S]
BY DEF SumFunctionOnSet, FoldFunctionOnSet, MapThenFoldSet, Round, First

\* Functions that obey Round on two sets agree on the sets they share.
LEMMA RoundUnique ==
  ASSUME NEW f, NEW S, IsFiniteSet(S), NEW g, NEW h, NEW T \in SUBSET S,
         g = Round(f, S, g), h = Round(f, T, h)
  PROVE  \A s \in SUBSET T : g[s] = h[s]
<1> DEFINE F == {s \in SUBSET T : g[s] = h[s]}
<1>1. IsFiniteSet(T)
  BY FS_Subset
<1>2. ASSUME NEW s \in SUBSET T, \A u \in SUBSET s : u # s => u \in F
      PROVE  s \in F
  <2>1. CASE s = {}
    BY <2>1 DEF Round
  <2>2. CASE s # {}
    <3>1. First(s) \in s
      BY <2>2 DEF First
    <3>2. g[s \ {First(s)}] = h[s \ {First(s)}]
      BY <3>1, <1>2
    <3>3. g[s] = f[First(s)] + g[s \ {First(s)}]
      BY <2>2 DEF Round
    <3>4. h[s] = f[First(s)] + h[s \ {First(s)}]
      BY <2>2 DEF Round
    <3> QED
      BY <3>2, <3>3, <3>4
  <2> QED
    BY <2>1, <2>2
<1>3. SUBSET T \subseteq F
  <2> HIDE DEF F
  <2> QED
    BY <1>1, <1>2, SubsetInduction
<1> QED
  BY <1>3

\* A function that obeys Round exists on every finite set.
LEMMA RoundExists ==
  ASSUME NEW f, NEW S, IsFiniteSet(S)
  PROVE  \A T \in SUBSET S : \E g : g = Round(f, T, g)
<1> DEFINE F == {T \in SUBSET S : \E g : g = Round(f, T, g)}
<1>1. ASSUME NEW T \in SUBSET S, \A U \in SUBSET T : U # T => U \in F
      PROVE  T \in F
  <2> DEFINE c == First(T)
             h == [s \in SUBSET T |->
                     IF s # T THEN SumFunctionOnSet(f, s)
                     ELSE IF T = {} THEN 0 ELSE f[c] + SumFunctionOnSet(f, T \ {c})]
  <2>1. ASSUME NEW s \in SUBSET T, s # T
        PROVE  \E g : g = Round(f, s, g) /\ SumFunctionOnSet(f, s) = g[s]
    <3>1. \E g : g = Round(f, s, g)
      BY <1>1, <2>1
    <3> QED
      BY <3>1, SumUnfolds
  <2>2. ASSUME NEW s \in SUBSET T, s # T, s # {}
        PROVE  SumFunctionOnSet(f, s) = f[First(s)] + SumFunctionOnSet(f, s \ {First(s)})
    <3>1. First(s) \in s
      BY <2>2 DEF First
    <3> DEFINE u == s \ {First(s)}
    <3>2. u \in SUBSET T /\ u # T /\ u \in SUBSET s
      BY <2>2, <3>1
    <3>3. PICK g : g = Round(f, s, g) /\ SumFunctionOnSet(f, s) = g[s]
      BY <2>1, <2>2
    <3>4. PICK k : k = Round(f, u, k) /\ SumFunctionOnSet(f, u) = k[u]
      BY <2>1, <3>2
    <3>5. IsFiniteSet(s)
      BY FS_Subset
    <3>6. g[u] = k[u]
      <4> HIDE DEF u
      <4> QED
        BY <3>2, <3>3, <3>4, <3>5, RoundUnique
    <3>7. g[s] = f[First(s)] + g[s \ {First(s)}]
      <4>1. g[s] = Round(f, s, g)[s]
        BY <3>3
      <4> QED
        BY <4>1, <2>2 DEF Round
    <3> QED
      BY <3>3, <3>4, <3>6, <3>7
  <2>3. ASSUME NEW s \in SUBSET T, s # T, s = {} PROVE SumFunctionOnSet(f, s) = 0
    <3>1. PICK g : g = Round(f, s, g) /\ SumFunctionOnSet(f, s) = g[s]
      BY <2>1, <2>3
    <3>2. g[s] = Round(f, s, g)[s]
      BY <3>1
    <3> QED
      BY <3>1, <3>2, <2>3 DEF Round
  <2>4. ASSUME NEW s \in SUBSET T
        PROVE  h[s] = IF s = {} THEN 0 ELSE f[First(s)] + h[s \ {First(s)}]
    <3>1. CASE s = {}
      BY <3>1, <2>3
    <3>2. CASE s # {}
      <4>1. First(s) \in s
        BY <3>2 DEF First
      <4>2. s \ {First(s)} \in SUBSET T /\ s \ {First(s)} # T
        BY <4>1
      <4>3. h[s \ {First(s)}] = SumFunctionOnSet(f, s \ {First(s)})
        BY <4>2
      <4>4. CASE s = T
        BY <4>3, <4>4, <3>2
      <4>5. CASE s # T
        BY <4>3, <4>5, <3>2, <2>2
      <4> QED
        BY <4>4, <4>5
    <3> QED
      BY <3>1, <3>2
  <2>5. h = Round(f, T, h)
    <3>1. h = [s \in SUBSET T |-> h[s]]
      OBVIOUS
    <3> HIDE DEF h
    <3> QED
      BY <3>1, <2>4, Zenon DEF Round
  <2> QED
    BY <2>5
<1>2. SUBSET S \subseteq F
  <2> HIDE DEF F
  <2> QED
    BY <1>1, SubsetInduction
<1> QED
  BY <1>2

\* The recursive equation: take one element out and add the sum of the rest.
LEMMA SumStep ==
  ASSUME NEW f, NEW S, IsFiniteSet(S)
  PROVE  SumFunctionOnSet(f, S) =
           IF S = {} THEN 0 ELSE f[First(S)] + SumFunctionOnSet(f, S \ {First(S)})
<1>1. PICK g : g = Round(f, S, g) /\ SumFunctionOnSet(f, S) = g[S]
  BY RoundExists, SumUnfolds
<1>2. g[S] = Round(f, S, g)[S]
  BY <1>1
<1>3. CASE S = {}
  BY <1>1, <1>2, <1>3 DEF Round
<1>4. CASE S # {}
  <2> DEFINE u == S \ {First(S)}
  <2>1. u \in SUBSET S /\ IsFiniteSet(u)
    BY FS_Subset
  <2>2. PICK k : k = Round(f, u, k) /\ SumFunctionOnSet(f, u) = k[u]
    BY <2>1, RoundExists, SumUnfolds
  <2>3. g[u] = k[u]
    <3> HIDE DEF u
    <3> QED
      BY <1>1, <2>1, <2>2, RoundUnique
  <2> QED
    BY <1>1, <1>2, <1>4, <2>2, <2>3 DEF Round
<1> QED
  BY <1>3, <1>4

\* The sum over no elements is 0.
LEMMA SumEmpty ==
  ASSUME NEW f
  PROVE  SumFunctionOnSet(f, {}) = 0
BY SumStep, FS_EmptySet

\* The sum of integers is an integer.
LEMMA SumInt ==
  ASSUME NEW f, NEW S, IsFiniteSet(S), \A x \in S : f[x] \in Int
  PROVE  SumFunctionOnSet(f, S) \in Int
<1> DEFINE F == {T \in SUBSET S : SumFunctionOnSet(f, T) \in Int}
<1>1. ASSUME NEW T \in SUBSET S, \A U \in SUBSET T : U # T => U \in F
      PROVE  T \in F
  <2>1. IsFiniteSet(T)
    BY FS_Subset
  <2>2. CASE T = {}
    BY <2>2, SumEmpty
  <2>3. CASE T # {}
    <3>1. First(T) \in T
      BY <2>3 DEF First
    <3>2. T \ {First(T)} \in F
      BY <1>1, <3>1
    <3> QED
      BY <2>1, <2>3, <3>1, <3>2, SumStep
  <2> QED
    BY <2>2, <2>3
<1>2. SUBSET S \subseteq F
  <2> HIDE DEF F
  <2> QED
    BY <1>1, SubsetInduction
<1> QED
  BY <1>2

\* The element that is taken out first does not matter.
LEMMA SumTakeOut ==
  ASSUME NEW f, NEW S, IsFiniteSet(S), \A x \in S : f[x] \in Int, NEW x \in S
  PROVE  SumFunctionOnSet(f, S) = f[x] + SumFunctionOnSet(f, S \ {x})
<1> DEFINE F == {T \in SUBSET S : \A y \in T :
                   SumFunctionOnSet(f, T) = f[y] + SumFunctionOnSet(f, T \ {y})}
<1>1. ASSUME NEW T \in SUBSET S, \A U \in SUBSET T : U # T => U \in F
      PROVE  T \in F
  <2> SUFFICES ASSUME NEW y \in T
               PROVE  SumFunctionOnSet(f, T) = f[y] + SumFunctionOnSet(f, T \ {y})
    OBVIOUS
  <2> DEFINE c == First(T)
  <2>1. IsFiniteSet(T) /\ IsFiniteSet(T \ {c}) /\ IsFiniteSet(T \ {y})
    BY FS_Subset
  <2>2. c \in T
    BY DEF First
  <2>3. SumFunctionOnSet(f, T) = f[c] + SumFunctionOnSet(f, T \ {c})
    BY <2>1, SumStep
  <2>4. CASE y = c
    BY <2>3, <2>4
  <2>5. CASE y # c
    <3> DEFINE both == T \ {c, y}
    <3>1. (T \ {c}) \ {y} = both /\ (T \ {y}) \ {c} = both
      OBVIOUS
    <3>2. T \ {c} \in F /\ T \ {y} \in F /\ y \in T \ {c} /\ c \in T \ {y}
      BY <1>1, <2>2, <2>5
    <3>3. SumFunctionOnSet(f, T \ {c}) = f[y] + SumFunctionOnSet(f, both)
      BY <3>1, <3>2
    <3>4. SumFunctionOnSet(f, T \ {y}) = f[c] + SumFunctionOnSet(f, both)
      BY <3>1, <3>2
    <3>5. SumFunctionOnSet(f, both) \in Int
      BY <2>1, FS_Subset, SumInt
    <3>6. f[c] \in Int /\ f[y] \in Int
      BY <2>2
    <3> HIDE DEF c, both
    <3> QED
      BY <2>3, <3>3, <3>4, <3>5, <3>6
  <2> QED
    BY <2>4, <2>5
<1>2. SUBSET S \subseteq F
  <2> HIDE DEF F
  <2> QED
    BY <1>1, SubsetInduction
<1> QED
  BY <1>2

\* An element that joins the set adds its own value.
LEMMA SumAdd ==
  ASSUME NEW f, NEW S, IsFiniteSet(S), NEW x, x \notin S,
         \A y \in S \cup {x} : f[y] \in Int
  PROVE  SumFunctionOnSet(f, S \cup {x}) = f[x] + SumFunctionOnSet(f, S)
<1>1. IsFiniteSet(S \cup {x}) /\ (S \cup {x}) \ {x} = S
  BY FS_AddElement
<1> QED
  BY <1>1, SumTakeOut

\* A sum depends on the values over its set only.
LEMMA SumSame ==
  ASSUME NEW f, NEW g, NEW S, IsFiniteSet(S), \A x \in S : f[x] = g[x]
  PROVE  SumFunctionOnSet(f, S) = SumFunctionOnSet(g, S)
<1> DEFINE F == {T \in SUBSET S : SumFunctionOnSet(f, T) = SumFunctionOnSet(g, T)}
<1>1. ASSUME NEW T \in SUBSET S, \A U \in SUBSET T : U # T => U \in F
      PROVE  T \in F
  <2>1. IsFiniteSet(T)
    BY FS_Subset
  <2>2. CASE T = {}
    BY <2>2, SumEmpty
  <2>3. CASE T # {}
    <3>1. First(T) \in T
      BY <2>3 DEF First
    <3>2. T \ {First(T)} \in F
      BY <1>1, <3>1
    <3> QED
      BY <2>1, <2>3, <3>1, <3>2, SumStep
  <2> QED
    BY <2>2, <2>3
<1>2. SUBSET S \subseteq F
  <2> HIDE DEF F
  <2> QED
    BY <1>1, SubsetInduction
<1> QED
  BY <1>2

\* Larger values have the larger sum.
LEMMA SumMonotone ==
  ASSUME NEW f, NEW g, NEW S, IsFiniteSet(S),
         \A x \in S : f[x] \in Int /\ g[x] \in Int /\ f[x] <= g[x]
  PROVE  SumFunctionOnSet(f, S) <= SumFunctionOnSet(g, S)
<1> DEFINE F == {T \in SUBSET S : SumFunctionOnSet(f, T) <= SumFunctionOnSet(g, T)}
<1>1. ASSUME NEW T \in SUBSET S, \A U \in SUBSET T : U # T => U \in F
      PROVE  T \in F
  <2>1. IsFiniteSet(T) /\ IsFiniteSet(T \ {First(T)})
    BY FS_Subset
  <2>2. CASE T = {}
    BY <2>2, SumEmpty
  <2>3. CASE T # {}
    <3>1. First(T) \in T
      BY <2>3 DEF First
    <3>2. T \ {First(T)} \in F
      BY <1>1, <3>1
    <3>3. SumFunctionOnSet(f, T \ {First(T)}) \in Int /\ SumFunctionOnSet(g, T \ {First(T)}) \in Int
      BY <2>1, SumInt
    <3>4. f[First(T)] \in Int /\ g[First(T)] \in Int /\ f[First(T)] <= g[First(T)]
      BY <3>1
    <3>5. /\ SumFunctionOnSet(f, T) = f[First(T)] + SumFunctionOnSet(f, T \ {First(T)})
          /\ SumFunctionOnSet(g, T) = g[First(T)] + SumFunctionOnSet(g, T \ {First(T)})
      BY <2>1, <2>3, SumStep
    <3> QED
      BY <3>2, <3>3, <3>4, <3>5
  <2> QED
    BY <2>2, <2>3
<1>2. SUBSET S \subseteq F
  <2> HIDE DEF F
  <2> QED
    BY <1>1, SubsetInduction
<1> QED
  BY <1>2

\* The sum of zeros is 0.
LEMMA SumZero ==
  ASSUME NEW f, NEW S, IsFiniteSet(S), \A x \in S : f[x] = 0
  PROVE  SumFunctionOnSet(f, S) = 0
<1> DEFINE F == {T \in SUBSET S : SumFunctionOnSet(f, T) = 0}
<1>1. ASSUME NEW T \in SUBSET S, \A U \in SUBSET T : U # T => U \in F
      PROVE  T \in F
  <2>1. IsFiniteSet(T)
    BY FS_Subset
  <2>2. CASE T = {}
    BY <2>2, SumEmpty
  <2>3. CASE T # {}
    <3>1. First(T) \in T
      BY <2>3 DEF First
    <3>2. T \ {First(T)} \in F
      BY <1>1, <3>1
    <3> QED
      BY <2>1, <2>3, <3>1, <3>2, SumStep
  <2> QED
    BY <2>2, <2>3
<1>2. SUBSET S \subseteq F
  <2> HIDE DEF F
  <2> QED
    BY <1>1, SubsetInduction
<1> QED
  BY <1>2

\* The sum of naturals is a natural.
LEMMA SumNat ==
  ASSUME NEW f, NEW S, IsFiniteSet(S), \A x \in S : f[x] \in Nat
  PROVE  SumFunctionOnSet(f, S) \in Nat
<1> DEFINE zero == [x \in S |-> 0]
<1>1. \A x \in S : zero[x] = 0 /\ zero[x] \in Int /\ f[x] \in Int /\ zero[x] <= f[x]
  OBVIOUS
<1>2. SumFunctionOnSet(zero, S) = 0 /\ SumFunctionOnSet(zero, S) <= SumFunctionOnSet(f, S)
  <2> HIDE DEF zero
  <2> QED
    BY <1>1, SumZero, SumMonotone
<1>3. SumFunctionOnSet(f, S) \in Int
  BY SumInt
<1> QED
  BY <1>2, <1>3

\* The sum over two disjoint sets is the sum of the sums.
LEMMA SumUnion ==
  ASSUME NEW f, NEW S, NEW R, IsFiniteSet(S), IsFiniteSet(R), S \cap R = {},
         \A x \in S \cup R : f[x] \in Int
  PROVE  SumFunctionOnSet(f, S \cup R) = SumFunctionOnSet(f, S) + SumFunctionOnSet(f, R)
<1> DEFINE F == {T \in SUBSET R :
                   SumFunctionOnSet(f, S \cup T) = SumFunctionOnSet(f, S) + SumFunctionOnSet(f, T)}
<1>1. ASSUME NEW T \in SUBSET R, \A U \in SUBSET T : U # T => U \in F
      PROVE  T \in F
  <2>1. IsFiniteSet(T) /\ IsFiniteSet(S \cup T)
    BY FS_Subset, FS_Union
  <2>2. SumFunctionOnSet(f, S) \in Int
    BY SumInt
  <2>3. CASE T = {}
    <3>1. S \cup T = S
      BY <2>3
    <3> QED
      BY <3>1, <2>2, <2>3, SumEmpty
  <2>4. CASE T # {}
    <3>1. PICK y : y \in T
      BY <2>4
    <3>2. T \ {y} \in F /\ (S \cup T) \ {y} = S \cup (T \ {y})
      BY <1>1, <3>1
    <3>3. SumFunctionOnSet(f, T) = f[y] + SumFunctionOnSet(f, T \ {y})
      BY <2>1, <3>1, SumTakeOut
    <3>4. SumFunctionOnSet(f, S \cup T) = f[y] + SumFunctionOnSet(f, S \cup (T \ {y}))
      <4>1. \A x \in S \cup T : f[x] \in Int
        OBVIOUS
      <4>2. y \in S \cup T
        BY <3>1
      <4> QED
        BY <2>1, <3>2, <4>1, <4>2, SumTakeOut
    <3>5. SumFunctionOnSet(f, T \ {y}) \in Int /\ f[y] \in Int
      <4>1. IsFiniteSet(T \ {y})
        BY <2>1, FS_Subset
      <4> QED
        BY <3>1, <4>1, SumInt
    <3> QED
      BY <2>2, <3>2, <3>3, <3>4, <3>5
  <2> QED
    BY <2>3, <2>4
<1>2. SUBSET R \subseteq F
  <2> HIDE DEF F
  <2> QED
    BY <1>1, SubsetInduction
<1> QED
  BY <1>2

\* Naturals over part of a set add up to no more than over the whole.
LEMMA SumSubset ==
  ASSUME NEW f, NEW S, IsFiniteSet(S), \A x \in S : f[x] \in Nat, NEW T \in SUBSET S
  PROVE  SumFunctionOnSet(f, T) <= SumFunctionOnSet(f, S)
<1>1. IsFiniteSet(T) /\ IsFiniteSet(S \ T) /\ T \cup (S \ T) = S /\ T \cap (S \ T) = {}
  BY FS_Subset
<1>2. \A x \in T \cup (S \ T) : f[x] \in Int
  OBVIOUS
<1>3. SumFunctionOnSet(f, S) = SumFunctionOnSet(f, T) + SumFunctionOnSet(f, S \ T)
  BY <1>1, <1>2, SumUnion
<1>4. SumFunctionOnSet(f, T) \in Nat /\ SumFunctionOnSet(f, S \ T) \in Nat
  BY <1>1, SumNat
<1> QED
  BY <1>3, <1>4

\* When all values but one are 0, that one is the sum.
LEMMA SumLone ==
  ASSUME NEW f, NEW S, IsFiniteSet(S), NEW k \in S, f[k] \in Int,
         \A x \in S \ {k} : f[x] = 0
  PROVE  SumFunctionOnSet(f, S) = f[k]
<1>1. \A x \in S : f[x] \in Int
  OBVIOUS
<1>2. IsFiniteSet(S \ {k})
  BY FS_Subset
<1>3. SumFunctionOnSet(f, S \ {k}) = 0
  BY <1>2, SumZero
<1>4. SumFunctionOnSet(f, S) = f[k] + SumFunctionOnSet(f, S \ {k})
  BY <1>1, SumTakeOut
<1> QED
  BY <1>3, <1>4

\* One value changes.
LEMMA SumUpdate ==
  ASSUME NEW f, NEW g, NEW S, IsFiniteSet(S), NEW k \in S,
         \A x \in S : f[x] \in Int, g[k] \in Int, \A x \in S \ {k} : g[x] = f[x]
  PROVE  SumFunctionOnSet(g, S) = SumFunctionOnSet(f, S) - f[k] + g[k]
<1>1. \A x \in S : g[x] \in Int
  OBVIOUS
<1>2. IsFiniteSet(S \ {k})
  BY FS_Subset
<1>3. SumFunctionOnSet(g, S \ {k}) = SumFunctionOnSet(f, S \ {k})
  BY <1>2, SumSame
<1>4. SumFunctionOnSet(f, S \ {k}) \in Int
  BY <1>2, SumInt
<1>5. SumFunctionOnSet(f, S) = f[k] + SumFunctionOnSet(f, S \ {k})
  BY SumTakeOut
<1>6. SumFunctionOnSet(g, S) = g[k] + SumFunctionOnSet(g, S \ {k})
  BY <1>1, SumTakeOut
<1> QED
  BY <1>3, <1>4, <1>5, <1>6

\* Two functions, one below the other, with sums the other way round are equal.
LEMMA SumSqueeze ==
  ASSUME NEW f, NEW g, NEW S, IsFiniteSet(S),
         \A x \in S : f[x] \in Int /\ g[x] \in Int /\ f[x] <= g[x],
         SumFunctionOnSet(f, S) >= SumFunctionOnSet(g, S)
  PROVE  \A x \in S : f[x] = g[x]
<1> SUFFICES ASSUME NEW k \in S PROVE f[k] = g[k]
  OBVIOUS
<1>1. IsFiniteSet(S \ {k})
  BY FS_Subset
<1>2. SumFunctionOnSet(f, S \ {k}) <= SumFunctionOnSet(g, S \ {k})
  BY <1>1, SumMonotone
<1>3. SumFunctionOnSet(f, S \ {k}) \in Int /\ SumFunctionOnSet(g, S \ {k}) \in Int
  BY <1>1, SumInt
<1>4. /\ SumFunctionOnSet(f, S) = f[k] + SumFunctionOnSet(f, S \ {k})
      /\ SumFunctionOnSet(g, S) = g[k] + SumFunctionOnSet(g, S \ {k})
  BY SumTakeOut
<1> QED
  BY <1>2, <1>3, <1>4

\* b pairs the elements of S with those of R, and f and g give both the same.
Paired(b, f, S, g, R) ==
  /\ \A x \in S : b[x] \in R /\ g[b[x]] = f[x]
  /\ \A x, y \in S : b[x] = b[y] => x = y
  /\ \A y \in R : \E x \in S : b[x] = y

\* The sum over a set is the sum over any set it is in one-to-one
\* correspondence with, value by value.
LEMMA SumReindex ==
  ASSUME NEW f, NEW g, NEW b, NEW S, NEW R,
         IsFiniteSet(S), \A x \in S : f[x] \in Int, Paired(b, f, S, g, R)
  PROVE  SumFunctionOnSet(g, R) = SumFunctionOnSet(f, S) /\ IsFiniteSet(R)
<1> USE DEF Paired
<1> DEFINE Img(T) == {b[x] : x \in T}
           F == {T \in SUBSET S : IsFiniteSet(Img(T)) /\ SumFunctionOnSet(g, Img(T)) = SumFunctionOnSet(f, T)}
<1>1. ASSUME NEW T \in SUBSET S, \A U \in SUBSET T : U # T => U \in F
      PROVE  T \in F
  <2>1. IsFiniteSet(T)
    BY FS_Subset
  <2>2. CASE T = {}
    <3>1. Img(T) = {}
      BY <2>2
    <3> QED
      BY <2>2, <3>1, SumEmpty, FS_EmptySet
  <2>3. CASE T # {}
    <3>1. PICK k : k \in T
      BY <2>3
    <3>2. T \ {k} \in F
      BY <1>1, <3>1
    <3> DEFINE less == Img(T \ {k})
    <3>3. Img(T) = less \cup {b[k]} /\ b[k] \notin less
      BY <3>1
    <3>4. \A y \in less \cup {b[k]} : g[y] \in Int
      BY <3>1
    <3>5. IsFiniteSet(less) /\ SumFunctionOnSet(g, less) = SumFunctionOnSet(f, T \ {k})
      BY <3>2
    <3>6. IsFiniteSet(less \cup {b[k]})
      <4> HIDE DEF less
      <4> QED
        BY <3>5, FS_AddElement
    <3>7. SumFunctionOnSet(g, less \cup {b[k]}) = g[b[k]] + SumFunctionOnSet(g, less)
      <4> HIDE DEF less
      <4> QED
        BY <3>3, <3>4, <3>5, SumAdd
    <3>8. SumFunctionOnSet(f, T) = f[k] + SumFunctionOnSet(f, T \ {k})
      BY <2>1, <3>1, SumTakeOut
    <3>9. g[b[k]] = f[k]
      BY <3>1
    <3>10. IsFiniteSet(Img(T)) /\ SumFunctionOnSet(g, Img(T)) = SumFunctionOnSet(f, T)
      <4> HIDE DEF less, Img
      <4> QED
        BY <3>3, <3>5, <3>6, <3>7, <3>8, <3>9
    <3> QED
      BY <3>10
  <2> QED
    BY <2>2, <2>3
<1>2. SUBSET S \subseteq F
  <2> HIDE DEF F
  <2> QED
    BY <1>1, SubsetInduction
<1>3. Img(S) = R
  OBVIOUS
<1>4. S \in F
  BY <1>2
<1> QED
  BY <1>3, <1>4

\* R are the entries S of a list f of n and, n places on, the entries T of a
\* second list g.
Behind(n, f, S, g, T, h, R) ==
  /\ n \in Nat /\ S \subseteq 1..n /\ IsFiniteSet(T) /\ T \subseteq Nat \ {0} /\ R \subseteq Int
  /\ \A i \in S : i \in R /\ h[i] = f[i] /\ f[i] \in Int
  /\ \A i \in T : n + i \in R /\ h[n + i] = g[i] /\ g[i] \in Int
  /\ \A i \in R : i \in S \/ i - n \in T

\* The sum over two lists, one behind the other.
LEMMA SumAppended ==
  ASSUME NEW n, NEW S, NEW T, NEW R, NEW f, NEW g, NEW h, Behind(n, f, S, g, T, h, R)
  PROVE  SumFunctionOnSet(h, R) = SumFunctionOnSet(f, S) + SumFunctionOnSet(g, T)
<1> DEFINE to == {n + i : i \in T}
           b  == [i \in T |-> n + i]
<1>1. IsFiniteSet(S) /\ IsFiniteSet(T) /\ n \in Nat
  <2>1. IsFiniteSet(1..n)
    BY FS_Interval DEF Behind
  <2>2. S \subseteq 1..n /\ IsFiniteSet(T) /\ n \in Nat
    BY DEF Behind
  <2> QED
    BY <2>1, <2>2, FS_Subset
<1>2. SumFunctionOnSet(h, to) = SumFunctionOnSet(g, T) /\ IsFiniteSet(to)
  <2>1. Paired(b, g, T, h, to)
    BY DEF Paired, Behind
  <2>2. \A i \in T : g[i] \in Int
    BY DEF Behind
  <2> HIDE DEF to, b
  <2> QED
    BY <1>1, <2>1, <2>2, SumReindex
<1>3. SumFunctionOnSet(h, S) = SumFunctionOnSet(f, S)
  <2>1. \A i \in S : h[i] = f[i]
    BY DEF Behind
  <2> QED
    BY <1>1, <2>1, SumSame
<1>4. S \cap to = {} /\ R = S \cup to
  <2>1. S \cap to = {} /\ S \subseteq R /\ to \subseteq R
    <3>1. ASSUME NEW i \in T PROVE n + i \notin S /\ n + i \in R
      <4>1. n + i > n /\ i \in Nat
        BY DEF Behind
      <4> QED
        BY <4>1 DEF Behind
    <3>2. S \subseteq R
      BY DEF Behind
    <3> QED
      BY <3>1, <3>2
  <2>2. ASSUME NEW i \in R, i \notin S PROVE i \in to
    <3>1. i - n \in T /\ i = n + (i - n)
      BY <1>1, <2>2 DEF Behind
    <3> QED
      BY <3>1
  <2> QED
    BY <2>1, <2>2
<1>5. \A x \in S \cup to : h[x] \in Int
  BY DEF Behind
<1>6. SumFunctionOnSet(h, S \cup to) = SumFunctionOnSet(h, S) + SumFunctionOnSet(h, to)
  <2> HIDE DEF to
  <2> QED
    BY <1>1, <1>2, <1>4, <1>5, SumUnion
<1> QED
  BY <1>2, <1>3, <1>4, <1>6
=============================================================================
