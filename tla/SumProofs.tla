----------------------------- MODULE SumProofs -----------------------------
(***************************************************************************)
(* Sums over a finite set: SumFunctionOnSet of the community modules adds  *)
(* the values up in an order it chooses.  No order makes a difference, and *)
(* a sum taken block by block is the sum.                                  *)
(***************************************************************************)
EXTENDS Functions, FiniteSets, FiniteSetTheorems, WellFoundedInduction, TLAPS

Choice(s) == CHOOSE x \in s : TRUE

\* g has the sum of f over each subset of S.
Adds(g, f, S) ==
  g = [s \in SUBSET S |-> IF s = {} THEN 0 ELSE f[Choice(s)] + g[s \ {Choice(s)}]]

\* Something that holds of no finite set has a finite set that it holds of first.
LEMMA SmallestSet ==
  ASSUME NEW S, IsFiniteSet(S), NEW Bad \in SUBSET (SUBSET S), Bad # {}
  PROVE  \E s \in Bad : \A t \in Bad : t \subseteq s => t = s
<1>1. IsWellFoundedOn(StrictSubsetOrdering(S), FiniteSubsetsOf(S))
  BY FS_StrictSubsetOrderingWellFounded
<1>2. Bad \subseteq FiniteSubsetsOf(S)
  BY FS_Subset DEF FiniteSubsetsOf
<1>3. PICK s \in Bad : \A t \in Bad : ~(<<t, s>> \in StrictSubsetOrdering(S))
  <2> DEFINE R == StrictSubsetOrdering(S)
             F == FiniteSubsetsOf(S)
  <2>1. IsWellFoundedOn(R, F) /\ Bad \subseteq F
    BY <1>1, <1>2
  <2> HIDE DEF R, F
  <2>2. \E s \in Bad : \A t \in Bad : ~(<<t, s>> \in R)
    BY <2>1, WFMin
  <2>. QED BY <2>2 DEF R
<1>. QED BY <1>3 DEF StrictSubsetOrdering

\* What the fold of the community modules says.
LEMMA SumByDefinition ==
  ASSUME NEW f, NEW S
  PROVE  SumFunctionOnSet(f, S) = (CHOOSE g : Adds(g, f, S))[S]
BY DEF SumFunctionOnSet, FoldFunctionOnSet, MapThenFoldSet, Adds, Choice


\* The element that is taken first is one.
LEMMA ChoiceIn == ASSUME NEW s, s # {} PROVE Choice(s) \in s
BY DEF Choice

\* f has an integer for every element.
Totals(f, S) == S \subseteq DOMAIN f /\ \A x \in S : f[x] \in Int

\* A finite set can be added up: first the subsets of no element, then of one more.
LEMMA SumExists ==
  ASSUME NEW S, IsFiniteSet(S), NEW f, Totals(f, S)
  PROVE  \E g \in [SUBSET S -> Int] : Adds(g, f, S)
<1> DEFINE Small(n) == {s \in SUBSET S : Cardinality(s) <= n}
           Value(g, s) == IF s = {} THEN 0 ELSE f[Choice(s)] + g[s \ {Choice(s)}]
           Found(n) == \E g \in [Small(n) -> Int] : \A s \in Small(n) : g[s] = Value(g, s)
           Bad == {s \in SUBSET S : ~Found(Cardinality(s))}
<1>1. \A s \in SUBSET S : IsFiniteSet(s) /\ Cardinality(s) \in Nat
  BY FS_Subset, FS_CardinalityType
<1>2. ASSUME NEW s \in SUBSET S, s # {}
      PROVE  /\ Choice(s) \in s /\ f[Choice(s)] \in Int
             /\ s \ {Choice(s)} \in SUBSET S
             /\ Cardinality(s \ {Choice(s)}) = Cardinality(s) - 1
  <2>1. Choice(s) \in s
    BY <1>2, ChoiceIn
  <2>. QED BY <1>1, <2>1, FS_RemoveElement DEF Totals
<1>3. Found(0)
  <2>1. \A s \in Small(0) : s = {}
    BY <1>1, FS_EmptySet
  <2>2. [s \in Small(0) |-> 0] \in [Small(0) -> Int]
    OBVIOUS
  <2>. QED BY <2>1, <2>2
<1>4. ASSUME NEW n \in Nat \ {0}, Found(n - 1) PROVE Found(n)
  <2>1. PICK g \in [Small(n - 1) -> Int] : \A s \in Small(n - 1) : g[s] = Value(g, s)
    BY <1>4
  <2> DEFINE h == [s \in Small(n) |-> Value(g, s)]
  <2>2. ASSUME NEW s \in Small(n), s # {} PROVE s \ {Choice(s)} \in Small(n - 1)
    BY <1>1, <1>2, <2>2
  <2>3. h \in [Small(n) -> Int]
    <3> SUFFICES ASSUME NEW s \in Small(n) PROVE Value(g, s) \in Int
      OBVIOUS
    <3>1. CASE s = {}
      BY <3>1
    <3>2. CASE s # {}
      <4>1. g[s \ {Choice(s)}] \in Int
        BY <2>2, <3>2
      <4>. QED BY <1>2, <3>2, <4>1
    <3>. QED BY <3>1, <3>2
  <2>4. \A s \in Small(n - 1) : s \in Small(n) /\ h[s] = g[s]
    BY <1>1, <2>1
  <2>5. \A s \in Small(n) : h[s] = Value(h, s)
    BY <2>2, <2>4
  <2> HIDE DEF h, Value, Small
  <2>. QED BY <2>3, <2>5 DEF Found
<1>5. Bad = {}
  <2> SUFFICES ASSUME Bad # {} PROVE FALSE
    OBVIOUS
  <2> HIDE DEF Found
  <2>1. PICK t \in Bad : \A u \in Bad : u \subseteq t => u = t
    <3>1. Bad \in SUBSET (SUBSET S)
      OBVIOUS
    <3> HIDE DEF Bad
    <3>. QED BY <3>1, SmallestSet
  <2>2. t \in SUBSET S /\ ~Found(Cardinality(t))
    OBVIOUS
  <2>3. t # {}
    BY <1>3, <2>2, FS_EmptySet
  <2>4. t \ {Choice(t)} \notin Bad
    BY <1>2, <2>1, <2>2, <2>3
  <2>5. Found(Cardinality(t) - 1)
    BY <1>2, <2>2, <2>3, <2>4
  <2>6. Cardinality(t) \in Nat \ {0}
    BY <1>1, <2>2, <2>3, FS_EmptySet
  <2>. QED BY <1>4, <2>2, <2>5, <2>6
<1>6. Found(Cardinality(S))
  BY <1>5
<1>7. Small(Cardinality(S)) = SUBSET S
  BY FS_Subset
<1>8. PICK g \in [SUBSET S -> Int] : \A s \in SUBSET S : g[s] = Value(g, s)
  BY <1>6, <1>7
<1>. QED BY <1>8 DEF Adds

\* What adds up agrees.
LEMMA AddersAgree ==
  ASSUME NEW S, IsFiniteSet(S), NEW T \in SUBSET S, NEW f,
         NEW g, Adds(g, f, S), NEW h, Adds(h, f, T)
  PROVE  \A s \in SUBSET T : g[s] = h[s]
<1> DEFINE Bad == {s \in SUBSET T : g[s] # h[s]}
<1> SUFFICES ASSUME Bad # {} PROVE FALSE
  OBVIOUS
<1>1. IsFiniteSet(T)
  BY FS_Subset
<1>2. PICK t \in Bad : \A u \in Bad : u \subseteq t => u = t
  <2>1. Bad \in SUBSET (SUBSET T)
    OBVIOUS
  <2> HIDE DEF Bad
  <2>. QED BY <1>1, <2>1, SmallestSet
<1>3. t \in SUBSET S /\ t \in SUBSET T /\ g[t] # h[t]
  OBVIOUS
<1>4. t # {}
  BY <1>3 DEF Adds
<1>5. t \ {Choice(t)} \notin Bad
  BY <1>2, <1>4, ChoiceIn
<1>6. g[t \ {Choice(t)}] = h[t \ {Choice(t)}]
  BY <1>3, <1>5
<1>. QED BY <1>3, <1>4, <1>6 DEF Adds

\* SumFunctionOnSet is the sum.
LEMMA SumAdds ==
  ASSUME NEW S, IsFiniteSet(S), NEW f, Totals(f, S)
  PROVE  \E g \in [SUBSET S -> Int] : Adds(g, f, S) /\ SumFunctionOnSet(f, S) = g[S]
<1> DEFINE g == CHOOSE g : Adds(g, f, S)
<1>1. Adds(g, f, S)
  BY SumExists
<1>2. PICK h \in [SUBSET S -> Int] : Adds(h, f, S)
  BY SumExists
<1>3. g \in [SUBSET S -> Int]
  <2>1. \A s \in SUBSET S : g[s] = h[s]
    <3> HIDE DEF g
    <3>. QED BY <1>1, <1>2, AddersAgree
  <2>2. g = [s \in SUBSET S |-> g[s]]
    <3>1. ASSUME NEW k, Adds(k, f, S) PROVE k = [s \in SUBSET S |-> k[s]]
      BY <3>1 DEF Adds
    <3> HIDE DEF g
    <3>. QED BY <1>1, <3>1
  <2>. QED BY <1>2, <2>1, <2>2
<1>. QED BY <1>1, <1>3, SumByDefinition

\* The sum of integers is one.
LEMMA SumType ==
  ASSUME NEW S, IsFiniteSet(S), NEW f, Totals(f, S)
  PROVE  SumFunctionOnSet(f, S) \in Int
<1>1. PICK g \in [SUBSET S -> Int] : SumFunctionOnSet(f, S) = g[S]
  BY SumAdds
<1>2. S \in SUBSET S
  OBVIOUS
<1>. QED BY <1>1, <1>2

\* Nothing adds up to nought.
LEMMA SumEmpty ==
  ASSUME NEW f PROVE SumFunctionOnSet(f, {}) = 0
<1>1. PICK g \in [SUBSET {} -> Int] : Adds(g, f, {}) /\ SumFunctionOnSet(f, {}) = g[{}]
  BY SumAdds, FS_EmptySet DEF Totals
<1>. QED BY <1>1 DEF Adds

\* The sum of a part is what the sum of the whole takes it for.
LEMMA SumChoice ==
  ASSUME NEW S, IsFiniteSet(S), NEW f, Totals(f, S), S # {}
  PROVE  SumFunctionOnSet(f, S) = f[Choice(S)] + SumFunctionOnSet(f, S \ {Choice(S)})
<1> DEFINE T == S \ {Choice(S)}
<1>1. IsFiniteSet(T) /\ T \in SUBSET S /\ Totals(f, T)
  BY FS_RemoveElement DEF Totals
<1>2. PICK g \in [SUBSET S -> Int] : Adds(g, f, S) /\ SumFunctionOnSet(f, S) = g[S]
  BY SumAdds
<1>3. PICK h \in [SUBSET T -> Int] : Adds(h, f, T) /\ SumFunctionOnSet(f, T) = h[T]
  <2> HIDE DEF T
  <2>. QED BY <1>1, SumAdds
<1>4. g[T] = h[T]
  <2> HIDE DEF T
  <2>. QED BY <1>1, <1>2, <1>3, AddersAgree
<1>5. g[S] = f[Choice(S)] + g[T]
  BY <1>2 DEF Adds
<1>. QED BY <1>2, <1>3, <1>4, <1>5

\* Any element may be taken first.
LEMMA SumRemove ==
  ASSUME NEW S, IsFiniteSet(S), NEW f, Totals(f, S), NEW x \in S
  PROVE  SumFunctionOnSet(f, S) = f[x] + SumFunctionOnSet(f, S \ {x})
<1> DEFINE Sum(s) == SumFunctionOnSet(f, s)
           Bad == {s \in SUBSET S : \E y \in s : Sum(s) # f[y] + Sum(s \ {y})}
<1>1. ASSUME NEW s \in SUBSET S
      PROVE  IsFiniteSet(s) /\ Totals(f, s) /\ Sum(s) \in Int
  <2>1. IsFiniteSet(s) /\ Totals(f, s)
    BY FS_Subset DEF Totals
  <2>. QED BY <2>1, SumType
<1>2. Bad = {}
  <2> SUFFICES ASSUME Bad # {} PROVE FALSE
    OBVIOUS
  <2>1. PICK t \in Bad : \A u \in Bad : u \subseteq t => u = t
    <3>1. Bad \in SUBSET (SUBSET S)
      OBVIOUS
    <3> HIDE DEF Bad
    <3>. QED BY <3>1, SmallestSet
  <2> HIDE DEF Sum
  <2>2. PICK y \in t : Sum(t) # f[y] + Sum(t \ {y})
    BY <2>1
  <2> DEFINE c == Choice(t)
  <2>3. t \in SUBSET S /\ c \in t
    BY <2>2, ChoiceIn
  <2>4. Sum(t) = f[c] + Sum(t \ {c})
    BY <1>1, <2>2, <2>3, SumChoice DEF Sum
  <2>5. c # y
    BY <2>2, <2>4
  <2> HIDE DEF c
  <2>6. t \ {c} \notin Bad /\ t \ {y} \notin Bad
    BY <2>1, <2>2, <2>3
  <2> DEFINE r == t \ {c, y}
  <2>7. Sum(t \ {c}) = f[y] + Sum(r) /\ Sum(t \ {y}) = f[c] + Sum(r)
    <3>1. (t \ {c}) \ {y} = r /\ (t \ {y}) \ {c} = r
      OBVIOUS
    <3>2. y \in t \ {c} /\ c \in t \ {y} /\ t \ {c} \in SUBSET S /\ t \ {y} \in SUBSET S
      BY <2>2, <2>3, <2>5
    <3> HIDE DEF r
    <3>. QED BY <2>6, <3>1, <3>2
  <2>8. f[c] \in Int /\ f[y] \in Int /\ Sum(r) \in Int
    <3>1. c \in S /\ y \in S /\ r \in SUBSET S
      BY <2>2, <2>3
    <3>. QED BY <1>1, <3>1 DEF Totals
  <2> HIDE DEF r, Bad
  <2>. QED BY <2>2, <2>4, <2>7, <2>8
<1>. QED BY <1>2

\* What is added apart is added together.
LEMMA SumUnion ==
  ASSUME NEW S, IsFiniteSet(S), NEW f, Totals(f, S), NEW A \in SUBSET S, NEW B \in SUBSET S,
         A \cap B = {}
  PROVE  SumFunctionOnSet(f, A \cup B) = SumFunctionOnSet(f, A) + SumFunctionOnSet(f, B)
<1> DEFINE Sum(s) == SumFunctionOnSet(f, s)
           Bad == {b \in SUBSET B : Sum(A \cup b) # Sum(A) + Sum(b)}
<1>1. ASSUME NEW s \in SUBSET S
      PROVE  IsFiniteSet(s) /\ Totals(f, s) /\ Sum(s) \in Int
  <2>1. IsFiniteSet(s) /\ Totals(f, s)
    BY FS_Subset DEF Totals
  <2>. QED BY <2>1, SumType
<1>2. Bad = {}
  <2> SUFFICES ASSUME Bad # {} PROVE FALSE
    OBVIOUS
  <2>1. PICK t \in Bad : \A u \in Bad : u \subseteq t => u = t
    <3>1. Bad \in SUBSET (SUBSET B) /\ IsFiniteSet(B)
      BY <1>1
    <3> HIDE DEF Bad
    <3>. QED BY <3>1, SmallestSet
  <2>2. t # {}
    <3>1. Sum({}) = 0
      BY SumEmpty
    <3>2. Sum(A) \in Int
      BY <1>1
    <3> HIDE DEF Sum
    <3>3. SUFFICES ASSUME t = {} PROVE FALSE
      OBVIOUS
    <3>4. A \cup t = A
      BY <3>3
    <3>. QED BY <2>1, <3>1, <3>2, <3>3, <3>4
  <2>3. PICK y \in t : y \in B /\ y \notin A
    BY <2>1, <2>2
  <2>4. Sum(t) = f[y] + Sum(t \ {y})
    BY <1>1, SumRemove
  <2>5. Sum(A \cup t) = f[y] + Sum((A \cup t) \ {y})
    BY <1>1, SumRemove
  <2> HIDE DEF Sum
  <2>6. (A \cup t) \ {y} = A \cup (t \ {y})
    BY <2>3
  <2>7. Sum(A \cup (t \ {y})) = Sum(A) + Sum(t \ {y})
    <3>1. t \ {y} \notin Bad
      BY <2>1, <2>3
    <3>. QED BY <3>1
  <2>8. f[y] \in Int /\ Sum(A) \in Int /\ Sum(t \ {y}) \in Int
    BY <1>1, <2>3 DEF Totals
  <2>. QED BY <2>1, <2>4, <2>5, <2>6, <2>7, <2>8
<1>. QED BY <1>2

\* The blocks of the elements, each with the sum of its own, add up to all of them.
LEMMA SumOfBlocks ==
  ASSUME NEW S, IsFiniteSet(S), NEW f, Totals(f, S), NEW block, S \subseteq DOMAIN block,
         NEW total, NEW Blocks, Blocks = {block[x] : x \in S}, Blocks \subseteq DOMAIN total,
         \A b \in Blocks : total[b] = SumFunctionOnSet(f, {x \in S : block[x] = b})
  PROVE  SumFunctionOnSet(total, Blocks) = SumFunctionOnSet(f, S)
<1> DEFINE Sum(s) == SumFunctionOnSet(f, s)
           Of(bs) == {x \in S : block[x] \in bs}
           Bad == {bs \in SUBSET Blocks : SumFunctionOnSet(total, bs) # Sum(Of(bs))}
<1>1. ASSUME NEW s \in SUBSET S
      PROVE  IsFiniteSet(s) /\ Totals(f, s) /\ Sum(s) \in Int
  <2>1. IsFiniteSet(s) /\ Totals(f, s)
    BY FS_Subset DEF Totals
  <2>. QED BY <2>1, SumType
<1>2. IsFiniteSet(Blocks)
  <2> DEFINE image == [x \in S |-> block[x]]
  <2>1. image \in Surjection(S, Blocks)
    BY DEF Surjection
  <2>. QED BY <2>1, FS_Surjection
<1>3. ASSUME NEW bs \in SUBSET Blocks
      PROVE  IsFiniteSet(bs) /\ Totals(total, bs) /\ SumFunctionOnSet(total, bs) \in Int
  <2>1. IsFiniteSet(bs)
    BY <1>2, FS_Subset
  <2>2. \A b \in bs : total[b] \in Int
    BY <1>1
  <2>. QED BY <2>1, <2>2, SumType DEF Totals
<1>4. Bad = {}
  <2> SUFFICES ASSUME Bad # {} PROVE FALSE
    OBVIOUS
  <2>1. PICK t \in Bad : \A u \in Bad : u \subseteq t => u = t
    <3>1. Bad \in SUBSET (SUBSET Blocks)
      OBVIOUS
    <3> HIDE DEF Bad
    <3>. QED BY <1>2, <3>1, SmallestSet
  <2>2. t # {}
    <3>1. Of({}) = {}
      OBVIOUS
    <3>2. SumFunctionOnSet(total, {}) = 0 /\ Sum({}) = 0
      BY SumEmpty
    <3>. QED BY <2>1, <3>1, <3>2
  <2>3. PICK b \in t : b \in Blocks
    BY <2>2
  <2>4. SumFunctionOnSet(total, t) = total[b] + SumFunctionOnSet(total, t \ {b})
    BY <1>3, SumRemove
  <2>5. total[b] = Sum(Of({b}))
    <3>1. Of({b}) = {x \in S : block[x] = b}
      OBVIOUS
    <3>. QED BY <2>3, <3>1
  <2>6. SumFunctionOnSet(total, t \ {b}) = Sum(Of(t \ {b}))
    <3>1. t \ {b} \notin Bad
      BY <2>1, <2>3
    <3>. QED BY <3>1
  <2>7. Sum(Of({b}) \cup Of(t \ {b})) = Sum(Of({b})) + Sum(Of(t \ {b}))
    <3>1. Of({b}) \in SUBSET S /\ Of(t \ {b}) \in SUBSET S /\ Of({b}) \cap Of(t \ {b}) = {}
      OBVIOUS
    <3> HIDE DEF Of
    <3>2. \A A, B \in SUBSET S : A \cap B = {} =>
            SumFunctionOnSet(f, A \cup B) = SumFunctionOnSet(f, A) + SumFunctionOnSet(f, B)
      BY SumUnion
    <3>. QED BY <3>1, <3>2
  <2>8. Of({b}) \cup Of(t \ {b}) = Of(t)
    OBVIOUS
  <2>. QED BY <2>1, <2>4, <2>5, <2>6, <2>7, <2>8
<1>5. Of(Blocks) = S
  OBVIOUS
<1>. QED BY <1>4, <1>5
=============================================================================
