---------------------------------- MODULE Sums ----------------------------------
(***************************************************************************)
(* The laws of SumFunctionOnSet, the sum of f over a finite set S, that    *)
(* the proofs about totals rest on.                                        *)
(*                                                                         *)
(* The community module defines the sum as a recursive function of the     *)
(* subsets of S that takes away one element at a time.  When f is natural  *)
(* on S the sum is the number of elements of a set, Units(f, S), f[x] of   *)
(* them for each x: that number solves the recursion, and two solutions    *)
(* agree, because a least set on which they differ cannot exist.  The laws *)
(* of the sum are then laws of cardinality.                                *)
(***************************************************************************)
EXTENDS FiniteSetsExt, FiniteSetTheorems, WellFoundedInduction, TLAPS

Pick(s) == CHOOSE x \in s : TRUE

\* g is a solution of the recursion that defines the sums over subsets of S.
Solves(g, f, S) ==
  g = [s \in SUBSET S |-> IF s = {} THEN 0 ELSE f[Pick(s)] + g[s \ {Pick(s)}]]

UnitsOf(f, x) == {x} \X (1..f[x])
Units(f, S) == UNION {UnitsOf(f, x) : x \in S}

Natural(f, S) == \A x \in S : f[x] \in Nat

--------------------------------------------------------------------------------
LEMMA PickIsElement == ASSUME NEW s, s # {} PROVE Pick(s) \in s
  BY DEF Pick

LEMMA SumIsSolution ==
  ASSUME NEW f, NEW S
  PROVE  SumFunctionOnSet(f, S) = (CHOOSE g : Solves(g, f, S))[S]
  BY Zenon DEF SumFunctionOnSet, FoldFunctionOnSet, MapThenFoldSet, Solves, Pick

LEMMA UnitsOfCount ==
  ASSUME NEW f, NEW x, f[x] \in Nat
  PROVE  IsFiniteSet(UnitsOf(f, x)) /\ Cardinality(UnitsOf(f, x)) = f[x]
<1>1. IsFiniteSet({x}) /\ Cardinality({x}) = 1
  BY FS_Singleton
<1>2. IsFiniteSet(1..f[x]) /\ Cardinality(1..f[x]) = f[x]
  BY FS_Interval
<1> DEFINE n == Cardinality({x})
           m == Cardinality(1..f[x])
<1>3. /\ IsFiniteSet({x} \X (1..f[x]))
      /\ Cardinality({x} \X (1..f[x])) = n * m
  BY <1>1, <1>2, FS_Product, Zenon
<1>4. n = 1 /\ m = f[x] BY <1>1, <1>2
<1> HIDE DEF n, m
<1>5. n * m = f[x] BY <1>4
<1> QED BY <1>3, <1>5 DEF UnitsOf

LEMMA UnitsFinite ==
  ASSUME NEW f, NEW S, IsFiniteSet(S), Natural(f, S)
  PROVE  IsFiniteSet(Units(f, S)) /\ Cardinality(Units(f, S)) \in Nat
<1> DEFINE Parts == {UnitsOf(f, x) : x \in S}
           part == [x \in S |-> UnitsOf(f, x)]
<1>1. part \in Surjection(S, Parts)
  BY DEF Surjection
<1>2. IsFiniteSet(Parts)
  <2> HIDE DEF Parts, part
  <2> QED BY <1>1, FS_Surjection
<1>3. \A T \in Parts : IsFiniteSet(T)
  BY UnitsOfCount DEF Natural
<1>4. Units(f, S) = UNION Parts
  BY DEF Units
<1> HIDE DEF Parts
<1>5. IsFiniteSet(UNION Parts)
  BY <1>2, <1>3, FS_UNION
<1> QED BY <1>4, <1>5, FS_CardinalityType

\* The units of x and those of other elements are different ones.
LEMMA UnitsSplit ==
  ASSUME NEW f, NEW S, NEW T, S \cap T = {}
  PROVE  /\ Units(f, S \cup T) = Units(f, S) \cup Units(f, T)
         /\ Units(f, S) \cap Units(f, T) = {}
<1>1. \A u : u \in Units(f, S) <=> \E x \in S : u \in UnitsOf(f, x)
  BY DEF Units
<1>2. \A u : u \in Units(f, T) <=> \E x \in T : u \in UnitsOf(f, x)
  BY DEF Units
<1>3. \A u : u \in Units(f, S \cup T) <=> \E x \in S \cup T : u \in UnitsOf(f, x)
  BY DEF Units
<1>4. \A u, x : u \in UnitsOf(f, x) => u[1] = x
  BY DEF UnitsOf
<1>5. Units(f, S) \cap Units(f, T) = {}
  BY <1>1, <1>2, <1>4
<1>6. Units(f, S \cup T) = Units(f, S) \cup Units(f, T)
  BY <1>1, <1>2, <1>3
<1> QED BY <1>5, <1>6

LEMMA UnitsAdd ==
  ASSUME NEW f, NEW S, NEW T, S \cap T = {},
         IsFiniteSet(S), IsFiniteSet(T), Natural(f, S), Natural(f, T)
  PROVE  Cardinality(Units(f, S \cup T))
           = Cardinality(Units(f, S)) + Cardinality(Units(f, T))
<1> DEFINE A == Units(f, S)
           B == Units(f, T)
<1>1. IsFiniteSet(A) /\ IsFiniteSet(B) /\ Cardinality(A) \in Nat /\ Cardinality(B) \in Nat
  BY UnitsFinite
<1>2. A \cap B = {} /\ Units(f, S \cup T) = A \cup B
  BY UnitsSplit
<1> HIDE DEF A, B
<1>3. Cardinality(A \cup B) = Cardinality(A) + Cardinality(B) - Cardinality(A \cap B)
  BY <1>1, FS_Union
<1>4. Cardinality(A \cap B) = 0 BY <1>2, FS_EmptySet
<1>5. Cardinality(A \cup B) = Cardinality(A) + Cardinality(B)
  BY <1>1, <1>3, <1>4
<1> QED BY <1>2, <1>5 DEF A, B

LEMMA UnitsSingleton ==
  ASSUME NEW f, NEW x, f[x] \in Nat
  PROVE  Cardinality(Units(f, {x})) = f[x]
<1>1. Units(f, {x}) = UnitsOf(f, x) BY DEF Units
<1> QED BY <1>1, UnitsOfCount

LEMMA UnitsEmpty ==
  ASSUME NEW f
  PROVE  Cardinality(Units(f, {})) = 0
<1>1. Units(f, {}) = {} BY DEF Units
<1> QED BY <1>1, FS_EmptySet

--------------------------------------------------------------------------------
\* Counting units solves the recursion.
LEMMA UnitsSolve ==
  ASSUME NEW f, NEW S, IsFiniteSet(S), Natural(f, S)
  PROVE  Solves([s \in SUBSET S |-> Cardinality(Units(f, s))], f, S)
<1> DEFINE g == [s \in SUBSET S |-> Cardinality(Units(f, s))]
<1>1. ASSUME NEW s \in SUBSET S
      PROVE  g[s] = IF s = {} THEN 0 ELSE f[Pick(s)] + g[s \ {Pick(s)}]
  <2>1. CASE s = {}
    BY <2>1, UnitsEmpty
  <2>2. CASE s # {}
    <3> DEFINE x == Pick(s)
               rest == s \ {x}
    <3>1. x \in s /\ x \in S BY <2>2, PickIsElement
    <3>2. IsFiniteSet(s) BY FS_Subset
    <3>3. IsFiniteSet(rest) /\ IsFiniteSet({x})
      BY <3>2, FS_RemoveElement, FS_Singleton
    <3>4. f[x] \in Nat /\ Natural(f, rest) /\ Natural(f, {x})
      BY <3>1 DEF Natural
    <3>5. rest \cap {x} = {} /\ rest \cup {x} = s /\ rest \in SUBSET S
      BY <3>1
    <3> HIDE DEF rest, x
    <3>6. Cardinality(Units(f, rest \cup {x}))
            = Cardinality(Units(f, rest)) + Cardinality(Units(f, {x}))
      BY <3>3, <3>4, <3>5, UnitsAdd
    <3>7. Cardinality(Units(f, {x})) = f[x] BY <3>4, UnitsSingleton
    <3>8. g[s] = Cardinality(Units(f, s)) /\ g[rest] = Cardinality(Units(f, rest))
      BY <3>5
    <3>9. Cardinality(Units(f, rest)) \in Nat BY <3>3, <3>4, UnitsFinite
    <3> HIDE DEF g
    <3> DEFINE n == Cardinality(Units(f, rest))
    <3>10. g[s] = n + f[x]
      BY <3>5, <3>6, <3>7, <3>8
    <3>11. g[rest] = n /\ n \in Nat BY <3>8, <3>9
    <3> HIDE DEF n
    <3>12. g[s] = f[x] + g[rest]
      BY <3>4, <3>10, <3>11
    <3> QED BY <2>2, <3>12 DEF x, rest
  <2> QED BY <2>1, <2>2
<1> DEFINE h == [s \in SUBSET S |-> IF s = {} THEN 0 ELSE f[Pick(s)] + g[s \ {Pick(s)}]]
<1>2. DOMAIN g = SUBSET S /\ DOMAIN h = SUBSET S OBVIOUS
<1>3. \A s \in SUBSET S : h[s] = IF s = {} THEN 0 ELSE f[Pick(s)] + g[s \ {Pick(s)}]
  OBVIOUS
<1>4. g = [s \in SUBSET S |-> g[s]] /\ h = [s \in SUBSET S |-> h[s]] OBVIOUS
<1> HIDE DEF g, h
<1>5. \A s \in SUBSET S : g[s] = h[s] BY <1>1, <1>3
<1>6. g = h BY <1>4, <1>5
<1> QED BY <1>6 DEF Solves, g, h

\* Two solutions are one: on a least set where they differed they would not.
LEMMA SolutionUnique ==
  ASSUME NEW f, NEW S, IsFiniteSet(S), NEW g, NEW h, Solves(g, f, S), Solves(h, f, S)
  PROVE  g[S] = h[S]
<1> DEFINE D == {s \in SUBSET S : g[s] # h[s]}
<1>1. \A s \in SUBSET S :
        /\ g[s] = IF s = {} THEN 0 ELSE f[Pick(s)] + g[s \ {Pick(s)}]
        /\ h[s] = IF s = {} THEN 0 ELSE f[Pick(s)] + h[s \ {Pick(s)}]
  BY DEF Solves
<1>2. SUFFICES ASSUME D # {} PROVE FALSE
  OBVIOUS
<1>3. IsWellFoundedOn(StrictSubsetOrdering(S), SUBSET S)
  BY FS_StrictSubsetOrderingWellFounded, FS_FiniteSubsetsOfFinite
<1>4. D \subseteq SUBSET S OBVIOUS
<1>5. PICK s \in D : \A t \in D : ~(<<t, s>> \in StrictSubsetOrdering(S))
  <2> HIDE DEF D
  <2> QED BY <1>2, <1>3, <1>4, WFMin
<1>6. s # {} BY <1>1
<1>7. Pick(s) \in s BY <1>6, PickIsElement
<1>8. s \ {Pick(s)} \notin D
  <2> DEFINE t == s \ {Pick(s)}
  <2>1. t \in SUBSET S /\ s \in SUBSET S /\ t \subseteq s /\ t # s
    BY <1>7
  <2> HIDE DEF t, D
  <2>2. <<t, s>> \in StrictSubsetOrdering(S)
    BY <2>1 DEF StrictSubsetOrdering
  <2> QED BY <1>5, <2>2 DEF t
<1>9. g[s \ {Pick(s)}] = h[s \ {Pick(s)}] BY <1>8
<1> QED BY <1>1, <1>6, <1>9

\* The sum of f over S is the number of its units.
THEOREM SumIsUnits ==
  ASSUME NEW f, NEW S, IsFiniteSet(S), Natural(f, S)
  PROVE  SumFunctionOnSet(f, S) = Cardinality(Units(f, S))
<1> DEFINE g == [s \in SUBSET S |-> Cardinality(Units(f, s))]
           h == CHOOSE k : Solves(k, f, S)
<1>1. Solves(g, f, S) BY UnitsSolve
<1>2. g[S] = Cardinality(Units(f, S)) OBVIOUS
<1>3. Solves(h, f, S)
  <2> HIDE DEF g
  <2> QED BY <1>1, Zenon
<1>4. SumFunctionOnSet(f, S) = h[S] BY SumIsSolution
<1> HIDE DEF g, h
<1>5. g[S] = h[S] BY <1>1, <1>3, SolutionUnique
<1> QED BY <1>2, <1>4, <1>5

--------------------------------------------------------------------------------
THEOREM SumNatural ==
  ASSUME NEW f, NEW S, IsFiniteSet(S), Natural(f, S)
  PROVE  SumFunctionOnSet(f, S) \in Nat
BY SumIsUnits, UnitsFinite

THEOREM SumEmpty ==
  ASSUME NEW f
  PROVE  SumFunctionOnSet(f, {}) = 0
<1>1. IsFiniteSet({}) /\ Natural(f, {}) BY FS_EmptySet DEF Natural
<1> QED BY <1>1, SumIsUnits, UnitsEmpty

\* Functions that agree on S have one sum over it.
THEOREM SumAgrees ==
  ASSUME NEW f, NEW g, NEW S, IsFiniteSet(S), Natural(f, S), \A x \in S : f[x] = g[x]
  PROVE  SumFunctionOnSet(f, S) = SumFunctionOnSet(g, S)
<1>1. Natural(g, S) BY DEF Natural
<1>2. \A x \in S : UnitsOf(f, x) = UnitsOf(g, x) BY DEF UnitsOf
<1>3. Units(f, S) = Units(g, S) BY <1>2 DEF Units
<1> QED BY <1>1, <1>3, SumIsUnits

THEOREM SumUnion ==
  ASSUME NEW f, NEW S, NEW T, IsFiniteSet(S), IsFiniteSet(T), S \cap T = {},
         Natural(f, S), Natural(f, T)
  PROVE  SumFunctionOnSet(f, S \cup T) = SumFunctionOnSet(f, S) + SumFunctionOnSet(f, T)
<1>1. IsFiniteSet(S \cup T) /\ Natural(f, S \cup T)
  BY FS_Union DEF Natural
<1> QED BY <1>1, SumIsUnits, UnitsAdd

THEOREM SumAddElement ==
  ASSUME NEW f, NEW S, NEW x, IsFiniteSet(S), x \notin S, Natural(f, S), f[x] \in Nat
  PROVE  SumFunctionOnSet(f, S \cup {x}) = SumFunctionOnSet(f, S) + f[x]
<1>1. IsFiniteSet({x}) /\ Natural(f, {x}) BY FS_Singleton DEF Natural
<1>2. SumFunctionOnSet(f, {x}) = f[x] BY <1>1, SumIsUnits, UnitsSingleton
<1>3. S \cap {x} = {} OBVIOUS
<1>4. SumFunctionOnSet(f, S \cup {x}) = SumFunctionOnSet(f, S) + SumFunctionOnSet(f, {x})
  BY <1>1, <1>3, SumUnion
<1> QED BY <1>2, <1>4

\* More summands, no smaller sum.
THEOREM SumMonotone ==
  ASSUME NEW f, NEW T, IsFiniteSet(T), Natural(f, T), NEW S \in SUBSET T
  PROVE  SumFunctionOnSet(f, S) <= SumFunctionOnSet(f, T)
<1>1. IsFiniteSet(S) /\ Natural(f, S) BY FS_Subset DEF Natural
<1>2. Units(f, S) \subseteq Units(f, T) BY DEF Units
<1>3. IsFiniteSet(Units(f, T)) BY UnitsFinite
<1>4. Cardinality(Units(f, S)) <= Cardinality(Units(f, T)) BY <1>2, <1>3, FS_Subset
<1> QED BY <1>1, <1>4, SumIsUnits
================================================================================
