-------------------------------- MODULE Sums --------------------------------
(***************************************************************************)
(* Facts about sums of naturals over a finite set, for the components that *)
(* add up sizes, charges and times with MapThenSumSet.  Its definition     *)
(* takes elements away in an order of its own.  A sum is shown to be the   *)
(* number of its units, pairs of an element and one of the numbers up to   *)
(* its value; what is needed of sums then follows from cardinalities.      *)
(***************************************************************************)
EXTENDS Integers, FiniteSets, FiniteSetTheorems, TLAPS

\* The units of the elements of S, each as many as f says.
Units(f, S) == {u \in S \X Nat : u[2] \in 1..f[u[1]]}

\* The sum of f over S.
SumOf(f, S) == Cardinality(Units(f, S))

\* g adds f up over the subsets of S the way MapThenSumSet does.
AddsUp(g, f, S) ==
    g = [s \in SUBSET S |->
           IF s = {} THEN 0 ELSE f[CHOOSE x \in s : TRUE] + g[s \ {CHOOSE x \in s : TRUE}]]

-----------------------------------------------------------------------------

\* An element has as many units as f says.
LEMMA UnitsOfOne ==
    ASSUME NEW x, NEW n \in Nat
    PROVE  IsFiniteSet({x} \X (1..n)) /\ Cardinality({x} \X (1..n)) = n
<1>1. IsFiniteSet(1..n) /\ Cardinality(1..n) = n
  BY FS_Interval
<1>2. IsFiniteSet({x}) /\ Cardinality({x}) = 1
  BY FS_Singleton
<1>3. Cardinality({x} \X (1..n)) = 1 * n
  BY <1>1, <1>2, FS_Product
<1>4. IsFiniteSet({x} \X (1..n))
  BY <1>1, <1>2, FS_Product
<1>5. QED
  BY <1>3, <1>4

\* One element more brings its own units.
LEMMA UnitsOfOneMore ==
    ASSUME NEW S, NEW f, \A e \in S : f[e] \in Nat, NEW s \in SUBSET S, NEW x \in S \ s
    PROVE  /\ Units(f, s \cup {x}) = Units(f, s) \cup ({x} \X (1..f[x]))
           /\ Units(f, s) \cap ({x} \X (1..f[x])) = {}
<1>1. ASSUME NEW u \in Units(f, s \cup {x})
      PROVE  u \in Units(f, s) \cup ({x} \X (1..f[x]))
  BY DEF Units
<1>2. ASSUME NEW u \in Units(f, s)
      PROVE  u \in Units(f, s \cup {x})
  BY DEF Units
<1>3. ASSUME NEW u \in {x} \X (1..f[x])
      PROVE  u \in Units(f, s \cup {x})
  BY DEF Units
<1>4. Units(f, s) \cap ({x} \X (1..f[x])) = {}
  BY DEF Units
<1>5. QED
  BY <1>1, <1>2, <1>3, <1>4

\* The units of a finite set are finitely many.  Otherwise there would be a least subset
\* with infinitely many, and an element of it brings only finitely many.
LEMMA UnitsFinite ==
    ASSUME NEW S, IsFiniteSet(S), NEW f, \A e \in S : f[e] \in Nat, NEW s \in SUBSET S
    PROVE  IsFiniteSet(Units(f, s))
<1> DEFINE Bad == {t \in SUBSET S : ~IsFiniteSet(Units(f, t))}
<1>1. SUFFICES ASSUME Bad # {} PROVE FALSE
  BY Zenon
<1>2. IsWellFoundedOn(StrictSubsetOrdering(S), SUBSET S)
  BY FS_StrictSubsetOrderingWellFounded, FS_FiniteSubsetsOfFinite
<1>3. PICK t \in Bad : \A r \in Bad : <<r, t>> \notin StrictSubsetOrdering(S)
  <2>1. Bad \subseteq SUBSET S
    OBVIOUS
  <2> HIDE DEF Bad
  <2>2. QED
    BY <1>1, <1>2, <2>1, WFMin, Zenon
<1>4. t # {}
  <2>1. Units(f, {}) = {}
    BY DEF Units
  <2>2. QED
    BY <2>1, FS_EmptySet
<1>5. PICK x \in t : TRUE
  BY <1>4
<1>6. IsFiniteSet(Units(f, t \ {x}))
  <2>1. t \ {x} \in SUBSET S /\ <<t \ {x}, t>> \in StrictSubsetOrdering(S)
    BY DEF StrictSubsetOrdering
  <2>2. t \ {x} \notin Bad
    BY <1>3, <2>1
  <2>3. QED
    BY <2>1, <2>2
<1>7. Units(f, (t \ {x}) \cup {x}) = Units(f, t \ {x}) \cup ({x} \X (1..f[x]))
  BY UnitsOfOneMore
<1>8. (t \ {x}) \cup {x} = t
  OBVIOUS
<1>9. IsFiniteSet(Units(f, t))
  <2>1. IsFiniteSet(Units(f, t \ {x}) \cup ({x} \X (1..f[x])))
    <3>1. f[x] \in Nat
      BY <1>5
    <3>2. IsFiniteSet({x} \X (1..f[x]))
      BY <3>1, UnitsOfOne
    <3>3. QED
      BY <1>6, <3>2, FS_Union
  <2>2. QED
    BY <1>7, <1>8, <2>1, Zenon
<1>10. QED
  BY <1>9

\* So a sum grows by the value of the new element.
LEMMA SumOfOneMore ==
    ASSUME NEW S, IsFiniteSet(S), NEW f, \A e \in S : f[e] \in Nat, NEW s \in SUBSET S, NEW x \in S \ s
    PROVE  SumOf(f, s \cup {x}) = SumOf(f, s) + f[x]
<1>0. f[x] \in Nat /\ IsFiniteSet({x} \X (1..f[x])) /\ Cardinality({x} \X (1..f[x])) = f[x]
  <2>1. f[x] \in Nat
    OBVIOUS
  <2>2. QED
    BY <2>1, UnitsOfOne
<1>1. IsFiniteSet(Units(f, s)) /\ Cardinality(Units(f, s)) \in Nat
  BY UnitsFinite, FS_CardinalityType
<1>2. Cardinality(Units(f, s \cup {x})) = Cardinality(Units(f, s)) + Cardinality({x} \X (1..f[x]))
                                          - Cardinality(Units(f, s) \cap ({x} \X (1..f[x])))
  BY <1>0, <1>1, UnitsOfOneMore, FS_Union
<1>3. Cardinality(Units(f, s) \cap ({x} \X (1..f[x]))) = 0
  BY UnitsOfOneMore, FS_EmptySet
<1>5. QED
  BY <1>0, <1>1, <1>2, <1>3 DEF SumOf

\* The sum of nothing is 0, and a sum is a natural.
LEMMA SumOfNothing ==
    ASSUME NEW f PROVE SumOf(f, {}) = 0
<1>1. Units(f, {}) = {}
  BY DEF Units
<1>2. QED
  BY <1>1, FS_EmptySet DEF SumOf

\* A sum of naturals over a part of a finite set is a natural.
LEMMA SumIsNatural ==
    ASSUME NEW S, IsFiniteSet(S), NEW f, \A e \in S : f[e] \in Nat, NEW s \in SUBSET S
    PROVE  SumOf(f, s) \in Nat
  BY UnitsFinite, FS_CardinalityType DEF SumOf

\* The sum of one value is that value.
LEMMA SumOfOne ==
    ASSUME NEW x, NEW f, f[x] \in Nat PROVE SumOf(f, {x}) = f[x]
<1>1. Units(f, {x}) = {x} \X (1..f[x])
  BY DEF Units
<1>2. Cardinality({x} \X (1..f[x])) = f[x]
  BY UnitsOfOne
<1>3. QED
  BY <1>1, <1>2, Zenon DEF SumOf

\* Whatever adds f up gets the sum of f: a least subset where it did not would be one
\* where it adds the chosen element to the right sum of the rest.
LEMMA AddedUpIsSum ==
    ASSUME NEW S, IsFiniteSet(S), NEW f, \A e \in S : f[e] \in Nat, NEW g, AddsUp(g, f, S), NEW s \in SUBSET S
    PROVE  g[s] = SumOf(f, s)
<1> DEFINE Bad == {t \in SUBSET S : g[t] # SumOf(f, t)}
<1>1. SUFFICES ASSUME Bad # {} PROVE FALSE
  BY Zenon
<1>2. IsWellFoundedOn(StrictSubsetOrdering(S), SUBSET S)
  BY FS_StrictSubsetOrderingWellFounded, FS_FiniteSubsetsOfFinite
<1>3. PICK t \in Bad : \A r \in Bad : <<r, t>> \notin StrictSubsetOrdering(S)
  <2>1. Bad \subseteq SUBSET S
    OBVIOUS
  <2> HIDE DEF Bad
  <2>2. QED
    BY <1>1, <1>2, <2>1, WFMin, Zenon
<1>4. t \in SUBSET S /\ g[t] # SumOf(f, t)
  OBVIOUS
<1>5. t # {}
  <2>1. g[{}] = 0
    BY DEF AddsUp
  <2>2. QED
    BY <1>4, <2>1, SumOfNothing
<1> DEFINE x == CHOOSE x \in t : TRUE
<1>6. x \in t
  BY <1>5
<1>7. g[t] = f[x] + g[t \ {x}]
  BY <1>4, <1>5 DEF AddsUp
<1> HIDE DEF x
<1>8. g[t \ {x}] = SumOf(f, t \ {x})
  <2>1. t \ {x} \in SUBSET S /\ <<t \ {x}, t>> \in StrictSubsetOrdering(S)
    BY <1>4, <1>6 DEF StrictSubsetOrdering
  <2>2. t \ {x} \notin Bad
    BY <1>3, <2>1
  <2>3. QED
    BY <2>1, <2>2
<1>9. SumOf(f, t) = SumOf(f, t \ {x}) + f[x]
  <2>1. (t \ {x}) \cup {x} = t /\ t \ {x} \in SUBSET S /\ x \in S \ (t \ {x})
    BY <1>4, <1>6
  <2>2. QED
    BY <2>1, SumOfOneMore
<1>10. SumOf(f, t \ {x}) \in Nat /\ f[x] \in Nat
  BY <1>4, <1>6, SumIsNatural
<1>11. QED
  BY <1>4, <1>7, <1>8, <1>9, <1>10

\* And something does add it up.
LEMMA SumAddsUp ==
    ASSUME NEW S, IsFiniteSet(S), NEW f, \A e \in S : f[e] \in Nat
    PROVE  AddsUp([s \in SUBSET S |-> SumOf(f, s)], f, S)
<1> DEFINE g == [s \in SUBSET S |-> SumOf(f, s)]
<1>1. ASSUME NEW s \in SUBSET S
      PROVE  g[s] = IF s = {} THEN 0
                    ELSE f[CHOOSE x \in s : TRUE] + g[s \ {CHOOSE x \in s : TRUE}]
  <2>1. CASE s = {}
    BY <2>1, SumOfNothing
  <2>2. CASE s # {}
    <3> DEFINE x == CHOOSE x \in s : TRUE
    <3>1. x \in s
      BY <2>2
    <3> HIDE DEF x
    <3>2. s = (s \ {x}) \cup {x} /\ x \in S \ (s \ {x}) /\ s \ {x} \in SUBSET S
      BY <3>1
    <3>3. SumOf(f, s) = SumOf(f, s \ {x}) + f[x]
      BY <3>2, SumOfOneMore
    <3>4. SumOf(f, s \ {x}) \in Nat /\ f[x] \in Nat
      BY <3>2, SumIsNatural
    <3>5. g[s] = f[x] + g[s \ {x}]
      BY <3>2, <3>3, <3>4
    <3>6. QED
      BY <2>2, <3>5 DEF x
  <2>3. QED
    BY <2>1, <2>2
<1>2. QED
  BY <1>1 DEF AddsUp

\* What MapThenSumSet takes is the sum.
THEOREM FoldIsSum ==
    ASSUME NEW S, IsFiniteSet(S), NEW f, \A e \in S : f[e] \in Nat
    PROVE  (CHOOSE g : AddsUp(g, f, S))[S] = SumOf(f, S)
<1> DEFINE g == CHOOSE h : AddsUp(h, f, S)
<1>1. AddsUp(g, f, S)
  BY SumAddsUp
<1> HIDE DEF g
<1>2. g[S] = SumOf(f, S)
  BY <1>1, AddedUpIsSum
<1>3. QED
  BY <1>2 DEF g

-----------------------------------------------------------------------------

\* A sum without one of its elements.
LEMMA SumOfRest ==
    ASSUME NEW S, IsFiniteSet(S), NEW f, \A e \in S : f[e] \in Nat, NEW s \in SUBSET S, NEW x \in s
    PROVE  SumOf(f, s) = SumOf(f, s \ {x}) + f[x]
<1>1. (s \ {x}) \cup {x} = s /\ s \ {x} \in SUBSET S /\ x \in S \ (s \ {x})
  OBVIOUS
<1>2. QED
  BY <1>1, SumOfOneMore

\* Fewer elements have no greater sum.
LEMMA SumOfFewer ==
    ASSUME NEW S, IsFiniteSet(S), NEW f, \A e \in S : f[e] \in Nat, NEW s \in SUBSET S, NEW r \in SUBSET s
    PROVE  SumOf(f, r) <= SumOf(f, s)
<1>1. Units(f, r) \subseteq Units(f, s)
  BY DEF Units
<1>2. IsFiniteSet(Units(f, s))
  BY UnitsFinite
<1>3. QED
  BY <1>1, <1>2, FS_Subset DEF SumOf

\* Two parts without a common element add up to the whole.
LEMMA SumOfTwoParts ==
    ASSUME NEW S, IsFiniteSet(S), NEW f, \A e \in S : f[e] \in Nat,
           NEW s \in SUBSET S, NEW r \in SUBSET S, s \cap r = {}
    PROVE  SumOf(f, s \cup r) = SumOf(f, s) + SumOf(f, r)
<1>1. Units(f, s \cup r) = Units(f, s) \cup Units(f, r)
  BY DEF Units
<1>2. Units(f, s) \cap Units(f, r) = {}
  BY DEF Units
<1>3. IsFiniteSet(Units(f, s)) /\ IsFiniteSet(Units(f, r))
  BY UnitsFinite
<1>4. Cardinality(Units(f, s) \cup Units(f, r))
        = Cardinality(Units(f, s)) + Cardinality(Units(f, r)) - Cardinality(Units(f, s) \cap Units(f, r))
  BY <1>3, FS_Union
<1>5. Cardinality(Units(f, s) \cap Units(f, r)) = 0
  BY <1>2, FS_EmptySet
<1>6. Cardinality(Units(f, s)) \in Nat /\ Cardinality(Units(f, r)) \in Nat
  BY <1>3, FS_CardinalityType
<1>7. Cardinality(Units(f, s) \cup Units(f, r)) = SumOf(f, s) + SumOf(f, r)
  BY <1>4, <1>5, <1>6 DEF SumOf
<1>8. QED
  BY <1>1, <1>7, Zenon DEF SumOf

\* A sum depends on the values of its elements only.
LEMMA SumOfSame ==
    ASSUME NEW s, NEW f, NEW g, \A e \in s : f[e] = g[e]
    PROVE  SumOf(f, s) = SumOf(g, s)
<1>1. Units(f, s) = Units(g, s)
  BY DEF Units
<1>2. QED
  BY <1>1 DEF SumOf

\* Greater values have no smaller sum.
LEMMA SumOfGreater ==
    ASSUME NEW S, IsFiniteSet(S), NEW f, NEW g, \A e \in S : f[e] \in Nat /\ g[e] \in Nat /\ f[e] <= g[e]
    PROVE  SumOf(f, S) <= SumOf(g, S)
<1>1. Units(f, S) \subseteq Units(g, S)
  BY DEF Units
<1>2. IsFiniteSet(Units(g, S))
  BY UnitsFinite
<1>3. QED
  BY <1>1, <1>2, FS_Subset DEF SumOf

\* The sum of zeros is 0.
LEMMA SumOfZeros ==
    ASSUME NEW S, NEW f, \A e \in S : f[e] = 0 PROVE SumOf(f, S) = 0
<1>1. Units(f, S) = {}
  BY DEF Units
<1>2. QED
  BY <1>1, FS_EmptySet DEF SumOf

\* A sum with one value taken away.
LEMMA SumOfCleared ==
    ASSUME NEW S, IsFiniteSet(S), NEW f, NEW g, \A e \in S : f[e] \in Nat, NEW x \in S,
           \A e \in S : g[e] = IF e = x THEN 0 ELSE f[e]
    PROVE  SumOf(f, S) = SumOf(g, S) + f[x]
<1>1. S \in SUBSET S /\ \A e \in S : g[e] \in Nat
  OBVIOUS
<1>2. SumOf(f, S) = SumOf(f, S \ {x}) + f[x]
  BY <1>1, SumOfRest
<1>3. SumOf(g, S) = SumOf(g, S \ {x}) + g[x]
  BY <1>1, SumOfRest
<1>4. SumOf(f, S \ {x}) = SumOf(g, S \ {x})
  <2>1. \A e \in S \ {x} : f[e] = g[e]
    OBVIOUS
  <2>2. QED
    BY <2>1, SumOfSame
<1>5. SumOf(f, S \ {x}) \in Nat
  <2>1. S \ {x} \in SUBSET S
    OBVIOUS
  <2>2. QED
    BY <2>1, SumIsNatural
<1>6. g[x] = 0 /\ f[x] \in Nat
  OBVIOUS
<1>7. QED
  BY <1>2, <1>3, <1>4, <1>5, <1>6
=============================================================================
