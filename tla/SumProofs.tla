------------------------------- MODULE SumProofs -----------------------------
(***************************************************************************)
(* What the proofs need of SumFunction (Functions) and of the length of a  *)
(* counted list: the sum of the values of a function over a finite set     *)
(* counts the units of these values.                                       *)
(***************************************************************************)
EXTENDS CountedLists, FiniteSetTheorems, TLAPS

(* SumFunction takes the elements of a set in the order CHOOSE gives them. *)
Chosen(s) == CHOOSE x \in s : TRUE

IsPartialSum(g, f, S) ==
    g = [s \in SUBSET S |->
            IF s = {} THEN 0 ELSE f[Chosen(s)] + g[s \ {Chosen(s)}]]

(* The recursive function behind it.                                       *)
LEMMA SumUnfolds ==
    ASSUME NEW f, NEW S
    PROVE  SumFunctionOnSet(f, S) = (CHOOSE g : IsPartialSum(g, f, S))[S]
BY DEF SumFunctionOnSet, FoldFunctionOnSet, MapThenFoldSet,
       IsPartialSum, Chosen

(* f[x] pairs for every x in s.                                            *)
Units(f, s) == UNION {{x} \X (1..f[x]) : x \in s}

(* They are finite, and an element accounts for as many as its value.     *)
LEMMA UnitsAdd ==
    ASSUME NEW f, NEW s, IsFiniteSet(s), \A x \in s : f[x] \in Nat
    PROVE  /\ IsFiniteSet(Units(f, s))
           /\ \A x \in s : Cardinality(Units(f, s)) =
                               f[x] + Cardinality(Units(f, s \ {x}))
<1>1. ASSUME NEW x \in s
      PROVE  /\ IsFiniteSet({x} \X (1..f[x]))
             /\ Cardinality({x} \X (1..f[x])) = f[x]
  <2>1. /\ IsFiniteSet(1..f[x]) /\ Cardinality(1..f[x]) = f[x]
    BY FS_Interval
  <2>2. /\ IsFiniteSet({x}) /\ Cardinality({x}) = 1
    BY FS_Singleton
  <2>3. /\ IsFiniteSet({x} \X (1..f[x]))
        /\ Cardinality({x} \X (1..f[x])) = Cardinality({x}) * Cardinality(1..f[x])
    BY <2>1, <2>2, FS_Product
  <2>4. 1 * f[x] = f[x]
    OBVIOUS
  <2> QED BY <2>1, <2>2, <2>3, <2>4
<1>2. ASSUME NEW t \in SUBSET s PROVE IsFiniteSet(Units(f, t))
  <2>1. IsFiniteSet(t)
    BY FS_Subset
  <2>2. IsFiniteSet({{x} \X (1..f[x]) : x \in t})
    <3> DEFINE h == [x \in t |-> {x} \X (1..f[x])]
    <3>1. h \in Surjection(t, {{x} \X (1..f[x]) : x \in t})
      BY DEF Surjection
    <3> QED BY <2>1, <3>1, FS_Surjection
  <2> QED BY <1>1, <2>2, FS_UNION DEF Units
<1>3. ASSUME NEW x \in s
      PROVE  Cardinality(Units(f, s)) = f[x] + Cardinality(Units(f, s \ {x}))
  <2>1. Units(f, s) = Units(f, s \ {x}) \cup ({x} \X (1..f[x]))
    BY DEF Units
  <2>2. Units(f, s \ {x}) \cap ({x} \X (1..f[x])) = {}
    BY DEF Units
  <2>3. IsFiniteSet(Units(f, s \ {x}))
    BY <1>2
  <2> DEFINE A == Units(f, s \ {x})
             B == {x} \X (1..f[x])
  <2>4. IsFiniteSet(A) /\ IsFiniteSet(B) /\ Cardinality(B) = f[x]
    BY <1>1, <2>3
  <2>5. A \cap B = {} /\ Units(f, s) = A \cup B
    BY <2>1, <2>2
  <2> HIDE DEF A, B
  <2>6. Cardinality(A \cup B) = Cardinality(A) + Cardinality(B)
    <3>1. Cardinality(A \cup B) =
              Cardinality(A) + Cardinality(B) - Cardinality(A \cap B)
      BY <2>4, FS_Union
    <3>2. Cardinality(A \cap B) = 0
      BY <2>5, FS_EmptySet
    <3>3. Cardinality(A) \in Nat /\ Cardinality(B) \in Nat
      BY <2>4, FS_CardinalityType
    <3> QED BY <3>1, <3>2, <3>3
  <2>7. Cardinality(A) \in Nat
    BY <2>4, FS_CardinalityType
  <2>8. Cardinality(Units(f, s)) = f[x] + Cardinality(A)
    BY <2>4, <2>5, <2>6, <2>7
  <2> QED BY <2>8 DEF A
<1> QED BY <1>2, <1>3

(* The recursion has one solution on a finite set, the count of units.     *)
LEMMA SumOnSetCounts ==
    ASSUME NEW f, NEW S, IsFiniteSet(S), \A x \in S : f[x] \in Nat
    PROVE  SumFunctionOnSet(f, S) = Cardinality(Units(f, S))
<1> DEFINE w == [s \in SUBSET S |-> Cardinality(Units(f, s))]
           g == CHOOSE h : IsPartialSum(h, f, S)
<1>1. \A s \in SUBSET S : s # {} => Chosen(s) \in s
  BY DEF Chosen
<1>2. \A s \in SUBSET S :
          w[s] = IF s = {} THEN 0 ELSE f[Chosen(s)] + w[s \ {Chosen(s)}]
  <2> TAKE s \in SUBSET S
  <2>1. CASE s = {}
    <3>1. Units(f, s) = {}
      BY <2>1 DEF Units
    <3> QED BY <2>1, <3>1, FS_EmptySet
  <2>2. CASE s # {}
    <3>1. PICK x : x = Chosen(s)
      OBVIOUS
    <3>2. x \in s /\ IsFiniteSet(s)
      BY <1>1, <2>2, <3>1, FS_Subset
    <3>3. Cardinality(Units(f, s)) = f[x] + Cardinality(Units(f, s \ {x}))
      BY <3>2, UnitsAdd
    <3> QED BY <2>2, <3>1, <3>3
  <2> QED BY <2>1, <2>2
<1>3. IsPartialSum(w, f, S)
  <2> DEFINE v == [s \in SUBSET S |-> IF s = {} THEN 0
                      ELSE f[Chosen(s)] + w[s \ {Chosen(s)}]]
  <2>1. \A s \in SUBSET S : w[s] = v[s]
    BY <1>2
  <2>2. w = v
    <3>1. w = [s \in SUBSET S |-> w[s]] /\ v = [s \in SUBSET S |-> v[s]]
      OBVIOUS
    <3> HIDE DEF w, v
    <3> QED BY <2>1, <3>1
  <2> HIDE DEF w
  <2> QED BY <2>2 DEF IsPartialSum
<1>4. IsPartialSum(g, f, S)
  BY <1>3
<1> HIDE DEF w, g
<1>5. \A s \in SUBSET S : 
          g[s] = IF s = {} THEN 0 ELSE f[Chosen(s)] + g[s \ {Chosen(s)}]
  BY <1>4 DEF IsPartialSum
<1>6. ASSUME NEW s0 \in SUBSET S, g[s0] # w[s0] PROVE FALSE
  <2> DEFINE T == {s \in SUBSET S : g[s] # w[s]}
             R == StrictSubsetOrdering(S)
  <2>1. IsWellFoundedOn(R, SUBSET S)
    BY FS_StrictSubsetOrderingWellFounded, FS_FiniteSubsetsOfFinite
  <2>2. T \subseteq SUBSET S /\ T # {}
    BY <1>6
  <2> HIDE DEF T, R
  <2>3. PICK s \in T : \A r \in T : ~(<<r, s>> \in R)
    BY <2>1, <2>2, WFMin
  <2> USE DEF T, R
  <2>4. s \in SUBSET S /\ g[s] # w[s]
    OBVIOUS
  <2>5. s # {}
    BY <1>2, <1>5, <2>4
  <2>6. PICK x : x = Chosen(s) /\ x \in s
    BY <1>1, <2>4, <2>5
  <2>7. <<s \ {x}, s>> \in R
    BY <2>4, <2>6 DEF StrictSubsetOrdering
  <2>8. g[s \ {x}] = w[s \ {x}]
    BY <2>3, <2>4, <2>7
  <2> QED BY <1>2, <1>5, <2>4, <2>5, <2>6, <2>8
<1>7. g[S] = w[S]
  BY <1>6
<1> QED BY <1>7, SumUnfolds DEF w, g

-----------------------------------------------------------------------------
(* Counted lists                                                           *)

LEMMA NoneIsCounts ==
    ASSUME NEW S
    PROVE  NoneOf(S) \in Counts(S)
BY DEF NoneOf, Counts

LEMMA PushedCounts ==
    ASSUME NEW S, NEW f \in Counts(S), NEW x \in S
    PROVE  /\ Pushed(f, x) \in Counts(S)
           /\ Pushed(f, x)[x] = f[x] + 1
           /\ \A y \in S \ {x} : Pushed(f, x)[y] = f[y]
BY DEF Pushed, Counts

(* The length counts the entries.                                          *)
LEMMA TotalCounts ==
    ASSUME NEW S, IsFiniteSet(S), NEW f \in Counts(S)
    PROVE  /\ IsFiniteSet(Units(f, S))
           /\ Total(f) = Cardinality(Units(f, S))
           /\ Total(f) \in Nat
<1> DEFINE P == {x \in DOMAIN f : f[x] > 0}
<1>1. DOMAIN f = S /\ \A x \in S : f[x] \in Nat
  BY DEF Counts
<1>2. IsFiniteSet(P) /\ \A x \in P : f[x] \in Nat
  BY <1>1, FS_Subset
<1>3. Units(f, P) = Units(f, S)
  <2>1. \A x \in S \ P : 1..f[x] = {}
    BY <1>1
  <2> QED BY <1>1, <2>1 DEF Units
<1>4. Total(f) = SumFunctionOnSet(f, P)
  BY DEF Total
<1> HIDE DEF P
<1>5. Total(f) = Cardinality(Units(f, P))
  BY <1>2, <1>4, SumOnSetCounts
<1>6. IsFiniteSet(Units(f, S))
  BY <1>1, UnitsAdd
<1> QED BY <1>3, <1>5, <1>6, FS_CardinalityType

(* A list that holds nothing is empty.                                     *)
LEMMA TotalOfNone ==
    ASSUME NEW S, IsFiniteSet(S), NEW f \in Counts(S), \A x \in S : f[x] = 0
    PROVE  Total(f) = 0
<1>1. Units(f, S) = {}
  BY DEF Units
<1> QED BY <1>1, TotalCounts, FS_EmptySet

(* A list that holds each value no more often is no longer.                *)
LEMMA TotalMonotone ==
    ASSUME NEW S, IsFiniteSet(S), NEW f \in Counts(S), NEW g \in Counts(S),
           \A x \in S : f[x] <= g[x]
    PROVE  Total(f) <= Total(g)
<1>1. Units(f, S) \subseteq Units(g, S)
  BY DEF Units, Counts
<1>2. IsFiniteSet(Units(g, S))
  BY TotalCounts
<1>3. Cardinality(Units(f, S)) <= Cardinality(Units(g, S))
  BY <1>1, <1>2, FS_Subset
<1> QED BY <1>3, TotalCounts

(* A push makes it longer by one.                                          *)
LEMMA TotalPushed ==
    ASSUME NEW S, IsFiniteSet(S), NEW f \in Counts(S), NEW x \in S
    PROVE  Total(Pushed(f, x)) = Total(f) + 1
<1> DEFINE g == Pushed(f, x)
           C == Units(f, S \ {x})
<1>1. g \in Counts(S) /\ g[x] = f[x] + 1 /\ \A y \in S \ {x} : g[y] = f[y]
  BY PushedCounts
<1>2. /\ \A y \in S : f[y] \in Nat
      /\ \A y \in S : g[y] \in Nat
  BY <1>1 DEF Counts
<1> HIDE DEF g
<1>3. Units(g, S \ {x}) = C
  BY <1>1 DEF Units
<1>4. /\ Cardinality(Units(f, S)) = f[x] + Cardinality(C)
      /\ Cardinality(Units(g, S)) = g[x] + Cardinality(C)
  BY <1>2, <1>3, UnitsAdd
<1>5. Cardinality(C) \in Nat
  <2>1. IsFiniteSet(S \ {x})
    BY FS_Subset
  <2> QED BY <1>2, <2>1, UnitsAdd, FS_CardinalityType
<1>6. Total(g) = Total(f) + 1
  BY <1>1, <1>2, <1>4, <1>5, TotalCounts
<1> QED BY <1>6 DEF g
=============================================================================
