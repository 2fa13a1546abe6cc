------------------------------- MODULE SumLemmas -------------------------------
(***************************************************************************)
(* Sums over finite sets.  The library defines them by a fold, a recursive *)
(* function on the subsets, and its induction theorems take an operator,   *)
(* which the provers cannot instantiate; SetInduction takes a set instead. *)
(* A sum is a tally: a function on the subsets that grows by its value     *)
(* with each element, whichever element that is.                           *)
(***************************************************************************)
EXTENDS Integers, FiniteSets, FiniteSetsExt, FiniteSetTheorems, WellFoundedInduction, TLAPS

SumOf(a, S) == MapThenSumSet(LAMBDA x : a[x], S)

Chosen(s) == CHOOSE x \in s : TRUE

\* One step of the sum as the library folds it
IsFold(g, a, S) ==
    g = [s \in SUBSET S |-> IF s = {} THEN 0 ELSE a[Chosen(s)] + g[s \ {Chosen(s)}]]

LEMMA Unfold ==
    ASSUME NEW a, NEW S
    PROVE  SumOf(a, S) = (CHOOSE g : IsFold(g, a, S))[S]
BY DEF SumOf, MapThenSumSet, MapThenFoldSet, IsFold, Chosen

\* A function that sums a over each subset of S, in whatever order
Tallies(g, a, S) ==
    /\ g \in [SUBSET S -> Int] /\ g[{}] = 0
    /\ \A s \in SUBSET S : \A x \in s : g[s] = a[x] + g[s \ {x}]

LEMMA LeastOf ==
    ASSUME NEW T, T \subseteq Nat, T # {}
    PROVE  \E least \in T : \A other \in T : ~ (other < least)
<1> DEFINE less == OpToRel(<, Nat)
<1>1. IsWellFoundedOn(less, Nat)
  BY NatLessThanWellFounded
<1>2. PICK least \in T : \A other \in T : ~ (<<other, least>> \in less)
  <2> HIDE DEF less
  <2> QED BY <1>1, WFMin
<1> QED BY <1>2 DEF OpToRel

LEMMA ChosenIsIn == \A s : s # {} => Chosen(s) \in s
BY DEF Chosen

\* A family of subsets that has the empty set, and a set if it has it less any one element,
\* has the whole: a smallest one it does not have would be neither
LEMMA SetInduction ==
    ASSUME NEW S, IsFiniteSet(S), NEW F, {} \in F,
           \A s \in SUBSET S : s # {} /\ (\A y \in s : s \ {y} \in F) => s \in F
    PROVE  S \in F
<1> DEFINE Missing == {s \in SUBSET S : s \notin F}
           sizes == {Cardinality(s) : s \in Missing}
<1> SUFFICES ASSUME S \notin F PROVE FALSE
  OBVIOUS
<1>1. \A s \in SUBSET S : IsFiniteSet(s) /\ Cardinality(s) \in Nat
  BY FS_Subset, FS_CardinalityType
<1>2. sizes \subseteq Nat /\ sizes # {}
  <2>1. S \in Missing
    OBVIOUS
  <2> QED BY <1>1, <2>1
<1>3. PICK least \in sizes : \A other \in sizes : ~ (other < least)
  <2> HIDE DEF sizes
  <2> QED BY <1>2, LeastOf
<1>4. PICK s \in Missing : least = Cardinality(s)
  OBVIOUS
<1>5. ASSUME NEW y \in s PROVE s \ {y} \in F
  <2>1. s \ {y} \in SUBSET S /\ IsFiniteSet(s) /\ Cardinality(s \ {y}) = Cardinality(s) - 1
    BY <1>1, FS_RemoveElement
  <2>2. Cardinality(s \ {y}) < least /\ Cardinality(s) \in Nat
    BY <1>1, <1>4, <2>1
  <2>3. s \ {y} \notin Missing
    BY <1>3, <2>2
  <2> QED BY <2>1, <2>3
<1> QED BY <1>4, <1>5

\* One element more
LEMMA TallyExtends ==
    ASSUME NEW a, NEW S, NEW y \in S, \A x \in S : a[x] \in Int,
           NEW g, Tallies(g, a, S \ {y})
    PROVE  \E h : Tallies(h, a, S)
<1> DEFINE h == [s \in SUBSET S |-> g[s \ {y}] + (IF y \in s THEN a[y] ELSE 0)]
<1>0. \A s \in SUBSET S : s \ {y} \in SUBSET (S \ {y}) /\ g[s \ {y}] \in Int
  BY DEF Tallies
<1>1. h \in [SUBSET S -> Int]
  BY <1>0
<1>2. h[{}] = 0
  <2>1. {} \ {y} = {} /\ {} \in SUBSET S
    OBVIOUS
  <2>2. h[{}] = g[{} \ {y}] + (IF y \in {} THEN a[y] ELSE 0)
    BY <2>1
  <2>3. g[{}] = 0
    BY DEF Tallies
  <2> QED BY <2>1, <2>2, <2>3
<1>3. ASSUME NEW s \in SUBSET S, NEW x \in s
      PROVE  h[s] = a[x] + h[s \ {x}]
  <2>0. /\ s \ {x} \in SUBSET S /\ a[x] \in Int /\ a[y] \in Int
        /\ g[s \ {y}] \in Int /\ g[(s \ {x}) \ {y}] \in Int
    BY <1>0
  <2>1. h[s] = g[s \ {y}] + (IF y \in s THEN a[y] ELSE 0)
    OBVIOUS
  <2>2. h[s \ {x}] = g[(s \ {x}) \ {y}] + (IF y \in s \ {x} THEN a[y] ELSE 0)
    BY <2>0
  <2> HIDE DEF h
  <2>3. CASE x = y
    <3>1. (s \ {x}) \ {y} = s \ {y}
      BY <2>3
    <3>2. y \notin s \ {x} /\ y \in s
      BY <2>3
    <3>3. h[s] = g[s \ {y}] + a[y] /\ h[s \ {x}] = g[s \ {y}] + 0
      BY <2>1, <2>2, <3>1, <3>2
    <3> QED BY <3>3, <2>0, <2>3
  <2>4. CASE x # y
    <3>1. (s \ {x}) \ {y} = (s \ {y}) \ {x} /\ x \in s \ {y} /\ s \ {y} \in SUBSET (S \ {y})
      BY <2>4
    <3>2. g[s \ {y}] = a[x] + g[(s \ {x}) \ {y}]
      <4>1. g[s \ {y}] = a[x] + g[(s \ {y}) \ {x}]
        BY <3>1 DEF Tallies
      <4> QED BY <3>1, <4>1
    <3>3. y \in s \ {x} <=> y \in s
      BY <2>4
    <3> QED BY <2>1, <2>2, <2>0, <3>2, <3>3
  <2> QED BY <2>3, <2>4
<1> HIDE DEF h
<1> QED BY <1>1, <1>2, <1>3 DEF Tallies

\* By induction on the cardinality: the least without a tally would have one
LEMMA TallyExists ==
    ASSUME NEW a, NEW S, IsFiniteSet(S), \A x \in S : a[x] \in Int
    PROVE  \E g : Tallies(g, a, S)
<1> DEFINE F == {s \in SUBSET S : \E g : Tallies(g, a, s)}
<1>1. {} \in F
  <2>1. Tallies([t \in SUBSET {} |-> 0], a, {})
    BY DEF Tallies
  <2> QED BY <2>1
<1>2. ASSUME NEW s \in SUBSET S, s # {}, \A y \in s : s \ {y} \in F PROVE s \in F
  <2>0. PICK y \in s : TRUE
    BY <1>2
  <2>1. \E g : Tallies(g, a, s \ {y})
    BY <1>2, <2>0
  <2>2. \E h : Tallies(h, a, s)
    BY <2>1, TallyExtends
  <2> QED BY <2>2
<1> HIDE DEF F
<1>3. S \in F
  BY <1>1, <1>2, SetInduction
<1> QED BY <1>3 DEF F

\* A tally is such a fold, and it is the only one
LEMMA TallyFolds ==
    ASSUME NEW a, NEW S, NEW g, Tallies(g, a, S)
    PROVE  IsFold(g, a, S)
<1> DEFINE f == [s \in SUBSET S |-> IF s = {} THEN 0 ELSE a[Chosen(s)] + g[s \ {Chosen(s)}]]
<1>1. ASSUME NEW s \in SUBSET S PROVE g[s] = f[s]
  <2>1. CASE s = {}
    BY <2>1 DEF Tallies
  <2>2. CASE s # {}
    <3>1. g[s] = a[Chosen(s)] + g[s \ {Chosen(s)}]
      BY <2>2, ChosenIsIn DEF Tallies
    <3> QED BY <3>1, <2>2
  <2> QED BY <2>1, <2>2
<1>2. g = [s \in SUBSET S |-> g[s]]
  BY DEF Tallies
<1> QED BY <1>1, <1>2 DEF IsFold

LEMMA FoldIsUnique ==
    ASSUME NEW a, NEW S, IsFiniteSet(S), NEW g, NEW h, IsFold(g, a, S), IsFold(h, a, S)
    PROVE  g[S] = h[S]
<1> DEFINE F == {s \in SUBSET S : g[s] = h[s]}
<1>1. ASSUME NEW s \in SUBSET S
      PROVE  /\ g[s] = IF s = {} THEN 0 ELSE a[Chosen(s)] + g[s \ {Chosen(s)}]
             /\ h[s] = IF s = {} THEN 0 ELSE a[Chosen(s)] + h[s \ {Chosen(s)}]
  BY DEF IsFold
<1>2. {} \in F
  BY <1>1
<1>3. ASSUME NEW s \in SUBSET S, s # {}, \A y \in s : s \ {y} \in F PROVE s \in F
  <2>1. Chosen(s) \in s
    BY <1>3, ChosenIsIn
  <2>2. g[s \ {Chosen(s)}] = h[s \ {Chosen(s)}]
    BY <1>3, <2>1
  <2> QED BY <1>1, <1>3, <2>2
<1> HIDE DEF F
<1>4. S \in F
  BY <1>2, <1>3, SetInduction
<1> QED BY <1>4 DEF F

LEMMA SumIsTally ==
    ASSUME NEW a, NEW S, IsFiniteSet(S), NEW g, Tallies(g, a, S)
    PROVE  SumOf(a, S) = g[S]
<1> DEFINE h == CHOOSE f : IsFold(f, a, S)
<1>1. IsFold(g, a, S)
  BY TallyFolds
<1>2. IsFold(h, a, S)
  BY <1>1
<1> HIDE DEF h
<1>3. h[S] = g[S]
  BY <1>1, <1>2, FoldIsUnique
<1> QED BY <1>3, Unfold DEF h

--------------------------------------------------------------------------------
(* What a sum of integers over a finite set is *)

LEMMA SumIsInt ==
    ASSUME NEW a, NEW S, IsFiniteSet(S), \A x \in S : a[x] \in Int
    PROVE  SumOf(a, S) \in Int
<1>1. PICK g : Tallies(g, a, S)
  BY TallyExists
<1>2. g[S] \in Int
  BY <1>1 DEF Tallies
<1> QED BY <1>1, <1>2, SumIsTally

LEMMA SumOfNone ==
    ASSUME NEW a
    PROVE  SumOf(a, {}) = 0
<1>1. PICK g : Tallies(g, a, {})
  BY TallyExists, FS_EmptySet
<1>2. SumOf(a, {}) = g[{}] /\ g[{}] = 0
  BY <1>1, SumIsTally, FS_EmptySet DEF Tallies
<1> QED BY <1>2

LEMMA SumSplits ==
    ASSUME NEW a, NEW S, IsFiniteSet(S), \A x \in S : a[x] \in Int, NEW y \in S
    PROVE  SumOf(a, S) = a[y] + SumOf(a, S \ {y})
<1>1. PICK g : Tallies(g, a, S)
  BY TallyExists
<1>2. g[S] = a[y] + g[S \ {y}]
  BY <1>1 DEF Tallies
<1> DEFINE h == [s \in SUBSET (S \ {y}) |-> g[s]]
<1>3. Tallies(h, a, S \ {y})
  <2>1. h \in [SUBSET (S \ {y}) -> Int] /\ h[{}] = 0
    BY <1>1 DEF Tallies
  <2>2. ASSUME NEW s \in SUBSET (S \ {y}), NEW x \in s
        PROVE  h[s] = a[x] + h[s \ {x}]
    <3>1. g[s] = a[x] + g[s \ {x}]
      BY <1>1 DEF Tallies
    <3>2. s \ {x} \in SUBSET (S \ {y})
      OBVIOUS
    <3> QED BY <3>1, <3>2
  <2> HIDE DEF h
  <2> QED BY <2>1, <2>2 DEF Tallies
<1>4. IsFiniteSet(S \ {y}) /\ h[S \ {y}] = g[S \ {y}]
  BY FS_Subset
<1> HIDE DEF h
<1>5. SumOf(a, S) = g[S] /\ SumOf(a, S \ {y}) = h[S \ {y}]
  BY <1>1, <1>3, <1>4, SumIsTally
<1> QED BY <1>2, <1>4, <1>5

LEMMA SumAlike ==
    ASSUME NEW a, NEW b, NEW S, IsFiniteSet(S),
           \A x \in S : a[x] \in Int /\ b[x] = a[x]
    PROVE  SumOf(a, S) = SumOf(b, S)
<1>1. PICK g : Tallies(g, a, S)
  BY TallyExists
<1>2. Tallies(g, b, S)
  BY <1>1 DEF Tallies
<1> QED BY <1>1, <1>2, SumIsTally

\* Two parts of a set add up
LEMMA SumOfParts ==
    ASSUME NEW a, NEW T, IsFiniteSet(T), \A x \in T : a[x] \in Int, NEW S \in SUBSET T
    PROVE  /\ SumOf(a, T) = SumOf(a, S) + SumOf(a, T \ S)
           /\ SumOf(a, S) \in Int /\ SumOf(a, T \ S) \in Int
<1> DEFINE F == {U \in SUBSET (T \ S) : SumOf(a, S \cup U) = SumOf(a, S) + SumOf(a, U)}
<1>1. ASSUME NEW U \in SUBSET T PROVE IsFiniteSet(U) /\ SumOf(a, U) \in Int
  <2>1. IsFiniteSet(U)
    BY FS_Subset
  <2> QED BY <2>1, SumIsInt
<1>2. {} \in F
  <2>1. S \cup {} = S /\ SumOf(a, {}) = 0 /\ SumOf(a, S) \in Int
    BY <1>1, SumOfNone
  <2> QED BY <2>1
<1>3. ASSUME NEW U \in SUBSET (T \ S), U # {}, \A y \in U : U \ {y} \in F PROVE U \in F
  <2>1. PICK y \in U : TRUE
    BY <1>3
  <2>2. SumOf(a, S \cup (U \ {y})) = SumOf(a, S) + SumOf(a, U \ {y})
    BY <1>3
  <2>3. (S \cup U) \ {y} = S \cup (U \ {y}) /\ S \cup U \in SUBSET T /\ y \in S \cup U
    OBVIOUS
  <2>4. SumOf(a, S \cup U) = a[y] + SumOf(a, S \cup (U \ {y}))
    BY <1>1, <2>3, SumSplits
  <2>5. SumOf(a, U) = a[y] + SumOf(a, U \ {y})
    BY <1>1, SumSplits
  <2>6. SumOf(a, S) \in Int /\ SumOf(a, U \ {y}) \in Int /\ a[y] \in Int
    BY <1>1
  <2>7. SumOf(a, S \cup U) = SumOf(a, S) + SumOf(a, U)
    BY <2>2, <2>4, <2>5, <2>6
  <2> QED BY <2>7
<1>4. IsFiniteSet(T \ S)
  BY <1>1
<1> HIDE DEF F
<1>5. T \ S \in F
  BY <1>2, <1>3, <1>4, SetInduction
<1>6. S \cup (T \ S) = T
  OBVIOUS
<1> QED BY <1>1, <1>5, <1>6 DEF F

\* Larger values make it larger, or leave it
LEMMA SumAtMost ==
    ASSUME NEW a, NEW b, NEW S, IsFiniteSet(S),
           \A x \in S : a[x] \in Int /\ b[x] \in Int /\ b[x] <= a[x]
    PROVE  SumOf(b, S) <= SumOf(a, S)
<1> DEFINE F == {s \in SUBSET S : SumOf(b, s) <= SumOf(a, s)}
<1>1. ASSUME NEW s \in SUBSET S
      PROVE  IsFiniteSet(s) /\ SumOf(a, s) \in Int /\ SumOf(b, s) \in Int
  <2>1. IsFiniteSet(s)
    BY FS_Subset
  <2> QED BY <2>1, SumIsInt
<1>2. {} \in F
  <2>1. SumOf(a, {}) = 0 /\ SumOf(b, {}) = 0
    BY SumOfNone
  <2> QED BY <2>1
<1>3. ASSUME NEW s \in SUBSET S, s # {}, \A y \in s : s \ {y} \in F PROVE s \in F
  <2>1. PICK y \in s : TRUE
    BY <1>3
  <2>2. SumOf(b, s \ {y}) <= SumOf(a, s \ {y})
    BY <1>3
  <2>3. SumOf(a, s) = a[y] + SumOf(a, s \ {y}) /\ SumOf(b, s) = b[y] + SumOf(b, s \ {y})
    BY <1>1, SumSplits
  <2>4. SumOf(a, s \ {y}) \in Int /\ SumOf(b, s \ {y}) \in Int
    BY <1>1
  <2>5. SumOf(b, s) <= SumOf(a, s)
    BY <2>2, <2>3, <2>4
  <2> QED BY <2>5
<1> HIDE DEF F
<1>4. S \in F
  BY <1>2, <1>3, SetInduction
<1> QED BY <1>4 DEF F

\* No value is larger than p
LEMMA SumAtMostEach ==
    ASSUME NEW a, NEW S, IsFiniteSet(S), NEW p \in Nat, \A x \in S : a[x] \in Int /\ a[x] <= p
    PROVE  SumOf(a, S) <= Cardinality(S) * p
<1> DEFINE F == {s \in SUBSET S : SumOf(a, s) <= Cardinality(s) * p}
<1>1. ASSUME NEW s \in SUBSET S
      PROVE  IsFiniteSet(s) /\ SumOf(a, s) \in Int /\ Cardinality(s) \in Nat
  <2>1. IsFiniteSet(s)
    BY FS_Subset
  <2> QED BY <2>1, SumIsInt, FS_CardinalityType
<1>2. {} \in F
  <2>1. SumOf(a, {}) = 0 /\ Cardinality({}) = 0
    BY SumOfNone, FS_EmptySet
  <2> QED BY <2>1
<1>3. ASSUME NEW s \in SUBSET S, s # {}, \A y \in s : s \ {y} \in F PROVE s \in F
  <2>1. PICK y \in s : TRUE
    BY <1>3
  <2> DEFINE n == Cardinality(s)
             m == Cardinality(s \ {y})
             t == SumOf(a, s)
             r == SumOf(a, s \ {y})
  <2>2. r <= m * p
    BY <1>3
  <2>3. t = a[y] + r /\ t \in Int /\ r \in Int /\ a[y] \in Int /\ a[y] <= p
    BY <1>1, SumSplits
  <2>4. n = m + 1 /\ n \in Nat /\ m \in Nat
    BY <1>1, FS_RemoveElement
  <2> HIDE DEF n, m, t, r
  <2>5. (m + 1) * p = m * p + p /\ m * p \in Int
    BY <2>4
  <2> DEFINE z == m * p
  <2>6. r <= z /\ z \in Int /\ n * p = z + p
    BY <2>2, <2>4, <2>5
  <2> HIDE DEF z
  <2>7. t <= z + p
    BY <2>3, <2>6
  <2>8. t <= n * p
    BY <2>6, <2>7
  <2> QED BY <2>8 DEF n, t
<1> HIDE DEF F
<1>4. S \in F
  BY <1>2, <1>3, SetInduction
<1> QED BY <1>4 DEF F

LEMMA SumOfZeros ==
    ASSUME NEW a, NEW S, IsFiniteSet(S), \A x \in S : a[x] = 0
    PROVE  SumOf(a, S) = 0
<1> DEFINE g == [s \in SUBSET S |-> 0]
<1>1. Tallies(g, a, S)
  BY DEF Tallies
<1> QED BY <1>1, SumIsTally

LEMMA SumIsNatural ==
    ASSUME NEW a, NEW S, IsFiniteSet(S), \A x \in S : a[x] \in Nat
    PROVE  SumOf(a, S) \in Nat
<1> DEFINE zero == [x \in S |-> 0]
<1>1. \A x \in S : zero[x] = 0
  OBVIOUS
<1> HIDE DEF zero
<1>2. SumOf(zero, S) <= SumOf(a, S)
  BY <1>1, SumAtMost
<1>3. SumOf(zero, S) = 0
  BY <1>1, SumOfZeros
<1> QED BY <1>2, <1>3, SumIsInt

\* A part of a sum of naturals
LEMMA SumOfPart ==
    ASSUME NEW a, NEW T, IsFiniteSet(T), \A x \in T : a[x] \in Nat, NEW S \in SUBSET T
    PROVE  /\ SumOf(a, S) \in Nat /\ SumOf(a, T) \in Nat /\ SumOf(a, T \ S) \in Nat
           /\ SumOf(a, T) = SumOf(a, S) + SumOf(a, T \ S)
           /\ SumOf(a, S) <= SumOf(a, T)
<1>1. IsFiniteSet(S) /\ IsFiniteSet(T \ S)
  BY FS_Subset
<1>2. SumOf(a, S) \in Nat /\ SumOf(a, T) \in Nat /\ SumOf(a, T \ S) \in Nat
  BY <1>1, SumIsNatural
<1>3. SumOf(a, T) = SumOf(a, S) + SumOf(a, T \ S)
  BY SumOfParts
<1> QED BY <1>2, <1>3

\* Positive numbers make it larger
LEMMA SumIsPositive ==
    ASSUME NEW a, NEW S, IsFiniteSet(S), \A x \in S : a[x] \in Int /\ a[x] > 0, S # {}
    PROVE  SumOf(a, S) > 0
<1> DEFINE zero == [x \in S |-> 0]
<1>1. PICK y \in S : TRUE
  OBVIOUS
<1>2. IsFiniteSet(S \ {y})
  BY FS_Subset
<1>3. SumOf(zero, S \ {y}) <= SumOf(a, S \ {y})
  BY <1>2, SumAtMost
<1>4. SumOf(zero, S \ {y}) = 0
  BY <1>2, SumOfZeros
<1>5. SumOf(a, S) = a[y] + SumOf(a, S \ {y}) /\ SumOf(a, S \ {y}) \in Int
  BY <1>2, SumSplits, SumIsInt
<1> QED BY <1>3, <1>4, <1>5

LEMMA SumGrows ==
    ASSUME NEW a, NEW T, IsFiniteSet(T), \A x \in T : a[x] \in Int,
           NEW S \in SUBSET T, S # T, \A x \in T \ S : a[x] > 0
    PROVE  SumOf(a, S) < SumOf(a, T)
<1>1. IsFiniteSet(T \ S)
  BY FS_Subset
<1>2. SumOf(a, T \ S) > 0
  BY <1>1, SumIsPositive
<1> QED BY <1>2, SumOfParts

--------------------------------------------------------------------------------
(* The same fold over a field of each row *)

AmountsOf(rows) == [p \in DOMAIN rows |-> rows[p].amount]

LEMMA SumOfAmounts ==
    ASSUME NEW rows, NEW S \in SUBSET DOMAIN rows, IsFiniteSet(S),
           \A p \in S : rows[p].amount \in Int
    PROVE  MapThenSumSet(LAMBDA p : rows[p].amount, S) = SumOf(AmountsOf(rows), S)
<1> DEFINE a == AmountsOf(rows)
           IsFoldOfRows(g) ==
             g = [s \in SUBSET S |->
                   IF s = {} THEN 0 ELSE rows[Chosen(s)].amount + g[s \ {Chosen(s)}]]
           h == CHOOSE g : IsFoldOfRows(g)
<1>1. MapThenSumSet(LAMBDA p : rows[p].amount, S) = h[S]
  BY DEF MapThenSumSet, MapThenFoldSet, Chosen
<1>2. \A p \in S : a[p] = rows[p].amount /\ a[p] \in Int
  BY DEF AmountsOf
<1>3. PICK g : Tallies(g, a, S)
  <2> HIDE DEF a
  <2> QED BY <1>2, TallyExists
<1> HIDE DEF a
<1>4. ASSUME NEW f, IsFold(f, a, S) PROVE IsFoldOfRows(f)
  <2>1. \A s \in SUBSET S : s # {} => a[Chosen(s)] = rows[Chosen(s)].amount
    BY <1>2, ChosenIsIn
  <2> QED BY <1>4, <2>1 DEF IsFold
<1>5. ASSUME NEW f, IsFoldOfRows(f) PROVE IsFold(f, a, S)
  <2>1. \A s \in SUBSET S : s # {} => a[Chosen(s)] = rows[Chosen(s)].amount
    BY <1>2, ChosenIsIn
  <2> QED BY <1>5, <2>1 DEF IsFold
<1>6. IsFold(g, a, S)
  BY <1>3, TallyFolds
<1>7. IsFoldOfRows(g)
  BY <1>4, <1>6
<1>8. IsFoldOfRows(h)
  <2> HIDE DEF IsFoldOfRows
  <2> QED BY <1>7
<1> HIDE DEF h
<1>9. IsFold(h, a, S)
  BY <1>5, <1>8
<1>10. h[S] = g[S]
  BY <1>6, <1>9, FoldIsUnique
<1> QED BY <1>1, <1>3, <1>10, SumIsTally DEF a

================================================================================
