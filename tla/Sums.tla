-------------------------------- MODULE Sums --------------------------------
(***************************************************************************)
(* Facts about the sum of a function's values (SumFunction) and about      *)
(* induction, for the proof modules.                                       *)
(*                                                                         *)
(* A sum of naturals is a number of units, one for each of what a value    *)
(* counts; that finite sets have sizes is then all that is needed of them. *)
(***************************************************************************)
EXTENDS Functions, FiniteSetTheorems, WellFoundedInduction, TLAPS

\* One pair for every unit of every value of f on the set T.
Units(f, T) == {u \in T \X Nat : 1 <= u[2] /\ u[2] <= f[u[1]]}

\* What the fold of a sum looks up, for each part of the domain.
SumsOf(f) ==
  CHOOSE iter : iter = [s \in SUBSET DOMAIN f |->
    IF s = {} THEN 0
    ELSE LET x == CHOOSE x \in s : TRUE IN f[x] + iter[s \ {x}]]

\* The sum is that fold over the whole domain.
LEMMA SumIsFold == ASSUME NEW f PROVE SumFunction(f) = SumsOf(f)[DOMAIN f]
BY DEF SumFunction, SumFunctionOnSet, FoldFunctionOnSet, MapThenFoldSet, SumsOf

\* There are n numbers from 1 to n.
LEMMA CountTo ==
  ASSUME NEW n \in Nat
  PROVE  IsFiniteSet(1 .. n) /\ Cardinality(1 .. n) = n
<1>1. /\ IsFiniteSet(1 .. n)
      /\ Cardinality(1 .. n) = IF 1 > n THEN 0 ELSE n - 1 + 1
  BY FS_Interval
<1>2. (IF 1 > n THEN 0 ELSE n - 1 + 1) = n
  OBVIOUS
<1>3. QED
  BY <1>1, <1>2

\* One element more brings its own units.
LEMMA UnitsOfOneMore ==
  ASSUME NEW f, NEW T, IsFiniteSet(T), NEW x, x \notin T, f[x] \in Nat,
         IsFiniteSet(Units(f, T))
  PROVE  /\ IsFiniteSet(Units(f, T \cup {x}))
         /\ Cardinality(Units(f, T \cup {x})) = f[x] + Cardinality(Units(f, T))
<1> DEFINE own == {x} \X (1 .. f[x])
<1>1. /\ IsFiniteSet(1 .. f[x]) /\ Cardinality(1 .. f[x]) = f[x]
      /\ IsFiniteSet({x}) /\ Cardinality({x}) = 1
  BY CountTo, FS_Singleton
<1>2. IsFiniteSet(own) /\ Cardinality(own) = f[x]
  <2>1. IsFiniteSet(own) /\ Cardinality(own) = Cardinality({x}) * Cardinality(1 .. f[x])
    BY <1>1, FS_Product
  <2> HIDE DEF own
  <2>2. QED
    BY <1>1, <2>1
<1>3. Units(f, T \cup {x}) = Units(f, T) \cup own
  BY DEF Units
<1>4. Units(f, T) \cap own = {}
  BY DEF Units
<1> HIDE DEF own
<1>5. /\ IsFiniteSet(Units(f, T) \cup own)
      /\ Cardinality(Units(f, T) \cup own)
           = Cardinality(Units(f, T)) + Cardinality(own) - Cardinality(Units(f, T) \cap own)
  BY <1>2, FS_Union
<1>6. Cardinality(Units(f, T) \cap own) = 0 /\ Cardinality(Units(f, T)) \in Nat
  BY <1>4, FS_EmptySet, FS_CardinalityType
<1>7. Cardinality(Units(f, T) \cup own) = f[x] + Cardinality(Units(f, T))
  <2> DEFINE m == Cardinality(Units(f, T))
             n == Cardinality(Units(f, T) \cup own)
  <2>1. n = m + Cardinality(own) - Cardinality(Units(f, T) \cap own)
    BY <1>5
  <2>2. n = m + f[x] - 0 /\ m \in Nat
    BY <1>2, <1>6, <2>1
  <2> HIDE DEF m, n
  <2>3. n = f[x] + m
    BY <2>2
  <2>4. QED
    BY <2>3 DEF m, n
<1>8. QED
  BY <1>3, <1>5, <1>7

-----------------------------------------------------------------------------
(***************************************************************************)
(* Induction over the subsets of a finite set and over numbers, by a       *)
(* smallest counterexample.                                                *)
(***************************************************************************)

\* Of some subsets of a finite set, one contains no other.
LEMMA SmallestSubset ==
  ASSUME NEW S, IsFiniteSet(S), NEW Bad \in SUBSET SUBSET S, Bad # {}
  PROVE  \E T \in Bad : \A U \in Bad : U \subseteq T => U = T
<1>1. IsWellFoundedOn(StrictSubsetOrdering(S), FiniteSubsetsOf(S))
  BY FS_StrictSubsetOrderingWellFounded
<1>2. FiniteSubsetsOf(S) = SUBSET S
  BY FS_FiniteSubsetsOfFinite
<1>3. Bad \subseteq SUBSET S /\ IsWellFoundedOn(StrictSubsetOrdering(S), SUBSET S)
  BY <1>1, <1>2
<1>4. \E T \in Bad : \A U \in Bad : <<U, T>> \notin StrictSubsetOrdering(S)
  BY <1>3, WFMin
<1>5. \A T, U \in Bad : U \subseteq T /\ U # T => <<U, T>> \in StrictSubsetOrdering(S)
  BY DEF StrictSubsetOrdering
<1>6. QED
  BY <1>4, <1>5

\* What holds of nothing, and of one element more, holds of the whole.
LEMMA SubsetInduction ==
  ASSUME NEW S, IsFiniteSet(S), NEW Good, {} \in Good,
         \A T \in SUBSET S : \A x \in T : T \ {x} \in Good => T \in Good
  PROVE  \A T \in SUBSET S : T \in Good
<1> DEFINE Bad == {T \in SUBSET S : T \notin Good}
<1>1. SUFFICES ASSUME Bad # {} PROVE FALSE
  OBVIOUS
<1>2. PICK T \in Bad : \A U \in Bad : U \subseteq T => U = T
  <2>1. Bad \in SUBSET SUBSET S
    OBVIOUS
  <2> HIDE DEF Bad
  <2>2. QED
    BY <1>1, <2>1, SmallestSubset
<1>3. PICK x \in T : TRUE
  BY <1>2
<1>4. T \ {x} \in SUBSET S /\ T \ {x} # T /\ T \ {x} \subseteq T
  BY <1>2, <1>3
<1>5. T \ {x} \in Good
  BY <1>2, <1>4
<1>6. QED
  BY <1>2, <1>3, <1>5

\* What holds of 0, and of each next number, holds of all.
LEMMA NumberInduction ==
  ASSUME NEW Good, 0 \in Good, \A n \in Nat : n \in Good => n + 1 \in Good
  PROVE  \A n \in Nat : n \in Good
<1> DEFINE Bad == {n \in Nat : n \notin Good}
           Less == {p \in Nat \X Nat : p[1] < p[2]}
<1>1. SUFFICES ASSUME Bad # {} PROVE FALSE
  OBVIOUS
<1>2. IsWellFoundedOn(Less, Nat)
  BY NatLessThanWellFounded DEF OpToRel
<1>3. Bad \subseteq Nat
  OBVIOUS
<1>4. PICK n \in Bad : \A m \in Bad : <<m, n>> \notin Less
  <2> HIDE DEF Bad, Less
  <2>1. QED
    BY <1>1, <1>2, <1>3, WFMin
<1>5. n \in Nat \ {0} /\ n - 1 \in Nat /\ n - 1 < n /\ (n - 1) + 1 = n
  OBVIOUS
<1>6. n - 1 \notin Bad
  BY <1>4, <1>5
<1>7. QED
  BY <1>5, <1>6

-----------------------------------------------------------------------------
(***************************************************************************)
(* Sums.                                                                   *)
(***************************************************************************)

\* The units of a function with finitely many values are finitely many.
LEMMA UnitsFinite ==
  ASSUME NEW f, IsFiniteSet(DOMAIN f), \A x \in DOMAIN f : f[x] \in Nat
  PROVE  \A T \in SUBSET DOMAIN f : IsFiniteSet(T) /\ IsFiniteSet(Units(f, T))
<1> DEFINE Good == {T \in SUBSET DOMAIN f : IsFiniteSet(Units(f, T))}
<1>1. {} \in Good
  <2>1. Units(f, {}) = {}
    BY DEF Units
  <2>2. QED
    BY <2>1, FS_EmptySet
<1>2. \A T \in SUBSET DOMAIN f : IsFiniteSet(T)
  BY FS_Subset
<1>3. ASSUME NEW T \in SUBSET DOMAIN f, NEW x \in T, T \ {x} \in Good PROVE T \in Good
  <2>1. IsFiniteSet(T \ {x}) /\ x \notin T \ {x} /\ f[x] \in Nat /\ T = (T \ {x}) \cup {x}
    BY <1>2, <1>3
  <2>2. IsFiniteSet(Units(f, T \ {x}))
    BY <1>3
  <2>3. IsFiniteSet(Units(f, (T \ {x}) \cup {x}))
    BY <2>1, <2>2, UnitsOfOneMore
  <2>4. QED
    BY <2>1, <2>3
<1>4. \A T \in SUBSET DOMAIN f : T \in Good
  <2> HIDE DEF Good
  <2>1. QED
    BY <1>1, <1>3, SubsetInduction
<1>5. QED
  BY <1>2, <1>4

\* The fold of a sum counts the units.
THEOREM SumCountsUnits ==
  ASSUME NEW f, IsFiniteSet(DOMAIN f), \A x \in DOMAIN f : f[x] \in Nat
  PROVE  SumFunction(f) = Cardinality(Units(f, DOMAIN f))
<1> DEFINE S == SUBSET DOMAIN f
           Step(iter, s) == IF s = {} THEN 0
                            ELSE LET x == CHOOSE x \in s : TRUE IN f[x] + iter[s \ {x}]
           count == [s \in S |-> Cardinality(Units(f, s))]
<1>1. ASSUME NEW s \in S, s # {}
      PROVE  LET x == CHOOSE x \in s : TRUE
             IN  x \in s /\ s \ {x} \in S /\ count[s] = f[x] + count[s \ {x}]
  <2> DEFINE x == CHOOSE x \in s : TRUE
  <2>1. x \in s
    BY <1>1
  <2> HIDE DEF x
  <2>2. /\ s \ {x} \in S /\ x \notin s \ {x} /\ f[x] \in Nat /\ s = (s \ {x}) \cup {x}
        /\ IsFiniteSet(s \ {x}) /\ IsFiniteSet(Units(f, s \ {x}))
    BY <2>1, UnitsFinite
  <2>3. Cardinality(Units(f, (s \ {x}) \cup {x})) = f[x] + Cardinality(Units(f, s \ {x}))
    BY <2>2, UnitsOfOneMore
  <2>4. count[s] = f[x] + count[s \ {x}]
    BY <2>2, <2>3
  <2>5. QED
    BY <2>1, <2>2, <2>4 DEF x
<1>2. count[{}] = 0
  <2>1. Units(f, {}) = {} /\ {} \in S
    BY DEF Units
  <2>2. QED
    BY <2>1, FS_EmptySet
<1>3. count = [s \in S |-> Step(count, s)]
  <2>1. \A s \in S : count[s] = Step(count, s)
    BY <1>1, <1>2
  <2>2. count = [s \in S |-> count[s]]
    OBVIOUS
  <2> HIDE DEF count, Step, S
  <2>3. QED
    BY <2>1, <2>2
<1>4. SumsOf(f) = [s \in S |-> Step(SumsOf(f), s)]
  <2>1. SumsOf(f) = CHOOSE iter : iter = [s \in S |-> Step(iter, s)]
    BY DEF SumsOf
  <2>2. \E iter : iter = [s \in S |-> Step(iter, s)]
    BY <1>3
  <2> HIDE DEF Step, S
  <2>3. QED
    BY <2>1, <2>2
<1>5. \A s \in S : SumsOf(f)[s] = count[s]
  <2> DEFINE Good == {s \in S : SumsOf(f)[s] = count[s]}
  <2>1. {} \in Good
    BY <1>2, <1>4
  <2>2. ASSUME NEW s \in S, s # {}, \A x \in s : s \ {x} \in Good PROVE s \in Good
    <3> DEFINE x == CHOOSE x \in s : TRUE
    <3>1. x \in s /\ s \ {x} \in S /\ count[s] = f[x] + count[s \ {x}]
      BY <1>1, <2>2
    <3>2. SumsOf(f)[s] = f[x] + SumsOf(f)[s \ {x}]
      BY <1>4, <2>2
    <3> HIDE DEF x, count
    <3>3. QED
      BY <2>2, <3>1, <3>2
  <2>3. QED
    <3> DEFINE Bad == {s \in S : s \notin Good}
    <3>1. SUFFICES ASSUME Bad # {} PROVE FALSE
      OBVIOUS
    <3> HIDE DEF Good
    <3>2. PICK s \in Bad : \A t \in Bad : t \subseteq s => t = s
      <4>1. Bad \in SUBSET SUBSET DOMAIN f
        OBVIOUS
      <4> HIDE DEF Bad
      <4>2. QED
        BY <3>1, <4>1, SmallestSubset
    <3>3. s # {}
      BY <2>1, <3>2
    <3>4. ASSUME NEW x \in s PROVE s \ {x} \in Good
      BY <3>2, <3>4
    <3>5. QED
      BY <2>2, <3>2, <3>3, <3>4
<1>6. QED
  BY <1>5, SumIsFold

\* A sum of naturals is one.
LEMMA SumType ==
  ASSUME NEW f, IsFiniteSet(DOMAIN f), \A x \in DOMAIN f : f[x] \in Nat
  PROVE  SumFunction(f) \in Nat
<1>1. IsFiniteSet(Units(f, DOMAIN f))
  BY UnitsFinite
<1>2. QED
  BY <1>1, SumCountsUnits, FS_CardinalityType

\* A sum of zeros, or of nothing, is zero.
LEMMA SumOfZeros ==
  ASSUME NEW f, IsFiniteSet(DOMAIN f), \A x \in DOMAIN f : f[x] = 0
  PROVE  SumFunction(f) = 0
<1>1. Units(f, DOMAIN f) = {}
  BY DEF Units
<1>2. QED
  BY <1>1, SumCountsUnits, FS_EmptySet

\* One value more is added.
LEMMA SumWithOneMore ==
  ASSUME NEW f, IsFiniteSet(DOMAIN f), \A x \in DOMAIN f : f[x] \in Nat,
         NEW g, NEW y, y \notin DOMAIN f, g[y] \in Nat,
         DOMAIN g = DOMAIN f \cup {y}, \A x \in DOMAIN f : g[x] = f[x]
  PROVE  SumFunction(g) = SumFunction(f) + g[y]
<1>1. Units(g, DOMAIN f) = Units(f, DOMAIN f)
  BY DEF Units
<1>2. IsFiniteSet(DOMAIN g) /\ \A x \in DOMAIN g : g[x] \in Nat
  BY FS_AddElement
<1>3. IsFiniteSet(Units(f, DOMAIN f))
  BY UnitsFinite
<1>4. Cardinality(Units(g, DOMAIN f \cup {y})) = g[y] + Cardinality(Units(g, DOMAIN f))
  BY <1>1, <1>3, UnitsOfOneMore
<1>5. /\ SumFunction(g) = Cardinality(Units(g, DOMAIN f \cup {y}))
      /\ SumFunction(f) = Cardinality(Units(f, DOMAIN f))
  BY <1>2, SumCountsUnits
<1>6. SumFunction(f) \in Nat
  BY SumType
<1>7. QED
  BY <1>1, <1>4, <1>5, <1>6

\* A change of one value is a change of the sum.
LEMMA SumWithOneChanged ==
  ASSUME NEW f, IsFiniteSet(DOMAIN f), \A x \in DOMAIN f : f[x] \in Nat,
         NEW g, NEW y \in DOMAIN f, g[y] \in Nat,
         DOMAIN g = DOMAIN f, \A x \in DOMAIN f : x # y => g[x] = f[x]
  PROVE  /\ SumFunction(g) + f[y] = SumFunction(f) + g[y]
         /\ SumFunction(f) \in Nat /\ SumFunction(g) \in Nat
         /\ f[y] <= SumFunction(f)
<1> DEFINE rest == [x \in DOMAIN f \ {y} |-> f[x]]
<1>1. /\ DOMAIN rest = DOMAIN f \ {y} /\ IsFiniteSet(DOMAIN rest)
      /\ \A x \in DOMAIN rest : rest[x] \in Nat /\ rest[x] = f[x] /\ rest[x] = g[x]
      /\ DOMAIN f = DOMAIN rest \cup {y} /\ y \notin DOMAIN rest
  BY FS_RemoveElement
<1> HIDE DEF rest
<1>2. SumFunction(f) = SumFunction(rest) + f[y]
  <2>1. /\ IsFiniteSet(DOMAIN rest) /\ \A x \in DOMAIN rest : rest[x] \in Nat
        /\ y \notin DOMAIN rest /\ f[y] \in Nat /\ DOMAIN f = DOMAIN rest \cup {y}
        /\ \A x \in DOMAIN rest : f[x] = rest[x]
    BY <1>1
  <2>2. QED
    BY ONLY <2>1, SumWithOneMore
<1>3. SumFunction(g) = SumFunction(rest) + g[y]
  <2>1. /\ IsFiniteSet(DOMAIN rest) /\ \A x \in DOMAIN rest : rest[x] \in Nat
        /\ y \notin DOMAIN rest /\ g[y] \in Nat /\ DOMAIN g = DOMAIN rest \cup {y}
        /\ \A x \in DOMAIN rest : g[x] = rest[x]
    BY <1>1
  <2>2. QED
    BY ONLY <2>1, SumWithOneMore
<1>4. SumFunction(rest) \in Nat
  BY <1>1, SumType
<1>5. QED
  BY <1>2, <1>3, <1>4

=============================================================================
