----------------------------- MODULE FiniteFacts -----------------------------
(***************************************************************************)
(* Facts about finite sets and numbers that the proofs share: induction    *)
(* over a set of numbers, what Max and Min return, what Cardinality says   *)
(* of sets with at most one element, and what a fold that adds computes.   *)
(***************************************************************************)
EXTENDS Integers, FiniteSetsExt, FiniteSetTheorems, WellFoundedInduction, TLAPS

\* The versions of a shift's reports are such an interval.
LEMMA MaxOfInterval ==
  ASSUME NEW n \in Nat
  PROVE  Max({0} \cup 1..n) = n
  <1>1. n \in {0} \cup 1..n /\ \A y \in {0} \cup 1..n : n >= y
    OBVIOUS
  <1>2. \A x \in {0} \cup 1..n : (\A y \in {0} \cup 1..n : x >= y) => x = n
    OBVIOUS
  <1> QED
    BY <1>1, <1>2 DEF Max

Less == {ss \in Nat \X Nat : ss[1] < ss[2]}

\* The library's fact, for a relation that is spelled out.
LEMMA LessIsWellFounded == IsWellFoundedOn(Less, Nat)
  BY NatLessThanWellFounded, Zenon DEF OpToRel, Less

\* A finite set of numbers has a maximum: a smallest set without one would leave
\* a smaller one when an element is removed.
LEMMA MaxIsUpper ==
  ASSUME NEW S \in SUBSET Nat, IsFiniteSet(S), S # {}
  PROVE  Max(S) \in S /\ \A y \in S : Max(S) >= y
  <1> DEFINE HasMax(T) == \E x \in T : \A y \in T : x >= y
             Bad == {n \in Nat : \E T \in SUBSET Nat :
                        IsFiniteSet(T) /\ T # {} /\ Cardinality(T) = n /\ ~HasMax(T)}
  <1>1. Bad = {}
    <2> SUFFICES ASSUME Bad # {}
                 PROVE  FALSE
      OBVIOUS
    <2>0. Bad \subseteq Nat
      OBVIOUS
    <2>1. PICK n \in Bad : \A m \in Bad : <<m, n>> \notin Less
      <3> HIDE DEF Bad
      <3> QED
        BY <2>0, LessIsWellFounded, WFMin
    <2>2. n \in Nat /\ \A m \in Bad : ~(m < n)
      <3> HIDE DEF Bad
      <3> QED
        BY <2>0, <2>1 DEF Less
    <2>3. PICK T \in SUBSET Nat : IsFiniteSet(T) /\ T # {} /\ Cardinality(T) = n /\ ~HasMax(T)
      BY <2>1
    <2>4. PICK t \in T : TRUE
      BY <2>3
    <2>5. IsFiniteSet(T \ {t}) /\ Cardinality(T \ {t}) = n - 1 /\ n - 1 \in Nat
      <3> HIDE DEF Bad, HasMax
      <3>1. IsFiniteSet(T \ {t}) /\ Cardinality(T \ {t}) = n - 1
        BY <2>3, <2>4, FS_RemoveElement
      <3>2. Cardinality(T \ {t}) \in Nat
        BY <3>1, FS_CardinalityType
      <3> QED
        BY <3>1, <3>2
    <2>6. CASE T \ {t} = {}
      BY <2>3, <2>4, <2>6
    <2>7. CASE T \ {t} # {}
      <3>1. HasMax(T \ {t})
        <4> HIDE DEF HasMax
        <4>1. n - 1 \notin Bad
          BY <2>2, <2>5
        <4> QED
          BY <4>1, <2>5, <2>7, <2>3
      <3>2. PICK x \in T \ {t} : \A y \in T \ {t} : x >= y
        BY <3>1
      <3>3. t \in Nat /\ x \in Nat /\ T \subseteq Nat
        BY <2>3, <2>4, <3>2
      <3>4. HasMax(T)
        <4>1. CASE x >= t
          BY <3>2, <3>3, <4>1
        <4>2. CASE ~(x >= t)
          <5>1. t >= t /\ \A y \in T \ {t} : t >= y
            BY <3>2, <3>3, <4>2
          <5> QED
            BY <5>1, <2>4
        <4> QED
          BY <4>1, <4>2
      <3> QED
        BY <3>4, <2>3
    <2> QED
      BY <2>6, <2>7
  <1>2. HasMax(S)
    <2> HIDE DEF HasMax
    <2>1. Cardinality(S) \in Nat
      BY FS_CardinalityType
    <2> QED
      BY <1>1, <2>1
  <1> QED
    BY <1>2 DEF Max

\* Induction, for a set of numbers that is spelled out: the smallest number that
\* is not in it would have a predecessor that is.
LEMMA EachNumber ==
  ASSUME NEW S, 0 \in S, \A n \in Nat : n \in S => n + 1 \in S
  PROVE  \A n \in Nat : n \in S
  <1> DEFINE Bad == {n \in Nat : n \notin S}
  <1> SUFFICES ASSUME Bad # {}
               PROVE  FALSE
    OBVIOUS
  <1>1. Bad \subseteq Nat
    OBVIOUS
  <1>2. PICK n \in Bad : \A m \in Bad : <<m, n>> \notin Less
    <2> HIDE DEF Bad
    <2> QED
      BY <1>1, LessIsWellFounded, WFMin
  <1>3. n \in Nat /\ n # 0 /\ n - 1 \in Nat /\ n - 1 < n
    BY <1>2
  <1>4. n - 1 \notin Bad
    BY <1>2, <1>3 DEF Less
  <1> QED
    BY <1>2, <1>3, <1>4

\* A set of numbers has a minimum.
LEMMA MinIsLower ==
  ASSUME NEW S \in SUBSET Nat, S # {}
  PROVE  Min(S) \in S /\ \A y \in S : Min(S) <= y
  <1>1. PICK n \in S : \A m \in S : <<m, n>> \notin Less
    BY LessIsWellFounded, WFMin
  <1>2. ASSUME NEW m \in S
        PROVE  n <= m
    <2>1. m \in Nat /\ n \in Nat /\ <<m, n>> \notin Less
      BY <1>1
    <2>2. ~(m < n)
      BY <2>1 DEF Less
    <2> QED
      BY <2>1, <2>2
  <1> QED
    BY <1>2 DEF Min

\* A function on sets that is zero on the empty set and grows by what an element
\* adds, and what FoldSet makes of the same addition.
Sums(sum, add, S) ==
    /\ sum[{}] = 0
    /\ \A s \in SUBSET S : \A x \in s : sum[s] = sum[s \ {x}] + add[x]

SumFold(fold, add, S) ==
    \A s \in SUBSET S :
        fold[s] = IF s = {} THEN 0
                  ELSE fold[s \ {CHOOSE x \in s : TRUE}] + add[CHOOSE x \in s : TRUE]

\* There is only one such function.
LEMMA SumIsUnique ==
  ASSUME NEW S, IsFiniteSet(S), NEW add, NEW sum, NEW fold,
         Sums(sum, add, S), SumFold(fold, add, S)
  PROVE  fold[S] = sum[S]
  <1> DEFINE Agree == {n \in Nat : \A s \in SUBSET S : Cardinality(s) = n => fold[s] = sum[s]}
  <1>1. 0 \in Agree
    <2>1. \A s \in SUBSET S : Cardinality(s) = 0 => s = {}
      BY FS_Subset, FS_EmptySet
    <2> QED
      BY <2>1 DEF Sums, SumFold
  <1>2. ASSUME NEW n \in Nat, n \in Agree
        PROVE  n + 1 \in Agree
    <2> SUFFICES ASSUME NEW s \in SUBSET S, Cardinality(s) = n + 1
                 PROVE  fold[s] = sum[s]
      OBVIOUS
    <2>1. IsFiniteSet(s) /\ s # {}
      BY FS_Subset, FS_EmptySet
    <2>2. PICK x \in s : x = CHOOSE y \in s : TRUE
      BY <2>1
    <2>3. Cardinality(s \ {x}) = n /\ s \ {x} \in SUBSET S
      <3>1. Cardinality(s \ {x}) = Cardinality(s) - 1
        BY <2>1, <2>2, FS_RemoveElement
      <3> QED
        BY <3>1
    <2>4. fold[s \ {x}] = sum[s \ {x}]
      BY <1>2, <2>3
    <2>5. fold[s] = fold[s \ {x}] + add[x]
      BY <2>1, <2>2 DEF SumFold
    <2>6. sum[s] = sum[s \ {x}] + add[x]
      BY <2>2 DEF Sums
    <2> QED
      BY <2>4, <2>5, <2>6
  <1>3. \A n \in Nat : n \in Agree
    <2> HIDE DEF Agree
    <2> QED
      BY <1>1, <1>2, EachNumber
  <1>4. Cardinality(S) \in Nat
    BY FS_CardinalityType
  <1> QED
    BY <1>3, <1>4

\* The only element is the maximum.
LEMMA MaxOfSingleton ==
  ASSUME NEW n \in Int
  PROVE  Max({n}) = n
  BY DEF Max

\* A unique index counts to one: no two elements differ.
LEMMA AtMostOne ==
  ASSUME NEW S, IsFiniteSet(S)
  PROVE  Cardinality(S) <= 1 <=> \A x, y \in S : x = y
  <1>1. CASE S = {}
    BY <1>1, FS_EmptySet
  <1>2. CASE S # {}
    <2>1. PICK z : z \in S
      BY <1>2
    <2>2. IsFiniteSet(S \ {z}) /\ Cardinality(S \ {z}) = Cardinality(S) - 1
      BY <2>1, FS_RemoveElement
    <2>3. Cardinality(S) \in Nat /\ Cardinality(S \ {z}) \in Nat
      BY <2>2, FS_CardinalityType
    <2>4. Cardinality(S \ {z}) = 0 <=> S \ {z} = {}
      BY <2>2, FS_EmptySet
    <2>5. Cardinality(S) <= 1 <=> S \ {z} = {}
      BY <2>2, <2>3, <2>4
    <2>6. S \ {z} = {} <=> \A x, y \in S : x = y
      BY <2>1
    <2> QED
      BY <2>5, <2>6
  <1> QED
    BY <1>1, <1>2

\* Exactly one: there is one, and no two differ.
LEMMA ExactlyOne ==
  ASSUME NEW S, IsFiniteSet(S)
  PROVE  Cardinality(S) = 1 <=> S # {} /\ \A x, y \in S : x = y
  <1>1. Cardinality(S) = 1 <=> \E x : S = {x}
    BY FS_Singleton
  <1>2. (\E x : S = {x}) <=> S # {} /\ \A x, y \in S : x = y
    OBVIOUS
  <1> QED
    BY <1>1, <1>2

\* Sets of row ids are finite.
LEMMA IdsFinite ==
  ASSUME NEW n \in Nat, NEW S \in SUBSET (1 .. n)
  PROVE  IsFiniteSet(S) /\ S \subseteq Nat
  <1>1. IsFiniteSet(1 .. n)
    BY FS_Interval
  <1>2. IsFiniteSet(S)
    BY <1>1, FS_Subset
  <1> QED
    BY <1>2
=============================================================================
