----------------------------- MODULE FiniteFacts ----------------------------
(***************************************************************************)
(* Facts about naturals, finite sets and sequences that the proofs about   *)
(* several components need: the first and the last of some numbers, and    *)
(* tables whose rows stay as they are while rows are added.                *)
(***************************************************************************)
EXTENDS Integers, Sequences, FiniteSets, FiniteSetTheorems, WellFoundedInduction, TLAPS

\* Some numbers have a least one.
LEMMA LeastOfSome ==
  ASSUME NEW S \in SUBSET Nat, S # {}
  PROVE  \E n \in S : \A m \in S : n <= m
<1>1. PICK n \in S : \A m \in S : ~(<<m, n>> \in OpToRel(<, Nat))
  BY NatLessThanWellFounded, WFMin
<1>2. \A m \in S : ~(m < n)
  BY <1>1 DEF OpToRel
<1> QED
  BY <1>2

\* Finitely many have a greatest one: take the smallest finite set that has none.
LEMMA GreatestOfFinite ==
  ASSUME NEW S \in SUBSET Nat, IsFiniteSet(S), S # {}
  PROVE  \E n \in S : \A m \in S : m <= n
<1> DEFINE Top(T) == \E n \in T : \A m \in T : m <= n
           Bad == {k \in Nat : \E T \in SUBSET S : T # {} /\ Cardinality(T) = k /\ ~Top(T)}
<1>1. \A T \in SUBSET S : IsFiniteSet(T) /\ Cardinality(T) \in Nat
  BY FS_Subset, FS_CardinalityType
<1>2. ASSUME Bad # {}
      PROVE  FALSE
  <2>1. PICK k \in Bad : \A j \in Bad : k <= j
    <3>1. Bad \in SUBSET Nat
      OBVIOUS
    <3> HIDE DEF Bad
    <3> QED
      BY <1>2, <3>1, LeastOfSome
  <2>2. PICK T \in SUBSET S : T # {} /\ Cardinality(T) = k /\ ~Top(T)
    OBVIOUS
  <2>3. PICK x \in T : TRUE
    BY <2>2
  <2> DEFINE U == T \ {x}
  <2>4. U \in SUBSET S /\ Cardinality(U) = k - 1 /\ Cardinality(U) \in Nat
    BY <1>1, <2>2, FS_RemoveElement
  <2>5. U = {} => Top(T)
    BY <2>3
  <2>6. Top(U) => Top(T)
    <3> SUFFICES ASSUME NEW y \in U, \A m \in U : m <= y
                 PROVE  Top(T)
      OBVIOUS
    <3>1. CASE x <= y
      BY <3>1
    <3>2. CASE ~(x <= y)
      BY <3>2
    <3> QED
      BY <3>1, <3>2
  <2>7. k - 1 \in Bad
    BY <2>2, <2>4, <2>5, <2>6
  <2> QED
    BY <2>1, <2>4, <2>7
<1>3. Cardinality(S) \in Nat
  BY <1>1
<1> QED
  BY <1>2, <1>3

\* A table that has grown, if at all: the old rows are what they were.
Extends(new, old) ==
  /\ Len(old) <= Len(new)
  /\ \A i \in DOMAIN old : i \in DOMAIN new /\ new[i] = old[i]

LEMMA AppendExtends ==
  ASSUME NEW T, NEW s \in Seq(T), NEW e \in T
  PROVE  /\ Append(s, e) \in Seq(T)
         /\ Len(Append(s, e)) = Len(s) + 1
         /\ Append(s, e)[Len(s) + 1] = e
         /\ DOMAIN s = 1..Len(s) /\ Len(s) \in Nat
         /\ DOMAIN Append(s, e) = 1..(Len(s) + 1)
         /\ \A i \in DOMAIN s : Append(s, e)[i] = s[i]
         /\ Extends(Append(s, e), s) /\ Extends(s, s)
BY DEF Extends

LEMMA SameExtends ==
  ASSUME NEW T, NEW s \in Seq(T)
  PROVE  Extends(s, s)
BY DEF Extends

\* The numbers in one column of a table.
LEMMA ColumnIsFinite ==
  ASSUME NEW T, NEW s \in Seq(T), NEW f \in [DOMAIN s -> Nat]
  PROVE  LET used == {f[i] : i \in DOMAIN s} IN
         /\ used \in SUBSET Nat /\ IsFiniteSet(used)
         /\ used # {} => (CHOOSE n \in used : \A m \in used : m <= n) \in Nat
<1> DEFINE used == {f[i] : i \in DOMAIN s}
<1>1. IsFiniteSet(DOMAIN s)
  <2>1. DOMAIN s = 1..Len(s) /\ Len(s) \in Nat
    OBVIOUS
  <2> QED
    BY <2>1, FS_Interval
<1>2. IsFiniteSet(used)
  <2>1. f \in Surjection(DOMAIN s, used)
    BY DEF Surjection
  <2> QED
    BY <1>1, <2>1, FS_Surjection
<1>3. used \in SUBSET Nat
  OBVIOUS
<1>4. used # {} => (CHOOSE n \in used : \A m \in used : m <= n) \in Nat
  <2> HIDE DEF used
  <2> QED
    BY <1>2, <1>3, GreatestOfFinite
<1> QED
  BY <1>2, <1>3, <1>4
=============================================================================
