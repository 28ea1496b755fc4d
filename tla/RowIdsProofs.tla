---------------------------- MODULE RowIdsProofs ----------------------------
(* Facts about row ids that the proofs about the tables share. *)
EXTENDS RowIds, WellFoundedInduction, TLAPS

\* A set of natural numbers has a least element.
LEMMA LeastNat ==
  ASSUME NEW T, T \subseteq Nat, T # {}
  PROVE  \E x \in T : \A y \in T : x <= y
<1>1. PICK x \in T : \A y \in T : ~(<<y, x>> \in OpToRel(<, Nat))
  BY NatLessThanWellFounded, WFMin, Zenon
<1>2. ASSUME NEW y \in T PROVE x <= y
  <2>1. x \in Nat /\ y \in Nat
    OBVIOUS
  <2>2. y < x => <<y, x>> \in OpToRel(<, Nat)
    BY <2>1, Zenon DEF OpToRel
  <2>3. ~(y < x)
    BY <1>1, <2>2, Zenon
  <2> QED
    BY <2>1, <2>3
<1> QED
  BY <1>2

\* The smallest element of a set of ids, such as the target of merge_clusters().
LEMMA MinFacts ==
  ASSUME NEW S, S \subseteq Nat, S # {}
  PROVE  Min(S) \in S /\ \A y \in S : Min(S) <= y
  BY LeastNat, Zenon DEF Min

\* A bounded set of natural numbers has a largest element.
LEMMA MaxFacts ==
  ASSUME NEW n \in Nat, NEW S, S \subseteq 0 .. n, S # {}
  PROVE  Max(S) \in S /\ \A y \in S : Max(S) >= y
<1> DEFINE T == {n - s : s \in S}
<1>0. T # {}
  <2>1. PICK s \in S : TRUE
    OBVIOUS
  <2>2. n - s \in T
    OBVIOUS
  <2> QED
    BY <2>2
<1>1. T \subseteq Nat
  OBVIOUS
<1>2. PICK t \in T : \A u \in T : t <= u
  BY <1>0, <1>1, LeastNat
<1>3. PICK s \in S : t = n - s
  BY <1>2
<1>4. \A y \in S : n - s <= n - y
  BY <1>2, <1>3
<1>5. \A y \in S : s >= y
  BY <1>4
<1> QED
  BY <1>5, Zenon DEF Max

\* The id of a new row is above all that are in use.
LEMMA NextRowIdFacts ==
  ASSUME NEW n \in Nat, NEW S, S \subseteq 1 .. n
  PROVE  /\ NextRowId(S) \in 1 .. n + 1 /\ NextRowId(S) \notin S
         /\ \A y \in S : y < NextRowId(S)
<1> DEFINE Z == S \cup {0}
<1>1. Z \subseteq 0 .. n /\ Z # {}
  OBVIOUS
<1>2. Max(Z) \in Z /\ \A y \in Z : Max(Z) >= y
  BY <1>1, MaxFacts
<1>3. Max(Z) \in 0 .. n /\ \A y \in S : Max(Z) >= y
  BY <1>1, <1>2
<1>4. NextRowId(S) = Max(Z) + 1
  BY DEF NextRowId
<1> HIDE DEF Z
<1> QED
  BY <1>3, <1>4
=============================================================================
