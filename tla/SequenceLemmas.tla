---------------------------- MODULE SequenceLemmas ----------------------------
(***************************************************************************)
(* Facts about numbers and sequences that the proofs about queues, pipes   *)
(* and deques share.                                                       *)
(***************************************************************************)
EXTENDS Integers, Sequences, SequencesExt, SequenceTheorems, WellFoundedInduction, TLAPS

(* A set of naturals has a least element: with it what the library's         *)
(* induction theorems say of an operator is proved of a set.                 *)
LEMMA LeastOf ==
  ASSUME NEW T, T \subseteq Nat, T # {}
  PROVE  \E m \in T : \A n \in T : m <= n
<1>1. PICK m \in T : \A n \in T : ~(<<n, m>> \in OpToRel(<, Nat))
  BY NatLessThanWellFounded, WFMin
<1>2. ASSUME NEW n \in T PROVE m <= n
  <2>1. SUFFICES ASSUME n < m PROVE FALSE
    OBVIOUS
  <2>2. <<n, m>> \in OpToRel(<, Nat)
    BY <2>1 DEF OpToRel
  <2> QED  BY <2>2, <1>1
<1> QED  BY <1>2

(* The largest of a set of positions, the one SelectLastInSeq takes.         *)
LEMMA MaxOf ==
  ASSUME NEW n \in Nat, NEW T \in SUBSET (1 .. n), T # {}
  PROVE  Max(T) \in T /\ \A i \in T : i <= Max(T)
<1> DEFINE U == {n - i : i \in T}
<1>1. U \subseteq Nat /\ U # {}
  <2>1. \A i \in T : n - i \in Nat
    OBVIOUS
  <2> QED  BY <2>1
<1>2. \E u \in U : \A v \in U : u <= v
  <2> HIDE DEF U
  <2> QED  BY <1>1, LeastOf
<1>3. PICK k \in T : \A v \in U : n - k <= v
  BY <1>2
<1>4. \A i \in T : k >= i
  <2> TAKE i \in T
  <2>1. n - k <= n - i
    BY <1>3
  <2> QED  BY <2>1
<1> HIDE DEF U
<1>5. Max(T) \in T /\ \A i \in T : Max(T) >= i
  BY <1>4 DEF Max
<1> QED  BY <1>5

(* A queue holds what was put into it, and what it held.                     *)
LEMMA SetOfAppend ==
  ASSUME NEW S, NEW s \in Seq(S), NEW x \in S
  PROVE  /\ Append(s, x) \in Seq(S)
         /\ ToSet(Append(s, x)) = ToSet(s) \cup {x}
<1>1. Append(s, x) \in Seq(S) /\ Len(Append(s, x)) = Len(s) + 1
  OBVIOUS
<1>2. /\ \A i \in 1 .. Len(s) : Append(s, x)[i] = s[i]
      /\ Append(s, x)[Len(s) + 1] = x
  OBVIOUS
<1>3. DOMAIN Append(s, x) = 1 .. Len(s) + 1 /\ DOMAIN s = 1 .. Len(s) /\ Len(s) \in Nat
  BY <1>1
<1>4. ToSet(Append(s, x)) \subseteq ToSet(s) \cup {x}
  <2>1. ASSUME NEW i \in 1 .. Len(s) + 1 PROVE Append(s, x)[i] \in ToSet(s) \cup {x}
    <3>1. CASE i \in 1 .. Len(s)  BY <3>1, <1>2, <1>3 DEF ToSet
    <3>2. CASE i = Len(s) + 1  BY <3>2, <1>2
    <3> QED  BY <3>1, <3>2, <1>3
  <2> QED  BY <2>1, <1>3 DEF ToSet
<1>5. ASSUME NEW y \in ToSet(s) PROVE y \in ToSet(Append(s, x))
  <2>1. PICK i \in 1 .. Len(s) : y = s[i]  BY <1>3, <1>5 DEF ToSet
  <2>2. i \in DOMAIN Append(s, x) /\ Append(s, x)[i] = y  BY <2>1, <1>2, <1>3
  <2> QED  BY <2>2 DEF ToSet
<1>6. x \in ToSet(Append(s, x))
  <2>1. Len(s) + 1 \in DOMAIN Append(s, x)  BY <1>3
  <2> QED  BY <2>1, <1>2 DEF ToSet
<1> QED  BY <1>1, <1>4, <1>5, <1>6
=============================================================================
