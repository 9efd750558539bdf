---------------------------- MODULE SequenceLemmas ----------------------------
(***************************************************************************)
(* What the proofs share: the least-number principle, which they use in     *)
(* place of induction and which is derived from the fact that finite sets   *)
(* are well founded under inclusion; and what At of Subsequences keeps.     *)
(***************************************************************************)
EXTENDS Subsequences, FiniteSetTheorems, SequenceTheorems, TLAPS

\* Every set of numbers that is not empty has a least element.
THEOREM HasLeast ==
    ASSUME NEW T, T \subseteq Nat, T # {}
    PROVE  \E least \in T : \A k \in T : least <= k
<1> DEFINE X == {0 .. k : k \in T}
<1>1. IsWellFoundedOn(StrictSubsetOrdering(Nat), FiniteSubsetsOf(Nat))
  BY FS_StrictSubsetOrderingWellFounded
<1>2. \A k \in T : IsFiniteSet(0 .. k) /\ 0 .. k \subseteq Nat
  BY FS_Interval
<1>3. X # {} /\ X \subseteq FiniteSubsetsOf(Nat)
  BY <1>2 DEF FiniteSubsetsOf
<1> HIDE DEF X
<1>4. PICK A \in X : \A B \in X : ~ (<<B, A>> \in StrictSubsetOrdering(Nat))
  BY <1>1, <1>3, WFMin
<1>5. \A B \in X : B \subseteq A => B = A
  BY <1>3, <1>4 DEF StrictSubsetOrdering, FiniteSubsetsOf
<1>6. PICK least \in T : A = 0 .. least
  BY DEF X
<1>7. ASSUME NEW k \in T, k < least PROVE FALSE
  <2>1. 0 .. k \in X /\ 0 .. k \subseteq A
    BY <1>6, <1>7 DEF X
  <2>2. 0 .. k = 0 .. least
    BY <2>1, <1>5, <1>6
  <2>3. least \in 0 .. least
    OBVIOUS
  <2> QED
    BY <2>2, <2>3, <1>7
<1> QED
  BY <1>7

-----------------------------------------------------------------------------
(* Subsequences *)

\* The number of positions up to one of them tells which it is.
LEMMA NthExists ==
    ASSUME NEW len \in Nat, NEW P, P \subseteq 1 .. len
    PROVE  /\ Cardinality(P) \in Nat /\ Cardinality(P) <= len
           /\ \A n \in 1 .. Cardinality(P) :
                /\ Nth(P, n) \in P
                /\ Cardinality({k \in P : k <= Nth(P, n)}) = n
           /\ \A i \in P : \E n \in 1 .. Cardinality(P) : Nth(P, n) = i
<1> DEFINE Upto(i) == {k \in P : k <= i}
           rank == [i \in P |-> Cardinality(Upto(i))]
           c == Cardinality(P)
<1>1. IsFiniteSet(1 .. len) /\ Cardinality(1 .. len) = len
  BY FS_Interval
<1>2. IsFiniteSet(P) /\ c \in Nat /\ c <= len
  BY <1>1, FS_Subset, FS_CardinalityType
<1>3. ASSUME NEW i \in P
      PROVE  IsFiniteSet(Upto(i)) /\ rank[i] = Cardinality(Upto(i)) /\ rank[i] \in 1 .. c
  <2>1. Upto(i) \subseteq P /\ i \in Upto(i)
    OBVIOUS
  <2>2. IsFiniteSet(Upto(i)) /\ Cardinality(Upto(i)) <= c
    BY <1>2, <2>1, FS_Subset
  <2>3. Cardinality(Upto(i)) \in Nat /\ Cardinality(Upto(i)) # 0
    BY <2>1, <2>2, FS_CardinalityType, FS_EmptySet
  <2> QED
    BY <1>2, <2>2, <2>3
<1>4. ASSUME NEW i \in P, NEW k \in P, i < k
      PROVE  rank[i] < rank[k]
  <2>1. Upto(i) \subseteq Upto(k) \ {k} /\ k \in Upto(k)
    <3>1. i \in Nat /\ k \in Nat /\ P \subseteq Nat
      OBVIOUS
    <3>2. ASSUME NEW p \in Upto(i) PROVE p \in P /\ p <= k /\ p # k
      BY <1>4, <3>1
    <3>3. k \in Upto(k)
      BY <3>1
    <3> QED
      BY <3>2, <3>3
  <2>2. IsFiniteSet(Upto(k) \ {k}) /\ Cardinality(Upto(k) \ {k}) = rank[k] - 1
    BY <1>3, <2>1, FS_RemoveElement
  <2>3. rank[i] <= rank[k] - 1
    BY <1>3, <2>1, <2>2, FS_Subset
  <2> QED
    BY <1>3, <2>3
<1>5. rank \in Injection(P, 1 .. c)
  <2>1. ASSUME NEW i \in P, NEW k \in P, rank[i] = rank[k] PROVE i = k
    BY <1>3, <1>4, <2>1
  <2> QED
    BY <1>3, <2>1 DEF Injection, IsInjective
<1> HIDE DEF rank
<1>6. \A n \in 1 .. c : \E i \in P : rank[i] = n
  <2>1. IsFiniteSet(1 .. c) /\ Cardinality(1 .. c) = c
    BY <1>2, FS_Interval
  <2>2. rank \in Surjection(P, 1 .. c)
    BY <1>2, <1>5, <2>1, FS_Injection
  <2> QED
    BY <2>2 DEF Surjection
<1>7. ASSUME NEW n \in 1 .. c
      PROVE  Nth(P, n) \in P /\ Cardinality(Upto(Nth(P, n))) = n
  BY <1>3, <1>6 DEF Nth
<1>8. ASSUME NEW i \in P PROVE \E n \in 1 .. c : Nth(P, n) = i
  <2>1. rank[i] \in 1 .. c
    BY <1>3
  <2>2. rank[Nth(P, rank[i])] = rank[i] /\ Nth(P, rank[i]) \in P
    BY <1>3, <1>7, <2>1
  <2>3. Nth(P, rank[i]) = i
    BY <1>5, <2>2 DEF Injection, IsInjective
  <2> QED
    BY <2>1, <2>3
<1> QED
  BY <1>2, <1>7, <1>8

\* At returns exactly the elements at the positions given, each of them once.
LEMMA AtKeeps ==
    ASSUME NEW T, NEW s \in Seq(T), NEW P, P \subseteq DOMAIN s
    PROVE  /\ At(s, P) \in Seq(T) /\ Len(At(s, P)) <= Len(s)
           /\ \A n \in DOMAIN At(s, P) : Nth(P, n) \in P /\ At(s, P)[n] = s[Nth(P, n)]
           /\ \A i \in P : \E n \in DOMAIN At(s, P) : Nth(P, n) = i /\ At(s, P)[n] = s[i]
           /\ \A m, n \in DOMAIN At(s, P) : Nth(P, m) = Nth(P, n) => m = n
<1> DEFINE c == Cardinality(P)
<1>1. Len(s) \in Nat /\ DOMAIN s = 1 .. Len(s)
  OBVIOUS
<1>2. c \in Nat /\ c <= Len(s)
  BY <1>1, NthExists
<1>3. \A n \in 1 .. c : Nth(P, n) \in P /\ Cardinality({k \in P : k <= Nth(P, n)}) = n
  BY <1>1, NthExists
<1>4. \A i \in P : \E n \in 1 .. c : Nth(P, n) = i
  BY <1>1, NthExists
<1>5. DOMAIN At(s, P) = 1 .. c /\ \A n \in 1 .. c : At(s, P)[n] = s[Nth(P, n)]
  BY DEF At
<1>6. \A n \in 1 .. c : s[Nth(P, n)] \in T
  BY <1>1, <1>3, ElementOfSeq
<1>7. At(s, P) \in [1 .. c -> T]
  BY <1>6 DEF At
<1>8. At(s, P) \in Seq(T) /\ Len(At(s, P)) = c
  BY <1>2, <1>7, SeqDef, LenProperties
<1>9. \A m, n \in 1 .. c : Nth(P, m) = Nth(P, n) => m = n
  BY <1>3
<1>10. At(s, P) \in Seq(T) /\ Len(At(s, P)) <= Len(s)
  BY <1>2, <1>8
<1> HIDE DEF c
<1> QED
  BY <1>3, <1>4, <1>5, <1>9, <1>10
=============================================================================
