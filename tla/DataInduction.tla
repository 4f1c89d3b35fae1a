---------------------------- MODULE DataInduction ----------------------------
(***************************************************************************)
(* Induction over numbers and over finite sets, stated of sets instead of  *)
(* operators.  Both follow from the well-foundedness of strict inclusion   *)
(* between finite sets.                                                    *)
(***************************************************************************)
EXTENDS Integers, FiniteSets, FiniteSetTheorems, TLAPS

\* A set of numbers that holds 0 and the successors of its members holds all.
LEMMA NatSetInduction ==
  ASSUME NEW N \in SUBSET Nat, 0 \in N, \A n \in N : n + 1 \in N
  PROVE  N = Nat
<1> SUFFICES ASSUME NEW m \in Nat \ N PROVE FALSE
  OBVIOUS
<1> DEFINE Below(n) == 0 .. n
           T == {Below(n) : n \in Nat \ N}
<1>1. T \subseteq FiniteSubsetsOf(Nat)
  <2> SUFFICES ASSUME NEW n \in Nat PROVE Below(n) \in FiniteSubsetsOf(Nat)
    OBVIOUS
  <2>1. IsFiniteSet(0 .. n) /\ 0 .. n \in SUBSET Nat
    BY FS_Interval
  <2> QED
    BY <2>1 DEF FiniteSubsetsOf
<1>2. PICK x \in T : \A y \in T : <<y, x>> \notin StrictSubsetOrdering(Nat)
  <2>1. T # {}
    OBVIOUS
  <2> HIDE DEF T
  <2> QED
    BY <1>1, <2>1, FS_StrictSubsetOrderingWellFounded, WFMin
<1>3. PICK n \in Nat \ N : x = Below(n)
  OBVIOUS
<1>4. n # 0 /\ n - 1 \in Nat
  OBVIOUS
<1>5. n - 1 \in Nat \ N
  <2>1. n - 1 \notin N
    BY <1>3, <1>4
  <2> QED
    BY <1>4, <2>1
<1>6. <<Below(n - 1), x>> \in StrictSubsetOrdering(Nat)
  <2>1. Below(n - 1) \subseteq Below(n) /\ n \in Below(n) /\ n \notin Below(n - 1)
    BY <1>4
  <2>2. Below(n) \in SUBSET Nat /\ Below(n - 1) \in SUBSET Nat
    BY <1>4
  <2> HIDE DEF Below
  <2> QED
    BY <1>3, <2>1, <2>2 DEF StrictSubsetOrdering
<1> QED
  BY <1>2, <1>5, <1>6

\* A set that holds each part of S of which it holds all proper parts holds every
\* part of S.
LEMMA SubsetInduction ==
  ASSUME NEW S, IsFiniteSet(S), NEW A,
         \A T \in SUBSET S : (\A U \in (SUBSET T) \ {T} : U \in A) => T \in A
  PROVE  SUBSET S \subseteq A
<1> SUFFICES ASSUME NEW V \in (SUBSET S) \ A PROVE FALSE
  OBVIOUS
<1> DEFINE B == (SUBSET S) \ A
<1>1. B \subseteq FiniteSubsetsOf(S) /\ B # {}
  BY FS_FiniteSubsetsOfFinite
<1>2. PICK W \in B : \A U \in B : <<U, W>> \notin StrictSubsetOrdering(S)
  <2> HIDE DEF B
  <2> QED
    BY <1>1, FS_StrictSubsetOrderingWellFounded, WFMin
<1>3. \A U \in (SUBSET W) \ {W} : U \in A
  BY <1>2 DEF StrictSubsetOrdering
<1> QED
  BY <1>2, <1>3
==============================================================================
