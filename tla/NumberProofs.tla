---------------------------- MODULE NumberProofs ----------------------------
(***************************************************************************)
(* The facts about numbers that the other proofs share.                    *)
(***************************************************************************)
EXTENDS Integers, FiniteSetsExt, TLAPS, WellFoundedInduction

\* A set with a number in it has a least one.
LEMMA LeastNumber ==
    ASSUME NEW S, NEW b \in Nat, b \in S
    PROVE  \E u \in Nat : u \in S /\ \A v \in Nat : v < u => v \notin S
<1> DEFINE U == S \cap Nat
           R == OpToRel(<, Nat)
<1>1. PICK u \in U : \A v \in U : ~(<<v, u>> \in R)
  <2>1. IsWellFoundedOn(R, Nat)
    BY NatLessThanWellFounded
  <2>2. U \subseteq Nat /\ b \in U
    OBVIOUS
  <2> HIDE DEF U, R
  <2> QED BY <2>1, <2>2, WFMin
<1> QED BY <1>1 DEF OpToRel

\* Induction, for a set of numbers.
LEMMA Inductive ==
    ASSUME NEW S, 0 \in S, \A n \in Nat : n \in S => n + 1 \in S
    PROVE  Nat \subseteq S
<1> SUFFICES ASSUME NEW b \in Nat, b \notin S PROVE FALSE
  OBVIOUS
<1>1. PICK u \in Nat : u \in Nat \ S /\ \A v \in Nat : v < u => v \notin Nat \ S
  BY LeastNumber
<1>2. u # 0 /\ u - 1 \in Nat /\ u - 1 < u
  BY <1>1
<1>3. u - 1 \in S
  BY <1>1, <1>2
<1>4. (u - 1) + 1 \in S
  BY <1>2, <1>3
<1> QED BY <1>1, <1>4

\* A nonempty bounded set of numbers has a largest one.
LEMMA MaxOfBounded ==
    ASSUME NEW S, S \subseteq Nat, S # {}, NEW b \in Nat, \A x \in S : x <= b
    PROVE  Max(S) \in S /\ \A x \in S : x <= Max(S)
<1> DEFINE U == {u \in Nat : \A x \in S : x <= u}
<1>1. PICK u \in Nat : u \in U /\ \A v \in Nat : v < u => v \notin U
  <2>1. b \in U
    OBVIOUS
  <2> HIDE DEF U
  <2> QED BY <2>1, LeastNumber
<1>2. u \in S
  <2>1. PICK s \in S : TRUE
    OBVIOUS
  <2>2. SUFFICES ASSUME u \notin S PROVE FALSE
    OBVIOUS
  <2>3. \A x \in S : x <= u /\ x # u /\ x \in Nat
    BY <1>1, <2>2
  <2>4. u - 1 \in Nat /\ u - 1 < u
    BY <2>1, <2>3
  <2>5. u - 1 \in U
    BY <2>3, <2>4
  <2> QED BY <1>1, <2>4, <2>5
<1>3. \E x \in S : \A y \in S : x >= y
  BY <1>1, <1>2
<1> QED BY <1>3 DEF Max

=============================================================================
