--------------------------- MODULE InductionLemmas ---------------------------
(***************************************************************************)
(* Induction over the natural numbers in terms of sets, and what follows   *)
(* from it for the recursive functions the models replay logs with: a      *)
(* function that is given by its first value and a step exists.            *)
(***************************************************************************)
EXTENDS Naturals, WellFoundedInduction, TLAPS

(* A set of numbers that is not empty has a least element; the migrations  *)
(* of a store are applied in that order.                                   *)
LEMMA LeastNat ==
  ASSUME NEW T \in SUBSET Nat, T # {}
  PROVE  \E n \in T : \A m \in T : n <= m
<1> DEFINE R == OpToRel(<, Nat)
<1>1. IsWellFoundedOn(R, Nat)
  BY NatLessThanWellFounded
<1>2. \A m, n \in Nat : m < n => <<m, n>> \in R
  BY DEF OpToRel
<1> HIDE DEF R
<1>3. PICK n \in T : \A m \in T : ~(<<m, n>> \in R)
  BY <1>1, WFMin
<1>4. ASSUME NEW m \in T PROVE n <= m
  <2>1. ~(m < n)
    BY <1>2, <1>3
  <2> QED
    BY <2>1
<1> QED
  BY <1>4

(* Induction: a set that holds 0, and n + 1 with every n, holds every      *)
(* number.                                                                 *)
LEMMA SetInduction ==
  ASSUME NEW S, 0 \in S, \A n \in Nat : n \in S => n + 1 \in S
  PROVE  Nat \subseteq S
<1> SUFFICES ASSUME Nat \ S # {} PROVE FALSE
  OBVIOUS
<1>1. PICK n \in Nat \ S : \A m \in Nat \ S : n <= m
  BY LeastNat
<1>2. n # 0 /\ n - 1 \in Nat /\ n - 1 \in S
  BY <1>1
<1> QED
  BY <1>1, <1>2

(* The same up to a bound: what replaying a log of N events needs.         *)
LEMMA BoundedInduction ==
  ASSUME NEW N \in Nat, NEW S, 0 \in S,
         \A n \in 0..(N - 1) : n \in S => n + 1 \in S
  PROVE  0..N \subseteq S
<1> DEFINE U == {n \in Nat : n <= N => n \in S}
<1>1. 0 \in U
  OBVIOUS
<1>2. \A n \in Nat : n \in U => n + 1 \in U
  OBVIOUS
<1>3. Nat \subseteq U
  <2> HIDE DEF U
  <2> QED
    BY <1>1, <1>2, SetInduction
<1> QED
  BY <1>3

(* The steps over T that a recursion up to N takes, and the functions that *)
(* begin with a and follow a step.                                         *)
StepsOf(T, N) == [T \X (1..N) -> T]

Follows(g, T, a, N, step) ==
  /\ g \in [0..N -> T]
  /\ g[0] = a
  /\ \A n \in 1..N : g[n] = step[<<g[n - 1], n>>]

(* A first value and a step define a function on 0..N: the projections     *)
(* that the events of a log lead to, one after the other, exist.           *)
LEMMA BoundedRecursion ==
  ASSUME NEW T, NEW a \in T, NEW N \in Nat, NEW step \in StepsOf(T, N)
  PROVE  \E g : Follows(g, T, a, N, step)
<1> DEFINE Good(m, g) == g[0] = a /\ \A n \in 1..m : g[n] = step[<<g[n - 1], n>>]
           S == {m \in 0..N : \E g \in [0..m -> T] : Good(m, g)}
<1> USE DEF StepsOf
<1>1. 0 \in S
  <2> DEFINE g0 == [n \in 0..0 |-> a]
  <2>1. g0 \in [0..0 -> T] /\ Good(0, g0)
    OBVIOUS
  <2>2. \E g \in [0..0 -> T] : Good(0, g)
    <3> HIDE DEF g0, Good
    <3> QED
      BY <2>1
  <2> QED
    BY <2>2
<1>2. ASSUME NEW m \in 0..(N - 1), m \in S PROVE m + 1 \in S
  <2>1. PICK g \in [0..m -> T] : Good(m, g)
    BY <1>2
  <2> DEFINE h == [n \in 0..(m + 1) |-> IF n <= m THEN g[n] ELSE step[<<g[m], m + 1>>]]
  <2>2. m + 1 \in 1..N /\ g[m] \in T
    OBVIOUS
  <2>3. step[<<g[m], m + 1>>] \in T
    BY <2>2
  <2>4. h \in [0..(m + 1) -> T]
    BY <2>3
  <2>5. h[0] = a
    BY <2>1
  <2>6. ASSUME NEW n \in 1..(m + 1) PROVE h[n] = step[<<h[n - 1], n>>]
    <3>1. CASE n <= m
      BY <2>1, <3>1
    <3>2. CASE n = m + 1
      BY <3>2
    <3> QED
      BY <3>1, <3>2
  <2>7. Good(m + 1, h)
    BY <2>5, <2>6
  <2>8. m + 1 \in 0..N
    OBVIOUS
  <2> QED
    BY <2>4, <2>7, <2>8
<1>3. 0..N \subseteq S
  <2> HIDE DEF S
  <2> QED
    BY <1>1, <1>2, BoundedInduction
<1>4. N \in S
  <2> HIDE DEF S
  <2>1. N \in 0..N
    OBVIOUS
  <2> QED
    BY <1>3, <2>1
<1>5. \E g \in [0..N -> T] : Good(N, g)
  <2> HIDE DEF Good
  <2> QED
    BY <1>4
<1> QED
  BY <1>5 DEF Follows
=============================================================================
