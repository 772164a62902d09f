---------------------------- MODULE NumberFacts -----------------------------
(***************************************************************************)
(* Facts about naturals that the proofs of several components rest on:     *)
(* least and greatest elements, induction, and functions that are defined  *)
(* by recursion over an interval.  The last two are stated with sets and   *)
(* functions in place of predicates and operators, so that they can be     *)
(* cited for a particular one.                                             *)
(***************************************************************************)
EXTENDS Integers, FiniteSetsExt, WellFoundedInduction, TLAPS

\* Min returns the least element of a set of naturals.
LEMMA MinOfNaturals ==
  ASSUME NEW S \in SUBSET Nat, S # {}
  PROVE  /\ Min(S) \in S
         /\ \A y \in S : Min(S) <= y
<1> DEFINE R == OpToRel(<, Nat)
<1>1. PICK x \in S : \A y \in S : ~(<<y, x>> \in R)
  BY WFMin, NatLessThanWellFounded, Zenon
<1>2. \A y \in S : x <= y
  <2> TAKE y \in S
  <2>1. ~(<<y, x>> \in R)
    BY <1>1
  <2>2. ~(y < x)
    BY <2>1, Zenon DEF OpToRel
  <2> QED
    BY <2>2
<1> QED
  BY <1>2 DEF Min

\* Max returns the greatest element of a bounded set of naturals.
LEMMA MaxOfNaturals ==
  ASSUME NEW n \in Nat, NEW S \in SUBSET (0 .. n), S # {}
  PROVE  /\ Max(S) \in S
         /\ \A y \in S : y <= Max(S)
<1> DEFINE T == {n - i : i \in S}
<1>1. T \in SUBSET Nat /\ T # {}
  <2>1. \A i \in S : n - i \in Nat
    OBVIOUS
  <2>2. PICK i \in S : TRUE
    OBVIOUS
  <2> QED
    BY <2>1, <2>2, Zenon
<1>2. Min(T) \in T /\ \A y \in T : Min(T) <= y
  BY <1>1, MinOfNaturals
<1>3. PICK x \in S : Min(T) = n - x
  BY <1>2
<1>4. \A y \in S : n - x <= n - y
  BY <1>2, <1>3
<1>5. \A y \in S : x >= y
  BY <1>4
<1> QED
  BY <1>5 DEF Max

\* Induction: a set that contains 0 and the successor of each of its elements
\* below n contains 0 .. n.
LEMMA UpTo ==
  ASSUME NEW n \in Nat, NEW S, 0 \in S,
         \A i \in 0 .. n - 1 : i \in S => i + 1 \in S
  PROVE  0 .. n \subseteq S
<1> DEFINE T == {i \in 0 .. n : i \notin S}
<1> SUFFICES ASSUME T # {} PROVE FALSE
  OBVIOUS
<1>1. T \in SUBSET Nat
  OBVIOUS
<1>2. Min(T) \in T /\ \A y \in T : Min(T) <= y
  BY <1>1, MinOfNaturals
<1> HIDE DEF T
<1>3. PICK k \in T : \A y \in T : k <= y
  BY <1>2
<1>4. k \in 0 .. n /\ k \notin S
  BY <1>3 DEF T
<1>5. k # 0
  BY <1>4
<1>6. k - 1 \in 0 .. n - 1 /\ k - 1 \in S
  BY <1>3, <1>4, <1>5 DEF T
<1>7. (k - 1) + 1 \in S
  BY <1>6
<1> QED
  BY <1>4, <1>7

\* f has the value base at 0, and each next one by a step from the one before.
Recurs(f, n, base, step) ==
    f[0] = base /\ \A i \in 1 .. n : f[i] = step[<<i, f[i - 1]>>]

\* There is a function on 0 .. n for every base and step.
LEMMA Recursion ==
  ASSUME NEW n \in Nat, NEW D, NEW base \in D, NEW step \in [(0 .. n) \X D -> D]
  PROVE  \E f \in [0 .. n -> D] : Recurs(f, n, base, step)
<1> DEFINE Fits(f, k) == \A i \in 0 .. k : f[i] = IF i = 0 THEN base ELSE step[<<i, f[i - 1]>>]
           S == {k \in 0 .. n : \E f \in [0 .. n -> D] : Fits(f, k)}
<1>1. 0 \in S
  <2>1. [i \in 0 .. n |-> base] \in [0 .. n -> D]
    OBVIOUS
  <2>2. Fits([i \in 0 .. n |-> base], 0)
    OBVIOUS
  <2>3. 0 \in 0 .. n
    OBVIOUS
  <2> HIDE DEF Fits
  <2> QED
    BY <2>1, <2>2, <2>3
<1>2. ASSUME NEW k \in 0 .. n - 1, k \in S
      PROVE  k + 1 \in S
  <2>1. PICK f \in [0 .. n -> D] : Fits(f, k)
    BY <1>2
  <2> DEFINE g == [f EXCEPT ![k + 1] = step[<<k + 1, f[k]>>]]
  <2>2. g \in [0 .. n -> D]
    <3>1. f[k] \in D /\ k + 1 \in 0 .. n
      OBVIOUS
    <3>2. step[<<k + 1, f[k]>>] \in D
      BY <3>1
    <3> QED
      BY <3>2
  <2>3. Fits(g, k + 1)
    <3> SUFFICES ASSUME NEW i \in 0 .. k + 1
                 PROVE  g[i] = IF i = 0 THEN base ELSE step[<<i, g[i - 1]>>]
      OBVIOUS
    <3>1. CASE i = k + 1
      <4>1. g[i] = step[<<k + 1, f[k]>>] /\ g[i - 1] = f[k]
        BY <3>1
      <4> QED
        BY <3>1, <4>1
    <3>2. CASE i \in 0 .. k
      <4>1. g[i] = f[i] /\ (i # 0 => g[i - 1] = f[i - 1])
        BY <3>2
      <4> QED
        BY <2>1, <3>2, <4>1
    <3> QED
      BY <3>1, <3>2
  <2>4. k + 1 \in 0 .. n
    OBVIOUS
  <2> HIDE DEF Fits, g
  <2> QED
    BY <2>2, <2>3, <2>4
<1>3. 0 .. n \subseteq S
  <2> HIDE DEF S
  <2> QED
    BY <1>1, <1>2, UpTo
<1>4. PICK f \in [0 .. n -> D] : Fits(f, n)
  BY <1>3
<1>5. f[0] = base
  <2>1. 0 \in 0 .. n
    OBVIOUS
  <2> QED
    BY <1>4, <2>1, Zenon
<1>6. \A i \in 1 .. n : i \in 0 .. n /\ i # 0
  OBVIOUS
<1>7. \A i \in 1 .. n : f[i] = step[<<i, f[i - 1]>>]
  BY <1>4, <1>6
<1> QED
  BY <1>5, <1>7, Zenon DEF Recurs
=============================================================================
