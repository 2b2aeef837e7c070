----------------------------- MODULE Recursion -----------------------------
(***************************************************************************)
(* Induction over the natural numbers, in a form without operators: on the *)
(* set of the numbers a formula holds for; and the functions a recursion   *)
(* over the numbers defines.  Step computes an entry from the one before;  *)
(* p stands for what else the entries depend on.                           *)
(***************************************************************************)
EXTENDS Integers, WellFoundedInduction, TLAPS

CONSTANTS
    Base(_),      \* the first entry
    Step(_, _, _) \* an entry from the one before and its number

Entry(p, f, n) == IF n = 0 THEN Base(p) ELSE Step(p, f[n - 1], n)
Solves(p, f, n) == \A k \in 0..n : f[k] = Entry(p, f, k)

------------------------------------------------------------------------------
(* A set of natural numbers that is not empty has a least element.         *)
THEOREM LeastElement ==
    ASSUME NEW S \in SUBSET Nat, S # {}
    PROVE  \E m \in S : \A k \in S : m <= k
<1> DEFINE less == OpToRel(<, Nat)
<1>1. IsWellFoundedOn(less, Nat)
  BY NatLessThanWellFounded
<1>2. \A x, y \in Nat : <<y, x>> \in less <=> y < x
  BY DEF OpToRel
<1> HIDE DEF less
<1>3. PICK m \in S : \A k \in S : ~ (<<k, m>> \in less)
  BY <1>1, WFMin
<1>4. \A k \in S : m <= k
  <2> SUFFICES ASSUME NEW k \in S PROVE m <= k
    OBVIOUS
  <2>1. m \in Nat /\ k \in Nat
    OBVIOUS
  <2>2. ~ (k < m)
    BY <1>2, <1>3, <2>1
  <2>3. QED
    BY <2>1, <2>2
<1>5. QED
  BY <1>4

(* A set that has zero, and with every number the next, has them all.      *)
THEOREM Induction ==
    ASSUME NEW S, 0 \in S, \A n \in Nat : n \in S => n + 1 \in S
    PROVE  Nat \subseteq S
<1> SUFFICES ASSUME Nat \ S # {} PROVE FALSE
  OBVIOUS
<1>1. PICK m \in Nat \ S : \A k \in Nat \ S : m <= k
  BY LeastElement
<1>2. m # 0 /\ m - 1 \in Nat
  BY <1>1
<1>3. m - 1 \in S
  BY <1>1, <1>2
<1>4. m - 1 + 1 = m
  BY <1>1
<1>5. QED
  BY <1>1, <1>2, <1>3, <1>4

(* The recursion has a solution up to every number.                        *)
LEMMA SolutionExists ==
    ASSUME NEW p
    PROVE  \A n \in Nat : \E f : Solves(p, f, n)
<1> DEFINE S == {n \in Nat : \E f : Solves(p, f, n)}
<1>1. 0 \in S
  <2>1. Solves(p, [k \in {0} |-> Base(p)], 0)
    BY DEF Solves, Entry
  <2>2. QED
    BY <2>1
<1>2. ASSUME NEW n \in Nat, n \in S PROVE n + 1 \in S
  <2>1. PICK f : Solves(p, f, n)
    BY <1>2
  <2> DEFINE g == [k \in 0..(n + 1) |-> IF k = n + 1 THEN Step(p, f[n], n + 1) ELSE f[k]]
  <2>2. \A k \in 0..n : g[k] = f[k]
    OBVIOUS
  <2>3. g[n + 1] = Step(p, f[n], n + 1)
    OBVIOUS
  <2> HIDE DEF g
  <2>4. ASSUME NEW k \in 0..(n + 1) PROVE g[k] = Entry(p, g, k)
    <3>1. CASE k = n + 1
      <4>1. k - 1 = n /\ k # 0 /\ n \in 0..n
        BY <3>1
      <4>2. QED
        BY <2>2, <2>3, <3>1, <4>1 DEF Entry
    <3>2. CASE k = 0
      BY <2>1, <2>2, <3>2 DEF Entry, Solves
    <3>3. CASE k \in 1..n
      <4>1. k \in 0..n /\ k - 1 \in 0..n /\ k # 0
        BY <3>3
      <4>2. f[k] = Step(p, f[k - 1], k)
        BY <2>1, <4>1 DEF Solves, Entry
      <4>3. QED
        BY <2>2, <4>1, <4>2 DEF Entry
    <3>4. QED
      BY <3>1, <3>2, <3>3
  <2>5. Solves(p, g, n + 1)
    BY <2>4 DEF Solves
  <2>6. QED
    BY <2>5
<1> HIDE DEF S
<1>3. Nat \subseteq S
  BY <1>1, <1>2, Induction
<1>4. QED
  BY <1>3 DEF S

(* Two solutions agree as far as both go.                                  *)
LEMMA SolutionUnique ==
    ASSUME NEW p, NEW f, NEW g, NEW m \in Nat, NEW n \in Nat, m <= n,
           Solves(p, f, m), Solves(p, g, n)
    PROVE  \A k \in 0..m : f[k] = g[k]
<1> DEFINE S == {k \in Nat : k <= m => f[k] = g[k]}
<1>1. 0 \in S
  BY DEF Solves, Entry
<1>2. ASSUME NEW k \in Nat, k \in S PROVE k + 1 \in S
  <2> SUFFICES ASSUME k + 1 <= m PROVE f[k + 1] = g[k + 1]
    OBVIOUS
  <2>1. k + 1 \in 0..m /\ k + 1 \in 0..n /\ k + 1 # 0 /\ k + 1 - 1 = k
    OBVIOUS
  <2>2. f[k + 1] = Step(p, f[k], k + 1)
    BY <2>1 DEF Solves, Entry
  <2>3. g[k + 1] = Step(p, g[k], k + 1)
    BY <2>1 DEF Solves, Entry
  <2>4. f[k] = g[k]
    BY <1>2
  <2>5. QED
    BY <2>2, <2>3, <2>4
<1> HIDE DEF S
<1>3. Nat \subseteq S
  BY <1>1, <1>2, Induction
<1>4. QED
  BY <1>3 DEF S

(* The recursion defines a function on the numbers, and on the numbers up  *)
(* to any bound.                                                           *)
THEOREM FunctionExists ==
    ASSUME NEW p, NEW D \in SUBSET Nat, \A n \in D : n # 0 => n - 1 \in D
    PROVE  \E f : f = [n \in D |-> Entry(p, f, n)]
<1> DEFINE upTo(n) == CHOOSE f : Solves(p, f, n)
           f == [n \in D |-> upTo(n)[n]]
<1>1. \A n \in Nat : Solves(p, upTo(n), n)
  BY SolutionExists
<1> HIDE DEF upTo
<1>2. ASSUME NEW n \in D PROVE f[n] = Entry(p, f, n)
  <2>1. CASE n = 0
    BY <1>1, <2>1 DEF Solves, Entry
  <2>2. CASE n # 0
    <3>1. n \in Nat /\ n - 1 \in Nat /\ n - 1 \in D /\ n \in 0..n /\ n - 1 \in 0..(n - 1) /\ n - 1 <= n
      BY <2>2
    <3>2. upTo(n)[n] = Step(p, upTo(n)[n - 1], n)
      BY <1>1, <2>2, <3>1 DEF Solves, Entry
    <3>3. Solves(p, upTo(n), n) /\ Solves(p, upTo(n - 1), n - 1)
      BY <1>1, <3>1
    <3>4. upTo(n)[n - 1] = upTo(n - 1)[n - 1]
      BY <3>1, <3>3, SolutionUnique
    <3>5. f[n] = Step(p, f[n - 1], n)
      BY <3>1, <3>2, <3>4
    <3>6. QED
      BY <2>2, <3>5 DEF Entry
  <2>3. QED
    BY <2>1, <2>2
<1>3. f = [n \in D |-> Entry(p, f, n)]
  BY <1>2
<1>4. QED
  BY <1>3
=============================================================================
