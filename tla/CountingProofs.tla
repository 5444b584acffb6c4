--------------------------- MODULE CountingProofs ---------------------------
(***************************************************************************)
(* Counting up to a bound: a least element, a set that holds every number  *)
(* up to the bound, and a function that is given by a first value and a    *)
(* step.  The proofs about recursive definitions use them.                 *)
(***************************************************************************)
EXTENDS Integers, WellFoundedInduction, TLAPS

(* A non-empty set of natural numbers has a least element.                 *)
LEMMA LeastNatural ==
  ASSUME NEW T \in SUBSET Nat, T # {}
  PROVE  \E m \in T : \A h \in T : m <= h
<1>1. PICK m \in T : \A h \in T : ~(<<h, m>> \in OpToRel(<, Nat))
  BY WFMin, NatLessThanWellFounded, Zenon
<1>2. \A h \in T : ~(h < m)
  BY <1>1, Zenon DEF OpToRel
<1> QED BY <1>2

(* A set of numbers below a bound has a greatest member.                   *)
LEMMA GreatestNatural ==
  ASSUME NEW T \in SUBSET Nat, T # {}, NEW b \in Nat, \A x \in T : x <= b
  PROVE  \E m \in T : \A x \in T : x <= m
<1> DEFINE Bounds == { c \in Nat : \A x \in T : x <= c }
<1>1. Bounds \in SUBSET Nat /\ Bounds # {}
  OBVIOUS
<1>2. PICK m \in Bounds : \A c \in Bounds : m <= c
  <2> HIDE DEF Bounds
  <2> QED BY <1>1, LeastNatural
<1>3. m \in T
  <2> SUFFICES ASSUME m \notin T PROVE FALSE
    OBVIOUS
  <2>1. \A x \in T : x < m
    BY <1>2
  <2>2. PICK x \in T : TRUE
    OBVIOUS
  <2>3. m - 1 \in Bounds
    BY <2>1, <2>2
  <2> QED BY <1>2, <2>3
<1> QED BY <1>2, <1>3

(* A set of natural numbers that holds 0, and the successor of each of its *)
(* members below a bound, holds every number up to the bound.              *)
LEMMA CountingUp ==
  ASSUME NEW n \in Nat, NEW T, 0 \in T,
         \A k \in 1 .. n : k - 1 \in T => k \in T
  PROVE  \A k \in 0 .. n : k \in T
<1> DEFINE Bad == { k \in 0 .. n : k \notin T }
<1> SUFFICES ASSUME Bad # {} PROVE FALSE
  OBVIOUS
<1>0. Bad \in SUBSET Nat
  OBVIOUS
<1>1. PICK m \in Bad : \A h \in Bad : m <= h
  <2> HIDE DEF Bad
  <2> QED BY <1>0, LeastNatural
<1>2. m \in 1 .. n /\ m - 1 \in 0 .. n /\ m - 1 \notin Bad
  BY <1>1
<1>3. m - 1 \in T
  BY <1>2
<1> QED BY <1>1, <1>2, <1>3

(* g starts from base and takes one step from each number to the next.     *)
Iterates(n, base, step, g) ==
  g[0] = base /\ \A k \in 1 .. n : g[k] = step[k][g[k - 1]]

(* Such a function exists: what a recursive definition over 0 .. n needs.  *)
LEMMA IterationExists ==
  ASSUME NEW n \in Nat, NEW S, NEW base \in S, NEW step \in [1 .. n -> [S -> S]]
  PROVE  \E g \in [0 .. n -> S] : Iterates(n, base, step, g)
<1> DEFINE Steps(g, k) == g[0] = base /\ \A j \in 1 .. k : g[j] = step[j][g[j - 1]]
           T == { k \in 0 .. n : \E g \in [0 .. k -> S] : Steps(g, k) }
<1>1. 0 \in T
  <2>1. [j \in 0 .. 0 |-> base] \in [0 .. 0 -> S] /\ Steps([j \in 0 .. 0 |-> base], 0)
    OBVIOUS
  <2>2. 0 \in 0 .. n
    OBVIOUS
  <2> HIDE DEF Steps
  <2> QED BY <2>1, <2>2
<1>2. ASSUME NEW k \in 1 .. n, k - 1 \in T
      PROVE  k \in T
  <2>1. PICK g \in [0 .. (k - 1) -> S] : Steps(g, k - 1)
    BY <1>2
  <2> DEFINE h == [j \in 0 .. k |-> IF j = k THEN step[k][g[k - 1]] ELSE g[j]]
  <2>2. h \in [0 .. k -> S]
    OBVIOUS
  <2>3. h[0] = base
    BY <2>1
  <2>4. ASSUME NEW j \in 1 .. k PROVE h[j] = step[j][h[j - 1]]
    <3>1. CASE j = k
      BY <3>1
    <3>2. CASE j # k
      <4>1. j \in 1 .. (k - 1) /\ h[j] = g[j] /\ h[j - 1] = g[j - 1]
        BY <3>2
      <4> QED BY <4>1, <2>1
    <3> QED BY <3>1, <3>2
  <2>5. Steps(h, k)
    BY <2>3, <2>4
  <2>6. k \in 0 .. n
    OBVIOUS
  <2> HIDE DEF h, Steps
  <2> QED BY <2>2, <2>5, <2>6
<1>3. n \in T
  <2> HIDE DEF T
  <2>1. \A k \in 1 .. n : k - 1 \in T => k \in T
    BY <1>2
  <2>2. \A k \in 0 .. n : k \in T
    BY <1>1, <2>1, CountingUp, Zenon
  <2> QED BY <2>2
<1> QED BY <1>3 DEF Iterates
=============================================================================
