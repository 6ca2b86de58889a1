----------------------------- MODULE Iteration ------------------------------
(***************************************************************************)
(* Facts about numbers that the proofs about scans, backoffs and lists     *)
(* rest on.  They do the work of induction: a statement that fails for     *)
(* some number fails for a least one, and holds for the one before.        *)
(***************************************************************************)
EXTENDS Naturals, WellFoundedInduction, TLAPS

(* A set of numbers that is not empty has a least one.                     *)
LEMMA Least ==
    ASSUME NEW T, T \subseteq Nat, T # {}
    PROVE  \E x \in T : \A y \in T : x <= y
  <1>1. PICK x \in T : \A y \in T : <<y, x>> \notin OpToRel(<, Nat)
    BY NatLessThanWellFounded, WFMin
  <1>2. \A y \in T : ~(y < x)
    BY <1>1 DEF OpToRel
  <1> QED
    BY <1>2

(* A set that has 0, and with every number the next one, has them all.     *)
LEMMA AllOfThem ==
    ASSUME NEW T, 0 \in T, \A n \in Nat : n \in T => n + 1 \in T
    PROVE  Nat \subseteq T
  <1> DEFINE Missing == Nat \ T
  <1> SUFFICES ASSUME Missing # {} PROVE FALSE
    OBVIOUS
  <1>1. PICK n \in Missing : \A m \in Missing : n <= m
    BY Least
  <1>2. n - 1 \in Nat /\ n - 1 \in T
    BY <1>1
  <1> QED
    BY <1>1, <1>2

(* There are values that start with base and go on by step: what a         *)
(* recursive function over 0 .. N needs to be one.                         *)
Iterable(N, V, base, step) ==
    \E f \in [0 .. N -> V] :
       f[0] = base /\ \A n \in 1 .. N : f[n] = step[<<n, f[n - 1]>>]

(* A step that stays among the values gives such a function.               *)
LEMMA Iterates ==
    ASSUME NEW N \in Nat, NEW V, NEW base \in V,
           NEW step \in [(1 .. N) \X V -> V]
    PROVE  Iterable(N, V, base, step)
  <1> DEFINE Fits(f, n) ==
                /\ f \in [0 .. n -> V] /\ f[0] = base
                /\ \A i \in 1 .. n : f[i] = step[<<i, f[i - 1]>>]
             T == {n \in Nat : n <= N => \E f : Fits(f, n)}
  <1>1. 0 \in T
    <2>1. Fits([i \in 0 .. 0 |-> base], 0)
      OBVIOUS
    <2> QED
      BY <2>1
  <1>2. ASSUME NEW n \in Nat, n \in T PROVE n + 1 \in T
    <2> SUFFICES ASSUME n + 1 <= N PROVE \E g : Fits(g, n + 1)
      OBVIOUS
    <2>1. PICK f : Fits(f, n)
      BY <1>2
    <2> DEFINE v == step[<<n + 1, f[n]>>]
               g == [i \in 0 .. n + 1 |-> IF i <= n THEN f[i] ELSE v]
    <2>2. v \in V
      <3>1. f[n] \in V /\ n + 1 \in 1 .. N
        BY <2>1
      <3> QED
        BY <3>1
    <2>3. g \in [0 .. n + 1 -> V] /\ g[0] = base
      <3> HIDE DEF v
      <3> QED
        BY <2>1, <2>2
    <2>4. ASSUME NEW i \in 1 .. n + 1 PROVE g[i] = step[<<i, g[i - 1]>>]
      <3>1. g[i - 1] = f[i - 1]
        OBVIOUS
      <3>2. CASE i <= n
        <4>1. g[i] = f[i] /\ f[i] = step[<<i, f[i - 1]>>]
          BY <2>1, <3>2
        <4> QED
          BY <3>1, <4>1
      <3>3. CASE i = n + 1
        <4>1. i - 1 = n /\ g[i] = v
          BY <3>3
        <4> HIDE DEF g
        <4> QED
          BY <3>1, <3>3, <4>1
      <3> QED
        BY <3>2, <3>3
    <2> HIDE DEF g
    <2>5. Fits(g, n + 1)
      BY <2>3, <2>4
    <2> QED
      BY <2>5
  <1>3. \E f : Fits(f, N)
    <2> HIDE DEF T
    <2>1. Nat \subseteq T
      <3>1. \A n \in Nat : n \in T => n + 1 \in T
        BY <1>2
      <3> QED
        BY ONLY <1>1, <3>1, AllOfThem
    <2>2. N \in T
      BY <2>1
    <2> HIDE DEF Fits
    <2> QED
      BY <2>2 DEF T
  <1> QED
    BY <1>3 DEF Iterable
=============================================================================
