------------------------------- MODULE Loops --------------------------------
(***************************************************************************)
(* What the proofs about loops and searches rest on, whatever module they  *)
(* are about: a set of numbers has a least one, what holds at first and    *)
(* goes from one index to the next holds of all, and a recursive function  *)
(* over indices exists.                                                    *)
(***************************************************************************)
EXTENDS Integers, WellFoundedInduction, TLAPS

LEMMA NatHasMin ==
    ASSUME NEW T \in SUBSET Nat, T # {}
    PROVE  \E x \in T : \A y \in T : x <= y
  <1> DEFINE R == OpToRel(<, Nat)
  <1>1. IsWellFoundedOn(R, Nat)
    BY NatLessThanWellFounded
  <1>2. \A x, y \in Nat : y < x => <<y, x>> \in R
    BY DEF OpToRel
  <1> HIDE DEF R
  <1>3. PICK x \in T : \A y \in T : ~(<<y, x>> \in R)
    BY <1>1, WFMin
  <1>4. ASSUME NEW y \in T PROVE x <= y
    <2>1. x \in Nat /\ y \in Nat /\ ~(y < x)
      BY <1>2, <1>3
    <2> QED BY <2>1
  <1> QED BY <1>4

(* What holds at the start of a loop, and of each pass if it held before,  *)
(* holds until its end.                                                    *)
LEMMA LoopKeeps ==
    ASSUME NEW last \in Nat, NEW S, 0 \in S,
           \A n \in 1 .. last : n - 1 \in S => n \in S
    PROVE  \A n \in 0 .. last : n \in S
  <1> DEFINE T == {n \in 0 .. last : n \notin S}
  <1> SUFFICES ASSUME T # {} PROVE FALSE
    OBVIOUS
  <1>1. T \in SUBSET Nat
    OBVIOUS
  <1>2. PICK n \in T : \A m \in T : n <= m
    BY <1>1, NatHasMin
  <1>3. n \in 1 .. last /\ n - 1 \in 0 .. last
    OBVIOUS
  <1>4. n - 1 \notin T
    BY <1>2, <1>3
  <1> QED BY <1>3, <1>4

(* The functions that a recursive definition over 0 .. last may stand for: *)
(* there is one.                                                           *)
Runs(last, D, a, G) ==
    {f \in [0 .. last -> D] :
        f[0] = a /\ \A n \in 1 .. last : f[n] = G[<<n, f[n - 1]>>]}

LEMMA Recursion ==
    ASSUME NEW last \in Nat, NEW D, NEW a \in D,
           NEW G \in [(1 .. last) \X D -> D]
    PROVE  Runs(last, D, a, G) # {}
  <1> DEFINE Solves(f, m) == /\ f[0] = a
                             /\ \A n \in 1 .. m : f[n] = G[<<n, f[n - 1]>>]
             S == {m \in 0 .. last : \E f \in [0 .. m -> D] : Solves(f, m)}
  <1>1. 0 \in S
    <2> DEFINE f == [n \in 0 .. 0 |-> a]
    <2>1. f \in [0 .. 0 -> D] /\ f[0] = a
      OBVIOUS
    <2>2. 1 .. 0 = {} /\ 0 \in 0 .. last
      OBVIOUS
    <2> HIDE DEF f
    <2>3. Solves(f, 0)
      BY <2>1, <2>2
    <2> HIDE DEF Solves
    <2> QED BY <2>1, <2>2, <2>3
  <1>2. ASSUME NEW m \in 1 .. last, m - 1 \in S
        PROVE  m \in S
    <2>1. PICK f \in [0 .. m - 1 -> D] : Solves(f, m - 1)
      BY <1>2
    <2> DEFINE g == [n \in 0 .. m |-> IF n = m THEN G[<<m, f[m - 1]>>] ELSE f[n]]
    <2>2. f[m - 1] \in D /\ m \in Nat /\ m - 1 \in 0 .. m - 1
      OBVIOUS
    <2>3. G[<<m, f[m - 1]>>] \in D
      BY <2>2
    <2>4. ASSUME NEW n \in 0 .. m PROVE n = m \/ n \in 0 .. m - 1
      OBVIOUS
    <2>5. g \in [0 .. m -> D]
      BY <2>3, <2>4
    <2>6. g[m] = G[<<m, f[m - 1]>>] /\ \A n \in 0 .. m - 1 : g[n] = f[n]
      OBVIOUS
    <2> HIDE DEF g
    <2>7. g[0] = a
      BY <2>1, <2>6
    <2>8. ASSUME NEW n \in 1 .. m PROVE g[n] = G[<<n, g[n - 1]>>]
      <3>1. n - 1 \in 0 .. m - 1 /\ g[n - 1] = f[n - 1]
        BY <2>6
      <3>2. CASE n = m
        BY <2>6, <3>1, <3>2
      <3>3. CASE n # m
        <4>1. n \in 1 .. m - 1 /\ n \in 0 .. m - 1
          BY <3>3
        <4> QED BY <2>1, <2>6, <3>1, <4>1
      <3> QED BY <3>2, <3>3
    <2> QED BY <2>5, <2>7, <2>8
  <1> HIDE DEF S
  <1>3. last \in S
    BY <1>1, <1>2, LoopKeeps
  <1>4. PICK f \in [0 .. last -> D] : Solves(f, last)
    BY <1>3 DEF S
  <1>5. f \in Runs(last, D, a, G)
    BY <1>4 DEF Runs
  <1> QED BY <1>5

=============================================================================
