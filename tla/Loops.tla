-------------------------------- MODULE Loops --------------------------------
(***************************************************************************)
(* Induction for the proofs about loops over a sequence.                   *)
(*                                                                         *)
(* The models write a loop as a recursive function of the number of turns  *)
(* taken.  What it returns is proved by induction, for which the library's *)
(* theorems take an operator; the ones here are about a set and a function *)
(* and follow from the theorem that a set of naturals has a smallest       *)
(* member.                                                                 *)
(***************************************************************************)
EXTENDS Naturals, WellFoundedInduction, TLAPS

\* Induction over the naturals for a set that is given by name.
LEMMA SetInduction ==
    ASSUME NEW T, 0 \in T, \A n \in Nat : n \in T => n + 1 \in T
    PROVE  Nat \subseteq T
<1> DEFINE Rest == Nat \ T
           Less == OpToRel(<, Nat)
<1>1. SUFFICES ASSUME Rest # {} PROVE FALSE
  OBVIOUS
<1>2. \E x \in Rest : \A y \in Rest : <<y, x>> \notin Less
  <2>1. Rest \subseteq Nat
    OBVIOUS
  <2>2. IsWellFoundedOn(Less, Nat)
    BY NatLessThanWellFounded
  <2> HIDE DEF Rest, Less
  <2> QED BY <1>1, <2>1, <2>2, WFMin
<1>3. PICK x \in Rest : \A y \in Rest : <<y, x>> \notin Less
  BY <1>2
<1>4. \A y \in Nat : y < x => y \notin Rest
  BY <1>3 DEF OpToRel
<1>5. x # 0
  OBVIOUS
<1>6. x - 1 \in Nat /\ x - 1 < x
  BY <1>5, SMT
<1>7. x - 1 \in T
  BY <1>4, <1>6
<1>8. (x - 1) + 1 \in T
  BY <1>6, <1>7
<1> QED BY <1>8, SMT

\* Induction over the turns of a loop.
LEMMA TurnInduction ==
    ASSUME NEW L \in Nat, NEW T, 0 \in T, \A n \in 0..L : n \in T /\ n < L => n + 1 \in T
    PROVE  0..L \subseteq T
<1> DEFINE U == {n \in Nat : n <= L => n \in T}
<1>1. 0 \in U
  OBVIOUS
<1>2. \A n \in Nat : n \in U => n + 1 \in U
  OBVIOUS
<1>3. Nat \subseteq U
  <2> HIDE DEF U
  <2> QED BY <1>1, <1>2, SetInduction
<1> QED BY <1>3

\* What the turns of a loop do: a function of the turn and of what the loop has so far.
Turns(L, A) == [(1..L) \X A -> A]

\* A loop of L turns that starts with base, by the number of turns it has taken.
IsLoop(f, L, A, base, turn) ==
    /\ f \in [0..L -> A]
    /\ f[0] = base
    /\ \A n \in 1..L : f[n] = turn[<<n, f[n - 1]>>]

\* Every loop defines a function of its turns.
LEMMA LoopExists ==
    ASSUME NEW A, NEW L \in Nat, NEW base \in A, NEW turn \in Turns(L, A)
    PROVE  \E f : IsLoop(f, L, A, base, turn)
<1> USE DEF Turns
<1> DEFINE Loop(f, n) == /\ f[0] = base
                         /\ \A m \in 1..n : f[m] = turn[<<m, f[m - 1]>>]
           T == {n \in 0..L : \E f \in [0..n -> A] : Loop(f, n)}
<1>1. 0 \in T
  <2>1. [m \in 0..0 |-> base] \in [0..0 -> A] /\ Loop([m \in 0..0 |-> base], 0)
    OBVIOUS
  <2>2. 0 \in 0..L
    OBVIOUS
  <2> HIDE DEF Loop
  <2> QED BY <2>1, <2>2
<1>2. ASSUME NEW n \in 0..L, n \in T, n < L PROVE n + 1 \in T
  <2>1. PICK f \in [0..n -> A] : Loop(f, n)
    BY <1>2
  <2> DEFINE next == turn[<<n + 1, f[n]>>]
             g == [m \in 0..(n + 1) |-> IF m = n + 1 THEN next ELSE f[m]]
  <2>2. next \in A
    <3>1. n + 1 \in 1..L /\ f[n] \in A
      BY <1>2
    <3>2. <<n + 1, f[n]>> \in (1..L) \X A
      BY <3>1
    <3> QED BY <3>2
  <2>3. g \in [0..(n + 1) -> A]
    <3> HIDE DEF next
    <3> QED BY <2>2
  <2>4. g[0] = base
    BY <2>1
  <2>5. ASSUME NEW m \in 1..(n + 1) PROVE g[m] = turn[<<m, g[m - 1]>>]
    <3>1. m - 1 \in 0..n /\ g[m - 1] = f[m - 1]
      OBVIOUS
    <3>2. CASE m = n + 1
      <4>1. g[m] = next /\ m - 1 = n
        BY <3>2
      <4> QED BY <3>1, <3>2, <4>1
    <3>3. CASE m # n + 1
      <4>1. m \in 1..n /\ g[m] = f[m]
        BY <3>3
      <4> QED BY <2>1, <3>1, <4>1
    <3> QED BY <3>2, <3>3
  <2>6. Loop(g, n + 1)
    <3> HIDE DEF g
    <3> QED BY <2>4, <2>5
  <2>7. n + 1 \in 0..L
    BY <1>2
  <2> HIDE DEF g, Loop
  <2> QED BY <2>3, <2>6, <2>7
<1>3. L \in T
  <2>1. 0..L \subseteq T
    <3> HIDE DEF T
    <3> QED BY <1>1, <1>2, TurnInduction
  <2> HIDE DEF T
  <2> QED BY <2>1
<1> QED BY <1>3 DEF IsLoop
=============================================================================
