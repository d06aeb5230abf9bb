-------------------------- MODULE NaturalRecursion --------------------------
(* Induction over natural numbers, with a set in the place of a predicate, and *)
(* the functions that recursion over an interval defines.                    *)
EXTENDS Integers, WellFoundedInduction, TLAPS

\* A set of natural numbers that is not empty has a least element.
LEMMA LeastElement ==
  ASSUME NEW S \in SUBSET Nat, S # {}
  PROVE  \E x \in S : \A y \in S : x <= y
<1> DEFINE R == {ss \in Nat \X Nat : ss[1] < ss[2]}
<1>1. IsWellFoundedOn(R, Nat)
  BY NatLessThanWellFounded DEF OpToRel
<1>2. PICK x \in S : \A y \in S : ~ (<<y, x>> \in R)
  <2> HIDE DEF R
  <2> QED BY <1>1, WFMin
<1>3. \A y \in S : ~ y < x
  <2> SUFFICES ASSUME NEW y \in S, y < x PROVE FALSE
    OBVIOUS
  <2>1. <<y, x>> \in Nat \X Nat /\ <<y, x>>[1] < <<y, x>>[2]
    OBVIOUS
  <2>2. <<y, x>> \in R
    BY <2>1
  <2> QED BY <1>2, <2>2
<1> QED BY <1>3

\* What holds of 0, and of every successor of what it holds of, holds of every
\* natural number.
LEMMA Induction ==
  ASSUME NEW S, 0 \in S, \A n \in Nat : n \in S => n + 1 \in S
  PROVE  \A n \in Nat : n \in S
<1> SUFFICES ASSUME Nat \ S # {} PROVE FALSE
  OBVIOUS
<1>1. PICK x \in Nat \ S : \A y \in Nat \ S : x <= y
  BY LeastElement
<1>2. x # 0 /\ x - 1 \in Nat
  BY <1>1
<1>3. x - 1 \in S
  BY <1>1, <1>2
<1> QED BY <1>1, <1>2, <1>3

\* What may happen to a value in each of n steps.
Steps(n, V) == [1 .. n -> [V -> V]]

\* f is the values before and after each step.
IsIteration(f, n, base, step) == f[0] = base /\ \A k \in 1 .. n : f[k] = step[k][f[k - 1]]

\* A value and the steps define such a function.
LEMMA Recursion ==
  ASSUME NEW n \in Nat, NEW V, NEW base \in V, NEW step \in Steps(n, V)
  PROVE  \E f \in [0 .. n -> V] : IsIteration(f, n, base, step)
<1> USE DEF Steps, IsIteration
<1> DEFINE Upto(m, f) == f[0] = base /\ \A k \in 1 .. m : f[k] = step[k][f[k - 1]]
           S == {m \in Nat : m <= n => \E f \in [0 .. m -> V] : Upto(m, f)}
<1>1. 0 \in S
  <2>1. [k \in 0 .. 0 |-> base] \in [0 .. 0 -> V] /\ Upto(0, [k \in 0 .. 0 |-> base])
    OBVIOUS
  <2> QED BY <2>1
<1>2. ASSUME NEW m \in Nat, m \in S PROVE m + 1 \in S
  <2> SUFFICES ASSUME m + 1 <= n PROVE \E f \in [0 .. m + 1 -> V] : Upto(m + 1, f)
    OBVIOUS
  <2>1. PICK f \in [0 .. m -> V] : Upto(m, f)
    BY <1>2
  <2> DEFINE next == step[m + 1][f[m]]
             g == [k \in 0 .. m + 1 |-> IF k = m + 1 THEN next ELSE f[k]]
  <2>2. f[m] \in V /\ m + 1 \in 1 .. n
    OBVIOUS
  <2>3. next \in V
    BY <2>2
  <2>4. g \in [0 .. m + 1 -> V]
    <3> HIDE DEF next
    <3> QED BY <2>3
  <2>5. g[0] = base
    BY <2>1
  <2>6. ASSUME NEW k \in 1 .. m + 1 PROVE g[k] = step[k][g[k - 1]]
    <3>1. CASE k = m + 1
      <4>1. g[k] = next /\ g[k - 1] = f[m]
        BY <3>1
      <4> QED BY <3>1, <4>1
    <3>2. CASE k \in 1 .. m
      <4>1. g[k] = f[k] /\ g[k - 1] = f[k - 1]
        BY <3>2
      <4> QED BY <2>1, <3>2, <4>1
    <3> QED BY <3>1, <3>2
  <2> QED BY <2>4, <2>5, <2>6
<1>3. n \in S
  <2> HIDE DEF S
  <2> QED BY <1>1, <1>2, Induction
<1> QED BY <1>3
=============================================================================
