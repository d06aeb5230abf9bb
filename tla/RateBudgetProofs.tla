-------------------------- MODULE RateBudgetProofs --------------------------
(* Type correctness of the budgets, and the quota for every window.        *)
EXTENDS RateBudget, TLAPS

\* A full budget is a whole number of units.
LEMMA CapacityIsNat == Capacity \in Nat
  BY BudgetAssumption, SMT DEF Capacity

\* Every variable keeps its type, whatever the keys, the rate and the burst:
\* in particular no budget goes below zero or above Capacity.
THEOREM TypeCorrect == Spec => []TypeOK
<1>1. Init => TypeOK
  BY CapacityIsNat DEF Init, TypeOK
<1>2. TypeOK /\ [Next]_vars => TypeOK'
  <2> SUFFICES ASSUME TypeOK, [Next]_vars PROVE TypeOK'
    OBVIOUS
  <2> USE CapacityIsNat DEF TypeOK
  <2>1. CASE Tick
    BY <2>1 DEF Tick, AtMostFull
  <2>2. CASE OpenWindow
    BY <2>2 DEF OpenWindow
  <2>3. ASSUME NEW k \in Keys, Admit(k) PROVE TypeOK'
    <3>1. PICK back \in 0 .. MaxStall :
            level' = [level EXCEPT ![k] = AtMostFull(@ - Interval + back)]
      BY <2>3 DEF Admit
    <3>2. AtMostFull(level[k] - Interval + back) \in 0 .. Capacity
      BY <2>3, BudgetAssumption DEF Admit, AtMostFull
    <3>3. level' \in [Keys -> 0 .. Capacity]
      BY <3>1, <3>2
    <3> QED
      BY <2>3, <3>3 DEF Admit
  <2>4. CASE UNCHANGED vars
    BY <2>4 DEF vars
  <2> QED
    BY <2>1, <2>2, <2>3, <2>4 DEF Next
<1> QED
  BY <1>1, <1>2, PTL DEF Spec

\* Multiplication by a constant, one step at a time.
LEMMA OneMore ==
  ASSUME NEW n \in Nat, NEW d \in Int
  PROVE  /\ (n + 1) * d = n * d + d
         /\ n * d \in Int
         /\ 0 * d = 0
  BY SMT

\* The books balance: this is inductive, and the quota follows from it.
THEOREM AccountsBalance == Spec => []Accounts
<1>1. Init => Accounts
  <2>1. Init => TypeOK
    BY CapacityIsNat DEF Init, TypeOK
  <2> QED
    BY <2>1, CapacityIsNat, BudgetAssumption, OneMore, 0 \in Nat DEF Init, Accounts
<1>2. TypeOK /\ TypeOK' /\ Accounts /\ [Next]_vars => Accounts'
  <2> SUFFICES ASSUME TypeOK, TypeOK', Accounts, [Next]_vars PROVE Accounts'
    OBVIOUS
  <2> USE CapacityIsNat, BudgetAssumption DEF TypeOK, Accounts
  <2> SUFFICES ASSUME opened' <= clock', NEW k \in Keys
               PROVE  level'[k] + spent'[k] * Interval
                        <= Capacity + (clock' - opened') + spent'[k] * MaxStall
    BY DEF Next, Tick, OpenWindow, Admit, vars
  <2>0. /\ spent[k] * Interval \in Int
        /\ spent[k] * MaxStall \in Int
    BY OneMore
  <2>1. CASE Tick
    <3>1. level'[k] <= level[k] + 1
      BY <2>1 DEF Tick, AtMostFull
    <3> QED
      BY <2>0, <2>1, <3>1 DEF Tick
  <2>2. CASE OpenWindow
    <3>1. spent'[k] = 0 /\ level'[k] = level[k] /\ level[k] <= Capacity
      BY <2>2 DEF OpenWindow
    <3> QED
      BY <2>2, <3>1, OneMore DEF OpenWindow
  <2>3. ASSUME NEW l \in Keys, Admit(l) PROVE
          level'[k] + spent'[k] * Interval
             <= Capacity + (clock' - opened') + spent'[k] * MaxStall
    <3>1. CASE k = l
      <4>1. level'[k] <= level[k] - Interval + MaxStall
        BY <2>3, <3>1 DEF Admit, AtMostFull
      <4>2. spent'[k] = spent[k] + 1
        BY <2>3, <3>1 DEF Admit
      <4>3. /\ spent'[k] * Interval = spent[k] * Interval + Interval
            /\ spent'[k] * MaxStall = spent[k] * MaxStall + MaxStall
        <5>1. spent[k] \in Nat
          OBVIOUS
        <5>2. (spent[k] + 1) * Interval = spent[k] * Interval + Interval
          BY <5>1, SMT
        <5>3. (spent[k] + 1) * MaxStall = spent[k] * MaxStall + MaxStall
          BY <5>1, SMT
        <5> QED
          BY <4>2, <5>2, <5>3
      <4> QED
        BY <2>0, <2>3, <4>1, <4>3 DEF Admit
    <3>2. CASE k # l
      <4>1. level'[k] = level[k] /\ spent'[k] = spent[k]
        BY <2>3, <3>2 DEF Admit
      <4> QED
        BY <2>3, <4>1 DEF Admit
    <3> QED
      BY <3>1, <3>2
  <2>4. CASE UNCHANGED vars
    BY <2>4 DEF vars
  <2> QED
    BY <2>1, <2>2, <2>3, <2>4 DEF Next
<1> QED
  BY <1>1, <1>2, TypeCorrect, PTL DEF Spec

\* No key is admitted more often than its burst and its rate allow, in any
\* window, whatever the order of the calls.
THEOREM QuotaHolds == Spec => []QuotaInAnyWindow
<1>1. TypeOK /\ Accounts => QuotaInAnyWindow
  <2> SUFFICES ASSUME TypeOK, Accounts, NEW k \in Keys
               PROVE  spent[k] * (Interval - MaxStall) <= Capacity + (clock - opened)
    BY DEF QuotaInAnyWindow
  <2> USE CapacityIsNat, BudgetAssumption DEF TypeOK, Accounts
  <2>1. spent[k] * (Interval - MaxStall) = spent[k] * Interval - spent[k] * MaxStall
    BY SMT
  <2>2. /\ spent[k] * Interval \in Int
        /\ spent[k] * MaxStall \in Int
    BY OneMore
  <2>3. level[k] >= 0
    OBVIOUS
  <2> QED
    BY <2>1, <2>2, <2>3
<1> QED
  BY <1>1, TypeCorrect, AccountsBalance, PTL
=============================================================================
