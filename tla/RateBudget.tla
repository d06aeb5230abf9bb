----------------------------- MODULE RateBudget -----------------------------
(***************************************************************************)
(* What the rate limiter promises, without its map, its entries, its       *)
(* cleanup goroutine or its callers: every key has a budget that starts    *)
(* full, regains one unit per tick up to Capacity, and pays Interval units *)
(* for each admitted call.                                                 *)
(*                                                                         *)
(* The callers of Allow read the clock before they reach the bucket, by at *)
(* most MaxStall ticks, and a bucket that is handed an old reading credits *)
(* the ticks since that reading a second time: an admission may give up to *)
(* MaxStall units back.  With MaxStall = 0 this is a textbook bucket.      *)
(***************************************************************************)
EXTENDS Integers

CONSTANTS
  Keys,      \* the rate limit keys (users)
  Interval,  \* ticks it takes to regain one token
  Burst,     \* tokens of a full budget
  MaxStall   \* the oldest clock reading a caller may act upon, in ticks

ASSUME BudgetAssumption ==
  /\ Interval \in Nat \ {0}
  /\ Burst \in Nat \ {0}
  /\ MaxStall \in Nat

VARIABLES
  clock,   \* the time, in ticks
  level,   \* level[k]: what key k may still spend
  opened,  \* when the observed window was opened
  spent    \* spent[k]: calls of k admitted since the window was opened

vars == <<clock, level, opened, spent>>

Capacity == Interval * Burst

AtMostFull(n) == IF n > Capacity THEN Capacity ELSE n

Init ==
  /\ clock = 0
  /\ level = [k \in Keys |-> Capacity]
  /\ opened = 0
  /\ spent = [k \in Keys |-> 0]

\* Mutant of Tick: the budget is not capped.
TickUncapped ==
  /\ clock' = clock + 1
  /\ level' = [k \in Keys |-> level[k] + 1]
  /\ UNCHANGED <<opened, spent>>

Tick ==
  /\ clock' = clock + 1
  /\ level' = [k \in Keys |-> AtMostFull(level[k] + 1)]
  /\ UNCHANGED <<opened, spent>>

\* Mutant of Admit: an admission gives back more than the time it waited.
AdmitForFree(k) ==
  /\ level[k] >= Interval
  /\ level' = [level EXCEPT ![k] = AtMostFull(@ + MaxStall)]
  /\ spent' = [spent EXCEPT ![k] = @ + 1]
  /\ UNCHANGED <<clock, opened>>

Admit(k) ==
  /\ level[k] >= Interval
  /\ \E back \in 0 .. MaxStall :
       level' = [level EXCEPT ![k] = AtMostFull(@ - Interval + back)]
  /\ spent' = [spent EXCEPT ![k] = @ + 1]
  /\ UNCHANGED <<clock, opened>>

\* The observer starts to count anew: any moment may be the start of a window.
OpenWindow ==
  /\ opened' = clock
  /\ spent' = [k \in Keys |-> 0]
  /\ UNCHANGED <<clock, level>>

Next == Tick \/ OpenWindow \/ \E k \in Keys : Admit(k)

Spec == Init /\ [][Next]_vars

TypeOK ==
  /\ clock \in Nat
  /\ level \in [Keys -> 0 .. Capacity]
  /\ opened \in Nat
  /\ spent \in [Keys -> Nat]

\* With the types: what has been spent in the window and what is left were there when
\* the window was opened or came back since, be it through the clock or an admission.
Accounts ==
  /\ TypeOK
  /\ opened <= clock
  /\ \A k \in Keys :
       level[k] + spent[k] * Interval <= Capacity + (clock - opened) + spent[k] * MaxStall

\* In a window of w ticks, opened at any moment, a key gets at most Burst calls
\* and one more per Interval ticks: "a bucket that refills at RATE_LIMIT tokens
\* per second, with a maximum of RATE_LIMIT_BURST tokens" (README.md:339).
QuotaInAnyWindow ==
  \A k \in Keys :
    spent[k] * (Interval - MaxStall) <= Capacity + (clock - opened)
=============================================================================
