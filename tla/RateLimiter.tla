---------------------------- MODULE RateLimiter ----------------------------
(***************************************************************************)
(* internal/ratelimit: the keyed limiter.  Tool handlers call Allow(key)   *)
(* from many goroutines; one cleanup goroutine evicts the entries of keys  *)
(* not seen for TTL.  Allow reads the clock, looks the entry up under the  *)
(* mutex and asks the entry's bucket for a token after the mutex has been  *)
(* released, so the clock, other callers and the cleanup may come between. *)
(*                                                                         *)
(* entries is the heap of *entry, an entry being named by its index, so    *)
(* that a caller can go on using one the map has dropped.                  *)
(***************************************************************************)
EXTENDS TokenBucket, Sequences

CONSTANTS
  Callers,   \* goroutines that run tool handlers
  Keys,      \* rate limit keys
  TTL,       \* defaultTTL, in ticks
  MaxStall,  \* how long a call of Allow may take, in ticks: the scheduling bound
  MaxClock   \* bound of the model: the time at which the clock stops

ASSUME LimiterAssumption ==
  /\ Keys # {}
  /\ TTL \in Nat
  /\ MaxStall \in Nat
  /\ MaxClock \in Nat

VARIABLES
  clock,      \* time.Now(), in ticks
  entries,    \* every *entry allocated so far
  limiters,   \* keyedLimiter.limiters: the entry of each key, or None
  pc,         \* where each caller is in Allow
  key,        \* Allow's parameter
  now,        \* Allow's now
  held,       \* Allow's e
  at,         \* the clock as rate.Limiter.Allow read it
  sweeper,    \* the cleanup goroutine: "waiting", "evicting" or "returned"
  sweepNow,   \* evict's now
  cancelled,  \* ctx.Done() is closed
  opened,     \* observer: when its window was opened
  spent       \* observer: calls admitted for each key in its window

callerVars == <<pc, key, now, held, at>>
sweepVars == <<sweeper, sweepNow, cancelled>>
observerVars == <<opened, spent>>
vars == <<clock, entries, limiters, callerVars, sweepVars, observerVars>>

None == 0

AnyKey == CHOOSE k \in Keys : TRUE

Entry == [limiter : Bucket, lastSeen : Nat]

TypeOK ==
  /\ clock \in Nat
  /\ entries \in Seq(Entry)
  /\ limiters \in [Keys -> 0 .. Len(entries)]
  /\ pc \in [Callers -> {"idle", "lookup", "bucket", "take"}]
  /\ key \in [Callers -> Keys]
  /\ now \in [Callers -> Nat]
  /\ held \in [Callers -> 0 .. Len(entries)]
  /\ at \in [Callers -> Nat]
  /\ sweeper \in {"waiting", "evicting", "returned"}
  /\ sweepNow \in Nat
  /\ cancelled \in BOOLEAN
  /\ opened \in Nat
  /\ spent \in [Keys -> Nat]

Init ==
  /\ clock = 0
  /\ entries = <<>>
  /\ limiters = [k \in Keys |-> None]
  /\ pc = [c \in Callers |-> "idle"]
  /\ key = [c \in Callers |-> AnyKey]
  /\ now = [c \in Callers |-> 0]
  /\ held = [c \in Callers |-> None]
  /\ at = [c \in Callers |-> 0]
  /\ sweeper = "waiting"
  /\ sweepNow = 0
  /\ cancelled = FALSE
  /\ opened = 0
  /\ spent = [k \in Keys |-> 0]

-----------------------------------------------------------------------------
(* Allow *)

\* now := time.Now()
Begin(c, k) ==
  /\ pc[c] = "idle"
  /\ pc' = [pc EXCEPT ![c] = "lookup"]
  /\ key' = [key EXCEPT ![c] = k]
  /\ now' = [now EXCEPT ![c] = clock]
  /\ UNCHANGED <<clock, entries, limiters, held, at, sweepVars, observerVars>>

\* Mutant of Refreshed: lastSeen is set at creation only.
NotRefreshed(k, t) ==
  IF limiters[k] = None
    THEN Append(entries, [limiter |-> NewBucket, lastSeen |-> t])
    ELSE entries

\* A new entry for the key, or the one the map has, seen now.
Refreshed(k, t) ==
  IF limiters[k] = None
    THEN Append(entries, [limiter |-> NewBucket, lastSeen |-> t])
    ELSE [entries EXCEPT ![limiters[k]].lastSeen = t]

\* Mutant of Found: a key takes an entry whoever it belongs to.
FoundAny(k) == IF limiters[k] = None THEN Len(entries) + 1 ELSE 1

Found(k) == IF limiters[k] = None THEN Len(entries) + 1 ELSE limiters[k]

\* The critical section of Allow.
Lookup(c) ==
  /\ pc[c] = "lookup"
  /\ entries' = Refreshed(key[c], now[c])
  /\ limiters' = [limiters EXCEPT ![key[c]] = Found(key[c])]
  /\ held' = [held EXCEPT ![c] = Found(key[c])]
  /\ pc' = [pc EXCEPT ![c] = "bucket"]
  /\ UNCHANGED <<clock, key, now, at, sweepVars, observerVars>>

\* e.limiter.Allow() reads the clock anew before it takes its own mutex ...
ReadBucketClock(c) ==
  /\ pc[c] = "bucket"
  /\ at' = [at EXCEPT ![c] = clock]
  /\ pc' = [pc EXCEPT ![c] = "take"]
  /\ UNCHANGED <<clock, entries, limiters, key, now, held, sweepVars, observerVars>>

\* ... and Allow returns its answer; its locals are gone.
Return(c) ==
  /\ pc' = [pc EXCEPT ![c] = "idle"]
  /\ key' = [key EXCEPT ![c] = AnyKey]
  /\ now' = [now EXCEPT ![c] = 0]
  /\ held' = [held EXCEPT ![c] = None]
  /\ at' = [at EXCEPT ![c] = 0]
  /\ UNCHANGED <<clock, limiters, sweepVars, opened>>

Admit(c) ==
  /\ pc[c] = "take"
  /\ Admits(entries[held[c]].limiter, at[c])
  /\ entries' = [entries EXCEPT ![held[c]].limiter = TakeToken(@, at[c])]
  /\ spent' = [spent EXCEPT ![key[c]] = @ + 1]
  /\ Return(c)

Refuse(c) ==
  /\ pc[c] = "take"
  /\ ~ Admits(entries[held[c]].limiter, at[c])
  /\ UNCHANGED <<entries, spent>>
  /\ Return(c)

Allow(c) == Lookup(c) \/ ReadBucketClock(c) \/ Admit(c) \/ Refuse(c)

-----------------------------------------------------------------------------
(* The cleanup goroutine *)

\* Mutant of Tock: the clock is not read again at each tick of the ticker.
TockWithOldNow ==
  /\ sweeper = "waiting"
  /\ sweeper' = "evicting"
  /\ UNCHANGED <<clock, entries, limiters, callerVars, sweepNow, cancelled, observerVars>>

\* The ticker has fired and evict has read the clock; it may be waiting for the
\* mutex.  The ticker's period is abstracted to "now and then".
Tock ==
  /\ sweeper = "waiting"
  /\ sweeper' = "evicting"
  /\ sweepNow' = clock
  /\ UNCHANGED <<clock, entries, limiters, callerVars, cancelled, observerVars>>

Expired(k, t) == limiters[k] # None /\ t - entries[limiters[k]].lastSeen > TTL

\* The critical section of evict.
Evict ==
  /\ sweeper = "evicting"
  /\ limiters' = [k \in Keys |-> IF Expired(k, sweepNow) THEN None ELSE limiters[k]]
  /\ sweeper' = "waiting"
  /\ sweepNow' = 0
  /\ UNCHANGED <<clock, entries, callerVars, cancelled, observerVars>>

\* The server's context ends on SIGTERM; the handlers go on calling Allow.
Cancel ==
  /\ ~ cancelled
  /\ cancelled' = TRUE
  /\ UNCHANGED <<clock, entries, limiters, callerVars, sweeper, sweepNow, observerVars>>

\* With the ticker ready too, select may still choose Tock instead.
CleanupReturns ==
  /\ sweeper = "waiting"
  /\ cancelled
  /\ sweeper' = "returned"
  /\ UNCHANGED <<clock, entries, limiters, callerVars, sweepNow, cancelled, observerVars>>

-----------------------------------------------------------------------------
(* Time, and the observer *)

\* No call of Allow stays unfinished for more than MaxStall ticks.
Tick ==
  /\ clock < MaxClock
  /\ \A c \in Callers : pc[c] # "idle" => clock - now[c] < MaxStall
  /\ clock' = clock + 1
  /\ UNCHANGED <<entries, limiters, callerVars, sweepVars, observerVars>>

\* Not code: the observer starts to count anew, so that a window may be opened
\* at any moment.
OpenWindow ==
  /\ opened' = clock
  /\ spent' = [k \in Keys |-> 0]
  /\ UNCHANGED <<clock, entries, limiters, callerVars, sweepVars>>

Next ==
  \/ \E c \in Callers, k \in Keys : Begin(c, k)
  \/ \E c \in Callers : Allow(c)
  \/ Tock
  \/ Evict
  \/ Cancel
  \/ CleanupReturns
  \/ Tick
  \/ OpenWindow

\* The ticker fires again and again and the mutex is released, so the cleanup
\* goroutine gets its turns.
Fairness == WF_vars(Tock) /\ WF_vars(Evict)

Spec == Init /\ [][Next]_vars

FairSpec == Spec /\ Fairness

-----------------------------------------------------------------------------
(* Properties *)

\* The premise of the quota: a bucket has refilled by the time its key expires.
\* With the defaults (TTL 10 minutes, burst = RATE_LIMIT rounded up) it holds
\* for every RATE_LIMIT above one request in 10 minutes.
EvictionIsSlow == Capacity + 2 * MaxStall <= TTL

\* Between the mutex and the bucket, a caller holds the entry the map has for
\* its key: the cleanup has not dropped it and no second one was made, so the
\* concurrent calls of a user draw on one bucket (limiter.go:86-89).
HeldEntryIsMapped ==
  \A c \in Callers : pc[c] \in {"bucket", "take"} => limiters[key[c]] = held[c]

\* Why that is so, as an inductive invariant.  A call in flight has read the
\* clock at most MaxStall ticks ago ...
CallsAreRecent ==
  \A c \in Callers :
    /\ pc[c] # "idle" => now[c] <= clock /\ clock - now[c] <= MaxStall
    /\ pc[c] = "take" => now[c] <= at[c] /\ at[c] <= clock

\* ... its entry was last seen no earlier than MaxStall before that ...
HeldEntryIsFresh ==
  \A c \in Callers :
    pc[c] \in {"bucket", "take"} =>
      /\ held[c] # None
      /\ entries[held[c]].lastSeen >= now[c] - MaxStall

\* ... every entry belongs to one key, its times are in the past, and its
\* bucket was last drawn upon no later than two stalls after lastSeen ...
EntriesInOrder ==
  \A k \in Keys : limiters[k] # None =>
    /\ \A l \in Keys : limiters[l] = limiters[k] => l = k
    /\ entries[limiters[k]].lastSeen <= clock
    /\ entries[limiters[k]].limiter.last <= clock
    /\ entries[limiters[k]].limiter.last <= entries[limiters[k]].lastSeen + 2 * MaxStall

\* ... and the cleanup goroutine compares with a time in the past.
Inv ==
  /\ CallsAreRecent
  /\ HeldEntryIsMapped
  /\ HeldEntryIsFresh
  /\ EntriesInOrder
  /\ sweepNow <= clock

\* A user gets no more than Burst calls and one per Interval ticks in whatever
\* window, evictions and re-created entries included; each admission gives back
\* at most MaxStall ticks of credit through clock readings that overtake one
\* another.  README.md:339 promises this with MaxStall = 0.
QuotaInAnyWindow ==
  \A k \in Keys :
    spent[k] * (Interval - MaxStall) <= Capacity + (clock - opened)

\* What a key may spend now, were it asked: a key without an entry gets a full
\* bucket at its next call.
LevelOf(k) ==
  IF limiters[k] = None THEN Capacity ELSE Level(entries[limiters[k]].limiter, clock)

\* Evicting an idle user changes nothing the user could notice: the bucket that
\* is dropped is as full as the one that will replace it (limiter.go:111-115).
EvictionIsInvisible ==
  [][\A k \in Keys :
       limiters[k] # None /\ limiters'[k] = None => LevelOf(k) = Capacity]_vars

\* The limiter, with its map, its entries and its cleanup, is a budget per key.
Budget == INSTANCE RateBudget WITH level <- [k \in Keys |-> LevelOf(k)]

ImplementsBudget == Budget!Spec

\* The map does not grow for ever: the entry of a user who has gone is dropped,
\* as long as the cleanup goroutine runs.
ExpiredIsReclaimed ==
  \A k \in Keys : Expired(k, clock) ~> (~ Expired(k, clock) \/ cancelled)

=============================================================================
