------------------------- MODULE RateLimiterProofs -------------------------
(* The keyed limiter's theorems, for any number of callers and keys, any   *)
(* rate, burst and TTL, and calls of any bounded duration.                 *)
EXTENDS RateLimiter, TLAPS

-----------------------------------------------------------------------------
(* Buckets and entries *)

LEMMA CapacityIsNat == Capacity \in Nat /\ Capacity >= Interval
<1>1. Interval \in Nat /\ Burst \in Nat /\ Burst >= 1
  BY BucketAssumption
<1>2. Interval * Burst >= Interval /\ Interval * Burst \in Nat
  BY <1>1, SMT
<1> QED
  BY <1>2 DEF Capacity

LEMMA NewBucketIsFull ==
  /\ NewBucket \in Bucket
  /\ \A t \in Nat : Level(NewBucket, t) = Capacity
  BY CapacityIsNat DEF NewBucket, Bucket, Level, Elapsed, AtMostFull

LEMMA LevelType ==
  ASSUME NEW b \in Bucket, NEW t \in Nat
  PROVE  Level(b, t) \in 0 .. Capacity
  BY CapacityIsNat DEF Bucket, Level, Elapsed, AtMostFull

LEMMA TakeTokenType ==
  ASSUME NEW b \in Bucket, NEW t \in Nat, Admits(b, t)
  PROVE  TakeToken(b, t) \in Bucket
  BY LevelType, CapacityIsNat, BucketAssumption DEF Bucket, TakeToken, Admits

\* A bucket that nobody has drawn upon for as long as it takes to fill it up is
\* full.
LEMMA IdleBucketIsFull ==
  ASSUME NEW b \in Bucket, NEW t \in Nat, b.last + Capacity <= t
  PROVE  Level(b, t) = Capacity
  BY CapacityIsNat DEF Bucket, Level, Elapsed, AtMostFull

\* One tick gives a bucket one unit, unless it is full.
LEMMA TickLevel ==
  ASSUME NEW b \in Bucket, NEW t \in Nat, b.last <= t
  PROVE  Level(b, t + 1) = AtMostFull(Level(b, t) + 1)
  BY CapacityIsNat DEF Bucket, Level, Elapsed, AtMostFull

\* A token taken at an earlier reading of the clock: what is left is what a
\* token taken now would leave, and no more than the age of the reading.
LEMMA TakeTokenLevel ==
  ASSUME NEW b \in Bucket, NEW a \in Nat, NEW t \in Nat, NEW d \in Nat,
         a <= t, t <= a + d, b.last <= t, Admits(b, a)
  PROVE  /\ Level(b, t) >= Interval
         /\ \E back \in 0 .. d :
              Level(TakeToken(b, a), t) = AtMostFull(Level(b, t) - Interval + back)
<1> DEFINE back == Level(b, a) + (t - a) - Level(b, t)
<1> USE CapacityIsNat, BucketAssumption
        DEF Bucket, Level, Elapsed, AtMostFull, Admits, TakeToken
<1>1. Level(b, a) <= Level(b, t) /\ Level(b, t) <= Level(b, a) + (t - a)
  OBVIOUS
<1>2. back \in 0 .. d
  BY <1>1
<1>3. Level(TakeToken(b, a), t) = AtMostFull(Level(b, t) - Interval + back)
  OBVIOUS
<1> QED
  BY <1>1, <1>2, <1>3

LEMMA EntryUpdate ==
  ASSUME NEW s \in Seq(Entry), NEW i \in 1 .. Len(s), NEW e \in Entry
  PROVE  /\ [s EXCEPT ![i] = e] \in Seq(Entry)
         /\ Len([s EXCEPT ![i] = e]) = Len(s)
         /\ \A j \in 1 .. Len(s) :
              [s EXCEPT ![i] = e][j] = IF j = i THEN e ELSE s[j]
  OBVIOUS

LEMMA EntryAt ==
  ASSUME NEW s \in Seq(Entry), NEW i \in 1 .. Len(s)
  PROVE  s[i] \in Entry
  OBVIOUS

LEMMA NoEntryUpdate ==
  ASSUME NEW s \in Seq(Entry), NEW e
  PROVE  [s EXCEPT ![None] = e] = s
  BY DEF None

LEMMA AnyKeyIsKey == AnyKey \in Keys
  BY LimiterAssumption DEF AnyKey

-----------------------------------------------------------------------------
(* Type correctness *)

\* What Lookup makes of the heap and the map.
LEMMA LookupType ==
  ASSUME TypeOK, NEW k \in Keys, NEW t \in Nat
  PROVE  /\ Refreshed(k, t) \in Seq(Entry)
         /\ Len(Refreshed(k, t)) >= Len(entries)
         /\ Found(k) \in 1 .. Len(Refreshed(k, t))
         /\ Refreshed(k, t)[Found(k)].lastSeen = t
         /\ Refreshed(k, t)[Found(k)].limiter =
              IF limiters[k] = None THEN NewBucket ELSE entries[limiters[k]].limiter
         /\ \A i \in 1 .. Len(entries) :
              i # Found(k) => Refreshed(k, t)[i] = entries[i]
<1> USE DEF TypeOK, Refreshed, Found
<1>1. CASE limiters[k] = None
  <2>1. [limiter |-> NewBucket, lastSeen |-> t] \in Entry
    BY NewBucketIsFull DEF Entry
  <2> QED
    BY <1>1, <2>1
<1>2. CASE limiters[k] # None
  <2> DEFINE i == limiters[k]
             e == [entries[i] EXCEPT !.lastSeen = t]
  <2>1. i \in 1 .. Len(entries)
    BY <1>2 DEF None
  <2>2a. entries[i] \in Entry
    BY <2>1, EntryAt DEF TypeOK
  <2>2. entries[i] \in Entry /\ e \in Entry
    BY <2>2a DEF Entry
  <2>3. Refreshed(k, t) = [entries EXCEPT ![i] = e]
    BY <1>2
  <2>4. e.lastSeen = t /\ e.limiter = entries[i].limiter
    BY <2>2 DEF Entry
  <2> HIDE DEF e, Refreshed
  <2>5. Found(k) = i
    BY <1>2
  <2> QED
    BY <1>2, <2>1, <2>2, <2>3, <2>4, <2>5, EntryUpdate
<1> QED
  BY <1>1, <1>2

\* Every variable keeps its type, whatever the interleaving: the map points to
\* entries that exist and no bucket holds less than nothing or more than burst.
THEOREM TypeCorrect == Spec => []TypeOK
<1>1. Init => TypeOK
  <2> SUFFICES ASSUME Init PROVE TypeOK
    OBVIOUS
  <2>1. entries \in Seq(Entry) /\ 0 \in 0 .. Len(entries)
    BY DEF Init
  <2>2. /\ limiters \in [Keys -> 0 .. Len(entries)]
        /\ held \in [Callers -> 0 .. Len(entries)]
    BY <2>1 DEF Init, None
  <2> QED
    BY <2>1, <2>2, AnyKeyIsKey DEF Init, TypeOK
<1>2. TypeOK /\ [Next]_vars => TypeOK'
  <2> SUFFICES ASSUME TypeOK, [Next]_vars PROVE TypeOK'
    OBVIOUS
  <2>1. ASSUME NEW c \in Callers, NEW k \in Keys, Begin(c, k) PROVE TypeOK'
    BY <2>1 DEF Begin, TypeOK, sweepVars, observerVars
  <2>2. ASSUME NEW c \in Callers, Lookup(c) PROVE TypeOK'
    <3>1. key[c] \in Keys /\ now[c] \in Nat
      BY DEF TypeOK
    <3>2. /\ entries' \in Seq(Entry)
          /\ Len(entries') \in Nat /\ Len(entries) \in Nat
          /\ Len(entries') >= Len(entries)
          /\ Found(key[c]) \in 1 .. Len(entries')
      BY <2>2, <3>1, LookupType DEF Lookup, TypeOK
    <3>3. limiters' \in [Keys -> 0 .. Len(entries')]
      BY <2>2, <3>1, <3>2 DEF Lookup, TypeOK
    <3>4. held' \in [Callers -> 0 .. Len(entries')]
      BY <2>2, <3>1, <3>2 DEF Lookup, TypeOK
    <3> QED
      BY <2>2, <3>2, <3>3, <3>4 DEF Lookup, TypeOK, sweepVars, observerVars
  <2>3. ASSUME NEW c \in Callers, ReadBucketClock(c) PROVE TypeOK'
    BY <2>3 DEF ReadBucketClock, TypeOK, sweepVars, observerVars
  <2>4. ASSUME NEW c \in Callers, Admit(c) PROVE TypeOK'
    <3>1. entries' \in Seq(Entry) /\ Len(entries') = Len(entries)
      <4>1. CASE held[c] = None
        BY <2>4, <4>1, NoEntryUpdate DEF Admit, TypeOK
      <4>2. CASE held[c] # None
        <5> DEFINE i == held[c]
                   e == [entries[i] EXCEPT !.limiter = TakeToken(@, at[c])]
        <5>1. i \in 1 .. Len(entries)
          BY <4>2 DEF TypeOK, None
        <5>2. entries[i] \in Entry /\ at[c] \in Nat
          BY <5>1 DEF TypeOK
        <5>3. TakeToken(entries[i].limiter, at[c]) \in Bucket
          BY <2>4, <5>2, TakeTokenType DEF Admit, Entry
        <5>4. e \in Entry
          BY <5>2, <5>3 DEF Entry
        <5>5. entries' = [entries EXCEPT ![i] = e]
          BY <2>4 DEF Admit
        <5> HIDE DEF e
        <5> QED
          BY <5>1, <5>4, <5>5, EntryUpdate DEF TypeOK
      <4> QED
        BY <4>1, <4>2
    <3> QED
      BY <2>4, <3>1, AnyKeyIsKey DEF Admit, Return, TypeOK, sweepVars, None
  <2>5. ASSUME NEW c \in Callers, Refuse(c) PROVE TypeOK'
    BY <2>5, AnyKeyIsKey DEF Refuse, Return, TypeOK, sweepVars, None
  <2>6. CASE Tock
    BY <2>6 DEF Tock, TypeOK, callerVars, observerVars
  <2>7. CASE Evict
    BY <2>7 DEF Evict, TypeOK, callerVars, observerVars, None
  <2>8. CASE Cancel \/ CleanupReturns
    BY <2>8 DEF Cancel, CleanupReturns, TypeOK, callerVars, observerVars
  <2>9. CASE Tick
    BY <2>9 DEF Tick, TypeOK, callerVars, sweepVars, observerVars
  <2>10. CASE OpenWindow
    BY <2>10 DEF OpenWindow, TypeOK, callerVars, sweepVars
  <2>11. CASE UNCHANGED vars
    BY <2>11 DEF vars, TypeOK, callerVars, sweepVars, observerVars
  <2> QED
    BY <2>1, <2>2, <2>3, <2>4, <2>5, <2>6, <2>7, <2>8, <2>9, <2>10, <2>11
       DEF Next, Allow
<1> QED
  BY <1>1, <1>2, PTL DEF Spec

-----------------------------------------------------------------------------
(* The inductive invariant, an action at a time *)

LEMMA BeginKeepsInv ==
  ASSUME TypeOK, Inv, NEW c \in Callers, NEW k \in Keys, Begin(c, k)
  PROVE  Inv'
<1> USE LimiterAssumption DEF Begin, TypeOK, sweepVars, observerVars
<1>1. CallsAreRecent'
  BY DEF Inv, CallsAreRecent
<1>2. HeldEntryIsMapped'
  BY DEF Inv, HeldEntryIsMapped
<1>3. HeldEntryIsFresh'
  BY DEF Inv, HeldEntryIsFresh
<1>4. EntriesInOrder'
  BY DEF Inv, EntriesInOrder
<1>5. (sweepNow <= clock)'
  BY DEF Inv
<1> QED
  BY <1>1, <1>2, <1>3, <1>4, <1>5 DEF Inv

\* The caller's now is at most MaxStall old, so that setting lastSeen to it can
\* take no more than that away from the other callers of the key.
LEMMA LookupKeepsInv ==
  ASSUME TypeOK, Inv, NEW c \in Callers, Lookup(c)
  PROVE  Inv'
<1> DEFINE k == key[c]
           t == now[c]
           f == Found(k)
<1>1. k \in Keys /\ t \in Nat /\ t <= clock /\ clock - t <= MaxStall
  BY DEF Inv, CallsAreRecent, Lookup, TypeOK
<1>2. /\ entries' = Refreshed(k, t)
      /\ limiters' = [limiters EXCEPT ![k] = f]
      /\ held' = [held EXCEPT ![c] = f]
      /\ pc' = [pc EXCEPT ![c] = "bucket"]
      /\ clock' = clock /\ now' = now /\ key' = key /\ at' = at /\ sweepNow' = sweepNow
  BY DEF Lookup, sweepVars
<1>3. /\ entries'[f].lastSeen = t
      /\ entries'[f].limiter =
           IF limiters[k] = None THEN NewBucket ELSE entries[limiters[k]].limiter
      /\ f \in Nat /\ f # None
      /\ \A i \in 1 .. Len(entries) : i # f => entries'[i] = entries[i]
  BY <1>1, <1>2, LookupType DEF None
\* No other key had this entry.
<1>4. \A l \in Keys : l # k => limiters[l] # f
  BY <1>1 DEF Found, Inv, EntriesInOrder, TypeOK, None
<1> HIDE DEF f
<1>5. CallsAreRecent'
  BY <1>2 DEF Inv, CallsAreRecent, TypeOK, Lookup
<1>6. HeldEntryIsMapped'
  <2> SUFFICES ASSUME NEW d \in Callers, pc'[d] \in {"bucket", "take"}
               PROVE  limiters'[key[d]] = held'[d]
    BY <1>2 DEF HeldEntryIsMapped
  <2>1. CASE d = c
    BY <1>1, <1>2, <2>1 DEF TypeOK
  <2>2. CASE d # c
    <3>1. limiters[key[d]] = held[d] /\ held[d] # None /\ key[d] \in Keys
      BY <1>2, <2>2 DEF Inv, HeldEntryIsMapped, HeldEntryIsFresh, TypeOK
    <3>2. key[d] = k => f = held[d]
      BY <3>1 DEF f, Found
    <3> QED
      BY <1>1, <1>2, <2>2, <3>1, <3>2 DEF TypeOK
  <2> QED
    BY <2>1, <2>2
<1>7. HeldEntryIsFresh'
  <2> SUFFICES ASSUME NEW d \in Callers, pc'[d] \in {"bucket", "take"}
               PROVE  held'[d] # None /\ entries'[held'[d]].lastSeen >= now[d] - MaxStall
    BY <1>2 DEF HeldEntryIsFresh
  <2>0. now[d] \in Nat /\ clock \in Nat /\ MaxStall \in Nat
    BY LimiterAssumption DEF TypeOK
  <2>1. CASE d = c
    BY <1>1, <1>2, <1>3, <2>0, <2>1 DEF TypeOK
  <2>2. CASE d # c
    <3>1. /\ held'[d] = held[d] /\ held[d] # None /\ held[d] \in 1 .. Len(entries)
          /\ entries[held[d]].lastSeen >= now[d] - MaxStall
          /\ now[d] <= clock
      BY <1>2, <2>2 DEF Inv, HeldEntryIsFresh, CallsAreRecent, TypeOK, None
    <3>2. CASE held[d] = f
      BY <1>1, <1>3, <2>0, <3>1, <3>2
    <3>3. CASE held[d] # f
      BY <1>3, <3>1, <3>3
    <3> QED
      BY <3>2, <3>3
  <2> QED
    BY <2>1, <2>2
<1>8. EntriesInOrder'
  <2> SUFFICES ASSUME NEW l \in Keys, limiters'[l] # None
               PROVE  /\ \A m \in Keys : limiters'[m] = limiters'[l] => m = l
                      /\ entries'[limiters'[l]].lastSeen <= clock
                      /\ entries'[limiters'[l]].limiter.last <= clock
                      /\ entries'[limiters'[l]].limiter.last
                           <= entries'[limiters'[l]].lastSeen + 2 * MaxStall
    BY <1>2 DEF EntriesInOrder
  <2>0. clock \in Nat /\ MaxStall \in Nat /\ limiters \in [Keys -> Nat]
    BY LimiterAssumption DEF TypeOK
  <2>1. CASE l = k
    <3>1. limiters'[l] = f
      BY <1>1, <1>2, <2>0, <2>1
    <3>2. entries'[f].limiter.last <= clock /\ entries'[f].limiter.last \in Nat
      <4>1. CASE limiters[k] = None
        BY <1>3, <2>0, <4>1 DEF NewBucket
      <4>2. CASE limiters[k] # None
        <5>1. limiters[k] \in 1 .. Len(entries)
          BY <1>1, <4>2 DEF TypeOK, None
        <5>2. entries[limiters[k]] \in Entry
          BY <5>1, EntryAt DEF TypeOK
        <5>3. entries[limiters[k]].limiter.last \in Nat
          BY <5>2 DEF Entry, Bucket
        <5> QED
          BY <1>1, <1>3, <4>2, <5>3 DEF Inv, EntriesInOrder
      <4> QED
        BY <4>1, <4>2
    <3>3. entries'[f].limiter.last <= entries'[f].lastSeen + 2 * MaxStall
      BY <1>1, <1>3, <2>0, <3>2
    <3>4. \A m \in Keys : limiters'[m] = f => m = l
      BY <1>1, <1>2, <1>4, <2>0, <2>1
    <3> QED
      BY <1>1, <1>3, <3>1, <3>2, <3>3, <3>4
  <2>2. CASE l # k
    <3>1. limiters'[l] = limiters[l] /\ limiters[l] \in 1 .. Len(entries)
      BY <1>2, <2>2 DEF TypeOK, None
    <3>2. entries'[limiters[l]] = entries[limiters[l]]
      BY <1>3, <1>4, <2>2, <3>1
    <3>3. \A m \in Keys : limiters'[m] = limiters[l] => m = l
      BY <1>1, <1>2, <1>4, <2>0, <2>2, <3>1 DEF Inv, EntriesInOrder, None
    <3> QED
      BY <3>1, <3>2, <3>3 DEF Inv, EntriesInOrder, None
  <2> QED
    BY <2>1, <2>2
<1>9. (sweepNow <= clock)'
  BY <1>2 DEF Inv
<1> QED
  BY <1>5, <1>6, <1>7, <1>8, <1>9 DEF Inv

LEMMA ReadBucketClockKeepsInv ==
  ASSUME TypeOK, Inv, NEW c \in Callers, ReadBucketClock(c)
  PROVE  Inv'
<1> USE DEF ReadBucketClock, TypeOK, sweepVars
<1>1. CallsAreRecent'
  BY DEF Inv, CallsAreRecent
<1>2. HeldEntryIsMapped'
  BY DEF Inv, HeldEntryIsMapped
<1>3. HeldEntryIsFresh'
  BY DEF Inv, HeldEntryIsFresh
<1>4. EntriesInOrder'
  BY DEF Inv, EntriesInOrder
<1> QED
  BY <1>1, <1>2, <1>3, <1>4 DEF Inv

\* An admitted call draws on the bucket of its key's entry, at a time no later
\* than MaxStall after its now, which is no later than MaxStall after lastSeen.
LEMMA AdmitKeepsInv ==
  ASSUME TypeOK, Inv, NEW c \in Callers, Admit(c)
  PROVE  Inv'
<1> DEFINE h == held[c]
           e == [entries[h] EXCEPT !.limiter = TakeToken(@, at[c])]
<1>1. /\ pc' = [pc EXCEPT ![c] = "idle"]
      /\ key' = [key EXCEPT ![c] = AnyKey]
      /\ now' = [now EXCEPT ![c] = 0]
      /\ held' = [held EXCEPT ![c] = None]
      /\ at' = [at EXCEPT ![c] = 0]
      /\ clock' = clock /\ limiters' = limiters /\ sweepNow' = sweepNow
  BY DEF Admit, Return, sweepVars
<1>2. /\ h \in 1 .. Len(entries)
      /\ h = limiters[key[c]] /\ key[c] \in Keys
      /\ entries[h].lastSeen >= now[c] - MaxStall
      /\ at[c] <= clock /\ clock - now[c] <= MaxStall
      /\ at[c] \in Nat /\ now[c] \in Nat /\ clock \in Nat
  BY DEF Admit, Inv, HeldEntryIsMapped, HeldEntryIsFresh, CallsAreRecent, TypeOK, None
<1>3. entries[h] \in Entry
  BY <1>2, EntryAt DEF TypeOK
<1>4. /\ e.lastSeen = entries[h].lastSeen /\ e.limiter.last = at[c]
      /\ entries' = [entries EXCEPT ![h] = e]
  BY <1>3 DEF Admit, Entry, TakeToken
<1> HIDE DEF e
<1>5. \A i \in 1 .. Len(entries) : entries'[i] = IF i = h THEN e ELSE entries[i]
  BY <1>4 DEF TypeOK
<1>6. CallsAreRecent'
  BY <1>1 DEF Inv, CallsAreRecent, TypeOK
<1>7. HeldEntryIsMapped'
  BY <1>1 DEF Inv, HeldEntryIsMapped, TypeOK
<1>8. HeldEntryIsFresh'
  <2> SUFFICES ASSUME NEW d \in Callers, pc'[d] \in {"bucket", "take"}
               PROVE  held'[d] # None /\ entries'[held'[d]].lastSeen >= now'[d] - MaxStall
    BY DEF HeldEntryIsFresh
  <2>1. d # c /\ held'[d] = held[d] /\ now'[d] = now[d] /\ held[d] # None
    BY <1>1 DEF TypeOK, Inv, HeldEntryIsFresh
  <2>2. /\ entries[held[d]].lastSeen >= now[d] - MaxStall
        /\ held[d] \in 1 .. Len(entries)
    BY <1>1, <2>1 DEF TypeOK, Inv, HeldEntryIsFresh, None
  <2> QED
    BY <1>4, <1>5, <2>1, <2>2
<1>9. EntriesInOrder'
  <2> SUFFICES ASSUME NEW l \in Keys, limiters[l] # None
               PROVE  /\ entries'[limiters[l]].lastSeen <= clock
                      /\ entries'[limiters[l]].limiter.last <= clock
                      /\ entries'[limiters[l]].limiter.last
                           <= entries'[limiters[l]].lastSeen + 2 * MaxStall
    BY <1>1 DEF EntriesInOrder, Inv
  <2>1. limiters[l] \in 1 .. Len(entries)
    BY DEF TypeOK, None
  <2>2. CASE limiters[l] = h
    <3>1. entries[h].lastSeen <= clock /\ entries[h].lastSeen \in Nat
      BY <1>3, <2>2 DEF Inv, EntriesInOrder, Entry
    <3>2. entries'[limiters[l]] = e
      BY <1>5, <2>1, <2>2
    <3>3. e.limiter.last <= clock /\ e.lastSeen <= clock
      BY <1>2, <1>4, <3>1
    <3>4. at[c] <= entries[h].lastSeen + 2 * MaxStall
      BY <1>2, <3>1, LimiterAssumption
    <3>5. e.limiter.last <= e.lastSeen + 2 * MaxStall
      BY <1>4, <3>4
    <3> QED
      BY <3>2, <3>3, <3>5
  <2>3. CASE limiters[l] # h
    BY <1>5, <2>1, <2>3 DEF Inv, EntriesInOrder
  <2> QED
    BY <2>2, <2>3
<1> QED
  BY <1>1, <1>6, <1>7, <1>8, <1>9 DEF Inv

LEMMA RefuseKeepsInv ==
  ASSUME TypeOK, Inv, NEW c \in Callers, Refuse(c)
  PROVE  Inv'
<1> USE DEF Refuse, Return, TypeOK, sweepVars
<1>1. CallsAreRecent'
  BY DEF Inv, CallsAreRecent
<1>2. HeldEntryIsMapped'
  BY DEF Inv, HeldEntryIsMapped
<1>3. HeldEntryIsFresh'
  BY DEF Inv, HeldEntryIsFresh
<1>4. EntriesInOrder'
  BY DEF Inv, EntriesInOrder
<1> QED
  BY <1>1, <1>2, <1>3, <1>4 DEF Inv

\* The key of a call in flight is not expired: its entry was seen at most two
\* stalls ago, and eviction waits longer.
LEMMA HeldEntryIsNotExpired ==
  ASSUME EvictionIsSlow, TypeOK, Inv, NEW c \in Callers, pc[c] \in {"bucket", "take"}
  PROVE  ~ Expired(key[c], sweepNow)
<1>1. /\ limiters[key[c]] = held[c]
      /\ held[c] \in 1 .. Len(entries)
      /\ entries[held[c]].lastSeen >= now[c] - MaxStall
      /\ clock - now[c] <= MaxStall
      /\ sweepNow <= clock
  BY DEF Inv, HeldEntryIsMapped, HeldEntryIsFresh, CallsAreRecent, TypeOK, None
<1>2. entries[held[c]] \in Entry
  BY <1>1, EntryAt DEF TypeOK
<1>3. /\ entries[held[c]].lastSeen \in Nat
      /\ now[c] \in Nat /\ clock \in Nat /\ sweepNow \in Nat
  BY <1>2 DEF Entry, TypeOK
<1>4. sweepNow - entries[held[c]].lastSeen <= TTL
  BY <1>1, <1>3, CapacityIsNat, LimiterAssumption DEF EvictionIsSlow
<1> QED
  BY <1>1, <1>3, <1>4, LimiterAssumption DEF Expired

LEMMA EvictKeepsInv ==
  ASSUME EvictionIsSlow, TypeOK, Inv, Evict
  PROVE  Inv'
<1>1. \A k \in Keys : limiters'[k] \in {None, limiters[k]}
  BY DEF Evict
<1> USE DEF callerVars, TypeOK
<1>2. CallsAreRecent'
  BY DEF Evict, Inv, CallsAreRecent
<1>3. HeldEntryIsMapped'
  <2> SUFFICES ASSUME NEW c \in Callers, pc[c] \in {"bucket", "take"}
               PROVE  limiters'[key[c]] = held[c]
    BY DEF Evict, HeldEntryIsMapped
  <2> QED
    BY HeldEntryIsNotExpired DEF Evict, Inv, HeldEntryIsMapped
<1>4. HeldEntryIsFresh'
  BY DEF Evict, Inv, HeldEntryIsFresh
<1>5. EntriesInOrder'
  BY <1>1 DEF Evict, Inv, EntriesInOrder
<1>6. (sweepNow <= clock)'
  BY DEF Evict
<1> QED
  BY <1>2, <1>3, <1>4, <1>5, <1>6 DEF Inv

LEMMA TickKeepsInv ==
  ASSUME TypeOK, Inv, Tick
  PROVE  Inv'
<1> USE LimiterAssumption DEF Tick, TypeOK, callerVars, sweepVars
<1>1. CallsAreRecent'
  BY DEF Inv, CallsAreRecent
<1>2. HeldEntryIsMapped'
  BY DEF Inv, HeldEntryIsMapped
<1>3. HeldEntryIsFresh'
  BY DEF Inv, HeldEntryIsFresh
<1>4. EntriesInOrder'
  <2> SUFFICES ASSUME NEW k \in Keys, limiters[k] # None
               PROVE  /\ entries[limiters[k]].lastSeen <= clock + 1
                      /\ entries[limiters[k]].limiter.last <= clock + 1
    BY DEF Inv, EntriesInOrder
  <2>1. entries[limiters[k]] \in Entry
    BY EntryAt DEF None
  <2>2. /\ entries[limiters[k]].lastSeen \in Nat
        /\ entries[limiters[k]].limiter.last \in Nat
    BY <2>1 DEF Entry, Bucket
  <2> QED
    BY <2>2 DEF Inv, EntriesInOrder
<1>5. (sweepNow <= clock)'
  BY DEF Inv
<1> QED
  BY <1>1, <1>2, <1>3, <1>4, <1>5 DEF Inv

\* The steps that touch neither the callers nor the entries.
LEMMA OthersKeepInv ==
  ASSUME TypeOK, Inv, Tock \/ Cancel \/ CleanupReturns \/ OpenWindow \/ UNCHANGED vars
  PROVE  Inv'
<1>1. /\ UNCHANGED <<clock, entries, limiters, callerVars>>
      /\ sweepNow' \in {sweepNow, clock}
  BY DEF Tock, Cancel, CleanupReturns, OpenWindow, vars, sweepVars
<1> USE <1>1 DEF callerVars
<1>2. CallsAreRecent' /\ HeldEntryIsMapped' /\ HeldEntryIsFresh'
  BY DEF Inv, CallsAreRecent, HeldEntryIsMapped, HeldEntryIsFresh
<1>3. EntriesInOrder'
  BY DEF Inv, EntriesInOrder
<1>4. (sweepNow <= clock)'
  BY DEF Inv, TypeOK
<1> QED
  BY <1>2, <1>3, <1>4 DEF Inv

\* The invariant is inductive, provided eviction waits long enough.
THEOREM InvHolds == ASSUME EvictionIsSlow PROVE Spec => []Inv
<1>1. Init => Inv
  BY DEF Init, Inv, CallsAreRecent, HeldEntryIsMapped, HeldEntryIsFresh, EntriesInOrder
<1>2. TypeOK /\ Inv /\ [Next]_vars => Inv'
  <2> SUFFICES ASSUME TypeOK, Inv, [Next]_vars PROVE Inv'
    OBVIOUS
  <2>1. ASSUME NEW c \in Callers, NEW k \in Keys, Begin(c, k) PROVE Inv'
    BY <2>1, BeginKeepsInv
  <2>2. ASSUME NEW c \in Callers, Allow(c) PROVE Inv'
    BY <2>2, LookupKeepsInv, ReadBucketClockKeepsInv, AdmitKeepsInv, RefuseKeepsInv
       DEF Allow
  <2>3. CASE Evict
    BY <2>3, EvictKeepsInv
  <2>4. CASE Tick
    BY <2>4, TickKeepsInv
  <2>5. CASE Tock \/ Cancel \/ CleanupReturns \/ OpenWindow \/ UNCHANGED vars
    BY <2>5, OthersKeepInv
  <2> QED
    BY <2>1, <2>2, <2>3, <2>4, <2>5 DEF Next
<1> QED
  BY <1>1, <1>2, TypeCorrect, PTL DEF Spec

\* Between the mutex and the bucket a caller holds the entry of its key.
THEOREM HeldEntryStaysMapped == ASSUME EvictionIsSlow PROVE Spec => []HeldEntryIsMapped
<1>1. Inv => HeldEntryIsMapped
  BY DEF Inv
<1> QED
  BY <1>1, InvHolds, PTL

-----------------------------------------------------------------------------
(* Eviction, and the budget per key *)

LEMMA EvictedIsFull ==
  ASSUME EvictionIsSlow, TypeOK, Inv, NEW k \in Keys, Expired(k, sweepNow)
  PROVE  LevelOf(k) = Capacity
<1> DEFINE e == entries[limiters[k]]
<1>1. limiters[k] \in 1 .. Len(entries)
  BY DEF Expired, TypeOK, None
<1>2. e \in Entry
  BY <1>1, EntryAt DEF TypeOK
<1>3. e.limiter \in Bucket /\ e.limiter.last \in Nat /\ e.lastSeen \in Nat
  BY <1>2 DEF Entry, Bucket
<1>4. /\ sweepNow - e.lastSeen > TTL /\ sweepNow <= clock
      /\ e.limiter.last <= e.lastSeen + 2 * MaxStall
      /\ clock \in Nat /\ sweepNow \in Nat
  BY DEF Expired, Inv, EntriesInOrder, TypeOK
<1> HIDE DEF e
<1>5. e.limiter.last + Capacity <= clock
  BY <1>3, <1>4, CapacityIsNat, LimiterAssumption DEF EvictionIsSlow
<1>6. Level(e.limiter, clock) = Capacity
  BY <1>3, <1>4, <1>5, IdleBucketIsFull
<1> QED
  BY <1>1, <1>6 DEF LevelOf, None, e

\* Only the cleanup goroutine takes a key out of the map, and only when its
\* bucket has filled up.
THEOREM EvictionStaysInvisible ==
  ASSUME EvictionIsSlow PROVE Spec => EvictionIsInvisible
<1> DEFINE A == \A k \in Keys :
                  limiters[k] # None /\ limiters'[k] = None => LevelOf(k) = Capacity
<1>1. TypeOK /\ Inv /\ [Next]_vars => [A]_vars
  <2> SUFFICES ASSUME TypeOK, Inv, [Next]_vars, ~ UNCHANGED vars,
                      NEW k \in Keys, limiters[k] # None, limiters'[k] = None
               PROVE  LevelOf(k) = Capacity
    OBVIOUS
  <2>1. CASE Evict
    BY <2>1, EvictedIsFull DEF Evict
  <2>2. ASSUME NEW c \in Callers, Lookup(c) PROVE FALSE
    <3>1. limiters'[k] = limiters[k] \/ limiters'[k] = Found(k)
      BY <2>2 DEF Lookup, TypeOK
    <3>2. Found(k) # None
      BY DEF Found, TypeOK, None
    <3> QED
      BY <3>1, <3>2
  <2>3. \/ Evict
        \/ \E c \in Callers : Lookup(c)
        \/ limiters' = limiters
    BY DEF Next, Allow, Begin, ReadBucketClock, Admit, Refuse, Return, Tock, Cancel,
           CleanupReturns, Tick, OpenWindow
  <2> QED
    BY <2>1, <2>2, <2>3
<1>2. TypeOK /\ Inv /\ [Next]_vars => [A]_vars
  BY <1>1
<1> QED
  BY <1>2, TypeCorrect, InvHolds, PTL DEF Spec, EvictionIsInvisible

LEMMA BudgetCapacity == Budget!Capacity = Capacity
  BY DEF Budget!Capacity, Capacity

LEMMA BudgetAtMostFull == \A n : Budget!AtMostFull(n) = AtMostFull(n)
  BY BudgetCapacity DEF Budget!AtMostFull, AtMostFull

\* Levels are the budget's only view of the map and the entries.
LEMMA SameLevels ==
  ASSUME \A k \in Keys : LevelOf(k)' = LevelOf(k), UNCHANGED <<clock, observerVars>>
  PROVE  UNCHANGED Budget!vars
  BY DEF Budget!vars, observerVars

LEMMA LookupIsStutter ==
  ASSUME TypeOK, Inv, NEW c \in Callers, Lookup(c), NEW k \in Keys, key[c] = k,
         NEW f, f = Found(k)
  PROVE  UNCHANGED Budget!vars
<1>1. /\ now[c] \in Nat /\ clock \in Nat
      /\ clock' = clock /\ UNCHANGED observerVars
      /\ limiters' = [limiters EXCEPT ![k] = f]
  BY DEF Lookup, TypeOK
<1>2. /\ entries'[f].limiter =
           IF limiters[k] = None THEN NewBucket ELSE entries[limiters[k]].limiter
      /\ f \in Nat /\ f # None
      /\ \A i \in 1 .. Len(entries) : i # f => entries'[i] = entries[i]
  BY <1>1, LookupType DEF Lookup, None
<1>3. \A l \in Keys : l # k => limiters[l] # f
  BY <1>1 DEF Found, Inv, EntriesInOrder, TypeOK, None
<1>4. ASSUME NEW l \in Keys PROVE LevelOf(l)' = LevelOf(l)
  <2>1. CASE l = k
    <3>1. limiters'[l] = f
      BY <1>1, <2>1 DEF TypeOK
    <3>2. LevelOf(l)' = Level(entries'[f].limiter, clock)
      BY <1>1, <1>2, <3>1 DEF LevelOf, Level, Elapsed
    <3> QED
      BY <1>1, <1>2, <2>1, <3>2, NewBucketIsFull DEF LevelOf
  <2>2. CASE l # k
    <3>1. limiters'[l] = limiters[l]
      BY <1>1, <2>2 DEF TypeOK
    <3>2. limiters[l] # None => entries'[limiters[l]] = entries[limiters[l]]
      BY <1>2, <1>3, <2>2 DEF TypeOK, None
    <3> QED
      BY <1>1, <3>1, <3>2 DEF LevelOf, Level, Elapsed
  <2> QED
    BY <2>1, <2>2
<1> QED
  BY <1>1, <1>4, SameLevels

LEMMA AdmitIsAdmit ==
  ASSUME TypeOK, Inv, NEW c \in Callers, Admit(c), NEW k \in Keys, key[c] = k
  PROVE  Budget!Admit(k)
<1> DEFINE h == held[c]
           b == entries[h].limiter
           e == [entries[h] EXCEPT !.limiter = TakeToken(@, at[c])]
<1>1. /\ h \in 1 .. Len(entries) /\ h = limiters[k] /\ h # None
      /\ at[c] <= clock /\ clock <= at[c] + MaxStall
      /\ at[c] \in Nat /\ clock \in Nat /\ MaxStall \in Nat
  <2>1. pc[c] = "take"
    BY DEF Admit
  <2>2. /\ h \in 1 .. Len(entries) /\ h = limiters[k] /\ h # None
    BY <2>1 DEF Inv, HeldEntryIsMapped, HeldEntryIsFresh, TypeOK, None
  <2>3. now[c] <= at[c] /\ at[c] <= clock /\ clock - now[c] <= MaxStall
    BY <2>1 DEF Inv, CallsAreRecent
  <2>4. now[c] \in Nat /\ at[c] \in Nat /\ clock \in Nat /\ MaxStall \in Nat
    BY LimiterAssumption DEF TypeOK
  <2> QED
    BY <2>2, <2>3, <2>4
<1>2. entries[h] \in Entry /\ b \in Bucket /\ b.last <= clock
  BY <1>1, EntryAt DEF TypeOK, Entry, Inv, EntriesInOrder
<1>3. /\ e.limiter = TakeToken(b, at[c])
      /\ entries' = [entries EXCEPT ![h] = e]
      /\ limiters' = limiters /\ clock' = clock /\ opened' = opened
      /\ Admits(b, at[c])
  BY <1>2 DEF Admit, Return, Entry
<1> HIDE DEF e
<1>4. \A i \in 1 .. Len(entries) : entries'[i] = IF i = h THEN e ELSE entries[i]
  BY <1>3 DEF TypeOK
<1>5. LevelOf(k) = Level(b, clock)
  BY <1>1 DEF LevelOf
<1>6. LevelOf(k)' = Level(TakeToken(b, at[c]), clock)
  <2>1. entries'[h].limiter = TakeToken(b, at[c])
    BY <1>1, <1>3, <1>4
  <2>2. limiters'[k] = h
    BY <1>1, <1>3
  <2>3. LevelOf(k)' = Level(entries'[h].limiter, clock)
    BY <1>1, <1>3, <2>2 DEF LevelOf, Level, Elapsed
  <2> QED
    BY <2>1, <2>3
<1>7. PICK back \in 0 .. MaxStall :
        /\ LevelOf(k) >= Interval
        /\ LevelOf(k)' = AtMostFull(LevelOf(k) - Interval + back)
  <2>1. /\ Level(b, clock) >= Interval
        /\ \E back \in 0 .. MaxStall :
             Level(TakeToken(b, at[c]), clock) = AtMostFull(Level(b, clock) - Interval + back)
    BY <1>1, <1>2, <1>3, TakeTokenLevel
  <2> QED
    BY <1>5, <1>6, <2>1
<1>8. ASSUME NEW l \in Keys, l # k PROVE LevelOf(l)' = LevelOf(l)
  <2>1. limiters[l] # None => limiters[l] \in 1 .. Len(entries) /\ limiters[l] # h
    BY <1>1, <1>8 DEF Inv, EntriesInOrder, TypeOK, None
  <2>2. limiters[l] # None => entries'[limiters[l]] = entries[limiters[l]]
    BY <1>4, <2>1
  <2> QED
    BY <1>3, <2>2 DEF LevelOf, Level, Elapsed
<1>9. [l \in Keys |-> LevelOf(l)]' =
        [[l \in Keys |-> LevelOf(l)] EXCEPT
           ![k] = Budget!AtMostFull(@ - Interval + back)]
  <2>1. \A l \in Keys :
          LevelOf(l)' = IF l = k THEN AtMostFull(LevelOf(k) - Interval + back)
                                 ELSE LevelOf(l)
    BY <1>7, <1>8
  <2> QED
    BY <2>1, BudgetAtMostFull
<1>10. spent' = [spent EXCEPT ![k] = @ + 1]
  BY DEF Admit
<1> QED
  BY <1>1, <1>3, <1>7, <1>9, <1>10 DEF Budget!Admit

LEMMA TickIsTick ==
  ASSUME TypeOK, Inv, Tick
  PROVE  Budget!Tick
<1>1. /\ clock' = clock + 1 /\ clock \in Nat
      /\ UNCHANGED <<entries, limiters, opened, spent>>
  BY DEF Tick, TypeOK, observerVars
<1>2. ASSUME NEW k \in Keys PROVE LevelOf(k)' = AtMostFull(LevelOf(k) + 1)
  <2>1. CASE limiters[k] = None
    BY <1>1, <2>1, CapacityIsNat DEF LevelOf, AtMostFull
  <2>2. CASE limiters[k] # None
    <3> DEFINE b == entries[limiters[k]].limiter
    <3>1. limiters[k] \in 1 .. Len(entries)
      BY <2>2 DEF TypeOK, None
    <3>2. b \in Bucket /\ b.last <= clock
      BY <2>2, <3>1, EntryAt DEF TypeOK, Entry, Inv, EntriesInOrder
    <3>3. LevelOf(k) = Level(b, clock) /\ LevelOf(k)' = Level(b, clock + 1)
      BY <1>1, <2>2 DEF LevelOf, Level, Elapsed
    <3> QED
      BY <1>1, <3>2, <3>3, TickLevel
  <2> QED
    BY <2>1, <2>2
<1> QED
  BY <1>1, <1>2, BudgetAtMostFull DEF Budget!Tick

LEMMA EvictIsStutter ==
  ASSUME EvictionIsSlow, TypeOK, Inv, Evict
  PROVE  UNCHANGED Budget!vars
<1>1. ASSUME NEW k \in Keys PROVE LevelOf(k)' = LevelOf(k)
  <2>1. CASE Expired(k, sweepNow)
    <3>1. limiters'[k] = None
      BY <2>1 DEF Evict
    <3> QED
      BY <2>1, <3>1, EvictedIsFull DEF LevelOf
  <2>2. CASE ~ Expired(k, sweepNow)
    BY <2>2 DEF Evict, LevelOf, Level, Elapsed
  <2> QED
    BY <2>1, <2>2
<1> QED
  BY <1>1, SameLevels DEF Evict

LEMMA OthersAreStutter ==
  ASSUME UNCHANGED <<clock, entries, limiters, observerVars>>
  PROVE  UNCHANGED Budget!vars
<1>1. ASSUME NEW k \in Keys PROVE LevelOf(k)' = LevelOf(k)
  BY DEF LevelOf, Level, Elapsed
<1> QED
  BY <1>1, SameLevels

\* The keyed limiter is a budget per key: its map, its entries that come and go,
\* its unlocked bucket access and its cleanup goroutine cannot be told from it.
THEOREM Implementation == ASSUME EvictionIsSlow PROVE Spec => ImplementsBudget
<1>1. Init => Budget!Init
  <2> SUFFICES ASSUME Init PROVE Budget!Init
    OBVIOUS
  <2>1. \A k \in Keys : LevelOf(k) = Budget!Capacity
    BY BudgetCapacity DEF Init, LevelOf
  <2> QED
    BY <2>1 DEF Init, Budget!Init
<1>2. TypeOK /\ Inv /\ [Next]_vars => [Budget!Next]_(Budget!vars)
  <2> SUFFICES ASSUME TypeOK, Inv, [Next]_vars PROVE [Budget!Next]_(Budget!vars)
    OBVIOUS
  <2>1. ASSUME NEW c \in Callers, NEW k \in Keys, Begin(c, k)
        PROVE  UNCHANGED Budget!vars
    BY <2>1, OthersAreStutter DEF Begin
  <2>2. ASSUME NEW c \in Callers, Lookup(c) PROVE UNCHANGED Budget!vars
    <3>1. PICK k \in Keys : key[c] = k
      BY DEF TypeOK
    <3>2. PICK f : f = Found(k)
      OBVIOUS
    <3> QED
      BY <2>2, <3>1, <3>2, LookupIsStutter
  <2>3. ASSUME NEW c \in Callers, ReadBucketClock(c) PROVE UNCHANGED Budget!vars
    BY <2>3, OthersAreStutter DEF ReadBucketClock
  <2>4. ASSUME NEW c \in Callers, Admit(c) PROVE Budget!Next
    <3>1. PICK k \in Keys : key[c] = k
      BY DEF TypeOK
    <3> QED
      BY <2>4, <3>1, AdmitIsAdmit DEF Budget!Next
  <2>5. ASSUME NEW c \in Callers, Refuse(c) PROVE UNCHANGED Budget!vars
    BY <2>5, OthersAreStutter DEF Refuse, Return, observerVars
  <2>6. CASE Evict
    BY <2>6, EvictIsStutter
  <2>7. CASE Tick
    BY <2>7, TickIsTick DEF Budget!Next
  <2>8. CASE OpenWindow
    <3>1. UNCHANGED <<clock, entries, limiters>>
      BY <2>8 DEF OpenWindow
    <3>2. \A k \in Keys : LevelOf(k)' = LevelOf(k)
      BY <3>1 DEF LevelOf, Level, Elapsed
    <3> QED
      BY <2>8, <3>1, <3>2 DEF OpenWindow, Budget!OpenWindow, Budget!Next
  <2>9. CASE Tock \/ Cancel \/ CleanupReturns \/ UNCHANGED vars
    BY <2>9, OthersAreStutter DEF Tock, Cancel, CleanupReturns, vars
  <2> QED
    BY <2>1, <2>2, <2>3, <2>4, <2>5, <2>6, <2>7, <2>8, <2>9 DEF Next, Allow
<1> QED
  BY <1>1, <1>2, TypeCorrect, InvHolds, PTL DEF Spec, ImplementsBudget, Budget!Spec

\* What is proved of the budget.
BudgetTheorems == INSTANCE RateBudgetProofs WITH level <- [k \in Keys |-> LevelOf(k)]

LEMMA BudgetAssumptionHolds == BudgetTheorems!BudgetAssumption
  BY BucketAssumption, LimiterAssumption DEF BudgetTheorems!BudgetAssumption

LEMMA BudgetTheoremsCapacity == BudgetTheorems!Capacity = Capacity
  BY BudgetCapacity DEF BudgetTheorems!Capacity, Budget!Capacity

\* The two instances of RateBudget are one.
LEMMA OneBudget == Budget!Spec => BudgetTheorems!Spec
<1>1. BudgetTheorems!Capacity = Budget!Capacity
  BY BudgetTheoremsCapacity, BudgetCapacity
<1>2. \A n : BudgetTheorems!AtMostFull(n) = Budget!AtMostFull(n)
  BY <1>1 DEF BudgetTheorems!AtMostFull, Budget!AtMostFull
<1>3. Budget!Init => BudgetTheorems!Init
  BY <1>1 DEF BudgetTheorems!Init, Budget!Init
<1>4. [Budget!Next]_(Budget!vars) => [BudgetTheorems!Next]_(BudgetTheorems!vars)
  <2>1. Budget!Tick => BudgetTheorems!Tick
    BY <1>2 DEF BudgetTheorems!Tick, Budget!Tick
  <2>2. Budget!OpenWindow => BudgetTheorems!OpenWindow
    BY DEF BudgetTheorems!OpenWindow, Budget!OpenWindow
  <2>3. \A k \in Keys : Budget!Admit(k) => BudgetTheorems!Admit(k)
    BY <1>2 DEF BudgetTheorems!Admit, Budget!Admit
  <2>4. UNCHANGED Budget!vars => UNCHANGED BudgetTheorems!vars
    BY DEF BudgetTheorems!vars, Budget!vars
  <2> QED
    BY <2>1, <2>2, <2>3, <2>4 DEF BudgetTheorems!Next, Budget!Next
<1> QED
  BY <1>3, <1>4, PTL DEF BudgetTheorems!Spec, Budget!Spec

\* The quota of the README, for the limiter with all its concurrency: by
\* refinement, from the quota of the budget.
THEOREM QuotaHolds == ASSUME EvictionIsSlow PROVE Spec => []QuotaInAnyWindow
<1>1. BudgetTheorems!Spec => []BudgetTheorems!QuotaInAnyWindow
  BY BudgetAssumptionHolds, BudgetTheorems!QuotaHolds
<1>2. BudgetTheorems!QuotaInAnyWindow => QuotaInAnyWindow
  BY BudgetTheoremsCapacity DEF BudgetTheorems!QuotaInAnyWindow, QuotaInAnyWindow
<1> QED
  BY <1>1, <1>2, Implementation, OneBudget, PTL DEF ImplementsBudget
=============================================================================
