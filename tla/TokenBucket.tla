---------------------------- MODULE TokenBucket ----------------------------
(***************************************************************************)
(* The bucket of golang.org/x/time/rate, as internal/ratelimit uses it:    *)
(* rate.NewLimiter(rate, burst) and Limiter.Allow(), nothing else.  The    *)
(* library is not part of the repository; these are the operators that     *)
(* RateLimiter needs from it.                                              *)
(*                                                                         *)
(* Tokens are counted in clock ticks: a bucket regains one unit per tick   *)
(* and a request costs Interval units, the ticks one token takes to come   *)
(* back (1/RATE_LIMIT).  The library counts tokens in float64; rounding is *)
(* abstracted away.                                                        *)
(***************************************************************************)
EXTENDS Integers

CONSTANTS
  Interval,  \* ticks it takes to regain one token
  Burst      \* tokens of a full bucket (RATE_LIMIT_BURST)

\* config.Load gives a positive RATE_LIMIT a burst of at least one.
ASSUME BucketAssumption == Interval \in Nat \ {0} /\ Burst \in Nat \ {0}

Capacity == Interval * Burst

Bucket == [tokens : 0 .. Capacity, last : Nat]

\* rate.NewLimiter: a full bucket whose last update is the zero time.
NewBucket == [tokens |-> Capacity, last |-> 0]

\* The time a bucket is credited for when it is asked at time t.  Readings of
\* the clock by different goroutines may reach it out of order: an earlier one
\* is credited nothing.
Elapsed(b, t) == IF t < b.last THEN 0 ELSE t - b.last

\* Mutant of AtMostFull: burst does not cap the bucket.
NeverFull(n) == n

AtMostFull(n) == IF n > Capacity THEN Capacity ELSE n

\* What the bucket holds at time t: Limiter.advance.
Level(b, t) == AtMostFull(b.tokens + Elapsed(b, t))

\* Mutant of Admits: a bucket one unit short of a token admits.
AdmitsEarly(b, t) == Level(b, t) + 1 >= Interval

\* Limiter.Allow admits a request at time t iff a whole token is there ...
Admits(b, t) == Level(b, t) >= Interval

\* Mutant of TakeToken: the time of the update is not recorded.
TakeTokenForgetsTime(b, t) == [tokens |-> Level(b, t) - Interval, last |-> b.last]

\* ... and then takes it; a refused request leaves the bucket as it was.
TakeToken(b, t) == [tokens |-> Level(b, t) - Interval, last |-> t]
=============================================================================
