---------------------------- MODULE MCRateBudget ----------------------------
(* Instances of RateBudget for TLC.                                        *)
EXTENDS RateBudget

CONSTANTS u1, u2, MaxClock

TwoKeys == {u1, u2}

\* The bound of the model: time has no end in RateBudget.
ClockBound == clock <= MaxClock
=============================================================================
