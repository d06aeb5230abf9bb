--------------------------- MODULE MCRateLimiter ---------------------------
(* Instances of RateLimiter for TLC; the cfg files give the constants.     *)
EXTENDS RateLimiter

CONSTANTS c1, c2, u1, u2

TwoCallers == {c1, c2}

OneKey == {u1}

TwoKeys == {u1, u2}
=============================================================================
