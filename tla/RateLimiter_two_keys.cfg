\* Two keys, calls that take no time, the cleanup goroutine under fairness.
SPECIFICATION FairSpec
CONSTANTS
  c1 = c1
  c2 = c2
  u1 = u1
  u2 = u2
  Callers <- TwoCallers
  Keys <- TwoKeys
  Interval = 1
  Burst = 1
  MaxStall = 0
  TTL = 1
  MaxClock = 3
PROPERTIES
  ImplementsBudget
  ExpiredIsReclaimed
