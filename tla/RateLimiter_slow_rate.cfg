\* A bucket that takes longer to refill (3 ticks) than a key takes to expire (1).
SPECIFICATION Spec
CONSTANTS
  c1 = c1
  c2 = c2
  u1 = u1
  u2 = u2
  Callers <- TwoCallers
  Keys <- OneKey
  Interval = 3
  Burst = 1
  MaxStall = 0
  TTL = 1
  MaxClock = 6
INVARIANTS
  QuotaInAnyWindow
