\* Budgets of two tokens that take three ticks each, one tick of stall.
SPECIFICATION Spec
CONSTANTS
  u1 = u1
  u2 = u2
  Keys <- TwoKeys
  Interval = 3
  Burst = 2
  MaxStall = 1
  MaxClock = 9
CONSTRAINT ClockBound
INVARIANTS
  Accounts
  QuotaInAnyWindow
