\* Two overlapping callers of one key, clock readings up to a tick old.
SPECIFICATION Spec
CONSTANTS
  c1 = c1
  c2 = c2
  u1 = u1
  u2 = u2
  Callers <- TwoCallers
  Keys <- OneKey
  Interval = 2
  Burst = 1
  MaxStall = 1
  TTL = 4
  MaxClock = 7
INVARIANTS
  TypeOK
  HeldEntryIsMapped
  Inv
  QuotaInAnyWindow
PROPERTIES
  EvictionIsInvisible
  ImplementsBudget
