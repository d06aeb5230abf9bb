SPECIFICATION FairSpec
CONSTANTS
  k1 = k1
  k2 = k2
  k3 = k3
  Calls <- TwoCalls
  Requests <- AllRequests
  Configs <- AllConfigs
  Tokens = {"alice", "bob"}
  EmailOf <- Emails
  NoEmail = ""
  Doc <- SmallDoc
  PathParams <- Params
  LowerOf <- Lowered
  ReadAs <- Read
  Burst = 1
  MaxRefills = 0
  MaxSends = 2
CHECK_DEADLOCK FALSE
INVARIANTS
  ReadOnlyMode
  InScope
  DiscoveredIsExecutable
  Inv
  AuditTellsTheTruth
  WritesAtMostOnce
  BlockedNeverReaches
PROPERTIES
  ImplementsAccess
  EveryCallEnds
