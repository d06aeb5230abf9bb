SPECIFICATION Spec
CONSTANTS
  k1 = k1
  k2 = k2
  k3 = k3
  Calls <- TwoCalls
  Requests <- GuardRequests
  Configs <- DefaultOnly
  Tokens = {"alice", "bob"}
  EmailOf <- Emails
  NoEmail = ""
  Doc <- SmallDoc
  PathParams <- Params
  LowerOf <- Lowered
  ReadAs <- Read
  Burst = 1
  MaxRefills = 0
  MaxSends = 1
CHECK_DEADLOCK FALSE
INVARIANTS
  EveryCallIsLogged
