SPECIFICATION Spec
CONSTANTS
  k1 = k1
  k2 = k2
  k3 = k3
  Calls <- ThreeCalls
  Requests <- LimitRequests
  Configs <- LimitConfigs
  Tokens = {"alice", "bob"}
  EmailOf <- Emails
  NoEmail = ""
  Doc <- SmallDoc
  PathParams <- Params
  LowerOf <- Lowered
  ReadAs <- Read
  Burst = 1
  MaxRefills = 1
  MaxSends = 1
CHECK_DEADLOCK FALSE
SYMMETRY CallSymmetry
INVARIANTS
  BooksBalance
  LimitIsOwn
  ReachingIsPaidFor
  LoggedUserIsForwarded
