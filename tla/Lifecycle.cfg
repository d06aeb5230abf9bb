\* Every kind of environment; two requests, two signals.
SPECIFICATION FairSpec
CONSTANTS
  r1 = r1
  r2 = r2
  Requests <- TwoRequests
  Envs <- Environments
  Overflows <- MachineOverflows
  MaxInt = 10
  MaxSignals = 2
  Doc <- SmallDoc
  PathParams = {}
  LowerOf <- Lowered
CHECK_DEADLOCK FALSE
INVARIANTS
  Inv
  CleanExitCutsNobody
  FirstCallIsAdmitted
  DefaultBurstRefillsInTime
  SomebodyIsForwarded
PROPERTIES
  ListenerFailureIsReported
  SignalEndsHTTP
