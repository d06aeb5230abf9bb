SPECIFICATION FairSpecWithOllama
CONSTANTS
  r1 = r1
  r2 = r2
  Requests <- TwoRequests
  Envs <- StdioWithEmbeddings
  Overflows <- MachineOverflows
  MaxInt = 10
  MaxSignals = 1
  Doc <- SmallDoc
  PathParams = {}
  LowerOf <- Lowered
CHECK_DEADLOCK FALSE
PROPERTIES
  SignalEndsProcess
