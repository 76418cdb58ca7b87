CONSTANTS
  SeqModulus = 16
  MaxRun = 2
  MaxVector = 2
  Window = 2
  PacketsPerBurst = 1
  FirstSend = 1
  FirstReceive = 1
  HoldSending = TRUE
  SharedQueue = TRUE
  StreamsGiven = FALSE
  Directions = {"Receive"}
  DelegateMayGo = TRUE
  ParityBits = {TRUE}
  AckIds = {1, 2}
  MaxUnits = 2
  MaxBatons = 1
  MaxBurst = 1
  Messages <- MessageSet
  Acks <- AckSet
SPECIFICATION MCSpec
INVARIANTS TypeOK TxConsistent NeverStalled
CHECK_DEADLOCK FALSE
VIEW WithoutWireAt
