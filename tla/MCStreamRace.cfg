CONSTANTS
  SeqModulus = 16
  MaxRun = 2
  MaxVector = 2
  Window = 2
  PacketsPerBurst = 1
  FirstSend = 1
  FirstReceive = 1
  HoldSending = FALSE
  SharedQueue = TRUE
  StreamsGiven = TRUE
  Directions = {}
  DelegateMayGo = FALSE
  ParityBits = {TRUE}
  AckIds = {1, 2}
  MaxUnits = 1
  MaxBatons = 2
  MaxBurst = 1
  Messages <- MessageSet
  Acks <- AckSet
SPECIFICATION Spec
INVARIANTS NoCrash
CHECK_DEADLOCK FALSE
VIEW WithoutWire
