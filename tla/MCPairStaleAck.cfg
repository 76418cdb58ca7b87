CONSTANTS
  SeqModulus = 10
  MaxRun = 2
  MaxVector = 2
  Window = 3
  PacketsPerBurst = 3
  SharedQueue = TRUE
  ParityBits = {TRUE}
  AckIds = {1}
  MaxBatons = 1
  MaxBurst = 3
  FirstA = 9
  FirstB = 1
  UnitsA = 3
  UnitsB = 0
  Duplicates = TRUE
  MaxLosses = 0
  KeepAlives = FALSE
  RequestsMayFail = FALSE
  GracefulEnds = {}
  StreamsGivenB = TRUE
SPECIFICATION Spec
PROPERTIES AcksNeverRevoked
CHECK_DEADLOCK FALSE
