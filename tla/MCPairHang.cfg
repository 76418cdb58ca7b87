CONSTANTS
  SeqModulus = 8
  MaxRun = 2
  MaxVector = 2
  Window = 2
  PacketsPerBurst = 1
  SharedQueue = TRUE
  ParityBits = {TRUE}
  AckIds = {1, 2}
  MaxBatons = 1
  MaxBurst = 1
  FirstA = 7
  FirstB = 1
  UnitsA = 1
  UnitsB = 0
  Duplicates = FALSE
  MaxLosses = 1
  KeepAlives = TRUE
  RequestsMayFail = FALSE
  GracefulEnds = {"A"}
  StreamsGivenB = TRUE
SPECIFICATION Spec
INVARIANTS ForcedAckPursued

CHECK_DEADLOCK FALSE
