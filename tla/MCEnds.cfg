CONSTANTS
  SeqModulus = 8
  MaxRun = 2
  MaxVector = 2
  Window = 2
  PacketsPerBurst = 1
  SharedQueue = TRUE
  ParityBits = {TRUE}
  AckIds = {1}
  MaxBatons = 1
  MaxBurst = 1
  FirstA = 7
  FirstB = 1
  UnitsA = 1
  UnitsB = 0
  Duplicates = FALSE
  MaxLosses = 0
  KeepAlives = TRUE
  RequestsMayFail = TRUE
  GracefulEnds = {"A","B"}
  StreamsGivenB = TRUE
  Callees <- TwoCallees
  MaxTrouble = 1
SPECIFICATION MCSpec
INVARIANTS DialogTypeOK OpenAckPursued CallAgreed
PROPERTIES GracefulEndDelivers
CHECK_DEADLOCK FALSE
