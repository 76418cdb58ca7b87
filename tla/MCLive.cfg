CONSTANTS
  SeqModulus = 8
  MaxRun = 2
  MaxVector = 2
  Window = 2
  PacketsPerBurst = 1
  SharedQueue = TRUE
  ParityBits = {TRUE}
  AckIds = {1, 2}
  MaxBatons = 1
  MaxBurst = 1
  FirstA = 7
  FirstB = 1
  UnitsA = 1
  UnitsB = 0
  Duplicates = FALSE
  MaxLosses = 2
  KeepAlives = FALSE
  RequestsMayFail = FALSE
  GracefulEnds = {}
  StreamsGivenB = TRUE
  Locations = {"h", "a", "b"}
  Host = "h"
  Senders = {"h", "a"}
  MaxMessages = 2
  MaxBreaks = 1
  MayRestart = TRUE
SPECIFICATION MCSpec
INVARIANTS DeliveryTypeOK DeliveredIsReceived
PROPERTIES EventuallyDelivered PushesOnlyOutstanding EverythingSettles
CHECK_DEADLOCK FALSE
