CONSTANTS
  Locations = {h, a}
  Host = h
  Senders = {h}
  MaxMessages = 2
  MaxBreaks = 0
  MayRestart = FALSE
SPECIFICATION DeliverySpec
INVARIANTS AcknowledgedIsTold
CHECK_DEADLOCK FALSE
