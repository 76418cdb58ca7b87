CONSTANTS
  Readers = {r1, r2}
  Writers = {w}
  Headers = {h}
  NoHeader = NoHeader
  Sizes = {0, 1, 2}
  Lengths = {1, 2}
  MaxBytes = 3
  MaxBuffers = 2
  MaxWrites = 2
  MaxCalls = 1
  Requesters = {"r1", "r2", "r3", "r4"}
  MaxTries = 2
  MaxRestarts = 0
  SharedQueue = TRUE
  Servers = {"s1", "s2"}
  Portless = {"p"}
  Lookups <- MCLookups
  Monitors = {"m1", "m2"}
  MaxMessages = 2
SPECIFICATION MCSpec
INVARIANTS ServicesTyped ManagerKnowsWaiting NoServerAskedTwice OneMessageOneEnd ReadersTold
  BytesKept
PROPERTIES OwnRequestsEnd OneOutcomeOnly DiscoveryEnds MonitorEnds EventuallyRead WritersTold
CHECK_DEADLOCK FALSE
