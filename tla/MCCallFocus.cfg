CONSTANTS
  Calls = {"c1"}
  Incoming = {}
  MaxTurns = 2
  MayHangup = {}
SPECIFICATION CallSpec
INVARIANTS HoldIsTheUsers
CHECK_DEADLOCK FALSE
