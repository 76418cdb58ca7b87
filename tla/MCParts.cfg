CONSTANTS
  SeqModulus = 16
  MaxRun = 3
  MaxVector = 3
  FirstMissing = {1, 9, 14, 30}
  MaxGap = 5
  MaxAhead = 7
  MaxVersion = 3
  MaxFetches = 2
  MaxDisconnects = 1
  MaxNotices = 2
  Calls = {"c1", "c2"}
  Incoming = {"c2"}
  MaxTurns = 1
  MayHangup = {"c1"}
  MessageSizes = {0, 1, 2}
  MaxMessages = 2
  MaxMessageSize = 1
  MayFail = {"socket", "accept"}
SPECIFICATION MCSpec
INVARIANTS Recovered DecodedIsTrue ParityOfDecoded
  PartsTyped NoneLeftBehind NothingUnsent ShutdownEnds
  HeldIsTrue OneFetchActive OpenIsHeard MediaFollowsFocus
PROPERTIES RUDPMessagesWhole TCPMessagesWhole
CHECK_DEADLOCK FALSE
