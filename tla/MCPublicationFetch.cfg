CONSTANTS
 MaxVersion = 3
 MaxFetches = 2
 MaxDisconnects = 1
 MaxNotices = 2
SPECIFICATION PublicationSpec
INVARIANTS FetchedIsWanted
CHECK_DEADLOCK FALSE
