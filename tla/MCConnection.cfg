CONSTANTS
  Workers = {w1, w2}
  MaxRequests = 3
  Blocks = 1
SPECIFICATION FairSpec
INVARIANTS
  RefsExact
  NoUseAfterFree
  OneReaderOneWriter
PROPERTIES
  RequestsAreRead
  ResetIsCleanedUp
