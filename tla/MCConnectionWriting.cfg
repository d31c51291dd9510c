CONSTANTS
  Workers = {w1, w2}
  MaxRequests = 2
  Blocks = 2
SPECIFICATION Spec
INVARIANT WritingHasWriter
