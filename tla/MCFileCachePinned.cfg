CONSTANTS
  a = a  b = b  c = c  d = d
  Threads = {p1, p2}
  Files = {a, b, c, d}
  Size <- MCSize
  BlockSize = 3
  CacheSize_ = 4
  MaxUnpinned = 4
  MaxPins = 2
  None = None
SPECIFICATION Spec
INVARIANT PinnedNotEvicted
