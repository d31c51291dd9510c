CONSTANTS
  num_threads = 2
  Nodes = {n1, n2}
  NULL = NULL
  HEAD = HEAD
  Keys = {1, 2}
  MAX_RETIRED_NODES_PER_THREAD = 0
  Garbage = {n1}
SPECIFICATION UnseenSpec
INVARIANTS
  ListIntact
  OneOwner
  NoReclaimedNodeUsed
PROPERTIES
  Linearizable
  SomeCallCompletes
