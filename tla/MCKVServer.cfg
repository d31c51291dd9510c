SPECIFICATION KVSpec
CONSTANTS
  Threads = {t1, t2}
  Keys = {0, 1, 2, 3, 6}
  Width = 4
  LoadFactor = 1
  MaxCalls = 2
  Built = 4
INVARIANTS KeysReachable CountExact AnswersRight
PROPERTY Linearizable
SYMMETRY Symmetry
