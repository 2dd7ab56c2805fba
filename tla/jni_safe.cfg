CONSTANTS
  Stoppers = {c1, c2}
  NoOne = NoOne
SPECIFICATION Spec
INVARIANTS SpawnIsSafe JoinIsSafe RunningWhileUp JniInv
PROPERTIES StartReturns ImplementsTunnel
CHECK_DEADLOCK FALSE
