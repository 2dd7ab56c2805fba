CONSTANTS
  Stoppers = {c1}
  NoOne = NoOne
SPECIFICATION Spec
INVARIANT StopIsForThisRun
CHECK_DEADLOCK FALSE
