CONSTANTS
  Networks = {n1, n2}
  NoNet = NoNet
  Jobs = {j1, j2}
  Main = Main
  MaxChanges = 2
  DialerMayFail = TRUE
  MaxStarts = 1
  PromptStop = TRUE
SPECIFICATION ProxySpec
INVARIANT NoOrphanCore
CHECK_DEADLOCK FALSE
