CONSTANTS
  Networks = {n1}
  NoNet = NoNet
  Jobs = {}
  Main = Main
  MaxChanges = 0
  DialerMayFail = TRUE
  MaxStarts = 2
  PromptStop = FALSE
SPECIFICATION ProxySpec
INVARIANT RestartRestores
CHECK_DEADLOCK FALSE
