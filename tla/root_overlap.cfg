CONSTANTS
  Networks = {n1, n2}
  NoNet = NoNet
  Jobs = {j1}
  Main = Main
  MaxChanges = 1
  DialerMayFail = TRUE
  MaxStarts = 2
  PromptStop = TRUE
SPECIFICATION RootSpec
INVARIANT NoRulesWithoutService
CHECK_DEADLOCK FALSE
