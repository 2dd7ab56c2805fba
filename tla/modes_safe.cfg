CONSTANTS
  Networks = {n1, n2, n3}
  NoNet = NoNet
  Jobs = {j1, j2}
  Main = Main
  MaxChanges = 2
  DialerMayFail = TRUE
  MaxStarts = 3
  PromptStop = TRUE
  SystemStarts = TRUE
  Overlap = FALSE
SPECIFICATION Spec
INVARIANTS
  HostInv NothingLeftBehind CalmNoOrphanCore CalmCoreIsReachable CalmServiceHasCore HandoverServed
  RootInv NoRulesWithoutService RulesMatchCore
  CalmLockMeansUp CalmVpnLeavesNothing
PROPERTIES ReloadEnds RulesGoFirst FdOutlivesTunnel SharingGoesFirst
CHECK_DEADLOCK FALSE
