SPECIFICATION FairSpec
CONSTANTS
  Calls <- RollbackClient
  Faults <- InstallFaults
  Habits = {}
INVARIANTS
  IdleClean
  IdleBoots
  RebootReportedTruthfully
PROPERTIES
  ImplementsLifecycle
  RollbackReturns
  SwitchReachesRunnable
  UpdateSettles
