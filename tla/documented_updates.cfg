SPECIFICATION FairSpec
CONSTANTS
  Calls <- UpdateClient
  Faults <- InstallFaults
  Habits = {}
INVARIANTS
  IdleClean
  IdleBoots
  FallbackRuns
  FailedInstallKeepsSystem
  CommitNeverThrows
PROPERTIES
  ImplementsLifecycle
  CombinedMovesTogether
  UpdateSettles
