SPECIFICATION Spec
CONSTANTS
  Calls <- FirmwareRollbackClient
  Faults = {}
  Habits = {"early_rollback"}
INVARIANTS
  IdleClean
