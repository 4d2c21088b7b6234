SPECIFICATION Spec
CONSTANTS
  Calls <- FirmwareClient
  Faults = {"power"}
  Habits = {}
INVARIANTS
  CommitNeverThrows
