SPECIFICATION Spec
CONSTANTS
  Calls <- CarelessClient
  Faults = {"install", "pipe", "flush", "record", "power"}
  Habits = {"early_commit", "early_rollback", "skip_commit", "single_commit", "unannounced_rollback"}
INVARIANTS
  TypeOK
  OrdersAgree
  InstallationAccounted
