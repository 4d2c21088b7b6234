SPECIFICATION Spec
CONSTANTS
  Calls <- FullClient
  Faults = {"install", "pipe", "image", "sync", "flush", "take_back", "fallback_flag"}
  Habits = {"cross_rollback", "unannounced_rollback"}
PROPERTIES
  CommitConfirmsRunning
  BadStaysBad
