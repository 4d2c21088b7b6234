SPECIFICATION Spec
CONSTANTS
  PipeSize = 1
  MaxOutput = 3
  SystemFaults = {"pipe", "fork", "dup2", "shell", "read", "command_killed", "child_killed"}
  InstallerFaults = {"rauc", "sync", "flush"}
INVARIANT SuccessMeansSucceeded
