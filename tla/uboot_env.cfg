SPECIFICATION Spec
CONSTANTS
  Procs = {p1, p2}
  MaxDepth = 2
INVARIANTS
  TypeOK
  ReadsAreCurrent
  StagedUpdateDropped
PROPERTIES
  NoUpdateLost
