SPECIFICATION Spec
CONSTANTS
  Modulus = 24  HEADER_SIZE = 2  SIZE_CERT_APP_DATE_SIGN = 1
  FILE_CHUNK_BUFFER = 2  MaxLength = 9
  Procs = {p1}
  fw = fw  app1 = app1  app2 = app2  oversized = oversized  resized = resized
  unsigned = unsigned
  list_fw = list_fw  list_app = list_app  list_both = list_both
  list_itself = list_itself  list_none = list_none
  Contents <- AllContents
  Manifest <- Lists
  Images <- SomeImages
  Bundles = {app1, app2}
  Firmwares = {fw}
  Paths = {fw, app1, oversized, resized, "absent"}
  Types = {"", "fw", "app", "other"}
  StoreFaults = {"extract", "remove"}
  InstallFaults = {"copy", "rename", "flush"}
  Faults = {"rauc", "sync", "marker", "power"}
INVARIANTS
  TypeOK
  SlotsIntact
  InstalledAsDeclared
  InstalledSurvives
  OutcomeRecorded
  InstalledAsSigned
