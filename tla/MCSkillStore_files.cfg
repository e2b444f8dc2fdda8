CONSTANTS
  N = 3
  Bundled = {1, 3}
  Releases = {"r1", "r2"}
  MaxEdits = 3
  MaxStarts = 3
SPECIFICATION Spec
CHECK_DEADLOCK FALSE
INVARIANTS
  TypeOK
  DefaultsAreServed
  RestartTakesEdits
PROPERTIES
  LeavesFilesAlone
