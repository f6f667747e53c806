\* One reload request; after the start the file and the model directory change twice.
CONSTANTS
  Requests = {"r1"}
  Contents <- MCContents
  Bases = {"base"}
  Options <- MCOptions
  MaxReads = 2
  MaxChanges = 2
SPECIFICATION Spec
INVARIANTS
  ReportedIsApplied
  ReloadIsCurrent
PROPERTIES
  UnloadedForAReason
  ConvergesToFile
  StopReturns
CHECK_DEADLOCK FALSE
