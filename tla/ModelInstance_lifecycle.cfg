\* Two requests, two batch sizes, every operation of the manager.  No symmetry,
\* liveness is checked.
CONSTANTS
  r1 = r1
  r2 = r2
  Requests = {r1, r2}
  Manager = Manager
  NoThread = NoThread
  Batches = {1, 2}
  FileBatch = 1
  CustomLoader = TRUE
  WaitCheckpoints = 1
  UnwrittenStates = {"START", "END"}
SPECIFICATION FairSpec
INVARIANTS
  UsesLoadedModel
PROPERTIES
  InUseUnchanged
  AllCallsReturn
