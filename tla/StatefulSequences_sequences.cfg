\* One request more than there are streams, on as many sequences as there are ids.
\* No symmetry, liveness is checked.
CONSTANTS
  r1 = r1
  r2 = r2
  Requests = {r1, r2}
  Cleaner = Cleaner
  NoThread = NoThread
  IdCount = 3
  maxSequenceNumber = 2
  nireq = 1
  StateCount = 2
SPECIFICATION FairSpec
INVARIANTS
  ReferenceValid
  NoLostUpdate
PROPERTIES
  AllReturn
  AbandonedIsRemoved
\* A request whose wake-up was lost keeps its sequence locked: with it everything
\* may stop.
CHECK_DEADLOCK FALSE
