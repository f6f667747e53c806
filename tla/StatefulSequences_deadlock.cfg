\* Two requests more than there are streams, on two sequences.
CONSTANTS
  r1 = r1
  r2 = r2
  r3 = r3
  Requests = {r1, r2, r3}
  Cleaner = Cleaner
  NoThread = NoThread
  IdCount = 3
  maxSequenceNumber = 2
  nireq = 1
  StateCount = 1
SPECIFICATION FairSpec
PROPERTIES
  AllReturn
CHECK_DEADLOCK FALSE
