\* One failed call, one change of the storage or of the configuration, three rounds.
CONSTANTS
  Versions = {"1", "2"}
  Bases <- MCBases
  Trees <- MCTrees
  Uploads <- MCUploads
  ModelFiles <- MCFiles
  AcceptedFiles <- MCAccepted
  Page = 3
  S3Page = 4
  MaxFaults = 1
  MaxChanges = 1
  MaxRounds = 3
SPECIFICATION Spec
INVARIANTS
  CopyIsFaithful
  ServedFromItsCopy
  CopiesReclaimed
PROPERTIES
  RetiredOnlyIfGone
CHECK_DEADLOCK FALSE
