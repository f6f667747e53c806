\* Every kind of request alone, to models and pipelines of every kind, and two
\* requests at once to models whose batch size or shape follows the requests.
\* 2^6 stands for the 2^64 of size_t.
CONSTANTS
  Requests = {r1, r2}
  SizeModulus = 64
  nireq = 1
  Scenarios <- MCScenarios
SPECIFICATION FairSpec
INVARIANTS
  BlobsAsLoaded
  LeavesInOrder
  
PROPERTIES
  EveryRequestAnswered
CHECK_DEADLOCK FALSE
