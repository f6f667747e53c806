\* Four pipelines over a model with two streams that two other requests use too.
CONSTANTS
  Graphs <- AllGraphs
  nireq = 2
  o1 = o1
  o2 = o2
  Others = {o1, o2}
  DemultiplyLimit = 3
  MaxDimension = 4
SPECIFICATION FairSpec
INVARIANTS
  QuiescentReturn
  RespondedOnce
  GatheredInOrder
  StreamsReturned
PROPERTIES
  ExecuteReturns
