\* One stream and two blocking guards, as in AsyncGetInferRequest.
CONSTANTS
  nireq = 1
  e1 = e1
  e2 = e2
  Guards = {e1, e2}
  NodeGuards = {}
  NoGuard = NoGuard
SPECIFICATION FairSpec
PROPERTIES
  WaiterServed
