\* Three streams fought over by five guards: the ring wraps, fills and empties,
\* and promises queue up.  No symmetry, liveness is checked.
CONSTANTS
  nireq = 3
  e1 = e1
  e2 = e2
  e3 = e3
  e4 = e4
  n1 = n1
  Guards = {e1, e2, e3, e4, n1}
  NodeGuards = {n1}
  NoGuard = NoGuard
SPECIFICATION FairSpec
INVARIANTS
  StreamConserved
  AtMostOneStranded
PROPERTIES
  ServedWhileStreamsReturn
  ImplementsStreamPool
