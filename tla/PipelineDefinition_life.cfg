\* Two requests, three definitions over two models, changes of the configuration
\* and of the models up to the budget.
CONSTANTS
  m1 = m1
  m2 = m2
  Requests = {r1, r2}
  Models = {m1, m2}
  Graphs <- MCGraphs
  InitialKinds <- MCInitialKinds
  WaitCheckpoints = 1
  Budget = 3
SPECIFICATION FairSpec
INVARIANTS
  ManagerNeverRefused
  BuiltFromOneDefinition
  VerdictCurrent
PROPERTIES
  EveryCallReturns
  NotifiedIsRevalidated
CHECK_DEADLOCK FALSE
