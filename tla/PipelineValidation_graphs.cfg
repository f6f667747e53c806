\* All graphs of two nodes between the entry and the exit node, chains of all
\* shapes, and broken configurations.
CONSTANTS
  Configs <- MCConfigs
  Entry = "request"
  Exit = "response"
SPECIFICATION Spec
INVARIANTS
  AcceptsExecutable
  OutputsAsExecuted
  InputsAsDeclared
CHECK_DEADLOCK FALSE
