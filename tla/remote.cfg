SPECIFICATION Spec
CONSTANTS
  Clients = {c}
  Requests <- MCRequests
  Script <- MCScript
  MaxLines = 2
  MaxEvents = 1
  MaxTimeouts = 1
INVARIANTS
  WaitsAreAccounted
PROPERTIES
  AnswerIsOwnUnlessRepeated
CHECK_DEADLOCK FALSE
