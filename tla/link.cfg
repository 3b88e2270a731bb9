SPECIFICATION FairSpec
CONSTANTS
  Kinds = {"build", "read"}
  Ours = 1
  Versions = {1, 2}
  MaxCalls = 2
  MaxStarts = 3
  MaxFaults = 1
INVARIANTS
  CallsRunOnce
  ReplyIsOwnUnlessLate
PROPERTIES
  NobodyWaitsForever
CHECK_DEADLOCK FALSE
