SPECIFICATION FairSpec
CONSTANTS
  Sources = {a, b}
  Linking = {TRUE}
  Fates <- MCFates
  Questions = {"rom"}
  MaxAsks = 2
  MaxEvents = 1
INVARIANTS
  WindowKnowsItsRun
PROPERTIES
  BuildsEndWell
CHECK_DEADLOCK FALSE
