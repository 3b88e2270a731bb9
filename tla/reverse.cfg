SPECIFICATION Spec
CONSTANTS
  Program <- MCProgram
  Users = {"patient", "hasty"}
  Restores = {TRUE, FALSE}
  MaxAnchors = 3
  MaxStops = 2
  MaxActs <- MCMaxActs
INVARIANTS
  ReverseKeepsTheRecord
  SeekIsOnThePath
PROPERTIES
  HousekeepingKeepsTheStop
CHECK_DEADLOCK FALSE
