SPECIFICATION Spec
CONSTANTS
  Users = {"patient", "hasty"}
  Pcs = {1, 2}
  MaxMoves = 3
  MaxActs = 2
  MaxEdits = 1
  MaxSessions = 2
INVARIANTS
  SnapshotsAreTrue
  AttachCompletes
PROPERTIES
  ProgramRunsArmed
  StopsAreToldApart
CHECK_DEADLOCK FALSE
