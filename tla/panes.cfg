SPECIFICATION MCSpec
CONSTANTS
  Programs <- MCPrograms
  Loads = {8}
  Places <- MCPlaces
  Names = {"buf", "helper"}
  Renames <- MCRenames
  Losses <- MCLosses
  MaxEdits = 2
  MaxBuilds = 1
  MaxStops = 2
  None = None
INVARIANTS
  ListsShowTheRings
PROPERTIES
  ArmedWhereSet
  PanesShowTheirWindow
CHECK_DEADLOCK FALSE
