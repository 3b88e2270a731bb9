SPECIFICATION MCSpec
CONSTANTS
  Dirs = {demo, other}
  DemoDir = demo
  Contents = {shipped, mine}
  Shipped = shipped
  MaxGestures = 3
  MaxOutside = 1
  MaxFailures = 1
  None = None
INVARIANTS
  HookRunsAsAllowedUnlessReplaced
  SettingsAreTheProjects
  PanelShowsTheRepository
PROPERTIES
  PicturesAreKept
CHECK_DEADLOCK FALSE
