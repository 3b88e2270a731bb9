SPECIFICATION Spec
CONSTANTS
  Paths <- MCPaths
  Langs <- MCLangs
  Entries = {"E"}
  Extract <- MCExtract
  OnDisk <- MCOnDisk
  MaxTabs = 2
  MaxEdits = 2
  MaxOutside = 1
  MaxDepth = 2
INVARIANTS
  TabsAndDiskAgree
PROPERTIES
  NothingIsLostUnlessMoved
CHECK_DEADLOCK FALSE
