SPECIFICATION FairSpec
CONSTANTS
  MaxCmds = 3
  MaxSessions = 1
  MaxDrops = 1
  Watchdog = TRUE
  Foreign = TRUE
  Offered = {"arm", "insert"}
  Listeners = {TRUE, FALSE}
INVARIANTS
  AnswerIsOwn
  OwedReplyIsToCome
  StopViewIsTrue
PROPERTIES
  AnswerIsExactUnlessSpilled
  AnsweredOnce
  ArmsPrecedeRun
  HostIsNeverStuck
CHECK_DEADLOCK FALSE
