SPECIFICATION MCFairSpec
CONSTANTS
  MaxCmds = 3
  MaxSessions = 1
  MaxPauses = 1
  PromptOnStderr = FALSE
  Timeouts = "late"
INVARIANTS
  AnswerIsExact
  OwedPromptIsToCome
  StopsAreKnown
PROPERTIES
  CommandMeetsPrompt
  ArmsPrecedeContinue
  StdoutNeverStalls
CHECK_DEADLOCK FALSE
