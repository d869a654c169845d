CONSTANTS
  None = None
  Lines = {"Reset", "Rec", "Pwr", "Apo"}
  Kinds = {"NormalReboot", "RecoveryEntry", "FaultRecovery"}
  Template <- AllTemplates
  Delays = {0}
  Overrides = {1}
  QueueDepth = 1
  Holdoff = 2
  DebugAssertions = TRUE
  LinkNotices = TRUE
  MaxCommands = 3
  Window <- Ticks
  Horizon = 5
SPECIFICATION TimelineSpec
PROPERTIES SpecWindows SequencesSpaced RetryWaitsOutTheHoldoff
