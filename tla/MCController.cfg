CONSTANTS
  None = None
  Lines = {"Reset", "Rec", "Pwr", "Apo"}
  Kinds = {"NormalReboot", "RecoveryEntry", "RecoveryImmediate",
           "FaultRecovery"}
  Template <- AllTemplates
  Delays = {0, 2}
  Overrides = {None, 1, 2, 3}
  MaxTokens = 5
  MaxCount = 300
  HostLines <- Conversation
  Scale <- DelayTicks
  QueueDepth = 1
  Holdoff = 1
  DebugAssertions = TRUE
  LinkNotices = FALSE
  MaxCommands = 3
SPECIFICATION ControllerSpec
INVARIANTS CooldownTracksAcceptance
PROPERTIES ImplementsOrchestrator
