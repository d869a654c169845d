CONSTANTS
  None = None
  Lines = {"Reset", "Rec", "Pwr", "Apo"}
  Kinds = {"NormalReboot", "RecoveryImmediate", "FaultRecovery"}
  Template <- NoFaultTemplate
  Delays = {0, 2}
  Overrides = {None}
  QueueDepth = 1
  Holdoff = 1
  DebugAssertions = TRUE
  LinkNotices = FALSE
  MaxCommands = 4
SPECIFICATION Spec
INVARIANTS ServedInOrder BacklogBounded StatusTellsOfTheWait
PROPERTIES NoSilentLoss ImplementsService
