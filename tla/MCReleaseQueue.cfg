CONSTANTS
  None = None
  Lines = {"Reset", "Rec", "Pwr", "Apo"}
  Kinds = {"NormalReboot", "RecoveryEntry"}
  Template <- AllTemplates
  Delays = {0, 2}
  Overrides = {None}
  QueueDepth = 1
  Holdoff = 2
  DebugAssertions = FALSE
  LinkNotices = FALSE
  MaxCommands = 4
SPECIFICATION Spec

PROPERTIES NoSilentLoss
