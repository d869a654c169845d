CONSTANTS
  None = None
  Lines = {"Reset", "Rec", "Pwr", "Apo"}
  Kinds = {"RecoveryImmediate"}
  Template <- AllTemplates
  Delays = {0}
  Overrides = {None}
  QueueDepth = 2
  Holdoff = 2
  DebugAssertions = TRUE
  LinkNotices = FALSE
  MaxCommands = 1
SPECIFICATION FairSpec
PROPERTIES RecoveryReleases
