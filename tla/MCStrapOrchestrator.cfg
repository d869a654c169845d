CONSTANTS
  None = None
  Lines = {"Reset", "Rec", "Pwr", "Apo"}
  Kinds = {"NormalReboot", "FaultRecovery"}
  Template <- AllTemplates
  Delays = {0, 2}
  Overrides = {None, 2}
  QueueDepth = 2
  Holdoff = 2
  DebugAssertions = TRUE
  LinkNotices = TRUE
  MaxCommands = 2
SPECIFICATION FairSpec
INVARIANTS TypeOK ControlState StrapsFollowTheRun RetriesWithinBudget NoEventDropped DetachedIsQuiet
PROPERTIES EveryCommandServed
