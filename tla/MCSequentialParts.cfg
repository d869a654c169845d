CONSTANTS
  None = None
  Calibration = 1655
  Reference = 3000
  Entry = 3050
  Recovery = 3150
  Readings = {0, 1, 75, 76, 1575, 1576, 1577, 1600, 1627, 1628, 1629, 4095, 65535}
  MaxSamples = 3
  MaxTokens = 5
  MaxCount = 300
  MaxStrays = 1
  Vocabulary <- Typed
  Spelling <- Spelled
  Unset = Unset
  Capacity = 2
  EventIds = 2
  Moments = {0, 1}
  MaxRecords = 3
  Unknown = Unknown
  MaxMicros = 11
  Rails = {1, 2}
  StrapIndexes = {0, 3}
  MicrosPerMilli = 2
  MillisPerTenth = 2
  TenthsPerSecond = 2
  Intervals = {1, 3}
  MaxUptime = 13
  TypedLines <- Entered
  MaxEntered = 3
  TicksPerMilli = 2
  NoDeadline = NoDeadline
  Timeouts = {0, 2}
  Holds = {0, 1, 2}
  MaxStepTime = 3
SPECIFICATION PartsSpec
INVARIANTS
  FollowsHistory ReadingsConvert
  LinesAreUnderstood ErrorsNameTheFirstWrongToken
  OffersContinueTheLine EveryWordIsOffered
  RingHoldsTheNewest ElapsedAddsUp
  StatusIsTrue
  CooldownAsAnnounced TranscriptTellsAll
  HoldFollowsTheStep
PROPERTIES TabKeepsOptions
CHECK_DEADLOCK FALSE
