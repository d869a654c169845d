CONSTANTS
  None = None
  Depth = 1
  ActivityDepth = 1
  Monitored = TRUE
  MaxFrames = 3
SPECIFICATION FairSpec
INVARIANTS TypeOK ToHostExact ToJetsonExact MonitorKeepsUp
PROPERTIES HostIsHeard JetsonIsHeard
