CONSTANTS
  None = None
  Depth = 1
  ActivityDepth = 1
  Monitored = FALSE
  MaxFrames = 3
SPECIFICATION FairSpec
PROPERTIES HostIsHeard
