CONSTANTS
  None = None
  Depth = 1
  MaxLine = 1
  Packets <- Mistyping
  Answers = {2}
  Window = 2
  MaxPackets = 8
  MaxClosings = 0
SPECIFICATION Spec
INVARIANTS CompletedLineRuns
