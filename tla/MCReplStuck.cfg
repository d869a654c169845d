CONSTANTS
  None = None
  Depth = 1
  MaxLine = 2
  Packets <- Pasting
  Answers = {0, 2, 3}
  Window = 3
  MaxPackets = 4
  MaxClosings = 1
SPECIFICATION FairSpec
PROPERTIES AnswersShown
CHECK_DEADLOCK FALSE
