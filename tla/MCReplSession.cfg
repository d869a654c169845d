CONSTANTS
  None = None
  Depth = 1
  MaxLine = 2
  Packets <- Everything
  Answers = {0, 2, 3}
  Window = 2
  MaxPackets = 4
  MaxClosings = 1
SPECIFICATION FairSpec
INVARIANTS TypeOK BufferIsTheLine AnswersInOrder
PROPERTIES AnswersShown
CHECK_DEADLOCK FALSE
