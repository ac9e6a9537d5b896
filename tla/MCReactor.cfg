CONSTANTS
  Null = Null
  h1 = h1
  h2 = h2
  Handlers = {h1, h2}
  Kinds <- PublishAndAsk
  Leavers = {h1}
  MaxChunks = 1
  FrameSize = 2
  Capacity = 1
SPECIFICATION FairSpec
INVARIANTS TypeOK InputInOrder OutputInOrder NoLostWakeup
PROPERTIES Answered
\* clients may send nothing more
CHECK_DEADLOCK FALSE
