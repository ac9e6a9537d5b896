CONSTANTS
  Null = Null
  h1 = h1
  h2 = h2
  Handlers = {h1}
  Kinds <- ErrAndQuit
  Leavers = {}
  MaxChunks = 1
  FrameSize = 2
  Capacity = 1
SPECIFICATION FairSpec
PROPERTIES Terminated
\* clients may send nothing more
CHECK_DEADLOCK FALSE
