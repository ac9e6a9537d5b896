CONSTANTS
  a1 = a1
  a2 = a2
  a3 = a3
  t1 = t1
  t2 = t2
  Nothing = Nothing
  Actors <- MCActors
  Threads <- MCThreads
  MaxTasks = 3
SPECIFICATION FairSpec
INVARIANTS TypeOK Exclusive NoneStranded InOrder
PROPERTIES EveryTaskRuns ImplementsMailbox
\* the pool stops when every task was executed, or after a shutdown
CHECK_DEADLOCK FALSE
