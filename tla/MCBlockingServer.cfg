CONSTANTS
  Clients = {"ann", "bob"}
  Users <- MCUsers
  Words <- MCWords
  MaxReports = 3
  Dates = {1, 2}
  Code <- MCCode
  ShortLength = 2
  LongLength = 5
  Capacity = 8
  WireCapacity = 0
SPECIFICATION FairSpec
INVARIANTS TypeOK KeptAsReported KeptInOrder SummaryTells
PROPERTIES DecodedAsSent HandledAsWritten ReportsArrive DeadForgotten
\* users may type nothing more
CHECK_DEADLOCK FALSE
