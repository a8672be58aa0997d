SPECIFICATION FairSpec
CONSTANTS
  c1 = c1
  c2 = c2
  c3 = c3
  NoConn = NoConn
  Absent = Absent
  Null = Null
  socket_ = 3
  Conns <- MCConns
  Fds <- MCOneFd
  MaxChunks = 1
  Faults <- SendFaults
  WriteResults <- Always1
  MayReset = TRUE
CHECK_DEADLOCK FALSE
INVARIANTS
  NullNeverUsed
  AnswersAreOwed
PROPERTIES
  CloseOnlyAfterHangup
  HangupForgotten
  QueueServed
