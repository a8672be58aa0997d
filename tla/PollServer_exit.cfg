SPECIFICATION Spec
CONSTANTS
  c1 = c1
  c2 = c2
  c3 = c3
  NoConn = NoConn
  Absent = Absent
  Null = Null
  socket_ = 3
  Conns <- MCTwoConns
  Fds <- MCFds
  MaxChunks = 1
  Faults <- OptionFaults
  WriteResults <- Always1
  MayReset = FALSE
CHECK_DEADLOCK FALSE
INVARIANT ClientNeverClosesServer
