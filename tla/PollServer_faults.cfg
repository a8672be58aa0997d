SPECIFICATION Spec
CONSTANTS
  c1 = c1
  c2 = c2
  c3 = c3
  NoConn = NoConn
  Absent = Absent
  Null = Null
  socket_ = 3
  Conns <- MCConns
  Fds <- MCFds
  MaxChunks = 1
  Faults <- AllFaults
  WriteResults <- OneOrFail
  MayReset = TRUE
CHECK_DEADLOCK FALSE
SYMMETRY Symmetry
INVARIANTS
  TypeOK
  MapOwnsSockets
  RegisteredIffClient
