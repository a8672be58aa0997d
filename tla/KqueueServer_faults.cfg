SPECIFICATION Spec
CONSTANTS
  c1 = c1  c2 = c2  c3 = c3  c4 = c4  c5 = c5
  Clients <- MCConns
  Conns <- MCConns
  Fds <- MCFds
  Faults = {"kevent", "setsockopt"}
  Habits = {}
  NoConn = NoConn
  Listener = 3
  Absent = Absent
  Null = Null
CONSTRAINTS Backlog HangUps
SYMMETRY Symmetry
INVARIANTS OwnDescriptor FlagsMatchKernel MapOwnsSockets NoDescriptorLost
PROPERTY ImplementsClient
CHECK_DEADLOCK FALSE
