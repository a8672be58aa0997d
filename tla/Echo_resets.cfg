SPECIFICATION FairSpec
CONSTANTS
  c1 = c1  c2 = c2  c3 = c3  f1 = f1  f2 = f2
  Conns <- MCConns
  Fds <- MCFds
  Resets = TRUE
  MaxData = 1
  BatchSize = 3
  Free = Free
  Listener = Listener
INVARIANTS ListMatches EventsAreOwned
PROPERTY FinishedIsClosed
CHECK_DEADLOCK FALSE
