SPECIFICATION FairSpec
CONSTANTS
  c1 = c1  c2 = c2  c3 = c3  f1 = f1  f2 = f2
  Conns <- MCConns
  Fds <- MCFds
  Backlog = 2
  Nobody = Nobody
INVARIANT OneThreadEach
PROPERTY EveryoneLeaves
CHECK_DEADLOCK FALSE
