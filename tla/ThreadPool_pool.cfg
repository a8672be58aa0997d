SPECIFICATION FairSpec
CONSTANTS
  w1 = w1
  w2 = w2
  w3 = w3
  p1 = p1
  p2 = p2
  t1 = t1
  t2 = t2
  t3 = t3
  t4 = t4
  Owner = Owner
  Nobody = Nobody
  NoTask = NoTask
  Workers <- MCWorkers
  Clients <- MCClients
  Tasks <- MCTasks
  Calls <- MCCalls
  MaxSpurious = 2
INVARIANTS
  NoLostWakeup
  NobodySleepsAfterStop
  DrainedAtJoin
PROPERTIES
  ImplementsPool
  DestructorReturns
