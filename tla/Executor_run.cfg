SPECIFICATION FairSpec
CONSTANTS
  a = a  b = b  c = c
  Waiters <- TwoWorkers
  Callers <- MCCallers
  EpochMod = 64
  None = None
  Owner = Owner
  Nodes <- MCNodes
  Successors <- Fork
  Repeats <- OnceTwice
  MayCancel = TRUE
  Shared = Shared
INVARIANTS SleepersHeld TicketsInOrder ThiefIsAwake OnceInOrder DrainedAtTearDown
PROPERTY DestructorReturns
