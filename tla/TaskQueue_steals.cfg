SPECIFICATION Spec
CONSTANTS
  thief1 = thief1  thief2 = thief2  i1 = i1  i2 = i2  urgent = urgent
  Owner = owner  Null = null
  Thieves <- MCThieves
  Items <- MCItems
  MaxPriority = 2
  PriorityOf <- MCPriorityOf
  Capacity = 1
SYMMETRY MCSymmetry
INVARIANTS NullOnlyWhenEmpty EmptyOverlooksNone
PROPERTY ImplementsWorkQueue
CHECK_DEADLOCK FALSE
