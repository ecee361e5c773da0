\* A runner, a waiter and a thread that comes in between.
SPECIFICATION FairSpec
CONSTANTS
  Threads = {t1, t2, t3}
  NoThread = NoThread
INVARIANTS
  WaiterIsOwed
  ExclusiveStateIsClean
PROPERTIES
  CallsReturn
  ImplementsOnce
