\* Three threads: an owner, a sleeper and a third one that barges in.
SPECIFICATION FairMutexSpec
CONSTANTS
  Threads = {t1, t2, t3}
  NoOwner = NoOwner
INVARIANTS
  SleeperIsOwed
PROPERTIES
  LockIsAcquired
  ImplementsMutex
CHECK_DEADLOCK TRUE
