\* The owner and four threads that unpark it.
SPECIFICATION FairParkerSpec
CONSTANTS
  Threads = {t1, t2, t3, t4, t5}
  Owner = t1
  MAX = 255
INVARIANTS
  NoLostWakeup
PROPERTIES
  UnparkEndsPark
  ImplementsParker
