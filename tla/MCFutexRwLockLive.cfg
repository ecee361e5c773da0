\* Three calls by three threads, on a platform where futex_wake does not say
\* whether it woke a thread.
SPECIFICATION BoundedSpec
CONSTANTS
  Threads = {t1, t2, t3}
  MAX_READERS = 2
  WakeReports = FALSE
  MaxCalls = 3
PROPERTIES
  EveryCallReturns
