\* A writer, a reader and a third thread that is either; two readers are
\* the most the counter takes, so that the third meets the limit.
SPECIFICATION EndlessSpec
CONSTANTS
  Threads = {t1, t2, t3}
  MAX_READERS = 2
  WakeReports = TRUE
  MaxCalls = 0
SYMMETRY Symmetry
INVARIANTS
  Exclusion
  CountIsExact
  ReadersBitIsSound
  ReaderIsOwed
  WriterIsOwed
  FreeLockIsHandedOn
