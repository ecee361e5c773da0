SPECIFICATION Spec

CONSTANTS
  Threads = {t1, t2, t3, t4}
  MAX = 9

INVARIANTS
  ExclusiveIsAlone
  FreedOnceAndLast
