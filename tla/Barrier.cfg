\* Four threads for a barrier of four: rounds follow each other for ever,
\* threads of two rounds are inside wait, and the generation counter wraps.
SPECIFICATION FairSpec
CONSTANTS
  Threads = {t1,t2,t3,t4}
  num_threads = 4
  Modulus = 2
  NoThread = NoThread
INVARIANTS
  ReleasedAreWoken
PROPERTIES
  EveryRoundEnds
  ImplementsBarrier
