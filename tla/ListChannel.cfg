SPECIFICATION Spec
SYMMETRY Symmetry

CONSTANTS
  Senders = {s1, s2}
  Receivers = {r1, r2}
  None = None
  LAP = 3
  MaxSends = 1

INVARIANTS
  BlocksAreOwned
  SpinnersAreOwed
  SleepersAreOwed

PROPERTIES
  ImplementsChannel
