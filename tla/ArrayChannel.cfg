\* Three messages through a buffer of two: the channel is full, empty and in
\* its second lap, and two receivers race for its head.
SPECIFICATION FairSpec
CONSTANTS
  Senders = {s1}
  Receivers = {r1, r2}
  None = None
  cap = 2
  mark_bit = 4
  MaxSends = 3
INVARIANTS
  SlotIsOwned
  FreedWhenUnused
PROPERTIES
  ChannelIsFreed
  ImplementsChannel
