SPECIFICATION FairSpec

CONSTANTS
  Senders = {s1, s2}
  Receivers = {r1, r2}
  None = None
  MaxSends = 1

INVARIANTS
  PacketOutlivesUse

PROPERTIES
  ImplementsRendezvous
  ChannelIsFreed
