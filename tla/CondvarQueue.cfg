\* Two producers, three consumers, one of them with a timeout.
SPECIFICATION FairQueueSpec
CONSTANTS
  Threads = {p1, p2, c1, c2, c3}
  Producers = {p1, p2}
  Timed = {c2}
  MaxItems = 2
  NoThread = NoThread
INVARIANTS
  ConditionHolds
  NoMissedNotification
PROPERTIES
  ItemsAreTaken
