\* Three threads: one holds the lock and two queue up; the fourth call lets
\* one of them barge in while the queue is being split or woken.
SPECIFICATION FairSpec
CONSTANTS
  Readers = {r1}
  Writers = {w1, w2}
  MaxCalls = 4
INVARIANTS
  OwnersAreExact
  QueueIsLinked
  NodesOutliveUse
PROPERTIES
  CallsReturn
