SPECIFICATION FairSpec
CONSTANTS
  w1 = w1
  w2 = w2
  Keys = {1, 2}
  Waiters = {w1, w2}
  Producers = {1}
  blockingPollInterval = 1
  Timeouts = {0}
  MaxPushes = 2
  MaxInbox = 2
INVARIANT BoundedWait
PROPERTY WaitersServed
