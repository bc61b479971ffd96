SPECIFICATION FairSpec
CONSTANTS
  w1 = w1
  w2 = w2
  Keys = {1}
  Waiters = {w1}
  Producers = {1}
  blockingPollInterval = 1
  Timeouts = {1}
  MaxPushes = 1
  MaxInbox = 2
PROPERTY TimeoutHonoured
