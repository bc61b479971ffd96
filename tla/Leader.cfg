SPECIFICATION FairSpec
CONSTANTS
  a = a
  b = b
  Pods = {a, b}
  Ahead <- Skewed
  leaseDuration = 5
  renewDeadline = 2
  retryPeriod = 1
  MaxFaults = 1
INVARIANT AtMostOneLeader
PROPERTY LeaderElected
