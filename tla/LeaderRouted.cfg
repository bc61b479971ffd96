SPECIFICATION Spec
CONSTANTS
  a = a
  b = b
  Pods = {a, b}
  Ahead <- Exact
  leaseDuration = 3
  renewDeadline = 1
  retryPeriod = 1
  MaxFaults = 1
INVARIANT RoutedToOne
