SPECIFICATION FairSpec
CONSTANTS
  c1 = c1
  c2 = c2
  Conns = {c1, c2}
  Blockers = {c1}
  Stallers = {c2}
  Ways = {"drain", "stop"}
  MaxFailures = 1
  MaxSignals = 2
INVARIANT CommandsOutlived
PROPERTIES GracefulUnlessHeld SignalEndsProcess
CHECK_DEADLOCK FALSE
