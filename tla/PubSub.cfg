SPECIFICATION FairSpec
CONSTANTS
  c1 = c1
  c2 = c2
  here = here
  there = there
  Clients = {c1, c2}
  Servers = {here, there}
  Channels = {"news", "misc"}
  Patterns = {"n*"}
  Matching <- Prefix
  Loads <- Workloads
  MaxPublish = 2
  MaxQueue = 2
INVARIANTS InOrderOnce TablesAgree AcksCount OneLateMessage ExecAnswersQueued
PROPERTIES ModeFollowsRoutes MessagesArrive ClosedIsForgotten
CHECK_DEADLOCK FALSE
