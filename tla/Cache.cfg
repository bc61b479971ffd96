SPECIFICATION CaseSpec
CONSTANTS
  r1 = r1
  r2 = r2
  c1 = c1
  c2 = c2
  k1 = k1
  Replicas = {r1, r2}
  Clients = {c1, c2}
  Keys = {k1, k2}
  Home <- OneEach
  TTL = 1
  MaxSize = 1
  Distributed = TRUE
  Faults <- AllFaults
  MaxFetch = 1
  MaxWrites = 2
INVARIANTS BoundedStaleness CoherentUnlessMissed
PROPERTY CachesConverge
