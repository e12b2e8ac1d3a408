SPECIFICATION FairSpec
CONSTANTS
  d1 = d1  d2 = d2  n1 = n1  n2 = n2  g1 = g1  g2 = g2
  Devs = {d1, d2}
  Nodes = {n1, n2}
  Guids = {g1}
  MaxVersion = 2
  None = None
  Freed = Freed
  MaxRetries = 4
  MaxResets = 4
  MaxFails = 1
  Environments <- QuietOrRough
INVARIANT DevicesConsistent
PROPERTY DevicesFollowBus
CHECK_DEADLOCK FALSE
