SPECIFICATION FairSpec
CONSTANTS
  c1 = c1
  Clients <- OneClient
  MaxLen = 2
  MaxEvents = 3
  MaxPipe = 3
  MaxDrops = 2
  MaxResets = 1
INVARIANTS NothingIsMissing
PROPERTIES EventsReachOneSession StreamRecovers
CHECK_DEADLOCK FALSE
