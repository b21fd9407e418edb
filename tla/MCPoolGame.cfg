SPECIFICATION FairSpec
CONSTANTS
  l1 = l1
  l2 = l2
  Loaders <- OneLoader
  Bank = 2
  MaxTime = 3
  MaxShot = 2
  MaxPlays = 2
  MaxSessions = 2
  MaxFails = 1
  MaxCrashes = 1
INVARIANTS ClockFollowsTurn GameOverOnce
PROPERTIES ResultStays ForfeitIsDue FlagFalls
CHECK_DEADLOCK FALSE
