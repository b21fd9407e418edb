SPECIFICATION FairSpec
CONSTANTS
  u1 = u1
  u2 = u2
  u3 = u3
  Users <- TwoUsers
  MaxMatches = 2
  MaxInvites = 1
  MaxFails = 1
  MaxCancels = 1
  MaxRestarts = 1
  MaxTroubles = 2
INVARIANTS TypeOK RowsMatchGames SentToAGame
PROPERTIES InviteUsedOnce WaitersMeet
CHECK_DEADLOCK FALSE
