SPECIFICATION Spec
CONSTANTS
  Modes = {"pvp", "pve"}
  Bank = 1
  Remember = 1
  Workers = 1
  MaxTime = 2
  MaxThink = 1
  MaxMoves = 2
  MaxAsks = 2
  MaxTrouble = 1
  MaxSteps = 4
INVARIANTS MoveOnce LogShowsGame NoMoveAfterEnd ClockFollowsTurn
CHECK_DEADLOCK FALSE
