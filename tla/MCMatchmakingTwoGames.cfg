SPECIFICATION Spec
CONSTANTS
  u1 = u1
  u2 = u2
  u3 = u3
  Users <- ThreeUsers
  MaxMatches = 2
  MaxInvites = 1
  MaxFails = 0
  MaxCancels = 0
  MaxRestarts = 0
  MaxTroubles = 0
SYMMETRY Symmetry
INVARIANTS OneGameAtATime
CHECK_DEADLOCK FALSE
