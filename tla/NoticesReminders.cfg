SPECIFICATION Spec
CONSTANTS
  a1 = a1  ann = ann
  NoRow = NoRow  NoKey = NoKey
  Staff = {ann}
  Dur = 1
  Horizon = 2
  Appts = {a1}
  Before = {1}
  Notice = 0
  Reachable = TRUE
  MaxMoves = 1
  MaxClaims = 1
  MaxReached = 1
  MaxCrashes = 1
  LastTick = 1
INVARIANT RemindersFollowTheMove
CHECK_DEADLOCK FALSE
