SPECIFICATION FairSpec
CONSTANTS
  ann = ann  bea = bea  r1 = r1  r2 = r2  r3 = r3  m1 = m1  m2 = m2
  c1 = c1  c2 = c2  c3 = c3  k1 = k1
  NoRow = NoRow  NoKey = NoKey  Anybody = Anybody
  Staff = {ann, bea}
  Skilled = {ann, bea}
  Dur = 2
  Horizon = 3
  Requests = {r1, r2}
  Movers = {m1, m2}
  Customers = {c1, c2, c3}
  Keys = {k1}
  Ask <- MoveAsk
  Plan <- Swap
  Week <- AllWeek
  Lead = 0
  MaxDeadlockRetries = 1
  TruthReads = 2
  MaxEdits = 1
  MaxCrashes = 0
  LastTick = 1
PROPERTIES ClosedStaysClosed ImplementsDiary
CHECK_DEADLOCK FALSE
