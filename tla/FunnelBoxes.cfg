SPECIFICATION Spec
CONSTANTS
  t1 = t1  s1 = s1  s2 = s2  v1 = v1
  None = None
  Tabs = {t1}
  Staff = {s1, s2}
  Services = {v1}
  PerDay = 2
  Days = 2
  Window = 2
  Limit = 1
  LastNow = 2
  MaxPresses = 2
  MaxActs = 1
INVARIANT CorrectableOnTheForm
SYMMETRY Alike
CHECK_DEADLOCK FALSE
