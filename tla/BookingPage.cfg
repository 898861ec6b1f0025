SPECIFICATION Spec
CONSTANTS
  t1 = t1  t2 = t2  f1 = f1  f2 = f2
  Nobody = Nobody
  Tabs = {t1}
  Files = {f1, f2}
  Window = 1
  Hours = {0, 2, 3}
  TeamStarts = {1}
  LastTick = 3
  MaxPresses = 2
  MaxActs = 2
INVARIANTS TypeOK PageAgreesWithBackend NothingRefusedInSilence AnnouncedIsSo
PROPERTIES HiddenStandsStill
SYMMETRY Alike
CHECK_DEADLOCK FALSE
