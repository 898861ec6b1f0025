SPECIFICATION Spec
CONSTANTS
  s1 = s1
  s2 = s2
  Ids = {1, 2, 3}
  Staff = {s1, s2}
  Anyone = Anyone
  Open <- Hours
  PerDay = 2
  MaxTime = 3
  Turnaround = 1
  Window = 1
  Limit = 1
  MaxPresses = 1
  MaxOthers = 1
INVARIANTS
  TypeOK
  DiaryAgreesWithBackend
  PagerMissesNothing
PROPERTIES
  PromisesAreKept
CHECK_DEADLOCK FALSE
