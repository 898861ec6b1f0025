SPECIFICATION Spec
CONSTANTS
  t1 = t1
  t2 = t2
  Tabs = {t1, t2}
  Paths = {"/dashboard"}
  Life = 2
  Margin = 1
  MaxChunks = 3
  MaxNow = 1
  MaxSignIns = 2
  MaxOutages = 1
INVARIANTS
  TypeOK
  CookiesAgree
  SignOutIsNoQuestion
PROPERTIES
  AccessDiesWithTheRealm
  EndsSomewhere
CHECK_DEADLOCK FALSE
