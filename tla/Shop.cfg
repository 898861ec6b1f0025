SPECIFICATION Spec
CONSTANTS
  s1 = s1
  s2 = s2
  s3 = s3
  owner = owner
  mate = mate
  newcomer = newcomer
  t1 = t1
  t2 = t2
  Staff = {s1, s2, s3}
  NoStaff = NoStaff
  Founder = s1
  Mate = s2
  Accounts = {owner, mate, newcomer}
  NoAccount = NoAccount
  OwnerAccount = owner
  MateAccount = mate
  Tabs = {t1, t2}
  First = t1
  Days = {1}
  Windows = {1, 2}
  PhotoSlots = {0, 1}
  MaxMinted = 1
  MaxPresses = 2
  MaxOthers = 1
INVARIANTS
  TypeOK
  SwitchAgreesWithGate
  UntouchedFormsChangeNothing
PROPERTIES
  EachFormItsOwn
SYMMETRY Alike
CHECK_DEADLOCK FALSE
