SPECIFICATION FairSpec
CONSTANTS
  n1 = n1  n2 = n2  n3 = n3  w1 = w1  w2 = w2
  NoNote = NoNote
  Notes = {n1, n2, n3}
  Addressed = {n1}
  Workers = {w1, w2}
  Batch = 2
  Lease = 1
  SendLimit = 1
  Ahead = {1}
  Delays = {1}
  MaxAttempts = 2
  MaxAborts = 2
  MaxLostAnswers = 1
INVARIANTS TypeOK HeldByOne DuplicatesAreExplained
PROPERTIES EveryMessageIsSettled ImplementsPostbox
CHECK_DEADLOCK FALSE
