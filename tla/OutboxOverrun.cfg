SPECIFICATION Spec
CONSTANTS
  n1 = n1  n2 = n2  n3 = n3  w1 = w1  w2 = w2
  NoNote = NoNote
  Notes = {n1, n2}
  Addressed = {n1, n2}
  Workers = {w1, w2}
  Batch = 2
  Lease = 1
  SendLimit = 1
  Ahead = {1}
  Delays = {1}
  MaxAttempts = 2
  MaxAborts = 0
  MaxLostAnswers = 0
INVARIANT NoDoubleSend
CHECK_DEADLOCK FALSE
