CONSTANTS
  w1 = w1
  w2 = w2
  a = a
  b = b
  Windows <- MCWindows
  Order <- MCOrder
  Dirs <- MCOneDir
  Requests <- MCRequests
  Merged <- MCMerged
  Patience <- MCPatience
  CallIds <- MCCallIds
  MaxCalls = 4
  Root = a
  SweepAfter = 1
SPECIFICATION Spec
INVARIANTS OwnDeletionShown
CHECK_DEADLOCK FALSE
