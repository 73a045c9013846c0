CONSTANTS
  w1 = w1
  w2 = w2
  a = a
  b = b
  Windows <- MCWindows
  Order <- MCOrder
  Dirs <- MCDirs
  Requests <- MCRequests
  Merged <- MCMerged
  Patience <- MCPatience
  CallIds <- MCCallIds
  MaxCalls = 3
  Root = a
  SweepAfter = 1
SPECIFICATION Spec
INVARIANTS RpcInv EachDeletionDone
CHECK_DEADLOCK FALSE
