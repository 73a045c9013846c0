CONSTANTS
  w1 = w1
  w2 = w2
  list = list
  save = save
  Windows <- MCWindows
  CallIds = {1}
  Requests <- MCRequests
  Merged <- MCMerged
  Patience <- MCPatience
  MaxCalls = 3
SPECIFICATION Spec
INVARIANTS IInv
PROPERTIES HearsOnlyOwn TransportPromise
CHECK_DEADLOCK FALSE
