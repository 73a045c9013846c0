CONSTANTS
  Windows = {w1, w2}
  Shared = {proj}
  Scratch = {tmp}
  BuildLimit = 1
  Retention = 3
  Ttl = 2
  MaxPresses = 3
  MaxRestarts = 0
SPECIFICATION BSpec
INVARIANTS BuildMeansBuildAgain
CHECK_DEADLOCK FALSE
