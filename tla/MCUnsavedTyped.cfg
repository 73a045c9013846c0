CONSTANTS
  Docs = {d1, d2}
  First = {d1}
  Ns = {0, 1, 2}
  MaxClicks = 4
SPECIFICATION DSpec
PROPERTIES LeavesOnlySaved
CHECK_DEADLOCK FALSE
