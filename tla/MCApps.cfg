CONSTANTS
  i1 = i1
  i2 = i2
  t0 = t0
  t1 = t1
  mixed = mixed
  d1 = d1
  d2 = d2
  w1 = w1
  proj = proj
  tmp = tmp
  Docs <- MCDocs
  First <- MCFirst
  Ns <- MCNs
  MaxClicks = 3
  Windows = {w1}
  Shared = {proj}
  Scratch = {tmp}
  BuildLimit = 1
  Retention = 3
  Ttl = 2
  MaxPresses = 3
  MaxRestarts = 1
  Ids <- MCIds
  Texts <- MCTexts
  Empty = t0
  Initial = t0
  Mixed = mixed
  SetsOnMove = TRUE
  Bound = 3
SPECIFICATION MCSpec
INVARIANTS InStep DocsKeepTexts BuildsAreOwn
PROPERTIES ShownKept ClicksLeaveClean WritesEnd PollingEnds NothingLingers
CHECK_DEADLOCK FALSE
