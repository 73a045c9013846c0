CONSTANTS
  clip = clip
  c1 = c1
  c2 = c2
  Files = {clip}
  Converted <- MCConverted
  Callers <- MCCallers
  JobIds = {1, 2, 3}
  CopySize = 2
  PlanSize = 1
  MaxBytes = 4
  MaxVersion = 2
  MaxStops = 1
SPECIFICATION CSpec
INVARIANTS OneWorkerPerKey NothingStale
PROPERTIES EvictionBounds
CHECK_DEADLOCK FALSE
SYMMETRY Symmetry
