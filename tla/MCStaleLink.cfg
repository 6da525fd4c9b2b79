SPECIFICATION Spec
CONSTANTS
  Names = {n}
  Moved = {}
  Ids = {i1, i2}
  MovedIds = {}
  MaxRuns = 3
INVARIANTS ResultsCanBeFound
CHECK_DEADLOCK FALSE
