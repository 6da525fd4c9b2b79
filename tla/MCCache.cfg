SPECIFICATION Spec
CONSTANTS
  Names = {n, v}
  Moved = {v}
  Ids = {i1, i2, i3, w}
  MovedIds = {w}
  MaxRuns = 3
SYMMETRY Symmetry
INVARIANTS TypeOK DescribedIsWhole MemoryMatchesDisk LinksLead
CHECK_DEADLOCK FALSE
