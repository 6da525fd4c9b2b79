SPECIFICATION FairSpec
CONSTANTS
  MaxRows = 3
  Inputs <- SmallInputs
  Injectors = {"default", "noresult"}
  Chunk = 2
  CopyThreshold = 0
INVARIANTS
  TypeOK
  StepsMatch
  TablesArriveWhole
  ResultIsWhole
PROPERTIES
  ActsAsTask
  Ends
CHECK_DEADLOCK FALSE
