SPECIFICATION Spec
CONSTANTS
  MaxRows = 3
  Inputs <- SmallInputs
  Injectors = {"default", "noresult"}
  Chunk = 2
  CopyThreshold = 5
INVARIANT ThresholdObeyed
CHECK_DEADLOCK FALSE
