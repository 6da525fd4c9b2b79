SPECIFICATION Spec
CONSTANTS
  Execs = {e1, e2}
  Listening = TRUE
  NodeEvents = 2
  MapEvents = 3
INVARIANTS EventsInOrder SynchronousIsSafe
PROPERTIES RunReported
CHECK_DEADLOCK FALSE
