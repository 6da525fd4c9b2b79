SPECIFICATION Spec
CONSTANTS
  Execs = {e1, e2}
  Listening = TRUE
INVARIANTS TypeOK OneVerdict CrashesOnly ClockEndsFirst
PROPERTIES RunEnds StopEnds
CHECK_DEADLOCK FALSE
