SPECIFICATION Spec
CONSTANTS
  Threads = {"kernel", "dbus"}
  MaxTraces = 3
INVARIANTS TypeOK DecidedByPiga AnswerIsTheDecision
CHECK_DEADLOCK FALSE
