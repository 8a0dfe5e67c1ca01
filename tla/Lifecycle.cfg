SPECIFICATION Spec
CONSTANTS
  Callbacks = {1, 2}
  ReadHeaderTimeout = 1
  ReadTimeout = 2
  WriteTimeout = 5
  ClientTimeout = 2
  KeyWait = 3
  PrelinkTimeout = 1
  ShutdownTimeout = 2
INVARIANTS
  StopWaits
  AnswerArrives
PROPERTIES
  EverythingEnds
CHECK_DEADLOCK FALSE
