CONSTANTS
  t1 = t1
  t2 = t2
  Task <- Tasks
  Preemptive = FALSE
  LEVELS = 2
  CAPACITY = 3
  WITH_LOG = 2
  MAX_EVENTS = 3
  MAX_FLUSHES = 2
SPECIFICATION Spec
INVARIANTS RecordedOnceInOrder DropsCounted
PROPERTY EventuallySent
