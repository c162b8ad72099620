SPECIFICATION Spec
CONSTANTS
  Users = {1, 2}
  QueueLen = 2
  MaxLoads = 2
  MaxTriggers = 1
  MaxFaults = 1
INVARIANTS InOrder
PROPERTIES ProgramEnds ListenersHear
CHECK_DEADLOCK FALSE
