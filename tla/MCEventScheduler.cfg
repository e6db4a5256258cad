CONSTANTS
  e1 = e1
  e2 = e2
  e3 = e3
  NULL = NULL
  Event <- MCEvent
  MaxCycles = 2
  MaxTime = 4
SPECIFICATION ListSpec
INVARIANT QueueOK
PROPERTIES Refines
