SPECIFICATION Spec
CONSTANTS
  Irqs <- MCIrqs
  Masks <- MCMasks
  Shift = 3
  MaxEvents = 5
  MaxFaults = 1
INVARIANTS TypeOK ActiveLow NoneCleared
PROPERTY Reaches
CHECK_DEADLOCK FALSE
