SPECIFICATION Spec
CONSTANTS
  c1 = c1
  c2 = c2
  Outputs <- MCOutputs
  AlwaysOn <- MCAlwaysOn
  Requests <- MCRequests
  Bytes <- MCBytes
  MaxEvents = 2
  Consumers <- MCDrivers
  Supply <- Ldo2
  MaxLoads = 1
INVARIANTS TypeOK Kept LockHeld CountsUsers
PROPERTIES ImplementsSharedSupply
CHECK_DEADLOCK FALSE
SYMMETRY Swap
