SPECIFICATION Spec
CONSTANTS
  Outputs <- MCOutputs
  Windows <- MCWindows
  MaxUsers = 2
  MaxFaults = 2
INVARIANTS TypeOK Supplied InWindow
