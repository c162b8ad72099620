SPECIFICATION Spec
CONSTANTS
  Cmds <- FaultCmds
  BufMax = 2
  Word = 64
  Lbas <- MCLbas
  VendorSysLba = 50
  UnlockLba = 48
  VendorLbas <- MCVendorLbas
  StorageFails = FALSE
  Flag = FALSE
  Faults <- OnlyReset
  MaxCmds = 2
  MaxFaults = 1
INVARIANTS NoPhaseError
CHECK_DEADLOCK FALSE
