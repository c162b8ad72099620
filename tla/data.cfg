SPECIFICATION Spec
CONSTANTS
  Cmds <- DataCmds
  BufMax = 2
  Word = 64
  Lbas <- MCLbas
  VendorSysLba = 50
  UnlockLba = 48
  VendorLbas <- MCVendorLbas
  StorageFails = FALSE
  Flag = FALSE
  Faults <- NoFaults
  MaxCmds = 4
  MaxFaults = 0
INVARIANTS ReadReturnsMedia WriteIsStored
PROPERTIES TxBufferStable ChangesOwnRange
CHECK_DEADLOCK FALSE
