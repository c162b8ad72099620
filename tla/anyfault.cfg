SPECIFICATION Spec
CONSTANTS
  Cmds <- StrangeCmds
  BufMax = 2
  Word = 16
  Lbas <- SmallLbas
  VendorSysLba = 14
  UnlockLba = 13
  VendorLbas <- SmallVendorLbas
  StorageFails = TRUE
  Flag = FALSE
  Faults <- AllFaults
  MaxCmds = 2
  MaxFaults = 2
INVARIANTS TypeOK
PROPERTIES RxBufferStable
CHECK_DEADLOCK FALSE
