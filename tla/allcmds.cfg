SPECIFICATION FairSpec
CONSTANTS
  Cmds <- AllCmds
  BufMax = 2
  Word = 64
  Lbas <- MCLbas
  VendorSysLba = 50
  UnlockLba = 48
  VendorLbas <- MCVendorLbas
  StorageFails = TRUE
  Flag = TRUE
  Faults <- NoFaults
  MaxCmds = 2
  MaxFaults = 0
INVARIANTS ResetAfterAnswer
PROPERTIES EveryCbwAnswered
CHECK_DEADLOCK FALSE
