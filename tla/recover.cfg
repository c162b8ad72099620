SPECIFICATION FairSpec
CONSTANTS
  Cmds <- RecoverCmds
  BufMax = 2
  Word = 64
  Lbas <- MCLbas
  VendorSysLba = 50
  UnlockLba = 48
  VendorLbas <- MCVendorLbas
  StorageFails = FALSE
  Flag = FALSE
  Faults <- ClearBoth
  MaxCmds = 3
  MaxFaults = 2
INVARIANTS NoPhaseError OneReceive
PROPERTIES NoReexecution HostGetsReady
CHECK_DEADLOCK FALSE
