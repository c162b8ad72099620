SPECIFICATION Spec
CONSTANTS
  Boards <- MCBoards
  Rates <- MCRates
  Widths <- MCWidths
  MaxFlips = 1
  MaxFaults = 1
INVARIANTS TypeOK OneClockMaster FrameClock Transfers Powered
PROPERTIES ParamsAccepted IrqComesBack
