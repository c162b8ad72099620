SPECIFICATION Spec
CONSTANTS
  Ports <- TwoPorts
  Depth = 2
  SpiFails = TRUE
  MaxChars <- First
  MaxX <- Second
  MaxStops <- Never
INVARIANTS TypeOK Exclusive TxbufFits
CHECK_DEADLOCK FALSE
