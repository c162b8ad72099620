SPECIFICATION FairSpec
CONSTANTS
  Ports <- OnePort
  Depth = 4
  SpiFails = FALSE
  MaxChars <- Thrice
  MaxX <- Never
  MaxStops <- Once
INVARIANTS SentWhenIdle InOrder
PROPERTIES EveryCharSent
CHECK_DEADLOCK FALSE
