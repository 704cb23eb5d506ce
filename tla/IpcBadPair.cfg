SPECIFICATION Spec
CONSTANTS
  Commands = {"ping", "call"}
  Mistakes = 1
  Strays <- MCStrays
  MaxExchanges = 1
  MaxStrays = 0
INVARIANT ErrorMeansFailed
CHECK_DEADLOCK FALSE
