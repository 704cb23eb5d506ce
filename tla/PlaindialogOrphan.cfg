SPECIFICATION Spec
CONSTANTS
  MaxSignals = 1
  Kinds = {"gauge", "plain", "choice"}
INVARIANT NoneIsLeft
CHECK_DEADLOCK FALSE
