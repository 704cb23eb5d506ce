SPECIFICATION FairSpec
CONSTANTS
  Workers = {w1, w2}
  MaxCalls = 2
  None = None
INVARIANTS
  TypeOK
  NoUseAfterFree
  NoLostWakeup
  BoundedDispatch
PROPERTIES
  CallsReturn
  FifoCalls
