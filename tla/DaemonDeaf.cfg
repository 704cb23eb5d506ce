SPECIFICATION FairSpec
CONSTANTS
  Conns = {c1, c2}
  Deaf = {c1}
  MaxMessages = 2
PROPERTIES
  ShutdownCompletes
CHECK_DEADLOCK FALSE
