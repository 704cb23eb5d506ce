SPECIFICATION FairSpec
CONSTANTS
  Conns = {c1, c2}
  MaxMessages = 2
  Deaf = {}
INVARIANTS
  BorrowedRequestAlive
  QuitAnsweredFirst
PROPERTIES
  NothingAfterFree
  ShutdownCompletes
  WorkersReaped
CHECK_DEADLOCK FALSE
