SPECIFICATION FairSpec
CONSTANTS
  Ids = {d1}
  Nodes = {n1, n2}
  Plugins = {compose, static}
  EventPlugins = {compose}
  AlwaysFinished = {static}
  Workers = {w1, w2}
  MaxEvents = 2
  MaxGenerations = 2
  MaxInputs = 3
  None = None
INVARIANTS
  PendingIsLatest
  SleepersHaveCause
  RepliesAreTrue
PROPERTIES
  WaitsEnd
