SPECIFICATION FairSpec
CONSTANTS
  Ids = {d1}
  Nodes = {n1}
  Plugins = {compose}
  EventPlugins = {compose}
  AlwaysFinished = {}
  Workers = {w1, w2}
  MaxEvents = 2
  MaxGenerations = 2
  MaxInputs = 2
  None = None
INVARIANTS
  ResultIsFinal
