SPECIFICATION TabbingSpec
CONSTANTS
  d1 = d1
  d2 = d2
  Ids = {d1, d2}
  Nodes <- TreeNodes
  Root = "root"
  Children <- TreeChildren
  CanFocus <- TreeCanFocus
  Large = {d1}
  MaxEvents = 4
  None = None
INVARIANTS
  HiddenStaysHidden
