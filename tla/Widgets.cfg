SPECIFICATION AllSpec
CONSTANTS
  d1 = d1
  d2 = d2
  Ids = {d1, d2}
  Nodes <- TreeNodes
  Root = "root"
  Children <- TreeChildren
  CanFocus <- TreeCanFocus
  Large = {d1}
  MaxEvents = 6
  None = None
  Chars = {"x", "wide", "comb"}
  WidthOf <- MCWidthOf
  MaxText = 3
  Limits = {2, 3}
  Values <- MCValues
  Columns = {1, 3}
  Letters = {"a", "b"}
  Lists <- MCLists
  MaxSelected = {0, 1, 2}
  RowCounts = {1, 2, 3}
  PrefixLimit = 2
  IntMax = 15
  Digits = {0, 1, 9}
  Fields <- MCFields
  SetValues <- MCSetValues
  Forms <- MCForms
  Sizes <- MCSizes
  Themes = {"dark"}
  Roles = {2}
  Pairs = {9, 10}
  Cells <- MCCells
  Initial <- MCInitial
  Changes <- MCChanges
  MaxCommands = 4
INVARIANTS FocusSound CursorOnScreen ChoiceSound BroughtIntoView ValueAsTyped SpaceUsedUp FieldsInView StylesShown
PROPERTIES FocusKept TabReachesAll EditsAsALine
