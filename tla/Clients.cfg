SPECIFICATION AllSpec
CONSTANTS
  Commands = {"ping", "has-active-vt", "call", "none"}
  Mistakes = 0
  Strays <- MCStrays
  MaxExchanges = 2
  MaxStrays = 1
  MaxSignals = 2
  Kinds = {"gauge", "plain", "choice"}
  MaxLines = 6
  TextSize = 6
  Numbers = {"10", "20"}
  Words = {"w"}
INVARIANTS MessagesAccounted CleanExit GaugeFollowsInput
PROPERTIES AtMostOnce ClientsEnd
CHECK_DEADLOCK FALSE
