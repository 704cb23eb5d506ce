SPECIFICATION AllSpec
CONSTANTS
  Tokens <- MCTokens
  MaxNodes = 4
  MaxDepth = 3
  MaxTokens = 9
  Slots = {s1, s2}
  MaxMade = 2
  Limit = 2
  ReadLimit = 1
  PtyRoom = 1
  Rounds = 1
  MaxInput = 3
  MaxOutput = 2
  Buttons = {"ok", "apply"}
  Closing = {"ok"}
  Spinners = {p1, p2}
  Attrs = {"disabled"}
  MaxOptions = 1
  Room = 1
  MaxClicks = 1
INVARIANTS BuildsWhatIsDeclared OwnersAlive InputInOrder NoStraySignal TimerFollowsSpinners ClicksReported
PROPERTIES EventsServed CommandFollowed RefusalChangesNothing
CHECK_DEADLOCK FALSE
