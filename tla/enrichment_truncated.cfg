CONSTANTS
  Pages <- MCPages
  Size <- MCSize
  Critical = {"overview"}
  Linked = {"module"}
  Sections <- MCSections
  MaxVersion = 2
  MaxCommands = 2
  MaxDeaths = 0
  None = None
SPECIFICATION Spec
INVARIANTS MarkedPagesAreComplete
CHECK_DEADLOCK FALSE
