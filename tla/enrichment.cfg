CONSTANTS
  Pages <- MCPages
  Size <- MCSize
  Critical = {"overview"}
  Linked = {"module"}
  Sections <- MCSections
  MaxVersion = 2
  MaxCommands = 2
  MaxDeaths = 1
  None = None
SPECIFICATION Spec
INVARIANTS PagesAccountedFor ProvenanceKept PaidOnce EnrichedAgainOnlyIfLinked
CHECK_DEADLOCK FALSE
