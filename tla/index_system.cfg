CONSTANTS
  Files = {f1, f2}
  MaxEdits = 3
  MaxFaults = 2
SPECIFICATION FairSystemSpec
INVARIANTS TypeOK HandedOverExactly ClaimedCurrentIsIndexed
PROPERTIES NeverGoesBack EventLeadsToFresh AnalysisRepairs
CHECK_DEADLOCK FALSE
