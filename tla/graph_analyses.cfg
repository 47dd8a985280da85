CONSTANTS
  Nodes = {1, 2, 3, 4}
  Graphs <- MCGraphs
  Searches <- MCSearches
  MaxDepth = 3
  MaxParallel = 2
  Resolutions = {1, 2}
  MaxIterations = 3
SPECIFICATION Spec
INVARIANTS CyclesAreComponents CircularFound NearestFirst
PROPERTIES ModularityGrows
CHECK_DEADLOCK FALSE
