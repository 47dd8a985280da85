CONSTANTS
  Nodes = {1, 2, 3, 4}
  Graphs <- MCGraphs
  Searches <- MCSearches
  MaxDepth = 3
  MaxParallel = 2
  Resolutions = {1, 2}
  MaxIterations = 3
SPECIFICATION Spec
INVARIANT CycleNodesOnce
CHECK_DEADLOCK FALSE
