CONSTANTS
  Runs = {r1, r2, r3}
  Calls = {c1, c2}
  Steps = {"search", "read"}
  Shapes <- MCShapes
  Capacity = 1
  NoPlan = NoPlan
SPECIFICATION MCSpec
INVARIANTS StepsDecided StoreIsCurrent PlanSettles QueueWhileAlone
SYMMETRY Symmetry
CHECK_DEADLOCK FALSE
