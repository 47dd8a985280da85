CONSTANTS
  Ids = {n1, n2, n3}
  RelIds = {e1, e2}
  Paths = {a, b}
  Labels = {"Folder", "Symbol"}
  NoNode = NoNode
  NoRel = NoRel
SPECIFICATION Spec
INVARIANTS IndexExact
PROPERTIES NoneLeftDangling PruneExact
SYMMETRY Symmetry
