SPECIFICATION Spec
CONSTANTS
  Main = main
  c1 = c1
  Related = {c1}
  Kinds <- AnyKind
  p1 = p1
  p2 = p2
  Proc = {p1, p2}
  NoProc = NoProc
  NoChild = NoChild
  Regimes <- PowerOrKill
  MaxBorn = 3
  MaxAhead = 2
SYMMETRY Symmetry
  
PROPERTIES  CutHoldsOnDisk DurableStays
