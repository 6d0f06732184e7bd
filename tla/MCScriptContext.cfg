SPECIFICATION Spec
CONSTANTS
  Names = {1, 2}
  Blocks = {b1, b2}
  Elsewhere = {m1}
  Contexts = {c1, c2}
  Session = Session
  LabelTargets = {m1}
  None = None
SYMMETRY ContextSymmetry
INVARIANTS TypeOK OwnersDisjoint RecordsLive GlobalNameBinding AllocationSymbolsBacked
