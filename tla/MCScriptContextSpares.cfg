SPECIFICATION Spec
CONSTANTS
  Names = {1}
  Blocks = {b1, b2}
  Elsewhere = {m1}
  Contexts = {c1}
  Session = Session
  LabelTargets = {m1}
  None = None
SYMMETRY ContextSymmetry
PROPERTY LocalDeallocSparesGlobals
