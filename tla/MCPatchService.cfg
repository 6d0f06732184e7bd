SPECIFICATION Spec
CONSTANTS
  Threads = {t1}
  Names = {n1, n2, n3}
  Cells = {0, 1, 2, 3, 4, 5}
  PageSize = 3
  Ranges <- WithinPages
  Scratch <- Neighbours
  Bytes = {x, y, o}
  Original = o
  Native <- ReadOnlyPages
  Stacking = FALSE
  Refusals = {"protect", "write", "undo"}
  None = None
SYMMETRY PatchSymmetry
INVARIANTS TypeOK ChangesRecorded OriginalsKept ProtectionUndone
