SPECIFICATION Spec
CONSTANTS
  Labels = {x}
  Scanned = {}
  Blocks = {b}
  Sites = {s1}
  Capacity = 1
  MaxLines = 5
  None = None
INVARIANT ThreadsRunWrittenCode
