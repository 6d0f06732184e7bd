SPECIFICATION FairSpec
CONSTANTS
  Labels = {x, y}
  Scanned = {y}
  Blocks = {b}
  Sites = {s1}
  Capacity = 1
  MaxLines = 4
  None = None
INVARIANTS TypeOK EachSegmentOnce DrainedToTheEnd JumpsLand
PROPERTY Terminates
