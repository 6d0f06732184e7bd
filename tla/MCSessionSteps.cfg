SPECIFICATION Spec
CONSTANTS
  Names = {1, 2, 3}
  Blocks = {b1, b2}
  Elsewhere = {e}
  None = None
SYMMETRY BlockSymmetry
INVARIANTS TypeOK LookupsBacked RecordsMatchBlocks
PROPERTIES AtomicSpec
