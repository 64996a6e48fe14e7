SPECIFICATION Spec
CONSTANTS
  Bytes <- Bits
  RADIX = 2
  MODULUS = 5
  GENERATOR = 2
  LIMBS = 8
  None = None
  BYTE_CAPACITY = 2
  CAPACITY = 22
  SOUNDNESS = 2
  Shapes <- FieldShapes
  Files <- SomeFiles
  MaxLength = 3
  Points <- TwoPoints
  Patches <- BitPatches
CHECK_DEADLOCK FALSE
INVARIANTS TypeOK StreamedRowsAreCommitted FullColumnsVerify VerdictComparesAtPoint AcceptsOnlyCommitted LibraryProofsVerify
