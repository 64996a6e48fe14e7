SPECIFICATION Spec
CONSTANTS
  Bytes = {a, b}
  a = a
  b = b
  None = None
  BYTE_CAPACITY = 1
  CAPACITY = 14
  Shapes <- EncodedShapes
  BUFFER_ROWS = 2
  MaxLength = 3
CHECK_DEADLOCK FALSE
INVARIANTS AllRowsWritten
