SPECIFICATION Spec
CONSTANTS
  Bytes = {a, b}
  a = a
  b = b
  None = None
  Truncated = Truncated
  BYTE_CAPACITY = 1
  CAPACITY = 14
  Shapes <- HandlerShapes
  BUFFER_ROWS = 2
  Files <- SomeFiles
  Appends <- SomeAppends
  Patches <- SomePatches
  MaxLength = 4
  NewDigits = {3, 9}
CHECK_DEADLOCK FALSE
INVARIANTS TypeOK FilesAgree SelfCheckFindsTears RowsFitCapacity NoCallFailsHalfway
PROPERTIES ChangesStayAttachable
