SPECIFICATION Spec
CONSTANTS
  Ids = {i1, i2}
  Slots = {s1}
  Names = {n1}
  Bytes = {a, b, c}
  a = a
  b = b
  c = c
  n1 = n1
  None = None
  BYTE_CAPACITY = 2
  CAPACITY = 22
  SharedDb = FALSE
  Shapes <- OneShape
  Patches <- OneBytePatch
  EditStarts = {}
  LocalFiles <- PartialFiles
  Operations = {"upload_file", "append_to_file"}
  Faults = {}
CHECK_DEADLOCK FALSE
INVARIANT RecordHasFile
