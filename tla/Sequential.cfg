SPECIFICATION Spec
CONSTANTS
  Ids = {i1, i2, i3}
  Slots = {s1}
  Names = {n1}
  Bytes = {a, b, c}
  a = a
  b = b
  c = c
  n1 = n1
  None = None
  BYTE_CAPACITY = 2
  CAPACITY = 22
  SharedDb = FALSE
  Shapes <- TwoShapes
  Patches <- LongPatches
  EditStarts = {}
  LocalFiles <- SmallFiles
  Operations = {"upload_file", "download_file", "request_proof","reshape_file"}
  Faults = {}
CHECK_DEADLOCK FALSE
INVARIANTS RecordHasFile NoOrphanFile
