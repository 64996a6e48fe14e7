SPECIFICATION Spec
CONSTANTS
  Ids = {i1, i2}
  Slots = {s1, s2}
  Names = {n1}
  Bytes = {a, b, c}
  a = a
  b = b
  c = c
  n1 = n1
  None = None
  BYTE_CAPACITY = 2
  CAPACITY = 22
  SharedDb = TRUE
  Shapes <- RefusedShape
  Patches <- OneBytePatch
  EditStarts = {}
  LocalFiles <- SmallFiles
  Operations = {"upload_file", "download_file", "request_proof", "delete_file"}
  Faults = {"server", "client"}
CHECK_DEADLOCK FALSE
SYMMETRY Symmetry
INVARIANTS UploadedIsHeld DeletedIsGone EntryHasFile
