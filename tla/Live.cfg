SPECIFICATION Spec
CONSTANTS
  Ids = {i1, i2}
  Slots = {s1,s2}
  Names = {n1}
  Bytes = {a, b, c}
  a = a
  b = b
  c = c
  n1 = n1
  None = None
  BYTE_CAPACITY = 2
  CAPACITY = 22
  SharedDb = FALSE
  Shapes <- OneShape
  Patches <- LongPatches
  EditStarts = {0, 6}
  LocalFiles <- LongFiles
  Operations = {"upload_file", "append_to_file","edit_file","reshape_file", "delete_file"}
  Faults = {"server"}
CHECK_DEADLOCK FALSE
INVARIANT TypeOK
PROPERTY OperationEnds
