---------------------------- MODULE FileHandler ----------------------------
(***************************************************************************)
(* A file and what is kept beside it: the encoded file, the Merkle tree    *)
(* and the metadata (lcpc_online/file_handler.rs, encoded_file_reader.rs). *)
(* A FileHandler keeps the four in agreement through appends, edits and    *)
(* reshapes.  Each call of the file system is one action, so that a crash  *)
(* falls between any two of them; what a call writes is written whole, but *)
(* it may be shorter than what it is written over (write_metadata).        *)
(*                                                                         *)
(* A handler is used by one caller at a time (&mut self), and nobody else  *)
(* opens the files of its Ulid.                                            *)
(***************************************************************************)
EXTENDS EncodedLayout

CONSTANTS
  Files,        \* the files that are given a Ulid
  Appends,      \* byte strings to append
  Patches,      \* byte strings to edit with
  MaxLength,    \* bound: the length a file grows to
  NewDigits,    \* the numbers, powers of ten, whose text is one digit longer than before
  Truncated     \* what a created or truncated file that is empty reads as

ASSUME ContentsAssumption == Files \union Appends \union Patches \subseteq Content
ASSUME LengthAssumption   == MaxLength \in Nat
ASSUME NoneAssumption     == None \notin Content
ASSUME DigitsAssumption   == NewDigits \subseteq Nat /\ IsFiniteSet(NewDigits)

VARIABLES
  raw,          \* the unencoded file, None if there is none; so for the others
  encoded,      \* the encoded file
  tree,         \* the Merkle tree file
  metadata,     \* the metadata file
  leftover,     \* bytes of an older text behind the metadata's: it cannot be read
  handler,      \* the FileHandler in memory, None if the files are not attached
  op,           \* the call that is under way
  torn          \* history: a call was cut short, or left rows unwritten, and
                \* nothing rebuilt the files

vars == <<raw, encoded, tree, metadata, leftover, handler, op, torn>>

Idle == [call |-> "none", pc |-> "idle", row |-> 0, last |-> 0, col |-> 0, dims |-> None]

Begin(call, pc, dims) == [Idle EXCEPT !.call = call, !.pc = pc, !.dims = dims]

Metadata(ulid, dims, rows, capacity, bytes) ==
  [ulid |-> ulid, dims |-> dims, rows |-> rows, capacity |-> capacity, bytes |-> bytes]

\* The length of the text that metadata are written as: what varies of it are
\* the numbers' digits, a Ulid has always as many letters.
Digits(n) == 1 + Cardinality({p \in NewDigits : p <= n})

TextSize(m) ==
  Digits(m.dims.pre) + Digits(m.dims.enc) + Digits(m.rows) + Digits(m.capacity) + Digits(m.bytes)

\* Mutant: the room for more rows is not recorded.
TrimmedMetadata(h) == Metadata("own", h.dims, h.rows, h.rows, h.total)

\* get_encoded_metadata
OwnMetadata(h) == Metadata("own", h.dims, h.rows, h.capacity, h.total)

\* get_encoded_file_metadata of a finalized writer, which knows no Ulid.
WriterMetadata(dims) ==
  Metadata("default", dims, FlushedRows(raw, dims), RowCapacity(RowCount(raw, dims)), Len(raw))

Handler(m, columns) ==
  [dims |-> m.dims, rows |-> m.rows, capacity |-> m.capacity, total |-> m.bytes,
   tree |-> columns, readerRows |-> m.rows, readerCapacity |-> m.capacity]

Init ==
  /\ raw = None /\ encoded = None /\ tree = None /\ metadata = None /\ leftover = 0
  /\ handler = None
  /\ op = Idle
  /\ torn = FALSE

Free == op = Idle /\ handler = None
Attached == op = Idle /\ handler # None

-----------------------------------------------------------------------------
(* Attaching and creating.                                                 *)

Attachable ==
  /\ raw # None /\ encoded # None
  /\ tree \notin {None, Truncated}
  /\ metadata \notin {None, Truncated}
  /\ metadata.ulid = "own" /\ leftover = 0

AttachToExistingUlid ==
  /\ Free
  /\ Attachable
  /\ handler' = Handler(metadata, tree)
  /\ UNCHANGED <<raw, encoded, tree, metadata, leftover, op, torn>>

Unused == raw = None /\ encoded = None /\ tree = None /\ metadata = None

\* A file is moved to a new Ulid, or the file of the Ulid is encoded again.
\* The shape is looked at after the move.
CreateFromUnencodedFile(dims) ==
  /\ Free
  /\ IsPowerOfTwo(dims.enc)
  /\ IF Unused THEN raw' \in Files ELSE raw # None /\ UNCHANGED raw
  /\ op' = IF Encodable(dims) THEN Begin("create", "truncate", dims) ELSE op
  /\ UNCHANGED <<encoded, tree, metadata, leftover, handler, torn>>

-----------------------------------------------------------------------------
(* convert_unencoded_file, of a creation and of a reshape.                 *)

Reshape(dims) ==
  /\ Attached
  /\ Encodable(dims)
  /\ op' = Begin("reshape", "truncate", dims)
  /\ UNCHANGED <<raw, encoded, tree, metadata, leftover, handler, torn>>

TruncateEncoded ==
  /\ op.pc = "truncate"
  /\ encoded' = Blank(0)
  /\ op' = [op EXCEPT !.pc = "encode"]
  /\ UNCHANGED <<raw, tree, metadata, leftover, handler, torn>>

\* A conversion asserts that the writer wrote all rows; a reencoding does not.
EncodeFile ==
  /\ op.pc = "encode"
  /\ encoded' = EncodedFile(raw, op.dims)
  /\ IF op.call # "reencode" /\ FlushedRows(raw, op.dims) # RowCount(raw, op.dims)
       THEN handler' = None /\ op' = Idle /\ torn' = TRUE
       ELSE /\ op' = [op EXCEPT !.pc = IF op.call = "reencode" THEN "tree" ELSE "create_metadata"]
            /\ UNCHANGED <<handler, torn>>
  /\ UNCHANGED <<raw, tree, metadata, leftover>>

CreateMetadata ==
  /\ op.pc = "create_metadata"
  /\ metadata' = Truncated /\ leftover' = 0
  /\ op' = [op EXCEPT !.pc = "write_metadata"]
  /\ UNCHANGED <<raw, encoded, tree, handler, torn>>

WriteNewMetadata ==
  /\ op.pc = "write_metadata"
  /\ metadata' = WriterMetadata(op.dims)
  /\ op' = [op EXCEPT !.pc = "create_tree"]
  /\ UNCHANGED <<raw, encoded, tree, leftover, handler, torn>>

CreateTree ==
  /\ op.pc = "create_tree"
  /\ tree' = Truncated
  /\ op' = [op EXCEPT !.pc = "write_tree"]
  /\ UNCHANGED <<raw, encoded, metadata, leftover, handler, torn>>

\* The tree is the one of the digests the writer took of every row.
WriteNewTree ==
  /\ op.pc = "write_tree"
  /\ tree' = Encoding(raw, op.dims)
  /\ IF op.call = "create"
       THEN op' = [op EXCEPT !.pc = "stamp"] /\ UNCHANGED handler
       ELSE /\ op' = Idle
            /\ handler' = [Handler(WriterMetadata(op.dims), tree') EXCEPT !.total = handler.total]
  /\ UNCHANGED <<raw, encoded, metadata, leftover, torn>>

\* The metadata is read back and written over with the Ulid; then the new
\* handler attaches to the files.
StampUlid ==
  /\ op.pc = "stamp"
  /\ metadata' = [metadata EXCEPT !.ulid = "own"]
  /\ handler' = Handler(metadata', tree)
  /\ op' = Idle
  /\ torn' = FALSE
  /\ UNCHANGED <<raw, encoded, tree, leftover>>

-----------------------------------------------------------------------------
(* Changing rows in place: append_bytes and edit_bytes.                    *)

\* Mutant: the end of the rows is one of them.
StepOfRowsInclusive(row, last) == IF row <= last THEN "rows" ELSE "recalculate"

StepOfRows(row, last) == IF row < last THEN "rows" ELSE "recalculate"

MustGrow(h, last) == last > h.capacity

\* Mutant: the file grows by a row, whatever is appended.
OneMoreRow(h, last) == h.capacity + 1

NewCapacity(h, last) == last * 2

AppendBytes(bytes) ==
  /\ Attached
  /\ Len(raw) + Len(bytes) <= MaxLength
  /\ LET total == handler.total + Len(bytes)
         width == RowBytes(handler.dims)
         first == handler.total \div width
         last  == CeilDiv(total, width)
     IN  /\ raw' = raw \o bytes
         /\ handler' = [handler EXCEPT !.total = total, !.rows = last]
         /\ op' = [Idle EXCEPT !.call = "append", !.row = first, !.last = last,
                     !.pc = IF MustGrow(handler, last) THEN "grow" ELSE StepOfRows(first, last)]
  /\ UNCHANGED <<encoded, tree, metadata, leftover, torn>>

EditBytes(start, patch) ==
  /\ Attached
  /\ start + Len(patch) <= handler.total
  /\ LET width == RowBytes(handler.dims)
         first == start \div width
         last  == CeilDiv(start + Len(patch), width)
     IN  op' = [Idle EXCEPT !.call = "edit", !.row = first, !.last = last,
                            !.pc = StepOfRows(first, last)]
  /\ raw' = Splice(raw, start, patch)
  /\ UNCHANGED <<encoded, tree, metadata, leftover, handler, torn>>

\* set_new_capacity: the file is made longer, then its columns are moved to
\* their new places, the last one first.
GrowFile ==
  /\ op.pc = "grow"
  /\ encoded' = SetLen(encoded, NewCapacity(handler, op.last) * handler.dims.enc)
  /\ op' = [op EXCEPT !.pc = "move", !.col = handler.dims.enc]
  /\ UNCHANGED <<raw, tree, metadata, leftover, handler, torn>>

\* Mutant: the first column is moved first.
FirstColumnFirst(enc, col) == enc - col

ColumnToMove(enc, col) == col - 1

MoveOneColumn ==
  /\ op.pc = "move"
  /\ encoded' = MoveColumn(encoded, handler.readerCapacity, NewCapacity(handler, op.last),
                           ColumnToMove(handler.dims.enc, op.col))
  /\ IF op.col > 1
       THEN op' = [op EXCEPT !.col = @ - 1] /\ UNCHANGED handler
       ELSE /\ op' = [op EXCEPT !.col = 0, !.pc = StepOfRows(op.row, op.last)]
            /\ handler' = [handler EXCEPT !.capacity = NewCapacity(handler, op.last),
                                         !.readerCapacity = NewCapacity(handler, op.last)]
  /\ UNCHANGED <<raw, tree, metadata, leftover, torn>>

\* Mutant: a row behind the last one is not counted.
RowsUnchanged(rows, row) == rows

RowsAfter(rows, row) == IF row = rows THEN rows + 1 ELSE rows

\* An append encodes what it knows of the file, an edit reads whole rows.
BytesToEncode == IF op.call = "append" THEN SubSeq(raw, 1, handler.total) ELSE raw

ReencodeRow ==
  /\ op.pc = "rows"
  /\ IF op.row > handler.readerRows
       THEN op' = Idle /\ UNCHANGED <<encoded, handler>>
       ELSE /\ encoded' = WriteRows(encoded, handler.readerCapacity, handler.dims.enc, op.row,
                                    <<RowOf(BytesToEncode, handler.dims, op.row)>>)
            /\ handler' = [handler EXCEPT !.readerRows = RowsAfter(@, op.row)]
            /\ op' = [op EXCEPT !.row = @ + 1, !.pc = StepOfRows(op.row + 1, op.last)]
  /\ UNCHANGED <<raw, tree, metadata, leftover, torn>>

FileReadable ==
  Readable(encoded, handler.readerCapacity, handler.dims.enc, handler.readerRows)

FileColumns ==
  ReadColumns(encoded, handler.readerCapacity, handler.dims.enc, handler.readerRows)

RecalculateMerkleTree ==
  /\ op.pc = "recalculate"
  /\ IF FileReadable
       THEN /\ tree' = FileColumns
            /\ handler' = [handler EXCEPT !.tree = tree']
            /\ op' = IF op.call = "append" THEN [op EXCEPT !.pc = "metadata"] ELSE Idle
       ELSE op' = Idle /\ UNCHANGED <<tree, handler>>
  /\ UNCHANGED <<raw, encoded, metadata, leftover, torn>>

\* What is left of the text that the file held when a new one is written over it.
LeftBehind(new) ==
  LET held == TextSize(metadata) + leftover
  IN  IF held > TextSize(new) THEN held - TextSize(new) ELSE 0

\* write_metadata opens the file without truncating it.
WriteMetadata ==
  /\ op.pc = "metadata"
  /\ metadata' = OwnMetadata(handler)
  /\ leftover' = LeftBehind(metadata')
  /\ op' = Idle
  /\ torn' = IF op.call = "reencode" THEN FlushedRows(raw, op.dims) # RowCount(raw, op.dims)
                                     ELSE torn
  /\ UNCHANGED <<raw, encoded, tree, handler>>

-----------------------------------------------------------------------------
(* Encoding the file again, and deleting everything.                       *)

ReencodeUnencodedFile ==
  /\ Attached
  /\ handler' = [handler EXCEPT !.total = Len(raw)]
  /\ encoded' = Blank(0)
  /\ op' = Begin("reencode", "encode", handler.dims)
  /\ UNCHANGED <<raw, tree, metadata, leftover, torn>>

\* Mutant: the tree file is created anew instead of written over.
ReencodeViaCreate ==
  /\ op.pc = "tree"
  /\ tree' = Truncated
  /\ handler' = Handler(WriterMetadata(op.dims), Encoding(raw, op.dims))
  /\ op' = [op EXCEPT !.pc = "metadata"]
  /\ UNCHANGED <<raw, encoded, metadata, leftover, torn>>

WriteTree ==
  /\ op.pc = "tree"
  /\ tree' = Encoding(raw, op.dims)
  /\ handler' = Handler(WriterMetadata(op.dims), tree')
  /\ op' = [op EXCEPT !.pc = "metadata"]
  /\ UNCHANGED <<raw, encoded, metadata, leftover, torn>>

DeleteAllFiles ==
  /\ Attached
  /\ handler' = None
  /\ raw' = None
  /\ op' = Begin("delete", "remove_encoded", None)
  /\ UNCHANGED <<encoded, tree, metadata, leftover, torn>>

RemoveEncoded ==
  /\ op.pc = "remove_encoded"
  /\ encoded' = None
  /\ op' = [op EXCEPT !.pc = "remove_tree"]
  /\ UNCHANGED <<raw, tree, metadata, leftover, handler, torn>>

RemoveTree ==
  /\ op.pc = "remove_tree"
  /\ tree' = None
  /\ op' = [op EXCEPT !.pc = "remove_metadata"]
  /\ UNCHANGED <<raw, encoded, metadata, leftover, handler, torn>>

RemoveMetadata ==
  /\ op.pc = "remove_metadata"
  /\ metadata' = None /\ leftover' = 0
  /\ op' = Idle
  /\ UNCHANGED <<raw, encoded, tree, handler, torn>>

-----------------------------------------------------------------------------
(* Reading what is there: these calls change nothing.                      *)

DecodedRow(r) ==
  DecodeRow(ReadRow(encoded, handler.readerCapacity, handler.dims.enc, r))

\* Mutant: the encoded file is compared with the tree, the file with neither.
EncodedFileAgrees == FileReadable /\ FileColumns = handler.tree

\* verify_all_files_agree returns without an error.
AllFilesAgree ==
  /\ FileReadable /\ FileColumns = handler.tree
  /\ Len(raw) = handler.total
  /\ Encoding(raw, handler.dims) = handler.tree

-----------------------------------------------------------------------------

\* The program ends or is killed, between two calls or in one.
Crash ==
  /\ op # Idle \/ handler # None
  /\ handler' = None
  /\ op' = Idle
  /\ torn' = (torn \/ op # Idle)
  /\ UNCHANGED <<raw, encoded, tree, metadata, leftover>>

Call ==
  \/ AttachToExistingUlid
  \/ \E dims \in Shapes : CreateFromUnencodedFile(dims) \/ Reshape(dims)
  \/ \E bytes \in Appends : AppendBytes(bytes)
  \/ \E start \in 0..MaxLength, patch \in Patches : EditBytes(start, patch)
  \/ ReencodeUnencodedFile
  \/ DeleteAllFiles

Step ==
  \/ TruncateEncoded \/ EncodeFile \/ CreateMetadata \/ WriteNewMetadata
  \/ CreateTree \/ WriteNewTree \/ StampUlid
  \/ GrowFile \/ MoveOneColumn \/ ReencodeRow \/ RecalculateMerkleTree \/ WriteMetadata
  \/ WriteTree
  \/ RemoveEncoded \/ RemoveTree \/ RemoveMetadata

Next == Call \/ Step \/ Crash

Spec == Init /\ [][Next]_vars

-----------------------------------------------------------------------------

TypeOK ==
  /\ raw # None => raw \in Seq(Bytes)
  /\ metadata \notin {None, Truncated} =>
       metadata \in [ulid : {"own", "default"}, dims : Shapes, rows : Nat, capacity : Nat, bytes : Nat]
  /\ handler # None => handler.dims \in Shapes /\ handler.total \in 0..Len(raw)
  /\ op.row \in 0..op.last
  /\ leftover \in Nat
  /\ torn \in BOOLEAN

ContentsAgree ==
  /\ handler.total = Len(raw)
  /\ handler.tree = Encoding(raw, handler.dims)
  /\ tree = handler.tree
  /\ FileReadable /\ FileColumns = handler.tree

InAgreement ==
  /\ ContentsAgree
  /\ handler.readerRows = handler.rows
  /\ [metadata EXCEPT !.ulid = "own"] = OwnMetadata(handler) /\ leftover = 0

(* When no call is under way, the columns of the encoded file and the      *)
(* Merkle tree, in memory and on disk, are those of the unencoded file,    *)
(* and the metadata file is the handler's but for the Ulid - through any   *)
(* sequence of creations, appends, edits, reshapes and restarts, and again *)
(* after a reencode of files that a crash has torn, if it wrote all rows.  *)
FilesAgree == Attached /\ ~torn => InAgreement

(* The handler's own check finds every tear and every row a reencode left  *)
(* out: files that pass it agree, whatever crashes and calls came before,  *)
(* although it does not look at the tree on disk, and every row decodes to *)
(* the file's bytes (verify_all_files_agree, get_decoded_row).  It does    *)
(* not look at the metadata (its todo), which may be stale then: after an  *)
(* append that failed, edits can complete the rows.                        *)
SelfCheckFindsTears ==
  Attached /\ AllFilesAgree =>
    /\ ContentsAgree
    /\ \A r \in 0..handler.readerRows - 1 : DecodedRow(r) = RowOf(raw, handler.dims, r)

(* No column runs into the next one, torn or not: the rows the handler and *)
(* its reader count fit the capacity that both have in mind, after every   *)
(* sequence of appends (append_bytes, set_new_capacity).                   *)
RowsFitCapacity ==
  Attached => /\ handler.rows <= handler.capacity
              /\ handler.readerRows <= handler.readerCapacity
              /\ handler.readerCapacity = handler.capacity

(* No call fails half way: unless the files are torn, every row that       *)
(* append_bytes and edit_bytes write is within the reader's bound          *)
(* (replace_encoded_row) and every column can be read for the new tree     *)
(* (recalculate_merkle_tree).                                              *)
NoCallFailsHalfway ==
  ~torn => /\ op.pc = "rows" => op.row <= handler.readerRows
           /\ op.pc = "recalculate" => FileReadable

\* A reencode that leaves rows out.
LeavesRowsOut ==
  op.call = "reencode" /\ FlushedRows(raw, op.dims) # RowCount(raw, op.dims)

(* Whatever an append, an edit or a reencode does, and whatever file       *)
(* operation it is killed at, the files can be attached afterwards if they *)
(* could before, so that a reencode can rebuild them: none of the four is  *)
(* ever missing or empty, and the metadata never get shorter, although     *)
(* they are written over an older text that nothing cuts off               *)
(* (write_metadata, new_attach_to_existing_files).  Only a reencode that   *)
(* leaves rows out may make them shorter.                                  *)
ChangesStayAttachable ==
  [][ /\ Attachable
      /\ {op.call, op'.call} \cap {"append", "edit", "reencode"} # {}
      /\ ~LeavesRowsOut
      => Attachable' ]_vars
=============================================================================
