------------------------- MODULE EncodedFileWriter -------------------------
(***************************************************************************)
(* The conversion of a file to an encoded file                             *)
(* (lcpc_online/encoded_file_writer.rs).  Bytes arrive in chunks of any    *)
(* size; every full row is encoded, added to the digests of its columns    *)
(* and put in a buffer, and the buffer is written behind the rows that are *)
(* in the file.  The number of rows is known from the file's length when   *)
(* the writer is made.                                                     *)
(***************************************************************************)
EXTENDS EncodedLayout

CONSTANT MaxLength    \* bound: the length of a file

ASSUME MaxLengthAssumption == MaxLength \in Nat

VARIABLES
  raw,           \* the file that is converted
  dims,
  received,      \* bytes_received
  incoming,      \* incoming_byte_buffer
  outgoing,      \* outgoing_field_buffer, as rows
  digested,      \* column_digest_accumulator: the rows it was updated with
  rows_written,
  file,          \* the encoded file
  pc             \* "reading", "finalizing", "finalized"

vars == <<raw, dims, received, incoming, outgoing, digested, rows_written, file, pc>>

rows == RowCount(raw, dims)
capacity == RowCapacity(rows)

Init ==
  /\ raw \in UNION {[1..n -> Bytes] : n \in 0..MaxLength}
  /\ dims \in {shape \in Shapes : Encodable(shape)}
  /\ received = 0
  /\ incoming = << >>
  /\ outgoing = << >>
  /\ digested = << >>
  /\ rows_written = 0
  /\ file = Blank(capacity * dims.enc)
  /\ pc = "reading"

\* push_bytes processes every full row before it returns.
PushBytes ==
  /\ pc = "reading"
  /\ Len(incoming) < RowBytes(dims)
  /\ \E n \in 1..Len(raw) - received :
       /\ incoming' = incoming \o SubSeq(raw, received + 1, received + n)
       /\ received' = received + n
  /\ UNCHANGED <<raw, dims, outgoing, digested, rows_written, file, pc>>

\* Mutant: finalizing a row does not empty the buffer.
FlushIfFull(buffered, finalize) ==
  \/ buffered >= BufferSize(rows)
  \/ buffered + rows_written >= capacity

MustFlush(buffered, finalize) ==
  \/ buffered >= BufferSize(rows)
  \/ buffered + rows_written >= capacity
  \/ finalize

\* Mutant: the buffer goes where the row that was processed last would be.
WriteAtRowsProcessed(row, finalize) ==
  LET buffer == Append(outgoing, row)
  IN  IF MustFlush(Len(buffer), finalize)
        THEN /\ file' = WriteRows(file, capacity, dims.enc, Len(digested), buffer)
             /\ rows_written' = rows_written + Len(buffer)
             /\ outgoing' = << >>
        ELSE /\ outgoing' = buffer
             /\ UNCHANGED <<file, rows_written>>

\* Mutant: the buffer is not cleared when it was written.
BufferKept(row, finalize) ==
  LET buffer == Append(outgoing, row)
  IN  /\ outgoing' = buffer
      /\ IF MustFlush(Len(buffer), finalize)
           THEN /\ file' = WriteRows(file, capacity, dims.enc, rows_written, buffer)
                /\ rows_written' = rows_written + Len(buffer)
           ELSE UNCHANGED <<file, rows_written>>

BufferedWriteRow(row, finalize) ==
  LET buffer == Append(outgoing, row)
  IN  IF MustFlush(Len(buffer), finalize)
        THEN /\ file' = WriteRows(file, capacity, dims.enc, rows_written, buffer)
             /\ rows_written' = rows_written + Len(buffer)
             /\ outgoing' = << >>
        ELSE /\ outgoing' = buffer
             /\ UNCHANGED <<file, rows_written>>

ProcessCurrentRow(finalize) ==
  LET n   == Lesser(RowBytes(dims), Len(incoming))
      row == SubSeq(incoming, 1, n)
  IN  /\ incoming' = SubSeq(incoming, n + 1, Len(incoming))
      /\ digested' = Append(digested, row)
      /\ BufferedWriteRow(row, finalize)
      /\ UNCHANGED <<raw, dims, received, pc>>

ProcessFullRow ==
  /\ pc = "reading"
  /\ Len(incoming) >= RowBytes(dims)
  /\ ProcessCurrentRow(FALSE)

EndOfFile ==
  /\ pc = "reading"
  /\ received = Len(raw)
  /\ Len(incoming) < RowBytes(dims)
  /\ pc' = "finalizing"
  /\ UNCHANGED <<raw, dims, received, incoming, outgoing, digested, rows_written, file>>

ProcessLastRow ==
  /\ pc = "finalizing"
  /\ incoming # << >>
  /\ ProcessCurrentRow(TRUE)

FinalizeToMerkleTree ==
  /\ pc = "finalizing"
  /\ incoming = << >>
  /\ pc' = "finalized"
  /\ UNCHANGED <<raw, dims, received, incoming, outgoing, digested, rows_written, file>>

Next ==
  \/ PushBytes
  \/ ProcessFullRow
  \/ EndOfFile
  \/ ProcessLastRow
  \/ FinalizeToMerkleTree

Spec == Init /\ [][Next]_vars

-----------------------------------------------------------------------------

TypeOK ==
  /\ raw \in Seq(Bytes)
  /\ dims \in Shapes
  /\ received \in 0..Len(raw)
  /\ incoming \in Seq(Bytes)
  /\ outgoing \in Seq(Seq(Bytes))
  /\ digested \in Seq(Seq(Bytes))
  /\ rows_written \in 0..rows
  /\ pc \in {"reading", "finalizing", "finalized"}

(* The columns that are digested are those of the file, up to where it is  *)
(* processed: the rows of the file followed by the buffered rows, and      *)
(* nothing else is in the file: no chunking of the input and no flush of   *)
(* the buffer puts an element in another place (push_bytes,                *)
(* buffered_write_row).                                                    *)
FileIsDigestedRows ==
  LET processed == Len(digested)
  IN  /\ digested = [r \in 1..processed |-> RowOf(raw, dims, r - 1)]
      /\ processed = rows_written + Len(outgoing)
      /\ outgoing = SubSeq(digested, rows_written + 1, processed)
      /\ file = [i \in 0..(capacity * dims.enc) - 1 |->
                   IF i % capacity < rows_written
                     THEN Element(digested[(i % capacity) + 1], i \div capacity, dims.enc)
                     ELSE Zero]

(* The file never fills up: buffered_write_row then calls                  *)
(* set_new_capacity, which moves rows where it should move columns and     *)
(* leaves row_capacity as it was.                                          *)
NeverFull == rows = 0 \/ rows_written < capacity

(* A finalized writer has digested the whole file, and FlushedRows says    *)
(* how many of its rows are in the encoded file.                           *)
FinalizedRows ==
  pc = "finalized" => /\ Len(digested) = rows
                      /\ rows_written = FlushedRows(raw, dims)

(* What convert_unencoded_file asserts of the finalized writer: the rows   *)
(* of the file are written.                                                *)
AllRowsWritten == pc = "finalized" => rows_written = rows
=============================================================================
