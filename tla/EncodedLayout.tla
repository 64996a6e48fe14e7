---------------------------- MODULE EncodedLayout ---------------------------
(***************************************************************************)
(* The encoded file of lcpc_online: the matrix of a file, row by row       *)
(* encoded, and stored column by column.  A column has room for capacity   *)
(* rows, so that the element of row r and column c is at position          *)
(* c * capacity + r, and a file can grow without being moved.              *)
(*                                                                         *)
(* A position is the width of a field element.  An encoded element is      *)
(* collision free: it is what it was computed from.                        *)
(***************************************************************************)
EXTENDS FieldData, FiniteSets

CONSTANT
  BUFFER_ROWS     \* rows the writer collects before it writes them (2^10)

ASSUME BufferAssumption == BUFFER_ROWS \in Nat \ {0}

RowBytes(dims) == dims.pre * BYTE_CAPACITY

\* The bytes of row r (0-based): the last row may be partly filled.  The zeros
\* that pad it make no difference to non-zero bytes.
RowOf(data, dims, r) ==
  SubSeq(data, r * RowBytes(dims) + 1, Lesser((r + 1) * RowBytes(dims), Len(data)))

\* Column c of the encoding of a row.
Element(row, c, enc) == [row |-> row, col |-> c, enc |-> enc]

\* What a position holds that was never written.
Zero == [row |-> << >>, col |-> 0, enc |-> 0]

\* What the columns of a file should be: the reference that every way of
\* computing columns and Merkle trees is compared with.
Encoding(data, dims) ==
  [c \in 1..dims.enc |-> [r \in 1..RowCount(data, dims) |->
     Element(RowOf(data, dims, r - 1), c - 1, dims.enc)]]

\* The shapes convert_unencoded_file encodes with.
Encodable(dims) == dims.enc >= 2 /\ IsPowerOfTwo(dims.enc) /\ dims.enc > dims.pre

\* Mutant: the file has room for its own rows only.
ExactCapacity(rows) == rows

RowCapacity(rows) == rows * 2

BufferSize(rows) == Lesser(BUFFER_ROWS, rows)

\* The rows that are in the file when the writer is finalized.  Only the row
\* that the data does not fill empties the buffer, whatever is in it.
FlushedRows(data, dims) ==
  LET rows == RowCount(data, dims)
  IN  IF Len(data) % RowBytes(dims) # 0 THEN rows
      ELSE IF rows = 0 THEN 0 ELSE rows - (rows % BufferSize(rows))

-----------------------------------------------------------------------------
(* The file as an array of positions.                                      *)

Length(file) == Cardinality(DOMAIN file)

Blank(n) == [i \in 0..n - 1 |-> Zero]

SetLen(file, n) == [i \in 0..n - 1 |-> IF i \in DOMAIN file THEN file[i] ELSE Zero]

\* Rows first, first + 1, ... of every column are written, one write_at for
\* each column; a write past the end extends the file.
WriteRows(file, capacity, enc, first, rows) ==
  LET end == (enc - 1) * capacity + first + Len(rows)
      written(i) == /\ i >= first
                    /\ (i - first) % capacity < Len(rows)
                    /\ (i - first) \div capacity < enc
  IN  [i \in DOMAIN SetLen(file, IF end > Length(file) THEN end ELSE Length(file)) |->
         IF written(i)
           THEN Element(rows[((i - first) % capacity) + 1], (i - first) \div capacity, enc)
           ELSE IF i \in DOMAIN file THEN file[i] ELSE Zero]

\* What a conversion leaves: as the writer shows, the rows it flushed.
EncodedFile(data, dims) ==
  LET capacity == RowCapacity(RowCount(data, dims))
      flushed  == [r \in 1..FlushedRows(data, dims) |-> RowOf(data, dims, r - 1)]
  IN  WriteRows(Blank(capacity * dims.enc), capacity, dims.enc, 0, flushed)

\* A read of rows elements of each column succeeds inside the file only.
Readable(file, capacity, enc, rows) ==
  rows = 0 \/ (enc - 1) * capacity + rows <= Length(file)

ReadColumn(file, capacity, rows, c) == [r \in 1..rows |-> file[c * capacity + r - 1]]

\* The columns as the reader finds them.  Their digests, and the Merkle tree
\* over these, are equal exactly when they are.
ReadColumns(file, capacity, enc, rows) ==
  [c \in 1..enc |-> ReadColumn(file, capacity, rows, c - 1)]

\* One element of each column: what a row is decoded from.
ReadRow(file, capacity, enc, r) == [c \in 1..enc |-> file[(c - 1) * capacity + r]]

\* Values that are not the encoding of one row decode to something else.
DecodeRow(values) ==
  LET row == values[1].row
  IN  IF values = [c \in DOMAIN values |-> Element(row, c - 1, Len(values))] THEN row ELSE None

\* Column c moves to where it is at another capacity, with zeros behind it.
MoveColumn(file, old, new, c) ==
  [i \in DOMAIN file |->
     IF i \div new # c THEN file[i]
     ELSE IF i % new < old THEN file[c * old + (i % new)] ELSE Zero]
=============================================================================
