---------------------- MODULE EncodedFileWriter_proofs ----------------------
(***************************************************************************)
(* Proofs about the encoded file writer, for every file, shape, buffer and *)
(* capacity of a field element.                                            *)
(***************************************************************************)
EXTENDS EncodedFileWriter, EncodedLayout_proofs

-----------------------------------------------------------------------------
(* The rows of a file.                                                     *)

\* Where row d begins.
RowStart(d, shape) == d * RowBytes(shape)

\* Row d is taken off the bytes in, which go up to byte end of the file.
RowTaken(data, shape, d, end, in, n) ==
  /\ d < RowCount(data, shape)
  /\ SubSeq(in, 1, n) = RowOf(data, shape, d)
  /\ SubSeq(in, n + 1, Len(in)) = SubSeq(data, RowStart(d + 1, shape) + 1, end)

\* What process_current_row takes off the buffer is the next row of the file,
\* when the buffer holds a full row or the file has ended.
LEMMA NextRow ==
  ASSUME NEW data \in Content, NEW shape \in Shapes, NEW d \in Nat, NEW end \in 0..Len(data),
         NEW in \in Seq(Bytes), NEW n \in Nat
  PROVE  /\ RowStart(d, shape) <= end
         /\ in = SubSeq(data, RowStart(d, shape) + 1, end)
         /\ in # << >>
         /\ Len(in) >= RowBytes(shape) \/ end = Len(data)
         /\ n = Lesser(RowBytes(shape), Len(in))
         => RowTaken(data, shape, d, end, in, n)
<1> DEFINE w == RowBytes(shape)
           b == d * w
<1>0. SUFFICES ASSUME b <= end, in = SubSeq(data, b + 1, end), in # << >>,
                      Len(in) >= w \/ end = Len(data), n = Lesser(w, Len(in))
               PROVE  /\ d < RowCount(data, shape)
                      /\ SubSeq(in, 1, n) = RowOf(data, shape, d)
                      /\ SubSeq(in, n + 1, Len(in)) = SubSeq(data, (d + 1) * w + 1, end)
  BY DEF RowStart, RowTaken
<1>1. w \in Nat \ {0} /\ Len(data) \in Nat /\ data \in Seq(Bytes) /\ end \in Nat /\ end <= Len(data)
  <2>1. data \in Seq(Bytes) /\ Len(data) \in Nat
    BY LenProperties DEF Content
  <2>2. w \in Nat \ {0}
    BY RowsBegin
  <2> QED
    BY <2>1, <2>2
<1> HIDE DEF w
<1>2. b \in Nat /\ (d + 1) * w = b + w
  BY <1>1, NextMultiple
<1>a. b < Len(data) <=> d < RowCount(data, shape)
  BY RowsBegin DEF w
<1> HIDE DEF b
<1>3. in \in Seq(Bytes) /\ Len(in) = end - b
  <2>1. in \in Seq(Bytes) /\ Len(in) = IF b <= end THEN end - b ELSE 0
    BY <1>1, <1>2, <1>0, Middle
  <2> QED
    BY <1>0, <2>1
<1>4. Len(in) \in Nat \ {0}
  BY <1>0, <1>3, EmptySeq
<1>5. b < Len(data)
  BY <1>1, <1>2, <1>3, <1>4
<1>6. d < RowCount(data, shape)
  BY <1>5, <1>a
<1>7. n \in Nat \ {0} /\ n <= Len(in)
  BY <1>0, <1>1, <1>4 DEF Lesser
<1>8. b + n = Lesser(b + w, Len(data))
  BY <1>1, <1>2, <1>3, <1>4, <1>0 DEF Lesser
<1>b. n <= end - b
  BY <1>3, <1>7
<1>9. SubSeq(in, 1, n) = RowOf(data, shape, d)
  <2>1. SubSeq(in, 0 + 1, n) = SubSeq(data, b + 0 + 1, b + n)
    BY <1>1, <1>0, <1>2, <1>7, <1>b, MiddleOfMiddle
  <2>2. b + 0 + 1 = b + 1 /\ 0 + 1 = 1
    BY <1>2
  <2>3. RowOf(data, shape, d) = SubSeq(data, b + 1, Lesser(b + w, Len(data)))
    BY <1>2 DEF RowOf, b, w
  <2> QED
    BY <1>8, <2>1, <2>2, <2>3
<1>10. SubSeq(in, n + 1, Len(in)) = SubSeq(data, b + w + 1, end)
  <2>1. CASE w <= Len(in)
    <3>1. n = w
      BY <2>1, <1>0 DEF Lesser
    <3>2. SubSeq(in, w + 1, end - b) = SubSeq(data, b + w + 1, b + (end - b))
      <4>1. w \in Nat /\ end - b \in Nat /\ end - b <= end - b
        BY <1>1, <1>2, <1>0
      <4> QED
        BY <4>1, <1>1, <1>2, <1>0, MiddleOfMiddle
    <3>3. b + (end - b) = end
      BY <1>1, <1>2
    <3> QED
      BY <1>3, <3>1, <3>2, <3>3
  <2>2. CASE ~(w <= Len(in))
    <3>1. n = Len(in) /\ end < b + w + 1
      BY <1>0, <2>2, <1>1, <1>2, <1>3, <1>4 DEF Lesser
    <3>2. SubSeq(in, n + 1, Len(in)) = << >>
      <4>1. n + 1 \in Int /\ Len(in) \in Int /\ Len(in) < n + 1
        BY <1>4, <3>1
      <4> QED
        BY <4>1, SubSeqEmpty
    <3>3. SubSeq(data, b + w + 1, end) = << >>
      <4>1. b + w + 1 \in Int /\ end \in Int
        BY <1>1, <1>2
      <4> QED
        BY <3>1, <4>1, SubSeqEmpty
    <3> QED
      BY <3>2, <3>3
  <2> QED
    BY <2>1, <2>2
<1> QED
  BY <1>2, <1>6, <1>9, <1>10 DEF w

-----------------------------------------------------------------------------
(* The inductive invariant.  The rows that are digested are the first rows *)
(* of the file, the buffered bytes follow them, and the buffer holds less  *)
(* than the size at which it is written, so that what was written before   *)
(* the end of the file is a number of full buffers.                        *)

Types ==
  /\ raw \in Seq(Bytes)
  /\ dims \in Shapes
  /\ received \in 0..Len(raw)
  /\ incoming \in Seq(Bytes)
  /\ outgoing \in Seq(Seq(Bytes))
  /\ digested \in Seq(Seq(Bytes))
  /\ rows_written \in Nat
  /\ pc \in {"reading", "finalizing", "finalized"}

Reading ==
  LET w == RowBytes(dims)
      b == Len(digested) * w
  IN  /\ Len(digested) <= rows
      /\ incoming = SubSeq(raw, b + 1, received)
      /\ b <= received \/ (pc # "reading" /\ Len(digested) = rows)
      /\ pc # "reading" => received = Len(raw) /\ Len(incoming) < w
      /\ pc = "finalized" => incoming = << >>

LastRowDone == Len(digested) = rows /\ Len(raw) % RowBytes(dims) # 0

Buffering ==
  /\ LastRowDone => outgoing = << >>
  /\ rows > 0 /\ ~LastRowDone =>
       /\ Len(outgoing) < BufferSize(rows)
       /\ \E q \in 0..rows : rows_written = q * BufferSize(rows)

IInv == Types /\ Reading /\ Buffering /\ FileIsDigestedRows

\* The numbers of a file that is converted.
LEMMA RowsOfFile ==
  ASSUME Types
  PROVE  /\ raw \in Content /\ Len(raw) \in Nat
         /\ RowBytes(dims) \in Nat \ {0}
         /\ dims.enc \in Nat \ {0}
         /\ rows \in Nat
         /\ capacity = 2 * rows
         /\ \A k \in Nat : k < rows <=> k * RowBytes(dims) < Len(raw)
<1>1. raw \in Content /\ dims \in Shapes
  BY DEF Types, Content
<1>2. Len(raw) \in Nat
  BY <1>1, LenProperties DEF Content
<1>3. dims.enc \in Nat \ {0}
  BY <1>1, ShapesAssumption
<1>4. RowBytes(dims) \in Nat \ {0} /\ rows \in Nat
      /\ \A k \in Nat : k < rows <=> k * RowBytes(dims) < Len(raw)
  BY <1>1, RowsBegin DEF rows
<1>5. capacity = 2 * rows
  BY <1>4 DEF capacity, RowCapacity
<1> QED
  BY <1>1, <1>2, <1>3, <1>4, <1>5

\* A writer begins with nothing received and a file of zeros.
LEMMA InitIInv ==
  ASSUME Init PROVE IInv
<1>1. PICK n \in 0..MaxLength : raw \in [1..n -> Bytes]
  BY DEF Init
<1>2. n \in Nat
  BY MaxLengthAssumption
<1>3. raw \in Seq(Bytes)
  BY <1>1, <1>2
<1>4. Len(raw) \in Nat
  BY <1>3, LenProperties
<1>5. /\ dims \in Shapes /\ received = 0 /\ incoming = << >> /\ outgoing = << >>
      /\ digested = << >> /\ rows_written = 0 /\ pc = "reading"
      /\ file = Blank(capacity * dims.enc)
  BY DEF Init
<1>6. Types
  BY <1>3, <1>4, <1>5 DEF Types
<1>7. /\ rows \in Nat /\ capacity = 2 * rows /\ RowBytes(dims) \in Nat /\ dims.enc \in Nat
      /\ Len(digested) = 0
  BY <1>5, <1>6, RowsOfFile
<1>8. Reading
  <2>1. SubSeq(raw, 0 * RowBytes(dims) + 1, 0) = << >>
    <3>1. 0 * RowBytes(dims) + 1 \in Int /\ 0 < 0 * RowBytes(dims) + 1
      BY <1>7
    <3> QED
      BY <3>1, SubSeqEmpty
  <2>2. 0 * RowBytes(dims) <= 0
    BY <1>7
  <2> QED
    BY <1>5, <1>7, <2>1, <2>2 DEF Reading
<1>9. Buffering
  <2>1. rows > 0 => BufferSize(rows) \in Nat \ {0}
    BY <1>7, BufferAssumption DEF BufferSize, Lesser
  <2>2. rows > 0 => 0 \in 0..rows /\ 0 = 0 * BufferSize(rows)
    BY <1>7, <2>1
  <2> QED
    BY <1>5, <1>7, <2>1, <2>2 DEF Buffering, LastRowDone
<1>10. FileIsDigestedRows
  <2>1. ASSUME NEW i \in 0..(capacity * dims.enc) - 1
        PROVE  ~(i % capacity < rows_written)
    <3>0. i \in Int /\ i >= 0 /\ i <= (capacity * dims.enc) - 1
      BY <1>7
    <3>1. capacity \in Nat \ {0}
      <4>1. capacity # 0
        BY <1>7, <3>0
      <4> QED
        BY <1>7, <4>1
    <3>2. i % capacity \in 0..capacity - 1
      BY <3>0, <3>1
    <3> QED
      BY <1>5, <3>1, <3>2
  <2>2. file = [i \in 0..(capacity * dims.enc) - 1 |->
                  IF i % capacity < rows_written
                    THEN Element(digested[(i % capacity) + 1], i \div capacity, dims.enc)
                    ELSE Zero]
    BY <1>5, <2>1 DEF Blank
  <2>3. digested = [r \in 1..Len(digested) |-> RowOf(raw, dims, r - 1)]
    BY <1>5, <1>7
  <2>4. outgoing = SubSeq(digested, rows_written + 1, Len(digested))
    BY <1>5, <1>7, SubSeqEmpty
  <2>5. Len(digested) = rows_written + Len(outgoing)
    BY <1>5
  <2> QED
    BY <2>2, <2>3, <2>4, <2>5 DEF FileIsDigestedRows
<1> QED
  BY <1>6, <1>8, <1>9, <1>10 DEF IInv

\* Bytes are received behind the buffered ones.
LEMMA PushBytesIInv ==
  ASSUME IInv, PushBytes PROVE IInv'
<1>1. Types /\ Reading /\ Buffering /\ FileIsDigestedRows
  BY DEF IInv
<1>2. /\ raw \in Content /\ Len(raw) \in Nat /\ RowBytes(dims) \in Nat \ {0} /\ rows \in Nat
  BY <1>1, RowsOfFile
<1>3. PICK n \in 1..Len(raw) - received :
        /\ incoming' = incoming \o SubSeq(raw, received + 1, received + n)
        /\ received' = received + n
  BY DEF PushBytes
<1>4. pc = "reading" /\ UNCHANGED <<raw, dims, outgoing, digested, rows_written, file, pc>>
  BY DEF PushBytes
<1>5. rows' = rows /\ capacity' = capacity
  BY <1>4 DEF rows, capacity
<1> DEFINE b == Len(digested) * RowBytes(dims)
<1>6. /\ Len(digested) \in Nat /\ received \in Nat /\ received <= Len(raw)
      /\ raw \in Seq(Bytes) /\ digested \in Seq(Seq(Bytes))
  BY <1>1, <1>2, LenProperties DEF Types
<1>7. b \in Nat
  BY <1>2, <1>6
<1>8. incoming = SubSeq(raw, b + 1, received) /\ b <= received
  BY <1>1, <1>4 DEF Reading
<1> HIDE DEF b
<1>9. incoming' = SubSeq(raw, b + 1, received + n)
  <2>1. /\ b + 1 \in 1..Len(raw) + 1
        /\ received \in (b + 1) - 1..Len(raw)
        /\ received + n \in received..Len(raw)
    BY <1>2, <1>6, <1>7, <1>8
  <2> QED
    BY <1>3, <1>6, <1>8, <2>1, ConcatAdjacentSubSeq
<1>10. received + n \in 0..Len(raw) /\ b <= received + n
  BY <1>2, <1>6, <1>7, <1>8
<1>11. Types'
  <2>1. incoming' \in Seq(Bytes)
    BY <1>6, <1>7, <1>9, <1>10, <1>2, Middle
  <2> QED
    BY <1>1, <1>3, <1>4, <1>10, <2>1 DEF Types
<1>12. Reading'
  BY <1>1, <1>3, <1>4, <1>5, <1>9, <1>10 DEF Reading, b
<1>13. Buffering'
  BY <1>1, <1>4, <1>5 DEF Buffering, LastRowDone
<1>14. FileIsDigestedRows'
  BY <1>1, <1>4, <1>5 DEF FileIsDigestedRows
<1> QED
  BY <1>11, <1>12, <1>13, <1>14 DEF IInv

\* A row is processed: the next row of the file is digested and buffered, and
\* the buffer is written behind the rows that are in the file.
LEMMA ProcessCurrentRowIInv ==
  ASSUME IInv, NEW finalize \in BOOLEAN, ProcessCurrentRow(finalize), incoming # << >>,
         IF finalize THEN pc = "finalizing"
                     ELSE pc = "reading" /\ Len(incoming) >= RowBytes(dims)
  PROVE  IInv'
<1> DEFINE w == RowBytes(dims)
           D == Len(digested)
           b == D * w
           N == Len(raw)
           n == Lesser(w, Len(incoming))
           row == SubSeq(incoming, 1, n)
           done == Append(digested, row)
           buffer == Append(outgoing, row)
           W == rows_written
<1>1. Types /\ Reading /\ Buffering /\ FileIsDigestedRows
  BY DEF IInv
<1>2. /\ raw \in Content /\ raw \in Seq(Bytes) /\ N \in Nat
      /\ w \in Nat \ {0}
      /\ dims.enc \in Nat \ {0} /\ dims \in Shapes
      /\ rows \in Nat
      /\ capacity = 2 * rows
      /\ \A k \in Nat : k < rows <=> k * w < N
  BY <1>1, RowsOfFile DEF Content, Types
<1>3. /\ received \in 0..N /\ received \in Nat /\ received <= N
      /\ incoming \in Seq(Bytes) /\ Len(incoming) \in Nat \ {0}
      /\ outgoing \in Seq(Seq(Bytes)) /\ Len(outgoing) \in Nat
      /\ digested \in Seq(Seq(Bytes)) /\ D \in Nat
      /\ W \in Nat
  BY <1>1, <1>2, LenProperties, EmptySeq DEF Types
<1>4. /\ UNCHANGED <<raw, dims, received, pc>>
      /\ incoming' = SubSeq(incoming, n + 1, Len(incoming))
      /\ digested' = done
      /\ BufferedWriteRow(row, finalize)
  BY DEF ProcessCurrentRow
<1>5. rows' = rows /\ capacity' = capacity
  BY <1>4 DEF rows, capacity
<1>6. /\ IF finalize THEN pc = "finalizing" ELSE pc = "reading" /\ Len(incoming) >= w
      /\ D <= rows
      /\ incoming = SubSeq(raw, b + 1, received)
      /\ pc # "reading" => received = N /\ Len(incoming) < w
  BY <1>1 DEF Reading
<1>7. /\ D = W + Len(outgoing)
      /\ digested = [r \in 1..D |-> RowOf(raw, dims, r - 1)]
      /\ outgoing = SubSeq(digested, W + 1, D)
      /\ file = [i \in 0..(capacity * dims.enc) - 1 |->
                   IF i % capacity < W
                     THEN Element(digested[(i % capacity) + 1], i \div capacity, dims.enc)
                     ELSE Zero]
  BY <1>1 DEF FileIsDigestedRows
<1> HIDE DEF w, N
<1>8. b \in Nat /\ (D + 1) * w = b + w
  BY <1>2, <1>3, NextMultiple
<1>9. b <= received /\ Len(incoming) = received - b
  <2>1. Len(incoming) = IF b <= received THEN received - b ELSE 0
    <3>1. received <= Len(raw)
      BY <1>3 DEF N
    <3>2. Len(SubSeq(raw, b + 1, received)) = IF b <= received THEN received - b ELSE 0
      BY <1>2, <1>3, <1>8, <3>1, Middle
    <3> QED
      BY <1>6, <3>2
  <2> QED
    BY <1>3, <2>1
<1>10. /\ D < rows
       /\ row = RowOf(raw, dims, D)
       /\ incoming' = SubSeq(raw, (D + 1) * w + 1, received)
  <2>1. Len(incoming) >= RowBytes(dims) \/ received = Len(raw)
    BY <1>6 DEF w, N
  <2>2. D * RowBytes(dims) <= received
    BY <1>9 DEF w
  <2>3. incoming = SubSeq(raw, D * RowBytes(dims) + 1, received) /\ incoming # << >>
    BY <1>6 DEF w
  <2>4. received \in 0..Len(raw)
    BY <1>3 DEF N
  <2>5. /\ D < RowCount(raw, dims)
        /\ SubSeq(incoming, 1, n) = RowOf(raw, dims, D)
        /\ SubSeq(incoming, n + 1, Len(incoming))
             = SubSeq(raw, (D + 1) * RowBytes(dims) + 1, received)
    <3>1. raw \in Content /\ dims \in Shapes /\ D \in Nat /\ incoming \in Seq(Bytes)
      BY <1>2, <1>3
    <3>2. /\ RowStart(D, dims) <= received
          /\ incoming = SubSeq(raw, RowStart(D, dims) + 1, received)
          /\ incoming # << >>
      BY <2>2, <2>3 DEF RowStart
    <3>3. n = Lesser(RowBytes(dims), Len(incoming)) /\ n \in Nat
      BY <1>2, <1>3 DEF w, Lesser
    <3> HIDE DEF D, n
    <3>4. RowTaken(raw, dims, D, received, incoming, n)
      BY <3>1, <3>2, <3>3, <2>1, <2>4, NextRow
    <3> QED
      BY <3>4 DEF RowStart, RowTaken
  <2> QED
    BY <1>4, <2>5 DEF rows, w
<1>a. /\ D + 1 \in Nat /\ D + 1 <= rows
      /\ D + 1 < rows <=> (D + 1) * w < N
  <2>1. D + 1 \in Nat /\ D + 1 <= rows
    BY <1>2, <1>3, <1>10
  <2> HIDE DEF D
  <2> QED
    BY <2>1, <1>2
<1>11. row \in Seq(Bytes)
  BY <1>2, <1>3, <1>10, RowIsBytes
<1> HIDE DEF n, row
<1>12. /\ done \in Seq(Seq(Bytes)) /\ Len(done) = D + 1
       /\ \A i \in 1..D : done[i] = digested[i]
       /\ done[D + 1] = row
  BY <1>3, <1>11, AppendProperties
<1>13. /\ buffer \in Seq(Seq(Bytes)) /\ Len(buffer) = Len(outgoing) + 1
       /\ \A i \in 1..Len(outgoing) : buffer[i] = outgoing[i]
       /\ buffer[Len(outgoing) + 1] = row
  BY <1>3, <1>11, AppendProperties
<1> HIDE DEF done, buffer, D, W, b
<1>14. MustFlush(Len(buffer), finalize) <=> Len(buffer) >= BufferSize(rows) \/ finalize
  <2>1. ~(Len(buffer) + W >= capacity)
    BY <1>2, <1>3, <1>7, <1>10, <1>13
  <2> QED
    BY <2>1 DEF MustFlush, W
<1>15. /\ MustFlush(Len(buffer), finalize) =>
            /\ file' = WriteRows(file, capacity, dims.enc, W, buffer)
            /\ rows_written' = W + Len(buffer)
            /\ outgoing' = << >>
       /\ ~MustFlush(Len(buffer), finalize) =>
            outgoing' = buffer /\ file' = file /\ rows_written' = W
  BY <1>4 DEF BufferedWriteRow, buffer, W
<1>16. Types'
  <2>1. incoming' \in Seq(Bytes)
    <3>1. (D + 1) * w \in Nat /\ received <= Len(raw)
      BY <1>2, <1>3, <1>8 DEF N
    <3> QED
      BY <1>2, <1>3, <1>10, <3>1, Middle
  <2>2. outgoing' \in Seq(Seq(Bytes)) /\ rows_written' \in Nat
    <3>1. CASE MustFlush(Len(buffer), finalize)
      BY <3>1, <1>3, <1>13, <1>15
    <3>2. CASE ~MustFlush(Len(buffer), finalize)
      BY <3>2, <1>3, <1>13, <1>15
    <3> QED
      BY <3>1, <3>2
  <2> QED
    BY <1>1, <1>4, <1>12, <2>1, <2>2 DEF Types
<1>17. Reading'
  <2>1. D + 1 <= rows
    BY <1>2, <1>3, <1>10
  <2>2. CASE finalize
    <3>1. pc = "finalizing" /\ received = N /\ Len(incoming) < w
      BY <2>2, <1>6
    <3>2. N < b + w
      BY <3>1, <1>2, <1>3, <1>8, <1>9
    <3>3. D + 1 = rows
      BY <1>a, <3>2, <1>2, <1>3, <1>8
    <3>4. incoming' = << >>
      <4>1. (D + 1) * w + 1 \in Int /\ received < (D + 1) * w + 1
        BY <3>1, <3>2, <1>2, <1>3, <1>8
      <4> QED
        BY <4>1, <1>3, <1>10, SubSeqEmpty
    <3>5. Len(incoming') < w
      BY <3>4, <1>2
    <3> QED
      BY <2>1, <3>1, <3>3, <3>4, <3>5, <1>4, <1>5, <1>10, <1>12 DEF Reading, w, N, D
  <2>3. CASE ~finalize
    <3>1. (D + 1) * w <= received
      BY <2>3, <1>2, <1>3, <1>6, <1>8, <1>9
    <3> QED
      BY <2>1, <2>3, <3>1, <1>4, <1>5, <1>6, <1>10, <1>12 DEF Reading, w, D
  <2> QED
    BY <2>2, <2>3
<1>18. Buffering'
  <2> DEFINE B == BufferSize(rows)
             R == N % w
  <2>0. (LastRowDone)' <=> D + 1 = rows /\ R # 0
    BY <1>4, <1>5, <1>12 DEF LastRowDone, N, w, D
  <2>1. CASE finalize
    <3>1. Len(incoming) < w /\ N = b + Len(incoming) /\ Len(incoming) \in 0..w - 1
      BY <2>1, <1>2, <1>3, <1>6, <1>8, <1>9
    <3>2. (b + Len(incoming)) % w = Len(incoming)
      <4>1. D \in Int
        BY <1>3
      <4> QED
        BY <4>1, <3>1, <1>2, DivisionUnique, Zenon DEF b
    <3>3. R # 0
      BY <3>1, <3>2, <1>3
    <3>4. D + 1 = rows
      BY <3>1, <1>2, <1>3, <1>8, <1>a
    <3>5. outgoing' = << >>
      BY <2>1, <1>14, <1>15
    <3> QED
      BY <2>0, <3>3, <3>4, <3>5 DEF Buffering
  <2>2. CASE ~finalize
    <3>1. ~(LastRowDone)'
      <4>1. SUFFICES ASSUME D + 1 = rows PROVE R = 0
        BY <2>0
      <4>2. ~((D + 1) * w < N)
        BY <4>1, <1>2, <1>a
      <4>3. N = (D + 1) * w + 0
        BY <2>2, <4>2, <1>2, <1>3, <1>6, <1>8, <1>9
      <4>4. D + 1 \in Int /\ 0 \in 0..w - 1
        BY <1>2, <1>3
      <4>5. ((D + 1) * w + 0) % w = 0
        BY <4>4, <1>2, DivisionUnique
      <4> QED
        BY <4>3, <4>5
    <3>2. ~LastRowDone /\ rows > 0
      BY <1>2, <1>3, <1>10 DEF LastRowDone, D
    <3>3. /\ Len(outgoing) < B
          /\ \E q \in 0..rows : W = q * B
      BY <3>2, <1>1 DEF Buffering, W
    <3>4. B \in Nat
      BY <1>2, BufferAssumption DEF BufferSize, Lesser
    <3> HIDE DEF B
    <3>5. CASE MustFlush(Len(buffer), finalize)
      <4>1. Len(buffer) = B
        BY <2>2, <3>3, <3>4, <3>5, <1>3, <1>13, <1>14 DEF B
      <4>2. PICK q \in 0..rows : W = q * B
        BY <3>3
      <4>3. q \in Nat
        BY <4>2, <1>2
      <4>4. rows_written' = (q + 1) * B
        BY <3>5, <4>1, <4>2, <4>3, <3>4, <1>15, NextMultiple
      <4>5. q + 1 \in 0..rows
        <5>1. (q + 1) * B = W + B /\ W + B = D + 1
          <6>1. (q + 1) * B = q * B + B
            BY <4>3, <3>4, NextMultiple
          <6>2. W + B = D + 1
            BY <4>1, <3>4, <1>3, <1>7, <1>13
          <6> QED
            BY <6>1, <6>2, <4>2
        <5>2. 1 <= B /\ 1 \in Int /\ B \in Int /\ q + 1 \in Nat
          BY <4>3, <3>3, <3>4, <1>3
        <5>3. 1 * (q + 1) <= B * (q + 1)
          BY <5>2, MultiplesGrow
        <5>4. 1 * (q + 1) = q + 1 /\ (q + 1) * B = B * (q + 1)
          BY <4>3, <3>4
        <5>5. q + 1 <= D + 1
          BY <5>1, <5>3, <5>4
        <5> QED
          BY <5>5, <5>2, <1>2, <1>a
      <4>6. Len(outgoing') < B
        BY <3>5, <3>3, <3>4, <1>3, <1>15
      <4>7. \E p \in 0..rows : rows_written' = p * B
        BY <4>4, <4>5
      <4> QED
        BY <3>1, <4>6, <4>7, <1>5 DEF Buffering, B, W
    <3>6. CASE ~MustFlush(Len(buffer), finalize)
      <4>1. Len(outgoing') < B
        BY <2>2, <3>4, <3>6, <1>3, <1>13, <1>14, <1>15 DEF B
      <4>2. \E p \in 0..rows : rows_written' = p * B
        BY <3>3, <3>6, <1>15
      <4> QED
        BY <3>1, <4>1, <4>2, <1>5 DEF Buffering, B, W
    <3> QED
      BY <3>5, <3>6
  <2> QED
    BY <2>1, <2>2
<1>19. FileIsDigestedRows'
  <2>1. done = [r \in 1..D + 1 |-> RowOf(raw, dims, r - 1)]
    <3> DEFINE f == [r \in 1..D + 1 |-> RowOf(raw, dims, r - 1)]
    <3>1. done \in [1..D + 1 -> Seq(Bytes)]
      BY <1>12, LenProperties
    <3>2. \A r \in 1..D + 1 : done[r] = f[r]
      <4> TAKE r \in 1..D + 1
      <4>1. CASE r \in 1..D
        BY <4>1, <1>7, <1>12
      <4>2. CASE r = D + 1
        BY <4>2, <1>3, <1>10, <1>12
      <4> QED
        BY <4>1, <4>2, <1>3
    <3> QED
      BY <3>1, <3>2
  <2>2. /\ W <= D /\ W < Len(done) /\ Len(done) <= capacity /\ capacity \in Nat \ {0}
        /\ Len(buffer) = (D + 1) - W
    <3>1. W <= D /\ Len(outgoing) = D - W
      BY <1>3, <1>7
    <3> QED
      BY <3>1, <1>2, <1>3, <1>12, <1>13, <1>a
  <2>3. buffer = SubSeq(done, W + 1, D + 1)
    <3> DEFINE t == SubSeq(done, W + 1, D + 1)
    <3>1. D + 1 \in Nat /\ D + 1 <= Len(done)
      BY <1>3, <1>12
    <3>2. /\ t \in Seq(Seq(Bytes))
          /\ Len(t) = IF W <= D + 1 THEN (D + 1) - W ELSE 0
          /\ \A i \in 1..(D + 1) - W : t[i] = done[W + i]
      <4> DEFINE e == D + 1
      <4>1. W \in Nat /\ done \in Seq(Seq(Bytes)) /\ e \in Nat /\ e <= Len(done)
        BY <1>3, <1>12, <3>1
      <4> HIDE DEF e
      <4>2. /\ SubSeq(done, W + 1, e) \in Seq(Seq(Bytes))
            /\ Len(SubSeq(done, W + 1, e)) = IF W <= e THEN e - W ELSE 0
            /\ \A i \in 1..e - W : SubSeq(done, W + 1, e)[i] = done[W + i]
        BY <4>1, Middle
      <4> QED
        BY <4>2 DEF e
    <3>3. \A i \in 1..D - W : outgoing[i] = digested[W + i]
      <4>1. \A i \in 1..D - W : SubSeq(digested, W + 1, D)[i] = digested[W + i]
        BY <1>3, Middle
      <4> QED
        BY <4>1, <1>7
    <3> HIDE DEF t
    <3>4. Len(t) = Len(buffer)
      BY <3>2, <2>2, <1>3
    <3>5. \A i \in 1..Len(buffer) : buffer[i] = t[i]
      <4> TAKE i \in 1..Len(buffer)
      <4>1. i \in 1..(D + 1) - W /\ t[i] = done[W + i]
        BY <2>2, <3>2
      <4>2. CASE i \in 1..D - W
        <5>1. W + i \in 1..D /\ i \in 1..Len(outgoing)
          BY <4>2, <1>3, <1>7
        <5> QED
          BY <4>1, <4>2, <5>1, <3>3, <1>12, <1>13
      <4>3. CASE i = (D + 1) - W
        <5>1. W + i = D + 1 /\ i = Len(outgoing) + 1
          BY <4>3, <1>3, <1>7
        <5> QED
          BY <4>1, <5>1, <1>12, <1>13
      <4> QED
        BY <4>1, <4>2, <4>3, <1>3
    <3>6. buffer = t
      BY <3>2, <3>4, <3>5, <1>13, SeqEqual
    <3> QED
      BY <3>6 DEF t
  <2>4. file = FileOf(W, done, capacity, dims.enc)
    <3>1. ASSUME NEW i \in 0..(capacity * dims.enc) - 1, i % capacity < W
          PROVE  digested[(i % capacity) + 1] = done[(i % capacity) + 1]
      <4>1. i \in Int
        BY <1>2
      <4>2. i % capacity \in 0..capacity - 1
        BY <4>1, <2>2, Division
      <4>3. (i % capacity) + 1 \in 1..D
        BY <4>2, <3>1, <2>2, <1>3
      <4> QED
        BY <4>3, <1>12
    <3>2. ASSUME NEW i \in 0..(capacity * dims.enc) - 1
          PROVE  (IF i % capacity < W
                    THEN Element(digested[(i % capacity) + 1], i \div capacity, dims.enc)
                    ELSE Zero)
                 = IF i % capacity < W
                     THEN Element(done[(i % capacity) + 1], i \div capacity, dims.enc)
                     ELSE Zero
      BY <3>1, Zenon
    <3> QED
      BY <3>2, <1>7, Zenon DEF FileOf
  <2>5. ASSUME MustFlush(Len(buffer), finalize)
        PROVE  /\ Len(done) = rows_written' + Len(outgoing')
               /\ outgoing' = SubSeq(done, rows_written' + 1, Len(done))
               /\ file' = FileOf(rows_written', done, capacity, dims.enc)
    <3>1. buffer = SubSeq(done, W + 1, Len(done))
      BY <2>3, <1>12
    <3>2. file' = FileOf(Len(done), done, capacity, dims.enc)
      <4>1. W \in Nat /\ done \in Seq(Seq(Bytes)) /\ dims.enc \in Nat \ {0}
        BY <1>2, <1>3, <1>12
      <4>2. W < Len(done) /\ Len(done) <= capacity /\ capacity \in Nat \ {0}
        BY <2>2
      <4>3. WriteRows(file, capacity, dims.enc, W, SubSeq(done, W + 1, Len(done)))
              = FileOf(Len(done), done, capacity, dims.enc)
        BY <4>1, <4>2, <2>4, WriteBehind
      <4> QED
        BY <4>3, <2>5, <3>1, <1>15
    <3>3. rows_written' = Len(done) /\ outgoing' = << >> /\ Len(outgoing') = 0
      BY <2>2, <2>5, <1>3, <1>12, <1>15
    <3>4. outgoing' = SubSeq(done, Len(done) + 1, Len(done))
      BY <3>3, <1>3, <1>12, SubSeqEmpty
    <3>5. Len(done) = rows_written' + Len(outgoing')
      BY <3>3, <1>3, <1>12
    <3>6. file' = FileOf(rows_written', done, capacity, dims.enc)
      BY <3>2, <3>3
    <3> QED
      BY <3>3, <3>4, <3>5, <3>6
  <2>6. ASSUME ~MustFlush(Len(buffer), finalize)
        PROVE  /\ Len(done) = rows_written' + Len(outgoing')
               /\ outgoing' = SubSeq(done, rows_written' + 1, Len(done))
               /\ file' = FileOf(rows_written', done, capacity, dims.enc)
    <3>1. outgoing' = buffer /\ file' = file /\ rows_written' = W
      BY <2>6, <1>15
    <3>2. Len(done) = rows_written' + Len(outgoing')
      BY <3>1, <2>2, <1>3, <1>12
    <3>3. outgoing' = SubSeq(done, rows_written' + 1, Len(done))
      BY <3>1, <2>3, <1>12
    <3>4. file' = FileOf(rows_written', done, capacity, dims.enc)
      BY <3>1, <2>4
    <3> QED
      BY <3>2, <3>3, <3>4
  <2>7. /\ Len(done) = rows_written' + Len(outgoing')
        /\ outgoing' = SubSeq(done, rows_written' + 1, Len(done))
        /\ file' = FileOf(rows_written', done, capacity, dims.enc)
    BY <2>5, <2>6
  <2>8. digested' = done /\ Len(done) = D + 1 /\ raw' = raw /\ dims' = dims /\ capacity' = capacity
    BY <1>4, <1>5, <1>12
  <2> QED
    <3>1. digested' = [r \in 1..Len(digested') |-> RowOf(raw', dims', r - 1)]
      BY <2>1, <2>8
    <3>2. file' = [i \in 0..(capacity' * dims'.enc) - 1 |->
                     IF i % capacity' < rows_written'
                       THEN Element(digested'[(i % capacity') + 1], i \div capacity', dims'.enc)
                       ELSE Zero]
      BY <2>7, <2>8 DEF FileOf
    <3> QED
      BY <3>1, <3>2, <2>7, <2>8 DEF FileIsDigestedRows
<1> QED
  BY <1>1, <1>16, <1>17, <1>18, <1>19 DEF IInv

-----------------------------------------------------------------------------
(* The theorems.                                                           *)

\* The invariant is inductive.
LEMMA NextIInv ==
  ASSUME IInv, [Next]_vars PROVE IInv'
<1>1. Types /\ Reading /\ Buffering /\ FileIsDigestedRows
  BY DEF IInv
<1>2. RowBytes(dims) \in Nat \ {0} /\ Len(incoming) \in Nat
  BY <1>1, RowsOfFile, LenProperties DEF Types
<1>3. CASE PushBytes
  BY <1>3, PushBytesIInv
<1>4. CASE ProcessFullRow
  <2>1. pc = "reading" /\ Len(incoming) >= RowBytes(dims) /\ ProcessCurrentRow(FALSE)
    BY <1>4 DEF ProcessFullRow
  <2>2. incoming # << >>
    BY <1>2, <2>1
  <2> QED
    BY <2>1, <2>2, ProcessCurrentRowIInv
<1>5. CASE ProcessLastRow
  <2>1. pc = "finalizing" /\ incoming # << >> /\ ProcessCurrentRow(TRUE)
    BY <1>5 DEF ProcessLastRow
  <2> QED
    BY <2>1, ProcessCurrentRowIInv
<1>6. ASSUME UNCHANGED <<raw, dims, received, incoming, outgoing, digested, rows_written, file>>,
             pc' \in {"reading", "finalizing", "finalized"},
             pc' # "reading" => received = Len(raw) /\ Len(incoming) < RowBytes(dims),
             pc # "reading" => pc' # "reading",
             pc' = "finalized" => incoming = << >>
      PROVE  IInv'
  <2>1. rows' = rows /\ capacity' = capacity
    BY <1>6 DEF rows, capacity
  <2>2. Types'
    BY <1>1, <1>6 DEF Types
  <2>3. Reading'
    BY <1>1, <1>6, <2>1 DEF Reading
  <2>4. Buffering'
    BY <1>1, <1>6, <2>1 DEF Buffering, LastRowDone
  <2>5. FileIsDigestedRows'
    BY <1>1, <1>6, <2>1 DEF FileIsDigestedRows
  <2> QED
    BY <2>2, <2>3, <2>4, <2>5 DEF IInv
<1>7. pc \in {"reading", "finalizing", "finalized"}
      /\ (pc # "reading" => received = Len(raw) /\ Len(incoming) < RowBytes(dims))
      /\ (pc = "finalized" => incoming = << >>)
  BY <1>1 DEF Types, Reading
<1>8. CASE EndOfFile
  BY <1>6, <1>7, <1>8 DEF EndOfFile
<1>9. CASE FinalizeToMerkleTree
  BY <1>6, <1>7, <1>9 DEF FinalizeToMerkleTree
<1>10. CASE UNCHANGED vars
  BY <1>6, <1>7, <1>10 DEF vars
<1> QED
  BY <1>3, <1>4, <1>5, <1>8, <1>9, <1>10 DEF Next

\* The invariant holds of the writer.
LEMMA InvariantHolds == Spec => []IInv
  BY InitIInv, NextIInv, PTL DEF Spec

\* No row is lost or invented while a file is converted: at most the rows the
\* file has are digested and written (push_bytes, process_current_row).
THEOREM TypeCorrect == Spec => []TypeOK
<1>1. ASSUME IInv PROVE TypeOK
  <2>1. Types /\ Reading /\ FileIsDigestedRows
    BY <1>1 DEF IInv
  <2>2. Len(digested) <= rows /\ Len(digested) = rows_written + Len(outgoing)
    BY <2>1 DEF Reading, FileIsDigestedRows
  <2>3. rows \in Nat /\ Len(outgoing) \in Nat /\ rows_written \in Nat
    BY <2>1, RowsOfFile, LenProperties DEF Types
  <2>4. rows_written \in 0..rows
    BY <2>2, <2>3
  <2> QED
    BY <2>1, <2>4 DEF TypeOK, Types
<1> QED
  BY <1>1, InvariantHolds, PTL

\* Whatever the chunks the bytes arrive in, the size of the buffer and the
\* shape: the digested columns are those of the file, and every element of a
\* written row is at its place in the encoded file (buffered_write_row).
THEOREM FileHoldsDigestedRows == Spec => []FileIsDigestedRows
<1>1. IInv => FileIsDigestedRows
  BY DEF IInv
<1> QED
  BY <1>1, InvariantHolds, PTL

\* The file never fills up, so that buffered_write_row never makes it grow.
THEOREM FileNeverFull == Spec => []NeverFull
<1>1. ASSUME IInv PROVE NeverFull
  <2>1. Types /\ Reading /\ FileIsDigestedRows
    BY <1>1 DEF IInv
  <2>2. Len(digested) <= rows /\ Len(digested) = rows_written + Len(outgoing)
    BY <2>1 DEF Reading, FileIsDigestedRows
  <2>3. rows \in Nat /\ capacity = 2 * rows /\ Len(outgoing) \in Nat /\ rows_written \in Nat
    BY <2>1, RowsOfFile, LenProperties DEF Types
  <2> QED
    BY <2>2, <2>3 DEF NeverFull
<1> QED
  BY <1>1, InvariantHolds, PTL

\* A finalized writer has digested every row of the file, and the encoded file
\* has all of them, or, when the last row is full, those of the full buffers
\* (finalize_to_merkle_tree).
THEOREM RowsWhenFinalized == Spec => []FinalizedRows
<1>1. ASSUME IInv PROVE FinalizedRows
  <2>1. SUFFICES ASSUME pc = "finalized"
                 PROVE  Len(digested) = rows /\ rows_written = FlushedRows(raw, dims)
    BY DEF FinalizedRows
  <2> DEFINE w == RowBytes(dims)
             N == Len(raw)
             D == Len(digested)
             b == D * w
             B == BufferSize(rows)
             X == N % w
  <2>2. Types /\ Reading /\ Buffering /\ FileIsDigestedRows
    BY <1>1 DEF IInv
  <2>3. /\ N \in Nat /\ w \in Nat \ {0} /\ rows \in Nat
        /\ D \in Nat /\ Len(outgoing) \in Nat /\ rows_written \in Nat /\ raw \in Seq(Bytes)
    BY <2>2, RowsOfFile, LenProperties DEF Types
  <2>4. D < rows <=> b < N
    BY <2>2, <2>3, RowsOfFile
  <2>5. /\ D <= rows
        /\ incoming = SubSeq(raw, b + 1, received)
        /\ received = N /\ incoming = << >>
    BY <2>1, <2>2 DEF Reading
  <2>6. D = rows_written + Len(outgoing)
    BY <2>2 DEF FileIsDigestedRows
  <2>7. FlushedRows(raw, dims) = IF X # 0 THEN rows
                                 ELSE IF rows = 0 THEN 0 ELSE rows - (rows % B)
    BY DEF FlushedRows, rows
  <2>8. LastRowDone <=> D = rows /\ X # 0
    BY DEF LastRowDone
  <2>9. /\ LastRowDone => outgoing = << >>
        /\ rows > 0 /\ ~LastRowDone => Len(outgoing) < B /\ \E q \in 0..rows : rows_written = q * B
    BY <2>2 DEF Buffering
  <2>10. b \in Nat
    BY <2>3
  <2>a. B \in Nat
    BY <2>3, BufferAssumption DEF BufferSize, Lesser
  <2> HIDE DEF w, N, b, B, X
  <2>11. Len(SubSeq(raw, b + 1, received)) = 0
    <3>1. SubSeq(raw, b + 1, received) = << >>
      BY <2>5
    <3>2. Len(<< >>) = 0
      OBVIOUS
    <3> QED
      BY <3>1, <3>2, Zenon
  <2>12. Len(SubSeq(raw, b + 1, received)) = IF b <= N THEN N - b ELSE 0
    <3>1. received \in Nat /\ received <= Len(raw) /\ received = N
      BY <2>3, <2>5 DEF N
    <3> QED
      BY <2>3, <2>10, <3>1, Middle
  <2> HIDE DEF D
  <2>13. D = rows
    BY <2>3, <2>4, <2>5, <2>10, <2>11, <2>12
  <2>14. CASE X # 0
    <3>1. Len(outgoing) = 0
      BY <2>8, <2>9, <2>13, <2>14
    <3> QED
      BY <2>3, <2>6, <2>7, <2>13, <2>14, <3>1 DEF D
  <2>15. CASE X = 0 /\ rows = 0
    <3>1. rows_written = 0
      BY <2>3, <2>6, <2>13, <2>15
    <3> QED
      BY <2>7, <2>13, <2>15, <3>1 DEF D
  <2>16. CASE X = 0 /\ rows # 0
    <3>1. Len(outgoing) < B /\ \E q \in 0..rows : rows_written = q * B
      BY <2>3, <2>8, <2>9, <2>16
    <3>2. PICK q \in 0..rows : rows_written = q * B
      BY <3>1
    <3>3. q \in Int /\ B \in Nat \ {0} /\ Len(outgoing) \in 0..B - 1
      BY <2>3, <2>a, <3>1, <3>2
    <3>4. (q * B + Len(outgoing)) % B = Len(outgoing)
      BY <3>3, DivisionUnique
    <3>5. q * B + Len(outgoing) = rows
      BY <2>6, <2>13, <3>2
    <3>6. rows % B = Len(outgoing)
      BY <3>4, <3>5
    <3> QED
      BY <2>3, <2>6, <2>7, <2>13, <2>16, <3>6 DEF D
  <2> QED
    BY <2>14, <2>15, <2>16
<1> QED
  BY <1>1, InvariantHolds, PTL
=============================================================================
