---------------------------- MODULE RowGenerator ----------------------------
(***************************************************************************)
(* The encoded rows of a file as a stream                                  *)
(* (fields/field_generator_iter.rs, lcpc_online/row_generator_iter.rs).    *)
(* Elements are taken from an iterator over the file's bytes into one      *)
(* buffer of encoded width, which is encoded in place, handed out and      *)
(* filled with zeros for the next row.                                     *)
(***************************************************************************)
EXTENDS LinearCode

CONSTANT Files     \* bound: the files that are streamed

ASSUME FilesAssumption == Files \subseteq Content

VARIABLES
  data,                   \* the file
  dims,                   \* its shape
  rest,                   \* the bytes the field iterator has not taken
  coefs_buffer,
  coef_buffer_position,
  streamed                \* the rows handed out so far

rowVars == <<data, dims, rest, coefs_buffer, coef_buffer_position, streamed>>

ZeroBuffer == [c \in 1..dims.enc |-> 0]

RowInit ==
  /\ data \in Files
  /\ dims \in Shapes
  /\ rest = data
  /\ coefs_buffer = ZeroBuffer
  /\ coef_buffer_position = 0
  /\ streamed = << >>

\* FieldGeneratorIter::next fills one element, or what is left of it.
TakeElement ==
  /\ coef_buffer_position < dims.pre
  /\ rest # << >>
  /\ LET n == Lesser(BYTE_CAPACITY, Len(rest))
     IN  /\ coefs_buffer' = [coefs_buffer EXCEPT ![coef_buffer_position + 1] =
                               FromDataBytes(PaddedChunk(SubSeq(rest, 1, n)))]
         /\ rest' = SubSeq(rest, n + 1, Len(rest))
  /\ coef_buffer_position' = coef_buffer_position + 1
  /\ UNCHANGED <<data, dims, streamed>>

RowComplete ==
  /\ coef_buffer_position # 0
  /\ coef_buffer_position = dims.pre \/ rest = << >>

\* Mutant: the encoding is left in the buffer, and a short row keeps some of it.
EmitRowKeepsBuffer ==
  /\ RowComplete
  /\ streamed' = Append(streamed, Encode(coefs_buffer))
  /\ coefs_buffer' = Encode(coefs_buffer)
  /\ coef_buffer_position' = 0
  /\ UNCHANGED <<data, dims, rest>>

EmitRow ==
  /\ RowComplete
  /\ streamed' = Append(streamed, Encode(coefs_buffer))
  /\ coefs_buffer' = ZeroBuffer
  /\ coef_buffer_position' = 0
  /\ UNCHANGED <<data, dims, rest>>

\* The iterator returns None.
Exhausted == coef_buffer_position = 0 /\ rest = << >>

RowNext == TakeElement \/ EmitRow

-----------------------------------------------------------------------------
(* What is made of the rows of an exhausted iterator.                      *)

StreamedDigests == Digests([c \in 1..dims.enc |-> LeafDigest(ColumnOf(streamed, c - 1))])

\* Mutant: the columns come in the order of the request and the paths do not.
FullColumnsPairedInOrder(indices) ==
  [i \in DOMAIN indices |->
     [col  |-> ColumnOf(streamed, indices[i]),
      path |-> GetPath(StreamedDigests, Reverse(indices)[i])]]

\* The values are popped from the end of the columns while the indices are
\* walked from their end: the result is in reversed order.
FullColumns(indices) ==
  LET last == Reverse(indices)
  IN  [i \in DOMAIN indices |->
         [col |-> ColumnOf(streamed, last[i]), path |-> GetPath(StreamedDigests, last[i])]]

-----------------------------------------------------------------------------

RowTypeOK ==
  /\ data \in Content /\ rest \in Content
  /\ dims \in Shapes
  /\ coefs_buffer \in [1..dims.enc -> Field]
  /\ coef_buffer_position \in 0..dims.pre
  /\ streamed \in Seq([1..dims.enc -> Field])

(* The rows handed out are those of the commitment, wherever the bytes of  *)
(* the file end: an element or a row that the file does not fill is filled *)
(* with zeros and with nothing of the row before it, which the buffer held *)
(* encoded (RowGeneratorIter::next).                                       *)
StreamedRowsAreCommitted ==
  LET comm == CommitTo(FromByteVec(data), dims).comm
  IN  /\ streamed = SubSeq(comm, 1, Len(streamed))
      /\ Exhausted => streamed = comm
=============================================================================
