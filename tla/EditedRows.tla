----------------------------- MODULE EditedRows -----------------------------
(***************************************************************************)
(* The part of a stored file that the server sends with an evaluation of a *)
(* new version, and that the client computes the expected difference from. *)
(***************************************************************************)
EXTENDS FieldData

\* v[first ..= last] does not panic on a vector of length len.
SliceOk(first, last, len) == first <= last + 1 /\ last + 1 <= len

\* The slice of the last row of the old version, in field elements of the new
\* one; the bound divides a length in bytes by a capacity in bits.
AppendSlice(old, new) ==
  [first |-> (old.rows - 1) * old.dims.pre,
   last  |-> IF old.rows < new.rows THEN old.rows * old.dims.pre - 1
                                    ELSE CeilDiv(new.size, CAPACITY)]

\* The last element of the old version, when the append completes it, is
\* looked up in the row the server sent: the lookup may be out of bounds.
ChangedElementMissing(old, rowLen) ==
  /\ old.size % BYTE_CAPACITY # 0
  /\ (old.size \div BYTE_CAPACITY) % old.dims.pre >= rowLen

\* The rows of an edit, the first and the one the byte behind it is in.
EditedRowRange(dims, start, data) ==
  LET rowBytes == dims.pre * BYTE_CAPACITY
  IN  [first |-> start \div rowBytes, last |-> (start + Len(data)) \div rowBytes]

\* The slice of the edited rows, in bytes of the old version; the inclusive
\* bound is capped at the length instead of at the last index.
EditSlice(m, len) ==
  LET rowBytes == m.old.dims.pre * BYTE_CAPACITY
      last     == (m.last + 1) * rowBytes - 1
  IN  [first |-> m.first * rowBytes, last |-> IF last < len THEN last ELSE len]

\* The client takes whole rows only, and no fewer bytes than it edited.
WholeRows(dims, rowBytes, edited) ==
  /\ rowBytes >= edited
  /\ rowBytes % (BYTE_CAPACITY * dims.pre) = 0
=============================================================================
