----------------------------- MODULE FieldData -----------------------------
(***************************************************************************)
(* Bytes, field elements and the matrix that a file is laid out in.        *)
(*                                                                         *)
(* A file is a sequence of bytes: opaque ones, which stand for non-zero    *)
(* bytes, or the numbers of FieldElements.  It is cut into field elements  *)
(* of BYTE_CAPACITY bytes, the elements into rows of dims.pre columns, and *)
(* each row is encoded to dims.enc columns.                                *)
(***************************************************************************)
EXTENDS Integers, Sequences

CONSTANTS
  Bytes,          \* the values of a byte
  Shapes,         \* matrix shapes [pre |-> columns, enc |-> encoded columns]
  BYTE_CAPACITY,  \* bytes a field element holds (WriteableFt63: 7)
  CAPACITY,       \* bits a field element holds (WriteableFt63: 62)
  None            \* the absent value

ASSUME ShapesAssumption   == Shapes \subseteq [pre : Nat \ {0}, enc : Nat \ {0}]
ASSUME CapacityAssumption == /\ BYTE_CAPACITY \in Nat \ {0}
                             /\ CAPACITY \in Nat \ {0}
                             /\ CAPACITY \div 8 = BYTE_CAPACITY

Lesser(m, n) == IF m <= n THEN m ELSE n

CeilDiv(a, b) == (a + b - 1) \div b

IsPowerOfTwo(n) == \E k \in 0..n : n = 2 ^ k

Content == Seq(Bytes)

FieldLen(data) == CeilDiv(Len(data), BYTE_CAPACITY)

RowCount(data, dims) == CeilDiv(FieldLen(data), dims.pre)

\* data with the bytes from offset start (0-based) overwritten by patch.  The
\* client only sends edits that end inside the file, and no file ever shrinks.
Splice(data, start, patch) ==
  [i \in 1..Len(data) |-> IF start < i /\ i <= start + Len(patch) THEN patch[i - start]
                                                                  ELSE data[i]]
=============================================================================
