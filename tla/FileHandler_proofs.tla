------------------------- MODULE FileHandler_proofs ------------------------
(***************************************************************************)
(* Proofs about the file handler, for every file, shape and size of the    *)
(* writer's buffer, and for every crash.                                   *)
(***************************************************************************)
EXTENDS FileHandler, EncodedLayout_proofs

-----------------------------------------------------------------------------
(* The inductive invariant: counts fit the room there is for them.         *)

Converting ==
  {"truncate", "encode", "create_metadata", "write_metadata", "create_tree", "write_tree", "tree"}

Calls == {"none", "create", "reshape", "append", "edit", "reencode", "delete"}

Pcs == Converting \union
  {"idle", "stamp", "grow", "move", "rows", "recalculate", "metadata",
   "remove_encoded", "remove_tree", "remove_metadata"}

\* A call of the handler, which has the files attached, is under way.
Calling == op.call \in {"append", "edit", "reencode", "reshape"}

\* Which call is where, and with what.
OpFits ==
  /\ op \in [call : Calls, pc : Pcs, row : Nat, last : Nat, col : Nat,
             dims : Shapes \union {None}]
  /\ op.row <= op.last
  /\ op.pc \in Converting => op.dims \in Shapes /\ raw \in Content
  /\ op.pc \in {"truncate", "create_metadata", "write_metadata", "create_tree", "write_tree"} =>
       op.call \in {"create", "reshape"}
  /\ op.pc = "encode" => op.call \in {"create", "reshape", "reencode"}
  /\ op.pc = "tree" => op.call = "reencode"
  /\ op.pc = "stamp" => op.call = "create" /\ raw \in Content
  /\ op.pc \in {"grow", "move"} => op.call = "append"
  /\ op.pc = "rows" => op.call \in {"append", "edit"} /\ op.row < op.last
  /\ op.pc = "recalculate" => op.call \in {"append", "edit"}
  /\ op.pc = "metadata" => op.call \in {"append", "reencode"}
  /\ op.pc \in {"remove_encoded", "remove_tree", "remove_metadata"} => op.call = "delete"

\* The rows and bytes that metadata name fit its capacity.
FittingMetadata(m) ==
  /\ m \in [ulid : {"own", "default"}, dims : Shapes, rows : Nat, capacity : Nat, bytes : Nat]
  /\ m.rows <= m.capacity
  /\ m.bytes <= m.capacity * RowBytes(m.dims)

MetadataFits ==
  \/ metadata \notin {None, Truncated}
  \/ op.pc \in {"create_tree", "write_tree", "stamp"}
  => FittingMetadata(metadata) /\ (raw # None => metadata.bytes <= Len(raw))

HandlerTypes(h) ==
  /\ h \in [dims : Shapes, rows : Nat, capacity : Nat, total : Nat, tree : {h.tree},
            readerRows : Nat, readerCapacity : Nat]
  /\ h.readerCapacity = h.capacity

\* The rows and bytes that a handler knows of fit so many rows.
FitsIn(h, capacity) ==
  /\ h.rows <= capacity
  /\ h.readerRows <= capacity
  /\ h.total <= capacity * RowBytes(h.dims)

HandlerFits ==
  /\ op.call \in {"create", "delete"} => handler = None
  /\ handler # None \/ Calling =>
    /\ raw \in Content
    /\ HandlerTypes(handler)
    /\ handler.total <= Len(raw)
    /\ op.pc \in {"grow", "move"} => FitsIn(handler, op.last)
    /\ op.pc \notin Converting \union {"grow", "move"} => FitsIn(handler, handler.capacity)
    /\ op.pc = "rows" => op.last <= handler.capacity

Fits ==
  /\ raw # None => raw \in Content
  /\ torn \in BOOLEAN
  /\ OpFits
  /\ MetadataFits
  /\ HandlerFits

-----------------------------------------------------------------------------
(* Counting rows.                                                          *)

\* As many rows as bytes need hold them, and no fewer rows do.
LEMMA RowsHold ==
  ASSUME NEW n \in Nat, NEW b \in Nat \ {0}
  PROVE  /\ CeilDiv(n, b) \in Nat
         /\ n <= CeilDiv(n, b) * b
         /\ \A k \in Nat : n <= k * b => CeilDiv(n, b) <= k
<1>1. ASSUME NEW k \in Nat
      PROVE  CeilDiv(n, b) \in Nat /\ (k < CeilDiv(n, b) <=> k * b < n)
  BY PiecesBegin
<1>2. CeilDiv(n, b) \in Nat
  BY <1>1
<1>3. ASSUME NEW k \in Nat, ~(k * b < n)
      PROVE  CeilDiv(n, b) <= k
  BY <1>1, <1>2, <1>3
<1>4. ASSUME NEW k \in Nat
      PROVE  k * b \in Nat
  OBVIOUS
<1>5. ~(CeilDiv(n, b) * b < n)
  BY <1>1, <1>2
<1> QED
  BY <1>2, <1>3, <1>4, <1>5

\* A byte's row is not behind the rows of bytes that reach further.
LEMMA RowIsInside ==
  ASSUME NEW m \in Nat, NEW n \in Nat, NEW b \in Nat \ {0}, m <= n
  PROVE  /\ m \div b \in Nat
         /\ m \div b <= CeilDiv(n, b)
<1> DEFINE q == m \div b
           r == m % b
<1>1. q \in Int /\ r \in 0..b - 1 /\ m = q * b + r
  BY Division
<1> HIDE DEF q, r
<1>2. q \in Nat
  <2>1. ASSUME q + 1 <= 0 PROVE FALSE
    <3>1. (q + 1) * b <= 0 * b
      BY <1>1, <2>1, MultiplesGrow
    <3>2. (q + 1) * b = q * b + b
      BY <1>1
    <3> QED
      BY <1>1, <3>1, <3>2
  <2> QED
    BY <1>1, <2>1
<1>3. CeilDiv(n, b) \in Nat /\ n <= CeilDiv(n, b) * b
  BY RowsHold
<1>4. ASSUME CeilDiv(n, b) + 1 <= q PROVE FALSE
  <2> DEFINE c == CeilDiv(n, b)
  <2>1. c \in Nat /\ n <= c * b /\ c + 1 <= q
    BY <1>3, <1>4
  <2> HIDE DEF c
  <2>2. (c + 1) * b <= q * b
    BY <1>2, <2>1, MultiplesGrow
  <2>3. (c + 1) * b = c * b + b
    BY <2>1
  <2> QED
    BY <1>1, <1>2, <2>1, <2>2, <2>3
<1> QED
  BY <1>2, <1>3, <1>4 DEF q

\* An edit that ends in the file does not change its length.
LEMMA SpliceKeepsLength ==
  ASSUME NEW data \in Content, NEW start \in Nat, NEW patch \in Content
  PROVE  Splice(data, start, patch) \in Content /\ Len(Splice(data, start, patch)) = Len(data)
<1>1. Len(data) \in Nat /\ Len(patch) \in Nat
  BY DEF Content
<1>2. ASSUME NEW i \in 1..Len(data)
      PROVE  (IF start < i /\ i <= start + Len(patch) THEN patch[i - start] ELSE data[i]) \in Bytes
  <2>1. CASE start < i /\ i <= start + Len(patch)
    <3>1. i - start \in 1..Len(patch)
      BY <1>1, <2>1
    <3> QED
      BY <2>1, <3>1, ElementOfSeq DEF Content
  <2>2. CASE ~(start < i /\ i <= start + Len(patch))
    BY <2>2, ElementOfSeq DEF Content
  <2> QED
    BY <2>1, <2>2
<1>3. Splice(data, start, patch) \in [1..Len(data) -> Bytes]
  BY <1>2 DEF Splice
<1> QED
  BY <1>1, <1>3 DEF Content

\* What the writer writes of a file, and the room it has, fit each other.
LEMMA WriterFits ==
  ASSUME NEW data \in Content, NEW dims \in Shapes
  PROVE  /\ RowBytes(dims) \in Nat \ {0}
         /\ FlushedRows(data, dims) \in Nat
         /\ FlushedRows(data, dims) <= RowCount(data, dims)
         /\ RowCapacity(RowCount(data, dims)) \in Nat
         /\ FlushedRows(data, dims) <= RowCapacity(RowCount(data, dims))
         /\ Len(data) <= RowCapacity(RowCount(data, dims)) * RowBytes(dims)
<1> DEFINE rows == RowCount(data, dims)
           width == RowBytes(dims)
<1>1. /\ width \in Nat \ {0} /\ rows \in Nat
      /\ \A k \in Nat : k < rows <=> k * width < Len(data)
  BY RowsBegin
<1>2. Len(data) \in Nat
  BY DEF Content
<1> HIDE DEF rows, width
<1>3. FlushedRows(data, dims) \in 0..rows
  <2>1. CASE rows = 0
    BY <2>1 DEF FlushedRows, rows
  <2>2. CASE rows # 0
    <3>1. BufferSize(rows) \in Nat \ {0}
      BY <1>1, <2>2, BufferAssumption DEF BufferSize, Lesser
    <3>2. rows % BufferSize(rows) \in 0..BufferSize(rows) - 1
      BY <1>1, <3>1
    <3>3. BufferSize(rows) <= rows
      BY <1>1, <2>2, BufferAssumption DEF BufferSize, Lesser
    <3>4. FlushedRows(data, dims) \in {rows, rows - (rows % BufferSize(rows))}
      BY <2>2 DEF FlushedRows, rows
    <3> HIDE DEF rows
    <3> QED
      BY <1>1, <3>1, <3>2, <3>3, <3>4
  <2> QED
    BY <2>1, <2>2
<1>4. RowCapacity(rows) = rows * 2
  BY DEF RowCapacity
<1>5. ~(rows * width < Len(data))
  BY <1>1
<1>6. rows * width <= (rows * 2) * width
  BY <1>1, MultiplesGrow
<1>7. rows * width \in Nat /\ (rows * 2) * width \in Nat
  BY <1>1
<1>8. Len(data) <= (rows * 2) * width
  BY <1>2, <1>5, <1>6, <1>7
<1>9. FlushedRows(data, dims) <= rows * 2 /\ rows * 2 \in Nat /\ FlushedRows(data, dims) \in Nat
  BY <1>1, <1>3
<1>10. FlushedRows(data, dims) <= rows
  BY <1>1, <1>3
<1> QED
  BY <1>1, <1>4, <1>8, <1>9, <1>10 DEF rows, width

\* So do the metadata of a conversion, and the handler that is made of metadata.
LEMMA WriterMetadataFits ==
  ASSUME NEW dims \in Shapes, raw \in Content
  PROVE  /\ FittingMetadata(WriterMetadata(dims))
         /\ WriterMetadata(dims).bytes = Len(raw)
         /\ WriterMetadata(dims).dims = dims
<1>1. Len(raw) \in Nat
  BY DEF Content
<1>2. /\ RowBytes(dims) \in Nat \ {0}
      /\ FlushedRows(raw, dims) \in Nat
      /\ RowCapacity(RowCount(raw, dims)) \in Nat
      /\ FlushedRows(raw, dims) <= RowCapacity(RowCount(raw, dims))
      /\ Len(raw) <= RowCapacity(RowCount(raw, dims)) * RowBytes(dims)
  BY WriterFits
<1> QED
  BY <1>1, <1>2 DEF FittingMetadata, WriterMetadata, Metadata

LEMMA NewHandlerFits ==
  ASSUME NEW m, NEW columns, FittingMetadata(m)
  PROVE  /\ HandlerTypes(Handler(m, columns))
         /\ Handler(m, columns).total = m.bytes
         /\ FitsIn(Handler(m, columns), Handler(m, columns).capacity)
         /\ Handler(m, columns).readerCapacity = Handler(m, columns).capacity
  BY DEF FittingMetadata, HandlerTypes, FitsIn, Handler

\* At first there are no files.
LEMMA InitFits == ASSUME Init PROVE Fits
<1>1. raw = None /\ metadata = None /\ handler = None /\ torn = FALSE
  BY DEF Init
<1>2. op.call = "none" /\ op.pc = "idle" /\ op.row = 0 /\ op.last = 0
  BY DEF Init, Idle
<1>3. op \in [call : Calls, pc : Pcs, row : Nat, last : Nat, col : Nat,
              dims : Shapes \union {None}]
  BY DEF Init, Idle, Calls, Pcs
<1>4. OpFits
  BY <1>2, <1>3 DEF OpFits, Converting
<1>5. MetadataFits
  BY <1>1, <1>2 DEF MetadataFits
<1>6. HandlerFits
  BY <1>1, <1>2 DEF HandlerFits, Calling
<1> QED
  BY <1>1, <1>4, <1>5, <1>6 DEF Fits

-----------------------------------------------------------------------------
(* Calls.                                                                  *)

LEMMA AttachFits ==
  ASSUME Fits, AttachToExistingUlid PROVE Fits'
<1>1. /\ op = Idle /\ op' = op /\ raw # None /\ metadata \notin {None, Truncated}
      /\ UNCHANGED <<raw, metadata, torn>>
      /\ handler' = Handler(metadata, tree)
  BY DEF AttachToExistingUlid, Free, Attachable
<1>2. /\ raw \in Content
      /\ FittingMetadata(metadata) /\ metadata.bytes <= Len(raw)
  BY <1>1 DEF Fits, MetadataFits
<1>3. OpFits'
  BY <1>1 DEF Fits, OpFits
<1>4. MetadataFits'
  BY <1>1 DEF Fits, MetadataFits
<1>5. /\ HandlerTypes(handler')
      /\ handler'.total = metadata.bytes
      /\ FitsIn(handler', handler'.capacity)
  BY <1>1, <1>2, NewHandlerFits
<1>6. op.pc = "idle" /\ op.call = "none"
  BY <1>1 DEF Idle
<1>7. HandlerFits'
  BY <1>1, <1>2, <1>5, <1>6 DEF HandlerFits, Converting
<1> QED
  BY <1>1, <1>2, <1>3, <1>4, <1>7 DEF Fits

LEMMA CreateFits ==
  ASSUME Fits, NEW dims \in Shapes, CreateFromUnencodedFile(dims) PROVE Fits'
<1>1. /\ op = Idle /\ handler = None
      /\ UNCHANGED <<metadata, handler, torn>>
      /\ (raw' \in Files /\ metadata = None) \/ (raw # None /\ raw' = raw)
      /\ op' = Begin("create", "truncate", dims) \/ op' = op
  BY DEF CreateFromUnencodedFile, Free, Unused
<1>2. raw' \in Content
  BY <1>1, ContentsAssumption DEF Fits
<1>3. op.pc = "idle" /\ op.call = "none"
  BY <1>1 DEF Idle
<1>4. CASE op' = op
  <2>1. OpFits'
    BY <1>2, <1>4 DEF Fits, OpFits
  <2>2. MetadataFits'
    BY <1>1, <1>3, <1>4 DEF Fits, MetadataFits
  <2>3. HandlerFits'
    BY <1>1, <1>3, <1>4 DEF HandlerFits, Calling
  <2> QED
    BY <1>1, <1>2, <2>1, <2>2, <2>3 DEF Fits
<1>5. CASE op' = Begin("create", "truncate", dims)
  <2>1. /\ op'.call = "create" /\ op'.pc = "truncate" /\ op'.row = 0 /\ op'.last = 0
        /\ op'.dims = dims
        /\ op' \in [call : Calls, pc : Pcs, row : Nat, last : Nat, col : Nat,
                   dims : Shapes \union {None}]
    BY <1>5 DEF Begin, Idle, Calls, Pcs, Converting
  <2>2. OpFits'
    BY <1>2, <2>1 DEF OpFits, Converting
  <2>3. MetadataFits'
    BY <1>1, <1>3, <2>1 DEF Fits, MetadataFits
  <2>4. HandlerFits'
    BY <1>1, <2>1 DEF HandlerFits, Calling
  <2> QED
    BY <1>1, <1>2, <2>2, <2>3, <2>4 DEF Fits
<1> QED
  BY <1>1, <1>4, <1>5

\* What is known of the handler when no call is under way.
LEMMA AttachedFits ==
  ASSUME Fits, Attached
  PROVE  /\ op.pc = "idle" /\ op.call = "none"
         /\ raw \in Content /\ Len(raw) \in Nat
         /\ HandlerTypes(handler)
         /\ handler.total <= Len(raw)
         /\ FitsIn(handler, handler.capacity)
         /\ RowBytes(handler.dims) \in Nat \ {0}
<1>1. op.pc = "idle" /\ op.call = "none"
  BY DEF Attached, Idle
<1>2. /\ raw \in Content
      /\ HandlerTypes(handler)
      /\ handler.total <= Len(raw)
      /\ FitsIn(handler, handler.capacity)
  BY <1>1 DEF Fits, HandlerFits, Attached, Converting
<1>3. Len(raw) \in Nat
  BY <1>2 DEF Content
<1>4. handler.dims \in Shapes
  BY <1>2 DEF HandlerTypes
<1>5. RowBytes(handler.dims) \in Nat \ {0}
  BY <1>2, <1>4, RowsBegin
<1> QED
  BY <1>1, <1>2, <1>3, <1>5

LEMMA ReshapeFits ==
  ASSUME Fits, NEW dims \in Shapes, Reshape(dims) PROVE Fits'
<1>1. /\ Attached
      /\ UNCHANGED <<raw, metadata, handler, torn>>
      /\ op' = Begin("reshape", "truncate", dims)
  BY DEF Reshape
<1>2. /\ op.pc = "idle" /\ raw \in Content /\ HandlerTypes(handler)
      /\ handler.total <= Len(raw)
  BY <1>1, AttachedFits
<1>3. /\ op'.call = "reshape" /\ op'.pc = "truncate" /\ op'.row = 0 /\ op'.last = 0
      /\ op'.dims = dims
      /\ op' \in [call : Calls, pc : Pcs, row : Nat, last : Nat, col : Nat,
                 dims : Shapes \union {None}]
  BY <1>1 DEF Begin, Idle, Calls, Pcs, Converting
<1>4. OpFits'
  BY <1>1, <1>2, <1>3 DEF OpFits, Converting
<1>5. MetadataFits'
  BY <1>1, <1>2, <1>3 DEF Fits, MetadataFits
<1>6. HandlerFits'
  BY <1>1, <1>2, <1>3 DEF HandlerFits, Converting
<1> QED
  BY <1>1, <1>4, <1>5, <1>6 DEF Fits

LEMMA ReencodeFits ==
  ASSUME Fits, ReencodeUnencodedFile PROVE Fits'
<1>1. /\ Attached
      /\ UNCHANGED <<raw, metadata, torn>>
      /\ handler' = [handler EXCEPT !.total = Len(raw)]
      /\ op' = Begin("reencode", "encode", handler.dims)
  BY DEF ReencodeUnencodedFile
<1>2. /\ op.pc = "idle" /\ raw \in Content /\ HandlerTypes(handler) /\ Len(raw) \in Nat
  BY <1>1, AttachedFits
<1>3. /\ op'.call = "reencode" /\ op'.pc = "encode" /\ op'.row = 0 /\ op'.last = 0
      /\ op'.dims \in Shapes
      /\ op' \in [call : Calls, pc : Pcs, row : Nat, last : Nat, col : Nat,
                 dims : Shapes \union {None}]
  BY <1>1, <1>2 DEF Begin, Idle, Calls, Pcs, Converting, HandlerTypes
<1>4. OpFits'
  BY <1>1, <1>2, <1>3 DEF OpFits, Converting
<1>5. MetadataFits'
  BY <1>1, <1>2, <1>3 DEF Fits, MetadataFits
<1>6. HandlerTypes(handler') /\ handler'.total = Len(raw)
  BY <1>1, <1>2 DEF HandlerTypes
<1>7. HandlerFits'
  BY <1>1, <1>2, <1>3, <1>6 DEF HandlerFits, Converting
<1> QED
  BY <1>1, <1>4, <1>5, <1>7 DEF Fits

LEMMA DeleteFits ==
  ASSUME Fits, DeleteAllFiles PROVE Fits'
<1>1. /\ Attached
      /\ UNCHANGED <<metadata, torn>>
      /\ handler' = None /\ raw' = None
      /\ op' = Begin("delete", "remove_encoded", None)
  BY DEF DeleteAllFiles
<1>2. op.pc = "idle"
  BY <1>1, AttachedFits
<1>3. /\ op'.call = "delete" /\ op'.pc = "remove_encoded" /\ op'.row = 0 /\ op'.last = 0
      /\ op' \in [call : Calls, pc : Pcs, row : Nat, last : Nat, col : Nat,
                 dims : Shapes \union {None}]
  BY <1>1 DEF Begin, Idle, Calls, Pcs
<1>4. OpFits'
  BY <1>3 DEF OpFits, Converting
<1>5. MetadataFits'
  BY <1>1, <1>2, <1>3 DEF Fits, MetadataFits
<1>6. HandlerFits'
  BY <1>1, <1>3 DEF HandlerFits, Calling
<1> QED
  BY <1>1, <1>4, <1>5, <1>6 DEF Fits

\* The last row of an append or edit is not before the first one.
LEMMA AppendFits ==
  ASSUME Fits, NEW bytes \in Appends, AppendBytes(bytes) PROVE Fits'
<1> DEFINE total == handler.total + Len(bytes)
           width == RowBytes(handler.dims)
           first == handler.total \div width
           final == CeilDiv(total, width)
<1>1. /\ Attached
      /\ raw' = raw \o bytes
      /\ handler' = [handler EXCEPT !.total = total, !.rows = final]
      /\ op' = [Idle EXCEPT !.call = "append", !.row = first, !.last = final,
                  !.pc = IF MustGrow(handler, final) THEN "grow" ELSE StepOfRows(first, final)]
      /\ UNCHANGED <<metadata, torn>>
  BY DEF AppendBytes
<1>2. /\ op.pc = "idle" /\ op.call = "none"
      /\ raw \in Content /\ Len(raw) \in Nat
      /\ HandlerTypes(handler)
      /\ handler.total <= Len(raw)
      /\ FitsIn(handler, handler.capacity)
      /\ width \in Nat \ {0}
  BY <1>1, AttachedFits
<1>3. bytes \in Content /\ Len(bytes) \in Nat
  BY ContentsAssumption DEF Content
<1>4. raw' \in Content /\ Len(raw') = Len(raw) + Len(bytes)
  BY <1>1, <1>2, <1>3 DEF Content
<1>5. handler.total \in Nat /\ total \in Nat /\ handler.capacity \in Nat /\ handler.total <= total
  BY <1>2, <1>3 DEF HandlerTypes
<1>6. /\ final \in Nat /\ total <= final * width
      /\ first \in Nat /\ first <= final
  BY <1>2, <1>5, RowsHold, RowIsInside
<1> HIDE DEF final, first, width
<1>7. /\ HandlerTypes(handler')
      /\ handler'.total = total /\ handler'.rows = final
      /\ handler'.capacity = handler.capacity /\ handler'.readerRows = handler.readerRows
      /\ handler'.dims = handler.dims
  BY <1>1, <1>2, <1>5, <1>6 DEF HandlerTypes
<1>8. handler'.total <= Len(raw')
  BY <1>2, <1>3, <1>4, <1>5, <1>7
<1>9. /\ op' \in [call : Calls, pc : Pcs, row : Nat, last : Nat, col : Nat,
                 dims : Shapes \union {None}]
      /\ op'.call = "append" /\ op'.row = first /\ op'.last = final
      /\ op'.pc = IF MustGrow(handler, final) THEN "grow" ELSE StepOfRows(first, final)
  BY <1>1, <1>6 DEF Idle, Calls, Pcs, Converting, StepOfRows
<1>10. /\ op'.pc \in {"grow", "rows", "recalculate"}
       /\ op'.pc = "rows" => first < final
  BY <1>9 DEF StepOfRows
<1>11. OpFits'
  BY <1>6, <1>9, <1>10 DEF OpFits, Converting
<1>12. MetadataFits'
  <2>1. metadata' = metadata /\ op'.pc \notin {"create_tree", "write_tree", "stamp"}
    BY <1>1, <1>10
  <2>2. CASE metadata \in {None, Truncated}
    BY <2>1, <2>2 DEF MetadataFits
  <2>3. CASE metadata \notin {None, Truncated}
    <3>1. FittingMetadata(metadata) /\ (raw # None => metadata.bytes <= Len(raw))
      BY <2>3 DEF Fits, MetadataFits
    <3>2. metadata.bytes \in Nat
      BY <3>1 DEF FittingMetadata
    <3>3. raw # None
      BY <1>2, NoneAssumption
    <3> QED
      BY <1>2, <1>3, <1>4, <2>1, <3>1, <3>2, <3>3 DEF MetadataFits
  <2> QED
    BY <2>2, <2>3
<1>13. HandlerFits'
  <2>1. CASE MustGrow(handler, final)
    <3>1. op'.pc = "grow" /\ handler.capacity < final
      BY <1>5, <1>6, <1>9, <2>1 DEF MustGrow
    <3>2. FitsIn(handler', final)
      BY <1>2, <1>5, <1>6, <1>7, <3>1 DEF FitsIn, HandlerTypes, width
    <3> QED
      BY <1>4, <1>7, <1>8, <1>9, <3>1, <3>2 DEF HandlerFits, Converting
  <2>2. CASE ~MustGrow(handler, final)
    <3>1. op'.pc \in {"rows", "recalculate"} /\ final <= handler.capacity
      BY <1>5, <1>6, <1>9, <2>2 DEF MustGrow, StepOfRows
    <3>2. final * width <= handler.capacity * width
      BY <1>2, <1>5, <1>6, <3>1, MultiplesGrow
    <3>3. final * width \in Nat /\ handler.capacity * width \in Nat
      BY <1>2, <1>5, <1>6
    <3>4. total <= handler.capacity * width
      BY <1>5, <1>6, <3>2, <3>3
    <3>5. FitsIn(handler', handler'.capacity)
      BY <1>2, <1>5, <1>6, <1>7, <3>1, <3>4 DEF FitsIn, HandlerTypes, width
    <3> QED
      BY <1>4, <1>7, <1>8, <1>9, <3>1, <3>5 DEF HandlerFits, Converting
  <2> QED
    BY <2>1, <2>2
<1> QED
  BY <1>1, <1>4, <1>11, <1>12, <1>13 DEF Fits

LEMMA EditFits ==
  ASSUME Fits, NEW start \in 0..MaxLength, NEW patch \in Patches, EditBytes(start, patch)
  PROVE  Fits'
<1> DEFINE width == RowBytes(handler.dims)
           first == start \div width
           final == CeilDiv(start + Len(patch), width)
<1>1. /\ Attached
      /\ start + Len(patch) <= handler.total
      /\ raw' = Splice(raw, start, patch)
      /\ op' = [Idle EXCEPT !.call = "edit", !.row = first, !.last = final,
                            !.pc = StepOfRows(first, final)]
      /\ UNCHANGED <<metadata, handler, torn>>
  BY DEF EditBytes
<1>2. /\ op.pc = "idle" /\ op.call = "none"
      /\ raw \in Content /\ Len(raw) \in Nat
      /\ HandlerTypes(handler)
      /\ handler.total <= Len(raw)
      /\ FitsIn(handler, handler.capacity)
      /\ width \in Nat \ {0}
  BY <1>1, AttachedFits
<1>3. patch \in Content /\ Len(patch) \in Nat /\ start \in Nat
  BY ContentsAssumption, LengthAssumption DEF Content
<1>4. raw' \in Content /\ Len(raw') = Len(raw)
  BY <1>1, <1>2, <1>3, SpliceKeepsLength
<1>5. /\ handler.total \in Nat /\ handler.capacity \in Nat
      /\ start + Len(patch) \in Nat /\ start <= start + Len(patch)
  BY <1>2, <1>3 DEF HandlerTypes
<1>6. /\ final \in Nat /\ \A k \in Nat : start + Len(patch) <= k * width => final <= k
      /\ first \in Nat /\ first <= final
  BY <1>2, <1>3, <1>5, RowsHold, RowIsInside
<1>7. final <= handler.capacity
  <2>1. handler.capacity * width \in Nat /\ handler.total <= handler.capacity * width
    BY <1>2, <1>5 DEF FitsIn
  <2>2. start + Len(patch) <= handler.capacity * width
    BY <1>1, <1>5, <2>1
  <2> QED
    BY <1>5, <1>6, <2>2
<1> HIDE DEF final, first, width
<1>8. /\ op' \in [call : Calls, pc : Pcs, row : Nat, last : Nat, col : Nat,
                 dims : Shapes \union {None}]
      /\ op'.call = "edit" /\ op'.row = first /\ op'.last = final
      /\ op'.pc = StepOfRows(first, final)
  BY <1>1, <1>6 DEF Idle, Calls, Pcs, Converting, StepOfRows
<1>9. /\ op'.pc \in {"rows", "recalculate"}
      /\ op'.pc = "rows" => first < final
  BY <1>8 DEF StepOfRows
<1>10. OpFits'
  BY <1>6, <1>8, <1>9 DEF OpFits, Converting
<1>11. MetadataFits'
  <2>1. metadata' = metadata /\ op'.pc \notin {"create_tree", "write_tree", "stamp"}
    BY <1>1, <1>9
  <2>2. raw # None
    BY <1>2, NoneAssumption
  <2> QED
    BY <1>4, <2>1, <2>2 DEF Fits, MetadataFits
<1>12. HandlerFits'
  BY <1>1, <1>2, <1>4, <1>7, <1>8, <1>9 DEF HandlerFits, Converting
<1> QED
  BY <1>1, <1>4, <1>10, <1>11, <1>12 DEF Fits

-----------------------------------------------------------------------------
(* The steps of a conversion.                                              *)

\* A call goes on, and nothing changes but the counter.
LEMMA StepsOn ==
  ASSUME Fits, NEW pc, op' = [op EXCEPT !.pc = pc], pc \in Pcs
  PROVE  /\ op' \in [call : Calls, pc : Pcs, row : Nat, last : Nat, col : Nat,
                    dims : Shapes \union {None}]
         /\ op'.call = op.call /\ op'.pc = pc /\ op'.row = op.row /\ op'.last = op.last
         /\ op'.dims = op.dims
         /\ op'.row <= op'.last
  BY DEF Fits, OpFits

LEMMA TruncateEncodedFits ==
  ASSUME Fits, TruncateEncoded PROVE Fits'
<1>1. /\ op.pc = "truncate" /\ op' = [op EXCEPT !.pc = "encode"]
      /\ UNCHANGED <<raw, metadata, handler, torn>>
  BY DEF TruncateEncoded
<1>2. "encode" \in Pcs
  BY DEF Pcs, Converting
<1>3. OpFits'
  BY <1>1, <1>2, StepsOn DEF Fits, OpFits, Converting
<1>4. op'.pc = "encode" /\ op'.call = op.call
  BY <1>1, <1>2, StepsOn
<1>5. MetadataFits'
  BY <1>1, <1>4 DEF Fits, MetadataFits
<1>6. HandlerFits'
  BY <1>1, <1>4 DEF Fits, HandlerFits, Calling, Converting
<1> QED
  BY <1>1, <1>3, <1>5, <1>6 DEF Fits

LEMMA EncodeFileFits ==
  ASSUME Fits, EncodeFile PROVE Fits'
<1>1. op.pc = "encode" /\ UNCHANGED <<raw, metadata>>
  BY DEF EncodeFile
<1>2. CASE op' = Idle /\ handler' = None /\ torn' = TRUE
  <2>1. /\ op' \in [call : Calls, pc : Pcs, row : Nat, last : Nat, col : Nat,
                   dims : Shapes \union {None}]
        /\ op'.call = "none" /\ op'.pc = "idle" /\ op'.row = 0 /\ op'.last = 0
    BY <1>2 DEF Idle, Calls, Pcs
  <2>2. OpFits'
    BY <2>1 DEF OpFits, Converting
  <2>3. MetadataFits'
    BY <1>1, <2>1 DEF Fits, MetadataFits
  <2>4. HandlerFits'
    BY <1>2, <2>1 DEF HandlerFits, Calling
  <2> QED
    BY <1>1, <1>2, <2>2, <2>3, <2>4 DEF Fits
<1>3. CASE ~(op' = Idle /\ handler' = None /\ torn' = TRUE)
  <2> DEFINE pc == IF op.call = "reencode" THEN "tree" ELSE "create_metadata"
  <2>1. op' = [op EXCEPT !.pc = pc] /\ UNCHANGED <<handler, torn>>
    BY <1>3 DEF EncodeFile
  <2>2. pc \in Pcs
    BY DEF Pcs, Converting
  <2>3. OpFits'
    BY <1>1, <2>1, <2>2, StepsOn DEF Fits, OpFits, Converting
  <2>4. op'.pc \in {"tree", "create_metadata"} /\ op'.call = op.call
    BY <2>1, <2>2, StepsOn
  <2>5. MetadataFits'
    BY <1>1, <2>4 DEF Fits, MetadataFits
  <2>6. HandlerFits'
    BY <1>1, <2>1, <2>4 DEF Fits, HandlerFits, Calling, Converting
  <2> QED
    BY <1>1, <2>1, <2>3, <2>5, <2>6 DEF Fits
<1> QED
  BY <1>2, <1>3

LEMMA CreateMetadataFits ==
  ASSUME Fits, CreateMetadata PROVE Fits'
<1>1. /\ op.pc = "create_metadata" /\ op' = [op EXCEPT !.pc = "write_metadata"]
      /\ metadata' = Truncated
      /\ UNCHANGED <<raw, handler, torn>>
  BY DEF CreateMetadata
<1>2. "write_metadata" \in Pcs
  BY DEF Pcs, Converting
<1>3. OpFits'
  BY <1>1, <1>2, StepsOn DEF Fits, OpFits, Converting
<1>4. op'.pc = "write_metadata" /\ op'.call = op.call
  BY <1>1, <1>2, StepsOn
<1>5. MetadataFits'
  BY <1>1, <1>4 DEF MetadataFits
<1>6. HandlerFits'
  BY <1>1, <1>4 DEF Fits, HandlerFits, Calling, Converting
<1> QED
  BY <1>1, <1>3, <1>5, <1>6 DEF Fits

LEMMA WriteNewMetadataFits ==
  ASSUME Fits, WriteNewMetadata PROVE Fits'
<1>1. /\ op.pc = "write_metadata" /\ op' = [op EXCEPT !.pc = "create_tree"]
      /\ metadata' = WriterMetadata(op.dims)
      /\ UNCHANGED <<raw, handler, torn>>
  BY DEF WriteNewMetadata
<1>2. "create_tree" \in Pcs
  BY DEF Pcs, Converting
<1>3. OpFits'
  BY <1>1, <1>2, StepsOn DEF Fits, OpFits, Converting
<1>4. op'.pc = "create_tree" /\ op'.call = op.call
  BY <1>1, <1>2, StepsOn
<1>5. MetadataFits'
  <2>1. op.dims \in Shapes /\ raw \in Content
    BY <1>1 DEF Fits, OpFits, Converting
  <2>2. FittingMetadata(metadata') /\ metadata'.bytes = Len(raw) /\ Len(raw) \in Nat
    BY <1>1, <2>1, WriterMetadataFits DEF Content
  <2> QED
    BY <1>1, <2>2 DEF MetadataFits
<1>6. HandlerFits'
  BY <1>1, <1>4 DEF Fits, HandlerFits, Calling, Converting
<1> QED
  BY <1>1, <1>3, <1>5, <1>6 DEF Fits

LEMMA CreateTreeFits ==
  ASSUME Fits, CreateTree PROVE Fits'
<1>1. /\ op.pc = "create_tree" /\ op' = [op EXCEPT !.pc = "write_tree"]
      /\ UNCHANGED <<raw, metadata, handler, torn>>
  BY DEF CreateTree
<1>2. "write_tree" \in Pcs
  BY DEF Pcs, Converting
<1>3. OpFits'
  BY <1>1, <1>2, StepsOn DEF Fits, OpFits, Converting
<1>4. op'.pc = "write_tree" /\ op'.call = op.call
  BY <1>1, <1>2, StepsOn
<1>5. MetadataFits'
  BY <1>1, <1>4 DEF Fits, MetadataFits
<1>6. HandlerFits'
  BY <1>1, <1>4 DEF Fits, HandlerFits, Calling, Converting
<1> QED
  BY <1>1, <1>3, <1>5, <1>6 DEF Fits

\* A call ends: what is to be shown then.
LEMMA CallEnds ==
  ASSUME Fits, op' = Idle,
         UNCHANGED raw, torn' \in BOOLEAN,
         metadata' \in {None, Truncated} \/ FittingMetadata(metadata'),
         metadata' \notin {None, Truncated} /\ raw # None => metadata'.bytes <= Len(raw),
         handler' # None =>
           /\ raw \in Content
           /\ HandlerTypes(handler') /\ handler'.total <= Len(raw)
           /\ FitsIn(handler', handler'.capacity)
  PROVE  Fits'
<1>1. /\ op' \in [call : Calls, pc : Pcs, row : Nat, last : Nat, col : Nat,
                 dims : Shapes \union {None}]
      /\ op'.call = "none" /\ op'.pc = "idle" /\ op'.row = 0 /\ op'.last = 0
  BY DEF Idle, Calls, Pcs
<1>2. OpFits'
  BY <1>1 DEF OpFits, Converting
<1>3. MetadataFits'
  BY <1>1 DEF MetadataFits
<1>4. HandlerFits'
  BY <1>1 DEF HandlerFits, Calling
<1> QED
  BY <1>2, <1>3, <1>4 DEF Fits

LEMMA WriteNewTreeFits ==
  ASSUME Fits, WriteNewTree PROVE Fits'
<1>1. op.pc = "write_tree" /\ UNCHANGED <<raw, metadata, torn>>
  BY DEF WriteNewTree
<1>2. /\ op.call \in {"create", "reshape"} /\ op.dims \in Shapes /\ raw \in Content
      /\ FittingMetadata(metadata) /\ (raw # None => metadata.bytes <= Len(raw))
  BY <1>1 DEF Fits, OpFits, MetadataFits, Converting
<1>3. CASE op.call = "create"
  <2>1. op' = [op EXCEPT !.pc = "stamp"] /\ UNCHANGED handler
    BY <1>3 DEF WriteNewTree
  <2>2. "stamp" \in Pcs
    BY DEF Pcs
  <2>3. OpFits'
    BY <1>1, <1>2, <1>3, <2>1, <2>2, StepsOn DEF Fits, OpFits, Converting
  <2>4. op'.pc = "stamp" /\ op'.call = op.call
    BY <2>1, <2>2, StepsOn
  <2>5. MetadataFits'
    BY <1>1, <2>4 DEF Fits, MetadataFits
  <2>6. HandlerFits'
    BY <1>1, <1>3, <2>1, <2>4 DEF Fits, HandlerFits, Calling
  <2> QED
    BY <1>1, <2>1, <2>3, <2>5, <2>6 DEF Fits
<1>4. CASE op.call = "reshape"
  <2> DEFINE made == Handler(WriterMetadata(op.dims), tree')
  <2>1. op' = Idle /\ handler' = [made EXCEPT !.total = handler.total]
    BY <1>4 DEF WriteNewTree
  <2>2. HandlerTypes(handler) /\ handler.total <= Len(raw)
    BY <1>4 DEF Fits, HandlerFits, Calling
  <2>3. /\ FittingMetadata(WriterMetadata(op.dims))
        /\ WriterMetadata(op.dims).bytes = Len(raw)
    BY <1>2, WriterMetadataFits
  <2>4. /\ HandlerTypes(made) /\ made.total = Len(raw) /\ FitsIn(made, made.capacity)
    BY <2>3, NewHandlerFits
  <2> HIDE DEF made
  <2>5. /\ Len(raw) \in Nat /\ handler.total \in Nat
        /\ made.capacity \in Nat /\ RowBytes(made.dims) \in Nat
        /\ made.capacity * RowBytes(made.dims) \in Nat
    <3>1. made.dims \in Shapes /\ made.capacity \in Nat
      BY <2>4 DEF HandlerTypes
    <3>2. RowBytes(made.dims) \in Nat \ {0}
      BY <1>2, <3>1, RowsBegin
    <3> QED
      BY <1>2, <2>2, <3>1, <3>2 DEF HandlerTypes, Content
  <2>6. /\ HandlerTypes(handler')
        /\ handler'.total = handler.total /\ handler'.rows = made.rows
        /\ handler'.capacity = made.capacity /\ handler'.readerRows = made.readerRows
        /\ handler'.dims = made.dims
    BY <2>1, <2>4, <2>5 DEF HandlerTypes
  <2>7. FitsIn(handler', handler'.capacity)
    BY <2>2, <2>4, <2>5, <2>6 DEF FitsIn
  <2>8. torn' \in BOOLEAN
    BY <1>1 DEF Fits
  <2> QED
    BY <1>1, <1>2, <2>1, <2>2, <2>6, <2>7, <2>8, CallEnds
<1> QED
  BY <1>2, <1>3, <1>4

LEMMA StampUlidFits ==
  ASSUME Fits, StampUlid PROVE Fits'
<1>1. /\ op.pc = "stamp" /\ op' = Idle /\ torn' = FALSE /\ UNCHANGED raw
      /\ metadata' = [metadata EXCEPT !.ulid = "own"]
      /\ handler' = Handler(metadata', tree)
  BY DEF StampUlid
<1>2. /\ FittingMetadata(metadata) /\ (raw # None => metadata.bytes <= Len(raw))
      /\ raw \in Content
  BY <1>1 DEF Fits, OpFits, MetadataFits
<1>3. FittingMetadata(metadata') /\ metadata'.bytes = metadata.bytes
  BY <1>1, <1>2 DEF FittingMetadata
<1>4. /\ HandlerTypes(handler') /\ handler'.total = metadata'.bytes
      /\ FitsIn(handler', handler'.capacity)
  BY <1>1, <1>3, NewHandlerFits
<1> QED
  BY <1>1, <1>2, <1>3, <1>4, NoneAssumption, CallEnds

-----------------------------------------------------------------------------
(* The steps of an append, an edit and a reencode.                         *)

\* What is known of the handler while a call of it is under way.
LEMMA CallingFits ==
  ASSUME Fits, Calling
  PROVE  /\ raw \in Content /\ Len(raw) \in Nat
         /\ HandlerTypes(handler)
         /\ handler.dims \in Shapes
         /\ handler.rows \in Nat /\ handler.capacity \in Nat /\ handler.total \in Nat
         /\ handler.readerRows \in Nat
         /\ handler.readerCapacity = handler.capacity
         /\ handler.total <= Len(raw)
         /\ RowBytes(handler.dims) \in Nat \ {0}
<1>1. raw \in Content /\ HandlerTypes(handler) /\ handler.total <= Len(raw)
  BY DEF Fits, HandlerFits
<1>2. Len(raw) \in Nat
  BY <1>1 DEF Content
<1>3. handler.dims \in Shapes
  BY <1>1 DEF HandlerTypes
<1>4. RowBytes(handler.dims) \in Nat \ {0}
  BY <1>1, <1>3, RowsBegin
<1> QED
  BY <1>1, <1>2, <1>3, <1>4 DEF HandlerTypes

\* Metadata that a step leaves alone still fit.
LEMMA MetadataStillFits ==
  ASSUME Fits, UNCHANGED <<raw, metadata>>, op'.pc \notin {"create_tree", "write_tree", "stamp"}
  PROVE  MetadataFits'
  BY DEF Fits, MetadataFits

LEMMA GrowFileFits ==
  ASSUME Fits, GrowFile PROVE Fits'
<1>1. /\ op.pc = "grow" /\ UNCHANGED <<raw, metadata, handler, torn>>
      /\ op' = [op EXCEPT !.pc = "move", !.col = handler.dims.enc]
  BY DEF GrowFile
<1>2. op.call = "append" /\ Calling
  BY <1>1 DEF Fits, OpFits, Calling
<1>3. handler.dims.enc \in Nat
  BY <1>2, CallingFits, ShapesAssumption
<1>4. /\ op' \in [call : Calls, pc : Pcs, row : Nat, last : Nat, col : Nat,
                 dims : Shapes \union {None}]
      /\ op'.call = "append" /\ op'.pc = "move" /\ op'.row = op.row /\ op'.last = op.last
      /\ op.row <= op.last
  BY <1>1, <1>2, <1>3 DEF Fits, OpFits, Pcs
<1>5. OpFits'
  BY <1>4 DEF OpFits, Converting
<1>6. MetadataFits'
  BY <1>1, <1>4, MetadataStillFits
<1>7. HandlerFits'
  BY <1>1, <1>2, <1>4 DEF Fits, HandlerFits, Converting
<1> QED
  BY <1>1, <1>5, <1>6, <1>7 DEF Fits

LEMMA MoveOneColumnFits ==
  ASSUME Fits, MoveOneColumn PROVE Fits'
<1>1. op.pc = "move" /\ UNCHANGED <<raw, metadata, torn>>
  BY DEF MoveOneColumn
<1>2. op.call = "append" /\ Calling
  BY <1>1 DEF Fits, OpFits, Calling
<1>3. /\ op \in [call : Calls, pc : Pcs, row : Nat, last : Nat, col : Nat,
                dims : Shapes \union {None}]
      /\ op.row <= op.last
  BY DEF Fits, OpFits
<1>4. FitsIn(handler, op.last)
  BY <1>1, <1>2 DEF Fits, HandlerFits
<1>5. CASE op.col > 1
  <2>1. op' = [op EXCEPT !.col = @ - 1] /\ UNCHANGED handler
    BY <1>5 DEF MoveOneColumn
  <2>2. /\ op' \in [call : Calls, pc : Pcs, row : Nat, last : Nat, col : Nat,
                   dims : Shapes \union {None}]
        /\ op'.call = "append" /\ op'.pc = "move" /\ op'.row = op.row /\ op'.last = op.last
    BY <1>1, <1>2, <1>3, <1>5, <2>1
  <2>3. OpFits'
    BY <1>3, <2>2 DEF OpFits, Converting
  <2>4. MetadataFits'
    BY <1>1, <2>2, MetadataStillFits
  <2>5. HandlerFits'
    BY <1>1, <1>2, <2>1, <2>2 DEF Fits, HandlerFits, Converting
  <2> QED
    BY <1>1, <2>3, <2>4, <2>5 DEF Fits
<1>6. CASE ~(op.col > 1)
  <2> DEFINE capacity == NewCapacity(handler, op.last)
  <2>1. /\ op' = [op EXCEPT !.col = 0, !.pc = StepOfRows(op.row, op.last)]
        /\ handler' = [handler EXCEPT !.capacity = capacity, !.readerCapacity = capacity]
    BY <1>6 DEF MoveOneColumn
  <2>2. /\ op' \in [call : Calls, pc : Pcs, row : Nat, last : Nat, col : Nat,
                   dims : Shapes \union {None}]
        /\ op'.call = "append" /\ op'.pc \in {"rows", "recalculate"}
        /\ op'.pc = "rows" => op.row < op.last
        /\ op'.row = op.row /\ op'.last = op.last
    BY <1>2, <1>3, <2>1 DEF StepOfRows, Pcs
  <2>3. OpFits'
    BY <1>3, <2>2 DEF OpFits, Converting
  <2>4. MetadataFits'
    BY <1>1, <2>2, MetadataStillFits
  <2>5. capacity \in Nat /\ op.last \in Nat /\ op.last <= capacity
    BY <1>3 DEF NewCapacity
  <2> HIDE DEF capacity
  <2>6. /\ HandlerTypes(handler')
        /\ handler'.total = handler.total /\ handler'.rows = handler.rows
        /\ handler'.capacity = capacity /\ handler'.readerRows = handler.readerRows
        /\ handler'.dims = handler.dims
    BY <1>2, <2>1, <2>5, CallingFits DEF HandlerTypes
  <2>7. FitsIn(handler', capacity)
    <3> DEFINE width == RowBytes(handler.dims)
    <3>1. /\ width \in Nat /\ handler.total \in Nat /\ handler.rows \in Nat
          /\ handler.readerRows \in Nat
      BY <1>2, CallingFits
    <3>2. /\ handler.total <= op.last * width
          /\ handler.rows <= op.last /\ handler.readerRows <= op.last
      BY <1>4 DEF FitsIn
    <3> HIDE DEF width
    <3>3. op.last * width <= capacity * width
      BY <2>5, <3>1, MultiplesGrow
    <3>4. op.last * width \in Nat /\ capacity * width \in Nat
      BY <2>5, <3>1
    <3>5. handler.total <= capacity * width
      BY <3>1, <3>2, <3>3, <3>4
    <3> QED
      BY <2>5, <2>6, <3>1, <3>2, <3>5 DEF FitsIn, width
  <2>8. raw' \in Content /\ handler'.total <= Len(raw')
    BY <1>1, <1>2, <2>6, CallingFits
  <2>9. HandlerFits'
    BY <2>2, <2>5, <2>6, <2>7, <2>8 DEF HandlerFits, Converting
  <2> QED
    BY <1>1, <2>3, <2>4, <2>8, <2>9 DEF Fits
<1> QED
  BY <1>5, <1>6

\* A call returns, with what it knew.
LEMMA ReturnFits ==
  ASSUME Fits, op' = Idle, UNCHANGED <<raw, metadata, handler, torn>>,
         op.pc \notin Converting \union {"grow", "move"}
  PROVE  Fits'
<1>1. torn' \in BOOLEAN
  BY DEF Fits
<1>2. /\ metadata \in {None, Truncated} \/ FittingMetadata(metadata)
      /\ metadata \notin {None, Truncated} /\ raw # None => metadata.bytes <= Len(raw)
  BY DEF Fits, MetadataFits
<1>3. handler # None =>
        /\ raw \in Content
        /\ HandlerTypes(handler) /\ handler.total <= Len(raw)
        /\ FitsIn(handler, handler.capacity)
  BY DEF Fits, HandlerFits
<1> QED
  BY <1>1, <1>2, <1>3, CallEnds

LEMMA ReencodeRowFits ==
  ASSUME Fits, ReencodeRow PROVE Fits'
<1>1. op.pc = "rows" /\ UNCHANGED <<raw, metadata, torn>>
  BY DEF ReencodeRow
<1>2. op.call \in {"append", "edit"} /\ op.row < op.last /\ Calling
  BY <1>1 DEF Fits, OpFits, Calling
<1>3. CASE op.row > handler.readerRows
  <2>1. op' = Idle /\ UNCHANGED handler
    BY <1>3 DEF ReencodeRow
  <2> QED
    BY <1>1, <2>1, ReturnFits DEF Converting
<1>4. CASE ~(op.row > handler.readerRows)
  <2>1. /\ op' = [op EXCEPT !.row = @ + 1, !.pc = StepOfRows(op.row + 1, op.last)]
        /\ handler' = [handler EXCEPT !.readerRows = RowsAfter(@, op.row)]
    BY <1>4 DEF ReencodeRow
  <2>2. /\ op \in [call : Calls, pc : Pcs, row : Nat, last : Nat, col : Nat,
                  dims : Shapes \union {None}]
        /\ op.row \in Nat /\ op.last \in Nat
    BY DEF Fits, OpFits
  <2> DEFINE pc == StepOfRows(op.row + 1, op.last)
  <2>0. /\ pc \in Pcs /\ pc \in {"rows", "recalculate"}
        /\ pc = "rows" => op.row + 1 < op.last
    BY DEF StepOfRows, Pcs
  <2> HIDE DEF pc
  <2>3. /\ op' \in [call : Calls, pc : Pcs, row : Nat, last : Nat, col : Nat,
                   dims : Shapes \union {None}]
        /\ op'.call = op.call /\ op'.pc \in {"rows", "recalculate"}
        /\ op'.row = op.row + 1 /\ op'.last = op.last
        /\ op'.pc = "rows" => op.row + 1 < op.last
    <3> DEFINE next == [op EXCEPT !.row = op.row + 1]
    <3>1. op' = [next EXCEPT !.pc = pc]
      BY <2>1 DEF pc
    <3>2. /\ next \in [call : Calls, pc : Pcs, row : Nat, last : Nat, col : Nat,
                      dims : Shapes \union {None}]
          /\ next.call = op.call /\ next.row = op.row + 1 /\ next.last = op.last
      BY <2>2
    <3> HIDE DEF next
    <3>3. /\ op' \in [call : Calls, pc : Pcs, row : Nat, last : Nat, col : Nat,
                     dims : Shapes \union {None}]
          /\ op'.call = next.call /\ op'.pc = pc /\ op'.row = next.row /\ op'.last = next.last
      BY <2>0, <3>1, <3>2
    <3> QED
      BY <2>0, <3>2, <3>3
  <2>4. OpFits'
    BY <1>2, <2>2, <2>3 DEF OpFits, Converting
  <2>5. MetadataFits'
    BY <1>1, <2>3, MetadataStillFits
  <2>6. FitsIn(handler, handler.capacity) /\ op.last <= handler.capacity
    BY <1>1, <1>2 DEF Fits, HandlerFits, Converting
  <2>7. /\ RowsAfter(handler.readerRows, op.row) \in Nat
        /\ RowsAfter(handler.readerRows, op.row) <= handler.capacity
    BY <1>2, <2>2, <2>6, CallingFits DEF RowsAfter, FitsIn
  <2>8. /\ HandlerTypes(handler')
        /\ handler'.total = handler.total /\ handler'.rows = handler.rows
        /\ handler'.capacity = handler.capacity
        /\ handler'.readerRows = RowsAfter(handler.readerRows, op.row)
        /\ handler'.dims = handler.dims
    BY <1>2, <2>1, <2>7, CallingFits DEF HandlerTypes
  <2>9. FitsIn(handler', handler'.capacity)
    BY <2>6, <2>7, <2>8 DEF FitsIn
  <2>10. raw' \in Content /\ handler'.total <= Len(raw')
    BY <1>1, <1>2, <2>8, CallingFits
  <2>11. HandlerFits'
    BY <1>2, <2>3, <2>6, <2>8, <2>9, <2>10 DEF HandlerFits, Converting
  <2> QED
    BY <1>1, <2>4, <2>5, <2>10, <2>11 DEF Fits
<1> QED
  BY <1>3, <1>4

LEMMA RecalculateMerkleTreeFits ==
  ASSUME Fits, RecalculateMerkleTree PROVE Fits'
<1>1. op.pc = "recalculate" /\ UNCHANGED <<raw, metadata, torn>>
  BY DEF RecalculateMerkleTree
<1>2. op.call \in {"append", "edit"} /\ Calling
  BY <1>1 DEF Fits, OpFits, Calling
<1>3. CASE ~FileReadable
  <2>1. op' = Idle /\ UNCHANGED handler
    BY <1>3 DEF RecalculateMerkleTree
  <2> QED
    BY <1>1, <2>1, ReturnFits DEF Converting
<1>4. CASE FileReadable
  <2>1. /\ handler' = [handler EXCEPT !.tree = tree']
        /\ op' = IF op.call = "append" THEN [op EXCEPT !.pc = "metadata"] ELSE Idle
    BY <1>4 DEF RecalculateMerkleTree
  <2>2. /\ HandlerTypes(handler')
        /\ handler'.total = handler.total /\ handler'.rows = handler.rows
        /\ handler'.capacity = handler.capacity /\ handler'.readerRows = handler.readerRows
        /\ handler'.dims = handler.dims
    BY <1>2, <2>1, CallingFits DEF HandlerTypes
  <2>3. FitsIn(handler', handler'.capacity)
    <3>1. FitsIn(handler, handler.capacity)
      BY <1>1, <1>2 DEF Fits, HandlerFits, Converting
    <3> QED
      BY <2>2, <3>1 DEF FitsIn
  <2>4. raw \in Content /\ handler'.total <= Len(raw)
    BY <1>2, <2>2, CallingFits
  <2>5. CASE op.call = "append"
    <3>1. op' = [op EXCEPT !.pc = "metadata"] /\ "metadata" \in Pcs
      BY <2>1, <2>5 DEF Pcs
    <3>2. OpFits'
      BY <1>1, <2>5, <3>1, StepsOn DEF Fits, OpFits, Converting
    <3>3. op'.pc = "metadata" /\ op'.call = op.call
      BY <3>1, StepsOn
    <3>4. MetadataFits'
      BY <1>1, <3>3, MetadataStillFits
    <3>5. HandlerFits'
      BY <1>1, <2>2, <2>3, <2>4, <2>5, <3>3 DEF HandlerFits, Converting
    <3> QED
      BY <1>1, <2>4, <3>2, <3>4, <3>5 DEF Fits
  <2>6. CASE op.call # "append"
    <3>1. op' = Idle
      BY <2>1, <2>6
    <3>2. torn' \in BOOLEAN
      BY <1>1 DEF Fits
    <3>3. /\ metadata' \in {None, Truncated} \/ FittingMetadata(metadata')
          /\ metadata' \notin {None, Truncated} /\ raw # None => metadata'.bytes <= Len(raw)
      BY <1>1 DEF Fits, MetadataFits
    <3> QED
      BY <1>1, <2>2, <2>3, <2>4, <3>1, <3>2, <3>3, CallEnds
  <2> QED
    BY <2>5, <2>6
<1> QED
  BY <1>3, <1>4

LEMMA WriteMetadataFits ==
  ASSUME Fits, WriteMetadata PROVE Fits'
<1>1. /\ op.pc = "metadata" /\ op' = Idle /\ UNCHANGED <<raw, handler>>
      /\ metadata' = OwnMetadata(handler)
  BY DEF WriteMetadata
<1>2. Calling
  BY <1>1 DEF Fits, OpFits, Calling
<1>3. FitsIn(handler, handler.capacity)
  BY <1>1, <1>2 DEF Fits, HandlerFits, Converting
<1>4. FittingMetadata(metadata') /\ metadata'.bytes = handler.total
  BY <1>1, <1>2, <1>3, CallingFits DEF OwnMetadata, Metadata, FittingMetadata, FitsIn
<1>5. torn' \in BOOLEAN
  <2>1. torn' \in {torn, FlushedRows(raw, op.dims) # RowCount(raw, op.dims)}
    BY DEF WriteMetadata
  <2> QED
    BY <2>1 DEF Fits
<1> QED
  BY <1>1, <1>2, <1>3, <1>4, <1>5, CallingFits, CallEnds

LEMMA WriteTreeFits ==
  ASSUME Fits, WriteTree PROVE Fits'
<1>1. /\ op.pc = "tree" /\ op' = [op EXCEPT !.pc = "metadata"] /\ "metadata" \in Pcs
      /\ UNCHANGED <<raw, metadata, torn>>
      /\ handler' = Handler(WriterMetadata(op.dims), tree')
  BY DEF WriteTree, Pcs
<1>2. op.call = "reencode" /\ op.dims \in Shapes /\ raw \in Content
  BY <1>1 DEF Fits, OpFits, Converting
<1>3. /\ FittingMetadata(WriterMetadata(op.dims))
      /\ WriterMetadata(op.dims).bytes = Len(raw)
  BY <1>2, WriterMetadataFits
<1>4. /\ HandlerTypes(handler') /\ handler'.total = Len(raw)
      /\ FitsIn(handler', handler'.capacity)
  BY <1>1, <1>3, NewHandlerFits
<1>5. OpFits'
  BY <1>1, <1>2, StepsOn DEF Fits, OpFits, Converting
<1>6. op'.pc = "metadata" /\ op'.call = op.call
  BY <1>1, StepsOn
<1>7. MetadataFits'
  BY <1>1, <1>6, MetadataStillFits
<1>8. HandlerFits'
  <2>1. Len(raw) \in Nat
    BY <1>2 DEF Content
  <2> QED
    BY <1>1, <1>2, <1>4, <1>6, <2>1 DEF HandlerFits, Converting
<1> QED
  BY <1>1, <1>2, <1>5, <1>7, <1>8 DEF Fits

-----------------------------------------------------------------------------
(* A deletion, and a crash.                                                *)

LEMMA RemoveFits ==
  ASSUME Fits, RemoveEncoded \/ RemoveTree \/ RemoveMetadata PROVE Fits'
<1>1. CASE RemoveMetadata
  <2>1. /\ op.pc = "remove_metadata" /\ op' = Idle /\ metadata' = None
        /\ UNCHANGED <<raw, handler, torn>>
    BY <1>1 DEF RemoveMetadata
  <2>2. handler # None =>
          /\ raw \in Content
          /\ HandlerTypes(handler) /\ handler.total <= Len(raw)
          /\ FitsIn(handler, handler.capacity)
    BY <2>1 DEF Fits, HandlerFits, Converting
  <2>3. torn' \in BOOLEAN
    BY <2>1 DEF Fits
  <2> QED
    BY <2>1, <2>2, <2>3, CallEnds
<1>2. CASE RemoveEncoded \/ RemoveTree
  <2> DEFINE pc == IF op.pc = "remove_encoded" THEN "remove_tree" ELSE "remove_metadata"
  <2>1. /\ op.pc \in {"remove_encoded", "remove_tree"}
        /\ op' = [op EXCEPT !.pc = pc] /\ pc \in Pcs
        /\ UNCHANGED <<raw, metadata, handler, torn>>
    BY <1>2 DEF RemoveEncoded, RemoveTree, Pcs
  <2>2. pc \in {"remove_tree", "remove_metadata"}
    OBVIOUS
  <2> HIDE DEF pc
  <2>3. op'.pc = pc /\ op'.call = op.call
    BY <2>1, StepsOn
  <2>4. OpFits'
    BY <2>1, <2>2, StepsOn DEF Fits, OpFits, Converting
  <2>5. MetadataFits'
    BY <2>1, <2>2, <2>3, MetadataStillFits
  <2>6. HandlerFits'
    BY <2>1, <2>2, <2>3 DEF Fits, HandlerFits, Calling, Converting
  <2> QED
    BY <2>1, <2>4, <2>5, <2>6 DEF Fits
<1> QED
  BY <1>1, <1>2

LEMMA CrashFits ==
  ASSUME Fits, Crash PROVE Fits'
<1>1. handler' = None /\ op' = Idle /\ UNCHANGED <<raw, metadata>>
  BY DEF Crash
<1>2. torn' \in BOOLEAN
  BY DEF Crash
<1>3. /\ metadata \in {None, Truncated} \/ FittingMetadata(metadata)
      /\ metadata \notin {None, Truncated} /\ raw # None => metadata.bytes <= Len(raw)
  BY DEF Fits, MetadataFits
<1> QED
  BY <1>1, <1>2, <1>3, CallEnds

-----------------------------------------------------------------------------
(* The inductive invariant, continued: what the files hold.  A conversion  *)
(* builds on nothing that was there before; an append or edit of files in  *)
(* agreement leaves the rows alone that it does not write.                 *)

\* The file has its rows in their places.
HoldsRows(file, cap, data, dims, rows) ==
  /\ Sized(file, cap, dims.enc)
  /\ \A r \in rows : RowAt(file, cap, data, dims, r)

\* A handler in agreement with a file, its encoding and its tree.
Whole(h, data, file, t) ==
  /\ h.total = Len(data)
  /\ h.rows = RowCount(data, h.dims)
  /\ h.readerRows = h.rows
  /\ h.tree = Encoding(data, h.dims)
  /\ t = h.tree
  /\ HoldsRows(file, h.capacity, data, h.dims, 0..h.rows - 1)

\* The metadata are the handler's.
Recorded(m, h) == [m EXCEPT !.ulid = "own"] = OwnMetadata(h)

\* Metadata in agreement with the files: what an attachment starts from.
OnDisk(m, data, file, t) ==
  /\ m.bytes = Len(data)
  /\ m.rows = RowCount(data, m.dims)
  /\ t = Encoding(data, m.dims)
  /\ HoldsRows(file, m.capacity, data, m.dims, 0..m.rows - 1)

AtRest ==
  op = Idle /\ ~torn =>
    /\ handler # None => Whole(handler, raw, encoded, tree) /\ Recorded(metadata, handler)
    /\ Attachable => OnDisk(metadata, raw, encoded, tree)

Encoded ==
  {"create_metadata", "write_metadata", "create_tree", "write_tree", "stamp"}

Converted ==
  /\ op.pc \in Encoded => FlushedRows(raw, op.dims) = RowCount(raw, op.dims)
  /\ op.pc \in Encoded \union {"tree"} => encoded = EncodedFile(raw, op.dims)
  /\ op.pc \in {"create_tree", "write_tree", "stamp"} => metadata = WriterMetadata(op.dims)
  /\ op.pc = "stamp" => op.dims \in Shapes /\ tree = Encoding(raw, op.dims)
  /\ op.call = "reshape" /\ ~torn => handler.total = Len(raw)
  /\ op.call = "reencode" /\ op.pc = "metadata" =>
       /\ op.dims \in Shapes
       /\ encoded = EncodedFile(raw, op.dims)
       /\ tree = Encoding(raw, op.dims)
       /\ handler = Handler(WriterMetadata(op.dims), tree)

\* The rows that a call has not come to yet, and those it leaves alone.
Untouched == {r \in 0..handler.readerRows - 1 : r < op.row \/ op.last <= r}

\* A file whose first columns are still where they were.
PartlyMoved(file, h, o, data) ==
  /\ Sized(file, NewCapacity(h, o.last), h.dims.enc)
  /\ \A r \in 0..o.row - 1, c \in 0..h.dims.enc - 1 :
       /\ c < o.col => file[c * h.capacity + r] = Element(RowOf(data, h.dims, r), c, h.dims.enc)
       /\ o.col <= c =>
            file[c * NewCapacity(h, o.last) + r] = Element(RowOf(data, h.dims, r), c, h.dims.enc)

Changing ==
  op.call \in {"append", "edit"} /\ ~torn =>
    /\ handler.total = Len(raw)
    /\ handler.rows = RowCount(raw, handler.dims)
    /\ op.last <= handler.rows
    /\ op.row <= handler.readerRows /\ handler.readerRows <= handler.rows
    /\ op.call = "append" => op.last = handler.rows
    /\ op.call = "edit" => handler.readerRows = handler.rows /\ Recorded(metadata, handler)
    /\ op.pc \in {"grow", "move"} =>
         handler.capacity < op.last /\ handler.readerRows <= handler.capacity
    /\ op.pc = "grow" => HoldsRows(encoded, handler.capacity, raw, handler.dims, 0..op.row - 1)
    /\ op.pc = "move" => op.col \in 1..handler.dims.enc /\ PartlyMoved(encoded, handler, op, raw)
    /\ op.pc \in {"rows", "recalculate"} =>
         HoldsRows(encoded, handler.capacity, raw, handler.dims, Untouched)
    /\ op.pc = "recalculate" => op.row = op.last
    /\ op.pc = "metadata" => Whole(handler, raw, encoded, tree)

Agree == AtRest /\ Converted /\ Changing

-----------------------------------------------------------------------------
(* Files at rest.                                                          *)

LEMMA WholeIsOnDisk ==
  ASSUME NEW m, FittingMetadata(m), NEW h, NEW data, NEW file, NEW t,
         Whole(h, data, file, t), Recorded(m, h)
  PROVE  OnDisk(m, data, file, t)
<1>1. m.dims = h.dims /\ m.rows = h.rows /\ m.capacity = h.capacity /\ m.bytes = h.total
  BY DEF FittingMetadata, Recorded, OwnMetadata, Metadata
<1> QED
  BY <1>1 DEF Whole, OnDisk

LEMMA OnDiskIsWhole ==
  ASSUME NEW m, FittingMetadata(m), NEW data, NEW file, NEW t, OnDisk(m, data, file, t)
  PROVE  Whole(Handler(m, t), data, file, t) /\ Recorded(m, Handler(m, t))
<1>1. Recorded(m, Handler(m, t))
  BY DEF FittingMetadata, Recorded, OwnMetadata, Metadata, Handler
<1>2. Whole(Handler(m, t), data, file, t)
  BY DEF Whole, OnDisk, Handler
<1> QED
  BY <1>1, <1>2

\* What a conversion leaves that writes all rows.
LEMMA ConversionIsOnDisk ==
  ASSUME NEW data \in Content, NEW dims \in Shapes, NEW m,
         FlushedRows(data, dims) = RowCount(data, dims),
         m.dims = dims, m.rows = FlushedRows(data, dims),
         m.capacity = RowCapacity(RowCount(data, dims)), m.bytes = Len(data)
  PROVE  OnDisk(m, data, EncodedFile(data, dims), Encoding(data, dims))
BY ConversionHolds DEF OnDisk, HoldsRows

\* A call has ended: files that are in agreement, or torn, need no more.
LEMMA Rests ==
  ASSUME Fits', op' = Idle,
         ~torn' =>
           /\ handler' # None =>
                Whole(handler', raw', encoded', tree') /\ Recorded(metadata', handler')
           /\ Attachable' => OnDisk(metadata', raw', encoded', tree')
  PROVE  Agree'
<1>1. op'.call = "none" /\ op'.pc = "idle"
  BY DEF Idle
<1>2. AtRest'
  BY DEF AtRest
<1>3. Converted'
  BY <1>1 DEF Converted, Encoded
<1>4. Changing'
  BY <1>1 DEF Changing
<1> QED
  BY <1>2, <1>3, <1>4 DEF Agree

\* With a handler in agreement the metadata need not be looked at again.
LEMMA RestsWhole ==
  ASSUME Fits', op' = Idle,
         ~torn' => Whole(handler', raw', encoded', tree') /\ Recorded(metadata', handler')
  PROVE  Agree'
<1>1. ASSUME ~torn', Attachable' PROVE OnDisk(metadata', raw', encoded', tree')
  <2>1. metadata' \notin {None, Truncated}
    BY <1>1 DEF Attachable
  <2>2. FittingMetadata(metadata')
    BY <2>1 DEF Fits, MetadataFits
  <2> QED
    BY <1>1, <2>2, WholeIsOnDisk
<1> QED
  BY <1>1, Rests

\* A call is under way that relies on nothing.
LEMMA RelyOnNothing ==
  ASSUME op'.call \notin {"append", "edit"},
         op'.pc \notin Encoded \union {"idle", "tree", "metadata"},
         op'.call = "reshape" /\ ~torn' => handler'.total = Len(raw')
  PROVE  Agree'
<1>1. op' # Idle
  BY DEF Idle
<1>2. AtRest'
  BY <1>1 DEF AtRest
<1>3. Converted'
  BY DEF Converted, Encoded
<1>4. Changing'
  BY DEF Changing
<1> QED
  BY <1>2, <1>3, <1>4 DEF Agree

LEMMA InitAgree == ASSUME Init, Fits PROVE Agree
<1>1. op = Idle /\ handler = None /\ raw = None
  BY DEF Init
<1>2. op.call = "none" /\ op.pc = "idle"
  BY <1>1 DEF Idle
<1>3. AtRest
  BY <1>1 DEF AtRest, Attachable
<1>4. Converted
  BY <1>2 DEF Converted, Encoded
<1>5. Changing
  BY <1>2 DEF Changing
<1> QED
  BY <1>3, <1>4, <1>5 DEF Agree

LEMMA AttachAgree ==
  ASSUME Fits, Fits', Agree, AttachToExistingUlid PROVE Agree'
<1>1. /\ op' = Idle /\ op = Idle /\ Attachable
      /\ UNCHANGED <<raw, encoded, tree, metadata, torn>>
      /\ handler' = Handler(metadata, tree)
  BY DEF AttachToExistingUlid, Free
<1>2. FittingMetadata(metadata)
  BY <1>1 DEF Attachable, Fits, MetadataFits
<1>3. ~torn' => OnDisk(metadata, raw, encoded, tree)
  BY <1>1 DEF Agree, AtRest
<1> QED
  BY <1>1, <1>2, <1>3, OnDiskIsWhole, RestsWhole

LEMMA CreateAgree ==
  ASSUME Fits, Fits', Agree, NEW dims \in Shapes, CreateFromUnencodedFile(dims) PROVE Agree'
<1>1. /\ op = Idle /\ handler = None
      /\ UNCHANGED <<encoded, tree, metadata, leftover, handler, torn>>
      /\ encoded = None \/ raw' = raw
      /\ op' = Begin("create", "truncate", dims) \/ op' = op
  BY DEF CreateFromUnencodedFile, Free, Unused
<1>2. CASE op' = op
  <2>1. Attachable' => Attachable /\ raw' = raw
    BY <1>1 DEF Attachable
  <2>2. ~torn' /\ Attachable' => OnDisk(metadata', raw', encoded', tree')
    BY <1>1, <2>1 DEF Agree, AtRest
  <2> QED
    BY <1>1, <1>2, <2>2, Rests
<1>3. CASE op' = Begin("create", "truncate", dims)
  <2>1. op'.call = "create" /\ op'.pc = "truncate"
    BY <1>3 DEF Begin, Idle
  <2> QED
    BY <2>1, RelyOnNothing DEF Encoded
<1> QED
  BY <1>1, <1>2, <1>3

LEMMA ReshapeAgree ==
  ASSUME Fits, Agree, NEW dims \in Shapes, Reshape(dims) PROVE Agree'
<1>1. /\ Attached /\ UNCHANGED <<raw, handler, torn>>
      /\ op' = Begin("reshape", "truncate", dims)
  BY DEF Reshape
<1>2. op'.call = "reshape" /\ op'.pc = "truncate"
  BY <1>1 DEF Begin, Idle
<1>3. ~torn' => handler'.total = Len(raw')
  BY <1>1 DEF Agree, AtRest, Attached, Whole
<1> QED
  BY <1>2, <1>3, RelyOnNothing DEF Encoded

LEMMA ReencodeAgree ==
  ASSUME Fits, Agree, ReencodeUnencodedFile PROVE Agree'
<1>1. op'.call = "reencode" /\ op'.pc = "encode"
  BY DEF ReencodeUnencodedFile, Begin, Idle
<1> QED
  BY <1>1, RelyOnNothing DEF Encoded

LEMMA DeleteAgree ==
  ASSUME Fits, Agree, DeleteAllFiles PROVE Agree'
<1>1. op'.call = "delete" /\ op'.pc = "remove_encoded"
  BY DEF DeleteAllFiles, Begin, Idle
<1> QED
  BY <1>1, RelyOnNothing DEF Encoded

-----------------------------------------------------------------------------
(* The steps of a conversion.                                              *)

\* What a call that converts keeps, and what it is to show.
LEMMA Converts ==
  ASSUME op'.call \in {"create", "reshape", "reencode"},
         op'.pc \in Converting \union {"stamp"},
         Converted'
  PROVE  Agree'
<1>1. op' # Idle
  BY DEF Idle
<1>2. AtRest'
  BY <1>1 DEF AtRest
<1>3. Changing'
  BY DEF Changing
<1> QED
  BY <1>2, <1>3 DEF Agree

LEMMA TruncateEncodedAgree ==
  ASSUME Fits, Agree, TruncateEncoded PROVE Agree'
<1>1. op.pc = "truncate" /\ op' = [op EXCEPT !.pc = "encode"] /\ UNCHANGED <<raw, handler, torn>>
  BY DEF TruncateEncoded
<1>2. op.call \in {"create", "reshape"}
  BY <1>1 DEF Fits, OpFits
<1>3. "encode" \in Pcs
  BY DEF Pcs, Converting
<1>4. op'.call = op.call /\ op'.pc = "encode"
  BY <1>1, <1>3, StepsOn
<1>5. op'.call = "reshape" /\ ~torn' => handler'.total = Len(raw')
  BY <1>1, <1>4 DEF Agree, Converted
<1> QED
  BY <1>2, <1>4, <1>5, RelyOnNothing DEF Encoded

LEMMA EncodeFileAgree ==
  ASSUME Fits, Fits', Agree, EncodeFile PROVE Agree'
<1>1. op.pc = "encode" /\ encoded' = EncodedFile(raw, op.dims) /\ UNCHANGED <<raw, tree, metadata>>
  BY DEF EncodeFile
<1>2. op.call \in {"create", "reshape", "reencode"}
  BY <1>1 DEF Fits, OpFits
<1>3. CASE op.call # "reencode" /\ FlushedRows(raw, op.dims) # RowCount(raw, op.dims)
  <2>1. op' = Idle /\ torn' = TRUE
    BY <1>3 DEF EncodeFile
  <2> QED
    BY <2>1, Rests
<1>4. CASE ~(op.call # "reencode" /\ FlushedRows(raw, op.dims) # RowCount(raw, op.dims))
  <2> DEFINE pc == IF op.call = "reencode" THEN "tree" ELSE "create_metadata"
  <2>1. op' = [op EXCEPT !.pc = pc] /\ UNCHANGED <<handler, torn>>
    BY <1>4 DEF EncodeFile
  <2>2. pc \in Pcs
    BY DEF Pcs, Converting
  <2> HIDE DEF pc
  <2>3. op'.call = op.call /\ op'.dims = op.dims /\ op'.pc = pc
    BY <2>1, <2>2, StepsOn
  <2>4. pc \in {"tree", "create_metadata"} /\ (pc = "create_metadata" <=> op.call # "reencode")
    BY DEF pc
  <2>5. op'.call = "reshape" /\ ~torn' => handler'.total = Len(raw')
    BY <1>1, <2>1, <2>3 DEF Agree, Converted
  <2>6. Converted'
    BY <1>1, <1>2, <1>4, <2>3, <2>4, <2>5 DEF Converted, Encoded
  <2> QED
    BY <1>2, <2>3, <2>4, <2>6, Converts DEF Converting
<1> QED
  BY <1>3, <1>4

LEMMA CreateMetadataAgree ==
  ASSUME Fits, Agree, CreateMetadata PROVE Agree'
<1>1. /\ op.pc = "create_metadata" /\ op' = [op EXCEPT !.pc = "write_metadata"]
      /\ UNCHANGED <<raw, encoded, tree, handler, torn>>
  BY DEF CreateMetadata
<1>2. op.call \in {"create", "reshape"}
  BY <1>1 DEF Fits, OpFits
<1>3. "write_metadata" \in Pcs
  BY DEF Pcs, Converting
<1>4. op'.call = op.call /\ op'.dims = op.dims /\ op'.pc = "write_metadata"
  BY <1>1, <1>3, StepsOn
<1>5. Converted'
  BY <1>1, <1>2, <1>4 DEF Agree, Converted, Encoded
<1> QED
  BY <1>2, <1>4, <1>5, Converts DEF Converting

LEMMA WriteNewMetadataAgree ==
  ASSUME Fits, Agree, WriteNewMetadata PROVE Agree'
<1>1. /\ op.pc = "write_metadata" /\ op' = [op EXCEPT !.pc = "create_tree"]
      /\ metadata' = WriterMetadata(op.dims)
      /\ UNCHANGED <<raw, encoded, tree, handler, torn>>
  BY DEF WriteNewMetadata
<1>2. op.call \in {"create", "reshape"}
  BY <1>1 DEF Fits, OpFits
<1>3. "create_tree" \in Pcs
  BY DEF Pcs, Converting
<1>4. op'.call = op.call /\ op'.dims = op.dims /\ op'.pc = "create_tree"
  BY <1>1, <1>3, StepsOn
<1>5. metadata' = WriterMetadata(op.dims)'
  BY <1>1, <1>4 DEF WriterMetadata
<1>6. Converted'
  BY <1>1, <1>2, <1>4, <1>5 DEF Agree, Converted, Encoded
<1> QED
  BY <1>2, <1>4, <1>6, Converts DEF Converting

LEMMA CreateTreeAgree ==
  ASSUME Fits, Agree, CreateTree PROVE Agree'
<1>1. /\ op.pc = "create_tree" /\ op' = [op EXCEPT !.pc = "write_tree"]
      /\ UNCHANGED <<raw, encoded, metadata, handler, torn>>
  BY DEF CreateTree
<1>2. op.call \in {"create", "reshape"}
  BY <1>1 DEF Fits, OpFits
<1>3. "write_tree" \in Pcs
  BY DEF Pcs, Converting
<1>4. op'.call = op.call /\ op'.dims = op.dims /\ op'.pc = "write_tree"
  BY <1>1, <1>3, StepsOn
<1>5. metadata' = WriterMetadata(op.dims)'
  BY <1>1, <1>4 DEF Agree, Converted, WriterMetadata
<1>6. Converted'
  BY <1>1, <1>2, <1>4, <1>5 DEF Agree, Converted, Encoded
<1> QED
  BY <1>2, <1>4, <1>6, Converts DEF Converting

\* Metadata a conversion writes, but for the Ulid, are in agreement.
LEMMA ConvertedOnDisk ==
  ASSUME NEW dims \in Shapes, raw \in Content, FlushedRows(raw, dims) = RowCount(raw, dims)
  PROVE  OnDisk(WriterMetadata(dims), raw, EncodedFile(raw, dims), Encoding(raw, dims))
<1> DEFINE m == WriterMetadata(dims)
<1>1. /\ m.dims = dims /\ m.rows = FlushedRows(raw, dims)
      /\ m.capacity = RowCapacity(RowCount(raw, dims)) /\ m.bytes = Len(raw)
  BY DEF WriterMetadata, Metadata
<1> HIDE DEF m
<1>2. OnDisk(m, raw, EncodedFile(raw, dims), Encoding(raw, dims))
  BY <1>1, ConversionIsOnDisk
<1> QED
  BY <1>2 DEF m

LEMMA WriteNewTreeAgree ==
  ASSUME Fits, Fits', Agree, WriteNewTree PROVE Agree'
<1>1. /\ op.pc = "write_tree" /\ tree' = Encoding(raw, op.dims)
      /\ UNCHANGED <<raw, encoded, metadata, torn>>
  BY DEF WriteNewTree
<1>2. /\ op.call \in {"create", "reshape"} /\ op.dims \in Shapes /\ raw \in Content
  BY <1>1 DEF Fits, OpFits, Converting
<1>3. /\ FlushedRows(raw, op.dims) = RowCount(raw, op.dims)
      /\ encoded = EncodedFile(raw, op.dims)
      /\ metadata = WriterMetadata(op.dims)
  BY <1>1 DEF Agree, Converted, Encoded
<1>4. CASE op.call = "create"
  <2>1. op' = [op EXCEPT !.pc = "stamp"] /\ UNCHANGED handler
    BY <1>4 DEF WriteNewTree
  <2>2. "stamp" \in Pcs
    BY DEF Pcs
  <2>3. op'.call = "create" /\ op'.dims = op.dims /\ op'.pc = "stamp"
    BY <1>4, <2>1, <2>2, StepsOn
  <2>4. metadata' = WriterMetadata(op.dims)'
    BY <1>1, <1>3, <2>3 DEF WriterMetadata
  <2>5. Converted'
    BY <1>1, <1>2, <1>3, <2>3, <2>4 DEF Converted, Encoded
  <2> QED
    BY <2>3, <2>5, Converts
<1>5. CASE op.call = "reshape"
  <2> DEFINE m == WriterMetadata(op.dims)
             made == Handler(m, tree')
  <2>1. op' = Idle /\ handler' = [made EXCEPT !.total = handler.total]
    BY <1>5 DEF WriteNewTree
  <2>2. FittingMetadata(m)
    BY <1>2, WriterMetadataFits
  <2>3. OnDisk(m, raw, encoded, tree')
    BY <1>1, <1>2, <1>3, ConvertedOnDisk
  <2>4. Whole(made, raw, encoded, tree') /\ Recorded(m, made)
    BY <2>2, <2>3, OnDiskIsWhole
  <2>5. HandlerTypes(made)
    BY <2>2, NewHandlerFits
  <2>6. ASSUME ~torn' PROVE handler' = made
    <3>1. handler.total = Len(raw)
      BY <1>1, <1>5, <2>6 DEF Agree, Converted
    <3>2. made.total = Len(raw)
      BY <2>4 DEF Whole
    <3> HIDE DEF made
    <3> QED
      BY <2>1, <2>5, <3>1, <3>2 DEF HandlerTypes
  <2> HIDE DEF made, m
  <2>7. ~torn' => Whole(handler', raw', encoded', tree') /\ Recorded(metadata', handler')
    BY <1>1, <1>3, <2>4, <2>6 DEF m
  <2> QED
    BY <2>1, <2>7, RestsWhole
<1> QED
  BY <1>2, <1>4, <1>5

LEMMA StampUlidAgree ==
  ASSUME Fits, Fits', Agree, StampUlid PROVE Agree'
<1>1. /\ op.pc = "stamp" /\ op' = Idle /\ UNCHANGED <<raw, encoded, tree>>
      /\ metadata' = [metadata EXCEPT !.ulid = "own"]
      /\ handler' = Handler(metadata', tree)
  BY DEF StampUlid
<1>2. /\ FlushedRows(raw, op.dims) = RowCount(raw, op.dims)
      /\ encoded = EncodedFile(raw, op.dims)
      /\ metadata = WriterMetadata(op.dims)
      /\ op.dims \in Shapes /\ tree = Encoding(raw, op.dims)
      /\ raw \in Content
  BY <1>1 DEF Fits, OpFits, Agree, Converted, Encoded
<1>3. FittingMetadata(metadata)
  BY <1>2, WriterMetadataFits
<1>4. OnDisk(metadata, raw, encoded, tree)
  BY <1>2, ConvertedOnDisk
<1>5. FittingMetadata(metadata') /\ OnDisk(metadata', raw, encoded, tree)
  BY <1>1, <1>3, <1>4 DEF FittingMetadata, OnDisk
<1>6. Whole(handler', raw, encoded, tree) /\ Recorded(metadata', handler')
  BY <1>1, <1>5, OnDiskIsWhole
<1> QED
  BY <1>1, <1>6, RestsWhole

LEMMA WriteTreeAgree ==
  ASSUME Fits, Agree, WriteTree PROVE Agree'
<1>1. /\ op.pc = "tree" /\ op' = [op EXCEPT !.pc = "metadata"] /\ "metadata" \in Pcs
      /\ tree' = Encoding(raw, op.dims)
      /\ handler' = Handler(WriterMetadata(op.dims), tree')
      /\ UNCHANGED <<raw, encoded, metadata, torn>>
  BY DEF WriteTree, Pcs
<1>2. op.call = "reencode" /\ op.dims \in Shapes /\ encoded = EncodedFile(raw, op.dims)
  BY <1>1 DEF Fits, OpFits, Agree, Converted, Converting
<1>3. op'.call = "reencode" /\ op'.dims = op.dims /\ op'.pc = "metadata"
  BY <1>1, <1>2, StepsOn
<1>4. op' # Idle
  BY <1>3 DEF Idle
<1>5. handler' = Handler(WriterMetadata(op.dims)', tree')
  BY <1>1, <1>3 DEF WriterMetadata
<1>6. AtRest'
  BY <1>4 DEF AtRest
<1>7. Converted'
  BY <1>1, <1>2, <1>3, <1>5 DEF Converted, Encoded
<1>8. Changing'
  BY <1>3 DEF Changing
<1> QED
  BY <1>6, <1>7, <1>8 DEF Agree

\* A deletion that is complete leaves nothing to attach to.
LEMMA RemoveAgree ==
  ASSUME Fits, Fits', Agree, RemoveEncoded \/ RemoveTree \/ RemoveMetadata PROVE Agree'
<1>1. CASE RemoveMetadata
  <2>1. op' = Idle /\ metadata' = None /\ op.pc = "remove_metadata" /\ handler' = handler
    BY <1>1 DEF RemoveMetadata
  <2>2. ~Attachable'
    BY <2>1 DEF Attachable
  <2>3. handler = None
    BY <2>1 DEF Fits, OpFits, HandlerFits
  <2> QED
    BY <2>1, <2>2, <2>3, Rests
<1>2. CASE RemoveEncoded \/ RemoveTree
  <2> DEFINE pc == IF op.pc = "remove_encoded" THEN "remove_tree" ELSE "remove_metadata"
  <2>1. /\ op.pc \in {"remove_encoded", "remove_tree"}
        /\ op' = [op EXCEPT !.pc = pc] /\ pc \in Pcs
    BY <1>2 DEF RemoveEncoded, RemoveTree, Pcs
  <2>2. pc \in {"remove_tree", "remove_metadata"}
    OBVIOUS
  <2> HIDE DEF pc
  <2>3. op'.pc = pc /\ op'.call = op.call
    BY <2>1, StepsOn
  <2>4. op.call = "delete"
    BY <2>1 DEF Fits, OpFits
  <2> QED
    BY <2>2, <2>3, <2>4, RelyOnNothing DEF Encoded
<1> QED
  BY <1>1, <1>2

\* A crash tears what is under way; files at rest stay in agreement.
LEMMA CrashAgree ==
  ASSUME Fits, Fits', Agree, Crash PROVE Agree'
<1>1. /\ handler' = None /\ op' = Idle /\ torn' = (torn \/ op # Idle)
      /\ UNCHANGED <<raw, encoded, tree, metadata, leftover>>
  BY DEF Crash
<1>2. ASSUME ~torn', Attachable' PROVE OnDisk(metadata', raw', encoded', tree')
  <2>1. ~torn /\ op = Idle /\ Attachable
    BY <1>1, <1>2 DEF Attachable
  <2> QED
    BY <1>1, <2>1 DEF Agree, AtRest
<1> QED
  BY <1>1, <1>2, Rests

-----------------------------------------------------------------------------
(* Which rows an append and an edit touch.                                 *)

\* An append leaves the rows alone that were full.
LEMMA AppendKeepsRow ==
  ASSUME NEW data \in Content, NEW bytes \in Content, NEW dims \in Shapes, NEW r \in Nat,
         r < Len(data) \div RowBytes(dims)
  PROVE  RowOf(data \o bytes, dims, r) = RowOf(data, dims, r)
<1> DEFINE w == RowBytes(dims)
           q == Len(data) \div w
           e == (r + 1) * w
           rest == Len(data) % w
           longer == data \o bytes
<1>0. w \in Nat \ {0}
  BY RowsBegin
<1>1. /\ data \in Seq(Bytes) /\ bytes \in Seq(Bytes)
      /\ Len(data) \in Nat /\ Len(bytes) \in Nat /\ w \in Nat \ {0}
  BY <1>0 DEF Content
<1>2. q \in Int /\ rest \in 0..w - 1 /\ Len(data) = q * w + rest
  <2>1. Len(data) \in Int
    BY <1>1
  <2> QED
    BY <1>1, <2>1, Division, Zenon
<1>3. r + 1 <= q
  BY <1>2
<1> HIDE DEF w, q, rest
<1>4. (r + 1) * w <= q * w
  BY <1>1, <1>2, <1>3, MultiplesGrow
<1>5. e \in Nat /\ q * w \in Int
  BY <1>1, <1>2
<1>6. e <= Len(data)
  BY <1>1, <1>2, <1>4, <1>5
<1> HIDE DEF e
<1>7. /\ longer \in Content /\ Len(longer) = Len(data) + Len(bytes)
      /\ \A i \in 1..Len(data) : longer[i] = data[i]
  BY <1>1 DEF Content
<1> HIDE DEF longer
<1>8. Lesser(e, Len(data)) = Lesser(e, Len(longer))
  BY <1>1, <1>5, <1>6, <1>7 DEF Lesser
<1>9. \A i \in 1..Len(data) : r * w < i /\ i <= e => data[i] = longer[i]
  BY <1>7
<1>10. RowOf(data, dims, r) = RowOf(longer, dims, r)
  BY <1>7, <1>8, <1>9, SameRow DEF w, e
<1> QED
  BY <1>10 DEF longer

\* An edit leaves the rows alone that it does not reach.
LEMMA EditKeepsRow ==
  ASSUME NEW data \in Content, NEW start \in Nat, NEW patch \in Content, NEW dims \in Shapes,
         NEW r \in Nat,
         r < start \div RowBytes(dims) \/ CeilDiv(start + Len(patch), RowBytes(dims)) <= r
  PROVE  RowOf(Splice(data, start, patch), dims, r) = RowOf(data, dims, r)
<1> DEFINE w == RowBytes(dims)
           q == start \div w
           e == (r + 1) * w
           m == r * w
           other == Splice(data, start, patch)
<1>0. w \in Nat \ {0}
  BY RowsBegin
<1>1. Len(data) \in Nat /\ Len(patch) \in Nat /\ w \in Nat \ {0}
  BY <1>0 DEF Content
<1>2. e <= start \/ start + Len(patch) <= m
  <2>1. CASE r < q
    <3>1. q \in Int /\ start % w \in 0..w - 1 /\ start = q * w + (start % w)
      <4>1. start \in Int
        OBVIOUS
      <4> QED
        BY <1>1, <4>1, Division, Zenon
    <3>2. r + 1 <= q
      BY <2>1, <3>1
    <3> HIDE DEF w, q
    <3>3. (r + 1) * w <= q * w /\ q * w \in Int /\ (r + 1) * w \in Int
      BY <1>1, <3>1, <3>2, MultiplesGrow
    <3> QED
      BY <1>1, <3>1, <3>3
  <2>2. CASE ~(r < q)
    <3> DEFINE n == start + Len(patch)
               c == CeilDiv(n, w)
    <3>1. n \in Nat
      BY <1>1
    <3>2. c <= r
      BY <2>2
    <3> HIDE DEF n
    <3>3. c \in Nat /\ n <= c * w
      BY <1>1, <3>1, RowsHold
    <3> HIDE DEF c, w
    <3>4. c * w <= r * w /\ c * w \in Int /\ r * w \in Int
      BY <1>1, <3>2, <3>3, MultiplesGrow
    <3>5. n <= m
      BY <3>1, <3>3, <3>4
    <3> QED
      BY <3>5 DEF n
  <2> QED
    BY <2>1, <2>2
<1>3. e \in Nat /\ m \in Nat
  BY <1>1
<1> HIDE DEF e, m
<1>4. other \in Content /\ Len(other) = Len(data)
  BY SpliceKeepsLength
<1>5. ASSUME NEW i \in 1..Len(data), m < i, i <= e
      PROVE  data[i] = other[i]
  <2>1. ~(start < i /\ i <= start + Len(patch))
    BY <1>1, <1>2, <1>3, <1>5
  <2> QED
    BY <2>1 DEF Splice
<1> HIDE DEF other
<1>6. Lesser(e, Len(data)) = Lesser(e, Len(other))
  BY <1>4
<1>7. RowOf(data, dims, r) = RowOf(other, dims, r)
  BY <1>4, <1>5, <1>6, SameRow DEF e, m
<1> QED
  BY <1>7 DEF other

-----------------------------------------------------------------------------
(* The steps of an append and of an edit.                                  *)

\* What a call that changes rows is to show.
LEMMA Changes ==
  ASSUME op'.call \in {"append", "edit"}, op'.pc \in {"grow", "move", "rows", "recalculate"},
         ~torn' => Changing'
  PROVE  Agree'
<1>1. op' # Idle
  BY DEF Idle
<1>2. AtRest'
  BY <1>1 DEF AtRest
<1>3. Converted'
  BY DEF Converted, Encoded
<1>4. Changing'
  BY DEF Changing
<1> QED
  BY <1>2, <1>3, <1>4 DEF Agree

LEMMA AppendAgree ==
  ASSUME Fits, Agree, NEW bytes \in Appends, AppendBytes(bytes) PROVE Agree'
<1> DEFINE total == handler.total + Len(bytes)
           width == RowBytes(handler.dims)
           first == handler.total \div width
           final == CeilDiv(total, width)
<1>1. /\ Attached
      /\ raw' = raw \o bytes
      /\ handler' = [handler EXCEPT !.total = total, !.rows = final]
      /\ op' = [Idle EXCEPT !.call = "append", !.row = first, !.last = final,
                  !.pc = IF MustGrow(handler, final) THEN "grow" ELSE StepOfRows(first, final)]
      /\ UNCHANGED <<encoded, tree, metadata, torn>>
  BY DEF AppendBytes
<1>2. /\ raw \in Content /\ Len(raw) \in Nat
      /\ HandlerTypes(handler) /\ handler.dims \in Shapes
      /\ FitsIn(handler, handler.capacity)
      /\ width \in Nat \ {0}
  BY <1>1, AttachedFits DEF HandlerTypes
<1>3. bytes \in Content /\ Len(bytes) \in Nat
  BY ContentsAssumption DEF Content
<1>4. raw' \in Content /\ Len(raw') = Len(raw) + Len(bytes)
  BY <1>1, <1>2, <1>3 DEF Content
<1>5. total \in Nat /\ handler.total \in Nat
  BY <1>2, <1>3 DEF HandlerTypes
<1>6. /\ final \in Nat /\ total <= final * width
      /\ first \in Nat /\ first <= final
  <2>1. handler.total <= total
    BY <1>3, <1>5
  <2> QED
    BY <1>2, <1>5, <2>1, RowsHold, RowIsInside
<1>7. /\ handler'.total = total /\ handler'.rows = final
      /\ handler'.capacity = handler.capacity /\ handler'.readerRows = handler.readerRows
      /\ handler'.dims = handler.dims
  BY <1>1, <1>2 DEF HandlerTypes
<1>8. /\ op'.call = "append" /\ op'.row = first /\ op'.last = final
      /\ op'.pc = IF MustGrow(handler, final) THEN "grow" ELSE StepOfRows(first, final)
  BY <1>1 DEF Idle
<1>9. /\ op'.pc \in {"grow", "rows", "recalculate"}
      /\ op'.pc = "grow" => MustGrow(handler, final)
      /\ op'.pc = "recalculate" => ~(first < final)
  BY <1>8 DEF StepOfRows
<1>10. ASSUME ~torn' PROVE Changing'
  <2>1. Whole(handler, raw, encoded, tree)
    BY <1>1, <1>10 DEF Agree, AtRest, Attached
  <2>2. total = Len(raw') /\ handler.total = Len(raw)
    BY <1>4, <2>1 DEF Whole
  <2>3. final = RowCount(raw', handler.dims)
    BY <1>2, <1>4, <2>2, RowsCounted
  <2>4. handler.readerRows = CeilDiv(Len(raw), width) /\ handler.readerRows = handler.rows
    BY <1>2, <2>1, RowsCounted DEF Whole
  <2>5. first <= handler.readerRows
    <3>1. Len(raw) <= Len(raw)
      BY <1>2
    <3>2. Len(raw) \div width <= CeilDiv(Len(raw), width)
      BY <1>2, <3>1, RowIsInside
    <3> QED
      BY <2>2, <2>4, <3>2
  <2>6. handler.readerRows <= final
    <3>1. Len(raw) <= final * width
      <4>1. final * width \in Nat
        BY <1>2, <1>6
      <4> HIDE DEF final
      <4> QED
        BY <1>2, <1>3, <1>4, <1>6, <2>2, <4>1
    <3>2. \A k \in Nat : Len(raw) <= k * width => CeilDiv(Len(raw), width) <= k
      BY <1>2, RowsHold
    <3> QED
      BY <1>6, <2>4, <3>1, <3>2
  <2>7. /\ handler.readerRows \in Nat /\ handler.capacity \in Nat
        /\ handler.readerRows <= handler.capacity
    BY <1>2 DEF HandlerTypes, FitsIn
  <2>8. Sized(encoded, handler.capacity, handler.dims.enc)
    BY <2>1 DEF Whole, HoldsRows
  <2>9. ASSUME NEW r \in Nat, r < first
        PROVE  RowAt(encoded, handler.capacity, raw', handler.dims, r)
    <3>1. RowAt(encoded, handler.capacity, raw, handler.dims, r)
      <4>1. r \in 0..handler.rows - 1
        BY <1>6, <2>4, <2>5, <2>7, <2>9
      <4> QED
        BY <2>1, <4>1 DEF Whole, HoldsRows
    <3>2. r < Len(raw) \div RowBytes(handler.dims)
      BY <2>2, <2>9
    <3>3. RowOf(raw', handler.dims, r) = RowOf(raw, handler.dims, r)
      BY <1>1, <1>2, <1>3, <3>2, AppendKeepsRow
    <3> QED
      BY <3>1, <3>3 DEF RowAt
  <2>10. Untouched' \subseteq {r \in Nat : r < first}
    BY <1>6, <1>7, <1>8, <2>6, <2>7 DEF Untouched
  <2>11. HoldsRows(encoded', handler'.capacity, raw', handler'.dims, Untouched')
    BY <1>1, <1>7, <2>8, <2>9, <2>10 DEF HoldsRows
  <2>12. HoldsRows(encoded', handler'.capacity, raw', handler'.dims, 0..op'.row - 1)
    <3>1. \A r \in 0..op'.row - 1 : r \in Nat /\ r < first
      BY <1>6, <1>8
    <3> QED
      BY <1>1, <1>7, <2>8, <2>9, <3>1 DEF HoldsRows
  <2>13. op'.pc = "grow" => handler.capacity < final
    BY <1>6, <1>9, <2>7 DEF MustGrow
  <2>14. op'.pc = "recalculate" => first = final
    BY <1>6, <1>9
  <2> HIDE DEF final, first, total, width
  <2> QED
    BY <1>6, <1>7, <1>8, <1>9, <2>2, <2>3, <2>5, <2>6, <2>7, <2>11, <2>12, <2>13, <2>14
       DEF Changing
<1> QED
  BY <1>8, <1>9, <1>10, Changes

LEMMA EditAgree ==
  ASSUME Fits, Agree, NEW start \in 0..MaxLength, NEW patch \in Patches, EditBytes(start, patch)
  PROVE  Agree'
<1> DEFINE width == RowBytes(handler.dims)
           first == start \div width
           final == CeilDiv(start + Len(patch), width)
<1>1. /\ Attached
      /\ start + Len(patch) <= handler.total
      /\ raw' = Splice(raw, start, patch)
      /\ op' = [Idle EXCEPT !.call = "edit", !.row = first, !.last = final,
                            !.pc = StepOfRows(first, final)]
      /\ UNCHANGED <<encoded, tree, metadata, handler, torn>>
  BY DEF EditBytes
<1>2. /\ raw \in Content /\ Len(raw) \in Nat
      /\ HandlerTypes(handler) /\ handler.dims \in Shapes /\ handler.rows \in Nat
      /\ width \in Nat \ {0}
  BY <1>1, AttachedFits DEF HandlerTypes
<1>3. patch \in Content /\ Len(patch) \in Nat /\ start \in Nat
  BY ContentsAssumption, LengthAssumption DEF Content
<1>4. raw' \in Content /\ Len(raw') = Len(raw)
  BY <1>1, <1>2, <1>3, SpliceKeepsLength
<1>5. start + Len(patch) \in Nat /\ start <= start + Len(patch)
  BY <1>3
<1>6. /\ final \in Nat /\ \A k \in Nat : start + Len(patch) <= k * width => final <= k
      /\ first \in Nat /\ first <= final
  BY <1>2, <1>3, <1>5, RowsHold, RowIsInside
<1>7. /\ op'.call = "edit" /\ op'.row = first /\ op'.last = final
      /\ op'.pc = StepOfRows(first, final)
  BY <1>1 DEF Idle
<1>8. /\ op'.pc \in {"rows", "recalculate"}
      /\ op'.pc = "recalculate" => ~(first < final)
  BY <1>7 DEF StepOfRows
<1>9. ASSUME ~torn' PROVE Changing'
  <2>1. Whole(handler, raw, encoded, tree) /\ Recorded(metadata, handler)
    BY <1>1, <1>9 DEF Agree, AtRest, Attached
  <2>2. handler.total = Len(raw) /\ handler.readerRows = handler.rows
    BY <2>1 DEF Whole
  <2>3. handler.rows = CeilDiv(Len(raw), width)
    BY <1>2, <2>1, RowsCounted DEF Whole
  <2>4. handler.rows = RowCount(raw', handler.dims)
    BY <1>2, <1>4, <2>3, RowsCounted
  <2>5. final <= handler.rows
    <3>1. Len(raw) <= handler.rows * width /\ handler.rows * width \in Nat
      BY <1>2, <2>3, RowsHold
    <3>2. start + Len(patch) <= handler.rows * width
      BY <1>1, <1>2, <1>5, <2>2, <3>1
    <3> QED
      BY <1>2, <1>6, <3>2
  <2>6. Sized(encoded, handler.capacity, handler.dims.enc)
    BY <2>1 DEF Whole, HoldsRows
  <2>7. ASSUME NEW r \in Untouched'
        PROVE  RowAt(encoded, handler.capacity, raw', handler.dims, r)
    <3>1. r \in 0..handler.rows - 1 /\ r \in Nat /\ (r < first \/ final <= r)
      BY <1>1, <1>2, <1>7, <2>2 DEF Untouched
    <3>2. RowAt(encoded, handler.capacity, raw, handler.dims, r)
      BY <2>1, <3>1 DEF Whole, HoldsRows
    <3>3. RowOf(raw', handler.dims, r) = RowOf(raw, handler.dims, r)
      BY <1>1, <1>2, <1>3, <3>1, EditKeepsRow
    <3> QED
      BY <3>2, <3>3 DEF RowAt
  <2>8. HoldsRows(encoded', handler'.capacity, raw', handler'.dims, Untouched')
    BY <1>1, <2>6, <2>7 DEF HoldsRows
  <2>9. op'.pc = "recalculate" => first = final
    BY <1>6, <1>8
  <2> HIDE DEF final, first, width
  <2> QED
    BY <1>1, <1>2, <1>4, <1>6, <1>7, <1>8, <2>1, <2>2, <2>4, <2>5, <2>8, <2>9 DEF Changing
<1> QED
  BY <1>7, <1>8, <1>9, Changes


\* What an append or edit under way relies on.
LEMMA UnderWay ==
  ASSUME Fits, op.pc \in {"grow", "move", "rows", "recalculate"}
  PROVE  /\ Calling /\ op.call \in {"append", "edit"}
         /\ op \in [call : Calls, pc : Pcs, row : Nat, last : Nat, col : Nat,
                   dims : Shapes \union {None}]
         /\ op.row <= op.last
         /\ handler.dims.enc \in Nat \ {0}
<1>1. Calling /\ op.call \in {"append", "edit"}
  BY DEF Fits, OpFits, Calling
<1>2. handler.dims.enc \in Nat \ {0}
  BY <1>1, CallingFits, ShapesAssumption
<1> QED
  BY <1>1, <1>2 DEF Fits, OpFits

LEMMA GrowFileAgree ==
  ASSUME Fits, Agree, GrowFile PROVE Agree'
<1> DEFINE old == handler.capacity
           new == NewCapacity(handler, op.last)
           enc == handler.dims.enc
<1>1. /\ op.pc = "grow"
      /\ encoded' = SetLen(encoded, new * enc)
      /\ op' = [op EXCEPT !.pc = "move", !.col = enc]
      /\ UNCHANGED <<raw, tree, metadata, handler, torn>>
  BY DEF GrowFile
<1>2. op.call = "append" /\ Calling /\ op.row \in Nat /\ op.last \in Nat /\ enc \in Nat \ {0}
  BY <1>1, UnderWay DEF Fits, OpFits
<1>3. old \in Nat
  BY <1>2, CallingFits
<1>4. /\ op'.call = "append" /\ op'.pc = "move" /\ op'.row = op.row /\ op'.last = op.last
      /\ op'.col = enc
  BY <1>1, <1>2, UnderWay
<1>5. ASSUME ~torn' PROVE Changing'
  <2>1. /\ Changing /\ op.row <= handler.readerRows
        /\ old < op.last /\ handler.readerRows <= old
        /\ HoldsRows(encoded, old, raw, handler.dims, 0..op.row - 1)
    BY <1>1, <1>2, <1>5 DEF Agree, Changing
  <2>2. new \in Nat /\ old <= new
    BY <1>2, <1>3, <2>1 DEF NewCapacity
  <2>3. Sized(encoded, old, enc)
    BY <2>1 DEF HoldsRows
  <2>4. new = NewCapacity(handler', op'.last)
    BY <1>1, <1>4 DEF NewCapacity
  <2> HIDE DEF new, old, enc
  <2>5. old * enc \in Nat /\ new * enc \in Nat /\ old * enc <= new * enc
    BY <1>2, <1>3, <2>2, MultiplesGrow
  <2>6. /\ Sized(encoded', new, enc)
        /\ \A i \in 0..old * enc - 1 : encoded'[i] = encoded[i]
    BY <1>1, <2>3, <2>5, LongerFile DEF Sized
  <2>7. ASSUME NEW r \in 0..op.row - 1, NEW c \in 0..enc - 1
        PROVE  encoded'[c * old + r] = Element(RowOf(raw, handler.dims, r), c, enc)
    <3>1. r \in 0..old - 1
      <4>1. handler.readerRows \in Nat
        BY <1>2, CallingFits
      <4> QED
        BY <1>2, <1>3, <2>1, <4>1 DEF old
    <3>2. c * old + r \in 0..(old * enc) - 1
      BY <1>2, <1>3, <3>1, Position
    <3>3. encoded[c * old + r] = Element(RowOf(raw, handler.dims, r), c, enc)
      BY <2>1 DEF HoldsRows, RowAt, old, enc
    <3> QED
      BY <2>6, <3>2, <3>3
  <2>8. PartlyMoved(encoded', handler', op', raw')
    <3>1. \A c \in 0..enc - 1 : c < enc /\ ~(enc <= c)
      BY <1>2
    <3> QED
      BY <1>1, <1>4, <2>4, <2>6, <2>7, <3>1 DEF PartlyMoved, old, enc
  <2>9. op'.col \in 1..handler'.dims.enc
    BY <1>1, <1>2, <1>4 DEF enc
  <2> QED
    BY <1>1, <1>2, <1>4, <1>5, <2>1, <2>8, <2>9 DEF Changing, old
<1> QED
  BY <1>4, <1>5, Changes

\* Moving one column of a file whose columns behind it were moved before.
LEMMA OneColumnMoved ==
  ASSUME NEW file, NEW h, NEW o, NEW data, PartlyMoved(file, h, o, data),
         h.capacity \in Nat, h.capacity < o.last, h.dims.enc \in Nat \ {0},
         o.last \in Nat, o.row \in Nat, o.row <= h.capacity, o.col \in 1..h.dims.enc
  PROVE  LET new == NewCapacity(h, o.last)
             k   == o.col - 1
             moved == MoveColumn(file, h.capacity, new, k)
         IN  /\ Sized(moved, new, h.dims.enc)
             /\ \A r \in 0..o.row - 1, c \in 0..h.dims.enc - 1 :
                  /\ c < k => moved[c * h.capacity + r]
                                = Element(RowOf(data, h.dims, r), c, h.dims.enc)
                  /\ k <= c => moved[c * new + r]
                                 = Element(RowOf(data, h.dims, r), c, h.dims.enc)
<1> DEFINE old == h.capacity
           new == NewCapacity(h, o.last)
           enc == h.dims.enc
           k == o.col - 1
           moved == MoveColumn(file, old, new, k)
<1>1. /\ old \in Nat /\ new \in Nat /\ old < new
      /\ enc \in Nat \ {0} /\ k \in 0..enc - 1 /\ o.col = k + 1
  BY DEF NewCapacity
<1>2. /\ Sized(file, new, enc)
      /\ \A r \in 0..o.row - 1, c \in 0..enc - 1 :
           /\ c < o.col => file[c * old + r] = Element(RowOf(data, h.dims, r), c, enc)
           /\ o.col <= c => file[c * new + r] = Element(RowOf(data, h.dims, r), c, enc)
  BY DEF PartlyMoved
<1>3. 0..o.row - 1 \subseteq 0..old - 1
  BY <1>1
<1> HIDE DEF old, new, enc, k
<1>11. Sized(file, new, enc)
  BY <1>2
<1>12. OnlyMoved(moved, file, old, new, enc, k)
  BY <1>1, <1>11, MoveColumnMoves
<1>4. /\ Sized(moved, new, enc)
      /\ \A r \in 0..old - 1 :
           /\ moved[k * new + r] = file[k * old + r]
           /\ \A c \in 0..enc - 1 :
                /\ c < k => moved[c * old + r] = file[c * old + r]
                /\ c > k => moved[c * new + r] = file[c * new + r]
  BY <1>12 DEF OnlyMoved
<1> HIDE DEF moved
<1>5. ASSUME NEW r \in 0..o.row - 1, NEW c \in 0..enc - 1
      PROVE  /\ c < k => moved[c * old + r] = Element(RowOf(data, h.dims, r), c, enc)
             /\ k <= c => moved[c * new + r] = Element(RowOf(data, h.dims, r), c, enc)
  <2>0. r \in 0..old - 1
    BY <1>3
  <2>1. CASE c < k
    <3>1. c < o.col /\ ~(k <= c)
      BY <1>1, <2>1
    <3> QED
      BY <1>2, <1>4, <2>0, <2>1, <3>1
  <2>2. CASE c = k
    <3>1. c < o.col /\ ~(c < k)
      BY <1>1, <2>2
    <3> QED
      BY <1>2, <1>4, <2>0, <2>2, <3>1
  <2>3. CASE c > k
    <3>1. o.col <= c /\ ~(c < k)
      BY <1>1, <2>3
    <3> QED
      BY <1>2, <1>4, <2>0, <2>3, <3>1
  <2> QED
    BY <1>1, <2>1, <2>2, <2>3
<1> QED
  BY <1>4, <1>5 DEF old, new, enc, k, moved

LEMMA MoveOneColumnAgree ==
  ASSUME Fits, Agree, MoveOneColumn PROVE Agree'
<1> DEFINE old == handler.capacity
           new == NewCapacity(handler, op.last)
           enc == handler.dims.enc
           k == op.col - 1
<1>1. /\ op.pc = "move" /\ UNCHANGED <<raw, tree, metadata, torn>>
      /\ encoded' = MoveColumn(encoded, handler.readerCapacity, new, k)
  BY DEF MoveOneColumn, ColumnToMove
<1>2. /\ op.call = "append" /\ Calling /\ op.row \in Nat /\ op.last \in Nat /\ op.col \in Nat
      /\ enc \in Nat \ {0} /\ op.row <= op.last
  BY <1>1, UnderWay DEF Fits, OpFits
<1>3. old \in Nat /\ handler.readerCapacity = old /\ handler.readerRows \in Nat
  BY <1>2, CallingFits
<1>4. CASE op.col > 1
  <2>1. op' = [op EXCEPT !.col = k] /\ UNCHANGED handler
    BY <1>4 DEF MoveOneColumn
  <2>2. /\ op'.call = "append" /\ op'.pc = "move" /\ op'.row = op.row /\ op'.last = op.last
        /\ op'.col = k
    BY <1>1, <1>2, <2>1, UnderWay
  <2>3. ASSUME ~torn' PROVE Changing'
    <3>1. /\ Changing /\ op.row <= handler.readerRows
          /\ old < op.last /\ handler.readerRows <= old
          /\ op.col \in 1..enc
          /\ PartlyMoved(encoded, handler, op, raw)
      BY <1>1, <1>2, <2>3 DEF Agree, Changing
    <3>2. new = NewCapacity(handler', op'.last)
      BY <2>1, <2>2 DEF NewCapacity
    <3>3. /\ Sized(encoded', new, enc)
          /\ \A r \in 0..op.row - 1, c \in 0..enc - 1 :
               /\ c < k => encoded'[c * old + r] = Element(RowOf(raw, handler.dims, r), c, enc)
               /\ k <= c => encoded'[c * new + r] = Element(RowOf(raw, handler.dims, r), c, enc)
      BY <1>1, <1>2, <1>3, <3>1, OneColumnMoved
    <3>4. PartlyMoved(encoded', handler', op', raw')
      BY <1>1, <2>1, <2>2, <3>2, <3>3 DEF PartlyMoved
    <3>5. op'.col \in 1..handler'.dims.enc
      BY <1>2, <1>4, <2>1, <2>2, <3>1
    <3> QED
      BY <1>1, <1>2, <2>1, <2>2, <2>3, <3>1, <3>4, <3>5 DEF Changing
  <2> QED
    BY <2>2, <2>3, Changes
<1>5. CASE ~(op.col > 1)
  <2> DEFINE pc == StepOfRows(op.row, op.last)
  <2>1. /\ op' = [op EXCEPT !.col = 0, !.pc = pc]
        /\ handler' = [handler EXCEPT !.capacity = new, !.readerCapacity = new]
    BY <1>5 DEF MoveOneColumn
  <2>2. pc \in {"rows", "recalculate"} /\ pc \in Pcs /\ (pc = "recalculate" => ~(op.row < op.last))
    BY DEF StepOfRows, Pcs
  <2> HIDE DEF pc
  <2>3. /\ op'.call = "append" /\ op'.pc = pc /\ op'.row = op.row /\ op'.last = op.last
    BY <1>1, <1>2, <2>1, <2>2, UnderWay
  <2>4. /\ handler'.total = handler.total /\ handler'.rows = handler.rows
        /\ handler'.capacity = new /\ handler'.readerRows = handler.readerRows
        /\ handler'.dims = handler.dims
    BY <1>2, <2>1, CallingFits DEF HandlerTypes
  <2>5. ASSUME ~torn' PROVE Changing'
    <3>1. /\ handler.total = Len(raw)
          /\ handler.rows = RowCount(raw, handler.dims)
          /\ op.last = handler.rows
          /\ op.row <= handler.readerRows /\ handler.readerRows <= handler.rows
          /\ old < op.last /\ handler.readerRows <= old
          /\ op.col \in 1..enc
          /\ PartlyMoved(encoded, handler, op, raw)
      BY <1>1, <1>2, <2>5 DEF Agree, Changing
    <3>2. k = 0
      BY <1>2, <1>5, <3>1
    <3>3. /\ Sized(encoded', new, enc)
          /\ \A r \in 0..op.row - 1, c \in 0..enc - 1 :
               /\ c < k => encoded'[c * old + r] = Element(RowOf(raw, handler.dims, r), c, enc)
               /\ k <= c => encoded'[c * new + r] = Element(RowOf(raw, handler.dims, r), c, enc)
      BY <1>1, <1>2, <1>3, <3>1, OneColumnMoved
    <3>4. \A r \in 0..op.row - 1, c \in 0..enc - 1 :
            encoded'[c * new + r] = Element(RowOf(raw, handler.dims, r), c, enc)
      <4>1. \A c \in 0..enc - 1 : k <= c
        BY <1>2, <3>2
      <4> QED
        BY <3>3, <4>1
    <3>5. Untouched' \subseteq 0..op.row - 1
      BY <1>2, <1>3, <2>3, <2>4, <3>1 DEF Untouched
    <3> HIDE DEF new, old, enc, k
    <3>6. HoldsRows(encoded', handler'.capacity, raw', handler'.dims, Untouched')
      BY <1>1, <2>4, <3>3, <3>4, <3>5 DEF HoldsRows, RowAt, enc
    <3>7. op'.pc = "recalculate" => op'.row = op'.last
      BY <1>2, <2>2, <2>3
    <3> QED
      BY <1>1, <1>2, <2>2, <2>3, <2>4, <2>5, <3>1, <3>6, <3>7 DEF Changing
  <2> QED
    BY <2>2, <2>3, <2>5, Changes
<1> QED
  BY <1>4, <1>5

LEMMA ReencodeRowAgree ==
  ASSUME Fits, Fits', Agree, ReencodeRow PROVE Agree'
<1> DEFINE cap == handler.capacity
           enc == handler.dims.enc
           row == RowOf(raw, handler.dims, op.row)
<1>1. op.pc = "rows" /\ UNCHANGED <<raw, tree, metadata, torn>>
  BY DEF ReencodeRow
<1>2. /\ op.call \in {"append", "edit"} /\ Calling /\ op.row \in Nat /\ op.last \in Nat
      /\ op.row < op.last /\ enc \in Nat \ {0}
  BY <1>1, UnderWay DEF Fits, OpFits
<1>3. /\ cap \in Nat /\ handler.readerCapacity = cap /\ op.last <= cap
      /\ handler.readerRows \in Nat /\ handler.rows \in Nat
      /\ raw \in Content /\ raw \in Seq(Bytes)
  BY <1>1, <1>2, CallingFits DEF Fits, HandlerFits, Content
<1>4. CASE op.row > handler.readerRows
  <2>1. op' = Idle
    BY <1>4 DEF ReencodeRow
  <2>2. torn'
    <3>1. ASSUME ~torn PROVE FALSE
      <4>1. op.row <= handler.readerRows
        BY <1>2, <3>1 DEF Agree, Changing
      <4> QED
        BY <1>2, <1>3, <1>4, <4>1
    <3> QED
      BY <1>1, <3>1
  <2> QED
    BY <2>1, <2>2, RestsWhole
<1>5. CASE ~(op.row > handler.readerRows)
  <2> DEFINE pc == StepOfRows(op.row + 1, op.last)
             after == RowsAfter(handler.readerRows, op.row)
             encode == RowOf(BytesToEncode, handler.dims, op.row)
  <2>1. /\ op' = [op EXCEPT !.row = op.row + 1, !.pc = pc]
        /\ handler' = [handler EXCEPT !.readerRows = after]
        /\ encoded' = WriteRows(encoded, cap, enc, op.row, <<encode>>)
    BY <1>3, <1>5 DEF ReencodeRow
  <2>2. pc \in {"rows", "recalculate"} /\ pc \in Pcs /\ (pc = "recalculate" => ~(op.row + 1 < op.last))
    BY DEF StepOfRows, Pcs
  <2> HIDE DEF pc
  <2>3. /\ op'.call = op.call /\ op'.pc = pc /\ op'.row = op.row + 1 /\ op'.last = op.last
    <3> DEFINE next == [op EXCEPT !.row = op.row + 1]
    <3>1. op' = [next EXCEPT !.pc = pc]
      BY <2>1
    <3>2. /\ next \in [call : Calls, pc : Pcs, row : Nat, last : Nat, col : Nat,
                      dims : Shapes \union {None}]
          /\ next.call = op.call /\ next.row = op.row + 1 /\ next.last = op.last
      BY <1>1, <1>2, UnderWay
    <3> HIDE DEF next
    <3> QED
      BY <2>2, <3>1, <3>2
  <2>4. /\ after \in Nat /\ op.row + 1 <= after
        /\ after = handler.readerRows \/ (after = op.row + 1 /\ handler.readerRows = op.row)
    BY <1>2, <1>3, <1>5 DEF RowsAfter
  <2> HIDE DEF after
  <2>5. /\ handler'.total = handler.total /\ handler'.rows = handler.rows
        /\ handler'.capacity = cap /\ handler'.readerRows = after
        /\ handler'.dims = handler.dims
    BY <1>2, <2>1, <2>4, CallingFits DEF HandlerTypes
  <2>6. ASSUME ~torn' PROVE Changing'
    <3>1. /\ handler.total = Len(raw)
          /\ handler.rows = RowCount(raw, handler.dims)
          /\ op.last <= handler.rows
          /\ op.row <= handler.readerRows /\ handler.readerRows <= handler.rows
          /\ op.call = "append" => op.last = handler.rows
          /\ op.call = "edit" => handler.readerRows = handler.rows /\ Recorded(metadata, handler)
          /\ HoldsRows(encoded, cap, raw, handler.dims, Untouched)
      BY <1>1, <1>2, <2>6 DEF Agree, Changing
    <3>2. encode = row
      <4>1. SubSeq(raw, 1, Len(raw)) = raw
        BY <1>3
      <4> QED
        BY <3>1, <4>1 DEF BytesToEncode
    <3>3. after <= handler.rows
      BY <1>2, <1>3, <2>4, <3>1
    <3>4. op.row \in 0..cap - 1 /\ Sized(encoded, cap, enc)
      BY <1>2, <1>3, <3>1 DEF HoldsRows
    <3> HIDE DEF row, encode, cap, enc
    <3>5. /\ Sized(encoded', cap, enc)
          /\ \A c \in 0..enc - 1 : encoded'[c * cap + op.row] = Element(row, c, enc)
          /\ \A c \in 0..enc - 1, r \in 0..cap - 1 :
               r # op.row => encoded'[c * cap + r] = encoded[c * cap + r]
      <4>1. encoded' = WriteRows(encoded, cap, enc, op.row, <<row>>)
        BY <2>1, <3>2
      <4>2. OnlyWritten(WriteRows(encoded, cap, enc, op.row, <<row>>), encoded, cap, enc, op.row, row)
        BY <1>2, <1>3, <3>4, WriteOneRow
      <4> QED
        BY <4>1, <4>2 DEF OnlyWritten
    <3>6. ASSUME NEW r \in Untouched'
          PROVE  RowAt(encoded', cap, raw', handler'.dims, r)
      <4>1. r \in 0..after - 1 /\ (r < op.row + 1 \/ op.last <= r)
        BY <2>3, <2>5 DEF Untouched
      <4>2. r \in 0..cap - 1 /\ r \in Int
        <5>1. after <= cap
          <6>1. handler.readerRows <= cap
            BY <1>1, <1>2 DEF Fits, HandlerFits, FitsIn, Converting, cap
          <6> QED
            BY <1>2, <1>3, <2>4, <6>1
        <5> QED
          BY <1>3, <2>4, <4>1, <5>1
      <4>3. CASE r = op.row
        BY <1>1, <2>5, <3>5, <4>3 DEF RowAt, row, enc
      <4>4. CASE r # op.row
        <5>1. r \in Untouched
          BY <1>2, <1>3, <2>4, <4>1, <4>2, <4>4 DEF Untouched
        <5>2. RowAt(encoded, cap, raw, handler.dims, r)
          BY <3>1, <5>1 DEF HoldsRows
        <5>3. \A c \in 0..enc - 1 : encoded'[c * cap + r] = encoded[c * cap + r]
          BY <3>5, <4>2, <4>4
        <5> QED
          BY <1>1, <2>5, <5>2, <5>3 DEF RowAt, enc
      <4> QED
        BY <4>3, <4>4
    <3>7. HoldsRows(encoded', handler'.capacity, raw', handler'.dims, Untouched')
      BY <2>5, <3>5, <3>6 DEF HoldsRows, enc
    <3>8. op'.pc = "recalculate" => op'.row = op'.last
      BY <1>2, <2>2, <2>3
    <3>9. op.call = "edit" => handler' = handler
      <4>1. ASSUME op.call = "edit" PROVE after = handler.readerRows
        BY <1>2, <1>3, <2>4, <3>1, <3>3, <4>1
      <4> QED
        BY <1>2, <2>1, <4>1, CallingFits DEF HandlerTypes
    <3> QED
      BY <1>1, <1>2, <2>2, <2>3, <2>4, <2>5, <2>6, <3>1, <3>3, <3>7, <3>8, <3>9
         DEF Changing
  <2> QED
    BY <1>2, <2>2, <2>3, <2>6, Changes
<1> QED
  BY <1>4, <1>5

\* Rows that are all in their places read back as the file's encoding.
LEMMA ChangedRowsRead ==
  ASSUME Fits, Agree, op.pc = "recalculate", ~torn
  PROVE  /\ FileReadable
         /\ FileColumns = Encoding(raw, handler.dims)
         /\ handler.readerRows = handler.rows
         /\ handler.total = Len(raw) /\ handler.rows = RowCount(raw, handler.dims)
         /\ HoldsRows(encoded, handler.capacity, raw, handler.dims, 0..handler.rows - 1)
<1>1. /\ op.call \in {"append", "edit"} /\ Calling /\ op.last \in Nat
  BY UnderWay
<1>2. /\ handler.capacity \in Nat /\ handler.readerCapacity = handler.capacity
      /\ handler.readerRows \in Nat /\ handler.rows \in Nat /\ raw \in Content
      /\ handler.dims \in Shapes
  BY <1>1, CallingFits
<1>3. FitsIn(handler, handler.capacity)
  BY <1>1 DEF Fits, HandlerFits, Converting
<1>4. /\ handler.total = Len(raw)
      /\ handler.rows = RowCount(raw, handler.dims)
      /\ op.row <= handler.readerRows /\ handler.readerRows <= handler.rows
      /\ op.call = "append" => op.last = handler.rows
      /\ op.call = "edit" => handler.readerRows = handler.rows
      /\ HoldsRows(encoded, handler.capacity, raw, handler.dims, Untouched)
      /\ op.row = op.last
  BY <1>1 DEF Agree, Changing
<1>5. handler.readerRows = handler.rows
  BY <1>1, <1>2, <1>4
<1>6. Untouched = 0..handler.rows - 1
  <2>1. \A r \in 0..handler.readerRows - 1 : r < op.row \/ op.last <= r
    BY <1>1, <1>2, <1>4
  <2> QED
    BY <1>5, <2>1 DEF Untouched
<1>7. /\ Sized(encoded, handler.capacity, handler.dims.enc)
      /\ \A r \in 0..RowCount(raw, handler.dims) - 1 :
           RowAt(encoded, handler.capacity, raw, handler.dims, r)
  BY <1>4, <1>6 DEF HoldsRows
<1>8. RowCount(raw, handler.dims) <= handler.capacity
  BY <1>3, <1>4 DEF FitsIn
<1>9. /\ Readable(encoded, handler.capacity, handler.dims.enc, RowCount(raw, handler.dims))
      /\ ReadColumns(encoded, handler.capacity, handler.dims.enc, RowCount(raw, handler.dims))
           = Encoding(raw, handler.dims)
  BY <1>2, <1>7, <1>8, ReadBack
<1> QED
  BY <1>2, <1>4, <1>5, <1>6, <1>9 DEF FileReadable, FileColumns

LEMMA RecalculateMerkleTreeAgree ==
  ASSUME Fits, Fits', Agree, RecalculateMerkleTree PROVE Agree'
<1>1. op.pc = "recalculate" /\ UNCHANGED <<raw, encoded, metadata, torn>>
  BY DEF RecalculateMerkleTree
<1>2. op.call \in {"append", "edit"} /\ Calling
  BY <1>1, UnderWay
<1>3. CASE torn
  <2>1. CASE op' = Idle
    BY <1>1, <1>3, <2>1, RestsWhole
  <2>2. CASE op' # Idle
    <3>1. op.call = "append" /\ op' = [op EXCEPT !.pc = "metadata"] /\ "metadata" \in Pcs
      BY <2>2 DEF RecalculateMerkleTree, Pcs
    <3>2. op'.call = "append" /\ op'.pc = "metadata"
      BY <3>1, StepsOn
    <3>3. AtRest' /\ Changing'
      BY <1>1, <1>3, <2>2 DEF AtRest, Changing
    <3>4. Converted'
      BY <3>2 DEF Converted, Encoded
    <3> QED
      BY <3>3, <3>4 DEF Agree
  <2> QED
    BY <2>1, <2>2
<1>4. CASE ~torn
  <2>1. /\ FileReadable
        /\ FileColumns = Encoding(raw, handler.dims)
        /\ handler.readerRows = handler.rows
        /\ handler.total = Len(raw) /\ handler.rows = RowCount(raw, handler.dims)
        /\ HoldsRows(encoded, handler.capacity, raw, handler.dims, 0..handler.rows - 1)
    BY <1>1, <1>4, ChangedRowsRead
  <2>2. /\ tree' = Encoding(raw, handler.dims)
        /\ handler' = [handler EXCEPT !.tree = tree']
        /\ op' = IF op.call = "append" THEN [op EXCEPT !.pc = "metadata"] ELSE Idle
    BY <2>1 DEF RecalculateMerkleTree
  <2>3. /\ handler'.total = handler.total /\ handler'.rows = handler.rows
        /\ handler'.capacity = handler.capacity /\ handler'.readerRows = handler.readerRows
        /\ handler'.dims = handler.dims /\ handler'.tree = tree'
    BY <1>2, <2>2, CallingFits DEF HandlerTypes
  <2>4. Whole(handler', raw', encoded', tree')
    BY <1>1, <2>1, <2>2, <2>3 DEF Whole
  <2>5. CASE op.call = "append"
    <3>1. op' = [op EXCEPT !.pc = "metadata"] /\ "metadata" \in Pcs
      BY <2>2, <2>5 DEF Pcs
    <3>2. op'.call = "append" /\ op'.pc = "metadata" /\ op'.row = op.row /\ op'.last = op.last
      BY <2>5, <3>1, StepsOn
    <3>3. op' # Idle
      BY <3>2 DEF Idle
    <3>4. AtRest'
      BY <3>3 DEF AtRest
    <3>5. Converted'
      BY <3>2 DEF Converted, Encoded
    <3>6. Changing'
      <4>1. /\ op.last = handler.rows /\ op.row <= handler.readerRows
            /\ op.last <= handler.rows /\ handler.readerRows <= handler.rows
        BY <1>4, <2>5 DEF Agree, Changing
      <4> QED
        BY <1>1, <2>1, <2>3, <2>4, <3>2, <4>1 DEF Changing
    <3> QED
      BY <3>4, <3>5, <3>6 DEF Agree
  <2>6. CASE op.call = "edit"
    <3>1. op' = Idle
      BY <2>2, <2>6
    <3>2. Recorded(metadata, handler)
      BY <1>4, <2>6 DEF Agree, Changing
    <3>3. Recorded(metadata', handler')
      BY <1>1, <2>3, <3>2 DEF Recorded, OwnMetadata
    <3> QED
      BY <2>4, <3>1, <3>3, RestsWhole
  <2> QED
    BY <1>2, <2>5, <2>6
<1> QED
  BY <1>3, <1>4

LEMMA WriteMetadataAgree ==
  ASSUME Fits, Fits', Agree, WriteMetadata PROVE Agree'
<1>1. /\ op.pc = "metadata" /\ op' = Idle /\ UNCHANGED <<raw, encoded, tree, handler>>
      /\ metadata' = OwnMetadata(handler)
  BY DEF WriteMetadata
<1>2. op.call \in {"append", "reencode"}
  BY <1>1 DEF Fits, OpFits
<1>3. Recorded(metadata', handler')
  BY <1>1 DEF Recorded, OwnMetadata, Metadata
<1>4. CASE op.call = "append"
  <2>1. torn' = torn
    BY <1>4 DEF WriteMetadata
  <2>2. ~torn' => Whole(handler, raw, encoded, tree)
    BY <1>1, <1>4, <2>1 DEF Agree, Changing
  <2> QED
    BY <1>1, <1>3, <2>2, RestsWhole
<1>5. CASE op.call = "reencode"
  <2> DEFINE m == WriterMetadata(op.dims)
  <2>1. torn' = (FlushedRows(raw, op.dims) # RowCount(raw, op.dims))
    BY <1>5 DEF WriteMetadata
  <2>2. /\ op.dims \in Shapes
        /\ encoded = EncodedFile(raw, op.dims)
        /\ tree = Encoding(raw, op.dims)
        /\ handler = Handler(m, tree)
    BY <1>1, <1>5 DEF Agree, Converted
  <2>3. raw \in Content
    BY <1>5, CallingFits DEF Calling
  <2>4. FittingMetadata(m)
    BY <2>2, <2>3, WriterMetadataFits
  <2>5. ASSUME ~torn' PROVE Whole(handler, raw, encoded, tree)
    <3>1. OnDisk(m, raw, encoded, tree)
      BY <2>1, <2>2, <2>3, <2>5, ConvertedOnDisk
    <3> HIDE DEF m
    <3> QED
      BY <2>2, <2>4, <3>1, OnDiskIsWhole
  <2> QED
    BY <1>1, <1>3, <2>5, RestsWhole
<1> QED
  BY <1>2, <1>4, <1>5

-----------------------------------------------------------------------------
(* The tree on disk is the handler's between calls, torn or not, and every *)
(* row of files that pass the handler's own check decodes.                 *)

TreeKept ==
  /\ op = Idle /\ handler # None => handler.tree = tree
  /\ op.call \in {"append", "edit"} \/ op.pc = "metadata" => handler.tree = tree

\* A step in a conversion or a deletion, or one that leaves no handler.
LEMMA NoTreeToKeep ==
  ASSUME op'.call \notin {"append", "edit"}, op'.pc # "metadata",
         op'.call # "none" \/ handler' = None
  PROVE  TreeKept'
<1>1. op' # Idle \/ handler' = None
  BY DEF Idle
<1> QED
  BY <1>1 DEF TreeKept

LEMMA NoHandler ==
  ASSUME op' = Idle, handler' = None PROVE TreeKept'
<1>1. op'.call = "none" /\ op'.pc = "idle"
  BY DEF Idle
<1> QED
  BY <1>1, NoTreeToKeep

LEMMA CallKeepsTree ==
  ASSUME Fits, TreeKept, Call PROVE TreeKept'
<1>1. CASE AttachToExistingUlid
  <2>1. handler' = Handler(metadata, tree) /\ tree' = tree
    BY <1>1 DEF AttachToExistingUlid
  <2> QED
    BY <2>1 DEF TreeKept, Handler
<1>2. ASSUME NEW dims \in Shapes, CreateFromUnencodedFile(dims) PROVE TreeKept'
  <2>1. handler' = None
    BY <1>2 DEF CreateFromUnencodedFile, Free
  <2>2. op'.call \in {"create", "none"} /\ op'.pc \in {"truncate", "idle"}
    BY <1>2 DEF CreateFromUnencodedFile, Free, Begin, Idle
  <2> QED
    BY <2>1, <2>2, NoTreeToKeep
<1>3. ASSUME NEW dims \in Shapes, Reshape(dims) PROVE TreeKept'
  <2>1. op'.call = "reshape" /\ op'.pc = "truncate"
    BY <1>3 DEF Reshape, Begin, Idle
  <2> QED
    BY <2>1, NoTreeToKeep
<1>4. ASSUME NEW bytes \in Appends, AppendBytes(bytes) PROVE TreeKept'
  <2>1. /\ Attached /\ tree' = tree
        /\ handler' = [handler EXCEPT !.total = handler.total + Len(bytes),
                         !.rows = CeilDiv(handler.total + Len(bytes), RowBytes(handler.dims))]
    BY <1>4 DEF AppendBytes
  <2>2. handler'.tree = handler.tree
    BY <2>1, AttachedFits DEF HandlerTypes
  <2> QED
    BY <2>1, <2>2 DEF TreeKept, Attached
<1>5. ASSUME NEW start \in 0..MaxLength, NEW patch \in Patches, EditBytes(start, patch)
      PROVE  TreeKept'
  <2>1. Attached /\ tree' = tree /\ handler' = handler
    BY <1>5 DEF EditBytes
  <2> QED
    BY <2>1 DEF TreeKept, Attached
<1>6. CASE ReencodeUnencodedFile
  <2>1. op'.call = "reencode" /\ op'.pc = "encode"
    BY <1>6 DEF ReencodeUnencodedFile, Begin, Idle
  <2> QED
    BY <2>1, NoTreeToKeep
<1>7. CASE DeleteAllFiles
  <2>1. op'.call = "delete" /\ op'.pc = "remove_encoded"
    BY <1>7 DEF DeleteAllFiles, Begin, Idle
  <2> QED
    BY <2>1, NoTreeToKeep
<1> QED
  BY <1>1, <1>2, <1>3, <1>4, <1>5, <1>6, <1>7 DEF Call

\* The steps of a conversion write the tree last, with the handler's.
LEMMA ConversionKeepsTree ==
  ASSUME Fits, TreeKept,
         \/ TruncateEncoded \/ EncodeFile \/ CreateMetadata \/ WriteNewMetadata
         \/ CreateTree \/ WriteNewTree \/ StampUlid \/ WriteTree
  PROVE  TreeKept'
<1>1. CASE \/ TruncateEncoded \/ CreateMetadata \/ WriteNewMetadata \/ CreateTree
           \/ (EncodeFile /\ op' # Idle) \/ (WriteNewTree /\ op.call = "create")
  <2>1. PICK pc \in {"encode", "tree", "create_metadata", "write_metadata", "create_tree",
                     "write_tree", "stamp"} : op' = [op EXCEPT !.pc = pc]
    BY <1>1 DEF TruncateEncoded, EncodeFile, CreateMetadata, WriteNewMetadata, CreateTree,
                WriteNewTree
  <2>2. op.call \in {"create", "reshape", "reencode"}
    BY <1>1 DEF TruncateEncoded, EncodeFile, CreateMetadata, WriteNewMetadata, CreateTree,
                WriteNewTree, Fits, OpFits
  <2>3. pc \in Pcs
    BY DEF Pcs, Converting
  <2>4. op'.call = op.call /\ op'.pc = pc
    BY <2>1, <2>3, StepsOn
  <2> QED
    BY <2>2, <2>4, NoTreeToKeep
<1>2. CASE EncodeFile /\ op' = Idle
  <2>1. op.call \in {"create", "reshape", "reencode"}
    BY <1>2 DEF EncodeFile, Fits, OpFits
  <2>2. handler' = None
    <3>1. ASSUME op' = [op EXCEPT !.pc = IF op.call = "reencode" THEN "tree"
                                                                 ELSE "create_metadata"]
          PROVE  FALSE
      <4> DEFINE pc == IF op.call = "reencode" THEN "tree" ELSE "create_metadata"
      <4>1. pc \in Pcs
        BY DEF Pcs, Converting
      <4> HIDE DEF pc
      <4>2. op'.call = op.call
        BY <3>1, <4>1, StepsOn DEF pc
      <4> QED
        BY <1>2, <2>1, <4>2 DEF Idle
    <3> QED
      BY <1>2, <3>1 DEF EncodeFile
  <2> QED
    BY <1>2, <2>2, NoHandler
<1>3. CASE WriteNewTree /\ op.call # "create"
  <2> DEFINE made == Handler(WriterMetadata(op.dims), tree')
  <2>1. handler' = [made EXCEPT !.total = handler.total]
    BY <1>3 DEF WriteNewTree
  <2>2. made.tree = tree' /\ [made EXCEPT !.total = handler.total].tree = made.tree
    BY DEF Handler
  <2> HIDE DEF made
  <2> QED
    BY <2>1, <2>2 DEF TreeKept
<1>4. CASE StampUlid
  <2>1. handler' = Handler(metadata', tree) /\ tree' = tree
    BY <1>4 DEF StampUlid
  <2> QED
    BY <2>1 DEF TreeKept, Handler
<1>5. CASE WriteTree
  <2>1. handler' = Handler(WriterMetadata(op.dims), tree')
    BY <1>5 DEF WriteTree
  <2> QED
    BY <2>1 DEF TreeKept, Handler
<1> QED
  BY <1>1, <1>2, <1>3, <1>4, <1>5

\* Of the other steps only the recalculation writes it, in both places.
LEMMA StepKeepsTree ==
  ASSUME Fits, TreeKept, Step PROVE TreeKept'
<1>1. CASE GrowFile
  <2>1. op.pc = "grow" /\ tree' = tree /\ handler' = handler
    BY <1>1 DEF GrowFile
  <2>2. op.call = "append"
    BY <2>1 DEF Fits, OpFits
  <2> QED
    BY <2>1, <2>2 DEF TreeKept
<1>2. CASE MoveOneColumn
  <2>1. /\ op.pc = "move" /\ tree' = tree
        /\ \/ handler' = handler
           \/ handler' = [handler EXCEPT !.capacity = NewCapacity(handler, op.last),
                                        !.readerCapacity = NewCapacity(handler, op.last)]
    BY <1>2 DEF MoveOneColumn
  <2>2. op.call = "append" /\ Calling
    BY <2>1 DEF Fits, OpFits, Calling
  <2>3. handler'.tree = handler.tree
    BY <2>1, <2>2, CallingFits DEF HandlerTypes
  <2> QED
    BY <2>1, <2>2, <2>3 DEF TreeKept
<1>3. CASE ReencodeRow
  <2>1. /\ op.pc = "rows" /\ tree' = tree
        /\ \/ handler' = handler
           \/ handler' = [handler EXCEPT !.readerRows = RowsAfter(@, op.row)]
    BY <1>3 DEF ReencodeRow
  <2>2. op.call \in {"append", "edit"} /\ Calling
    BY <2>1 DEF Fits, OpFits, Calling
  <2>3. handler'.tree = handler.tree
    BY <2>1, <2>2, CallingFits DEF HandlerTypes
  <2> QED
    BY <2>1, <2>2, <2>3 DEF TreeKept
<1>4. CASE RecalculateMerkleTree
  <2>1. /\ op.pc = "recalculate"
        /\ \/ handler' = handler /\ tree' = tree
           \/ handler' = [handler EXCEPT !.tree = tree']
    BY <1>4 DEF RecalculateMerkleTree
  <2>2. op.call \in {"append", "edit"} /\ Calling
    BY <2>1 DEF Fits, OpFits, Calling
  <2>3. handler' = [handler EXCEPT !.tree = tree'] => handler'.tree = tree'
    BY <2>2, CallingFits DEF HandlerTypes
  <2> QED
    BY <2>1, <2>2, <2>3 DEF TreeKept
<1>5. CASE WriteMetadata
  BY <1>5 DEF WriteMetadata, TreeKept
<1>6. CASE RemoveEncoded \/ RemoveTree \/ RemoveMetadata
  <2>1. /\ op.pc \in {"remove_encoded", "remove_tree", "remove_metadata"}
        /\ handler' = handler
        /\ \/ op' = Idle
           \/ \E pc \in {"remove_tree", "remove_metadata"} : op' = [op EXCEPT !.pc = pc]
    BY <1>6 DEF RemoveEncoded, RemoveTree, RemoveMetadata
  <2>2. handler = None /\ op.call = "delete"
    BY <2>1 DEF Fits, OpFits, HandlerFits
  <2>3. ASSUME NEW pc \in {"remove_tree", "remove_metadata"}, op' = [op EXCEPT !.pc = pc]
        PROVE  TreeKept'
    <3>1. pc \in Pcs
      BY DEF Pcs
    <3>2. op'.call = "delete" /\ op'.pc = pc
      BY <2>2, <2>3, <3>1, StepsOn
    <3> QED
      BY <3>2, NoTreeToKeep
  <2> QED
    BY <2>1, <2>2, <2>3, NoHandler
<1> QED
  BY <1>1, <1>2, <1>3, <1>4, <1>5, <1>6, ConversionKeepsTree DEF Step

LEMMA NextKeepsTree ==
  ASSUME Fits, TreeKept, [Next]_vars PROVE TreeKept'
<1>1. CASE UNCHANGED vars
  BY <1>1 DEF vars, TreeKept
<1>2. CASE Crash
  BY <1>2, NoHandler DEF Crash
<1> QED
  BY <1>1, <1>2, CallKeepsTree, StepKeepsTree DEF Next

\* Columns that are the encoding of a file are rows that decode to its bytes.
LEMMA RowsDecode ==
  ASSUME NEW data \in Content, NEW dims \in Shapes, NEW cap \in Nat, NEW file, NEW rows \in Nat,
         ReadColumns(file, cap, dims.enc, rows) = Encoding(data, dims)
  PROVE  \A r \in 0..rows - 1 :
           DecodeRow(ReadRow(file, cap, dims.enc, r)) = RowOf(data, dims, r)
<1> DEFINE enc == dims.enc
           count == RowCount(data, dims)
<1>1. enc \in Nat \ {0} /\ count \in Nat
  BY RowsBegin, ShapesAssumption
<1> HIDE DEF enc, count
<1>2. [c \in 1..enc |-> [r \in 1..rows |-> file[(c - 1) * cap + r - 1]]]
        = [c \in 1..enc |-> [r \in 1..count |-> Element(RowOf(data, dims, r - 1), c - 1, enc)]]
  BY DEF ReadColumns, ReadColumn, Encoding, enc, count
<1>3. \A c \in 1..enc :
        [r \in 1..rows |-> file[(c - 1) * cap + r - 1]]
          = [r \in 1..count |-> Element(RowOf(data, dims, r - 1), c - 1, enc)]
  BY <1>2
<1>4. \A c \in 1..enc, r \in 1..rows :
        file[(c - 1) * cap + r - 1] = Element(RowOf(data, dims, r - 1), c - 1, enc)
  <2> TAKE c \in 1..enc
  <2> DEFINE one == [r \in 1..rows |-> file[(c - 1) * cap + r - 1]]
             two == [r \in 1..count |-> Element(RowOf(data, dims, r - 1), c - 1, enc)]
  <2>1. one = two
    BY <1>3
  <2>2. DOMAIN one = 1..rows /\ DOMAIN two = 1..count
    OBVIOUS
  <2>3. \A r \in 1..rows : one[r] = file[(c - 1) * cap + r - 1]
    OBVIOUS
  <2>4. \A r \in 1..count : two[r] = Element(RowOf(data, dims, r - 1), c - 1, enc)
    OBVIOUS
  <2> HIDE DEF one, two
  <2>5. 1..rows = 1..count
    BY <2>1, <2>2
  <2> QED
    BY <2>1, <2>3, <2>4, <2>5
<1>5. ASSUME NEW r \in 0..rows - 1
      PROVE  DecodeRow(ReadRow(file, cap, enc, r)) = RowOf(data, dims, r)
  <2> DEFINE row == RowOf(data, dims, r)
             values == ReadRow(file, cap, enc, r)
  <2>1. values = [c \in 1..enc |-> file[(c - 1) * cap + r]]
    BY DEF ReadRow
  <2>2. ASSUME NEW c \in 1..enc PROVE file[(c - 1) * cap + r] = Element(row, c - 1, enc)
    <3>1. r + 1 \in 1..rows /\ r + 1 - 1 = r
      OBVIOUS
    <3>2. file[(c - 1) * cap + (r + 1) - 1] = Element(RowOf(data, dims, (r + 1) - 1), c - 1, enc)
      BY <1>4, <3>1
    <3>3. (c - 1) * cap + (r + 1) - 1 = (c - 1) * cap + r
      <4>1. (c - 1) * cap \in Int
        BY <1>1
      <4> QED
        BY <4>1
    <3> QED
      BY <3>1, <3>2, <3>3
  <2> HIDE DEF row, values
  <2>3. values = [c \in 1..enc |-> Element(row, c - 1, enc)]
    BY <2>1, <2>2
  <2>4. DOMAIN values = 1..enc /\ Len(values) = enc
    <3>1. DOMAIN values = 1..enc
      BY <2>3
    <3> DEFINE S == {Element(row, c - 1, enc) : c \in 1..enc}
    <3>2. \A c \in 1..enc : Element(row, c - 1, enc) \in S
      OBVIOUS
    <3> HIDE DEF S
    <3>3. values \in [1..enc -> S]
      BY <2>3, <3>2
    <3>4. values \in Seq(S)
      BY <1>1, <3>3
    <3> QED
      BY <1>1, <3>1, <3>4, LenProperties
  <2>5. values[1].row = row
    BY <1>1, <2>3 DEF Element
  <2> QED
    BY <2>3, <2>4, <2>5 DEF DecodeRow, row, values
<1> QED
  BY <1>5 DEF enc

-----------------------------------------------------------------------------
(* The theorems.                                                           *)

LEMMA NextFits ==
  ASSUME Fits, [Next]_vars PROVE Fits'
<1>1. CASE UNCHANGED vars
  BY <1>1 DEF vars, Fits, OpFits, MetadataFits, HandlerFits, Calling
<1>2. CASE Call
  BY <1>2, AttachFits, CreateFits, ReshapeFits, AppendFits, EditFits, ReencodeFits, DeleteFits
     DEF Call
<1>3. CASE Step
  BY <1>3, TruncateEncodedFits, EncodeFileFits, CreateMetadataFits, WriteNewMetadataFits,
     CreateTreeFits, WriteNewTreeFits, StampUlidFits, GrowFileFits, MoveOneColumnFits,
     ReencodeRowFits, RecalculateMerkleTreeFits, WriteMetadataFits, WriteTreeFits, RemoveFits
     DEF Step
<1>4. CASE Crash
  BY <1>4, CrashFits
<1> QED
  BY <1>1, <1>2, <1>3, <1>4 DEF Next

LEMMA FitsHolds == Spec => []Fits
  BY InitFits, NextFits, PTL DEF Spec

\* No column ever runs into the next one: through every sequence of appends,
\* edits, reshapes, reencodings and crashes, the rows that the handler and its
\* reader count fit the capacity both have in mind (append_bytes,
\* set_new_capacity, new_attach_to_existing_files).
THEOREM RowsAlwaysFit == Spec => []RowsFitCapacity
<1>1. ASSUME Fits PROVE RowsFitCapacity
  <2>1. ASSUME Attached
        PROVE  /\ handler.rows <= handler.capacity
               /\ handler.readerRows <= handler.readerCapacity
               /\ handler.readerCapacity = handler.capacity
    BY <1>1, <2>1, AttachedFits DEF FitsIn, HandlerTypes
  <2> QED
    BY <2>1 DEF RowsFitCapacity
<1> QED
  BY <1>1, FitsHolds, PTL

LEMMA NextAgree ==
  ASSUME Fits, Fits', Agree, [Next]_vars PROVE Agree'
<1>1. CASE UNCHANGED vars
  <2>1. /\ raw' = raw /\ encoded' = encoded /\ tree' = tree /\ metadata' = metadata
        /\ handler' = handler /\ op' = op /\ torn' = torn /\ leftover' = leftover
    BY <1>1 DEF vars
  <2>2. AtRest'
    BY <2>1 DEF Agree, AtRest, Attachable
  <2>3. Converted'
    BY <2>1 DEF Agree, Converted, WriterMetadata
  <2>4. Changing'
    BY <2>1 DEF Agree, Changing, Untouched
  <2> QED
    BY <2>2, <2>3, <2>4 DEF Agree
<1>2. CASE Call
  BY <1>2, AttachAgree, CreateAgree, ReshapeAgree, AppendAgree, EditAgree, ReencodeAgree,
     DeleteAgree DEF Call
<1>3. CASE Step
  BY <1>3, TruncateEncodedAgree, EncodeFileAgree, CreateMetadataAgree, WriteNewMetadataAgree,
     CreateTreeAgree, WriteNewTreeAgree, StampUlidAgree, GrowFileAgree, MoveOneColumnAgree,
     ReencodeRowAgree, RecalculateMerkleTreeAgree, WriteMetadataAgree, WriteTreeAgree,
     RemoveAgree DEF Step
<1>4. CASE Crash
  BY <1>4, CrashAgree
<1> QED
  BY <1>1, <1>2, <1>3, <1>4 DEF Next

LEMMA AgreeHolds == Spec => [](Fits /\ Agree)
<1>1. ASSUME Init PROVE Fits /\ Agree
  BY <1>1, InitFits, InitAgree
<1>2. ASSUME Fits, Agree, [Next]_vars PROVE Fits' /\ Agree'
  BY <1>2, NextFits, NextAgree
<1> QED
  BY <1>1, <1>2, PTL DEF Spec

\* No append or edit of files that are not torn fails half way: every row it
\* writes is within the reader's bound, and the columns can be read for the
\* new tree (replace_encoded_row, recalculate_merkle_tree).
THEOREM CallsSucceed == Spec => []NoCallFailsHalfway
<1>1. ASSUME Fits, Agree PROVE NoCallFailsHalfway
  <2> SUFFICES ASSUME ~torn
               PROVE  /\ op.pc = "rows" => op.row <= handler.readerRows
                      /\ op.pc = "recalculate" => FileReadable
    BY DEF NoCallFailsHalfway
  <2>1. op.pc = "rows" => op.row <= handler.readerRows
    BY <1>1, UnderWay DEF Agree, Changing
  <2>2. op.pc = "recalculate" => FileReadable
    BY <1>1, ChangedRowsRead
  <2> QED
    BY <2>1, <2>2
<1> QED
  BY <1>1, AgreeHolds, PTL

\* The handler's own check finds every tear: whatever crashes, failed calls and
\* reencodings came before, files that pass it agree with each other and with the
\* tree on disk, which it does not read, and every row decodes to the file's
\* bytes (verify_all_files_agree, get_decoded_row).
THEOREM SelfCheckSound == Spec => []SelfCheckFindsTears
<1>1. ASSUME Init PROVE Fits /\ TreeKept
  <2>1. handler = None /\ op.call = "none" /\ op.pc = "idle"
    BY <1>1 DEF Init, Idle
  <2> QED
    BY <1>1, <2>1, InitFits DEF TreeKept
<1>2. ASSUME Fits, TreeKept, [Next]_vars PROVE Fits' /\ TreeKept'
  BY <1>2, NextFits, NextKeepsTree
<1>3. ASSUME Fits, TreeKept PROVE SelfCheckFindsTears
  <2> SUFFICES ASSUME Attached, AllFilesAgree
               PROVE  /\ ContentsAgree
                      /\ \A r \in 0..handler.readerRows - 1 :
                           DecodedRow(r) = RowOf(raw, handler.dims, r)
    BY DEF SelfCheckFindsTears
  <2>1. tree = handler.tree
    BY <1>3 DEF TreeKept, Attached
  <2>2. ContentsAgree
    BY <2>1 DEF AllFilesAgree, ContentsAgree
  <2>3. /\ raw \in Content /\ handler.dims \in Shapes /\ handler.readerCapacity \in Nat
        /\ handler.readerRows \in Nat
    BY <1>3, AttachedFits DEF HandlerTypes
  <2>4. ReadColumns(encoded, handler.readerCapacity, handler.dims.enc, handler.readerRows)
          = Encoding(raw, handler.dims)
    BY DEF AllFilesAgree, FileColumns
  <2>5. \A r \in 0..handler.readerRows - 1 :
          DecodeRow(ReadRow(encoded, handler.readerCapacity, handler.dims.enc, r))
            = RowOf(raw, handler.dims, r)
    BY <2>3, <2>4, RowsDecode
  <2> QED
    BY <2>2, <2>5 DEF DecodedRow
<1> QED
  BY <1>1, <1>2, <1>3, PTL DEF Spec
-----------------------------------------------------------------------------
(* The metadata file: what is written over it is never shorter, unless a   *)
(* reencode leaves rows out.                                               *)

\* The files of the Ulid are opened.
Opened == handler # None \/ Calling

\* Metadata of no more than there is of a file.
Within(m, data) ==
  /\ m.rows <= RowCount(data, m.dims)
  /\ m.capacity <= RowCapacity(RowCount(data, m.dims))
  /\ m.bytes <= Len(data)

\* What a reencode of all rows writes, the longest text there can be.
FullMetadata(data, dims) ==
  Metadata("own", dims, RowCount(data, dims), RowCapacity(RowCount(data, dims)), Len(data))

Fields == [ulid : {"own", "default"}, dims : Shapes, rows : Nat, capacity : Nat, bytes : Nat]

\* The metadata file holds metadata.
Written ==
  \/ metadata \notin {None, Truncated}
  \/ op.pc \in {"create_tree", "write_tree", "stamp"}
  \/ Opened /\ op.call # "reshape"

\* The text of metadata, with what is left behind it, is no longer than the
\* one of a complete reencode.
TextFits(m, data, rest) ==
  /\ Within(m, data)
  /\ TextSize(m) + rest <= TextSize(FullMetadata(data, m.dims))

\* The metadata of the handler are of as many digits as the ones it wrote last.
Outgrows(h, m) ==
  /\ m.dims = h.dims
  /\ m.bytes <= h.total
  /\ m.capacity <= h.capacity

FileTexts ==
  /\ leftover \in Nat
  /\ Written =>
       /\ metadata \in Fields
       /\ metadata.rows <= CeilDiv(metadata.bytes, RowBytes(metadata.dims))
       /\ raw # None => TextFits(metadata, raw, leftover)
  /\ op.pc \in {"write_metadata", "create_tree", "write_tree", "stamp"} => leftover = 0

HandlerTexts ==
  /\ Opened => Within(OwnMetadata(handler), raw)
  /\ Opened /\ op.call # "reshape" =>
       /\ metadata.dims = handler.dims
       /\ metadata.ulid = "own" \/ ~torn => Outgrows(handler, metadata)
       /\ ~torn => leftover = 0
  /\ op.call = "append" =>
       /\ handler.rows = CeilDiv(handler.total, RowBytes(handler.dims))
       /\ op.last = handler.rows
  /\ op.pc \in {"grow", "move"} => handler.capacity < op.last
  /\ op.call = "reencode" => op.dims = handler.dims

Texts == FileTexts /\ HandlerTexts

\* Larger numbers have no fewer digits.
LEMMA DigitsGrow ==
  ASSUME NEW m \in Nat, NEW n \in Nat, m <= n
  PROVE  Digits(m) \in Nat /\ Digits(m) <= Digits(n)
<1> DEFINE P == {p \in NewDigits : p <= m}
           Q == {p \in NewDigits : p <= n}
<1>1. P \subseteq Q /\ Q \subseteq NewDigits
  <2>1. ASSUME NEW p \in NewDigits, p <= m PROVE p <= n
    BY <2>1, DigitsAssumption
  <2> QED
    BY <2>1
<1>2. IsFiniteSet(Q)
  BY <1>1, DigitsAssumption, FS_Subset
<1>3. IsFiniteSet(P) /\ Cardinality(P) <= Cardinality(Q)
  BY <1>1, <1>2, FS_Subset
<1>4. Cardinality(P) \in Nat /\ Cardinality(Q) \in Nat
  BY <1>2, <1>3, FS_CardinalityType
<1>5. Digits(m) = 1 + Cardinality(P) /\ Digits(n) = 1 + Cardinality(Q)
  BY DEF Digits
<1> HIDE DEF P, Q
<1> QED
  BY <1>3, <1>4, <1>5

\* Metadata of larger numbers are no shorter.
LEMMA TextGrows ==
  ASSUME NEW m \in Fields, NEW n \in Fields, m.dims = n.dims,
         m.rows <= n.rows, m.capacity <= n.capacity, m.bytes <= n.bytes
  PROVE  TextSize(m) \in Nat /\ TextSize(n) \in Nat /\ TextSize(m) <= TextSize(n)
<1>1. /\ m.dims.pre \in Nat /\ m.dims.enc \in Nat
      /\ m.rows \in Nat /\ m.capacity \in Nat /\ m.bytes \in Nat
      /\ n.rows \in Nat /\ n.capacity \in Nat /\ n.bytes \in Nat
  BY ShapesAssumption DEF Fields
<1>2. \A k \in Nat : Digits(k) \in Nat
  BY DigitsGrow
<1>3. /\ Digits(m.rows) <= Digits(n.rows) /\ Digits(m.capacity) <= Digits(n.capacity)
      /\ Digits(m.bytes) <= Digits(n.bytes)
  BY <1>1, DigitsGrow
<1> QED
  BY <1>1, <1>2, <1>3 DEF TextSize

\* A longer file has no fewer rows.
LEMMA CountGrows ==
  ASSUME NEW m \in Nat, NEW n \in Nat, m <= n, NEW b \in Nat \ {0}
  PROVE  CeilDiv(m, b) \in Nat /\ CeilDiv(m, b) <= CeilDiv(n, b)
<1>1. /\ CeilDiv(m, b) \in Nat /\ \A k \in Nat : m <= k * b => CeilDiv(m, b) <= k
      /\ CeilDiv(n, b) \in Nat /\ n <= CeilDiv(n, b) * b
  BY RowsHold
<1> DEFINE c == CeilDiv(n, b)
<1>2. c * b \in Nat /\ n <= c * b
  BY <1>1
<1> HIDE DEF c
<1>3. m <= c * b
  BY <1>2
<1> QED
  BY <1>1, <1>3 DEF c

\* What a file may have on disk, it may have after an append or an edit.
LEMMA RoomGrows ==
  ASSUME NEW data \in Content, NEW longer \in Content, Len(data) <= Len(longer),
         NEW dims \in Shapes
  PROVE  /\ FullMetadata(data, dims) \in Fields /\ FullMetadata(longer, dims) \in Fields
         /\ RowCount(data, dims) <= RowCount(longer, dims)
         /\ TextSize(FullMetadata(data, dims)) \in Nat
         /\ TextSize(FullMetadata(data, dims)) <= TextSize(FullMetadata(longer, dims))
<1>1. Len(data) \in Nat /\ Len(longer) \in Nat
  BY DEF Content
<1>2. /\ RowBytes(dims) \in Nat \ {0}
      /\ RowCount(data, dims) \in Nat /\ RowCount(longer, dims) \in Nat
  BY RowsBegin
<1>3. RowCount(data, dims) <= RowCount(longer, dims)
  BY <1>1, <1>2, CountGrows, RowsCounted
<1>4. /\ RowCapacity(RowCount(data, dims)) \in Nat /\ RowCapacity(RowCount(longer, dims)) \in Nat
      /\ RowCapacity(RowCount(data, dims)) <= RowCapacity(RowCount(longer, dims))
  BY <1>2, <1>3 DEF RowCapacity
<1>5. FullMetadata(data, dims) \in Fields /\ FullMetadata(longer, dims) \in Fields
  BY <1>1, <1>2, <1>4 DEF FullMetadata, Metadata, Fields
<1>6. TextSize(FullMetadata(data, dims)) \in Nat
      /\ TextSize(FullMetadata(data, dims)) <= TextSize(FullMetadata(longer, dims))
  <2> DEFINE m == FullMetadata(data, dims)
             n == FullMetadata(longer, dims)
  <2>1. /\ m.dims = n.dims /\ m.rows <= n.rows /\ m.capacity <= n.capacity
        /\ m.bytes <= n.bytes
    BY <1>3, <1>4 DEF FullMetadata, Metadata
  <2>2. m \in Fields /\ n \in Fields
    BY <1>5
  <2> HIDE DEF m, n
  <2> QED
    BY <2>1, <2>2, TextGrows DEF m, n
<1> QED
  BY <1>3, <1>5, <1>6

LEMMA StillWithin ==
  ASSUME NEW data \in Content, NEW longer \in Content, Len(data) <= Len(longer),
         NEW m \in Fields, Within(m, data)
  PROVE  Within(m, longer)
<1>1. /\ m.dims \in Shapes /\ m.rows \in Nat /\ m.capacity \in Nat /\ m.bytes \in Nat
      /\ Len(data) \in Nat /\ Len(longer) \in Nat
  BY DEF Fields, Content
<1>2. /\ RowCount(data, m.dims) \in Nat /\ RowCount(longer, m.dims) \in Nat
      /\ RowCount(data, m.dims) <= RowCount(longer, m.dims)
  BY <1>1, RowsBegin, RoomGrows
<1> QED
  BY <1>1, <1>2 DEF Within, RowCapacity

LEMMA StillFits ==
  ASSUME NEW data \in Content, NEW longer \in Content, Len(data) <= Len(longer),
         NEW m \in Fields, NEW rest \in Nat, TextFits(m, data, rest)
  PROVE  TextFits(m, longer, rest)
<1>1. Within(m, longer)
  BY StillWithin DEF TextFits
<1>2. /\ TextSize(FullMetadata(data, m.dims)) \in Nat
      /\ TextSize(FullMetadata(longer, m.dims)) \in Nat
      /\ TextSize(FullMetadata(data, m.dims)) <= TextSize(FullMetadata(longer, m.dims))
  <2>1. m.dims \in Shapes
    BY DEF Fields
  <2>2. Len(longer) <= Len(longer)
    BY DEF Content
  <2> QED
    BY <2>1, <2>2, RoomGrows
<1>3. TextSize(m) \in Nat
  <2>1. m.rows <= m.rows /\ m.capacity <= m.capacity /\ m.bytes <= m.bytes
    BY DEF Fields
  <2> QED
    BY <2>1, TextGrows
<1> QED
  BY <1>1, <1>2, <1>3 DEF TextFits

\* Metadata within a file have a text that fits.
LEMMA WithinFits ==
  ASSUME NEW data \in Content, NEW m \in Fields, Within(m, data)
  PROVE  /\ TextSize(m) \in Nat
         /\ TextSize(FullMetadata(data, m.dims)) \in Nat
         /\ TextSize(m) <= TextSize(FullMetadata(data, m.dims))
         /\ TextFits(m, data, 0)
<1> DEFINE n == FullMetadata(data, m.dims)
<1>1. m.dims \in Shapes /\ Len(data) <= Len(data)
  BY DEF Fields, Content
<1>2. n \in Fields
  BY <1>1, RoomGrows
<1>3. n.dims = m.dims /\ m.rows <= n.rows /\ m.capacity <= n.capacity /\ m.bytes <= n.bytes
  BY DEF FullMetadata, Metadata, Within
<1> HIDE DEF n
<1>4. TextSize(m) \in Nat /\ TextSize(n) \in Nat /\ TextSize(m) <= TextSize(n)
  BY <1>2, <1>3, TextGrows
<1> QED
  BY <1>4 DEF n, TextFits

\* What is known while the files are opened.
LEMMA OpenedFits ==
  ASSUME Fits, Opened
  PROVE  /\ raw \in Content /\ raw # None /\ Len(raw) \in Nat
         /\ HandlerTypes(handler) /\ handler.dims \in Shapes
         /\ handler.rows \in Nat /\ handler.capacity \in Nat /\ handler.total \in Nat
         /\ handler.total <= Len(raw)
         /\ OwnMetadata(handler) \in Fields
<1>1. raw \in Content /\ HandlerTypes(handler) /\ handler.total <= Len(raw)
  BY DEF Opened, Fits, HandlerFits
<1>2. raw # None
  BY <1>1, NoneAssumption
<1> QED
  BY <1>1, <1>2 DEF HandlerTypes, OwnMetadata, Metadata, Fields, Content

\* A step of an append, an edit or a reencode that leaves the metadata alone.
LEMMA SameTexts ==
  ASSUME Fits, Texts, UNCHANGED <<raw, metadata, leftover, torn>>,
         op.call \in {"append", "edit", "reencode"},
         op'.call = op.call, op'.last = op.last, op'.dims = op.dims,
         op'.pc \notin {"write_metadata", "create_tree", "write_tree", "stamp"},
         op'.pc \in {"grow", "move"} => op.pc \in {"grow", "move"},
         handler'.dims = handler.dims, handler'.rows = handler.rows,
         handler'.capacity = handler.capacity, handler'.total = handler.total
  PROVE  Texts'
<1>1. Opened /\ Opened' /\ op.call # "reshape" /\ op'.call # "reshape" /\ Written
  BY DEF Opened, Calling, Written
<1>2. OwnMetadata(handler)' = OwnMetadata(handler)
  BY DEF OwnMetadata
<1>3. FileTexts'
  BY <1>1 DEF Texts, FileTexts
<1>4. HandlerTexts'
  BY <1>1, <1>2 DEF Texts, HandlerTexts, Outgrows
<1> QED
  BY <1>3, <1>4 DEF Texts

\* An append or an edit ends that has not written the metadata.
LEMMA TextsAtRest ==
  ASSUME Fits, Texts, UNCHANGED <<raw, metadata, leftover, torn>>,
         op.call \in {"append", "edit"}, op' = Idle,
         handler'.dims = handler.dims, handler'.rows = handler.rows,
         handler'.capacity = handler.capacity, handler'.total = handler.total
  PROVE  Texts'
<1>1. op'.call = "none" /\ op'.pc = "idle"
  BY DEF Idle
<1>2. Opened /\ op.call # "reshape" /\ Written
  BY DEF Opened, Calling, Written
<1>3. OwnMetadata(handler)' = OwnMetadata(handler)
  BY DEF OwnMetadata
<1>4. FileTexts'
  BY <1>1, <1>2 DEF Texts, FileTexts
<1>5. HandlerTexts'
  BY <1>1, <1>2, <1>3 DEF Texts, HandlerTexts, Outgrows
<1> QED
  BY <1>4, <1>5 DEF Texts

\* The files are closed, and their metadata left as they are.
LEMMA ClosedTexts ==
  ASSUME Fits, Texts, UNCHANGED <<metadata, leftover>>,
         raw' = raw \/ raw' = None \/ metadata = None,
         handler' = None, op'.call \in {"none", "create", "delete"},
         op'.pc \in {"idle", "truncate", "encode", "create_metadata", "remove_encoded",
                     "remove_tree", "remove_metadata"}
  PROVE  Texts'
<1>1. ~Opened'
  BY DEF Opened, Calling
<1>2. Written' => Written /\ metadata # None
  BY <1>1 DEF Written
<1>3. FileTexts'
  BY <1>1, <1>2 DEF Texts, FileTexts
<1>4. HandlerTexts'
  BY <1>1 DEF HandlerTexts
<1> QED
  BY <1>3, <1>4 DEF Texts

\* A reshape has not come to the metadata.
LEMMA ReshapingTexts ==
  ASSUME Fits, Texts, Opened, UNCHANGED <<raw, metadata, leftover, handler>>,
         op'.call = "reshape", op'.pc \in {"truncate", "encode", "create_metadata"}
  PROVE  Texts'
<1>1. Opened' /\ (Written' => Written)
  BY DEF Opened, Calling, Written
<1>2. OwnMetadata(handler)' = OwnMetadata(handler)
  BY DEF OwnMetadata
<1>3. FileTexts'
  BY <1>1 DEF Texts, FileTexts
<1>4. HandlerTexts'
  BY <1>1, <1>2 DEF Texts, HandlerTexts
<1> QED
  BY <1>3, <1>4 DEF Texts

\* The metadata of a conversion are those of the file.
LEMMA WriterTexts ==
  ASSUME raw \in Content, NEW dims \in Shapes
  PROVE  LET m == WriterMetadata(dims)
         IN  /\ m \in Fields /\ m.dims = dims /\ m.bytes = Len(raw)
             /\ m.capacity = RowCapacity(RowCount(raw, dims))
             /\ m.rows <= CeilDiv(m.bytes, RowBytes(m.dims))
             /\ TextFits(m, raw, 0)
<1> DEFINE m == WriterMetadata(dims)
<1>1. /\ m.dims = dims /\ m.rows = FlushedRows(raw, dims) /\ m.bytes = Len(raw)
      /\ m.capacity = RowCapacity(RowCount(raw, dims))
  BY DEF WriterMetadata, Metadata
<1>2. m \in Fields
  BY WriterMetadataFits DEF FittingMetadata, Fields
<1>3. FlushedRows(raw, dims) <= RowCount(raw, dims)
  BY WriterFits
<1>4. m.rows <= CeilDiv(m.bytes, RowBytes(m.dims))
  BY <1>1, <1>3, RowsCounted
<1>5. Within(m, raw)
  <2>1. m.capacity <= m.capacity /\ m.bytes <= m.bytes
    BY <1>2 DEF Fields
  <2> QED
    BY <1>1, <1>3, <2>1 DEF Within
<1> HIDE DEF m
<1>6. TextFits(m, raw, 0)
  BY <1>2, <1>5, WithinFits
<1> QED
  BY <1>1, <1>2, <1>4, <1>6 DEF m

LEMMA InitTexts == ASSUME Init PROVE Texts
<1>1. /\ op.call = "none" /\ op.pc = "idle" /\ handler = None /\ metadata = None /\ leftover = 0
  BY DEF Init, Idle
<1>2. ~Opened /\ ~Written
  BY <1>1 DEF Opened, Calling, Written
<1>3. FileTexts
  BY <1>1, <1>2 DEF FileTexts
<1>4. HandlerTexts
  BY <1>1, <1>2 DEF HandlerTexts
<1> QED
  BY <1>3, <1>4 DEF Texts

\* A handler that is made of metadata outgrows them.
LEMMA AttachTexts == ASSUME Fits, Texts, AttachToExistingUlid PROVE Texts'
<1>1. /\ op.call = "none" /\ op.pc = "idle" /\ op' = op /\ Attachable
      /\ UNCHANGED <<raw, metadata, leftover, torn>>
      /\ handler' = Handler(metadata, tree)
  BY DEF AttachToExistingUlid, Free, Idle
<1>2. Written /\ metadata \notin {None, Truncated} /\ raw # None /\ leftover = 0
  BY <1>1 DEF Attachable, Written
<1>3. metadata \in Fields /\ Within(metadata, raw)
  BY <1>2 DEF Texts, FileTexts, TextFits
<1>4. /\ handler'.dims = metadata.dims /\ handler'.rows = metadata.rows
      /\ handler'.capacity = metadata.capacity /\ handler'.total = metadata.bytes
  BY <1>1 DEF Handler
<1>5. FileTexts'
  BY <1>1, <1>2 DEF Texts, FileTexts
<1>6. Within(OwnMetadata(handler)', raw')
  BY <1>1, <1>3, <1>4 DEF Within, OwnMetadata, Metadata
<1>7. Outgrows(handler', metadata')
  BY <1>1, <1>3, <1>4 DEF Outgrows, Fields
<1>8. HandlerTexts'
  BY <1>1, <1>2, <1>4, <1>6, <1>7 DEF HandlerTexts
<1> QED
  BY <1>5, <1>8 DEF Texts

LEMMA AppendTexts ==
  ASSUME Fits, Texts, NEW bytes \in Appends, AppendBytes(bytes) PROVE Texts'
<1> DEFINE total == handler.total + Len(bytes)
           width == RowBytes(handler.dims)
           first == handler.total \div width
           final == CeilDiv(total, width)
<1>1. /\ Attached
      /\ raw' = raw \o bytes
      /\ handler' = [handler EXCEPT !.total = total, !.rows = final]
      /\ op' = [Idle EXCEPT !.call = "append", !.row = first, !.last = final,
                  !.pc = IF MustGrow(handler, final) THEN "grow" ELSE StepOfRows(first, final)]
      /\ UNCHANGED <<encoded, tree, metadata, leftover, torn>>
  BY DEF AppendBytes
<1>2. Opened /\ op.call = "none" /\ op.pc = "idle"
  BY <1>1 DEF Attached, Opened, Idle
<1>3. /\ raw \in Content /\ raw # None /\ Len(raw) \in Nat
      /\ HandlerTypes(handler) /\ handler.dims \in Shapes
      /\ handler.rows \in Nat /\ handler.capacity \in Nat /\ handler.total \in Nat
      /\ handler.total <= Len(raw)
  BY <1>2, OpenedFits
<1>4. bytes \in Content /\ Len(bytes) \in Nat
  BY ContentsAssumption DEF Content
<1>5. raw' \in Content /\ Len(raw') = Len(raw) + Len(bytes) /\ Len(raw) <= Len(raw')
  BY <1>1, <1>3, <1>4 DEF Content
<1>6. width \in Nat \ {0}
  BY <1>3, RowsBegin
<1>7. total \in Nat /\ handler.total <= total /\ total <= Len(raw') /\ Len(raw') \in Nat
  BY <1>3, <1>4, <1>5
<1>8. final \in Nat /\ final <= RowCount(raw', handler.dims)
  BY <1>3, <1>5, <1>6, <1>7, CountGrows, RowsCounted
<1>9. /\ handler'.total = total /\ handler'.rows = final
      /\ handler'.capacity = handler.capacity /\ handler'.dims = handler.dims
  BY <1>1, <1>3 DEF HandlerTypes
<1>10. /\ op'.call = "append" /\ op'.last = final
       /\ op'.pc \in {"grow", "rows", "recalculate"}
       /\ op'.pc = "grow" => MustGrow(handler, final)
  BY <1>1 DEF Idle, StepOfRows
<1>11. Written /\ Opened' /\ Written' /\ raw' # None
  BY <1>2, <1>5, <1>10, NoneAssumption DEF Written, Opened, Calling
<1>12. FileTexts'
  <2>1. metadata \in Fields /\ leftover \in Nat /\ TextFits(metadata, raw, leftover)
    BY <1>3, <1>11 DEF Texts, FileTexts
  <2>2. TextFits(metadata, raw', leftover)
    BY <1>3, <1>5, <2>1, StillFits
  <2> QED
    BY <1>1, <1>10, <1>11, <2>2 DEF Texts, FileTexts
<1>13. Within(OwnMetadata(handler)', raw')
  <2>1. handler.capacity <= RowCapacity(RowCount(raw, handler.dims))
    BY <1>2 DEF Texts, HandlerTexts, Within, OwnMetadata, Metadata
  <2>2. /\ RowCount(raw, handler.dims) \in Nat /\ RowCount(raw', handler.dims) \in Nat
        /\ RowCount(raw, handler.dims) <= RowCount(raw', handler.dims)
    BY <1>3, <1>5, RowsBegin, RoomGrows
  <2>3. handler.capacity <= RowCapacity(RowCount(raw', handler.dims))
    BY <1>3, <2>1, <2>2 DEF RowCapacity
  <2> HIDE DEF final, total
  <2> QED
    BY <1>7, <1>8, <1>9, <2>3 DEF Within, OwnMetadata, Metadata
<1>14. Outgrows(handler, metadata) => Outgrows(handler', metadata')
  <2>1. metadata \in Fields
    BY <1>11 DEF Texts, FileTexts
  <2> HIDE DEF final, total
  <2> QED
    BY <1>1, <1>3, <1>7, <1>9, <2>1 DEF Outgrows, Fields
<1>15. op'.pc \in {"grow", "move"} => handler'.capacity < op'.last
  <2> HIDE DEF final
  <2> QED
    BY <1>3, <1>8, <1>9, <1>10 DEF MustGrow
<1>16. handler'.rows = CeilDiv(handler'.total, RowBytes(handler'.dims))
  BY <1>9
<1> HIDE DEF final, total
<1>17. HandlerTexts'
  BY <1>1, <1>2, <1>9, <1>10, <1>13, <1>14, <1>15, <1>16 DEF Texts, HandlerTexts
<1> QED
  BY <1>12, <1>17 DEF Texts

LEMMA EditTexts ==
  ASSUME Fits, Texts, NEW start \in 0..MaxLength, NEW patch \in Patches, EditBytes(start, patch)
  PROVE  Texts'
<1>1. /\ Attached /\ raw' = Splice(raw, start, patch)
      /\ UNCHANGED <<metadata, leftover, handler, torn>>
  BY DEF EditBytes
<1>2. op'.call = "edit" /\ op'.pc \in {"rows", "recalculate"}
  BY DEF EditBytes, Idle, StepOfRows
<1>3. Opened /\ op.call = "none" /\ op.pc = "idle"
  BY <1>1 DEF Attached, Opened, Idle
<1>4. raw \in Content /\ raw # None /\ Len(raw) \in Nat /\ OwnMetadata(handler) \in Fields
  BY <1>3, OpenedFits
<1>5. patch \in Content /\ start \in Nat
  BY ContentsAssumption, LengthAssumption DEF Content
<1>6. raw' \in Content /\ Len(raw) <= Len(raw')
  BY <1>1, <1>4, <1>5, SpliceKeepsLength
<1>7. Written /\ Opened' /\ Written'
  BY <1>2, <1>3 DEF Written, Opened, Calling
<1>8. FileTexts'
  <2>1. metadata \in Fields /\ leftover \in Nat /\ TextFits(metadata, raw, leftover)
    BY <1>4, <1>7 DEF Texts, FileTexts
  <2>2. TextFits(metadata, raw', leftover)
    BY <1>4, <1>6, <2>1, StillFits
  <2> QED
    BY <1>1, <1>2, <1>7, <2>2 DEF Texts, FileTexts
<1>9. Within(OwnMetadata(handler)', raw')
  <2>1. Within(OwnMetadata(handler), raw)
    BY <1>3 DEF Texts, HandlerTexts
  <2>2. OwnMetadata(handler)' = OwnMetadata(handler)
    BY <1>1 DEF OwnMetadata
  <2> QED
    BY <1>4, <1>6, <2>1, <2>2, StillWithin
<1>10. HandlerTexts'
  BY <1>1, <1>2, <1>3, <1>9 DEF Texts, HandlerTexts, Outgrows
<1> QED
  BY <1>8, <1>10 DEF Texts

LEMMA ReencodeTexts == ASSUME Fits, Texts, ReencodeUnencodedFile PROVE Texts'
<1>1. /\ Attached /\ handler' = [handler EXCEPT !.total = Len(raw)]
      /\ UNCHANGED <<raw, metadata, leftover, torn>>
  BY DEF ReencodeUnencodedFile
<1>2. op'.call = "reencode" /\ op'.pc = "encode" /\ op'.dims = handler.dims
  BY DEF ReencodeUnencodedFile, Begin, Idle
<1>3. Opened /\ op.call = "none" /\ op.pc = "idle"
  BY <1>1 DEF Attached, Opened, Idle
<1>4. /\ raw # None /\ Len(raw) \in Nat /\ HandlerTypes(handler)
  BY <1>3, OpenedFits
<1>5. /\ handler'.total = Len(raw) /\ handler'.rows = handler.rows
      /\ handler'.capacity = handler.capacity /\ handler'.dims = handler.dims
  BY <1>1, <1>4 DEF HandlerTypes
<1>6. Written /\ Opened' /\ Written'
  BY <1>2, <1>3 DEF Written, Opened, Calling
<1>7. FileTexts'
  BY <1>1, <1>2, <1>6 DEF Texts, FileTexts
<1>8. Within(OwnMetadata(handler)', raw')
  <2>1. Within(OwnMetadata(handler), raw)
    BY <1>3 DEF Texts, HandlerTexts
  <2> QED
    BY <1>1, <1>4, <1>5, <2>1 DEF Within, OwnMetadata, Metadata
<1>9. Outgrows(handler, metadata) => Outgrows(handler', metadata')
  <2>1. metadata.bytes <= Len(raw)
    BY <1>4, <1>6 DEF Texts, FileTexts, TextFits, Within
  <2> QED
    BY <1>1, <1>5, <2>1 DEF Outgrows
<1>10. HandlerTexts'
  BY <1>1, <1>2, <1>3, <1>5, <1>8, <1>9 DEF Texts, HandlerTexts
<1> QED
  BY <1>7, <1>10 DEF Texts

\* A call starts.
LEMMA CallTexts == ASSUME Fits, Texts, Call PROVE Texts'
<1>1. ASSUME NEW dims \in Shapes, CreateFromUnencodedFile(dims) PROVE Texts'
  <2>1. /\ op.call = "none" /\ op.pc = "idle" /\ handler' = None
        /\ raw' = raw \/ metadata = None
        /\ UNCHANGED <<metadata, leftover>>
    BY <1>1 DEF CreateFromUnencodedFile, Free, Idle, Unused
  <2>2. op'.call \in {"none", "create"} /\ op'.pc \in {"idle", "truncate"}
    BY <1>1, <2>1 DEF CreateFromUnencodedFile, Begin, Idle
  <2> QED
    BY <2>1, <2>2, ClosedTexts
<1>2. ASSUME NEW dims \in Shapes, Reshape(dims) PROVE Texts'
  <2>1. Opened /\ UNCHANGED <<raw, metadata, leftover, handler>>
        /\ op'.call = "reshape" /\ op'.pc = "truncate"
    BY <1>2 DEF Reshape, Attached, Opened, Begin, Idle
  <2> QED
    BY <2>1, ReshapingTexts
<1>3. CASE DeleteAllFiles
  <2>1. /\ UNCHANGED <<metadata, leftover>> /\ raw' = None /\ handler' = None
        /\ op'.call = "delete" /\ op'.pc = "remove_encoded"
    BY <1>3 DEF DeleteAllFiles, Begin, Idle
  <2> QED
    BY <2>1, ClosedTexts
<1> QED
  BY <1>1, <1>2, <1>3, AttachTexts, AppendTexts, EditTexts, ReencodeTexts DEF Call

-----------------------------------------------------------------------------
(* The steps that write the metadata file, and the others.                 *)

\* The steps of a conversion up to the metadata, and of a reencode up to it.
LEMMA EncodeTexts == ASSUME Fits, Texts, TruncateEncoded \/ EncodeFile PROVE Texts'
<1>1. CASE TruncateEncoded
  <2>1. /\ op.pc = "truncate" /\ UNCHANGED <<raw, metadata, leftover, handler>>
        /\ op' = [op EXCEPT !.pc = "encode"] /\ "encode" \in Pcs
    BY <1>1 DEF TruncateEncoded, Pcs, Converting
  <2>2. op.call \in {"create", "reshape"}
    BY <2>1 DEF Fits, OpFits
  <2>3. op'.call = op.call /\ op'.pc = "encode"
    BY <2>1, StepsOn
  <2>4. CASE op.call = "create"
    <3>1. handler' = None
      BY <2>1, <2>4 DEF Fits, HandlerFits
    <3> QED
      BY <2>1, <2>3, <2>4, <3>1, ClosedTexts
  <2>5. CASE op.call = "reshape"
    <3>1. Opened
      BY <2>5 DEF Opened, Calling
    <3> QED
      BY <2>1, <2>3, <2>5, <3>1, ReshapingTexts
  <2> QED
    BY <2>2, <2>4, <2>5
<1>2. CASE EncodeFile
  <2>1. op.pc = "encode" /\ UNCHANGED <<raw, metadata, leftover>>
    BY <1>2 DEF EncodeFile
  <2>2. op.call \in {"create", "reshape", "reencode"}
    BY <2>1 DEF Fits, OpFits
  <2>3. CASE op.call # "reencode" /\ FlushedRows(raw, op.dims) # RowCount(raw, op.dims)
    <3>1. handler' = None /\ op'.call = "none" /\ op'.pc = "idle"
      BY <1>2, <2>3 DEF EncodeFile, Idle
    <3> QED
      BY <2>1, <3>1, ClosedTexts
  <2>4. CASE ~(op.call # "reencode" /\ FlushedRows(raw, op.dims) # RowCount(raw, op.dims))
    <3> DEFINE pc == IF op.call = "reencode" THEN "tree" ELSE "create_metadata"
    <3>1. op' = [op EXCEPT !.pc = pc] /\ UNCHANGED <<handler, torn>>
      BY <1>2, <2>4 DEF EncodeFile
    <3>2. pc \in Pcs
      BY DEF Pcs, Converting
    <3>3. pc \in {"tree", "create_metadata"} /\ (pc = "tree" <=> op.call = "reencode")
      OBVIOUS
    <3> HIDE DEF pc
    <3>4. op'.call = op.call /\ op'.dims = op.dims /\ op'.last = op.last /\ op'.pc = pc
      BY <3>1, <3>2, StepsOn
    <3>5. CASE op.call = "reencode"
      BY <2>1, <3>1, <3>3, <3>4, <3>5, SameTexts
    <3>6. CASE op.call = "create"
      <4>1. handler' = None
        BY <3>1, <3>6 DEF Fits, HandlerFits
      <4> QED
        BY <2>1, <3>3, <3>4, <3>6, <4>1, ClosedTexts
    <3>7. CASE op.call = "reshape"
      <4>1. Opened
        BY <3>7 DEF Opened, Calling
      <4> QED
        BY <2>1, <3>1, <3>3, <3>4, <3>7, <4>1, ReshapingTexts
    <3> QED
      BY <2>2, <3>5, <3>6, <3>7
  <2> QED
    BY <2>3, <2>4
<1> QED
  BY <1>1, <1>2

LEMMA CreateMetadataTexts == ASSUME Fits, Texts, CreateMetadata PROVE Texts'
<1>1. /\ op.pc = "create_metadata" /\ UNCHANGED <<raw, handler>>
      /\ metadata' = Truncated /\ leftover' = 0
      /\ op' = [op EXCEPT !.pc = "write_metadata"] /\ "write_metadata" \in Pcs
  BY DEF CreateMetadata, Pcs, Converting
<1>2. op.call \in {"create", "reshape"} /\ (op.call = "create" => handler = None)
  BY <1>1 DEF Fits, OpFits, HandlerFits
<1>3. op'.call = op.call /\ op'.pc = "write_metadata"
  BY <1>1, StepsOn
<1>4. ~Written' /\ (Opened' => Opened)
  BY <1>1, <1>2, <1>3 DEF Written, Opened, Calling
<1>5. FileTexts'
  BY <1>1, <1>4 DEF FileTexts
<1>6. OwnMetadata(handler)' = OwnMetadata(handler)
  BY <1>1 DEF OwnMetadata
<1>7. HandlerTexts'
  BY <1>1, <1>2, <1>3, <1>4, <1>6 DEF Texts, HandlerTexts, Opened, Calling
<1> QED
  BY <1>5, <1>7 DEF Texts

LEMMA WriteNewMetadataTexts == ASSUME Fits, Texts, WriteNewMetadata PROVE Texts'
<1>1. /\ op.pc = "write_metadata" /\ UNCHANGED <<raw, leftover, handler>>
      /\ metadata' = WriterMetadata(op.dims)
      /\ op' = [op EXCEPT !.pc = "create_tree"] /\ "create_tree" \in Pcs
  BY DEF WriteNewMetadata, Pcs, Converting
<1>2. /\ op.call \in {"create", "reshape"} /\ (op.call = "create" => handler = None)
      /\ raw \in Content /\ op.dims \in Shapes
  BY <1>1 DEF Fits, OpFits, HandlerFits, Converting
<1>3. op'.call = op.call /\ op'.pc = "create_tree"
  BY <1>1, StepsOn
<1>4. leftover' = 0
  BY <1>1 DEF Texts, FileTexts
<1>5. /\ metadata' \in Fields
      /\ metadata'.rows <= CeilDiv(metadata'.bytes, RowBytes(metadata'.dims))
      /\ TextFits(metadata', raw', leftover')
  BY <1>1, <1>2, <1>4, WriterTexts
<1>6. FileTexts'
  BY <1>4, <1>5 DEF FileTexts
<1>7. OwnMetadata(handler)' = OwnMetadata(handler) /\ (Opened' => Opened)
  BY <1>1, <1>3 DEF OwnMetadata, Opened, Calling
<1>8. HandlerTexts'
  BY <1>1, <1>2, <1>3, <1>7 DEF Texts, HandlerTexts, Opened, Calling
<1> QED
  BY <1>6, <1>8 DEF Texts

LEMMA CreateTreeTexts == ASSUME Fits, Texts, CreateTree PROVE Texts'
<1>1. /\ op.pc = "create_tree" /\ UNCHANGED <<raw, metadata, leftover, handler>>
      /\ op' = [op EXCEPT !.pc = "write_tree"] /\ "write_tree" \in Pcs
  BY DEF CreateTree, Pcs, Converting
<1>2. op.call \in {"create", "reshape"} /\ (op.call = "create" => handler = None)
  BY <1>1 DEF Fits, OpFits, HandlerFits
<1>3. op'.call = op.call /\ op'.pc = "write_tree"
  BY <1>1, StepsOn
<1>4. Written
  BY <1>1 DEF Written
<1>5. FileTexts'
  BY <1>1, <1>3, <1>4 DEF Texts, FileTexts
<1>6. OwnMetadata(handler)' = OwnMetadata(handler) /\ (Opened' => Opened)
  BY <1>1, <1>3 DEF OwnMetadata, Opened, Calling
<1>7. HandlerTexts'
  BY <1>1, <1>2, <1>3, <1>6 DEF Texts, HandlerTexts, Opened, Calling
<1> QED
  BY <1>5, <1>7 DEF Texts

LEMMA WriteNewTreeTexts ==
  ASSUME Fits, Agree, Texts, WriteNewTree PROVE Texts'
<1>1. op.pc = "write_tree" /\ UNCHANGED <<raw, metadata, leftover, torn>>
  BY DEF WriteNewTree
<1>2. /\ op.call \in {"create", "reshape"} /\ op.dims \in Shapes /\ raw \in Content
      /\ op.call = "create" => handler = None
  BY <1>1 DEF Fits, OpFits, HandlerFits, Converting
<1>3. metadata = WriterMetadata(op.dims) /\ Written /\ leftover = 0
  BY <1>1 DEF Agree, Converted, Written, Texts, FileTexts
<1>4. /\ metadata \in Fields /\ metadata.dims = op.dims /\ metadata.bytes = Len(raw)
      /\ Within(metadata, raw)
  BY <1>2, <1>3, WriterTexts DEF TextFits
<1>5. CASE op.call = "create"
  <2>1. UNCHANGED handler /\ op' = [op EXCEPT !.pc = "stamp"] /\ "stamp" \in Pcs
    BY <1>5 DEF WriteNewTree, Pcs
  <2>2. op'.call = "create" /\ op'.pc = "stamp"
    BY <1>5, <2>1, StepsOn
  <2>3. FileTexts'
    BY <1>1, <1>3, <2>2 DEF Texts, FileTexts
  <2>4. HandlerTexts'
    BY <1>2, <1>5, <2>1, <2>2 DEF HandlerTexts, Opened, Calling
  <2> QED
    BY <2>3, <2>4 DEF Texts
<1>6. CASE op.call = "reshape"
  <2> DEFINE made == Handler(metadata, tree')
  <2>1. op' = Idle /\ handler' = [made EXCEPT !.total = handler.total]
    BY <1>3, <1>6 DEF WriteNewTree
  <2>2. op'.call = "none" /\ op'.pc = "idle"
    BY <2>1 DEF Idle
  <2>3. /\ handler'.dims = metadata.dims /\ handler'.rows = metadata.rows
        /\ handler'.capacity = metadata.capacity /\ handler'.total = handler.total
    BY <2>1 DEF Handler
  <2>4. handler.total <= Len(raw)
    BY <1>6, CallingFits DEF Calling
  <2>5. ~torn => handler.total = Len(raw)
    BY <1>6 DEF Agree, Converted
  <2>6. FileTexts'
    BY <1>1, <1>3, <2>2 DEF Texts, FileTexts
  <2>7. Within(OwnMetadata(handler)', raw')
    BY <1>1, <1>4, <2>3, <2>4 DEF Within, OwnMetadata, Metadata
  <2>8. metadata.ulid = "default"
    BY <1>3 DEF WriterMetadata, Metadata
  <2>9. ~torn => Outgrows(handler', metadata)
    BY <1>4, <2>3, <2>5 DEF Outgrows, Fields
  <2>10. HandlerTexts'
    BY <1>1, <1>3, <2>2, <2>3, <2>7, <2>8, <2>9 DEF HandlerTexts
  <2> QED
    BY <2>6, <2>10 DEF Texts
<1> QED
  BY <1>2, <1>5, <1>6

LEMMA StampUlidTexts == ASSUME Fits, Texts, StampUlid PROVE Texts'
<1>1. /\ op.pc = "stamp" /\ UNCHANGED <<raw, leftover>>
      /\ metadata' = [metadata EXCEPT !.ulid = "own"]
      /\ handler' = Handler(metadata', tree)
      /\ op'.call = "none" /\ op'.pc = "idle"
  BY DEF StampUlid, Idle
<1>2. raw \in Content /\ raw # None
  BY <1>1, NoneAssumption DEF Fits, OpFits
<1>3. /\ Written /\ metadata \in Fields /\ leftover = 0
      /\ metadata.rows <= CeilDiv(metadata.bytes, RowBytes(metadata.dims))
      /\ TextFits(metadata, raw, leftover)
  BY <1>1, <1>2 DEF Written, Texts, FileTexts
<1>4. /\ metadata' \in Fields /\ metadata'.dims = metadata.dims
      /\ metadata'.rows = metadata.rows /\ metadata'.capacity = metadata.capacity
      /\ metadata'.bytes = metadata.bytes
  BY <1>1, <1>3 DEF Fields
<1>5. TextFits(metadata', raw', leftover')
  BY <1>1, <1>3, <1>4 DEF TextFits, Within, TextSize
<1>6. /\ handler'.dims = metadata'.dims /\ handler'.rows = metadata'.rows
      /\ handler'.capacity = metadata'.capacity /\ handler'.total = metadata'.bytes
  BY <1>1 DEF Handler
<1>7. FileTexts'
  BY <1>1, <1>3, <1>4, <1>5 DEF FileTexts
<1>8. Within(OwnMetadata(handler)', raw')
  BY <1>5, <1>6 DEF TextFits, Within, OwnMetadata, Metadata
<1>9. Outgrows(handler', metadata')
  BY <1>4, <1>6 DEF Outgrows, Fields
<1>10. HandlerTexts'
  BY <1>1, <1>3, <1>6, <1>8, <1>9 DEF HandlerTexts
<1> QED
  BY <1>7, <1>10 DEF Texts

\* The columns are moved to room for twice the rows of the file.
LEMMA MoveTexts == ASSUME Fits, Texts, GrowFile \/ MoveOneColumn PROVE Texts'
<1>1. op.pc \in {"grow", "move"} /\ UNCHANGED <<raw, metadata, leftover, torn>>
  BY DEF GrowFile, MoveOneColumn
<1>2. /\ op.call = "append" /\ Calling /\ op.last \in Nat
      /\ op \in [call : Calls, pc : Pcs, row : Nat, last : Nat, col : Nat,
                dims : Shapes \union {None}]
  BY <1>1, UnderWay DEF Fits, OpFits
<1>3. CASE handler' = handler /\ op'.pc \in {"grow", "move"} /\ op'.call = op.call
           /\ op'.last = op.last /\ op'.dims = op.dims
  BY <1>1, <1>2, <1>3, SameTexts
<1>4. CASE GrowFile
  <2>1. op' = [op EXCEPT !.pc = "move", !.col = handler.dims.enc] /\ handler' = handler
    BY <1>4 DEF GrowFile
  <2>2. op'.pc = "move" /\ op'.call = op.call /\ op'.last = op.last /\ op'.dims = op.dims
    BY <1>2, <2>1
  <2> QED
    BY <1>3, <2>1, <2>2
<1>5. CASE MoveOneColumn /\ op.col > 1
  <2>1. op' = [op EXCEPT !.col = @ - 1] /\ handler' = handler
    BY <1>5 DEF MoveOneColumn
  <2>2. op'.pc = op.pc /\ op'.call = op.call /\ op'.last = op.last /\ op'.dims = op.dims
    BY <1>2, <2>1
  <2> QED
    BY <1>1, <1>3, <2>1, <2>2
<1>6. CASE MoveOneColumn /\ ~(op.col > 1)
  <2> DEFINE new == NewCapacity(handler, op.last)
  <2>1. /\ op' = [op EXCEPT !.col = 0, !.pc = StepOfRows(op.row, op.last)]
        /\ handler' = [handler EXCEPT !.capacity = new, !.readerCapacity = new]
    BY <1>6 DEF MoveOneColumn
  <2>2. StepOfRows(op.row, op.last) \in {"rows", "recalculate"}
    BY DEF StepOfRows
  <2>3. /\ op'.pc \in {"rows", "recalculate"} /\ op'.call = "append" /\ op'.last = op.last
    BY <1>2, <2>1, <2>2
  <2>4. /\ Opened /\ Opened' /\ Written
    BY <1>2, <2>3 DEF Opened, Calling, Written
  <2>5. /\ HandlerTypes(handler) /\ handler.dims \in Shapes /\ handler.capacity \in Nat
        /\ raw \in Content /\ handler.rows \in Nat
    BY <2>4, OpenedFits
  <2>6. /\ handler'.total = handler.total /\ handler'.rows = handler.rows
        /\ handler'.capacity = new /\ handler'.dims = handler.dims
    BY <2>1, <2>5 DEF HandlerTypes
  <2>7. /\ Within(OwnMetadata(handler), raw) /\ op.last = handler.rows
        /\ handler.rows = CeilDiv(handler.total, RowBytes(handler.dims))
        /\ handler.capacity < op.last
    BY <1>1, <1>2, <2>4 DEF Texts, HandlerTexts
  <2>8. new = handler.rows * 2 /\ handler.capacity <= new
    BY <2>5, <2>7 DEF NewCapacity
  <2>9. Within(OwnMetadata(handler)', raw')
    <3>1. handler.rows <= RowCount(raw, handler.dims) /\ handler.total <= Len(raw)
      BY <2>7 DEF Within, OwnMetadata, Metadata
    <3>2. RowCount(raw, handler.dims) \in Nat
      BY <2>5, RowsBegin
    <3>3. new <= RowCapacity(RowCount(raw, handler.dims))
      BY <2>5, <2>8, <3>1, <3>2 DEF RowCapacity
    <3> HIDE DEF new
    <3> QED
      BY <1>1, <2>6, <3>1, <3>3 DEF Within, OwnMetadata, Metadata
  <2>10. FileTexts'
    BY <1>1, <2>3, <2>4 DEF Texts, FileTexts
  <2>11. Outgrows(handler, metadata) => Outgrows(handler', metadata')
    <3>1. metadata \in Fields
      BY <2>4 DEF Texts, FileTexts
    <3> HIDE DEF new
    <3> QED
      BY <1>1, <2>5, <2>6, <2>8, <3>1 DEF Outgrows, Fields
  <2> HIDE DEF new
  <2>12. HandlerTexts'
    BY <1>1, <1>2, <2>3, <2>4, <2>6, <2>7, <2>9, <2>11 DEF Texts, HandlerTexts
  <2> QED
    BY <2>10, <2>12 DEF Texts
<1> QED
  BY <1>4, <1>5, <1>6

LEMMA RowTexts == ASSUME Fits, Texts, ReencodeRow \/ RecalculateMerkleTree PROVE Texts'
<1>1. op.pc \in {"rows", "recalculate"} /\ UNCHANGED <<raw, metadata, leftover, torn>>
  BY DEF ReencodeRow, RecalculateMerkleTree
<1>2. /\ op.call \in {"append", "edit"} /\ Calling
      /\ op \in [call : Calls, pc : Pcs, row : Nat, last : Nat, col : Nat,
                dims : Shapes \union {None}]
  BY <1>1, UnderWay
<1>3. HandlerTypes(handler)
  BY <1>2, CallingFits
<1>4. /\ handler'.dims = handler.dims /\ handler'.rows = handler.rows
      /\ handler'.capacity = handler.capacity /\ handler'.total = handler.total
  <2>1. \/ handler' = handler
        \/ \E n : handler' = [handler EXCEPT !.readerRows = n]
        \/ \E t : handler' = [handler EXCEPT !.tree = t]
    BY DEF ReencodeRow, RecalculateMerkleTree
  <2> QED
    BY <1>3, <2>1 DEF HandlerTypes
<1>5. CASE op' = Idle
  BY <1>1, <1>2, <1>4, <1>5, TextsAtRest
<1>6. CASE op' # Idle
  <2>1. \/ op' = [op EXCEPT !.row = @ + 1, !.pc = StepOfRows(op.row + 1, op.last)]
        \/ op' = [op EXCEPT !.pc = "metadata"]
    BY <1>6 DEF ReencodeRow, RecalculateMerkleTree
  <2>2. StepOfRows(op.row + 1, op.last) \in {"rows", "recalculate"}
    BY DEF StepOfRows
  <2>3. /\ op'.call = op.call /\ op'.last = op.last /\ op'.dims = op.dims
        /\ op'.pc \in {"rows", "recalculate", "metadata"}
    BY <1>2, <2>1, <2>2
  <2> QED
    BY <1>1, <1>2, <1>4, <2>3, SameTexts
<1> QED
  BY <1>5, <1>6

\* The tree of a reencode, and the handler that goes with it.
LEMMA WriteTreeTexts == ASSUME Fits, Texts, WriteTree PROVE Texts'
<1>1. /\ op.pc = "tree" /\ UNCHANGED <<raw, metadata, leftover, torn>>
      /\ handler' = Handler(WriterMetadata(op.dims), tree')
      /\ op' = [op EXCEPT !.pc = "metadata"] /\ "metadata" \in Pcs
  BY DEF WriteTree, Pcs
<1>2. op.call = "reencode" /\ op.dims \in Shapes /\ raw \in Content
  BY <1>1 DEF Fits, OpFits, Converting
<1>3. op'.call = "reencode" /\ op'.pc = "metadata" /\ op'.dims = op.dims
  BY <1>1, <1>2, StepsOn
<1>4. Opened /\ Written /\ Opened' /\ raw # None
  BY <1>2, <1>3, NoneAssumption DEF Opened, Calling, Written
<1> DEFINE m == WriterMetadata(op.dims)
<1>5. /\ m \in Fields /\ m.dims = op.dims /\ m.bytes = Len(raw)
      /\ m.capacity = RowCapacity(RowCount(raw, op.dims)) /\ Within(m, raw)
  BY <1>2, WriterTexts DEF TextFits
<1> HIDE DEF m
<1>6. /\ handler'.dims = m.dims /\ handler'.rows = m.rows
      /\ handler'.capacity = m.capacity /\ handler'.total = m.bytes
  BY <1>1 DEF Handler, m
<1>7. metadata.dims = op.dims /\ Within(metadata, raw)
  BY <1>2, <1>4 DEF Texts, HandlerTexts, FileTexts, TextFits
<1>8. FileTexts'
  BY <1>1, <1>3, <1>4 DEF Texts, FileTexts
<1>9. Within(OwnMetadata(handler)', raw')
  BY <1>1, <1>5, <1>6 DEF Within, OwnMetadata, Metadata
<1>10. Outgrows(handler', metadata')
  BY <1>1, <1>5, <1>6, <1>7 DEF Outgrows, Within
<1>11. HandlerTexts'
  BY <1>1, <1>2, <1>3, <1>4, <1>5, <1>6, <1>9, <1>10 DEF Texts, HandlerTexts
<1> QED
  BY <1>8, <1>11 DEF Texts

\* The handler writes its metadata over the older ones.
LEMMA WritesText ==
  ASSUME Fits, Agree, Texts, WriteMetadata
  PROVE  /\ metadata \in Fields /\ OwnMetadata(handler) \in Fields
         /\ TextFits(OwnMetadata(handler), raw, leftover')
         /\ leftover' \in Nat
         /\ metadata.ulid = "own" /\ leftover = 0 /\ ~LeavesRowsOut => leftover' = 0
         /\ ~torn' => leftover' = 0
         /\ handler.rows <= CeilDiv(handler.total, RowBytes(handler.dims))
<1> DEFINE m == OwnMetadata(handler)
           held == TextSize(metadata) + leftover
           full == TextSize(FullMetadata(raw, handler.dims))
<1>1. /\ op.pc = "metadata" /\ UNCHANGED <<raw, handler>>
      /\ leftover' = LeftBehind(m)
      /\ torn' = IF op.call = "reencode" THEN FlushedRows(raw, op.dims) # RowCount(raw, op.dims)
                                         ELSE torn
  BY DEF WriteMetadata
<1>2. op.call \in {"append", "reencode"} /\ Calling
  BY <1>1 DEF Fits, OpFits, Calling
<1>3. Opened /\ Written /\ op.call # "reshape"
  BY <1>2 DEF Opened, Written
<1>4. /\ raw \in Content /\ raw # None /\ Len(raw) \in Nat
      /\ HandlerTypes(handler) /\ handler.dims \in Shapes
      /\ handler.rows \in Nat /\ handler.capacity \in Nat /\ handler.total \in Nat
      /\ m \in Fields
  BY <1>3, OpenedFits
<1>5. /\ metadata \in Fields /\ leftover \in Nat /\ TextFits(metadata, raw, leftover)
      /\ metadata.rows <= CeilDiv(metadata.bytes, RowBytes(metadata.dims))
      /\ metadata.dims = handler.dims
      /\ metadata.ulid = "own" \/ ~torn => Outgrows(handler, metadata)
      /\ ~torn => leftover = 0
      /\ Within(m, raw)
  BY <1>3, <1>4 DEF Texts, FileTexts, HandlerTexts
<1>6. m.dims = handler.dims /\ m.rows = handler.rows /\ m.capacity = handler.capacity
      /\ m.bytes = handler.total
  BY DEF OwnMetadata, Metadata
<1>7. TextSize(m) \in Nat /\ full \in Nat /\ TextSize(m) <= full
  BY <1>4, <1>5, <1>6, WithinFits
<1>8. TextSize(metadata) \in Nat /\ held <= full
  BY <1>4, <1>5, WithinFits DEF TextFits
<1>9. leftover' = IF held > TextSize(m) THEN held - TextSize(m) ELSE 0
  BY <1>1 DEF LeftBehind
<1> HIDE DEF m, full
<1>10. leftover' \in Nat /\ TextSize(m) + leftover' <= full
  BY <1>5, <1>7, <1>8, <1>9
<1>11. TextFits(m, raw, leftover')
  BY <1>5, <1>6, <1>10 DEF TextFits, full
<1>12. ASSUME op.call = "append", Outgrows(handler, metadata), leftover = 0
       PROVE  leftover' = 0
  <2>1. handler.rows = CeilDiv(handler.total, RowBytes(handler.dims))
    BY <1>12 DEF Texts, HandlerTexts
  <2>2. metadata.rows <= m.rows
    <3>1. RowBytes(handler.dims) \in Nat \ {0} /\ metadata.bytes \in Nat /\ metadata.rows \in Nat
      BY <1>4, <1>5, RowsBegin DEF Fields
    <3>2. /\ CeilDiv(metadata.bytes, RowBytes(handler.dims)) \in Nat
          /\ CeilDiv(metadata.bytes, RowBytes(handler.dims))
               <= CeilDiv(handler.total, RowBytes(handler.dims))
      BY <1>4, <1>12, <3>1, CountGrows DEF Outgrows
    <3> QED
      BY <1>4, <1>5, <1>6, <2>1, <3>1, <3>2
  <2>3. metadata.capacity <= m.capacity /\ metadata.bytes <= m.bytes
    BY <1>6, <1>12 DEF Outgrows
  <2>4. TextSize(metadata) <= TextSize(m)
    BY <1>4, <1>5, <1>6, <2>2, <2>3, TextGrows DEF m
  <2> QED
    BY <1>7, <1>8, <1>9, <1>12, <2>4
<1>13. ASSUME op.call = "reencode"
       PROVE  /\ FlushedRows(raw, op.dims) = RowCount(raw, op.dims) => leftover' = 0
              /\ handler.rows <= CeilDiv(handler.total, RowBytes(handler.dims))
  <2>1. op.dims \in Shapes /\ handler = Handler(WriterMetadata(op.dims), tree)
    BY <1>1, <1>13 DEF Agree, Converted
  <2>2. /\ handler.dims = op.dims /\ handler.rows = FlushedRows(raw, op.dims)
        /\ handler.capacity = RowCapacity(RowCount(raw, op.dims)) /\ handler.total = Len(raw)
    BY <2>1 DEF Handler, WriterMetadata, Metadata
  <2>3. ASSUME FlushedRows(raw, op.dims) = RowCount(raw, op.dims) PROVE leftover' = 0
    <3>1. m = FullMetadata(raw, handler.dims)
      BY <2>2, <2>3 DEF m, OwnMetadata, FullMetadata
    <3> QED
      BY <1>5, <1>7, <1>8, <1>9, <3>1 DEF full
  <2>4. handler.rows <= CeilDiv(handler.total, RowBytes(handler.dims))
    BY <1>4, <2>1, <2>2, WriterFits, RowsCounted
  <2> QED
    BY <2>3, <2>4
<1>14. handler.rows <= CeilDiv(handler.total, RowBytes(handler.dims))
  <2>1. CASE op.call = "append"
    <3>1. handler.rows = CeilDiv(handler.total, RowBytes(handler.dims))
      BY <2>1 DEF Texts, HandlerTexts
    <3> QED
      BY <1>4, <3>1
  <2> QED
    BY <1>2, <1>13, <2>1
<1>15. metadata.ulid = "own" /\ leftover = 0 /\ ~LeavesRowsOut => leftover' = 0
  BY <1>2, <1>5, <1>12, <1>13 DEF LeavesRowsOut
<1>16. ~torn' => leftover' = 0
  BY <1>1, <1>2, <1>5, <1>12, <1>13
<1> QED
  BY <1>4, <1>5, <1>10, <1>11, <1>14, <1>15, <1>16 DEF m

LEMMA WriteMetadataTexts == ASSUME Fits, Agree, Texts, WriteMetadata PROVE Texts'
<1>1. /\ op.pc = "metadata" /\ UNCHANGED <<raw, handler>> /\ metadata' = OwnMetadata(handler)
      /\ op'.call = "none" /\ op'.pc = "idle"
  BY DEF WriteMetadata, Idle
<1>2. op.call \in {"append", "reencode"} /\ Opened
  BY <1>1 DEF Fits, OpFits, Opened, Calling
<1>3. /\ OwnMetadata(handler) \in Fields /\ TextFits(OwnMetadata(handler), raw, leftover')
      /\ leftover' \in Nat /\ (~torn' => leftover' = 0)
      /\ handler.rows <= CeilDiv(handler.total, RowBytes(handler.dims))
  BY WritesText
<1>4. /\ metadata'.dims = handler.dims /\ metadata'.rows = handler.rows
      /\ metadata'.capacity = handler.capacity /\ metadata'.bytes = handler.total
  BY <1>1 DEF OwnMetadata, Metadata
<1>5. FileTexts'
  BY <1>1, <1>3, <1>4 DEF FileTexts
<1>6. OwnMetadata(handler)' = OwnMetadata(handler)
  BY <1>1 DEF OwnMetadata
<1>7. Outgrows(handler', metadata')
  BY <1>1, <1>2, <1>4, OpenedFits DEF Outgrows
<1>8. HandlerTexts'
  BY <1>1, <1>2, <1>3, <1>4, <1>6, <1>7 DEF Texts, HandlerTexts
<1> QED
  BY <1>5, <1>8 DEF Texts

LEMMA RemoveTexts ==
  ASSUME Fits, Texts, RemoveEncoded \/ RemoveTree \/ RemoveMetadata PROVE Texts'
<1>1. /\ op.pc \in {"remove_encoded", "remove_tree", "remove_metadata"} /\ UNCHANGED <<raw, handler>>
  BY DEF RemoveEncoded, RemoveTree, RemoveMetadata
<1>2. op.call = "delete" /\ handler' = None
  BY <1>1 DEF Fits, OpFits, HandlerFits
<1>3. CASE RemoveMetadata
  <2>1. metadata' = None /\ leftover' = 0 /\ op'.call = "none" /\ op'.pc = "idle"
    BY <1>3 DEF RemoveMetadata, Idle
  <2>2. ~Opened' /\ ~Written'
    BY <1>2, <2>1 DEF Opened, Calling, Written
  <2>3. FileTexts'
    BY <2>1, <2>2 DEF FileTexts
  <2>4. HandlerTexts'
    BY <2>1, <2>2 DEF HandlerTexts
  <2> QED
    BY <2>3, <2>4 DEF Texts
<1>4. CASE RemoveEncoded \/ RemoveTree
  <2>1. /\ UNCHANGED <<metadata, leftover>>
        /\ \E pc \in {"remove_tree", "remove_metadata"} : op' = [op EXCEPT !.pc = pc]
    BY <1>4 DEF RemoveEncoded, RemoveTree
  <2>2. op'.call = "delete" /\ op'.pc \in {"remove_tree", "remove_metadata"}
    BY <1>2, <2>1, StepsOn DEF Pcs
  <2> QED
    BY <1>1, <1>2, <2>1, <2>2, ClosedTexts
<1> QED
  BY <1>3, <1>4

LEMMA NextTexts == ASSUME Fits, Agree, Texts, [Next]_vars PROVE Texts'
<1>1. CASE UNCHANGED vars
  <2>1. UNCHANGED <<raw, metadata, leftover, handler, op, torn>>
    BY <1>1 DEF vars
  <2>2. FileTexts'
    BY <2>1 DEF Texts, FileTexts, Written, Opened, Calling
  <2>3. HandlerTexts'
    BY <2>1 DEF Texts, HandlerTexts, Opened, Calling, OwnMetadata
  <2> QED
    BY <2>2, <2>3 DEF Texts
<1>2. CASE Crash
  <2>1. /\ handler' = None /\ op'.call = "none" /\ op'.pc = "idle"
        /\ UNCHANGED <<raw, metadata, leftover>>
    BY <1>2 DEF Crash, Idle
  <2> QED
    BY <2>1, ClosedTexts
<1>3. CASE Step
  BY <1>3, EncodeTexts, CreateMetadataTexts, WriteNewMetadataTexts, CreateTreeTexts,
     WriteNewTreeTexts, StampUlidTexts, MoveTexts, RowTexts, WriteTreeTexts,
     WriteMetadataTexts, RemoveTexts DEF Step
<1> QED
  BY <1>1, <1>2, <1>3, CallTexts DEF Next

LEMMA TextsHold == Spec => [](Fits /\ Agree /\ Texts)
<1>1. ASSUME Init PROVE Fits /\ Agree /\ Texts
  BY <1>1, InitFits, InitAgree, InitTexts
<1>2. ASSUME Fits, Agree, Texts, [Next]_vars PROVE Fits' /\ Agree' /\ Texts'
  BY <1>2, NextFits, NextAgree, NextTexts
<1> QED
  BY <1>1, <1>2, PTL DEF Spec

\* No step, call or crash takes a file, a handler or a metadata file out of its
\* type: what a handler believes of the file's length is at most its length, and
\* a call never has fewer rows to go to than it has gone (file_handler.rs).
THEOREM TypeCorrect == Spec => []TypeOK
<1>1. ASSUME Fits, Texts PROVE TypeOK
  <2>1. raw # None => raw \in Seq(Bytes)
    BY <1>1 DEF Fits, Content
  <2>2. metadata \notin {None, Truncated} =>
          metadata \in [ulid : {"own", "default"}, dims : Shapes, rows : Nat, capacity : Nat,
                       bytes : Nat]
    BY <1>1 DEF Fits, MetadataFits, FittingMetadata
  <2>3. ASSUME handler # None PROVE handler.dims \in Shapes /\ handler.total \in 0..Len(raw)
    <3>1. HandlerTypes(handler) /\ handler.total <= Len(raw) /\ Len(raw) \in Nat
      BY <1>1, <2>3 DEF Fits, HandlerFits, Content
    <3> QED
      BY <3>1 DEF HandlerTypes
  <2>4. op.row \in 0..op.last
    BY <1>1 DEF Fits, OpFits
  <2> QED
    BY <1>1, <2>1, <2>2, <2>3, <2>4 DEF TypeOK, Fits, Texts, FileTexts
<1> QED
  BY <1>1, TextsHold, PTL

\* The encoded file, the Merkle tree, in memory and on disk, and the metadata
\* are those of the unencoded file whenever no call is under way, for every
\* file, append, edit, shape and buffer and after every crash, unless a call
\* was cut short or left rows out and no reencode has made up for it
\* (append_bytes, edit_bytes, reshape, new_attach_to_existing_files).
THEOREM FilesAlwaysAgree == Spec => []FilesAgree
<1>1. ASSUME Fits, Agree, Texts PROVE FilesAgree
  <2> SUFFICES ASSUME Attached, ~torn PROVE InAgreement
    BY DEF FilesAgree
  <2>1. Whole(handler, raw, encoded, tree) /\ Recorded(metadata, handler)
    BY <1>1 DEF Agree, AtRest, Attached
  <2>2. /\ raw \in Content /\ HandlerTypes(handler) /\ FitsIn(handler, handler.capacity)
    BY <1>1, AttachedFits
  <2>3. /\ handler.dims \in Shapes /\ handler.capacity \in Nat
        /\ handler.readerCapacity = handler.capacity
    BY <2>2 DEF HandlerTypes
  <2>4. RowCount(raw, handler.dims) <= handler.capacity
    BY <2>1, <2>2 DEF Whole, FitsIn
  <2>5. /\ Sized(encoded, handler.capacity, handler.dims.enc)
        /\ \A r \in 0..RowCount(raw, handler.dims) - 1 :
             RowAt(encoded, handler.capacity, raw, handler.dims, r)
    BY <2>1 DEF Whole, HoldsRows
  <2>6. /\ Readable(encoded, handler.capacity, handler.dims.enc, RowCount(raw, handler.dims))
        /\ ReadColumns(encoded, handler.capacity, handler.dims.enc, RowCount(raw, handler.dims))
             = Encoding(raw, handler.dims)
    BY <2>2, <2>3, <2>4, <2>5, ReadBack
  <2>7. FileReadable /\ FileColumns = handler.tree
    BY <2>1, <2>3, <2>6 DEF Whole, FileReadable, FileColumns
  <2>8. leftover = 0
    BY <1>1 DEF Texts, HandlerTexts, Opened, Attached, Idle
  <2> QED
    BY <2>1, <2>7, <2>8 DEF Whole, Recorded, InAgreement, ContentsAgree
<1> QED
  BY <1>1, TextsHold, PTL

-----------------------------------------------------------------------------
(* The files can be attached again, whatever an append, an edit or a       *)
(* reencode does and wherever it is killed.                                *)

\* The values that stand for no file and for an empty one are no contents of
\* files: those are functions, of positions, columns or fields.
AbsentAreNoFunctions == \A x \in {None, Truncated} : x # [i \in DOMAIN x |-> x[i]]

\* What is written to the files is there.
LEMMA WrittenIsThere ==
  ASSUME AbsentAreNoFunctions
  PROVE  /\ \A n : Blank(n) \notin {None, Truncated}
         /\ \A file, n : SetLen(file, n) \notin {None, Truncated}
         /\ \A file, cap, enc, first, rows :
              WriteRows(file, cap, enc, first, rows) \notin {None, Truncated}
         /\ \A file, old, new, c : MoveColumn(file, old, new, c) \notin {None, Truncated}
         /\ \A data, dims : Encoding(data, dims) \notin {None, Truncated}
         /\ \A data, dims : EncodedFile(data, dims) \notin {None, Truncated}
         /\ \A file, cap, enc, rows : ReadColumns(file, cap, enc, rows) \notin {None, Truncated}
<1>1. ASSUME NEW n PROVE Blank(n) \notin {None, Truncated}
  <2>1. Blank(n) = [i \in DOMAIN Blank(n) |-> Blank(n)[i]]
    BY DEF Blank
  <2> QED
    BY <2>1 DEF AbsentAreNoFunctions
<1>2. ASSUME NEW file, NEW n PROVE SetLen(file, n) \notin {None, Truncated}
  <2> DEFINE f == SetLen(file, n)
  <2>1. f = [i \in DOMAIN f |-> f[i]]
    BY DEF SetLen
  <2> HIDE DEF f
  <2>2. f \notin {None, Truncated}
    BY <2>1 DEF AbsentAreNoFunctions
  <2> QED
    BY <2>2 DEF f
<1>3. ASSUME NEW file, NEW cap, NEW enc, NEW first, NEW rows
      PROVE  WriteRows(file, cap, enc, first, rows) \notin {None, Truncated}
  <2> DEFINE f == WriteRows(file, cap, enc, first, rows)
  <2>1. f = [i \in DOMAIN f |-> f[i]]
    BY DEF WriteRows
  <2> HIDE DEF f
  <2>2. f \notin {None, Truncated}
    BY <2>1 DEF AbsentAreNoFunctions
  <2> QED
    BY <2>2 DEF f
<1>4. ASSUME NEW file, NEW old, NEW new, NEW c
      PROVE  MoveColumn(file, old, new, c) \notin {None, Truncated}
  <2> DEFINE f == MoveColumn(file, old, new, c)
  <2>1. f = [i \in DOMAIN f |-> f[i]]
    BY DEF MoveColumn
  <2> HIDE DEF f
  <2>2. f \notin {None, Truncated}
    BY <2>1 DEF AbsentAreNoFunctions
  <2> QED
    BY <2>2 DEF f
<1>5. ASSUME NEW data, NEW dims PROVE Encoding(data, dims) \notin {None, Truncated}
  <2> DEFINE f == Encoding(data, dims)
  <2>1. f = [i \in DOMAIN f |-> f[i]]
    BY DEF Encoding
  <2> HIDE DEF f
  <2>2. f \notin {None, Truncated}
    BY <2>1 DEF AbsentAreNoFunctions
  <2> QED
    BY <2>2 DEF f
<1>6. ASSUME NEW data, NEW dims PROVE EncodedFile(data, dims) \notin {None, Truncated}
  BY <1>3 DEF EncodedFile
<1>7. ASSUME NEW file, NEW cap, NEW enc, NEW rows
      PROVE  ReadColumns(file, cap, enc, rows) \notin {None, Truncated}
  <2> DEFINE f == ReadColumns(file, cap, enc, rows)
  <2>1. f = [i \in DOMAIN f |-> f[i]]
    BY DEF ReadColumns
  <2> HIDE DEF f
  <2>2. f \notin {None, Truncated}
    BY <2>1 DEF AbsentAreNoFunctions
  <2> QED
    BY <2>2 DEF f
<1> QED
  BY <1>1, <1>2, <1>3, <1>4, <1>5, <1>6, <1>7

LEMMA MetadataIsThere ==
  ASSUME AbsentAreNoFunctions, NEW h
  PROVE  OwnMetadata(h) \notin {None, Truncated} /\ OwnMetadata(h).ulid = "own"
<1> DEFINE m == OwnMetadata(h)
<1>1. m = [i \in DOMAIN m |-> m[i]]
  BY DEF OwnMetadata, Metadata
<1>2. m.ulid = "own"
  BY DEF OwnMetadata, Metadata
<1> HIDE DEF m
<1>3. m \notin {None, Truncated}
  BY <1>1 DEF AbsentAreNoFunctions
<1> QED
  BY <1>2, <1>3 DEF m

\* A change starts, of files that can be attached.
LEMMA CallStaysAttachable ==
  ASSUME AbsentAreNoFunctions, Fits, Attachable, Call,
         op'.call \in {"append", "edit", "reencode"}
  PROVE  Attachable'
<1>1. CASE AttachToExistingUlid
  BY <1>1 DEF AttachToExistingUlid, Attachable
<1>2. ASSUME NEW dims \in Shapes, CreateFromUnencodedFile(dims) PROVE FALSE
  BY <1>2 DEF CreateFromUnencodedFile, Free, Begin, Idle
<1>3. ASSUME NEW dims \in Shapes, Reshape(dims) PROVE FALSE
  BY <1>3 DEF Reshape, Begin, Idle
<1>4. CASE DeleteAllFiles
  BY <1>4 DEF DeleteAllFiles, Begin, Idle
<1>5. ASSUME NEW bytes \in Appends, AppendBytes(bytes) PROVE Attachable'
  <2>1. Fits' /\ UNCHANGED <<encoded, tree, metadata, leftover>> /\ Calling'
    BY <1>5, AppendFits DEF AppendBytes, Calling, Idle
  <2>2. raw' # None
    BY <2>1, NoneAssumption DEF Fits, HandlerFits
  <2> QED
    BY <2>1, <2>2 DEF Attachable
<1>6. ASSUME NEW start \in 0..MaxLength, NEW patch \in Patches, EditBytes(start, patch)
      PROVE  Attachable'
  <2>1. Fits' /\ UNCHANGED <<encoded, tree, metadata, leftover>> /\ Calling'
    BY <1>6, EditFits DEF EditBytes, Calling, Idle
  <2>2. raw' # None
    BY <2>1, NoneAssumption DEF Fits, HandlerFits
  <2> QED
    BY <2>1, <2>2 DEF Attachable
<1>7. CASE ReencodeUnencodedFile
  <2>1. encoded' = Blank(0) /\ UNCHANGED <<raw, tree, metadata, leftover>>
    BY <1>7 DEF ReencodeUnencodedFile
  <2>2. encoded' # None
    BY <2>1, WrittenIsThere
  <2> QED
    BY <2>1, <2>2 DEF Attachable
<1> QED
  BY <1>1, <1>2, <1>3, <1>4, <1>5, <1>6, <1>7 DEF Call

\* A step of a change puts a file where it takes one.
LEMMA StepStaysAttachable ==
  ASSUME AbsentAreNoFunctions, Fits, Agree, Texts, Attachable, Step, ~LeavesRowsOut,
         {op.call, op'.call} \cap {"append", "edit", "reencode"} # {}
  PROVE  Attachable'
<1>1. ASSUME \/ TruncateEncoded \/ CreateMetadata \/ WriteNewMetadata \/ CreateTree
             \/ WriteNewTree \/ StampUlid \/ RemoveEncoded \/ RemoveTree \/ RemoveMetadata
      PROVE  FALSE
  <2>1. op.call \in {"create", "reshape", "delete"}
    BY <1>1 DEF TruncateEncoded, CreateMetadata, WriteNewMetadata, CreateTree, WriteNewTree,
                StampUlid, RemoveEncoded, RemoveTree, RemoveMetadata, Fits, OpFits
  <2>2. op' = Idle \/ \E pc \in Pcs : op' = [op EXCEPT !.pc = pc]
    BY <1>1 DEF TruncateEncoded, CreateMetadata, WriteNewMetadata, CreateTree, WriteNewTree,
                StampUlid, RemoveEncoded, RemoveTree, RemoveMetadata, Pcs, Converting
  <2>3. op'.call = "none" \/ op'.call = op.call
    BY <2>2, StepsOn DEF Idle
  <2> QED
    BY <2>1, <2>3
<1>2. CASE EncodeFile \/ GrowFile \/ MoveOneColumn \/ ReencodeRow
  <2>1. /\ UNCHANGED <<raw, tree, metadata, leftover>>
        /\ encoded' = encoded \/ encoded' # None
    BY <1>2, WrittenIsThere DEF EncodeFile, GrowFile, MoveOneColumn, ReencodeRow
  <2> QED
    BY <2>1 DEF Attachable
<1>3. CASE RecalculateMerkleTree \/ WriteTree
  <2>1. /\ UNCHANGED <<raw, encoded, metadata, leftover>>
        /\ tree' = tree \/ tree' \notin {None, Truncated}
    BY <1>3, WrittenIsThere DEF RecalculateMerkleTree, WriteTree, FileColumns
  <2> QED
    BY <2>1 DEF Attachable
<1>4. CASE WriteMetadata
  <2>1. UNCHANGED <<raw, encoded, tree>> /\ metadata' = OwnMetadata(handler)
    BY <1>4 DEF WriteMetadata
  <2>2. leftover' = 0
    BY <1>4, WritesText DEF Attachable
  <2> QED
    BY <2>1, <2>2, MetadataIsThere DEF Attachable
<1> QED
  BY <1>1, <1>2, <1>3, <1>4 DEF Step

\* Whatever an append, an edit or a reencode of all rows does, and whatever file
\* operation it is killed at, new_attach_to_existing_files attaches to the files
\* afterwards if it did before: none of the four is missing or empty, and the
\* metadata file holds one text, because write_metadata never writes a shorter
\* one over a longer one that it does not truncate.
THEOREM ChangesKeepAttachable ==
  ASSUME AbsentAreNoFunctions
  PROVE  Spec => ChangesStayAttachable
<1> DEFINE Kept ==
      /\ Attachable
      /\ {op.call, op'.call} \cap {"append", "edit", "reencode"} # {}
      /\ ~LeavesRowsOut
      => Attachable'
<1>1. ASSUME Fits, Agree, Texts, [Next]_vars PROVE [Kept]_vars
  <2> SUFFICES ASSUME Attachable, ~LeavesRowsOut, ~UNCHANGED vars,
                      {op.call, op'.call} \cap {"append", "edit", "reencode"} # {}
               PROVE  Attachable'
    OBVIOUS
  <2>1. CASE Call
    <3>1. op = Idle
      BY <2>1 DEF Call, AttachToExistingUlid, CreateFromUnencodedFile, Reshape, AppendBytes,
                  EditBytes, ReencodeUnencodedFile, DeleteAllFiles, Free, Attached
    <3>2. op'.call \in {"append", "edit", "reencode"}
      BY <3>1 DEF Idle
    <3> QED
      BY <1>1, <2>1, <3>2, CallStaysAttachable
  <2>2. CASE Step
    BY <1>1, <2>2, StepStaysAttachable
  <2>3. CASE Crash
    BY <2>3 DEF Crash, Attachable
  <2> QED
    BY <1>1, <2>1, <2>2, <2>3 DEF Next
<1> QED
  BY <1>1, TextsHold, PTL DEF Spec, ChangesStayAttachable
=============================================================================
