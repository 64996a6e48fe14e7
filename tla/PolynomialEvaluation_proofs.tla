--------------------- MODULE PolynomialEvaluation_proofs ---------------------
(***************************************************************************)
(* Theorems about streams, commitments and the columns that are opened, as *)
(* PolynomialEvaluation has them: the rows that the iterator hands out are *)
(* those that were committed to, what it opens verifies, a proof of        *)
(* columns is accepted exactly when the committed matrix is stored, the    *)
(* verdict on a new version is a comparison of polynomials at a point, and *)
(* the library's proofs verify for their own file and no other.            *)
(***************************************************************************)
EXTENDS PolynomialEvaluation, LinearCode_proofs

-----------------------------------------------------------------------------
(* The file as a stream of elements.                                       *)

Elements == FromByteVec(data)

\* The elements the iterator has taken, or would have with the row full.
Taken == Len(streamed) * dims.pre + coef_buffer_position

\* The bytes behind the first k elements.
Unread(content, k) == SubSeq(content, k * BYTE_CAPACITY + 1, Len(content))

\* What the iterator has taken, buffered and handed out, of the file.
StreamInv ==
  /\ data \in Content
  /\ dims \in Shapes
  /\ coef_buffer_position \in 0..dims.pre
  /\ streamed = SubSeq(CommitTo(Elements, dims).comm, 1, Len(streamed))
  /\ Len(streamed) \in 0..CeilDiv(Len(Elements), dims.pre)
  /\ coef_buffer_position # 0 => Taken <= Len(Elements)
  /\ rest = Unread(data, Taken)
  /\ coefs_buffer = [c \in 1..dims.enc |->
                       IF c <= coef_buffer_position THEN Elements[Len(streamed) * dims.pre + c]
                       ELSE 0]

\* How many elements a file has.
LEMMA ElementsOfFile ==
  ASSUME NEW content \in Content
  PROVE  /\ Len(FromByteVec(content)) = FieldLen(content)
         /\ FieldLen(content) \in Nat
         /\ \A k \in Nat : k < FieldLen(content) <=> k * BYTE_CAPACITY < Len(content)
<1>1. Len(content) \in Nat
  BY DEF Content
<1>2. /\ FieldLen(content) \in Nat
      /\ \A k \in Nat : k < FieldLen(content) <=> k * BYTE_CAPACITY < Len(content)
  BY <1>1, CapacityAssumption, PiecesBegin DEF FieldLen
<1>3. Len(FromByteVec(content)) = FieldLen(content)
  BY <1>2 DEF FromByteVec
<1> QED
  BY <1>2, <1>3

\* The rows of a commitment.
LEMMA RowsOfCommitment ==
  ASSUME NEW elements, Len(elements) \in Nat, NEW shape \in Shapes
  PROVE  LET n == CeilDiv(Len(elements), shape.pre)
         IN  /\ n \in Nat
             /\ \A k \in Nat : k < n <=> k * shape.pre < Len(elements)
             /\ CommitTo(elements, shape).comm =
                  [r \in 1..n |-> Encode(CoefficientRow(elements, shape, r))]
<1>1. shape.pre \in Nat \ {0}
  BY ShapesAssumption
<1> DEFINE n == CeilDiv(Len(elements), shape.pre)
<1>2. n \in Nat /\ \A k \in Nat : k < n <=> k * shape.pre < Len(elements)
  BY <1>1, PiecesBegin
<1>3. CommitTo(elements, shape).comm =
        [r \in 1..n |-> Encode(CoefficientRow(elements, shape, r))]
  BY DEF CommitTo, CoefficientRows
<1> QED
  BY <1>2, <1>3

\* A sequence and one of its elements more.
LEMMA LongerPrefix ==
  ASSUME NEW n \in Nat, NEW all, Spans(all, n), NEW k \in 0..n - 1, NEW part,
         part = SubSeq(all, 1, k)
  PROVE  /\ Len(part) = k
         /\ Append(part, all[k + 1]) = SubSeq(all, 1, k + 1)
<1> DEFINE V == {all[i] : i \in 1..n}
<1>1. all \in Seq(V) /\ Len(all) = n
  <2>1. \A i \in 1..n : all[i] \in V
    OBVIOUS
  <2> HIDE DEF V
  <2>2. all \in [1..n -> V]
    BY <2>1 DEF Spans
  <2> QED
    BY <2>2
<1> HIDE DEF V
<1>2. /\ part \in Seq(V) /\ Len(part) = k
      /\ \A i \in 1..k : part[i] = all[i]
  <2>1. /\ SubSeq(all, 0 + 1, k) \in Seq(V)
        /\ Len(SubSeq(all, 0 + 1, k)) = IF 0 <= k THEN k - 0 ELSE 0
        /\ \A i \in 1..k - 0 : SubSeq(all, 0 + 1, k)[i] = all[0 + i]
    BY <1>1, Middle
  <2> QED
    BY <2>1
<1>3. all[k + 1] \in V
  BY <1>1, ElementOfSeq
<1>4. /\ SubSeq(all, 1, k + 1) \in Seq(V) /\ Len(SubSeq(all, 1, k + 1)) = k + 1
      /\ \A i \in 1..k + 1 : SubSeq(all, 1, k + 1)[i] = all[i]
  <2>1. k + 1 \in Nat /\ k + 1 <= Len(all)
    BY <1>1
  <2>2. /\ SubSeq(all, 0 + 1, k + 1) \in Seq(V)
        /\ Len(SubSeq(all, 0 + 1, k + 1)) = IF 0 <= k + 1 THEN k + 1 - 0 ELSE 0
        /\ \A i \in 1..k + 1 - 0 : SubSeq(all, 0 + 1, k + 1)[i] = all[0 + i]
    BY <1>1, <2>1, Middle
  <2> QED
    BY <2>2
<1>5. /\ Append(part, all[k + 1]) \in Seq(V)
      /\ Len(Append(part, all[k + 1])) = k + 1
      /\ \A i \in 1..k : Append(part, all[k + 1])[i] = part[i]
      /\ Append(part, all[k + 1])[k + 1] = all[k + 1]
  BY <1>2, <1>3, AppendProperties
<1>6. \A i \in 1..k + 1 : Append(part, all[k + 1])[i] = SubSeq(all, 1, k + 1)[i]
  BY <1>2, <1>4, <1>5
<1>7. Append(part, all[k + 1]) = SubSeq(all, 1, k + 1)
  BY <1>4, <1>5, <1>6, SeqEqual
<1> QED
  BY <1>2, <1>7

\* An element is made of the next bytes, and they are then taken.
LEMMA NextElement ==
  ASSUME NEW content \in Content, NEW k \in Nat, Unread(content, k) # << >>
  PROVE  LET left == Unread(content, k)
             n    == Lesser(BYTE_CAPACITY, Len(left))
         IN  /\ k + 1 <= Len(FromByteVec(content))
             /\ FromDataBytes(PaddedChunk(SubSeq(left, 1, n))) = FromByteVec(content)[k + 1]
             /\ SubSeq(left, n + 1, Len(left)) = Unread(content, k + 1)
<1> DEFINE left == Unread(content, k)
           n == Lesser(BYTE_CAPACITY, Len(left))
           m == k * BYTE_CAPACITY
<1>1. /\ BYTE_CAPACITY \in Nat \ {0} /\ m \in Nat /\ content \in Seq(Bytes) /\ Len(content) \in Nat
      /\ (k + 1) * BYTE_CAPACITY = m + BYTE_CAPACITY
  BY CapacityAssumption, LenProperties DEF Content
<1>2. /\ left \in Seq(Bytes)
      /\ Len(left) = IF m <= Len(content) THEN Len(content) - m ELSE 0
      /\ \A i \in 1..Len(content) - m : left[i] = content[m + i]
  BY <1>1, Middle DEF Unread
<1>3. left # << >>
  OBVIOUS
<1>4. n = Lesser(BYTE_CAPACITY, Len(left))
  OBVIOUS
<1>5. left = SubSeq(content, m + 1, Len(content))
  BY DEF Unread
<1> HIDE DEF m, left, n
<1>6. Len(left) \in Nat \ {0} /\ m < Len(content) /\ Len(left) = Len(content) - m
  <2>1. Len(left) \in Nat \ {0}
    BY <1>2, <1>3, EmptySeq
  <2>2. m <= Len(content) /\ Len(left) = Len(content) - m
    BY <1>2, <2>1
  <2> QED
    BY <1>1, <2>1, <2>2
<1>7. n \in Nat /\ n <= Len(left) /\ n <= BYTE_CAPACITY /\ (n = BYTE_CAPACITY \/ n = Len(left))
  BY <1>1, <1>6, <1>4 DEF Lesser
<1>8. k + 1 <= Len(FromByteVec(content))
  <2>1. k * BYTE_CAPACITY < Len(content)
    BY <1>6 DEF m
  <2> QED
    BY <2>1, ElementsOfFile
<1>9. PaddedChunk(SubSeq(left, 1, n)) = PaddedChunk(left)
  <2> DEFINE chunk == SubSeq(left, 1, n)
  <2>1. /\ Len(chunk) = n
        /\ \A i \in 1..n : chunk[i] = left[i]
    <3>1. /\ Len(SubSeq(left, 0 + 1, n)) = IF 0 <= n THEN n - 0 ELSE 0
          /\ \A i \in 1..n - 0 : SubSeq(left, 0 + 1, n)[i] = left[0 + i]
      BY <1>2, <1>7, Middle
    <3>2. 0 + 1 = 1 /\ 0 <= n /\ n - 0 = n /\ \A i \in 1..n : 0 + i = i
      BY <1>7
    <3> QED
      BY <3>1, <3>2
  <2> HIDE DEF chunk
  <2>2. \A i \in 1..BYTE_CAPACITY : i <= Len(chunk) <=> i <= Len(left)
    BY <1>1, <1>6, <1>7, <2>1
  <2>3. \A i \in 1..BYTE_CAPACITY : (IF i <= Len(chunk) THEN chunk[i] ELSE 0)
                                      = (IF i <= Len(left) THEN left[i] ELSE 0)
    BY <1>1, <1>7, <2>1, <2>2
  <2>4. PaddedChunk(chunk) = PaddedChunk(left)
    BY <2>3 DEF PaddedChunk
  <2> QED
    BY <2>4 DEF chunk
<1>10. FromByteVec(content)[k + 1] = FromDataBytes(PaddedChunk(left))
  <2>1. k + 1 \in 1..FieldLen(content) /\ (k + 1) - 1 = k
    BY <1>8, ElementsOfFile
  <2> QED
    BY <1>5, <2>1 DEF FromByteVec, m
<1>11. SubSeq(left, n + 1, Len(left)) = SubSeq(content, m + n + 1, Len(content))
  <2>1. /\ m <= Len(content) /\ Len(content) <= Len(content) /\ Len(left) <= Len(content) - m
        /\ m + Len(left) = Len(content)
    BY <1>1, <1>6
  <2>3. PICK size \in Nat, length \in Nat : size = Len(content) /\ length = Len(left)
    BY <1>1, <1>6
  <2>4. m <= size /\ size <= Len(content) /\ length <= size - m /\ m + length = size
    BY <1>1, <1>6, <2>3
  <2>5. SubSeq(SubSeq(content, m + 1, size), n + 1, length)
          = SubSeq(content, m + n + 1, m + length)
    BY <1>1, <1>7, <2>4, MiddleOfMiddle
  <2> QED
    BY <1>5, <2>3, <2>4, <2>5
<1>12. SubSeq(content, m + n + 1, Len(content))
        = SubSeq(content, m + BYTE_CAPACITY + 1, Len(content))
  <2>1. CASE n = BYTE_CAPACITY
    BY <2>1
  <2>2. CASE n = Len(left)
    <3>1. /\ m + n \in Nat /\ m + n = Len(content)
          /\ m + BYTE_CAPACITY \in Nat /\ m + BYTE_CAPACITY >= Len(content)
      BY <1>1, <1>6, <1>7, <2>2
    <3>2. SubSeq(content, m + n + 1, Len(content)) \in Seq(Bytes)
          /\ Len(SubSeq(content, m + n + 1, Len(content))) = 0
      BY <1>1, <3>1, Middle
    <3>3. SubSeq(content, m + BYTE_CAPACITY + 1, Len(content)) \in Seq(Bytes)
          /\ Len(SubSeq(content, m + BYTE_CAPACITY + 1, Len(content))) = 0
      BY <1>1, <3>1, Middle
    <3> QED
      BY <3>2, <3>3, EmptySeq
  <2> QED
    BY <1>7, <2>1, <2>2
<1> QED
  BY <1>1, <1>8, <1>9, <1>10, <1>11, <1>12 DEF m, left, n, Unread
\* The bytes are all taken when the elements are.
LEMMA NothingUnread ==
  ASSUME NEW content \in Content, NEW k \in Nat
  PROVE  Unread(content, k) = << >> <=> Len(FromByteVec(content)) <= k
<1> DEFINE left == Unread(content, k)
           m == k * BYTE_CAPACITY
<1>1. m \in Nat /\ content \in Seq(Bytes) /\ Len(content) \in Nat
  BY CapacityAssumption, LenProperties DEF Content
<1>2. left \in Seq(Bytes) /\ Len(left) = IF m <= Len(content) THEN Len(content) - m ELSE 0
  BY <1>1, Middle DEF Unread
<1>3. left = << >> <=> Len(left) = 0
  <2>1. left # << >> => Len(left) \in Nat \ {0}
    BY <1>2, EmptySeq
  <2>2. left = << >> => Len(left) = 0
    BY EmptySeq
  <2> QED
    BY <2>1, <2>2
<1>4. /\ Len(FromByteVec(content)) \in Nat
      /\ k < Len(FromByteVec(content)) <=> m < Len(content)
  BY ElementsOfFile
<1> HIDE DEF m, left
<1>5. Len(left) = 0 <=> ~ (m < Len(content))
  BY <1>1, <1>2
<1>6. Len(left) = 0 <=> Len(FromByteVec(content)) <= k
  BY <1>4, <1>5
<1> QED
  BY <1>3, <1>6 DEF left

\* The row in the buffer is one of the commitment, wherever the file ends.
LEMMA BufferedRow ==
  ASSUME NEW elements, Len(elements) \in Nat, NEW shape \in Shapes, NEW k \in Nat,
         NEW position \in 1..shape.pre, k * shape.pre + position <= Len(elements),
         position = shape.pre \/ Len(elements) <= k * shape.pre + position
  PROVE  [c \in 1..shape.enc |-> IF c <= position THEN elements[k * shape.pre + c] ELSE 0]
           = CoefficientRow(elements, shape, k + 1)
<1>1. shape.pre \in Nat \ {0} /\ k * shape.pre \in Nat /\ (k + 1) - 1 = k
  BY ShapesAssumption
<1>2. PICK m \in Nat : m = k * shape.pre
  BY <1>1
<1>3. ASSUME NEW c \in 1..shape.enc
      PROVE  c <= position <=> c <= shape.pre /\ m + c <= Len(elements)
  <2>1. c \in Nat /\ position \in Nat
    BY <1>1, ShapesAssumption
  <2> QED
    BY <1>1, <1>2, <2>1
<1>4. CoefficientRow(elements, shape, k + 1) =
        [c \in 1..shape.enc |-> IF c <= shape.pre /\ m + c <= Len(elements) THEN elements[m + c] ELSE 0]
  BY <1>1, <1>2 DEF CoefficientRow
<1> QED
  BY <1>2, <1>3, <1>4

LEMMA StreamInit == ASSUME Init PROVE StreamInv
<1>1. /\ data \in Content /\ dims \in Shapes /\ rest = data /\ streamed = << >>
      /\ coef_buffer_position = 0
      /\ coefs_buffer = [c \in 1..dims.enc |-> 0]
  BY FilesAssumption DEF Init, RowInit, ZeroBuffer
<1>2. dims.pre \in Nat \ {0} /\ dims.enc \in Nat \ {0}
  BY <1>1, ShapesAssumption
<1>3. Len(Elements) \in Nat
  BY <1>1, ElementsOfFile DEF Elements
<1>4. Len(streamed) = 0
  BY <1>1
<1>5. CeilDiv(Len(Elements), dims.pre) \in Nat
  BY <1>1, <1>3, RowsOfCommitment
<1>6. Taken = 0
  BY <1>1, <1>2, <1>4 DEF Taken
<1>7. rest = Unread(data, Taken)
  <2>1. data \in Seq(Bytes) /\ 0 * BYTE_CAPACITY + 1 = 1
    BY <1>1, CapacityAssumption DEF Content
  <2>2. SubSeq(data, 1, Len(data)) = data
    BY <2>1, SubSeqFull
  <2> QED
    BY <1>1, <1>6, <2>1, <2>2 DEF Unread
<1>8. streamed = SubSeq(CommitTo(Elements, dims).comm, 1, Len(streamed))
  BY <1>1, <1>4, SubSeqEmpty
<1>9. coefs_buffer = [c \in 1..dims.enc |->
                       IF c <= coef_buffer_position THEN Elements[Len(streamed) * dims.pre + c]
                       ELSE 0]
  <2>1. \A c \in 1..dims.enc : ~ (c <= coef_buffer_position)
    BY <1>1, <1>2
  <2> QED
    BY <1>1, <2>1
<1>10. coef_buffer_position \in 0..dims.pre
  BY <1>1, <1>2
<1>11. Len(streamed) \in 0..CeilDiv(Len(Elements), dims.pre)
  BY <1>4, <1>5
<1> QED
  BY <1>1, <1>7, <1>8, <1>9, <1>10, <1>11 DEF StreamInv

LEMMA StreamTakes == ASSUME StreamInv, TakeElement PROVE StreamInv'
<1> DEFINE n == Lesser(BYTE_CAPACITY, Len(rest))
           l == Len(streamed)
           pos == coef_buffer_position
<1>1. /\ dims \in Shapes /\ data \in Content
      /\ dims.pre \in Nat \ {0} /\ dims.enc \in Nat \ {0} /\ dims.pre < dims.enc
      /\ pos \in Nat /\ pos < dims.pre /\ rest # << >> /\ rest = Unread(data, Taken)
  BY ShapesAssumption, EncodingAssumption DEF StreamInv, TakeElement
<1>2. /\ l \in Nat /\ Taken \in Nat /\ Taken = l * dims.pre + pos /\ l * dims.pre \in Nat
  <2>1. Len(Elements) \in Nat
    BY <1>1, ElementsOfFile DEF Elements
  <2>2. CeilDiv(Len(Elements), dims.pre) \in Nat
    BY <1>1, <2>1, RowsOfCommitment
  <2>3. l \in Nat
    BY <2>2 DEF StreamInv
  <2>4. l * dims.pre \in Nat
    BY <1>1, <2>3
  <2> QED
    BY <1>1, <2>3, <2>4 DEF Taken
<1>3. /\ UNCHANGED <<data, dims, streamed>>
      /\ coef_buffer_position' = pos + 1
      /\ coefs_buffer' = [coefs_buffer EXCEPT ![pos + 1] = FromDataBytes(PaddedChunk(SubSeq(rest, 1, n)))]
      /\ rest' = SubSeq(rest, n + 1, Len(rest))
  BY DEF TakeElement
<1>4. /\ Taken + 1 <= Len(Elements)
      /\ FromDataBytes(PaddedChunk(SubSeq(rest, 1, n))) = Elements[Taken + 1]
      /\ SubSeq(rest, n + 1, Len(rest)) = Unread(data, Taken + 1)
  BY <1>1, <1>2, NextElement DEF Elements
<1>5. Elements' = Elements
  BY <1>3 DEF Elements
<1>6. PICK before \in Nat : before = l * dims.pre
  BY <1>2
<1>7. Taken = before + pos /\ (before + pos) + 1 = before + (pos + 1)
  BY <1>1, <1>2, <1>6
<1>8. Taken' = Taken + 1
  <2>1. Taken' = before + (pos + 1)
    BY <1>3, <1>6 DEF Taken
  <2> QED
    BY <1>7, <2>1
<1>9. coefs_buffer' = [c \in 1..dims'.enc |->
                         IF c <= coef_buffer_position' THEN Elements'[Len(streamed') * dims'.pre + c]
                         ELSE 0]
  <2>1. coefs_buffer = [c \in 1..dims.enc |-> IF c <= pos THEN Elements[l * dims.pre + c] ELSE 0]
    BY DEF StreamInv
  <2>2. l * dims.pre + (pos + 1) = Taken + 1
    BY <1>6, <1>7
  <2>3. coefs_buffer' = [coefs_buffer EXCEPT ![pos + 1] = Elements[l * dims.pre + (pos + 1)]]
    BY <1>3, <1>4, <2>2
  <2> HIDE DEF pos, l
  <2>4. \A c \in 1..dims.enc : (c <= pos + 1 <=> c <= pos \/ c = pos + 1) /\ ~ (pos + 1 <= pos)
    BY <1>1
  <2>5. coefs_buffer' = [c \in 1..dims.enc |-> IF c <= pos + 1 THEN Elements[l * dims.pre + c] ELSE 0]
    BY <2>1, <2>3, <2>4
  <2> QED
    BY <1>3, <1>5, <2>5 DEF pos, l
<1>10. coef_buffer_position' \in 0..dims'.pre
  BY <1>1, <1>3
<1>11. rest' = Unread(data', Taken')
  BY <1>3, <1>4, <1>8
<1>12. /\ data' \in Content /\ dims' \in Shapes
       /\ streamed' = SubSeq(CommitTo(Elements', dims').comm, 1, Len(streamed'))
       /\ Len(streamed') \in 0..CeilDiv(Len(Elements'), dims'.pre)
  BY <1>3, <1>5 DEF StreamInv
<1>13. Taken' <= Len(Elements')
  BY <1>4, <1>5, <1>8
<1> QED
  BY <1>9, <1>10, <1>11, <1>12, <1>13 DEF StreamInv

\* A row that is handed out is the next one of the commitment.
LEMMA NextRow ==
  ASSUME StreamInv, RowComplete
  PROVE  LET comm == CommitTo(Elements, dims).comm
         IN  /\ Len(streamed) + 1 <= CeilDiv(Len(Elements), dims.pre)
             /\ Append(streamed, Encode(coefs_buffer)) = SubSeq(comm, 1, Len(streamed) + 1)
<1> DEFINE comm == CommitTo(Elements, dims).comm
           rows == CeilDiv(Len(Elements), dims.pre)
           l == Len(streamed)
           pos == coef_buffer_position
<1>1. /\ dims \in Shapes /\ data \in Content
      /\ dims.pre \in Nat \ {0} /\ dims.enc \in Nat \ {0}
      /\ pos \in 1..dims.pre /\ pos # 0 /\ (pos = dims.pre \/ rest = << >>)
      /\ rest = Unread(data, Taken) /\ Taken <= Len(Elements)
  <2>1. dims \in Shapes /\ pos \in 0..dims.pre /\ pos # 0
    BY DEF StreamInv, RowComplete
  <2>2. dims.pre \in Nat \ {0} /\ dims.enc \in Nat \ {0}
    BY <2>1, ShapesAssumption
  <2>3. pos \in 1..dims.pre
    BY <2>1, <2>2
  <2> QED
    BY <2>1, <2>2, <2>3 DEF StreamInv, RowComplete
<1>2. Len(Elements) \in Nat
  BY <1>1, ElementsOfFile DEF Elements
<1>3. /\ rows \in Nat
      /\ \A k \in Nat : k < rows <=> k * dims.pre < Len(Elements)
      /\ comm = [r \in 1..rows |-> Encode(CoefficientRow(Elements, dims, r))]
  BY <1>1, <1>2, RowsOfCommitment
<1>4. /\ l \in Nat /\ l <= rows /\ l * dims.pre \in Nat /\ Taken = l * dims.pre + pos /\ Taken \in Nat
  <2>1. l \in 0..rows
    BY DEF StreamInv
  <2>2. l \in Nat /\ l <= rows
    BY <1>3, <2>1
  <2>3. l * dims.pre \in Nat
    BY <1>1, <2>2
  <2> QED
    BY <1>1, <2>2, <2>3 DEF Taken
<1>5. l < rows
  <2>1. l * dims.pre < Len(Elements)
    BY <1>1, <1>2, <1>4
  <2> QED
    BY <1>3, <1>4, <2>1
<1>6. pos = dims.pre \/ Len(Elements) <= l * dims.pre + pos
  <2>1. rest = << >> => Len(Elements) <= Taken
    BY <1>1, <1>4, NothingUnread DEF Elements
  <2> QED
    BY <1>1, <1>4, <2>1
<1>7. coefs_buffer = CoefficientRow(Elements, dims, l + 1)
  <2>1. coefs_buffer = [c \in 1..dims.enc |-> IF c <= pos THEN Elements[l * dims.pre + c] ELSE 0]
    BY DEF StreamInv
  <2>2. l * dims.pre + pos <= Len(Elements)
    BY <1>1, <1>4
  <2> HIDE DEF pos, l
  <2> QED
    BY <1>1, <1>2, <1>4, <1>6, <2>1, <2>2, BufferedRow
<1>8. l + 1 \in 1..rows /\ l \in 0..rows - 1
  BY <1>3, <1>4, <1>5
<1>9. Encode(coefs_buffer) = comm[l + 1]
  BY <1>3, <1>7, <1>8
<1>10. Spans(comm, rows)
  BY <1>3 DEF Spans
<1>11. streamed = SubSeq(comm, 1, l)
  BY DEF StreamInv
<1> HIDE DEF comm, rows, l, pos
<1>12. Append(streamed, comm[l + 1]) = SubSeq(comm, 1, l + 1)
  BY <1>3, <1>8, <1>10, <1>11, LongerPrefix
<1> QED
  BY <1>8, <1>9, <1>12, <1>3 DEF comm, rows, l

LEMMA StreamEmits == ASSUME StreamInv, EmitRow PROVE StreamInv'
<1> DEFINE comm == CommitTo(Elements, dims).comm
           rows == CeilDiv(Len(Elements), dims.pre)
           l == Len(streamed)
           pos == coef_buffer_position
<1>1. RowComplete
  BY DEF EmitRow
<1>2. /\ dims \in Shapes /\ data \in Content
      /\ dims.pre \in Nat \ {0} /\ dims.enc \in Nat \ {0}
      /\ pos \in 0..dims.pre /\ rest = Unread(data, Taken)
  BY ShapesAssumption DEF StreamInv
<1>3. Len(Elements) \in Nat
  BY <1>2, ElementsOfFile DEF Elements
<1>4. rows \in Nat /\ comm = [r \in 1..rows |-> Encode(CoefficientRow(Elements, dims, r))]
  BY <1>2, <1>3, RowsOfCommitment
<1>5. l \in 0..rows /\ l \in Nat
  <2>1. l \in 0..rows
    BY DEF StreamInv
  <2> QED
    BY <1>4, <2>1
<1>6. /\ UNCHANGED <<data, dims, rest>>
      /\ streamed' = Append(streamed, Encode(coefs_buffer))
      /\ coefs_buffer' = ZeroBuffer
      /\ coef_buffer_position' = 0
  BY DEF EmitRow
<1>7. l + 1 <= rows /\ streamed' = SubSeq(comm, 1, l + 1)
  BY <1>1, <1>6, NextRow
<1>8. Len(streamed') = l + 1
  <2> HIDE DEF comm, rows
  <2>1. Spans(comm, rows)
    BY <1>4 DEF Spans
  <2> HIDE DEF l
  <2>2. CASE l + 1 = rows
    <3>1. rows = l + 1 /\ l + 1 \in Nat
      BY <1>5, <2>2
    <3> DEFINE V == {comm[i] : i \in 1..rows}
    <3>2. comm \in [1..rows -> V]
      BY <2>1 DEF Spans
    <3> HIDE DEF V
    <3>3. comm \in Seq(V) /\ Len(comm) = rows
      BY <1>4, <3>2
    <3> QED
      BY <1>7, <3>1, <3>3, SubSeqFull
  <2>3. CASE l + 1 # rows
    <3>1. l + 1 \in 0..rows - 1
      BY <1>4, <1>5, <1>7, <2>3
    <3> QED
      BY <1>4, <1>7, <2>1, <3>1, LongerPrefix
  <2> QED
    BY <2>2, <2>3
<1>9. Elements' = Elements
  BY <1>6 DEF Elements
<1>10. Taken' \in Nat /\ Taken <= Taken' /\ Taken \in Nat
  <2>1. l * dims.pre \in Nat /\ (l + 1) * dims.pre = l * dims.pre + dims.pre
    BY <1>2, <1>5
  <2>2. Taken' = (l + 1) * dims.pre + 0
    BY <1>6, <1>8 DEF Taken
  <2>3. Taken = l * dims.pre + pos
    BY DEF Taken
  <2> QED
    BY <1>2, <2>1, <2>2, <2>3
<1>11. rest' = Unread(data', Taken')
  <2>1. CASE rest = << >>
    <3>1. Len(Elements) <= Taken
      BY <1>2, <1>10, <2>1, NothingUnread DEF Elements
    <3>2. Len(Elements) <= Taken'
      BY <1>3, <1>10, <3>1
    <3>3. Unread(data, Taken') = << >>
      BY <1>2, <1>10, <3>2, NothingUnread DEF Elements
    <3> QED
      BY <1>6, <2>1, <3>3
  <2>2. CASE rest # << >>
    <3>1. pos = dims.pre
      BY <1>1, <2>2 DEF RowComplete
    <3>2. Taken' = Taken
      <4>1. Taken' = (l + 1) * dims.pre + 0
        BY <1>6, <1>8 DEF Taken
      <4>2. Taken = l * dims.pre + dims.pre
        BY <3>1 DEF Taken
      <4>3. (l + 1) * dims.pre = l * dims.pre + dims.pre /\ l * dims.pre \in Nat
        BY <1>2, <1>5
      <4> QED
        BY <1>2, <4>1, <4>2, <4>3
    <3> QED
      BY <1>2, <1>6, <3>2
  <2> QED
    BY <2>1, <2>2
<1>12. coefs_buffer' = [c \in 1..dims'.enc |->
                          IF c <= coef_buffer_position' THEN Elements'[Len(streamed') * dims'.pre + c]
                          ELSE 0]
  <2>1. coefs_buffer' = [c \in 1..dims.enc |-> 0]
    BY <1>6 DEF ZeroBuffer
  <2>2. \A c \in 1..dims.enc : ~ (c <= 0)
    BY <1>2
  <2> QED
    BY <1>6, <2>1, <2>2
<1>13. /\ streamed' = SubSeq(CommitTo(Elements', dims').comm, 1, Len(streamed'))
       /\ Len(streamed') \in 0..CeilDiv(Len(Elements'), dims'.pre)
  <2>1. l + 1 \in 0..rows
    BY <1>4, <1>5, <1>7
  <2> QED
    BY <1>6, <1>7, <1>8, <1>9, <2>1
<1>14. data' \in Content /\ dims' \in Shapes /\ coef_buffer_position' \in 0..dims'.pre
  BY <1>2, <1>6
<1> QED
  BY <1>6, <1>11, <1>12, <1>13, <1>14 DEF StreamInv

LEMMA StreamStays == ASSUME StreamInv, UNCHANGED rowVars PROVE StreamInv'
<1>1. UNCHANGED <<data, dims, rest, coefs_buffer, coef_buffer_position, streamed>>
  BY DEF rowVars
<1>2. Elements' = Elements /\ Taken' = Taken
  BY <1>1 DEF Elements, Taken
<1> QED
  BY <1>1, <1>2 DEF StreamInv

\* An action of the evaluation leaves the stream alone.
LEMMA StreamNext == ASSUME StreamInv, [Next]_vars PROVE StreamInv'
<1>1. CASE RowNext
  BY <1>1, StreamTakes, StreamEmits DEF RowNext
<1>2. CASE UNCHANGED rowVars
  BY <1>2, StreamStays
<1>3. RowNext \/ UNCHANGED rowVars
  BY DEF Next, vars, RequestPolynomial, RequestReshape, RequestAppend, RequestEdit, RequestProof, Ask,
         AnswerPolynomial, AnswerReshape, AnswerAppend, AnswerEdit, AnswerProof, Answer,
         JudgePolynomial, JudgeReshape, JudgeAppend, JudgeEdit, JudgeProof, Judge
<1> QED
  BY <1>1, <1>2, <1>3

\* Exhausted, the iterator has handed out every row.
LEMMA StreamComplete ==
  ASSUME StreamInv
  PROVE  StreamedRowsAreCommitted
<1> DEFINE comm == CommitTo(Elements, dims).comm
           rows == CeilDiv(Len(Elements), dims.pre)
           l == Len(streamed)
<1>1. /\ dims \in Shapes /\ data \in Content /\ dims.pre \in Nat \ {0}
      /\ rest = Unread(data, Taken) /\ streamed = SubSeq(comm, 1, l) /\ l \in 0..rows
  BY ShapesAssumption DEF StreamInv
<1>2. Len(Elements) \in Nat
  BY <1>1, ElementsOfFile DEF Elements
<1>3. /\ rows \in Nat
      /\ \A k \in Nat : k < rows <=> k * dims.pre < Len(Elements)
      /\ comm = [r \in 1..rows |-> Encode(CoefficientRow(Elements, dims, r))]
  BY <1>1, <1>2, RowsOfCommitment
<1>4. ASSUME Exhausted PROVE streamed = comm
  <2>1. l \in Nat
    <3> HIDE DEF rows, l
    <3> QED
      BY <1>1, <1>3
  <2>2. l \in Nat /\ l * dims.pre \in Nat
    BY <1>1, <2>1
  <2>3. Taken = l * dims.pre
    BY <1>4, <2>2 DEF Exhausted, Taken
  <2>4. Len(Elements) <= l * dims.pre
    BY <1>1, <1>4, <2>2, <2>3, NothingUnread DEF Exhausted, Elements
  <2>5. l = rows
    <3>1. ~ (l < rows)
      BY <1>2, <1>3, <2>2, <2>4
    <3> QED
      BY <1>1, <1>3, <3>1
  <2> DEFINE V == {comm[i] : i \in 1..rows}
  <2>6. comm = [i \in 1..rows |-> comm[i]]
    BY <1>3
  <2> HIDE DEF comm, rows
  <2>7. \A i \in 1..rows : comm[i] \in V
    OBVIOUS
  <2> HIDE DEF V
  <2>8. comm \in [1..rows -> V]
    BY <2>6, <2>7
  <2>9. comm \in Seq(V) /\ Len(comm) = rows
    BY <1>3, <2>8
  <2> QED
    BY <1>1, <2>5, <2>9, SubSeqFull
<1> QED
  BY <1>1, <1>4 DEF StreamedRowsAreCommitted, Elements

(* The rows that the iterator hands out are those of the commitment to the *)
(* file, in order, and all of them by the time it returns None, for files  *)
(* and shapes of any size (RowGeneratorIter::next).                        *)
THEOREM StreamIsCommitted == Spec => []StreamedRowsAreCommitted
<1>1. Init => StreamInv
  BY StreamInit
<1>2. StreamInv /\ [Next]_vars => StreamInv'
  BY StreamNext
<1>3. StreamInv => StreamedRowsAreCommitted
  BY StreamComplete
<1> QED
  BY <1>1, <1>2, <1>3, PTL DEF Spec
-----------------------------------------------------------------------------
(* Commitments.                                                            *)

\* The digests of the columns of n rows of width columns.
ColumnLeaves(rows, width) == [c \in 1..width |-> LeafDigest(ColumnOf(rows, c - 1))]

\* They are the leaves of a tree.
LEMMA LeavesOfColumns ==
  ASSUME NEW shape \in Shapes, NEW rows
  PROVE  \E height \in Nat : /\ shape.enc = 2 ^ height
                             /\ AreLeaves(ColumnLeaves(rows, shape.enc), height)
<1>1. shape.enc \in Nat \ {0} /\ IsPowerOfTwo(shape.enc)
  BY ShapesAssumption, EncodingAssumption
<1>2. PICK height \in 0..shape.enc : shape.enc = 2 ^ height
  BY <1>1 DEF IsPowerOfTwo
<1>3. height \in Nat
  BY <1>1
<1>4. PICK width \in Nat : width = shape.enc
  BY <1>1
<1> DEFINE leaves == ColumnLeaves(rows, width)
<1>5. Spans(leaves, width)
  BY DEF ColumnLeaves, Spans
<1>6. \A i \in 1..width : \E column : leaves[i] = LeafDigest(column)
  <2>1. \A i \in 1..width : leaves[i] = LeafDigest(ColumnOf(rows, i - 1))
    BY DEF ColumnLeaves
  <2> QED
    BY <2>1
<1>7. AreLeaves(leaves, height)
  <2> HIDE DEF leaves
  <2> QED
    BY <1>2, <1>4, <1>5, <1>6 DEF AreLeaves
<1> QED
  BY <1>2, <1>3, <1>4, <1>7

LEMMA HashesOfCommitment ==
  ASSUME NEW elements, NEW shape
  PROVE  LET commit == CommitTo(elements, shape)
         IN  /\ commit.hashes = Digests(ColumnLeaves(commit.comm, shape.enc))
             /\ CommitRoot(commit) = TreeRoot(commit.hashes)
BY DEF CommitTo, CommitRoot, ColumnLeaves

\* A matrix is a function of its rows, and a row of its columns.
IsMatrix(comm, width) ==
  /\ comm = [r \in DOMAIN comm |-> comm[r]]
  /\ \A r \in DOMAIN comm : comm[r] = [j \in 1..width |-> comm[r][j]]

LEMMA CommitmentIsMatrix ==
  ASSUME NEW shape \in Shapes, NEW elements
  PROVE  IsMatrix(CommitTo(elements, shape).comm, shape.enc)
<1> DEFINE n    == CeilDiv(Len(elements), shape.pre)
           comm == CommitTo(elements, shape).comm
<1>1. comm = [r \in 1..n |-> Encode(CoefficientRow(elements, shape, r))]
  BY DEF CommitTo, CoefficientRows
<1>2. ASSUME NEW r \in 1..n
      PROVE  Encode(CoefficientRow(elements, shape, r))
               = [j \in 1..shape.enc |-> Encode(CoefficientRow(elements, shape, r))[j]]
  <2>1. shape.enc \in Nat
    BY ShapesAssumption
  <2>2. PICK row : row = CoefficientRow(elements, shape, r)
    OBVIOUS
  <2>3. row = [c \in 1..shape.enc |-> row[c]]
    BY <2>2 DEF CoefficientRow
  <2>4. Len(row) = shape.enc
    BY <2>1, <2>3
  <2>5. Encode(row) = [j \in 1..shape.enc |-> Encode(row)[j]]
    BY <2>4 DEF Encode
  <2> QED
    BY <2>2, <2>5
<1> HIDE DEF n, comm
<1>3. DOMAIN comm = 1..n /\ \A r \in 1..n : comm[r] = Encode(CoefficientRow(elements, shape, r))
  BY <1>1
<1>4. IsMatrix(comm, shape.enc)
  BY <1>1, <1>2, <1>3 DEF IsMatrix
<1> QED
  BY <1>4 DEF comm

\* It is its columns.
LEMMA SameColumns ==
  ASSUME NEW width \in Nat \ {0}, NEW a, NEW b, IsMatrix(a, width), IsMatrix(b, width),
         \A j \in 1..width : ColumnOf(a, j - 1) = ColumnOf(b, j - 1)
  PROVE  a = b
<1>1. ASSUME NEW j \in 1..width
      PROVE  DOMAIN a = DOMAIN b /\ \A r \in DOMAIN a : a[r][j] = b[r][j]
  <2>1. [r \in DOMAIN a |-> a[r][(j - 1) + 1]] = [r \in DOMAIN b |-> b[r][(j - 1) + 1]]
    BY DEF ColumnOf
  <2>2. (j - 1) + 1 = j
    OBVIOUS
  <2>3. [r \in DOMAIN a |-> a[r][j]] = [r \in DOMAIN b |-> b[r][j]]
    BY <2>1, <2>2
  <2> QED
    BY <2>3
<1>2. DOMAIN a = DOMAIN b
  <2>1. 1 \in 1..width
    OBVIOUS
  <2> QED
    BY <1>1, <2>1
<1>3. ASSUME NEW r \in DOMAIN a PROVE a[r] = b[r]
  <2>1. /\ a[r] = [j \in 1..width |-> a[r][j]]
        /\ b[r] = [j \in 1..width |-> b[r][j]]
    BY <1>2 DEF IsMatrix
  <2>2. \A j \in 1..width : a[r][j] = b[r][j]
    BY <1>1
  <2> QED
    BY <2>1, <2>2
<1> QED
  BY <1>2, <1>3 DEF IsMatrix

LEMMA ColumnsAreMatrix ==
  ASSUME NEW shape \in Shapes, NEW one, NEW other,
         LET a == CommitTo(one, shape).comm
             b == CommitTo(other, shape).comm
         IN  ColumnLeaves(a, shape.enc) = ColumnLeaves(b, shape.enc)
  PROVE  CommitTo(one, shape).comm = CommitTo(other, shape).comm
<1> DEFINE a == CommitTo(one, shape).comm
           b == CommitTo(other, shape).comm
<1>1. IsMatrix(a, shape.enc) /\ IsMatrix(b, shape.enc)
  BY CommitmentIsMatrix
<1>2. ColumnLeaves(a, shape.enc) = ColumnLeaves(b, shape.enc)
  OBVIOUS
<1> HIDE DEF a, b
<1>3. ASSUME NEW j \in 1..shape.enc PROVE ColumnOf(a, j - 1) = ColumnOf(b, j - 1)
  <2>1. /\ ColumnLeaves(a, shape.enc)[j] = LeafDigest(ColumnOf(a, j - 1))
        /\ ColumnLeaves(b, shape.enc)[j] = LeafDigest(ColumnOf(b, j - 1))
    BY DEF ColumnLeaves
  <2>2. LeafDigest(ColumnOf(a, j - 1)) = LeafDigest(ColumnOf(b, j - 1))
    BY <1>2, <2>1
  <2> QED
    BY <2>2 DEF LeafDigest
<1>4. shape.enc \in Nat \ {0}
  BY ShapesAssumption
<1>5. a = b
  BY <1>1, <1>3, <1>4, SameColumns
<1> QED
  BY <1>5 DEF a, b

\* Roots are the same where the matrices are.
LEMMA RootIsMatrix ==
  ASSUME NEW shape \in Shapes, NEW one, NEW other
  PROVE  CommitRoot(CommitTo(one, shape)) = CommitRoot(CommitTo(other, shape))
           <=> CommitTo(one, shape).comm = CommitTo(other, shape).comm
<1> DEFINE a == CommitTo(one, shape).comm
           b == CommitTo(other, shape).comm
<1>1. /\ CommitRoot(CommitTo(one, shape)) = TreeRoot(Digests(ColumnLeaves(a, shape.enc)))
      /\ CommitRoot(CommitTo(other, shape)) = TreeRoot(Digests(ColumnLeaves(b, shape.enc)))
  BY HashesOfCommitment
<1>2. PICK height \in Nat : shape.enc = 2 ^ height /\ AreLeaves(ColumnLeaves(a, shape.enc), height)
  BY LeavesOfColumns
<1>3. AreLeaves(ColumnLeaves(b, shape.enc), height)
  <2>1. PICK h \in Nat : shape.enc = 2 ^ h /\ AreLeaves(ColumnLeaves(b, shape.enc), h)
    BY LeavesOfColumns
  <2> QED
    BY <1>2, <2>1 DEF AreLeaves
<1>4. ASSUME TreeRoot(Digests(ColumnLeaves(a, shape.enc))) = TreeRoot(Digests(ColumnLeaves(b, shape.enc)))
      PROVE  a = b
  <2>1. ColumnLeaves(a, shape.enc) = ColumnLeaves(b, shape.enc)
    <3> HIDE DEF a, b
    <3> QED
      BY <1>2, <1>3, <1>4, RootCommits
  <2> QED
    BY <2>1, ColumnsAreMatrix
<1> HIDE DEF a, b
<1> QED
  BY <1>1, <1>4 DEF a, b

\* A column that is opened verifies where it is opened.
LEMMA OpenedVerifies ==
  ASSUME NEW shape \in Shapes, NEW elements, NEW index \in 0..shape.enc - 1
  PROVE  VerifyColumnPath(OpenColumn(CommitTo(elements, shape), index), index,
                          CommitRoot(CommitTo(elements, shape)))
<1> DEFINE comm == CommitTo(elements, shape).comm
           leaves == ColumnLeaves(comm, shape.enc)
<1>1. PICK height \in Nat : shape.enc = 2 ^ height /\ AreLeaves(leaves, height)
  BY LeavesOfColumns
<1>2. /\ CommitTo(elements, shape).hashes = Digests(leaves)
      /\ CommitRoot(CommitTo(elements, shape)) = TreeRoot(Digests(leaves))
  BY HashesOfCommitment
<1>3. leaves[index + 1] = LeafDigest(ColumnOf(comm, index))
  <2>1. index + 1 \in 1..shape.enc /\ (index + 1) - 1 = index
    BY ShapesAssumption
  <2> QED
    BY <2>1 DEF ColumnLeaves
<1> HIDE DEF leaves
<1>4. Climb(leaves[index + 1], index, GetPath(Digests(leaves), index)) = TreeRoot(Digests(leaves))
  BY <1>1, PathsVerify
<1> QED
  BY <1>2, <1>3, <1>4 DEF VerifyColumnPath, OpenColumn

(* A column that verifies against the root of a commitment is the one that *)
(* was committed to at its index, whatever the server sent and however     *)
(* long its path is (client_online_verify_column_paths).                   *)
THEOREM VerifiedIsCommitted ==
  ASSUME NEW shape \in Shapes, NEW elements, NEW index \in 0..shape.enc - 1,
         NEW column, Len(column.path) \in Nat,
         VerifyColumnPath(column, index, CommitRoot(CommitTo(elements, shape)))
  PROVE  column.col = ColumnOf(CommitTo(elements, shape).comm, index)
<1> DEFINE comm == CommitTo(elements, shape).comm
           leaves == ColumnLeaves(comm, shape.enc)
<1>1. PICK height \in Nat : shape.enc = 2 ^ height /\ AreLeaves(leaves, height)
  BY LeavesOfColumns
<1>2. CommitRoot(CommitTo(elements, shape)) = TreeRoot(Digests(leaves))
  BY HashesOfCommitment
<1>3. leaves[index + 1] = LeafDigest(ColumnOf(comm, index))
  <2>1. index + 1 \in 1..shape.enc /\ (index + 1) - 1 = index
    BY ShapesAssumption
  <2> QED
    BY <2>1 DEF ColumnLeaves
<1> HIDE DEF leaves
<1>4. Climb(LeafDigest(column.col), index, column.path) = TreeRoot(Digests(leaves))
  BY <1>2 DEF VerifyColumnPath
<1>5. leaves[index + 1] = LeafDigest(column.col)
  BY <1>1, <1>4, OnlyCommittedOpens
<1> QED
  BY <1>3, <1>5 DEF LeafDigest
-----------------------------------------------------------------------------
(* The columns that are opened.                                            *)

\* The reservoir behind the n-th column, from the one before it.
Reservoir(amount, n, before) ==
  IF n <= amount THEN {[i \in 1..n |-> i - 1]}
  ELSE before \cup {[s EXCEPT ![i] = n - 1] : s \in before, i \in 1..amount}

AreReservoirs(reservoirs, amount, columns) ==
  reservoirs = [n \in 0..columns |-> Reservoir(amount, n, reservoirs[n - 1])]

ReservoirsOf(amount, columns) ==
  CHOOSE reservoirs : AreReservoirs(reservoirs, amount, columns)

LEMMA SamplesAreReservoirs ==
  ASSUME NEW amount, NEW columns
  PROVE  Samples(amount, columns) = ReservoirsOf(amount, columns)[columns]
BY DEF Samples, ReservoirsOf, AreReservoirs, Reservoir

LEMMA ReservoirsExist ==
  ASSUME NEW amount \in Nat, NEW columns \in Nat
  PROVE  AreReservoirs(ReservoirsOf(amount, columns), amount, columns)
<1> DEFINE S == {n \in Nat : \E f : AreReservoirs(f, amount, n)}
<1>1. 0 \in S
  <2> DEFINE f == [n \in 0..0 |-> {[i \in 1..n |-> i - 1]}]
  <2>1. \A n \in 0..0 : Reservoir(amount, n, f[n - 1]) = {[i \in 1..n |-> i - 1]}
    BY DEF Reservoir
  <2>2. f = [n \in 0..0 |-> Reservoir(amount, n, f[n - 1])]
    BY <2>1
  <2>3. AreReservoirs(f, amount, 0)
    BY <2>2 DEF AreReservoirs
  <2> QED
    BY <2>3
<1>2. ASSUME NEW n \in Nat, n \in S PROVE n + 1 \in S
  <2>1. PICK f : AreReservoirs(f, amount, n)
    BY <1>2
  <2> DEFINE longer == [k \in 0..n + 1 |-> Reservoir(amount, k, f[k - 1])]
  <2>2. \A k \in 0..n : longer[k] = f[k]
    <3>1. \A k \in 0..n : f[k] = Reservoir(amount, k, f[k - 1])
      BY <2>1 DEF AreReservoirs
    <3> QED
      BY <3>1
  <2>3. ASSUME NEW k \in 0..n + 1
        PROVE  Reservoir(amount, k, f[k - 1]) = Reservoir(amount, k, longer[k - 1])
    <3>1. CASE k = 0
      BY <3>1 DEF Reservoir
    <3>2. CASE k # 0
      <4>1. k - 1 \in 0..n
        BY <3>2
      <4> HIDE DEF longer
      <4>2. longer[k - 1] = f[k - 1]
        BY <2>2, <4>1
      <4> QED
        BY <4>2
    <3> QED
      BY <3>1, <3>2
  <2>4. longer = [k \in 0..n + 1 |-> Reservoir(amount, k, longer[k - 1])]
    BY <2>3
  <2>5. AreReservoirs(longer, amount, n + 1)
    BY <2>4 DEF AreReservoirs
  <2> QED
    BY <2>5
<1>3. \A n \in Nat : n \in S
  <2> HIDE DEF S
  <2> QED
    BY <1>1, <1>2, Induction
<1>4. \E f : AreReservoirs(f, amount, columns)
  BY <1>3
<1> QED
  BY <1>4 DEF ReservoirsOf

\* A sample is as long as it should be, and of columns that there are.
LEMMA SamplesAreColumns ==
  ASSUME NEW columns \in Nat \ {0}, NEW amount \in 1..columns
  PROVE  Samples(amount, columns) \subseteq [1..amount -> 0..columns - 1]
<1> DEFINE f == ReservoirsOf(amount, columns)
           S == {n \in 0..columns : n >= amount => f[n] \subseteq [1..amount -> 0..n - 1]}
<1>1. \A n \in 0..columns : f[n] = Reservoir(amount, n, f[n - 1])
  BY ReservoirsExist DEF AreReservoirs
<1> HIDE DEF f
<1>2. 0 \in S
  OBVIOUS
<1>3. ASSUME NEW n \in 0..columns - 1, n \in S PROVE n + 1 \in S
  <2>1. n + 1 \in 0..columns /\ (n + 1) - 1 = n
    OBVIOUS
  <2>2. f[n + 1] = Reservoir(amount, n + 1, f[n])
    BY <1>1, <2>1
  <2>3. CASE n + 1 < amount
    BY <2>1, <2>3
  <2>4. CASE n + 1 = amount
    <3>1. f[n + 1] = {[i \in 1..n + 1 |-> i - 1]}
      BY <2>2, <2>4 DEF Reservoir
    <3>2. [i \in 1..n + 1 |-> i - 1] \in [1..n + 1 -> 0..(n + 1) - 1]
      OBVIOUS
    <3> QED
      BY <2>1, <2>4, <3>1, <3>2
  <2>5. CASE n + 1 > amount
    <3>1. f[n] \subseteq [1..amount -> 0..n - 1]
      BY <1>3, <2>5
    <3>2. f[n + 1] = f[n] \cup {[s EXCEPT ![i] = n] : s \in f[n], i \in 1..amount}
      BY <2>1, <2>2, <2>5 DEF Reservoir
    <3>3. [1..amount -> 0..n - 1] \subseteq [1..amount -> 0..n]
      OBVIOUS
    <3>4. ASSUME NEW s \in [1..amount -> 0..n], NEW i \in 1..amount
          PROVE  [s EXCEPT ![i] = n] \in [1..amount -> 0..n]
      OBVIOUS
    <3>5. ASSUME NEW r \in f[n + 1] PROVE r \in [1..amount -> 0..n]
      <4>1. CASE r \in f[n]
        BY <3>1, <3>3, <4>1
      <4>2. CASE r \in {[s EXCEPT ![i] = n] : s \in f[n], i \in 1..amount}
        <5>1. PICK s \in f[n], i \in 1..amount : r = [s EXCEPT ![i] = n]
          BY <4>2
        <5>2. s \in [1..amount -> 0..n]
          BY <3>1, <3>3
        <5> QED
          BY <3>4, <5>1, <5>2
      <4> QED
        BY <3>2, <3>5, <4>1, <4>2
    <3> QED
      BY <2>1, <3>5
  <2> QED
    BY <2>3, <2>4, <2>5
<1>4. \A n \in 0..columns : n \in S
  <2> HIDE DEF S
  <2> QED
    BY <1>2, <1>3, BoundedInduction
<1>5. f[columns] \subseteq [1..amount -> 0..columns - 1]
  BY <1>4
<1> QED
  BY <1>5, SamplesAreReservoirs DEF f

LEMMA ColumnSamplesAreColumns ==
  ASSUME NEW shape \in Shapes, NEW indices \in ColumnSamples(shape)
  PROVE  \E n \in Nat \ {0} : indices \in [1..n -> 0..shape.enc - 1]
<1>1. shape.enc \in Nat \ {0} /\ SOUNDNESS \in Nat \ {0}
  BY ShapesAssumption, SoundnessAssumption
<1>2. ColumnsForSoundness(shape) \in 1..shape.enc
  BY <1>1 DEF ColumnsForSoundness, Lesser
<1>3. indices \in [1..ColumnsForSoundness(shape) -> 0..shape.enc - 1]
  BY <1>1, <1>2, SamplesAreColumns DEF ColumnSamples
<1> QED
  BY <1>2, <1>3
\* Columns opened at indices of a shape verify where they were opened, and at
\* the root of another commitment only if it is of the same matrix.
LEMMA RetrievedVerify ==
  ASSUME NEW shape \in Shapes, NEW n \in Nat \ {0},
         NEW indices \in [1..n -> 0..shape.enc - 1], NEW one, NEW other
  PROVE  VerifyColumnPaths(CommitRoot(CommitTo(other, shape)), indices,
                           RetrieveColumns(CommitTo(one, shape), indices))
           <=> CommitTo(one, shape).comm = CommitTo(other, shape).comm
<1> DEFINE opened == RetrieveColumns(CommitTo(one, shape), indices)
           a == CommitRoot(CommitTo(one, shape))
           b == CommitRoot(CommitTo(other, shape))
<1>1. /\ opened = [i \in 1..n |-> OpenColumn(CommitTo(one, shape), indices[i])]
      /\ Len(indices) = n
  BY DEF RetrieveColumns
<1>2. \A i \in 1..n : VerifyColumnPath(opened[i], indices[i], a)
  BY <1>1, OpenedVerifies
<1>3. a = b <=> CommitTo(one, shape).comm = CommitTo(other, shape).comm
  BY RootIsMatrix
<1> HIDE DEF opened, a, b
<1>4. Len(opened) = n
  BY <1>1
<1>5. VerifyColumnPaths(b, indices, opened)
        <=> \A i \in 1..n : VerifyColumnPath(opened[i], indices[i], b)
  BY <1>1, <1>4 DEF VerifyColumnPaths
<1>6. ASSUME VerifyColumnPath(opened[1], indices[1], b) PROVE a = b
  <2>1. VerifyColumnPath(opened[1], indices[1], a)
    BY <1>2
  <2> QED
    BY <1>6, <2>1 DEF VerifyColumnPath
<1>7. 1 \in 1..n
  OBVIOUS
<1>8. VerifyColumnPaths(b, indices, opened) <=> a = b
  BY <1>2, <1>5, <1>6, <1>7
<1> QED
  BY <1>3, <1>8 DEF opened, b

-----------------------------------------------------------------------------
(* The columns that are handed out with the rows.                          *)

LEMMA FullColumnsAreOpened ==
  ASSUME StreamInv, Exhausted
  PROVE  FullColumnsVerify
<1>1. data \in Content /\ dims \in Shapes
  BY DEF StreamInv
<1> DEFINE commit == CommitTo(Elements, dims)
<1>2. streamed = commit.comm
  BY StreamComplete DEF StreamedRowsAreCommitted, Elements
<1>3. StreamedDigests = commit.hashes
  BY <1>2, HashesOfCommitment DEF StreamedDigests, ColumnLeaves
<1>4. CommittedRoot = CommitRoot(commit)
  BY DEF CommittedRoot, Elements
<1> HIDE DEF commit
<1>5. ASSUME NEW indices \in ColumnSamples(dims)
      PROVE  VerifyColumnPaths(CommittedRoot, Reverse(indices), FullColumns(indices))
  <2>1. PICK n \in Nat \ {0} : indices \in [1..n -> 0..dims.enc - 1]
    BY <1>1, ColumnSamplesAreColumns
  <2> DEFINE last == Reverse(indices)
  <2>2. last \in [1..n -> 0..dims.enc - 1]
    <3>1. Len(indices) = n
      BY <2>1
    <3>2. \A i \in 1..n : (n - i) + 1 \in 1..n
      OBVIOUS
    <3>3. last = [i \in 1..n |-> indices[(n - i) + 1]]
      BY <3>1 DEF Reverse
    <3> QED
      BY <2>1, <3>2, <3>3
  <2> HIDE DEF last
  <2>3. FullColumns(indices) = [i \in 1..n |-> OpenColumn(commit, last[i])]
    BY <1>2, <1>3, <2>1 DEF FullColumns, OpenColumn, last
  <2>4. FullColumns(indices) = RetrieveColumns(commit, last)
    BY <2>2, <2>3 DEF RetrieveColumns
  <2>5. VerifyColumnPaths(CommitRoot(commit), last, RetrieveColumns(commit, last))
    BY <1>1, <2>2, RetrievedVerify DEF commit
  <2> QED
    BY <1>4, <2>4, <2>5 DEF last
<1> QED
  BY <1>5 DEF FullColumnsVerify

(* What get_full_columns hands out leads to the root that was committed,   *)
(* for files and shapes of any size and any columns that choose_multiple   *)
(* may draw (RowGeneratorIter::get_full_columns).                          *)
THEOREM FullColumnsAreCommitted == Spec => []FullColumnsVerify
<1>1. Init => StreamInv
  BY StreamInit
<1>2. StreamInv /\ [Next]_vars => StreamInv'
  BY StreamNext
<1>3. StreamInv => FullColumnsVerify
  BY FullColumnsAreOpened DEF FullColumnsVerify
<1> QED
  BY <1>1, <1>2, <1>3, PTL DEF Spec

-----------------------------------------------------------------------------
(* Proofs of columns.                                                      *)

\* What a proof's verdict was made of.
VerdictInv ==
  /\ answer # None => request # None
  /\ verdict # "none" => answer # None
  /\ request # None => request.indices \in ColumnSamples(dims)
  /\ (answer # None /\ request.kind = "proof") =>
       answer = [columns |-> RetrieveColumns(CommitTo(FromByteVec(stored), dims),
                                             request.indices)]
  /\ (verdict # "none" /\ request.kind = "proof") =>
       (verdict = "accepted" <=>
          VerifyCommitment(CommittedRoot,
                           LocalLeaves(FromByteVec(request.own), dims, request.indices),
                           request.indices, answer.columns))

LEMMA VerdictInit == ASSUME Init PROVE VerdictInv
BY DEF Init, VerdictInv

\* A request is made where there is none, and opens columns of the shape.
LEMMA VerdictAsk ==
  ASSUME VerdictInv, NEW r, NEW versions, Ask(r, versions), r.indices \in ColumnSamples(dims)
  PROVE  VerdictInv'
<1>1. /\ request' = r /\ answer = None /\ verdict = "none"
      /\ answer' = None /\ verdict' = "none" /\ dims' = dims
  BY DEF VerdictInv, Ask, rowVars
<1>2. ColumnSamples(dims)' = ColumnSamples(dims)
  BY <1>1 DEF ColumnSamples, ColumnsForSoundness
<1> QED
  BY <1>1, <1>2 DEF VerdictInv

\* An answer to another request is none to a proof.
LEMMA VerdictAnswer ==
  ASSUME VerdictInv, NEW kind, NEW a, Asked(kind), Answer(a),
         kind = "proof" => a = [columns |-> RetrieveColumns(CommitTo(FromByteVec(stored), dims),
                                                            request.indices)]
  PROVE  VerdictInv'
BY DEF VerdictInv, Asked, Answer, rowVars

LEMMA VerdictJudge ==
  ASSUME VerdictInv, NEW kind, NEW ok, Answered(kind), Judge(ok),
         kind = "proof" =>
           (ok <=> VerifyCommitment(CommittedRoot,
                     LocalLeaves(FromByteVec(request.own), dims, request.indices),
                     request.indices, answer.columns))
  PROVE  VerdictInv'
<1>1. /\ answer # None /\ request.kind = kind
      /\ UNCHANGED <<data, dims, request, stored, answer>>
  BY DEF Answered, Judge, rowVars
<1>2. verdict' = IF ok THEN "accepted" ELSE "rejected"
  BY DEF Judge
<1> QED
  BY <1>1, <1>2 DEF VerdictInv, CommittedRoot

\* The iterator works on the same file and shape.
LEMMA VerdictStays ==
  ASSUME VerdictInv, UNCHANGED <<data, dims, evalVars>>
  PROVE  VerdictInv'
BY DEF VerdictInv, CommittedRoot, evalVars

LEMMA VerdictNext ==
  ASSUME VerdictInv, [Next]_vars
  PROVE  VerdictInv'
<1>1. CASE RowNext /\ UNCHANGED evalVars
  BY <1>1, VerdictStays DEF RowNext, TakeElement, EmitRow
<1>2. CASE RequestPolynomial
  <2>1. PICK x \in Points, indices \in ColumnSamples(dims) :
          Ask([kind |-> "polynomial", x |-> x, indices |-> indices], {data})
    BY <1>2 DEF RequestPolynomial
  <2> QED
    BY <2>1, VerdictAsk
<1>3. CASE RequestReshape
  <2>1. PICK x \in Points, indices \in ColumnSamples(dims), shape \in Shapes \ {dims} :
          \E newIndices \in ColumnSamples(shape) :
            Ask([kind |-> "reshape", x |-> x, indices |-> indices,
                 dims |-> shape, newIndices |-> newIndices], {data})
    BY <1>3 DEF RequestReshape
  <2> QED
    BY <2>1, VerdictAsk
<1>4. CASE RequestAppend
  <2>1. PICK x \in Points, indices \in ColumnSamples(dims), patch \in Patches :
          Ask([kind |-> "append", x |-> x, indices |-> indices, patch |-> patch],
              Versions(data \o patch))
    BY <1>4 DEF RequestAppend
  <2> QED
    BY <2>1, VerdictAsk
<1>5. CASE RequestEdit
  <2>1. PICK x \in Points, indices \in ColumnSamples(dims), patch \in Patches :
          \E start \in 0..Len(data) - Len(patch) :
            Ask([kind |-> "edit", x |-> x, indices |-> indices,
                 patch |-> patch, start |-> start],
                Versions(Splice(data, start, patch)) \ {data})
    BY <1>5 DEF RequestEdit
  <2> QED
    BY <2>1, VerdictAsk
<1>6. CASE RequestProof
  <2>1. PICK indices \in ColumnSamples(dims), own \in Versions(data) :
          Ask([kind |-> "proof", own |-> own, indices |-> indices],
              Versions(data) \cup {Append(data, 0)})
    BY <1>6 DEF RequestProof
  <2> QED
    BY <2>1, VerdictAsk
<1>7. CASE AnswerPolynomial
  <2>1. Asked("polynomial") /\ \E a : Answer(a)
    BY <1>7 DEF AnswerPolynomial
  <2> QED
    BY <2>1, VerdictAnswer
<1>8. CASE AnswerReshape
  <2>1. Asked("reshape") /\ \E a : Answer(a)
    BY <1>8 DEF AnswerReshape
  <2> QED
    BY <2>1, VerdictAnswer
<1>9. CASE AnswerAppend
  <2>1. Asked("append") /\ \E a : Answer(a)
    BY <1>9 DEF AnswerAppend
  <2> QED
    BY <2>1, VerdictAnswer
<1>10. CASE AnswerEdit
  <2>1. Asked("edit") /\ \E a : Answer(a)
    BY <1>10 DEF AnswerEdit
  <2> QED
    BY <2>1, VerdictAnswer
<1>11. CASE AnswerProof
  BY <1>11, VerdictAnswer DEF AnswerProof
<1>12. CASE JudgePolynomial
  <2>1. Answered("polynomial") /\ \E ok : Judge(ok)
    BY <1>12 DEF JudgePolynomial
  <2> QED
    BY <2>1, VerdictJudge
<1>13. CASE JudgeReshape
  <2>1. Answered("reshape") /\ \E ok : Judge(ok)
    BY <1>13 DEF JudgeReshape
  <2> QED
    BY <2>1, VerdictJudge
<1>14. CASE JudgeAppend
  <2>1. Answered("append") /\ \E ok : Judge(ok)
    BY <1>14 DEF JudgeAppend
  <2> QED
    BY <2>1, VerdictJudge
<1>15. CASE JudgeEdit
  <2>1. Answered("edit") /\ \E ok : Judge(ok)
    BY <1>15 DEF JudgeEdit
  <2> QED
    BY <2>1, VerdictJudge
<1>16. CASE JudgeProof
  BY <1>16, VerdictJudge DEF JudgeProof
<1>17. CASE UNCHANGED vars
  BY <1>17, VerdictStays DEF vars, rowVars
<1> QED
  BY <1>1, <1>2, <1>3, <1>4, <1>5, <1>6, <1>7, <1>8, <1>9, <1>10, <1>11, <1>12, <1>13,
     <1>14, <1>15, <1>16, <1>17 DEF Next

LEMMA VerdictIsOnCommitted ==
  ASSUME StreamInv, VerdictInv
  PROVE  AcceptsOnlyCommitted
<1> SUFFICES ASSUME verdict # "none", request.kind = "proof"
             PROVE  LET comm(content) == CommitTo(FromByteVec(content), dims).comm
                        leaves(content) == LocalLeaves(FromByteVec(content), dims,
                                                       request.indices)
                    IN  (verdict = "accepted") = (/\ comm(stored) = comm(data)
                                                  /\ leaves(request.own) = leaves(data))
  BY DEF AcceptsOnlyCommitted
<1> DEFINE comm(content)   == CommitTo(FromByteVec(content), dims).comm
           leaves(content) == LocalLeaves(FromByteVec(content), dims, request.indices)
           opened          == RetrieveColumns(CommitTo(FromByteVec(stored), dims),
                                              request.indices)
<1>1. dims \in Shapes
  BY DEF StreamInv
<1>2. /\ answer.columns = opened
      /\ request.indices \in ColumnSamples(dims)
      /\ verdict = "accepted" <=> VerifyCommitment(CommittedRoot, leaves(request.own),
                                                   request.indices, answer.columns)
  BY DEF VerdictInv
<1>3. PICK n \in Nat \ {0} : request.indices \in [1..n -> 0..dims.enc - 1]
  BY <1>1, <1>2, ColumnSamplesAreColumns
<1>4. VerifyColumnPaths(CommittedRoot, request.indices, opened) <=> comm(stored) = comm(data)
  BY <1>1, <1>3, RetrievedVerify DEF CommittedRoot
<1>5. \A content : leaves(content) =
        [i \in 1..n |-> LeafDigest(ColumnOf(comm(content), request.indices[i]))]
  BY <1>3 DEF LocalLeaves
<1>6. opened = [i \in 1..n |-> OpenColumn(CommitTo(FromByteVec(stored), dims),
                                          request.indices[i])]
  BY <1>3 DEF RetrieveColumns
<1>7. ASSUME NEW i \in 1..n PROVE LeafDigest(opened[i].col) = leaves(stored)[i]
  <2>1. leaves(stored)[i] = LeafDigest(ColumnOf(comm(stored), request.indices[i]))
    BY <1>5
  <2>2. opened[i] = OpenColumn(CommitTo(FromByteVec(stored), dims), request.indices[i])
    BY <1>6
  <2>3. opened[i].col = ColumnOf(comm(stored), request.indices[i])
    BY <2>2 DEF OpenColumn
  <2> HIDE DEF opened, leaves, comm
  <2> QED
    BY <2>1, <2>3
<1>8. VerifyColumnLeaves(leaves(request.own), opened) <=> leaves(request.own) = leaves(stored)
  <2>1. PICK own : own = leaves(request.own)
    OBVIOUS
  <2>2. PICK there : there = leaves(stored)
    OBVIOUS
  <2>3. own = [i \in 1..n |-> own[i]] /\ there = [i \in 1..n |-> there[i]]
    BY <1>5, <2>1, <2>2
  <2>4. Len(opened) = n /\ \A i \in 1..n : LeafDigest(opened[i].col) = there[i]
    BY <1>6, <1>7, <2>2
  <2> HIDE DEF opened, leaves
  <2>5. VerifyColumnLeaves(own, opened) <=> \A i \in 1..n : own[i] = there[i]
    BY <2>3, <2>4 DEF VerifyColumnLeaves
  <2>6. VerifyColumnLeaves(own, opened) <=> own = there
    BY <2>3, <2>5
  <2> QED
    BY <2>1, <2>2, <2>6
<1>9. comm(stored) = comm(data) => leaves(stored) = leaves(data)
  BY <1>5
<1> HIDE DEF comm, leaves, opened
<1>10. verdict = "accepted" <=> comm(stored) = comm(data) /\ leaves(request.own) = leaves(data)
  BY <1>2, <1>4, <1>8, <1>9 DEF VerifyCommitment
<1> QED
  BY <1>10 DEF comm, leaves

(* A proof of columns is accepted exactly when the stored file has the     *)
(* matrix that was committed to and the client's own file agrees with it   *)
(* in the opened columns, for files, shapes and openings of any size       *)
(* (client_verify_commitment).                                             *)
THEOREM OnlyCommittedIsAccepted == Spec => []AcceptsOnlyCommitted
<1>1. Init => StreamInv /\ VerdictInv
  BY StreamInit, VerdictInit
<1>2. StreamInv /\ VerdictInv /\ [Next]_vars => (StreamInv /\ VerdictInv)'
  BY StreamNext, VerdictNext
<1>3. StreamInv /\ VerdictInv => AcceptsOnlyCommitted
  BY VerdictIsOnCommitted
<1> QED
  BY <1>1, <1>2, <1>3, PTL DEF Spec
-----------------------------------------------------------------------------
(* Types.                                                                  *)

TypeInv ==
  /\ stored \in Content
  /\ verdict \in {"none", "accepted", "rejected"}
  /\ answer # None => request # None
  /\ verdict # "none" => answer \notin {None, NoAnswer}

\* What the iterator holds is elements.
LEMMA StreamTyped == ASSUME StreamInv PROVE RowTypeOK
<1> DEFINE n == CeilDiv(Len(Elements), dims.pre)
           comm == CommitTo(Elements, dims).comm
           l == Len(streamed)
<1>1. /\ data \in Content /\ dims \in Shapes /\ coef_buffer_position \in 0..dims.pre
      /\ streamed = SubSeq(comm, 1, Len(streamed)) /\ l \in 0..n
      /\ coef_buffer_position # 0 => Taken <= Len(Elements)
  BY DEF StreamInv
<1>2. dims.pre \in Nat \ {0} /\ dims.enc \in Nat \ {0}
  BY <1>1, ShapesAssumption
<1>3. /\ FieldLen(data) \in Nat /\ Vector(Elements, FieldLen(data))
      /\ Len(Elements) = FieldLen(data)
  BY <1>1, FileIsVector DEF Elements
<1>4. n \in Nat /\ comm = [r \in 1..n |-> Encode(CoefficientRow(Elements, dims, r))]
  BY <1>1, <1>3, RowsOfCommitment
<1>5. comm \in [1..n -> [1..dims.enc -> Field]]
  <2>1. ASSUME NEW r \in 1..n
        PROVE  Encode(CoefficientRow(Elements, dims, r)) \in [1..dims.enc -> Field]
    <3>1. r \in Nat \ {0}
      BY <1>4
    <3> QED
      BY <1>1, <1>3, <3>1, RowIsVector DEF Vector
  <2> HIDE DEF n, comm
  <2> QED
    BY <1>4, <2>1
<1> HIDE DEF n, comm
<1>6. streamed \in Seq([1..dims.enc -> Field])
  <2>1. comm \in Seq([1..dims.enc -> Field]) /\ Len(comm) = n
    BY <1>4, <1>5
  <2>2. SubSeq(comm, 0 + 1, l) \in Seq([1..dims.enc -> Field])
    <3>1. l \in Nat /\ l <= Len(comm)
      BY <1>1, <1>4, <2>1
    <3> HIDE DEF l
    <3> QED
      BY <2>1, <3>1, Middle
  <2> QED
    BY <1>1, <2>2
<1>7. coefs_buffer \in [1..dims.enc -> Field]
  <2>1. coefs_buffer = [c \in 1..dims.enc |->
                          IF c <= coef_buffer_position THEN Elements[l * dims.pre + c] ELSE 0]
    BY DEF StreamInv
  <2>2. ASSUME NEW c \in 1..dims.enc
        PROVE  (IF c <= coef_buffer_position THEN Elements[l * dims.pre + c] ELSE 0) \in Field
    <3>1. CASE c <= coef_buffer_position
      <4>1. l * dims.pre \in Nat
        BY <1>1, <1>2, <1>4
      <4>2. l * dims.pre + coef_buffer_position <= FieldLen(data)
        BY <1>1, <1>2, <1>3, <3>1 DEF Taken
      <4>3. l * dims.pre + c \in 1..FieldLen(data)
        BY <1>1, <1>2, <1>3, <3>1, <4>1, <4>2
      <4> QED
        BY <1>3, <3>1, <4>3 DEF Vector
    <3>2. CASE ~ (c <= coef_buffer_position)
      BY <3>2, TimesRules
    <3> QED
      BY <3>1, <3>2
  <2> QED
    BY <2>1, <2>2
<1>8. rest \in Content
  <2>1. Taken \in Nat /\ rest = Unread(data, Taken)
    <3>1. l \in Nat /\ coef_buffer_position \in Nat
      BY <1>1, <1>2, <1>4
    <3>2. \A k, m, p \in Nat : k * m + p \in Nat
      OBVIOUS
    <3>3. l * dims.pre + coef_buffer_position \in Nat
      BY <1>2, <3>1, <3>2
    <3> QED
      BY <3>3 DEF StreamInv, Taken
  <2>2. Taken * BYTE_CAPACITY \in Nat /\ Len(data) \in Nat
    BY <1>1, <2>1, CapacityAssumption DEF Content
  <2>3. SubSeq(data, Taken * BYTE_CAPACITY + 1, Len(data)) \in Content
    BY <1>1, <2>2, Middle DEF Content
  <2> QED
    BY <2>1, <2>3 DEF Unread
<1> QED
  BY <1>1, <1>6, <1>7, <1>8 DEF RowTypeOK

\* What can become of a content is content.
LEMMA VersionsAreContent ==
  ASSUME NEW content \in Content, NEW version \in Versions(content)
  PROVE  version \in Content
<1>1. CASE version = content
  BY <1>1
<1>2. CASE version = Reverse(content)
  <2>1. content \in [1..Len(content) -> Bytes] /\ Len(content) \in Nat
    BY DEF Content
  <2>2. \A i \in 1..Len(content) : (Len(content) - i) + 1 \in 1..Len(content)
    BY <2>1
  <2>3. Reverse(content) \in [1..Len(content) -> Bytes]
    BY <2>1, <2>2 DEF Reverse
  <2> QED
    BY <1>2, <2>1, <2>3 DEF Content
<1>3. CASE \E i \in DOMAIN content, byte \in Bytes : version = [content EXCEPT ![i] = byte]
  BY <1>3 DEF Content
<1> QED
  BY <1>1, <1>2, <1>3 DEF Versions

LEMMA TypeAsk ==
  ASSUME TypeInv, NEW r, NEW versions, Ask(r, versions), versions \subseteq Content
  PROVE  TypeInv'
BY DEF TypeInv, Ask

LEMMA TypeAnswer ==
  ASSUME TypeInv, NEW kind, NEW a, Asked(kind), Answer(a)
  PROVE  TypeInv'
BY DEF TypeInv, Asked, Answer

LEMMA TypeJudge ==
  ASSUME TypeInv, NEW kind, NEW ok, Answered(kind), Judge(ok)
  PROVE  TypeInv'
BY DEF TypeInv, Answered, Judge

LEMMA TypeStays == ASSUME TypeInv, UNCHANGED evalVars PROVE TypeInv'
BY DEF TypeInv, evalVars

LEMMA TypeInit == ASSUME Init PROVE TypeInv
BY DEF Init, TypeInv, Content

LEMMA TypeNext ==
  ASSUME StreamInv, TypeInv, [Next]_vars
  PROVE  TypeInv'
<1>1. data \in Content
  BY DEF StreamInv
<1>2. CASE RowNext /\ UNCHANGED evalVars
  BY <1>2, TypeStays
<1>3. CASE RequestPolynomial
  <2>1. \E r : Ask(r, {data})
    BY <1>3 DEF RequestPolynomial
  <2> QED
    BY <1>1, <2>1, TypeAsk
<1>4. CASE RequestReshape
  <2>1. \E r : Ask(r, {data})
    BY <1>4 DEF RequestReshape
  <2> QED
    BY <1>1, <2>1, TypeAsk
<1>5. CASE RequestAppend
  <2>1. PICK patch \in Patches : \E r : Ask(r, Versions(data \o patch))
    BY <1>5 DEF RequestAppend
  <2>2. data \o patch \in Content
    BY <1>1, PatchesAssumption DEF Content
  <2>3. Versions(data \o patch) \subseteq Content
    BY <2>2, VersionsAreContent
  <2> QED
    BY <2>1, <2>3, TypeAsk
<1>6. CASE RequestEdit
  <2>1. PICK x \in Points, indices \in ColumnSamples(dims), patch \in Patches :
          \E start \in 0..Len(data) - Len(patch) :
            Ask([kind |-> "edit", x |-> x, indices |-> indices,
                 patch |-> patch, start |-> start],
                Versions(Splice(data, start, patch)) \ {data})
    BY <1>6 DEF RequestEdit
  <2>2. PICK start \in 0..Len(data) - Len(patch) :
          Ask([kind |-> "edit", x |-> x, indices |-> indices, patch |-> patch, start |-> start],
              Versions(Splice(data, start, patch)) \ {data})
    BY <2>1
  <2>3. start \in Nat /\ patch \in Content
    BY <1>1, PatchesAssumption DEF Content
  <2>4. Splice(data, start, patch) \in Content
    BY <1>1, <2>3, SplicedIsContent
  <2>5. Versions(Splice(data, start, patch)) \ {data} \subseteq Content
    BY <2>4, VersionsAreContent
  <2> QED
    BY <2>2, <2>5, TypeAsk
<1>7. CASE RequestProof
  <2>1. \E r : Ask(r, Versions(data) \cup {Append(data, 0)})
    BY <1>7 DEF RequestProof
  <2>2. Append(data, 0) \in Content
    <3>1. 0 \in Bytes
      BY BytesAssumption
    <3> QED
      BY <1>1, <3>1 DEF Content
  <2>3. Versions(data) \cup {Append(data, 0)} \subseteq Content
    BY <1>1, <2>2, VersionsAreContent
  <2> QED
    BY <2>1, <2>3, TypeAsk
<1>8. CASE AnswerPolynomial \/ AnswerReshape \/ AnswerAppend \/ AnswerEdit \/ AnswerProof
  <2>1. \E kind, a : Asked(kind) /\ Answer(a)
    BY <1>8 DEF AnswerPolynomial, AnswerReshape, AnswerAppend, AnswerEdit, AnswerProof
  <2> QED
    BY <2>1, TypeAnswer
<1>9. CASE JudgePolynomial \/ JudgeReshape \/ JudgeAppend \/ JudgeEdit \/ JudgeProof
  <2>1. \E kind, ok : Answered(kind) /\ Judge(ok)
    BY <1>9 DEF JudgePolynomial, JudgeReshape, JudgeAppend, JudgeEdit, JudgeProof
  <2> QED
    BY <2>1, TypeJudge
<1>10. CASE UNCHANGED vars
  BY <1>10, TypeStays DEF vars
<1> QED
  BY <1>2, <1>3, <1>4, <1>5, <1>6, <1>7, <1>8, <1>9, <1>10 DEF Next

(* Elements, rows and encoded values are elements of the field and rows    *)
(* have the encoded width, for any field, shape and file: bytes are fewer  *)
(* than the modulus counts, and what is computed is reduced.               *)
THEOREM EvaluationTypes == Spec => []TypeOK
<1>1. Init => StreamInv /\ TypeInv
  BY StreamInit, TypeInit
<1>2. StreamInv /\ TypeInv /\ [Next]_vars => (StreamInv /\ TypeInv)'
  BY StreamNext, TypeNext
<1>3. StreamInv /\ TypeInv => TypeOK
  BY StreamTyped DEF TypeInv, TypeOK
<1> QED
  BY <1>1, <1>2, <1>3, PTL DEF Spec
-----------------------------------------------------------------------------
(* What the client compares at a point.                                    *)

\* An evaluation of a content at x.
EvaluationAt(x, content, shape, width, indices) ==
  LET commit == CommitTo(FromByteVec(content), shape)
      left   == LeftVector(x, Len(commit.comm), width)
  IN  [result |-> ResultVector(commit, left), columns |-> RetrieveColumns(commit, indices)]

VerifiedAt(x, content, shape, width, indices) ==
  FullEvaluation(x, EvaluationAt(x, content, shape, width, indices).result,
                 RowCount(content, shape), width, indices,
                 EvaluationAt(x, content, shape, width, indices).columns)

\* An honest evaluation of columns in order is accepted, and with rows of the
\* width of the shape its value is that of the polynomial.
LEMMA HonestEvaluation ==
  ASSUME NEW x \in Field, NEW content \in Content, NEW shape \in Shapes, NEW width \in Nat,
         NEW indices \in ColumnSamples(shape), Ascending(indices)
  PROVE  /\ VerifiedAt(x, content, shape, width, indices).ok
         /\ width = shape.pre =>
              VerifiedAt(x, content, shape, width, indices).value
                = Evaluate(FromByteVec(content), x)
<1> DEFINE elements == FromByteVec(content)
           l == FieldLen(content)
           n == RowCount(content, shape)
           commit == CommitTo(elements, shape)
           left == LeftVector(x, n, width)
<1>1. l \in Nat /\ Vector(elements, l)
  BY FileIsVector
<1>2. n \in Nat /\ n = CeilDiv(l, shape.pre)
  <2>1. shape.pre \in Nat \ {0}
    BY ShapesAreCodeLengths
  <2> QED
    BY <1>1, <2>1, PiecesBegin DEF RowCount
<1> HIDE DEF l, n
<1>3. HasRows(commit, elements, shape, n)
  BY <1>1, <1>2, CommitmentRows
<1>4. commit.dims.enc = shape.enc /\ Len(commit.comm) = n
  BY <1>3 DEF HasRows
<1> HIDE DEF commit
<1>5. /\ EvaluationAt(x, content, shape, width, indices).result = ResultVector(commit, left)
      /\ EvaluationAt(x, content, shape, width, indices).columns = RetrieveColumns(commit, indices)
  BY <1>4 DEF EvaluationAt, commit
<1>6. PICK k \in Nat \ {0} : indices \in [1..k -> 0..shape.enc - 1]
  BY ColumnSamplesAreColumns
<1>7. PartialEvaluationOk(left, ResultVector(commit, left), indices,
                          RetrieveColumns(commit, indices))
  <2>1. k \in Nat /\ shape.enc \in Nat
    BY ShapesAreCodeLengths DEF CodeLength
  <2> QED
    BY <1>4, <1>6, <2>1, HonestColumnsAgree
<1>8. VerifiedAt(x, content, shape, width, indices) =
        [ok    |-> PartialEvaluationOk(left, ResultVector(commit, left), indices,
                                       RetrieveColumns(commit, indices)),
         value |-> VectorMultiply(Decode(ResultVector(commit, left)), RightVector(x, width))]
  BY <1>5 DEF VerifiedAt, FullEvaluation, n
<1>9. VerifiedAt(x, content, shape, width, indices).ok
  BY <1>7, <1>8
<1>10. ASSUME width = shape.pre
       PROVE  VerifiedAt(x, content, shape, width, indices).value = Evaluate(elements, x)
  <2>1. VectorMultiply(Decode(ResultVector(commit, left)), RightVector(x, width))
          = Evaluate(elements, x)
    BY <1>1, <1>2, <1>10, CommitmentEvaluates DEF commit
  <2> QED
    BY <1>8, <2>1
<1> QED
  BY <1>9, <1>10

\* What a client asks.
RequestOk(r, d, shape, s) ==
  /\ r.kind \in {"polynomial", "reshape", "append", "edit", "proof"}
  /\ r.indices \in ColumnSamples(shape)
  /\ r.kind # "proof" => r.x \in Points
  /\ r.kind \in {"polynomial", "reshape"} => s = d
  /\ r.kind = "reshape" => r.dims \in Shapes /\ r.newIndices \in ColumnSamples(r.dims)
  /\ r.kind \in {"append", "edit"} => r.patch \in Patches
  /\ r.kind = "edit" => r.start \in 0..Len(d) - Len(r.patch)

\* What the server answers, unless its handler panicked.
AnswerOk(a, r, d, shape, s) ==
  LET old      == EvaluationAt(r.x, d, shape, shape.pre, r.indices)
      new      == EvaluationAt(r.x, s, shape, shape.pre, r.indices)
      reshaped == EvaluationAt(r.x, s, r.dims, r.dims.pre, r.newIndices)
      appended == AppendSlice(Version(d, shape), Version(s, shape))
      range    == EditedRowRange(shape, r.start, r.patch)
      edited   == EditSlice([old |-> Version(d, shape), first |-> range.first,
                             last |-> range.last], Len(d))
  IN  /\ r.kind = "polynomial" => a = EvaluationAt(r.x, d, shape, shape.enc, r.indices)
      /\ r.kind = "reshape" => a = [old |-> old, new |-> reshaped]
      /\ r.kind = "append" =>
           /\ SliceOk(appended.first, appended.last, Len(FromByteVec(s)))
           /\ a = [row |-> SubSeq(FromByteVec(s), appended.first + 1, appended.last + 1),
                   old |-> old, new |-> new]
      /\ r.kind = "edit" =>
           /\ SliceOk(edited.first, edited.last, Len(d))
           /\ a = [rows |-> SubSeq(d, edited.first + 1, edited.last + 1),
                   old |-> old, new |-> new]

\* What the verdict says.
Compares(v, a, r, d, shape, s) ==
  (/\ r.kind # "proof" /\ Ascending(r.indices)
   /\ r.kind = "reshape" => Ascending(r.newIndices)) =>
    /\ r.kind \in {"polynomial", "reshape"} => v = "accepted"
    /\ r.kind = "append" =>
         (v = "accepted" <=> Evaluate(FromByteVec(s), r.x)
                               = Evaluate(FromByteVec(d \o r.patch), r.x))
    /\ r.kind = "edit" =>
         (v = "accepted" <=>
            /\ Evaluate(FromByteVec(s), r.x)
                 = Evaluate(FromByteVec(Splice(d, r.start, r.patch)), r.x)
            /\ Splice(d, r.start, r.patch) # d
            /\ Len(a.rows) % (BYTE_CAPACITY * shape.pre) = 0)

EvaluationInv ==
  /\ request # None => RequestOk(request, data, dims, stored)
  /\ answer # None => request # None
  /\ answer \notin {None, NoAnswer} => AnswerOk(answer, request, data, dims, stored)
  /\ verdict # "none" => answer \notin {None, NoAnswer}
  /\ verdict # "none" => Compares(verdict, answer, request, data, dims, stored)

LEMMA EvaluationInit == ASSUME Init PROVE EvaluationInv
BY DEF Init, EvaluationInv

LEMMA EvaluationAsk ==
  ASSUME EvaluationInv, NEW r, NEW versions, Ask(r, versions),
         \A s \in versions : RequestOk(r, data, dims, s)
  PROVE  EvaluationInv'
<1>1. /\ request' = r /\ stored' \in versions /\ data' = data /\ dims' = dims
      /\ answer' = None /\ verdict' = "none"
  BY DEF EvaluationInv, Ask, rowVars
<1>2. RequestOk(request', data', dims', stored')
  BY <1>1
<1> QED
  BY <1>1, <1>2 DEF EvaluationInv

LEMMA EvaluationAnswer ==
  ASSUME EvaluationInv, NEW kind, NEW a, Asked(kind), Answer(a),
         a # NoAnswer => AnswerOk(a, request, data, dims, stored)
  PROVE  EvaluationInv'
<1>1. /\ request # None /\ request' = request /\ data' = data /\ dims' = dims
      /\ stored' = stored /\ answer' = a /\ verdict' = "none"
  BY DEF EvaluationInv, Asked, Answer, rowVars
<1> QED
  BY <1>1 DEF EvaluationInv

LEMMA EvaluationJudge ==
  ASSUME EvaluationInv, NEW kind, NEW ok, Answered(kind), Judge(ok),
         Compares(IF ok THEN "accepted" ELSE "rejected", answer, request, data, dims, stored)
  PROVE  EvaluationInv'
<1>1. /\ answer \notin {None, NoAnswer} /\ request' = request /\ data' = data /\ dims' = dims
      /\ stored' = stored /\ answer' = answer
      /\ verdict' = IF ok THEN "accepted" ELSE "rejected"
  BY DEF Answered, Judge, rowVars
<1> QED
  BY <1>1 DEF EvaluationInv

LEMMA EvaluationStays ==
  ASSUME EvaluationInv, UNCHANGED <<data, dims, evalVars>>
  PROVE  EvaluationInv'
BY DEF EvaluationInv, evalVars

\* The verdict on a content that was sent for another, from an honest evaluation.
LEMMA AnsweredOk ==
  ASSUME StreamInv, TypeInv, EvaluationInv, NEW kind, Answered(kind)
  PROVE  /\ data \in Content /\ dims \in Shapes /\ stored \in Content
         /\ request.kind = kind
         /\ RequestOk(request, data, dims, stored)
         /\ AnswerOk(answer, request, data, dims, stored)
<1>1. answer # None /\ answer # NoAnswer /\ request.kind = kind
  BY DEF Answered
<1> QED
  BY <1>1 DEF StreamInv, TypeInv, EvaluationInv

\* The answers are honest evaluations.
LEMMA PolynomialJudged ==
  ASSUME StreamInv, TypeInv, EvaluationInv, JudgePolynomial
  PROVE  EvaluationInv'
<1> DEFINE ok == /\ VerifyColumnPaths(CommittedRoot, request.indices, answer.columns)
                 /\ Verified(answer, Version(data, dims), dims.enc, request.indices).ok
<1>1. Answered("polynomial") /\ Judge(ok)
  BY DEF JudgePolynomial
<1>2. /\ data \in Content /\ dims \in Shapes /\ stored \in Content
      /\ request.kind = "polynomial"
      /\ RequestOk(request, data, dims, stored)
      /\ AnswerOk(answer, request, data, dims, stored)
  BY <1>1, AnsweredOk
<1>3. /\ request.indices \in ColumnSamples(dims) /\ request.x \in Field
      /\ answer = EvaluationAt(request.x, data, dims, dims.enc, request.indices)
  BY <1>2, PointsAssumption DEF RequestOk, AnswerOk
<1>4. ASSUME Ascending(request.indices) PROVE ok
  <2>1. dims.enc \in Nat
    BY <1>2, ShapesAreCodeLengths DEF CodeLength
  <2>2. VerifiedAt(request.x, data, dims, dims.enc, request.indices).ok
    BY <1>2, <1>3, <1>4, <2>1, HonestEvaluation
  <2>3. Verified(answer, Version(data, dims), dims.enc, request.indices)
          = VerifiedAt(request.x, data, dims, dims.enc, request.indices)
    BY <1>3 DEF Verified, VerifiedAt, Version
  <2>4. VerifyColumnPaths(CommittedRoot, request.indices, answer.columns)
    <3>1. answer.columns = RetrieveColumns(CommitTo(FromByteVec(data), dims), request.indices)
      BY <1>3 DEF EvaluationAt
    <3>2. PICK n \in Nat \ {0} : request.indices \in [1..n -> 0..dims.enc - 1]
      BY <1>2, <1>3, ColumnSamplesAreColumns
    <3> QED
      BY <1>2, <3>1, <3>2, RetrievedVerify DEF CommittedRoot
  <2> QED
    BY <2>2, <2>3, <2>4
<1> HIDE DEF ok
<1>5. Compares(IF ok THEN "accepted" ELSE "rejected", answer, request, data, dims, stored)
  BY <1>2, <1>4 DEF Compares
<1> QED
  BY <1>1, <1>5, EvaluationJudge

\* The check of the old version.
LEMMA OldIsHonest ==
  ASSUME data \in Content, dims \in Shapes, request.indices \in ColumnSamples(dims),
         Ascending(request.indices), request.x \in Field,
         answer.old = EvaluationAt(request.x, data, dims, dims.pre, request.indices)
  PROVE  OldVerified.ok /\ OldVerified.value = Evaluate(FromByteVec(data), request.x)
<1>1. dims.pre \in Nat
  BY ShapesAreCodeLengths
<1>2. OldVerified = VerifiedAt(request.x, data, dims, dims.pre, request.indices)
  BY DEF OldVerified, Verified, VerifiedAt, Version
<1> QED
  BY <1>1, <1>2, HonestEvaluation

\* The check of the new version in the same shape.
LEMMA NewIsHonest ==
  ASSUME stored \in Content, dims \in Shapes, request.indices \in ColumnSamples(dims),
         Ascending(request.indices), request.x \in Field,
         answer.new = EvaluationAt(request.x, stored, dims, dims.pre, request.indices)
  PROVE  NewVerified.ok /\ NewVerified.value = Evaluate(FromByteVec(stored), request.x)
<1>1. dims.pre \in Nat
  BY ShapesAreCodeLengths
<1>2. NewVerified = VerifiedAt(request.x, stored, dims, dims.pre, request.indices)
  BY DEF NewVerified, Verified, VerifiedAt, Version
<1> QED
  BY <1>1, <1>2, HonestEvaluation

LEMMA ReshapeJudged ==
  ASSUME StreamInv, TypeInv, EvaluationInv, JudgeReshape
  PROVE  EvaluationInv'
<1> DEFINE new == Verified(answer.new, Version(stored, request.dims),
                           request.dims.pre, request.newIndices)
           ok == OldVerified.ok /\ new.ok /\ OldVerified.value = new.value
<1>1. Answered("reshape") /\ Judge(ok)
  BY DEF JudgeReshape
<1>2. /\ data \in Content /\ dims \in Shapes /\ stored \in Content
      /\ request.kind = "reshape"
      /\ RequestOk(request, data, dims, stored)
      /\ AnswerOk(answer, request, data, dims, stored)
  BY <1>1, AnsweredOk
<1>3. /\ request.indices \in ColumnSamples(dims) /\ request.x \in Field /\ stored = data
      /\ request.dims \in Shapes /\ request.newIndices \in ColumnSamples(request.dims)
      /\ answer.old = EvaluationAt(request.x, data, dims, dims.pre, request.indices)
      /\ answer.new = EvaluationAt(request.x, stored, request.dims, request.dims.pre,
                                   request.newIndices)
  BY <1>2, PointsAssumption DEF RequestOk, AnswerOk
<1>4. ASSUME Ascending(request.indices), Ascending(request.newIndices) PROVE ok
  <2>1. OldVerified.ok /\ OldVerified.value = Evaluate(FromByteVec(data), request.x)
    BY <1>2, <1>3, <1>4, OldIsHonest
  <2>2. request.dims.pre \in Nat
    BY <1>3, ShapesAreCodeLengths
  <2>3. new = VerifiedAt(request.x, stored, request.dims, request.dims.pre, request.newIndices)
    BY <1>3 DEF Verified, VerifiedAt, Version
  <2>4. new.ok /\ new.value = Evaluate(FromByteVec(stored), request.x)
    <3> HIDE DEF new
    <3> QED
      BY <1>2, <1>3, <1>4, <2>2, <2>3, HonestEvaluation
  <2> QED
    BY <1>3, <2>1, <2>4
<1> HIDE DEF ok
<1>5. Compares(IF ok THEN "accepted" ELSE "rejected", answer, request, data, dims, stored)
  BY <1>2, <1>4 DEF Compares
<1> QED
  BY <1>1, <1>5, EvaluationJudge
\* The element that the old version does not fill is in the row that was sent.
LEMMA ElementInRow ==
  ASSUME NEW old \in Content, NEW new \in Content, NEW shape \in Shapes,
         Len(old) % BYTE_CAPACITY # 0,
         NEW slice, slice = AppendSlice(Version(old, shape), Version(new, shape)),
         SliceOk(slice.first, slice.last, Len(FromByteVec(new))),
         NEW row, row = SubSeq(FromByteVec(new), slice.first + 1, slice.last + 1),
         ~ ChangedElementMissing(Version(old, shape), Len(row))
  PROVE  row[((Len(old) \div BYTE_CAPACITY) % shape.pre) + 1] \in Field
<1> DEFINE elements == FromByteVec(new)
           index == (Len(old) \div BYTE_CAPACITY) % shape.pre
           rows == RowCount(old, shape)
<1>1. /\ Len(old) \in Nat /\ Len(new) \in Nat
      /\ shape.pre \in Nat \ {0} /\ BYTE_CAPACITY \in Nat \ {0}
  <2>1. Len(old) \in Nat /\ Len(new) \in Nat
    BY DEF Content
  <2> QED
    BY <2>1, ShapesAreCodeLengths, PlaceSteps
<1>2. elements \in Seq(Field) /\ Len(elements) \in Nat
  <2>1. FieldLen(new) \in Nat /\ Vector(elements, FieldLen(new)) /\ Len(elements) = FieldLen(new)
    BY FileIsVector
  <2> QED
    BY <2>1 DEF Vector
<1>3. index \in Nat
  <2>1. PICK d \in Nat : d = Len(old) \div BYTE_CAPACITY
    BY <1>1, PlaceOfByte
  <2>2. PICK n \in Nat \ {0} : n = shape.pre
    BY <1>1
  <2>3. d % n \in 0..n - 1
    BY Division
  <2> QED
    BY <2>1, <2>2, <2>3
<1>4. rows \in Nat \ {0}
  <2>1. /\ rows \in Nat /\ RowBytes(shape) \in Nat
        /\ \A k \in Nat : k < rows <=> k * RowBytes(shape) < Len(old)
    BY RowsBegin
  <2>2. Len(old) # 0
    <3>1. \A b \in Nat \ {0} : 0 % b = 0
      OBVIOUS
    <3> QED
      BY <1>1, <3>1
  <2>3. 0 * RowBytes(shape) = 0 /\ 0 < Len(old)
    BY <1>1, <2>1, <2>2
  <2> QED
    BY <2>1, <2>3
<1>5. slice.first = (rows - 1) * shape.pre /\ slice.last \in Int
  <2>1. CeilDiv(Len(new), CAPACITY) \in Nat
    BY <1>1, CapacityAssumption, PiecesBegin
  <2>2. rows * shape.pre - 1 \in Int
    BY <1>1, <1>4
  <2> QED
    BY <2>1, <2>2 DEF AppendSlice, Version
<1>6. slice.first \in Nat
  <2>1. rows - 1 \in Nat
    BY <1>4
  <2> QED
    BY <1>1, <1>5, <2>1
<1> HIDE DEF elements, index, rows
<1>7. slice.first <= slice.last + 1 /\ slice.last + 1 <= Len(elements)
  BY DEF SliceOk, elements
<1>8. slice.last + 1 \in Nat
  BY <1>5, <1>6, <1>7
<1>9. row \in Seq(Field)
  BY <1>2, <1>6, <1>7, <1>8, Middle DEF elements
<1>10. ~ (index >= Len(row))
  BY <1>1 DEF ChangedElementMissing, Version, index
<1>11. index + 1 \in 1..Len(row)
  BY <1>3, <1>9, <1>10
<1>12. row[index + 1] \in Field
  <2>1. \A q \in Seq(Field) : \A i \in 1..Len(q) : q[i] \in Field
    OBVIOUS
  <2> QED
    BY <1>9, <1>11, <2>1, Zenon
<1> QED
  BY <1>12 DEF index

\* The new value is compared with that of the old bytes and the new ones.
LEMMA AppendJudged ==
  ASSUME StreamInv, TypeInv, EvaluationInv, JudgeAppend
  PROVE  EvaluationInv'
<1> DEFINE old == Version(data, dims)
           ok == /\ OldVerified.ok /\ NewVerified.ok
                 /\ NewVerified.value
                      = (OldVerified.value
                           + AppendDifference(request.x, old, request.patch, answer.row)) % MODULUS
           degree == Len(data) \div BYTE_CAPACITY
           offset == Len(data) % BYTE_CAPACITY
           kept == IF offset = 0 THEN << >>
                   ELSE ConvertToBytes(<<answer.row[(degree % dims.pre) + 1]>>, offset)
<1>1. Answered("append") /\ Judge(ok) /\ ~ ChangedElementMissing(old, Len(answer.row))
  BY DEF JudgeAppend
<1>2. /\ data \in Content /\ dims \in Shapes /\ stored \in Content
      /\ request.kind = "append"
      /\ RequestOk(request, data, dims, stored)
      /\ AnswerOk(answer, request, data, dims, stored)
  BY <1>1, AnsweredOk
<1>3. /\ request.indices \in ColumnSamples(dims) /\ request.x \in Field
      /\ request.patch \in Content
      /\ answer.old = EvaluationAt(request.x, data, dims, dims.pre, request.indices)
      /\ answer.new = EvaluationAt(request.x, stored, dims, dims.pre, request.indices)
  BY <1>2, PointsAssumption, PatchesAssumption DEF RequestOk, AnswerOk
<1>4. PICK slice : /\ slice = AppendSlice(Version(data, dims), Version(stored, dims))
                   /\ SliceOk(slice.first, slice.last, Len(FromByteVec(stored)))
                   /\ answer.row = SubSeq(FromByteVec(stored), slice.first + 1, slice.last + 1)
  BY <1>2 DEF AnswerOk
<1>5. kept \in Content /\ Len(kept) = offset
  <2>1. offset \in 0..BYTE_CAPACITY - 1
    <3>1. Len(data) \in Nat
      BY <1>2 DEF Content
    <3> QED
      BY <3>1, PlaceOfByte
  <2>2. CASE offset = 0
    BY <2>2 DEF Content
  <2>3. CASE offset # 0
    <3>1. answer.row[(degree % dims.pre) + 1] \in Field
      BY <1>1, <1>2, <1>4, <2>3, ElementInRow
    <3>2. offset \in 0..BYTE_CAPACITY
      BY <2>1, PlaceSteps
    <3> HIDE DEF offset, degree
    <3> QED
      BY <2>3, <3>1, <3>2, KeptBytes
  <2> QED
    BY <2>2, <2>3
<1>6. AppendDifference(request.x, old, request.patch, answer.row)
        = EvaluateFrom(FromByteVec(kept \o request.patch), request.x, degree)
            - EvaluateFrom(FromByteVec(kept), request.x, degree)
  BY DEF AppendDifference, Version
<1> HIDE DEF kept
<1>7. Evaluate(FromByteVec(data \o request.patch), request.x)
        = (Evaluate(FromByteVec(data), request.x)
             + (EvaluateFrom(FromByteVec(kept \o request.patch), request.x, degree)
                  - EvaluateFrom(FromByteVec(kept), request.x, degree))) % MODULUS
  BY <1>2, <1>3, <1>5, AppendedValue
<1>8. ASSUME Ascending(request.indices)
      PROVE  ok <=> Evaluate(FromByteVec(stored), request.x)
                      = Evaluate(FromByteVec(data \o request.patch), request.x)
  <2>1. OldVerified.ok /\ OldVerified.value = Evaluate(FromByteVec(data), request.x)
    BY <1>2, <1>3, <1>8, OldIsHonest
  <2>2. NewVerified.ok /\ NewVerified.value = Evaluate(FromByteVec(stored), request.x)
    BY <1>2, <1>3, <1>8, NewIsHonest
  <2> QED
    BY <1>6, <1>7, <2>1, <2>2
<1> HIDE DEF ok
<1>9. Compares(IF ok THEN "accepted" ELSE "rejected", answer, request, data, dims, stored)
  BY <1>2, <1>8 DEF Compares
<1> QED
  BY <1>1, <1>9, EvaluationJudge

\* The bounds of the rows of an edit, where f and g are the ends of rows before it.
LEMMA EditBounds ==
  ASSUME NEW w \in Nat \ {0}, NEW s \in Nat, NEW m \in Nat, NEW len \in Nat,
         NEW f \in Int, NEW g \in Int, NEW p \in 0..w - 1, NEW r \in 0..w - 1,
         s = f + p, s + m = g + r, NEW last \in Int,
         last = IF (g + w) - 1 < len THEN (g + w) - 1 ELSE len, last + 1 <= len
  PROVE  /\ f <= s /\ s < f + w /\ s - f = p
         /\ last + 1 = g + w /\ g + w <= len /\ s + m < g + w
         /\ f < g + w
<1>1. last = (g + w) - 1
  OBVIOUS
<1> QED
  BY <1>1

\* Multiples are in the order of their factors.
LEMMA FactorsOrdered ==
  ASSUME NEW w \in Nat \ {0}, NEW a \in Int, NEW b \in Int, a * w < b * w
  PROVE  a < b
<1>1. ASSUME b <= a PROVE FALSE
  <2>1. b * w <= a * w
    BY <1>1, MultiplesGrow
  <2>2. a * w \in Int /\ b * w \in Int
    OBVIOUS
  <2>3. \A c, d \in Int : c < d /\ d <= c => FALSE
    OBVIOUS
  <2> QED
    BY <2>1, <2>2, <2>3
<1>2. \A c, d \in Int : ~ (d <= c) => c < d
  OBVIOUS
<1> QED
  BY <1>1, <1>2

\* Rows that were sent are whole, in the file, and hold the edited bytes.
RowsHold(content, shape, start, patch, first, from, to, f, k) ==
  /\ first \in Nat
  /\ f = (first * shape.pre) * BYTE_CAPACITY
  /\ f + k <= Len(content) /\ f <= start /\ start + Len(patch) <= f + k
  /\ start - f = start % (BYTE_CAPACITY * shape.pre)
  /\ k % (BYTE_CAPACITY * shape.pre) = 0
  /\ Len(patch) <= k
  /\ from + 1 = f + 1 /\ to + 1 = f + k

LEMMA EditedRowsHold ==
  ASSUME NEW content \in Content, NEW shape \in Shapes, NEW patch \in Content,
         NEW start \in 0..Len(content) - Len(patch),
         NEW range, range = EditedRowRange(shape, start, patch),
         NEW slice, slice = EditSlice([old |-> Version(content, shape), first |-> range.first,
                                       last |-> range.last], Len(content)),
         SliceOk(slice.first, slice.last, Len(content))
  PROVE  \E k, f \in Nat :
           RowsHold(content, shape, start, patch, range.first, slice.first, slice.last, f, k)
<1>1. PICK len \in Nat : len = Len(content)
  BY DEF Content
<1>2. PICK m \in Nat : m = Len(patch)
  BY DEF Content
<1>3. shape.pre \in Nat \ {0} /\ BYTE_CAPACITY \in Nat \ {0}
  BY ShapesAreCodeLengths, PlaceSteps
<1>4. PICK w \in Nat \ {0} : w = shape.pre * BYTE_CAPACITY
  BY <1>3
<1>5. BYTE_CAPACITY * shape.pre = w
  BY <1>3, <1>4
<1>6. PICK s \in Nat : s = start
  BY <1>1, <1>2
<1>7. PICK a \in Int, p \in 0..w - 1 : a = s \div w /\ p = s % w /\ s = a * w + p
  <2>1. s \div w \in Int /\ s % w \in 0..w - 1 /\ s = (s \div w) * w + (s % w)
    BY Division
  <2> QED
    BY <2>1, Zenon
<1>8. PICK e \in Nat : e = s + m
  OBVIOUS
<1>9. PICK b \in Int, r \in 0..w - 1 : b = e \div w /\ e = b * w + r
  <2>1. e \div w \in Int /\ e % w \in 0..w - 1 /\ e = (e \div w) * w + (e % w)
    BY Division
  <2> QED
    BY <2>1, Zenon
<1>10. range.first = a /\ range.last = b
  BY <1>2, <1>4, <1>6, <1>7, <1>8, <1>9 DEF EditedRowRange
<1>11. PICK f \in Int : f = a * w
  OBVIOUS
<1>12. PICK g \in Int : g = b * w
  OBVIOUS
<1>13. (b + 1) * w = g + w
  BY <1>12, NextMultiple
<1>14. slice.first = f
  BY <1>4, <1>10, <1>11 DEF EditSlice, Version
<1>15. PICK last \in Int :
         /\ last = slice.last
         /\ last = IF (g + w) - 1 < len THEN (g + w) - 1 ELSE len
  <2>1. slice.last = IF (range.last + 1) * w - 1 < Len(content) THEN (range.last + 1) * w - 1
                     ELSE Len(content)
    BY <1>4 DEF EditSlice, Version
  <2>2. slice.last = IF (g + w) - 1 < len THEN (g + w) - 1 ELSE len
    BY <1>1, <1>10, <1>13, <2>1
  <2> QED
    BY <2>2
<1>16. last + 1 <= len
  BY <1>1, <1>15 DEF SliceOk
<1>17. /\ f <= s /\ s < f + w /\ s - f = p
       /\ last + 1 = g + w /\ g + w <= len /\ s + m < g + w /\ f < g + w
  <2>1. s = f + p /\ s + m = g + r
    BY <1>7, <1>8, <1>9, <1>11, <1>12
  <2> QED
    BY <1>15, <1>16, <2>1, EditBounds
<1>18. a \in Nat
  <2>1. (a + 1) * w = f + w
    BY <1>11, NextMultiple
  <2>2. 0 * w < (a + 1) * w
    BY <1>17, <2>1
  <2>3. 0 < a + 1
    BY <2>2, FactorsOrdered
  <2> QED
    BY <2>3
<1>19. a < b + 1
  BY <1>11, <1>13, <1>17, FactorsOrdered
<1>20. PICK q \in Nat : q = (b + 1) - a
  BY <1>19
<1>21. PICK k \in Nat : k = q * w
  OBVIOUS
<1>22. k = (g + w) - f
  <2>1. ((b + 1) - a) * w = (b + 1) * w - a * w
    OBVIOUS
  <2> QED
    BY <1>11, <1>13, <1>20, <1>21, <2>1
<1>23. k % w = 0
  <2>1. (q * w + 0) % w = 0
    BY DivisionUnique
  <2> QED
    BY <1>21, <2>1
<1>24. f \in Nat /\ f = (a * shape.pre) * BYTE_CAPACITY
  <2>1. f \in Nat
    BY <1>11, <1>18
  <2> QED
    BY <1>3, <1>4, <1>11, <1>18, <2>1
<1>25. f + k <= len /\ s + m <= f + k /\ m <= k /\ slice.first + 1 = f + 1 /\ last + 1 = f + k
  <2>1. f + k = g + w
    BY <1>22
  <2> QED
    BY <1>14, <1>17, <2>1
<1>26. s % w = p
  BY <1>7
<1>27. RowsHold(content, shape, start, patch, range.first, slice.first, slice.last, f, k)
  BY <1>1, <1>2, <1>5, <1>6, <1>10, <1>15, <1>17, <1>18, <1>23, <1>24, <1>25, <1>26 DEF RowsHold
<1> QED
  BY <1>24, <1>27

LEMMA EditJudged ==
  ASSUME StreamInv, TypeInv, EvaluationInv, JudgeEdit
  PROVE  EvaluationInv'
<1> DEFINE rows == answer.rows
           width == BYTE_CAPACITY * dims.pre
           edited == Splice(rows, request.start % width, request.patch)
           range == EditedRowRange(dims, request.start, request.patch)
           slice == EditSlice([old |-> Version(data, dims), first |-> range.first,
                               last |-> range.last], Len(data))
           degree == range.first * dims.pre
           ok == /\ WholeRows(dims, Len(rows), Len(request.patch))
                 /\ OldVerified.ok /\ NewVerified.ok
                 /\ FromByteVec(edited) # FromByteVec(rows)
                 /\ NewVerified.value
                      = (OldVerified.value
                           + EditDifference(request.x, request.start, request.patch, rows)) % MODULUS
<1>1. Answered("edit") /\ Judge(ok)
  BY DEF JudgeEdit
<1>2. /\ data \in Content /\ dims \in Shapes /\ stored \in Content
      /\ request.kind = "edit"
      /\ RequestOk(request, data, dims, stored)
      /\ AnswerOk(answer, request, data, dims, stored)
  BY <1>1, AnsweredOk
<1>3. /\ request.indices \in ColumnSamples(dims) /\ request.x \in Field
      /\ request.patch \in Content /\ request.start \in 0..Len(data) - Len(request.patch)
      /\ answer.old = EvaluationAt(request.x, data, dims, dims.pre, request.indices)
      /\ answer.new = EvaluationAt(request.x, stored, dims, dims.pre, request.indices)
  BY <1>2, PointsAssumption, PatchesAssumption DEF RequestOk, AnswerOk
<1>4. /\ SliceOk(slice.first, slice.last, Len(data))
      /\ rows = SubSeq(data, slice.first + 1, slice.last + 1)
  BY <1>2 DEF AnswerOk
<1> HIDE DEF range, slice, rows
<1>5. PICK k \in Nat, f \in Nat :
         RowsHold(data, dims, request.start, request.patch, range.first,
                  slice.first, slice.last, f, k)
  BY <1>2, <1>3, <1>4, EditedRowsHold DEF range, slice
<1>6. /\ range.first \in Nat
      /\ f = (range.first * dims.pre) * BYTE_CAPACITY
      /\ f + k <= Len(data) /\ f <= request.start /\ request.start + Len(request.patch) <= f + k
      /\ request.start - f = request.start % (BYTE_CAPACITY * dims.pre)
      /\ k % (BYTE_CAPACITY * dims.pre) = 0
      /\ Len(request.patch) <= k
      /\ slice.first + 1 = f + 1 /\ slice.last + 1 = f + k
  BY <1>5 DEF RowsHold
<1>7. /\ request.start \in Nat /\ degree \in Nat
  <2>1. dims.pre \in Nat /\ Len(request.patch) \in Nat /\ Len(data) \in Nat
    BY <1>2, <1>3, ShapesAreCodeLengths DEF Content
  <2> QED
    BY <1>3, <1>6, <2>1
<1>8. rows = SubSeq(data, f + 1, f + k)
  BY <1>4, <1>6
<1>9. Len(rows) = k
  <2>1. IsPart(rows, data, f, k)
    BY <1>2, <1>3, <1>6, <1>7, <1>8, SplicedPart
  <2> QED
    BY <2>1 DEF IsPart
<1>10. edited = Splice(rows, request.start - f, request.patch)
  BY <1>6
<1> HIDE DEF edited, degree
<1>11. /\ DifferAsParts(Splice(data, request.start, request.patch), data, edited, rows,
                          request.x, degree)
       /\ FromByteVec(edited) = FromByteVec(rows)
            <=> Splice(data, request.start, request.patch) = data
  <2>1. f = degree * BYTE_CAPACITY
    BY <1>6 DEF degree
  <2>2. EditsPart(data, request.start, request.patch, degree, k, f, rows, edited)
    BY <1>6, <1>8, <1>10, <2>1 DEF EditsPart
  <2> QED
    BY <1>2, <1>3, <1>7, <2>2, SplicedValue
<1>12. WholeRows(dims, Len(rows), Len(request.patch)) /\ Len(rows) % width = 0
  <2>1. k >= Len(request.patch)
    <3>1. Len(request.patch) \in Nat
      BY <1>3 DEF Content
    <3> QED
      BY <1>6, <3>1
  <2> QED
    BY <1>6, <1>9, <2>1 DEF WholeRows
<1>13. EditDifference(request.x, request.start, request.patch, rows)
         = EvaluateFrom(FromByteVec(edited), request.x, degree)
             - EvaluateFrom(FromByteVec(rows), request.x, degree)
  BY DEF EditDifference, edited, degree, range
<1>14. ASSUME Ascending(request.indices)
       PROVE  ok <=> /\ Evaluate(FromByteVec(stored), request.x)
                          = Evaluate(FromByteVec(Splice(data, request.start, request.patch)),
                                     request.x)
                     /\ Splice(data, request.start, request.patch) # data
                     /\ Len(rows) % width = 0
  <2>1. OldVerified.ok /\ OldVerified.value = Evaluate(FromByteVec(data), request.x)
    BY <1>2, <1>3, <1>14, OldIsHonest
  <2>2. NewVerified.ok /\ NewVerified.value = Evaluate(FromByteVec(stored), request.x)
    BY <1>2, <1>3, <1>14, NewIsHonest
  <2> QED
    BY <1>11, <1>12, <1>13, <2>1, <2>2 DEF DifferAsParts
<1> HIDE DEF ok
<1>15. Compares(IF ok THEN "accepted" ELSE "rejected", answer, request, data, dims, stored)
  BY <1>2, <1>14 DEF Compares, rows
<1> QED
  BY <1>1, <1>15, EvaluationJudge
\* The answers are the evaluations of the two versions at the point of the request.
LEMMA EvaluationsAnswered ==
  /\ OldEvaluation = EvaluationAt(request.x, data, dims, dims.pre, request.indices)
  /\ NewEvaluation = EvaluationAt(request.x, stored, dims, dims.pre, request.indices)
  /\ \A content, shape, width, indices :
       Evaluation(content, shape, width, indices)
         = EvaluationAt(request.x, content, shape, width, indices)
BY DEF OldEvaluation, NewEvaluation, Evaluation, EvaluationAt

\* Every step keeps the answer honest and the verdict a comparison.
LEMMA EvaluationNext ==
  ASSUME StreamInv, TypeInv, EvaluationInv, [Next]_vars
  PROVE  EvaluationInv'
<1>1. CASE RowNext /\ UNCHANGED evalVars
  BY <1>1, EvaluationStays DEF RowNext, TakeElement, EmitRow
<1>2. CASE RequestPolynomial
  <2>1. PICK x \in Points, indices \in ColumnSamples(dims) :
          Ask([kind |-> "polynomial", x |-> x, indices |-> indices], {data})
    BY <1>2 DEF RequestPolynomial
  <2> DEFINE r == [kind |-> "polynomial", x |-> x, indices |-> indices]
  <2>2. RequestOk(r, data, dims, data)
    BY DEF RequestOk
  <2> QED
    BY <2>1, <2>2, EvaluationAsk
<1>3. CASE RequestReshape
  <2>1. PICK x \in Points, indices \in ColumnSamples(dims), shape \in Shapes \ {dims} :
          \E newIndices \in ColumnSamples(shape) :
            Ask([kind |-> "reshape", x |-> x, indices |-> indices,
                 dims |-> shape, newIndices |-> newIndices], {data})
    BY <1>3 DEF RequestReshape
  <2>2. PICK newIndices \in ColumnSamples(shape) :
          Ask([kind |-> "reshape", x |-> x, indices |-> indices,
               dims |-> shape, newIndices |-> newIndices], {data})
    BY <2>1
  <2> DEFINE r == [kind |-> "reshape", x |-> x, indices |-> indices,
                   dims |-> shape, newIndices |-> newIndices]
  <2>3. RequestOk(r, data, dims, data)
    BY DEF RequestOk
  <2> QED
    BY <2>2, <2>3, EvaluationAsk
<1>4. CASE RequestAppend
  <2>1. PICK x \in Points, indices \in ColumnSamples(dims), patch \in Patches :
          Ask([kind |-> "append", x |-> x, indices |-> indices, patch |-> patch],
              Versions(data \o patch))
    BY <1>4 DEF RequestAppend
  <2> DEFINE r == [kind |-> "append", x |-> x, indices |-> indices, patch |-> patch]
  <2>2. \A s : RequestOk(r, data, dims, s)
    BY DEF RequestOk
  <2> QED
    BY <2>1, <2>2, EvaluationAsk
<1>5. CASE RequestEdit
  <2>1. PICK x \in Points, indices \in ColumnSamples(dims), patch \in Patches :
          \E start \in 0..Len(data) - Len(patch) :
            Ask([kind |-> "edit", x |-> x, indices |-> indices,
                 patch |-> patch, start |-> start],
                Versions(Splice(data, start, patch)) \ {data})
    BY <1>5 DEF RequestEdit
  <2>2. PICK start \in 0..Len(data) - Len(patch) :
          Ask([kind |-> "edit", x |-> x, indices |-> indices, patch |-> patch, start |-> start],
              Versions(Splice(data, start, patch)) \ {data})
    BY <2>1
  <2> DEFINE r == [kind |-> "edit", x |-> x, indices |-> indices,
                   patch |-> patch, start |-> start]
  <2>3. \A s : RequestOk(r, data, dims, s)
    BY DEF RequestOk
  <2> QED
    BY <2>2, <2>3, EvaluationAsk
<1>6. CASE RequestProof
  <2>1. PICK indices \in ColumnSamples(dims), own \in Versions(data) :
          Ask([kind |-> "proof", own |-> own, indices |-> indices],
              Versions(data) \cup {Append(data, 0)})
    BY <1>6 DEF RequestProof
  <2> DEFINE r == [kind |-> "proof", own |-> own, indices |-> indices]
  <2>2. \A s : RequestOk(r, data, dims, s)
    BY DEF RequestOk
  <2> QED
    BY <2>1, <2>2, EvaluationAsk
<1>7. CASE AnswerPolynomial
  <2>1. request.kind = "polynomial" /\ Asked("polynomial")
    BY <1>7 DEF AnswerPolynomial, Asked
  <2> DEFINE a == EvaluationAt(request.x, data, dims, dims.enc, request.indices)
  <2>2. Answer(a)
    BY <1>7, EvaluationsAnswered DEF AnswerPolynomial
  <2>3. AnswerOk(a, request, data, dims, stored)
    BY <2>1 DEF AnswerOk
  <2> QED
    BY <2>1, <2>2, <2>3, EvaluationAnswer
<1>8. CASE AnswerReshape
  <2>1. request.kind = "reshape" /\ Asked("reshape")
    BY <1>8 DEF AnswerReshape, Asked
  <2> DEFINE a == [old |-> EvaluationAt(request.x, data, dims, dims.pre, request.indices),
                   new |-> EvaluationAt(request.x, stored, request.dims, request.dims.pre,
                                        request.newIndices)]
  <2>2. Answer(a)
    BY <1>8, EvaluationsAnswered DEF AnswerReshape
  <2>3. AnswerOk(a, request, data, dims, stored)
    BY <2>1 DEF AnswerOk
  <2> QED
    BY <2>1, <2>2, <2>3, EvaluationAnswer
<1>9. CASE AnswerAppend
  <2>1. request.kind = "append" /\ Asked("append")
    BY <1>9 DEF AnswerAppend, Asked
  <2> DEFINE elements == FromByteVec(stored)
             slice    == AppendSlice(Version(data, dims), Version(stored, dims))
             a        == [row |-> SubSeq(elements, slice.first + 1, slice.last + 1),
                          old |-> EvaluationAt(request.x, data, dims, dims.pre, request.indices),
                          new |-> EvaluationAt(request.x, stored, dims, dims.pre,
                                               request.indices)]
             ok       == SliceOk(slice.first, slice.last, Len(elements))
  <2>2. Answer(IF ok THEN a ELSE NoAnswer)
    BY <1>9, EvaluationsAnswered DEF AnswerAppend
  <2>3. ok => AnswerOk(a, request, data, dims, stored)
    BY <2>1 DEF AnswerOk
  <2> HIDE DEF a, ok
  <2> QED
    BY <2>1, <2>2, <2>3, EvaluationAnswer
<1>10. CASE AnswerEdit
  <2>1. request.kind = "edit" /\ Asked("edit")
    BY <1>10 DEF AnswerEdit, Asked
  <2> DEFINE range == EditedRowRange(dims, request.start, request.patch)
             slice == EditSlice([old |-> Version(data, dims), first |-> range.first,
                                 last |-> range.last], Len(data))
             a     == [rows |-> SubSeq(data, slice.first + 1, slice.last + 1),
                       old |-> EvaluationAt(request.x, data, dims, dims.pre, request.indices),
                       new |-> EvaluationAt(request.x, stored, dims, dims.pre, request.indices)]
             ok    == SliceOk(slice.first, slice.last, Len(data))
  <2>2. Answer(IF ok THEN a ELSE NoAnswer)
    BY <1>10, EvaluationsAnswered DEF AnswerEdit
  <2>3. ok => AnswerOk(a, request, data, dims, stored)
    BY <2>1 DEF AnswerOk
  <2> HIDE DEF a, ok
  <2> QED
    BY <2>1, <2>2, <2>3, EvaluationAnswer
<1>11. CASE AnswerProof
  <2>1. request.kind = "proof" /\ Asked("proof") /\ \E a : Answer(a)
    BY <1>11 DEF AnswerProof, Asked
  <2>2. \A a : AnswerOk(a, request, data, dims, stored)
    BY <2>1 DEF AnswerOk
  <2> QED
    BY <2>1, <2>2, EvaluationAnswer
<1>12. CASE JudgePolynomial
  BY <1>12, PolynomialJudged
<1>13. CASE JudgeReshape
  BY <1>13, ReshapeJudged
<1>14. CASE JudgeAppend
  BY <1>14, AppendJudged
<1>15. CASE JudgeEdit
  BY <1>15, EditJudged
<1>16. CASE JudgeProof
  <2>1. request.kind = "proof" /\ Answered("proof") /\ \E ok : Judge(ok)
    BY <1>16 DEF JudgeProof, Answered
  <2>2. \A v : Compares(v, answer, request, data, dims, stored)
    BY <2>1 DEF Compares
  <2> QED
    BY <2>1, <2>2, EvaluationJudge
<1>17. CASE UNCHANGED vars
  BY <1>17, EvaluationStays DEF vars, rowVars
<1> QED
  BY <1>1, <1>2, <1>3, <1>4, <1>5, <1>6, <1>7, <1>8, <1>9, <1>10, <1>11, <1>12, <1>13,
     <1>14, <1>15, <1>16, <1>17 DEF Next

\* What the verdict compares is what the property names.
LEMMA VerdictIsComparison ==
  ASSUME EvaluationInv
  PROVE  VerdictComparesAtPoint
<1> SUFFICES ASSUME verdict # "none", request.kind # "proof", InOrder
             PROVE  CASE request.kind \in {"polynomial", "reshape"} -> verdict = "accepted"
                      [] request.kind = "append" -> (verdict = "accepted") = SameAtPoint
                      [] request.kind = "edit" ->
                           (verdict = "accepted")
                             = (/\ SameAtPoint
                                /\ Intended(request) # data
                                /\ Len(answer.rows) % (BYTE_CAPACITY * dims.pre) = 0)
  BY DEF VerdictComparesAtPoint
<1>1. /\ RequestOk(request, data, dims, stored)
      /\ Compares(verdict, answer, request, data, dims, stored)
  BY DEF EvaluationInv
<1>2. /\ Ascending(request.indices)
      /\ request.kind = "reshape" => Ascending(request.newIndices)
  BY DEF InOrder
<1>3. request.kind \in {"polynomial", "reshape", "append", "edit", "proof"}
  BY <1>1 DEF RequestOk
<1>4. CASE request.kind \in {"polynomial", "reshape"}
  BY <1>1, <1>2, <1>4 DEF Compares
<1>5. CASE request.kind = "append"
  <2>1. Intended(request) = data \o request.patch
    BY <1>5 DEF Intended
  <2>2. verdict = "accepted" <=> Evaluate(FromByteVec(stored), request.x)
                                   = Evaluate(FromByteVec(data \o request.patch), request.x)
    BY <1>1, <1>2, <1>5 DEF Compares
  <2>3. (verdict = "accepted") = SameAtPoint
    BY <2>1, <2>2 DEF SameAtPoint
  <2> QED
    BY <1>5, <2>3
<1>6. CASE request.kind = "edit"
  <2>1. Intended(request) = Splice(data, request.start, request.patch)
    BY <1>6 DEF Intended
  <2>2. verdict = "accepted" <=>
          /\ Evaluate(FromByteVec(stored), request.x)
               = Evaluate(FromByteVec(Splice(data, request.start, request.patch)), request.x)
          /\ Splice(data, request.start, request.patch) # data
          /\ Len(answer.rows) % (BYTE_CAPACITY * dims.pre) = 0
    BY <1>1, <1>2, <1>6 DEF Compares
  <2>3. (verdict = "accepted") = (/\ SameAtPoint
                                  /\ Intended(request) # data
                                  /\ Len(answer.rows) % (BYTE_CAPACITY * dims.pre) = 0)
    BY <2>1, <2>2 DEF SameAtPoint
  <2> QED
    BY <1>6, <2>3
<1> QED
  BY <1>3, <1>4, <1>5, <1>6

\* The client's verdict on a new version is the comparison of the stored version's polynomial
\* with the intended one at the random point, for every field, shape, content and patch:
\* result vectors, decoding, slices of rows, cut elements and degree offsets lose nothing, and
\* an honest evaluation is accepted when its columns are opened in order (append_to_file,
\* edit_file, reshape_file, client_request_and_verify_polynomial).
THEOREM VerdictsCompare == Spec => []VerdictComparesAtPoint
<1>1. Init => StreamInv /\ TypeInv /\ EvaluationInv
  BY StreamInit, TypeInit, EvaluationInit
<1>2. StreamInv /\ TypeInv /\ EvaluationInv /\ [Next]_vars
        => (StreamInv /\ TypeInv /\ EvaluationInv)'
  BY StreamNext, TypeNext, EvaluationNext
<1>3. StreamInv /\ TypeInv /\ EvaluationInv => VerdictComparesAtPoint
  BY VerdictIsComparison
<1> QED
  BY <1>1, <1>2, <1>3, PTL DEF Spec
-----------------------------------------------------------------------------
(* The library's own proofs.                                               *)

\* Another version of a file is as long as it.
LEMMA VersionsAreAsLong ==
  ASSUME NEW content \in Content, NEW version \in Versions(content)
  PROVE  version \in Content /\ Len(version) = Len(content)
<1>1. version \in Content
  BY VersionsAreContent
<1>2. content \in [1..Len(content) -> Bytes] /\ Len(content) \in Nat
  BY DEF Content
<1>3. CASE version = content
  BY <1>1, <1>3
<1>4. CASE version = Reverse(content)
  <2>1. DOMAIN version = 1..Len(content)
    BY <1>2, <1>4 DEF Reverse
  <2>2. DOMAIN version = 1..Len(version) /\ Len(version) \in Nat
    BY <1>1 DEF Content
  <2> QED
    BY <1>1, <1>2, <2>1, <2>2
<1>5. CASE \E i \in DOMAIN content, byte \in Bytes : version = [content EXCEPT ![i] = byte]
  <2>1. DOMAIN version = 1..Len(content)
    BY <1>2, <1>5
  <2>2. DOMAIN version = 1..Len(version) /\ Len(version) \in Nat
    BY <1>1 DEF Content
  <2> QED
    BY <1>1, <1>2, <2>1, <2>2
<1> QED
  BY <1>3, <1>4, <1>5 DEF Versions

\* A file as it is committed to: l elements, n rows.
IsLaidOut(content, shape, l, n) ==
  /\ l \in Nat /\ n \in Nat
  /\ Vector(FromByteVec(content), l)
  /\ n = RowCount(content, shape) /\ n = CeilDiv(l, shape.pre)
  /\ HasRows(CommitTo(FromByteVec(content), shape), FromByteVec(content), shape, n)

\* Every file is laid out in every shape.
LEMMA LaidOut ==
  ASSUME NEW content \in Content, NEW shape \in Shapes
  PROVE  \E l, n \in Nat : IsLaidOut(content, shape, l, n)
<1> DEFINE l == FieldLen(content)
           n == RowCount(content, shape)
<1>1. l \in Nat /\ Vector(FromByteVec(content), l)
  BY FileIsVector
<1>2. n \in Nat /\ n = CeilDiv(l, shape.pre)
  <2>1. shape.pre \in Nat \ {0}
    BY ShapesAreCodeLengths
  <2> QED
    BY <1>1, <2>1, PiecesBegin DEF RowCount
<1> HIDE DEF l
<1>3. HasRows(CommitTo(FromByteVec(content), shape), FromByteVec(content), shape, n)
  BY <1>1, <1>2, CommitmentRows
<1> QED
  BY <1>1, <1>2, <1>3 DEF IsLaidOut

\* Each opened column has the value that a combination is encoded to.
LEMMA OpenedColumnsAgree ==
  ASSUME NEW content, NEW shape \in Shapes, NEW l, NEW n, IsLaidOut(content, shape, l, n),
         NEW tensor, Vector(tensor, n), NEW c \in 0..shape.enc - 1
  PROVE  LET commit == CommitTo(FromByteVec(content), shape)
         IN  /\ VerifyColumnValue(OpenColumn(commit, c), tensor,
                                  EncodeTo(CollapseColumns(commit, tensor), shape.enc)[c + 1])
             /\ Len(OpenColumn(commit, c).col) = n
<1> DEFINE elements == FromByteVec(content)
           commit == CommitTo(elements, shape)
<1>1. /\ l \in Nat /\ n \in Nat /\ Vector(elements, l) /\ n = CeilDiv(l, shape.pre)
      /\ HasRows(commit, elements, shape, n)
  BY DEF IsLaidOut
<1>2. commit.dims = shape /\ DOMAIN commit.comm = 1..n
  BY <1>1 DEF HasRows
<1>3. EncodeTo(CollapseColumns(commit, tensor), shape.enc) = ResultVector(commit, tensor)
  BY <1>1, CollapsedEncodes
<1> HIDE DEF commit
<1>4. ResultVector(commit, tensor)[c + 1] = VectorMultiply(tensor, ColumnOf(commit.comm, c))
  <2>1. shape.enc \in Nat
    BY ShapesAreCodeLengths DEF CodeLength
  <2>2. c + 1 \in 1..shape.enc /\ (c + 1) - 1 = c
    BY <2>1
  <2> QED
    BY <1>2, <2>2 DEF ResultVector
<1>5. Len(ColumnOf(commit.comm, c)) = n
  BY <1>1, <1>2 DEF ColumnOf
<1>6. OpenColumn(commit, c).col = ColumnOf(commit.comm, c)
  BY DEF OpenColumn
<1> QED
  BY <1>3, <1>4, <1>5, <1>6 DEF VerifyColumnValue, commit

\* A proof of the file verifies.
LEMMA OwnProofVerifies ==
  ASSUME NEW content \in Content, NEW shape \in Shapes, NEW x \in Field,
         NEW degree, NEW opened \in [1..SOUNDNESS -> 0..shape.enc - 1],
         degree = <<LeftVector(x, RowCount(content, shape), 1)>>,
         NEW y \in Field
  PROVE  LET commit == CommitTo(FromByteVec(content), shape)
             outer  == LeftVector(y, Len(commit.comm), shape.pre)
             inner  == RightVector(y, shape.pre)
             challenge == [degree |-> degree, opened |-> opened]
         IN  VerifyProof(shape, CommitRoot(commit), outer, inner,
                         Prove(commit, outer, challenge), challenge)
<1> DEFINE elements == FromByteVec(content)
           commit == CommitTo(elements, shape)
           outer == LeftVector(y, Len(commit.comm), shape.pre)
           inner == RightVector(y, shape.pre)
           challenge == [degree |-> degree, opened |-> opened]
           proof == Prove(commit, outer, challenge)
           value(tensor) == EncodeTo(CollapseColumns(commit, tensor), shape.enc)
<1>1. PICK l, n \in Nat : IsLaidOut(content, shape, l, n)
  BY LaidOut
<1>2. /\ n = RowCount(content, shape) /\ commit.dims = shape /\ Len(commit.comm) = n
  BY <1>1 DEF IsLaidOut, HasRows
<1>3. shape.pre \in Nat /\ shape.enc \in Nat
  BY ShapesAreCodeLengths DEF CodeLength
<1>4. Vector(outer, n)
  BY <1>2, <1>3, LeftIsVector
<1>5. Vector(degree[1], n) /\ DOMAIN degree = {1}
  <2>1. degree[1] = LeftVector(x, n, 1)
    BY <1>2
  <2> QED
    BY <2>1, LeftIsVector
<1>6. \A i \in 1..SOUNDNESS : opened[i] \in 0..shape.enc - 1
  OBVIOUS
<1>7. \A i \in 1..SOUNDNESS :
        /\ VerifyColumnValue(OpenColumn(commit, opened[i]), outer, value(outer)[opened[i] + 1])
        /\ VerifyColumnValue(OpenColumn(commit, opened[i]), degree[1],
                             value(degree[1])[opened[i] + 1])
        /\ Len(OpenColumn(commit, opened[i]).col) = n
  BY <1>1, <1>4, <1>5, <1>6, OpenedColumnsAgree
<1>8. \A i \in 1..SOUNDNESS :
        VerifyColumnPath(OpenColumn(commit, opened[i]), opened[i], CommitRoot(commit))
  BY <1>6, OpenedVerifies
<1>9. Len(outer) = n /\ Len(inner) = shape.pre
  BY <1>3, <1>4, VectorElements DEF RightVector
<1>10. /\ Len(CollapseColumns(commit, outer)) = shape.pre
  BY <1>2, <1>3 DEF CollapseColumns
<1>11. shape = [pre |-> shape.pre, enc |-> shape.enc]
  BY ShapesAssumption
<1>12. SOUNDNESS \in Nat \ {0} /\ 1 \in 1..SOUNDNESS
  BY SoundnessAssumption
<1> HIDE DEF commit, outer, inner
<1>13. /\ proof.nCols = shape.enc
       /\ proof.pEval = CollapseColumns(commit, outer)
       /\ proof.pRandom = [t \in {1} |-> CollapseColumns(commit, degree[1])]
       /\ proof.columns = [i \in 1..SOUNDNESS |-> OpenColumn(commit, opened[i])]
       /\ challenge.opened = opened /\ challenge.degree = degree
  BY <1>2, <1>5 DEF Prove, RetrieveColumns
<1> HIDE DEF proof, challenge
<1> DEFINE random == [t \in DOMAIN proof.pRandom |-> EncodeTo(proof.pRandom[t], proof.nCols)]
<1>14. Len(proof.columns) = SOUNDNESS /\ DOMAIN proof.columns = 1..SOUNDNESS
  BY <1>12, <1>13
<1>15. random = [t \in {1} |-> value(degree[1])] /\ EncodeTo(proof.pEval, proof.nCols) = value(outer)
  BY <1>13
<1> HIDE DEF random, value
<1>16. \A i \in 1..SOUNDNESS :
         /\ \A t \in DOMAIN random :
              VerifyColumnValue(proof.columns[i], degree[t], random[t][opened[i] + 1])
         /\ VerifyColumnValue(proof.columns[i], outer, value(outer)[opened[i] + 1])
         /\ VerifyColumnPath(proof.columns[i], opened[i], CommitRoot(commit))
  BY <1>7, <1>8, <1>13, <1>15
<1>17. /\ Len(inner) = Len(proof.pEval) /\ Len(outer) = Len(proof.columns[1].col)
       /\ shape = [pre |-> Len(proof.pEval), enc |-> proof.nCols]
  BY <1>7, <1>9, <1>10, <1>11, <1>12, <1>13
<1>18. VerifyProof(shape, CommitRoot(commit), outer, inner, proof, challenge)
  BY <1>12, <1>13, <1>14, <1>15, <1>16, <1>17 DEF VerifyProof, random
<1> QED
  BY <1>18 DEF proof, challenge, commit, outer, inner

(* A root commits to the bytes of a file: two files of one length, laid    *)
(* out in the same shape, have the same root only if they are the same     *)
(* (commit, CommitRoot).  Encoding, layout and tree lose nothing.          *)
THEOREM RootCommitsToFile ==
  ASSUME NEW shape \in Shapes, NEW a \in Content, NEW b \in Content, Len(a) = Len(b),
         CommitRoot(CommitTo(FromByteVec(a), shape)) = CommitRoot(CommitTo(FromByteVec(b), shape))
  PROVE  a = b
<1>1. CommitTo(FromByteVec(a), shape).comm = CommitTo(FromByteVec(b), shape).comm
  BY RootIsMatrix
<1> QED
  BY <1>1, MatrixDeterminesFile

\* A proof that verifies against the root of a file is one of that file.
LEMMA ProofIsOfFile ==
  ASSUME NEW content \in Content, NEW shape \in Shapes, NEW other \in Content,
         Len(other) = Len(content), NEW challenge,
         challenge.opened \in [1..SOUNDNESS -> 0..shape.enc - 1],
         NEW outer, NEW inner, NEW tensor,
         VerifyProof(shape, CommitRoot(CommitTo(FromByteVec(content), shape)), outer, inner,
                     Prove(CommitTo(FromByteVec(other), shape), tensor, challenge), challenge)
  PROVE  other = content
<1> DEFINE opened == challenge.opened
           root == CommitRoot(CommitTo(FromByteVec(content), shape))
           proof == Prove(CommitTo(FromByteVec(other), shape), tensor, challenge)
<1>1. proof.columns = RetrieveColumns(CommitTo(FromByteVec(other), shape), opened)
  BY DEF Prove
<1>2. SOUNDNESS \in Nat \ {0}
  BY SoundnessAssumption
<1>3. DOMAIN proof.columns = 1..SOUNDNESS /\ DOMAIN opened = 1..SOUNDNESS
  BY <1>1 DEF RetrieveColumns
<1> HIDE DEF proof, root
<1>4. /\ Len(proof.columns) = SOUNDNESS
      /\ \A i \in DOMAIN proof.columns : VerifyColumnPath(proof.columns[i], opened[i], root)
  BY DEF VerifyProof, proof, root
<1> HIDE DEF opened
<1>5. VerifyColumnPaths(root, opened, proof.columns)
  <2>1. Len(opened) = SOUNDNESS
    BY <1>2 DEF opened
  <2> QED
    BY <1>3, <1>4, <2>1 DEF VerifyColumnPaths
<1>6. CommitTo(FromByteVec(other), shape).comm = CommitTo(FromByteVec(content), shape).comm
  <2>1. opened \in [1..SOUNDNESS -> 0..shape.enc - 1]
    BY DEF opened
  <2>2. VerifyColumnPaths(root, opened, RetrieveColumns(CommitTo(FromByteVec(other), shape), opened))
    BY <1>1, <1>5
  <2> QED
    BY <1>2, <2>1, <2>2, RetrievedVerify DEF root
<1> QED
  BY <1>6, MatrixDeterminesFile

\* What the two lemmas say of a proof is what the property says of every challenge.
LEMMA ProofsVerify ==
  ASSUME StreamInv
  PROVE  LibraryProofsVerify
<1> DEFINE elements == FromByteVec(data)
           commit == CommitTo(elements, dims)
           outer(x) == LeftVector(x, Len(commit.comm), dims.pre)
           inner(x) == RightVector(x, dims.pre)
           proof(x, other, challenge) ==
             Prove(CommitTo(FromByteVec(other), dims), outer(x), challenge)
           ok(x, other, challenge) ==
             VerifyProof(dims, CommitRoot(commit), outer(x), inner(x),
                         proof(x, other, challenge), challenge)
<1>1. data \in Content /\ dims \in Shapes
  BY DEF StreamInv
<1>2. ASSUME NEW x \in Points, NEW challenge \in Challenges, NEW other \in Versions(data)
      PROVE  /\ ok(x, other, challenge) = (other = data)
             /\ other = data =>
                  VectorMultiply(inner(x), proof(x, other, challenge).pEval)
                    = Evaluate(elements, x)
  <2>1. x \in Field
    BY PointsAssumption
  <2>2. PICK y \in Points, opened \in [1..SOUNDNESS -> 0..dims.enc - 1] :
          challenge = [degree |-> <<LeftVector(y, RowCount(data, dims), 1)>>, opened |-> opened]
    BY DEF Challenges
  <2>3. y \in Field
    BY PointsAssumption
  <2>4. ok(x, data, challenge)
    BY <1>1, <2>1, <2>2, <2>3, OwnProofVerifies
  <2>5. other \in Content /\ Len(other) = Len(data)
    BY <1>1, VersionsAreAsLong
  <2>6. ok(x, other, challenge) => other = data
    <3>1. challenge.opened \in [1..SOUNDNESS -> 0..dims.enc - 1]
      BY <2>2
    <3> QED
      BY <1>1, <2>5, <3>1, ProofIsOfFile
  <2>7. ok(x, other, challenge) \in BOOLEAN
    BY DEF VerifyProof
  <2>8. VectorMultiply(inner(x), proof(x, data, challenge).pEval) = Evaluate(elements, x)
    <3>1. PICK l, n \in Nat : IsLaidOut(data, dims, l, n)
      BY <1>1, LaidOut
    <3>2. /\ Vector(elements, l) /\ n = CeilDiv(l, dims.pre) /\ Len(commit.comm) = n
      BY <3>1 DEF IsLaidOut, HasRows
    <3>3. VectorMultiply(inner(x), CollapseColumns(commit, LeftVector(x, n, dims.pre)))
            = Evaluate(elements, x)
      BY <1>1, <2>1, <3>2, CollapsedEvaluates
    <3>4. proof(x, data, challenge).pEval = CollapseColumns(commit, LeftVector(x, n, dims.pre))
      BY <3>2 DEF Prove
    <3> QED
      BY <3>3, <3>4
  <2> HIDE DEF ok, proof
  <2> QED
    BY <2>4, <2>6, <2>7, <2>8
<1> QED
  BY <1>2 DEF LibraryProofsVerify

(* A proof of the library verifies against the root of the same file and   *)
(* of no other, whatever columns are drawn and whatever powers test its    *)
(* degree, and gives the value of the file's polynomial, for every field,  *)
(* shape and file (prove, verify).                                         *)
THEOREM ProofsOfFileVerify == Spec => []LibraryProofsVerify
<1>1. Init => StreamInv
  BY StreamInit
<1>2. StreamInv /\ [Next]_vars => StreamInv'
  BY StreamNext
<1>3. StreamInv => LibraryProofsVerify
  BY ProofsVerify
<1> QED
  BY <1>1, <1>2, <1>3, PTL DEF Spec
=============================================================================
