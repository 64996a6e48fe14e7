----------------------- MODULE EncodedLayout_proofs ------------------------
(***************************************************************************)
(* Lemmas about rows of bytes and about the encoded file as an array, for  *)
(* every file, shape and capacity of a field element.                      *)
(***************************************************************************)
EXTENDS EncodedLayout, SequenceTheorems, FiniteSetTheorems, TLAPS

-----------------------------------------------------------------------------
(* Arithmetic.                                                             *)

\* Multiples of a natural grow with the factor.
LEMMA MultiplesGrow ==
  ASSUME NEW m \in Int, NEW n \in Int, NEW b \in Nat, m <= n
  PROVE  m * b <= n * b
<1>1. (n - m) \in Nat
  OBVIOUS
<1>2. (n - m) * b >= 0
  BY <1>1
<1>3. (n - m) * b = n * b - m * b
  OBVIOUS
<1> QED
  BY <1>2, <1>3

\* One more multiple.
LEMMA NextMultiple ==
  ASSUME NEW n \in Int, NEW b \in Int
  PROVE  /\ n * b \in Int
         /\ (n + 1) * b = n * b + b
         /\ (n - 1) * b = n * b - b
  OBVIOUS

\* Every integer is a quotient and a remainder.
LEMMA Division ==
  ASSUME NEW a \in Int, NEW b \in Nat \ {0}
  PROVE  /\ a \div b \in Int
         /\ a % b \in 0..b - 1
         /\ a = (a \div b) * b + (a % b)
  OBVIOUS

\* A quotient and a remainder are what div and mod give.
LEMMA DivisionUnique ==
  ASSUME NEW b \in Nat \ {0}, NEW q \in Int, NEW r \in 0..b - 1
  PROVE  /\ (q * b + r) \div b = q
         /\ (q * b + r) % b = r
<1> DEFINE a == q * b + r
           d == a \div b
           m == a % b
<1>1. a \in Int /\ d \in Int /\ m \in 0..b - 1 /\ a = d * b + m
  BY Division
<1> HIDE DEF d, m
<1>2. q * b + r = d * b + m
  BY <1>1
<1>3. ASSUME d + 1 <= q PROVE FALSE
  <2>1. (d + 1) * b <= q * b
    BY <1>1, <1>3, MultiplesGrow
  <2>2. (d + 1) * b = d * b + b
    BY <1>1
  <2> QED
    BY <1>1, <1>2, <2>1, <2>2
<1>4. ASSUME q + 1 <= d PROVE FALSE
  <2>1. (q + 1) * b <= d * b
    BY <1>1, <1>4, MultiplesGrow
  <2>2. (q + 1) * b = q * b + b
    OBVIOUS
  <2> QED
    BY <1>1, <1>2, <2>1, <2>2
<1>5. q = d
  BY <1>1, <1>3, <1>4
<1>6. r = m
  BY <1>1, <1>2, <1>5
<1> QED
  BY <1>5, <1>6 DEF d, m

\* The k-th piece of b begins inside a exactly if it is one of the pieces.
LEMMA PiecesBegin ==
  ASSUME NEW a \in Nat, NEW b \in Nat \ {0}, NEW k \in Nat
  PROVE  /\ CeilDiv(a, b) \in Nat
         /\ k < CeilDiv(a, b) <=> k * b < a
<1> DEFINE c == (a + b - 1) \div b
           m == (a + b - 1) % b
<1>0. a + b - 1 \in Int
  OBVIOUS
<1>1. c \in Int /\ m \in 0..b - 1 /\ a + b - 1 = c * b + m
  BY <1>0, Division
<1>2. c = CeilDiv(a, b)
  BY DEF CeilDiv
<1> HIDE DEF c, m
<1>3. c \in Nat
  <2>1. ASSUME c + 1 <= 0 PROVE FALSE
    <3>1. (c + 1) * b <= 0 * b
      BY <1>1, <2>1, MultiplesGrow
    <3>2. (c + 1) * b = c * b + b
      BY <1>1
    <3> QED
      BY <1>1, <3>1, <3>2
  <2> QED
    BY <1>1, <2>1
<1>4. ASSUME k < c PROVE k * b < a
  <2>1. (k + 1) * b <= c * b
    BY <1>1, <1>4, MultiplesGrow
  <2>2. (k + 1) * b = k * b + b
    OBVIOUS
  <2> QED
    BY <1>1, <2>1, <2>2
<1>5. ASSUME c <= k PROVE a <= k * b
  <2>1. c * b <= k * b
    BY <1>1, <1>5, MultiplesGrow
  <2> QED
    BY <1>1, <2>1
<1>6. k * b \in Int
  OBVIOUS
<1> QED
  BY <1>2, <1>3, <1>4, <1>5, <1>6

\* The rows of a content: row k is one of them if it begins inside.
LEMMA RowsBegin ==
  ASSUME NEW data \in Content, NEW shape \in Shapes
  PROVE  /\ RowBytes(shape) \in Nat \ {0}
         /\ RowCount(data, shape) \in Nat
         /\ \A k \in Nat : k < RowCount(data, shape) <=> k * RowBytes(shape) < Len(data)
<1>1. Len(data) \in Nat
  BY DEF Content
<1>2. shape.pre \in Nat \ {0} /\ BYTE_CAPACITY \in Nat \ {0}
  BY ShapesAssumption, CapacityAssumption
<1>3. RowBytes(shape) \in Nat \ {0}
  BY <1>2 DEF RowBytes
<1>4. FieldLen(data) \in Nat
  BY <1>1, <1>2, PiecesBegin DEF FieldLen
<1>5. RowCount(data, shape) \in Nat
  BY <1>2, <1>4, PiecesBegin DEF RowCount
<1>6. ASSUME NEW k \in Nat
      PROVE  k < RowCount(data, shape) <=> k * RowBytes(shape) < Len(data)
  <2>1. k < RowCount(data, shape) <=> k * shape.pre < FieldLen(data)
    BY <1>2, <1>4, PiecesBegin DEF RowCount
  <2>2. k * shape.pre \in Nat
    BY <1>2
  <2>3. k * shape.pre < FieldLen(data) <=> (k * shape.pre) * BYTE_CAPACITY < Len(data)
    BY <1>1, <1>2, <2>2, PiecesBegin DEF FieldLen
  <2>4. (k * shape.pre) * BYTE_CAPACITY = k * RowBytes(shape)
    BY <1>2 DEF RowBytes
  <2> QED
    BY <2>1, <2>3, <2>4
<1> QED
  BY <1>3, <1>5, <1>6

-----------------------------------------------------------------------------
(* The rows of a file.                                                     *)

\* What SubSeq takes from the middle of a sequence.
LEMMA Middle ==
  ASSUME NEW S, NEW seq \in Seq(S), NEW m \in Nat, NEW n \in Nat, n <= Len(seq)
  PROVE  /\ SubSeq(seq, m + 1, n) \in Seq(S)
         /\ Len(SubSeq(seq, m + 1, n)) = IF m <= n THEN n - m ELSE 0
         /\ \A i \in 1..n - m : SubSeq(seq, m + 1, n)[i] = seq[m + i]
<1>1. \A i \in m + 1..n : seq[i] \in S
  BY ElementOfSeq, LenProperties
<1>2. m + 1 \in Int /\ n \in Int
  OBVIOUS
<1>3. /\ SubSeq(seq, m + 1, n) \in Seq(S)
      /\ Len(SubSeq(seq, m + 1, n)) = IF m + 1 <= n THEN n - (m + 1) + 1 ELSE 0
      /\ \A i \in 1..n - (m + 1) + 1 : SubSeq(seq, m + 1, n)[i] = seq[m + 1 + i - 1]
  BY <1>1, <1>2, SubSeqProperties
<1> DEFINE t == SubSeq(seq, m + 1, n)
<1> HIDE DEF t
<1>4. /\ t \in Seq(S)
      /\ Len(t) = IF m + 1 <= n THEN n - (m + 1) + 1 ELSE 0
      /\ \A i \in 1..n - (m + 1) + 1 : t[i] = seq[m + 1 + i - 1]
  BY <1>3 DEF t
<1>5. n - (m + 1) + 1 = n - m /\ (m + 1 <= n <=> m < n)
  OBVIOUS
<1>6. \A i \in 1..n - m : m + 1 + i - 1 = m + i
  OBVIOUS
<1>7. /\ Len(t) = IF m <= n THEN n - m ELSE 0
      /\ \A i \in 1..n - m : t[i] = seq[m + i]
  BY <1>4, <1>5, <1>6
<1> QED
  BY <1>4, <1>7 DEF t

\* The middle of a middle.
LEMMA MiddleOfMiddle ==
  ASSUME NEW S, NEW seq \in Seq(S), NEW m \in Nat, NEW n \in Nat, m <= n, n <= Len(seq),
         NEW j \in Nat, NEW k \in Nat, k <= n - m
  PROVE  SubSeq(SubSeq(seq, m + 1, n), j + 1, k) = SubSeq(seq, m + j + 1, m + k)
<1> DEFINE mid == SubSeq(seq, m + 1, n)
           one == SubSeq(mid, j + 1, k)
           two == SubSeq(seq, m + j + 1, m + k)
<1>1. mid \in Seq(S) /\ Len(mid) = n - m /\ \A i \in 1..n - m : mid[i] = seq[m + i]
  BY Middle
<1> HIDE DEF mid
<1>2. /\ one \in Seq(S)
      /\ Len(one) = IF j <= k THEN k - j ELSE 0
      /\ \A i \in 1..k - j : one[i] = mid[j + i]
  BY <1>1, Middle
<1>3. m + j \in Nat /\ m + k \in Nat /\ m + k <= Len(seq)
  BY LenProperties
<1>4. /\ two \in Seq(S)
      /\ Len(two) = IF m + j <= m + k THEN (m + k) - (m + j) ELSE 0
      /\ \A i \in 1..(m + k) - (m + j) : two[i] = seq[m + j + i]
  BY <1>3, Middle
<1> HIDE DEF one, two
<1>5. Len(one) = Len(two)
  BY <1>2, <1>4
<1>6. \A i \in 1..Len(one) : one[i] = two[i]
  <2> TAKE i \in 1..Len(one)
  <2>1. j <= k /\ i \in 1..k - j /\ j + i \in 1..n - m
    BY <1>2
  <2>2. one[i] = mid[j + i] /\ mid[j + i] = seq[m + (j + i)] /\ two[i] = seq[m + j + i]
    BY <1>1, <1>2, <1>4, <2>1
  <2> QED
    BY <2>1, <2>2
<1>7. one = two
  BY <1>2, <1>4, <1>5, <1>6, SeqEqual
<1> QED
  BY <1>7 DEF one, two, mid

\* A row of a content is a sequence of bytes.
LEMMA RowIsBytes ==
  ASSUME NEW data \in Content, NEW shape \in Shapes, NEW r \in Nat
  PROVE  RowOf(data, shape, r) \in Seq(Bytes)
<1> DEFINE w == RowBytes(shape)
<1>1. data \in Seq(Bytes) /\ Len(data) \in Nat
  BY LenProperties DEF Content
<1>2. w \in Nat
  BY RowsBegin
<1> HIDE DEF w
<1>3. r * w \in Nat /\ (r + 1) * w \in Nat
  BY <1>2
<1>4. Lesser((r + 1) * w, Len(data)) \in Nat /\ Lesser((r + 1) * w, Len(data)) <= Len(data)
  BY <1>1, <1>3 DEF Lesser
<1>5. SubSeq(data, r * w + 1, Lesser((r + 1) * w, Len(data))) \in Seq(Bytes)
  BY <1>1, <1>3, <1>4, Middle
<1> QED
  BY <1>5 DEF RowOf, w

-----------------------------------------------------------------------------
(* The encoded file.                                                       *)

\* A file of size cap * enc with the first n of some rows.
FileOf(n, all, cap, enc) ==
  [i \in 0..(cap * enc) - 1 |->
     IF i % cap < n THEN Element(all[(i % cap) + 1], i \div cap, enc) ELSE Zero]

\* Rows behind the rows of a file that has room for them are written where
\* they belong, and nothing else changes: all is a sequence that holds both.
LEMMA WriteBehind ==
  ASSUME NEW cap \in Nat \ {0}, NEW enc \in Nat \ {0}, NEW first \in Nat,
         NEW S, NEW all \in Seq(S), first < Len(all), Len(all) <= cap
  PROVE  WriteRows(FileOf(first, all, cap, enc), cap, enc, first, SubSeq(all, first + 1, Len(all)))
           = FileOf(Len(all), all, cap, enc)
<1> DEFINE store == FileOf(first, all, cap, enc)
           new == SubSeq(all, first + 1, Len(all))
           n == Len(all) - first
           size == cap * enc
           end == (enc - 1) * cap + first + Len(new)
           written(i) == /\ i >= first
                         /\ (i - first) % cap < Len(new)
                         /\ (i - first) \div cap < enc
           grown == SetLen(store, IF end > Length(store) THEN end ELSE Length(store))
<1>0. /\ store = [i \in 0..size - 1 |->
                   IF i % cap < first THEN Element(all[(i % cap) + 1], i \div cap, enc) ELSE Zero]
      /\ FileOf(Len(all), all, cap, enc)
           = [i \in 0..size - 1 |->
                IF i % cap < Len(all) THEN Element(all[(i % cap) + 1], i \div cap, enc) ELSE Zero]
  BY DEF FileOf
<1>1. Len(all) \in Nat /\ n \in Nat \ {0} /\ first + n <= cap
  BY LenProperties
<1>2. Len(new) = n /\ \A i \in 1..n : new[i] = all[first + i]
  <2>1. /\ Len(new) = IF first <= Len(all) THEN Len(all) - first ELSE 0
        /\ \A i \in 1..Len(all) - first : new[i] = all[first + i]
    BY <1>1, Middle
  <2> QED
    BY <1>1, <2>1
<1>3. size \in Nat /\ (enc - 1) * cap \in Int /\ (enc - 1) * cap + cap = size
  BY NextMultiple
<1>4. DOMAIN store = 0..size - 1
  BY <1>0
<1> HIDE DEF new, size, store
<1>5. Length(store) = size
  <2>1. 0 \in Int /\ size - 1 \in Int
    BY <1>3
  <2>2. Cardinality(0..size - 1) = IF 0 > size - 1 THEN 0 ELSE (size - 1) - 0 + 1
    BY <2>1, FS_Interval
  <2> QED
    BY <1>3, <1>4, <2>2 DEF Length
<1>6. end \in Int /\ end <= size
  BY <1>1, <1>2, <1>3
<1> HIDE DEF end
<1>7. DOMAIN grown = 0..size - 1
  <2>1. (IF end > Length(store) THEN end ELSE Length(store)) = size
    BY <1>3, <1>5, <1>6
  <2>2. grown = SetLen(store, size)
    BY <2>1
  <2> QED
    BY <2>2 DEF SetLen
<1>8. WriteRows(store, cap, enc, first, new)
        = [i \in 0..size - 1 |->
             IF written(i) THEN Element(new[((i - first) % cap) + 1], (i - first) \div cap, enc)
             ELSE IF i \in DOMAIN store THEN store[i] ELSE Zero]
  BY <1>7 DEF WriteRows, end
<1>9. ASSUME NEW i \in 0..size - 1
      PROVE  (IF written(i) THEN Element(new[((i - first) % cap) + 1], (i - first) \div cap, enc)
              ELSE IF i \in DOMAIN store THEN store[i] ELSE Zero)
             = IF i % cap < Len(all) THEN Element(all[(i % cap) + 1], i \div cap, enc) ELSE Zero
  <2> DEFINE q == i \div cap
             r == i % cap
  <2>1. i \in Nat /\ i <= size - 1
    BY <1>3
  <2>2. i \in Int /\ q \in Int /\ r \in 0..cap - 1 /\ i = q * cap + r
    <3>1. i \in Int
      BY <2>1
    <3> QED
      BY <3>1, Division, Zenon
  <2>3. store[i] = IF r < first THEN Element(all[r + 1], q, enc) ELSE Zero
    BY <1>0
  <2> HIDE DEF q, r
  <2>4. q \in Nat
    <3>1. ASSUME q + 1 <= 0 PROVE FALSE
      <4>1. (q + 1) * cap <= 0 * cap
        BY <2>2, <3>1, MultiplesGrow
      <4>2. (q + 1) * cap = q * cap + cap /\ q * cap \in Int
        BY <2>2, NextMultiple
      <4> QED
        BY <2>1, <2>2, <4>1, <4>2
    <3> QED
      BY <2>2, <3>1
  <2>5. q < enc
    <3>1. ASSUME enc <= q PROVE FALSE
      <4>1. enc * cap <= q * cap
        BY <2>2, <3>1, MultiplesGrow
      <4>2. enc * cap = size /\ q * cap \in Int
        BY <2>2 DEF size
      <4> QED
        BY <1>3, <2>1, <2>2, <4>1, <4>2
    <3> QED
      BY <2>2, <3>1
  <2>6. CASE r >= first
    <3>0. q * cap \in Nat
      BY <2>4
    <3>1. r - first \in 0..cap - 1 /\ i - first = q * cap + (r - first) /\ i >= first
      BY <2>2, <2>6, <3>0
    <3>2. (i - first) \div cap = q /\ (i - first) % cap = r - first
      <4>1. (q * cap + (r - first)) \div cap = q /\ (q * cap + (r - first)) % cap = r - first
        BY <3>1, <2>2, DivisionUnique
      <4> QED
        BY <3>1, <4>1
    <3>3. written(i) <=> r < Len(all)
      BY <1>1, <1>2, <2>2, <2>5, <3>1, <3>2
    <3>4. r < Len(all) => new[(r - first) + 1] = all[r + 1]
      <4> SUFFICES ASSUME r < Len(all) PROVE new[(r - first) + 1] = all[r + 1]
        OBVIOUS
      <4>1. (r - first) + 1 \in 1..n /\ first + ((r - first) + 1) = r + 1
        BY <1>1, <2>2, <2>6
      <4> QED
        BY <1>2, <4>1
    <3>5. store[i] = Zero
      BY <2>2, <2>3, <2>6
    <3> QED
      BY <1>4, <3>2, <3>3, <3>4, <3>5 DEF q, r
  <2>7. CASE r < first
    <3>1. ~written(i)
      <4>1. CASE q = 0
        BY <2>2, <2>7, <4>1
      <4>2. CASE q # 0
        <5>1. q - 1 \in Int /\ (q - 1) * cap = q * cap - cap
          BY <2>2, NextMultiple
        <5>2. (r - first) + cap \in 0..cap - 1
          BY <1>1, <2>2, <2>7
        <5>3. i - first = (q - 1) * cap + ((r - first) + cap)
          BY <2>2, <5>1, NextMultiple
        <5>4. (i - first) % cap = (r - first) + cap
          <6>1. ((q - 1) * cap + ((r - first) + cap)) % cap = (r - first) + cap
            BY <5>1, <5>2, DivisionUnique
          <6> QED
            BY <5>3, <6>1
        <5> QED
          BY <1>1, <1>2, <2>2, <5>4
      <4> QED
        BY <4>1, <4>2
    <3>2. r < Len(all)
      BY <1>1, <2>2, <2>7
    <3> QED
      BY <1>4, <2>3, <2>7, <3>1, <3>2 DEF q, r
  <2> QED
    BY <2>2, <2>6, <2>7
<1> QED
  BY <1>0, <1>8, <1>9 DEF new, store

-----------------------------------------------------------------------------
(* Positions of the array.                                                 *)

\* A file with room for cap rows of enc columns.
Sized(file, cap, enc) == DOMAIN file = 0..(cap * enc) - 1

\* Row r of the data is where it belongs.
RowAt(file, cap, data, dims, r) ==
  \A c \in 0..dims.enc - 1 : file[c * cap + r] = Element(RowOf(data, dims, r), c, dims.enc)

LEMMA LengthOfFile ==
  ASSUME NEW n \in Nat, NEW file, DOMAIN file = 0..n - 1
  PROVE  Length(file) = n
<1>1. Cardinality(0..n - 1) = IF 0 > n - 1 THEN 0 ELSE (n - 1) - 0 + 1
  BY FS_Interval
<1> QED
  BY <1>1 DEF Length

\* Where an element is, and whose position it is.
LEMMA Position ==
  ASSUME NEW cap \in Nat, NEW enc \in Nat, NEW c \in 0..enc - 1, NEW r \in 0..cap - 1
  PROVE  /\ cap \in Nat \ {0} /\ enc \in Nat \ {0}
         /\ c * cap + r \in 0..(cap * enc) - 1
         /\ (c * cap + r) \div cap = c
         /\ (c * cap + r) % cap = r
<1>1. cap \in Nat \ {0} /\ enc \in Nat \ {0} /\ c \in Int /\ c + 1 <= enc
  OBVIOUS
<1>2. (c * cap + r) \div cap = c /\ (c * cap + r) % cap = r
  BY <1>1, DivisionUnique
<1>3. (c + 1) * cap <= enc * cap
  BY <1>1, MultiplesGrow
<1>4. (c + 1) * cap = c * cap + cap /\ c * cap \in Nat /\ enc * cap = cap * enc /\ cap * enc \in Nat
  OBVIOUS
<1>5. c * cap + r \in 0..(cap * enc) - 1
  BY <1>3, <1>4
<1> QED
  BY <1>1, <1>2, <1>5

\* One row is written in its place, and no other row changes.
OnlyWritten(new, file, cap, enc, row, bytes) ==
  /\ Sized(new, cap, enc)
  /\ \A c \in 0..enc - 1 : new[c * cap + row] = Element(bytes, c, enc)
  /\ \A c \in 0..enc - 1, r \in 0..cap - 1 : r # row => new[c * cap + r] = file[c * cap + r]

LEMMA WriteOneRow ==
  ASSUME NEW cap \in Nat, NEW enc \in Nat \ {0}, NEW row \in 0..cap - 1,
         NEW file, Sized(file, cap, enc), NEW bytes
  PROVE  OnlyWritten(WriteRows(file, cap, enc, row, <<bytes>>), file, cap, enc, row, bytes)
<1> DEFINE size == cap * enc
           end == (enc - 1) * cap + row + Len(<<bytes>>)
           written(i) == /\ i >= row
                         /\ (i - row) % cap < Len(<<bytes>>)
                         /\ (i - row) \div cap < enc
           grown == SetLen(file, IF end > Length(file) THEN end ELSE Length(file))
           new == WriteRows(file, cap, enc, row, <<bytes>>)
<1>1. Len(<<bytes>>) = 1 /\ cap \in Nat \ {0}
  OBVIOUS
<1>2. size \in Nat /\ (enc - 1) * cap \in Int /\ (enc - 1) * cap + cap = size
  BY NextMultiple
<1>3. DOMAIN file = 0..size - 1
  BY DEF Sized
<1>15. new = [i \in DOMAIN grown |->
                 IF written(i)
                   THEN Element(<<bytes>>[((i - row) % cap) + 1], (i - row) \div cap, enc)
                   ELSE IF i \in DOMAIN file THEN file[i] ELSE Zero]
  BY DEF WriteRows
<1> HIDE DEF size, new
<1>4. Length(file) = size
  BY <1>2, <1>3, LengthOfFile
<1>5. end \in Int /\ end <= size
  BY <1>1, <1>2
<1> HIDE DEF end
<1>6. DOMAIN grown = 0..size - 1
  <2>1. (IF end > Length(file) THEN end ELSE Length(file)) = size
    BY <1>2, <1>4, <1>5
  <2>2. grown = SetLen(file, size)
    BY <2>1
  <2> QED
    BY <2>2 DEF SetLen
<1> HIDE DEF grown
<1>7. new = [i \in 0..size - 1 |->
               IF written(i)
                 THEN Element(<<bytes>>[((i - row) % cap) + 1], (i - row) \div cap, enc)
                 ELSE IF i \in DOMAIN file THEN file[i] ELSE Zero]
  BY <1>15, <1>6
<1>8. ASSUME NEW c \in 0..enc - 1
      PROVE  new[c * cap + row] = Element(bytes, c, enc)
  <2> DEFINE i == c * cap + row
  <2>1. i \in 0..size - 1
    BY Position DEF size
  <2>2. c * cap \in Nat
    OBVIOUS
  <2>3. i >= row /\ i - row = c * cap + 0
    BY <2>2
  <2>4. (c * cap + 0) \div cap = c /\ (c * cap + 0) % cap = 0
    BY <1>1, DivisionUnique
  <2>5. (i - row) \div cap = c /\ (i - row) % cap = 0
    BY <2>3, <2>4
  <2> HIDE DEF i
  <2>6. written(i)
    BY <1>1, <2>3, <2>5
  <2>7. new[i] = Element(<<bytes>>[1], c, enc)
    BY <1>7, <2>1, <2>5, <2>6
  <2> QED
    BY <2>7 DEF i
<1>9. ASSUME NEW c \in 0..enc - 1, NEW r \in 0..cap - 1, r # row
      PROVE  new[c * cap + r] = file[c * cap + r]
  <2> DEFINE i == c * cap + r
  <2>1. i \in 0..size - 1
    BY Position DEF size
  <2>2. c * cap \in Nat
    OBVIOUS
  <2>3. ~written(i)
    <3>1. CASE r > row
      <4>1. i - row = c * cap + (r - row) /\ r - row \in 0..cap - 1 /\ c \in Int
        BY <2>2, <3>1
      <4>2. (c * cap + (r - row)) % cap = r - row
        BY <1>1, <4>1, DivisionUnique
      <4>3. (i - row) % cap = r - row
        BY <4>1, <4>2
      <4> HIDE DEF i
      <4> QED
        BY <1>1, <3>1, <4>3
    <3>2. CASE r < row /\ c = 0
      <4>1. i = r
        BY <3>2
      <4> QED
        BY <3>2, <4>1
    <3>3. CASE r < row /\ c # 0
      <4>1. /\ c - 1 \in Int /\ (c - 1) * cap = c * cap - cap
            /\ (r - row) + cap \in 0..cap - 1
        BY <1>1, <3>3, NextMultiple
      <4>2. i - row = (c - 1) * cap + ((r - row) + cap)
        BY <2>2, <4>1
      <4>3. ((c - 1) * cap + ((r - row) + cap)) % cap = (r - row) + cap
        BY <1>1, <4>1, DivisionUnique
      <4>4. (i - row) % cap = (r - row) + cap
        BY <4>2, <4>3
      <4>5. (r - row) + cap >= 1
        BY <1>1
      <4> HIDE DEF i
      <4> QED
        BY <1>1, <4>1, <4>4, <4>5
    <3> QED
      BY <1>9, <3>1, <3>2, <3>3
  <2> HIDE DEF i
  <2>4. new[i] = file[i]
    BY <1>3, <1>7, <2>1, <2>3
  <2> QED
    BY <2>4 DEF i
<1>10. DOMAIN new = 0..size - 1
  BY <1>7
<1> QED
  BY <1>8, <1>9, <1>10 DEF OnlyWritten, Sized, size, new

\* A file that is made longer keeps what it has.
LEMMA LongerFile ==
  ASSUME NEW n \in Nat, NEW m \in Nat, n <= m, NEW file, DOMAIN file = 0..n - 1
  PROVE  /\ DOMAIN SetLen(file, m) = 0..m - 1
         /\ \A i \in 0..n - 1 : SetLen(file, m)[i] = file[i]
<1>1. SetLen(file, m) = [i \in 0..m - 1 |-> IF i \in DOMAIN file THEN file[i] ELSE Zero]
  BY DEF SetLen
<1>2. \A i \in 0..n - 1 : i \in 0..m - 1
  OBVIOUS
<1> QED
  BY <1>1, <1>2

\* Column k is moved, and neither the columns that were moved before it nor
\* those that are still where they were are changed.
OnlyMoved(moved, file, old, new, enc, k) ==
  /\ Sized(moved, new, enc)
  /\ \A r \in 0..old - 1 :
       /\ moved[k * new + r] = file[k * old + r]
       /\ \A c \in 0..enc - 1 :
            /\ c < k => moved[c * old + r] = file[c * old + r]
            /\ c > k => moved[c * new + r] = file[c * new + r]

LEMMA MoveColumnMoves ==
  ASSUME NEW old \in Nat, NEW new \in Nat, old < new, NEW enc \in Nat \ {0},
         NEW k \in 0..enc - 1, NEW file, Sized(file, new, enc)
  PROVE  OnlyMoved(MoveColumn(file, old, new, k), file, old, new, enc, k)
<1> DEFINE moved == MoveColumn(file, old, new, k)
           size == new * enc
<1>0. new \in Nat \ {0} /\ size \in Nat /\ DOMAIN file = 0..size - 1
  BY DEF Sized
<1> HIDE DEF size
<1>1. moved = [i \in 0..size - 1 |->
                 IF i \div new # k THEN file[i]
                 ELSE IF i % new < old THEN file[k * old + (i % new)] ELSE Zero]
  BY <1>0 DEF MoveColumn
<1> HIDE DEF moved
<1>2. DOMAIN moved = 0..size - 1
  BY <1>1
<1>3. ASSUME NEW r \in 0..old - 1
      PROVE  moved[k * new + r] = file[k * old + r]
  <2> DEFINE i == k * new + r
  <2>1. r \in 0..new - 1
    OBVIOUS
  <2>2. i \in 0..size - 1 /\ i \div new = k /\ i % new = r
    BY <2>1, Position DEF size
  <2> HIDE DEF i
  <2>3. moved[i] = file[k * old + (i % new)]
    <3>1. i % new < old
      BY <2>2
    <3>2. k * old + (i % new) \in Int
      BY <2>2
    <3> QED
      BY <1>1, <2>2, <3>1
  <2>4. moved[i] = file[k * old + r]
    BY <2>2, <2>3
  <2> QED
    BY <2>4 DEF i
<1>4. ASSUME NEW r \in 0..old - 1, NEW c \in 0..enc - 1, c < k
      PROVE  moved[c * old + r] = file[c * old + r]
  <2> DEFINE i == c * old + r
             q == i \div new
  <2>1. i \in Nat /\ i < k * old
    <3>1. (c + 1) * old <= k * old
      BY <1>4, MultiplesGrow
    <3>2. (c + 1) * old = c * old + old /\ c * old \in Nat /\ k * old \in Nat
      OBVIOUS
    <3> QED
      BY <3>1, <3>2
  <2>2. k * old <= k * new /\ k * new <= (enc - 1) * new /\ (enc - 1) * new <= enc * new
    <3>1. old * k <= new * k
      BY MultiplesGrow
    <3>2. k * new <= (enc - 1) * new /\ (enc - 1) * new <= enc * new
      BY MultiplesGrow
    <3> QED
      BY <3>1, <3>2
  <2>3. k * old \in Nat /\ k * new \in Nat /\ enc * new = size /\ (enc - 1) * new \in Nat
    BY DEF size
  <2>4. i \in 0..size - 1
    BY <1>0, <2>1, <2>2, <2>3
  <2> HIDE DEF i
  <2>5. q # k
    <3>0. i \in Int
      BY <2>1
    <3>1. q \in Int /\ i % new \in 0..new - 1 /\ i = q * new + (i % new)
      BY <1>0, <3>0, Division, Zenon
    <3> HIDE DEF q
    <3>2. ASSUME q = k PROVE FALSE
      <4>1. i >= k * new
        BY <2>1, <2>3, <3>1, <3>2
      <4> QED
        BY <2>1, <2>2, <2>3, <4>1
    <3> QED
      BY <3>2
  <2> HIDE DEF i
  <2>6. moved[i] = file[i]
    BY <1>1, <2>4, <2>5
  <2> QED
    BY <2>6 DEF i
<1>5. ASSUME NEW r \in 0..old - 1, NEW c \in 0..enc - 1, c > k
      PROVE  moved[c * new + r] = file[c * new + r]
  <2> DEFINE i == c * new + r
  <2>1. r \in 0..new - 1
    OBVIOUS
  <2>2. i \in 0..size - 1 /\ i \div new = c
    BY <2>1, Position DEF size
  <2> HIDE DEF i
  <2>3. moved[i] = file[i]
    BY <1>1, <1>5, <2>2
  <2> QED
    BY <2>3 DEF i
<1> QED
  BY <1>2, <1>3, <1>4, <1>5 DEF OnlyMoved, Sized, moved, size

-----------------------------------------------------------------------------
(* Rows of a file, and their encoding.                                     *)

\* The rows a handler counts are the rows that are encoded.
LEMMA RowsCounted ==
  ASSUME NEW data \in Content, NEW dims \in Shapes
  PROVE  CeilDiv(Len(data), RowBytes(dims)) = RowCount(data, dims)
<1> DEFINE n == RowCount(data, dims)
           m == CeilDiv(Len(data), RowBytes(dims))
<1>1. Len(data) \in Nat
  BY DEF Content
<1>2. /\ RowBytes(dims) \in Nat \ {0} /\ n \in Nat
      /\ \A k \in Nat : k < n <=> k * RowBytes(dims) < Len(data)
  BY RowsBegin
<1>3. m \in Nat /\ \A k \in Nat : k < m <=> k * RowBytes(dims) < Len(data)
  BY <1>1, <1>2, PiecesBegin
<1> HIDE DEF n, m
<1>4. \A k \in Nat : k < n <=> k < m
  BY <1>2, <1>3
<1>5. ~(n < n) /\ ~(m < m)
  BY <1>2, <1>3
<1>6. ~(n < m) /\ ~(m < n)
  BY <1>2, <1>3, <1>4, <1>5
<1>7. n = m
  BY <1>2, <1>3, <1>6
<1> QED
  BY <1>7 DEF n, m

\* Files that agree on the bytes of a row have the same row there.
LEMMA SameRow ==
  ASSUME NEW data \in Content, NEW other \in Content, NEW dims \in Shapes, NEW r \in Nat,
         Lesser((r + 1) * RowBytes(dims), Len(data)) = Lesser((r + 1) * RowBytes(dims), Len(other)),
         \A i \in 1..Len(data) :
           r * RowBytes(dims) < i /\ i <= (r + 1) * RowBytes(dims) => data[i] = other[i]
  PROVE  RowOf(data, dims, r) = RowOf(other, dims, r)
<1> DEFINE w == RowBytes(dims)
           m == r * w
           e == (r + 1) * w
           n == Lesser(e, Len(data))
           one == SubSeq(data, m + 1, n)
           two == SubSeq(other, m + 1, n)
<1>1. data \in Seq(Bytes) /\ other \in Seq(Bytes) /\ Len(data) \in Nat /\ Len(other) \in Nat
  BY DEF Content
<1>2. w \in Nat
  BY RowsBegin
<1>3. RowOf(data, dims, r) = one /\ RowOf(other, dims, r) = two
  BY DEF RowOf
<1>4. Lesser(e, Len(other)) = n /\ \A i \in 1..Len(data) : m < i /\ i <= e => data[i] = other[i]
  OBVIOUS
<1> HIDE DEF w
<1>5. m \in Nat /\ e \in Nat
  BY <1>2
<1> HIDE DEF m, e
<1>6. n \in Nat /\ n <= Len(data) /\ n <= Len(other) /\ n <= e
  BY <1>1, <1>4, <1>5 DEF Lesser
<1> HIDE DEF n
<1>7. /\ one \in Seq(Bytes) /\ Len(one) = (IF m <= n THEN n - m ELSE 0)
      /\ \A i \in 1..n - m : one[i] = data[m + i]
  BY <1>1, <1>5, <1>6, Middle
<1>8. /\ two \in Seq(Bytes) /\ Len(two) = (IF m <= n THEN n - m ELSE 0)
      /\ \A i \in 1..n - m : two[i] = other[m + i]
  BY <1>1, <1>5, <1>6, Middle
<1> HIDE DEF one, two
<1>9. ASSUME NEW i \in 1..Len(one) PROVE one[i] = two[i]
  <2>1. i \in 1..n - m /\ m + i \in 1..Len(data) /\ m < m + i /\ m + i <= e
    BY <1>1, <1>5, <1>6, <1>7
  <2>2. data[m + i] = other[m + i]
    BY <1>4, <2>1
  <2> QED
    BY <1>7, <1>8, <2>1, <2>2
<1>10. one = two
  BY <1>7, <1>8, <1>9, SeqEqual
<1> QED
  BY <1>3, <1>10

\* A conversion that writes all rows leaves them where they belong.
LEMMA ConversionHolds ==
  ASSUME NEW data \in Content, NEW dims \in Shapes,
         FlushedRows(data, dims) = RowCount(data, dims)
  PROVE  /\ Sized(EncodedFile(data, dims), RowCapacity(RowCount(data, dims)), dims.enc)
         /\ \A r \in 0..RowCount(data, dims) - 1 :
              RowAt(EncodedFile(data, dims), RowCapacity(RowCount(data, dims)), data, dims, r)
<1> DEFINE rows == RowCount(data, dims)
           cap == RowCapacity(rows)
           enc == dims.enc
           all == [r \in 1..rows |-> RowOf(data, dims, r - 1)]
           file == EncodedFile(data, dims)
           size == cap * enc
<1>1. rows \in Nat /\ enc \in Nat \ {0}
  BY RowsBegin, ShapesAssumption
<1>2. file = WriteRows(Blank(size), cap, enc, 0, all)
  BY DEF EncodedFile
<1>3. cap = rows * 2
  BY DEF RowCapacity
<1> HIDE DEF rows, cap, file
<1>4. ASSUME NEW r \in 1..rows PROVE RowOf(data, dims, r - 1) \in Seq(Bytes)
  <2>1. r - 1 \in Nat
    BY <1>1
  <2> QED
    BY <2>1, RowIsBytes
<1>5. all \in Seq(Seq(Bytes)) /\ Len(all) = rows
  BY <1>1, <1>4
<1>6. CASE rows = 0
  <2>1. cap = 0 /\ size = 0 /\ (enc - 1) * cap + 0 + Len(all) = 0
    BY <1>1, <1>3, <1>5, <1>6
  <2>2. DOMAIN Blank(size) = 0..0 - 1
    BY <2>1 DEF Blank
  <2>3. Length(Blank(size)) = 0
    BY <2>2, LengthOfFile
  <2>4. DOMAIN file = 0..0 - 1
    BY <1>2, <2>1, <2>3 DEF WriteRows, SetLen
  <2> QED
    BY <1>1, <1>6, <2>1, <2>4 DEF Sized, rows, cap, file
<1>7. CASE rows # 0
  <2>1. cap \in Nat \ {0} /\ 0 < Len(all) /\ Len(all) <= cap
    BY <1>1, <1>3, <1>5, <1>7
  <2>2. WriteRows(FileOf(0, all, cap, enc), cap, enc, 0, SubSeq(all, 0 + 1, Len(all)))
          = FileOf(Len(all), all, cap, enc)
    BY <1>1, <1>5, <2>1, WriteBehind
  <2> HIDE DEF all
  <2>3. SubSeq(all, 0 + 1, Len(all)) = all
    BY <1>5
  <2>4. FileOf(0, all, cap, enc) = Blank(size)
    <3>1. size \in Nat
      BY <1>1, <2>1
    <3>2. \A i \in 0..size - 1 : ~(i % cap < 0)
      BY <2>1, <3>1
    <3> QED
      BY <3>2 DEF FileOf, Blank
  <2>5. file = FileOf(rows, all, cap, enc)
    BY <1>2, <1>5, <2>2, <2>3, <2>4
  <2>6. file = [i \in 0..size - 1 |->
                  IF i % cap < rows THEN Element(all[(i % cap) + 1], i \div cap, enc) ELSE Zero]
    BY <2>5 DEF FileOf
  <2>7. ASSUME NEW r \in 0..rows - 1, NEW c \in 0..enc - 1
        PROVE  file[c * cap + r] = Element(RowOf(data, dims, r), c, enc)
    <3> DEFINE i == c * cap + r
    <3>1. r \in 0..cap - 1 /\ r + 1 \in 1..rows /\ r + 1 - 1 = r
      BY <1>1, <1>3
    <3>2. i \in 0..size - 1 /\ i \div cap = c /\ i % cap = r
      <4>1. cap \in Nat /\ enc \in Nat
        BY <1>1, <2>1
      <4>2. c \in 0..enc - 1 /\ r \in 0..cap - 1
        BY <3>1
      <4> HIDE DEF enc
      <4>3. /\ c * cap + r \in 0..(cap * enc) - 1
            /\ (c * cap + r) \div cap = c
            /\ (c * cap + r) % cap = r
        BY <4>1, <4>2, Position
      <4> QED
        BY <4>3
    <3> HIDE DEF i
    <3>3. file[i] = Element(all[r + 1], c, enc)
      BY <1>1, <2>6, <3>1, <3>2
    <3>4. all[r + 1] = RowOf(data, dims, r)
      BY <3>1 DEF all
    <3> QED
      BY <3>3, <3>4 DEF i
  <2>8. DOMAIN file = 0..size - 1
    BY <2>6
  <2> QED
    BY <2>7, <2>8 DEF Sized, RowAt, rows, cap, file
<1> QED
  BY <1>6, <1>7

\* Columns of rows that are where they belong can be read, and are right.
LEMMA ReadBack ==
  ASSUME NEW data \in Content, NEW dims \in Shapes, NEW cap \in Nat, NEW file,
         RowCount(data, dims) <= cap,
         Sized(file, cap, dims.enc),
         \A r \in 0..RowCount(data, dims) - 1 : RowAt(file, cap, data, dims, r)
  PROVE  /\ Readable(file, cap, dims.enc, RowCount(data, dims))
         /\ ReadColumns(file, cap, dims.enc, RowCount(data, dims)) = Encoding(data, dims)
<1> DEFINE rows == RowCount(data, dims)
           enc == dims.enc
<1>1. rows \in Nat /\ enc \in Nat \ {0}
  BY RowsBegin, ShapesAssumption
<1>2. cap * enc \in Nat /\ (enc - 1) * cap \in Int /\ (enc - 1) * cap + cap = cap * enc
  BY <1>1, NextMultiple
<1>3. Length(file) = cap * enc
  BY <1>2, LengthOfFile DEF Sized
<1>4. Readable(file, cap, enc, rows)
  BY <1>1, <1>2, <1>3 DEF Readable
<1>5. ASSUME NEW c \in 1..enc, NEW r \in 1..rows
      PROVE  file[(c - 1) * cap + r - 1] = Element(RowOf(data, dims, r - 1), c - 1, enc)
  <2>1. c - 1 \in 0..enc - 1 /\ r - 1 \in 0..rows - 1
    BY <1>1
  <2>2. file[(c - 1) * cap + (r - 1)] = Element(RowOf(data, dims, r - 1), c - 1, enc)
    BY <2>1 DEF RowAt
  <2>3. (c - 1) * cap + (r - 1) = (c - 1) * cap + r - 1
    <3>1. (c - 1) * cap \in Int
      BY <1>1
    <3> QED
      BY <1>1, <3>1
  <2> QED
    BY <2>2, <2>3
<1> HIDE DEF rows
<1>6. ReadColumns(file, cap, enc, rows)
        = [c \in 1..enc |-> [r \in 1..rows |-> file[(c - 1) * cap + r - 1]]]
  BY DEF ReadColumns, ReadColumn
<1>7. Encoding(data, dims)
        = [c \in 1..enc |-> [r \in 1..rows |-> Element(RowOf(data, dims, r - 1), c - 1, enc)]]
  BY DEF Encoding, rows
<1>8. \A c \in 1..enc :
        [r \in 1..rows |-> file[(c - 1) * cap + r - 1]]
          = [r \in 1..rows |-> Element(RowOf(data, dims, r - 1), c - 1, enc)]
  BY <1>5
<1>9. ReadColumns(file, cap, enc, rows) = Encoding(data, dims)
  BY <1>6, <1>7, <1>8
<1> QED
  BY <1>4, <1>9 DEF rows
=============================================================================
