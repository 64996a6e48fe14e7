---------------------------- MODULE FieldElements ---------------------------
(***************************************************************************)
(* Field elements as numbers (proof-of-storage/src/fields.rs and fields/): *)
(* how bytes become elements and come back, and the arithmetic that        *)
(* evaluations are made of.                                                *)
(*                                                                         *)
(* The program's field has 2^62 elements and more, and seven bytes of 256  *)
(* values in one; here modulus, radix and capacity are parameters.         *)
(***************************************************************************)
EXTENDS FieldData, SequencesExt

CONSTANTS
  RADIX,       \* values of a byte (256)
  MODULUS,     \* the prime modulus (5102708120182849537)
  GENERATOR,   \* of the multiplicative group (10)
  LIMBS        \* the Montgomery radix that an element is stored with (2^64)

Field == 0..MODULUS - 1

Power(x, n) ==
  LET power[k \in 0..n] == IF k = 0 THEN 1 ELSE (x * power[k - 1]) % MODULUS
  IN  power[n]

\* What a byte counts that has n bytes before it.
Place[n \in 0..BYTE_CAPACITY] == IF n = 0 THEN 1 ELSE RADIX * Place[n - 1]

ASSUME BytesAssumption ==
  /\ RADIX \in Nat \ {0} /\ Bytes = 0..RADIX - 1
  /\ Place[BYTE_CAPACITY] <= MODULUS
ASSUME FieldAssumption ==
  /\ MODULUS \in Nat /\ MODULUS > 1
  /\ LIMBS \in Nat /\ GENERATOR \in Field \ {0}
  /\ {Power(GENERATOR, n) : n \in 0..MODULUS - 2} = Field \ {0}
  /\ LIMBS % MODULUS # 0

FieldInverse(x) == Power(x, MODULUS - 2)

\* Mutant: the additions are not reduced.
IntegerSum(elements) ==
  LET sum[n \in 0..Len(elements)] == IF n = 0 THEN 0 ELSE sum[n - 1] + elements[n]
  IN  sum[Len(elements)]

FieldSum(elements) ==
  LET sum[n \in 0..Len(elements)] == IF n = 0 THEN 0 ELSE (sum[n - 1] + elements[n]) % MODULUS
  IN  sum[Len(elements)]

\* The zip ends with the shorter of the two.
VectorMultiply(u, v) == FieldSum([i \in 1..Lesser(Len(u), Len(v)) |-> u[i] * v[i]])

-----------------------------------------------------------------------------
(* Bytes and elements.                                                     *)

\* The bytes are the low limbs of the stored form, little end first.
FromDataBytes(chunk) ==
  LET stored[n \in 0..BYTE_CAPACITY] ==
        IF n = 0 THEN 0 ELSE stored[n - 1] + chunk[n] * Place[n - 1]
  IN  (stored[BYTE_CAPACITY] * FieldInverse(LIMBS % MODULUS)) % MODULUS

\* Of an element that no bytes gave, the high bits are lost.
ToDataBytes(e) ==
  LET stored == (e * LIMBS) % MODULUS
  IN  [i \in 1..BYTE_CAPACITY |-> (stored \div Place[i - 1]) % RADIX]

\* The first bytes, with zeros behind them if they do not fill an element.
PaddedChunk(bytes) ==
  [i \in 1..BYTE_CAPACITY |-> IF i <= Len(bytes) THEN bytes[i] ELSE 0]

FromByteVec(bytes) ==
  [k \in 1..FieldLen(bytes) |->
     FromDataBytes(PaddedChunk(SubSeq(bytes, (k - 1) * BYTE_CAPACITY + 1, Len(bytes))))]

FieldVecToByteVec(elements) ==
  FlattenSeq([k \in DOMAIN elements |-> ToDataBytes(elements[k])])

\* convert_field_elements_vec_to_byte_vec: truncate leaves shorter vectors alone.
ConvertToBytes(elements, expected) ==
  LET bytes == FieldVecToByteVec(elements)
  IN  SubSeq(bytes, 1, Lesser(expected, Len(bytes)))

-----------------------------------------------------------------------------
(* Polynomials, the coefficient of the lowest degree first.                *)

\* evaluate_field_polynomial_at_point_with_elevated_degree
EvaluateFrom(coefficients, x, degree) ==
  VectorMultiply(coefficients, [i \in DOMAIN coefficients |-> Power(x, degree + i - 1)])

Evaluate(coefficients, x) == EvaluateFrom(coefficients, x, 0)
=============================================================================
