----------------------------- MODULE LinearCode -----------------------------
(***************************************************************************)
(* The polynomial commitment (lcpc-2d, lcpc-ligero-pc) and what            *)
(* lcpc_online.rs does with it.  A file's elements are the coefficients of *)
(* a polynomial, cut into rows; a row is encoded to its values at the      *)
(* roots of unity; a Merkle tree commits to the columns.                   *)
(***************************************************************************)
EXTENDS FieldElements, MerkleTree, FiniteSets

CONSTANT SOUNDNESS   \* columns that are opened for soundness (309 at rate 1/2)

\* LigeroEncoding::_dims_ok: rows are encoded to more columns, a power of two;
\* fft_io refuses a vector that there are no roots of unity for.
ASSUME EncodingAssumption ==
  \A dims \in Shapes : /\ dims.pre < dims.enc /\ IsPowerOfTwo(dims.enc)
                        /\ (MODULUS - 1) % dims.enc = 0
ASSUME SoundnessAssumption == SOUNDNESS \in Nat \ {0}

-----------------------------------------------------------------------------
(* Encoding.  fft_io takes a vector in order and leaves its values in the  *)
(* order of the reversed bits of their index; ifft_oi undoes it.           *)

BitReverse(j, n) ==
  LET reversed[k \in 0..Log2(n)] ==
        IF k = 0 THEN 0 ELSE 2 * reversed[k - 1] + ((j \div 2 ^ (k - 1)) % 2)
  IN  reversed[Log2(n)]

RootOfUnity(n) == Power(GENERATOR, (MODULUS - 1) \div n)

Encode(vector) ==
  LET n    == Len(vector)
      root == RootOfUnity(n)
  IN  [j \in 1..n |-> Evaluate(vector, Power(root, BitReverse(j - 1, n)))]

\* decode_row: the padding stays at the end of what it returns.
Decode(values) ==
  LET n     == Len(values)
      root  == FieldInverse(RootOfUnity(n))
      scale == FieldInverse(n % MODULUS)
  IN  [i \in 1..n |-> (scale * VectorMultiply(values,
         [j \in 1..n |-> Power(Power(root, i - 1), BitReverse(j - 1, n))])) % MODULUS]

-----------------------------------------------------------------------------
(* Commitments.  dims.pre is n_per_row, dims.enc is n_cols.                *)

\* The square shape of a file of len elements, as client and server choose it.
SquareShape(len) ==
  LET least(n) == CHOOSE k \in 0..n : k * k >= n /\ \A m \in 0..k - 1 : m * m < n
      pre      == 2 ^ Log2(least(len))
  IN  [pre |-> pre, enc |-> 2 ^ Log2(pre + 1)]

\* n elements of a row behind those before it, zeros where there are none.
CoefficientRow(elements, dims, r) ==
  [c \in 1..dims.enc |->
     LET i == (r - 1) * dims.pre + c
     IN  IF c <= dims.pre /\ i <= Len(elements) THEN elements[i] ELSE 0]

CoefficientRows(elements, dims) ==
  [r \in 1..CeilDiv(Len(elements), dims.pre) |-> CoefficientRow(elements, dims, r)]

ColumnOf(rows, c) == [r \in DOMAIN rows |-> rows[r][c + 1]]

\* One LcCommit: coeffs, comm, and hashes.
CommitTo(elements, dims) ==
  LET coeffs == CoefficientRows(elements, dims)
      comm   == [r \in DOMAIN coeffs |-> Encode(coeffs[r])]
  IN  [dims   |-> dims,
       coeffs |-> coeffs,
       comm   |-> comm,
       hashes |-> Digests([c \in 1..dims.enc |-> LeafDigest(ColumnOf(comm, c - 1))])]

CommitRoot(commit) == TreeRoot(commit.hashes)

OpenColumn(commit, c) ==
  [col |-> ColumnOf(commit.comm, c), path |-> GetPath(commit.hashes, c)]

\* server_retreive_columns: in the order of the request.
RetrieveColumns(commit, indices) == [i \in DOMAIN indices |-> OpenColumn(commit, indices[i])]

VerifyColumnPath(column, index, root) ==
  Climb(LeafDigest(column.col), index, column.path) = root

\* client_online_verify_column_paths
VerifyColumnPaths(root, indices, columns) ==
  /\ Len(columns) = Len(indices)
  /\ \A i \in DOMAIN indices : VerifyColumnPath(columns[i], indices[i], root)

\* What the client computes of its own file: CommitRequestType::Leaves.
LocalLeaves(elements, dims, indices) ==
  LET commit == CommitTo(elements, dims)
  IN  [i \in DOMAIN indices |-> LeafDigest(ColumnOf(commit.comm, indices[i]))]

\* client_online_verify_column_leaves
VerifyColumnLeaves(leaves, columns) ==
  /\ Len(columns) = Len(leaves)
  /\ \A i \in DOMAIN leaves : leaves[i] = LeafDigest(columns[i].col)

\* Mutant: the columns are compared with the client's file alone.
VerifyLeavesAlone(root, leaves, indices, columns) == VerifyColumnLeaves(leaves, columns)

\* client_verify_commitment; its limit on the number of columns is not exceeded.
VerifyCommitment(root, leaves, indices, columns) ==
  VerifyColumnLeaves(leaves, columns) /\ VerifyColumnPaths(root, indices, columns)

-----------------------------------------------------------------------------
(* The columns that are opened.                                            *)

ColumnsForSoundness(dims) == Lesser(SOUNDNESS, dims.enc)

\* choose_multiple fills a reservoir with the first columns; each later one
\* may take the place of one that is in it.
Samples(amount, columns) ==
  LET reservoirs[n \in 0..columns] ==
        IF n <= amount THEN {[i \in 1..n |-> i - 1]}
        ELSE reservoirs[n - 1]
               \cup {[s EXCEPT ![i] = n - 1] : s \in reservoirs[n - 1], i \in 1..amount}
  IN  reservoirs[columns]

ColumnSamples(dims) == Samples(ColumnsForSoundness(dims), dims.enc)

-----------------------------------------------------------------------------
(* Evaluations.                                                            *)

\* form_side_vectors_for_polynomial_evaluation_from_point
LeftVector(x, nRows, nCols) == [r \in 1..nRows |-> Power(x, nCols * (r - 1))]
RightVector(x, nCols)       == [c \in 1..nCols |-> Power(x, c - 1)]

\* verifiable_polynomial_evaluation: one value for each encoded column.
ResultVector(commit, left) ==
  [c \in 1..commit.dims.enc |-> VectorMultiply(left, ColumnOf(commit.comm, c - 1))]

Ascending(indices) == \A i, j \in DOMAIN indices : i < j => indices[i] < indices[j]

InAscendingOrder(set) == CHOOSE s \in [1..Cardinality(set) -> set] : Ascending(s)

\* The values are taken in the order of the columns, the received columns in
\* the order of the request.
ValuesOfColumns(result, indices) ==
  LET ascending == InAscendingOrder({i \in ToSet(indices) : i < Len(result)})
  IN  [k \in DOMAIN ascending |-> result[ascending[k] + 1]]

\* verify_proper_partial_polynomial_evaluation
PartialEvaluationOk(left, result, indices, columns) ==
  LET values == ValuesOfColumns(result, indices)
  IN  \A i \in 1..Lesser(Len(values), Len(columns)) :
        VectorMultiply(left, columns[i].col) = values[i]

\* verifiable_full_polynomial_evaluation: what its callers use of it.
FullEvaluation(x, result, nRows, nCols, indices, columns) ==
  [ok    |-> PartialEvaluationOk(LeftVector(x, nRows, nCols), result, indices, columns),
   value |-> VectorMultiply(Decode(result), RightVector(x, nCols))]

-----------------------------------------------------------------------------
(* The library's own proofs.  Prover and verifier draw the same challenges *)
(* from transcripts that absorbed the same values: degree, one tensor for  *)
(* each degree test, and opened, the columns, which may repeat.            *)

CollapseColumns(commit, tensor) ==
  [c \in 1..commit.dims.pre |-> VectorMultiply(tensor, ColumnOf(commit.coeffs, c - 1))]

Prove(commit, outer, challenge) ==
  [nCols   |-> commit.dims.enc,
   pEval   |-> CollapseColumns(commit, outer),
   pRandom |-> [t \in DOMAIN challenge.degree |->
                  CollapseColumns(commit, challenge.degree[t])],
   columns |-> RetrieveColumns(commit, challenge.opened)]

\* Encoded to n columns.
EncodeTo(vector, n) == Encode([c \in 1..n |-> IF c <= Len(vector) THEN vector[c] ELSE 0])

VerifyColumnValue(column, tensor, value) == VectorMultiply(tensor, column.col) = value

VerifyProof(dims, root, outer, inner, proof, challenge) ==
  LET eval   == EncodeTo(proof.pEval, proof.nCols)
      random == [t \in DOMAIN proof.pRandom |-> EncodeTo(proof.pRandom[t], proof.nCols)]
      columnOk(i) ==
        LET c == challenge.opened[i]
        IN  /\ \A t \in DOMAIN random :
                 VerifyColumnValue(proof.columns[i], challenge.degree[t], random[t][c + 1])
            /\ VerifyColumnValue(proof.columns[i], outer, eval[c + 1])
            /\ VerifyColumnPath(proof.columns[i], c, root)
  IN  /\ Len(proof.columns) = SOUNDNESS /\ SOUNDNESS # 0
      /\ Len(inner) = Len(proof.pEval)
      /\ Len(outer) = Len(proof.columns[1].col)
      /\ dims = [pre |-> Len(proof.pEval), enc |-> proof.nCols]
      /\ \A i \in DOMAIN proof.columns : columnOk(i)
=============================================================================
