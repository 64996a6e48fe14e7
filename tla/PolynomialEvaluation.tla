------------------------ MODULE PolynomialEvaluation ------------------------
(***************************************************************************)
(* What the messages of PosClient and PosServer carry: opened columns,     *)
(* result vectors and slices of rows, computed by the server and judged by *)
(* the client with the numbers of the field.                               *)
(*                                                                         *)
(* data is the content the client's metadata commits to; it is streamed    *)
(* first, as the server's library does.  stored is the content the server  *)
(* has by the time it answers: of the new version for a reshape, an append *)
(* or an edit, of the file itself for a proof.                             *)
(***************************************************************************)
EXTENDS RowGenerator, EditedRows

CONSTANTS
  Points,    \* bound: the points that are evaluated at
  Patches    \* bound: the data of appends and edits

ASSUME PointsAssumption  == Points \subseteq Field
ASSUME PatchesAssumption == Patches \subseteq Content

VARIABLES
  request,   \* what the client asked, None before
  stored,
  answer,    \* the server's, None before; NoAnswer if its handler panicked
  verdict    \* the client's: "none", "accepted", "rejected"

evalVars == <<request, stored, answer, verdict>>
vars == <<rowVars, evalVars>>

NoAnswer == [columns |-> None]

\* The content, or what another client made of it: one byte or their order.
Versions(content) ==
  {content, Reverse(content)}
    \cup {[content EXCEPT ![i] = byte] : i \in DOMAIN content, byte \in Bytes}

Intended(r) ==
  CASE r.kind = "append" -> data \o r.patch
    [] r.kind = "edit"   -> Splice(data, r.start, r.patch)
    [] OTHER             -> data

Version(content, shape) ==
  [dims |-> shape, size |-> Len(content), rows |-> RowCount(content, shape)]

Init ==
  /\ RowInit
  /\ request = None
  /\ stored = << >>
  /\ answer = None
  /\ verdict = "none"

-----------------------------------------------------------------------------
(* The client's requests, one at a time.                                   *)

\* versions is what the server may have meanwhile.
Ask(r, versions) ==
  /\ Exhausted /\ request = None
  /\ request' = r
  /\ stored' \in versions
  /\ UNCHANGED <<rowVars, answer, verdict>>

RequestPolynomial ==
  \E x \in Points, indices \in ColumnSamples(dims) :
    Ask([kind |-> "polynomial", x |-> x, indices |-> indices], {data})

RequestReshape ==
  \E x \in Points, indices \in ColumnSamples(dims), shape \in Shapes \ {dims} :
    \E newIndices \in ColumnSamples(shape) :
      Ask([kind |-> "reshape", x |-> x, indices |-> indices,
           dims |-> shape, newIndices |-> newIndices], {data})

RequestAppend ==
  \E x \in Points, indices \in ColumnSamples(dims), patch \in Patches :
    Ask([kind |-> "append", x |-> x, indices |-> indices, patch |-> patch],
        Versions(data \o patch))

\* edit_file goes no further if the root is the same.
RequestEdit ==
  \E x \in Points, indices \in ColumnSamples(dims), patch \in Patches :
    \E start \in 0..Len(data) - Len(patch) :
      /\ start < Len(data)
      /\ Ask([kind |-> "edit", x |-> x, indices |-> indices, patch |-> patch, start |-> start],
             Versions(Splice(data, start, patch)) \ {data})

\* The client checks the columns against a file of its own, or one it was sent.
RequestProof ==
  \E indices \in ColumnSamples(dims), own \in Versions(data) :
    Ask([kind |-> "proof", own |-> own, indices |-> indices],
        Versions(data) \cup {Append(data, 0)})

-----------------------------------------------------------------------------
(* The server's answers.                                                   *)

Answer(a) ==
  /\ answer' = a
  /\ UNCHANGED <<rowVars, request, stored, verdict>>

Asked(kind) == request # None /\ answer = None /\ request.kind = kind

\* The polynomial of a content in a shape, evaluated with rows of width columns.
Evaluation(content, shape, width, indices) ==
  LET commit == CommitTo(FromByteVec(content), shape)
      left   == LeftVector(request.x, Len(commit.comm), width)
  IN  [result |-> ResultVector(commit, left), columns |-> RetrieveColumns(commit, indices)]

\* handle_client_request_polynomial_evaluation takes the encoded width.
AnswerPolynomial ==
  /\ Asked("polynomial")
  /\ Answer(Evaluation(data, dims, dims.enc, request.indices))

OldEvaluation == Evaluation(data, dims, dims.pre, request.indices)
NewEvaluation == Evaluation(stored, dims, dims.pre, request.indices)

AnswerReshape ==
  /\ Asked("reshape")
  /\ Answer([old |-> OldEvaluation,
             new |-> Evaluation(stored, request.dims, request.dims.pre, request.newIndices)])

AnswerAppend ==
  /\ Asked("append")
  /\ LET elements == FromByteVec(stored)
         slice    == AppendSlice(Version(data, dims), Version(stored, dims)) IN
       Answer(IF SliceOk(slice.first, slice.last, Len(elements))
                THEN [row |-> SubSeq(elements, slice.first + 1, slice.last + 1),
                      old |-> OldEvaluation, new |-> NewEvaluation]
                ELSE NoAnswer)

AnswerEdit ==
  /\ Asked("edit")
  /\ LET range == EditedRowRange(dims, request.start, request.patch)
         slice == EditSlice([old |-> Version(data, dims), first |-> range.first,
                             last |-> range.last], Len(data)) IN
       Answer(IF SliceOk(slice.first, slice.last, Len(data))
                THEN [rows |-> SubSeq(data, slice.first + 1, slice.last + 1),
                      old |-> OldEvaluation, new |-> NewEvaluation]
                ELSE NoAnswer)

AnswerProof ==
  /\ Asked("proof")
  /\ Answer([columns |-> RetrieveColumns(CommitTo(FromByteVec(stored), dims), request.indices)])

-----------------------------------------------------------------------------
(* The client's verdicts.                                                  *)

Judge(ok) ==
  /\ verdict' = IF ok THEN "accepted" ELSE "rejected"
  /\ UNCHANGED <<rowVars, request, stored, answer>>

Answered(kind) ==
  /\ answer \notin {None, NoAnswer}
  /\ verdict = "none"
  /\ request.kind = kind

CommittedRoot == CommitRoot(CommitTo(FromByteVec(data), dims))

\* The client's check of one version's evaluation, with rows of width columns.
Verified(evaluation, version, width, indices) ==
  FullEvaluation(request.x, evaluation.result, version.rows, width,
                 indices, evaluation.columns)

OldVerified == Verified(answer.old, Version(data, dims), dims.pre, request.indices)
NewVerified == Verified(answer.new, Version(stored, dims), dims.pre, request.indices)

JudgePolynomial ==
  /\ Answered("polynomial")
  /\ Judge(/\ VerifyColumnPaths(CommittedRoot, request.indices, answer.columns)
           /\ Verified(answer, Version(data, dims), dims.enc, request.indices).ok)

JudgeReshape ==
  /\ Answered("reshape")
  /\ LET new == Verified(answer.new, Version(stored, request.dims),
                         request.dims.pre, request.newIndices)
     IN  Judge(OldVerified.ok /\ new.ok /\ OldVerified.value = new.value)

\* Mutant: the degree of the next whole element.
AppendDifferenceBehindElement(x, old, patch, row) ==
  LET degree  == CeilDiv(old.size, BYTE_CAPACITY)
      offset  == old.size % BYTE_CAPACITY
      kept    == IF offset = 0 THEN << >>
                 ELSE ConvertToBytes(<<row[(old.size \div BYTE_CAPACITY % old.dims.pre) + 1]>>,
                                     offset)
  IN  EvaluateFrom(FromByteVec(kept \o patch), x, degree)
        - EvaluateFrom(FromByteVec(kept), x, degree)

\* What the appended bytes add to the value: the element that the old version
\* does not fill is cut out of the row that was sent and put back longer.
AppendDifference(x, old, patch, row) ==
  LET degree  == old.size \div BYTE_CAPACITY
      offset  == old.size % BYTE_CAPACITY
      kept    == IF offset = 0 THEN << >>
                 ELSE ConvertToBytes(<<row[(degree % old.dims.pre) + 1]>>, offset)
  IN  EvaluateFrom(FromByteVec(kept \o patch), x, degree)
        - EvaluateFrom(FromByteVec(kept), x, degree)

JudgeAppend ==
  /\ Answered("append")
  /\ LET old == Version(data, dims) IN
       /\ ~ ChangedElementMissing(old, Len(answer.row))
       /\ Judge(/\ OldVerified.ok /\ NewVerified.ok
                /\ NewVerified.value
                     = (OldVerified.value
                          + AppendDifference(request.x, old, request.patch, answer.row)) % MODULUS)

\* What the edited bytes add to the value, from the rows they are in.
EditDifference(x, start, patch, rows) ==
  LET degree == EditedRowRange(dims, start, patch).first * dims.pre
      edited == Splice(rows, start % (BYTE_CAPACITY * dims.pre), patch)
  IN  EvaluateFrom(FromByteVec(edited), x, degree) - EvaluateFrom(FromByteVec(rows), x, degree)

JudgeEdit ==
  /\ Answered("edit")
  /\ LET rows   == answer.rows
         edited == Splice(rows, request.start % (BYTE_CAPACITY * dims.pre), request.patch) IN
       Judge(/\ WholeRows(dims, Len(rows), Len(request.patch))
             /\ OldVerified.ok /\ NewVerified.ok
             /\ FromByteVec(edited) # FromByteVec(rows)
             /\ NewVerified.value
                  = (OldVerified.value
                       + EditDifference(request.x, request.start, request.patch, rows)) % MODULUS)

JudgeProof ==
  /\ Answered("proof")
  /\ Judge(VerifyCommitment(CommittedRoot,
                            LocalLeaves(FromByteVec(request.own), dims, request.indices),
                            request.indices, answer.columns))

-----------------------------------------------------------------------------

Next ==
  \/ RowNext /\ UNCHANGED evalVars
  \/ RequestPolynomial \/ RequestReshape \/ RequestAppend \/ RequestEdit \/ RequestProof
  \/ AnswerPolynomial \/ AnswerReshape \/ AnswerAppend \/ AnswerEdit \/ AnswerProof
  \/ JudgePolynomial \/ JudgeReshape \/ JudgeAppend \/ JudgeEdit \/ JudgeProof

Spec == Init /\ [][Next]_vars

-----------------------------------------------------------------------------

InOrder == /\ Ascending(request.indices)
           /\ request.kind = "reshape" => Ascending(request.newIndices)

TypeOK ==
  /\ RowTypeOK
  /\ stored \in Content
  /\ verdict \in {"none", "accepted", "rejected"}
  /\ answer # None => request # None
  /\ verdict # "none" => answer \notin {None, NoAnswer}

SameAtPoint == Evaluate(FromByteVec(stored), request.x)
                 = Evaluate(FromByteVec(Intended(request)), request.x)

(* Every column that get_full_columns hands out, for any request, leads    *)
(* with its path to the root of the commitment when it is checked against  *)
(* the index it was asked for, which is the one at the mirrored place.     *)
FullColumnsVerify ==
  (Exhausted /\ request = None) =>
    \A indices \in ColumnSamples(dims) :
      VerifyColumnPaths(CommittedRoot, Reverse(indices), FullColumns(indices))

(* The client's verdict on a new version is the comparison of the stored   *)
(* version's polynomial with the intended one at the random point: nothing *)
(* that result vectors, decoding, slices of rows, cut elements and degree  *)
(* offsets do on the way loses or adds anything, and an honest evaluation  *)
(* of a polynomial or a reshape is accepted (append_to_file, edit_file,    *)
(* reshape_file, client_request_and_verify_polynomial).  The columns are   *)
(* opened in order.                                                        *)
VerdictComparesAtPoint ==
  (verdict # "none" /\ request.kind # "proof" /\ InOrder) =>
    CASE request.kind \in {"polynomial", "reshape"} -> verdict = "accepted"
      [] request.kind = "append" -> (verdict = "accepted") = SameAtPoint
      [] request.kind = "edit" ->
           (verdict = "accepted") = (/\ SameAtPoint
                                     /\ Intended(request) # data
                                     /\ Len(answer.rows) % (BYTE_CAPACITY * dims.pre) = 0)

(* Columns are accepted exactly when the server holds the matrix that the  *)
(* root commits to, whichever columns were opened, and the client's own    *)
(* file has the same leaves in those that were: the file that was          *)
(* committed to, up to the zeros that pad it (client_verify_commitment).   *)
AcceptsOnlyCommitted ==
  (verdict # "none" /\ request.kind = "proof") =>
    LET comm(content) == CommitTo(FromByteVec(content), dims).comm
        leaves(content) == LocalLeaves(FromByteVec(content), dims, request.indices)
    IN  (verdict = "accepted") = (/\ comm(stored) = comm(data)
                                  /\ leaves(request.own) = leaves(data))

\* A challenge: one degree test, by the powers of a point, and columns that may
\* repeat. The program draws the vector of the test element by element.
Challenges ==
  [degree : {<<LeftVector(x, RowCount(data, dims), 1)>> : x \in Points},
   opened : [1..SOUNDNESS -> 0..dims.enc - 1]]

(* A proof of the library verifies against the root of the same matrix and *)
(* no other, and gives the value of the file's polynomial, for every       *)
(* choice of columns and every degree test by powers (prove, verify).      *)
LibraryProofsVerify ==
  (Exhausted /\ request = None) =>
    LET elements == FromByteVec(data) IN
    \A x \in Points, challenge \in Challenges, other \in Versions(data) :
      LET commit == CommitTo(elements, dims)
          outer  == LeftVector(x, Len(commit.comm), dims.pre)
          inner  == RightVector(x, dims.pre)
          proof  == Prove(CommitTo(FromByteVec(other), dims), outer, challenge)
      IN  /\ VerifyProof(dims, CommitRoot(commit), outer, inner, proof, challenge) = (other = data)
          /\ other = data => VectorMultiply(inner, proof.pEval) = Evaluate(elements, x)

(* What the comment of the evaluation's verification and its test say: an  *)
(* honest evaluation is accepted for a set of columns, in whatever order   *)
(* they were drawn.                                                        *)
HonestEvaluationAccepted ==
  (verdict # "none" /\ request.kind = "polynomial") => verdict = "accepted"
=============================================================================
