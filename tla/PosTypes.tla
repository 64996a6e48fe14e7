------------------------------ MODULE PosTypes ------------------------------
(***************************************************************************)
(* The data that the proof-of-storage client and server exchange:          *)
(* commitments, file metadata and the messages of networking/shared.rs.    *)
(*                                                                         *)
(* A commitment is collision free: it is the pair of the content and the   *)
(* shape.                                                                  *)
(***************************************************************************)
EXTENDS FieldData

CONSTANTS
  Ids,     \* the Ulids that can be drawn: bounds the number of file versions
  Slots,   \* client processes; each has one TCP connection at a time
  Names    \* file names

-----------------------------------------------------------------------------
(* Shapes and commitments.                                                 *)

\* What the server asks of the shape of an upload.
DimsOk(dims) == IsPowerOfTwo(dims.enc) /\ dims.enc >= 2 /\ dims.enc >= 2 * dims.pre

\* What the client asks of a shape given on its command line.
ClientDimsOk(dims) == IsPowerOfTwo(dims.enc) /\ dims.enc >= 2 /\ dims.enc > dims.pre

\* What the commitment itself asks of the data and of the shape.
CommitOk(data, dims) ==
  Len(data) > 0 /\ IsPowerOfTwo(dims.enc) /\ dims.enc >= 2 /\ dims.enc > dims.pre

Commitment == [data : Content, dims : Shapes]

Commit(data, dims) == [data |-> data, dims |-> dims]

-----------------------------------------------------------------------------
(* File metadata and messages.                                             *)

Metadata == [id   : Ids,
             name : Names,
             rows : Nat,
             dims : Shapes,
             size : Nat,
             root : Commitment]

\* The metadata of a file that was just committed to.
CommittedMetadata(id, name, data, dims) ==
  [id |-> id, name |-> name, rows |-> RowCount(data, dims), dims |-> dims,
   size |-> Len(data), root |-> Commit(data, dims)]

UploadRequest   == [type : {"UploadNewFile"}, name : Names, data : Content, dims : Shapes]
FileRequest     == [type : {"RequestFile"}, md : Metadata]
ProofRequest    == [type : {"RequestProof"}, md : Metadata]
DeleteRequest   == [type : {"DeleteFile"}, md : Metadata]
EditRequest     == [type : {"EditFileBytes"}, md : Metadata, start : Nat, data : Content]
AppendRequest   == [type : {"AppendToFile"}, md : Metadata, data : Content]
ReshapeRequest  == [type : {"RequestFileReshape"}, md : Metadata, dims : Shapes]
EvalRequest     == [type : {"RequestReshapeEvaluation", "RequestAppendEvaluation"},
                    old : Metadata, new : Metadata]
EditEvalRequest == [type : {"RequestEditEvaluation"}, old : Metadata, new : Metadata,
                    first : Nat, last : Nat]
VersionResponse == [type : {"ReshapeResponse", "EditOrAppendResponse"},
                    old : Metadata, new : Metadata, accepted : BOOLEAN]

\* The requests that ask for a new version of a stored file.
VersionRequest == EditRequest \cup AppendRequest \cup ReshapeRequest

Request == UploadRequest \cup FileRequest \cup ProofRequest \cup DeleteRequest
             \cup VersionRequest \cup EvalRequest \cup EditEvalRequest \cup VersionResponse

\* Columns stands for the opened columns with their Merkle paths: the content
\* and the shape they were computed from.  An evaluation stands for the result
\* vectors and columns of the polynomials it was computed from.
Response ==
       [type : {"CompactCommit"}, md : Metadata]
  \cup [type : {"File"}, data : Content]
  \cup [type : {"Columns"}, data : Content, dims : Shapes]
  \cup [type : {"ReshapeEvaluation"}, data : Content]
  \cup [type : {"AppendEvaluation"}, old : Content, new : Content, rowLen : Nat]
  \cup [type : {"EditEvaluation"}, old : Content, new : Content, rowBytes : Nat]
  \cup [type : {"FileDeleted", "ErrorResponse"}]

\* No message is the absent one.
ASSUME NoneAssumption == None \notin Request \cup Response

\* The requests for which the server draws a Ulid.
DrawsUlid == {"UploadNewFile", "EditFileBytes", "AppendToFile", "RequestFileReshape"}

-----------------------------------------------------------------------------
(* Partial functions: the disk and the tables.                             *)

Put(f, k, v) == [x \in DOMAIN f \cup {k} |-> IF x = k THEN v ELSE f[x]]

Drop(f, k) == [x \in DOMAIN f \ {k} |-> f[x]]

EmptyMap == [x \in {} |-> x]

IsMap(f, keys, vals) == DOMAIN f \subseteq keys /\ f \in [DOMAIN f -> vals]
=============================================================================
