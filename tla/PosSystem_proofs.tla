-------------------------- MODULE PosSystem_proofs --------------------------
(***************************************************************************)
(* Proofs about the proof-of-storage system, for any number of Ulids,      *)
(* client processes, names, bytes and shapes: its types, that a download   *)
(* is what was committed to, that the server's directory is a store of     *)
(* immutable objects while files are only uploaded, downloaded, proved,    *)
(* reshaped and deleted, and that the records of one client agree with it. *)
(***************************************************************************)
EXTENDS PosSystem, SequenceTheorems, TLAPS

-----------------------------------------------------------------------------
(* Arithmetic, contents and maps.                                          *)

\* Rounding up a quotient of naturals gives a natural: row counts are lengths.
LEMMA CeilDivNat ==
  ASSUME NEW a \in Nat, NEW b \in Nat \ {0}
  PROVE  CeilDiv(a, b) \in Nat
<1>1. a + b - 1 \in Nat
  OBVIOUS
<1>2. \A n \in Nat : n \div b \in Nat
  OBVIOUS
<1> QED
  BY <1>1, <1>2 DEF CeilDiv

\* The number of field elements of a content is a natural.
LEMMA FieldLenNat ==
  ASSUME NEW data \in Content
  PROVE  FieldLen(data) \in Nat
<1>1. Len(data) \in Nat
  BY DEF Content
<1> QED
  BY <1>1, CeilDivNat, CapacityAssumption DEF FieldLen

\* A content in any of the shapes has a number of rows.
LEMMA RowCountNat ==
  ASSUME NEW data \in Content, NEW dims \in Shapes
  PROVE  RowCount(data, dims) \in Nat
<1>2. FieldLen(data) \in Nat
  BY FieldLenNat
<1>3. dims.pre \in Nat \ {0}
  BY ShapesAssumption
<1> QED
  BY <1>2, <1>3, CeilDivNat DEF RowCount

\* Writing bytes into a content gives a content.
LEMMA SpliceContent ==
  ASSUME NEW data \in Content, NEW start \in Nat, NEW patch \in Content
  PROVE  Splice(data, start, patch) \in Content
<1> DEFINE e(i) == IF start < i /\ i <= start + Len(patch) THEN patch[i - start] ELSE data[i]
<1>1. Len(data) \in Nat /\ Len(patch) \in Nat
  BY DEF Content
<1>2. ASSUME NEW i \in 1..Len(data) PROVE e(i) \in Bytes
  <2>1. data[i] \in Bytes
    BY ElementOfSeq DEF Content
  <2>2. CASE start < i /\ i <= start + Len(patch)
    <3>1. i - start \in 1..Len(patch)
      BY <1>1, <2>2
    <3>2. patch[i - start] \in Bytes
      BY <3>1, ElementOfSeq DEF Content
    <3> QED
      BY <2>2, <3>2
  <2> QED
    BY <2>1, <2>2
<1>3. [i \in 1..Len(data) |-> e(i)] \in [1..Len(data) -> Bytes]
  BY <1>2
<1> QED
  BY <1>1, <1>3, SeqDef DEF Splice, Content

\* Appending one content to another gives a content.
LEMMA ConcatContent ==
  ASSUME NEW x \in Content, NEW y \in Content
  PROVE  x \o y \in Content
BY ConcatProperties DEF Content

\* A map stays a map of its type when an entry is put or dropped.
LEMMA PutIsMap ==
  ASSUME NEW K, NEW V, NEW f, IsMap(f, K, V), NEW k \in K, NEW v \in V
  PROVE  IsMap(Put(f, k, v), K, V)
BY DEF IsMap, Put

\* Deleting an entry or a file leaves a map of the same type.
LEMMA DropIsMap ==
  ASSUME NEW K, NEW V, NEW f, IsMap(f, K, V), NEW k
  PROVE  IsMap(Drop(f, k), K, V)
BY DEF IsMap, Drop

\* What a map of a type returns has the type of its values.
LEMMA MapValue ==
  ASSUME NEW K, NEW V, NEW f, IsMap(f, K, V), NEW k \in DOMAIN f
  PROVE  f[k] \in V
BY DEF IsMap

\* The tables and the directory of a new system are maps of their types.
LEMMA EmptyIsMap ==
  ASSUME NEW K, NEW V
  PROVE  IsMap(EmptyMap, K, V)
BY DEF IsMap, EmptyMap

-----------------------------------------------------------------------------
(* Messages: the type field of a request says which record it is.          *)

\* A request whose tag is known has that tag's fields.
LEMMA RequestByType ==
  ASSUME NEW m \in Request
  PROVE  /\ m.type = "UploadNewFile" => m \in UploadRequest
         /\ m.type = "RequestFile" => m \in FileRequest
         /\ m.type = "RequestProof" => m \in ProofRequest
         /\ m.type = "DeleteFile" => m \in DeleteRequest
         /\ m.type = "EditFileBytes" => m \in EditRequest
         /\ m.type = "AppendToFile" => m \in AppendRequest
         /\ m.type = "RequestFileReshape" => m \in ReshapeRequest
         /\ m.type \in {"RequestReshapeEvaluation", "RequestAppendEvaluation"}
              => m \in EvalRequest
         /\ m.type = "RequestEditEvaluation" => m \in EditEvalRequest
         /\ m.type \in {"ReshapeResponse", "EditOrAppendResponse"} => m \in VersionResponse
BY DEF Request, VersionRequest, UploadRequest, FileRequest, ProofRequest, DeleteRequest,
       EditRequest, AppendRequest, ReshapeRequest, EvalRequest, EditEvalRequest, VersionResponse

\* Each kind of request is a request.
LEMMA RequestKinds ==
  UploadRequest \cup FileRequest \cup ProofRequest \cup DeleteRequest \cup VersionRequest
    \cup EvalRequest \cup EditEvalRequest \cup VersionResponse \subseteq Request
BY DEF Request

\* The metadata of an upload, and of a new version, is metadata.
LEMMA CommittedMetadataType ==
  ASSUME NEW id \in Ids, NEW name \in Names, NEW data \in Content, NEW dims \in Shapes
  PROVE  CommittedMetadata(id, name, data, dims) \in Metadata
<1>1. RowCount(data, dims) \in Nat
  BY RowCountNat
<1>2. Len(data) \in Nat
  BY DEF Content
<1> QED
  BY <1>1, <1>2 DEF CommittedMetadata, Metadata, Commit, Commitment

\* The metadata of an edited or extended file is metadata.
LEMMA VersionMetadataType ==
  ASSUME NEW md \in Metadata, NEW id \in Ids, NEW old, NEW new \in Content, NEW rows \in Nat
  PROVE  VersionMetadata(md, id, old, new, rows) \in Metadata
<1>1. Len(new) \in Nat
  BY DEF Content
<1> QED
  BY <1>1 DEF VersionMetadata, Metadata, Commit, Commitment

-----------------------------------------------------------------------------
(* The handler tasks: what a task at a step holds.                         *)

\* A handler at a step holds the request that the step works on.
LEMMA TaskByPc ==
  ASSUME NEW t \in Task
  PROVE  /\ t.pc = "create" => t \in CreatingTask
         /\ t.pc = "rename" => t \in RenamingTask
         /\ t.pc = "delete" => t \in DeletingTask
         /\ t.pc = "remove" => t \in RemovingTask
         /\ t.pc = "open" => t \in CreatingTask \cup DeletingTask
<1>1. t = IdleTask \/ t \in CreatingTask \/ t \in DeletingTask \/ t \in RenamingTask
        \/ t \in RemovingTask
  BY DEF Task
<1>2. CASE t = IdleTask
  BY <1>2 DEF IdleTask
<1>3. CASE t \in CreatingTask
  BY <1>3 DEF CreatingTask
<1>4. CASE t \in DeletingTask
  BY <1>4 DEF DeletingTask
<1>5. CASE t \in RenamingTask
  BY <1>5 DEF RenamingTask
<1>6. CASE t \in RemovingTask
  BY <1>6 DEF RemovingTask
<1> QED
  BY <1>1, <1>2, <1>3, <1>4, <1>5, <1>6

\* The steps of the database part of a handler.
LEMMA OpenToCreate ==
  ASSUME NEW t \in CreatingTask
  PROVE  [t EXCEPT !.pc = "create"] \in Task
BY DEF CreatingTask, Task

\* A handler that deletes goes from the open database to the entry.
LEMMA OpenToDelete ==
  ASSUME NEW t \in DeletingTask
  PROVE  [t EXCEPT !.pc = "delete"] \in Task
BY DEF DeletingTask, Task

\* A handler of a verdict goes from the open database to the rename.
LEMMA OpenToRename ==
  ASSUME NEW t \in DeletingTask, t.msg \in VersionResponse
  PROVE  [t EXCEPT !.pc = "rename"] \in Task
BY DEF DeletingTask, RenamingTask, Task

\* After the rename the old entry is next.
LEMMA RenameToDelete ==
  ASSUME NEW t \in RenamingTask
  PROVE  [t EXCEPT !.pc = "delete"] \in Task
BY DEF DeletingTask, RenamingTask, Task

\* After the entry the file is next.
LEMMA DeleteToRemove ==
  ASSUME NEW t \in DeletingTask, NEW found \in BOOLEAN
  PROVE  [t EXCEPT !.pc = "remove", !.found = found] \in Task
BY DEF DeletingTask, RemovingTask, Task

-----------------------------------------------------------------------------
(* The parts that server actions are made of.                              *)

\* What an answer, a panic or a next step leaves the connection and the task in.
TalkTypeOK ==
  /\ ends \in [Slots -> SUBSET {"client", "server"}]
  /\ toClient \in [Slots -> Response \cup {None}]
  /\ srv \in [Slots -> Task]

\* A task that waits for a request is a task.
LEMMA IdleTaskType == IdleTask \in Task
BY DEF Task

\* Answering with a response keeps the task and its connection well typed.
LEMMA ReplyType ==
  ASSUME TalkTypeOK, NEW s \in Slots, NEW m \in Response, Reply(s, m)
  PROVE  TalkTypeOK'
BY IdleTaskType DEF TalkTypeOK, Reply

\* So does answering with an error.
LEMMA FailType ==
  ASSUME TalkTypeOK, NEW s \in Slots, Fail(s)
  PROVE  TalkTypeOK'
<1>1. [type |-> "ErrorResponse"] \in Response
  BY DEF Response
<1> QED
  BY <1>1, ReplyType DEF Fail

\* So does a panic, which closes the connection.
LEMMA PanicType ==
  ASSUME TalkTypeOK, NEW s \in Slots, Panic(s)
  PROVE  TalkTypeOK'
BY IdleTaskType DEF TalkTypeOK, Panic

\* A handler that has written a file goes on to the database.
LEMMA GoCreatingType ==
  ASSUME TalkTypeOK, NEW s \in Slots,
         NEW m \in UploadRequest \cup EditRequest \cup AppendRequest, NEW md \in Metadata,
         Go(s, m, "open", md)
  PROVE  TalkTypeOK'
<1>1. [pc |-> "open", msg |-> m, md |-> md, found |-> FALSE] \in Task
  BY DEF Task, CreatingTask
<1> QED
  BY <1>1 DEF TalkTypeOK, Go

\* A handler of a deletion or a verdict goes on to the database.
LEMMA GoDeletingType ==
  ASSUME TalkTypeOK, NEW s \in Slots, NEW m \in DeleteRequest \cup VersionResponse,
         Go(s, m, "open", None)
  PROVE  TalkTypeOK'
<1>1. [pc |-> "open", msg |-> m, md |-> None, found |-> FALSE] \in Task
  BY DEF Task, DeletingTask
<1> QED
  BY <1>1 DEF TalkTypeOK, Go

\* The server's other variables: its store, and what it shares with clients.
StoreTypeOK ==
  /\ IsMap(files, Ids, Content)
  /\ IsMap(table, Ids, Metadata)
  /\ issued \subseteq Ids

ChannelTypeOK ==
  /\ toServer \in [Slots -> Request \cup {None}]
  /\ dbLock \subseteq {"client", "server"} \X Slots

\* The request that a handler takes is one of its type.
LEMMA TakesChannel ==
  ASSUME ChannelTypeOK, NEW s \in Slots, NEW type, Takes(s, type)
  PROVE  toServer[s] \in Request /\ toServer[s].type = type /\ ChannelTypeOK'
BY DEF ChannelTypeOK, Takes

\* A file stored under a Ulid keeps the store well typed.
LEMMA StoreNewFile ==
  ASSUME StoreTypeOK, NEW id \in FreshUlids, NEW data \in Content,
         files' = Put(files, id, data), issued' = issued \cup {id}, UNCHANGED table
  PROVE  StoreTypeOK' /\ id \in Ids
<1>1. id \in Ids
  BY DEF FreshUlids
<1>2. IsMap(files, Ids, Content)
  BY DEF StoreTypeOK
<1>3. IsMap(files', Ids, Content)
  BY <1>1, <1>2, PutIsMap
<1> QED
  BY <1>1, <1>3 DEF StoreTypeOK

\* A step that leaves the store alone keeps it well typed.
LEMMA StoreUnchanged ==
  ASSUME StoreTypeOK, UNCHANGED storeVars
  PROVE  StoreTypeOK'
BY DEF StoreTypeOK, storeVars

\* What the server reads from an existing file is content.
LEMMA FileContent ==
  ASSUME StoreTypeOK, NEW md, HasFile(md)
  PROVE  files[md.id] \in Content
BY MapValue DEF StoreTypeOK, HasFile

-----------------------------------------------------------------------------
(* Every server action keeps the server and its connections well typed.    *)

ServerSideTypeOK == StoreTypeOK /\ ChannelTypeOK /\ TalkTypeOK

\* handle_client_upload_new_file: both the refusal and the new file are well typed.
LEMMA UploadNewFileType ==
  ASSUME ServerSideTypeOK, NEW s \in Slots, HandleUploadNewFile(s)
  PROVE  ServerSideTypeOK'
<1> DEFINE m == toServer[s]
<1>1. Takes(s, "UploadNewFile")
  BY DEF HandleUploadNewFile
<1>2. m \in UploadRequest /\ ChannelTypeOK'
  BY <1>1, TakesChannel, RequestByType DEF ServerSideTypeOK
<1>3. CASE Fail(s) /\ UNCHANGED storeVars
  BY <1>2, <1>3, FailType, StoreUnchanged DEF ServerSideTypeOK
<1>4. ASSUME NEW id \in FreshUlids,
             files' = Put(files, id, m.data), issued' = issued \cup {id}, UNCHANGED table,
             Go(s, m, "open", CommittedMetadata(id, m.name, m.data, m.dims))
      PROVE  ServerSideTypeOK'
  <2>1. m.data \in Content /\ m.name \in Names /\ m.dims \in Shapes
    BY <1>2 DEF UploadRequest
  <2>2. StoreTypeOK' /\ id \in Ids
    BY <1>4, <2>1, StoreNewFile DEF ServerSideTypeOK
  <2>3. CommittedMetadata(id, m.name, m.data, m.dims) \in Metadata
    BY <2>1, <2>2, CommittedMetadataType
  <2>4. TalkTypeOK'
    BY <1>2, <1>4, <2>3, GoCreatingType DEF ServerSideTypeOK
  <2> QED
    BY <1>2, <2>2, <2>4 DEF ServerSideTypeOK
<1> QED
  BY <1>3, <1>4 DEF HandleUploadNewFile

\* handle_client_request_file answers with content.
LEMMA RequestFileType ==
  ASSUME ServerSideTypeOK, NEW s \in Slots, HandleRequestFile(s)
  PROVE  ServerSideTypeOK'
<1> DEFINE md == toServer[s].md
<1>1. ChannelTypeOK' /\ StoreTypeOK'
  BY TakesChannel, StoreUnchanged DEF HandleRequestFile, ServerSideTypeOK
<1>2. CASE HasFile(md) /\ Reply(s, [type |-> "File", data |-> files[md.id]])
  <2>1. [type |-> "File", data |-> files[md.id]] \in Response
    BY <1>2, FileContent DEF ServerSideTypeOK, Response
  <2> QED
    BY <1>1, <1>2, <2>1, ReplyType DEF ServerSideTypeOK
<1>3. CASE Fail(s)
  BY <1>1, <1>3, FailType DEF ServerSideTypeOK
<1> QED
  BY <1>2, <1>3 DEF HandleRequestFile

\* handle_client_request_proof answers with columns of a content.
LEMMA RequestProofType ==
  ASSUME ServerSideTypeOK, NEW s \in Slots, HandleRequestProof(s)
  PROVE  ServerSideTypeOK'
<1> DEFINE md == toServer[s].md
           r  == [type |-> "Columns", data |-> files[md.id], dims |-> md.dims]
<1>1. ChannelTypeOK' /\ StoreTypeOK' /\ toServer[s] \in ProofRequest
  BY TakesChannel, StoreUnchanged, RequestByType DEF HandleRequestProof, ServerSideTypeOK
<1>2. CASE HasFile(md) /\ Reply(s, r)
  <2>1. md.dims \in Shapes
    BY <1>1 DEF ProofRequest, Metadata
  <2>2. r \in Response
    BY <1>2, <2>1, FileContent DEF ServerSideTypeOK, Response
  <2> QED
    BY <1>1, <1>2, <2>2, ReplyType DEF ServerSideTypeOK
<1>3. CASE Fail(s)
  BY <1>1, <1>3, FailType DEF ServerSideTypeOK
<1> QED
  BY <1>2, <1>3 DEF HandleRequestProof

\* What an edit and an append have in common.
LEMMA NewVersionType ==
  ASSUME ServerSideTypeOK, ChannelTypeOK', NEW s \in Slots,
         NEW m \in EditRequest \cup AppendRequest, NEW data \in Content, NEW rows \in Nat,
         NewVersion(s, m, data, rows)
  PROVE  ServerSideTypeOK'
<1>1. PICK id \in FreshUlids :
        /\ files' = Put(files, id, data)
        /\ issued' = issued \cup {id}
        /\ Go(s, m, "open", VersionMetadata(m.md, id, files[m.md.id], data, rows))
        /\ UNCHANGED table
  BY DEF NewVersion
<1>2. StoreTypeOK' /\ id \in Ids
  BY <1>1, StoreNewFile DEF ServerSideTypeOK
<1>3. m.md \in Metadata
  BY DEF EditRequest, AppendRequest
<1>4. VersionMetadata(m.md, id, files[m.md.id], data, rows) \in Metadata
  BY <1>2, <1>3, VersionMetadataType
<1> QED
  BY <1>1, <1>2, <1>4, GoCreatingType DEF ServerSideTypeOK

\* handle_client_edit_file_bytes: an edited content is content of the same length.
LEMMA EditFileBytesType ==
  ASSUME ServerSideTypeOK, NEW s \in Slots, HandleEditFileBytes(s)
  PROVE  ServerSideTypeOK'
<1> DEFINE m == toServer[s]
<1>1. ChannelTypeOK' /\ m \in EditRequest
  BY TakesChannel, RequestByType DEF HandleEditFileBytes, ServerSideTypeOK
<1>2. CASE Fail(s) /\ UNCHANGED storeVars
  BY <1>1, <1>2, FailType, StoreUnchanged DEF ServerSideTypeOK
<1>3. CASE /\ HasFile(m.md)
           /\ NewVersion(s, m, Splice(files[m.md.id], m.start, m.data), m.md.rows)
  <2>1. m.start \in Nat /\ m.data \in Content /\ m.md.rows \in Nat
    BY <1>1 DEF EditRequest, Metadata
  <2>2. files[m.md.id] \in Content
    BY <1>3, FileContent DEF ServerSideTypeOK
  <2>3. Splice(files[m.md.id], m.start, m.data) \in Content
    BY <2>1, <2>2, SpliceContent
  <2> QED
    BY <1>1, <1>3, <2>1, <2>3, NewVersionType
<1> QED
  BY <1>2, <1>3 DEF HandleEditFileBytes

\* handle_client_append_to_file: an extended content is content.
LEMMA AppendToFileType ==
  ASSUME ServerSideTypeOK, NEW s \in Slots, HandleAppendToFile(s)
  PROVE  ServerSideTypeOK'
<1> DEFINE m    == toServer[s]
           data == files[m.md.id] \o m.data
<1>1. ChannelTypeOK' /\ m \in AppendRequest
  BY TakesChannel, RequestByType DEF HandleAppendToFile, ServerSideTypeOK
<1>2. CASE Fail(s) /\ UNCHANGED storeVars
  BY <1>1, <1>2, FailType, StoreUnchanged DEF ServerSideTypeOK
<1>3. CASE HasFile(m.md) /\ NewVersion(s, m, data, RowCount(data, m.md.dims))
  <2>1. m.data \in Content /\ m.md.dims \in Shapes
    BY <1>1 DEF AppendRequest, Metadata
  <2>2. files[m.md.id] \in Content
    BY <1>3, FileContent DEF ServerSideTypeOK
  <2>3. data \in Content
    BY <2>1, <2>2, ConcatContent
  <2>4. RowCount(data, m.md.dims) \in Nat
    BY <2>1, <2>3, RowCountNat
  <2> QED
    BY <1>1, <1>3, <2>3, <2>4, NewVersionType
<1> QED
  BY <1>2, <1>3 DEF HandleAppendToFile

\* handle_client_request_file_reshape answers with metadata.
LEMMA RequestFileReshapeType ==
  ASSUME ServerSideTypeOK, NEW s \in Slots, HandleRequestFileReshape(s)
  PROVE  ServerSideTypeOK'
<1> DEFINE m == toServer[s]
           ok == HasFile(m.md) /\ CommitOk(files[m.md.id], m.dims)
           md(id) == [m.md EXCEPT !.id = id, !.dims = m.dims,
                        !.rows = RowCount(files[m.md.id], m.dims),
                        !.root = Commit(files[m.md.id], m.dims)]
<1>1. ChannelTypeOK' /\ m \in ReshapeRequest
  BY TakesChannel, RequestByType DEF HandleRequestFileReshape, ServerSideTypeOK
<1>2. CASE Fail(s) /\ UNCHANGED storeVars
  BY <1>1, <1>2, FailType, StoreUnchanged DEF ServerSideTypeOK
<1>3. ASSUME ok, NEW id \in FreshUlids, issued' = issued \cup {id},
             Reply(s, [type |-> "CompactCommit", md |-> md(id)]), UNCHANGED <<files, table>>
      PROVE  ServerSideTypeOK'
  <2>1. m.md \in Metadata /\ m.dims \in Shapes /\ id \in Ids
    BY <1>1 DEF ReshapeRequest, FreshUlids
  <2>2. files[m.md.id] \in Content
    BY <1>3, FileContent DEF ServerSideTypeOK
  <2>3. RowCount(files[m.md.id], m.dims) \in Nat
    BY <2>1, <2>2, RowCountNat
  <2>4. md(id) \in Metadata
    BY <2>1, <2>2, <2>3 DEF Metadata, Commit, Commitment
  <2>5. [type |-> "CompactCommit", md |-> md(id)] \in Response
    BY <2>4 DEF Response
  <2>6. StoreTypeOK'
    BY <1>3, <2>1 DEF ServerSideTypeOK, StoreTypeOK
  <2> QED
    BY <1>1, <1>3, <2>5, <2>6, ReplyType DEF ServerSideTypeOK
<1> QED
  BY <1>2, <1>3 DEF HandleRequestFileReshape

\* handle_client_request_reshape_evaluation answers with an evaluation.
LEMMA RequestReshapeEvaluationType ==
  ASSUME ServerSideTypeOK, NEW s \in Slots, HandleRequestReshapeEvaluation(s)
  PROVE  ServerSideTypeOK'
<1> DEFINE old == toServer[s].old
<1>1. ChannelTypeOK' /\ StoreTypeOK'
  BY TakesChannel, StoreUnchanged DEF HandleRequestReshapeEvaluation, ServerSideTypeOK
<1>2. CASE HasFile(old) /\ Reply(s, [type |-> "ReshapeEvaluation", data |-> files[old.id]])
  <2>1. [type |-> "ReshapeEvaluation", data |-> files[old.id]] \in Response
    BY <1>2, FileContent DEF ServerSideTypeOK, Response
  <2> QED
    BY <1>1, <1>2, <2>1, ReplyType DEF ServerSideTypeOK
<1>3. CASE Fail(s)
  BY <1>1, <1>3, FailType DEF ServerSideTypeOK
<1> QED
  BY <1>2, <1>3 DEF HandleRequestReshapeEvaluation

\* The number of elements in a slice that is in range.
LEMMA SliceLength ==
  ASSUME NEW first \in Int, NEW last \in Int, NEW len \in Nat, SliceOk(first, last, len)
  PROVE  last + 1 - first \in Nat
BY DEF SliceOk

\* The append branch of handle_client_append_or_edit_eval_request answers or panics.
LEMMA RequestAppendEvaluationType ==
  ASSUME ServerSideTypeOK, NEW s \in Slots, HandleRequestAppendEvaluation(s)
  PROVE  ServerSideTypeOK'
<1> DEFINE m     == toServer[s]
           slice == AppendSlice(m.old, m.new)
           r     == [type |-> "AppendEvaluation", old |-> files[m.old.id],
                     new |-> files[m.new.id], rowLen |-> slice.last + 1 - slice.first]
<1>1. ChannelTypeOK' /\ StoreTypeOK' /\ m \in EvalRequest
  BY TakesChannel, StoreUnchanged, RequestByType
  DEF HandleRequestAppendEvaluation, ServerSideTypeOK
<1>2. CASE Fail(s)
  BY <1>1, <1>2, FailType DEF ServerSideTypeOK
<1>3. CASE Panic(s)
  BY <1>1, <1>3, PanicType DEF ServerSideTypeOK
<1>4. CASE /\ HasFile(m.old) /\ HasFile(m.new)
           /\ SliceOk(slice.first, slice.last, FieldLen(files[m.new.id]))
           /\ Reply(s, r)
  <2>1. files[m.old.id] \in Content /\ files[m.new.id] \in Content
    BY <1>4, FileContent DEF ServerSideTypeOK
  <2>2. m.old \in Metadata /\ m.new \in Metadata
    BY <1>1 DEF EvalRequest
  <2>3. /\ m.old.rows \in Nat /\ m.new.size \in Nat
        /\ m.old.dims.pre \in Nat
    BY <2>2, ShapesAssumption DEF Metadata
  <2>4. CeilDiv(m.new.size, CAPACITY) \in Nat
    BY <2>3, CeilDivNat, CapacityAssumption
  <2>5. slice.first \in Int /\ slice.last \in Int
    BY <2>3, <2>4 DEF AppendSlice
  <2>6. FieldLen(files[m.new.id]) \in Nat
    BY <2>1, FieldLenNat
  <2>7. slice.last + 1 - slice.first \in Nat
    BY <1>4, <2>5, <2>6, SliceLength
  <2>8. r \in Response
    BY <2>1, <2>7 DEF Response
  <2> QED
    BY <1>1, <1>4, <2>8, ReplyType DEF ServerSideTypeOK
<1> QED
  BY <1>2, <1>3, <1>4 DEF HandleRequestAppendEvaluation

\* Its edit branch answers or panics.
LEMMA RequestEditEvaluationType ==
  ASSUME ServerSideTypeOK, NEW s \in Slots, HandleRequestEditEvaluation(s)
  PROVE  ServerSideTypeOK'
<1> DEFINE m     == toServer[s]
           len   == Len(files[m.old.id])
           slice == EditSlice(m, len)
           r     == [type |-> "EditEvaluation", old |-> files[m.old.id],
                     new |-> files[m.new.id], rowBytes |-> slice.last + 1 - slice.first]
<1>1. ChannelTypeOK' /\ StoreTypeOK' /\ m \in EditEvalRequest
  BY TakesChannel, StoreUnchanged, RequestByType
  DEF HandleRequestEditEvaluation, ServerSideTypeOK
<1>2. CASE Fail(s)
  BY <1>1, <1>2, FailType DEF ServerSideTypeOK
<1>3. CASE Panic(s)
  BY <1>1, <1>3, PanicType DEF ServerSideTypeOK
<1>4. CASE /\ HasFile(m.old) /\ HasFile(m.new)
           /\ SliceOk(slice.first, slice.last, len)
           /\ Reply(s, r)
  <2>1. files[m.old.id] \in Content /\ files[m.new.id] \in Content
    BY <1>4, FileContent DEF ServerSideTypeOK
  <2>2. len \in Nat
    BY <2>1 DEF Content
  <2>3. m.first \in Nat /\ m.last \in Nat /\ m.old \in Metadata
    BY <1>1 DEF EditEvalRequest
  <2>4. m.old.dims.pre * BYTE_CAPACITY \in Nat
    BY <2>3, ShapesAssumption, CapacityAssumption DEF Metadata
  <2>5. slice.first \in Int /\ slice.last \in Int
    BY <2>2, <2>3, <2>4 DEF EditSlice
  <2>6. slice.last + 1 - slice.first \in Nat
    BY <1>4, <2>2, <2>5, SliceLength
  <2>7. r \in Response
    BY <2>1, <2>6 DEF Response
  <2> QED
    BY <1>1, <1>4, <2>7, ReplyType DEF ServerSideTypeOK
<1> QED
  BY <1>2, <1>3, <1>4 DEF HandleRequestEditEvaluation

\* Deletions and verdicts go to the database with their request in hand.
LEMMA DatabaseRequestType ==
  ASSUME ServerSideTypeOK, NEW s \in Slots, HandleDatabaseRequest(s)
  PROVE  ServerSideTypeOK'
<1>1. ChannelTypeOK' /\ StoreTypeOK' /\ toServer[s] \in DeleteRequest \cup VersionResponse
  BY TakesChannel, StoreUnchanged, RequestByType DEF HandleDatabaseRequest, ServerSideTypeOK
<1> QED
  BY <1>1, GoDeletingType DEF HandleDatabaseRequest, ServerSideTypeOK

-----------------------------------------------------------------------------
(* The database steps of the handlers.                                     *)

\* Closing the database keeps the connections well typed.
LEMMA ReleaseType ==
  ASSUME ChannelTypeOK, NEW s \in Slots, Release(s), UNCHANGED toServer
  PROVE  ChannelTypeOK'
BY DEF ChannelTypeOK, Release

\* A handler that opened the database is at the step of its request.
LEMMA OpenDatabaseType ==
  ASSUME ServerSideTypeOK, NEW s \in Slots, OpenDatabase(s)
  PROVE  ServerSideTypeOK'
<1> DEFINE t  == srv[s]
           pc == AfterOpen(t.msg)
<1>1. StoreTypeOK' /\ t \in Task /\ t.pc = "open"
  BY StoreUnchanged DEF OpenDatabase, ServerSideTypeOK, TalkTypeOK, storeVars
<1>2. CASE Fail(s) /\ UNCHANGED <<dbLock, toServer>>
  BY <1>1, <1>2, FailType DEF ServerSideTypeOK, ChannelTypeOK
<1>3. CASE /\ dbLock' = dbLock \cup {<<"server", s>>}
           /\ srv' = [srv EXCEPT ![s].pc = pc]
           /\ UNCHANGED <<toClient, ends, toServer>>
  <2>1. ChannelTypeOK'
    BY <1>3 DEF ServerSideTypeOK, ChannelTypeOK
  <2>2. t \in CreatingTask \cup DeletingTask
    BY <1>1, TaskByPc
  <2>3. [t EXCEPT !.pc = pc] \in Task
    <3>1. CASE t \in CreatingTask
      <4>1. t.msg.type \in DrawsUlid
        BY <3>1 DEF CreatingTask, UploadRequest, EditRequest, AppendRequest, DrawsUlid
      <4> QED
        BY <3>1, <4>1, OpenToCreate DEF AfterOpen
    <3>2. CASE t \in DeletingTask
      <4>1. t.msg \in DeleteRequest \cup VersionResponse
        BY <3>2 DEF DeletingTask
      <4>2. t.msg.type \notin DrawsUlid
        BY <4>1 DEF DeleteRequest, VersionResponse, DrawsUlid
      <4>3. CASE Accepts(t.msg)
        <5>1. t.msg \in VersionResponse
          BY <4>1, <4>3 DEF Accepts, DeleteRequest
        <5> QED
          BY <3>2, <4>2, <4>3, <5>1, OpenToRename DEF AfterOpen
      <4>4. CASE ~ Accepts(t.msg)
        BY <3>2, <4>2, <4>4, OpenToDelete DEF AfterOpen
      <4> QED
        BY <4>3, <4>4
    <3> QED
      BY <2>2, <3>1, <3>2
  <2>4. TalkTypeOK'
    BY <1>3, <2>3 DEF ServerSideTypeOK, TalkTypeOK
  <2> QED
    BY <1>1, <2>1, <2>4 DEF ServerSideTypeOK
<1> QED
  BY <1>2, <1>3 DEF OpenDatabase

\* The entry of a new file is metadata under a Ulid.
LEMMA CreateEntryType ==
  ASSUME ServerSideTypeOK, NEW s \in Slots, CreateEntry(s)
  PROVE  ServerSideTypeOK'
<1> DEFINE md == srv[s].md
<1>1. srv[s] \in CreatingTask
  BY TaskByPc DEF CreateEntry, ServerSideTypeOK, TalkTypeOK
<1>2. md \in Metadata /\ md.id \in Ids
  BY <1>1 DEF CreatingTask, Metadata
<1>3. StoreTypeOK'
  <2>1. IsMap(Put(table, md.id, md), Ids, Metadata)
    BY <1>2, PutIsMap DEF ServerSideTypeOK, StoreTypeOK
  <2> QED
    BY <2>1 DEF CreateEntry, ServerSideTypeOK, StoreTypeOK
<1>4. [type |-> "CompactCommit", md |-> md] \in Response
  BY <1>2 DEF Response
<1>5. TalkTypeOK'
  BY <1>4, ReplyType DEF CreateEntry, ServerSideTypeOK
<1>6. ChannelTypeOK'
  BY ReleaseType DEF CreateEntry, ServerSideTypeOK
<1> QED
  BY <1>3, <1>5, <1>6 DEF ServerSideTypeOK

\* Renaming a file moves a content to another Ulid.
LEMMA RenameFileType ==
  ASSUME ServerSideTypeOK, NEW s \in Slots, RenameFile(s)
  PROVE  ServerSideTypeOK'
<1> DEFINE m == srv[s].msg
<1>1. srv[s] \in RenamingTask
  BY TaskByPc DEF RenameFile, ServerSideTypeOK, TalkTypeOK
<1>2. m.old.id \in Ids /\ m.new.id \in Ids
  BY <1>1 DEF RenamingTask, VersionResponse, Metadata
<1>3. CASE Fail(s) /\ Release(s) /\ UNCHANGED <<toServer, files, table, issued>>
  BY <1>3, FailType, ReleaseType, StoreUnchanged DEF ServerSideTypeOK, storeVars
<1>4. CASE /\ HasFile(m.old)
           /\ files' = Renamed(m.old.id, m.new.id)
           /\ srv' = [srv EXCEPT ![s].pc = "delete"]
           /\ UNCHANGED <<toClient, ends, dbLock, toServer, table, issued>>
  <2>1. files[m.old.id] \in Content
    BY <1>4, FileContent DEF ServerSideTypeOK
  <2>2. IsMap(Drop(files, m.old.id), Ids, Content)
    BY DropIsMap DEF ServerSideTypeOK, StoreTypeOK
  <2>3. IsMap(files', Ids, Content)
    BY <1>2, <1>4, <2>1, <2>2, PutIsMap DEF Renamed
  <2>4. StoreTypeOK'
    BY <1>4, <2>3 DEF ServerSideTypeOK, StoreTypeOK
  <2>5. TalkTypeOK'
    BY <1>1, <1>4, RenameToDelete DEF ServerSideTypeOK, TalkTypeOK
  <2> QED
    BY <1>4, <2>4, <2>5 DEF ServerSideTypeOK, ChannelTypeOK
<1> QED
  BY <1>3, <1>4 DEF RenameFile

\* The answer to a verdict is a response.
LEMMA VerdictAnswer ==
  ASSUME NEW m \in VersionResponse
  PROVE  [type |-> "CompactCommit", md |-> IF m.accepted THEN m.new ELSE m.old] \in Response
<1>1. m.old \in Metadata /\ m.new \in Metadata
  BY DEF VersionResponse
<1> QED
  BY <1>1 DEF Response

\* Deleting an entry keeps the table a map.
LEMMA DeleteEntryType ==
  ASSUME ServerSideTypeOK, NEW s \in Slots, DeleteEntry(s)
  PROVE  ServerSideTypeOK'
<1> DEFINE m  == srv[s].msg
           id == EntryToDelete(m)
<1>1. srv[s] \in DeletingTask
  BY TaskByPc DEF DeleteEntry, ServerSideTypeOK, TalkTypeOK
<1>2. StoreTypeOK'
  <2>1. IsMap(Drop(table, id), Ids, Metadata)
    BY DropIsMap DEF ServerSideTypeOK, StoreTypeOK
  <2> QED
    BY <2>1 DEF DeleteEntry, ServerSideTypeOK, StoreTypeOK
<1>3. CASE /\ m.type = "ReshapeResponse"
           /\ Reply(s, [type |-> "CompactCommit", md |-> IF m.accepted THEN m.new ELSE m.old])
           /\ Release(s)
           /\ UNCHANGED toServer
  <2>1. m \in VersionResponse
    BY <1>1, <1>3 DEF DeletingTask, DeleteRequest
  <2> QED
    BY <1>2, <1>3, <2>1, VerdictAnswer, ReplyType, ReleaseType DEF ServerSideTypeOK
<1>4. CASE /\ srv' = [srv EXCEPT ![s].pc = "remove", ![s].found = id \in DOMAIN table]
           /\ Release(s) \/ UNCHANGED dbLock
           /\ UNCHANGED <<toClient, ends, toServer>>
  <2>1. TalkTypeOK'
    <3>1. (id \in DOMAIN table) \in BOOLEAN
      OBVIOUS
    <3>2. [srv[s] EXCEPT !.pc = "remove", !.found = id \in DOMAIN table] \in Task
      BY <1>1, <3>1, DeleteToRemove
    <3> QED
      BY <1>4, <3>2 DEF ServerSideTypeOK, TalkTypeOK
  <2>2. ChannelTypeOK'
    BY <1>4, ReleaseType DEF ServerSideTypeOK, ChannelTypeOK
  <2> QED
    BY <1>2, <2>1, <2>2 DEF ServerSideTypeOK
<1> QED
  BY <1>3, <1>4 DEF DeleteEntry

\* Removing a file keeps the directory a map.
LEMMA RemoveFileType ==
  ASSUME ServerSideTypeOK, NEW s \in Slots, RemoveFile(s)
  PROVE  ServerSideTypeOK'
<1> DEFINE m  == srv[s].msg
           id == FileToRemove(m)
           r  == [type |-> "CompactCommit", md |-> IF m.accepted THEN m.new ELSE m.old]
<1>1. m \in DeleteRequest \cup VersionResponse
  BY TaskByPc DEF RemoveFile, ServerSideTypeOK, TalkTypeOK, RemovingTask
<1>2. StoreTypeOK'
  <2>1. IsMap(Drop(files, id), Ids, Content)
    BY DropIsMap DEF ServerSideTypeOK, StoreTypeOK
  <2> QED
    BY <2>1 DEF RemoveFile, ServerSideTypeOK, StoreTypeOK
<1>3. ChannelTypeOK'
  BY ReleaseType DEF RemoveFile, ServerSideTypeOK
<1>4. CASE Fail(s)
  BY <1>2, <1>3, <1>4, FailType DEF ServerSideTypeOK
<1>5. CASE m.type = "DeleteFile" /\ Reply(s, [type |-> "FileDeleted"])
  <2>1. [type |-> "FileDeleted"] \in Response
    BY DEF Response
  <2> QED
    BY <1>2, <1>3, <1>5, <2>1, ReplyType DEF ServerSideTypeOK
<1>6. CASE m.type # "DeleteFile" /\ Reply(s, r)
  <2>1. m \in VersionResponse
    BY <1>1, <1>6 DEF DeleteRequest
  <2> QED
    BY <1>2, <1>3, <1>6, <2>1, VerdictAnswer, ReplyType DEF ServerSideTypeOK
<1> QED
  BY <1>4, <1>5, <1>6 DEF RemoveFile

\* A task that finds its connection closed ends.
LEMMA EndOfStreamType ==
  ASSUME ServerSideTypeOK, NEW s \in Slots, EndOfStream(s)
  PROVE  ServerSideTypeOK'
BY DEF EndOfStream, serverVars, ServerSideTypeOK, StoreTypeOK, ChannelTypeOK, TalkTypeOK

\* A crash resets the tasks and keeps the disk.
LEMMA ServerCrashType ==
  ASSUME ServerSideTypeOK, ServerCrash
  PROVE  ServerSideTypeOK'
<1>1. StoreTypeOK'
  BY StoreUnchanged DEF ServerCrash, ServerSideTypeOK
<1>2. ChannelTypeOK'
  BY DEF ServerCrash, ServerSideTypeOK, ChannelTypeOK
<1>3. TalkTypeOK'
  BY IdleTaskType DEF ServerCrash, ServerSideTypeOK, TalkTypeOK
<1> QED
  BY <1>1, <1>2, <1>3 DEF ServerSideTypeOK

\* Every step of a connection's task keeps the server's side well typed.
LEMMA ServerStepType ==
  ASSUME ServerSideTypeOK, NEW s \in Slots, ServerStep(s)
  PROVE  ServerSideTypeOK'
BY UploadNewFileType, RequestFileType, RequestProofType, EditFileBytesType, AppendToFileType,
   RequestFileReshapeType, RequestReshapeEvaluationType, RequestAppendEvaluationType,
   RequestEditEvaluationType, DatabaseRequestType, OpenDatabaseType, CreateEntryType,
   RenameFileType, DeleteEntryType, RemoveFileType, EndOfStreamType
DEF ServerStep

-----------------------------------------------------------------------------
(* The client processes: what a process at a step holds.                   *)

\* A process at a step holds the request and the metadata that the step works on.
LEMMA ProcessByPc ==
  ASSUME NEW p \in Process
  PROVE  /\ p.pc = "commit" => p \in AwaitsCommit
         /\ p.pc = "file" => p \in AwaitsFile
         /\ p.pc = "columns" => p \in AwaitsColumns \cup AwaitsProof
         /\ p.pc = "evaluation" => p \in AwaitsEvaluation
         /\ p.pc = "deletion" => p \in AwaitsDeletion
         /\ p.pc = "dbOpen" => p \in Records \cup Forgets
         /\ p.pc = "dbCreate" => p \in Records
         /\ p.pc = "dbDelete" => p \in Forgets \cup Replaces
<1>1. CASE p = IdleProcess
  BY <1>1 DEF IdleProcess
<1>2. CASE p \in AwaitsCommit
  BY <1>2 DEF AwaitsCommit
<1>3. CASE p \in AwaitsFile
  BY <1>3 DEF AwaitsFile
<1>4. CASE p \in AwaitsColumns
  BY <1>4 DEF AwaitsColumns
<1>5. CASE p \in AwaitsProof
  BY <1>5 DEF AwaitsProof
<1>6. CASE p \in AwaitsEvaluation
  BY <1>6 DEF AwaitsEvaluation
<1>7. CASE p \in AwaitsDeletion
  BY <1>7 DEF AwaitsDeletion
<1>8. CASE p \in Records
  BY <1>8 DEF Records
<1>9. CASE p \in Forgets
  BY <1>9 DEF Forgets
<1>10. CASE p \in Replaces
  BY <1>10 DEF Replaces
<1> QED
  BY <1>1, <1>2, <1>3, <1>4, <1>5, <1>6, <1>7, <1>8, <1>9, <1>10 DEF Process

\* The tag of each kind of request.
LEMMA RequestTypes ==
  /\ \A m \in UploadRequest : m.type = "UploadNewFile"
  /\ \A m \in FileRequest : m.type = "RequestFile"
  /\ \A m \in ProofRequest : m.type = "RequestProof"
  /\ \A m \in DeleteRequest : m.type = "DeleteFile"
  /\ \A m \in VersionRequest :
       m.type \in {"EditFileBytes", "AppendToFile", "RequestFileReshape"}
BY DEF UploadRequest, FileRequest, ProofRequest, DeleteRequest, VersionRequest, EditRequest,
       AppendRequest, ReshapeRequest

\* The type field of an answer says which record it is.
LEMMA ResponseByType ==
  ASSUME NEW r \in Response
  PROVE  /\ r.type = "CompactCommit" => r.md \in Metadata
         /\ r.type = "File" => r.data \in Content
BY DEF Response

\* A client process that runs nothing is a process.
LEMMA IdleProcessType == IdleProcess \in Process
BY DEF Process

-----------------------------------------------------------------------------
(* The parts that client actions are made of.                              *)

EndsTypeOK     == ends \in [Slots -> SUBSET {"client", "server"}]
ToServerTypeOK == toServer \in [Slots -> Request \cup {None}]
ToClientTypeOK == toClient \in [Slots -> Response \cup {None}]
LockTypeOK     == dbLock \subseteq {"client", "server"} \X Slots
SessTypeOK     == sess \in [Slots -> Process]
RecordsTypeOK  == IsMap(clientDb, Ids, Metadata)
LocalTypeOK    == local \in [Names -> Content]

ClientSideTypeOK == /\ EndsTypeOK
                    /\ ToServerTypeOK
                    /\ ToClientTypeOK
                    /\ LockTypeOK
                    /\ SessTypeOK
                    /\ RecordsTypeOK
                    /\ LocalTypeOK

\* Sending a request keeps its channel well typed, also when nobody reads it.
LEMMA SendType ==
  ASSUME ToServerTypeOK, NEW s \in Slots, NEW m \in Request, Send(s, m)
  PROVE  ToServerTypeOK'
BY DEF ToServerTypeOK, Send

\* The answer that a process takes is a response with the awaited tag.
LEMMA AnsweredType ==
  ASSUME ToClientTypeOK, SessTypeOK, NEW s \in Slots, NEW pc, NEW type, Answered(s, pc, type)
  PROVE  /\ toClient[s] \in Response
         /\ toClient[s].type = type
         /\ sess[s] \in Process
         /\ sess[s].pc = pc
         /\ ToClientTypeOK'
BY DEF ToClientTypeOK, SessTypeOK, Answered

\* A process that returns leaves its connection well typed.
LEMMA ExitType ==
  ASSUME EndsTypeOK, ToClientTypeOK, SessTypeOK, NEW s \in Slots, Exit(s)
  PROVE  EndsTypeOK' /\ ToClientTypeOK' /\ SessTypeOK'
BY IdleProcessType DEF EndsTypeOK, ToClientTypeOK, SessTypeOK, Exit

\* Connecting and sending a first request keeps the client's side well typed.
LEMMA BeginType ==
  ASSUME ClientSideTypeOK, NEW s \in Slots, NEW pc, NEW req \in Request, Begin(s, pc, req),
         [pc |-> pc, req |-> req, new |-> None, file |-> << >>] \in Process
  PROVE  ClientSideTypeOK'
<1>1. EndsTypeOK'
  BY DEF Begin, ClientSideTypeOK, EndsTypeOK
<1>2. ToServerTypeOK'
  BY DEF Begin, ClientSideTypeOK, ToServerTypeOK
<1>3. SessTypeOK'
  BY DEF Begin, ClientSideTypeOK, SessTypeOK
<1> QED
  BY <1>1, <1>2, <1>3
  DEF Begin, ClientSideTypeOK, ToClientTypeOK, LockTypeOK, RecordsTypeOK, LocalTypeOK

\* A step that leaves the databases and the local files alone keeps them well typed.
LEMMA ClientDbUnchanged ==
  ASSUME ClientSideTypeOK, UNCHANGED <<dbLock, clientDb, local>>
  PROVE  LockTypeOK' /\ RecordsTypeOK' /\ LocalTypeOK'
BY DEF ClientSideTypeOK, LockTypeOK, RecordsTypeOK, LocalTypeOK

\* A process advances to a state of its type.
LEMMA AdvanceType ==
  ASSUME SessTypeOK, NEW s \in Slots, NEW p \in Process, sess' = [sess EXCEPT ![s] = p]
  PROVE  SessTypeOK'
BY DEF SessTypeOK

-----------------------------------------------------------------------------
(* Every client action keeps the clients and their connections well typed. *)

\* Nothing downloaded yet is content.
LEMMA EmptyContent == << >> \in Content
BY DEF Content

\* What an operation starts with is an operation of its type.
LEMMA BeginProcess ==
  /\ \A req \in UploadRequest \cup VersionRequest :
       [pc |-> "commit", req |-> req, new |-> None, file |-> << >>] \in Process
  /\ \A req \in FileRequest :
       [pc |-> "file", req |-> req, new |-> None, file |-> << >>] \in Process
  /\ \A req \in ProofRequest :
       [pc |-> "columns", req |-> req, new |-> None, file |-> << >>] \in Process
  /\ \A req \in DeleteRequest :
       [pc |-> "deletion", req |-> req, new |-> None, file |-> << >>] \in Process
BY EmptyContent DEF Process, AwaitsCommit, AwaitsFile, AwaitsColumns, AwaitsDeletion

\* Every operation starts with a well typed request.
LEMMA StartType ==
  ASSUME ClientSideTypeOK, NEW s \in Slots, Start(s)
  PROVE  ClientSideTypeOK'
<1>1. ASSUME NEW name \in Names, NEW dims \in Shapes, StartUpload(s, name, dims)
      PROVE  ClientSideTypeOK'
  <2> DEFINE req == [type |-> "UploadNewFile", name |-> name, data |-> local[name], dims |-> dims]
  <2>1. req \in UploadRequest
    BY DEF ClientSideTypeOK, LocalTypeOK, UploadRequest
  <2>2. Begin(s, "commit", req)
    BY <1>1 DEF StartUpload
  <2> QED
    BY <2>1, <2>2, BeginType, BeginProcess, RequestKinds
<1>2. ASSUME NEW id \in DOMAIN clientDb
      PROVE  clientDb[id] \in Metadata
  BY MapValue DEF ClientSideTypeOK, RecordsTypeOK
<1>3. ASSUME NEW md \in Metadata, StartDownload(s, md)
      PROVE  ClientSideTypeOK'
  <2>1. [type |-> "RequestFile", md |-> md] \in FileRequest
    BY DEF FileRequest
  <2> QED
    BY <1>3, <2>1, BeginType, BeginProcess, RequestKinds DEF StartDownload
<1>4. ASSUME NEW md \in Metadata, StartProof(s, md)
      PROVE  ClientSideTypeOK'
  <2>1. [type |-> "RequestProof", md |-> md] \in ProofRequest
    BY DEF ProofRequest
  <2> QED
    BY <1>4, <2>1, BeginType, BeginProcess, RequestKinds DEF StartProof
<1>5. ASSUME NEW md \in Metadata, StartDelete(s, md)
      PROVE  ClientSideTypeOK'
  <2>1. [type |-> "DeleteFile", md |-> md] \in DeleteRequest
    BY DEF DeleteRequest
  <2> QED
    BY <1>5, <2>1, BeginType, BeginProcess, RequestKinds DEF StartDelete
<1>6. ASSUME NEW md \in Metadata, NEW dims \in Shapes, StartReshape(s, md, dims)
      PROVE  ClientSideTypeOK'
  <2>1. [type |-> "RequestFileReshape", md |-> md, dims |-> dims] \in VersionRequest
    BY DEF VersionRequest, ReshapeRequest
  <2> QED
    BY <1>6, <2>1, BeginType, BeginProcess, RequestKinds DEF StartReshape
<1>7. ASSUME NEW md \in Metadata, NEW data \in Patches, StartAppend(s, md, data)
      PROVE  ClientSideTypeOK'
  <2>1. [type |-> "AppendToFile", md |-> md, data |-> data] \in VersionRequest
    BY PatchesAssumption DEF VersionRequest, AppendRequest
  <2> QED
    BY <1>7, <2>1, BeginType, BeginProcess, RequestKinds DEF StartAppend
<1>8. ASSUME NEW md \in Metadata, NEW data \in Patches,
             NEW start \in EditStarts \cap (0..md.size), StartEdit(s, md, start, data)
      PROVE  ClientSideTypeOK'
  <2>1. [type |-> "EditFileBytes", md |-> md, start |-> start, data |-> data] \in VersionRequest
    BY PatchesAssumption DEF VersionRequest, EditRequest
  <2> QED
    BY <1>8, <2>1, BeginType, BeginProcess, RequestKinds DEF StartEdit
<1> QED
  BY <1>1, <1>2, <1>3, <1>4, <1>5, <1>6, <1>7, <1>8 DEF Start

\* The client's side stays well typed: an operation that fails.
LEMMA GiveUpType ==
  ASSUME ClientSideTypeOK, NEW s \in Slots, GiveUp(s)
  PROVE  ClientSideTypeOK'
BY ExitType, ClientDbUnchanged DEF GiveUp, ClientSideTypeOK, ToServerTypeOK

\* The client's side stays well typed: upload_file after its commit.
LEMMA UploadCommittedType ==
  ASSUME ClientSideTypeOK, NEW s \in Slots, UploadCommitted(s)
  PROVE  ClientSideTypeOK'
<1> DEFINE p == [sess[s] EXCEPT !.pc = "columns", !.new = toClient[s].md]
<1>1. /\ toClient[s].md \in Metadata /\ ToClientTypeOK'
      /\ sess[s] \in AwaitsCommit
  BY AnsweredType, ProcessByPc, ResponseByType DEF UploadCommitted, ClientSideTypeOK
<1>2. sess[s].req \in UploadRequest
  BY <1>1, RequestTypes DEF UploadCommitted, Operation, AwaitsCommit
<1>3. p \in AwaitsProof
  BY <1>1, <1>2 DEF AwaitsCommit, AwaitsProof
<1>4. SessTypeOK'
  <2>1. sess' = [sess EXCEPT ![s] = p]
    BY DEF UploadCommitted
  <2> QED
    BY <1>3, <2>1, AdvanceType DEF ClientSideTypeOK, Process
<1>5. ToServerTypeOK'
  <2>1. [type |-> "RequestProof", md |-> toClient[s].md] \in ProofRequest
    BY <1>1 DEF ProofRequest
  <2> QED
    BY <2>1, SendType, RequestKinds DEF UploadCommitted, ClientSideTypeOK
<1> QED
  BY <1>1, <1>4, <1>5, ClientDbUnchanged DEF UploadCommitted, ClientSideTypeOK, EndsTypeOK

\* The client's side stays well typed: upload_file after its proof.
LEMMA UploadProvedType ==
  ASSUME ClientSideTypeOK, NEW s \in Slots, UploadProved(s)
  PROVE  ClientSideTypeOK'
<1> DEFINE p == [sess[s] EXCEPT !.pc = "dbOpen"]
<1>1. sess[s] \in AwaitsColumns \cup AwaitsProof /\ ToClientTypeOK'
  BY AnsweredType, ProcessByPc DEF UploadProved, ClientSideTypeOK
<1>2. sess[s] \in AwaitsProof
  BY <1>1, RequestTypes DEF UploadProved, Operation, AwaitsColumns
<1>3. ToServerTypeOK' /\ LockTypeOK' /\ RecordsTypeOK' /\ LocalTypeOK'
  BY ClientDbUnchanged DEF UploadProved, ClientSideTypeOK, ToServerTypeOK
<1>4. CASE Exit(s)
  BY <1>3, <1>4, ExitType DEF ClientSideTypeOK
<1>5. CASE sess' = [sess EXCEPT ![s].pc = "dbOpen"] /\ UNCHANGED ends
  <2>1. p \in Process
    BY <1>2 DEF AwaitsProof, Records, Process
  <2>2. sess' = [sess EXCEPT ![s] = p]
    BY <1>5
  <2> QED
    BY <1>1, <1>3, <1>5, <2>1, <2>2, AdvanceType DEF ClientSideTypeOK, EndsTypeOK
<1> QED
  BY <1>4, <1>5 DEF UploadProved

\* The client's side stays well typed: download_file after its file.
LEMMA FileDownloadedType ==
  ASSUME ClientSideTypeOK, NEW s \in Slots, FileDownloaded(s)
  PROVE  ClientSideTypeOK'
<1> DEFINE p == [sess[s] EXCEPT !.pc = "columns", !.file = toClient[s].data]
<1>1. toClient[s].data \in Content /\ ToClientTypeOK' /\ sess[s] \in AwaitsFile
  BY AnsweredType, ProcessByPc, ResponseByType DEF FileDownloaded, ClientSideTypeOK
<1>2. SessTypeOK'
  <2>1. p \in AwaitsColumns
    BY <1>1 DEF AwaitsFile, AwaitsColumns
  <2>2. sess' = [sess EXCEPT ![s] = p]
    BY DEF FileDownloaded
  <2> QED
    BY <2>1, <2>2, AdvanceType DEF ClientSideTypeOK, Process
<1>3. ToServerTypeOK'
  <2>1. [type |-> "RequestProof", md |-> sess[s].req.md] \in ProofRequest
    BY <1>1 DEF AwaitsFile, FileRequest, ProofRequest
  <2> QED
    BY <2>1, SendType, RequestKinds DEF FileDownloaded, ClientSideTypeOK
<1> QED
  BY <1>1, <1>2, <1>3, ClientDbUnchanged DEF FileDownloaded, ClientSideTypeOK, EndsTypeOK

\* The client's side stays well typed: download_file after its proof.
LEMMA DownloadProvedType ==
  ASSUME ClientSideTypeOK, NEW s \in Slots, DownloadProved(s)
  PROVE  ClientSideTypeOK'
<1>1. sess[s] \in AwaitsColumns \cup AwaitsProof
  BY AnsweredType, ProcessByPc DEF DownloadProved, ClientSideTypeOK
<1>2. sess[s].file \in Content
  BY <1>1 DEF AwaitsColumns, AwaitsProof
<1>3. LocalTypeOK'
  BY <1>2 DEF DownloadProved, ClientSideTypeOK, LocalTypeOK
<1>4. EndsTypeOK' /\ ToClientTypeOK' /\ SessTypeOK'
  BY ExitType DEF DownloadProved, ClientSideTypeOK
<1> QED
  BY <1>3, <1>4
  DEF DownloadProved, ClientSideTypeOK, ToServerTypeOK, LockTypeOK, RecordsTypeOK

\* The client's side stays well typed: request_proof.
LEMMA ProofAnsweredType ==
  ASSUME ClientSideTypeOK, NEW s \in Slots, ProofAnswered(s)
  PROVE  ClientSideTypeOK'
BY ExitType, ClientDbUnchanged DEF ProofAnswered, ClientSideTypeOK, ToServerTypeOK

\* The new version that a client was answered with.
LEMMA VersionCommitted ==
  ASSUME ClientSideTypeOK, NEW s \in Slots, Answered(s, "commit", "CompactCommit"),
         Operation(s) \in {"EditFileBytes", "AppendToFile", "RequestFileReshape"}
  PROVE  /\ toClient[s].md \in Metadata
         /\ ToClientTypeOK'
         /\ sess[s] \in AwaitsCommit
         /\ sess[s].req \in VersionRequest
         /\ sess[s].req.md \in Metadata
         /\ [sess[s] EXCEPT !.pc = "evaluation", !.new = toClient[s].md] \in Process
<1>1. toClient[s].md \in Metadata /\ ToClientTypeOK' /\ sess[s] \in AwaitsCommit
  BY AnsweredType, ProcessByPc, ResponseByType DEF ClientSideTypeOK
<1>2. sess[s].req \in VersionRequest
  BY <1>1, RequestTypes DEF Operation, AwaitsCommit
<1>3. sess[s].req.md \in Metadata
  BY <1>2 DEF VersionRequest, EditRequest, AppendRequest, ReshapeRequest
<1>4. [sess[s] EXCEPT !.pc = "evaluation", !.new = toClient[s].md] \in AwaitsEvaluation
  BY <1>1, <1>2 DEF AwaitsCommit, AwaitsEvaluation
<1> QED
  BY <1>1, <1>2, <1>3, <1>4 DEF Process

\* The evaluation that a client was answered with.
LEMMA VersionEvaluated ==
  ASSUME ClientSideTypeOK, NEW s \in Slots, NEW type, Answered(s, "evaluation", type)
  PROVE  /\ ToClientTypeOK'
         /\ sess[s].req.md \in Metadata
         /\ sess[s].new \in Metadata
         /\ [sess[s] EXCEPT !.pc = "dbOpen"] \in Process
<1>1. ToClientTypeOK' /\ sess[s] \in AwaitsEvaluation
  BY AnsweredType, ProcessByPc DEF ClientSideTypeOK
<1>2. sess[s].req.md \in Metadata
  BY <1>1 DEF AwaitsEvaluation, VersionRequest, EditRequest, AppendRequest, ReshapeRequest
<1>3. [sess[s] EXCEPT !.pc = "dbOpen"] \in Records
  BY <1>1 DEF AwaitsEvaluation, Records
<1> QED
  BY <1>1, <1>2, <1>3 DEF AwaitsEvaluation, Process

\* A verdict is a request.
LEMMA VerdictType ==
  ASSUME ToServerTypeOK, NEW s \in Slots, sess[s].req.md \in Metadata, NEW new \in Metadata,
         NEW accepted \in BOOLEAN, Verdict(s, new, accepted)
  PROVE  ToServerTypeOK'
<1>1. [type |-> "EditOrAppendResponse", new |-> sess[s].req.md, old |-> new,
       accepted |-> accepted] \in VersionResponse
  BY DEF VersionResponse
<1> QED
  BY <1>1, SendType, RequestKinds DEF Verdict

\* An operation that goes on or returns.
LEMMA GoesOnOrExits ==
  ASSUME EndsTypeOK, ToClientTypeOK, SessTypeOK, ToClientTypeOK', NEW s \in Slots,
         NEW p \in Process,
         (sess' = [sess EXCEPT ![s] = p] /\ UNCHANGED ends) \/ Exit(s)
  PROVE  EndsTypeOK' /\ SessTypeOK'
BY AdvanceType, ExitType DEF EndsTypeOK

\* The client's side stays well typed: reshape_file after its commit.
LEMMA ReshapeCommittedType ==
  ASSUME ClientSideTypeOK, NEW s \in Slots, ReshapeCommitted(s)
  PROVE  ClientSideTypeOK'
<1> DEFINE p == [sess[s] EXCEPT !.pc = "evaluation", !.new = toClient[s].md]
           m == [type |-> "RequestReshapeEvaluation", old |-> sess[s].req.md,
                 new |-> toClient[s].md]
<1>1. /\ toClient[s].md \in Metadata /\ sess[s].req.md \in Metadata
      /\ ToClientTypeOK' /\ p \in Process
  BY VersionCommitted DEF ReshapeCommitted
<1>2. m \in EvalRequest
  BY <1>1 DEF EvalRequest
<1>3. ToServerTypeOK'
  BY <1>2, SendType, RequestKinds DEF ReshapeCommitted, ClientSideTypeOK
<1>4. sess' = [sess EXCEPT ![s] = p] /\ UNCHANGED ends
  BY DEF ReshapeCommitted
<1>5. EndsTypeOK' /\ SessTypeOK'
  BY <1>1, <1>4, GoesOnOrExits DEF ClientSideTypeOK
<1> QED
  BY <1>1, <1>3, <1>5, ClientDbUnchanged DEF ReshapeCommitted, ClientSideTypeOK

\* The client's side stays well typed: reshape_file after its evaluation.
LEMMA ReshapeEvaluatedType ==
  ASSUME ClientSideTypeOK, NEW s \in Slots, ReshapeEvaluated(s)
  PROVE  ClientSideTypeOK'
<1> DEFINE old == sess[s].req.md
           new == sess[s].new
           p   == [sess[s] EXCEPT !.pc = "dbOpen"]
           ok  == /\ EvaluationVerifies(toClient[s].data, old)
                  /\ EvaluationVerifies(toClient[s].data, new)
<1>1. old \in Metadata /\ new \in Metadata /\ ToClientTypeOK' /\ p \in Process
  BY VersionEvaluated DEF ReshapeEvaluated
<1>2. ok \in BOOLEAN
  BY DEF EvaluationVerifies
<1>3. [type |-> "ReshapeResponse", old |-> old, new |-> new, accepted |-> ok] \in VersionResponse
  BY <1>1, <1>2 DEF VersionResponse
<1>4. ToServerTypeOK'
  BY <1>3, SendType, RequestKinds DEF ReshapeEvaluated, ReshapeVerdict, ClientSideTypeOK
<1>5. (sess' = [sess EXCEPT ![s] = p] /\ UNCHANGED ends) \/ Exit(s)
  BY DEF ReshapeEvaluated
<1>6. EndsTypeOK' /\ SessTypeOK'
  BY <1>1, <1>5, GoesOnOrExits DEF ClientSideTypeOK
<1> QED
  BY <1>1, <1>4, <1>6, ClientDbUnchanged DEF ReshapeEvaluated, ClientSideTypeOK

\* The client's side stays well typed: delete_file after its answer.
LEMMA DeletedType ==
  ASSUME ClientSideTypeOK, NEW s \in Slots, Deleted(s)
  PROVE  ClientSideTypeOK'
<1> DEFINE p == [sess[s] EXCEPT !.pc = "dbOpen"]
<1>1. ToClientTypeOK' /\ sess[s] \in AwaitsDeletion
  BY AnsweredType, ProcessByPc DEF Deleted, ClientSideTypeOK
<1>2. p \in Process
  BY <1>1 DEF AwaitsDeletion, Forgets, Process
<1>3. sess' = [sess EXCEPT ![s] = p] /\ UNCHANGED ends
  BY DEF Deleted
<1>4. EndsTypeOK' /\ SessTypeOK'
  BY <1>1, <1>2, <1>3, GoesOnOrExits DEF ClientSideTypeOK
<1> QED
  BY <1>1, <1>4, ClientDbUnchanged DEF Deleted, ClientSideTypeOK, ToServerTypeOK

\* The client's side stays well typed: append_to_file after its commit.
LEMMA AppendCommittedType ==
  ASSUME ClientSideTypeOK, NEW s \in Slots, AppendCommitted(s)
  PROVE  ClientSideTypeOK'
<1> DEFINE old == sess[s].req.md
           new == toClient[s].md
           p   == [sess[s] EXCEPT !.pc = "evaluation", !.new = new]
           m   == [type |-> "RequestAppendEvaluation", old |-> old, new |-> new]
<1>1. old \in Metadata /\ new \in Metadata /\ ToClientTypeOK' /\ p \in Process
  BY VersionCommitted DEF AppendCommitted
<1>2. m \in EvalRequest
  BY <1>1 DEF EvalRequest
<1>3. ToServerTypeOK'
  BY <1>1, <1>2, SendType, VerdictType, RequestKinds DEF AppendCommitted, ClientSideTypeOK
<1>4. (sess' = [sess EXCEPT ![s] = p] /\ UNCHANGED ends) \/ Exit(s)
  BY DEF AppendCommitted
<1>5. EndsTypeOK' /\ SessTypeOK'
  BY <1>1, <1>4, GoesOnOrExits DEF ClientSideTypeOK
<1> QED
  BY <1>1, <1>3, <1>5, ClientDbUnchanged DEF AppendCommitted, ClientSideTypeOK

\* The client's side stays well typed: append_to_file after its evaluation.
LEMMA AppendEvaluatedType ==
  ASSUME ClientSideTypeOK, NEW s \in Slots, AppendEvaluated(s)
  PROVE  ClientSideTypeOK'
<1> DEFINE old == sess[s].req.md
           new == sess[s].new
           r   == toClient[s]
           p   == [sess[s] EXCEPT !.pc = "dbOpen"]
           verified == EvaluationVerifies(r.old, old) /\ EvaluationVerifies(r.new, new)
           appended == Len(r.old) = old.size /\ r.new = r.old \o sess[s].req.data
           ok  == verified /\ appended
<1>1. old \in Metadata /\ new \in Metadata /\ ToClientTypeOK' /\ p \in Process
  BY VersionEvaluated DEF AppendEvaluated
<1>2. ok \in BOOLEAN
  BY DEF EvaluationVerifies
<1>3. UNCHANGED toServer \/ Verdict(s, new, ok)
  BY DEF AppendEvaluated
<1>4. ToServerTypeOK'
  BY <1>1, <1>2, <1>3, VerdictType DEF ClientSideTypeOK, ToServerTypeOK
<1>5. (sess' = [sess EXCEPT ![s] = p] /\ UNCHANGED ends) \/ Exit(s)
  BY DEF AppendEvaluated
<1>6. EndsTypeOK' /\ SessTypeOK'
  BY <1>1, <1>5, GoesOnOrExits DEF ClientSideTypeOK
<1> QED
  BY <1>1, <1>4, <1>6, ClientDbUnchanged DEF AppendEvaluated, ClientSideTypeOK

\* The client's side stays well typed: edit_file after its commit.
LEMMA EditCommittedType ==
  ASSUME ClientSideTypeOK, NEW s \in Slots, EditCommitted(s)
  PROVE  ClientSideTypeOK'
<1> DEFINE req == sess[s].req
           new == toClient[s].md
           row == req.md.dims.pre * BYTE_CAPACITY
           rows == EditedRowRange(req.md.dims, req.start, req.data)
           p   == [sess[s] EXCEPT !.pc = "evaluation", !.new = new]
           m   == [type |-> "RequestEditEvaluation", old |-> req.md, new |-> new,
                   first |-> rows.first, last |-> rows.last]
<1>1. /\ req.md \in Metadata /\ new \in Metadata /\ ToClientTypeOK' /\ p \in Process
      /\ req \in VersionRequest
  BY VersionCommitted DEF EditCommitted
<1>2. req \in EditRequest
  BY <1>1 DEF EditCommitted, Operation, VersionRequest, AppendRequest, ReshapeRequest
<1>3. req.start \in Nat /\ Len(req.data) \in Nat
  BY <1>2 DEF EditRequest, Content
<1>4. row \in Nat \ {0}
  <2>1. req.md.dims.pre \in Nat \ {0}
    BY <1>1, ShapesAssumption DEF Metadata
  <2>2. \A x, y \in Nat \ {0} : x * y \in Nat \ {0}
    OBVIOUS
  <2> QED
    BY <2>1, <2>2, CapacityAssumption
<1>5. \A n \in Nat : n \div row \in Nat
  <2> HIDE DEF row
  <2> QED
    BY <1>4
<1>6. m.first \in Nat /\ m.last \in Nat
  <2>1. req.start + Len(req.data) \in Nat
    BY <1>3
  <2> QED
    BY <1>3, <1>5, <2>1 DEF EditedRowRange
<1>7. m \in EditEvalRequest
  <2> HIDE DEF row, rows
  <2> QED
    BY <1>1, <1>6 DEF EditEvalRequest
<1>8. Send(s, m) \/ UNCHANGED toServer
  BY DEF EditCommitted
<1>9. ToServerTypeOK'
  BY <1>7, <1>8, SendType, RequestKinds DEF ClientSideTypeOK, ToServerTypeOK
<1>10. (sess' = [sess EXCEPT ![s] = p] /\ UNCHANGED ends) \/ Exit(s)
  BY DEF EditCommitted
<1>11. EndsTypeOK' /\ SessTypeOK'
  BY <1>1, <1>10, GoesOnOrExits DEF ClientSideTypeOK
<1> QED
  BY <1>1, <1>9, <1>11, ClientDbUnchanged DEF EditCommitted, ClientSideTypeOK

\* The client's side stays well typed: edit_file after its evaluation.
LEMMA EditEvaluatedType ==
  ASSUME ClientSideTypeOK, NEW s \in Slots, EditEvaluated(s)
  PROVE  ClientSideTypeOK'
<1> DEFINE new == sess[s].new
           p   == [sess[s] EXCEPT !.pc = "dbOpen"]
<1>1. sess[s].req.md \in Metadata /\ new \in Metadata /\ ToClientTypeOK' /\ p \in Process
  BY VersionEvaluated DEF EditEvaluated
<1>2. UNCHANGED toServer \/ Verdict(s, new, TRUE) \/ Verdict(s, new, FALSE)
  BY DEF EditEvaluated
<1>3. ToServerTypeOK'
  BY <1>1, <1>2, VerdictType DEF ClientSideTypeOK, ToServerTypeOK
<1>4. (sess' = [sess EXCEPT ![s] = p] /\ UNCHANGED ends) \/ Exit(s)
  BY DEF EditEvaluated
<1>5. EndsTypeOK' /\ SessTypeOK'
  BY <1>1, <1>4, GoesOnOrExits DEF ClientSideTypeOK
<1> QED
  BY <1>1, <1>3, <1>5, ClientDbUnchanged DEF EditEvaluated, ClientSideTypeOK

\* The client's side stays well typed: opening the client's database.
LEMMA OpenClientDbType ==
  ASSUME ClientSideTypeOK, NEW s \in Slots, OpenClientDb(s)
  PROVE  ClientSideTypeOK'
<1> DEFINE pc == IF Operation(s) = "DeleteFile" THEN "dbDelete" ELSE "dbCreate"
           p  == [sess[s] EXCEPT !.pc = pc]
<1>1. ToServerTypeOK' /\ RecordsTypeOK' /\ LocalTypeOK'
  BY DEF OpenClientDb, ClientSideTypeOK, ToServerTypeOK, RecordsTypeOK, LocalTypeOK
<1>2. CASE Exit(s) /\ UNCHANGED dbLock
  BY <1>1, <1>2, ExitType DEF ClientSideTypeOK, LockTypeOK
<1>3. CASE /\ dbLock' = dbLock \cup {<<"client", s>>}
           /\ sess' = [sess EXCEPT ![s].pc = pc]
           /\ UNCHANGED <<ends, toClient>>
  <2>1. sess[s] \in Records \cup Forgets
    BY ProcessByPc DEF OpenClientDb, ClientSideTypeOK, SessTypeOK
  <2>2. p \in Process
    <3>1. CASE sess[s] \in Records
      <4>1. Operation(s) # "DeleteFile"
        BY <3>1, RequestTypes DEF Records, Operation
      <4>2. p \in Records
        BY <3>1, <4>1 DEF Records
      <4> QED
        BY <4>2 DEF Process
    <3>2. CASE sess[s] \in Forgets
      <4>1. Operation(s) = "DeleteFile"
        BY <3>2, RequestTypes DEF Forgets, Operation
      <4>2. p \in Forgets
        BY <3>2, <4>1 DEF Forgets
      <4> QED
        BY <4>2 DEF Process
    <3> QED
      BY <2>1, <3>1, <3>2
  <2>3. LockTypeOK'
    BY <1>3 DEF ClientSideTypeOK, LockTypeOK
  <2>4. SessTypeOK'
    BY <1>3, <2>2, AdvanceType DEF ClientSideTypeOK
  <2> QED
    BY <1>1, <1>3, <2>3, <2>4 DEF ClientSideTypeOK, EndsTypeOK, ToClientTypeOK
<1> QED
  BY <1>2, <1>3 DEF OpenClientDb

\* The client's side stays well typed: closing the client's database.
LEMMA CloseClientDbType ==
  ASSUME ClientSideTypeOK, NEW s \in Slots, CloseClientDb(s)
  PROVE  EndsTypeOK' /\ ToClientTypeOK' /\ SessTypeOK' /\ LockTypeOK'
<1>1. LockTypeOK'
  BY DEF CloseClientDb, ClientSideTypeOK, LockTypeOK
<1> QED
  BY <1>1, ExitType DEF CloseClientDb, ClientSideTypeOK

\* The client's side stays well typed: recording a version.
LEMMA CreateRecordType ==
  ASSUME ClientSideTypeOK, NEW s \in Slots, CreateRecord(s)
  PROVE  ClientSideTypeOK'
<1> DEFINE new == sess[s].new
           p   == [sess[s] EXCEPT !.pc = "dbDelete"]
<1>1. sess[s] \in Records
  BY ProcessByPc DEF CreateRecord, ClientSideTypeOK, SessTypeOK
<1>2. new \in Metadata /\ new.id \in Ids
  BY <1>1 DEF Records, Metadata
<1>3. RecordsTypeOK'
  BY <1>2, PutIsMap DEF CreateRecord, ClientSideTypeOK, RecordsTypeOK
<1>4. ToServerTypeOK' /\ LocalTypeOK'
  BY DEF CreateRecord, ClientSideTypeOK, ToServerTypeOK, LocalTypeOK
<1>5. CASE CloseClientDb(s)
  BY <1>3, <1>4, <1>5, CloseClientDbType DEF ClientSideTypeOK
<1>6. CASE /\ Operation(s) # "UploadNewFile"
           /\ sess' = [sess EXCEPT ![s].pc = "dbDelete"]
           /\ UNCHANGED <<dbLock, toClient, ends>>
  <2>1. sess[s].req \in VersionRequest
    BY <1>1, <1>6, RequestTypes DEF Records, Operation
  <2>2. p \in Replaces
    BY <1>1, <2>1 DEF Records, Replaces
  <2>3. SessTypeOK'
    BY <1>6, <2>2, AdvanceType DEF ClientSideTypeOK, Process
  <2> QED
    BY <1>3, <1>4, <1>6, <2>3 DEF ClientSideTypeOK, EndsTypeOK, ToClientTypeOK, LockTypeOK
<1> QED
  BY <1>5, <1>6 DEF CreateRecord

\* The client's side stays well typed: forgetting a version.
LEMMA DeleteRecordType ==
  ASSUME ClientSideTypeOK, NEW s \in Slots, DeleteRecord(s)
  PROVE  ClientSideTypeOK'
<1>1. RecordsTypeOK'
  BY DropIsMap DEF DeleteRecord, ClientSideTypeOK, RecordsTypeOK
<1> QED
  BY <1>1, CloseClientDbType DEF DeleteRecord, ClientSideTypeOK, ToServerTypeOK, LocalTypeOK

\* The client's side stays well typed: a killed client.
LEMMA ClientAbortType ==
  ASSUME ClientSideTypeOK, NEW s \in Slots, ClientAbort(s)
  PROVE  ClientSideTypeOK'
BY CloseClientDbType
DEF ClientAbort, ClientSideTypeOK, ToServerTypeOK, RecordsTypeOK, LocalTypeOK

\* The client's side stays well typed: every step of an operation.
LEMMA ClientStepType ==
  ASSUME ClientSideTypeOK, NEW s \in Slots, ClientStep(s)
  PROVE  ClientSideTypeOK'
BY GiveUpType, UploadCommittedType, UploadProvedType, FileDownloadedType, DownloadProvedType,
   ProofAnsweredType, ReshapeCommittedType, ReshapeEvaluatedType, DeletedType,
   AppendCommittedType, AppendEvaluatedType, EditCommittedType, EditEvaluatedType,
   OpenClientDbType, CreateRecordType, DeleteRecordType
DEF ClientStep

-----------------------------------------------------------------------------
(* Type correctness of the system.                                         *)

\* The two views of the state that the server's and the clients' lemmas take.
LEMMA TwoViews ==
  TypeOK <=> ServerSideTypeOK /\ ClientSideTypeOK
BY DEF TypeOK, NetTypeOK, ServerTypeOK, ClientTypeOK, ServerSideTypeOK, StoreTypeOK,
       ChannelTypeOK, TalkTypeOK, ClientSideTypeOK, EndsTypeOK, ToServerTypeOK,
       ToClientTypeOK, LockTypeOK, SessTypeOK, RecordsTypeOK, LocalTypeOK

\* What one side leaves alone stays well typed.
LEMMA ServerLeavesClients ==
  ASSUME ClientSideTypeOK, ServerSideTypeOK', UNCHANGED clientVars
  PROVE  ClientSideTypeOK'
BY DEF clientVars, ServerSideTypeOK, ChannelTypeOK, TalkTypeOK, ClientSideTypeOK, EndsTypeOK,
       ToServerTypeOK, ToClientTypeOK, LockTypeOK, SessTypeOK, RecordsTypeOK, LocalTypeOK

\* What only the server's side holds stays well typed when a client takes a step.
LEMMA ClientsLeaveServer ==
  ASSUME ServerSideTypeOK, ClientSideTypeOK', UNCHANGED serverVars
  PROVE  ServerSideTypeOK'
BY DEF serverVars, ServerSideTypeOK, StoreTypeOK, ChannelTypeOK, TalkTypeOK, ClientSideTypeOK,
       EndsTypeOK, ToServerTypeOK, ToClientTypeOK, LockTypeOK

\* The empty system is well typed.
LEMMA InitType == Init => TypeOK
<1> SUFFICES ASSUME Init PROVE TypeOK
  OBVIOUS
<1>1. NetTypeOK
  BY DEF Init, NetInit, NetTypeOK
<1>2. ServerTypeOK
  BY IdleTaskType, EmptyIsMap DEF Init, ServerInit, ServerTypeOK
<1>3. ClientTypeOK
  BY IdleProcessType, EmptyIsMap, LocalFilesAssumption DEF Init, ClientTypeOK
<1> QED
  BY <1>1, <1>2, <1>3 DEF TypeOK

\* Every step keeps every variable well typed.
LEMMA NextType == TypeOK /\ [Next]_vars => TypeOK'
<1> SUFFICES ASSUME TypeOK, [Next]_vars PROVE TypeOK'
  OBVIOUS
<1>1. ServerSideTypeOK /\ ClientSideTypeOK
  BY TwoViews
<1> SUFFICES ServerSideTypeOK' /\ ClientSideTypeOK'
  BY DEF TypeOK, NetTypeOK, ServerTypeOK, ClientTypeOK, ServerSideTypeOK, StoreTypeOK,
         ChannelTypeOK, TalkTypeOK, ClientSideTypeOK, EndsTypeOK, ToServerTypeOK,
         ToClientTypeOK, LockTypeOK, SessTypeOK, RecordsTypeOK, LocalTypeOK
<1>2. ASSUME NEW s \in Slots, Call(s)
      PROVE  ServerSideTypeOK' /\ ClientSideTypeOK'
  BY <1>1, <1>2, StartType, ClientsLeaveServer DEF Call
<1>3. ASSUME NEW s \in Slots, Serve(s)
      PROVE  ServerSideTypeOK' /\ ClientSideTypeOK'
  BY <1>1, <1>3, ServerStepType, ServerLeavesClients DEF Serve
<1>4. ASSUME NEW s \in Slots, Client(s)
      PROVE  ServerSideTypeOK' /\ ClientSideTypeOK'
  BY <1>1, <1>4, ClientStepType, ClientsLeaveServer DEF Client
<1>5. ASSUME NEW s \in Slots, Abort(s)
      PROVE  ServerSideTypeOK' /\ ClientSideTypeOK'
  BY <1>1, <1>5, ClientAbortType, ClientsLeaveServer DEF Abort
<1>6. CASE Crash
  BY <1>1, <1>6, ServerCrashType, ServerLeavesClients DEF Crash
<1>7. CASE UNCHANGED vars
  BY <1>1, <1>7
  DEF vars, netVars, serverVars, clientVars, ServerSideTypeOK, StoreTypeOK, ChannelTypeOK,
      TalkTypeOK, ClientSideTypeOK, EndsTypeOK, ToServerTypeOK, ToClientTypeOK, LockTypeOK,
      SessTypeOK, RecordsTypeOK, LocalTypeOK
<1> QED
  BY <1>2, <1>3, <1>4, <1>5, <1>6, <1>7 DEF Next

\* Every variable of client.rs, server.rs and their connections always holds a
\* value of its type: a handler or an operation that is at a step has been sent
\* everything that the step uses, for any number of clients and versions.
THEOREM TypeCorrect == Spec => []TypeOK
BY InitType, NextType, PTL DEF Spec

-----------------------------------------------------------------------------
(* Downloads.                                                              *)

\* Columns that lead to the root and agree with a content show that the root
\* commits to that content.
LEMMA VerifiedColumns ==
  ASSUME NEW cols, NEW root, NEW data, NEW dims, ColumnsVerify(cols, root, data, dims)
  PROVE  root.data = data
BY DEF ColumnsVerify, Commit

\* The only step that writes a local file is the last one of a download.
LEMMA DownloadStep ==
  ASSUME NEW s \in Slots, ClientStep(s), NEW n \in Names, TypeOK, local'[n] # local[n]
  PROVE  /\ sess[s].pc = "columns"
         /\ Operation(s) = "RequestFile"
         /\ sess[s].req.md.name = n
         /\ local'[n] = sess[s].req.md.root.data
<1>1. DownloadProved(s)
  BY DEF ClientStep, GiveUp, UploadCommitted, UploadProved, FileDownloaded, ProofAnswered,
         ReshapeCommitted, ReshapeEvaluated, Deleted, AppendCommitted, AppendEvaluated,
         EditCommitted, EditEvaluated, OpenClientDb, CreateRecord, DeleteRecord
<1> DEFINE md == sess[s].req.md
<1>2. local \in [Names -> Content]
  BY DEF TypeOK, ClientTypeOK
<1>3. /\ ColumnsVerify(toClient[s], md.root, sess[s].file, md.dims)
      /\ local' = [local EXCEPT ![md.name] = sess[s].file]
  BY <1>1 DEF DownloadProved
<1>4. md.name = n /\ local'[n] = sess[s].file
  BY <1>2, <1>3
<1>5. md.root.data = sess[s].file
  BY <1>3, VerifiedColumns
<1> QED
  BY <1>1, <1>4, <1>5 DEF DownloadProved, Answered

\* A download writes nothing but the content that the root in the client's
\* metadata commits to, whatever the server's files became between the answer
\* with the file and the answer with its columns, for any number of clients.
THEOREM DownloadCorrect == Spec => DownloadIsCommitted
<1> DEFINE A == \A n \in Names : local'[n] # local[n] =>
                   \E s \in Slots : /\ sess[s].pc = "columns"
                                    /\ Operation(s) = "RequestFile"
                                    /\ sess[s].req.md.name = n
                                    /\ local'[n] = sess[s].req.md.root.data
<1>1. TypeOK /\ [Next]_vars => [A]_vars
  <2> SUFFICES ASSUME TypeOK, Next, NEW n \in Names, local'[n] # local[n]
               PROVE  \E s \in Slots : /\ sess[s].pc = "columns"
                                       /\ Operation(s) = "RequestFile"
                                       /\ sess[s].req.md.name = n
                                       /\ local'[n] = sess[s].req.md.root.data
    OBVIOUS
  <2>1. PICK s \in Slots : Client(s)
    <3>1. ASSUME NEW s \in Slots, Call(s) PROVE FALSE
      BY <3>1 DEF Call, Start, StartUpload, StartDownload, StartProof, StartDelete,
                  StartReshape, StartAppend, StartEdit, Begin
    <3>2. ASSUME NEW s \in Slots, Serve(s) \/ Abort(s) PROVE FALSE
      BY <3>2 DEF Serve, Abort, ClientAbort, clientVars
    <3>3. ~ Crash
      BY DEF Crash, clientVars
    <3> QED
      BY <3>1, <3>2, <3>3 DEF Next
  <2> QED
    BY <2>1, DownloadStep DEF Client
<1>2. Spec => []TypeOK
  BY TypeCorrect
<1> QED
  BY <1>1, <1>2, PTL DEF Spec, DownloadIsCommitted
-----------------------------------------------------------------------------
(* What a step of one connection leaves of the others.                     *)

\* The fields of a handler that a step changes, and those it keeps.
LEMMA TaskFields ==
  ASSUME NEW t \in Task, NEW pc, NEW found
  PROVE  /\ [t EXCEPT !.pc = pc].pc = pc
         /\ [t EXCEPT !.pc = pc].msg = t.msg
         /\ [t EXCEPT !.pc = pc].md = t.md
         /\ [t EXCEPT !.pc = pc, !.found = found].pc = pc
         /\ [t EXCEPT !.pc = pc, !.found = found].msg = t.msg
         /\ [t EXCEPT !.pc = pc, !.found = found].md = t.md
         /\ [t EXCEPT !.pc = pc, !.found = found].found = found
BY DEF Task, IdleTask, CreatingTask, DeletingTask, RenamingTask, RemovingTask

\* The fields of a process that a step changes, and those it keeps.
LEMMA ProcessFields ==
  ASSUME NEW p \in Process, NEW pc, NEW new, NEW file
  PROVE  /\ [p EXCEPT !.pc = pc].pc = pc
         /\ [p EXCEPT !.pc = pc].req = p.req
         /\ [p EXCEPT !.pc = pc].new = p.new
         /\ [p EXCEPT !.pc = pc, !.new = new].pc = pc
         /\ [p EXCEPT !.pc = pc, !.new = new].req = p.req
         /\ [p EXCEPT !.pc = pc, !.new = new].new = new
         /\ [p EXCEPT !.pc = pc, !.file = file].pc = pc
         /\ [p EXCEPT !.pc = pc, !.file = file].req = p.req
         /\ [p EXCEPT !.pc = pc, !.file = file].new = p.new
<1>1. CASE p = IdleProcess
  BY <1>1 DEF IdleProcess
<1>2. CASE p \in AwaitsCommit \cup AwaitsFile \cup AwaitsColumns
  BY <1>2 DEF AwaitsCommit, AwaitsFile, AwaitsColumns
<1>3. CASE p \in AwaitsProof \cup AwaitsEvaluation \cup AwaitsDeletion
  BY <1>3 DEF AwaitsProof, AwaitsEvaluation, AwaitsDeletion
<1>4. CASE p \in Records \cup Forgets \cup Replaces
  BY <1>4 DEF Records, Forgets, Replaces
<1> QED
  BY <1>1, <1>2, <1>3, <1>4 DEF Process

\* The types of what connects the clients and the server.
WiresTypeOK ==
  /\ ends \in [Slots -> SUBSET {"client", "server"}]
  /\ toServer \in [Slots -> Request \cup {None}]
  /\ toClient \in [Slots -> Response \cup {None}]
  /\ srv \in [Slots -> Task]
  /\ sess \in [Slots -> Process]

\* They are part of the type invariant.
LEMMA WiresTyped ==
  ASSUME TypeOK
  PROVE  WiresTypeOK
BY DEF TypeOK, NetTypeOK, ServerTypeOK, ClientTypeOK, WiresTypeOK

\* The connections of the other processes stay as they are.
OthersUnchanged(s) ==
  \A t \in Slots \ {s} :
    /\ ends'[t] = ends[t]
    /\ toServer'[t] = toServer[t]
    /\ toClient'[t] = toClient[t]

\* What is asked and answered of a file that was appended to or edited.
ChangeRequests    == {"RequestAppendEvaluation", "RequestEditEvaluation"}
ChangeEvaluations == {"AppendEvaluation", "EditEvaluation"}

\* What the task of a connection does with its messages: it goes on with the
\* request it has, takes the one that was sent, or ends with nothing in hand.
TaskMoves(s) ==
  /\ OthersUnchanged(s)
  /\ \A t \in Slots \ {s} : srv'[t] = srv[t]
  /\ toServer'[s] \in {toServer[s], None}
  /\ \/ srv'[s].pc = "wait"
     \/ /\ srv[s].pc # "wait" /\ srv'[s].msg = srv[s].msg
        /\ srv'[s].pc # "open" /\ (srv'[s].pc = "rename" => srv[s].pc = "open")
     \/ /\ srv[s].pc = "wait" /\ srv'[s].pc = "open"
        /\ toServer[s] # None /\ toServer[s].type # "RequestFileReshape"
        /\ srv'[s].msg = toServer[s] /\ toServer'[s] = None
  /\ \/ toClient'[s] = toClient[s]
     \/ /\ "client" \in ends[s]
        /\ toClient'[s].type \in ChangeEvaluations =>
             toServer[s] # None /\ toServer[s].type \in ChangeRequests
  /\ \/ ends'[s] = ends[s] /\ ("server" \in ends[s] \/ srv[s].pc # "wait")
     \/ ends'[s] = ends[s] \ {"server"} /\ srv'[s].pc = "wait"

\* Every step of a task is of that kind.
LEMMA ServerStepMoves ==
  ASSUME WiresTypeOK, NEW s \in Slots, ServerStep(s)
  PROVE  TaskMoves(s)
<1> USE DEF WiresTypeOK, TaskMoves, OthersUnchanged, ChangeRequests, ChangeEvaluations, IdleTask
<1>1. CASE HandleUploadNewFile(s)
  BY <1>1 DEF HandleUploadNewFile, Takes, Fail, Reply, Go
<1>2. CASE HandleRequestFile(s) \/ HandleRequestProof(s)
  BY <1>2 DEF HandleRequestFile, HandleRequestProof, Takes, Fail, Reply
<1>3. CASE HandleEditFileBytes(s) \/ HandleAppendToFile(s)
  BY <1>3 DEF HandleEditFileBytes, HandleAppendToFile, NewVersion, Takes, Fail, Reply, Go
<1>4. CASE HandleRequestFileReshape(s)
  <2>1. CASE Fail(s)
    BY <1>4, <2>1 DEF HandleRequestFileReshape, Takes, Fail, Reply
  <2>2. ASSUME NEW md, Reply(s, [type |-> "CompactCommit", md |-> md])
        PROVE  TaskMoves(s)
    BY <1>4, <2>2 DEF HandleRequestFileReshape, Takes, Reply
  <2> QED
    BY <1>4, <2>1, <2>2 DEF HandleRequestFileReshape
<1>5. CASE \/ HandleRequestReshapeEvaluation(s)
           \/ HandleRequestAppendEvaluation(s)
           \/ HandleRequestEditEvaluation(s)
  BY <1>5
  DEF HandleRequestReshapeEvaluation, HandleRequestAppendEvaluation,
      HandleRequestEditEvaluation, Takes, Fail, Reply, Panic
<1>6. CASE HandleDatabaseRequest(s)
  BY <1>6 DEF HandleDatabaseRequest, Takes, Go
<1>7. CASE OpenDatabase(s)
  <2>1. CASE Fail(s)
    BY <1>7, <2>1 DEF OpenDatabase, Fail, Reply
  <2>2. CASE srv' = [srv EXCEPT ![s].pc = AfterOpen(srv[s].msg)] /\ UNCHANGED <<toClient, ends>>
    <3>1. AfterOpen(srv[s].msg) \in {"create", "rename", "delete"}
      BY DEF AfterOpen
    <3>2. srv'[s].pc = AfterOpen(srv[s].msg) /\ srv'[s].msg = srv[s].msg
      BY <2>2, TaskFields
    <3> QED
      BY <1>7, <2>2, <3>1, <3>2 DEF OpenDatabase
  <2> QED
    BY <1>7, <2>1, <2>2 DEF OpenDatabase
<1>8. CASE CreateEntry(s)
  BY <1>8 DEF CreateEntry, Reply
<1>9. CASE RenameFile(s)
  <2>1. CASE Fail(s)
    BY <1>9, <2>1 DEF RenameFile, Fail, Reply
  <2>2. CASE srv' = [srv EXCEPT ![s].pc = "delete"] /\ UNCHANGED <<toClient, ends>>
    BY <1>9, <2>2, TaskFields DEF RenameFile
  <2> QED
    BY <1>9, <2>1, <2>2 DEF RenameFile
<1>10. CASE DeleteEntry(s)
  <2> DEFINE found == EntryToDelete(srv[s].msg) \in DOMAIN table
  <2>1. ASSUME NEW md, Reply(s, [type |-> "CompactCommit", md |-> md])
        PROVE  TaskMoves(s)
    BY <1>10, <2>1 DEF DeleteEntry, Reply
  <2>2. CASE /\ srv' = [srv EXCEPT ![s].pc = "remove", ![s].found = found]
             /\ UNCHANGED <<toClient, ends>>
    <3>1. srv'[s] = [srv[s] EXCEPT !.pc = "remove", !.found = found]
      BY <2>2
    <3>2. srv[s].pc # "wait" /\ srv'[s].msg = srv[s].msg
      BY <1>10, <3>1, TaskFields DEF DeleteEntry
    <3> QED
      BY <1>10, <2>2, <3>2 DEF DeleteEntry
  <2> QED
    BY <1>10, <2>1, <2>2 DEF DeleteEntry
<1>11. CASE RemoveFile(s)
  BY <1>11 DEF RemoveFile, Fail, Reply
<1>12. CASE EndOfStream(s)
  BY <1>12 DEF EndOfStream, serverVars
<1> QED
  BY <1>1, <1>2, <1>3, <1>4, <1>5, <1>6, <1>7, <1>8, <1>9, <1>10, <1>11, <1>12 DEF ServerStep

\* What a process does with its messages: its operation goes on with a request
\* that follows from the one that began it, or it returns and the connection
\* is closed on its side.
ProcessMoves(s) ==
  /\ OthersUnchanged(s)
  /\ \A t \in Slots \ {s} : sess'[t] = sess[t]
  /\ sess[s].pc # "idle"
  /\ toClient'[s] \in {toClient[s], None}
  /\ \/ sess'[s] = IdleProcess /\ ends'[s] = ends[s] \ {"client"} /\ toClient'[s] = None
     \/ /\ sess'[s].pc \notin {"idle", "commit"} /\ sess'[s].req = sess[s].req
        /\ ends'[s] = ends[s]
  /\ sess'[s].pc = "evaluation" =>
       /\ sess[s].pc = "commit" /\ sess[s].req.type = "RequestFileReshape"
       /\ toClient[s] # None /\ toClient[s].type = "CompactCommit" /\ toClient'[s] = None
       /\ sess'[s].new = toClient[s].md
  /\ \/ toServer'[s] = toServer[s]
     \/ toServer'[s].type = "RequestProof"
     \/ /\ sess[s].req.type = "RequestFileReshape"
        /\ \/ toServer'[s].type = "RequestReshapeEvaluation"
           \/ /\ toServer'[s].type = "ReshapeResponse" /\ toServer'[s].new = sess[s].new
              /\ sess[s].pc = "evaluation" /\ sess'[s].pc # "evaluation"

\* The process neither appends nor edits.
NoChange(s) ==
  /\ sess[s].pc # "idle" => sess[s].req.type \notin {"EditFileBytes", "AppendToFile"}
  /\ toClient[s] # None => toClient[s].type \notin ChangeEvaluations

\* A process that returns is idle and closes its side.
LEMMA ExitMoves ==
  ASSUME WiresTypeOK, NEW s \in Slots, Exit(s)
  PROVE  /\ sess'[s] = IdleProcess /\ ends'[s] = ends[s] \ {"client"} /\ toClient'[s] = None
         /\ \A t \in Slots \ {s} : /\ sess'[t] = sess[t]
                                  /\ ends'[t] = ends[t]
                                  /\ toClient'[t] = toClient[t]
BY DEF Exit, WiresTypeOK

\* A process that goes on keeps the request that began its operation.
LEMMA AdvanceMoves ==
  ASSUME WiresTypeOK, NEW s \in Slots, NEW pc, sess' = [sess EXCEPT ![s].pc = pc]
  PROVE  /\ sess'[s].pc = pc /\ sess'[s].req = sess[s].req /\ sess'[s].new = sess[s].new
         /\ \A t \in Slots \ {s} : sess'[t] = sess[t]
BY ProcessFields DEF WiresTypeOK

\* A process that learns of a new version keeps it with the request.
LEMMA LearnMoves ==
  ASSUME WiresTypeOK, NEW s \in Slots, NEW pc, NEW new,
         sess' = [sess EXCEPT ![s].pc = pc, ![s].new = new]
  PROVE  /\ sess'[s].pc = pc /\ sess'[s].req = sess[s].req /\ sess'[s].new = new
         /\ \A t \in Slots \ {s} : sess'[t] = sess[t]
BY ProcessFields DEF WiresTypeOK

\* What is sent is the next request, if there is still a task to take it.
LEMMA SendMoves ==
  ASSUME WiresTypeOK, NEW s \in Slots, NEW m, Send(s, m)
  PROVE  /\ toServer'[s] \in {toServer[s], m}
         /\ \A t \in Slots \ {s} : toServer'[t] = toServer[t]
BY DEF Send, WiresTypeOK

\* An answer is taken once.
LEMMA AnsweredMoves ==
  ASSUME WiresTypeOK, NEW s \in Slots, NEW pc, NEW type, Answered(s, pc, type)
  PROVE  /\ sess[s].pc = pc /\ toClient[s] # None /\ toClient[s].type = type
         /\ toClient'[s] = None
         /\ \A t \in Slots \ {s} : toClient'[t] = toClient[t]
BY DEF Answered, WiresTypeOK

\* Every step of a process that neither appends nor edits is of that kind.
LEMMA ClientStepMoves ==
  ASSUME WiresTypeOK, NEW s \in Slots, NoChange(s), ClientStep(s) \/ ClientAbort(s)
  PROVE  ProcessMoves(s)
<1> USE DEF ProcessMoves, OthersUnchanged, Operation, IdleProcess
<1>1. CASE GiveUp(s) \/ ClientAbort(s)
  BY <1>1, ExitMoves DEF GiveUp, ClientAbort, CloseClientDb
<1>2. CASE UploadCommitted(s)
  <2>1. /\ Answered(s, "commit", "CompactCommit") /\ sess[s].req.type = "UploadNewFile"
        /\ UNCHANGED ends
    BY <1>2 DEF UploadCommitted
  <2>2. /\ sess'[s].pc = "columns" /\ sess'[s].req = sess[s].req
        /\ \A t \in Slots \ {s} : sess'[t] = sess[t]
    BY <1>2, LearnMoves DEF UploadCommitted
  <2>3. /\ toServer'[s] = toServer[s] \/ toServer'[s].type = "RequestProof"
        /\ \A t \in Slots \ {s} : toServer'[t] = toServer[t]
    BY <1>2 DEF UploadCommitted, Send, WiresTypeOK
  <2> QED
    BY <2>1, <2>2, <2>3, AnsweredMoves
<1>3. CASE UploadProved(s)
  <2>1. CASE Exit(s)
    BY <1>3, <2>1, AnsweredMoves, ExitMoves DEF UploadProved
  <2>2. CASE sess' = [sess EXCEPT ![s].pc = "dbOpen"] /\ UNCHANGED ends
    BY <1>3, <2>2, AnsweredMoves, AdvanceMoves DEF UploadProved
  <2> QED
    BY <1>3, <2>1, <2>2 DEF UploadProved
<1>4. CASE FileDownloaded(s)
  BY <1>4, AnsweredMoves, SendMoves, ProcessFields DEF FileDownloaded, WiresTypeOK
<1>5. CASE DownloadProved(s) \/ ProofAnswered(s)
  BY <1>5, AnsweredMoves, ExitMoves DEF DownloadProved, ProofAnswered
<1>6. CASE ReshapeCommitted(s)
  <2>1. /\ Answered(s, "commit", "CompactCommit") /\ sess[s].req.type = "RequestFileReshape"
        /\ UNCHANGED ends
    BY <1>6 DEF ReshapeCommitted
  <2>2. /\ sess'[s].pc = "evaluation" /\ sess'[s].req = sess[s].req
        /\ sess'[s].new = toClient[s].md
        /\ \A t \in Slots \ {s} : sess'[t] = sess[t]
    <3>1. PICK new : new = toClient[s].md
      OBVIOUS
    <3>2. sess' = [sess EXCEPT ![s].pc = "evaluation", ![s].new = new]
      BY <1>6, <3>1 DEF ReshapeCommitted
    <3>3. sess'[s] = [sess[s] EXCEPT !.pc = "evaluation", !.new = new]
      BY <3>2 DEF WiresTypeOK
    <3>4. sess'[s].pc = "evaluation" /\ sess'[s].req = sess[s].req /\ sess'[s].new = new
      BY <3>3, ProcessFields DEF WiresTypeOK
    <3>5. \A t \in Slots \ {s} : sess'[t] = sess[t]
      BY <3>2 DEF WiresTypeOK
    <3> QED
      BY <3>1, <3>4, <3>5
  <2>3. /\ toServer'[s] = toServer[s] \/ toServer'[s].type = "RequestReshapeEvaluation"
        /\ \A t \in Slots \ {s} : toServer'[t] = toServer[t]
    BY <1>6 DEF ReshapeCommitted, Send, WiresTypeOK
  <2> QED
    BY <2>1, <2>2, <2>3, AnsweredMoves
<1>7. CASE ReshapeEvaluated(s)
  <2>1. /\ \/ toServer'[s] = toServer[s]
           \/ toServer'[s].type = "ReshapeResponse" /\ toServer'[s].new = sess[s].new
        /\ \A t \in Slots \ {s} : toServer'[t] = toServer[t]
    BY <1>7 DEF ReshapeEvaluated, ReshapeVerdict, Send, WiresTypeOK
  <2>2. Answered(s, "evaluation", "ReshapeEvaluation")
    BY <1>7 DEF ReshapeEvaluated
  <2>3. sess[s].pc = "evaluation" /\ sess[s].req.type = "RequestFileReshape"
    <3>1. sess[s].pc = "evaluation"
      BY <2>2, AnsweredMoves
    <3>2. sess[s].req \in VersionRequest
      BY <3>1, ProcessByPc DEF WiresTypeOK, AwaitsEvaluation
    <3> QED
      BY <3>1, <3>2, RequestTypes DEF NoChange
  <2>4. CASE Exit(s)
    BY <2>1, <2>2, <2>3, <2>4, AnsweredMoves, ExitMoves
  <2>5. CASE sess' = [sess EXCEPT ![s].pc = "dbOpen"] /\ UNCHANGED ends
    <3>1. /\ sess'[s].pc = "dbOpen" /\ sess'[s].req = sess[s].req
          /\ \A t \in Slots \ {s} : sess'[t] = sess[t]
      BY <2>5, AdvanceMoves
    <3> QED
      BY <2>1, <2>2, <2>3, <2>5, <3>1, AnsweredMoves
  <2> QED
    BY <1>7, <2>4, <2>5 DEF ReshapeEvaluated
<1>8. CASE Deleted(s)
  BY <1>8, AnsweredMoves, AdvanceMoves DEF Deleted
<1>9. CASE AppendCommitted(s) \/ EditCommitted(s) \/ AppendEvaluated(s) \/ EditEvaluated(s)
  BY <1>9 DEF AppendCommitted, EditCommitted, AppendEvaluated, EditEvaluated, Answered,
              NoChange, ChangeEvaluations
<1>10. CASE OpenClientDb(s)
  <2>1. CASE Exit(s)
    BY <1>10, <2>1, ExitMoves DEF OpenClientDb
  <2>2. CASE ~ Exit(s)
    <3>1. PICK pc \in {"dbDelete", "dbCreate"} : sess' = [sess EXCEPT ![s].pc = pc]
      BY <1>10, <2>2 DEF OpenClientDb
    <3> QED
      BY <1>10, <2>2, <3>1, AdvanceMoves DEF OpenClientDb
  <2> QED
    BY <2>1, <2>2
<1>11. CASE CreateRecord(s)
  <2>1. CASE Exit(s)
    BY <1>11, <2>1, ExitMoves DEF CreateRecord
  <2>2. CASE sess' = [sess EXCEPT ![s].pc = "dbDelete"] /\ UNCHANGED <<dbLock, toClient, ends>>
    BY <1>11, <2>2, AdvanceMoves DEF CreateRecord
  <2> QED
    BY <1>11, <2>1, <2>2 DEF CreateRecord, CloseClientDb
<1>12. CASE DeleteRecord(s)
  BY <1>12, ExitMoves DEF DeleteRecord, CloseClientDb
<1> QED
  BY <1>1, <1>2, <1>3, <1>4, <1>5, <1>6, <1>7, <1>8, <1>9, <1>10, <1>11, <1>12 DEF ClientStep

-----------------------------------------------------------------------------
(* The operations that are called and what they ask.                       *)

\* Files are uploaded, downloaded, proved, reshaped and deleted, not changed.
WithoutChanges ==
  Operations \subseteq
    {"upload_file", "download_file", "request_proof", "reshape_file", "delete_file"}

\* The requests that these operations make of the server.
Asked ==
  {"UploadNewFile", "RequestFile", "RequestProof", "DeleteFile"}
    \cup (IF "reshape_file" \in Operations
            THEN {"RequestFileReshape", "RequestReshapeEvaluation", "ReshapeResponse"}
            ELSE {})

\* No other request is under way, and no answer to one.
OnlyAsked ==
  \A s \in Slots :
    /\ toServer[s] # None => toServer[s].type \in Asked
    /\ srv[s].pc # "wait" => srv[s].msg.type \in Asked
    /\ sess[s].pc # "idle" => sess[s].req.type \in Asked
    /\ toClient[s] # None => toClient[s].type \notin ChangeEvaluations

\* A process that starts an operation sends its first request to a new task.
StartMoves(s) ==
  /\ OthersUnchanged(s)
  /\ \A t \in Slots \ {s} : sess'[t] = sess[t]
  /\ sess[s].pc = "idle" /\ ends[s] = {} /\ ends'[s] = {"client", "server"}
  /\ toClient'[s] = toClient[s]
  /\ sess'[s].req = toServer'[s]
  /\ \/ sess'[s].pc = "commit" /\ toServer'[s].type = "UploadNewFile"
     \/ /\ sess'[s].pc = "commit" /\ toServer'[s].type = "RequestFileReshape"
        /\ "reshape_file" \in Operations
     \/ sess'[s].pc = "file" /\ toServer'[s].type = "RequestFile"
     \/ sess'[s].pc = "columns" /\ toServer'[s].type = "RequestProof"
     \/ /\ sess'[s].pc = "deletion" /\ toServer'[s].type = "DeleteFile"
        /\ \E id \in DOMAIN clientDb : toServer'[s].md = clientDb[id]

\* Every operation starts in that way.
LEMMA StartOfOperation ==
  ASSUME WiresTypeOK, WithoutChanges, NEW s \in Slots, Start(s)
  PROVE  StartMoves(s)
<1>1. ASSUME NEW pc, NEW req, Begin(s, pc, req)
      PROVE  /\ OthersUnchanged(s)
             /\ \A t \in Slots \ {s} : sess'[t] = sess[t]
             /\ sess[s].pc = "idle" /\ ends[s] = {} /\ ends'[s] = {"client", "server"}
             /\ toClient'[s] = toClient[s]
             /\ sess'[s].pc = pc /\ sess'[s].req = req /\ toServer'[s] = req
  BY <1>1 DEF Begin, OthersUnchanged, WiresTypeOK
<1>2. ASSUME NEW name \in Names, NEW dims \in Shapes, StartUpload(s, name, dims)
      PROVE  StartMoves(s)
  BY <1>1, <1>2 DEF StartUpload, StartMoves
<1>3. ASSUME NEW id \in DOMAIN clientDb, StartDownload(s, clientDb[id])
      PROVE  StartMoves(s)
  BY <1>1, <1>3 DEF StartDownload, StartMoves
<1>4. ASSUME NEW id \in DOMAIN clientDb, StartProof(s, clientDb[id])
      PROVE  StartMoves(s)
  BY <1>1, <1>4 DEF StartProof, StartMoves
<1>5. ASSUME NEW id \in DOMAIN clientDb, StartDelete(s, clientDb[id])
      PROVE  StartMoves(s)
  BY <1>1, <1>5 DEF StartDelete, StartMoves
<1>6. ASSUME "reshape_file" \in Operations, NEW id \in DOMAIN clientDb, NEW dims \in Shapes,
             StartReshape(s, clientDb[id], dims)
      PROVE  StartMoves(s)
  BY <1>1, <1>6 DEF StartReshape, StartMoves
<1> QED
  BY <1>2, <1>3, <1>4, <1>5, <1>6 DEF Start, WithoutChanges

\* What no client step changes, and what no server step changes.
DiskUnchanged      == UNCHANGED <<files, table, issued>>
ProcessesUnchanged == UNCHANGED <<sess, clientDb>>

\* The kinds of step: the start of an operation, a step of a task or of a
\* process, a crash of the server, or nothing.
StepKinds ==
  \/ \E s \in Slots : StartMoves(s) /\ DiskUnchanged /\ UNCHANGED <<srv, clientDb>>
  \/ \E s \in Slots : ServerStep(s) /\ TaskMoves(s) /\ ProcessesUnchanged
  \/ \E s \in Slots : /\ ClientStep(s) \/ ClientAbort(s)
                      /\ ProcessMoves(s) /\ DiskUnchanged /\ UNCHANGED srv
  \/ ServerCrash /\ DiskUnchanged /\ ProcessesUnchanged
  \/ UNCHANGED vars

\* There are no others.
LEMMA NextKinds ==
  ASSUME WiresTypeOK, WithoutChanges, OnlyAsked, [Next]_vars
  PROVE  StepKinds
<1>1. ASSUME NEW s \in Slots, Call(s)
      PROVE  StepKinds
  BY <1>1, StartOfOperation
  DEF Call, serverVars, StepKinds, DiskUnchanged, Start, StartUpload, StartDownload,
      StartProof, StartDelete, StartReshape, StartAppend, StartEdit, Begin
<1>2. ASSUME NEW s \in Slots, Serve(s)
      PROVE  StepKinds
  BY <1>2, ServerStepMoves DEF Serve, clientVars, StepKinds, ProcessesUnchanged
<1>3. ASSUME NEW s \in Slots, Client(s) \/ Abort(s)
      PROVE  StepKinds
  <2>1. NoChange(s)
    BY DEF OnlyAsked, Asked, NoChange
  <2> QED
    BY <1>3, <2>1, ClientStepMoves DEF Client, Abort, serverVars, StepKinds, DiskUnchanged
<1>4. CASE Crash
  BY <1>4 DEF Crash, ServerCrash, clientVars, storeVars, StepKinds, DiskUnchanged,
              ProcessesUnchanged
<1> QED
  BY <1>1, <1>2, <1>3, <1>4 DEF Next, StepKinds

\* No other request is ever under way.
LEMMA AskedInit == Init => OnlyAsked
BY DEF Init, NetInit, ServerInit, IdleTask, IdleProcess, OnlyAsked

\* Every step asks for what the operations ask only.
LEMMA AskedStep ==
  ASSUME WiresTypeOK, WithoutChanges, OnlyAsked, StepKinds
  PROVE  OnlyAsked'
<1> USE DEF OnlyAsked, Asked
<1>1. ASSUME NEW s \in Slots, StartMoves(s), UNCHANGED srv
      PROVE  OnlyAsked'
  BY <1>1 DEF StartMoves, OthersUnchanged
<1>2. ASSUME NEW s \in Slots, TaskMoves(s), UNCHANGED sess
      PROVE  OnlyAsked'
  BY <1>2 DEF TaskMoves, OthersUnchanged, ChangeRequests
<1>3. ASSUME NEW s \in Slots, ProcessMoves(s), UNCHANGED srv
      PROVE  OnlyAsked'
  BY <1>3 DEF ProcessMoves, OthersUnchanged, IdleProcess
<1>4. CASE ServerCrash /\ UNCHANGED sess
  BY <1>4 DEF ServerCrash, IdleTask
<1>5. CASE UNCHANGED vars
  BY <1>5 DEF vars, netVars, serverVars, clientVars
<1> QED
  BY <1>1, <1>2, <1>3, <1>4, <1>5 DEF StepKinds, ProcessesUnchanged

-----------------------------------------------------------------------------
(* Turns.                                                                  *)

\* A connection whose client left holds no answer, and one whose task is gone
\* has no handler at a step.
ConnectionsOK ==
  \A s \in Slots :
    /\ "client" \notin ends[s] => toClient[s] = None
    /\ "server" \notin ends[s] => srv[s].pc = "wait"

\* At the start there are no connections.
LEMMA ConnectionsInit == Init => ConnectionsOK
BY DEF Init, NetInit, ServerInit, IdleTask, ConnectionsOK

\* A process that returns drops its answer, and a task that ends its work.
LEMMA ConnectionsStep ==
  ASSUME WiresTypeOK, ConnectionsOK, StepKinds
  PROVE  ConnectionsOK'
<1> USE DEF ConnectionsOK
<1>1. ASSUME NEW s \in Slots, StartMoves(s), UNCHANGED srv
      PROVE  ConnectionsOK'
  BY <1>1 DEF StartMoves, OthersUnchanged
<1>2. ASSUME NEW s \in Slots, TaskMoves(s), UNCHANGED sess
      PROVE  ConnectionsOK'
  BY <1>2 DEF TaskMoves, OthersUnchanged
<1>3. ASSUME NEW s \in Slots, ProcessMoves(s), UNCHANGED srv
      PROVE  ConnectionsOK'
  BY <1>3 DEF ProcessMoves, OthersUnchanged
<1>4. CASE ServerCrash
  BY <1>4 DEF ServerCrash, IdleTask, WiresTypeOK
<1>5. CASE UNCHANGED vars
  BY <1>5 DEF vars, netVars, serverVars, clientVars
<1> QED
  BY <1>1, <1>2, <1>3, <1>4, <1>5 DEF StepKinds, ProcessesUnchanged

\* A process waits for the commitment of the reshape it asked for.
AwaitsReshape(s) == sess[s].pc = "commit" /\ sess[s].req.type = "RequestFileReshape"

\* While it does, the task has no other request.
ReshapeTurn ==
  \A s \in Slots :
    AwaitsReshape(s) =>
      /\ srv[s].pc = "wait"
      /\ toServer[s] # None => toServer[s].type = "RequestFileReshape"

\* At the start nobody waits.
LEMMA ReshapeTurnInit == Init => ReshapeTurn
BY DEF Init, IdleProcess, ReshapeTurn, AwaitsReshape

\* The connection of a new operation has no task at work, and a process that
\* waits sends nothing.
LEMMA ReshapeTurnStep ==
  ASSUME WiresTypeOK, ConnectionsOK, ReshapeTurn, StepKinds
  PROVE  ReshapeTurn'
<1> USE DEF ReshapeTurn, AwaitsReshape
<1>1. ASSUME NEW s \in Slots, StartMoves(s), UNCHANGED srv
      PROVE  ReshapeTurn'
  BY <1>1 DEF StartMoves, OthersUnchanged, ConnectionsOK
<1>2. ASSUME NEW s \in Slots, TaskMoves(s), UNCHANGED sess
      PROVE  ReshapeTurn'
  BY <1>2 DEF TaskMoves, OthersUnchanged
<1>3. ASSUME NEW s \in Slots, ProcessMoves(s), UNCHANGED srv
      PROVE  ReshapeTurn'
  BY <1>3 DEF ProcessMoves, OthersUnchanged, IdleProcess
<1>4. CASE ServerCrash /\ UNCHANGED sess
  BY <1>4 DEF ServerCrash, IdleTask
<1>5. CASE UNCHANGED vars
  BY <1>5 DEF vars, netVars, serverVars, clientVars
<1> QED
  BY <1>1, <1>2, <1>3, <1>4, <1>5 DEF StepKinds, ProcessesUnchanged

-----------------------------------------------------------------------------
(* Ulids of reshapes.  Between the draw and the rename exactly one place   *)
(* of the system knows the Ulid of a reshaped file: it moves from the      *)
(* server's answer to the process, into the verdict and to its handler.    *)

Places == {"answer", "process", "request", "task"}

\* The place p of connection s holds the Ulid of a reshape under way.
Pending(s, p, id) ==
  \/ /\ p = "answer" /\ AwaitsReshape(s)
     /\ toClient[s] # None /\ toClient[s].type = "CompactCommit" /\ toClient[s].md.id = id
  \/ p = "process" /\ sess[s].pc = "evaluation" /\ sess[s].new.id = id
  \/ /\ p = "request"
     /\ toServer[s] # None /\ toServer[s].type = "ReshapeResponse" /\ toServer[s].new.id = id
  \/ /\ p = "task" /\ srv[s].pc \in {"open", "rename"}
     /\ srv[s].msg.type = "ReshapeResponse" /\ srv[s].msg.new.id = id

\* No Ulid is at two places, so that no file is renamed to it twice.
PendingOnce ==
  \A s, t \in Slots, p, q \in Places, id \in Ids :
    Pending(s, p, id) /\ Pending(t, q, id) => s = t /\ p = q

\* It was drawn, so that no upload gets it, and no file has it yet.
PendingHasNoFile ==
  \A s \in Slots, p \in Places, id \in Ids :
    Pending(s, p, id) => id \in issued /\ id \notin DOMAIN files

\* Only Ulids that were drawn have files.
FilesDrawn == DOMAIN files \subseteq issued

PendingOK == PendingOnce /\ PendingHasNoFile /\ FilesDrawn

\* A step after which no place holds another Ulid than before, and that stores
\* files only under Ulids drawn by it.
LEMMA PendingKept ==
  ASSUME PendingOK, issued \subseteq issued', FilesDrawn',
         \A id \in issued : id \in DOMAIN files' => id \in DOMAIN files,
         \A t \in Slots, q \in Places, id \in Ids : Pending(t, q, id)' => Pending(t, q, id)
  PROVE  PendingOK'
BY DEF PendingOK, PendingOnce, PendingHasNoFile, FilesDrawn

\* A step that moves a Ulid from one place of a connection to another.
LEMMA PendingMoved ==
  ASSUME PendingOK, UNCHANGED issued, DOMAIN files' = DOMAIN files,
         NEW s \in Slots, NEW from \in Places, NEW to \in Places,
         \A id \in Ids : ~ Pending(s, from, id)',
         \A t \in Slots, q \in Places, id \in Ids :
           Pending(t, q, id)' =>
             Pending(t, q, id) \/ (t = s /\ q = to /\ Pending(s, from, id))
  PROVE  PendingOK'
BY DEF PendingOK, PendingOnce, PendingHasNoFile, FilesDrawn

\* A step that draws a Ulid and puts it in one place.
LEMMA PendingDrawn ==
  ASSUME PendingOK, NEW n, n \notin issued, issued' = issued \cup {n},
         DOMAIN files' = DOMAIN files,
         NEW s \in Slots, NEW to \in Places,
         \A t \in Slots, q \in Places, id \in Ids :
           Pending(t, q, id)' => Pending(t, q, id) \/ (t = s /\ q = to /\ id = n)
  PROVE  PendingOK'
BY DEF PendingOK, PendingOnce, PendingHasNoFile, FilesDrawn

\* How a step of a task changes what the places hold: the draw of a reshape
\* puts a Ulid into the answer, and a verdict moves to its handler.
LEMMA TaskPlaces ==
  ASSUME WiresTypeOK, ReshapeTurn, NEW s \in Slots, ServerStep(s), TaskMoves(s), UNCHANGED sess,
         NEW t \in Slots, NEW q \in Places, NEW id \in Ids, Pending(t, q, id)'
  PROVE  \/ Pending(t, q, id)
         \/ t = s /\ q = "answer" /\ HandleRequestFileReshape(s)
         \/ t = s /\ q = "task" /\ HandleDatabaseRequest(s) /\ Pending(s, "request", id)
<1>1. CASE t # s
  BY <1>1 DEF TaskMoves, OthersUnchanged, Pending, AwaitsReshape
<1>2. CASE t = s /\ q = "process"
  BY <1>2 DEF Pending
<1>3. CASE t = s /\ q = "request"
  BY <1>3 DEF Pending, TaskMoves
<1>4. CASE t = s /\ q = "task"
  <2>1. CASE srv[s].pc # "wait"
    BY <1>4, <2>1 DEF Pending, TaskMoves
  <2>2. CASE srv[s].pc = "wait"
    <3>1. /\ toServer[s] # None /\ toServer[s].type = "ReshapeResponse"
          /\ srv'[s].pc = "open" /\ srv'[s].msg = toServer[s]
      BY <1>4, <2>2 DEF Pending, TaskMoves
    <3>2. HandleDatabaseRequest(s) \/ EndOfStream(s)
      BY <2>2, <3>1 DEF ServerStep, HandleUploadNewFile, HandleRequestFile, HandleRequestProof,
           HandleEditFileBytes, HandleAppendToFile, HandleRequestFileReshape,
           HandleRequestReshapeEvaluation, HandleRequestAppendEvaluation,
           HandleRequestEditEvaluation, OpenDatabase, CreateEntry, RenameFile, DeleteEntry,
           RemoveFile, Takes
    <3>3. ~ EndOfStream(s)
      BY <3>1 DEF EndOfStream
    <3> QED
      BY <1>4, <3>1, <3>2, <3>3 DEF Pending
  <2> QED
    BY <2>1, <2>2
<1>5. CASE t = s /\ q = "answer"
  <2>1. AwaitsReshape(s)
    BY <1>5 DEF Pending, AwaitsReshape
  <2>2. /\ srv[s].pc = "wait"
        /\ toServer[s] # None => toServer[s].type = "RequestFileReshape"
    BY <2>1 DEF ReshapeTurn
  <2>3. HandleRequestFileReshape(s) \/ EndOfStream(s)
    BY <2>2 DEF ServerStep, HandleUploadNewFile, HandleRequestFile, HandleRequestProof,
                HandleEditFileBytes, HandleAppendToFile, HandleRequestReshapeEvaluation,
                HandleRequestAppendEvaluation, HandleRequestEditEvaluation,
                HandleDatabaseRequest, OpenDatabase, CreateEntry, RenameFile, DeleteEntry,
                RemoveFile, Takes
  <2>4. CASE EndOfStream(s)
    BY <1>5, <2>4 DEF EndOfStream, Pending, AwaitsReshape
  <2> QED
    BY <1>5, <2>3, <2>4
<1> QED
  BY <1>1, <1>2, <1>3, <1>4, <1>5 DEF Places

\* A step of a task keeps every Ulid of a reshape in one place without a file.
LEMMA TaskPending ==
  ASSUME TypeOK, OnlyAsked, ReshapeTurn, PendingOK, NEW s \in Slots,
         ServerStep(s), TaskMoves(s), UNCHANGED sess
  PROVE  PendingOK'
<1> USE WiresTyped
<1>1. CASE HandleRequestFileReshape(s)
  <2>1. \A t \in Slots, q \in Places, id \in Ids :
          Pending(t, q, id)' => Pending(t, q, id) \/ (t = s /\ q = "answer")
    <3>1. toServer[s].type = "RequestFileReshape"
      BY <1>1 DEF HandleRequestFileReshape, Takes
    <3> QED
      BY <3>1, TaskPlaces DEF Pending
  <2>2. CASE Fail(s) /\ UNCHANGED storeVars
    <3>1. toClient'[s] = toClient[s] \/ toClient'[s].type = "ErrorResponse"
      BY <2>2 DEF Fail, Reply, TypeOK, NetTypeOK
    <3>2. \A t \in Slots, q \in Places, id \in Ids : Pending(t, q, id)' => Pending(t, q, id)
      BY <2>1, <3>1 DEF Pending, AwaitsReshape
    <3> QED
      BY <2>2, <3>2, PendingKept DEF storeVars, PendingOK, FilesDrawn
  <2>3. ASSUME NEW n \in FreshUlids, NEW md, md.id = n, issued' = issued \cup {n},
               Reply(s, [type |-> "CompactCommit", md |-> md]), UNCHANGED <<files, table>>
        PROVE  PendingOK'
    <3>1. toClient'[s] = toClient[s] \/ toClient'[s].md = md
      BY <2>3 DEF Reply, TypeOK, NetTypeOK
    <3>2. \A t \in Slots, q \in Places, id \in Ids :
            Pending(t, q, id)' => Pending(t, q, id) \/ (t = s /\ q = "answer" /\ id = n)
      BY <2>1, <2>3, <3>1 DEF Pending, AwaitsReshape
    <3>3. n \notin issued /\ DOMAIN files' = DOMAIN files /\ "answer" \in Places
      BY <2>3 DEF FreshUlids, Places
    <3> QED
      BY <2>3, <3>2, <3>3, PendingDrawn
  <2>4. toServer[s] \in ReshapeRequest
    BY <1>1, RequestByType DEF HandleRequestFileReshape, Takes, TypeOK, NetTypeOK
  <2>5. \A n : [toServer[s].md EXCEPT !.id = n, !.dims = toServer[s].dims,
                               !.rows = RowCount(files[toServer[s].md.id], toServer[s].dims),
                               !.root = Commit(files[toServer[s].md.id], toServer[s].dims)].id = n
    BY <2>4 DEF ReshapeRequest, Metadata
  <2> QED
    BY <1>1, <2>2, <2>3, <2>5 DEF HandleRequestFileReshape
<1>2. CASE RenameFile(s)
  <2> DEFINE m == srv[s].msg
  <2>1. \A t \in Slots, q \in Places, id \in Ids : Pending(t, q, id)' => Pending(t, q, id)
    <3>1. ~ HandleRequestFileReshape(s) /\ toServer' = toServer /\ srv[s].pc = "rename"
      BY <1>2 DEF RenameFile, HandleRequestFileReshape, Takes
    <3>2. srv'[s].pc \notin {"open", "rename"}
      BY <3>1 DEF TaskMoves
    <3> QED
      BY <3>1, <3>2, TaskPlaces DEF Pending
  <2>2. CASE UNCHANGED <<files, issued>>
    BY <2>1, <2>2, PendingKept DEF PendingOK, FilesDrawn
  <2>3. CASE HasFile(m.old) /\ files' = Renamed(m.old.id, m.new.id)
             /\ srv' = [srv EXCEPT ![s].pc = "delete"]
    <3>1. Pending(s, "task", m.new.id) /\ m.new.id \in Ids
      <4>1. srv[s] \in RenamingTask /\ srv[s].pc = "rename"
        BY <1>2, TaskByPc DEF RenameFile, TypeOK, ServerTypeOK
      <4>2. m.type = "ReshapeResponse"
        BY <4>1 DEF RenamingTask, VersionResponse, OnlyAsked, Asked
      <4> QED
        BY <4>1, <4>2 DEF Pending, RenamingTask, VersionResponse, Metadata
    <3>2. m.new.id \in issued
      BY <3>1 DEF PendingOK, PendingHasNoFile, Places
    <3>3. DOMAIN files' = (DOMAIN files \ {m.old.id}) \cup {m.new.id} /\ UNCHANGED issued
      BY <1>2, <2>3 DEF RenameFile, Renamed, Put, Drop
    <3>4. FilesDrawn'
      BY <3>2, <3>3 DEF PendingOK, FilesDrawn
    <3>5. ASSUME NEW t \in Slots, NEW q \in Places, NEW id \in Ids, Pending(t, q, id)'
          PROVE  Pending(t, q, id) /\ id # m.new.id
      <4>1. Pending(t, q, id)
        BY <2>1, <3>5
      <4>2. CASE t = s /\ q = "task"
        <5>1. srv'[s].pc = "delete"
          BY <2>3, TaskFields DEF TypeOK, ServerTypeOK
        <5> QED
          BY <3>5, <4>2, <5>1 DEF Pending
      <4>3. CASE ~ (t = s /\ q = "task")
        BY <3>1, <4>1, <4>3 DEF PendingOK, PendingOnce, Places
      <4> QED
        BY <4>1, <4>2, <4>3
    <3> QED
      BY <3>3, <3>4, <3>5 DEF PendingOK, PendingOnce, PendingHasNoFile
  <2> QED
    BY <1>2, <2>2, <2>3 DEF RenameFile
<1>3. CASE ~ HandleRequestFileReshape(s) /\ ~ RenameFile(s)
  <2>1. /\ issued \subseteq issued' /\ FilesDrawn'
        /\ \A id \in issued : id \in DOMAIN files' => id \in DOMAIN files
    <3> USE DEF PendingOK, FilesDrawn
    <3>1. CASE UNCHANGED storeVars \/ UNCHANGED <<files, issued>>
      BY <3>1 DEF storeVars
    <3>2. ASSUME NEW n \in FreshUlids, NEW data, files' = Put(files, n, data),
                 issued' = issued \cup {n}
          PROVE  /\ issued \subseteq issued' /\ FilesDrawn'
                 /\ \A id \in issued : id \in DOMAIN files' => id \in DOMAIN files
      BY <3>2 DEF FreshUlids, Put
    <3>3. CASE RemoveFile(s)
      BY <3>3 DEF RemoveFile, Drop
    <3>4. HandleUploadNewFile(s) \/ HandleEditFileBytes(s) \/ HandleAppendToFile(s)
            \/ RemoveFile(s) \/ UNCHANGED storeVars \/ UNCHANGED <<files, issued>>
      BY <1>3 DEF ServerStep, HandleRequestFile, HandleRequestProof,
                  HandleRequestReshapeEvaluation, HandleRequestAppendEvaluation,
                  HandleRequestEditEvaluation, HandleDatabaseRequest, OpenDatabase,
                  CreateEntry, DeleteEntry, EndOfStream, serverVars
    <3> QED
      BY <3>1, <3>2, <3>3, <3>4
      DEF HandleUploadNewFile, HandleEditFileBytes, HandleAppendToFile, NewVersion
  <2>2. CASE HandleDatabaseRequest(s)
    <3>1. toServer'[s] = None /\ UNCHANGED issued /\ DOMAIN files' = DOMAIN files
      BY <2>2 DEF HandleDatabaseRequest, Takes, storeVars, TypeOK, NetTypeOK
    <3>2. \A id \in Ids : ~ Pending(s, "request", id)'
      BY <3>1 DEF Pending
    <3>3. \A t \in Slots, q \in Places, id \in Ids :
            Pending(t, q, id)' =>
              Pending(t, q, id) \/ (t = s /\ q = "task" /\ Pending(s, "request", id))
      BY <1>3, TaskPlaces
    <3>4. "request" \in Places /\ "task" \in Places
      BY DEF Places
    <3> QED
      BY <3>1, <3>2, <3>3, <3>4, PendingMoved
  <2>3. CASE ~ HandleDatabaseRequest(s)
    <3>1. \A t \in Slots, q \in Places, id \in Ids : Pending(t, q, id)' => Pending(t, q, id)
      BY <1>3, <2>3, TaskPlaces
    <3> QED
      BY <2>1, <3>1, PendingKept
  <2> QED
    BY <2>2, <2>3
<1> QED
  BY <1>1, <1>2, <1>3

\* How a step of a process changes what the places hold: what it is answered
\* moves to it, and from it into its verdict.
LEMMA ProcessPlaces ==
  ASSUME NEW s \in Slots, ProcessMoves(s), UNCHANGED srv,
         NEW t \in Slots, NEW q \in Places, NEW id \in Ids, Pending(t, q, id)'
  PROVE  \/ Pending(t, q, id) /\ ~ (t = s /\ q = "process")
         \/ /\ t = s /\ q = "process" /\ Pending(s, "answer", id)
            /\ sess'[s].pc = "evaluation"
         \/ /\ t = s /\ q = "request" /\ Pending(s, "process", id)
            /\ sess[s].pc = "evaluation"
<1>1. CASE t # s
  BY <1>1 DEF ProcessMoves, OthersUnchanged, Pending, AwaitsReshape
<1>2. CASE t = s /\ q = "answer"
  BY <1>2 DEF ProcessMoves, Pending, AwaitsReshape, IdleProcess
<1>3. CASE t = s /\ q = "process"
  BY <1>3 DEF ProcessMoves, Pending, AwaitsReshape
<1>4. CASE t = s /\ q = "request"
  BY <1>4 DEF ProcessMoves, Pending
<1>5. CASE t = s /\ q = "task"
  BY <1>5 DEF Pending
<1> QED
  BY <1>1, <1>2, <1>3, <1>4, <1>5 DEF Places

\* A step of a process keeps every Ulid of a reshape in one place without a file.
LEMMA ProcessPending ==
  ASSUME PendingOK, NEW s \in Slots, ProcessMoves(s), DiskUnchanged, UNCHANGED srv
  PROVE  PendingOK'
<1> DEFINE Keeps == \A t \in Slots, q \in Places, id \in Ids :
                      Pending(t, q, id)' => Pending(t, q, id)
<1>1. /\ UNCHANGED issued /\ issued \subseteq issued' /\ DOMAIN files' = DOMAIN files
      /\ FilesDrawn'
  BY DEF DiskUnchanged, PendingOK, FilesDrawn
<1>2. CASE sess'[s].pc = "evaluation"
  <2>1. \A id \in Ids : ~ Pending(s, "answer", id)'
    BY <1>2 DEF Pending, AwaitsReshape
  <2>2. \A t \in Slots, q \in Places, id \in Ids :
          Pending(t, q, id)' =>
            Pending(t, q, id) \/ (t = s /\ q = "process" /\ Pending(s, "answer", id))
    BY <1>2, ProcessPlaces DEF ProcessMoves
  <2>3. "answer" \in Places /\ "process" \in Places
    BY DEF Places
  <2> QED
    BY <1>1, <2>1, <2>2, <2>3, PendingMoved
<1>3. CASE sess[s].pc = "evaluation" /\ sess'[s].pc # "evaluation"
  <2>1. \A id \in Ids : ~ Pending(s, "process", id)'
    BY <1>3 DEF Pending
  <2>2. \A t \in Slots, q \in Places, id \in Ids :
          Pending(t, q, id)' =>
            Pending(t, q, id) \/ (t = s /\ q = "request" /\ Pending(s, "process", id))
    BY <1>3, ProcessPlaces
  <2>3. "request" \in Places /\ "process" \in Places
    BY DEF Places
  <2> QED
    BY <1>1, <2>1, <2>2, <2>3, PendingMoved
<1>4. CASE sess[s].pc # "evaluation" /\ sess'[s].pc # "evaluation"
  <2>1. Keeps
    BY <1>4, ProcessPlaces
  <2> QED
    BY <1>1, <2>1, PendingKept
<1> QED
  BY <1>2, <1>3, <1>4

\* So does every step: a start puts no Ulid anywhere, and a crash only loses some.
LEMMA PendingStep ==
  ASSUME TypeOK, OnlyAsked, ConnectionsOK, ReshapeTurn, PendingOK, StepKinds
  PROVE  PendingOK'
<1> DEFINE Keeps == \A t \in Slots, q \in Places, id \in Ids :
                      Pending(t, q, id)' => Pending(t, q, id)
<1>1. ASSUME Keeps, DiskUnchanged
      PROVE  PendingOK'
  <2>1. issued \subseteq issued' /\ DOMAIN files' = DOMAIN files /\ FilesDrawn'
    BY <1>1 DEF DiskUnchanged, PendingOK, FilesDrawn
  <2> QED
    BY <1>1, <2>1, PendingKept
<1>2. ASSUME NEW s \in Slots, StartMoves(s), DiskUnchanged, UNCHANGED srv
      PROVE  PendingOK'
  <2>1. toClient'[s] = None
    BY <1>2 DEF StartMoves, ConnectionsOK
  <2>2. Keeps
    BY <1>2, <2>1 DEF StartMoves, OthersUnchanged, Pending, AwaitsReshape
  <2> QED
    BY <1>1, <1>2, <2>2
<1>3. ASSUME NEW s \in Slots, ServerStep(s), TaskMoves(s), ProcessesUnchanged
      PROVE  PendingOK'
  BY <1>3, TaskPending DEF ProcessesUnchanged
<1>4. ASSUME NEW s \in Slots, ProcessMoves(s), DiskUnchanged, UNCHANGED srv
      PROVE  PendingOK'
  BY <1>4, ProcessPending
<1>5. CASE ServerCrash /\ DiskUnchanged /\ ProcessesUnchanged
  <2>1. Keeps
    BY <1>5 DEF ServerCrash, ProcessesUnchanged, Pending, AwaitsReshape, IdleTask
  <2> QED
    BY <1>1, <1>5, <2>1
<1>6. CASE UNCHANGED vars
  <2>1. Keeps /\ DiskUnchanged
    BY <1>6 DEF vars, netVars, serverVars, clientVars, DiskUnchanged, Pending, AwaitsReshape
  <2> QED
    BY <1>1, <2>1
<1> QED
  BY <1>2, <1>3, <1>4, <1>5, <1>6 DEF StepKinds

\* At the start nothing is under way.
LEMMA PendingInit == Init => PendingOK
BY DEF Init, NetInit, ServerInit, EmptyMap, IdleTask, IdleProcess, PendingOK, PendingOnce,
       PendingHasNoFile, FilesDrawn, Pending, AwaitsReshape

-----------------------------------------------------------------------------
(* The refinement.                                                         *)

\* The invariant that the refinement rests on.
DirectoryInv == TypeOK /\ OnlyAsked /\ ConnectionsOK /\ ReshapeTurn /\ PendingOK

\* The strengthened invariant is inductive.
LEMMA DirectoryInvariant ==
  ASSUME WithoutChanges
  PROVE  Spec => []DirectoryInv
<1>1. Init => DirectoryInv
  BY InitType, AskedInit, ConnectionsInit, ReshapeTurnInit, PendingInit DEF DirectoryInv
<1>2. DirectoryInv /\ [Next]_vars => DirectoryInv'
  BY NextType, WiresTyped, NextKinds, AskedStep, ConnectionsStep, ReshapeTurnStep, PendingStep
  DEF DirectoryInv
<1> QED
  BY <1>1, <1>2, PTL DEF Spec

\* The empty directory is an empty store.
LEMMA DirectoryInit == Init => Directory!Init
BY DEF Init, ServerInit, EmptyMap, Directory!Init

\* A step of a handler draws a name, stores, moves or removes one object, or
\* leaves the directory alone.
LEMMA HandlerStep ==
  ASSUME DirectoryInv, NEW s \in Slots, ServerStep(s), TypeOK'
  PROVE  Directory!Next \/ UNCHANGED Directory!vars
<1>1. ASSUME NEW id \in FreshUlids, NEW data, files' = Put(files, id, data),
             issued' = issued \cup {id}
      PROVE  Directory!Next
  <2>1. id \in Ids /\ id \notin issued
    BY <1>1 DEF FreshUlids
  <2>2. files' \in [DOMAIN files \cup {id} -> Content]
    <3>1. DOMAIN files' = DOMAIN files \cup {id}
      BY <1>1 DEF Put
    <3> QED
      BY <3>1 DEF TypeOK, ServerTypeOK, IsMap
  <2>3. \A x \in DOMAIN files \ {id} : files'[x] = files[x]
    BY <1>1 DEF Put
  <2>4. Directory!Store(id)
    BY <1>1, <2>1, <2>2, <2>3 DEF Directory!Store
  <2> QED
    BY <2>1, <2>4 DEF Directory!Next
<1>2. CASE HandleRequestFileReshape(s)
  <2>1. ASSUME NEW id \in FreshUlids, issued' = issued \cup {id}, UNCHANGED files
        PROVE  Directory!Next
    BY <2>1 DEF FreshUlids, Directory!Next, Directory!Draw
  <2> QED
    BY <1>2, <2>1 DEF HandleRequestFileReshape, storeVars, Directory!vars
<1>3. CASE RenameFile(s)
  <2> DEFINE m == srv[s].msg
  <2>1. CASE HasFile(m.old) /\ files' = Renamed(m.old.id, m.new.id)
    <3>1. srv[s] \in RenamingTask /\ srv[s].pc = "rename"
      BY <1>3, TaskByPc DEF RenameFile, DirectoryInv, TypeOK, ServerTypeOK
    <3>2. m.old.id \in Ids /\ m.new.id \in Ids /\ m \in VersionResponse
      BY <3>1 DEF RenamingTask, VersionResponse, Metadata
    <3>3. m.type = "ReshapeResponse"
      BY <3>1, <3>2 DEF VersionResponse, DirectoryInv, OnlyAsked, Asked
    <3>4. Pending(s, "task", m.new.id)
      BY <3>1, <3>3 DEF Pending
    <3>5. m.new.id \in issued \ DOMAIN files
      BY <3>2, <3>4 DEF DirectoryInv, PendingOK, PendingHasNoFile, Places
    <3>6. Directory!Move(m.old.id, m.new.id)
      <4>1. files' = [x \in (DOMAIN files \ {m.old.id}) \cup {m.new.id} |->
                        IF x = m.new.id THEN files[m.old.id] ELSE files[x]]
        BY <2>1, <3>5 DEF Renamed, Put, Drop
      <4> QED
        BY <1>3, <2>1, <3>5, <4>1 DEF RenameFile, HasFile, Directory!Move
    <3> QED
      BY <3>2, <3>6 DEF Directory!Next
  <2> QED
    BY <1>3, <2>1 DEF RenameFile, Directory!vars
<1>4. CASE RemoveFile(s)
  <2>1. srv[s].msg \in DeleteRequest \cup VersionResponse
    BY <1>4, TaskByPc DEF RemoveFile, DirectoryInv, TypeOK, ServerTypeOK, RemovingTask
  <2>2. FileToRemove(srv[s].msg) \in Ids
    <3>1. CASE srv[s].msg.type = "DeleteFile"
      BY <2>1, <3>1 DEF FileToRemove, DeleteRequest, VersionResponse, Metadata
    <3>2. CASE srv[s].msg.type # "DeleteFile"
      BY <2>1, <3>2 DEF FileToRemove, DeleteRequest, VersionResponse, Metadata
    <3> QED
      BY <3>1, <3>2
  <2>3. Directory!Remove(FileToRemove(srv[s].msg))
    BY <1>4 DEF RemoveFile, Drop, Directory!Remove
  <2> QED
    BY <2>2, <2>3 DEF Directory!Next
<1>5. CASE HandleUploadNewFile(s) \/ HandleEditFileBytes(s) \/ HandleAppendToFile(s)
  BY <1>1, <1>5 DEF HandleUploadNewFile, HandleEditFileBytes, HandleAppendToFile, NewVersion,
                    storeVars, Directory!vars
<1>6. CASE UNCHANGED <<files, issued>>
  BY <1>6 DEF Directory!vars
<1> QED
  BY <1>2, <1>3, <1>4, <1>5, <1>6
  DEF ServerStep, HandleRequestFile, HandleRequestProof, HandleRequestReshapeEvaluation,
      HandleRequestAppendEvaluation, HandleRequestEditEvaluation, HandleDatabaseRequest,
      OpenDatabase, CreateEntry, DeleteEntry, EndOfStream, serverVars, storeVars

\* While files are uploaded, downloaded, proved, reshaped and deleted, by any
\* number of clients at once and with crashes of the server and of clients, the
\* server's directory (server.rs) behaves as a store of immutable objects: no
\* content changes, no other file is overwritten, and a rename has a free name
\* as its target because one place at a time knows the Ulid of a reshape.
THEOREM DirectoryIsObjectStore ==
  ASSUME WithoutChanges
  PROVE  Spec => ImplementsObjectStore
<1>1. Init => Directory!Init
  BY DirectoryInit
<1>2. DirectoryInv /\ DirectoryInv' /\ [Next]_vars => [Directory!Next]_(Directory!vars)
  <2> SUFFICES ASSUME DirectoryInv, TypeOK', [Next]_vars
               PROVE  Directory!Next \/ UNCHANGED Directory!vars
    BY DEF DirectoryInv
  <2>1. StepKinds
    BY WiresTyped, NextKinds DEF DirectoryInv
  <2>2. CASE DiskUnchanged \/ UNCHANGED vars
    BY <2>2 DEF DiskUnchanged, vars, serverVars, Directory!vars
  <2> QED
    BY <2>1, <2>2, HandlerStep DEF StepKinds
<1>3. Spec => []DirectoryInv
  BY DirectoryInvariant
<1> QED
  BY <1>1, <1>2, <1>3, PTL DEF Spec, ImplementsObjectStore, Directory!Spec

-----------------------------------------------------------------------------
(* What one client records the server has, and the server keeps nothing    *)
(* else: as long as one process runs at a time, neither side fails, and    *)
(* the client either reshapes, in a directory of its own, or deletes.      *)
(*                                                                         *)
(* The argument compares what the client will know with what the server    *)
(* will have once the operation under way is through.  Few steps change    *)
(* either, and they change both; all others carry out what was decided.    *)


\* One process at a time and no faults.  After a reshape, whose entry the
\* server deletes, a deletion is answered with an error; and a reshape whose
\* client and server share a directory finds its database busy.
OneAtATime ==
  /\ \E s : Slots = {s}
  /\ Faults = {}
  /\ WithoutChanges
  /\ "reshape_file" \in Operations => ~ SharedDb /\ "delete_file" \notin Operations

-----------------------------------------------------------------------------
(* What the client will know.                                              *)

\* The handler has stored an upload that has no entry yet.
InTask(s, md) ==
  srv[s].pc \in {"open", "create"} /\ srv[s].msg.type = "UploadNewFile" /\ srv[s].md = md

\* An upload that is stored and will be recorded.
Uploaded(s, md) ==
  \/ InTask(s, md)
  \/ /\ sess[s].pc = "commit" /\ sess[s].req.type = "UploadNewFile"
     /\ toClient[s] # None /\ toClient[s].type = "CompactCommit" /\ toClient[s].md = md
  \/ /\ sess[s].pc \in {"columns", "dbOpen", "dbCreate"} /\ sess[s].req.type = "UploadNewFile"
     /\ sess[s].new = md

\* A reshape that was accepted and will be recorded.
Reshaped(s, md) ==
  /\ sess[s].pc \in {"dbOpen", "dbCreate"} /\ sess[s].req.type = "RequestFileReshape"
  /\ sess[s].new = md

\* A record that will go: its file is deleted or was reshaped.
Leaves(s, id) ==
  /\ sess[s].pc \in {"deletion", "dbOpen", "dbCreate", "dbDelete"}
  /\ sess[s].req.type \in {"DeleteFile", "RequestFileReshape"}
  /\ sess[s].req.md.id = id

WillKnow(s, md) ==
  \/ Uploaded(s, md) \/ Reshaped(s, md)
  \/ md.id \in DOMAIN clientDb /\ clientDb[md.id] = md /\ ~ Leaves(s, md.id)

-----------------------------------------------------------------------------
(* What the server will have.                                              *)

\* A verdict that will give the file of old the Ulid new.
Renames(s, old, new) ==
  \/ /\ toServer[s] # None /\ Accepts(toServer[s])
     /\ toServer[s].old.id = old /\ toServer[s].new.id = new
  \/ /\ srv[s].pc \in {"open", "rename"} /\ Accepts(srv[s].msg)
     /\ srv[s].msg.old.id = old /\ srv[s].msg.new.id = new

\* A deletion that will remove the file.
Erases(s, id) ==
  \/ toServer[s] # None /\ toServer[s].type = "DeleteFile" /\ toServer[s].md.id = id
  \/ srv[s].pc # "wait" /\ srv[s].msg.type = "DeleteFile" /\ srv[s].msg.md.id = id

\* A request that will delete the entry.
Clears(s, id) ==
  \/ /\ toServer[s] # None /\ toServer[s].type \in {"DeleteFile", "ReshapeResponse"}
     /\ EntryToDelete(toServer[s]) = id
  \/ /\ srv[s].pc \in {"open", "rename", "delete"}
     /\ srv[s].msg.type \in {"DeleteFile", "ReshapeResponse"}
     /\ EntryToDelete(srv[s].msg) = id

WillHave(s, id, data) ==
  \/ \E old \in DOMAIN files : Renames(s, old, id) /\ data = files[old]
  \/ /\ id \in DOMAIN files /\ data = files[id]
     /\ ~ Erases(s, id) /\ \A new \in Ids : ~ Renames(s, id, new)

-----------------------------------------------------------------------------
(* The two agree.                                                          *)

KnownStored(s) ==
  \A md \in Metadata :
    WillKnow(s, md) => WillHave(s, md.id, md.root.data) /\ md.root.dims = md.dims

StoredKnown(s) ==
  \A id \in Ids, data \in Content :
    WillHave(s, id, data) => \E md \in Metadata : WillKnow(s, md) /\ md.id = id

EntryKnown(s) ==
  \A id \in DOMAIN table :
    Clears(s, id) \/ \E md \in Metadata : WillKnow(s, md) /\ md.id = id

\* Deletions answer with an error for a file that has no entry.
KnownHasEntry(s) ==
  "delete_file" \in Operations =>
    \A md \in Metadata : WillKnow(s, md) => md.id \in DOMAIN table \/ InTask(s, md)

RecordsNamed == \A id \in DOMAIN clientDb : clientDb[id].id = id

Agreement(s) ==
  KnownStored(s) /\ StoredKnown(s) /\ EntryKnown(s) /\ KnownHasEntry(s) /\ RecordsNamed

-----------------------------------------------------------------------------
(* The conversation.                                                       *)

Waits == {"commit", "file", "columns", "evaluation", "deletion"}

\* There is one message: on its way, with the handler, or its answer.
OneMessage(s) ==
  /\ toServer[s] # None => srv[s].pc = "wait" /\ toClient[s] = None
  /\ srv[s].pc # "wait" => toClient[s] = None
  /\ sess[s].pc \in Waits => toServer[s] # None \/ srv[s].pc # "wait" \/ toClient[s] # None

\* Both sides are there until the process returns.
BothThere(s) ==
  /\ sess[s].pc = "idle" => ends[s] \in {{}, {"server"}}
  /\ sess[s].pc # "idle" => ends[s] = {"client", "server"}
  /\ ends[s] = {} => toServer[s] = None

\* The request m is the one that the process waits for, or the verdict that it
\* does not wait for.
Expected(s, m) ==
  /\ sess[s].pc \in {"commit", "file", "deletion"} => m = sess[s].req
  /\ sess[s].pc = "columns" =>
       /\ m.type = "RequestProof"
       /\ sess[s].req.type = "UploadNewFile" => m.md = sess[s].new
  /\ sess[s].pc = "evaluation" => m.type = "RequestReshapeEvaluation"
  /\ sess[s].pc \notin Waits => m.type = "ReshapeResponse"

AllExpected(s) ==
  /\ toServer[s] # None => Expected(s, toServer[s])
  /\ srv[s].pc # "wait" => Expected(s, srv[s].msg)

\* The databases are open while they are used.
Handles(s) ==
  /\ <<"client", s>> \in dbLock => sess[s].pc \in {"dbCreate", "dbDelete"}
  /\ <<"server", s>> \in dbLock => srv[s].pc \in {"create", "rename", "delete", "remove"}

\* A process that works on a file has it on record.
OnRecord(s) ==
  sess[s].pc \in Waits /\ sess[s].req.type # "UploadNewFile" =>
    sess[s].req.md.id \in DOMAIN clientDb /\ clientDb[sess[s].req.md.id] = sess[s].req.md

Conversation(s) ==
  OneMessage(s) /\ BothThere(s) /\ AllExpected(s) /\ Handles(s) /\ OnRecord(s)

-----------------------------------------------------------------------------
(* What each operation can count on.                                       *)

\* An upload is what was sent, and its proof succeeds.
UploadGoesOn(s) ==
  /\ \A md \in Metadata : Uploaded(s, md) =>
       /\ md.root = Commit(sess[s].req.data, sess[s].req.dims)
       /\ CommitOk(sess[s].req.data, sess[s].req.dims)
  /\ sess[s].pc = "columns" /\ sess[s].req.type = "UploadNewFile" /\ toClient[s] # None =>
       /\ toClient[s].type = "Columns"
       /\ Commit(toClient[s].data, toClient[s].dims) = sess[s].new.root

\* md is the old version in another shape.
ShapeOf(s, md) == md.dims = md.root.dims /\ md.root.data = sess[s].req.md.root.data

\* A reshape is one of the file on record, and its verdict finds the file.
ReshapeGoesOn(s) ==
  /\ AwaitsReshape(s) /\ toClient[s] # None /\ toClient[s].type = "CompactCommit" =>
       ShapeOf(s, toClient[s].md)
  /\ sess[s].pc = "evaluation" => ShapeOf(s, sess[s].new)
  /\ \A old, new \in Ids : Renames(s, old, new) => old \in DOMAIN files
  /\ srv[s].pc = "rename" => Accepts(srv[s].msg)
  /\ \A md \in Metadata : Reshaped(s, md) => md.id # sess[s].req.md.id

\* A deletion finds the entry and the file, and succeeds.
DeletionGoesOn(s) ==
  /\ \A id \in Ids : Erases(s, id) =>
       /\ sess[s].pc = "deletion"
       /\ id \in DOMAIN files
       /\ id \in DOMAIN table \/ (srv[s].pc = "remove" /\ srv[s].found)
  /\ srv[s].pc = "remove" => srv[s].msg.type = "DeleteFile" /\ srv[s].found
  /\ sess[s].pc = "deletion" /\ toClient[s] # None => toClient[s].type = "FileDeleted"

Progress(s) == UploadGoesOn(s) /\ ReshapeGoesOn(s) /\ DeletionGoesOn(s)

\* The invariant.
RecordsInv(s) == Conversation(s) /\ Progress(s) /\ Agreement(s)

-----------------------------------------------------------------------------
(* The steps of the one process and its task.                              *)

\* There are no others.
LEMMA StepsAlone ==
  ASSUME OneAtATime, NEW s \in Slots, Slots = {s}, [Next]_vars
  PROVE  Call(s) \/ Serve(s) \/ Client(s) \/ UNCHANGED vars
BY DEF OneAtATime, Next, Abort, Crash

\* Nothing that is to come changes.
SameOutcome(s) ==
  /\ UNCHANGED <<files, table, clientDb>>
  /\ \A md \in Metadata :
       /\ Uploaded(s, md)' <=> Uploaded(s, md)
       /\ InTask(s, md) => InTask(s, md)'
       /\ Reshaped(s, md)' <=> Reshaped(s, md)
  /\ \A id \in Ids :
       /\ Leaves(s, id)' <=> Leaves(s, id)
       /\ Erases(s, id)' <=> Erases(s, id)
       /\ Clears(s, id) => Clears(s, id)'
       /\ \A new \in Ids : Renames(s, id, new)' <=> Renames(s, id, new)

\* Then the client will know what it would have known.
LEMMA KnowledgeKept ==
  ASSUME NEW s \in Slots, SameOutcome(s), NEW md \in Metadata
  PROVE  WillKnow(s, md)' <=> WillKnow(s, md)
<1>1. md.id \in Ids
  BY DEF Metadata
<1> QED
  BY <1>1 DEF SameOutcome, WillKnow

\* And the server will have what it would have had.
LEMMA StockKept ==
  ASSUME NEW s \in Slots, TypeOK, SameOutcome(s), NEW id \in Ids, NEW data
  PROVE  WillHave(s, id, data)' <=> WillHave(s, id, data)
<1>1. DOMAIN files \subseteq Ids
  BY DEF TypeOK, ServerTypeOK, IsMap
<1> QED
  BY <1>1 DEF SameOutcome, WillHave

\* Two sides that agreed still agree, when as much is known as before.
LEMMA AgreementCarried ==
  ASSUME NEW s \in Slots, TypeOK, Agreement(s), RecordsNamed', UNCHANGED table,
         \A md \in Metadata : WillKnow(s, md)' => WillKnow(s, md),
         \A md \in Metadata : WillKnow(s, md) => \E m \in Metadata : WillKnow(s, m)' /\ m.id = md.id,
         \A id \in Ids : \A data : WillHave(s, id, data)' <=> WillHave(s, id, data),
         \A id \in Ids : Clears(s, id) => Clears(s, id)',
         \A md \in Metadata : InTask(s, md) => InTask(s, md)'
  PROVE  Agreement(s)'
<1>1. DOMAIN table \subseteq Ids /\ \A md \in Metadata : md.id \in Ids
  BY DEF TypeOK, ServerTypeOK, IsMap, Metadata
<1>2. KnownStored(s)'
  BY <1>1 DEF Agreement, KnownStored
<1>3. StoredKnown(s)'
  BY <1>1 DEF Agreement, StoredKnown
<1>4. EntryKnown(s)'
  BY <1>1 DEF Agreement, EntryKnown
<1>5. KnownHasEntry(s)'
  BY DEF Agreement, KnownHasEntry
<1> QED
  BY <1>2, <1>3, <1>4, <1>5 DEF Agreement

\* In particular when nothing that is to come changes.
LEMMA AgreementKept ==
  ASSUME NEW s \in Slots, TypeOK, Agreement(s), SameOutcome(s)
  PROVE  Agreement(s)'
<1>1. \A md \in Metadata : WillKnow(s, md)' <=> WillKnow(s, md)
  BY KnowledgeKept
<1>2. \A id \in Ids : \A data : WillHave(s, id, data)' <=> WillHave(s, id, data)
  BY StockKept
<1>3. RecordsNamed' /\ UNCHANGED table
  BY DEF Agreement, RecordsNamed, SameOutcome
<1>4. /\ \A id \in Ids : Clears(s, id) => Clears(s, id)'
      /\ \A md \in Metadata : InTask(s, md) => InTask(s, md)'
  BY DEF SameOutcome
<1> QED
  BY <1>1, <1>2, <1>3, <1>4, AgreementCarried

-----------------------------------------------------------------------------
(* The server.                                                             *)

\* A task takes the message that the process expects to be worked on.
LEMMA Taken ==
  ASSUME NEW s \in Slots, WiresTypeOK, Conversation(s), NEW type, Takes(s, type)
  PROVE  /\ toServer[s] # None /\ toServer[s] \in Request /\ toServer[s].type = type
         /\ toServer'[s] = None /\ UNCHANGED dbLock
         /\ srv[s].pc = "wait" /\ toClient[s] = None
         /\ Expected(s, toServer[s])
BY DEF Takes, WiresTypeOK, Conversation, OneMessage, AllExpected

\* An answer reaches a process that runs.
LEMMA Answers ==
  ASSUME NEW s \in Slots, WiresTypeOK, Conversation(s), NEW m, Reply(s, m)
  PROVE  /\ srv'[s] = IdleTask /\ ends'[s] = ends[s]
         /\ sess[s].pc # "idle" => toClient'[s] = m
         /\ sess[s].pc = "idle" => toClient'[s] = toClient[s]
BY DEF Reply, WiresTypeOK, Conversation, BothThere

\* The requests that are answered at once.
Queries ==
  {"UploadNewFile", "RequestFile", "RequestProof", "RequestFileReshape",
   "RequestReshapeEvaluation"}

\* A process that expects one of them waits for it, and deletes nothing.
LEMMA QueryTurn ==
  ASSUME NEW s \in Slots, WiresTypeOK, NEW m, m.type \in Queries, Expected(s, m)
  PROVE  sess[s].pc \in Waits /\ sess[s].pc # "idle" /\ sess[s].pc # "deletion"
<1>1. sess[s].pc \in Waits
  BY DEF Expected, Queries
<1>2. sess[s].pc = "deletion" => sess[s] \in AwaitsDeletion
  BY ProcessByPc DEF WiresTypeOK
<1>3. sess[s].pc # "deletion"
  BY <1>2 DEF Expected, Queries, AwaitsDeletion, DeleteRequest
<1> QED
  BY <1>1, <1>3 DEF Waits

\* A process that expects a first request, a deletion or a verdict is at the step
\* that goes with it.
LEMMA Turns ==
  ASSUME NEW s \in Slots, WiresTypeOK, NEW m, Expected(s, m)
  PROVE  /\ m.type \in {"UploadNewFile", "RequestFileReshape"} =>
              sess[s].pc = "commit" /\ m = sess[s].req
         /\ m.type = "DeleteFile" => sess[s].pc = "deletion" /\ m = sess[s].req
         /\ m.type = "ReshapeResponse" => sess[s].pc \notin Waits
<1>1. sess[s] \in Process
  BY DEF WiresTypeOK
<1>2. sess[s].pc = "commit" =>
        sess[s].req.type \in {"UploadNewFile", "EditFileBytes", "AppendToFile", "RequestFileReshape"}
  BY <1>1, ProcessByPc, RequestTypes DEF AwaitsCommit
<1>3. sess[s].pc = "file" => sess[s].req.type = "RequestFile"
  BY <1>1, ProcessByPc, RequestTypes DEF AwaitsFile
<1>4. sess[s].pc = "deletion" => sess[s].req.type = "DeleteFile"
  BY <1>1, ProcessByPc, RequestTypes DEF AwaitsDeletion
<1> QED
  BY <1>2, <1>3, <1>4 DEF Expected, Waits

\* An answer changes nothing that is to come; it must be what the process of an
\* upload or a reshape counts on.
LEMMA AnswerRecords ==
  ASSUME NEW s \in Slots, DirectoryInv, RecordsInv(s), NEW type \in Queries, Takes(s, type),
         NEW m, m # None, Reply(s, m), UNCHANGED <<files, table>>, UNCHANGED clientVars,
         m.type = "CompactCommit" => type = "RequestFileReshape" /\ ShapeOf(s, m.md),
         sess[s].pc = "columns" /\ sess[s].req.type = "UploadNewFile" =>
           m.type = "Columns" /\ Commit(m.data, m.dims) = sess[s].new.root
  PROVE  RecordsInv(s)'
<1> USE DEF Queries
<1>1. WiresTypeOK /\ TypeOK /\ Conversation(s) /\ Progress(s) /\ Agreement(s)
  BY WiresTyped DEF DirectoryInv, RecordsInv
<1>2. /\ toServer[s] # None /\ toServer[s].type = type /\ toServer'[s] = None /\ UNCHANGED dbLock
      /\ srv[s].pc = "wait" /\ toClient[s] = None /\ Expected(s, toServer[s])
  BY <1>1, Taken
<1>3. sess[s].pc \in Waits /\ sess[s].pc # "idle" /\ sess[s].pc # "deletion"
  BY <1>1, <1>2, QueryTurn
<1>4. srv'[s] = IdleTask /\ ends'[s] = ends[s] /\ toClient'[s] = m
  BY <1>1, <1>3, Answers
<1>5. UNCHANGED <<sess, clientDb, files, table>> /\ srv'[s].pc = "wait"
  BY <1>4 DEF clientVars, IdleTask
<1>6. Conversation(s)'
  BY <1>1, <1>2, <1>3, <1>4, <1>5
  DEF Conversation, OneMessage, BothThere, AllExpected, Handles, OnRecord
<1>7. sess[s].pc = "commit" => sess[s].req.type = type
  BY <1>2 DEF Expected
<1>8. SameOutcome(s)
  <2>1. \A md : /\ Uploaded(s, md)' <=> Uploaded(s, md)
                /\ InTask(s, md) => InTask(s, md)'
                /\ Reshaped(s, md)' <=> Reshaped(s, md)
    BY <1>2, <1>4, <1>5, <1>7 DEF Uploaded, InTask, Reshaped
  <2>2. \A id : /\ Leaves(s, id)' <=> Leaves(s, id)
                /\ Erases(s, id)' <=> Erases(s, id)
                /\ Clears(s, id) => Clears(s, id)'
                /\ \A new : Renames(s, id, new)' <=> Renames(s, id, new)
    BY <1>2, <1>4, <1>5 DEF Leaves, Erases, Clears, Renames, Accepts
  <2> QED
    BY <1>5, <2>1, <2>2 DEF SameOutcome
<1>9. Progress(s)'
  <2>1. UploadGoesOn(s)'
    BY <1>1, <1>3, <1>4, <1>5, <1>8 DEF Progress, UploadGoesOn, SameOutcome
  <2>2. ReshapeGoesOn(s)'
    BY <1>1, <1>3, <1>4, <1>5, <1>7, <1>8 DEF Progress, ReshapeGoesOn, SameOutcome, AwaitsReshape, ShapeOf
  <2>3. DeletionGoesOn(s)'
    BY <1>1, <1>3, <1>4, <1>5, <1>8 DEF Progress, DeletionGoesOn, SameOutcome
  <2> QED
    BY <2>1, <2>2, <2>3 DEF Progress
<1> QED
  BY <1>1, <1>6, <1>8, <1>9, AgreementKept DEF RecordsInv

\* The answers of the server are messages.
LEMMA AnswersAreMessages ==
  ASSUME TypeOK
  PROVE  /\ [type |-> "ErrorResponse"] # None /\ [type |-> "FileDeleted"] # None
         /\ \A id \in DOMAIN files : /\ files[id] \in Content
                                     /\ [type |-> "File", data |-> files[id]] # None
                                     /\ [type |-> "ReshapeEvaluation", data |-> files[id]] # None
         /\ \A id \in DOMAIN files, dims \in Shapes :
              [type |-> "Columns", data |-> files[id], dims |-> dims] # None
         /\ \A md \in Metadata : [type |-> "CompactCommit", md |-> md] # None
<1>1. \A id \in DOMAIN files : files[id] \in Content
  BY DEF TypeOK, ServerTypeOK, IsMap
<1> QED
  BY <1>1, NoneAssumption DEF Response

\* The answer with a file.
LEMMA RequestFileRecords ==
  ASSUME NEW s \in Slots, DirectoryInv, RecordsInv(s), HandleRequestFile(s), UNCHANGED clientVars
  PROVE  RecordsInv(s)'
<1>1. /\ Takes(s, "RequestFile") /\ UNCHANGED <<files, table>> /\ "RequestFile" \in Queries
  BY DEF HandleRequestFile, storeVars, Queries
<1>2. sess[s].pc # "columns"
  BY <1>1, WiresTyped, Taken DEF RecordsInv, DirectoryInv, Expected
<1>3. PICK m : Reply(s, m) /\ m # None /\ m.type # "CompactCommit"
  BY AnswersAreMessages DEF HandleRequestFile, Fail, HasFile, DirectoryInv
<1> QED
  BY <1>1, <1>2, <1>3, AnswerRecords

\* The answer with columns: the ones of an upload are those of what was sent.
LEMMA RequestProofRecords ==
  ASSUME NEW s \in Slots, DirectoryInv, RecordsInv(s), HandleRequestProof(s), UNCHANGED clientVars
  PROVE  RecordsInv(s)'
<1> DEFINE md == toServer[s].md
           r  == [type |-> "Columns", data |-> files[md.id], dims |-> md.dims]
<1>1. /\ Takes(s, "RequestProof") /\ UNCHANGED <<files, table>> /\ "RequestProof" \in Queries
  BY DEF HandleRequestProof, storeVars, Queries
<1>2. TypeOK /\ WiresTypeOK
  BY WiresTyped DEF DirectoryInv
<1>3. /\ toServer[s] \in Request /\ toServer[s].type = "RequestProof" /\ srv[s].pc = "wait"
      /\ Expected(s, toServer[s])
  BY <1>1, <1>2, Taken DEF RecordsInv
<1>4. md \in Metadata /\ md.dims \in Shapes
  BY <1>3, RequestByType DEF ProofRequest, Metadata
<1>5. ASSUME sess[s].pc = "columns", sess[s].req.type = "UploadNewFile"
      PROVE  HasFile(md) /\ CommitOk(files[md.id], md.dims) /\ Commit(r.data, r.dims) = sess[s].new.root
  <2>1. md = sess[s].new /\ Uploaded(s, md)
    BY <1>3, <1>5 DEF Expected, Uploaded
  <2>2. /\ md.root = Commit(sess[s].req.data, sess[s].req.dims)
        /\ CommitOk(sess[s].req.data, sess[s].req.dims)
    BY <1>4, <2>1 DEF RecordsInv, Progress, UploadGoesOn
  <2>3. WillHave(s, md.id, md.root.data) /\ md.root.dims = md.dims
    BY <1>4, <2>1 DEF RecordsInv, Agreement, KnownStored, WillKnow
  <2>4. \A old, new : ~ Renames(s, old, new)
    BY <1>3 DEF Renames, Accepts
  <2>5. md.id \in DOMAIN files /\ files[md.id] = md.root.data
    BY <2>3, <2>4 DEF WillHave
  <2> QED
    BY <2>1, <2>2, <2>3, <2>5 DEF HasFile, Commit
<1>6. PICK m : /\ Reply(s, m) /\ m # None /\ m.type # "CompactCommit"
               /\ HasFile(md) /\ CommitOk(files[md.id], md.dims) => m = r
  <2>1. CASE HasFile(md) /\ CommitOk(files[md.id], md.dims)
    <3>1. Reply(s, r)
      BY <2>1 DEF HandleRequestProof
    <3>2. r # None
      BY <1>2, <1>4, <2>1, AnswersAreMessages DEF HasFile
    <3> QED
      BY <3>1, <3>2
  <2>2. CASE ~ (HasFile(md) /\ CommitOk(files[md.id], md.dims))
    BY <1>2, <2>2, AnswersAreMessages DEF HandleRequestProof, Fail
  <2> QED
    BY <2>1, <2>2
<1>7. sess[s].pc = "columns" /\ sess[s].req.type = "UploadNewFile" =>
        m.type = "Columns" /\ Commit(m.data, m.dims) = sess[s].new.root
  BY <1>5, <1>6
<1> QED
  BY <1>1, <1>6, <1>7, AnswerRecords

\* The answer with a new commitment to the file on record.
LEMMA RequestReshapeRecords ==
  ASSUME NEW s \in Slots, DirectoryInv, RecordsInv(s), HandleRequestFileReshape(s),
         UNCHANGED clientVars
  PROVE  RecordsInv(s)'
<1> DEFINE q == toServer[s]
           Reshape(id) == [q.md EXCEPT !.id = id, !.dims = q.dims,
                                       !.rows = RowCount(files[q.md.id], q.dims),
                                       !.root = Commit(files[q.md.id], q.dims)]
<1>1. /\ Takes(s, "RequestFileReshape") /\ UNCHANGED <<files, table>>
      /\ "RequestFileReshape" \in Queries
  BY DEF HandleRequestFileReshape, storeVars, Queries
<1>2. TypeOK /\ WiresTypeOK
  BY WiresTyped DEF DirectoryInv
<1>3. q \in ReshapeRequest /\ q.type = "RequestFileReshape" /\ srv[s].pc = "wait" /\ Expected(s, q)
  BY <1>1, <1>2, Taken, RequestByType DEF RecordsInv
<1>4. q.md \in Metadata /\ q.dims \in Shapes
  BY <1>3 DEF ReshapeRequest
<1>5. sess[s].pc = "commit" /\ q = sess[s].req
  BY <1>2, <1>3, Turns
<1>6. CASE Fail(s)
  <2>1. [type |-> "ErrorResponse"] # None
    BY <1>2, AnswersAreMessages
  <2> QED
    BY <1>1, <1>5, <1>6, <2>1, AnswerRecords DEF Fail
<1>7. ASSUME HasFile(q.md), NEW id \in FreshUlids,
             Reply(s, [type |-> "CompactCommit", md |-> Reshape(id)])
      PROVE  RecordsInv(s)'
  <2>1. files[q.md.id] \in Content /\ id \in Ids
    BY <1>2, <1>7, AnswersAreMessages DEF HasFile, FreshUlids
  <2>2. RowCount(files[q.md.id], q.dims) \in Nat
    BY <1>4, <2>1, RowCountNat
  <2>3. /\ Reshape(id) \in Metadata /\ Reshape(id).dims = q.dims
        /\ Reshape(id).root = Commit(files[q.md.id], q.dims)
    BY <1>4, <2>1, <2>2 DEF Metadata, Commit, Commitment
  <2>4. WillKnow(s, q.md)
    <3>1. clientDb[q.md.id] = q.md /\ q.md.id \in DOMAIN clientDb
      BY <1>3, <1>5 DEF RecordsInv, Conversation, OnRecord, Waits
    <3>2. ~ Leaves(s, q.md.id)
      BY <1>5 DEF Leaves
    <3> QED
      BY <3>1, <3>2 DEF WillKnow
  <2>5. WillHave(s, q.md.id, q.md.root.data)
    BY <1>4, <2>4 DEF RecordsInv, Agreement, KnownStored
  <2>6. \A old, new : ~ Renames(s, old, new)
    BY <1>3 DEF Renames, Accepts
  <2>7. files[q.md.id] = q.md.root.data
    BY <2>5, <2>6 DEF WillHave
  <2>8. ShapeOf(s, Reshape(id))
    BY <1>5, <2>3, <2>7 DEF ShapeOf, Commit
  <2>9. PICK m : m = [type |-> "CompactCommit", md |-> Reshape(id)]
    OBVIOUS
  <2>10. m # None /\ m.type = "CompactCommit" /\ m.md = Reshape(id)
    BY <1>2, <2>3, <2>9, AnswersAreMessages
  <2>11. Reply(s, m) /\ ShapeOf(s, m.md)
    BY <1>7, <2>8, <2>9, <2>10
  <2> QED
    BY <1>1, <1>5, <2>10, <2>11, AnswerRecords
<1> QED
  BY <1>6, <1>7 DEF HandleRequestFileReshape

\* The answer with an evaluation of the old version.
LEMMA ReshapeEvaluationRecords ==
  ASSUME NEW s \in Slots, DirectoryInv, RecordsInv(s), HandleRequestReshapeEvaluation(s),
         UNCHANGED clientVars
  PROVE  RecordsInv(s)'
<1>1. /\ Takes(s, "RequestReshapeEvaluation") /\ UNCHANGED <<files, table>>
      /\ "RequestReshapeEvaluation" \in Queries
  BY DEF HandleRequestReshapeEvaluation, storeVars, Queries
<1>2. sess[s].pc # "columns"
  BY <1>1, WiresTyped, Taken DEF RecordsInv, DirectoryInv, Expected
<1>3. PICK m : Reply(s, m) /\ m # None /\ m.type # "CompactCommit"
  BY AnswersAreMessages DEF HandleRequestReshapeEvaluation, Fail, HasFile, DirectoryInv
<1> QED
  BY <1>1, <1>2, <1>3, AnswerRecords

\* A refused upload leaves nothing; a stored one will be recorded.
LEMMA UploadNewFileRecords ==
  ASSUME NEW s \in Slots, DirectoryInv, RecordsInv(s), HandleUploadNewFile(s), UNCHANGED clientVars
  PROVE  RecordsInv(s)'
<1> DEFINE q == toServer[s]
<1>1. Takes(s, "UploadNewFile") /\ "UploadNewFile" \in Queries
  BY DEF HandleUploadNewFile, Queries
<1>2. TypeOK /\ WiresTypeOK /\ Conversation(s) /\ Progress(s) /\ Agreement(s)
  BY WiresTyped DEF DirectoryInv, RecordsInv
<1>3. /\ q # None /\ q \in UploadRequest /\ q.type = "UploadNewFile" /\ toServer'[s] = None
      /\ srv[s].pc = "wait" /\ toClient[s] = None /\ Expected(s, q) /\ UNCHANGED dbLock
  BY <1>1, <1>2, Taken, RequestByType
<1>4. sess[s].pc = "commit" /\ q = sess[s].req
  BY <1>2, <1>3, Turns
<1>5. CASE Fail(s) /\ UNCHANGED storeVars
  <2>1. [type |-> "ErrorResponse"] # None
    BY <1>2, AnswersAreMessages
  <2> QED
    BY <1>1, <1>4, <1>5, <2>1, AnswerRecords DEF Fail, storeVars
<1>6. ASSUME CommitOk(q.data, q.dims), NEW id \in FreshUlids, files' = Put(files, id, q.data),
             Go(s, q, "open", CommittedMetadata(id, q.name, q.data, q.dims)), UNCHANGED table
      PROVE  RecordsInv(s)'
  <2> DEFINE md == CommittedMetadata(id, q.name, q.data, q.dims)
  <2>1. id \in Ids /\ id \notin DOMAIN files
    BY <1>6 DEF FreshUlids, DirectoryInv, PendingOK, FilesDrawn
  <2>2. md \in Metadata
    BY <1>3, <2>1, CommittedMetadataType DEF UploadRequest
  <2>3. md.id = id /\ md.root = Commit(q.data, q.dims) /\ md.dims = q.dims
    BY DEF CommittedMetadata
  <2> HIDE DEF md
  <2>4. /\ srv'[s].pc = "open" /\ srv'[s].msg = q /\ srv'[s].md = md
        /\ toClient'[s] = None /\ UNCHANGED <<ends, sess, clientDb, dbLock>>
    BY <1>2, <1>3, <1>6 DEF Go, WiresTypeOK, clientVars, md
  <2>5. Conversation(s)'
    BY <1>2, <1>3, <1>4, <2>4
    DEF Conversation, OneMessage, BothThere, AllExpected, Expected, Handles, OnRecord, Waits
  <2>6. /\ \A m : Uploaded(s, m)' <=> m = md
        /\ \A m : InTask(s, m)' <=> m = md
        /\ \A m : ~ Uploaded(s, m) /\ ~ Reshaped(s, m) /\ ~ Reshaped(s, m)'
        /\ \A i : ~ Leaves(s, i) /\ ~ Leaves(s, i)'
    BY <1>3, <1>4, <2>4 DEF Uploaded, InTask, Reshaped, Leaves
  <2>7. /\ \A i : ~ Erases(s, i) /\ ~ Erases(s, i)' /\ ~ Clears(s, i)
        /\ \A i, j : ~ Renames(s, i, j) /\ ~ Renames(s, i, j)'
    BY <1>3, <1>4, <2>4 DEF Erases, Clears, Renames, Accepts
  <2>8. \A m : WillKnow(s, m)' <=> WillKnow(s, m) \/ m = md
    BY <2>4, <2>6 DEF WillKnow
  <2>9. \A i \in Ids : \A data : WillHave(s, i, data)' <=>
                               WillHave(s, i, data) \/ (i = id /\ data = q.data)
    <3>1. /\ DOMAIN files' = DOMAIN files \cup {id} /\ files'[id] = q.data
          /\ \A i \in DOMAIN files : files'[i] = files[i]
      BY <1>6, <2>1 DEF Put
    <3> QED
      BY <2>1, <2>7, <3>1 DEF WillHave
  <2>10. Agreement(s)'
    <3>1. KnownStored(s)'
      BY <1>2, <2>1, <2>3, <2>8, <2>9 DEF Agreement, KnownStored, Commit, Metadata
    <3>2. StoredKnown(s)'
      BY <1>2, <2>2, <2>3, <2>8, <2>9 DEF Agreement, StoredKnown
    <3>3. EntryKnown(s)'
      BY <1>2, <1>6, <2>7, <2>8 DEF Agreement, EntryKnown
    <3>4. KnownHasEntry(s)'
      BY <1>2, <1>6, <2>6, <2>8 DEF Agreement, KnownHasEntry, Uploaded
    <3>5. RecordsNamed'
      BY <1>2, <2>4 DEF Agreement, RecordsNamed
    <3> QED
      BY <3>1, <3>2, <3>3, <3>4, <3>5 DEF Agreement
  <2>11. Progress(s)'
    <3>1. UploadGoesOn(s)'
      BY <1>4, <1>6, <2>3, <2>4, <2>6 DEF UploadGoesOn
    <3>2. ReshapeGoesOn(s)' /\ DeletionGoesOn(s)'
      BY <1>4, <2>4, <2>6, <2>7 DEF ReshapeGoesOn, DeletionGoesOn, AwaitsReshape
    <3> QED
      BY <3>1, <3>2 DEF Progress
  <2> QED
    BY <2>5, <2>10, <2>11 DEF RecordsInv
<1> QED
  BY <1>5, <1>6 DEF HandleUploadNewFile

\* A deletion and a verdict move to the handler.
LEMMA DatabaseRequestRecords ==
  ASSUME NEW s \in Slots, DirectoryInv, RecordsInv(s), HandleDatabaseRequest(s),
         UNCHANGED clientVars
  PROVE  RecordsInv(s)'
<1> DEFINE q == toServer[s]
<1>1. /\ \E type \in {"DeleteFile", "ReshapeResponse", "EditOrAppendResponse"} : Takes(s, type)
      /\ Go(s, q, "open", None) /\ UNCHANGED <<files, table, sess, clientDb>>
  BY DEF HandleDatabaseRequest, storeVars, clientVars
<1>2. TypeOK /\ WiresTypeOK /\ Conversation(s) /\ Progress(s) /\ Agreement(s)
  BY WiresTyped DEF DirectoryInv, RecordsInv
<1>3. /\ q # None /\ q.type # "UploadNewFile" /\ toServer'[s] = None /\ UNCHANGED dbLock
      /\ srv[s].pc = "wait" /\ toClient[s] = None /\ Expected(s, q)
  BY <1>1, <1>2, Taken
<1>4. /\ srv'[s].pc = "open" /\ srv'[s].msg = q /\ UNCHANGED <<toClient, ends>>
  BY <1>1, <1>2 DEF Go, WiresTypeOK
<1>5. Conversation(s)'
  BY <1>1, <1>2, <1>3, <1>4
  DEF Conversation, OneMessage, BothThere, AllExpected, Expected, Handles, OnRecord
<1>6. SameOutcome(s)
  <2>1. \A md : /\ Uploaded(s, md)' <=> Uploaded(s, md)
                /\ InTask(s, md) => InTask(s, md)'
                /\ Reshaped(s, md)' <=> Reshaped(s, md)
    BY <1>1, <1>3, <1>4 DEF Uploaded, InTask, Reshaped
  <2>2. \A id : /\ Leaves(s, id)' <=> Leaves(s, id)
                /\ Erases(s, id)' <=> Erases(s, id)
                /\ Clears(s, id) => Clears(s, id)'
                /\ \A new : Renames(s, id, new)' <=> Renames(s, id, new)
    BY <1>1, <1>3, <1>4 DEF Leaves, Erases, Clears, Renames
  <2> QED
    BY <1>1, <2>1, <2>2 DEF SameOutcome
<1>7. Progress(s)'
  <2>1. UploadGoesOn(s)'
    BY <1>1, <1>2, <1>3, <1>4, <1>6 DEF Progress, UploadGoesOn, SameOutcome
  <2>2. ReshapeGoesOn(s)'
    BY <1>1, <1>2, <1>3, <1>4, <1>6 DEF Progress, ReshapeGoesOn, SameOutcome, AwaitsReshape, ShapeOf
  <2>3. DeletionGoesOn(s)'
    BY <1>1, <1>2, <1>3, <1>4, <1>6 DEF Progress, DeletionGoesOn, SameOutcome
  <2> QED
    BY <2>1, <2>2, <2>3 DEF Progress
<1> QED
  BY <1>2, <1>5, <1>6, <1>7, AgreementKept DEF RecordsInv

\* A handler that finds the database busy has another client or a shared
\* directory beside it.
LEMMA ServerNotBusy ==
  ASSUME OneAtATime, NEW s \in Slots, Slots = {s}, DirectoryInv, Conversation(s),
         srv[s].pc = "open"
  PROVE  ~ DbBusy("server")
<1>1. SUFFICES ASSUME NEW h \in dbLock, SharedDb \/ h[1] = "server"
               PROVE  FALSE
  BY DEF DbBusy
<1>2. h = <<"client", s>> \/ h = <<"server", s>>
  BY DEF DirectoryInv, TypeOK, NetTypeOK
<1>3. h # <<"server", s>>
  BY DEF Conversation, Handles
<1>4. h = <<"client", s>> /\ SharedDb
  BY <1>1, <1>2, <1>3
<1>5. sess[s].pc \notin Waits
  BY <1>4 DEF Conversation, Handles, Waits
<1>6. srv[s].msg.type = "ReshapeResponse"
  BY <1>5 DEF Conversation, AllExpected, Expected
<1>7. "reshape_file" \in Operations
  BY <1>6 DEF DirectoryInv, OnlyAsked, Asked
<1> QED
  BY <1>4, <1>7 DEF OneAtATime

\* The database opens, and the handler goes on with its request.
LEMMA OpenDatabaseRecords ==
  ASSUME OneAtATime, NEW s \in Slots, Slots = {s}, DirectoryInv, RecordsInv(s), OpenDatabase(s),
         UNCHANGED clientVars
  PROVE  RecordsInv(s)'
<1> DEFINE m == srv[s].msg
<1>1. TypeOK /\ WiresTypeOK /\ Conversation(s) /\ Progress(s) /\ Agreement(s)
  BY WiresTyped DEF DirectoryInv, RecordsInv
<1>2. /\ srv[s].pc = "open" /\ dbLock' = dbLock \cup {<<"server", s>>}
      /\ srv' = [srv EXCEPT ![s].pc = AfterOpen(m)]
      /\ UNCHANGED <<toServer, toClient, ends, files, table, sess, clientDb>>
  BY <1>1, ServerNotBusy DEF OpenDatabase, storeVars, clientVars
<1>3. srv'[s].pc = AfterOpen(m) /\ srv'[s].msg = m /\ srv'[s].md = srv[s].md
  BY <1>1, <1>2, TaskFields DEF WiresTypeOK
<1>4. /\ m.type = "UploadNewFile" => srv'[s].pc = "create"
      /\ m.type # "UploadNewFile" /\ Accepts(m) => srv'[s].pc = "rename"
      /\ m.type # "UploadNewFile" /\ ~ Accepts(m) => srv'[s].pc = "delete"
      /\ m.type \in {"UploadNewFile", "DeleteFile", "ReshapeResponse"}
  <2>1. srv[s] \in CreatingTask \cup DeletingTask
    BY <1>1, <1>2, TaskByPc DEF WiresTypeOK
  <2>2. m.type \in Asked
    BY <1>2 DEF DirectoryInv, OnlyAsked
  <2>3. m.type \in {"UploadNewFile", "DeleteFile", "ReshapeResponse"}
    BY <2>1, <2>2 DEF Asked, CreatingTask, DeletingTask, UploadRequest, EditRequest, AppendRequest,
                      DeleteRequest, VersionResponse
  <2> QED
    BY <1>3, <2>3 DEF AfterOpen, DrawsUlid
<1>5. /\ srv[s].pc # "wait" /\ srv'[s].pc # "wait" /\ srv'[s].pc \in {"create", "rename", "delete"}
      /\ toServer[s] = None
  BY <1>1, <1>2, <1>4 DEF Conversation, OneMessage
<1>6. Conversation(s)'
  BY <1>1, <1>2, <1>3, <1>5
  DEF Conversation, OneMessage, BothThere, AllExpected, Expected, Handles, OnRecord
<1>7. SameOutcome(s)
  <2>1. \A md : /\ InTask(s, md) <=> InTask(s, md)'
                /\ Reshaped(s, md)' <=> Reshaped(s, md)
    BY <1>2, <1>3, <1>4 DEF InTask, Reshaped
  <2>2. \A md : Uploaded(s, md)' <=> Uploaded(s, md)
    BY <1>2, <2>1 DEF Uploaded
  <2>3. \A id : /\ Leaves(s, id)' <=> Leaves(s, id)
                /\ Erases(s, id)' <=> Erases(s, id)
                /\ Clears(s, id) => Clears(s, id)'
                /\ \A new : Renames(s, id, new)' <=> Renames(s, id, new)
    BY <1>2, <1>3, <1>4, <1>5 DEF Leaves, Erases, Clears, Renames, Accepts
  <2> QED
    BY <1>2, <2>1, <2>2, <2>3 DEF SameOutcome
<1>8. Progress(s)'
  <2>1. UploadGoesOn(s)'
    BY <1>1, <1>2, <1>7 DEF Progress, UploadGoesOn, SameOutcome
  <2>2. ReshapeGoesOn(s)'
    BY <1>1, <1>2, <1>3, <1>4, <1>7
    DEF Progress, ReshapeGoesOn, SameOutcome, AwaitsReshape, ShapeOf
  <2>3. DeletionGoesOn(s)'
    BY <1>1, <1>2, <1>5, <1>7 DEF Progress, DeletionGoesOn, SameOutcome
  <2> QED
    BY <2>1, <2>2, <2>3 DEF Progress
<1> QED
  BY <1>1, <1>6, <1>7, <1>8, AgreementKept DEF RecordsInv

\* The entry of an upload is that of a file that will be recorded.
LEMMA CreateEntryRecords ==
  ASSUME NEW s \in Slots, DirectoryInv, RecordsInv(s), CreateEntry(s), UNCHANGED clientVars
  PROVE  RecordsInv(s)'
<1> DEFINE md == srv[s].md
<1>1. TypeOK /\ WiresTypeOK /\ Conversation(s) /\ Progress(s) /\ Agreement(s)
  BY WiresTyped DEF DirectoryInv, RecordsInv
<1>2. /\ srv[s].pc = "create" /\ table' = Put(table, md.id, md) /\ Release(s)
      /\ UNCHANGED <<toServer, files, sess, clientDb>>
  BY DEF CreateEntry, clientVars
<1>3. md \in Metadata /\ srv[s].msg.type = "UploadNewFile"
  <2>1. srv[s] \in CreatingTask
    BY <1>1, <1>2, TaskByPc DEF WiresTypeOK
  <2>2. srv[s].msg.type \in Asked
    BY <1>2 DEF DirectoryInv, OnlyAsked
  <2> QED
    BY <2>1, <2>2 DEF Asked, CreatingTask, UploadRequest, EditRequest, AppendRequest
<1>4. toServer[s] = None /\ toClient[s] = None /\ Expected(s, srv[s].msg)
  BY <1>1, <1>2 DEF Conversation, OneMessage, AllExpected
<1>5. sess[s].pc = "commit" /\ srv[s].msg = sess[s].req
  BY <1>1, <1>3, <1>4, Turns
<1>6. PICK m : Reply(s, m) /\ m # None /\ m.type = "CompactCommit" /\ m.md = md
  <2>1. PICK m : m = [type |-> "CompactCommit", md |-> md]
    OBVIOUS
  <2> QED
    BY <1>1, <1>3, <2>1, AnswersAreMessages DEF CreateEntry
<1>7. srv'[s].pc = "wait" /\ ends'[s] = ends[s] /\ toClient'[s] = m
  BY <1>1, <1>5, <1>6, Answers DEF IdleTask
<1>8. Conversation(s)'
  BY <1>1, <1>2, <1>4, <1>5, <1>6, <1>7
  DEF Conversation, OneMessage, BothThere, AllExpected, Handles, OnRecord, Release
<1>9. \A n : Uploaded(s, n) <=> Uploaded(s, n)'
  BY <1>2, <1>3, <1>4, <1>5, <1>6, <1>7 DEF Uploaded, InTask
<1>10. \A n : Reshaped(s, n)' <=> Reshaped(s, n)
  BY <1>2 DEF Reshaped
<1>11. /\ \A i : ~ Leaves(s, i) /\ ~ Leaves(s, i)'
       /\ \A i : ~ Erases(s, i) /\ ~ Erases(s, i)' /\ ~ Clears(s, i) /\ ~ Clears(s, i)'
       /\ \A i, j : ~ Renames(s, i, j) /\ ~ Renames(s, i, j)'
  BY <1>2, <1>3, <1>4, <1>5, <1>7 DEF Leaves, Erases, Clears, Renames, Accepts
<1>12. Agreement(s)'
  <2>1. \A n : WillKnow(s, n)' <=> WillKnow(s, n)
    BY <1>2, <1>9, <1>10, <1>11 DEF WillKnow
  <2>2. \A i, data : WillHave(s, i, data)' <=> WillHave(s, i, data)
    BY <1>2, <1>11 DEF WillHave
  <2>3. Uploaded(s, md) /\ WillKnow(s, md) /\ \A n : InTask(s, n) => n = md
    BY <1>2, <1>3 DEF WillKnow, Uploaded, InTask
  <2>4. DOMAIN table' = DOMAIN table \cup {md.id}
    BY <1>2 DEF Put
  <2>5. KnownStored(s)'
    BY <1>1, <2>1, <2>2 DEF Agreement, KnownStored
  <2>6. StoredKnown(s)'
    BY <1>1, <2>1, <2>2 DEF Agreement, StoredKnown
  <2>7. EntryKnown(s)'
    BY <1>1, <1>3, <1>11, <2>1, <2>3, <2>4 DEF Agreement, EntryKnown
  <2>8. KnownHasEntry(s)'
    BY <1>1, <2>1, <2>3, <2>4 DEF Agreement, KnownHasEntry
  <2>9. RecordsNamed'
    BY <1>1, <1>2 DEF Agreement, RecordsNamed
  <2> QED
    BY <2>5, <2>6, <2>7, <2>8, <2>9 DEF Agreement
<1>13. Progress(s)'
  <2>1. UploadGoesOn(s)'
    BY <1>1, <1>2, <1>5, <1>9 DEF Progress, UploadGoesOn
  <2>2. ReshapeGoesOn(s)'
    BY <1>2, <1>3, <1>5, <1>7, <1>11 DEF ReshapeGoesOn, AwaitsReshape, Reshaped
  <2>3. DeletionGoesOn(s)'
    BY <1>2, <1>5, <1>7, <1>11 DEF DeletionGoesOn
  <2> QED
    BY <2>1, <2>2, <2>3 DEF Progress
<1> QED
  BY <1>8, <1>12, <1>13 DEF RecordsInv

\* The rename does what the verdict decided.
LEMMA RenameFileRecords ==
  ASSUME NEW s \in Slots, DirectoryInv, RecordsInv(s), RenameFile(s), UNCHANGED clientVars
  PROVE  RecordsInv(s)'
<1> DEFINE m   == srv[s].msg
           old == m.old.id
           new == m.new.id
<1>1. TypeOK /\ WiresTypeOK /\ Conversation(s) /\ Progress(s) /\ Agreement(s)
  BY WiresTyped DEF DirectoryInv, RecordsInv
<1>2. srv[s].pc = "rename" /\ UNCHANGED <<toServer, table, sess, clientDb>>
  BY DEF RenameFile, clientVars
<1>3. m \in VersionResponse /\ m.type = "ReshapeResponse" /\ Accepts(m)
  <2>1. srv[s] \in RenamingTask
    BY <1>1, <1>2, TaskByPc DEF WiresTypeOK
  <2>2. m.type \in Asked
    BY <1>2 DEF DirectoryInv, OnlyAsked
  <2> QED
    BY <1>1, <1>2, <2>1, <2>2 DEF RenamingTask, VersionResponse, Asked, Progress, ReshapeGoesOn
<1>4. old \in Ids /\ new \in Ids
  BY <1>3 DEF VersionResponse, Metadata
<1>5. toServer[s] = None /\ toClient[s] = None /\ Expected(s, m)
  BY <1>1, <1>2 DEF Conversation, OneMessage, AllExpected
<1>6. old \in DOMAIN files /\ new \notin DOMAIN files
  <2>1. Renames(s, old, new)
    BY <1>2, <1>3 DEF Renames
  <2>2. Pending(s, "task", new)
    BY <1>2, <1>3 DEF Pending
  <2> QED
    BY <1>1, <1>4, <2>1, <2>2
    DEF Progress, ReshapeGoesOn, DirectoryInv, PendingOK, PendingHasNoFile, Places
<1>7. /\ files' = Renamed(old, new) /\ srv' = [srv EXCEPT ![s].pc = "delete"]
      /\ UNCHANGED <<toClient, ends, dbLock>>
  BY <1>6 DEF RenameFile, HasFile
<1>8. srv'[s].pc = "delete" /\ srv'[s].msg = m
  BY <1>1, <1>7, TaskFields DEF WiresTypeOK
<1>9. /\ DOMAIN files' = (DOMAIN files \ {old}) \cup {new} /\ files'[new] = files[old]
      /\ \A i \in DOMAIN files \ {old} : files'[i] = files[i]
  BY <1>6, <1>7 DEF Renamed, Put, Drop
<1>10. Conversation(s)'
  BY <1>1, <1>2, <1>5, <1>7, <1>8
  DEF Conversation, OneMessage, BothThere, AllExpected, Expected, Handles, OnRecord
<1>11. \A n : /\ Uploaded(s, n)' <=> Uploaded(s, n)
              /\ ~ InTask(s, n)
              /\ Reshaped(s, n)' <=> Reshaped(s, n)
  BY <1>2, <1>7, <1>8 DEF Uploaded, InTask, Reshaped
<1>12. /\ \A i : Leaves(s, i)' <=> Leaves(s, i)
       /\ \A i : ~ Erases(s, i) /\ ~ Erases(s, i)'
       /\ \A i : Clears(s, i) <=> Clears(s, i)'
  BY <1>2, <1>3, <1>5, <1>8 DEF Leaves, Erases, Clears
<1>13. \A i, j : ~ Renames(s, i, j)' /\ (Renames(s, i, j) <=> i = old /\ j = new)
  BY <1>2, <1>3, <1>5, <1>8 DEF Renames
<1>14. Agreement(s)'
  <2>1. \A n : WillKnow(s, n)' <=> WillKnow(s, n)
    BY <1>2, <1>11, <1>12 DEF WillKnow
  <2>2. \A i \in Ids : \A data : WillHave(s, i, data)' <=> WillHave(s, i, data)
    BY <1>4, <1>6, <1>9, <1>12, <1>13 DEF WillHave
  <2>3. RecordsNamed'
    BY <1>1, <1>2 DEF Agreement, RecordsNamed
  <2> QED
    BY <1>1, <1>2, <1>11, <1>12, <2>1, <2>2, <2>3, AgreementCarried
<1>15. Progress(s)'
  <2>1. UploadGoesOn(s)'
    BY <1>1, <1>2, <1>7, <1>11 DEF Progress, UploadGoesOn
  <2>2. ReshapeGoesOn(s)'
    BY <1>1, <1>2, <1>5, <1>7, <1>8, <1>11, <1>13
    DEF Progress, ReshapeGoesOn, AwaitsReshape, ShapeOf
  <2>3. DeletionGoesOn(s)'
    BY <1>2, <1>5, <1>7, <1>8, <1>12 DEF DeletionGoesOn
  <2> QED
    BY <2>1, <2>2, <2>3 DEF Progress
<1> QED
  BY <1>10, <1>14, <1>15 DEF RecordsInv

\* The entry of the old version of a reshape has no record, nor has the one of
\* a file that is deleted.
LEMMA DeleteEntryRecords ==
  ASSUME OneAtATime, NEW s \in Slots, DirectoryInv, RecordsInv(s), DeleteEntry(s),
         UNCHANGED clientVars
  PROVE  RecordsInv(s)'
<1> DEFINE m  == srv[s].msg
           id == EntryToDelete(m)
<1>1. TypeOK /\ WiresTypeOK /\ Conversation(s) /\ Progress(s) /\ Agreement(s)
  BY WiresTyped DEF DirectoryInv, RecordsInv
<1>2. /\ srv[s].pc = "delete" /\ table' = Drop(table, id)
      /\ UNCHANGED <<toServer, files, sess, clientDb>>
  BY DEF DeleteEntry, clientVars
<1>3. m \in DeleteRequest \cup VersionResponse /\ m.type \in {"DeleteFile", "ReshapeResponse"}
  <2>1. srv[s] \in DeletingTask
    BY <1>1, <1>2, TaskByPc DEF WiresTypeOK
  <2>2. m.type \in Asked
    BY <1>2 DEF DirectoryInv, OnlyAsked
  <2> QED
    BY <2>1, <2>2 DEF DeletingTask, DeleteRequest, VersionResponse, Asked
<1>4. toServer[s] = None /\ toClient[s] = None /\ Expected(s, m)
  BY <1>1, <1>2 DEF Conversation, OneMessage, AllExpected
<1>5. DOMAIN table' = DOMAIN table \ {id} /\ DOMAIN table \subseteq Ids
  BY <1>1, <1>2 DEF Drop, TypeOK, ServerTypeOK, IsMap
<1>6. /\ \A n : ~ InTask(s, n) /\ (Reshaped(s, n)' <=> Reshaped(s, n))
      /\ \A i : Leaves(s, i)' <=> Leaves(s, i)
      /\ \A i : Clears(s, i) <=> i = id
      /\ \A i, j : ~ Renames(s, i, j)
  BY <1>2, <1>3, <1>4 DEF InTask, Reshaped, Leaves, Clears, Renames
<1>7. RecordsNamed'
  BY <1>1, <1>2 DEF Agreement, RecordsNamed
<1>8. ASSUME \A n : WillKnow(s, n)' <=> WillKnow(s, n),
             \A i, data : WillHave(s, i, data)' <=> WillHave(s, i, data)
      PROVE  KnownStored(s)' /\ StoredKnown(s)' /\ EntryKnown(s)'
  BY <1>1, <1>5, <1>6, <1>8 DEF Agreement, KnownStored, StoredKnown, EntryKnown
<1>9. CASE m.type = "ReshapeResponse"
  <2>1. PICK r : Reply(s, r) /\ Release(s)
    BY <1>9 DEF DeleteEntry
  <2>2. sess[s].pc \notin Waits
    BY <1>1, <1>4, <1>9, Turns
  <2>3. srv'[s].pc = "wait" /\ ends'[s] = ends[s]
    BY <1>1, <2>1, Answers DEF IdleTask
  <2>4. Conversation(s)'
    BY <1>1, <1>2, <1>4, <2>1, <2>2, <2>3
    DEF Conversation, OneMessage, BothThere, AllExpected, Handles, OnRecord, Release
  <2>5. \A n : Uploaded(s, n)' <=> Uploaded(s, n)
    BY <1>2, <1>9, <2>2, <2>3 DEF Uploaded, InTask, Waits
  <2>6. /\ \A i : ~ Erases(s, i) /\ ~ Erases(s, i)'
        /\ \A i, j : ~ Renames(s, i, j)'
    BY <1>2, <1>4, <1>9, <2>3 DEF Erases, Renames
  <2>7. /\ \A n : WillKnow(s, n)' <=> WillKnow(s, n)
        /\ \A i, data : WillHave(s, i, data)' <=> WillHave(s, i, data)
    BY <1>2, <1>6, <2>5, <2>6 DEF WillKnow, WillHave
  <2>8. KnownHasEntry(s)'
    <3>1. "reshape_file" \in Operations
      BY <1>2, <1>9 DEF DirectoryInv, OnlyAsked, Asked
    <3> QED
      BY <3>1 DEF OneAtATime, KnownHasEntry
  <2>9. Progress(s)'
    <3>1. UploadGoesOn(s)'
      BY <1>1, <1>2, <2>2, <2>5 DEF Progress, UploadGoesOn, Waits
    <3>2. ReshapeGoesOn(s)'
      BY <1>1, <1>2, <1>6, <2>2, <2>3, <2>6 DEF Progress, ReshapeGoesOn, AwaitsReshape, Waits
    <3>3. DeletionGoesOn(s)'
      BY <1>2, <2>2, <2>3, <2>6 DEF DeletionGoesOn, Waits
    <3> QED
      BY <3>1, <3>2, <3>3 DEF Progress
  <2> QED
    BY <1>7, <1>8, <2>4, <2>7, <2>8, <2>9 DEF RecordsInv, Agreement
<1>10. CASE m.type = "DeleteFile"
  <2>1. sess[s].pc = "deletion"
    BY <1>1, <1>4, <1>10, Turns
  <2>2. id = m.md.id /\ id \in Ids
    <3>1. m \in DeleteRequest
      BY <1>3, <1>10 DEF VersionResponse
    <3> QED
      BY <1>10, <3>1 DEF EntryToDelete, DeleteRequest, Metadata
  <2>3. \A i : Erases(s, i) <=> i = id
    BY <1>2, <1>4, <1>10, <2>2 DEF Erases
  <2>4. id \in DOMAIN files /\ id \in DOMAIN table
    BY <1>1, <1>2, <2>2, <2>3 DEF Progress, DeletionGoesOn
  <2>5. /\ srv' = [srv EXCEPT ![s].pc = "remove", ![s].found = id \in DOMAIN table]
        /\ Release(s) /\ UNCHANGED <<toClient, ends>>
    BY <1>10 DEF DeleteEntry
  <2>6. srv'[s].pc = "remove" /\ srv'[s].found /\ srv'[s].msg = m
    <3>1. srv'[s] = [srv[s] EXCEPT !.pc = "remove", !.found = TRUE]
      BY <1>1, <2>4, <2>5 DEF WiresTypeOK
    <3> QED
      BY <1>1, <3>1, TaskFields DEF WiresTypeOK
  <2>7. Conversation(s)'
    BY <1>1, <1>2, <1>4, <2>1, <2>5, <2>6
    DEF Conversation, OneMessage, BothThere, AllExpected, Expected, Handles, OnRecord, Release
  <2>8. \A n : Uploaded(s, n)' <=> Uploaded(s, n)
    BY <1>2, <1>10, <2>1, <2>6 DEF Uploaded, InTask
  <2>9. /\ \A i : Erases(s, i)' <=> i = id
        /\ \A i, j : ~ Renames(s, i, j)'
    BY <1>2, <1>4, <1>10, <2>2, <2>6 DEF Erases, Renames
  <2>10. /\ \A n : WillKnow(s, n)' <=> WillKnow(s, n)
         /\ \A i, data : WillHave(s, i, data)' <=> WillHave(s, i, data)
    BY <1>2, <1>6, <2>3, <2>8, <2>9 DEF WillKnow, WillHave
  <2>11. KnownHasEntry(s)'
    <3>1. ASSUME NEW n \in Metadata, WillKnow(s, n)
          PROVE  n.id # id
      <4>1. WillHave(s, n.id, n.root.data)
        BY <1>1, <3>1 DEF Agreement, KnownStored
      <4> QED
        BY <1>6, <2>3, <4>1 DEF WillHave
    <3> QED
      BY <1>1, <1>5, <1>6, <2>10, <3>1 DEF Agreement, KnownHasEntry
  <2>12. Progress(s)'
    <3>1. UploadGoesOn(s)'
      BY <1>1, <1>2, <2>1, <2>8 DEF Progress, UploadGoesOn
    <3>2. ReshapeGoesOn(s)'
      BY <1>1, <1>2, <1>6, <2>1, <2>6, <2>9 DEF Progress, ReshapeGoesOn, AwaitsReshape
    <3>3. DeletionGoesOn(s)'
      BY <1>2, <1>4, <1>10, <2>1, <2>4, <2>5, <2>6, <2>9 DEF DeletionGoesOn
    <3> QED
      BY <3>1, <3>2, <3>3 DEF Progress
  <2> QED
    BY <1>7, <1>8, <2>7, <2>10, <2>11, <2>12 DEF RecordsInv, Agreement
<1> QED
  BY <1>3, <1>9, <1>10

\* The file that goes is the one whose record goes.
LEMMA RemoveFileRecords ==
  ASSUME NEW s \in Slots, DirectoryInv, RecordsInv(s), RemoveFile(s), UNCHANGED clientVars
  PROVE  RecordsInv(s)'
<1> DEFINE m  == srv[s].msg
           id == m.md.id
<1>1. TypeOK /\ WiresTypeOK /\ Conversation(s) /\ Progress(s) /\ Agreement(s)
  BY WiresTyped DEF DirectoryInv, RecordsInv
<1>2. srv[s].pc = "remove" /\ Release(s) /\ UNCHANGED <<toServer, table, sess, clientDb>>
  BY DEF RemoveFile, clientVars
<1>3. m.type = "DeleteFile" /\ srv[s].found /\ id \in Ids
  <2>1. srv[s] \in RemovingTask
    BY <1>1, <1>2, TaskByPc DEF WiresTypeOK
  <2>2. m.type = "DeleteFile" /\ srv[s].found
    BY <1>1, <1>2 DEF Progress, DeletionGoesOn
  <2> QED
    BY <2>1, <2>2 DEF RemovingTask, DeleteRequest, VersionResponse, Metadata
<1>4. toServer[s] = None /\ toClient[s] = None /\ Expected(s, m)
  BY <1>1, <1>2 DEF Conversation, OneMessage, AllExpected
<1>5. sess[s].pc = "deletion"
  BY <1>1, <1>3, <1>4, Turns
<1>6. \A i : Erases(s, i) <=> i = id
  BY <1>2, <1>3, <1>4 DEF Erases
<1>7. id \in DOMAIN files
  BY <1>1, <1>3, <1>6 DEF Progress, DeletionGoesOn
<1>8. files' = Drop(files, id) /\ Reply(s, [type |-> "FileDeleted"])
  BY <1>2, <1>3, <1>7 DEF RemoveFile, FileToRemove
<1>9. /\ srv'[s].pc = "wait" /\ ends'[s] = ends[s] /\ toClient'[s] = [type |-> "FileDeleted"]
      /\ toClient'[s] # None /\ toClient'[s].type = "FileDeleted"
  BY <1>1, <1>5, <1>8, Answers, AnswersAreMessages DEF IdleTask
<1>10. Conversation(s)'
  BY <1>1, <1>2, <1>4, <1>5, <1>9
  DEF Conversation, OneMessage, BothThere, AllExpected, Handles, OnRecord, Release
<1>11. /\ \A n : ~ Uploaded(s, n) /\ ~ Uploaded(s, n)' /\ ~ InTask(s, n)
       /\ \A n : Reshaped(s, n)' <=> Reshaped(s, n)
       /\ \A i : Leaves(s, i)' <=> Leaves(s, i)
       /\ \A i : ~ Clears(s, i) /\ ~ Erases(s, i)'
       /\ \A i, j : ~ Renames(s, i, j) /\ ~ Renames(s, i, j)'
  BY <1>2, <1>3, <1>4, <1>5, <1>9 DEF Uploaded, InTask, Reshaped, Leaves, Clears, Erases, Renames
<1>12. Agreement(s)'
  <2>1. \A n : WillKnow(s, n)' <=> WillKnow(s, n)
    BY <1>2, <1>11 DEF WillKnow
  <2>2. DOMAIN files' = DOMAIN files \ {id} /\ \A i \in DOMAIN files' : files'[i] = files[i]
    BY <1>8 DEF Drop
  <2>3. \A i, data : WillHave(s, i, data)' <=> WillHave(s, i, data)
    BY <1>6, <1>11, <2>2 DEF WillHave
  <2>4. RecordsNamed'
    BY <1>1, <1>2 DEF Agreement, RecordsNamed
  <2> QED
    BY <1>1, <1>2, <1>11, <2>1, <2>3, <2>4, AgreementCarried
<1>13. Progress(s)'
  <2>1. UploadGoesOn(s)' /\ ReshapeGoesOn(s)'
    BY <1>2, <1>5, <1>9, <1>11 DEF UploadGoesOn, ReshapeGoesOn, AwaitsReshape, Reshaped
  <2>2. DeletionGoesOn(s)'
    BY <1>2, <1>9, <1>11 DEF DeletionGoesOn
  <2> QED
    BY <2>1, <2>2 DEF Progress
<1> QED
  BY <1>10, <1>12, <1>13 DEF RecordsInv

\* The end of the stream ends nothing else.
LEMMA EndOfStreamRecords ==
  ASSUME NEW s \in Slots, DirectoryInv, RecordsInv(s), EndOfStream(s), UNCHANGED clientVars
  PROVE  RecordsInv(s)'
<1>1. TypeOK /\ WiresTypeOK /\ Conversation(s) /\ Progress(s) /\ Agreement(s)
  BY WiresTyped DEF DirectoryInv, RecordsInv
<1>2. /\ ends[s] = {"server"} /\ ends'[s] = {} /\ toServer[s] = None
      /\ UNCHANGED <<toServer, toClient, dbLock, files, table, srv, sess, clientDb>>
  BY <1>1 DEF EndOfStream, serverVars, clientVars, WiresTypeOK
<1>3. Conversation(s)'
  BY <1>1, <1>2
  DEF Conversation, OneMessage, BothThere, AllExpected, Expected, Handles, OnRecord
<1>4. SameOutcome(s)
  BY <1>2 DEF SameOutcome, Uploaded, InTask, Reshaped, Leaves, Erases, Clears, Renames
<1>5. Progress(s)'
  BY <1>1, <1>2, <1>4
  DEF Progress, UploadGoesOn, ReshapeGoesOn, DeletionGoesOn, SameOutcome, AwaitsReshape, ShapeOf
<1> QED
  BY <1>1, <1>3, <1>4, <1>5, AgreementKept DEF RecordsInv

\* No other handler is called.
LEMMA ServeRecords ==
  ASSUME OneAtATime, NEW s \in Slots, Slots = {s}, DirectoryInv, RecordsInv(s), Serve(s)
  PROVE  RecordsInv(s)'
<1>1. ServerStep(s) /\ UNCHANGED clientVars
  BY DEF Serve
<1>2. ASSUME NEW type, Takes(s, type)
      PROVE  type \in Asked
  BY <1>2 DEF Takes, DirectoryInv, OnlyAsked
<1>3. ~ (HandleEditFileBytes(s) \/ HandleAppendToFile(s) \/ HandleRequestAppendEvaluation(s)
         \/ HandleRequestEditEvaluation(s))
  <2>1. HandleEditFileBytes(s) => Takes(s, "EditFileBytes")
    BY DEF HandleEditFileBytes
  <2>2. HandleAppendToFile(s) => Takes(s, "AppendToFile")
    BY DEF HandleAppendToFile
  <2>3. HandleRequestAppendEvaluation(s) => Takes(s, "RequestAppendEvaluation")
    BY DEF HandleRequestAppendEvaluation
  <2>4. HandleRequestEditEvaluation(s) => Takes(s, "RequestEditEvaluation")
    BY DEF HandleRequestEditEvaluation
  <2> QED
    BY <1>2, <2>1, <2>2, <2>3, <2>4 DEF Asked
<1>4. CASE \/ HandleUploadNewFile(s) \/ HandleRequestFile(s) \/ HandleRequestProof(s)
           \/ HandleRequestFileReshape(s) \/ HandleRequestReshapeEvaluation(s)
  BY <1>1, <1>4, UploadNewFileRecords, RequestFileRecords, RequestProofRecords,
     RequestReshapeRecords, ReshapeEvaluationRecords
<1>5. CASE HandleDatabaseRequest(s) \/ OpenDatabase(s) \/ CreateEntry(s) \/ RenameFile(s)
  BY <1>1, <1>5, DatabaseRequestRecords, OpenDatabaseRecords, CreateEntryRecords,
     RenameFileRecords
<1>6. CASE DeleteEntry(s) \/ RemoveFile(s) \/ EndOfStream(s)
  BY <1>1, <1>6, DeleteEntryRecords, RemoveFileRecords, EndOfStreamRecords
<1> QED
  BY <1>1, <1>3, <1>4, <1>5, <1>6 DEF ServerStep

-----------------------------------------------------------------------------
(* The client: the start of an operation.                                  *)

\* Before it nothing is under way.
Idle(s) ==
  /\ sess[s].pc = "idle" /\ ends[s] = {}
  /\ toServer[s] = None /\ toClient[s] = None /\ srv[s].pc = "wait"

\* Then the records and the files are what the two sides know and have.
LEMMA IdleAgrees ==
  ASSUME NEW s \in Slots, Idle(s)
  PROVE  /\ \A md : WillKnow(s, md) <=> md.id \in DOMAIN clientDb /\ clientDb[md.id] = md
         /\ \A id, data : WillHave(s, id, data) <=> id \in DOMAIN files /\ data = files[id]
         /\ \A md : ~ Uploaded(s, md) /\ ~ InTask(s, md) /\ ~ Reshaped(s, md)
         /\ \A id : ~ Leaves(s, id) /\ ~ Erases(s, id) /\ ~ Clears(s, id)
         /\ \A old, new : ~ Renames(s, old, new)
<1>1. /\ \A md : ~ Uploaded(s, md) /\ ~ InTask(s, md) /\ ~ Reshaped(s, md)
      /\ \A id : ~ Leaves(s, id) /\ ~ Erases(s, id) /\ ~ Clears(s, id)
      /\ \A old, new : ~ Renames(s, old, new)
  BY DEF Idle, Uploaded, InTask, Reshaped, Leaves, Erases, Clears, Renames
<1> QED
  BY <1>1 DEF WillKnow, WillHave

\* An operation on a file starts with its record.
BeginsWell(s, pc, req) ==
  /\ Begin(s, pc, req) /\ UNCHANGED serverVars /\ req # None
  /\ req.type # "UploadNewFile" =>
       req.md.id \in DOMAIN clientDb /\ clientDb[req.md.id] = req.md

\* What a start does.
LEMMA Begun ==
  ASSUME NEW s \in Slots, DirectoryInv, Conversation(s), NEW pc, NEW req, Begin(s, pc, req)
  PROVE  /\ Idle(s) /\ ends'[s] = {"client", "server"}
         /\ sess'[s].pc = pc /\ sess'[s].req = req /\ toServer'[s] = req
         /\ UNCHANGED <<toClient, dbLock, clientDb>>
<1>1. WiresTypeOK
  BY WiresTyped DEF DirectoryInv
<1>2. sess[s].pc = "idle" /\ ends[s] = {}
  BY DEF Begin
<1>3. toServer[s] = None /\ toClient[s] = None /\ srv[s].pc = "wait"
  BY <1>2 DEF Conversation, BothThere, DirectoryInv, ConnectionsOK
<1> QED
  BY <1>1, <1>2, <1>3 DEF Begin, Idle, WiresTypeOK

\* A start of any operation but a deletion.
LEMMA QueryBegins ==
  ASSUME NEW s \in Slots, DirectoryInv, RecordsInv(s), NEW pc, NEW req,
         BeginsWell(s, pc, req),
         \/ pc = "commit" /\ req.type \in {"UploadNewFile", "RequestFileReshape"}
         \/ pc = "file" /\ req.type = "RequestFile"
         \/ pc = "columns" /\ req.type = "RequestProof"
  PROVE  RecordsInv(s)'
<1>1. TypeOK /\ Conversation(s) /\ Progress(s) /\ Agreement(s)
  BY DEF DirectoryInv, RecordsInv
<1>2. /\ Idle(s) /\ ends'[s] = {"client", "server"}
      /\ sess'[s].pc = pc /\ sess'[s].req = req /\ toServer'[s] = req
      /\ UNCHANGED <<toClient, dbLock, clientDb, files, table, srv>>
  BY <1>1, Begun DEF BeginsWell, serverVars
<1>3. Conversation(s)'
  BY <1>1, <1>2
  DEF Conversation, OneMessage, BothThere, AllExpected, Expected, Handles, OnRecord, Idle, Waits,
      BeginsWell
<1>4. SameOutcome(s)
  <2>1. \A md : ~ Uploaded(s, md)' /\ ~ Reshaped(s, md)'
    BY <1>2 DEF Uploaded, InTask, Reshaped, Idle
  <2>2. /\ \A id : ~ Leaves(s, id)' /\ ~ Erases(s, id)'
        /\ \A id, new : ~ Renames(s, id, new)'
    BY <1>2 DEF Leaves, Erases, Renames, Accepts, Idle
  <2> QED
    BY <1>2, <2>1, <2>2, IdleAgrees DEF SameOutcome
<1>5. Progress(s)'
  <2>1. UploadGoesOn(s)' /\ ReshapeGoesOn(s)' /\ DeletionGoesOn(s)'
    BY <1>2, <1>4, IdleAgrees
    DEF UploadGoesOn, ReshapeGoesOn, DeletionGoesOn, AwaitsReshape, SameOutcome, Idle
  <2> QED
    BY <2>1 DEF Progress
<1> QED
  BY <1>1, <1>3, <1>4, <1>5, AgreementKept DEF RecordsInv

\* The start of a deletion takes the record and the file away together.
LEMMA DeletionBegins ==
  ASSUME NEW s \in Slots, DirectoryInv, RecordsInv(s), "delete_file" \in Operations,
         NEW md \in Metadata, NEW req, BeginsWell(s, "deletion", req),
         req.type = "DeleteFile", req.md = md
  PROVE  RecordsInv(s)'
<1>1. TypeOK /\ Conversation(s) /\ Agreement(s)
  BY DEF DirectoryInv, RecordsInv
<1>2. /\ Idle(s) /\ ends'[s] = {"client", "server"}
      /\ sess'[s].pc = "deletion" /\ sess'[s].req = req /\ toServer'[s] = req
      /\ UNCHANGED <<toClient, dbLock, clientDb, files, table, srv>>
  BY <1>1, Begun DEF BeginsWell, serverVars
<1>3. md.id \in Ids /\ DOMAIN files \subseteq Ids /\ DOMAIN table \subseteq Ids
  BY <1>1 DEF TypeOK, ServerTypeOK, IsMap, Metadata
<1>4. Conversation(s)'
  BY <1>1, <1>2
  DEF Conversation, OneMessage, BothThere, AllExpected, Expected, Handles, OnRecord, Idle, Waits,
      BeginsWell
<1>5. /\ \A n : ~ Uploaded(s, n)' /\ ~ InTask(s, n)' /\ ~ Reshaped(s, n)'
      /\ \A i : Leaves(s, i)' <=> i = md.id
      /\ \A i : Erases(s, i)' <=> i = md.id
      /\ \A i : Clears(s, i)' <=> i = md.id
      /\ \A i, j : ~ Renames(s, i, j)'
  BY <1>2 DEF BeginsWell, Idle, Uploaded, InTask, Reshaped, Leaves, Erases, Clears, Renames,
              Accepts, EntryToDelete
<1>6. /\ \A n : WillKnow(s, n)' <=> WillKnow(s, n) /\ n.id # md.id
      /\ \A i, data : WillHave(s, i, data)' <=> WillHave(s, i, data) /\ i # md.id
  BY <1>2, <1>5, IdleAgrees DEF WillKnow, WillHave
<1>7. WillKnow(s, md)
  BY <1>2, IdleAgrees DEF BeginsWell
<1>8. md.id \in DOMAIN files /\ md.id \in DOMAIN table
  BY <1>1, <1>2, <1>7, IdleAgrees DEF Agreement, KnownStored, KnownHasEntry
<1>9. Agreement(s)'
  <2>1. KnownStored(s)'
    BY <1>1, <1>6 DEF Agreement, KnownStored
  <2>2. StoredKnown(s)'
    BY <1>1, <1>6 DEF Agreement, StoredKnown
  <2>3. EntryKnown(s)'
    <3>1. \A i \in DOMAIN table : \E n \in Metadata : WillKnow(s, n) /\ n.id = i
      BY <1>1, <1>2, IdleAgrees DEF Agreement, EntryKnown
    <3> QED
      BY <1>2, <1>5, <1>6, <3>1 DEF EntryKnown
  <2>4. KnownHasEntry(s)'
    BY <1>1, <1>2, <1>6, IdleAgrees DEF Agreement, KnownHasEntry
  <2>5. RecordsNamed'
    BY <1>1, <1>2 DEF Agreement, RecordsNamed
  <2> QED
    BY <2>1, <2>2, <2>3, <2>4, <2>5 DEF Agreement
<1>10. Progress(s)'
  <2>1. UploadGoesOn(s)' /\ ReshapeGoesOn(s)'
    BY <1>2, <1>5 DEF UploadGoesOn, ReshapeGoesOn, AwaitsReshape, Idle
  <2>2. DeletionGoesOn(s)'
    BY <1>2, <1>5, <1>8 DEF DeletionGoesOn, Idle
  <2> QED
    BY <2>1, <2>2 DEF Progress
<1> QED
  BY <1>4, <1>9, <1>10 DEF RecordsInv

\* An operation that starts finds the two sides as they should be.
LEMMA CallRecords ==
  ASSUME OneAtATime, NEW s \in Slots, DirectoryInv, RecordsInv(s), Call(s)
  PROVE  RecordsInv(s)'
<1>1. TypeOK /\ RecordsNamed /\ Start(s) /\ UNCHANGED serverVars
  BY DEF DirectoryInv, RecordsInv, Agreement, Call
<1>2. \A r \in Request : r # None
  BY NoneAssumption
<1>3. ASSUME NEW id \in DOMAIN clientDb
      PROVE  clientDb[id] \in Metadata /\ clientDb[id].id = id
  BY <1>1, <1>3 DEF TypeOK, ClientTypeOK, IsMap, RecordsNamed
<1>4. ASSUME NEW name \in Names, NEW dims \in Shapes, StartUpload(s, name, dims)
      PROVE  RecordsInv(s)'
  <2>1. PICK req : /\ req = [type |-> "UploadNewFile", name |-> name,
                             data |-> local[name], dims |-> dims]
                   /\ Begin(s, "commit", req)
    BY <1>4 DEF StartUpload
  <2>2. req \in UploadRequest
    BY <1>1, <2>1 DEF UploadRequest, TypeOK, ClientTypeOK
  <2>3. BeginsWell(s, "commit", req) /\ req.type = "UploadNewFile"
    BY <1>1, <1>2, <2>1, <2>2, RequestKinds DEF BeginsWell, UploadRequest
  <2> QED
    BY <2>3, QueryBegins
<1>5. ASSUME NEW id \in DOMAIN clientDb, StartDownload(s, clientDb[id])
      PROVE  RecordsInv(s)'
  <2>1. PICK req : req = [type |-> "RequestFile", md |-> clientDb[id]] /\ Begin(s, "file", req)
    BY <1>5 DEF StartDownload
  <2>2. req \in FileRequest /\ req.type = "RequestFile" /\ req.md = clientDb[id]
    BY <1>3, <2>1 DEF FileRequest
  <2>3. BeginsWell(s, "file", req)
    BY <1>1, <1>2, <1>3, <2>1, <2>2, RequestKinds DEF BeginsWell
  <2> QED
    BY <2>2, <2>3, QueryBegins
<1>6. ASSUME NEW id \in DOMAIN clientDb, StartProof(s, clientDb[id])
      PROVE  RecordsInv(s)'
  <2>1. PICK req : req = [type |-> "RequestProof", md |-> clientDb[id]] /\ Begin(s, "columns", req)
    BY <1>6 DEF StartProof
  <2>2. req \in ProofRequest /\ req.type = "RequestProof" /\ req.md = clientDb[id]
    BY <1>3, <2>1 DEF ProofRequest
  <2>3. BeginsWell(s, "columns", req)
    BY <1>1, <1>2, <1>3, <2>1, <2>2, RequestKinds DEF BeginsWell
  <2> QED
    BY <2>2, <2>3, QueryBegins
<1>7. ASSUME NEW id \in DOMAIN clientDb, NEW dims \in Shapes, StartReshape(s, clientDb[id], dims)
      PROVE  RecordsInv(s)'
  <2>1. PICK req : /\ req = [type |-> "RequestFileReshape", md |-> clientDb[id], dims |-> dims]
                   /\ Begin(s, "commit", req)
    BY <1>7 DEF StartReshape
  <2>2. req \in ReshapeRequest /\ req.type = "RequestFileReshape" /\ req.md = clientDb[id]
    BY <1>3, <2>1 DEF ReshapeRequest
  <2>3. BeginsWell(s, "commit", req)
    BY <1>1, <1>2, <1>3, <2>1, <2>2, RequestKinds DEF BeginsWell, VersionRequest
  <2> QED
    BY <2>2, <2>3, QueryBegins
<1>8. ASSUME "delete_file" \in Operations, NEW id \in DOMAIN clientDb, StartDelete(s, clientDb[id])
      PROVE  RecordsInv(s)'
  <2>1. PICK req : req = [type |-> "DeleteFile", md |-> clientDb[id]] /\ Begin(s, "deletion", req)
    BY <1>8 DEF StartDelete
  <2>2. req \in DeleteRequest /\ req.type = "DeleteFile" /\ req.md = clientDb[id]
    BY <1>3, <2>1 DEF DeleteRequest
  <2>3. BeginsWell(s, "deletion", req)
    BY <1>1, <1>2, <1>3, <2>1, <2>2, RequestKinds DEF BeginsWell
  <2> QED
    BY <1>3, <1>8, <2>2, <2>3, DeletionBegins
<1> QED
  BY <1>1, <1>4, <1>5, <1>6, <1>7, <1>8 DEF Start, OneAtATime, WithoutChanges

-----------------------------------------------------------------------------
(* The client: the steps of an operation.                                  *)

\* A process that returns leaves at most a verdict behind.
LEMMA ExitConversation ==
  ASSUME NEW s \in Slots, WiresTypeOK, Conversation(s), sess[s].pc # "idle", Exit(s),
         UNCHANGED srv, dbLock' \subseteq dbLock, <<"client", s>> \notin dbLock',
         toServer'[s] # None => srv[s].pc = "wait" /\ toServer'[s].type = "ReshapeResponse",
         srv[s].pc # "wait" => srv[s].msg.type = "ReshapeResponse"
  PROVE  Conversation(s)' /\ sess'[s].pc = "idle" /\ toClient'[s] = None
<1>1. sess'[s].pc = "idle" /\ toClient'[s] = None /\ ends'[s] = ends[s] \ {"client"}
  BY ExitMoves DEF IdleProcess
<1>2. ends'[s] = {"server"}
  BY <1>1 DEF Conversation, BothThere
<1> QED
  BY <1>1, <1>2
  DEF Conversation, OneMessage, BothThere, AllExpected, Expected, Handles, OnRecord, Waits

\* A process that takes its answer was waiting for it.
LEMMA AnswerTaken ==
  ASSUME NEW s \in Slots, WiresTypeOK, Conversation(s), NEW pc \in Waits, NEW type,
         Answered(s, pc, type)
  PROVE  /\ sess[s].pc = pc /\ toClient[s] # None /\ toClient[s].type = type
         /\ toClient'[s] = None
         /\ toServer[s] = None /\ srv[s].pc = "wait" /\ ends[s] = {"client", "server"}
         /\ <<"client", s>> \notin dbLock
BY AnsweredMoves DEF Conversation, OneMessage, BothThere, Handles, Waits

\* What is sent arrives, as the server is there.
LEMMA Sent ==
  ASSUME NEW s \in Slots, WiresTypeOK, ends[s] = {"client", "server"}, NEW m, Send(s, m)
  PROVE  toServer'[s] = m
BY DEF Send, WiresTypeOK

\* An operation that waits for anything but a deletion or the proof of an
\* upload changes nothing when it returns.
LEMMA ReturnRecords ==
  ASSUME NEW s \in Slots, DirectoryInv, RecordsInv(s), Exit(s),
         UNCHANGED <<toServer, dbLock, clientDb>>, UNCHANGED serverVars,
         sess[s].pc \in {"commit", "file", "columns", "evaluation"},
         sess[s].pc = "columns" => sess[s].req.type # "UploadNewFile",
         toClient[s] # None,
         sess[s].pc = "commit" => toClient[s].type # "CompactCommit"
  PROVE  RecordsInv(s)'
<1>1. TypeOK /\ WiresTypeOK /\ Conversation(s) /\ Progress(s) /\ Agreement(s)
  BY WiresTyped DEF DirectoryInv, RecordsInv
<1>2. /\ toServer[s] = None /\ srv[s].pc = "wait" /\ <<"client", s>> \notin dbLock
      /\ UNCHANGED <<files, table, srv>>
  BY <1>1 DEF Conversation, OneMessage, Handles, serverVars
<1>3. Conversation(s)' /\ sess'[s].pc = "idle" /\ toClient'[s] = None
  BY <1>1, <1>2, ExitConversation
<1>4. SameOutcome(s)
  <2>1. \A md : /\ ~ Uploaded(s, md) /\ ~ Uploaded(s, md)' /\ ~ InTask(s, md)
                /\ ~ Reshaped(s, md) /\ ~ Reshaped(s, md)'
    BY <1>2, <1>3 DEF Uploaded, InTask, Reshaped
  <2>2. \A id : /\ ~ Leaves(s, id) /\ ~ Leaves(s, id)' /\ ~ Clears(s, id)
                /\ ~ Erases(s, id) /\ ~ Erases(s, id)'
                /\ \A new : ~ Renames(s, id, new) /\ ~ Renames(s, id, new)'
    BY <1>2, <1>3 DEF Leaves, Erases, Clears, Renames
  <2> QED
    BY <1>2, <2>1, <2>2 DEF SameOutcome
<1>5. Progress(s)'
  <2>1. UploadGoesOn(s)' /\ ReshapeGoesOn(s)' /\ DeletionGoesOn(s)'
    BY <1>2, <1>3
    DEF UploadGoesOn, ReshapeGoesOn, DeletionGoesOn, Uploaded, InTask, Reshaped, Renames, Erases,
        AwaitsReshape
  <2> QED
    BY <2>1 DEF Progress
<1> QED
  BY <1>1, <1>3, <1>4, <1>5, AgreementKept DEF RecordsInv

\* No upload gives up after it was stored, and no deletion.
LEMMA GiveUpRecords ==
  ASSUME NEW s \in Slots, DirectoryInv, RecordsInv(s), GiveUp(s), UNCHANGED serverVars
  PROVE  RecordsInv(s)'
<1>1. /\ sess[s].pc \in Waits /\ Exit(s) /\ UNCHANGED <<toServer, dbLock, clientDb>>
      /\ \/ toClient[s] # None /\ toClient[s].type = "ErrorResponse"
         \/ "server" \notin ends[s]
  BY DEF GiveUp, Waits
<1>2. toClient[s] # None /\ toClient[s].type = "ErrorResponse"
  BY <1>1 DEF RecordsInv, Conversation, BothThere, Waits
<1>3. sess[s].pc # "deletion"
  BY <1>2 DEF RecordsInv, Progress, DeletionGoesOn
<1>4. sess[s].pc = "columns" => sess[s].req.type # "UploadNewFile"
  BY <1>2 DEF RecordsInv, Progress, UploadGoesOn
<1> QED
  BY <1>1, <1>2, <1>3, <1>4, ReturnRecords DEF Waits

\* A process that goes on, with nothing under way but what it sends.
Proceeds(s) ==
  /\ toServer[s] = None /\ toClient[s] # None /\ toClient'[s] = None /\ srv[s].pc = "wait"
  /\ sess[s].pc \in Waits
  /\ sess'[s].pc \in (Waits \ {"commit", "deletion"}) \cup {"dbOpen"}
  /\ sess'[s].pc \in Waits => toServer'[s] # None
  /\ toServer'[s] # None => Expected(s, toServer[s])'
  /\ sess'[s].req = sess[s].req
  /\ UNCHANGED <<ends, dbLock, clientDb, files, table, srv>>

\* The conversation proceeds.
LEMMA ProceedsConversation ==
  ASSUME NEW s \in Slots, Conversation(s), Proceeds(s)
  PROVE  Conversation(s)'
BY DEF Proceeds, Conversation, OneMessage, BothThere, AllExpected, Handles, OnRecord, Waits

\* The commitment to an upload is checked next.
LEMMA UploadCommittedRecords ==
  ASSUME NEW s \in Slots, DirectoryInv, RecordsInv(s), UploadCommitted(s), UNCHANGED serverVars
  PROVE  RecordsInv(s)'
<1> DEFINE md == toClient[s].md
<1>1. TypeOK /\ WiresTypeOK /\ Conversation(s) /\ Progress(s) /\ Agreement(s)
  BY WiresTyped DEF DirectoryInv, RecordsInv
<1>2. /\ sess[s].req.type = "UploadNewFile"
      /\ Send(s, [type |-> "RequestProof", md |-> md])
      /\ UNCHANGED <<ends, dbLock, clientDb, files, table, srv>>
  BY DEF UploadCommitted, Operation, serverVars
<1>3. /\ sess[s].pc = "commit" /\ toClient[s] # None /\ toClient[s].type = "CompactCommit"
      /\ toClient'[s] = None /\ toServer[s] = None /\ srv[s].pc = "wait"
      /\ ends[s] = {"client", "server"}
  <2>1. Answered(s, "commit", "CompactCommit") /\ "commit" \in Waits
    BY DEF UploadCommitted, Waits
  <2> QED
    BY <1>1, <2>1, AnswerTaken
<1>4. sess'[s].pc = "columns" /\ sess'[s].req = sess[s].req /\ sess'[s].new = md
  <2>1. PICK new : new = md
    OBVIOUS
  <2>2. sess' = [sess EXCEPT ![s].pc = "columns", ![s].new = new]
    BY <2>1 DEF UploadCommitted
  <2>3. sess'[s] = [sess[s] EXCEPT !.pc = "columns", !.new = new]
    BY <1>1, <2>2 DEF WiresTypeOK
  <2>4. /\ sess'[s].pc = "columns" /\ sess'[s].req = sess[s].req /\ sess'[s].new = new
    BY <1>1, <2>3, ProcessFields DEF WiresTypeOK
  <2> QED
    BY <2>1, <2>4
<1>5. md \in Metadata
  BY <1>1, <1>3, ResponseByType DEF WiresTypeOK
<1>6. toServer'[s] # None /\ toServer'[s].type = "RequestProof" /\ toServer'[s].md = md
  <2>1. PICK r : r = [type |-> "RequestProof", md |-> md]
    OBVIOUS
  <2>2. r \in ProofRequest /\ r.type = "RequestProof" /\ r.md = md
    BY <1>5, <2>1 DEF ProofRequest
  <2>3. r # None
    BY <2>2, RequestKinds, NoneAssumption
  <2> QED
    BY <1>1, <1>2, <1>3, <2>1, <2>2, <2>3, Sent
<1>7. Conversation(s)'
  <2>1. Proceeds(s)
    BY <1>2, <1>3, <1>4, <1>6 DEF Proceeds, Expected, Waits
  <2> QED
    BY <1>1, <2>1, ProceedsConversation
<1>8. SameOutcome(s)
  <2>1. \A n : /\ Uploaded(s, n) <=> Uploaded(s, n)'
               /\ ~ InTask(s, n)
               /\ ~ Reshaped(s, n) /\ ~ Reshaped(s, n)'
    BY <1>2, <1>3, <1>4 DEF Uploaded, InTask, Reshaped
  <2>2. \A i : /\ ~ Leaves(s, i) /\ ~ Leaves(s, i)' /\ ~ Clears(s, i)
               /\ ~ Erases(s, i) /\ ~ Erases(s, i)'
               /\ \A j : ~ Renames(s, i, j) /\ ~ Renames(s, i, j)'
    BY <1>2, <1>3, <1>4, <1>6 DEF Leaves, Erases, Clears, Renames, Accepts
  <2> QED
    BY <1>2, <2>1, <2>2 DEF SameOutcome
<1>9. Progress(s)'
  <2>1. UploadGoesOn(s)'
    BY <1>1, <1>3, <1>4, <1>8 DEF Progress, UploadGoesOn, SameOutcome
  <2>2. ReshapeGoesOn(s)' /\ DeletionGoesOn(s)'
    BY <1>2, <1>3, <1>4, <1>6
    DEF ReshapeGoesOn, DeletionGoesOn, AwaitsReshape, Reshaped, Renames, Erases, Accepts
  <2> QED
    BY <2>1, <2>2 DEF Progress
<1> QED
  BY <1>1, <1>7, <1>8, <1>9, AgreementKept DEF RecordsInv

\* The proof of an upload succeeds.
LEMMA UploadProvedRecords ==
  ASSUME NEW s \in Slots, DirectoryInv, RecordsInv(s), UploadProved(s), UNCHANGED serverVars
  PROVE  RecordsInv(s)'
<1> DEFINE md == sess[s].new
<1>1. TypeOK /\ WiresTypeOK /\ Conversation(s) /\ Progress(s) /\ Agreement(s)
  BY WiresTyped DEF DirectoryInv, RecordsInv
<1>2. /\ Answered(s, "columns", "Columns") /\ "columns" \in Waits
      /\ sess[s].req.type = "UploadNewFile"
      /\ UNCHANGED <<toServer, dbLock, clientDb, files, table, srv>>
  BY DEF UploadProved, Operation, Waits, serverVars
<1>3. /\ sess[s].pc = "columns" /\ toClient[s] # None /\ toClient'[s] = None
      /\ toServer[s] = None /\ srv[s].pc = "wait"
  BY <1>1, <1>2, AnswerTaken
<1>4. Uploaded(s, md) /\ md \in Metadata
  <2>1. sess[s] \in AwaitsProof
    BY <1>1, <1>2, <1>3, ProcessByPc, RequestTypes DEF WiresTypeOK, AwaitsColumns
  <2> QED
    BY <1>2, <1>3, <2>1 DEF Uploaded, AwaitsProof
<1>5. ColumnsVerify(toClient[s], md.root, sess[s].req.data, sess[s].req.dims)
  BY <1>1, <1>2, <1>3, <1>4 DEF Progress, UploadGoesOn, ColumnsVerify
<1>6. sess' = [sess EXCEPT ![s].pc = "dbOpen"] /\ UNCHANGED ends
  BY <1>5 DEF UploadProved
<1>7. sess'[s].pc = "dbOpen" /\ sess'[s].req = sess[s].req /\ sess'[s].new = md
  BY <1>1, <1>6, AdvanceMoves
<1>8. Conversation(s)'
  <2>1. Proceeds(s)
    BY <1>2, <1>3, <1>6, <1>7 DEF Proceeds, Waits
  <2> QED
    BY <1>1, <2>1, ProceedsConversation
<1>9. SameOutcome(s)
  <2>1. \A n : /\ Uploaded(s, n) <=> Uploaded(s, n)'
               /\ ~ InTask(s, n)
               /\ ~ Reshaped(s, n) /\ ~ Reshaped(s, n)'
    BY <1>2, <1>3, <1>7 DEF Uploaded, InTask, Reshaped
  <2>2. \A i : /\ ~ Leaves(s, i) /\ ~ Leaves(s, i)' /\ ~ Clears(s, i)
               /\ ~ Erases(s, i) /\ ~ Erases(s, i)'
               /\ \A j : ~ Renames(s, i, j) /\ ~ Renames(s, i, j)'
    BY <1>2, <1>3, <1>7 DEF Leaves, Erases, Clears, Renames
  <2> QED
    BY <1>2, <2>1, <2>2 DEF SameOutcome
<1>10. Progress(s)'
  <2>1. UploadGoesOn(s)'
    BY <1>1, <1>7, <1>9 DEF Progress, UploadGoesOn, SameOutcome
  <2>2. ReshapeGoesOn(s)' /\ DeletionGoesOn(s)'
    BY <1>2, <1>3, <1>7
    DEF ReshapeGoesOn, DeletionGoesOn, AwaitsReshape, Reshaped, Renames, Erases
  <2> QED
    BY <2>1, <2>2 DEF Progress
<1> QED
  BY <1>1, <1>8, <1>9, <1>10, AgreementKept DEF RecordsInv

\* The columns of a downloaded file are checked next.
LEMMA FileDownloadedRecords ==
  ASSUME NEW s \in Slots, DirectoryInv, RecordsInv(s), FileDownloaded(s), UNCHANGED serverVars
  PROVE  RecordsInv(s)'
<1>1. TypeOK /\ WiresTypeOK /\ Conversation(s) /\ Progress(s) /\ Agreement(s)
  BY WiresTyped DEF DirectoryInv, RecordsInv
<1>2. /\ Answered(s, "file", "File") /\ "file" \in Waits
      /\ Send(s, [type |-> "RequestProof", md |-> sess[s].req.md])
      /\ UNCHANGED <<ends, dbLock, clientDb, files, table, srv>>
  BY DEF FileDownloaded, Waits, serverVars
<1>3. /\ sess[s].pc = "file" /\ toClient[s] # None /\ toClient'[s] = None
      /\ toServer[s] = None /\ srv[s].pc = "wait" /\ ends[s] = {"client", "server"}
  BY <1>1, <1>2, AnswerTaken
<1>4. sess'[s].pc = "columns" /\ sess'[s].req = sess[s].req
  BY <1>1, ProcessFields DEF FileDownloaded, WiresTypeOK
<1>5. sess[s].req \in FileRequest /\ sess[s].req.type = "RequestFile"
  BY <1>1, <1>3, ProcessByPc, RequestTypes DEF WiresTypeOK, AwaitsFile
<1>6. toServer'[s] # None /\ toServer'[s].type = "RequestProof"
  <2>1. PICK r : r = [type |-> "RequestProof", md |-> sess[s].req.md]
    OBVIOUS
  <2>2. r \in ProofRequest /\ r.type = "RequestProof"
    BY <1>5, <2>1 DEF FileRequest, ProofRequest
  <2>3. r # None
    BY <2>2, RequestKinds, NoneAssumption
  <2> QED
    BY <1>1, <1>2, <1>3, <2>1, <2>2, <2>3, Sent
<1>7. Conversation(s)'
  <2>1. Proceeds(s)
    BY <1>2, <1>3, <1>4, <1>5, <1>6 DEF Proceeds, Expected, Waits
  <2> QED
    BY <1>1, <2>1, ProceedsConversation
<1>8. SameOutcome(s)
  <2>1. \A n : /\ ~ Uploaded(s, n) /\ ~ Uploaded(s, n)' /\ ~ InTask(s, n)
               /\ ~ Reshaped(s, n) /\ ~ Reshaped(s, n)'
    BY <1>2, <1>3, <1>4, <1>5 DEF Uploaded, InTask, Reshaped
  <2>2. \A i : /\ ~ Leaves(s, i) /\ ~ Leaves(s, i)' /\ ~ Clears(s, i)
               /\ ~ Erases(s, i) /\ ~ Erases(s, i)'
               /\ \A j : ~ Renames(s, i, j) /\ ~ Renames(s, i, j)'
    BY <1>2, <1>3, <1>4, <1>6 DEF Leaves, Erases, Clears, Renames, Accepts
  <2> QED
    BY <1>2, <2>1, <2>2 DEF SameOutcome
<1>9. Progress(s)'
  <2>1. UploadGoesOn(s)' /\ ReshapeGoesOn(s)' /\ DeletionGoesOn(s)'
    BY <1>2, <1>3, <1>4, <1>5, <1>6
    DEF UploadGoesOn, ReshapeGoesOn, DeletionGoesOn, AwaitsReshape, Uploaded, InTask, Reshaped,
        Renames, Erases, Accepts
  <2> QED
    BY <2>1 DEF Progress
<1> QED
  BY <1>1, <1>7, <1>8, <1>9, AgreementKept DEF RecordsInv

\* A download and a proof return.
LEMMA ProofRecords ==
  ASSUME NEW s \in Slots, DirectoryInv, RecordsInv(s), DownloadProved(s) \/ ProofAnswered(s),
         UNCHANGED serverVars
  PROVE  RecordsInv(s)'
<1>1. /\ Answered(s, "columns", "Columns") /\ sess[s].req.type # "UploadNewFile"
      /\ Exit(s) /\ UNCHANGED <<toServer, dbLock, clientDb>>
  BY DEF DownloadProved, ProofAnswered, Operation
<1>2. sess[s].pc = "columns" /\ toClient[s] # None
  BY <1>1 DEF Answered
<1> QED
  BY <1>1, <1>2, ReturnRecords

\* The commitment to a reshape is one to the file on record.
LEMMA ReshapeCommittedRecords ==
  ASSUME NEW s \in Slots, DirectoryInv, RecordsInv(s), ReshapeCommitted(s), UNCHANGED serverVars
  PROVE  RecordsInv(s)'
<1> DEFINE md == toClient[s].md
<1>1. TypeOK /\ WiresTypeOK /\ Conversation(s) /\ Progress(s) /\ Agreement(s)
  BY WiresTyped DEF DirectoryInv, RecordsInv
<1>2. /\ sess[s].req.type = "RequestFileReshape"
      /\ Send(s, [type |-> "RequestReshapeEvaluation", old |-> sess[s].req.md, new |-> md])
      /\ UNCHANGED <<ends, dbLock, clientDb, files, table, srv>>
  BY DEF ReshapeCommitted, Operation, serverVars
<1>3. /\ sess[s].pc = "commit" /\ toClient[s] # None /\ toClient[s].type = "CompactCommit"
      /\ toClient'[s] = None /\ toServer[s] = None /\ srv[s].pc = "wait"
      /\ ends[s] = {"client", "server"}
  <2>1. Answered(s, "commit", "CompactCommit") /\ "commit" \in Waits
    BY DEF ReshapeCommitted, Waits
  <2> QED
    BY <1>1, <2>1, AnswerTaken
<1>4. sess'[s].pc = "evaluation" /\ sess'[s].req = sess[s].req /\ sess'[s].new = md
  <2>1. PICK new : new = md
    OBVIOUS
  <2>2. sess' = [sess EXCEPT ![s].pc = "evaluation", ![s].new = new]
    BY <2>1 DEF ReshapeCommitted
  <2>3. sess'[s] = [sess[s] EXCEPT !.pc = "evaluation", !.new = new]
    BY <1>1, <2>2 DEF WiresTypeOK
  <2>4. /\ sess'[s].pc = "evaluation" /\ sess'[s].req = sess[s].req /\ sess'[s].new = new
    BY <1>1, <2>3, ProcessFields DEF WiresTypeOK
  <2> QED
    BY <2>1, <2>4
<1>5. toServer'[s] # None /\ toServer'[s].type = "RequestReshapeEvaluation"
  <2>1. sess[s].req.md \in Metadata /\ md \in Metadata
    <3>1. sess[s].req \in ReshapeRequest
      BY <1>1, <1>2, <1>3, ProcessByPc
      DEF WiresTypeOK, AwaitsCommit, UploadRequest, VersionRequest, EditRequest, AppendRequest
    <3> QED
      BY <1>1, <1>3, <3>1, ResponseByType DEF WiresTypeOK, ReshapeRequest
  <2>2. PICK r : r = [type |-> "RequestReshapeEvaluation", old |-> sess[s].req.md, new |-> md]
    OBVIOUS
  <2>3. r \in EvalRequest /\ r.type = "RequestReshapeEvaluation"
    BY <2>1, <2>2 DEF EvalRequest
  <2>4. r # None
    BY <2>3, RequestKinds, NoneAssumption
  <2> QED
    BY <1>1, <1>2, <1>3, <2>2, <2>3, <2>4, Sent
<1>6. Conversation(s)'
  <2>1. Proceeds(s)
    BY <1>2, <1>3, <1>4, <1>5 DEF Proceeds, Expected, Waits
  <2> QED
    BY <1>1, <2>1, ProceedsConversation
<1>7. SameOutcome(s)
  <2>1. \A n : /\ ~ Uploaded(s, n) /\ ~ Uploaded(s, n)' /\ ~ InTask(s, n)
               /\ ~ Reshaped(s, n) /\ ~ Reshaped(s, n)'
    BY <1>2, <1>3, <1>4 DEF Uploaded, InTask, Reshaped
  <2>2. \A i : /\ ~ Leaves(s, i) /\ ~ Leaves(s, i)' /\ ~ Clears(s, i)
               /\ ~ Erases(s, i) /\ ~ Erases(s, i)'
               /\ \A j : ~ Renames(s, i, j) /\ ~ Renames(s, i, j)'
    BY <1>2, <1>3, <1>4, <1>5 DEF Leaves, Erases, Clears, Renames, Accepts
  <2> QED
    BY <1>2, <2>1, <2>2 DEF SameOutcome
<1>8. Progress(s)'
  <2>1. ShapeOf(s, md)
    BY <1>1, <1>2, <1>3 DEF Progress, ReshapeGoesOn, AwaitsReshape
  <2>2. ReshapeGoesOn(s)'
    BY <1>2, <1>3, <1>4, <1>5, <2>1
    DEF ReshapeGoesOn, AwaitsReshape, ShapeOf, Reshaped, Renames, Accepts
  <2>3. UploadGoesOn(s)' /\ DeletionGoesOn(s)'
    BY <1>2, <1>3, <1>4, <1>5 DEF UploadGoesOn, DeletionGoesOn, Uploaded, InTask, Erases
  <2> QED
    BY <2>2, <2>3 DEF Progress
<1> QED
  BY <1>1, <1>6, <1>7, <1>8, AgreementKept DEF RecordsInv

\* The record of a deleted file goes next.
LEMMA DeletedRecords ==
  ASSUME NEW s \in Slots, DirectoryInv, RecordsInv(s), Deleted(s), UNCHANGED serverVars
  PROVE  RecordsInv(s)'
<1>1. TypeOK /\ WiresTypeOK /\ Conversation(s) /\ Progress(s) /\ Agreement(s)
  BY WiresTyped DEF DirectoryInv, RecordsInv
<1>2. /\ Answered(s, "deletion", "FileDeleted") /\ "deletion" \in Waits
      /\ UNCHANGED <<ends, toServer, dbLock, clientDb, files, table, srv>>
  BY DEF Deleted, Waits, serverVars
<1>3. /\ sess[s].pc = "deletion" /\ toClient[s] # None /\ toClient'[s] = None
      /\ toServer[s] = None /\ srv[s].pc = "wait"
  BY <1>1, <1>2, AnswerTaken
<1>4. sess[s].req.type = "DeleteFile"
  BY <1>1, <1>3, ProcessByPc, RequestTypes DEF WiresTypeOK, AwaitsDeletion
<1>5. sess'[s].pc = "dbOpen" /\ sess'[s].req = sess[s].req
  BY <1>1, AdvanceMoves DEF Deleted
<1>6. Conversation(s)'
  <2>1. Proceeds(s)
    BY <1>2, <1>3, <1>5 DEF Proceeds, Waits
  <2> QED
    BY <1>1, <2>1, ProceedsConversation
<1>7. SameOutcome(s)
  <2>1. \A n : /\ ~ Uploaded(s, n) /\ ~ Uploaded(s, n)' /\ ~ InTask(s, n)
               /\ ~ Reshaped(s, n) /\ ~ Reshaped(s, n)'
    BY <1>2, <1>3, <1>4, <1>5 DEF Uploaded, InTask, Reshaped
  <2>2. \A i : /\ Leaves(s, i)' <=> Leaves(s, i)
               /\ ~ Clears(s, i) /\ ~ Erases(s, i) /\ ~ Erases(s, i)'
               /\ \A j : ~ Renames(s, i, j) /\ ~ Renames(s, i, j)'
    BY <1>2, <1>3, <1>5 DEF Leaves, Erases, Clears, Renames
  <2> QED
    BY <1>2, <2>1, <2>2 DEF SameOutcome
<1>8. Progress(s)'
  <2>1. UploadGoesOn(s)' /\ ReshapeGoesOn(s)' /\ DeletionGoesOn(s)'
    BY <1>2, <1>3, <1>4, <1>5
    DEF UploadGoesOn, ReshapeGoesOn, DeletionGoesOn, AwaitsReshape, Uploaded, InTask, Reshaped,
        Renames, Erases
  <2> QED
    BY <2>1 DEF Progress
<1> QED
  BY <1>1, <1>6, <1>7, <1>8, AgreementKept DEF RecordsInv

\* The verdict on a reshape leaves the process, which returns when it rejects.
LEMMA VerdictSent ==
  ASSUME NEW s \in Slots, DirectoryInv, Conversation(s), ReshapeEvaluated(s), UNCHANGED serverVars
  PROVE  /\ sess[s].pc = "evaluation" /\ sess[s].req.type = "RequestFileReshape"
         /\ sess[s].req.md \in Metadata /\ sess[s].new \in Metadata
         /\ toClient[s] # None /\ toServer[s] = None /\ srv[s].pc = "wait"
         /\ <<"client", s>> \notin dbLock
         /\ toServer'[s] # None /\ toServer'[s].type = "ReshapeResponse"
         /\ toServer'[s].old = sess[s].req.md /\ toServer'[s].new = sess[s].new
         /\ UNCHANGED <<dbLock, clientDb, files, table, srv>>
         /\ \/ ~ toServer'[s].accepted /\ Exit(s)
            \/ /\ toServer'[s].accepted /\ UNCHANGED ends /\ toClient'[s] = None
               /\ sess'[s].pc = "dbOpen" /\ sess'[s].req = sess[s].req
               /\ sess'[s].new = sess[s].new
<1> DEFINE old == sess[s].req.md
           new == sess[s].new
           ok  == /\ EvaluationVerifies(toClient[s].data, old)
                  /\ EvaluationVerifies(toClient[s].data, new)
<1>1. WiresTypeOK
  BY WiresTyped DEF DirectoryInv
<1>2. /\ sess[s].pc = "evaluation" /\ toClient[s] # None /\ toClient'[s] = None
      /\ toServer[s] = None /\ srv[s].pc = "wait" /\ ends[s] = {"client", "server"}
      /\ <<"client", s>> \notin dbLock
  <2>1. Answered(s, "evaluation", "ReshapeEvaluation") /\ "evaluation" \in Waits
    BY DEF ReshapeEvaluated, Waits
  <2> QED
    BY <1>1, <2>1, AnswerTaken
<1>3. sess[s].req.type = "RequestFileReshape" /\ old \in Metadata /\ new \in Metadata
  <2>1. sess[s] \in AwaitsEvaluation
    BY <1>1, <1>2, ProcessByPc DEF WiresTypeOK
  <2>2. sess[s].req.type \in Asked
    BY <1>2 DEF DirectoryInv, OnlyAsked
  <2> QED
    BY <2>1, <2>2
    DEF AwaitsEvaluation, Asked, VersionRequest, EditRequest, AppendRequest, ReshapeRequest
<1>4. ok \in BOOLEAN
  BY DEF EvaluationVerifies
<1>5. /\ ReshapeVerdict(s, old, new, ok)
      /\ IF ok THEN sess' = [sess EXCEPT ![s].pc = "dbOpen"] /\ UNCHANGED ends ELSE Exit(s)
      /\ UNCHANGED <<dbLock, clientDb>>
  BY DEF ReshapeEvaluated
<1> HIDE DEF ok
<1>6. /\ toServer'[s] # None /\ toServer'[s].type = "ReshapeResponse"
      /\ toServer'[s].old = old /\ toServer'[s].new = new /\ toServer'[s].accepted = ok
  <2>1. PICK v : v = [type |-> "ReshapeResponse", old |-> old, new |-> new, accepted |-> ok]
    OBVIOUS
  <2>2. /\ v \in VersionResponse /\ v.type = "ReshapeResponse" /\ v.old = old /\ v.new = new
        /\ v.accepted = ok
    BY <1>3, <1>4, <2>1 DEF VersionResponse
  <2>3. v # None
    BY <2>2, RequestKinds, NoneAssumption
  <2>4. Send(s, v)
    BY <1>5, <2>1 DEF ReshapeVerdict
  <2> QED
    BY <1>1, <1>2, <2>2, <2>3, <2>4, Sent
<1>7. \/ ~ ok /\ Exit(s)
      \/ /\ ok /\ UNCHANGED ends
         /\ sess'[s].pc = "dbOpen" /\ sess'[s].req = sess[s].req /\ sess'[s].new = new
  <2>1. CASE ok
    <3>1. sess' = [sess EXCEPT ![s].pc = "dbOpen"] /\ UNCHANGED ends
      BY <1>5, <2>1
    <3> QED
      BY <1>1, <2>1, <3>1, AdvanceMoves
  <2>2. CASE ~ ok
    BY <1>5, <2>2
  <2> QED
    BY <2>1, <2>2
<1>8. UNCHANGED <<files, table, srv>>
  BY DEF serverVars
<1> QED
  BY <1>2, <1>3, <1>5, <1>6, <1>7, <1>8

\* A rejected reshape leaves the two sides as they were, up to the entry of the
\* file; an accepted one exchanges the file and its record.
LEMMA ReshapeEvaluatedRecords ==
  ASSUME OneAtATime, NEW s \in Slots, DirectoryInv, RecordsInv(s), ReshapeEvaluated(s),
         UNCHANGED serverVars
  PROVE  RecordsInv(s)'
<1> DEFINE old == sess[s].req.md
           new == sess[s].new
<1>1. TypeOK /\ WiresTypeOK /\ Conversation(s) /\ Progress(s) /\ Agreement(s)
  BY WiresTyped DEF DirectoryInv, RecordsInv
<1>2. /\ sess[s].pc = "evaluation" /\ sess[s].req.type = "RequestFileReshape"
      /\ old \in Metadata /\ new \in Metadata
      /\ toClient[s] # None /\ toServer[s] = None /\ srv[s].pc = "wait"
      /\ <<"client", s>> \notin dbLock
      /\ toServer'[s] # None /\ toServer'[s].type = "ReshapeResponse"
      /\ toServer'[s].old = old /\ toServer'[s].new = new
      /\ UNCHANGED <<dbLock, clientDb, files, table, srv>>
  BY <1>1, VerdictSent
<1>3. /\ \A n : ~ Uploaded(s, n) /\ ~ InTask(s, n) /\ ~ Reshaped(s, n)
      /\ \A i : ~ Leaves(s, i) /\ ~ Clears(s, i) /\ ~ Erases(s, i) /\ ~ Erases(s, i)'
      /\ \A i, j : ~ Renames(s, i, j)
  BY <1>2 DEF Uploaded, InTask, Reshaped, Leaves, Clears, Erases, Renames
<1>4. CASE ~ toServer'[s].accepted /\ Exit(s)
  <2>1. Conversation(s)' /\ sess'[s].pc = "idle" /\ toClient'[s] = None
    BY <1>1, <1>2, <1>4, ExitConversation
  <2>2. /\ \A n : ~ Uploaded(s, n)' /\ ~ Reshaped(s, n)'
        /\ \A i : ~ Leaves(s, i)'
        /\ \A i, j : ~ Renames(s, i, j)'
    BY <1>2, <1>4, <2>1 DEF Uploaded, InTask, Reshaped, Leaves, Renames, Accepts
  <2>3. SameOutcome(s)
    BY <1>2, <1>3, <2>2 DEF SameOutcome
  <2>4. UploadGoesOn(s)' /\ ReshapeGoesOn(s)' /\ DeletionGoesOn(s)'
    BY <1>2, <1>3, <2>1, <2>2 DEF UploadGoesOn, ReshapeGoesOn, DeletionGoesOn, AwaitsReshape
  <2> QED
    BY <1>1, <2>1, <2>3, <2>4, AgreementKept DEF RecordsInv, Progress
<1>5. CASE /\ toServer'[s].accepted /\ UNCHANGED ends /\ toClient'[s] = None
           /\ sess'[s].pc = "dbOpen" /\ sess'[s].req = sess[s].req /\ sess'[s].new = new
  <2>1. Conversation(s)'
    BY <1>1, <1>2, <1>5
    DEF Conversation, OneMessage, BothThere, AllExpected, Expected, Handles, OnRecord, Waits
  <2>2. /\ \A n : ~ Uploaded(s, n)' /\ (Reshaped(s, n)' <=> n = new)
        /\ \A i : Leaves(s, i)' <=> i = old.id
        /\ \A i : i = old.id => Clears(s, i)'
        /\ \A i, j : Renames(s, i, j)' <=> i = old.id /\ j = new.id
    BY <1>2, <1>5
    DEF Uploaded, InTask, Reshaped, Leaves, Clears, Renames, Accepts, EntryToDelete
  <2>3. /\ \A n : WillKnow(s, n) <=> n.id \in DOMAIN clientDb /\ clientDb[n.id] = n
        /\ \A n : WillKnow(s, n)' <=> n = new \/ (WillKnow(s, n) /\ n.id # old.id)
    BY <1>2, <1>3, <2>2 DEF WillKnow
  <2>4. old.id \in Ids /\ new.id \in Ids /\ DOMAIN table \subseteq Ids
    BY <1>1, <1>2 DEF Metadata, TypeOK, ServerTypeOK, IsMap
  <2>5. WillKnow(s, old)
    BY <1>1, <1>2, <2>3 DEF Conversation, OnRecord, Waits
  <2>6. \A i, data : WillHave(s, i, data) <=> i \in DOMAIN files /\ data = files[i]
    BY <1>3 DEF WillHave
  <2>7. old.id \in DOMAIN files /\ files[old.id] = old.root.data
    BY <1>1, <1>2, <2>5, <2>6 DEF Agreement, KnownStored
  <2>8. new.id \notin DOMAIN files
    <3>1. Pending(s, "process", new.id)
      BY <1>2 DEF Pending
    <3> QED
      BY <2>4, <3>1 DEF DirectoryInv, PendingOK, PendingHasNoFile, Places
  <2>9. \A i \in Ids : \A data : WillHave(s, i, data)' <=>
                               \/ i = new.id /\ data = files[old.id]
                               \/ WillHave(s, i, data) /\ i # old.id
    BY <1>2, <1>3, <2>2, <2>4, <2>6, <2>7 DEF WillHave
  <2>10. ShapeOf(s, new)
    BY <1>1, <1>2 DEF Progress, ReshapeGoesOn
  <2>11. Agreement(s)'
    <3>1. KnownStored(s)'
      <4> SUFFICES ASSUME NEW n \in Metadata, WillKnow(s, n)'
                   PROVE  WillHave(s, n.id, n.root.data)' /\ n.root.dims = n.dims
        BY DEF KnownStored
      <4>1. n.id \in Ids
        BY DEF Metadata
      <4>2. CASE n = new
        BY <2>7, <2>9, <2>10, <4>1, <4>2 DEF ShapeOf
      <4>3. CASE WillKnow(s, n) /\ n.id # old.id
        BY <1>1, <2>9, <4>1, <4>3 DEF Agreement, KnownStored
      <4> QED
        BY <2>3, <4>2, <4>3
    <3>2. StoredKnown(s)'
      BY <1>1, <1>2, <2>3, <2>9 DEF Agreement, StoredKnown
    <3>3. EntryKnown(s)'
      <4>1. \A i \in DOMAIN table : \E n \in Metadata : WillKnow(s, n) /\ n.id = i
        BY <1>1, <1>3 DEF Agreement, EntryKnown
      <4> QED
        BY <1>2, <2>2, <2>3, <4>1 DEF EntryKnown
    <3>4. KnownHasEntry(s)'
      <4>1. "reshape_file" \in Operations
        BY <1>2 DEF DirectoryInv, OnlyAsked, Asked
      <4> QED
        BY <4>1 DEF OneAtATime, KnownHasEntry
    <3>5. RecordsNamed'
      BY <1>1, <1>2 DEF Agreement, RecordsNamed
    <3> QED
      BY <3>1, <3>2, <3>3, <3>4, <3>5 DEF Agreement
  <2>12. Progress(s)'
    <3>1. UploadGoesOn(s)' /\ DeletionGoesOn(s)'
      BY <1>2, <1>3, <1>5, <2>2 DEF UploadGoesOn, DeletionGoesOn
    <3>2. ReshapeGoesOn(s)'
      BY <1>2, <1>5, <2>2, <2>7, <2>8 DEF ReshapeGoesOn, AwaitsReshape
    <3> QED
      BY <3>1, <3>2 DEF Progress
  <2> QED
    BY <2>1, <2>11, <2>12 DEF RecordsInv
<1> QED
  BY <1>1, <1>4, <1>5, VerdictSent

-----------------------------------------------------------------------------
(* The client's database.                                                  *)

\* While a process is at its database the server has at most its verdict.
LEMMA AtDatabase ==
  ASSUME NEW s \in Slots, Conversation(s), sess[s].pc \in {"dbOpen", "dbCreate", "dbDelete"}
  PROVE  /\ toServer[s] # None => srv[s].pc = "wait" /\ toServer[s].type = "ReshapeResponse"
         /\ srv[s].pc # "wait" => srv[s].msg.type = "ReshapeResponse"
         /\ \A md : ~ InTask(s, md)
         /\ \A id : ~ Erases(s, id)
BY DEF Conversation, OneMessage, AllExpected, Expected, Waits, InTask, Erases

\* An operation that finds the database busy has another client or a shared
\* directory beside it.
LEMMA ClientNotBusy ==
  ASSUME OneAtATime, NEW s \in Slots, Slots = {s}, DirectoryInv, Conversation(s),
         sess[s].pc = "dbOpen"
  PROVE  ~ DbBusy("client")
<1>1. SUFFICES ASSUME NEW h \in dbLock, SharedDb \/ h[1] = "client"
               PROVE  FALSE
  BY DEF DbBusy
<1>2. h = <<"client", s>> \/ h = <<"server", s>>
  BY DEF DirectoryInv, TypeOK, NetTypeOK
<1>3. h # <<"client", s>>
  BY DEF Conversation, Handles
<1>4. h = <<"server", s>> /\ SharedDb
  BY <1>1, <1>2, <1>3
<1>5. srv[s].pc # "wait"
  BY <1>4 DEF Conversation, Handles
<1>6. srv[s].msg.type = "ReshapeResponse"
  BY <1>5, AtDatabase
<1>7. "reshape_file" \in Operations
  BY <1>5, <1>6 DEF DirectoryInv, OnlyAsked, Asked
<1> QED
  BY <1>4, <1>7 DEF OneAtATime

\* The database opens, and the record is written or deleted next.
LEMMA OpenClientDbRecords ==
  ASSUME OneAtATime, NEW s \in Slots, Slots = {s}, DirectoryInv, RecordsInv(s), OpenClientDb(s),
         UNCHANGED serverVars
  PROVE  RecordsInv(s)'
<1>1. TypeOK /\ WiresTypeOK /\ Conversation(s) /\ Progress(s) /\ Agreement(s)
  BY WiresTyped DEF DirectoryInv, RecordsInv
<1>2. sess[s].pc = "dbOpen"
  BY DEF OpenClientDb
<1>3. PICK pc : /\ pc = IF Operation(s) = "DeleteFile" THEN "dbDelete" ELSE "dbCreate"
                /\ sess' = [sess EXCEPT ![s].pc = pc]
                /\ dbLock' = dbLock \cup {<<"client", s>>}
                /\ UNCHANGED <<ends, toServer, toClient, clientDb>>
  BY <1>1, <1>2, ClientNotBusy DEF OpenClientDb
<1>4. sess'[s].pc = pc /\ sess'[s].req = sess[s].req /\ sess'[s].new = sess[s].new
  BY <1>1, <1>3, AdvanceMoves
<1>5. UNCHANGED <<files, table, srv>>
  BY DEF serverVars
<1>6. /\ sess[s].req.type = "DeleteFile" => pc = "dbDelete"
      /\ sess[s].req.type # "DeleteFile" => pc = "dbCreate"
  BY <1>3 DEF Operation
<1>7. Conversation(s)'
  BY <1>1, <1>2, <1>3, <1>4, <1>5, <1>6
  DEF Conversation, OneMessage, BothThere, AllExpected, Expected, Handles, OnRecord, Waits
<1>8. SameOutcome(s)
  <2>1. \A n : InTask(s, n)' <=> InTask(s, n)
    BY <1>5 DEF InTask
  <2>2. \A n : /\ Uploaded(s, n)' <=> Uploaded(s, n)
               /\ Reshaped(s, n)' <=> Reshaped(s, n)
    BY <1>2, <1>3, <1>4, <1>6, <2>1 DEF Uploaded, Reshaped
  <2>3. \A i : /\ Leaves(s, i)' <=> Leaves(s, i)
               /\ Erases(s, i)' <=> Erases(s, i)
               /\ Clears(s, i)' <=> Clears(s, i)
               /\ \A j : Renames(s, i, j)' <=> Renames(s, i, j)
    BY <1>2, <1>3, <1>4, <1>5, <1>6 DEF Leaves, Erases, Clears, Renames
  <2> QED
    BY <1>3, <1>5, <2>1, <2>2, <2>3 DEF SameOutcome
<1>9. Progress(s)'
  <2>1. UploadGoesOn(s)'
    BY <1>1, <1>3, <1>4, <1>6, <1>8 DEF Progress, UploadGoesOn, SameOutcome
  <2>2. ReshapeGoesOn(s)'
    BY <1>1, <1>3, <1>4, <1>5, <1>6, <1>8 DEF Progress, ReshapeGoesOn, SameOutcome, AwaitsReshape
  <2>3. DeletionGoesOn(s)'
    BY <1>1, <1>2, <1>3, <1>4, <1>5, <1>6, <1>8, AtDatabase
    DEF Progress, DeletionGoesOn, SameOutcome
  <2> QED
    BY <2>1, <2>2, <2>3 DEF Progress
<1> QED
  BY <1>1, <1>7, <1>8, <1>9, AgreementKept DEF RecordsInv

\* The record is the one that was to be known.
LEMMA CreateRecordRecords ==
  ASSUME NEW s \in Slots, DirectoryInv, RecordsInv(s), CreateRecord(s), UNCHANGED serverVars
  PROVE  RecordsInv(s)'
<1> DEFINE new == sess[s].new
           old == sess[s].req.md
<1>1. TypeOK /\ WiresTypeOK /\ Conversation(s) /\ Progress(s) /\ Agreement(s)
  BY WiresTyped DEF DirectoryInv, RecordsInv
<1>2. /\ sess[s].pc = "dbCreate" /\ clientDb' = Put(clientDb, new.id, new)
      /\ UNCHANGED <<toServer, files, table, srv>>
  BY DEF CreateRecord, serverVars
<1>3. new \in Metadata /\ sess[s].req.type \in {"UploadNewFile", "RequestFileReshape"}
  <2>1. sess[s] \in Records
    BY <1>1, <1>2, ProcessByPc DEF WiresTypeOK
  <2>2. sess[s].req.type \in Asked
    BY <1>2 DEF DirectoryInv, OnlyAsked
  <2> QED
    BY <2>1, <2>2, RequestTypes DEF Records, Asked
<1>4. /\ DOMAIN clientDb' = DOMAIN clientDb \cup {new.id} /\ clientDb'[new.id] = new
      /\ \A i \in DOMAIN clientDb \ {new.id} : clientDb'[i] = clientDb[i]
  BY <1>2 DEF Put
<1>5. RecordsNamed'
  BY <1>1, <1>4 DEF Agreement, RecordsNamed
<1>6. /\ toServer[s] # None => srv[s].pc = "wait" /\ toServer[s].type = "ReshapeResponse"
      /\ srv[s].pc # "wait" => srv[s].msg.type = "ReshapeResponse"
      /\ \A n : ~ InTask(s, n) /\ ~ InTask(s, n)'
      /\ \A i : ~ Erases(s, i) /\ ~ Erases(s, i)'
      /\ \A i : Clears(s, i)' <=> Clears(s, i)
      /\ \A i, j : Renames(s, i, j)' <=> Renames(s, i, j)
  BY <1>1, <1>2, AtDatabase DEF InTask, Erases, Clears, Renames
<1>7. \A i, data : WillHave(s, i, data)' <=> WillHave(s, i, data)
  BY <1>2, <1>6 DEF WillHave
<1>8. CASE sess[s].req.type = "UploadNewFile"
  <2>1. CloseClientDb(s)
    BY <1>8 DEF CreateRecord, Operation
  <2>2. Conversation(s)' /\ sess'[s].pc = "idle" /\ toClient'[s] = None
    BY <1>1, <1>2, <1>6, <2>1, ExitConversation DEF CloseClientDb
  <2>3. /\ \A n : ~ Uploaded(s, n)' /\ ~ Reshaped(s, n) /\ ~ Reshaped(s, n)'
        /\ \A n : Uploaded(s, n) <=> n = new
        /\ \A i : ~ Leaves(s, i) /\ ~ Leaves(s, i)'
    BY <1>2, <1>6, <1>8, <2>2 DEF Uploaded, Reshaped, Leaves
  <2>4. /\ \A n : WillKnow(s, n) <=> n = new \/ (n.id \in DOMAIN clientDb /\ clientDb[n.id] = n)
        /\ \A n : WillKnow(s, n)' <=> n.id \in DOMAIN clientDb' /\ clientDb'[n.id] = n
    BY <2>3 DEF WillKnow
  <2>5. /\ \A n \in Metadata : WillKnow(s, n)' => WillKnow(s, n)
        /\ \A n \in Metadata : WillKnow(s, n) => \E m \in Metadata : WillKnow(s, m)' /\ m.id = n.id
    BY <1>3, <1>4, <2>4
  <2>6. Agreement(s)'
    BY <1>1, <1>2, <1>5, <1>6, <1>7, <2>5, AgreementCarried
  <2>7. UploadGoesOn(s)' /\ ReshapeGoesOn(s)' /\ DeletionGoesOn(s)'
    BY <1>1, <1>2, <1>6, <2>2, <2>3
    DEF Progress, UploadGoesOn, ReshapeGoesOn, DeletionGoesOn, AwaitsReshape
  <2> QED
    BY <2>2, <2>6, <2>7 DEF RecordsInv, Progress
<1>9. CASE sess[s].req.type = "RequestFileReshape"
  <2>1. sess' = [sess EXCEPT ![s].pc = "dbDelete"] /\ UNCHANGED <<dbLock, toClient, ends>>
    BY <1>9 DEF CreateRecord, Operation
  <2>2. sess'[s].pc = "dbDelete" /\ sess'[s].req = sess[s].req /\ sess'[s].new = new
    BY <1>1, <2>1, AdvanceMoves
  <2>3. Conversation(s)'
    BY <1>1, <1>2, <2>1, <2>2
    DEF Conversation, OneMessage, BothThere, AllExpected, Expected, Handles, OnRecord, Waits
  <2>4. /\ \A n : ~ Uploaded(s, n) /\ ~ Uploaded(s, n)' /\ ~ Reshaped(s, n)'
        /\ \A n : Reshaped(s, n) <=> n = new
        /\ \A i : (Leaves(s, i) <=> i = old.id) /\ (Leaves(s, i)' <=> i = old.id)
    BY <1>2, <1>6, <1>9, <2>2 DEF Uploaded, Reshaped, Leaves
  <2>5. new.id # old.id
    BY <1>1, <1>3, <2>4 DEF Progress, ReshapeGoesOn
  <2>6. /\ \A n : WillKnow(s, n) <=>
                    n = new \/ (n.id \in DOMAIN clientDb /\ clientDb[n.id] = n /\ n.id # old.id)
        /\ \A n : WillKnow(s, n)' <=>
                    n.id \in DOMAIN clientDb' /\ clientDb'[n.id] = n /\ n.id # old.id
    BY <2>4 DEF WillKnow
  <2>7. /\ \A n \in Metadata : WillKnow(s, n)' => WillKnow(s, n)
        /\ \A n \in Metadata : WillKnow(s, n) => \E m \in Metadata : WillKnow(s, m)' /\ m.id = n.id
    BY <1>3, <1>4, <2>5, <2>6
  <2>8. Agreement(s)'
    BY <1>1, <1>2, <1>5, <1>6, <1>7, <2>7, AgreementCarried
  <2>9. UploadGoesOn(s)' /\ ReshapeGoesOn(s)' /\ DeletionGoesOn(s)'
    BY <1>1, <1>2, <1>6, <2>2, <2>4
    DEF Progress, UploadGoesOn, ReshapeGoesOn, DeletionGoesOn, AwaitsReshape
  <2> QED
    BY <2>3, <2>8, <2>9 DEF RecordsInv, Progress
<1> QED
  BY <1>3, <1>8, <1>9

\* The record that goes is the one that was to go.
LEMMA DeleteRecordRecords ==
  ASSUME NEW s \in Slots, DirectoryInv, RecordsInv(s), DeleteRecord(s), UNCHANGED serverVars
  PROVE  RecordsInv(s)'
<1> DEFINE old == sess[s].req.md
<1>1. TypeOK /\ WiresTypeOK /\ Conversation(s) /\ Progress(s) /\ Agreement(s)
  BY WiresTyped DEF DirectoryInv, RecordsInv
<1>2. /\ sess[s].pc = "dbDelete" /\ clientDb' = Drop(clientDb, old.id) /\ CloseClientDb(s)
      /\ UNCHANGED <<toServer, files, table, srv>>
  BY DEF DeleteRecord, serverVars
<1>3. sess[s].req.type \in {"DeleteFile", "RequestFileReshape"}
  <2>1. sess[s] \in Forgets \cup Replaces
    BY <1>1, <1>2, ProcessByPc DEF WiresTypeOK
  <2>2. sess[s].req.type \in Asked
    BY <1>2 DEF DirectoryInv, OnlyAsked
  <2> QED
    BY <2>1, <2>2, RequestTypes DEF Forgets, Replaces, Asked
<1>4. /\ DOMAIN clientDb' = DOMAIN clientDb \ {old.id}
      /\ \A i \in DOMAIN clientDb' : clientDb'[i] = clientDb[i]
  BY <1>2 DEF Drop
<1>5. /\ toServer[s] # None => srv[s].pc = "wait" /\ toServer[s].type = "ReshapeResponse"
      /\ srv[s].pc # "wait" => srv[s].msg.type = "ReshapeResponse"
      /\ \A n : ~ InTask(s, n) /\ ~ InTask(s, n)'
      /\ \A i : ~ Erases(s, i) /\ ~ Erases(s, i)'
      /\ \A i : Clears(s, i)' <=> Clears(s, i)
      /\ \A i, j : Renames(s, i, j)' <=> Renames(s, i, j)
  BY <1>1, <1>2, AtDatabase DEF InTask, Erases, Clears, Renames
<1>6. Conversation(s)' /\ sess'[s].pc = "idle" /\ toClient'[s] = None
  BY <1>1, <1>2, <1>5, ExitConversation DEF CloseClientDb
<1>7. /\ \A n : ~ Uploaded(s, n) /\ ~ Uploaded(s, n)' /\ ~ Reshaped(s, n) /\ ~ Reshaped(s, n)'
      /\ \A i : (Leaves(s, i) <=> i = old.id) /\ ~ Leaves(s, i)'
  BY <1>2, <1>3, <1>5, <1>6 DEF Uploaded, Reshaped, Leaves
<1>8. Agreement(s)'
  <2>1. \A n : WillKnow(s, n)' <=> WillKnow(s, n)
    BY <1>4, <1>7 DEF WillKnow
  <2>2. \A i, data : WillHave(s, i, data)' <=> WillHave(s, i, data)
    BY <1>2, <1>5 DEF WillHave
  <2>3. RecordsNamed'
    BY <1>1, <1>4 DEF Agreement, RecordsNamed
  <2> QED
    BY <1>1, <1>2, <1>5, <2>1, <2>2, <2>3, AgreementCarried
<1>9. UploadGoesOn(s)' /\ ReshapeGoesOn(s)' /\ DeletionGoesOn(s)'
  BY <1>1, <1>2, <1>5, <1>6, <1>7
  DEF Progress, UploadGoesOn, ReshapeGoesOn, DeletionGoesOn, AwaitsReshape
<1> QED
  BY <1>6, <1>8, <1>9 DEF RecordsInv, Progress

\* No process appends or edits.
LEMMA ClientRecords ==
  ASSUME OneAtATime, NEW s \in Slots, Slots = {s}, DirectoryInv, RecordsInv(s), Client(s)
  PROVE  RecordsInv(s)'
<1>1. ClientStep(s) /\ UNCHANGED serverVars
  BY DEF Client
<1>2. ~ (AppendCommitted(s) \/ AppendEvaluated(s) \/ EditCommitted(s) \/ EditEvaluated(s))
  <2>1. sess[s].pc # "idle" => sess[s].req.type \in Asked
    BY DEF DirectoryInv, OnlyAsked
  <2>2. toClient[s] # None => toClient[s].type \notin ChangeEvaluations
    BY DEF DirectoryInv, OnlyAsked
  <2> QED
    BY <2>1, <2>2 DEF AppendCommitted, AppendEvaluated, EditCommitted, EditEvaluated, Answered,
                      Operation, Asked, ChangeEvaluations
<1>3. CASE \/ GiveUp(s) \/ UploadCommitted(s) \/ UploadProved(s) \/ FileDownloaded(s)
           \/ DownloadProved(s) \/ ProofAnswered(s)
  BY <1>1, <1>3, GiveUpRecords, UploadCommittedRecords, UploadProvedRecords,
     FileDownloadedRecords, ProofRecords
<1>4. CASE ReshapeCommitted(s) \/ ReshapeEvaluated(s) \/ Deleted(s)
  BY <1>1, <1>4, ReshapeCommittedRecords, ReshapeEvaluatedRecords, DeletedRecords
<1>5. CASE OpenClientDb(s) \/ CreateRecord(s) \/ DeleteRecord(s)
  BY <1>1, <1>5, OpenClientDbRecords, CreateRecordRecords, DeleteRecordRecords
<1> QED
  BY <1>1, <1>2, <1>3, <1>4, <1>5 DEF ClientStep

-----------------------------------------------------------------------------
(* The theorems.                                                           *)

\* At the start there is neither a record nor a file.
LEMMA RecordsInit ==
  ASSUME NEW s \in Slots, Init
  PROVE  RecordsInv(s)
<1>1. /\ Idle(s) /\ dbLock = {} /\ DOMAIN clientDb = {} /\ DOMAIN files = {} /\ DOMAIN table = {}
  BY DEF Init, NetInit, ServerInit, IdleTask, IdleProcess, EmptyMap, Idle
<1>2. Conversation(s)
  BY <1>1
  DEF Conversation, OneMessage, BothThere, AllExpected, Handles, OnRecord, Waits, Idle
<1>3. UploadGoesOn(s) /\ ReshapeGoesOn(s) /\ DeletionGoesOn(s)
  BY <1>1, IdleAgrees DEF UploadGoesOn, ReshapeGoesOn, DeletionGoesOn, AwaitsReshape, Idle
<1>4. Agreement(s)
  BY <1>1, IdleAgrees
  DEF Agreement, KnownStored, StoredKnown, EntryKnown, KnownHasEntry, RecordsNamed
<1> QED
  BY <1>2, <1>3, <1>4 DEF RecordsInv, Progress

\* Every step keeps the two sides in agreement.
LEMMA RecordsStep ==
  ASSUME OneAtATime, NEW s \in Slots, Slots = {s}, DirectoryInv, RecordsInv(s), [Next]_vars
  PROVE  RecordsInv(s)'
<1>1. CASE Call(s) \/ Serve(s) \/ Client(s)
  BY <1>1, CallRecords, ServeRecords, ClientRecords
<1>2. CASE UNCHANGED vars
  <2>1. UNCHANGED <<ends, toServer, toClient, dbLock, files, table, srv, sess, clientDb>>
    BY <1>2 DEF vars, netVars, serverVars, clientVars
  <2>2. Conversation(s)'
    BY <2>1
    DEF RecordsInv, Conversation, OneMessage, BothThere, AllExpected, Expected, Handles, OnRecord
  <2>3. SameOutcome(s)
    BY <2>1 DEF SameOutcome, Uploaded, InTask, Reshaped, Leaves, Erases, Clears, Renames
  <2>4. Progress(s)'
    BY <2>1, <2>3
    DEF RecordsInv, Progress, UploadGoesOn, ReshapeGoesOn, DeletionGoesOn, SameOutcome,
        AwaitsReshape, ShapeOf
  <2> QED
    BY <2>2, <2>3, <2>4, AgreementKept DEF RecordsInv, DirectoryInv
<1> QED
  BY <1>1, <1>2, StepsAlone

\* When nothing is under way, what is known is recorded and what is kept is known.
LEMMA QuietAgrees ==
  ASSUME NEW s \in Slots, Slots = {s}, DirectoryInv, RecordsInv(s)
  PROVE  RecordHasFile /\ NoOrphanFile
<1> SUFFICES ASSUME Quiescent
             PROVE  /\ \A id \in DOMAIN clientDb :
                         /\ id \in DOMAIN files
                         /\ clientDb[id].root = Commit(files[id], clientDb[id].dims)
                    /\ DOMAIN files \cup DOMAIN table \subseteq DOMAIN clientDb
  BY DEF RecordHasFile, NoOrphanFile
<1>1. Idle(s)
  BY DEF Quiescent, RecordsInv, Conversation, BothThere, DirectoryInv, ConnectionsOK, Idle
<1>2. /\ \A md : WillKnow(s, md) <=> md.id \in DOMAIN clientDb /\ clientDb[md.id] = md
      /\ \A id, data : WillHave(s, id, data) <=> id \in DOMAIN files /\ data = files[id]
      /\ \A id : ~ Clears(s, id)
  BY <1>1, IdleAgrees
<1>3. Agreement(s)
  BY DEF RecordsInv
<1>4. ASSUME NEW id \in DOMAIN clientDb
      PROVE  id \in DOMAIN files /\ clientDb[id].root = Commit(files[id], clientDb[id].dims)
  <2> DEFINE md == clientDb[id]
  <2>1. md \in Metadata /\ md.id = id
    BY <1>3 DEF DirectoryInv, TypeOK, ClientTypeOK, IsMap, Agreement, RecordsNamed
  <2>2. WillHave(s, id, md.root.data) /\ md.root.dims = md.dims
    BY <1>2, <1>3, <2>1 DEF Agreement, KnownStored
  <2>3. id \in DOMAIN files /\ md.root.data = files[id]
    BY <1>2, <2>2
  <2>4. md.root \in [data : Content, dims : Shapes]
    BY <2>1 DEF Metadata, Commitment
  <2> QED
    BY <2>2, <2>3, <2>4 DEF Commit
<1>5. ASSUME NEW id \in DOMAIN files
      PROVE  id \in DOMAIN clientDb
  <2>1. id \in Ids /\ files[id] \in Content
    BY DEF DirectoryInv, TypeOK, ServerTypeOK, IsMap
  <2> QED
    BY <1>2, <1>3, <2>1 DEF Agreement, StoredKnown
<1>6. ASSUME NEW id \in DOMAIN table
      PROVE  id \in DOMAIN clientDb
  BY <1>2, <1>3 DEF Agreement, EntryKnown
<1> QED
  BY <1>4, <1>5, <1>6

\* The two sides agree at every step.
LEMMA RecordsInvariant ==
  ASSUME OneAtATime
  PROVE  Spec => [](RecordHasFile /\ NoOrphanFile)
<1>1. PICK s : Slots = {s}
  BY DEF OneAtATime
<1>2. s \in Slots /\ WithoutChanges
  BY <1>1 DEF OneAtATime
<1>3. Init => RecordsInv(s)
  BY <1>2, RecordsInit
<1>4. DirectoryInv /\ RecordsInv(s) /\ [Next]_vars => RecordsInv(s)'
  BY <1>1, <1>2, RecordsStep
<1>5. DirectoryInv /\ RecordsInv(s) => RecordHasFile /\ NoOrphanFile
  BY <1>1, <1>2, QuietAgrees
<1>6. Spec => []DirectoryInv
  BY <1>2, DirectoryInvariant
<1> QED
  BY <1>3, <1>4, <1>5, <1>6, PTL DEF Spec

\* One client at a time and without faults, every file that the client has on
\* record is on the server, as its recorded commitment says: upload_file,
\* reshape_file and delete_file (client.rs) update the record to what their
\* requests made of the directory (server.rs).
THEOREM RecordsHaveFiles ==
  ASSUME OneAtATime
  PROVE  Spec => []RecordHasFile
BY RecordsInvariant, PTL

\* And the server keeps no file and no table entry that the client has no
\* record of: neither a rejected nor an accepted reshape, nor a deletion,
\* leaves one behind.
THEOREM NothingIsOrphaned ==
  ASSUME OneAtATime
  PROVE  Spec => []NoOrphanFile
BY RecordsInvariant, PTL

=============================================================================
