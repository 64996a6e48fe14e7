------------------------------ MODULE PosClient -----------------------------
(***************************************************************************)
(* The client library (networking/client.rs).  A client process runs one   *)
(* operation on a connection of its own: it sends a request, checks each   *)
(* answer, sends the next one, and at the end updates the client database. *)
(* Processes share that database and the local files, and an operation     *)
(* works on the metadata it read when it started.                          *)
(***************************************************************************)
EXTENDS PosNet, EditedRows

VARIABLES
  sess,      \* [Slots -> state of the client process]
  clientDb,  \* CLIENT_METADATA_TABLE: a map from Ulid to metadata
  local      \* [Names -> content of the local file]

clientVars == <<sess, clientDb, local>>

IdleProcess == [pc |-> "idle", req |-> None, new |-> None, file |-> << >>]

\* pc is the answer or the database step the process is at, req the request
\* that began its operation, new the metadata the server answered, file the
\* downloaded data.
AwaitsCommit     == [pc : {"commit"}, req : UploadRequest \cup VersionRequest,
                     new : {None}, file : Content]
AwaitsFile       == [pc : {"file"}, req : FileRequest, new : {None}, file : Content]
AwaitsColumns    == [pc : {"columns"}, req : FileRequest \cup ProofRequest,
                     new : {None}, file : Content]
AwaitsProof      == [pc : {"columns"}, req : UploadRequest, new : Metadata, file : Content]
AwaitsEvaluation == [pc : {"evaluation"}, req : VersionRequest, new : Metadata, file : Content]
AwaitsDeletion   == [pc : {"deletion"}, req : DeleteRequest, new : {None}, file : Content]
Records          == [pc : {"dbOpen", "dbCreate"}, req : UploadRequest \cup VersionRequest,
                     new : Metadata, file : Content]
Forgets          == [pc : {"dbOpen", "dbDelete"}, req : DeleteRequest,
                     new : {None}, file : Content]
Replaces         == [pc : {"dbDelete"}, req : VersionRequest, new : Metadata, file : Content]

Process == {IdleProcess} \cup AwaitsCommit \cup AwaitsFile \cup AwaitsColumns \cup AwaitsProof
             \cup AwaitsEvaluation \cup AwaitsDeletion \cup Records \cup Forgets \cup Replaces

ClientTypeOK ==
  /\ sess \in [Slots -> Process]
  /\ IsMap(clientDb, Ids, Metadata)
  /\ local \in [Names -> Content]

-----------------------------------------------------------------------------
(* A process and its connection.                                           *)

\* The process connects (the server accepts and spawns a task) and sends req.
Begin(s, pc, req) ==
  /\ sess[s].pc = "idle"
  /\ ends[s] = {}
  /\ ends' = [ends EXCEPT ![s] = {"client", "server"}]
  /\ sess' = [sess EXCEPT ![s] = [pc |-> pc, req |-> req, new |-> None, file |-> << >>]]
  /\ toServer' = [toServer EXCEPT ![s] = req]
  /\ UNCHANGED <<toClient, dbLock, clientDb, local>>

Operation(s) == sess[s].req.type

Answered(s, pc, type) ==
  /\ sess[s].pc = pc
  /\ toClient[s] # None
  /\ toClient[s].type = type
  /\ toClient' = [toClient EXCEPT ![s] = None]

\* To a server whose task is gone nothing is delivered.
Send(s, m) ==
  toServer' = IF "server" \in ends[s] THEN [toServer EXCEPT ![s] = m] ELSE toServer

\* Mistake: the state of the operation is not reset.
ExitKeepsState(s) ==
  /\ sess' = [sess EXCEPT ![s].pc = "idle"]
  /\ ends' = [ends EXCEPT ![s] = @ \ {"client"}]
  /\ toClient' = [toClient EXCEPT ![s] = None]

\* The function returns: the process exits and its end of the connection closes.
Exit(s) ==
  /\ sess' = [sess EXCEPT ![s] = IdleProcess]
  /\ ends' = [ends EXCEPT ![s] = @ \ {"client"}]
  /\ toClient' = [toClient EXCEPT ![s] = None]

\* Every operation bails on an ErrorResponse and at the end of the stream.
GiveUp(s) ==
  /\ sess[s].pc \in {"commit", "file", "columns", "evaluation", "deletion"}
  /\ \/ /\ toClient[s] # None
        /\ toClient[s].type = "ErrorResponse"
     \/ /\ toClient[s] = None
        /\ "server" \notin ends[s]
  /\ Exit(s)
  /\ UNCHANGED <<toServer, dbLock, clientDb, local>>

-----------------------------------------------------------------------------
(* The checks of lcpc_online.rs on what the server sends.                  *)

\* Mistake: the Merkle paths of the columns are not followed to the root.
ColumnLeavesVerify(cols, root, data, dims) == Commit(cols.data, cols.dims) = Commit(data, dims)

\* client_verify_commitment: the columns agree with the ones of data, and
\* their Merkle paths lead to root.
ColumnsVerify(cols, root, data, dims) ==
  /\ Commit(cols.data, cols.dims) = Commit(data, dims)
  /\ Commit(cols.data, cols.dims) = root

\* The evaluation of a polynomial is checked against columns whose Merkle
\* paths are not: what it can notice is a file with more rows than expected.
EvaluationVerifies(data, md) == RowCount(data, md.dims) <= md.rows

-----------------------------------------------------------------------------
(* upload_file                                                             *)

StartUpload(s, name, dims) ==
  /\ ClientDimsOk(dims)
  /\ CommitOk(local[name], dims)
  /\ Begin(s, "commit", [type |-> "UploadNewFile", name |-> name,
                         data |-> local[name], dims |-> dims])

UploadCommitted(s) ==
  /\ Answered(s, "commit", "CompactCommit")
  /\ Operation(s) = "UploadNewFile"
  /\ sess' = [sess EXCEPT ![s].pc = "columns", ![s].new = toClient[s].md]
  /\ Send(s, [type |-> "RequestProof", md |-> toClient[s].md])
  /\ UNCHANGED <<ends, dbLock, clientDb, local>>

UploadProved(s) ==
  /\ Answered(s, "columns", "Columns")
  /\ Operation(s) = "UploadNewFile"
  /\ IF ColumnsVerify(toClient[s], sess[s].new.root, sess[s].req.data, sess[s].req.dims)
       THEN sess' = [sess EXCEPT ![s].pc = "dbOpen"] /\ UNCHANGED ends
       ELSE Exit(s)
  /\ UNCHANGED <<toServer, dbLock, clientDb, local>>

-----------------------------------------------------------------------------
(* download_file and request_proof                                         *)

StartDownload(s, md) == Begin(s, "file", [type |-> "RequestFile", md |-> md])

FileDownloaded(s) ==
  /\ Answered(s, "file", "File")
  /\ sess' = [sess EXCEPT ![s].pc = "columns", ![s].file = toClient[s].data]
  /\ Send(s, [type |-> "RequestProof", md |-> sess[s].req.md])
  /\ UNCHANGED <<ends, dbLock, clientDb, local>>

\* The local file is only written once the columns verify.
DownloadProved(s) ==
  /\ Answered(s, "columns", "Columns")
  /\ Operation(s) = "RequestFile"
  /\ LET md == sess[s].req.md IN
       local' = IF ColumnsVerify(toClient[s], md.root, sess[s].file, md.dims)
                  THEN [local EXCEPT ![md.name] = sess[s].file] ELSE local
  /\ Exit(s)
  /\ UNCHANGED <<toServer, dbLock, clientDb>>

StartProof(s, md) == Begin(s, "columns", [type |-> "RequestProof", md |-> md])

\* The verdict on the local file is returned to the caller; nothing is stored.
ProofAnswered(s) ==
  /\ Answered(s, "columns", "Columns")
  /\ Operation(s) = "RequestProof"
  /\ Exit(s)
  /\ UNCHANGED <<toServer, dbLock, clientDb, local>>

-----------------------------------------------------------------------------
(* reshape_file                                                            *)

StartReshape(s, md, dims) ==
  Begin(s, "commit", [type |-> "RequestFileReshape", md |-> md, dims |-> dims])

ReshapeCommitted(s) ==
  /\ Answered(s, "commit", "CompactCommit")
  /\ Operation(s) = "RequestFileReshape"
  /\ sess' = [sess EXCEPT ![s].pc = "evaluation", ![s].new = toClient[s].md]
  /\ Send(s, [type |-> "RequestReshapeEvaluation",
              old |-> sess[s].req.md, new |-> toClient[s].md])
  /\ UNCHANGED <<ends, dbLock, clientDb, local>>

\* Mistake: the versions of the verdict are exchanged.
ReshapeVerdictSwapped(s, old, new, accepted) ==
  Send(s, [type |-> "ReshapeResponse", old |-> new, new |-> old, accepted |-> accepted])

ReshapeVerdict(s, old, new, accepted) ==
  Send(s, [type |-> "ReshapeResponse", old |-> old, new |-> new, accepted |-> accepted])

\* The verdict is sent and its answer is not awaited.
ReshapeEvaluated(s) ==
  /\ Answered(s, "evaluation", "ReshapeEvaluation")
  /\ LET old == sess[s].req.md
         new == sess[s].new
         ok  == /\ EvaluationVerifies(toClient[s].data, old)
                /\ EvaluationVerifies(toClient[s].data, new) IN
     /\ ReshapeVerdict(s, old, new, ok)
     /\ IF ok THEN sess' = [sess EXCEPT ![s].pc = "dbOpen"] /\ UNCHANGED ends ELSE Exit(s)
  /\ UNCHANGED <<dbLock, clientDb, local>>

-----------------------------------------------------------------------------
(* delete_file                                                             *)

StartDelete(s, md) == Begin(s, "deletion", [type |-> "DeleteFile", md |-> md])

Deleted(s) ==
  /\ Answered(s, "deletion", "FileDeleted")
  /\ sess' = [sess EXCEPT ![s].pc = "dbOpen"]
  /\ UNCHANGED <<ends, toServer, dbLock, clientDb, local>>

-----------------------------------------------------------------------------
(* append_to_file and edit_file                                            *)

\* The client's verdict on a new version: it sends its own version as the new
\* one and the server's as the old one.
Verdict(s, new, accepted) ==
  Send(s, [type |-> "EditOrAppendResponse",
           new |-> sess[s].req.md, old |-> new, accepted |-> accepted])

StartAppend(s, md, data) ==
  Begin(s, "commit", [type |-> "AppendToFile", md |-> md, data |-> data])

AppendCommitted(s) ==
  /\ Answered(s, "commit", "CompactCommit")
  /\ Operation(s) = "AppendToFile"
  /\ LET old == sess[s].req.md
         new == toClient[s].md IN
       IF new.size = old.size + Len(sess[s].req.data)
         THEN /\ sess' = [sess EXCEPT ![s].pc = "evaluation", ![s].new = new]
              /\ Send(s, [type |-> "RequestAppendEvaluation", old |-> old, new |-> new])
              /\ UNCHANGED ends
         ELSE /\ Verdict(s, new, FALSE)
              /\ Exit(s)
  /\ UNCHANGED <<dbLock, clientDb, local>>

\* The difference of the evaluations is the one the appended bytes make. Of an
\* old version that verifies, the element that the append changes is looked up in
\* the row the server sent; the process panics when it is missing.
AppendEvaluated(s) ==
  /\ Answered(s, "evaluation", "AppendEvaluation")
  /\ LET old == sess[s].req.md
         new == sess[s].new
         r   == toClient[s]
         verified == EvaluationVerifies(r.old, old) /\ EvaluationVerifies(r.new, new)
         missing  == ChangedElementMissing(old, r.rowLen)
         appended == Len(r.old) = old.size /\ r.new = r.old \o sess[s].req.data
         ok       == verified /\ appended IN
       \/ /\ verified /\ missing
          /\ Exit(s)
          /\ UNCHANGED toServer
       \/ /\ ~ (verified /\ missing)
          /\ Verdict(s, new, ok)
          /\ IF ok THEN sess' = [sess EXCEPT ![s].pc = "dbOpen"] /\ UNCHANGED ends ELSE Exit(s)
  /\ UNCHANGED <<dbLock, clientDb, local>>

StartEdit(s, md, start, data) ==
  /\ start + Len(data) <= md.size
  /\ Len(data) # 0
  /\ Begin(s, "commit", [type |-> "EditFileBytes", md |-> md, start |-> start, data |-> data])

\* A check that fails here leaves the new version on the server.
EditCommitted(s) ==
  /\ Answered(s, "commit", "CompactCommit")
  /\ Operation(s) = "EditFileBytes"
  /\ LET req == sess[s].req
         new == toClient[s].md
         rows == EditedRowRange(req.md.dims, req.start, req.data) IN
       IF new.size = req.md.size /\ new.root # req.md.root
         THEN /\ sess' = [sess EXCEPT ![s].pc = "evaluation", ![s].new = new]
              /\ Send(s, [type |-> "RequestEditEvaluation", old |-> req.md, new |-> new,
                          first |-> rows.first, last |-> rows.last])
              /\ UNCHANGED ends
         ELSE /\ Exit(s)
              /\ UNCHANGED toServer
  /\ UNCHANGED <<dbLock, clientDb, local>>

\* Only an evaluation that does not verify is answered with a rejection; the
\* other checks bail without a word.
EditEvaluated(s) ==
  /\ Answered(s, "evaluation", "EditEvaluation")
  /\ LET req == sess[s].req
         new == sess[s].new
         r   == toClient[s]
         verified == EvaluationVerifies(r.old, req.md) /\ EvaluationVerifies(r.new, new)
         edited   == Splice(r.old, req.start, req.data)
         wellFormed == WholeRows(req.md.dims, r.rowBytes, Len(req.data)) IN
       \/ /\ wellFormed /\ ~ verified
          /\ Verdict(s, new, FALSE)
          /\ Exit(s)
       \/ /\ ~ wellFormed \/ verified
          /\ IF wellFormed /\ edited # r.old /\ r.new = edited
               THEN /\ Verdict(s, new, TRUE)
                    /\ sess' = [sess EXCEPT ![s].pc = "dbOpen"]
                    /\ UNCHANGED ends
               ELSE /\ Exit(s)
                    /\ UNCHANGED toServer
  /\ UNCHANGED <<dbLock, clientDb, local>>

-----------------------------------------------------------------------------
(* The client database.                                                    *)

\* An open that fails makes the operation return an error after the server
\* did its part.
OpenClientDb(s) ==
  /\ sess[s].pc = "dbOpen"
  /\ \/ /\ DbBusy("client")
        /\ Exit(s)
        /\ UNCHANGED dbLock
     \/ /\ ~ DbBusy("client")
        /\ dbLock' = dbLock \cup {<<"client", s>>}
        /\ sess' = [sess EXCEPT ![s].pc = IF Operation(s) = "DeleteFile" THEN "dbDelete"
                                                                        ELSE "dbCreate"]
        /\ UNCHANGED <<ends, toClient>>
  /\ UNCHANGED <<toServer, clientDb, local>>

CloseClientDb(s) ==
  /\ dbLock' = dbLock \ {<<"client", s>>}
  /\ Exit(s)

\* A new version replaces the old record in a second step.
CreateRecord(s) ==
  /\ sess[s].pc = "dbCreate"
  /\ clientDb' = Put(clientDb, sess[s].new.id, sess[s].new)
  /\ IF Operation(s) = "UploadNewFile"
       THEN CloseClientDb(s)
       ELSE /\ sess' = [sess EXCEPT ![s].pc = "dbDelete"]
            /\ UNCHANGED <<dbLock, toClient, ends>>
  /\ UNCHANGED <<toServer, local>>

DeleteRecord(s) ==
  /\ sess[s].pc = "dbDelete"
  /\ clientDb' = Drop(clientDb, sess[s].req.md.id)
  /\ CloseClientDb(s)
  /\ UNCHANGED <<toServer, local>>

-----------------------------------------------------------------------------

\* The process is killed; a request it sent is still delivered.
ClientAbort(s) ==
  /\ sess[s].pc # "idle"
  /\ CloseClientDb(s)
  /\ UNCHANGED <<toServer, clientDb, local>>

\* One step of the operation that process s is running.
ClientStep(s) ==
  \/ GiveUp(s)
  \/ UploadCommitted(s)
  \/ UploadProved(s)
  \/ FileDownloaded(s)
  \/ DownloadProved(s)
  \/ ProofAnswered(s)
  \/ ReshapeCommitted(s)
  \/ ReshapeEvaluated(s)
  \/ Deleted(s)
  \/ AppendCommitted(s)
  \/ AppendEvaluated(s)
  \/ EditCommitted(s)
  \/ EditEvaluated(s)
  \/ OpenClientDb(s)
  \/ CreateRecord(s)
  \/ DeleteRecord(s)
=============================================================================
