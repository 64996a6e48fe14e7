-------------------------- MODULE PosUpload_proofs --------------------------
(***************************************************************************)
(* Proofs about files of any number of clients, with crashes of the server *)
(* and of clients and a database that is busy at any time: that an upload  *)
(* is held once the client learns of it and that a deletion leaves nothing *)
(* behind, while files are uploaded, downloaded, proved and deleted; and   *)
(* that an accepted version is the intended one, while files are appended  *)
(* to as well.                                                             *)
(***************************************************************************)
EXTENDS PosSystem_proofs

-----------------------------------------------------------------------------
(* Uploads and deletions.                                                  *)

\* Files are uploaded, downloaded, proved and deleted.
OnlyUploads ==
  Operations \subseteq {"upload_file", "download_file", "request_proof", "delete_file"}

\* Nothing else is then asked of the server.
LEMMA UploadsAsk ==
  ASSUME OnlyUploads
  PROVE  /\ WithoutChanges
         /\ Asked = {"UploadNewFile", "RequestFile", "RequestProof", "DeleteFile"}
BY DEF OnlyUploads, WithoutChanges, Asked

-----------------------------------------------------------------------------
(* Ulids of uploads.  From the draw to the client's record exactly one     *)
(* place of the system knows the metadata of an uploaded file: it moves    *)
(* from the handler's task to the server's answer and to the process.  It  *)
(* can be deleted only from then on.                                       *)

Holders == {"task", "answer", "process"}

\* The holder p of connection s has the metadata md of an upload under way.
Holds(s, p, md) ==
  \/ /\ p = "task" /\ srv[s].pc \in {"open", "create"}
     /\ srv[s].msg.type = "UploadNewFile" /\ srv[s].md = md
  \/ /\ p = "answer"
     /\ toClient[s] # None /\ toClient[s].type = "CompactCommit" /\ toClient[s].md = md
  \/ /\ p = "process" /\ sess[s].pc \in {"columns", "dbOpen", "dbCreate"}
     /\ sess[s].req.type = "UploadNewFile" /\ sess[s].new = md

\* A client has the file on record, or its deletion is under way.
Recorded(id) == \E k \in DOMAIN clientDb : clientDb[k].id = id

Deleting(id) ==
  \E s \in Slots :
    \/ toServer[s] # None /\ toServer[s].type = "DeleteFile" /\ toServer[s].md.id = id
    \/ srv[s].pc # "wait" /\ srv[s].msg.type = "DeleteFile" /\ srv[s].msg.md.id = id
    \/ sess[s].pc # "idle" /\ sess[s].req.type = "DeleteFile" /\ sess[s].req.md.id = id

Deletable(id) == Recorded(id) \/ Deleting(id)

\* The file is there with the content that was committed to.
Stored(md) == md.id \in DOMAIN files /\ files[md.id] = md.root.data

\* No upload under way is known at two places.
HeldOnce ==
  \A s, t \in Slots, p, q \in Holders, m, n \in Metadata :
    Holds(s, p, m) /\ Holds(t, q, n) /\ m.id = n.id => s = t /\ p = q

\* An upload under way has its file, when it is answered also its entry, and
\* nobody can delete it.
HeldStored ==
  \A s \in Slots, p \in Holders, m \in Metadata :
    Holds(s, p, m) =>
      /\ m.id \in issued /\ ~ Deletable(m.id)
      /\ Stored(m)
      /\ p # "task" => m.id \in DOMAIN table

\* What can be deleted was drawn, so that no upload draws it again.
DeletableDrawn == \A id \in Ids : Deletable(id) => id \in issued

\* What the server's store satisfies.
StoreOK == HeldOnce /\ HeldStored /\ DeletableDrawn /\ FilesDrawn /\ EntryHasFile

-----------------------------------------------------------------------------
(* The ways in which a step changes who holds what.                        *)

\* No holder has other metadata than before.
HoldersKept ==
  \A t \in Slots, q \in Holders, m \in Metadata : Holds(t, q, m)' => Holds(t, q, m)

\* Nothing more can be deleted.
DeletablesKept == \A id \in Ids : Deletable(id)' => Deletable(id)

\* A step that changes nothing on the server's disk.
LEMMA StoreKept ==
  ASSUME StoreOK, HoldersKept, DeletablesKept, DiskUnchanged
  PROVE  StoreOK'
<1>1. \A m \in Metadata : m.id \in Ids
  BY DEF Metadata
<1> QED
  BY <1>1 DEF StoreOK, HeldOnce, HeldStored, DeletableDrawn, FilesDrawn, EntryHasFile, Stored,
              HoldersKept, DeletablesKept, DiskUnchanged

\* A step that stores a file under a Ulid drawn for it.
LEMMA StoreDrawn ==
  ASSUME StoreOK, DeletablesKept, NEW s \in Slots, NEW md \in Metadata, md.id \notin issued,
         files' = Put(files, md.id, md.root.data), issued' = issued \cup {md.id},
         UNCHANGED table,
         \A t \in Slots, q \in Holders, m \in Metadata :
           Holds(t, q, m)' => Holds(t, q, m) \/ (t = s /\ q = "task" /\ m = md)
  PROVE  StoreOK'
<1>1. \A m \in Metadata : m.id \in Ids
  BY DEF Metadata
<1>2. /\ DOMAIN files' = DOMAIN files \cup {md.id} /\ files'[md.id] = md.root.data
      /\ \A id \in DOMAIN files : id # md.id => files'[id] = files[id]
  BY DEF Put
<1>3. ~ Deletable(md.id)'
  BY <1>1 DEF StoreOK, DeletableDrawn, DeletablesKept
<1>4. HeldOnce'
  BY DEF StoreOK, HeldOnce, HeldStored
<1>5. HeldStored'
  <2> SUFFICES ASSUME NEW t \in Slots, NEW q \in Holders, NEW m \in Metadata, Holds(t, q, m)'
               PROVE  /\ m.id \in issued' /\ ~ Deletable(m.id)'
                      /\ Stored(m)'
                      /\ q # "task" => m.id \in DOMAIN table'
    BY DEF HeldStored
  <2>1. CASE Holds(t, q, m)
    <3>1. m.id \in issued /\ ~ Deletable(m.id) /\ Stored(m)
            /\ (q # "task" => m.id \in DOMAIN table)
      BY <2>1 DEF StoreOK, HeldStored
    <3> QED
      BY <1>1, <1>2, <3>1 DEF DeletablesKept, Stored
  <2>2. CASE t = s /\ q = "task" /\ m = md
    BY <1>2, <1>3, <2>2 DEF Stored
  <2> QED
    BY <2>1, <2>2
<1>6. DeletableDrawn' /\ FilesDrawn' /\ EntryHasFile'
  BY <1>2 DEF StoreOK, DeletableDrawn, FilesDrawn, EntryHasFile, DeletablesKept
<1> QED
  BY <1>4, <1>5, <1>6 DEF StoreOK

\* A step that moves the metadata of an upload to the next holder, and adds its
\* entry if it was not there.
LEMMA StoreMoved ==
  ASSUME StoreOK, DeletablesKept, UNCHANGED <<files, issued>>,
         DOMAIN table \subseteq DOMAIN table', EntryHasFile',
         NEW s \in Slots, NEW from \in Holders, NEW to \in Holders,
         \A m \in Metadata : ~ Holds(s, from, m)',
         \A t \in Slots, q \in Holders, m \in Metadata :
           Holds(t, q, m)' =>
             \/ Holds(t, q, m)
             \/ t = s /\ q = to /\ Holds(s, from, m) /\ m.id \in DOMAIN table'
  PROVE  StoreOK'
<1>1. \A m \in Metadata : m.id \in Ids
  BY DEF Metadata
<1>2. HeldOnce'
  BY DEF StoreOK, HeldOnce
<1>3. HeldStored'
  BY <1>1 DEF StoreOK, HeldStored, DeletablesKept, Stored
<1>4. DeletableDrawn' /\ FilesDrawn'
  BY DEF StoreOK, DeletableDrawn, FilesDrawn, DeletablesKept
<1> QED
  BY <1>2, <1>3, <1>4 DEF StoreOK

\* A step that puts an upload on record: from then on it can be deleted.
LEMMA StoreRecorded ==
  ASSUME StoreOK, HoldersKept, DiskUnchanged, NEW s \in Slots, NEW md \in Metadata,
         Holds(s, "process", md), \A m \in Metadata : ~ Holds(s, "process", m)',
         \A id \in Ids : Deletable(id)' => Deletable(id) \/ id = md.id
  PROVE  StoreOK'
<1>1. \A m \in Metadata : m.id \in Ids
  BY DEF Metadata
<1>2. "process" \in Holders /\ md.id \in issued
  BY DEF Holders, StoreOK, HeldStored
<1>3. HeldOnce'
  BY DEF StoreOK, HeldOnce, HoldersKept
<1>4. HeldStored'
  <2> SUFFICES ASSUME NEW t \in Slots, NEW q \in Holders, NEW m \in Metadata, Holds(t, q, m)'
               PROVE  /\ m.id \in issued' /\ ~ Deletable(m.id)'
                      /\ Stored(m)'
                      /\ q # "task" => m.id \in DOMAIN table'
    BY DEF HeldStored
  <2>1. Holds(t, q, m) /\ ~ (t = s /\ q = "process")
    BY DEF HoldersKept
  <2>2. m.id # md.id
    BY <1>2, <2>1 DEF StoreOK, HeldOnce
  <2>3. m.id \in issued /\ ~ Deletable(m.id) /\ Stored(m) /\ (q # "task" => m.id \in DOMAIN table)
    BY <2>1 DEF StoreOK, HeldStored
  <2> QED
    BY <1>1, <2>2, <2>3 DEF DiskUnchanged, Stored
<1>5. DeletableDrawn' /\ FilesDrawn' /\ EntryHasFile'
  BY <1>2 DEF StoreOK, DeletableDrawn, FilesDrawn, EntryHasFile, DiskUnchanged
<1> QED
  BY <1>3, <1>4, <1>5 DEF StoreOK

\* A step of a deletion, which takes the entry first and the file after it.
LEMMA StoreDeleted ==
  ASSUME StoreOK, HoldersKept, DeletablesKept, NEW id \in Ids, Deletable(id), UNCHANGED issued,
         \/ table' = Drop(table, id) /\ UNCHANGED files
         \/ files' = Drop(files, id) /\ UNCHANGED table /\ id \notin DOMAIN table
  PROVE  StoreOK'
<1>1. \A m \in Metadata : m.id \in Ids
  BY DEF Metadata
<1>2. HeldOnce'
  BY DEF StoreOK, HeldOnce, HoldersKept
<1>3. HeldStored'
  <2> SUFFICES ASSUME NEW t \in Slots, NEW q \in Holders, NEW m \in Metadata, Holds(t, q, m)'
               PROVE  /\ m.id \in issued' /\ ~ Deletable(m.id)'
                      /\ Stored(m)'
                      /\ q # "task" => m.id \in DOMAIN table'
    BY DEF HeldStored
  <2>1. m.id \in issued /\ ~ Deletable(m.id) /\ Stored(m) /\ (q # "task" => m.id \in DOMAIN table)
    BY DEF StoreOK, HeldStored, HoldersKept
  <2>2. m.id # id
    BY <2>1
  <2> QED
    BY <1>1, <2>1, <2>2 DEF DeletablesKept, Stored, Drop
<1>4. DeletableDrawn' /\ FilesDrawn' /\ EntryHasFile'
  BY DEF StoreOK, DeletableDrawn, FilesDrawn, EntryHasFile, DeletablesKept, Drop
<1> QED
  BY <1>2, <1>3, <1>4 DEF StoreOK

-----------------------------------------------------------------------------
(* What the steps of tasks and processes are when nothing else is asked.   *)

\* A task answers a query with something other than a commitment, uploads,
\* deletes, or ends.
LEMMA TaskSteps ==
  ASSUME TypeOK, OnlyAsked, OnlyUploads, NEW s \in Slots, ServerStep(s)
  PROVE  \/ HandleUploadNewFile(s) \/ HandleRequestFile(s) \/ HandleRequestProof(s)
         \/ toServer[s] \in DeleteRequest /\ HandleDatabaseRequest(s)
         \/ OpenDatabase(s)
         \/ CreateEntry(s)
         \/ srv[s] \in DeletingTask /\ srv[s].msg \in DeleteRequest /\ DeleteEntry(s)
         \/ srv[s] \in RemovingTask /\ srv[s].msg \in DeleteRequest /\ RemoveFile(s)
         \/ EndOfStream(s)
<1> DEFINE Types == {"UploadNewFile", "RequestFile", "RequestProof", "DeleteFile"}
<1>1. /\ toServer[s] # None => toServer[s].type \in Types
      /\ srv[s].pc # "wait" => srv[s].msg.type \in Types
  BY UploadsAsk DEF OnlyAsked
<1>2. ASSUME NEW type, Takes(s, type)
      PROVE  toServer[s] \in Request /\ toServer[s].type = type /\ type \in Types
  BY <1>1, <1>2 DEF Takes, TypeOK, NetTypeOK
<1>3. ~ (HandleEditFileBytes(s) \/ HandleAppendToFile(s) \/ HandleRequestFileReshape(s)
         \/ HandleRequestReshapeEvaluation(s) \/ HandleRequestAppendEvaluation(s)
         \/ HandleRequestEditEvaluation(s))
  <2>1. HandleEditFileBytes(s) => Takes(s, "EditFileBytes")
    BY DEF HandleEditFileBytes
  <2>2. HandleAppendToFile(s) => Takes(s, "AppendToFile")
    BY DEF HandleAppendToFile
  <2>3. HandleRequestFileReshape(s) => Takes(s, "RequestFileReshape")
    BY DEF HandleRequestFileReshape
  <2>4. HandleRequestReshapeEvaluation(s) => Takes(s, "RequestReshapeEvaluation")
    BY DEF HandleRequestReshapeEvaluation
  <2>5. HandleRequestAppendEvaluation(s) => Takes(s, "RequestAppendEvaluation")
    BY DEF HandleRequestAppendEvaluation
  <2>6. HandleRequestEditEvaluation(s) => Takes(s, "RequestEditEvaluation")
    BY DEF HandleRequestEditEvaluation
  <2> QED
    BY <1>2, <2>1, <2>2, <2>3, <2>4, <2>5, <2>6
<1>4. ASSUME HandleDatabaseRequest(s)
      PROVE  toServer[s] \in DeleteRequest
  BY <1>2, <1>4, RequestByType DEF HandleDatabaseRequest
<1>5. srv[s] \in Task
  BY DEF TypeOK, ServerTypeOK
<1>6. ~ RenameFile(s)
  BY <1>1, <1>5, TaskByPc DEF RenameFile, RenamingTask, VersionResponse
<1>7. ASSUME DeleteEntry(s)
      PROVE  srv[s] \in DeletingTask /\ srv[s].msg \in DeleteRequest
  <2>1. srv[s] \in DeletingTask /\ srv[s].pc = "delete"
    BY <1>5, <1>7, TaskByPc DEF DeleteEntry
  <2> QED
    BY <1>1, <2>1 DEF DeletingTask, VersionResponse
<1>8. ASSUME RemoveFile(s)
      PROVE  srv[s] \in RemovingTask /\ srv[s].msg \in DeleteRequest
  <2>1. srv[s] \in RemovingTask /\ srv[s].pc = "remove"
    BY <1>5, <1>8, TaskByPc DEF RemoveFile
  <2> QED
    BY <1>1, <2>1 DEF RemovingTask, VersionResponse
<1> QED
  BY <1>3, <1>4, <1>6, <1>7, <1>8 DEF ServerStep

\* A process gets the commitment of its upload, proves it, opens the database
\* for it, records it; or it takes a step of another operation; or it returns.
ProcessSteps(s) ==
  \/ /\ sess[s].req.type = "UploadNewFile" /\ UNCHANGED clientDb
     /\ \/ /\ toClient[s] # None /\ toClient[s].type = "CompactCommit" /\ toClient'[s] = None
           /\ sess'[s].pc = "columns" /\ sess'[s].new = toClient[s].md
        \/ /\ sess[s].pc = "columns" /\ sess'[s].pc = "dbOpen" /\ sess'[s].new = sess[s].new
           /\ sess[s].new.root = Commit(sess[s].req.data, sess[s].req.dims)
        \/ sess[s].pc = "dbOpen" /\ sess'[s].pc = "dbCreate" /\ sess'[s].new = sess[s].new
  \/ /\ sess[s].req.type \in {"RequestFile", "RequestProof"} /\ UNCHANGED clientDb
  \/ /\ sess[s].req.type = "DeleteFile" /\ UNCHANGED clientDb
     /\ \/ /\ sess[s].pc = "deletion" /\ sess'[s].pc = "dbOpen"
           /\ toClient[s] # None /\ toClient[s].type = "FileDeleted"
        \/ sess[s].pc = "dbOpen" /\ sess'[s].pc = "dbDelete"
  \/ /\ sess'[s] = IdleProcess
     /\ \/ UNCHANGED clientDb
        \/ \E id : clientDb' = Drop(clientDb, id)
        \/ /\ sess[s].pc = "dbCreate" /\ sess[s].req.type = "UploadNewFile"
           /\ clientDb' = Put(clientDb, sess[s].new.id, sess[s].new)

\* Every step of a process is one of these.
LEMMA ClientSteps ==
  ASSUME TypeOK, OnlyAsked, OnlyUploads, NEW s \in Slots, ClientStep(s) \/ ClientAbort(s)
  PROVE  ProcessSteps(s)
<1> DEFINE Types == {"UploadNewFile", "RequestFile", "RequestProof", "DeleteFile"}
<1> USE DEF ProcessSteps
<1>1. WiresTypeOK /\ sess[s] \in Process
  BY WiresTyped DEF WiresTypeOK
<1>2. sess[s].pc # "idle" => sess[s].req.type \in Types
  BY UploadsAsk DEF OnlyAsked
<1>3. CASE Exit(s) /\ UNCHANGED clientDb
  BY <1>1, <1>3, ExitMoves
<1>4. CASE GiveUp(s) \/ ClientAbort(s) \/ DownloadProved(s) \/ ProofAnswered(s)
  BY <1>3, <1>4 DEF GiveUp, ClientAbort, CloseClientDb, DownloadProved, ProofAnswered
<1>5. CASE UploadCommitted(s)
  <2>1. PICK new : new = toClient[s].md
    OBVIOUS
  <2>2. sess' = [sess EXCEPT ![s].pc = "columns", ![s].new = new]
    BY <1>5, <2>1 DEF UploadCommitted
  <2>3. sess'[s] = [sess[s] EXCEPT !.pc = "columns", !.new = new]
    BY <1>1, <2>2 DEF WiresTypeOK
  <2>4. sess'[s].pc = "columns" /\ sess'[s].new = new
    BY <1>1, <2>3, ProcessFields
  <2>5. /\ Answered(s, "commit", "CompactCommit") /\ sess[s].req.type = "UploadNewFile"
        /\ UNCHANGED clientDb
    BY <1>5 DEF UploadCommitted, Operation
  <2> QED
    BY <1>1, <2>1, <2>4, <2>5, AnsweredMoves
<1>6. CASE UploadProved(s)
  <2>1. CASE Exit(s)
    BY <1>3, <1>6, <2>1 DEF UploadProved
  <2>2. CASE ~ Exit(s)
    <3>1. /\ Answered(s, "columns", "Columns") /\ sess[s].req.type = "UploadNewFile"
          /\ ColumnsVerify(toClient[s], sess[s].new.root, sess[s].req.data, sess[s].req.dims)
          /\ sess' = [sess EXCEPT ![s].pc = "dbOpen"] /\ UNCHANGED clientDb
      BY <1>6, <2>2 DEF UploadProved, Operation
    <3>2. sess'[s].pc = "dbOpen" /\ sess'[s].new = sess[s].new
      BY <1>1, <3>1, AdvanceMoves
    <3>3. sess[s].pc = "columns"
      BY <3>1 DEF Answered
    <3>4. sess[s].new.root = Commit(sess[s].req.data, sess[s].req.dims)
      BY <3>1 DEF ColumnsVerify
    <3> QED
      BY <3>1, <3>2, <3>3, <3>4
  <2> QED
    BY <2>1, <2>2
<1>7. CASE FileDownloaded(s)
  <2>1. sess[s].pc = "file" /\ UNCHANGED clientDb
    BY <1>7 DEF FileDownloaded, Answered
  <2>2. sess[s].req.type = "RequestFile"
    BY <1>1, <2>1, ProcessByPc, RequestTypes DEF AwaitsFile
  <2> QED
    BY <2>1, <2>2
<1>8. CASE Deleted(s)
  <2>1. /\ Answered(s, "deletion", "FileDeleted") /\ UNCHANGED clientDb
        /\ sess' = [sess EXCEPT ![s].pc = "dbOpen"]
    BY <1>8 DEF Deleted
  <2>2. sess'[s].pc = "dbOpen"
    BY <1>1, <2>1, AdvanceMoves
  <2>3. sess[s].pc = "deletion" /\ toClient[s] # None /\ toClient[s].type = "FileDeleted"
    BY <2>1 DEF Answered
  <2>4. sess[s].req.type = "DeleteFile"
    BY <1>1, <2>3, ProcessByPc, RequestTypes DEF AwaitsDeletion
  <2> QED
    BY <2>1, <2>2, <2>3, <2>4
<1>9. ~ (ReshapeCommitted(s) \/ AppendCommitted(s) \/ EditCommitted(s))
  BY <1>2 DEF ReshapeCommitted, AppendCommitted, EditCommitted, Answered, Operation
<1>10. ~ (ReshapeEvaluated(s) \/ AppendEvaluated(s) \/ EditEvaluated(s))
  <2>1. sess[s].pc # "evaluation"
    BY <1>1, <1>2, ProcessByPc, RequestTypes DEF AwaitsEvaluation
  <2> QED
    BY <2>1 DEF ReshapeEvaluated, AppendEvaluated, EditEvaluated, Answered
<1>11. CASE OpenClientDb(s)
  <2>1. CASE Exit(s)
    BY <1>3, <1>11, <2>1 DEF OpenClientDb
  <2>2. CASE ~ Exit(s)
    <3>1. PICK pc : /\ pc = (IF sess[s].req.type = "DeleteFile" THEN "dbDelete" ELSE "dbCreate")
                    /\ sess' = [sess EXCEPT ![s].pc = pc]
      BY <1>11, <2>2 DEF OpenClientDb, Operation
    <3>2. sess'[s].pc = pc /\ sess'[s].new = sess[s].new
      <4>1. WiresTypeOK /\ sess' = [sess EXCEPT ![s].pc = pc]
        BY <1>1, <3>1
      <4> QED
        BY <4>1, AdvanceMoves
    <3>3. sess[s].pc = "dbOpen" /\ UNCHANGED clientDb
      BY <1>11 DEF OpenClientDb
    <3>4. sess[s].req.type \in {"UploadNewFile", "DeleteFile"}
      BY <1>1, <1>2, <3>3, ProcessByPc, RequestTypes DEF Records, Forgets
    <3>5. CASE sess[s].req.type = "UploadNewFile"
      BY <3>1, <3>2, <3>3, <3>5
    <3>6. CASE sess[s].req.type = "DeleteFile"
      BY <3>1, <3>2, <3>3, <3>6
    <3> QED
      BY <3>4, <3>5, <3>6
  <2> QED
    BY <2>1, <2>2
<1>12. CASE CreateRecord(s)
  <2>1. sess[s].pc = "dbCreate" /\ clientDb' = Put(clientDb, sess[s].new.id, sess[s].new)
    BY <1>12 DEF CreateRecord
  <2>2. sess[s].req.type = "UploadNewFile"
    BY <1>1, <1>2, <2>1, ProcessByPc, RequestTypes DEF Records
  <2>3. Exit(s)
    BY <1>12, <2>2 DEF CreateRecord, CloseClientDb, Operation
  <2> QED
    BY <1>1, <2>1, <2>2, <2>3, ExitMoves
<1>13. CASE DeleteRecord(s)
  BY <1>1, <1>13, ExitMoves DEF DeleteRecord, CloseClientDb
<1> QED
  BY <1>4, <1>5, <1>6, <1>7, <1>8, <1>9, <1>10, <1>11, <1>12, <1>13 DEF ClientStep

-----------------------------------------------------------------------------
(* What a step of a task does to the disk and to the upload it works on.   *)

\* The upload that the task works on, if any, is the one it worked on.
KeepsUpload(s) ==
  srv'[s].pc \in {"open", "create"} /\ srv'[s].msg.type = "UploadNewFile" =>
    /\ srv[s].pc \in {"open", "create"} /\ srv[s].msg.type = "UploadNewFile"
    /\ srv'[s].md = srv[s].md

\* The client is told of no commitment and of no deletion.
AnswersNeither(s) ==
  \/ toClient'[s] = toClient[s]
  \/ toClient'[s].type \notin {"CompactCommit", "FileDeleted"}

\* The effects: the file of an upload, its entry; the entry of a deletion, its
\* file; or nothing on the disk.
StoresFile(s, md) ==
  /\ md.id \notin issued
  /\ files' = Put(files, md.id, md.root.data) /\ issued' = issued \cup {md.id} /\ UNCHANGED table
  /\ srv'[s].pc = "open" /\ srv'[s].md = md
  /\ AnswersNeither(s)

AddsEntry(s, md) ==
  /\ Holds(s, "task", md)
  /\ table' = Put(table, md.id, md) /\ UNCHANGED <<files, issued>>
  /\ srv'[s].pc = "wait"
  /\ \/ toClient'[s] = toClient[s]
     \/ toClient'[s].type = "CompactCommit" /\ toClient'[s].md = md

TakesEntry(s) ==
  /\ srv[s].pc = "delete" /\ srv[s].msg \in DeleteRequest
  /\ table' = Drop(table, srv[s].msg.md.id) /\ UNCHANGED <<files, issued>>
  /\ srv'[s].pc = "remove"
  /\ AnswersNeither(s)

TakesFile(s) ==
  /\ srv[s].pc = "remove" /\ srv[s].msg \in DeleteRequest
  /\ files' = Drop(files, srv[s].msg.md.id) /\ UNCHANGED <<table, issued>>
  /\ srv'[s].pc = "wait"
  /\ toClient'[s] = toClient[s] \/ toClient'[s].type # "CompactCommit"

LeavesDisk(s) ==
  /\ DiskUnchanged
  /\ KeepsUpload(s) /\ srv'[s].pc # "remove"
  /\ AnswersNeither(s)

\* What one step of a task does.
TaskEffect(s) ==
  \/ \E md \in Metadata : StoresFile(s, md) \/ AddsEntry(s, md)
  \/ TakesEntry(s) \/ TakesFile(s) \/ LeavesDisk(s)

\* An answer other than a commitment leaves nothing in the task's hands.
LEMMA ReplyLeaves ==
  ASSUME WiresTypeOK, NEW s \in Slots, NEW m, Reply(s, m)
  PROVE  /\ srv'[s].pc = "wait" /\ srv'[s] = IdleTask
         /\ toClient'[s] = toClient[s] \/ toClient'[s] = m
BY DEF Reply, WiresTypeOK, IdleTask

\* So does an error.
LEMMA FailLeaves ==
  ASSUME WiresTypeOK, NEW s \in Slots, Fail(s)
  PROVE  srv'[s].pc = "wait" /\ AnswersNeither(s)
<1>1. \/ toClient'[s] = toClient[s]
      \/ toClient'[s] = [type |-> "ErrorResponse"]
  BY ReplyLeaves DEF Fail
<1>2. srv'[s].pc = "wait"
  BY ReplyLeaves DEF Fail
<1> QED
  BY <1>1, <1>2 DEF AnswersNeither

\* Every step of a task has one of these effects.
LEMMA TaskEffects ==
  ASSUME TypeOK, OnlyAsked, OnlyUploads, NEW s \in Slots, ServerStep(s)
  PROVE  TaskEffect(s)
<1> USE WiresTyped
<1>1. CASE HandleUploadNewFile(s)
  <2> DEFINE m == toServer[s]
  <2>1. CASE Fail(s) /\ UNCHANGED storeVars
    BY <2>1, FailLeaves DEF TaskEffect, LeavesDisk, KeepsUpload, DiskUnchanged, storeVars
  <2>2. ASSUME NEW id \in FreshUlids, files' = Put(files, id, m.data), UNCHANGED table,
               issued' = issued \cup {id},
               Go(s, m, "open", CommittedMetadata(id, m.name, m.data, m.dims))
        PROVE  TaskEffect(s)
    <3> DEFINE md == CommittedMetadata(id, m.name, m.data, m.dims)
    <3>1. m \in UploadRequest
      BY <1>1, RequestByType DEF HandleUploadNewFile, Takes, TypeOK, NetTypeOK
    <3>2. id \in Ids /\ id \notin issued
      BY <2>2 DEF FreshUlids
    <3>3. md \in Metadata
      BY <3>1, <3>2, CommittedMetadataType DEF UploadRequest
    <3>4. md.id = id /\ md.root.data = m.data
      BY DEF CommittedMetadata, Commit
    <3>5. srv'[s].pc = "open" /\ srv'[s].md = md /\ AnswersNeither(s)
      BY <2>2 DEF Go, AnswersNeither, WiresTypeOK
    <3>6. StoresFile(s, md)
      BY <2>2, <3>2, <3>4, <3>5 DEF StoresFile
    <3> QED
      BY <3>3, <3>6 DEF TaskEffect
  <2> QED
    BY <1>1, <2>1, <2>2 DEF HandleUploadNewFile
<1>2. CASE HandleRequestFile(s) \/ HandleRequestProof(s)
  <2>1. DiskUnchanged
    BY <1>2 DEF HandleRequestFile, HandleRequestProof, DiskUnchanged, storeVars
  <2>2. srv'[s].pc = "wait" /\ AnswersNeither(s)
    <3>1. CASE Fail(s)
      BY <3>1, FailLeaves
    <3>2. ASSUME NEW data, Reply(s, [type |-> "File", data |-> data])
          PROVE  srv'[s].pc = "wait" /\ AnswersNeither(s)
      BY <3>2, ReplyLeaves DEF AnswersNeither
    <3>3. ASSUME NEW data, NEW dims, Reply(s, [type |-> "Columns", data |-> data, dims |-> dims])
          PROVE  srv'[s].pc = "wait" /\ AnswersNeither(s)
      BY <3>3, ReplyLeaves DEF AnswersNeither
    <3> QED
      BY <1>2, <3>1, <3>2, <3>3 DEF HandleRequestFile, HandleRequestProof
  <2> QED
    BY <2>1, <2>2 DEF TaskEffect, LeavesDisk, KeepsUpload
<1>3. CASE toServer[s] \in DeleteRequest /\ HandleDatabaseRequest(s)
  <2>1. srv'[s].msg.type = "DeleteFile" /\ srv'[s].pc = "open" /\ AnswersNeither(s)
    BY <1>3 DEF HandleDatabaseRequest, Go, AnswersNeither, WiresTypeOK, DeleteRequest
  <2> QED
    BY <1>3, <2>1 DEF HandleDatabaseRequest, TaskEffect, LeavesDisk, KeepsUpload, DiskUnchanged,
                      storeVars
<1>4. CASE OpenDatabase(s)
  <2>1. DiskUnchanged /\ srv[s].pc = "open"
    BY <1>4 DEF OpenDatabase, DiskUnchanged, storeVars
  <2>2. CASE Fail(s)
    BY <2>1, <2>2, FailLeaves DEF TaskEffect, LeavesDisk, KeepsUpload
  <2>3. CASE srv' = [srv EXCEPT ![s].pc = AfterOpen(srv[s].msg)] /\ UNCHANGED toClient
    <3>1. /\ srv'[s].pc = AfterOpen(srv[s].msg)
          /\ srv'[s].msg = srv[s].msg /\ srv'[s].md = srv[s].md
      BY <2>3, TaskFields DEF WiresTypeOK
    <3>2. AfterOpen(srv[s].msg) # "remove"
      BY DEF AfterOpen
    <3> QED
      BY <2>1, <2>3, <3>1, <3>2 DEF TaskEffect, LeavesDisk, KeepsUpload, AnswersNeither
  <2> QED
    BY <1>4, <2>2, <2>3 DEF OpenDatabase
<1>5. CASE CreateEntry(s)
  <2> DEFINE md == srv[s].md
  <2>1. srv[s] \in CreatingTask /\ srv[s].pc = "create"
    BY <1>5, TaskByPc DEF CreateEntry, TypeOK, ServerTypeOK
  <2>2. md \in Metadata /\ srv[s].msg.type = "UploadNewFile"
    BY <2>1, UploadsAsk DEF CreatingTask, EditRequest, AppendRequest, UploadRequest, OnlyAsked
  <2>3. Holds(s, "task", md)
    BY <2>1, <2>2 DEF Holds
  <2>4. /\ srv'[s].pc = "wait"
        /\ toClient'[s] = toClient[s] \/ toClient'[s] = [type |-> "CompactCommit", md |-> md]
    BY <1>5, ReplyLeaves DEF CreateEntry
  <2>5. AddsEntry(s, md)
    BY <1>5, <2>3, <2>4 DEF AddsEntry, CreateEntry
  <2> QED
    BY <2>2, <2>5 DEF TaskEffect
<1>6. CASE srv[s] \in DeletingTask /\ srv[s].msg \in DeleteRequest /\ DeleteEntry(s)
  <2> DEFINE found == EntryToDelete(srv[s].msg) \in DOMAIN table
  <2>1. srv[s].msg.type = "DeleteFile"
    BY <1>6 DEF DeleteRequest
  <2>2. EntryToDelete(srv[s].msg) = srv[s].msg.md.id
    BY <2>1 DEF EntryToDelete
  <2>3. srv' = [srv EXCEPT ![s].pc = "remove", ![s].found = found] /\ UNCHANGED toClient
    BY <1>6, <2>1 DEF DeleteEntry
  <2>4. srv'[s].pc = "remove"
    <3>1. srv'[s] = [srv[s] EXCEPT !.pc = "remove", !.found = found]
      BY <2>3 DEF WiresTypeOK
    <3> QED
      BY <3>1, TaskFields DEF WiresTypeOK
  <2>5. TakesEntry(s)
    BY <1>6, <2>2, <2>3, <2>4 DEF DeleteEntry, TakesEntry, AnswersNeither
  <2> QED
    BY <2>5 DEF TaskEffect
<1>7. CASE srv[s] \in RemovingTask /\ srv[s].msg \in DeleteRequest /\ RemoveFile(s)
  <2>1. srv[s].msg.type = "DeleteFile"
    BY <1>7 DEF DeleteRequest
  <2>2. FileToRemove(srv[s].msg) = srv[s].msg.md.id
    BY <2>1 DEF FileToRemove
  <2>3. srv'[s].pc = "wait" /\ (toClient'[s] = toClient[s] \/ toClient'[s].type # "CompactCommit")
    <3>1. Reply(s, [type |-> "FileDeleted"]) \/ Fail(s)
      BY <1>7, <2>1 DEF RemoveFile
    <3> QED
      BY <3>1, ReplyLeaves, FailLeaves DEF AnswersNeither
  <2>4. TakesFile(s)
    BY <1>7, <2>2, <2>3 DEF RemoveFile, TakesFile
  <2> QED
    BY <2>4 DEF TaskEffect
<1>8. CASE EndOfStream(s)
  BY <1>8 DEF EndOfStream, serverVars, TaskEffect, LeavesDisk, KeepsUpload, DiskUnchanged,
              AnswersNeither
<1> QED
  BY <1>1, <1>2, <1>3, <1>4, <1>5, <1>6, <1>7, <1>8, TaskSteps

-----------------------------------------------------------------------------
(* Every step keeps the store.                                             *)

\* A deletion that found its entry has taken it, and nothing brings it back.
EntryGone ==
  \A s \in Slots :
    srv[s].pc = "remove" /\ srv[s].msg.type = "DeleteFile" =>
      srv[s].msg.md.id \notin DOMAIN table

\* A task lets nothing more be deleted: it takes the deletion that was sent.
LEMMA TaskDeletes ==
  ASSUME NEW s \in Slots, TaskMoves(s), ProcessesUnchanged
  PROVE  DeletablesKept
BY DEF TaskMoves, OthersUnchanged, ProcessesUnchanged, DeletablesKept, Deletable, Recorded,
       Deleting

\* A task that adds no entry answers no commitment.
LEMMA TaskHolders ==
  ASSUME NEW s \in Slots, TaskMoves(s), ProcessesUnchanged,
         NEW t \in Slots, NEW q \in Holders, NEW m \in Metadata, Holds(t, q, m)'
  PROVE  \/ Holds(t, q, m)
         \/ t = s /\ q = "task"
         \/ t = s /\ q = "answer" /\ toClient'[s] # toClient[s]
<1>1. CASE t # s
  BY <1>1 DEF TaskMoves, OthersUnchanged, ProcessesUnchanged, Holds
<1>2. CASE t = s /\ q = "answer"
  BY <1>2 DEF Holds
<1>3. CASE t = s /\ q = "process"
  BY <1>3 DEF Holds, ProcessesUnchanged
<1> QED
  BY <1>1, <1>2, <1>3 DEF Holders

\* The deletion that a task works on can be deleted.
LEMMA TaskDeleting ==
  ASSUME NEW s \in Slots, srv[s].pc # "wait", srv[s].msg \in DeleteRequest
  PROVE  srv[s].msg.md.id \in Ids /\ Deletable(srv[s].msg.md.id)
<1>1. srv[s].msg.type = "DeleteFile" /\ srv[s].msg.md.id \in Ids
  BY DEF DeleteRequest, Metadata
<1> QED
  BY <1>1 DEF Deletable, Deleting

\* The steps of the tasks keep the store.
LEMMA TaskStore ==
  ASSUME StoreOK, EntryGone, NEW s \in Slots, TaskEffect(s), TaskMoves(s), ProcessesUnchanged
  PROVE  StoreOK'
<1>1. DeletablesKept
  BY TaskDeletes
<1>2. "task" \in Holders /\ "answer" \in Holders
  BY DEF Holders
<1>3. ASSUME NEW md \in Metadata, StoresFile(s, md)
      PROVE  StoreOK'
  <2>1. \A t \in Slots, q \in Holders, m \in Metadata :
          Holds(t, q, m)' => Holds(t, q, m) \/ (t = s /\ q = "task" /\ m = md)
    <3> SUFFICES ASSUME NEW t \in Slots, NEW q \in Holders, NEW m \in Metadata, Holds(t, q, m)'
                 PROVE  Holds(t, q, m) \/ (t = s /\ q = "task" /\ m = md)
      OBVIOUS
    <3>1. CASE t = s /\ q = "task"
      BY <1>3, <3>1 DEF StoresFile, Holds
    <3>2. CASE t = s /\ q = "answer" /\ toClient'[s] # toClient[s]
      BY <1>3, <3>2 DEF StoresFile, AnswersNeither, Holds
    <3> QED
      BY <3>1, <3>2, TaskHolders
  <2> QED
    BY <1>1, <1>3, <2>1, StoreDrawn DEF StoresFile
<1>4. ASSUME NEW md \in Metadata, AddsEntry(s, md)
      PROVE  StoreOK'
  <2>1. Stored(md)
    BY <1>2, <1>4 DEF AddsEntry, StoreOK, HeldStored
  <2>2. DOMAIN table' = DOMAIN table \cup {md.id} /\ UNCHANGED <<files, issued>>
    BY <1>4 DEF AddsEntry, Put
  <2>3. DOMAIN table \subseteq DOMAIN table' /\ EntryHasFile'
    BY <2>1, <2>2 DEF Stored, StoreOK, EntryHasFile
  <2>4. \A m \in Metadata : ~ Holds(s, "task", m)'
    BY <1>4 DEF AddsEntry, Holds
  <2>5. \A t \in Slots, q \in Holders, m \in Metadata :
          Holds(t, q, m)' =>
            \/ Holds(t, q, m)
            \/ t = s /\ q = "answer" /\ Holds(s, "task", m) /\ m.id \in DOMAIN table'
    <3> SUFFICES ASSUME NEW t \in Slots, NEW q \in Holders, NEW m \in Metadata, Holds(t, q, m)'
                 PROVE  \/ Holds(t, q, m)
                        \/ t = s /\ q = "answer" /\ Holds(s, "task", m) /\ m.id \in DOMAIN table'
      OBVIOUS
    <3>1. ~ (t = s /\ q = "task")
      BY <2>4
    <3>2. CASE t = s /\ q = "answer" /\ toClient'[s] # toClient[s]
      <4>1. m = md
        BY <1>4, <3>2 DEF AddsEntry, Holds
      <4> QED
        BY <1>4, <2>2, <3>2, <4>1 DEF AddsEntry
    <3> QED
      BY <3>1, <3>2, TaskHolders
  <2> QED
    BY <1>1, <1>2, <2>2, <2>3, <2>4, <2>5, StoreMoved
<1>5. CASE TakesEntry(s) \/ TakesFile(s) \/ LeavesDisk(s)
  <2>1. HoldersKept
    <3> SUFFICES ASSUME NEW t \in Slots, NEW q \in Holders, NEW m \in Metadata, Holds(t, q, m)'
                 PROVE  Holds(t, q, m)
      BY DEF HoldersKept
    <3>1. CASE t = s /\ q = "task"
      BY <1>5, <3>1 DEF TakesEntry, TakesFile, LeavesDisk, KeepsUpload, Holds
    <3>2. CASE t = s /\ q = "answer" /\ toClient'[s] # toClient[s]
      BY <1>5, <3>2 DEF TakesEntry, TakesFile, LeavesDisk, AnswersNeither, Holds
    <3> QED
      BY <3>1, <3>2, TaskHolders
  <2>2. CASE LeavesDisk(s)
    BY <1>1, <2>1, <2>2, StoreKept DEF LeavesDisk
  <2>3. CASE TakesEntry(s)
    <3>1. srv[s].msg.md.id \in Ids /\ Deletable(srv[s].msg.md.id)
      BY <2>3, TaskDeleting DEF TakesEntry
    <3> QED
      BY <1>1, <2>1, <2>3, <3>1, StoreDeleted DEF TakesEntry
  <2>4. CASE TakesFile(s)
    <3>1. srv[s].msg.md.id \in Ids /\ Deletable(srv[s].msg.md.id)
      BY <2>4, TaskDeleting DEF TakesFile
    <3>2. srv[s].msg.md.id \notin DOMAIN table
      BY <2>4 DEF TakesFile, DeleteRequest, EntryGone
    <3> QED
      BY <1>1, <2>1, <2>4, <3>1, <3>2, StoreDeleted DEF TakesFile
  <2> QED
    BY <1>5, <2>2, <2>3, <2>4
<1> QED
  BY <1>3, <1>4, <1>5 DEF TaskEffect

\* What is under deletion and has no file or no entry gets none again.
LEMMA GoneStays ==
  ASSUME StoreOK, NEW s \in Slots, TaskEffect(s), NEW id \in Ids, Deletable(id)
  PROVE  /\ id \notin DOMAIN files => id \notin DOMAIN files'
         /\ id \notin DOMAIN table => id \notin DOMAIN table'
<1>1. ASSUME NEW md \in Metadata, StoresFile(s, md)
      PROVE  id # md.id
  BY <1>1 DEF StoresFile, StoreOK, DeletableDrawn
<1>2. ASSUME NEW md \in Metadata, AddsEntry(s, md)
      PROVE  id # md.id
  BY <1>2 DEF AddsEntry, StoreOK, HeldStored, Holders
<1> QED
  BY <1>1, <1>2
  DEF TaskEffect, StoresFile, AddsEntry, TakesEntry, TakesFile, LeavesDisk, DiskUnchanged, Put, Drop

\* The steps of the processes keep the store.
LEMMA ProcessStore ==
  ASSUME TypeOK, OnlyAsked, OnlyUploads, StoreOK, NEW s \in Slots,
         ProcessSteps(s), ProcessMoves(s), DiskUnchanged, UNCHANGED srv
  PROVE  StoreOK'
<1> DEFINE RecordsNew(id) ==
      /\ sess[s].pc = "dbCreate" /\ sess[s].req.type = "UploadNewFile" /\ id = sess[s].new.id
      /\ sess'[s] = IdleProcess
<1>1. \A id \in Ids : Deletable(id)' => Deletable(id) \/ RecordsNew(id)
  <2> SUFFICES ASSUME NEW id \in Ids, Deletable(id)'
               PROVE  Deletable(id) \/ RecordsNew(id)
    OBVIOUS
  <2>1. ASSUME Recorded(id)'
        PROVE  Recorded(id) \/ RecordsNew(id)
    <3>1. CASE UNCHANGED clientDb
      BY <2>1, <3>1 DEF Recorded
    <3>2. ASSUME NEW k, clientDb' = Drop(clientDb, k)
          PROVE  Recorded(id)
      BY <2>1, <3>2 DEF Recorded, Drop
    <3>3. ASSUME clientDb' = Put(clientDb, sess[s].new.id, sess[s].new)
          PROVE  Recorded(id) \/ id = sess[s].new.id
      BY <2>1, <3>3 DEF Recorded, Put
    <3> QED
      BY <3>1, <3>2, <3>3 DEF ProcessSteps
  <2>2. ASSUME Deleting(id)'
        PROVE  Deleting(id)
    <3>1. PICK t \in Slots :
            \/ toServer'[t] # None /\ toServer'[t].type = "DeleteFile" /\ toServer'[t].md.id = id
            \/ srv'[t].pc # "wait" /\ srv'[t].msg.type = "DeleteFile" /\ srv'[t].msg.md.id = id
            \/ sess'[t].pc # "idle" /\ sess'[t].req.type = "DeleteFile" /\ sess'[t].req.md.id = id
      BY <2>2 DEF Deleting
    <3>2. CASE t # s
      BY <3>1, <3>2 DEF Deleting, ProcessMoves, OthersUnchanged
    <3>3. CASE t = s
      BY <3>1, <3>3 DEF Deleting, ProcessMoves, IdleProcess
    <3> QED
      BY <3>2, <3>3
  <2> QED
    BY <2>1, <2>2 DEF Deletable
<1>2. ASSUME NEW t \in Slots, NEW q \in Holders, NEW m \in Metadata, Holds(t, q, m)',
             ~ (t = s /\ q = "process")
      PROVE  Holds(t, q, m)
  <2>1. CASE t # s
    BY <1>2, <2>1 DEF ProcessMoves, OthersUnchanged, Holds
  <2>2. CASE t = s /\ q \in {"task", "answer"}
    BY <1>2, <2>2 DEF ProcessMoves, Holds
  <2> QED
    BY <1>2, <2>1, <2>2 DEF Holders
<1>3. "process" \in Holders /\ "answer" \in Holders
  BY DEF Holders
<1>4. CASE /\ sess[s].req.type = "UploadNewFile" /\ UNCHANGED clientDb
           /\ toClient[s] # None /\ toClient[s].type = "CompactCommit" /\ toClient'[s] = None
           /\ sess'[s].pc = "columns" /\ sess'[s].new = toClient[s].md
  <2>1. \A m \in Metadata : ~ Holds(s, "answer", m)'
    BY <1>4 DEF Holds
  <2>2. \A m \in Metadata : Holds(s, "process", m)' => Holds(s, "answer", m)
    BY <1>4 DEF Holds
  <2>3. \A m \in Metadata : Holds(s, "answer", m) => m.id \in DOMAIN table'
    BY <1>3 DEF StoreOK, HeldStored, DiskUnchanged
  <2>4. \A t \in Slots, q \in Holders, m \in Metadata :
          Holds(t, q, m)' =>
            \/ Holds(t, q, m)
            \/ t = s /\ q = "process" /\ Holds(s, "answer", m) /\ m.id \in DOMAIN table'
    BY <1>2, <2>2, <2>3
  <2>5. DeletablesKept
    BY <1>1, <1>4 DEF DeletablesKept, IdleProcess
  <2>6. UNCHANGED <<files, issued>> /\ DOMAIN table \subseteq DOMAIN table' /\ EntryHasFile'
    BY DEF DiskUnchanged, StoreOK, EntryHasFile
  <2> QED
    BY <1>3, <2>1, <2>4, <2>5, <2>6, StoreMoved
<1>5. CASE /\ \A m \in Metadata : Holds(s, "process", m)' => Holds(s, "process", m)
           /\ \A id \in Ids : ~ RecordsNew(id)
  <2>1. HoldersKept
    BY <1>2, <1>5 DEF HoldersKept
  <2>2. DeletablesKept
    BY <1>1, <1>5 DEF DeletablesKept
  <2> QED
    BY <2>1, <2>2, StoreKept
<1>6. CASE /\ sess[s].pc = "dbCreate" /\ sess[s].req.type = "UploadNewFile"
           /\ sess'[s] = IdleProcess
  <2>1. sess[s].new \in Metadata
    <3>1. sess[s] \in Process /\ sess[s].pc = "dbCreate"
      BY <1>6 DEF TypeOK, ClientTypeOK
    <3>2. sess[s] \in Records
      BY <3>1, ProcessByPc
    <3> QED
      BY <3>2 DEF Records
  <2>2. Holds(s, "process", sess[s].new)
    BY <1>6 DEF Holds
  <2>3. \A m \in Metadata : ~ Holds(s, "process", m)'
    BY <1>6 DEF Holds, IdleProcess
  <2>4. HoldersKept
    BY <1>2, <2>3 DEF HoldersKept
  <2>5. \A id \in Ids : Deletable(id)' => Deletable(id) \/ id = sess[s].new.id
    BY <1>1
  <2> QED
    BY <2>1, <2>2, <2>3, <2>4, <2>5, StoreRecorded
<1>7. ASSUME \/ sess[s].req.type \in {"RequestFile", "RequestProof", "DeleteFile"}
             \/ sess'[s] = IdleProcess
      PROVE  \A m \in Metadata : ~ Holds(s, "process", m)'
  BY <1>7 DEF ProcessMoves, Holds, IdleProcess
<1>8. ASSUME \/ sess[s].pc = "columns" /\ sess'[s].pc = "dbOpen" /\ sess'[s].new = sess[s].new
             \/ sess[s].pc = "dbOpen" /\ sess'[s].pc = "dbCreate" /\ sess'[s].new = sess[s].new
      PROVE  /\ \A m \in Metadata : Holds(s, "process", m)' => Holds(s, "process", m)
             /\ sess'[s] # IdleProcess
  BY <1>8 DEF ProcessMoves, Holds, IdleProcess
<1> QED
  BY <1>4, <1>5, <1>6, <1>7, <1>8 DEF ProcessSteps

-----------------------------------------------------------------------------
(* Turns of an upload and of a deletion.                                   *)

\* The server has nothing under the Ulid id.
Gone(id) == id \notin DOMAIN files /\ id \notin DOMAIN table

\* An upload that reached the database was proved against the local file.
ProvedBeforeRecord ==
  \A s \in Slots :
    sess[s].pc \in {"dbOpen", "dbCreate"} /\ sess[s].req.type = "UploadNewFile" =>
      sess[s].new.root = Commit(sess[s].req.data, sess[s].req.dims)

\* A process that deletes has one request under way, the one of its operation,
\* and is told that the file is deleted only when nothing of it is left.
DeletionTurn ==
  \A s \in Slots :
    /\ sess[s].pc = "deletion" =>
         /\ toServer[s] # None => toServer[s] = sess[s].req
         /\ srv[s].pc # "wait" => srv[s].msg = sess[s].req
         /\ toClient[s] # None /\ toClient[s].type = "FileDeleted" => Gone(sess[s].req.md.id)
    /\ sess[s].pc \in {"dbOpen", "dbDelete"} /\ sess[s].req.type = "DeleteFile" =>
         Gone(sess[s].req.md.id)

\* The invariant that the theorems rest on.
UploadInv ==
  DirectoryInv /\ StoreOK /\ EntryGone /\ ProvedBeforeRecord /\ DeletionTurn

\* The file of a process that deletes can be deleted.
LEMMA ProcessDeleting ==
  ASSUME TypeOK, NEW s \in Slots,
         sess[s].pc = "deletion"
           \/ (sess[s].pc \in {"dbOpen", "dbDelete"} /\ sess[s].req.type = "DeleteFile")
  PROVE  /\ sess[s].req \in DeleteRequest /\ sess[s].req.type = "DeleteFile"
         /\ sess[s].req.md.id \in Ids /\ Deletable(sess[s].req.md.id)
<1>1. sess[s] \in Process /\ sess[s].pc # "idle"
  BY DEF TypeOK, ClientTypeOK
<1>2. sess[s].req \in DeleteRequest
  <2>1. CASE sess[s].pc = "deletion"
    BY <1>1, <2>1, ProcessByPc DEF AwaitsDeletion
  <2>2. CASE sess[s].pc \in {"dbOpen", "dbDelete"} /\ sess[s].req.type = "DeleteFile"
    BY <1>1, <2>2, ProcessByPc, RequestTypes DEF Records, Forgets, Replaces
  <2> QED
    BY <2>1, <2>2
<1>3. sess[s].req.type = "DeleteFile" /\ sess[s].req.md.id \in Ids
  BY <1>2 DEF DeleteRequest, Metadata
<1> QED
  BY <1>1, <1>2, <1>3 DEF Deletable, Deleting

\* At the start nothing is stored and nothing is under way.
LEMMA UploadInit ==
  ASSUME WithoutChanges
  PROVE  Init => UploadInv
<1>1. Init => DirectoryInv
  BY InitType, AskedInit, ConnectionsInit, ReshapeTurnInit, PendingInit DEF DirectoryInv
<1>2. Init => StoreOK
  BY DEF Init, NetInit, ServerInit, EmptyMap, IdleTask, IdleProcess, StoreOK, HeldOnce,
         HeldStored, DeletableDrawn, FilesDrawn, EntryHasFile, Holds, Deletable, Recorded, Deleting
<1>3. Init => EntryGone /\ ProvedBeforeRecord /\ DeletionTurn
  BY DEF Init, NetInit, ServerInit, IdleTask, IdleProcess, EntryGone, ProvedBeforeRecord,
         DeletionTurn
<1> QED
  BY <1>1, <1>2, <1>3 DEF UploadInv

\* A step of a task keeps the turns of all processes.
LEMMA TaskTurns ==
  ASSUME UploadInv, TypeOK', NEW s \in Slots, TaskEffect(s), TaskMoves(s), ProcessesUnchanged
  PROVE  EntryGone' /\ ProvedBeforeRecord' /\ DeletionTurn'
<1> USE DEF UploadInv
<1>1. TypeOK
  BY DEF DirectoryInv
<1>2. ASSUME NEW id \in Ids, Deletable(id)
      PROVE  /\ id \notin DOMAIN files => id \notin DOMAIN files'
             /\ id \notin DOMAIN table => id \notin DOMAIN table'
  BY <1>2, GoneStays
<1>3. EntryGone'
  <2> SUFFICES ASSUME NEW t \in Slots, srv'[t].pc = "remove", srv'[t].msg.type = "DeleteFile"
               PROVE  srv'[t].msg.md.id \notin DOMAIN table'
    BY DEF EntryGone
  <2>1. CASE t # s
    <3>1. srv'[t] = srv[t]
      BY <2>1 DEF TaskMoves
    <3>2. srv[t].msg \in DeleteRequest
      <4>1. srv[t] \in RemovingTask
        BY <3>1, <1>1, TaskByPc DEF TypeOK, ServerTypeOK
      <4> QED
        BY <3>1, <4>1 DEF RemovingTask, VersionResponse
    <3>3. srv[t].msg.md.id \in Ids /\ Deletable(srv[t].msg.md.id)
      BY <3>1, <3>2, TaskDeleting
    <3> QED
      BY <1>2, <3>1, <3>3 DEF EntryGone
  <2>2. CASE t = s
    <3>1. TakesEntry(s)
      BY <2>2 DEF TaskEffect, StoresFile, AddsEntry, TakesFile, LeavesDisk
    <3>2. srv[s].pc # "wait" /\ srv'[s].msg = srv[s].msg
      BY <2>2 DEF TaskMoves
    <3> QED
      BY <2>2, <3>1, <3>2 DEF TakesEntry, Drop
  <2> QED
    BY <2>1, <2>2
<1>4. ProvedBeforeRecord'
  BY DEF ProvedBeforeRecord, ProcessesUnchanged
<1>5. ASSUME NEW t \in Slots, sess[t].pc = "deletion"
      PROVE  /\ toServer'[t] # None => toServer'[t] = sess[t].req
             /\ srv'[t].pc # "wait" => srv'[t].msg = sess[t].req
             /\ toClient'[t] # None /\ toClient'[t].type = "FileDeleted" =>
                  Gone(sess[t].req.md.id)'
  <2>1. /\ toServer[t] # None => toServer[t] = sess[t].req
        /\ srv[t].pc # "wait" => srv[t].msg = sess[t].req
        /\ toClient[t] # None /\ toClient[t].type = "FileDeleted" => Gone(sess[t].req.md.id)
    BY <1>5 DEF DeletionTurn
  <2>2. sess[t].req.md.id \in Ids /\ Deletable(sess[t].req.md.id)
    BY <1>1, <1>5, ProcessDeleting
  <2>3. UNCHANGED sess
    BY DEF ProcessesUnchanged
  <2>4. CASE t # s
    BY <1>2, <2>1, <2>2, <2>3, <2>4 DEF TaskMoves, OthersUnchanged, Gone
  <2>5. CASE t = s
    <3>1. /\ toServer'[s] # None => toServer'[s] = sess[s].req
          /\ srv'[s].pc # "wait" => srv'[s].msg = sess[s].req
      BY <2>1, <2>5 DEF TaskMoves
    <3>2. ASSUME toClient'[s] # None, toClient'[s].type = "FileDeleted"
          PROVE  Gone(sess[s].req.md.id)'
      <4>1. CASE toClient'[s] = toClient[s]
        BY <1>2, <2>1, <2>2, <2>3, <2>5, <3>2, <4>1 DEF Gone
      <4>2. CASE toClient'[s] # toClient[s]
        <5>1. TakesFile(s)
          BY <3>2, <4>2
          DEF TaskEffect, StoresFile, AddsEntry, TakesEntry, LeavesDisk, AnswersNeither
        <5>2. srv[s].msg = sess[s].req
          BY <2>1, <2>5, <5>1 DEF TakesFile
        <5>3. srv[s].msg.md.id \notin DOMAIN table
          BY <5>1 DEF TakesFile, DeleteRequest, EntryGone
        <5>4. srv[s].msg.md.id \notin DOMAIN files' /\ UNCHANGED table
          BY <5>1 DEF TakesFile, Drop
        <5> QED
          BY <2>3, <5>2, <5>3, <5>4 DEF Gone
      <4> QED
        BY <4>1, <4>2
    <3> QED
      BY <2>5, <3>1, <3>2
  <2> QED
    BY <2>4, <2>5
<1>6. ASSUME NEW t \in Slots, sess[t].pc \in {"dbOpen", "dbDelete"}, sess[t].req.type = "DeleteFile"
      PROVE  Gone(sess[t].req.md.id)'
  <2>1. sess[t].req.md.id \in Ids /\ Deletable(sess[t].req.md.id)
    BY <1>1, <1>6, ProcessDeleting
  <2>2. Gone(sess[t].req.md.id)
    BY <1>6 DEF DeletionTurn
  <2>3. UNCHANGED sess
    BY DEF ProcessesUnchanged
  <2> QED
    BY <1>2, <2>1, <2>2, <2>3 DEF Gone
<1>7. DeletionTurn'
  BY <1>5, <1>6 DEF DeletionTurn, ProcessesUnchanged
<1> QED
  BY <1>3, <1>4, <1>7

\* A step of a process keeps the turns of all processes.
LEMMA ProcessTurns ==
  ASSUME UploadInv, TypeOK', NEW s \in Slots, ProcessSteps(s), ProcessMoves(s),
         DiskUnchanged, UNCHANGED srv
  PROVE  EntryGone' /\ ProvedBeforeRecord' /\ DeletionTurn'
<1> USE DEF UploadInv
<1>1. \A id : Gone(id)' = Gone(id)
  BY DEF Gone, DiskUnchanged
<1>2. EntryGone'
  BY DEF EntryGone, DiskUnchanged
<1>3. \A t \in Slots \ {s} :
        /\ sess'[t] = sess[t] /\ toServer'[t] = toServer[t] /\ toClient'[t] = toClient[t]
  BY DEF ProcessMoves, OthersUnchanged
<1>4. sess'[s] = IdleProcess \/ sess'[s].req = sess[s].req
  BY DEF ProcessMoves
<1>5. sess'[s].pc \in {"dbOpen", "dbCreate"} /\ sess'[s].req.type = "UploadNewFile" =>
        sess'[s].new.root = Commit(sess'[s].req.data, sess'[s].req.dims)
  BY <1>4 DEF ProcessSteps, ProvedBeforeRecord, IdleProcess
<1>6. ProvedBeforeRecord'
  BY <1>3, <1>5 DEF ProvedBeforeRecord
<1>7. sess'[s].pc # "deletion"
  <2> SUFFICES ASSUME sess'[s].pc = "deletion"
               PROVE  FALSE
    OBVIOUS
  <2>1. sess'[s] \in Process
    BY DEF TypeOK, ClientTypeOK
  <2>2. sess'[s].req \in DeleteRequest
    BY <2>1, ProcessByPc DEF AwaitsDeletion
  <2>3. sess'[s] # IdleProcess /\ sess[s].req.type = "DeleteFile"
    BY <1>4, <2>2 DEF DeleteRequest, IdleProcess
  <2> QED
    BY <2>3 DEF ProcessSteps
<1>8. sess'[s].pc \in {"dbOpen", "dbDelete"} /\ sess'[s].req.type = "DeleteFile" =>
        Gone(sess'[s].req.md.id)
  BY <1>4 DEF ProcessSteps, DeletionTurn, IdleProcess
<1>9. DeletionTurn'
  BY <1>1, <1>3, <1>7, <1>8 DEF DeletionTurn
<1> QED
  BY <1>2, <1>6, <1>9

\* The start of an operation keeps the store and the turns: a client deletes
\* what it has on record.
LEMMA StartUploads ==
  ASSUME UploadInv, NEW s \in Slots, StartMoves(s), DiskUnchanged, UNCHANGED <<srv, clientDb>>
  PROVE  StoreOK' /\ EntryGone' /\ ProvedBeforeRecord' /\ DeletionTurn'
<1> USE DEF UploadInv
<1>1. toClient'[s] = None /\ srv[s].pc = "wait"
  BY DEF DirectoryInv, ConnectionsOK, StartMoves
<1>2. DeletablesKept
  <2> SUFFICES ASSUME NEW id \in Ids, Deleting(id)'
               PROVE  Deletable(id)
    BY DEF DeletablesKept, Deletable, Recorded
  <2>1. CASE Deleting(id)
    BY <2>1 DEF Deletable
  <2>2. CASE ~ Deleting(id)
    <3>1. toServer'[s].type = "DeleteFile" /\ toServer'[s].md.id = id
      BY <2>2 DEF Deleting, StartMoves, OthersUnchanged
    <3> QED
      BY <3>1 DEF StartMoves, Deletable, Recorded
  <2> QED
    BY <2>1, <2>2
<1>3. HoldersKept
  BY <1>1 DEF HoldersKept, Holds, StartMoves, OthersUnchanged
<1>4. StoreOK'
  BY <1>2, <1>3, StoreKept
<1>5. EntryGone'
  BY DEF EntryGone, DiskUnchanged
<1>6. ProvedBeforeRecord'
  BY DEF ProvedBeforeRecord, StartMoves
<1>7. DeletionTurn'
  <2>1. \A id : Gone(id)' = Gone(id)
    BY DEF Gone, DiskUnchanged
  <2> QED
    BY <1>1, <2>1 DEF DeletionTurn, StartMoves, OthersUnchanged
<1> QED
  BY <1>4, <1>5, <1>6, <1>7

\* A crash loses what the tasks have in hand, and nothing of the disk.
LEMMA CrashUploads ==
  ASSUME UploadInv, ServerCrash, DiskUnchanged, ProcessesUnchanged
  PROVE  StoreOK' /\ EntryGone' /\ ProvedBeforeRecord' /\ DeletionTurn'
<1> USE DEF UploadInv, ServerCrash, ProcessesUnchanged, IdleTask
<1>1. DeletablesKept
  BY DEF DeletablesKept, Deletable, Recorded, Deleting
<1>2. HoldersKept
  BY DEF HoldersKept, Holds
<1>3. StoreOK'
  BY <1>1, <1>2, StoreKept
<1>4. \A id : Gone(id)' = Gone(id)
  BY DEF Gone, DiskUnchanged
<1>5. EntryGone' /\ ProvedBeforeRecord'
  BY DEF EntryGone, ProvedBeforeRecord
<1>6. DeletionTurn'
  BY <1>4 DEF DeletionTurn
<1> QED
  BY <1>3, <1>5, <1>6

\* A step that changes nothing keeps everything.
LEMMA StutterUploads ==
  ASSUME UploadInv, UNCHANGED vars
  PROVE  StoreOK' /\ EntryGone' /\ ProvedBeforeRecord' /\ DeletionTurn'
<1> USE DEF UploadInv, vars, netVars, serverVars, clientVars
<1>1. DeletablesKept /\ HoldersKept /\ DiskUnchanged
  BY DEF DeletablesKept, Deletable, Recorded, Deleting, HoldersKept, Holds, DiskUnchanged
<1>2. StoreOK'
  BY <1>1, StoreKept
<1>3. EntryGone' /\ ProvedBeforeRecord' /\ DeletionTurn'
  BY DEF EntryGone, ProvedBeforeRecord, DeletionTurn, Gone
<1> QED
  BY <1>2, <1>3

\* The strengthened invariant is inductive.
LEMMA UploadInvariant ==
  ASSUME OnlyUploads
  PROVE  Spec => []UploadInv
<1>1. WithoutChanges
  BY UploadsAsk
<1>2. Init => UploadInv
  BY <1>1, UploadInit
<1>3. UploadInv /\ [Next]_vars => UploadInv'
  <2> SUFFICES ASSUME UploadInv, [Next]_vars
               PROVE  UploadInv'
    OBVIOUS
  <2>1. TypeOK /\ OnlyAsked /\ ConnectionsOK /\ ReshapeTurn /\ PendingOK /\ WiresTypeOK
    BY WiresTyped DEF UploadInv, DirectoryInv
  <2>2. StepKinds
    BY <1>1, <2>1, NextKinds
  <2>3. TypeOK'
    BY <2>1, NextType
  <2>4. DirectoryInv'
    BY <1>1, <2>1, <2>2, <2>3, AskedStep, ConnectionsStep, ReshapeTurnStep, PendingStep
    DEF DirectoryInv
  <2>5. StoreOK' /\ EntryGone' /\ ProvedBeforeRecord' /\ DeletionTurn'
    <3>1. ASSUME NEW s \in Slots, ServerStep(s), TaskMoves(s), ProcessesUnchanged
          PROVE  StoreOK' /\ EntryGone' /\ ProvedBeforeRecord' /\ DeletionTurn'
      <4>1. TaskEffect(s)
        BY <2>1, <3>1, TaskEffects
      <4> QED
        BY <2>3, <3>1, <4>1, TaskStore, TaskTurns DEF UploadInv
    <3>2. ASSUME NEW s \in Slots, ClientStep(s) \/ ClientAbort(s), ProcessMoves(s),
                 DiskUnchanged, UNCHANGED srv
          PROVE  StoreOK' /\ EntryGone' /\ ProvedBeforeRecord' /\ DeletionTurn'
      <4>1. ProcessSteps(s)
        BY <2>1, <3>2, ClientSteps
      <4> QED
        BY <2>1, <2>3, <3>2, <4>1, ProcessStore, ProcessTurns DEF UploadInv
    <3> QED
      BY <2>2, <3>1, <3>2, StartUploads, CrashUploads, StutterUploads DEF StepKinds
  <2> QED
    BY <2>4, <2>5 DEF UploadInv
<1> QED
  BY <1>2, <1>3, PTL DEF Spec

-----------------------------------------------------------------------------
(* What a user expects.                                                    *)

\* Every table entry of the server has its file: handle_client_upload_new_file
\* writes the file first and handle_client_delete_file takes the entry first
\* (server.rs), and a crash or a busy database in between, or a deletion by
\* another client, does not change that.
THEOREM EntriesHaveFiles ==
  ASSUME OnlyUploads
  PROVE  Spec => []EntryHasFile
<1>1. UploadInv => EntryHasFile
  BY DEF UploadInv, StoreOK
<1> QED
  BY <1>1, UploadInvariant, PTL

\* upload_file (client.rs) records the metadata only of a file that the server
\* still holds as it was sent, with its entry: nobody can delete a file of
\* which only one place of the system knows the Ulid.
THEOREM UploadsAreHeld ==
  ASSUME OnlyUploads
  PROVE  Spec => []UploadedIsHeld
<1>1. UploadInv => UploadedIsHeld
  <2> SUFFICES ASSUME UploadInv, NEW s \in Slots, sess[s].pc \in {"dbOpen", "dbCreate"},
                      sess[s].req.type = "UploadNewFile"
               PROVE  LET new == sess[s].new IN
                      /\ new.id \in DOMAIN files
                      /\ files[new.id] = sess[s].req.data
                      /\ new.root = Commit(sess[s].req.data, sess[s].req.dims)
                      /\ new.id \in DOMAIN table
    BY DEF UploadedIsHeld, Operation
  <2> DEFINE new == sess[s].new
  <2>1. new \in Metadata
    <3>1. sess[s] \in Records \cup Forgets /\ sess[s].req.type # "DeleteFile"
      BY ProcessByPc DEF UploadInv, DirectoryInv, TypeOK, ClientTypeOK
    <3>2. sess[s] \in Records
      BY <3>1, RequestTypes DEF Forgets
    <3> QED
      BY <3>2 DEF Records
  <2>2. Holds(s, "process", new)
    BY DEF Holds
  <2>3. Stored(new) /\ new.id \in DOMAIN table
    BY <2>1, <2>2 DEF UploadInv, StoreOK, HeldStored, Holders
  <2>4. new.root = Commit(sess[s].req.data, sess[s].req.dims)
    BY DEF UploadInv, ProvedBeforeRecord
  <2> QED
    BY <2>3, <2>4 DEF Stored, Commit
<1> QED
  BY <1>1, UploadInvariant, PTL

\* When delete_file (client.rs) learns that a file is deleted, the server has
\* neither its file nor its entry, and no other handler brings one back before
\* the client has forgotten it.
THEOREM DeletionsAreFinal ==
  ASSUME OnlyUploads
  PROVE  Spec => []DeletedIsGone
<1>1. UploadInv => DeletedIsGone
  BY DEF UploadInv, DeletionTurn, DeletedIsGone, Gone, Operation
<1> QED
  BY <1>1, UploadInvariant, PTL
-----------------------------------------------------------------------------
(* Appends.  A Ulid is drawn for one content, its origin, and all metadata *)
(* with this Ulid commit to it.  The file of that name need not have that  *)
(* content: an accepted version is renamed over the file it was made from. *)
(* But it begins with it, so that a version of the expected size was made  *)
(* from the content that the client knows.                                 *)

\* Files are uploaded, appended to, downloaded, proved and deleted.
OnlyAppends ==
  Operations \subseteq
    {"upload_file", "append_to_file", "download_file", "request_proof", "delete_file"}

-----------------------------------------------------------------------------
(* Contents that begin with others.                                        *)

\* The content c begins with d.
BeginsWith(c, d) == Len(d) <= Len(c) /\ \A i \in 1..Len(d) : c[i] = d[i]

\* Every content begins with itself.
LEMMA BeginsWithItself ==
  ASSUME NEW c \in Content
  PROVE  BeginsWith(c, c)
BY DEF BeginsWith, Content

\* What begins with something begins with what that begins with.
LEMMA BeginsTransitive ==
  ASSUME NEW c \in Content, NEW d \in Content, NEW e \in Content,
         BeginsWith(c, d), BeginsWith(d, e)
  PROVE  BeginsWith(c, e)
<1>1. Len(c) \in Nat /\ Len(d) \in Nat /\ Len(e) \in Nat
  BY DEF Content
<1> QED
  BY <1>1 DEF BeginsWith

\* An append leaves the beginning.
LEMMA BeginsAppended ==
  ASSUME NEW c \in Content, NEW d \in Content, NEW e \in Content, BeginsWith(c, d)
  PROVE  c \o e \in Content /\ BeginsWith(c \o e, d)
<1>1. Len(c) \in Nat /\ Len(d) \in Nat /\ Len(e) \in Nat
  BY DEF Content
<1>2. /\ c \o e \in Content /\ Len(c \o e) = Len(c) + Len(e)
      /\ \A i \in 1..Len(c) : (c \o e)[i] = c[i]
  BY DEF Content
<1> QED
  BY <1>1, <1>2 DEF BeginsWith

\* A content that is no longer than its beginning is its beginning.
LEMMA BeginsEqual ==
  ASSUME NEW c \in Content, NEW d \in Content, BeginsWith(c, d), Len(c) = Len(d)
  PROVE  c = d
BY DEF BeginsWith, Content

-----------------------------------------------------------------------------
(* Origins.  The map o gives the content that each Ulid was drawn for.     *)

\* The metadata commit to the origin of their Ulid.
Genuine(o, md) ==
  /\ md.id \in DOMAIN o
  /\ md.root.data = o[md.id]
  /\ md.size = Len(md.root.data)

\* The metadata are those of a version that the request req asks for, made from
\* a file that begins with what req is about.
IsVersion(o, req, md) ==
  \E c \in Content : BeginsWith(c, o[req.md.id]) /\ md.root.data = c \o req.data

\* The new version is what the request of the client asks for.
Intended(req, new) == new.root.data = req.md.root.data \o req.data

\* A request is about genuine metadata; a version is accepted if it begins with
\* the one it replaces.
RequestOK(o, m) ==
  \/ m \in UploadRequest
  \/ m \in FileRequest \cup ProofRequest \cup DeleteRequest \cup AppendRequest /\ Genuine(o, m.md)
  \/ /\ m.type = "RequestAppendEvaluation" \/ m.type = "EditOrAppendResponse"
     /\ Genuine(o, m.old) /\ Genuine(o, m.new)
     /\ Accepts(m) => BeginsWith(o[m.old.id], o[m.new.id])

\* A task has such a request, wrote a version of its file, and renames for an
\* accepted one only.
TaskOK(o, t) ==
  t.pc # "wait" =>
    /\ RequestOK(o, t.msg)
    /\ t.pc = "rename" => Accepts(t.msg)
    /\ t.pc \in {"open", "create"} /\ t.msg.type \in {"UploadNewFile", "AppendToFile"} =>
         /\ Genuine(o, t.md)
         /\ t.msg.type = "AppendToFile" => IsVersion(o, t.msg, t.md)

\* A commitment that is answered is genuine.
AnswerOK(o, a) ==
  /\ a.type \notin {"ReshapeEvaluation", "EditEvaluation"}
  /\ a.type = "CompactCommit" => Genuine(o, a.md)

\* A process has such a request and knows only intended versions.
ProcessOK(o, p) ==
  p.pc # "idle" =>
    /\ RequestOK(o, p.req)
    /\ /\ p.pc \in {"columns", "evaluation", "dbOpen", "dbCreate", "dbDelete"}
       /\ p.req.type \in {"UploadNewFile", "AppendToFile"}
       => Genuine(o, p.new)
    /\ /\ p.pc \in {"evaluation", "dbOpen", "dbCreate", "dbDelete"}
       /\ p.req.type = "AppendToFile"
       => Intended(p.req, p.new)

\* While a process waits for its version, the task has no other request and
\* answers with no other version.
TurnOK(o, p, m, t, a) ==
  p.pc = "commit" /\ p.req.type = "AppendToFile" =>
    /\ m # None => m = p.req
    /\ t.pc # "wait" => t.msg = p.req
    /\ a # None /\ a.type = "CompactCommit" => IsVersion(o, p.req, a.md)

\* A connection with everything that is under way on it.
LinkOK(o, p, m, t, a) ==
  /\ ProcessOK(o, p)
  /\ m # None => RequestOK(o, m)
  /\ TaskOK(o, t)
  /\ a # None => AnswerOK(o, a)
  /\ TurnOK(o, p, m, t, a)

Links(o) == \A s \in Slots : LinkOK(o, sess[s], toServer[s], srv[s], toClient[s])

\* Every file begins with its origin.
FilesBegin(o) == \A id \in DOMAIN files : id \in DOMAIN o /\ BeginsWith(files[id], o[id])

\* Every record is genuine.
RecordsGenuine(o) == \A id \in DOMAIN clientDb : Genuine(o, clientDb[id])

Origins(o) == DOMAIN o = issued /\ IsMap(o, Ids, Content)

\* There are origins from which everything on disk and under way comes.
FromOrigins ==
  \E o : Origins(o) /\ Links(o) /\ FilesBegin(o) /\ RecordsGenuine(o)

AppendInv == TypeOK /\ ConnectionsOK /\ FromOrigins

-----------------------------------------------------------------------------
(* What a draw and a move of a message leave as it was.                    *)

\* The origins p are those of o, and perhaps that of another Ulid.
Extends(p, o) == \A id \in DOMAIN o : id \in DOMAIN p /\ p[id] = o[id]

\* A request to append is about genuine metadata.
LEMMA AppendRequestOK ==
  ASSUME NEW o, NEW m, RequestOK(o, m), m.type = "AppendToFile"
  PROVE  m \in AppendRequest /\ Genuine(o, m.md)
BY RequestTypes DEF RequestOK

\* What is right with fewer origins is right with more.
LEMMA LinksExtend ==
  ASSUME NEW o, NEW p, Extends(p, o), NEW q, NEW m, NEW t, NEW a, LinkOK(o, q, m, t, a)
  PROVE  LinkOK(p, q, m, t, a)
<1>1. ASSUME NEW md, Genuine(o, md)
      PROVE  Genuine(p, md) /\ p[md.id] = o[md.id]
  BY <1>1 DEF Genuine, Extends
<1>2. ASSUME NEW r, RequestOK(o, r)
      PROVE  RequestOK(p, r)
  BY <1>1, <1>2 DEF RequestOK
<1>3. ASSUME NEW r, NEW md, RequestOK(o, r), r.type = "AppendToFile", IsVersion(o, r, md)
      PROVE  IsVersion(p, r, md)
  <2>1. p[r.md.id] = o[r.md.id]
    BY <1>1, <1>3, AppendRequestOK
  <2> QED
    BY <1>3, <2>1 DEF IsVersion
<1>4. ProcessOK(p, q)
  BY <1>1, <1>2 DEF LinkOK, ProcessOK
<1>5. m # None => RequestOK(p, m)
  BY <1>2 DEF LinkOK
<1>6. TaskOK(p, t)
  BY <1>1, <1>2, <1>3 DEF LinkOK, TaskOK
<1>7. a # None => AnswerOK(p, a)
  BY <1>1 DEF LinkOK, AnswerOK
<1>8. TurnOK(p, q, m, t, a)
  BY <1>3 DEF LinkOK, TurnOK, ProcessOK
<1> QED
  BY <1>4, <1>5, <1>6, <1>7, <1>8 DEF LinkOK

\* A task takes the request that was sent, goes on with the one it has, or ends;
\* and perhaps answers.
LEMMA LinkServed ==
  ASSUME NEW o, NEW q, NEW m, NEW t, NEW a, LinkOK(o, q, m, t, a),
         NEW m2 \in {m, None}, NEW t2, NEW a2, TaskOK(o, t2),
         \/ t2.pc = "wait"
         \/ t.pc # "wait" /\ t2.msg = t.msg
         \/ m # None /\ t2.msg = m,
         \/ a2 = a
         \/ /\ AnswerOK(o, a2)
            /\ \/ a2.type # "CompactCommit"
               \/ t.pc # "wait" /\ (t.msg.type = "AppendToFile" => IsVersion(o, t.msg, a2.md))
  PROVE  LinkOK(o, q, m2, t2, a2)
<1>1. ProcessOK(o, q) /\ (m2 # None => RequestOK(o, m2)) /\ (a2 # None => AnswerOK(o, a2))
  BY DEF LinkOK
<1>2. TurnOK(o, q, m2, t2, a2)
  BY DEF LinkOK, TurnOK
<1> QED
  BY <1>1, <1>2 DEF LinkOK

-----------------------------------------------------------------------------
(* The steps of a task.                                                    *)

LinkAt(o, s) == LinkOK(o, sess[s], toServer[s], srv[s], toClient[s])

\* What the disk and a connection are built on.
Grounded(o, s) == TypeOK /\ Origins(o) /\ FilesBegin(o) /\ LinkAt(o, s)

\* After a step of the task of s there are origins of the same kind.
StaysGrounded(o, s) ==
  \E p : /\ Origins(p)' /\ Extends(p, o) /\ FilesBegin(p)'
         /\ LinkOK(p, sess[s], toServer'[s], srv'[s], toClient'[s])

\* A step that draws no Ulid needs no other origins.
LEMMA SameOrigins ==
  ASSUME NEW o, NEW s \in Slots, Grounded(o, s), issued' = issued, FilesBegin(o)',
         LinkOK(o, sess[s], toServer'[s], srv'[s], toClient'[s])
  PROVE  StaysGrounded(o, s)
<1>1. Origins(o)' /\ Extends(o, o)
  BY DEF Grounded, Origins, Extends
<1> QED
  BY <1>1 DEF StaysGrounded

\* A task that waits has nothing to answer for.
LEMMA IdleTaskOK ==
  ASSUME NEW o
  PROVE  TaskOK(o, IdleTask)
BY DEF TaskOK, IdleTask

\* An error, a file or columns say nothing about versions.
LEMMA OtherAnswerOK ==
  ASSUME NEW o, NEW a, a.type \in {"ErrorResponse", "File", "Columns", "FileDeleted", "AppendEvaluation"}
  PROVE  AnswerOK(o, a) /\ a.type # "CompactCommit"
BY DEF AnswerOK

\* A task that answers anything but a commitment, or ends, is done.
LEMMA TaskDone ==
  ASSUME NEW o, NEW s \in Slots, Grounded(o, s), issued' = issued, FilesBegin(o)',
         toServer'[s] \in {toServer[s], None}, srv'[s] = IdleTask,
         \/ toClient'[s] = toClient[s]
         \/ toClient'[s].type \in {"ErrorResponse", "File", "Columns", "FileDeleted",
                                   "AppendEvaluation"}
  PROVE  StaysGrounded(o, s)
<1> DEFINE m2 == toServer'[s]
           t2 == srv'[s]
           a2 == toClient'[s]
<1>1. TaskOK(o, t2) /\ t2.pc = "wait"
  <2>1. IdleTask.pc = "wait"
    BY DEF IdleTask
  <2> QED
    BY <2>1, IdleTaskOK
<1>2. LinkOK(o, sess[s], toServer[s], srv[s], toClient[s])
  BY DEF Grounded, LinkAt
<1>3. a2 = toClient[s] \/ (AnswerOK(o, a2) /\ a2.type # "CompactCommit")
  BY OtherAnswerOK
<1>4. m2 \in {toServer[s], None}
  OBVIOUS
<1> HIDE DEF m2, t2, a2
<1>5. LinkOK(o, sess[s], m2, t2, a2)
  BY <1>1, <1>2, <1>3, <1>4, LinkServed
<1>6. LinkOK(o, sess[s], toServer'[s], srv'[s], toClient'[s])
  BY <1>5 DEF m2, t2, a2
<1> QED
  BY <1>6, SameOrigins

\* Queries are answered from the disk.
LEMMA QueriesGrounded ==
  ASSUME NEW o, NEW s \in Slots, Grounded(o, s),
         \/ HandleRequestFile(s) \/ HandleRequestProof(s) \/ HandleRequestAppendEvaluation(s)
         \/ EndOfStream(s) /\ srv[s] = IdleTask
  PROVE  StaysGrounded(o, s)
<1>1. WiresTypeOK
  BY WiresTyped DEF Grounded
<1>2. issued' = issued /\ files' = files
  BY DEF HandleRequestFile, HandleRequestProof, HandleRequestAppendEvaluation, EndOfStream,
         storeVars, serverVars
<1>3. FilesBegin(o)'
  BY <1>2 DEF Grounded, FilesBegin
<1>4. /\ toServer'[s] \in {toServer[s], None} /\ srv'[s] = IdleTask
      /\ \/ toClient'[s] = toClient[s]
         \/ toClient'[s].type \in {"ErrorResponse", "File", "Columns", "FileDeleted",
                                   "AppendEvaluation"}
  <2>1. CASE HandleRequestFile(s) \/ HandleRequestProof(s)
    BY <1>1, <2>1 DEF HandleRequestFile, HandleRequestProof, Takes, Fail, Reply, WiresTypeOK
  <2>2. CASE HandleRequestAppendEvaluation(s)
    BY <1>1, <2>2 DEF HandleRequestAppendEvaluation, Takes, Fail, Reply, Panic, WiresTypeOK
  <2>3. CASE EndOfStream(s) /\ srv[s] = IdleTask
    BY <2>3 DEF EndOfStream, serverVars
  <2> QED
    BY <2>1, <2>2, <2>3
<1> QED
  BY <1>2, <1>3, <1>4, TaskDone

\* A failing task leaves the disk as it is.
LEMMA FailGrounded ==
  ASSUME NEW o, NEW s \in Slots, Grounded(o, s), UNCHANGED <<files, issued>>, Fail(s),
         toServer'[s] \in {toServer[s], None}
  PROVE  StaysGrounded(o, s)
<1>1. WiresTypeOK
  BY WiresTyped DEF Grounded
<1>2. FilesBegin(o)'
  BY DEF Grounded, FilesBegin
<1>3. /\ srv'[s] = IdleTask
      /\ toClient'[s] = toClient[s] \/ toClient'[s].type = "ErrorResponse"
  BY <1>1 DEF Fail, Reply, WiresTypeOK
<1> QED
  BY <1>2, <1>3, TaskDone

\* An upload or an append writes a file under a Ulid drawn for its content.
LEMMA DrawnGrounded ==
  ASSUME NEW o, NEW s \in Slots, Grounded(o, s), NEW id \in FreshUlids, NEW data \in Content,
         NEW md, md.id = id, md.root.data = data, md.size = Len(data),
         files' = Put(files, id, data), issued' = issued \cup {id},
         toServer[s] # None, toServer'[s] = None, toClient'[s] = toClient[s],
         srv'[s] = [pc |-> "open", msg |-> toServer[s], md |-> md, found |-> FALSE],
         \/ toServer[s] \in UploadRequest
         \/ /\ toServer[s] \in AppendRequest
            /\ IsVersion(o, toServer[s], md)
  PROVE  StaysGrounded(o, s)
<1> DEFINE p == Put(o, id, data)
<1>1. DOMAIN o = issued /\ IsMap(o, Ids, Content) /\ id \notin issued /\ id \in Ids
  BY DEF Grounded, Origins, FreshUlids
<1>2. /\ DOMAIN p = issued \cup {id} /\ p[id] = data
      /\ \A k \in issued : p[k] = o[k]
  BY <1>1 DEF Put
<1>3. Origins(p)' /\ Extends(p, o)
  <2>1. IsMap(p, Ids, Content)
    BY <1>1, PutIsMap
  <2>2. DOMAIN p = issued' /\ Extends(p, o)
    BY <1>1, <1>2 DEF Extends
  <2> HIDE DEF p
  <2> QED
    BY <2>1, <2>2 DEF Origins
<1>4. FilesBegin(p)'
  <2> SUFFICES ASSUME NEW k \in DOMAIN files'
               PROVE  k \in DOMAIN p /\ BeginsWith(files'[k], p[k])
    BY DEF FilesBegin
  <2>1. CASE k = id
    <3>1. files'[k] = data
      BY <2>1 DEF Put
    <3> QED
      BY <1>2, <2>1, <3>1, BeginsWithItself
  <2>2. CASE k # id
    <3>1. k \in DOMAIN files /\ files'[k] = files[k]
      BY <2>2 DEF Put
    <3>2. k \in issued /\ BeginsWith(files[k], o[k])
      BY <1>1, <3>1 DEF Grounded, FilesBegin
    <3> QED
      BY <1>2, <3>1, <3>2
  <2> QED
    BY <2>1, <2>2
<1>5. Genuine(p, md)
  BY <1>2 DEF Genuine
<1> HIDE DEF p
<1>6. LinkOK(p, sess[s], toServer[s], srv[s], toClient[s])
  BY <1>3, LinksExtend DEF Grounded, LinkAt
<1>7. RequestOK(o, toServer[s]) /\ RequestOK(p, toServer[s])
  BY <1>6 DEF Grounded, LinkAt, LinkOK
<1> DEFINE t2 == srv'[s]
<1>8. TaskOK(p, t2) /\ t2.pc = "open" /\ t2.msg = toServer[s]
  <2>1. t2.pc = "open" /\ t2.msg = toServer[s] /\ t2.md = md
    OBVIOUS
  <2>2. toServer[s].type = "AppendToFile" => IsVersion(p, toServer[s], md)
    <3>1. ASSUME toServer[s].type = "AppendToFile"
          PROVE  IsVersion(o, toServer[s], md) /\ Genuine(o, toServer[s].md)
      BY <1>7, <3>1, RequestTypes, AppendRequestOK
    <3>2. ASSUME toServer[s].type = "AppendToFile"
          PROVE  p[toServer[s].md.id] = o[toServer[s].md.id]
      BY <1>3, <3>1, <3>2 DEF Genuine, Extends
    <3> QED
      BY <3>1, <3>2 DEF IsVersion
  <2> HIDE DEF t2
  <2> QED
    BY <1>5, <1>7, <2>1, <2>2 DEF TaskOK
<1> HIDE DEF t2
<1> DEFINE m2 == toServer'[s]
           a2 == toClient'[s]
<1>9. m2 \in {toServer[s], None} /\ a2 = toClient[s]
  OBVIOUS
<1> HIDE DEF m2, a2
<1>10. LinkOK(p, sess[s], m2, t2, a2)
  BY <1>6, <1>8, <1>9, LinkServed
<1>11. LinkOK(p, sess[s], toServer'[s], srv'[s], toClient'[s])
  BY <1>10 DEF t2, m2, a2
<1> QED
  BY <1>3, <1>4, <1>11 DEF StaysGrounded

\* An upload is refused or stored.
LEMMA UploadGrounded ==
  ASSUME NEW o, NEW s \in Slots, Grounded(o, s), HandleUploadNewFile(s)
  PROVE  StaysGrounded(o, s)
<1>1. WiresTypeOK
  BY WiresTyped DEF Grounded
<1>2. PICK m : m = toServer[s]
  OBVIOUS
<1>3. Takes(s, "UploadNewFile") /\ m \in UploadRequest /\ toServer[s] # None /\ toServer'[s] = None
  BY <1>1, <1>2, RequestByType DEF HandleUploadNewFile, Takes, WiresTypeOK
<1>4. CASE Fail(s) /\ UNCHANGED storeVars
  BY <1>3, <1>4, FailGrounded DEF storeVars
<1>5. CASE ~ (Fail(s) /\ UNCHANGED storeVars)
  <2>1. PICK id \in FreshUlids :
          /\ files' = Put(files, id, m.data)
          /\ issued' = issued \cup {id}
          /\ Go(s, m, "open", CommittedMetadata(id, m.name, m.data, m.dims))
    BY <1>2, <1>5 DEF HandleUploadNewFile
  <2>2. PICK md : md = CommittedMetadata(id, m.name, m.data, m.dims)
    OBVIOUS
  <2>3. md.id = id /\ md.root.data = m.data /\ md.size = Len(m.data)
    BY <2>2 DEF CommittedMetadata, Commit
  <2>4. m.data \in Content
    BY <1>3 DEF UploadRequest
  <2>5. /\ srv'[s] = [pc |-> "open", msg |-> toServer[s], md |-> md, found |-> FALSE]
        /\ toClient'[s] = toClient[s]
    BY <1>1, <1>2, <2>1, <2>2 DEF Go, WiresTypeOK
  <2> QED
    BY <1>2, <1>3, <2>1, <2>3, <2>4, <2>5, DrawnGrounded
<1> QED
  BY <1>4, <1>5

\* An append is refused or stored as a version of what its file now is.
LEMMA AppendGrounded ==
  ASSUME NEW o, NEW s \in Slots, Grounded(o, s), HandleAppendToFile(s)
  PROVE  StaysGrounded(o, s)
<1>1. WiresTypeOK
  BY WiresTyped DEF Grounded
<1>2. PICK m : m = toServer[s]
  OBVIOUS
<1>3. Takes(s, "AppendToFile") /\ m \in AppendRequest /\ toServer[s] # None /\ toServer'[s] = None
  BY <1>1, <1>2, RequestByType DEF HandleAppendToFile, Takes, WiresTypeOK
<1>4. CASE Fail(s) /\ UNCHANGED storeVars
  BY <1>3, <1>4, FailGrounded DEF storeVars
<1>5. CASE ~ (Fail(s) /\ UNCHANGED storeVars)
  <2>1. PICK c, data : c = files[m.md.id] /\ data = c \o m.data
    OBVIOUS
  <2>2. HasFile(m.md) /\ NewVersion(s, m, data, RowCount(data, m.md.dims))
    BY <1>2, <1>5, <2>1 DEF HandleAppendToFile
  <2>3. PICK id \in FreshUlids :
          /\ files' = Put(files, id, data)
          /\ issued' = issued \cup {id}
          /\ Go(s, m, "open", VersionMetadata(m.md, id, files[m.md.id], data, RowCount(data, m.md.dims)))
    BY <2>2 DEF NewVersion
  <2>4. PICK md : md = VersionMetadata(m.md, id, files[m.md.id], data, RowCount(data, m.md.dims))
    OBVIOUS
  <2>5. m.md \in Metadata /\ m.data \in Content
    BY <1>3 DEF AppendRequest
  <2>6. md.id = id /\ md.root.data = data /\ md.size = Len(data)
    BY <2>4, <2>5 DEF VersionMetadata, Commit, Metadata
  <2>7. c \in Content /\ BeginsWith(c, o[m.md.id])
    BY <2>1, <2>2 DEF HasFile, Grounded, FilesBegin, TypeOK, ServerTypeOK, IsMap
  <2>8. data \in Content /\ IsVersion(o, m, md)
    BY <2>1, <2>5, <2>6, <2>7, ConcatContent DEF IsVersion
  <2>9. /\ srv'[s] = [pc |-> "open", msg |-> toServer[s], md |-> md, found |-> FALSE]
        /\ toClient'[s] = toClient[s]
    BY <1>1, <1>2, <2>3, <2>4 DEF Go, WiresTypeOK
  <2> QED
    BY <1>2, <1>3, <2>3, <2>6, <2>8, <2>9, DrawnGrounded
<1> QED
  BY <1>4, <1>5

\* A deletion or a verdict is taken.
LEMMA TakenGrounded ==
  ASSUME NEW o, NEW s \in Slots, Grounded(o, s), HandleDatabaseRequest(s)
  PROVE  StaysGrounded(o, s)
<1>1. WiresTypeOK
  BY WiresTyped DEF Grounded
<1>2. UNCHANGED <<files, issued>> /\ FilesBegin(o)'
  BY DEF HandleDatabaseRequest, storeVars, Grounded, FilesBegin
<1> DEFINE m2 == toServer'[s]
           t2 == srv'[s]
           a2 == toClient'[s]
<1>3. /\ toServer[s] # None /\ m2 = None /\ a2 = toClient[s]
      /\ toServer[s].type \in {"DeleteFile", "ReshapeResponse", "EditOrAppendResponse"}
      /\ t2 = [pc |-> "open", msg |-> toServer[s], md |-> None, found |-> FALSE]
  BY <1>1 DEF HandleDatabaseRequest, Takes, Go, WiresTypeOK
<1>4. LinkOK(o, sess[s], toServer[s], srv[s], toClient[s]) /\ RequestOK(o, toServer[s])
  BY <1>3 DEF Grounded, LinkAt, LinkOK
<1>5. t2.msg = toServer[s] /\ m2 \in {toServer[s], None}
  BY <1>3
<1> HIDE DEF m2, t2, a2
<1>6. TaskOK(o, t2)
  BY <1>3, <1>4, <1>5 DEF TaskOK
<1>7. LinkOK(o, sess[s], m2, t2, a2)
  BY <1>3, <1>4, <1>5, <1>6, LinkServed
<1>8. LinkOK(o, sess[s], toServer'[s], srv'[s], toClient'[s])
  BY <1>7 DEF m2, t2, a2
<1> QED
  BY <1>2, <1>8, SameOrigins

\* A task that goes on with its request wrote no other version.
LEMMA TaskGoesOn ==
  ASSUME NEW o, NEW s \in Slots, Grounded(o, s), issued' = issued, FilesBegin(o)',
         UNCHANGED <<toServer, toClient>>, srv[s].pc # "wait", srv'[s].msg = srv[s].msg,
         srv'[s].pc # "wait",
         \/ srv'[s].pc = "create" /\ srv[s].pc = "open" /\ srv'[s].md = srv[s].md
         \/ srv'[s].pc \notin {"open", "create"},
         srv'[s].pc = "rename" => Accepts(srv[s].msg)
  PROVE  StaysGrounded(o, s)
<1> DEFINE t2 == srv'[s]
<1>1. /\ srv[s].pc # "wait" /\ t2.msg = srv[s].msg /\ t2.pc # "wait"
      /\ t2.pc = "rename" => Accepts(srv[s].msg)
      /\ \/ t2.pc = "create" /\ srv[s].pc = "open" /\ t2.md = srv[s].md
         \/ t2.pc \notin {"open", "create"}
  OBVIOUS
<1>2. LinkOK(o, sess[s], toServer[s], srv[s], toClient[s])
  BY DEF Grounded, LinkAt
<1> HIDE DEF t2
<1>3. TaskOK(o, t2)
  BY <1>1, <1>2 DEF LinkOK, TaskOK
<1>4. LinkOK(o, sess[s], toServer[s], t2, toClient[s])
  BY <1>1, <1>2, <1>3, LinkServed
<1>5. LinkOK(o, sess[s], toServer'[s], srv'[s], toClient'[s])
  BY <1>4 DEF t2
<1> QED
  BY <1>5, SameOrigins

\* The database is opened or busy.
LEMMA OpenGrounded ==
  ASSUME NEW o, NEW s \in Slots, Grounded(o, s), OpenDatabase(s)
  PROVE  StaysGrounded(o, s)
<1>1. WiresTypeOK
  BY WiresTyped DEF Grounded
<1>2. UNCHANGED <<toServer, files, issued>> /\ FilesBegin(o)' /\ srv[s].pc = "open"
  BY DEF OpenDatabase, storeVars, Grounded, FilesBegin
<1>3. CASE Fail(s)
  BY <1>2, <1>3, FailGrounded
<1>4. CASE ~ Fail(s)
  <2>1. PICK pc : pc = AfterOpen(srv[s].msg)
    OBVIOUS
  <2>2. srv' = [srv EXCEPT ![s].pc = pc] /\ UNCHANGED toClient
    BY <1>4, <2>1 DEF OpenDatabase
  <2>3. srv'[s] = [srv[s] EXCEPT !.pc = pc] /\ srv[s] \in Task
    BY <1>1, <2>2 DEF WiresTypeOK
  <2>4. srv'[s].pc = pc /\ srv'[s].msg = srv[s].msg /\ srv'[s].md = srv[s].md
    BY <2>3, TaskFields
  <2>5. pc \in {"create", "rename", "delete"} /\ (pc = "rename" => Accepts(srv[s].msg))
    BY <2>1 DEF AfterOpen
  <2> QED
    BY <1>2, <2>2, <2>4, <2>5, TaskGoesOn
<1> QED
  BY <1>3, <1>4

\* A task that answers with a commitment is done.
LEMMA CommitmentAnswered ==
  ASSUME NEW o, NEW s \in Slots, Grounded(o, s), issued' = issued, FilesBegin(o)',
         UNCHANGED toServer, NEW md, Genuine(o, md), srv[s].pc # "wait",
         srv[s].msg.type = "AppendToFile" => IsVersion(o, srv[s].msg, md),
         Reply(s, [type |-> "CompactCommit", md |-> md])
  PROVE  StaysGrounded(o, s)
<1>1. WiresTypeOK
  BY WiresTyped DEF Grounded
<1>2. LinkOK(o, sess[s], toServer[s], srv[s], toClient[s])
  BY DEF Grounded, LinkAt
<1> DEFINE t2 == srv'[s]
           a2 == toClient'[s]
           a3 == [type |-> "CompactCommit", md |-> md]
<1>3. t2 = IdleTask /\ a2 \in {toClient[s], a3}
  BY <1>1 DEF Reply, WiresTypeOK
<1>4. AnswerOK(o, a3) /\ a3.md = md
  BY DEF AnswerOK
<1> HIDE DEF t2, a2, a3
<1>5. TaskOK(o, t2) /\ t2.pc = "wait"
  <2>1. IdleTask.pc = "wait"
    BY DEF IdleTask
  <2> QED
    BY <1>3, <2>1, IdleTaskOK
<1>6. LinkOK(o, sess[s], toServer[s], t2, a2)
  BY <1>2, <1>3, <1>4, <1>5, LinkServed
<1>7. LinkOK(o, sess[s], toServer'[s], srv'[s], toClient'[s])
  BY <1>6 DEF t2, a2
<1> QED
  BY <1>7, SameOrigins

\* The entry of an upload or of a version is created.
LEMMA CreateGrounded ==
  ASSUME NEW o, NEW s \in Slots, Grounded(o, s), CreateEntry(s)
  PROVE  StaysGrounded(o, s)
<1>1. srv[s] \in CreatingTask /\ srv[s].pc = "create"
  BY TaskByPc, WiresTyped DEF Grounded, WiresTypeOK, CreateEntry
<1>2. RequestOK(o, srv[s].msg) /\ TaskOK(o, srv[s])
  BY <1>1 DEF Grounded, LinkAt, LinkOK, TaskOK
<1>3. srv[s].msg.type \in {"UploadNewFile", "AppendToFile"}
  BY <1>1, <1>2 DEF RequestOK, CreatingTask, UploadRequest, FileRequest, ProofRequest, DeleteRequest,
                    AppendRequest, EditRequest
<1>4. /\ Genuine(o, srv[s].md)
      /\ srv[s].msg.type = "AppendToFile" => IsVersion(o, srv[s].msg, srv[s].md)
  BY <1>1, <1>2, <1>3 DEF TaskOK
<1>5. UNCHANGED <<toServer, files, issued>> /\ FilesBegin(o)'
  BY DEF CreateEntry, Grounded, FilesBegin
<1>6. PICK md : md = srv[s].md
  OBVIOUS
<1>7. Reply(s, [type |-> "CompactCommit", md |-> md])
  BY <1>6 DEF CreateEntry
<1> QED
  BY <1>1, <1>4, <1>5, <1>6, <1>7, CommitmentAnswered

\* A handler of a verdict has an append's verdict in hand.
LEMMA VerdictInHand ==
  ASSUME NEW o, NEW s \in Slots, Grounded(o, s), srv[s].pc # "wait",
         srv[s].msg \in VersionResponse
  PROVE  /\ srv[s].msg.type = "EditOrAppendResponse"
         /\ Genuine(o, srv[s].msg.old) /\ Genuine(o, srv[s].msg.new)
         /\ srv[s].msg.accepted => BeginsWith(o[srv[s].msg.old.id], o[srv[s].msg.new.id])
<1>1. RequestOK(o, srv[s].msg)
  BY DEF Grounded, LinkAt, LinkOK, TaskOK
<1>2. srv[s].msg.type \in {"ReshapeResponse", "EditOrAppendResponse"}
  BY DEF VersionResponse
<1> QED
  BY <1>1, <1>2, RequestTypes
  DEF RequestOK, Accepts, VersionRequest

\* The accepted version becomes the file of the one it was made from, and
\* begins with what that one was drawn for.
LEMMA RenameGrounded ==
  ASSUME NEW o, NEW s \in Slots, Grounded(o, s), RenameFile(s)
  PROVE  StaysGrounded(o, s)
<1>1. srv[s] \in RenamingTask /\ srv[s] \in Task /\ srv[s].pc = "rename" /\ WiresTypeOK
  BY TaskByPc, WiresTyped DEF Grounded, WiresTypeOK, RenameFile
<1>2. CASE Fail(s) /\ UNCHANGED files
  BY <1>2, FailGrounded DEF RenameFile
<1>3. CASE ~ (Fail(s) /\ UNCHANGED files)
  <2>1. PICK m : m = srv[s].msg
    OBVIOUS
  <2>2. /\ HasFile(m.old) /\ files' = Renamed(m.old.id, m.new.id)
        /\ srv' = [srv EXCEPT ![s].pc = "delete"] /\ UNCHANGED <<toServer, toClient, issued>>
    BY <1>3, <2>1 DEF RenameFile
  <2>3. Genuine(o, m.old) /\ Genuine(o, m.new) /\ BeginsWith(o[m.old.id], o[m.new.id])
    <3>1. Accepts(m)
      BY <1>1, <2>1 DEF Grounded, LinkAt, LinkOK, TaskOK
    <3> QED
      BY <1>1, <2>1, <3>1, VerdictInHand DEF RenamingTask, Accepts
  <2>4. srv'[s].pc = "delete" /\ srv'[s].msg = srv[s].msg
    BY <1>1, <2>2, TaskFields DEF WiresTypeOK
  <2>5. FilesBegin(o)'
    <3> DEFINE old == m.old.id
               new == m.new.id
    <3>1. old \in DOMAIN files /\ BeginsWith(files[old], o[old])
      BY <2>2 DEF HasFile, Grounded, FilesBegin
    <3>2. files[old] \in Content /\ o[old] \in Content /\ o[new] \in Content
      BY <2>3, <3>1 DEF Grounded, TypeOK, ServerTypeOK, Origins, IsMap, Genuine
    <3>3. BeginsWith(o[old], o[new])
      BY <2>3
    <3>4. new \in DOMAIN o /\ BeginsWith(files[old], o[new])
      BY <2>3, <3>1, <3>2, <3>3, BeginsTransitive DEF Genuine
    <3>5. /\ DOMAIN files' \subseteq DOMAIN files \cup {new} /\ files'[new] = files[old]
          /\ \A id \in DOMAIN files' \ {new} : files'[id] = files[id]
      BY <2>2 DEF Renamed, Put, Drop
    <3> HIDE DEF old, new
    <3> QED
      BY <3>4, <3>5 DEF Grounded, FilesBegin
  <2> QED
    BY <1>1, <2>2, <2>4, <2>5, TaskGoesOn
<1> QED
  BY <1>2, <1>3

\* An entry is deleted.
LEMMA DeleteGrounded ==
  ASSUME NEW o, NEW s \in Slots, Grounded(o, s), DeleteEntry(s)
  PROVE  StaysGrounded(o, s)
<1>1. srv[s] \in DeletingTask /\ srv[s] \in Task /\ srv[s].pc = "delete" /\ WiresTypeOK
  BY TaskByPc, WiresTyped DEF Grounded, WiresTypeOK, DeleteEntry
<1>2. srv[s].msg.type # "ReshapeResponse"
  BY <1>1, VerdictInHand DEF DeletingTask, DeleteRequest
<1>3. PICK found : found = (EntryToDelete(srv[s].msg) \in DOMAIN table)
  OBVIOUS
<1>4. /\ srv' = [srv EXCEPT ![s].pc = "remove", ![s].found = found]
      /\ UNCHANGED <<toServer, toClient, files, issued>>
  BY <1>2, <1>3 DEF DeleteEntry
<1>5. srv'[s] = [srv[s] EXCEPT !.pc = "remove", !.found = found]
  BY <1>1, <1>4 DEF WiresTypeOK
<1>6. srv'[s].pc = "remove" /\ srv'[s].msg = srv[s].msg
  BY <1>1, <1>5, TaskFields
<1>7. FilesBegin(o)'
  BY <1>4 DEF Grounded, FilesBegin
<1> QED
  BY <1>1, <1>4, <1>6, <1>7, TaskGoesOn

\* A file is removed.
LEMMA RemoveGrounded ==
  ASSUME NEW o, NEW s \in Slots, Grounded(o, s), RemoveFile(s)
  PROVE  StaysGrounded(o, s)
<1>1. srv[s] \in RemovingTask /\ srv[s].pc = "remove" /\ WiresTypeOK
  BY TaskByPc, WiresTyped DEF Grounded, WiresTypeOK, RemoveFile
<1>2. PICK m : m = srv[s].msg
  OBVIOUS
<1>3. UNCHANGED <<toServer, issued>> /\ files' = Drop(files, FileToRemove(m))
  BY <1>2 DEF RemoveFile
<1>4. FilesBegin(o)'
  BY <1>3 DEF Grounded, FilesBegin, Drop
<1>5. CASE Fail(s) \/ Reply(s, [type |-> "FileDeleted"])
  <2>1. /\ srv'[s] = IdleTask
        /\ \/ toClient'[s] = toClient[s]
           \/ toClient'[s].type \in {"ErrorResponse", "FileDeleted"}
    BY <1>1, <1>5 DEF Fail, Reply, WiresTypeOK
  <2> QED
    BY <1>3, <1>4, <2>1, TaskDone
<1>6. CASE ~ (Fail(s) \/ Reply(s, [type |-> "FileDeleted"]))
  <2>1. m \in VersionResponse
    BY <1>1, <1>2, <1>6 DEF RemovingTask, DeleteRequest, RemoveFile
  <2>2. PICK md : md = IF m.accepted THEN m.new ELSE m.old
    OBVIOUS
  <2>3. Reply(s, [type |-> "CompactCommit", md |-> md])
    BY <1>2, <1>6, <2>2 DEF RemoveFile
  <2>4. Genuine(o, md) /\ m.type = "EditOrAppendResponse"
    BY <1>1, <1>2, <2>1, <2>2, VerdictInHand
  <2> QED
    BY <1>1, <1>2, <1>3, <1>4, <2>3, <2>4, CommitmentAnswered
<1> QED
  BY <1>5, <1>6

\* The other requests are not made.
LEMMA NotAsked ==
  ASSUME NEW o, NEW s \in Slots, Grounded(o, s)
  PROVE  ~ (HandleEditFileBytes(s) \/ HandleRequestFileReshape(s)
            \/ HandleRequestReshapeEvaluation(s) \/ HandleRequestEditEvaluation(s))
<1>1. ASSUME NEW type, Takes(s, type)
      PROVE  type \in {"UploadNewFile", "RequestFile", "RequestProof", "DeleteFile", "AppendToFile",
                       "RequestAppendEvaluation", "EditOrAppendResponse"}
  <2>1. RequestOK(o, toServer[s]) /\ toServer[s].type = type
    BY <1>1 DEF Takes, Grounded, LinkAt, LinkOK
  <2> QED
    BY <2>1, RequestTypes DEF RequestOK, AppendRequest
<1>2. HandleEditFileBytes(s) => Takes(s, "EditFileBytes")
  BY DEF HandleEditFileBytes
<1>3. HandleRequestFileReshape(s) => Takes(s, "RequestFileReshape")
  BY DEF HandleRequestFileReshape
<1>4. HandleRequestReshapeEvaluation(s) => Takes(s, "RequestReshapeEvaluation")
  BY DEF HandleRequestReshapeEvaluation
<1>5. HandleRequestEditEvaluation(s) => Takes(s, "RequestEditEvaluation")
  BY DEF HandleRequestEditEvaluation
<1> QED
  BY <1>1, <1>2, <1>3, <1>4, <1>5

\* Every step of a task keeps to origins.
LEMMA ServerGrounded ==
  ASSUME NEW o, NEW s \in Slots, Grounded(o, s), ServerStep(s)
  PROVE  StaysGrounded(o, s)
<1>1. EndOfStream(s) => srv[s] = IdleTask
  BY WiresTyped
  DEF Grounded, WiresTypeOK, EndOfStream, Task, CreatingTask, DeletingTask, RenamingTask, RemovingTask
<1> QED
  BY <1>1, UploadGrounded, QueriesGrounded, AppendGrounded, TakenGrounded, OpenGrounded,
     CreateGrounded, RenameGrounded, DeleteGrounded, RemoveGrounded, NotAsked DEF ServerStep

-----------------------------------------------------------------------------
(* The steps of a process.                                                 *)

\* What a process knows comes from origins.
Knows(o, s) == TypeOK /\ Origins(o) /\ LinkAt(o, s) /\ RecordsGenuine(o)

\* So does what it knows after a step, with which it waits for no commitment.
Learns(o, s) ==
  /\ OthersUnchanged(s)
  /\ \A t \in Slots \ {s} : sess'[t] = sess[t]
  /\ toServer'[s] # None => RequestOK(o, toServer'[s])
  /\ toClient'[s] \in {toClient[s], None}
  /\ ProcessOK(o, sess'[s]) /\ sess'[s].pc # "commit"
  /\ \/ ends'[s] = ends[s]
     \/ ends'[s] = ends[s] \ {"client"} /\ toClient'[s] = None
  /\ RecordsGenuine(o)'

\* The requests of the operations, by what a process waits for.
LEMMA OperationsKnown ==
  ASSUME NEW o, NEW s \in Slots, Knows(o, s), sess[s].pc # "idle"
  PROVE  /\ RequestOK(o, sess[s].req)
         /\ sess[s].req \in VersionRequest =>
              sess[s].req \in AppendRequest /\ sess[s].req.type = "AppendToFile"
         /\ sess[s].req.type \notin {"EditFileBytes", "RequestFileReshape"}
<1>1. RequestOK(o, sess[s].req)
  BY DEF Knows, LinkAt, LinkOK, ProcessOK
<1>2. sess[s].req.type \notin {"EditFileBytes", "RequestFileReshape"}
  BY <1>1, RequestTypes DEF RequestOK, AppendRequest
<1>3. ASSUME sess[s].req \in VersionRequest
      PROVE  sess[s].req \in AppendRequest /\ sess[s].req.type = "AppendToFile"
  <2>1. sess[s].req.type = "AppendToFile"
    BY <1>2, <1>3, RequestTypes
  <2> QED
    BY <1>1, <2>1, AppendRequestOK
<1> QED
  BY <1>1, <1>2, <1>3

\* A process that is asked for no more returns, and what it sent stays.
LEMMA LearnsNothing ==
  ASSUME NEW o, NEW s \in Slots, Knows(o, s), Exit(s),
         \A t \in Slots \ {s} : toServer'[t] = toServer[t],
         toServer'[s] # None => RequestOK(o, toServer'[s]),
         RecordsGenuine(o)'
  PROVE  Learns(o, s)
<1>1. WiresTypeOK
  BY WiresTyped DEF Knows
<1>2. /\ sess'[s] = IdleProcess /\ ends'[s] = ends[s] \ {"client"} /\ toClient'[s] = None
      /\ \A t \in Slots \ {s} : /\ sess'[t] = sess[t]
                               /\ ends'[t] = ends[t]
                               /\ toClient'[t] = toClient[t]
  BY <1>1, ExitMoves
<1>3. ProcessOK(o, IdleProcess) /\ IdleProcess.pc # "commit"
  BY DEF ProcessOK, IdleProcess
<1>4. ProcessOK(o, sess'[s]) /\ sess'[s].pc # "commit"
  BY <1>2, <1>3
<1> QED
  BY <1>2, <1>4 DEF Learns, OthersUnchanged

\* So it does if it sends nothing and records nothing.
LEMMA LearnsNoMore ==
  ASSUME NEW o, NEW s \in Slots, Knows(o, s), Exit(s), UNCHANGED <<toServer, clientDb>>
  PROVE  Learns(o, s)
<1>1. toServer[s] # None => RequestOK(o, toServer[s])
  BY DEF Knows, LinkAt, LinkOK
<1>2. RecordsGenuine(o)'
  BY DEF Knows, RecordsGenuine
<1> QED
  BY <1>1, <1>2, LearnsNothing

\* What a process sends is right, if it is sent.
LEMMA SendsRequest ==
  ASSUME NEW o, NEW s \in Slots, Knows(o, s), NEW m, RequestOK(o, m), Send(s, m)
  PROVE  /\ \A t \in Slots \ {s} : toServer'[t] = toServer[t]
         /\ toServer'[s] # None => RequestOK(o, toServer'[s])
<1>1. WiresTypeOK
  BY WiresTyped DEF Knows
<1>2. toServer[s] # None => RequestOK(o, toServer[s])
  BY DEF Knows, LinkAt, LinkOK
<1> QED
  BY <1>1, <1>2, SendMoves

\* A process that goes on with its request knows of no other version.
LEMMA GoesOn ==
  ASSUME NEW o, NEW s \in Slots, Knows(o, s), NEW pc, sess[s].pc # "idle",
         sess' = [sess EXCEPT ![s].pc = pc], pc \in {"dbOpen", "dbCreate", "dbDelete"},
         sess[s].req.type = "UploadNewFile" => sess[s].pc \in {"columns", "dbOpen", "dbCreate"},
         sess[s].req.type = "AppendToFile" => sess[s].pc \in {"evaluation", "dbOpen", "dbCreate"},
         \A t \in Slots \ {s} : toServer'[t] = toServer[t] /\ toClient'[t] = toClient[t],
         toServer'[s] # None => RequestOK(o, toServer'[s]),
         toClient'[s] \in {toClient[s], None}, UNCHANGED ends, RecordsGenuine(o)'
  PROVE  Learns(o, s)
<1>1. WiresTypeOK
  BY WiresTyped DEF Knows
<1>2. /\ sess'[s].pc = pc /\ sess'[s].req = sess[s].req /\ sess'[s].new = sess[s].new
      /\ \A t \in Slots \ {s} : sess'[t] = sess[t]
  BY <1>1, AdvanceMoves
<1>3. ProcessOK(o, sess[s])
  BY DEF Knows, LinkAt, LinkOK
<1>4. PICK q : q = sess'[s]
  OBVIOUS
<1>5. ProcessOK(o, q)
  BY <1>2, <1>3, <1>4 DEF ProcessOK
<1> QED
  BY <1>2, <1>4, <1>5 DEF Learns, OthersUnchanged

\* An upload that is committed to is proved next.
LEMMA UploadCommittedLearns ==
  ASSUME NEW o, NEW s \in Slots, Knows(o, s), UploadCommitted(s)
  PROVE  Learns(o, s)
<1>1. WiresTypeOK
  BY WiresTyped DEF Knows
<1>2. PICK new : new = toClient[s].md
  OBVIOUS
<1>3. /\ Answered(s, "commit", "CompactCommit") /\ sess[s].req.type = "UploadNewFile"
      /\ sess' = [sess EXCEPT ![s].pc = "columns", ![s].new = new]
      /\ Send(s, [type |-> "RequestProof", md |-> new]) /\ UNCHANGED <<ends, clientDb>>
  BY <1>2 DEF UploadCommitted, Operation
<1>4. /\ sess[s].pc = "commit" /\ toClient[s] # None /\ toClient[s].type = "CompactCommit"
      /\ toClient'[s] = None /\ \A t \in Slots \ {s} : toClient'[t] = toClient[t]
  BY <1>1, <1>3, AnsweredMoves
<1>5. toClient[s] \in Response /\ new \in Metadata
  BY <1>1, <1>2, <1>4, ResponseByType DEF WiresTypeOK
<1>6. Genuine(o, new)
  BY <1>2, <1>4 DEF Knows, LinkAt, LinkOK, AnswerOK
<1>7. RequestOK(o, [type |-> "RequestProof", md |-> new])
  BY <1>5, <1>6 DEF RequestOK, ProofRequest
<1>8. /\ \A t \in Slots \ {s} : toServer'[t] = toServer[t]
      /\ toServer'[s] # None => RequestOK(o, toServer'[s])
  BY <1>3, <1>7, SendsRequest
<1>9. PICK q : q = sess'[s]
  OBVIOUS
<1>10. /\ q.pc = "columns" /\ q.req = sess[s].req /\ q.new = new
       /\ \A t \in Slots \ {s} : sess'[t] = sess[t]
  <2>1. q = [sess[s] EXCEPT !.pc = "columns", !.new = new] /\ sess[s] \in Process
    BY <1>1, <1>3, <1>9 DEF WiresTypeOK
  <2>2. q.pc = "columns" /\ q.req = sess[s].req /\ q.new = new
    BY <2>1, ProcessFields
  <2> QED
    BY <1>1, <1>3, <2>2 DEF WiresTypeOK
<1>11. ProcessOK(o, q)
  BY <1>4, <1>6, <1>10 DEF ProcessOK, Knows, LinkAt, LinkOK
<1>12. RecordsGenuine(o)'
  BY <1>3 DEF Knows, RecordsGenuine
<1> QED
  BY <1>3, <1>4, <1>8, <1>9, <1>10, <1>11, <1>12 DEF Learns, OthersUnchanged

\* A file that is downloaded is proved next.
LEMMA FileDownloadedLearns ==
  ASSUME NEW o, NEW s \in Slots, Knows(o, s), FileDownloaded(s)
  PROVE  Learns(o, s)
<1>1. WiresTypeOK
  BY WiresTyped DEF Knows
<1>2. PICK md, data : md = sess[s].req.md /\ data = toClient[s].data
  OBVIOUS
<1>3. /\ Answered(s, "file", "File")
      /\ sess' = [sess EXCEPT ![s].pc = "columns", ![s].file = data]
      /\ Send(s, [type |-> "RequestProof", md |-> md]) /\ UNCHANGED <<ends, clientDb>>
  BY <1>2 DEF FileDownloaded
<1>4. /\ sess[s].pc = "file" /\ toClient'[s] = None
      /\ \A t \in Slots \ {s} : toClient'[t] = toClient[t]
  BY <1>1, <1>3, AnsweredMoves
<1>5. sess[s] \in Process /\ sess[s].req \in FileRequest
  BY <1>1, <1>4, ProcessByPc DEF WiresTypeOK, AwaitsFile
<1>6. sess[s].req.type = "RequestFile" /\ md \in Metadata
  BY <1>2, <1>5 DEF FileRequest
<1>7. RequestOK(o, sess[s].req) /\ Genuine(o, md)
  BY <1>2, <1>4, <1>6, OperationsKnown, RequestTypes DEF RequestOK
<1>8. RequestOK(o, [type |-> "RequestProof", md |-> md])
  BY <1>6, <1>7 DEF RequestOK, ProofRequest
<1>9. /\ \A t \in Slots \ {s} : toServer'[t] = toServer[t]
      /\ toServer'[s] # None => RequestOK(o, toServer'[s])
  BY <1>3, <1>8, SendsRequest
<1>10. PICK q : q = sess'[s]
  OBVIOUS
<1>11. q = [sess[s] EXCEPT !.pc = "columns", !.file = data] /\ \A t \in Slots \ {s} : sess'[t] = sess[t]
  BY <1>1, <1>3, <1>10 DEF WiresTypeOK
<1>12. q.pc = "columns" /\ q.req = sess[s].req
  BY <1>5, <1>11, ProcessFields
<1>13. ProcessOK(o, q)
  BY <1>6, <1>7, <1>12 DEF ProcessOK
<1>14. RecordsGenuine(o)'
  BY <1>3 DEF Knows, RecordsGenuine
<1> QED
  BY <1>3, <1>4, <1>9, <1>10, <1>11, <1>12, <1>13, <1>14 DEF Learns, OthersUnchanged

\* A proved upload and an acknowledged deletion go on to the database.
LEMMA UploadProvedLearns ==
  ASSUME NEW o, NEW s \in Slots, Knows(o, s), UploadProved(s) \/ Deleted(s)
  PROVE  Learns(o, s)
<1>1. WiresTypeOK
  BY WiresTyped DEF Knows
<1>2. UNCHANGED <<toServer, clientDb>>
  BY DEF UploadProved, Deleted
<1>3. CASE Exit(s)
  BY <1>2, <1>3, LearnsNoMore
<1>4. CASE ~ Exit(s)
  <2>1. sess' = [sess EXCEPT ![s].pc = "dbOpen"] /\ UNCHANGED ends
    BY <1>4 DEF UploadProved, Deleted
  <2>2. /\ \/ Answered(s, "columns", "Columns") /\ sess[s].req.type = "UploadNewFile"
           \/ Answered(s, "deletion", "FileDeleted")
    BY DEF UploadProved, Deleted, Operation
  <2>3. /\ \/ sess[s].pc = "columns" /\ sess[s].req.type = "UploadNewFile"
           \/ sess[s].pc = "deletion"
        /\ toClient'[s] = None /\ \A t \in Slots \ {s} : toClient'[t] = toClient[t]
    BY <1>1, <2>2, AnsweredMoves
  <2>4. sess[s].pc = "deletion" => sess[s].req.type = "DeleteFile"
    BY <1>1, ProcessByPc DEF WiresTypeOK, AwaitsDeletion, DeleteRequest
  <2>5. (toServer[s] # None => RequestOK(o, toServer[s])) /\ RecordsGenuine(o)'
    BY <1>2 DEF Knows, LinkAt, LinkOK, RecordsGenuine
  <2> QED
    BY <1>2, <2>1, <2>3, <2>4, <2>5, GoesOn
<1> QED
  BY <1>3, <1>4

\* A version of the expected size is the intended one: the file it was made from
\* is as long as the content the client knows, and begins with it.
LEMMA SizeTells ==
  ASSUME NEW o, IsMap(o, Ids, Content), NEW req \in AppendRequest, Genuine(o, req.md),
         NEW new, Genuine(o, new), IsVersion(o, req, new),
         new.size = req.md.size + Len(req.data)
  PROVE  Intended(req, new)
<1>1. PICK c \in Content : BeginsWith(c, o[req.md.id]) /\ new.root.data = c \o req.data
  BY DEF IsVersion
<1>2. o[req.md.id] \in Content /\ req.md.root.data = o[req.md.id] /\ req.data \in Content
  BY DEF Genuine, IsMap, AppendRequest
<1>3. Len(c \o req.data) = Len(c) + Len(req.data)
  BY <1>1, <1>2 DEF Content
<1>4. Len(c) = Len(o[req.md.id])
  <2>1. Len(c) + Len(req.data) = Len(o[req.md.id]) + Len(req.data)
    BY <1>1, <1>2, <1>3 DEF Genuine
  <2>2. Len(c) \in Nat /\ Len(req.data) \in Nat /\ Len(o[req.md.id]) \in Nat
    BY <1>2 DEF Content
  <2>3. \A i, j, k \in Nat : i + k = j + k => i = j
    OBVIOUS
  <2> QED
    BY <2>1, <2>2, <2>3
<1>5. c = o[req.md.id]
  BY <1>1, <1>2, <1>4, BeginsEqual
<1> QED
  BY <1>1, <1>2, <1>5 DEF Intended

\* A version is evaluated or refused.
LEMMA AppendCommittedLearns ==
  ASSUME NEW o, NEW s \in Slots, Knows(o, s), AppendCommitted(s)
  PROVE  Learns(o, s)
<1>1. WiresTypeOK
  BY WiresTyped DEF Knows
<1>2. PICK new, req : new = toClient[s].md /\ req = sess[s].req
  OBVIOUS
<1>3. Answered(s, "commit", "CompactCommit") /\ req.type = "AppendToFile" /\ UNCHANGED clientDb
  BY <1>2 DEF AppendCommitted, Operation
<1>4. /\ sess[s].pc = "commit" /\ toClient[s] # None /\ toClient[s].type = "CompactCommit"
      /\ toClient'[s] = None /\ \A t \in Slots \ {s} : toClient'[t] = toClient[t]
  BY <1>1, <1>3, AnsweredMoves
<1>5. toClient[s] \in Response /\ new \in Metadata
  BY <1>1, <1>2, <1>4, ResponseByType DEF WiresTypeOK
<1>6. RequestOK(o, req) /\ req \in AppendRequest /\ Genuine(o, req.md) /\ req.md \in Metadata
  BY <1>2, <1>3, <1>4, OperationsKnown, AppendRequestOK DEF AppendRequest
<1>7. Genuine(o, new) /\ IsVersion(o, req, new)
  BY <1>2, <1>3, <1>4 DEF Knows, LinkAt, LinkOK, AnswerOK, TurnOK
<1>8. RecordsGenuine(o)'
  BY <1>3 DEF Knows, RecordsGenuine
<1>9. CASE new.size = req.md.size + Len(req.data)
  <2>1. /\ sess' = [sess EXCEPT ![s].pc = "evaluation", ![s].new = new] /\ UNCHANGED ends
        /\ Send(s, [type |-> "RequestAppendEvaluation", old |-> req.md, new |-> new])
    BY <1>2, <1>9 DEF AppendCommitted
  <2>2. Intended(req, new)
    BY <1>6, <1>7, <1>9, SizeTells DEF Knows, Origins
  <2>3. RequestOK(o, [type |-> "RequestAppendEvaluation", old |-> req.md, new |-> new])
    BY <1>6, <1>7 DEF RequestOK, Accepts
  <2>4. /\ \A t \in Slots \ {s} : toServer'[t] = toServer[t]
        /\ toServer'[s] # None => RequestOK(o, toServer'[s])
    BY <2>1, <2>3, SendsRequest
  <2>5. PICK q : q = sess'[s]
    OBVIOUS
  <2>6. /\ q.pc = "evaluation" /\ q.req = req /\ q.new = new
        /\ \A t \in Slots \ {s} : sess'[t] = sess[t]
    <3>1. q = [sess[s] EXCEPT !.pc = "evaluation", !.new = new] /\ sess[s] \in Process
      BY <1>1, <2>1, <2>5 DEF WiresTypeOK
    <3>2. q.pc = "evaluation" /\ q.req = sess[s].req /\ q.new = new
      BY <3>1, ProcessFields
    <3> QED
      BY <1>1, <1>2, <2>1, <3>2 DEF WiresTypeOK
  <2>7. ProcessOK(o, q)
    BY <1>6, <1>7, <2>2, <2>6 DEF ProcessOK
  <2> QED
    BY <1>4, <1>8, <2>1, <2>4, <2>5, <2>6, <2>7 DEF Learns, OthersUnchanged
<1>10. CASE new.size # req.md.size + Len(req.data)
  <2> DEFINE m == [type |-> "EditOrAppendResponse", new |-> req.md, old |-> new, accepted |-> FALSE]
  <2>1. Send(s, m) /\ Exit(s)
    BY <1>2, <1>10 DEF AppendCommitted, Verdict
  <2>2. RequestOK(o, m)
    BY <1>6, <1>7 DEF RequestOK, Accepts
  <2> HIDE DEF m
  <2> QED
    BY <1>8, <2>1, <2>2, SendsRequest, LearnsNothing
<1> QED
  BY <1>9, <1>10

\* An evaluated version is accepted, refused, or left.
LEMMA AppendEvaluatedLearns ==
  ASSUME NEW o, NEW s \in Slots, Knows(o, s), AppendEvaluated(s)
  PROVE  Learns(o, s)
<1>1. WiresTypeOK
  BY WiresTyped DEF Knows
<1>2. PICK new, req : new = sess[s].new /\ req = sess[s].req
  OBVIOUS
<1>3. Answered(s, "evaluation", "AppendEvaluation") /\ UNCHANGED clientDb
  BY DEF AppendEvaluated
<1>4. /\ sess[s].pc = "evaluation"
      /\ toClient'[s] = None /\ \A t \in Slots \ {s} : toClient'[t] = toClient[t]
  BY <1>1, <1>3, AnsweredMoves
<1>5. req \in VersionRequest /\ sess[s] \in Process
  BY <1>1, <1>2, <1>4, ProcessByPc DEF WiresTypeOK, AwaitsEvaluation
<1>6. req \in AppendRequest /\ req.type = "AppendToFile" /\ RequestOK(o, req)
  BY <1>2, <1>4, <1>5, OperationsKnown
<1>7. Genuine(o, req.md) /\ Genuine(o, new) /\ Intended(req, new)
  BY <1>2, <1>4, <1>6, AppendRequestOK DEF Knows, LinkAt, LinkOK, ProcessOK
<1>8. BeginsWith(o[new.id], o[req.md.id])
  <2>1. o[req.md.id] \in Content /\ req.data \in Content
    BY <1>6, <1>7 DEF Genuine, Knows, Origins, IsMap, AppendRequest
  <2>2. o[new.id] = o[req.md.id] \o req.data
    BY <1>7 DEF Genuine, Intended
  <2> QED
    BY <2>1, <2>2, BeginsWithItself, BeginsAppended
<1>9. ASSUME NEW ok \in BOOLEAN, Verdict(s, new, ok)
      PROVE  /\ \A t \in Slots \ {s} : toServer'[t] = toServer[t]
             /\ toServer'[s] # None => RequestOK(o, toServer'[s])
  <2> DEFINE m == [type |-> "EditOrAppendResponse", new |-> req.md, old |-> new, accepted |-> ok]
  <2>1. RequestOK(o, m)
    BY <1>7, <1>8 DEF RequestOK, Accepts
  <2>2. Send(s, m)
    BY <1>2, <1>9 DEF Verdict
  <2> HIDE DEF m
  <2> QED
    BY <2>1, <2>2, SendsRequest
<1>10. RecordsGenuine(o)'
  BY <1>3 DEF Knows, RecordsGenuine
<1>11. CASE Exit(s) /\ UNCHANGED toServer
  BY <1>3, <1>11, LearnsNoMore
<1>12. ASSUME NEW ok \in BOOLEAN, Verdict(s, new, ok),
              IF ok THEN sess' = [sess EXCEPT ![s].pc = "dbOpen"] /\ UNCHANGED ends ELSE Exit(s)
       PROVE  Learns(o, s)
  <2>1. CASE ok
    <3>1. sess[s].req.type # "UploadNewFile"
      BY <1>2, <1>6
    <3> QED
      BY <1>4, <1>9, <1>10, <1>12, <2>1, <3>1, GoesOn
  <2>2. CASE ~ ok
    BY <1>9, <1>10, <1>12, <2>2, LearnsNothing
  <2> QED
    BY <2>1, <2>2
<1> QED
  BY <1>2, <1>11, <1>12 DEF AppendEvaluated

\* A version is accepted with the database open only.
LEMMA OpenClientDbLearns ==
  ASSUME NEW o, NEW s \in Slots, Knows(o, s), OpenClientDb(s)
  PROVE  Learns(o, s)
<1>1. UNCHANGED <<toServer, clientDb>> /\ sess[s].pc = "dbOpen"
  BY DEF OpenClientDb
<1>2. CASE Exit(s)
  BY <1>1, <1>2, LearnsNoMore
<1>3. CASE ~ Exit(s)
  <2>1. PICK pc : pc = IF Operation(s) = "DeleteFile" THEN "dbDelete" ELSE "dbCreate"
    OBVIOUS
  <2>2. sess' = [sess EXCEPT ![s].pc = pc] /\ UNCHANGED <<ends, toClient>>
    BY <1>3, <2>1 DEF OpenClientDb
  <2>3. (toServer[s] # None => RequestOK(o, toServer[s])) /\ RecordsGenuine(o)'
    BY <1>1 DEF Knows, LinkAt, LinkOK, RecordsGenuine
  <2> QED
    BY <1>1, <2>1, <2>2, <2>3, GoesOn
<1> QED
  BY <1>2, <1>3

\* What is recorded is genuine.
LEMMA CreateRecordLearns ==
  ASSUME NEW o, NEW s \in Slots, Knows(o, s), CreateRecord(s)
  PROVE  Learns(o, s)
<1>1. WiresTypeOK
  BY WiresTyped DEF Knows
<1>2. PICK new : new = sess[s].new
  OBVIOUS
<1>3. sess[s].pc = "dbCreate" /\ clientDb' = Put(clientDb, new.id, new) /\ UNCHANGED toServer
  BY <1>2 DEF CreateRecord
<1>4. sess[s].req \in UploadRequest \cup VersionRequest
  BY <1>1, <1>3, ProcessByPc DEF WiresTypeOK, Records
<1>5. sess[s].req.type \in {"UploadNewFile", "AppendToFile"}
  BY <1>3, <1>4, OperationsKnown, RequestTypes
<1>6. Genuine(o, new)
  BY <1>2, <1>3, <1>5 DEF Knows, LinkAt, LinkOK, ProcessOK
<1>7. RecordsGenuine(o)'
  BY <1>3, <1>6 DEF Knows, RecordsGenuine, Put
<1>8. toServer'[s] # None => RequestOK(o, toServer'[s])
  BY <1>3 DEF Knows, LinkAt, LinkOK
<1>9. CASE Exit(s)
  BY <1>3, <1>7, <1>8, <1>9, LearnsNothing
<1>10. CASE ~ Exit(s)
  <2>1. sess' = [sess EXCEPT ![s].pc = "dbDelete"] /\ UNCHANGED <<toClient, ends>>
    BY <1>10 DEF CreateRecord, CloseClientDb
  <2> QED
    BY <1>3, <1>7, <1>8, <2>1, GoesOn
<1> QED
  BY <1>9, <1>10

\* A record is deleted.
LEMMA DeleteRecordLearns ==
  ASSUME NEW o, NEW s \in Slots, Knows(o, s), DeleteRecord(s)
  PROVE  Learns(o, s)
<1>1. \E id : clientDb' = Drop(clientDb, id)
  BY DEF DeleteRecord
<1>2. Exit(s) /\ UNCHANGED toServer
  BY DEF DeleteRecord, CloseClientDb
<1>3. RecordsGenuine(o)'
  BY <1>1 DEF Knows, RecordsGenuine, Drop
<1>4. toServer'[s] # None => RequestOK(o, toServer'[s])
  BY <1>2 DEF Knows, LinkAt, LinkOK
<1> QED
  BY <1>2, <1>3, <1>4, LearnsNothing

\* Every step of a process keeps to origins.
LEMMA ClientLearns ==
  ASSUME NEW o, NEW s \in Slots, Knows(o, s), ClientStep(s) \/ ClientAbort(s)
  PROVE  Learns(o, s)
<1>1. WiresTypeOK
  BY WiresTyped DEF Knows
<1>2. CASE GiveUp(s) \/ DownloadProved(s) \/ ProofAnswered(s) \/ ClientAbort(s)
  BY <1>2, LearnsNoMore DEF GiveUp, DownloadProved, ProofAnswered, ClientAbort, CloseClientDb
<1>3. ~ (ReshapeCommitted(s) \/ EditCommitted(s))
  <2>1. sess[s].pc = "commit" => sess[s].req.type \notin {"EditFileBytes", "RequestFileReshape"}
    BY OperationsKnown
  <2> QED
    BY <2>1 DEF ReshapeCommitted, EditCommitted, Answered, Operation
<1>4. ~ (ReshapeEvaluated(s) \/ EditEvaluated(s))
  <2>1. toClient[s] # None => toClient[s].type \notin {"ReshapeEvaluation", "EditEvaluation"}
    BY DEF Knows, LinkAt, LinkOK, AnswerOK
  <2> QED
    BY <2>1 DEF ReshapeEvaluated, EditEvaluated, Answered
<1> QED
  BY <1>2, <1>3, <1>4, UploadCommittedLearns, UploadProvedLearns, FileDownloadedLearns,
     AppendCommittedLearns, AppendEvaluatedLearns, OpenClientDbLearns, CreateRecordLearns,
     DeleteRecordLearns DEF ClientStep

-----------------------------------------------------------------------------
(* All steps.                                                              *)

\* An operation starts with a request about a record, on a connection with
\* nothing under way.
Begins(s, o) ==
  \E pc \in {"commit", "file", "columns", "deletion"} : \E req :
    /\ RequestOK(o, req) /\ Begin(s, pc, req)
    /\ pc = "columns" => req.type = "RequestProof"

\* Every operation starts in that way.
LEMMA StartBegins ==
  ASSUME TypeOK, OnlyAppends, NEW o, RecordsGenuine(o), NEW s \in Slots, Start(s)
  PROVE  Begins(s, o)
<1> USE DEF Begins
<1>1. ASSUME NEW id \in DOMAIN clientDb
      PROVE  clientDb[id] \in Metadata /\ Genuine(o, clientDb[id])
  BY <1>1 DEF RecordsGenuine, TypeOK, ClientTypeOK, IsMap
<1>2. ASSUME NEW name \in Names, NEW dims \in Shapes, StartUpload(s, name, dims)
      PROVE  Begins(s, o)
  <2> DEFINE req == [type |-> "UploadNewFile", name |-> name, data |-> local[name], dims |-> dims]
  <2>1. req \in UploadRequest
    BY DEF TypeOK, ClientTypeOK, UploadRequest
  <2>2. RequestOK(o, req) /\ Begin(s, "commit", req)
    BY <1>2, <2>1 DEF StartUpload, RequestOK
  <2> HIDE DEF req
  <2> QED
    BY <2>2
<1>3. ASSUME NEW id \in DOMAIN clientDb, StartDownload(s, clientDb[id])
      PROVE  Begins(s, o)
  <2> DEFINE req == [type |-> "RequestFile", md |-> clientDb[id]]
  <2>1. RequestOK(o, req) /\ Begin(s, "file", req)
    BY <1>1, <1>3 DEF StartDownload, RequestOK, FileRequest
  <2> HIDE DEF req
  <2> QED
    BY <2>1
<1>4. ASSUME NEW id \in DOMAIN clientDb, StartProof(s, clientDb[id])
      PROVE  Begins(s, o)
  <2> DEFINE req == [type |-> "RequestProof", md |-> clientDb[id]]
  <2>1. RequestOK(o, req) /\ Begin(s, "columns", req) /\ req.type = "RequestProof"
    BY <1>1, <1>4 DEF StartProof, RequestOK, ProofRequest
  <2> HIDE DEF req
  <2> QED
    BY <2>1
<1>5. ASSUME NEW id \in DOMAIN clientDb, StartDelete(s, clientDb[id])
      PROVE  Begins(s, o)
  <2> DEFINE req == [type |-> "DeleteFile", md |-> clientDb[id]]
  <2>1. RequestOK(o, req) /\ Begin(s, "deletion", req)
    BY <1>1, <1>5 DEF StartDelete, RequestOK, DeleteRequest
  <2> HIDE DEF req
  <2> QED
    BY <2>1
<1>6. ASSUME NEW id \in DOMAIN clientDb, NEW data \in Patches, StartAppend(s, clientDb[id], data)
      PROVE  Begins(s, o)
  <2> DEFINE req == [type |-> "AppendToFile", md |-> clientDb[id], data |-> data]
  <2>1. data \in Content
    BY PatchesAssumption
  <2>2. RequestOK(o, req) /\ Begin(s, "commit", req)
    BY <1>1, <1>6, <2>1 DEF StartAppend, RequestOK, AppendRequest
  <2> HIDE DEF req
  <2> QED
    BY <2>2
<1> QED
  BY <1>2, <1>3, <1>4, <1>5, <1>6 DEF Start, OnlyAppends

\* An operation that starts waits for the answer to its own request.
LEMMA BeginStep ==
  ASSUME TypeOK, ConnectionsOK, NEW o, Links(o), NEW s \in Slots, Begins(s, o), UNCHANGED srv
  PROVE  ConnectionsOK' /\ Links(o)'
<1>1. WiresTypeOK
  BY WiresTyped
<1>2. PICK pc, req :
        /\ pc \in {"commit", "file", "columns", "deletion"}
        /\ RequestOK(o, req) /\ Begin(s, pc, req)
        /\ pc = "columns" => req.type = "RequestProof"
  BY DEF Begins
<1>3. /\ ends[s] = {} /\ ends'[s] = {"client", "server"}
      /\ sess'[s] = [pc |-> pc, req |-> req, new |-> None, file |-> << >>]
      /\ toServer'[s] = req /\ UNCHANGED toClient
      /\ \A t \in Slots \ {s} : ends'[t] = ends[t] /\ sess'[t] = sess[t] /\ toServer'[t] = toServer[t]
  BY <1>1, <1>2 DEF Begin, WiresTypeOK
<1>4. toClient[s] = None /\ srv[s].pc = "wait"
  BY <1>3 DEF ConnectionsOK
<1>5. ConnectionsOK'
  BY <1>3 DEF ConnectionsOK
<1>6. LinkOK(o, sess'[s], toServer'[s], srv'[s], toClient'[s])
  <2>1. ProcessOK(o, sess'[s])
    BY <1>2, <1>3 DEF ProcessOK
  <2>2. TaskOK(o, srv[s])
    BY DEF Links, LinkOK
  <2>3. TurnOK(o, sess'[s], toServer'[s], srv[s], toClient[s])
    BY <1>3, <1>4 DEF TurnOK
  <2> QED
    BY <1>2, <1>3, <1>4, <2>1, <2>2, <2>3 DEF LinkOK
<1>7. ASSUME NEW t \in Slots \ {s}
      PROVE  LinkOK(o, sess'[t], toServer'[t], srv'[t], toClient'[t])
  BY <1>3, <1>7 DEF Links
<1> QED
  BY <1>5, <1>6, <1>7 DEF Links

\* A step of a task keeps the other connections.
LEMMA ServeStep ==
  ASSUME TypeOK, ConnectionsOK, FromOrigins, NEW s \in Slots, Serve(s)
  PROVE  ConnectionsOK' /\ FromOrigins'
<1>1. WiresTypeOK
  BY WiresTyped
<1>2. ServerStep(s) /\ UNCHANGED <<sess, clientDb>> /\ TaskMoves(s)
  BY <1>1, ServerStepMoves DEF Serve, clientVars
<1>3. PICK o : Origins(o) /\ Links(o) /\ FilesBegin(o) /\ RecordsGenuine(o)
  BY DEF FromOrigins
<1>4. Grounded(o, s)
  BY <1>3 DEF Grounded, Links, LinkAt
<1>5. PICK p : /\ Origins(p)' /\ Extends(p, o) /\ FilesBegin(p)'
               /\ LinkOK(p, sess[s], toServer'[s], srv'[s], toClient'[s])
  BY <1>2, <1>4, ServerGrounded DEF StaysGrounded
<1>6. ASSUME NEW t \in Slots \ {s}
      PROVE  LinkOK(p, sess'[t], toServer'[t], srv'[t], toClient'[t])
  <2>1. LinkOK(p, sess[t], toServer[t], srv[t], toClient[t])
    BY <1>3, <1>5, LinksExtend DEF Links
  <2> QED
    BY <1>2, <2>1 DEF TaskMoves, OthersUnchanged
<1>7. Links(p)'
  BY <1>2, <1>5, <1>6 DEF Links
<1>8. RecordsGenuine(p)'
  BY <1>2, <1>3, <1>5 DEF RecordsGenuine, Genuine, Extends
<1>9. ConnectionsOK'
  BY <1>2 DEF ConnectionsOK, TaskMoves, OthersUnchanged
<1> QED
  BY <1>5, <1>7, <1>8, <1>9 DEF FromOrigins

\* So does a step of a process.
LEMMA ProcessStep ==
  ASSUME TypeOK, ConnectionsOK, FromOrigins, NEW s \in Slots, Client(s) \/ Abort(s)
  PROVE  ConnectionsOK' /\ FromOrigins'
<1>1. (ClientStep(s) \/ ClientAbort(s)) /\ UNCHANGED <<files, issued, srv>>
  BY DEF Client, Abort, serverVars
<1>2. PICK o : Origins(o) /\ Links(o) /\ FilesBegin(o) /\ RecordsGenuine(o)
  BY DEF FromOrigins
<1>3. Knows(o, s)
  BY <1>2 DEF Knows, Links, LinkAt
<1>4. Learns(o, s)
  BY <1>1, <1>3, ClientLearns
<1>5. LinkOK(o, sess'[s], toServer'[s], srv'[s], toClient'[s])
  <2>1. TaskOK(o, srv[s]) /\ (toClient[s] # None => AnswerOK(o, toClient[s]))
    BY <1>2 DEF Links, LinkOK
  <2>2. TurnOK(o, sess'[s], toServer'[s], srv'[s], toClient'[s])
    BY <1>4 DEF Learns, TurnOK
  <2> QED
    BY <1>1, <1>4, <2>1, <2>2 DEF Learns, LinkOK
<1>6. ASSUME NEW t \in Slots \ {s}
      PROVE  LinkOK(o, sess'[t], toServer'[t], srv'[t], toClient'[t])
  BY <1>1, <1>2, <1>4, <1>6 DEF Learns, OthersUnchanged, Links
<1>7. Links(o)' /\ RecordsGenuine(o)'
  BY <1>4, <1>5, <1>6 DEF Links, Learns
<1>8. Origins(o)' /\ FilesBegin(o)'
  BY <1>1, <1>2 DEF Origins, FilesBegin
<1>9. ConnectionsOK'
  BY <1>1, <1>4 DEF ConnectionsOK, Learns, OthersUnchanged
<1> QED
  BY <1>7, <1>8, <1>9 DEF FromOrigins

\* After a crash no task has anything in hand.
LEMMA CrashStep ==
  ASSUME TypeOK, ConnectionsOK, FromOrigins, Crash
  PROVE  ConnectionsOK' /\ FromOrigins'
<1>1. WiresTypeOK
  BY WiresTyped
<1>2. /\ UNCHANGED <<sess, clientDb, files, issued, toClient>>
      /\ \A s \in Slots : /\ toServer'[s] = None /\ srv'[s] = IdleTask
                         /\ ends'[s] = ends[s] \ {"server"}
  BY <1>1 DEF Crash, ServerCrash, clientVars, storeVars
<1>3. PICK o : Origins(o) /\ Links(o) /\ FilesBegin(o) /\ RecordsGenuine(o)
  BY DEF FromOrigins
<1>4. Origins(o)' /\ FilesBegin(o)' /\ RecordsGenuine(o)'
  BY <1>2, <1>3 DEF Origins, FilesBegin, RecordsGenuine
<1>5. IdleTask.pc = "wait"
  BY DEF IdleTask
<1>6. ConnectionsOK'
  BY <1>2, <1>5 DEF ConnectionsOK
<1>7. ASSUME NEW s \in Slots
      PROVE  LinkOK(o, sess[s], None, IdleTask, toClient[s])
  <2>1. LinkOK(o, sess[s], toServer[s], srv[s], toClient[s])
    BY <1>3 DEF Links
  <2> QED
    BY <1>5, <2>1, IdleTaskOK DEF LinkOK, TurnOK
<1>8. Links(o)'
  BY <1>2, <1>7 DEF Links
<1> QED
  BY <1>4, <1>6, <1>8 DEF FromOrigins

\* Everything comes from origins at the start.
LEMMA AppendInit == Init => ConnectionsOK /\ FromOrigins
<1> SUFFICES ASSUME Init
             PROVE  ConnectionsOK /\ FromOrigins
  OBVIOUS
<1>1. Origins(EmptyMap) /\ FilesBegin(EmptyMap) /\ RecordsGenuine(EmptyMap)
  BY EmptyIsMap DEF Init, ServerInit, Origins, FilesBegin, RecordsGenuine, EmptyMap
<1>2. ASSUME NEW o
      PROVE  LinkOK(o, IdleProcess, None, IdleTask, None)
  BY DEF LinkOK, ProcessOK, TaskOK, TurnOK, IdleProcess, IdleTask
<1>3. Links(EmptyMap)
  BY <1>2 DEF Links, Init, NetInit, ServerInit
<1> QED
  BY <1>1, <1>3, ConnectionsInit DEF FromOrigins

\* Every step keeps it so.
LEMMA AppendStep ==
  ASSUME OnlyAppends, TypeOK, ConnectionsOK, FromOrigins, [Next]_vars
  PROVE  ConnectionsOK' /\ FromOrigins'
<1>1. ASSUME NEW s \in Slots, Call(s)
      PROVE  ConnectionsOK' /\ FromOrigins'
  <2>1. PICK o : Origins(o) /\ Links(o) /\ FilesBegin(o) /\ RecordsGenuine(o)
    BY DEF FromOrigins
  <2>2. Begins(s, o) /\ UNCHANGED <<srv, files, issued>>
    BY <1>1, <2>1, StartBegins DEF Call, serverVars
  <2>3. UNCHANGED clientDb
    BY <2>2 DEF Begins, Begin
  <2>4. Origins(o)' /\ FilesBegin(o)' /\ RecordsGenuine(o)'
    BY <2>1, <2>2, <2>3 DEF Origins, FilesBegin, RecordsGenuine
  <2>5. ConnectionsOK' /\ Links(o)'
    BY <2>1, <2>2, BeginStep
  <2> QED
    BY <2>4, <2>5 DEF FromOrigins
<1>2. CASE UNCHANGED vars
  <2>1. PICK o : Origins(o) /\ Links(o) /\ FilesBegin(o) /\ RecordsGenuine(o)
    BY DEF FromOrigins
  <2>2. Origins(o)' /\ Links(o)' /\ FilesBegin(o)' /\ RecordsGenuine(o)' /\ ConnectionsOK'
    BY <1>2, <2>1
    DEF vars, netVars, serverVars, clientVars, Origins, Links, FilesBegin, RecordsGenuine,
        ConnectionsOK
  <2> QED
    BY <2>2 DEF FromOrigins
<1> QED
  BY <1>1, <1>2, ServeStep, ProcessStep, CrashStep DEF Next

\* A process that accepts a version knows that it is the intended one.
LEMMA AcceptedAreIntended ==
  ASSUME TypeOK, FromOrigins
  PROVE  AcceptedVersionIsIntended
<1>1. PICK o : Links(o)
  BY DEF FromOrigins
<1>2. ASSUME NEW s \in Slots, sess[s].pc \in {"dbOpen", "dbCreate", "dbDelete"}
      PROVE  /\ sess[s].req.type = "AppendToFile" => Intended(sess[s].req, sess[s].new)
             /\ sess[s].req.type # "EditFileBytes"
  <2>1. ProcessOK(o, sess[s]) /\ RequestOK(o, sess[s].req)
    BY <1>1, <1>2 DEF Links, LinkOK, ProcessOK
  <2>2. sess[s].req.type # "EditFileBytes"
    BY <2>1, RequestTypes DEF RequestOK, AppendRequest
  <2> QED
    BY <1>2, <2>1, <2>2 DEF ProcessOK
<1> QED
  BY <1>2 DEF AcceptedVersionIsIntended, Intended

\* While files are uploaded, appended to, downloaded, proved and deleted, a
\* client accepts and records a version only if it is the content it knows with
\* its data appended: append_to_file (client.rs) compares sizes before it asks
\* for an evaluation, and what handle_client_append_or_edit_response
\* (server.rs) renames over a file, for whatever client and through crashes,
\* begins with the content that the file's name was drawn for.
THEOREM AppendsAreIntended ==
  ASSUME OnlyAppends
  PROVE  Spec => []AcceptedVersionIsIntended
<1>1. Init => AppendInv
  BY AppendInit, InitType DEF AppendInv
<1>2. AppendInv /\ [Next]_vars => AppendInv'
  BY AppendStep, NextType DEF AppendInv
<1>3. AppendInv => AcceptedVersionIsIntended
  BY AcceptedAreIntended DEF AppendInv
<1> QED
  BY <1>1, <1>2, <1>3, PTL DEF Spec
=============================================================================
