------------------------------ MODULE PosSystem -----------------------------
(***************************************************************************)
(* Client processes and the storage server together, and what a user of    *)
(* the system expects of them.                                             *)
(***************************************************************************)
EXTENDS PosServer, PosClient, FiniteSets

CONSTANTS
  Operations,  \* the client functions that are called
  Faults,      \* the faults that happen: subset of {"server", "client"}
  Patches,     \* the data that is appended or edited in
  EditStarts,  \* the offsets that edits begin at
  LocalFiles   \* [Names -> Content]: the local files at the start

ASSUME LocalFilesAssumption == LocalFiles \in [Names -> Content]
ASSUME PatchesAssumption    == Patches \subseteq Content

vars == <<netVars, serverVars, clientVars>>

Init ==
  /\ NetInit
  /\ ServerInit
  /\ sess = [s \in Slots |-> IdleProcess]
  /\ clientDb = EmptyMap
  /\ local = LocalFiles

\* The bound on file versions: an operation that draws a Ulid starts only
\* while one is left for it.
UlidsWanted == {t \in Slots : toServer[t] # None /\ toServer[t].type \in DrawsUlid}
UlidLeft    == Cardinality(issued) + Cardinality(UlidsWanted) < Cardinality(Ids)

Start(s) ==
  \/ /\ "upload_file" \in Operations /\ UlidLeft
     /\ \E name \in Names, dims \in Shapes : StartUpload(s, name, dims)
  \/ \E id \in DOMAIN clientDb :
       LET md == clientDb[id] IN
       \/ "download_file" \in Operations /\ StartDownload(s, md)
       \/ "request_proof" \in Operations /\ StartProof(s, md)
       \/ "delete_file" \in Operations /\ StartDelete(s, md)
       \/ /\ "reshape_file" \in Operations /\ UlidLeft
          /\ \E dims \in Shapes : StartReshape(s, md, dims)
       \/ /\ "append_to_file" \in Operations /\ UlidLeft
          /\ \E data \in Patches : StartAppend(s, md, data)
       \/ /\ "edit_file" \in Operations /\ UlidLeft
          /\ \E data \in Patches, start \in EditStarts \cap (0..md.size) :
               StartEdit(s, md, start, data)

Call(s)   == Start(s) /\ UNCHANGED serverVars
Serve(s)  == ServerStep(s) /\ UNCHANGED clientVars
Client(s) == ClientStep(s) /\ UNCHANGED serverVars
Abort(s)  == "client" \in Faults /\ ClientAbort(s) /\ UNCHANGED serverVars
Crash     == "server" \in Faults /\ ServerCrash /\ UNCHANGED clientVars

Next ==
  \/ \E s \in Slots : Call(s) \/ Serve(s) \/ Client(s) \/ Abort(s)
  \/ Crash

\* Each tokio task and each client process keeps running while it can.
Fairness == \A s \in Slots : WF_vars(Serve(s)) /\ WF_vars(Client(s))

Spec == Init /\ [][Next]_vars /\ Fairness

-----------------------------------------------------------------------------
(* Safety.                                                                 *)

\* Every variable holds values of its type: in particular a process and a
\* handler that are at a step have received what the step uses.
TypeOK == NetTypeOK /\ ServerTypeOK /\ ClientTypeOK

\* upload_file records the metadata only of a file that the server still holds
\* as it was sent, with its table entry: whatever other clients do between
\* the proof and the record, and if the server crashed in between.
UploadedIsHeld ==
  \A s \in Slots :
    /\ sess[s].pc \in {"dbOpen", "dbCreate"}
    /\ Operation(s) = "UploadNewFile"
    => LET new == sess[s].new IN
       /\ new.id \in DOMAIN files
       /\ files[new.id] = sess[s].req.data
       /\ new.root = Commit(sess[s].req.data, sess[s].req.dims)
       /\ new.id \in DOMAIN table

\* append_to_file and edit_file accept a version only if it is the committed
\* content of the old one with the data appended or written in, also when their
\* copy of the metadata is stale.
AcceptedVersionIsIntended ==
  \A s \in Slots :
    sess[s].pc \in {"dbOpen", "dbCreate", "dbDelete"} =>
      LET req == sess[s].req IN
      /\ req.type = "AppendToFile"
           => sess[s].new.root.data = req.md.root.data \o req.data
      /\ req.type = "EditFileBytes"
           => sess[s].new.root.data = Splice(req.md.root.data, req.start, req.data)

\* When the client learns that a file is deleted, neither its file nor its
\* table entry is left, and no other handler brings one back.
DeletedIsGone ==
  \A s \in Slots :
    /\ sess[s].pc \in {"dbOpen", "dbDelete"}
    /\ Operation(s) = "DeleteFile"
    => LET id == sess[s].req.md.id IN id \notin DOMAIN files /\ id \notin DOMAIN table

\* While files are only uploaded and deleted, a table entry always has its
\* file: an upload writes the file first and a deletion takes the entry first,
\* so that a crash or a busy database in between leaves a file without an
\* entry and never an entry without a file.
EntryHasFile == DOMAIN table \subseteq DOMAIN files

\* Nothing is under way: every process has returned and every task has ended.
Quiescent == \A s \in Slots : ends[s] = {}

\* What the client records it can get back: the server has a file under the
\* recorded id, and the recorded root commits to its content.
RecordHasFile ==
  Quiescent =>
    \A id \in DOMAIN clientDb :
      /\ id \in DOMAIN files
      /\ clientDb[id].root = Commit(files[id], clientDb[id].dims)

\* The file that a handler removes because its version was rejected is the
\* unaccepted one, and not one that a client has on record.
RejectionSparesRecorded ==
  \A s \in Slots :
    /\ srv[s].pc = "remove"
    /\ srv[s].msg.type = "EditOrAppendResponse"
    /\ ~ srv[s].msg.accepted
    => FileToRemove(srv[s].msg) \notin DOMAIN files \cap DOMAIN clientDb

\* What the server keeps is recorded by a client: no file of a failed or
\* superseded operation is left behind.
NoOrphanFile == Quiescent => DOMAIN files \cup DOMAIN table \subseteq DOMAIN clientDb

\* A download writes nothing but the content the client's metadata commits to,
\* whatever happened between the answer with the file and the one with the proof.
DownloadIsCommitted ==
  [][\A n \in Names : local'[n] # local[n] =>
       \E s \in Slots : /\ sess[s].pc = "columns"
                        /\ Operation(s) = "RequestFile"
                        /\ sess[s].req.md.name = n
                        /\ local'[n] = sess[s].req.md.root.data]_vars

\* The directory of files is a store of immutable objects.
Directory == INSTANCE ObjectStore
  WITH ObjectNames <- Ids, Objects <- Content, objects <- files, drawn <- issued

\* Every step of the system is a step of that store: no upload, reshape or
\* delete, and no crash in the middle of one, overwrites, copies or loses
\* another file.
ImplementsObjectStore == Directory!Spec

-----------------------------------------------------------------------------
(* Liveness.                                                               *)

\* Every operation returns and every connection's task ends: no answer is
\* awaited for ever, neither after an error, a lost task nor a busy database.
OperationEnds == \A s \in Slots : ends[s] # {} ~> ends[s] = {}

=============================================================================
