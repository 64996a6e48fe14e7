------------------------------ MODULE PosServer -----------------------------
(***************************************************************************)
(* The storage server (networking/server.rs).  One task per connection     *)
(* runs handle_client_loop: it takes a request, runs its handler to the    *)
(* end and answers, so handlers of different connections interleave at     *)
(* their awaits.  A handler is a short program over the files on disk and  *)
(* the metadata table; srv[s].pc is the effect it will perform next.       *)
(***************************************************************************)
EXTENDS PosNet, EditedRows

VARIABLES
  files,    \* the .porraw files: a map from Ulid to content
  table,    \* SERVER_METADATA_TABLE: a map from Ulid to metadata
  issued,   \* the Ulids drawn so far
  srv       \* [Slots -> state of the handler task]

storeVars  == <<files, table, issued>>
serverVars == <<files, table, issued, srv>>

IdleTask == [pc |-> "wait", msg |-> None, md |-> None, found |-> FALSE]

\* msg is the request in hand, md the metadata of the version it wrote, found
\* whether the table had the entry it deleted.
CreatingTask == [pc : {"open", "create"}, md : Metadata, found : {FALSE},
                 msg : UploadRequest \cup EditRequest \cup AppendRequest]
DeletingTask == [pc : {"open", "delete"}, md : {None}, found : {FALSE},
                 msg : DeleteRequest \cup VersionResponse]
RenamingTask == [pc : {"rename"}, md : {None}, found : {FALSE}, msg : VersionResponse]
RemovingTask == [pc : {"remove"}, md : {None}, found : BOOLEAN,
                 msg : DeleteRequest \cup VersionResponse]

Task == {IdleTask} \cup CreatingTask \cup DeletingTask \cup RenamingTask \cup RemovingTask

ServerTypeOK ==
  /\ IsMap(files, Ids, Content)
  /\ IsMap(table, Ids, Metadata)
  /\ issued \subseteq Ids
  /\ srv \in [Slots -> Task]

ServerInit ==
  /\ files = EmptyMap
  /\ table = EmptyMap
  /\ issued = {}
  /\ srv = [s \in Slots |-> IdleTask]

-----------------------------------------------------------------------------
(* The loop of a connection.                                               *)

\* The handler returns m and the loop sends it, to nobody if the client left.
Reply(s, m) ==
  /\ toClient' = IF "client" \in ends[s] THEN [toClient EXCEPT ![s] = m] ELSE toClient
  /\ srv' = [srv EXCEPT ![s] = IdleTask]
  /\ UNCHANGED ends

Fail(s) == Reply(s, [type |-> "ErrorResponse"])

\* Mistake: the panic is caught and the loop goes on without answering.
PanicSwallowed(s) ==
  /\ srv' = [srv EXCEPT ![s] = IdleTask]
  /\ UNCHANGED <<ends, toClient>>

\* A panic ends the task: its connection closes without an answer.
Panic(s) ==
  /\ ends' = [ends EXCEPT ![s] = @ \ {"server"}]
  /\ srv' = [srv EXCEPT ![s] = IdleTask]
  /\ UNCHANGED toClient

\* The handler goes on: its next effect is pc.
Go(s, m, pc, md) ==
  /\ srv' = [srv EXCEPT ![s] = [pc |-> pc, msg |-> m, md |-> md, found |-> FALSE]]
  /\ UNCHANGED <<toClient, ends>>

Takes(s, type) ==
  /\ srv[s].pc = "wait"
  /\ "server" \in ends[s]
  /\ toServer[s] # None
  /\ toServer[s].type = type
  /\ toServer' = [toServer EXCEPT ![s] = None]
  /\ UNCHANGED dbLock

\* The client closed its end: the loop finds the end of the stream and returns.
EndOfStream(s) ==
  /\ srv[s].pc = "wait"
  /\ ends[s] = {"server"}
  /\ toServer[s] = None
  /\ ends' = [ends EXCEPT ![s] = {}]
  /\ UNCHANGED <<toServer, toClient, dbLock, serverVars>>

-----------------------------------------------------------------------------
(* Requests, up to the first effect that other tasks can see.              *)

HasFile(md) == md.id \in DOMAIN files

\* Ulid::generate never returns a Ulid twice.
FreshUlids == Ids \ issued

\* The file is written before its table entry is created.
HandleUploadNewFile(s) ==
  /\ Takes(s, "UploadNewFile")
  /\ LET m == toServer[s] IN
     \/ /\ ~ (DimsOk(m.dims) /\ CommitOk(m.data, m.dims))
        /\ Fail(s)
        /\ UNCHANGED storeVars
     \/ /\ DimsOk(m.dims) /\ CommitOk(m.data, m.dims)
        /\ \E id \in FreshUlids :
             /\ files' = Put(files, id, m.data)
             /\ issued' = issued \cup {id}
             /\ Go(s, m, "open", CommittedMetadata(id, m.name, m.data, m.dims))
        /\ UNCHANGED table

HandleRequestFile(s) ==
  /\ Takes(s, "RequestFile")
  /\ LET md == toServer[s].md IN
       IF HasFile(md) THEN Reply(s, [type |-> "File", data |-> files[md.id]]) ELSE Fail(s)
  /\ UNCHANGED storeVars

\* The shape is the one the client sends: check_file_metadata checks nothing.
HandleRequestProof(s) ==
  /\ Takes(s, "RequestProof")
  /\ LET md == toServer[s].md IN
       IF HasFile(md) /\ CommitOk(files[md.id], md.dims)
         THEN Reply(s, [type |-> "Columns", data |-> files[md.id], dims |-> md.dims])
         ELSE Fail(s)
  /\ UNCHANGED storeVars

\* Mistake: the commitment is made before the change is written.
StaleVersion(md, id, old, new, rows) ==
  [md EXCEPT !.id = id, !.rows = rows, !.size = Len(new), !.root = Commit(old, md.dims)]

\* The metadata of the version new of a file whose content was old.
VersionMetadata(md, id, old, new, rows) ==
  [md EXCEPT !.id = id, !.rows = rows, !.size = Len(new), !.root = Commit(new, md.dims)]

\* The new version is written next to the old one, under a new Ulid.
NewVersion(s, m, data, rows) ==
  \E id \in FreshUlids :
    /\ files' = Put(files, id, data)
    /\ issued' = issued \cup {id}
    /\ Go(s, m, "open", VersionMetadata(m.md, id, files[m.md.id], data, rows))
    /\ UNCHANGED table

\* num_rows is kept from the metadata the client sent.
HandleEditFileBytes(s) ==
  /\ Takes(s, "EditFileBytes")
  /\ LET m == toServer[s] IN
     \/ ~ HasFile(m.md) /\ Fail(s) /\ UNCHANGED storeVars
     \/ /\ HasFile(m.md)
        /\ NewVersion(s, m, Splice(files[m.md.id], m.start, m.data), m.md.rows)

HandleAppendToFile(s) ==
  /\ Takes(s, "AppendToFile")
  /\ LET m == toServer[s] IN
     \/ ~ HasFile(m.md) /\ Fail(s) /\ UNCHANGED storeVars
     \/ /\ HasFile(m.md)
        /\ LET data == files[m.md.id] \o m.data
           IN  NewVersion(s, m, data, RowCount(data, m.md.dims))

\* A reshape only computes the new commitment: no file, no table entry.
HandleRequestFileReshape(s) ==
  /\ Takes(s, "RequestFileReshape")
  /\ LET m == toServer[s]
         ok == HasFile(m.md) /\ CommitOk(files[m.md.id], m.dims) IN
     \/ ~ ok /\ Fail(s) /\ UNCHANGED storeVars
     \/ /\ ok
        /\ \E id \in FreshUlids :
             /\ issued' = issued \cup {id}
             /\ Reply(s, [type |-> "CompactCommit",
                          md |-> [m.md EXCEPT !.id = id, !.dims = m.dims,
                                    !.rows = RowCount(files[m.md.id], m.dims),
                                    !.root = Commit(files[m.md.id], m.dims)]])
        /\ UNCHANGED <<files, table>>

HandleRequestReshapeEvaluation(s) ==
  /\ Takes(s, "RequestReshapeEvaluation")
  /\ LET old == toServer[s].old IN
       IF HasFile(old) THEN Reply(s, [type |-> "ReshapeEvaluation", data |-> files[old.id]])
                       ELSE Fail(s)
  /\ UNCHANGED storeVars

HandleRequestAppendEvaluation(s) ==
  /\ Takes(s, "RequestAppendEvaluation")
  /\ LET m == toServer[s]
         slice == AppendSlice(m.old, m.new) IN
     \/ ~ (HasFile(m.old) /\ HasFile(m.new)) /\ Fail(s)
     \/ /\ HasFile(m.old) /\ HasFile(m.new)
        /\ ~ SliceOk(slice.first, slice.last, FieldLen(files[m.new.id]))
        /\ Panic(s)
     \/ /\ HasFile(m.old) /\ HasFile(m.new)
        /\ SliceOk(slice.first, slice.last, FieldLen(files[m.new.id]))
        /\ Reply(s, [type |-> "AppendEvaluation",
                     old |-> files[m.old.id], new |-> files[m.new.id],
                     rowLen |-> slice.last + 1 - slice.first])
  /\ UNCHANGED storeVars

HandleRequestEditEvaluation(s) ==
  /\ Takes(s, "RequestEditEvaluation")
  /\ LET m == toServer[s] IN
     \/ ~ (HasFile(m.old) /\ HasFile(m.new)) /\ Fail(s)
     \/ /\ HasFile(m.old) /\ HasFile(m.new)
        /\ LET len == Len(files[m.old.id])
               slice == EditSlice(m, len)
           IN  IF SliceOk(slice.first, slice.last, len)
                 THEN Reply(s, [type |-> "EditEvaluation",
                                old |-> files[m.old.id], new |-> files[m.new.id],
                                rowBytes |-> slice.last + 1 - slice.first])
                 ELSE Panic(s)
  /\ UNCHANGED storeVars

\* Mistake: the file is removed before the database is opened.
HandleRequestRemovesFirst(s) ==
  /\ \E type \in {"DeleteFile", "ReshapeResponse", "EditOrAppendResponse"} : Takes(s, type)
  /\ Go(s, toServer[s], "open", None)
  /\ files' = IF toServer[s].type = "DeleteFile" THEN Drop(files, toServer[s].md.id) ELSE files
  /\ UNCHANGED <<table, issued>>

\* Deleting, and the client's verdict on a new version, start with the database.
HandleDatabaseRequest(s) ==
  /\ \E type \in {"DeleteFile", "ReshapeResponse", "EditOrAppendResponse"} : Takes(s, type)
  /\ Go(s, toServer[s], "open", None)
  /\ UNCHANGED storeVars

-----------------------------------------------------------------------------
(* The effects of the handlers that use the database.                      *)

Accepts(m) == m.type \in {"ReshapeResponse", "EditOrAppendResponse"} /\ m.accepted

Release(s) == dbLock' = dbLock \ {<<"server", s>>}

\* The effect that follows the open of the database.
AfterOpen(m) ==
  IF m.type \in DrawsUlid THEN "create" ELSE IF Accepts(m) THEN "rename" ELSE "delete"

\* Mistake: a handler that finds the database busy goes on without it.
OpenIsOptional(s) ==
  /\ srv[s].pc = "open"
  /\ \/ /\ DbBusy("server") /\ srv[s].msg.type \in DrawsUlid
        /\ Reply(s, [type |-> "CompactCommit", md |-> srv[s].md])
        /\ UNCHANGED dbLock
     \/ /\ DbBusy("server") => srv[s].msg.type \notin DrawsUlid
        /\ dbLock' = IF DbBusy("server") THEN dbLock ELSE dbLock \cup {<<"server", s>>}
        /\ srv' = [srv EXCEPT ![s].pc = IF DbBusy("server") THEN "remove"
                                                           ELSE AfterOpen(srv[s].msg),
                              ![s].found = DbBusy("server")]
        /\ UNCHANGED <<toClient, ends>>
  /\ UNCHANGED <<toServer, storeVars>>

\* A failing open is returned to the client as an error; what the handler did
\* to the disk before it stays.
OpenDatabase(s) ==
  /\ srv[s].pc = "open"
  /\ \/ /\ DbBusy("server")
        /\ Fail(s)
        /\ UNCHANGED dbLock
     \/ /\ ~ DbBusy("server")
        /\ dbLock' = dbLock \cup {<<"server", s>>}
        /\ srv' = [srv EXCEPT ![s].pc = AfterOpen(srv[s].msg)]
        /\ UNCHANGED <<toClient, ends>>
  /\ UNCHANGED <<toServer, storeVars>>

CreateEntry(s) ==
  /\ srv[s].pc = "create"
  /\ table' = Put(table, srv[s].md.id, srv[s].md)
  /\ Reply(s, [type |-> "CompactCommit", md |-> srv[s].md])
  /\ Release(s)
  /\ UNCHANGED <<toServer, files, issued>>

\* Mistake: the file is copied.
Copied(old, new) == Put(files, new, files[old])

Renamed(old, new) == Put(Drop(files, old), new, files[old])

\* An accepted version: the old file is renamed to the new name.
RenameFile(s) ==
  /\ srv[s].pc = "rename"
  /\ LET m == srv[s].msg IN
     \/ /\ ~ HasFile(m.old)
        /\ Fail(s)
        /\ Release(s)
        /\ UNCHANGED files
     \/ /\ HasFile(m.old)
        /\ files' = Renamed(m.old.id, m.new.id)
        /\ srv' = [srv EXCEPT ![s].pc = "delete"]
        /\ UNCHANGED <<toClient, ends, dbLock>>
  /\ UNCHANGED <<toServer, table, issued>>

\* Mistake: a verdict deletes the entry of the new version.
EntryOfNewVersion(m) == IF m.type = "DeleteFile" THEN m.md.id ELSE m.new.id

\* The entry a handler deletes: the old one, accepted or not.
EntryToDelete(m) == IF m.type = "DeleteFile" THEN m.md.id ELSE m.old.id

\* delete_file closes the database here; a reshape is done.
DeleteEntry(s) ==
  /\ srv[s].pc = "delete"
  /\ LET m == srv[s].msg
         id == EntryToDelete(m) IN
     /\ table' = Drop(table, id)
     /\ \/ /\ m.type = "ReshapeResponse"
           /\ Reply(s, [type |-> "CompactCommit", md |-> IF m.accepted THEN m.new ELSE m.old])
           /\ Release(s)
        \/ /\ m.type # "ReshapeResponse"
           /\ srv' = [srv EXCEPT ![s].pc = "remove", ![s].found = id \in DOMAIN table]
           /\ IF m.type = "DeleteFile" THEN Release(s) ELSE UNCHANGED dbLock
           /\ UNCHANGED <<toClient, ends>>
  /\ UNCHANGED <<toServer, files, issued>>

\* The file a handler removes: the old version of an accepted change (which
\* the rename took away), the new version of a rejected one.
FileToRemove(m) ==
  IF m.type = "DeleteFile" THEN m.md.id ELSE IF m.accepted THEN m.old.id ELSE m.new.id

RemoveFile(s) ==
  /\ srv[s].pc = "remove"
  /\ LET m == srv[s].msg
         id == FileToRemove(m)
         existed == id \in DOMAIN files IN
     /\ files' = Drop(files, id)
     /\ IF m.type = "DeleteFile"
          THEN IF existed /\ srv[s].found THEN Reply(s, [type |-> "FileDeleted"]) ELSE Fail(s)
          ELSE IF existed
                 THEN Reply(s, [type |-> "CompactCommit",
                                md |-> IF m.accepted THEN m.new ELSE m.old])
                 ELSE Fail(s)
  /\ Release(s)
  /\ UNCHANGED <<toServer, table, issued>>

-----------------------------------------------------------------------------

\* The server process dies and is restarted: its tasks are gone, the disk and
\* the table survive.
ServerCrash ==
  /\ \E s \in Slots : "server" \in ends[s]
  /\ ends' = [s \in Slots |-> ends[s] \ {"server"}]
  /\ toServer' = [s \in Slots |-> None]
  /\ srv' = [s \in Slots |-> IdleTask]
  /\ dbLock' = {h \in dbLock : h[1] # "server"}
  /\ UNCHANGED <<toClient, storeVars>>

\* One step of the task of connection s.
ServerStep(s) ==
  \/ HandleUploadNewFile(s)
  \/ HandleRequestFile(s)
  \/ HandleRequestProof(s)
  \/ HandleEditFileBytes(s)
  \/ HandleAppendToFile(s)
  \/ HandleRequestFileReshape(s)
  \/ HandleRequestReshapeEvaluation(s)
  \/ HandleRequestAppendEvaluation(s)
  \/ HandleRequestEditEvaluation(s)
  \/ HandleDatabaseRequest(s)
  \/ OpenDatabase(s)
  \/ CreateEntry(s)
  \/ RenameFile(s)
  \/ DeleteEntry(s)
  \/ RemoveFile(s)
  \/ EndOfStream(s)
=============================================================================
