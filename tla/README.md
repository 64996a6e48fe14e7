# Proof of storage, in TLA+

A client uploads files to a storage server, keeps only their metadata (with the
root of a Merkle tree over an encoded matrix of the file), and later asks the
server to prove that it still holds them, to send them back, to reshape, edit,
append to or delete them. This directory models that program
(`src/proof-of-storage`), model-checks it on small instances, and proves for every
instance every invariant that the runs check: the types, downloads, uploads,
deletions, appends and records of the system, the commitments, evaluations and proofs
of columns, and the library of encoded files (section 7 names the operations that some
theorems leave out). It has three parts: the client-server system,
with collision-free commitments; the commitments, evaluations and proofs that
its messages carry, with the numbers of a small field; and the library of
encoded files, which no message reaches yet.

## 1. Inventory

| Component | State | Operations | Modelled by |
|---|---|---|---|
| Messages and metadata: `networking/shared.rs`, `databases/*.rs` | none | the tagged requests and responses, `FileMetadata` | `PosTypes` |
| Connections and databases: tokio `TcpStream`, SurrealDB on RocksDB | one stream per client process; one directory, one handle at a time | connect, send, end of stream, open, close | `PosNet` |
| Server: `networking/server.rs` | the `.porraw` files, the server's metadata table, one task per connection | one handler per message | `PosServer` |
| Client: `networking/client.rs` | the running function, the client's metadata table, the local files | `upload_file`, `download_file`, `request_proof`, `reshape_file`, `append_to_file`, `edit_file`, `delete_file` | `PosClient` |
| Commitment and checks: `lcpc_online.rs` | none | commit, choose and verify columns, verify evaluations, dimensions | `LinearCode`, `PolynomialEvaluation`; collision free in `PosTypes` and `PosClient` |
| Encoded files: `lcpc_online/encoded_file_writer.rs`, `encoded_file_reader.rs`, `file_handler.rs`, `column_digest_accumulator.rs` | row buffer, transposed file on disk, tree and metadata files | convert, push bytes, finalize, read, edit, append, reshape, reencode, check, attach | `EncodedLayout`, `EncodedFileWriter`, `FileHandler` |
| Merkle tree and row generator: `lcpc_online/merkle_tree.rs`, `row_generator_iter.rs` | one buffer of a row; an array of layers | next row, column digests, tree, full columns | `RowGenerator`, `MerkleTree` |
| Field encodings: `fields.rs`, `fields/*.rs` | none | bytes to elements and back, vectors, evaluations | `FieldElements`; lengths in `FieldData` |
| Linear-code commitment: `lcpc-2d`, `lcpc-ligero-pc` | none | encode, commit, open, prove, verify | `LinearCode`, `MerkleTree` |
| Brakedown code: `lcpc-brakedown-pc`, `lcpc-test-fields` | none | encode with random sparse matrices | not modelled (section 9) |
| Command line and benchmarks: `bin/pos.rs`, `benches`, `scripts` | none | parse, call the client | the choice of an operation in `PosSystem`; else not modelled (section 9) |

**How they interact.** A client function opens a TCP connection, sends a
request, checks the answer, sends the next request, and so on; it ends by
writing the client's database. The server accepts a connection in
`server_main`, spawns a task, and `handle_client_loop` in it takes one message,
awaits its handler, sends the answer, and takes the next. Handlers share the
directory of files and the metadata table without any lock but the one that
RocksDB puts on its directory: a second `Surreal::new::<RocksDb>` fails while
the first handle is open. A client and a server in one directory contend for
that handle too.

**What is hard.** A multi-message operation is not a transaction. Between two of
its messages other clients change the same file; the metadata it works from is
a copy that may be stale; the server writes a file, an entry, a rename and a
removal in separate steps, each of which may fail, panic or be cut short by a
crash; the client's verdict on a new version is sent and not awaited. The list
of hazards, each at its line, is in `PROJECT.json`.

**What makes each component correct.**
- Server: a table entry has its file; a version's file has the content it was
  written with until it is removed; no handler touches a file that is not the
  one of its request; a deletion that is reported is complete.
- Client: it records only what it verified, accepts only the change it asked
  for, and writes locally only what its metadata commits to.
- Together: at rest, records, table and files agree; every operation ends.
- Encoded files: the transposed file, its tree and its metadata describe the
  bytes that were pushed, whatever the buffer size, and after a crash too.
- Row generator and tree: the streamed rows are those of the commitment, and
  every column that is handed out leads to its root.
- Evaluations: a verdict is the comparison of two polynomials at a point, and
  nothing that is cut, padded, decoded or shifted on the way to it changes it.

## 2. Modules

| Module | What it holds |
|---|---|
| `FieldData` | bytes, elements, rows, shapes, with their constants and assumptions; below everything else |
| `PosTypes` | commitments, metadata, messages, partial functions |
| `PosNet` | the connections and the database lock |
| `PosServer` | the server: one action per handler up to its first visible effect, and one per later effect |
| `PosClient` | the client: one action per message or database step of each function |
| `PosSystem` | both together, the faults, `Spec`, every property |
| `ObjectStore` | the abstract specification of the server's directory |
| `MCPosSystem` | values of the constants for TLC |
| `PosSystem_proofs` | the theorems about types and downloads, the refinement of `ObjectStore`, and the theorems about records and files at rest |
| `PosUpload_proofs` | the theorems about uploads, deletions and appends |
| `EditedRows` | the part of a file that an append or edit is judged from; used by server, client and `PolynomialEvaluation` |
| `FieldElements` | bytes as field elements and back, through the stored Montgomery form; sums, products and polynomials modulo a prime |
| `MerkleTree` | trees as one array of layers, paths, and how they are climbed |
| `LinearCode` | rows, encoding at the roots of unity, commitments, opened columns, evaluations, and the library's proofs |
| `RowGenerator` | the encoded rows of a file as a stream, and the columns made of it |
| `PolynomialEvaluation` | requests, answers and verdicts with the numbers of the field |
| `MCPolynomialEvaluation` | values of the constants for TLC |
| `MerkleTree_proofs` | the theorems about trees of any height, and induction |
| `LinearCode_proofs` | the arithmetic of the field and of the code: decoding undoes encoding, and a decoded combination of rows has the value of the file's polynomial |
| `PolynomialEvaluation_proofs` | the theorems about streams, commitments, proofs of columns, verdicts and the library's proofs |
| `EncodedLayout` | the encoded file as an array of positions, what is written and read where, and the columns it should hold |
| `EncodedFileWriter` | the conversion of a file: chunks, rows, digests, buffer, end of file |
| `FileHandler` | a file with its encoded file, tree and metadata: every call of the handler, one action per file operation, and crashes |
| `MCEncodedFileWriter`, `MCFileHandler` | values of the constants for TLC |
| `EncodedLayout_proofs` | lemmas about counting rows, slices, and positions in the encoded file; used by the two below |
| `EncodedFileWriter_proofs` | the theorems about the writer |
| `FileHandler_proofs` | the theorems about the handler |

### State and code

`files` is the directory of `.porraw` files by Ulid, `table` is
`SERVER_METADATA_TABLE`, `clientDb` is `CLIENT_METADATA_TABLE`, `local` the
client's own files, `issued` the Ulids generated so far. A *slot* is one client
process with its connection and the task that serves it. `ends[s]` says which of
the two are still attached; `toServer[s]` and `toClient[s]` are the two
directions of the stream, which hold at most one message because a client waits
for the answer before it sends again. The one exception, the verdict on a new
version, is the last message of its operation: the process then finishes, and
its slot is reused only after the task has read the verdict and the end of the
stream (`Begin` asks for `ends[s] = {}`).

`srv[s].pc` is the effect a handler performs next: `open` the database, `create`
or `delete` an entry, `rename` or `remove` a file; `wait` is the loop between two
messages. A handler's first action covers everything up to its first effect that
others can see, since what comes before is local to the task. `sess[s].pc` is
the answer the client function awaits, or the database step it is at. Two
places where a panic is possible in a handler are modelled as the action
`Panic`: the task ends, the connection closes, and no answer is sent.

In `EncodedFileWriter` a row is the bytes it was encoded from. `incoming`, `outgoing`
and `rows_written` are the writer's fields; `digested` is the sequence of rows the
column digests were updated with, which is `rows_processed` long. `push_bytes`
returns when less than a row is left, so `PushBytes` waits for that.

In `FileHandler` the four files of a Ulid are `raw`, `encoded`, `tree` and `metadata`,
`None` when absent and `Truncated` between the creation of a file and the write;
`leftover` is what the metadata file holds behind its last text.
`handler` has the fields of the struct and the two counts its `EncodedFileReader`
keeps for itself. `op` is the call under way and the file operation it is at:
`convert_unencoded_file`, of a creation and of a reshape, goes from `truncate` to
`write_tree`; an append goes through `grow`, `move` (one column at a time), `rows`,
`recalculate` and `metadata`; an edit through `rows` and `recalculate`. A call that
returns an error leaves `op` idle where it was. `torn` is history: a crash fell into
a call, or a reencode left rows unwritten (`writerboundary` in section 6).
`FileHandler` takes the whole conversion as one step (`EncodedFile`); the run
`writer` and the theorem `RowsWhenFinalized` are what justifies `FlushedRows` in it.
Two calls that only read are operators: `AllFilesAgree` is `verify_all_files_agree`,
which compares the file and the encoded file with the tree in memory, and
`DecodedRow` is `get_decoded_row`. `ContentsAgree` is the agreement of the files,
`InAgreement` adds the counts and the metadata.

`RowGenerator` has the fields of `RowGeneratorIter`; `rest` is what the iterator over
the file has not yielded. `PolynomialEvaluation` continues with the exhausted
generator: `request`, `answer` and `verdict` are one exchange of the client with the
server, of the kinds polynomial, reshape, append, edit and proof. `stored` is what
the server holds when it answers, which need not be what the client asked for:
another version that a second client made, with a byte changed, the bytes
reversed or a zero added. A handler that panics answers `NoAnswer`. The two
messages of a polynomial request are one.

### Abstractions

- A byte is an opaque non-zero value, a file a sequence of them. Trailing zeros
  would be lost by no operation of this part; padding belongs to the field
  encodings.
- A commitment is collision free: it is the pair of content and shape. Opened
  columns are the pair they were computed from, so that `client_verify_commitment`
  succeeds exactly when columns, root and local data come from one content and
  one shape. `AcceptsOnlyCommitted` of `PolynomialEvaluation` is this, with
  columns and paths, where fewer columns are opened than there are: the paths and
  the shape are bound by the root. The probability of missing a change is not
  modelled.
- An evaluation is checked by `lcpc_online.rs` against columns whose Merkle paths
  it does not check. What that check can notice is a file with more rows than
  the metadata says, which is all that `EvaluationVerifies` says.
- An edit or append by the client is compared with the evaluations' difference.
  The modules of the system compare the contents; `VerdictComparesAtPoint` says
  that the program compares the two polynomials at a random point, which is as
  good but for the points at which different polynomials agree.
- In the modules with numbers a byte is a bit, an element holds two and the field
  has five elements. The stored form of an element is a multiple of `LIMBS`, as in
  the Montgomery representation, so that bytes are not an element's value. Digests
  are collision free. `SOUNDNESS` is 2 where the program opens 309 columns at rate
  1/2, so that shapes with all and with some columns opened both occur.
- Prover and verifier of `lcpc-2d` are given the same challenge, every one of these: any
  columns, and one degree test by the powers of a point of `Points`. In the program both
  draw it from a transcript of the same values, the test's vector element by element.
- `verifiable_full_polynomial_evaluation` of `lcpc_online.rs` is modelled by what its
  callers need of it: it does not compile as it is at this commit.
- `client_verify_commitment` refuses more columns than there are indices for; no
  answer of the server has more.
- The client and the server check shapes differently (`ClientDimsOk`, `DimsOk`,
  `CommitOk`), and the model keeps the three checks.
- A message to a task that is gone is dropped. A broken connection has the
  effect of a crashed task or a killed client and has no action of its own.
- An element of the encoded file is its row's bytes, its column and the encoded
  width: two rows that differ have different elements. A position of the encoded
  file is one element wide. A Merkle tree stands for the columns it is made of.
- A file operation is atomic: what one call writes is written whole, and
  `File::create` and the write that follows are two. The writes of one row to its
  columns, and of one buffer, are one action: they are done in parallel, and a
  crash between them leaves what a crash before the tree is written leaves.
- A Ulid is new when a file is moved to it: the callers of `create_from_unencoded_file`
  give it a fresh one or one whose files are deleted. The files of a Ulid are used by
  one handler at a time.
- The text of the metadata file is its length: the numbers' digits, counted in powers
  of ten (`NewDigits`), since nothing else of it varies. `write_metadata` does not
  truncate, so what is written over a longer text leaves its end behind (`leftover`),
  and nothing can be read from the file then.
- `BYTE_CAPACITY` and `CAPACITY` are the bytes and bits in a field element. The
  program divides a length in bytes by the bits once; the model does too.

## 3. Runs

| Run | Instance | What it shows |
|---|---|---|
| `store` | 2 clients, 2 versions, one shared database, both faults | `UploadedIsHeld`: an upload is recorded only of a file that the server still holds as sent, with its entry. `DeletedIsGone`: a reported deletion is complete and stays so. `EntryHasFile`: crashes and busy databases leave files without entries, never entries without files |
| `append` | 2 clients that upload, append and download, 3 versions, 2 shapes, server crashes | `AcceptedVersionIsIntended`: an accepted append is the committed content with the data appended, even from stale metadata. `DownloadIsCommitted`: a download writes only what its metadata commits to, though an append may replace the file between the file's answer and its proof |
| `reshape` | 2 clients that upload, delete and reshape, crashes | `ImplementsObjectStore`: the directory implements `ObjectStore` |
| `sequential` | 1 client, 3 versions, 2 shapes, no fault | `RecordHasFile`, `NoOrphanFile`: after reshapes, records and files correspond one to one |
| `live` | 2 clients, 2 versions of a file of 7 bytes, crashes, every changing operation | `TypeOK`; `OperationEnds`: no operation waits for ever, busy databases, crashes and both panics of the evaluation of a new version included |
| `writer` | every file of up to 7 bytes, 3 shapes, a buffer of 2 rows, every chunking | `FileIsDigestedRows`: what is in the encoded file is the digested rows in their places and zeros. `NeverFull`: the capacity is never reached, so the writer's own `set_new_capacity`, which moves rows where columns are needed, never runs. `FinalizedRows`: everything is digested, and which rows are in the file at the end |
| `handler` | 1 Ulid, files of up to 4 bytes, 2 shapes and one that is refused, crashes | `FilesAgree`: between calls that were not cut short, file, encoded file, tree and metadata agree, and again after a reencode of torn files that wrote all rows. `RowsFitCapacity`: columns never overlap. `NoCallFailsHalfway`: no append or edit of files in agreement ends in an error after it changed a file. `ChangesStayAttachable`: whatever file operation an append, an edit or a reencode of all rows is killed at, files that could be attached to still can; none is missing or empty, and no metadata are written over a longer text. `SelfCheckFindsTears`: files that pass the handler's own check agree, the tree on disk that it does not look at too, and every row decodes to the file's bytes. The metadata, which it does not look at either (its todo), need not agree: a reencode of three full rows leaves one out, an append to them fails after it has written the file, and an edit of the rows that are missing completes them; the check then passes with the metadata of before the append |
| `evaluation` | every file of up to 3 bits and six longer ones, the default shapes and one with a row that is no power of two, 2 points, every sample of columns, every stored version | `StreamedRowsAreCommitted`: the stream has the rows of the commitment, with nothing of an earlier row in a short one. `FullColumnsVerify`: streamed columns and paths lead to the root. `VerdictComparesAtPoint`: a verdict on a new version is the comparison with the intended one at the point. `AcceptsOnlyCommitted`: columns are accepted of the committed matrix only. `LibraryProofsVerify`: the library's proofs verify against the root of their own matrix and no other |
| `writerboundary` | the same as `writer`, smaller | violated: see section 6 |
| `appendlost` | 1 client, 2 versions, no fault | violated: see section 6 |
| `appendrejected` | 2 clients, 3 versions, no fault | violated: see section 6 |
| `evaluationorder` | files of up to 3 bits | violated: see section 6 |

`UploadedIsHeld`, `DeletedIsGone`, `EntryHasFile` and `ImplementsObjectStore` are
checked without appends and edits, and `RecordHasFile` without appends and edits
and with one client: the finding `appendlost` is why. They are what holds of
the other operations, and `ImplementsObjectStore` and `RecordHasFile` would hold
of appends and edits if the verdict named the versions in the right order.
`AcceptedVersionIsIntended` is checked for appends: with stale edits it does not hold
(section 6), because the client's comparison is with the content the server sends
and not with the one its root commits to.

## 4. Bounds

`Ids` bounds the number of versions ever written; an operation that draws a Ulid
starts only while one is left (`UlidLeft`), which stands for the end of the
observation and for nothing in the code. Two or three versions are enough for one
upload and two changes of it, or two uploads and a change; with two clients that
covers each pair of operations on the same file in each order, a stale copy of
metadata, and a Ulid that is drawn while another file is removed. `Slots` has one
or two processes; no code path depends on a third. Files have one to three
bytes, shapes one to three columns, elements two bytes: enough for a partly
filled last element, a partly filled last row, an append that fills an element
and one that adds a row, and a shape that the client accepts and the server
refuses. `CAPACITY` is 22 so that `CAPACITY \div 8` is the byte capacity, as 62 and
7 in `WriteableFt63`. The file of `live` has seven bytes, for the division of bytes by
bits: one more byte completes the last row and makes the range of the append reversed
(the handler panics), two more begin a row, and the range fits. Edits begin in the first
row or in the last (`EditStarts`), which is not full: of the latter the handler panics, of
the former one ends at the end of its row.

`BUFFER_ROWS` is 2^10 in the program. The run `writer` has 2, so that files of up to
seven rows fill the buffer up to three times, end in a full buffer, in one that is
not and in a row that is not. `handler` has 2 as well, so that a conversion of three
full rows panics and a reencode of them leaves the last one out, while smaller
files are written whole, as files of the program below 2^10 rows are. A number has
a second digit from 3 and a third from 9 on (`NewDigits`), so that counts of rows,
capacities and bytes change their number of digits in both directions. Its files of
up to four bytes grow from no row and from one row to more than their capacity, in
shapes of two and four columns, with a last row that is partly filled and one
that is not; an append fits behind three rows that a reencode did not all write.
Edits are of two bytes: of two rows, of one row, and of parts of two rows.

`evaluation` has bytes of one bit, elements of two bits and the field of five
elements, the smallest that holds them and has roots of unity of order four. Its
files end on an element, inside one, at the end of a row and inside a row; the
shapes have one, two or three columns of two or four encoded ones; edits and
appends begin and end inside elements, at their ends and across rows. One point
of the two is a root of differences of files that occur, so that a version
which only agrees there is accepted, as `VerdictComparesAtPoint` says.

Symmetry of Ulids and slots is used in `store` and `append`, whose properties are
invariants and an action property; never with liveness. `CHECK_DEADLOCK
FALSE` is set in every run because a judged exchange ends, a system whose Ulids are used up and whose
clients have returned stops, a finalized writer stops, and after a crash in the
middle of a deletion nothing can be attached or created under that Ulid.

## 5. Fairness

`Fairness` is weak fairness of `Serve(s)` and of `Client(s)` for each slot: a
tokio task and a client process that can take their next step eventually take
it. Nothing makes a client start an operation, be killed, or the server crash.
No step of one slot is disabled for ever by another: a database that is busy
makes the open fail, it does not block. `OperationEnds` uses exactly this, and
would fail if a handler stopped without closing its connection (its mutant).

## 6. Where code and comments disagree

- `appendlost`. `append_to_file` and `edit_file` send their verdict with the two
  versions exchanged (`client.rs:1137`): the new version's file is renamed to the
  old Ulid, the removal that follows fails, and the client records an id that the
  server has no file for. `networking/tests.rs` `test_file_append` expects the
  returned metadata to be downloadable.
- `appendrejected`. `server.rs:1100` says that a rejection only has to delete the new
  entry, and `server.rs:1107` that the unaccepted file is deleted too. By the exchanged
  verdict the new metadata of a rejection are those of the original, and the server
  removes the original's file (`server.rs:1128`), which clients have on record. It
  takes a second client, whose size check (`client.rs:971`) fails because of the first
  one's append.
- `writerboundary`. When the data ends on a row boundary, finalizing a writer
  leaves the rows that are still buffered unwritten
  (`encoded_file_writer.rs:493`). With a buffer of 2^10 rows it takes a file of
  more rows than that, not a multiple of it, that fills its last row.
  `convert_unencoded_file` asserts that all rows are written and panics;
  `reencode_unencoded_file` asserts nothing, so its encoded file lacks rows and the
  handler takes the smaller count. An edit that reaches the missing row writes it
  and the reader counts it, but the handler and the metadata do not, and
  `verify_all_files_agree` does not look at the metadata (its todo).
- `evaluationorder`. The values that a partial evaluation is checked against are
  filtered out of the result in the order of the columns (`lcpc_online.rs:495`),
  the received columns come in the order of the request, and
  `choose_multiple`, which draws the request, does not sort. The comment on the
  check and the test that opens every column expect an honest evaluation to
  pass. With 309 columns of a code of rate 1/2 it takes a matrix of 512 encoded
  columns, in the default shape a file of more than 16384 elements (114 KB), for
  a request that is not in order; shorter files have all columns opened, in order.

Without a run of its own, each the effect of the lines named:

- `server.rs:928` says that there are two database entries for the same
  file when a verdict on a reshape arrives. A reshape creates none (`server.rs:816`), so
  an accepted version has a file and no entry, and deleting it later reports an error.
- `client.rs:1411`. `edit_file` is to verify that the edit is correct (`client.rs:1304` and
  1341). Nothing of the evaluation is compared with the root on record, so an edit of a
  file that another client edited meanwhile is accepted, of a content that the client's
  root does not commit to.
- `file_handler.rs:245`. A reshape leaves the metadata file with the default Ulid; after a
  restart `new_attach_to_existing_files` refuses it. The next append or reencode
  of the same handler repairs it.
- `file_handler.rs:467`. `write_metadata` does not truncate the file. A
  reencode that leaves rows out (`writerboundary`) takes the count of rows down, in the
  program for example from 10100 to 9216, which is a digit less; the end of the old text
  stays behind the new one and `read_from_file` refuses it, so that nothing can be
  attached to the Ulid until a longer text is written. The call returns without an
  error. A reencode is to need no more than the file itself (the comment on it,
  `file_handler.rs:404`).

## 7. Proofs

`PosSystem_proofs` proves, for any numbers of Ulids, slots, names, bytes and
shapes:

- `TypeCorrect`: `Spec => []TypeOK`. `TypeOK` is inductive as it stands because
  the states of a task (`Task`) and of a process (`Process`) are unions of sets of
  records by `pc`: being at a step says which request is in hand and whether a
  new version's metadata is. That is what a handler or a client function needs
  for its next step to be defined, and it is not a per-variable fact: an answer
  must fit the request, a verdict must carry two metadata records, a process
  that resets its `pc` must reset the rest.
- `DownloadCorrect`: `Spec => DownloadIsCommitted`, from `TypeOK` and
  `VerifiedColumns`: columns that agree with a content and lead to a root show
  that the root commits to that content.

The proof of `TypeCorrect` splits `TypeOK` in the server's side (files, table,
tasks, connections: `ServerSideTypeOK`) and the clients' side (processes, records,
local files, connections: `ClientSideTypeOK`), with one lemma per action on its
own side; `TwoViews` puts them together, and `ServerLeavesClients` and
`ClientsLeaveServer` say that one side's steps leave the other's alone. Below
them are lemmas about what the actions are made of (`Reply`, `Go`, `Send`,
`Exit`, ...), about records by tag (`RequestByType`, `TaskByPc`, `ProcessByPc`), and
about the operators (`CeilDivNat`, `RowCountNat`, `SpliceContent`, `PutIsMap`,
`DropIsMap`).

It also proves, for the same constants and for `Operations` without appends and
edits (`WithoutChanges`):

- `DirectoryIsObjectStore`: `Spec => ImplementsObjectStore`. With appends and edits
  the refinement does not hold: an accepted version is renamed over the file it
  was made from.

A step of the server is a step of the store except where a rename needs a free
target. That its target is free does not follow from the state of its task: it
rests on `PendingOK`, which says that between the draw and the rename exactly one
place of the system knows the Ulid of a reshape (the answer, the process, its
verdict or the handler; `Pending`), that it has been drawn and has no file. This
in turn rests on whose turn it is (`ReshapeTurn`: a process that waits for its
commitment has no other request under way; `ConnectionsOK`) and on which
requests there are (`OnlyAsked`). The steps are first sorted into five kinds
(`NextKinds`), by what they do to the connections (`TaskMoves`, `ProcessMoves`,
`StartMoves`), so that each part of the invariant has one case per kind.

`PosUpload_proofs` proves, for `Operations` that upload, download, prove and delete
(`OnlyUploads`):

- `UploadsAreHeld`: `Spec => []UploadedIsHeld`.
- `DeletionsAreFinal`: `Spec => []DeletedIsGone`.
- `EntriesHaveFiles`: `Spec => []EntryHasFile`.

A reshape leaves a file without an entry and renames files, so these are false or
need more with it. The invariant is `UploadInv`: an upload under way has one holder
(the task, its answer, or the process; `HeldOnce`), its file and entry are there
and nobody can delete it (`HeldStored`), where a file can be deleted if a client
has it on record or its deletion is under way (`Deletable`); what can be deleted was
drawn, so that no upload draws it again; a handler that removes a file has taken
its entry (`EntryGone`); a process has proved what it records
(`ProvedBeforeRecord`), and is told of a deletion only after it (`DeletionTurn`). Five
lemmas say what may happen to a store (`StoreKept`, `StoreDrawn`, `StoreMoved`,
`StoreRecorded`, `StoreDeleted`), and every step is one of them.

The second part of the module proves, for `Operations` that upload, append, download,
prove and delete (`OnlyAppends`):

- `AppendsAreIntended`: `Spec => []AcceptedVersionIsIntended`.

The client compares sizes and the contents that the server evaluates; it does not
compare the old content with its root. The invariant (`FromOrigins`) gives each Ulid
the content it was drawn for, its origin, and all metadata with this Ulid commit to
it, in whatever message, task, process or record (`LinkOK`). The file of that name
may have another content, since an accepted version is renamed over it, but it
begins with the origin (`FilesBegin`). A new version of the expected size was
therefore made from a file as long as the origin, that is the origin. An edit keeps
the size and changes the content, so that with edits the argument fails, and the
property with it (section 6). Reshapes are left out for a smaller proof.

The last part of `PosSystem_proofs` proves, for one process at a time and without
faults (`OneAtATime`):

- `RecordsHaveFiles`: `Spec => []RecordHasFile`.
- `NothingIsOrphaned`: `Spec => []NoOrphanFile`.

Both speak of the system at rest. The invariant compares, in every state, what the
client will know once the operation under way is through (`WillKnow`) with what the
server will have (`WillHave`): `Agreement` says that these are the same. Few steps
change either, and they change both: the storing of an upload, the client's
decision about a reshape, the acceptance of a deletion. All others carry out what was
decided, which takes knowing how far the two are (`Conversation`, `Progress`), and that
renames find their target free (the invariant of `DirectoryIsObjectStore`).
`OneAtATime` asks for two things that the code needs. A reshape and a deletion are not
both allowed: the server deletes the entry of the reshaped version (section 6), a
later deletion of it is answered with an error and the client keeps its record. And
a reshape is allowed only in a directory of the client's own: in a shared one it
finds the database open. Without these TLC finds both violated.

`MerkleTree_proofs` proves, for trees of any height:

- `PathsVerify`: the path that `GetPath` opens leads from its leaf to the root.
- `RootCommits`: leaves of one number with the same root are the same.
- `OnlyCommittedOpens`: what climbs to the root along any path is the leaf at that
  index. No check looks at a path's length (`verify_column_path`); a longer or
  shorter path cannot pass off a node, because the digest of a column starts from
  another value than that of a node.

Layers, their places in the array and the hashes along a path are recursive
functions. What they compute is proved by induction over the height or the length,
in the form `Induction` and `BoundedInduction`: a set that has 0 and with each number
the next has all. They follow from `NatLessThanWellFounded` and `WFMin` of the library,
which take sets where its induction theorems take operators. A recursive
function is a `CHOOSE`; that it satisfies its equation is shown first
(`LayersExist`, `HashesExist`, `ReservoirsExist`), which is why the domains of these
functions in the model are bounded intervals.

`LinearCode_proofs` proves, for every field whose multiplicative group `GENERATOR`
generates, and every encoded length that divides the order of this group:

- `DecodingUndoesEncoding`: `fft_io` and then `ifft_oi` give the row back.
- `CommitmentEvaluates`: the decoded combination of the encoded rows of a file, with
  the powers of a point, has the value of the file's polynomial at that point. This
  is what a server computes and a client decodes.

The model reduces a sum at every addition. `FieldSumIsSum` shows that this is the sum
of integers (`Sum`, a function of all numbers of terms), reduced once; what is said of
sums is proved of it, by induction: they are added, scaled, exchanged, split and
reordered. Decoding multiplies the two matrices of roots and
sums over their common index. Two different powers of the root of unity differ
because the powers of the generator are as many as the elements they make up, so that
the sum of the powers of their quotient vanishes (`RootsCancel`); where they are the
same it counts to the length, which is divided out. The order of the reversed bits is
a permutation, shown by halving the length. `CombinedEncodes` says that rows may be
combined before or after they are encoded. The module also has what the verdicts
need of a file's bytes: two files of one length that differ have different
elements (`FilesDiffer`), the value of a file's polynomial is a sum over its bytes
(`BytesEvaluate`), and the values of two files that agree outside a range differ by
those of the bytes in it, counted from where it begins (`ValueOfEdit`).

`PolynomialEvaluation_proofs` proves, for files, shapes and openings of any size and
any such field:

- `StreamIsCommitted`: `Spec => []StreamedRowsAreCommitted`. Its invariant
  (`StreamInv`) says which bytes are unread, which elements are in the buffer with
  zeros behind them, and that the rows handed out are the first of the matrix.
- `FullColumnsAreCommitted`: `Spec => []FullColumnsVerify`.
- `VerifiedIsCommitted`: a column that verifies against a root is the committed one.
- `OnlyCommittedIsAccepted`: `Spec => []AcceptsOnlyCommitted`. One direction is
  `OpenedVerifies`, the other that a single column with its path binds the root, the
  root the leaves, and the leaves the matrix (`RootIsMatrix`).
- `EvaluationTypes`: `Spec => []TypeOK`. What is computed stays in the field and has the
  width of its row; a byte sequence makes an element because `RADIX` to the power
  `BYTE_CAPACITY` is not above the modulus.
- `VerdictsCompare`: `Spec => []VerdictComparesAtPoint`. The invariant
  (`EvaluationInv`) says of a request that its columns are drawn and its ranges lie in the
  file (`RequestOk`), of an answer that it was computed from what is stored, or that
  the handler panicked because its version has not the length that was asked for
  (`AnswerOk`), and of a verdict what was compared (`Compares`). The client compares
  the values of two result vectors and of the bytes it sent; `CommitmentEvaluates`
  turns the first two into values of files, `ValueOfEdit` the third into the value of
  the difference, at the degree where the code puts it.
- `RootCommitsToFile`: files of one length in one shape with the same root are the same
  file. The rows of the matrix decode to the elements (`DecodingUndoesEncoding`), and the
  elements are those of one file.
- `ProofsOfFileVerify`: `Spec => []LibraryProofsVerify`. A file's own proof verifies and
  evaluates (`OwnProofVerifies`), and one that verifies against another root is a proof of
  the file of that root (`ProofIsOfFile`).

`EncodedFileWriter_proofs` proves every invariant of the writer, for files of any
length, all shapes with positive columns, and every size of the buffer and of a
field element:

- `FileHoldsDigestedRows`: `Spec => []FileIsDigestedRows`.
- `FileNeverFull`: `Spec => []NeverFull`.
- `RowsWhenFinalized`: `Spec => []FinalizedRows`.
- `TypeCorrect`: `Spec => []TypeOK`, with at most the rows of the file written.

`FileIsDigestedRows` is not inductive: which bytes the next row has depends on
what is buffered, where its rows go depends on how full the buffer is, and that
the file has room for them on how many rows there are. `IInv` adds `Reading` (the
buffered bytes follow the digested rows, and nothing but the last row is shorter
than the others) and `Buffering` (the rows that are written are a number of full
buffers until the last row is done). Most of the proof is in lemmas, which
`EncodedLayout_proofs` shares with the handler: division (`Division`, `DivisionUnique`, `PiecesBegin`: a row begins inside the file
exactly if it is one of its rows), slices of slices (`Middle`, `MiddleOfMiddle`), the
row that is taken off the input (`NextRow`), and the transposition (`WriteBehind`:
rows written behind the rows of a file that has room for them are at their
places in every column and overwrite nothing).

`FileHandler_proofs` proves, for all files, appends, edits, shapes and buffers, any
sequence of calls and a crash at any of their file operations:

- `TypeCorrect`: `Spec => []TypeOK`.
- `RowsAlwaysFit`: `Spec => []RowsFitCapacity`.
- `FilesAlwaysAgree`: `Spec => []FilesAgree`.
- `CallsSucceed`: `Spec => []NoCallFailsHalfway`.
- `SelfCheckSound`: `Spec => []SelfCheckFindsTears`.
- `ChangesKeepAttachable`: `Spec => ChangesStayAttachable`, if the values `None` and
  `Truncated`, which stand for an absent and an empty file, are no functions
  (`AbsentAreNoFunctions`). The contents of the files are functions of positions,
  columns or fields; TLA+ leaves open whether an unspecified constant is one, and TLC
  cannot evaluate the hypothesis, which is why it is one of the theorem and not an
  `ASSUME`.

All rest on `Fits`: which call can be at which file operation, and that
rows and bytes counted, in memory and in the metadata, fit the capacity - between
the operations of an append the capacity it is about to have. It holds of torn
files too, since they can be attached again.

`TypeCorrect`, `FilesAlwaysAgree` and `ChangesKeepAttachable` rest on `Texts` as well: the
text of the metadata, with what is left behind it, is never longer than the one that a
reencode of all rows would write (`TextFits`), and of a handler in memory no number is
below the one in the file it was read from or wrote last (`Outgrows`), whatever crash
fell between the two. So a text that is written over is never longer, unless
rows were left out. That larger numbers have no fewer digits is all that is used of
digits (`DigitsGrow`).

`FilesAlwaysAgree`, `CallsSucceed` and the steps of `Texts` rest on `Agree`, which says of
files that are not torn what is in them:

- `AtRest`: with no call under way the handler, or the metadata an attachment would
  start from, describe the file, its encoding and its tree (`Whole`, `OnDisk`).
- `Converted`: what a conversion has written so far. It relies on nothing that was
  there before, and so repairs torn files.
- `Changing`: what an append or an edit has left to do. The rows it has not come to
  are not looked at; all others (`Untouched`) are those of the changed file and at
  their places, because a row that was full, or that the edit does not reach, has
  the same bytes (`AppendKeepsRow`, `EditKeepsRow`). While columns are moved, those
  from `op.col` on are at their new places and those before it at their old ones
  (`PartlyMoved`), which the order of the moves keeps (`OneColumnMoved`).

Once the last row is done, `Untouched` is all rows, and what the handler reads back
for the new tree is the encoding of the file (`ReadBack`). `SelfCheckSound` is about
torn files as well and rests on `TreeKept` (between calls the tree on
disk is the handler's, however a call ended), and on `RowsDecode`, the converse of
`ReadBack`.

Assumptions used: `ShapesAssumption` (shapes have positive columns),
`CapacityAssumption`, `LocalFilesAssumption`, `PatchesAssumption`, `BufferAssumption` (a
buffer of at least one row), `MaxLengthAssumption`, the handler's
`ContentsAssumption`, `LengthAssumption` and `NoneAssumption` (files, appends and edits
are byte strings, and `None` is not one), the system's `NoneAssumption` (it is no
message either), `FilesAssumption` (the streamed files are byte strings),
`EncodingAssumption` (a row is encoded to more columns, a power of two, as
`LigeroEncoding::_dims_ok` demands, for which the field has roots of unity, since
`fft_io` returns an error otherwise), `SoundnessAssumption` (at least one column is
opened), `BytesAssumption` (bytes are the digits of base `RADIX`, and an element has
room for `BYTE_CAPACITY` of them), `FieldAssumption` (`GENERATOR` generates the
multiplicative group, so the modulus is prime, and `LIMBS` is not a multiple of it),
`PointsAssumption` (points are elements) and the `PatchesAssumption` of
`PolynomialEvaluation`. They are checked by TLC on every run of the modules that have
them. The values of `WriteableFt63` satisfy them too: 10 generates the multiplicative
group modulo 5102708120182849537, 2^43 divides its order, 256^7 is below the modulus
and 2^64 is no multiple of it.

Only model-checked:

- Liveness (`OperationEnds`). Liveness under fairness and `ENABLED` are out of the
  prover's reach.

Neither modelled nor proved is the probability that a sample of columns misses a
difference, or that a random point is a root of one.

## 8. Plan

In this order:

1. `AppendsAreIntended` with reshapes.
2. That two polynomials of a degree agree in at most so many points as it has, and with
   it what a verdict at a random point is worth.
3. An abstract file of bytes that `FileHandler` implements, and the reader's
   `resize_to_target_file` and `edit_decoded_bytes` once something calls them.
4. The parallel splits of `lcpc-2d` (`collapse_columns`, `merkle_tree`), compared with
   the sequential functions.
5. User accounts, once a message of a file depends on them.

## 9. Not modelled, and why

- The code of `lcpc-brakedown-pc` (sparse random matrices) and `lcpc-test-fields`: the
  program does not use them, and they are algebra without state.
- `LigeroEncodingRho::_get_dims` by floating point, the serialization of commitments
  and proofs, and the transcript's hashing.
- `bin/pos.rs` but for its choice of a client function, which is the nondeterminism of
  `Start`; it parses arguments and reports results. Its lookup of a record by file name
  stands in `Start` as the choice of any record the client has, since several records may
  have one name.
- Benchmarks, scripts and `doc/encoding.py`: they keep no state of the system.
- User accounts (`server.rs` 281-336): they are written to one table and looked up in
  another, and no operation on a file reads either.
- The chunked upload: its second message ends in `todo!()`.
- Messages that change no state and that no client function sends (keep-alive,
  single rows and columns).
- Two checks of the client that no answer of this server fails: the dimensions of
  a reshape's answer, and the name and dimensions of an edit's.
- `edit_decoded_bytes` and `resize_to_target_file` of the encoded file's reader,
  `left_multiply_unencoded_matrix_by_vector`, `finalize_to_column_digest` and the
  digests of selected columns (`ColumnsToCareAbout::Only`): nothing calls them.
- The second field (`ft253_192.rs`) and random bytes: tests and benchmarks only.
