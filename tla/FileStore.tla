----------------------------- MODULE FileStore -----------------------------
(***************************************************************************)
(* The file-management part of the server: POST, GET, PUT and DELETE on    *)
(* /files.  Every request runs its handler in controllers/fileController.js*)
(* on the one event loop of the process; handlers interleave wherever one  *)
(* of them awaits MongoDB or multer.  An action is one such uninterrupted  *)
(* piece: the database executes the awaited operation and the handler runs *)
(* up to its next await.                                                   *)
(*                                                                         *)
(* A request is used once and keeps its local variables when it is over,   *)
(* so that properties can speak about what it was told.  The document      *)
(* that request r inserts has r as its _id.                                *)
(***************************************************************************)
EXTENDS Naturals, FiniteSets

CONSTANTS
  Reqs,        \* requests, and the _ids of the documents they insert
  FileNames,   \* values of the body field fileName
  OrigNames,   \* file.originalname, as the client's form names the file
  MaxClock,    \* bound on Date.now(), in milliseconds
  Operations,  \* the operations that clients use
  Faults,      \* the faults of the environment: subset of FaultKinds
  Concurrency, \* bound on the requests that clients have in flight
  NoDoc        \* "no document"

AllOperations == {"create", "read", "list", "update", "delete"}
FaultKinds    == {"db", "fs", "client", "crash"}

ASSUME FileStoreAssumption ==
  /\ MaxClock \in Nat
  /\ Concurrency \in Nat
  /\ Operations \subseteq AllOperations
  /\ Faults \subseteq FaultKinds
  /\ NoDoc \notin [fileName : FileNames, filePath : (0 .. MaxClock) \X OrigNames]

\* `${Date.now()}-${file.originalname}` in the directory user_files
Path == (0 .. MaxClock) \X OrigNames

\* The fields of a File document that the handlers write.  createdAt is set
\* once by a default, and no handler sets userId.
Doc  == [fileName : FileNames, filePath : Path]

VARIABLES
  clock,   \* Date.now()
  up,      \* the server process is running
  docs,    \* the collection File: _id -> document
  disk,    \* user_files: path -> the uploads whose bytes are in the file
  pc,      \* where the handler of a request is
  kind,    \* the operation a request asks for
  target,  \* req.params.id
  arg,     \* fileData of createFile, the validated body of updateFile
  snap,    \* the document that findById returned
  resp     \* the status code the handler answers with, 0 before

vars  == <<clock, up, docs, disk, pc, kind, target, arg, snap, resp>>
input == <<kind, target, arg>>

\* What a request waits for: the end of an upload, one of the database
\* operations, or (unlink) the event loop.
DbOps    == {"lookup", "insert", "find", "save", "remove", "list"}
InFlight == DbOps \cup {"writing", "unlink", "reply"}
PC       == InFlight \cup {"idle", "done", "dropped"}
Codes    == {0, 200, 201, 400, 401, 403, 404, 409, 500}

Init ==
  /\ clock  = 0
  /\ up     = TRUE
  /\ docs   = [i \in Reqs |-> NoDoc]
  /\ disk   = [p \in Path |-> {}]
  /\ pc     = [r \in Reqs |-> "idle"]
  /\ kind   = [r \in Reqs |-> "none"]
  /\ target = [r \in Reqs |-> r]
  /\ arg    = [r \in Reqs |-> NoDoc]
  /\ snap   = [r \in Reqs |-> NoDoc]
  /\ resp   = [r \in Reqs |-> 0]

-----------------------------------------------------------------------------
Goto(r, p) == pc' = [pc EXCEPT ![r] = p] /\ UNCHANGED resp

Answer(r, code) ==
  /\ pc'   = [pc EXCEPT ![r] = "reply"]
  /\ resp' = [resp EXCEPT ![r] = code]

\* A write that MongoDB has executed.  The handler may still get an error,
\* when only the acknowledgement is lost.
AnswerWritten(r, code, errorCode) ==
  Answer(r, code) \/ ("db" \in Faults /\ Answer(r, errorCode))

Arrive(r, op) ==
  /\ up /\ pc[r] = "idle" /\ op \in Operations
  /\ Cardinality({q \in Reqs : pc[q] \in InFlight}) < Concurrency
  /\ kind' = [kind EXCEPT ![r] = op]

\* authenticateToken, in front of every route.
Unauthorized(r) ==
  /\ \E op \in AllOperations, code \in {401, 403} : Arrive(r, op) /\ Answer(r, code)
  /\ UNCHANGED <<clock, up, docs, disk, target, arg, snap>>

-----------------------------------------------------------------------------
(* POST /files: multer stores the file, then createFile runs.              *)

\* No file in the form (400), or a field that multer does not expect or a
\* file that it cannot open (500, from the error handler of express).
RefuseUpload(r) ==
  /\ Arrive(r, "create")
  /\ \E code \in {400, 500} : Answer(r, code)
  /\ UNCHANGED <<clock, up, docs, disk, target, arg, snap>>

Writing == {q \in Reqs : pc[q] = "writing"}

\* createWriteStream truncates the file; an upload that is still writing to
\* the same file goes on writing into it.
OpenUpload(r) ==
  /\ Arrive(r, "create")
  /\ \E n \in FileNames, o \in OrigNames :
       LET p == <<clock, o>>
       IN  /\ arg'  = [arg EXCEPT ![r] = [fileName |-> n, filePath |-> p]]
           /\ disk' = [disk EXCEPT ![p] = {r} \cup (@ \cap Writing)]
  /\ Goto(r, "writing")
  /\ UNCHANGED <<clock, up, docs, target, snap>>

\* The file is written.  createFile validates the body: it must have a
\* fileName and a filePath, although the latter is not used.
FinishUpload(r) ==
  /\ pc[r] = "writing"
  /\ Goto(r, "lookup") \/ Answer(r, 400)
  /\ UNCHANGED <<clock, up, docs, disk, input, snap>>

\* The disk refuses a write (multer reports the error and leaves the file), or
\* the client goes away in the middle of the form (multer never calls next).
BreakUpload(r) ==
  /\ pc[r] = "writing"
  /\ \/ "fs" \in Faults /\ Answer(r, 500)
     \/ "client" \in Faults /\ Goto(r, "dropped")
  /\ UNCHANGED <<clock, up, docs, disk, input, snap>>

\* Mutant: the path is computed again when the file is removed.
StoredPath_Recomputed(r) == <<clock, arg[r].filePath[2]>>
StoredPath(r) == arg[r].filePath

\* A second file in the form: multer waits for the writes, removes what it
\* has stored, and hands a MulterError to express.
RejectForm(r) ==
  /\ pc[r] = "writing"
  /\ disk' = [disk EXCEPT ![StoredPath(r)] = {}]
  /\ Answer(r, 500)
  /\ UNCHANGED <<clock, up, docs, input, snap>>

\* Mutant: the lookup compares the paths, not the names.
SameName_ByPath(r) == {i \in Reqs : docs[i] # NoDoc /\ docs[i].filePath = arg[r].filePath}
SameName(r)        == {i \in Reqs : docs[i] # NoDoc /\ docs[i].fileName = arg[r].fileName}

CheckName(r) ==
  /\ pc[r] = "lookup"
  /\ IF SameName(r) # {} THEN Answer(r, 409) ELSE Goto(r, "insert")
  /\ UNCHANGED <<clock, up, docs, disk, input, snap>>

InsertDoc(r) ==
  /\ pc[r] = "insert"
  /\ docs' = [docs EXCEPT ![r] = arg[r]]
  /\ AnswerWritten(r, 201, 400)
  /\ UNCHANGED <<clock, up, disk, input, snap>>

-----------------------------------------------------------------------------
(* GET /files, and GET, PUT and DELETE on /files/:id                       *)

BeginList(r) ==
  /\ Arrive(r, "list")
  /\ Goto(r, "list")
  /\ UNCHANGED <<clock, up, docs, disk, target, arg, snap>>

ListDocs(r) ==
  /\ pc[r] = "list"
  /\ Answer(r, IF \A i \in Reqs : docs[i] = NoDoc THEN 404 ELSE 200)
  /\ UNCHANGED <<clock, up, docs, disk, input, snap>>

BeginById(r) ==
  /\ \E op \in {"read", "delete"}, i \in Reqs :
       Arrive(r, op) /\ target' = [target EXCEPT ![r] = i]
  /\ Goto(r, "find")
  /\ UNCHANGED <<clock, up, docs, disk, arg, snap>>

\* An id that is not an ObjectId: findById rejects with a CastError.
MalformedId(r) ==
  /\ \E op \in {"read", "update", "delete"} : Arrive(r, op)
  /\ Answer(r, 500)
  /\ UNCHANGED <<clock, up, docs, disk, target, arg, snap>>

BeginUpdate(r) ==
  /\ Arrive(r, "update")
  /\ \E i \in Reqs, d \in Doc :
       /\ target' = [target EXCEPT ![r] = i]
       /\ arg'    = [arg EXCEPT ![r] = d]
  /\ Goto(r, "find")
  /\ UNCHANGED <<clock, up, docs, disk, snap>>

\* The process ends: requests in flight, and those in also, lose their connection.
Die(also) ==
  /\ up' = FALSE
  /\ pc' = [q \in Reqs |-> IF q \in also \/ pc[q] \in InFlight THEN "dropped" ELSE pc[q]]

\* A body without fileName or filePath: validateFile throws outside the try
\* block of updateFile.  The promise of the handler is rejected, nobody
\* handles the rejection, and Node.js ends the process.
UpdateThrows(r) ==
  /\ Arrive(r, "update")
  /\ Die({r})
  /\ UNCHANGED <<clock, docs, disk, target, arg, snap, resp>>

FindDoc(r) ==
  /\ pc[r] = "find"
  /\ LET d == docs[target[r]]
     IN  IF d = NoDoc
         THEN Answer(r, 404) /\ UNCHANGED snap
         ELSE /\ snap' = [snap EXCEPT ![r] = d]
              /\ \/ kind[r] = "read"   /\ Answer(r, 200)
                 \/ kind[r] = "update" /\ Goto(r, "save")
                 \/ kind[r] = "delete" /\ Goto(r, "unlink")
  /\ UNCHANGED <<clock, up, docs, disk, input>>

\* Mutants: the document becomes the fields sent; the path is never sent.
Delta_Replaces(old, new, current)  == [fileName |-> new.fileName]
Delta_KeepsPath(old, new, current) == [current EXCEPT !.fileName = new.fileName]

\* Mongoose sends only the fields that differ from the document it has read.
Delta(old, new, current) ==
  [fileName |-> IF new.fileName # old.fileName THEN new.fileName ELSE current.fileName,
   filePath |-> IF new.filePath # old.filePath THEN new.filePath ELSE current.filePath]

\* Mutant: save() is an upsert.
SaveDoc_Upserts(r) ==
  /\ pc[r] = "save"
  /\ docs' = [docs EXCEPT ![target[r]] = arg[r]]
  /\ AnswerWritten(r, 200, 500)
  /\ UNCHANGED <<clock, up, disk, input, snap>>

\* save() of a document that is no longer there raises DocumentNotFoundError.
SaveDoc(r) ==
  /\ pc[r] = "save"
  /\ LET i == target[r]
     IN  IF docs[i] = NoDoc
         THEN Answer(r, 500) /\ UNCHANGED docs
         ELSE /\ docs' = [docs EXCEPT ![i] = Delta(snap[r], arg[r], @)]
              /\ AnswerWritten(r, 200, 500)
  /\ UNCHANGED <<clock, up, disk, input, snap>>

\* Mutant: an error of unlinkSync is swallowed.
UnlinkFile_IgnoresError(r) ==
  /\ pc[r] = "unlink"
  /\ disk' \in {disk, [disk EXCEPT ![snap[r].filePath] = {}]}
  /\ Goto(r, "remove")
  /\ UNCHANGED <<clock, up, docs, input, snap>>

\* deleteFileFromSystem: existsSync and unlinkSync in one turn of the loop.
UnlinkFile(r) ==
  /\ pc[r] = "unlink"
  /\ LET p == snap[r].filePath
     IN  \/ disk' = [disk EXCEPT ![p] = {}] /\ Goto(r, "remove")
         \/ "fs" \in Faults /\ disk[p] # {} /\ Answer(r, 500) /\ UNCHANGED disk
  /\ UNCHANGED <<clock, up, docs, input, snap>>

\* Mutant: every document of that name is removed.
Removed_ByName(r) ==
  {target[r]} \cup {i \in Reqs : docs[i] # NoDoc /\ docs[i].fileName = snap[r].fileName}
Removed(r) == {target[r]}

\* deleteOne does not mind when the document is already gone.
RemoveDoc(r) ==
  /\ pc[r] = "remove"
  /\ docs' = [i \in Reqs |-> IF i \in Removed(r) THEN NoDoc ELSE docs[i]]
  /\ AnswerWritten(r, 200, 500)
  /\ UNCHANGED <<clock, up, disk, input, snap>>

-----------------------------------------------------------------------------
\* Mutant: a catch block that sends nothing.
DbError_SendsNothing(r) ==
  /\ "db" \in Faults /\ pc[r] \in DbOps
  /\ Goto(r, "hung")
  /\ UNCHANGED <<clock, up, docs, disk, input, snap>>

\* The awaited operation fails without effect; the catch block answers.
DbError(r) ==
  /\ "db" \in Faults /\ pc[r] \in DbOps
  /\ Answer(r, IF kind[r] = "create" THEN 400 ELSE 500)
  /\ UNCHANGED <<clock, up, docs, disk, input, snap>>

Reply(r) ==
  /\ pc[r] = "reply"
  /\ Goto(r, "done")
  /\ UNCHANGED <<clock, up, docs, disk, input, snap>>

Tick ==
  /\ clock < MaxClock
  /\ clock' = clock + 1
  /\ UNCHANGED <<up, docs, disk, pc, input, snap, resp>>

Crash ==
  /\ "crash" \in Faults /\ up
  /\ Die({})
  /\ UNCHANGED <<clock, docs, disk, input, snap, resp>>

\* nodemon, or whoever runs the server, starts it again.
Restart ==
  /\ ~up
  /\ up' = TRUE
  /\ UNCHANGED <<clock, docs, disk, pc, input, snap, resp>>

\* All requests are over; the server waits for more.
Quiescent ==
  /\ \A r \in Reqs : pc[r] \in {"done", "dropped"}
  /\ UNCHANGED vars

Begin(r) ==
  \/ Unauthorized(r) \/ RefuseUpload(r) \/ OpenUpload(r) \/ BeginList(r)
  \/ BeginById(r) \/ MalformedId(r) \/ BeginUpdate(r) \/ UpdateThrows(r)

Proceed(r) ==
  \/ FinishUpload(r) \/ BreakUpload(r) \/ RejectForm(r) \/ CheckName(r)
  \/ InsertDoc(r) \/ ListDocs(r) \/ FindDoc(r) \/ SaveDoc(r) \/ UnlinkFile(r)
  \/ RemoveDoc(r) \/ DbError(r) \/ Reply(r)

Next ==
  \/ \E r \in Reqs : Begin(r) \/ Proceed(r)
  \/ Tick \/ Crash \/ Restart \/ Quiescent

Spec == Init /\ [][Next]_vars

\* The event loop runs every callback that is ready, the driver settles every
\* operation it has sent, and an upload ends: the client finishes it or the
\* connection is closed.  Nobody has to send a request.
FairSpec == Spec /\ \A r \in Reqs : WF_vars(Proceed(r))

-----------------------------------------------------------------------------
(* Properties                                                              *)

\* The variables of the process, the collection File and the directory user_files
\* stay in their sets.
TypeOK ==
  /\ clock  \in 0 .. MaxClock
  /\ up     \in BOOLEAN
  /\ docs   \in [Reqs -> Doc \cup {NoDoc}]
  /\ disk   \in [Path -> SUBSET Reqs]
  /\ pc     \in [Reqs -> PC]
  /\ kind   \in [Reqs -> AllOperations \cup {"none"}]
  /\ target \in [Reqs -> Reqs]
  /\ arg    \in [Reqs -> Doc \cup {NoDoc}]
  /\ snap   \in [Reqs -> Doc \cup {NoDoc}]
  /\ resp   \in [Reqs -> Codes]

\* Request d is a DELETE that has found a document naming the file p and is
\* past deleteFileFromSystem(p).
MayHaveUnlinked(d, p) ==
  kind[d] = "delete" /\ snap[d] # NoDoc /\ snap[d].filePath = p /\ pc[d] # "unlink"

\* Request d is a DELETE of document i whose deleteOne may have been executed.
MayHaveRemoved(d, i) ==
  /\ kind[d] = "delete" /\ target[d] = i /\ snap[d] # NoDoc
  /\ pc[d] \notin {"unlink", "remove"}

\* No other upload got the same path, that is, the same original name in the
\* same millisecond (middleware/multerConfig.js).
OwnPath(i) ==
  \A q \in Reqs \ {i} :
    kind[q] = "create" /\ arg[q] # NoDoc => arg[q].filePath # arg[i].filePath

\* The file behind a document is the upload that created it, whole and
\* unmixed, as long as the document names the path of that upload and no
\* other upload shared the path: nothing but a DELETE of a document naming
\* that very path destroys it, whatever interleaves, fails or crashes.
StoredFileIntact ==
  \A i \in Reqs :
    LET p == docs[i].filePath
    IN  docs[i] # NoDoc /\ p = arg[i].filePath /\ OwnPath(i)
          => disk[p] = {i} \/ \E d \in Reqs : MayHaveUnlinked(d, p)

\* deleteFile unlinks before deleteOne: when a document is gone, the bytes of
\* its upload are gone too, through every failure and crash, unless a PUT has
\* meanwhile (or before) pointed the document at another path.
DeleteLeavesNoFile ==
  \A i \in Reqs :
    /\ kind[i] = "create" /\ docs[i] = NoDoc
    /\ \E d \in Reqs : kind[d] = "delete" /\ target[d] = i /\ snap[d] # NoDoc
    /\ \A u \in Reqs : ~(kind[u] = "update" /\ target[u] = i /\ snap[u] # NoDoc)
    => i \notin disk[arg[i].filePath]

\* A DELETE that answered 200 is final: no updateFile that read the document
\* before brings it back when it saves after.
DeletedStaysDeleted ==
  \A d \in Reqs : kind[d] = "delete" /\ resp[d] = 200 => docs[target[d]] = NoDoc

\* A POST that answered 201 has its document in the collection until a DELETE
\* of this document reaches deleteOne.
CreatedSurvives ==
  \A i \in Reqs :
    resp[i] = 201 => docs[i] # NoDoc \/ \E d \in Reqs : MayHaveRemoved(d, i)

\* Only a PUT, which does not look, gives two documents the same fileName: the
\* 409 of createFile keeps a POST from doing it.
CreateKeepsNamesUnique ==
  \A i, j \in Reqs :
    i # j /\ docs[i] # NoDoc /\ docs[j] # NoDoc /\ docs[i].fileName = docs[j].fileName
      => \E u \in Reqs : /\ kind[u] = "update" /\ target[u] \in {i, j}
                        /\ arg[u] # NoDoc /\ arg[u].fileName = docs[i].fileName

\* When updateFile answers 200 ("File updated successfully"), the stored
\* document is the one the client sent.
UpdateAckedIsStored ==
  [][\A r \in Reqs :
       pc[r] = "save" /\ resp'[r] = 200 => docs'[target[r]] = arg[r]]_vars

\* A PUT without fileName or filePath gets an answer, as the 400 branch of
\* updateFile intends.  (Only such a PUT is dropped without a client or a
\* crash to blame.)
InvalidUpdateAnswered ==
  \A r \in Reqs : kind[r] = "update" /\ arg[r] = NoDoc => pc[r] # "dropped"

\* Every handler ends: the client gets an answer, or its connection is lost.
RequestsAnswered ==
  \A r \in Reqs : pc[r] \in InFlight ~> pc[r] \in {"done", "dropped"}
=============================================================================
