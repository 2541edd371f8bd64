-------------------------- MODULE FileStoreInvariants ----------------------
(***************************************************************************)
(* The inductive invariant of FileStore, IInv, and what a step can do to a *)
(* request (History), to a document (DocsChange) and to a file             *)
(* (DiskChange).  IInv is TypeOK, where a request can be (Control), what   *)
(* has been born (Provenance), what is on disk (DiskOwner, UploadIntact,   *)
(* Unlinked), and the two properties that need no more than these.  When   *)
(* requests come one at a time (SequentialInv), what a handler has read is *)
(* current when it writes.                                                 *)
(***************************************************************************)
EXTENDS FileStore, TLAPS

Uploading == {"writing", "lookup", "insert"}
Over      == {"reply", "done", "dropped"}

\* What the position of a handler says of its local variables.
ControlAt(r) ==
  /\ pc[r] = "idle" => kind[r] = "none" /\ arg[r] = NoDoc
  /\ kind[r] = "none" => pc[r] = "idle"
  /\ pc[r] \in Uploading => kind[r] = "create" /\ arg[r] \in Doc
  /\ pc[r] = "find" => kind[r] \in {"read", "update", "delete"} /\ snap[r] = NoDoc
  /\ pc[r] = "find" /\ kind[r] = "update" => arg[r] \in Doc
  /\ pc[r] = "save" => kind[r] = "update" /\ arg[r] \in Doc /\ snap[r] \in Doc
  /\ pc[r] \in {"unlink", "remove"} => kind[r] = "delete" /\ snap[r] \in Doc
  /\ pc[r] = "list" => kind[r] = "list"
  /\ pc[r] \notin Over => resp[r] = 0
  /\ kind[r] \in {"create", "list", "none"} => snap[r] = NoDoc
  /\ resp[r] = 201 => kind[r] = "create"
  /\ resp[r] = 200 /\ kind[r] = "delete" => snap[r] # NoDoc

Control == \A r \in Reqs : ControlAt(r)

\* The POST with this _id has run to its end.
Born(i) == kind[i] = "create" /\ pc[i] \in Over /\ arg[i] \in Doc

\* Documents, and what findById returned, come from a POST that is over.
Provenance ==
  /\ \A i \in Reqs : docs[i] # NoDoc => Born(i)
  /\ \A r \in Reqs : snap[r] # NoDoc => Born(target[r])

\* The bytes in a file come from an upload that was given its path.
DiskOwner ==
  \A p \in Path : \A q \in disk[p] :
    kind[q] = "create" /\ arg[q] \in Doc /\ arg[q].filePath = p

\* StoredFileIntact, from the start of the upload on.
UploadIntact ==
  \A i \in Reqs :
    /\ kind[i] = "create" /\ arg[i] \in Doc /\ OwnPath(i)
    /\ pc[i] \in Uploading \/ docs[i] # NoDoc
    => \/ disk[arg[i].filePath] = {i}
       \/ \E d \in Reqs : MayHaveUnlinked(d, arg[i].filePath)

\* No PUT has found document i.
NeverUpdated(i) ==
  \A u \in Reqs : ~(kind[u] = "update" /\ target[u] = i /\ snap[u] # NoDoc)

Found(i) == \E d \in Reqs : snap[d] # NoDoc /\ target[d] = i

\* A document that no PUT has found is the one its POST wrote, and every
\* handler that found it knows the path of its file.
UnlinkedFor(i) ==
  /\ docs[i] # NoDoc => docs[i] = arg[i]
  /\ \A d \in Reqs : target[d] = i /\ snap[d] # NoDoc => snap[d] = arg[i]
  /\ \A d \in Reqs : target[d] = i /\ pc[d] = "remove" => i \notin disk[arg[i].filePath]
  /\ Found(i) /\ docs[i] = NoDoc => i \notin disk[arg[i].filePath]

Unlinked == \A i \in Reqs : kind[i] = "create" /\ NeverUpdated(i) => UnlinkedFor(i)

IInv ==
  /\ TypeOK /\ Control /\ Provenance /\ DiskOwner /\ UploadIntact /\ Unlinked
  /\ DeletedStaysDeleted /\ CreatedSurvives

\* What a request has asked for and has read is never forgotten, and each
\* new fact about a request has one action that establishes it.
HistoryOf(q) ==
  /\ kind[q] # "none" => kind'[q] = kind[q] /\ target'[q] = target[q] /\ arg'[q] = arg[q]
  /\ snap[q] # NoDoc => snap'[q] = snap[q]
  /\ pc[q] \in Over => pc'[q] \in Over
  /\ pc[q] = "remove" => pc'[q] \in Over \cup {"remove"}
  /\ snap[q] # NoDoc /\ pc[q] # "unlink" => pc'[q] # "unlink"
  /\ pc[q] # "idle" /\ pc'[q] \in Uploading => pc[q] \in Uploading
  /\ kind[q] = "none" => arg'[q] = NoDoc \/ pc'[q] \notin Over
  /\ kind[q] = "none" /\ pc'[q] \in Uploading => OpenUpload(q)
  /\ snap[q] = NoDoc /\ snap'[q] # NoDoc => FindDoc(q)
  /\ pc[q] # "remove" /\ pc'[q] = "remove" => UnlinkFile(q)
  /\ resp[q] # 201 /\ resp'[q] = 201 => InsertDoc(q)
  /\ resp[q] # 200 /\ resp'[q] = 200 /\ kind[q] = "delete" => RemoveDoc(q)
  /\ resp[q] # 200 /\ resp'[q] = 200 /\ pc[q] = "save" => SaveDoc(q)
  /\ pc[q] # "insert" /\ pc'[q] = "insert" => CheckName(q)
  /\ pc[q] # "save" /\ pc'[q] = "save" => FindDoc(q)

History == \A q \in Reqs : HistoryOf(q)

\* No step changes the past of a request.
LEMMA HistoryStep ==
  ASSUME TypeOK, Control, Next
  PROVE  History
<1>a. /\ DOMAIN pc = Reqs /\ DOMAIN kind = Reqs /\ DOMAIN target = Reqs
      /\ DOMAIN arg = Reqs /\ DOMAIN snap = Reqs /\ DOMAIN resp = Reqs
  BY DEF TypeOK
<1>b. \A q \in Reqs : /\ pc[q] = "idle" <=> kind[q] = "none"
                      /\ pc[q] = "idle" => arg[q] = NoDoc /\ snap[q] = NoDoc
                      /\ pc[q] = "find" => snap[q] = NoDoc
                      /\ pc[q] = "save" => kind[q] = "update"
                      /\ pc[q] = "list" => kind[q] = "list"
  BY DEF Control, ControlAt
<1> USE <1>a, <1>b DEF History, HistoryOf, Uploading, Over, InFlight, DbOps,
      Die, Removed, Goto, Answer, AnswerWritten, Arrive, input
<1>1. ASSUME NEW r \in Reqs, Unauthorized(r)
     PROVE  History
  BY <1>1 DEF Unauthorized
<1>2. ASSUME NEW r \in Reqs, RefuseUpload(r)
     PROVE  History
  BY <1>2 DEF RefuseUpload
<1>3. ASSUME NEW r \in Reqs, OpenUpload(r)
     PROVE  History
  <2>1. /\ pc[r] = "idle" /\ pc' = [pc EXCEPT ![r] = "writing"]
        /\ kind' = [kind EXCEPT ![r] = "create"] /\ UNCHANGED <<target, snap, resp>>
        /\ \A q \in Reqs \ {r} : arg'[q] = arg[q]
    BY <1>3 DEF OpenUpload
  <2> QED
    BY <1>3, <2>1
<1>4. ASSUME NEW r \in Reqs, BeginList(r)
     PROVE  History
  BY <1>4 DEF BeginList
<1>5. ASSUME NEW r \in Reqs, BeginById(r)
     PROVE  History
  BY <1>5 DEF BeginById
<1>6. ASSUME NEW r \in Reqs, MalformedId(r)
     PROVE  History
  BY <1>6 DEF MalformedId
<1>7. ASSUME NEW r \in Reqs, BeginUpdate(r)
     PROVE  History
  BY <1>7 DEF BeginUpdate
<1>8. ASSUME NEW r \in Reqs, UpdateThrows(r)
     PROVE  History
  BY <1>8 DEF UpdateThrows
<1>9. ASSUME NEW r \in Reqs, FinishUpload(r)
     PROVE  History
  BY <1>9 DEF FinishUpload
<1>10. ASSUME NEW r \in Reqs, BreakUpload(r)
     PROVE  History
  BY <1>10 DEF BreakUpload
<1>11. ASSUME NEW r \in Reqs, RejectForm(r)
     PROVE  History
  BY <1>11 DEF RejectForm
<1>12. ASSUME NEW r \in Reqs, CheckName(r)
     PROVE  History
  BY <1>12 DEF CheckName
<1>13. ASSUME NEW r \in Reqs, InsertDoc(r)
     PROVE  History
  <2>1. /\ pc[r] = "insert" /\ pc' = [pc EXCEPT ![r] = "reply"]
        /\ UNCHANGED <<kind, target, arg, snap>> /\ resp'[r] \in {201, 400}
        /\ \A q \in Reqs \ {r} : resp'[q] = resp[q]
    BY <1>13 DEF InsertDoc
  <2> QED
    BY <1>13, <2>1
<1>14. ASSUME NEW r \in Reqs, ListDocs(r)
     PROVE  History
  BY <1>14 DEF ListDocs
<1>15. ASSUME NEW r \in Reqs, FindDoc(r)
     PROVE  History
  BY <1>15 DEF FindDoc
<1>16. ASSUME NEW r \in Reqs, SaveDoc(r)
     PROVE  History
  BY <1>16 DEF SaveDoc
<1>17. ASSUME NEW r \in Reqs, UnlinkFile(r)
     PROVE  History
  BY <1>17 DEF UnlinkFile
<1>18. ASSUME NEW r \in Reqs, RemoveDoc(r)
     PROVE  History
  BY <1>18 DEF RemoveDoc
<1>19. ASSUME NEW r \in Reqs, DbError(r)
     PROVE  History
  BY <1>19 DEF DbError
<1>20. ASSUME NEW r \in Reqs, Reply(r)
     PROVE  History
  BY <1>20 DEF Reply
<1>21. CASE Tick
  BY <1>21 DEF Tick
<1>22. CASE Crash
  BY <1>22 DEF Crash
<1>23. CASE Restart \/ Quiescent
  BY <1>23 DEF Restart, Quiescent, vars
<1> HIDE DEF History
<1> QED
  BY <1>1, <1>2, <1>3, <1>4, <1>5, <1>6, <1>7, <1>8, <1>9, <1>10, <1>11, <1>12, <1>13, <1>14,
     <1>15, <1>16, <1>17, <1>18, <1>19, <1>20, <1>21, <1>22, <1>23, SMTT(30) DEF Next, Begin, Proceed

\* A document is not NoDoc.
LEMMA DocIsNotNoDoc == NoDoc \notin Doc
BY FileStoreAssumption DEF Doc, Path

\* Every place of a handler is a place: saves the provers a long enumeration.
LEMMA Places ==
  /\ InFlight \subseteq PC /\ DbOps \subseteq InFlight /\ "dropped" \in PC /\ "done" \in PC
  /\ \A p \in {"writing", "lookup", "insert", "find", "save", "unlink", "remove", "list", "reply"} :
       p \in InFlight
BY DEF PC, InFlight, DbOps

\* Goto keeps pc and resp in their sets.
LEMMA GotoType ==
  ASSUME TypeOK, NEW r \in Reqs, NEW p \in PC, Goto(r, p)
  PROVE  pc' \in [Reqs -> PC] /\ resp' \in [Reqs -> Codes]
BY DEF TypeOK, Goto

\* So does Answer, for a status code of the server.
LEMMA AnswerType ==
  ASSUME TypeOK, NEW r \in Reqs, NEW c \in Codes, Answer(r, c)
  PROVE  pc' \in [Reqs -> PC] /\ resp' \in [Reqs -> Codes]
BY Places DEF TypeOK, Answer

\* The status codes that the handlers use.
LEMMA CodesFact == {0, 200, 201, 400, 401, 403, 404, 409, 500} \subseteq Codes
BY DEF Codes

\* So does AnswerWritten.
LEMMA AnswerWrittenType ==
  ASSUME TypeOK, NEW r \in Reqs, NEW c \in Codes, NEW e \in Codes, AnswerWritten(r, c, e)
  PROVE  pc' \in [Reqs -> PC] /\ resp' \in [Reqs -> Codes]
BY AnswerType DEF AnswerWritten

\* The arrival of a request keeps kind in its set.
LEMMA ArriveType ==
  ASSUME TypeOK, NEW r \in Reqs, NEW op \in AllOperations, Arrive(r, op)
  PROVE  kind' \in [Reqs -> AllOperations \cup {"none"}]
BY DEF TypeOK, Arrive

\* The end of the process keeps up and pc in their sets.
LEMMA DieType ==
  ASSUME TypeOK, NEW also, Die(also)
  PROVE  up' \in BOOLEAN /\ pc' \in [Reqs -> PC]
<1>1. \A q \in Reqs : pc[q] \in PC /\ "dropped" \in PC
  BY Places DEF TypeOK
<1> QED
  BY <1>1, Zenon DEF Die

\* Every step keeps the variables in their sets.
LEMMA TypeStep ==
  ASSUME TypeOK, Control, Next
  PROVE  TypeOK'
<1> USE Places, CodesFact, GotoType, AnswerType, AnswerWrittenType, ArriveType, DieType
<1>1. ASSUME NEW r \in Reqs, Unauthorized(r) PROVE TypeOK'
  BY <1>1 DEF Unauthorized, TypeOK, input, AllOperations
<1>2. ASSUME NEW r \in Reqs, RefuseUpload(r) PROVE TypeOK'
  BY <1>2 DEF RefuseUpload, TypeOK, input, AllOperations
<1>3. ASSUME NEW r \in Reqs, OpenUpload(r) PROVE TypeOK'
  BY <1>3 DEF OpenUpload, TypeOK, input, Path, Doc, Writing, AllOperations
<1>4. ASSUME NEW r \in Reqs, BeginList(r) PROVE TypeOK'
  BY <1>4 DEF BeginList, TypeOK, input, AllOperations
<1>5. ASSUME NEW r \in Reqs, BeginById(r) PROVE TypeOK'
  BY <1>5 DEF BeginById, TypeOK, input, AllOperations
<1>6. ASSUME NEW r \in Reqs, MalformedId(r) PROVE TypeOK'
  BY <1>6 DEF MalformedId, TypeOK, input, AllOperations
<1>7. ASSUME NEW r \in Reqs, BeginUpdate(r) PROVE TypeOK'
  BY <1>7 DEF BeginUpdate, TypeOK, input, AllOperations
<1>8. ASSUME NEW r \in Reqs, UpdateThrows(r) PROVE TypeOK'
  BY <1>8 DEF UpdateThrows, TypeOK, input, AllOperations
<1>9. ASSUME NEW r \in Reqs, FinishUpload(r) PROVE TypeOK'
  BY <1>9 DEF FinishUpload, TypeOK, input
<1>10. ASSUME NEW r \in Reqs, BreakUpload(r) PROVE TypeOK'
  BY <1>10 DEF BreakUpload, TypeOK, input
<1>11. ASSUME NEW r \in Reqs, RejectForm(r) PROVE TypeOK'
  BY <1>11 DEF RejectForm, TypeOK, input, StoredPath, Doc, Uploading, Control, ControlAt
<1>12. ASSUME NEW r \in Reqs, CheckName(r) PROVE TypeOK'
  BY <1>12 DEF CheckName, TypeOK, input
<1>13. ASSUME NEW r \in Reqs, InsertDoc(r) PROVE TypeOK'
  BY <1>13 DEF InsertDoc, TypeOK, input, Control, ControlAt, Uploading
<1>14. ASSUME NEW r \in Reqs, ListDocs(r) PROVE TypeOK'
  BY <1>14 DEF ListDocs, TypeOK, input
<1>15. ASSUME NEW r \in Reqs, FindDoc(r) PROVE TypeOK'
  BY <1>15 DEF FindDoc, TypeOK, input
<1>16. ASSUME NEW r \in Reqs, SaveDoc(r) PROVE TypeOK'
  BY <1>16 DEF SaveDoc, TypeOK, input, Delta, Doc, Control, ControlAt
<1>17. ASSUME NEW r \in Reqs, UnlinkFile(r) PROVE TypeOK'
  <2>1. disk' \in [Path -> SUBSET Reqs]
    BY <1>17 DEF UnlinkFile, TypeOK
  <2>2. pc' \in [Reqs -> PC] /\ resp' \in [Reqs -> Codes]
    BY <1>17 DEF UnlinkFile
  <2> QED
    BY <2>1, <2>2, <1>17 DEF UnlinkFile, TypeOK, input
<1>18. ASSUME NEW r \in Reqs, RemoveDoc(r) PROVE TypeOK'
  BY <1>18 DEF RemoveDoc, TypeOK, input, Removed
<1>19. ASSUME NEW r \in Reqs, DbError(r) PROVE TypeOK'
  BY <1>19 DEF DbError, TypeOK, input
<1>20. ASSUME NEW r \in Reqs, Reply(r) PROVE TypeOK'
  BY <1>20 DEF Reply, TypeOK, input
<1>21. CASE Tick
  BY FileStoreAssumption, <1>21 DEF Tick, TypeOK, input
<1>22. CASE Crash
  BY <1>22 DEF Crash, TypeOK, input
<1>23. CASE Restart
  BY <1>23 DEF Restart, TypeOK, input
<1>24. CASE Quiescent
  BY <1>24 DEF Quiescent, TypeOK, input, vars
<1> QED
  BY <1>1, <1>2, <1>3, <1>4, <1>5, <1>6, <1>7, <1>8, <1>9, <1>10, <1>11, <1>12, <1>13, <1>14,
     <1>15, <1>16, <1>17, <1>18, <1>19, <1>20, <1>21, <1>22, <1>23, <1>24 DEF Next, Begin,
     Proceed

\* A handler moves along its own code only.
LEMMA ControlStep ==
  ASSUME TypeOK, Control, Next
  PROVE  Control'
<1> USE FileStoreAssumption DEF TypeOK, Control, ControlAt, Uploading, Over, Goto, Answer,
      AnswerWritten, Arrive, input, AllOperations, InFlight, DbOps, PC, Die, Doc, Path, Removed
<1>1. ASSUME NEW r \in Reqs, Unauthorized(r)
     PROVE  Control'
  BY <1>1 DEF Unauthorized
<1>2. ASSUME NEW r \in Reqs, RefuseUpload(r)
     PROVE  Control'
  BY <1>2 DEF RefuseUpload
<1>3. ASSUME NEW r \in Reqs, OpenUpload(r)
     PROVE  Control'
  BY <1>3 DEF OpenUpload
<1>4. ASSUME NEW r \in Reqs, BeginList(r)
     PROVE  Control'
  BY <1>4 DEF BeginList
<1>5. ASSUME NEW r \in Reqs, BeginById(r)
     PROVE  Control'
  BY <1>5 DEF BeginById
<1>6. ASSUME NEW r \in Reqs, MalformedId(r)
     PROVE  Control'
  BY <1>6 DEF MalformedId
<1>7. ASSUME NEW r \in Reqs, BeginUpdate(r)
     PROVE  Control'
  BY <1>7 DEF BeginUpdate
<1>8. ASSUME NEW r \in Reqs, UpdateThrows(r)
     PROVE  Control'
  BY <1>8 DEF UpdateThrows
<1>9. ASSUME NEW r \in Reqs, FinishUpload(r)
     PROVE  Control'
  BY <1>9 DEF FinishUpload
<1>10. ASSUME NEW r \in Reqs, BreakUpload(r)
     PROVE  Control'
  BY <1>10 DEF BreakUpload
<1>11. ASSUME NEW r \in Reqs, RejectForm(r)
     PROVE  Control'
  BY <1>11 DEF RejectForm
<1>12. ASSUME NEW r \in Reqs, CheckName(r)
     PROVE  Control'
  BY <1>12 DEF CheckName
<1>13. ASSUME NEW r \in Reqs, InsertDoc(r)
     PROVE  Control'
  BY <1>13 DEF InsertDoc
<1>14. ASSUME NEW r \in Reqs, ListDocs(r)
     PROVE  Control'
  BY <1>14 DEF ListDocs
<1>15. ASSUME NEW r \in Reqs, FindDoc(r)
     PROVE  Control'
  BY <1>15 DEF FindDoc
<1>16. ASSUME NEW r \in Reqs, SaveDoc(r)
     PROVE  Control'
  BY <1>16 DEF SaveDoc
<1>17. ASSUME NEW r \in Reqs, UnlinkFile(r)
     PROVE  Control'
  BY <1>17 DEF UnlinkFile
<1>18. ASSUME NEW r \in Reqs, RemoveDoc(r)
     PROVE  Control'
  BY <1>18 DEF RemoveDoc
<1>19. ASSUME NEW r \in Reqs, DbError(r)
     PROVE  Control'
  BY <1>19 DEF DbError
<1>20. ASSUME NEW r \in Reqs, Reply(r)
     PROVE  Control'
  BY <1>20 DEF Reply
<1>21. CASE Tick
  BY <1>21 DEF Tick
<1>22. CASE Crash
  BY <1>22 DEF Crash
<1>23. CASE Restart \/ Quiescent
  BY <1>23 DEF Restart, Quiescent, vars
<1> HIDE DEF Control
<1> QED
  BY <1>1, <1>2, <1>3, <1>4, <1>5, <1>6, <1>7, <1>8, <1>9, <1>10, <1>11, <1>12, <1>13, <1>14,
     <1>15, <1>16, <1>17, <1>18, <1>19, <1>20, <1>21, <1>22, <1>23 DEF Next, Begin, Proceed

\* Only InsertDoc makes a document, and only FindDoc hands one out.
LEMMA ProvenanceStep ==
  ASSUME TypeOK, Control, Provenance, Next
  PROVE  Provenance'
<1> USE FileStoreAssumption DEF TypeOK, Control, ControlAt, Provenance, Born, Uploading, Over,
      InFlight, DbOps, Die, Goto, Answer, AnswerWritten, Arrive, input
<1>1. ASSUME NEW r \in Reqs, Unauthorized(r)
     PROVE  Provenance'
  BY <1>1 DEF Unauthorized
<1>2. ASSUME NEW r \in Reqs, RefuseUpload(r)
     PROVE  Provenance'
  BY <1>2 DEF RefuseUpload
<1>3. ASSUME NEW r \in Reqs, OpenUpload(r)
     PROVE  Provenance'
  BY <1>3 DEF OpenUpload
<1>4. ASSUME NEW r \in Reqs, BeginList(r)
     PROVE  Provenance'
  BY <1>4 DEF BeginList
<1>5. ASSUME NEW r \in Reqs, BeginById(r)
     PROVE  Provenance'
  BY <1>5 DEF BeginById
<1>6. ASSUME NEW r \in Reqs, MalformedId(r)
     PROVE  Provenance'
  BY <1>6 DEF MalformedId
<1>7. ASSUME NEW r \in Reqs, BeginUpdate(r)
     PROVE  Provenance'
  BY <1>7 DEF BeginUpdate
<1>8. ASSUME NEW r \in Reqs, UpdateThrows(r)
     PROVE  Provenance'
  BY <1>8 DEF UpdateThrows
<1>9. ASSUME NEW r \in Reqs, FinishUpload(r)
     PROVE  Provenance'
  BY <1>9 DEF FinishUpload
<1>10. ASSUME NEW r \in Reqs, BreakUpload(r)
     PROVE  Provenance'
  BY <1>10, SMTT(30) DEF BreakUpload
<1>11. ASSUME NEW r \in Reqs, RejectForm(r)
     PROVE  Provenance'
  BY <1>11 DEF RejectForm
<1>12. ASSUME NEW r \in Reqs, CheckName(r)
     PROVE  Provenance'
  BY <1>12 DEF CheckName
<1>13. ASSUME NEW r \in Reqs, InsertDoc(r)
     PROVE  Provenance'
  BY <1>13 DEF InsertDoc
<1>14. ASSUME NEW r \in Reqs, ListDocs(r)
     PROVE  Provenance'
  BY <1>14 DEF ListDocs
<1>15. ASSUME NEW r \in Reqs, FindDoc(r)
     PROVE  Provenance'
  BY <1>15 DEF FindDoc
<1>16. ASSUME NEW r \in Reqs, SaveDoc(r)
     PROVE  Provenance'
  BY <1>16 DEF SaveDoc
<1>17. ASSUME NEW r \in Reqs, UnlinkFile(r)
     PROVE  Provenance'
  BY <1>17 DEF UnlinkFile
<1>18. ASSUME NEW r \in Reqs, RemoveDoc(r)
     PROVE  Provenance'
  BY <1>18 DEF RemoveDoc
<1>19. ASSUME NEW r \in Reqs, DbError(r)
     PROVE  Provenance'
  BY <1>19 DEF DbError
<1>20. ASSUME NEW r \in Reqs, Reply(r)
     PROVE  Provenance'
  BY <1>20 DEF Reply
<1>21. CASE Tick
  BY <1>21 DEF Tick
<1>22. CASE Crash
  BY <1>22 DEF Crash
<1>23. CASE Restart \/ Quiescent
  BY <1>23 DEF Restart, Quiescent, vars
<1> HIDE DEF Provenance
<1> QED
  BY <1>1, <1>2, <1>3, <1>4, <1>5, <1>6, <1>7, <1>8, <1>9, <1>10, <1>11, <1>12, <1>13, <1>14,
     <1>15, <1>16, <1>17, <1>18, <1>19, <1>20, <1>21, <1>22, <1>23, SMTT(30) DEF Next, Begin, Proceed

\* Only OpenUpload puts bytes on the disk, at the path of the request.
LEMMA DiskOwnerStep ==
  ASSUME TypeOK, Control, DiskOwner, Next
  PROVE  DiskOwner'
<1>a. /\ DOMAIN kind = Reqs /\ DOMAIN arg = Reqs /\ DOMAIN disk = Path
      /\ clock \in 0 .. MaxClock /\ \A p \in Path : disk[p] \subseteq Reqs
  BY DEF TypeOK
<1>b. \A q \in Reqs : pc[q] = "idle" => kind[q] = "none"
  BY DEF Control, ControlAt
<1> USE <1>a, <1>b DEF DiskOwner, Goto, Answer, AnswerWritten, Arrive, input
<1>1. ASSUME NEW r \in Reqs, OpenUpload(r)
     PROVE  DiskOwner'
  BY <1>1, FileStoreAssumption DEF OpenUpload, Path, Doc
<1>2. ASSUME NEW r \in Reqs, Unauthorized(r)
     PROVE  DiskOwner'
  BY <1>2 DEF Unauthorized
<1>3. ASSUME NEW r \in Reqs, RefuseUpload(r)
     PROVE  DiskOwner'
  BY <1>3 DEF RefuseUpload
<1>4. ASSUME NEW r \in Reqs, BeginList(r)
     PROVE  DiskOwner'
  BY <1>4 DEF BeginList
<1>5. ASSUME NEW r \in Reqs, BeginById(r)
     PROVE  DiskOwner'
  BY <1>5 DEF BeginById
<1>6. ASSUME NEW r \in Reqs, MalformedId(r)
     PROVE  DiskOwner'
  BY <1>6 DEF MalformedId
<1>7. ASSUME NEW r \in Reqs, UpdateThrows(r)
     PROVE  DiskOwner'
  BY <1>7 DEF UpdateThrows
<1>8. ASSUME NEW r \in Reqs, BeginUpdate(r)
     PROVE  DiskOwner'
  <2>1. /\ kind[r] = "none" /\ UNCHANGED disk
        /\ \A q \in Reqs \ {r} : kind'[q] = kind[q] /\ arg'[q] = arg[q]
    BY <1>8 DEF BeginUpdate
  <2> QED
    BY <2>1
<1>9. ASSUME NEW r \in Reqs, FinishUpload(r) \/ BreakUpload(r) \/ CheckName(r)
          \/ InsertDoc(r) \/ ListDocs(r) \/ FindDoc(r) \/ SaveDoc(r)
          \/ RemoveDoc(r) \/ DbError(r) \/ Reply(r)
     PROVE  DiskOwner'
  BY <1>9 DEF FinishUpload, BreakUpload, CheckName, InsertDoc, ListDocs, FindDoc, SaveDoc,
     RemoveDoc, DbError, Reply
<1>10. ASSUME NEW r \in Reqs, RejectForm(r)
     PROVE  DiskOwner'
  BY <1>10 DEF RejectForm
<1>11. ASSUME NEW r \in Reqs, UnlinkFile(r)
     PROVE  DiskOwner'
  BY <1>11 DEF UnlinkFile
<1>12. CASE Tick \/ Crash \/ Restart \/ Quiescent
  BY <1>12 DEF Tick, Crash, Restart, Quiescent, vars
<1> HIDE DEF DiskOwner
<1> QED
  BY <1>1, <1>2, <1>3, <1>4, <1>5, <1>6, <1>7, <1>8, <1>9, <1>10, <1>11, <1>12, SMTT(30) DEF Next,
     Begin, Proceed

\* The ways in which a step can change the document with _id i.
DocsChange(i) ==
  \/ docs'[i] = docs[i]
  \/ pc[i] = "insert" /\ pc'[i] = "reply" /\ docs'[i] = arg[i]
  \/ /\ docs[i] # NoDoc /\ docs'[i] \in Doc
     /\ \E u \in Reqs : /\ pc[u] = "save" /\ pc'[u] = "reply"
                       /\ kind[u] = "update" /\ target[u] = i /\ snap[u] # NoDoc
  \/ /\ docs'[i] = NoDoc
     /\ \E d \in Reqs : pc[d] = "remove" /\ pc'[d] = "reply" /\ target[d] = i

\* InsertDoc, SaveDoc and RemoveDoc are the only writers of the collection.
LEMMA DocsStep ==
  ASSUME TypeOK, Control, Next, NEW i \in Reqs
  PROVE  DocsChange(i)
<1>1. ASSUME NEW r \in Reqs, InsertDoc(r) PROVE DocsChange(i)
  BY <1>1 DEF InsertDoc, AnswerWritten, Answer, TypeOK, DocsChange
<1>2. ASSUME NEW r \in Reqs, SaveDoc(r) PROVE DocsChange(i)
  <2>1. CASE docs[target[r]] = NoDoc
    <3>1. UNCHANGED docs
      BY <2>1, <1>2 DEF SaveDoc
    <3> QED
      BY <3>1 DEF DocsChange
  <2>2. CASE docs[target[r]] # NoDoc
    <3>1. pc[r] = "save" /\ ControlAt(r)
      BY <1>2 DEF SaveDoc, Control
    <3>2. kind[r] = "update" /\ snap[r] \in Doc /\ arg[r] \in Doc
      BY <3>1 DEF ControlAt
    <3>3. Delta(snap[r], arg[r], docs[target[r]]) \in Doc
      BY <2>2, <3>2 DEF TypeOK, Delta, Doc
    <3>4. /\ docs' = [docs EXCEPT ![target[r]] = Delta(snap[r], arg[r], @)]
          /\ pc' = [pc EXCEPT ![r] = "reply"]
      BY <1>2, <2>2, Zenon DEF SaveDoc, AnswerWritten, Answer
    <3>5. DOMAIN docs = Reqs /\ DOMAIN pc = Reqs
      BY DEF TypeOK
    <3> QED
      BY <2>2, <3>1, <3>2, <3>3, <3>4, <3>5, DocIsNotNoDoc DEF DocsChange
  <2> QED BY <2>1, <2>2
<1>3. ASSUME NEW r \in Reqs, RemoveDoc(r) PROVE DocsChange(i)
  BY <1>3 DEF RemoveDoc, Removed, AnswerWritten, Answer, TypeOK, DocsChange
<1>4. CASE UNCHANGED docs
  BY <1>4 DEF DocsChange
<1> QED
  BY <1>1, <1>2, <1>3, <1>4, ZenonT(40) DEF Next, Begin, Proceed, Unauthorized, RefuseUpload,
     OpenUpload, BeginList, BeginById, MalformedId, BeginUpdate, UpdateThrows, FinishUpload,
     BreakUpload, RejectForm, CheckName, ListDocs, FindDoc, UnlinkFile, DbError, Reply, Tick,
     Crash, Restart, Quiescent, vars

\* The ways in which a step can change the file p.
DiskChange(p) ==
  \/ disk'[p] = disk[p]
  \/ \E r \in Reqs :
       /\ kind[r] = "none" /\ kind'[r] = "create" /\ arg'[r] \in Doc /\ arg'[r].filePath = p
       /\ disk'[p] = {r} \cup (disk[p] \cap Writing)
  \/ \E r \in Reqs : /\ pc[r] = "writing" /\ arg[r].filePath = p
                     /\ pc'[r] = "reply" /\ docs' = docs /\ disk'[p] = {}
  \/ \E d \in Reqs : /\ pc[d] = "unlink" /\ snap[d].filePath = p
                     /\ pc'[d] = "remove" /\ disk'[p] = {}

\* What OpenUpload does to its file.
LEMMA OpenedFile ==
  ASSUME TypeOK, Control, NEW r \in Reqs, OpenUpload(r)
  PROVE  /\ kind[r] = "none" /\ kind'[r] = "create"
         /\ arg'[r] \in Doc /\ arg'[r].filePath \in Path
         /\ disk' = [disk EXCEPT ![arg'[r].filePath] = {r} \cup (@ \cap Writing)]
<1>1. PICK n \in FileNames, o \in OrigNames :
        /\ arg'  = [arg EXCEPT ![r] = [fileName |-> n, filePath |-> <<clock, o>>]]
        /\ disk' = [disk EXCEPT ![<<clock, o>>] = {r} \cup (@ \cap Writing)]
  BY Zenon DEF OpenUpload
<1>2. <<clock, o>> \in Path
  BY DEF TypeOK, Path
<1>3. arg'[r] \in Doc /\ arg'[r].filePath = <<clock, o>>
  BY <1>1, <1>2 DEF TypeOK, Doc
<1>4. pc[r] = "idle" /\ ControlAt(r) /\ kind' = [kind EXCEPT ![r] = "create"]
  BY DEF OpenUpload, Arrive, Control
<1>5. kind[r] = "none" /\ kind'[r] = "create"
  BY <1>4 DEF ControlAt, TypeOK
<1> QED
  BY <1>1, <1>2, <1>3, <1>5, Zenon

\* OpenUpload, RejectForm and UnlinkFile are the only writers of the disk.
LEMMA DiskStep ==
  ASSUME TypeOK, Control, Next, NEW p \in Path
  PROVE  DiskChange(p)
<1>1. ASSUME NEW r \in Reqs, OpenUpload(r) PROVE DiskChange(p)
  BY <1>1, OpenedFile DEF TypeOK, DiskChange
<1>2. ASSUME NEW r \in Reqs, RejectForm(r) PROVE DiskChange(p)
  BY <1>2 DEF RejectForm, StoredPath, Answer, TypeOK, DiskChange
<1>3. ASSUME NEW r \in Reqs, UnlinkFile(r) PROVE DiskChange(p)
  <2>1. CASE UNCHANGED disk
    BY <2>1 DEF DiskChange
  <2>2. CASE disk' # disk
    <3>1. /\ pc[r] = "unlink" /\ disk' = [disk EXCEPT ![snap[r].filePath] = {}]
          /\ pc' = [pc EXCEPT ![r] = "remove"]
      BY <1>3, <2>2, Zenon DEF UnlinkFile, Goto
    <3>2. DOMAIN disk = Path /\ DOMAIN pc = Reqs
      BY DEF TypeOK
    <3> QED
      BY <3>1, <3>2 DEF DiskChange
  <2> QED
    BY <2>1, <2>2, Zenon
<1>4. CASE UNCHANGED disk
  BY <1>4 DEF DiskChange
<1> QED
  BY <1>1, <1>2, <1>3, <1>4, ZenonT(40) DEF Next, Begin, Proceed, Unauthorized, RefuseUpload,
     BeginList, BeginById, MalformedId, BeginUpdate, UpdateThrows, FinishUpload, BreakUpload,
     CheckName, InsertDoc, ListDocs, FindDoc, SaveDoc, RemoveDoc, DbError, Reply, Tick, Crash,
     Restart, Quiescent, vars

\* A POST is not over in the step in which it arrives with a file, so what it
\* will insert cannot have been found yet.
LEMMA NewIsUnborn ==
  ASSUME TypeOK, Control, Next, NEW i \in Reqs, kind[i] = "none"
  PROVE  ~Born(i)'
<1>1. HistoryOf(i)
  BY HistoryStep DEF History
<1> QED
  BY <1>1, DocIsNotNoDoc DEF HistoryOf, Born

-----------------------------------------------------------------------------
(* One request at a time (Concurrency): nothing that a handler has read is *)
(* stale when it writes.                                                   *)

Alone == \A p, q \in Reqs : pc[p] \in InFlight /\ pc[q] \in InFlight => p = q

Current ==
  \A q \in Reqs : /\ pc[q] = "insert" => SameName(q) = {}
                  /\ pc[q] = "save" => snap[q] = docs[target[q]]

SequentialInv == Alone /\ Current /\ CreateKeepsNamesUnique

\* The only one that may come into flight in a step is a request that was there
\* before, or that arrived when there was none.
OneMoves ==
  \/ \A q \in Reqs : pc'[q] \in InFlight => pc[q] \in InFlight
  \/ \E r \in Reqs :
       /\ pc[r] \in InFlight \/ \A q \in Reqs : pc[q] \notin InFlight
       /\ \A q \in Reqs \ {r} : pc'[q] = pc[q]

\* A request arrives only when there is none.
ArriveAlone ==
  \A r \in Reqs : (\E op : Arrive(r, op)) => \A q \in Reqs : pc[q] \notin InFlight

\* Every step is one of a single request, or of none.
LEMMA OneMovesStep ==
  ASSUME TypeOK, ArriveAlone, Next
  PROVE  OneMoves
<1>0. ASSUME NEW r \in Reqs, NEW p, pc[r] \in InFlight \/ \E op : Arrive(r, op),
             pc' = [pc EXCEPT ![r] = p]
      PROVE  OneMoves
  BY <1>0 DEF OneMoves, ArriveAlone, TypeOK
<1> USE DEF Goto, Answer, AnswerWritten, InFlight, DbOps
<1>1. ASSUME NEW r \in Reqs, Unauthorized(r) PROVE OneMoves
  <2>1. PICK op \in AllOperations, code \in {401, 403} : Arrive(r, op) /\ Answer(r, code)
    BY <1>1, Zenon DEF Unauthorized
  <2> QED
    BY <1>0, <2>1, Zenon
<1>2. ASSUME NEW r \in Reqs, RefuseUpload(r) PROVE OneMoves
  <2>1. Arrive(r, "create") /\ pc' = [pc EXCEPT ![r] = "reply"]
    BY <1>2 DEF RefuseUpload
  <2> QED
    BY <1>0, <2>1, Zenon
<1>3. ASSUME NEW r \in Reqs, OpenUpload(r) PROVE OneMoves
  BY <1>0, <1>3, Zenon DEF OpenUpload
<1>4. ASSUME NEW r \in Reqs, BeginList(r) PROVE OneMoves
  BY <1>0, <1>4, Zenon DEF BeginList
<1>5. ASSUME NEW r \in Reqs, BeginById(r) PROVE OneMoves
  BY <1>0, <1>5, Zenon DEF BeginById
<1>6. ASSUME NEW r \in Reqs, MalformedId(r) PROVE OneMoves
  BY <1>0, <1>6, Zenon DEF MalformedId
<1>7. ASSUME NEW r \in Reqs, BeginUpdate(r) PROVE OneMoves
  BY <1>0, <1>7, Zenon DEF BeginUpdate
<1>8. ASSUME NEW r \in Reqs, UpdateThrows(r) PROVE OneMoves
  BY <1>8 DEF UpdateThrows, Die, OneMoves
<1>9. ASSUME NEW r \in Reqs, FinishUpload(r) PROVE OneMoves
  BY <1>0, <1>9 DEF FinishUpload
<1>10. ASSUME NEW r \in Reqs, BreakUpload(r) PROVE OneMoves
  BY <1>0, <1>10 DEF BreakUpload
<1>11. ASSUME NEW r \in Reqs, RejectForm(r) PROVE OneMoves
  BY <1>0, <1>11, Zenon DEF RejectForm
<1>12. ASSUME NEW r \in Reqs, CheckName(r) PROVE OneMoves
  BY <1>0, <1>12 DEF CheckName
<1>13. ASSUME NEW r \in Reqs, InsertDoc(r) PROVE OneMoves
  BY <1>0, <1>13 DEF InsertDoc
<1>14. ASSUME NEW r \in Reqs, ListDocs(r) PROVE OneMoves
  BY <1>0, <1>14, Zenon DEF ListDocs
<1>15. ASSUME NEW r \in Reqs, FindDoc(r) PROVE OneMoves
  BY <1>0, <1>15 DEF FindDoc
<1>16. ASSUME NEW r \in Reqs, SaveDoc(r) PROVE OneMoves
  BY <1>0, <1>16 DEF SaveDoc
<1>17. ASSUME NEW r \in Reqs, UnlinkFile(r) PROVE OneMoves
  BY <1>0, <1>17 DEF UnlinkFile
<1>18. ASSUME NEW r \in Reqs, RemoveDoc(r) PROVE OneMoves
  BY <1>0, <1>18 DEF RemoveDoc
<1>19. ASSUME NEW r \in Reqs, DbError(r) PROVE OneMoves
  BY <1>0, <1>19, Zenon DEF DbError
<1>20. ASSUME NEW r \in Reqs, Reply(r) PROVE OneMoves
  BY <1>0, <1>20, Zenon DEF Reply
<1>21. CASE Tick
  BY <1>21 DEF Tick, OneMoves, Die, vars
<1>22. CASE Crash
  BY <1>22 DEF Crash, OneMoves, Die, vars
<1>23. CASE Restart
  BY <1>23 DEF Restart, OneMoves, Die, vars
<1>24. CASE Quiescent
  BY <1>24 DEF Quiescent, OneMoves, Die, vars
<1> QED
  BY <1>1, <1>2, <1>3, <1>4, <1>5, <1>6, <1>7, <1>8, <1>9, <1>10, <1>11, <1>12, <1>13, <1>14,
     <1>15, <1>16, <1>17, <1>18, <1>19, <1>20, <1>21, <1>22, <1>23, <1>24, Zenon
     DEF Next, Begin, Proceed

\* While a handler goes on that has not answered, nobody writes a document.
LEMMA DocsWait ==
  ASSUME TypeOK, Control, Alone, Next, NEW q \in Reqs, pc[q] \in InFlight, pc'[q] # "reply"
  PROVE  \A i \in Reqs : docs'[i] = docs[i]
<1> SUFFICES ASSUME NEW i \in Reqs, docs'[i] # docs[i] PROVE FALSE
  OBVIOUS
<1>1. PICK u \in Reqs : pc[u] \in {"insert", "save", "remove"} /\ pc'[u] = "reply"
  BY DocsStep DEF DocsChange
<1>2. pc[u] \in InFlight
  BY <1>1 DEF InFlight, DbOps
<1> QED
  BY <1>1, <1>2 DEF Alone

\* What createFile has looked up, and what updateFile has read, is still so when
\* the handler writes.
LEMMA CurrentStep ==
  ASSUME TypeOK, Control, Alone, Current, Next
  PROVE  Current'
<1>0. ASSUME NEW q \in Reqs
      PROVE  /\ HistoryOf(q) /\ ControlAt(q)
             /\ pc[q] \in {"insert", "save"} => pc[q] \in InFlight /\ kind[q] # "none"
  <2>1. HistoryOf(q) /\ ControlAt(q)
    BY HistoryStep, Zenon DEF History, Control
  <2> QED
    BY <2>1 DEF InFlight, DbOps, ControlAt
<1>1. ASSUME NEW q \in Reqs, pc'[q] = "insert" PROVE SameName(q)' = {}
  <2>1. (\A i \in Reqs : docs'[i] = docs[i]) /\ arg'[q] = arg[q] /\ SameName(q) = {}
    <3>1. CASE pc[q] = "insert"
      <4>1. arg'[q] = arg[q]
        BY <1>0, <3>1, Zenon DEF HistoryOf
      <4>2. \A i \in Reqs : docs'[i] = docs[i]
        BY <1>0, <1>1, <3>1, DocsWait
      <4> QED
        BY <3>1, <4>1, <4>2 DEF Current
    <3>2. CASE pc[q] # "insert"
      <4>1. CheckName(q)
        BY <1>0, <1>1, <3>2, Zenon DEF HistoryOf
      <4>2. UNCHANGED <<docs, arg>> /\ (SameName(q) = {} \/ pc' = [pc EXCEPT ![q] = "reply"])
        BY <4>1, Zenon DEF CheckName, Answer, input
      <4>3. DOMAIN pc = Reqs
        BY DEF TypeOK
      <4> QED
        BY <1>1, <4>2, <4>3
    <3> QED
      BY <3>1, <3>2
  <2> QED
    BY <2>1 DEF SameName
<1>2. ASSUME NEW q \in Reqs, pc'[q] = "save" PROVE snap'[q] = docs'[target'[q]]
  <2>1. target[q] \in Reqs /\ DOMAIN pc = Reqs /\ DOMAIN snap = Reqs
    BY DEF TypeOK
  <2>2. CASE pc[q] = "save"
    <3>1. kind[q] # "none" /\ snap[q] # NoDoc
      BY <1>0, <2>2, DocIsNotNoDoc DEF ControlAt
    <3>3. target'[q] = target[q] /\ snap'[q] = snap[q]
      BY <1>0, <3>1, Zenon DEF HistoryOf
    <3>2. \A i \in Reqs : docs'[i] = docs[i]
      BY <1>0, <1>2, <2>2, DocsWait
    <3> QED
      BY <2>1, <2>2, <3>2, <3>3 DEF Current
  <2>3. CASE pc[q] # "save"
    <3>1. FindDoc(q)
      BY <1>0, <1>2, <2>3, Zenon DEF HistoryOf
    <3>2. /\ UNCHANGED <<docs, target>>
          /\ snap' = [snap EXCEPT ![q] = docs[target[q]]] \/ pc' = [pc EXCEPT ![q] = "reply"]
      BY <3>1, Zenon DEF FindDoc, Answer, input
    <3> QED
      BY <1>2, <2>1, <3>2
  <2> QED
    BY <2>2, <2>3
<1> QED
  BY <1>1, <1>2, Zenon DEF Current
=============================================================================
