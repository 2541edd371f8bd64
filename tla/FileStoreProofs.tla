-------------------------- MODULE FileStoreProofs --------------------------
(***************************************************************************)
(* The safety properties of FileStore, for every set of requests, names    *)
(* and faults.  Each conjunct of IInv that needs an argument has a lemma   *)
(* that says why a step preserves it.                                      *)
(***************************************************************************)
EXTENDS FileStoreInvariants

\* The file goes before the document does.
LEMMA UnlinkedStep ==
  ASSUME TypeOK, Control, Provenance, Unlinked, Next, Control', Provenance'
  PROVE  Unlinked'
<1> SUFFICES ASSUME NEW i \in Reqs, kind'[i] = "create", NeverUpdated(i)'
             PROVE  UnlinkedFor(i)'
  BY DEF Unlinked
<1> DEFINE p == arg[i].filePath
<1>1. \A q \in Reqs : HistoryOf(q) /\ ControlAt(q) /\ ControlAt(q)'
  BY HistoryStep DEF History, Control
<1>2. CASE kind[i] = "none"
  <2>1. docs'[i] = NoDoc /\ \A d \in Reqs : target'[d] = i => snap'[d] = NoDoc
    BY <1>2, NewIsUnborn DEF Provenance
  <2>2. ASSUME NEW d \in Reqs, pc'[d] = "remove" PROVE snap'[d] # NoDoc
    BY <1>1, <2>2, DocIsNotNoDoc DEF ControlAt
  <2> QED
    BY <2>1, <2>2 DEF UnlinkedFor, Found
<1>3. CASE kind[i] # "none"
  <2>1. kind[i] = "create" /\ arg'[i] = arg[i]
    BY <1>1, <1>3 DEF HistoryOf
  <2>2. ASSUME NEW d \in Reqs, snap[d] # NoDoc \/ pc[d] = "remove" \/ pc'[d] = "remove" \/ snap'[d] # NoDoc
        PROVE  kind[d] # "none" /\ kind'[d] = kind[d] /\ target'[d] = target[d]
    <3>1. HistoryOf(d) /\ ControlAt(d)
      BY <1>1
    <3>2. (FindDoc(d) => pc[d] = "find") /\ (UnlinkFile(d) => pc[d] = "unlink")
      BY DEF FindDoc, UnlinkFile
    <3>3. kind[d] # "none"
      BY <2>2, <3>1, <3>2 DEF HistoryOf, ControlAt
    <3> QED
      BY <3>1, <3>3 DEF HistoryOf
  <2>3. NeverUpdated(i)
    <3> SUFFICES ASSUME NEW u \in Reqs, kind[u] = "update", target[u] = i, snap[u] # NoDoc
                 PROVE  FALSE
      BY DEF NeverUpdated
    <3>1. snap'[u] = snap[u]
      BY <1>1 DEF HistoryOf
    <3> QED
      BY <2>2, <3>1 DEF NeverUpdated
  <2>4. UnlinkedFor(i)
    BY <2>1, <2>3 DEF Unlinked
  <2>5. ASSUME NEW d \in Reqs, target'[d] = i, snap'[d] # NoDoc
        PROVE  /\ target[d] = i /\ snap'[d] = arg[i]
               /\ snap[d] = NoDoc => docs[i] # NoDoc /\ docs'[i] = docs[i]
    <3>1. target[d] = i
      BY <2>2, <2>5
    <3>2. CASE snap[d] # NoDoc
      <4>1. snap'[d] = snap[d]
        BY <1>1, <3>2 DEF HistoryOf
      <4> QED
        BY <2>4, <3>1, <3>2, <4>1 DEF UnlinkedFor
    <3>3. CASE snap[d] = NoDoc
      <4>1. FindDoc(d)
        BY <1>1, <2>5, <3>3, SMTT(30) DEF HistoryOf
      <4>2. docs[i] # NoDoc /\ snap'[d] = docs[i] /\ docs' = docs
        BY <4>1, <3>1, <3>3, <2>5, SMTT(30) DEF FindDoc, TypeOK
      <4> QED
        BY <2>4, <3>1, <4>2, SMTT(30) DEF UnlinkedFor
    <3> QED
      BY <3>2, <3>3
  <2>6. ASSUME Born(i), i \notin disk[p] PROVE i \notin disk'[p]
    <3>1. DiskChange(p)
      BY <2>6, DiskStep DEF Born, Doc
    <3> QED
      BY <2>1, <2>6, <3>1 DEF DiskChange
  <2>7. ASSUME NEW d \in Reqs, target[d] = i, snap[d] # NoDoc \/ pc[d] = "remove"
        PROVE  snap[d] # NoDoc /\ Born(i)
    <3>1. snap[d] # NoDoc
      BY <1>1, <2>7, DocIsNotNoDoc DEF ControlAt
    <3> QED
      BY <2>7, <3>1 DEF Provenance
  <2>8. ASSUME NEW d \in Reqs, target'[d] = i, pc'[d] = "remove"
        PROVE  i \notin disk'[p]
    <3>1. target[d] = i
      BY <2>2, <2>8
    <3>2. CASE pc[d] = "remove"
      BY <2>4, <2>6, <2>7, <3>1, <3>2 DEF UnlinkedFor
    <3>3. CASE pc[d] # "remove"
      <4>1. UnlinkFile(d)
        BY <1>1, <2>8, <3>3 DEF HistoryOf
      <4>2. pc[d] = "unlink" /\ ControlAt(d)
        BY <1>1, <4>1 DEF UnlinkFile
      <4>3. snap[d] # NoDoc /\ snap[d].filePath \in Path
        BY <4>2, DocIsNotNoDoc DEF ControlAt, Doc
      <4>4. snap[d] = arg[i]
        BY <2>4, <3>1, <4>3 DEF UnlinkedFor
      <4>5. disk' = [disk EXCEPT ![snap[d].filePath] = {}]
        BY <4>1, <2>8 DEF UnlinkFile, Answer, TypeOK
      <4> QED
        BY <4>3, <4>4, <4>5 DEF TypeOK
    <3> QED
      BY <3>2, <3>3
  <2>9. ASSUME Found(i)', docs'[i] = NoDoc
        PROVE  i \notin disk'[p]
    <3>1. PICK d \in Reqs : snap'[d] # NoDoc /\ target'[d] = i
      BY <2>9 DEF Found
    <3>2. snap[d] # NoDoc /\ target[d] = i
      BY <2>5, <2>9, <3>1
    <3>3. Born(i)
      BY <2>7, <3>2
    <3>4. CASE docs[i] = NoDoc
      BY <2>4, <2>6, <3>2, <3>3, <3>4 DEF UnlinkedFor, Found
    <3>5. CASE docs[i] # NoDoc
      <4>1. DocsChange(i) /\ arg[i] # NoDoc
        BY <3>3, DocsStep, DocIsNotNoDoc DEF Born
      <4>2. PICK e \in Reqs : pc[e] = "remove" /\ target[e] = i
        BY <4>1, <3>5, <2>9, DocIsNotNoDoc, SMTT(30) DEF DocsChange
      <4> QED
        BY <2>4, <2>6, <3>3, <4>2 DEF UnlinkedFor
    <3> QED
      BY <3>4, <3>5
  <2>10. docs'[i] # NoDoc => docs'[i] = arg[i]
    <3>1. DocsChange(i)
      BY DocsStep
    <3> QED
      BY <2>3, <2>4, <3>1 DEF DocsChange, UnlinkedFor, NeverUpdated
  <2> QED
    BY <2>1, <2>5, <2>8, <2>9, <2>10, SMTT(30) DEF UnlinkedFor
<1> QED
  BY <1>2, <1>3

\* A file is destroyed by a DELETE of a document that names it, by nothing else.
LEMMA UploadIntactStep ==
  ASSUME TypeOK, Control, Provenance, DiskOwner, UploadIntact, Next, Provenance'
  PROVE  UploadIntact'
<1> SUFFICES ASSUME NEW i \in Reqs, kind'[i] = "create", arg'[i] \in Doc, OwnPath(i)',
                    pc'[i] \in Uploading \/ docs'[i] # NoDoc,
                    NEW p, p = arg'[i].filePath
             PROVE  disk'[p] = {i} \/ \E d \in Reqs : MayHaveUnlinked(d, p)'
  BY DEF UploadIntact, MayHaveUnlinked
<1>1. \A q \in Reqs : HistoryOf(q) /\ ControlAt(q)
  BY HistoryStep DEF History, Control
<1>2. p \in Path /\ HistoryOf(i) /\ ControlAt(i)
  BY <1>1 DEF Doc
<1>3. CASE kind[i] = "none"
  <2>1. OpenUpload(i)
    <3>1. docs'[i] = NoDoc
      BY <1>3, NewIsUnborn DEF Provenance
    <3> QED
      BY <1>2, <1>3, <3>1 DEF HistoryOf
  <2>2. disk'[p] = {i} \cup (disk[p] \cap Writing)
    BY <1>2, <2>1, OpenedFile DEF TypeOK
  <2>3. ASSUME NEW q \in disk[p] PROVE FALSE
    <3>1. q \in Reqs /\ kind[q] = "create" /\ arg[q] \in Doc /\ arg[q].filePath = p
      BY <1>2 DEF DiskOwner, TypeOK
    <3>2. HistoryOf(q)
      BY <1>1, <3>1
    <3>3. q # i /\ kind'[q] = "create" /\ arg'[q] = arg[q] /\ arg'[q] # NoDoc
      BY <1>3, <3>1, <3>2, DocIsNotNoDoc DEF HistoryOf
    <3> QED
      BY <3>1, <3>3 DEF OwnPath
  <2> QED
    BY <2>2, <2>3
<1>4. CASE kind[i] # "none"
  <2>1. kind[i] = "create" /\ arg[i] = arg'[i] /\ arg[i] \in Doc
    BY <1>2, <1>4 DEF HistoryOf
  <2>2. OwnPath(i)
    <3> SUFFICES ASSUME NEW q \in Reqs \ {i}, kind[q] = "create", arg[q] # NoDoc
                 PROVE  arg[q].filePath # arg[i].filePath
      BY DEF OwnPath
    <3>1. HistoryOf(q)
      BY <1>1
    <3>2. kind'[q] = "create" /\ arg'[q] = arg[q]
      BY <3>1 DEF HistoryOf
    <3> QED
      BY <2>1, <3>2 DEF OwnPath
  <2>3. pc[i] \in Uploading \/ docs[i] # NoDoc
    <3>1. DocsChange(i)
      BY DocsStep
    <3>2. pc[i] # "idle"
      BY <1>2, <1>4 DEF ControlAt
    <3>3. pc'[i] \in Uploading => pc[i] \in Uploading
      BY <1>2, <3>2 DEF HistoryOf
    <3> QED
      BY <3>1, <3>3 DEF DocsChange, Uploading
  <2>4. disk[p] = {i} \/ \E d \in Reqs : MayHaveUnlinked(d, p)
    BY <2>1, <2>2, <2>3, Zenon DEF UploadIntact
  <2>5. ASSUME NEW d \in Reqs, MayHaveUnlinked(d, p)
        PROVE  MayHaveUnlinked(d, p)'
    <3>1. HistoryOf(d)
      BY <1>1
    <3> QED
      BY <2>5, <3>1 DEF MayHaveUnlinked, HistoryOf
  <2>6. ASSUME NEW r \in Reqs, kind[r] = "none", kind'[r] = "create",
               arg'[r] \in Doc, arg'[r].filePath = p
        PROVE  FALSE
    BY <2>1, <2>6, DocIsNotNoDoc DEF OwnPath
  <2>7. ASSUME NEW r \in Reqs, pc[r] = "writing", arg[r].filePath = p,
               pc'[r] = "reply", docs' = docs
        PROVE  FALSE
    <3>1. kind[r] = "create" /\ arg[r] # NoDoc
      BY <1>1, <2>7, DocIsNotNoDoc DEF ControlAt, Uploading
    <3>2. r = i
      BY <2>1, <2>2, <2>7, <3>1 DEF OwnPath
    <3> QED
      BY <2>7, <3>2 DEF Provenance, Born, Uploading, Over
  <2>8. ASSUME NEW d \in Reqs, pc[d] = "unlink", snap[d].filePath = p, pc'[d] = "remove"
        PROVE  MayHaveUnlinked(d, p)'
    <3>1. HistoryOf(d) /\ ControlAt(d)
      BY <1>1
    <3>2. kind[d] = "delete" /\ snap[d] # NoDoc
      BY <2>8, <3>1, DocIsNotNoDoc, SMTT(30) DEF ControlAt
    <3>3. kind'[d] = "delete" /\ snap'[d] = snap[d]
      BY <3>1, <3>2 DEF HistoryOf
    <3> QED
      BY <2>8, <3>2, <3>3 DEF MayHaveUnlinked
  <2>9. DiskChange(p)
    BY DiskStep, <1>2
  <2> QED
    BY <2>4, <2>5, <2>6, <2>7, <2>8, <2>9, Zenon DEF DiskChange
<1> QED
  BY <1>3, <1>4

\* DELETE is final: only InsertDoc makes a document out of nothing, and it did
\* so before the DELETE found the document.
LEMMA DeletedStep ==
  ASSUME TypeOK, Control, Provenance, DeletedStaysDeleted, Next, Control'
  PROVE  DeletedStaysDeleted'
<1> SUFFICES ASSUME NEW d \in Reqs, kind'[d] = "delete", resp'[d] = 200
             PROVE  docs'[target'[d]] = NoDoc
  BY DEF DeletedStaysDeleted
<1>1. HistoryOf(d) /\ ControlAt(d) /\ ControlAt(d)'
  BY HistoryStep DEF History, Control
<1>2. kind[d] # "none"
  <2>1. snap'[d] # NoDoc
    BY <1>1 DEF ControlAt
  <2>2. kind[d] = "none" => pc[d] = "idle" /\ snap[d] = NoDoc
    BY <1>1 DEF ControlAt
  <2>3. FindDoc(d) => pc[d] = "find"
    BY DEF FindDoc
  <2> QED
    BY <1>1, <2>1, <2>2, <2>3 DEF HistoryOf
<1>3. kind[d] = "delete" /\ target'[d] = target[d]
  BY <1>1, <1>2 DEF HistoryOf
<1>4. CASE resp[d] = 200
  <2>1. snap[d] # NoDoc
    BY <1>1, <1>3, <1>4 DEF ControlAt
  <2>2. docs[target[d]] = NoDoc /\ pc[target[d]] # "insert"
    BY <1>3, <1>4, <2>1 DEF DeletedStaysDeleted, Provenance, Born, Over
  <2>3. DocsChange(target[d])
    BY DocsStep DEF TypeOK
  <2> QED
    BY <1>3, <2>2, <2>3 DEF DocsChange
<1>5. CASE resp[d] # 200
  <2>1. RemoveDoc(d)
    BY <1>1, <1>3, <1>5 DEF HistoryOf
  <2> QED
    BY <1>3, <2>1 DEF RemoveDoc, Removed, TypeOK
<1> QED
  BY <1>4, <1>5

\* POST is lasting: only RemoveDoc takes a document away.
LEMMA CreatedStep ==
  ASSUME TypeOK, Control, CreatedSurvives, Next
  PROVE  CreatedSurvives'
<1> SUFFICES ASSUME NEW i \in Reqs, resp'[i] = 201
             PROVE  docs'[i] # NoDoc \/ \E d \in Reqs : MayHaveRemoved(d, i)'
  BY DEF CreatedSurvives
<1>1. \A q \in Reqs : HistoryOf(q) /\ ControlAt(q)
  BY HistoryStep DEF History, Control
<1>2. CASE resp[i] # 201
  <2>1. InsertDoc(i)
    BY <1>1, <1>2 DEF HistoryOf
  <2>2. docs'[i] = arg[i] /\ pc[i] = "insert"
    BY <2>1 DEF InsertDoc, TypeOK
  <2>3. arg[i] \in Doc
    BY <1>1, <2>2 DEF ControlAt, Uploading
  <2> QED
    BY <2>2, <2>3, DocIsNotNoDoc
<1>3. CASE resp[i] = 201 /\ docs[i] # NoDoc
  <2>1. DocsChange(i)
    BY DocsStep
  <2>2. pc[i] # "insert"
    BY <1>1, <1>3 DEF ControlAt, Over
  <2>3. ASSUME NEW d \in Reqs, pc[d] = "remove", pc'[d] = "reply", target[d] = i
        PROVE  MayHaveRemoved(d, i)'
    <3>1. HistoryOf(d) /\ ControlAt(d)
      BY <1>1
    <3>2. kind[d] = "delete" /\ snap[d] # NoDoc
      BY <2>3, <3>1, DocIsNotNoDoc DEF ControlAt
    <3> QED
      BY <2>3, <3>1, <3>2 DEF HistoryOf, MayHaveRemoved
  <2> QED
    BY <1>3, <2>1, <2>2, <2>3, DocIsNotNoDoc DEF DocsChange
<1>4. ASSUME NEW d \in Reqs, MayHaveRemoved(d, i)
      PROVE  MayHaveRemoved(d, i)'
  <2>1. HistoryOf(d)
    BY <1>1
  <2>2. UnlinkFile(d) => pc[d] = "unlink"
    BY DEF UnlinkFile
  <2> QED
    BY <1>4, <2>1, <2>2 DEF MayHaveRemoved, HistoryOf
<1> QED
  BY <1>2, <1>3, <1>4 DEF CreatedSurvives

-----------------------------------------------------------------------------
\* The server starts, with an empty database, in the invariant.
LEMMA InitIInv == Init => IInv
BY FileStoreAssumption DEF Init, IInv, TypeOK, Control, ControlAt, Provenance, DiskOwner, UploadIntact,
   Unlinked, UnlinkedFor, Found, DeletedStaysDeleted, CreatedSurvives, Path, PC, AllOperations, Codes, Uploading, Over

\* When nothing changes, every part of the invariant stays true.
LEMMA StutterIInv ==
  ASSUME UNCHANGED vars
  PROVE  IInv => IInv'
<1>1. (TypeOK => TypeOK') /\ (Control => Control')
  BY DEF vars, TypeOK, Control, ControlAt
<1>2. (Provenance => Provenance') /\ (DiskOwner => DiskOwner')
  BY DEF vars, Provenance, Born, DiskOwner
<1>3. UploadIntact => UploadIntact'
  <2>1. \A i \in Reqs : OwnPath(i)' <=> OwnPath(i)
    BY DEF vars, OwnPath
  <2>2. \A d \in Reqs : \A p : MayHaveUnlinked(d, p)' <=> MayHaveUnlinked(d, p)
    BY DEF vars, MayHaveUnlinked
  <2> QED
    BY <2>1, <2>2 DEF vars, UploadIntact
<1>4. Unlinked => Unlinked'
  <2>1. \A i \in Reqs : NeverUpdated(i)' <=> NeverUpdated(i)
    BY DEF vars, NeverUpdated
  <2>2. \A i \in Reqs : UnlinkedFor(i)' <=> UnlinkedFor(i)
    BY DEF vars, UnlinkedFor, Found
  <2> QED
    BY <2>1, <2>2 DEF vars, Unlinked
<1>5. DeletedStaysDeleted => DeletedStaysDeleted'
  BY DEF vars, DeletedStaysDeleted
<1>6. CreatedSurvives => CreatedSurvives'
  BY DEF vars, CreatedSurvives, MayHaveRemoved
<1> QED
  BY <1>1, <1>2, <1>3, <1>4, <1>5, <1>6, Zenon DEF IInv

\* Every step of every handler preserves the invariant.
LEMMA NextIInv == IInv /\ [Next]_vars => IInv'
<1> SUFFICES ASSUME IInv, [Next]_vars PROVE IInv'
  OBVIOUS
<1>1. CASE Next
  <2>1. TypeOK' /\ Control' /\ Provenance' /\ DiskOwner'
    BY <1>1, TypeStep, ControlStep, ProvenanceStep, DiskOwnerStep DEF IInv
  <2>2. UploadIntact' /\ Unlinked'
    BY <1>1, <2>1, UploadIntactStep, UnlinkedStep DEF IInv
  <2>3. DeletedStaysDeleted' /\ CreatedSurvives'
    BY <1>1, <2>1, DeletedStep, CreatedStep DEF IInv
  <2> QED
    BY <2>1, <2>2, <2>3 DEF IInv
<1>2. CASE UNCHANGED vars
  BY <1>2, StutterIInv, Zenon
<1> QED
  BY <1>1, <1>2

\* IInv is an invariant of the server.
LEMMA Invariance == Spec => []IInv
BY InitIInv, NextIInv, PTL DEF Spec

\* The variables of the server, the database and the disk stay in their sets.
THEOREM TypeCorrect == Spec => []TypeOK
<1>1. IInv => TypeOK
  BY DEF IInv
<1> QED
  BY <1>1, Invariance, PTL

\* A DELETE that answered 200 is final, whatever updateFile saves afterwards.
THEOREM DeleteIsFinal == Spec => []DeletedStaysDeleted
<1>1. IInv => DeletedStaysDeleted
  BY DEF IInv
<1> QED
  BY <1>1, Invariance, PTL

\* A document whose POST answered 201 is there until deleteFile removes it.
THEOREM CreateIsLasting == Spec => []CreatedSurvives
<1>1. IInv => CreatedSurvives
  BY DEF IInv
<1> QED
  BY <1>1, Invariance, PTL

\* The file of a document is the upload that created it, until a deleteFile
\* that found its path has run.
THEOREM FileIsIntact == Spec => []StoredFileIntact
<1>1. IInv => StoredFileIntact
  BY DEF IInv, StoredFileIntact, UploadIntact, Provenance, Born
<1> QED
  BY <1>1, Invariance, PTL

\* deleteFile leaves no file behind when no PUT has touched the document.
THEOREM DeleteIsThorough == Spec => []DeleteLeavesNoFile
<1>1. IInv => DeleteLeavesNoFile
  BY DEF IInv, DeleteLeavesNoFile, Unlinked, UnlinkedFor, NeverUpdated, Found
<1> QED
  BY <1>1, Invariance, PTL

-----------------------------------------------------------------------------
(* One request at a time: the names of documents, and what a PUT stores.   *)

\* Counting the requests in flight (Cardinality, from its definition): a set with
\* one element has one.
LEMMA OneElement ==
  ASSUME NEW x
  PROVE  Cardinality({x}) = 1
<1> DEFINE Count(f) == f = [T \in SUBSET {x} |->
                              IF T = {} THEN 0 ELSE 1 + f[T \ {CHOOSE y : y \in T}]]
           g == [T \in SUBSET {x} |-> IF T = {} THEN 0 ELSE 1]
<1>1. (CHOOSE y : y \in {x}) = x
  OBVIOUS
<1>2. \A T \in SUBSET {x} : T = {} \/ T = {x}
  OBVIOUS
<1>3. Count(g)
  <2>1. ASSUME NEW T \in SUBSET {x}
        PROVE  g[T] = IF T = {} THEN 0 ELSE 1 + g[T \ {CHOOSE y : y \in T}]
    <3>1. CASE T = {}
      BY <3>1
    <3>2. CASE T = {x}
      <4>1. T \ {CHOOSE y : y \in T} = {}
        BY <1>1, <3>2
      <4>2. g[{}] = 0 /\ g[T] = 1
        BY <3>2
      <4> QED
        BY <3>2, <4>1, <4>2
    <3> QED
      BY <1>2, <3>1, <3>2
  <2> QED
    BY <2>1, Zenon
<1> DEFINE CS == CHOOSE f : Count(f)
<1>4. Count(CS)
  <2> HIDE DEF Count
  <2> QED
    BY <1>3
<1>5. Cardinality({x}) = CS[{x}]
  BY Zenon DEF Cardinality
<1>6. CS[{}] = 0
  <2> HIDE DEF CS
  <2> QED
    BY <1>4
<1>7. CS[{x}] = 1 + CS[{x} \ {x}]
  <2> HIDE DEF CS
  <2> QED
    BY <1>1, <1>4
<1>8. {x} \ {x} = {}
  OBVIOUS
<1> HIDE DEF CS
<1> QED
  BY <1>5, <1>6, <1>7, <1>8

\* A client that waits for its answers finds the server without a request.
LEMMA ArrivesAlone ==
  ASSUME Concurrency <= 1, Alone
  PROVE  ArriveAlone
<1> SUFFICES ASSUME NEW r \in Reqs, NEW op, Arrive(r, op)
             PROVE  \A q \in Reqs : pc[q] \notin InFlight
  BY DEF ArriveAlone
<1> DEFINE S == {q \in Reqs : pc[q] \in InFlight}
<1> SUFFICES ASSUME NEW q \in Reqs, pc[q] \in InFlight PROVE FALSE
  OBVIOUS
<1>1. S = {q}
  BY DEF Alone
<1>2. Cardinality(S) = 1
  BY <1>1, OneElement, Zenon
<1>3. Cardinality(S) < Concurrency
  BY DEF Arrive
<1> QED
  BY <1>2, <1>3, FileStoreAssumption

\* There is never more than one request in flight.
LEMMA AloneStep ==
  ASSUME Concurrency <= 1, TypeOK, Alone, Next
  PROVE  Alone'
BY ArrivesAlone, OneMovesStep DEF Alone, OneMoves

NameFromPut(i, j) ==
  \E u \in Reqs : /\ kind[u] = "update" /\ target[u] \in {i, j}
                  /\ arg[u] # NoDoc /\ arg[u].fileName = docs[i].fileName

\* A document that gets a name some other document has gets it from a PUT.
LEMMA NamesStep ==
  ASSUME TypeOK, Control, Current, CreateKeepsNamesUnique, Next
  PROVE  CreateKeepsNamesUnique'
<1> SUFFICES ASSUME NEW i \in Reqs, NEW j \in Reqs, i # j, docs'[i] # NoDoc, docs'[j] # NoDoc,
                    docs'[i].fileName = docs'[j].fileName
             PROVE  NameFromPut(i, j)'
  BY SMTT(30) DEF CreateKeepsNamesUnique, NameFromPut
<1>0. ASSUME docs[i] # NoDoc, docs[j] # NoDoc, docs[i].fileName = docs'[i].fileName,
             docs[j].fileName = docs'[j].fileName
      PROVE  NameFromPut(i, j)'
  <2>1. PICK u \in Reqs : /\ kind[u] = "update" /\ target[u] \in {i, j}
                          /\ arg[u] # NoDoc /\ arg[u].fileName = docs[i].fileName
    BY <1>0 DEF CreateKeepsNamesUnique
  <2>2. kind'[u] = kind[u] /\ target'[u] = target[u] /\ arg'[u] = arg[u]
    BY <2>1, HistoryStep DEF History, HistoryOf
  <2> QED
    BY <1>0, <2>1, <2>2 DEF NameFromPut
<1>1. ASSUME NEW r \in Reqs, InsertDoc(r) PROVE NameFromPut(i, j)'
  <2>1. docs' = [docs EXCEPT ![r] = arg[r]] /\ SameName(r) = {}
    BY <1>1 DEF InsertDoc, Current
  <2>2. \A q \in Reqs \ {r} : docs'[q] = docs[q] /\ docs[q] # NoDoc => docs[q].fileName # arg[r].fileName
    BY <2>1 DEF SameName, TypeOK
  <2>3. docs'[r] = arg[r]
    BY <2>1 DEF TypeOK
  <2>4. i # r /\ j # r
    BY <2>1, <2>2, <2>3 DEF TypeOK
  <2>5. docs'[i] = docs[i] /\ docs'[j] = docs[j]
    BY <2>1, <2>4 DEF TypeOK
  <2> QED
    BY <1>0, <2>5, Zenon
<1>2. ASSUME NEW r \in Reqs, SaveDoc(r) PROVE NameFromPut(i, j)'
  <2>1. CASE docs' = docs
    BY <1>0, <2>1, Zenon
  <2>2. CASE docs' # docs
    <3>1. /\ docs' = [docs EXCEPT ![target[r]] = Delta(snap[r], arg[r], @)]
          /\ docs[target[r]] # NoDoc /\ UNCHANGED <<kind, target, arg>>
      BY <1>2, <2>2, Zenon DEF SaveDoc, input
    <3>2. kind[r] = "update" /\ arg[r] \in Doc /\ target[r] \in Reqs /\ arg[r] # NoDoc
      BY <1>2, DocIsNotNoDoc DEF SaveDoc, Control, ControlAt, TypeOK
    <3>3. docs'[target[r]].fileName \in {arg[r].fileName, docs[target[r]].fileName}
      BY <3>1, <3>2 DEF Delta, TypeOK
    <3>4. \A q \in Reqs \ {target[r]} : docs'[q] = docs[q]
      <4>1. DOMAIN docs = Reqs
        BY DEF TypeOK
      <4> QED
        BY <3>1, <4>1
    <3>5. CASE target[r] \in {i, j} /\ docs'[target[r]].fileName = arg[r].fileName
      BY <3>1, <3>2, <3>5 DEF NameFromPut
    <3>6. CASE target[r] \notin {i, j}
      BY <1>0, <3>4, <3>6, Zenon
    <3>7. CASE target[r] \in {i, j} /\ docs'[target[r]].fileName = docs[target[r]].fileName
      BY <1>0, <3>1, <3>4, <3>7
    <3> QED
      BY <3>3, <3>5, <3>6, <3>7, Zenon
  <2> QED
    BY <2>1, <2>2
<1>3. ASSUME NEW r \in Reqs, RemoveDoc(r) PROVE NameFromPut(i, j)'
  <2>1. docs'[i] = docs[i] /\ docs'[j] = docs[j]
    BY <1>3 DEF RemoveDoc, TypeOK
  <2> QED
    BY <1>0, <2>1
<1>4. CASE UNCHANGED docs
  BY <1>0, <1>4
<1> QED
  BY <1>1, <1>2, <1>3, <1>4, ZenonT(40) DEF Next, Begin, Proceed, Unauthorized, RefuseUpload,
     OpenUpload, BeginList, BeginById, MalformedId, BeginUpdate, UpdateThrows, FinishUpload,
     BreakUpload, RejectForm, CheckName, ListDocs, FindDoc, UnlinkFile, DbError, Reply, Tick,
     Crash, Restart, Quiescent, vars

\* Requests that come one after the other keep the sequential invariant.
LEMMA SequentialInvariance ==
  ASSUME Concurrency <= 1
  PROVE  Spec => []SequentialInv
<1>1. Init => SequentialInv
  BY DEF Init, SequentialInv, Alone, Current, CreateKeepsNamesUnique, InFlight, DbOps
<1>2. IInv /\ SequentialInv /\ [Next]_vars => SequentialInv'
  <2> SUFFICES ASSUME IInv, SequentialInv, [Next]_vars PROVE SequentialInv'
    OBVIOUS
  <2>1. CASE Next
    BY <2>1, AloneStep, CurrentStep, NamesStep, SMTT(30) DEF IInv, SequentialInv
  <2>2. CASE UNCHANGED vars
    BY <2>2 DEF vars, SequentialInv, Alone, Current, SameName, CreateKeepsNamesUnique
  <2> QED
    BY <2>1, <2>2
<1> QED
  BY <1>1, <1>2, Invariance, PTL DEF Spec

\* While clients wait for their answers, the 409 of createFile keeps names unique:
\* two documents share a fileName only after a PUT that sent it.
THEOREM CreateRefusesTakenNames ==
  ASSUME Concurrency <= 1
  PROVE  Spec => []CreateKeepsNamesUnique
<1>1. SequentialInv => CreateKeepsNamesUnique
  BY DEF SequentialInv
<1> QED
  BY <1>1, SequentialInvariance, PTL

\* While clients wait for their answers, a PUT answered 200 has stored exactly the
\* document it sent, although Mongoose sends only the fields that changed.
THEOREM UpdateIsStored ==
  ASSUME Concurrency <= 1
  PROVE  Spec => UpdateAckedIsStored
<1>1. ASSUME IInv, SequentialInv, Next, NEW r \in Reqs, pc[r] = "save", resp'[r] = 200
      PROVE  docs'[target[r]] = arg[r]
  <2>0. TypeOK /\ Control /\ Current
    BY <1>1, Zenon DEF IInv, SequentialInv
  <2>1. resp[r] = 0 /\ snap[r] \in Doc /\ arg[r] \in Doc /\ snap[r] = docs[target[r]]
    <3>1. ControlAt(r)
      BY <2>0, Zenon DEF Control
    <3>2. snap[r] = docs[target[r]]
      BY <1>1, <2>0, Zenon DEF Current
    <3> QED
      BY <1>1, <3>1, <3>2 DEF ControlAt, Over
  <2>2. SaveDoc(r)
    <3>1. HistoryOf(r)
      BY <1>1, <2>0, HistoryStep, Zenon DEF History
    <3> QED
      BY <1>1, <2>1, <3>1 DEF HistoryOf
  <2>3. docs' = [docs EXCEPT ![target[r]] = Delta(snap[r], arg[r], @)]
    <3>1. docs[target[r]] # NoDoc
      BY <2>1, DocIsNotNoDoc, Zenon
    <3> QED
      BY <2>2, <3>1, Zenon DEF SaveDoc
  <2>4. Delta(snap[r], arg[r], snap[r]) = arg[r]
    BY <2>1 DEF Delta, Doc
  <2> QED
    <3>1. target[r] \in Reqs /\ DOMAIN docs = Reqs
      BY <2>0 DEF TypeOK
    <3> QED
      BY <2>1, <2>3, <2>4, <3>1
<1>2. IInv /\ SequentialInv /\ [Next]_vars
        => [\A r \in Reqs : pc[r] = "save" /\ resp'[r] = 200 => docs'[target[r]] = arg[r]]_vars
  BY <1>1
<1> QED
  BY <1>2, Invariance, SequentialInvariance, PTL DEF Spec, UpdateAckedIsStored
=============================================================================
