---------------------------- MODULE UploadQueue ----------------------------
(***************************************************************************)
(* Background uploads: POST /upload stages a file in the directory uploads *)
(* and queues a job for it, the worker of config/queue.js moves the file   *)
(* to its destination in the same directory, GET /status/:jobId reports.   *)
(*                                                                         *)
(* The queue is the library bull on Redis.  Its part is modelled from the  *)
(* settings and calls of this code: a job is locked while the worker has   *)
(* it; an answer of the worker counts only under the lock; a failed job is *)
(* delayed and retried; an active job without a lock is stalled.           *)
(*                                                                         *)
(* A request is used once; the job it adds has the request as its id.      *)
(***************************************************************************)
EXTENDS Naturals, FiniteSets

CONSTANTS
  Reqs,          \* POST requests, and the ids of the jobs they add
  Readers,       \* GET requests for the status of a job
  AllowedNames,  \* original names with an extension in allowedFileTypes
  OtherNames,    \* original names with another extension
  MaxClock,      \* bound on Date.now(), in milliseconds
  MaxCrashes,    \* bound on the crashes of the process
  Attempts,      \* attempts of addFileUploadJob
  MaxStalled,    \* maxStalledCount of the queue
  Faults,        \* subset of FaultKinds
  None           \* no path, no name, no job

FaultKinds == {"redis", "fs", "client", "lock"}

Path == (0 .. MaxClock) \X AllowedNames

ASSUME UploadQueueAssumption ==
  /\ MaxClock \in Nat /\ MaxCrashes \in Nat
  /\ Attempts \in Nat \ {0} /\ MaxStalled \in Nat
  /\ Faults \subseteq FaultKinds
  /\ None \notin Path \cup Reqs \cup AllowedNames \cup OtherNames
  /\ AllowedNames \cap OtherNames = {}

VARIABLES
  clock, up, crashes,
  disk,            \* uploads: path -> the uploads whose bytes are in the file
  pc, orig, src, resp,                             \* POST: originalname, path, status
  state, attemptsMade, stalled, locked, returnvalue, \* the jobs, in Redis
  wpc, wjob,                                       \* the worker, and its job
  moved,           \* destinationPath of the last move of a job
  starts,          \* history: how often the worker has taken a job
  rpc, rjob, rresult, rstate                       \* GET: what it has read

env     == <<clock, up, crashes>>
post    == <<pc, orig, src, resp>>
job     == <<state, attemptsMade, stalled, locked, returnvalue>>
worker  == <<wpc, wjob, moved, starts>>
readers == <<rpc, rjob, rresult, rstate>>
vars    == <<env, disk, post, job, worker, readers>>

States == {"none", "waiting", "active", "delayed", "completed", "failed"}
Ended  == {"done", "dropped"}

Init ==
  /\ clock = 0 /\ up = TRUE /\ crashes = 0
  /\ disk = [p \in Path |-> {}]
  /\ pc = [r \in Reqs |-> "idle"] /\ resp = [r \in Reqs |-> 0]
  /\ orig = [r \in Reqs |-> None] /\ src = [r \in Reqs |-> None]
  /\ state = [r \in Reqs |-> "none"] /\ locked = [r \in Reqs |-> FALSE]
  /\ attemptsMade = [r \in Reqs |-> 0] /\ stalled = [r \in Reqs |-> 0]
  /\ returnvalue = [r \in Reqs |-> None] /\ moved = [r \in Reqs |-> None]
  /\ starts = [r \in Reqs |-> 0]
  /\ wpc = "idle" /\ wjob = None
  /\ rpc = [q \in Readers |-> "idle"] /\ rjob = [q \in Readers |-> None]
  /\ rresult = [q \in Readers |-> None] /\ rstate = [q \in Readers |-> "none"]

-----------------------------------------------------------------------------
(* POST /upload: multer, initiateFileUpload and addFileUploadJob.          *)

Goto(r, p) == pc' = [pc EXCEPT ![r] = p] /\ UNCHANGED resp

Answer(r, code) ==
  /\ pc'   = [pc EXCEPT ![r] = "done"]
  /\ resp' = [resp EXCEPT ![r] = code]

Arrive(r) == up /\ pc[r] = "idle"

\* fileFilter rejects the name; the error is not a MulterError, and
\* uploadErrorHandler answers 500.
WrongType(r) ==
  /\ Arrive(r)
  /\ \E o \in OtherNames : orig' = [orig EXCEPT ![r] = o]
  /\ Answer(r, 500)
  /\ UNCHANGED <<env, disk, src, job, worker, readers>>

\* No file in the form, or an unexpected one (a MulterError): 400.  A file
\* that cannot be opened: 500.
RefuseUpload(r) ==
  /\ Arrive(r)
  /\ Answer(r, 400) \/ ("fs" \in Faults /\ Answer(r, 500))
  /\ UNCHANGED <<env, disk, orig, src, job, worker, readers>>

OpenUpload(r) ==
  /\ Arrive(r)
  /\ \E o \in AllowedNames :
       LET p == <<clock, o>>
       IN  /\ orig' = [orig EXCEPT ![r] = o]
           /\ src'  = [src EXCEPT ![r] = p]
           /\ disk' = [disk EXCEPT ![p] = {r} \cup {q \in @ : pc[q] = "writing"}]
  /\ Goto(r, "writing")
  /\ UNCHANGED <<env, job, worker, readers>>

\* A write error leaves the file (500); a client that goes away leaves the
\* request without an answer.
BreakUpload(r) ==
  /\ pc[r] = "writing"
  /\ \/ "fs" \in Faults /\ Answer(r, 500)
     \/ "client" \in Faults /\ Goto(r, "dropped")
  /\ UNCHANGED <<env, disk, orig, src, job, worker, readers>>

\* Mutant: the path is computed again when the file is removed.
StoredPath_Recomputed(r) == <<clock, orig[r]>>
StoredPath(r)            == src[r]

\* More than 5 MB, or a second file: multer removes the file, and
\* uploadErrorHandler answers 400.
RejectForm(r) ==
  /\ pc[r] = "writing"
  /\ disk' = [disk EXCEPT ![StoredPath(r)] = {}]
  /\ Answer(r, 400)
  /\ UNCHANGED <<env, orig, src, job, worker, readers>>

\* The file is written.  The names pass the checks of the type, which fileFilter
\* has made before; the file must still be there.
FinishUpload(r) ==
  /\ pc[r] = "writing"
  /\ IF disk[src[r]] = {} THEN Answer(r, 500) ELSE Goto(r, "adding")
  /\ UNCHANGED <<env, disk, orig, src, job, worker, readers>>

\* Redis adds the job; its answer may be lost.
AddJob(r) ==
  /\ pc[r] = "adding"
  /\ state' = [state EXCEPT ![r] = "waiting"]
  /\ Answer(r, 202) \/ ("redis" \in Faults /\ Answer(r, 500))
  /\ UNCHANGED <<env, disk, orig, src, attemptsMade, stalled, locked, returnvalue, worker, readers>>

\* Mutant: the error of the queue is swallowed.
AddFails_Swallowed(r) ==
  /\ "redis" \in Faults /\ pc[r] = "adding"
  /\ Answer(r, 202)
  /\ UNCHANGED <<env, disk, orig, src, job, worker, readers>>

AddFails(r) ==
  /\ "redis" \in Faults /\ pc[r] = "adding"
  /\ Answer(r, 500)
  /\ UNCHANGED <<env, disk, orig, src, job, worker, readers>>

-----------------------------------------------------------------------------
(* The worker: one job at a time.                                          *)

TakeJob(j) ==
  /\ up /\ wpc = "idle" /\ state[j] = "waiting"
  /\ state'  = [state EXCEPT ![j] = "active"]
  /\ locked' = [locked EXCEPT ![j] = TRUE]
  /\ starts' = [starts EXCEPT ![j] = @ + 1]
  /\ wpc' = "run" /\ wjob' = j
  /\ UNCHANGED <<env, disk, post, attemptsMade, stalled, returnvalue, moved, readers>>

\* Mutant: the job's data has no such name, and the path ends in "undefined".
Destination_Unnamed(j) == <<clock, None>>
Destination(j)         == <<clock, src[j][2]>>

\* processFileUpload: renameSync throws when the file is not there, and also
\* when the file system refuses.
Process ==
  /\ wpc = "run"
  /\ LET p == src[wjob]
         d == Destination(wjob)
     IN  \/ /\ disk[p] # {}
            /\ disk'  = [disk EXCEPT ![p] = {}, ![d] = disk[p]]
            /\ moved' = [moved EXCEPT ![wjob] = d]
            /\ wpc' = "ok"
         \/ /\ disk[p] = {} \/ "fs" \in Faults
            /\ wpc' = "threw"
            /\ UNCHANGED <<disk, moved>>
  /\ UNCHANGED <<env, post, job, wjob, starts, readers>>

\* Mutant: the path in the result is computed a second time.
Result_Recomputed(j) == Destination(j)
Result(j)            == moved[j]

\* The handler returned: the job is completed, if the lock is still held.  When
\* bull cannot do that, or does not learn that it did, it fails the job.
CompleteJob ==
  /\ wpc = "ok"
  /\ \/ /\ locked[wjob]
        /\ state'       = [state EXCEPT ![wjob] = "completed"]
        /\ returnvalue' = [returnvalue EXCEPT ![wjob] = Result(wjob)]
        /\ locked'      = [locked EXCEPT ![wjob] = FALSE]
        /\ \/ wpc' = "idle" /\ wjob' = None
           \/ "redis" \in Faults /\ wpc' = "threw" /\ UNCHANGED wjob
     \/ /\ ~locked[wjob] \/ "redis" \in Faults
        /\ wpc' = "threw"
        /\ UNCHANGED <<state, returnvalue, locked, wjob>>
  /\ UNCHANGED <<env, disk, post, attemptsMade, stalled, moved, starts, readers>>

\* Mutants: the lock is not looked at; the last attempt is retried too.
FailedState_NoLock(j) == IF attemptsMade[j] + 1 < Attempts THEN "delayed" ELSE "failed"
FailedState_OffByOne(j) ==
  IF ~locked[j] THEN state[j] ELSE IF attemptsMade[j] < Attempts THEN "delayed" ELSE "failed"

FailedState(j) ==
  IF ~locked[j] THEN state[j]
  ELSE IF attemptsMade[j] + 1 < Attempts THEN "delayed" ELSE "failed"

\* The handler threw.  The attempt is counted even when the lock is lost.
FailJob ==
  /\ wpc = "threw"
  /\ \/ /\ attemptsMade' = [attemptsMade EXCEPT ![wjob] = @ + 1]
        /\ state'  = [state EXCEPT ![wjob] = FailedState(wjob)]
        /\ locked' = [locked EXCEPT ![wjob] = FALSE]
     \/ "redis" \in Faults /\ UNCHANGED <<attemptsMade, state, locked>>
  /\ wpc' = "idle" /\ wjob' = None
  /\ UNCHANGED <<env, disk, post, stalled, returnvalue, moved, starts, readers>>

\* The backoff is over.
Promote(j) ==
  /\ up /\ state[j] = "delayed"
  /\ state' = [state EXCEPT ![j] = "waiting"]
  /\ UNCHANGED <<env, disk, post, attemptsMade, stalled, locked, returnvalue, worker, readers>>

\* lockDuration passes: nobody renews the lock, or (a fault) the worker fails to.
LockExpires(j) ==
  /\ locked[j]
  /\ wjob # j \/ "lock" \in Faults
  /\ locked' = [locked EXCEPT ![j] = FALSE]
  /\ UNCHANGED <<env, disk, post, state, attemptsMade, stalled, returnvalue, worker, readers>>

StalledCheck(j) ==
  /\ up /\ state[j] = "active" /\ ~locked[j]
  /\ stalled' = [stalled EXCEPT ![j] = @ + 1]
  /\ state' = [state EXCEPT ![j] = IF stalled[j] + 1 > MaxStalled THEN "failed" ELSE "waiting"]
  /\ UNCHANGED <<env, disk, post, attemptsMade, locked, returnvalue, worker, readers>>

-----------------------------------------------------------------------------
(* GET /status/:jobId: getJob copies the job, getState asks again.         *)

BeginStatus(q) ==
  /\ up /\ rpc[q] = "idle"
  /\ \E j \in Reqs : rjob' = [rjob EXCEPT ![q] = j]
  /\ rpc' = [rpc EXCEPT ![q] = "getJob"]
  /\ UNCHANGED <<env, disk, post, job, worker, rresult, rstate>>

\* No such job: 404, and no state is reported.
GetJob(q) ==
  /\ rpc[q] = "getJob"
  /\ LET j == rjob[q]
     IN  /\ rpc' = [rpc EXCEPT ![q] = IF state[j] = "none" THEN "done" ELSE "getState"]
         /\ rresult' = [rresult EXCEPT ![q] = returnvalue[j]]
  /\ UNCHANGED <<env, disk, post, job, worker, rjob, rstate>>

GetState(q) ==
  /\ rpc[q] = "getState"
  /\ rpc'    = [rpc EXCEPT ![q] = "done"]
  /\ rstate' = [rstate EXCEPT ![q] = state[rjob[q]]]
  /\ UNCHANGED <<env, disk, post, job, worker, rjob, rresult>>

\* 500, and no state is reported.
StatusFails(q) ==
  /\ "redis" \in Faults /\ rpc[q] \in {"getJob", "getState"}
  /\ rpc' = [rpc EXCEPT ![q] = "done"]
  /\ UNCHANGED <<env, disk, post, job, worker, rjob, rresult, rstate>>

-----------------------------------------------------------------------------
Tick ==
  /\ clock < MaxClock
  /\ clock' = clock + 1
  /\ UNCHANGED <<up, crashes, disk, post, job, worker, readers>>

\* Redis and the disk survive; locks stay until they expire.
Crash ==
  /\ up /\ crashes < MaxCrashes
  /\ up' = FALSE /\ crashes' = crashes + 1
  /\ pc'  = [r \in Reqs |-> IF pc[r] \in {"writing", "adding"} THEN "dropped" ELSE pc[r]]
  /\ rpc' = [q \in Readers |-> IF rpc[q] \in {"getJob", "getState"} THEN "dropped" ELSE rpc[q]]
  /\ wpc' = "idle" /\ wjob' = None
  /\ UNCHANGED <<clock, disk, orig, src, resp, job, moved, starts, rjob, rresult, rstate>>

Restart ==
  /\ ~up
  /\ up' = TRUE
  /\ UNCHANGED <<clock, crashes, disk, post, job, worker, readers>>

\* All requests are over, all jobs settled.
Quiescent ==
  /\ up /\ wpc = "idle"
  /\ \A r \in Reqs : pc[r] \in Ended /\ state[r] \in {"none", "completed", "failed"}
  /\ \A q \in Readers : rpc[q] \in Ended
  /\ UNCHANGED vars

Begin(r)   == WrongType(r) \/ RefuseUpload(r) \/ OpenUpload(r)
Proceed(r) == BreakUpload(r) \/ RejectForm(r) \/ FinishUpload(r) \/ AddJob(r) \/ AddFails(r)
Work       == (\E j \in Reqs : TakeJob(j)) \/ Process \/ CompleteJob \/ FailJob
Timers(j)  == Promote(j) \/ LockExpires(j) \/ StalledCheck(j)
Status(q)  == GetJob(q) \/ GetState(q) \/ StatusFails(q)

Next ==
  \/ \E r \in Reqs : Begin(r) \/ Proceed(r) \/ Timers(r)
  \/ \E q \in Readers : BeginStatus(q) \/ Status(q)
  \/ Work \/ Tick \/ Crash \/ Restart \/ Quiescent

Spec == Init /\ [][Next]_vars

\* The worker takes a waiting job when it is free and finishes what it began,
\* timers fire, an upload ends, and the process is started again.  The worker is
\* fair as a whole only: it may prefer one waiting job to another.
FairSpec ==
  /\ Spec
  /\ \A r \in Reqs : WF_vars(Proceed(r)) /\ WF_vars(Promote(r)) /\ WF_vars(StalledCheck(r))
  /\ \A r \in Reqs : WF_vars(wjob # r /\ LockExpires(r))
  /\ \A q \in Readers : WF_vars(Status(q))
  /\ WF_vars(Work) /\ WF_vars(Restart)

-----------------------------------------------------------------------------
(* Properties                                                              *)

\* The variables of the process, the queue in Redis and the directory uploads
\* stay in their sets.
TypeOK ==
  /\ clock \in 0 .. MaxClock /\ up \in BOOLEAN /\ crashes \in 0 .. MaxCrashes
  /\ disk \in [Path -> SUBSET Reqs]
  /\ pc \in [Reqs -> {"idle", "writing", "adding"} \cup Ended]
  /\ orig \in [Reqs -> AllowedNames \cup OtherNames \cup {None}]
  /\ src \in [Reqs -> Path \cup {None}]
  /\ resp \in [Reqs -> {0, 202, 400, 500}]
  /\ state \in [Reqs -> States]
  /\ attemptsMade \in [Reqs -> Nat] /\ stalled \in [Reqs -> Nat] /\ starts \in [Reqs -> Nat]
  /\ locked \in [Reqs -> BOOLEAN]
  /\ returnvalue \in [Reqs -> Path \cup {None}] /\ moved \in [Reqs -> Path \cup {None}]
  /\ wpc \in {"idle", "run", "ok", "threw"} /\ wjob \in Reqs \cup {None}
  /\ rpc \in [Readers -> {"idle", "getJob", "getState"} \cup Ended]
  /\ rjob \in [Readers -> Reqs \cup {None}]
  /\ rresult \in [Readers -> Path \cup {None}] /\ rstate \in [Readers -> States]

\* No other upload was staged at, or moved to, a path of this one.
NoCollision(r) ==
  \A q \in Reqs \ {r} : {src[q], moved[q]} \cap {src[r], moved[r]} \subseteq {None}

\* The file of a queued upload is never lost: it is whole, at the staged path or
\* at the destination of the last move, whatever crashes, fails or is retried.
NoFileLost ==
  \A r \in Reqs : state[r] # "none" /\ NoCollision(r)
    => \E p \in {src[r], moved[r]} \ {None} : disk[p] = {r}

\* The result of a completed job names the place where the file really is.
CompletedHasFile ==
  \A r \in Reqs : state[r] = "completed" /\ NoCollision(r)
    => returnvalue[r] # None /\ disk[returnvalue[r]] = {r}

\* The settings of the queue bound how often the handler runs for one job:
\* every failed attempt but the last is retried, every stall but the last too.
StartsBounded == \A r \in Reqs : starts[r] <= Attempts + MaxStalled

\* A settled job stays as it is: a worker that lost its lock, and the check for
\* stalled jobs, come too late to change it.
SettledIsFinal ==
  [][\A r \in Reqs : state[r] \in {"completed", "failed"}
       => state'[r] = state[r] /\ returnvalue'[r] = returnvalue[r]]_vars

\* checkUploadStatus reads the result before the state, so that it never reports
\* a result next to a state other than "completed".
ResultOnlyIfCompleted ==
  \A q \in Readers : rstate[q] # "none" /\ rresult[q] # None => rstate[q] = "completed"

\* A job that was answered 202 is settled in the end.
AcceptedIsSettled ==
  \A r \in Reqs : resp[r] = 202 ~> state[r] \in {"completed", "failed"}
=============================================================================
