-------------------------- MODULE UploadQueueProofs -------------------------
(***************************************************************************)
(* What bull's settings in config/queue.js and services/uploadService.js   *)
(* guarantee for every job: its inductive invariant is TypeOK, what a job  *)
(* has gone through (JobInv), what the worker holds (WorkerInv) and what a *)
(* status request has read (ReaderInv).                                    *)
(*                                                                         *)
(* The second part is about the file of an upload, from the moment multer  *)
(* opens it until its job is settled.  NoFileLost and CompletedHasFile are *)
(* not inductive: that a retry of processFileUpload() does not move another*)
(* upload's file rests on the names being taken from the clock, so that a  *)
(* path that was moved away from is in the past and never filled again     *)
(* (PathInv).                                                              *)
(***************************************************************************)
EXTENDS UploadQueue, TLAPS

Min2(a, b) == IF a < b THEN a ELSE b

\* Every start of a job is paid for by a failed attempt that is retried, by a
\* stall that is forgiven, or is the current or last one.
Budget(j) ==
  Min2(attemptsMade[j], Attempts - 1) + Min2(stalled[j], MaxStalled)
    + IF state[j] \in {"none", "waiting", "delayed"} THEN 0 ELSE 1

JobAt(j) ==
  /\ pc[j] \in {"idle", "writing", "adding"} => state[j] = "none"
  /\ pc[j] \in {"writing", "adding"} \/ state[j] # "none" => src[j] \in Path
  /\ locked[j] => state[j] = "active"
  /\ returnvalue[j] # None => state[j] = "completed"

JobInv    == \A j \in Reqs : JobAt(j)
StartsInv == \A j \in Reqs : starts[j] <= Budget(j)

WorkerInv ==
  /\ wpc # "idle" => wjob \in Reqs /\ state[wjob] # "none"
  /\ wpc = "ok" => moved[wjob] \in Path

ReaderAt(q) ==
  /\ rpc[q] \in {"idle", "getJob"} => rresult[q] = None
  /\ rpc[q] \in {"idle", "getJob", "getState"} => rstate[q] = "none"
  /\ rpc[q] \in {"getJob", "getState"} => rjob[q] \in Reqs
  /\ rresult[q] # None => /\ rjob[q] \in Reqs /\ state[rjob[q]] = "completed"
                          /\ rstate[q] \in {"none", "completed"}

ReaderInv == \A q \in Readers : ReaderAt(q)

IInv == TypeOK /\ JobInv /\ StartsInv /\ WorkerInv /\ ReaderInv

\* A step leaves job j as it is.
Same(j) == state'[j] = state[j] /\ returnvalue'[j] = returnvalue[j]

\* The variables of the server, Redis and the disk stay in their sets.
LEMMA TypeStep ==
  ASSUME TypeOK, JobInv, WorkerInv, ReaderInv, Next
  PROVE  TypeOK'
<1> USE UploadQueueAssumption DEF TypeOK, Ended, States, Goto, Answer, Arrive,
      env, post, job, worker, readers
<1>1. ASSUME NEW r \in Reqs, WrongType(r) PROVE TypeOK'
  BY <1>1 DEF WrongType
<1>2. ASSUME NEW r \in Reqs, RefuseUpload(r) PROVE TypeOK'
  BY <1>2 DEF RefuseUpload
<1>3. ASSUME NEW r \in Reqs, OpenUpload(r) PROVE TypeOK'
  BY <1>3 DEF OpenUpload, Path
<1>4. ASSUME NEW r \in Reqs, BreakUpload(r) PROVE TypeOK'
  BY <1>4 DEF BreakUpload
<1>5. ASSUME NEW r \in Reqs, RejectForm(r) PROVE TypeOK'
  <2>1. disk' \in [Path -> SUBSET Reqs]
    BY <1>5, Zenon DEF RejectForm
  <2> QED
    BY <1>5, <2>1 DEF RejectForm
<1>6. ASSUME NEW r \in Reqs, FinishUpload(r) PROVE TypeOK'
  BY <1>6 DEF FinishUpload
<1>7. ASSUME NEW r \in Reqs, AddJob(r) PROVE TypeOK'
  BY <1>7 DEF AddJob
<1>8. ASSUME NEW r \in Reqs, AddFails(r) PROVE TypeOK'
  BY <1>8 DEF AddFails
<1>9. ASSUME NEW r \in Reqs, TakeJob(r) PROVE TypeOK'
  BY <1>9 DEF TakeJob
<1>10. ASSUME NEW r \in Reqs, Promote(r) PROVE TypeOK'
  BY <1>10 DEF Promote
<1>11. ASSUME NEW r \in Reqs, LockExpires(r) PROVE TypeOK'
  BY <1>11 DEF LockExpires
<1>12. ASSUME NEW r \in Reqs, StalledCheck(r) PROVE TypeOK'
  BY <1>12 DEF StalledCheck
<1>13. ASSUME NEW q \in Readers, BeginStatus(q) PROVE TypeOK'
  BY <1>13 DEF BeginStatus
<1>14. ASSUME NEW q \in Readers, GetJob(q) PROVE TypeOK'
  <2>1. rpc' \in [Readers -> {"idle", "getJob", "getState"} \cup Ended]
    BY <1>14 DEF GetJob
  <2>2. rresult' \in [Readers -> Path \cup {None}]
    BY <1>14 DEF GetJob, ReaderInv, ReaderAt
  <2> QED
    BY <1>14, <2>1, <2>2 DEF GetJob
<1>15. ASSUME NEW q \in Readers, GetState(q) PROVE TypeOK'
  <2>1. rpc' \in [Readers -> {"idle", "getJob", "getState"} \cup Ended]
    BY <1>15 DEF GetState
  <2>2. rstate' \in [Readers -> States]
    BY <1>15 DEF GetState, ReaderInv, ReaderAt
  <2> QED
    BY <1>15, <2>1, <2>2 DEF GetState
<1>16. ASSUME NEW q \in Readers, StatusFails(q) PROVE TypeOK'
  BY <1>16 DEF StatusFails
<1>17. CASE Process
  <2>1. wjob \in Reqs /\ src[wjob] \in Path
    BY <1>17 DEF Process, JobInv, JobAt, WorkerInv
  <2>2. Destination(wjob) \in Path
    BY <2>1 DEF Destination, Path
  <2>3. disk' \in [Path -> SUBSET Reqs]
    BY <1>17, <2>1, <2>2 DEF Process
  <2>4. moved' \in [Reqs -> Path \cup {None}]
    BY <1>17, <2>1, <2>2 DEF Process
  <2> QED
    BY <1>17, <2>3, <2>4 DEF Process
<1>18. CASE CompleteJob
  <2>1. wjob \in Reqs /\ moved[wjob] \in Path
    BY <1>18 DEF CompleteJob, WorkerInv
  <2>2. state' \in [Reqs -> States]
    BY <1>18, <2>1 DEF CompleteJob
  <2>3. locked' \in [Reqs -> BOOLEAN]
    <3>1. locked' = locked \/ locked' = [locked EXCEPT ![wjob] = FALSE]
      BY <1>18, Zenon DEF CompleteJob
    <3>2. locked \in [Reqs -> BOOLEAN]
      OBVIOUS
    <3> HIDE DEF TypeOK
    <3> QED
      BY <3>1, <3>2, Zenon
  <2>4. returnvalue' \in [Reqs -> Path \cup {None}]
    BY <1>18, <2>1 DEF CompleteJob, Result
  <2>5. wpc' \in {"idle", "run", "ok", "threw"} /\ wjob' \in Reqs \cup {None}
    BY <1>18, <2>1 DEF CompleteJob
  <2> QED
    BY <1>18, <2>2, <2>3, <2>4, <2>5 DEF CompleteJob
<1>19. CASE FailJob
  <2>1. wjob \in Reqs
    BY <1>19 DEF FailJob, WorkerInv
  <2>2. state' \in [Reqs -> States]
    BY <1>19, <2>1 DEF FailJob, FailedState
  <2>3. locked' \in [Reqs -> BOOLEAN]
    <3>1. locked' = locked \/ locked' = [locked EXCEPT ![wjob] = FALSE]
      BY <1>19, Zenon DEF FailJob
    <3>2. locked \in [Reqs -> BOOLEAN]
      OBVIOUS
    <3> HIDE DEF TypeOK
    <3> QED
      BY <3>1, <3>2, Zenon
  <2>4. attemptsMade' \in [Reqs -> Nat]
    BY <1>19, <2>1 DEF FailJob
  <2> QED
    BY <1>19, <2>2, <2>3, <2>4 DEF FailJob
<1>20. CASE Tick
  BY <1>20 DEF Tick
<1>21. CASE Crash
  <2>1. pc' \in [Reqs -> {"idle", "writing", "adding"} \cup Ended]
    BY <1>21 DEF Crash
  <2>2. rpc' \in [Readers -> {"idle", "getJob", "getState"} \cup Ended]
    BY <1>21 DEF Crash
  <2>3. crashes' \in 0 .. MaxCrashes
    BY <1>21 DEF Crash
  <2> QED
    BY <1>21, <2>1, <2>2, <2>3, Zenon DEF Crash
<1>22. CASE Restart
  BY <1>22 DEF Restart
<1>23. CASE Quiescent
  BY <1>23, Zenon DEF Quiescent, vars
<1> QED
  BY <1>1, <1>2, <1>3, <1>4, <1>5, <1>6, <1>7, <1>8, <1>9, <1>10, <1>11, <1>12, <1>13,
     <1>14, <1>15, <1>16, <1>17, <1>18, <1>19, <1>20, <1>21, <1>22, <1>23,
     Zenon DEF Next, Begin, Proceed, Timers, Status, Work

\* A job is added once, by a request that has staged its file; only an active job
\* is locked, and only a completed one has a result.
LEMMA JobStep ==
  ASSUME TypeOK, JobInv, WorkerInv, Next
  PROVE  JobInv'
<1>t. /\ pc \in [Reqs -> {"idle", "writing", "adding"} \cup Ended]
      /\ src \in [Reqs -> Path \cup {None}] /\ state \in [Reqs -> States]
      /\ locked \in [Reqs -> BOOLEAN] /\ returnvalue \in [Reqs -> Path \cup {None}]
      /\ clock \in 0 .. MaxClock
  BY DEF TypeOK
<1> USE <1>t, UploadQueueAssumption DEF JobInv, JobAt, Goto, Answer, Arrive, Ended, States, job, post
<1>1. ASSUME NEW r \in Reqs, WrongType(r) PROVE JobInv'
  BY <1>1 DEF WrongType
<1>2. ASSUME NEW r \in Reqs, RefuseUpload(r) PROVE JobInv'
  BY <1>2 DEF RefuseUpload
<1>3. ASSUME NEW r \in Reqs, OpenUpload(r) PROVE JobInv'
  BY <1>3 DEF OpenUpload, Path
<1>4. ASSUME NEW r \in Reqs, BreakUpload(r) PROVE JobInv'
  BY <1>4 DEF BreakUpload
<1>5. ASSUME NEW r \in Reqs, RejectForm(r) PROVE JobInv'
  BY <1>5 DEF RejectForm
<1>6. ASSUME NEW r \in Reqs, FinishUpload(r) PROVE JobInv'
  BY <1>6 DEF FinishUpload
<1>7. ASSUME NEW r \in Reqs, AddJob(r) PROVE JobInv'
  BY <1>7 DEF AddJob
<1>8. ASSUME NEW r \in Reqs, AddFails(r) PROVE JobInv'
  BY <1>8 DEF AddFails
<1>9. ASSUME NEW r \in Reqs, TakeJob(r) PROVE JobInv'
  BY <1>9 DEF TakeJob
<1>10. ASSUME NEW r \in Reqs, Promote(r) PROVE JobInv'
  BY <1>10 DEF Promote
<1>11. ASSUME NEW r \in Reqs, LockExpires(r) PROVE JobInv'
  BY <1>11 DEF LockExpires
<1>12. ASSUME NEW r \in Reqs, StalledCheck(r) PROVE JobInv'
  BY <1>12 DEF StalledCheck
<1>13. CASE CompleteJob
  BY <1>13 DEF CompleteJob, Result, WorkerInv
<1>14. CASE FailJob
  BY <1>14 DEF FailJob, FailedState, WorkerInv
<1>15. CASE Crash
  BY <1>15 DEF Crash
<1>16. CASE UNCHANGED <<post, job>>
  BY <1>16 DEF post, job
<1> HIDE DEF JobInv
<1> QED
  BY <1>1, <1>2, <1>3, <1>4, <1>5, <1>6, <1>7, <1>8, <1>9, <1>10, <1>11, <1>12, <1>13, <1>14,
     <1>15, <1>16, ZenonT(40) DEF Next, Begin, Proceed, Timers, Status, Work, BeginStatus,
     GetJob, GetState, StatusFails, Process, Tick, Restart, Quiescent, vars

\* The steps that matter for the jobs and the worker.
LEMMA JobSteps ==
  ASSUME Next
  PROVE  \/ \E r \in Reqs : \/ AddJob(r) \/ TakeJob(r) \/ Promote(r)
                            \/ LockExpires(r) \/ StalledCheck(r)
         \/ Process \/ CompleteJob \/ FailJob \/ Crash
         \/ UNCHANGED <<job, worker>>
BY ZenonT(40) DEF Next, Begin, Proceed, Timers, Status, Work, WrongType, RefuseUpload,
   OpenUpload, BreakUpload, RejectForm, FinishUpload, AddFails, BeginStatus, GetJob, GetState,
   StatusFails, Tick, Restart, Quiescent, vars

\* No step starts a job that has used up its attempts and stalls.
LEMMA StartsStep ==
  ASSUME TypeOK, JobInv, StartsInv, WorkerInv, Next
  PROVE  StartsInv'
<1>t. /\ state \in [Reqs -> States] /\ locked \in [Reqs -> BOOLEAN] /\ wpc \in {"idle", "run", "ok", "threw"}
      /\ attemptsMade \in [Reqs -> Nat] /\ stalled \in [Reqs -> Nat] /\ starts \in [Reqs -> Nat]
  BY DEF TypeOK
<1>j. \A j \in Reqs : /\ pc[j] = "adding" => state[j] = "none"
                      /\ locked[j] => state[j] = "active"
  BY Zenon DEF JobInv, JobAt
<1> USE <1>t, <1>j, UploadQueueAssumption DEF StartsInv, Budget, Min2, States, job, worker
<1>1. ASSUME NEW r \in Reqs, AddJob(r) PROVE StartsInv'
  BY <1>1 DEF AddJob
<1>2. ASSUME NEW r \in Reqs, TakeJob(r) PROVE StartsInv'
  BY <1>2 DEF TakeJob
<1>3. ASSUME NEW r \in Reqs, Promote(r) PROVE StartsInv'
  BY <1>3 DEF Promote
<1>4. ASSUME NEW r \in Reqs, LockExpires(r) PROVE StartsInv'
  BY <1>4 DEF LockExpires
<1>5. ASSUME NEW r \in Reqs, StalledCheck(r) PROVE StartsInv'
  BY <1>5 DEF StalledCheck
<1>6. CASE Process
  BY <1>6 DEF Process
<1>7. CASE CompleteJob
  BY <1>7 DEF CompleteJob, WorkerInv
<1>8. CASE FailJob
  BY <1>8 DEF FailJob, FailedState, WorkerInv
<1>9. CASE Crash
  BY <1>9 DEF Crash
<1>10. CASE UNCHANGED <<job, worker>>
  BY <1>10, Zenon
<1> QED
  BY <1>1, <1>2, <1>3, <1>4, <1>5, <1>6, <1>7, <1>8, <1>9, <1>10, JobSteps, Zenon

\* The worker has a job of the queue.
LEMMA WorkerStep ==
  ASSUME TypeOK, JobInv, WorkerInv, Next
  PROVE  WorkerInv'
<1>t. /\ DOMAIN state = Reqs /\ DOMAIN moved = Reqs /\ None \notin Reqs
      /\ wpc \in {"idle", "run", "ok", "threw"}
  BY UploadQueueAssumption DEF TypeOK
<1> USE <1>t DEF WorkerInv, job, worker
<1>1. ASSUME NEW r \in Reqs, AddJob(r) PROVE WorkerInv'
  BY <1>1 DEF AddJob
<1>2. ASSUME NEW r \in Reqs, TakeJob(r) PROVE WorkerInv'
  BY <1>2 DEF TakeJob
<1>3. ASSUME NEW r \in Reqs, Promote(r) PROVE WorkerInv'
  BY <1>3 DEF Promote
<1>4. ASSUME NEW r \in Reqs, LockExpires(r) PROVE WorkerInv'
  BY <1>4 DEF LockExpires
<1>5. ASSUME NEW r \in Reqs, StalledCheck(r) PROVE WorkerInv'
  BY <1>5 DEF StalledCheck
<1>6. CASE Process
  <2>1. wjob \in Reqs /\ src[wjob] \in Path /\ clock \in 0 .. MaxClock
    BY <1>6 DEF Process, JobInv, JobAt, TypeOK
  <2>2. Destination(wjob) \in Path
    BY <2>1 DEF Destination, Path
  <2> QED
    BY <1>6, <2>1, <2>2 DEF Process
<1>7. CASE CompleteJob
  BY <1>7 DEF CompleteJob
<1>8. CASE FailJob
  BY <1>8 DEF FailJob, FailedState
<1>9. CASE Crash
  BY <1>9 DEF Crash
<1>10. CASE UNCHANGED <<job, worker>>
  BY <1>10, Zenon
<1> QED
  BY <1>1, <1>2, <1>3, <1>4, <1>5, <1>6, <1>7, <1>8, <1>9, <1>10, JobSteps, Zenon

\* A job that is completed or failed stays so, with its result.
LEMMA SettledStep ==
  ASSUME TypeOK, JobInv, WorkerInv, Next, NEW j \in Reqs, state[j] \in {"completed", "failed"}
  PROVE  Same(j)
<1>t. DOMAIN state = Reqs /\ DOMAIN returnvalue = Reqs
  BY DEF TypeOK
<1>j. /\ pc[j] # "adding" /\ ~locked[j]
      /\ wpc # "idle" => wjob \in Reqs
  BY DEF JobInv, JobAt, WorkerInv
<1> USE <1>t, <1>j DEF Same, job, worker
<1>1. ASSUME NEW r \in Reqs, AddJob(r) PROVE Same(j)
  BY <1>1 DEF AddJob
<1>2. ASSUME NEW r \in Reqs, TakeJob(r) PROVE Same(j)
  BY <1>2 DEF TakeJob
<1>3. ASSUME NEW r \in Reqs, Promote(r) PROVE Same(j)
  BY <1>3 DEF Promote
<1>4. ASSUME NEW r \in Reqs, StalledCheck(r) PROVE Same(j)
  BY <1>4 DEF StalledCheck
<1>5. CASE CompleteJob
  BY <1>5 DEF CompleteJob
<1>6. CASE FailJob
  BY <1>6 DEF FailJob, FailedState
<1>7. CASE UNCHANGED <<state, returnvalue>>
  BY <1>7, Zenon
<1> QED
  BY <1>1, <1>2, <1>3, <1>4, <1>5, <1>6, <1>7, JobSteps,
     Zenon DEF Process, LockExpires, Crash, job

\* A result that a status request has read belongs to a completed job.
LEMMA ReaderStep ==
  ASSUME TypeOK, JobInv, WorkerInv, ReaderInv, Next
  PROVE  ReaderInv'
<1>t. /\ rpc \in [Readers -> {"idle", "getJob", "getState"} \cup Ended]
      /\ rjob \in [Readers -> Reqs \cup {None}] /\ DOMAIN rresult = Readers
      /\ DOMAIN rstate = Readers
  BY DEF TypeOK
<1>j. \A j \in Reqs : /\ returnvalue[j] # None => state[j] = "completed"
                      /\ state[j] \in States
  BY DEF JobInv, JobAt, TypeOK
<1>s. \A j \in Reqs : state[j] = "completed" => state'[j] = "completed"
  BY SettledStep, Zenon DEF Same
<1> USE <1>t, <1>j, <1>s DEF ReaderInv, ReaderAt, Ended, States, job, readers
<1>1. ASSUME NEW q \in Readers, BeginStatus(q) PROVE ReaderInv'
  BY <1>1 DEF BeginStatus
<1>2. ASSUME NEW q \in Readers, GetJob(q) PROVE ReaderInv'
  BY <1>2 DEF GetJob
<1>3. ASSUME NEW q \in Readers, GetState(q) PROVE ReaderInv'
  BY <1>3 DEF GetState
<1>4. ASSUME NEW q \in Readers, StatusFails(q) PROVE ReaderInv'
  BY <1>4 DEF StatusFails
<1>5. CASE Crash
  BY <1>5 DEF Crash
<1>6. CASE UNCHANGED readers
  BY <1>6 DEF readers
<1> HIDE DEF ReaderInv
<1> QED
  BY <1>1, <1>2, <1>3, <1>4, <1>5, <1>6,
     ZenonT(40) DEF Next, Begin, Proceed, Timers, Status, Work, WrongType, RefuseUpload,
     OpenUpload, BreakUpload, RejectForm, FinishUpload, AddJob, AddFails, TakeJob, Promote,
     LockExpires, StalledCheck, Process, CompleteJob, FailJob, Tick, Restart, Quiescent, vars

\* The server starts with an empty queue.
LEMMA InitIInv == Init => IInv
<1> SUFFICES ASSUME Init PROVE IInv
  OBVIOUS
<1> USE UploadQueueAssumption DEF Init
<1>1. TypeOK
  BY DEF TypeOK, Ended, States
<1>2. JobInv /\ WorkerInv /\ ReaderInv
  BY DEF JobInv, JobAt, WorkerInv, ReaderInv, ReaderAt
<1>3. StartsInv
  BY DEF StartsInv, Budget, Min2
<1> QED
  BY <1>1, <1>2, <1>3 DEF IInv

\* No step of the server, the queue or the faults leaves IInv.
LEMMA NextIInv == IInv /\ [Next]_vars => IInv'
<1> SUFFICES ASSUME IInv, [Next]_vars PROVE IInv'
  OBVIOUS
<1>1. CASE Next
  BY <1>1, TypeStep, JobStep, StartsStep, WorkerStep, ReaderStep DEF IInv
<1>2. CASE UNCHANGED vars
  <2> USE <1>2 DEF vars, env, post, job, worker, readers
  <2>1. TypeOK' /\ WorkerInv'
    BY Zenon DEF IInv, TypeOK, WorkerInv
  <2>2. JobInv' /\ ReaderInv'
    BY Zenon DEF IInv, JobInv, JobAt, ReaderInv, ReaderAt
  <2>3. StartsInv'
    BY DEF IInv, StartsInv, Budget
  <2> QED
    BY <2>1, <2>2, <2>3 DEF IInv
<1> QED
  BY <1>1, <1>2

\* IInv is an invariant of the upload queue.
LEMMA Invariance == Spec => []IInv
BY InitIInv, NextIInv, PTL DEF Spec

\* The variables of the server, Redis and the disk stay in their sets.
THEOREM TypeCorrect == Spec => []TypeOK
<1>1. IInv => TypeOK
  BY DEF IInv
<1> QED
  BY <1>1, Invariance, PTL

\* Whatever fails, stalls or crashes, the handler of fileUploadQueue.process runs
\* at most attempts + maxStalledCount times for a job.
THEOREM RetriesAreBounded == Spec => []StartsBounded
<1>1. IInv => StartsBounded
  <2> SUFFICES ASSUME IInv, NEW r \in Reqs PROVE starts[r] <= Attempts + MaxStalled
    BY DEF StartsBounded
  <2>1. starts[r] \in Nat /\ attemptsMade[r] \in Nat /\ stalled[r] \in Nat
    BY DEF IInv, TypeOK
  <2>2. starts[r] <= Budget(r)
    BY SMTT(30) DEF IInv, StartsInv
  <2> QED
    BY <2>1, <2>2, UploadQueueAssumption DEF Budget, Min2
<1> QED
  BY <1>1, Invariance, PTL

\* checkUploadStatus reports a result with the state "completed" only.
THEOREM StatusIsConsistent == Spec => []ResultOnlyIfCompleted
<1>1. IInv => ResultOnlyIfCompleted
  BY DEF IInv, ReaderInv, ReaderAt, ResultOnlyIfCompleted
<1> QED
  BY <1>1, Invariance, PTL

\* A settled job is never run, failed or completed again, by a late worker or by
\* the check for stalled jobs.
THEOREM SettledOnce == Spec => SettledIsFinal
<1>1. IInv /\ [Next]_vars
        => [\A r \in Reqs : state[r] \in {"completed", "failed"}
              => state'[r] = state[r] /\ returnvalue'[r] = returnvalue[r]]_vars
  BY SettledStep DEF IInv, Same
<1> QED
  BY <1>1, Invariance, PTL DEF Spec, SettledIsFinal

-----------------------------------------------------------------------------
(* The files. *)

\* A path carries the time it was made; a file that has been moved left an older
\* path behind, and that path is empty.
PathAt(j) ==
  /\ pc[j] = "idle" => src[j] = None /\ moved[j] = None
  /\ src[j] # None => src[j][1] <= clock
  /\ moved[j] \notin {None, src[j]} =>
       src[j] # None /\ src[j][1] < clock /\ disk[src[j]] = {}

PathInv == \A j \in Reqs : PathAt(j)

\* There is no file that no upload was staged at or moved to.
StagedInv == \A p \in Path : disk[p] # {} => \E s \in Reqs : p \in {src[s], moved[s]}

\* An upload whose file must be there, and the place where it must be.
Live(r)   == pc[r] \in {"writing", "adding"} \/ state[r] # "none"
FileOf(r) == IF moved[r] = None THEN src[r] ELSE moved[r]
FileInv   == \A r \in Reqs : Live(r) /\ NoCollision(r) => disk[FileOf(r)] = {r}

\* The handler never runs for a job that is completed or waits for its retry.
RunInv == wpc \in {"run", "ok"} => state[wjob] \in {"active", "waiting", "failed"}

ResultInv ==
  \A j \in Reqs : state[j] = "completed" => moved[j] # None /\ returnvalue[j] = moved[j]

FilesInv == PathInv /\ StagedInv /\ FileInv /\ RunInv /\ ResultInv

\* A step that leaves the files, and all that is known of them, alone.
Quiet ==
  /\ UNCHANGED <<clock, disk, src, moved>>
  /\ \A j \in Reqs : (pc'[j] = "idle" => pc[j] = "idle") /\ (Live(j)' => Live(j))

\* The steps that matter for the files: multer opens one or removes one, the
\* handler moves one, time passes.
LEMMA FileSteps ==
  ASSUME TypeOK, JobInv, WorkerInv, Next
  PROVE  \/ \E r \in Reqs : OpenUpload(r) \/ RejectForm(r)
         \/ Process \/ Tick \/ Quiet
<1>t. DOMAIN pc = Reqs /\ DOMAIN state = Reqs /\ wpc \in {"idle", "run", "ok", "threw"}
  BY DEF TypeOK
<1>j. \A j \in Reqs : locked[j] => state[j] = "active"
  BY Zenon DEF JobInv, JobAt
<1> USE <1>t, <1>j DEF Quiet, Live, Ended, Goto, Answer, Arrive, env, post, job, worker
<1>1. ASSUME NEW r \in Reqs, WrongType(r) PROVE Quiet
  BY <1>1 DEF WrongType
<1>2. ASSUME NEW r \in Reqs, RefuseUpload(r) PROVE Quiet
  BY <1>2 DEF RefuseUpload
<1>3. ASSUME NEW r \in Reqs, BreakUpload(r) PROVE Quiet
  BY <1>3 DEF BreakUpload
<1>4. ASSUME NEW r \in Reqs, FinishUpload(r) PROVE Quiet
  BY <1>4 DEF FinishUpload
<1>5. ASSUME NEW r \in Reqs, AddJob(r) PROVE Quiet
  BY <1>5 DEF AddJob
<1>6. ASSUME NEW r \in Reqs, AddFails(r) PROVE Quiet
  BY <1>6 DEF AddFails
<1>7. ASSUME NEW r \in Reqs, TakeJob(r) PROVE Quiet
  BY <1>7 DEF TakeJob
<1>8. ASSUME NEW r \in Reqs, Promote(r) PROVE Quiet
  BY <1>8 DEF Promote
<1>9. ASSUME NEW r \in Reqs, StalledCheck(r) PROVE Quiet
  BY <1>9 DEF StalledCheck
<1>10. ASSUME CompleteJob PROVE Quiet
  BY <1>10 DEF CompleteJob, WorkerInv
<1>11. ASSUME FailJob PROVE Quiet
  BY <1>11 DEF FailJob, FailedState, WorkerInv
<1>12. ASSUME Crash PROVE Quiet
  BY <1>12 DEF Crash
<1>13. ASSUME UNCHANGED <<clock, disk, src, moved, pc, state>> PROVE Quiet
  BY <1>13, Zenon
<1> HIDE DEF Quiet, Live
<1> QED
  BY <1>1, <1>2, <1>3, <1>4, <1>5, <1>6, <1>7, <1>8, <1>9, <1>10, <1>11, <1>12, <1>13,
     ZenonT(40) DEF Next, Begin, Proceed, Timers, Status, Work, LockExpires, BeginStatus,
     GetJob, GetState, StatusFails, Restart, Quiescent, vars

\* A job the handler runs for was active when it was taken; only the check for
\* stalled jobs can have touched it since.
LEMMA RunStep ==
  ASSUME TypeOK, JobInv, WorkerInv, RunInv, Next
  PROVE  RunInv'
<1>t. DOMAIN state = Reqs
  BY DEF TypeOK
<1> USE <1>t DEF RunInv, job, worker
<1>1. ASSUME NEW r \in Reqs, AddJob(r) PROVE RunInv'
  BY <1>1 DEF AddJob, JobInv, JobAt, WorkerInv
<1>2. ASSUME NEW r \in Reqs, TakeJob(r) PROVE RunInv'
  BY <1>2 DEF TakeJob, WorkerInv
<1>3. ASSUME NEW r \in Reqs, Promote(r) PROVE RunInv'
  BY <1>3 DEF Promote, WorkerInv
<1>4. ASSUME NEW r \in Reqs, LockExpires(r) PROVE RunInv'
  BY <1>4 DEF LockExpires
<1>5. ASSUME NEW r \in Reqs, StalledCheck(r) PROVE RunInv'
  BY <1>5 DEF StalledCheck, WorkerInv
<1>6. CASE Process
  BY <1>6 DEF Process
<1>7. CASE CompleteJob
  BY <1>7 DEF CompleteJob
<1>8. CASE FailJob
  BY <1>8 DEF FailJob
<1>9. CASE Crash
  BY <1>9 DEF Crash
<1>10. CASE UNCHANGED <<job, worker>>
  BY <1>10, Zenon
<1> QED
  BY <1>1, <1>2, <1>3, <1>4, <1>5, <1>6, <1>7, <1>8, <1>9, <1>10, JobSteps, Zenon

\* The result of a job is the place its handler moved the file to: nothing moves
\* it again once the job is completed.
LEMMA ResultStep ==
  ASSUME TypeOK, JobInv, WorkerInv, RunInv, ResultInv, Next
  PROVE  ResultInv'
<1>t. /\ DOMAIN state = Reqs /\ DOMAIN moved = Reqs /\ DOMAIN returnvalue = Reqs
      /\ None \notin Path
  BY UploadQueueAssumption DEF TypeOK
<1>j. \A j \in Reqs : /\ pc[j] = "adding" => state[j] = "none"
                      /\ locked[j] => state[j] = "active"
  BY Zenon DEF JobInv, JobAt
<1> USE <1>t, <1>j DEF ResultInv, job, worker
<1>1. ASSUME NEW r \in Reqs, AddJob(r) PROVE ResultInv'
  BY <1>1 DEF AddJob
<1>2. ASSUME NEW r \in Reqs, TakeJob(r) PROVE ResultInv'
  BY <1>2 DEF TakeJob
<1>3. ASSUME NEW r \in Reqs, Promote(r) PROVE ResultInv'
  BY <1>3 DEF Promote
<1>4. ASSUME NEW r \in Reqs, LockExpires(r) PROVE ResultInv'
  BY <1>4 DEF LockExpires
<1>5. ASSUME NEW r \in Reqs, StalledCheck(r) PROVE ResultInv'
  BY <1>5 DEF StalledCheck
<1>6. CASE Process
  BY <1>6, SMTT(30) DEF Process, WorkerInv, RunInv
<1>7. CASE CompleteJob
  BY <1>7, SMTT(30) DEF CompleteJob, WorkerInv, Result
<1>8. CASE FailJob
  BY <1>8, SMTT(30) DEF FailJob, FailedState, WorkerInv
<1>9. CASE Crash
  BY <1>9 DEF Crash
<1>10. CASE UNCHANGED <<job, worker>>
  BY <1>10, Zenon
<1> QED
  BY <1>1, <1>2, <1>3, <1>4, <1>5, <1>6, <1>7, <1>8, <1>9, <1>10, JobSteps, Zenon

\* A move takes the file of a job from its staged path to a path of the present.
LEMMA MoveFacts ==
  ASSUME TypeOK, JobInv, WorkerInv, PathInv, Process, moved' # moved \/ disk' # disk
  PROVE  /\ wjob \in Reqs /\ src[wjob] \in Path /\ <<clock, src[wjob][2]>> \in Path
         /\ src[wjob][1] <= clock /\ src[wjob][1] \in Nat
         /\ src[wjob] = <<src[wjob][1], src[wjob][2]>>
         /\ moved[wjob] \in {None, src[wjob]}
         /\ disk' = [disk EXCEPT ![src[wjob]] = {}, ![<<clock, src[wjob][2]>>] = disk[src[wjob]]]
         /\ moved' = [moved EXCEPT ![wjob] = <<clock, src[wjob][2]>>]
<1>1. /\ disk[src[wjob]] # {}
      /\ disk' = [disk EXCEPT ![src[wjob]] = {}, ![<<clock, src[wjob][2]>>] = disk[src[wjob]]]
      /\ moved' = [moved EXCEPT ![wjob] = <<clock, src[wjob][2]>>]
  BY DEF Process, Destination
<1>2. wjob \in Reqs /\ src[wjob] \in Path
  BY DEF Process, WorkerInv, JobInv, JobAt
<1>3. /\ <<clock, src[wjob][2]>> \in Path /\ src[wjob][1] \in Nat
      /\ src[wjob] = <<src[wjob][1], src[wjob][2]>>
  BY <1>2 DEF TypeOK, Path
<1>4. src[wjob] # None
  BY <1>2, UploadQueueAssumption
<1> QED
  BY <1>1, <1>2, <1>3, <1>4 DEF PathInv, PathAt

\* A path that a file was moved away from is older than every path made later.
LEMMA PathStep ==
  ASSUME TypeOK, JobInv, WorkerInv, PathInv, Next
  PROVE  PathInv'
<1> USE UploadQueueAssumption
<1>t. /\ disk \in [Path -> SUBSET Reqs] /\ src \in [Reqs -> Path \cup {None}]
      /\ moved \in [Reqs -> Path \cup {None}] /\ None \notin Path
      /\ pc \in [Reqs -> {"idle", "writing", "adding"} \cup Ended]
  BY DEF TypeOK
<1>1. ASSUME NEW r \in Reqs, OpenUpload(r) PROVE PathInv'
  <2>1. PICK o \in AllowedNames :
          /\ src' = [src EXCEPT ![r] = <<clock, o>>]
          /\ disk' = [disk EXCEPT ![<<clock, o>>] = {r} \cup {q \in @ : pc[q] = "writing"}]
    BY <1>1, Zenon DEF OpenUpload
  <2>2. /\ pc[r] = "idle" /\ pc' = [pc EXCEPT ![r] = "writing"] /\ moved' = moved
        /\ clock' = clock /\ clock \in Nat
    <3>1. pc[r] = "idle" /\ pc' = [pc EXCEPT ![r] = "writing"] /\ UNCHANGED <<env, worker>>
      BY <1>1, Zenon DEF OpenUpload, Arrive, Goto
    <3>2. clock \in Nat
      BY DEF TypeOK
    <3> QED
      BY <3>1, <3>2 DEF env, worker
  <2>3. ASSUME NEW j \in Reqs PROVE PathAt(j)'
    <3>1. CASE j = r
      BY <1>t, <2>1, <2>2, <3>1 DEF PathInv, PathAt
    <3>2. CASE j # r
      <4>1. pc'[j] = pc[j] /\ src'[j] = src[j] /\ moved'[j] = moved[j]
        BY <1>t, <2>1, <2>2, <3>2
      <4>2. src[j] # None /\ src[j][1] < clock => disk'[src[j]] = disk[src[j]]
        BY <1>t, <2>1, <2>2 DEF Path
      <4> QED
        BY <2>2, <4>1, <4>2, Zenon DEF PathInv, PathAt
    <3> QED
      BY <3>1, <3>2, SMTT(30)
  <2> QED
    BY <2>3 DEF PathInv
<1>2. ASSUME NEW r \in Reqs, RejectForm(r) PROVE PathInv'
  <2>1. /\ src' = src /\ moved' = moved /\ clock' = clock
        /\ pc' = [pc EXCEPT ![r] = "done"]
        /\ disk' = [disk EXCEPT ![src[r]] = {}]
    BY <1>2, Zenon DEF RejectForm, StoredPath, Answer, env, worker
  <2> QED
    BY <1>t, <2>1 DEF PathInv, PathAt
<1>3. CASE Process
  <2>1. CASE moved' = moved /\ disk' = disk
    BY <1>3, <2>1 DEF Process, env, post, PathInv, PathAt
  <2>2. CASE moved' # moved \/ disk' # disk
    <3> DEFINE d == <<clock, src[wjob][2]>>
    <3>0. /\ wjob \in Reqs /\ src[wjob] \in Path /\ d \in Path /\ moved[wjob] \in {None, src[wjob]}
          /\ disk' = [disk EXCEPT ![src[wjob]] = {}, ![d] = disk[src[wjob]]]
          /\ moved' = [moved EXCEPT ![wjob] = d]
      BY <1>3, <2>2, MoveFacts, SMTT(30)
    <3> HIDE DEF d
    <3>1. UNCHANGED <<clock, pc, src>> /\ clock \in Nat
      BY <1>3 DEF Process, env, post, TypeOK
    <3>2. ASSUME NEW j \in Reqs PROVE PathAt(j)'
      <4>1. CASE j = wjob
        <5>1. moved'[j] = d /\ src[j] # None /\ pc[j] # "idle"
          BY <1>t, <3>0, <4>1 DEF PathInv, PathAt
        <5>2. d # src[j] => src[j][1] < clock
          BY <1>3, <2>2, <3>1, <4>1, MoveFacts DEF d
        <5>3. d # src[j] => disk'[src[j]] = {}
          BY <1>t, <3>0, <4>1
        <5> QED
          BY <3>1, <4>1, <5>1, <5>2, <5>3, SMTT(30) DEF PathInv, PathAt
      <4>2. CASE j # wjob
        <5>1. moved'[j] = moved[j]
          BY <1>t, <3>0, <4>2
        <5>2. ASSUME src[j] # None, src[j][1] < clock, disk[src[j]] = {}
              PROVE  disk'[src[j]] = {}
          <6>1. src[j] # d /\ src[j] \in Path
            BY <1>t, <3>1, <5>2, SMTT(30) DEF d
          <6> QED
            BY <1>t, <3>0, <5>2, <6>1
        <5> QED
          BY <3>1, <5>1, <5>2 DEF PathInv, PathAt
      <4> QED
        BY <4>1, <4>2
    <3> QED
      BY <3>2 DEF PathInv
  <2> QED
    BY <2>1, <2>2
<1>4. CASE Tick
  BY <1>4, SMTT(30) DEF Tick, post, worker, TypeOK, Path, PathInv, PathAt
<1>5. CASE Quiet
  BY <1>5 DEF Quiet, PathInv, PathAt
<1> QED
  BY <1>1, <1>2, <1>3, <1>4, <1>5, FileSteps, Zenon

\* Files are made where an upload is staged and where the handler moves it.
LEMMA StagedStep ==
  ASSUME TypeOK, JobInv, WorkerInv, PathInv, StagedInv, Next
  PROVE  StagedInv'
<1> USE UploadQueueAssumption
<1>t. /\ disk \in [Path -> SUBSET Reqs] /\ src \in [Reqs -> Path \cup {None}]
      /\ moved \in [Reqs -> Path \cup {None}] /\ None \notin Path
  BY SMTT(30) DEF TypeOK
<1>1. ASSUME NEW r \in Reqs, OpenUpload(r) PROVE StagedInv'
  <2>1. PICK o \in AllowedNames :
          /\ src' = [src EXCEPT ![r] = <<clock, o>>]
          /\ disk' = [disk EXCEPT ![<<clock, o>>] = {r} \cup {q \in @ : pc[q] = "writing"}]
    BY <1>1, Zenon DEF OpenUpload
  <2>2. src[r] = None /\ moved' = moved
    BY <1>1 DEF OpenUpload, Arrive, worker, PathInv, PathAt
  <2>3. ASSUME NEW p \in Path, disk'[p] # {}
        PROVE  \E s \in Reqs : p \in {src'[s], moved'[s]}
    <3>1. CASE p = <<clock, o>>
      BY <1>t, <2>1, <3>1
    <3>2. CASE p # <<clock, o>>
      <4>1. disk'[p] = disk[p]
        BY <1>t, <2>1, <3>2
      <4>2. PICK s \in Reqs : p \in {src[s], moved[s]}
        BY <2>3, <4>1 DEF StagedInv
      <4>3. p \in {src'[s], moved'[s]}
        BY <1>t, <2>1, <2>2, <4>2
      <4> QED
        BY <4>3
    <3> QED
      BY <3>1, <3>2
  <2> QED
    BY <2>3 DEF StagedInv
<1>2. ASSUME NEW r \in Reqs, RejectForm(r) PROVE StagedInv'
  <2>1. /\ src' = src /\ moved' = moved
        /\ disk' = [disk EXCEPT ![src[r]] = {}]
    BY <1>2, Zenon DEF RejectForm, StoredPath, worker
  <2> QED
    BY <1>t, <2>1 DEF StagedInv
<1>3. CASE Process
  <2>1. CASE moved' = moved /\ disk' = disk
    BY <1>3, <2>1 DEF Process, post, StagedInv
  <2>2. CASE moved' # moved \/ disk' # disk
    <3> DEFINE d == <<clock, src[wjob][2]>>
    <3>0. /\ wjob \in Reqs /\ src[wjob] \in Path /\ d \in Path /\ moved[wjob] \in {None, src[wjob]}
          /\ disk' = [disk EXCEPT ![src[wjob]] = {}, ![d] = disk[src[wjob]]]
          /\ moved' = [moved EXCEPT ![wjob] = d]
      BY <1>3, <2>2, MoveFacts
    <3> HIDE DEF d
    <3>1. src' = src
      BY <1>3, SMTT(30) DEF Process, post
    <3>2. ASSUME NEW p \in Path, disk'[p] # {}
          PROVE  \E s \in Reqs : p \in {src'[s], moved'[s]}
      <4>1. CASE p = d
        <5>1. wjob \in Reqs /\ moved'[wjob] = p
          BY <1>t, <3>0, <4>1
        <5> QED
          BY <5>1
      <4>2. CASE p # d
        <5>1. disk[p] # {}
          BY <1>t, <3>0, <3>2, <4>2
        <5>2. PICK s \in Reqs : p \in {src[s], moved[s]}
          BY <5>1 DEF StagedInv
        <5>3. p \in {src'[s], moved'[s]}
          BY <1>t, <3>0, <3>1, <5>2
        <5> QED
          BY <5>3, Zenon
      <4> QED
        BY <4>1, <4>2
    <3> QED
      BY <3>2 DEF StagedInv
  <2> QED
    BY <2>1, <2>2
<1>4. CASE Tick
  BY <1>4, Zenon DEF Tick, post, worker, StagedInv
<1>5. CASE Quiet
  BY <1>5, Zenon DEF Quiet, StagedInv
<1> QED
  BY <1>1, <1>2, <1>3, <1>4, <1>5, FileSteps, Zenon

\* Two uploads that do not collide have no path in common.
LEMMA Apart ==
  ASSUME NEW A, NEW B, A \cap B \subseteq {None}, NEW p \in Path, p \in A
  PROVE  p \notin B
BY UploadQueueAssumption

\* The file of an upload is at the path staged for it or at the one it was moved
\* to, and holds its bytes alone, unless another upload was given the same path.
LEMMA FileStep ==
  ASSUME TypeOK, JobInv, WorkerInv, PathInv, StagedInv, FileInv, Next
  PROVE  FileInv'
<1> USE UploadQueueAssumption
<1>t. /\ disk \in [Path -> SUBSET Reqs] /\ src \in [Reqs -> Path \cup {None}]
      /\ moved \in [Reqs -> Path \cup {None}] /\ None \notin Path
      /\ pc \in [Reqs -> {"idle", "writing", "adding"} \cup Ended]
  BY SMTT(30) DEF TypeOK
<1>0. ASSUME NEW r \in Reqs, Live(r)
      PROVE  src[r] \in Path /\ FileOf(r) \in Path /\ FileOf(r) \in {src[r], moved[r]}
  BY <1>0, SMTT(30) DEF Live, FileOf, JobInv, JobAt, TypeOK
<1>1. ASSUME NEW q \in Reqs, OpenUpload(q) PROVE FileInv'
  <2>1. PICK o \in AllowedNames :
          /\ src' = [src EXCEPT ![q] = <<clock, o>>]
          /\ disk' = [disk EXCEPT ![<<clock, o>>] = {q} \cup {s \in @ : pc[s] = "writing"}]
    BY <1>1, ZenonT(40) DEF OpenUpload
  <2>2. /\ pc' = [pc EXCEPT ![q] = "writing"] /\ moved' = moved /\ state' = state
        /\ src[q] = None /\ moved[q] = None
    BY <1>1, SMTT(30) DEF OpenUpload, Arrive, Goto, worker, job, PathInv, PathAt
  <2>3. <<clock, o>> \in Path
    BY DEF TypeOK, Path
  <2>4. ASSUME NEW r \in Reqs, Live(r)', NoCollision(r)'
        PROVE  disk'[FileOf(r)'] = {r}
    <3>1. CASE r = q
      <4>1. src'[r] = <<clock, o>> /\ FileOf(r)' = <<clock, o>>
        BY <1>t, <2>1, <2>2, <3>1, SMTT(30) DEF FileOf
      <4>2. ASSUME NEW s \in Reqs PROVE <<clock, o>> \notin {src[s], moved[s]}
        <5>1. CASE s = r
          BY <2>2, <2>3, <3>1, <5>1
        <5>2. CASE s # r
          <6>1. {src'[s], moved'[s]} \cap {src'[r], moved'[r]} \subseteq {None}
            BY <2>4, <5>2 DEF NoCollision
          <6>2. src'[s] = src[s] /\ moved'[s] = moved[s]
            BY <1>t, <2>1, <2>2, <3>1, <5>2
          <6> QED
            BY <2>3, <4>1, <6>1, <6>2, Apart, ZenonT(40)
        <5> QED
          BY <5>1, <5>2
      <4>3. disk[<<clock, o>>] = {}
        BY <2>3, <4>2, Zenon DEF StagedInv
      <4> QED
        BY <1>t, <2>1, <2>3, <3>1, <4>1, <4>3
    <3>2. CASE r # q
      <4>1. Live(r) /\ src'[r] = src[r] /\ FileOf(r)' = FileOf(r)
        BY <1>t, <2>1, <2>2, <2>4, <3>2 DEF Live, FileOf
      <4>2. NoCollision(r)
        BY <1>t, <2>1, <2>2, <2>4, <3>2 DEF NoCollision
      <4>3. <<clock, o>> \notin {src[r], moved[r]}
        <5>1. {src'[q], moved'[q]} \cap {src'[r], moved'[r]} \subseteq {None}
          BY <2>4, <3>2 DEF NoCollision
        <5>2. src'[q] = <<clock, o>> /\ moved'[r] = moved[r]
          BY <1>t, <2>1, <2>2
        <5> QED
          BY <2>3, <4>1, <5>1, <5>2, Apart, ZenonT(40)
      <4>4. FileOf(r) \in Path /\ FileOf(r) # <<clock, o>>
        BY <1>0, <4>1, <4>3, Zenon
      <4>5. disk[FileOf(r)] = {r}
        BY <4>1, <4>2, Zenon DEF FileInv
      <4>6. disk'[FileOf(r)] = disk[FileOf(r)]
        BY <1>t, <2>1, <4>4
      <4> QED
        BY <4>1, <4>5, <4>6, Zenon
    <3> QED
      BY <3>1, <3>2, SMTT(30)
  <2> QED
    BY <2>4, Zenon DEF FileInv
<1>2. ASSUME NEW q \in Reqs, RejectForm(q) PROVE FileInv'
  <2>1. /\ src' = src /\ moved' = moved /\ state' = state
        /\ pc' = [pc EXCEPT ![q] = "done"] /\ pc[q] = "writing"
        /\ disk' = [disk EXCEPT ![src[q]] = {}]
    BY <1>2 DEF RejectForm, StoredPath, Answer, worker, job
  <2>2. ASSUME NEW r \in Reqs, Live(r)', NoCollision(r)'
        PROVE  disk'[FileOf(r)'] = {r}
    <3>1. r # q /\ Live(r) /\ NoCollision(r) /\ FileOf(r)' = FileOf(r)
      <4>1. JobAt(q)
        BY SMTT(30) DEF JobInv
      <4>2. r # q
        BY <1>t, <2>1, <2>2, <4>1 DEF Live, JobAt
      <4> QED
        BY <1>t, <2>1, <2>2, <4>2 DEF Live, FileOf, NoCollision
    <3>2. src[q] \in Path
      <4>1. JobAt(q)
        BY DEF JobInv
      <4> QED
        BY <2>1, <4>1 DEF JobAt
    <3>3. FileOf(r) # src[q] /\ FileOf(r) \in Path
      <4>1. {src[q], moved[q]} \cap {src[r], moved[r]} \subseteq {None}
        BY <3>1, Zenon DEF NoCollision
      <4> QED
        BY <1>0, <3>1, <3>2, <4>1, Apart, Zenon
    <3>4. disk[FileOf(r)] = {r}
      BY <2>2, <3>1, Zenon DEF FileInv
    <3>5. disk'[FileOf(r)] = disk[FileOf(r)]
      BY <1>t, <2>1, <3>2, <3>3
    <3> QED
      BY <3>1, <3>4, <3>5, Zenon
  <2> QED
    BY <2>2, Zenon DEF FileInv
<1>3. CASE Process
  <2>1. CASE moved' = moved /\ disk' = disk
    BY <1>3, <2>1 DEF Process, post, job, FileInv, Live, FileOf, NoCollision
  <2>2. CASE moved' # moved \/ disk' # disk
    <3> DEFINE d == <<clock, src[wjob][2]>>
    <3>0. /\ wjob \in Reqs /\ src[wjob] \in Path /\ d \in Path /\ moved[wjob] \in {None, src[wjob]}
          /\ disk' = [disk EXCEPT ![src[wjob]] = {}, ![d] = disk[src[wjob]]]
          /\ moved' = [moved EXCEPT ![wjob] = d]
      BY <1>3, <2>2, MoveFacts
    <3> HIDE DEF d
    <3>1. src' = src /\ pc' = pc /\ state' = state
      BY <1>3 DEF Process, post, job
    <3>2. ASSUME NEW r \in Reqs, Live(r)', NoCollision(r)'
          PROVE  disk'[FileOf(r)'] = {r}
      <4>1. Live(r)
        BY <3>1, <3>2, Zenon DEF Live
      <4>2. CASE r = wjob
        <5>1. NoCollision(r)
          BY <1>t, <3>0, <3>1, <3>2, <4>2 DEF NoCollision
        <5>2. FileOf(r) = src[r]
          BY <3>0, <4>2 DEF FileOf
        <5>3. FileOf(r)' = d
          <6>1. moved'[r] = d /\ d \in Path
            BY <1>t, <3>0, <4>2
          <6> QED
            BY <1>t, <6>1 DEF FileOf
        <5>4. disk[src[r]] = {r}
          BY <4>1, <5>1, <5>2, Zenon DEF FileInv
        <5> QED
          <6>1. disk'[d] = disk[src[r]]
            BY <1>t, <3>0, <4>2
          <6> QED
            BY <5>3, <5>4, <6>1
      <4>3. CASE r # wjob
        <5>1. moved'[r] = moved[r] /\ FileOf(r)' = FileOf(r)
          BY <1>t, <3>0, <3>1, <4>3 DEF FileOf
        <5>2. NoCollision(r)
          <6> SUFFICES ASSUME NEW q \in Reqs \ {r}
                       PROVE  {src[q], moved[q]} \cap {src[r], moved[r]} \subseteq {None}
            BY Zenon DEF NoCollision
          <6>1. {src[q], moved'[q]} \cap {src[r], moved[r]} \subseteq {None}
            <7>1. {src'[q], moved'[q]} \cap {src'[r], moved'[r]} \subseteq {None}
              BY <3>2, Zenon DEF NoCollision
            <7> QED
              BY <3>1, <5>1, <7>1, Zenon
          <6>2. moved[q] \in {moved'[q], src[q], None}
            BY <1>t, <3>0
          <6> QED
            BY <6>1, <6>2, Zenon
        <5>3. {src[wjob], d} \cap {src[r], moved[r]} \subseteq {None}
          <6>1. {src'[wjob], moved'[wjob]} \cap {src'[r], moved'[r]} \subseteq {None}
            BY <3>0, <3>2, <4>3, Zenon DEF NoCollision
          <6>2. moved'[wjob] = d
            BY <1>t, <3>0
          <6> QED
            BY <3>1, <5>1, <6>1, <6>2, Zenon
        <5>4. FileOf(r) \in Path /\ FileOf(r) # src[wjob] /\ FileOf(r) # d
          <6>1. src[wjob] \in Path /\ d \in Path
            BY <3>0
          <6>2. src[wjob] \notin {src[r], moved[r]}
            BY <5>3, <6>1, Apart, ZenonT(40)
          <6>3. d \notin {src[r], moved[r]}
            BY <5>3, <6>1, Apart, Zenon
          <6> QED
            BY <1>0, <4>1, <6>2, <6>3, Zenon
        <5>5. disk'[FileOf(r)] = disk[FileOf(r)]
          <6>1. disk' = [disk EXCEPT ![src[wjob]] = {}, ![d] = disk[src[wjob]]]
            BY <3>0
          <6> QED
            BY <1>t, <5>4, <6>1
        <5> QED
          BY <4>1, <5>1, <5>2, <5>5, Zenon DEF FileInv
      <4> QED
        BY <4>2, <4>3
    <3> QED
      BY <3>2, Zenon DEF FileInv
  <2> QED
    BY <2>1, <2>2
<1>4. CASE Tick
  BY <1>4, Zenon DEF Tick, post, worker, job, FileInv, Live, FileOf, NoCollision
<1>5. CASE Quiet
  BY <1>5, Zenon DEF Quiet, FileInv, FileOf, NoCollision
<1> QED
  BY <1>1, <1>2, <1>3, <1>4, <1>5, FileSteps, Zenon

\* The invariant of the files holds in every reachable state.
THEOREM FilesInvariance == Spec => []FilesInv
<1>1. Init => FilesInv
  BY DEF Init, FilesInv, PathInv, PathAt, StagedInv, FileInv, Live, RunInv, ResultInv
<1>2. IInv /\ FilesInv /\ [Next]_vars => FilesInv'
  <2> SUFFICES ASSUME IInv, FilesInv, [Next]_vars PROVE FilesInv'
    OBVIOUS
  <2>1. CASE Next
    BY <2>1, PathStep, StagedStep, FileStep, RunStep, ResultStep, SMTT(30) DEF IInv, FilesInv
  <2>2. CASE UNCHANGED vars
    BY <2>2, Zenon DEF vars, env, post, job, worker, FilesInv, PathInv, PathAt, StagedInv, FileInv,
       Live, FileOf, NoCollision, RunInv, ResultInv
  <2> QED
    BY <2>1, <2>2
<1> QED
  BY <1>1, <1>2, Invariance, PTL DEF Spec

\* The bytes of a queued upload are never lost: whatever crashes, fails or is
\* retried, they are whole at the staged path or where processFileUpload() moved
\* them, for every number of uploads and every outcome of the queue.
THEOREM UploadsAreKept == Spec => []NoFileLost
<1>1. IInv /\ FilesInv => NoFileLost
  <2> SUFFICES ASSUME IInv, FilesInv, NEW r \in Reqs, state[r] # "none", NoCollision(r)
               PROVE  \E p \in {src[r], moved[r]} \ {None} : disk[p] = {r}
    BY SMTT(30) DEF NoFileLost
  <2>1. src[r] # None
    BY UploadQueueAssumption DEF IInv, JobInv, JobAt
  <2>2. disk[FileOf(r)] = {r}
    BY Zenon DEF FilesInv, FileInv, Live
  <2> QED
    BY <2>1, <2>2 DEF FileOf
<1> QED
  BY <1>1, Invariance, FilesInvariance, PTL

\* A completed job's result, which GET /status/:jobId reports, names the place
\* where the file is, for every run of the queue.
THEOREM ResultsNameTheFile == Spec => []CompletedHasFile
<1>1. FilesInv => CompletedHasFile
  BY DEF FilesInv, FileInv, ResultInv, Live, FileOf, CompletedHasFile
<1> QED
  BY <1>1, FilesInvariance, PTL
=============================================================================
