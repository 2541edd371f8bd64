------------------------------ MODULE RedisAof ------------------------------
(***************************************************************************)
(* The append only file of the vendored Redis server (aof.c, bio.c and the *)
(* AOF sections of server.c): feeding and flushing the buffer under the    *)
(* three fsync policies, the background rewrite with its pipes and its     *)
(* child process, switching AOF on and off, write errors, crashes of the   *)
(* process and of the machine, and loading at restart.                     *)
(*                                                                         *)
(* The dataset is the sequence of write commands that built it.  A file is *)
(* a sequence of tokens: Sel(d), a SELECT; Half(i, 1) and Half(i, 2), the  *)
(* two halves of command i, so that a write can end inside a command; and  *)
(* Snap(l), a rewritten base that rebuilds dataset l.                      *)
(***************************************************************************)
EXTENDS Integers, Sequences

CONSTANTS
  DBs,          \* database numbers
  Policies,     \* the values of appendfsync tried: always, everysec, no
  NoFsyncOnRewrite,  \* no-appendfsync-on-rewrite
  Switches,     \* TRUE: CONFIG SET appendonly is used at run time
  MaxWrites,    \* bound: write commands
  MaxRewrites,  \* bound: rewrites started
  MaxFaults     \* bound: failed writes and forks, dead children, crashes

ASSUME AofAssumption ==
  /\ DBs \subseteq Nat /\ 0 \in DBs
  /\ Policies \subseteq {"always", "everysec", "no"}
  /\ NoFsyncOnRewrite \in BOOLEAN /\ Switches \in BOOLEAN
  /\ MaxWrites \in Nat /\ MaxRewrites \in Nat /\ MaxFaults \in Nat

VARIABLES
  policy,   \* server.aof_fsync
  up,       \* the server process runs
  pc,       \* "loop", or "switching": between rename() and the fsync of the new file
  log,      \* the dataset
  mem,      \* the server's AOF fields, see AofInit
  file,     \* the file named aof_filename: its tokens, how many are on the disk
  bio,      \* the BIO_AOF_FSYNC queue: is the job's file the one named now?
  rw,       \* the rewrite: child process, pipes, the parent's buffer
  acked,    \* how many commands of log have had their reply sent
  born,     \* Len(log) when the process started
  writes, rewrites, faults   \* counters for the bounds

aofVars == <<policy, up, pc, log, mem, file, bio, rw, acked, born, writes, rewrites, faults>>

NoDb == -1
NotPostponed == -1

Sel(d) == <<"sel", d>>
Half(i, h) == <<"half", i, h>>
Snap(l) == <<"snap", l>>

-----------------------------------------------------------------------------
(* loadAppendOnlyFile(): replay the tokens.  good is valid_up_to, bad a    *)
(* format error, which ends the process.                                   *)

LoadToken(a, i, k) ==
  IF a.bad THEN a
  ELSE CASE k[1] = "snap" -> [a EXCEPT !.log = k[2], !.good = i, !.bad = i # 1]
         [] k[1] = "sel"  -> [a EXCEPT !.db = k[2], !.good = i, !.bad = a.half # 0]
         [] k[1] = "half" /\ k[3] = 1 -> [a EXCEPT !.half = k[2], !.bad = a.half # 0]
         [] k[1] = "half" /\ k[3] = 2 ->
              [a EXCEPT !.half = 0, !.bad = a.half # k[2], !.good = i,
                        !.log = Append(@, [id |-> k[2], db |-> a.db])]

\* createAOFClient(): the fake client starts on database 0.
LoadStart == [log |-> <<>>, db |-> 0, half |-> 0, good |-> 0, bad |-> FALSE]

\* The state of the loader after each token.
Loading(toks) ==
  LET after[i \in 0..Len(toks)] ==
        IF i = 0 THEN LoadStart ELSE LoadToken(after[i - 1], i, toks[i])
  IN after

\* Mutant: a file that ends inside a command is refused.
loadAppendOnlyFile_Strict(toks) ==
  LET r == Loading(toks)[Len(toks)] IN [r EXCEPT !.bad = @ \/ r.half # 0]

loadAppendOnlyFile(toks) == Loading(toks)[Len(toks)]

-----------------------------------------------------------------------------
(* Rewrite state. *)

NoRewrite == [child |-> "none", snap |-> <<>>, pipe |-> <<>>, diff |-> <<>>, buf |-> <<>>,
              tmp |-> <<>>, stop |-> FALSE, ack |-> FALSE]

RdbChild == [NoRewrite EXCEPT !.child = "rdb"]

hasActiveChildProcess == rw.child # "none"
AofChild == rw.child \notin {"none", "rdb"}

Serving == up /\ pc = "loop"
Fault == faults < MaxFaults /\ faults' = faults + 1

-----------------------------------------------------------------------------
(* flushAppendOnlyFile().  m is [mem, file, bio, up]: the fields, the file *)
(* and the fsync queue it changes.  The outcome o of write() is the number *)
(* of tokens that stay in the file; fewer than the buffer is an error.     *)

TryFsync(m, inProgress) ==
  LET Skip == NoFsyncOnRewrite /\ hasActiveChildProcess IN
  CASE Skip -> m
    [] policy = "always" /\ ~Skip ->
         [m EXCEPT !.file.synced = Len(m.file.toks), !.mem.offset = m.mem.size,
                   !.mem.aged = FALSE]
    [] policy = "everysec" /\ m.mem.aged /\ ~Skip ->
         [m EXCEPT !.mem.aged = FALSE,
                   !.mem.offset = IF inProgress THEN @ ELSE m.mem.size,
                   !.bio = IF inProgress THEN @ ELSE Append(@, m.mem.state # "off")]
    [] OTHER -> m

Written(m, n) ==
  [m EXCEPT !.file.toks = @ \o SubSeq(m.mem.buf, 1, n), !.mem.size = @ + n,
            !.mem.buf = SubSeq(@, n + 1, Len(@)), !.mem.postponed = NotPostponed]

\* Mutant: nothing to write, nothing to sync.
flushAppendOnlyFile_NothingToSync(m, force, o) ==
  LET inProgress == policy = "everysec" /\ m.bio # <<>>
      w == Written(m, o)
  IN CASE m.mem.buf = <<>> -> m
       [] m.mem.buf # <<>> /\ inProgress /\ ~force /\ m.mem.postponed = NotPostponed ->
            [m EXCEPT !.mem.postponed = 0]
       [] m.mem.buf # <<>> /\ inProgress /\ ~force /\ m.mem.postponed \in {0, 1} -> m
       [] OTHER ->
            IF o = Len(m.mem.buf) THEN TryFsync([w EXCEPT !.mem.werr = FALSE], inProgress)
            ELSE IF policy = "always" THEN [w EXCEPT !.up = FALSE]
            ELSE [w EXCEPT !.mem.werr = TRUE]

flushAppendOnlyFile(m, force, o) ==
  LET inProgress == policy = "everysec" /\ m.bio # <<>>
      w == Written(m, o)
  IN CASE m.mem.buf = <<>> ->
            IF /\ policy = "everysec" /\ m.mem.offset # m.mem.size
               /\ m.mem.aged /\ m.bio = <<>>
            THEN TryFsync(m, FALSE) ELSE m
       [] m.mem.buf # <<>> /\ inProgress /\ ~force /\ m.mem.postponed = NotPostponed ->
            [m EXCEPT !.mem.postponed = 0]
       [] m.mem.buf # <<>> /\ inProgress /\ ~force /\ m.mem.postponed \in {0, 1} -> m
       [] OTHER ->
            IF o = Len(m.mem.buf) THEN TryFsync([w EXCEPT !.mem.werr = FALSE], inProgress)
            ELSE IF policy = "always" THEN [w EXCEPT !.up = FALSE]
            ELSE [w EXCEPT !.mem.werr = TRUE]

M == [mem |-> mem, file |-> file, bio |-> bio, up |-> up]

(* aof_fd is -1 while AOF is off, so a write fails; otherwise it fails at  *)
(* the cost of a fault.  A short write that ftruncate() removes leaves 0.  *)
Flushes(force) ==
  LET After(n) == flushAppendOnlyFile(M, force, n) IN
  IF mem.state = "off" THEN {[m |-> After(0), fault |-> 0]}
  ELSE {[m |-> After(Len(mem.buf)), fault |-> 0]}
       \union {[m |-> After(n), fault |-> 1] : n \in 0..(Len(mem.buf) - 1)}

Counts(f) == faults' = faults + f.fault /\ faults' <= MaxFaults

Becomes(m) == mem' = m.mem /\ file' = m.file /\ bio' = m.bio /\ up' = m.up

-----------------------------------------------------------------------------
(* The server's event loop. *)

AofInit ==
  /\ policy \in Policies
  /\ up = TRUE /\ pc = "loop" /\ log = <<>>
  /\ mem = [state |-> "on",          \* aof_state: off, on, wait (for the first rewrite)
            buf |-> <<>>,            \* aof_buf
            sel |-> NoDb,            \* aof_selected_db
            werr |-> FALSE,          \* aof_last_write_status is C_ERR
            aged |-> FALSE,          \* unixtime > aof_last_fsync
            postponed |-> NotPostponed, \* seconds since aof_flush_postponed_start
            size |-> 0,              \* aof_current_size
            offset |-> 0,            \* aof_fsync_offset
            sched |-> FALSE]         \* aof_rewrite_scheduled
  /\ file = [toks |-> <<>>, synced |-> 0]
  /\ bio = <<>> /\ rw = NoRewrite
  /\ acked = 0 /\ born = 0 /\ writes = 0 /\ rewrites = 0 /\ faults = 0

(* A write command on database d that processCommand() accepts, and        *)
(* feedAppendOnlyFile(): the command, after a SELECT when needed, goes to  *)
(* the buffer and to the rewrite buffer.                                   *)
writeCommandsDeniedByDiskError == mem.state # "off" /\ mem.werr

Entry(i, d) ==
  (IF d # mem.sel THEN <<Sel(d)>> ELSE <<>>) \o <<Half(i, 1), Half(i, 2)>>

WriteCommand(d) ==
  /\ Serving
  /\ ~writeCommandsDeniedByDiskError
  /\ writes < MaxWrites
  /\ writes' = writes + 1
  /\ log' = Append(log, [id |-> writes', db |-> d])
  /\ IF mem.state = "off" THEN UNCHANGED <<mem, rw>>
     ELSE /\ mem' = [mem EXCEPT !.sel = d,
                                !.buf = IF mem.state = "on" THEN @ \o Entry(writes', d) ELSE @]
          /\ rw' = [rw EXCEPT !.buf = IF AofChild THEN @ \o Entry(writes', d) ELSE @]
  /\ UNCHANGED <<policy, up, pc, file, bio, acked, born, rewrites, faults>>

(* beforeSleep(): flush, then let the replies go. *)
BeforeSleep ==
  /\ Serving
  /\ \E f \in Flushes(FALSE) :
       /\ Counts(f) /\ Becomes(f.m)
       /\ acked' = IF f.m.up /\ Len(log) > born THEN Len(log) ELSE acked
  /\ UNCHANGED <<policy, pc, log, rw, born, writes, rewrites>>

(* serverCron(): a postponed flush, or one that failed, is tried again.    *)
CronFlush ==
  /\ Serving
  /\ mem.postponed # NotPostponed \/ mem.werr
  /\ \E f \in Flushes(FALSE) : Counts(f) /\ Becomes(f.m)
  /\ UNCHANGED <<policy, pc, log, rw, acked, born, writes, rewrites>>

(* unixtime passes a second. *)
SecondPasses ==
  /\ Serving
  /\ mem' = [mem EXCEPT !.aged = TRUE,
                        !.postponed = IF @ \in {0, 1} THEN @ + 1 ELSE @]
  /\ UNCHANGED <<policy, up, pc, log, file, bio, rw, acked, born, writes, rewrites, faults>>

(* The bio thread's fsync; a file that is no longer the named one is       *)
(* synced to no effect.                                                    *)
bioProcessBackgroundJobs ==
  /\ up
  /\ bio # <<>>
  /\ bio' = Tail(bio)
  /\ file' = IF Head(bio) THEN [file EXCEPT !.synced = Len(file.toks)] ELSE file
  /\ UNCHANGED <<policy, up, pc, log, mem, rw, acked, born, writes, rewrites, faults>>

-----------------------------------------------------------------------------
(* The background rewrite. *)

\* Mutant: aof_selected_db is not reset when a rewrite starts.
StartRewrite_SameDb(m) ==
  /\ rewrites < MaxRewrites
  /\ rewrites' = rewrites + 1
  /\ rw' = [NoRewrite EXCEPT !.child = "saving", !.snap = log]
  /\ mem' = [m EXCEPT !.sched = FALSE]

StartRewrite(m) ==
  /\ rewrites < MaxRewrites
  /\ rewrites' = rewrites + 1
  /\ rw' = [NoRewrite EXCEPT !.child = "saving", !.snap = log]
  /\ mem' = [m EXCEPT !.sched = FALSE, !.sel = NoDb]

(* BGREWRITEAOF, the automatic rewrite and a scheduled one.                *)
rewriteAppendOnlyFileBackground ==
  /\ Serving
  /\ ~hasActiveChildProcess
  /\ StartRewrite(mem)
  /\ UNCHANGED <<policy, up, pc, log, file, bio, acked, born, writes, faults>>

(* BGREWRITEAOF while an RDB is being saved. *)
ScheduleRewrite ==
  /\ Serving
  /\ rw.child = "rdb"
  /\ mem' = [mem EXCEPT !.sched = TRUE]
  /\ UNCHANGED <<policy, up, pc, log, file, bio, rw, acked, born, writes, rewrites, faults>>

(* A BGSAVE starts, and ends: it holds the place of a child process.       *)
BgSave ==
  /\ Serving
  /\ ~hasActiveChildProcess
  /\ rewrites < MaxRewrites
  /\ rewrites' = rewrites + 1
  /\ rw' = RdbChild
  /\ UNCHANGED <<policy, up, pc, log, mem, file, bio, acked, born, writes, faults>>

BgSaveDone ==
  /\ Serving
  /\ rw.child = "rdb"
  /\ rw' = NoRewrite
  /\ UNCHANGED <<policy, up, pc, log, mem, file, bio, acked, born, writes, rewrites, faults>>

(* The parent writes what the pipe takes of its buffer. *)
aofChildWriteDiffData ==
  /\ Serving
  /\ AofChild /\ ~rw.stop
  /\ \E n \in 1..Len(rw.buf) :
       rw' = [rw EXCEPT !.pipe = @ \o SubSeq(rw.buf, 1, n),
                        !.buf = SubSeq(@, n + 1, Len(@))]
  /\ UNCHANGED <<policy, up, pc, log, mem, file, bio, acked, born, writes, rewrites, faults>>

(* The child reads the pipe from time to time while it saves. *)
aofReadDiffFromParent ==
  /\ rw.child = "saving"
  /\ rw.pipe # <<>>
  /\ rw' = [rw EXCEPT !.diff = @ \o rw.pipe, !.pipe = <<>>]
  /\ UNCHANGED <<policy, up, pc, log, mem, file, bio, acked, born, writes, rewrites, faults>>

(* It asks the parent to stop, ... *)
ChildAsksToStop ==
  /\ rw.child = "saving"
  /\ rw' = [rw EXCEPT !.child = "asked"]
  /\ UNCHANGED <<policy, up, pc, log, mem, file, bio, acked, born, writes, rewrites, faults>>

(* ... the parent stops and acknowledges, ... *)
aofChildPipeReadable ==
  /\ Serving
  /\ rw.child = "asked" /\ ~rw.stop
  /\ rw' = [rw EXCEPT !.stop = TRUE, !.ack = TRUE]
  /\ UNCHANGED <<policy, up, pc, log, mem, file, bio, acked, born, writes, rewrites, faults>>

(* ... and the child reads the rest, syncs its file and exits.             *)
ChildFinishes ==
  /\ rw.child = "asked" /\ rw.ack
  /\ rw' = [rw EXCEPT !.child = "ok", !.pipe = <<>>,
                      !.tmp = <<Snap(rw.snap)>> \o rw.diff \o rw.pipe]
  /\ UNCHANGED <<policy, up, pc, log, mem, file, bio, acked, born, writes, rewrites, faults>>

(* A write error, no acknowledgement in time, or a signal. *)
ChildFails ==
  /\ rw.child \in {"saving", "asked"}
  /\ Fault
  /\ rw' = [rw EXCEPT !.child = "failed"]
  /\ UNCHANGED <<policy, up, pc, log, mem, file, bio, acked, born, writes, rewrites>>

(* backgroundRewriteDoneHandler() up to rename(): the parent's buffer is   *)
(* appended to the child's file, which takes the AOF's name.               *)
RewriteRenamed ==
  /\ Serving
  /\ rw.child = "ok"
  /\ file' = [toks |-> rw.tmp \o rw.buf, synced |-> Len(rw.tmp)]
  /\ bio' = [i \in DOMAIN bio |-> FALSE]
  /\ pc' = "switching"
  /\ UNCHANGED <<policy, up, log, mem, rw, acked, born, writes, rewrites, faults>>

\* Mutant: the size of the new file is not taken over.
RewriteSwitched_OldSize ==
  /\ up /\ pc = "switching"
  /\ pc' = "loop"
  /\ rw' = NoRewrite
  /\ IF mem.state = "off" THEN UNCHANGED <<mem, file, bio>>
     ELSE /\ mem' = [mem EXCEPT !.sel = NoDb, !.buf = <<>>,
                                !.offset = Len(file.toks), !.state = "on"]
          /\ file' = IF policy = "always" THEN [file EXCEPT !.synced = Len(file.toks)] ELSE file
          /\ bio' = IF policy = "everysec" THEN Append(bio, TRUE) ELSE bio
  /\ UNCHANGED <<policy, up, log, acked, born, writes, rewrites, faults>>

\* Mutant: the new file is never synced under appendfsync always.
RewriteSwitched_NotSynced ==
  /\ up /\ pc = "switching"
  /\ pc' = "loop"
  /\ rw' = NoRewrite
  /\ IF mem.state = "off" THEN UNCHANGED <<mem, file, bio>>
     ELSE /\ mem' = [mem EXCEPT !.sel = NoDb, !.size = Len(file.toks), !.buf = <<>>,
                                !.offset = Len(file.toks), !.state = "on"]
          /\ file' = file
          /\ bio' = IF policy = "everysec" THEN Append(bio, TRUE) ELSE bio
  /\ UNCHANGED <<policy, up, log, acked, born, writes, rewrites, faults>>

(* The rest of it: switch to the new file. *)
RewriteSwitched ==
  /\ up /\ pc = "switching"
  /\ pc' = "loop"
  /\ rw' = NoRewrite
  /\ IF mem.state = "off" THEN UNCHANGED <<mem, file, bio>>
     ELSE /\ mem' = [mem EXCEPT !.sel = NoDb, !.size = Len(file.toks), !.buf = <<>>,
                                !.offset = Len(file.toks), !.state = "on"]
          /\ file' = IF policy = "always" THEN [file EXCEPT !.synced = Len(file.toks)] ELSE file
          /\ bio' = IF policy = "everysec" THEN Append(bio, TRUE) ELSE bio
  /\ UNCHANGED <<policy, up, log, acked, born, writes, rewrites, faults>>

(* The child failed, or its file cannot be opened, completed or renamed.   *)
RewriteFailed ==
  /\ Serving
  /\ \/ rw.child = "failed" /\ UNCHANGED faults
     \/ rw.child = "ok" /\ Fault
  /\ rw' = NoRewrite
  /\ mem' = [mem EXCEPT !.sched = @ \/ mem.state = "wait"]
  /\ UNCHANGED <<policy, up, pc, log, file, bio, acked, born, writes, rewrites>>

-----------------------------------------------------------------------------
(* CONFIG SET appendonly, SHUTDOWN, crashes, restart. *)

stopAppendOnly ==
  /\ Switches /\ Serving
  /\ mem.state # "off"
  /\ \E f \in Flushes(TRUE) :
       /\ Counts(f)
       /\ IF ~f.m.up THEN Becomes(f.m) /\ UNCHANGED rw
          ELSE /\ file' = [f.m.file EXCEPT !.synced = Len(f.m.file.toks)]
               /\ mem' = [f.m.mem EXCEPT !.state = "off", !.sel = NoDb, !.sched = FALSE]
               /\ bio' = [i \in DOMAIN f.m.bio |-> FALSE] /\ up' = TRUE
               /\ rw' = IF AofChild THEN NoRewrite ELSE rw
  /\ UNCHANGED <<policy, pc, log, acked, born, writes, rewrites>>

startAppendOnly ==
  /\ Switches /\ Serving
  /\ mem.state = "off"
  /\ LET m == [mem EXCEPT !.state = "wait", !.aged = FALSE] IN
     \/ rw.child = "rdb" /\ mem' = [m EXCEPT !.sched = TRUE] /\ UNCHANGED <<rw, rewrites, faults>>
     \/ rw.child # "rdb" /\ StartRewrite(m) /\ UNCHANGED faults
     \/ AofChild /\ Fault /\ rw' = NoRewrite /\ UNCHANGED <<mem, rewrites>>  \* no fork
  /\ UNCHANGED <<policy, up, pc, log, file, bio, acked, born, writes>>

(* prepareForShutdown(): not before the first AOF is complete.             *)
prepareForShutdown ==
  /\ Serving
  /\ ~(mem.state = "wait" /\ AofChild)
  /\ IF mem.state = "off" THEN UNCHANGED <<mem, file, bio, faults>>
     ELSE \E f \in Flushes(TRUE) :
            /\ Counts(f)
            /\ mem' = f.m.mem /\ bio' = f.m.bio
            /\ file' = [f.m.file EXCEPT !.synced = IF f.m.up THEN Len(f.m.file.toks) ELSE @]
  /\ up' = FALSE /\ rw' = NoRewrite
  /\ UNCHANGED <<policy, pc, log, acked, born, writes, rewrites>>

(* The process dies; what it wrote is with the operating system. *)
Crash ==
  /\ up
  /\ Fault
  /\ up' = FALSE
  /\ UNCHANGED <<policy, pc, log, mem, file, bio, rw, acked, born, writes, rewrites>>

(* The machine dies; of what was not synced any prefix survives. *)
PowerLoss ==
  /\ up
  /\ Fault
  /\ up' = FALSE
  /\ \E n \in file.synced..Len(file.toks) : file' = [file EXCEPT !.toks = SubSeq(@, 1, n)]
  /\ UNCHANGED <<policy, pc, log, mem, bio, rw, acked, born, writes, rewrites>>

Smaller(a, b) == IF a <= b THEN a ELSE b

\* Mutant: a file that ends inside a command is truncated to nothing.
Restart_TruncatesAll ==
  /\ ~up
  /\ LET r == loadAppendOnlyFile(file.toks)
         on == mem.state # "off"
         toks == IF on THEN (IF r.half = 0 THEN file.toks ELSE <<>>) ELSE file.toks
     IN /\ on => ~r.bad
        /\ log' = IF on THEN loadAppendOnlyFile(toks).log ELSE <<>>
        /\ file' = [toks |-> toks, synced |-> Smaller(file.synced, Len(toks))]
        /\ mem' = [mem EXCEPT !.state = IF on THEN "on" ELSE "off", !.buf = <<>>, !.sel = NoDb,
                              !.werr = FALSE, !.aged = FALSE, !.postponed = NotPostponed,
                              !.size = Len(toks), !.offset = Len(toks), !.sched = FALSE]
        /\ born' = Len(log')
        /\ acked' = Smaller(acked, Len(log'))
  /\ up' = TRUE /\ pc' = "loop" /\ bio' = <<>> /\ rw' = NoRewrite
  /\ UNCHANGED <<policy, writes, rewrites, faults>>

(* loadAppendOnlyFile() at startup, with aof-load-truncated yes; a server  *)
(* with AOF off starts empty, its RDB is not modelled.                     *)
Restart ==
  /\ ~up
  /\ LET r == loadAppendOnlyFile(file.toks)
         on == mem.state # "off"
         toks == IF on THEN SubSeq(file.toks, 1, r.good) ELSE file.toks
     IN /\ on => ~r.bad
        /\ log' = IF on THEN r.log ELSE <<>>
        /\ file' = [toks |-> toks, synced |-> Smaller(file.synced, Len(toks))]
        /\ mem' = [mem EXCEPT !.state = IF on THEN "on" ELSE "off", !.buf = <<>>, !.sel = NoDb,
                              !.werr = FALSE, !.aged = FALSE, !.postponed = NotPostponed,
                              !.size = Len(toks), !.offset = Len(toks), !.sched = FALSE]
        /\ born' = Len(log')
        /\ acked' = Smaller(acked, Len(log'))
  /\ up' = TRUE /\ pc' = "loop" /\ bio' = <<>> /\ rw' = NoRewrite
  /\ UNCHANGED <<policy, writes, rewrites, faults>>

AofNext ==
  \/ \E d \in DBs : WriteCommand(d)
  \/ BeforeSleep \/ CronFlush \/ SecondPasses \/ bioProcessBackgroundJobs
  \/ rewriteAppendOnlyFileBackground \/ ScheduleRewrite \/ BgSave \/ BgSaveDone
  \/ aofChildWriteDiffData \/ aofReadDiffFromParent \/ ChildAsksToStop
  \/ aofChildPipeReadable \/ ChildFinishes \/ ChildFails
  \/ RewriteRenamed \/ RewriteSwitched \/ RewriteFailed
  \/ stopAppendOnly \/ startAppendOnly \/ prepareForShutdown
  \/ Crash \/ PowerLoss \/ Restart

AofSpec == AofInit /\ [][AofNext]_aofVars

-----------------------------------------------------------------------------
(* Properties. *)

AofTypeOK ==
  /\ policy \in Policies /\ up \in BOOLEAN /\ pc \in {"loop", "switching"}
  /\ log \in Seq([id : 1..MaxWrites, db : DBs])
  /\ mem.state \in {"on", "off", "wait"} /\ mem.sel \in DBs \union {NoDb}
  /\ mem.postponed \in -1..2 /\ mem.offset \in 0..mem.size
  /\ (Serving /\ mem.state = "on" => mem.size = Len(file.toks))
  /\ file.synced \in 0..Len(file.toks)
  /\ acked \in 0..Len(log)

(* While AOF is on, the file followed by the buffer rebuilds exactly the   *)
(* dataset in memory: SELECTs, retried and torn writes, a rewrite's        *)
(* snapshot, the diff through the pipe and the rest in the parent's buffer *)
(* neither lose, repeat nor misplace a command.                            *)
AofRebuildsDataset ==
  up /\ mem.state = "on" =>
    LET r == loadAppendOnlyFile(file.toks \o (IF pc = "loop" THEN mem.buf ELSE <<>>))
    IN ~r.bad /\ r.log = log

(* The file a server with AOF on leaves behind always loads, wherever the  *)
(* process or the machine stopped.                                         *)
FileAlwaysLoads == mem.state = "on" => ~loadAppendOnlyFile(file.toks).bad

OnDisk == Len(loadAppendOnlyFile(SubSeq(file.toks, 1, file.synced)).log)

\* t starts with s.
Continues(s, t) == Len(s) <= Len(t) /\ \A i \in 1..Len(s) : s[i] = t[i]

(* ... and the server comes back with a prefix of what it had run, which   *)
(* has every command that was synced to the disk.                          *)
RestartsFromDisk ==
  [][~up /\ mem.state = "on" /\ up' => Continues(log', log) /\ OnDisk <= Len(log')]_aofVars

(* Under appendfsync always a command run and answered by this process is  *)
(* on the disk, whatever rewrites run beside it, outside the window of the *)
(* switch to a rewritten file.                                             *)
AckedIsDurable ==
  /\ policy = "always" /\ ~NoFsyncOnRewrite /\ mem.state = "on" /\ pc = "loop"
  /\ acked > born
  => acked <= OnDisk

AofFairness ==
  /\ WF_aofVars(BeforeSleep) /\ WF_aofVars(SecondPasses) /\ WF_aofVars(bioProcessBackgroundJobs)
  /\ WF_aofVars(RewriteSwitched)
AofFairSpec == AofSpec /\ AofFairness

(* Under appendfsync everysec a command run and answered by this process   *)
(* reaches the disk, unless the process ends or AOF is switched off.       *)
EventuallyDurable ==
  \A n \in 1..MaxWrites :
    (policy = "everysec" /\ up /\ mem.state = "on" /\ born < n /\ acked >= n)
      ~> (OnDisk >= n \/ ~up \/ mem.state # "on")

=============================================================================
