------------------------------ MODULE DumpJobs ------------------------------
(***************************************************************************)
(* Dump jobs of the metrics plugin (server/job.go).                        *)
(*                                                                         *)
(* An administrator creates, lists, deletes and downloads dump jobs over   *)
(* HTTP, and the server asks for the latest dump when it makes a support   *)
(* packet; the plugin processes of a cluster share                         *)
(*   - the job-once scheduler of the plugin API, which keeps one metadata  *)
(*     entry per scheduled job in the KV store and runs the job's callback *)
(*     on some node, under a cluster mutex of the job;                     *)
(*   - one KV entry, KVStoreJobKey, holding the map of all jobs that have  *)
(*     started, which is read, changed and written back as a whole under   *)
(*     the cluster mutex of lockJobKVMutex;                                *)
(*   - the file store, holding one archive per successful dump.            *)
(*                                                                         *)
(* The actors are the job goroutines <<n, j>> (job j tracked by the        *)
(* scheduler of node n) and the HTTP handlers (Callers).  Every step does  *)
(* at most one access to shared state that another actor can observe, so   *)
(* the interleavings are those of the code.                                *)
(*                                                                         *)
(* The scheduler, the cluster mutex, the KV store and the file store are   *)
(* not part of the repository; they are modelled from the way job.go and   *)
(* plugin.go use them (see the README, "External parts").                  *)
(***************************************************************************)
EXTENDS FiniteSets

CONSTANTS
  Nodes,    \* plugin processes, one per server of the cluster
  Jobs,     \* job identifiers that model.NewId can return
  Callers,  \* HTTP handler goroutines
  At,       \* At[c] is the node that serves caller c
  NoOne,    \* free lock, no target, no owner
  Ops,      \* requests the administrators issue
  Faults    \* failures of the environment that may happen

Readers   == {"list", "deleteAll", "download", "support"} \* they call GetAllJobs
AllOps    == {"create", "delete"} \cup Readers
AllFaults == {"crash", "kvget", "kvset", "sched", "remove", "dump", "ctx", "read"}

ASSUME DumpJobsAssumption ==
  /\ At \in [Callers -> Nodes]
  /\ NoOne \notin Nodes \cup Jobs \cup Callers \cup (Nodes \X Jobs)
  /\ Callers \cap (Nodes \cup (Nodes \X Jobs)) = {}
  /\ Ops \subseteq AllOps
  /\ Faults \subseteq AllFaults

Actors == (Nodes \X Jobs) \cup Callers

(***************************************************************************)
(* Job status.  A record in the KV entry is never "pending": CreateJob     *)
(* leaves the job to the scheduler and JobCallback writes the first record *)
(* with in_progress.  DumpLocation is set exactly when status is success,  *)
(* so the status alone stands for the record.                              *)
(***************************************************************************)
Terminal     == {"error", "success"}
RecordStatus == {"none", "in_progress"} \cup Terminal
ShownStatus  == RecordStatus \cup {"pending"}

NoRecords == [j \in Jobs |-> "none"]

VARIABLES
  up,       \* up[n]: the plugin is active on node n
  created,  \* identifiers handed out so far
  sched,    \* jobs with a metadata entry of the scheduler
  kvExists, \* the KV entry has been written at least once
  kv,       \* the jobs map stored in the KV entry
  files,    \* jobs whose archive is in the file store
  home,     \* home[j]: the node whose memory holds the *DumpJob of job j
  obj,      \* obj[j]: Status field of that *DumpJob
  wpc,      \* wpc[n][j]: where the goroutine of job j on node n is
  call,     \* call[c]: the request handled by caller c
  snap,     \* snap[a]: the jobs map actor a has unmarshalled
  kvLock,   \* holder of the cluster mutex of the KV entry
  jobLock,  \* jobLock[j]: holder of the cluster mutex of job j
  cbLock    \* cbLock[n]: job whose callback runs on node n

storeVars == <<created, sched, kvExists, kv, files>>
memVars   == <<home, obj>>
lockVars  == <<kvLock, jobLock, cbLock>>
vars == <<up, storeVars, memVars, wpc, call, snap, lockVars>>

WorkerPC == {"idle",   \* not tracked by the scheduler of this node
             "timer",  \* tracked: waits for its time or for the job mutex
             "exec",   \* holds the job mutex, waits for the callback mutex
             "upd1",   \* JobCallback: first UpdateJob waits for the KV mutex
             "set1",   \* first UpdateJob has read the jobs map
             "dump",   \* createDump
             "upd2",   \* deferred UpdateJob waits for the KV mutex
             "set2",   \* deferred UpdateJob has read the jobs map
             "end"}    \* the callback has returned

CallPC == {"idle",
           "list",     \* GetAllJobs has read the scheduler, waits for the KV mutex
           "next",     \* DeleteAllJobs: head of the loop over the jobs
           "lock",     \* DeleteJob waits for the KV mutex
           "cancel",   \* DeleteJob holds the KV mutex, scheduler.Cancel waits
           "remove",   \* DeleteJob holds the KV mutex, before DeleteDump
           "write",    \* DeleteJob holds the KV mutex, before KVSet
           "rmdir",    \* DeleteAllJobs before RemoveDirectory
          "read",     \* a job is found, before its archive is read
           "done"}     \* the handler is about to answer

Replies == {"ok", "error", "canceled",
            "missing",     \* no such job, or no dump for the support packet
            "unreadable"}  \* the archive cannot be read

Call == [pc: CallPC, op: AllOps \cup {"none"}, target: Jobs \cup {NoOne},
         todo: SUBSET Jobs, listing: [Jobs -> ShownStatus],
         reply: Replies \cup {"none"}]

IdleCall == [pc |-> "idle", op |-> "none", target |-> NoOne, todo |-> {},
             listing |-> NoRecords, reply |-> "none"]

TypeOK ==
  /\ up \in [Nodes -> BOOLEAN]
  /\ created \in SUBSET Jobs
  /\ sched \in SUBSET Jobs
  /\ kvExists \in BOOLEAN
  /\ kv \in [Jobs -> RecordStatus]
  /\ files \in SUBSET Jobs
  /\ home \in [Jobs -> Nodes \cup {NoOne}]
  /\ obj \in [Jobs -> {"pending", "in_progress"} \cup Terminal]
  /\ wpc \in [Nodes -> [Jobs -> WorkerPC]]
  /\ call \in [Callers -> Call]
  /\ snap \in [Actors -> [Jobs -> RecordStatus]]
  /\ kvLock \in Actors \cup {NoOne}
  /\ jobLock \in [Jobs -> Nodes \cup {NoOne}]
  /\ cbLock \in [Nodes -> Jobs \cup {NoOne}]

(***************************************************************************)
(* A fresh cluster: the plugin is active everywhere, no job was ever       *)
(* created and the KV entry does not exist.                                *)
(***************************************************************************)
Init ==
  /\ up = [n \in Nodes |-> TRUE]
  /\ created = {}
  /\ sched = {}
  /\ kvExists = FALSE
  /\ kv = NoRecords
  /\ files = {}
  /\ home = [j \in Jobs |-> NoOne]
  /\ obj = [j \in Jobs |-> "pending"]
  /\ wpc = [n \in Nodes |-> [j \in Jobs |-> "idle"]]
  /\ call = [c \in Callers |-> IdleCall]
  /\ snap = [a \in Actors |-> NoRecords]
  /\ kvLock = NoOne
  /\ jobLock = [j \in Jobs |-> NoOne]
  /\ cbLock = [n \in Nodes |-> NoOne]

\* The goroutine of job j on node n goes on to w.
Goto(n, j, w) == wpc' = [wpc EXCEPT ![n][j] = w]

(***************************************************************************)
(* The scheduler (external).                                               *)
(***************************************************************************)

\* The jobs of node n after its scheduler has read the metadata entries: a
\* goroutine is started for every entry that is not tracked yet.
TrackScheduled(n) ==
  wpc' = [wpc EXCEPT ![n] = [j \in Jobs |->
            IF j \in sched /\ wpc[n][j] = "idle" THEN "timer" ELSE wpc[n][j]]]

\* The scheduler polls the metadata entries written by other nodes.
Poll(n) ==
  /\ up[n]
  /\ \E j \in sched : wpc[n][j] = "idle"
  /\ TrackScheduled(n)
  /\ UNCHANGED <<up, storeVars, memVars, call, snap, lockVars>>

\* The time of job j has come on node n: the goroutine takes the cluster
\* mutex of the job and looks for its metadata entry.  Without an entry the
\* job has been run or cancelled elsewhere, and the goroutine ends.
RunJob(n, j) ==
  /\ wpc[n][j] = "timer"
  /\ jobLock[j] = NoOne
  /\ \/ /\ j \in sched
        /\ jobLock' = [jobLock EXCEPT ![j] = n]
        /\ Goto(n, j, "exec")
     \/ /\ j \notin sched
        /\ Goto(n, j, "idle")
        /\ UNCHANGED jobLock
  /\ UNCHANGED <<up, storeVars, memVars, call, snap, kvLock, cbLock>>

\* The callback has returned: the scheduler removes the metadata entry and
\* releases the callback mutex of the process and the mutex of the job.
EndRun(n, j) ==
  /\ wpc[n][j] = "end"
  /\ sched' = sched \ {j}
  /\ Goto(n, j, "idle")
  /\ jobLock' = [jobLock EXCEPT ![j] = NoOne]
  /\ cbLock' = [cbLock EXCEPT ![n] = NoOne]
  /\ UNCHANGED <<up, created, kvExists, kv, files, memVars, call, snap, kvLock>>

(***************************************************************************)
(* JobCallback.                                                            *)
(***************************************************************************)

\* Mutation: the callback also accepts a job read back from its metadata.
StartCallbackAnywhere(n, j) ==
  /\ wpc[n][j] = "exec"
  /\ cbLock[n] = NoOne
  /\ cbLock' = [cbLock EXCEPT ![n] = j]
  /\ obj' = [obj EXCEPT ![j] = "in_progress"]
  /\ Goto(n, j, "upd1")
  /\ UNCHANGED <<up, storeVars, home, call, snap, kvLock, jobLock>>

\* The callback starts, one at a time in a process.  The type assertion
\* job.( *DumpJob) holds only in the process that called CreateJob: a job
\* read back from its metadata entry has a map for its props.
StartCallback(n, j) ==
  /\ wpc[n][j] = "exec"
  /\ cbLock[n] = NoOne
  /\ cbLock' = [cbLock EXCEPT ![n] = j]
  /\ \/ /\ home[j] = n
        /\ obj' = [obj EXCEPT ![j] = "in_progress"]
        /\ Goto(n, j, "upd1")
     \/ /\ home[j] # n
        /\ Goto(n, j, "end")
        /\ UNCHANGED obj
  /\ UNCHANGED <<up, storeVars, home, call, snap, kvLock, jobLock>>

\* Mutation: UpdateJob does not wait for the KV mutex.
UpdateJobLockNoWait(n, j) ==
  /\ wpc[n][j] \in {"upd1", "upd2"}
  /\ kvLock' = <<n, j>>
  /\ snap' = [snap EXCEPT ![<<n, j>>] = kv]
  /\ Goto(n, j, IF wpc[n][j] = "upd1" THEN "set1" ELSE "set2")
  /\ UNCHANGED <<up, storeVars, memVars, call, jobLock, cbLock>>

\* UpdateJob takes the KV mutex and reads the jobs map; when KVGet fails it
\* releases the mutex and the callback is over (the first UpdateJob returns
\* early, the deferred one only logs).
UpdateJobLock(n, j) ==
  /\ wpc[n][j] \in {"upd1", "upd2"}
  /\ kvLock = NoOne
  /\ \/ /\ kvLock' = <<n, j>>
        /\ snap' = [snap EXCEPT ![<<n, j>>] = kv]
        /\ Goto(n, j, IF wpc[n][j] = "upd1" THEN "set1" ELSE "set2")
     \/ /\ "kvget" \in Faults
        /\ Goto(n, j, "end")
        /\ UNCHANGED <<kvLock, snap>>
  /\ UNCHANGED <<up, storeVars, memVars, call, jobLock, cbLock>>

\* UpdateJob stores the jobs map with the record of its job replaced, and
\* releases the mutex.  After the first one the callback goes on to
\* createDump unless KVSet failed.
UpdateJobWrite(n, j) ==
  /\ wpc[n][j] \in {"set1", "set2"}
  /\ \/ /\ kv' = [snap[<<n, j>>] EXCEPT ![j] = obj[j]]
        /\ kvExists' = TRUE
        /\ Goto(n, j, IF wpc[n][j] = "set1" THEN "dump" ELSE "end")
     \/ /\ "kvset" \in Faults
        /\ Goto(n, j, "end")
        /\ UNCHANGED <<kv, kvExists>>
  /\ snap' = [snap EXCEPT ![<<n, j>>] = NoRecords]
  /\ kvLock' = NoOne
  /\ UNCHANGED <<up, created, sched, files, memVars, call, jobLock, cbLock>>

\* Mutation: the deferred UpdateJob is skipped when createDump fails.
CreateDumpNoDefer(n, j) ==
  /\ wpc[n][j] = "dump"
  /\ \/ /\ files' = files \cup {j}
        /\ obj' = [obj EXCEPT ![j] = "success"]
        /\ Goto(n, j, "upd2")
     \/ /\ "dump" \in Faults
        /\ obj' = [obj EXCEPT ![j] = "error"]
        /\ Goto(n, j, "end")
        /\ UNCHANGED files
  /\ UNCHANGED <<up, created, sched, kvExists, kv, home, call, snap, lockVars>>

\* createDump puts the archive of the job in the file store, or fails; a
\* failed upload may leave a part of the archive behind.
CreateDump(n, j) ==
  /\ wpc[n][j] = "dump"
  /\ \/ /\ files' = files \cup {j}
        /\ obj' = [obj EXCEPT ![j] = "success"]
     \/ /\ "dump" \in Faults
        /\ files' \in {files, files \cup {j}}
        /\ obj' = [obj EXCEPT ![j] = "error"]
  /\ Goto(n, j, "upd2")
  /\ UNCHANGED <<up, created, sched, kvExists, kv, home, call, snap, lockVars>>

(***************************************************************************)
(* HTTP handlers.                                                          *)
(***************************************************************************)

Begin(c, o) == up[At[c]] /\ call[c].pc = "idle" /\ o \in Ops

\* The handler of caller c goes on with r.
Become(c, r) == call' = [call EXCEPT ![c] = r]

\* The handler of caller c ends with answer r.
Answer(c, r) ==
  Become(c, [call[c] EXCEPT !.pc = "done", !.reply = r, !.todo = {}, !.listing = NoRecords])

\* The response is written and the goroutine of the handler is free again.
Return(c) ==
  /\ call[c].pc = "done"
  /\ Become(c, IdleCall)
  /\ UNCHANGED <<up, storeVars, memVars, wpc, snap, lockVars>>

\* CreateJob: a new identifier, a pending DumpJob in the memory of this
\* process, one metadata entry, one tracked goroutine.  (When ScheduleOnce
\* fails nothing has changed.)
CreateJob(c) ==
  /\ Begin(c, "create")
  /\ \E j \in Jobs \ created :
       /\ created' = created \cup {j}
       /\ sched' = sched \cup {j}
       /\ home' = [home EXCEPT ![j] = At[c]]
       /\ obj' = [obj EXCEPT ![j] = "pending"]
       /\ Goto(At[c], j, "timer")
  /\ Become(c, [IdleCall EXCEPT !.pc = "done", !.op = "create", !.reply = "ok"])
  /\ UNCHANGED <<up, kvExists, kv, files, snap, lockVars>>

\* What GetAllJobs shows of scheduled jobs S and stored records R.
Merge(S, R) ==
  [j \in Jobs |-> IF R[j] # "none" THEN R[j]
                  ELSE IF j \in S THEN "pending" ELSE "none"]

\* The jobs a listing contains.
Listed(listing) == {j \in Jobs : listing[j] # "none"}

\* GetAllJobs, first half: the scheduler's metadata entries.  A download
\* names its job.
GetScheduled(c, o) ==
  /\ Begin(c, o)
  /\ \E t \in IF o = "download" THEN Jobs ELSE {NoOne} :
       Become(c, [IdleCall EXCEPT !.pc = "list", !.op = o, !.target = t,
                                  !.listing = Merge(sched, NoRecords)])
  /\ UNCHANGED <<up, storeVars, memVars, wpc, snap, lockVars>>

\* ListScheduledJobs fails.
GetScheduledFails(c, o) ==
  /\ Begin(c, o)
  /\ "sched" \in Faults
  /\ Become(c, [IdleCall EXCEPT !.pc = "done", !.op = o, !.reply = "error"])
  /\ UNCHANGED <<up, storeVars, memVars, wpc, snap, lockVars>>

\* The jobs whose archive a request may be answered with, among those it has
\* found: the one a download names; for the support packet the newest that
\* has a dump, which can be any, since creation times are left out.
Wanted(c, all) ==
  IF call[c].op = "download" THEN {call[c].target} \cap Listed(all)
                             ELSE {j \in Jobs : all[j] = "success"}

\* downloadJobHandler and GenerateSupportData after GetAllJobs.
FindArchive(c, all) ==
  \/ \E j \in Wanted(c, all) :
       Become(c, [call[c] EXCEPT !.pc = "read", !.target = j,
                                 !.listing = [NoRecords EXCEPT ![j] = all[j]]])
  \/ Wanted(c, all) = {} /\ Answer(c, "missing")

\* What the reader does with the jobs it has got from GetAllJobs.
UseJobs(c, all) ==
  \/ /\ call[c].op = "list"
     /\ Become(c, [call[c] EXCEPT !.pc = "done", !.reply = "ok", !.listing = all])
  \/ /\ call[c].op = "deleteAll"
     /\ Become(c, [call[c] EXCEPT !.pc = "next", !.todo = Listed(all),
                                  !.listing = NoRecords])
  \/ /\ call[c].op \in {"download", "support"}
     /\ FindArchive(c, all)

\* Mutation: the stored records, when there are any, are the whole answer.
GetFinishedOnly(c) ==
  /\ call[c].pc = "list"
  /\ kvLock = NoOne
  /\ UseJobs(c, IF kvExists THEN Merge({}, kv) ELSE call[c].listing)
  /\ UNCHANGED <<up, storeVars, memVars, wpc, snap, lockVars>>

\* Mutation: the entries override the stored records.
GetFinishedFirst(c) ==
  /\ call[c].pc = "list"
  /\ kvLock = NoOne
  /\ UseJobs(c, [j \in Jobs |->
       IF call[c].listing[j] # "none" THEN call[c].listing[j] ELSE kv[j]])
  /\ UNCHANGED <<up, storeVars, memVars, wpc, snap, lockVars>>

\* GetAllJobs, second half: the stored records, read under the KV mutex
\* (taken and released around this single access), override the entries.
GetFinished(c) ==
  /\ call[c].pc = "list"
  /\ kvLock = NoOne
  /\ \/ UseJobs(c, Merge(Listed(call[c].listing), kv))
     \/ "kvget" \in Faults /\ Answer(c, "error")
  /\ UNCHANGED <<up, storeVars, memVars, wpc, snap, lockVars>>

\* The archive is read from the DumpLocation of the record, which is empty
\* unless the job was a success.
ReadArchive(c) ==
  LET j == call[c].target IN
  /\ call[c].pc = "read"
  /\ \/ Answer(c, IF call[c].listing[j] = "success" /\ j \in files
                    THEN "ok" ELSE "unreadable")
     \/ "read" \in Faults /\ Answer(c, "unreadable")
  /\ UNCHANGED <<up, storeVars, memVars, wpc, snap, lockVars>>

\* The request context ends while the handler waits for the KV mutex.  The
\* support packet waits without one.
ContextDone(c) ==
  /\ "ctx" \in Faults
  /\ call[c].pc \in {"list", "lock"} /\ call[c].op # "support"
  /\ Answer(c, "error")
  /\ UNCHANGED <<up, storeVars, memVars, wpc, snap, lockVars>>

\* deleteJobHandler: any well-formed identifier may be asked for.
DeleteJob(c) ==
  /\ Begin(c, "delete")
  /\ \E j \in Jobs :
       Become(c, [IdleCall EXCEPT !.pc = "lock", !.op = "delete", !.target = j])
  /\ UNCHANGED <<up, storeVars, memVars, wpc, snap, lockVars>>

\* DeleteAllJobs: the loop over the listed jobs, in no particular order.
DeleteNext(c) ==
  /\ call[c].pc = "next"
  /\ \/ \E j \in call[c].todo :
          Become(c, [call[c] EXCEPT !.pc = "lock", !.target = j, !.todo = @ \ {j}])
     \/ /\ call[c].todo = {}
        /\ Become(c, [call[c] EXCEPT !.pc = "rmdir"])
  /\ UNCHANGED <<up, storeVars, memVars, wpc, snap, lockVars>>

\* Mutation: DeleteJob does not wait for the KV mutex.
DeleteJobLockNoWait(c) ==
  /\ call[c].pc = "lock"
  /\ kvExists
  /\ kvLock' = c
  /\ snap' = [snap EXCEPT ![c] = kv]
  /\ LET next == IF kv[call[c].target] = "none" THEN "cancel" ELSE "remove" IN
     Become(c, [call[c] EXCEPT !.pc = next])
  /\ UNCHANGED <<up, storeVars, memVars, wpc, jobLock, cbLock>>

\* DeleteJob takes the KV mutex and reads the jobs map.  Three early ends
\* release it at once: KVGet fails, or the entry does not exist yet, in
\* which case the empty value cannot be unmarshalled.
DeleteJobLock(c) ==
  /\ call[c].pc = "lock"
  /\ kvLock = NoOne
  /\ \/ /\ "kvget" \in Faults \/ ~kvExists
        /\ Answer(c, "error")
        /\ UNCHANGED <<kvLock, snap>>
     \/ /\ kvExists
        /\ kvLock' = c
        /\ snap' = [snap EXCEPT ![c] = kv]
        /\ LET next == IF kv[call[c].target] = "none" THEN "cancel" ELSE "remove" IN
           Become(c, [call[c] EXCEPT !.pc = next])
  /\ UNCHANGED <<up, storeVars, memVars, wpc, jobLock, cbLock>>

\* DeleteJob returns without an error: the handler answers, or DeleteAllJobs
\* goes on with the next job.
DeleteJobOk(c, r) ==
  IF call[c].op = "deleteAll"
    THEN Become(c, [call[c] EXCEPT !.pc = "next"])
    ELSE Answer(c, r)

\* Mutation: the metadata entry is deleted without the mutex of the job.
CancelScheduledNoWait(c) ==
  LET j == call[c].target IN
  /\ call[c].pc = "cancel"
  /\ sched' = sched \ {j}
  /\ DeleteJobOk(c, "canceled")
  /\ snap' = [snap EXCEPT ![c] = NoRecords]
  /\ kvLock' = NoOne
  /\ UNCHANGED <<up, created, kvExists, kv, files, memVars, wpc, jobLock, cbLock>>

\* DeleteJob of a job without a record: scheduler.Cancel waits for the mutex
\* of the job, removes its metadata entry and stops the goroutine this node
\* tracks for it; then the KV mutex is released.
CancelScheduled(c) ==
  LET j == call[c].target
      n == At[c] IN
  /\ call[c].pc = "cancel"
  /\ jobLock[j] = NoOne
  /\ sched' = sched \ {j}
  /\ Goto(n, j, "idle")
  /\ DeleteJobOk(c, "canceled")
  /\ snap' = [snap EXCEPT ![c] = NoRecords]
  /\ kvLock' = NoOne
  /\ UNCHANGED <<up, created, kvExists, kv, files, memVars, jobLock, cbLock>>

\* Mutation: the archive of a finished job is forgotten.
DeleteDumpForgotten(c) ==
  /\ call[c].pc = "remove"
  /\ Become(c, [call[c] EXCEPT !.pc = "write"])
  /\ UNCHANGED <<up, created, sched, kvExists, kv, files, memVars, wpc, snap, lockVars>>

\* DeleteDump removes the directory of the archive, if the record has a
\* location; an error is logged and the deletion goes on.
DeleteDump(c) ==
  LET j == call[c].target IN
  /\ call[c].pc = "remove"
  /\ \/ snap[c][j] = "success" /\ files' = files \ {j}
     \/ snap[c][j] = "success" /\ "remove" \in Faults /\ UNCHANGED files
     \/ snap[c][j] # "success" /\ UNCHANGED files
  /\ Become(c, [call[c] EXCEPT !.pc = "write"])
  /\ UNCHANGED <<up, created, sched, kvExists, kv, memVars, wpc, snap, lockVars>>

\* Mutation: DeleteJob keeps the KV mutex.
DeleteJobWriteNoUnlock(c) ==
  /\ call[c].pc = "write"
  /\ kv' = [snap[c] EXCEPT ![call[c].target] = "none"]
  /\ DeleteJobOk(c, "ok")
  /\ UNCHANGED <<up, created, sched, kvExists, files, memVars, wpc, snap, lockVars>>

\* DeleteJob stores the jobs map without the job and releases the mutex.
DeleteJobWrite(c) ==
  /\ call[c].pc = "write"
  /\ \/ /\ kv' = [snap[c] EXCEPT ![call[c].target] = "none"]
        /\ DeleteJobOk(c, "ok")
     \/ /\ "kvset" \in Faults
        /\ Answer(c, "error")
        /\ UNCHANGED kv
  /\ snap' = [snap EXCEPT ![c] = NoRecords]
  /\ kvLock' = NoOne
  /\ UNCHANGED <<up, created, sched, kvExists, files, memVars, wpc, jobLock, cbLock>>

\* DeleteAllJobs removes the whole dump directory at the end; a failing
\* removal may have deleted some of the archives.
RemoveDumpDirectory(c) ==
  /\ call[c].pc = "rmdir"
  /\ \/ files' = {} /\ Answer(c, "ok")
     \/ "remove" \in Faults /\ files' \in SUBSET files /\ Answer(c, "error")
  /\ UNCHANGED <<up, created, sched, kvExists, kv, memVars, wpc, snap, lockVars>>

(***************************************************************************)
(* Nodes come and go.                                                      *)
(***************************************************************************)

\* The process of the plugin on node n dies (a crash, or the server stops it
\* after OnDeactivate, which does not wait for job goroutines).  Its memory
\* and goroutines are gone.  The cluster mutexes it held are no longer
\* refreshed and expire; nobody can take them before that, so the expiry is
\* part of this step.
Crash(n) ==
  LET Here == {<<n, j>> : j \in Jobs} \cup {c \in Callers : At[c] = n} IN
  /\ "crash" \in Faults
  /\ up[n]
  /\ up' = [up EXCEPT ![n] = FALSE]
  /\ home' = [j \in Jobs |-> IF home[j] = n THEN NoOne ELSE home[j]]
  /\ wpc' = [wpc EXCEPT ![n] = [j \in Jobs |-> "idle"]]
  /\ call' = [c \in Callers |-> IF At[c] = n THEN IdleCall ELSE call[c]]
  /\ snap' = [a \in Actors |-> IF a \in Here THEN NoRecords ELSE snap[a]]
  /\ kvLock' = IF kvLock \in Here THEN NoOne ELSE kvLock
  /\ jobLock' = [j \in Jobs |-> IF jobLock[j] = n THEN NoOne ELSE jobLock[j]]
  /\ cbLock' = [cbLock EXCEPT ![n] = NoOne]
  /\ UNCHANGED <<storeVars, obj>>

\* OnActivate starts the scheduler, which picks up every metadata entry.
Activate(n) ==
  /\ ~up[n]
  /\ up' = [up EXCEPT ![n] = TRUE]
  /\ TrackScheduled(n)
  /\ UNCHANGED <<storeVars, memVars, call, snap, lockVars>>

(***************************************************************************)
(* Next-state relation.                                                    *)
(***************************************************************************)
JobStep(n, j) ==
  \/ RunJob(n, j)        \/ StartCallback(n, j)  \/ UpdateJobLock(n, j)
  \/ UpdateJobWrite(n, j) \/ CreateDump(n, j)    \/ EndRun(n, j)

Request(c) ==
  \/ CreateJob(c)
  \/ DeleteJob(c)
  \/ \E o \in Readers : GetScheduled(c, o) \/ GetScheduledFails(c, o)

\* A handler that has started goes on.
CallStep(c) ==
  \/ GetFinished(c)     \/ DeleteNext(c)  \/ DeleteJobLock(c)
  \/ CancelScheduled(c) \/ DeleteDump(c)  \/ DeleteJobWrite(c)
  \/ RemoveDumpDirectory(c) \/ ReadArchive(c) \/ Return(c)

Next ==
  \/ \E n \in Nodes, j \in Jobs : JobStep(n, j)
  \/ \E c \in Callers : Request(c) \/ CallStep(c) \/ ContextDone(c)
  \/ \E n \in Nodes : Poll(n) \/ Crash(n) \/ Activate(n)

Spec == Init /\ [][Next]_vars

(***************************************************************************)
(* Fairness.  Goroutines keep running; a goroutine that waits for a mutex  *)
(* retries, so it gets the mutex if it is free again and again.  Requests, *)
(* faults, polls and restarts are never owed.                              *)
(***************************************************************************)
Fairness ==
  /\ \A n \in Nodes, j \in Jobs :
       /\ SF_vars(RunJob(n, j)) /\ SF_vars(StartCallback(n, j))
       /\ SF_vars(UpdateJobLock(n, j))
       /\ WF_vars(UpdateJobWrite(n, j)) /\ WF_vars(CreateDump(n, j))
       /\ WF_vars(EndRun(n, j))
  /\ \A c \in Callers :
       /\ SF_vars(GetFinished(c)) /\ SF_vars(DeleteJobLock(c))
       /\ SF_vars(CancelScheduled(c))
       /\ WF_vars(DeleteNext(c)) /\ WF_vars(DeleteDump(c))
       /\ WF_vars(DeleteJobWrite(c)) /\ WF_vars(RemoveDumpDirectory(c))
       /\ WF_vars(ReadArchive(c)) /\ WF_vars(Return(c))

FairSpec == Spec /\ Fairness

(***************************************************************************)
(* Properties.                                                             *)
(***************************************************************************)
Running  == WorkerPC \ {"idle", "timer"}
Callback == Running \ {"exec"}

\* The jobs map in the hands of whoever is inside the critical section of
\* lockJobKVMutex is the stored one, and nobody else is in it: what is
\* written back never carries a stale record of another job.
ReadModifyWrite ==
  /\ \A n \in Nodes, j \in Jobs :
       /\ wpc[n][j] \in {"set1", "set2"} <=> kvLock = <<n, j>>
       /\ wpc[n][j] \in {"set1", "set2"} => snap[<<n, j>>] = kv
  /\ \A c \in Callers :
       /\ call[c].pc \in {"cancel", "remove", "write"} <=> kvLock = c
       /\ call[c].pc \in {"cancel", "remove", "write"} => snap[c] = kv

\* One goroutine of the cluster runs a job, under the mutexes of the
\* scheduler, while the metadata entry of the job is still there.
OneRunner ==
  /\ \A n \in Nodes, j \in Jobs :
       /\ wpc[n][j] \in Running <=> jobLock[j] = n
       /\ wpc[n][j] \in Callback <=> cbLock[n] = j
       /\ wpc[n][j] \in Running => j \in sched
       /\ wpc[n][j] \in Callback \ {"end"} => home[j] = n

\* A job is known only after CreateJob has handed out its identifier, and
\* the node that did so tracks it for as long as its metadata entry exists.
KnownJobs ==
  /\ sched \subseteq created
  /\ \A j \in Jobs : kv[j] # "none" => j \in created
  /\ \A j \in Jobs, n \in Nodes :
       home[j] = n => /\ j \in created
                      /\ j \in sched => wpc[n][j] # "idle"

\* Where the callback of a job stands and what its record may say: the
\* callback runs once, so the record cannot have an outcome before it.
Progress ==
  \A n \in Nodes, j \in Jobs :
    /\ j \notin created => obj[j] = "pending"
    /\ home[j] = n /\ wpc[n][j] \in {"timer", "exec"} /\ j \in sched
         => obj[j] = "pending" /\ kv[j] = "none"
    /\ wpc[n][j] \in {"upd1", "set1"} => obj[j] = "in_progress" /\ kv[j] = "none"
    /\ wpc[n][j] = "dump" => obj[j] = "in_progress" /\ kv[j] \notin Terminal
    /\ wpc[n][j] \in {"upd2", "set2"} => obj[j] \in Terminal /\ kv[j] \notin Terminal

\* A record with an outcome repeats the outcome of the only callback.
Outcome == \A j \in Jobs : kv[j] \in Terminal => kv[j] = obj[j]

\* The inductive invariant.
IInv == TypeOK /\ ReadModifyWrite /\ OneRunner /\ KnownJobs /\ Progress /\ Outcome

\* No step changes the records of two jobs: an update or a deletion of one
\* job never undoes what happened to another one in the meantime, although
\* UpdateJob and DeleteJob store the whole map (job.go:36, 161, 233).
RecordsIsolated ==
  [][\A j, k \in Jobs : kv'[j] # kv[j] /\ kv'[k] # kv[k] => j = k]_vars

\* A record that says success or error is never overwritten; it can only be
\* deleted.  In particular no restart, poll or second node runs a finished
\* job again (job.go:56, 74, 82).
OutcomeIsFinal ==
  [][\A j \in Jobs : kv[j] \in Terminal => kv'[j] \in {kv[j], "none"}]_vars

\* The registry of jobs an administrator sees is one registry, although it
\* is kept in two places and worked on by the whole cluster: an identifier is
\* used once, a job that is gone never comes back, and whatever is shown as
\* its result is the one outcome its only callback had (job.go:49, 103).
VisibleStatus ==
  [j \in Jobs |-> LET s == Merge(sched, kv)[j] IN IF s = "none" THEN "absent" ELSE s]

Registry == INSTANCE JobRegistry WITH
  used    <- created,
  visible <- VisibleStatus,
  outcome <- [j \in Jobs |-> IF obj[j] \in Terminal THEN obj[j] ELSE "none"]

ImplementsRegistry == Registry!Spec

\* A job shown as success can be downloaded: its archive is in the file
\* store, or a DeleteJob of this job is about to remove the record too.
DumpBacked ==
  \A j \in Jobs : kv[j] = "success" =>
    j \in files \/ \E c \in Callers : call[c].pc = "write" /\ call[c].target = j

\* No archive is left behind without a record through which an administrator
\* could delete it, except while its job is about to write that record.
NoOrphanDump ==
  \A j \in files :
    kv[j] = "success" \/ \E n \in Nodes : wpc[n][j] \in {"upd2", "set2"}

\* Every job that is scheduled gets an outcome that is stored.
JobFinishes == \A j \in Jobs : (j \in sched) ~> (kv[j] \in Terminal)

\* A job that is not in the stored map is handed over to the scheduler, which
\* deletes it (job.go:180-184).  The code does not keep this: DeleteJob still
\* holds the KV mutex while scheduler.Cancel waits for a callback that waits
\* for the KV mutex.
CancelCompletes ==
  \A j \in Jobs :
    (\E c \in Callers : call[c].pc = "cancel" /\ call[c].target = j)
      ~> (j \notin sched)

=============================================================================
