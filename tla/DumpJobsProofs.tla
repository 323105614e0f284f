--------------------------- MODULE DumpJobsProofs ---------------------------
(***************************************************************************)
(* Proofs about DumpJobs, for any number of nodes, jobs and handlers, all  *)
(* requests and all faults.                                                *)
(***************************************************************************)
EXTENDS DumpJobs, TLAPS

(***************************************************************************)
(* Typing.                                                                 *)
(***************************************************************************)

\* What Goto does: one goroutine moves, the others stay where they are.
LEMMA GotoMoves ==
  ASSUME TypeOK, NEW n \in Nodes, NEW j \in Jobs, NEW w \in WorkerPC, Goto(n, j, w)
  PROVE  /\ wpc' \in [Nodes -> [Jobs -> WorkerPC]]
         /\ \A m \in Nodes, k \in Jobs :
              wpc'[m][k] = IF m = n /\ k = j THEN w ELSE wpc[m][k]
  BY DEF TypeOK, Goto

\* The jobs a node tracks after TrackScheduled.
LEMMA TrackMoves ==
  ASSUME TypeOK, NEW n \in Nodes, TrackScheduled(n)
  PROVE  /\ wpc' \in [Nodes -> [Jobs -> WorkerPC]]
         /\ \A m \in Nodes, k \in Jobs :
              wpc'[m][k] = IF m = n /\ k \in sched /\ wpc[m][k] = "idle"
                             THEN "timer" ELSE wpc[m][k]
  BY DEF TypeOK, TrackScheduled, WorkerPC

LEMMA NoRecordsType ==
  NoRecords \in [Jobs -> RecordStatus] /\ NoRecords \in [Jobs -> ShownStatus]
  BY DEF NoRecords, RecordStatus, ShownStatus

LEMMA IdleCallType == IdleCall \in Call
  BY NoRecordsType DEF IdleCall, Call, CallPC, AllOps, Replies

LEMMA TypeInit == Init => TypeOK
<1> SUFFICES ASSUME Init PROVE TypeOK
  OBVIOUS
<1>1. /\ wpc \in [Nodes -> [Jobs -> WorkerPC]]
      /\ obj \in [Jobs -> {"pending", "in_progress"} \cup Terminal]
  BY DEF Init, WorkerPC
<1>2. call \in [Callers -> Call] /\ snap \in [Actors -> [Jobs -> RecordStatus]]
  BY NoRecordsType, IdleCallType DEF Init
<1> QED
  BY <1>1, <1>2, NoRecordsType DEF Init, TypeOK

\* The steps of a job goroutine move it to places that exist.
LEMMA TypeJobStepPC ==
  ASSUME TypeOK, NEW n \in Nodes, NEW j \in Jobs, JobStep(n, j)
  PROVE  wpc' \in [Nodes -> [Jobs -> WorkerPC]]
<1>1. \E w \in WorkerPC : Goto(n, j, w)
  BY DEF JobStep, RunJob, StartCallback, UpdateJobLock, UpdateJobWrite, CreateDump,
         EndRun, WorkerPC
<1> QED
  BY <1>1, GotoMoves

LEMMA TypeJobStep ==
  ASSUME TypeOK, Progress, NEW n \in Nodes, NEW j \in Jobs, JobStep(n, j)
  PROVE  TypeOK'
<1> USE TypeJobStepPC DEF TypeOK, storeVars, memVars, lockVars
<1>1. CASE RunJob(n, j)
  BY <1>1 DEF RunJob
<1>2. CASE StartCallback(n, j)
  BY <1>2 DEF StartCallback
<1>a. <<n, j>> \in Actors
  BY DEF Actors
<1>3. CASE UpdateJobLock(n, j)
  BY <1>3, <1>a DEF UpdateJobLock
<1>4. CASE UpdateJobWrite(n, j)
  <2>1. wpc[n][j] \in {"set1", "set2"} => obj[j] \in RecordStatus
    BY DEF Progress, RecordStatus, Terminal
  <2>2. snap[<<n, j>>] \in [Jobs -> RecordStatus]
    BY <1>a
  <2>3. kv' \in [Jobs -> RecordStatus]
    BY <1>4, <2>1, <2>2 DEF UpdateJobWrite
  <2> QED
    BY <1>4, <1>a, <2>3, NoRecordsType DEF UpdateJobWrite
<1>5. CASE CreateDump(n, j)
  BY <1>5 DEF CreateDump, Terminal
<1>6. CASE EndRun(n, j)
  BY <1>6 DEF EndRun
<1> QED
  BY <1>1, <1>2, <1>3, <1>4, <1>5, <1>6 DEF JobStep

\* What Become does: one handler moves, the others stay where they are.
LEMMA BecomeMoves ==
  ASSUME TypeOK, NEW c \in Callers, NEW r \in Call, Become(c, r)
  PROVE  /\ call' \in [Callers -> Call]
         /\ call'[c] = r
         /\ \A d \in Callers \ {c} : call'[d] = call[d]
  BY DEF TypeOK, Become

\* Where a handler at pc p goes next.
Successors(p) ==
  CASE p = "idle"   -> {"done", "list", "lock"}
    [] p = "list"   -> {"done", "next", "read"}
    [] p = "read"   -> {"done"}
    [] p = "next"   -> {"lock", "rmdir"}
    [] p = "lock"   -> {"done", "cancel", "remove"}
    [] p = "remove" -> {"write"}
    [] p \in {"cancel", "write"} -> {"next", "done"}
    [] p = "rmdir"  -> {"done"}
    [] p = "done"   -> {"idle"}

\* Every action of a handler replaces its record by a well-formed one.
LEMMA HandlerMoves ==
  ASSUME TypeOK, NEW c \in Callers, Request(c) \/ CallStep(c) \/ ContextDone(c)
  PROVE  \E r \in Call : Become(c, r) /\ r.pc \in Successors(call[c].pc)
<1> DEFINE Goes(p) == \E r \in Call : Become(c, r) /\ r.pc = p
<1> SUFFICES \E p \in Successors(call[c].pc) : Goes(p)
  OBVIOUS
<1> USE DEF Successors
<1>1. call[c] \in Call /\ kv \in [Jobs -> RecordStatus]
  BY DEF TypeOK
<1>2. ASSUME NEW r \in Replies, Answer(c, r)
      PROVE  Goes("done")
  <2> DEFINE x == [call[c] EXCEPT !.pc = "done", !.reply = r, !.todo = {},
                                  !.listing = NoRecords]
  <2>1. x \in Call /\ x.pc = "done"
    BY <1>1, NoRecordsType DEF Call, CallPC
  <2> QED
    BY <1>2, <2>1 DEF Answer
<1>3. ASSUME NEW p \in CallPC, Become(c, [call[c] EXCEPT !.pc = p])
      PROVE  Goes(p)
  <2> DEFINE x == [call[c] EXCEPT !.pc = p]
  <2>1. x \in Call /\ x.pc = p
    BY <1>1 DEF Call
  <2> QED
    BY <1>3, <2>1
<1>4. ASSUME NEW r \in Replies, DeleteJobOk(c, r)
      PROVE  Goes("next") \/ Goes("done")
  BY <1>2, <1>3, <1>4 DEF DeleteJobOk, CallPC
<1>5. ASSUME NEW S, NEW R \in [Jobs -> RecordStatus]
      PROVE  Merge(S, R) \in [Jobs -> ShownStatus]
  BY DEF Merge, RecordStatus, ShownStatus
<1> HIDE DEF Successors
<1>6. CASE CreateJob(c)
  <2> DEFINE x == [IdleCall EXCEPT !.pc = "done", !.op = "create", !.reply = "ok"]
  <2>1. x \in Call /\ x.pc = "done"
    BY IdleCallType DEF Call, CallPC, AllOps, Replies
  <2>2. Become(c, x) /\ call[c].pc = "idle"
    BY <1>6 DEF CreateJob, Begin
  <2> QED
    BY <2>1, <2>2 DEF Successors
<1>7. CASE DeleteJob(c)
  <2>1. PICK j \in Jobs :
          Become(c, [IdleCall EXCEPT !.pc = "lock", !.op = "delete", !.target = j])
    BY <1>7 DEF DeleteJob
  <2> DEFINE x == [IdleCall EXCEPT !.pc = "lock", !.op = "delete", !.target = j]
  <2>2. x \in Call /\ x.pc = "lock"
    BY IdleCallType DEF Call, CallPC, AllOps
  <2>3. call[c].pc = "idle"
    BY <1>7 DEF DeleteJob, Begin
  <2> QED
    BY <2>1, <2>2, <2>3 DEF Successors
<1>8. ASSUME NEW o \in Readers, GetScheduled(c, o) \/ GetScheduledFails(c, o)
      PROVE  \E p \in Successors(call[c].pc) : Goes(p)
  <2> DEFINE shown == Merge(sched, NoRecords)
             x(t) == [IdleCall EXCEPT !.pc = "list", !.op = o, !.target = t, !.listing = shown]
             y == [IdleCall EXCEPT !.pc = "done", !.op = o, !.reply = "error"]
  <2>1. shown \in [Jobs -> ShownStatus]
    BY <1>5, NoRecordsType
  <2>2. \E t \in Jobs \cup {NoOne} : Become(c, x(t)) \/ Become(c, y)
    BY <1>8 DEF GetScheduled, GetScheduledFails
  <2>3. call[c].pc = "idle"
    BY <1>8 DEF GetScheduled, GetScheduledFails, Begin
  <2> HIDE DEF shown
  <2>4. y \in Call /\ y.pc = "done"
    BY IdleCallType DEF Call, CallPC, AllOps, Readers, Replies
  <2>5. \A t \in Jobs \cup {NoOne} : x(t) \in Call /\ x(t).pc = "list"
    BY <2>1, IdleCallType DEF Call, CallPC, AllOps
  <2> QED
    BY <2>2, <2>3, <2>4, <2>5 DEF Successors
<1>9. CASE GetFinished(c)
  <2> DEFINE all == Merge(Listed(call[c].listing), kv)
             x == [call[c] EXCEPT !.pc = "done", !.reply = "ok", !.listing = all]
             y == [call[c] EXCEPT !.pc = "next", !.todo = Listed(all), !.listing = NoRecords]
             only(j) == [NoRecords EXCEPT ![j] = all[j]]
             z(j) == [call[c] EXCEPT !.pc = "read", !.target = j, !.listing = only(j)]
  <2>1. all \in [Jobs -> ShownStatus]
    BY <1>1, <1>5
  <2>2. Listed(all) \subseteq Jobs /\ Wanted(c, all) \subseteq Jobs
    BY DEF Listed, Wanted
  <2>3. /\ call[c].pc = "list"
        /\ \/ Become(c, x) \/ Become(c, y)
           \/ Answer(c, "error") \/ Answer(c, "missing")
           \/ \E j \in Wanted(c, all) : Become(c, z(j))
    BY <1>9 DEF GetFinished, UseJobs, FindArchive
  <2> HIDE DEF all
  <2>4. x \in Call /\ x.pc = "done"
    BY <1>1, <2>1 DEF Call, CallPC, Replies
  <2>5. y \in Call /\ y.pc = "next"
    BY <1>1, <2>2, NoRecordsType DEF Call, CallPC
  <2>6. \A j \in Wanted(c, all) : only(j) \in [Jobs -> ShownStatus]
    BY <2>1, <2>2, NoRecordsType
  <2> HIDE DEF only
  <2>7. \A j \in Wanted(c, all) : z(j) \in Call /\ z(j).pc = "read"
    BY <1>1, <2>2, <2>6 DEF Call, CallPC
  <2> QED
    BY <1>2, <2>3, <2>4, <2>5, <2>7 DEF Successors, Replies
<1>10. CASE DeleteNext(c)
  <2>1. CASE Become(c, [call[c] EXCEPT !.pc = "rmdir"])
    BY <1>3, <1>10, <2>1 DEF DeleteNext, CallPC, Successors
  <2>2. ASSUME NEW j \in call[c].todo,
               Become(c, [call[c] EXCEPT !.pc = "lock", !.target = j, !.todo = @ \ {j}])
        PROVE  Goes("lock")
    <3> DEFINE x == [call[c] EXCEPT !.pc = "lock", !.target = j, !.todo = @ \ {j}]
    <3>1. x \in Call /\ x.pc = "lock"
      BY <1>1 DEF Call, CallPC
    <3> QED
      BY <2>2, <3>1
  <2> QED
    BY <1>10, <2>1, <2>2 DEF DeleteNext, Successors
<1>11. CASE DeleteJobLock(c)
  BY <1>2, <1>3, <1>11 DEF DeleteJobLock, CallPC, Successors, Replies
<1>12. CASE CancelScheduled(c) \/ DeleteJobWrite(c)
  BY <1>2, <1>4, <1>12 DEF CancelScheduled, DeleteJobWrite, Successors, Replies
<1>13. CASE DeleteDump(c)
  BY <1>3, <1>13 DEF DeleteDump, CallPC, Successors
<1>14. CASE RemoveDumpDirectory(c) \/ ContextDone(c)
  BY <1>2, <1>14 DEF RemoveDumpDirectory, ContextDone, Successors, Replies
<1>15. CASE Return(c)
  BY <1>15, IdleCallType DEF Return, IdleCall, Successors
<1>16. CASE ReadArchive(c)
  BY <1>2, <1>16 DEF ReadArchive, Successors, Replies
<1> QED
  BY <1>6, <1>7, <1>8, <1>9, <1>10, <1>11, <1>12, <1>13, <1>14, <1>15, <1>16
  DEF Request, CallStep

LEMMA HandlerStep ==
  ASSUME TypeOK, NEW c \in Callers, Request(c) \/ CallStep(c) \/ ContextDone(c)
  PROVE  /\ call' \in [Callers -> Call]
         /\ call'[c].pc \in Successors(call[c].pc)
         /\ \A d \in Callers \ {c} : call'[d] = call[d]
  BY HandlerMoves, BecomeMoves

LEMMA TypeCallStep ==
  ASSUME TypeOK, NEW c \in Callers, Request(c) \/ CallStep(c) \/ ContextDone(c)
  PROVE  TypeOK'
<1> USE HandlerStep DEF TypeOK, storeVars, memVars, lockVars
<1>1. c \in Actors
  BY DEF Actors
<1>2. CASE CreateJob(c)
  <2>1. PICK j \in Jobs : Goto(At[c], j, "timer")
    BY <1>2 DEF CreateJob
  <2>2. wpc' \in [Nodes -> [Jobs -> WorkerPC]]
    BY <2>1, GotoMoves, DumpJobsAssumption DEF WorkerPC
  <2>3. home' \in [Jobs -> Nodes \cup {NoOne}]
    BY <1>2, DumpJobsAssumption DEF CreateJob
  <2> QED
    BY <1>2, <2>2, <2>3 DEF CreateJob
<1>3. CASE \/ DeleteJob(c) \/ GetFinished(c) \/ ReadArchive(c) \/ DeleteNext(c) \/ Return(c)
           \/ ContextDone(c)
           \/ \E o \in Readers : GetScheduled(c, o) \/ GetScheduledFails(c, o)
  <2>1. UNCHANGED <<up, storeVars, memVars, wpc, snap, lockVars>>
    BY <1>3 DEF DeleteJob, GetFinished, ReadArchive, DeleteNext, Return, ContextDone, GetScheduled,
                GetScheduledFails
  <2> QED
    BY <2>1
<1>4. CASE DeleteJobLock(c)
  BY <1>1, <1>4 DEF DeleteJobLock
<1>5. CASE CancelScheduled(c)
  <2>1. call[c].target \in Jobs \cup {NoOne}
    BY DEF Call
  <2>2. wpc' \in [Nodes -> [Jobs -> WorkerPC]]
    BY <1>5, <2>1, DumpJobsAssumption DEF CancelScheduled, Goto, WorkerPC
  <2> QED
    BY <1>1, <1>5, <2>2, NoRecordsType DEF CancelScheduled
<1>6. CASE DeleteDump(c)
  BY <1>6 DEF DeleteDump
<1>7. CASE DeleteJobWrite(c)
  <2>1. kv' \in [Jobs -> RecordStatus]
    BY <1>1, <1>7 DEF DeleteJobWrite, RecordStatus
  <2> QED
    BY <1>1, <1>7, <2>1, NoRecordsType DEF DeleteJobWrite
<1>8. CASE RemoveDumpDirectory(c)
  BY <1>8 DEF RemoveDumpDirectory
<1> QED
  BY <1>2, <1>3, <1>4, <1>5, <1>6, <1>7, <1>8 DEF Request, CallStep

LEMMA TypeNodeStep ==
  ASSUME TypeOK, NEW n \in Nodes, Poll(n) \/ Crash(n) \/ Activate(n)
  PROVE  TypeOK'
<1> USE DEF TypeOK, storeVars, memVars, lockVars
<1>1. CASE Poll(n)
  BY <1>1, TrackMoves DEF Poll
<1>2. CASE Crash(n)
  <2>1. wpc' \in [Nodes -> [Jobs -> WorkerPC]]
    BY <1>2 DEF Crash, WorkerPC
  <2>2. call' \in [Callers -> Call] /\ snap' \in [Actors -> [Jobs -> RecordStatus]]
    BY <1>2, IdleCallType, NoRecordsType DEF Crash
  <2> QED
    BY <1>2, <2>1, <2>2 DEF Crash
<1>3. CASE Activate(n)
  BY <1>3, TrackMoves DEF Activate
<1> QED
  BY <1>1, <1>2, <1>3

(***************************************************************************)
(* The critical section of the KV entry.                                   *)
(***************************************************************************)

\* Names of actors do not collide.
LEMMA DistinctActors ==
  /\ \A c \in Callers, n \in Nodes, j \in Jobs : c # <<n, j>>
  /\ \A n \in Nodes, j \in Jobs : <<n, j>> # NoOne /\ <<n, j>> \in Actors
  /\ \A c \in Callers : c # NoOne /\ c \in Actors
  /\ NoOne \notin Nodes \cup Jobs
<1>1. \A n \in Nodes, j \in Jobs : <<n, j>> \in Nodes \X Jobs
  OBVIOUS
<1> QED
  BY <1>1, DumpJobsAssumption DEF Actors

LEMMA ReadModifyWriteJobStep ==
  ASSUME IInv, NEW n \in Nodes, NEW j \in Jobs, JobStep(n, j)
  PROVE  ReadModifyWrite'
<1> USE DistinctActors DEF IInv
<1>1. UNCHANGED call
  BY DEF JobStep, RunJob, StartCallback, UpdateJobLock, UpdateJobWrite, CreateDump, EndRun
<1>2. CASE RunJob(n, j) \/ StartCallback(n, j) \/ CreateDump(n, j) \/ EndRun(n, j)
  <2>1. UNCHANGED <<kv, snap, kvLock>>
    BY <1>2 DEF RunJob, StartCallback, CreateDump, EndRun, storeVars, lockVars
  <2>2. \E w \in WorkerPC \ {"set1", "set2"} :
          Goto(n, j, w) /\ wpc[n][j] \notin {"set1", "set2"}
    BY <1>2 DEF RunJob, StartCallback, CreateDump, EndRun, WorkerPC
  <2> QED
    BY <1>1, <2>1, <2>2, GotoMoves DEF ReadModifyWrite
<1>3. CASE UpdateJobLock(n, j)
  <2>1. CASE kvLock' = kvLock
    <3>1. Goto(n, j, "end") /\ UNCHANGED <<kv, snap>>
      BY <1>3, <2>1 DEF UpdateJobLock, storeVars
    <3> QED
      BY <1>1, <1>3, <2>1, <3>1, GotoMoves DEF ReadModifyWrite, UpdateJobLock, WorkerPC
  <2>2. CASE kvLock' # kvLock
    <3>1. /\ kvLock = NoOne /\ kvLock' = <<n, j>> /\ UNCHANGED kv
          /\ \E w \in {"set1", "set2"} : Goto(n, j, w)
      BY <1>3, <2>2 DEF UpdateJobLock, storeVars
    <3>2. snap' = [snap EXCEPT ![<<n, j>>] = kv]
      BY <1>3, <2>2 DEF UpdateJobLock
    <3>3. DOMAIN snap = Actors
      BY DEF TypeOK
    <3>4. \A a \in Actors : snap'[a] = IF a = <<n, j>> THEN kv ELSE snap[a]
      BY <3>2, <3>3
    <3> QED
      BY <1>1, <3>1, <3>4, GotoMoves DEF ReadModifyWrite, WorkerPC
  <2> QED
    BY <2>1, <2>2
<1>4. CASE UpdateJobWrite(n, j)
  <2>1. kvLock = <<n, j>> /\ kvLock' = NoOne
    BY <1>4 DEF UpdateJobWrite, ReadModifyWrite
  <2>2. \E w \in WorkerPC \ {"set1", "set2"} : Goto(n, j, w)
    BY <1>4 DEF UpdateJobWrite, WorkerPC
  <2> QED
    BY <1>1, <2>1, <2>2, GotoMoves DEF ReadModifyWrite
<1> QED
  BY <1>2, <1>3, <1>4 DEF JobStep

LEMMA ReadModifyWriteCallStep ==
  ASSUME IInv, NEW c \in Callers, Request(c) \/ CallStep(c) \/ ContextDone(c)
  PROVE  ReadModifyWrite'
<1> USE DistinctActors, HandlerStep DEF IInv
<1> DEFINE Inside == {"cancel", "remove", "write"}
\* Most steps neither enter nor leave the critical section.
<1>1. ASSUME UNCHANGED <<kv, snap, kvLock>>,
             \A m \in Nodes, k \in Jobs :
               wpc'[m][k] \in {"set1", "set2"} <=> wpc[m][k] \in {"set1", "set2"},
             call'[c].pc \in Inside <=> call[c].pc \in Inside
      PROVE  ReadModifyWrite'
  BY <1>1 DEF ReadModifyWrite
<1>2. CASE CreateJob(c)
  <2>1. PICK j \in Jobs : Goto(At[c], j, "timer") /\ j \notin created
    BY <1>2 DEF CreateJob
  <2>2. wpc[At[c]][j] \notin {"set1", "set2"}
    BY <2>1, DumpJobsAssumption DEF OneRunner, KnownJobs, Running, WorkerPC
  <2>3. \A m \in Nodes, k \in Jobs :
          wpc'[m][k] \in {"set1", "set2"} <=> wpc[m][k] \in {"set1", "set2"}
    BY <2>1, <2>2, GotoMoves, DumpJobsAssumption DEF WorkerPC
  <2>4. call[c].pc = "idle" /\ UNCHANGED <<kv, snap, kvLock>>
    BY <1>2 DEF CreateJob, Begin, lockVars
  <2>5. call'[c].pc \notin Inside
    BY <2>4 DEF Successors
  <2> QED
    BY <1>1, <2>3, <2>4, <2>5
<1>3. CASE \/ DeleteJob(c) \/ GetFinished(c) \/ ReadArchive(c) \/ DeleteNext(c) \/ Return(c)
           \/ RemoveDumpDirectory(c)
           \/ \E o \in Readers : GetScheduled(c, o) \/ GetScheduledFails(c, o)
  <2>1. /\ UNCHANGED <<kv, snap, kvLock, wpc>>
        /\ call[c].pc \in {"idle", "list", "read", "next", "rmdir", "done"}
    BY <1>3 DEF DeleteJob, GetFinished, ReadArchive, DeleteNext, Return, GetScheduled,
                GetScheduledFails, RemoveDumpDirectory, Begin, storeVars, lockVars
  <2>2. call'[c].pc \notin Inside
    BY <2>1 DEF Successors
  <2> QED
    BY <1>1, <2>1, <2>2
<1>4. ASSUME NEW r, Answer(c, r)
      PROVE  call'[c].pc = "done"
  <2>1. [call[c] EXCEPT !.pc = "done", !.reply = r, !.todo = {}, !.listing = NoRecords].pc = "done"
    BY DEF TypeOK, Call
  <2> QED
    BY <1>4, <2>1 DEF Answer, Become, TypeOK
<1>5. CASE ContextDone(c)
  <2>1. UNCHANGED <<kv, snap, kvLock, wpc>> /\ call[c].pc \in {"list", "lock"}
    BY <1>5 DEF ContextDone, storeVars, lockVars
  <2>2. call'[c].pc = "done"
    BY <1>4, <1>5 DEF ContextDone
  <2> QED
    BY <1>1, <2>1, <2>2
<1>6. CASE DeleteJobLock(c)
  <2>1. CASE kvLock' = kvLock
    <3>1. UNCHANGED <<kv, snap, wpc>> /\ call[c].pc = "lock" /\ Answer(c, "error")
      BY <1>6, <2>1 DEF DeleteJobLock, storeVars
    <3> QED
      BY <1>1, <1>4, <2>1, <3>1
  <2>2. CASE kvLock' # kvLock
    <3>1. /\ kvLock = NoOne /\ kvLock' = c /\ UNCHANGED <<kv, wpc>>
          /\ snap' = [snap EXCEPT ![c] = kv]
          /\ \E p \in Inside : Become(c, [call[c] EXCEPT !.pc = p])
      BY <1>6, <2>2 DEF DeleteJobLock, storeVars
    <3>2. \A a \in Actors : snap'[a] = IF a = c THEN kv ELSE snap[a]
      BY <3>1 DEF TypeOK
    <3>3. call'[c].pc \in Inside
      BY <3>1 DEF TypeOK, Become, Call
    <3> QED
      BY <3>1, <3>2, <3>3 DEF ReadModifyWrite
  <2> QED
    BY <2>1, <2>2
\* The two steps that leave it, and the one inside it.
<1>7. CASE CancelScheduled(c) \/ DeleteJobWrite(c)
  <2>1. /\ kvLock = c /\ kvLock' = NoOne
        /\ call[c].pc \in {"cancel", "write"}
    BY <1>7 DEF CancelScheduled, DeleteJobWrite, ReadModifyWrite
  <2>2. call'[c].pc \notin Inside
    BY <2>1 DEF Successors
  <2>3. \A m \in Nodes, k \in Jobs : wpc'[m][k] \notin {"set1", "set2"}
    <3>0. \A m \in Nodes, k \in Jobs : kvLock # <<m, k>>
      BY <2>1
    <3>1. \A m \in Nodes, k \in Jobs : wpc[m][k] \notin {"set1", "set2"}
      BY <3>0, Zenon DEF ReadModifyWrite
    <3>2. CASE CancelScheduled(c)
      BY <3>1, <3>2, DumpJobsAssumption DEF CancelScheduled, Goto, TypeOK
    <3>3. CASE DeleteJobWrite(c)
      BY <3>1, <3>3 DEF DeleteJobWrite
    <3> QED
      BY <1>7, <3>2, <3>3
  <2> QED
    BY <2>1, <2>2, <2>3 DEF ReadModifyWrite
<1>8. CASE DeleteDump(c)
  <2>1. UNCHANGED <<kv, snap, kvLock, wpc>> /\ call[c].pc = "remove"
    BY <1>8 DEF DeleteDump, lockVars
  <2>2. call'[c].pc \in Inside
    BY <2>1 DEF Successors
  <2> QED
    BY <1>1, <2>1, <2>2
<1> QED
  BY <1>2, <1>3, <1>5, <1>6, <1>7, <1>8 DEF Request, CallStep

LEMMA ReadModifyWriteNodeStep ==
  ASSUME IInv, NEW n \in Nodes, Poll(n) \/ Crash(n) \/ Activate(n)
  PROVE  ReadModifyWrite'
<1> USE DistinctActors DEF IInv
<1>1. CASE Poll(n) \/ Activate(n)
  <2>1. UNCHANGED <<kv, call, snap, kvLock>> /\ TrackScheduled(n)
    BY <1>1 DEF Poll, Activate, storeVars, lockVars
  <2> QED
    BY <2>1, TrackMoves DEF ReadModifyWrite
<1>2. CASE Crash(n)
  <2> DEFINE Here == {<<n, j>> : j \in Jobs} \cup {c \in Callers : At[c] = n}
  <2>1. UNCHANGED kv
    BY <1>2 DEF Crash, storeVars
  <2>2. \A m \in Nodes, k \in Jobs :
          /\ wpc'[m][k] = IF m = n THEN "idle" ELSE wpc[m][k]
          /\ <<m, k>> \in Here <=> m = n
    BY <1>2, DumpJobsAssumption DEF Crash, TypeOK
  <2>3. \A c \in Callers :
          /\ call'[c] = IF At[c] = n THEN IdleCall ELSE call[c]
          /\ c \in Here <=> At[c] = n
    BY <1>2 DEF Crash
  <2>4. /\ kvLock' = IF kvLock \in Here THEN NoOne ELSE kvLock
        /\ \A a \in Actors : snap'[a] = IF a \in Here THEN NoRecords ELSE snap[a]
    BY <1>2 DEF Crash
  <2>5. IdleCall.pc = "idle"
    BY DEF IdleCall
  <2> HIDE DEF Here
  <2>6. ASSUME NEW m \in Nodes, NEW k \in Jobs
        PROVE  /\ wpc'[m][k] \in {"set1", "set2"} <=> kvLock' = <<m, k>>
               /\ wpc'[m][k] \in {"set1", "set2"} => snap'[<<m, k>>] = kv'
    BY <2>1, <2>2, <2>4 DEF ReadModifyWrite
  <2>7. ASSUME NEW c \in Callers
        PROVE  /\ call'[c].pc \in {"cancel", "remove", "write"} <=> kvLock' = c
               /\ call'[c].pc \in {"cancel", "remove", "write"} => snap'[c] = kv'
    BY <2>1, <2>3, <2>4, <2>5 DEF ReadModifyWrite
  <2> QED
    BY <2>6, <2>7 DEF ReadModifyWrite
<1> QED
  BY <1>1, <1>2

(***************************************************************************)
(* Runs of a job and what its record says.                                 *)
(***************************************************************************)
JobInv == OneRunner /\ KnownJobs /\ Progress /\ Outcome

\* Steps that leave the jobs alone.
LEMMA JobInvUnchanged ==
  ASSUME JobInv, UNCHANGED <<created, sched, kv, home, obj, wpc, jobLock, cbLock>>
  PROVE  JobInv'
  BY DEF JobInv, OneRunner, KnownJobs, Progress, Outcome

LEMMA JobInvJobStep ==
  ASSUME IInv, NEW n \in Nodes, NEW j \in Jobs, JobStep(n, j)
  PROVE  JobInv'
<1> USE DEF IInv, JobInv, Running, Callback, WorkerPC, storeVars, memVars, lockVars
<1>0. NoOne \notin Nodes \cup Jobs
  BY DumpJobsAssumption
<1>1. CASE RunJob(n, j)
  <2>1. CASE j \in sched
    <3>1. /\ Goto(n, j, "exec") /\ jobLock[j] = NoOne /\ wpc[n][j] = "timer"
          /\ jobLock' = [jobLock EXCEPT ![j] = n]
          /\ UNCHANGED <<created, sched, kv, home, obj, cbLock>>
      BY <1>1, <2>1 DEF RunJob
    <3>2. \A m \in Nodes, k \in Jobs :
            wpc'[m][k] = IF m = n /\ k = j THEN "exec" ELSE wpc[m][k]
      BY <3>1, GotoMoves
    <3>3. \A k \in Jobs : jobLock'[k] = IF k = j THEN n ELSE jobLock[k]
      BY <3>1 DEF TypeOK
    <3>4. OneRunner'
      BY <1>0, <2>1, <3>1, <3>2, <3>3 DEF OneRunner
    <3>5. KnownJobs' /\ Outcome'
      BY <3>1, <3>2 DEF KnownJobs, Outcome
    <3>6. Progress'
      BY <3>1, <3>2 DEF Progress
    <3> QED
      BY <3>4, <3>5, <3>6
  <2>2. CASE j \notin sched
    <3>1. /\ Goto(n, j, "idle") /\ wpc[n][j] = "timer"
          /\ UNCHANGED <<created, sched, kv, home, obj, jobLock, cbLock>>
      BY <1>1, <2>2 DEF RunJob
    <3>2. \A m \in Nodes, k \in Jobs :
            wpc'[m][k] = IF m = n /\ k = j THEN "idle" ELSE wpc[m][k]
      BY <3>1, GotoMoves
    <3>3. OneRunner'
      BY <3>1, <3>2 DEF OneRunner
    <3>4. KnownJobs' /\ Outcome'
      BY <2>2, <3>1, <3>2 DEF KnownJobs, Outcome
    <3>5. Progress'
      BY <3>1, <3>2 DEF Progress
    <3> QED
      BY <3>3, <3>4, <3>5
  <2> QED
    BY <2>1, <2>2
<1>2. CASE StartCallback(n, j)
  <2>1. /\ wpc[n][j] = "exec" /\ cbLock[n] = NoOne /\ cbLock' = [cbLock EXCEPT ![n] = j]
        /\ UNCHANGED <<created, sched, kv, home, jobLock>>
    BY <1>2 DEF StartCallback
  <2>2. \A m \in Nodes : cbLock'[m] = IF m = n THEN j ELSE cbLock[m]
    BY <2>1 DEF TypeOK
  <2>3. CASE home[j] = n
    <3>1. Goto(n, j, "upd1") /\ obj' = [obj EXCEPT ![j] = "in_progress"]
      BY <1>2, <2>3 DEF StartCallback
    <3>2. \A m \in Nodes, k \in Jobs :
            wpc'[m][k] = IF m = n /\ k = j THEN "upd1" ELSE wpc[m][k]
      BY <3>1, GotoMoves
    <3>3. \A k \in Jobs : obj'[k] = IF k = j THEN "in_progress" ELSE obj[k]
      BY <3>1 DEF TypeOK
    <3>4. j \in sched /\ j \in created /\ kv[j] = "none"
      BY <2>1, <2>3 DEF OneRunner, KnownJobs, Progress
    <3>5. \A m \in Nodes \ {n} : wpc[m][j] \notin Running /\ home[j] # m
      BY <2>1, <2>3 DEF OneRunner
    <3>6. OneRunner'
      BY <1>0, <2>1, <2>2, <2>3, <3>2 DEF OneRunner
    <3>7. KnownJobs' /\ Outcome'
      BY <2>1, <3>2, <3>3, <3>4 DEF KnownJobs, Outcome, Terminal
    <3>8. Progress'
      BY <2>1, <3>2, <3>3, <3>4, <3>5 DEF Progress
    <3> QED
      BY <3>6, <3>7, <3>8
  <2>4. CASE home[j] # n
    <3>1. Goto(n, j, "end") /\ UNCHANGED obj
      BY <1>2, <2>4 DEF StartCallback
    <3>2. \A m \in Nodes, k \in Jobs :
            wpc'[m][k] = IF m = n /\ k = j THEN "end" ELSE wpc[m][k]
      BY <3>1, GotoMoves
    <3>3. OneRunner'
      BY <1>0, <2>1, <2>2, <3>2 DEF OneRunner
    <3>4. KnownJobs' /\ Outcome'
      BY <2>1, <3>1, <3>2 DEF KnownJobs, Outcome
    <3>5. Progress'
      BY <2>1, <3>1, <3>2 DEF Progress
    <3> QED
      BY <3>3, <3>4, <3>5
  <2> QED
    BY <2>3, <2>4
<1>3. CASE UpdateJobLock(n, j)
  <2>1. /\ wpc[n][j] \in {"upd1", "upd2"}
        /\ UNCHANGED <<created, sched, kv, home, obj, jobLock, cbLock>>
    BY <1>3 DEF UpdateJobLock
  <2>2. PICK w \in {IF wpc[n][j] = "upd1" THEN "set1" ELSE "set2", "end"} : Goto(n, j, w)
    BY <1>3 DEF UpdateJobLock
  <2>3. \A m \in Nodes, k \in Jobs :
          wpc'[m][k] = IF m = n /\ k = j THEN w ELSE wpc[m][k]
    BY <2>2, GotoMoves
  <2>4. OneRunner'
    BY <2>1, <2>3 DEF OneRunner
  <2>5. KnownJobs' /\ Outcome'
    BY <2>1, <2>3 DEF KnownJobs, Outcome
  <2>6. Progress'
    BY <2>1, <2>3 DEF Progress
  <2> QED
    BY <2>4, <2>5, <2>6
<1>4. CASE UpdateJobWrite(n, j)
  <2>1. /\ wpc[n][j] \in {"set1", "set2"} /\ snap[<<n, j>>] = kv
        /\ UNCHANGED <<created, sched, home, obj, jobLock, cbLock>>
    BY <1>4 DEF UpdateJobWrite, ReadModifyWrite
  <2>2. PICK w \in {IF wpc[n][j] = "set1" THEN "dump" ELSE "end", "end"} :
          /\ Goto(n, j, w)
          /\ \/ kv' = kv
             \/ kv' = [kv EXCEPT ![j] = obj[j]]
    BY <1>4, <2>1 DEF UpdateJobWrite
  <2>3. \A m \in Nodes, k \in Jobs :
          wpc'[m][k] = IF m = n /\ k = j THEN w ELSE wpc[m][k]
    BY <2>2, GotoMoves
  <2>4. \A k \in Jobs : kv'[k] = kv[k] \/ (k = j /\ kv'[j] = obj[j])
    <3>1. DOMAIN kv = Jobs
      BY DEF TypeOK
    <3> QED
      BY <2>2, <3>1
  <2>5. home[j] = n /\ j \in sched /\ j \in created
    BY <2>1 DEF OneRunner, KnownJobs
  <2>6. OneRunner'
    BY <2>1, <2>3 DEF OneRunner
  <2>7. KnownJobs' /\ Outcome'
    BY <2>1, <2>3, <2>4, <2>5 DEF KnownJobs, Outcome
  <2>8. \A m \in Nodes \ {n} : wpc[m][j] \notin Running /\ home[j] # m
    BY <2>1, <2>5 DEF OneRunner
  <2>9. Progress'
    BY <2>1, <2>3, <2>4, <2>5, <2>8 DEF Progress, Terminal
  <2> QED
    BY <2>6, <2>7, <2>9
<1>5. CASE CreateDump(n, j)
  <2>1. /\ wpc[n][j] = "dump" /\ Goto(n, j, "upd2")
        /\ UNCHANGED <<created, sched, kv, home, jobLock, cbLock>>
    BY <1>5 DEF CreateDump
  <2>2. PICK o \in Terminal : obj' = [obj EXCEPT ![j] = o]
    BY <1>5 DEF CreateDump, Terminal
  <2>3. \A m \in Nodes, k \in Jobs :
          wpc'[m][k] = IF m = n /\ k = j THEN "upd2" ELSE wpc[m][k]
    BY <2>1, GotoMoves
  <2>4. \A k \in Jobs : obj'[k] = IF k = j THEN o ELSE obj[k]
    BY <2>2 DEF TypeOK
  <2>5. home[j] = n /\ j \in sched /\ j \in created
    BY <2>1 DEF OneRunner, KnownJobs
  <2>6. \A m \in Nodes \ {n} : wpc[m][j] \notin Running /\ home[j] # m
    BY <2>1, <2>5 DEF OneRunner
  <2>7. OneRunner'
    BY <2>1, <2>3 DEF OneRunner
  <2>8. KnownJobs' /\ Outcome'
    BY <2>1, <2>3, <2>4 DEF KnownJobs, Outcome, Progress
  <2>9. Progress'
    BY <2>1, <2>3, <2>4, <2>5, <2>6 DEF Progress
  <2> QED
    BY <2>7, <2>8, <2>9
<1>6. CASE EndRun(n, j)
  <2>1. /\ wpc[n][j] = "end" /\ Goto(n, j, "idle") /\ sched' = sched \ {j}
        /\ jobLock' = [jobLock EXCEPT ![j] = NoOne]
        /\ cbLock' = [cbLock EXCEPT ![n] = NoOne]
        /\ UNCHANGED <<created, kv, home, obj>>
    BY <1>6 DEF EndRun
  <2>2. \A m \in Nodes, k \in Jobs :
          wpc'[m][k] = IF m = n /\ k = j THEN "idle" ELSE wpc[m][k]
    BY <2>1, GotoMoves
  <2>3. /\ \A k \in Jobs : jobLock'[k] = IF k = j THEN NoOne ELSE jobLock[k]
        /\ \A m \in Nodes : cbLock'[m] = IF m = n THEN NoOne ELSE cbLock[m]
    BY <2>1 DEF TypeOK
  <2>4. \A m \in Nodes : wpc'[m][j] \notin Running
    BY <2>1, <2>2 DEF OneRunner
  <2>5. OneRunner'
    BY <1>0, <2>1, <2>2, <2>3, <2>4 DEF OneRunner
  <2>6. KnownJobs' /\ Outcome'
    BY <2>1, <2>2 DEF KnownJobs, Outcome
  <2>7. Progress'
    BY <2>1, <2>2 DEF Progress
  <2> QED
    BY <2>5, <2>6, <2>7
<1> QED
  BY <1>1, <1>2, <1>3, <1>4, <1>5, <1>6 DEF JobStep

LEMMA JobInvCallStep ==
  ASSUME IInv, NEW c \in Callers, Request(c) \/ CallStep(c) \/ ContextDone(c)
  PROVE  JobInv'
<1> USE DEF IInv, JobInv, Running, Callback, WorkerPC
<1>0. /\ NoOne \notin Nodes \cup Jobs
      /\ At[c] \in Nodes
  BY DumpJobsAssumption
<1>1. CASE CreateJob(c)
  <2>1. PICK j \in Jobs \ created :
          /\ created' = created \cup {j} /\ sched' = sched \cup {j}
          /\ home' = [home EXCEPT ![j] = At[c]]
          /\ obj' = [obj EXCEPT ![j] = "pending"]
          /\ Goto(At[c], j, "timer")
    BY <1>1 DEF CreateJob
  <2>2. UNCHANGED <<kv, jobLock, cbLock>>
    BY <1>1 DEF CreateJob, lockVars
  <2>3. \A m \in Nodes, k \in Jobs :
          wpc'[m][k] = IF m = At[c] /\ k = j THEN "timer" ELSE wpc[m][k]
    BY <1>0, <2>1, GotoMoves
  <2>4. \A k \in Jobs : /\ home'[k] = IF k = j THEN At[c] ELSE home[k]
                        /\ obj'[k] = IF k = j THEN "pending" ELSE obj[k]
    BY <2>1 DEF TypeOK
  <2>5. kv[j] = "none" /\ \A m \in Nodes : wpc[m][j] \notin Running /\ home[j] # m
    BY <2>1 DEF OneRunner, KnownJobs
  <2>6. OneRunner'
    BY <2>1, <2>2, <2>3, <2>4, <2>5 DEF OneRunner
  <2>7. KnownJobs'
    BY <2>1, <2>2, <2>3, <2>4, <2>5 DEF KnownJobs
  <2>8. Progress' /\ Outcome'
    BY <2>1, <2>2, <2>3, <2>4, <2>5 DEF Progress, Outcome, Terminal
  <2> QED
    BY <2>6, <2>7, <2>8
<1>2. CASE \/ DeleteJob(c) \/ GetFinished(c) \/ ReadArchive(c) \/ DeleteNext(c) \/ Return(c)
           \/ RemoveDumpDirectory(c) \/ ContextDone(c) \/ DeleteJobLock(c) \/ DeleteDump(c)
           \/ \E o \in Readers : GetScheduled(c, o) \/ GetScheduledFails(c, o)
  BY <1>2, JobInvUnchanged
  DEF DeleteJob, GetFinished, ReadArchive, DeleteNext, Return, GetScheduled, GetScheduledFails,
      RemoveDumpDirectory, ContextDone, DeleteJobLock, DeleteDump, storeVars, memVars, lockVars
<1>3. CASE CancelScheduled(c)
  <2> DEFINE j == call[c].target
             n == At[c]
  <2>1. /\ jobLock[j] = NoOne /\ sched' = sched \ {j} /\ Goto(n, j, "idle")
        /\ UNCHANGED <<created, kv, home, obj, jobLock, cbLock>>
    BY <1>3 DEF CancelScheduled, memVars
  <2> HIDE DEF j, n
  <2>2. CASE j \notin Jobs
    <3>1. UNCHANGED <<sched, wpc>>
      BY <2>1, <2>2 DEF TypeOK, Goto, n
    <3> QED
      BY <2>1, <3>1, JobInvUnchanged
  <2>3. CASE j \in Jobs
    <3>1. \A m \in Nodes, k \in Jobs :
            wpc'[m][k] = IF m = n /\ k = j THEN "idle" ELSE wpc[m][k]
      BY <1>0, <2>1, <2>3, GotoMoves DEF n
    <3>2. \A m \in Nodes : wpc[m][j] \notin Running
      BY <1>0, <2>1, <2>3 DEF OneRunner
    <3>3. OneRunner'
      BY <2>1, <3>1, <3>2 DEF OneRunner
    <3>4. KnownJobs' /\ Progress' /\ Outcome'
      BY <2>1, <3>1 DEF KnownJobs, Progress, Outcome
    <3> QED
      BY <3>3, <3>4
  <2> QED
    BY <2>2, <2>3
<1>4. CASE DeleteJobWrite(c)
  <2>1. /\ call[c].pc = "write" /\ snap[c] = kv
        /\ UNCHANGED <<created, sched, home, obj, wpc, jobLock, cbLock>>
    BY <1>4 DEF DeleteJobWrite, ReadModifyWrite, memVars
  <2>2. DOMAIN kv = Jobs
    BY DEF TypeOK
  <2>3. \A k \in Jobs : kv'[k] \in {kv[k], "none"}
    BY <1>4, <2>1, <2>2 DEF DeleteJobWrite
  <2>4. OneRunner' /\ KnownJobs'
    BY <2>1, <2>3 DEF OneRunner, KnownJobs
  <2>5. Progress' /\ Outcome'
    BY <2>1, <2>3 DEF Progress, Outcome, Terminal
  <2> QED
    BY <2>4, <2>5
<1> QED
  BY <1>1, <1>2, <1>3, <1>4 DEF Request, CallStep

LEMMA JobInvNodeStep ==
  ASSUME IInv, NEW n \in Nodes, Poll(n) \/ Crash(n) \/ Activate(n)
  PROVE  JobInv'
<1> USE DEF IInv, JobInv, Running, Callback, WorkerPC
<1>0. NoOne \notin Nodes \cup Jobs
  BY DumpJobsAssumption
<1>1. CASE Poll(n) \/ Activate(n)
  <2>1. /\ UNCHANGED <<created, sched, kv, home, obj, jobLock, cbLock>>
        /\ TrackScheduled(n)
    BY <1>1 DEF Poll, Activate, storeVars, memVars, lockVars
  <2>2. \A m \in Nodes, k \in Jobs :
          wpc'[m][k] = IF m = n /\ k \in sched /\ wpc[m][k] = "idle"
                         THEN "timer" ELSE wpc[m][k]
    BY <2>1, TrackMoves
  <2>3. OneRunner'
    BY <2>1, <2>2 DEF OneRunner
  <2>4. KnownJobs' /\ Outcome'
    BY <2>1, <2>2 DEF KnownJobs, Outcome
  <2>5. Progress'
    BY <2>1, <2>2 DEF Progress, KnownJobs
  <2> QED
    BY <2>3, <2>4, <2>5
<1>2. CASE Crash(n)
  <2>1. UNCHANGED <<created, sched, kv, obj>>
    BY <1>2 DEF Crash, storeVars
  <2>2. /\ \A m \in Nodes, k \in Jobs :
             wpc'[m][k] = IF m = n THEN "idle" ELSE wpc[m][k]
        /\ \A k \in Jobs : /\ home'[k] = IF home[k] = n THEN NoOne ELSE home[k]
                           /\ jobLock'[k] = IF jobLock[k] = n THEN NoOne ELSE jobLock[k]
        /\ \A m \in Nodes : cbLock'[m] = IF m = n THEN NoOne ELSE cbLock[m]
    BY <1>2 DEF Crash, TypeOK
  <2>3. OneRunner'
    BY <1>0, <2>1, <2>2 DEF OneRunner
  <2>4. KnownJobs' /\ Outcome'
    BY <1>0, <2>1, <2>2 DEF KnownJobs, Outcome
  <2>5. Progress'
    BY <1>0, <2>1, <2>2 DEF Progress
  <2> QED
    BY <2>3, <2>4, <2>5
<1> QED
  BY <1>1, <1>2

(***************************************************************************)
(* The theorems.                                                           *)
(***************************************************************************)

\* Any step of the system, by its actor.
LEMMA Steps ==
  ASSUME Next
  PROVE  \/ \E n \in Nodes, j \in Jobs : JobStep(n, j)
         \/ \E c \in Callers : Request(c) \/ CallStep(c) \/ ContextDone(c)
         \/ \E n \in Nodes : Poll(n) \/ Crash(n) \/ Activate(n)
  BY DEF Next

\* The inductive invariant holds in every reachable state.
THEOREM Invariance == Spec => []IInv
<1>1. Init => IInv
  <2> SUFFICES ASSUME Init PROVE IInv
    OBVIOUS
  <2>1. TypeOK
    BY TypeInit
  <2>2. \A j \in Jobs : kv[j] = "none" /\ \A n \in Nodes : wpc[n][j] = "idle"
    BY DEF Init, NoRecords
  <2>3. ReadModifyWrite
    BY <2>2, DistinctActors DEF Init, ReadModifyWrite, IdleCall
  <2>4. OneRunner
    BY <2>2, DumpJobsAssumption DEF Init, OneRunner, Running, Callback
  <2>5. KnownJobs /\ Progress /\ Outcome
    BY <2>2, DumpJobsAssumption DEF Init, KnownJobs, Progress, Outcome, Terminal
  <2> QED
    BY <2>1, <2>3, <2>4, <2>5 DEF IInv
<1>2. IInv /\ [Next]_vars => IInv'
  <2> SUFFICES ASSUME IInv, [Next]_vars PROVE IInv'
    OBVIOUS
  <2>1. ASSUME NEW n \in Nodes, NEW j \in Jobs, JobStep(n, j)
        PROVE  IInv'
    BY <2>1, TypeJobStep, ReadModifyWriteJobStep, JobInvJobStep DEF IInv, JobInv
  <2>2. ASSUME NEW c \in Callers, Request(c) \/ CallStep(c) \/ ContextDone(c)
        PROVE  IInv'
    BY <2>2, TypeCallStep, ReadModifyWriteCallStep, JobInvCallStep DEF IInv, JobInv
  <2>3. ASSUME NEW n \in Nodes, Poll(n) \/ Crash(n) \/ Activate(n)
        PROVE  IInv'
    BY <2>3, TypeNodeStep, ReadModifyWriteNodeStep, JobInvNodeStep DEF IInv, JobInv
  <2>4. CASE UNCHANGED vars
    <3>1. TypeOK' /\ ReadModifyWrite'
      BY <2>4 DEF IInv, TypeOK, ReadModifyWrite, vars, storeVars, memVars, lockVars
    <3>2. JobInv'
      BY <2>4, JobInvUnchanged
      DEF IInv, JobInv, vars, storeVars, memVars, lockVars
    <3> QED
      BY <3>1, <3>2 DEF IInv, JobInv
  <2> QED
    BY <2>1, <2>2, <2>3, <2>4, Steps
<1> QED
  BY <1>1, <1>2, PTL DEF Spec

\* How the stored map can change in one step: the one record of the actor
\* inside the critical section, to what that actor makes of it.
LEMMA RecordChange ==
  ASSUME IInv, [Next]_vars
  PROVE  \/ UNCHANGED kv
         \/ \E n \in Nodes, j \in Jobs :
              wpc[n][j] \in {"set1", "set2"} /\ kv' = [kv EXCEPT ![j] = obj[j]]
         \/ \E c \in Callers :
              call[c].pc = "write" /\ kv' = [kv EXCEPT ![call[c].target] = "none"]
<1> USE DEF IInv, ReadModifyWrite, storeVars
<1>1. ASSUME NEW n \in Nodes, NEW j \in Jobs, JobStep(n, j)
      PROVE  \/ UNCHANGED kv
             \/ wpc[n][j] \in {"set1", "set2"} /\ kv' = [kv EXCEPT ![j] = obj[j]]
  BY <1>1 DEF JobStep, RunJob, StartCallback, UpdateJobLock, UpdateJobWrite, CreateDump, EndRun
<1>2. ASSUME NEW c \in Callers, Request(c) \/ CallStep(c) \/ ContextDone(c)
      PROVE  \/ UNCHANGED kv
             \/ call[c].pc = "write" /\ kv' = [kv EXCEPT ![call[c].target] = "none"]
  BY <1>2
  DEF Request, CallStep, CreateJob, DeleteJob, GetScheduled, GetScheduledFails, GetFinished, ReadArchive,
      DeleteNext, DeleteJobLock, CancelScheduled, DeleteDump, DeleteJobWrite,
      RemoveDumpDirectory, Return, ContextDone
<1>3. ASSUME NEW n \in Nodes, Poll(n) \/ Crash(n) \/ Activate(n)
      PROVE  UNCHANGED kv
  BY <1>3 DEF Poll, Crash, Activate
<1>4. CASE UNCHANGED vars
  BY <1>4 DEF vars
<1> QED
  BY <1>1, <1>2, <1>3, <1>4, Steps

\* Lost updates are impossible: no step changes the records of two jobs.
THEOREM RecordsAreIsolated == Spec => RecordsIsolated
<1>1. ASSUME IInv, [Next]_vars
      PROVE  \A j, k \in Jobs : kv'[j] # kv[j] /\ kv'[k] # kv[k] => j = k
  <2>1. DOMAIN kv = Jobs
    BY <1>1 DEF IInv, TypeOK
  <2> QED
    BY <1>1, <2>1, RecordChange
<1> QED
  BY <1>1, Invariance, PTL DEF Spec, RecordsIsolated

\* The outcome of a job is never overwritten.
THEOREM OutcomesAreFinal == Spec => OutcomeIsFinal
<1>1. ASSUME IInv, [Next]_vars
      PROVE  \A j \in Jobs : kv[j] \in Terminal => kv'[j] \in {kv[j], "none"}
  <2>1. DOMAIN kv = Jobs
    BY <1>1 DEF IInv, TypeOK
  <2>2. \A n \in Nodes, j \in Jobs :
          wpc[n][j] \in {"set1", "set2"} => kv[j] \notin Terminal
    BY <1>1 DEF IInv, Progress, Terminal
  <2> QED
    BY <1>1, <2>1, <2>2, RecordChange
<1> QED
  BY <1>1, Invariance, PTL DEF Spec, OutcomeIsFinal

(***************************************************************************)
(* DumpJobs implements JobRegistry.                                        *)
(***************************************************************************)
ShownOutcome == [j \in Jobs |-> IF obj[j] \in Terminal THEN obj[j] ELSE "none"]

LEMMA VisibleStatusIs ==
  \A j \in Jobs :
    VisibleStatus[j] = IF kv[j] # "none" THEN kv[j]
                       ELSE IF j \in sched THEN "pending" ELSE "absent"
  BY DEF VisibleStatus, Merge

\* A step that leaves the scheduler's entries, the stored records and the
\* DumpJobs in memory alone is invisible.
LEMMA InvisibleStep ==
  ASSUME UNCHANGED <<created, sched, kv, obj>>
  PROVE  UNCHANGED Registry!vars
  BY DEF Registry!vars, VisibleStatus, Merge

\* A step that only removes a job from the scheduler's entries or deletes its
\* record withdraws the job.
LEMMA WithdrawStep ==
  ASSUME TypeOK, NEW j \in Jobs, UNCHANGED <<created, obj>>,
         sched' \in {sched, sched \ {j}},
         kv' \in {kv, [kv EXCEPT ![j] = "none"]}
  PROVE  [Registry!Next]_(Registry!vars)
<1>1. \A k \in Jobs \ {j} : VisibleStatus'[k] = VisibleStatus[k]
  BY VisibleStatusIs DEF TypeOK, VisibleStatus, Merge
<1>2. VisibleStatus'[j] \in {VisibleStatus[j], "pending", "absent"}
  BY DEF TypeOK, VisibleStatus, Merge
<1>3. /\ VisibleStatus = [k \in Jobs |-> VisibleStatus[k]]
      /\ VisibleStatus' = [k \in Jobs |-> VisibleStatus'[k]]
  BY DEF VisibleStatus
<1>4. UNCHANGED ShownOutcome
  BY DEF ShownOutcome
<1>5. CASE VisibleStatus'[j] = VisibleStatus[j]
  <2>1. UNCHANGED VisibleStatus
    BY <1>1, <1>3, <1>5
  <2> QED
    BY <1>4, <2>1 DEF Registry!vars, ShownOutcome
<1>6. CASE VisibleStatus'[j] # VisibleStatus[j]
  <2>1. VisibleStatus[j] # "absent"
    BY <1>6 DEF TypeOK, VisibleStatus, Merge, RecordStatus, Terminal
  <2>2. \E s \in {"absent", "pending"} : VisibleStatus' = [VisibleStatus EXCEPT ![j] = s]
    BY <1>1, <1>2, <1>3, <1>6
  <2>3. Registry!Withdraw(j)
    BY <1>4, <2>1, <2>2 DEF Registry!Withdraw, ShownOutcome
  <2> QED
    BY <2>3 DEF Registry!Next
<1> QED
  BY <1>5, <1>6

LEMMA JobStepRefines ==
  ASSUME IInv, NEW n \in Nodes, NEW j \in Jobs, JobStep(n, j)
  PROVE  [Registry!Next]_(Registry!vars)
<1> USE DEF IInv, storeVars, memVars, lockVars
<1>1. CASE RunJob(n, j) \/ UpdateJobLock(n, j)
  BY <1>1, InvisibleStep DEF RunJob, UpdateJobLock
<1>2. CASE StartCallback(n, j)
  <2>1. UNCHANGED <<created, VisibleStatus>>
    BY <1>2 DEF StartCallback, VisibleStatus, Merge
  <2>2. home[j] = n => obj[j] = "pending"
    BY <1>2 DEF StartCallback, OneRunner, Progress, Running, WorkerPC
  <2>3. \A k \in Jobs : obj'[k] = obj[k] \/ (obj[k] = "pending" /\ obj'[k] = "in_progress")
    BY <1>2, <2>2 DEF StartCallback, TypeOK
  <2>4. UNCHANGED ShownOutcome
    BY <2>3 DEF ShownOutcome, Terminal
  <2> QED
    BY <2>1, <2>4 DEF Registry!vars, ShownOutcome
<1>3. CASE UpdateJobWrite(n, j)
  <2>1. /\ wpc[n][j] \in {"set1", "set2"} /\ snap[<<n, j>>] = kv
        /\ UNCHANGED <<created, sched, obj>>
        /\ \/ UNCHANGED kv
           \/ kv' = [kv EXCEPT ![j] = obj[j]]
    BY <1>3 DEF UpdateJobWrite, ReadModifyWrite
  <2>2. CASE UNCHANGED kv
    BY <2>1, <2>2, InvisibleStep
  <2>3. CASE kv' = [kv EXCEPT ![j] = obj[j]]
    <3>1. \A k \in Jobs : kv'[k] = IF k = j THEN obj[j] ELSE kv[k]
      BY <2>3 DEF TypeOK
    <3>2. j \in sched
      BY <2>1 DEF OneRunner, Running, WorkerPC
    <3>3. /\ VisibleStatus = [k \in Jobs |-> VisibleStatus[k]]
          /\ VisibleStatus' = [k \in Jobs |-> VisibleStatus'[k]]
      BY DEF VisibleStatus
    <3>4. obj[j] # "none" /\ obj[j] \in {"in_progress"} \cup Terminal
      BY <2>1 DEF Progress, Terminal
    <3>5. VisibleStatus' = [VisibleStatus EXCEPT ![j] = obj[j]]
      <4>1. \A k \in Jobs : VisibleStatus'[k] = IF k = j THEN obj[j] ELSE VisibleStatus[k]
        BY <2>1, <3>1, <3>4 DEF VisibleStatus, Merge
      <4> QED
        BY <3>3, <4>1
    <3>6. CASE wpc[n][j] = "set1"
      <4>1. VisibleStatus[j] = "pending" /\ obj[j] = "in_progress"
        BY <3>2, <3>6, VisibleStatusIs DEF Progress
      <4>2. Registry!Start(j)
        BY <2>1, <3>5, <4>1 DEF Registry!Start, Terminal
      <4> QED
        BY <4>2 DEF Registry!Next
    <3>7. CASE wpc[n][j] = "set2"
      <4>1. obj[j] \in Terminal /\ kv[j] \notin Terminal
        BY <3>7 DEF Progress
      <4>2. VisibleStatus[j] \in {"pending", "in_progress"}
        BY <3>2, <4>1, VisibleStatusIs DEF TypeOK, RecordStatus
      <4>3. Registry!Publish(j)
        BY <2>1, <3>5, <4>1, <4>2 DEF Registry!Publish, Terminal
      <4> QED
        BY <4>3 DEF Registry!Next
    <3> QED
      BY <2>1, <3>6, <3>7
  <2> QED
    BY <2>1, <2>2, <2>3
<1>4. CASE CreateDump(n, j)
  <2>1. UNCHANGED <<created, VisibleStatus>>
    BY <1>4 DEF CreateDump, VisibleStatus, Merge
  <2>2. PICK o \in Terminal : obj' = [obj EXCEPT ![j] = o]
    BY <1>4 DEF CreateDump, Terminal
  <2>3. /\ obj[j] = "in_progress" /\ kv[j] \notin Terminal /\ j \in sched
        /\ obj \in [Jobs -> {"pending", "in_progress"} \cup Terminal]
    BY <1>4 DEF CreateDump, Progress, OneRunner, Running, WorkerPC, TypeOK
  <2>4. VisibleStatus[j] \in {"pending", "in_progress"}
    BY <2>3, VisibleStatusIs DEF TypeOK, RecordStatus
  <2>5. ShownOutcome' = [ShownOutcome EXCEPT ![j] = o]
    BY <2>2, <2>3 DEF ShownOutcome
  <2>6. ShownOutcome[j] = "none"
    BY <2>3 DEF ShownOutcome, Terminal
  <2>7. Registry!Decide(j)
    BY <2>1, <2>4, <2>5, <2>6 DEF Registry!Decide, Registry!Outcomes, ShownOutcome, Terminal
  <2> QED
    BY <2>7 DEF Registry!Next
<1>5. CASE EndRun(n, j)
  BY <1>5, WithdrawStep DEF EndRun
<1> QED
  BY <1>1, <1>2, <1>3, <1>4, <1>5 DEF JobStep

LEMMA CallStepRefines ==
  ASSUME IInv, NEW c \in Callers, Request(c) \/ CallStep(c) \/ ContextDone(c)
  PROVE  [Registry!Next]_(Registry!vars)
<1> USE DEF IInv, storeVars, memVars, lockVars
<1>1. CASE CreateJob(c)
  <2>1. PICK j \in Jobs \ created :
          /\ created' = created \cup {j} /\ sched' = sched \cup {j}
          /\ obj' = [obj EXCEPT ![j] = "pending"]
    BY <1>1 DEF CreateJob
  <2>2. UNCHANGED kv /\ At[c] \in Nodes
    BY <1>1, DumpJobsAssumption DEF CreateJob
  <2>3. kv[j] = "none" /\ obj[j] = "pending"
    BY <2>1, <2>2 DEF KnownJobs, Progress
  <2>4. UNCHANGED obj
    BY <2>1, <2>3 DEF TypeOK
  <2>5. VisibleStatus' = [VisibleStatus EXCEPT ![j] = "pending"]
    BY <2>1, <2>2, <2>3 DEF VisibleStatus, Merge
  <2>6. Registry!Create(j)
    BY <2>1, <2>4, <2>5 DEF Registry!Create
  <2> QED
    BY <2>6 DEF Registry!Next
<1>2. CASE \/ DeleteJob(c) \/ GetFinished(c) \/ ReadArchive(c) \/ DeleteNext(c) \/ Return(c)
           \/ RemoveDumpDirectory(c) \/ ContextDone(c) \/ DeleteJobLock(c) \/ DeleteDump(c)
           \/ \E o \in Readers : GetScheduled(c, o) \/ GetScheduledFails(c, o)
  BY <1>2, InvisibleStep
  DEF DeleteJob, GetFinished, ReadArchive, DeleteNext, Return, GetScheduled, GetScheduledFails,
      RemoveDumpDirectory, ContextDone, DeleteJobLock, DeleteDump
<1>3. CASE CancelScheduled(c)
  <2> DEFINE j == call[c].target
  <2>1. sched' = sched \ {j} /\ UNCHANGED <<created, kv, obj>>
    BY <1>3 DEF CancelScheduled
  <2>2. CASE j \in Jobs
    BY <2>1, <2>2, WithdrawStep
  <2>3. CASE j \notin Jobs
    BY <2>1, <2>3, InvisibleStep DEF TypeOK
  <2> QED
    BY <2>2, <2>3
<1>4. CASE DeleteJobWrite(c)
  <2> DEFINE j == call[c].target
  <2>1. /\ UNCHANGED <<created, sched, obj>>
        /\ kv' \in {kv, [kv EXCEPT ![j] = "none"]}
    BY <1>4 DEF DeleteJobWrite, ReadModifyWrite
  <2>2. CASE j \in Jobs
    BY <2>1, <2>2, WithdrawStep DEF TypeOK
  <2>3. CASE j \notin Jobs
    BY <2>1, <2>3, InvisibleStep DEF TypeOK
  <2> QED
    BY <2>2, <2>3
<1> QED
  BY <1>1, <1>2, <1>3, <1>4 DEF Request, CallStep

\* The registry of dump jobs behaves as JobRegistry says.
THEOREM RegistryIsImplemented == Spec => ImplementsRegistry
<1>1. Init => Registry!Init
  <2> SUFFICES ASSUME Init PROVE Registry!Init
    OBVIOUS
  <2>1. VisibleStatus = [j \in Jobs |-> "absent"]
    BY DEF Init, NoRecords, VisibleStatus, Merge
  <2>2. ShownOutcome = [j \in Jobs |-> "none"]
    BY DEF Init, ShownOutcome, Terminal
  <2> QED
    BY <2>1, <2>2 DEF Init, Registry!Init, ShownOutcome
<1>2. IInv /\ [Next]_vars => [Registry!Next]_(Registry!vars)
  <2> SUFFICES ASSUME IInv, [Next]_vars PROVE [Registry!Next]_(Registry!vars)
    OBVIOUS
  <2>1. ASSUME NEW n \in Nodes, Poll(n) \/ Crash(n) \/ Activate(n)
        PROVE  [Registry!Next]_(Registry!vars)
    BY <2>1, InvisibleStep DEF Poll, Crash, Activate, storeVars, memVars
  <2>2. CASE UNCHANGED vars
    BY <2>2, InvisibleStep DEF vars, storeVars, memVars
  <2> QED
    BY <2>1, <2>2, Steps, JobStepRefines, CallStepRefines
<1> QED
  BY <1>1, <1>2, Invariance, PTL DEF Spec, ImplementsRegistry, Registry!Spec
=============================================================================
