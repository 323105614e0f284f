-------------------------- MODULE DumpArchivesProofs --------------------------
(***************************************************************************)
(* Proofs about the archives of dump jobs: that they agree with the        *)
(* stored records (DumpBacked, NoOrphanDump), and that what a request is   *)
(* told about jobs and archives is true of the whole time it was served    *)
(* (ListingComplete, ArchiveServed).  They hold for any number of nodes,   *)
(* jobs and handlers; each theorem names the requests and the faults it    *)
(* excludes.                                                               *)
(***************************************************************************)
EXTENDS DumpJobsHistory, DumpJobsProofs

(***************************************************************************)
(* Where the handler of a request can be.                                  *)
(***************************************************************************)
Places(op) ==
  CASE op = "none"      -> {"idle"}
    [] op = "create"    -> {"done"}
    [] op = "list"      -> {"list", "done"}
    [] op = "delete"    -> {"lock", "cancel", "remove", "write", "done"}
    [] op = "deleteAll" -> {"list", "next", "lock", "cancel", "remove", "write", "rmdir", "done"}
    [] OTHER            -> {"list", "read", "done"}

\* A request is one of Ops, is somewhere on its way, and has no reply before
\* it is done.
Shape ==
  \A c \in Callers :
    /\ call[c].op \in Ops \cup {"none"}
    /\ call[c].pc \in Places(call[c].op)
    /\ call[c].pc # "done" => call[c].reply = "none"

LEMMA ShapeInit == Init => Shape
  BY DEF Init, Shape, IdleCall, Places

\* What Become and Answer do.
LEMMA BecomeIs ==
  ASSUME TypeOK, NEW c \in Callers, NEW r, Become(c, r)
  PROVE  call'[c] = r /\ \A d \in Callers \ {c} : call'[d] = call[d]
  BY DEF TypeOK, Become

LEMMA AnswerIs ==
  ASSUME TypeOK, NEW c \in Callers, NEW r, Answer(c, r)
  PROVE  /\ \A d \in Callers \ {c} : call'[d] = call[d]
         /\ call'[c].pc = "done" /\ call'[c].reply = r
         /\ call'[c].op = call[c].op /\ call'[c].target = call[c].target
<1> DEFINE x == [call[c] EXCEPT !.pc = "done", !.reply = r, !.todo = {}, !.listing = NoRecords]
<1>1. call[c] \in Call
  BY DEF TypeOK
<1>2. x.pc = "done" /\ x.reply = r /\ x.op = call[c].op /\ x.target = call[c].target
  BY <1>1 DEF Call
<1> QED
  BY <1>2, BecomeIs DEF Answer

\* A request that goes on, or is answered, stays the same request.
LEMMA ShapeGoesOn ==
  ASSUME TypeOK, Shape, NEW c \in Callers, NEW p \in Places(call[c].op),
         Become(c, [call[c] EXCEPT !.pc = p]), call[c].pc # "done"
  PROVE  Shape'
<1> DEFINE x == [call[c] EXCEPT !.pc = p]
<1>1. x.pc = p /\ x.op = call[c].op /\ x.reply = call[c].reply
  BY DEF TypeOK, Call
<1>2. call'[c] = x /\ \A d \in Callers \ {c} : call'[d] = call[d]
  BY BecomeIs
<1> HIDE DEF x
<1> QED
  BY <1>1, <1>2 DEF Shape

LEMMA ShapeAnswered ==
  ASSUME TypeOK, Shape, NEW c \in Callers, NEW r, Answer(c, r), call[c].pc # "idle"
  PROVE  Shape'
<1>1. call[c].op # "none"
  BY DEF Shape, Places
<1>2. "done" \in Places(call[c].op)
  BY <1>1 DEF Places
<1> QED
  BY <1>2, AnswerIs DEF Shape

LEMMA ShapeHandlerStep ==
  ASSUME TypeOK, Shape, NEW c \in Callers, Request(c) \/ CallStep(c) \/ ContextDone(c)
  PROVE  Shape'
<1>1. call[c] \in Call /\ IdleCall \in Call
  BY IdleCallType DEF TypeOK
<1>2. ASSUME NEW x, Become(c, x), x.op \in Ops \cup {"none"}, x.pc \in Places(x.op),
             x.pc # "done" => x.reply = "none"
      PROVE  Shape'
  BY <1>2, BecomeIs DEF Shape
<1>3. CASE CreateJob(c)
  <2> DEFINE x == [IdleCall EXCEPT !.pc = "done", !.op = "create", !.reply = "ok"]
  <2>1. Become(c, x) /\ "create" \in Ops
    BY <1>3 DEF CreateJob, Begin
  <2>2. x.pc = "done" /\ x.op = "create"
    BY DEF IdleCall
  <2>3. "done" \in Places("create")
    BY DEF Places
  <2> HIDE DEF x
  <2> QED
    BY <1>2, <2>1, <2>2, <2>3
<1>4. CASE DeleteJob(c)
  <2>1. PICK j \in Jobs :
          Become(c, [IdleCall EXCEPT !.pc = "lock", !.op = "delete", !.target = j])
    BY <1>4 DEF DeleteJob
  <2> DEFINE x == [IdleCall EXCEPT !.pc = "lock", !.op = "delete", !.target = j]
  <2>2. x.pc = "lock" /\ x.op = "delete" /\ x.reply = "none" /\ "delete" \in Ops
    BY <1>4 DEF IdleCall, DeleteJob, Begin
  <2>3. "lock" \in Places("delete")
    BY DEF Places
  <2>4. Become(c, x)
    BY <2>1
  <2> HIDE DEF x
  <2> QED
    BY <1>2, <2>2, <2>3, <2>4
<1>5. ASSUME NEW o \in Readers, GetScheduled(c, o) PROVE Shape'
  <2>1. PICK t :
          Become(c, [IdleCall EXCEPT !.pc = "list", !.op = o, !.target = t,
                                     !.listing = Merge(sched, NoRecords)])
    BY <1>5 DEF GetScheduled
  <2> DEFINE x == [IdleCall EXCEPT !.pc = "list", !.op = o, !.target = t,
                                   !.listing = Merge(sched, NoRecords)]
  <2>2. x.pc = "list" /\ x.op = o /\ x.reply = "none" /\ o \in Ops
    BY <1>5 DEF IdleCall, GetScheduled, Begin
  <2>3. "list" \in Places(o)
    BY DEF Places, Readers
  <2> QED
    BY <1>2, <2>1, <2>2, <2>3
<1>6. ASSUME NEW o \in Readers, GetScheduledFails(c, o) PROVE Shape'
  <2> DEFINE x == [IdleCall EXCEPT !.pc = "done", !.op = o, !.reply = "error"]
  <2>1. Become(c, x) /\ o \in Ops
    BY <1>6 DEF GetScheduledFails, Begin
  <2>2. x.pc = "done" /\ x.op = o
    BY DEF IdleCall
  <2>3. "done" \in Places(o)
    BY DEF Places, Readers
  <2> QED
    BY <1>2, <2>1, <2>2, <2>3
<1>7. CASE GetFinished(c)
  <2> DEFINE all == Merge(Listed(call[c].listing), kv)
             x == [call[c] EXCEPT !.pc = "done", !.reply = "ok", !.listing = all]
             y == [call[c] EXCEPT !.pc = "next", !.todo = Listed(all), !.listing = NoRecords]
             z(j) == [call[c] EXCEPT !.pc = "read", !.target = j,
                                     !.listing = [NoRecords EXCEPT ![j] = all[j]]]
  <2>1. /\ call[c].pc = "list"
        /\ \/ call[c].op = "list" /\ Become(c, x)
           \/ call[c].op = "deleteAll" /\ Become(c, y)
           \/ call[c].op \in {"download", "support"} /\ \E j : Become(c, z(j))
           \/ Answer(c, "error") \/ Answer(c, "missing")
    BY <1>7 DEF GetFinished, UseJobs, FindArchive
  <2> HIDE DEF all
  <2>2. /\ x.pc = "done" /\ x.op = call[c].op
        /\ y.pc = "next" /\ y.op = call[c].op /\ y.reply = call[c].reply
        /\ \A j : /\ z(j).pc = "read" /\ z(j).op = call[c].op
                  /\ z(j).reply = call[c].reply
    BY <1>1 DEF Call
  <2>3. call[c].op \in Ops \cup {"none"} /\ call[c].reply = "none"
    BY <2>1 DEF Shape
  <2> HIDE DEF x, y, z
  <2> QED
    BY <1>2, <2>1, <2>2, <2>3, ShapeAnswered DEF Places
<1>8. CASE ReadArchive(c) \/ ContextDone(c) \/ RemoveDumpDirectory(c)
  BY <1>8, ShapeAnswered DEF ReadArchive, ContextDone, RemoveDumpDirectory
<1>9. CASE DeleteNext(c)
  <2>1. call[c].pc = "next" /\ call[c].op = "deleteAll" /\ call[c].reply = "none"
    BY <1>9 DEF DeleteNext, Shape, Places
  <2>2. ASSUME NEW j,
               Become(c, [call[c] EXCEPT !.pc = "lock", !.target = j, !.todo = @ \ {j}])
        PROVE  Shape'
    <3> DEFINE x == [call[c] EXCEPT !.pc = "lock", !.target = j, !.todo = @ \ {j}]
    <3>1. x.pc = "lock" /\ x.op = call[c].op /\ x.reply = call[c].reply
      BY <1>1 DEF Call
    <3>2. "lock" \in Places("deleteAll") /\ "deleteAll" \in Ops
      BY <2>1 DEF Shape, Places
    <3>3. Become(c, x)
      BY <2>2
    <3> HIDE DEF x
    <3> QED
      BY <1>2, <2>1, <3>1, <3>2, <3>3
  <2> QED
    BY <1>9, <2>1, <2>2, ShapeGoesOn DEF DeleteNext, Places
<1>10. CASE DeleteJobLock(c)
  <2>1. call[c].pc = "lock" /\ call[c].op \in {"delete", "deleteAll"}
    BY <1>10 DEF DeleteJobLock, Shape, Places
  <2> QED
    BY <1>10, <2>1, ShapeAnswered, ShapeGoesOn DEF DeleteJobLock, Places
<1>11. CASE CancelScheduled(c) \/ DeleteJobWrite(c)
  <2>1. call[c].pc \in {"cancel", "write"}
    BY <1>11 DEF CancelScheduled, DeleteJobWrite
  <2>2. \/ \E r : Answer(c, r)
        \/ call[c].op = "deleteAll" /\ Become(c, [call[c] EXCEPT !.pc = "next"])
    BY <1>11 DEF CancelScheduled, DeleteJobWrite, DeleteJobOk
  <2> QED
    BY <2>1, <2>2, ShapeAnswered, ShapeGoesOn DEF Places
<1>12. CASE DeleteDump(c)
  <2>1. call[c].pc = "remove" /\ call[c].op \in {"delete", "deleteAll"}
    BY <1>12 DEF DeleteDump, Shape, Places
  <2> QED
    BY <1>12, <2>1, ShapeGoesOn DEF DeleteDump, Places
<1>13. CASE Return(c)
  BY <1>2, <1>13 DEF Return, IdleCall, Places
<1> QED
  BY <1>3, <1>4, <1>5, <1>6, <1>7, <1>8, <1>9, <1>10, <1>11, <1>12, <1>13
  DEF Request, CallStep

LEMMA ShapeStep ==
  ASSUME TypeOK, Shape, [Next]_vars
  PROVE  Shape'
<1>1. ASSUME NEW n \in Nodes, NEW j \in Jobs, JobStep(n, j) PROVE UNCHANGED call
  BY <1>1 DEF JobStep, RunJob, StartCallback, UpdateJobLock, UpdateJobWrite, CreateDump, EndRun
<1>2. ASSUME NEW n \in Nodes, Crash(n)
      PROVE  \A c \in Callers : call'[c] \in {call[c], IdleCall}
  BY <1>2 DEF Crash
<1>3. ASSUME NEW n \in Nodes, Poll(n) \/ Activate(n) PROVE UNCHANGED call
  BY <1>3 DEF Poll, Activate
<1>4. ASSUME \A c \in Callers : call'[c] \in {call[c], IdleCall} PROVE Shape'
  BY <1>4 DEF Shape, IdleCall, Places
<1> QED
  BY <1>1, <1>2, <1>3, <1>4, Steps, ShapeHandlerStep DEF vars

\* A request is served at its places, in every state.
LEMMA ShapeHolds == Spec => []Shape
<1>1. IInv /\ Shape /\ [Next]_vars => Shape'
  BY ShapeStep DEF IInv
<1> QED
  BY <1>1, ShapeInit, Invariance, PTL DEF Spec

(***************************************************************************)
(* What a step can do to the archives, to a goroutine that is about to     *)
(* store its outcome, and to a handler that is about to delete a record.   *)
(***************************************************************************)
Commits(n, j) == wpc[n][j] \in {"upd2", "set2"}

LEMMA FilesChange ==
  ASSUME [Next]_vars
  PROVE  \/ UNCHANGED files
         \/ \E n \in Nodes, j \in Jobs : CreateDump(n, j)
         \/ \E c \in Callers : DeleteDump(c) \/ RemoveDumpDirectory(c)
<1> USE DEF storeVars
<1>1. ASSUME NEW n \in Nodes, NEW j \in Jobs, JobStep(n, j)
      PROVE  CreateDump(n, j) \/ UNCHANGED files
  BY <1>1 DEF JobStep, RunJob, StartCallback, UpdateJobLock, UpdateJobWrite, EndRun
<1>2. ASSUME NEW c \in Callers, Request(c) \/ CallStep(c) \/ ContextDone(c)
      PROVE  DeleteDump(c) \/ RemoveDumpDirectory(c) \/ UNCHANGED files
  BY <1>2
  DEF Request, CallStep, CreateJob, DeleteJob, GetScheduled, GetScheduledFails, GetFinished,
      ReadArchive, DeleteNext, DeleteJobLock, CancelScheduled, DeleteJobWrite, Return, ContextDone
<1>3. ASSUME NEW n \in Nodes, Poll(n) \/ Crash(n) \/ Activate(n)
      PROVE  UNCHANGED files
  BY <1>3 DEF Poll, Crash, Activate
<1> QED
  BY <1>1, <1>2, <1>3, Steps DEF vars

\* Only createDump brings a goroutine to the deferred UpdateJob, and nobody
\* touches the outcome it is about to store; it leaves by storing it, by a
\* failure of the KV store, or with its process.
LEMMA CommitChange ==
  ASSUME IInv, [Next]_vars, NEW n \in Nodes, NEW j \in Jobs
  PROVE  /\ Commits(n, j)' => CreateDump(n, j) \/ (Commits(n, j) /\ obj'[j] = obj[j])
         /\ Commits(n, j) => \/ Commits(n, j)' \/ UpdateJobWrite(n, j)
                             \/ "kvget" \in Faults \/ Crash(n)
<1> USE DEF IInv, Commits, WorkerPC
<1>0. /\ Commits(n, j) => j \in created /\ jobLock[j] = n
      /\ \A m \in Nodes : wpc[m][j] \in {"exec", "dump"} => jobLock[j] = m
      /\ n # NoOne
  BY DumpJobsAssumption DEF OneRunner, KnownJobs, Running
<1>2. ASSUME NEW m \in Nodes, NEW k \in Jobs, JobStep(m, k), <<m, k>> # <<n, j>>
      PROVE  wpc'[n][j] = wpc[n][j] /\ (Commits(n, j) => obj'[j] = obj[j])
  <2>1. \E w \in WorkerPC : Goto(m, k, w)
    BY <1>2 DEF JobStep, RunJob, StartCallback, UpdateJobLock, UpdateJobWrite, CreateDump, EndRun
  <2>2. wpc'[n][j] = wpc[n][j]
    BY <1>2, <2>1, GotoMoves
  <2>3. UNCHANGED obj \/ (wpc[m][k] \in {"exec", "dump"} /\ \E s : obj' = [obj EXCEPT ![k] = s])
    BY <1>2 DEF JobStep, RunJob, StartCallback, UpdateJobLock, UpdateJobWrite, CreateDump, EndRun,
                memVars
  <2>4. ASSUME Commits(n, j), k = j PROVE UNCHANGED obj
    BY <1>0, <1>2, <2>3, <2>4
  <2>5. k # j => obj'[j] = obj[j]
    BY <2>3 DEF TypeOK
  <2> QED
    BY <2>2, <2>4, <2>5
<1>3. ASSUME JobStep(n, j)
      PROVE  /\ Commits(n, j)' => CreateDump(n, j) \/ (Commits(n, j) /\ obj'[j] = obj[j])
             /\ Commits(n, j) => \/ Commits(n, j)' \/ UpdateJobWrite(n, j)
                                 \/ "kvget" \in Faults
  <2>1. \A w \in WorkerPC : Goto(n, j, w) => wpc'[n][j] = w
    BY GotoMoves
  <2>2. CASE RunJob(n, j) \/ StartCallback(n, j) \/ EndRun(n, j)
    BY <2>1, <2>2 DEF RunJob, StartCallback, EndRun
  <2>3. CASE UpdateJobLock(n, j)
    BY <2>1, <2>3 DEF UpdateJobLock, memVars
  <2>4. CASE UpdateJobWrite(n, j)
    BY <2>1, <2>4 DEF UpdateJobWrite
  <2> QED
    BY <1>3, <2>1, <2>2, <2>3, <2>4 DEF JobStep, CreateDump
<1>4. ASSUME NEW c \in Callers, Request(c) \/ CallStep(c) \/ ContextDone(c)
      PROVE  /\ Commits(n, j)' => Commits(n, j) /\ obj'[j] = obj[j]
             /\ Commits(n, j) => Commits(n, j)'
  <2>1. CASE CreateJob(c)
    <3>1. PICK k \in Jobs \ created :
            obj' = [obj EXCEPT ![k] = "pending"] /\ Goto(At[c], k, "timer")
      BY <2>1 DEF CreateJob
    <3>2. \A m \in Nodes : wpc'[m][j] = wpc[m][j] \/ (wpc'[m][j] = "timer" /\ k = j)
      BY <3>1, GotoMoves, DumpJobsAssumption
    <3>3. k # j => obj'[j] = obj[j]
      BY <3>1 DEF TypeOK
    <3> QED
      BY <1>0, <3>1, <3>2, <3>3
  <2>2. CASE CancelScheduled(c)
    <3>1. jobLock[call[c].target] = NoOne /\ Goto(At[c], call[c].target, "idle") /\ UNCHANGED obj
      BY <2>2 DEF CancelScheduled, memVars
    <3>2. CASE call[c].target = j
      <4>1. wpc'[n][j] \in {wpc[n][j], "idle"}
        BY <3>1, <3>2, GotoMoves, DumpJobsAssumption
      <4> QED
        BY <1>0, <3>1, <3>2, <4>1
    <3>3. CASE call[c].target # j
      BY <3>1, <3>3, DumpJobsAssumption DEF Goto, TypeOK
    <3> QED
      BY <3>2, <3>3
  <2>3. CASE ~CreateJob(c) /\ ~CancelScheduled(c)
    <3>1. UNCHANGED <<wpc, obj>>
      BY <1>4, <2>3
      DEF Request, CallStep, DeleteJob, GetScheduled, GetScheduledFails, GetFinished, ReadArchive,
          DeleteNext, DeleteJobLock, DeleteDump, DeleteJobWrite, RemoveDumpDirectory, Return,
          ContextDone, memVars
    <3> QED
      BY <3>1
  <2> QED
    BY <2>1, <2>2, <2>3
<1>5. ASSUME NEW m \in Nodes, Poll(m) \/ Activate(m)
      PROVE  /\ Commits(n, j)' => Commits(n, j) /\ obj'[j] = obj[j]
             /\ Commits(n, j) => Commits(n, j)'
  <2>1. TrackScheduled(m) /\ UNCHANGED obj
    BY <1>5 DEF Poll, Activate, memVars
  <2> QED
    BY <2>1, TrackMoves
<1>6. ASSUME NEW m \in Nodes, Crash(m)
      PROVE  /\ Commits(n, j)' => Commits(n, j) /\ obj'[j] = obj[j]
             /\ Commits(n, j) => Commits(n, j)' \/ m = n
  <2>1. /\ UNCHANGED obj
        /\ wpc'[n][j] = IF m = n THEN "idle" ELSE wpc[n][j]
    BY <1>6 DEF Crash, TypeOK
  <2> QED
    BY <2>1
<1>7. CASE UNCHANGED vars
  BY <1>7 DEF vars, memVars
<1>8. ASSUME NEW m \in Nodes, NEW k \in Jobs, JobStep(m, k)
      PROVE  /\ Commits(n, j)' => CreateDump(n, j) \/ (Commits(n, j) /\ obj'[j] = obj[j])
             /\ Commits(n, j) => \/ Commits(n, j)' \/ UpdateJobWrite(n, j)
                                 \/ "kvget" \in Faults
  <2>1. CASE <<m, k>> = <<n, j>>
    BY <1>3, <1>8, <2>1
  <2>2. CASE <<m, k>> # <<n, j>>
    BY <1>2, <1>8, <2>2
  <2> QED
    BY <2>1, <2>2
<1> QED
  BY <1>4, <1>5, <1>6, <1>7, <1>8, Steps

\* A handler comes to the deletion of the record by DeleteDump, and leaves it
\* by writing or with its process.
LEMMA WriteChange ==
  ASSUME TypeOK, [Next]_vars, NEW c \in Callers
  PROVE  /\ call[c].pc = "write" =>
              \/ call'[c] = call[c] \/ DeleteJobWrite(c)
              \/ \E n \in Nodes : Crash(n)
         /\ call'[c].pc = "write" => call'[c] = call[c] \/ DeleteDump(c)
<1>1. ASSUME NEW n \in Nodes, NEW j \in Jobs, JobStep(n, j)
      PROVE  call'[c] = call[c]
  BY <1>1 DEF JobStep, RunJob, StartCallback, UpdateJobLock, UpdateJobWrite, CreateDump, EndRun
<1>2. ASSUME NEW d \in Callers, Request(d) \/ CallStep(d) \/ ContextDone(d), d # c
      PROVE  call'[c] = call[c]
  BY <1>2, HandlerStep
<1>3. ASSUME Request(c) \/ CallStep(c) \/ ContextDone(c)
      PROVE  /\ call[c].pc = "write" => DeleteJobWrite(c)
             /\ call'[c].pc = "write" => DeleteDump(c)
  <2>1. call[c].pc = "write" => DeleteJobWrite(c)
    BY <1>3
    DEF Request, CallStep, CreateJob, DeleteJob, GetScheduled, GetScheduledFails, GetFinished,
        ReadArchive, DeleteNext, DeleteJobLock, CancelScheduled, DeleteDump, RemoveDumpDirectory,
        Return, ContextDone, Begin
  <2>2. call'[c].pc = "write" => call[c].pc = "remove"
    BY <1>3, HandlerStep DEF Successors, TypeOK, Call, CallPC
  <2>3. call[c].pc = "remove" => DeleteDump(c)
    BY <1>3
    DEF Request, CallStep, CreateJob, DeleteJob, GetScheduled, GetScheduledFails, GetFinished,
        ReadArchive, DeleteNext, DeleteJobLock, CancelScheduled, DeleteJobWrite,
        RemoveDumpDirectory, Return, ContextDone, Begin
  <2> QED
    BY <2>1, <2>2, <2>3
<1>4. ASSUME NEW n \in Nodes, Crash(n)
      PROVE  call'[c] = call[c] \/ call'[c].pc = "idle"
  BY <1>4 DEF Crash, IdleCall
<1>5. ASSUME NEW n \in Nodes, Poll(n) \/ Activate(n)
      PROVE  call'[c] = call[c]
  BY <1>5 DEF Poll, Activate
<1> QED
  BY <1>1, <1>2, <1>3, <1>4, <1>5, Steps DEF vars

(***************************************************************************)
(* The theorems about archives and records.                                *)
(***************************************************************************)

\* The archive of a job that is about to be recorded as a success is there.
Uploaded ==
  \A n \in Nodes, j \in Jobs : Commits(n, j) /\ obj[j] = "success" => j \in files

\* A job shown as success has its archive, or is just being deleted, when
\* nobody deletes all jobs, no process dies and the KV store takes every
\* write.  (Each of the three can leave a record without its archive:
\* DeleteAllJobs removes the directory although a job may have finished since
\* it listed the jobs, and DeleteJob removes the archive before the record.)
THEOREM DumpsAreBacked ==
  ASSUME "deleteAll" \notin Ops, Faults \cap {"crash", "kvset"} = {}
  PROVE  Spec => []DumpBacked
<1>1. Init => DumpBacked /\ Uploaded
  BY DEF Init, NoRecords, DumpBacked, Uploaded, Commits
<1>2. ASSUME IInv, Shape, DumpBacked, Uploaded, [Next]_vars
      PROVE  DumpBacked' /\ Uploaded'
  <2> USE <1>2
  <2>1. /\ \A c \in Callers : ~RemoveDumpDirectory(c)
        /\ \A n \in Nodes : ~Crash(n)
    BY DEF RemoveDumpDirectory, Crash, Shape, Places
  \* A deletion that has reached the record deletes it.
  <2>2. ASSUME NEW c \in Callers, call[c].pc = "write"
        PROVE  call'[c] = call[c] \/ \A j \in Jobs : j = call[c].target => kv'[j] = "none"
    <3>1. DeleteJobWrite(c) => kv' = [snap[c] EXCEPT ![call[c].target] = "none"]
      BY DEF DeleteJobWrite
    <3>2. snap[c] = kv /\ DOMAIN kv = Jobs
      BY <2>2 DEF IInv, ReadModifyWrite, TypeOK
    <3> QED
      BY <2>1, <2>2, <3>1, <3>2, WriteChange DEF IInv
  <2>3. ASSUME NEW n \in Nodes, NEW k \in Jobs, CreateDump(n, k)
        PROVE  /\ UNCHANGED <<kv, call>> /\ files \subseteq files'
               /\ obj'[k] = "success" => k \in files'
    BY <2>3 DEF CreateDump, IInv, TypeOK
  <2>4. ASSUME NEW c \in Callers, DeleteDump(c)
        PROVE  /\ UNCHANGED <<kv, obj, wpc>> /\ files \ {call[c].target} \subseteq files'
               /\ files' # files => kv[call[c].target] = "success"
               /\ call[c].pc = "remove" /\ call'[c].pc = "write"
               /\ call'[c].target = call[c].target
               /\ \A d \in Callers \ {c} : call'[d] = call[d]
    <3>1. Become(c, [call[c] EXCEPT !.pc = "write"])
      BY <2>4 DEF DeleteDump
    <3>2. call'[c].pc = "write" /\ call'[c].target = call[c].target
      BY <3>1 DEF IInv, TypeOK, Become, Call
    <3>3. snap[c] = kv
      BY <2>4 DEF DeleteDump, IInv, ReadModifyWrite
    <3> QED
      BY <2>4, <3>1, <3>2, <3>3, BecomeIs DEF DeleteDump, IInv, memVars
  <2>5. ASSUME NEW j \in Jobs, kv'[j] = "success"
        PROVE  j \in files' \/ \E c \in Callers : call'[c].pc = "write" /\ call'[c].target = j
    <3>1. CASE UNCHANGED files
      <4>1. CASE kv[j] = "success"
        BY <2>2, <2>5, <3>1, <4>1 DEF DumpBacked
      <4>2. CASE kv[j] # "success"
        <5>1. PICK n \in Nodes : wpc[n][j] \in {"set1", "set2"} /\ obj[j] = "success"
          BY <2>5, <4>2, RecordChange DEF IInv, TypeOK
        <5>2. Commits(n, j)
          BY <5>1 DEF IInv, Progress, Commits
        <5> QED
          BY <3>1, <5>1, <5>2 DEF Uploaded
      <4> QED
        BY <4>1, <4>2
    <3>2. ASSUME NEW c \in Callers, DeleteDump(c)
          PROVE  j \in files' \/ \E d \in Callers : call'[d].pc = "write" /\ call'[d].target = j
      <4>1. CASE j \in files
        BY <2>4, <3>2, <4>1
      <4>2. CASE j \notin files
        <5>1. PICK d \in Callers : call[d].pc = "write" /\ call[d].target = j
          BY <2>4, <2>5, <3>2, <4>2 DEF DumpBacked
        <5> QED
          BY <2>4, <3>2, <5>1
      <4> QED
        BY <4>1, <4>2
    <3> QED
      BY <2>1, <2>3, <2>5, <3>1, <3>2, FilesChange DEF DumpBacked
  <2>6. ASSUME NEW n \in Nodes, NEW j \in Jobs, Commits(n, j)', obj'[j] = "success"
        PROVE  j \in files'
    <3>1. CASE CreateDump(n, j)
      BY <2>3, <2>6, <3>1
    <3>2. CASE ~CreateDump(n, j)
      <4>1. Commits(n, j) /\ j \in files
        BY <2>6, <3>2, CommitChange DEF Uploaded
      <4>2. kv[j] # "success"
        BY <4>1 DEF Commits, IInv, Progress, Terminal
      <4> QED
        BY <2>1, <2>3, <2>4, <4>1, <4>2, FilesChange
    <3> QED
      BY <3>1, <3>2
  <2> QED
    BY <2>5, <2>6 DEF DumpBacked, Uploaded
<1> QED
  BY <1>1, <1>2, Invariance, ShapeHolds, PTL DEF Spec

\* The dump of a job that is about to store its outcome was a success.
Committing == \A n \in Nodes, j \in Jobs : Commits(n, j) => obj[j] = "success"

\* Whoever is about to delete the record of a success has removed its archive.
Erasing ==
  \A c \in Callers, j \in Jobs :
    call[c].pc = "write" /\ call[c].target = j /\ kv[j] = "success" => j \notin files

\* No archive is left without a record, while no process dies and neither the
\* KV store, nor a removal, nor a dump fails.
THEOREM NoDumpIsOrphaned ==
  ASSUME Faults \cap {"crash", "kvget", "kvset", "remove", "dump"} = {}
  PROVE  Spec => []NoOrphanDump
<1> DEFINE Inv == NoOrphanDump /\ Committing /\ Erasing
<1>1. Init => Inv
  BY DEF Init, NoRecords, IdleCall, NoOrphanDump, Committing, Erasing, Commits
<1>2. ASSUME IInv, Inv, [Next]_vars
      PROVE  Inv'
  <2> USE <1>2 DEF IInv
  <2>1. \A n \in Nodes : ~Crash(n)
    BY DEF Crash
  <2>2. ASSUME NEW n \in Nodes, NEW k \in Jobs, CreateDump(n, k)
        PROVE  /\ UNCHANGED kv /\ files' = files \cup {k} /\ obj'[k] = "success"
               /\ Commits(n, k)' /\ kv[k] \notin Terminal
    <3>1. wpc'[n][k] = "upd2"
      BY <2>2, GotoMoves DEF CreateDump, WorkerPC
    <3>2. wpc[n][k] = "dump"
      BY <2>2 DEF CreateDump
    <3> QED
      BY <2>2, <3>1, <3>2 DEF CreateDump, Commits, Progress, TypeOK
  <2>3. ASSUME NEW c \in Callers, DeleteDump(c)
        PROVE  /\ UNCHANGED <<kv, wpc>> /\ files' \subseteq files
               /\ \A j \in Jobs : call'[c].target = j /\ kv[j] = "success" => j \notin files'
    <3>1. snap[c] = kv
      BY <2>3 DEF DeleteDump, ReadModifyWrite
    <3>2. call'[c].target = call[c].target
      BY <2>3 DEF DeleteDump, TypeOK, Become, Call
    <3>3. \/ kv[call[c].target] = "success" /\ files' = files \ {call[c].target}
          \/ kv[call[c].target] # "success" /\ UNCHANGED files
      BY <2>3, <3>1 DEF DeleteDump
    <3>4. UNCHANGED <<kv, wpc>>
      BY <2>3 DEF DeleteDump
    <3> QED
      BY <3>2, <3>3, <3>4
  <2>4. ASSUME NEW c \in Callers, RemoveDumpDirectory(c)
        PROVE  files' = {} /\ UNCHANGED kv
    BY <2>4 DEF RemoveDumpDirectory
  <2>5. \A j \in files' : j \in files \/ (j \in Jobs /\ \E n \in Nodes : CreateDump(n, j))
    BY <2>2, <2>3, <2>4, FilesChange
  <2>6. ASSUME NEW j \in Jobs, kv[j] = "success", kv'[j] # "success"
        PROVE  j \notin files'
    <3>1. UNCHANGED files
      BY <2>2, <2>3, <2>4, <2>6, FilesChange
    <3>2. PICK c \in Callers : call[c].pc = "write" /\ call[c].target = j
      BY <2>6, RecordChange DEF Progress, TypeOK, Terminal
    <3> QED
      BY <2>6, <3>1, <3>2 DEF Erasing
  <2>7. ASSUME NEW n \in Nodes, NEW j \in Jobs, Commits(n, j)
        PROVE  Commits(n, j)' \/ kv'[j] = "success"
    <3>1. ASSUME UpdateJobWrite(n, j) PROVE kv'[j] = "success"
      BY <2>7, <3>1 DEF UpdateJobWrite, Committing, ReadModifyWrite, TypeOK
    <3> QED
      BY <2>1, <2>7, <3>1, CommitChange
  <2>8. ASSUME NEW j \in files'
        PROVE  kv'[j] = "success" \/ \E n \in Nodes : Commits(n, j)'
    <3>1. CASE j \in files
      <4>1. j \in Jobs
        BY <3>1 DEF TypeOK
      <4> QED
        BY <2>6, <2>7, <2>8, <3>1, <4>1 DEF NoOrphanDump, Commits
    <3>2. CASE j \notin files
      <4>1. j \in Jobs /\ \E n \in Nodes : CreateDump(n, j)
        BY <2>5, <2>8, <3>2
      <4> QED
        BY <2>2, <4>1
    <3> QED
      BY <3>1, <3>2
  <2>9. Committing'
    BY <2>2, CommitChange DEF Committing
  <2>10. ASSUME NEW c \in Callers, NEW j \in Jobs,
                call'[c].pc = "write", call'[c].target = j, kv'[j] = "success"
         PROVE  j \notin files'
    <3>1. CASE DeleteDump(c)
      BY <2>3, <2>10, <3>1
    <3>2. CASE call'[c] = call[c]
      <4>1. kvLock = c
        BY <2>10, <3>2 DEF ReadModifyWrite
      <4>2. kv[j] = "success"
        <5>0. \A n \in Nodes, k \in Jobs : kvLock # <<n, k>>
          BY <4>1, DistinctActors
        <5>1. \A n \in Nodes, k \in Jobs : wpc[n][k] \notin {"set1", "set2"}
          BY <5>0, Zenon DEF ReadModifyWrite
        <5>2. \A d \in Callers : call[d].pc = "write" => d = c
          BY <4>1, Zenon DEF ReadModifyWrite
        <5> QED
          BY <2>10, <3>2, <5>1, <5>2, RecordChange DEF TypeOK
      <4>3. j \notin files
        BY <2>10, <3>2, <4>2 DEF Erasing
      <4> QED
        BY <2>2, <2>5, <4>2, <4>3 DEF Terminal
    <3> QED
      BY <2>10, <3>1, <3>2, WriteChange
  <2> QED
    BY <2>8, <2>9, <2>10 DEF NoOrphanDump, Erasing, Commits
<1> QED
  BY <1>1, <1>2, Invariance, PTL DEF Spec

(***************************************************************************)
(* What requests are told.  The history variable lasting changes nothing:  *)
(* what is proved of Spec holds of HistSpec.                               *)
(***************************************************************************)
LEMMA HistImpliesSpec == HistSpec => Spec
<1>1. HistInit => Init
  BY DEF HistInit
<1>2. [HistNext]_histVars => [Next]_vars
  BY DEF HistNext, histVars
<1> QED
  BY <1>1, <1>2, PTL DEF HistSpec, Spec

\* What is left of lasting[c] after a step, for the requests it matters to.
LEMMA LastingIs ==
  ASSUME [HistNext]_histVars, NEW c \in Callers
  PROVE  /\ call'[c].op = "list" =>
              \/ call'[c] = call[c] /\ lasting'[c] = lasting[c] /\ UNCHANGED Existing
              \/ lasting'[c] = Still(c, Existing)
         /\ call'[c].op \in {"download", "support"} =>
              \/ call'[c] = call[c] /\ lasting'[c] = lasting[c] /\ UNCHANGED Archived
              \/ lasting'[c] = Still(c, Archived)
<1>1. CASE HistNext
  BY <1>1 DEF HistNext, Observe
<1>2. CASE UNCHANGED histVars
  BY <1>2 DEF histVars, vars, storeVars, Existing, Archived
<1> QED
  BY <1>1, <1>2

\* How the record of a request that reads, or is refused, changes: not at all, or the request
\* begins, or it fails, or it goes through its second half.
LEMMA ReaderMoves ==
  ASSUME TypeOK, Shape, [Next]_vars, NEW c \in Callers,
         \/ call'[c].op \in {"list", "download", "support"}
         \/ call'[c].reply \in {"missing", "unreadable"}
  PROVE  \/ call'[c] = call[c]
         \/ /\ call[c].op = "none" /\ call'[c].pc = "list" /\ call'[c].reply = "none"
            /\ call'[c].listing = Merge(sched, NoRecords) /\ UNCHANGED <<sched, kv, files>>
         \/ /\ call'[c].op # call[c].op => call[c].op = "none" /\ UNCHANGED <<sched, kv, files>>
            /\ call'[c].pc = "done" /\ call'[c].reply = "error"
         \/ /\ call'[c].op = call[c].op /\ UNCHANGED <<sched, kv, files>>
            /\ GetFinished(c) \/ ReadArchive(c)
<1> DEFINE Goal == \/ call'[c] = call[c]
                   \/ /\ call[c].op = "none" /\ call'[c].pc = "list"
                      /\ call'[c].reply = "none"
                      /\ call'[c].listing = Merge(sched, NoRecords)
                      /\ UNCHANGED <<sched, kv, files>>
                   \/ /\ call'[c].op # call[c].op =>
                           call[c].op = "none" /\ UNCHANGED <<sched, kv, files>>
                      /\ call'[c].pc = "done" /\ call'[c].reply = "error"
                   \/ /\ call'[c].op = call[c].op /\ UNCHANGED <<sched, kv, files>>
                      /\ GetFinished(c) \/ ReadArchive(c)
<1>0. call[c] \in Call /\ (call[c].pc = "idle" => call[c].op = "none")
  BY DEF TypeOK, Shape, Places
<1>1. ASSUME NEW n \in Nodes, NEW j \in Jobs, JobStep(n, j)
      PROVE  call'[c] = call[c]
  BY <1>1 DEF JobStep, RunJob, StartCallback, UpdateJobLock, UpdateJobWrite, CreateDump, EndRun
<1>2. ASSUME NEW n \in Nodes, Poll(n) \/ Crash(n) \/ Activate(n)
      PROVE  call'[c] = call[c]
  BY <1>2 DEF Poll, Activate, Crash, IdleCall
<1>3. ASSUME NEW d \in Callers \ {c}, Request(d) \/ CallStep(d) \/ ContextDone(d)
      PROVE  call'[c] = call[c]
  BY <1>3, HandlerStep
<1>4. ASSUME Request(c) \/ CallStep(c) \/ ContextDone(c)
      PROVE  Goal
  <2>1. ASSUME NEW x, Become(c, x) PROVE call'[c] = x
    BY <2>1, BecomeIs
  <2>2. ASSUME NEW o \in Readers, GetScheduled(c, o) PROVE Goal
    <3>1. PICK t :
            Become(c, [IdleCall EXCEPT !.pc = "list", !.op = o, !.target = t,
                                       !.listing = Merge(sched, NoRecords)])
      BY <2>2 DEF GetScheduled
    <3> DEFINE x == [IdleCall EXCEPT !.pc = "list", !.op = o, !.target = t,
                                     !.listing = Merge(sched, NoRecords)]
    <3>2. x.pc = "list" /\ x.listing = Merge(sched, NoRecords) /\ x.reply = "none"
      BY DEF IdleCall
    <3>3. Become(c, x)
      BY <3>1
    <3>4. call[c].op = "none" /\ UNCHANGED <<sched, kv, files>>
      BY <1>0, <2>2 DEF GetScheduled, Begin, storeVars
    <3> HIDE DEF x
    <3> QED
      BY <2>1, <3>2, <3>3, <3>4
  <2>3. ASSUME NEW o \in Readers, GetScheduledFails(c, o) PROVE Goal
    <3> DEFINE x == [IdleCall EXCEPT !.pc = "done", !.op = o, !.reply = "error"]
    <3>1. Become(c, x) /\ call[c].op = "none" /\ UNCHANGED <<sched, kv, files>>
      BY <1>0, <2>3 DEF GetScheduledFails, Begin, storeVars
    <3>2. x.pc = "done" /\ x.reply = "error"
      BY DEF IdleCall
    <3> HIDE DEF x
    <3> QED
      BY <2>1, <3>1, <3>2
  <2>4. CASE ContextDone(c)
    BY <2>4, AnswerIs DEF ContextDone
  <2>5. CASE GetFinished(c)
    <3> DEFINE x(p, t, l) == [call[c] EXCEPT !.pc = p, !.target = t, !.listing = l]
               y(p, r, l) == [call[c] EXCEPT !.pc = p, !.reply = r, !.listing = l]
               z(p, t, l) == [call[c] EXCEPT !.pc = p, !.todo = t, !.listing = l]
    <3>1. \/ \E r : Answer(c, r)
          \/ \E p, t, l : Become(c, x(p, t, l)) \/ Become(c, y(p, t, l)) \/ Become(c, z(p, t, l))
      BY <2>5 DEF GetFinished, UseJobs, FindArchive
    <3>2. \A p, t, l : /\ x(p, t, l).op = call[c].op
                       /\ y(p, t, l).op = call[c].op
                       /\ z(p, t, l).op = call[c].op
      BY <1>0 DEF Call
    <3> HIDE DEF x, y, z
    <3>3. call'[c].op = call[c].op
      BY <2>1, <3>1, <3>2, AnswerIs
    <3> QED
      BY <2>5, <3>3 DEF GetFinished, storeVars
  <2>6. CASE ReadArchive(c)
    <3>1. call'[c].op = call[c].op
      BY <2>6, AnswerIs DEF ReadArchive
    <3> QED
      BY <2>6, <3>1 DEF ReadArchive, storeVars
  \* The other requests.
  <2>7. CASE CreateJob(c)
    <3> DEFINE x == [IdleCall EXCEPT !.pc = "done", !.op = "create", !.reply = "ok"]
    <3>1. Become(c, x)
      BY <2>7 DEF CreateJob
    <3>2. x.op = "create" /\ x.reply = "ok"
      BY DEF IdleCall
    <3> HIDE DEF x
    <3> QED
      BY <2>1, <3>1, <3>2
  <2>8. CASE DeleteJob(c)
    <3> DEFINE x(j) == [IdleCall EXCEPT !.pc = "lock", !.op = "delete", !.target = j]
    <3>1. \E j \in Jobs : Become(c, x(j))
      BY <2>8 DEF DeleteJob
    <3>2. \A j \in Jobs : x(j).op = "delete" /\ x(j).reply = "none"
      BY DEF IdleCall
    <3> HIDE DEF x
    <3> QED
      BY <2>1, <3>1, <3>2
  <2>9. CASE Return(c)
    BY <2>1, <2>9 DEF Return, IdleCall
  <2>10. CASE \/ DeleteNext(c) \/ DeleteJobLock(c) \/ CancelScheduled(c) \/ DeleteDump(c)
              \/ DeleteJobWrite(c) \/ RemoveDumpDirectory(c)
    <3>1. call[c].pc \in {"next", "lock", "cancel", "remove", "write", "rmdir"}
      BY <2>10 DEF DeleteNext, DeleteJobLock, CancelScheduled, DeleteDump, DeleteJobWrite,
                   RemoveDumpDirectory
    <3>2. call[c].op \notin {"list", "download", "support"} /\ call[c].reply = "none"
      BY <3>1 DEF Shape, Places
    <3> DEFINE x(p) == [call[c] EXCEPT !.pc = p]
               y(p, t, l) == [call[c] EXCEPT !.pc = p, !.target = t, !.todo = l]
    <3>3. \/ \E r \in {"ok", "error", "canceled"} : Answer(c, r)
          \/ \E p, t, l : Become(c, x(p)) \/ Become(c, y(p, t, l))
      BY <2>10 DEF DeleteNext, DeleteJobLock, CancelScheduled, DeleteDump, DeleteJobWrite,
                   RemoveDumpDirectory, DeleteJobOk
    <3>4. \A p, t, l : /\ x(p).op = call[c].op /\ y(p, t, l).op = call[c].op
                       /\ x(p).reply = call[c].reply /\ y(p, t, l).reply = call[c].reply
      BY <1>0 DEF Call
    <3> HIDE DEF x, y
    <3>5. call'[c].op = call[c].op /\ call'[c].reply \in {"none", "ok", "error", "canceled"}
      BY <2>1, <3>2, <3>3, <3>4, AnswerIs
    <3> QED
      BY <3>2, <3>5
  <2> QED
    BY <1>4, <2>2, <2>3, <2>4, <2>5, <2>6, <2>7, <2>8, <2>9, <2>10 DEF Request, CallStep
<1> QED
  BY <1>1, <1>2, <1>3, <1>4, Steps DEF vars

\* The second half of a reading request.
LEMMA GetFinishedIs ==
  ASSUME TypeOK, NEW c \in Callers, GetFinished(c),
         call[c].op \in {"list", "download", "support"}
  PROVE  LET all == Merge(Listed(call[c].listing), kv) IN
         /\ call[c].pc = "list"
         /\ \/ call'[c].pc = "done" /\ call'[c].reply = "error"
            \/ /\ call[c].op = "list" /\ call'[c].pc = "done"
               /\ call'[c].reply = "ok" /\ call'[c].listing = all
            \/ /\ call[c].op # "list" /\ call'[c].pc = "read"
               /\ call'[c].reply = call[c].reply
               /\ call'[c].target \in Wanted(c, all)
               /\ call'[c].listing[call'[c].target] = all[call'[c].target]
            \/ /\ call[c].op # "list" /\ Wanted(c, all) = {}
               /\ call'[c].pc = "done" /\ call'[c].reply = "missing"
               /\ call'[c].target = call[c].target
<1> DEFINE all == Merge(Listed(call[c].listing), kv)
           x == [call[c] EXCEPT !.pc = "done", !.reply = "ok", !.listing = all]
           z(j) == [call[c] EXCEPT !.pc = "read", !.target = j,
                                   !.listing = [NoRecords EXCEPT ![j] = all[j]]]
<1>1. /\ call[c].pc = "list"
      /\ \/ call[c].op = "list" /\ Become(c, x)
         \/ call[c].op # "list" /\ \E j \in Wanted(c, all) : Become(c, z(j))
         \/ call[c].op # "list" /\ Wanted(c, all) = {} /\ Answer(c, "missing")
         \/ Answer(c, "error")
  BY DEF GetFinished, UseJobs, FindArchive
<1>2. call[c] \in Call /\ Wanted(c, all) \subseteq Jobs
  BY DEF TypeOK, Wanted, Listed
<1>3. x.pc = "done" /\ x.reply = "ok" /\ x.listing = all
  BY <1>2 DEF Call
<1>4. \A j \in Jobs : /\ z(j).pc = "read" /\ z(j).reply = call[c].reply
                      /\ z(j).target = j /\ z(j).listing[j] = all[j]
  BY <1>2 DEF Call, NoRecords
<1> HIDE DEF x, z, all
<1>5. CASE call[c].op = "list" /\ Become(c, x)
  BY <1>1, <1>3, <1>5, BecomeIs DEF all
<1>6. CASE call[c].op # "list" /\ \E j \in Wanted(c, all) : Become(c, z(j))
  BY <1>1, <1>2, <1>4, <1>6, BecomeIs DEF all
<1>7. CASE Answer(c, "error") \/
           (call[c].op # "list" /\ Wanted(c, all) = {} /\ Answer(c, "missing"))
  BY <1>1, <1>7, AnswerIs DEF all
<1> QED
  BY <1>1, <1>5, <1>6, <1>7

\* A job gets its entry of the scheduler when its identifier is handed out.
LEMMA EntriesGrow ==
  ASSUME [Next]_vars
  PROVE  sched' \cap created \subseteq sched
<1> USE DEF storeVars
<1>1. ASSUME NEW n \in Nodes, NEW j \in Jobs, JobStep(n, j)
      PROVE  sched' \subseteq sched
  BY <1>1 DEF JobStep, RunJob, StartCallback, UpdateJobLock, UpdateJobWrite, CreateDump, EndRun
<1>2. ASSUME NEW c \in Callers, Request(c) \/ CallStep(c) \/ ContextDone(c), ~CreateJob(c)
      PROVE  sched' \subseteq sched
  BY <1>2
  DEF Request, CallStep, DeleteJob, GetScheduled, GetScheduledFails, GetFinished, ReadArchive,
      DeleteNext, DeleteJobLock, CancelScheduled, DeleteDump, DeleteJobWrite,
      RemoveDumpDirectory, Return, ContextDone
<1>3. ASSUME NEW c \in Callers, CreateJob(c)
      PROVE  sched' \cap created \subseteq sched
  BY <1>3 DEF CreateJob
<1>4. ASSUME NEW n \in Nodes, Poll(n) \/ Crash(n) \/ Activate(n)
      PROVE  UNCHANGED sched
  BY <1>4 DEF Poll, Crash, Activate
<1> QED
  BY <1>1, <1>2, <1>3, <1>4, Steps DEF vars

\* Only a download and a support packet are refused for want of an archive.
LEMMA RefusalIs ==
  ASSUME TypeOK, Shape, [Next]_vars, NEW c \in Callers,
         call'[c].op \notin {"download", "support"},
         call'[c].reply \in {"missing", "unreadable"}
  PROVE  call'[c] = call[c]
<1>1. call'[c].reply \notin {"none", "ok", "error", "canceled"}
  OBVIOUS
<1>2. ~(call'[c].op = call[c].op /\ ReadArchive(c))
  BY DumpJobsAssumption DEF ReadArchive, Shape, Places, AllOps, Readers
<1>3. ASSUME call'[c].op = call[c].op, GetFinished(c)
      PROVE  call'[c].reply \in {"none", "ok", "error"}
  <2> DEFINE all == Merge(Listed(call[c].listing), kv)
             x == [call[c] EXCEPT !.pc = "done", !.reply = "ok", !.listing = all]
             y == [call[c] EXCEPT !.pc = "next", !.todo = Listed(all), !.listing = NoRecords]
  <2>1. Become(c, x) \/ Become(c, y) \/ Answer(c, "error")
    BY <1>3 DEF GetFinished, UseJobs
  <2>2. call[c].reply = "none"
    BY <1>3 DEF GetFinished, Shape
  <2>3. x.reply = "ok" /\ y.reply = "none"
    BY <2>2 DEF TypeOK, Call
  <2> HIDE DEF x, y
  <2> QED
    BY <2>1, <2>3, BecomeIs, AnswerIs
<1> QED
  BY <1>1, <1>2, <1>3, ReaderMoves

\* What a listing in progress has not lost: the jobs that were there all
\* along still exist, and those that still have an entry were read with it.
Remembered ==
  \A c \in Callers :
    call[c].op = "list" =>
      /\ lasting[c] \subseteq Existing
      /\ call[c].pc = "list" =>
           \A j \in lasting[c] : j \in sched => call[c].listing[j] # "none"
      /\ call[c].pc = "done" /\ call[c].reply = "ok" =>
           lasting[c] \subseteq Listed(call[c].listing)

LEMMA ExistingIs ==
  /\ Existing \subseteq Jobs
  /\ \A j \in Jobs : j \in Existing <=> kv[j] # "none" \/ j \in sched
  BY DEF Existing, Listed, Merge

\* A listing contains every job that exists from its beginning to its end,
\* whatever fails and whoever deletes, runs or restarts in between.
THEOREM ListingsAreComplete == HistSpec => []ListingComplete
<1>1. HistInit => Remembered
  BY DEF HistInit, Init, IdleCall, Remembered
<1>2. ASSUME IInv, Shape, Remembered, [HistNext]_histVars
      PROVE  Remembered'
  <2> USE <1>2
  <2>1. [Next]_vars
    BY DEF HistNext, histVars
  <2> SUFFICES ASSUME NEW c \in Callers, call'[c].op = "list"
               PROVE  /\ lasting'[c] \subseteq Existing'
                      /\ call'[c].pc = "list" =>
                           \A j \in lasting'[c] : j \in sched' => call'[c].listing[j] # "none"
                      /\ call'[c].pc = "done" /\ call'[c].reply = "ok" =>
                           lasting'[c] \subseteq Listed(call'[c].listing)
    BY DEF Remembered
  <2>2. /\ lasting'[c] \subseteq Existing'
        /\ call'[c].op = call[c].op => lasting'[c] \subseteq lasting[c]
        /\ call'[c].op # call[c].op => lasting'[c] = Existing'
    <3>1. CASE call'[c].op = call[c].op
      BY <3>1, LastingIs DEF Still, Remembered
    <3>2. CASE call'[c].op # call[c].op
      <4>1. UNCHANGED <<sched, kv>>
        BY <2>1, <3>2, ReaderMoves DEF IInv
      <4>2. UNCHANGED Existing
        BY <4>1 DEF Existing
      <4> QED
        BY <3>2, <4>2, LastingIs DEF Still
    <3> QED
      BY <3>1, <3>2
  \* An entry that is there now and whose job existed before was there before.
  <2>3. ASSUME NEW j \in Existing, j \in sched'
        PROVE  j \in sched
    BY <2>1, <2>3, ExistingIs, EntriesGrow DEF IInv, KnownJobs
  <2>4. CASE call'[c] = call[c]
    <3>1. lasting[c] \subseteq Existing /\ lasting'[c] \subseteq lasting[c]
      BY <2>2, <2>4 DEF Remembered
    <3> QED
      BY <2>2, <2>3, <2>4, <3>1 DEF Remembered
  <2>5. CASE /\ call[c].op = "none" /\ call'[c].pc = "list"
             /\ call'[c].listing = Merge(sched, NoRecords) /\ UNCHANGED sched
    <3>1. \A j \in Jobs : j \in sched => call'[c].listing[j] # "none"
      BY <2>5 DEF Merge, NoRecords
    <3>2. lasting'[c] \subseteq Jobs
      BY <2>2 DEF Existing, Listed
    <3> QED
      BY <2>2, <2>5, <3>1, <3>2
  <2>6. CASE call'[c].pc = "done" /\ call'[c].reply = "error"
    BY <2>2, <2>6
  <2>7. CASE call'[c].op = call[c].op /\ UNCHANGED <<sched, kv>> /\ GetFinished(c)
    <3> DEFINE all == Merge(Listed(call[c].listing), kv)
    <3>1. /\ call[c].pc = "list" /\ call'[c].pc = "done"
          /\ call'[c].reply \in {"error", "ok"}
          /\ call'[c].reply = "ok" => call'[c].listing = all
      BY <2>7, GetFinishedIs DEF IInv
    <3>2. ASSUME NEW j \in lasting'[c]
          PROVE  j \in Listed(all)
      <4>1. j \in lasting[c] /\ j \in Existing /\ j \in Jobs
        BY <2>2, <2>7, ExistingIs DEF Remembered
      <4>2. kv[j] # "none" \/ call[c].listing[j] # "none"
        BY <2>7, <3>1, <4>1, ExistingIs DEF Remembered
      <4> QED
        BY <4>1, <4>2 DEF Listed, Merge
    <3> QED
      BY <2>2, <3>1, <3>2
  <2>8. ~(call'[c].op = call[c].op /\ ReadArchive(c))
    BY DEF ReadArchive, Shape, Places
  <2> QED
    BY <2>1, <2>4, <2>5, <2>6, <2>7, <2>8, ReaderMoves DEF IInv
<1>3. Remembered => ListingComplete
  BY DEF Remembered, ListingComplete
<1> QED
  BY <1>1, <1>2, <1>3, Invariance, ShapeHolds, HistImpliesSpec, PTL DEF HistSpec

\* What a download or a support packet in progress has not lost.
Kept ==
  \A c \in Callers :
    IF call[c].op \in {"download", "support"}
      THEN /\ lasting[c] \subseteq Archived
           /\ call[c].pc = "read" /\ call[c].target \in lasting[c] =>
                call[c].listing[call[c].target] = "success"
           /\ call[c].reply = "missing" /\ call[c].op = "support" => lasting[c] = {}
           /\ call[c].reply \in {"missing", "unreadable"} => call[c].target \notin lasting[c]
      ELSE call[c].reply \notin {"missing", "unreadable"}

\* No dump is refused that was there all the time, unless the file store
\* fails to read it.
THEOREM ArchivesAreServed ==
  ASSUME "read" \notin Faults
  PROVE  HistSpec => []ArchiveServed
<1>1. HistInit => Kept
  BY DEF HistInit, Init, IdleCall, Kept
<1>2. ASSUME IInv, Shape, Kept, [HistNext]_histVars
      PROVE  Kept'
  <2> USE <1>2
  <2>1. [Next]_vars
    BY DEF HistNext, histVars
  <2>2. ASSUME NEW c \in Callers, call'[c].op \in {"download", "support"}
        PROVE  /\ lasting'[c] \subseteq Archived'
               /\ call'[c].pc = "read" /\ call'[c].target \in lasting'[c] =>
                    call'[c].listing[call'[c].target] = "success"
               /\ call'[c].reply = "missing" /\ call'[c].op = "support" => lasting'[c] = {}
               /\ call'[c].reply \in {"missing", "unreadable"} =>
                    call'[c].target \notin lasting'[c]
    <3>1. /\ lasting'[c] \subseteq Archived'
          /\ call'[c].op = call[c].op => lasting'[c] \subseteq lasting[c]
      <4>1. CASE call'[c].op = call[c].op
        BY <2>2, <4>1, LastingIs DEF Still, Kept
      <4>2. CASE call'[c].op # call[c].op
        <5>1. UNCHANGED <<kv, files>>
          BY <2>1, <2>2, <4>2, ReaderMoves DEF IInv
        <5>2. UNCHANGED Archived
          BY <5>1 DEF Archived
        <5> QED
          BY <2>2, <4>2, <5>2, LastingIs DEF Still
      <4> QED
        BY <4>1, <4>2
    <3>2. CASE call'[c] = call[c]
      BY <2>2, <3>1, <3>2 DEF Kept
    <3>3. CASE \/ call'[c].pc = "list" /\ call'[c].reply = "none"
               \/ call'[c].pc = "done" /\ call'[c].reply = "error"
      BY <3>1, <3>3
    <3>4. CASE /\ call'[c].op = call[c].op /\ UNCHANGED <<sched, kv, files>>
               /\ GetFinished(c)
      <4> DEFINE all == Merge(Listed(call[c].listing), kv)
      <4>1. \A j \in lasting'[c] : j \in Jobs /\ all[j] = "success" /\ j \in lasting[c]
        BY <3>1, <3>4 DEF Archived, Merge, IInv, TypeOK
      <4>2. /\ \/ call'[c].pc = "done" /\ call'[c].reply = "error"
               \/ /\ call'[c].pc = "read" /\ call'[c].reply = call[c].reply
                  /\ call'[c].listing[call'[c].target] = all[call'[c].target]
               \/ /\ Wanted(c, all) = {} /\ call'[c].pc = "done"
                  /\ call'[c].reply = "missing" /\ call'[c].target = call[c].target
            /\ call[c].pc = "list"
        BY <2>2, <3>4, GetFinishedIs DEF IInv
      <4>3. call[c].reply = "none"
        BY <4>2 DEF Shape
      <4> HIDE DEF all
      <4>4. ASSUME Wanted(c, all) = {}
            PROVE  /\ call[c].op = "support" => lasting'[c] = {}
                   /\ call[c].target \notin lasting'[c]
        <5>1. CASE call[c].op = "download"
          BY <4>1, <4>4, <5>1 DEF Wanted, Listed
        <5>2. CASE call[c].op # "download"
          BY <4>1, <4>4, <5>2 DEF Wanted
        <5> QED
          BY <5>1, <5>2
      <4> QED
        BY <3>1, <3>4, <4>1, <4>2, <4>3, <4>4
    <3>5. CASE /\ call'[c].op = call[c].op /\ UNCHANGED <<sched, kv, files>>
               /\ ReadArchive(c)
      <4>1. /\ call'[c].pc = "done" /\ call'[c].target = call[c].target
            /\ call'[c].reply = IF /\ call[c].listing[call[c].target] = "success"
                                   /\ call[c].target \in files
                                  THEN "ok" ELSE "unreadable"
            /\ call[c].pc = "read"
        BY <3>5, AnswerIs DEF ReadArchive, IInv
      <4>2. call[c].target \in lasting'[c] =>
              /\ call[c].listing[call[c].target] = "success"
              /\ call[c].target \in files
        BY <2>2, <3>1, <3>5, <4>1 DEF Kept, Archived
      <4> QED
        BY <3>1, <4>1, <4>2
    <3> QED
      BY <2>1, <2>2, <3>2, <3>3, <3>4, <3>5, ReaderMoves DEF IInv
  <2>3. ASSUME NEW c \in Callers, call'[c].op \notin {"download", "support"}
        PROVE  call'[c].reply \notin {"missing", "unreadable"}
    BY <2>1, <2>3, RefusalIs DEF IInv, Kept
  <2> QED
    BY <2>2, <2>3 DEF Kept
<1>3. ASSUME Kept
      PROVE  ArchiveServed
  BY <1>3 DEF Kept, ArchiveServed
<1> QED
  BY <1>1, <1>2, <1>3, Invariance, ShapeHolds, HistImpliesSpec, PTL DEF HistSpec

=============================================================================
