------------------------------ MODULE JobTable ------------------------------
(***************************************************************************)
(* The table of dump jobs in the system console (webapp/src/components/    *)
(* admin_settings: job_table.tsx, job_schedule_modal.tsx,                  *)
(* job_remove_modal.tsx, job_download_link.tsx, actions.tsx), from its     *)
(* mounting to after its unmounting, over the registry the server keeps.   *)
(*                                                                         *)
(* The server is module JobRegistry, which DumpJobs implements: the        *)
(* requests of this table and those of everybody else make its steps.      *)
(* Requests take any time, and their answers arrive in any order.  Which   *)
(* days a dump is requested for is not modelled.                           *)
(***************************************************************************)
EXTENDS Naturals

CONSTANTS
  Jobs,         \* jobs that can be created
  TimerReloads, \* reloads of the timer that can be in flight at a time
  Commands,     \* commands that can be in flight at a time
  MaxFailures,  \* requests for jobs or statistics that may fail
  NoJob         \* a command that is not about one job

ASSUME JobTableAssumption ==
  /\ NoJob \notin Jobs
  /\ TimerReloads \cap Commands = {}
  /\ MaxFailures \in Nat

VARIABLES
  used, visible, outcome, \* the registry on the server
  mounted,   \* between componentDidMount and componentWillUnmount
  mount,     \* how far componentDidMount has come
  timer,     \* the interval of 15 seconds is set
  early,     \* componentWillUnmount found no interval to clear
  shown,     \* shown[j]: the status of j in state.jobs
  schedule,  \* state.showScheduleModal
  removal,   \* state.showRemoveModal
  command,   \* command[k]: a request that changes jobs
  reload,    \* reload[r]: a call of reload; each command has one of its own
  failures   \* requests that have failed

R == INSTANCE JobRegistry

registry == <<used, visible, outcome>>
modals   == <<schedule, removal>>
page     == <<mounted, mount, timer, early>>
vars     == <<registry, page, shown, modals, command, reload, failures>>

List    == [Jobs -> R!Visible]
NoJobs  == [j \in Jobs |-> "absent"]
Reloads == TimerReloads \cup Commands

MountPC == {"jobs",   \* awaits getJobs
            "stats",  \* awaits getTSDBStats
            "done",
            "failed"}
Mount   == [pc: MountPC, list: List]

Kinds   == {"none", "create", "remove", "removeAll"}
Command == [pc: {"idle", "sent", "done", "failed"}, kind: Kinds, job: Jobs \cup {NoJob}]
Reload  == [pc: {"idle", "sent", "answered"}, list: List]

NoCommand == [pc |-> "idle", kind |-> "none", job |-> NoJob]
NoReload  == [pc |-> "idle", list |-> NoJobs]
Sent      == [pc |-> "sent", list |-> NoJobs]

TypeOK ==
  /\ used \in SUBSET Jobs /\ visible \in List
  /\ outcome \in [Jobs -> R!Outcomes \cup {"none"}]
  /\ mounted \in BOOLEAN /\ timer \in BOOLEAN /\ early \in BOOLEAN
  /\ schedule \in BOOLEAN /\ removal \in BOOLEAN
  /\ mount \in Mount
  /\ shown \in List
  /\ command \in [Commands -> Command]
  /\ reload \in [Reloads -> Reload]
  /\ failures \in 0..MaxFailures

Init ==
  /\ R!Init
  /\ mounted = TRUE /\ mount = [pc |-> "jobs", list |-> NoJobs]
  /\ timer = FALSE /\ early = FALSE
  /\ shown = NoJobs
  /\ schedule = FALSE /\ removal = FALSE
  /\ command = [k \in Commands |-> NoCommand]
  /\ reload = [r \in Reloads |-> NoReload]
  /\ failures = 0

Fails == failures < MaxFailures /\ failures' = failures + 1

\* setState; on a table that is gone it does nothing.
Show(list) == shown' = IF mounted THEN list ELSE shown

(***************************************************************************)
(* componentDidMount and componentWillUnmount.                             *)
(***************************************************************************)

\* The jobs arrive, and the statistics are asked for.
MountJobs ==
  /\ mount.pc = "jobs"
  /\ mount' = [pc |-> "stats", list |-> visible]
  /\ UNCHANGED <<registry, mounted, timer, early, shown, modals, command, reload, failures>>

\* Mutation: no interval is set.
MountStatsNoTimer ==
  /\ mount.pc = "stats"
  /\ mount' = [pc |-> "done", list |-> NoJobs]
  /\ Show(mount.list)
  /\ UNCHANGED <<registry, mounted, timer, early, modals, command, reload, failures>>

\* The statistics arrive; the jobs, which may be older than those of a
\* reload, are shown, and the interval is set, even if the table is gone.
MountStats ==
  /\ mount.pc = "stats"
  /\ mount' = [pc |-> "done", list |-> NoJobs]
  /\ Show(mount.list)
  /\ timer' = TRUE
  /\ UNCHANGED <<registry, mounted, early, modals, command, reload, failures>>

\* One of the two requests fails, and nothing more happens.
MountFails ==
  /\ mount.pc \in {"jobs", "stats"}
  /\ Fails
  /\ mount' = [pc |-> "failed", list |-> NoJobs]
  /\ UNCHANGED <<registry, mounted, timer, early, shown, modals, command, reload>>

\* Mutation: the interval is kept.
UnmountKeepsTimer ==
  /\ mounted
  /\ mounted' = FALSE /\ early' = ~timer
  /\ shown' = NoJobs /\ schedule' = FALSE /\ removal' = FALSE
  /\ UNCHANGED <<registry, mount, timer, command, reload, failures>>

\* The table goes, with its state, but not the requests in flight.
Unmount ==
  /\ mounted
  /\ mounted' = FALSE /\ early' = ~timer
  /\ timer' = FALSE
  /\ shown' = NoJobs /\ schedule' = FALSE /\ removal' = FALSE
  /\ UNCHANGED <<registry, mount, command, reload, failures>>

(***************************************************************************)
(* reload.                                                                 *)
(***************************************************************************)

Tick(r) ==
  /\ timer /\ reload[r].pc = "idle"
  /\ reload' = [reload EXCEPT ![r] = Sent]
  /\ UNCHANGED <<registry, page, shown, modals, command, failures>>

\* The server lists the jobs.
ServeReload(r) ==
  /\ reload[r].pc = "sent"
  /\ reload' = [reload EXCEPT ![r] = [pc |-> "answered", list |-> visible]]
  /\ UNCHANGED <<registry, page, shown, modals, command, failures>>

\* Mutation: an empty list, which the server sends when the last job is gone,
\* is taken for a missing one.
ShowJobsUnlessEmpty(r) ==
  /\ reload[r].pc = "answered"
  /\ reload' = [reload EXCEPT ![r] = NoReload]
  /\ Show(IF reload[r].list = NoJobs THEN shown ELSE reload[r].list)
  /\ UNCHANGED <<registry, page, modals, command, failures>>

\* The answer arrives, perhaps after that of a later reload.
ShowJobs(r) ==
  /\ reload[r].pc = "answered"
  /\ reload' = [reload EXCEPT ![r] = NoReload]
  /\ Show(reload[r].list)
  /\ UNCHANGED <<registry, page, modals, command, failures>>

ReloadFails(r) ==
  /\ reload[r].pc \in {"sent", "answered"}
  /\ Fails
  /\ reload' = [reload EXCEPT ![r] = NoReload]
  /\ UNCHANGED <<registry, page, shown, modals, command>>

(***************************************************************************)
(* The administrator.                                                      *)
(***************************************************************************)

\* "Create Dump" and "Remove All" open a modal; the second is inactive while
\* the list is empty.  Both modals can be closed.
OpenOrClose ==
  /\ mounted
  /\ \/ schedule' = ~schedule /\ UNCHANGED removal
     \/ (removal \/ shown # NoJobs) /\ removal' = ~removal /\ UNCHANGED schedule
  /\ UNCHANGED <<registry, page, shown, command, reload, failures>>

\* Mutation: a job is offered for removal as long as it is listed.
RemovableAlways == R!Visible \ {"absent"}

\* The statuses for which JobDownloadLink offers "Remove".
Removable == {"success", "error"}

\* A request that changes jobs.  Nothing keeps the administrator from making
\* it again before the answer.
Request(k, kind, j) ==
  /\ mounted /\ command[k].pc = "idle"
  /\ command' = [command EXCEPT ![k] = [pc |-> "sent", kind |-> kind, job |-> j]]
  /\ UNCHANGED <<registry, page, shown, modals, reload, failures>>

Submit(k)    == schedule /\ Request(k, "create", NoJob)
Confirm(k)   == removal /\ Request(k, "removeAll", NoJob)
Remove(k, j) == shown[j] \in Removable /\ Request(k, "remove", j)

\* What the server does for a request.  DeleteAllJobs withdraws, one by one,
\* the jobs it has listed: these are steps of Server.
Effect(c) ==
  \/ c.kind = "create" /\ \E j \in Jobs : R!Create(j)
  \/ c.kind = "remove" /\ R!Withdraw(c.job)
  \/ c.kind = "remove" /\ visible[c.job] = "absent" /\ UNCHANGED registry
  \/ c.kind = "removeAll" /\ UNCHANGED registry

\* The answer arrives.  A request that fails may have had its effect.
Answer(k) ==
  /\ command[k].pc = "sent"
  /\ \/ Effect(command[k]) /\ \E a \in {"done", "failed"} : command' = [command EXCEPT ![k].pc = a]
     \/ UNCHANGED registry /\ command' = [command EXCEPT ![k].pc = "failed"]
  /\ UNCHANGED <<page, shown, modals, reload, failures>>

\* Mutation: then instead of finally.
FinishThen(k) ==
  /\ command[k].pc \in {"done", "failed"} /\ reload[k].pc = "idle"
  /\ reload' = IF command[k].pc = "done" THEN [reload EXCEPT ![k] = Sent] ELSE reload
  /\ schedule' = (schedule /\ (command[k].kind = "create" => command[k].pc = "failed"))
  /\ removal' = (removal /\ (command[k].kind = "removeAll" => command[k].pc = "failed"))
  /\ command' = [command EXCEPT ![k] = NoCommand]
  /\ UNCHANGED <<registry, page, shown, failures>>

\* Whatever the answer, the jobs are asked for again and the modal closes.
Finish(k) ==
  /\ command[k].pc \in {"done", "failed"} /\ reload[k].pc = "idle"
  /\ reload' = [reload EXCEPT ![k] = Sent]
  /\ schedule' = (schedule /\ command[k].kind # "create")
  /\ removal' = (removal /\ command[k].kind # "removeAll")
  /\ command' = [command EXCEPT ![k] = NoCommand]
  /\ UNCHANGED <<registry, page, shown, failures>>

\* The scheduler, and requests of everybody else.
Server ==
  /\ R!Next
  /\ UNCHANGED <<page, shown, modals, command, reload, failures>>

Next ==
  \/ MountJobs \/ MountStats \/ MountFails \/ Unmount
  \/ \E r \in TimerReloads : Tick(r)
  \/ \E r \in Reloads : ServeReload(r) \/ ShowJobs(r) \/ ReloadFails(r)
  \/ OpenOrClose
  \/ \E k \in Commands : \/ Submit(k) \/ Confirm(k) \/ Answer(k) \/ Finish(k)
                         \/ \E j \in Jobs : Remove(k, j)
  \/ Server

Spec == Init /\ [][Next]_vars

\* The timer ticks, requests are answered, and answers are handled.
Fairness ==
  /\ WF_vars(MountJobs) /\ WF_vars(MountStats)
  /\ \A r \in TimerReloads : WF_vars(Tick(r))
  /\ \A r \in Reloads : WF_vars(ServeReload(r)) /\ WF_vars(ShowJobs(r))
  /\ \A k \in Commands : WF_vars(Answer(k)) /\ WF_vars(Finish(k))

FairSpec == Spec /\ Fairness

(***************************************************************************)
(* Properties.                                                             *)
(***************************************************************************)

\* An outcome that a list shows is the outcome the job has.
Truthful(list) == \A j \in Jobs : list[j] \in R!Outcomes => list[j] = outcome[j]

\* However old the list, and in whatever order answers arrive, "Download" and
\* the "Remove" of a single job are offered only for a job that has had its
\* outcome (job_download_link.tsx:9), so that this request never makes DeleteJob
\* cancel a job that runs (job.go:184).  "Remove All" (job_table.tsx:98-103)
\* does: it withdraws running jobs too, and nothing is said of it here.
OnlyEndedTouched ==
  /\ Truthful(visible) /\ Truthful(shown) /\ Truthful(mount.list)
  /\ \A r \in Reloads : Truthful(reload[r].list)
  /\ \A k \in Commands :
       command[k].kind = "remove" => command[k].job \in Jobs /\ outcome[command[k].job] # "none"

\* The interval does not outlive the table, unless the table went before its
\* first answers (job_table.tsx:56, 60).
TimerEnds ==
  /\ ~mounted /\ timer => early
  /\ ~mounted /\ mount.pc \in {"jobs", "stats"} => early
  /\ timer => mount.pc = "done"

\* The inductive invariant.
TableInv == TypeOK /\ TimerEnds /\ OnlyEndedTouched

\* Once the jobs on the server stay the same, the table comes to show them
\* and keeps showing them, in spite of lost answers and of old ones that
\* arrive late (job_table.tsx:55, 67).
TableConverges ==
  \A L \in List : <>[](mounted /\ mount.pc = "done" /\ visible = L) => <>[](shown = L)

\* A modal whose request was sent closes, whether the request fails or not
\* (job_table.tsx:82, 99).
ModalCloses ==
  \A k \in Commands :
    /\ command[k].kind = "create" ~> ~schedule
    /\ command[k].kind = "removeAll" ~> ~removal

=============================================================================
