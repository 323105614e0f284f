---------------------------- MODULE JobRegistry ----------------------------
(***************************************************************************)
(* What the dump jobs of the plugin look like to an administrator who can  *)
(* see the whole cluster at once: a registry in which every job has one    *)
(* visible status and at most one outcome.  Nodes, locks, the scheduler,   *)
(* the split of the registry over two kinds of KV entries and the order of *)
(* reads and writes are gone.  DumpJobs implements this module.            *)
(***************************************************************************)
CONSTANT Jobs

Outcomes == {"error", "success"}
Visible  == {"absent", "pending", "in_progress"} \cup Outcomes

VARIABLES
  used,     \* identifiers handed out
  visible,  \* visible[j]: what a complete listing shows of job j
  outcome   \* outcome[j]: how the callback of job j ended

vars == <<used, visible, outcome>>

Init ==
  /\ used = {}
  /\ visible = [j \in Jobs |-> "absent"]
  /\ outcome = [j \in Jobs |-> "none"]

\* A new job, under an identifier that was never used before.
Create(j) ==
  /\ j \notin used
  /\ used' = used \cup {j}
  /\ visible' = [visible EXCEPT ![j] = "pending"]
  /\ UNCHANGED outcome

\* The callback begins; it does so before it has an outcome.
Start(j) ==
  /\ visible[j] = "pending" /\ outcome[j] = "none"
  /\ visible' = [visible EXCEPT ![j] = "in_progress"]
  /\ UNCHANGED <<used, outcome>>

\* The dump is made, or fails: once and for all.
Decide(j) ==
  /\ visible[j] \in {"pending", "in_progress"} /\ outcome[j] = "none"
  /\ \E o \in Outcomes : outcome' = [outcome EXCEPT ![j] = o]
  /\ UNCHANGED <<used, visible>>

\* The outcome becomes visible.
Publish(j) ==
  /\ visible[j] \in {"pending", "in_progress"} /\ outcome[j] # "none"
  /\ visible' = [visible EXCEPT ![j] = outcome[j]]
  /\ UNCHANGED <<used, outcome>>

\* The job is deleted or cancelled.  A job that is being run is shown as
\* pending again until its run is over.
Withdraw(j) ==
  /\ visible[j] # "absent"
  /\ \E s \in {"absent", "pending"} : visible' = [visible EXCEPT ![j] = s]
  /\ UNCHANGED <<used, outcome>>

Next ==
  \E j \in Jobs :
    Create(j) \/ Start(j) \/ Decide(j) \/ Publish(j) \/ Withdraw(j)

Spec == Init /\ [][Next]_vars

=============================================================================
