--------------------------- MODULE JobTableProofs ---------------------------
(***************************************************************************)
(* The invariant of JobTable, for any set of jobs and any number of        *)
(* requests in flight.                                                     *)
(***************************************************************************)
EXTENDS JobTable, TLAPS

\* What a step of the registry does to the outcomes: one that exists stays.
OutcomesStay ==
  \A j \in Jobs : outcome[j] # "none" => outcome'[j] = outcome[j]

\* A list is truthful after the step.
TruthfulNext(list) == \A j \in Jobs : list[j] \in R!Outcomes => list[j] = outcome'[j]

LEMMA NoJobsIsTruthful ==
  /\ NoJobs \in List /\ Truthful(NoJobs)
  /\ NoReload \in Reload /\ NoReload.list = NoJobs
  /\ Sent \in Reload /\ Sent.list = NoJobs
  /\ NoCommand \in Command /\ NoCommand.kind = "none"
<1>1. NoJobs \in List /\ Truthful(NoJobs)
  BY DEF NoJobs, List, R!Visible, R!Outcomes, Truthful
<1> QED
  BY <1>1 DEF NoReload, Sent, Reload, NoCommand, Command, Kinds

\* A list stays truthful when outcomes stay.
LEMMA StaysTruthful ==
  ASSUME NEW l, Truthful(l), OutcomesStay
  PROVE  TruthfulNext(l)
  BY DEF Truthful, TruthfulNext, OutcomesStay, R!Outcomes

LEMMA RegistryStep ==
  ASSUME TypeOK, Truthful(visible),
         R!Next \/ UNCHANGED registry
  PROVE  /\ used' \in SUBSET Jobs /\ visible' \in List
         /\ outcome' \in [Jobs -> R!Outcomes \cup {"none"}]
         /\ OutcomesStay
         /\ Truthful(visible)'
<1>1. CASE UNCHANGED registry
  BY <1>1 DEF registry, TypeOK, OutcomesStay, Truthful
<1>2. ASSUME NEW j \in Jobs, R!Create(j) \/ R!Start(j) \/ R!Withdraw(j)
      PROVE  /\ used' \in SUBSET Jobs /\ visible' \in List /\ UNCHANGED outcome
             /\ \A k \in Jobs : visible'[k] \in {visible[k], "pending", "in_progress", "absent"}
  BY <1>2 DEF R!Create, R!Start, R!Withdraw, TypeOK, List, R!Visible
<1>3. ASSUME NEW j \in Jobs, R!Decide(j)
      PROVE  /\ UNCHANGED <<used, visible>> /\ outcome[j] = "none" /\ visible[j] \notin R!Outcomes
             /\ \E o \in R!Outcomes : outcome' = [outcome EXCEPT ![j] = o]
  BY <1>3 DEF R!Decide, R!Outcomes
<1>4. ASSUME NEW j \in Jobs, R!Publish(j)
      PROVE  UNCHANGED <<used, outcome>> /\ visible' = [visible EXCEPT ![j] = outcome[j]]
             /\ outcome[j] # "none"
  BY <1>4 DEF R!Publish
<1>5. CASE \E j \in Jobs : R!Create(j) \/ R!Start(j) \/ R!Withdraw(j)
  BY <1>2, <1>5 DEF TypeOK, OutcomesStay, Truthful, R!Outcomes
<1>6. CASE \E j \in Jobs : R!Decide(j)
  <2>1. PICK j \in Jobs : R!Decide(j)
    BY <1>6
  <2> QED
    BY <1>3, <2>1 DEF TypeOK, OutcomesStay, Truthful
<1>7. CASE \E j \in Jobs : R!Publish(j)
  <2>1. PICK j \in Jobs : R!Publish(j)
    BY <1>7
  <2> QED
    BY <1>4, <2>1 DEF TypeOK, List, R!Visible, R!Outcomes, OutcomesStay, Truthful
<1> QED
  BY <1>1, <1>5, <1>6, <1>7 DEF R!Next

\* Where the lists and the requests of a step come from decides whether
\* OnlyEndedTouched survives it.
LEMMA EndedStays ==
  ASSUME OnlyEndedTouched, OutcomesStay, Truthful(visible)',
         shown' \in {shown, NoJobs, mount.list} \cup {reload[r].list : r \in Reloads},
         mount'.list \in {mount.list, NoJobs, visible},
         \A r \in Reloads : reload'[r].list \in {reload[r].list, NoJobs, visible},
         \A k \in Commands : command'[k].kind = "remove" =>
           \/ command[k].kind = "remove" /\ command'[k].job = command[k].job
           \/ command'[k].job \in Jobs /\ outcome[command'[k].job] # "none"
  PROVE  OnlyEndedTouched'
<1>1. \A l \in {shown, NoJobs, mount.list, visible} \cup {reload[r].list : r \in Reloads} :
        TruthfulNext(l)
  BY StaysTruthful, NoJobsIsTruthful DEF OnlyEndedTouched
<1>2. /\ TruthfulNext(shown') /\ TruthfulNext(mount'.list)
      /\ \A r \in Reloads : TruthfulNext(reload'[r].list)
  BY <1>1
<1>3. \A k \in Commands : command'[k].kind = "remove" =>
        command'[k].job \in Jobs /\ outcome'[command'[k].job] # "none"
  BY DEF OnlyEndedTouched, OutcomesStay
<1> QED
  BY <1>2, <1>3 DEF OnlyEndedTouched, Truthful, TruthfulNext

LEMMA TableInit == Init => TableInv
<1> SUFFICES ASSUME Init PROVE TableInv
  OBVIOUS
<1> USE NoJobsIsTruthful
<1>1. used = {} /\ visible = NoJobs /\ outcome = [j \in Jobs |-> "none"]
  BY DEF Init, R!Init, NoJobs
<1>2. TypeOK
  <2>1. failures \in 0..MaxFailures
    BY JobTableAssumption DEF Init
  <2> QED
    BY <1>1, <2>1 DEF Init, TypeOK, Mount, MountPC
<1>3. TimerEnds
  BY DEF Init, TimerEnds
<1>4. OnlyEndedTouched
  BY <1>1 DEF Init, OnlyEndedTouched
<1> QED
  BY <1>2, <1>3, <1>4 DEF TableInv

\* The conclusions of RegistryStep and the premises of EndedStays for a step
\* that leaves the registry alone.
LEMMA RegistryUntouched ==
  ASSUME TableInv, UNCHANGED registry
  PROVE  /\ used' \in SUBSET Jobs /\ visible' \in List
         /\ outcome' \in [Jobs -> R!Outcomes \cup {"none"}]
         /\ OutcomesStay
         /\ Truthful(visible)'
  BY RegistryStep DEF TableInv, OnlyEndedTouched

LEMMA TableStep == TableInv /\ [Next]_vars => TableInv'
<1> SUFFICES ASSUME TableInv, [Next]_vars PROVE TableInv'
  OBVIOUS
<1> USE NoJobsIsTruthful
<1>typed. TypeOK /\ TimerEnds /\ OnlyEndedTouched
  BY DEF TableInv
<1>mjobs. CASE MountJobs
  <2>1. TypeOK'
    BY <1>typed, <1>mjobs, RegistryUntouched DEF MountJobs, modals, Mount, MountPC, TypeOK
  <2>2. OnlyEndedTouched'
    BY <1>typed, <1>mjobs, RegistryUntouched, EndedStays DEF MountJobs
  <2>3. TimerEnds'
    BY <1>typed, <1>mjobs DEF MountJobs, TimerEnds
  <2> QED
    BY <2>1, <2>2, <2>3 DEF TableInv
<1>mstats. CASE MountStats
  <2>1. TypeOK'
    BY <1>typed, <1>mstats, RegistryUntouched DEF MountStats, Show, modals, Mount, MountPC, TypeOK
  <2>2. OnlyEndedTouched'
    BY <1>typed, <1>mstats, RegistryUntouched, EndedStays DEF MountStats, Show
  <2>3. TimerEnds'
    BY <1>typed, <1>mstats DEF MountStats, TimerEnds
  <2> QED
    BY <2>1, <2>2, <2>3 DEF TableInv
<1>mfails. CASE MountFails
  <2>1. TypeOK'
    BY <1>typed, <1>mfails, RegistryUntouched, JobTableAssumption DEF MountFails, Fails, modals, Mount, MountPC, TypeOK
  <2>2. OnlyEndedTouched'
    BY <1>typed, <1>mfails, RegistryUntouched, EndedStays DEF MountFails
  <2>3. TimerEnds'
    BY <1>typed, <1>mfails DEF MountFails, TimerEnds
  <2> QED
    BY <2>1, <2>2, <2>3 DEF TableInv
<1>unmount. CASE Unmount
  <2>1. TypeOK'
    BY <1>typed, <1>unmount, RegistryUntouched DEF Unmount, TypeOK
  <2>2. OnlyEndedTouched'
    BY <1>typed, <1>unmount, RegistryUntouched, EndedStays DEF Unmount
  <2>3. TimerEnds'
    BY <1>typed, <1>unmount DEF Unmount, TimerEnds
  <2> QED
    BY <2>1, <2>2, <2>3 DEF TableInv
<1>tick. ASSUME NEW r \in TimerReloads, Tick(r) PROVE TableInv'
  <2>1. TypeOK'
    BY <1>typed, <1>tick, RegistryUntouched DEF Tick, page, modals, Reload, Reloads, TypeOK
  <2>2. OnlyEndedTouched'
    BY <1>typed, <1>tick, RegistryUntouched, EndedStays DEF Tick, page, Reload, Reloads
  <2>3. TimerEnds'
    BY <1>typed, <1>tick DEF Tick, page, TimerEnds
  <2> QED
    BY <2>1, <2>2, <2>3 DEF TableInv
<1>serve. ASSUME NEW r \in Reloads, ServeReload(r) PROVE TableInv'
  <2>1. TypeOK'
    BY <1>typed, <1>serve, RegistryUntouched DEF ServeReload, page, modals, Reload, TypeOK
  <2>2. OnlyEndedTouched'
    BY <1>typed, <1>serve, RegistryUntouched, EndedStays DEF ServeReload, page, Reload
  <2>3. TimerEnds'
    BY <1>typed, <1>serve DEF ServeReload, page, TimerEnds
  <2> QED
    BY <2>1, <2>2, <2>3 DEF TableInv
<1>show. ASSUME NEW r \in Reloads, ShowJobs(r) PROVE TableInv'
  <2>1. TypeOK'
    BY <1>typed, <1>show, RegistryUntouched DEF ShowJobs, Show, page, modals, Reload, TypeOK
  <2>2. OnlyEndedTouched'
    BY <1>typed, <1>show, RegistryUntouched, EndedStays DEF ShowJobs, Show, page, Reload
  <2>3. TimerEnds'
    BY <1>typed, <1>show DEF ShowJobs, page, TimerEnds
  <2> QED
    BY <2>1, <2>2, <2>3 DEF TableInv
<1>rfails. ASSUME NEW r \in Reloads, ReloadFails(r) PROVE TableInv'
  <2>1. TypeOK'
    BY <1>typed, <1>rfails, RegistryUntouched, JobTableAssumption DEF ReloadFails, Fails, page, modals, Reload, TypeOK
  <2>2. OnlyEndedTouched'
    BY <1>typed, <1>rfails, RegistryUntouched, EndedStays DEF ReloadFails, page, Reload
  <2>3. TimerEnds'
    BY <1>typed, <1>rfails DEF ReloadFails, page, TimerEnds
  <2> QED
    BY <2>1, <2>2, <2>3 DEF TableInv
<1>modal. CASE OpenOrClose
  <2>1. TypeOK'
    BY <1>typed, <1>modal, RegistryUntouched DEF OpenOrClose, page, TypeOK
  <2>2. OnlyEndedTouched'
    BY <1>typed, <1>modal, RegistryUntouched, EndedStays DEF OpenOrClose, page
  <2>3. TimerEnds'
    BY <1>typed, <1>modal DEF OpenOrClose, page, TimerEnds
  <2> QED
    BY <2>1, <2>2, <2>3 DEF TableInv
<1>submit. ASSUME NEW k \in Commands, Submit(k) PROVE TableInv'
  <2>1. TypeOK'
    BY <1>typed, <1>submit, RegistryUntouched DEF Submit, Request, page, modals, Command, Kinds, TypeOK
  <2>2. OnlyEndedTouched'
    BY <1>typed, <1>submit, RegistryUntouched, EndedStays DEF Submit, Request, page, Command
  <2>3. TimerEnds'
    BY <1>typed, <1>submit DEF Submit, Request, page, TimerEnds
  <2> QED
    BY <2>1, <2>2, <2>3 DEF TableInv
<1>confirm. ASSUME NEW k \in Commands, Confirm(k) PROVE TableInv'
  <2>1. TypeOK'
    BY <1>typed, <1>confirm, RegistryUntouched DEF Confirm, Request, page, modals, Command, Kinds, TypeOK
  <2>2. OnlyEndedTouched'
    BY <1>typed, <1>confirm, RegistryUntouched, EndedStays DEF Confirm, Request, page, Command
  <2>3. TimerEnds'
    BY <1>typed, <1>confirm DEF Confirm, Request, page, TimerEnds
  <2> QED
    BY <2>1, <2>2, <2>3 DEF TableInv
<1>remove. ASSUME NEW k \in Commands, NEW j \in Jobs, Remove(k, j) PROVE TableInv'
  <2>1. TypeOK'
    BY <1>typed, <1>remove, RegistryUntouched DEF Remove, Removable, Request, page, modals, Command, Kinds, TypeOK
  <2>2. OnlyEndedTouched'
    <3>1. outcome[j] # "none"
      BY <1>typed, <1>remove DEF Remove, Removable, OnlyEndedTouched, Truthful, R!Outcomes
    <3>2. UNCHANGED <<registry, shown, mount, reload>>
      BY <1>remove DEF Remove, Request, page
    <3>3. \A c \in Commands : command'[c].kind = "remove" =>
            \/ command[c].kind = "remove" /\ command'[c].job = command[c].job
            \/ command'[c].job = j
      BY <1>typed, <1>remove DEF Remove, Request, TypeOK, Command
    <3> QED
      BY <1>typed, <3>1, <3>2, <3>3, RegistryUntouched, EndedStays
  <2>3. TimerEnds'
    BY <1>typed, <1>remove DEF Remove, Request, page, TimerEnds
  <2> QED
    BY <2>1, <2>2, <2>3 DEF TableInv
<1>finish. ASSUME NEW k \in Commands, Finish(k) PROVE TableInv'
  <2>1. TypeOK'
    BY <1>typed, <1>finish, RegistryUntouched DEF Finish, page, Reload, Reloads, TypeOK
  <2>2. OnlyEndedTouched'
    BY <1>typed, <1>finish, RegistryUntouched, EndedStays DEF Finish, page, Reload, Reloads
  <2>3. TimerEnds'
    BY <1>typed, <1>finish DEF Finish, page, TimerEnds
  <2> QED
    BY <2>1, <2>2, <2>3 DEF TableInv
<1>answer. ASSUME NEW k \in Commands, Answer(k) PROVE TableInv'
  <2>1. R!Next \/ UNCHANGED registry
    BY <1>typed, <1>answer DEF Answer, Effect, R!Next, OnlyEndedTouched
  <2>2. command' \in [Commands -> Command] /\ UNCHANGED <<page, shown, modals, reload, failures>>
    BY <1>typed, <1>answer DEF Answer, TypeOK, Command
  <2>3. \A c \in Commands : command'[c].kind = command[c].kind /\ command'[c].job = command[c].job
    BY <1>typed, <1>answer DEF Answer, TypeOK, Command
  <2>4. TypeOK' /\ TimerEnds'
    BY <1>typed, <2>1, <2>2, RegistryStep DEF page, modals, TypeOK, OnlyEndedTouched, TimerEnds
  <2>5. OnlyEndedTouched'
    BY <1>typed, <2>1, <2>2, <2>3, RegistryStep, EndedStays DEF page, OnlyEndedTouched
  <2> QED
    BY <2>4, <2>5 DEF TableInv
<1>server. CASE Server
  <2>1. R!Next /\ UNCHANGED <<page, shown, modals, command, reload, failures>>
    BY <1>server DEF Server
  <2>2. TypeOK' /\ TimerEnds'
    BY <1>typed, <2>1, RegistryStep DEF page, modals, TypeOK, OnlyEndedTouched, TimerEnds
  <2>3. OnlyEndedTouched'
    BY <1>typed, <2>1, RegistryStep, EndedStays DEF page, OnlyEndedTouched
  <2> QED
    BY <2>2, <2>3 DEF TableInv
<1>stutter. CASE UNCHANGED vars
  <2>1. TypeOK'
    BY <1>typed, <1>stutter DEF vars, registry, page, modals, TypeOK
  <2>2. OnlyEndedTouched'
    BY <1>typed, <1>stutter DEF vars, registry, page, OnlyEndedTouched, Truthful
  <2>3. TimerEnds'
    BY <1>typed, <1>stutter DEF vars, page, TimerEnds
  <2> QED
    BY <2>1, <2>2, <2>3 DEF TableInv
<1> QED
  BY <1>mjobs, <1>mstats, <1>mfails, <1>unmount, <1>tick, <1>serve, <1>show, <1>rfails, <1>modal,
     <1>submit, <1>confirm, <1>remove, <1>finish, <1>answer, <1>server, <1>stutter DEF Next

\* Whatever the order of answers, whatever fails and whoever else works on
\* the jobs: "Download" is offered only for dumps that have been made, the
\* table asks to remove only jobs that have ended, and its interval ends with
\* it unless it went before its first answers (job_table.tsx:50-68, 92;
\* job_download_link.tsx:9).
THEOREM TableInvariance == Spec => []TableInv
<1> QED
  BY TableInit, TableStep, PTL DEF Spec

=============================================================================
