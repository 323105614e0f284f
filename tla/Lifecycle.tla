------------------------------ MODULE Lifecycle ------------------------------
(***************************************************************************)
(* Activation and deactivation of the plugin (server/plugin.go), on every  *)
(* server of a deployment.                                                 *)
(*                                                                         *)
(* In HA the processes compete for a cluster mutex, singletonLock: the one *)
(* that gets it is the scraper, which opens the TSDB and starts four       *)
(* goroutines; the others only serve requests.  The goroutines are         *)
(*   mgr   the scrape manager, a loop that receives target groups over     *)
(*         syncCh and scrapes them into the TSDB;                          *)
(*   ping  the loop that looks for changes of the cluster every minute and *)
(*         sends the targets over syncCh;                                  *)
(*   stop  stops the scrape manager when closeChan is closed;              *)
(*   sync  syncFileStore (module MetricsStore).                            *)
(* OnDeactivate closes closeChan, waits for all of them, closes the TSDB   *)
(* and then releases the mutex.                                            *)
(*                                                                         *)
(* The server runs OnActivate once in a process and OnDeactivate at most   *)
(* once, after it; tsdbLock, which only the two take, is never contended.  *)
(* The cluster mutex, the scrape manager, the TSDB and the discovery table *)
(* are not part of the repository.                                         *)
(***************************************************************************)
EXTENDS FiniteSets, Naturals

CONSTANTS
  Nodes,     \* servers of the deployment
  NoOne,     \* the mutex is free
  LifeFaults \* failures that may happen

ASSUME LifecycleAssumption ==
  /\ NoOne \notin Nodes
  /\ LifeFaults \subseteq {"crash", "tsdb", "ping", "sync"}

VARIABLES
  ha,      \* ClusterSettings.Enable
  table,   \* nodes the cluster discovery table lists as alive
  holder,  \* holder of singletonLock
  proc,    \* proc[n]: where the hooks of the process on node n are
  gr,      \* gr[n]: its goroutines
  db,      \* db[n]: its TSDB
  list,    \* list[n]: currentList of the ping goroutine
  targets  \* targets[n]: nodes the scrape manager scrapes

vars == <<ha, table, holder, proc, gr, db, list, targets>>

Proc == {"down",      \* no process
         "locking",   \* OnActivate waits for singletonLock
         "opening",   \* OnActivate before tsdb.Open
         "listener",  \* active without the mutex
         "scraper",   \* active, scraping
         "waiting",   \* OnDeactivate has closed closeChan, waitGroup.Wait
         "closing",   \* OnDeactivate before db.Close
         "leaving"}   \* OnDeactivate before its deferred Unlock

Goroutines == [mgr: {"none", "run", "ended"},
               ping: {"none", "wait", "send", "ended"},
               stop: {"none", "wait", "ended"},
               sync: {"none", "run", "final", "ended"}]

NotStarted == [mgr |-> "none", ping |-> "none", stop |-> "none", sync |-> "none"]
Started    == [mgr |-> "run", ping |-> "wait", stop |-> "wait", sync |-> "run"]

TypeOK ==
  /\ ha \in BOOLEAN
  /\ table \in SUBSET Nodes
  /\ holder \in Nodes \cup {NoOne}
  /\ proc \in [Nodes -> Proc]
  /\ gr \in [Nodes -> Goroutines]
  /\ db \in [Nodes -> {"none", "open", "closed"}]
  /\ list \in [Nodes -> SUBSET Nodes]
  /\ targets \in [Nodes -> SUBSET Nodes]

Init ==
  /\ ha \in BOOLEAN
  /\ table \in SUBSET Nodes
  /\ holder = NoOne
  /\ proc = [n \in Nodes |-> "down"]
  /\ gr = [n \in Nodes |-> NotStarted]
  /\ db = [n \in Nodes |-> "none"]
  /\ list = [n \in Nodes |-> {}]
  /\ targets = [n \in Nodes |-> {}]

Become(n, p)   == proc' = [proc EXCEPT ![n] = p]
Go(n, g, pc)   == gr' = [gr EXCEPT ![n][g] = pc]

\* Mutation: OnDeactivate does not close closeChan.
NeverClosed(n) == FALSE

Closed(n)      == proc[n] \in {"waiting", "closing", "leaving"}
Ended(n)       == \A g \in {"mgr", "ping", "stop", "sync"} : gr[n][g] \in {"none", "ended"}

\* The process of node n ends; its memory is gone, and the mutex it held is
\* not refreshed any more and expires before anybody else can take it.
Exit(n) ==
  /\ Become(n, "down")
  /\ holder' = IF holder = n THEN NoOne ELSE holder
  /\ gr' = [gr EXCEPT ![n] = NotStarted]
  /\ db' = [db EXCEPT ![n] = "none"]
  /\ list' = [list EXCEPT ![n] = {}]
  /\ targets' = [targets EXCEPT ![n] = {}]

(***************************************************************************)
(* OnActivate.                                                             *)
(***************************************************************************)

\* Without HA the deployment has one server.
Activate(n) ==
  /\ proc[n] = "down"
  /\ ha \/ \A m \in Nodes : proc[m] = "down"
  /\ Become(n, IF ha THEN "locking" ELSE "opening")
  /\ UNCHANGED <<ha, table, holder, gr, db, list, targets>>

Lock(n) ==
  /\ proc[n] = "locking"
  /\ holder = NoOne
  /\ holder' = n
  /\ Become(n, "opening")
  /\ UNCHANGED <<ha, table, gr, db, list, targets>>

\* Mutation: a process that did not get the mutex opens the TSDB as well.
LockTimeoutGoesOn(n) ==
  /\ proc[n] = "locking"
  /\ Become(n, "opening")
  /\ UNCHANGED <<ha, table, holder, gr, db, list, targets>>

\* LockWithContext gives up: the process stays active as a listener.
LockTimeout(n) ==
  /\ proc[n] = "locking"
  /\ Become(n, "listener")
  /\ UNCHANGED <<ha, table, holder, gr, db, list, targets>>

\* tsdb.Open and the start of the goroutines; when it fails OnActivate returns
\* an error and the server ends the process.
OpenTSDB(n) ==
  /\ proc[n] = "opening"
  /\ \/ /\ Become(n, "scraper")
        /\ db' = [db EXCEPT ![n] = "open"]
        /\ gr' = [gr EXCEPT ![n] = Started]
        /\ UNCHANGED <<holder, list, targets>>
     \/ /\ "tsdb" \in LifeFaults
        /\ Exit(n)
  /\ UNCHANGED <<ha, table>>

(***************************************************************************)
(* The goroutines.                                                         *)
(***************************************************************************)

\* topologyChanged: both lists are ordered by Id.
topologyChanged(a, b) == a # b

\* generateTargetGroup: with fewer than two nodes, the server itself.
generateTargetGroup(n, nodes) == IF Cardinality(nodes) < 2 THEN {n} ELSE nodes

\* Mutation: the new list is not kept.
PingTickForgets(n) ==
  /\ gr[n].ping = "wait"
  /\ ha => topologyChanged(list[n], table)
  /\ Go(n, "ping", "send")
  /\ UNCHANGED <<ha, table, holder, proc, db, list, targets>>

\* A tick of the ping goroutine.  In HA it reads the discovery table and
\* goes on only if the topology has changed.
PingTick(n) ==
  /\ gr[n].ping = "wait"
  /\ ha => topologyChanged(list[n], table)
  /\ list' = [list EXCEPT ![n] = IF ha THEN table ELSE @]
  /\ Go(n, "ping", "send")
  /\ UNCHANGED <<ha, table, holder, proc, db, targets>>

\* The goroutine ends because of an error: of the database, before its first
\* tick or at any, or of generateTargetGroup.
PingFails(n) ==
  /\ "ping" \in LifeFaults
  /\ gr[n].ping = "wait"
  /\ Go(n, "ping", "ended")
  /\ UNCHANGED <<ha, table, holder, proc, db, list, targets>>

\* The send over the unbuffered syncCh meets the receive of the manager.
PingSend(n) ==
  /\ gr[n].ping = "send"
  /\ gr[n].mgr = "run"
  /\ targets' = [targets EXCEPT ![n] = generateTargetGroup(n, list[n])]
  /\ Go(n, "ping", "wait")
  /\ UNCHANGED <<ha, table, holder, proc, db, list>>

PingClosed(n) ==
  /\ gr[n].ping = "wait"
  /\ Closed(n)
  /\ Go(n, "ping", "ended")
  /\ UNCHANGED <<ha, table, holder, proc, db, list, targets>>

\* manager.Stop
StopManager(n) ==
  /\ gr[n].stop = "wait"
  /\ Closed(n)
  /\ Go(n, "stop", "ended")
  /\ UNCHANGED <<ha, table, holder, proc, db, list, targets>>

\* manager.Run returns once the manager is stopped.
ManagerEnds(n) ==
  /\ gr[n].mgr = "run"
  /\ gr[n].stop = "ended"
  /\ Go(n, "mgr", "ended")
  /\ UNCHANGED <<ha, table, holder, proc, db, list, targets>>

\* syncFileStore leaves its loop when closeChan is closed, or after an error,
\* and synchronises for the last time.
SyncLeaves(n) ==
  /\ gr[n].sync = "run"
  /\ Closed(n) \/ "sync" \in LifeFaults
  /\ Go(n, "sync", "final")
  /\ UNCHANGED <<ha, table, holder, proc, db, list, targets>>

SyncEnds(n) ==
  /\ gr[n].sync = "final"
  /\ Go(n, "sync", "ended")
  /\ UNCHANGED <<ha, table, holder, proc, db, list, targets>>

(***************************************************************************)
(* OnDeactivate.                                                           *)
(***************************************************************************)
Deactivate(n) ==
  /\ proc[n] \in {"listener", "scraper"}
  /\ Become(n, "waiting")
  /\ UNCHANGED <<ha, table, holder, gr, db, list, targets>>

\* waitGroup.Wait returns.
Wait(n) ==
  /\ proc[n] = "waiting"
  /\ Ended(n)
  /\ Become(n, "closing")
  /\ UNCHANGED <<ha, table, holder, gr, db, list, targets>>

CloseTSDB(n) ==
  /\ proc[n] = "closing"
  /\ db' = [db EXCEPT ![n] = IF @ = "open" THEN "closed" ELSE @]
  /\ Become(n, "leaving")
  /\ UNCHANGED <<ha, table, holder, gr, list, targets>>

\* The deferred Unlock; the server ends the process.
Leave(n) ==
  /\ proc[n] = "leaving"
  /\ Exit(n)
  /\ UNCHANGED <<ha, table>>

(***************************************************************************)
(* The environment.                                                        *)
(***************************************************************************)

\* The process dies, or the server ends it without OnDeactivate.
Crash(n) ==
  /\ "crash" \in LifeFaults
  /\ proc[n] # "down"
  /\ Exit(n)
  /\ UNCHANGED <<ha, table>>

\* Servers join and leave the cluster.
ChangeTable ==
  /\ ha
  /\ table' \in SUBSET Nodes
  /\ UNCHANGED <<ha, holder, proc, gr, db, list, targets>>

Hooks(n) ==
  \/ Activate(n)   \/ Lock(n) \/ LockTimeout(n) \/ OpenTSDB(n)
  \/ Deactivate(n) \/ Wait(n) \/ CloseTSDB(n)   \/ Leave(n)

Goroutine(n) ==
  \/ PingTick(n)    \/ PingSend(n)    \/ PingClosed(n) \/ PingFails(n)
  \/ StopManager(n) \/ ManagerEnds(n) \/ SyncLeaves(n) \/ SyncEnds(n)

Next ==
  \/ \E n \in Nodes : Hooks(n) \/ Goroutine(n) \/ Crash(n)
  \/ ChangeTable

Spec == Init /\ [][Next]_vars

(***************************************************************************)
(* Fairness.  A hook that has been called goes on and the goroutines run;  *)
(* a select, which picks at random among the ready cases, does not ignore  *)
(* the closed closeChan for ever.  Activation, deactivation, the mutex and *)
(* failures are not owed: PingFails and Crash are left out, SyncLeaves is  *)
(* owed only once closeChan is closed, and OpenTSDB, whatever its outcome, *)
(* is taken once in the life of a process.                                 *)
(***************************************************************************)
Fairness ==
  \A n \in Nodes :
    /\ WF_vars(OpenTSDB(n)) /\ WF_vars(Wait(n)) /\ WF_vars(CloseTSDB(n)) /\ WF_vars(Leave(n))
    /\ WF_vars(PingTick(n)) /\ WF_vars(PingSend(n)) /\ SF_vars(PingClosed(n))
    /\ WF_vars(StopManager(n)) /\ WF_vars(ManagerEnds(n))
    /\ WF_vars(Closed(n) /\ SyncLeaves(n)) /\ WF_vars(SyncEnds(n))

FairSpec == Spec /\ Fairness

(***************************************************************************)
(* Properties.                                                             *)
(***************************************************************************)
Alive(n) == ~Ended(n) \/ db[n] = "open"

\* Where the hooks are and what runs: goroutines only of a scraper that has
\* not finished waiting for them, an open TSDB until it is closed.
Stages ==
  \A n \in Nodes :
    /\ ~Ended(n) => proc[n] \in {"scraper", "waiting"}
    /\ db[n] = "open" => proc[n] \in {"scraper", "waiting", "closing"}
    /\ ha /\ proc[n] = "opening" => holder = n
    /\ proc[n] = "scraper" => db[n] = "open"

\* In HA the metrics are collected once: two processes never have a TSDB open
\* or a goroutine running that writes to it or to the file store, not even
\* while one of them is being deactivated or after it has died (plugin.go:
\* 101-104, 256-259).
OneScraper == \A n \in Nodes : ha /\ Alive(n) => holder = n

\* The TSDB is closed only after the goroutines that use it have ended.
NoUseAfterClose ==
  \A n \in Nodes : ~Ended(n) => db[n] = "open"

LifeInv == TypeOK /\ Stages /\ OneScraper /\ NoUseAfterClose

\* In HA the scraper follows the topology (plugin.go:183-185): if the cluster
\* settles and the scraper keeps running, it ends up scraping the nodes that
\* the discovery table lists, as long as its ping goroutine has not ended.
\* Without HA it ends up scraping its own server.
Settled(n, T) == proc[n] = "scraper" /\ (ha => table = T)
Scraped(n, T) == targets[n] = generateTargetGroup(n, IF ha THEN T ELSE {})

TargetsFollow ==
  \A n \in Nodes, T \in SUBSET Nodes :
    (n \in T /\ <>[](Settled(n, T) /\ gr[n].ping # "ended")) => <>[]Scraped(n, T)

\* OnDeactivate returns, unless the ping goroutine is caught in its send.
DeactivationEnds ==
  \A n \in Nodes :
    proc[n] = "waiting" ~> (proc[n] # "waiting" \/ (gr[n].ping = "send" /\ gr[n].mgr = "ended"))

\* OnDeactivate always returns.  The code does not keep this.
DeactivationAlwaysEnds == \A n \in Nodes : proc[n] = "waiting" ~> proc[n] # "waiting"

=============================================================================
