-------------------------- MODULE LifecycleProofs --------------------------
(***************************************************************************)
(* Proofs about Lifecycle, for any number of servers and all failures.     *)
(***************************************************************************)
EXTENDS Lifecycle, TLAPS

(***************************************************************************)
(* Typing.                                                                 *)
(***************************************************************************)

\* Steps of a goroutine of node n leave the other nodes alone, never start a
\* goroutine, and touch neither the hooks, nor the TSDB, nor the mutex.
LEMMA GoroutineMoves ==
  ASSUME TypeOK, NEW n \in Nodes, Goroutine(n)
  PROVE  /\ gr' \in [Nodes -> Goroutines]
         /\ \A m \in Nodes : m # n => gr'[m] = gr[m]
         /\ ~Ended(n)
         /\ UNCHANGED <<ha, table, holder, proc, db>>
<1> USE DEF TypeOK, Goroutines, Go, Ended
<1>1. CASE PingTick(n)
  BY <1>1 DEF PingTick
<1>2. CASE PingSend(n)
  BY <1>2 DEF PingSend
<1>3. CASE PingClosed(n)
  BY <1>3 DEF PingClosed
<1>4. CASE StopManager(n)
  BY <1>4 DEF StopManager
<1>5. CASE ManagerEnds(n)
  BY <1>5 DEF ManagerEnds
<1>6. CASE SyncLeaves(n)
  BY <1>6 DEF SyncLeaves
<1>7. CASE SyncEnds(n)
  BY <1>7 DEF SyncEnds
<1>8. CASE PingFails(n)
  BY <1>8 DEF PingFails
<1> QED
  BY <1>1, <1>2, <1>3, <1>4, <1>5, <1>6, <1>7, <1>8 DEF Goroutine

\* The targets handed to the scrape manager are nodes.
LEMMA GoroutineLists ==
  ASSUME TypeOK, NEW n \in Nodes, Goroutine(n)
  PROVE  list' \in [Nodes -> SUBSET Nodes] /\ targets' \in [Nodes -> SUBSET Nodes]
<1>1. generateTargetGroup(n, list[n]) \in SUBSET Nodes
  BY DEF TypeOK, generateTargetGroup
<1> QED
  BY <1>1 DEF TypeOK, Goroutine, PingTick, PingFails, PingSend, PingClosed,
       StopManager, ManagerEnds, SyncLeaves, SyncEnds

\* What is left of a process that has ended.
LEMMA ExitMoves ==
  ASSUME TypeOK, NEW n \in Nodes, Exit(n)
  PROVE  /\ proc' \in [Nodes -> Proc] /\ gr' \in [Nodes -> Goroutines]
         /\ db' \in [Nodes -> {"none", "open", "closed"}]
         /\ list' \in [Nodes -> SUBSET Nodes] /\ targets' \in [Nodes -> SUBSET Nodes]
         /\ holder' \in Nodes \cup {NoOne}
         /\ proc'[n] = "down" /\ gr'[n] = NotStarted /\ db'[n] = "none"
         /\ \A m \in Nodes : m # n =>
              proc'[m] = proc[m] /\ gr'[m] = gr[m] /\ db'[m] = db[m]
         /\ \A m \in Nodes : m # n /\ holder = m => holder' = m
  BY DEF TypeOK, Exit, Become, Proc, Goroutines, NotStarted

\* Where the hooks of one node go; nothing but the mutex, the TSDB and the
\* goroutines of that node moves with them.
LEMMA HookMoves ==
  ASSUME TypeOK, NEW n \in Nodes, NEW p \in Proc, Become(n, p)
  PROVE  /\ proc' \in [Nodes -> Proc]
         /\ proc'[n] = p
         /\ \A m \in Nodes : m # n => proc'[m] = proc[m]
  BY DEF TypeOK, Become

LEMMA LifeInvInit == Init => LifeInv
<1> SUFFICES ASSUME Init PROVE LifeInv
  OBVIOUS
<1>1. TypeOK
  BY DEF Init, TypeOK, Proc, Goroutines, NotStarted
<1>2. \A n \in Nodes : proc[n] = "down" /\ Ended(n) /\ db[n] = "none"
  BY DEF Init, Ended, NotStarted
<1> QED
  BY <1>1, <1>2 DEF LifeInv, Stages, OneScraper, NoUseAfterClose, Alive

(***************************************************************************)
(* The conjuncts of LifeInv are about one node each, except for the mutex: *)
(* a step of node n keeps them if they hold of n afterwards, and if it     *)
(* does not take the mutex from another node.                              *)
(***************************************************************************)
NodeInv(n) ==
  /\ ~Ended(n) => proc[n] \in {"scraper", "waiting"} /\ db[n] = "open"
  /\ db[n] = "open" => proc[n] \in {"scraper", "waiting", "closing"}
  /\ ha /\ proc[n] = "opening" => holder = n
  /\ proc[n] = "scraper" => db[n] = "open"
  /\ ha /\ Alive(n) => holder = n

LEMMA LifeInvByNode == LifeInv <=> TypeOK /\ \A n \in Nodes : NodeInv(n)
  BY DEF LifeInv, Stages, OneScraper, NoUseAfterClose, NodeInv

LEMMA NodeStep ==
  ASSUME NEW n \in Nodes, \A m \in Nodes : NodeInv(m), UNCHANGED ha,
         \A m \in Nodes : m # n =>
           proc'[m] = proc[m] /\ gr'[m] = gr[m] /\ db'[m] = db[m],
         \A m \in Nodes : m # n /\ holder = m => holder' = m,
         TypeOK', NodeInv(n)'
  PROVE  LifeInv'
<1>1. ASSUME NEW m \in Nodes, m # n PROVE NodeInv(m)'
  <2>1. (Ended(m)' <=> Ended(m)) /\ (Alive(m)' <=> Alive(m))
    BY <1>1 DEF Ended, Alive
  <2> QED
    BY <1>1, <2>1 DEF NodeInv
<1>2. \A m \in Nodes : NodeInv(m)'
  BY <1>1
<1> QED
  BY <1>2 DEF LifeInv, Stages, OneScraper, NoUseAfterClose, NodeInv

(***************************************************************************)
(* Every step keeps the invariant.                                         *)
(***************************************************************************)
LEMMA HooksKeepLifeInv ==
  ASSUME LifeInv, NEW n \in Nodes, Hooks(n)
  PROVE  LifeInv'
<1>1. TypeOK /\ \A m \in Nodes : NodeInv(m)
  BY LifeInvByNode
<1> USE <1>1
<1>2. CASE Activate(n)
  <2>1. PICK p \in {"locking", "opening"} : Become(n, p) /\ (ha => p = "locking")
    BY <1>2 DEF Activate
  <2>2. TypeOK' /\ NodeInv(n)'
    BY <1>2, <2>1, HookMoves DEF Activate, TypeOK, NodeInv, Proc, Ended, Alive
  <2> QED
    BY <1>2, <2>1, <2>2, HookMoves, NodeStep DEF Activate, Proc
<1>3. CASE Lock(n)
  <2>1. Become(n, "opening") /\ holder = NoOne /\ holder' = n
    BY <1>3 DEF Lock
  <2>2. TypeOK' /\ NodeInv(n)'
    BY <1>3, <2>1, HookMoves DEF Lock, TypeOK, NodeInv, Proc, Ended, Alive
  <2>3. \A m \in Nodes : holder # m
    BY <2>1, LifecycleAssumption
  <2> QED
    BY <1>3, <2>1, <2>2, <2>3, HookMoves, NodeStep DEF Lock, Proc
<1>4. CASE LockTimeout(n)
  <2>1. TypeOK' /\ NodeInv(n)'
    BY <1>4, HookMoves DEF LockTimeout, TypeOK, NodeInv, Proc, Ended, Alive
  <2> QED
    BY <1>4, <2>1, HookMoves, NodeStep DEF LockTimeout, Proc
<1>5. CASE OpenTSDB(n)
  <2>1. CASE Exit(n)
    <3>1. TypeOK' /\ NodeInv(n)'
      BY <1>5, <2>1, ExitMoves DEF OpenTSDB, TypeOK, NodeInv, Ended, Alive, NotStarted
    <3> QED
      BY <1>5, <2>1, <3>1, ExitMoves, NodeStep DEF OpenTSDB
  <2>2. CASE ~Exit(n)
    <3>1. /\ Become(n, "scraper") /\ db' = [db EXCEPT ![n] = "open"]
          /\ gr' = [gr EXCEPT ![n] = Started]
          /\ UNCHANGED <<holder, list, targets, ha, table>>
      BY <1>5, <2>2 DEF OpenTSDB
    <3>2. TypeOK' /\ NodeInv(n)'
      BY <1>5, <3>1, HookMoves
      DEF OpenTSDB, TypeOK, NodeInv, Proc, Goroutines, Started, Ended, Alive
    <3> QED
      BY <3>1, <3>2, HookMoves, NodeStep DEF Proc, TypeOK
  <2> QED
    BY <2>1, <2>2
<1>6. CASE Deactivate(n)
  <2>1. TypeOK' /\ NodeInv(n)'
    BY <1>6, HookMoves DEF Deactivate, TypeOK, NodeInv, Proc, Ended, Alive
  <2> QED
    BY <1>6, <2>1, HookMoves, NodeStep DEF Deactivate, Proc
<1>7. CASE Wait(n)
  <2>1. TypeOK' /\ NodeInv(n)'
    BY <1>7, HookMoves DEF Wait, TypeOK, NodeInv, Proc, Ended, Alive
  <2> QED
    BY <1>7, <2>1, HookMoves, NodeStep DEF Wait, Proc
<1>8. CASE CloseTSDB(n)
  <2>1. TypeOK' /\ NodeInv(n)'
    BY <1>8, HookMoves DEF CloseTSDB, TypeOK, NodeInv, Proc, Ended, Alive
  <2> QED
    BY <1>8, <2>1, HookMoves, NodeStep DEF CloseTSDB, Proc, TypeOK
<1>9. CASE Leave(n)
  <2>1. TypeOK' /\ NodeInv(n)'
    BY <1>9, ExitMoves DEF Leave, TypeOK, NodeInv, Ended, Alive, NotStarted
  <2> QED
    BY <1>9, <2>1, ExitMoves, NodeStep DEF Leave
<1> QED
  BY <1>2, <1>3, <1>4, <1>5, <1>6, <1>7, <1>8, <1>9 DEF Hooks

LEMMA GoroutinesKeepLifeInv ==
  ASSUME LifeInv, NEW n \in Nodes, Goroutine(n)
  PROVE  LifeInv'
<1>1. TypeOK /\ \A m \in Nodes : NodeInv(m)
  BY LifeInvByNode
<1>2. TypeOK'
  BY <1>1, GoroutineMoves, GoroutineLists DEF TypeOK
<1>3. NodeInv(n)'
  BY <1>1, GoroutineMoves DEF NodeInv, Alive
<1> QED
  BY <1>1, <1>2, <1>3, GoroutineMoves, NodeStep

LEMMA LifeInvStep == LifeInv /\ [Next]_vars => LifeInv'
<1> SUFFICES ASSUME LifeInv, [Next]_vars PROVE LifeInv'
  OBVIOUS
<1>1. ASSUME NEW n \in Nodes, Hooks(n) PROVE LifeInv'
  BY <1>1, HooksKeepLifeInv
<1>2. ASSUME NEW n \in Nodes, Goroutine(n) PROVE LifeInv'
  BY <1>2, GoroutinesKeepLifeInv
<1>3. ASSUME NEW n \in Nodes, Crash(n) PROVE LifeInv'
  <2>1. TypeOK /\ \A m \in Nodes : NodeInv(m)
    BY LifeInvByNode
  <2>2. Exit(n) /\ UNCHANGED <<ha, table>>
    BY <1>3 DEF Crash
  <2>3. TypeOK' /\ NodeInv(n)'
    BY <2>1, <2>2, ExitMoves DEF TypeOK, NodeInv, Ended, Alive, NotStarted
  <2> QED
    BY <2>1, <2>2, <2>3, ExitMoves, NodeStep
<1>4. CASE ChangeTable
  BY <1>4 DEF ChangeTable, LifeInv, TypeOK, Stages, OneScraper, NoUseAfterClose, Ended, Alive
<1>5. CASE UNCHANGED vars
  BY <1>5 DEF vars, LifeInv, TypeOK, Stages, OneScraper, NoUseAfterClose, Ended, Alive
<1> QED
  BY <1>1, <1>2, <1>3, <1>4, <1>5 DEF Next

\* The hooks and the goroutines of every process keep to their stages, at most
\* one process of a cluster uses a TSDB or has goroutines running, and no
\* goroutine runs on a TSDB that is not open.
THEOREM LifeInvHolds == Spec => []LifeInv
  BY LifeInvInit, LifeInvStep, PTL DEF Spec

\* In a cluster no two processes scrape, synchronise or have a TSDB open at
\* the same time.
THEOREM ScrapersExclusive ==
  Spec => [](\A m, n \in Nodes : ha /\ Alive(m) /\ Alive(n) => m = n)
<1>1. LifeInv => \A m, n \in Nodes : ha /\ Alive(m) /\ Alive(n) => m = n
  BY DEF LifeInv, OneScraper
<1> QED
  BY <1>1, LifeInvHolds, PTL

=============================================================================
