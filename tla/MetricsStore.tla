---------------------------- MODULE MetricsStore ----------------------------
(***************************************************************************)
(* The metrics blocks in the file store (server/sync.go, server/dump.go,   *)
(* server/copy.go).                                                        *)
(*                                                                         *)
(* One goroutine of the scraping node, syncFileStore, copies the blocks of *)
(* the local TSDB to the file store, removes those past the retention      *)
(* period, and copies once more when it ends.  Dump jobs, on any node,     *)
(* read the same blocks meanwhile, file by file and without a lock.  And   *)
(* the TSDB, which is not part of the repository, cuts new blocks,         *)
(* compacts two into one and drops old ones.                               *)
(*                                                                         *)
(* The periods of the two tickers are not modelled: a tick may come any    *)
(* time the goroutine waits.  A dump works in a directory of its own, so   *)
(* dumps do not meet; compacting, packing and uploading them is left out.  *)
(***************************************************************************)
EXTENDS Integers, FiniteSets

CONSTANTS
  Blocks,         \* ULIDs of the blocks the TSDB may write
  NoBlock,        \* no block at hand
  Retention,      \* RetentionDurationDays of the configuration
  LocalRetention, \* localRetentionDays
  MaxClock,       \* bound of the model: the last point of time
  Dumps,          \* calls of createDump
  Windows,        \* time windows <<min, max>> that are asked for
  StoreFaults     \* failures that may happen

AllStoreFaults == {"crash", "readdir", "meta", "list", "write", "remove", "read"}

ASSUME MetricsStoreAssumption ==
  /\ NoBlock \notin Blocks
  /\ Retention \in Nat
  /\ LocalRetention \in Nat
  /\ MaxClock \in Nat
  /\ Windows \subseteq Int \X Int /\ Windows # {}
  /\ StoreFaults \subseteq AllStoreFaults

Time   == 0..MaxClock
Unborn == -1

(***************************************************************************)
(* The files of a block in the order of their names, in which os.ReadDir   *)
(* and the file store list them: those with the data (chunks/ and index),  *)
(* meta.json, tombstones.  A file that is being written, or whose writing  *)
(* has failed, is torn.                                                    *)
(***************************************************************************)
Data       == 1
Meta       == 2
Tombstones == 3
File       == {Data, Meta, Tombstones}

Directory == [File -> {"none", "torn", "whole"}]
Nothing   == [f \in File |-> "none"]

VARIABLES
  clock,  \* time.Now()
  maxT,   \* maxT[b]: MaxTime in the meta of block b, Unborn before it is cut
  local,  \* blocks in the directory of the local TSDB
  stored, \* stored[b]: the directory of block b in the file store
  closed, \* closeChan is closed
  sync,   \* the goroutine of syncFileStore
  dump    \* dump[d]: the createDump of d

tsdbVars == <<maxT, local>>
vars == <<clock, tsdbVars, stored, closed, sync, dump>>

Sync == [pc: {"select",  \* waits for a tick or for closeChan
              "final",   \* the loop has ended, before the last syncWithRemote
              "copy",    \* syncWithRemote copies the files of a block
              "clean",   \* cleanupRemote removes the directory of a block
              "off"},    \* the goroutine has returned
         last: BOOLEAN,  \* this syncWithRemote is the one of the defer
         block: Blocks \cup {NoBlock}, file: File, todo: SUBSET Blocks]

Waiting == [pc |-> "select", last |-> FALSE, block |-> NoBlock,
            file |-> Data, todo |-> {}]

Dump == [pc: {"idle",
              "scan",   \* head of the loop over the listed blocks
              "list",   \* the block is wanted, before its files are listed
              "fetch",  \* copies the listed files of the block
              "ok", "failed"},
         window: Windows,
         todo: SUBSET Blocks,           \* listed blocks not looked at yet
         block: Blocks \cup {NoBlock},
         files: SUBSET File,            \* listed files not copied yet
         got: [Blocks -> Directory],    \* the directory dump/<id>/data
         due: SUBSET Blocks,            \* blocks that were whole at the start
         erred: SUBSET Blocks]          \* blocks an error was logged for

NoDump == [pc |-> "idle", window |-> CHOOSE w \in Windows : TRUE, todo |-> {},
           block |-> NoBlock, files |-> {}, got |-> [b \in Blocks |-> Nothing],
           due |-> {}, erred |-> {}]

TypeOK ==
  /\ clock \in Time
  /\ maxT \in [Blocks -> Time \cup {Unborn}]
  /\ local \in SUBSET Blocks
  /\ stored \in [Blocks -> Directory]
  /\ closed \in BOOLEAN
  /\ sync \in Sync
  /\ dump \in [Dumps -> Dump]

Init ==
  /\ clock = 0
  /\ maxT = [b \in Blocks |-> Unborn]
  /\ local = {}
  /\ stored = [b \in Blocks |-> Nothing]
  /\ closed = FALSE
  /\ sync = Waiting
  /\ dump = [d \in Dumps |-> NoDump]

(***************************************************************************)
(* The environment: time and the local TSDB.                               *)
(***************************************************************************)
Advance ==
  /\ clock < MaxClock
  /\ clock' = clock + 1
  /\ UNCHANGED <<tsdbVars, stored, closed, sync, dump>>

\* OnDeactivate closes the TSDB after this goroutine has returned.
TSDBOpen == ~closed \/ sync.pc # "off"

\* The head is cut: a block whose samples reach up to now.
CutBlock(b) ==
  /\ TSDBOpen
  /\ maxT[b] = Unborn
  /\ \A a \in Blocks : maxT[a] # clock
  /\ maxT' = [maxT EXCEPT ![b] = clock]
  /\ local' = local \cup {b}
  /\ UNCHANGED <<clock, stored, closed, sync, dump>>

\* Two blocks are compacted into a new one and deleted.
CompactBlocks(b) ==
  /\ TSDBOpen
  /\ maxT[b] = Unborn
  /\ \E old, young \in local :
       /\ maxT[old] < maxT[young]
       /\ maxT' = [maxT EXCEPT ![b] = maxT[young]]
       /\ local' = (local \ {old, young}) \cup {b}
  /\ UNCHANGED <<clock, stored, closed, sync, dump>>

\* The TSDB drops a block past its own retention.
DropBlock(b) ==
  /\ TSDBOpen
  /\ b \in local
  /\ maxT[b] < clock - LocalRetention
  /\ local' = local \ {b}
  /\ UNCHANGED <<clock, maxT, stored, closed, sync, dump>>

(***************************************************************************)
(* syncWithRemote.                                                         *)
(***************************************************************************)
Deadline == clock - Retention
Obsolete(b) == maxT[b] # Unborn /\ maxT[b] < Deadline

\* The goroutine copies the blocks in S, in any order, and then goes back to
\* its loop, or returns if this was the last synchronisation.
CopyBlocks(S, last) ==
  \/ \E b \in S : sync' = [pc |-> "copy", last |-> last, block |-> b,
                           file |-> Data, todo |-> S \ {b}]
  \/ S = {} /\ ~last /\ sync' = Waiting
  \/ S = {} /\ last  /\ sync' = [Waiting EXCEPT !.pc = "off"]

\* Mutation: the retention period is not looked at.
SyncWithRemoteAll(last) == CopyBlocks({b \in local : stored[b] = Nothing}, last)

\* What is left of S when members of it may be passed over because of a fault.
Some(S, fault) == IF fault \in StoreFaults THEN SUBSET S ELSE {S}

\* The blocks to copy are those within the retention period that have no
\* directory in the file store.  One whose local meta.json cannot be read is
\* passed over; when listing the file store fails, none is taken to have a
\* directory.  Only this goroutine writes block directories, so reading the
\* local blocks and listing the file store is one step.
SyncWithRemote(last) ==
  \E young \in Some({b \in local : maxT[b] > Deadline}, "meta") :
    \/ CopyBlocks({b \in young : stored[b] = Nothing}, last)
    \/ "list" \in StoreFaults /\ CopyBlocks(young, last)

\* A tick of tickFileStoreSync; an unreadable local directory ends the loop.
SyncTick ==
  /\ sync.pc = "select"
  /\ \/ SyncWithRemote(FALSE)
     \/ "readdir" \in StoreFaults /\ sync' = [sync EXCEPT !.pc = "final"]
  /\ UNCHANGED <<clock, tsdbVars, stored, closed, dump>>

\* Mutation: no last synchronisation.
FinalSyncSkipped ==
  /\ sync.pc = "final"
  /\ sync' = [sync EXCEPT !.pc = "off"]
  /\ UNCHANGED <<clock, tsdbVars, stored, closed, dump>>

\* The defer of syncFileStore.
FinalSync ==
  /\ sync.pc = "final"
  /\ \/ SyncWithRemote(TRUE)
     \/ "readdir" \in StoreFaults /\ sync' = [sync EXCEPT !.pc = "off"]
  /\ UNCHANGED <<clock, tsdbVars, stored, closed, dump>>

\* The next file of the block, or the next block after the last file.
CopyOn ==
  IF sync.file = Tombstones THEN CopyBlocks(sync.todo, sync.last)
                            ELSE sync' = [sync EXCEPT !.file = @ + 1]

\* Mutation: meta.json is written before the data.
CopyFileMetaFirst ==
  LET b == sync.block
      f == CASE sync.file = Data -> Meta [] sync.file = Meta -> Data [] OTHER -> sync.file IN
  /\ sync.pc = "copy"
  /\ stored' = [stored EXCEPT ![b][f] = "whole"]
  /\ CopyOn
  /\ UNCHANGED <<clock, tsdbVars, closed, dump>>

\* copyDirectory opens the next file of the block in the file store, and then
\* fills it.  An error (the block was compacted away or dropped, or the write
\* failed) ends the copy of this block only, and is logged.
CopyFile ==
  LET b == sync.block
      f == sync.file IN
  /\ sync.pc = "copy"
  /\ \/ /\ b \in local /\ stored[b][f] # "torn"
        /\ stored' = [stored EXCEPT ![b][f] = "torn"]
        /\ UNCHANGED sync
     \/ /\ stored[b][f] = "torn"
        /\ stored' = [stored EXCEPT ![b][f] = "whole"]
        /\ CopyOn
     \/ /\ (b \notin local /\ stored[b][f] # "torn") \/ "write" \in StoreFaults
        /\ CopyBlocks(sync.todo, sync.last)
        /\ UNCHANGED stored
  /\ UNCHANGED <<clock, tsdbVars, closed, dump>>

(***************************************************************************)
(* cleanupRemote.                                                          *)
(***************************************************************************)
CleanBlocks(S) ==
  \/ \E b \in S : sync' = [Waiting EXCEPT !.pc = "clean", !.block = b,
                                          !.todo = S \ {b}]
  \/ S = {} /\ sync' = Waiting

\* Mutation: every block with a readable meta.json is taken for obsolete.
CleanTickAll ==
  /\ sync.pc = "select"
  /\ CleanBlocks({b \in Blocks : stored[b][Meta] = "whole"})
  /\ UNCHANGED <<clock, tsdbVars, stored, closed, dump>>

\* A tick of tickFileStoreCleanUp: the blocks to remove have a readable
\* meta.json and are past the retention period.  When listing the file store
\* fails, the loop goes on.
CleanTick ==
  /\ sync.pc = "select"
  /\ \/ \E old \in Some({b \in Blocks : stored[b][Meta] = "whole" /\ Obsolete(b)}, "read") :
          CleanBlocks(old)
     \/ "list" \in StoreFaults /\ UNCHANGED sync
  /\ UNCHANGED <<clock, tsdbVars, stored, closed, dump>>

\* RemoveDirectory removes the files of a block one by one, in no particular
\* order; a failure is logged and leaves the rest.
RemoveFile ==
  LET b == sync.block IN
  /\ sync.pc = "clean"
  /\ \/ /\ stored[b] # Nothing
        /\ \E f \in File : stored[b][f] # "none" /\ stored' = [stored EXCEPT ![b][f] = "none"]
        /\ UNCHANGED sync
     \/ /\ stored[b] = Nothing \/ "remove" \in StoreFaults
        /\ CleanBlocks(sync.todo)
        /\ UNCHANGED stored
  /\ UNCHANGED <<clock, tsdbVars, closed, dump>>

(***************************************************************************)
(* The plugin is deactivated and activated again.                          *)
(***************************************************************************)

\* OnDeactivate closes closeChan.
Deactivate ==
  /\ ~closed
  /\ closed' = TRUE
  /\ UNCHANGED <<clock, tsdbVars, stored, sync, dump>>

\* The loop of syncFileStore sees it.
LoopEnds ==
  /\ sync.pc = "select"
  /\ closed
  /\ sync' = [sync EXCEPT !.pc = "final"]
  /\ UNCHANGED <<clock, tsdbVars, stored, closed, dump>>

\* OnActivate starts the goroutine again.
Activate ==
  /\ closed
  /\ sync.pc = "off"
  /\ closed' = FALSE
  /\ sync' = Waiting
  /\ UNCHANGED <<clock, tsdbVars, stored, dump>>

\* The process dies and is started again; both stores stay as they are.
Crash ==
  /\ "crash" \in StoreFaults
  /\ closed' = FALSE
  /\ sync' = Waiting
  /\ UNCHANGED <<clock, tsdbVars, stored, dump>>

(***************************************************************************)
(* createDump.                                                             *)
(***************************************************************************)
InWindow(b, w) == w[1] < maxT[b] /\ maxT[b] < w[2]

Whole(D) == D[Data] = "whole" /\ D[Meta] = "whole"

Set(d, r) == dump' = [dump EXCEPT ![d] = r]

\* createDump lists the blocks of the file store; an error or an empty
\* listing fails the dump.
StartDump(d) ==
  /\ dump[d].pc = "idle"
  /\ LET listed == {b \in Blocks : stored[b] # Nothing} IN
     \/ /\ listed # {}
        /\ \E w \in Windows :
             LET due == {b \in listed : Whole(stored[b]) /\ InWindow(b, w)} IN
             Set(d, [NoDump EXCEPT !.pc = "scan", !.window = w, !.todo = listed, !.due = due])
     \/ /\ listed = {} \/ "list" \in StoreFaults
        /\ Set(d, [NoDump EXCEPT !.pc = "failed"])
  /\ UNCHANGED <<clock, tsdbVars, stored, closed, sync>>

\* readBlockMeta of the next block: without a readable meta.json, or outside
\* the window, it is passed over.
ReadMeta(d) ==
  /\ dump[d].pc = "scan"
  /\ \E b \in dump[d].todo :
       LET wanted == stored[b][Meta] = "whole" /\ InWindow(b, dump[d].window)
           next   == [dump[d] EXCEPT !.todo = @ \ {b}] IN
       \/ wanted  /\ Set(d, [next EXCEPT !.pc = "list", !.block = b])
       \/ ~wanted /\ Set(d, next)
       \/ "read" \in StoreFaults /\ Set(d, [next EXCEPT !.erred = @ \cup {b}])
  /\ UNCHANGED <<clock, tsdbVars, stored, closed, sync>>

\* copyFromFileStore returns to the loop; an error is only logged.
Fetched(d) == [dump[d] EXCEPT !.pc = "scan", !.block = NoBlock, !.files = {}]
Erred(d)   == [Fetched(d) EXCEPT !.erred = @ \cup {dump[d].block}]

\* copyFromFileStore lists the directory of the block.  An empty listing
\* makes it read the directory as a file, which is an error.
ListBlock(d) ==
  LET files == {f \in File : stored[dump[d].block][f] # "none"} IN
  /\ dump[d].pc = "list"
  /\ \/ files # {} /\ Set(d, [dump[d] EXCEPT !.pc = "fetch", !.files = files])
     \/ (files = {} \/ "list" \in StoreFaults) /\ Set(d, Erred(d))
  /\ UNCHANGED <<clock, tsdbVars, stored, closed, sync>>

\* Mutation: the files of a block are fetched in the reverse order.
FetchFileReverse(d) ==
  LET b == dump[d].block
      f == CHOOSE f \in dump[d].files : \A g \in dump[d].files : f >= g
      left == dump[d].files \ {f}
      next == IF left = {} THEN Fetched(d) ELSE [dump[d] EXCEPT !.files = left] IN
  /\ dump[d].pc = "fetch"
  /\ IF stored[b][f] # "none" THEN Set(d, [next EXCEPT !.got[b][f] = stored[b][f]])
                              ELSE Set(d, Erred(d))
  /\ UNCHANGED <<clock, tsdbVars, stored, closed, sync>>

\* The listed files are copied as they are, in the order of their names; one
\* that is gone or cannot be read ends the fetch of the block.
FetchFile(d) ==
  LET b == dump[d].block
      f == CHOOSE f \in dump[d].files : \A g \in dump[d].files : f <= g
      left == dump[d].files \ {f}
      next == IF left = {} THEN Fetched(d) ELSE [dump[d] EXCEPT !.files = left] IN
  /\ dump[d].pc = "fetch"
  /\ \/ stored[b][f] # "none" /\ Set(d, [next EXCEPT !.got[b][f] = stored[b][f]])
     \/ (stored[b][f] = "none" \/ "read" \in StoreFaults) /\ Set(d, Erred(d))
  /\ UNCHANGED <<clock, tsdbVars, stored, closed, sync>>

\* A fetched directory the TSDB cannot open as a block.  One without
\* meta.json is passed over, tombstones may be missing.
Broken(D) == D[Meta] = "whole" /\ (D[Data] # "whole" \/ D[Tombstones] = "torn")

\* All blocks have been looked at: the TSDB opens the fetched directory.
OpenDump(d) ==
  /\ dump[d].pc = "scan"
  /\ dump[d].todo = {}
  /\ LET broken == \E b \in Blocks : Broken(dump[d].got[b]) IN
     Set(d, [dump[d] EXCEPT !.pc = IF broken THEN "failed" ELSE "ok"])
  /\ UNCHANGED <<clock, tsdbVars, stored, closed, sync>>

(***************************************************************************)
(* Next-state relation.                                                    *)
(***************************************************************************)
SyncStep == SyncTick \/ FinalSync \/ CopyFile \/ CleanTick \/ RemoveFile \/ LoopEnds
DumpStep(d) == StartDump(d) \/ ReadMeta(d) \/ ListBlock(d) \/ FetchFile(d) \/ OpenDump(d)

Next ==
  \/ Advance
  \/ \E b \in Blocks : CutBlock(b) \/ CompactBlocks(b) \/ DropBlock(b)
  \/ SyncStep
  \/ \E d \in Dumps : DumpStep(d)
  \/ Deactivate \/ Activate \/ Crash

Spec == Init /\ [][Next]_vars

(***************************************************************************)
(* Fairness.  The goroutine runs, and its select, which picks at random    *)
(* among the ready channels, ignores neither ticker nor the closed         *)
(* closeChan for ever, however long the other cases keep it busy.  A tick  *)
(* that only fails changes nothing and does not count: a listing that is   *)
(* tried again and again succeeds in the end.  Nothing is owed by the      *)
(* environment.                                                            *)
(***************************************************************************)
Fairness ==
  /\ SF_vars(SyncTick)  /\ SF_vars(CleanTick) /\ SF_vars(LoopEnds)
  /\ WF_vars(FinalSync) /\ WF_vars(CopyFile)  /\ WF_vars(RemoveFile)

FairSpec == Spec /\ Fairness

(***************************************************************************)
(* Properties.                                                             *)
(***************************************************************************)

\* A block of the file store whose meta.json can be read has its data too,
\* unless the block is obsolete and being removed: meta.json, by which every
\* reader recognises a block, is written after the data, only because the
\* directory is copied in the order of the file names (copy.go:20-26), and
\* this stays so through failing writes, crashes and repeated
\* synchronisation.
MetaMeansWhole ==
  \A b \in Blocks :
    stored[b][Meta] # "none" => stored[b][Data] = "whole" \/ Obsolete(b)

\* Where the goroutine stands while it copies: the files before the current
\* one are whole, those after it are missing, and so are the blocks to come.
Copying ==
  sync.pc = "copy" =>
    /\ sync.block # NoBlock
    /\ \A f \in File :
         /\ f < sync.file => stored[sync.block][f] = "whole"
         /\ f = sync.file => stored[sync.block][f] # "whole"
         /\ f > sync.file => stored[sync.block][f] = "none"
    /\ \A b \in sync.todo : stored[b] = Nothing /\ b # sync.block

\* It removes obsolete blocks only.
Cleaning ==
  sync.pc = "clean" =>
    sync.block # NoBlock /\ \A b \in sync.todo \cup {sync.block} : Obsolete(b)

\* A dump that fetches has a block at hand and a file to copy.
Fetching ==
  \A d \in Dumps :
    /\ dump[d].pc \in {"list", "fetch"} => dump[d].block # NoBlock
    /\ dump[d].pc = "fetch" => dump[d].files # {}

\* The inductive invariant, as long as listing the file store does not fail.
StoreInv == TypeOK /\ Copying /\ Cleaning /\ Fetching /\ MetaMeansWhole

\* Every block the TSDB has written while the plugin is active is copied to
\* the file store, if only by the synchronisation on deactivation, unless the
\* TSDB deletes it or it leaves the retention period first (sync.go:24-26,
\* 38-41).
BlockIsStored ==
  \A b \in Blocks :
    (b \in local /\ ~closed) ~> (Whole(stored[b]) \/ b \notin local \/ maxT[b] <= Deadline)

\* Every obsolete block that was copied is removed from the file store while
\* the plugin is active, and does not come back (sync.go:26).
ObsoleteIsRemoved ==
  \A b \in Blocks :
    (Obsolete(b) /\ stored[b][Meta] = "whole") ~> (closed \/ [](stored[b] = Nothing))

\* What the scraping node uploads while a dump reads never makes the dump
\* fail: a fetched block that cannot be opened is obsolete and was being
\* removed, or its tombstones, the one file written after meta.json, were
\* being written (dump.go:42, 55; copy.go:84).
BrokenOnlyByCleanup ==
  \A d \in Dumps, b \in Blocks :
    Broken(dump[d].got[b]) => Obsolete(b) \/ dump[d].got[b][Tombstones] = "torn"

\* A successful dump holds every block of its window that was whole in the
\* file store when it started, except those an error was logged for and those
\* that have become obsolete (dump.go:50-58).
DumpIsComplete ==
  \A d \in Dumps : dump[d].pc = "ok" =>
    \A b \in dump[d].due :
      Whole(dump[d].got[b]) \/ b \in dump[d].erred \/ Obsolete(b)

=============================================================================
