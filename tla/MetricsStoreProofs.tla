------------------------- MODULE MetricsStoreProofs -------------------------
(***************************************************************************)
(* Proofs about MetricsStore, for any number of blocks and dumps, all      *)
(* periods and all failures except that of listing the file store, which   *)
(* breaks Copying: a goroutine that takes no block to be stored copies     *)
(* over those that are.                                                    *)
(***************************************************************************)
EXTENDS MetricsStore, TLAPS

(***************************************************************************)
(* Typing.                                                                 *)
(***************************************************************************)
LEMMA NothingType == Nothing \in Directory /\ \A f \in File : Nothing[f] = "none"
  BY DEF Nothing, Directory

LEMMA NoDumpType == NoDump \in Dump
<1>1. (CHOOSE w \in Windows : TRUE) \in Windows
  BY MetricsStoreAssumption
<1> QED
  BY <1>1, NothingType DEF NoDump, Dump

LEMMA WaitingType == Waiting \in Sync
  BY DEF Waiting, Sync, File, Data

LEMMA StoreTypeInit == Init => TypeOK
<1> SUFFICES ASSUME Init PROVE TypeOK
  OBVIOUS
<1>1. clock \in Time
  BY MetricsStoreAssumption DEF Init, Time
<1>2. dump \in [Dumps -> Dump]
  BY NoDumpType DEF Init
<1> QED
  BY <1>1, <1>2, NothingType, WaitingType DEF Init, TypeOK

\* A dump keeps its type and touches nothing else.
LEMMA DumpStepType ==
  ASSUME TypeOK, Fetching, NEW d \in Dumps, DumpStep(d)
  PROVE  dump' \in [Dumps -> Dump]
<1>1. dump[d] \in Dump
  BY DEF TypeOK
<1>2. ASSUME NEW r \in Dump, Set(d, r) PROVE dump' \in [Dumps -> Dump]
  BY <1>2 DEF Set, TypeOK
<1>3. CASE StartDump(d)
  <2>1. [NoDump EXCEPT !.pc = "failed"] \in Dump
    BY NoDumpType DEF Dump
  <2>2. ASSUME NEW w \in Windows, NEW S \in SUBSET Blocks, NEW D \in SUBSET Blocks
        PROVE  [NoDump EXCEPT !.pc = "scan", !.window = w, !.todo = S, !.due = D] \in Dump
    BY NoDumpType DEF Dump
  <2>3. \E r \in Dump : Set(d, r)
    BY <1>3, <2>1, <2>2 DEF StartDump
  <2> QED
    BY <1>2, <2>3
<1>4. CASE ReadMeta(d)
  <2>1. PICK b \in dump[d].todo :
          LET next == [dump[d] EXCEPT !.todo = @ \ {b}] IN
          \/ Set(d, [next EXCEPT !.pc = "list", !.block = b])
          \/ Set(d, next)
          \/ Set(d, [next EXCEPT !.erred = @ \cup {b}])
    BY <1>4 DEF ReadMeta
  <2>2. b \in Blocks
    BY <1>1 DEF Dump
  <2> DEFINE next == [dump[d] EXCEPT !.todo = @ \ {b}]
  <2>3. next \in Dump
    BY <1>1, <2>2 DEF Dump
  <2>4. [next EXCEPT !.pc = "list", !.block = b] \in Dump
    BY <2>2, <2>3 DEF Dump
  <2>5. [next EXCEPT !.erred = @ \cup {b}] \in Dump
    BY <2>2, <2>3 DEF Dump
  <2> QED
    BY <1>2, <2>1, <2>3, <2>4, <2>5
<1>5. Fetched(d) \in Dump
  BY <1>1 DEF Fetched, Dump
<1>6. dump[d].block \in Blocks => Erred(d) \in Dump
  BY <1>1, <1>5 DEF Erred, Dump
<1>7. CASE ListBlock(d)
  <2>1. dump[d].block \in Blocks
    BY <1>1, <1>7 DEF ListBlock, Fetching, Dump
  <2>2. ASSUME NEW S \in SUBSET File
        PROVE  [dump[d] EXCEPT !.pc = "fetch", !.files = S] \in Dump
    BY <1>1 DEF Dump
  <2> QED
    BY <1>2, <1>6, <1>7, <2>1, <2>2 DEF ListBlock
<1>8. CASE FetchFile(d)
  <2>1. dump[d].block \in Blocks /\ dump[d].files # {}
    BY <1>1, <1>8 DEF FetchFile, Fetching, Dump
  <2> DEFINE b == dump[d].block
             f == CHOOSE f \in dump[d].files : \A g \in dump[d].files : f <= g
             left == dump[d].files \ {f}
             next == IF left = {} THEN Fetched(d) ELSE [dump[d] EXCEPT !.files = left]
  <2>2. f \in dump[d].files /\ f \in File
    <3>1. \E g \in dump[d].files : \A h \in dump[d].files : g <= h
      BY <1>1, <2>1 DEF Dump, File, Data, Meta, Tombstones
    <3> QED
      BY <1>1, <3>1 DEF Dump
  <2>3. next \in Dump
    BY <1>1, <1>5 DEF Dump
  <2>4. stored[b][f] \in {"none", "torn", "whole"}
    BY <2>1, <2>2 DEF TypeOK, Directory
  <2>5. [next EXCEPT !.got[b][f] = stored[b][f]] \in Dump
    <3> HIDE DEF next, f, b
    <3> QED
      BY <2>1, <2>2, <2>3, <2>4 DEF Dump, Directory, b
  <2>6. Set(d, [next EXCEPT !.got[b][f] = stored[b][f]]) \/ Set(d, Erred(d))
    BY <1>8 DEF FetchFile
  <2> QED
    BY <1>2, <1>6, <2>1, <2>5, <2>6
<1>9. CASE OpenDump(d)
  <2>1. ASSUME NEW p \in {"ok", "failed"} PROVE [dump[d] EXCEPT !.pc = p] \in Dump
    BY <1>1 DEF Dump
  <2> QED
    BY <1>2, <1>9, <2>1 DEF OpenDump
<1> QED
  BY <1>3, <1>4, <1>7, <1>8, <1>9 DEF DumpStep

(***************************************************************************)
(* Obsolete blocks stay obsolete: time does not go back, and the time of a *)
(* block does not change once it is cut.                                   *)
(***************************************************************************)
LEMMA ObsoleteStays ==
  ASSUME TypeOK, TypeOK', clock' >= clock,
         NEW b \in Blocks, maxT'[b] = maxT[b] \/ maxT[b] = Unborn, Obsolete(b)
  PROVE  Obsolete(b)'
<1>1. /\ clock \in Int /\ clock' \in Int /\ Retention \in Int
      /\ maxT[b] \in Int /\ maxT'[b] = maxT[b]
  BY MetricsStoreAssumption DEF TypeOK, Time, Obsolete, Unborn
<1> QED
  BY <1>1 DEF Obsolete, Deadline, Unborn

(***************************************************************************)
(* The goroutine takes up the next block.                                  *)
(***************************************************************************)
LEMMA CopyBlocksKeeps ==
  ASSUME NEW S \in SUBSET Blocks, NEW last \in BOOLEAN, CopyBlocks(S, last),
         \A b \in S : stored'[b] = Nothing
  PROVE  sync' \in Sync /\ Copying' /\ Cleaning'
<1>1. ASSUME NEW b \in S,
             sync' = [pc |-> "copy", last |-> last, block |-> b, file |-> Data, todo |-> S \ {b}]
      PROVE  sync' \in Sync /\ Copying' /\ Cleaning'
  <2>1. sync' \in Sync
    BY <1>1 DEF Sync, File
  <2>2. b # NoBlock /\ \A f \in File : stored'[b][f] = "none"
    BY <1>1, NothingType, MetricsStoreAssumption
  <2> QED
    BY <1>1, <2>1, <2>2 DEF Copying, Cleaning, File, Data, Meta, Tombstones
<1>2. CASE S = {} /\ ~last /\ sync' = Waiting
  BY <1>2, WaitingType DEF Copying, Cleaning, Waiting
<1>3. CASE S = {} /\ last /\ sync' = [Waiting EXCEPT !.pc = "off"]
  BY <1>3 DEF Copying, Cleaning, Waiting, Sync, File
<1> QED
  BY <1>1, <1>2, <1>3 DEF CopyBlocks

LEMMA CleanBlocksKeeps ==
  ASSUME NEW S \in SUBSET Blocks, CleanBlocks(S), \A b \in S : Obsolete(b)'
  PROVE  sync' \in Sync /\ Copying' /\ Cleaning'
<1>1. ASSUME NEW b \in S,
             sync' = [Waiting EXCEPT !.pc = "clean", !.block = b, !.todo = S \ {b}]
      PROVE  sync' \in Sync /\ Copying' /\ Cleaning'
  <2>1. sync'.pc = "clean" /\ sync'.block = b /\ sync'.todo = S \ {b}
    BY <1>1 DEF Waiting
  <2>2. sync' \in Sync
    BY <1>1, WaitingType DEF Sync
  <2>3. b # NoBlock
    BY MetricsStoreAssumption
  <2> QED
    BY <2>1, <2>2, <2>3 DEF Copying, Cleaning
<1>2. CASE S = {} /\ sync' = Waiting
  BY <1>2, WaitingType DEF Copying, Cleaning, Waiting
<1> QED
  BY <1>1, <1>2 DEF CleanBlocks

\* Whatever fails, what is taken of a set is a part of it.
LEMMA SomeIsPart ==
  ASSUME NEW S, NEW fault, NEW T \in Some(S, fault)
  PROVE  T \in SUBSET S
  BY DEF Some

LEMMA SyncWithRemoteKeeps ==
  ASSUME TypeOK, "list" \notin StoreFaults, NEW last \in BOOLEAN, SyncWithRemote(last),
         UNCHANGED stored
  PROVE  sync' \in Sync /\ Copying' /\ Cleaning'
<1>1. PICK young \in Some({b \in local : maxT[b] > Deadline}, "meta") :
        CopyBlocks({b \in young : stored[b] = Nothing}, last)
  BY DEF SyncWithRemote
<1> DEFINE S == {b \in young : stored[b] = Nothing}
<1>2. S \in SUBSET Blocks /\ \A b \in S : stored'[b] = Nothing
  BY SomeIsPart DEF TypeOK
<1> QED
  BY <1>1, <1>2, CopyBlocksKeeps

(***************************************************************************)
(* Steps that leave the file store and the goroutine alone.                *)
(***************************************************************************)
LEMMA StoreStays ==
  ASSUME StoreInv, TypeOK', UNCHANGED <<stored, sync>>, clock' >= clock,
         \A b \in Blocks : maxT'[b] = maxT[b] \/ maxT[b] = Unborn
  PROVE  Copying' /\ Cleaning' /\ MetaMeansWhole'
<1>1. \A b \in Blocks : Obsolete(b) => Obsolete(b)'
  BY ObsoleteStays DEF StoreInv
<1>2. Copying' /\ MetaMeansWhole'
  BY <1>1 DEF StoreInv, Copying, MetaMeansWhole
<1>3. sync.pc = "clean" => \A b \in sync.todo \cup {sync.block} : b \in Blocks
  BY DEF StoreInv, Cleaning, TypeOK, Sync
<1>4. Cleaning'
  BY <1>1, <1>3 DEF StoreInv, Cleaning
<1> QED
  BY <1>2, <1>4

LEMMA FetchingStays == Fetching /\ UNCHANGED dump => Fetching'
  BY DEF Fetching

LEMMA EnvironmentKeeps ==
  ASSUME StoreInv,
         Advance \/ \E b \in Blocks : CutBlock(b) \/ CompactBlocks(b) \/ DropBlock(b)
  PROVE  StoreInv'
<1> USE DEF StoreInv
<1>1. CASE Advance
  <2>1. TypeOK' /\ clock' >= clock
    BY <1>1, MetricsStoreAssumption DEF Advance, TypeOK, Time, tsdbVars
  <2> QED
    BY <1>1, <2>1, StoreStays, FetchingStays DEF Advance, tsdbVars
<1>2. ASSUME NEW b \in Blocks, CutBlock(b) PROVE StoreInv'
  <2>1. TypeOK' /\ clock' >= clock
    BY <1>2, MetricsStoreAssumption DEF CutBlock, TypeOK, Time
  <2>2. \A c \in Blocks : maxT'[c] = maxT[c] \/ maxT[c] = Unborn
    BY <1>2 DEF CutBlock, TypeOK
  <2> QED
    BY <1>2, <2>1, <2>2, StoreStays, FetchingStays DEF CutBlock
<1>3. ASSUME NEW b \in Blocks, CompactBlocks(b) PROVE StoreInv'
  <2>1. TypeOK' /\ clock' >= clock
    BY <1>3, MetricsStoreAssumption DEF CompactBlocks, TypeOK, Time
  <2>2. \A c \in Blocks : maxT'[c] = maxT[c] \/ maxT[c] = Unborn
    BY <1>3 DEF CompactBlocks, TypeOK
  <2> QED
    BY <1>3, <2>1, <2>2, StoreStays, FetchingStays DEF CompactBlocks
<1>4. ASSUME NEW b \in Blocks, DropBlock(b) PROVE StoreInv'
  <2>1. TypeOK' /\ clock' >= clock
    BY <1>4, MetricsStoreAssumption DEF DropBlock, TypeOK, Time
  <2> QED
    BY <1>4, <2>1, StoreStays, FetchingStays DEF DropBlock
<1> QED
  BY <1>1, <1>2, <1>3, <1>4

(***************************************************************************)
(* Steps of the goroutine.                                                 *)
(***************************************************************************)
LEMMA LoopKeeps ==
  ASSUME StoreInv, "list" \notin StoreFaults,
         SyncTick \/ FinalSync \/ CleanTick \/ LoopEnds \/ Activate \/ Crash \/ Deactivate
  PROVE  StoreInv'
<1> USE DEF StoreInv
<1>1. UNCHANGED <<clock, maxT, local, stored, dump>> /\ closed' \in BOOLEAN
  BY DEF SyncTick, FinalSync, CleanTick, LoopEnds, Activate, Crash, Deactivate, tsdbVars, TypeOK
<1>2. \A b \in Blocks : Obsolete(b) <=> Obsolete(b)'
  BY <1>1 DEF Obsolete, Deadline
<1>3. sync' \in Sync /\ Copying' /\ Cleaning'
  <2>1. CASE SyncTick
    <3>1. CASE SyncWithRemote(FALSE)
      BY <1>1, <3>1, SyncWithRemoteKeeps
    <3>2. CASE sync' = [sync EXCEPT !.pc = "final"]
      BY <3>2 DEF TypeOK, Sync, Copying, Cleaning
    <3> QED
      BY <2>1, <3>1, <3>2 DEF SyncTick
  <2>2. CASE FinalSync
    <3>1. CASE SyncWithRemote(TRUE)
      BY <1>1, <3>1, SyncWithRemoteKeeps
    <3>2. CASE sync' = [sync EXCEPT !.pc = "off"]
      BY <3>2 DEF TypeOK, Sync, Copying, Cleaning
    <3> QED
      BY <2>2, <3>1, <3>2 DEF FinalSync
  <2>3. CASE CleanTick
    <3>1. ASSUME NEW S \in Some({b \in Blocks : stored[b][Meta] = "whole" /\ Obsolete(b)}, "read"),
                 CleanBlocks(S)
          PROVE  sync' \in Sync /\ Copying' /\ Cleaning'
      <4>1. S \in SUBSET {b \in Blocks : stored[b][Meta] = "whole" /\ Obsolete(b)}
        BY SomeIsPart
      <4> QED
        BY <1>2, <3>1, <4>1, CleanBlocksKeeps
    <3> QED
      BY <2>3, <3>1 DEF CleanTick
  <2>4. CASE LoopEnds
    BY <2>4 DEF LoopEnds, TypeOK, Sync, Copying, Cleaning
  <2>5. CASE Activate \/ Crash
    <3>1. sync' = Waiting
      BY <2>5 DEF Activate, Crash
    <3>2. sync'.pc = "select"
      BY <3>1 DEF Waiting
    <3> QED
      BY <3>1, <3>2, WaitingType DEF Copying, Cleaning
  <2>6. CASE Deactivate
    BY <1>1, <1>2, <2>6 DEF Deactivate, TypeOK, Copying, Cleaning, Sync
  <2> QED
    BY <2>1, <2>2, <2>3, <2>4, <2>5, <2>6
<1>4. TypeOK'
  BY <1>1, <1>3 DEF TypeOK
<1>5. MetaMeansWhole'
  BY <1>1, <1>2 DEF MetaMeansWhole
<1> QED
  BY <1>1, <1>3, <1>4, <1>5, FetchingStays

LEMMA CopyFileKeeps ==
  ASSUME StoreInv, CopyFile
  PROVE  StoreInv'
<1> USE DEF StoreInv
<1> DEFINE b == sync.block
           f == sync.file
<1>1. /\ b \in Blocks /\ f \in File /\ sync.todo \in SUBSET Blocks
      /\ sync.last \in BOOLEAN /\ sync.pc = "copy"
      /\ UNCHANGED <<clock, maxT, local, closed, dump>>
  BY DEF CopyFile, Copying, TypeOK, Sync, tsdbVars
<1>2. /\ \A g \in File : /\ g < f => stored[b][g] = "whole"
                         /\ g > f => stored[b][g] = "none"
      /\ \A c \in sync.todo : stored[c] = Nothing /\ c # b
  BY <1>1 DEF Copying
<1>3. \A c \in Blocks : Obsolete(c) <=> Obsolete(c)'
  BY <1>1 DEF Obsolete, Deadline
<1>4. CASE stored' = [stored EXCEPT ![b][f] = "torn"] /\ UNCHANGED sync
  <2>1. TypeOK'
    BY <1>1, <1>4 DEF TypeOK, Directory
  <2>2. Copying' /\ Cleaning'
    BY <1>1, <1>2, <1>4 DEF Copying, Cleaning, TypeOK, Directory
  <2>3. MetaMeansWhole'
    BY <1>1, <1>2, <1>3, <1>4
    DEF MetaMeansWhole, TypeOK, Directory, File, Data, Meta, Tombstones
  <2> QED
    BY <1>1, <2>1, <2>2, <2>3, FetchingStays
<1>5. CASE stored' = [stored EXCEPT ![b][f] = "whole"] /\ CopyOn
  <2>1. stored' \in [Blocks -> Directory]
    BY <1>1, <1>5 DEF TypeOK, Directory
  <2>2. \A c \in sync.todo : stored'[c] = Nothing
    BY <1>1, <1>2, <1>5 DEF TypeOK
  <2>3. sync' \in Sync /\ Copying' /\ Cleaning'
    <3>1. CASE f = Tombstones
      BY <1>1, <1>5, <2>2, <3>1, CopyBlocksKeeps DEF CopyOn
    <3>2. CASE f # Tombstones
      <4>1. sync' = [sync EXCEPT !.file = f + 1] /\ f \in {1, 2}
        BY <1>1, <1>5, <3>2 DEF CopyOn, File, Data, Meta, Tombstones
      <4>2. sync' \in Sync /\ Cleaning'
        BY <1>1, <4>1 DEF TypeOK, Sync, File, Data, Meta, Tombstones, Cleaning
      <4>3. \A g \in File : stored'[b][g] = IF g = f THEN "whole" ELSE stored[b][g]
        BY <1>1, <1>5 DEF TypeOK, Directory
      <4>4. sync'.block = b /\ sync'.file = f + 1 /\ sync'.todo = sync.todo
        BY <4>1 DEF TypeOK, Sync
      <4>5. \A g \in File : /\ g < f + 1 => stored'[b][g] = "whole"
                            /\ g = f + 1 => stored'[b][g] # "whole"
                            /\ g > f + 1 => stored'[b][g] = "none"
        BY <1>2, <4>1, <4>3 DEF File, Data, Meta, Tombstones
      <4>6. b # NoBlock
        BY <1>1, MetricsStoreAssumption
      <4>7. Copying'
        BY <1>2, <2>2, <4>4, <4>5, <4>6 DEF Copying
      <4> QED
        BY <4>2, <4>7
    <3> QED
      BY <3>1, <3>2
  <2>4. TypeOK'
    BY <1>1, <2>1, <2>3 DEF TypeOK
  <2>5. MetaMeansWhole'
    BY <1>1, <1>2, <1>3, <1>5
    DEF MetaMeansWhole, TypeOK, Directory, File, Data, Meta, Tombstones
  <2> QED
    BY <1>1, <2>3, <2>4, <2>5, FetchingStays
<1>6. CASE CopyBlocks(sync.todo, sync.last) /\ UNCHANGED stored
  <2>1. sync' \in Sync /\ Copying' /\ Cleaning'
    BY <1>1, <1>2, <1>6, CopyBlocksKeeps
  <2>2. TypeOK' /\ MetaMeansWhole'
    BY <1>1, <1>3, <1>6, <2>1 DEF TypeOK, MetaMeansWhole
  <2> QED
    BY <1>1, <2>1, <2>2, FetchingStays
<1> QED
  BY <1>4, <1>5, <1>6 DEF CopyFile

LEMMA RemoveFileKeeps ==
  ASSUME StoreInv, RemoveFile
  PROVE  StoreInv'
<1> USE DEF StoreInv
<1> DEFINE b == sync.block
<1>1. /\ b \in Blocks /\ sync.todo \in SUBSET Blocks /\ sync.pc = "clean"
      /\ \A c \in sync.todo \cup {b} : Obsolete(c)
      /\ UNCHANGED <<clock, maxT, local, closed, dump>>
  BY DEF RemoveFile, Cleaning, TypeOK, Sync, tsdbVars
<1>2. \A c \in Blocks : Obsolete(c) <=> Obsolete(c)'
  BY <1>1 DEF Obsolete, Deadline
<1>3. ASSUME NEW f \in File, stored' = [stored EXCEPT ![b][f] = "none"], UNCHANGED sync
      PROVE  StoreInv'
  <2>1. TypeOK'
    BY <1>1, <1>3 DEF TypeOK, Directory
  <2>2. Copying' /\ Cleaning'
    BY <1>1, <1>2, <1>3 DEF Copying, Cleaning
  <2>3. MetaMeansWhole'
    BY <1>1, <1>2, <1>3 DEF MetaMeansWhole, TypeOK
  <2> QED
    BY <1>1, <2>1, <2>2, <2>3, FetchingStays
<1>4. CASE CleanBlocks(sync.todo) /\ UNCHANGED stored
  <2>1. sync' \in Sync /\ Copying' /\ Cleaning'
    BY <1>1, <1>2, <1>4, CleanBlocksKeeps
  <2>2. TypeOK' /\ MetaMeansWhole'
    BY <1>1, <1>2, <1>4, <2>1 DEF TypeOK, MetaMeansWhole
  <2> QED
    BY <1>1, <2>1, <2>2, FetchingStays
<1> QED
  BY <1>3, <1>4 DEF RemoveFile

(***************************************************************************)
(* Steps of a dump.                                                        *)
(***************************************************************************)
LEMMA DumpStepFetching ==
  ASSUME TypeOK, Fetching, NEW d \in Dumps, DumpStep(d)
  PROVE  Fetching'
<1>1. ASSUME NEW r, Set(d, r), r.pc \in {"list", "fetch"} => r.block # NoBlock,
             r.pc = "fetch" => r.files # {}
      PROVE  Fetching'
  BY <1>1 DEF Set, Fetching, TypeOK
<1>2. dump[d] \in Dump
  BY DEF TypeOK
<1>3. Fetched(d).pc = "scan" /\ Erred(d).pc = "scan"
  BY <1>2 DEF Fetched, Erred, Dump
<1>4. CASE StartDump(d)
  BY <1>1, <1>4 DEF StartDump, NoDump
<1>5. CASE ReadMeta(d)
  <2>1. PICK b \in dump[d].todo :
          LET next == [dump[d] EXCEPT !.todo = @ \ {b}] IN
          \/ Set(d, [next EXCEPT !.pc = "list", !.block = b])
          \/ Set(d, next)
          \/ Set(d, [next EXCEPT !.erred = @ \cup {b}])
    BY <1>5 DEF ReadMeta
  <2>2. b # NoBlock /\ dump[d].pc = "scan"
    BY <1>2, <1>5, MetricsStoreAssumption DEF ReadMeta, Dump
  <2> QED
    BY <1>1, <1>2, <2>1, <2>2 DEF Dump
<1>6. CASE ListBlock(d)
  <2>1. dump[d].block # NoBlock
    BY <1>6 DEF ListBlock, Fetching
  <2> QED
    BY <1>1, <1>2, <1>3, <1>6, <2>1 DEF ListBlock, Dump
<1>7. CASE FetchFile(d)
  <2> DEFINE b == dump[d].block
             f == CHOOSE f \in dump[d].files : \A g \in dump[d].files : f <= g
             left == dump[d].files \ {f}
             next == IF left = {} THEN Fetched(d) ELSE [dump[d] EXCEPT !.files = left]
  <2>1. Set(d, [next EXCEPT !.got[b][f] = stored[b][f]]) \/ Set(d, Erred(d))
    BY <1>7 DEF FetchFile
  <2>2. b # NoBlock
    BY <1>7 DEF FetchFile, Fetching
  <2>3. /\ left = {} => next.pc = "scan"
        /\ left # {} => next.block = b /\ next.files # {}
    BY <1>2, <1>3 DEF Dump
  <2>4. LET r == [next EXCEPT !.got[b][f] = stored[b][f]] IN
        r.pc = next.pc /\ r.block = next.block /\ r.files = next.files
    BY <1>2 DEF Dump, Fetched
  <2> HIDE DEF next
  <2> QED
    BY <1>1, <1>3, <2>1, <2>2, <2>3, <2>4
<1>8. CASE OpenDump(d)
  BY <1>1, <1>2, <1>8 DEF OpenDump, Dump
<1> QED
  BY <1>4, <1>5, <1>6, <1>7, <1>8 DEF DumpStep

LEMMA DumpStepKeeps ==
  ASSUME StoreInv, NEW d \in Dumps, DumpStep(d)
  PROVE  StoreInv'
<1> USE DEF StoreInv
<1>1. UNCHANGED <<clock, maxT, local, stored, closed, sync>>
  BY DEF DumpStep, StartDump, ReadMeta, ListBlock, FetchFile, OpenDump, tsdbVars
<1>2. TypeOK'
  BY <1>1, DumpStepType DEF TypeOK
<1> QED
  BY <1>1, <1>2, DumpStepFetching DEF Copying, Cleaning, MetaMeansWhole, Obsolete, Deadline

(***************************************************************************)
(* The theorems.                                                           *)
(***************************************************************************)
LEMMA StoreInvInit == Init => StoreInv
<1> SUFFICES ASSUME Init PROVE StoreInv
  OBVIOUS
<1>1. Copying /\ Cleaning
  BY DEF Init, Waiting, Copying, Cleaning
<1>2. Fetching
  BY DEF Init, NoDump, Fetching
<1>3. MetaMeansWhole
  BY NothingType DEF Init, MetaMeansWhole, File
<1> QED
  BY <1>1, <1>2, <1>3, StoreTypeInit DEF StoreInv

LEMMA StoreInvStep ==
  "list" \notin StoreFaults => (StoreInv /\ [Next]_vars => StoreInv')
<1> SUFFICES ASSUME "list" \notin StoreFaults, StoreInv, [Next]_vars PROVE StoreInv'
  OBVIOUS
<1>1. CASE UNCHANGED vars
  BY <1>1 DEF vars, tsdbVars, StoreInv, TypeOK, Copying, Cleaning, Fetching,
              MetaMeansWhole, Obsolete, Deadline
<1>2. CASE Advance \/ \E b \in Blocks : CutBlock(b) \/ CompactBlocks(b) \/ DropBlock(b)
  BY <1>2, EnvironmentKeeps
<1>3. CASE SyncStep \/ Deactivate \/ Activate \/ Crash
  BY <1>3, LoopKeeps, CopyFileKeeps, RemoveFileKeeps DEF SyncStep
<1>4. ASSUME NEW d \in Dumps, DumpStep(d) PROVE StoreInv'
  BY <1>4, DumpStepKeeps
<1> QED
  BY <1>1, <1>2, <1>3, <1>4 DEF Next

\* As long as the file store can be listed: through failing writes and
\* removals, crashes and repeated synchronisation, the copy of a block is
\* made in order, only obsolete blocks are removed, and a block with a
\* meta.json has its data unless it is obsolete.
THEOREM StoreInvHolds == "list" \notin StoreFaults /\ Spec => []StoreInv
<1>1. "list" \notin StoreFaults /\ StoreInv /\ [Next]_vars => StoreInv'
  BY StoreInvStep
<1>2. CASE "list" \notin StoreFaults
  BY <1>1, <1>2, StoreInvInit, PTL DEF Spec
<1>3. CASE ~("list" \notin StoreFaults)
  BY <1>3
<1> QED
  BY <1>2, <1>3

=============================================================================
