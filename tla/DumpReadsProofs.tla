--------------------------- MODULE DumpReadsProofs ---------------------------
(***************************************************************************)
(* Proofs about dumps that read the blocks of the file store while the     *)
(* scraping node writes and removes them: a dump is broken by the removal  *)
(* of obsolete blocks only (BrokenOnlyByCleanup), and a successful one     *)
(* holds what was there (DumpIsComplete).  For any number of blocks and    *)
(* dumps, all periods and all failures, as long as the goroutine of the    *)
(* scraping node can list the file store (see MetricsStoreProofs).         *)
(***************************************************************************)
EXTENDS MetricsStoreProofs

\* Blocks that somebody has have been cut.
Born ==
  \A b \in Blocks :
    \/ b \in local \/ stored[b] # Nothing
    \/ sync.pc = "copy" /\ b \in sync.todo \cup {sync.block}
    => maxT[b] # Unborn

\* What a dump has fetched so far, and what it is fetching, is sound.
SoundDump(r) ==
  /\ r.pc \in {"list", "fetch"} => Whole(stored[r.block]) \/ Obsolete(r.block)
  /\ r.pc = "fetch" =>
       \A f \in {Data, Meta} :
         f \in r.files \/ r.got[r.block][f] = "whole" \/ Obsolete(r.block)
  /\ \A b \in Blocks : r.got[b][Meta] = "whole" => r.got[b][Data] = "whole" \/ Obsolete(b)

\* A block that was there when the dump started is still to be fetched.
Pending(r, b) ==
  /\ Whole(stored[b]) /\ InWindow(b, r.window) /\ maxT[b] # Unborn
  /\ b \in r.todo \/ (b = r.block /\ r.pc \in {"list", "fetch"})

\* What a dump owes of the blocks that were there when it started.
OwingDump(r) ==
  /\ r.pc = "ok" => r.todo = {}
  /\ \A b \in r.due : Obsolete(b) \/ b \in r.erred \/ Whole(r.got[b]) \/ Pending(r, b)

DumpInv == Born /\ \A d \in Dumps : SoundDump(dump[d]) /\ OwingDump(dump[d])

(***************************************************************************)
(* Whatever happens, a whole block stays whole until it is obsolete, and   *)
(* its time does not change.                                               *)
(***************************************************************************)
LEMMA TimesChange ==
  ASSUME StoreInv, [Next]_vars
  PROVE  /\ clock' >= clock
         /\ \A b \in Blocks : maxT[b] # Unborn => maxT'[b] = maxT[b]
<1> USE DEF StoreInv, TypeOK
<1>0. clock \in Int
  BY MetricsStoreAssumption DEF Time
<1>1. CASE Advance
  BY <1>0, <1>1 DEF Advance, tsdbVars
<1>2. ASSUME NEW b \in Blocks, CutBlock(b) \/ CompactBlocks(b) \/ DropBlock(b)
      PROVE  clock' = clock /\ \A c \in Blocks : maxT[c] # Unborn => maxT'[c] = maxT[c]
  BY <1>2 DEF CutBlock, CompactBlocks, DropBlock
<1>3. ASSUME \/ SyncStep \/ Deactivate \/ Activate \/ Crash
             \/ \E d \in Dumps : DumpStep(d)
      PROVE  UNCHANGED <<clock, maxT>>
  BY <1>3
  DEF SyncStep, SyncTick, FinalSync, CopyFile, CleanTick, RemoveFile, LoopEnds, Deactivate,
      Activate, Crash, DumpStep, StartDump, ReadMeta, ListBlock, FetchFile, OpenDump, tsdbVars
<1>4. CASE UNCHANGED vars
  BY <1>0, <1>4 DEF vars, tsdbVars
<1>5. clock >= clock
  BY <1>0
<1>6. CASE Next
  <2>1. clock' = clock \/ clock' >= clock
    BY <1>1, <1>2, <1>3, <1>6 DEF Next
  <2>2. ASSUME NEW b \in Blocks, maxT[b] # Unborn PROVE maxT'[b] = maxT[b]
    BY <1>1, <1>2, <1>3, <1>6, <2>2 DEF Next
  <2> QED
    BY <1>5, <2>1, <2>2
<1> QED
  BY <1>4, <1>5, <1>6

LEMMA ObsoleteForGood ==
  ASSUME "list" \notin StoreFaults, StoreInv, [Next]_vars, NEW b \in Blocks, Obsolete(b)
  PROVE  Obsolete(b)'
<1>1. TypeOK /\ TypeOK'
  BY StoreInvStep DEF StoreInv
<1>2. maxT'[b] = maxT[b]
  BY TimesChange DEF Obsolete
<1> QED
  BY <1>1, <1>2, TimesChange, ObsoleteStays

\* How the file store changes: one file of one block.
LEMMA StoredChange ==
  ASSUME StoreInv, [Next]_vars
  PROVE  \/ UNCHANGED stored
         \/ /\ sync.pc \in {"copy", "clean"} /\ sync.block \in Blocks
            /\ sync.pc = "clean" => Obsolete(sync.block)
            /\ \E f \in File, s \in {"none", "torn", "whole"} :
                 /\ stored' = [stored EXCEPT ![sync.block][f] = s]
                 /\ sync.pc = "copy" => f = sync.file /\ s # "none"
<1> USE DEF StoreInv
<1>1. ASSUME Advance \/ \E b \in Blocks : CutBlock(b) \/ CompactBlocks(b) \/ DropBlock(b)
      PROVE  UNCHANGED stored
  BY <1>1 DEF Advance, CutBlock, CompactBlocks, DropBlock
<1>2. ASSUME \/ SyncTick \/ FinalSync \/ CleanTick \/ LoopEnds \/ Deactivate \/ Activate \/ Crash
             \/ \E d \in Dumps : DumpStep(d)
      PROVE  UNCHANGED stored
  BY <1>2
  DEF SyncTick, FinalSync, CleanTick, LoopEnds, Deactivate, Activate, Crash, DumpStep, StartDump,
      ReadMeta, ListBlock, FetchFile, OpenDump
<1>3. CASE CopyFile
  <2>1. sync.block \in Blocks /\ sync.file \in File /\ sync.pc = "copy"
    BY <1>3 DEF CopyFile, Copying, TypeOK, Sync
  <2> QED
    BY <1>3, <2>1 DEF CopyFile
<1>4. CASE RemoveFile
  <2>1. sync.block \in Blocks /\ sync.pc = "clean" /\ Obsolete(sync.block)
    BY <1>4 DEF RemoveFile, Cleaning, TypeOK, Sync
  <2> QED
    BY <1>4, <2>1 DEF RemoveFile
<1> QED
  BY <1>1, <1>2, <1>3, <1>4 DEF Next, SyncStep, vars

LEMMA WholeStays ==
  ASSUME "list" \notin StoreFaults, StoreInv, [Next]_vars, NEW b \in Blocks, Whole(stored[b])
  PROVE  Whole(stored[b])' \/ Obsolete(b)'
<1>1. CASE UNCHANGED stored
  BY <1>1 DEF Whole
<1>2. CASE sync.pc = "clean" /\ b = sync.block /\ Obsolete(b)
  BY <1>2, ObsoleteForGood
<1>3. ASSUME NEW f \in File, NEW s, stored' = [stored EXCEPT ![sync.block][f] = s],
             b # sync.block
      PROVE  Whole(stored[b])'
  BY <1>3 DEF StoreInv, TypeOK, Whole
<1>4. ASSUME NEW s, stored' = [stored EXCEPT ![b][sync.file] = s],
             sync.pc = "copy", b = sync.block, sync.file \in File
      PROVE  Whole(stored[b])'
  <2>1. sync.file # Data /\ sync.file # Meta
    BY <1>4 DEF StoreInv, Copying, Whole
  <2> QED
    BY <1>4, <2>1 DEF StoreInv, TypeOK, Directory, Whole, File, Data, Meta, Tombstones
<1> QED
  BY <1>1, <1>2, <1>3, <1>4, StoredChange

(***************************************************************************)
(* Blocks are born before anybody has them.                                *)
(***************************************************************************)
LEMMA CopyBlocksBorn ==
  ASSUME NEW S \in SUBSET Blocks, NEW last, CopyBlocks(S, last),
         sync'.pc = "copy", NEW b \in sync'.todo \cup {sync'.block}
  PROVE  b \in S
  BY DEF CopyBlocks, Waiting

LEMMA BornStep ==
  ASSUME "list" \notin StoreFaults, StoreInv, Born, [Next]_vars
  PROVE  Born'
<1> USE DEF StoreInv, TypeOK
<1>1. ASSUME NEW b \in Blocks, b \in local', b \notin local PROVE maxT'[b] # Unborn
  <2>1. ASSUME NEW c \in Blocks, CutBlock(c) \/ CompactBlocks(c) \/ DropBlock(c)
        PROVE  maxT'[b] # Unborn
    <3>1. CASE CutBlock(c)
      BY <1>1, <3>1, MetricsStoreAssumption DEF CutBlock, Time, Unborn
    <3>2. CASE CompactBlocks(c)
      <4>1. PICK young \in local : /\ maxT' = [maxT EXCEPT ![c] = maxT[young]]
                                   /\ local' \subseteq local \cup {c}
        BY <3>2 DEF CompactBlocks
      <4>2. maxT[young] # Unborn
        BY DEF Born
      <4> QED
        BY <1>1, <4>1, <4>2
    <3>3. CASE DropBlock(c)
      BY <1>1, <3>3 DEF DropBlock
    <3> QED
      BY <2>1, <3>1, <3>2, <3>3
  <2>2. ASSUME \/ Advance \/ SyncStep \/ Deactivate \/ Activate \/ Crash \/ UNCHANGED vars
               \/ \E d \in Dumps : DumpStep(d)
        PROVE  UNCHANGED local
    BY <2>2
    DEF Advance, SyncStep, SyncTick, FinalSync, CopyFile, CleanTick, RemoveFile, LoopEnds,
        Deactivate, Activate, Crash, DumpStep, StartDump, ReadMeta, ListBlock, FetchFile,
        OpenDump, tsdbVars, vars
  <2> QED
    BY <1>1, <2>1, <2>2 DEF Next
<1>2. ASSUME NEW b \in Blocks, stored'[b] # Nothing, stored[b] = Nothing
      PROVE  maxT[b] # Unborn
  <2>1. stored' # stored
    BY <1>2
  <2>2. sync.block \in Blocks /\ b = sync.block
    BY <1>2, <2>1, StoredChange
  <2>3. sync.pc = "copy" \/ Obsolete(b)
    BY <2>1, <2>2, StoredChange
  <2> QED
    BY <2>2, <2>3 DEF Born, Obsolete
<1>3. ASSUME NEW b \in Blocks, sync'.pc = "copy", b \in sync'.todo \cup {sync'.block}
      PROVE  maxT[b] # Unborn
  <2>1. CASE UNCHANGED sync
    BY <1>3, <2>1 DEF Born
  <2>2. ASSUME NEW last, SyncWithRemote(last) PROVE b \in local
    <3>1. PICK S \in SUBSET local : CopyBlocks(S, last)
      BY <2>2 DEF SyncWithRemote, Some
    <3> QED
      BY <1>3, <3>1, CopyBlocksBorn
  <2>3. CASE SyncTick \/ FinalSync
    <3>1. (\E last : SyncWithRemote(last)) \/ sync'.pc # "copy"
      BY <2>3 DEF SyncTick, FinalSync, Sync
    <3> QED
      BY <1>3, <2>2, <3>1 DEF Born
  <2>4. CASE CopyFile
    <3>1. sync.pc = "copy" /\ sync.todo \in SUBSET Blocks
      BY <2>4 DEF CopyFile, Sync
    <3>2. \/ CopyBlocks(sync.todo, sync.last) \/ UNCHANGED sync
          \/ sync' = [sync EXCEPT !.file = @ + 1]
      BY <2>4 DEF CopyFile, CopyOn
    <3>3. b \in sync.todo \cup {sync.block}
      BY <1>3, <3>1, <3>2, CopyBlocksBorn DEF Sync
    <3> QED
      BY <3>1, <3>3 DEF Born
  <2>5. CASE CleanTick \/ RemoveFile \/ LoopEnds \/ Activate \/ Crash
    <3>1. ASSUME NEW S, CleanBlocks(S) PROVE sync'.pc # "copy"
      <4>1. \A c \in S : [Waiting EXCEPT !.pc = "clean", !.block = c, !.todo = S \ {c}].pc = "clean"
        BY DEF Waiting
      <4>2. Waiting.pc = "select"
        BY DEF Waiting
      <4> QED
        BY <3>1, <4>1, <4>2 DEF CleanBlocks
    <3>2. CASE CleanTick \/ RemoveFile
      BY <1>3, <2>1, <3>1, <3>2 DEF CleanTick, RemoveFile
    <3>3. CASE LoopEnds \/ Activate \/ Crash
      BY <1>3, <3>3 DEF LoopEnds, Activate, Crash, Waiting, Sync
    <3> QED
      BY <2>5, <3>2, <3>3
  <2>6. ASSUME \/ Advance \/ Deactivate \/ UNCHANGED vars
               \/ \E c \in Blocks : CutBlock(c) \/ CompactBlocks(c) \/ DropBlock(c)
               \/ \E d \in Dumps : DumpStep(d)
        PROVE  UNCHANGED sync
    BY <2>6
    DEF Advance, CutBlock, CompactBlocks, DropBlock, Deactivate, DumpStep, StartDump, ReadMeta,
        ListBlock, FetchFile, OpenDump, vars
  <2> QED
    BY <2>1, <2>3, <2>4, <2>5, <2>6 DEF Next, SyncStep
<1> QED
  BY <1>1, <1>2, <1>3, TimesChange DEF Born

(***************************************************************************)
(* A dump that does nothing loses nothing.                                 *)
(***************************************************************************)
LEMMA DumpStays ==
  ASSUME "list" \notin StoreFaults, StoreInv, [Next]_vars, NEW d \in Dumps,
         SoundDump(dump[d]), OwingDump(dump[d]), dump'[d] = dump[d]
  PROVE  SoundDump(dump[d])' /\ OwingDump(dump[d])'
<1> DEFINE r == dump[d]
<1>1. r \in Dump
  BY DEF StoreInv, TypeOK
<1>2. /\ r.pc \in {"list", "fetch"} => r.block \in Blocks
      /\ r.due \subseteq Blocks
  BY <1>1 DEF StoreInv, Fetching, Dump
<1>3. \A b \in Blocks : /\ Obsolete(b) => Obsolete(b)'
                        /\ Whole(stored[b]) => Whole(stored[b])' \/ Obsolete(b)'
                        /\ maxT[b] # Unborn => maxT'[b] = maxT[b]
  BY ObsoleteForGood, WholeStays, TimesChange
<1>4. SoundDump(dump[d])'
  BY <1>2, <1>3 DEF SoundDump
<1>5. ASSUME NEW b \in r.due
      PROVE  Obsolete(b)' \/ b \in r.erred \/ Whole(r.got[b]) \/ Pending(r, b)'
  BY <1>2, <1>3 DEF OwingDump, Pending, InWindow
<1>6. OwingDump(dump[d])'
  BY <1>5 DEF OwingDump, Whole, Pending, InWindow
<1> QED
  BY <1>4, <1>6

(***************************************************************************)
(* The steps of a dump.                                                    *)
(***************************************************************************)
LEMMA DumpStepSets ==
  ASSUME StoreInv, NEW d \in Dumps, DumpStep(d)
  PROVE  /\ UNCHANGED <<clock, maxT, local, stored, sync>>
         /\ \A e \in Dumps \ {d} : dump'[e] = dump[e]
<1>1. \E r : Set(d, r)
  BY DEF DumpStep, StartDump, ReadMeta, ListBlock, FetchFile, OpenDump
<1> QED
  BY <1>1
  DEF DumpStep, StartDump, ReadMeta, ListBlock, FetchFile, OpenDump, Set, StoreInv, TypeOK,
      tsdbVars

\* The file that is fetched is the first of those left.
LEMMA FirstFile ==
  ASSUME NEW S \in SUBSET File, S # {}
  PROVE  LET f == CHOOSE f \in S : \A g \in S : f <= g IN
         f \in S /\ f \in File /\ \A g \in S : f <= g
<1>1. \E g \in S : \A h \in S : g <= h
  <2>1. CASE Data \in S
    BY <2>1 DEF File, Data, Meta, Tombstones
  <2>2. CASE Data \notin S /\ Meta \in S
    BY <2>2 DEF File, Data, Meta, Tombstones
  <2>3. CASE Data \notin S /\ Meta \notin S
    <3>1. S = {Tombstones}
      BY <2>3 DEF File
    <3> QED
      BY <3>1 DEF Tombstones
  <2> QED
    BY <2>1, <2>2, <2>3
<1> QED
  BY <1>1

LEMMA SetIs ==
  ASSUME TypeOK, NEW d \in Dumps, NEW r, Set(d, r)
  PROVE  dump'[d] = r
  BY DEF TypeOK, Set

LEMMA DumpMoves ==
  ASSUME StoreInv, Born, NEW d \in Dumps, DumpStep(d),
         SoundDump(dump[d]), OwingDump(dump[d])
  PROVE  SoundDump(dump'[d]) /\ OwingDump(dump'[d])
<1> DEFINE r == dump[d]
<1>1. r \in Dump /\ TypeOK
  BY DEF StoreInv, TypeOK
<1>2. ASSUME NEW x, Set(d, x), SoundDump(x), OwingDump(x)
      PROVE  SoundDump(dump'[d]) /\ OwingDump(dump'[d])
  BY <1>1, <1>2, SetIs
<1>3. CASE StartDump(d)
  <2>1. ASSUME NEW w \in Windows,
               NEW S, S = {b \in Blocks : stored[b] # Nothing},
               NEW D, D = {b \in S : Whole(stored[b]) /\ InWindow(b, w)},
               Set(d, [NoDump EXCEPT !.pc = "scan", !.window = w, !.todo = S, !.due = D])
        PROVE  SoundDump(dump'[d]) /\ OwingDump(dump'[d])
    <3> DEFINE x == [NoDump EXCEPT !.pc = "scan", !.window = w, !.todo = S, !.due = D]
    <3>1. /\ x.pc = "scan" /\ x.window = w /\ x.todo = S /\ x.due = D
          /\ \A b \in Blocks : x.got[b] = Nothing
      BY DEF NoDump
    <3>2. Set(d, x)
      BY <2>1
    <3> HIDE DEF x
    <3>3. SoundDump(x)
      BY <3>1, NothingType DEF SoundDump, File
    <3>4. OwingDump(x)
      BY <2>1, <3>1 DEF OwingDump, Pending, Born
    <3> QED
      BY <1>2, <3>2, <3>3, <3>4
  <2>2. CASE Set(d, [NoDump EXCEPT !.pc = "failed"])
    <3> DEFINE x == [NoDump EXCEPT !.pc = "failed"]
    <3>1. x.pc = "failed" /\ x.due = {} /\ \A b \in Blocks : x.got[b] = Nothing
      BY DEF NoDump
    <3>2. Set(d, x)
      BY <2>2
    <3> HIDE DEF x
    <3>3. SoundDump(x) /\ OwingDump(x)
      BY <3>1, NothingType DEF SoundDump, OwingDump, File
    <3> QED
      BY <1>2, <3>2, <3>3
  <2> QED
    BY <1>3, <2>1, <2>2 DEF StartDump
<1>4. CASE ReadMeta(d)
  <2>1. PICK b \in r.todo :
          LET wanted == stored[b][Meta] = "whole" /\ InWindow(b, r.window)
              next   == [r EXCEPT !.todo = @ \ {b}] IN
          \/ wanted  /\ Set(d, [next EXCEPT !.pc = "list", !.block = b])
          \/ ~wanted /\ Set(d, next)
          \/ Set(d, [next EXCEPT !.erred = @ \cup {b}])
    BY <1>4 DEF ReadMeta
  <2>2. r.pc = "scan" /\ b \in Blocks
    BY <1>1, <1>4 DEF ReadMeta, Dump
  <2> DEFINE next == [r EXCEPT !.todo = @ \ {b}]
             x == [next EXCEPT !.pc = "list", !.block = b]
             y == [next EXCEPT !.erred = @ \cup {b}]
             wanted == stored[b][Meta] = "whole" /\ InWindow(b, r.window)
  <2>3. /\ next.pc = "scan" /\ next.todo = r.todo \ {b} /\ next.due = r.due
        /\ next.window = r.window /\ next.got = r.got /\ next.erred = r.erred
    BY <1>1, <2>2 DEF Dump
  <2>4. /\ x.pc = "list" /\ x.block = b /\ x.todo = r.todo \ {b} /\ x.due = r.due
        /\ x.window = r.window /\ x.got = r.got /\ x.erred = r.erred
    BY <1>1 DEF Dump
  <2>5. /\ y.pc = "scan" /\ y.todo = r.todo \ {b} /\ y.due = r.due
        /\ y.window = r.window /\ y.got = r.got /\ y.erred = r.erred \cup {b}
    BY <1>1, <2>2 DEF Dump
  <2>6. \/ wanted  /\ Set(d, x)
        \/ ~wanted /\ Set(d, next)
        \/ Set(d, y)
    BY <2>1
  <2> HIDE DEF next, x, y
  <2>7. CASE wanted /\ Set(d, x)
    <3>1. Whole(stored[b]) \/ Obsolete(b)
      BY <2>2, <2>7 DEF StoreInv, MetaMeansWhole, Whole
    <3>2. SoundDump(x)
      BY <2>4, <3>1 DEF SoundDump
    <3>3. OwingDump(x)
      BY <2>2, <2>4 DEF OwingDump, Pending
    <3> QED
      BY <1>2, <2>7, <3>2, <3>3
  <2>8. CASE ~wanted /\ Set(d, next)
    <3>1. SoundDump(next)
      BY <2>3 DEF SoundDump
    <3>2. OwingDump(next)
      BY <2>2, <2>3, <2>8 DEF OwingDump, Pending, Whole
    <3> QED
      BY <1>2, <2>8, <3>1, <3>2
  <2>9. CASE Set(d, y)
    <3>1. SoundDump(y) /\ OwingDump(y)
      BY <2>2, <2>5 DEF SoundDump, OwingDump, Pending
    <3> QED
      BY <1>2, <2>9, <3>1
  <2> QED
    BY <2>6, <2>7, <2>8, <2>9
\* An error takes the block out of what is owed.
<1>5. ASSUME r.pc \in {"list", "fetch"}, Set(d, Erred(d))
      PROVE  SoundDump(dump'[d]) /\ OwingDump(dump'[d])
  <2> DEFINE x == Erred(d)
  <2>1. /\ x.pc = "scan" /\ x.todo = r.todo /\ x.due = r.due /\ x.window = r.window
        /\ x.got = r.got /\ x.erred = r.erred \cup {r.block}
    BY <1>1 DEF Erred, Fetched, Dump
  <2> HIDE DEF x
  <2>2. SoundDump(x) /\ OwingDump(x)
    BY <2>1 DEF SoundDump, OwingDump, Pending
  <2> QED
    BY <1>2, <1>5, <2>2 DEF x
<1>6. CASE ListBlock(d)
  <2> DEFINE S == {f \in File : stored[r.block][f] # "none"}
             x == [r EXCEPT !.pc = "fetch", !.files = S]
  <2>1. r.pc = "list" /\ (Set(d, x) \/ Set(d, Erred(d)))
    BY <1>6 DEF ListBlock
  <2>2. /\ x.pc = "fetch" /\ x.files = S /\ x.block = r.block /\ x.todo = r.todo
        /\ x.due = r.due /\ x.window = r.window /\ x.got = r.got /\ x.erred = r.erred
    BY <1>1 DEF Dump
  <2>3. Whole(stored[r.block]) \/ Obsolete(r.block)
    BY <2>1 DEF SoundDump
  <2>4. Whole(stored[r.block]) => Data \in S /\ Meta \in S
    BY DEF Whole, File
  <2> HIDE DEF S, x
  <2>5. SoundDump(x)
    BY <2>2, <2>3, <2>4 DEF SoundDump
  <2>6. OwingDump(x)
    BY <2>1, <2>2 DEF OwingDump, Pending
  <2> QED
    BY <1>2, <1>5, <2>1, <2>5, <2>6
<1>7. CASE FetchFile(d)
  <2> DEFINE b == r.block
             f == CHOOSE f \in r.files : \A g \in r.files : f <= g
             left == r.files \ {f}
             next == IF left = {} THEN Fetched(d) ELSE [r EXCEPT !.files = left]
             x == [next EXCEPT !.got[b][f] = stored[b][f]]
  <2>1. r.pc = "fetch" /\ (Set(d, x) \/ Set(d, Erred(d)))
    BY <1>7 DEF FetchFile
  <2>2. b \in Blocks /\ r.files \in SUBSET File /\ r.files # {}
    BY <1>1, <2>1 DEF StoreInv, Fetching, Dump
  <2>3. f \in r.files /\ f \in File /\ \A g \in r.files : f <= g
    BY <2>2, FirstFile
  <2> HIDE DEF f
  <2>4. /\ next.todo = r.todo /\ next.due = r.due /\ next.window = r.window
        /\ next.got = r.got /\ next.erred = r.erred
        /\ left = {} => next.pc = "scan"
        /\ left # {} => next.pc = "fetch" /\ next.block = b /\ next.files = left
        /\ DOMAIN next = {"pc", "window", "todo", "block", "files", "got", "due", "erred"}
    BY <1>1, <2>1 DEF Fetched, Dump
  <2>5. /\ x.todo = next.todo /\ x.due = next.due /\ x.window = next.window
        /\ x.erred = next.erred /\ x.pc = next.pc /\ x.block = next.block
        /\ x.files = next.files
        /\ x.got = [next.got EXCEPT ![b][f] = stored[b][f]]
    <3> HIDE DEF next
    <3> QED
      BY <2>4
  <2>6. /\ x.todo = r.todo /\ x.due = r.due /\ x.window = r.window /\ x.erred = r.erred
        /\ left = {} => x.pc = "scan"
        /\ left # {} => x.pc = "fetch" /\ x.block = b /\ x.files = left
        /\ x.got = [r.got EXCEPT ![b][f] = stored[b][f]]
    BY <2>4, <2>5
  <2>7. /\ \A c \in Blocks \ {b} : x.got[c] = r.got[c]
        /\ \A g \in File : x.got[b][g] = IF g = f THEN stored[b][f] ELSE r.got[b][g]
    BY <1>1, <2>2, <2>3, <2>6 DEF Dump, Directory
  <2> HIDE DEF x, next, left
  <2>8. Whole(stored[b]) \/ Obsolete(b)
    BY <2>1 DEF SoundDump
  \* The files of the block that are no longer to be fetched are whole.
  <2>9. \A g \in {Data, Meta} : g \in left \/ x.got[b][g] = "whole" \/ Obsolete(b)
    BY <2>1, <2>3, <2>7, <2>8 DEF SoundDump, Whole, File, left
  <2>10. ASSUME x.got[b][Meta] = "whole", ~Obsolete(b)
         PROVE  x.got[b][Data] = "whole"
    <3>1. CASE f = Meta
      <4>1. Data \notin left
        BY <2>2, <2>3, <3>1 DEF Data, Meta, left
      <4> QED
        BY <2>9, <2>10, <4>1
    <3>2. CASE f # Meta
      BY <2>2, <2>7, <2>8, <2>10, <3>2 DEF SoundDump, Whole, File
    <3> QED
      BY <3>1, <3>2
  <2>11. SoundDump(x)
    <3>1. \A c \in Blocks : x.got[c][Meta] = "whole" => x.got[c][Data] = "whole" \/ Obsolete(c)
      BY <2>7, <2>10 DEF SoundDump
    <3>2. left = {} \/ left # {}
      OBVIOUS
    <3> QED
      BY <2>6, <2>8, <2>9, <3>1, <3>2 DEF SoundDump
  <2>12. Whole(r.got[b]) => Whole(x.got[b]) \/ Obsolete(b)
    BY <2>7, <2>8 DEF Whole, File
  <2>13. left = {} => Whole(x.got[b]) \/ Obsolete(b)
    BY <2>9 DEF Whole
  <2>14. ASSUME NEW c \in x.due
         PROVE  Obsolete(c) \/ c \in x.erred \/ Whole(x.got[c]) \/ Pending(x, c)
    <3>1. c \in r.due /\ c \in Blocks
      BY <1>1, <2>6, <2>14 DEF Dump
    <3>2. Obsolete(c) \/ c \in r.erred \/ Whole(r.got[c]) \/ Pending(r, c)
      BY <3>1 DEF OwingDump
    <3>3. CASE c = b
      BY <2>6, <2>12, <2>13, <3>2, <3>3 DEF Pending
    <3>4. CASE c # b
      BY <2>6, <2>7, <3>1, <3>2, <3>4 DEF Pending
    <3> QED
      BY <3>3, <3>4
  <2>15. OwingDump(x)
    BY <2>6, <2>14 DEF OwingDump
  <2> QED
    BY <1>2, <1>5, <2>1, <2>11, <2>15
<1>8. CASE OpenDump(d)
  <2> DEFINE x(p) == [r EXCEPT !.pc = p]
  <2>1. r.pc = "scan" /\ r.todo = {} /\ \E p \in {"ok", "failed"} : Set(d, x(p))
    BY <1>8 DEF OpenDump
  <2>2. ASSUME NEW p \in {"ok", "failed"}
        PROVE  /\ x(p).pc = p /\ x(p).todo = r.todo /\ x(p).due = r.due
               /\ x(p).got = r.got /\ x(p).erred = r.erred
    BY <1>1 DEF Dump
  <2> HIDE DEF x
  <2>3. ASSUME NEW p \in {"ok", "failed"}
        PROVE  SoundDump(x(p)) /\ OwingDump(x(p))
    BY <2>1, <2>2 DEF SoundDump, OwingDump, Pending
  <2> QED
    BY <1>2, <2>1, <2>3
<1> QED
  BY <1>3, <1>4, <1>6, <1>7, <1>8 DEF DumpStep

(***************************************************************************)
(* The theorems.                                                           *)
(***************************************************************************)
LEMMA DumpInvInit == Init => DumpInv
<1> SUFFICES ASSUME Init PROVE DumpInv
  OBVIOUS
<1>1. Born
  BY DEF Init, Born, Waiting
<1>2. /\ NoDump.pc = "idle" /\ NoDump.due = {}
      /\ \A b \in Blocks : NoDump.got[b] = Nothing
  BY DEF NoDump
<1>3. SoundDump(NoDump) /\ OwingDump(NoDump)
  BY <1>2, NothingType DEF SoundDump, OwingDump, File
<1> QED
  BY <1>1, <1>3 DEF Init, DumpInv

LEMMA DumpInvStep ==
  ASSUME "list" \notin StoreFaults, StoreInv, DumpInv, [Next]_vars
  PROVE  DumpInv'
<1>1. Born'
  BY BornStep DEF DumpInv
<1>2. ASSUME NEW e \in Dumps PROVE SoundDump(dump[e])' /\ OwingDump(dump[e])'
  <2>1. CASE dump'[e] = dump[e]
    BY <2>1, DumpStays DEF DumpInv
  <2>2. CASE DumpStep(e)
    <3>1. SoundDump(dump'[e]) /\ OwingDump(dump'[e])
      BY <2>2, DumpMoves DEF DumpInv
    <3>2. UNCHANGED <<clock, maxT, stored>>
      BY <2>2, DumpStepSets
    <3> QED
      BY <3>1, <3>2 DEF SoundDump, OwingDump, Pending, Whole, InWindow, Obsolete, Deadline
  <2>3. ASSUME \/ UNCHANGED vars \/ Advance \/ SyncStep \/ Deactivate \/ Activate \/ Crash
               \/ \E b \in Blocks : CutBlock(b) \/ CompactBlocks(b) \/ DropBlock(b)
        PROVE  UNCHANGED dump
    BY <2>3
    DEF Advance, CutBlock, CompactBlocks, DropBlock, SyncStep, SyncTick, FinalSync, CopyFile,
        CleanTick, RemoveFile, LoopEnds, Deactivate, Activate, Crash, vars
  <2>4. ASSUME NEW d \in Dumps, DumpStep(d), d # e PROVE dump'[e] = dump[e]
    BY <2>4, DumpStepSets
  <2> QED
    BY <2>1, <2>2, <2>3, <2>4 DEF Next
<1> QED
  BY <1>1, <1>2 DEF DumpInv

LEMMA DumpInvHolds ==
  ASSUME "list" \notin StoreFaults
  PROVE  Spec => []DumpInv
<1>1. StoreInv /\ DumpInv /\ [Next]_vars => DumpInv'
  BY DumpInvStep
<1>2. Spec => []StoreInv
  BY StoreInvHolds
<1> QED
  BY <1>1, <1>2, DumpInvInit, PTL DEF Spec

\* A fetched block that cannot be opened is obsolete, or its tombstones were
\* being written when they were fetched: nothing else the scraping node does
\* to the file store, and no failure of it, makes a dump fail.
THEOREM OnlyCleanupBreaksDumps ==
  ASSUME "list" \notin StoreFaults
  PROVE  Spec => []BrokenOnlyByCleanup
<1>1. DumpInv => BrokenOnlyByCleanup
  BY DEF DumpInv, SoundDump, BrokenOnlyByCleanup, Broken
<1> QED
  BY <1>1, DumpInvHolds, PTL

\* A successful dump has every block of its window that was whole when it
\* started, apart from those that became obsolete or met with an error.
THEOREM DumpsAreComplete ==
  ASSUME "list" \notin StoreFaults
  PROVE  Spec => []DumpIsComplete
<1>1. DumpInv => DumpIsComplete
  BY DEF DumpInv, OwingDump, Pending, DumpIsComplete
<1> QED
  BY <1>1, DumpInvHolds, PTL

=============================================================================
