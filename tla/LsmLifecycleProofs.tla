------------------------- MODULE LsmLifecycleProofs -------------------------
(***************************************************************************)
(* Theorems of LsmLifecycle and LsmReaders, for every instance: what the   *)
(* files keep through kills at any point, what a drop leaves, and what a   *)
(* thread reads beside the one that writes.                                *)
(***************************************************************************)
EXTENDS LsmLifecycleInv, LsmTreeProofs

----------------------------------------------------------------------------
(* Shapes *)

\* What the engine does between deaths, and a kill in one of the windows.
Working == Work /\ UNCHANGED kills
Death   == Killed(KillInPut \/ KillInDrop)

\* A step of a life is one of these three.
LEMMA LifeForms ==
    [Life]_lifeVars => Engine(Working) \/ Engine(Death) \/ Drop \/ UNCHANGED lifeVars
BY DEF Life, Engine, Next, Working, Death, Killed

\* The engine takes no step during a drop, and the flush mark never goes back.
LEMMA NextFrom == Work => pc \in EnginePcs /\ flushed' \in {flushed, Len(history)}
BY DEF Work, Put, Remove, PutFits, PutFull, PutAborts, CompactMerge, CompactDeleteA,
       CompactDeleteB, CompactNext, Flush, ClearLog, PutEnds, Crash, Die, DieLeaving, Restart,
       Down, Replay, RestoreSegments, auxVars, EnginePcs, ServePcs

\* Where the engine is at work, its types are those of LsmTree.
LEMMA EngineTypes ==
    ASSUME LifeType, pc \in EnginePcs
    PROVE  EngineTypeOK
BY DEF LifeType, EngineTypeOK

LEMMA EngineStepType ==
    ASSUME LifeType, Engine(Working)
    PROVE  LifeType'
<1>1. pc \in EnginePcs /\ Work /\ UNCHANGED <<closing, kills, dropped>>
      /\ flushed' \in {flushed, Len(history)}
  BY NextFrom DEF Engine, Working
<1>2. EngineTypeOK'
  BY <1>1, EngineTypes, TypeStep
<1>3. flushed \in 0..Len(history) /\ Len(history) \in Nat /\ flushed' \in 0..Len(history')
      /\ Len(history') \in Nat
  BY <1>2, LenProperties DEF LifeType, EngineTypeOK, DataTypeOK
<1>4. dropped' \in 0..flushed'
  BY <1>1, <1>3 DEF LifeType
<1>5. pc' \in EnginePcs
  BY <1>2 DEF EngineTypeOK, ControlTypeOK, EnginePcs, ServePcs
<1>6. pc' \notin DropPcs
  BY <1>5 DEF EnginePcs, ServePcs, DropPcs
<1>7. first' \in BOOLEAN
  BY DEF Engine, LifeType
<1>8. QED
  BY <1>1, <1>2, <1>4, <1>5, <1>6, <1>7 DEF LifeType, EngineTypeOK

\* A kill leaves the files as they are, or one more that holds a part of what was
\* to be written.
LEMMA DeathForms ==
    ASSUME LifeType, Engine(Death)
    PROVE  \/ Die
           \/ /\ pc \in {"flush", "compact"} /\ IdsLeft
              /\ \E l \in Levels, run \in [Keys -> Version] :
                    DieLeaving(WriteFile(NewPath(l), run))
<1>1. DataTypeOK /\ (KillInPut \/ KillInDrop)
  BY DEF LifeType, Engine, Death, Killed
<1>2. CASE KillInDrop
  BY <1>2 DEF KillInDrop
<1>3. CASE KillInPut
  BY <1>1, <1>3, KillForms
<1>4. QED
  BY <1>1, <1>2, <1>3

LEMMA DeathType ==
    ASSUME LifeType, Engine(Death)
    PROVE  LifeType'
<1>1. DataTypeOK /\ (KillInPut \/ KillInDrop) /\ kills < MaxKills /\ kills' = kills + 1
  BY DEF LifeType, Engine, Death, Killed
<1>2. /\ EngineTypeOK' /\ flushed' = flushed
      /\ pending' = << >> /\ merging' = << >> /\ pc' = "down" /\ replayed' = 0
  <2>1. CASE KillInPut
    BY <1>1, <2>1, KillType
  <2>2. CASE KillInDrop
    <3>1. Die
      BY <2>2 DEF KillInDrop
    <3>2. FilesTypeOK(disk)
      BY <1>1 DEF DataTypeOK, FilesTypeOK
    <3>3. /\ DataTypeOK' /\ flushed' = flushed
          /\ pending' = << >> /\ merging' = << >> /\ pc' = "down" /\ replayed' = 0
      BY <1>1, <3>1, <3>2, DieLeavingType DEF Die
    <3>4. QED
      BY <3>3 DEF EngineTypeOK, ControlTypeOK, Serving
  <2>3. QED
    BY <1>1, <2>1, <2>2
<1>3. kills' \in 0..MaxKills
  BY <1>1, BoundsAssumption DEF LifeType
<1>4. UNCHANGED <<closing, dropped>> /\ first' \in BOOLEAN
  BY DEF Engine, LifeType
<1>5. QED
  BY <1>2, <1>3, <1>4 DEF LifeType, EngineTypeOK, EnginePcs, ServePcs, DropPcs

LEMMA DropStepType ==
    ASSUME LifeType, Drop
    PROVE  LifeType'
<1>1. Len(history) \in Nat /\ Len(walFile) \in Nat /\ flushed \in 0..Len(history)
  BY LenProperties DEF LifeType, DataTypeOK
<1>2. CASE DropMemtable
  <2>1. /\ pc = "ready" /\ pc' = "dropWal" /\ closing' \in BOOLEAN
        /\ mem' = NoRun /\ bytes' = 0 /\ dropped' = Len(history) /\ flushed' = Len(history)
        /\ UNCHANGED <<segments, segment_i, disk, pending, lvl, merging, replayed, history,
                       walFile, walBuf, kills, first>>
    BY <1>2 DEF DropMemtable, walVars
  <2>2. pending = << >> /\ merging = << >> /\ replayed = 0
    BY <2>1 DEF LifeType, ControlTypeOK, EnginePcs, ServePcs, Serving
  <2>3. mem' \in [Keys -> Version] /\ bytes' \in 0..Wrap - 1
    BY <1>1, <2>1, BoundsAssumption DEF NoRun, Version
  <2>4. Version' = Version /\ flushed' \in 0..Len(history')
    BY <1>1, <2>1 DEF Version
  <2>5. DataTypeOK'
    BY <2>1, <2>3, <2>4 DEF LifeType, DataTypeOK
  <2>6. QED
    BY <1>1, <2>1, <2>2, <2>5 DEF LifeType, EnginePcs, ServePcs, DropPcs
<1>3. CASE DropLog
  <2>1. /\ pc = "dropWal" /\ pc' = "dropFiles" /\ walFile' = << >>
        /\ UNCHANGED <<mem, bytes, segments, segment_i, disk, pending, lvl, merging, replayed,
                       history, flushed, walBuf, closing, kills, dropped, first>>
    BY <1>3 DEF DropLog, WalClear, treeVars, auxVars
  <2>2. walFile' \in Seq(1..Len(history)) /\ Len(walFile') = 0 /\ replayed = 0
    BY <2>1, EmptySeq DEF LifeType, DropPcs
  <2>3. DataTypeOK'
    BY <2>1, <2>2 DEF LifeType, DataTypeOK, Version
  <2>4. QED
    BY <2>1, <2>3 DEF LifeType, EnginePcs, ServePcs, DropPcs
<1>4. CASE DropFile
  <2>1. PICK p \in DOMAIN disk : disk' = DeleteFile(p)
    BY <1>4 DEF DropFile
  <2>2. /\ pc = "dropFiles"
        /\ UNCHANGED <<mem, bytes, segments, segment_i, pc, pending, lvl, merging, replayed,
                       history, flushed, walFile, walBuf, closing, kills, dropped, first>>
    BY <1>4 DEF DropFile, ctlVars, auxVars, walVars
  <2>3. FilesTypeOK(disk')
    BY <2>1, DeleteFileType DEF LifeType
  <2>4. DataTypeOK'
    BY <2>2, <2>3 DEF LifeType, DataTypeOK, FilesTypeOK, Version
  <2>5. QED
    BY <2>2, <2>4 DEF LifeType, EnginePcs, ServePcs, DropPcs
<1>5. CASE DropLists
  <2>1. /\ pc = "dropFiles" /\ pc' \in {"closing", "ready"} /\ segment_i' = 0
        /\ segments' = [l \in Levels |-> << >>]
        /\ UNCHANGED <<mem, bytes, disk, pending, lvl, merging, replayed, history, flushed,
                       walFile, walBuf, closing, kills, dropped, first>>
    BY <1>5 DEF DropLists, auxVars, walVars
  <2>2. segments' \in [Levels -> Seq(Paths)] /\ segment_i' \in 0..IdWrap - 1
    BY <2>1, EmptySeq, BoundsAssumption
  <2>3. DataTypeOK'
    BY <2>1, <2>2 DEF LifeType, DataTypeOK, Version
  <2>4. pending = << >> /\ merging = << >> /\ replayed = 0
    BY <2>1 DEF LifeType, DropPcs
  <2>5. pc' = "ready" => ControlTypeOK'
    BY <2>1, <2>4 DEF ControlTypeOK, Serving
  <2>6. QED
    BY <2>1, <2>3, <2>4, <2>5 DEF LifeType, EnginePcs, ServePcs, DropPcs
<1>6. CASE Close
  <2>1. /\ pc = "closing" /\ pc' = "down" /\ closing' = FALSE /\ first' = FALSE
        /\ walFile' = walFile \o walBuf /\ walBuf' = << >>
        /\ UNCHANGED <<mem, bytes, segments, segment_i, disk, pending, lvl, merging, replayed,
                       history, flushed, kills, dropped>>
    BY <1>6 DEF Close, WalClose, treeVars, auxVars
  <2>2. /\ walFile' \in Seq(1..Len(history)) /\ Len(walFile') \in Nat
        /\ walBuf' \in Seq(1..Len(history)) /\ Len(walBuf') <= WalCap
    <3>1. walFile \in Seq(1..Len(history)) /\ walBuf \in Seq(1..Len(history))
      BY DEF LifeType, DataTypeOK
    <3>2. walFile \o walBuf \in Seq(1..Len(history))
      BY <3>1, ConcatProperties
    <3>3. QED
      BY <2>1, <3>2, EmptySeq, LenProperties, WalCapAssumption
  <2>3. pending = << >> /\ merging = << >> /\ replayed = 0
    BY <2>1 DEF LifeType, DropPcs
  <2>4. DataTypeOK'
    BY <2>1, <2>2, <2>3 DEF LifeType, DataTypeOK, Version
  <2>5. ControlTypeOK'
    BY <2>1, <2>3 DEF ControlTypeOK, Serving
  <2>6. QED
    BY <2>1, <2>4, <2>5 DEF LifeType, EnginePcs, ServePcs, DropPcs
<1>7. QED
  BY <1>2, <1>3, <1>4, <1>5, <1>6 DEF Drop

LEMMA LifeTypeStep == LifeType /\ [Life]_lifeVars => LifeType'
<1> SUFFICES ASSUME LifeType, [Life]_lifeVars PROVE LifeType'
  OBVIOUS
<1>1. CASE UNCHANGED lifeVars
  <2>1. DataTypeOK' = DataTypeOK
    <3>1. Version' = Version /\ UNCHANGED vars
      BY <1>1 DEF lifeVars, vars, workVars, auxVars, Version
    <3>2. QED
      BY <3>1 DEF vars, workVars, treeVars, ctlVars, auxVars, walVars, DataTypeOK
  <2>2. ControlTypeOK' = ControlTypeOK
    BY <1>1 DEF lifeVars, vars, workVars, ctlVars, treeVars, ControlTypeOK, Serving
  <2>3. QED
    BY <1>1, <2>1, <2>2 DEF lifeVars, vars, workVars, ctlVars, auxVars, LifeType
<1>2. QED
  BY <1>1, LifeForms, EngineStepType, DeathType, DropStepType

LEMMA LifeInitType == LifeInit => LifeType
<1> SUFFICES ASSUME LifeInit PROVE LifeType
  OBVIOUS
<1>1. EngineTypeOK /\ pc = "ready" /\ 0 \in 0..flushed
  BY InitType DEF LifeInit, Init
<1>2. kills \in 0..MaxKills
  BY BoundsAssumption DEF LifeInit, Init
<1>3. QED
  BY <1>1, <1>2 DEF LifeInit, LifeType, EngineTypeOK, EnginePcs, ServePcs, DropPcs

\* The engine's data and control have their types, through drops and deaths.
THEOREM LifeTypeCorrect == LifeSpec => []LifeTypeOK
<1>1. LifeInit => LifeType
  BY LifeInitType
<1>2. LifeType /\ [Life]_lifeVars => LifeType'
  BY LifeTypeStep
<1>3. LifeType => LifeTypeOK
  <2>1. ASSUME LifeType PROVE dropped \in 0..Len(history)
    BY <2>1, LenProperties DEF LifeType, DataTypeOK
  <2>2. QED
    BY <2>1 DEF LifeType, LifeTypeOK, EnginePcs, ServePcs, DropPcs
<1>4. QED
  BY <1>1, <1>2, <1>3, PTL DEF LifeSpec

----------------------------------------------------------------------------
(* What the files keep *)

\* While the engine is at work, lists and files belong together.
LEMMA EngineFiling ==
    ASSUME LifeInv, pc \in EnginePcs
    PROVE  EngineTypeOK /\ Filing
BY EngineTypes DEF LifeInv, Filing

LEMMA EngineStepFiling ==
    ASSUME LifeInv, Engine(Working)
    PROVE  Filing'
<1>1. Work /\ EngineTypeOK /\ Filing
  BY NextFrom, EngineFiling DEF Engine, Working
<1>2. EngineTypeOK'
  BY <1>1, TypeStep
<1>3. CASE merging = << >> /\ UNCHANGED <<disk, merging>>
           /\ (Serving' => Serving /\ UNCHANGED <<segments, segment_i>>)
  BY <1>1, <1>3, FilingKept
<1>4. CASE IdsLeft /\ CompactMerge
  BY <1>1, <1>4, MergeFiling
<1>5. CASE CompactDeleteA
  BY <1>1, <1>5, DeleteAFiling
<1>6. CASE CompactDeleteB
  BY <1>1, <1>6, DeleteBFiling
<1>7. CASE IdsLeft /\ Flush
  BY <1>1, <1>7, FlushFiling
<1>8. CASE RestoreSegments
  BY <1>1, <1>8, RestoreFiling
<1>9. ASSUME NEW k \in Keys, NEW v, Put(k, v) PROVE Filing'
  BY <1>1, <1>3, <1>9
  DEF Put, PutFits, PutFull, PutAborts, Die, DieLeaving, ctlVars, treeVars, Serving,
      EngineTypeOK, ControlTypeOK
<1>10. CASE CompactNext \/ ClearLog \/ PutEnds \/ Crash \/ Restart \/ Replay
  BY <1>1, <1>3, <1>10
  DEF CompactNext, ClearLog, PutEnds, Crash, Die, DieLeaving, Restart, Replay, Down, ctlVars,
      treeVars, Serving, EngineTypeOK, ControlTypeOK
<1>11. QED
  BY <1>1, <1>4, <1>5, <1>6, <1>7, <1>8, <1>9, <1>10 DEF Work, Remove

LEMMA DeathInv ==
    ASSUME LifeInv, Engine(Death)
    PROVE  FreshIds' /\ Listed' /\ MergeHolds'
<1>1. LifeType
  BY DEF LifeInv
<1>2. ASSUME NEW files, DieLeaving(files),
             \A p, q \in DOMAIN files : Id(p) = Id(q) => p = q,
             \A p \in DOMAIN files : Id(p) + 1 < IdWrap
      PROVE  FreshIds' /\ Listed' /\ MergeHolds'
  <2>1. disk' = files /\ merging' = << >> /\ ~Serving'
    BY <1>2 DEF DieLeaving, Serving
  <2>2. QED
    BY <1>2, <2>1 DEF FreshIds, Listed, MergeHolds
<1>3. CASE Die
  BY <1>2, <1>3 DEF Die, LifeInv, FreshIds
<1>4. ASSUME pc \in {"flush", "compact"}, IdsLeft, NEW l \in Levels, NEW run \in [Keys -> Version],
             DieLeaving(WriteFile(NewPath(l), run))
      PROVE  FreshIds' /\ Listed' /\ MergeHolds'
  <2>1. pc \in EnginePcs /\ Serving
    BY <1>4 DEF EnginePcs, ServePcs, Serving
  <2>2. EngineTypeOK /\ FreshIds
    BY <2>1, EngineFiling DEF Filing
  <2> DEFINE files == WriteFile(NewPath(l), run)
  <2>3. /\ \A p, q \in DOMAIN files : Id(p) = Id(q) => p = q
        /\ \A p \in DOMAIN files : Id(p) + 1 < IdWrap
    BY <1>4, <2>1, <2>2, NewFile
  <2> HIDE DEF files
  <2>4. DieLeaving(files)
    BY <1>4 DEF files
  <2>5. QED
    BY <1>2, <2>3, <2>4
<1>5. QED
  BY <1>1, <1>3, <1>4, DeathForms

LEMMA DropStepInv ==
    ASSUME LifeInv, Drop
    PROVE  FreshIds' /\ (pc' \in EnginePcs => Listed') /\ MergeHolds'
<1>1. LifeType /\ FreshIds /\ MergeHolds
  BY DEF LifeInv
<1>2. merging = << >> /\ merging' = << >>
  BY <1>1 DEF Drop, DropMemtable, DropLog, DropFile, DropLists, Close, ctlVars, LifeType,
              ControlTypeOK, EnginePcs, ServePcs, DropPcs
<1>3. MergeHolds'
  BY <1>2 DEF MergeHolds
<1>4. CASE DropMemtable \/ DropLog
  <2>1. /\ UNCHANGED <<disk, segment_i>> /\ pc' \in {"dropWal", "dropFiles"} /\ Serving
    BY <1>4 DEF DropMemtable, DropLog, treeVars, Serving
  <2>2. pc' \notin EnginePcs
    BY <2>1 DEF EnginePcs, ServePcs
  <2>3. QED
    BY <1>1, <1>3, <2>1, <2>2 DEF FreshIds
<1>5. CASE DropFile
  <2>1. /\ DOMAIN disk' \subseteq DOMAIN disk
        /\ UNCHANGED <<pc, segment_i>> /\ pc = "dropFiles"
    BY <1>5 DEF DropFile, DeleteFile, ctlVars
  <2>2. pc' \notin EnginePcs
    BY <2>1 DEF EnginePcs, ServePcs
  <2>3. FreshIds'
    BY <1>1, <2>1 DEF FreshIds, Serving
  <2>4. QED
    BY <1>3, <2>2, <2>3
<1>6. CASE DropLists
  <2>1. /\ disk = << >> /\ disk' = << >> /\ segments' = [l \in Levels |-> << >>]
    BY <1>6 DEF DropLists
  <2>2. DOMAIN disk' = {}
    BY <2>1
  <2>3. FreshIds'
    BY <2>2 DEF FreshIds
  <2>4. ASSUME NEW l \in Levels PROVE IsListing(segments'[l], ((Files(l) \cap Live) \ Unlisted)')
    BY <2>1, <2>2 DEF IsListing, Files
  <2>5. QED
    BY <1>3, <2>3, <2>4 DEF Listed
<1>7. CASE Close
  <2>1. disk' = disk /\ ~Serving'
    BY <1>7 DEF Close, treeVars, Serving
  <2>2. QED
    BY <1>1, <1>3, <2>1 DEF FreshIds, Listed
<1>8. QED
  BY <1>4, <1>5, <1>6, <1>7 DEF Drop

LEMMA LifeInvStep == LifeInv /\ [Life]_lifeVars => LifeInv'
<1> SUFFICES ASSUME LifeInv, [Life]_lifeVars PROVE LifeInv'
  OBVIOUS
<1>1. LifeType'
  BY LifeTypeStep DEF LifeInv
<1>2. CASE UNCHANGED lifeVars
  BY <1>1, <1>2
  DEF lifeVars, vars, workVars, treeVars, ctlVars, LifeInv, FreshIds, Listed, MergeHolds, Files, Live,
      Doomed, Unlisted, Serving
<1>3. QED
  BY <1>1, <1>2, LifeForms, EngineStepFiling, DeathInv, DropStepInv DEF LifeInv, Filing

LEMMA LifeInitInv == LifeInit => LifeInv
<1> SUFFICES ASSUME LifeInit PROVE LifeInv
  OBVIOUS
<1>1. EngineTypeOK /\ Layout
  BY InitIInv, InitType DEF LifeInit
<1>2. Filing
  BY <1>1, LayoutFiling
<1>3. QED
  BY <1>2, LifeInitType DEF LifeInv, Filing
LEMMA LifeInductive == LifeSpec => []LifeInv
BY LifeInitInv, LifeInvStep, PTL DEF LifeSpec

\* A restart leaves no file out and a drop none on the lists: between two writes
\* lists and files are the same, however often the process was killed in between.
THEOREM ListsMatchThroughKills == LifeSpec => []ListsMatchDisk
<1>1. LifeInv => ListsMatchDisk
  <2> SUFFICES ASSUME LifeInv PROVE ListsMatchDisk
    OBVIOUS
  <2>1. CASE pc = "ready"
    BY <2>1, EngineFiling, ListsMatch DEF EnginePcs, ServePcs, Filing
  <2>2. CASE pc # "ready"
    BY <2>2 DEF ListsMatchDisk
  <2>3. QED
    BY <2>1, <2>2
<1>2. QED
  BY <1>1, LifeInductive, PTL

\* What a kill leaves of a file that was being written is a file of its own.
LEMMA DeathKeepsFiles ==
    ASSUME LifeInv, Engine(Death), NEW p \in DOMAIN disk
    PROVE  p \in DOMAIN disk' /\ disk'[p] = disk[p]
<1>1. CASE Die
  BY <1>1 DEF Die, DieLeaving
<1>2. ASSUME pc \in {"flush", "compact"}, NEW l \in Levels, NEW run \in [Keys -> Version],
             DieLeaving(WriteFile(NewPath(l), run))
      PROVE  p \in DOMAIN disk' /\ disk'[p] = disk[p]
  <2>1. pc \in EnginePcs /\ Serving
    BY <1>2 DEF EnginePcs, ServePcs, Serving
  <2>2. NewPath(l) \notin DOMAIN disk
    BY <2>1, EngineFiling, NewPathFacts DEF Filing
  <2>3. QED
    BY <1>2, <2>2 DEF DieLeaving, WriteFile
<1>3. QED
  BY <1>1, <1>2, DeathForms DEF LifeInv

LEMMA LifeFilesKept ==
    LifeInv /\ [Life]_lifeVars => \A p \in DOMAIN disk \cap DOMAIN disk' : disk'[p] = disk[p]
<1> SUFFICES ASSUME LifeInv, [Life]_lifeVars, NEW p \in DOMAIN disk \cap DOMAIN disk'
             PROVE  disk'[p] = disk[p]
  OBVIOUS
<1>1. CASE Engine(Working)
  BY <1>1, NextFrom, EngineFiling, FilesKept DEF Engine, Working, Filing
<1>2. CASE Engine(Death)
  BY <1>2, DeathKeepsFiles
<1>3. CASE Drop
  BY <1>3 DEF Drop, DropMemtable, DropLog, DropFile, DropLists, Close, DeleteFile, treeVars
<1>4. CASE UNCHANGED lifeVars
  BY <1>4 DEF lifeVars, vars, workVars, treeVars
<1>5. QED
  BY <1>1, <1>2, <1>3, <1>4, LifeForms

\* A segment file never changes between its creation and its deletion: no kill
\* leaves an id behind that a later process gives to another file.
THEOREM SegmentsImmutableThroughKills == LifeSpec => SegmentsImmutable
<1>1. LifeInv /\ [Life]_lifeVars =>
         [\A p \in DOMAIN disk \cap DOMAIN disk' : disk'[p] = disk[p]]_vars
  BY LifeFilesKept
<1>2. QED
  BY <1>1, LifeInductive, PTL DEF LifeSpec, SegmentsImmutable

\* A file that the engine deletes is one of the two of a merge, and the merged
\* file has its keys.
LEMMA DeletedIsMerged ==
    ASSUME LifeInv, Engine(Working), NEW p \in DOMAIN disk \ DOMAIN disk',
           NEW k \in Keys, disk[p][k] # 0
    PROVE  \E m \in DOMAIN disk' : disk'[m] = disk[m] /\ disk[m][k] # 0
<1>1. EngineTypeOK /\ Filing /\ Work
  BY NextFrom, EngineFiling DEF Engine, Working
<1>2. CASE CompactDeleteA \/ CompactDeleteB
  <2>1. PICK i \in {1, 2} : disk' = DeleteFile(merging[i])
    BY <1>2 DEF CompactDeleteA, CompactDeleteB
  <2>2. merging # << >>
    BY <1>1, <1>2 DEF CompactDeleteA, CompactDeleteB, EngineTypeOK, ControlTypeOK
  <2> DEFINE m == merging[3]
  <2>3. p = merging[i]
    BY <2>1 DEF DeleteFile
  <2>4. p \in Doomed /\ m \notin Doomed
    BY <1>1, <2>2, <2>3 DEF Doomed, Filing, MergeHolds
  <2>5. m \in DOMAIN disk /\ disk[m][k] # 0 /\ m # merging[i]
    BY <1>1, <2>2, <2>3, <2>4 DEF Filing, MergeHolds
  <2>6. QED
    BY <2>1, <2>5 DEF DeleteFile
<1>3. CASE DOMAIN disk \subseteq DOMAIN disk'
  BY <1>3
<1>4. QED
  BY <1>1, <1>2, <1>3
  DEF Work, Put, Remove, PutFits, PutFull, PutAborts, Die, DieLeaving, CompactMerge, WriteFile,
      CompactNext, Flush, ClearLog, PutEnds, Crash, Restart, Replay, RestoreSegments, treeVars

LEMMA HoldersKept ==
    LifeInv /\ [Life]_lifeVars =>
        (pc # "dropFiles" => \A k \in Keys : HoldersOf(k) # {} => HoldersOf(k)' # {})
<1> SUFFICES ASSUME LifeInv, [Life]_lifeVars, pc # "dropFiles",
                    NEW k \in Keys, NEW p \in HoldersOf(k)
             PROVE  \E q \in DOMAIN disk' : disk'[q][k] # 0
  BY DEF HoldersOf
<1>1. p \in DOMAIN disk /\ disk[p][k] # 0
  BY DEF HoldersOf
<1>2. CASE p \in DOMAIN disk'
  BY <1>1, <1>2, LifeFilesKept
<1>3. CASE p \notin DOMAIN disk'
  <2>1. CASE Engine(Working)
    BY <1>1, <1>3, <2>1, DeletedIsMerged
  <2>2. CASE Engine(Death)
    BY <1>1, <1>3, <2>2, DeathKeepsFiles
  <2>3. CASE Drop
    BY <1>1, <1>3, <2>3 DEF Drop, DropMemtable, DropLog, DropFile, DropLists, Close, treeVars
  <2>4. CASE UNCHANGED lifeVars
    BY <1>1, <1>3, <2>4 DEF lifeVars, vars, workVars, treeVars
  <2>5. QED
    BY <2>1, <2>2, <2>3, <2>4, LifeForms
<1>4. QED
  BY <1>2, <1>3

\* Wherever the process is killed, outside a drop no step takes the last file
\* that holds a key.
THEOREM KeysSurviveKills == LifeSpec => KeysSurvive
<1>1. LifeInv /\ [Life]_lifeVars =>
         [pc # "dropFiles" => \A k \in Keys : HoldersOf(k) # {} => HoldersOf(k)' # {}]_lifeVars
  BY HoldersKept
<1>2. QED
  BY <1>1, LifeInductive, PTL DEF LifeSpec, KeysSurvive
----------------------------------------------------------------------------
(* The first process *)

\* A process that serves on goes on holding the writes after the d-th.
LEMMA HeldStep ==
    ASSUME EngineTypeOK, Layout, NEW d \in Nat, Held(d), Work, Serving, Serving'
    PROVE  Held(d)'
<1>1. ASSUME NEW k \in Keys, NEW v \in Values \cup {Tombstone}, PutFits(k, v) PROVE Held(d)'
  BY <1>1, LogAndInsertHeld DEF PutFits
<1>2. CASE PutEnds
  <2>1. /\ pending \in Keys \X (Values \cup {Tombstone})
        /\ LogAndInsert(pending[1], pending[2]) /\ UNCHANGED <<disk, flushed>>
    BY <1>2 DEF PutEnds, EngineTypeOK, ControlTypeOK, Serving
  <2>2. QED
    BY <2>1, LogAndInsertHeld
<1>3. CASE CompactMerge
  BY <1>3, MergeKeeps, HeldKept DEF CompactMerge, auxVars
<1>4. CASE CompactDeleteA \/ CompactDeleteB
  BY <1>4, DeleteKeeps, HeldKept DEF CompactDeleteA, CompactDeleteB, auxVars
<1>5. CASE Flush
  BY <1>5, FlushHeld DEF Layout
<1>6. CASE UNCHANGED <<mem, disk, history, flushed>>
  BY <1>6, SameFilesKept, HeldKept
<1>7. QED
  BY <1>1, <1>2, <1>3, <1>4, <1>5, <1>6
  DEF Work, Put, Remove, PutFull, PutAborts, CompactNext, ClearLog, Crash, Die, DieLeaving, Restart,
      Down, Replay, RestoreSegments, Serving, treeVars, auxVars

\* What it writes is after the d-th, and what it merges and flushes is.
LEMMA SinceStep ==
    ASSUME EngineTypeOK, Layout, NEW d \in 0..Len(history), Since(d), Work, Serving, Serving'
    PROVE  Since(d)'
<1>1. ASSUME NEW k \in Keys, NEW v, LogAndInsert(k, v), disk' = disk PROVE Since(d)'
  <2>1. /\ mem' = [mem EXCEPT ![k] = Len(history) + 1] /\ Len(history) + 1 > d
        /\ mem \in [Keys -> Version]
    BY <1>1, NumberFacts DEF LogAndInsert, EngineTypeOK, DataTypeOK
  <2>2. QED
    BY <1>1, <2>1 DEF Since
<1>2. CASE EntriesKept /\ mem' = mem
  BY <1>2 DEF Since, EntriesKept
<1>3. CASE Flush
  <2>1. disk' = WriteFile(NewPath(0), mem) /\ \A k \in Keys : mem'[k] = 0
    BY <1>3 DEF Flush, NoRun
  <2>2. \A p \in DOMAIN disk' : disk'[p] = mem \/ (p \in DOMAIN disk /\ disk'[p] = disk[p])
    BY <2>1 DEF WriteFile
  <2>3. QED
    BY <2>1, <2>2 DEF Since
<1>4. CASE CompactMerge \/ CompactDeleteA \/ CompactDeleteB
  BY <1>2, <1>4, MergeKeeps, DeleteKeeps DEF CompactMerge, CompactDeleteA, CompactDeleteB
<1>5. CASE UNCHANGED <<mem, disk>>
  BY <1>2, <1>5, SameFilesKept
<1>6. CASE PutEnds
  BY <1>1, <1>6 DEF PutEnds, EngineTypeOK, ControlTypeOK, Serving
<1>7. QED
  BY <1>1, <1>3, <1>4, <1>5, <1>6
  DEF Work, Put, Remove, PutFits, PutFull, PutAborts, CompactNext, ClearLog, Crash, Die,
      DieLeaving, Restart, Down, Replay, RestoreSegments, Serving, treeVars

\* With no entry anywhere, and no write since the drop, everything is in order.
LEMMA EmptyInOrder ==
    ASSUME LifeType, pc \in {"ready", "closing"}, mem = NoRun, disk = << >>,
           segments = [l \in Levels |-> << >>],
           dropped = Len(history), flushed = Len(history), merging = << >>
    PROVE  Layout /\ Held(dropped) /\ Since(dropped)
<1>1. DOMAIN disk = {} /\ \A k \in Keys : mem[k] = 0
  BY DEF NoRun
<1>2. Live = {} /\ Unlisted = {}
  BY <1>1 DEF Live, Unlisted
<1>3. Listed
  BY <1>1 DEF Listed, IsListing, Files
<1>4. Layout
  BY <1>1, <1>2, <1>3
  DEF Layout, FilesOrdered, FreshIds, LevelOrder, Shape, Compacted, Merging
<1>5. Len(history) \in Nat
  BY LenProperties DEF LifeType, DataTypeOK
<1>6. \A n \in Len(history) + 1 .. Len(history) : FALSE
  BY <1>5
<1>7. MemSound /\ MemCovers /\ FilesSound /\ FilesCover(dropped)
  BY <1>1, <1>6 DEF MemSound, MemCovers, FilesSound, FilesCover
<1>8. QED
  BY <1>1, <1>4, <1>7 DEF Held, Since

LEMMA FirstLifeEngine ==
    ASSUME LifeType, FirstLifeInv, first, first', Engine(Working)
    PROVE  FirstLifeInv'
<1>1. /\ Work /\ pc \in ServePcs /\ pc' # "down" /\ UNCHANGED dropped
      /\ Layout /\ Held(dropped) /\ Since(dropped)
  BY NextFrom DEF FirstLifeInv, Engine, Working, EnginePcs
<1>2. EngineTypeOK /\ Serving
  BY <1>1, EngineTypes DEF EnginePcs, ServePcs, Serving
<1>3. EngineTypeOK'
  BY <1>1, <1>2, TypeStep
<1>4. pc' # "replay"
  BY <1>1
  DEF Work, Put, Remove, PutFits, PutFull, PutAborts, CompactMerge, CompactDeleteA,
      CompactDeleteB, CompactNext, Flush, ClearLog, PutEnds, Crash, Die, DieLeaving, Restart,
      Down, Replay, RestoreSegments, ServePcs, ctlVars
<1>5. Serving'
  BY <1>1, <1>4 DEF Serving
<1>6. PICK d : d = dropped /\ d \in 0..Len(history) /\ d \in Nat
  BY LenProperties DEF LifeType, DataTypeOK
<1>7. Held(d) /\ Since(d)
  BY <1>1, <1>6
<1>8. Layout'
  BY <1>1, <1>2, <1>6, <1>7, MemIsNewer, LayoutStep
<1>9. Held(d)' /\ Since(d)'
  BY <1>1, <1>2, <1>5, <1>6, <1>7, HeldStep, SinceStep
<1>10. Held(dropped)' /\ Since(dropped)'
  BY <1>1, <1>6, <1>9 DEF Held, Since, FilesCover
<1>11. pc' \notin DropPcs
  BY <1>3 DEF EngineTypeOK, ControlTypeOK, DropPcs
<1>12. QED
  BY <1>1, <1>4, <1>8, <1>10, <1>11 DEF FirstLifeInv

LEMMA FirstLifeDrop ==
    ASSUME LifeType, LifeType', FirstLifeInv, first, Drop
    PROVE  FirstLifeInv'
<1>1. CASE DropMemtable
  <2>1. /\ pc' = "dropWal" /\ mem' = NoRun /\ history' = history
        /\ dropped' = Len(history) /\ flushed' = Len(history)
    BY <1>1 DEF DropMemtable
  <2>2. QED
    BY <2>1 DEF FirstLifeInv, ServePcs, NoRun
<1>2. CASE DropLog \/ DropFile
  <2>1. /\ pc \in DropPcs /\ pc' = "dropFiles"
        /\ UNCHANGED <<mem, history, flushed, dropped>>
    BY <1>2 DEF DropLog, DropFile, DropPcs, treeVars, auxVars, ctlVars
  <2>2. QED
    BY <2>1 DEF FirstLifeInv, ServePcs, NoRun
<1>3. CASE DropLists
  <2>1. /\ pc \in DropPcs /\ pc' \in {"closing", "ready"}
        /\ disk' = << >> /\ segments' = [l \in Levels |-> << >>]
        /\ UNCHANGED <<mem, history, flushed, dropped, merging>>
    BY <1>3 DEF DropLists, DropPcs, auxVars
  <2>2. mem' = NoRun /\ dropped' = Len(history') /\ flushed' = Len(history') /\ merging' = << >>
    BY <2>1 DEF FirstLifeInv, LifeType
  <2>3. (Layout /\ Held(dropped) /\ Since(dropped))'
    <3>1. (LifeType /\ pc \in {"ready", "closing"} /\ mem = NoRun /\ disk = << >>
           /\ segments = [l \in Levels |-> << >>] /\ dropped = Len(history)
           /\ flushed = Len(history) /\ merging = << >>
           => Layout /\ Held(dropped) /\ Since(dropped))'
      BY EmptyInOrder, PTL
    <3>2. (mem = NoRun)'
      BY <2>2 DEF NoRun
    <3>3. QED
      BY <2>1, <2>2, <3>1, <3>2
  <2>4. QED
    BY <2>1, <2>2, <2>3 DEF FirstLifeInv, NoRun
<1>4. CASE Close
  BY <1>4 DEF Close, FirstLifeInv
<1>5. QED
  BY <1>1, <1>2, <1>3, <1>4 DEF Drop

LEMMA FirstLifeStep == LifeType /\ FirstLifeInv /\ [Life]_lifeVars => FirstLifeInv'
<1> SUFFICES ASSUME LifeType, FirstLifeInv, [Life]_lifeVars, first' PROVE FirstLifeInv'
  BY DEF FirstLifeInv
<1>1. LifeType'
  BY LifeTypeStep
<1>2. CASE UNCHANGED lifeVars
  <2>1. UNCHANGED <<vars, dropped, first>> /\ Seen' = Seen /\ Serving' = Serving /\ Live' = Live
        /\ Unlisted' = Unlisted
    BY <1>2
    DEF lifeVars, vars, workVars, treeVars, ctlVars, auxVars, walVars, Seen, Serving, Live, Doomed,
        Unlisted
  <2>2. Layout' = Layout
    BY <2>1
    DEF vars, workVars, treeVars, ctlVars, Layout, FilesOrdered, FreshIds, Listed, LevelOrder, Shape,
        Compacted, Merging, Doomed, IsListing, Files
  <2>3. Held(dropped)' = Held(dropped) /\ Since(dropped)' = Since(dropped)
    BY <2>1
    DEF vars, workVars, treeVars, ctlVars, auxVars, walVars, Held, MemSound, MemCovers, FilesSound,
        FilesCover, Since
  <2>4. QED
    BY <2>1, <2>2, <2>3 DEF FirstLifeInv, vars, workVars, treeVars, ctlVars, auxVars, NoRun
<1>3. CASE Engine(Working)
  <2>1. first
    BY <1>3 DEF Engine
  <2>2. QED
    BY <1>3, <2>1, FirstLifeEngine
<1>4. CASE Engine(Death)
  <2>1. pc' = "down"
    BY <1>4, DeathForms DEF Die, DieLeaving
  <2>2. QED
    BY <1>4, <2>1 DEF Engine
<1>5. CASE Drop
  <2>1. first
    BY <1>5 DEF Drop, DropMemtable, DropLog, DropFile, DropLists, Close
  <2>2. QED
    BY <1>1, <1>5, <2>1, FirstLifeDrop
<1>6. QED
  BY <1>2, <1>3, <1>4, <1>5, LifeForms

LEMMA FirstLifeInit == LifeInit => FirstLifeInv
<1> SUFFICES ASSUME LifeInit PROVE FirstLifeInv
  OBVIOUS
<1>1. Layout /\ Content /\ pc = "ready"
  BY InitIInv DEF LifeInit, Init
<1>2. dropped = 0 /\ DOMAIN disk = {} /\ \A k \in Keys : mem[k] = 0
  BY DEF LifeInit, Init, NoRun
<1>3. Held(dropped) /\ Since(dropped)
  BY <1>1, <1>2 DEF Content, Since
<1>4. QED
  BY <1>1, <1>3 DEF FirstLifeInv, DropPcs

LEMMA SinceDropLatest == LifeType /\ FirstLifeInv => LatestSinceDrop
<1> SUFFICES ASSUME LifeType, FirstLifeInv, first, pc = "ready", NEW k \in Keys
             PROVE  IF \E n \in dropped + 1 .. Len(history) : history[n].key = k
                    THEN IsLatest(View(k), k, Len(history))
                    ELSE View(k) = 0
  BY DEF LatestSinceDrop
<1>1. EngineTypeOK /\ Layout /\ Held(dropped) /\ Since(dropped) /\ Serving
  BY EngineTypes DEF FirstLifeInv, EnginePcs, ServePcs, Serving
<1>2. dropped \in Nat /\ FreshIds /\ FilesOrdered
  BY <1>1, LenProperties DEF LifeType, DataTypeOK, Layout
<1> DEFINE written == \E n \in dropped + 1 .. Len(history) : history[n].key = k
<1>3. \A v \in 1..Len(history) : v > dropped /\ history[v].key = k => written
  BY <1>2
<1>4. CASE mem[k] # 0
  <2>1. IsLatest(mem[k], k, Len(history)) /\ mem[k] > dropped /\ View(k) = mem[k]
    BY <1>1, <1>2, <1>4, MemLatest DEF Since, View
  <2>2. written
    BY <1>1, <1>3, <1>4, <2>1, NumberFacts DEF IsLatest
  <2>3. QED
    BY <2>1, <2>2
<1>5. CASE mem[k] = 0 /\ HoldersOf(k) # {}
  <2> DEFINE p == CHOOSE p \in HoldersOf(k) : \A q \in HoldersOf(k) : Id(q) <= Id(p)
  <2>1. p \in HoldersOf(k) /\ \A q \in HoldersOf(k) : Id(q) <= Id(p)
    BY <1>1, <1>2, <1>5, NewestExists
  <2>2. View(k) = disk[p][k]
    BY <1>5 DEF View, OnDisk
  <2> HIDE DEF p
  <2>3. disk[p][k] > dropped /\ disk[p][k] # 0
    BY <1>1, <2>1 DEF Since, HoldersOf
  <2>4. IsLatest(disk[p][k], k, Len(history))
    BY <1>1, <1>2, <1>5, <2>1, <2>3, NewestLatest
  <2>5. written
    BY <1>1, <1>3, <2>1, <2>3, <2>4, NumberFacts DEF IsLatest, HoldersOf
  <2>6. QED
    BY <2>2, <2>4, <2>5
<1>6. CASE mem[k] = 0 /\ HoldersOf(k) = {}
  <2>1. View(k) = 0
    BY <1>6 DEF View, OnDisk
  <2>2. ASSUME NEW n \in dropped + 1 .. Len(history), history[n].key = k PROVE FALSE
    <3>1. PICK q \in DOMAIN disk : disk[q][k] >= n
      BY <1>1, <1>2, <1>6, <2>2, CoveredOnDisk
    <3>2. disk[q][k] # 0
      BY <1>1, <1>2, <3>1, NumberFacts
    <3>3. QED
      BY <1>6, <3>1, <3>2 DEF HoldersOf
  <2>3. QED
    BY <2>1, <2>2
<1>7. QED
  BY <1>4, <1>5, <1>6

----------------------------------------------------------------------------
(* Readers beside the writer *)

\* Readers change nothing of the engine.
LEMMA ReadNextIsLife == [ReadNext]_readVars => [Life]_lifeVars
BY DEF ReadNext, readVars, Change, GetBegins, GetLooks, GetGoesOn, GetEnds

LEMMA ReadInductive == ReadSpec => [](LifeInv /\ FirstLifeInv)
<1>1. ReadInit => LifeInv /\ FirstLifeInv
  BY LifeInitInv, FirstLifeInit DEF ReadInit
<1>2. LifeInv /\ FirstLifeInv /\ [ReadNext]_readVars => (LifeInv /\ FirstLifeInv)'
  BY LifeInvStep, FirstLifeStep, ReadNextIsLife DEF LifeInv
<1>3. QED
  BY <1>1, <1>2, PTL DEF ReadSpec

\* As long as the first process lives a drop is final, and what is written after it is
\* held: the latest write of every key since the drop, and nothing older.
\* (drop_table, put)
THEOREM LatestSinceDropAlways == ReadSpec => []LatestSinceDrop
<1>1. LifeInv /\ FirstLifeInv => LatestSinceDrop
  BY SinceDropLatest DEF LifeInv
<1>2. QED
  BY <1>1, ReadInductive, PTL

\* A search that has met nothing so far, and finds something at its place, finds
\* what a search in one look finds.
LEMMA FirstFound ==
    ASSUME NEW k, NEW l \in Levels, NEW i \in 1..Len(segments[l]),
           \A m \in Levels : Len(segments[m]) \in Nat,
           \A m \in Levels : \A j \in 1..Len(segments[m]) :
              Sooner(m, j, l, i) => Search(segments[m][j], k) = 0,
           Search(segments[l][i], k) # 0
    PROVE  SearchAllSegments(k) = Search(segments[l][i], k)
<1> DEFINE First(q) == \A r \in Positions(k) : q[1] < r[1] \/ (q[1] = r[1] /\ q[2] <= r[2])
           top == CHOOSE q \in Positions(k) : First(q)
           here == <<l, i>>
<1>1. \A q \in Positions(k) :
         /\ q[1] \in Levels /\ q[2] \in 1..Len(segments[q[1]])
         /\ q = <<q[1], q[2]>> /\ Search(segments[q[1]][q[2]], k) # 0
  BY DEF Positions
<1>2. Levels \subseteq Nat
  BY BoundsAssumption DEF Levels
<1>3. here \in Positions(k)
  <2>1. here \in UNION {{m} \X (1..Len(segments[m])) : m \in Levels}
    OBVIOUS
  <2>2. QED
    BY <2>1 DEF Positions
<1>4. First(here)
  <2> SUFFICES ASSUME NEW r \in Positions(k)
               PROVE  l < r[1] \/ (l = r[1] /\ i <= r[2])
    OBVIOUS
  <2>1. ~Sooner(r[1], r[2], l, i)
    BY <1>1
  <2>2. l \in Nat /\ r[1] \in Nat /\ i \in Nat /\ r[2] \in Nat
    BY <1>1, <1>2
  <2>3. QED
    BY <2>1, <2>2 DEF Sooner
<1>5. top \in Positions(k) /\ First(top)
  BY <1>3, <1>4
<1>6. SearchAllSegments(k) = Search(segments[top[1]][top[2]], k)
  BY <1>3 DEF SearchAllSegments, Positions
<1> HIDE DEF top
<1>7. top[1] = l /\ top[2] = i
  <2>1. l < top[1] \/ (l = top[1] /\ i <= top[2])
    BY <1>4, <1>5
  <2>2. top[1] < l \/ (top[1] = l /\ top[2] <= i)
    BY <1>3, <1>5
  <2>3. l \in Nat /\ top[1] \in Nat /\ i \in Nat /\ top[2] \in Nat
    BY <1>1, <1>2, <1>5
  <2>4. QED
    BY <2>1, <2>2, <2>3
<1>8. QED
  BY <1>6, <1>7

\* What readers rely on stays while the engine stays.
LEMMA ReadingStays == lifeVars' = lifeVars => \A t : Reading(t) => Reading(t)'
<1> SUFFICES ASSUME lifeVars' = lifeVars, NEW t, Reading(t) PROVE Reading(t)'
  OBVIOUS
<1>1. UNCHANGED <<mem, segments, disk, pc>>
  BY DEF lifeVars, vars, workVars, treeVars, ctlVars
<1>2. ASSUME NEW q, NEW k PROVE Search(q, k)' = Search(q, k)
  BY <1>1 DEF Search
<1>3. ASSUME NEW k PROVE Get(k)' = Get(k)
  BY <1>1 DEF Get, SearchAllSegments, Search
<1>4. QED
  BY <1>1, <1>2, <1>3 DEF Reading
\* One reader goes on, and the others stay where they are.
LEMMA ReaderGoesOn ==
    ASSUME ReaderInv, UNCHANGED lifeVars, NEW r \in Readers, NEW t,
           reads' = [reads EXCEPT ![r] = t], t = Outside \/ Reading(t)
    PROVE  ReaderInv'
<1>1. \A u : Reading(u) => Reading(u)'
  BY ReadingStays
<1>2. ASSUME NEW s \in Readers, reads'[s] # Outside PROVE Reading(reads[s])'
  <2>1. reads'[s] = t \/ reads'[s] = reads[s]
    BY <1>2 DEF ReaderInv
  <2>2. Reading(reads'[s])
    BY <1>2, <2>1 DEF ReaderInv
  <2>3. PICK u : u = reads'[s]
    OBVIOUS
  <2>4. Reading(u)'
    BY <1>1, <2>2, <2>3
  <2>5. QED
    BY <2>3, <2>4 DEF Reading
<1>3. DOMAIN reads' = Readers
  BY DEF ReaderInv
<1>4. QED
  BY <1>2, <1>3 DEF ReaderInv

LEMMA ReaderStep == LifeInv /\ ReaderInv /\ [ReadNext]_readVars => ReaderInv'
<1> SUFFICES ASSUME LifeInv, ReaderInv, [ReadNext]_readVars PROVE ReaderInv'
  OBVIOUS
<1>1. ASSUME pc = "ready"
      PROVE  /\ \A l \in Levels : Len(segments[l]) \in Nat
             /\ MaxLevel \in Nat /\ Levels = 0..MaxLevel
  <2>1. EngineTypeOK /\ Listed
    BY <1>1, EngineFiling DEF EnginePcs, ServePcs, Filing
  <2>2. QED
    BY <1>1, <2>1, ListsAtRest, PathFacts
<1>2. CASE UNCHANGED readVars
  <2>1. \A u : Reading(u) => Reading(u)'
    BY <1>2, ReadingStays DEF readVars
  <2>2. reads' = reads
    BY <1>2 DEF readVars
  <2>3. ASSUME NEW s \in Readers, reads[s] # Outside PROVE Reading(reads[s])'
    <3>1. PICK u : u = reads[s] /\ Reading(u)
      BY <2>3 DEF ReaderInv
    <3>2. Reading(u)'
      BY <2>1, <3>1
    <3>3. QED
      BY <2>2, <3>1, <3>2 DEF Reading
  <2>4. QED
    BY <2>2, <2>3 DEF ReaderInv
<1>3. CASE Change
  <2>1. DOMAIN reads' = Readers
    BY <1>3 DEF Change
  <2>2. ASSUME NEW r \in Readers PROVE reads'[r] = Outside
    <3>1. CASE pc' = "down"
      BY <1>3, <3>1 DEF Change
    <3>2. CASE pc = "ready" /\ pc' # "down"
      BY <1>3, <3>2 DEF Change, Exclusive
    <3>3. CASE pc # "ready" /\ pc' # "down"
      BY <1>3, <3>3 DEF Change, ReaderInv, Reading
    <3>4. QED
      BY <3>1, <3>2, <3>3
  <2>3. QED
    BY <2>1, <2>2 DEF ReaderInv
<1>4. ASSUME NEW r \in Readers, NEW k \in Keys, GetBegins(r, k) PROVE ReaderInv'
  <2> DEFINE t == IF mem[k] # 0 THEN Found(k, mem[k]) ELSE Before(k, 0, 1)
  <2>1. pc = "ready" /\ reads' = [reads EXCEPT ![r] = t] /\ UNCHANGED lifeVars
    BY <1>4 DEF GetBegins
  <2>2. Reading(t)
    <3>1. CASE mem[k] # 0
      BY <2>1, <3>1 DEF Reading, Found, Get
    <3>2. CASE mem[k] = 0
      <4>1. 0 \in Levels /\ 1 \in 1..Len(segments[0]) + 1
        BY <1>1, <2>1
      <4>2. \A l \in Levels : \A i \in 1..Len(segments[l]) : ~Sooner(l, i, 0, 1)
        BY <1>1, <2>1 DEF Sooner
      <4>3. QED
        BY <2>1, <3>2, <4>1, <4>2 DEF Reading, Before
    <3>3. QED
      BY <3>1, <3>2
  <2> HIDE DEF t
  <2>3. QED
    BY <2>1, <2>2, ReaderGoesOn
<1>5. ASSUME NEW r \in Readers, GetLooks(r) PROVE ReaderInv'
  <2> DEFINE k == reads[r].key
             l == reads[r].lvl
             i == reads[r].i
             v == Search(segments[l][i], k)
             t == IF v # 0 THEN Found(k, v) ELSE Before(k, l, i + 1)
  <2>1. /\ reads[r].at = "segments" /\ i <= Len(segments[l])
        /\ reads' = [reads EXCEPT ![r] = t] /\ UNCHANGED lifeVars
    BY <1>5 DEF GetLooks
  <2>2. Reading(reads[r])
    BY <2>1 DEF ReaderInv, Outside
  <2>3. /\ pc = "ready" /\ k \in Keys /\ mem[k] = 0 /\ l \in Levels
        /\ i \in 1..Len(segments[l]) + 1
        /\ \A m \in Levels : \A j \in 1..Len(segments[m]) :
              Sooner(m, j, l, i) => Search(segments[m][j], k) = 0
    BY <2>1, <2>2 DEF Reading
  <2>4. i \in 1..Len(segments[l]) /\ Len(segments[l]) \in Nat /\ l \in Nat
    BY <1>1, <2>1, <2>3
  <2> HIDE DEF k, l, i
  <2>5. Reading(t)
    <3>1. CASE v # 0
      <4>1. SearchAllSegments(k) = v
        BY <1>1, <2>3, <2>4, <3>1, FirstFound
      <4>2. QED
        BY <2>3, <3>1, <4>1 DEF Reading, Found, Get
    <3>2. CASE v = 0
      <4>1. i + 1 \in 1..Len(segments[l]) + 1
        BY <2>4
      <4>2. ASSUME NEW m \in Levels, NEW j \in 1..Len(segments[m]), Sooner(m, j, l, i + 1)
            PROVE  Search(segments[m][j], k) = 0
        <5>1. Sooner(m, j, l, i) \/ (m = l /\ j = i)
          BY <2>4, <4>2 DEF Sooner
        <5>2. QED
          BY <2>3, <3>2, <5>1
      <4>3. QED
        BY <2>3, <3>2, <4>1, <4>2 DEF Reading, Before
    <3>3. QED
      BY <3>1, <3>2
  <2> HIDE DEF t
  <2>6. QED
    BY <2>1, <2>5, ReaderGoesOn
<1>6. ASSUME NEW r \in Readers, GetGoesOn(r) PROVE ReaderInv'
  <2> DEFINE k == reads[r].key
             l == reads[r].lvl
             t == IF l < MaxLevel THEN Before(k, l + 1, 1) ELSE Found(k, 0)
  <2>1. /\ reads[r].at = "segments" /\ reads[r].i > Len(segments[l])
        /\ reads' = [reads EXCEPT ![r] = t] /\ UNCHANGED lifeVars
    BY <1>6 DEF GetGoesOn
  <2>2. Reading(reads[r])
    BY <2>1 DEF ReaderInv, Outside
  <2> DEFINE i == reads[r].i
  <2>3. /\ pc = "ready" /\ k \in Keys /\ mem[k] = 0 /\ l \in Levels
        /\ i \in 1..Len(segments[l]) + 1
        /\ \A m \in Levels : \A j \in 1..Len(segments[m]) :
              Sooner(m, j, l, i) => Search(segments[m][j], k) = 0
    BY <2>1, <2>2 DEF Reading
  <2>4. i > Len(segments[l]) /\ Len(segments[l]) \in Nat /\ l \in 0..MaxLevel /\ i \in Nat
    BY <1>1, <2>1, <2>3
  <2> HIDE DEF k, l, i
  <2>5. ASSUME NEW m \in Levels, NEW j \in 1..Len(segments[m]), m < l + 1
        PROVE  Search(segments[m][j], k) = 0
    <3>1. m \in Nat /\ j <= Len(segments[m])
      BY <1>1, <2>3
    <3>2. Sooner(m, j, l, i)
      BY <2>4, <2>5, <3>1 DEF Sooner
    <3>3. QED
      BY <2>3, <3>2
  <2>6. Reading(t)
    <3>1. CASE l < MaxLevel
      <4>1. l + 1 \in Levels /\ 1 \in 1..Len(segments[l + 1]) + 1
        BY <1>1, <2>3, <2>4, <3>1
      <4>2. \A m \in Levels : \A j \in 1..Len(segments[m]) : Sooner(m, j, l + 1, 1) => m < l + 1
        BY <1>1, <2>3 DEF Sooner
      <4>3. QED
        BY <2>3, <2>5, <3>1, <4>1, <4>2 DEF Reading, Before
    <3>2. CASE ~(l < MaxLevel)
      <4>1. \A m \in Levels : m < l + 1
        BY <1>1, <2>3, <2>4, <3>2
      <4>2. Positions(k) = {}
        BY <2>5, <4>1 DEF Positions
      <4>3. SearchAllSegments(k) = 0
        BY <4>2 DEF SearchAllSegments, Positions
      <4>4. QED
        BY <2>3, <3>2, <4>3 DEF Reading, Found, Get
    <3>3. QED
      BY <3>1, <3>2
  <2> HIDE DEF t
  <2>7. QED
    BY <2>1, <2>6, ReaderGoesOn
<1>7. ASSUME NEW r \in Readers, GetEnds(r) PROVE ReaderInv'
  BY <1>7, ReaderGoesOn DEF GetEnds
<1>8. QED
  BY <1>2, <1>3, <1>4, <1>5, <1>6, <1>7 DEF ReadNext

\* get() looks into the memtable and into one segment after the other, and finds
\* what it would find in one look: put() waits for the readers to leave.
THEOREM GetsAreAtomicAlways == ReadSpec => []GetsAreAtomic
<1>1. ReadInit => ReaderInv
  BY DEF ReadInit, ReaderInv
<1>2. LifeInv /\ ReaderInv /\ [ReadNext]_readVars => ReaderInv'
  BY ReaderStep
<1>3. ReaderInv => GetsAreAtomic
  BY DEF ReaderInv, Reading, GetsAreAtomic, Outside
<1>4. QED
  BY <1>1, <1>2, <1>3, ReadInductive, PTL DEF ReadSpec
=============================================================================
