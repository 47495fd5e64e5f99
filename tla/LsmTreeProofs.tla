--------------------------- MODULE LsmTreeProofs ---------------------------
(***************************************************************************)
(* Type correctness of LsmTree, the layout of its files, and what          *)
(* memtable, log and segment files hold, for every number of keys, values, *)
(* levels, writes, and every size of the log's buffer: every step of       *)
(* LsmTree keeps the parts of IInv, which is inductive with them.  The     *)
(* safety properties of LsmTree follow from IInv, and that it implements   *)
(* KVStore.                                                                *)
(***************************************************************************)
EXTENDS LsmTreeInv, SequenceTheorems, FiniteSetTheorems, TLAPS

\* What holds as long as no process was killed in a window.
Whole == EngineTypeOK /\ Layout /\ Content

\* Appending to a sequence over 1..n the number n + 1.
LEMMA AppendVersion ==
    ASSUME NEW n \in Nat, NEW s \in Seq(1..n)
    PROVE  /\ s \in Seq(1..n + 1)
           /\ Append(s, n + 1) \in Seq(1..n + 1)
           /\ Len(Append(s, n + 1)) = Len(s) + 1
           /\ \A i \in 1..Len(s) : Append(s, n + 1)[i] = s[i]
           /\ Append(s, n + 1)[Len(s) + 1] = n + 1
<1>1. s \in Seq(1..n + 1)
  BY SeqMonotonic, 1..n \subseteq 1..n + 1
<1>2. QED
  BY <1>1, AppendProperties

LEMMA ModBound == \A x \in Int, m \in Nat \ {0} : x % m \in 0..m - 1
OBVIOUS

\* The byte count stays a uint64_t, even where an overwrite takes it below 0.
LEMMA BytesType ==
    ASSUME DataTypeOK, NEW k \in Keys, NEW w \in Stored
    PROVE  BytesAfterInsert(mem, k, w) \in 0..Wrap - 1
<1>1. Weight[w] \in Nat
  BY WeightAssumption
<1>2. bytes \in Int /\ Wrap \in Nat \ {0}
  BY BoundsAssumption DEF DataTypeOK
<1>3. CASE mem[k] = 0
  <2>1. BytesAfterInsert(mem, k, w) = (bytes + Weight[w]) % Wrap
    BY <1>3 DEF BytesAfterInsert
  <2>2. bytes + Weight[w] \in Int
    BY <1>1, <1>2
  <2>3. QED
    BY <1>2, <2>1, <2>2, ModBound, Zenon
<1>4. CASE mem[k] # 0
  <2>1. Len(history) \in Nat
    BY LenProperties DEF DataTypeOK
  <2>2. mem[k] \in 1..Len(history)
    BY <1>4, <2>1 DEF DataTypeOK, Version
  <2>3. history[mem[k]] \in [key : Keys, value : Stored]
    BY <2>2, ElementOfSeq DEF DataTypeOK
  <2>4. Weight[history[mem[k]].value] \in Nat
    BY <2>3, WeightAssumption
  <2>5. BytesAfterInsert(mem, k, w) = (bytes + Weight[history[mem[k]].value] - Weight[w]) % Wrap
    BY <1>4 DEF BytesAfterInsert
  <2>6. bytes + Weight[history[mem[k]].value] - Weight[w] \in Int
    BY <1>1, <1>2, <2>4
  <2>7. QED
    BY <1>2, <2>5, <2>6, ModBound, Zenon
<1>5. QED
  BY <1>3, <1>4

\* Logging and inserting a write keeps the data in shape.
LEMMA LogAndInsertType ==
    ASSUME DataTypeOK, NEW k \in Keys, NEW v \in Values \cup {Tombstone},
           LogAndInsert(k, v),
           UNCHANGED <<segments, segment_i, disk, lvl, replayed, flushed>>
    PROVE  DataTypeOK'
<1> DEFINE n == Len(history) + 1
           w == FinalValue(v)
<1>1. w \in Stored
  BY DEF FinalValue, Stored
<1>2. /\ history' \in Seq([key : Keys, value : Stored])
      /\ Len(history') = n
  <2>1. [key |-> k, value |-> w] \in [key : Keys, value : Stored]
    BY <1>1
  <2>2. QED
    BY <2>1, AppendProperties DEF LogAndInsert, DataTypeOK
<1>3. Len(history) \in Nat /\ n \in Nat
  BY LenProperties DEF DataTypeOK
<1>4. /\ walFile' \in Seq(1..Len(history'))
      /\ walBuf' \in Seq(1..Len(history'))
      /\ Len(walBuf') <= WalCap
      /\ Len(walFile) <= Len(walFile')
  <2>1. /\ Append(walBuf, n) \in Seq(1..n)
        /\ Len(Append(walBuf, n)) = Len(walBuf) + 1
        /\ walFile \in Seq(1..n)
        /\ Len(walFile) \in Nat /\ Len(walBuf) \in Nat
    BY <1>3, AppendVersion, LenProperties DEF DataTypeOK
  <2>2. CASE WalKeep(n)
    BY <1>2, <2>1, <2>2, WalCapAssumption DEF WalKeep
  <2>3. CASE WalSpill(n)
    <3>1. /\ walFile \o Append(walBuf, n) \in Seq(1..n)
          /\ Len(walFile \o Append(walBuf, n)) = Len(walFile) + Len(walBuf) + 1
      BY <2>1, ConcatProperties
    <3>2. << >> \in Seq(1..n) /\ Len(<< >>) = 0
      BY EmptySeq
    <3>3. QED
      BY <1>2, <2>1, <2>3, <3>1, <3>2, WalCapAssumption DEF WalSpill
  <2>4. QED
    BY <2>2, <2>3 DEF LogAndInsert, WalAppend
<1>5. mem' \in [Keys -> 0..Len(history')]
  BY <1>2, <1>3 DEF LogAndInsert, DataTypeOK, Version
<1>6. bytes' \in 0..Wrap - 1
  BY <1>1, BytesType DEF LogAndInsert
<1>7. flushed' \in 0..Len(history') /\ replayed' \in 0..Len(walFile')
  <2>1. Len(walFile) \in Nat /\ Len(walFile') \in Nat
    BY <1>4, LenProperties DEF DataTypeOK
  <2>2. QED
    BY <1>2, <1>3, <1>4, <2>1 DEF DataTypeOK
<1>8. \A p \in DOMAIN disk' : disk'[p] \in [Keys -> 0..Len(history')]
  BY <1>2, <1>3 DEF DataTypeOK, Version
<1>9. QED
  BY <1>2, <1>4, <1>5, <1>6, <1>7, <1>8 DEF DataTypeOK, Version

\* Writing and deleting a file keep the set of files finite and well formed.
FilesTypeOK(files) ==
    /\ DOMAIN files \subseteq Paths
    /\ IsFiniteSet(DOMAIN files)
    /\ \A q \in DOMAIN files : files[q] \in [Keys -> Version]

LEMMA WriteFileType ==
    ASSUME DataTypeOK, NEW p \in Paths, NEW run \in [Keys -> Version]
    PROVE  /\ DOMAIN WriteFile(p, run) = DOMAIN disk \cup {p}
           /\ FilesTypeOK(WriteFile(p, run))
<1>1. DOMAIN WriteFile(p, run) = DOMAIN disk \cup {p}
  BY DEF WriteFile
<1>2. IsFiniteSet(DOMAIN disk \cup {p})
  BY FS_AddElement DEF DataTypeOK
<1>3. QED
  BY <1>1, <1>2 DEF WriteFile, FilesTypeOK, DataTypeOK

LEMMA DeleteFileType ==
    ASSUME DataTypeOK, NEW p
    PROVE  /\ DOMAIN DeleteFile(p) = DOMAIN disk \ {p}
           /\ FilesTypeOK(DeleteFile(p))
<1>1. DOMAIN DeleteFile(p) = DOMAIN disk \ {p}
  BY DEF DeleteFile
<1>2. IsFiniteSet(DOMAIN disk \ {p})
  BY FS_RemoveElement DEF DataTypeOK
<1>3. QED
  BY <1>1, <1>2 DEF DeleteFile, FilesTypeOK, DataTypeOK

\* A process that dies leaves well-formed files, and no number of a lost write.
LEMMA DieLeavingType ==
    ASSUME DataTypeOK, NEW files, FilesTypeOK(files), DieLeaving(files)
    PROVE  /\ DataTypeOK' /\ disk' = files /\ flushed' = flushed
           /\ pending' = << >> /\ merging' = << >> /\ pc' = "down" /\ replayed' = 0
<1>1. PICK n \in Surviving(files) :
        IsLast(n, Surviving(files)) /\ history' = SubSeq(history, 1, n)
  BY DEF DieLeaving
<1>2. Len(history) \in Nat /\ Len(walFile) \in Nat /\ DOMAIN walFile = 1..Len(walFile)
  BY LenProperties DEF DataTypeOK
<1>3. /\ n \in 0..Len(history)
      /\ flushed <= n
      /\ \A i \in 1..Len(walFile) : walFile[i] \in 1..Len(history) /\ walFile[i] <= n
      /\ \A p \in DOMAIN files, k \in Keys : files[p][k] <= n
  <2>1. \A i \in 1..Len(walFile) : walFile[i] \in 1..Len(history)
    BY ElementOfSeq DEF DataTypeOK
  <2>2. \A p \in DOMAIN files, k \in Keys : files[p][k] \in 0..Len(history)
    BY DEF FilesTypeOK, Version
  <2>3. flushed \in 0..Len(history)
    BY DEF DataTypeOK
  <2>4. \A m \in Surviving(files) : m \in 0..Len(history)
    BY <1>2, <2>1, <2>2, <2>3 DEF Surviving
  <2>5. /\ flushed \in Surviving(files)
        /\ \A i \in 1..Len(walFile) : walFile[i] \in Surviving(files)
        /\ \A p \in DOMAIN files, k \in Keys : files[p][k] \in Surviving(files)
    BY <1>2 DEF Surviving
  <2>6. QED
    BY <1>1, <2>1, <2>4, <2>5 DEF IsLast
<1>4. /\ history' \in Seq([key : Keys, value : Stored])
      /\ Len(history') = n
  <2>1. \A i \in 1..n : history[i] \in [key : Keys, value : Stored]
    <3>1. \A i \in 1..Len(history) : history[i] \in [key : Keys, value : Stored]
      BY ElementOfSeq DEF DataTypeOK
    <3>2. QED
      BY <1>2, <1>3, <3>1
  <2>2. n \in Int /\ 1 \in Int
    BY <1>2, <1>3
  <2>3. /\ SubSeq(history, 1, n) \in Seq([key : Keys, value : Stored])
        /\ Len(SubSeq(history, 1, n)) = IF 1 <= n THEN n - 1 + 1 ELSE 0
    BY <2>1, <2>2, SubSeqProperties
  <2>4. (IF 1 <= n THEN n - 1 + 1 ELSE 0) = n
    BY <1>3
  <2>5. QED
    BY <1>1, <2>3, <2>4
<1>5. walFile' \in Seq(1..n) /\ walFile' = walFile
  <2>1. walFile \in [1..Len(walFile) -> 1..n]
    BY <1>2, <1>3, LenProperties DEF DataTypeOK
  <2>2. walFile \in Seq(1..n)
    BY <1>2, <2>1, SeqDef
  <2>3. QED
    BY <2>2 DEF DieLeaving, WalLose
<1>6. walBuf' \in Seq(1..n) /\ Len(walBuf') <= WalCap
  <2>1. walBuf' = << >>
    BY DEF DieLeaving, WalLose
  <2>2. QED
    BY <2>1, EmptySeq, WalCapAssumption
<1>7. \A p \in DOMAIN files : files[p] \in [Keys -> 0..n]
  BY <1>3 DEF FilesTypeOK, Version
<1>8. mem' \in [Keys -> 0..n] /\ bytes' \in 0..Wrap - 1 /\ segment_i' \in 0..IdWrap - 1
  BY <1>3, BoundsAssumption DEF DieLeaving, NoRun
<1>9. segments' \in [Levels -> Seq(Paths)]
  BY EmptySeq DEF DieLeaving
<1>10. /\ flushed' = flushed /\ disk' = files /\ pending' = << >> /\ merging' = << >>
       /\ pc' = "down" /\ lvl' = 0 /\ replayed' = 0
  BY DEF DieLeaving
<1>11. 0 \in Levels /\ 0 \in 0..Len(walFile)
  BY <1>2, BoundsAssumption DEF Levels
<1>12. flushed \in 0..n
  BY <1>3 DEF DataTypeOK
<1>13. QED
  BY <1>4, <1>5, <1>6, <1>7, <1>8, <1>9, <1>10, <1>11, <1>12 DEF DataTypeOK, FilesTypeOK, Version

LEMMA DieType ==
    ASSUME DataTypeOK, Die
    PROVE  DataTypeOK' /\ pending' = << >> /\ merging' = << >> /\ pc' = "down"
<1>1. FilesTypeOK(disk)
  BY DEF DataTypeOK, FilesTypeOK
<1>2. QED
  BY <1>1, DieLeavingType DEF Die

----------------------------------------------------------------------------
\* The steps of the process keep the shapes; nothing is said of temporal logic.
LEMMA TypeStep ==
    ASSUME EngineTypeOK, [Work]_workVars
    PROVE  EngineTypeOK'
<1>1. Len(history) \in Nat /\ Len(walFile) \in Nat
  BY LenProperties DEF EngineTypeOK, DataTypeOK
<1>2. ASSUME NEW k \in Keys, NEW v \in Values \cup {Tombstone}, PutFits(k, v)
      PROVE  EngineTypeOK'
  <2>1. DataTypeOK'
    BY <1>2, LogAndInsertType DEF EngineTypeOK, PutFits, ctlVars
  <2>2. ControlTypeOK'
    BY <1>2 DEF EngineTypeOK, ControlTypeOK, PutFits, ctlVars, Serving
  <2>3. QED
    BY <2>1, <2>2 DEF EngineTypeOK
<1>3. ASSUME NEW k \in Keys, NEW v \in Values \cup {Tombstone}, PutFull(k, v)
      PROVE  EngineTypeOK'
  <2>1. DataTypeOK'
    BY <1>3, BoundsAssumption
    DEF EngineTypeOK, DataTypeOK, PutFull, treeVars, auxVars, walVars, Levels, Version
  <2>2. ControlTypeOK'
    BY <1>3 DEF EngineTypeOK, ControlTypeOK, PutFull, Serving
  <2>3. QED
    BY <2>1, <2>2 DEF EngineTypeOK
<1>4. ASSUME Die PROVE EngineTypeOK'
  BY <1>4, DieType DEF EngineTypeOK, ControlTypeOK, Serving, Die, DieLeaving
<1>5. ASSUME CompactMerge PROVE EngineTypeOK'
  <2> DEFINE n == Len(segments[lvl])
             a == segments[lvl][n]
             b == segments[lvl][n - 1]
             m == NewPath(lvl + 1)
  <2>1. /\ lvl \in Levels /\ lvl + 1 \in Levels
        /\ m \in Paths
    <3>1. lvl \in 0..MaxLevel /\ segment_i \in Nat /\ lvl < MaxLevel
      BY <1>5, BoundsAssumption DEF EngineTypeOK, DataTypeOK, CompactMerge, Levels
    <3>2. QED
      BY <3>1, BoundsAssumption DEF Levels, NewPath, Paths
  <2>2. /\ segments[lvl] \in Seq(Paths)
        /\ n \in Nat /\ n >= 2
    BY <1>5, <2>1, LenProperties DEF EngineTypeOK, DataTypeOK, CompactMerge
  <2>3. a \in Paths /\ b \in Paths
    BY <2>2, ElementOfSeq
  <2>4. SubSeq(segments[lvl], 1, n - 2) \in Seq(Paths)
    <3>1. \A i \in 1..n - 2 : segments[lvl][i] \in Paths
      BY <2>2, ElementOfSeq
    <3>2. n - 2 \in Int /\ 1 \in Int
      BY <2>2
    <3>3. QED
      BY <3>1, <3>2, SubSeqProperties
  <2>5. MergedRun(a, b) \in [Keys -> Version]
    <3>1. ASSUME NEW p, NEW k \in Keys PROVE Search(p, k) \in Version
      BY <1>1 DEF Search, EngineTypeOK, DataTypeOK, Version
    <3>2. QED
      BY <3>1 DEF MergedRun
  <2>6. /\ disk' = WriteFile(m, MergedRun(a, b))
        /\ segments' = [segments EXCEPT ![lvl] = SubSeq(@, 1, n - 2)]
        /\ merging' = <<a, b, m>>
        /\ segment_i' = NextId
        /\ pc = "compact" /\ pc' = "deleteA" /\ lvl < MaxLevel
        /\ UNCHANGED <<mem, bytes, pending, lvl, replayed, history, flushed, walFile, walBuf>>
    BY <1>5 DEF CompactMerge, auxVars, walVars
  <2>7. segment_i' \in 0..IdWrap - 1
    BY <2>6, BoundsAssumption DEF NextId, EngineTypeOK, DataTypeOK
  <2>8. FilesTypeOK(disk')
    BY <2>1, <2>5, <2>6, WriteFileType DEF EngineTypeOK
  <2>9. segments' \in [Levels -> Seq(Paths)]
    BY <2>1, <2>4, <2>6 DEF EngineTypeOK, DataTypeOK
  <2>10. DataTypeOK'
    BY <2>6, <2>7, <2>8, <2>9 DEF EngineTypeOK, DataTypeOK, FilesTypeOK, Version
  <2>11. ControlTypeOK'
    BY <2>1, <2>3, <2>6 DEF EngineTypeOK, ControlTypeOK, Serving
  <2>12. QED
    BY <2>10, <2>11 DEF EngineTypeOK
<1>6. ASSUME CompactDeleteA PROVE EngineTypeOK'
  <2>1. FilesTypeOK(disk')
    BY <1>6, DeleteFileType DEF CompactDeleteA, EngineTypeOK
  <2>2. DataTypeOK'
    BY <1>6, <2>1 DEF CompactDeleteA, EngineTypeOK, DataTypeOK, FilesTypeOK, Version, auxVars, walVars
  <2>3. ControlTypeOK'
    BY <1>6 DEF CompactDeleteA, EngineTypeOK, ControlTypeOK, Serving
  <2>4. QED
    BY <2>2, <2>3 DEF EngineTypeOK
<1>7. ASSUME CompactDeleteB PROVE EngineTypeOK'
  <2>1. FilesTypeOK(disk')
    BY <1>7, DeleteFileType DEF CompactDeleteB, EngineTypeOK
  <2>2. merging \in Paths \X Paths \X Paths /\ lvl < MaxLevel
    BY <1>7 DEF CompactDeleteB, EngineTypeOK, ControlTypeOK
  <2>3. lvl + 1 \in Levels /\ merging[3] \in Paths
    BY <2>2, BoundsAssumption DEF EngineTypeOK, DataTypeOK, Levels
  <2>4. Append(segments[lvl + 1], merging[3]) \in Seq(Paths)
    BY <2>3, AppendProperties DEF EngineTypeOK, DataTypeOK
  <2>5. segments' \in [Levels -> Seq(Paths)]
    BY <1>7, <2>3, <2>4 DEF CompactDeleteB, EngineTypeOK, DataTypeOK
  <2>6. DataTypeOK'
    BY <1>7, <2>1, <2>5 DEF CompactDeleteB, EngineTypeOK, DataTypeOK, FilesTypeOK, Version, auxVars, walVars
  <2>7. ControlTypeOK'
    BY <1>7 DEF CompactDeleteB, EngineTypeOK, ControlTypeOK, Serving
  <2>8. QED
    BY <2>6, <2>7 DEF EngineTypeOK
<1>8. ASSUME CompactNext PROVE EngineTypeOK'
  <2>1. lvl' \in Levels
    <3>1. lvl \in 0..MaxLevel /\ MaxLevel \in Nat
      BY BoundsAssumption DEF EngineTypeOK, DataTypeOK, Levels
    <3>2. \/ lvl' = lvl + 1 /\ lvl < MaxLevel
          \/ lvl' = 0
      BY <1>8 DEF CompactNext
    <3>3. QED
      BY <3>1, <3>2 DEF Levels
  <2>2. DataTypeOK'
    BY <1>8, <2>1 DEF CompactNext, EngineTypeOK, DataTypeOK, Version, treeVars, auxVars, walVars
  <2>3. ControlTypeOK'
    BY <1>8 DEF CompactNext, EngineTypeOK, ControlTypeOK, Serving
  <2>4. QED
    BY <2>2, <2>3 DEF EngineTypeOK
<1>9. ASSUME Flush PROVE EngineTypeOK'
  <2>1. 0 \in Levels /\ NewPath(0) \in Paths
    BY BoundsAssumption DEF EngineTypeOK, DataTypeOK, Levels, NewPath, Paths
  <2>2. FilesTypeOK(disk')
    BY <1>9, <2>1, WriteFileType DEF Flush, EngineTypeOK, DataTypeOK
  <2>3. Append(segments[0], NewPath(0)) \in Seq(Paths)
    BY <2>1, AppendProperties DEF EngineTypeOK, DataTypeOK
  <2>4. segments' \in [Levels -> Seq(Paths)]
    BY <1>9, <2>1, <2>3 DEF Flush, EngineTypeOK, DataTypeOK
  <2>5. segment_i' \in 0..IdWrap - 1
    BY <1>9, BoundsAssumption DEF Flush, NextId, EngineTypeOK, DataTypeOK
  <2>6. mem' \in [Keys -> Version] /\ bytes' \in 0..Wrap - 1 /\ flushed' \in Version
    BY <1>1, <1>9, BoundsAssumption DEF Flush, NoRun, Version
  <2>7. DataTypeOK'
    BY <1>9, <2>2, <2>4, <2>5, <2>6 DEF Flush, EngineTypeOK, DataTypeOK, FilesTypeOK, Version, walVars
  <2>8. ControlTypeOK'
    BY <1>9 DEF Flush, EngineTypeOK, ControlTypeOK, Serving
  <2>9. QED
    BY <2>7, <2>8 DEF EngineTypeOK
<1>10. ASSUME ClearLog PROVE EngineTypeOK'
  <2>1. /\ walFile' = << >> /\ walFile' \in Seq(1..Len(history)) /\ Len(walFile') = 0
        /\ replayed = 0
    BY <1>10, EmptySeq DEF ClearLog, WalClear, EngineTypeOK, ControlTypeOK
  <2>2. DataTypeOK'
    BY <1>10, <2>1
    DEF ClearLog, WalClear, EngineTypeOK, DataTypeOK, Version, treeVars, auxVars
  <2>3. ControlTypeOK'
    BY <1>10 DEF ClearLog, EngineTypeOK, ControlTypeOK, Serving
  <2>4. QED
    BY <2>2, <2>3 DEF EngineTypeOK
<1>11. ASSUME PutEnds PROVE EngineTypeOK'
  <2>1. pending \in Keys \X (Values \cup {Tombstone})
    BY <1>11 DEF PutEnds, EngineTypeOK, ControlTypeOK, Serving
  <2>2. DataTypeOK'
    BY <1>11, <2>1, LogAndInsertType DEF PutEnds, EngineTypeOK
  <2>3. ControlTypeOK'
    BY <1>11 DEF PutEnds, EngineTypeOK, ControlTypeOK, Serving
  <2>4. QED
    BY <2>2, <2>3 DEF EngineTypeOK
<1>12. ASSUME Restart PROVE EngineTypeOK'
  <2>1. DataTypeOK'
    BY <1>12 DEF Restart, EngineTypeOK, DataTypeOK, Version, treeVars, auxVars, walVars
  <2>2. ControlTypeOK'
    BY <1>12 DEF Restart, Down, EngineTypeOK, ControlTypeOK, Serving
  <2>3. QED
    BY <2>1, <2>2 DEF EngineTypeOK
<1>13. ASSUME Replay PROVE EngineTypeOK'
  <2> DEFINE n == walFile[replayed + 1]
  <2>1. replayed + 1 \in 1..Len(walFile)
    BY <1>1, <1>13 DEF Replay, EngineTypeOK, DataTypeOK
  <2>2. n \in 1..Len(history)
    BY <2>1, ElementOfSeq DEF EngineTypeOK, DataTypeOK
  <2>3. history[n] \in [key : Keys, value : Stored]
    BY <2>2, ElementOfSeq DEF EngineTypeOK, DataTypeOK
  <2>4. history[n].key \in Keys /\ history[n].value \in Stored
    BY <2>3
  <2>5. bytes' \in 0..Wrap - 1
    BY <1>13, <2>4, BytesType DEF Replay, EngineTypeOK
  <2>6. mem' \in [Keys -> Version]
    <3>1. mem' = [mem EXCEPT ![history[n].key] = n] /\ history' = history
      BY <1>13 DEF Replay, auxVars
    <3>2. n \in Version
      BY <1>1, <2>2 DEF Version
    <3>3. QED
      BY <2>4, <3>1, <3>2 DEF EngineTypeOK, DataTypeOK
  <2>7. replayed' \in 0..Len(walFile)
    BY <1>13, <2>1 DEF Replay, EngineTypeOK, DataTypeOK
  <2>8. DataTypeOK'
    BY <1>13, <2>5, <2>6, <2>7 DEF Replay, EngineTypeOK, DataTypeOK, Version, auxVars, walVars
  <2>9. ControlTypeOK'
    BY <1>13 DEF Replay, EngineTypeOK, ControlTypeOK, Serving
  <2>10. QED
    BY <2>8, <2>9 DEF EngineTypeOK
<1>14. ASSUME RestoreSegments PROVE EngineTypeOK'
  <2>1. ASSUME NEW l \in Levels PROVE segments'[l] \in Seq(Paths)
    <3>1. Files(l) \subseteq Paths /\ IsFiniteSet(Files(l))
      BY FS_Subset DEF Files, EngineTypeOK, DataTypeOK
    <3>2. Cardinality(Files(l)) \in Nat
      BY <3>1, FS_CardinalityType
    <3>3. segments'[l] \in [1..Cardinality(Files(l)) -> Paths]
      BY <1>14, <2>1, <3>1 DEF RestoreSegments, Listings
    <3>4. QED
      BY <3>2, <3>3, SeqDef
  <2>2. segments' \in [Levels -> Seq(Paths)]
    BY <1>14, <2>1 DEF RestoreSegments
  <2>3. segment_i' \in 0..IdWrap - 1
    <3>1. PICK largest \in {0} \cup {Id(p) : p \in DOMAIN disk} :
            segment_i' = (largest + 1) % IdWrap
      BY <1>14 DEF RestoreSegments
    <3>2. largest + 1 \in Int /\ IdWrap \in Nat \ {0}
      BY BoundsAssumption DEF EngineTypeOK, DataTypeOK, Id, Paths
    <3>3. QED
      BY <3>1, <3>2, ModBound, Zenon
  <2>4. /\ replayed' = 0 /\ 0 \in 0..Len(walFile)
        /\ UNCHANGED <<mem, bytes, disk, lvl, history, flushed, walFile, walBuf>>
    BY <1>1, <1>14 DEF RestoreSegments, auxVars, walVars
  <2>5. DataTypeOK'
    BY <2>2, <2>3, <2>4 DEF EngineTypeOK, DataTypeOK, Version
  <2>6. ControlTypeOK'
    BY <1>14 DEF RestoreSegments, EngineTypeOK, ControlTypeOK, Serving
  <2>7. QED
    BY <2>5, <2>6 DEF EngineTypeOK
<1>15. CASE UNCHANGED workVars
  BY <1>15
  DEF workVars, treeVars, ctlVars, auxVars, walVars, EngineTypeOK, DataTypeOK, ControlTypeOK, Version,
      Serving
<1>16. QED
  BY <1>2, <1>3, <1>4, <1>5, <1>6, <1>7, <1>8, <1>9, <1>10, <1>11, <1>12, <1>13, <1>14, <1>15
  DEF Work, Put, Remove, PutAborts, Crash

----------------------------------------------------------------------------
(* Being killed in a window *)

\* What a merge writes was in one of the two files.
LEMMA MergedFrom ==
    ASSUME DataTypeOK, NEW a, NEW b, NEW k \in Keys
    PROVE  /\ MergedRun(a, b)[k] \in Version
           /\ MergedRun(a, b)[k] # 0 => \E p \in DOMAIN disk : MergedRun(a, b)[k] = disk[p][k]
<1>1. ASSUME NEW p
      PROVE  /\ Search(p, k) \in Version
             /\ Search(p, k) # 0 => \E q \in DOMAIN disk : Search(p, k) = disk[q][k]
  BY LenProperties DEF Search, DataTypeOK, Version
<1>2. \E p : MergedRun(a, b)[k] = Search(p, k)
  BY DEF MergedRun
<1>3. QED
  BY <1>1, <1>2

\* What a kill leaves behind: the files as they are, or one more that holds a
\* part of what was to be written.
LEMMA KillForms ==
    ASSUME DataTypeOK, KillInPut
    PROVE  \/ Die
           \/ /\ pc \in {"flush", "compact"} /\ IdsLeft
              /\ \E l \in Levels, run \in [Keys -> Version] :
                    /\ DieLeaving(WriteFile(NewPath(l), run))
                    /\ \A k \in Keys : run[k] # 0 =>
                          run[k] = mem[k] \/ \E p \in DOMAIN disk : run[k] = disk[p][k]
<1>1. CASE KillInFlush
  <2>1. PICK written \in SUBSET Keys :
          DieLeaving(WriteFile(NewPath(0), [k \in Keys |-> IF k \in written THEN mem[k] ELSE 0]))
    BY <1>1 DEF KillInFlush
  <2> DEFINE run == [k \in Keys |-> IF k \in written THEN mem[k] ELSE 0]
  <2>2. run \in [Keys -> Version] /\ 0 \in Levels
    <3>1. \A k \in Keys : mem[k] \in Version /\ 0 \in Version
      BY LenProperties DEF DataTypeOK, Version
    <3>2. 0 \in Levels
      BY BoundsAssumption DEF Levels
    <3>3. QED
      BY <3>1, <3>2
  <2>3. pc = "flush" /\ IdsLeft
    BY <1>1 DEF KillInFlush
  <2>4. \A k \in Keys : run[k] # 0 => run[k] = mem[k]
    OBVIOUS
  <2> HIDE DEF run
  <2>5. DieLeaving(WriteFile(NewPath(0), run))
    BY <2>1 DEF run
  <2>6. QED
    BY <2>2, <2>3, <2>4, <2>5
<1>2. CASE KillInMerge
  <2> DEFINE n == Len(segments[lvl])
             a == segments[lvl][n]
             b == segments[lvl][n - 1]
             merged == MergedRun(a, b)
             l == lvl + 1
  <2>1. PICK written \in SUBSET Keys :
          DieLeaving(WriteFile(NewPath(l), [k \in Keys |-> IF k \in written THEN merged[k] ELSE 0]))
    BY <1>2 DEF KillInMerge
  <2> DEFINE run == [k \in Keys |-> IF k \in written THEN merged[k] ELSE 0]
  <2>2. \A k \in Keys : merged[k] \in Version /\ (merged[k] # 0 => \E p \in DOMAIN disk : merged[k] = disk[p][k])
    BY MergedFrom
  <2>3. run \in [Keys -> Version]
    <3>1. 0 \in Version
      BY LenProperties DEF DataTypeOK, Version
    <3> HIDE DEF merged
    <3>2. QED
      BY <2>2, <3>1
  <2>4. l \in Levels
    BY <1>2, BoundsAssumption DEF KillInMerge, Levels, DataTypeOK
  <2>5. pc = "compact" /\ IdsLeft
    BY <1>2 DEF KillInMerge
  <2>6. \A k \in Keys : run[k] # 0 => \E p \in DOMAIN disk : run[k] = disk[p][k]
    <3> HIDE DEF merged
    <3>1. \A k \in Keys : run[k] # 0 => run[k] = merged[k]
      OBVIOUS
    <3>2. QED
      BY <2>2, <3>1
  <2> HIDE DEF run, l, merged, a, b, n
  <2>7. DieLeaving(WriteFile(NewPath(l), run))
    BY <2>1 DEF run
  <2>8. QED
    BY <2>3, <2>4, <2>5, <2>6, <2>7
<1>3. QED
  BY <1>1, <1>2 DEF KillInPut, KillBeforeClear, KillMerged, KillBetweenDeletes

\* The process dies and leaves well-formed files, which hold nothing else than
\* what memtable and files held.
LEMMA KillLeaves ==
    ASSUME DataTypeOK, KillInPut
    PROVE  \E files :
              /\ FilesTypeOK(files) /\ DieLeaving(files)
              /\ \A p \in DOMAIN files, k \in Keys : files[p][k] # 0 =>
                    files[p][k] = mem[k] \/ \E q \in DOMAIN disk : files[p][k] = disk[q][k]
<1>1. CASE Die
  <2>1. FilesTypeOK(disk)
    BY DEF DataTypeOK, FilesTypeOK
  <2>2. QED
    BY <1>1, <2>1 DEF Die
<1>2. ASSUME NEW l \in Levels, NEW run \in [Keys -> Version],
             DieLeaving(WriteFile(NewPath(l), run)),
             \A k \in Keys : run[k] # 0 =>
                run[k] = mem[k] \/ \E p \in DOMAIN disk : run[k] = disk[p][k]
      PROVE  \E files :
                /\ FilesTypeOK(files) /\ DieLeaving(files)
                /\ \A p \in DOMAIN files, k \in Keys : files[p][k] # 0 =>
                      files[p][k] = mem[k] \/ \E q \in DOMAIN disk : files[p][k] = disk[q][k]
  <2> DEFINE files == WriteFile(NewPath(l), run)
  <2>1. NewPath(l) \in Paths
    BY BoundsAssumption DEF DataTypeOK, NewPath, Paths
  <2>2. FilesTypeOK(files)
    BY <2>1, WriteFileType
  <2>3. \A p \in DOMAIN files : files[p] = run \/ (p \in DOMAIN disk /\ files[p] = disk[p])
    BY DEF WriteFile
  <2>4. DieLeaving(files)
    BY <1>2
  <2> HIDE DEF files
  <2>5. QED
    BY <1>2, <2>2, <2>3, <2>4
<1>3. QED
  BY <1>1, <1>2, KillForms

LEMMA KillType ==
    ASSUME DataTypeOK, KillInPut
    PROVE  /\ EngineTypeOK' /\ flushed' = flushed
           /\ pending' = << >> /\ merging' = << >> /\ pc' = "down" /\ replayed' = 0
<1>1. /\ DataTypeOK' /\ flushed' = flushed
      /\ pending' = << >> /\ merging' = << >> /\ pc' = "down" /\ replayed' = 0
  BY KillLeaves, DieLeavingType
<1>2. QED
  BY <1>1 DEF EngineTypeOK, ControlTypeOK, Serving

\* A step of LsmTree is one of the engine, a kill in a window, or none.
LEMMA WorkOrKill ==
    [Next]_vars =>
        \/ [Work]_workVars /\ kills' = kills
        \/ Killed(KillInPut) /\ KillInPut
BY DEF Next, vars, Killed

\* The variables start in shape.
LEMMA InitType == Init => EngineTypeOK
<1> SUFFICES ASSUME Init PROVE EngineTypeOK
  OBVIOUS
<1>1. /\ << >> \in Seq([key : Keys, value : Stored]) /\ << >> \in Seq(1..0) /\ Len(<< >>) = 0
      /\ << >> \in Seq(Paths)
  BY EmptySeq
<1>2. DOMAIN << >> = {} /\ IsFiniteSet({})
  BY FS_EmptySet
<1>3. 1 % IdWrap \in 0..IdWrap - 1
  BY BoundsAssumption
<1>4. DataTypeOK
  BY <1>1, <1>2, BoundsAssumption, WalCapAssumption
  DEF Init, WalInit, DataTypeOK, Version, NoRun, Levels
<1>5. QED
  BY <1>4 DEF Init, EngineTypeOK, ControlTypeOK, Serving

\* Whatever the sizes, the numbers of levels and writes: the variables keep
\* the shapes the code gives them, the byte count and the segment ids their
\* widths, and no number of a write that a crash took is left anywhere.
THEOREM TypeCorrect == Spec => []TypeOK
<1>1. Init => TypeOK
  BY InitType, BoundsAssumption DEF Init, TypeOK
<1>2. TypeOK /\ [Next]_vars => TypeOK'
  <2> SUFFICES ASSUME TypeOK, [Next]_vars PROVE TypeOK'
    OBVIOUS
  <2>1. EngineTypeOK /\ DataTypeOK /\ kills \in 0..MaxKills
    BY DEF TypeOK, EngineTypeOK
  <2>2. EngineTypeOK'
    BY <2>1, WorkOrKill, TypeStep, KillType
  <2>3. kills' \in 0..MaxKills
    <3>1. kills' = kills \/ (kills < MaxKills /\ kills' = kills + 1)
      BY WorkOrKill DEF Killed
    <3>2. QED
      BY <2>1, <3>1, BoundsAssumption
  <2>4. QED
    BY <2>2, <2>3 DEF TypeOK
<1>3. QED
  BY <1>1, <1>2, PTL DEF Spec

----------------------------------------------------------------------------
(* How the segment files lie on their levels: every step keeps Layout, the part *)
(* of the inductive invariant that speaks of files, lists and ids.              *)

\* What type correctness says of files and levels.
LEMMA PathFacts ==
    ASSUME EngineTypeOK
    PROVE  /\ MaxLevel \in Nat /\ Levels = 0..MaxLevel /\ lvl \in Levels
           /\ segment_i \in Nat /\ segment_i < IdWrap
           /\ Len(history) \in Nat
           /\ \A p \in DOMAIN disk :
                 /\ p \in Paths /\ Id(p) \in Nat /\ Level(p) \in 0..MaxLevel
                 /\ \A k \in Keys : disk[p][k] \in 0..Len(history)
<1>1. MaxLevel \in Nat /\ Levels = 0..MaxLevel /\ lvl \in Levels
  BY BoundsAssumption DEF Levels, EngineTypeOK, DataTypeOK
<1>2. segment_i \in Nat /\ segment_i < IdWrap
  BY BoundsAssumption DEF EngineTypeOK, DataTypeOK
<1>3. Len(history) \in Nat
  BY LenProperties DEF EngineTypeOK, DataTypeOK
<1>4. \A p \in Paths : Id(p) \in Nat /\ Level(p) \in Levels
  BY DEF Paths, Id, Level
<1>5. \A p \in DOMAIN disk : p \in Paths /\ disk[p] \in [Keys -> Version]
  BY DEF EngineTypeOK, DataTypeOK
<1>6. QED
  BY <1>1, <1>2, <1>3, <1>4, <1>5 DEF Version

\* The path of a new segment has the next id, and no file has it yet.
LEMMA NewPathFacts ==
    ASSUME EngineTypeOK, NEW l \in Levels
    PROVE  /\ Id(NewPath(l)) = segment_i
           /\ Level(NewPath(l)) = l
           /\ NewPath(l) \in Paths
           /\ Serving /\ FreshIds => NewPath(l) \notin DOMAIN disk
<1>1. Id(NewPath(l)) = segment_i /\ Level(NewPath(l)) = l /\ NewPath(l) \in Paths
  BY PathFacts DEF NewPath, Id, Level, Paths
<1>2. Serving /\ FreshIds => NewPath(l) \notin DOMAIN disk
  BY <1>1, PathFacts DEF FreshIds
<1>3. QED
  BY <1>1, <1>2

LEMMA ModSmall == \A x \in Int, m \in Nat \ {0} : x \in 0..m - 1 => x % m = x
OBVIOUS

\* Appending a new element to a listing.
LEMMA ListingAppend ==
    ASSUME NEW S, NEW m, m \notin S, NEW s, NEW t, IsListing(s, S),
           Len(s) \in Nat, Len(t) = Len(s) + 1,
           \A i \in 1..Len(s) : t[i] = s[i],
           t[Len(s) + 1] = m
    PROVE  IsListing(t, S \cup {m})
<1>1. \A i \in 1..Len(t) : i \in 1..Len(s) \/ i = Len(s) + 1
  OBVIOUS
<1>2. \A i \in 1..Len(t) : t[i] \in S \cup {m}
  BY <1>1 DEF IsListing
<1>3. \A i, j \in 1..Len(t) : t[i] = t[j] => i = j
  BY <1>1 DEF IsListing
<1>4. ASSUME NEW p \in S \cup {m} PROVE \E i \in 1..Len(t) : t[i] = p
  <2>1. CASE p = m
    <3>1. Len(s) + 1 \in 1..Len(t)
      OBVIOUS
    <3>2. QED
      BY <2>1, <3>1
  <2>2. CASE p \in S
    <3>1. PICK i \in 1..Len(s) : s[i] = p
      BY <2>2 DEF IsListing
    <3>2. i \in 1..Len(t) /\ t[i] = p
      BY <3>1
    <3>3. QED
      BY <3>2
  <2>3. QED
    BY <2>1, <2>2
<1>5. QED
  BY <1>2, <1>3, <1>4 DEF IsListing

\* Cutting off the last two.
LEMMA ListingWithoutLastTwo ==
    ASSUME NEW S, NEW s, NEW t, IsListing(s, S),
           NEW n \in Nat, n = Len(s), n >= 2, Len(t) = n - 2,
           \A i \in 1..n - 2 : t[i] = s[i]
    PROVE  IsListing(t, S \ {s[n], s[n - 1]})
<1>1. /\ \A i \in 1..n - 2 : i \in 1..n /\ i # n /\ i # n - 1
      /\ \A i \in 1..n : i \in 1..n - 2 \/ i = n \/ i = n - 1
      /\ n \in 1..n /\ n - 1 \in 1..n
  OBVIOUS
<1>2. \A i \in 1..Len(t) : t[i] \in S \ {s[n], s[n - 1]}
  <2> TAKE i \in 1..Len(t)
  <2>1. i \in 1..n - 2 /\ t[i] = s[i]
    OBVIOUS
  <2>2. s[i] \in S /\ s[i] # s[n] /\ s[i] # s[n - 1]
    BY <1>1, <2>1 DEF IsListing
  <2>3. QED
    BY <2>1, <2>2
<1>3. \A i, j \in 1..Len(t) : t[i] = t[j] => i = j
  BY <1>1 DEF IsListing
<1>4. ASSUME NEW p \in S \ {s[n], s[n - 1]} PROVE \E i \in 1..Len(t) : t[i] = p
  <2>1. PICK i \in 1..n : s[i] = p
    BY DEF IsListing
  <2>2. QED
    BY <1>1, <2>1
<1>5. QED
  BY <1>2, <1>3, <1>4 DEF IsListing

----------------------------------------------------------------------------
(* Files and lists *)

\* A new file has a path that none has, and the next id is larger again.
LEMMA NewFile ==
    ASSUME EngineTypeOK, FreshIds, Serving, IdsLeft, NEW l \in Levels, NEW run
    PROVE  LET files == WriteFile(NewPath(l), run)
           IN  /\ NewPath(l) \notin DOMAIN disk
               /\ DOMAIN files = DOMAIN disk \cup {NewPath(l)}
               /\ files[NewPath(l)] = run
               /\ NextId = segment_i + 1
               /\ \A p, q \in DOMAIN files : Id(p) = Id(q) => p = q
               /\ \A p \in DOMAIN files : Id(p) + 1 < IdWrap /\ Id(p) < segment_i + 1
<1> DEFINE m == NewPath(l)
           files == WriteFile(m, run)
<1>1. Id(m) = segment_i /\ m \notin DOMAIN disk
  BY NewPathFacts
<1>2. NextId = segment_i + 1 /\ segment_i \in Nat
  <2>1. segment_i + 1 \in 0..IdWrap - 1 /\ segment_i + 1 \in Int /\ IdWrap \in Nat \ {0}
    BY PathFacts, BoundsAssumption DEF IdsLeft
  <2>2. NextId = segment_i + 1
    BY <2>1, ModSmall, Zenon DEF NextId
  <2>3. QED
    BY <2>2, PathFacts
<1> HIDE DEF m
<1>3. /\ DOMAIN files = DOMAIN disk \cup {m}
      /\ files[m] = run
  BY <1>1 DEF WriteFile
<1> HIDE DEF files
<1>4. \A p \in DOMAIN disk : Id(p) \in Nat /\ Id(p) < segment_i /\ Id(p) + 1 < IdWrap
  BY PathFacts DEF FreshIds
<1>5. \A p, q \in DOMAIN files : Id(p) = Id(q) => p = q
  BY <1>1, <1>2, <1>3, <1>4 DEF FreshIds
<1>6. \A p \in DOMAIN files : Id(p) + 1 < IdWrap /\ Id(p) < segment_i + 1
  BY <1>1, <1>2, <1>3, <1>4 DEF IdsLeft
<1>7. QED
  BY <1>1, <1>2, <1>3, <1>5, <1>6 DEF m, files

\* A list whose level gets a new file, which is appended to it.
LEMMA AppendedList ==
    ASSUME NEW S, NEW m \in Paths, m \notin S, NEW s \in Seq(Paths), IsListing(s, S)
    PROVE  IsListing(Append(s, m), S \cup {m})
<1>1. /\ Len(Append(s, m)) = Len(s) + 1 /\ Len(s) \in Nat
      /\ \A i \in 1..Len(s) : Append(s, m)[i] = s[i]
      /\ Append(s, m)[Len(s) + 1] = m
  BY AppendProperties, LenProperties
<1>2. QED
  BY <1>1, ListingAppend

\* Outside a merge the lists hold the files.
LEMMA ListedFiles ==
    ASSUME EngineTypeOK, Listed, Serving, merging = << >>, NEW l \in Levels
    PROVE  IsListing(segments[l], Files(l)) /\ Len(segments[l]) \in Nat
<1>1. (Files(l) \cap Live) \ Unlisted = Files(l)
  BY DEF Live, Doomed, Unlisted, Files
<1>2. Len(segments[l]) \in Nat
  BY DEF EngineTypeOK, DataTypeOK
<1>3. QED
  BY <1>1, <1>2 DEF Listed

\* Steps that touch neither files nor lists, and the death of a process.
LEMMA FilingKept ==
    ASSUME EngineTypeOK, Filing, merging = << >>,
           UNCHANGED <<disk, merging>>,
           Serving' => Serving /\ UNCHANGED <<segments, segment_i>>
    PROVE  Filing'
<1>1. Live' = Live /\ Unlisted' = Unlisted
  BY DEF Live, Doomed, Unlisted
<1>2. FreshIds' /\ MergeHolds'
  BY DEF Filing, FreshIds, MergeHolds
<1>3. Listed'
  <2> SUFFICES ASSUME Serving' PROVE Listed'
    BY DEF Listed
  <2>1. \A l \in Levels : Files(l)' = Files(l)
    BY DEF Files
  <2>2. Listed /\ Serving /\ segments' = segments
    BY DEF Filing
  <2>3. QED
    BY <1>1, <2>1, <2>2 DEF Listed, IsListing
<1>4. QED
  BY <1>2, <1>3 DEF Filing

\* What compact() merges are two different files of its level.
LEMMA MergedPair ==
    ASSUME EngineTypeOK, Listed, CompactMerge,
           NEW n, n = Len(segments[lvl]),
           NEW a, a = segments[lvl][n],
           NEW b, b = segments[lvl][n - 1]
    PROVE  /\ merging = << >> /\ Live = DOMAIN disk /\ Unlisted = {}
           /\ lvl + 1 \in Levels /\ lvl < MaxLevel
           /\ n \in Nat /\ n >= 2
           /\ IsListing(segments[lvl], Files(lvl))
           /\ a \in Files(lvl) /\ b \in Files(lvl) /\ a # b
<1>1. pc = "compact" /\ lvl < MaxLevel /\ Len(segments[lvl]) >= 2
  BY DEF CompactMerge
<1>2. merging = << >> /\ Live = DOMAIN disk /\ Unlisted = {}
  BY <1>1 DEF EngineTypeOK, ControlTypeOK, Live, Doomed, Unlisted
<1>3. lvl \in Levels /\ lvl + 1 \in Levels
  BY <1>1, PathFacts
<1>4. IsListing(segments[lvl], Files(lvl)) /\ n \in Nat /\ n >= 2
  BY <1>1, <1>2, <1>3, ListedFiles DEF Serving
<1>5. a \in Files(lvl) /\ b \in Files(lvl) /\ a # b
  <2>1. n \in 1..Len(segments[lvl]) /\ n - 1 \in 1..Len(segments[lvl]) /\ n # n - 1
    BY <1>4
  <2>2. QED
    BY <1>4, <2>1 DEF IsListing
<1>6. QED
  BY <1>1, <1>2, <1>3, <1>4, <1>5

\* A merge takes two files off their list, and holds all that they hold.
LEMMA MergeFiling ==
    ASSUME EngineTypeOK, Filing, IdsLeft, CompactMerge
    PROVE  Filing'
<1> DEFINE n == Len(segments[lvl])
           a == segments[lvl][n]
           b == segments[lvl][n - 1]
           m == NewPath(lvl + 1)
<1>1. /\ merging = << >> /\ Live = DOMAIN disk /\ Unlisted = {}
      /\ lvl + 1 \in Levels /\ lvl < MaxLevel
      /\ n \in Nat /\ n >= 2
      /\ IsListing(segments[lvl], Files(lvl))
      /\ a \in Files(lvl) /\ b \in Files(lvl) /\ a # b
  BY MergedPair DEF Filing
<1>2. /\ disk' = WriteFile(m, MergedRun(a, b))
      /\ segments' = [segments EXCEPT ![lvl] = SubSeq(@, 1, n - 2)]
      /\ merging' = <<a, b, m>>
      /\ segment_i' = NextId
      /\ pc = "compact" /\ pc' = "deleteA" /\ lvl' = lvl
  BY DEF CompactMerge
<1>3. /\ a \in DOMAIN disk /\ Level(a) = lvl
      /\ b \in DOMAIN disk /\ Level(b) = lvl
      /\ lvl \in Nat
  <2>1. lvl \in Nat
    BY PathFacts
  <2>2. QED
    BY <1>1, <2>1 DEF Files
<1>4. /\ Level(m) = lvl + 1 /\ m \notin DOMAIN disk
      /\ DOMAIN disk' = DOMAIN disk \cup {m}
      /\ disk'[m] = MergedRun(a, b)
      /\ \A q \in DOMAIN disk : disk'[q] = disk[q]
      /\ segment_i' = segment_i + 1
      /\ \A p, q \in DOMAIN disk' : Id(p) = Id(q) => p = q
      /\ \A p \in DOMAIN disk' : Id(p) + 1 < IdWrap /\ Id(p) < segment_i + 1
  <2> DEFINE run == MergedRun(a, b)
             l == lvl + 1
  <2>1. FreshIds /\ Serving /\ l \in Levels /\ disk' = WriteFile(NewPath(l), run)
    BY <1>1, <1>2 DEF Filing, Serving
  <2> HIDE DEF run, l
  <2>2. /\ NewPath(l) \notin DOMAIN disk
        /\ DOMAIN disk' = DOMAIN disk \cup {NewPath(l)}
        /\ disk'[NewPath(l)] = run
        /\ NextId = segment_i + 1
        /\ \A p, q \in DOMAIN disk' : Id(p) = Id(q) => p = q
        /\ \A p \in DOMAIN disk' : Id(p) + 1 < IdWrap /\ Id(p) < segment_i + 1
    BY <2>1, NewFile
  <2>3. \A q \in DOMAIN disk : disk'[q] = disk[q]
    BY <2>1, <2>2 DEF WriteFile
  <2>4. QED
    BY <1>1, <1>2, <2>2, <2>3, NewPathFacts DEF run, l
<1>5. \A k \in Keys : disk[a][k] # 0 \/ disk[b][k] # 0 => MergedRun(a, b)[k] # 0
  BY <1>3 DEF MergedRun, Search
<1>6. segments[lvl] \in Seq(Paths)
  BY PathFacts DEF EngineTypeOK, DataTypeOK
<1>7. /\ segments[lvl][n] = a /\ segments[lvl][n - 1] = b /\ n = Len(segments[lvl])
  OBVIOUS
<1> HIDE DEF n, a, b, m
<1>8. /\ Doomed' = {a, b} /\ Unlisted' = {m}
      /\ Live' = (DOMAIN disk \ {a, b}) \cup {m}
  BY <1>2, <1>3, <1>4 DEF Doomed, Unlisted, Live
<1>9. FreshIds'
  BY <1>2, <1>4 DEF FreshIds, Serving
<1>10. Listed'
  <2> SUFFICES ASSUME NEW l \in Levels
               PROVE  IsListing(segments'[l], (Files(l)' \cap Live') \ Unlisted')
    BY DEF Listed
  <2>1. (Files(l)' \cap Live') \ Unlisted' = Files(l) \ {a, b}
    BY <1>4, <1>8 DEF Files
  <2>2. CASE l # lvl
    <3>1. Files(l) \ {a, b} = Files(l)
      BY <1>3, <2>2 DEF Files
    <3>2. segments'[l] = segments[l]
      BY <1>2, <2>2 DEF EngineTypeOK, DataTypeOK
    <3>3. QED
      BY <1>1, <1>2, <2>1, <3>1, <3>2, ListedFiles DEF Filing, Serving
  <2>3. CASE l = lvl
    <3> DEFINE s == segments[lvl]
    <3>1. segments'[l] = SubSeq(s, 1, n - 2)
      BY <1>2, <2>3 DEF EngineTypeOK, DataTypeOK
    <3>2. \A i \in 1..n : s[i] \in Paths
      BY <1>6, <1>7, ElementOfSeq
    <3>3. /\ Len(SubSeq(s, 1, n - 2)) = n - 2
          /\ \A i \in 1..n - 2 : SubSeq(s, 1, n - 2)[i] = s[i]
      <4>1. n - 2 \in Int /\ 1 \in Int /\ \A i \in 1..n - 2 : s[i] \in Paths
        BY <1>1, <3>2
      <4>2. /\ Len(SubSeq(s, 1, n - 2)) = IF 1 <= n - 2 THEN n - 2 - 1 + 1 ELSE 0
            /\ \A i \in 1..n - 2 - 1 + 1 : SubSeq(s, 1, n - 2)[i] = s[1 + i - 1]
        BY <4>1, SubSeqProperties
      <4>3. QED
        BY <1>1, <4>2
    <3>4. IsListing(s, Files(lvl)) /\ n = Len(s) /\ s[n] = a /\ s[n - 1] = b
      BY <1>1, <1>7
    <3> HIDE DEF s
    <3>5. IsListing(SubSeq(s, 1, n - 2), Files(lvl) \ {a, b})
      BY <1>1, <3>3, <3>4, ListingWithoutLastTwo
    <3>6. QED
      BY <2>1, <2>3, <3>1, <3>5
  <2>4. QED
    BY <2>2, <2>3
<1>11. MergeHolds'
  <2>1. merging'[1] = a /\ merging'[2] = b /\ merging'[3] = m
    BY <1>2
  <2>2. \A p \in {a, b}, k \in Keys : disk'[p][k] # 0 => disk'[m][k] # 0
    BY <1>3, <1>4, <1>5
  <2>3. m \in DOMAIN disk' /\ Level(m) = lvl' + 1 /\ m \notin Doomed' /\ pc' # "deleteB"
    BY <1>2, <1>3, <1>4, <1>8
  <2>4. \A p \in Doomed' \cap DOMAIN disk', k \in Keys : disk'[p][k] # 0 => disk'[m][k] # 0
    BY <1>8, <2>2
  <2>5. QED
    BY <2>1, <2>3, <2>4 DEF MergeHolds
<1>12. QED
  BY <1>9, <1>10, <1>11 DEF Filing

\* The first deletion: what is live and what is listed stays as it is.
LEMMA DeleteAFiling ==
    ASSUME EngineTypeOK, Filing, CompactDeleteA
    PROVE  Filing' /\ Live' = Live
<1> DEFINE a == merging[1]
           m == merging[3]
<1>1. /\ disk' = DeleteFile(a) /\ pc = "deleteA" /\ pc' = "deleteB"
      /\ UNCHANGED <<segments, segment_i, lvl, merging>>
  BY DEF CompactDeleteA
<1>2. merging # << >>
  BY <1>1 DEF EngineTypeOK, ControlTypeOK
<1>3. a \in Doomed /\ Doomed' = Doomed /\ Unlisted' = Unlisted
  BY <1>1, <1>2 DEF Doomed, Unlisted
<1>4. /\ m \in DOMAIN disk /\ Level(m) = lvl + 1 /\ m \notin Doomed
      /\ \A p \in Doomed \cap DOMAIN disk, k \in Keys : disk[p][k] # 0 => disk[m][k] # 0
  BY <1>2 DEF Filing, MergeHolds
<1>5. merging'[1] = a /\ merging'[3] = m
  BY <1>1
<1> HIDE DEF a, m
<1>6. /\ DOMAIN disk' = DOMAIN disk \ {a}
      /\ \A q \in DOMAIN disk' : disk'[q] = disk[q]
  BY <1>1 DEF DeleteFile
<1>7. Live' = Live
  BY <1>3, <1>6 DEF Live
<1>8. FreshIds'
  BY <1>1, <1>6 DEF Filing, FreshIds, Serving
<1>9. Listed'
  <2>1. \A l \in Levels : (Files(l) \cap Live)' = Files(l) \cap Live
    BY <1>3, <1>6, <1>7 DEF Files, Live
  <2>2. QED
    BY <1>1, <1>3, <1>7, <2>1 DEF Filing, Listed, Serving, IsListing
<1>10. MergeHolds'
  BY <1>1, <1>3, <1>4, <1>5, <1>6 DEF MergeHolds
<1>11. QED
  BY <1>7, <1>8, <1>9, <1>10 DEF Filing

\* The second deletion: the merged file joins the list of the next level.
LEMMA DeleteBFiling ==
    ASSUME EngineTypeOK, Filing, CompactDeleteB
    PROVE  Filing' /\ Live' = Live /\ Live = DOMAIN disk'
<1> DEFINE a == merging[1]
           b == merging[2]
           m == merging[3]
<1>1. /\ disk' = DeleteFile(b) /\ pc = "deleteB" /\ pc' = "compact"
      /\ segments' = [segments EXCEPT ![lvl + 1] = Append(@, m)]
      /\ merging' = << >>
      /\ UNCHANGED <<segment_i, lvl>>
  BY DEF CompactDeleteB
<1>2. /\ merging # << >> /\ merging \in Paths \X Paths \X Paths /\ lvl < MaxLevel
  BY <1>1 DEF EngineTypeOK, ControlTypeOK
<1>3. /\ Doomed = {a, b} /\ Unlisted = {m} /\ Doomed' = {} /\ Unlisted' = {}
  BY <1>1, <1>2 DEF Doomed, Unlisted
<1>4. /\ m \in DOMAIN disk /\ Level(m) = lvl + 1 /\ m \notin {a, b}
      /\ a \notin DOMAIN disk
  BY <1>1, <1>2, <1>3 DEF Filing, MergeHolds
<1>5. lvl + 1 \in Levels /\ m \in Paths
  BY <1>2, PathFacts
<1> HIDE DEF a, b, m
<1>6. /\ DOMAIN disk' = DOMAIN disk \ {b}
      /\ \A q \in DOMAIN disk' : disk'[q] = disk[q]
  BY <1>1 DEF DeleteFile
<1>7. Live' = Live /\ Live = DOMAIN disk' /\ m \in Live
  BY <1>3, <1>4, <1>6 DEF Live
<1>8. FreshIds' /\ MergeHolds'
  BY <1>1, <1>6 DEF Filing, FreshIds, MergeHolds, Serving
<1>9. Listed'
  <2> SUFFICES ASSUME NEW l \in Levels
               PROVE  IsListing(segments'[l], (Files(l)' \cap Live') \ Unlisted')
    BY DEF Listed
  <2> DEFINE S == (Files(l) \cap Live) \ {m}
  <2>1. IsListing(segments[l], S) /\ segments[l] \in Seq(Paths)
    BY <1>1, <1>3 DEF Filing, Listed, Serving, EngineTypeOK, DataTypeOK
  <2>2. (Files(l)' \cap Live') \ Unlisted' = Files(l) \cap Live
    BY <1>3, <1>6, <1>7 DEF Files
  <2>3. CASE l # lvl + 1
    <3>1. segments'[l] = segments[l]
      BY <1>1, <2>3 DEF EngineTypeOK, DataTypeOK
    <3>2. S = Files(l) \cap Live
      BY <1>4, <2>3 DEF Files
    <3>3. QED
      BY <2>1, <2>2, <3>1, <3>2
  <2>4. CASE l = lvl + 1
    <3>1. segments'[l] = Append(segments[l], m)
      BY <1>1, <2>4 DEF EngineTypeOK, DataTypeOK
    <3>2. Files(l) \cap Live = S \cup {m} /\ m \notin S
      BY <1>4, <1>7, <2>4 DEF Files
    <3> HIDE DEF S
    <3>3. QED
      BY <1>5, <2>1, <2>2, <3>1, <3>2, AppendedList
  <2>5. QED
    BY <2>3, <2>4
<1>10. QED
  BY <1>7, <1>8, <1>9 DEF Filing

\* A flush: the new file is the last of level 0.
LEMMA FlushFiling ==
    ASSUME EngineTypeOK, Filing, IdsLeft, Flush
    PROVE  Filing'
<1> DEFINE m == NewPath(0)
<1>1. /\ disk' = WriteFile(m, mem) /\ pc = "flush" /\ pc' = "clear"
      /\ segments' = [segments EXCEPT ![0] = Append(@, m)]
      /\ segment_i' = NextId
      /\ UNCHANGED <<lvl, merging>>
  BY DEF Flush
<1>2. /\ merging = << >> /\ merging' = << >>
      /\ Live' = DOMAIN disk' /\ Unlisted' = {}
  BY <1>1 DEF EngineTypeOK, ControlTypeOK, Live, Doomed, Unlisted
<1>3. 0 \in Levels
  BY PathFacts
<1>4. /\ Level(m) = 0 /\ m \in Paths /\ m \notin DOMAIN disk
      /\ DOMAIN disk' = DOMAIN disk \cup {m}
      /\ segment_i' = segment_i + 1
      /\ \A p, q \in DOMAIN disk' : Id(p) = Id(q) => p = q
      /\ \A p \in DOMAIN disk' : Id(p) + 1 < IdWrap /\ Id(p) < segment_i + 1
  <2>1. FreshIds /\ Serving
    BY <1>1 DEF Filing, Serving
  <2>2. /\ m \notin DOMAIN disk
        /\ DOMAIN disk' = DOMAIN disk \cup {m}
        /\ NextId = segment_i + 1
        /\ \A p, q \in DOMAIN disk' : Id(p) = Id(q) => p = q
        /\ \A p \in DOMAIN disk' : Id(p) + 1 < IdWrap /\ Id(p) < segment_i + 1
    BY <1>1, <1>3, <2>1, NewFile
  <2>3. QED
    BY <1>1, <1>3, <2>2, NewPathFacts
<1> HIDE DEF m
<1>5. FreshIds' /\ MergeHolds'
  BY <1>1, <1>2, <1>4 DEF FreshIds, MergeHolds, Serving
<1>6. Listed'
  <2> SUFFICES ASSUME NEW l \in Levels
               PROVE  IsListing(segments'[l], (Files(l)' \cap Live') \ Unlisted')
    BY DEF Listed
  <2>1. IsListing(segments[l], Files(l)) /\ segments[l] \in Seq(Paths)
    BY <1>1, <1>2, ListedFiles DEF Filing, Serving, EngineTypeOK, DataTypeOK
  <2>2. (Files(l)' \cap Live') \ Unlisted' = Files(l)'
    BY <1>2 DEF Files
  <2>3. CASE l # 0
    <3>1. segments'[l] = segments[l]
      BY <1>1, <2>3 DEF EngineTypeOK, DataTypeOK
    <3>2. Files(l)' = Files(l)
      BY <1>4, <2>3 DEF Files
    <3>3. QED
      BY <2>1, <2>2, <3>1, <3>2
  <2>4. CASE l = 0
    <3>1. segments'[l] = Append(segments[l], m)
      BY <1>1, <1>3, <2>4 DEF EngineTypeOK, DataTypeOK
    <3>2. Files(l)' = Files(l) \cup {m} /\ m \notin Files(l)
      BY <1>4, <2>4 DEF Files
    <3>3. QED
      BY <1>4, <2>1, <2>2, <3>1, <3>2, AppendedList
  <2>5. QED
    BY <2>3, <2>4
<1>7. QED
  BY <1>5, <1>6 DEF Filing

\* Recovery: the lists are made from the directory, and ids go on from the
\* largest there is.
LEMMA RestoreFiling ==
    ASSUME EngineTypeOK, Filing, RestoreSegments
    PROVE  Filing'
<1>1. /\ pc = "replay" /\ pc' = "ready"
      /\ \A l \in Levels : segments'[l] \in Listings(Files(l))
      /\ UNCHANGED <<disk, lvl, merging>>
  BY DEF RestoreSegments
<1>2. /\ merging = << >> /\ merging' = << >>
      /\ Live = DOMAIN disk /\ Live' = Live /\ Unlisted' = {}
  BY <1>1 DEF EngineTypeOK, ControlTypeOK, Live, Doomed, Unlisted
<1>3. PICK largest \in {0} \cup {Id(p) : p \in DOMAIN disk} :
         /\ \A p \in DOMAIN disk : Id(p) <= largest
         /\ segment_i' = (largest + 1) % IdWrap
  BY DEF RestoreSegments
<1>4. \A p \in DOMAIN disk : Id(p) \in Nat /\ Id(p) + 1 < IdWrap
  BY PathFacts DEF Filing, FreshIds
<1>5. segment_i' = largest + 1 /\ largest \in Nat
  <2>1. largest \in Nat /\ largest + 1 \in 0..IdWrap - 1
    BY <1>3, <1>4, BoundsAssumption
  <2>2. largest + 1 \in Int /\ IdWrap \in Nat \ {0}
    BY <2>1, BoundsAssumption
  <2>3. (largest + 1) % IdWrap = largest + 1
    BY <2>1, <2>2, ModSmall, Zenon
  <2>4. QED
    BY <1>3, <2>1, <2>3
<1>6. FreshIds'
  BY <1>1, <1>3, <1>4, <1>5 DEF Filing, FreshIds
<1>7. Listed'
  <2> SUFFICES ASSUME NEW l \in Levels
               PROVE  IsListing(segments'[l], (Files(l)' \cap Live') \ Unlisted')
    BY DEF Listed
  <2>1. (Files(l)' \cap Live') \ Unlisted' = Files(l)
    BY <1>1, <1>2 DEF Files
  <2>2. Cardinality(Files(l)) \in Nat
    <3>1. Files(l) \subseteq DOMAIN disk /\ IsFiniteSet(DOMAIN disk)
      BY DEF Files, EngineTypeOK, DataTypeOK
    <3>2. QED
      BY <3>1, FS_Subset, FS_CardinalityType
  <2>3. /\ segments'[l] \in [1..Cardinality(Files(l)) -> Files(l)]
        /\ \A i, j \in DOMAIN segments'[l] : segments'[l][i] = segments'[l][j] => i = j
        /\ \A p \in Files(l) : \E i \in DOMAIN segments'[l] : segments'[l][i] = p
    BY <1>1 DEF Listings
  <2>4. segments'[l] \in Seq(Files(l))
    BY <2>2, <2>3, SeqDef
  <2>5. DOMAIN segments'[l] = 1..Len(segments'[l])
    BY <2>4, LenProperties
  <2>6. \A i \in 1..Len(segments'[l]) : segments'[l][i] \in Files(l)
    BY <2>4, ElementOfSeq
  <2>7. QED
    BY <2>1, <2>3, <2>5, <2>6 DEF IsListing
<1>8. MergeHolds'
  BY <1>2 DEF MergeHolds
<1>9. QED
  BY <1>6, <1>7, <1>8 DEF Filing

----------------------------------------------------------------------------
(* Layout, of which files and lists are a part *)

LEMMA LayoutFiling ==
    ASSUME EngineTypeOK, Layout
    PROVE  Filing
<1>1. MergeHolds
  <2> SUFFICES ASSUME merging # << >> PROVE MergeHolds
    BY DEF MergeHolds
  <2> DEFINE m == merging[3]
  <2>1. /\ m \in DOMAIN disk /\ Level(m) = lvl + 1 /\ m \notin Doomed
        /\ pc = "deleteB" => merging[1] \notin DOMAIN disk
        /\ \A p \in Doomed \cap DOMAIN disk, k \in Keys : disk[p][k] <= disk[m][k]
    BY DEF Layout, Merging, Doomed
  <2>2. \A p \in DOMAIN disk, k \in Keys : disk[p][k] \in Nat
    BY PathFacts
  <2>3. \A p \in Doomed \cap DOMAIN disk, k \in Keys : disk[p][k] # 0 => disk[m][k] # 0
    BY <2>1, <2>2
  <2>4. QED
    BY <2>1, <2>3 DEF MergeHolds
<1>2. QED
  BY <1>1 DEF Layout, Filing

\* Steps that touch neither files nor lists.
LEMMA LayoutKept ==
    ASSUME EngineTypeOK, Layout, merging = << >>,
           UNCHANGED <<disk, merging>>,
           Serving' => Serving /\ UNCHANGED <<segments, segment_i>>,
           Compacted'
    PROVE  Layout'
<1>1. Live' = Live
  BY DEF Live, Doomed
<1>2. FreshIds' /\ Listed'
  BY LayoutFiling, FilingKept DEF Filing
<1>3. FilesOrdered' /\ LevelOrder' /\ Shape' /\ Merging'
  BY <1>1 DEF Layout, FilesOrdered, LevelOrder, Shape, Merging
<1>4. QED
  BY <1>2, <1>3 DEF Layout

----------------------------------------------------------------------------
\* The merged run takes each entry from one of the two files, and never the
\* older one: the ids of files and the ages of their entries agree.
LEMMA MergedRunDominates ==
    ASSUME EngineTypeOK, FilesOrdered, FreshIds,
           NEW a \in DOMAIN disk, NEW b \in DOMAIN disk, a # b
    PROVE  /\ MergedRun(a, b) \in [Keys -> Version]
           /\ \A k \in Keys :
                 /\ MergedRun(a, b)[k] \in {disk[a][k], disk[b][k]}
                 /\ disk[a][k] <= MergedRun(a, b)[k]
                 /\ disk[b][k] <= MergedRun(a, b)[k]
<1> DEFINE newer == IF Id(a) < Id(b) THEN b ELSE a
           older == IF Id(a) < Id(b) THEN a ELSE b
<1>1. /\ newer \in DOMAIN disk /\ older \in DOMAIN disk /\ Id(older) < Id(newer)
      /\ {older, newer} = {a, b}
  BY PathFacts DEF FreshIds
<1>2. ASSUME NEW k \in Keys
      PROVE  /\ MergedRun(a, b)[k] = IF disk[newer][k] # 0 THEN disk[newer][k] ELSE disk[older][k]
             /\ disk[newer][k] \in Nat /\ disk[older][k] \in Nat
             /\ disk[newer][k] \in Version /\ disk[older][k] \in Version
             /\ disk[newer][k] # 0 /\ disk[older][k] # 0 => disk[older][k] <= disk[newer][k]
  <2>1. MergedRun(a, b)[k] = IF disk[newer][k] # 0 THEN disk[newer][k] ELSE disk[older][k]
    BY DEF MergedRun, Search
  <2>2. disk[newer][k] \in 0..Len(history) /\ disk[older][k] \in 0..Len(history)
    BY <1>1, PathFacts
  <2>3. disk[newer][k] # 0 /\ disk[older][k] # 0 => disk[older][k] <= disk[newer][k]
    BY <1>1 DEF FilesOrdered
  <2>4. Version = 0..Len(history) /\ Len(history) \in Nat
    BY PathFacts DEF Version
  <2> HIDE DEF newer, older
  <2>5. QED
    BY <2>1, <2>2, <2>3, <2>4
<1> HIDE DEF newer, older
<1>3. ASSUME NEW k \in Keys
      PROVE  /\ MergedRun(a, b)[k] \in {disk[older][k], disk[newer][k]}
             /\ disk[older][k] <= MergedRun(a, b)[k]
             /\ disk[newer][k] <= MergedRun(a, b)[k]
             /\ MergedRun(a, b)[k] \in Version
  BY <1>2
<1>4. MergedRun(a, b) = [k \in Keys |-> MergedRun(a, b)[k]]
  BY DEF MergedRun
<1>5. MergedRun(a, b) \in [Keys -> Version]
  BY <1>3, <1>4
<1>6. a \in {older, newer} /\ b \in {older, newer} /\ older \in {a, b} /\ newer \in {a, b}
  BY <1>1
<1>7. QED
  BY <1>3, <1>5, <1>6

\* What compact() merges: two files of its level, which are all the files of
\* that level and of those below it, and newer than all others.
LEMMA TwoNewest ==
    ASSUME EngineTypeOK, Layout, CompactMerge,
           NEW n, n = Len(segments[lvl]),
           NEW a, a = segments[lvl][n],
           NEW b, b = segments[lvl][n - 1]
    PROVE  /\ merging = << >> /\ Live = DOMAIN disk /\ Unlisted = {}
           /\ lvl + 1 \in Levels /\ lvl < MaxLevel
           /\ n \in Nat /\ n >= 2
           /\ a \in Files(lvl) /\ b \in Files(lvl) /\ a # b
           /\ \A p \in DOMAIN disk \ {a, b} :
                 Level(p) > lvl /\ Id(p) < Id(a) /\ Id(p) < Id(b)
<1>1. /\ merging = << >> /\ Live = DOMAIN disk /\ Unlisted = {}
      /\ lvl + 1 \in Levels /\ lvl < MaxLevel
      /\ n \in Nat /\ n >= 2
      /\ a \in Files(lvl) /\ b \in Files(lvl) /\ a # b
  BY MergedPair DEF Layout
<1>2. /\ a \in DOMAIN disk /\ Level(a) = lvl
      /\ b \in DOMAIN disk /\ Level(b) = lvl
      /\ lvl \in Nat
  BY <1>1, PathFacts DEF Files
<1>3. ASSUME NEW p \in DOMAIN disk \ {a, b}
      PROVE  Level(p) > lvl /\ Id(p) < Id(a) /\ Id(p) < Id(b)
  <2>1. Level(p) >= lvl
    BY <1>1, <1>2 DEF Layout, Shape
  <2>2. Level(p) # lvl
    BY <1>1, <1>2 DEF Layout, Shape
  <2>3. Level(p) > lvl
    BY <1>2, <2>1, <2>2, PathFacts
  <2>4. QED
    BY <1>1, <1>2, <2>3 DEF Layout, LevelOrder
<1>4. QED
  BY <1>1, <1>3

\* A merge: the new file is the newest, and the two it replaces are all the
\* files of their level.
LEMMA MergeLayout ==
    ASSUME EngineTypeOK, Layout, IdsLeft, CompactMerge
    PROVE  Layout'
<1> DEFINE n == Len(segments[lvl])
           a == segments[lvl][n]
           b == segments[lvl][n - 1]
           m == NewPath(lvl + 1)
<1>1. /\ merging = << >> /\ Live = DOMAIN disk /\ Unlisted = {}
      /\ lvl + 1 \in Levels /\ lvl < MaxLevel
      /\ n \in Nat /\ n >= 2
      /\ a \in Files(lvl) /\ b \in Files(lvl) /\ a # b
      /\ \A p \in DOMAIN disk \ {a, b} :
            Level(p) > lvl /\ Id(p) < Id(a) /\ Id(p) < Id(b)
  BY TwoNewest
<1>2. /\ disk' = WriteFile(m, MergedRun(a, b))
      /\ segments' = [segments EXCEPT ![lvl] = SubSeq(@, 1, n - 2)]
      /\ merging' = <<a, b, m>>
      /\ segment_i' = NextId
      /\ pc = "compact" /\ pc' = "deleteA" /\ lvl' = lvl
  BY DEF CompactMerge
<1>3. /\ a \in DOMAIN disk /\ Level(a) = lvl
      /\ b \in DOMAIN disk /\ Level(b) = lvl
  BY <1>1 DEF Files
<1>4. /\ Id(m) = segment_i /\ Level(m) = lvl + 1 /\ m \notin DOMAIN disk
      /\ \A p \in DOMAIN disk : Id(p) < Id(m)
  BY <1>1, <1>2, NewPathFacts DEF Layout, FreshIds, Serving
<1>6. /\ MergedRun(a, b) \in [Keys -> Version]
      /\ \A k \in Keys :
            /\ MergedRun(a, b)[k] \in {disk[a][k], disk[b][k]}
            /\ disk[a][k] <= MergedRun(a, b)[k]
            /\ disk[b][k] <= MergedRun(a, b)[k]
  BY <1>1, <1>3, MergedRunDominates DEF Layout
<1>7. /\ DOMAIN disk' = DOMAIN disk \cup {m}
      /\ disk'[m] = MergedRun(a, b)
      /\ \A q \in DOMAIN disk : disk'[q] = disk[q]
  <2> DEFINE run == MergedRun(a, b)
             l == lvl + 1
  <2>1. FreshIds /\ Serving /\ l \in Levels /\ disk' = WriteFile(NewPath(l), run)
    BY <1>1, <1>2 DEF Layout, Serving
  <2> HIDE DEF run, l
  <2>2. /\ NewPath(l) \notin DOMAIN disk
        /\ DOMAIN disk' = DOMAIN disk \cup {NewPath(l)}
        /\ disk'[NewPath(l)] = run
    BY <2>1, NewFile
  <2>3. \A q \in DOMAIN disk : disk'[q] = disk[q]
    BY <2>1, <2>2 DEF WriteFile
  <2>4. QED
    BY <2>2, <2>3 DEF run, l
<1>8. /\ Doomed' = {a, b} /\ Unlisted' = {m}
      /\ Live' = (DOMAIN disk \ {a, b}) \cup {m}
  BY <1>2, <1>3, <1>4, <1>7 DEF Doomed, Unlisted, Live
<1>9. \A p \in DOMAIN disk : Id(p) \in Nat /\ Level(p) \in 0..MaxLevel
  BY PathFacts
<1>10. lvl \in Nat /\ MaxLevel \in Nat /\ segment_i \in Nat
  BY PathFacts
<1> HIDE DEF n, a, b, m
<1>12. FilesOrdered'
  <2> SUFFICES ASSUME NEW p \in DOMAIN disk', NEW q \in DOMAIN disk', Id(p) < Id(q),
                      NEW k \in Keys, disk'[p][k] # 0, disk'[q][k] # 0
               PROVE  disk'[p][k] <= disk'[q][k]
    BY DEF FilesOrdered
  <2>1. p # m
    BY <1>4, <1>7, <1>9, <1>10
  <2>2. p \in DOMAIN disk /\ disk'[p] = disk[p]
    BY <1>7, <2>1
  <2>3. CASE q # m
    BY <1>7, <2>2, <2>3 DEF Layout, FilesOrdered
  <2>4. CASE q = m
    <3>1. CASE p \in {a, b}
      BY <1>6, <1>7, <2>2, <2>4, <3>1
    <3>2. CASE p \notin {a, b}
      <4>1. Id(p) < Id(a) /\ Id(p) < Id(b)
        BY <1>1, <2>2, <3>2
      <4>2. PICK s \in {a, b} : disk'[q][k] = disk[s][k]
        BY <1>6, <1>7, <2>4
      <4>3. s \in DOMAIN disk /\ disk[s][k] # 0 /\ Id(p) < Id(s)
        BY <1>3, <4>1, <4>2
      <4>4. QED
        BY <2>2, <4>2, <4>3 DEF Layout, FilesOrdered
    <3>3. QED
      BY <3>1, <3>2
  <2>5. QED
    BY <2>3, <2>4
<1>13. FreshIds' /\ Listed'
  BY LayoutFiling, MergeFiling DEF Filing
<1>15. LevelOrder'
  BY <1>1, <1>4, <1>8, <1>9, <1>10 DEF Layout, LevelOrder
<1>16. Shape'
  <2>1. \A p, q \in DOMAIN disk : Level(p) < MaxLevel /\ Level(q) = Level(p) /\ p # q
           => Level(p) <= lvl
    BY <1>1, <1>3 DEF Layout, Shape
  <2>2. \A p, q \in DOMAIN disk \ {a, b} : Level(p) < MaxLevel /\ Level(q) = Level(p) => p = q
    BY <1>1, <1>9, <1>10, <2>1
  <2> DEFINE rest == DOMAIN disk \ {a, b}
  <2>3. \A p \in rest : Level(p) \in Nat /\ Level(p) >= lvl + 1
    BY <1>1, <1>9, <1>10
  <2>4. Live' = rest \cup {m} /\ Level(m) = lvl + 1 /\ MaxLevel' = MaxLevel
    BY <1>4, <1>8
  <2> HIDE DEF rest
  <2>5. \A p \in Live' : Level(p) \in Nat /\ Level(p) >= lvl + 1
    BY <1>10, <2>3, <2>4
  <2>6. \A p, q \in Live' : Level(p) < MaxLevel /\ Level(q) = Level(p) => p = m \/ q = m \/ p = q
    BY <2>2, <2>4 DEF rest
  <2>7. \A p, q \in Live' : Level(p) < MaxLevel /\ Level(q) = Level(p) /\ p # q => Level(p) = lvl + 1
    BY <2>4, <2>6
  <2>8. \A p, q, r \in Live' : Level(p) < MaxLevel /\ Level(q) = Level(p) /\ Level(r) = Level(p)
           => p = q \/ q = r \/ p = r
    BY <2>6
  <2>9. QED
    BY <2>5, <2>7, <2>8 DEF Shape
<1>17. Compacted'
  BY <1>1, <1>2, <1>4, <1>8, <1>10 DEF Compacted
<1>18. Merging'
  <2>1. merging'[1] = a /\ merging'[2] = b /\ merging'[3] = m
    BY <1>2
  <2>2. \A p \in {a, b}, k \in Keys : disk'[p][k] <= disk'[m][k]
    BY <1>3, <1>6, <1>7
  <2>3. m \in DOMAIN disk' /\ Level(m) = lvl' + 1 /\ a # b /\ a # m /\ b # m /\ b \in DOMAIN disk'
    BY <1>1, <1>2, <1>3, <1>4, <1>7
  <2>4. \A p \in Doomed' \cap DOMAIN disk' :
           Level(p) = lvl' /\ \A k \in Keys : disk'[p][k] <= disk'[m][k]
    BY <1>2, <1>3, <1>8, <2>2
  <2>5. \A p \in DOMAIN disk' : Id(p) <= Id(m)
    BY <1>4, <1>7, <1>9, <1>10
  <2>6. pc' # "deleteB"
    BY <1>2
  <2>7. QED
    BY <2>1, <2>3, <2>4, <2>5, <2>6 DEF Merging
<1>19. QED
  BY <1>12, <1>13, <1>15, <1>16, <1>17, <1>18 DEF Layout

\* The deletions: what is live stays as it is.
LEMMA DeleteALayout ==
    ASSUME EngineTypeOK, Layout, CompactDeleteA
    PROVE  Layout'
<1> DEFINE a == merging[1]
           b == merging[2]
           m == merging[3]
<1>1. /\ disk' = DeleteFile(a) /\ pc = "deleteA" /\ pc' = "deleteB"
      /\ UNCHANGED <<segments, segment_i, lvl, merging>>
  BY DEF CompactDeleteA
<1>2. merging # << >>
  BY <1>1 DEF EngineTypeOK, ControlTypeOK
<1>3. /\ Doomed = {a, b} /\ Unlisted = {m} /\ Doomed' = Doomed /\ Unlisted' = Unlisted
  BY <1>1, <1>2 DEF Doomed, Unlisted
<1>4. /\ m \in DOMAIN disk /\ Level(m) = lvl + 1
      /\ a # b /\ a # m /\ b # m /\ b \in DOMAIN disk
      /\ \A p \in Doomed \cap DOMAIN disk :
            Level(p) = lvl /\ \A k \in Keys : disk[p][k] <= disk[m][k]
      /\ \A p \in DOMAIN disk : Id(p) <= Id(m)
  BY <1>2 DEF Layout, Merging
<1> HIDE DEF a, b, m
<1>5. /\ DOMAIN disk' = DOMAIN disk \ {a}
      /\ \A q \in DOMAIN disk' : disk'[q] = disk[q]
  BY <1>1 DEF DeleteFile
<1>6. Live' = Live /\ FreshIds' /\ Listed'
  BY LayoutFiling, DeleteAFiling DEF Filing
<1>7. FilesOrdered'
  BY <1>5 DEF Layout, FilesOrdered
<1>9. LevelOrder' /\ Shape' /\ Compacted'
  BY <1>1, <1>6 DEF Layout, LevelOrder, Shape, Compacted
<1>10. Merging'
  <2>1. merging'[1] = a /\ merging'[2] = b /\ merging'[3] = m
    BY <1>1 DEF a, b, m
  <2>2. \A p \in Doomed' \cap DOMAIN disk' :
           Level(p) = lvl' /\ \A k \in Keys : disk'[p][k] <= disk'[m][k]
    BY <1>1, <1>3, <1>4, <1>5
  <2>3. QED
    BY <1>1, <1>4, <1>5, <2>1, <2>2 DEF Merging
<1>11. QED
  BY <1>6, <1>7, <1>9, <1>10 DEF Layout

LEMMA DeleteBLayout ==
    ASSUME EngineTypeOK, Layout, CompactDeleteB
    PROVE  Layout'
<1> DEFINE b == merging[2]
<1>1. /\ disk' = DeleteFile(b) /\ pc = "deleteB" /\ pc' = "compact"
      /\ merging' = << >> /\ lvl' = lvl
  BY DEF CompactDeleteB
<1>2. merging # << >> /\ lvl \in Nat
  BY <1>1, PathFacts DEF EngineTypeOK, ControlTypeOK
<1> HIDE DEF b
<1>3. /\ DOMAIN disk' = DOMAIN disk \ {b}
      /\ \A q \in DOMAIN disk' : disk'[q] = disk[q]
  BY <1>1 DEF DeleteFile
<1>4. Live' = Live /\ FreshIds' /\ Listed'
  BY LayoutFiling, DeleteBFiling DEF Filing
<1>5. FilesOrdered'
  BY <1>3 DEF Layout, FilesOrdered
<1>6. LevelOrder' /\ Shape'
  BY <1>4 DEF Layout, LevelOrder, Shape
<1>7. Compacted' /\ Merging'
  <2>1. \A p \in Live : Level(p) > lvl /\ Level(p) \in Nat
    BY <1>2, PathFacts DEF Layout, Compacted, Live
  <2>2. \A p \in Live : ~(Level(p) < lvl)
    BY <1>2, <2>1
  <2>3. QED
    BY <1>1, <1>4, <2>2 DEF Compacted, Merging
<1>8. QED
  BY <1>4, <1>5, <1>6, <1>7 DEF Layout

\* A level with fewer than two segments has at most one file.
LEMMA NextLayout ==
    ASSUME EngineTypeOK, Layout, CompactNext
    PROVE  Layout'
<1>1. /\ pc = "compact" /\ (lvl < MaxLevel => Len(segments[lvl]) < 2)
      /\ IF lvl < MaxLevel THEN lvl' = lvl + 1 /\ pc' = pc ELSE lvl' = 0 /\ pc' = "flush"
      /\ UNCHANGED <<segments, segment_i, disk, merging>>
  BY DEF CompactNext, treeVars
<1>2. merging = << >> /\ Live = DOMAIN disk /\ Live' = Live /\ Unlisted = {}
  BY <1>1 DEF EngineTypeOK, ControlTypeOK, Live, Doomed, Unlisted
<1>3. lvl \in Levels /\ lvl \in Nat /\ MaxLevel \in Nat /\ segments[lvl] \in Seq(Paths)
  BY PathFacts DEF EngineTypeOK, DataTypeOK
<1>4. lvl < MaxLevel => \A p, q \in Live : Level(p) = lvl /\ Level(q) = lvl => p = q
  <2> SUFFICES ASSUME lvl < MaxLevel, NEW p \in Live, NEW q \in Live, Level(p) = lvl, Level(q) = lvl
               PROVE  p = q
    OBVIOUS
  <2>1. IsListing(segments[lvl], (Files(lvl) \cap Live) \ {})
    BY <1>1, <1>2, <1>3 DEF Layout, Listed, Serving
  <2>2. p \in Files(lvl) \cap Live /\ q \in Files(lvl) \cap Live
    BY <1>2 DEF Files
  <2>3. PICK i \in 1..Len(segments[lvl]), j \in 1..Len(segments[lvl]) :
          segments[lvl][i] = p /\ segments[lvl][j] = q
    BY <2>1, <2>2 DEF IsListing
  <2>4. Len(segments[lvl]) \in Nat
    BY <1>3, LenProperties
  <2>5. QED
    BY <1>1, <2>3, <2>4
<1>5. Compacted'
  <2>1. \A p \in Live : Level(p) \in Nat /\ Level(p) <= MaxLevel
    BY <1>2, PathFacts
  <2>2. merging' = << >>
    BY <1>1, <1>2
  <2>3. \A p, q \in Live : Level(p) = Level(q) /\ Level(p) < lvl => p = q
    BY <1>1 DEF Layout, Compacted
  <2>4. CASE lvl < MaxLevel
    <3>1. \A p, q \in Live : Level(p) = Level(q) /\ Level(p) < lvl + 1 => p = q
      BY <1>3, <1>4, <2>1, <2>3, <2>4
    <3>2. QED
      BY <1>1, <1>2, <2>2, <2>4, <3>1 DEF Compacted
  <2>5. CASE ~(lvl < MaxLevel)
    <3>1. lvl = MaxLevel
      BY <1>3, <2>5, PathFacts
    <3>2. QED
      BY <1>1, <1>2, <2>2, <2>3, <2>5, <3>1 DEF Compacted
  <2>6. QED
    BY <2>4, <2>5
<1>6. QED
  BY <1>1, <1>2, <1>5, LayoutKept DEF Serving

\* A flush: the new file is the newest, and level 0 had room for it.
LEMMA FlushLayout ==
    ASSUME EngineTypeOK, Layout, IdsLeft, Flush,
           \* the memtable is not older than the files
           \A p \in DOMAIN disk, k \in Keys :
              disk[p][k] # 0 /\ mem[k] # 0 => disk[p][k] <= mem[k]
    PROVE  Layout'
<1> DEFINE m == NewPath(0)
<1>1. /\ disk' = WriteFile(m, mem) /\ pc = "flush" /\ pc' = "clear"
      /\ segments' = [segments EXCEPT ![0] = Append(@, m)]
      /\ segment_i' = NextId
      /\ UNCHANGED <<lvl, merging>>
  BY DEF Flush
<1>2. /\ merging = << >> /\ merging' = << >>
      /\ Live = DOMAIN disk /\ Live' = DOMAIN disk' /\ Unlisted = {} /\ Unlisted' = {}
  BY <1>1 DEF EngineTypeOK, ControlTypeOK, Live, Doomed, Unlisted
<1>3. 0 \in Levels /\ MaxLevel \in Nat /\ segment_i \in Nat
  BY PathFacts
<1>4. /\ Id(m) = segment_i /\ Level(m) = 0 /\ m \in Paths /\ m \notin DOMAIN disk
      /\ \A p \in DOMAIN disk : Id(p) < Id(m)
  BY <1>1, <1>3, NewPathFacts DEF Layout, FreshIds, Serving
<1> HIDE DEF m
<1>6. /\ DOMAIN disk' = DOMAIN disk \cup {m}
      /\ disk'[m] = mem
      /\ \A q \in DOMAIN disk : disk'[q] = disk[q]
  BY <1>1, <1>4 DEF WriteFile
<1>7. \A p \in DOMAIN disk : Id(p) \in Nat /\ Level(p) \in 0..MaxLevel
  BY PathFacts
<1>8. FilesOrdered'
  <2> SUFFICES ASSUME NEW p \in DOMAIN disk', NEW q \in DOMAIN disk', Id(p) < Id(q),
                      NEW k \in Keys, disk'[p][k] # 0, disk'[q][k] # 0
               PROVE  disk'[p][k] <= disk'[q][k]
    BY DEF FilesOrdered
  <2>1. p # m
    BY <1>3, <1>4, <1>6, <1>7
  <2>2. p \in DOMAIN disk /\ disk'[p] = disk[p]
    BY <1>6, <2>1
  <2>3. CASE q # m
    BY <1>6, <2>2, <2>3 DEF Layout, FilesOrdered
  <2>4. CASE q = m
    BY <1>6, <2>2, <2>4
  <2>5. QED
    BY <2>3, <2>4
<1>9. FreshIds' /\ Listed'
  BY LayoutFiling, FlushFiling DEF Filing
<1>11. LevelOrder'
  BY <1>2, <1>3, <1>4, <1>6, <1>7 DEF Layout, LevelOrder
<1>12. Shape'
  <2>1. \A p, q \in DOMAIN disk : Level(p) = Level(q) /\ Level(p) < MaxLevel => p = q
    BY <1>1, <1>2 DEF Layout, Compacted
  <2>2. QED
    BY <1>2, <1>3, <1>4, <1>6, <1>7, <2>1 DEF Shape
<1>13. Compacted' /\ Merging'
  BY <1>1, <1>2 DEF Compacted, Merging
<1>14. QED
  BY <1>8, <1>9, <1>11, <1>12, <1>13 DEF Layout

\* Recovery: the files are as they were.
LEMMA RestoreLayout ==
    ASSUME EngineTypeOK, Layout, RestoreSegments
    PROVE  Layout'
<1>1. /\ pc = "replay" /\ pc' = "ready" /\ UNCHANGED <<disk, lvl, merging>>
  BY DEF RestoreSegments
<1>2. merging = << >> /\ merging' = << >> /\ Live' = Live
  BY <1>1 DEF EngineTypeOK, ControlTypeOK, Live, Doomed
<1>3. FreshIds' /\ Listed'
  BY LayoutFiling, RestoreFiling DEF Filing
<1>4. FilesOrdered'
  BY <1>1 DEF Layout, FilesOrdered
<1>5. LevelOrder' /\ Shape'
  BY <1>2 DEF Layout, LevelOrder, Shape
<1>6. Compacted' /\ Merging'
  BY <1>1, <1>2 DEF Compacted, Merging
<1>7. QED
  BY <1>3, <1>4, <1>5, <1>6 DEF Layout

----------------------------------------------------------------------------
(* What memtable, log and segment files hold *)

\* What type correctness says of the numbers that stand for writes.
LEMMA NumberFacts ==
    ASSUME EngineTypeOK
    PROVE  /\ Len(history) \in Nat /\ flushed \in 0..Len(history)
           /\ \A n \in 1..Len(history) : history[n].key \in Keys
           /\ \A k \in Keys : mem[k] \in 0..Len(history)
           /\ \A p \in DOMAIN disk, k \in Keys : disk[p][k] \in 0..Len(history)
           /\ Len(walFile) \in Nat /\ Len(walBuf) \in Nat
           /\ \A i \in 1..Len(walFile) : walFile[i] \in 1..Len(history)
           /\ \A i \in 1..Len(walBuf) : walBuf[i] \in 1..Len(history)
           /\ replayed \in 0..Len(walFile)
<1>1. /\ history \in Seq([key : Keys, value : Stored])
      /\ walFile \in Seq(1..Len(history)) /\ walBuf \in Seq(1..Len(history))
  BY DEF EngineTypeOK, DataTypeOK
<1>2. Len(history) \in Nat /\ Len(walFile) \in Nat /\ Len(walBuf) \in Nat
  BY <1>1, LenProperties
<1>3. \A n \in 1..Len(history) : history[n] \in [key : Keys, value : Stored]
  BY <1>1, ElementOfSeq
<1>4. /\ \A i \in 1..Len(walFile) : walFile[i] \in 1..Len(history)
      /\ \A i \in 1..Len(walBuf) : walBuf[i] \in 1..Len(history)
  BY <1>1, ElementOfSeq
<1>5. /\ flushed \in 0..Len(history) /\ replayed \in 0..Len(walFile)
      /\ \A k \in Keys : mem[k] \in 0..Len(history)
      /\ \A p \in DOMAIN disk, k \in Keys : disk[p][k] \in 0..Len(history)
  BY DEF EngineTypeOK, DataTypeOK, Version
<1>6. QED
  BY <1>2, <1>3, <1>4, <1>5

\* A step that moves entries between the files, and loses none of a key but for
\* a later one.
EntriesKept ==
    /\ \A p \in DOMAIN disk', k \in Keys :
          /\ disk'[p][k] \in Nat
          /\ disk'[p][k] # 0 => \E q \in DOMAIN disk : disk'[p][k] = disk[q][k]
    /\ \A p \in DOMAIN disk : \E q \in DOMAIN disk' : \A k \in Keys : disk[p][k] <= disk'[q][k]

LEMMA SameFilesKept ==
    ASSUME EngineTypeOK, disk' = disk
    PROVE  EntriesKept
<1>1. \A p \in DOMAIN disk, k \in Keys : disk[p][k] \in Nat
  BY NumberFacts
<1>2. QED
  BY <1>1 DEF EntriesKept

\* Steps in which memtable, history and flush mark stay as they are.
LEMMA HeldKept ==
    ASSUME EngineTypeOK, NEW d \in Nat, Held(d), EntriesKept,
           UNCHANGED <<mem, history, flushed>>, Serving, Serving'
    PROVE  Held(d)'
<1>1. Seen' = Seen
  BY DEF Seen, Serving
<1>2. MemSound' /\ MemCovers'
  BY <1>1 DEF Held, MemSound, MemCovers, Serving
<1>3. FilesSound'
  BY DEF Held, FilesSound, EntriesKept
<1>4. FilesCover(d)'
  <2> SUFFICES ASSUME NEW n \in d + 1 .. flushed
               PROVE  \E p \in DOMAIN disk' : disk'[p][history[n].key] >= n
    BY DEF FilesCover
  <2>1. n \in 1..Len(history) /\ history[n].key \in Keys
    BY NumberFacts
  <2>2. PICK p \in DOMAIN disk : disk[p][history[n].key] >= n
    BY DEF Held, FilesCover
  <2>3. PICK q \in DOMAIN disk' : \A k \in Keys : disk[p][k] <= disk'[q][k]
    BY DEF EntriesKept
  <2>4. disk[p][history[n].key] \in Nat /\ disk'[q][history[n].key] \in Nat /\ n \in Nat
    BY <2>1, NumberFacts DEF EntriesKept
  <2>5. QED
    BY <2>1, <2>2, <2>3, <2>4
<1>5. QED
  BY <1>2, <1>3, <1>4 DEF Held

\* Steps that leave the log as it is too.
LEMMA ContentKept ==
    ASSUME EngineTypeOK, Content, EntriesKept,
           UNCHANGED <<mem, history, flushed, walFile, walBuf>>,
           Serving, Serving', pc = "clear" <=> pc' = "clear"
    PROVE  Content'
<1>1. Held(0)'
  BY HeldKept DEF Content
<1>2. Log'
  BY DEF Content, Log, Numbered
<1>3. QED
  BY <1>1, <1>2 DEF Content

\* Numbered sequences: the next number appended, one put behind another.
LEMMA AppendNumbered ==
    ASSUME NEW n \in Nat, NEW s \in Seq(1..n), Numbered(s, n)
    PROVE  Numbered(Append(s, n + 1), n + 1)
<1>1. /\ Len(Append(s, n + 1)) = Len(s) + 1 /\ Len(s) \in Nat
      /\ \A i \in 1..Len(s) : Append(s, n + 1)[i] = s[i]
      /\ Append(s, n + 1)[Len(s) + 1] = n + 1
  BY AppendVersion
<1>2. SUFFICES ASSUME NEW i \in 1..Len(s) + 1
               PROVE  Append(s, n + 1)[i] = n + 1 - (Len(s) + 1) + i
  BY <1>1 DEF Numbered
<1>3. CASE i \in 1..Len(s)
  BY <1>1, <1>3 DEF Numbered
<1>4. CASE i = Len(s) + 1
  BY <1>1, <1>4
<1>5. QED
  BY <1>1, <1>3, <1>4

LEMMA ConcatNumbered ==
    ASSUME NEW n \in Nat, NEW s \in Seq(1..n), NEW t \in Seq(1..n),
           Numbered(t, n), Numbered(s, n - Len(t))
    PROVE  Numbered(s \o t, n) /\ Len(s \o t) = Len(s) + Len(t)
<1>1. Len(s) \in Nat /\ Len(t) \in Nat
  OBVIOUS
<1>2. /\ Len(s \o t) = Len(s) + Len(t)
      /\ \A i \in 1..Len(s) + Len(t) : (s \o t)[i] = IF i <= Len(s) THEN s[i] ELSE t[i - Len(s)]
  BY ConcatProperties
<1>3. SUFFICES ASSUME NEW i \in 1..Len(s) + Len(t)
               PROVE  (s \o t)[i] = n - (Len(s) + Len(t)) + i
  BY <1>2 DEF Numbered
<1>4. CASE i <= Len(s)
  <2>1. i \in 1..Len(s) /\ s[i] = n - Len(t) - Len(s) + i
    BY <1>1, <1>4 DEF Numbered
  <2>2. QED
    BY <1>1, <1>2, <1>4, <2>1
<1>5. CASE ~(i <= Len(s))
  <2>1. i - Len(s) \in 1..Len(t)
    BY <1>1, <1>5
  <2>2. t[i - Len(s)] = n - Len(t) + (i - Len(s))
    BY <2>1 DEF Numbered
  <2>3. QED
    BY <1>1, <1>2, <1>5, <2>1, <2>2
<1>6. QED
  BY <1>4, <1>5

\* Logging and inserting a write: what memtable and files hold, ...
LEMMA LogAndInsertHeld ==
    ASSUME EngineTypeOK, NEW d \in Nat, Held(d), Serving, Serving', UNCHANGED <<disk, flushed>>,
           NEW k \in Keys, NEW v \in Values \cup {Tombstone}, LogAndInsert(k, v)
    PROVE  Held(d)'
<1> DEFINE N == Len(history)
           e == [key |-> k, value |-> FinalValue(v)]
<1>1. /\ history' = Append(history, e) /\ mem' = [mem EXCEPT ![k] = N + 1] /\ WalAppend(N + 1)
  BY DEF LogAndInsert
<1>2. /\ N \in Nat /\ flushed \in 0..N
      /\ \A n \in 1..N : history[n].key \in Keys
      /\ \A j \in Keys : mem[j] \in 0..N
      /\ \A p \in DOMAIN disk, j \in Keys : disk[p][j] \in 0..N
  BY NumberFacts
<1>3. /\ Len(history') = N + 1
      /\ \A n \in 1..N : history'[n] = history[n]
      /\ history'[N + 1].key = k
  <2>1. history \in Seq([key : Keys, value : Stored])
    BY DEF EngineTypeOK, DataTypeOK
  <2>2. e \in [key : Keys, value : Stored] /\ e.key = k
    BY DEF FinalValue, Stored
  <2>3. QED
    BY <1>1, <2>1, <2>2, AppendProperties
<1>4. mem'[k] = N + 1 /\ \A j \in Keys : j # k => mem'[j] = mem[j]
  BY <1>1 DEF EngineTypeOK, DataTypeOK
<1>5. Seen = N /\ Seen' = N + 1
  BY <1>3 DEF Seen, Serving
<1> HIDE DEF N, e
<1>6. MemSound'
  <2> SUFFICES ASSUME NEW j \in Keys, mem'[j] # 0
               PROVE  /\ mem'[j] <= Seen'
                      /\ history'[mem'[j]].key = j
                      /\ \A n \in mem'[j] + 1 .. Seen' : history'[n].key # j
    BY DEF MemSound
  <2>1. CASE j = k
    BY <1>2, <1>3, <1>4, <1>5, <2>1
  <2>2. CASE j # k
    <3>1. /\ mem'[j] = mem[j] /\ mem[j] \in 1..N
          /\ history[mem[j]].key = j
          /\ \A n \in mem[j] + 1 .. N : history[n].key # j
      BY <1>2, <1>4, <1>5, <2>2 DEF Held, MemSound
    <3>2. \A n \in mem[j] + 1 .. N + 1 : n \in mem[j] + 1 .. N \/ n = N + 1
      BY <1>2, <3>1
    <3>3. QED
      BY <1>2, <1>3, <1>5, <2>2, <3>1, <3>2
  <2>3. QED
    BY <2>1, <2>2
<1>7. MemCovers'
  <2>1. \A n \in flushed + 1 .. N : mem[history[n].key] >= n
    BY DEF Held, MemCovers, N
  <2>2. \A n \in flushed + 1 .. N + 1 : mem'[history'[n].key] >= n
    <3> TAKE n \in flushed + 1 .. N + 1
    <3>1. CASE n = N + 1
      BY <1>2, <1>3, <1>4, <3>1
    <3>2. CASE n # N + 1
      <4>1. n \in flushed + 1 .. N /\ n \in 1..N /\ history'[n].key = history[n].key
        BY <1>2, <1>3, <3>2
      <4>2. mem[history[n].key] >= n /\ history[n].key \in Keys
        BY <1>2, <2>1, <4>1
      <4>3. QED
        BY <1>2, <1>4, <4>1, <4>2
    <3>3. QED
      BY <3>1, <3>2
  <2>3. QED
    BY <1>3, <2>2 DEF MemCovers, Serving
<1>8. FilesSound'
  BY <1>2, <1>3 DEF Held, FilesSound
<1>9. FilesCover(d)'
  <2>1. \A n \in d + 1 .. flushed : history'[n] = history[n]
    BY <1>2, <1>3
  <2>2. QED
    BY <2>1 DEF Held, FilesCover
<1>10. QED
  BY <1>6, <1>7, <1>8, <1>9 DEF Held

\* ... and the log beside them.
LEMMA LogAndInsertContent ==
    ASSUME EngineTypeOK, Content, Serving, Serving', pc # "clear", pc' # "clear",
           UNCHANGED <<disk, flushed>>,
           NEW k \in Keys, NEW v \in Values \cup {Tombstone}, LogAndInsert(k, v)
    PROVE  Content'
<1> DEFINE N == Len(history)
<1>1. WalAppend(N + 1)
  BY DEF LogAndInsert
<1>2. N \in Nat /\ flushed \in 0..N
  BY NumberFacts
<1>3. Len(history') = N + 1
  <2>1. history \in Seq([key : Keys, value : Stored])
    BY DEF EngineTypeOK, DataTypeOK
  <2>2. [key |-> k, value |-> FinalValue(v)] \in [key : Keys, value : Stored]
    BY DEF FinalValue, Stored
  <2>3. QED
    BY <2>1, <2>2, AppendProperties DEF LogAndInsert
<1> HIDE DEF N
<1>4. Log'
  <2> DEFINE M == Len(history')
  <2>1. /\ Len(walFile) \in Nat /\ Len(walBuf) \in Nat
        /\ walFile \in Seq(1..N) /\ walBuf \in Seq(1..N)
    BY NumberFacts DEF EngineTypeOK, DataTypeOK, N
  <2>2. /\ Numbered(walBuf, N) /\ Numbered(walFile, N - Len(walBuf))
        /\ N - Len(walBuf) - Len(walFile) <= flushed
        /\ Len(walFile) > 0 => N - Len(walBuf) >= flushed
    BY DEF Content, Log, N
  <2>3. SUFFICES /\ Numbered(walBuf', M) /\ Numbered(walFile', M - Len(walBuf'))
                 /\ M - Len(walBuf') - Len(walFile') <= flushed
                 /\ Len(walFile') > 0 => M - Len(walBuf') >= flushed
    BY DEF Log, Numbered
  <2> HIDE DEF M
  <2> DEFINE buf == Append(walBuf, M)
  <2>4. M = N + 1 /\ M \in Nat
    BY <1>2, <1>3 DEF M
  <2>5. buf \in Seq(1..M) /\ walFile \in Seq(1..M) /\ Len(buf) = Len(walBuf) + 1
    BY <1>2, <2>1, <2>4, AppendVersion
  <2>6. Numbered(buf, M)
    BY <1>2, <2>1, <2>2, <2>4, AppendNumbered
  <2>7. M - Len(buf) = N - Len(walBuf) /\ Numbered(walFile, M - Len(buf))
    <3>1. M - Len(buf) = N - Len(walBuf)
      BY <1>2, <2>1, <2>4, <2>5
    <3>2. QED
      BY <2>2, <3>1
  <2>8. WalAppend(M)
    BY <1>1, <2>4
  <2> HIDE DEF buf
  <2>9. CASE walFile' = walFile /\ walBuf' = buf
    BY <2>2, <2>6, <2>7, <2>9
  <2>10. CASE walFile' = walFile \o buf /\ walBuf' = << >>
    <3>1. Numbered(walFile', M) /\ Len(walFile') = Len(walFile) + Len(buf)
      BY <2>4, <2>5, <2>6, <2>7, <2>10, ConcatNumbered
    <3>2. Len(walBuf') = 0 /\ M - Len(walBuf') = M
      BY <2>4, <2>10, EmptySeq
    <3>3. Numbered(walBuf', M)
      BY <3>2 DEF Numbered
    <3>4. M - Len(walFile') <= flushed /\ M >= flushed
      BY <1>2, <2>1, <2>2, <2>4, <2>5, <3>1
    <3>5. QED
      BY <3>1, <3>2, <3>3, <3>4
  <2>11. QED
    BY <2>8, <2>9, <2>10 DEF WalAppend, WalKeep, WalSpill, buf
<1>5. Held(0)'
  BY LogAndInsertHeld DEF Content
<1>6. QED
  BY <1>4, <1>5 DEF Content

----------------------------------------------------------------------------
\* A merge and its deletions move entries, and lose none that is the latest.
LEMMA MergeKeeps ==
    ASSUME EngineTypeOK, Layout, CompactMerge
    PROVE  EntriesKept
<1> DEFINE n == Len(segments[lvl])
           a == segments[lvl][n]
           b == segments[lvl][n - 1]
           m == NewPath(lvl + 1)
<1>1. a \in DOMAIN disk /\ b \in DOMAIN disk /\ a # b /\ lvl + 1 \in Levels
  BY TwoNewest DEF Files
<1>2. /\ disk' = WriteFile(m, MergedRun(a, b)) /\ pc = "compact" /\ pc' = "deleteA"
      /\ UNCHANGED <<mem, history, flushed, walFile, walBuf>>
  BY DEF CompactMerge, auxVars, walVars
<1>3. m \notin DOMAIN disk
  BY <1>1, <1>2, NewPathFacts DEF Layout, Serving
<1>4. \A k \in Keys : MergedRun(a, b)[k] \in {disk[a][k], disk[b][k]}
  BY <1>1, MergedRunDominates DEF Layout
<1> HIDE DEF n, a, b, m
<1>5. /\ DOMAIN disk' = DOMAIN disk \cup {m}
      /\ disk'[m] = MergedRun(a, b)
      /\ \A q \in DOMAIN disk : disk'[q] = disk[q]
  BY <1>2, <1>3 DEF WriteFile
<1>6. \A p \in DOMAIN disk', k \in Keys :
         disk'[p][k] # 0 => \E q \in DOMAIN disk : disk'[p][k] = disk[q][k]
  BY <1>1, <1>4, <1>5
<1>7. \A p \in DOMAIN disk : \E q \in DOMAIN disk' :
         \A k \in Keys : disk[p][k] <= disk'[q][k]
  BY <1>5, NumberFacts
<1>8. \A p \in DOMAIN disk', k \in Keys : disk'[p][k] \in Nat
  BY <1>1, <1>4, <1>5, NumberFacts
<1>9. QED
  BY <1>6, <1>7, <1>8 DEF EntriesKept

LEMMA DeleteKeeps ==
    ASSUME EngineTypeOK, Layout, CompactDeleteA \/ CompactDeleteB
    PROVE  EntriesKept
<1> DEFINE m == merging[3]
<1>1. PICK x \in {merging[1], merging[2]} :
        /\ disk' = DeleteFile(x)
        /\ pc \in {"deleteA", "deleteB"} /\ pc' \in {"deleteB", "compact"}
        /\ UNCHANGED <<mem, history, flushed, walFile, walBuf>>
  BY DEF CompactDeleteA, CompactDeleteB, auxVars, walVars
<1>2. /\ m \in DOMAIN disk /\ x # m /\ x \in Doomed
      /\ x \in DOMAIN disk => \A k \in Keys : disk[x][k] <= disk[m][k]
  BY <1>1 DEF Layout, Merging, Doomed, EngineTypeOK, ControlTypeOK
<1> HIDE DEF m
<1>3. /\ DOMAIN disk' = DOMAIN disk \ {x}
      /\ \A q \in DOMAIN disk' : disk'[q] = disk[q]
  BY <1>1 DEF DeleteFile
<1>4. \A p \in DOMAIN disk', k \in Keys :
         disk'[p][k] # 0 => \E q \in DOMAIN disk : disk'[p][k] = disk[q][k]
  BY <1>3
<1>5. ASSUME NEW p \in DOMAIN disk
      PROVE  \E q \in DOMAIN disk' : \A k \in Keys : disk[p][k] <= disk'[q][k]
  <2>1. CASE p = x
    BY <1>2, <1>3, <2>1
  <2>2. CASE p # x
    BY <1>3, <2>2, NumberFacts
  <2>3. QED
    BY <2>1, <2>2
<1>6. \A p \in DOMAIN disk', k \in Keys : disk'[p][k] \in Nat
  BY <1>3, NumberFacts
<1>7. QED
  BY <1>4, <1>5, <1>6 DEF EntriesKept

\* Nothing but the files changes in them.
LEMMA CompactContent ==
    ASSUME EngineTypeOK, Layout, Content, CompactMerge \/ CompactDeleteA \/ CompactDeleteB
    PROVE  Content'
<1>1. /\ UNCHANGED <<mem, history, flushed, walFile, walBuf>>
      /\ pc \in {"compact", "deleteA", "deleteB"} /\ pc' \in {"compact", "deleteA", "deleteB"}
  BY DEF CompactMerge, CompactDeleteA, CompactDeleteB, auxVars, walVars
<1>2. QED
  BY <1>1, MergeKeeps, DeleteKeeps, ContentKept DEF Serving

\* Of two versions of a key, one in a file and one in the memtable of a
\* process that serves, the one in the memtable is not the older one.
LEMMA MemIsNewer ==
    ASSUME EngineTypeOK, NEW d \in Nat, Held(d), Serving
    PROVE  \A p \in DOMAIN disk, k \in Keys :
              disk[p][k] # 0 /\ mem[k] # 0 => disk[p][k] <= mem[k]
<1> SUFFICES ASSUME NEW p \in DOMAIN disk, NEW k \in Keys, disk[p][k] # 0, mem[k] # 0,
                    ~(disk[p][k] <= mem[k])
             PROVE  FALSE
  OBVIOUS
<1>1. /\ Len(history) \in Nat
      /\ disk[p][k] \in 1..Len(history) /\ mem[k] \in 1..Len(history)
  BY NumberFacts
<1>2. history[disk[p][k]].key = k
  BY DEF Held, FilesSound
<1>3. \A j \in mem[k] + 1 .. Len(history) : history[j].key # k
  BY DEF Held, MemSound, Seen, Serving
<1>4. QED
  BY <1>1, <1>2, <1>3

\* A flush: the memtable holds what no file has yet.
LEMMA FlushHeld ==
    ASSUME EngineTypeOK, FreshIds, NEW d \in Nat, Held(d), Flush
    PROVE  Held(d)'
<1> DEFINE m == NewPath(0)
           N == Len(history)
<1>1. /\ disk' = WriteFile(m, mem) /\ pc = "flush" /\ pc' = "clear"
      /\ mem' = NoRun /\ flushed' = N
      /\ UNCHANGED <<history, walFile, walBuf>>
  BY DEF Flush, walVars
<1>2. m \notin DOMAIN disk
  BY <1>1, PathFacts, NewPathFacts DEF Serving
<1>3. /\ N \in Nat /\ flushed \in 0..N
      /\ \A n \in 1..N : history[n].key \in Keys
      /\ \A k \in Keys : mem[k] \in 0..N
      /\ \A p \in DOMAIN disk, k \in Keys : disk[p][k] \in 0..N
      /\ Len(walFile) \in Nat /\ Len(walBuf) \in Nat
  BY NumberFacts
<1>4. Seen = N /\ Serving
  BY <1>1 DEF Seen, Serving
<1> HIDE DEF m, N
<1>5. /\ DOMAIN disk' = DOMAIN disk \cup {m}
      /\ disk'[m] = mem
      /\ \A q \in DOMAIN disk : disk'[q] = disk[q]
  BY <1>1, <1>2 DEF WriteFile
<1>6. MemSound'
  BY <1>1 DEF MemSound, NoRun
<1>7. MemCovers'
  BY <1>1, <1>3 DEF MemCovers, N
<1>8. FilesSound'
  <2> SUFFICES ASSUME NEW p \in DOMAIN disk', NEW k \in Keys, disk'[p][k] # 0
               PROVE  disk'[p][k] <= flushed' /\ history'[disk'[p][k]].key = k
    BY DEF FilesSound
  <2>1. CASE p = m
    BY <1>1, <1>3, <1>4, <1>5, <2>1 DEF Held, MemSound
  <2>2. CASE p # m
    BY <1>1, <1>3, <1>5, <2>2 DEF Held, FilesSound
  <2>3. QED
    BY <2>1, <2>2
<1>9. FilesCover(d)'
  <2> SUFFICES ASSUME NEW n \in d + 1 .. N
               PROVE  \E p \in DOMAIN disk' : disk'[p][history[n].key] >= n
    BY <1>1 DEF FilesCover
  <2>1. CASE n \in d + 1 .. flushed
    BY <1>5, <2>1 DEF Held, FilesCover
  <2>2. CASE n \in flushed + 1 .. N
    BY <1>4, <1>5, <2>2 DEF Held, MemCovers, N
  <2>3. QED
    BY <1>3, <2>1, <2>2
<1>10. QED
  BY <1>6, <1>7, <1>8, <1>9 DEF Held

LEMMA FlushContent ==
    ASSUME EngineTypeOK, Layout, Content, Flush
    PROVE  Content'
<1> DEFINE N == Len(history)
<1>1. /\ pc' = "clear" /\ flushed' = N
      /\ UNCHANGED <<history, walFile, walBuf>>
  BY DEF Flush, walVars
<1>2. N \in Nat /\ Len(walFile) \in Nat /\ Len(walBuf) \in Nat
  BY NumberFacts
<1> HIDE DEF N
<1>3. Log'
  <2>1. /\ \A i \in 1..Len(walFile) : walFile[i] = N - Len(walBuf) - Len(walFile) + i
        /\ \A i \in 1..Len(walBuf) : walBuf[i] = N - Len(walBuf) + i
    BY DEF Content, Log, Numbered, N
  <2>2. N - Len(walBuf) - Len(walFile) <= N
    BY <1>2
  <2>3. QED
    BY <1>1, <2>1, <2>2 DEF Log, Numbered, N, Serving
<1>4. Held(0)'
  BY FlushHeld DEF Content, Layout
<1>5. QED
  BY <1>3, <1>4 DEF Content

\* Clearing the file of the log: everything in it is in a segment.
LEMMA ClearContent ==
    ASSUME EngineTypeOK, Content, ClearLog
    PROVE  Content'
<1>1. /\ pc = "clear" /\ pc' = "append" /\ walFile' = << >>
      /\ UNCHANGED <<mem, disk, history, flushed, walBuf>>
  BY DEF ClearLog, WalClear, treeVars, auxVars
<1>2. EntriesKept
  BY <1>1, SameFilesKept
<1>3. Held(0)'
  BY <1>1, <1>2, HeldKept DEF Content, Serving
<1>4. Len(walFile') = 0 /\ Len(walBuf) \in Nat /\ Len(history) \in Nat
  BY <1>1, NumberFacts, EmptySeq
<1>5. /\ \A i \in 1..Len(walBuf) : walBuf[i] = Len(history) - Len(walBuf) + i
      /\ flushed = Len(history)
  BY <1>1 DEF Content, Log, Numbered
<1>6. Log'
  <2>1. \A i \in 1..Len(walFile') : walFile'[i] = Len(history') - Len(walBuf') - Len(walFile') + i
    BY <1>4
  <2>2. Len(history') - Len(walBuf') - Len(walFile') <= flushed' /\ ~(Len(walFile') > 0)
    BY <1>1, <1>4, <1>5
  <2>3. \A i \in 1..Len(walBuf') : walBuf'[i] = Len(history') - Len(walBuf') + i
    BY <1>1, <1>5
  <2>4. QED
    BY <1>1, <2>1, <2>2, <2>3 DEF Log, Numbered, Serving
<1>7. QED
  BY <1>3, <1>6 DEF Content

----------------------------------------------------------------------------
\* Death between two changes of the disk: what is left of the writes ends
\* with the last one in the log file, or with the last flush.
LEMMA DieContent ==
    ASSUME EngineTypeOK, Content, pc # "clear", Die
    PROVE  Content'
<1> DEFINE N == Len(history)
           f == Len(walFile)
           b == Len(walBuf)
<1>1. /\ N \in Nat /\ f \in Nat /\ b \in Nat /\ flushed \in 0..N
      /\ \A p \in DOMAIN disk, k \in Keys : disk[p][k] \in 0..N
      /\ DOMAIN walFile = 1..f
  BY NumberFacts, LenProperties DEF EngineTypeOK, DataTypeOK
<1>2. /\ pc' = "down" /\ disk' = disk /\ mem' = NoRun /\ replayed' = 0
      /\ walFile' = walFile /\ walBuf' = << >> /\ flushed' = flushed
  BY DEF Die, DieLeaving, WalLose
<1>3. PICK n \in Surviving(disk) :
        IsLast(n, Surviving(disk)) /\ history' = SubSeq(history, 1, n)
  BY DEF Die, DieLeaving
<1>4. /\ \A i \in 1..f : walFile[i] = N - b - f + i
      /\ N - b - f <= flushed
      /\ f > 0 => N - b >= flushed
  BY DEF Content, Log, Numbered
<1> HIDE DEF N, f, b
<1>5. \A p \in DOMAIN disk, k \in Keys : disk[p][k] <= flushed
  <2>1. \A p \in DOMAIN disk, k \in Keys : disk[p][k] # 0 => disk[p][k] <= flushed
    BY DEF Content, Held, FilesSound
  <2>2. QED
    BY <1>1, <2>1
\* The last write that is left ...
<1>6. n = IF f > 0 THEN N - b ELSE flushed
  <2>1. \A x \in Surviving(disk) :
           \/ x = flushed
           \/ \E i \in 1..f : x = walFile[i]
           \/ \E p \in DOMAIN disk, k \in Keys : x = disk[p][k]
    BY <1>1 DEF Surviving
  <2>2. flushed \in Surviving(disk) /\ \A i \in 1..f : walFile[i] \in Surviving(disk)
    BY <1>1 DEF Surviving
  <2>3. /\ flushed <= n /\ \A i \in 1..f : walFile[i] <= n
    BY <1>3, <2>2 DEF IsLast
  <2>4. CASE f > 0
    <3>1. f \in 1..f /\ walFile[f] = N - b /\ N - b >= flushed
      BY <1>1, <1>4, <2>4
    <3>2. N - b <= n
      BY <2>3, <3>1
    <3>3. \A i \in 1..f : walFile[i] <= N - b
      BY <1>1, <1>4
    <3>4. n = flushed \/ (\E i \in 1..f : n = walFile[i])
                      \/ (\E p \in DOMAIN disk, k \in Keys : n = disk[p][k])
      BY <1>3, <2>1
    <3>5. n \in Int
      BY <1>1, <1>4, <3>4
    <3>6. n <= N - b
      <4>1. CASE n = flushed
        BY <3>1, <4>1
      <4>2. CASE \E i \in 1..f : n = walFile[i]
        BY <3>3, <4>2
      <4>3. CASE \E p \in DOMAIN disk, k \in Keys : n = disk[p][k]
        BY <1>1, <1>5, <3>1, <4>3
      <4>4. QED
        BY <3>4, <4>1, <4>2, <4>3
    <3>7. QED
      BY <1>1, <2>4, <3>2, <3>5, <3>6
  <2>5. CASE ~(f > 0)
    <3>1. ~ \E i \in 1..f : TRUE
      BY <1>1, <2>5
    <3>2. n = flushed \/ \E p \in DOMAIN disk, k \in Keys : n = disk[p][k]
      BY <1>3, <2>1, <3>1
    <3>3. n \in Nat /\ n <= flushed
      BY <1>1, <1>5, <3>2
    <3>4. QED
      BY <1>1, <2>3, <2>5, <3>3
  <2>6. QED
    BY <2>4, <2>5
\* ... is not before the flush, and the writes up to it stay as they were.
<1>7. n \in flushed..N
  <2>1. CASE f > 0
    BY <1>1, <1>4, <1>6, <2>1
  <2>2. CASE ~(f > 0)
    BY <1>1, <1>6, <2>2
  <2>3. QED
    BY <2>1, <2>2
<1>8. Len(history') = n /\ \A i \in 1..n : history'[i] = history[i]
  <2>1. \A i \in 1..n : history[i] \in [key : Keys, value : Stored]
    <3>1. \A i \in 1..N : history[i] \in [key : Keys, value : Stored]
      BY ElementOfSeq DEF EngineTypeOK, DataTypeOK, N
    <3>2. QED
      BY <1>1, <1>7, <3>1
  <2>2. n \in Int /\ 1 \in Int /\ n \in Nat
    BY <1>1, <1>7
  <2>3. /\ Len(SubSeq(history, 1, n)) = IF 1 <= n THEN n - 1 + 1 ELSE 0
        /\ \A i \in 1..n - 1 + 1 : SubSeq(history, 1, n)[i] = history[1 + i - 1]
    BY <2>1, <2>2, SubSeqProperties
  <2>4. (IF 1 <= n THEN n - 1 + 1 ELSE 0) = n
    BY <2>2
  <2>5. \A i \in 1..n : i \in 1..n - 1 + 1 /\ 1 + i - 1 = i
    BY <2>2
  <2>6. QED
    BY <1>3, <2>3, <2>4, <2>5
<1>9. MemSound' /\ MemCovers'
  BY <1>2 DEF MemSound, MemCovers, NoRun, Serving
<1>10. FilesSound'
  BY <1>1, <1>2, <1>5, <1>7, <1>8 DEF Content, Held, FilesSound
<1>11. FilesCover(0)'
  <2>1. \A i \in 0 + 1 .. flushed : history'[i] = history[i]
    BY <1>1, <1>7, <1>8
  <2>2. QED
    BY <1>2, <2>1 DEF Content, Held, FilesCover
<1>12. Log'
  <2>1. Len(walBuf') = 0 /\ Len(walFile') = f /\ Len(history') = n /\ flushed' = flushed
    BY <1>2, <1>8, EmptySeq DEF f
  <2>2. \A i \in 1..f : walFile'[i] = n - 0 - f + i
    <3>1. CASE f > 0
      BY <1>1, <1>2, <1>4, <1>6, <3>1
    <3>2. CASE ~(f > 0)
      BY <1>1, <3>2
    <3>3. QED
      BY <3>1, <3>2
  <2>3. n - 0 - f <= flushed /\ n - 0 >= flushed
    <3>1. CASE f > 0
      BY <1>1, <1>4, <1>6, <1>7, <3>1
    <3>2. CASE ~(f > 0)
      BY <1>1, <1>6, <1>7, <3>2
    <3>3. QED
      BY <3>1, <3>2
  <2>4. \A i \in 1..0 : FALSE
    OBVIOUS
  <2>5. /\ \A i \in 1..Len(walFile') : walFile'[i] = Len(history') - Len(walBuf') - Len(walFile') + i
        /\ \A i \in 1..Len(walBuf') : walBuf'[i] = Len(history') - Len(walBuf') + i
        /\ Len(history') - Len(walBuf') - Len(walFile') <= flushed'
        /\ Len(history') - Len(walBuf') >= flushed'
    BY <2>1, <2>2, <2>3, <2>4
  <2>6. QED
    BY <1>2, <2>1, <2>5 DEF Log, Numbered, Serving
<1>13. QED
  BY <1>9, <1>10, <1>11, <1>12 DEF Content, Held

\* Replaying one line of the log.
LEMMA ReplayContent ==
    ASSUME EngineTypeOK, Content, Replay
    PROVE  Content'
<1> DEFINE N == Len(history)
           f == Len(walFile)
           n == walFile[replayed + 1]
           key == history[n].key
<1>1. /\ pc = "replay" /\ pc' = "replay" /\ replayed < f
      /\ mem' = [mem EXCEPT ![key] = n] /\ replayed' = replayed + 1
      /\ UNCHANGED <<disk, history, flushed, walFile, walBuf>>
  BY DEF Replay, auxVars, walVars
<1>2. /\ N \in Nat /\ f \in Nat /\ replayed \in 0..f /\ Len(walBuf) \in Nat
      /\ \A k \in Keys : mem[k] \in 0..N
      /\ \A i \in 1..f : walFile[i] \in 1..N
      /\ \A i \in 1..N : history[i].key \in Keys
  BY NumberFacts
<1>3. \A i \in 1..f : walFile[i] = N - f + i
  <2>1. Len(walBuf) = 0 /\ \A i \in 1..f : walFile[i] = N - Len(walBuf) - f + i
    BY <1>1 DEF Content, Log, Numbered, Serving
  <2>2. QED
    BY <1>2, <2>1
<1>4. replayed + 1 \in 1..f /\ n \in 1..N /\ key \in Keys
  BY <1>1, <1>2
<1>5. Seen' = n /\ Seen = IF replayed = 0 THEN 0 ELSE n - 1
  <2>1. Seen' = walFile[replayed + 1]
    BY <1>1, <1>2 DEF Seen
  <2>2. Seen = IF replayed = 0 THEN 0 ELSE walFile[replayed]
    BY <1>1 DEF Seen
  <2>3. replayed # 0 => walFile[replayed] = n - 1
    BY <1>2, <1>3, <1>4
  <2>4. QED
    BY <2>1, <2>2, <2>3
<1>6. mem'[key] = n /\ \A j \in Keys : j # key => mem'[j] = mem[j]
  <2>1. DOMAIN mem = Keys
    BY DEF EngineTypeOK, DataTypeOK
  <2> HIDE DEF key, n
  <2>2. QED
    BY <1>1, <1>4, <2>1
<1>7. \A k \in Keys : mem[k] # 0 =>
         /\ mem[k] <= Seen
         /\ history[mem[k]].key = k
         /\ \A i \in mem[k] + 1 .. Seen : history[i].key # k
  BY DEF Content, Held, MemSound
<1>8. \A i \in 1..replayed : mem[history[walFile[i]].key] >= walFile[i]
  BY <1>1 DEF Content, Held, MemCovers
<1>9. history[n].key = key
  OBVIOUS
<1> HIDE DEF N, f, n, key
<1>10. MemSound'
  <2> SUFFICES ASSUME NEW j \in Keys, mem'[j] # 0
               PROVE  /\ mem'[j] <= Seen'
                      /\ history'[mem'[j]].key = j
                      /\ \A i \in mem'[j] + 1 .. Seen' : history'[i].key # j
    BY DEF MemSound
  <2>1. CASE j = key
    BY <1>1, <1>2, <1>4, <1>5, <1>6, <1>9, <2>1
  <2>2. CASE j # key
    <3>1. mem'[j] = mem[j] /\ mem[j] \in 1..N /\ mem[j] <= Seen
      BY <1>2, <1>6, <1>7, <2>2
    <3>2. Seen = n - 1
      BY <1>2, <1>5, <3>1
    <3>3. \A i \in mem[j] + 1 .. n : i \in mem[j] + 1 .. n - 1 \/ i = n
      BY <1>2, <1>4, <3>1
    <3>4. QED
      BY <1>1, <1>4, <1>5, <1>7, <1>9, <2>2, <3>1, <3>2, <3>3
  <2>3. QED
    BY <2>1, <2>2
<1>11. MemCovers'
  <2>1. \A i \in 1..replayed + 1 : mem'[history[walFile[i]].key] >= walFile[i]
    <3> TAKE i \in 1..replayed + 1
    <3>1. CASE i = replayed + 1
      BY <1>4, <1>6, <1>9, <3>1 DEF n
    <3>2. CASE i # replayed + 1
      <4>1. i \in 1..replayed /\ i \in 1..f
        BY <1>2, <1>4, <3>2
      <4>2. mem[history[walFile[i]].key] >= walFile[i] /\ history[walFile[i]].key \in Keys
        BY <1>2, <1>8, <4>1
      <4>3. walFile[i] <= n
        <5>1. walFile[i] = N - f + i /\ n = N - f + (replayed + 1) /\ i \in Int
          BY <1>3, <1>4, <4>1 DEF n
        <5>2. QED
          BY <1>2, <4>1, <5>1
      <4>4. QED
        BY <1>6, <4>2, <4>3
    <3>3. QED
      BY <3>1, <3>2
  <2>2. QED
    BY <1>1, <2>1 DEF MemCovers, Serving
<1>12. FilesSound' /\ FilesCover(0)'
  BY <1>1 DEF Content, Held, FilesSound, FilesCover
<1>13. Log'
  BY <1>1 DEF Content, Log, Numbered, Serving
<1>14. QED
  BY <1>10, <1>11, <1>12, <1>13 DEF Content, Held

\* When the log has been replayed, the memtable reflects all writes.
LEMMA RestoreContent ==
    ASSUME EngineTypeOK, Content, RestoreSegments
    PROVE  Content'
<1> DEFINE N == Len(history)
           f == Len(walFile)
<1>1. /\ pc = "replay" /\ pc' = "ready" /\ replayed = f
      /\ UNCHANGED <<mem, disk, history, flushed, walFile, walBuf>>
  BY DEF RestoreSegments, auxVars, walVars
<1>2. /\ N \in Nat /\ f \in Nat /\ Len(walBuf) \in Nat /\ flushed \in 0..N
      /\ \A k \in Keys : mem[k] \in 0..N
  BY NumberFacts
<1>3. /\ Len(walBuf) = 0 /\ N - f <= flushed
      /\ \A i \in 1..f : walFile[i] = N - f + i
  <2>1. /\ Len(walBuf) = 0 /\ N - Len(walBuf) - f <= flushed
        /\ \A i \in 1..f : walFile[i] = N - Len(walBuf) - f + i
    BY <1>1 DEF Content, Log, Numbered, Serving
  <2>2. QED
    BY <1>2, <2>1
<1>4. Seen' = N /\ Seen = IF f = 0 THEN 0 ELSE N
  <2>1. Seen' = N /\ Seen = IF f = 0 THEN 0 ELSE walFile[f]
    BY <1>1 DEF Seen
  <2>2. f # 0 => walFile[f] = N
    BY <1>2, <1>3
  <2>3. QED
    BY <2>1, <2>2
<1> HIDE DEF N, f
<1>5. MemSound'
  <2>1. CASE f = 0
    <3>1. \A k \in Keys : mem[k] = 0
      BY <1>2, <1>4, <2>1 DEF Content, Held, MemSound
    <3>2. QED
      BY <1>1, <3>1 DEF MemSound
  <2>2. CASE f # 0
    BY <1>1, <1>4, <2>2 DEF Content, Held, MemSound
  <2>3. QED
    BY <2>1, <2>2
<1>6. MemCovers'
  <2>1. ASSUME NEW n \in flushed + 1 .. N PROVE mem[history[n].key] >= n
    <3>1. n - (N - f) \in 1..f /\ N - f + (n - (N - f)) = n
      BY <1>2, <1>3
    <3>2. walFile[n - (N - f)] = n
      BY <1>3, <3>1
    <3>3. \A i \in 1..f : mem[history[walFile[i]].key] >= walFile[i]
      BY <1>1 DEF Content, Held, MemCovers
    <3>4. QED
      BY <3>1, <3>2, <3>3
  <2>2. QED
    BY <1>1, <2>1 DEF MemCovers, N
<1>7. FilesSound' /\ FilesCover(0)'
  BY <1>1 DEF Content, Held, FilesSound, FilesCover
<1>8. Log'
  BY <1>1 DEF Content, Log, Numbered, Serving
<1>9. QED
  BY <1>5, <1>6, <1>7, <1>8 DEF Content, Held

----------------------------------------------------------------------------
\* The initial state: nothing anywhere.
LEMMA InitIInv == Init => Layout /\ Content
<1> SUFFICES ASSUME Init PROVE Layout /\ Content
  OBVIOUS
<1>1. /\ walFile = << >> /\ walBuf = << >> /\ history = << >> /\ Len(<< >>) = 0
      /\ mem = NoRun /\ DOMAIN disk = {} /\ pc = "ready" /\ merging = << >> /\ flushed = 0
      /\ \A l \in Levels : segments[l] = << >>
  BY EmptySeq DEF Init, WalInit
<1>2. /\ \A i \in 1..0 : FALSE
      /\ \A i \in 0 + 1 .. 0 : FALSE
  OBVIOUS
<1>3. Live = {}
  BY <1>1 DEF Live
<1>4. Listed
  BY <1>1, <1>2, <1>3 DEF Listed, IsListing
<1>5. Layout
  BY <1>1, <1>3, <1>4
  DEF Layout, FilesOrdered, FreshIds, LevelOrder, Shape, Compacted, Merging
<1>6. Content
  BY <1>1, <1>2
  DEF Content, Held, MemSound, MemCovers, FilesSound, FilesCover, Log, Numbered, NoRun, Serving
<1>7. QED
  BY <1>5, <1>6

\* Every step keeps the invariant.
\* Every step keeps the order of the files, if no flush meets a file that is newer
\* than the memtable.
LEMMA LayoutStep ==
    ASSUME EngineTypeOK, Layout, Work,
           Serving => \A p \in DOMAIN disk, k \in Keys :
                         disk[p][k] # 0 /\ mem[k] # 0 => disk[p][k] <= mem[k]
    PROVE  Layout'
<1>1. ASSUME NEW k \in Keys, NEW v, PutFits(k, v) PROVE Layout'
  <2>1. /\ pc = "ready" /\ pc' = "ready" /\ merging = << >>
        /\ UNCHANGED <<disk, segments, segment_i, lvl, merging>>
    BY <1>1 DEF PutFits, ctlVars, EngineTypeOK, ControlTypeOK
  <2>2. Compacted'
    BY <2>1 DEF Compacted
  <2>3. QED
    BY <2>1, <2>2, LayoutKept DEF Serving
<1>2. ASSUME NEW k \in Keys, NEW v, PutFull(k, v) PROVE Layout'
  <2>1. /\ pc = "ready" /\ pc' = "compact" /\ merging = << >> /\ lvl' = 0
        /\ UNCHANGED <<disk, segments, segment_i, merging>>
    BY <1>2 DEF PutFull, treeVars, EngineTypeOK, ControlTypeOK
  <2>2. Live' = Live /\ \A p \in Live : Level(p) \in Nat
    BY <2>1, PathFacts DEF Live, Doomed
  <2>3. Compacted'
    BY <2>1, <2>2 DEF Compacted
  <2>4. QED
    BY <2>1, <2>3, LayoutKept DEF Serving
<1>3. ASSUME Die, pc \in {"ready", "compact", "flush", "append", "replay"} PROVE Layout'
  <2>1. /\ merging = << >> /\ pc' = "down" /\ UNCHANGED <<disk, merging>>
    BY <1>3 DEF Die, DieLeaving, EngineTypeOK, ControlTypeOK
  <2>2. Compacted'
    BY <2>1 DEF Compacted
  <2>3. QED
    BY <2>1, <2>2, LayoutKept DEF Serving
<1>4. CASE IdsLeft /\ CompactMerge
  BY <1>4, MergeLayout
<1>5. CASE CompactDeleteA
  BY <1>5, DeleteALayout
<1>6. CASE CompactDeleteB
  BY <1>6, DeleteBLayout
<1>7. CASE CompactNext
  BY <1>7, NextLayout
<1>8. CASE IdsLeft /\ Flush
  BY <1>8, FlushLayout DEF Flush, Serving
<1>9. CASE ClearLog \/ PutEnds
  <2>1. /\ pc \in {"clear", "append"} /\ pc' \in {"append", "ready"} /\ merging = << >>
        /\ UNCHANGED <<disk, segments, segment_i, merging>>
    BY <1>9 DEF ClearLog, PutEnds, treeVars, EngineTypeOK, ControlTypeOK
  <2>2. Compacted'
    BY <2>1 DEF Compacted
  <2>3. QED
    BY <2>1, <2>2, LayoutKept DEF Serving
<1>10. CASE Restart \/ Replay
  <2>1. /\ pc \in {"down", "replay"} /\ pc' = "replay" /\ merging = << >>
        /\ UNCHANGED <<disk, merging>>
    BY <1>10 DEF Restart, Replay, Down, treeVars, EngineTypeOK, ControlTypeOK
  <2>2. Compacted'
    BY <2>1 DEF Compacted
  <2>3. QED
    BY <2>1, <2>2, LayoutKept DEF Serving
<1>11. CASE RestoreSegments
  BY <1>11, RestoreLayout
<1>12. QED
  BY <1>1, <1>2, <1>3, <1>4, <1>5, <1>6, <1>7, <1>8, <1>9, <1>10, <1>11
  DEF Work, Put, Remove, PutAborts, Crash

LEMMA ContentStep ==
    ASSUME EngineTypeOK, Layout, Content, Work
    PROVE  Content'
<1>1. ASSUME NEW k \in Keys, NEW v \in Values \cup {Tombstone}, PutFits(k, v) PROVE Content'
  <2>1. pc = "ready" /\ pc' = "ready" /\ LogAndInsert(k, v) /\ UNCHANGED <<disk, flushed>>
    BY <1>1 DEF PutFits, ctlVars
  <2>2. QED
    BY <2>1, LogAndInsertContent DEF Serving
<1>2. ASSUME NEW k \in Keys, NEW v, PutFull(k, v) PROVE Content'
  <2>1. /\ pc = "ready" /\ pc' = "compact"
        /\ UNCHANGED <<mem, disk, history, flushed, walFile, walBuf>>
    BY <1>2 DEF PutFull, treeVars, auxVars, walVars
  <2>2. QED
    BY <2>1, SameFilesKept, ContentKept DEF Serving
<1>3. ASSUME Die, pc \in {"ready", "compact", "flush", "append", "replay"} PROVE Content'
  BY <1>3, DieContent
<1>4. CASE CompactMerge \/ CompactDeleteA \/ CompactDeleteB
  BY <1>4, CompactContent
<1>5. CASE CompactNext
  <2>1. /\ pc = "compact" /\ pc' \in {"compact", "flush"}
        /\ UNCHANGED <<mem, disk, history, flushed, walFile, walBuf>>
    BY <1>5 DEF CompactNext, treeVars, auxVars, walVars
  <2>2. QED
    BY <2>1, SameFilesKept, ContentKept DEF Serving
<1>6. CASE Flush
  BY <1>6, FlushContent
<1>7. CASE ClearLog
  BY <1>7, ClearContent
<1>8. CASE PutEnds
  <2>1. /\ pc = "append" /\ pc' = "ready"
        /\ pending \in Keys \X (Values \cup {Tombstone})
        /\ LogAndInsert(pending[1], pending[2])
        /\ UNCHANGED <<disk, flushed>>
    BY <1>8 DEF PutEnds, EngineTypeOK, ControlTypeOK, Serving
  <2>2. QED
    BY <2>1, LogAndInsertContent DEF Serving
<1>9. CASE Restart
  <2>1. /\ pc = "down" /\ pc' = "replay" /\ replayed = 0
        /\ UNCHANGED <<mem, disk, history, flushed, walFile, walBuf, replayed>>
    BY <1>9 DEF Restart, Down, treeVars, auxVars, walVars, EngineTypeOK, ControlTypeOK
  <2>2. Seen' = Seen /\ \A i \in 1..0 : FALSE
    BY <2>1 DEF Seen
  <2>3. QED
    BY <2>1, <2>2
    DEF Content, Held, MemSound, MemCovers, FilesSound, FilesCover, Log, Numbered, Serving
<1>10. CASE Replay
  BY <1>10, ReplayContent
<1>11. CASE RestoreSegments
  BY <1>11, RestoreContent
<1>12. QED
  BY <1>1, <1>2, <1>3, <1>4, <1>5, <1>6, <1>7, <1>8, <1>9, <1>10, <1>11
  DEF Work, Put, Remove, PutAborts, Crash

\* No step of the engine, as long as there was no kill in a window, tears apart what
\* Layout and Content hold together.
LEMMA WholeStep ==
    ASSUME Whole, [Work]_workVars
    PROVE  Layout' /\ Content'
<1>1. EngineTypeOK /\ Layout /\ Content
  BY DEF Whole
<1>2. CASE Work
  <2>1. Serving => \A p \in DOMAIN disk, k \in Keys :
                      disk[p][k] # 0 /\ mem[k] # 0 => disk[p][k] <= mem[k]
    BY <1>1, MemIsNewer DEF Content
  <2>2. QED
    BY <1>1, <1>2, <2>1, LayoutStep, ContentStep
<1>3. CASE UNCHANGED workVars
  <2>1. Live' = Live /\ Unlisted' = Unlisted /\ Seen' = Seen /\ Serving' = Serving
    BY <1>3 DEF workVars, treeVars, ctlVars, auxVars, walVars, Live, Doomed, Unlisted, Seen, Serving
  <2>2. \A l \in Levels : Files(l)' = Files(l)
    BY <1>3 DEF workVars, treeVars, Files
  <2>3. Listed'
    BY <1>1, <1>3, <2>1, <2>2 DEF workVars, treeVars, Layout, Listed, IsListing
  <2>4. Layout'
    BY <1>1, <1>3, <2>1, <2>3
    DEF workVars, treeVars, ctlVars, Layout, FilesOrdered, FreshIds, LevelOrder, Shape, Compacted,
        Merging, Doomed
  <2>5. Content'
    BY <1>1, <1>3, <2>1
    DEF workVars, treeVars, ctlVars, auxVars, walVars, Content, Held, MemSound, MemCovers, FilesSound,
        FilesCover, Log
  <2>6. QED
    BY <2>4, <2>5
<1>4. QED
  BY <1>2, <1>3

----------------------------------------------------------------------------
(* Entries under their keys: what outlasts a kill in a window *)

\* What stays in memtable and files stays under its key, when the writes that it
\* refers to stay.
LEMMA OwnedKept ==
    ASSUME EngineTypeOK, Owned, EngineTypeOK',
           \A n \in 1..Len(history) : n <= Len(history') => history'[n] = history[n],
           \A k \in Keys : mem'[k] # 0 =>
              mem'[k] = mem[k] \/ (\E q \in DOMAIN disk : mem'[k] = disk[q][k]) \/ history'[mem'[k]].key = k,
           \A p \in DOMAIN disk', k \in Keys : disk'[p][k] # 0 =>
              disk'[p][k] = mem[k] \/ \E q \in DOMAIN disk : disk'[p][k] = disk[q][k]
    PROVE  Owned'
<1>1. /\ Len(history) \in Nat /\ Len(history') \in Nat
      /\ \A k \in Keys : mem[k] \in 0..Len(history) /\ mem'[k] \in 0..Len(history')
      /\ \A p \in DOMAIN disk, k \in Keys : disk[p][k] \in 0..Len(history)
      /\ \A p \in DOMAIN disk', k \in Keys : disk'[p][k] \in 0..Len(history')
  BY LenProperties DEF EngineTypeOK, DataTypeOK, Version
<1>2. ASSUME NEW k \in Keys, NEW n \in 0..Len(history'), n # 0,
             n = mem[k] \/ \E q \in DOMAIN disk : n = disk[q][k]
      PROVE  history'[n].key = k
  <2>1. n \in 1..Len(history) /\ history[n].key = k
    BY <1>1, <1>2 DEF Owned
  <2>2. history'[n] = history[n]
    BY <1>1, <2>1
  <2>3. QED
    BY <2>1, <2>2
<1>3. QED
  BY <1>1, <1>2 DEF Owned

\* A death takes writes off the end.
LEMMA DieTakesLast ==
    ASSUME DataTypeOK, NEW files, FilesTypeOK(files), DieLeaving(files)
    PROVE  \E n \in 0..Len(history) :
              /\ history' = SubSeq(history, 1, n)
              /\ Len(history') = n
              /\ \A i \in 1..n : history'[i] = history[i]
<1>1. PICK n \in Surviving(files) : history' = SubSeq(history, 1, n)
  BY DEF DieLeaving
<1>2. n \in 0..Len(history)
  <2>1. \A i \in DOMAIN walFile : walFile[i] \in 0..Len(history)
    BY ElementOfSeq, LenProperties DEF DataTypeOK
  <2>2. \A p \in DOMAIN files, k \in Keys : files[p][k] \in 0..Len(history)
    BY DEF FilesTypeOK, Version
  <2>3. flushed \in 0..Len(history)
    BY DEF DataTypeOK
  <2>4. QED
    BY <2>1, <2>2, <2>3 DEF Surviving
<1>3. Len(history) \in Nat /\ history \in Seq([key : Keys, value : Stored])
  BY LenProperties DEF DataTypeOK
<1>4. Len(history') = n /\ \A i \in 1..n : history'[i] = history[i]
  BY <1>1, <1>2, <1>3
<1>5. QED
  BY <1>1, <1>2, <1>4

LEMMA DeathOwned ==
    ASSUME EngineTypeOK, Owned, EngineTypeOK', NEW files, FilesTypeOK(files), DieLeaving(files),
           \A p \in DOMAIN files, k \in Keys : files[p][k] # 0 =>
              files[p][k] = mem[k] \/ \E q \in DOMAIN disk : files[p][k] = disk[q][k]
    PROVE  Owned'
<1>1. \A n \in 1..Len(history) : n <= Len(history') => history'[n] = history[n]
  BY DieTakesLast DEF EngineTypeOK
<1>2. disk' = files /\ \A k \in Keys : mem'[k] = 0
  BY DEF DieLeaving, NoRun
<1>3. QED
  BY <1>1, <1>2, OwnedKept

LEMMA LogAndInsertOwned ==
    ASSUME EngineTypeOK, Owned, EngineTypeOK', UNCHANGED disk,
           NEW k \in Keys, NEW v, LogAndInsert(k, v)
    PROVE  Owned'
<1> DEFINE n == Len(history) + 1
<1>1. /\ history' = Append(history, [key |-> k, value |-> FinalValue(v)])
      /\ mem' = [mem EXCEPT ![k] = n]
      /\ history \in Seq([key : Keys, value : Stored]) /\ Len(history) \in Nat
      /\ mem \in [Keys -> Version]
  BY LenProperties DEF LogAndInsert, EngineTypeOK, DataTypeOK
<1>2. \A i \in 1..Len(history) : history'[i] = history[i]
  BY <1>1
<1>3. history'[n].key = k
  BY <1>1
<1>4. \A j \in Keys : mem'[j] = mem[j] \/ (j = k /\ mem'[j] = n)
  BY <1>1
<1> HIDE DEF n
<1>5. QED
  BY <1>2, <1>3, <1>4, OwnedKept

LEMMA OwnedStep ==
    ASSUME EngineTypeOK, Owned, [Work]_workVars
    PROVE  Owned'
<1>1. EngineTypeOK'
  BY TypeStep
<1>2. CASE UNCHANGED <<mem, disk, history>>
  BY <1>1, <1>2, OwnedKept
<1>3. ASSUME NEW k \in Keys, NEW v \in Values \cup {Tombstone}, Put(k, v) PROVE Owned'
  <2>1. CASE PutFits(k, v)
    BY <1>1, <2>1, LogAndInsertOwned DEF PutFits
  <2>2. CASE PutFull(k, v)
    BY <1>2, <2>2 DEF PutFull, treeVars, auxVars
  <2>3. CASE PutAborts(k, v)
    BY <1>1, <2>3, DeathOwned DEF PutAborts, Die, EngineTypeOK, DataTypeOK, FilesTypeOK
  <2>4. QED
    BY <1>3, <2>1, <2>2, <2>3 DEF Put
<1>4. CASE CompactMerge
  <2> DEFINE n == Len(segments[lvl])
             a == segments[lvl][n]
             b == segments[lvl][n - 1]
             run == MergedRun(a, b)
             m == NewPath(lvl + 1)
  <2>1. disk' = WriteFile(m, run) /\ UNCHANGED <<mem, history>>
    BY <1>4 DEF CompactMerge, auxVars
  <2>2. \A k \in Keys : run[k] # 0 => \E q \in DOMAIN disk : run[k] = disk[q][k]
    BY MergedFrom DEF EngineTypeOK
  <2> HIDE DEF run, m
  <2>3. \A p \in DOMAIN disk' : disk'[p] = run \/ (p \in DOMAIN disk /\ disk'[p] = disk[p])
    BY <2>1 DEF WriteFile
  <2>4. QED
    BY <1>1, <2>1, <2>2, <2>3, OwnedKept
<1>5. CASE CompactDeleteA \/ CompactDeleteB
  <2>1. UNCHANGED <<mem, history>> /\ \A p \in DOMAIN disk' : p \in DOMAIN disk /\ disk'[p] = disk[p]
    BY <1>5 DEF CompactDeleteA, CompactDeleteB, DeleteFile, auxVars
  <2>2. QED
    BY <1>1, <2>1, OwnedKept
<1>6. CASE Flush
  <2>1. disk' = WriteFile(NewPath(0), mem) /\ UNCHANGED history /\ \A k \in Keys : mem'[k] = 0
    BY <1>6 DEF Flush, NoRun
  <2>2. \A p \in DOMAIN disk' : disk'[p] = mem \/ (p \in DOMAIN disk /\ disk'[p] = disk[p])
    BY <2>1 DEF WriteFile
  <2>3. QED
    BY <1>1, <2>1, <2>2, OwnedKept
<1>7. CASE PutEnds
  <2>1. pending \in Keys \X (Values \cup {Tombstone})
    BY <1>7 DEF PutEnds, EngineTypeOK, ControlTypeOK, Serving
  <2>2. QED
    BY <1>1, <1>7, <2>1, LogAndInsertOwned DEF PutEnds
<1>8. CASE Crash
  BY <1>1, <1>8, DeathOwned DEF Crash, Die, EngineTypeOK, DataTypeOK, FilesTypeOK
<1>9. CASE Replay
  <2> DEFINE n == walFile[replayed + 1]
  <2>1. /\ mem' = [mem EXCEPT ![history[n].key] = n]
        /\ UNCHANGED <<disk, history>> /\ mem \in [Keys -> Version]
    BY <1>9 DEF Replay, auxVars, EngineTypeOK, DataTypeOK
  <2>2. \A k \in Keys : mem'[k] = mem[k] \/ (k = history[n].key /\ mem'[k] = n)
    BY <2>1
  <2> HIDE DEF n
  <2>3. QED
    BY <1>1, <2>1, <2>2, OwnedKept
<1>10. CASE CompactNext \/ ClearLog \/ Restart \/ RestoreSegments \/ UNCHANGED workVars
  BY <1>2, <1>10
  DEF CompactNext, ClearLog, Restart, RestoreSegments, workVars, treeVars, auxVars
<1>11. QED
  BY <1>3, <1>4, <1>5, <1>6, <1>7, <1>8, <1>9, <1>10 DEF Work, Remove

LEMMA KillOwned ==
    ASSUME EngineTypeOK, Owned, KillInPut
    PROVE  Owned'
BY KillLeaves, KillType, DeathOwned DEF EngineTypeOK

----------------------------------------------------------------------------
\* Every step keeps the invariant.
LEMMA Step == IInv /\ [Next]_vars => IInv'
<1> SUFFICES ASSUME IInv, [Next]_vars PROVE IInv'
  OBVIOUS
<1>1. EngineTypeOK /\ DataTypeOK /\ Owned /\ kills \in 0..MaxKills /\ (kills = 0 => Whole)
  BY DEF IInv, TypeOK, EngineTypeOK, Whole
<1>2. CASE [Work]_workVars /\ kills' = kills
  <2>1. EngineTypeOK' /\ Owned'
    BY <1>1, <1>2, TypeStep, OwnedStep
  <2>2. kills' = 0 => Layout' /\ Content'
    BY <1>1, <1>2, WholeStep
  <2>3. QED
    BY <1>1, <1>2, <2>1, <2>2 DEF IInv, TypeOK
<1>3. CASE Killed(KillInPut) /\ KillInPut
  <2>1. EngineTypeOK' /\ Owned'
    BY <1>1, <1>3, KillType, KillOwned
  <2>2. kills' \in 0..MaxKills /\ kills' # 0
    BY <1>1, <1>3, BoundsAssumption DEF Killed
  <2>3. QED
    BY <2>1, <2>2 DEF IInv, TypeOK
<1>4. QED
  BY <1>2, <1>3, WorkOrKill

LEMMA InitHolds == Init => IInv
<1> SUFFICES ASSUME Init PROVE IInv
  OBVIOUS
<1>1. DOMAIN disk = {} /\ \A k \in Keys : mem[k] = 0
  BY DEF Init, NoRun
<1>2. QED
  BY <1>1, InitType, InitIInv, BoundsAssumption DEF IInv, TypeOK, Owned, Init

\* The inductive invariant holds throughout: entries stay under their keys; and as
\* long as no process is killed in a window, ids tell the age of entries, the lists
\* are the files, log and memtable are the writes since the last flush.
THEOREM Inductive == Spec => []IInv
<1>1. Init => IInv
  BY InitHolds
<1>2. IInv /\ [Next]_vars => IInv'
  BY Step
<1>3. QED
  BY <1>1, <1>2, PTL DEF Spec

LEMMA Unkilled == IInv /\ kills = 0 => Whole
BY DEF IInv, TypeOK, Whole

----------------------------------------------------------------------------
(* Reading *)

\* A version in the memtable is the latest.
LEMMA MemLatest ==
    ASSUME EngineTypeOK, NEW d \in Nat, Held(d), Serving, NEW k \in Keys, mem[k] # 0
    PROVE  IsLatest(mem[k], k, Len(history))
<1>1. mem[k] \in 0..Len(history) /\ Seen = Len(history)
  BY NumberFacts DEF Seen, Serving
<1>2. QED
  BY <1>1 DEF Held, MemSound, IsLatest

\* What is not in the memtable is on disk, in that version or a later one.
LEMMA CoveredOnDisk ==
    ASSUME EngineTypeOK, NEW d \in Nat, Held(d), Serving, NEW k \in Keys, mem[k] = 0,
           NEW n \in d + 1 .. Len(history), history[n].key = k
    PROVE  \E q \in DOMAIN disk : disk[q][k] >= n
<1>1. Len(history) \in Nat /\ flushed \in 0..Len(history)
  BY NumberFacts
<1>2. CASE n > flushed
  <2>1. n \in flushed + 1 .. Len(history)
    BY <1>1, <1>2
  <2>2. mem[k] >= n
    BY <2>1 DEF Held, MemCovers
  <2>3. QED
    BY <1>1, <2>1, <2>2
<1>3. CASE ~(n > flushed)
  <2>1. n \in d + 1 .. flushed
    BY <1>1, <1>3
  <2>2. QED
    BY <2>1 DEF Held, FilesCover
<1>4. QED
  BY <1>2, <1>3

\* The file with the largest id of those that hold a key holds its latest
\* version, if the memtable does not hold the key.
LEMMA NewestLatest ==
    ASSUME EngineTypeOK, FreshIds, FilesOrdered, NEW d \in Nat, Held(d), Serving,
           NEW k \in Keys, mem[k] = 0,
           NEW p \in HoldersOf(k), \A q \in HoldersOf(k) : Id(q) <= Id(p), disk[p][k] > d
    PROVE  IsLatest(disk[p][k], k, Len(history))
<1> DEFINE v == disk[p][k]
<1>1. p \in DOMAIN disk /\ v # 0
  BY DEF HoldersOf
<1>2. v \in 0..Len(history) /\ Len(history) \in Nat
  BY <1>1, NumberFacts
<1>3. history[v].key = k
  BY <1>1 DEF Held, FilesSound
<1>4. ASSUME NEW n \in v + 1 .. Len(history), history[n].key = k PROVE FALSE
  <2>1. n \in d + 1 .. Len(history) /\ n > v
    BY <1>2
  <2>2. PICK q \in DOMAIN disk : disk[q][k] >= n
    BY <1>4, <2>1, CoveredOnDisk
  <2>3. disk[q][k] \in 0..Len(history) /\ disk[q][k] > v /\ disk[q][k] # 0
    BY <1>2, <2>1, <2>2, NumberFacts
  <2>4. Id(q) <= Id(p)
    BY <2>3 DEF HoldersOf
  <2>5. q # p
    BY <1>2, <2>3
  <2>6. Id(q) < Id(p)
    BY <1>1, <2>4, <2>5, PathFacts DEF FreshIds
  <2>7. disk[q][k] <= v
    BY <1>1, <2>3, <2>6 DEF FilesOrdered
  <2>8. QED
    BY <1>2, <2>3, <2>7
<1>5. QED
  BY <1>2, <1>3, <1>4 DEF IsLatest

\* The same of all writes, as long as no process was killed in a window.
LEMMA AllHeld ==
    ASSUME Whole
    PROVE  /\ EngineTypeOK /\ FreshIds /\ FilesOrdered /\ Listed /\ Held(0)
           /\ \A k \in Keys : \A p \in HoldersOf(k) : disk[p][k] > 0
<1>1. EngineTypeOK /\ FreshIds /\ FilesOrdered /\ Listed /\ Held(0)
  BY DEF Whole, Layout, Content
<1>2. QED
  BY <1>1, NumberFacts DEF HoldersOf

\* A key that is nowhere was never written.
LEMMA NowhereLatest ==
    ASSUME Whole, Serving, NEW k \in Keys, mem[k] = 0, HoldersOf(k) = {}
    PROVE  IsLatest(0, k, Len(history))
<1>1. Len(history) \in Nat
  BY NumberFacts DEF Whole
<1>2. ASSUME NEW n \in 0 + 1 .. Len(history), history[n].key = k PROVE FALSE
  <2>1. PICK q \in DOMAIN disk : disk[q][k] >= n
    BY <1>1, <1>2, AllHeld, CoveredOnDisk
  <2>2. disk[q][k] # 0
    BY <1>1, <2>1, NumberFacts DEF Whole
  <2>3. QED
    BY <2>2 DEF HoldersOf
<1>3. QED
  BY <1>1, <1>2 DEF IsLatest

\* A set of numbers has a least one.
LEMMA LeastNumber ==
    ASSUME NEW T, T \subseteq Nat, T # {}
    PROVE  \E x \in T : \A y \in T : x <= y
<1>1. IsWellFoundedOn(OpToRel(<, Nat), Nat)
  BY NatLessThanWellFounded
<1>2. PICK x \in T : \A y \in T : ~(<<y, x>> \in OpToRel(<, Nat))
  BY <1>1, WFMin
<1>3. \A y \in T : ~(y < x)
  BY <1>2 DEF OpToRel
<1>4. QED
  BY <1>3

\* Ids are bounded, so of the files that hold a key one has the largest id.
LEMMA NewestExists ==
    ASSUME EngineTypeOK, FreshIds, NEW k \in Keys, HoldersOf(k) # {}
    PROVE  \E p \in HoldersOf(k) : \A q \in HoldersOf(k) : Id(q) <= Id(p)
<1> DEFINE T == {IdWrap - Id(p) : p \in HoldersOf(k)}
<1>1. \A p \in HoldersOf(k) : Id(p) \in Nat /\ Id(p) + 1 < IdWrap
  BY PathFacts DEF HoldersOf, FreshIds
<1>2. IdWrap \in Nat
  BY BoundsAssumption
<1>3. T \subseteq Nat /\ T # {}
  BY <1>1, <1>2
<1>4. PICK x \in T : \A y \in T : x <= y
  <2> HIDE DEF T
  <2>1. QED
    BY <1>3, LeastNumber
<1>5. PICK p \in HoldersOf(k) : x = IdWrap - Id(p)
  BY <1>4
<1>6. \A q \in HoldersOf(k) : IdWrap - Id(p) <= IdWrap - Id(q)
  BY <1>4, <1>5
<1>7. QED
  BY <1>1, <1>2, <1>6

LEMMA ViewLatest == Whole => HoldsLatest
<1> SUFFICES ASSUME Whole, Serving, NEW k \in Keys
             PROVE  IsLatest(View(k), k, Len(history))
  BY DEF HoldsLatest
<1>1. CASE mem[k] # 0
  BY <1>1, AllHeld, MemLatest DEF View
<1>2. CASE mem[k] = 0 /\ HoldersOf(k) = {}
  BY <1>2, NowhereLatest DEF View, OnDisk
<1>3. CASE mem[k] = 0 /\ HoldersOf(k) # {}
  <2> DEFINE p == CHOOSE p \in HoldersOf(k) : \A q \in HoldersOf(k) : Id(q) <= Id(p)
  <2>1. p \in HoldersOf(k) /\ \A q \in HoldersOf(k) : Id(q) <= Id(p)
    BY <1>3, AllHeld, NewestExists
  <2>2. View(k) = disk[p][k]
    BY <1>3 DEF View, OnDisk
  <2> HIDE DEF p
  <2>3. QED
    BY <1>3, <2>1, <2>2, AllHeld, NewestLatest
<1>4. QED
  BY <1>1, <1>2, <1>3

\* Whatever has been flushed, merged, lost and recovered, the engine holds the
\* last of the writes that are left of every key, until a process is killed
\* between a flush and the clearing of the log, between a merge and its deletions,
\* or while a file is being written.
THEOREM HoldsLatestAlways == Spec => []HoldsLatest
<1>1. IInv => HoldsLatest
  BY Unkilled, ViewLatest DEF HoldsLatest
<1>2. QED
  BY <1>1, Inductive, PTL

----------------------------------------------------------------------------
(* The log *)

LEMMA LogTail == Whole => LogIsTail
<1> SUFFICES ASSUME Whole PROVE LogIsTail
  OBVIOUS
<1> DEFINE N == Len(history)
           log == walFile \o walBuf
<1>1. Len(walFile) \in Nat /\ Len(walBuf) \in Nat /\ N \in Nat /\ flushed \in 0..N
  BY NumberFacts DEF Whole
<1>2. /\ Numbered(walFile, N - Len(walBuf)) /\ Numbered(walBuf, N)
      /\ N - Len(walBuf) - Len(walFile) <= flushed
  BY DEF Whole, Content, Log
<1>3. walFile \in Seq(1..N) /\ walBuf \in Seq(1..N)
  BY DEF Whole, EngineTypeOK, DataTypeOK
<1> HIDE DEF N
<1>4. Numbered(log, N) /\ Len(log) = Len(walFile) + Len(walBuf)
  BY <1>1, <1>2, <1>3, ConcatNumbered
<1>5. \A i \in 1..Len(log) : log[i] = N - (Len(log) - i)
  BY <1>1, <1>4 DEF Numbered
<1>6. N - Len(log) <= flushed
  BY <1>1, <1>2, <1>4
<1>7. QED
  BY <1>5, <1>6 DEF LogIsTail, N

\* Every write that is in no segment is in the log or its buffer, in order and
\* without a gap, until a process is killed in a window.
THEOREM LogIsTailAlways == Spec => []LogIsTail
<1>1. IInv => LogIsTail
  BY Unkilled, LogTail DEF LogIsTail
<1>2. QED
  BY <1>1, Inductive, PTL

----------------------------------------------------------------------------
(* The files *)

LEMMA FilesKept ==
    EngineTypeOK /\ FreshIds /\ [Work]_workVars =>
        \A p \in DOMAIN disk \cap DOMAIN disk' : disk'[p] = disk[p]
<1> SUFFICES ASSUME EngineTypeOK, FreshIds, [Work]_workVars, NEW p \in DOMAIN disk \cap DOMAIN disk'
             PROVE  disk'[p] = disk[p]
  OBVIOUS
<1>1. ASSUME NEW l \in Levels, NEW run, Serving, disk' = WriteFile(NewPath(l), run)
      PROVE  disk'[p] = disk[p]
  <2>1. NewPath(l) \notin DOMAIN disk
    BY <1>1, NewPathFacts
  <2>2. p # NewPath(l)
    BY <2>1
  <2>3. disk'[p] = IF p = NewPath(l) THEN run ELSE disk[p]
    <3>1. p \in DOMAIN disk \cup {NewPath(l)}
      OBVIOUS
    <3>2. QED
      BY <1>1, <3>1 DEF WriteFile
  <2>4. QED
    BY <2>2, <2>3
<1>2. CASE CompactMerge
  <2>1. lvl + 1 \in Levels
    <3>1. lvl < MaxLevel
      BY <1>2 DEF CompactMerge
    <3>2. QED
      BY <3>1, PathFacts
  <2> DEFINE n == Len(segments[lvl])
             run == MergedRun(segments[lvl][n], segments[lvl][n - 1])
  <2>2. Serving /\ disk' = WriteFile(NewPath(lvl + 1), run)
    BY <1>2 DEF CompactMerge, Serving
  <2> HIDE DEF run
  <2>3. QED
    BY <1>1, <2>1, <2>2
<1>3. CASE Flush
  BY <1>1, <1>3, PathFacts DEF Flush, Serving
<1>4. CASE CompactDeleteA \/ CompactDeleteB
  BY <1>4 DEF CompactDeleteA, CompactDeleteB, DeleteFile
<1>5. CASE disk' = disk
  BY <1>5
<1>6. QED
  BY <1>2, <1>3, <1>4, <1>5
  DEF Work, Put, Remove, PutFits, PutFull, PutAborts, Die, DieLeaving, CompactNext, ClearLog,
      PutEnds, Crash, Restart, Replay, RestoreSegments, workVars, treeVars

----------------------------------------------------------------------------
(* The lists *)

\* Between two writes the lists hold just the files, each once.
LEMMA ListsAtRest ==
    ASSUME EngineTypeOK, Listed, pc = "ready", NEW l \in Levels
    PROVE  IsListing(segments[l], Files(l)) /\ Len(segments[l]) \in Nat
<1>1. merging = << >> /\ Serving
  BY DEF EngineTypeOK, ControlTypeOK, Serving
<1>2. QED
  BY <1>1, ListedFiles

\* A list that holds each element of a set once is as long as the set is large.
LEMMA ListingSize ==
    ASSUME NEW S, NEW s \in Seq(S), IsListing(s, S)
    PROVE  Cardinality(S) = Len(s)
<1>1. Len(s) \in Nat /\ s \in [1..Len(s) -> S]
  OBVIOUS
<1>2. s \in Bijection(1..Len(s), S)
  BY <1>1 DEF IsListing, Bijection, Injection, Surjection, IsInjective
<1>3. QED
  BY <1>1, <1>2, FS_CountingElements DEF ExistsBijection

LEMMA ListsMatch == EngineTypeOK /\ Listed => ListsMatchDisk
<1> SUFFICES ASSUME EngineTypeOK, Listed, pc = "ready", NEW l \in Levels
             PROVE  /\ {segments[l][i] : i \in DOMAIN segments[l]} = Files(l)
                    /\ Len(segments[l]) = Cardinality(Files(l))
  BY DEF ListsMatchDisk
<1>1. IsListing(segments[l], Files(l))
  BY ListsAtRest
<1>2. segments[l] \in Seq(Paths)
  BY DEF EngineTypeOK, DataTypeOK
<1>3. DOMAIN segments[l] = 1..Len(segments[l])
  BY <1>2
<1>4. segments[l] \in Seq(Files(l))
  BY <1>1, <1>2, <1>3 DEF IsListing
<1>5. QED
  <2>1. Len(segments[l]) = Cardinality(Files(l))
    BY <1>1, <1>4, ListingSize
  <2>2. {segments[l][i] : i \in DOMAIN segments[l]} = Files(l)
    BY <1>1, <1>3 DEF IsListing
  <2>3. QED
    BY <2>1, <2>2

LEMMA Pairs == Whole => AtMostPairs
<1> SUFFICES ASSUME Whole, pc = "ready", NEW l \in Levels \ {MaxLevel}
             PROVE  /\ Len(segments[l]) <= 2
                    /\ l > 0 /\ Len(segments[l]) = 2
                          => \A j \in 0..l - 1 : segments[j] = << >>
  BY DEF AtMostPairs
<1> DEFINE s == segments[l]
<1>1. IsListing(s, Files(l)) /\ Len(s) \in Nat
  BY AllHeld, ListsAtRest
<1>2. l \in 0..MaxLevel /\ MaxLevel \in Nat /\ l < MaxLevel
  BY PathFacts DEF Whole
<1>3. \A p : p \in Live <=> p \in DOMAIN disk
  BY DEF Live, Doomed, Whole, EngineTypeOK, ControlTypeOK
<1>4. \A i \in 1..Len(s) : s[i] \in Live /\ Level(s[i]) = l
  BY <1>1, <1>3 DEF IsListing, Files
<1>5. Len(s) <= 2
  <2> SUFFICES ASSUME Len(s) > 2 PROVE FALSE
    BY <1>1
  <2>1. 1 \in 1..Len(s) /\ 2 \in 1..Len(s) /\ 3 \in 1..Len(s)
    BY <1>1
  <2>2. s[1] # s[2] /\ s[2] # s[3] /\ s[1] # s[3]
    BY <1>1, <2>1 DEF IsListing
  <2>3. QED
    BY <1>2, <1>4, <2>1, <2>2 DEF Whole, Layout, Shape
<1>6. ASSUME l > 0, Len(s) = 2, NEW j \in 0..l - 1 PROVE segments[j] = << >>
  <2>1. s[1] # s[2] /\ 1 \in 1..Len(s) /\ 2 \in 1..Len(s)
    BY <1>1, <1>6 DEF IsListing
  <2>2. j \in Levels /\ j < l
    BY <1>2, <1>6 DEF Levels
  <2>3. \A p \in Live : Level(p) >= l
    BY <1>2, <1>4, <2>1 DEF Whole, Layout, Shape
  <2>4. Files(j) = {}
    BY <1>2, <1>3, <2>2, <2>3 DEF Files
  <2>5. segments[j] \in Seq(Paths) /\ Len(segments[j]) \in Nat
    BY <2>2 DEF Whole, EngineTypeOK, DataTypeOK
  <2>6. ~(1 \in 1..Len(segments[j]))
    BY <2>2, <2>4, AllHeld, ListsAtRest DEF IsListing
  <2>7. QED
    BY <2>5, <2>6
<1>7. QED
  BY <1>5, <1>6

\* Levels never fill up: between two writes each has two segments at most, until a
\* process is killed in a window.
THEOREM AtMostPairsAlways == Spec => []AtMostPairs
<1>1. IInv => AtMostPairs
  BY Unkilled, Pairs DEF AtMostPairs
<1>2. QED
  BY <1>1, Inductive, PTL

----------------------------------------------------------------------------
(* What a reader finds *)

\* The positions in the lists at which a file is that holds the key.
Positions(k) ==
    {q \in UNION {{l} \X (1..Len(segments[l])) : l \in Levels} :
        Search(segments[q[1]][q[2]], k) # 0}

\* At rest they are the positions of the holders.
LEMMA PositionsAreHolders ==
    ASSUME Whole, pc = "ready", NEW k \in Keys
    PROVE  /\ \A q \in Positions(k) :
                 LET p == segments[q[1]][q[2]]
                 IN  /\ q[1] \in Levels /\ q[2] \in 1..Len(segments[q[1]])
                     /\ p \in HoldersOf(k) /\ Level(p) = q[1] /\ Search(p, k) = disk[p][k]
           /\ \A p \in HoldersOf(k) : \E q \in Positions(k) : segments[q[1]][q[2]] = p
<1>1. ASSUME NEW q \in Positions(k)
      PROVE  LET p == segments[q[1]][q[2]]
             IN  /\ q[1] \in Levels /\ q[2] \in 1..Len(segments[q[1]])
                 /\ p \in HoldersOf(k) /\ Level(p) = q[1] /\ Search(p, k) = disk[p][k]
  <2>1. q[1] \in Levels /\ q[2] \in 1..Len(segments[q[1]])
    BY DEF Positions
  <2>2. segments[q[1]][q[2]] \in Files(q[1])
    BY <2>1, AllHeld, ListsAtRest DEF IsListing
  <2>3. QED
    BY <2>1, <2>2 DEF Positions, Files, Search, HoldersOf
<1>2. ASSUME NEW p \in HoldersOf(k)
      PROVE  \E q \in Positions(k) : segments[q[1]][q[2]] = p
  <2>1. p \in DOMAIN disk /\ disk[p][k] # 0 /\ Level(p) \in Levels /\ p \in Files(Level(p))
    BY PathFacts DEF HoldersOf, Files, Whole
  <2>2. PICK i \in 1..Len(segments[Level(p)]) : segments[Level(p)][i] = p
    BY <2>1, AllHeld, ListsAtRest DEF IsListing
  <2> DEFINE q == <<Level(p), i>>
  <2>3. q \in UNION {{l} \X (1..Len(segments[l])) : l \in Levels}
    BY <2>1, <2>2
  <2>4. segments[q[1]][q[2]] = p /\ Search(p, k) # 0
    BY <2>1, <2>2 DEF Search
  <2>5. QED
    BY <2>3, <2>4 DEF Positions
<1>3. QED
  BY <1>1, <1>2

\* With one segment on a level at most, the first of a search is the newest.
LEMMA FirstIsNewest ==
    ASSUME Whole, pc = "ready", \A l \in Levels : Len(segments[l]) <= 1,
           NEW k \in Keys, NEW q \in Positions(k),
           \A r \in Positions(k) : q[1] < r[1] \/ (q[1] = r[1] /\ q[2] <= r[2]),
           NEW h \in HoldersOf(k)
    PROVE  Id(h) <= Id(segments[q[1]][q[2]])
<1> DEFINE p == segments[q[1]][q[2]]
<1>1. PICK r \in Positions(k) : segments[r[1]][r[2]] = h
  BY PositionsAreHolders
<1>2. /\ q[1] \in Levels /\ q[2] \in 1..Len(segments[q[1]])
      /\ p \in DOMAIN disk /\ Level(p) = q[1]
  BY PositionsAreHolders DEF HoldersOf
<1>3. /\ r[1] \in Levels /\ r[2] \in 1..Len(segments[r[1]])
      /\ h \in DOMAIN disk /\ Level(h) = r[1]
  BY <1>1, PositionsAreHolders DEF HoldersOf
<1>4. Id(p) \in Nat /\ Id(h) \in Nat
  BY <1>2, <1>3, PathFacts DEF Whole
<1>5. CASE q[1] < r[1]
  <2>1. p \in Live /\ h \in Live
    BY <1>2, <1>3 DEF Live, Doomed, Whole, EngineTypeOK, ControlTypeOK
  <2>2. Id(h) < Id(p)
    BY <1>2, <1>3, <1>5, <2>1 DEF Whole, Layout, LevelOrder
  <2>3. QED
    BY <1>4, <2>2
<1>6. CASE q[1] = r[1]
  <2>1. Len(segments[q[1]]) \in Nat /\ Len(segments[q[1]]) <= 1
    BY <1>2, AllHeld, ListsAtRest
  <2>2. q[2] = 1 /\ r[2] = 1
    BY <1>2, <1>3, <1>6, <2>1
  <2>3. QED
    BY <1>1, <1>4, <1>6, <2>2
<1>7. QED
  BY <1>5, <1>6

LEMMA ReadsLatest1 == Whole => ReadsLatestWithoutPairs
<1> SUFFICES ASSUME Whole, pc = "ready", \A l \in Levels : Len(segments[l]) <= 1,
                    NEW k \in Keys
             PROVE  IsLatest(Get(k), k, Len(history))
  BY DEF ReadsLatestWithoutPairs, NoPairs
<1>1. Serving
  BY DEF Serving
<1>2. CASE mem[k] # 0
  BY <1>1, <1>2, AllHeld, MemLatest DEF Get
<1>3. CASE mem[k] = 0 /\ Positions(k) = {}
  <2>1. HoldersOf(k) = {}
    BY <1>3, PositionsAreHolders
  <2>2. Get(k) = 0
    BY <1>3 DEF Get, SearchAllSegments, Positions
  <2>3. QED
    BY <1>1, <1>3, <2>1, <2>2, NowhereLatest
<1>4. CASE mem[k] = 0 /\ Positions(k) # {}
  <2> DEFINE First(q) == \A r \in Positions(k) :
                            q[1] < r[1] \/ (q[1] = r[1] /\ q[2] <= r[2])
             top == CHOOSE q \in Positions(k) : First(q)
             T == {q[1] : q \in Positions(k)}
  <2>1. T \subseteq Nat /\ T # {}
    BY <1>4, PositionsAreHolders, PathFacts DEF Whole
  <2>2. PICK x \in T : \A y \in T : x <= y
    <3> HIDE DEF T
    <3>1. QED
      BY <2>1, LeastNumber
  <2>3. PICK q \in Positions(k) : x = q[1]
    BY <2>2
  <2>4. ASSUME NEW r \in Positions(k) PROVE q[1] < r[1] \/ (q[1] = r[1] /\ q[2] <= r[2])
    <3>1. q[1] \in Nat /\ r[1] \in Nat /\ q[1] <= r[1]
      BY <2>1, <2>2, <2>3
    <3>2. /\ q[1] \in Levels /\ q[2] \in 1..Len(segments[q[1]])
          /\ r[1] \in Levels /\ r[2] \in 1..Len(segments[r[1]])
      BY PositionsAreHolders
    <3>3. Len(segments[q[1]]) \in Nat /\ Len(segments[q[1]]) <= 1
      BY <3>2, AllHeld, ListsAtRest
    <3>4. QED
      BY <3>1, <3>2, <3>3
  <2>5. top \in Positions(k) /\ First(top)
    BY <2>4
  <2>6. Get(k) = Search(segments[top[1]][top[2]], k)
    BY <1>4 DEF Get, SearchAllSegments, Positions
  <2> HIDE DEF top
  <2> DEFINE p == segments[top[1]][top[2]]
  <2>7. p \in HoldersOf(k) /\ Get(k) = disk[p][k]
    BY <2>5, <2>6, PositionsAreHolders
  <2>8. \A h \in HoldersOf(k) : Id(h) <= Id(p)
    BY <2>5, FirstIsNewest
  <2> HIDE DEF p
  <2>9. QED
    BY <1>1, <1>4, <2>7, <2>8, AllHeld, NewestLatest
<1>5. QED
  BY <1>2, <1>3, <1>4

\* get() returns the latest write whenever no level has two segments, until a process
\* is killed in a window.
THEOREM ReadsLatestWithoutPairsAlways == Spec => []ReadsLatestWithoutPairs
<1>1. IInv => ReadsLatestWithoutPairs
  BY Unkilled, ReadsLatest1 DEF ReadsLatestWithoutPairs
<1>2. QED
  BY <1>1, Inductive, PTL

----------------------------------------------------------------------------
(* LsmTree implements KVStore: each step of the engine is a step of the store   *)
(* or none at all.  What is read stays when nothing is written, since memtable, *)
(* lists and files stay; it was written to its key, since entries stay under    *)
(* their keys (Owned); and it is the last write where the store is trusted      *)
(* (ReadsLatest1).                                                              *)

\* What get() finds is a write to the key, or nothing.
LEMMA GetOwned ==
    ASSUME DataTypeOK, Owned, NEW k \in Keys
    PROVE  /\ Get(k) \in 0..Len(history)
           /\ Get(k) # 0 => history[Get(k)].key = k
<1>1. ASSUME NEW p
      PROVE  /\ Search(p, k) \in 0..Len(history)
             /\ Search(p, k) # 0 => history[Search(p, k)].key = k
  BY LenProperties DEF Search, DataTypeOK, Version, Owned
<1>2. CASE mem[k] # 0
  <2>1. Get(k) = mem[k]
    BY <1>2 DEF Get
  <2>2. mem[k] \in 0..Len(history)
    BY DEF DataTypeOK, Version
  <2>3. history[mem[k]].key = k
    BY <1>2 DEF Owned
  <2>4. QED
    BY <2>1, <2>2, <2>3
<1>3. CASE mem[k] = 0 /\ Positions(k) = {}
  <2>1. Get(k) = 0
    BY <1>3 DEF Get, SearchAllSegments, Positions
  <2>2. Len(history) \in Nat
    BY LenProperties DEF DataTypeOK
  <2>3. QED
    BY <2>1, <2>2
<1>4. CASE mem[k] = 0 /\ Positions(k) # {}
  <2>1. \E p : Get(k) = Search(p, k)
    BY <1>4 DEF Get, SearchAllSegments, Positions
  <2>2. QED
    BY <1>1, <2>1
<1>5. QED
  BY <1>2, <1>3, <1>4

\* The writes have values, and none of them is the tombstone.
LEMMA WritesHaveValues ==
    ASSUME DataTypeOK
    PROVE  \A n \in 1..Len(history) :
              history[n].value \in Stored /\ history[n].value # Tombstone
<1>1. \A n \in 1..Len(history) : history[n] \in [key : Keys, value : Stored]
  BY ElementOfSeq DEF DataTypeOK
<1>2. QED
  BY <1>1, TombstoneAssumption

\* The latest write of a key is the last that the store has of it.
LEMMA LatestIsLast ==
    ASSUME DataTypeOK, NEW k \in Keys, NEW v, IsLatest(v, k, Len(history))
    PROVE  Store!Last(k) = IF v # 0 THEN history[v].value ELSE Empty
<1> DEFINE writes == Store!WritesTo(k)
           last   == CHOOSE i \in writes : \A j \in writes : j <= i
<1>1. Store!Last(k) = IF writes = {} THEN Empty ELSE history[last].value
  BY DEF Store!Last
<1>2. /\ v \in 0..Len(history)
      /\ v # 0 => history[v].key = k
      /\ \A m \in v + 1 .. Len(history) : history[m].key # k
  BY DEF IsLatest
<1>3. Len(history) \in Nat /\ \A m : m \in writes <=> m \in 1..Len(history) /\ history[m].key = k
  BY LenProperties DEF DataTypeOK, Store!WritesTo
<1> HIDE DEF writes
<1>4. \A m \in writes : m <= v
  BY <1>2, <1>3
<1>5. CASE v = 0
  <2>1. writes = {}
    BY <1>3, <1>4, <1>5
  <2>2. QED
    BY <1>1, <1>5, <2>1
<1>6. CASE v # 0
  <2>1. v \in writes
    BY <1>2, <1>3, <1>6
  <2>2. last \in writes /\ \A j \in writes : j <= last
    BY <1>4, <2>1
  <2>3. last = v
    <3>1. last <= v /\ v <= last /\ last \in Nat /\ v \in Nat
      BY <1>2, <1>3, <1>4, <2>1, <2>2
    <3> HIDE DEF last
    <3>2. QED
      BY <3>1
  <2>4. QED
    BY <1>1, <1>6, <2>1, <2>3
<1>7. QED
  BY <1>5, <1>6

\* Whatever the engine has gone through: what it reads at rest was written to the
\* key, and is the last write to it where the store is trusted.
LEMMA ReadsConsistent == IInv /\ pc = "ready" => Store!Consistent
<1> SUFFICES ASSUME IInv, pc = "ready", NEW k \in Keys
             PROVE  /\ Retrieved[k] \in {Empty} \cup {history[i].value : i \in Store!WritesTo(k)}
                    /\ Trusted => Retrieved[k] = Store!Last(k)
  BY DEF Store!Consistent
<1>1. DataTypeOK /\ Owned
  BY DEF IInv, TypeOK, EngineTypeOK
<1>2. Retrieved[k] = IF Get(k) = 0 THEN Empty ELSE history[Get(k)].value
  BY <1>1, GetOwned, WritesHaveValues DEF Retrieved, GetValue
<1>3. Retrieved[k] \in {Empty} \cup {history[i].value : i \in Store!WritesTo(k)}
  <2>1. Get(k) # 0 => Get(k) \in Store!WritesTo(k)
    BY <1>1, GetOwned, LenProperties DEF Store!WritesTo, DataTypeOK
  <2>2. QED
    BY <1>2, <2>1
<1>4. ASSUME Trusted PROVE Retrieved[k] = Store!Last(k)
  <2>1. IsLatest(Get(k), k, Len(history))
    BY <1>4, Unkilled, ReadsLatest1 DEF Trusted, ReadsLatestWithoutPairs
  <2>2. QED
    BY <1>1, <1>2, <2>1, LatestIsLast
<1>5. QED
  BY <1>3, <1>4

\* While a write is under way, and while the process is gone, nobody can read.
LEMMA NobodyReads == pc # "ready" => Store!Silent
BY DEF Store!Silent, Trusted, Retrieved

\* A write that is logged and inserted is acknowledged, is what its key reads as,
\* and leaves what the other keys read as.
LEMMA InsertReads ==
    ASSUME EngineTypeOK, Owned, NEW k \in Keys, NEW v \in Values \cup {Tombstone},
           LogAndInsert(k, v), UNCHANGED <<segments, disk>>, pc' = "ready"
    PROVE  /\ FinalValue(v) \in Stored
           /\ Store!Acknowledged(k, FinalValue(v))
           /\ Retrieved'[k] = FinalValue(v)
           /\ pc = "ready" => Retrieved' = [Retrieved EXCEPT ![k] = FinalValue(v)]
<1> DEFINE w == FinalValue(v)
           n == Len(history) + 1
<1>1. w \in Stored /\ w # Tombstone
  BY TombstoneAssumption DEF FinalValue, Stored
<1>2. /\ history' = Append(history, [key |-> k, value |-> w])
      /\ mem' = [mem EXCEPT ![k] = n] /\ mem \in [Keys -> Version]
      /\ history \in Seq([key : Keys, value : Stored]) /\ Len(history) \in Nat
  BY LenProperties DEF LogAndInsert, EngineTypeOK, DataTypeOK
<1>3. /\ \A i \in 1..Len(history) : history'[i] = history[i]
      /\ history'[n].value = w
  BY <1>2
<1>4. Retrieved'[k] = w
  <2>1. mem'[k] = n /\ n # 0
    BY <1>2
  <2>2. Get(k)' = n
    BY <2>1 DEF Get
  <2>3. GetValue(k)' = w
    BY <1>1, <1>3, <2>1, <2>2 DEF GetValue
  <2>4. QED
    BY <2>3 DEF Retrieved
<1>5. ASSUME NEW j \in Keys, j # k PROVE GetValue(j)' = GetValue(j)
  <2>1. mem'[j] = mem[j]
    BY <1>2, <1>5
  <2>2. Get(j)' = Get(j)
    BY <2>1 DEF Get, SearchAllSegments, Search
  <2>3. Get(j) \in 0..Len(history)
    BY GetOwned DEF EngineTypeOK
  <2>4. Get(j) # 0 => history'[Get(j)] = history[Get(j)]
    BY <1>2, <1>3, <2>3
  <2>5. QED
    BY <2>2, <2>4 DEF GetValue
<1>6. ASSUME pc = "ready" PROVE Retrieved' = [Retrieved EXCEPT ![k] = w]
  <2>1. Retrieved = [j \in Keys |-> GetValue(j)] /\ Retrieved' = [j \in Keys |-> GetValue(j)']
    BY <1>6 DEF Retrieved
  <2>2. \A j \in Keys : j # k => Retrieved'[j] = Retrieved[j]
    BY <1>5, <2>1
  <2>3. QED
    BY <1>4, <2>1, <2>2
<1>7. QED
  BY <1>1, <1>2, <1>4, <1>6 DEF Store!Acknowledged

\* A death, wherever it comes, is a crash of the store.
LEMMA DeathIsCrash ==
    ASSUME DataTypeOK, NEW files, FilesTypeOK(files), DieLeaving(files)
    PROVE  Store!Crash
<1>1. pc' = "down"
  BY DEF DieLeaving
<1>2. \E n \in 0..Len(history) : history' = SubSeq(history, 1, n)
  BY DieTakesLast
<1>3. Store!Silent'
  <2>1. (pc # "ready" => Store!Silent)'
    BY NobodyReads, PTL
  <2>2. QED
    BY <1>1, <2>1
<1>4. Mode' = "down"
  BY <1>1 DEF Mode
<1>5. QED
  BY <1>2, <1>3, <1>4 DEF Store!Crash

\* What a client cannot see.
LEMMA Unseen ==
    ASSUME pc # "ready", pc' # "ready", Mode' = Mode, UNCHANGED history
    PROVE  UNCHANGED Store!vars
<1>1. Store!Silent /\ Store!Silent'
  <2>1. (pc # "ready" => Store!Silent)'
    BY NobodyReads, PTL
  <2>2. QED
    BY <2>1, NobodyReads
<1>2. QED
  BY <1>1 DEF Store!Silent, Store!vars

\* Each step of the engine is one of the store, or none.
LEMMA StepRefines ==
    ASSUME IInv, IInv', [Next]_vars
    PROVE  [Store!Next]_(Store!vars)
<1>1. EngineTypeOK /\ DataTypeOK /\ Owned
  BY DEF IInv, TypeOK, EngineTypeOK
<1>2. pc' = "ready" => Store!Consistent'
  <2>1. (IInv /\ pc = "ready" => Store!Consistent)'
    BY ReadsConsistent, PTL
  <2>2. QED
    BY <2>1
<1>3. pc' # "ready" => Store!Silent'
  <2>1. (pc # "ready" => Store!Silent)'
    BY NobodyReads, PTL
  <2>2. QED
    BY <2>1
<1>4. ASSUME NEW k \in Keys, NEW v \in Values \cup {Tombstone}, PutFits(k, v), kills' = kills
      PROVE  Store!Next
  <2>1. /\ pc = "ready" /\ pc' = "ready" /\ LogAndInsert(k, v)
        /\ UNCHANGED <<segments, disk>>
    BY <1>4 DEF PutFits, ctlVars
  <2>2. /\ FinalValue(v) \in Stored /\ Store!Acknowledged(k, FinalValue(v))
        /\ Retrieved' = [Retrieved EXCEPT ![k] = FinalValue(v)]
    BY <1>1, <2>1, InsertReads
  <2>3. Mode = "ready" /\ Mode' = Mode /\ Trusted' = Trusted
    BY <1>4, <2>1 DEF Mode, Trusted, NoPairs
  <2>4. Store!Write(k, FinalValue(v))
    BY <2>2, <2>3 DEF Store!Write
  <2>5. QED
    BY <2>2, <2>4 DEF Store!Next
<1>5. ASSUME NEW k \in Keys, NEW v, PutFull(k, v) PROVE Store!Next
  <2>1. pc = "ready" /\ pc' = "compact" /\ UNCHANGED history
    BY <1>5 DEF PutFull, auxVars
  <2>2. Mode = "ready" /\ Mode' = "busy"
    BY <2>1 DEF Mode
  <2>3. Store!Pause
    BY <1>3, <2>1, <2>2 DEF Store!Pause
  <2>4. QED
    BY <2>3 DEF Store!Next
<1>6. ASSUME Die PROVE Store!Next
  <2>1. FilesTypeOK(disk)
    BY <1>1 DEF DataTypeOK, FilesTypeOK
  <2>2. Store!Crash
    BY <1>1, <1>6, <2>1, DeathIsCrash DEF Die
  <2>3. QED
    BY <2>2 DEF Store!Next
<1>7. ASSUME \/ CompactMerge \/ CompactDeleteA \/ CompactDeleteB \/ CompactNext
             \/ Flush \/ ClearLog \/ Restart \/ Replay
      PROVE  UNCHANGED Store!vars
  <2>1. UNCHANGED history /\ pc # "ready" /\ pc' # "ready" /\ Mode' = Mode
    BY <1>7
    DEF CompactMerge, CompactDeleteA, CompactDeleteB, CompactNext, Flush, ClearLog, Restart,
        Replay, Down, auxVars, Mode
  <2>2. QED
    BY <2>1, Unseen
<1>8. ASSUME PutEnds PROVE Store!Next
  <2>1. /\ pc = "append" /\ pc' = "ready" /\ UNCHANGED <<segments, disk>>
        /\ LogAndInsert(pending[1], pending[2])
        /\ pending[1] \in Keys /\ pending[2] \in Values \cup {Tombstone}
    BY <1>1, <1>8 DEF PutEnds, EngineTypeOK, ControlTypeOK, Serving
  <2> DEFINE w == FinalValue(pending[2])
  <2>2. w \in Stored /\ Store!Acknowledged(pending[1], w) /\ Retrieved'[pending[1]] = w
    BY <1>1, <2>1, InsertReads
  <2>3. Mode = "busy" /\ Mode' = "ready"
    BY <2>1 DEF Mode
  <2> HIDE DEF w
  <2>4. Store!Resume(pending[1], w)
    BY <1>2, <2>1, <2>2, <2>3 DEF Store!Resume
  <2>5. QED
    BY <2>1, <2>2, <2>4 DEF Store!Next
<1>9. ASSUME RestoreSegments PROVE Store!Next
  <2>1. pc = "replay" /\ pc' = "ready" /\ UNCHANGED history
    BY <1>9 DEF RestoreSegments, auxVars
  <2>2. Mode = "down" /\ Mode' = "ready"
    BY <2>1 DEF Mode
  <2>3. Store!Recover
    BY <1>2, <2>1, <2>2 DEF Store!Recover
  <2>4. QED
    BY <2>3 DEF Store!Next
<1>10. ASSUME NEW k \in Keys, NEW v \in Values \cup {Tombstone}, Put(k, v), kills' = kills
       PROVE  Store!Next
  BY <1>4, <1>5, <1>6, <1>10 DEF Put, PutAborts
<1>11. CASE UNCHANGED vars
  <2>1. UNCHANGED <<history, pc, kills, mem, segments, disk>>
    BY <1>11 DEF vars, workVars, treeVars, ctlVars, auxVars
  <2>2. Retrieved' = Retrieved
    BY <2>1 DEF Retrieved, GetValue, Get, SearchAllSegments, Search
  <2>3. UNCHANGED Store!vars
    BY <2>1, <2>2 DEF Store!vars, Mode, Trusted, NoPairs
  <2>4. QED
    BY <2>3
<1>12. CASE Killed(KillInPut)
  <2>1. Store!Crash
    BY <1>1, <1>12, KillLeaves, DeathIsCrash DEF Killed
  <2>2. QED
    BY <2>1 DEF Store!Next
<1>13. CASE Work /\ UNCHANGED kills
  BY <1>6, <1>7, <1>8, <1>9, <1>10, <1>13 DEF Work, Remove, Crash
<1>14. QED
  BY <1>11, <1>12, <1>13 DEF Next

\* An empty directory is an empty store.
LEMMA InitRefines == Init => Store!Init
<1> SUFFICES ASSUME Init PROVE Store!Init
  OBVIOUS
<1>1. /\ history = << >> /\ pc = "ready" /\ kills = 0 /\ mem = NoRun
      /\ \A l \in Levels : segments[l] = << >> /\ Len(segments[l]) = 0
  BY EmptySeq DEF Init
<1>2. \A k \in Keys : Get(k) = 0
  <2>1. \A k \in Keys : Positions(k) = {}
    BY <1>1 DEF Positions
  <2>2. QED
    BY <1>1, <2>1 DEF Get, SearchAllSegments, Positions, NoRun
<1>3. Retrieved = [k \in Keys |-> Empty]
  BY <1>1, <1>2 DEF Retrieved, GetValue
<1>4. Mode = "ready" /\ Trusted = TRUE
  BY <1>1 DEF Mode, Trusted, NoPairs
<1>5. QED
  BY <1>1, <1>3, <1>4 DEF Store!Init

\* The engine is the store that KVStore describes, through deaths at any point of a
\* write and of a recovery: what get() returns was written to the key, a write is
\* read back at once and changes no other key, nothing that is read changes by
\* itself, the last write is read where no level has two segments and no process
\* was killed in a window, and a death takes nothing but the last writes.
\* (put, get, compact, flush_memtable_to_disk, clear, restore_db)
THEOREM Refinement == Spec => ImplementsStore
<1>1. IInv /\ IInv' /\ [Next]_vars => [Store!Next]_(Store!vars)
  BY StepRefines
<1>2. QED
  BY <1>1, InitRefines, Inductive, PTL DEF Spec, Store!Spec, ImplementsStore
=============================================================================
