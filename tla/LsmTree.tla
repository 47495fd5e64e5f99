------------------------------ MODULE LsmTree ------------------------------
(***************************************************************************)
(* The storage engine of DOCS-DB (Part-A/src/lsm_tree): a memtable, a      *)
(* write-ahead log, and segment files on levels 0, 1, 2, ... that are      *)
(* merged pairwise, each pair into one segment of the next level.          *)
(*                                                                         *)
(* Data.  A write is named by its number: history[n] is the key and the    *)
(* value of the n-th acknowledged write, and the memtable, the segments    *)
(* and the log hold numbers ("versions"), 0 standing for "no entry".  The  *)
(* engine never looks at these numbers -- which of two entries wins is     *)
(* decided by what the code compares, the ids of the files -- but the      *)
(* properties do: of two versions of a key the larger is the more recent.  *)
(*                                                                         *)
(* Concurrency.  put() and remove() hold tree_mutex exclusively and get()  *)
(* holds it shared, so at most one write is between its first and its last *)
(* step, and reads happen between writes.  A write is cut into steps where *)
(* the disk changes, because the process can die in between.               *)
(*                                                                         *)
(* Files.  A file is a map from keys to versions, and a search or a merge  *)
(* goes by that map.  SegmentFile has the lines and the sparse index, and  *)
(* shows when this is so: keys are not empty and hold no separator, and a  *)
(* file that is read back after a restart has at most SPARSITY_FACTOR      *)
(* entries, so that its index is empty.                                    *)
(***************************************************************************)
EXTENDS Wal, FiniteSets

CONSTANTS
    Keys,        \* the keys
    Values,      \* the values clients write
    Empty,       \* the empty string: what a missing or a removed key reads as
    Tombstone,   \* TOMBSTONE, the marker remove() passes to put()
    Weight,      \* rb_entry::size() of an entry, by its value
    MemLimit,    \* MEMTABLE_SIZE
    Wrap,        \* 2^64: byte counts are uint64_t
    IdWrap,      \* 2^16: segment ids are uint16_t
    MaxLevel,    \* bound: levels 0..MaxLevel, nothing is merged on the last
    MaxWrites,   \* bound: that many writes are acknowledged
    MaxKills     \* bound: so often the process is killed in a window (see Killed)

Stored == Values \cup {Empty}

ASSUME TombstoneAssumption == Tombstone \notin Stored
ASSUME WeightAssumption    == Weight \in [Stored -> Nat]
ASSUME BoundsAssumption    ==
    /\ MemLimit \in Nat
    /\ Wrap \in Nat \ {0}
    /\ IdWrap \in Nat \ {0, 1}
    /\ MaxLevel \in Nat
    /\ MaxWrites \in Nat
    /\ MaxKills \in Nat

VARIABLES
    mem,         \* memtable: the version it holds of each key
    bytes,       \* memtable.size(), as the code accounts for it
    segments,    \* the list of segment files of each level, front to back
    segment_i,   \* the id of the next segment
    disk,        \* the segment files: path -> the version it holds of each key
    pc,          \* where the process is
    pending,     \* the write that waits for compaction and flush, or << >>
    lvl,         \* the level compact() is at
    merging,     \* << >>, or the two files being merged and the merged one
    replayed,    \* how many lines of the log a restart has replayed
    history,     \* auxiliary: the acknowledged writes, up to the last one of
                 \* which the deaths of the process have left something
    flushed,     \* auxiliary: that many of them had been acknowledged when
                 \* the memtable was last written to a segment
    kills        \* auxiliary: how often the process was killed in a window

treeVars == <<mem, bytes, segments, segment_i, disk>>
ctlVars  == <<pc, pending, lvl, merging, replayed>>
auxVars  == <<history, flushed>>
workVars == <<treeVars, ctlVars, auxVars, walVars>>
vars     == <<workVars, kills>>

Levels == 0..MaxLevel
Version == 0..Len(history)
NoRun   == [k \in Keys |-> 0]

\* A path is an id and a level: the file name "00007_00001.sst" holds both.
Paths == Nat \X Levels

Id(p)    == p[1]
Level(p) == p[2]
Files(l) == {p \in DOMAIN disk : Level(p) = l}

Down    == pc = "down"
Serving == pc \notin {"down", "replay"}

Init ==
    /\ WalInit
    /\ mem = NoRun
    /\ bytes = 0
    /\ segments = [l \in Levels |-> << >>]
    /\ segment_i = 1
    /\ disk = << >>
    /\ pc = "ready"
    /\ pending = << >>
    /\ lvl = 0
    /\ merging = << >>
    /\ replayed = 0
    /\ history = << >>
    /\ flushed = 0
    /\ kills = 0

----------------------------------------------------------------------------
(* Reading *)

\* level::search(): what a segment file holds of a key.  A file that is gone
\* cannot be opened and holds nothing.
Search(p, k) == IF p \in DOMAIN disk THEN disk[p][k] ELSE 0

\* (Mutant.)  The last level first.
SearchAllSegments_LastLevelFirst(k) ==
    LET Holders == {q \in UNION {{l} \X (1..Len(segments[l])) : l \in Levels} :
                       Search(segments[q[1]][q[2]], k) # 0}
        First(q) == \A r \in Holders : q[1] > r[1] \/ (q[1] = r[1] /\ q[2] <= r[2])
    IN  IF Holders = {} THEN 0
        ELSE LET q == CHOOSE q \in Holders : First(q)
             IN  Search(segments[q[1]][q[2]], k)

\* search_all_segments(): level by level, and front to back on a level, the
\* first segment that has the key decides.
SearchAllSegments(k) ==
    LET Holders == {q \in UNION {{l} \X (1..Len(segments[l])) : l \in Levels} :
                       Search(segments[q[1]][q[2]], k) # 0}
        First(q) == \A r \in Holders : q[1] < r[1] \/ (q[1] = r[1] /\ q[2] <= r[2])
    IN  IF Holders = {} THEN 0
        ELSE LET q == CHOOSE q \in Holders : First(q)
             IN  Search(segments[q[1]][q[2]], k)

\* get(): the memtable first, then the segments.
Get(k) == IF mem[k] # 0 THEN mem[k] ELSE SearchAllSegments(k)

\* The value get() returns for the version it found.
GetValue(k) ==
    IF Get(k) = 0 \/ history[Get(k)].value = Tombstone THEN Empty
    ELSE history[Get(k)].value

----------------------------------------------------------------------------
(* Writing *)

\* put() stores "" for the tombstone.
FinalValue(v) == IF v = Tombstone THEN Empty ELSE v

\* (Mutant.)  Byte counts have a sign.
BytesAfterInsert_Signed(held, k, w) ==
    IF held[k] = 0
    THEN bytes + Weight[w]
    ELSE bytes + Weight[history[held[k]].value] - Weight[w]

\* red_black_tree::insert(): the byte count grows by the size of a new entry,
\* and by the old size minus the new one when the key is there already.
BytesAfterInsert(held, k, w) ==
    IF held[k] = 0
    THEN (bytes + Weight[w]) % Wrap
    ELSE (bytes + Weight[history[held[k]].value] - Weight[w]) % Wrap

\* The last lines of put(): log the entry, then insert it.
LogAndInsert(k, v) ==
    LET n == Len(history) + 1
        w == FinalValue(v)
    IN  /\ WalAppend(n)
        /\ mem' = [mem EXCEPT ![k] = n]
        /\ bytes' = BytesAfterInsert(mem, k, w)
        /\ history' = Append(history, [key |-> k, value |-> w])

\* put() into a memtable with room left.
PutFits(k, v) ==
    /\ pc = "ready"
    /\ Len(history) < MaxWrites
    /\ bytes < MemLimit
    /\ LogAndInsert(k, v)
    /\ UNCHANGED <<segments, segment_i, disk, ctlVars, flushed>>

\* put() finds the memtable full: it compacts and flushes first.
PutFull(k, v) ==
    /\ pc = "ready"
    /\ Len(history) < MaxWrites
    /\ bytes >= MemLimit
    /\ 2 * bytes < Wrap
    /\ pc' = "compact"
    /\ lvl' = 0
    /\ pending' = <<k, v>>
    /\ UNCHANGED <<treeVars, merging, replayed, auxVars, walVars>>

\* get_new_segment_path(): the id is taken, whatever becomes of the file.
NewPath(l) == <<segment_i, l>>
NextId == (segment_i + 1) % IdWrap

\* Opening a path for writing creates the file or empties the one it names.
WriteFile(p, run) == [q \in DOMAIN disk \cup {p} |-> IF q = p THEN run ELSE disk[q]]
DeleteFile(p) == [q \in DOMAIN disk \ {p} |-> disk[q]]

\* (Mutants.)  The older file wins; what only the older file has is left out.
MergedRun_OlderWins(a, b) ==
    LET newer == IF Id(a) < Id(b) THEN b ELSE a
        older == IF Id(a) < Id(b) THEN a ELSE b
    IN  [k \in Keys |-> IF Search(older, k) # 0 THEN Search(older, k)
                                                ELSE Search(newer, k)]
MergedRun_NewerOnly(a, b) ==
    [k \in Keys |-> Search(IF Id(a) < Id(b) THEN b ELSE a, k)]

\* merge_sst_values(): on a key that both have, the file with the larger id
\* wins, whichever was passed first.
MergedRun(a, b) ==
    LET newer == IF Id(a) < Id(b) THEN b ELSE a
        older == IF Id(a) < Id(b) THEN a ELSE b
    IN  [k \in Keys |-> IF Search(newer, k) # 0 THEN Search(newer, k)
                                                ELSE Search(older, k)]

\* compact(): the two last segments of a level are taken off its list and
\* merged into a file of the next level ...
CompactMerge ==
    /\ pc = "compact"
    /\ lvl < MaxLevel
    /\ Len(segments[lvl]) >= 2
    /\ LET n == Len(segments[lvl])
           a == segments[lvl][n]
           b == segments[lvl][n - 1]
           m == NewPath(lvl + 1)
       IN  /\ disk' = WriteFile(m, MergedRun(a, b))
           /\ segments' = [segments EXCEPT ![lvl] = SubSeq(@, 1, n - 2)]
           /\ merging' = <<a, b, m>>
    /\ segment_i' = NextId
    /\ pc' = "deleteA"
    /\ UNCHANGED <<mem, bytes, pending, lvl, replayed, auxVars, walVars>>

\* ... then the file that was last in the list is deleted ...
CompactDeleteA ==
    /\ pc = "deleteA"
    /\ disk' = DeleteFile(merging[1])
    /\ pc' = "deleteB"
    /\ UNCHANGED <<mem, bytes, segments, segment_i, pending, lvl, merging,
                   replayed, auxVars, walVars>>

\* (Mutant.)  The second file is not deleted.
CompactDeleteB_Leaks ==
    /\ pc = "deleteB"
    /\ segments' = [segments EXCEPT ![lvl + 1] = Append(@, merging[3])]
    /\ merging' = << >>
    /\ pc' = "compact"
    /\ UNCHANGED <<mem, bytes, disk, segment_i, pending, lvl, replayed, auxVars, walVars>>

\* ... then the one before it, and the merged segment joins the next level.
CompactDeleteB ==
    /\ pc = "deleteB"
    /\ disk' = DeleteFile(merging[2])
    /\ segments' = [segments EXCEPT ![lvl + 1] = Append(@, merging[3])]
    /\ merging' = << >>
    /\ pc' = "compact"
    /\ UNCHANGED <<mem, bytes, segment_i, pending, lvl, replayed, auxVars, walVars>>

\* (Mutants.)  compact() goes on past the last level; only level 0 is compacted;
\* it stays at a level.
CompactNext_PastLast ==
    /\ pc = "compact"
    /\ lvl < MaxLevel => Len(segments[lvl]) < 2
    /\ IF lvl <= MaxLevel THEN lvl' = lvl + 1 /\ pc' = pc
                          ELSE lvl' = 0 /\ pc' = "flush"
    /\ UNCHANGED <<treeVars, pending, merging, replayed, auxVars, walVars>>
CompactNext_LevelZeroOnly ==
    /\ pc = "compact"
    /\ lvl < MaxLevel => Len(segments[lvl]) < 2
    /\ lvl' = 0
    /\ pc' = "flush"
    /\ UNCHANGED <<treeVars, pending, merging, replayed, auxVars, walVars>>
CompactNext_Stays ==
    /\ pc = "compact"
    /\ lvl < MaxLevel => Len(segments[lvl]) < 2
    /\ UNCHANGED vars

\* A level with fewer than two segments is done.
CompactNext ==
    /\ pc = "compact"
    /\ lvl < MaxLevel => Len(segments[lvl]) < 2
    /\ IF lvl < MaxLevel THEN lvl' = lvl + 1 /\ pc' = pc
                         ELSE lvl' = 0 /\ pc' = "flush"
    /\ UNCHANGED <<treeVars, pending, merging, replayed, auxVars, walVars>>

\* flush_memtable_to_disk(): the memtable becomes the last segment of level 0.
Flush ==
    /\ pc = "flush"
    /\ disk' = WriteFile(NewPath(0), mem)
    /\ segments' = [segments EXCEPT ![0] = Append(@, NewPath(0))]
    /\ segment_i' = NextId
    /\ mem' = NoRun
    /\ bytes' = 0
    /\ flushed' = Len(history)
    /\ pc' = "clear"
    /\ UNCHANGED <<pending, lvl, merging, replayed, history, walVars>>

ClearLog ==
    /\ pc = "clear"
    /\ WalClear
    /\ pc' = "append"
    /\ UNCHANGED <<treeVars, pending, lvl, merging, replayed, auxVars>>

\* The write that had to wait is logged and inserted.
PutEnds ==
    /\ pc = "append"
    /\ LogAndInsert(pending[1], pending[2])
    /\ pending' = << >>
    /\ pc' = "ready"
    /\ UNCHANGED <<segments, segment_i, disk, lvl, merging, replayed, flushed>>

----------------------------------------------------------------------------
(* Dying and coming back *)

\* The writes of which something outlasts the process that leaves "files"
\* behind: those a segment or the log file holds, and any before them.
Surviving(files) ==
    {flushed} \cup {walFile[i] : i \in DOMAIN walFile}
              \cup UNION {{files[p][k] : k \in Keys} : p \in DOMAIN files}
IsLast(n, S) == n \in S /\ \A m \in S : m <= n

\* The process is gone, with its memory and the buffer of the log's stream.
DieLeaving(files) ==
    /\ WalLose
    /\ disk' = files
    /\ pc' = "down"
    /\ mem' = NoRun
    /\ bytes' = 0
    /\ segments' = [l \in Levels |-> << >>]
    /\ segment_i' = 0
    /\ pending' = << >>
    /\ lvl' = 0
    /\ merging' = << >>
    /\ replayed' = 0
    /\ \E n \in Surviving(files) :
          IsLast(n, Surviving(files)) /\ history' = SubSeq(history, 1, n)
    /\ UNCHANGED flushed

Die == DieLeaving(disk)

\* The process dies where no two changes of the disk that belong together have
\* been torn apart.
Crash ==
    /\ pc \in {"ready", "compact", "flush", "append", "replay"}
    /\ Die

\* A byte count past 2^63 becomes a negative length for the Bloom filter of
\* the next segment: its constructor throws and nobody catches it.
PutAborts(k, v) ==
    /\ pc = "ready"
    /\ bytes >= MemLimit
    /\ 2 * bytes >= Wrap
    /\ Die

\* put(), up to its end or to its first change of the disk; remove() puts the
\* tombstone.
Put(k, v) == PutFits(k, v) \/ PutFull(k, v) \/ PutAborts(k, v)
Remove(k) == Put(k, Tombstone)

\* lsm_tree(): a new process opens the log ...
Restart ==
    /\ Down
    /\ pc' = "replay"
    /\ UNCHANGED <<treeVars, pending, lvl, merging, replayed, auxVars, walVars>>

\* (Mutants.)  An empty value is taken for a tombstone and the key for absent;
\* a line is read again and again.
Replay_EmptyRemoves ==
    /\ pc = "replay"
    /\ replayed < Len(walFile)
    /\ LET n == walFile[replayed + 1]
           held == IF history[n].value = Empty THEN 0 ELSE n
       IN  /\ mem' = [mem EXCEPT ![history[n].key] = held]
           /\ bytes' = BytesAfterInsert(mem, history[n].key, history[n].value)
    /\ replayed' = replayed + 1
    /\ UNCHANGED <<segments, segment_i, disk, pc, pending, lvl, merging,
                   auxVars, walVars>>
Replay_SameLine ==
    /\ pc = "replay"
    /\ replayed < Len(walFile)
    /\ mem' = [mem EXCEPT ![history[walFile[replayed + 1]].key] = walFile[replayed + 1]]
    /\ UNCHANGED <<bytes, segments, segment_i, disk, ctlVars, auxVars, walVars>>

\* ... replays it line by line.  A tombstone would be removed and inserted;
\* put() never logs one.  The second insert() of the same entry changes
\* nothing ...
Replay ==
    /\ pc = "replay"
    /\ replayed < Len(walFile)
    /\ LET n == walFile[replayed + 1]
       IN  /\ mem' = [mem EXCEPT ![history[n].key] = n]
           /\ bytes' = BytesAfterInsert(mem, history[n].key, history[n].value)
    /\ replayed' = replayed + 1
    /\ UNCHANGED <<segments, segment_i, disk, pc, pending, lvl, merging,
                   auxVars, walVars>>

\* The lists that hold each file of S once.
Listings(S) ==
    {s \in [1..Cardinality(S) -> S] :
        /\ \A i, j \in DOMAIN s : s[i] = s[j] => i = j
        /\ \A p \in S : \E i \in DOMAIN s : s[i] = p}

\* (Mutant.)  The largest id that is in use is used again.
RestoreSegments_ReusesId ==
    /\ pc = "replay"
    /\ replayed = Len(walFile)
    /\ segments' \in [Levels -> UNION {Listings(Files(l)) : l \in Levels}]
    /\ \A l \in Levels : segments'[l] \in Listings(Files(l))
    /\ \E largest \in {0} \cup {Id(p) : p \in DOMAIN disk} :
          /\ \A p \in DOMAIN disk : Id(p) <= largest
          /\ segment_i' = largest
    /\ pc' = "ready"
    /\ replayed' = 0
    /\ UNCHANGED <<mem, bytes, disk, pending, lvl, merging, auxVars, walVars>>

\* ... and collects the segment files, each level in the order in which the
\* directory lists them.  Ids go on from the largest there is.
RestoreSegments ==
    /\ pc = "replay"
    /\ replayed = Len(walFile)
    /\ segments' \in [Levels -> UNION {Listings(Files(l)) : l \in Levels}]
    /\ \A l \in Levels : segments'[l] \in Listings(Files(l))
    /\ \E largest \in {0} \cup {Id(p) : p \in DOMAIN disk} :
          /\ \A p \in DOMAIN disk : Id(p) <= largest
          /\ segment_i' = (largest + 1) % IdWrap
    /\ pc' = "ready"
    /\ replayed' = 0
    /\ UNCHANGED <<mem, bytes, disk, pending, lvl, merging, auxVars, walVars>>

\* Bound: ids do not wrap.
IdsLeft == segment_i + 1 < IdWrap

----------------------------------------------------------------------------
(* Being killed in a window: from the flush of the memtable to the clearing of *)
(* the log, from the merge of two segments to the deletion of both, and while  *)
(* a file is being written.                                                    *)

\* The memtable is in a segment, and its writes are still in the log.
KillBeforeClear == pc = "clear" /\ Die

\* While the memtable is being written: some of it is in the file.
KillInFlush ==
    /\ pc = "flush"
    /\ IdsLeft
    /\ \E written \in SUBSET Keys :
          DieLeaving(WriteFile(NewPath(0),
                               [k \in Keys |-> IF k \in written THEN mem[k] ELSE 0]))

\* The merged segment is there, and so are both that were merged.
KillMerged == pc = "deleteA" /\ Die

\* While the merged segment is being written: some of it is in the file.
KillInMerge ==
    /\ pc = "compact"
    /\ IdsLeft
    /\ lvl < MaxLevel
    /\ Len(segments[lvl]) >= 2
    /\ LET n   == Len(segments[lvl])
           run == MergedRun(segments[lvl][n], segments[lvl][n - 1])
       IN  \E written \in SUBSET Keys :
             DieLeaving(WriteFile(NewPath(lvl + 1),
                                  [k \in Keys |-> IF k \in written THEN run[k] ELSE 0]))

\* One of the two that were merged is gone, and the other still there.
KillBetweenDeletes == pc = "deleteB" /\ Die

KillInPut ==
    \/ KillBeforeClear \/ KillInFlush \/ KillMerged \/ KillInMerge
    \/ KillBetweenDeletes

\* The process is killed in one of the windows W.
Killed(W) ==
    /\ W
    /\ kills < MaxKills
    /\ kills' = kills + 1

----------------------------------------------------------------------------
\* The steps of a put() that found the memtable full.
PutStep ==
    \/ CompactMerge \/ CompactDeleteA \/ CompactDeleteB \/ CompactNext
    \/ Flush \/ ClearLog \/ PutEnds

Recovery == Replay \/ RestoreSegments

\* What the engine does, and every death outside the windows.
Work ==
    \/ \E k \in Keys : Remove(k) \/ \E v \in Values : Put(k, v)
    \/ IdsLeft /\ CompactMerge
    \/ CompactDeleteA \/ CompactDeleteB \/ CompactNext
    \/ IdsLeft /\ Flush
    \/ ClearLog \/ PutEnds
    \/ Crash \/ Restart \/ Replay \/ RestoreSegments

Next ==
    \/ Work /\ UNCHANGED kills
    \/ Killed(KillInPut)

Spec == Init /\ [][Next]_vars

----------------------------------------------------------------------------
(* What the files hold *)

\* Of the files that hold the key, the one with the largest id decides: the
\* rule by which merge_sst_values() lets one entry win over another.
HoldersOf(k) == {p \in DOMAIN disk : disk[p][k] # 0}
OnDisk(k) ==
    IF HoldersOf(k) = {} THEN 0
    ELSE disk[CHOOSE p \in HoldersOf(k) : \A q \in HoldersOf(k) : Id(q) <= Id(p)][k]

\* What the engine holds for a key.
View(k) == IF mem[k] # 0 THEN mem[k] ELSE OnDisk(k)

\* v is the last of the first n writes that is one to k; 0 if there is none.
IsLatest(v, k, n) ==
    /\ v \in 0..n
    /\ v # 0 => history[v].key = k
    /\ \A m \in v + 1 .. n : history[m].key # k

----------------------------------------------------------------------------
(* Properties *)

\* The shapes of the data ...
DataTypeOK ==
    /\ history \in Seq([key : Keys, value : Stored])
    /\ flushed \in 0..Len(history)
    /\ walFile \in Seq(1..Len(history))
    /\ walBuf \in Seq(1..Len(history))
    /\ Len(walBuf) <= WalCap
    /\ mem \in [Keys -> Version]
    /\ bytes \in 0..Wrap - 1
    /\ DOMAIN disk \subseteq Paths
    /\ IsFiniteSet(DOMAIN disk)
    /\ \A p \in DOMAIN disk : disk[p] \in [Keys -> Version]
    /\ segments \in [Levels -> Seq(Paths)]
    /\ segment_i \in 0..IdWrap - 1
    /\ lvl \in Levels
    /\ replayed \in 0..Len(walFile)

\* ... and of the control: a write is pending exactly while it has to wait for
\* its compaction, a merge is under way until its two deletions are done.
ControlTypeOK ==
    /\ pc \in {"ready", "compact", "deleteA", "deleteB", "flush", "clear",
               "append", "down", "replay"}
    /\ pending # << >> => pending \in Keys \X (Values \cup {Tombstone})
    /\ (pending # << >>) <=> (Serving /\ pc # "ready")
    /\ merging # << >> => merging \in Paths \X Paths \X Paths
    /\ (merging # << >>) <=> (pc \in {"deleteA", "deleteB"})
    /\ pc \in {"deleteA", "deleteB"} => lvl < MaxLevel
    /\ pc # "replay" => replayed = 0

EngineTypeOK == DataTypeOK /\ ControlTypeOK

TypeOK == EngineTypeOK /\ kills \in 0..MaxKills

\* Whatever has been merged and flushed, lost in a crash and recovered -- as long
\* as no process was killed in a window: the engine holds, for every key, the last
\* of the acknowledged writes that are left.  In particular recovery ends in the
\* effect of a prefix of the writes.  (put, compact, flush_memtable_to_disk,
\* restore_db)
HoldsLatest ==
    Serving /\ kills = 0 => \A k \in Keys : IsLatest(View(k), k, Len(history))

\* As long as no process was killed in a window: every write that is in no segment
\* is in the log or in its buffer, behind every write before it that is there too:
\* no gap, no reordering, although clear() leaves the buffer with writes that a
\* segment already holds.  (write_ahead_log::append, clear)
LogIsTail ==
    kills = 0 =>
        LET log == walFile \o walBuf
            n   == Len(log)
        IN  /\ \A i \in 1..n : log[i] = Len(history) - (n - i)
            /\ Len(history) - n <= flushed

NoPairs == \A l \in Levels : Len(segments[l]) <= 1

\* A reader finds the latest write while no level has two segments, as long as no
\* process was killed in a window.  (get, search_all_segments)
ReadsLatestWithoutPairs ==
    pc = "ready" /\ NoPairs /\ kills = 0
        => \A k \in Keys : IsLatest(Get(k), k, Len(history))

\* A segment file never changes between its creation and its deletion, through
\* kills in any window too: a new path is never the path of a file that is there
\* (get_new_segment_path, restore_segments).
SegmentsImmutable ==
    [][\A p \in DOMAIN disk \cap DOMAIN disk' : disk'[p] = disk[p]]_vars

\* Between two writes the lists of the levels and the files on disk are the
\* same, through kills in any window too: no file is leaked, none is listed that
\* has been deleted.  (compact, flush_memtable_to_disk, collect_levels)
ListsMatchDisk ==
    pc = "ready" =>
        \A l \in Levels :
            /\ {segments[l][i] : i \in DOMAIN segments[l]} = Files(l)
            /\ Len(segments[l]) = Cardinality(Files(l))

\* Outside a write, and as long as no process was killed in a window, a level below
\* the last has at most two segments, and two on a level above 0 only when the
\* levels before it are empty: the next compact() merges all of them away before
\* it reaches the level after.
AtMostPairs ==
    pc = "ready" /\ kills = 0 =>
        \A l \in Levels \ {MaxLevel} :
            /\ Len(segments[l]) <= 2
            /\ l > 0 /\ Len(segments[l]) = 2
                  => \A j \in 0..l - 1 : segments[j] = << >>

\* A write that began with a compaction ends, unless the process dies.
PutEnding == pc = "compact" ~> pc \in {"ready", "down"}

\* A process that was started comes to serve, unless it dies again.
RecoveryEnding == pc = "replay" ~> pc \in {"ready", "down"}

----------------------------------------------------------------------------
(* What comments of the code promise, and the code does not keep *)

\* get() finds "the most recent value for the given key" (lsm_tree.h:104).
ReadsLatest ==
    pc = "ready" =>
        \A k \in Keys : \A n \in 1..Len(history) :
            IsLatest(n, k, Len(history)) => GetValue(k) = history[n].value

\* The log "prevents data loss in the event of a crash" (lsm_tree.h:25): no
\* acknowledged write is lost.
AcknowledgedKept == [][Len(history') >= Len(history)]_vars

----------------------------------------------------------------------------
(* Refinement *)

\* What a client sees of the engine: whether it can call it, ...
Mode ==
    CASE pc = "ready"              -> "ready"
      [] pc \in {"down", "replay"} -> "down"
      [] OTHER                     -> "busy"

\* ... whether it can trust get(), and what get() returns.
Trusted   == pc = "ready" /\ NoPairs /\ kills = 0
Retrieved == [k \in Keys |-> IF pc = "ready" THEN GetValue(k) ELSE Empty]

\* The engine is a key-value store that may forget its last writes in a crash, and
\* return older values while it cannot be trusted.
Store == INSTANCE KVStore WITH
    Values <- Stored, log <- history, mode <- Mode, trusted <- Trusted,
    reads <- Retrieved

ImplementsStore == Store!Spec
=============================================================================
