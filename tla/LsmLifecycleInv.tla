-------------------------- MODULE LsmLifecycleInv --------------------------
(***************************************************************************)
(* The inductive invariants of LsmLifecycle and LsmReaders.                *)
(*                                                                         *)
(* Through kills at any point little is left of the invariant of LsmTree:  *)
(* a file may hold part of a memtable or of a merge, and two files and     *)
(* what was merged of them may be there together.  Ids stay unique, the    *)
(* lists stay the files, and what a merge deletes is in the merged file.   *)
(*                                                                         *)
(* Of the first process all of it is left, for the writes since the drop.  *)
(***************************************************************************)
EXTENDS LsmReaders, LsmTreeInv

ServePcs  == {"ready", "compact", "deleteA", "deleteB", "flush", "clear", "append"}
EnginePcs == ServePcs \cup {"down", "replay"}
DropPcs   == {"dropWal", "dropFiles", "closing"}

\* The engine's control is as LsmTree has it, and at rest during a drop.
LifeType ==
    /\ DataTypeOK
    /\ pc \in EnginePcs \cup DropPcs
    /\ {closing, first} \subseteq BOOLEAN
    /\ dropped \in 0..flushed
    /\ kills \in 0..MaxKills
    /\ pc \in EnginePcs => ControlTypeOK
    /\ pc \in DropPcs => pending = << >> /\ merging = << >> /\ replayed = 0

\* A drop deletes files that the lists still name.
LifeInv ==
    /\ LifeType
    /\ FreshIds
    /\ pc \in EnginePcs => Listed
    /\ MergeHolds

----------------------------------------------------------------------------
\* No entry is from before the d-th write or is that write.
Since(d) ==
    /\ \A k \in Keys : mem[k] # 0 => mem[k] > d
    /\ \A p \in DOMAIN disk, k \in Keys : disk[p][k] # 0 => disk[p][k] > d

\* In its first life the engine holds the writes since the drop as LsmTree holds all.
FirstLifeInv ==
    first =>
        /\ pc \notin {"down", "replay"}
        /\ pc \in ServePcs => Layout /\ Held(dropped) /\ Since(dropped)
        /\ pc \in DropPcs =>
              mem = NoRun /\ dropped = Len(history) /\ flushed = Len(history)

----------------------------------------------------------------------------
\* The i-th segment of the level l is reached before the j-th of the level m.
Sooner(l, i, m, j) == l < m \/ (l = m /\ i < j)

\* Who is in get() keeps writers out, has found nothing where it has looked, and
\* will return what the first look of all would have returned.
Reading(t) ==
    /\ pc = "ready"
    /\ t.key \in Keys
    /\ \/ t.at = "found" /\ t.found = Get(t.key)
       \/ /\ t.at = "segments"
          /\ mem[t.key] = 0
          /\ t.lvl \in Levels
          /\ t.i \in 1..Len(segments[t.lvl]) + 1
          /\ \A l \in Levels : \A i \in 1..Len(segments[l]) :
                Sooner(l, i, t.lvl, t.i) => Search(segments[l][i], t.key) = 0

ReaderInv ==
    /\ DOMAIN reads = Readers
    /\ \A r \in Readers : reads[r] # Outside => Reading(reads[r])
=============================================================================
