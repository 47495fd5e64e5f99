---------------------------- MODULE LsmLifecycle ----------------------------
(***************************************************************************)
(* The life of a process around the storage engine of LsmTree: dropping    *)
(* the table, destroying the tree, and being killed in the middle of that. *)
(*                                                                         *)
(* drop_table() takes no lock.  Here it is called as main() of the REPL    *)
(* and the tests call it, with no put() or get() under way.                *)
(***************************************************************************)
EXTENDS LsmTree

VARIABLES closing,   \* TRUE while the destructor is what drops the table
          dropped,   \* auxiliary: that many writes had been acknowledged when
                     \* the last drop of the table began
          first      \* auxiliary: TRUE until the first process is gone

lifeVars == <<vars, closing, dropped, first>>

LifeInit ==
    /\ Init
    /\ closing = FALSE
    /\ dropped = 0
    /\ first = TRUE

\* A step of the engine of LsmTree.
Engine(A) ==
    /\ A
    /\ first' = (first /\ pc' # "down")
    /\ UNCHANGED <<closing, dropped>>

----------------------------------------------------------------------------
(* drop_table() and ~lsm_tree() *)

\* The memtable goes first.  The destructor does nothing else than the drop.
DropMemtable ==
    /\ pc = "ready"
    /\ mem' = NoRun
    /\ bytes' = 0
    /\ pc' = "dropWal"
    /\ closing' \in BOOLEAN
    /\ dropped' = Len(history)
    /\ flushed' = Len(history)
    /\ UNCHANGED <<segments, segment_i, disk, pending, lvl, merging, replayed,
                   history, walVars, kills, first>>

\* Then the log is cleared: its file, not the buffer of its stream.
DropLog ==
    /\ pc = "dropWal"
    /\ WalClear
    /\ pc' = "dropFiles"
    /\ UNCHANGED <<treeVars, pending, lvl, merging, replayed, auxVars, closing,
                   kills, dropped, first>>

\* delete_all_segments(): file by file, as the directory lists them.
DropFile ==
    /\ pc = "dropFiles"
    /\ \E p \in DOMAIN disk : disk' = DeleteFile(p)
    /\ UNCHANGED <<mem, bytes, segments, segment_i, ctlVars, auxVars, walVars,
                   closing, kills, dropped, first>>

\* (Mutant.)  The files may be left where they are.
DropLists_LeavesFiles ==
    /\ pc = "dropFiles"
    /\ segments' = [l \in Levels |-> << >>]
    /\ segment_i' = 0
    /\ pc' = IF closing THEN "closing" ELSE "ready"
    /\ UNCHANGED <<mem, bytes, disk, pending, lvl, merging, replayed, auxVars,
                   walVars, closing, kills, dropped, first>>

\* Last the lists, without destroying the segments that they point to.
DropLists ==
    /\ pc = "dropFiles"
    /\ disk = << >>
    /\ segments' = [l \in Levels |-> << >>]
    /\ segment_i' = 0
    /\ pc' = IF closing THEN "closing" ELSE "ready"
    /\ UNCHANGED <<mem, bytes, disk, pending, lvl, merging, replayed, auxVars,
                   walVars, closing, kills, dropped, first>>

\* The members are destroyed: the stream of the log writes out its buffer.
Close ==
    /\ pc = "closing"
    /\ WalClose
    /\ pc' = "down"
    /\ closing' = FALSE
    /\ first' = FALSE
    /\ UNCHANGED <<treeVars, pending, lvl, merging, replayed, auxVars, kills, dropped>>

Drop == DropMemtable \/ DropLog \/ DropFile \/ DropLists \/ Close

----------------------------------------------------------------------------
(* Being killed *)

\* In the middle of a drop.
KillInDrop == pc \in {"dropWal", "dropFiles", "closing"} /\ Die

----------------------------------------------------------------------------
\* Processes that follow one another and are destroyed in good order.
Orderly ==
    \/ Engine(Next) /\ pc' # "down"
    \/ Drop

OrderlySpec == LifeInit /\ [][Orderly]_lifeVars

\* Everything: kills anywhere, drops, destruction, restarts.
Life ==
    \/ Engine(Next)
    \/ Engine(Killed(KillInDrop))
    \/ Drop

LifeSpec == LifeInit /\ [][Life]_lifeVars

----------------------------------------------------------------------------
(* Properties *)

\* The shapes of the variables, through drops and deaths too.
LifeTypeOK ==
    /\ DataTypeOK
    /\ pc \in {"ready", "compact", "deleteA", "deleteB", "flush", "clear", "append",
               "down", "replay", "dropWal", "dropFiles", "closing"}
    /\ {closing, first} \subseteq BOOLEAN
    /\ dropped \in 0..Len(history)
    /\ kills \in 0..MaxKills

\* As long as the first process lives, a drop is final, and what is written after it
\* is held as before: every key holds its last write since the drop, if any.
\* (drop_table)
LatestSinceDrop ==
    first /\ pc = "ready" =>
        \A k \in Keys :
            IF \E n \in dropped + 1 .. Len(history) : history[n].key = k
            THEN IsLatest(View(k), k, Len(history))
            ELSE View(k) = 0

\* Wherever the process is killed, in a flush, a merge, or between the deletions
\* behind one: while no drop deletes the files, no step takes the last file that
\* holds a key.  A key in a segment may come back with an older value, but not be
\* missing.  (compact, flush_memtable_to_disk, collect_levels)
KeysSurvive ==
    [][pc # "dropFiles" =>
          \A k \in Keys : HoldersOf(k) # {} => HoldersOf(k)' # {}]_lifeVars

----------------------------------------------------------------------------
(* What a comment of the code promises, and the code does not keep *)

\* drop_table() "deletes all entries from the memtable, WAL, and segments"
\* (lsm_tree.h:125): none of them is read again, in this process or the next.
DroppedStaysDropped ==
    pc = "ready" => \A k \in Keys : GetValue(k) = Empty \/ Get(k) > dropped

=============================================================================
