----------------------------- MODULE LsmReaders -----------------------------
(***************************************************************************)
(* Threads that read beside the one that writes.  get() looks into the     *)
(* memtable and then into one segment file after the other, and holds      *)
(* tree_mutex shared all the while; put() holds it exclusively.            *)
(*                                                                         *)
(* The table is dropped only while no thread is in the tree: drop_table()  *)
(* takes no lock, and what a thread does that it meets there -- with nodes *)
(* that are freed, with lists that are cleared under its iterators -- is   *)
(* undefined.  A process that dies takes its threads with it.              *)
(***************************************************************************)
EXTENDS LsmLifecycle

CONSTANT Readers     \* the threads that read

VARIABLE reads       \* where each of them is in get()

readVars == <<lifeVars, reads>>

Outside == [at |-> "outside", key |-> << >>, lvl |-> 0, i |-> 0, found |-> 0]

Found(k, v) == [at |-> "found", key |-> k, lvl |-> 0, i |-> 0, found |-> v]

\* A get() of k is about to look into the i-th segment of the level l.
Before(k, l, i) == [at |-> "segments", key |-> k, lvl |-> l, i |-> i, found |-> 0]

ReadInit ==
    /\ LifeInit
    /\ reads = [r \in Readers |-> Outside]

\* The lock is taken shared, and the memtable comes first ...
GetBegins(r, k) ==
    /\ pc = "ready"
    /\ reads[r] = Outside
    /\ reads' = [reads EXCEPT ![r] = IF mem[k] # 0 THEN Found(k, mem[k]) ELSE Before(k, 0, 1)]
    /\ UNCHANGED lifeVars

\* ... then segment after segment of a level ...
GetLooks(r) ==
    /\ reads[r].at = "segments"
    /\ LET k == reads[r].key
           l == reads[r].lvl
           i == reads[r].i
       IN  /\ i <= Len(segments[l])
           /\ LET v == Search(segments[l][i], k)
              IN  reads' = [reads EXCEPT ![r] = IF v # 0 THEN Found(k, v) ELSE Before(k, l, i + 1)]
    /\ UNCHANGED lifeVars

\* ... and level after level ...
GetGoesOn(r) ==
    /\ reads[r].at = "segments"
    /\ LET k == reads[r].key
           l == reads[r].lvl
       IN  /\ reads[r].i > Len(segments[l])
           /\ reads' = [reads EXCEPT ![r] = IF l < MaxLevel THEN Before(k, l + 1, 1) ELSE Found(k, 0)]
    /\ UNCHANGED lifeVars

\* ... and the lock is let go.
GetEnds(r) ==
    /\ reads[r].at = "found"
    /\ reads' = [reads EXCEPT ![r] = Outside]
    /\ UNCHANGED lifeVars

\* (Mutant.)  put() takes the lock shared.
Exclusive_Shared == TRUE

\* put() gets the lock: no reader holds it.
Exclusive == reads = [r \in Readers |-> Outside]

\* A step of the engine or of a drop, or a death.
Change ==
    /\ Life
    /\ pc = "ready" /\ pc' # "down" => Exclusive
    /\ reads' = [r \in Readers |-> IF pc' = "down" THEN Outside ELSE reads[r]]

ReadNext ==
    \/ Change
    \/ \E r \in Readers : (\E k \in Keys : GetBegins(r, k)) \/ GetLooks(r) \/ GetGoesOn(r) \/ GetEnds(r)

ReadSpec == ReadInit /\ [][ReadNext]_readVars

\* The process finishes what it is doing; nothing is assumed of clients, of
\* deaths, of drops, or of whoever starts the process again.
GoesOn(A) == Engine(A) /\ UNCHANGED <<kills, reads>>
FairReadSpec == ReadSpec /\ WF_readVars(GoesOn(PutStep)) /\ WF_readVars(GoesOn(Recovery))

----------------------------------------------------------------------------
(* Properties *)

\* A get() that goes from the memtable through the segments step by step finds
\* what it would find in one look: no flush moves an entry past it, no compaction
\* deletes a file before its eyes, and no put() comes in between.
\* (get, search_all_segments; put, compact, flush_memtable_to_disk)
GetsAreAtomic ==
    \A r \in Readers : reads[r].at = "found" => reads[r].found = Get(reads[r].key)
=============================================================================
