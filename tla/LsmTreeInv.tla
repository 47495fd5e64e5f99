----------------------------- MODULE LsmTreeInv -----------------------------
(***************************************************************************)
(* The inductive invariant of LsmTree: why the engine holds the latest     *)
(* write of every key, as long as no process is killed in a window.  The   *)
(* merges, which trust the ids of the files, are right because on disk a   *)
(* larger id means a later version (FilesOrdered), and that stays so       *)
(* because what is merged are the two newest files there are (LevelOrder,  *)
(* Shape).  Recovery is right because the log and its buffer are the last  *)
(* writes, without a gap, back to the last flush.                          *)
(***************************************************************************)
EXTENDS LsmTree

\* The files that a merge has made superfluous and not yet deleted, and the
\* one that it has written and not yet listed.
Doomed   == IF merging = << >> THEN {} ELSE {merging[1], merging[2]}
Unlisted == IF merging = << >> THEN {} ELSE {merging[3]}
Live     == DOMAIN disk \ Doomed

\* The memtable reflects the writes up to this one.
Seen ==
    CASE pc = "down"   -> 0
      [] pc = "replay" -> IF replayed = 0 THEN 0 ELSE walFile[replayed]
      [] OTHER         -> Len(history)

\* The memtable holds, of the keys it holds, the latest version it has seen ...
MemSound ==
    \A k \in Keys :
        mem[k] # 0 =>
            /\ mem[k] <= Seen
            /\ history[mem[k]].key = k
            /\ \A m \in mem[k] + 1 .. Seen : history[m].key # k

\* ... and it holds every key written since the flush, or replayed so far.
MemCovers ==
    /\ Serving =>
          \A n \in flushed + 1 .. Len(history) : mem[history[n].key] >= n
    /\ pc = "replay" =>
          \A i \in 1..replayed : mem[history[walFile[i]].key] >= walFile[i]

\* The files hold flushed writes, under their keys, ...
FilesSound ==
    \A p \in DOMAIN disk, k \in Keys :
        disk[p][k] # 0 => disk[p][k] <= flushed /\ history[disk[p][k]].key = k

\* ... of every flushed write after the d-th that one or a later one of the same
\* key, ...
FilesCover(d) ==
    \A n \in d + 1 .. flushed : \E p \in DOMAIN disk : disk[p][history[n].key] >= n

\* ... and later versions in files with larger ids.
FilesOrdered ==
    \A p, q \in DOMAIN disk : Id(p) < Id(q) =>
        \A k \in Keys : disk[p][k] # 0 /\ disk[q][k] # 0 => disk[p][k] <= disk[q][k]

\* No two files have the same id, and the next id is larger than all of them.
FreshIds ==
    /\ \A p, q \in DOMAIN disk : Id(p) = Id(q) => p = q
    /\ \A p \in DOMAIN disk : Id(p) + 1 < IdWrap
    /\ Serving => \A p \in DOMAIN disk : Id(p) < segment_i

\* The lists hold each live file of their level once.
IsListing(s, S) ==
    /\ \A i \in 1..Len(s) : s[i] \in S
    /\ \A i, j \in 1..Len(s) : s[i] = s[j] => i = j
    /\ \A p \in S : \E i \in 1..Len(s) : s[i] = p

Listed ==
    Serving => \A l \in Levels : IsListing(segments[l], (Files(l) \cap Live) \ Unlisted)

\* The keys of the two files that a merge deletes are in the merged file.
MergeHolds ==
    merging # << >> =>
        LET m == merging[3]
        IN  /\ m \in DOMAIN disk /\ Level(m) = lvl + 1 /\ m \notin Doomed
            /\ pc = "deleteB" => merging[1] \notin DOMAIN disk
            /\ \A p \in Doomed \cap DOMAIN disk, k \in Keys :
                  disk[p][k] # 0 => disk[m][k] # 0

\* What keeps the lists and the files together.
Filing == FreshIds /\ Listed /\ MergeHolds

\* Files on a lower level have larger ids.
LevelOrder == \A p, q \in Live : Level(p) < Level(q) => Id(q) < Id(p)

\* At most two files on a level, and two on a level above 0 only if there is
\* none on the levels below.  (On the last level nothing is merged.)
Shape ==
    /\ \A p, q, r \in Live :
          /\ Level(p) < MaxLevel
          /\ Level(q) = Level(p)
          /\ Level(r) = Level(p)
          => p = q \/ q = r \/ p = r
    /\ \A p, q, r \in Live :
          /\ Level(p) < MaxLevel
          /\ Level(q) = Level(p)
          /\ p # q
          => Level(r) >= Level(p)

\* compact() leaves at most one file on the levels that it has passed, and
\* none up to the one that it merges.
Compacted ==
    /\ pc = "compact" \/ pc = "flush" =>
          \A p, q \in Live :
              /\ Level(p) = Level(q)
              /\ IF pc = "compact" THEN Level(p) < lvl ELSE Level(p) < MaxLevel
              => p = q
    /\ merging # << >> => \A p \in Live : Level(p) > lvl

\* What is deleted after a merge is in the merged file, which is the newest.
Merging ==
    merging # << >> =>
        LET a == merging[1]
            b == merging[2]
            m == merging[3]
        IN  /\ m \in DOMAIN disk /\ Level(m) = lvl + 1
            /\ a # b /\ a # m /\ b # m
            /\ b \in DOMAIN disk
            /\ pc = "deleteB" => a \notin DOMAIN disk
            /\ \A p \in Doomed \cap DOMAIN disk :
                  /\ Level(p) = lvl
                  /\ \A k \in Keys : disk[p][k] <= disk[m][k]
            /\ \A p \in DOMAIN disk : Id(p) <= Id(m)

\* s counts up to n.
Numbered(s, n) == \A i \in 1..Len(s) : s[i] = n - Len(s) + i

\* The log file and, behind it, the buffer hold the last writes in order, from
\* the flush or from before it; the file is not older than the flush, unless
\* it is about to be cleared.
Log ==
    LET f == Len(walFile)
        b == Len(walBuf)
    IN  /\ Numbered(walFile, Len(history) - b)
        /\ Numbered(walBuf, Len(history))
        /\ Len(history) - b - f <= flushed
        /\ pc # "clear" /\ f > 0 => Len(history) - b >= flushed
        /\ ~Serving => b = 0
        /\ pc = "clear" => flushed = Len(history)

\* How the files lie, what memtable and files hold of the writes after the d-th,
\* and what they hold of all writes together with the log.
Layout  == FilesOrdered /\ FreshIds /\ Listed /\ LevelOrder /\ Shape /\ Compacted /\ Merging
Held(d) == MemSound /\ MemCovers /\ FilesSound /\ FilesCover(d)
Content == Held(0) /\ Log

\* Every number stands under the key of its write.
Owned ==
    /\ \A k \in Keys : mem[k] # 0 => history[mem[k]].key = k
    /\ \A p \in DOMAIN disk, k \in Keys : disk[p][k] # 0 => history[disk[p][k]].key = k

\* A kill in a window tears apart what Layout and Content hold together; that
\* entries stay under their keys outlasts it.
IInv == TypeOK /\ Owned /\ (kills = 0 => Layout /\ Content)
=============================================================================
