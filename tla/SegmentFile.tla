---------------------------- MODULE SegmentFile ----------------------------
(***************************************************************************)
(* A segment as level.cpp keeps it: a file of lines "key,value\n" in the   *)
(* order of the keys, a Bloom filter, and a sparse index that maps every   *)
(* (SPARSITY_FACTOR + 1)st key to the offset of its line.                  *)
(*                                                                         *)
(* Offsets are what may go wrong here, so files are sequences of bytes.    *)
(* A byte is a number; the newline is less than the separator and the      *)
(* separator less than the letters, as in ASCII.  One file is written from *)
(* the memtable or both are merged into one, a turn of the loop at a time; *)
(* a restart reads them back.  The index is a function here, the tree that *)
(* holds it in the code is in RedBlackTree.                                *)
(***************************************************************************)
EXTENDS BloomFilter, SequencesExt

\* Keys and values are strings: sequences of bytes.
CONSTANTS Values,
          SPARSITY_FACTOR,
          FlushBits, MergeBits, MEMTABLE_SIZE,    \* the length of the filter of a segment
                               \* that was flushed, merged, or read back
          MaxEntries           \* the entries of a memtable when it is flushed

NEWLINE   == 0
SEPERATOR == 1

\* No string spans lines, and no key the separator.
ASSUME FileAssumption ==
    /\ {SPARSITY_FACTOR, MaxEntries} \subseteq Nat
    /\ {FlushBits, MergeBits, MEMTABLE_SIZE} \subseteq Nat \ {0}
    /\ \A s \in Keys \cup Values : s \in Seq(Nat \ {NEWLINE})
    /\ \A k \in Keys : ~Contains(k, SEPERATOR)

VARIABLES
    segment,     \* the segments there are: "a" is newer than "b"
    pc,          \* "idle", or "merge" in the loop of merge_sst_values()
    reader,      \* the streams and what was read from them, for "a" and "b"
    last_key,    \* the key of the last line that was merged
    merged,      \* the segment that is being written
    holds,       \* auxiliary: what each segment was meant to hold
    reopened,    \* auxiliary: the segments whose index was rebuilt and is not empty
    unreadable   \* auxiliary: an entry without key and value was written

auxVars == <<holds, reopened, unreadable>>
vars    == <<segment, pc, reader, last_key, merged, auxVars>>

Sources == {"a", "b"}

\* The order of std::string.
Less(s, t) ==
    \E n \in 0..Len(s) :
        /\ n < Len(t)
        /\ SubSeq(s, 1, n) = SubSeq(t, 1, n)
        /\ n = Len(s) \/ s[n + 1] < t[n + 1]

Leq(s, t) == s = t \/ Less(s, t)

\* No value: a string that no line gives.
None == <<NEWLINE>>

\* The function f with v at k.
With(f, k, v) == [x \in DOMAIN f \cup {k} |-> IF x = k THEN v ELSE f[x]]

----------------------------------------------------------------------------
(* Lines *)

Empty(e) == e.key = << >> /\ e.val = << >>

\* kv_pair::to_log_entry()
Line(e) == e.key \o <<SEPERATOR>> \o e.val \o <<NEWLINE>>

\* The position of the byte c in s, or one more than there are bytes.
FirstOf(c, s) ==
    LET at == {i \in DOMAIN s : s[i] = c}
    IN  IF at = {} THEN Len(s) + 1 ELSE Min(at)

\* What getline() takes from a stream, without the newline, and what it leaves.
Got(bytes)  == SubSeq(bytes, 1, FirstOf(NEWLINE, bytes) - 1)
Left(bytes) == SubSeq(bytes, FirstOf(NEWLINE, bytes) + 1, Len(bytes))

\* kv_pair::split_log_entry(), and the same in level::search().  A line without
\* a separator is its own key, and its own value: npos + 1 is 0.
Split(line) ==
    LET i == FirstOf(SEPERATOR, line)
    IN  [key |-> SubSeq(line, 1, i - 1),
         val |-> IF i > Len(line) THEN line ELSE SubSeq(line, i + 1, Len(line))]

\* The lines that getline() reads until the end of the file: those of its last m
\* bytes, for each m.
Lines(bytes) ==
    LET ofLast[m \in 0..Len(bytes)] ==
            LET rest == SubSeq(bytes, Len(bytes) - m + 1, Len(bytes))
            IN  IF m = 0 THEN << >> ELSE <<Got(rest)>> \o ofLast[Len(Left(rest))]
    IN  ofLast[Len(bytes)]

----------------------------------------------------------------------------
(* Writing *)

\* A file to which nothing was written yet: its bytes, its filter of n bits, the
\* index, and the counters of the writing loop.
Blank(n) == [bytes |-> << >>, bloom |-> Filter(n), index |-> << >>, sparsity_i |-> 0, pos |-> 0]

\* The index gets the key of the entry when SPARSITY_FACTOR entries went by since
\* the last one that it got.
Indexed(s, key) ==
    IF s.sparsity_i = SPARSITY_FACTOR
    THEN [s EXCEPT !.index = With(@, key, s.pos), !.sparsity_i = 0]
    ELSE [s EXCEPT !.sparsity_i = @ + 1]

\* (Mutants.)  The offset is taken after the line; the newline does not count;
\* the filter is not told of the key.
Added_Late(s, e) ==
    LET t == [s EXCEPT !.pos = @ + Len(Line(e))]
    IN  [Indexed(t, e.key) EXCEPT !.bytes = @ \o Line(e), !.bloom = SetIn(@, e.key)]
Added_NoNewline(s, e) ==
    [Indexed(s, e.key) EXCEPT !.bytes = @ \o Line(e),
                              !.bloom = SetIn(@, e.key),
                              !.pos = @ + Len(Line(e)) - 1]
Added_Unset(s, e) ==
    [Indexed(s, e.key) EXCEPT !.bytes = @ \o Line(e), !.pos = @ + Len(Line(e))]

\* One entry goes to the file, the filter and the index.
Added(s, e) ==
    [Indexed(s, e.key) EXCEPT !.bytes = @ \o Line(e),
                              !.bloom = SetIn(@, e.key),
                              !.pos = @ + Len(Line(e))]

\* What outlives the loop: the file, the filter and the index.
Written(s) == [bytes |-> s.bytes, bloom |-> s.bloom, index |-> s.index]

\* The entries of a map in the order of their keys.
Entries(map) ==
    LET Nth(i) == CHOOSE k \in DOMAIN map : Cardinality({l \in DOMAIN map : Less(l, k)}) = i - 1
    IN  [i \in 1..Cardinality(DOMAIN map) |-> [key |-> Nth(i), val |-> map[Nth(i)]]]

\* create_sst_from_memtable()
Created(map) ==
    LET entries == Entries(map)
        after[i \in 0..Len(entries)] ==
            IF i = 0 THEN Blank(FlushBits) ELSE Added(after[i - 1], entries[i])
    IN  Written(after[Len(entries)])

\* One line is read back: the newline does not count.
ReadBack(s, line) ==
    [Indexed(s, Split(line).key) EXCEPT !.bloom = SetIn(@, Split(line).key),
                                        !.pos = @ + Len(line)]

\* repopulate_bloom_and_index()
Reopened(s) ==
    LET lines == Lines(s.bytes)
        after[i \in 0..Len(lines)] ==
            IF i = 0 THEN [Blank(MEMTABLE_SIZE) EXCEPT !.bytes = s.bytes]
            ELSE ReadBack(after[i - 1], lines[i])
    IN  Written(after[Len(lines)])

----------------------------------------------------------------------------
(* Searching *)

\* index.floor(): where the last indexed key that is not above the target is.
StartPos(s, target) ==
    LET below == {k \in DOMAIN s.index : Leq(k, target)}
    IN  IF below = {} THEN 0
        ELSE s.index[CHOOSE k \in below : \A l \in below : Leq(l, k)]

\* The lines from there on are read up to the first whose key is not below the
\* target.
Scan(s, target) ==
    LET lines == Lines(SubSeq(s.bytes, StartPos(s, target) + 1, Len(s.bytes)))
        i == SelectInSeq(lines, LAMBDA line : ~Less(Split(line).key, target))
    IN  IF i = 0 \/ Less(target, Split(lines[i]).key) THEN None ELSE Split(lines[i]).val

\* level::search(): the filter first.
Search(s, target) == IF IsSetIn(s.bloom, target) THEN Scan(s, target) ELSE None

----------------------------------------------------------------------------
(* The life of two segments *)

Nowhere == [rest |-> << >>, line |-> << >>, end |-> FALSE, kv |-> [key |-> << >>, val |-> << >>]]

Init ==
    /\ segment = << >>
    /\ pc = "idle"
    /\ reader = [x \in Sources |-> Nowhere]
    /\ last_key = << >>
    /\ merged = Blank(MergeBits)
    /\ holds = << >>
    /\ reopened = {}
    /\ unreadable = FALSE

\* The maps that a memtable may be when it is flushed.
Memtables ==
    UNION {[K -> Values] : K \in {K \in SUBSET Keys : IsFiniteSet(K) /\ Cardinality(K) \in 1..MaxEntries}}

\* The memtable is written to a new segment.
Flush(map) ==
    /\ pc = "idle"
    /\ "a" \notin DOMAIN segment
    /\ LET x == IF "b" \in DOMAIN segment THEN "a" ELSE "b"
       IN  /\ segment' = With(segment, x, Created(map))
           /\ holds' = With(holds, x, map)
    /\ unreadable' = (unreadable \/ \E i \in DOMAIN Entries(map) : Empty(Entries(map)[i]))
    /\ UNCHANGED <<pc, reader, last_key, merged, reopened>>

\* The process is started again and reads the segments.
Restart ==
    /\ pc = "idle"
    /\ segment' = [x \in DOMAIN segment |-> Reopened(segment[x])]
    /\ reopened' = {x \in DOMAIN segment : segment'[x].index # << >>}
    /\ UNCHANGED <<pc, reader, last_key, merged, holds, unreadable>>

\* A line is read if the last one was used and the file is not at its end; an
\* empty line is an end.  The code does so at the top of the loop, the model when
\* the line before is used.
Refilled(r) ==
    IF r.line # << >> \/ r.end THEN r
    ELSE LET line == Got(r.rest)
         IN  [rest |-> Left(r.rest), line |-> line, end |-> line = << >>, kv |-> Split(line)]

Used(r) == Refilled([r EXCEPT !.line = << >>])

MergeBegins ==
    /\ pc = "idle"
    /\ DOMAIN segment = Sources
    /\ pc' = "merge"
    /\ reader' = [x \in Sources |-> Refilled([Nowhere EXCEPT !.rest = segment[x].bytes])]
    /\ last_key' = << >>
    /\ merged' = Blank(MergeBits)
    /\ UNCHANGED <<segment, auxVars>>

\* (Mutant.)  The older file's line wins.
NextFrom_Older ==
    LET a == reader["a"].kv
        b == reader["b"].kv
    IN  IF ~Empty(a) /\ (Empty(b) \/ Less(a.key, b.key)) THEN "a" ELSE "b"

\* The file that gives the next line: of two lines with one key, the newer file.
NextFrom ==
    LET a == reader["a"].kv
        b == reader["b"].kv
    IN  IF ~Empty(a) /\ (Empty(b) \/ Leq(a.key, b.key)) THEN "a" ELSE "b"

\* (Mutant.)  A line that is dropped is not used up.
MergeTurn_Stays ==
    /\ pc = "merge"
    /\ \E x \in Sources : ~Empty(reader[x].kv)
    /\ LET e == reader[NextFrom].kv
       IN  /\ reader' = IF e.key = last_key THEN reader ELSE [reader EXCEPT ![NextFrom] = Used(@)]
           /\ last_key' = e.key
           /\ merged' = IF e.key = last_key THEN merged ELSE Added(merged, e)
    /\ UNCHANGED <<segment, pc, auxVars>>

\* One turn of the loop of merge_sst_values(): a line is dropped if its key is
\* that of the line before.
MergeTurn ==
    /\ pc = "merge"
    /\ \E x \in Sources : ~Empty(reader[x].kv)
    /\ LET e == reader[NextFrom].kv
       IN  /\ reader' = [reader EXCEPT ![NextFrom] = Used(@)]
           /\ last_key' = e.key
           /\ merged' = IF e.key = last_key THEN merged ELSE Added(merged, e)
    /\ UNCHANGED <<segment, pc, auxVars>>

\* What the newer segment holds, and what only the older one does.
Both ==
    LET a == holds["a"]
        b == holds["b"]
    IN  [k \in DOMAIN a \cup DOMAIN b |-> IF k \in DOMAIN a THEN a[k] ELSE b[k]]

\* Neither file has another line; the merged segment replaces the two.
MergeEnds ==
    /\ pc = "merge"
    /\ \A x \in Sources : Empty(reader[x].kv)
    /\ segment' = [x \in {"b"} |-> Written(merged)]
    /\ holds' = [x \in {"b"} |-> Both]
    /\ reopened' = {}
    /\ pc' = "idle"
    /\ reader' = [x \in Sources |-> Nowhere]
    /\ last_key' = << >>
    /\ merged' = Blank(MergeBits)
    /\ UNCHANGED unreadable

Merging == MergeTurn \/ MergeEnds

Next ==
    \/ \E map \in Memtables : Flush(map)
    \/ Restart
    \/ MergeBegins
    \/ Merging

\* The loop goes on.
Spec == Init /\ [][Next]_vars /\ WF_vars(Merging)

----------------------------------------------------------------------------
(* Properties *)

IsSegment(s) ==
    /\ s.bytes \in Seq(Nat)
    /\ s.bloom.table \subseteq 0..s.bloom.length - 1
    /\ DOMAIN s.index \subseteq Keys
    /\ \A k \in DOMAIN s.index : s.index[k] \in 0..Len(s.bytes)

FileTypeOK ==
    /\ DOMAIN segment \subseteq Sources
    /\ \A x \in DOMAIN segment : IsSegment(segment[x])
    /\ pc \in {"idle", "merge"}
    /\ IsSegment(merged)
    /\ merged.sparsity_i \in 0..SPARSITY_FACTOR
    /\ merged.pos = Len(merged.bytes)
    /\ last_key \in Keys \cup {<< >>}
    /\ DOMAIN holds = DOMAIN segment
    /\ reopened \subseteq DOMAIN segment
    /\ unreadable \in BOOLEAN

Held(x, k) == IF k \in DOMAIN holds[x] THEN holds[x][k] ELSE None

\* Whatever was flushed and merged, a search finds the value of every key that
\* the segment is to hold, and nothing for other keys.  Two limits: the empty key,
\* which a merge drops, and an entry without key and value, which ends a file for
\* a merge.  After a restart it is so for files too short to have an index.
\* (search, with create_sst_from_memtable, merge_sst_values and
\* repopulate_bloom_and_index)
SearchFindsAll ==
    pc = "idle" /\ ~unreadable =>
        \A x \in DOMAIN segment, k \in Keys \ {<< >>} :
            x \notin reopened => Search(segment[x], k) = Held(x, k)

\* While two files are merged, the new one holds what the two hold up to the last
\* key, each key once and in order, the newer value for a key of both.
\* (merge_sst_values)
MergedSoFar ==
    pc = "merge" /\ ~unreadable =>
        LET done  == {k \in DOMAIN Both \ {<< >>} : Leq(k, last_key)}
            lines == Lines(merged.bytes)
        IN  [i \in DOMAIN lines |-> Split(lines[i])] = Entries([k \in done |-> Both[k]])

\* From the offset of a key in the index its line is still ahead, after a restart
\* too: the offsets may then be too small, never too large.
\* (repopulate_bloom_and_index)
IndexNotPast ==
    \A x \in DOMAIN segment : \A k \in DOMAIN segment[x].index :
        LET s == segment[x]
            ahead == Lines(SubSeq(s.bytes, s.index[k] + 1, Len(s.bytes)))
        IN  \E i \in DOMAIN ahead : Split(ahead[i]).key = k

\* A merge comes to an end, whatever the files hold.
MergeEnding == pc = "merge" ~> pc = "idle"

\* level.h:91 says of search() that it returns "The value associated with the key
\* if found, otherwise an empty optional": of a key in the file, the value, also
\* by an index that level.h:69 calls repopulated.
RestartFindsAll ==
    pc = "idle" /\ ~unreadable =>
        \A x \in reopened : \A k \in DOMAIN holds[x] \ {<< >>} :
            Search(segment[x], k) = Held(x, k)
=============================================================================
