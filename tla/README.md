# DOCS-DB: a verification project

DOCS-DB is a key-value database in three parts: an LSM-tree storage engine
(`src/Part-A`), servers that measure kernel-bypass networking (`src/Part-B`),
and Redis-compatible servers on top of the engine (`src/Part-C`). This
directory holds TLA+ models of it, TLC configurations that check them, and
proofs for TLAPS. The source is the reference: each definition is translated
from the lines that `PROJECT.json` ("map") gives for it.

## 1. The system

| Component | State | Operations | Interacts with |
|---|---|---|---|
| Storage engine, `lsm_tree.cpp` | memtable, log, lists of segments by level, `segment_i`, `tree_mutex` | `put`, `get`, `remove`, `drop_table`, constructor (recovery), destructor; inside `put`: `compact`, `flush_memtable_to_disk`, `wal.clear` | everything below; called by the REPL and the wrappers |
| Segment files, `level.cpp` | one file, its Bloom filter, its sparse index | write from the memtable, merge two files, search, rebuild after a restart, delete (in the destructor) | engine; directory `segments/` |
| Write-ahead log, `wal.cpp` | the file, and the buffer of an open stream | `append`, `clear`, `repopulate_memtable` | engine |
| Memtable, `red_black.cpp`, `node.cpp` | a red-black tree and `byte_size` | `insert`, `remove`, `get`, `floor`, `get_and_delete_all_nodes` | engine; also the sparse index of a segment |
| Bloom filter, `bloom.cpp` | a bit vector | `set`, `is_set` | segments |
| Log entries, `types.h` | - | `to_log_entry`, `split_log_entry`, comparison | log and segments |
| REPL, `repl.cpp` | - | runs the commands of a file | engine |
| Clients and connections (Part-C) | what was sent and not read | format requests; TCP cuts them anywhere | servers |
| Python server, `Part-C/src/server.py` with `lsm_tree.py`, `lsm_tree_wrapper.cpp` | event loops in several threads, one tree, one mutex | SET, GET, DEL, signal handler | engine, clients |
| DPDK server, `Part-C/src/dpdk-server.c` | connections in one loop, one tree | SET, GET, DEL | engine, clients |
| Echo servers, `Part-B/src/server.cpp` (a thread for each connection) and `dpdk_server.cpp` (one event loop) | sockets, threads | accept, answer each read with its length, close | echo clients |
| Echo clients, `Part-B/src/client.cpp` | a socket, the sum of the times taken | send a packet, wait for bytes, take the time | echo servers |
| Scripts, load generators | - | - | servers |

What makes each of them right, and what is hard about it:

* **Engine.** Every key reads as its latest write, whatever was flushed, merged
  and recovered; the code keeps that only in part (section 3). Hard: which of two entries wins a merge depends on the ids of
  the files only; a `put` is a sequence of changes on disk, between any two of
  which the process can die; acknowledged writes sit in three places (stream
  buffer, log file, memtable) that are emptied at different times; recovery
  lists segments in the order of the directory; byte counts and ids wrap.
* **Log.** What a crash leaves is a prefix of the writes, without gaps. Hard:
  the log is cleared by the name of the file while the stream still has entries
  in its buffer.
* **Segment files.** A merge is the union of its inputs with the newer entry
  for a common key; a search finds an entry exactly if the file has it. Hard:
  empty lines end a file, offsets of the index after a restart.
* **Memtable.** A sorted map, balanced; `byte_size` is the size of its entries.
  Hard: recolouring and rotations on removal, sizes on overwrite.
* **Filter.** It never says no of a key it was told of, for any length of its table.
* **Servers.** What is executed was asked for, and whole requests are answered
  in turn. Hard: threads, requests split over reads or several in one, words
  without letters, shutdown while requests run.
* **Echo servers.** A time that a client takes is that of an answer. Hard: packets in
  pieces, answers that run together, connections that close or are reset on either
  side while the other sends, SIGPIPE.

## 2. The modules

| Module | Models | Status |
|---|---|---|
| `KVStore` | what `put` and `get` promise: a write is read back at once, nothing is read that was not written, a crash takes last writes, and when reads are the last writes | done |
| `Wal` | the log file and the stream buffer | done |
| `LsmTree` | the engine: `put` with compaction, flush and clearing step by step, killed at any point of it; restart, replay, restoring of segments; implements `KVStore`; uses `Wal` | done |
| `LsmLifecycle` | `LsmTree` with `drop_table`, the destructor, and kills in the middle of a drop | done |
| `LsmReaders` | `LsmLifecycle` with threads in `get` step by step and the two modes of `tree_mutex` | done |
| `MCLsmTree`, `MCLsmLifecycle`, `MCLsmReaders` | small instances | done |
| `RedBlackTree` | insertion, repairs, removal, `floor`, `byte_size` | done |
| `BloomFilter` | setting and testing the bits of a key | done |
| `SegmentFile`, `MCSegmentFile` | files byte by byte, with filter and index: writing, the merge loop, reading back, searching; uses `BloomFilter` | done |
| `RespClients` | clients and connections of Part-C, shared by both servers | done |
| `PyServer`, `MCPyServer` | loops, mutex, parsing, SET/GET/DEL, signal handler | done |
| `DpdkServer`, `MCDpdkServer` | the loop, parsing with `strtok`, SET/GET/DEL | done |
| `LsmTreeInv`, `LsmLifecycleInv`, `EchoServersInv` | the inductive invariants of `LsmTree`, of `LsmLifecycle` with `LsmReaders`, and of `EchoServers` | done |
| `LsmTreeProofs`, `LsmLifecycleProofs`, `SegmentFileProofs`, `EchoServersProofs`, `RespClientsProofs`, `PyServerProofs`, `DpdkServerProofs` | proofs, section 4; those of segment files and of the servers of Part-C also have their inductive invariants | done |
| `EchoClients` | the clients of Part-B and their TCP connections, to the end of both sides | done |
| `EchoServers`, `MCEchoServers` | `server.cpp` and `dpdk_server.cpp` beside these clients | done |

### Engine: `LsmTree`, `Wal`, `LsmLifecycle`

A write is named by its number. `history[n]` is the key and value of the n-th
acknowledged write; memtable, segments and log hold numbers. The engine's
actions never compare these numbers -- a merge compares the ids of the files, as
`merge_sst_values` does -- but the properties do: the larger number is the
more recent write. A crash that loses acknowledged writes cuts `history` to
those that some file still holds.

| Variable | Code |
|---|---|
| `mem`, `bytes` | `memtable` and `memtable.size()` as the code accounts for it, modulo `Wrap` = 2^64 |
| `segments`, `segment_i` | the members of the same name; a level without segments is an empty list |
| `disk` | the files of `segments/`: path to contents; a path is (id, level) |
| `walFile`, `walBuf` | the log and the buffer of the `std::ofstream` |
| `pc`, `pending`, `lvl`, `merging`, `replayed` | where the process is: local variables of `put`, `compact`, `repopulate_memtable` |
| `history`, `flushed`, `kills` | auxiliary |

`put` holds `tree_mutex` exclusively and `get` holds it shared, so one write is
under way at a time and reads happen at `pc = "ready"`. A write with room in the
memtable is one action (`PutFits`). One that finds it full is cut where the disk
changes: `PutFull`, then for each pair on each level `CompactMerge`,
`CompactDeleteA`, `CompactDeleteB`, and `CompactNext`, then `Flush`, `ClearLog`,
`PutEnds`. The parts of a step that only touch memory belong to that step.

Data are abstracted: keys and values are model values, an entry has a weight
(`Weight`, the size that `rb_entry::size()` counts), a file is a function from
keys to versions. `SegmentFile` shows where a file is that function: keys
have letters and no separator, no string has a newline, and a file that was read
back after a restart is short enough (128 entries) to have no index; `LsmTree`
is about engines whose data and files are so. When the stream spills depends on
byte counts of the library's buffer; in the model it may spill at any append and
has to when `WalCap` entries wait. It writes whole entries, as libstdc++ does.

The process may die at any point. `Crash` is a death between two changes of the disk
that do not belong together: before, between and after writes, while compaction
moves from level to level, before the flush, during recovery. The engine
withstands these. `KillInPut` is a death in one of the windows in which it tears apart
what belongs together: from the flush to the clearing of the log (lsm_tree.cpp:60),
from a merge to its second deletion (lsm_tree.cpp:180), and within a file that is being
written. `kills` counts these, up to `MaxKills`. After one of them entries of the log may
shadow newer ones in a segment, and an old file may be merged again with a new one: keys
come back with older values. What the engine promises only as long as there was none says
so (`kills = 0`); that entries stay under their keys, that lists and files agree, that no
file is overwritten and that no key is lost from the files outlasts all of them.

`KVStore` is what a client sees of that. It calls `put` and `get` and cannot look
inside: `reads` is what `get` returns (`GetValue`, level by level and front to back, as
`search_all_segments` looks), while no write is under way. A write is read back at once,
and no other key changes with it, unless the memtable was full: then the store pauses,
and comes back with reads that may be other ones. `trusted` is what the engine knows of
itself: no level has two segments and no process was killed in a window; then each read is
the last write. At all other times a read is of some write to that very key, or empty.
How many of the last writes a crash takes is left to the store: the engine acknowledges
writes that it has not yet written (run `acked_lost`).

`LsmLifecycle` adds drops, the destructor, and kills in the middle of these.

`LsmReaders` puts threads beside the one that writes. A `get` is cut as the code
cuts it: the memtable (`GetBegins`), then one segment after the other (`GetLooks`) and
one level after the other (`GetGoesOn`), then the lock is let go (`GetEnds`). `Change` is any step of
`LsmLifecycle`: one of a `put`, which gets the lock only when no reader holds it
(`Exclusive`), one of a drop, or a death, which takes the readers with it. A drop takes no
lock; the model has it only while no thread is in the tree, since what it does to a thread in
there is undefined.

### Memtable: `RedBlackTree`

A node is named by the key it holds, and `heap` maps it to its links, color and
size. The code rotates by moving pairs between node objects, so that an object
may come to hold another key. Only two places depend on objects, and they are
explicit: `root` follows its object (`Holds`), and `target` is the node in the
object that `red_black_tree::remove` reads the size from after it is gone. Each
turn of the loops of `fix_insert` and `remove_node` is a step. Where the code
follows a null pointer or goes on with a freed node, `pc` becomes `"undefined"`
and the model stops.

### Segment files: `SegmentFile`

A file is its bytes, a filter (`BloomFilter`) is the set of bits that are set in a table
of some length, an index is a function from keys to offsets. `Hashes` gives each key
three numbers, which the length of the table reduces to bits; the lengths differ for
segments that were flushed, merged and read back, and in the instance keys share
bits, so that the filter also says yes of keys that a segment does not have. `Flush` writes one of two
segments from any small map, `MergeBegins`, `MergeTurn` and `MergeEnds` are
`merge_sst_values` turn by turn, and `Restart` reads all files back. The code
fills a line buffer at the top of the loop if it was used; the model (`reader`)
when it is used, which nothing in between can tell. `holds`, `reopened` and
`unreadable` are auxiliary: what each file is meant to hold, which files have an
index that a restart built, whether the entry of an empty key and an empty value
was written.

### Servers: `RespClients`, `PyServer`, `DpdkServer`

A connection carries tokens, which are the pieces of a request that both
parsers treat alike wherever within them a read ends: the star, the
count, the name of the command with its length, the dollar of a word, its
letters one by one, CR and LF. A word may have a letter that looks like a mark: `'*'` is a
star in a word and `*` the one that begins a request. What clients send is settled in `ConnInit`; when
they send it shows only in when it is read. A read ends where a request ends,
or, `MaxCuts` times, anywhere.

In `PyServer` a connection belongs to an event loop, and a handler keeps its loop
from a read to its answer (there is no await in between that suspends it). `Enter` takes
the wrapper's mutex, and `PutKey`, `GetKey` and `RemoveKey` do the engine's work and
let go of it: one action each, as no other call is in the engine. A DEL is a
`GetKey` and then, through `Enter` again, a `RemoveKey`. `Interrupt` and `Exit` are
the signal handler, which deletes the tree without the mutex; when a call is in
the tree or enters it by then, the behaviour is undefined and the model stops.

`DpdkServer` has one action: a turn of the loop for a connection reads, parses
all requests of what was read, executes them and answers. A line is known by the
place where it starts, as `strtok` returns it; `LineStart` passes over empty ones.
`NameAt`, `SizeAt` and `WordAt` are the lines of one request, and `Parsed` follows the
loop of `parse_resp` from star to star. A word that is met where a request is looked
for does for one if it begins with a star, and one that is met where a length is looked for
does for that if it begins with a dollar; both can happen behind a word without letters. A
star without a number, be it such a word or the end of a read, makes a request without
words, whose command is uninitialised memory; the model stops there. A request that ends
with a word without letters, as the last of a read, is given up without an answer
(dpdk-server.c:202-206).

Neither model trusts the engine for the value of a key. `tree` has the last value written,
but `stale_read` and a rebuilt index make the engine return others. The answer of the DPDK
server to a GET is "value" whatever it is, and nothing else of it depends on the tree. In
`PyServer` a GET or the first half of a DEL finds a value or none, as it happens; `misled`
remembers the DELs that found one where there was none, and these are told apart in
`did`.

### Echo servers: `EchoClients`, `EchoServers`

Only numbers of bytes are modelled, since nobody looks at the bytes. `toServer` and
`toClient` are what is under way or waits to be read; a read of the server takes all
there is, up to `BUFFER_SIZE`, or, `MaxCuts` times, one of `Pieces`; a client takes up to
four bytes of what is there for it, or, counted with the same bound, less than that. A client
is where `run_client` is in its loop (`stage`); how many packets it was told to send
shows in when it closes. `atServer` and `atClient` are what one end of a connection has
heard of the other's end -- nothing, a fin, a reset after a fin, a reset -- because what
`send` and `recv` return depends on nothing else: the rules are those of the Linux
kernel, and external to the repository (`HeardAfterSend`, `HungUp`).

In `server.cpp` a handler's `recv` and its `send` are separate actions, because
clients, other threads and signals come in between. In `dpdk_server.cpp` a turn of the
loop for one connection is one action: F-Stack moves no packet while the loop
runs, and each ready connection comes once. The loop of `Part-C/src/dpdk-server.c`
accepts and closes connections with the same code.

## 3. What is checked

| Run | Shows | Bounds |
|---|---|---|
| `lsm_deep` | `HoldsLatest`, `LogIsTail`, `ReadsLatestWithoutPairs`, `AtMostPairs`, until the first kill in a window; `ImplementsStore`: through it too, `put` and `get` behave like `KVStore`; `TypeOK`, and the inductive invariant `IInv` | 6 writes of entries of two sizes, a memtable of 2 bytes, levels 0 to 2: writes with a value fill the memtable, so that segments are merged up to level 2; those without share it, and bytes drift below zero, which aborts the next flush; crashes and recoveries anywhere, one kill in a window; keys symmetric |
| `life` | `KeysSurvive`, `ListsMatchDisk`, `SegmentsImmutable`, `LifeTypeOK`, through kills, drops and destruction; `LatestSinceDrop`: in the first process a drop is final; `GetsAreAtomic`: a `get` that looks into memtable and segments step by step finds what one look would; `PutEnding`, `RecoveryEnding`: a put that compacts, and a recovery, end or die | 4 writes, each of which fills the memtable (all are removals, since no property of the run looks at values), one kill in a window, two readers: several segments to walk through, and an interrupted merge whose files are merged again |
| `rb_tree` | `KeysKept`, `NewKeysBalanced`, `FloorFound`, `FixEnding`, `TreeTypeOK` | 8 keys inserted in any order, three of them, next to one another in the middle, also written over and removed: with 8 keys a recolouring moves up to a second turn, with inner and outer rotations of either side; a node left doubly black takes ten keys |
| `seg_file` | `SearchFindsAll`, `MergedSoFar`, `IndexNotPast`, `MergeEnding`, `FileTypeOK` | files of up to 2 entries, merged again and again over 4 keys; `SPARSITY_FACTOR` = 1 stands for 128, so that files have indexed and unindexed lines |
| `py_server` | `ExecutedWereSent`, `DeletesPerWrite`, `AllDealtWith`, `PyTypeOK` | 3 connections, two of them on one loop, 3 requests, 1 cut, words of two letters of which one is a dollar: the mutex and a loop are both contended, and words come in pieces |
| `dpdk_server` | `ExecutedWereSent`, `AnsweredInTurn`, `UndefinedOnlyByUntidy`, `DpdkTypeOK` | 2 connections (symmetric), 3 requests that may be in one read, 1 cut, words with and without letters, one that is a star and one that is `$9` |
| `echo` | `RoundTripsAreReal`, `MeasuredAtMostRead`, `KilledByPieces`, `EchoEnding`, `EchoTypeOK`, for both servers | 2 clients, 3 packets of 1024 bytes each, 2 cuts of packets or answers: enough to fill the buffer of 2048, to have answers of one to four digits run together or come in pieces, and for SIGPIPE |

Runs that refute what comments of the code say:

| Run | Refuted | Why |
|---|---|---|
| `stale_read` | `ReadsLatest` (lsm_tree.h:104) | two segments on level 0 are searched oldest first; `put` compacts before it flushes, so level 0 has two segments after every second flush. The trace: a key is written twice, each write flushed to a segment, and `get` returns the first value |
| `acked_lost` | `AcknowledgedKept` (lsm_tree.h:25, wal.h:30) | `append` leaves the line in the buffer of the stream and `put` returns; a crash takes it |
| `dropped_returns` | `DroppedStaysDropped` (lsm_tree.h:125) | the stream buffer survives the drop and is written when the stream closes |
| `rb_remove` | `RemovesAreDefined` (node.cpp:295, 324) | the mirrored case of a red sibling rotates the wrong way and goes on with a node that is freed; from a balanced tree of six keys. The engine never removes from the tree |
| `seg_restart` | `RestartFindsAll` (level.h:91) | the offsets of a rebuilt index do not count newlines; a search that starts in the middle of a value takes its tail for the line of the key. The trace: one flush of four entries, a restart, and a search for the last key finds a value that it never had |

`stale_read` is not the only reason for reads that are not the latest. A kill in a window
may leave older entries where they are found first, and a rebuilt index leads into the
middle of a line. `ReadsLatestWithoutPairs` shows that apart from these three --
two segments on a level, a kill in a window, an index with offsets that a restart rebuilt --
every read is the latest write that is left.

Bounds are named in the modules (`MaxLevel`, `MaxWrites`, `MaxKills`, `WalCap`,
`MaxKey`, `MaxEntries`, `MaxEach`, `MaxAsked`, `MaxPackets`, `MaxCuts`, and `IdsLeft`: ids do not
wrap) and set in the `.cfg` files. `MaxLevel` cuts the levels; nothing is merged on
the last one. Two keys are
enough for an entry to be in one of two files and not in the other; a value and the
empty string are enough for reads to be told apart, because versions are numbers.

Some properties have a limit in their statement, because the code has it:

* `HoldsLatest`, `LogIsTail`, `AtMostPairs` and `ReadsLatestWithoutPairs` speak up to the
  first kill in a window of a `put`, and `trusted` of `KVStore` is false behind one: the code
  does not keep them through such a kill. All of them are about engines whose
  files are searched by what they hold; a restart with files of more than 128 entries
  breaks that (`seg_restart`).
* `LatestSinceDrop` is about the first process: in the next one entries from before the
  drop may come back (`dropped_returns`).
* `KeysKept` and `FloorFound` leave out trees from which a key was removed while they
  were not balanced, and removals that run into freed memory, of which
  `RemovesAreDefined` is. `insert` runs the repair on an overwrite too, where there is
  nothing to repair: after inserting 2, 1, 4, 3, 5, 6, an overwrite of 3 leaves
  the tree unbalanced, and a removal from such a tree can cut off
  other keys. No caller of the engine removes from the tree (a removal is a write
  of the empty string).
* `SearchFindsAll`, `MergedSoFar` and `RestartFindsAll` leave out the empty key, which a merge
  drops (`last_key` is empty at first), and files with an entry without key and value, which ends
  a file for a merge.
* `ExecutedWereSent` allows the last word of a request to be cut short, since
  the Python server stores what has arrived of it, and requests to be left out: of a request
  in two pieces one piece is lost, of several in a read the Python server takes the first.
* `ExecutedWereSent` of the DPDK server is about clients without a star or a dollar in their
  words (`Plain`), however the bytes of others are cut. It is false of the others, without any
  cut: `SET "" "$9"` before another request in one read executes `SET "" "*3"`, because
  the empty key is no line, `$9` is taken for the length and the star of the next request for
  the value (dpdk-server.c:188-211).
* `AnsweredInTurn` is about clients none of whose requests was cut and whose
  words have letters (`tidy`), stars and dollars included: of a request in two pieces neither
  piece is answered, and behind an empty word the next line is taken for the word, or, when
  there is none, the request is given up.
* `UndefinedOnlyByUntidy` says who can make the server read uninitialised memory: of clients
  without stars and dollars, those of whom a read ends within a request, at this very read; of
  the others, also those that send an empty word. `SET k ""` and `GET "*"` in one read
  do it without a cut (dpdk-server.c:176-221).
* `DeletesPerWrite` allows as many deletions of one value as there are loops,
  since a DEL looks and then removes; and it counts no DEL for which the engine found a value
  that its key no longer has.
* `RoundTripsAreReal` is about clients whose packets and answers come whole;
  `MeasuredAtMostRead` and `KilledByPieces` count a piece of an answer that was taken for an
  answer (`partial`). The first two are about a server that runs: when it has ended, `recv` returns 0
  and the client counts that as a round trip.

Read from the code while modelling, and shown by no property: a death between the flush
and `wal.clear()` leaves in the log file the first of the flushed writes (and earlier
ones that were in the stream's buffer); replayed into the memtable they shadow
newer ones in the segment, so that keys come back with older values; a death between the
deletions behind a merge leaves the older file, which a later merge takes for new; a death
within a flush leaves any
part of the memtable in a file, and what was in the stream's buffer is lost, so that a
later write may be read where an earlier one is gone; an overwrite moves
`byte_size` the wrong way (red_black.h:156, node.cpp:200) -- `lsm_deep` has its
consequence, the flush that throws; a removal can leave a
node doubly black when there are ten keys or more; the destructor of the tree drops its
table, so SIGINT on the Python server deletes the data; the DPDK server answers a
GET of a missing key with an empty string and any DEL with OK, and never installs its
signal handler; SIGPIPE ends the echo server with threads, which server.cpp:91 has run until
SIGINT; the REPL destroys its tree at the end of its input, and with it the data.

Fairness is weak, and on what runs by itself. `LsmTree`: the steps of a `put` in
progress and of recovery, which run on the thread that called them and wait for
nothing but the disk. `RedBlackTree` and `SegmentFile`: the turns of a loop that
began. `PyServer`: `Serve` as a whole, i.e. while some handler can go on, one does --
that the operating system and the loops provide; no connection is promised its turn,
since the mutex is not fair, and `AllDealtWith` needs none because what clients send
is finite. Nothing is assumed of clients, of crashes, restarts or signals; the
properties of the engine therefore end in "or dies", that of the server in "or is
interrupted". `DpdkServer` has no fairness and no liveness property. `EchoServers`: each client,
each thread, and the loop for each connection that is ready, as the operating system
and `ff_epoll_wait` provide; none for the interrupt.

`CHECK_DEADLOCK FALSE` stands where the system really may stop: all requests
dealt with, the process ended, all writes made, undefined behaviour.

## 4. What is proved

For all keys, values, weights, limits, word sizes, hash functions, lengths of filters and indexes, clients, readers, packet sizes, and
numbers of levels, writes, kills, cuts, requests and event loops, from the assumptions
on constants that `LsmTree`, `Wal`, `EchoClients`,
`RespClients`, `PyServer`, `DpdkServer`, `BloomFilter` and `SegmentFile` name:

| Theorem | Says |
|---|---|
| `TypeCorrect` (`LsmTreeProofs`) | `[]TypeOK` |
| `Inductive` (`LsmTreeProofs`) | `[]IInv` |
| `HoldsLatestAlways`, `LogIsTailAlways`, `AtMostPairsAlways`, `ReadsLatestWithoutPairsAlways` (`LsmTreeProofs`) | the properties of `lsm_deep`, up to the first kill in a window |
| `Refinement` (`LsmTreeProofs`) | `Spec => ImplementsStore`: `put` and `get` behave like `KVStore`, through kills in windows too |
| `LifeTypeCorrect`, `ListsMatchThroughKills`, `SegmentsImmutableThroughKills`, `KeysSurviveKills`, `LatestSinceDropAlways`, `GetsAreAtomicAlways` (`LsmLifecycleProofs`) | the safety properties of `life`, under kills in every window, drops and destructions |
| `EchoTypeCorrect`, `MeasuredAtMostReadAlways`, `RoundTripsAreRealAlways`, `KilledByPiecesAlways` (`EchoServersProofs`) | the invariants of `echo` |
| `PyTypeCorrect`, `DeletesPerWriteAlways`, `ExecutedWereSentAlways` (`PyServerProofs`) | the invariants of `py_server` |
| `DpdkTypeCorrect`, `ExecutedWereSentAlways`, `AnsweredInTurnAlways`, `UndefinedOnlyByUntidyAlways` (`DpdkServerProofs`) | the properties of `dpdk_server` |
| `FileInductive` (`SegmentFileProofs`) | `[]FileInv`, what the next ones follow from |
| `FileTypeCorrect`, `SearchFindsAllAlways`, `MergedSoFarAlways`, `IndexNotPastAlways` (`SegmentFileProofs`) | the invariants of `seg_file` |
| `NoFalseNegative` (`SegmentFileProofs`) | a filter says yes of what it was told of, and of one key more after `SetIn`, for all hash functions and lengths |

### The engine: `LsmTree`

`TypeOK` is inductive as it stands, because it ties the versions that memtable,
files and log mention to the length of `history`: after a crash has cut `history`,
no number beyond it is left anywhere. There is one lemma for each helper that
actions share (`LogAndInsertType`, `WriteFileType`, `DeleteFileType`, `DieType`) and
one step per action.

None of the other properties is inductive. `HoldsLatest` says that looking in
memtable and files, the newest first, gives the latest write, but why a
merge keeps it so depends on which files it takes. `IInv` (`LsmTreeInv`) has two halves. Through
kills in windows, entries stay under the keys of their writes (`Owned`). As long as there was
no such kill (`kills = 0`), `Layout` and `Content` hold too:
on disk a larger id means later versions (`FilesOrdered`), which merges preserve
because the two files they take are the newest there are: files on a lower level
have larger ids, and the lower levels are empty by then (`LevelOrder`, `Shape`); lists and files
agree but for what a compaction is about to delete; log file and buffer are the last
writes without a gap (`Log`), which is what makes recovery right. `LsmTreeProofs`
proves for each action the parts about ids, lists and files, then those about
versions, and draws the properties from them.
`IdsLeft`, a guard of the actions that take an id, is what the proofs rest on besides
the named assumptions: with wrapping ids `FilesOrdered` fails.

### Refinement

The abstract store sees `get`, and not what the engine holds, so that a step has to be
compared by what `get` returns (`Retrieved`). That is proved for a write that fits into the memtable
(`InsertReads`): the key reads as what was written, as the memtable comes first, and
every other key as before, whatever segments there are. A write that has to wait is a
`Pause`, its steps up to its end are stutters (`Unseen`, `NobodyReads`), and the last one is
`Resume`. What may be read then, and after a recovery, is `Consistent` (`ReadsConsistent`):
any entry that `get` finds stands under its key (`GetOwned`, from `Owned`), through kills in
windows too; and while no level has two segments and there was no such kill, it is the last
write (`LatestIsLast`, from `ReadsLatestWithoutPairs`). Every death of the process is a `Crash`, because it leaves a
prefix of the writes (`DeathIsCrash`).

### The engine with everything: `LsmLifecycle` and `LsmReaders`

Through kills in windows little is left of `IInv`. A file may hold part of a memtable or
of a merge, and two files may be there together with what was merged of them;
larger ids do not mean later versions any more. What is left (`LifeInv`) is
that ids are fresh, that lists and files agree, and that each key of a file that a
merge is about to delete is in the merged file (`MergeHolds`). The proofs of
`LsmTree` about files (`Filing`) are stated for exactly these parts and serve both.

In the first process all of `IInv` but the log is left, for the writes since the last drop.
`Held(d)` is what memtable and files hold of the writes behind the d-th, and `Since(d)`
says that they hold nothing else; `Content` of `LsmTree` is `Held(0)` with the log, so that
its lemmas on writes, flushes and merges (`HeldKept`, `FlushHeld`, `LogAndInsertHeld`)
are used with `d = dropped`. A reader that is in `get` keeps writers out
(`pc = "ready"`), and has found nothing in the memtable and in each
segment that comes before the one it looks into next (`Reading`); so the first hit is
what one look would return.

### Segment files

`SearchFindsAll` says what a search finds, and not what the bytes of a file are, which is
what a merge and a restart read. `FileInv` (`SegmentFileProofs`) says it with the entries
of a file and the offsets of their lines: the bytes are these lines and nothing else
(`IsFile`), in the order of the keys; the filter says yes to the keys; an index has
offsets that are not behind the lines of their keys (`Before`), and until a restart rebuilt it
these very offsets (`Exact`); and unless an entry without key and value was written, what can be
read of the entries is what the segment is to hold (`Readable`). Entries and offsets are no
variables: the invariant says that there are some.

While a merge is under way each stream is at an entry of its file (`ReaderAt`), neither is at
a key before the last one that was merged (`Ahead`), the new file has entries of its own
(`Writes`), and what both files hold up to the last key is there (`Upto`). For a turn that
writes a line of the older file one has to know that the newer file has no such key:
had it one, its stream could not be past it, as what it is past is up to the last
key, and so its next line would have come first (`NotYet`).

Most of the work is about bytes. A key has neither separator nor newline and a value
no newline, so that a line gives back the entry it was made of (`BodyIs`); `getline()` on a
file from the start of a line on gives the lines from there on, and from within a line what is left
of it first (`LinesFrom`). A search that starts at a line with only smaller keys before it
finds the value (`SearchIs`); from an offset that is too small by the newlines before it the line
is still ahead (`StillAhead`), which is all that `IndexNotPast` says and all that a restart leaves.
What an entry more does to file, filter and index is `AddedIs`, for the loops that flush
and that merge; `ReadBackIs` is that for the loop that reads back. The entries of a
memtable are the one sequence that lists it in order (`EntriesAre`), which `MergedSoFar` is
stated with; that there is one is by induction on the number of keys (`HasLists`).

No run has `FileInv` as an invariant, as it quantifies over all sequences; the four
invariants of `seg_file` follow from it.

### Echo servers

Three bounds tie the counts of client and server together. The bytes that wait for
the server are at most 1024 for each packet and each cut that it has not read yet (`Left`), so
it never reads more often than packets and cuts allow. A client may take a time for each
read of the server and one more for each piece of an answer that it took for one (`Times`);
what waits for it, with
four bytes for an answer that a thread is about to send, is at most four bytes for
each of these that was not taken (`Answers`). This gives `MeasuredAtMostRead`, and, as only
a client that was done closes first, that SIGPIPE needs two answers too many. Of a client
whose packets and answers come whole, the reads are its packets one by one and at most
one is under way (`Whole`).

### Python server

`PyInv` (`PyServerProofs`) has four parts. `PyTypes` says what a handler of each stage
has read. `OneOnALoop` says that of the handlers of a loop one at most is between its
read and its answer.

`DeletesInv` counts, for each key, the DELs that the engine did not mislead. While it has a value, no more removals were told of than
there were values before this one, times the loops; when it has none, those that
handlers are about to do (`Removing`) count as well, and the last value with them. It is needed
in this form because a DEL that finds the value adds to `Removing` and to nothing
else, which is harmless only while there still is the value. `Removing` has
at most one handler for each loop, by `OneOnALoop`, and a SET may come
between the two calls of all of these.

`SentInv` says where in its requests a connection is: what is left of it is the rest of
one request, without a star, and then all requests behind the first q (`IsLeft`); the
requests executed and the one at hand are among these q, in order. A read that ends
anywhere leaves such a rest again (`SuffixIsLeft`). If it starts within a request it is no
request, since it has no star at its start; if it starts with one, what `parse_resp`
finds behind its first dollars is that request, whatever was cut off and whatever
followed (`ParsedIs`, `TextIs`). `RespClientsProofs` has what these need to know of a
connection: what `FlattenSeq` computes, and where the stars and dollars of a request are.

The parts quantify over all sequences, so no run has them as an invariant; that they hold
in the reachable states of a small instance was looked at with the sets cut down.

### DPDK server

`ExecutedWereSent` is not inductive: it says nothing of what is still to be read. `DpdkInv`
(`DpdkServerProofs`) adds, as for the Python server, where in its requests a connection
is: what is left is the rest of one request, without the mark of a star, and then
whole requests (`Left`), and for a client without stars and dollars in its words
(`NoMarks`) these are behind all that were executed (`Sent`). Here a read may hold many requests, so the step is a
lemma about the whole loop of `parse_resp`: whatever rest it starts in
and wherever the read ends, the requests that it finds are, one by one and in order,
those sent, but for the end of a last word (`ReadSent`). It is proved backwards along
the places where the loop may be, since the loop at a place depends only on places
behind it (`FromIs`, `Backwards`). The loop passes over the rest of a request because
no line of it begins with a star; of a request that has all of its lines in the read it
finds what was sent, the end of the last word excepted (`RequestRead`), because an
empty word takes the line behind it but none of its letters; and of a request that
lacks lines it finds nothing.

What is executed for other clients is not known but for its shape (`Known`), which is
what `DpdkTypeOK` needs, since what a client stores others read.

For `AnsweredInTurn`, `Tidy` says that of a client whose reads end where requests end
the executed requests are the first of those sent and the rest is left; with words that
have letters each request is found whole (`RequestAll`), and so all that was read (`ReadAll`). `UndefinedOnlyByUntidy` rests
on that of a tidy client all that a read finds are requests that were sent, whatever the letters
of their words are (`ReadAll`), and that a read that ends where a request ends has no star by
itself, if no word has one (`NotAlone`, `ReadFull`).

The proofs are about places in what was read, so `DpdkServer` states the parser by
places too; an earlier form that cut the read into a list of lines first and recursed over
the list was checked by TLC to give the same requests for every read of the run.

### What is only model-checked

Liveness, and the invariants of `RedBlackTree`. What these say is about functions that
recurse over a tree, and about the shapes that insertions, removals and overwrites
in any order leave. The library's induction theorems cannot be instantiated here; for functions
that recurse over numbers, as those of `SegmentFile` and the one behind `FlattenSeq` do, a fact is proved
from the set of the numbers that it holds for (`SetInduction`, from the
well-founded order of the naturals). For trees there is no such order at hand, and with
`KeysKept` and `FloorFound` the limit stated above, trees that were not balanced when
a key was removed, would have to be part of the invariant.

## 5. Not modelled

* The arithmetic of the hash functions: `Hashes` may be any numbers.
* The REPL: one thread that splits lines into words, and a sequence of calls of the
  engine that `LsmLifecycle` has among others (its comment speaks of a thread pool; there
  is none). Client scripts, set-up scripts and result files: no state.
* Of the echo programs: failures of `socket`, `bind`, `listen` and `accept`, a full
  backlog, and the times themselves.
* F-Stack and the packet processing of the DPDK programs: hardware and a library.
* Of the servers: PING and CONFIG, which touch nothing; back-pressure when an answer
  is written; connections that hang up; words with CR or LF in them, which end a line for
  both servers; on the DPDK server also words with a star and digits behind it, which can be
  taken for the beginning of a request with that many words (`StarAssumption`).
* `drop_table` overlapping a `put` or a `get` (its lock is commented out), and what a
  call does in a tree that is being deleted: both race on the same memory at every
  step, which is undefined, so that no outcome could be ruled out. `LsmReaders` has no
  such overlap, and `PyServer` stops in `"undefined"`.
* Wrapping segment ids (65536 flushes and merges): bounded away by `IdsLeft`.
