-------------------------------- MODULE Wal --------------------------------
(***************************************************************************)
(* The write-ahead log (Part-A/src/wal): a file, and the output buffer of  *)
(* the std::ofstream the process holds open on it.  An entry is named by   *)
(* the number of the write that made it (see LsmTree).                     *)
(*                                                                         *)
(* append() hands the entry to the stream and never flushes it, so the     *)
(* entry stays in the buffer until one does not fit any more; the stream   *)
(* then writes the whole buffer and that entry.  When this happens depends *)
(* on the sizes of the entries, which are abstracted: a spill may happen   *)
(* at any append, and happens at the latest when WalCap entries wait.      *)
(* clear() truncates the file by its name, behind the back of the stream.  *)
(***************************************************************************)
EXTENDS Integers, Sequences

CONSTANT WalCap      \* the stream buffers at most that many entries

ASSUME WalCapAssumption == WalCap \in Nat

VARIABLES walFile,   \* the entries in the file
          walBuf     \* the entries still in the buffer of the stream

walVars == <<walFile, walBuf>>

WalInit ==
    /\ walFile = << >>
    /\ walBuf = << >>

\* (Mutant.)  An entry that does not fit overtakes those that wait.
WalSpill_Overtakes(e) ==
    /\ walFile' = Append(walFile, e)
    /\ UNCHANGED walBuf

\* append(): the entry waits in the buffer ...
WalKeep(e) ==
    /\ Len(walBuf) < WalCap
    /\ walBuf' = Append(walBuf, e)
    /\ UNCHANGED walFile

\* ... or does not fit, and goes to the file behind all that waited.
WalSpill(e) ==
    /\ walFile' = walFile \o Append(walBuf, e)
    /\ walBuf' = << >>

WalAppend(e) == WalKeep(e) \/ WalSpill(e)

\* clear(): the file is empty, the buffer is as it was.
WalClear ==
    /\ walFile' = << >>
    /\ UNCHANGED walBuf

\* ~write_ahead_log(): closing the stream writes what waits in its buffer.
WalClose ==
    /\ walFile' = walFile \o walBuf
    /\ walBuf' = << >>

\* The process dies: the buffer dies with it.
WalLose ==
    /\ walBuf' = << >>
    /\ UNCHANGED walFile
=============================================================================
