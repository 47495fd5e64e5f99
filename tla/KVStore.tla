------------------------------ MODULE KVStore ------------------------------
(***************************************************************************)
(* What a client may rely on of the storage engine of DOCS-DB, put() and   *)
(* get() being all it sees.                                                *)
(*                                                                         *)
(* A write is read back at once, and changes no other key.  Reads do not   *)
(* change by themselves.  What is read was written to that very key, or is *)
(* empty; it is the last write while the store can be trusted.  A write    *)
(* may take the store through a pause (compaction and flush), and whether  *)
(* it can be trusted afterwards is the store's choice.  A crash takes some *)
(* of the last writes; which is the store's choice too.                    *)
(***************************************************************************)
EXTENDS Integers, Sequences

CONSTANTS Keys,      \* the keys
          Values,    \* what a key can be given
          Empty      \* what a key reads as when it has no value

VARIABLES log,       \* the acknowledged writes, up to the last one left: [key, value]
          mode,      \* "ready", "busy" with a write, or "down"
          trusted,   \* TRUE while every key reads as its last write
          reads      \* what the keys read as while the store is ready

vars == <<log, mode, trusted, reads>>

WritesTo(k) == {i \in 1..Len(log) : log[i].key = k}

\* What the last write to the key gave it.
Last(k) ==
    IF WritesTo(k) = {} THEN Empty
    ELSE log[CHOOSE i \in WritesTo(k) : \A j \in WritesTo(k) : j <= i].value

\* Some write gave the key what is read, or there is nothing; it is the last write
\* if the store is to be trusted.
Consistent ==
    \A k \in Keys :
        /\ reads[k] \in {Empty} \cup {log[i].value : i \in WritesTo(k)}
        /\ trusted => reads[k] = Last(k)

\* Nobody can read.
Silent ==
    /\ trusted = FALSE
    /\ reads = [k \in Keys |-> Empty]

Acknowledged(k, v) == log' = Append(log, [key |-> k, value |-> v])

Init ==
    /\ log = << >>
    /\ mode = "ready"
    /\ trusted = TRUE
    /\ reads = [k \in Keys |-> Empty]

\* A write is acknowledged: it is what the key reads as, and the other keys read as
\* before.
Write(k, v) ==
    /\ mode = "ready"
    /\ Acknowledged(k, v)
    /\ reads' = [reads EXCEPT ![k] = v]
    /\ UNCHANGED <<mode, trusted>>

\* A write makes the store reorganise itself first ...
Pause ==
    /\ mode = "ready"
    /\ mode' = "busy"
    /\ Silent'
    /\ UNCHANGED log

\* ... and is then acknowledged.
Resume(k, v) ==
    /\ mode = "busy"
    /\ mode' = "ready"
    /\ Acknowledged(k, v)
    /\ Consistent'
    /\ reads'[k] = v

\* A crash takes the writes after some point.
Crash ==
    /\ \E n \in 0..Len(log) : log' = SubSeq(log, 1, n)
    /\ mode' = "down"
    /\ Silent'

\* The store comes back with the writes that are left.
Recover ==
    /\ mode = "down"
    /\ mode' = "ready"
    /\ Consistent'
    /\ UNCHANGED log

Next ==
    \/ \E k \in Keys, v \in Values : Write(k, v) \/ Resume(k, v)
    \/ Pause \/ Crash \/ Recover

Spec == Init /\ [][Next]_vars
=============================================================================
