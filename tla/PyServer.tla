------------------------------ MODULE PyServer ------------------------------
(***************************************************************************)
(* The asyncio server of Part-C (server.py) on the wrapper of the engine   *)
(* (lsm_tree.py, lsm_tree_wrapper.cpp).                                    *)
(*                                                                         *)
(* Several threads run an event loop each, and a connection belongs to one *)
(* loop.  A handler keeps its loop from a read to its answer: nothing      *)
(* between the two suspends it.  Handlers of different loops meet in the   *)
(* engine: ctypes lets go of the interpreter for a call, and a mutex lets  *)
(* one call at a time into the tree.  What the engine finds need not be    *)
(* the last value written (see LsmReaders).                                *)
(*                                                                         *)
(* The handler of SIGINT, in the main thread, deletes the tree without the *)
(* mutex and then ends the process; if a call is in the tree by then, or   *)
(* comes before the end, the model stops in server = "undefined".          *)
(***************************************************************************)
EXTENDS RespClients

CONSTANTS Loops,     \* the event loops
          LoopOf     \* the loop of each client's connection

ASSUME LoopAssumption ==
    /\ IsFiniteSet(Clients) /\ IsFiniteSet(Loops)
    /\ LoopOf \in [Clients -> Loops]

VARIABLES task,      \* what the handler of each connection is about to do
          mutex,     \* the client whose call is in the tree, or Free
          server,    \* "up", "closing" while the tree is deleted, "exited"
          misled     \* auxiliary: the clients for whom a DEL has found a value that
                     \* its key no longer has

vars == <<connVars, task, mutex, server, misled>>

Free    == "free"
Garbled == Request("none", << >>)      \* what is read and is no request
Idle    == [at |-> "read", req |-> Garbled]

Init ==
    /\ ConnInit
    /\ task = [c \in Clients |-> Idle]
    /\ mutex = Free
    /\ server = "up"
    /\ misled = {}

Running == server \in {"up", "closing"}

----------------------------------------------------------------------------
(* Reading *)

\* Where the next dollar behind position i stands, and where the first and the
\* second stand; 0 if there is none.
NextDollar(chunk, i) == SelectInSubSeq(chunk, i + 1, Len(chunk), LAMBDA t : t \in {"$", "$0"})
Dollar(chunk, i) ==
    IF i = 1 THEN NextDollar(chunk, 0) ELSE NextDollar(chunk, NextDollar(chunk, 0))

\* The word behind the dollar at position d: lengths are not looked at, so it ends
\* where its line does, or where the read does.
Text(chunk, d) ==
    LET end == SelectInSubSeq(chunk, d, Len(chunk), LAMBDA t : t = "LF")
    IN  SubSeq(chunk, d + 1, IF end = 0 THEN Len(chunk) ELSE end - 2)

\* parse_resp(): the words behind the first dollars, as many as the first request
\* of the read has; what follows the request is dropped.
Parsed(chunk) ==
    IF Len(chunk) < 3 \/ chunk[1] # "*" \/ Dollar(chunk, Arity(chunk[3])) = 0
    THEN Garbled
    ELSE Request(chunk[3], [i \in 1..Arity(chunk[3]) |-> Text(chunk, Dollar(chunk, i))])

\* No handler runs on the loop.
Quiet(l) == \A c \in Clients : LoopOf[c] = l => task[c] = Idle

\* What the handler of c has read: nothing to be done, or a call of the engine.
Begun(c, req) ==
    IF req = Garbled THEN task
    ELSE [task EXCEPT ![c] = [at |-> IF req.op = "SET" THEN "put" ELSE "get", req |-> req]]

\* (Mutants.)  What was read stays in the buffer; the handler of a DEL waits
\* for something between its two calls.
Read_Keeps(c) ==
    /\ Running
    /\ Quiet(LoopOf[c])
    /\ \E n \in Reads(c) :
          /\ task' = Begun(c, Parsed(SubSeq(stream[c], 1, n)))
          /\ IF task' = task THEN Taken(c, n) ELSE UNCHANGED <<stream, cuts>>
    /\ UNCHANGED <<tree, asked, did, mutex, server, misled>>
Read_Between(c) ==
    /\ Running
    /\ \A d \in Clients :
          LoopOf[d] = LoopOf[c] => task[d] = Idle \/ (d # c /\ task[d].at = "remove" /\ mutex # d)
    /\ \E n \in Reads(c) :
          /\ Taken(c, n)
          /\ task' = Begun(c, Parsed(SubSeq(stream[c], 1, n)))
    /\ UNCHANGED <<tree, asked, did, mutex, server, misled>>

\* handle_client() reads what is there, a piece of it if no more has arrived.  If
\* it is no request the answer is an error.
Read(c) ==
    /\ Running
    /\ Quiet(LoopOf[c])
    /\ \E n \in Reads(c) :
          /\ Taken(c, n)
          /\ task' = Begun(c, Parsed(SubSeq(stream[c], 1, n)))
    /\ UNCHANGED <<tree, asked, did, mutex, server, misled>>

----------------------------------------------------------------------------
(* Calls of the engine *)

\* A call takes the mutex, unless the tree is being deleted.
Enter(c) ==
    /\ Running
    /\ task[c] # Idle
    /\ mutex = Free
    /\ IF server = "up" THEN mutex' = c /\ UNCHANGED server
                        ELSE server' = "undefined" /\ UNCHANGED mutex
    /\ UNCHANGED <<connVars, task, misled>>

InTree(c, call) == Running /\ mutex = c /\ task[c].at = call

Answer(c, answer) ==
    /\ did' = [did EXCEPT ![c] = Append(@, [req |-> task[c].req, answer |-> answer])]
    /\ task' = [task EXCEPT ![c] = Idle]

PutKey(c) ==
    /\ InTree(c, "put")
    /\ tree' = With(tree, task[c].req.args[1], task[c].req.args[2])
    /\ Answer(c, "OK")
    /\ mutex' = Free
    /\ UNCHANGED <<stream, cuts, asked, server, misled>>

HasValue(k) == k \in DOMAIN tree /\ tree[k] # << >>

\* A DEL that has found a value goes on to remove it.
Found(c, found) ==
    IF task[c].req.op = "DEL" /\ found
    THEN /\ task' = [task EXCEPT ![c].at = "remove"]
         /\ misled' = IF HasValue(task[c].req.args[1]) THEN misled ELSE misled \cup {c}
         /\ UNCHANGED did
    ELSE /\ Answer(c, IF found THEN "value" ELSE "not found")
         /\ UNCHANGED misled

\* (Mutant.)  The way out without a value leaves the mutex locked.
GetKey_Locked(c) ==
    /\ InTree(c, "get")
    /\ LET found == HasValue(task[c].req.args[1])
       IN  /\ Found(c, found)
           /\ mutex' = IF found THEN Free ELSE mutex
    /\ UNCHANGED <<stream, cuts, tree, asked, server>>

\* lsm_tree_get(), for a GET or as the first of the two calls of a DEL.  What it
\* finds may be older than the last value written, one that the key had before the
\* server started included: a value or a removal.
GetKey(c) ==
    /\ InTree(c, "get")
    /\ \E found \in BOOLEAN : Found(c, found)
    /\ mutex' = Free
    /\ UNCHANGED <<stream, cuts, tree, asked, server>>

\* The answer is OK; if the look was misled, the model remembers that with it.
RemoveKey(c) ==
    /\ InTree(c, "remove")
    /\ tree' = With(tree, task[c].req.args[1], << >>)
    /\ Answer(c, IF c \in misled THEN "OK, misled" ELSE "OK")
    /\ misled' = misled \ {c}
    /\ mutex' = Free
    /\ UNCHANGED <<stream, cuts, asked, server>>

Call(c) == Enter(c) \/ PutKey(c) \/ GetKey(c) \/ RemoveKey(c)

Serve == \E c \in Clients : Read(c) \/ Call(c)

----------------------------------------------------------------------------
(* The end *)

\* signal_handler() deletes the tree ...
Interrupt ==
    /\ server = "up"
    /\ server' = IF mutex = Free THEN "closing" ELSE "undefined"
    /\ UNCHANGED <<connVars, task, mutex, misled>>

\* ... and ends the process.
Exit ==
    /\ server = "closing"
    /\ server' = "exited"
    /\ UNCHANGED <<connVars, task, mutex, misled>>

----------------------------------------------------------------------------
Next ==
    \/ Serve
    \/ Interrupt
    \/ Exit

\* The server goes on as long as some handler can.  No connection is promised its
\* turn, but what the clients send comes to an end.
Spec == Init /\ [][Next]_vars /\ WF_vars(Serve)

----------------------------------------------------------------------------
(* Properties *)

Answers == {"OK", "OK, misled", "value", "not found"}

\* The stages of the handlers; the mutex belongs to a handler in a call.
PyTypeOK ==
    /\ \A k \in DOMAIN tree : tree[k] \in Seq(Tokens)
    /\ \A c \in Clients :
          /\ task[c].at \in {"read", "put", "get", "remove"}
          /\ task[c].at = "read" <=> task[c].req = Garbled
          /\ \A i \in DOMAIN did[c] : did[c][i].answer \in Answers
    /\ mutex \in Clients \cup {Free}
    /\ mutex # Free => task[mutex] # Idle
    /\ server \in {"up", "closing", "exited", "undefined"}
    /\ misled \subseteq {c \in Clients : task[c].at = "remove"}

\* Whatever words they have, and however the bytes are cut, the server executes for
\* every client only requests that this client sent, each at most once and in the
\* order in which they were sent; only the end of a last word may be lost.
\* (parse_resp, handle_client)
ExecutedWereSent == \A c \in Clients : DidWhatWasSent(c)

\* The requests of the operation op for the key k that were answered OK, each as
\* its client and its place among the client's, and how many there are.
OkSet(op, k) ==
    {p \in UNION {{c} \X DOMAIN did[c] : c \in Clients} :
        LET done == did[p[1]][p[2]]
        IN  done.answer = "OK" /\ done.req.op = op /\ done.req.args[1] = k}
Oks(op, k) == Cardinality(OkSet(op, k))

\* A DEL looks and then removes, so that several may be told that they deleted one
\* value -- but no more than there are loops, because no other handler of a loop
\* comes between the two calls.  The values are those that were set and the one
\* that the engine began with.  A DEL that finds a value where there is none, since
\* the engine gave it an older one, is not counted.  (handle_del)
DeletesPerWrite ==
    \A k \in DOMAIN tree : Oks("DEL", k) <= Cardinality(Loops) * (Oks("SET", k) + 1)

\* Whatever the clients send, in whatever pieces, is read and dealt with, unless
\* the server is interrupted: no handler waits for ever for the mutex or for its
\* loop.  (handle_client, the mutex of the wrapper)
AllDealtWith ==
    <>(server # "up" \/ \A c \in Clients : stream[c] = << >> /\ task[c] = Idle)
=============================================================================
