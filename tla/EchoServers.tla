---------------------------- MODULE EchoServers ----------------------------
(***************************************************************************)
(* The two echo servers of Part-B, beside their clients: server.cpp with a *)
(* thread for each connection, and dpdk_server.cpp with one loop over the  *)
(* events of F-Stack.  Both answer each read with the number of its bytes, *)
(* the first in four bytes, the second in decimal digits.                  *)
(*                                                                         *)
(* Which of the two runs is settled at the start.  What ff_epoll_wait()    *)
(* returns has each ready connection once, and the stack moves no packet   *)
(* before the loop is through with it, so that the turns for one           *)
(* connection and for another do not depend on each other: each is an      *)
(* action of its own.                                                      *)
(***************************************************************************)
EXTENDS EchoClients

VARIABLES program,    \* "threads" or "epoll"
          answering,  \* threads: the number a handler is about to send, or 0
          reads       \* auxiliary: how many bytes each read of a connection found

vars == <<connVars, program, answering, reads>>

Init ==
    /\ ConnInit
    /\ program \in {"threads", "epoll"}
    /\ answering = Each(0)
    /\ reads = Each(<< >>)

Serves(c, p) == program = p /\ server = "up" /\ socket[c] = "open"

----------------------------------------------------------------------------
(* server.cpp *)

\* main() accepts a connection and starts a thread for it.
Accept(c) ==
    /\ program = "threads"
    /\ server = "up"
    /\ socket[c] = "queued"
    /\ socket' = [socket EXCEPT ![c] = "open"]
    /\ UNCHANGED <<stage, sent, measured, toServer, toClient, atServer, atClient, cuts,
                   torn, partial, server, program, answering, reads>>

\* handleClient() receives.
HandlerRecv(c) ==
    /\ Serves(c, "threads")
    /\ answering[c] = 0
    /\ toServer[c] > 0
    /\ \E n \in Reads(c) :
          /\ Taken(c, n)
          /\ answering' = [answering EXCEPT ![c] = n]
          /\ reads' = [reads EXCEPT ![c] = Append(@, n)]
    /\ UNCHANGED <<stage, sent, measured, socket, toClient, atServer, atClient, server,
                   program>>

\* (Mutant.)  The thread ends and the socket stays open.
HandlerCloses_Not(c) == FALSE

\* There is nothing left to receive: the thread closes the socket and ends.
HandlerCloses(c) ==
    /\ Serves(c, "threads")
    /\ answering[c] = 0
    /\ toServer[c] = 0
    /\ atServer[c] # "no"
    /\ HungUp({c})
    /\ UNCHANGED <<stage, sent, measured, toServer, toClient, atServer, cuts, torn,
                   partial, server, program, answering, reads>>

\* (Mutant.)  The connection is closed behind the first answer.
HandlerSend_Once(c) ==
    /\ Serves(c, "threads")
    /\ answering[c] > 0
    /\ atServer[c] \in {"no", "fin"}
    /\ Answered(c, 4)
    /\ HungUp({c})
    /\ answering' = [answering EXCEPT ![c] = 0]
    /\ UNCHANGED <<stage, sent, measured, toServer, cuts, torn, partial, server,
                   program, reads>>

\* It sends the number.
HandlerSend(c) ==
    /\ Serves(c, "threads")
    /\ answering[c] > 0
    /\ atServer[c] \in {"no", "fin"}
    /\ Answered(c, 4)
    /\ answering' = [answering EXCEPT ![c] = 0]
    /\ UNCHANGED <<stage, sent, measured, socket, toServer, atClient, cuts, torn,
                   partial, server, program, reads>>

\* send() fails: the thread closes the socket and ends.
HandlerSendFails(c) ==
    /\ Serves(c, "threads")
    /\ answering[c] > 0
    /\ atServer[c] = "reset"
    /\ HungUp({c})
    /\ answering' = [answering EXCEPT ![c] = 0]
    /\ UNCHANGED <<stage, sent, measured, toServer, toClient, atServer, cuts, torn,
                   partial, server, program, reads>>

\* send() raises SIGPIPE, which nobody handles: the whole server is gone.
HandlerKills(c) ==
    /\ Serves(c, "threads")
    /\ answering[c] > 0
    /\ atServer[c] = "broken"
    /\ Ends("killed")
    /\ UNCHANGED <<stage, sent, measured, toServer, toClient, atServer, cuts, torn,
                   partial, program, answering, reads>>

Thread(c) ==
    \/ Accept(c)
    \/ HandlerRecv(c) \/ HandlerCloses(c)
    \/ HandlerSend(c) \/ HandlerSendFails(c) \/ HandlerKills(c)

\* The handler of SIGINT leaves through exit().
Interrupt ==
    /\ program = "threads"
    /\ server = "up"
    /\ Ends("exited")
    /\ UNCHANGED <<stage, sent, measured, toServer, toClient, atServer, cuts, torn,
                   partial, program, answering, reads>>

----------------------------------------------------------------------------
(* dpdk_server.cpp *)

\* How many characters the decimal form of n has.
Digits(n) ==
    IF n < 10 THEN 1 ELSE IF n < 100 THEN 2 ELSE IF n < 1000 THEN 3 ELSE 4

\* The turn for the listening socket accepts until nobody waits.
EpollAccepts ==
    /\ program = "epoll"
    /\ \E c \in Clients : socket[c] = "queued"
    /\ socket' = [c \in Clients |-> IF socket[c] = "queued" THEN "open" ELSE socket[c]]
    /\ UNCHANGED <<stage, sent, measured, toServer, toClient, atServer, atClient, cuts,
                   torn, partial, server, program, answering, reads>>

\* A connection with something to read: it is read and answered at once, and
\* nobody looks whether ff_write() failed.
EpollReads(c) ==
    /\ Serves(c, "epoll")
    /\ toServer[c] > 0
    /\ \E n \in Reads(c) :
          /\ Taken(c, n)
          /\ Answered(c, Digits(n))
          /\ reads' = [reads EXCEPT ![c] = Append(@, n)]
    /\ UNCHANGED <<stage, sent, measured, socket, atClient, server, program, answering>>

\* One with nothing to read, or with an error whether or not there is.
EpollCloses(c) ==
    /\ Serves(c, "epoll")
    /\ \/ toServer[c] = 0 /\ atServer[c] # "no"
       \/ atServer[c] \in {"reset", "broken"}
    /\ HungUp({c})
    /\ UNCHANGED <<stage, sent, measured, toServer, toClient, atServer, cuts, torn,
                   partial, server, program, answering, reads>>

Event(c) == EpollReads(c) \/ EpollCloses(c)

----------------------------------------------------------------------------
ClientStep(c) == Client(c) /\ UNCHANGED <<program, answering, reads>>

Next ==
    \/ \E c \in Clients : ClientStep(c) \/ Thread(c) \/ Event(c)
    \/ EpollAccepts
    \/ Interrupt

\* Every client, every thread and the loop go on when they can, and the loop comes
\* to every connection that is ready.  Nobody has to interrupt the server.
Spec ==
    /\ Init /\ [][Next]_vars
    /\ \A c \in Clients : WF_vars(ClientStep(c)) /\ WF_vars(Thread(c)) /\ WF_vars(Event(c))
    /\ WF_vars(EpollAccepts)

----------------------------------------------------------------------------
(* Properties *)

\* The stages; no more bytes are taken than there are; a thread has something to
\* send only while its socket is open; only the server with threads ends.
EchoTypeOK ==
    /\ \A c \in Clients :
          /\ stage[c] \in {"new", "send", "recv", "done"}
          /\ socket[c] \in {"none", "queued", "open", "closed"}
          /\ {atServer[c], atClient[c]} \subseteq {"no", "fin", "broken", "reset"}
          /\ toServer[c] \in Nat /\ toClient[c] \in Nat
          /\ sent[c] \in Seq(Sizes)
          /\ Len(reads[c]) <= Len(sent[c]) + cuts
          /\ measured[c] \in {Len(sent[c]), Len(sent[c]) - 1}
          /\ answering[c] > 0 => socket[c] # "queued"
          /\ partial[c] \in 0..cuts
    /\ server \in {"up", "exited", "killed"}
    /\ program = "epoll" => server = "up"

\* A client whose packets came whole: each read of the server is one of its packets,
\* in turn, and each time it took is that of such an answer, as long as the server
\* runs.  (run_client; handleClient, loop)
RoundTripsAreReal ==
    server = "up" =>
        \A c \in Clients : c \notin torn =>
            /\ Len(reads[c]) <= Len(sent[c])
            /\ \A i \in DOMAIN reads[c] : reads[c][i] = sent[c][i]
            /\ measured[c] <= Len(reads[c])

\* Even if packets come in pieces, and answers in pieces or run together: a client
\* has taken at most as many times as the server has answered reads, and one more
\* for each time that it took a piece of an answer for a whole one, as long as the
\* server runs.  (run_client; handleClient, loop)
MeasuredAtMostRead ==
    server = "up" => \A c \in Clients : measured[c] <= Len(reads[c]) + partial[c]

\* SIGPIPE takes the server with threads down only when two answers to some client
\* were too many: the reads of its packets, and the pieces of answers that it took
\* for answers, are at least two more than its packets.  (handleClient)
KilledByPieces ==
    server = "killed" =>
        \E c \in Clients : Len(reads[c]) + partial[c] >= Len(sent[c]) + 2

\* Every client comes to its end, and the server closes its connection.
\* (run_client; handleClient, loop)
EchoEnding ==
    \A c \in Clients :
        <>(stage[c] = "done" /\ (server = "up" => socket[c] \in {"none", "closed"}))
=============================================================================
