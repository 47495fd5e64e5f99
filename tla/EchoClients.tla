---------------------------- MODULE EchoClients ----------------------------
(***************************************************************************)
(* The clients of the echo servers of Part-B (client.cpp), and their TCP   *)
(* connections.                                                            *)
(*                                                                         *)
(* A client sends a packet, waits for something to come back, takes the    *)
(* time in between and goes on with the next packet.  Of the bytes only    *)
(* their number counts.  TCP may deliver a packet, or an answer, in pieces. *)
(*                                                                         *)
(* The end of a connection.  Each side hears that the other has closed:    *)
(* "fin" (recv returns 0 once all is read; the first send is accepted, and *)
(* answered with a reset), "broken" (a reset came after the fin: recv      *)
(* returns 0, send ends the process with SIGPIPE) or "reset" (a reset came *)
(* first, since the other side closed with bytes unread: both fail).       *)
(***************************************************************************)
EXTENDS Integers, Sequences, FiniteSets

CONSTANTS Clients,
          Sizes,        \* how large a packet may be: some of 512..1024
          Pieces,       \* how many bytes may come alone
          MaxPackets,   \* bound: so many packets are sent by each client
          MaxCuts       \* bound: so often bytes come in pieces

ASSUME SizeAssumption ==
    /\ Sizes \subseteq 512..1024
    /\ Pieces \subseteq 1..1023
    /\ {MaxPackets, MaxCuts} \subseteq Nat

VARIABLES stage,      \* where each client is: before "new", "send", "recv", "done"
          sent,       \* the sizes of the packets it has sent
          measured,   \* of how many it has taken the time
          socket,     \* the server's end: "none", "queued", "open", "closed"
          toServer,   \* how many bytes wait for the server
          toClient,   \* how many bytes wait for the client
          atServer,   \* what the server's end has heard of the client's end: "no", ...
          atClient,   \* ... and the client's end of the server's
          cuts,       \* how often bytes came in pieces
          torn,       \* auxiliary: the clients whose bytes did
          partial,    \* auxiliary: how often a client took only a piece of what was there
          server      \* "up", "exited" after SIGINT, "killed" by SIGPIPE

connVars == <<stage, sent, measured, socket, toServer, toClient, atServer,
              atClient, cuts, torn, partial, server>>

Each(x) == [c \in Clients |-> x]

ConnInit ==
    /\ stage = Each("new")
    /\ sent = Each(<< >>)
    /\ measured = Each(0)
    /\ socket = Each("none")
    /\ toServer = Each(0)
    /\ toClient = Each(0)
    /\ atServer = Each("no")
    /\ atClient = Each("no")
    /\ cuts = 0
    /\ torn = {}
    /\ partial = Each(0)
    /\ server = "up"

\* What an end has heard when it has sent something: after a fin a reset comes
\* back, at once or later.
HeardAfterSend(heard) == IF heard = "fin" THEN {"fin", "broken"} ELSE {heard}

----------------------------------------------------------------------------
(* run_client() *)

Goes(c, to) == stage' = [stage EXCEPT ![c] = to]

\* The connection is made by the kernel of the server; without a server it is
\* refused.
Connect(c) ==
    /\ stage[c] = "new"
    /\ IF server = "up" THEN Goes(c, "send") /\ socket' = [socket EXCEPT ![c] = "queued"]
                        ELSE Goes(c, "done") /\ UNCHANGED socket
    /\ UNCHANGED <<sent, measured, toServer, toClient, atServer, atClient, cuts, torn,
                   partial, server>>

\* (Mutant.)  The next packet is sent without waiting.
Send_NoWait(c) ==
    /\ stage[c] = "send"
    /\ atClient[c] = "no"
    /\ Len(sent[c]) < MaxPackets
    /\ \E size \in Sizes : sent'     = [sent EXCEPT ![c] = Append(@, size)]
                        /\ toServer' = [toServer EXCEPT ![c] = @ + size]
    /\ UNCHANGED <<stage, measured, socket, toClient, atServer, atClient, cuts, torn,
                   partial, server>>

\* A packet goes out; if the server is gone it goes nowhere.
Send(c) ==
    /\ stage[c] = "send"
    /\ atClient[c] \in {"no", "fin"}
    /\ Len(sent[c]) < MaxPackets
    /\ \E size \in Sizes :
          /\ sent' = [sent EXCEPT ![c] = Append(@, size)]
          /\ toServer' = [toServer EXCEPT ![c] = IF atClient[c] = "no" THEN @ + size ELSE @]
    /\ \E heard \in HeardAfterSend(atClient[c]) : atClient' = [atClient EXCEPT ![c] = heard]
    /\ Goes(c, "recv")
    /\ UNCHANGED <<measured, socket, toClient, atServer, cuts, torn, partial, server>>

\* send() fails and the client returns, or a signal ends it.
SendFails(c) ==
    /\ stage[c] = "send"
    /\ atClient[c] \in {"reset", "broken"}
    /\ Goes(c, "done")
    /\ UNCHANGED <<sent, measured, socket, toServer, toClient, atServer, atClient, cuts,
                   torn, partial, server>>

\* What a read of four bytes finds if everything has come.
AllThere(c) == IF toClient[c] > 4 THEN 4 ELSE toClient[c]

\* recv() returns up to four bytes, of whatever answers they are and less than one
\* answer too, or 0 when the server has closed: the client tells none of this from
\* an answer to its packet.
Recv(c) ==
    /\ stage[c] = "recv"
    /\ toClient[c] > 0 \/ atClient[c] \in {"fin", "broken"}
    /\ \E n \in {AllThere(c)} \cup {n \in Pieces : n < AllThere(c) /\ cuts < MaxCuts} :
          /\ toClient' = [toClient EXCEPT ![c] = @ - n]
          /\ IF n = AllThere(c) THEN UNCHANGED <<cuts, torn, partial>>
             ELSE /\ cuts' = cuts + 1
                  /\ torn' = torn \cup {c}
                  /\ partial' = [partial EXCEPT ![c] = @ + 1]
    /\ measured' = [measured EXCEPT ![c] = @ + 1]
    /\ Goes(c, "send")
    /\ UNCHANGED <<sent, socket, toServer, atServer, atClient, server>>

RecvFails(c) ==
    /\ stage[c] = "recv"
    /\ toClient[c] = 0
    /\ atClient[c] = "reset"
    /\ Goes(c, "done")
    /\ UNCHANGED <<sent, measured, socket, toServer, toClient, atServer, atClient, cuts,
                   torn, partial, server>>

\* The last packet was measured, or the log file could not be opened.  Bytes that
\* were not read turn the fin into a reset; those under way have one follow it.
Close(c) ==
    /\ stage[c] = "send"
    /\ \E heard \in IF toClient[c] = 0 THEN {"fin"} ELSE {"reset", "broken"} :
          atServer' = [atServer EXCEPT ![c] = heard]
    /\ toClient' = [toClient EXCEPT ![c] = 0]
    /\ Goes(c, "done")
    /\ UNCHANGED <<sent, measured, socket, toServer, atClient, cuts, torn, partial,
                   server>>

Client(c) ==
    Connect(c) \/ Send(c) \/ SendFails(c) \/ Recv(c) \/ RecvFails(c) \/ Close(c)

----------------------------------------------------------------------------
(* The server's end of a connection *)

\* (Mutant.)  A packet need not fit.
BUFFER_SIZE_Small == 512

BUFFER_SIZE == 2048

\* How many bytes a read of the server may find.
Reads(c) ==
    {IF toServer[c] < BUFFER_SIZE THEN toServer[c] ELSE BUFFER_SIZE}
        \cup {n \in Pieces : n < toServer[c] /\ cuts < MaxCuts}

Taken(c, n) ==
    /\ toServer' = [toServer EXCEPT ![c] = @ - n]
    /\ UNCHANGED partial
    /\ IF n = toServer[c] \/ n = BUFFER_SIZE THEN UNCHANGED <<cuts, torn>>
                                              ELSE cuts' = cuts + 1 /\ torn' = torn \cup {c}

\* n bytes are sent to the client, who may have closed already.
Answered(c, n) ==
    /\ toClient' = [toClient EXCEPT ![c] = IF atServer[c] = "no" THEN @ + n ELSE @]
    /\ \E heard \in HeardAfterSend(atServer[c]) : atServer' = [atServer EXCEPT ![c] = heard]

\* The server's ends of the connections of S are closed.  One that nobody had
\* accepted, or with bytes unread, is reset.
HungUp(S) ==
    /\ socket' = [c \in Clients |-> IF c \in S THEN "closed" ELSE socket[c]]
    /\ atClient' = [c \in Clients |->
                       IF c \notin S THEN atClient[c]
                       ELSE IF socket[c] = "queued" \/ toServer[c] > 0 THEN "reset" ELSE "fin"]

\* The process of the server ends, and the kernel closes what it had open.
Ends(how) ==
    /\ server' = how
    /\ HungUp({c \in Clients : socket[c] \in {"queued", "open"}})
=============================================================================
