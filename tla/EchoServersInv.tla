--------------------------- MODULE EchoServersInv ---------------------------
(***************************************************************************)
(* The inductive invariant of EchoServers.  A client and the server count  *)
(* the same packets: the bytes that wait for the server bound its reads to *)
(* come, those that wait for the client bound the times that it has still  *)
(* to take, and while the server runs a connection is closed by the client *)
(* first.                                                                  *)
(***************************************************************************)
EXTENDS EchoServers

Shapes ==
    /\ stage \in [Clients -> {"new", "send", "recv", "done"}]
    /\ sent \in [Clients -> Seq(Sizes)]
    /\ measured \in [Clients -> Nat]
    /\ socket \in [Clients -> {"none", "queued", "open", "closed"}]
    /\ toServer \in [Clients -> Nat]
    /\ toClient \in [Clients -> Nat]
    /\ atServer \in [Clients -> {"no", "fin", "broken", "reset"}]
    /\ atClient \in [Clients -> {"no", "fin", "broken", "reset"}]
    /\ cuts \in Nat
    /\ torn \subseteq Clients
    /\ partial \in [Clients -> Nat]
    /\ server \in {"up", "exited", "killed"}
    /\ program \in {"threads", "epoll"}
    /\ program = "epoll" => server = "up"
    /\ answering \in [Clients -> Nat]
    /\ reads \in [Clients -> Seq(Nat)]

\* w bytes are what r reads have left of n packets and k pieces cut off.
Left(w, n, k, r) == w <= 1024 * (n + k - r)

\* The client waits for one answer at most; a packet is 1024 bytes at most, so that
\* only a cut makes more reads of the bytes than there were packets.
Counted(c) ==
    /\ stage[c] \in {"new", "send"} => measured[c] = Len(sent[c])
    /\ stage[c] = "recv" => measured[c] + 1 = Len(sent[c])
    /\ stage[c] = "done" => measured[c] \in {Len(sent[c]), Len(sent[c]) - 1}
    /\ stage[c] = "new" => socket[c] = "none"
    /\ answering[c] > 0 => socket[c] \in {"open", "closed"}
    /\ program = "epoll" => answering[c] = 0
    /\ Left(toServer[c], Len(sent[c]), cuts, Len(reads[c]))
    /\ partial[c] <= cuts

\* A read that has still to be answered.
Owing(c) == IF answering[c] > 0 THEN 1 ELSE 0

\* How many times the client may take: one for each read, and one more for each answer
\* of which it took a piece.
Times(c) == Len(reads[c]) + partial[c]

\* The client closes first.  An answer is four bytes at most, so that what waits for
\* the client are answers beyond those that it has measured, and when it left them
\* unread there were more than packets.
Answers(c) ==
    /\ atClient[c] # "no" \/ atServer[c] # "no" => stage[c] = "done"
    /\ toClient[c] + 4 * Owing(c) <= 4 * (Times(c) - measured[c])
    /\ atServer[c] = "fin" => Times(c) >= Len(sent[c]) + Owing(c)
    /\ atServer[c] \in {"broken", "reset"} => Times(c) >= Len(sent[c]) + 1 + Owing(c)

\* Packets that come whole are read one by one, and the next is not sent before.
Whole(c) ==
    /\ partial[c] = 0
    /\ \A i \in 1..Len(reads[c]) : reads[c][i] = sent[c][i]
    /\ \/ toServer[c] = 0 /\ Len(reads[c]) = Len(sent[c])
       \/ /\ stage[c] \in {"recv", "done"}
          /\ Len(reads[c]) + 1 = Len(sent[c])
          /\ toServer[c] = sent[c][Len(sent[c])]

EchoInv ==
    /\ Shapes
    /\ \A c \in Clients :
          /\ Counted(c)
          /\ server = "up" => Answers(c) /\ (c \notin torn => Whole(c))
    /\ server = "killed" =>
          \E c \in Clients : stage[c] = "done" /\ Times(c) >= Len(sent[c]) + 2
=============================================================================
