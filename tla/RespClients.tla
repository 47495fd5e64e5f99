---------------------------- MODULE RespClients ----------------------------
(***************************************************************************)
(* The clients of the servers of Part-C and their connections.             *)
(*                                                                         *)
(* A request travels as "*<words>" and then "$<length>" and the text of    *)
(* each word, every piece ended by CR LF.  TCP keeps the order of bytes    *)
(* and nothing else: a read by the server may end anywhere.  How a server  *)
(* takes what it reads is in PyServer and DpdkServer.                      *)
(*                                                                         *)
(* A connection carries tokens: "*", the count "n" with its line end, the  *)
(* name of the command with "$3" and line ends, "$" (or "$0" for a word    *)
(* without letters) with its length and line end, the letters of a word,   *)
(* and CR and LF behind it.  To both servers, a read that ends within one  *)
(* of these is a read that ends before or behind it.  A word may have a    *)
(* letter that looks like a mark: the letter "'*'" is not the mark "*".    *)
(* PING and CONFIG, which touch nothing, are left out.                     *)
(***************************************************************************)
EXTENDS Integers, SequencesExt

CONSTANTS Clients,
          Keys, Values,     \* words: sequences of letters
          MaxEach, MaxAsked,    \* bounds: so many requests are sent by each client
                                \* and by all of them
          MaxCuts,          \* bound: so many reads end within a request
          Recovered         \* what the engine may hold when the server starts

Ops   == {"SET", "GET", "DEL"}
Marks == Ops \cup {"*", "n", "$", "$0", "CR", "LF"}

\* What a connection carries: letters and marks.
Tokens == STRING \cup Marks

\* The letters of words are no marks, and no line ends.
ASSUME WordAssumption ==
    /\ \A w \in Keys \cup Values : w \in Seq(STRING) /\ Range(w) \cap Marks = {}
    /\ {MaxEach, MaxAsked, MaxCuts} \subseteq Nat
    /\ Recovered \subseteq UNION {[K -> Values \ {<< >>}] : K \in SUBSET Keys}

VARIABLES stream,     \* the bytes of each client that the server has not read
          cuts,       \* how many reads ended within a request
          tree,       \* the last value written to the engine for each key
          asked,      \* auxiliary: the requests that each client sent
          did         \* auxiliary: the requests that the server executed for each
                      \* client, and its answers

connVars == <<stream, cuts, tree, asked, did>>

Request(op, args) == [op |-> op, args |-> args]

Requests ==
    {Request("SET", <<k, v>>) : k \in Keys, v \in Values}
        \cup {Request(op, <<k>>) : op \in {"GET", "DEL"}, k \in Keys}

\* How many words follow the name of a command.
Arity(op) == IF op = "SET" THEN 2 ELSE 1

\* format_resp()
Wire(r) ==
    LET Word(w) == <<IF w = << >> THEN "$0" ELSE "$">> \o w \o <<"CR", "LF">>
    IN  <<"*", "n", r.op>> \o FlattenSeq([i \in DOMAIN r.args |-> Word(r.args[i])])

\* What the clients will send is settled at the start; when they send it shows in
\* when the server reads it.
ConnInit ==
    /\ asked \in [Clients -> SeqOf(Requests, MaxEach)]
    /\ FoldFunction(LAMBDA s, n : Len(s) + n, 0, asked) <= MaxAsked
    /\ stream = [c \in Clients |-> FlattenSeq([i \in DOMAIN asked[c] |-> Wire(asked[c][i])])]
    /\ cuts = 0
    /\ tree \in Recovered
    /\ did = [c \in Clients |-> << >>]

\* How many bytes a read may find.
Reads(c) ==
    {n \in 1..Len(stream[c]) :
        cuts < MaxCuts \/ n = Len(stream[c]) \/ stream[c][n + 1] = "*"}

\* The server has read the first n bytes of the client.
Taken(c, n) ==
    /\ stream' = [stream EXCEPT ![c] = SubSeq(@, n + 1, Len(@))]
    /\ cuts' = IF n = Len(stream[c]) \/ stream[c][n + 1] = "*" THEN cuts ELSE cuts + 1

\* A write; one of the empty string is a removal.
With(t, k, v) == [x \in DOMAIN t \cup {k} |-> IF x = k THEN v ELSE t[x]]

----------------------------------------------------------------------------
\* d is what the server may take r for: the last word may have lost its end, or
\* kept half of the line end behind it.
MayBe(r, d) ==
    /\ d.op = r.op
    /\ Len(d.args) = Len(r.args)
    /\ \A i \in DOMAIN r.args :
          \/ d.args[i] = r.args[i]
          \/ i = Len(r.args) /\ \/ IsPrefix(d.args[i], r.args[i])
                                \/ d.args[i] = r.args[i] \o <<"CR">>

\* What was executed for c are requests that c sent, each at most once and in the
\* order in which they were sent.
DidWhatWasSent(c) ==
    \E f \in [DOMAIN did[c] -> DOMAIN asked[c]] :
        /\ \A i, j \in DOMAIN did[c] : i < j => f[i] < f[j]
        /\ \A i \in DOMAIN did[c] : MayBe(asked[c][f[i]], did[c][i].req)
=============================================================================
