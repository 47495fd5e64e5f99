----------------------------- MODULE DpdkServer -----------------------------
(***************************************************************************)
(* The server of Part-C on F-Stack (dpdk-server.c).                        *)
(*                                                                         *)
(* One thread: the loop reads from a connection, executes every request    *)
(* that it finds in what it read, writes the answers and goes on.  Lines   *)
(* are cut with strtok(), which passes over empty ones, so that a word     *)
(* without letters is no line: the next line is taken for it, and the      *)
(* lines behind for what they are not.  Where a request is looked for, a   *)
(* word that begins with a star does for one, and where a length is, a     *)
(* word that begins with a dollar.                                         *)
(*                                                                         *)
(* A star with no number behind it makes a request of no words, whose      *)
(* command is read from memory that nobody wrote; the model stops there    *)
(* in server = "undefined".                                                *)
(***************************************************************************)
EXTENDS RespClients

\* The letters that make a difference; the others are no digits.
AStar   == "'*'"
ADollar == "'$'"
ANine   == "'9'"

\* Bound: no word holds a star and a number behind it.
ASSUME StarAssumption ==
    \A w \in Keys \cup Values : \A i \in 1..Len(w) - 1 : w[i] = AStar => w[i + 1] # ANine

VARIABLES server,    \* "up" or "undefined"
          tidy       \* auxiliary: the clients of whom no read ended within a
                     \* request, and who sent no word without letters

vars == <<connVars, server, tidy>>

Words(c) == UNION {Range(asked[c][i].args) : i \in DOMAIN asked[c]}

\* No word of c can be taken for the beginning of a request or for a length.
Plain(c) == \A w \in Words(c) : Range(w) \cap {AStar, ADollar} = {}

Init ==
    /\ ConnInit
    /\ server = "up"
    /\ tidy = {c \in Clients : << >> \notin Words(c)}

----------------------------------------------------------------------------
(* parse_resp() *)

\* (Mutant.)  A star is a line without its count.
Ends_Star == Marks

\* The marks that end a line.  A star is followed by its count, the name of a command
\* is a line by itself.
Ends == Marks \ {"*"}

\* strtok(): where the next line starts, from i on, and where the line that starts
\* at b is over; one place behind the read if there is none, or no end.
LineStart(chunk, i) ==
    CHOOSE b \in i..Len(chunk) + 1 :
        /\ b <= Len(chunk) => chunk[b] \notin {"CR", "LF"}
        /\ \A j \in i..b - 1 : chunk[j] \in {"CR", "LF"}
LineEnd(chunk, b) ==
    LET at == CHOOSE i \in b..Len(chunk) + 1 :
                 /\ i <= Len(chunk) => chunk[i] \in Ends
                 /\ \A j \in b..i - 1 : chunk[j] \notin Ends
    IN  IF at > Len(chunk) \/ chunk[at] \in {"CR", "LF"} THEN at ELSE at + 1

Line(chunk, b)     == SubSeq(chunk, b, LineEnd(chunk, b) - 1)
NextLine(chunk, b) == LineStart(chunk, LineEnd(chunk, b))

Star    == <<"*", "n">>
NoWords == Request("none", << >>)

\* (Mutant.)  Lengths are not looked at.
Word_NoLength(chunk, b, line) == line

\* The word of a line: no more letters than the length at b says, where a dollar
\* with no number stands for 0, and no such line is longer than 9.
Word(chunk, b, line) ==
    IF \/ chunk[b] = "$"
       \/ chunk[b] = ADollar /\ b < Len(chunk) /\ chunk[b + 1] = ANine
    THEN line
    ELSE << >>

\* Of the request whose star is at b: the lines of its command, of the length of its
\* j-th word, and of this word.
NameAt(chunk, b) == NextLine(chunk, b)
SizeAt(chunk, b, j) ==
    LET next(i) == NextLine(chunk, i)
    IN  IF j = 1 THEN next(NameAt(chunk, b)) ELSE next(next(next(NameAt(chunk, b))))
WordAt(chunk, b, j) == NextLine(chunk, SizeAt(chunk, b, j))

Op(chunk, b) == chunk[NameAt(chunk, b)]

\* Its command and its words are there, each behind a "$".
IsWhole(chunk, b) ==
    /\ NameAt(chunk, b) <= Len(chunk)
    /\ \A j \in 1..Arity(Op(chunk, b)) :
          /\ SizeAt(chunk, b, j) <= Len(chunk) /\ chunk[SizeAt(chunk, b, j)] \in {"$", "$0", ADollar}
          /\ WordAt(chunk, b, j) <= Len(chunk)

RequestAt(chunk, b) ==
    Request(Op(chunk, b),
            [j \in 1..Arity(Op(chunk, b)) |->
                 Word(chunk, SizeAt(chunk, b, j), Line(chunk, WordAt(chunk, b, j)))])

\* (Mutant.)  The line behind a request is taken for its end.
Behind_OneMore(chunk, b) == NextLine(chunk, NextLine(chunk, WordAt(chunk, b, Arity(Op(chunk, b)))))

\* Where the reading goes on.
Behind(chunk, b) == NextLine(chunk, WordAt(chunk, b, Arity(Op(chunk, b))))

\* The requests of a read.  A line that begins no request is passed over; a
\* request without all of its words ends the reading.
Parsed(chunk) ==
    LET from[b \in 1..Len(chunk) + 1] ==
            IF b > Len(chunk) THEN << >>
            ELSE CASE Line(chunk, b) = <<"*">> \/ chunk[b] = AStar -> <<NoWords>>
                   [] Line(chunk, b) = Star ->
                         IF IsWhole(chunk, b)
                         THEN <<RequestAt(chunk, b)>> \o from[Behind(chunk, b)]
                         ELSE << >>
                   [] OTHER -> from[NextLine(chunk, b)]
    IN  from[LineStart(chunk, 1)]

----------------------------------------------------------------------------
(* handle_command() *)

\* The tree after a request: a removal is a write of the empty value.
Stored(t, req) ==
    CASE req.op = "SET" -> With(t, req.args[1], req.args[2])
      [] req.op = "DEL" -> With(t, req.args[1], << >>)
      [] req.op = "GET" -> t

\* The tree after the requests, one after the other.
AllStored(t, reqs) ==
    LET after[i \in 0..Len(reqs)] == IF i = 0 THEN t ELSE Stored(after[i - 1], reqs[i])
    IN  after[Len(reqs)]

\* A removal is always OK, and a key without a value has the empty one.
Answered(reqs) ==
    [i \in DOMAIN reqs |->
        [req |-> reqs[i], answer |-> IF reqs[i].op = "GET" THEN "value" ELSE "OK"]]

\* loop(), for a connection that has something to read.
Serve(c) ==
    /\ server = "up"
    /\ \E n \in Reads(c) :
          LET reqs == Parsed(SubSeq(stream[c], 1, n))
          IN  /\ Taken(c, n)
              /\ IF NoWords \in Range(reqs)
                 THEN server' = "undefined" /\ UNCHANGED <<tree, did>>
                 ELSE /\ tree' = AllStored(tree, reqs)
                      /\ did' = [did EXCEPT ![c] = @ \o Answered(reqs)]
                      /\ UNCHANGED server
              /\ tidy' = IF cuts' = cuts THEN tidy ELSE tidy \ {c}
    /\ UNCHANGED asked

Next == \E c \in Clients : Serve(c)

Spec == Init /\ [][Next]_vars

----------------------------------------------------------------------------
(* Properties *)

\* What is stored are words, unless one had a dollar or a star; the answers are those
\* of handle_command().
DpdkTypeOK ==
    /\ \A k \in DOMAIN tree : k \in Seq(Tokens) /\ tree[k] \in Seq(Tokens)
    /\ (\A c \in Clients : Plain(c)) =>
           \A k \in DOMAIN tree : Range(k \o tree[k]) \cap Marks = {}
    /\ \A c \in Clients, i \in 1..MaxEach :
          i \in DOMAIN did[c] => did[c][i].req.op \in Ops /\ did[c][i].answer \in {"OK", "value"}
    /\ server \in {"up", "undefined"}
    /\ tidy \subseteq Clients

\* However the bytes are cut, and with empty words as strtok takes them, the server
\* executes for a client whose words hold no star and no dollar only requests that
\* this client sent, each at most once and in the order in which they were sent.
\* (parse_resp, loop)
ExecutedWereSent == \A c \in Clients : Plain(c) => DidWhatWasSent(c)

\* The memory that nobody wrote is read for a client whose words hold no star and no
\* dollar only by a read that itself ends within a request, and for another only if
\* some read of it did, or if it sent a word without letters.  (parse_resp)
UndefinedOnlyByUntidy ==
    [][server' = "undefined" =>
          \A c \in Clients : stream'[c] # stream[c] =>
              c \notin tidy' /\ (Plain(c) => cuts' > cuts)]_vars

\* c is answered so far: the answers are those to its first requests, and the others
\* are still to be read.
InTurn(c) ==
    LET done == Len(did[c])
    IN  /\ done <= Len(asked[c])
        /\ \A i \in 1..done : did[c][i].req = asked[c][i]
        /\ stream[c] = FlattenSeq([i \in 1..Len(asked[c]) - done |-> Wire(asked[c][done + i])])

\* Of a client whose reads end where requests end, and whose words have letters,
\* every request that was read is answered, once and in its turn, however many a read
\* holds and whatever these letters are.  (loop, parse_resp)
AnsweredInTurn == \A c \in tidy : InTurn(c)
=============================================================================
