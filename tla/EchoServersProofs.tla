------------------------- MODULE EchoServersProofs -------------------------
(***************************************************************************)
(* Theorems of EchoServers, for any number of clients, packets and cuts:   *)
(* what a client measures is an answer, and what takes the server down.    *)
(***************************************************************************)
EXTENDS EchoServersInv, SequenceTheorems, TLAPS

----------------------------------------------------------------------------
(* The data of a connection *)

LEMMA ConnFacts ==
    ASSUME Shapes, NEW c \in Clients
    PROVE  /\ Len(sent[c]) \in Nat /\ Len(reads[c]) \in Nat /\ cuts \in Nat
           /\ measured[c] \in Nat /\ toServer[c] \in Nat /\ toClient[c] \in Nat
           /\ answering[c] \in Nat /\ Owing(c) \in {0, 1} /\ partial[c] \in Nat /\ Times(c) \in Nat
           /\ Times(c) = Len(reads[c]) + partial[c]
           /\ \A i \in 1..Len(sent[c]) : sent[c][i] \in Nat /\ sent[c][i] <= 1024
<1>1. sent[c] \in Seq(Sizes) /\ reads[c] \in Seq(Nat)
  BY DEF Shapes
<1>2. \A i \in 1..Len(sent[c]) : sent[c][i] \in Sizes
  BY <1>1, ElementOfSeq
<1>3. Len(sent[c]) \in Nat /\ Len(reads[c]) \in Nat
  BY <1>1, LenProperties
<1>4. \A x \in Sizes : x \in Nat /\ x <= 1024
  BY SizeAssumption
<1>5. /\ cuts \in Nat /\ measured[c] \in Nat /\ toServer[c] \in Nat /\ toClient[c] \in Nat
      /\ answering[c] \in Nat /\ partial[c] \in Nat
  BY DEF Shapes
<1>6. QED
  BY <1>2, <1>3, <1>4, <1>5 DEF Owing, Times

\* One more at the end.
LEMMA OneMore ==
    ASSUME NEW S, NEW s \in Seq(S), NEW x \in S
    PROVE  /\ Append(s, x) \in Seq(S) /\ Len(Append(s, x)) = Len(s) + 1
           /\ \A i \in 1..Len(s) : Append(s, x)[i] = s[i]
           /\ Append(s, x)[Len(s) + 1] = x
BY AppendProperties, LenProperties

\* t bytes and o answers to come, of at most four bytes each, are those of r - m reads.
LEMMA AnswerCount ==
    ASSUME NEW t \in Nat, NEW o \in {0, 1}, NEW r \in Nat, NEW m \in Nat, t + 4 * o <= 4 * (r - m)
    PROVE  /\ r >= m + o /\ 0 + 4 * o <= 4 * (r - m)
           /\ t > 0 => /\ r >= m + 1 + o
                       /\ (IF t > 4 THEN t - 4 ELSE 0) + 4 * o <= 4 * (r - (m + 1))
OBVIOUS

\* A packet more, another count of cuts, a read of all or of a full buffer, a piece.
LEMMA LeftAfterSend ==
    ASSUME NEW w \in Nat, NEW n \in Nat, NEW k \in Nat, NEW r \in Nat, Left(w, n, k, r),
           NEW size \in Nat, size <= 1024
    PROVE  Left(w + size, n + 1, k, r) /\ Left(w, n + 1, k, r)
BY DEF Left

LEMMA LeftAfterCuts ==
    ASSUME NEW w \in Nat, NEW n \in Nat, NEW k \in Nat, NEW r \in Nat, Left(w, n, k, r),
           NEW j \in Nat, k <= j
    PROVE  Left(w, n, j, r)
BY DEF Left

LEMMA LeftAfterRead ==
    ASSUME NEW w \in Nat, NEW n \in Nat, NEW k \in Nat, NEW r \in Nat, Left(w, n, k, r),
           NEW x \in Nat, 1 <= x, x <= w
    PROVE  /\ x = w \/ x = 2048 => Left(w - x, n, k, r + 1)
           /\ Left(w - x, n, k + 1, r + 1)
BY DEF Left

\* What a read takes is there, and unless a cut is counted it is all there is, or a
\* full buffer.
LEMMA ReadFacts ==
    ASSUME Shapes, NEW c \in Clients, toServer[c] > 0, NEW n \in Reads(c), Taken(c, n)
    PROVE  /\ n \in Nat /\ 1 <= n /\ n <= toServer[c]
           /\ toServer' = [toServer EXCEPT ![c] = @ - n] /\ partial' = partial
           /\ \/ (n = toServer[c] \/ n = 2048) /\ UNCHANGED <<cuts, torn>>
              \/ cuts' = cuts + 1 /\ torn' = torn \cup {c}
           /\ toServer[c] <= 2048 => n = toServer[c] \/ torn' = torn \cup {c}
<1>1. toServer[c] \in Nat
  BY DEF Shapes
<1>2. n \in Nat /\ 1 <= n /\ n <= toServer[c]
  <2>1. \A m \in Pieces : m \in Nat /\ 1 <= m
    BY SizeAssumption
  <2>2. \/ n = toServer[c]
        \/ n = 2048 /\ ~(toServer[c] < 2048)
        \/ n \in Pieces /\ n < toServer[c]
    BY DEF Reads, BUFFER_SIZE
  <2>3. QED
    BY <1>1, <2>1, <2>2
<1>3. /\ toServer' = [toServer EXCEPT ![c] = @ - n] /\ partial' = partial
      /\ \/ (n = toServer[c] \/ n = 2048) /\ UNCHANGED <<cuts, torn>>
         \/ cuts' = cuts + 1 /\ torn' = torn \cup {c}
  BY DEF Taken, BUFFER_SIZE
<1>4. n # toServer[c] /\ toServer[c] <= 2048 => n \in Pieces
  BY <1>1 DEF Reads, BUFFER_SIZE
<1>5. n # toServer[c] /\ toServer[c] <= 2048 => torn' = torn \cup {c}
  BY <1>4, SizeAssumption DEF Taken, BUFFER_SIZE
<1>6. QED
  BY <1>2, <1>3, <1>5

----------------------------------------------------------------------------
(* The clients whose turn it is not *)

\* Nothing that the invariant says of the client d changes.
Same(d) ==
    /\ stage'[d] = stage[d] /\ sent'[d] = sent[d] /\ measured'[d] = measured[d]
    /\ socket'[d] = socket[d] /\ toServer'[d] = toServer[d] /\ toClient'[d] = toClient[d]
    /\ atServer'[d] = atServer[d] /\ atClient'[d] = atClient[d]
    /\ answering'[d] = answering[d] /\ reads'[d] = reads[d] /\ partial'[d] = partial[d]

LEMMA SameKept ==
    ASSUME EchoInv, NEW d \in Clients, Same(d), cuts' \in Nat, cuts <= cuts', torn \subseteq torn',
           server' = server, program' = program
    PROVE  /\ Counted(d)'
           /\ server' = "up" => Answers(d)' /\ (d \notin torn' => Whole(d)')
<1>1. Counted(d) /\ (server = "up" => Answers(d) /\ (d \notin torn => Whole(d)))
  BY DEF EchoInv
<1>2. Counted(d)'
  <2>1. Left(toServer[d], Len(sent[d]), cuts', Len(reads[d]))
    <3>1. toServer[d] \in Nat /\ Len(sent[d]) \in Nat /\ Len(reads[d]) \in Nat /\ cuts \in Nat
      BY ConnFacts DEF EchoInv
    <3>2. Left(toServer[d], Len(sent[d]), cuts, Len(reads[d]))
      BY <1>1 DEF Counted
    <3>3. QED
      BY <3>1, <3>2, LeftAfterCuts
  <2>2. partial[d] <= cuts'
    BY <1>1, ConnFacts DEF Counted, EchoInv
  <2>3. QED
    BY <1>1, <2>1, <2>2 DEF Counted, Same
<1>3. ASSUME server = "up" PROVE Answers(d)'
  BY <1>1, <1>3 DEF Answers, Owing, Times, Same
<1>4. ASSUME server = "up", d \notin torn' PROVE Whole(d)'
  BY <1>1, <1>4 DEF Whole, Same
<1>5. QED
  BY <1>2, <1>3, <1>4

\* A step of one connection, while the server stays what it is.
LEMMA OneConnection ==
    ASSUME EchoInv, Shapes', server' = server, program' = program, cuts <= cuts', torn \subseteq torn',
           NEW c \in Clients,
           \A d \in Clients \ {c} : Same(d),
           Counted(c)',
           server = "up" => Answers(c)' /\ (c \notin torn' => Whole(c)'),
           server = "killed" => reads' = reads /\ (stage[c] = "done" => UNCHANGED <<stage, sent,
                                                                                    partial>>)
    PROVE  EchoInv'
<1>1. ASSUME NEW d \in Clients
      PROVE  /\ Counted(d)'
             /\ server' = "up" => Answers(d)' /\ (d \notin torn' => Whole(d)')
  <2>1. CASE d = c
    BY <2>1
  <2>2. CASE d # c
    <3>1. Same(d)
      BY <2>2
    <3>2. cuts' \in Nat
      BY DEF Shapes
    <3>3. QED
      BY <3>1, <3>2, SameKept
  <2>3. QED
    BY <2>1, <2>2
<1>2. ASSUME server' = "killed"
      PROVE  \E d \in Clients : stage'[d] = "done" /\ Times(d)' >= Len(sent'[d]) + 2
  <2>1. PICK d \in Clients : stage[d] = "done" /\ Times(d) >= Len(sent[d]) + 2
    BY <1>2 DEF EchoInv
  <2>2. /\ stage'[d] = stage[d] /\ sent'[d] = sent[d] /\ reads'[d] = reads[d]
        /\ partial'[d] = partial[d]
    BY <1>2, <2>1 DEF Same
  <2>3. QED
    BY <2>1, <2>2 DEF Times
<1>3. QED
  BY <1>1, <1>2 DEF EchoInv
----------------------------------------------------------------------------
(* The client *)

LEMMA ConnectInv ==
    ASSUME EchoInv, NEW c \in Clients, Connect(c), UNCHANGED <<program, answering, reads>>
    PROVE  EchoInv'
<1>1. /\ stage[c] = "new" /\ Shapes /\ Counted(c)
      /\ server = "up" => Answers(c) /\ (c \notin torn => Whole(c))
  BY DEF Connect, EchoInv
<1>2. /\ \/ server = "up" /\ stage' = [stage EXCEPT ![c] = "send"]
            /\ socket' = [socket EXCEPT ![c] = "queued"]
         \/ server # "up" /\ stage' = [stage EXCEPT ![c] = "done"] /\ socket' = socket
      /\ UNCHANGED <<sent, measured, toServer, toClient, atServer, atClient, cuts, torn, partial,
                     server, program, answering, reads>>
  BY DEF Connect, Goes
<1>3. Shapes'
  BY <1>1, <1>2 DEF Shapes
<1>4. \A d \in Clients \ {c} : Same(d)
  BY <1>1, <1>2 DEF Shapes, Same
<1>5. stage'[c] \in {"send", "done"} /\ (server = "up" => stage'[c] = "send")
      /\ socket[c] = "none"
  BY <1>1, <1>2 DEF Shapes, Counted
<1>6. Counted(c)'
  <2>1. answering[c] = 0 /\ measured[c] = Len(sent[c])
    BY <1>1, <1>5, ConnFacts DEF Counted
  <2>2. QED
    BY <1>1, <1>2, <1>5, <2>1, ConnFacts DEF Counted
<1>7. ASSUME server = "up" PROVE Answers(c)' /\ (c \notin torn' => Whole(c)')
  BY <1>1, <1>2, <1>5, <1>7 DEF Answers, Owing, Times, Whole
<1>8. cuts <= cuts'
  BY <1>1, <1>2 DEF Shapes
<1>9. QED
  BY <1>1, <1>2, <1>3, <1>4, <1>6, <1>7, <1>8, OneConnection

LEMMA SendInv ==
    ASSUME EchoInv, NEW c \in Clients, Send(c), UNCHANGED <<program, answering, reads>>
    PROVE  EchoInv'
<1>1. /\ stage[c] = "send" /\ atClient[c] \in {"no", "fin"} /\ Shapes /\ Counted(c)
      /\ server = "up" => Answers(c) /\ (c \notin torn => Whole(c))
  BY DEF Send, EchoInv
<1>2. PICK size \in Sizes :
        /\ sent' = [sent EXCEPT ![c] = Append(@, size)]
        /\ toServer' = [toServer EXCEPT ![c] = IF atClient[c] = "no" THEN @ + size ELSE @]
  BY DEF Send
<1>3. PICK heard \in HeardAfterSend(atClient[c]) : atClient' = [atClient EXCEPT ![c] = heard]
  BY DEF Send
<1>4. /\ stage' = [stage EXCEPT ![c] = "recv"]
      /\ UNCHANGED <<measured, socket, toClient, atServer, cuts, torn, partial, server, program,
                     answering, reads>>
  BY DEF Send, Goes
<1>5. size \in Nat /\ size <= 1024
  BY SizeAssumption
<1>6. heard \in {"no", "fin", "broken", "reset"} /\ (atClient[c] = "no" => heard = "no")
  BY <1>1, <1>3 DEF HeardAfterSend
<1>7. /\ Append(sent[c], size) \in Seq(Sizes) /\ Len(Append(sent[c], size)) = Len(sent[c]) + 1
      /\ \A i \in 1..Len(sent[c]) : Append(sent[c], size)[i] = sent[c][i]
      /\ Append(sent[c], size)[Len(sent[c]) + 1] = size
  BY <1>1, OneMore DEF Shapes
<1>8. Shapes'
  BY <1>1, <1>2, <1>3, <1>4, <1>5, <1>6, <1>7, SMTT(30) DEF Shapes
<1>9. \A d \in Clients \ {c} : Same(d)
  BY <1>1, <1>2, <1>3, <1>4 DEF Shapes, Same
<1>10. /\ stage'[c] = "recv" /\ sent'[c] = Append(sent[c], size) /\ atClient'[c] = heard
       /\ toServer'[c] = IF atClient[c] = "no" THEN toServer[c] + size ELSE toServer[c]
  BY <1>1, <1>2, <1>3, <1>4 DEF Shapes
<1>11. Counted(c)'
  <2>1. Left(toServer[c], Len(sent[c]), cuts, Len(reads[c])) /\ measured[c] = Len(sent[c])
    BY <1>1 DEF Counted
  <2>2. /\ toServer[c] \in Nat /\ Len(sent[c]) \in Nat /\ Len(reads[c]) \in Nat /\ cuts \in Nat
    BY <1>1, ConnFacts
  <2>3. /\ Left(toServer[c] + size, Len(sent[c]) + 1, cuts, Len(reads[c]))
        /\ Left(toServer[c], Len(sent[c]) + 1, cuts, Len(reads[c]))
    <3> DEFINE w == toServer[c]
               s == Len(sent[c])
               r == Len(reads[c])
    <3>1. w \in Nat /\ s \in Nat /\ r \in Nat /\ cuts \in Nat /\ Left(w, s, cuts, r)
      BY <2>1, <2>2
    <3> HIDE DEF w, s, r
    <3>2. Left(w + size, s + 1, cuts, r) /\ Left(w, s + 1, cuts, r)
      BY <1>5, <3>1, LeftAfterSend
    <3>3. QED
      BY <3>2 DEF w, s, r
  <2>4. Left(toServer'[c], Len(sent[c]) + 1, cuts, Len(reads[c]))
    BY <1>5, <1>10, <2>3
  <2>5. QED
    BY <1>1, <1>4, <1>7, <1>10, <2>1, <2>2, <2>4 DEF Counted
<1>12. ASSUME server = "up" PROVE Answers(c)' /\ (c \notin torn' => Whole(c)')
  <2>1. atClient[c] = "no" /\ atServer[c] = "no"
    BY <1>1, <1>12 DEF Answers
  <2>2. Answers(c)'
    BY <1>1, <1>4, <1>6, <1>10, <1>12, <2>1 DEF Answers, Owing, Times
  <2>3. ASSUME c \notin torn PROVE Whole(c)'
    <3>1. toServer[c] = 0 /\ Len(reads[c]) = Len(sent[c]) /\ partial[c] = 0
          /\ \A i \in 1..Len(reads[c]) : reads[c][i] = sent[c][i]
      BY <1>1, <1>12, <2>3 DEF Whole
    <3>2. toServer'[c] = size
      BY <1>5, <1>10, <2>1, <3>1
    <3>3. QED
      BY <1>4, <1>7, <1>10, <3>1, <3>2 DEF Whole
  <2>4. QED
    BY <1>4, <2>2, <2>3
<1>13. cuts <= cuts'
  BY <1>1, <1>4 DEF Shapes
<1>14. QED
  BY <1>1, <1>4, <1>8, <1>9, <1>11, <1>12, <1>13, OneConnection

\* What a recv() takes, and the cut that it counts unless it takes all it may.
LEMMA RecvFacts ==
    ASSUME Shapes, NEW c \in Clients, Recv(c)
    PROVE  \E n \in Nat :
              /\ toClient' = [toClient EXCEPT ![c] = @ - n] /\ n <= toClient[c]
              /\ \/ n = AllThere(c) /\ UNCHANGED <<cuts, torn, partial>>
                 \/ /\ cuts' = cuts + 1 /\ torn' = torn \cup {c}
                    /\ partial' = [partial EXCEPT ![c] = @ + 1]
<1>1. PICK n \in {AllThere(c)} \cup {n \in Pieces : n < AllThere(c) /\ cuts < MaxCuts} :
        /\ toClient' = [toClient EXCEPT ![c] = @ - n]
        /\ IF n = AllThere(c) THEN UNCHANGED <<cuts, torn, partial>>
           ELSE /\ cuts' = cuts + 1 /\ torn' = torn \cup {c}
                /\ partial' = [partial EXCEPT ![c] = @ + 1]
  BY DEF Recv
<1>2. toClient[c] \in Nat
  BY DEF Shapes
<1>3. AllThere(c) \in Nat /\ AllThere(c) <= toClient[c]
  BY <1>2 DEF AllThere
<1>4. n \in Nat /\ n <= toClient[c]
  <2>1. CASE n = AllThere(c)
    BY <1>3, <2>1
  <2>2. CASE n # AllThere(c)
    <3>1. n \in Pieces /\ n < AllThere(c)
      BY <1>1, <2>2
    <3>2. n \in Nat
      BY <3>1, SizeAssumption
    <3> QED BY <1>2, <1>3, <3>1, <3>2
  <2> QED BY <2>1, <2>2
<1> QED BY <1>1, <1>4

\* A recv() of all it may take, up to four bytes, or of less.
LEMMA TimesCount ==
    ASSUME NEW t \in Nat, NEW o \in {0, 1}, NEW r \in Nat, NEW m \in Nat, NEW n \in Nat, n <= t,
           t + 4 * o <= 4 * (r - m)
    PROVE  /\ (t - n) + 4 * o <= 4 * ((r + 1) - (m + 1))
           /\ t > 0 /\ n = (IF t > 4 THEN 4 ELSE t) =>
                 (t - n) + 4 * o <= 4 * (r - (m + 1)) /\ r >= m + 1 + o
OBVIOUS

LEMMA RecvInv ==
    ASSUME EchoInv, NEW c \in Clients, Recv(c), UNCHANGED <<program, answering, reads>>
    PROVE  EchoInv'
<1>1. /\ stage[c] = "recv" /\ (toClient[c] > 0 \/ atClient[c] \in {"fin", "broken"})
      /\ Shapes /\ Counted(c)
      /\ server = "up" => Answers(c) /\ (c \notin torn => Whole(c))
  BY DEF Recv, EchoInv
<1>2. /\ measured' = [measured EXCEPT ![c] = @ + 1]
      /\ stage' = [stage EXCEPT ![c] = "send"]
      /\ UNCHANGED <<sent, socket, toServer, atServer, atClient, server, program, answering, reads>>
  BY DEF Recv, Goes
<1>3. PICK n \in Nat :
        /\ toClient' = [toClient EXCEPT ![c] = @ - n] /\ n <= toClient[c]
        /\ \/ n = AllThere(c) /\ UNCHANGED <<cuts, torn, partial>>
           \/ /\ cuts' = cuts + 1 /\ torn' = torn \cup {c}
              /\ partial' = [partial EXCEPT ![c] = @ + 1]
  BY <1>1, RecvFacts
<1>4. /\ toClient[c] \in Nat /\ Owing(c) \in {0, 1} /\ Len(reads[c]) \in Nat /\ measured[c] \in Nat
      /\ partial[c] \in Nat /\ cuts \in Nat /\ Times(c) \in Nat /\ Len(sent[c]) \in Nat
      /\ Times(c) = Len(reads[c]) + partial[c] /\ toServer[c] \in Nat
  BY <1>1, ConnFacts
<1>5. /\ toClient' \in [Clients -> Nat] /\ cuts' \in Nat /\ cuts <= cuts'
      /\ partial' \in [Clients -> Nat] /\ torn' \subseteq Clients /\ torn \subseteq torn'
  <2>1. toClient[c] - n \in Nat /\ partial[c] + 1 \in Nat /\ cuts + 1 \in Nat /\ cuts <= cuts + 1
    BY <1>3, <1>4, SMTT(30)
  <2>2. toClient' \in [Clients -> Nat]
    BY <1>1, <1>3, <2>1 DEF Shapes
  <2>3. CASE UNCHANGED <<cuts, torn, partial>>
    BY <1>1, <1>4, <2>2, <2>3 DEF Shapes
  <2>4. CASE cuts' = cuts + 1 /\ torn' = torn \cup {c} /\ partial' = [partial EXCEPT ![c] = @ + 1]
    BY <1>1, <2>1, <2>2, <2>4 DEF Shapes
  <2> QED BY <1>3, <2>3, <2>4
<1>6. Shapes'
  <2>1. stage' \in [Clients -> {"new", "send", "recv", "done"}] /\ measured' \in [Clients -> Nat]
    BY <1>1, <1>2 DEF Shapes
  <2> QED BY <1>1, <1>2, <1>5, <2>1 DEF Shapes
<1>7. \A d \in Clients \ {c} : Same(d)
  <2>1. ASSUME NEW d \in Clients \ {c} PROVE partial'[d] = partial[d]
    BY <1>1, <1>3 DEF Shapes
  <2> QED BY <1>1, <1>2, <1>3, <2>1 DEF Shapes, Same
<1>8. /\ stage'[c] = "send" /\ measured'[c] = measured[c] + 1 /\ toClient'[c] = toClient[c] - n
  BY <1>1, <1>2, <1>3 DEF Shapes
<1>9. \/ n = AllThere(c) /\ cuts' = cuts /\ torn' = torn /\ partial'[c] = partial[c]
         /\ Times(c)' = Times(c)
      \/ cuts' = cuts + 1 /\ c \in torn' /\ partial'[c] = partial[c] + 1 /\ Times(c)' = Times(c) + 1
  <2>1. CASE n = AllThere(c) /\ UNCHANGED <<cuts, torn, partial>>
    BY <1>2, <2>1 DEF Times
  <2>2. CASE cuts' = cuts + 1 /\ torn' = torn \cup {c} /\ partial' = [partial EXCEPT ![c] = @ + 1]
    <3>1. partial'[c] = partial[c] + 1
      BY <1>1, <2>2 DEF Shapes
    <3>2. Times(c)' = Len(reads[c]) + (partial[c] + 1)
      BY <1>2, <3>1 DEF Times
    <3>3. Times(c)' = Times(c) + 1
      BY <1>4, <3>2, SMTT(30)
    <3>4. c \in torn'
      BY <2>2
    <3> QED BY <2>2, <3>1, <3>3, <3>4
  <2> QED BY <1>3, <2>1, <2>2
<1>10. Counted(c)'
  <2>1. partial'[c] <= cuts'
    BY <1>1, <1>4, <1>9 DEF Counted
  <2>2. Left(toServer[c], Len(sent[c]), cuts', Len(reads[c]))
    <3> PICK w, s, r : w = toServer[c] /\ s = Len(sent[c]) /\ r = Len(reads[c])
      OBVIOUS
    <3>1. w \in Nat /\ s \in Nat /\ r \in Nat /\ cuts \in Nat /\ Left(w, s, cuts, r)
      BY <1>1, <1>4 DEF Counted
    <3>2. Left(w, s, cuts', r)
      BY <1>5, <3>1, LeftAfterCuts
    <3> QED BY <3>2
  <2>3. measured[c] + 1 = Len(sent[c])
    BY <1>1 DEF Counted
  <2> QED BY <1>1, <1>2, <1>8, <2>1, <2>2, <2>3 DEF Counted
<1>11. ASSUME server = "up" PROVE Answers(c)' /\ (c \notin torn' => Whole(c)')
  <2>1. atClient[c] = "no" /\ atServer[c] = "no" /\ toClient[c] > 0
    BY <1>1, <1>11 DEF Answers
  <2>2. toClient[c] + 4 * Owing(c) <= 4 * (Times(c) - measured[c])
    BY <1>1, <1>11 DEF Answers
  <2>3. /\ toClient'[c] + 4 * Owing(c) <= 4 * (Times(c)' - measured'[c])
        /\ c \notin torn' => Times(c) >= measured[c] + 1 + Owing(c)
    <3> PICK t, o, r, m : t = toClient[c] /\ o = Owing(c) /\ r = Times(c) /\ m = measured[c]
      OBVIOUS
    <3>1. t \in Nat /\ o \in {0, 1} /\ r \in Nat /\ m \in Nat /\ n <= t /\ t > 0
          /\ t + 4 * o <= 4 * (r - m)
      BY <1>3, <1>4, <2>1, <2>2
    <3>2. /\ (t - n) + 4 * o <= 4 * ((r + 1) - (m + 1))
          /\ n = (IF t > 4 THEN 4 ELSE t) =>
                (t - n) + 4 * o <= 4 * (r - (m + 1)) /\ r >= m + 1 + o
      BY <3>1, TimesCount
    <3>3. AllThere(c) = IF t > 4 THEN 4 ELSE t
      BY DEF AllThere
    <3> QED BY <1>8, <1>9, <3>2, <3>3
  <2>4. Answers(c)'
    <3>1. Owing(c)' = Owing(c)
      BY <1>2 DEF Owing
    <3> QED BY <1>2, <2>1, <2>3, <3>1 DEF Answers
  <2>5. ASSUME c \notin torn' PROVE Whole(c)'
    <3>1. /\ measured[c] + 1 = Len(sent[c]) /\ Times(c) >= measured[c] + 1 + Owing(c)
          /\ c \notin torn /\ partial'[c] = partial[c]
      BY <1>1, <1>9, <2>3, <2>5 DEF Counted
    <3>2. Whole(c)
      BY <1>1, <1>11, <3>1
    <3>3. toServer[c] = 0 /\ Len(reads[c]) = Len(sent[c])
      BY <1>4, <3>1, <3>2 DEF Whole
    <3>4. QED
      BY <1>2, <3>1, <3>2, <3>3 DEF Whole
  <2>6. QED
    BY <2>4, <2>5
<1>12. QED
  BY <1>1, <1>2, <1>5, <1>6, <1>7, <1>10, <1>11, OneConnection

LEMMA FailsInv ==
    ASSUME EchoInv, NEW c \in Clients, SendFails(c) \/ RecvFails(c),
           UNCHANGED <<program, answering, reads>>
    PROVE  EchoInv'
<1>1. /\ stage[c] \in {"send", "recv"} /\ atClient[c] \in {"reset", "broken"}
      /\ Shapes /\ Counted(c) /\ (server = "up" => Answers(c))
  BY DEF SendFails, RecvFails, EchoInv
<1>2. /\ stage' = [stage EXCEPT ![c] = "done"]
      /\ UNCHANGED <<sent, measured, socket, toServer, toClient, atServer, atClient, cuts, torn,
                     partial, server, program, answering, reads>>
  BY DEF SendFails, RecvFails, Goes
<1>3. Shapes' /\ stage'[c] = "done"
  BY <1>1, <1>2 DEF Shapes
<1>4. \A d \in Clients \ {c} : Same(d)
  BY <1>1, <1>2 DEF Shapes, Same
<1>5. Counted(c)'
  BY <1>1, <1>2, <1>3, ConnFacts DEF Counted
<1>6. server # "up"
  BY <1>1 DEF Answers
<1>7. cuts <= cuts'
  BY <1>1, <1>2 DEF Shapes
<1>8. QED
  BY <1>1, <1>2, <1>3, <1>4, <1>5, <1>6, <1>7, OneConnection

LEMMA CloseInv ==
    ASSUME EchoInv, NEW c \in Clients, Close(c), UNCHANGED <<program, answering, reads>>
    PROVE  EchoInv'
<1>1. /\ stage[c] = "send" /\ Shapes /\ Counted(c)
      /\ server = "up" => Answers(c) /\ (c \notin torn => Whole(c))
  BY DEF Close, EchoInv
<1>2. PICK heard \in IF toClient[c] = 0 THEN {"fin"} ELSE {"reset", "broken"} :
         atServer' = [atServer EXCEPT ![c] = heard]
  BY DEF Close
<1>3. /\ toClient' = [toClient EXCEPT ![c] = 0] /\ stage' = [stage EXCEPT ![c] = "done"]
      /\ UNCHANGED <<sent, measured, socket, toServer, atClient, cuts, torn, partial, server,
                     program, answering, reads>>
  BY DEF Close, Goes
<1>4. Shapes'
  BY <1>1, <1>2, <1>3 DEF Shapes
<1>5. \A d \in Clients \ {c} : Same(d)
  BY <1>1, <1>2, <1>3 DEF Shapes, Same
<1>6. stage'[c] = "done" /\ toClient'[c] = 0 /\ atServer'[c] = heard
  BY <1>1, <1>2, <1>3 DEF Shapes
<1>7. Counted(c)'
  BY <1>1, <1>3, <1>6, ConnFacts DEF Counted
<1>8. ASSUME server = "up" PROVE Answers(c)' /\ (c \notin torn' => Whole(c)')
  <2>1. /\ toClient[c] + 4 * Owing(c) <= 4 * (Times(c) - measured[c])
        /\ measured[c] = Len(sent[c])
    BY <1>1, <1>8 DEF Answers, Counted
  <2>2. toClient[c] \in Nat /\ Owing(c) \in {0, 1} /\ Times(c) \in Nat /\ measured[c] \in Nat
    BY <1>1, ConnFacts
  <2>3. /\ Times(c) >= measured[c] + Owing(c)
        /\ 0 + 4 * Owing(c) <= 4 * (Times(c) - measured[c])
        /\ toClient[c] > 0 => Times(c) >= measured[c] + 1 + Owing(c)
    <3> PICK t, o, r, m : t = toClient[c] /\ o = Owing(c) /\ r = Times(c) /\ m = measured[c]
      OBVIOUS
    <3>1. t \in Nat /\ o \in {0, 1} /\ r \in Nat /\ m \in Nat /\ t + 4 * o <= 4 * (r - m)
      BY <2>1, <2>2
    <3>2. r >= m + o /\ 0 + 4 * o <= 4 * (r - m) /\ (t > 0 => r >= m + 1 + o)
      BY <3>1, AnswerCount
    <3> QED BY <3>2
  <2>4. toClient[c] # 0 => toClient[c] > 0
    BY <2>2
  <2>5. Answers(c)'
    BY <1>2, <1>3, <1>6, <2>1, <2>3, <2>4 DEF Answers, Owing, Times
  <2>6. ASSUME c \notin torn PROVE Whole(c)'
    BY <1>1, <1>3, <1>8, <2>6 DEF Whole
  <2>7. QED
    BY <1>3, <2>5, <2>6
<1>9. cuts <= cuts'
  BY <1>1, <1>3 DEF Shapes
<1>10. QED
  BY <1>1, <1>3, <1>4, <1>5, <1>7, <1>8, <1>9, OneConnection

LEMMA ClientInv ==
    ASSUME EchoInv, NEW c \in Clients, ClientStep(c)
    PROVE  EchoInv'
BY ConnectInv, SendInv, RecvInv, FailsInv, CloseInv DEF ClientStep, Client
----------------------------------------------------------------------------
(* The server *)

LEMMA AcceptInv ==
    ASSUME EchoInv, NEW c \in Clients, Accept(c)
    PROVE  EchoInv'
<1>1. /\ socket[c] = "queued" /\ server = "up" /\ Shapes /\ Counted(c)
      /\ Answers(c) /\ (c \notin torn => Whole(c))
  BY DEF Accept, EchoInv
<1>2. /\ socket' = [socket EXCEPT ![c] = "open"]
      /\ UNCHANGED <<stage, sent, measured, toServer, toClient, atServer, atClient, cuts, torn,
                     partial, server, program, answering, reads>>
  BY DEF Accept
<1>3. Shapes' /\ socket'[c] = "open"
  BY <1>1, <1>2 DEF Shapes
<1>4. \A d \in Clients \ {c} : Same(d)
  BY <1>1, <1>2 DEF Shapes, Same
<1>5. Counted(c)' /\ Answers(c)' /\ (c \notin torn' => Whole(c)')
  BY <1>1, <1>2, <1>3 DEF Counted, Answers, Owing, Times, Whole
<1>6. cuts <= cuts'
  BY <1>1, <1>2 DEF Shapes
<1>7. QED
  BY <1>1, <1>2, <1>3, <1>4, <1>5, <1>6, OneConnection

LEMMA EpollAcceptsInv ==
    ASSUME EchoInv, EpollAccepts
    PROVE  EchoInv'
<1>1. /\ socket' = [c \in Clients |-> IF socket[c] = "queued" THEN "open" ELSE socket[c]]
      /\ UNCHANGED <<stage, sent, measured, toServer, toClient, atServer, atClient, cuts, torn,
                     partial, server, program, answering, reads>>
  BY DEF EpollAccepts
<1>2. Shapes'
  BY <1>1 DEF EchoInv, Shapes
<1>3. ASSUME NEW c \in Clients
      PROVE  Counted(c)' /\ (server' = "up" => Answers(c)' /\ (c \notin torn' => Whole(c)'))
  BY <1>1 DEF EchoInv, Counted, Answers, Owing, Times, Whole
<1>4. server' = "killed" =>
         \E c \in Clients : stage'[c] = "done" /\ Times(c)' >= Len(sent'[c]) + 2
  BY <1>1 DEF EchoInv, Times
<1>5. QED
  BY <1>2, <1>3, <1>4 DEF EchoInv

\* The types of what a read changes.
ReadTaken(c, n) ==
    /\ n \in Nat /\ n > 0
    /\ toServer' \in [Clients -> Nat]
    /\ cuts' \in Nat
    /\ torn' \subseteq Clients
    /\ partial' \in [Clients -> Nat]
    /\ Append(reads[c], n) \in Seq(Nat)

LEMMA ReadShapes ==
    ASSUME Shapes, NEW c \in Clients, toServer[c] > 0, NEW n \in Reads(c), Taken(c, n)
    PROVE  ReadTaken(c, n)
<1>1. /\ n \in Nat /\ 1 <= n /\ n <= toServer[c] /\ toServer' = [toServer EXCEPT ![c] = @ - n]
      /\ partial' = partial
      /\ \/ UNCHANGED <<cuts, torn>>
         \/ cuts' = cuts + 1 /\ torn' = torn \cup {c}
  BY ReadFacts
<1>2. toServer[c] \in Nat /\ n \in Nat /\ n > 0 /\ toServer[c] - n \in Nat
  BY <1>1 DEF Shapes
<1>3. toServer' \in [Clients -> Nat]
  BY <1>1, <1>2 DEF Shapes
<1>4. Append(reads[c], n) \in Seq(Nat)
  BY <1>2, OneMore DEF Shapes
<1>5. QED
  BY <1>1, <1>2, <1>3, <1>4 DEF Shapes, ReadTaken

LEMMA AnswersAfterRead ==
    ASSUME NEW t \in Nat, NEW r \in Nat, NEW m \in Nat, t + 4 * 0 <= 4 * (r - m),
           NEW u \in Nat, NEW o \in {0, 1}, u + 4 * o <= t + 4
    PROVE  u + 4 * o <= 4 * ((r + 1) - m)
OBVIOUS

\* The server has read n bytes, which it answers at once or is about to answer.
LEMMA ReadInv ==
    ASSUME EchoInv, Shapes', NEW c \in Clients,
           server = "up", toServer[c] > 0, NEW n \in Reads(c), Taken(c, n),
           reads' = [reads EXCEPT ![c] = Append(@, n)],
           UNCHANGED <<stage, sent, measured, socket, atClient, server, program>>,
           socket[c] = "open", program = "epoll" => answering'[c] = 0,
           Owing(c) = 0, NEW o \in {0, 1}, Owing(c)' = o,
           NEW u \in Nat, toClient'[c] = u, u + 4 * o <= toClient[c] + 4,
           \/ atServer'[c] = atServer[c]
           \/ atServer[c] = "fin" /\ atServer'[c] = "broken" /\ o = 0,
           \A d \in Clients \ {c} : /\ toClient'[d] = toClient[d] /\ atServer'[d] = atServer[d]
                                     /\ answering'[d] = answering[d]
    PROVE  EchoInv'
<1>1. Shapes /\ Counted(c) /\ Answers(c) /\ (c \notin torn => Whole(c))
  BY DEF EchoInv
<1>2. /\ n \in Nat /\ 1 <= n /\ n <= toServer[c]
      /\ toServer' = [toServer EXCEPT ![c] = @ - n] /\ partial' = partial
      /\ \/ (n = toServer[c] \/ n = 2048) /\ UNCHANGED <<cuts, torn>>
         \/ cuts' = cuts + 1 /\ torn' = torn \cup {c}
      /\ toServer[c] <= 2048 => n = toServer[c] \/ torn' = torn \cup {c}
  BY <1>1, ReadFacts
<1>3. /\ Len(sent[c]) \in Nat /\ Len(reads[c]) \in Nat /\ cuts \in Nat /\ measured[c] \in Nat
      /\ toServer[c] \in Nat /\ toClient[c] \in Nat /\ partial[c] \in Nat /\ Times(c) \in Nat
      /\ Times(c) = Len(reads[c]) + partial[c]
  BY <1>1, ConnFacts
<1>4. /\ Len(Append(reads[c], n)) = Len(reads[c]) + 1
      /\ \A i \in 1..Len(reads[c]) : Append(reads[c], n)[i] = reads[c][i]
      /\ Append(reads[c], n)[Len(reads[c]) + 1] = n
  BY <1>1, <1>2, OneMore DEF Shapes
<1>5. /\ reads'[c] = Append(reads[c], n) /\ toServer'[c] = toServer[c] - n
      /\ Times(c)' = Times(c) + 1
  <2>1. reads'[c] = Append(reads[c], n) /\ toServer'[c] = toServer[c] - n
    BY <1>1, <1>2 DEF Shapes
  <2>2. Times(c)' = Len(reads[c]) + 1 + partial[c]
    BY <1>2, <1>4, <2>1 DEF Times
  <2> QED BY <1>3, <2>1, <2>2, SMTT(30)
<1>6. \A d \in Clients \ {c} : Same(d)
  BY <1>1, <1>2 DEF Shapes, Same
<1>7. cuts <= cuts' /\ torn \subseteq torn'
  <2>1. cuts \in Nat /\ cuts' \in {cuts, cuts + 1}
    BY <1>2, <1>3
  <2>2. torn' \in {torn, torn \cup {c}}
    BY <1>2
  <2>3. QED
    BY <2>1, <2>2
<1>8. Counted(c)'
  <2>1. Left(toServer[c], Len(sent[c]), cuts, Len(reads[c]))
    BY <1>1 DEF Counted
  <2>2. /\ n = toServer[c] \/ n = 2048 => Left(toServer[c] - n, Len(sent[c]), cuts, Len(reads[c]) + 1)
        /\ Left(toServer[c] - n, Len(sent[c]), cuts + 1, Len(reads[c]) + 1)
    <3>1. n \in Nat /\ 1 <= n /\ n <= toServer[c]
      BY <1>2
    <3> DEFINE w == toServer[c]
               s == Len(sent[c])
               r == Len(reads[c])
    <3>2. w \in Nat /\ s \in Nat /\ cuts \in Nat /\ r \in Nat
          /\ Left(w, s, cuts, r) /\ n <= w
      BY <1>3, <2>1, <3>1
    <3> HIDE DEF w, s, r
    <3>3. /\ n = w \/ n = 2048 => Left(w - n, s, cuts, r + 1)
          /\ Left(w - n, s, cuts + 1, r + 1)
      BY <3>1, <3>2, LeftAfterRead
    <3>4. QED
      BY <3>3 DEF w, s, r
  <2>3. Left(toServer'[c], Len(sent[c]), cuts', Len(reads'[c]))
    BY <1>2, <1>4, <1>5, <2>2
  <2>4. partial'[c] <= cuts'
    BY <1>1, <1>2, <1>3 DEF Counted
  <2>5. QED
    BY <1>1, <2>3, <2>4 DEF Counted
<1>9. Answers(c)'
  <2>1. toClient[c] + 4 * 0 <= 4 * (Times(c) - measured[c])
    BY <1>1 DEF Answers
  <2>2. u + 4 * o <= 4 * ((Times(c) + 1) - measured[c])
    <3> DEFINE t == toClient[c]
               r == Times(c)
               m == measured[c]
    <3>1. t \in Nat /\ r \in Nat /\ m \in Nat /\ t + 4 * 0 <= 4 * (r - m) /\ u + 4 * o <= t + 4
      BY <1>3, <2>1
    <3> HIDE DEF t, r, m
    <3>2. u + 4 * o <= 4 * ((r + 1) - m)
      BY <3>1, AnswersAfterRead
    <3>3. QED
      BY <3>2 DEF r, m
  <2>3. /\ atServer[c] = "fin" => Times(c) >= Len(sent[c])
        /\ atServer[c] \in {"broken", "reset"} => Times(c) >= Len(sent[c]) + 1
    BY <1>1, <1>3 DEF Answers
  <2>4. /\ Times(c) >= Len(sent[c]) => /\ Times(c) + 1 >= Len(sent[c]) + o
                                      /\ Times(c) + 1 >= Len(sent[c]) + 1 + 0
        /\ Times(c) >= Len(sent[c]) + 1 => Times(c) + 1 >= Len(sent[c]) + 1 + o
    <3>1. \A r, s \in Nat : /\ r >= s => r + 1 >= s + o /\ r + 1 >= s + 1 + 0
                            /\ r >= s + 1 => r + 1 >= s + 1 + o
      OBVIOUS
    <3>2. QED
      BY <1>3, <3>1
  <2>5. /\ atServer'[c] = "fin" => Times(c)' >= Len(sent[c]) + o
        /\ atServer'[c] \in {"broken", "reset"} => Times(c)' >= Len(sent[c]) + 1 + o
    BY <1>4, <1>5, <2>3, <2>4
  <2>6. atClient'[c] # "no" \/ atServer'[c] # "no" => stage'[c] = "done"
    BY <1>1 DEF Answers
  <2>7. QED
    BY <1>4, <1>5, <2>2, <2>5, <2>6 DEF Answers
<1>10. ASSUME c \notin torn' PROVE Whole(c)'
  <2>1. /\ \A i \in 1..Len(reads[c]) : reads[c][i] = sent[c][i]
        /\ Len(reads[c]) + 1 = Len(sent[c])
        /\ toServer[c] = sent[c][Len(sent[c])] /\ partial[c] = 0
    BY <1>1, <1>7, <1>10 DEF Whole
  <2>2. toServer[c] <= 2048
    <3>1. Len(sent[c]) \in 1..Len(sent[c])
      BY <1>3, <2>1
    <3>2. toServer[c] <= 1024
      BY <1>1, <2>1, <3>1, ConnFacts
    <3>3. QED
      BY <1>3, <3>2
  <2>3. n = toServer[c]
    BY <1>2, <1>10, <2>2
  <2>4. toServer'[c] = 0
    BY <1>3, <1>5, <2>3
  <2>5. \A i \in 1..Len(reads'[c]) : reads'[c][i] = sent[c][i]
    BY <1>3, <1>4, <1>5, <2>1, <2>3
  <2>6. partial'[c] = 0
    BY <1>2, <2>1
  <2>7. QED
    BY <1>4, <1>5, <2>1, <2>4, <2>5, <2>6 DEF Whole
<1>11. QED
  BY <1>6, <1>7, <1>8, <1>9, <1>10, OneConnection

LEMMA HandlerRecvInv ==
    ASSUME EchoInv, NEW c \in Clients, HandlerRecv(c)
    PROVE  EchoInv'
<1>1. PICK n \in Reads(c) :
         /\ Taken(c, n) /\ answering' = [answering EXCEPT ![c] = n]
         /\ reads' = [reads EXCEPT ![c] = Append(@, n)]
  BY DEF HandlerRecv
<1>2. /\ server = "up" /\ program = "threads" /\ socket[c] = "open"
      /\ answering[c] = 0 /\ toServer[c] > 0
      /\ UNCHANGED <<stage, sent, measured, socket, toClient, atServer, atClient, server, program>>
  BY DEF HandlerRecv, Serves
<1>3. Shapes
  BY DEF EchoInv
<1>4. ReadTaken(c, n)
  BY <1>1, <1>2, <1>3, ReadShapes
<1>5. Shapes' /\ answering'[c] = n
  BY <1>1, <1>2, <1>3, <1>4 DEF Shapes, ReadTaken
<1>6. Owing(c) = 0 /\ Owing(c)' = 1
  BY <1>2, <1>4, <1>5 DEF Owing, ReadTaken
<1>7. /\ \A d \in Clients \ {c} : answering'[d] = answering[d]
      /\ toClient'[c] \in Nat /\ toClient'[c] + 4 * 1 <= toClient[c] + 4
  BY <1>1, <1>2, <1>3 DEF Shapes
<1>8. QED
  BY <1>1, <1>2, <1>5, <1>6, <1>7, ReadInv

LEMMA EpollReadsInv ==
    ASSUME EchoInv, NEW c \in Clients, EpollReads(c)
    PROVE  EchoInv'
<1>1. PICK n \in Reads(c) :
         /\ Taken(c, n) /\ Answered(c, Digits(n))
         /\ reads' = [reads EXCEPT ![c] = Append(@, n)]
  BY DEF EpollReads
<1>2. /\ server = "up" /\ socket[c] = "open" /\ toServer[c] > 0 /\ program = "epoll"
      /\ UNCHANGED <<stage, sent, measured, socket, atClient, server, program, answering>>
  BY DEF EpollReads, Serves
<1>3. Shapes /\ ReadTaken(c, n)
  BY <1>1, <1>2, ReadShapes DEF EchoInv
<1>4. Digits(n) \in 1..4
  BY DEF Digits
<1>5. PICK heard \in HeardAfterSend(atServer[c]) : atServer' = [atServer EXCEPT ![c] = heard]
  BY <1>1 DEF Answered
<1>6. PICK u \in Nat : /\ toClient' = [toClient EXCEPT ![c] = u] /\ u <= toClient[c] + 4
  <2>1. toClient[c] \in Nat
    BY <1>3 DEF Shapes
  <2>2. PICK u : /\ u = (IF atServer[c] = "no" THEN toClient[c] + Digits(n) ELSE toClient[c])
                 /\ toClient' = [toClient EXCEPT ![c] = u]
    BY <1>1 DEF Answered
  <2>3. u \in Nat /\ u <= toClient[c] + 4
    BY <1>4, <2>1, <2>2
  <2>4. QED
    BY <2>2, <2>3
<1>7. /\ heard \in {"no", "fin", "broken", "reset"}
      /\ heard = atServer[c] \/ (atServer[c] = "fin" /\ heard = "broken")
  BY <1>3, <1>5 DEF HeardAfterSend, Shapes
<1>8. Shapes'
  BY <1>1, <1>2, <1>3, <1>5, <1>6, <1>7 DEF Shapes, ReadTaken
<1>9. /\ toClient'[c] = u /\ atServer'[c] = heard
      /\ \A d \in Clients \ {c} : /\ toClient'[d] = toClient[d] /\ atServer'[d] = atServer[d]
                                    /\ answering'[d] = answering[d]
  BY <1>2, <1>3, <1>5, <1>6 DEF Shapes
<1>10. answering[c] = 0 /\ Owing(c) = 0 /\ Owing(c)' = 0 /\ u + 4 * 0 <= toClient[c] + 4
  BY <1>2, <1>6 DEF Owing, EchoInv, Counted
<1>11. QED
  BY <1>1, <1>2, <1>6, <1>7, <1>8, <1>9, <1>10, ReadInv
LEMMA HandlerSendInv ==
    ASSUME EchoInv, NEW c \in Clients, HandlerSend(c)
    PROVE  EchoInv'
<1>1. /\ server = "up" /\ socket[c] = "open" /\ answering[c] > 0 /\ atServer[c] \in {"no", "fin"}
      /\ answering' = [answering EXCEPT ![c] = 0]
      /\ UNCHANGED <<stage, sent, measured, socket, toServer, atClient, cuts, torn, partial, server,
                     program, reads>>
  BY DEF HandlerSend, Serves
<1>2. Shapes /\ Counted(c) /\ Answers(c) /\ (c \notin torn => Whole(c))
  BY <1>1 DEF EchoInv
<1>3. PICK heard \in HeardAfterSend(atServer[c]) : atServer' = [atServer EXCEPT ![c] = heard]
  BY DEF HandlerSend, Answered
<1>4. /\ heard \in {"no", "fin", "broken", "reset"}
      /\ heard = atServer[c] \/ (atServer[c] = "fin" /\ heard = "broken")
  BY <1>1, <1>3 DEF HeardAfterSend
<1>5. PICK u \in Nat : /\ toClient' = [toClient EXCEPT ![c] = u]
                      /\ u <= toClient[c] + 4
  <2>1. toClient[c] \in Nat
    BY <1>2 DEF Shapes
  <2>2. PICK u : /\ u = (IF atServer[c] = "no" THEN toClient[c] + 4 ELSE toClient[c])
                 /\ toClient' = [toClient EXCEPT ![c] = u]
    BY DEF HandlerSend, Answered
  <2>3. u \in Nat /\ u <= toClient[c] + 4
    BY <2>1, <2>2
  <2>4. QED
    BY <2>2, <2>3
<1>6. Shapes'
  BY <1>1, <1>2, <1>3, <1>4, <1>5 DEF Shapes
<1>7. \A d \in Clients \ {c} : Same(d)
  BY <1>1, <1>2, <1>3, <1>5 DEF Shapes, Same
<1>8. answering'[c] = 0 /\ toClient'[c] = u /\ atServer'[c] = heard
  BY <1>1, <1>2, <1>3, <1>5 DEF Shapes
<1>9. Counted(c)'
  BY <1>1, <1>2, <1>8 DEF Counted
<1>10. Answers(c)'
  <2>1. Owing(c) = 1 /\ Owing(c)' = 0
    BY <1>1, <1>8 DEF Owing
  <2>2. u + 4 * 0 <= 4 * (Times(c) - measured[c])
    <3>1. toClient[c] + 4 * 1 <= 4 * (Times(c) - measured[c])
      BY <1>2, <2>1 DEF Answers
    <3>2. \A t, v, r, m \in Nat : v <= t + 4 /\ t + 4 * 1 <= 4 * (r - m) => v + 4 * 0 <= 4 * (r - m)
      OBVIOUS
    <3>3. toClient[c] \in Nat /\ Times(c) \in Nat /\ measured[c] \in Nat
      BY <1>2, ConnFacts
    <3>4. QED
      BY <1>5, <3>1, <3>2, <3>3
  <2>3. Times(c) \in Nat /\ Len(sent[c]) \in Nat /\ Times(c)' = Times(c)
    BY <1>1, <1>2, ConnFacts DEF Times
  <2>4. atServer[c] = "fin" => Times(c) >= Len(sent[c]) + 1
    BY <1>2, <2>1 DEF Answers
  <2>5. heard # "no" => /\ Times(c) >= Len(sent[c]) + 0
                        /\ Times(c) >= Len(sent[c]) + 1 + 0
    BY <1>1, <1>4, <2>3, <2>4
  <2>6. QED
    BY <1>1, <1>2, <1>4, <1>8, <2>1, <2>2, <2>3, <2>5 DEF Answers
<1>11. c \notin torn' => Whole(c)'
  BY <1>1, <1>2 DEF Whole
<1>12. cuts <= cuts'
  BY <1>1, <1>2 DEF Shapes
<1>13. QED
  BY <1>1, <1>6, <1>7, <1>9, <1>10, <1>11, <1>12, OneConnection

\* The server hangs up on a client that has closed; it may have owed it an answer.
LEMMA HangUpInv ==
    ASSUME EchoInv, NEW c \in Clients, server = "up", socket[c] = "open", atServer[c] # "no", HungUp({c}),
           answering' = answering \/ answering' = [answering EXCEPT ![c] = 0],
           UNCHANGED <<stage, sent, measured, toServer, toClient, atServer, cuts, torn, partial,
                       server, program, reads>>
    PROVE  EchoInv'
<1>1. Shapes /\ Counted(c) /\ Answers(c) /\ (c \notin torn => Whole(c))
  BY DEF EchoInv
<1>2. /\ socket' = [d \in Clients |-> IF d \in {c} THEN "closed" ELSE socket[d]]
      /\ atClient' = [d \in Clients |->
                         IF d \notin {c} THEN atClient[d]
                         ELSE IF socket[d] = "queued" \/ toServer[d] > 0 THEN "reset" ELSE "fin"]
  BY DEF HungUp
<1>3. Shapes'
  <2>1. answering' \in [Clients -> Nat]
    <3>1. answering \in [Clients -> Nat]
      BY <1>1 DEF Shapes
    <3>2. CASE answering' = answering
      BY <3>1, <3>2
    <3>3. CASE answering' = [answering EXCEPT ![c] = 0]
      BY <3>1, <3>3
    <3>4. QED
      BY <3>2, <3>3
  <2>2. socket' \in [Clients -> {"none", "queued", "open", "closed"}]
    BY <1>1, <1>2 DEF Shapes
  <2>3. atClient' \in [Clients -> {"no", "fin", "broken", "reset"}]
    BY <1>1, <1>2 DEF Shapes
  <2>4. QED
    BY <1>1, <2>1, <2>2, <2>3 DEF Shapes
<1>4. \A d \in Clients \ {c} : Same(d)
  BY <1>1, <1>2 DEF Shapes, Same
<1>5. /\ socket'[c] = "closed" /\ stage[c] = "done" /\ Owing(c)' \in {0, Owing(c)}
      /\ program = "epoll" => answering'[c] = 0
  BY <1>1, <1>2 DEF Shapes, Answers, Counted, Owing
<1>6. Counted(c)'
  BY <1>1, <1>5 DEF Counted
<1>7. Answers(c)'
  <2>1. Times(c) \in Nat /\ Len(sent[c]) \in Nat /\ Owing(c) \in {0, 1} /\ Times(c)' = Times(c)
        /\ toClient[c] \in Nat /\ measured[c] \in Nat
    BY <1>1, ConnFacts DEF Times
  <2>2. /\ toClient[c] + 4 * Owing(c) <= 4 * (Times(c) - measured[c])
        /\ atServer[c] = "fin" => Times(c) >= Len(sent[c]) + Owing(c)
        /\ atServer[c] \in {"broken", "reset"} => Times(c) >= Len(sent[c]) + 1 + Owing(c)
    BY <1>1 DEF Answers
  <2>3. \A t, r, m, n \in Nat, o \in {0, 1} :
           /\ t + 4 * o <= 4 * (r - m) => t + 4 * 0 <= 4 * (r - m)
           /\ r >= n + o => r >= n + 0
           /\ r >= n + 1 + o => r >= n + 1 + 0
    OBVIOUS
  <2>4. CASE Owing(c)' = Owing(c)
    BY <1>5, <2>1, <2>2, <2>4 DEF Answers
  <2>5. CASE Owing(c)' = 0
    BY <1>5, <2>1, <2>2, <2>3, <2>5 DEF Answers
  <2>6. QED
    BY <1>5, <2>4, <2>5
<1>8. c \notin torn' => Whole(c)'
  BY <1>1 DEF Whole
<1>9. cuts <= cuts'
  BY <1>1 DEF Shapes
<1>10. QED
  BY <1>3, <1>4, <1>6, <1>7, <1>8, <1>9, OneConnection

LEMMA HangsUp ==
    ASSUME EchoInv, NEW c \in Clients, HandlerCloses(c) \/ HandlerSendFails(c) \/ EpollCloses(c)
    PROVE  EchoInv'
BY HangUpInv DEF HandlerCloses, HandlerSendFails, EpollCloses, Serves

\* When the process ends the kernel closes what it had open.
LEMMA EndsInv ==
    ASSUME EchoInv, server = "up", program = "threads", NEW how \in {"exited", "killed"}, Ends(how),
           how = "killed" =>
              \E c \in Clients : stage[c] = "done" /\ Times(c) >= Len(sent[c]) + 2,
           UNCHANGED <<stage, sent, measured, toServer, toClient, atServer, cuts, torn, partial,
                       program, answering, reads>>
    PROVE  EchoInv'
<1> DEFINE S == {c \in Clients : socket[c] \in {"queued", "open"}}
<1>1. /\ server' = how
      /\ socket' = [c \in Clients |-> IF c \in S THEN "closed" ELSE socket[c]]
      /\ atClient' = [c \in Clients |->
                         IF c \notin S THEN atClient[c]
                         ELSE IF socket[c] = "queued" \/ toServer[c] > 0 THEN "reset" ELSE "fin"]
  BY DEF Ends, HungUp
<1>2. Shapes'
  BY <1>1 DEF EchoInv, Shapes
<1>3. ASSUME NEW c \in Clients PROVE Counted(c)'
  BY <1>1 DEF EchoInv, Counted
<1>4. server' # "up"
  BY <1>1
<1>5. server' = "killed" =>
         \E c \in Clients : stage'[c] = "done" /\ Times(c)' >= Len(sent'[c]) + 2
  BY <1>1 DEF Times
<1>6. QED
  BY <1>2, <1>3, <1>4, <1>5 DEF EchoInv

LEMMA EndingsInv ==
    ASSUME EchoInv, Interrupt \/ \E c \in Clients : HandlerKills(c)
    PROVE  EchoInv'
<1>1. CASE Interrupt
  BY <1>1, EndsInv DEF Interrupt
<1>2. ASSUME NEW c \in Clients, HandlerKills(c) PROVE EchoInv'
  <2>1. server = "up" /\ program = "threads" /\ answering[c] > 0 /\ atServer[c] = "broken"
    BY <1>2 DEF HandlerKills, Serves
  <2>2. Shapes /\ Answers(c)
    BY <2>1 DEF EchoInv
  <2>3. stage[c] = "done" /\ Times(c) >= Len(sent[c]) + 1 + 1
    BY <2>1, <2>2 DEF Answers, Owing, Times
  <2>4. Times(c) >= Len(sent[c]) + 2
    BY <2>2, <2>3, ConnFacts
  <2>5. QED
    BY <1>2, <2>1, <2>3, <2>4, EndsInv DEF HandlerKills
<1>3. QED
  BY <1>1, <1>2

----------------------------------------------------------------------------
(* The theorems *)

LEMMA EchoStep == EchoInv /\ [Next]_vars => EchoInv'
<1> SUFFICES ASSUME EchoInv, [Next]_vars PROVE EchoInv'
  OBVIOUS
<1>1. CASE UNCHANGED vars
  <2>1. UNCHANGED <<stage, sent, measured, socket, toServer, toClient, atServer, atClient, cuts,
                    torn, partial, server, program, answering, reads>>
    BY <1>1 DEF vars, connVars
  <2>2. Shapes'
    BY <2>1 DEF EchoInv, Shapes
  <2>3. ASSUME NEW c \in Clients
        PROVE  Counted(c)' /\ (server' = "up" => Answers(c)' /\ (c \notin torn' => Whole(c)'))
    BY <2>1 DEF EchoInv, Counted, Answers, Owing, Times, Whole
  <2>4. server' = "killed" =>
           \E c \in Clients : stage'[c] = "done" /\ Times(c)' >= Len(sent'[c]) + 2
    BY <2>1 DEF EchoInv, Times
  <2>5. QED
    BY <2>2, <2>3, <2>4 DEF EchoInv
<1>2. QED
  BY <1>1, ClientInv, AcceptInv, HandlerRecvInv, HangsUp, HandlerSendInv, EndingsInv, EpollReadsInv,
     EpollAcceptsInv
  DEF Next, Thread, Event

LEMMA EchoInit == Init => EchoInv
<1> SUFFICES ASSUME Init PROVE EchoInv
  OBVIOUS
<1>1. /\ server = "up" /\ cuts = 0 /\ torn = {} /\ program \in {"threads", "epoll"}
      /\ stage = [c \in Clients |-> "new"] /\ sent = [c \in Clients |-> << >>]
      /\ measured = [c \in Clients |-> 0] /\ socket = [c \in Clients |-> "none"]
      /\ toServer = [c \in Clients |-> 0] /\ toClient = [c \in Clients |-> 0]
      /\ atServer = [c \in Clients |-> "no"] /\ atClient = [c \in Clients |-> "no"]
      /\ answering = [c \in Clients |-> 0] /\ reads = [c \in Clients |-> << >>]
      /\ partial = [c \in Clients |-> 0]
  BY DEF Init, ConnInit, Each
<1>2. << >> \in Seq(Sizes) /\ << >> \in Seq(Nat) /\ Len(<< >>) = 0
  BY EmptySeq
<1>3. Shapes
  BY <1>1, <1>2 DEF Shapes
<1>4. ASSUME NEW c \in Clients
      PROVE  Counted(c) /\ Answers(c) /\ Whole(c)
  <2>1. Left(0, 0, 0, 0)
    BY DEF Left
  <2>2. 0 + 4 * 0 <= 4 * (0 - 0) /\ \A i \in 1..0 : FALSE
    OBVIOUS
  <2>3. QED
    BY <1>1, <1>2, <2>1, <2>2 DEF Counted, Answers, Owing, Times, Whole
<1>5. QED
  BY <1>1, <1>3, <1>4 DEF EchoInv

\* Clients and server count the same packets.
LEMMA EchoInductive == Spec => []EchoInv
BY EchoInit, EchoStep, PTL DEF Spec

\* Of the bytes on a connection no more are read than were sent, whatever the
\* pieces; a thread answers only on its own socket.
THEOREM EchoTypeCorrect == Spec => []EchoTypeOK
<1>1. EchoInv => EchoTypeOK
  <2> SUFFICES ASSUME EchoInv PROVE EchoTypeOK
    OBVIOUS
  <2>1. Shapes
    BY DEF EchoInv
  <2>2. ASSUME NEW c \in Clients
        PROVE  /\ Len(reads[c]) <= Len(sent[c]) + cuts
               /\ measured[c] \in {Len(sent[c]), Len(sent[c]) - 1}
               /\ answering[c] > 0 => socket[c] # "queued"
               /\ partial[c] \in 0..cuts
    <3>1. Counted(c)
      BY DEF EchoInv
    <3>2. /\ Len(sent[c]) \in Nat /\ Len(reads[c]) \in Nat /\ cuts \in Nat /\ measured[c] \in Nat
          /\ toServer[c] \in Nat /\ partial[c] \in Nat
      BY <2>1, ConnFacts
    <3>3. \A w, n, k, r \in Nat : Left(w, n, k, r) => r <= n + k
      BY DEF Left
    <3>4. Len(reads[c]) <= Len(sent[c]) + cuts
      BY <3>1, <3>2, <3>3 DEF Counted
    <3>5. measured[c] \in {Len(sent[c]), Len(sent[c]) - 1}
      BY <2>1, <3>1, <3>2 DEF Counted, Shapes
    <3>6. partial[c] \in 0..cuts
      BY <3>1, <3>2 DEF Counted
    <3>7. QED
      BY <3>1, <3>4, <3>5, <3>6 DEF Counted
  <2>3. QED
    BY <2>1, <2>2 DEF EchoTypeOK, Shapes
<1>2. QED
  BY <1>1, EchoInductive, PTL

LEMMA MeasuredRead == EchoInv => MeasuredAtMostRead
<1> SUFFICES ASSUME EchoInv, server = "up", NEW c \in Clients
             PROVE  measured[c] <= Len(reads[c]) + partial[c]
  BY DEF MeasuredAtMostRead
<1>1. Answers(c) /\ Shapes
  BY DEF EchoInv
<1>2. \A t, r, m \in Nat, o \in {0, 1} : t + 4 * o <= 4 * (r - m) => m <= r
  OBVIOUS
<1>3. /\ toClient[c] \in Nat /\ Times(c) \in Nat /\ measured[c] \in Nat /\ Owing(c) \in {0, 1}
      /\ Times(c) = Len(reads[c]) + partial[c]
  BY <1>1, ConnFacts
<1>4. QED
  BY <1>1, <1>2, <1>3 DEF Answers

\* A client has taken at most as many times as the server has answered reads, and one
\* more for each time that it took a piece of an answer for a whole one.
THEOREM MeasuredAtMostReadAlways == Spec => []MeasuredAtMostRead
BY EchoInductive, MeasuredRead, PTL

\* If its packets come whole, each time a client takes is that of the round trip
\* of one of them.
THEOREM RoundTripsAreRealAlways == Spec => []RoundTripsAreReal
<1>1. EchoInv => RoundTripsAreReal
  <2> SUFFICES ASSUME EchoInv, server = "up", NEW c \in Clients, c \notin torn
               PROVE  /\ Len(reads[c]) <= Len(sent[c])
                      /\ \A i \in DOMAIN reads[c] : reads[c][i] = sent[c][i]
                      /\ measured[c] <= Len(reads[c])
    BY DEF RoundTripsAreReal
  <2>1. Whole(c) /\ Shapes
    BY DEF EchoInv
  <2>2. DOMAIN reads[c] = 1..Len(reads[c])
    BY <2>1, LenProperties DEF Shapes
  <2>3. Len(reads[c]) <= Len(sent[c])
    BY <2>1, ConnFacts DEF Whole
  <2>4. MeasuredAtMostRead
    BY MeasuredRead
  <2>5. measured[c] <= Len(reads[c])
    BY <2>1, <2>4, ConnFacts DEF Whole, MeasuredAtMostRead
  <2>6. QED
    BY <2>1, <2>2, <2>3, <2>5 DEF Whole
<1>2. QED
  BY <1>1, EchoInductive, PTL

\* SIGPIPE takes the server with threads down only if some client had two answers too
\* many, for pieces of its packets or of answers: what comes whole never does it.
THEOREM KilledByPiecesAlways == Spec => []KilledByPieces
<1>1. EchoInv => KilledByPieces
  BY DEF EchoInv, KilledByPieces, Times
<1>2. QED
  BY <1>1, EchoInductive, PTL
=============================================================================
