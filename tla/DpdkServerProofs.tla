-------------------------- MODULE DpdkServerProofs ---------------------------
(***************************************************************************)
(* Theorems about DpdkServer, for any clients, requests and cuts, from its *)
(* inductive invariant DpdkInv: what parse_resp() finds in a read that     *)
(* starts and ends anywhere was sent by the client (ReadSent); what it     *)
(* finds in one that starts and ends with requests is these, and all of    *)
(* them (ReadAll).                                                         *)
(***************************************************************************)
EXTENDS DpdkServer, RespClientsProofs

----------------------------------------------------------------------------
(* Lines *)

\* The first place from i on that is in S, or the one behind the last.
HasFirst(l, i, S) ==
    \E n \in i..(l + 1) : (n <= l => n \in S) /\ \A j \in i..(n - 1) : j \notin S

LEMMA FirstPlace ==
    ASSUME NEW l \in Nat, NEW i \in 1..(l + 1), NEW S
    PROVE  HasFirst(l, i, S)
<1> SUFFICES \E n \in i..(l + 1) : (n <= l => n \in S) /\ \A j \in i..(n - 1) : j \notin S
  BY DEF HasFirst
<1> DEFINE I == {j \in i..l : j \in S}
<1>1. CASE I = {}
  <2>1. l + 1 \in i..(l + 1) /\ ~(l + 1 <= l) /\ \A j \in i..(l + 1 - 1) : j \in i..l
    OBVIOUS
  <2> QED BY <1>1, <2>1
<1>2. CASE I # {}
  <2>1. I \in SUBSET Nat
    OBVIOUS
  <2>2. Min(I) \in I /\ \A y \in I : Min(I) <= y
    <3> HIDE DEF I
    <3> QED BY <1>2, <2>1, MinIs
  <2> PICK n : n = Min(I)
    OBVIOUS
  <2>3. n \in i..l /\ n \in S /\ \A y \in I : n <= y
    BY <2>2
  <2>4. ASSUME NEW j \in i..(n - 1) PROVE j \notin S
    <3>1. j \in i..l /\ ~(n <= j)
      BY <2>3
    <3> QED BY <2>3, <3>1
  <2> QED BY <2>3, <2>4
<1> QED BY <1>1, <1>2

LEMMA LineStartIs ==
    ASSUME NEW chunk \in Seq(Tokens), NEW i \in 1..(Len(chunk) + 1),
           NEW n, n = LineStart(chunk, i)
    PROVE  /\ n \in i..(Len(chunk) + 1)
           /\ n <= Len(chunk) => chunk[n] \notin {"CR", "LF"}
           /\ \A j \in i..Len(chunk) : j < n => chunk[j] \in {"CR", "LF"}
<1> DEFINE P(b) == /\ b <= Len(chunk) => chunk[b] \notin {"CR", "LF"}
                   /\ \A j \in i..b - 1 : chunk[j] \in {"CR", "LF"}
<1>1. Len(chunk) \in Nat /\ i \in Nat \ {0}
  BY SeqFacts
<1>2. \E b \in i..Len(chunk) + 1 : P(b)
  <2> PICK S : S = {j \in 1..Len(chunk) : chunk[j] \notin {"CR", "LF"}}
    OBVIOUS
  <2>l. PICK l \in Nat : l = Len(chunk)
    BY <1>1
  <2>p. PICK p \in Nat \ {0} : p = i
    BY <1>1
  <2>0. p \in 1..(l + 1)
    BY <2>l, <2>p
  <2>1. HasFirst(l, p, S)
    BY <2>0, FirstPlace
  <2>2. PICK b \in p..(l + 1) : (b <= l => b \in S) /\ \A j \in p..(b - 1) : j \notin S
    BY <2>1 DEF HasFirst
  <2>3. \A j \in p..(b - 1) : j \in 1..l
    BY <2>2
  <2> QED BY <2>2, <2>3, <2>l, <2>p
<1>3. n \in i..Len(chunk) + 1 /\ P(n)
  <2>1. n = CHOOSE b \in i..Len(chunk) + 1 : P(b)
    BY DEF LineStart
  <2> HIDE DEF P
  <2> QED BY <1>2, <2>1
<1>4. \A j \in i..Len(chunk) : j < n => j \in i..n - 1
  BY <1>1, <1>3
<1> QED BY <1>3, <1>4

LEMMA LineEndIs ==
    ASSUME NEW chunk \in Seq(Tokens), NEW b \in 1..(Len(chunk) + 1),
           NEW e, e = LineEnd(chunk, b)
    PROVE  \/ e = Len(chunk) + 1 /\ \A j \in b..Len(chunk) : chunk[j] \notin Ends
           \/ \E at \in b..Len(chunk) :
                 /\ chunk[at] \in Ends
                 /\ \A j \in b..Len(chunk) : j < at => chunk[j] \notin Ends
                 /\ e = IF chunk[at] \in {"CR", "LF"} THEN at ELSE at + 1
<1> DEFINE P(i) == /\ i <= Len(chunk) => chunk[i] \in Ends
                   /\ \A j \in b..i - 1 : chunk[j] \notin Ends
           At   == CHOOSE i \in b..Len(chunk) + 1 : P(i)
<1>1. Len(chunk) \in Nat /\ b \in Nat \ {0}
  BY SeqFacts
<1>2. \E i \in b..Len(chunk) + 1 : P(i)
  <2> PICK S : S = {j \in 1..Len(chunk) : chunk[j] \in Ends}
    OBVIOUS
  <2>l. PICK l \in Nat : l = Len(chunk)
    BY <1>1
  <2>p. PICK p \in Nat \ {0} : p = b
    BY <1>1
  <2>0. p \in 1..(l + 1)
    BY <2>l, <2>p
  <2>1. HasFirst(l, p, S)
    BY <2>0, FirstPlace
  <2>2. PICK i \in p..(l + 1) : (i <= l => i \in S) /\ \A j \in p..(i - 1) : j \notin S
    BY <2>1 DEF HasFirst
  <2>3. \A j \in p..(i - 1) : j \in 1..l
    BY <2>2
  <2> QED BY <2>2, <2>3, <2>l, <2>p
<1>3. At \in b..Len(chunk) + 1 /\ P(At)
  <2> HIDE DEF P
  <2> QED BY <1>2
<1>4. e = IF At > Len(chunk) \/ chunk[At] \in {"CR", "LF"} THEN At ELSE At + 1
  BY DEF LineEnd
<1> HIDE DEF At
<1> PICK at : at = At
  OBVIOUS
<1>5. at \in b..Len(chunk) + 1 /\ P(at)
  BY <1>3
<1>6. e = IF at > Len(chunk) \/ chunk[at] \in {"CR", "LF"} THEN at ELSE at + 1
  BY <1>4
<1>7. CASE at > Len(chunk)
  <2>1. at = Len(chunk) + 1 /\ \A j \in b..Len(chunk) : j \in b..at - 1
    BY <1>1, <1>5, <1>7
  <2> QED BY <1>5, <1>6, <1>7, <2>1
<1>8. CASE ~(at > Len(chunk))
  <2>1. at \in b..Len(chunk) /\ at <= Len(chunk)
    BY <1>1, <1>5, <1>8
  <2>2. \A j \in b..Len(chunk) : j < at => j \in b..at - 1
    BY <1>1, <2>1
  <2>3. chunk[at] \in Ends /\ \A j \in b..Len(chunk) : j < at => chunk[j] \notin Ends
    BY <1>5, <2>1, <2>2
  <2>4. e = IF chunk[at] \in {"CR", "LF"} THEN at ELSE at + 1
    BY <1>6, <1>8
  <2> QED BY <2>1, <2>3, <2>4
<1> QED BY <1>7, <1>8

\* Reading goes forward.
LEMMA NextLineIs ==
    ASSUME NEW chunk \in Seq(Tokens), NEW b \in 1..(Len(chunk) + 1)
    PROVE  /\ LineEnd(chunk, b) \in b..(Len(chunk) + 1)
           /\ NextLine(chunk, b) \in b..(Len(chunk) + 1)
           /\ NextLine(chunk, b) \in LineEnd(chunk, b)..(Len(chunk) + 1)
           /\ NextLine(chunk, b) <= Len(chunk) => chunk[NextLine(chunk, b)] \notin {"CR", "LF"}
           /\ b <= Len(chunk) => NextLine(chunk, b) \in (b + 1)..(Len(chunk) + 1)
           /\ \A j \in 1..Len(chunk) :
                 LineEnd(chunk, b) <= j /\ j < NextLine(chunk, b) => chunk[j] \in {"CR", "LF"}
<1> PICK e : e = LineEnd(chunk, b)
  OBVIOUS
<1> PICK n : n = LineStart(chunk, e)
  OBVIOUS
<1>0. NextLine(chunk, b) = n /\ Len(chunk) \in Nat
  BY SeqFacts DEF NextLine
<1>1. e \in b..(Len(chunk) + 1)
  <2>1. CASE e = Len(chunk) + 1
    BY <1>0, <2>1
  <2>2. CASE \E at \in b..Len(chunk) : e = IF chunk[at] \in {"CR", "LF"} THEN at ELSE at + 1
    BY <1>0, <2>2
  <2> QED BY <2>1, <2>2, LineEndIs
<1>2. e \in 1..(Len(chunk) + 1)
  BY <1>0, <1>1
<1>3. /\ n \in e..(Len(chunk) + 1)
      /\ n <= Len(chunk) => chunk[n] \notin {"CR", "LF"}
      /\ \A j \in e..Len(chunk) : j < n => chunk[j] \in {"CR", "LF"}
  BY <1>2, LineStartIs
<1>4. b <= Len(chunk) => n # b
  <2>1. SUFFICES ASSUME b <= Len(chunk), n = b PROVE FALSE
    OBVIOUS
  <2>2. e = b /\ b \in b..Len(chunk) /\ chunk[b] \notin {"CR", "LF"}
    BY <1>0, <1>1, <1>3, <2>1
  <2>3. PICK at \in b..Len(chunk) : e = IF chunk[at] \in {"CR", "LF"} THEN at ELSE at + 1
    <3>1. e # Len(chunk) + 1
      BY <1>0, <2>1, <2>2
    <3> QED BY <3>1, LineEndIs
  <2>4. at = b
    BY <1>0, <2>2, <2>3
  <2> QED BY <1>0, <2>2, <2>3, <2>4
<1> QED BY <1>0, <1>1, <1>2, <1>3, <1>4

----------------------------------------------------------------------------
(* The requests of a read *)

LEMMA LineIs ==
    ASSUME NEW chunk \in Seq(Tokens), NEW b \in 1..(Len(chunk) + 1)
    PROVE  /\ Line(chunk, b) \in Seq(Tokens)
           /\ Len(Line(chunk, b)) = LineEnd(chunk, b) - b
           /\ \A i \in 1..(LineEnd(chunk, b) - b) : Line(chunk, b)[i] = chunk[b + i - 1]
<1> PICK e : e = LineEnd(chunk, b)
  OBVIOUS
<1>1. e \in b..(Len(chunk) + 1) /\ Len(chunk) \in Nat /\ \A j \in 1..Len(chunk) : chunk[j] \in Tokens
  BY NextLineIs, SeqFacts
<1>2. \A j \in b..(e - 1) : chunk[j] \in Tokens
  BY <1>1
<1>3. b \in Int /\ e - 1 \in Int /\ (b <= e - 1 \/ e = b)
  BY <1>1
<1>4. /\ SubSeq(chunk, b, e - 1) \in Seq(Tokens)
      /\ Len(SubSeq(chunk, b, e - 1)) = IF b <= e - 1 THEN (e - 1) - b + 1 ELSE 0
      /\ \A i \in 1..((e - 1) - b + 1) : SubSeq(chunk, b, e - 1)[i] = chunk[b + i - 1]
  BY <1>2, <1>3, SubSeqProperties
<1>5. (e - 1) - b + 1 = e - b /\ (IF b <= e - 1 THEN (e - 1) - b + 1 ELSE 0) = e - b
  BY <1>1, <1>3
<1> QED BY <1>4, <1>5 DEF Line

\* The line of a star and its count starts with this star.
LEMMA StarLine ==
    ASSUME NEW chunk \in Seq(Tokens), NEW b \in 1..Len(chunk), Line(chunk, b) = Star
    PROVE  chunk[b] = "*" /\ b + 1 <= Len(chunk)
<1> PICK e, y : e = LineEnd(chunk, b) /\ y = Line(chunk, b)
  OBVIOUS
<1>1. Len(chunk) \in Nat /\ b \in Nat \ {0} /\ b <= Len(chunk) /\ b \in 1..(Len(chunk) + 1)
  BY SeqFacts
<1>2. e \in b..(Len(chunk) + 1) /\ Len(y) = e - b /\ \A i \in 1..(e - b) : y[i] = chunk[b + i - 1]
  <2>1. e \in b..(Len(chunk) + 1)
    BY <1>1, NextLineIs
  <2>2. Len(y) = e - b /\ \A i \in 1..(e - b) : y[i] = chunk[b + i - 1]
    BY <1>1, LineIs
  <2> QED BY <2>1, <2>2
<1>3. Len(y) = 2 /\ y[1] = "*"
  BY DEF Star
<1>4. e = b + 2
  <2>1. e \in Nat
    BY <1>1, <1>2
  <2>2. e - b = 2
    BY <1>2, <1>3
  <2> QED BY <1>1, <2>1, <2>2
<1>5. 1 \in 1..(e - b) /\ b + 1 - 1 = b /\ b + 1 <= Len(chunk)
  BY <1>1, <1>2, <1>4
<1> QED BY <1>2, <1>3, <1>5

\* What may come out of a read.
Found == [op : Tokens \cup {"none"}, args : Seq(Seq(Tokens))]

\* The places of a request of which all is there, and what it is.
LEMMA WholeIs ==
    ASSUME NEW chunk \in Seq(Tokens), NEW b \in 1..Len(chunk), IsWhole(chunk, b)
    PROVE  /\ NameAt(chunk, b) \in (b + 1)..Len(chunk)
           /\ Op(chunk, b) \in Tokens
           /\ \A j \in 1..Arity(Op(chunk, b)) :
                 /\ SizeAt(chunk, b, j) \in (b + 2)..Len(chunk)
                 /\ WordAt(chunk, b, j) \in (b + 3)..Len(chunk)
                 /\ chunk[SizeAt(chunk, b, j)] \in {"$", "$0", ADollar}
           /\ Behind(chunk, b) \in (b + 1)..(Len(chunk) + 1)
           /\ RequestAt(chunk, b) \in Found
<1> DEFINE next(i) == NextLine(chunk, i)
<1> PICK L : L = Len(chunk)
  OBVIOUS
<1> PICK o : o = Op(chunk, b)
  OBVIOUS
<1>1. L \in Nat /\ b \in 1..L /\ \A j \in 1..L : chunk[j] \in Tokens
  BY SeqFacts
<1>2. \A i \in 1..L : next(i) \in (i + 1)..(L + 1)
  <2>1. TAKE i \in 1..L
  <2>2. i \in 1..(Len(chunk) + 1) /\ i <= Len(chunk)
    BY <1>1
  <2> QED BY <2>2, NextLineIs
<1>3. NameAt(chunk, b) \in (b + 1)..L
  <2>1. NameAt(chunk, b) = next(b) /\ NameAt(chunk, b) <= L
    BY DEF NameAt, IsWhole
  <2> HIDE DEF next
  <2> QED BY <1>1, <1>2, <2>1
<1>4. o \in Tokens /\ Arity(o) \in {1, 2}
  BY <1>1, <1>3 DEF Op, Arity
<1>5. /\ SizeAt(chunk, b, 1) = next(NameAt(chunk, b))
      /\ WordAt(chunk, b, 1) = next(SizeAt(chunk, b, 1))
      /\ SizeAt(chunk, b, 2) = next(WordAt(chunk, b, 1))
      /\ WordAt(chunk, b, 2) = next(SizeAt(chunk, b, 2))
  BY DEF SizeAt, WordAt
<1>6. \A j \in 1..Arity(o) : /\ SizeAt(chunk, b, j) <= L /\ WordAt(chunk, b, j) <= L
                             /\ chunk[SizeAt(chunk, b, j)] \in {"$", "$0", ADollar}
  BY DEF IsWhole
<1> HIDE DEF next
<1>7. SizeAt(chunk, b, 1) \in (b + 2)..L /\ WordAt(chunk, b, 1) \in (b + 3)..L
  <2>1. SizeAt(chunk, b, 1) <= L /\ WordAt(chunk, b, 1) <= L
    BY <1>4, <1>6
  <2>2. SizeAt(chunk, b, 1) \in (b + 2)..L
    BY <1>1, <1>2, <1>3, <1>5, <2>1
  <2> QED BY <1>1, <1>2, <1>5, <2>1, <2>2
<1>8. Arity(o) = 2 => SizeAt(chunk, b, 2) \in (b + 2)..L /\ WordAt(chunk, b, 2) \in (b + 3)..L
  <2>1. SUFFICES ASSUME Arity(o) = 2
                 PROVE  SizeAt(chunk, b, 2) \in (b + 2)..L /\ WordAt(chunk, b, 2) \in (b + 3)..L
    OBVIOUS
  <2>2. SizeAt(chunk, b, 2) <= L /\ WordAt(chunk, b, 2) <= L
    BY <1>6, <2>1
  <2>3. SizeAt(chunk, b, 2) \in (b + 2)..L
    BY <1>1, <1>2, <1>5, <1>7, <2>2
  <2> QED BY <1>1, <1>2, <1>5, <2>2, <2>3
<1>9. ASSUME NEW j \in 1..Arity(o)
      PROVE  /\ SizeAt(chunk, b, j) \in (b + 2)..L
             /\ WordAt(chunk, b, j) \in (b + 3)..L
  <2>1. j = 1 \/ (j = 2 /\ Arity(o) = 2)
    BY <1>4
  <2> QED BY <1>7, <1>8, <2>1
<1>10. Behind(chunk, b) \in (b + 1)..(L + 1)
  <2>1. Arity(o) \in 1..Arity(o)
    BY <1>4
  <2>2. Behind(chunk, b) = next(WordAt(chunk, b, Arity(o)))
    BY DEF Behind, next
  <2>3. WordAt(chunk, b, Arity(o)) \in (b + 3)..L
    BY <1>9, <2>1
  <2> QED BY <1>1, <1>2, <2>2, <2>3
<1>11. RequestAt(chunk, b) \in Found
  <2>1. ASSUME NEW j \in 1..Arity(o)
        PROVE  Word(chunk, SizeAt(chunk, b, j), Line(chunk, WordAt(chunk, b, j))) \in Seq(Tokens)
    <3>1. WordAt(chunk, b, j) \in 1..(Len(chunk) + 1)
      <4>1. WordAt(chunk, b, j) \in (b + 3)..L
        BY <1>9
      <4> QED BY <1>1, <4>1
    <3>2. Line(chunk, WordAt(chunk, b, j)) \in Seq(Tokens)
      BY <3>1, LineIs
    <3> QED BY <3>2, EmptySeq DEF Word
  <2> DEFINE a == [j \in 1..Arity(o) |->
                      Word(chunk, SizeAt(chunk, b, j), Line(chunk, WordAt(chunk, b, j)))]
  <2>2. a \in Seq(Seq(Tokens))
    <3>1. a \in [1..Arity(o) -> Seq(Tokens)] /\ Arity(o) \in Nat
      BY <1>4, <2>1
    <3> HIDE DEF a
    <3> QED BY <3>1
  <2>3. RequestAt(chunk, b) = [op |-> o, args |-> a]
    BY DEF RequestAt, Request
  <2> HIDE DEF a
  <2> QED BY <1>4, <2>2, <2>3 DEF Found
<1> QED BY <1>3, <1>4, <1>6, <1>9, <1>10, <1>11

\* What the reading makes of the place b, when f is what it makes of later ones.
Step(chunk, f, b) ==
    IF b > Len(chunk) THEN << >>
    ELSE CASE Line(chunk, b) = <<"*">> \/ chunk[b] = AStar -> <<NoWords>>
           [] Line(chunk, b) = Star ->
                 IF IsWhole(chunk, b)
                 THEN <<RequestAt(chunk, b)>> \o f[Behind(chunk, b)]
                 ELSE << >>
           [] OTHER -> f[NextLine(chunk, b)]

LEMMA StepIs ==
    ASSUME NEW chunk \in Seq(Tokens), NEW f, NEW b \in 1..(Len(chunk) + 1)
    PROVE  Step(chunk, f, b) =
              IF b > Len(chunk) THEN << >>
              ELSE IF Line(chunk, b) = <<"*">> \/ chunk[b] = AStar THEN <<NoWords>>
              ELSE IF Line(chunk, b) # Star THEN f[NextLine(chunk, b)]
              ELSE IF IsWhole(chunk, b) THEN <<RequestAt(chunk, b)>> \o f[Behind(chunk, b)]
              ELSE << >>
<1>1. <<"*">> # Star
  BY DEF Star
<1>2. ~(b > Len(chunk)) /\ Line(chunk, b) = Star => chunk[b] # AStar
  <2>1. SUFFICES ASSUME ~(b > Len(chunk)), Line(chunk, b) = Star PROVE chunk[b] # AStar
    OBVIOUS
  <2>2. b \in 1..Len(chunk)
    BY <2>1, SeqFacts
  <2>3. chunk[b] = "*"
    BY <2>1, <2>2, StarLine
  <2> QED BY <2>3 DEF AStar
<1> QED BY <1>1, <1>2 DEF Step

LEMMA StepType ==
    ASSUME NEW chunk \in Seq(Tokens), NEW b \in 1..(Len(chunk) + 1), NEW f,
           \A i \in (b + 1)..(Len(chunk) + 1) : f[i] \in Seq(Found)
    PROVE  /\ Step(chunk, f, b) \in Seq(Found)
           /\ \A g : (\A i \in (b + 1)..(Len(chunk) + 1) : f[i] = g[i])
                        => Step(chunk, g, b) = Step(chunk, f, b)
<1>1. << >> \in Seq(Found)
  BY EmptySeq
<1>2. <<NoWords>> \in Seq(Found)
  <2>1. NoWords \in Found
    <3>1. << >> \in Seq(Seq(Tokens))
      BY EmptySeq
    <3> QED BY <3>1 DEF NoWords, Request, Found
  <2> QED BY <2>1
<1>3. CASE b > Len(chunk)
  BY <1>1, <1>3, StepIs
<1>4. CASE ~(b > Len(chunk))
  <2>1. b \in 1..Len(chunk) /\ b <= Len(chunk)
    BY <1>4, SeqFacts
  <2>2. NextLine(chunk, b) \in (b + 1)..(Len(chunk) + 1)
    BY <2>1, NextLineIs
  <2>3. IsWhole(chunk, b) =>
           /\ Behind(chunk, b) \in (b + 1)..(Len(chunk) + 1)
           /\ <<RequestAt(chunk, b)>> \in Seq(Found)
    BY <2>1, WholeIs
  <2>4. Step(chunk, f, b) \in Seq(Found)
    <3>1. IsWhole(chunk, b) => <<RequestAt(chunk, b)>> \o f[Behind(chunk, b)] \in Seq(Found)
      BY <2>3, ConcatProperties
    <3> QED BY <1>1, <1>2, <1>4, <2>2, <3>1, StepIs
  <2>5. ASSUME NEW g, \A i \in (b + 1)..(Len(chunk) + 1) : f[i] = g[i]
        PROVE  Step(chunk, g, b) = Step(chunk, f, b)
    BY <2>2, <2>3, <2>5, StepIs, ZenonT(40)
  <2> QED BY <2>4, <2>5
<1> QED BY <1>3, <1>4

\* The requests that the reading finds from each place on.
LEMMA FromIs ==
    ASSUME NEW chunk \in Seq(Tokens)
    PROVE  \E f \in [1..(Len(chunk) + 1) -> Seq(Found)] :
              /\ \A b \in 1..(Len(chunk) + 1) : f[b] = Step(chunk, f, b)
              /\ Parsed(chunk) = f[LineStart(chunk, 1)]
<1> PICK L : L = Len(chunk)
  OBVIOUS
<1>0. L \in Nat
  BY SeqFacts
<1> DEFINE Fits(m, f) == \A b \in (L + 1 - m)..(L + 1) : f[b] = Step(chunk, f, b)
           T == {m \in Nat : m <= L =>
                    \E f \in [(L + 1 - m)..(L + 1) -> Seq(Found)] : Fits(m, f)}
<1>1. \A b \in 1..(L + 1) : \A f :
         (\A i \in (b + 1)..(L + 1) : f[i] \in Seq(Found))
            => /\ Step(chunk, f, b) \in Seq(Found)
               /\ \A g : (\A i \in (b + 1)..(L + 1) : f[i] = g[i])
                            => Step(chunk, g, b) = Step(chunk, f, b)
  BY StepType
<1>2. ASSUME NEW b \in 1..(L + 1), NEW f \in [(b + 1)..(L + 1) -> Seq(Found)],
             \A i \in (b + 1)..(L + 1) : f[i] = Step(chunk, f, i)
      PROVE  \E h \in [b..(L + 1) -> Seq(Found)] : \A i \in b..(L + 1) : h[i] = Step(chunk, h, i)
  <2> PICK x : x = Step(chunk, f, b)
    OBVIOUS
  <2> PICK h : h = [i \in b..(L + 1) |-> IF i = b THEN x ELSE f[i]]
    OBVIOUS
  <2>1. x \in Seq(Found)
    BY <1>1, <1>2
  <2>2. h[b] = x /\ \A i \in (b + 1)..(L + 1) : h[i] = f[i]
    BY <1>0
  <2>3. h \in [b..(L + 1) -> Seq(Found)]
    <3>1. \A i \in b..(L + 1) : i # b => i \in (b + 1)..(L + 1)
      BY <1>0
    <3> QED BY <2>1, <3>1
  <2>4. ASSUME NEW i \in b..(L + 1) PROVE h[i] = Step(chunk, h, i)
    <3>1. i \in 1..(L + 1) /\ \A j \in (i + 1)..(L + 1) : j \in (b + 1)..(L + 1)
      BY <1>0
    <3>2. \A j \in (i + 1)..(L + 1) : f[j] = h[j] /\ f[j] \in Seq(Found)
      BY <2>2, <3>1
    <3>3. Step(chunk, h, i) = Step(chunk, f, i)
      BY <1>1, <3>1, <3>2
    <3>4. CASE i = b
      BY <2>2, <3>3, <3>4
    <3>5. CASE i # b
      <4>1. i \in (b + 1)..(L + 1)
        BY <1>0, <3>5
      <4> QED BY <1>2, <2>2, <3>3, <4>1
    <3> QED BY <3>4, <3>5
  <2> QED BY <2>3, <2>4
<1>3. 0 \in T
  <2>1. SUFFICES \E f \in [(L + 1)..(L + 1) -> Seq(Found)] :
                    \A b \in (L + 1)..(L + 1) : f[b] = Step(chunk, f, b)
    <3>1. L + 1 - 0 = L + 1
      BY <1>0
    <3> QED BY <3>1
  <2>2. L + 1 \in 1..(L + 1) /\ (L + 1 + 1)..(L + 1) = {}
    BY <1>0
  <2> PICK f : f = [i \in (L + 1 + 1)..(L + 1) |-> << >>]
    OBVIOUS
  <2>3. /\ f \in [(L + 1 + 1)..(L + 1) -> Seq(Found)]
        /\ \A i \in (L + 1 + 1)..(L + 1) : f[i] = Step(chunk, f, i)
    BY <2>2
  <2> HIDE DEF T, Fits
  <2> QED BY <1>2, <2>2, <2>3
<1>4. ASSUME NEW m \in Nat, m \in T PROVE m + 1 \in T
  <2>1. SUFFICES ASSUME m + 1 <= L
                 PROVE  \E f \in [(L + 1 - (m + 1))..(L + 1) -> Seq(Found)] : Fits(m + 1, f)
    <3> HIDE DEF Fits
    <3> QED OBVIOUS
  <2>2. PICK f \in [(L + 1 - m)..(L + 1) -> Seq(Found)] : Fits(m, f)
    <3> HIDE DEF Fits
    <3> QED BY <1>0, <1>4, <2>1
  <2> PICK b : b = L + 1 - (m + 1)
    OBVIOUS
  <2>3. b \in 1..(L + 1) /\ b + 1 = L + 1 - m
    BY <1>0, <2>1
  <2>4. f \in [(b + 1)..(L + 1) -> Seq(Found)] /\ \A i \in (b + 1)..(L + 1) : f[i] = Step(chunk, f, i)
    BY <2>2, <2>3
  <2>5. \E h \in [b..(L + 1) -> Seq(Found)] : \A i \in b..(L + 1) : h[i] = Step(chunk, h, i)
    <3> HIDE DEF T, Fits
    <3> QED BY <1>2, <2>3, <2>4, ZenonT(40)
  <2> QED BY <2>5
<1>5. L \in T
  <2> HIDE DEF T
  <2> QED BY <1>0, <1>3, <1>4, SetInduction
<1>6. PICK f0 \in [1..(L + 1) -> Seq(Found)] : \A b \in 1..(L + 1) : f0[b] = Step(chunk, f0, b)
  <2>1. \E f \in [(L + 1 - L)..(L + 1) -> Seq(Found)] : Fits(L, f)
    <3> HIDE DEF Fits
    <3> QED BY <1>0, <1>5
  <2>2. L + 1 - L = 1
    BY <1>0
  <2> QED BY <2>1, <2>2
<1> DEFINE Rec(f) == f = [b \in 1..(Len(chunk) + 1) |-> Step(chunk, f, b)]
<1>7. Rec(f0)
  BY <1>6
<1>8. Rec(CHOOSE f : Rec(f))
  <2> HIDE DEF Rec
  <2> QED BY <1>7
<1>9. Parsed(chunk) = (CHOOSE f : Rec(f))[LineStart(chunk, 1)]
  BY DEF Parsed, Step
<1> HIDE DEF Rec
<1> PICK f : f = CHOOSE g : Rec(g)
  OBVIOUS
<1>10. f = [b \in 1..(L + 1) |-> Step(chunk, f, b)] /\ Parsed(chunk) = f[LineStart(chunk, 1)]
  BY <1>8, <1>9 DEF Rec
<1>11. \A b \in 1..(L + 1) : f[b] = Step(chunk, f, b)
  BY <1>10
<1> DEFINE U == {m \in Nat : m <= L + 1 => \A b \in (L + 2 - m)..(L + 1) : f[b] \in Seq(Found)}
<1>12. 0 \in U
  <2>1. (L + 2 - 0)..(L + 1) = {}
    BY <1>0
  <2> QED BY <2>1
<1>13. ASSUME NEW m \in Nat, m \in U PROVE m + 1 \in U
  <2>1. SUFFICES ASSUME m + 1 <= L + 1, NEW b \in (L + 2 - (m + 1))..(L + 1)
                 PROVE  f[b] \in Seq(Found)
    OBVIOUS
  <2>2. \A i \in (L + 2 - m)..(L + 1) : f[i] \in Seq(Found)
    BY <1>0, <1>13, <2>1
  <2>3. b \in 1..(L + 1) /\ \A i \in (b + 1)..(L + 1) : i \in (L + 2 - m)..(L + 1)
    BY <1>0, <2>1
  <2>4. Step(chunk, f, b) \in Seq(Found)
    BY <1>1, <2>2, <2>3
  <2> QED BY <1>11, <2>3, <2>4
<1>14. L + 1 \in U
  <2> HIDE DEF U
  <2> QED BY <1>0, <1>12, <1>13, SetInduction
<1>15. \A b \in 1..(L + 1) : f[b] \in Seq(Found)
  <2>1. L + 2 - (L + 1) = 1
    BY <1>0
  <2> QED BY <1>0, <1>14, <2>1
<1>16. f \in [1..(L + 1) -> Seq(Found)]
  BY <1>10, <1>15
<1> QED BY <1>10, <1>11, <1>16

----------------------------------------------------------------------------
(* The lines of one request *)

\* The tokens of x stand at a, as far as the read goes.
Spells(chunk, a, x) ==
    \A i \in 1..Len(x) : a + i - 1 <= Len(chunk) => chunk[a + i - 1] = x[i]

\* A mark that is no line end is the last of its line.
LEMMA MarkEnds ==
    ASSUME NEW chunk \in Seq(Tokens), NEW b \in 1..Len(chunk), chunk[b] \in Ends \ {"CR", "LF"}
    PROVE  LineEnd(chunk, b) = b + 1
<1>1. Len(chunk) \in Nat /\ b \in 1..(Len(chunk) + 1) /\ b \in b..Len(chunk)
  BY SeqFacts
<1>2. PICK at \in b..Len(chunk) :
         /\ \A j \in b..Len(chunk) : j < at => chunk[j] \notin Ends
         /\ LineEnd(chunk, b) = IF chunk[at] \in {"CR", "LF"} THEN at ELSE at + 1
  BY <1>1, LineEndIs
<1>3. at = b
  BY <1>1, <1>2
<1> QED BY <1>2, <1>3

\* A line starts where there is a token that is no line end.
LEMMA StartsHere ==
    ASSUME NEW chunk \in Seq(Tokens), NEW i \in 1..(Len(chunk) + 1),
           i <= Len(chunk) => chunk[i] \notin {"CR", "LF"}
    PROVE  LineStart(chunk, i) = i
<1>1. Len(chunk) \in Nat
  BY SeqFacts
<1> PICK n : n = LineStart(chunk, i)
  OBVIOUS
<1>2. /\ n \in i..(Len(chunk) + 1)
      /\ \A j \in i..Len(chunk) : j < n => chunk[j] \in {"CR", "LF"}
  BY LineStartIs
<1>3. n = i
  BY <1>1, <1>2
<1> QED BY <1>3

\* The line of a word with letters is the word, or as much of it as was read; ...
LEMMA LettersLine ==
    ASSUME NEW chunk \in Seq(Tokens), NEW a \in 1..Len(chunk), NEW x, Clean(x), x # << >>,
           Spells(chunk, a, WordBytes(x))
    PROVE  /\ chunk[a] = "$"
           /\ LineEnd(chunk, a) = a + 1
           /\ NextLine(chunk, a) = a + 1
           /\ a + 1 <= Len(chunk) =>
                 /\ chunk[a + 1] = x[1]
                 /\ LineEnd(chunk, a + 1) = IF a + 1 + Len(x) <= Len(chunk) THEN a + 1 + Len(x)
                                            ELSE Len(chunk) + 1
<1> DEFINE w == WordBytes(x)
           n == Len(chunk)
           l == Len(x)
<1>1. n \in Nat /\ a \in 1..n /\ l \in Nat /\ l > 0
  BY SeqFacts DEF Clean
<1>2. /\ Len(w) = l + 3 /\ w[1] = "$" /\ w[l + 2] = "CR"
      /\ \A j \in 1..l : w[j + 1] = x[j]
  <2>1. w[1] = "$"
    BY DEF WordBytes, Clean
  <2> QED BY <2>1, WordBytesIs
<1>3. \A i \in 1..(l + 3) : a + i - 1 <= n => chunk[a + i - 1] = w[i]
  BY <1>2 DEF Spells
<1>4. \A j \in 1..l : x[j] \notin Marks
  BY DEF Clean
<1> HIDE DEF w, n, l
<1>5. chunk[a] = "$"
  <2>1. 1 \in 1..(l + 3) /\ a + 1 - 1 = a /\ a <= n
    BY <1>1
  <2> QED BY <1>2, <1>3, <2>1
<1>6. \A j \in 1..l : a + j <= n => chunk[a + j] = x[j]
  <2>1. ASSUME NEW j \in 1..l, a + j <= n PROVE chunk[a + j] = x[j]
    <3>1. j + 1 \in 1..(l + 3) /\ a + (j + 1) - 1 = a + j
      BY <1>1
    <3> QED BY <1>2, <1>3, <2>1, <3>1
  <2> QED BY <2>1
<1>7. LineEnd(chunk, a) = a + 1
  <2>1. chunk[a] \in Ends \ {"CR", "LF"}
    BY <1>5 DEF Ends, Marks
  <2> QED BY <2>1, MarkEnds
<1>8. a + 1 <= n => chunk[a + 1] = x[1] /\ x[1] \notin Marks
  <2>1. 1 \in 1..l
    BY <1>1
  <2> QED BY <1>4, <1>6, <2>1
<1>9. NextLine(chunk, a) = a + 1
  <2>1. a + 1 \in 1..(Len(chunk) + 1)
    BY <1>1 DEF n
  <2>2. a + 1 <= Len(chunk) => chunk[a + 1] \notin {"CR", "LF"}
    BY <1>8 DEF Marks, n
  <2> QED BY <1>7, <2>1, <2>2, StartsHere DEF NextLine
<1>10. ASSUME a + 1 <= n
       PROVE  LineEnd(chunk, a + 1) = IF a + 1 + l <= n THEN a + 1 + l ELSE n + 1
  <2>1. a + 1 \in 1..(n + 1)
    BY <1>1
  <2>2. \/ LineEnd(chunk, a + 1) = n + 1 /\ \A j \in (a + 1)..n : chunk[j] \notin Ends
        \/ \E at \in (a + 1)..n :
              /\ chunk[at] \in Ends
              /\ \A j \in (a + 1)..n : j < at => chunk[j] \notin Ends
              /\ LineEnd(chunk, a + 1) = IF chunk[at] \in {"CR", "LF"} THEN at ELSE at + 1
    BY <2>1, LineEndIs DEF n
  <2>3. \A j \in (a + 1)..n : j < a + 1 + l => chunk[j] \notin Ends
    <3>1. ASSUME NEW j \in (a + 1)..n, j < a + 1 + l PROVE chunk[j] \notin Ends
      <4>1. j - a \in 1..l /\ a + (j - a) = j /\ j <= n
        BY <1>1, <3>1
      <4>2. chunk[j] = x[j - a]
        BY <1>6, <4>1
      <4> QED BY <1>4, <4>1, <4>2 DEF Ends
    <3> QED BY <3>1
  <2>4. CASE a + 1 + l <= n
    <3>1. chunk[a + 1 + l] = "CR"
      <4>1. l + 2 \in 1..(l + 3) /\ a + (l + 2) - 1 = a + 1 + l
        BY <1>1
      <4> QED BY <1>2, <1>3, <2>4, <4>1
    <3>2. a + 1 + l \in (a + 1)..n /\ chunk[a + 1 + l] \in Ends
      BY <1>1, <2>4, <3>1 DEF Ends, Marks
    <3>3. PICK at \in (a + 1)..n :
             /\ chunk[at] \in Ends
             /\ \A j \in (a + 1)..n : j < at => chunk[j] \notin Ends
             /\ LineEnd(chunk, a + 1) = IF chunk[at] \in {"CR", "LF"} THEN at ELSE at + 1
      BY <2>2, <3>2
    <3>4. at = a + 1 + l
      BY <1>1, <2>3, <3>2, <3>3
    <3> QED BY <2>4, <3>1, <3>3, <3>4
  <2>5. CASE ~(a + 1 + l <= n)
    <3>1. \A j \in (a + 1)..n : chunk[j] \notin Ends
      BY <1>1, <2>3, <2>5
    <3> QED BY <2>2, <2>5, <3>1
  <2> QED BY <2>4, <2>5
<1> QED BY <1>5, <1>7, <1>8, <1>9, <1>10 DEF n, l

\* ... the next one starts behind its line end.
LEMMA NextWord ==
    ASSUME NEW chunk \in Seq(Tokens), NEW a \in 1..Len(chunk), NEW x, Clean(x), x # << >>,
           Spells(chunk, a, WordBytes(x)), a + 1 + Len(x) <= Len(chunk),
           a + 3 + Len(x) <= Len(chunk) => chunk[a + 3 + Len(x)] \notin {"CR", "LF"}
    PROVE  /\ NextLine(chunk, a + 1) <= Len(chunk) => NextLine(chunk, a + 1) = a + 3 + Len(x)
           /\ a + 2 + Len(x) <= Len(chunk) => NextLine(chunk, a + 1) = a + 3 + Len(x)
<1> DEFINE w == WordBytes(x)
           n == Len(chunk)
           l == Len(x)
<1>1. n \in Nat /\ a \in 1..n /\ l \in Nat /\ l > 0
  BY SeqFacts DEF Clean
<1>2. Len(w) = l + 3 /\ w[l + 2] = "CR" /\ w[l + 3] = "LF"
  BY WordBytesIs
<1>3. \A i \in 1..(l + 3) : a + i - 1 <= n => chunk[a + i - 1] = w[i]
  BY <1>2 DEF Spells
<1>4. LineEnd(chunk, a + 1) = a + 1 + l
  BY <1>1, LettersLine
<1> PICK m : m = NextLine(chunk, a + 1)
  OBVIOUS
<1>5. /\ m \in (a + 1 + l)..(n + 1)
      /\ m <= n => chunk[m] \notin {"CR", "LF"}
      /\ \A j \in 1..n : a + 1 + l <= j /\ j < m => chunk[j] \in {"CR", "LF"}
  <2>1. a + 1 \in 1..(Len(chunk) + 1)
    BY <1>1
  <2> QED BY <1>4, <2>1, NextLineIs
<1>6. a + 3 + l <= n => chunk[a + 3 + l] \notin {"CR", "LF"}
  OBVIOUS
<1>7. a + 1 + l <= n
  OBVIOUS
<1> HIDE DEF w, n, l
<1>8. chunk[a + 1 + l] = "CR" /\ (a + 2 + l <= n => chunk[a + 2 + l] = "LF")
  <2>1. l + 2 \in 1..(l + 3) /\ a + (l + 2) - 1 = a + 1 + l
    BY <1>1
  <2>2. l + 3 \in 1..(l + 3) /\ a + (l + 3) - 1 = a + 2 + l
    BY <1>1
  <2> QED BY <1>2, <1>3, <1>7, <2>1, <2>2
<1>9. m # a + 1 + l /\ m <= n + 1 /\ (m = a + 2 + l => m = n + 1)
  BY <1>1, <1>5, <1>7, <1>8
<1>10. m <= a + 3 + l
  <2>1. SUFFICES ASSUME a + 3 + l < m PROVE FALSE
    BY <1>1, <1>5
  <2>2. a + 3 + l \in 1..n /\ a + 1 + l <= a + 3 + l
    BY <1>1, <1>5, <2>1
  <2> QED BY <1>5, <1>6, <2>1, <2>2
<1>11. m <= n => m = a + 3 + l
  BY <1>1, <1>5, <1>9, <1>10, SMTT(30)
<1>12. a + 2 + l <= n => m = a + 3 + l
  BY <1>1, <1>5, <1>9, <1>10, SMTT(30)
<1> QED BY <1>11, <1>12 DEF n, l

\* The line behind the length of a word without letters is not its own.
LEMMA NoLetters ==
    ASSUME NEW chunk \in Seq(Tokens), NEW a \in 1..Len(chunk),
           Spells(chunk, a, WordBytes(<< >>))
    PROVE  /\ chunk[a] = "$0"
           /\ NextLine(chunk, a) <= Len(chunk) => NextLine(chunk, a) >= a + 3
           /\ a + 3 <= Len(chunk) /\ chunk[a + 3] \notin {"CR", "LF"} => NextLine(chunk, a) = a + 3
<1> DEFINE w == WordBytes(<< >>)
           n == Len(chunk)
<1>1. n \in Nat /\ a \in 1..n
  BY SeqFacts
<1>2. Len(w) = 3 /\ w[1] = "$0" /\ w[2] = "CR" /\ w[3] = "LF"
  BY DEF WordBytes
<1>3. \A i \in 1..3 : a + i - 1 <= n => chunk[a + i - 1] = w[i]
  BY <1>2 DEF Spells
<1> HIDE DEF w
<1>4. chunk[a] = "$0" /\ (a + 1 <= n => chunk[a + 1] = "CR") /\ (a + 2 <= n => chunk[a + 2] = "LF")
  BY <1>1, <1>2, <1>3
<1>5. chunk[a] \in Ends \ {"CR", "LF"}
  BY <1>4 DEF Ends, Marks
<1>6. LineEnd(chunk, a) = a + 1
  BY <1>5, MarkEnds
<1> PICK m : m = NextLine(chunk, a)
  OBVIOUS
<1>7. /\ m \in (a + 1)..(n + 1)
      /\ m <= n => chunk[m] \notin {"CR", "LF"}
      /\ \A j \in 1..n : a + 1 <= j /\ j < m => chunk[j] \in {"CR", "LF"}
  <2>1. a \in 1..(Len(chunk) + 1)
    BY <1>1
  <2> QED BY <1>6, <2>1, NextLineIs
<1> HIDE DEF n
<1>8. m <= n => m >= a + 3
  BY <1>1, <1>4, <1>7
<1>9. a + 3 <= n /\ chunk[a + 3] \notin {"CR", "LF"} => m = a + 3
  <2>1. SUFFICES ASSUME a + 3 <= n, chunk[a + 3] \notin {"CR", "LF"} PROVE m = a + 3
    OBVIOUS
  <2>2. ~(a + 3 < m)
    BY <1>1, <1>7, <2>1
  <2> QED BY <1>1, <1>7, <1>8, <2>1, <2>2
<1> QED BY <1>4, <1>8, <1>9 DEF n

----------------------------------------------------------------------------
(* A request and what is taken for it *)

\* What the line of the word x gives.
LEMMA WordRead ==
    ASSUME NEW chunk \in Seq(Tokens), NEW a \in 1..Len(chunk), NEW x, Clean(x),
           Spells(chunk, a, WordBytes(x)), NextLine(chunk, a) <= Len(chunk),
           NEW y, y = Word(chunk, a, Line(chunk, NextLine(chunk, a)))
    PROVE  /\ Clean(y)
           /\ IsPrefix(y, x)
           /\ x = << >> \/ a + 1 + Len(x) <= Len(chunk) => y = x
<1>1. Len(chunk) \in Nat /\ Len(x) \in Nat /\ x \in Seq(Tokens) /\ \A i \in 1..Len(x) : x[i] \notin Marks
  BY SeqFacts DEF Clean
<1>2. CASE x = << >>
  <2>1. chunk[a] = "$0"
    BY <1>2, NoLetters
  <2>2. y = << >>
    BY <2>1 DEF Word, ADollar
  <2>3. IsPrefix(<< >>, << >>) /\ Clean(<< >>)
    BY EmptySeq DEF IsPrefix, Clean
  <2> QED BY <1>2, <2>2, <2>3
<1>3. CASE x # << >>
  <2>1. chunk[a] = "$" /\ NextLine(chunk, a) = a + 1 /\ a + 1 <= Len(chunk)
    BY <1>3, LettersLine
  <2>2. y = Line(chunk, a + 1)
    BY <2>1 DEF Word
  <2> PICK l : l = Len(y)
    OBVIOUS
  <2>3. /\ y \in Seq(Tokens)
        /\ l = (IF a + 1 + Len(x) <= Len(chunk) THEN a + 1 + Len(x) ELSE Len(chunk) + 1) - (a + 1)
        /\ \A i \in 1..l : y[i] = chunk[a + 1 + i - 1]
    <3>1. a + 1 \in 1..(Len(chunk) + 1)
      BY <1>1, <2>1
    <3>2. LineEnd(chunk, a + 1) = IF a + 1 + Len(x) <= Len(chunk) THEN a + 1 + Len(x)
                                  ELSE Len(chunk) + 1
      BY <1>3, <2>1, LettersLine
    <3> PICK e : e = LineEnd(chunk, a + 1)
      OBVIOUS
    <3>3. /\ y \in Seq(Tokens)
          /\ Len(y) = e - (a + 1)
          /\ \A i \in 1..(e - (a + 1)) : y[i] = chunk[a + 1 + i - 1]
      BY <2>2, <3>1, LineIs
    <3>4. l = e - (a + 1)
      BY <3>3
    <3> QED BY <3>2, <3>3, <3>4
  <2>4. l \in 0..Len(x) /\ a + l <= Len(chunk) /\ (a + 1 + Len(x) <= Len(chunk) => l = Len(x))
    BY <1>1, <2>1, <2>3
  <2>5. ASSUME NEW i \in 1..l PROVE y[i] = x[i] /\ i \in 1..Len(x)
    <3>1. i \in 1..Len(x) /\ a + 1 + i - 1 = a + i /\ a + i <= Len(chunk)
      BY <1>1, <2>4
    <3>2. i + 1 \in 1..(Len(x) + 3) /\ a + (i + 1) - 1 = a + i
      BY <1>1, <3>1
    <3>3. chunk[a + i] = WordBytes(x)[i + 1] /\ WordBytes(x)[i + 1] = x[i]
      <4>1. Len(WordBytes(x)) = Len(x) + 3 /\ WordBytes(x)[i + 1] = x[i]
        BY <3>1, WordBytesIs
      <4> QED BY <3>1, <3>2, <4>1 DEF Spells
    <3> QED BY <2>3, <3>1, <3>3
  <2>6. Clean(y)
    BY <1>1, <2>3, <2>5 DEF Clean
  <2>7. /\ SubSeq(x, 1, l) \in Seq(Tokens) /\ Len(SubSeq(x, 1, l)) = l
        /\ \A i \in 1..l : SubSeq(x, 1, l)[i] = x[i]
    <3>1. \A i \in 1..l : x[i] \in Tokens
      BY <1>1, <2>5
    <3>2. l \in Int /\ 1 \in Int /\ l - 1 + 1 = l /\ (1 <= l \/ l = 0)
      BY <1>1, <2>4
    <3>3. /\ SubSeq(x, 1, l) \in Seq(Tokens)
          /\ Len(SubSeq(x, 1, l)) = IF 1 <= l THEN l - 1 + 1 ELSE 0
          /\ \A i \in 1..(l - 1 + 1) : SubSeq(x, 1, l)[i] = x[1 + i - 1]
      BY <3>1, <3>2, SubSeqProperties
    <3>4. \A i \in 1..l : 1 + i - 1 = i
      OBVIOUS
    <3> QED BY <3>2, <3>3, <3>4
  <2>8. SubSeq(x, 1, l) = y
    <3>1. Len(SubSeq(x, 1, l)) = Len(y) /\ \A i \in 1..Len(y) : SubSeq(x, 1, l)[i] = y[i]
      BY <2>5, <2>7
    <3> QED BY <2>3, <2>7, <3>1, SeqEqual
  <2>9. SubSeq(y, 1, l) = y
    BY <2>3, SubSeqFull
  <2>10. IsPrefix(y, x)
    BY <2>4, <2>8, <2>9 DEF IsPrefix
  <2>11. a + 1 + Len(x) <= Len(chunk) => y = x
    <3>1. SubSeq(x, 1, Len(x)) = x
      BY <1>1, SubSeqFull
    <3> QED BY <2>4, <2>8, <3>1
  <2> QED BY <1>3, <2>6, <2>10, <2>11
<1> QED BY <1>2, <1>3

\* The request r stands at b.
IsAt(chunk, b, r) ==
    /\ b \in 1..Len(chunk)
    /\ r \in Requests
    /\ Spells(chunk, b, Wire(r))
    /\ b + 1 <= Len(chunk)
    /\ b + Len(Wire(r)) <= Len(chunk) => chunk[b + Len(Wire(r))] = "*"

\* Where its lines are, up to the length of its first word.
LEMMA PlacesAre ==
    ASSUME NEW chunk \in Seq(Tokens), NEW b, NEW r, IsAt(chunk, b, r)
    PROVE  /\ Line(chunk, b) = Star
           /\ NameAt(chunk, b) = b + 2
           /\ b + 2 <= Len(chunk) => /\ Op(chunk, b) = r.op
                                     /\ SizeAt(chunk, b, 1) = b + 3
           /\ Clean(r.args[1])
           /\ Spells(chunk, b + 3, WordBytes(r.args[1]))
           /\ r.op # "SET" => Len(Wire(r)) = Len(r.args[1]) + 6
           /\ r.op = "SET" =>
                 /\ Clean(r.args[2])
                 /\ Spells(chunk, b + 6 + Len(r.args[1]), WordBytes(r.args[2]))
                 /\ Len(Wire(r)) = Len(r.args[1]) + 6 + Len(r.args[2]) + 3
<1> PICK k, v, w : k = r.args[1] /\ v = r.args[2] /\ w = Wire(r)
  OBVIOUS
<1>n. PICK n \in Nat : n = Len(chunk)
  BY SeqFacts
<1>1. /\ n \in Nat /\ b \in 1..n /\ b + 1 <= n
      /\ r \in Requests
  BY <1>n DEF IsAt
<1>2. /\ Clean(k) /\ (r.op = "SET" => Clean(v)) /\ r.op \in Ops
  BY <1>1, RequestIs DEF Arity, Ops
<1>3. /\ w[1] = "*" /\ w[2] = "n" /\ w[3] = r.op
      /\ First(w, k)
      /\ r.op = "SET" => Second(w, k, v)
      /\ r.op # "SET" => Len(w) = Len(k) + 6
  BY <1>1, WireAt
<1>4. Len(k) \in Nat /\ Len(w) \in Nat /\ Len(w) >= Len(k) + 6
  BY <1>3 DEF First
<1>5. \A i \in 1..Len(w) : b + i - 1 <= n => chunk[b + i - 1] = w[i]
  BY <1>n DEF IsAt, Spells
<1>6. chunk[b] = "*" /\ chunk[b + 1] = "n" /\ (b + 2 <= n => chunk[b + 2] = r.op)
  <2>1. 1 \in 1..Len(w) /\ 2 \in 1..Len(w) /\ 3 \in 1..Len(w)
    BY <1>4
  <2>2. b + 1 - 1 = b /\ b + 2 - 1 = b + 1 /\ b + 3 - 1 = b + 2
    BY <1>1
  <2> QED BY <1>1, <1>3, <1>5, <2>1, <2>2
<1>7. Len(WordBytes(k)) = Len(k) + 3 /\ WordBytes(k)[1] \in {"$", "$0"}
  BY <1>2, WordBytesIs
<1>8. Spells(chunk, b + 3, WordBytes(k))
  <2>1. ASSUME NEW i \in 1..(Len(k) + 3), b + 3 + i - 1 <= n
        PROVE  chunk[b + 3 + i - 1] = WordBytes(k)[i]
    <3>1. 3 + i \in 1..Len(w) /\ b + (3 + i) - 1 = b + 3 + i - 1
      BY <1>1, <1>4
    <3>2. w[3 + i] = WordBytes(k)[i]
      BY <1>3 DEF First
    <3> QED BY <1>5, <2>1, <3>1, <3>2
  <2> QED BY <1>7, <1>n, <2>1 DEF Spells
<1>9. b + 3 <= n => chunk[b + 3] \in {"$", "$0"}
  <2>1. 1 \in 1..(Len(k) + 3) /\ b + 3 + 1 - 1 = b + 3
    BY <1>1, <1>4
  <2> QED BY <1>7, <1>8, <1>n, <2>1 DEF Spells
<1>10. ASSUME r.op = "SET"
       PROVE  /\ Spells(chunk, b + 6 + Len(k), WordBytes(v))
              /\ Len(w) = Len(k) + 6 + Len(v) + 3
  <2>1. /\ Len(v) \in Nat /\ Len(w) = Len(k) + 6 + Len(v) + 3
        /\ \A i \in 1..(Len(v) + 3) : w[Len(k) + 6 + i] = WordBytes(v)[i]
    BY <1>3, <1>10 DEF Second
  <2>2. Len(WordBytes(v)) = Len(v) + 3
    BY <1>2, <1>10, WordBytesIs
  <2>3. ASSUME NEW i \in 1..(Len(v) + 3), b + 6 + Len(k) + i - 1 <= n
        PROVE  chunk[b + 6 + Len(k) + i - 1] = WordBytes(v)[i]
    <3>1. PICK l \in Nat, m \in Nat, a \in Nat, h \in Nat :
             l = Len(k) /\ m = Len(v) /\ a = b /\ h = i
      BY <1>1, <1>4, <2>1, SMTT(30)
    <3>2. Len(w) = l + 6 + m + 3 /\ h \in 1..(m + 3)
      BY <2>1, <3>1
    <3>3. l + 6 + h \in 1..(l + 6 + m + 3) /\ a + (l + 6 + h) - 1 = a + 6 + l + h - 1
      BY <3>2
    <3>4. a + 6 + l + h - 1 <= n
      BY <2>3, <3>1
    <3>5. chunk[a + (l + 6 + h) - 1] = w[l + 6 + h]
      BY <1>5, <3>1, <3>2, <3>3, <3>4
    <3>6. w[l + 6 + h] = WordBytes(v)[i]
      BY <2>1, <3>1
    <3> QED BY <3>1, <3>3, <3>5, <3>6
  <2> QED BY <1>n, <2>1, <2>2, <2>3 DEF Spells
<1>11. LineEnd(chunk, b) = b + 2
  <2>1. /\ b \in 1..(Len(chunk) + 1) /\ b + 1 \in b..Len(chunk)
        /\ chunk[b] \notin Ends /\ chunk[b + 1] \in Ends \ {"CR", "LF"}
    BY <1>1, <1>6, <1>n DEF Ends, Marks
  <2>2. PICK at \in b..Len(chunk) :
           /\ chunk[at] \in Ends
           /\ \A j \in b..Len(chunk) : j < at => chunk[j] \notin Ends
           /\ LineEnd(chunk, b) = IF chunk[at] \in {"CR", "LF"} THEN at ELSE at + 1
    BY <2>1, LineEndIs
  <2>3. at = b + 1
    BY <1>1, <1>n, <2>1, <2>2
  <2> QED BY <1>1, <2>1, <2>2, <2>3
<1>12. Line(chunk, b) = Star
  <2> PICK y : y = Line(chunk, b)
    OBVIOUS
  <2>1. /\ y \in Seq(Tokens) /\ Len(y) = (b + 2) - b
        /\ \A i \in 1..((b + 2) - b) : y[i] = chunk[b + i - 1]
    <3>1. b \in 1..(Len(chunk) + 1)
      BY <1>1, <1>n
    <3> QED BY <1>11, <3>1, LineIs
  <2>2. (b + 2) - b = 2 /\ b + 1 - 1 = b /\ b + 2 - 1 = b + 1
    BY <1>1
  <2>3. Len(y) = 2 /\ y[1] = "*" /\ y[2] = "n"
    BY <1>6, <2>1, <2>2
  <2>4. Star \in Seq(Tokens) /\ Len(Star) = 2 /\ Star[1] = "*" /\ Star[2] = "n"
    <3>1. "*" \in Tokens /\ "n" \in Tokens
      BY DEF Tokens, Marks
    <3>2. \A p, q \in Tokens : <<p, q>> \in Seq(Tokens)
      OBVIOUS
    <3> QED BY <3>1, <3>2 DEF Star
  <2>5. y = Star
    <3>1. \A i \in 1..Len(y) : y[i] = Star[i]
      <4>1. \A i \in 1..2 : i = 1 \/ i = 2
        OBVIOUS
      <4> QED BY <2>3, <2>4, <4>1
    <3>2. Len(y) = Len(Star)
      BY <2>3, <2>4
    <3> QED BY <2>1, <2>4, <3>1, <3>2, SeqEqual
  <2> QED BY <2>5
<1>13. NameAt(chunk, b) = b + 2
  <2>1. b + 2 \in 1..(Len(chunk) + 1)
    BY <1>1, <1>n
  <2>2. b + 2 <= Len(chunk) => chunk[b + 2] \notin {"CR", "LF"}
    BY <1>2, <1>6, <1>n DEF Ops
  <2> QED BY <1>11, <2>1, <2>2, StartsHere DEF NameAt, NextLine
<1>14. ASSUME b + 2 <= n
       PROVE  Op(chunk, b) = r.op /\ SizeAt(chunk, b, 1) = b + 3
  <2>1. chunk[b + 2] = r.op
    BY <1>6, <1>14
  <2>2. b + 2 \in 1..Len(chunk) /\ chunk[b + 2] \in Ends \ {"CR", "LF"}
    BY <1>1, <1>2, <1>14, <1>n, <2>1 DEF Ops, Ends, Marks
  <2>3. LineEnd(chunk, b + 2) = b + 3
    <3>1. LineEnd(chunk, b + 2) = b + 2 + 1
      BY <2>2, MarkEnds
    <3> QED BY <1>1, <3>1
  <2>4. b + 3 \in 1..(Len(chunk) + 1)
    BY <1>1, <1>14, <1>n
  <2>5. b + 3 <= Len(chunk) => chunk[b + 3] \notin {"CR", "LF"}
    BY <1>9, <1>n
  <2>6. NextLine(chunk, b + 2) = b + 3
    BY <2>3, <2>4, <2>5, StartsHere DEF NextLine
  <2> QED BY <1>13, <2>1, <2>6 DEF Op, SizeAt
<1> QED BY <1>2, <1>3, <1>8, <1>10, <1>12, <1>13, <1>14, <1>n

\* d is what the server may take r for: the last word may have lost its end.
Near(r, d) ==
    /\ d.op = r.op
    /\ Len(d.args) = Len(r.args)
    /\ DOMAIN r.args = 1..Len(r.args)
    /\ \A i \in 1..Len(r.args) :
          /\ Clean(d.args[i])
          /\ d.args[i] = r.args[i] \/ (i = Len(r.args) /\ IsPrefix(d.args[i], r.args[i]))

\* What is taken for a request of one word, and of two.
LEMMA TakenFor ==
    ASSUME NEW chunk \in Seq(Tokens), NEW b \in 1..Len(chunk), NEW r \in Requests, IsWhole(chunk, b),
           Op(chunk, b) = r.op, NEW q, q = RequestAt(chunk, b)
    PROVE  /\ q.op = r.op
           /\ Len(q.args) = Arity(r.op)
           /\ q.args \in Seq(Seq(Tokens))
           /\ \A j \in 1..Arity(r.op) :
                 q.args[j] = Word(chunk, SizeAt(chunk, b, j), Line(chunk, WordAt(chunk, b, j)))
<1>1. q = [op |-> r.op, args |-> [j \in 1..Arity(r.op) |->
              Word(chunk, SizeAt(chunk, b, j), Line(chunk, WordAt(chunk, b, j)))]]
  BY DEF RequestAt, Request
<1>2. q \in Found
  BY WholeIs
<1>3. Arity(r.op) \in Nat
  BY DEF Arity
<1> QED BY <1>1, <1>2, <1>3 DEF Found

\* No letter looks like the beginning of a request or of a length.
NoMarks(st) == \A i \in 1..Len(st) : st[i] \notin {AStar, ADollar}

\* Without such letters, a request of which all is there is that request, but for the
\* end of its last word.
LEMMA RequestRead ==
    ASSUME NEW chunk \in Seq(Tokens), NoMarks(chunk), NEW b, NEW r, IsAt(chunk, b, r),
           IsWhole(chunk, b)
    PROVE  Near(r, RequestAt(chunk, b))
<1> PICK k, v, w, q : k = r.args[1] /\ v = r.args[2] /\ w = Wire(r) /\ q = RequestAt(chunk, b)
  OBVIOUS
<1>1. r \in Requests /\ b \in 1..Len(chunk) /\ Len(w) \in Nat /\ Len(chunk) \in Nat
  <2>1. r \in Requests /\ b \in 1..Len(chunk)
    BY DEF IsAt
  <2> QED BY <2>1, WireStars, SeqFacts
<1>2. /\ Len(r.args) = Arity(r.op)
      /\ DOMAIN r.args = 1..Arity(r.op)
      /\ Arity(r.op) = IF r.op = "SET" THEN 2 ELSE 1
  BY <1>1, RequestIs DEF Arity
<1>3. Clean(k) /\ Len(k) \in Nat
  <2>1. Clean(k)
    BY PlacesAre
  <2> QED BY <2>1, SeqFacts DEF Clean
<1>4. r.op = "SET" => Clean(v) /\ Len(v) \in Nat
  <2>1. SUFFICES ASSUME r.op = "SET" PROVE Clean(v) /\ Len(v) \in Nat
    OBVIOUS
  <2>2. Clean(v)
    BY <2>1, PlacesAre
  <2> QED BY <2>2, SeqFacts DEF Clean
<1>n. PICK n \in Nat : n = Len(chunk)
  BY <1>1
<1>k. PICK l \in Nat : l = Len(k)
  BY <1>3
<1>v. PICK m \in Nat : r.op = "SET" => m = Len(v)
  BY <1>4
<1>w. PICK lw \in Nat : lw = Len(w)
  BY <1>1
<1>b. b \in Nat \ {0} /\ b <= n
  BY <1>1, <1>n
<1>x. PICK x \in Nat : x = b + 3
  BY <1>1
<1>y. PICK y \in Nat : y = b + 6 + l
  BY <1>1
<1>5. /\ b \in 1..n /\ (b + lw <= n => chunk[b + lw] = "*")
      /\ (r.op = "SET" => lw = l + 6 + m + 3)
  <2>1. b \in 1..n /\ (b + lw <= n => chunk[b + lw] = "*")
    BY <1>1, <1>n, <1>w DEF IsAt
  <2>2. r.op = "SET" => Len(w) = Len(k) + 6 + Len(v) + 3
    BY PlacesAre, ZenonT(40)
  <2> QED BY <1>k, <1>v, <1>w, <2>1, <2>2
<1>6. /\ Op(chunk, b) = r.op
      /\ SizeAt(chunk, b, 1) = x
      /\ Spells(chunk, x, WordBytes(k))
      /\ r.op = "SET" => Spells(chunk, y, WordBytes(v))
  <2>1. NameAt(chunk, b) <= Len(chunk) /\ NameAt(chunk, b) = b + 2
    BY PlacesAre DEF IsWhole
  <2>2. b + 6 + Len(k) = y
    BY <1>k, <1>y
  <2>3. /\ Op(chunk, b) = r.op
        /\ SizeAt(chunk, b, 1) = b + 3
        /\ Spells(chunk, b + 3, WordBytes(k))
        /\ r.op = "SET" => Spells(chunk, b + 6 + Len(k), WordBytes(v))
    BY <2>1, PlacesAre, ZenonT(40)
  <2> QED BY <1>x, <2>2, <2>3
<1>7. \A j \in 1..Arity(r.op) :
          /\ SizeAt(chunk, b, j) <= n /\ chunk[SizeAt(chunk, b, j)] \in {"$", "$0"}
          /\ WordAt(chunk, b, j) <= n
  <2>1. TAKE j \in 1..Arity(r.op)
  <2>2. /\ SizeAt(chunk, b, j) \in 1..Len(chunk)
        /\ chunk[SizeAt(chunk, b, j)] \in {"$", "$0", ADollar}
        /\ WordAt(chunk, b, j) <= n
    <3>1. /\ SizeAt(chunk, b, j) \in (b + 2)..Len(chunk)
          /\ WordAt(chunk, b, j) \in (b + 3)..Len(chunk)
          /\ chunk[SizeAt(chunk, b, j)] \in {"$", "$0", ADollar}
      BY <1>1, <1>6, WholeIs
    <3> QED BY <1>1, <1>n, <3>1
  <2> QED BY <1>n, <2>2 DEF NoMarks
<1>8. /\ WordAt(chunk, b, 1) = NextLine(chunk, x)
      /\ x \in 1..n /\ NextLine(chunk, x) \in x..(n + 1) /\ NextLine(chunk, x) <= n
  <2>1. 1 \in 1..Arity(r.op)
    BY <1>2
  <2>2. WordAt(chunk, b, 1) = NextLine(chunk, x) /\ x <= n /\ NextLine(chunk, x) <= n
    BY <1>6, <1>7, <2>1 DEF WordAt
  <2>3. x \in 1..n /\ x \in 1..(Len(chunk) + 1)
    BY <1>n, <1>x, <1>5, <2>2
  <2> QED BY <1>n, <2>2, <2>3, NextLineIs
<1>9. /\ q.op = r.op
      /\ Len(q.args) = Arity(r.op)
      /\ \A j \in 1..Arity(r.op) :
            q.args[j] = Word(chunk, SizeAt(chunk, b, j), Line(chunk, WordAt(chunk, b, j)))
  BY <1>1, <1>6, TakenFor
<1>10. /\ Clean(q.args[1])
       /\ IsPrefix(q.args[1], k)
       /\ k = << >> \/ x + 1 + l <= n => q.args[1] = k
  <2>1. 1 \in 1..Arity(r.op)
    BY <1>2
  <2>2. q.args[1] = Word(chunk, x, Line(chunk, NextLine(chunk, x)))
    BY <1>6, <1>8, <1>9, <2>1
  <2>3. x \in 1..Len(chunk) /\ NextLine(chunk, x) <= Len(chunk)
    BY <1>8, <1>n
  <2>4. /\ Clean(q.args[1])
        /\ IsPrefix(q.args[1], k)
        /\ k = << >> \/ x + 1 + Len(k) <= Len(chunk) => q.args[1] = k
    <3> PICK d : d = q.args[1]
      OBVIOUS
    <3>1. Clean(k) /\ Spells(chunk, x, WordBytes(k)) /\ d = Word(chunk, x, Line(chunk, NextLine(chunk, x)))
      BY <1>3, <1>6, <2>2
    <3>2. /\ Clean(d)
          /\ IsPrefix(d, k)
          /\ k = << >> \/ x + 1 + Len(k) <= Len(chunk) => d = k
      BY <2>3, <3>1, WordRead, ZenonT(40)
    <3> QED BY <3>2
  <2>5. x + 1 + l <= n => x + 1 + Len(k) <= Len(chunk)
    BY <1>k, <1>n
  <2> QED BY <2>4, <2>5
<1>11. CASE r.op # "SET"
  <2>1. Len(r.args) = 1 /\ \A i \in 1..Len(r.args) : i = 1
    BY <1>2, <1>11
  <2> QED BY <1>2, <1>9, <1>10, <2>1 DEF Near
<1>12. CASE r.op = "SET"
  <2>1. 1 \in 1..Arity(r.op) /\ 2 \in 1..Arity(r.op)
    BY <1>2, <1>12
  <2>2. /\ SizeAt(chunk, b, 2) <= n /\ chunk[SizeAt(chunk, b, 2)] \in {"$", "$0"}
        /\ WordAt(chunk, b, 2) <= n
        /\ SizeAt(chunk, b, 2) = NextLine(chunk, WordAt(chunk, b, 1))
    BY <1>7, <2>1 DEF SizeAt, WordAt
  <2>3. Clean(v) /\ m = Len(v) /\ Spells(chunk, y, WordBytes(v)) /\ lw = l + 6 + m + 3
    BY <1>4, <1>5, <1>6, <1>12, <1>v
  <2>4. y <= n => /\ y \in 1..n
                  /\ chunk[y] \in {"$", "$0"}
                  /\ m = 0 /\ y + 3 <= n => chunk[y + 3] = "*"
    <3>1. SUFFICES ASSUME y <= n
                   PROVE  /\ y \in 1..n
                          /\ chunk[y] \in {"$", "$0"}
                          /\ m = 0 /\ y + 3 <= n => chunk[y + 3] = "*"
      OBVIOUS
    <3>2. 1 \in 1..Len(WordBytes(v)) /\ WordBytes(v)[1] \in {"$", "$0"}
      <4>1. Len(WordBytes(v)) = m + 3 /\ WordBytes(v)[1] \in {"$", "$0"}
        BY <2>3, WordBytesIs
      <4> QED BY <4>1
    <3>3. y + 1 - 1 = y /\ y <= Len(chunk)
      BY <1>n, <3>1
    <3>4. chunk[y] \in {"$", "$0"}
      BY <2>3, <3>2, <3>3 DEF Spells
    <3>5. lw = l + 6 + m + 3
      BY <2>3
    <3>6. y \in 1..n /\ (m = 0 => y + 3 = b + lw)
      BY <1>b, <1>y, <3>1, <3>5
    <3> QED BY <1>5, <3>4, <3>6
  <2>5. k # << >>
    <3>1. SUFFICES ASSUME k = << >> PROVE FALSE
      OBVIOUS
    <3>2. l = 0 /\ y = x + 3
      <4>1. l = 0
        BY <1>k, <3>1, EmptySeq
      <4> QED BY <1>b, <1>x, <1>y, <4>1
    <3>3. Spells(chunk, x, WordBytes(<< >>)) /\ x \in 1..Len(chunk) /\ NextLine(chunk, x) <= Len(chunk)
      BY <1>6, <1>8, <1>n, <3>1
    <3>4. NextLine(chunk, x) >= x + 3
      BY <3>3, NoLetters
    <3>5. y <= n
      BY <1>8, <3>2, <3>4
    <3>6. chunk[x + 3] \notin {"CR", "LF"} /\ x + 3 <= Len(chunk)
      BY <1>n, <2>4, <3>2, <3>5
    <3>7. NextLine(chunk, x) = y
      BY <3>2, <3>3, <3>6, NoLetters
    <3>8. NextLine(chunk, y) <= n /\ chunk[NextLine(chunk, y)] \in {"$", "$0"}
      BY <1>8, <2>2, <3>7
    <3>9. y \in 1..Len(chunk) /\ y \in 1..n
      BY <1>n, <2>4, <3>5
    <3>10. CASE v # << >>
      <4>1. NextLine(chunk, y) = y + 1 /\ (y + 1 <= Len(chunk) => chunk[y + 1] = v[1])
        BY <2>3, <3>9, <3>10, LettersLine
      <4>2. v[1] \notin Marks
        <5>1. v \in Seq(Tokens) /\ \A i \in 1..Len(v) : v[i] \notin Marks
          BY <2>3 DEF Clean
        <5>2. m # 0
          BY <2>3, <3>10, <5>1, SeqFacts
        <5>3. 1 \in 1..Len(v)
          BY <2>3, <5>2
        <5> QED BY <5>1, <5>3
      <4>3. chunk[y + 1] = v[1]
        BY <1>n, <3>8, <4>1
      <4> QED BY <3>8, <4>1, <4>2, <4>3 DEF Marks
    <3>11. CASE v = << >>
      <4>1. Spells(chunk, y, WordBytes(<< >>)) /\ m = 0
        BY <2>3, <3>11, EmptySeq
      <4>2. NextLine(chunk, y) \in y..(n + 1)
        <5>1. y \in 1..(Len(chunk) + 1)
          BY <1>n, <3>9
        <5> QED BY <1>n, <5>1, NextLineIs
      <4>3. NextLine(chunk, y) >= y + 3
        <5>1. NextLine(chunk, y) <= Len(chunk)
          BY <1>n, <3>8
        <5> QED BY <3>9, <4>1, <5>1, NoLetters
      <4>4. y + 3 <= n
        BY <3>8, <4>2, <4>3
      <4>5. chunk[y + 3] = "*"
        BY <2>4, <3>5, <4>1, <4>4
      <4>6. NextLine(chunk, y) = y + 3
        <5>1. chunk[y + 3] \notin {"CR", "LF"} /\ y + 3 <= Len(chunk)
          BY <1>n, <4>4, <4>5
        <5> QED BY <3>9, <4>1, <5>1, NoLetters
      <4> QED BY <3>8, <4>5, <4>6
    <3> QED BY <3>10, <3>11
  <2>6. NextLine(chunk, x) = x + 1 /\ x + 1 \in 1..n
    <3>1. x \in 1..Len(chunk)
      BY <1>8, <1>n
    <3>2. NextLine(chunk, x) = x + 1
      BY <1>3, <1>6, <2>5, <3>1, LettersLine
    <3> QED BY <1>8, <3>2
  <2>7. NextLine(chunk, x + 1) <= n
    BY <1>8, <2>2, <2>6
  <2>8. x + 1 + l <= n
    <3>1. SUFFICES ASSUME ~(x + 1 + l <= n) PROVE FALSE
      OBVIOUS
    <3>2. x + 1 <= Len(chunk) /\ x \in 1..Len(chunk) /\ ~(x + 1 + Len(k) <= Len(chunk))
      BY <1>8, <1>k, <1>n, <2>6, <3>1
    <3>3. LineEnd(chunk, x + 1) = Len(chunk) + 1
      BY <1>3, <1>6, <2>5, <3>2, LettersLine
    <3>4. NextLine(chunk, x + 1) \in (n + 1)..(n + 1)
      <4>1. x + 1 \in 1..(Len(chunk) + 1)
        BY <1>n, <2>6
      <4> QED BY <1>n, <3>3, <4>1, NextLineIs
    <3> QED BY <2>7, <3>4
  <2>9. NextLine(chunk, x + 1) = y
    <3>0. x + 3 + l = y
      BY <1>b, <1>x, <1>y
    <3>1. /\ x + 1 + Len(k) <= Len(chunk) /\ x + 3 + Len(k) = y
          /\ x \in 1..Len(chunk) /\ NextLine(chunk, x + 1) <= Len(chunk)
      BY <1>8, <1>k, <1>n, <2>7, <2>8, <3>0
    <3>2. x + 3 + Len(k) <= Len(chunk) => chunk[x + 3 + Len(k)] \notin {"CR", "LF"}
      BY <1>n, <2>4, <3>1
    <3> QED BY <1>3, <1>6, <2>5, <3>1, <3>2, NextWord
  <2>10. SizeAt(chunk, b, 2) = y /\ WordAt(chunk, b, 2) = NextLine(chunk, y)
    BY <1>8, <2>2, <2>6, <2>9 DEF WordAt
  <2>11. Clean(q.args[2]) /\ IsPrefix(q.args[2], v)
    <3>1. q.args[2] = Word(chunk, y, Line(chunk, NextLine(chunk, y)))
      BY <1>9, <2>1, <2>10
    <3>2. y \in 1..Len(chunk) /\ NextLine(chunk, y) <= Len(chunk)
      BY <1>n, <2>2, <2>4, <2>10
    <3> QED BY <2>3, <3>1, <3>2, WordRead
  <2>12. Clean(q.args[1]) /\ q.args[1] = k
    BY <1>10, <2>8
  <2>13. Len(r.args) = 2 /\ \A i \in 1..Len(r.args) : i = 1 \/ i = 2
    BY <1>2, <1>12
  <2> QED BY <1>2, <1>9, <2>11, <2>12, <2>13 DEF Near
<1> QED BY <1>11, <1>12

\* A request that is there to its end, with letters in its words, is taken for what
\* it is, and the reading goes on behind it.
LEMMA RequestAll ==
    ASSUME NEW chunk \in Seq(Tokens), NEW b, NEW r, IsAt(chunk, b, r),
           \A i \in DOMAIN r.args : r.args[i] # << >>, b + Len(Wire(r)) <= Len(chunk) + 1
    PROVE  /\ IsWhole(chunk, b)
           /\ RequestAt(chunk, b) = r
           /\ Behind(chunk, b) = b + Len(Wire(r))
<1> PICK k, v, w, q : k = r.args[1] /\ v = r.args[2] /\ w = Wire(r) /\ q = RequestAt(chunk, b)
  OBVIOUS
<1>1. r \in Requests /\ b \in 1..Len(chunk) /\ Len(w) \in Nat /\ Len(chunk) \in Nat
  <2>1. r \in Requests /\ b \in 1..Len(chunk)
    BY DEF IsAt
  <2> QED BY <2>1, WireStars, SeqFacts
<1>2. /\ Len(r.args) = Arity(r.op)
      /\ DOMAIN r.args = 1..Arity(r.op)
      /\ Arity(r.op) = IF r.op = "SET" THEN 2 ELSE 1
      /\ r = [op |-> r.op, args |-> r.args]
      /\ r.args \in Seq(Seq(Tokens))
  BY <1>1, RequestIs DEF Arity, Request
<1>3. Clean(k) /\ Len(k) \in Nat /\ k # << >>
  <2>1. 1 \in DOMAIN r.args
    BY <1>2
  <2>3. Clean(k)
    BY PlacesAre
  <2>2. Len(k) \in Nat
    BY <2>3, SeqFacts DEF Clean
  <2> QED BY <2>1, <2>2, <2>3
<1>4. r.op = "SET" => Clean(v) /\ Len(v) \in Nat /\ v # << >>
  <2>1. SUFFICES ASSUME r.op = "SET" PROVE Clean(v) /\ Len(v) \in Nat /\ v # << >>
    OBVIOUS
  <2>2. 2 \in DOMAIN r.args
    BY <1>2, <2>1
  <2>3. Clean(v)
    BY <2>1, PlacesAre
  <2>4. Len(v) \in Nat
    BY <2>3, SeqFacts DEF Clean
  <2> QED BY <2>2, <2>3, <2>4
<1>n. PICK n \in Nat : n = Len(chunk)
  BY <1>1
<1>k. PICK l \in Nat : l = Len(k)
  BY <1>3
<1>v. PICK m \in Nat : r.op = "SET" => m = Len(v)
  BY <1>4
<1>w. PICK lw \in Nat : lw = Len(w)
  BY <1>1
<1>b. b \in Nat \ {0} /\ b <= n
  BY <1>1, <1>n
<1>x. PICK x \in Nat : x = b + 3
  BY <1>1
<1>y. PICK y \in Nat : y = b + 6 + l
  BY <1>1
<1>5. /\ b \in 1..n /\ b + lw <= n + 1 /\ (b + lw <= n => chunk[b + lw] = "*")
      /\ (r.op = "SET" => lw = l + 6 + m + 3)
      /\ (r.op # "SET" => lw = l + 6)
  <2>1. /\ b \in 1..n /\ b + lw <= n + 1 /\ (b + lw <= n => chunk[b + lw] = "*")
    BY <1>1, <1>n, <1>w DEF IsAt
  <2>2. r.op = "SET" => Len(w) = Len(k) + 6 + Len(v) + 3
    <3>1. r.op = "SET" => Len(Wire(r)) = Len(r.args[1]) + 6 + Len(r.args[2]) + 3
      BY PlacesAre
    <3> QED BY <3>1
  <2>3. r.op # "SET" => Len(w) = Len(k) + 6
    <3>1. r.op # "SET" => Len(Wire(r)) = Len(r.args[1]) + 6
      BY PlacesAre
    <3> QED BY <3>1
  <2> QED BY <1>k, <1>v, <1>w, <2>1, <2>2, <2>3
<1>6. b + 5 + l <= n
  <2>1. lw >= l + 6 /\ b + lw <= n + 1
    BY <1>5
  <2> QED BY <1>b, <2>1
<1>7. /\ NameAt(chunk, b) = b + 2 /\ NameAt(chunk, b) <= n
      /\ Op(chunk, b) = r.op
      /\ SizeAt(chunk, b, 1) = x
      /\ Spells(chunk, x, WordBytes(k))
      /\ r.op = "SET" => Spells(chunk, y, WordBytes(v))
  <2>1. b + 2 <= n
    BY <1>5, <1>6
  <2>2. b + 2 <= Len(chunk)
    BY <1>n, <2>1
  <2>3. b + 6 + Len(k) = y
    BY <1>k, <1>y
  <2>4. /\ NameAt(chunk, b) = b + 2
        /\ Op(chunk, b) = r.op
        /\ SizeAt(chunk, b, 1) = b + 3
        /\ Spells(chunk, b + 3, WordBytes(k))
        /\ r.op = "SET" => Spells(chunk, b + 6 + Len(k), WordBytes(v))
    BY <2>2, PlacesAre
  <2> QED BY <1>x, <2>1, <2>3, <2>4
<1>8. x \in 1..n /\ x + 1 <= n /\ x + 2 + l <= n /\ x + 3 + l = y
  BY <1>6, <1>b, <1>x, <1>y
<1>9. chunk[x] = "$" /\ NextLine(chunk, x) = x + 1
  <2>1. x \in 1..Len(chunk)
    BY <1>8, <1>n
  <2> QED BY <1>3, <1>7, <2>1, LettersLine
<1>10. ASSUME r.op = "SET"
       PROVE  /\ y \in 1..n /\ y + 2 + m <= n /\ y + 3 + m = b + lw
              /\ chunk[y] = "$" /\ NextLine(chunk, y) = y + 1
  <2>1. lw = l + 6 + m + 3 /\ b + lw <= n + 1
    BY <1>5, <1>10
  <2>2. y \in 1..n /\ y + 2 + m <= n /\ y + 3 + m = b + lw
    BY <1>b, <1>y, <2>1
  <2>3. y \in 1..Len(chunk) /\ Clean(v) /\ v # << >> /\ Spells(chunk, y, WordBytes(v))
    BY <1>4, <1>7, <1>10, <1>n, <2>2
  <2>4. chunk[y] = "$" /\ NextLine(chunk, y) = y + 1
    BY <2>3, LettersLine
  <2> QED BY <2>2, <2>4
<1>11. r.op # "SET" => y = b + lw
  BY <1>5, <1>y
<1>12. y <= n => chunk[y] \notin {"CR", "LF"}
  <2>1. "*" \notin {"CR", "LF"} /\ "$" \notin {"CR", "LF"}
    OBVIOUS
  <2> QED BY <1>5, <1>10, <1>11, <2>1
<1>13. NextLine(chunk, x + 1) = y
  <2>1. x + 1 + l <= n
    BY <1>8
  <2>2. /\ x + 1 + Len(k) <= Len(chunk) /\ x + 2 + Len(k) <= Len(chunk) /\ x + 3 + Len(k) = y
        /\ x \in 1..Len(chunk)
    BY <1>8, <1>k, <1>n, <2>1
  <2>3. x + 3 + Len(k) <= Len(chunk) => chunk[x + 3 + Len(k)] \notin {"CR", "LF"}
    BY <1>12, <1>n, <2>2
  <2>4. NextLine(chunk, x + 1) = x + 3 + Len(k)
    BY <1>3, <1>7, <2>2, <2>3, NextWord
  <2> QED BY <2>2, <2>4
<1>14. WordAt(chunk, b, 1) = x + 1 /\ SizeAt(chunk, b, 2) = y
  <2>1. WordAt(chunk, b, 1) = x + 1
    BY <1>7, <1>9 DEF WordAt
  <2>2. SizeAt(chunk, b, 2) = NextLine(chunk, WordAt(chunk, b, 1))
    BY DEF SizeAt, WordAt
  <2> QED BY <1>13, <2>1, <2>2
<1>15. Word(chunk, x, Line(chunk, x + 1)) = k
  <2>1. NextLine(chunk, x) <= Len(chunk) /\ x \in 1..Len(chunk)
    BY <1>8, <1>9, <1>n
  <2>2. x + 1 + l <= n
    BY <1>8
  <2>3. x + 1 + Len(k) <= Len(chunk)
    BY <1>k, <1>n, <2>2
  <2> QED BY <1>3, <1>7, <1>9, <2>1, <2>3, WordRead
<1>16. ASSUME r.op = "SET"
       PROVE  /\ WordAt(chunk, b, 2) = y + 1
              /\ Word(chunk, y, Line(chunk, y + 1)) = v
              /\ NextLine(chunk, y + 1) = b + lw
  <2>1. WordAt(chunk, b, 2) = y + 1
    BY <1>10, <1>14, <1>16 DEF WordAt
  <2>2. Clean(v) /\ v # << >> /\ m = Len(v) /\ Spells(chunk, y, WordBytes(v))
    BY <1>4, <1>7, <1>16, <1>v
  <2>3. /\ y \in 1..n /\ y + 2 + m <= n /\ y + 3 + m = b + lw
        /\ chunk[y] = "$" /\ NextLine(chunk, y) = y + 1
    BY <1>10, <1>16
  <2>4. y + 1 + m <= n /\ y + 1 <= n
    BY <2>3
  <2>5. /\ y + 1 + Len(v) <= Len(chunk) /\ y + 2 + Len(v) <= Len(chunk) /\ y + 3 + Len(v) = b + lw
        /\ y \in 1..Len(chunk) /\ NextLine(chunk, y) <= Len(chunk)
    BY <1>n, <2>2, <2>3, <2>4
  <2>6. Word(chunk, y, Line(chunk, y + 1)) = v
    BY <2>2, <2>3, <2>5, WordRead
  <2>7. y + 3 + Len(v) <= Len(chunk) => chunk[y + 3 + Len(v)] \notin {"CR", "LF"}
    <3>1. b + lw <= n => chunk[b + lw] \notin {"CR", "LF"}
      BY <1>5
    <3> QED BY <1>n, <2>5, <3>1
  <2>8. NextLine(chunk, y + 1) = y + 3 + Len(v)
    BY <2>2, <2>5, <2>7, NextWord
  <2> QED BY <2>1, <2>5, <2>6, <2>8
<1>17. IsWhole(chunk, b)
  <2>1. /\ SizeAt(chunk, b, 1) <= Len(chunk) /\ WordAt(chunk, b, 1) <= Len(chunk)
        /\ chunk[SizeAt(chunk, b, 1)] = "$"
    BY <1>7, <1>8, <1>9, <1>14, <1>n
  <2>2. r.op = "SET" =>
           /\ SizeAt(chunk, b, 2) <= Len(chunk) /\ WordAt(chunk, b, 2) <= Len(chunk)
           /\ chunk[SizeAt(chunk, b, 2)] = "$"
    <3>1. SUFFICES ASSUME r.op = "SET"
                   PROVE  /\ SizeAt(chunk, b, 2) <= Len(chunk) /\ WordAt(chunk, b, 2) <= Len(chunk)
                          /\ chunk[SizeAt(chunk, b, 2)] = "$"
      OBVIOUS
    <3>2. y + 1 <= n
      BY <1>10, <3>1
    <3> QED BY <1>10, <1>14, <1>16, <1>n, <3>1, <3>2
  <2>3. \A j \in 1..Arity(r.op) : j = 1 \/ (j = 2 /\ r.op = "SET")
    BY <1>2
  <2>4. NameAt(chunk, b) <= Len(chunk)
    BY <1>7, <1>n
  <2>5. \A j \in 1..Arity(r.op) : /\ SizeAt(chunk, b, j) <= Len(chunk)
                                  /\ chunk[SizeAt(chunk, b, j)] = "$"
                                  /\ WordAt(chunk, b, j) <= Len(chunk)
    BY <2>1, <2>2, <2>3
  <2> QED BY <1>7, <2>4, <2>5 DEF IsWhole
<1>18. q = r
  <2>1. /\ q.op = r.op /\ Len(q.args) = Arity(r.op) /\ q.args \in Seq(Seq(Tokens))
        /\ \A j \in 1..Arity(r.op) :
              q.args[j] = Word(chunk, SizeAt(chunk, b, j), Line(chunk, WordAt(chunk, b, j)))
    <3>1. /\ chunk \in Seq(Tokens) /\ r \in Requests /\ b \in 1..Len(chunk)
          /\ Op(chunk, b) = r.op /\ q = RequestAt(chunk, b)
      BY <1>1, <1>7
    <3> QED BY ONLY <1>17, <3>1, TakenFor
  <2>2. ASSUME NEW j \in 1..Arity(r.op) PROVE q.args[j] = r.args[j]
    <3>1. j = 1 \/ (j = 2 /\ r.op = "SET")
      BY <1>2
    <3>2. CASE j = 1
      BY <1>7, <1>14, <1>15, <2>1, <3>2
    <3>3. CASE j = 2 /\ r.op = "SET"
      BY <1>14, <1>16, <2>1, <3>3
    <3> QED BY <3>1, <3>2, <3>3
  <2>3. q.args = r.args
    BY <1>2, <2>1, <2>2, SeqEqual
  <2>4. q = [op |-> q.op, args |-> q.args]
    BY DEF RequestAt, Request
  <2> QED BY <1>2, <2>1, <2>3, <2>4
<1>19. Behind(chunk, b) = b + lw
  <2>1. Behind(chunk, b) = NextLine(chunk, WordAt(chunk, b, Arity(r.op)))
    BY <1>7 DEF Behind
  <2>2. CASE r.op = "SET"
    BY <1>2, <1>16, <2>1, <2>2
  <2>3. CASE r.op # "SET"
    BY <1>2, <1>11, <1>13, <1>14, <2>1, <2>3
  <2> QED BY <2>2, <2>3
<1> QED BY <1>17, <1>18, <1>19, <1>w

----------------------------------------------------------------------------
(* A read within what its client sent *)

\* What stands behind a place, and behind a later one.
LEMMA SuffixOf ==
    ASSUME NEW st \in Seq(Tokens), NEW b \in 1..(Len(st) + 1), NEW t, t = SubSeq(st, b, Len(st))
    PROVE  /\ t \in Seq(Tokens)
           /\ Len(t) = Len(st) - b + 1
           /\ \A i \in 1..Len(t) : t[i] = st[b + i - 1]
<1>1. Len(st) \in Nat /\ b \in Nat \ {0} /\ b <= Len(st) + 1
  BY SeqFacts
<1>2. \A i \in b..Len(st) : st[i] \in Tokens
  BY <1>1, SeqFacts
<1>3. b \in Int /\ Len(st) \in Int
  BY <1>1
<1>4. /\ t \in Seq(Tokens)
      /\ Len(t) = IF b <= Len(st) THEN Len(st) - b + 1 ELSE 0
      /\ \A i \in 1..(Len(st) - b + 1) : t[i] = st[b + i - 1]
  BY <1>2, <1>3, SubSeqProperties
<1>5. Len(t) = Len(st) - b + 1
  BY <1>1, <1>4
<1> QED BY <1>4, <1>5

LEMMA SuffixTwice ==
    ASSUME NEW st \in Seq(Tokens), NEW b \in 1..(Len(st) + 1), NEW t, t = SubSeq(st, b, Len(st)),
           NEW d \in b..(Len(st) + 1)
    PROVE  SubSeq(t, (d - b) + 1, Len(t)) = SubSeq(st, d, Len(st))
<1> PICK u, v : u = SubSeq(t, (d - b) + 1, Len(t)) /\ v = SubSeq(st, d, Len(st))
  OBVIOUS
<1>1. Len(st) \in Nat /\ b \in Nat \ {0} /\ d \in Nat \ {0} /\ b <= d /\ d <= Len(st) + 1
  BY SeqFacts
<1>2. /\ t \in Seq(Tokens) /\ Len(t) = Len(st) - b + 1
      /\ \A i \in 1..Len(t) : t[i] = st[b + i - 1]
  BY SuffixOf
<1>3. (d - b) + 1 \in 1..(Len(t) + 1) /\ d \in 1..(Len(st) + 1)
  BY <1>1, <1>2
<1>4. /\ u \in Seq(Tokens) /\ Len(u) = Len(t) - ((d - b) + 1) + 1
      /\ \A i \in 1..Len(u) : u[i] = t[(d - b) + 1 + i - 1]
  BY <1>2, <1>3, SuffixOf
<1>5. /\ v \in Seq(Tokens) /\ Len(v) = Len(st) - d + 1
      /\ \A i \in 1..Len(v) : v[i] = st[d + i - 1]
  BY <1>3, SuffixOf
<1>6. Len(u) = Len(v) /\ Len(u) \in Nat
  BY <1>1, <1>2, <1>4, <1>5
<1>7. ASSUME NEW i \in 1..Len(u) PROVE u[i] = v[i]
  <2>1. PICK m : m = (d - b) + 1 + i - 1
    OBVIOUS
  <2>2. m \in 1..Len(t) /\ b + m - 1 = d + i - 1
    BY <1>1, <1>2, <1>4, <1>6, <2>1
  <2>3. u[i] = t[m] /\ t[m] = st[b + m - 1]
    BY <1>2, <1>4, <2>1, <2>2
  <2>4. v[i] = st[d + i - 1]
    BY <1>5, <1>6
  <2> QED BY <2>2, <2>3, <2>4
<1> QED BY <1>4, <1>5, <1>6, <1>7, SeqEqual

\* A place further on: no request is left again.
LEMMA Onward ==
    ASSUME NEW s \in Seq(Requests), NEW st \in Seq(Tokens), NEW b \in 1..Len(st), NEW p, NEW rest,
           IsLeft(SubSeq(st, b, Len(st)), s, p, rest), NEW d \in (b + 1)..(Len(st) + 1)
    PROVE  \E p2, new : /\ IsLeft(SubSeq(st, d, Len(st)), s, p2, new)
                        /\ p2 >= p
                        /\ rest = << >> => p2 > p
<1> PICK t : t = SubSeq(st, b, Len(st))
  OBVIOUS
<1>1. Len(st) \in Nat /\ b \in Nat \ {0} /\ b <= Len(st) /\ b \in 1..(Len(st) + 1) /\ d \in b..(Len(st) + 1)
  BY SeqFacts
<1>2. Len(t) = Len(st) - b + 1
  BY <1>1, SuffixOf
<1>3. d - b \in 1..Len(t)
  BY <1>1, <1>2
<1>4. SubSeq(t, (d - b) + 1, Len(t)) = SubSeq(st, d, Len(st))
  BY <1>1, SuffixTwice
<1>5. \E p2, new : /\ IsLeft(SubSeq(t, (d - b) + 1, Len(t)), s, p2, new)
                   /\ p2 >= p
                   /\ rest = << >> => p2 > p
  BY <1>3, SuffixIsLeft
<1> QED BY <1>4, <1>5

\* The bytes z are those of a request, w, and then y.
Begins(z, w, y) ==
    /\ Len(w) \in Nat /\ Len(w) >= 6 /\ Len(y) \in Nat
    /\ Len(z) = Len(w) + Len(y)
    /\ \A i \in 1..Len(w) : z[i] = w[i]
    /\ \A i \in 1..Len(y) : z[Len(w) + i] = y[i]
    /\ w[1] = "*"
    /\ \A i \in 2..Len(w) : w[i] # "*"

\* What is still to be read begins with a request, if there is anything.
LEMMA BytesBegin ==
    ASSUME NEW s \in Seq(Requests), NEW q \in 0..(Len(s) - 1)
    PROVE  /\ s[q + 1] \in Requests
           /\ q + 1 \in 0..Len(s)
           /\ Begins(Bytes(s, q), Wire(s[q + 1]), Bytes(s, q + 1))
<1> PICK w : w = Wire(s[q + 1])
  OBVIOUS
<1>1. Len(s) \in Nat /\ q + 1 \in 0..Len(s) /\ q + 1 \in 1..Len(s) /\ q \in 0..Len(s)
  BY SeqFacts
<1>2. s[q + 1] \in Requests
  BY <1>1, SeqFacts
<1> PICK y : y = Bytes(s, q + 1)
  OBVIOUS
<1>3. y \in Seq(Tokens) /\ Bytes(s, q) = w \o y
  BY <1>1, BytesAre
<1>4. w \in Seq(Tokens) /\ w # << >> /\ w[1] = "*" /\ StarFree(Tail(w))
  BY <1>2, WireStars
<1>5. Len(w) \in Nat /\ Len(w) >= 6
  <2>1. First(w, s[q + 1].args[1])
    BY <1>2, WireAt
  <2>2. \A k : First(w, k) => Len(w) \in Nat /\ Len(w) >= 6
    BY DEF First
  <2> QED BY <2>1, <2>2
<1>6. /\ Len(y) \in Nat
      /\ Len(w \o y) = Len(w) + Len(y)
      /\ \A i \in 1..(Len(w) + Len(y)) : (w \o y)[i] = IF i <= Len(w) THEN w[i] ELSE y[i - Len(w)]
  BY <1>3, <1>4, ConcatProperties, SeqFacts
<1>7. \A i \in 1..Len(w) : (w \o y)[i] = w[i]
  BY <1>5, <1>6
<1>8. ASSUME NEW i \in 1..Len(y) PROVE (w \o y)[Len(w) + i] = y[i]
  <2>1. Len(w) + i \in 1..(Len(w) + Len(y)) /\ ~(Len(w) + i <= Len(w)) /\ Len(w) + i - Len(w) = i
    BY <1>5, <1>6
  <2> QED BY <1>6, <2>1
<1>9. ASSUME NEW i \in 2..Len(w) PROVE w[i] # "*"
  <2>1. Len(Tail(w)) = Len(w) - 1 /\ \A j \in 1..Len(Tail(w)) : Tail(w)[j] = w[j + 1]
    BY <1>4, SeqFacts
  <2>2. i - 1 \in 1..Len(Tail(w)) /\ (i - 1) + 1 = i
    BY <1>5, <2>1
  <2>3. Tail(w)[i - 1] = w[i] /\ Tail(w)[i - 1] # "*"
    BY <1>4, <2>1, <2>2 DEF StarFree
  <2> QED BY <2>3
<1> QED BY <1>1, <1>2, <1>3, <1>4, <1>5, <1>6, <1>7, <1>8, <1>9 DEF Begins

\* chunk is what the read of n bytes gives of st.
IsRead(st, n, chunk) ==
    /\ n \in 1..Len(st)
    /\ chunk \in Seq(Tokens) /\ Len(chunk) = n
    /\ \A i \in 1..n : chunk[i] = st[i]

\* Where a read has a star, a request of the client begins.
LEMMA StarBegins ==
    ASSUME NEW s \in Seq(Requests), NEW st \in Seq(Tokens), NEW n, NEW chunk, IsRead(st, n, chunk),
           NEW b \in 1..n, chunk[b] = "*", NEW p, NEW rest, IsLeft(SubSeq(st, b, Len(st)), s, p, rest)
    PROVE  /\ rest = << >>
           /\ p \in 0..(Len(s) - 1)
           /\ s[p + 1] \in Requests /\ p + 1 \in 0..Len(s)
           /\ Begins(SubSeq(st, b, Len(st)), Wire(s[p + 1]), Bytes(s, p + 1))
<1> PICK t : t = SubSeq(st, b, Len(st))
  OBVIOUS
<1>0. n \in 1..Len(st) /\ chunk \in Seq(Tokens) /\ Len(chunk) = n /\ \A i \in 1..n : chunk[i] = st[i]
  BY DEF IsRead
<1>1. /\ Len(st) \in Nat /\ n \in Nat /\ b \in Nat \ {0} /\ b <= n /\ n <= Len(st)
      /\ b \in 1..(Len(st) + 1) /\ Len(s) \in Nat
  BY <1>0, SeqFacts
<1>2. p \in 0..Len(s) /\ StarFree(rest) /\ t = rest \o Bytes(s, p) /\ rest \in Seq(Tokens)
  BY DEF IsLeft, StarFree
<1>3. /\ t \in Seq(Tokens) /\ Len(t) = Len(st) - b + 1
      /\ \A i \in 1..Len(t) : t[i] = st[b + i - 1]
  BY <1>1, SuffixOf
<1>4. t[1] = "*"
  <2>1. 1 \in 1..Len(t) /\ b + 1 - 1 = b
    BY <1>1, <1>3
  <2> QED BY <1>0, <1>3, <2>1
<1>5. Bytes(s, p) \in Seq(Tokens)
  BY <1>2, BytesAre
<1>6. rest = << >>
  <2>1. SUFFICES ASSUME rest # << >> PROVE FALSE
    OBVIOUS
  <2>2. Len(rest) \in Nat /\ 1 \in 1..Len(rest) /\ rest[1] # "*"
    <3>1. Len(rest) \in Nat /\ Len(rest) # 0
      BY <1>2, <2>1, SeqFacts
    <3>2. 1 \in 1..Len(rest)
      BY <3>1
    <3> QED BY <1>2, <3>1, <3>2 DEF StarFree
  <2>3. t[1] = rest[1]
    BY <1>2, <1>5, <2>2, ConcatProperties
  <2> QED BY <1>4, <2>2, <2>3
<1>7. t = Bytes(s, p)
  BY <1>2, <1>5, <1>6, ConcatEmptySeq
<1>8. p # Len(s)
  <2>1. SUFFICES ASSUME p = Len(s) PROVE FALSE
    OBVIOUS
  <2>2. Len(t) = 0
    BY <1>7, <2>1, BytesAre, EmptySeq
  <2> QED BY <1>1, <1>3, <2>2
<1>9. p \in 0..(Len(s) - 1)
  BY <1>1, <1>2, <1>8
<1> QED BY <1>6, <1>7, <1>9, BytesBegin

\* It stands there as far as the read goes.
LEMMA StarIs ==
    ASSUME NEW s \in Seq(Requests), NEW st \in Seq(Tokens), NEW n, NEW chunk, IsRead(st, n, chunk),
           NEW b \in 1..n, b + 1 <= n, chunk[b] = "*", NEW p, NEW rest,
           IsLeft(SubSeq(st, b, Len(st)), s, p, rest)
    PROVE  /\ rest = << >>
           /\ p \in 0..(Len(s) - 1)
           /\ s[p + 1] \in Requests
           /\ IsAt(chunk, b, s[p + 1])
<1> PICK t : t = SubSeq(st, b, Len(st))
  OBVIOUS
<1>0. n \in 1..Len(st) /\ chunk \in Seq(Tokens) /\ Len(chunk) = n /\ \A i \in 1..n : chunk[i] = st[i]
  BY DEF IsRead
<1>1. /\ Len(st) \in Nat /\ n \in Nat /\ b \in Nat \ {0} /\ b <= n /\ n <= Len(st)
      /\ b \in 1..(Len(st) + 1) /\ Len(s) \in Nat
  BY <1>0, SeqFacts
<1>3. /\ t \in Seq(Tokens) /\ Len(t) = Len(st) - b + 1
      /\ \A i \in 1..Len(t) : t[i] = st[b + i - 1]
  BY <1>1, SuffixOf
<1> PICK w, y : w = Wire(s[p + 1]) /\ y = Bytes(s, p + 1)
  OBVIOUS
<1>r. /\ rest = << >> /\ p \in 0..(Len(s) - 1)
      /\ s[p + 1] \in Requests /\ p + 1 \in 0..Len(s) /\ Begins(t, w, y)
  BY StarBegins
<1>10. /\ s[p + 1] \in Requests
       /\ p + 1 \in 0..Len(s)
       /\ Len(w) \in Nat /\ Len(y) \in Nat
       /\ Len(t) = Len(w) + Len(y)
       /\ \A i \in 1..Len(w) : t[i] = w[i]
       /\ \A i \in 1..Len(y) : t[Len(w) + i] = y[i]
  BY <1>r DEF Begins
<1>11. Spells(chunk, b, w)
  <2>1. ASSUME NEW i \in 1..Len(w), b + i - 1 <= n PROVE chunk[b + i - 1] = w[i]
    <3>1. b + i - 1 \in 1..n /\ i \in 1..Len(t)
      BY <1>1, <1>10, <2>1
    <3> QED BY <1>0, <1>3, <1>10, <3>1
  <2> QED BY <1>0, <2>1 DEF Spells
<1>12. b + Len(w) <= n => chunk[b + Len(w)] = "*"
  <2>1. SUFFICES ASSUME b + Len(w) <= n PROVE chunk[b + Len(w)] = "*"
    OBVIOUS
  <2>2. Len(y) > 0 /\ b + Len(w) \in 1..n /\ Len(w) + 1 \in 1..Len(t) /\ b + (Len(w) + 1) - 1 = b + Len(w)
    BY <1>1, <1>3, <1>10, <2>1
  <2>3. chunk[b + Len(w)] = t[Len(w) + 1]
    BY <1>0, <1>3, <2>2
  <2>4. t[Len(w) + 1] = y[1]
    <3>1. 1 \in 1..Len(y)
      BY <1>10, <2>2
    <3> QED BY <1>10, <3>1
  <2>5. p + 1 # Len(s)
    <3>1. Len(<< >>) = 0
      OBVIOUS
    <3> QED BY <2>2, <3>1, BytesAre
  <2>6. p + 1 \in 0..(Len(s) - 1)
    BY <1>1, <1>10, <2>5
  <2>7. y[1] = "*"
    <3> PICK q : q = p + 1
      OBVIOUS
    <3> PICK v : v = Wire(s[q + 1])
      OBVIOUS
    <3>1. q \in 0..(Len(s) - 1) /\ y = Bytes(s, q)
      BY <2>6
    <3>4. Begins(Bytes(s, q), v, Bytes(s, q + 1))
      BY <3>1, BytesBegin
    <3>2. Len(v) \in Nat /\ Len(v) >= 6 /\ (\A i \in 1..Len(v) : Bytes(s, q)[i] = v[i]) /\ v[1] = "*"
      BY <3>4 DEF Begins
    <3>3. 1 \in 1..Len(v)
      BY <3>2
    <3> QED BY <3>1, <3>2, <3>3
  <2> QED BY <2>3, <2>4, <2>7
<1>13. b \in 1..Len(chunk) /\ Len(chunk) = n
  BY <1>0, <1>1
<1> QED BY <1>r, <1>10, <1>11, <1>12, <1>13 DEF IsAt

----------------------------------------------------------------------------
(* Reads that end anywhere *)

\* reqs are what is taken for requests of s behind the p-th, up to the q-th, in
\* their order.
OneByOne(s, p, q, reqs, g) ==
    /\ g \in [1..Len(reqs) -> (p + 1)..q]
    /\ \A i, j \in 1..Len(reqs) : i < j => g[i] < g[j]
    /\ \A i \in 1..Len(reqs) : Near(s[g[i]], reqs[i])

LEMMA OneByOneNone ==
    ASSUME NEW s, NEW p, NEW q
    PROVE  \E g : OneByOne(s, p, q, << >>, g)
<1> PICK g : g = [i \in 1..0 |-> 0]
  OBVIOUS
<1>1. Len(<< >>) = 0 /\ 1..0 = {} /\ g \in [1..0 -> (p + 1)..q]
  OBVIOUS
<1>2. OneByOne(s, p, q, << >>, g)
  BY <1>1 DEF OneByOne
<1> QED BY <1>2

LEMMA OneByOneMore ==
    ASSUME NEW s, NEW p \in Nat, NEW m \in Nat, NEW q \in Nat, p < m, m <= q,
           NEW r \in Found, NEW reqs \in Seq(Found), NEW g,
           Near(s[p + 1], r), OneByOne(s, m, q, reqs, g)
    PROVE  \E h : OneByOne(s, p, q, <<r>> \o reqs, h)
<1> PICK n \in Nat : n = Len(reqs)
  BY SeqFacts
<1> PICK all : all = <<r>> \o reqs
  OBVIOUS
<1> PICK h : h = [i \in 1..(n + 1) |-> IF i = 1 THEN p + 1 ELSE g[i - 1]]
  OBVIOUS
<1>1. /\ Len(all) = n + 1 /\ all[1] = r
      /\ \A i \in 1..(n + 1) : i # 1 => all[i] = reqs[i - 1]
  <2>1. <<r>> \in Seq(Found) /\ Len(<<r>>) = 1 /\ <<r>>[1] = r
    OBVIOUS
  <2>2. /\ Len(all) = 1 + n
        /\ \A i \in 1..(1 + n) : all[i] = IF i <= 1 THEN <<r>>[i] ELSE reqs[i - 1]
    BY <2>1, ConcatProperties
  <2> QED BY <2>1, <2>2
<1>2. /\ g \in [1..n -> (m + 1)..q]
      /\ \A i, j \in 1..n : i < j => g[i] < g[j]
      /\ \A i \in 1..n : Near(s[g[i]], reqs[i])
  BY DEF OneByOne
<1>3. h[1] = p + 1 /\ \A i \in 1..(n + 1) : i # 1 => i - 1 \in 1..n /\ h[i] = g[i - 1]
  OBVIOUS
<1>4. \A i \in 1..n : g[i] \in (m + 1)..q
  BY <1>2
<1>5. h \in [1..(n + 1) -> (p + 1)..q]
  <2>1. ASSUME NEW i \in 1..(n + 1) PROVE (IF i = 1 THEN p + 1 ELSE g[i - 1]) \in (p + 1)..q
    <3>1. p + 1 \in (p + 1)..q
      OBVIOUS
    <3>2. CASE i # 1
      <4>1. g[i - 1] \in (m + 1)..q
        BY <1>3, <1>4, <3>2
      <4>2. g[i - 1] \in (p + 1)..q
        BY <4>1
      <4> QED BY <3>2, <4>2
    <3> QED BY <3>1, <3>2
  <2> QED BY <2>1
<1>6. ASSUME NEW i \in 1..(n + 1), NEW j \in 1..(n + 1), i < j PROVE h[i] < h[j]
  <2>1. j # 1 /\ j - 1 \in 1..n /\ h[j] = g[j - 1]
    BY <1>3, <1>6
  <2>2. CASE i = 1
    <3>1. g[j - 1] \in (m + 1)..q
      BY <1>4, <2>1
    <3>2. p + 1 < g[j - 1]
      BY <3>1
    <3> QED BY <1>3, <2>1, <2>2, <3>2
  <2>3. CASE i # 1
    <3>1. i - 1 \in 1..n /\ h[i] = g[i - 1] /\ i - 1 < j - 1
      BY <1>3, <1>6, <2>3
    <3> QED BY <1>2, <2>1, <3>1
  <2> QED BY <2>2, <2>3
<1>7. ASSUME NEW i \in 1..(n + 1) PROVE Near(s[h[i]], all[i])
  <2>1. CASE i = 1
    BY <1>1, <1>3, <2>1
  <2>2. CASE i # 1
    <3>1. i - 1 \in 1..n /\ h[i] = g[i - 1] /\ all[i] = reqs[i - 1]
      BY <1>1, <1>3, <2>2
    <3> QED BY <1>2, <3>1
  <2> QED BY <2>1, <2>2
<1>8. OneByOne(s, p, q, all, h)
  BY <1>1, <1>5, <1>6, <1>7 DEF OneByOne
<1> QED BY <1>8

\* What the reading makes of each place.
Finds(chunk, f) ==
    /\ f \in [1..(Len(chunk) + 1) -> Seq(Found)]
    /\ \A b \in 1..(Len(chunk) + 1) : f[b] = Step(chunk, f, b)

Full(reqs) == \A i \in 1..Len(reqs) : reqs[i] # NoWords

\* From the place b on, where p requests are over, requests behind them are found,
\* and what is left behind the read is behind these.
FindsSent(s, st, n, f, b) ==
    \A p, rest :
        IsLeft(SubSeq(st, b, Len(st)), s, p, rest) /\ Full(f[b])
            => \E q, new, g : /\ IsLeft(SubSeq(st, n + 1, Len(st)), s, q, new)
                              /\ q >= p
                              /\ OneByOne(s, p, q, f[b], g)

LEMMA FindsSentStep ==
    ASSUME NEW s \in Seq(Requests), NEW st \in Seq(Tokens), NEW n, NEW chunk, IsRead(st, n, chunk),
           NoMarks(chunk), NEW f, Finds(chunk, f), NEW b \in 1..n,
           \A d \in (b + 1)..(n + 1) : FindsSent(s, st, n, f, d)
    PROVE  FindsSent(s, st, n, f, b)
<1>1. SUFFICES ASSUME NEW p, NEW rest, IsLeft(SubSeq(st, b, Len(st)), s, p, rest), Full(f[b])
               PROVE  \E q, new, g : /\ IsLeft(SubSeq(st, n + 1, Len(st)), s, q, new)
                                     /\ q >= p
                                     /\ OneByOne(s, p, q, f[b], g)
  BY DEF FindsSent
<1>2. /\ n \in 1..Len(st) /\ chunk \in Seq(Tokens) /\ Len(chunk) = n
      /\ \A i \in 1..n : chunk[i] = st[i]
  BY DEF IsRead
<1>3. /\ Len(st) \in Nat /\ n \in Nat /\ n <= Len(st) /\ b \in Nat \ {0} /\ b <= n
      /\ b \in 1..Len(st) /\ b \in 1..Len(chunk) /\ ~(b > Len(chunk)) /\ b \in 1..(Len(chunk) + 1)
  BY <1>2, SeqFacts
<1>4. /\ f[b] = Step(chunk, f, b)
      /\ \A d \in 1..(n + 1) : f[d] \in Seq(Found)
  BY <1>2, <1>3 DEF Finds
<1>5. \A d, x, new : IsLeft(SubSeq(st, d, Len(st)), s, x, new) => x \in Nat
  <2>1. TAKE d, x, new
  <2>2. IsLeft(SubSeq(st, d, Len(st)), s, x, new) => x \in 0..Len(s)
    BY DEF IsLeft
  <2>3. Len(s) \in Nat
    BY SeqFacts
  <2> QED BY <2>2, <2>3
<1>6. p \in Nat
  BY <1>1, <1>5
<1>7. \A d \in (b + 1)..(n + 1) : d \in (b + 1)..(Len(st) + 1)
  BY <1>3
<1>8. n + 1 \in (b + 1)..(n + 1)
  BY <1>3
<1>9. CASE f[b] = << >>
  <2>1. PICK q, new : IsLeft(SubSeq(st, n + 1, Len(st)), s, q, new) /\ q >= p
    BY <1>1, <1>3, <1>7, <1>8, Onward
  <2>2. PICK g : OneByOne(s, p, q, << >>, g)
    BY OneByOneNone
  <2> QED BY <1>9, <2>1, <2>2
<1>10. ASSUME NEW d \in (b + 1)..(n + 1), f[b] = f[d]
       PROVE  \E q, new, g : /\ IsLeft(SubSeq(st, n + 1, Len(st)), s, q, new)
                             /\ q >= p
                             /\ OneByOne(s, p, q, f[b], g)
  <2>1. PICK x, more : IsLeft(SubSeq(st, d, Len(st)), s, x, more) /\ x >= p
    BY <1>1, <1>3, <1>7, Onward
  <2>2. PICK q, new, g : /\ IsLeft(SubSeq(st, n + 1, Len(st)), s, q, new)
                         /\ q >= x
                         /\ OneByOne(s, x, q, f[d], g)
    BY <1>1, <1>10, <2>1 DEF FindsSent
  <2>3. x \in Nat /\ q \in Nat
    BY <1>5, <2>1, <2>2
  <2>4. \A i \in (x + 1)..q : i \in (p + 1)..q
    BY <1>6, <2>1, <2>3
  <2>5. OneByOne(s, p, q, f[d], g)
    BY <2>2, <2>4 DEF OneByOne
  <2>6. q >= p
    BY <1>6, <2>1, <2>2, <2>3
  <2> QED BY <1>10, <2>2, <2>5, <2>6
<1>11. CASE Line(chunk, b) = Star /\ IsWhole(chunk, b) /\ f[b] = <<RequestAt(chunk, b)>> \o f[Behind(chunk, b)]
  <2> PICK r, d : r = RequestAt(chunk, b) /\ d = Behind(chunk, b)
    OBVIOUS
  <2>1. chunk[b] = "*" /\ b + 1 <= n
    BY <1>2, <1>3, <1>11, StarLine
  <2>2. /\ rest = << >>
        /\ IsAt(chunk, b, s[p + 1])
    BY <1>1, <2>1, StarIs
  <2>3. Near(s[p + 1], r)
    BY <1>2, <1>11, <2>2, RequestRead
  <2>4. d \in (b + 1)..(n + 1) /\ r \in Found
    BY <1>2, <1>3, <1>11, WholeIs
  <2>5. PICK x, more : IsLeft(SubSeq(st, d, Len(st)), s, x, more) /\ x > p
    BY <1>1, <1>3, <1>7, <2>2, <2>4, Onward
  <2>6. f[d] \in Seq(Found) /\ f[b] = <<r>> \o f[d]
    BY <1>3, <1>4, <1>11, <2>4
  <2>7. Full(f[d])
    <3>1. <<r>> \in Seq(Found) /\ Len(<<r>>) = 1 /\ Len(f[d]) \in Nat
      BY <2>4, <2>6, SeqFacts
    <3>2. /\ Len(f[b]) = 1 + Len(f[d])
          /\ \A i \in 1..(1 + Len(f[d])) : f[b][i] = IF i <= 1 THEN <<r>>[i] ELSE f[d][i - 1]
      BY <2>6, <3>1, ConcatProperties
    <3>3. ASSUME NEW i \in 1..Len(f[d]) PROVE f[d][i] # NoWords
      <4>1. i + 1 \in 1..(1 + Len(f[d])) /\ ~(i + 1 <= 1) /\ (i + 1) - 1 = i
        BY <3>1
      <4>2. f[b][i + 1] = f[d][i] /\ i + 1 \in 1..Len(f[b])
        BY <3>2, <4>1
      <4> QED BY <1>1, <4>2 DEF Full
    <3> QED BY <3>3 DEF Full
  <2>8. PICK q, new, g : /\ IsLeft(SubSeq(st, n + 1, Len(st)), s, q, new)
                         /\ q >= x
                         /\ OneByOne(s, x, q, f[d], g)
    BY <2>4, <2>5, <2>7 DEF FindsSent
  <2>9. x \in Nat /\ q \in Nat /\ p < x /\ x <= q /\ q >= p
    <3>1. x \in Nat /\ q \in Nat
      BY <1>5, <2>5, <2>8
    <3> QED BY <1>6, <2>5, <2>8, <3>1
  <2>10. \E h : OneByOne(s, p, q, <<r>> \o f[d], h)
    BY <1>6, <2>3, <2>4, <2>6, <2>8, <2>9, OneByOneMore
  <2> QED BY <2>6, <2>8, <2>9, <2>10
<1>12. CASE f[b] = <<NoWords>>
  <2>1. Len(f[b]) = 1 /\ f[b][1] = NoWords
    BY <1>12
  <2> QED BY <1>1, <2>1 DEF Full
<1>13. CASE f[b] = f[NextLine(chunk, b)]
  <2>1. NextLine(chunk, b) \in (b + 1)..(n + 1)
    BY <1>2, <1>3, NextLineIs
  <2> QED BY <1>10, <1>13, <2>1
<1>14. \/ f[b] = << >> \/ f[b] = <<NoWords>> \/ f[b] = f[NextLine(chunk, b)]
       \/ Line(chunk, b) = Star /\ IsWhole(chunk, b)
             /\ f[b] = <<RequestAt(chunk, b)>> \o f[Behind(chunk, b)]
  BY <1>2, <1>3, <1>4, StepIs
<1> QED BY <1>9, <1>11, <1>12, <1>13, <1>14

\* By going back from the end of the read.
LEMMA Backwards ==
    ASSUME NEW n \in Nat, NEW P, n + 1 \in P,
           \A b \in 1..n : (\A d \in (b + 1)..(n + 1) : d \in P) => b \in P
    PROVE  \A b \in 1..(n + 1) : b \in P
<1> DEFINE T == {m \in Nat : m <= n => \A b \in (n + 1 - m)..(n + 1) : b \in P}
<1>1. 0 \in T
  OBVIOUS
<1>2. ASSUME NEW m \in Nat, m \in T PROVE m + 1 \in T
  <2>1. SUFFICES ASSUME m + 1 <= n, NEW b \in (n + 1 - (m + 1))..(n + 1) PROVE b \in P
    OBVIOUS
  <2>2. \A d \in (n + 1 - m)..(n + 1) : d \in P
    BY <1>2, <2>1
  <2>3. CASE b = n + 1 - (m + 1)
    <3>1. b \in 1..n /\ \A d \in (b + 1)..(n + 1) : d \in (n + 1 - m)..(n + 1)
      BY <2>1, <2>3
    <3> QED BY <2>2, <3>1
  <2>4. CASE b # n + 1 - (m + 1)
    <3>1. b \in (n + 1 - m)..(n + 1)
      BY <2>1, <2>4
    <3> QED BY <2>2, <3>1
  <2> QED BY <2>3, <2>4
<1>3. n \in T
  <2> HIDE DEF T
  <2> QED BY <1>1, <1>2, SetInduction
<1>4. \A b \in (n + 1 - n)..(n + 1) : b \in P
  BY <1>3
<1> QED BY <1>4

\* Of a read without such letters that makes no request of no words, every request is
\* one of those that its client sent and of which nothing was read before.
LEMMA ReadSent ==
    ASSUME NEW s \in Seq(Requests), NEW st \in Seq(Tokens), NEW n, NEW chunk, IsRead(st, n, chunk),
           NoMarks(chunk), NEW p, NEW rest, IsLeft(st, s, p, rest), Full(Parsed(chunk))
    PROVE  \E q, new, g : /\ IsLeft(SubSeq(st, n + 1, Len(st)), s, q, new)
                          /\ q >= p
                          /\ OneByOne(s, p, q, Parsed(chunk), g)
<1>1. n \in 1..Len(st) /\ chunk \in Seq(Tokens) /\ Len(chunk) = n /\ Len(st) \in Nat /\ n \in Nat
  BY SeqFacts DEF IsRead
<1>2. PICK f : Finds(chunk, f) /\ Parsed(chunk) = f[LineStart(chunk, 1)]
  BY <1>1, FromIs DEF Finds
<1> DEFINE P == {b \in 1..(n + 1) : FindsSent(s, st, n, f, b)}
<1>3. n + 1 \in P
  <2>1. FindsSent(s, st, n, f, n + 1)
    <3>1. f[n + 1] = << >>
      <4>1. /\ f[n + 1] = Step(chunk, f, n + 1)
            /\ n + 1 > Len(chunk) /\ n + 1 \in 1..(Len(chunk) + 1)
        BY <1>1, <1>2 DEF Finds
      <4> QED BY <1>1, <4>1, StepIs
    <3>2. SUFFICES ASSUME NEW q, NEW new, IsLeft(SubSeq(st, n + 1, Len(st)), s, q, new)
                   PROVE  \E g : q >= q /\ OneByOne(s, q, q, << >>, g)
      BY <3>1 DEF FindsSent
    <3>3. q \in 0..Len(s) /\ Len(s) \in Nat
      BY <3>2, SeqFacts DEF IsLeft
    <3>4. q >= q
      BY <3>3
    <3> QED BY <3>4, OneByOneNone
  <2> QED BY <1>1, <2>1
<1>4. ASSUME NEW b \in 1..n, \A d \in (b + 1)..(n + 1) : d \in P PROVE b \in P
  <2>1. FindsSent(s, st, n, f, b)
    BY <1>2, <1>4, FindsSentStep
  <2>2. b \in 1..(n + 1)
    BY <1>1
  <2> QED BY <2>1, <2>2
<1>5. \A b \in 1..(n + 1) : b \in P
  <2> HIDE DEF P
  <2> QED BY <1>1, <1>3, <1>4, Backwards
<1> PICK b : b = LineStart(chunk, 1)
  OBVIOUS
<1>6. b \in 1..(n + 1)
  <2>1. 1 \in 1..(Len(chunk) + 1)
    BY <1>1
  <2> QED BY <1>1, <2>1, LineStartIs
<1>7. FindsSent(s, st, n, f, b)
  BY <1>5, <1>6
<1>8. PICK x, more : IsLeft(SubSeq(st, b, Len(st)), s, x, more) /\ x >= p
  <2>1. SubSeq(st, 1, Len(st)) = st
    BY SubSeqFull
  <2>2. CASE b = 1
    <3>1. p \in 0..Len(s) /\ Len(s) \in Nat
      BY SeqFacts DEF IsLeft
    <3>2. p >= p
      BY <3>1
    <3> QED BY <2>1, <2>2, <3>2
  <2>3. CASE b # 1
    <3>1. 1 \in 1..Len(st) /\ b \in (1 + 1)..(Len(st) + 1)
      BY <1>1, <1>6, <2>3
    <3> QED BY <2>1, <3>1, Onward
  <2> QED BY <2>2, <2>3
<1>9. PICK q, new, g : /\ IsLeft(SubSeq(st, n + 1, Len(st)), s, q, new)
                       /\ q >= x
                       /\ OneByOne(s, x, q, Parsed(chunk), g)
  BY <1>2, <1>7, <1>8 DEF FindsSent
<1>10. x \in Nat /\ q \in Nat /\ p \in Nat
  <2>1. x \in 0..Len(s) /\ q \in 0..Len(s) /\ p \in 0..Len(s) /\ Len(s) \in Nat
    BY <1>8, <1>9, SeqFacts DEF IsLeft
  <2> QED BY <2>1
<1>11. q >= p /\ \A i \in (x + 1)..q : i \in (p + 1)..q
  BY <1>8, <1>9, <1>10
<1>12. OneByOne(s, p, q, Parsed(chunk), g)
  BY <1>9, <1>11 DEF OneByOne
<1> QED BY <1>9, <1>11, <1>12

----------------------------------------------------------------------------
(* Reads that end where requests end *)

HasLetters(s) == \A i \in 1..Len(s) : \A j \in DOMAIN s[i].args : s[i].args[j] # << >>

EndsBetween(st, n) == n = Len(st) \/ st[n + 1] = "*"

\* Such a read has no star by itself: if its last byte were one, the request that
\* begins with it would go on behind.
LEMMA NotAlone ==
    ASSUME NEW s \in Seq(Requests), NEW st \in Seq(Tokens), NEW n, NEW chunk,
           IsRead(st, n, chunk), EndsBetween(st, n), NEW b \in 1..n, NEW p, NEW rest,
           IsLeft(SubSeq(st, b, Len(st)), s, p, rest)
    PROVE  Line(chunk, b) # <<"*">>
<1> SUFFICES ASSUME Line(chunk, b) = <<"*">> PROVE FALSE
  OBVIOUS
<1>1. /\ n \in 1..Len(st) /\ chunk \in Seq(Tokens) /\ Len(chunk) = n
      /\ \A i \in 1..n : chunk[i] = st[i]
  BY DEF IsRead
<1>2. /\ Len(st) \in Nat /\ n \in Nat /\ n <= Len(st) /\ b \in Nat \ {0} /\ b <= n
      /\ b \in 1..(Len(st) + 1) /\ b \in 1..(Len(chunk) + 1)
  BY <1>1, SeqFacts
<1> PICK e, y : e = LineEnd(chunk, b) /\ y = Line(chunk, b)
  OBVIOUS
<1>3. chunk[b] = "*"
  <2>1. e \in b..(Len(chunk) + 1) /\ Len(y) = e - b /\ \A i \in 1..(e - b) : y[i] = chunk[b + i - 1]
    <3>1. e \in b..(Len(chunk) + 1)
      BY <1>1, <1>2, NextLineIs
    <3>2. Len(y) = e - b /\ \A i \in 1..(e - b) : y[i] = chunk[b + i - 1]
      BY <1>1, <1>2, LineIs
    <3> QED BY <3>1, <3>2
  <2>2. Len(y) = 1 /\ y[1] = "*"
    OBVIOUS
  <2>3. 1 \in 1..(e - b) /\ b + 1 - 1 = b
    BY <1>2, <2>1, <2>2
  <2> QED BY <2>1, <2>2, <2>3
<1>4. CASE b + 1 <= n
  <2>1. IsAt(chunk, b, s[p + 1])
    BY <1>3, <1>4, StarIs
  <2>2. Line(chunk, b) = Star
    BY <1>1, <2>1, PlacesAre
  <2>3. Star # <<"*">>
    BY DEF Star
  <2> QED BY <2>2, <2>3
<1>5. CASE ~(b + 1 <= n)
  <2> PICK t, w, z : t = SubSeq(st, b, Len(st)) /\ w = Wire(s[p + 1]) /\ z = Bytes(s, p + 1)
    OBVIOUS
  <2>1. Begins(t, w, z)
    BY <1>3, StarBegins
  <2>2. /\ Len(w) \in Nat /\ Len(w) >= 6 /\ Len(z) \in Nat /\ Len(t) = Len(w) + Len(z)
        /\ \A i \in 1..Len(w) : t[i] = w[i]
        /\ \A i \in 2..Len(w) : w[i] # "*"
    BY <2>1 DEF Begins
  <2>3. Len(t) = Len(st) - b + 1 /\ \A i \in 1..Len(t) : t[i] = st[b + i - 1]
    BY <1>2, SuffixOf
  <2>4. n = b
    BY <1>2, <1>5
  <2>5. n # Len(st)
    BY <1>2, <2>2, <2>3, <2>4
  <2>6. 2 \in 1..Len(w) /\ 2 \in 2..Len(w) /\ 2 \in 1..Len(t) /\ b + 2 - 1 = n + 1
    BY <1>2, <2>2, <2>4
  <2>7. st[n + 1] # "*"
    BY <2>2, <2>3, <2>6, SMTT(30)
  <2> QED BY <2>5, <2>7 DEF EndsBetween
<1> QED BY <1>4, <1>5

LEMMA FullMore ==
    ASSUME NEW r \in Found, r # NoWords, NEW reqs \in Seq(Found), Full(reqs)
    PROVE  Full(<<r>> \o reqs)
<1> PICK n \in Nat : n = Len(reqs)
  BY SeqFacts
<1> PICK all : all = <<r>> \o reqs
  OBVIOUS
<1>1. /\ Len(all) = n + 1 /\ all[1] = r
      /\ \A i \in 1..(n + 1) : i # 1 => all[i] = reqs[i - 1]
  <2>1. <<r>> \in Seq(Found) /\ Len(<<r>>) = 1 /\ <<r>>[1] = r
    OBVIOUS
  <2>2. /\ Len(all) = 1 + n
        /\ \A i \in 1..(1 + n) : all[i] = IF i <= 1 THEN <<r>>[i] ELSE reqs[i - 1]
    BY <2>1, ConcatProperties
  <2> QED BY <2>1, <2>2
<1>2. ASSUME NEW i \in 1..(n + 1) PROVE all[i] # NoWords
  <2>1. CASE i = 1
    BY <1>1, <2>1
  <2>2. CASE i # 1
    <3>1. i - 1 \in 1..n
      BY <2>2
    <3>2. reqs[i - 1] # NoWords
      BY <3>1 DEF Full
    <3> QED BY <1>1, <2>2, <3>2
  <2> QED BY <2>1, <2>2
<1>3. Full(all)
  BY <1>1, <1>2 DEF Full
<1> QED BY <1>3

\* However the reads before it ended, a read that ends where a request ends makes no
\* request of no words, when it has no letter like a star or a dollar.
LEMMA ReadFull ==
    ASSUME NEW s \in Seq(Requests), NEW st \in Seq(Tokens), NEW n, NEW chunk,
           IsRead(st, n, chunk), NoMarks(chunk), EndsBetween(st, n), NEW p, NEW rest, IsLeft(st, s, p, rest)
    PROVE  Full(Parsed(chunk))
<1>1. /\ n \in 1..Len(st) /\ chunk \in Seq(Tokens) /\ Len(chunk) = n /\ Len(st) \in Nat /\ n \in Nat
      /\ n <= Len(st)
  BY SeqFacts DEF IsRead
<1>2. PICK f : Finds(chunk, f) /\ Parsed(chunk) = f[LineStart(chunk, 1)]
  BY <1>1, FromIs DEF Finds
<1>3. /\ \A b \in 1..(n + 1) : f[b] \in Seq(Found)
      /\ \A b \in 1..(n + 1) : f[b] = Step(chunk, f, b)
  BY <1>1, <1>2 DEF Finds
<1>4. ASSUME NEW b \in 1..n
      PROVE  \E q, new : IsLeft(SubSeq(st, b, Len(st)), s, q, new)
  <2>1. SubSeq(st, 1, Len(st)) = st
    BY SubSeqFull
  <2>2. CASE b = 1
    BY <2>1, <2>2
  <2>3. CASE b # 1
    <3>1. 1 \in 1..Len(st) /\ b \in (1 + 1)..(Len(st) + 1)
      BY <1>1, <2>3
    <3> QED BY <2>1, <3>1, Onward
  <2> QED BY <2>2, <2>3
<1>5. Full(<< >>)
  BY EmptySeq DEF Full
<1> DEFINE P == {b \in 1..(n + 1) : Full(f[b])}
<1>6. n + 1 \in P
  <2>1. /\ f[n + 1] = Step(chunk, f, n + 1)
        /\ n + 1 > Len(chunk) /\ n + 1 \in 1..(n + 1) /\ n + 1 \in 1..(Len(chunk) + 1)
    BY <1>1, <1>3
  <2>2. f[n + 1] = << >>
    BY <1>1, <2>1, StepIs
  <2> QED BY <1>5, <2>1, <2>2
<1>7. ASSUME NEW b \in 1..n, \A d \in (b + 1)..(n + 1) : d \in P PROVE b \in P
  <2>1. b \in 1..(n + 1) /\ ~(b > Len(chunk)) /\ b \in 1..Len(chunk) /\ b \in 1..(Len(chunk) + 1)
        /\ b <= Len(chunk)
    BY <1>1
  <2>2. PICK q, new : IsLeft(SubSeq(st, b, Len(st)), s, q, new)
    BY <1>4
  <2>3. Line(chunk, b) # <<"*">> /\ chunk[b] # AStar
    <3>1. Line(chunk, b) # <<"*">>
      BY <2>2, NotAlone
    <3> QED BY <2>1, <3>1 DEF NoMarks
  <2>4. \A d \in (b + 1)..(n + 1) : Full(f[d]) /\ f[d] \in Seq(Found)
    <3>1. \A d \in (b + 1)..(n + 1) : d \in 1..(n + 1)
      BY <2>1
    <3> QED BY <1>3, <1>7, <3>1
  <2>5. CASE Line(chunk, b) # Star
    <3>1. f[b] = f[NextLine(chunk, b)]
      BY <1>1, <1>3, <2>1, <2>3, <2>5, StepIs
    <3>2. NextLine(chunk, b) \in (b + 1)..(n + 1)
      BY <1>1, <2>1, NextLineIs
    <3> QED BY <2>1, <2>4, <3>1, <3>2
  <2>6. CASE Line(chunk, b) = Star /\ ~IsWhole(chunk, b)
    <3>1. f[b] = << >>
      BY <1>1, <1>3, <2>1, <2>3, <2>6, StepIs
    <3> QED BY <1>5, <2>1, <3>1
  <2>7. CASE Line(chunk, b) = Star /\ IsWhole(chunk, b)
    <3> PICK r, d : r = RequestAt(chunk, b) /\ d = Behind(chunk, b)
      OBVIOUS
    <3>1. f[b] = <<r>> \o f[d]
      BY <1>1, <1>3, <2>1, <2>3, <2>7, StepIs
    <3>2. d \in (b + 1)..(n + 1) /\ r \in Found
      BY <1>1, <2>1, <2>7, WholeIs
    <3>3. r # NoWords
      <4>1. chunk[b] = "*" /\ b + 1 <= n
        BY <1>1, <2>1, <2>7, StarLine
      <4>2. IsAt(chunk, b, s[q + 1]) /\ s[q + 1] \in Requests
        BY <2>2, <4>1, StarIs
      <4>3. Near(s[q + 1], r)
        BY <1>1, <2>7, <4>2, RequestRead
      <4>4. r.op \in Ops
        BY <4>2, <4>3, RequestIs DEF Near
      <4> QED BY <4>4 DEF NoWords, Request, Ops
    <3>4. Full(<<r>> \o f[d])
      BY <2>4, <3>2, <3>3, FullMore
    <3> QED BY <2>1, <3>1, <3>4
  <2> QED BY <2>5, <2>6, <2>7
<1>8. \A b \in 1..(n + 1) : b \in P
  <2> HIDE DEF P
  <2> QED BY <1>1, <1>6, <1>7, Backwards
<1>9. LineStart(chunk, 1) \in 1..(n + 1)
  <2>1. 1 \in 1..(Len(chunk) + 1)
    BY <1>1
  <2> QED BY <1>1, <2>1, LineStartIs
<1> QED BY <1>2, <1>8, <1>9

\* reqs are the requests of s behind the p-th, and left are the bytes of the others.
NextOnes(s, p, reqs, left) ==
    /\ p + Len(reqs) <= Len(s)
    /\ \A i \in 1..Len(reqs) : reqs[i] = s[p + i]
    /\ left = Bytes(s, p + Len(reqs))

\* From the place b on, where the request behind the p-th begins, all are found.
FindsAll(s, st, n, f, b) ==
    \A p \in 0..Len(s) :
        SubSeq(st, b, Len(st)) = Bytes(s, p) => NextOnes(s, p, f[b], SubSeq(st, n + 1, Len(st)))

LEMMA FindsAllStep ==
    ASSUME NEW s \in Seq(Requests), HasLetters(s), NEW st \in Seq(Tokens), NEW n, NEW chunk,
           IsRead(st, n, chunk), EndsBetween(st, n), NEW f, Finds(chunk, f), NEW b \in 1..n,
           \A d \in (b + 1)..(n + 1) : FindsAll(s, st, n, f, d)
    PROVE  FindsAll(s, st, n, f, b)
<1>1. SUFFICES ASSUME NEW p \in 0..Len(s), SubSeq(st, b, Len(st)) = Bytes(s, p)
               PROVE  NextOnes(s, p, f[b], SubSeq(st, n + 1, Len(st)))
  BY DEF FindsAll
<1> PICK t : t = SubSeq(st, b, Len(st))
  OBVIOUS
<1> PICK left : left = SubSeq(st, n + 1, Len(st))
  OBVIOUS
<1>2. /\ n \in 1..Len(st) /\ chunk \in Seq(Tokens) /\ Len(chunk) = n
      /\ \A i \in 1..n : chunk[i] = st[i]
  BY DEF IsRead
<1>3. /\ Len(st) \in Nat /\ n \in Nat /\ n <= Len(st) /\ b \in Nat \ {0} /\ b <= n
      /\ b \in 1..(Len(st) + 1) /\ b \in 1..(Len(chunk) + 1) /\ ~(b > Len(chunk))
      /\ Len(s) \in Nat /\ p \in Nat
  BY <1>2, SeqFacts
<1>4. /\ f[b] = Step(chunk, f, b)
      /\ \A d \in 1..(n + 1) : f[d] \in Seq(Found)
  BY <1>2, <1>3 DEF Finds
<1>5. /\ t \in Seq(Tokens) /\ Len(t) = Len(st) - b + 1
      /\ \A i \in 1..Len(t) : t[i] = st[b + i - 1]
  BY <1>3, SuffixOf
<1>6. p \in 0..(Len(s) - 1)
  <2>1. SUFFICES ASSUME p = Len(s) PROVE FALSE
    BY <1>3
  <2>2. Len(t) = 0
    BY <1>1, <2>1, BytesAre, EmptySeq
  <2> QED BY <1>3, <1>5, <2>2
<1> PICK w, y : w = Wire(s[p + 1]) /\ y = Bytes(s, p + 1)
  OBVIOUS
<1>7. s[p + 1] \in Requests /\ p + 1 \in 0..Len(s) /\ Begins(t, w, y)
  BY <1>1, <1>6, BytesBegin
<1>8. /\ Len(w) \in Nat /\ Len(w) >= 6 /\ Len(y) \in Nat
      /\ Len(t) = Len(w) + Len(y)
      /\ \A i \in 1..Len(w) : t[i] = w[i]
      /\ \A i \in 1..Len(y) : t[Len(w) + i] = y[i]
      /\ w[1] = "*"
      /\ \A i \in 2..Len(w) : w[i] # "*"
  BY <1>7 DEF Begins
<1>w. PICK lw \in Nat : lw = Len(w)
  BY <1>8
<1>y. PICK ly \in Nat : ly = Len(y)
  BY <1>8
<1>t. Len(t) = lw + ly /\ Len(st) - b + 1 = lw + ly /\ lw >= 6
  BY <1>5, <1>8, <1>w, <1>y
<1>a. b \in Nat \ {0} /\ n \in Nat /\ b <= n /\ Len(st) \in Nat /\ n <= Len(st)
  BY <1>3
<1>9. b + lw <= n + 1
  <2>1. SUFFICES ASSUME ~(b + lw <= n + 1) PROVE FALSE
    OBVIOUS
  <2>0. n + 1 - b + 1 \in 2..lw /\ n + 1 - b + 1 \in 1..lw /\ n + 1 - b + 1 \in 1..(lw + ly)
    BY <1>a, <1>t, <2>1
  <2>2. n + 1 - b + 1 \in 2..Len(w) /\ n + 1 - b + 1 \in 1..Len(w) /\ n + 1 - b + 1 \in 1..Len(t)
        /\ b + (n + 1 - b + 1) - 1 = n + 1
    BY <1>a, <1>t, <1>w, <2>0
  <2>3. n # Len(st)
    BY <1>a, <1>t, <2>1
  <2>4. st[n + 1] = w[n + 1 - b + 1]
    BY <1>5, <1>8, <2>2
  <2>5. st[n + 1] # "*"
    BY <1>8, <2>2, <2>4
  <2> QED BY <2>3, <2>5 DEF EndsBetween
<1>10. chunk[b] = "*" /\ b + 1 <= n
  <2>1. 1 \in 1..Len(w) /\ 1 \in 1..Len(t) /\ b + 1 - 1 = b /\ b + 1 <= n /\ b \in 1..n
    BY <1>9, <1>a, <1>t, <1>w, SMTT(30)
  <2>2. st[b] = w[1]
    BY <1>5, <1>8, <2>1, SMTT(30)
  <2> QED BY <1>2, <1>8, <2>1, <2>2
<1>11. IsAt(chunk, b, s[p + 1])
  <2>1. StarFree(<< >>)
    BY EmptySeq DEF StarFree
  <2>2. Bytes(s, p) \in Seq(Tokens)
    BY BytesAre
  <2>3. << >> \o Bytes(s, p) = Bytes(s, p)
    BY <2>2, ConcatEmptySeq
  <2>4. IsLeft(SubSeq(st, b, Len(st)), s, p, << >>)
    BY <1>1, <2>1, <2>3 DEF IsLeft
  <2> QED BY <1>10, <2>4, StarIs
<1>d. PICK d \in Nat : d = b + lw
  BY <1>a
<1>12. /\ IsWhole(chunk, b)
       /\ RequestAt(chunk, b) = s[p + 1]
       /\ Behind(chunk, b) = d
  <2>1. p + 1 \in 1..Len(s)
    BY <1>3, <1>6
  <2>2. \A i \in DOMAIN s[p + 1].args : s[p + 1].args[i] # << >>
    BY <2>1 DEF HasLetters
  <2>3. b + Len(Wire(s[p + 1])) <= Len(chunk) + 1
    BY <1>2, <1>9, <1>w
  <2>4. b + Len(Wire(s[p + 1])) = d
    BY <1>d, <1>w
  <2> QED BY <1>2, <1>11, <2>2, <2>3, <2>4, RequestAll
<1>13. f[b] = <<s[p + 1]>> \o f[d]
  <2>1. Line(chunk, b) = Star
    BY <1>2, <1>11, PlacesAre
  <2>2. Line(chunk, b) # <<"*">> /\ chunk[b] # AStar
    BY <1>10, <2>1 DEF Star, AStar
  <2> QED BY <1>2, <1>3, <1>4, <1>12, <2>1, <2>2, StepIs
<1>14. d \in (b + 1)..(n + 1) /\ d \in 1..(n + 1) /\ d \in b..(Len(st) + 1) /\ d \in 1..(Len(st) + 1)
  BY <1>9, <1>a, <1>d, <1>t
<1>15. SubSeq(st, d, Len(st)) = y
  <2> PICK u : u = SubSeq(st, d, Len(st))
    OBVIOUS
  <2>1. /\ u \in Seq(Tokens) /\ Len(u) = Len(st) - d + 1
        /\ \A i \in 1..Len(u) : u[i] = st[d + i - 1]
    BY <1>14, SuffixOf
  <2>2. y \in Seq(Tokens)
    BY <1>7, BytesAre
  <2>3. Len(u) = Len(y)
    BY <1>a, <1>d, <1>t, <1>y, <2>1
  <2>4. ASSUME NEW i \in 1..Len(u) PROVE u[i] = y[i]
    <3>1. i \in 1..Len(y) /\ Len(w) + i \in 1..Len(t) /\ b + (Len(w) + i) - 1 = d + i - 1
      <4>1. i \in 1..ly
        BY <1>y, <2>3
      <4>2. lw + i \in 1..(lw + ly) /\ b + (lw + i) - 1 = d + i - 1
        BY <1>a, <1>d, <4>1
      <4> QED BY <1>t, <1>w, <1>y, <4>1, <4>2
    <3>2. t[Len(w) + i] = y[i]
      BY <1>8, <3>1
    <3>3. t[Len(w) + i] = st[d + i - 1]
      BY <1>5, <3>1
    <3> QED BY <2>1, <3>2, <3>3
  <2> QED BY <2>1, <2>2, <2>3, <2>4, SeqEqual
<1> PICK q : q = p + 1
  OBVIOUS
<1>16. NextOnes(s, q, f[d], left)
  BY <1>7, <1>14, <1>15 DEF FindsAll
<1> PICK reqs : reqs = f[d]
  OBVIOUS
<1>17. reqs \in Seq(Found) /\ Len(reqs) \in Nat
  BY <1>4, <1>14, SeqFacts
<1>18. s[q] \in Found /\ f[b] = <<s[q]>> \o reqs
  <2>1. RequestAt(chunk, b) \in Found
    BY <1>2, <1>3, <1>12, WholeIs
  <2> QED BY <1>12, <1>13, <2>1
<1>19. /\ Len(f[b]) = 1 + Len(reqs)
       /\ \A i \in 1..(1 + Len(reqs)) : f[b][i] = IF i = 1 THEN s[q] ELSE reqs[i - 1]
  <2>1. <<s[q]>> \in Seq(Found) /\ Len(<<s[q]>>) = 1 /\ <<s[q]>>[1] = s[q]
    BY <1>18
  <2>2. /\ Len(f[b]) = 1 + Len(reqs)
        /\ \A i \in 1..(1 + Len(reqs)) : f[b][i] = IF i <= 1 THEN <<s[q]>>[i] ELSE reqs[i - 1]
    BY <1>17, <1>18, <2>1, ConcatProperties
  <2>3. \A i \in 1..(1 + Len(reqs)) : i <= 1 <=> i = 1
    BY <1>17
  <2> QED BY <2>1, <2>2, <2>3
<1>20. p + Len(f[b]) = q + Len(reqs)
  <2>1. PICK m \in Nat, k \in Nat : m = Len(reqs) /\ k = p
    BY <1>3, <1>17
  <2>2. Len(f[b]) = 1 + m /\ q = k + 1
    BY <1>19, <2>1
  <2>3. k + (1 + m) = (k + 1) + m
    OBVIOUS
  <2> QED BY <2>1, <2>2, <2>3
<1>21. ASSUME NEW i \in 1..Len(f[b]) PROVE f[b][i] = s[p + i]
  <2>1. CASE i = 1
    BY <1>17, <1>19, <2>1
  <2>2. CASE i # 1
    <3>1. i - 1 \in 1..Len(reqs) /\ q + (i - 1) = p + i
      BY <1>3, <1>17, <1>19, <2>2
    <3>2. f[b][i] = reqs[i - 1]
      BY <1>19, <2>2
    <3> QED BY <1>16, <3>1, <3>2 DEF NextOnes
  <2> QED BY <2>1, <2>2
<1>22. p + Len(f[b]) <= Len(s) /\ left = Bytes(s, p + Len(f[b]))
  BY <1>16, <1>20 DEF NextOnes
<1> QED BY <1>21, <1>22 DEF NextOnes

\* Of a client whose words have letters, a read that ends where a request ends is
\* taken for what it is.
LEMMA ReadAll ==
    ASSUME NEW s \in Seq(Requests), HasLetters(s), NEW st \in Seq(Tokens), NEW n, NEW chunk,
           IsRead(st, n, chunk), EndsBetween(st, n), NEW p \in 0..Len(s), st = Bytes(s, p)
    PROVE  NextOnes(s, p, Parsed(chunk), SubSeq(st, n + 1, Len(st)))
<1>1. /\ n \in 1..Len(st) /\ chunk \in Seq(Tokens) /\ Len(chunk) = n /\ Len(st) \in Nat /\ n \in Nat
      /\ Len(s) \in Nat /\ p \in Nat /\ \A i \in 1..n : chunk[i] = st[i]
  BY SeqFacts DEF IsRead
<1>2. PICK f : Finds(chunk, f) /\ Parsed(chunk) = f[LineStart(chunk, 1)]
  BY <1>1, FromIs DEF Finds
<1> DEFINE P == {b \in 1..(n + 1) : FindsAll(s, st, n, f, b)}
<1>3. n + 1 \in P
  <2>1. FindsAll(s, st, n, f, n + 1)
    <3>1. f[n + 1] = << >>
      <4>1. /\ f[n + 1] = Step(chunk, f, n + 1)
            /\ n + 1 > Len(chunk) /\ n + 1 \in 1..(Len(chunk) + 1)
        BY <1>1, <1>2 DEF Finds
      <4> QED BY <1>1, <4>1, StepIs
    <3>2. SUFFICES ASSUME NEW q \in 0..Len(s), NEW left, left = Bytes(s, q)
                   PROVE  NextOnes(s, q, << >>, left)
      BY <3>1 DEF FindsAll
    <3>3. Len(<< >>) = 0 /\ q + 0 = q /\ q <= Len(s)
      BY <1>1
    <3> QED BY <3>2, <3>3 DEF NextOnes
  <2> QED BY <1>1, <2>1
<1>4. ASSUME NEW b \in 1..n, \A d \in (b + 1)..(n + 1) : d \in P PROVE b \in P
  <2>1. FindsAll(s, st, n, f, b)
    BY <1>2, <1>4, FindsAllStep
  <2>2. b \in 1..(n + 1)
    BY <1>1
  <2> QED BY <2>1, <2>2
<1>5. \A b \in 1..(n + 1) : b \in P
  <2> HIDE DEF P
  <2> QED BY <1>1, <1>3, <1>4, Backwards
<1>6. p \in 0..(Len(s) - 1)
  <2>1. SUFFICES ASSUME p = Len(s) PROVE FALSE
    BY <1>1
  <2>2. Len(st) = 0
    BY <2>1, BytesAre, EmptySeq
  <2> QED BY <1>1, <2>2
<1>7. chunk[1] = "*"
  <2> PICK w, y : w = Wire(s[p + 1]) /\ y = Bytes(s, p + 1)
    OBVIOUS
  <2>1. Begins(st, w, y)
    BY <1>6, BytesBegin
  <2>2. Len(w) \in Nat /\ Len(w) >= 6 /\ (\A i \in 1..Len(w) : st[i] = w[i]) /\ w[1] = "*"
    BY <2>1 DEF Begins
  <2>3. 1 \in 1..Len(w) /\ 1 \in 1..n
    BY <1>1, <2>2
  <2> QED BY <1>1, <2>2, <2>3
<1>8. LineStart(chunk, 1) = 1
  <2>1. 1 \in 1..(Len(chunk) + 1) /\ chunk[1] \notin {"CR", "LF"}
    BY <1>1, <1>7
  <2> QED BY <1>1, <2>1, StartsHere
<1>9. FindsAll(s, st, n, f, 1)
  <2>1. 1 \in 1..(n + 1)
    BY <1>1
  <2> QED BY <1>5, <2>1
<1>10. SubSeq(st, 1, Len(st)) = st
  BY SubSeqFull
<1> QED BY <1>2, <1>8, <1>9, <1>10 DEF FindsAll

----------------------------------------------------------------------------
(* The tree *)

\* Words without the marks, which are those of the clients.
Letters == {w \in Seq(Tokens) : Clean(w)}

\* A request whose words are in W.
Known(d, W) ==
    /\ d.op \in Ops
    /\ DOMAIN d.args = 1..Arity(d.op)
    /\ \A i \in 1..Arity(d.op) : d.args[i] \in W

TreeOf(t, W) == \A k \in DOMAIN t : k \in W /\ t[k] \in W

\* What is taken for a request is one whose words are words, and the client may have
\* meant it.
LEMMA NearIs ==
    ASSUME NEW r \in Requests, NEW d \in Found, Near(r, d)
    PROVE  Known(d, Letters) /\ MayBe(r, d)
<1>1. /\ d.op = r.op
      /\ Len(d.args) = Len(r.args)
      /\ \A i \in 1..Len(r.args) :
            /\ Clean(d.args[i])
            /\ d.args[i] = r.args[i] \/ (i = Len(r.args) /\ IsPrefix(d.args[i], r.args[i]))
  BY DEF Near
<1>2. r.op \in Ops /\ Len(r.args) = Arity(r.op) /\ DOMAIN r.args = 1..Arity(r.op)
  BY RequestIs
<1>3. DOMAIN d.args = 1..Len(d.args)
  <2>1. d.args \in Seq(Seq(Tokens))
    BY DEF Found
  <2> QED BY <2>1
<1>4. Known(d, Letters)
  <2>1. \A i \in 1..Arity(d.op) : d.args[i] \in Letters
    BY <1>1, <1>2 DEF Letters, Clean
  <2> QED BY <1>1, <1>2, <1>3, <2>1 DEF Known
<1>5. MayBe(r, d)
  BY <1>1, <1>2 DEF MayBe
<1> QED BY <1>4, <1>5

\* A request on a tree with words of W.
LEMMA StoredType ==
    ASSUME NEW W, << >> \in W, NEW t, TreeOf(t, W), NEW d, Known(d, W)
    PROVE  TreeOf(Stored(t, d), W)
<1>1. ASSUME NEW k, NEW v, k \in W, v \in W PROVE TreeOf(With(t, k, v), W)
  BY <1>1 DEF TreeOf, With
<1>3. d.op \in Ops /\ \A i \in 1..Arity(d.op) : d.args[i] \in W
  BY DEF Known
<1>4. CASE d.op = "SET"
  <2>1. Arity(d.op) = 2 /\ Stored(t, d) = With(t, d.args[1], d.args[2])
    BY <1>4 DEF Arity, Stored
  <2>2. d.args[1] \in W /\ d.args[2] \in W
    <3>1. 1 \in 1..Arity(d.op) /\ 2 \in 1..Arity(d.op)
      BY <2>1
    <3> QED BY <1>3, <3>1
  <2> QED BY <1>1, <2>1, <2>2
<1>5. CASE d.op = "DEL"
  <2>1. Arity(d.op) = 1 /\ Stored(t, d) = With(t, d.args[1], << >>)
    BY <1>5 DEF Arity, Stored
  <2>2. d.args[1] \in W
    <3>1. 1 \in 1..Arity(d.op)
      BY <2>1
    <3> QED BY <1>3, <3>1
  <2> QED BY <1>1, <2>1, <2>2
<1>6. CASE d.op = "GET"
  <2>1. Stored(t, d) = t
    BY <1>6 DEF Stored
  <2> QED BY <2>1
<1> QED BY <1>3, <1>4, <1>5, <1>6 DEF Ops

LEMMA AllStoredType ==
    ASSUME NEW W, << >> \in W, NEW t, TreeOf(t, W), NEW reqs \in Seq(Found),
           \A i \in 1..Len(reqs) : Known(reqs[i], W)
    PROVE  TreeOf(AllStored(t, reqs), W)
<1> PICK n \in Nat : n = Len(reqs)
  BY SeqFacts
<1> DEFINE Next1(a, i) == IF i = 0 THEN t ELSE Stored(a[i - 1], reqs[i])
           T == {m \in Nat : \E a : a = [i \in 0..m |-> Next1(a, i)]}
           Rec(a) == a = [i \in 0..Len(reqs) |-> IF i = 0 THEN t ELSE Stored(a[i - 1], reqs[i])]
<1>1. 0 \in T
  <2> PICK a : a = [i \in 0..0 |-> t]
    OBVIOUS
  <2>1. a = [i \in 0..0 |-> Next1(a, i)]
    OBVIOUS
  <2> QED BY <2>1
<1>2. ASSUME NEW m \in Nat, m \in T PROVE m + 1 \in T
  <2>1. PICK a : a = [i \in 0..m |-> Next1(a, i)]
    BY <1>2
  <2> PICK x : x = Next1(a, m + 1)
    OBVIOUS
  <2> PICK h : h = [i \in 0..(m + 1) |-> IF i = m + 1 THEN x ELSE a[i]]
    OBVIOUS
  <2>2. \A i \in 0..m : i \in 0..(m + 1) /\ i # m + 1 /\ h[i] = a[i]
    OBVIOUS
  <2>3. ASSUME NEW i \in 0..(m + 1) PROVE h[i] = Next1(h, i)
    <3>1. i # 0 => i - 1 \in 0..m
      OBVIOUS
    <3>2. Next1(h, i) = Next1(a, i)
      BY <2>2, <3>1
    <3> HIDE DEF Next1
    <3>3. CASE i = m + 1
      BY <3>2, <3>3
    <3>4. CASE i # m + 1
      <4>1. i \in 0..m
        BY <3>4
      <4>2. a[i] = Next1(a, i)
        BY <2>1, <4>1
      <4> QED BY <2>2, <3>2, <4>1, <4>2
    <3> QED BY <3>3, <3>4
  <2> HIDE DEF Next1
  <2>4. h = [i \in 0..(m + 1) |-> Next1(h, i)]
    BY <2>3
  <2> QED BY <2>4
<1>3. n \in T
  <2> HIDE DEF T
  <2> QED BY <1>1, <1>2, SetInduction
<1>4. \E a : Rec(a)
  BY <1>3
<1>5. Rec(CHOOSE a : Rec(a))
  <2> HIDE DEF Rec
  <2> QED BY <1>4
<1>6. AllStored(t, reqs) = (CHOOSE a : Rec(a))[Len(reqs)]
  BY DEF AllStored
<1> HIDE DEF Rec
<1> PICK a : a = CHOOSE b : Rec(b)
  OBVIOUS
<1>7. \A i \in 0..n : a[i] = IF i = 0 THEN t ELSE Stored(a[i - 1], reqs[i])
  BY <1>5 DEF Rec
<1> DEFINE U == {m \in Nat : m <= n => TreeOf(a[m], W)}
<1>8. 0 \in U
  BY <1>7
<1>9. ASSUME NEW m \in Nat, m \in U PROVE m + 1 \in U
  <2>1. SUFFICES ASSUME m + 1 <= n PROVE TreeOf(a[m + 1], W)
    OBVIOUS
  <2>2. m + 1 \in 0..n /\ m + 1 # 0 /\ m + 1 \in 1..n /\ (m + 1) - 1 = m /\ m <= n
    BY <2>1
  <2>3. TreeOf(a[m], W) /\ Known(reqs[m + 1], W)
    BY <1>9, <2>2
  <2>4. a[m + 1] = Stored(a[m], reqs[m + 1])
    BY <1>7, <2>2
  <2> QED BY <2>3, <2>4, StoredType
<1>10. n \in U
  <2> HIDE DEF U
  <2> QED BY <1>8, <1>9, SetInduction
<1> QED BY <1>6, <1>10

\* What any read may give: requests with all of their words, and those without words.
Readable == {r \in Found : r = NoWords \/ Known(r, Seq(Tokens))}

\* However it ends and whatever the words are.
LEMMA ReadKnown ==
    ASSUME NEW s \in Seq(Requests), NEW st \in Seq(Tokens), NEW n, NEW chunk,
           IsRead(st, n, chunk), NEW p, NEW rest, IsLeft(st, s, p, rest)
    PROVE  Parsed(chunk) \in Seq(Readable)
<1>1. /\ n \in 1..Len(st) /\ chunk \in Seq(Tokens) /\ Len(chunk) = n /\ Len(st) \in Nat /\ n \in Nat
      /\ n <= Len(st)
  BY SeqFacts DEF IsRead
<1>2. PICK f : Finds(chunk, f) /\ Parsed(chunk) = f[LineStart(chunk, 1)]
  BY <1>1, FromIs DEF Finds
<1>3. \A b \in 1..(n + 1) : f[b] = Step(chunk, f, b)
  BY <1>1, <1>2 DEF Finds
<1>4. ASSUME NEW b \in 1..n
      PROVE  \E q, new : IsLeft(SubSeq(st, b, Len(st)), s, q, new)
  <2>1. SubSeq(st, 1, Len(st)) = st
    BY SubSeqFull
  <2>2. CASE b = 1
    BY <2>1, <2>2
  <2>3. CASE b # 1
    <3>1. 1 \in 1..Len(st) /\ b \in (1 + 1)..(Len(st) + 1)
      BY <1>1, <2>3
    <3> QED BY <2>1, <3>1, Onward
  <2> QED BY <2>2, <2>3
<1>5. << >> \in Seq(Readable) /\ <<NoWords>> \in Seq(Readable)
  <2>1. << >> \in Seq(Seq(Tokens))
    BY EmptySeq
  <2>2. NoWords \in Readable
    BY <2>1 DEF NoWords, Request, Found, Readable
  <2> QED BY <2>2, EmptySeq
<1> DEFINE P == {b \in 1..(n + 1) : f[b] \in Seq(Readable)}
<1>6. n + 1 \in P
  <2>1. /\ f[n + 1] = Step(chunk, f, n + 1)
        /\ n + 1 > Len(chunk) /\ n + 1 \in 1..(n + 1) /\ n + 1 \in 1..(Len(chunk) + 1)
    BY <1>1, <1>3
  <2>2. f[n + 1] = << >>
    BY <1>1, <2>1, StepIs
  <2> QED BY <1>5, <2>1, <2>2
<1>7. ASSUME NEW b \in 1..n, \A d \in (b + 1)..(n + 1) : d \in P PROVE b \in P
  <2>1. b \in 1..(n + 1) /\ ~(b > Len(chunk)) /\ b \in 1..Len(chunk) /\ b \in 1..(Len(chunk) + 1)
        /\ b <= Len(chunk)
    BY <1>1
  <2>2. \A d \in (b + 1)..(n + 1) : f[d] \in Seq(Readable)
    BY <1>7
  <2>3. NextLine(chunk, b) \in (b + 1)..(n + 1)
    BY <1>1, <2>1, NextLineIs
  <2>4. CASE Line(chunk, b) = Star /\ IsWhole(chunk, b)
             /\ f[b] = <<RequestAt(chunk, b)>> \o f[Behind(chunk, b)]
    <3> PICK r, d : r = RequestAt(chunk, b) /\ d = Behind(chunk, b)
      OBVIOUS
    <3>1. d \in (b + 1)..(n + 1) /\ r \in Found
      BY <1>1, <2>1, <2>4, WholeIs
    <3>2. PICK q, new : IsLeft(SubSeq(st, b, Len(st)), s, q, new)
      BY <1>4
    <3>3. chunk[b] = "*" /\ b + 1 <= n
      BY <1>1, <2>1, <2>4, StarLine
    <3>4. s[q + 1] \in Requests /\ IsAt(chunk, b, s[q + 1])
      BY <3>2, <3>3, StarIs
    <3>5. Op(chunk, b) = s[q + 1].op
      <4>1. NameAt(chunk, b) <= Len(chunk)
        BY <2>4 DEF IsWhole
      <4> PICK sent : sent = s[q + 1]
        OBVIOUS
      <4>2. chunk \in Seq(Tokens) /\ IsAt(chunk, b, sent)
        BY <1>1, <3>4
      <4>3. NameAt(chunk, b) = b + 2 /\ (b + 2 <= Len(chunk) => Op(chunk, b) = sent.op)
        BY ONLY <4>2, PlacesAre, Zenon
      <4> QED BY <4>1, <4>3
    <3>6. Known(r, Seq(Tokens))
      <4> PICK o : o = s[q + 1].op
        OBVIOUS
      <4>1. /\ r.op = o /\ Len(r.args) = Arity(o) /\ r.args \in Seq(Seq(Tokens))
        <5> PICK sent : sent = s[q + 1]
          OBVIOUS
        <5>1. sent \in Requests /\ Op(chunk, b) = sent.op /\ IsWhole(chunk, b) /\ o = sent.op
          BY <2>4, <3>4, <3>5
        <5>2. r.op = sent.op /\ Len(r.args) = Arity(sent.op) /\ r.args \in Seq(Seq(Tokens))
          BY <1>1, <2>1, <5>1, TakenFor
        <5> QED BY <5>1, <5>2
      <4>2. o \in Ops
        BY <3>4, RequestIs
      <4>3. DOMAIN r.args = 1..Arity(o) /\ \A i \in 1..Arity(o) : r.args[i] \in Seq(Tokens)
        BY <4>1, SeqFacts
      <4> QED BY <4>1, <4>2, <4>3 DEF Known
    <3>7. r \in Readable
      BY <3>1, <3>6 DEF Readable
    <3>8. <<r>> \in Seq(Readable) /\ f[d] \in Seq(Readable)
      BY <2>2, <3>1, <3>7
    <3>9. <<r>> \o f[d] \in Seq(Readable)
      BY <3>8, ConcatProperties
    <3> QED BY <2>1, <2>4, <3>9
  <2>5. \/ f[b] = << >> \/ f[b] = <<NoWords>> \/ f[b] = f[NextLine(chunk, b)]
        \/ Line(chunk, b) = Star /\ IsWhole(chunk, b)
              /\ f[b] = <<RequestAt(chunk, b)>> \o f[Behind(chunk, b)]
    BY <1>1, <1>3, <2>1, StepIs
  <2> QED BY <1>5, <2>1, <2>2, <2>3, <2>4, <2>5
<1>8. \A b \in 1..(n + 1) : b \in P
  <2> HIDE DEF P
  <2> QED BY <1>1, <1>6, <1>7, Backwards
<1>9. LineStart(chunk, 1) \in 1..(n + 1)
  <2>1. 1 \in 1..(Len(chunk) + 1)
    BY <1>1
  <2> QED BY <1>1, <2>1, LineStartIs
<1> QED BY <1>2, <1>8, <1>9

----------------------------------------------------------------------------
(* The inductive invariant *)

\* What is stored in each variable.
DpdkTypes ==
    /\ asked \in [Clients -> Seq(Requests)]
    /\ stream \in [Clients -> Seq(Tokens)]
    /\ cuts \in Nat
    /\ did \in [Clients -> Seq([req : Found, answer : {"OK", "value"}])]
    /\ \A c \in Clients : \A i \in 1..Len(did[c]) : Known(did[c][i].req, Seq(Tokens))
    /\ TreeOf(tree, Seq(Tokens))
    /\ (\A c \in Clients : Plain(c)) => TreeOf(tree, Letters)
    /\ server \in {"up", "undefined"}
    /\ tidy \subseteq Clients

\* What is still to be read of a client is the rest of a request and the requests
\* behind it.
Left(c) == \E p, rest : IsLeft(stream[c], asked[c], p, rest)

\* What was executed for a client was sent by it, in this order, and is no longer to
\* be read.
Sent(c) ==
    \E p, rest, g :
        /\ IsLeft(stream[c], asked[c], p, rest)
        /\ g \in [1..Len(did[c]) -> 1..p]
        /\ \A i, j \in 1..Len(did[c]) : i < j => g[i] < g[j]
        /\ \A i \in 1..Len(did[c]) : Near(asked[c][g[i]], did[c][i].req)

\* Of a tidy client, all requests that were read are executed.
Tidy(c) ==
    /\ HasLetters(asked[c])
    /\ Len(did[c]) <= Len(asked[c])
    /\ \A i \in 1..Len(did[c]) : did[c][i].req = asked[c][i]
    /\ stream[c] = Bytes(asked[c], Len(did[c]))

DpdkInv ==
    /\ DpdkTypes
    /\ \A c \in Clients : Left(c)
    /\ \A c \in Clients : Plain(c) => Sent(c) /\ NoMarks(stream[c])
    /\ \A c \in tidy : Tidy(c)

LEMMA AllIsLeft ==
    ASSUME NEW s \in Seq(Requests), NEW p \in 0..Len(s)
    PROVE  IsLeft(Bytes(s, p), s, p, << >>)
<1>1. Bytes(s, p) \in Seq(Tokens)
  BY BytesAre
<1>2. << >> \o Bytes(s, p) = Bytes(s, p)
  BY <1>1, ConcatEmptySeq
<1>3. StarFree(<< >>)
  BY EmptySeq DEF StarFree
<1> QED BY <1>2, <1>3 DEF IsLeft

\* Letters and marks that are no such letters.
PlainTokens == Tokens \ {AStar, ADollar}

LEMMA PlainSeq ==
    ASSUME NEW w \in Seq(Tokens)
    PROVE  /\ Range(w) \cap {AStar, ADollar} = {} => w \in Seq(PlainTokens)
           /\ w \in Seq(PlainTokens) => NoMarks(w)
<1>1. DOMAIN w = 1..Len(w) /\ Len(w) \in Nat /\ \A i \in 1..Len(w) : w[i] \in Tokens
  BY SeqFacts
<1>2. ASSUME Range(w) \cap {AStar, ADollar} = {} PROVE w \in Seq(PlainTokens)
  <2>1. \A i \in 1..Len(w) : w[i] \in PlainTokens
    BY <1>1, <1>2 DEF Range, PlainTokens
  <2>2. w \in [1..Len(w) -> PlainTokens]
    BY <1>1, <2>1
  <2> QED BY <1>1, <2>2
<1>3. ASSUME w \in Seq(PlainTokens) PROVE NoMarks(w)
  <2>1. \A i \in 1..Len(w) : w[i] \in PlainTokens
    BY <1>3, SeqFacts
  <2> QED BY <2>1 DEF NoMarks, PlainTokens
<1> QED BY <1>2, <1>3

\* Requests with plain words are plain bytes.
LEMMA PlainBytes ==
    ASSUME NEW s \in Seq(Requests),
           \A i \in 1..Len(s) : \A j \in DOMAIN s[i].args : s[i].args[j] \in Seq(PlainTokens)
    PROVE  NoMarks(Bytes(s, 0))
<1>1. Marks \subseteq PlainTokens /\ PlainTokens \subseteq Tokens
  BY DEF PlainTokens, Tokens, Marks, Ops, AStar, ADollar
<1>2. ASSUME NEW w \in Seq(PlainTokens) PROVE WordBytes(w) \in Seq(PlainTokens)
  <2>1. (IF w = << >> THEN "$0" ELSE "$") \in PlainTokens /\ {"CR", "LF"} \subseteq PlainTokens
    BY <1>1 DEF Marks
  <2>2. <<IF w = << >> THEN "$0" ELSE "$">> \in Seq(PlainTokens) /\ <<"CR", "LF">> \in Seq(PlainTokens)
    BY <2>1
  <2>3. <<IF w = << >> THEN "$0" ELSE "$">> \o w \in Seq(PlainTokens)
    BY <2>2, ConcatProperties
  <2>4. (<<IF w = << >> THEN "$0" ELSE "$">> \o w) \o <<"CR", "LF">> \in Seq(PlainTokens)
    BY <2>2, <2>3, ConcatProperties
  <2> QED BY <2>4 DEF WordBytes
<1>3. ASSUME NEW i \in 1..Len(s) PROVE Wire(s[i]) \in Seq(PlainTokens)
  <2> PICK r : r = s[i]
    OBVIOUS
  <2>1. r \in Requests /\ r.op \in Ops /\ DOMAIN r.args = 1..Arity(r.op)
    <3>1. r \in Requests
      BY SeqFacts
    <3> QED BY <3>1, RequestIs
  <2>2. WordBytes(r.args[1]) \in Seq(PlainTokens)
    <3>1. 1 \in DOMAIN r.args
      BY <2>1 DEF Arity
    <3> QED BY <1>2, <3>1
  <2>3. r.op = "SET" => WordBytes(r.args[2]) \in Seq(PlainTokens)
    <3>1. r.op = "SET" => 2 \in DOMAIN r.args
      BY <2>1 DEF Arity
    <3> QED BY <1>2, <3>1
  <2> PICK b : b = IF r.op = "SET" THEN WordBytes(r.args[1]) \o WordBytes(r.args[2])
                                   ELSE WordBytes(r.args[1])
    OBVIOUS
  <2>4. b \in Seq(PlainTokens)
    <3>1. r.op = "SET" => WordBytes(r.args[1]) \o WordBytes(r.args[2]) \in Seq(PlainTokens)
      BY <2>2, <2>3, ConcatProperties
    <3> QED BY <2>2, <3>1
  <2>5. <<"*", "n", r.op>> \in Seq(PlainTokens)
    <3>1. "*" \in PlainTokens /\ "n" \in PlainTokens /\ r.op \in PlainTokens
      BY <1>1, <2>1 DEF Marks
    <3> QED BY <3>1
  <2>6. <<"*", "n", r.op>> \o b \in Seq(PlainTokens)
    BY <2>4, <2>5, ConcatProperties
  <2> QED BY <2>1, <2>6, WireIs
<1>4. Len(s) \in Nat /\ 0 \in 0..Len(s)
  BY SeqFacts
<1>5. Wires(s, 0) \in Seq(Seq(PlainTokens))
  <2>1. Len(s) - 0 = Len(s) /\ \A i \in 1..Len(s) : 0 + i = i
    BY <1>4
  <2>2. Wires(s, 0) = [i \in 1..Len(s) |-> Wire(s[i])]
    BY <2>1 DEF Wires
  <2> QED BY <1>3, <1>4, <2>2
<1>6. Bytes(s, 0) \in Seq(PlainTokens)
  BY <1>5, FlattenType DEF Bytes
<1>7. Bytes(s, 0) \in Seq(Tokens)
  BY <1>4, BytesAre
<1> QED BY <1>6, <1>7, PlainSeq

LEMMA InvInit == Init => DpdkInv
<1> SUFFICES ASSUME Init PROVE DpdkInv
  OBVIOUS
<1>1. ConnInit /\ server = "up" /\ tidy = {c \in Clients : << >> \notin Words(c)}
  BY DEF Init
<1>2. /\ asked \in [Clients -> Seq(Requests)]
      /\ stream = [c \in Clients |-> Bytes(asked[c], 0)]
  BY <1>1, AskedType
<1>3. \A c \in Clients : /\ asked[c] \in Seq(Requests) /\ Len(asked[c]) \in Nat
                         /\ DOMAIN asked[c] = 1..Len(asked[c])
                         /\ stream[c] = Bytes(asked[c], 0)
                         /\ 0 \in 0..Len(asked[c])
  <2>1. TAKE c \in Clients
  <2> PICK s : s = asked[c]
    OBVIOUS
  <2>2. s \in Seq(Requests) /\ stream[c] = Bytes(s, 0)
    BY <1>2
  <2>3. Len(s) \in Nat /\ DOMAIN s = 1..Len(s)
    BY <2>2
  <2>4. 0 \in 0..Len(s)
    BY <2>3
  <2> QED BY <2>2, <2>3, <2>4
<1>4. cuts = 0 /\ did = [c \in Clients |-> << >>]
  BY <1>1 DEF ConnInit
<1>5. \A c \in Clients : did[c] = << >> /\ Len(did[c]) = 0
  BY <1>4
<1>6. stream \in [Clients -> Seq(Tokens)]
  BY <1>2, <1>3, BytesAre
<1>7. did \in [Clients -> Seq([req : Found, answer : {"OK", "value"}])]
  <2>1. << >> \in Seq([req : Found, answer : {"OK", "value"}])
    BY EmptySeq
  <2> QED BY <1>4, <2>1
<1>8. TreeOf(tree, Letters) /\ TreeOf(tree, Seq(Tokens))
  <2>1. PICK K \in SUBSET Keys : tree \in [K -> Values \ {<< >>}]
    <3>1. tree \in Recovered
      BY <1>1 DEF ConnInit
    <3> QED BY <3>1, WordAssumption
  <2>2. ASSUME NEW x \in Keys \cup Values PROVE x \in Letters
    <3>1. x \in Seq(STRING) /\ Range(x) \cap Marks = {}
      BY WordAssumption
    <3>2. x \in Seq(Tokens)
      BY <3>1, SeqMonotonic DEF Tokens
    <3>3. \A i \in 1..Len(x) : x[i] \in Range(x)
      BY <3>2 DEF Range
    <3> QED BY <3>1, <3>2, <3>3 DEF Clean, Letters
  <2>3. Letters \subseteq Seq(Tokens)
    BY DEF Letters
  <2> QED BY <2>1, <2>2, <2>3 DEF TreeOf
<1>9. ASSUME NEW c \in Clients PROVE Sent(c)
  <2>1. IsLeft(stream[c], asked[c], 0, << >>)
    BY <1>3, AllIsLeft
  <2> PICK g : g = [i \in 1..0 |-> 0]
    OBVIOUS
  <2>2. 1..Len(did[c]) = {} /\ g \in [1..Len(did[c]) -> 1..0]
    <3>1. Len(did[c]) = 0
      BY <1>5
    <3> QED BY <3>1
  <2>3. /\ \A i, j \in 1..Len(did[c]) : i < j => g[i] < g[j]
        /\ \A i \in 1..Len(did[c]) : Near(asked[c][g[i]], did[c][i].req)
    BY <2>2
  <2> QED BY <2>1, <2>2, <2>3 DEF Sent
<1>10. ASSUME NEW c \in tidy PROVE Tidy(c)
  <2>1. c \in Clients /\ \A i \in DOMAIN asked[c] : << >> \notin Range(asked[c][i].args)
    BY <1>1 DEF Words
  <2>2. HasLetters(asked[c])
    <3>1. ASSUME NEW i \in 1..Len(asked[c]), NEW j \in DOMAIN asked[c][i].args
          PROVE  asked[c][i].args[j] # << >>
      <4>1. << >> \notin Range(asked[c][i].args)
        BY <1>3, <2>1
      <4> QED BY <4>1 DEF Range
    <3> QED BY <3>1 DEF HasLetters
  <2>3. Len(did[c]) <= Len(asked[c]) /\ stream[c] = Bytes(asked[c], Len(did[c]))
    BY <1>3, <1>5, <2>1
  <2> QED BY <1>5, <2>1, <2>2, <2>3 DEF Tidy
<1>11. tidy \subseteq Clients
  BY <1>1
<1>12. \A c \in Clients : \A i \in 1..Len(did[c]) : Known(did[c][i].req, Seq(Tokens))
  BY <1>5
<1>13. DpdkTypes
  BY <1>1, <1>2, <1>4, <1>6, <1>7, <1>8, <1>11, <1>12 DEF DpdkTypes
<1>14. \A c \in Clients : Left(c)
  BY <1>9 DEF Sent, Left
<1>15. ASSUME NEW c \in Clients, Plain(c) PROVE NoMarks(stream[c])
  <2> PICK s : s = asked[c]
    OBVIOUS
  <2>1. s \in Seq(Requests) /\ DOMAIN s = 1..Len(s) /\ stream[c] = Bytes(s, 0)
    BY <1>3
  <2>2. ASSUME NEW i \in 1..Len(s), NEW j \in DOMAIN s[i].args
        PROVE  s[i].args[j] \in Seq(PlainTokens)
    <3>1. s[i].args[j] \in Words(c)
      BY <2>1 DEF Words, Range
    <3>2. Range(s[i].args[j]) \cap {AStar, ADollar} = {}
      BY <1>15, <3>1 DEF Plain
    <3>3. s[i].args[j] \in Seq(Tokens)
      BY <2>1, SeqFacts, RequestIs
    <3> QED BY <3>2, <3>3, PlainSeq
  <2> QED BY <2>1, <2>2, PlainBytes
<1> QED BY <1>9, <1>10, <1>13, <1>14, <1>15 DEF DpdkInv

\* What a step of the server for c does.
LEMMA ServeIs ==
    ASSUME DpdkTypes, NEW c \in Clients, Serve(c)
    PROVE  \E n, reqs :
              /\ IsRead(stream[c], n, SubSeq(stream[c], 1, n))
              /\ reqs = Parsed(SubSeq(stream[c], 1, n)) /\ reqs \in Seq(Found)
              /\ asked' = asked
              /\ stream' = [stream EXCEPT ![c] = SubSeq(stream[c], n + 1, Len(stream[c]))]
              /\ stream' \in [Clients -> Seq(Tokens)]
              /\ cuts' \in Nat
              /\ cuts' = cuts + 1 \/ EndsBetween(stream[c], n)
              /\ server = "up"
              /\ \/ /\ server' = "undefined" /\ UNCHANGED <<tree, did>>
                    /\ ~Full(reqs)
                 \/ /\ server' = server
                    /\ Full(reqs)
                    /\ tree' = AllStored(tree, reqs)
                    /\ did' = [did EXCEPT ![c] = did[c] \o Answered(reqs)]
              /\ \/ tidy' = tidy \ {c}
                 \/ tidy' = tidy /\ EndsBetween(stream[c], n)
<1> PICK st : st = stream[c]
  OBVIOUS
<1>1. PICK n \in Reads(c) :
         LET reqs == Parsed(SubSeq(stream[c], 1, n))
         IN  /\ Taken(c, n)
             /\ IF NoWords \in Range(reqs)
                THEN server' = "undefined" /\ UNCHANGED <<tree, did>>
                ELSE /\ tree' = AllStored(tree, reqs)
                     /\ did' = [did EXCEPT ![c] = @ \o Answered(reqs)]
                     /\ UNCHANGED server
             /\ tidy' = IF cuts' = cuts THEN tidy ELSE tidy \ {c}
  BY DEF Serve
<1>u. server = "up"
  BY DEF Serve
<1> PICK chunk : chunk = SubSeq(st, 1, n)
  OBVIOUS
<1> PICK reqs : reqs = Parsed(chunk)
  OBVIOUS
<1>2. st \in Seq(Tokens) /\ Len(st) \in Nat /\ n \in 1..Len(st)
  <2>1. st \in Seq(Tokens)
    BY DEF DpdkTypes
  <2> QED BY <2>1, SeqFacts DEF Reads
<1>3. IsRead(st, n, chunk)
  <2>1. n \in Int /\ 1 <= n /\ \A i \in 1..n : st[i] \in Tokens
    BY <1>2, SeqFacts
  <2>2. /\ chunk \in Seq(Tokens)
        /\ Len(chunk) = IF 1 <= n THEN n - 1 + 1 ELSE 0
        /\ \A i \in 1..(n - 1 + 1) : chunk[i] = st[1 + i - 1]
    BY <2>1, SubSeqProperties
  <2>3. n - 1 + 1 = n /\ \A i \in 1..n : 1 + i - 1 = i
    BY <1>2
  <2> QED BY <1>2, <2>1, <2>2, <2>3 DEF IsRead
<1>4. chunk \in Seq(Tokens) /\ Len(chunk) = n
  BY <1>3 DEF IsRead
<1>5. reqs \in Seq(Found)
  <2>1. PICK f \in [1..(Len(chunk) + 1) -> Seq(Found)] : Parsed(chunk) = f[LineStart(chunk, 1)]
    BY <1>4, FromIs
  <2>2. 1 \in 1..(Len(chunk) + 1)
    BY <1>2, <1>4
  <2>3. LineStart(chunk, 1) \in 1..(Len(chunk) + 1)
    BY <1>4, <2>2, LineStartIs
  <2> QED BY <2>1, <2>3
<1>6. /\ asked' = asked
      /\ stream' = [stream EXCEPT ![c] = SubSeq(stream[c], n + 1, Len(stream[c]))]
      /\ cuts' = IF n = Len(st) \/ st[n + 1] = "*" THEN cuts ELSE cuts + 1
  BY <1>1 DEF Serve, Taken
<1>7. /\ cuts' \in Nat /\ (cuts' = cuts => EndsBetween(st, n))
      /\ cuts' = cuts + 1 \/ EndsBetween(st, n)
  <2>1. cuts \in Nat
    BY DEF DpdkTypes
  <2>2. cuts + 1 # cuts
    BY <2>1
  <2> QED BY <1>6, <2>1, <2>2 DEF EndsBetween
<1>8. stream' \in [Clients -> Seq(Tokens)]
  <2>1. n + 1 \in 1..(Len(st) + 1)
    BY <1>2
  <2>2. SubSeq(st, n + 1, Len(st)) \in Seq(Tokens)
    BY <1>2, <2>1, SuffixOf
  <2> QED BY <1>6, <2>2 DEF DpdkTypes
<1>9. NoWords \in Range(reqs) <=> ~Full(reqs)
  <2>1. DOMAIN reqs = 1..Len(reqs)
    BY <1>5
  <2> QED BY <2>1 DEF Range, Full
<1>10. \/ tidy' = tidy \ {c}
       \/ tidy' = tidy /\ EndsBetween(st, n)
  BY <1>1, <1>7
<1>11. \/ /\ server' = "undefined" /\ UNCHANGED <<tree, did>>
          /\ ~Full(reqs)
       \/ /\ server' = server
          /\ Full(reqs)
          /\ tree' = AllStored(tree, reqs)
          /\ did' = [did EXCEPT ![c] = did[c] \o Answered(reqs)]
  BY <1>1, <1>9
<1> QED BY <1>3, <1>5, <1>6, <1>7, <1>8, <1>10, <1>11, <1>u

\* Behind the requests with answers in old there are those of reqs in all.
Continues(all, old, reqs) ==
    /\ all \in Seq([req : Found, answer : {"OK", "value"}])
    /\ Len(old) \in Nat /\ Len(reqs) \in Nat /\ Len(all) = Len(old) + Len(reqs)
    /\ \A i \in 1..Len(old) : all[i] = old[i]
    /\ \A i \in 1..Len(reqs) : all[Len(old) + i].req = reqs[i]
    /\ \A i \in 1..Len(all) : i <= Len(old) \/ (i - Len(old) \in 1..Len(reqs)
                                                 /\ all[i].req = reqs[i - Len(old)])

\* The answers to requests say what the requests were.
LEMMA AnsweredType ==
    ASSUME NEW reqs \in Seq(Found)
    PROVE  /\ Answered(reqs) \in Seq([req : Found, answer : {"OK", "value"}])
           /\ Len(Answered(reqs)) = Len(reqs) /\ Len(reqs) \in Nat
           /\ \A i \in 1..Len(reqs) : Answered(reqs)[i].req = reqs[i]
<1> DEFINE E == [req : Found, answer : {"OK", "value"}]
<1> PICK more : more = Answered(reqs)
  OBVIOUS
<1>1. DOMAIN reqs = 1..Len(reqs) /\ Len(reqs) \in Nat /\ \A i \in 1..Len(reqs) : reqs[i] \in Found
  BY SeqFacts
<1>2. more = [i \in 1..Len(reqs) |->
                 [req |-> reqs[i], answer |-> IF reqs[i].op = "GET" THEN "value" ELSE "OK"]]
  BY <1>1 DEF Answered
<1>3. more \in [1..Len(reqs) -> E]
  BY <1>1, <1>2
<1>4. \A i \in 1..Len(reqs) : more[i].req = reqs[i]
  BY <1>2
<1>5. more \in Seq(E) /\ Len(more) = Len(reqs)
  <2> HIDE DEF E
  <2>1. more \in Seq(E)
    BY <1>1, <1>3
  <2> QED BY <1>1, <1>3, <2>1
<1> QED BY <1>1, <1>4, <1>5

LEMMA AnsweredIs ==
    ASSUME NEW old \in Seq([req : Found, answer : {"OK", "value"}]), NEW reqs \in Seq(Found)
    PROVE  Continues(old \o Answered(reqs), old, reqs)
<1> PICK E : E = [req : Found, answer : {"OK", "value"}]
  OBVIOUS
<1> PICK more : more = Answered(reqs)
  OBVIOUS
<1> PICK all : all = old \o more
  OBVIOUS
<1>1. more \in Seq(E) /\ Len(more) = Len(reqs) /\ \A i \in 1..Len(reqs) : more[i].req = reqs[i]
  BY AnsweredType
<1>2. old \in Seq(E)
  OBVIOUS
<1>3. /\ all \in Seq(E)
      /\ Len(all) = Len(old) + Len(more)
      /\ \A i \in 1..Len(old) + Len(more) : all[i] = IF i <= Len(old) THEN old[i] ELSE more[i - Len(old)]
  <2>1. more \in Seq(E)
    BY <1>1
  <2>2. /\ old \o more \in Seq(E)
        /\ Len(old \o more) = Len(old) + Len(more)
        /\ \A i \in 1..Len(old) + Len(more) :
              (old \o more)[i] = IF i <= Len(old) THEN old[i] ELSE more[i - Len(old)]
    BY <1>2, <2>1, ConcatProperties
  <2> QED BY <2>2
<1>n. PICK n \in Nat, m \in Nat : n = Len(old) /\ m = Len(reqs)
  BY <1>2, SeqFacts
<1>4. /\ Len(all) = n + m
      /\ \A i \in 1..(n + m) : all[i] = IF i <= n THEN old[i] ELSE more[i - n]
      /\ \A i \in 1..m : more[i].req = reqs[i]
  BY <1>1, <1>3, <1>n
<1>5. \A i \in 1..n : all[i] = old[i]
  BY <1>4
<1>6. ASSUME NEW i \in 1..m PROVE all[n + i].req = reqs[i]
  <2>1. n + i \in 1..(n + m) /\ ~(n + i <= n) /\ (n + i) - n = i
    OBVIOUS
  <2> QED BY <1>4, <2>1
<1>7. ASSUME NEW i \in 1..(n + m) PROVE i <= n \/ (i - n \in 1..m /\ all[i].req = reqs[i - n])
  <2>1. SUFFICES ASSUME ~(i <= n) PROVE i - n \in 1..m /\ all[i].req = reqs[i - n]
    OBVIOUS
  <2>2. i - n \in 1..m
    BY <2>1
  <2> QED BY <1>4, <2>1, <2>2
<1>8. all \in Seq([req : Found, answer : {"OK", "value"}])
  BY <1>3
<1>9. Continues(all, old, reqs)
  BY <1>4, <1>5, <1>6, <1>7, <1>8, <1>n DEF Continues
<1> QED BY <1>9

\* Nothing was read or executed for the client.
LEMMA SentSame ==
    ASSUME NEW c \in Clients, Sent(c), stream'[c] = stream[c], asked' = asked, did'[c] = did[c]
    PROVE  Sent(c)'
<1>1. PICK p, rest, g :
         /\ IsLeft(stream[c], asked[c], p, rest)
         /\ g \in [1..Len(did[c]) -> 1..p]
         /\ \A i, j \in 1..Len(did[c]) : i < j => g[i] < g[j]
         /\ \A i \in 1..Len(did[c]) : Near(asked[c][g[i]], did[c][i].req)
  BY DEF Sent
<1>2. IsLeft(stream[c], asked[c], p, rest)'
  BY <1>1 DEF IsLeft
<1> QED BY <1>1, <1>2 DEF Sent

\* A read of which nothing is executed.
LEMMA SentNone ==
    ASSUME DpdkTypes, NEW c \in Clients, Sent(c), NEW n \in 1..Len(stream[c]),
           stream'[c] = SubSeq(stream[c], n + 1, Len(stream[c])), asked' = asked, did'[c] = did[c]
    PROVE  Sent(c)'
<1>1. PICK p, rest, g :
         /\ IsLeft(stream[c], asked[c], p, rest)
         /\ g \in [1..Len(did[c]) -> 1..p]
         /\ \A i, j \in 1..Len(did[c]) : i < j => g[i] < g[j]
         /\ \A i \in 1..Len(did[c]) : Near(asked[c][g[i]], did[c][i].req)
  BY DEF Sent
<1>2. asked[c] \in Seq(Requests) /\ Len(asked[c]) \in Nat
  <2>1. asked[c] \in Seq(Requests)
    BY DEF DpdkTypes
  <2> QED BY <2>1, SeqFacts
<1>3. PICK q, new : IsLeft(stream'[c], asked[c], q, new) /\ q >= p
  <2> PICK s, st : s = asked[c] /\ st = stream[c]
    OBVIOUS
  <2>1. s \in Seq(Requests) /\ IsLeft(st, s, p, rest) /\ n \in 1..Len(st)
    BY <1>1, <1>2
  <2>2. \E q, new : IsLeft(SubSeq(st, n + 1, Len(st)), s, q, new) /\ q >= p
    BY <2>1, SuffixIsLeft
  <2> QED BY <2>2
<1>4. p \in 0..Len(asked[c]) /\ q \in 0..Len(asked[c])
  BY <1>1, <1>3 DEF IsLeft
<1>5. \A i \in 1..p : i \in 1..q
  BY <1>2, <1>3, <1>4
<1>6. g \in [1..Len(did[c]) -> 1..q]
  BY <1>1, <1>5
<1>7. IsLeft(stream[c], asked[c], q, new)'
  BY <1>3 DEF IsLeft
<1> QED BY <1>1, <1>6, <1>7 DEF Sent

\* What was read, and what is left, has no such letters if there were none.
LEMMA ChunkNoMarks ==
    ASSUME NEW st \in Seq(Tokens), NoMarks(st), NEW n, NEW chunk, IsRead(st, n, chunk)
    PROVE  NoMarks(chunk)
<1>1. Len(st) \in Nat /\ n \in 1..Len(st) /\ Len(chunk) = n /\ \A i \in 1..n : chunk[i] = st[i]
  BY SeqFacts DEF IsRead
<1> QED BY <1>1 DEF NoMarks

LEMMA LeftNoMarks ==
    ASSUME NEW st \in Seq(Tokens), NoMarks(st), NEW n \in 1..Len(st),
           NEW t, t = SubSeq(st, n + 1, Len(st))
    PROVE  NoMarks(t)
<1>1. Len(st) \in Nat /\ n \in Nat /\ n <= Len(st) /\ n + 1 \in 1..(Len(st) + 1)
  BY SeqFacts
<1>2. Len(t) = Len(st) - (n + 1) + 1 /\ \A i \in 1..Len(t) : t[i] = st[n + 1 + i - 1]
  BY <1>1, SuffixOf
<1>3. ASSUME NEW i \in 1..Len(t) PROVE t[i] \notin {AStar, ADollar}
  <2>1. n + 1 + i - 1 \in 1..Len(st)
    BY <1>1, <1>2
  <2> QED BY <1>2, <2>1 DEF NoMarks
<1> QED BY <1>3 DEF NoMarks

\* Any read of a client: what is left has the same shape.
LEMMA LeftMore ==
    ASSUME DpdkTypes, NEW c \in Clients, Left(c), NEW n \in 1..Len(stream[c]),
           stream'[c] = SubSeq(stream[c], n + 1, Len(stream[c])), asked' = asked
    PROVE  Left(c)'
<1> PICK s, st : s = asked[c] /\ st = stream[c]
  OBVIOUS
<1>1. s \in Seq(Requests)
  BY DEF DpdkTypes
<1>2. PICK p, rest : IsLeft(st, s, p, rest)
  BY DEF Left
<1>3. n \in 1..Len(st)
  OBVIOUS
<1>4. PICK q, new : IsLeft(SubSeq(st, n + 1, Len(st)), s, q, new)
  BY <1>1, <1>2, <1>3, SuffixIsLeft
<1>5. IsLeft(stream'[c], asked'[c], q, new)
  BY <1>4
<1> QED BY <1>5 DEF Left, IsLeft

\* Of the requests that are executed, each has its words.
LEMMA KnownMore ==
    ASSUME DpdkTypes, NEW c \in Clients, Left(c),
           NEW n, IsRead(stream[c], n, SubSeq(stream[c], 1, n)), NEW reqs,
           reqs = Parsed(SubSeq(stream[c], 1, n)), Full(reqs)
    PROVE  \A i \in 1..Len(reqs) : Known(reqs[i], Seq(Tokens))
<1> PICK s, st, chunk : s = asked[c] /\ st = stream[c] /\ chunk = SubSeq(stream[c], 1, n)
  OBVIOUS
<1>1. s \in Seq(Requests) /\ st \in Seq(Tokens)
  BY DEF DpdkTypes
<1>2. PICK p, rest : IsLeft(st, s, p, rest)
  BY DEF Left
<1>3. IsRead(st, n, chunk) /\ reqs = Parsed(chunk)
  OBVIOUS
<1>4. reqs \in Seq(Readable)
  BY <1>1, <1>2, <1>3, ReadKnown
<1>5. \A i \in 1..Len(reqs) : reqs[i] \in Readable /\ reqs[i] # NoWords
  BY <1>4, SeqFacts DEF Full
<1> QED BY <1>5 DEF Readable

\* A read of which all requests are executed.
LEMMA SentMore ==
    ASSUME DpdkTypes, NEW c \in Clients, Sent(c), NoMarks(stream[c]),
           NEW n, IsRead(stream[c], n, SubSeq(stream[c], 1, n)), NEW reqs, reqs = Parsed(SubSeq(stream[c], 1, n)), reqs \in Seq(Found), Full(reqs),
           stream'[c] = SubSeq(stream[c], n + 1, Len(stream[c])), asked' = asked,
           did'[c] = did[c] \o Answered(reqs)
    PROVE  /\ Sent(c)'
           /\ \A i \in 1..Len(reqs) : Known(reqs[i], Letters)
<1>1. PICK p, rest, g :
         /\ IsLeft(stream[c], asked[c], p, rest)
         /\ g \in [1..Len(did[c]) -> 1..p]
         /\ \A i, j \in 1..Len(did[c]) : i < j => g[i] < g[j]
         /\ \A i \in 1..Len(did[c]) : Near(asked[c][g[i]], did[c][i].req)
  BY DEF Sent
<1> PICK s : s = asked[c]
  OBVIOUS
<1> PICK old : old = did[c]
  OBVIOUS
<1> PICK all : all = did'[c]
  OBVIOUS
<1>2. /\ s \in Seq(Requests) /\ Len(s) \in Nat /\ \A i \in 1..Len(s) : s[i] \in Requests
      /\ stream[c] \in Seq(Tokens)
      /\ old \in Seq([req : Found, answer : {"OK", "value"}])
  <2>1. s \in Seq(Requests)
    BY DEF DpdkTypes
  <2> QED BY <2>1, SeqFacts DEF DpdkTypes
<1>3. PICK q, new, h : /\ IsLeft(stream'[c], s, q, new)
                       /\ q >= p
                       /\ OneByOne(s, p, q, reqs, h)
  <2> PICK st, chunk : st = stream[c] /\ chunk = SubSeq(stream[c], 1, n)
    OBVIOUS
  <2>1. /\ st \in Seq(Tokens) /\ IsRead(st, n, chunk) /\ IsLeft(st, s, p, rest)
        /\ reqs = Parsed(chunk) /\ Full(Parsed(chunk)) /\ NoMarks(chunk)
    BY <1>1, <1>2, ChunkNoMarks
  <2>2. \E q, new, h : /\ IsLeft(SubSeq(st, n + 1, Len(st)), s, q, new)
                       /\ q >= p
                       /\ OneByOne(s, p, q, Parsed(chunk), h)
    BY <1>2, <2>1, ReadSent
  <2> QED BY <2>1, <2>2
<1>4. p \in 0..Len(s) /\ q \in 0..Len(s)
  BY <1>1, <1>3 DEF IsLeft
<1>5. /\ h \in [1..Len(reqs) -> (p + 1)..q]
      /\ \A i, j \in 1..Len(reqs) : i < j => h[i] < h[j]
      /\ \A i \in 1..Len(reqs) : Near(s[h[i]], reqs[i])
  BY <1>3 DEF OneByOne
<1>6. /\ Len(old) \in Nat /\ Len(reqs) \in Nat /\ Len(all) = Len(old) + Len(reqs)
      /\ \A i \in 1..Len(old) : all[i] = old[i]
      /\ \A i \in 1..Len(reqs) : all[Len(old) + i].req = reqs[i]
  <2>1. all = old \o Answered(reqs)
    OBVIOUS
  <2>2. Continues(all, old, reqs)
    BY <1>2, <2>1, AnsweredIs
  <2> QED BY <2>2 DEF Continues
<1>7. ASSUME NEW i \in 1..Len(reqs) PROVE Known(reqs[i], Letters)
  <2>1. h[i] \in 1..Len(s)
    <3>1. h[i] \in (p + 1)..q
      BY <1>5
    <3>2. Len(s) \in Nat /\ p \in 0..Len(s) /\ q \in 0..Len(s)
      BY <1>2, <1>4
    <3> QED BY <3>1, <3>2
  <2>2. s[h[i]] \in Requests
    BY <1>2, <2>1
  <2>3. Near(s[h[i]], reqs[i])
    BY <1>5
  <2>4. reqs[i] \in Found
    BY SeqFacts
  <2> QED BY <2>2, <2>3, <2>4, NearIs
<1>n. PICK k \in Nat, m \in Nat : k = Len(old) /\ m = Len(reqs)
  BY <1>6
<1> PICK f : f = [i \in 1..(k + m) |-> IF i <= k THEN g[i] ELSE h[i - k]]
  OBVIOUS
<1>a. p \in Nat /\ q \in Nat /\ p <= q
  BY <1>2, <1>3, <1>4
<1>8. /\ \A i \in 1..k : g[i] \in 1..p
      /\ \A i \in 1..m : h[i] \in (p + 1)..q
  BY <1>1, <1>5, <1>n
<1>9. /\ \A i \in 1..(k + m) : i <= k => i \in 1..k /\ f[i] = g[i]
      /\ \A i \in 1..(k + m) : ~(i <= k) => i - k \in 1..m /\ f[i] = h[i - k]
  OBVIOUS
<1>10. f \in [1..(k + m) -> 1..q]
  <2>1. ASSUME NEW i \in 1..(k + m) PROVE (IF i <= k THEN g[i] ELSE h[i - k]) \in 1..q
    <3>1. i <= k => g[i] \in 1..q
      BY <1>8, <1>9, <1>a
    <3>2. ~(i <= k) => h[i - k] \in 1..q
      BY <1>8, <1>9, <1>a
    <3> QED BY <3>1, <3>2
  <2> QED BY <2>1
<1>11. ASSUME NEW i \in 1..(k + m), NEW j \in 1..(k + m), i < j PROVE f[i] < f[j]
  <2>1. CASE j <= k
    <3>1. i <= k
      BY <1>11, <2>1
    <3> QED BY <1>1, <1>9, <1>11, <1>n, <2>1, <3>1
  <2>2. CASE ~(j <= k) /\ i <= k
    <3>1. f[i] \in 1..p /\ f[j] \in (p + 1)..q
      BY <1>8, <1>9, <2>2
    <3> QED BY <1>a, <3>1
  <2>3. CASE ~(j <= k) /\ ~(i <= k)
    <3>1. i - k < j - k
      BY <1>11
    <3> QED BY <1>5, <1>9, <1>n, <2>3, <3>1
  <2> QED BY <2>1, <2>2, <2>3
<1>12. ASSUME NEW i \in 1..(k + m) PROVE Near(s[f[i]], all[i].req)
  <2>1. CASE i <= k
    BY <1>1, <1>6, <1>9, <1>n, <2>1
  <2>2. CASE ~(i <= k)
    <3> PICK j : j = i - k
      OBVIOUS
    <3>1. j \in 1..m /\ f[i] = h[j] /\ k + j = i
      BY <1>9, <2>2
    <3>2. all[i].req = reqs[j]
      BY <1>6, <1>n, <3>1
    <3> QED BY <1>5, <1>n, <3>1, <3>2
  <2> QED BY <2>1, <2>2
<1>13. Len(all) = k + m
  BY <1>6, <1>n
<1>14. IsLeft(stream[c], asked[c], q, new)'
  BY <1>3 DEF IsLeft
<1>15. Sent(c)'
  BY <1>10, <1>11, <1>12, <1>13, <1>14 DEF Sent
<1> QED BY <1>7, <1>15

\* A read of a tidy client that ends where a request ends: its requests are the next
\* ones, none is without words, and when they are executed the client is tidy as before.
LEMMA TidyMore ==
    ASSUME DpdkTypes, NEW c \in Clients, Tidy(c), NEW n,
           IsRead(stream[c], n, SubSeq(stream[c], 1, n)), EndsBetween(stream[c], n),
           NEW reqs, reqs = Parsed(SubSeq(stream[c], 1, n)), reqs \in Seq(Found),
           stream'[c] = SubSeq(stream[c], n + 1, Len(stream[c])), asked' = asked
    PROVE  /\ Full(reqs)
           /\ did'[c] = did[c] \o Answered(reqs) => Tidy(c)'
<1> PICK s : s = asked[c]
  OBVIOUS
<1> PICK old : old = did[c]
  OBVIOUS
<1>1. /\ s \in Seq(Requests) /\ Len(s) \in Nat /\ \A i \in 1..Len(s) : s[i] \in Requests
      /\ stream[c] \in Seq(Tokens)
      /\ old \in Seq([req : Found, answer : {"OK", "value"}]) /\ Len(old) \in Nat
  <2>1. s \in Seq(Requests) /\ old \in Seq([req : Found, answer : {"OK", "value"}])
    BY DEF DpdkTypes
  <2> QED BY <2>1, SeqFacts DEF DpdkTypes
<1>2. /\ HasLetters(s)
      /\ Len(old) <= Len(s)
      /\ \A i \in 1..Len(old) : old[i].req = s[i]
      /\ stream[c] = Bytes(s, Len(old))
  BY DEF Tidy
<1>3. NextOnes(s, Len(old), reqs, stream'[c])
  <2> PICK st, chunk : st = stream[c] /\ chunk = SubSeq(stream[c], 1, n)
    OBVIOUS
  <2> PICK p : p = Len(old)
    OBVIOUS
  <2>1. p \in 0..Len(s) /\ st \in Seq(Tokens) /\ st = Bytes(s, p)
    BY <1>1, <1>2
  <2>2. IsRead(st, n, chunk) /\ EndsBetween(st, n)
    OBVIOUS
  <2>3. NextOnes(s, p, Parsed(chunk), SubSeq(st, n + 1, Len(st)))
    BY <1>1, <1>2, <2>1, <2>2, ReadAll
  <2> QED BY <2>3
<1>4. Len(reqs) \in Nat
  BY SeqFacts
<1>n. PICK k \in Nat, m \in Nat : k = Len(old) /\ m = Len(reqs)
  BY <1>1, <1>4
<1>5. /\ k + m <= Len(s)
      /\ \A i \in 1..m : reqs[i] = s[k + i]
      /\ stream'[c] = Bytes(s, k + m)
  BY <1>3, <1>n DEF NextOnes
<1>6. Full(reqs)
  <2>1. ASSUME NEW i \in 1..m PROVE reqs[i] # NoWords
    <3>1. k + i \in 1..Len(s)
      BY <1>1, <1>5
    <3>2. reqs[i] \in Requests
      BY <1>1, <1>5, <3>1
    <3>3. reqs[i].op \in Ops
      BY <3>2, RequestIs
    <3> QED BY <3>3 DEF NoWords, Request, Ops
  <2> QED BY <1>n, <2>1 DEF Full
<1>7. ASSUME did'[c] = did[c] \o Answered(reqs)
      PROVE  Tidy(c)'
  <2> PICK all : all = did'[c]
    OBVIOUS
  <2>1. Continues(all, old, reqs)
    <3>1. all = old \o Answered(reqs)
      BY <1>7
    <3> QED BY <1>1, <3>1, AnsweredIs
  <2>2. /\ Len(all) = k + m
        /\ \A i \in 1..k : all[i] = old[i]
        /\ \A i \in 1..m : all[k + i].req = reqs[i]
    BY <1>n, <2>1 DEF Continues
  <2>3. ASSUME NEW i \in 1..(k + m) PROVE all[i].req = s[i]
    <3>1. CASE i <= k
      <4>1. i \in 1..k
        BY <3>1
      <4> QED BY <1>2, <1>n, <2>2, <4>1
    <3>2. CASE ~(i <= k)
      <4> PICK j : j = i - k
        OBVIOUS
      <4>1. j \in 1..m /\ k + j = i
        BY <3>2
      <4>2. all[k + j].req = reqs[j]
        BY <2>2, <4>1
      <4>3. reqs[j] = s[k + j]
        BY <1>5, <4>1
      <4> QED BY <4>1, <4>2, <4>3
    <3> QED BY <3>1, <3>2
  <2>4. Len(did'[c]) = k + m
    BY <2>2
  <2>5. asked'[c] = s
    OBVIOUS
  <2> QED BY <1>2, <1>5, <2>3, <2>4, <2>5 DEF Tidy
<1> QED BY <1>6, <1>7

\* Nothing was read or executed for the client.
LEMMA TidySame ==
    ASSUME NEW c \in Clients, Tidy(c), stream'[c] = stream[c], asked' = asked, did'[c] = did[c]
    PROVE  Tidy(c)'
BY DEF Tidy

LEMMA InvStep == DpdkInv /\ [Next]_vars => DpdkInv'
<1> SUFFICES ASSUME DpdkInv, [Next]_vars PROVE DpdkInv'
  OBVIOUS
<1>1. /\ DpdkTypes /\ (\A c \in Clients : Left(c)) /\ (\A c \in tidy : Tidy(c))
      /\ \A c \in Clients : Plain(c) => Sent(c) /\ NoMarks(stream[c])
  BY DEF DpdkInv
<1>2. CASE UNCHANGED vars
  <2>1. /\ stream' = stream /\ cuts' = cuts /\ tree' = tree /\ asked' = asked /\ did' = did
        /\ server' = server /\ tidy' = tidy
    BY <1>2 DEF vars, connVars
  <2>p. \A c \in Clients : Plain(c)' = Plain(c)
    BY <2>1 DEF Plain, Words
  <2>2. DpdkTypes'
    BY <1>1, <2>1, <2>p DEF DpdkTypes
  <2>3. \A c \in Clients : Plain(c)' => Sent(c)' /\ NoMarks(stream[c])'
    BY <1>1, <2>1, <2>p, SentSame
  <2>4. tidy \subseteq Clients
    BY <1>1 DEF DpdkTypes
  <2>5. \A c \in tidy' : Tidy(c)'
    BY <1>1, <2>1, <2>4, TidySame
  <2>6. \A c \in Clients : Left(c)'
    BY <1>1, <2>1 DEF Left, IsLeft
  <2> QED BY <2>2, <2>3, <2>5, <2>6 DEF DpdkInv
<1>3. ASSUME NEW c \in Clients, Serve(c) PROVE DpdkInv'
  <2>1. PICK n, reqs :
          /\ IsRead(stream[c], n, SubSeq(stream[c], 1, n))
          /\ reqs = Parsed(SubSeq(stream[c], 1, n)) /\ reqs \in Seq(Found)
          /\ asked' = asked
          /\ stream' = [stream EXCEPT ![c] = SubSeq(stream[c], n + 1, Len(stream[c]))]
          /\ stream' \in [Clients -> Seq(Tokens)]
          /\ cuts' \in Nat
          /\ cuts' = cuts + 1 \/ EndsBetween(stream[c], n)
          /\ server = "up"
          /\ \/ /\ server' = "undefined" /\ UNCHANGED <<tree, did>>
                /\ ~Full(reqs)
             \/ /\ server' = server
                /\ Full(reqs)
                /\ tree' = AllStored(tree, reqs)
                /\ did' = [did EXCEPT ![c] = did[c] \o Answered(reqs)]
          /\ \/ tidy' = tidy \ {c}
             \/ tidy' = tidy /\ EndsBetween(stream[c], n)
    BY <1>1, <1>3, ServeIs
  <2>2. /\ stream'[c] = SubSeq(stream[c], n + 1, Len(stream[c]))
        /\ \A d \in Clients \ {c} : stream'[d] = stream[d]
    BY <1>1, <2>1 DEF DpdkTypes
  <2>3. \A d \in Clients \ {c} : did'[d] = did[d]
    BY <1>1, <2>1 DEF DpdkTypes
  <2>4. Full(reqs) => did'[c] = did[c] \o Answered(reqs)
    BY <1>1, <2>1 DEF DpdkTypes
  <2>5. ~Full(reqs) => did' = did /\ tree' = tree /\ server' = "undefined"
    BY <2>1
  <2>n. n \in 1..Len(stream[c])
    BY <2>1 DEF IsRead
  <2>p. \A d \in Clients : Plain(d)' = Plain(d)
    BY <2>1 DEF Plain, Words
  <2>6. Full(reqs) => \A i \in 1..Len(reqs) : Known(reqs[i], Seq(Tokens))
    BY <1>1, <2>1, KnownMore
  <2>7. Full(reqs) /\ Plain(c) => /\ Sent(c)'
                                   /\ \A i \in 1..Len(reqs) : Known(reqs[i], Letters)
    <3> SUFFICES ASSUME Full(reqs), Plain(c)
                 PROVE  Sent(c)' /\ \A i \in 1..Len(reqs) : Known(reqs[i], Letters)
      OBVIOUS
    <3> QED BY <1>1, <2>1, <2>2, <2>4, SentMore
  <2>8. ~Full(reqs) /\ Plain(c) => Sent(c)'
    <3> SUFFICES ASSUME ~Full(reqs), Plain(c) PROVE Sent(c)'
      OBVIOUS
    <3>1. did'[c] = did[c]
      BY <2>5
    <3> QED BY <1>1, <2>1, <2>2, <2>n, <3>1, SentNone
  <2>s. \A d \in Clients : Plain(d)' => Sent(d)' /\ NoMarks(stream[d])'
    <3>1. TAKE d \in Clients
    <3>2. SUFFICES ASSUME Plain(d) PROVE Sent(d)' /\ NoMarks(stream[d])'
      BY <2>p
    <3>3. CASE d # c
      <4>1. stream'[d] = stream[d]
        BY <2>2, <3>3
      <4>2. Sent(d)'
        BY <1>1, <2>1, <2>3, <3>2, <3>3, <4>1, SentSame
      <4>3. NoMarks(stream'[d])
        BY <1>1, <3>2, <4>1
      <4> QED BY <4>2, <4>3 DEF NoMarks
    <3>4. CASE d = c
      <4>1. Sent(c)'
        BY <2>7, <2>8, <3>2, <3>4
      <4>2. NoMarks(stream'[c])
        <5> PICK st, t : st = stream[c] /\ t = stream'[c]
          OBVIOUS
        <5>1. st \in Seq(Tokens) /\ NoMarks(st)
          BY <1>1, <3>2, <3>4 DEF DpdkTypes
        <5>2. n \in 1..Len(st) /\ t = SubSeq(st, n + 1, Len(st))
          BY <2>2, <2>n
        <5> QED BY <5>1, <5>2, LeftNoMarks
      <4> QED BY <3>4, <4>1, <4>2 DEF NoMarks
    <3> QED BY <3>3, <3>4
  <2>l. \A d \in Clients : Left(d)'
    <3>1. Left(c)'
      BY <1>1, <2>1, <2>2, <2>n, LeftMore
    <3>2. \A d \in Clients \ {c} : Left(d)'
      BY <1>1, <2>1, <2>2 DEF Left, IsLeft
    <3> QED BY <3>1, <3>2
  <2>9. \A d \in tidy' : Tidy(d)'
    <3>1. TAKE d \in tidy'
    <3>2. d \in tidy /\ d \in Clients
      BY <1>1, <2>1 DEF DpdkTypes
    <3>3. CASE d # c
      BY <1>1, <2>1, <2>2, <2>3, <3>2, <3>3, TidySame
    <3>4. CASE d = c
      <4>1. EndsBetween(stream[c], n) /\ Tidy(c)
        BY <1>1, <2>1, <3>2, <3>4
      <4>2. /\ Full(reqs)
            /\ did'[c] = did[c] \o Answered(reqs) => Tidy(c)'
        BY <1>1, <2>1, <2>2, <4>1, TidyMore
      <4> QED BY <2>4, <3>4, <4>2
    <3> QED BY <3>3, <3>4
  <2>10. DpdkTypes'
    <3> DEFINE E == [req : Found, answer : {"OK", "value"}]
    <3>1. CASE Full(reqs)
      <4>1. Continues(did'[c], did[c], reqs)
        <5>1. did[c] \in Seq(E)
          BY <1>1 DEF DpdkTypes
        <5> QED BY <2>1, <2>4, <3>1, <5>1, AnsweredIs
      <4>2. did' \in [Clients -> Seq(E)]
        <5>1. did'[c] \in Seq(E)
          BY <4>1 DEF Continues
        <5>2. did' = [did EXCEPT ![c] = did'[c]]
          BY <1>1, <2>1, <2>4, <3>1
        <5> HIDE DEF E
        <5>3. did \in [Clients -> Seq(E)]
          BY <1>1 DEF DpdkTypes, E
        <5> QED BY <5>1, <5>2, <5>3
      <4>3. ASSUME NEW i \in 1..Len(did'[c]) PROVE Known(did'[c][i].req, Seq(Tokens))
        <5> PICK all, old : all = did'[c] /\ old = did[c]
          OBVIOUS
        <5>1. CASE i \in 1..Len(old)
          <6>1. all[i] = old[i]
            BY <4>1, <5>1 DEF Continues
          <6> QED BY <1>1, <5>1, <6>1 DEF DpdkTypes
        <5>2. CASE ~(i \in 1..Len(old))
          <6>1. Len(old) \in Nat /\ i \in 1..Len(all) /\ (i <= Len(old) \/ (i - Len(old) \in 1..Len(reqs)
                                                 /\ all[i].req = reqs[i - Len(old)]))
            BY <4>1 DEF Continues
          <6>2. i - Len(old) \in 1..Len(reqs) /\ all[i].req = reqs[i - Len(old)]
            BY <5>2, <6>1
          <6> QED BY <2>6, <3>1, <6>2
        <5> QED BY <5>1, <5>2
      <4>4. \A d \in Clients : \A i \in 1..Len(did'[d]) : Known(did'[d][i].req, Seq(Tokens))
        BY <1>1, <2>3, <4>3 DEF DpdkTypes
      <4>5. TreeOf(tree', Seq(Tokens))
        <5>1. TreeOf(tree, Seq(Tokens)) /\ << >> \in Seq(Tokens)
          BY <1>1, EmptySeq DEF DpdkTypes
        <5>2. \A i \in 1..Len(reqs) : Known(reqs[i], Seq(Tokens))
          BY <2>6, <3>1
        <5>3. TreeOf(AllStored(tree, reqs), Seq(Tokens))
          BY <2>1, <5>1, <5>2, AllStoredType
        <5> QED BY <2>1, <3>1, <5>3
      <4>7. ASSUME \A d \in Clients : Plain(d)
            PROVE  TreeOf(tree', Letters)
        <5>1. TreeOf(tree, Letters) /\ << >> \in Letters
          BY <1>1, <4>7, EmptySeq DEF DpdkTypes, Letters, Clean
        <5>2. \A i \in 1..Len(reqs) : Known(reqs[i], Letters)
          BY <2>7, <3>1, <4>7
        <5>3. TreeOf(AllStored(tree, reqs), Letters)
          BY <2>1, <5>1, <5>2, AllStoredType
        <5> QED BY <2>1, <3>1, <5>3
      <4>6. server' = server /\ tidy' \subseteq tidy
        BY <2>1, <3>1
      <4> QED BY <1>1, <2>1, <2>p, <4>2, <4>4, <4>5, <4>6, <4>7 DEF DpdkTypes
    <3>2. CASE ~Full(reqs)
      <4>1. did' = did /\ tree' = tree /\ server' = "undefined" /\ tidy' \subseteq tidy
        BY <2>1, <2>5, <3>2
      <4> QED BY <1>1, <2>1, <2>p, <4>1 DEF DpdkTypes
    <3> QED BY <3>1, <3>2
  <2> QED BY <2>9, <2>10, <2>l, <2>s DEF DpdkInv
<1> QED BY <1>2, <1>3 DEF Next

\* Memory that nobody wrote is read only for a client that is not tidy, and for one
\* without such letters only by a read that ends within a request.
LEMMA UndefinedStep ==
    ASSUME DpdkInv, [Next]_vars, server' = "undefined", NEW d \in Clients, stream'[d] # stream[d]
    PROVE  d \notin tidy' /\ (Plain(d) => cuts' > cuts)
<1>1. PICK c \in Clients : Serve(c)
  BY DEF Next, vars, connVars
<1>2. /\ DpdkTypes /\ (\A e \in Clients : Left(e)) /\ (\A e \in tidy : Tidy(e))
      /\ \A e \in Clients : Plain(e) => Sent(e) /\ NoMarks(stream[e])
  BY DEF DpdkInv
<1>3. PICK n, reqs :
        /\ IsRead(stream[c], n, SubSeq(stream[c], 1, n))
        /\ reqs = Parsed(SubSeq(stream[c], 1, n)) /\ reqs \in Seq(Found)
        /\ asked' = asked
        /\ stream' = [stream EXCEPT ![c] = SubSeq(stream[c], n + 1, Len(stream[c]))]
        /\ stream' \in [Clients -> Seq(Tokens)]
        /\ cuts' \in Nat
        /\ cuts' = cuts + 1 \/ EndsBetween(stream[c], n)
        /\ server = "up"
        /\ \/ /\ server' = "undefined" /\ UNCHANGED <<tree, did>>
              /\ ~Full(reqs)
           \/ /\ server' = server
              /\ Full(reqs)
              /\ tree' = AllStored(tree, reqs)
              /\ did' = [did EXCEPT ![c] = did[c] \o Answered(reqs)]
        /\ \/ tidy' = tidy \ {c}
           \/ tidy' = tidy /\ EndsBetween(stream[c], n)
  BY <1>1, <1>2, ServeIs
<1>4. ~Full(reqs)
  BY <1>3
<1>5. d = c
  BY <1>2, <1>3 DEF DpdkTypes
<1>6. d \notin tidy'
  <2>1. SUFFICES ASSUME d \in tidy' PROVE FALSE
    OBVIOUS
  <2>2. c \in tidy /\ EndsBetween(stream[c], n)
    BY <1>3, <1>5, <2>1
  <2>3. stream'[c] = SubSeq(stream[c], n + 1, Len(stream[c]))
    BY <1>2, <1>3 DEF DpdkTypes
  <2>4. Full(reqs)
    BY <1>2, <1>3, <2>2, <2>3, TidyMore
  <2> QED BY <1>4, <2>4
<1>7. ASSUME Plain(d) PROVE cuts' > cuts
  <2> PICK s, st, chunk : s = asked[c] /\ st = stream[c] /\ chunk = SubSeq(stream[c], 1, n)
    OBVIOUS
  <2>1. s \in Seq(Requests) /\ st \in Seq(Tokens) /\ cuts \in Nat
    BY <1>2 DEF DpdkTypes
  <2>2. PICK p, rest : IsLeft(st, s, p, rest)
    BY <1>2 DEF Left
  <2>3. IsRead(st, n, chunk) /\ ~Full(Parsed(chunk)) /\ NoMarks(st)
    BY <1>2, <1>3, <1>4, <1>5, <1>7
  <2>4. NoMarks(chunk)
    BY <2>1, <2>3, ChunkNoMarks
  <2>5. ~EndsBetween(st, n)
    BY <2>1, <2>2, <2>3, <2>4, ReadFull
  <2>6. cuts' = cuts + 1
    BY <1>3, <2>5
  <2> QED BY <2>1, <2>6
<1> QED BY <1>6, <1>7

----------------------------------------------------------------------------
(* The theorems *)

LEMMA InvAlways == Spec => []DpdkInv
BY InvInit, InvStep, PTL DEF Spec

\* What is stored are words, unless one had a dollar or a star; what is answered are
\* the three operations, by "OK" or by a value.
THEOREM DpdkTypeCorrect == Spec => []DpdkTypeOK
<1>1. DpdkInv => DpdkTypeOK
  <2> SUFFICES ASSUME DpdkTypes PROVE DpdkTypeOK
    BY DEF DpdkInv
  <2>1. ASSUME \A c \in Clients : Plain(c), NEW k \in DOMAIN tree
        PROVE  Range(k \o tree[k]) \cap Marks = {}
    <3> PICK v, x : v = tree[k] /\ x = k \o v
      OBVIOUS
    <3>1. Clean(k) /\ Clean(v)
      BY <2>1 DEF DpdkTypes, TreeOf, Letters
    <3>2. /\ k \in Seq(Tokens) /\ v \in Seq(Tokens) /\ Len(k) \in Nat /\ Len(v) \in Nat
          /\ \A i \in 1..Len(k) : k[i] \notin Marks
          /\ \A i \in 1..Len(v) : v[i] \notin Marks
      BY <3>1, SeqFacts DEF Clean
    <3>3. /\ x \in Seq(Tokens)
          /\ Len(x) = Len(k) + Len(v)
          /\ \A i \in 1..Len(k) + Len(v) : x[i] = IF i <= Len(k) THEN k[i] ELSE v[i - Len(k)]
      BY <3>2, ConcatProperties
    <3>4. ASSUME NEW i \in 1..(Len(k) + Len(v)) PROVE x[i] \notin Marks
      <4>1. CASE i <= Len(k)
        <5>1. i \in 1..Len(k)
          BY <3>2, <4>1
        <5> QED BY <3>2, <3>3, <4>1, <5>1
      <4>2. CASE ~(i <= Len(k))
        <5>1. i - Len(k) \in 1..Len(v)
          BY <3>2, <4>2
        <5> QED BY <3>2, <3>3, <4>2, <5>1
      <4> QED BY <4>1, <4>2
    <3>5. DOMAIN x = 1..(Len(k) + Len(v))
      BY <3>3
    <3> QED BY <3>4, <3>5 DEF Range
  <2>2. ASSUME NEW c \in Clients, NEW i \in DOMAIN did[c]
        PROVE  did[c][i].req.op \in Ops /\ did[c][i].answer \in {"OK", "value"}
    <3> PICK done : done = did[c]
      OBVIOUS
    <3>1. done \in Seq([req : Found, answer : {"OK", "value"}])
      BY DEF DpdkTypes
    <3>2. i \in 1..Len(done) /\ done[i] \in [req : Found, answer : {"OK", "value"}]
      <4>1. DOMAIN done = 1..Len(done)
        BY <3>1
      <4>2. \A j \in 1..Len(done) : done[j] \in [req : Found, answer : {"OK", "value"}]
        BY <3>1, SeqFacts
      <4> QED BY <4>1, <4>2
    <3>3. Known(did[c][i].req, Seq(Tokens))
      BY <3>2 DEF DpdkTypes
    <3> QED BY <3>2, <3>3 DEF Known
  <2>3. \A k \in DOMAIN tree : k \in Seq(Tokens) /\ tree[k] \in Seq(Tokens)
    BY DEF DpdkTypes, TreeOf
  <2> QED BY <2>1, <2>2, <2>3 DEF DpdkTypes, DpdkTypeOK
<1> QED BY <1>1, InvAlways, PTL

\* However the bytes are cut, and with empty words as strtok takes them, the server
\* executes for a client whose words hold no star and no dollar only requests that
\* this client sent, each at most once and in the order in which they were sent.
\* (parse_resp, loop)
THEOREM ExecutedWereSentAlways == Spec => []ExecutedWereSent
<1>1. DpdkInv => ExecutedWereSent
  <2> SUFFICES ASSUME DpdkInv, NEW c \in Clients, Plain(c)
               PROVE  \E f \in [DOMAIN did[c] -> DOMAIN asked[c]] :
                         /\ \A i, j \in DOMAIN did[c] : i < j => f[i] < f[j]
                         /\ \A i \in DOMAIN did[c] : MayBe(asked[c][f[i]], did[c][i].req)
    BY DEF ExecutedWereSent, DidWhatWasSent
  <2> PICK s, done : s = asked[c] /\ done = did[c]
    OBVIOUS
  <2>1. s \in Seq(Requests) /\ done \in Seq([req : Found, answer : {"OK", "value"}])
    BY DEF DpdkInv, DpdkTypes
  <2>2. /\ Len(s) \in Nat /\ DOMAIN s = 1..Len(s) /\ DOMAIN done = 1..Len(done)
        /\ \A i \in 1..Len(s) : s[i] \in Requests
        /\ \A i \in 1..Len(done) : done[i].req \in Found
    <3>1. \A i \in 1..Len(done) : done[i] \in [req : Found, answer : {"OK", "value"}]
      BY <2>1, SeqFacts
    <3> QED BY <2>1, <3>1, SeqFacts
  <2>3. PICK p, rest, g :
          /\ IsLeft(stream[c], s, p, rest)
          /\ g \in [1..Len(done) -> 1..p]
          /\ \A i, j \in 1..Len(done) : i < j => g[i] < g[j]
          /\ \A i \in 1..Len(done) : Near(s[g[i]], done[i].req)
    BY DEF DpdkInv, Sent
  <2>4. p \in 0..Len(s)
    BY <2>3 DEF IsLeft
  <2>5. \A i \in 1..p : i \in 1..Len(s)
    BY <2>2, <2>4
  <2>6. g \in [1..Len(done) -> 1..Len(s)]
    BY <2>3, <2>5
  <2>7. ASSUME NEW i \in 1..Len(done) PROVE MayBe(s[g[i]], done[i].req)
    BY <2>2, <2>3, <2>6, NearIs
  <2> QED BY <2>2, <2>3, <2>6, <2>7
<1> QED BY <1>1, InvAlways, PTL

\* Of a client whose reads end where requests end, and whose words have letters,
\* every request that was read is answered, once and in its turn, whatever these
\* letters are; the others are still to be read.  (loop, parse_resp)
THEOREM AnsweredInTurnAlways == Spec => []AnsweredInTurn
<1>1. DpdkInv => AnsweredInTurn
  BY DEF DpdkInv, Tidy, AnsweredInTurn, InTurn, Bytes, Wires
<1> QED BY <1>1, InvAlways, PTL

\* The memory that nobody wrote is read for a client whose words hold no star and no
\* dollar only by a read that ends within a request, and for another only if some read
\* of it did, or if it sent a word without letters.  (parse_resp)
THEOREM UndefinedOnlyByUntidyAlways == Spec => UndefinedOnlyByUntidy
<1>1. DpdkInv /\ [Next]_vars =>
         [server' = "undefined" =>
             \A c \in Clients : stream'[c] # stream[c] =>
                 c \notin tidy' /\ (Plain(c) => cuts' > cuts)]_vars
  BY UndefinedStep
<1> QED BY <1>1, InvAlways, PTL DEF Spec, UndefinedOnlyByUntidy
=============================================================================
