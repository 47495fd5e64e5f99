--------------------------- MODULE PyServerProofs ---------------------------
(***************************************************************************)
(* Theorems about PyServer.                                                *)
(***************************************************************************)
EXTENDS PyServer, RespClientsProofs, FiniteSetTheorems

----------------------------------------------------------------------------
(* What is read from a piece of a connection *)

\* The first place from i on with one of the tokens of M, or none.
LEMMA FirstOf ==
    ASSUME NEW chunk \in Seq(Tokens), NEW i \in Nat \ {0}, NEW M,
           NEW n, n = LET I == {j \in i..Len(chunk) : chunk[j] \in M}
                      IN  IF I # {} THEN Min(I) ELSE 0
    PROVE  \/ n = 0 /\ \A j \in i..Len(chunk) : chunk[j] \notin M
           \/ /\ n \in i..Len(chunk) /\ chunk[n] \in M
              /\ \A j \in i..Len(chunk) : chunk[j] \in M => n <= j
<1> DEFINE I == {j \in i..Len(chunk) : chunk[j] \in M}
<1>1. CASE I = {}
  BY <1>1
<1>2. CASE I # {}
  <2>1. I \in SUBSET Nat
    OBVIOUS
  <2>2. n = Min(I)
    BY <1>2
  <2>3. Min(I) \in I /\ \A y \in I : Min(I) <= y
    <3> HIDE DEF I
    <3> QED BY <1>2, <2>1, MinIs
  <2>4. n \in I /\ \A y \in I : n <= y
    BY <2>2, <2>3
  <2> QED BY <2>4
<1> QED BY <1>1, <1>2

LEMMA NextDollarIs ==
    ASSUME NEW chunk \in Seq(Tokens), NEW i \in Nat, NEW n, n = NextDollar(chunk, i)
    PROVE  \/ n = 0 /\ \A j \in (i + 1)..Len(chunk) : chunk[j] \notin {"$", "$0"}
           \/ /\ n \in (i + 1)..Len(chunk) /\ chunk[n] \in {"$", "$0"}
              /\ \A j \in (i + 1)..Len(chunk) : chunk[j] \in {"$", "$0"} => n <= j
<1>1. n = LET I == {j \in (i + 1)..Len(chunk) : chunk[j] \in {"$", "$0"}}
          IN  IF I # {} THEN Min(I) ELSE 0
  BY DEF NextDollar, SelectInSubSeq
<1>2. i + 1 \in Nat \ {0}
  OBVIOUS
<1> QED BY <1>1, <1>2, FirstOf

\* The end of the line from d on.
LineEnd(chunk, d) == SelectInSubSeq(chunk, d, Len(chunk), LAMBDA t : t = "LF")

LEMMA LineEndIs ==
    ASSUME NEW chunk \in Seq(Tokens), NEW d \in Nat \ {0}, NEW n, n = LineEnd(chunk, d)
    PROVE  \/ n = 0 /\ \A j \in d..Len(chunk) : chunk[j] # "LF"
           \/ /\ n \in d..Len(chunk) /\ chunk[n] = "LF"
              /\ \A j \in d..Len(chunk) : chunk[j] = "LF" => n <= j
<1>1. n = LET I == {j \in d..Len(chunk) : chunk[j] \in {"LF"}}
          IN  IF I # {} THEN Min(I) ELSE 0
  <2>1. {j \in d..Len(chunk) : chunk[j] \in {"LF"}} = {j \in d..Len(chunk) : chunk[j] = "LF"}
    OBVIOUS
  <2> QED BY <2>1 DEF LineEnd, SelectInSubSeq
<1>2. \/ n = 0 /\ \A j \in d..Len(chunk) : chunk[j] \notin {"LF"}
      \/ /\ n \in d..Len(chunk) /\ chunk[n] \in {"LF"}
         /\ \A j \in d..Len(chunk) : chunk[j] \in {"LF"} => n <= j
  BY <1>1, FirstOf
<1> QED BY <1>2

LEMMA TextType ==
    ASSUME NEW chunk \in Seq(Tokens), NEW d \in 1..Len(chunk)
    PROVE  /\ Text(chunk, d) \in Seq(Tokens)
           /\ Text(chunk, d) = SubSeq(chunk, d + 1, IF LineEnd(chunk, d) = 0 THEN Len(chunk)
                                                    ELSE LineEnd(chunk, d) - 2)
<1> DEFINE e == IF LineEnd(chunk, d) = 0 THEN Len(chunk) ELSE LineEnd(chunk, d) - 2
<1>1. d \in Nat \ {0} /\ Len(chunk) \in Nat
  OBVIOUS
<1>2. e \in Int /\ e <= Len(chunk)
  BY <1>1, LineEndIs
<1>3. Text(chunk, d) = SubSeq(chunk, d + 1, e)
  BY DEF Text, LineEnd
<1> HIDE DEF e
<1>4. \A i \in (d + 1)..e : chunk[i] \in Tokens
  BY <1>1, <1>2
<1>5. SubSeq(chunk, d + 1, e) \in Seq(Tokens)
  BY <1>1, <1>2, <1>4, SubSeqProperties
<1> QED BY <1>3, <1>5 DEF e

\* The word behind a dollar is the one that was sent, or what of it has arrived and
\* half of its line end.
LEMMA TextIs ==
    ASSUME NEW chunk \in Seq(Tokens), NEW d \in 1..Len(chunk), NEW w, Clean(w),
           \A i \in 1..(Len(w) + 3) :
               (d - 1) + i <= Len(chunk) => chunk[(d - 1) + i] = WordBytes(w)[i]
    PROVE  /\ d + Len(w) + 2 <= Len(chunk) => Text(chunk, d) = w
           /\ \/ Text(chunk, d) = w
              \/ IsPrefix(Text(chunk, d), w)
              \/ Text(chunk, d) = w \o <<"CR">>
<1> DEFINE b == WordBytes(w)
           lw == Len(w)
           lc == Len(chunk)
           e == LineEnd(chunk, d)
           t == Text(chunk, d)
<1>1. /\ w \in Seq(Tokens) /\ lw \in Nat /\ lc \in Nat /\ d \in Nat \ {0} /\ d <= lc
      /\ chunk \in Seq(Tokens) /\ Len(w) = lw /\ Len(chunk) = lc
  BY DEF Clean
<1>2. /\ \A i \in 1..(lw + 2) : b[i] # "LF"
      /\ b[lw + 3] = "LF" /\ b[lw + 2] = "CR"
      /\ \A i \in 1..lw : b[i + 1] = w[i]
  <2>1. /\ b[1] \in {"$", "$0"} /\ b[lw + 2] = "CR" /\ b[lw + 3] = "LF"
        /\ \A i \in 1..lw : b[i + 1] = w[i]
    BY WordBytesIs
  <2>2. \A i \in 1..lw : w[i] # "LF"
    BY DEF Clean, Marks
  <2> HIDE DEF b, lw
  <2>3. ASSUME NEW i \in 1..(lw + 2) PROVE b[i] # "LF"
    <3>1. CASE i = 1 \/ i = lw + 2
      BY <2>1, <3>1
    <3>2. CASE i - 1 \in 1..lw
      <4>1. b[(i - 1) + 1] = w[i - 1] /\ (i - 1) + 1 = i
        BY <2>1, <3>2
      <4> QED BY <2>2, <3>2, <4>1
    <3> QED BY <1>1, <3>1, <3>2
  <2> QED BY <2>1, <2>3
<1>3. \A i \in 1..(lw + 3) : (d - 1) + i <= lc => chunk[(d - 1) + i] = b[i]
  OBVIOUS
<1>4. t = SubSeq(chunk, d + 1, IF e = 0 THEN lc ELSE e - 2)
  BY TextType
<1>5. \/ e = 0 /\ \A j \in d..lc : chunk[j] # "LF"
      \/ /\ e \in d..lc /\ chunk[e] = "LF"
         /\ \A j \in d..lc : chunk[j] = "LF" => e <= j
  BY <1>1, LineEndIs
<1> HIDE DEF b, lw, lc, e, t
<1>6. \A j \in d..lc : j <= d + lw + 1 => chunk[j] # "LF"
  <2>1. TAKE j \in d..lc
  <2>2. SUFFICES ASSUME j <= d + lw + 1 PROVE chunk[j] # "LF"
    OBVIOUS
  <2> DEFINE i == j - d + 1
  <2>3. i \in 1..(lw + 2) /\ i \in 1..(lw + 3) /\ (d - 1) + i = j /\ (d - 1) + i <= lc
    BY <1>1, <2>2
  <2> HIDE DEF i
  <2>4. chunk[j] = b[i]
    BY <1>3, <2>3
  <2> QED BY <1>2, <2>3, <2>4
<1>7. ASSUME d + lw + 2 <= lc PROVE t = w
  <2>1. chunk[d + lw + 2] = "LF"
    <3>1. lw + 3 \in 1..(lw + 3) /\ (d - 1) + (lw + 3) = d + lw + 2
      BY <1>1
    <3> QED BY <1>2, <1>3, <1>7, <3>1
  <2>2. e = d + lw + 2
    <3>1. d + lw + 2 \in d..lc
      BY <1>1, <1>7
    <3>2. e \in d..lc /\ chunk[e] = "LF" /\ e <= d + lw + 2
      BY <1>5, <2>1, <3>1
    <3>3. ~(e <= d + lw + 1)
      BY <1>6, <3>2
    <3> QED BY <1>1, <3>2, <3>3
  <2>3. t = SubSeq(chunk, d + 1, d + lw)
    <3>1. e # 0 /\ e - 2 = d + lw
      BY <1>1, <2>2
    <3> QED BY <1>4, <3>1
  <2>4. /\ SubSeq(chunk, d + 1, d + lw) \in Seq(Tokens)
        /\ Len(SubSeq(chunk, d + 1, d + lw)) = IF d + 1 <= d + lw THEN (d + lw) - (d + 1) + 1 ELSE 0
        /\ \A i \in 1..((d + lw) - (d + 1) + 1) : SubSeq(chunk, d + 1, d + lw)[i] = chunk[(d + 1) + i - 1]
    <3>1. d + 1 \in Int /\ d + lw \in Int /\ \A i \in (d + 1)..(d + lw) : chunk[i] \in Tokens
      BY <1>1, <1>7
    <3> QED BY <3>1, SubSeqProperties
  <2>5. t \in Seq(Tokens) /\ Len(t) = lw
    BY <1>1, <2>3, <2>4
  <2>6. ASSUME NEW i \in 1..lw PROVE t[i] = w[i]
    <3>1. /\ i \in 1..((d + lw) - (d + 1) + 1) /\ (d + 1) + i - 1 = (d - 1) + (i + 1)
          /\ i + 1 \in 1..(lw + 3) /\ (d - 1) + (i + 1) <= lc
      BY <1>1, <1>7
    <3>2. t[i] = chunk[(d - 1) + (i + 1)]
      BY <2>3, <2>4, <3>1
    <3>3. chunk[(d - 1) + (i + 1)] = b[i + 1]
      BY <1>3, <3>1
    <3> QED BY <1>2, <3>2, <3>3
  <2> QED BY <1>1, <2>5, <2>6, SeqEqual
<1>8. ASSUME ~(d + lw + 2 <= lc) PROVE t = w \/ IsPrefix(t, w) \/ t = w \o <<"CR">>
  <2>1. e = 0
    <3>1. \A j \in d..lc : j <= d + lw + 1
      BY <1>1, <1>8
    <3> QED BY <1>5, <1>6, <3>1
  <2> DEFINE m == lc - d
  <2>2. m \in Nat /\ m <= lw + 1 /\ lc = d + m
    BY <1>1, <1>8
  <2>3. t = SubSeq(chunk, d + 1, d + m)
    BY <1>4, <2>1, <2>2
  <2> HIDE DEF m
  <2>4. /\ t \in Seq(Tokens)
        /\ Len(t) = IF d + 1 <= d + m THEN (d + m) - (d + 1) + 1 ELSE 0
        /\ \A i \in 1..((d + m) - (d + 1) + 1) : t[i] = chunk[(d + 1) + i - 1]
    <3>1. d + 1 \in Int /\ d + m \in Int /\ \A i \in (d + 1)..(d + m) : chunk[i] \in Tokens
      BY <1>1, <2>2
    <3> QED BY <2>3, <3>1, SubSeqProperties
  <2>5. Len(t) = m
    BY <1>1, <2>2, <2>4
  <2>6. ASSUME NEW i \in 1..m PROVE t[i] = b[i + 1]
    <3>1. /\ i \in 1..((d + m) - (d + 1) + 1) /\ (d + 1) + i - 1 = (d - 1) + (i + 1)
          /\ i + 1 \in 1..(lw + 3) /\ (d - 1) + (i + 1) <= lc
      BY <1>1, <2>2
    <3>2. t[i] = chunk[(d - 1) + (i + 1)]
      BY <2>4, <3>1
    <3> QED BY <1>3, <3>1, <3>2
  <2>7. CASE m <= lw
    <3>1. \A i \in 1..m : t[i] = w[i]
      <4>1. \A i \in 1..m : i \in 1..lw
        BY <1>1, <2>2, <2>7
      <4> QED BY <1>2, <2>6, <4>1
    <3>2. IsPrefix(t, w)
      <4>1. /\ SubSeq(w, 1, m) \in Seq(Tokens) /\ Len(SubSeq(w, 1, m)) = m
            /\ \A i \in 1..m : SubSeq(w, 1, m)[i] = w[i]
        <5>1. m \in Int /\ \A i \in 1..m : w[i] \in Tokens
          BY <1>1, <2>2, <2>7
        <5>2. /\ SubSeq(w, 1, m) \in Seq(Tokens)
              /\ Len(SubSeq(w, 1, m)) = IF 1 <= m THEN m - 1 + 1 ELSE 0
              /\ \A i \in 1..(m - 1 + 1) : SubSeq(w, 1, m)[i] = w[1 + i - 1]
          BY <5>1, SubSeqProperties
        <5> QED BY <2>2, <5>2
      <4>2. t = SubSeq(w, 1, m)
        BY <2>4, <2>5, <3>1, <4>1, SeqEqual
      <4>3. SubSeq(t, 1, Len(t)) = t
        BY <2>4, SubSeqFull
      <4> QED BY <1>1, <2>5, <2>7, <4>2, <4>3 DEF IsPrefix
    <3> QED BY <3>2
  <2>8. CASE m = lw + 1
    <3> DEFINE v == w \o <<"CR">>
    <3>1. <<"CR">> \in Seq(Tokens) /\ Len(<<"CR">>) = 1
      BY DEF Tokens, Marks
    <3>2. /\ v \in Seq(Tokens) /\ Len(v) = lw + 1
          /\ \A i \in 1..lw : v[i] = w[i]
          /\ v[lw + 1] = "CR"
      <4>1. /\ v \in Seq(Tokens) /\ Len(v) = Len(w) + Len(<<"CR">>)
            /\ \A i \in 1..(Len(w) + Len(<<"CR">>)) :
                   v[i] = IF i <= Len(w) THEN w[i] ELSE <<"CR">>[i - Len(w)]
        BY <1>1, <3>1, ConcatProperties
      <4> HIDE DEF v
      <4> QED BY <1>1, <3>1, <4>1
    <3> HIDE DEF v
    <3>3. ASSUME NEW i \in 1..m PROVE t[i] = v[i]
      <4>1. CASE i = lw + 1
        <5>1. t[i] = b[lw + 2]
          <6>1. i + 1 = lw + 2
            BY <1>1, <4>1
          <6> QED BY <2>6, <6>1
        <5> QED BY <1>2, <3>2, <4>1, <5>1
      <4>2. CASE i # lw + 1
        <5>1. i \in 1..lw
          BY <1>1, <2>8, <4>2
        <5> QED BY <1>2, <2>6, <3>2, <5>1
      <4> QED BY <4>1, <4>2
    <3>4. t = v
      BY <2>4, <2>5, <2>8, <3>2, <3>3, SeqEqual
    <3> QED BY <3>4 DEF v
  <2> QED BY <1>1, <2>2, <2>7, <2>8
<1> QED BY <1>7, <1>8 DEF lw, lc, t

\* A call has the words its operation takes.
Calls == {q \in [op : Tokens, args : Seq(Seq(Tokens))] : Len(q.args) = Arity(q.op)}

\* What is read is a call or nothing, and nothing unless it begins with a star.
LEMMA ParsedType ==
    ASSUME NEW chunk \in Seq(Tokens), Parsed(chunk) # Garbled
    PROVE  /\ Parsed(chunk) \in Calls
           /\ Len(chunk) >= 3 /\ chunk[1] = "*"
           /\ Dollar(chunk, Arity(chunk[3])) # 0
           /\ Parsed(chunk) = Request(chunk[3], [i \in 1..Arity(chunk[3]) |-> Text(chunk, Dollar(chunk, i))])
<1> DEFINE n == Arity(chunk[3])
           args == [i \in 1..n |-> Text(chunk, Dollar(chunk, i))]
           one == NextDollar(chunk, 0)
           two == NextDollar(chunk, one)
<1>1. /\ Len(chunk) >= 3 /\ chunk[1] = "*" /\ Dollar(chunk, n) # 0
      /\ Parsed(chunk) = Request(chunk[3], args)
  BY DEF Parsed
<1>2. n \in {1, 2}
  BY DEF Arity
<1>3. one = 0 \/ one \in 1..Len(chunk)
  BY NextDollarIs
<1>4. one # 0 /\ one \in 1..Len(chunk)
  <2>1. one # 0
    BY <1>1, <1>2 DEF Dollar
  <2> QED BY <1>3, <2>1
<1>5. n = 2 => two \in 1..Len(chunk)
  <2>1. n = 2 => two # 0
    BY <1>1 DEF Dollar
  <2>2. one \in Nat /\ Len(chunk) \in Nat
    BY <1>4
  <2>3. two = 0 \/ two \in (one + 1)..Len(chunk)
    <3> HIDE DEF one
    <3> QED BY <2>2, NextDollarIs
  <2> HIDE DEF one, two, n
  <2> QED BY <2>1, <2>2, <2>3
<1>6. \A i \in 1..n : Dollar(chunk, i) \in 1..Len(chunk)
  <2>1. Dollar(chunk, 1) = one /\ Dollar(chunk, 2) = two
    BY DEF Dollar
  <2> HIDE DEF one, two, n
  <2> QED BY <1>2, <1>4, <1>5, <2>1
<1>7. \A i \in 1..n : Text(chunk, Dollar(chunk, i)) \in Seq(Tokens)
  <2> HIDE DEF n
  <2> QED BY <1>6, TextType
<1>8. args \in Seq(Seq(Tokens)) /\ Len(args) = n
  <2> HIDE DEF n
  <2> QED BY <1>2, <1>7
<1>9. chunk[3] \in Tokens
  BY <1>1
<1>10. Parsed(chunk) \in Calls
  <2> HIDE DEF args
  <2> QED BY <1>1, <1>8, <1>9 DEF Calls, Request, n
<1> QED BY <1>1, <1>10

\* What is read from the start of a request, with or without others behind it, is
\* what was sent, cut at its end at most.
LEMMA ParsedIs ==
    ASSUME NEW r \in Requests, NEW chunk \in Seq(Tokens), Parsed(chunk) # Garbled,
           NEW w, w = Wire(r),
           \A i \in 1..Len(chunk) : i <= Len(w) => chunk[i] = w[i]
    PROVE  MayBe(r, Parsed(chunk))
<1>1. PICK k : k = r.args[1]
  OBVIOUS
<1>2. PICK v : v = r.args[2]
  OBVIOUS
<1> DEFINE n == Arity(r.op)
           one == NextDollar(chunk, 0)
           two == NextDollar(chunk, one)
<1>3. /\ r.op \in Ops /\ n \in {1, 2} /\ (r.op = "SET" <=> n = 2)
      /\ Len(r.args) = n /\ DOMAIN r.args = 1..n
      /\ Clean(k) /\ (n = 2 => Clean(v))
  BY <1>1, <1>2, RequestIs DEF Arity, Ops
<1>4. /\ Len(k) \in Nat /\ Len(w) \in Nat /\ Len(w) >= Len(k) + 6
      /\ w[1] = "*" /\ w[2] = "n" /\ w[3] = r.op
      /\ \A i \in 1..(Len(k) + 3) : w[3 + i] = WordBytes(k)[i]
      /\ r.op = "SET" => /\ Len(v) \in Nat /\ Len(w) = Len(k) + 6 + Len(v) + 3
                         /\ \A i \in 1..(Len(v) + 3) : w[Len(k) + 6 + i] = WordBytes(v)[i]
  <2>1. k = r.args[1] /\ v = r.args[2] /\ w = Wire(r)
    BY <1>1, <1>2
  <2>2. /\ w[1] = "*" /\ w[2] = "n" /\ w[3] = r.op
        /\ First(w, k)
        /\ r.op = "SET" => Second(w, k, v)
    BY <2>1, WireAt
  <2> QED BY <2>2 DEF First, Second
<1>5. /\ Len(chunk) \in Nat /\ Len(chunk) >= 3
      /\ Dollar(chunk, Arity(chunk[3])) # 0
      /\ Parsed(chunk) = Request(chunk[3], [i \in 1..Arity(chunk[3]) |-> Text(chunk, Dollar(chunk, i))])
  BY ParsedType
<1>6. chunk[1] = "*" /\ chunk[2] = "n" /\ chunk[3] = r.op
  <2>1. \A i \in 1..3 : i \in 1..Len(chunk) /\ i <= Len(w)
    BY <1>4, <1>5
  <2> QED BY <1>4, <2>1
<1>7. /\ Dollar(chunk, n) # 0
      /\ Parsed(chunk) = Request(r.op, [i \in 1..n |-> Text(chunk, Dollar(chunk, i))])
  BY <1>5, <1>6
<1>8. Dollar(chunk, 1) = one /\ Dollar(chunk, 2) = two
  BY DEF Dollar
<1>9. one # 0
  BY <1>3, <1>7 DEF Dollar
<1> HIDE DEF n, one, two
<1> DEFINE lc == Len(chunk)
           lk == Len(k)
           lw == Len(w)
           lv == Len(v)
<1>10. /\ lc \in Nat /\ lc >= 3 /\ lk \in Nat /\ lw \in Nat /\ lw >= lk + 6
       /\ n = 2 => lv \in Nat /\ lw = lk + 6 + lv + 3
  BY <1>3, <1>4, <1>5
<1>11. \A i \in 1..lc : i <= lw => chunk[i] = w[i]
  OBVIOUS
<1>12. /\ \A i \in 1..(lk + 3) : w[3 + i] = WordBytes(k)[i]
       /\ n = 2 => \A i \in 1..(lv + 3) : w[lk + 6 + i] = WordBytes(v)[i]
  BY <1>3, <1>4
<1>13. /\ WordBytes(k)[1] \in {"$", "$0"}
       /\ \A i \in 2..(lk + 3) : WordBytes(k)[i] \notin {"$", "$0"}
       /\ n = 2 => WordBytes(v)[1] \in {"$", "$0"}
  BY <1>3, WordBytesIs, NoDollarWithin
\* The first word.
<1>14. \A i \in 1..(lk + 3) : 3 + i <= lc => chunk[3 + i] = WordBytes(k)[i]
  <2>1. TAKE i \in 1..(lk + 3)
  <2>2. SUFFICES ASSUME 3 + i <= lc PROVE chunk[3 + i] = WordBytes(k)[i]
    OBVIOUS
  <2> HIDE DEF lc, lk, lw, lv
  <2>3. 3 + i \in 1..lc /\ 3 + i <= lw
    BY <1>10, <2>2
  <2> QED BY <1>11, <1>12, <2>3
<1>15. one = 4 /\ lc >= 4
  <2>1. /\ one \in 1..lc /\ chunk[one] \in {"$", "$0"}
        /\ \A j \in 1..lc : chunk[j] \in {"$", "$0"} => one <= j
    BY <1>9, NextDollarIs DEF one
  <2> HIDE DEF lc, lk, lw, lv
  <2>2. one # 1 /\ one # 2 /\ one # 3
    BY <1>3, <1>6, <2>1 DEF Ops
  <2>3. one >= 4 /\ lc >= 4
    BY <1>10, <2>1, <2>2
  <2>4. chunk[4] \in {"$", "$0"}
    <3>1. 1 \in 1..(lk + 3) /\ 3 + 1 = 4
      BY <1>10
    <3> QED BY <1>13, <1>14, <2>3, <3>1
  <2>5. one <= 4
    <3>1. 4 \in 1..lc
      BY <1>10, <2>3
    <3> QED BY <2>1, <2>4, <3>1
  <2> QED BY <1>10, <2>1, <2>3, <2>5
<1>16. LET t == Text(chunk, 4)
       IN  /\ lk + 6 <= lc => t = k
           /\ t = k \/ IsPrefix(t, k) \/ t = k \o <<"CR">>
  <2>1. 4 \in 1..Len(chunk)
    BY <1>10, <1>15
  <2>2. \A i \in 1..(Len(k) + 3) : (4 - 1) + i <= Len(chunk) => chunk[(4 - 1) + i] = WordBytes(k)[i]
    BY <1>14
  <2>3. /\ 4 + Len(k) + 2 <= Len(chunk) => Text(chunk, 4) = k
        /\ Text(chunk, 4) = k \/ IsPrefix(Text(chunk, 4), k) \/ Text(chunk, 4) = k \o <<"CR">>
    BY <1>3, <2>1, <2>2, TextIs
  <2>4. lk + 6 <= lc => 4 + Len(k) + 2 <= Len(chunk)
    BY <1>10
  <2> QED BY <2>3, <2>4
<1>17. CASE n = 1
  <2> DEFINE t == Text(chunk, 4)
  <2>1. Parsed(chunk) = Request(r.op, [i \in 1..1 |-> t])
    <3>1. \A i \in 1..1 : Text(chunk, Dollar(chunk, i)) = t
      BY <1>8, <1>15
    <3> QED BY <1>7, <1>17, <3>1
  <2>2. t = k \/ IsPrefix(t, k) \/ t = k \o <<"CR">>
    BY <1>16
  <2> HIDE DEF t
  <2> DEFINE d == Parsed(chunk)
  <2>3. d.op = r.op /\ Len(d.args) = 1 /\ d.args[1] = t
    BY <2>1 DEF Request
  <2> HIDE DEF d
  <2>4. MayBe(r, d)
    BY <1>1, <1>3, <1>17, <2>2, <2>3 DEF MayBe
  <2> QED BY <2>4 DEF d
<1>18. CASE n = 2
  <2>1. two # 0
    BY <1>7, <1>8, <1>18
  <2>2. /\ two \in (one + 1)..lc /\ chunk[two] \in {"$", "$0"}
        /\ \A j \in (one + 1)..lc : chunk[j] \in {"$", "$0"} => two <= j
    <3>1. one \in Nat
      BY <1>15
    <3> QED BY <2>1, <3>1, NextDollarIs DEF two
  <2> HIDE DEF lc, lk, lw, lv
  <2>3. two >= lk + 7
    <3>1. SUFFICES ASSUME two <= lk + 6 PROVE FALSE
      BY <1>10, <1>15, <2>2
    <3> DEFINE i == two - 3
    <3>2. i \in 2..(lk + 3) /\ i \in 1..(lk + 3) /\ 3 + i = two /\ 3 + i <= lc
      BY <1>10, <1>15, <2>2, <3>1
    <3> HIDE DEF i
    <3> QED BY <1>13, <1>14, <2>2, <3>2
  <2>4. lk + 7 <= lc
    BY <1>10, <1>15, <2>2, <2>3
  <2>5. \A i \in 1..(lv + 3) : lk + 6 + i <= lc => chunk[lk + 6 + i] = WordBytes(v)[i]
    <3>1. TAKE i \in 1..(lv + 3)
    <3>2. SUFFICES ASSUME lk + 6 + i <= lc PROVE chunk[lk + 6 + i] = WordBytes(v)[i]
      OBVIOUS
    <3>3. lk + 6 + i \in 1..lc /\ lk + 6 + i <= lw
      BY <1>10, <1>18, <3>2
    <3> QED BY <1>11, <1>12, <1>18, <3>3
  <2>6. two = lk + 7
    <3>1. 1 \in 1..(lv + 3) /\ lk + 6 + 1 = lk + 7 /\ lk + 7 \in (one + 1)..lc
      BY <1>10, <1>15, <1>18, <2>4
    <3>2. chunk[lk + 7] \in {"$", "$0"}
      <4>1. chunk[lk + 6 + 1] = WordBytes(v)[1]
        BY <2>4, <2>5, <3>1
      <4> QED BY <1>13, <1>18, <3>1, <4>1
    <3> QED BY <1>10, <2>2, <2>3, <3>1, <3>2
  <2> DEFINE t == Text(chunk, 4)
             u == Text(chunk, lk + 7)
  <2>7. t = k
    BY <1>10, <1>16, <2>4
  <2>8. u = v \/ IsPrefix(u, v) \/ u = v \o <<"CR">>
    <3> DEFINE d == lk + 7
    <3>1. d \in 1..lc
      BY <1>10, <2>4
    <3>2. \A i \in 1..(lv + 3) : (d - 1) + i <= lc => chunk[(d - 1) + i] = WordBytes(v)[i]
      <4>1. d - 1 = lk + 6
        BY <1>10
      <4> HIDE DEF d
      <4> QED BY <2>5, <4>1
    <3> HIDE DEF d
    <3>3. Text(chunk, d) = v \/ IsPrefix(Text(chunk, d), v) \/ Text(chunk, d) = v \o <<"CR">>
      <4>1. d \in 1..Len(chunk)
        BY <3>1 DEF lc
      <4>2. \A i \in 1..(Len(v) + 3) : (d - 1) + i <= Len(chunk) => chunk[(d - 1) + i] = WordBytes(v)[i]
        BY <3>2 DEF lc, lv
      <4> QED BY <1>3, <1>18, <4>1, <4>2, TextIs
    <3> QED BY <3>3 DEF d
  <2>9. Parsed(chunk) = Request(r.op, [i \in 1..2 |-> IF i = 1 THEN t ELSE u])
    <3>1. \A i \in 1..2 : Text(chunk, Dollar(chunk, i)) = IF i = 1 THEN t ELSE u
      BY <1>8, <1>15, <2>6
    <3> HIDE DEF t, u
    <3> QED BY <1>7, <1>18, <3>1
  <2> HIDE DEF t, u
  <2> DEFINE d == Parsed(chunk)
  <2>10. d.op = r.op /\ Len(d.args) = 2 /\ d.args[1] = t /\ d.args[2] = u
    BY <2>9 DEF Request
  <2> HIDE DEF d
  <2>11. MayBe(r, d)
    BY <1>1, <1>2, <1>3, <1>18, <2>7, <2>8, <2>10 DEF MayBe
  <2> QED BY <2>11 DEF d
<1> QED BY <1>3, <1>17, <1>18

----------------------------------------------------------------------------
(* The inductive invariant *)

\* The last value written for k; the empty one if there is none.
Value(t, k) == IF k \in DOMAIN t THEN t[k] ELSE << >>

Stages == {"read", "put", "get", "remove"}

\* Types, and what a handler of each stage has read.
PyTypes ==
    /\ stream \in [Clients -> Seq(Tokens)]
    /\ asked \in [Clients -> Seq(Requests)]
    /\ DOMAIN tree \subseteq Seq(Tokens)
    /\ \A k \in DOMAIN tree : tree[k] \in Seq(Tokens)
    /\ task \in [Clients -> [at : Stages, req : Calls \cup {Garbled}]]
    /\ \A c \in Clients :
          /\ task[c].at = "read" <=> task[c].req = Garbled
          /\ task[c].at = "put" => task[c].req.op = "SET"
          /\ task[c].at = "remove" => task[c].req.op = "DEL"
    /\ misled \subseteq {c \in Clients : task[c].at = "remove"}
    /\ did \in [Clients -> Seq([req : Calls, answer : Answers])]
    /\ mutex \in Clients \cup {Free}
    /\ mutex # Free => task[mutex] # Idle
    /\ server \in {"up", "closing", "exited", "undefined"}

\* A loop has one handler between its read and its answer.
OneOnALoop ==
    \A c, d \in Clients : LoopOf[c] = LoopOf[d] /\ task[c] # Idle /\ task[d] # Idle => c = d

\* The handlers of a DEL that have found the value of k and are about to remove it.
Removing(k) ==
    {c \in Clients : task[c].at = "remove" /\ task[c].req.args[1] = k /\ c \notin misled}

\* While there is a value, no more removals were told of than each earlier value had
\* loops; when there is none, those about to be told count as well.
DeletesCounted(k) ==
    /\ IsFiniteSet(OkSet("SET", k)) /\ IsFiniteSet(OkSet("DEL", k))
    /\ Value(tree, k) # << >> => Oks("DEL", k) <= Cardinality(Loops) * Oks("SET", k)
    /\ Value(tree, k) = << >> =>
          Oks("DEL", k) + Cardinality(Removing(k)) <= Cardinality(Loops) * (Oks("SET", k) + 1)

DeletesInv == \A k \in Seq(Tokens) : DeletesCounted(k)

\* The requests read for a client: those executed and the one at hand.
Got(c) == IF task[c] = Idle THEN Len(did[c]) ELSE Len(did[c]) + 1
Nth(c, i) == IF i <= Len(did[c]) THEN did[c][i].req ELSE task[c].req

\* f tells which of the first q requests of c each of those is.
Matched(c, q, f) ==
    /\ f \in [1..Got(c) -> 1..q]
    /\ \A i, j \in 1..Got(c) : i < j => f[i] < f[j]
    /\ \A i \in 1..Got(c) : MayBe(asked[c][f[i]], Nth(c, i))

\* They are among the requests that have left the connection.
Sent(c) == \E q, rest, f : IsLeft(stream[c], asked[c], q, rest) /\ Matched(c, q, f)

SentInv == \A c \in Clients : Sent(c)

PyInv == PyTypes /\ OneOnALoop /\ DeletesInv /\ SentInv

----------------------------------------------------------------------------
(* Types *)

LEMMA GarbledIs ==
    /\ Garbled \notin Calls
    /\ Idle.at = "read" /\ Idle.req = Garbled
    /\ Idle \in [at : Stages, req : Calls \cup {Garbled}]
<1>1. Garbled \notin Calls
  <2>1. Len(Garbled.args) = 0 /\ Arity(Garbled.op) = 1
    BY DEF Garbled, Request, Arity
  <2> QED BY <2>1 DEF Calls
<1> QED BY <1>1 DEF Idle, Stages

\* A handler is idle when it reads, and what it has read otherwise is a call.
LEMMA IdleIs ==
    ASSUME PyTypes, NEW c \in Clients
    PROVE  /\ task[c] = Idle <=> task[c].at = "read"
           /\ task[c] # Idle => task[c].req \in Calls
<1>1. task[c] \in [at : Stages, req : Calls \cup {Garbled}]
  BY DEF PyTypes
<1>2. task[c].at = "read" <=> task[c].req = Garbled
  BY DEF PyTypes
<1>3. \A x \in [at : Stages, req : Calls \cup {Garbled}] :
          x.at = "read" /\ x.req = Garbled => x = Idle
  BY DEF Idle
<1>4. task[c] = Idle <=> task[c].at = "read"
  BY <1>1, <1>2, <1>3, GarbledIs
<1> QED BY <1>1, <1>2, <1>4

LEMMA TypesInit == Init => PyTypes
<1> SUFFICES ASSUME Init PROVE PyTypes
  OBVIOUS
<1>1. asked \in [Clients -> Seq(Requests)]
  BY AskedType DEF Init
<1>2. stream \in [Clients -> Seq(Tokens)]
  <2>1. \A c \in Clients : Bytes(asked[c], 0) \in Seq(Tokens)
    <3>1. TAKE c \in Clients
    <3> DEFINE s == asked[c]
    <3>2. s \in Seq(Requests)
      BY <1>1
    <3> HIDE DEF s
    <3>3. 0 \in 0..Len(s)
      <4>1. Len(s) \in Nat
        BY <3>2
      <4> QED BY <4>1
    <3>4. Bytes(s, 0) \in Seq(Tokens)
      BY <3>2, <3>3, BytesAre
    <3> QED BY <3>4 DEF s
  <2>2. stream = [c \in Clients |-> Bytes(asked[c], 0)]
    BY AskedType DEF Init
  <2> QED BY <2>1, <2>2
<1>3. DOMAIN tree \subseteq Seq(Tokens) /\ \A k \in DOMAIN tree : tree[k] \in Seq(Tokens)
  <2>1. PICK K \in SUBSET Keys : tree \in [K -> Values \ {<< >>}]
    BY WordAssumption DEF Init, ConnInit
  <2>2. Keys \cup Values \subseteq Seq(Tokens)
    BY WordAssumption, SeqMonotonic DEF Tokens
  <2> QED BY <2>1, <2>2
<1>4. did \in [Clients -> Seq([req : Calls, answer : Answers])]
  <2>1. << >> \in Seq([req : Calls, answer : Answers])
    BY EmptySeq
  <2> QED BY <2>1 DEF Init, ConnInit
<1>5. task \in [Clients -> [at : Stages, req : Calls \cup {Garbled}]] /\ \A c \in Clients : task[c] = Idle
  BY GarbledIs DEF Init
<1> QED BY <1>1, <1>2, <1>3, <1>4, <1>5, GarbledIs DEF PyTypes, Init

\* What Taken leaves is typed, and what was read as well.
LEMMA ReadType ==
    ASSUME PyTypes, NEW c \in Clients, NEW n \in Reads(c)
    PROVE  /\ n \in 1..Len(stream[c])
           /\ SubSeq(stream[c], 1, n) \in Seq(Tokens)
           /\ Len(SubSeq(stream[c], 1, n)) = n
           /\ \A i \in 1..n : SubSeq(stream[c], 1, n)[i] = stream[c][i]
           /\ SubSeq(stream[c], n + 1, Len(stream[c])) \in Seq(Tokens)
<1> DEFINE st == stream[c]
<1>1. st \in Seq(Tokens) /\ Len(st) \in Nat /\ n \in 1..Len(st)
  BY DEF PyTypes, Reads
<1> HIDE DEF st
<1>2. /\ SubSeq(st, 1, n) \in Seq(Tokens)
      /\ Len(SubSeq(st, 1, n)) = IF 1 <= n THEN n - 1 + 1 ELSE 0
      /\ \A i \in 1..(n - 1 + 1) : SubSeq(st, 1, n)[i] = st[1 + i - 1]
  <2>1. n \in Int /\ \A i \in 1..n : st[i] \in Tokens
    BY <1>1
  <2> QED BY <2>1, SubSeqProperties
<1>3. SubSeq(st, n + 1, Len(st)) \in Seq(Tokens)
  <2>1. n + 1 \in Int /\ Len(st) \in Int /\ \A i \in (n + 1)..Len(st) : st[i] \in Tokens
    BY <1>1
  <2> QED BY <2>1, SubSeqProperties
<1>4. Len(SubSeq(st, 1, n)) = n /\ \A i \in 1..n : SubSeq(st, 1, n)[i] = st[i]
  BY <1>1, <1>2
<1> QED BY <1>1, <1>2, <1>3, <1>4 DEF st

\* A read leaves the handler idle, or with a call: the put of a SET, or the get of
\* another.
LEMMA BegunIs ==
    ASSUME PyTypes, NEW c \in Clients, NEW chunk \in Seq(Tokens), task[c] = Idle,
           task' = Begun(c, Parsed(chunk))
    PROVE  /\ Parsed(chunk) = Garbled => task' = task
           /\ Parsed(chunk) # Garbled =>
                 /\ task' = [task EXCEPT ![c] = [at |-> IF Parsed(chunk).op = "SET" THEN "put" ELSE "get",
                                                req |-> Parsed(chunk)]]
                 /\ Parsed(chunk) \in Calls
           /\ task' \in [Clients -> [at : Stages, req : Calls \cup {Garbled}]]
           /\ \A d \in Clients : d # c => task'[d] = task[d]
           /\ task'[c].at \in {"read", "put", "get"}
           /\ task'[c].at = "read" <=> task'[c].req = Garbled
           /\ task'[c].at = "put" => task'[c].req.op = "SET"
           /\ task'[c].req = Parsed(chunk)
           /\ task'[c] = Idle <=> Parsed(chunk) = Garbled
<1> DEFINE r == Parsed(chunk)
           x == [at |-> IF r.op = "SET" THEN "put" ELSE "get", req |-> r]
<1>1. task \in [Clients -> [at : Stages, req : Calls \cup {Garbled}]]
  BY DEF PyTypes
<1>2. CASE r = Garbled
  <2>1. task' = task
    BY <1>2 DEF Begun
  <2> QED BY <1>1, <1>2, <2>1, GarbledIs
<1>3. CASE r # Garbled
  <2>1. r \in Calls
    BY <1>3, ParsedType
  <2>2. task' = [task EXCEPT ![c] = x]
    BY <1>3 DEF Begun
  <2> HIDE DEF r
  <2>3. x \in [at : Stages, req : Calls \cup {Garbled}] /\ x.at \in {"put", "get"} /\ x.req = r
    BY <2>1 DEF Stages
  <2>4. x.at = "put" => x.req.op = "SET"
    BY <2>1
  <2>5. x # Idle
    BY <2>3, GarbledIs
  <2>6. task'[c] = x /\ \A d \in Clients : d # c => task'[d] = task[d]
    BY <1>1, <2>2
  <2>7. task' \in [Clients -> [at : Stages, req : Calls \cup {Garbled}]]
    <3> HIDE DEF x
    <3> QED BY <1>1, <2>2, <2>3
  <2>8. r # Garbled
    BY <1>3 DEF r
  <2> QED BY <2>1, <2>2, <2>3, <2>4, <2>5, <2>6, <2>7, <2>8 DEF r
<1> QED BY <1>2, <1>3

LEMMA TypesRead ==
    ASSUME PyTypes, NEW c \in Clients, Read(c)
    PROVE  PyTypes'
<1>1. PICK n \in Reads(c) : Taken(c, n) /\ task' = Begun(c, Parsed(SubSeq(stream[c], 1, n)))
  BY DEF Read
<1> DEFINE chunk == SubSeq(stream[c], 1, n)
<1>2. chunk \in Seq(Tokens) /\ SubSeq(stream[c], n + 1, Len(stream[c])) \in Seq(Tokens)
  BY ReadType
<1>3. task[c] = Idle
  BY DEF Read, Quiet
<1>4. stream' \in [Clients -> Seq(Tokens)]
  BY <1>1, <1>2 DEF PyTypes, Taken
<1> HIDE DEF chunk
<1>5. task' = Begun(c, Parsed(chunk))
  BY <1>1 DEF chunk
<1>6. /\ task' \in [Clients -> [at : Stages, req : Calls \cup {Garbled}]]
      /\ \A d \in Clients : d # c => task'[d] = task[d]
      /\ task'[c].at \in {"read", "put", "get"}
      /\ task'[c].at = "read" <=> task'[c].req = Garbled
      /\ task'[c].at = "put" => task'[c].req.op = "SET"
  BY <1>2, <1>3, <1>5, BegunIs
<1>7. UNCHANGED <<tree, asked, did, mutex, server, misled>>
  BY DEF Read
<1>10. misled' \subseteq {d \in Clients : task'[d].at = "remove"}
  <2>1. c \notin misled
    BY <1>3, GarbledIs DEF PyTypes
  <2>2. misled' = misled /\ misled \subseteq Clients /\ \A d \in misled : task[d].at = "remove"
    BY <1>7 DEF PyTypes
  <2>3. ASSUME NEW d \in misled' PROVE d \in Clients /\ task'[d].at = "remove"
    <3>1. d \in Clients /\ d # c /\ task[d].at = "remove"
      BY <2>1, <2>2, <2>3
    <3>2. task'[d] = task[d]
      BY <1>6, <3>1
    <3> QED BY <3>1, <3>2
  <2> QED BY <2>3
<1>8. \A d \in Clients :
          /\ task'[d].at = "read" <=> task'[d].req = Garbled
          /\ task'[d].at = "put" => task'[d].req.op = "SET"
          /\ task'[d].at = "remove" => task'[d].req.op = "DEL"
  <2>1. ASSUME NEW d \in Clients
        PROVE  /\ task[d].at = "read" <=> task[d].req = Garbled
               /\ task[d].at = "put" => task[d].req.op = "SET"
               /\ task[d].at = "remove" => task[d].req.op = "DEL"
    BY DEF PyTypes
  <2>2. ASSUME NEW d \in Clients, d # c PROVE task'[d] = task[d]
    BY <1>6, <2>2
  <2> QED BY <1>6, <2>1, <2>2
<1>9. mutex' # Free => task'[mutex'] # Idle
  BY <1>3, <1>6, <1>7 DEF PyTypes
<1> QED BY <1>4, <1>6, <1>7, <1>8, <1>9, <1>10 DEF PyTypes

\* The answers of the engine's calls.
LEMMA CallType ==
    ASSUME PyTypes, NEW c \in Clients, task[c] # Idle
    PROVE  /\ task[c].req \in Calls
           /\ task[c].req.args[1] \in Seq(Tokens)
           /\ task[c].req.op = "SET" => task[c].req.args[2] \in Seq(Tokens)
<1>1. task[c].req \in Calls
  BY IdleIs
<1>2. ASSUME NEW q \in Calls
      PROVE  q.args[1] \in Seq(Tokens) /\ (q.op = "SET" => q.args[2] \in Seq(Tokens))
  <2>1. q.args \in Seq(Seq(Tokens)) /\ Len(q.args) = Arity(q.op)
    BY DEF Calls
  <2> DEFINE a == q.args
  <2>2. \A i \in 1..Len(a) : a[i] \in Seq(Tokens)
    <3>1. a \in Seq(Seq(Tokens))
      BY <2>1
    <3> HIDE DEF a
    <3> QED BY <3>1, SeqFacts
  <2>3. 1 \in 1..Len(a) /\ (q.op = "SET" => 2 \in 1..Len(a))
    BY <2>1 DEF Arity
  <2> QED BY <2>2, <2>3
<1> QED BY <1>1, <1>2

LEMMA AnswerType ==
    ASSUME PyTypes, NEW c \in Clients, task[c] # Idle, NEW answer \in Answers, Answer(c, answer)
    PROVE  /\ did' \in [Clients -> Seq([req : Calls, answer : Answers])]
           /\ task' \in [Clients -> [at : Stages, req : Calls \cup {Garbled}]]
           /\ task'[c] = Idle
           /\ \A d \in Clients : d # c => task'[d] = task[d] /\ did'[d] = did[d]
           /\ did'[c] = Append(did[c], [req |-> task[c].req, answer |-> answer])
           /\ Len(did[c]) \in Nat /\ Len(did'[c]) = Len(did[c]) + 1
           /\ \A i \in 1..Len(did[c]) : did'[c][i] = did[c][i]
           /\ did'[c][Len(did[c]) + 1] = [req |-> task[c].req, answer |-> answer]
<1> DEFINE x == [req |-> task[c].req, answer |-> answer]
           D == [req : Calls, answer : Answers]
           s == did[c]
<1>1. task \in [Clients -> [at : Stages, req : Calls \cup {Garbled}]] /\ did \in [Clients -> Seq(D)]
  BY DEF PyTypes
<1>2. x \in D
  <2>1. task[c].req \in Calls
    BY CallType
  <2> QED BY <2>1
<1>3. did' = [did EXCEPT ![c] = Append(s, x)] /\ task' = [task EXCEPT ![c] = Idle]
  BY DEF Answer
<1> HIDE DEF x, D
<1>4. s \in Seq(D) /\ Len(s) \in Nat
  BY <1>1
<1> HIDE DEF s
<1>5. /\ Append(s, x) \in Seq(D) /\ Len(Append(s, x)) = Len(s) + 1
      /\ \A i \in 1..Len(s) : Append(s, x)[i] = s[i]
      /\ Append(s, x)[Len(s) + 1] = x
  BY <1>2, <1>4, AppendProperties
<1>6. did' \in [Clients -> Seq(D)] /\ did'[c] = Append(s, x) /\ \A d \in Clients : d # c => did'[d] = did[d]
  BY <1>1, <1>3, <1>5
<1>7. /\ task' \in [Clients -> [at : Stages, req : Calls \cup {Garbled}]]
      /\ task'[c] = Idle /\ \A d \in Clients : d # c => task'[d] = task[d]
  BY <1>1, <1>3, GarbledIs
<1> QED BY <1>4, <1>5, <1>6, <1>7 DEF x, D, s

LEMMA TypesCall ==
    ASSUME PyTypes, NEW c \in Clients, Call(c)
    PROVE  PyTypes'
<1>1. ASSUME Enter(c) PROVE PyTypes'
  <2>1. UNCHANGED <<stream, asked, tree, task, did, misled>> /\ task[c] # Idle
    BY <1>1 DEF Enter, connVars
  <2>2. /\ mutex' \in Clients \cup {Free} /\ (mutex' # Free => task'[mutex'] # Idle)
        /\ server' \in {"up", "closing", "exited", "undefined"}
    BY <1>1, <2>1 DEF PyTypes, Enter
  <2> QED BY <2>1, <2>2 DEF PyTypes
<1>2. ASSUME NEW answer \in Answers, task[c] # Idle, Answer(c, answer), mutex' = Free,
             DOMAIN tree' \subseteq Seq(Tokens), \A k \in DOMAIN tree' : tree'[k] \in Seq(Tokens),
             UNCHANGED <<stream, asked, server>>, misled' \subseteq misled \ {c}
      PROVE  PyTypes'
  <2>1. /\ did' \in [Clients -> Seq([req : Calls, answer : Answers])]
        /\ task' \in [Clients -> [at : Stages, req : Calls \cup {Garbled}]]
        /\ task'[c] = Idle /\ \A d \in Clients : d # c => task'[d] = task[d]
    BY <1>2, AnswerType
  <2>2. \A d \in Clients :
            /\ task'[d].at = "read" <=> task'[d].req = Garbled
            /\ task'[d].at = "put" => task'[d].req.op = "SET"
            /\ task'[d].at = "remove" => task'[d].req.op = "DEL"
    <3>1. ASSUME NEW d \in Clients
          PROVE  /\ task[d].at = "read" <=> task[d].req = Garbled
                 /\ task[d].at = "put" => task[d].req.op = "SET"
                 /\ task[d].at = "remove" => task[d].req.op = "DEL"
      BY DEF PyTypes
    <3>2. Idle.at = "read" /\ Idle.req = Garbled
      BY GarbledIs
    <3> QED BY <2>1, <3>1, <3>2
  <2>3. misled' \subseteq {d \in Clients : task'[d].at = "remove"}
    BY <1>2, <2>1 DEF PyTypes
  <2> QED BY <1>2, <2>1, <2>2, <2>3 DEF PyTypes
<1>3. ASSUME PutKey(c) PROVE PyTypes'
  <2>1. task[c] # Idle /\ task[c].req.op = "SET"
    BY <1>3, GarbledIs DEF PyTypes, PutKey, InTree
  <2>2. task[c].req.args[1] \in Seq(Tokens) /\ task[c].req.args[2] \in Seq(Tokens)
    BY <2>1, CallType
  <2>3. DOMAIN tree' \subseteq Seq(Tokens) /\ \A k \in DOMAIN tree' : tree'[k] \in Seq(Tokens)
    BY <1>3, <2>2 DEF PyTypes, PutKey, With
  <2>4. misled' \subseteq misled \ {c}
    BY <1>3 DEF PyTypes, PutKey, InTree
  <2> QED BY <1>2, <1>3, <2>1, <2>3, <2>4 DEF PutKey, Answers
<1>4. ASSUME GetKey(c) PROVE PyTypes'
  <2>1. task[c] # Idle /\ task[c].at = "get"
    BY <1>4, GarbledIs DEF GetKey, InTree
  <2>2. UNCHANGED <<stream, tree, asked, server>> /\ mutex' = Free
    BY <1>4 DEF GetKey
  <2>3. CASE misled' = misled /\ \E answer \in Answers : Answer(c, answer)
    <3>1. misled' \subseteq misled \ {c}
      BY <2>1, <2>3 DEF PyTypes
    <3> QED BY <1>2, <2>1, <2>2, <2>3, <3>1 DEF PyTypes
  <2>4. CASE /\ task[c].req.op = "DEL" /\ task' = [task EXCEPT ![c].at = "remove"] /\ UNCHANGED did
             /\ misled' \subseteq misled \cup {c}
    <3>1. /\ task' \in [Clients -> [at : Stages, req : Calls \cup {Garbled}]]
          /\ task'[c].at = "remove" /\ task'[c].req = task[c].req
          /\ \A d \in Clients : d # c => task'[d] = task[d]
      <4>1. task \in [Clients -> [at : Stages, req : Calls \cup {Garbled}]]
        BY DEF PyTypes
      <4> QED BY <2>4, <4>1 DEF Stages
    <3>2. task[c].req # Garbled
      BY <2>1 DEF PyTypes
    <3>3. \A d \in Clients :
              /\ task'[d].at = "read" <=> task'[d].req = Garbled
              /\ task'[d].at = "put" => task'[d].req.op = "SET"
              /\ task'[d].at = "remove" => task'[d].req.op = "DEL"
      BY <2>4, <3>1, <3>2 DEF PyTypes
    <3>4. misled' \subseteq {d \in Clients : task'[d].at = "remove"}
      BY <2>4, <3>1 DEF PyTypes
    <3> QED BY <2>2, <2>4, <3>1, <3>3, <3>4 DEF PyTypes
  <2>5. \/ misled' = misled /\ \E answer \in Answers : Answer(c, answer)
        \/ /\ task[c].req.op = "DEL" /\ task' = [task EXCEPT ![c].at = "remove"] /\ UNCHANGED did
           /\ misled' \subseteq misled \cup {c}
    BY <1>4 DEF GetKey, Found, Answers
  <2> QED BY <2>3, <2>4, <2>5
<1>5. ASSUME RemoveKey(c) PROVE PyTypes'
  <2>1. task[c] # Idle
    BY <1>5, GarbledIs DEF RemoveKey, InTree
  <2>2. task[c].req.args[1] \in Seq(Tokens) /\ << >> \in Seq(Tokens)
    BY <2>1, CallType, EmptySeq
  <2>3. DOMAIN tree' \subseteq Seq(Tokens) /\ \A k \in DOMAIN tree' : tree'[k] \in Seq(Tokens)
    BY <1>5, <2>2 DEF PyTypes, RemoveKey, With
  <2>4. misled' \subseteq misled \ {c}
    BY <1>5 DEF RemoveKey
  <2>5. \E answer \in Answers : Answer(c, answer)
    BY <1>5 DEF RemoveKey, Answers
  <2> QED BY <1>2, <1>5, <2>1, <2>3, <2>4, <2>5 DEF RemoveKey
<1> QED BY <1>1, <1>3, <1>4, <1>5 DEF Call

LEMMA TypesStep == PyTypes /\ [Next]_vars => PyTypes'
<1> SUFFICES ASSUME PyTypes, [Next]_vars PROVE PyTypes'
  OBVIOUS
<1>1. CASE Serve
  BY <1>1, TypesRead, TypesCall DEF Serve
<1>2. CASE Interrupt
  BY <1>2 DEF PyTypes, Interrupt, connVars
<1>3. CASE Exit
  BY <1>3 DEF PyTypes, Exit, connVars
<1>4. CASE UNCHANGED vars
  BY <1>4 DEF PyTypes, vars, connVars
<1> QED BY <1>1, <1>2, <1>3, <1>4 DEF Next

LEMMA TypesTypeOK == PyTypes => PyTypeOK
<1> SUFFICES ASSUME PyTypes PROVE PyTypeOK
  OBVIOUS
<1>1. ASSUME NEW c \in Clients, NEW i \in DOMAIN did[c] PROVE did[c][i].answer \in Answers
  <2> DEFINE D == [req : Calls, answer : Answers]
             s == did[c]
  <2>1. did \in [Clients -> Seq(D)]
    BY DEF PyTypes
  <2>2. \A x \in D : x.answer \in Answers
    OBVIOUS
  <2> HIDE DEF D
  <2>3. s \in Seq(D)
    BY <2>1
  <2> HIDE DEF s
  <2>4. \A j \in DOMAIN s : s[j] \in D
    BY <2>3
  <2> QED BY <2>2, <2>4 DEF s
<1>2. \A c \in Clients : task[c].at \in Stages
  BY DEF PyTypes
<1> QED BY <1>1, <1>2 DEF PyTypes, PyTypeOK, Answers, Stages

\* The stages of the handlers; the mutex belongs to a handler in a call.
THEOREM PyTypeCorrect == Spec => []PyTypeOK
<1>1. Init => PyTypes
  BY TypesInit
<1>2. PyTypes /\ [Next]_vars => PyTypes'
  BY TypesStep
<1>3. PyTypes => PyTypeOK
  BY TypesTypeOK
<1> QED BY <1>1, <1>2, <1>3, PTL DEF Spec

----------------------------------------------------------------------------
(* One handler of a loop *)

LEMMA OneInit == Init => OneOnALoop
  BY DEF Init, OneOnALoop

LEMMA OneStep == PyTypes /\ OneOnALoop /\ [Next]_vars => OneOnALoop'
<1> SUFFICES ASSUME PyTypes, OneOnALoop, [Next]_vars PROVE OneOnALoop'
  OBVIOUS
<1>1. ASSUME NEW c \in Clients, Read(c) PROVE OneOnALoop'
  <2>1. PICK n \in Reads(c) : task' = Begun(c, Parsed(SubSeq(stream[c], 1, n)))
    BY <1>1 DEF Read
  <2>2. \A d \in Clients : d # c => task'[d] = task[d]
    <3>1. SubSeq(stream[c], 1, n) \in Seq(Tokens)
      BY ReadType
    <3>2. task[c] = Idle
      BY <1>1 DEF Read, Quiet
    <3> QED BY <2>1, <3>1, <3>2, BegunIs
  <2>3. \A d \in Clients : LoopOf[d] = LoopOf[c] => task[d] = Idle
    BY <1>1 DEF Read, Quiet
  <2> QED BY <2>2, <2>3 DEF OneOnALoop
<1>2. ASSUME \A c \in Clients : task'[c] # Idle => task[c] # Idle PROVE OneOnALoop'
  BY <1>2 DEF OneOnALoop
<1>3. ASSUME NEW c \in Clients, Call(c) PROVE \A d \in Clients : task'[d] # Idle => task[d] # Idle
  <2>1. task \in [Clients -> [at : Stages, req : Calls \cup {Garbled}]]
    BY DEF PyTypes
  <2>2. task[c] # Idle
    BY <1>3, GarbledIs DEF Call, Enter, PutKey, GetKey, RemoveKey, InTree
  <2>3. \A d \in Clients : d # c => task'[d] = task[d]
    BY <1>3, <2>1 DEF Call, Enter, PutKey, GetKey, Found, RemoveKey, Answer
  <2> QED BY <2>2, <2>3
<1>4. ASSUME UNCHANGED task PROVE OneOnALoop'
  BY <1>2, <1>4
<1> QED BY <1>1, <1>2, <1>3, <1>4 DEF Next, Serve, Interrupt, Exit, vars

----------------------------------------------------------------------------
(* What was told of removals *)

\* OkSet for the answers h.
Counts(x, op, k) == x.answer = "OK" /\ x.req.op = op /\ x.req.args[1] = k
OkSetOf(h, op, k) ==
    {p \in UNION {{c} \X DOMAIN h[c] : c \in Clients} : Counts(h[p[1]][p[2]], op, k)}

LEMMA OkSetIs ==
    /\ \A op, k : OkSet(op, k) = OkSetOf(did, op, k) /\ OkSet(op, k)' = OkSetOf(did', op, k)
    /\ \A h, op, k, p :
          p \in OkSetOf(h, op, k)
            <=> \E d \in Clients : \E i \in DOMAIN h[d] : p = <<d, i>> /\ Counts(h[d][i], op, k)
<1>1. \A op, k : OkSet(op, k) = OkSetOf(did, op, k) /\ OkSet(op, k)' = OkSetOf(did', op, k)
  BY DEF OkSet, OkSetOf, Counts
<1>2. ASSUME NEW h, NEW op, NEW k, NEW p
      PROVE  p \in OkSetOf(h, op, k)
               <=> \E d \in Clients : \E i \in DOMAIN h[d] : p = <<d, i>> /\ Counts(h[d][i], op, k)
  <2> DEFINE U == UNION {{c} \X DOMAIN h[c] : c \in Clients}
  <2>1. p \in U <=> \E d \in Clients : \E i \in DOMAIN h[d] : p = <<d, i>>
    OBVIOUS
  <2>2. p \in OkSetOf(h, op, k) <=> p \in U /\ Counts(h[p[1]][p[2]], op, k)
    BY DEF OkSetOf
  <2> HIDE DEF U
  <2> QED BY <2>1, <2>2
<1> QED BY <1>1, <1>2

\* An answer counts if it is OK, for its operation and its key.
LEMMA OkStep ==
    ASSUME PyTypes, NEW c \in Clients, task[c] # Idle, NEW answer \in Answers, Answer(c, answer),
           NEW op, NEW k, IsFiniteSet(OkSet(op, k))
    PROVE  LET one == answer = "OK" /\ task[c].req.op = op /\ task[c].req.args[1] = k
           IN  /\ Oks(op, k) \in Nat
               /\ IsFiniteSet(OkSet(op, k)')
               /\ one => Oks(op, k)' = Oks(op, k) + 1
               /\ ~one => Oks(op, k)' = Oks(op, k)
<1> DEFINE m == Len(did[c]) + 1
           one == answer = "OK" /\ task[c].req.op = op /\ task[c].req.args[1] = k
           Ok(x) == Counts(x, op, k)
           new == [req |-> task[c].req, answer |-> answer]
<1>1. /\ \A d \in Clients : d # c => did'[d] = did[d]
      /\ m \in Nat /\ DOMAIN did[c] = 1..(m - 1) /\ DOMAIN did'[c] = 1..m
      /\ \A i \in 1..(m - 1) : did'[c][i] = did[c][i]
      /\ did'[c][m] = new
  <2>1. /\ \A d \in Clients : d # c => did'[d] = did[d]
        /\ Len(did[c]) \in Nat /\ Len(did'[c]) = Len(did[c]) + 1
        /\ \A i \in 1..Len(did[c]) : did'[c][i] = did[c][i]
        /\ did'[c][Len(did[c]) + 1] = new
        /\ did' \in [Clients -> Seq([req : Calls, answer : Answers])]
    BY AnswerType
  <2>2. DOMAIN did[c] = 1..Len(did[c]) /\ DOMAIN did'[c] = 1..Len(did'[c])
    <3>1. did[c] \in Seq([req : Calls, answer : Answers]) /\ did'[c] \in Seq([req : Calls, answer : Answers])
      BY <2>1 DEF PyTypes
    <3> DEFINE D == [req : Calls, answer : Answers]
    <3>2. \A s \in Seq(D) : DOMAIN s = 1..Len(s)
      OBVIOUS
    <3> QED BY <3>1, <3>2
  <2>3. (Len(did[c]) + 1) - 1 = Len(did[c])
    BY <2>1
  <2> QED BY <2>1, <2>2, <2>3
<1>2. Ok(new) <=> one
  BY DEF Counts
<1>3. \A p : p \in OkSet(op, k) <=> \E d \in Clients : \E i \in DOMAIN did[d] : p = <<d, i>> /\ Ok(did[d][i])
  BY OkSetIs
<1>4. \A p : p \in OkSet(op, k)' <=> \E d \in Clients : \E i \in DOMAIN did'[d] : p = <<d, i>> /\ Ok(did'[d][i])
  BY OkSetIs
<1> HIDE DEF Ok, new, m, one
<1>5. <<c, m>> \notin OkSet(op, k)
  BY <1>1, <1>3
<1>6. ASSUME NEW p, p # <<c, m>> PROVE p \in OkSet(op, k) <=> p \in OkSet(op, k)'
  <2>1. ASSUME NEW d \in Clients, NEW i, p = <<d, i>>
        PROVE  /\ i \in DOMAIN did[d] <=> i \in DOMAIN did'[d]
               /\ i \in DOMAIN did[d] => did'[d][i] = did[d][i]
    BY <1>1, <1>6, <2>1
  <2> QED BY <1>3, <1>4, <2>1
<1>7. <<c, m>> \in OkSet(op, k)' <=> one
  <2>1. m \in DOMAIN did'[c]
    <3>1. m \in 1..m
      BY <1>1 DEF m
    <3> QED BY <1>1, <3>1
  <2> QED BY <1>1, <1>2, <1>4, <2>1
<1>8. one => OkSet(op, k)' = OkSet(op, k) \cup {<<c, m>>}
  BY <1>6, <1>7
<1>9. ~one => OkSet(op, k)' = OkSet(op, k)
  BY <1>5, <1>6, <1>7
<1>10. /\ Oks(op, k) \in Nat
       /\ IsFiniteSet(OkSet(op, k) \cup {<<c, m>>})
       /\ Cardinality(OkSet(op, k) \cup {<<c, m>>}) = Oks(op, k) + 1
  BY <1>5, FS_AddElement, FS_CardinalityType DEF Oks
<1>11. Oks(op, k)' = Cardinality(OkSet(op, k)')
  BY DEF Oks
<1>12. one => IsFiniteSet(OkSet(op, k)') /\ Oks(op, k)' = Oks(op, k) + 1
  BY <1>8, <1>10, <1>11
<1>13. ~one => IsFiniteSet(OkSet(op, k)') /\ Oks(op, k)' = Oks(op, k)
  BY <1>9, <1>11 DEF Oks
<1> QED BY <1>10, <1>12, <1>13 DEF one

\* There are not more of these handlers than loops.
LEMMA RemovingFew ==
    ASSUME PyTypes, OneOnALoop, NEW k
    PROVE  /\ IsFiniteSet(Removing(k))
           /\ Cardinality(Loops) \in Nat /\ Cardinality(Removing(k)) \in Nat
           /\ Cardinality(Removing(k)) <= Cardinality(Loops)
<1> DEFINE f == [c \in Removing(k) |-> LoopOf[c]]
<1>1. \A c, d \in Removing(k) : f[c] = f[d] => c = d
  BY GarbledIs DEF OneOnALoop, Removing
<1>2. f \in [Removing(k) -> Loops]
  BY LoopAssumption DEF Removing
<1>3. f \in Injection(Removing(k), Loops)
  <2> HIDE DEF f
  <2> QED BY <1>1, <1>2 DEF Injection, IsInjective
<1>4. IsFiniteSet(Loops)
  BY LoopAssumption
<1>5. IsFiniteSet(Removing(k)) /\ Cardinality(Removing(k)) <= Cardinality(Loops)
  <2> HIDE DEF f
  <2> QED BY <1>3, <1>4, FS_Injection
<1> QED BY <1>4, <1>5, FS_CardinalityType

LEMMA OksNat ==
    ASSUME NEW k, DeletesCounted(k)
    PROVE  Oks("SET", k) \in Nat /\ Oks("DEL", k) \in Nat
  BY FS_CardinalityType DEF DeletesCounted, Oks

LEMMA LoopsTimes == \A l, n \in Nat : l * (n + 1) = l * n + l /\ l * n \in Nat
  OBVIOUS

\* A step that touches neither what was told of a key, nor its value, nor the
\* handlers about to remove it.
LEMMA DeletesSame ==
    ASSUME NEW k, DeletesCounted(k),
           IsFiniteSet(OkSet("SET", k)'), IsFiniteSet(OkSet("DEL", k)'),
           Oks("SET", k)' = Oks("SET", k), Oks("DEL", k)' = Oks("DEL", k),
           Value(tree, k)' = Value(tree, k), Removing(k)' = Removing(k)
    PROVE  DeletesCounted(k)'
  BY DEF DeletesCounted

LEMMA DeletesInit == Init => DeletesInv
<1> SUFFICES ASSUME Init, NEW k \in Seq(Tokens) PROVE DeletesCounted(k)
  BY DEF DeletesInv
<1>1. PyTypes /\ OneOnALoop
  BY TypesInit, OneInit
<1>2. \A op : OkSet(op, k) = {}
  <2>1. \A c \in Clients : DOMAIN did[c] = {}
    <3>1. \A c \in Clients : did[c] = << >>
      BY DEF Init, ConnInit
    <3>2. DOMAIN << >> = {}
      OBVIOUS
    <3> QED BY <3>1, <3>2
  <2>2. TAKE op
  <2>3. \A p : p \notin OkSet(op, k)
    BY <2>1, OkSetIs
  <2> QED BY <2>3
<1>3. Removing(k) = {}
  BY GarbledIs DEF Init, Removing
<1>4. \A op : IsFiniteSet(OkSet(op, k)) /\ Oks(op, k) = 0
  BY <1>2, FS_EmptySet DEF Oks
<1>5. Cardinality(Removing(k)) = 0 /\ Cardinality(Loops) \in Nat
  BY <1>1, <1>3, FS_EmptySet, RemovingFew
<1>6. 0 <= Cardinality(Loops) * 0 /\ 0 + 0 <= Cardinality(Loops) * (0 + 1)
  BY <1>5
<1> QED BY <1>4, <1>5, <1>6 DEF DeletesCounted

\* A read leaves it all as it is.
LEMMA DeletesRead ==
    ASSUME PyTypes, NEW k, DeletesCounted(k), NEW c \in Clients, Read(c)
    PROVE  DeletesCounted(k)'
<1>1. PICK n \in Reads(c) : task' = Begun(c, Parsed(SubSeq(stream[c], 1, n)))
  BY DEF Read
<1>2. task[c] = Idle
  BY DEF Read, Quiet
<1>3. /\ \A d \in Clients : d # c => task'[d] = task[d]
      /\ task'[c].at \in {"read", "put", "get"}
  BY <1>1, <1>2, ReadType, BegunIs
<1>5. did' = did /\ tree' = tree /\ misled' = misled
  BY DEF Read
<1>4. Removing(k)' = Removing(k)
  BY <1>2, <1>3, <1>5, GarbledIs DEF Removing
<1> QED BY <1>4, <1>5 DEF DeletesCounted, Value, Oks, OkSet

\* A write counts for its key: there may be one removal more for each loop.
LEMMA DeletesPut ==
    ASSUME PyTypes, OneOnALoop, NEW k, DeletesCounted(k), NEW c \in Clients, PutKey(c)
    PROVE  DeletesCounted(k)'
<1> DEFINE key == task[c].req.args[1]
           v == task[c].req.args[2]
<1>1. /\ task[c].at = "put" /\ task[c].req.op = "SET" /\ task[c] # Idle
      /\ Answer(c, "OK") /\ "OK" \in Answers
      /\ tree' = With(tree, key, v)
      /\ misled' = misled
  BY GarbledIs DEF PutKey, InTree, PyTypes, Answers
<1>2. /\ task'[c] = Idle /\ \A d \in Clients : d # c => task'[d] = task[d]
  BY <1>1, AnswerType
<1>3. Removing(k)' = Removing(k)
  BY <1>1, <1>2, GarbledIs DEF Removing
<1>4. /\ IsFiniteSet(OkSet("SET", k)') /\ IsFiniteSet(OkSet("DEL", k)')
      /\ Oks("DEL", k)' = Oks("DEL", k)
      /\ Oks("SET", k)' = IF key = k THEN Oks("SET", k) + 1 ELSE Oks("SET", k)
  <2>1. IsFiniteSet(OkSet("SET", k)) /\ IsFiniteSet(OkSet("DEL", k))
    BY DEF DeletesCounted
  <2>2. /\ IsFiniteSet(OkSet("SET", k)')
        /\ key = k => Oks("SET", k)' = Oks("SET", k) + 1
        /\ key # k => Oks("SET", k)' = Oks("SET", k)
    BY <1>1, <2>1, OkStep
  <2>3. IsFiniteSet(OkSet("DEL", k)') /\ Oks("DEL", k)' = Oks("DEL", k)
    BY <1>1, <2>1, OkStep
  <2> QED BY <2>2, <2>3
<1>5. CASE key # k
  <2>1. Value(tree, k)' = Value(tree, k)
    BY <1>1, <1>5 DEF Value, With
  <2> QED BY <1>3, <1>4, <1>5, <2>1, DeletesSame
<1>6. CASE key = k
  <2> DEFINE l == Cardinality(Loops)
             sets == Oks("SET", k)
             dels == Oks("DEL", k)
             rem == Cardinality(Removing(k))
             here == Value(tree, k) # << >>
  <2>1. /\ l \in Nat /\ sets \in Nat /\ dels \in Nat /\ rem \in Nat /\ rem <= l
        /\ here => dels <= l * sets
        /\ ~here => dels + rem <= l * (sets + 1)
    BY RemovingFew, OksNat DEF DeletesCounted
  <2>2. sets' = sets + 1 /\ dels' = dels /\ rem' = rem /\ l' = l
    BY <1>3, <1>4, <1>6
  <2> HIDE DEF l, sets, dels, rem, here
  <2>3. /\ l * (sets + 1) = l * sets + l
        /\ l * ((sets + 1) + 1) = l * (sets + 1) + l
        /\ l * sets \in Nat /\ l * (sets + 1) \in Nat
    BY <2>1, LoopsTimes
  <2>4. dels + rem <= l * (sets + 1) + l /\ dels <= l * (sets + 1)
    <3> DEFINE x == l * sets
               y == l * (sets + 1)
    <3>1. x \in Nat /\ y \in Nat /\ y = x + l /\ (here => dels <= x) /\ (~here => dels + rem <= y)
      BY <2>1, <2>3
    <3> HIDE DEF x, y
    <3>2. dels + rem <= y + l /\ dels <= y
      BY <2>1, <3>1
    <3> QED BY <3>2 DEF y
  <2>5. dels' <= l * sets' /\ dels' + rem' <= l * (sets' + 1)
    BY <2>1, <2>2, <2>3, <2>4
  <2> QED BY <1>4, <2>5 DEF DeletesCounted, l, sets, dels, rem
<1> QED BY <1>5, <1>6

\* A look tells of no removal, but may leave one to come -- while there is a value.
LEMMA DeletesGet ==
    ASSUME PyTypes, OneOnALoop, NEW k, DeletesCounted(k), NEW c \in Clients, GetKey(c)
    PROVE  DeletesCounted(k)'
<1>1. task[c].at = "get" /\ task[c] # Idle /\ tree' = tree
  BY GarbledIs DEF GetKey, InTree
<1>2. CASE misled' = misled /\ \E answer \in Answers : answer # "OK" /\ Answer(c, answer)
  <2>1. PICK answer \in Answers : answer # "OK" /\ Answer(c, answer)
    BY <1>2
  <2>2. /\ task'[c] = Idle /\ \A d \in Clients : d # c => task'[d] = task[d]
    BY <1>1, <2>1, AnswerType
  <2>3. Removing(k)' = Removing(k)
    BY <1>1, <1>2, <2>2, GarbledIs DEF Removing
  <2>4. \A op : IsFiniteSet(OkSet(op, k)) => IsFiniteSet(OkSet(op, k)') /\ Oks(op, k)' = Oks(op, k)
    BY <1>1, <2>1, OkStep
  <2>5. IsFiniteSet(OkSet("SET", k)) /\ IsFiniteSet(OkSet("DEL", k)) /\ Value(tree, k)' = Value(tree, k)
    BY <1>1 DEF DeletesCounted, Value
  <2> QED BY <2>3, <2>4, <2>5, DeletesSame
<1>3. CASE /\ task' = [task EXCEPT ![c].at = "remove"] /\ UNCHANGED did
           /\ misled' = IF Value(tree, task[c].req.args[1]) # << >> THEN misled ELSE misled \cup {c}
  <2>1. /\ task'[c].req = task[c].req
        /\ \A d \in Clients : d # c => task'[d] = task[d]
    <3>1. task \in [Clients -> [at : Stages, req : Calls \cup {Garbled}]]
      BY DEF PyTypes
    <3> QED BY <1>3, <3>1
  <2>2. /\ Value(tree, k)' = Value(tree, k)
        /\ \A op : OkSet(op, k)' = OkSet(op, k) /\ Oks(op, k)' = Oks(op, k)
    BY <1>1, <1>3 DEF Value, OkSet, Oks
  <2>3. CASE task[c].req.args[1] = k /\ Value(tree, k) # << >>
    BY <1>3, <2>2, <2>3 DEF DeletesCounted
  <2>4. CASE task[c].req.args[1] # k \/ Value(tree, k) = << >>
    <3>1. Removing(k)' = Removing(k)
      BY <1>1, <1>3, <2>1, <2>4 DEF Removing
    <3> QED BY <2>2, <3>1 DEF DeletesCounted
  <2> QED BY <2>3, <2>4
<1>4. \/ misled' = misled /\ \E answer \in Answers : answer # "OK" /\ Answer(c, answer)
      \/ /\ task' = [task EXCEPT ![c].at = "remove"] /\ UNCHANGED did
         /\ misled' = IF Value(tree, task[c].req.args[1]) # << >> THEN misled ELSE misled \cup {c}
  BY DEF GetKey, Found, HasValue, Value, Answers
<1> QED BY <1>2, <1>3, <1>4

\* A removal that is told of was about to be told of.
LEMMA DeletesRemove ==
    ASSUME PyTypes, OneOnALoop, NEW k, DeletesCounted(k), NEW c \in Clients, RemoveKey(c)
    PROVE  DeletesCounted(k)'
<1> DEFINE key == task[c].req.args[1]
           ok == IF c \in misled THEN "OK, misled" ELSE "OK"
<1>1. /\ task[c].at = "remove" /\ task[c].req.op = "DEL" /\ task[c] # Idle
      /\ Answer(c, ok) /\ ok \in Answers /\ (ok = "OK" <=> c \notin misled)
      /\ tree' = With(tree, key, << >>)
      /\ misled' = misled \ {c}
  BY GarbledIs DEF RemoveKey, InTree, PyTypes, Answers
<1>2. /\ task'[c] = Idle /\ \A d \in Clients : d # c => task'[d] = task[d]
  BY <1>1, AnswerType
<1> HIDE DEF ok
<1>3. /\ IsFiniteSet(OkSet("SET", k)') /\ IsFiniteSet(OkSet("DEL", k)')
      /\ Oks("SET", k)' = Oks("SET", k)
      /\ Oks("DEL", k)' = IF key = k /\ c \notin misled THEN Oks("DEL", k) + 1 ELSE Oks("DEL", k)
  <2>1. IsFiniteSet(OkSet("SET", k)) /\ IsFiniteSet(OkSet("DEL", k))
    BY DEF DeletesCounted
  <2>2. /\ IsFiniteSet(OkSet("DEL", k)')
        /\ key = k /\ c \notin misled => Oks("DEL", k)' = Oks("DEL", k) + 1
        /\ ~(key = k /\ c \notin misled) => Oks("DEL", k)' = Oks("DEL", k)
    BY <1>1, <2>1, OkStep
  <2>3. IsFiniteSet(OkSet("SET", k)') /\ Oks("SET", k)' = Oks("SET", k)
    BY <1>1, <2>1, OkStep
  <2> QED BY <2>2, <2>3
<1>4. CASE key # k
  <2>1. Value(tree, k)' = Value(tree, k)
    BY <1>1, <1>4 DEF Value, With
  <2>2. Removing(k)' = Removing(k)
    BY <1>1, <1>2, <1>4, GarbledIs DEF Removing
  <2> QED BY <1>3, <1>4, <2>1, <2>2, DeletesSame
<1>6. CASE key = k /\ c \in misled
  <2> DEFINE l == Cardinality(Loops)
             sets == Oks("SET", k)
             dels == Oks("DEL", k)
             rem == Cardinality(Removing(k))
  <2>1. /\ l \in Nat /\ sets \in Nat /\ dels \in Nat /\ rem \in Nat /\ rem <= l
        /\ dels <= l * sets \/ dels + rem <= l * (sets + 1)
    BY RemovingFew, OksNat DEF DeletesCounted
  <2>2. Removing(k)' = Removing(k)
    BY <1>1, <1>2, <1>6, GarbledIs DEF Removing
  <2>3. sets' = sets /\ dels' = dels /\ rem' = rem /\ l' = l
    BY <1>3, <1>6, <2>2
  <2>4. Value(tree, k)' = << >>
    BY <1>1, <1>6 DEF Value, With
  <2> HIDE DEF l, sets, dels, rem
  <2>5. l * (sets + 1) = l * sets + l /\ l * sets \in Nat
    BY <2>1, LoopsTimes
  <2>6. dels + rem <= l * (sets + 1)
    <3> DEFINE x == l * sets
               y == l * (sets + 1)
    <3>1. x \in Nat /\ y = x + l /\ (dels <= x \/ dels + rem <= y)
      BY <2>1, <2>5
    <3> HIDE DEF x, y
    <3>2. dels + rem <= y
      BY <2>1, <3>1
    <3> QED BY <3>2 DEF y
  <2>7. dels' + rem' <= l * (sets' + 1)
    BY <2>3, <2>6
  <2> QED BY <1>3, <2>4, <2>7 DEF DeletesCounted, l, sets, dels, rem
<1>5. CASE key = k /\ c \notin misled
  <2> DEFINE l == Cardinality(Loops)
             sets == Oks("SET", k)
             dels == Oks("DEL", k)
             rem == Cardinality(Removing(k))
             here == Value(tree, k) # << >>
  <2>1. /\ l \in Nat /\ sets \in Nat /\ dels \in Nat /\ rem \in Nat /\ rem <= l
        /\ here => dels <= l * sets
        /\ ~here => dels + rem <= l * (sets + 1)
    BY RemovingFew, OksNat DEF DeletesCounted
  <2>2. c \in Removing(k) /\ Removing(k)' = Removing(k) \ {c}
    BY <1>1, <1>2, <1>5, GarbledIs DEF Removing
  <2>3. Cardinality(Removing(k) \ {c}) = Cardinality(Removing(k)) - 1
    BY <2>2, RemovingFew, FS_RemoveElement
  <2>4. sets' = sets /\ dels' = dels + 1 /\ rem' = rem - 1 /\ l' = l
    BY <1>3, <1>5, <2>2, <2>3
  <2>5. Value(tree, k)' = << >>
    BY <1>1, <1>5 DEF Value, With
  <2> HIDE DEF l, sets, dels, rem, here
  <2>6. l * (sets + 1) = l * sets + l /\ l * sets \in Nat
    BY <2>1, LoopsTimes
  <2>7. (dels + 1) + (rem - 1) <= l * (sets + 1)
    <3> DEFINE x == l * sets
               y == l * (sets + 1)
    <3>1. x \in Nat /\ y = x + l /\ (here => dels <= x) /\ (~here => dels + rem <= y)
      BY <2>1, <2>6
    <3> HIDE DEF x, y
    <3>2. (dels + 1) + (rem - 1) <= y
      BY <2>1, <3>1
    <3> QED BY <3>2 DEF y
  <2>8. dels' + rem' <= l * (sets' + 1)
    BY <2>4, <2>7
  <2> QED BY <1>3, <2>5, <2>8 DEF DeletesCounted, l, sets, dels, rem
<1> QED BY <1>4, <1>5, <1>6

LEMMA DeletesStep == PyTypes /\ OneOnALoop /\ DeletesInv /\ [Next]_vars => DeletesInv'
<1> SUFFICES ASSUME PyTypes, OneOnALoop, DeletesInv, [Next]_vars, NEW k \in Seq(Tokens)
             PROVE  DeletesCounted(k)'
  BY DEF DeletesInv
<1>1. DeletesCounted(k)
  BY DEF DeletesInv
<1>2. ASSUME UNCHANGED <<tree, did, task, misled>> PROVE DeletesCounted(k)'
  BY <1>1, <1>2 DEF DeletesCounted, Value, Oks, OkSet, Removing
<1>3. CASE Serve
  BY <1>1, <1>2, <1>3, DeletesRead, DeletesPut, DeletesGet, DeletesRemove
     DEF Serve, Call, Enter, connVars
<1>4. CASE Interrupt \/ Exit \/ UNCHANGED vars
  BY <1>2, <1>4 DEF Interrupt, Exit, vars, connVars
<1> QED BY <1>3, <1>4 DEF Next

\* A DEL looks and then removes, so that several may be told that they deleted one
\* value -- but no more than there are loops, however many clients there are, and
\* whatever the engine finds.  (handle_del)
THEOREM DeletesPerWriteAlways == Spec => []DeletesPerWrite
<1> DEFINE Inv == PyTypes /\ OneOnALoop /\ DeletesInv
<1>1. Init => Inv
  BY TypesInit, OneInit, DeletesInit
<1>2. Inv /\ [Next]_vars => Inv'
  BY TypesStep, OneStep, DeletesStep
<1>3. Inv => DeletesPerWrite
  <2> SUFFICES ASSUME Inv, NEW k \in DOMAIN tree
               PROVE  Oks("DEL", k) <= Cardinality(Loops) * (Oks("SET", k) + 1)
    BY DEF DeletesPerWrite
  <2> DEFINE x == Cardinality(Loops) * Oks("SET", k)
             y == Cardinality(Loops) * (Oks("SET", k) + 1)
  <2>1. DeletesCounted(k)
    BY DEF DeletesInv, PyTypes
  <2>2. /\ Cardinality(Loops) \in Nat /\ Cardinality(Removing(k)) \in Nat
        /\ Oks("SET", k) \in Nat /\ Oks("DEL", k) \in Nat
    BY <2>1, RemovingFew, OksNat
  <2>3. x \in Nat /\ y = x + Cardinality(Loops)
    BY <2>2, LoopsTimes
  <2>4. \/ Oks("DEL", k) <= x
        \/ Oks("DEL", k) + Cardinality(Removing(k)) <= y
    BY <2>1 DEF DeletesCounted
  <2> HIDE DEF x, y
  <2>5. Oks("DEL", k) <= y
    BY <2>2, <2>3, <2>4
  <2> QED BY <2>5 DEF y
<1> HIDE DEF Inv
<1> QED BY <1>1, <1>2, <1>3, PTL DEF Spec

----------------------------------------------------------------------------
(* What is executed was sent *)

LEMMA SentInit == Init => SentInv
<1> SUFFICES ASSUME Init, NEW c \in Clients PROVE Sent(c)
  BY DEF SentInv
<1>1. ConnInit /\ task[c] = Idle /\ did[c] = << >> /\ Len(did[c]) = 0
  BY DEF Init, ConnInit
<1>2. stream[c] = Bytes(asked[c], 0) /\ asked[c] \in Seq(Requests)
  BY <1>1, AskedType
<1>3. IsLeft(stream[c], asked[c], 0, << >>)
  <2> DEFINE s == asked[c]
  <2>1. s \in Seq(Requests)
    BY <1>2
  <2> HIDE DEF s
  <2>2. 0 \in 0..Len(s)
    <3>1. Len(s) \in Nat
      BY <2>1
    <3> QED BY <3>1
  <2>3. Bytes(s, 0) \in Seq(Tokens)
    BY <2>1, <2>2, BytesAre
  <2>4. << >> \o Bytes(s, 0) = Bytes(s, 0)
    BY <2>3, ConcatEmptySeq
  <2>5. StarFree(<< >>)
    BY EmptySeq DEF StarFree
  <2> QED BY <1>2, <2>2, <2>4, <2>5 DEF s, IsLeft
<1>4. Got(c) = 0
  BY <1>1 DEF Got
<1>5. Matched(c, 0, [i \in 1..0 |-> 0])
  BY <1>4 DEF Matched
<1> QED BY <1>3, <1>5 DEF Sent

\* A client for which nothing new was read.
LEMMA SentSame ==
    ASSUME NEW c \in Clients, Sent(c), stream'[c] = stream[c], asked' = asked,
           Got(c)' = Got(c), \A i \in 1..Got(c) : Nth(c, i)' = Nth(c, i)
    PROVE  Sent(c)'
<1>1. PICK q, rest, f : IsLeft(stream[c], asked[c], q, rest) /\ Matched(c, q, f)
  BY DEF Sent
<1>2. IsLeft(stream[c], asked[c], q, rest)'
  BY <1>1 DEF IsLeft
<1>3. Matched(c, q, f)'
  BY <1>1 DEF Matched
<1> QED BY <1>2, <1>3 DEF Sent

LEMMA SentCall ==
    ASSUME PyTypes, NEW c \in Clients, Call(c), NEW d \in Clients, Sent(d)
    PROVE  Sent(d)'
<1>1. stream' = stream /\ asked' = asked
  BY DEF Call, Enter, PutKey, GetKey, RemoveKey, connVars
<1>2. CASE did'[d] = did[d] /\ task'[d].req = task[d].req /\ (task'[d] = Idle <=> task[d] = Idle)
  <2>1. Got(d)' = Got(d) /\ \A i \in 1..Got(d) : Nth(d, i)' = Nth(d, i)
    BY <1>2 DEF Got, Nth
  <2> QED BY <1>1, <2>1, SentSame
<1>3. CASE d = c /\ task[c] # Idle /\ \E answer \in Answers : Answer(c, answer)
  <2>1. /\ task'[c] = Idle
        /\ Len(did[c]) \in Nat /\ Len(did'[c]) = Len(did[c]) + 1
        /\ \A i \in 1..Len(did[c]) : did'[c][i] = did[c][i]
        /\ did'[c][Len(did[c]) + 1].req = task[c].req
    <3>1. PICK answer \in Answers : Answer(c, answer)
      BY <1>3
    <3>2. did'[c][Len(did[c]) + 1] = [req |-> task[c].req, answer |-> answer]
      BY <1>3, <3>1, AnswerType
    <3> QED BY <1>3, <3>1, <3>2, AnswerType
  <2>2. Got(c) = Len(did[c]) + 1 /\ Got(c)' = Got(c)
    BY <1>3, <2>1 DEF Got
  <2>3. ASSUME NEW i \in 1..Got(c) PROVE Nth(c, i)' = Nth(c, i)
    <3>1. i <= Len(did'[c])
      BY <2>1, <2>2
    <3>2. CASE i <= Len(did[c])
      BY <2>1, <2>2, <3>1, <3>2 DEF Nth
    <3>3. CASE i = Len(did[c]) + 1
      <4>1. ~(i <= Len(did[c]))
        BY <2>1, <3>3
      <4> QED BY <2>1, <3>1, <3>3, <4>1 DEF Nth
    <3> QED BY <2>1, <2>2, <3>2, <3>3
  <2> QED BY <1>1, <1>3, <2>2, <2>3, SentSame
<1>4. CASE d = c /\ task' = [task EXCEPT ![c].at = "remove"] /\ UNCHANGED did /\ task[c] # Idle
  <2>1. task \in [Clients -> [at : Stages, req : Calls \cup {Garbled}]]
    BY DEF PyTypes
  <2>2. task'[c].req = task[c].req /\ task'[c].at = "remove"
    BY <1>4, <2>1
  <2>3. task'[c] # Idle
    BY <2>2, GarbledIs
  <2> QED BY <1>2, <1>4, <2>2, <2>3
<1>5. CASE d # c
  <2>1. task \in [Clients -> [at : Stages, req : Calls \cup {Garbled}]]
        /\ did \in [Clients -> Seq([req : Calls, answer : Answers])]
    BY DEF PyTypes
  <2>2. task'[d] = task[d] /\ did'[d] = did[d]
    BY <1>5, <2>1 DEF Call, Enter, PutKey, GetKey, Found, RemoveKey, Answer, connVars
  <2> QED BY <1>2, <2>2
<1>6. CASE d = c /\ Enter(c)
  BY <1>2, <1>6 DEF Enter, connVars
<1>7. CASE d = c /\ (PutKey(c) \/ RemoveKey(c))
  <2>1. task[c] # Idle
    BY <1>7, GarbledIs DEF PutKey, RemoveKey, InTree
  <2>2. \E answer \in Answers : Answer(c, answer)
    BY <1>7 DEF PutKey, RemoveKey, Answers
  <2> QED BY <1>3, <1>7, <2>1, <2>2
<1>8. CASE d = c /\ GetKey(c)
  <2>1. task[c] # Idle
    BY <1>8, GarbledIs DEF GetKey, InTree
  <2>2. \/ \E answer \in Answers : Answer(c, answer)
        \/ task' = [task EXCEPT ![c].at = "remove"] /\ UNCHANGED did
    BY <1>8 DEF GetKey, Found, Answers
  <2> QED BY <1>3, <1>4, <1>8, <2>1, <2>2
<1> QED BY <1>5, <1>6, <1>7, <1>8 DEF Call

Piece(c, n) == SubSeq(stream[c], 1, n)

\* The first n bytes of c begin with its request q + 1, and that is read from them.
IsNext(c, n, q, rest) ==
    /\ rest = << >>
    /\ q + 1 \in 1..Len(asked[c])
    /\ MayBe(asked[c][q + 1], Parsed(Piece(c, n)))

\* A read that gives a call began at the start of a request, and is that request.
LEMMA ReadIsNext ==
    ASSUME PyTypes, NEW c \in Clients, NEW n \in Reads(c), NEW q, NEW rest,
           IsLeft(stream[c], asked[c], q, rest), Parsed(Piece(c, n)) # Garbled
    PROVE  IsNext(c, n, q, rest)
<1> DEFINE r == Parsed(Piece(c, n))
           s == asked[c]
           st == stream[c]
           chunk == SubSeq(st, 1, n)
<1>1. /\ s \in Seq(Requests) /\ st \in Seq(Tokens)
      /\ n \in 1..Len(st) /\ chunk \in Seq(Tokens) /\ Len(chunk) = n
      /\ \A i \in 1..n : chunk[i] = st[i]
  BY ReadType DEF PyTypes
<1>2. /\ q \in 0..Len(s) /\ StarFree(rest) /\ st = rest \o Bytes(s, q)
  BY DEF IsLeft
<1>3. r = Parsed(chunk) /\ r # Garbled
  BY DEF Piece
<1> HIDE DEF r, s, st, chunk
<1>4. Len(s) \in Nat /\ Len(st) \in Nat /\ Bytes(s, q) \in Seq(Tokens)
  BY <1>1, <1>2, BytesAre
<1>5. chunk[1] = "*" /\ Len(chunk) >= 3 /\ n \in Nat
  <2>1. Parsed(chunk) # Garbled
    BY <1>3
  <2>2. chunk[1] = "*" /\ Len(chunk) >= 3
    BY <1>1, <2>1, ParsedType
  <2>3. n \in Nat
    BY <1>1, <1>4
  <2> QED BY <2>2, <2>3
<1>6. st[1] = "*"
  BY <1>1, <1>5
<1>7. rest = << >>
  <2>1. SUFFICES ASSUME rest # << >> PROVE FALSE
    OBVIOUS
  <2>2. /\ rest \in Seq(Tokens) /\ Len(rest) \in Nat /\ 1 \in 1..Len(rest)
        /\ rest[1] # "*"
    <3>1. rest \in Seq(Tokens) /\ \A i \in 1..Len(rest) : rest[i] # "*"
      BY <1>2 DEF StarFree
    <3>2. Len(rest) \in Nat /\ Len(rest) # 0
      BY <2>1, <3>1, SeqFacts
    <3>3. 1 \in 1..Len(rest)
      BY <3>2
    <3> QED BY <3>1, <3>2, <3>3
  <2>3. st[1] = rest[1]
    BY <1>2, <1>4, <2>2, ConcatProperties
  <2> QED BY <1>6, <2>2, <2>3
<1>8. st = Bytes(s, q)
  BY <1>2, <1>4, <1>7, ConcatEmptySeq
<1>9. q # Len(s)
  <2>1. SUFFICES ASSUME q = Len(s) PROVE FALSE
    OBVIOUS
  <2>2. st = << >>
    BY <1>1, <1>8, <2>1, BytesAre
  <2> QED BY <1>1, <1>5, <2>2
<1>10. q \in 0..(Len(s) - 1) /\ q + 1 \in 1..Len(s) /\ q + 1 \in 0..Len(s)
  BY <1>2, <1>4, <1>9
<1> DEFINE w == Wire(s[q + 1])
<1>11. st = w \o Bytes(s, q + 1)
  BY <1>1, <1>8, <1>10, BytesAre
<1>12. s[q + 1] \in Requests /\ w \in Seq(Tokens) /\ Bytes(s, q + 1) \in Seq(Tokens)
  <2>1. s[q + 1] \in Requests
    BY <1>1, <1>10
  <2> QED BY <1>1, <1>10, <2>1, BytesAre, WireStars
<1> HIDE DEF w
<1>13. \A i \in 1..Len(chunk) : i <= Len(w) => chunk[i] = w[i]
  <2> DEFINE b == Bytes(s, q + 1)
  <2>1. st = w \o b /\ w \in Seq(Tokens) /\ b \in Seq(Tokens)
    BY <1>11, <1>12
  <2> HIDE DEF b
  <2>2. /\ Len(w) \in Nat /\ Len(b) \in Nat
        /\ \A i \in 1..(Len(w) + Len(b)) : st[i] = IF i <= Len(w) THEN w[i] ELSE b[i - Len(w)]
    BY <2>1, ConcatProperties
  <2>3. ASSUME NEW i \in 1..Len(chunk), i <= Len(w) PROVE chunk[i] = w[i]
    <3>1. i \in 1..(Len(w) + Len(b))
      BY <1>1, <1>5, <2>2, <2>3
    <3>2. st[i] = w[i]
      BY <2>2, <2>3, <3>1
    <3> QED BY <1>1, <2>3, <3>2
  <2> QED BY <2>3
<1>14. MayBe(s[q + 1], r)
  <2> DEFINE x == s[q + 1]
  <2>1. x \in Requests /\ w = Wire(x)
    BY <1>12 DEF w
  <2> HIDE DEF x
  <2>2. Parsed(chunk) # Garbled
    BY <1>3
  <2>3. MayBe(x, Parsed(chunk))
    BY <1>1, <1>13, <2>1, <2>2, ParsedIs
  <2> QED BY <1>3, <2>3 DEF x
<1> QED BY <1>7, <1>10, <1>14 DEF r, s, IsNext

LEMMA SentRead ==
    ASSUME PyTypes, NEW c \in Clients, Read(c), NEW d \in Clients, Sent(d)
    PROVE  Sent(d)'
<1>1. PICK n \in Reads(c) : Taken(c, n) /\ task' = Begun(c, Parsed(SubSeq(stream[c], 1, n)))
  BY DEF Read
<1> DEFINE chunk == SubSeq(stream[c], 1, n)
           left == SubSeq(stream[c], n + 1, Len(stream[c]))
<1>2. chunk \in Seq(Tokens) /\ n \in 1..Len(stream[c])
  BY ReadType
<1>3. /\ task[c] = Idle /\ asked' = asked /\ did' = did
      /\ stream' = [stream EXCEPT ![c] = left]
  BY <1>1 DEF Read, Quiet, Taken
<1>4. /\ \A e \in Clients : e # c => task'[e] = task[e]
      /\ task'[c].req = Parsed(chunk)
      /\ task'[c] = Idle <=> Parsed(chunk) = Garbled
  BY <1>1, <1>2, <1>3, BegunIs
<1>5. stream'[c] = left /\ \A e \in Clients : e # c => stream'[e] = stream[e]
  BY <1>3 DEF PyTypes
<1> HIDE DEF left
<1>6. CASE d # c
  <2>1. Got(d)' = Got(d) /\ \A i \in 1..Got(d) : Nth(d, i)' = Nth(d, i)
    BY <1>3, <1>4, <1>6 DEF Got, Nth
  <2> QED BY <1>3, <1>5, <1>6, <2>1, SentSame
<1>7. CASE d = c
  <2>1. PICK q, rest, f : IsLeft(stream[c], asked[c], q, rest) /\ Matched(c, q, f)
    BY <1>7 DEF Sent
  <2>2. asked[c] \in Seq(Requests) /\ Len(did[c]) \in Nat
    <3>1. \A s \in Seq([req : Calls, answer : Answers]) : Len(s) \in Nat
      OBVIOUS
    <3> QED BY <3>1 DEF PyTypes
  <2>3. PICK p, new : /\ IsLeft(left, asked[c], p, new)
                      /\ p >= q
                      /\ rest = << >> => p > q
    BY <1>2, <2>1, <2>2, SuffixIsLeft DEF left
  <2>4. q \in 0..Len(asked[c]) /\ p \in 0..Len(asked[c]) /\ Len(asked[c]) \in Nat
    <3>1. Len(asked[c]) \in Nat
      BY <2>2, SeqFacts
    <3> QED BY <2>1, <2>3, <3>1 DEF IsLeft
  <2>5. Got(c) = Len(did[c])
    BY <1>3 DEF Got
  <2>6. IsLeft(stream[c], asked[c], p, new)'
    BY <1>3, <1>5, <2>3
  <2>7. /\ f \in [1..Got(c) -> 1..q]
        /\ \A i, j \in 1..Got(c) : i < j => f[i] < f[j]
        /\ \A i \in 1..Got(c) : MayBe(asked[c][f[i]], Nth(c, i))
    BY <2>1 DEF Matched
  <2>8. CASE Parsed(chunk) = Garbled
    <3>1. Got(c)' = Got(c)
      BY <1>3, <1>4, <2>5, <2>8 DEF Got
    <3>2. \A i \in 1..Got(c) : Nth(c, i)' = Nth(c, i)
      BY <1>3, <2>2, <2>5 DEF Nth
    <3>3. f \in [1..Got(c) -> 1..p]
      <4>1. 1..q \subseteq 1..p
        BY <2>3, <2>4
      <4> QED BY <2>7, <4>1
    <3>4. Matched(c, p, f)'
      BY <1>3, <2>7, <3>1, <3>2, <3>3 DEF Matched
    <3> QED BY <1>7, <2>6, <3>4 DEF Sent
  <2>9. CASE Parsed(chunk) # Garbled
    <3> PICK g : g = Len(did[c])
      OBVIOUS
    <3> PICK h : h = [i \in 1..(g + 1) |-> IF i = g + 1 THEN q + 1 ELSE f[i]]
      OBVIOUS
    <3>1. rest = << >> /\ MayBe(asked[c][q + 1], Parsed(chunk))
      <4>1. chunk = Piece(c, n)
        BY DEF Piece
      <4>2. Parsed(Piece(c, n)) # Garbled
        BY <2>9, <4>1
      <4>3. IsLeft(stream[c], asked[c], q, rest)
        BY <2>1
      <4> HIDE DEF chunk
      <4>4. IsNext(c, n, q, rest)
        BY <4>2, <4>3, ReadIsNext
      <4> QED BY <4>1, <4>4 DEF IsNext
    <3>2. Got(c)' = g + 1
      BY <1>3, <1>4, <2>9 DEF Got
    <3>3. /\ \A i \in 1..g : Nth(c, i)' = Nth(c, i)
          /\ Nth(c, g + 1)' = Parsed(chunk)
      BY <1>3, <1>4, <2>2 DEF Nth
    <3>4. g \in Nat /\ Got(c) = g /\ p > q
      BY <2>2, <2>3, <2>5, <3>1
    <3>5. \A i \in 1..g : f[i] \in 1..q
      BY <2>7, <3>4
    <3>6. h \in [1..(g + 1) -> 1..p]
      <4>1. ASSUME NEW i \in 1..(g + 1)
            PROVE  (IF i = g + 1 THEN q + 1 ELSE f[i]) \in 1..p
        <5>1. CASE i = g + 1
          BY <2>4, <3>4, <5>1
        <5>2. CASE i # g + 1
          <6>1. f[i] \in 1..q
            BY <3>4, <3>5, <5>2
          <6> QED BY <2>4, <3>4, <5>2, <6>1
        <5> QED BY <5>1, <5>2
      <4> QED BY <4>1
    <3>7. ASSUME NEW i \in 1..(g + 1), NEW j \in 1..(g + 1), i < j PROVE h[i] < h[j]
      <4>1. i \in 1..g /\ h[i] = f[i]
        BY <3>4, <3>7
      <4>2. CASE j = g + 1
        <5>1. h[j] = q + 1 /\ f[i] \in 1..q
          BY <3>5, <4>1, <4>2
        <5> QED BY <2>4, <4>1, <5>1
      <4>3. CASE j # g + 1
        <5>1. j \in 1..g /\ h[j] = f[j]
          BY <3>4, <4>3
        <5> QED BY <2>7, <3>4, <3>7, <4>1, <5>1
      <4> QED BY <4>2, <4>3
    <3>8. ASSUME NEW i \in 1..(g + 1) PROVE MayBe(asked[c][h[i]], Nth(c, i)')
      <4>1. CASE i = g + 1
        <5>1. h[i] = q + 1
          BY <4>1
        <5>2. MayBe(asked[c][q + 1], Nth(c, g + 1)')
          BY <3>1, <3>3
        <5> QED BY <4>1, <5>1, <5>2
      <4>2. CASE i # g + 1
        <5>1. i \in 1..g /\ h[i] = f[i]
          BY <3>4, <4>2
        <5> QED BY <2>7, <3>3, <3>4, <5>1
      <4> QED BY <4>1, <4>2
    <3>9. Matched(c, p, h)'
      <4>1. h \in [1..Got(c)' -> 1..p]
        BY <3>2, <3>6
      <4>2. \A i, j \in 1..Got(c)' : i < j => h[i] < h[j]
        BY <3>2, <3>7
      <4>3. \A i \in 1..Got(c)' : MayBe(asked'[c][h[i]], Nth(c, i)')
        BY <1>3, <3>2, <3>8
      <4> QED BY <4>1, <4>2, <4>3 DEF Matched
    <3> QED BY <1>7, <2>6, <3>9 DEF Sent
  <2> QED BY <2>8, <2>9
<1> QED BY <1>6, <1>7

LEMMA SentStep == PyTypes /\ SentInv /\ [Next]_vars => SentInv'
<1> SUFFICES ASSUME PyTypes, SentInv, [Next]_vars, NEW d \in Clients PROVE Sent(d)'
  BY DEF SentInv
<1>1. Sent(d)
  BY DEF SentInv
<1>2. CASE Serve
  BY <1>1, <1>2, SentRead, SentCall DEF Serve
<1>3. CASE Interrupt \/ Exit \/ UNCHANGED vars
  <2>1. UNCHANGED <<connVars, task>>
    BY <1>3 DEF Interrupt, Exit, vars
  <2>2. Got(d)' = Got(d) /\ \A i \in 1..Got(d) : Nth(d, i)' = Nth(d, i)
    BY <2>1 DEF connVars, Got, Nth
  <2> QED BY <1>1, <2>1, <2>2, SentSame DEF connVars
<1> QED BY <1>2, <1>3 DEF Next

\* Whatever words they have, and however the bytes are cut, the server executes for
\* every client only requests that this client sent, each at most once and in the
\* order in which they were sent; only the end of a last word may be lost.
\* (parse_resp, handle_client)
THEOREM ExecutedWereSentAlways == Spec => []ExecutedWereSent
<1> DEFINE Inv == PyTypes /\ SentInv
<1>1. Init => Inv
  BY TypesInit, SentInit
<1>2. Inv /\ [Next]_vars => Inv'
  BY TypesStep, SentStep
<1>3. Inv => ExecutedWereSent
  <2> SUFFICES ASSUME Inv, NEW c \in Clients
               PROVE  \E f \in [DOMAIN did[c] -> DOMAIN asked[c]] :
                         /\ \A i, j \in DOMAIN did[c] : i < j => f[i] < f[j]
                         /\ \A i \in DOMAIN did[c] : MayBe(asked[c][f[i]], did[c][i].req)
    BY DEF ExecutedWereSent, DidWhatWasSent
  <2>1. PICK q, rest, f : IsLeft(stream[c], asked[c], q, rest) /\ Matched(c, q, f)
    BY DEF SentInv, Sent
  <2> DEFINE n == Len(did[c])
             m == Len(asked[c])
             h == [i \in 1..n |-> f[i]]
  <2>2. n \in Nat /\ m \in Nat /\ DOMAIN did[c] = 1..n /\ DOMAIN asked[c] = 1..m
    <3>1. \A S : \A s \in Seq(S) : Len(s) \in Nat /\ DOMAIN s = 1..Len(s)
      OBVIOUS
    <3>2. asked[c] \in Seq(Requests) /\ did[c] \in Seq([req : Calls, answer : Answers])
      BY DEF PyTypes
    <3> QED BY <3>1, <3>2
  <2>3. q \in 0..m
    BY <2>1 DEF IsLeft
  <2>4. Got(c) \in {n, n + 1}
    BY DEF Got
  <2>5. \A i \in 1..n : Nth(c, i) = did[c][i].req
    BY <2>2 DEF Nth
  <2> HIDE DEF n, m
  <2>6. \A i \in 1..n : i \in 1..Got(c)
    BY <2>2, <2>4
  <2>7. \A i \in 1..Got(c) : f[i] \in 1..q
    BY <2>1 DEF Matched
  <2>8. h \in [1..n -> 1..m]
    <3>1. \A i \in 1..n : f[i] \in 1..m
      BY <2>2, <2>3, <2>6, <2>7
    <3> QED BY <3>1
  <2>9. /\ \A i, j \in 1..n : i < j => h[i] < h[j]
        /\ \A i \in 1..n : MayBe(asked[c][h[i]], did[c][i].req)
    BY <2>1, <2>5, <2>6 DEF Matched
  <2> HIDE DEF h
  <2> QED BY <2>2, <2>8, <2>9
<1> HIDE DEF Inv
<1> QED BY <1>1, <1>2, <1>3, PTL DEF Spec
====
