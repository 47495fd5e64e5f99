------------------------- MODULE RespClientsProofs --------------------------
(***************************************************************************)
(* Facts about what the clients of RespClients send, for the proofs about  *)
(* the servers: the bytes of a connection, where they fall apart into      *)
(* requests, and what is left of them when some have been read.            *)
(***************************************************************************)
EXTENDS RespClients, SequenceTheorems, WellFoundedInduction, TLAPS

----------------------------------------------------------------------------
(* Numbers and sequences *)

\* Induction: a set that holds 0 and the successor of each of its numbers holds
\* every number.
LEMMA SetInduction ==
    ASSUME NEW S, 0 \in S, \A n \in Nat : n \in S => n + 1 \in S
    PROVE  Nat \subseteq S
<1> DEFINE T == Nat \ S
           R == {ss \in Nat \X Nat : ss[1] < ss[2]}
<1>1. SUFFICES ASSUME T # {} PROVE FALSE
  OBVIOUS
<1>2. IsWellFoundedOn(R, Nat)
  BY NatLessThanWellFounded DEF OpToRel, IsWellFoundedOn
<1>3. T \subseteq Nat
  OBVIOUS
<1>4. PICK x \in T : \A y \in T : ~ (<<y, x>> \in R)
  <2> HIDE DEF T, R
  <2> QED BY <1>1, <1>2, <1>3, WFMin
<1>5. \A y \in T : ~(y < x)
  BY <1>4
<1>6. x # 0
  OBVIOUS
<1>7. x - 1 \in Nat /\ x - 1 < x
  BY <1>6
<1>8. x - 1 \in S
  BY <1>5, <1>7
<1>9. (x - 1) + 1 \in S
  BY <1>7, <1>8
<1>10. QED
  BY <1>9

\* The least of some numbers.
LEMMA MinIs ==
    ASSUME NEW I \in SUBSET Nat, I # {}
    PROVE  Min(I) \in I /\ \A y \in I : Min(I) <= y
<1> DEFINE R == {ss \in Nat \X Nat : ss[1] < ss[2]}
<1>1. IsWellFoundedOn(R, Nat)
  BY NatLessThanWellFounded DEF OpToRel, IsWellFoundedOn
<1>2. PICK x \in I : \A y \in I : ~ (<<y, x>> \in R)
  <2> HIDE DEF R
  <2> QED BY <1>1, WFMin
<1>3. \A y \in I : x <= y
  <2>1. TAKE y \in I
  <2>2. ~ (<<y, x>> \in R) /\ x \in Nat /\ y \in Nat
    BY <1>2
  <2> QED BY <2>2
<1>4. QED
  BY <1>3 DEF Min

\* A sequence put together from pieces, piece by piece: what FlattenSeq computes.
LEMMA FlattenIs ==
    ASSUME NEW S, NEW ws \in Seq(Seq(S)), Len(ws) > 0
    PROVE  \E g \in [1..Len(ws) -> Seq(S)] :
              /\ \A i \in 1..Len(ws) : g[i] = IF i = 1 THEN ws[i] ELSE g[i - 1] \o ws[i]
              /\ FlattenSeq(ws) = g[Len(ws)]
<1> DEFINE n == Len(ws)
           Upto(m, g) == \A i \in 1..m : g[i] = IF i = 1 THEN ws[i] ELSE g[i - 1] \o ws[i]
           T == {m \in Nat : m <= n => \E g \in [1..m -> Seq(S)] : Upto(m, g)}
           Rec(g) == g = [i \in 1..n |-> IF i = 1 THEN ws[i] ELSE g[i - 1] \o ws[i]]
<1>0. n \in Nat /\ n > 0 /\ \A i \in 1..n : ws[i] \in Seq(S)
  OBVIOUS
<1>1. 0 \in T
  <2>1. [i \in 1..0 |-> << >>] \in [1..0 -> Seq(S)]
    OBVIOUS
  <2>2. Upto(0, [i \in 1..0 |-> << >>])
    OBVIOUS
  <2> QED BY <2>1, <2>2
<1>2. ASSUME NEW m \in Nat, m \in T PROVE m + 1 \in T
  <2>1. SUFFICES ASSUME m + 1 <= n
                 PROVE  \E g \in [1..(m + 1) -> Seq(S)] : Upto(m + 1, g)
    <3> HIDE DEF Upto
    <3> QED BY <1>0
  <2>2. PICK g \in [1..m -> Seq(S)] : Upto(m, g)
    <3> HIDE DEF Upto
    <3> QED BY <1>0, <1>2, <2>1
  <2> DEFINE new == IF m = 0 THEN ws[1] ELSE g[m] \o ws[m + 1]
             h == [i \in 1..(m + 1) |-> IF i = m + 1 THEN new ELSE g[i]]
  <2>3. new \in Seq(S)
    <3>1. CASE m = 0
      BY <1>0, <3>1
    <3>2. CASE m # 0
      <4>1. g[m] \in Seq(S) /\ ws[m + 1] \in Seq(S)
        BY <1>0, <2>1, <3>2
      <4> QED BY <3>2, <4>1, ConcatProperties
    <3> QED BY <3>1, <3>2
  <2>4. h \in [1..(m + 1) -> Seq(S)]
    <3> HIDE DEF new
    <3> QED BY <2>3
  <2>5. ASSUME NEW i \in 1..(m + 1)
        PROVE  h[i] = IF i = 1 THEN ws[i] ELSE h[i - 1] \o ws[i]
    <3>1. CASE i = m + 1
      <4>1. h[i] = new
        BY <3>1
      <4>2. m # 0 => h[i - 1] = g[m]
        BY <3>1
      <4> QED BY <3>1, <4>1, <4>2
    <3>2. CASE i # m + 1
      <4>1. i \in 1..m /\ h[i] = g[i]
        BY <3>2
      <4>2. i # 1 => h[i - 1] = g[i - 1]
        BY <3>2
      <4>3. g[i] = IF i = 1 THEN ws[i] ELSE g[i - 1] \o ws[i]
        BY <2>2, <4>1
      <4> QED BY <4>1, <4>2, <4>3
    <3> QED BY <3>1, <3>2
  <2> QED
    <3> HIDE DEF h
    <3> QED BY <2>4, <2>5
<1>3. n \in T
  <2> HIDE DEF T
  <2> QED BY <1>0, <1>1, <1>2, SetInduction
<1>4. PICK g0 \in [1..n -> Seq(S)] : Upto(n, g0)
  BY <1>0, <1>3
<1>5. Rec(g0)
  BY <1>4
<1>6. Rec(CHOOSE g : Rec(g))
  BY <1>5
<1> DEFINE f == CHOOSE g : Rec(g)
<1>7. FlattenSeq(ws) = f[n]
  BY <1>0 DEF FlattenSeq
<1> DEFINE Same == {m \in Nat : m + 1 <= n => f[m + 1] = g0[m + 1]}
<1>8. \A i \in 1..n : f[i] = IF i = 1 THEN ws[i] ELSE f[i - 1] \o ws[i]
  <2>1. f = [i \in 1..n |-> IF i = 1 THEN ws[i] ELSE f[i - 1] \o ws[i]]
    BY <1>6
  <2> HIDE DEF f
  <2> QED BY <2>1
<1>9. n - 1 \in Same
  <2>0. \A i \in 1..n : g0[i] = IF i = 1 THEN ws[i] ELSE g0[i - 1] \o ws[i]
    BY <1>4
  <2> HIDE DEF f, Rec, n, Upto
  <2>1. 0 \in Same
    <3>1. 1 \in 1..n
      BY <1>0
    <3>2. f[1] = ws[1] /\ g0[1] = ws[1]
      BY <1>8, <2>0, <3>1
    <3> QED BY <3>2
  <2>2. ASSUME NEW m \in Nat, m \in Same PROVE m + 1 \in Same
    <3>1. SUFFICES ASSUME (m + 1) + 1 <= n PROVE f[(m + 1) + 1] = g0[(m + 1) + 1]
      OBVIOUS
    <3>2. (m + 1) + 1 \in 1..n /\ (m + 1) + 1 # 1 /\ ((m + 1) + 1) - 1 = m + 1
      BY <1>0, <3>1
    <3>3. f[m + 1] = g0[m + 1]
      BY <1>0, <2>2, <3>1
    <3>4. /\ f[(m + 1) + 1] = f[m + 1] \o ws[(m + 1) + 1]
          /\ g0[(m + 1) + 1] = g0[m + 1] \o ws[(m + 1) + 1]
      BY <1>8, <2>0, <3>2
    <3> QED BY <3>3, <3>4
  <2>3. Nat \subseteq Same
    <3> HIDE DEF Same
    <3> QED BY <2>1, <2>2, SetInduction
  <2>4. n - 1 \in Nat
    BY <1>0
  <2> HIDE DEF Same
  <2> QED BY <2>3, <2>4
<1>10. f[n] = g0[n]
  <2> HIDE DEF f, n
  <2>1. (n - 1) + 1 = n
    BY <1>0
  <2> QED BY <1>0, <1>9, <2>1
<1>11. QED
  <2>1. \A i \in 1..n : g0[i] = IF i = 1 THEN ws[i] ELSE g0[i - 1] \o ws[i]
    BY <1>4
  <2>2. FlattenSeq(ws) = g0[n]
    BY <1>7, <1>10
  <2> HIDE DEF f
  <2> QED BY <2>1, <2>2

\* What is put together is a sequence, and the first piece is at its start.
LEMMA FlattenEmpty ==
    ASSUME NEW S, NEW ws \in Seq(Seq(S)), Len(ws) = 0
    PROVE  FlattenSeq(ws) = << >>
<1>1. ws = << >>
  BY EmptySeq
<1> QED BY <1>1 DEF FlattenSeq

LEMMA FlattenType ==
    ASSUME NEW S, NEW ws \in Seq(Seq(S))
    PROVE  FlattenSeq(ws) \in Seq(S)
<1>1. CASE Len(ws) = 0
  BY <1>1, FlattenEmpty, EmptySeq
<1>2. CASE Len(ws) > 0
  <2>1. PICK g \in [1..Len(ws) -> Seq(S)] : FlattenSeq(ws) = g[Len(ws)]
    BY <1>2, FlattenIs
  <2>2. Len(ws) \in 1..Len(ws)
    BY <1>2
  <2> QED BY <2>1, <2>2
<1> QED BY <1>1, <1>2

LEMMA SeqFacts ==
    ASSUME NEW S, NEW s \in Seq(S)
    PROVE  /\ Len(s) \in Nat
           /\ \A i \in 1..Len(s) : s[i] \in S
           /\ Len(s) = 0 <=> s = << >>
           /\ s # << >> => /\ s[1] \in S
                           /\ Tail(s) \in Seq(S)
                           /\ Len(Tail(s)) = Len(s) - 1
                           /\ \A i \in 1..Len(Tail(s)) : Tail(s)[i] = s[i + 1]
<1>1. CASE s = << >>
  BY <1>1
<1>2. CASE s # << >>
  <2>1. /\ Len(s) \in Nat /\ Len(s) # 0
        /\ \A i \in 1..Len(s) : s[i] \in S
    BY <1>2, EmptySeq
  <2>2. s[1] \in S
    BY <2>1
  <2> QED BY <1>2, <2>1, <2>2, HeadTailProperties
<1> QED BY <1>1, <1>2

LEMMA ConcatThree ==
    \A S : \A a, b, d \in Seq(S) : (a \o b) \o d = a \o (b \o d)
  OBVIOUS

LEMMA FlattenCons ==
    ASSUME NEW S, NEW ws \in Seq(Seq(S)), Len(ws) > 0
    PROVE  FlattenSeq(ws) = ws[1] \o FlattenSeq(Tail(ws))
<1> DEFINE t == Tail(ws)
           k == Len(t)
<1>1. /\ Len(ws) \in Nat /\ ws # << >>
      /\ \A i \in 1..Len(ws) : ws[i] \in Seq(S)
  BY SeqFacts
<1>2. t \in Seq(Seq(S)) /\ Len(t) = Len(ws) - 1 /\ \A i \in 1..Len(t) : t[i] = ws[i + 1]
  BY <1>1, SeqFacts
<1>3. k \in Nat /\ Len(ws) = k + 1 /\ ws[1] \in Seq(S) /\ Len(t) = k /\ \A i \in 1..k : t[i] \in Seq(S)
  BY <1>1, <1>2, SeqFacts
<1> HIDE DEF t, k
<1>4. PICK g \in [1..(k + 1) -> Seq(S)] :
         /\ \A i \in 1..(k + 1) : g[i] = IF i = 1 THEN ws[i] ELSE g[i - 1] \o ws[i]
         /\ FlattenSeq(ws) = g[k + 1]
  <2>1. \E g \in [1..Len(ws) -> Seq(S)] :
           /\ \A i \in 1..Len(ws) : g[i] = IF i = 1 THEN ws[i] ELSE g[i - 1] \o ws[i]
           /\ FlattenSeq(ws) = g[Len(ws)]
    BY FlattenIs
  <2> QED BY <1>3, <2>1
<1>5. /\ g[1] = ws[1]
      /\ \A i \in 1..k : g[i + 1] = g[i] \o t[i]
  <2>1. 1 \in 1..(k + 1)
    BY <1>3
  <2>2. g[1] = ws[1]
    BY <1>4, <2>1
  <2>3. ASSUME NEW i \in 1..k PROVE g[i + 1] = g[i] \o t[i]
    <3>1. i + 1 \in 1..(k + 1) /\ i + 1 # 1 /\ (i + 1) - 1 = i
      BY <1>3
    <3>2. g[i + 1] = g[i] \o ws[i + 1]
      BY <1>4, <3>1
    <3>3. t[i] = ws[i + 1]
      BY <1>2, <1>3
    <3> QED BY <3>2, <3>3
  <2> QED BY <2>2, <2>3
<1>6. CASE k = 0
  <2>1. FlattenSeq(t) = << >>
    BY <1>2, <1>3, <1>6, FlattenEmpty
  <2>2. FlattenSeq(ws) = ws[1]
    BY <1>4, <1>5, <1>6
  <2> QED BY <1>3, <2>1, <2>2, ConcatEmptySeq DEF t
<1>7. CASE k # 0
  <2>1. PICK h \in [1..k -> Seq(S)] :
           /\ \A i \in 1..k : h[i] = IF i = 1 THEN t[i] ELSE h[i - 1] \o t[i]
           /\ FlattenSeq(t) = h[k]
    <3>1. Len(t) > 0
      BY <1>3, <1>7
    <3> QED BY <1>2, <1>3, <3>1, FlattenIs
  <2>2. /\ h[1] = t[1]
        /\ \A i \in 1..k : i # k => h[i + 1] = h[i] \o t[i + 1]
    <3>1. 1 \in 1..k
      BY <1>3, <1>7
    <3>2. h[1] = t[1]
      BY <2>1, <3>1
    <3>3. ASSUME NEW i \in 1..k, i # k PROVE h[i + 1] = h[i] \o t[i + 1]
      <4>1. i + 1 \in 1..k /\ i + 1 # 1 /\ (i + 1) - 1 = i
        BY <1>3, <3>3
      <4> QED BY <2>1, <4>1
    <3> QED BY <3>2, <3>3
  <2> DEFINE Same(i) == g[i + 1] = ws[1] \o h[i]
             T == {m \in Nat : m + 1 <= k => Same(m + 1)}
  <2>3. Same(1)
    <3>1. 1 \in 1..k /\ 1 + 1 = 2
      BY <1>3, <1>7
    <3>2. g[2] = ws[1] \o t[1]
      BY <1>5, <3>1
    <3> QED BY <2>2, <3>1, <3>2
  <2>4. ASSUME NEW i \in 1..k, i # k, Same(i) PROVE Same(i + 1)
    <3>1. i + 1 \in 1..k
      BY <1>3, <2>4
    <3> DEFINE first == ws[1]
               old == h[i]
               next == t[i + 1]
    <3>2. first \in Seq(S) /\ old \in Seq(S) /\ next \in Seq(S)
      BY <1>3, <2>1, <3>1
    <3>3. /\ g[(i + 1) + 1] = (first \o old) \o next
          /\ h[i + 1] = old \o next
      BY <1>5, <2>2, <2>4, <3>1
    <3>4. (first \o old) \o next = first \o (old \o next)
      <4>1. first \in Seq(S) /\ old \in Seq(S) /\ next \in Seq(S)
        BY <3>2
      <4> HIDE DEF first, old, next
      <4> QED BY <4>1, SMTT(30)
    <3>5. g[(i + 1) + 1] = first \o h[i + 1]
      <4> HIDE DEF first, old, next
      <4> QED BY <3>3, <3>4
    <3> QED BY <3>5
  <2> HIDE DEF Same
  <2>5. 0 \in T
    BY <2>3
  <2>6. ASSUME NEW m \in Nat, m \in T PROVE m + 1 \in T
    <3>1. SUFFICES ASSUME (m + 1) + 1 <= k PROVE Same((m + 1) + 1)
      OBVIOUS
    <3>2. m + 1 \in 1..k /\ m + 1 # k /\ m + 1 <= k
      BY <1>3, <3>1
    <3>3. Same(m + 1)
      BY <2>6, <3>2
    <3> QED BY <2>4, <3>2, <3>3
  <2>7. Nat \subseteq T
    <3> HIDE DEF T
    <3> QED BY <2>5, <2>6, SetInduction
  <2>8. k - 1 \in Nat /\ (k - 1) + 1 = k
    BY <1>3, <1>7
  <2>9. Same(k)
    <3>1. k - 1 \in T
      <4> HIDE DEF T
      <4> QED BY <2>7, <2>8
    <3> QED BY <1>3, <2>8, <3>1
  <2>10. g[k + 1] = ws[1] \o h[k]
    BY <2>9 DEF Same
  <2> QED BY <1>4, <2>1, <2>10 DEF t
<1> QED BY <1>6, <1>7

\* One piece, or two.
LEMMA FlattenFew ==
    ASSUME NEW S, NEW ws \in Seq(Seq(S))
    PROVE  /\ Len(ws) = 1 => FlattenSeq(ws) = ws[1]
           /\ Len(ws) = 2 => FlattenSeq(ws) = ws[1] \o ws[2]
<1>1. ASSUME NEW us \in Seq(Seq(S)), Len(us) = 1 PROVE FlattenSeq(us) = us[1]
  <2>1. us # << >> /\ Len(us) > 0
    BY <1>1
  <2>2. us[1] \in Seq(S) /\ Tail(us) \in Seq(Seq(S)) /\ Len(Tail(us)) = 0
    BY <1>1, <2>1, SeqFacts
  <2>3. FlattenSeq(us) = us[1] \o FlattenSeq(Tail(us))
    BY <2>1, FlattenCons
  <2>4. FlattenSeq(Tail(us)) = << >>
    BY <2>2, FlattenEmpty
  <2> QED BY <2>2, <2>3, <2>4, ConcatEmptySeq
<1>2. CASE Len(ws) = 2
  <2>1. ws # << >> /\ Len(ws) > 0
    BY <1>2
  <2>2. Tail(ws) \in Seq(Seq(S)) /\ Len(Tail(ws)) = 1 /\ \A i \in 1..Len(Tail(ws)) : Tail(ws)[i] = ws[i + 1]
    BY <1>2, <2>1, SeqFacts
  <2>3. Tail(ws)[1] = ws[2]
    BY <2>2
  <2>4. FlattenSeq(Tail(ws)) = Tail(ws)[1]
    BY <1>1, <2>2
  <2>5. FlattenSeq(ws) = ws[1] \o FlattenSeq(Tail(ws))
    BY <2>1, FlattenCons
  <2>6. FlattenSeq(ws) = ws[1] \o ws[2]
    BY <2>3, <2>4, <2>5
  <2> QED BY <1>2, <2>6
<1> QED BY <1>1, <1>2

----------------------------------------------------------------------------
(* Words and requests on the wire *)

Clean(w) == w \in Seq(Tokens) /\ \A i \in 1..Len(w) : w[i] \notin Marks

\* A word with its length in front and its line end behind.
WordBytes(w) == <<IF w = << >> THEN "$0" ELSE "$">> \o w \o <<"CR", "LF">>

\* A request has the words its operation takes, and none is like what stands
\* around words.
LEMMA RequestIs ==
    ASSUME NEW r \in Requests
    PROVE  /\ r.op \in Ops
           /\ Len(r.args) = Arity(r.op)
           /\ DOMAIN r.args = 1..Arity(r.op)
           /\ \A i \in 1..Arity(r.op) : Clean(r.args[i])
           /\ r = Request(r.op, r.args)
           /\ r.args \in Seq(Seq(Tokens))
<1>1. ASSUME NEW w \in Keys \cup Values PROVE Clean(w)
  <2>1. w \in Seq(Tokens) /\ Range(w) \cap Marks = {}
    <3>1. w \in Seq(STRING) /\ Range(w) \cap Marks = {}
      BY WordAssumption
    <3>2. STRING \subseteq Tokens
      BY DEF Tokens
    <3> QED BY <3>1, <3>2, SeqMonotonic
  <2>2. \A i \in 1..Len(w) : w[i] \in Range(w)
    BY <2>1 DEF Range
  <2> QED BY <2>1, <2>2 DEF Clean
<1> DEFINE Fine(q) == /\ q.op \in Ops
                      /\ Len(q.args) = Arity(q.op)
                      /\ DOMAIN q.args = 1..Arity(q.op)
                      /\ \A i \in 1..Arity(q.op) : Clean(q.args[i])
                      /\ q = Request(q.op, q.args)
                      /\ q.args \in Seq(Seq(Tokens))
<1>2. ASSUME NEW k \in Keys, NEW v \in Values PROVE Fine(Request("SET", <<k, v>>))
  <2>1. Clean(k) /\ Clean(v)
    BY <1>1
  <2>2. <<k, v>> \in Seq(Seq(Tokens))
    BY <2>1 DEF Clean
  <2> QED BY <2>1, <2>2 DEF Request, Arity, Ops
<1>3. ASSUME NEW op \in {"GET", "DEL"}, NEW k \in Keys PROVE Fine(Request(op, <<k>>))
  <2>1. Clean(k)
    BY <1>1
  <2>2. <<k>> \in Seq(Seq(Tokens))
    BY <2>1 DEF Clean
  <2> QED BY <2>1, <2>2 DEF Request, Arity, Ops
<1>4. \/ \E k \in Keys, v \in Values : r = Request("SET", <<k, v>>)
      \/ \E op \in {"GET", "DEL"}, k \in Keys : r = Request(op, <<k>>)
  BY DEF Requests
<1>5. Fine(r)
  <2> HIDE DEF Fine
  <2>1. CASE \E k \in Keys, v \in Values : r = Request("SET", <<k, v>>)
    BY <1>2, <2>1
  <2>2. CASE \E op \in {"GET", "DEL"}, k \in Keys : r = Request(op, <<k>>)
    BY <1>3, <2>2
  <2> QED BY <1>4, <2>1, <2>2
<1> QED BY <1>5

LEMMA WordBytesIs ==
    ASSUME NEW w, Clean(w)
    PROVE  /\ WordBytes(w) \in Seq(Tokens)
           /\ Len(WordBytes(w)) = Len(w) + 3
           /\ WordBytes(w)[1] \in {"$", "$0"}
           /\ \A j \in 1..Len(w) : WordBytes(w)[j + 1] = w[j]
           /\ WordBytes(w)[Len(w) + 2] = "CR"
           /\ WordBytes(w)[Len(w) + 3] = "LF"
<1> DEFINE d == IF w = << >> THEN "$0" ELSE "$"
           e == <<"CR", "LF">>
           dw == <<d>> \o w
<1>1. WordBytes(w) = dw \o e
  BY DEF WordBytes
<1>2. d \in {"$", "$0"} /\ d \in Tokens
  <2>1. d = "$" \/ d = "$0"
    BY Zenon
  <2>2. "$" \in Tokens /\ "$0" \in Tokens
    BY DEF Tokens, Marks
  <2> HIDE DEF d
  <2> QED BY <2>1, <2>2
<1>3. /\ e \in Seq(Tokens)
      /\ Len(e) = 2
      /\ e[1] = "CR"
      /\ e[2] = "LF"
  <2>1. Len(e) = 2
    OBVIOUS
  <2>2. e[1] = "CR" /\ e[2] = "LF"
    OBVIOUS
  <2>3. e \in Seq(Tokens)
    <3>1. "CR" \in Tokens /\ "LF" \in Tokens
      BY DEF Tokens, Marks
    <3>2. \A a, b \in Tokens : <<a, b>> \in Seq(Tokens)
      OBVIOUS
    <3> QED BY <3>1, <3>2
  <2> QED BY <2>1, <2>2, <2>3
<1>4. w \in Seq(Tokens) /\ Len(w) \in Nat
  BY DEF Clean
<1> HIDE DEF d, e
<1>5. /\ dw \in Seq(Tokens) /\ Len(dw) = Len(w) + 1
      /\ dw[1] = d /\ \A j \in 1..Len(w) : dw[j + 1] = w[j]
  <2>1. <<d>> \in Seq(Tokens) /\ Len(<<d>>) = 1
    BY <1>2
  <2> QED BY <1>4, <2>1
<1> HIDE DEF dw
<1>6. /\ dw \o e \in Seq(Tokens)
      /\ Len(dw \o e) = Len(dw) + Len(e)
      /\ \A j \in 1..(Len(dw) + Len(e)) :
            (dw \o e)[j] = IF j <= Len(dw) THEN dw[j] ELSE e[j - Len(dw)]
  BY <1>3, <1>5, ConcatProperties
<1>7. \A j \in 1..(Len(w) + 1) : (dw \o e)[j] = dw[j]
  BY <1>3, <1>4, <1>5, <1>6
<1>8. (dw \o e)[Len(w) + 2] = e[1] /\ (dw \o e)[Len(w) + 3] = e[2]
  BY <1>3, <1>4, <1>5, <1>6
<1>9. 1 \in 1..(Len(w) + 1) /\ \A j \in 1..Len(w) : j + 1 \in 1..(Len(w) + 1)
  BY <1>4
<1> QED BY <1>1, <1>2, <1>3, <1>4, <1>5, <1>6, <1>7, <1>8, <1>9

\* The bytes of a request.
LEMMA WireIs ==
    ASSUME NEW r \in Requests
    PROVE  Wire(r) = <<"*", "n", r.op>> \o
                         (IF r.op = "SET" THEN WordBytes(r.args[1]) \o WordBytes(r.args[2])
                                          ELSE WordBytes(r.args[1]))
<1> DEFINE ws == [i \in DOMAIN r.args |-> WordBytes(r.args[i])]
<1>1. Wire(r) = <<"*", "n", r.op>> \o FlattenSeq(ws)
  BY DEF Wire, WordBytes
<1>2. /\ ws = [i \in 1..Arity(r.op) |-> WordBytes(r.args[i])]
      /\ Arity(r.op) \in 1..2
      /\ r.op = "SET" <=> Arity(r.op) = 2
  BY RequestIs DEF Arity, Ops
<1>3. \A i \in 1..Arity(r.op) : WordBytes(r.args[i]) \in Seq(Tokens)
  BY RequestIs, WordBytesIs
<1>4. ws \in Seq(Seq(Tokens)) /\ Len(ws) = Arity(r.op)
  BY <1>2, <1>3
<1>5. ws[1] = WordBytes(r.args[1]) /\ (Arity(r.op) = 2 => ws[2] = WordBytes(r.args[2]))
  BY <1>2
<1> HIDE DEF ws
<1>6. CASE r.op = "SET"
  <2>1. FlattenSeq(ws) = ws[1] \o ws[2]
    BY <1>2, <1>4, <1>6, FlattenFew
  <2> QED BY <1>1, <1>2, <1>5, <1>6, <2>1
<1>7. CASE r.op # "SET"
  <2>1. FlattenSeq(ws) = ws[1]
    <3>1. Len(ws) = 1
      BY <1>2, <1>4, <1>7
    <3> QED BY <1>4, <3>1, FlattenFew
  <2> QED BY <1>1, <1>2, <1>5, <1>7, <2>1
<1> QED BY <1>6, <1>7

StarFree(w) == w \in Seq(Tokens) /\ \A i \in 1..Len(w) : w[i] # "*"

\* A request begins with a star, and holds no other.
LEMMA WireStars ==
    ASSUME NEW r \in Requests
    PROVE  /\ Wire(r) \in Seq(Tokens) /\ Wire(r) # << >>
           /\ Wire(r)[1] = "*"
           /\ StarFree(Tail(Wire(r)))
<1>1. ASSUME NEW w, Clean(w) PROVE StarFree(WordBytes(w))
  <2> DEFINE b == WordBytes(w)
  <2>1. /\ b \in Seq(Tokens) /\ Len(b) = Len(w) + 3 /\ Len(w) \in Nat
        /\ b[1] \in {"$", "$0"} /\ b[Len(w) + 2] = "CR" /\ b[Len(w) + 3] = "LF"
        /\ \A j \in 1..Len(w) : b[j + 1] = w[j]
    BY <1>1, WordBytesIs DEF Clean
  <2>2. \A j \in 1..Len(w) : w[j] # "*"
    BY <1>1 DEF Clean, Marks
  <2> HIDE DEF b
  <2>3. ASSUME NEW i \in 1..Len(b) PROVE b[i] # "*"
    <3>1. CASE i = 1 \/ i = Len(w) + 2 \/ i = Len(w) + 3
      BY <2>1, <3>1
    <3>2. CASE i - 1 \in 1..Len(w)
      <4>1. b[(i - 1) + 1] = w[i - 1]
        BY <2>1, <3>2
      <4> QED BY <2>1, <2>2, <3>2, <4>1
    <3> QED BY <2>1, <3>1, <3>2
  <2> QED BY <2>1, <2>3 DEF StarFree, b
<1>2. ASSUME NEW u, NEW v, StarFree(u), StarFree(v) PROVE StarFree(u \o v)
  <2>1. /\ u \o v \in Seq(Tokens) /\ Len(u \o v) = Len(u) + Len(v)
        /\ \A i \in 1..(Len(u) + Len(v)) : (u \o v)[i] = IF i <= Len(u) THEN u[i] ELSE v[i - Len(u)]
        /\ Len(u) \in Nat /\ Len(v) \in Nat
    BY <1>2, ConcatProperties DEF StarFree
  <2>2. ASSUME NEW i \in 1..Len(u \o v) PROVE (u \o v)[i] # "*"
    <3>1. CASE i <= Len(u)
      BY <1>2, <2>1, <3>1 DEF StarFree
    <3>2. CASE ~(i <= Len(u))
      <4>1. i - Len(u) \in 1..Len(v) /\ (u \o v)[i] = v[i - Len(u)]
        BY <2>1, <3>2
      <4> QED BY <1>2, <4>1 DEF StarFree
    <3> QED BY <3>1, <3>2
  <2> QED BY <2>1, <2>2 DEF StarFree
<1> DEFINE b == IF r.op = "SET" THEN WordBytes(r.args[1]) \o WordBytes(r.args[2])
                               ELSE WordBytes(r.args[1])
           h == <<"*", "n", r.op>>
<1>3. Wire(r) = h \o b
  BY WireIs
<1>4. StarFree(b)
  <2>1. Clean(r.args[1]) /\ (r.op = "SET" => Clean(r.args[2]))
    BY RequestIs DEF Arity, Ops
  <2>2. CASE r.op = "SET"
    BY <1>1, <1>2, <2>1, <2>2
  <2>3. CASE r.op # "SET"
    BY <1>1, <2>1, <2>3
  <2> QED BY <2>2, <2>3
<1>5. /\ h \in Seq(Tokens) /\ Len(h) = 3 /\ h[1] = "*" /\ h[2] = "n" /\ h[3] = r.op
      /\ r.op # "*"
  <2>1. "*" \in Tokens /\ "n" \in Tokens /\ r.op \in Tokens
    BY RequestIs DEF Tokens, Marks
  <2>2. \A x, y, z \in Tokens : <<x, y, z>> \in Seq(Tokens)
    OBVIOUS
  <2>3. r.op # "*"
    BY RequestIs DEF Ops
  <2> QED BY <2>1, <2>2, <2>3
<1> HIDE DEF b, h
<1>6. b \in Seq(Tokens)
  BY <1>4 DEF StarFree
<1> DEFINE w == h \o b
<1>7. /\ w \in Seq(Tokens) /\ Len(w) = 3 + Len(b)
      /\ \A i \in 1..(3 + Len(b)) : w[i] = IF i <= 3 THEN h[i] ELSE b[i - 3]
      /\ Len(b) \in Nat
  <2>1. /\ w \in Seq(Tokens) /\ Len(w) = Len(h) + Len(b)
        /\ \A i \in 1..(Len(h) + Len(b)) : w[i] = IF i <= Len(h) THEN h[i] ELSE b[i - Len(h)]
    BY <1>5, <1>6, ConcatProperties
  <2>2. Len(b) \in Nat /\ Len(h) = 3
    BY <1>5, <1>6
  <2> HIDE DEF w
  <2> QED BY <2>1, <2>2
<1> HIDE DEF w
<1>8. w # << >> /\ w[1] = "*"
  BY <1>5, <1>7
<1>9. ASSUME NEW i \in 2..Len(w) PROVE w[i] # "*"
  <2>1. CASE i <= 3
    BY <1>5, <1>7, <2>1
  <2>2. CASE ~(i <= 3)
    <3>1. i - 3 \in 1..Len(b) /\ w[i] = b[i - 3]
      BY <1>7, <2>2
    <3> QED BY <1>4, <3>1 DEF StarFree
  <2> QED BY <2>1, <2>2
<1>10. StarFree(Tail(w))
  <2>1. /\ Tail(w) \in Seq(Tokens) /\ Len(Tail(w)) = Len(w) - 1
        /\ \A i \in 1..Len(Tail(w)) : Tail(w)[i] = w[i + 1]
    BY <1>7, <1>8, HeadTailProperties
  <2>2. \A i \in 1..Len(Tail(w)) : i + 1 \in 2..Len(w)
    BY <1>7, <2>1
  <2> QED BY <1>9, <2>1, <2>2 DEF StarFree
<1> QED BY <1>3, <1>7, <1>8, <1>10 DEF w

\* k is the first word in the bytes w, behind the name of the command, and v the second.
First(w, k)     == /\ Len(k) \in Nat /\ Len(w) \in Nat /\ Len(w) >= Len(k) + 6
                   /\ \A i \in 1..(Len(k) + 3) : w[3 + i] = WordBytes(k)[i]
Second(w, k, v) == /\ Len(v) \in Nat /\ Len(w) = Len(k) + 6 + Len(v) + 3
                   /\ \A i \in 1..(Len(v) + 3) : w[Len(k) + 6 + i] = WordBytes(v)[i]

LEMMA WireAt ==
    ASSUME NEW r \in Requests, NEW k, k = r.args[1], NEW v, v = r.args[2], NEW w, w = Wire(r)
    PROVE  /\ w[1] = "*" /\ w[2] = "n" /\ w[3] = r.op
           /\ First(w, k)
           /\ r.op = "SET" => Second(w, k, v)
           /\ r.op # "SET" => Len(w) = Len(k) + 6
<1> DEFINE h == <<"*", "n", r.op>>
           b == WordBytes(k)
           u == WordBytes(v)
           lk == Len(k)
           lv == Len(v)
           lw == Len(w)
<1>1. /\ Clean(k) /\ (r.op = "SET" => Clean(v)) /\ r.op \in Tokens
  BY RequestIs DEF Arity, Ops, Tokens, Marks
<1>2. lk \in Nat /\ (r.op = "SET" => lv \in Nat)
  BY <1>1 DEF Clean
<1>3. b \in Seq(Tokens) /\ Len(b) = lk + 3
  BY <1>1, WordBytesIs
<1>4. r.op = "SET" => u \in Seq(Tokens) /\ Len(u) = lv + 3
  BY <1>1, WordBytesIs
<1>5. h \in Seq(Tokens) /\ Len(h) = 3 /\ h[1] = "*" /\ h[2] = "n" /\ h[3] = r.op
  <2>1. "*" \in Tokens /\ "n" \in Tokens
    BY DEF Tokens, Marks
  <2>2. \A x, y, z \in Tokens : <<x, y, z>> \in Seq(Tokens)
    OBVIOUS
  <2> QED BY <1>1, <2>1, <2>2
<1>6. w = h \o (IF r.op = "SET" THEN b \o u ELSE b)
  BY WireIs
<1> HIDE DEF h, b, u, lk, lv, lw
<1>7. ASSUME NEW y \in Seq(Tokens)
      PROVE  /\ Len(h \o y) = 3 + Len(y)
             /\ \A i \in 1..3 : (h \o y)[i] = h[i]
             /\ \A i \in 1..Len(y) : (h \o y)[3 + i] = y[i]
  <2> DEFINE hy == h \o y
  <2>1. /\ Len(hy) = Len(h) + Len(y)
        /\ \A i \in 1..(Len(h) + Len(y)) : hy[i] = IF i <= Len(h) THEN h[i] ELSE y[i - Len(h)]
    BY <1>5, ConcatProperties
  <2>5. Len(y) \in Nat
    OBVIOUS
  <2> HIDE DEF hy
  <2>2. Len(hy) = 3 + Len(y)
    BY <1>5, <2>1
  <2>3. \A i \in 1..3 : hy[i] = h[i]
    BY <1>5, <2>1, <2>5
  <2>4. \A i \in 1..Len(y) : hy[3 + i] = y[i]
    <3>1. TAKE i \in 1..Len(y)
    <3>2. 3 + i \in 1..(Len(h) + Len(y)) /\ ~(3 + i <= Len(h)) /\ (3 + i) - Len(h) = i
      BY <1>5, <2>5
    <3> QED BY <2>1, <3>2
  <2> QED BY <2>2, <2>3, <2>4 DEF hy
<1>8. CASE r.op = "SET"
  <2>0. lk \in Nat /\ lv \in Nat /\ Len(b) = lk + 3 /\ Len(u) = lv + 3
    BY <1>2, <1>3, <1>4, <1>8
  <2> DEFINE y == b \o u
  <2>1. y \in Seq(Tokens) /\ w = h \o y
    BY <1>3, <1>4, <1>6, <1>8, ConcatProperties
  <2>2. /\ Len(y) = Len(b) + Len(u)
        /\ \A i \in 1..(Len(b) + Len(u)) : y[i] = IF i <= Len(b) THEN b[i] ELSE u[i - Len(b)]
    BY <1>3, <1>4, <1>8, ConcatProperties
  <2> HIDE DEF y
  <2>3. Len(y) = lk + 3 + lv + 3
    <3>1. Len(y) = Len(b) + Len(u)
      BY <2>2
    <3> QED BY <2>0, <3>1
  <2>4. \A i \in 1..(lk + 3) : i \in 1..Len(y) /\ y[i] = b[i]
    BY <2>0, <2>2, <2>3
  <2>5. \A i \in 1..(lv + 3) : lk + 3 + i \in 1..Len(y) /\ y[lk + 3 + i] = u[i]
    <3>1. TAKE i \in 1..(lv + 3)
    <3>2. /\ lk + 3 + i \in 1..Len(y) /\ lk + 3 + i \in 1..(Len(b) + Len(u))
          /\ ~(lk + 3 + i <= Len(b)) /\ (lk + 3 + i) - Len(b) = i
      BY <2>0, <2>3
    <3> QED BY <2>2, <3>2
  <2>6. w[1] = "*" /\ w[2] = "n" /\ w[3] = r.op
    <3>1. \A i \in 1..3 : w[i] = h[i]
      BY <1>7, <2>1
    <3> QED BY <1>5, <3>1
  <2>7. \A i \in 1..(lk + 3) : w[3 + i] = b[i]
    BY <1>7, <2>1, <2>4
  <2>8. \A i \in 1..(lv + 3) : w[lk + 6 + i] = u[i]
    <3>1. TAKE i \in 1..(lv + 3)
    <3>2. w[3 + (lk + 3 + i)] = u[i]
      BY <1>7, <2>1, <2>5
    <3>3. 3 + (lk + 3 + i) = lk + 6 + i
      BY <1>2, <1>8
    <3> QED BY <3>2, <3>3
  <2>9. lw = lk + 6 + lv + 3 /\ lw \in Nat /\ lw >= lk + 6
    <3>1. lw = 3 + Len(y)
      BY <1>7, <2>1 DEF lw
    <3> QED BY <1>2, <1>8, <2>3, <3>1
  <2>10. \A i \in 1..(lk + 3) : w[3 + i] = WordBytes(k)[i]
    BY <2>7 DEF b
  <2>11. /\ Len(v) \in Nat /\ lw = lk + 6 + Len(v) + 3
         /\ \A i \in 1..(Len(v) + 3) : w[lk + 6 + i] = WordBytes(v)[i]
    BY <2>0, <2>8, <2>9 DEF u, lv
  <2>12. First(w, k) /\ Second(w, k, v)
    BY <2>0, <2>9, <2>10, <2>11 DEF lk, lw, First, Second
  <2> QED BY <1>8, <2>6, <2>12
<1>9. CASE r.op # "SET"
  <2>1. w = h \o b
    BY <1>6, <1>9
  <2>2. lw = 3 + (lk + 3)
    BY <1>3, <1>7, <2>1 DEF lw
  <2>3. lw \in Nat /\ lw >= lk + 6 /\ lw = lk + 6
    BY <1>2, <2>2
  <2>4. w[1] = "*" /\ w[2] = "n" /\ w[3] = r.op
    <3>1. \A i \in 1..3 : w[i] = h[i]
      BY <1>3, <1>7, <2>1
    <3> QED BY <1>5, <3>1
  <2>5. \A i \in 1..(lk + 3) : w[3 + i] = b[i]
    BY <1>3, <1>7, <2>1
  <2>6. \A i \in 1..(lk + 3) : w[3 + i] = WordBytes(k)[i]
    BY <2>5 DEF b
  <2> QED BY <1>2, <1>9, <2>3, <2>4, <2>6 DEF lk, lw, First
<1> QED BY <1>8, <1>9

\* Behind its first, the bytes of a word are no dollars.
LEMMA NoDollarWithin ==
    ASSUME NEW w, Clean(w), NEW i \in 2..(Len(w) + 3)
    PROVE  WordBytes(w)[i] \notin {"$", "$0"}
<1> DEFINE b == WordBytes(w)
<1>1. /\ b[Len(w) + 2] = "CR" /\ b[Len(w) + 3] = "LF" /\ Len(w) \in Nat
      /\ \A j \in 1..Len(w) : b[j + 1] = w[j]
  BY WordBytesIs DEF Clean
<1>2. \A j \in 1..Len(w) : w[j] \notin {"$", "$0"}
  BY DEF Clean, Marks
<1> HIDE DEF b
<1>3. CASE i = Len(w) + 2 \/ i = Len(w) + 3
  BY <1>1, <1>3 DEF b
<1>4. CASE i - 1 \in 1..Len(w)
  <2>1. b[(i - 1) + 1] = w[i - 1] /\ (i - 1) + 1 = i
    BY <1>1, <1>4
  <2> QED BY <1>2, <1>4, <2>1 DEF b
<1> QED BY <1>1, <1>3, <1>4

----------------------------------------------------------------------------
(* What is left of a connection *)

\* The bytes of the requests of s behind the first q.
Wires(s, q) == [i \in 1..(Len(s) - q) |-> Wire(s[q + i])]
Bytes(s, q) == FlattenSeq(Wires(s, q))

LEMMA BytesAre ==
    ASSUME NEW s \in Seq(Requests)
    PROVE  /\ \A q \in 0..Len(s) : Bytes(s, q) \in Seq(Tokens)
           /\ Bytes(s, Len(s)) = << >>
           /\ \A q \in 0..(Len(s) - 1) : Bytes(s, q) = Wire(s[q + 1]) \o Bytes(s, q + 1)
<1>1. Len(s) \in Nat /\ \A i \in 1..Len(s) : Wire(s[i]) \in Seq(Tokens)
  <2>1. \A i \in 1..Len(s) : s[i] \in Requests
    BY SeqFacts
  <2> QED BY <2>1, WireStars
<1>2. ASSUME NEW q \in 0..Len(s)
      PROVE  Wires(s, q) \in Seq(Seq(Tokens)) /\ Len(Wires(s, q)) = Len(s) - q
  <2>1. Len(s) - q \in Nat
    BY <1>1
  <2>2. \A i \in 1..(Len(s) - q) : Wire(s[q + i]) \in Seq(Tokens)
    <3>1. TAKE i \in 1..(Len(s) - q)
    <3>2. q + i \in 1..Len(s)
      BY <1>1
    <3> QED BY <1>1, <3>2
  <2> QED BY <2>1, <2>2 DEF Wires
<1>3. ASSUME NEW q \in 0..Len(s) PROVE Bytes(s, q) \in Seq(Tokens)
  BY <1>2, FlattenType DEF Bytes
<1>4. Bytes(s, Len(s)) = << >>
  <2>1. Len(s) \in 0..Len(s) /\ Len(s) - Len(s) = 0
    BY <1>1
  <2> QED BY <1>2, <2>1, FlattenEmpty DEF Bytes
<1>5. ASSUME NEW q \in 0..(Len(s) - 1)
      PROVE  Bytes(s, q) = Wire(s[q + 1]) \o Bytes(s, q + 1)
  <2> DEFINE ws == Wires(s, q)
             us == Wires(s, q + 1)
  <2>1. /\ q \in 0..Len(s) /\ q + 1 \in 0..Len(s) /\ 1 \in 1..(Len(s) - q)
        /\ Len(s) - (q + 1) = (Len(s) - q) - 1
        /\ Len(s) - q > 0
    BY <1>1
  <2>2. /\ ws \in Seq(Seq(Tokens)) /\ Len(ws) = Len(s) - q
        /\ us \in Seq(Seq(Tokens)) /\ Len(us) = Len(ws) - 1
    BY <1>2, <2>1
  <2>3. ws[1] = Wire(s[q + 1])
    BY <2>1 DEF Wires
  <2>4. \A i \in 1..Len(us) : us[i] = ws[i + 1]
    <3>1. TAKE i \in 1..Len(us)
    <3>2. /\ i \in 1..(Len(s) - (q + 1)) /\ i + 1 \in 1..(Len(s) - q)
          /\ (q + 1) + i = q + (i + 1)
      BY <1>1, <2>1, <2>2
    <3>3. us[i] = Wire(s[(q + 1) + i]) /\ ws[i + 1] = Wire(s[q + (i + 1)])
      BY <3>2 DEF Wires
    <3> QED BY <3>2, <3>3
  <2> HIDE DEF ws, us
  <2>5. Len(ws) > 0 /\ ws # << >>
    BY <2>1, <2>2
  <2>6. /\ Tail(ws) \in Seq(Seq(Tokens)) /\ Len(Tail(ws)) = Len(us)
        /\ \A i \in 1..Len(Tail(ws)) : Tail(ws)[i] = us[i]
    BY <2>2, <2>4, <2>5, SeqFacts
  <2>7. Tail(ws) = us
    BY <2>2, <2>6, SeqEqual
  <2>8. FlattenSeq(ws) = ws[1] \o FlattenSeq(Tail(ws))
    BY <2>2, <2>5, FlattenCons
  <2> QED BY <2>3, <2>7, <2>8 DEF Bytes, ws, us
<1> QED BY <1>3, <1>4, <1>5

\* st is the rest of a request and then the requests of s behind the first q.
IsLeft(st, s, q, rest) ==
    /\ q \in 0..Len(s)
    /\ StarFree(rest)
    /\ st = rest \o Bytes(s, q)

\* When a byte is taken, what is left has this shape again; with the first byte of
\* a request, the request is no longer among those left.
LEMMA TailIsLeft ==
    ASSUME NEW s \in Seq(Requests), NEW st, NEW q, NEW rest, IsLeft(st, s, q, rest), st # << >>
    PROVE  \E p, new : /\ IsLeft(Tail(st), s, p, new)
                       /\ p = IF rest = << >> THEN q + 1 ELSE q
<1>1. /\ q \in 0..Len(s) /\ Len(s) \in Nat
      /\ rest \in Seq(Tokens)
      /\ Bytes(s, q) \in Seq(Tokens)
      /\ st = rest \o Bytes(s, q)
  BY BytesAre DEF IsLeft, StarFree
<1>2. \A a, b \in Seq(Tokens) : a # << >> => Tail(a \o b) = Tail(a) \o b
  OBVIOUS
<1>3. CASE rest # << >>
  <2>1. Tail(st) = Tail(rest) \o Bytes(s, q)
    BY <1>1, <1>2, <1>3
  <2>2. StarFree(Tail(rest))
    <3>1. /\ Tail(rest) \in Seq(Tokens) /\ Len(Tail(rest)) = Len(rest) - 1
          /\ \A i \in 1..Len(Tail(rest)) : Tail(rest)[i] = rest[i + 1]
          /\ Len(rest) \in Nat
      BY <1>1, <1>3, HeadTailProperties
    <3>2. \A i \in 1..Len(Tail(rest)) : i + 1 \in 1..Len(rest)
      BY <3>1
    <3> QED BY <3>1, <3>2 DEF IsLeft, StarFree
  <2>3. IsLeft(Tail(st), s, q, Tail(rest))
    BY <1>1, <2>1, <2>2 DEF IsLeft
  <2> QED BY <1>3, <2>3
<1>4. CASE rest = << >>
  <2>1. st = Bytes(s, q)
    BY <1>1, <1>4, ConcatEmptySeq
  <2>2. q # Len(s)
    BY <2>1, BytesAre
  <2>3. q \in 0..(Len(s) - 1) /\ q + 1 \in 0..Len(s) /\ q + 1 \in 1..Len(s)
    BY <1>1, <2>2
  <2> DEFINE w == Wire(s[q + 1])
  <2>4. st = w \o Bytes(s, q + 1) /\ Bytes(s, q + 1) \in Seq(Tokens)
    BY <2>1, <2>3, BytesAre
  <2>5. w \in Seq(Tokens) /\ w # << >> /\ StarFree(Tail(w))
    <3>1. s[q + 1] \in Requests
      BY <2>3, SeqFacts
    <3> QED BY <3>1, WireStars
  <2> HIDE DEF w
  <2>6. Tail(st) = Tail(w) \o Bytes(s, q + 1)
    BY <1>2, <2>4, <2>5
  <2>7. IsLeft(Tail(st), s, q + 1, Tail(w))
    BY <2>3, <2>5, <2>6 DEF IsLeft
  <2> QED BY <1>4, <2>7
<1> QED BY <1>3, <1>4

\* The same when several bytes are taken.
LEMMA SuffixIsLeft ==
    ASSUME NEW s \in Seq(Requests), NEW st, NEW q, NEW rest, IsLeft(st, s, q, rest),
           NEW n \in 1..Len(st)
    PROVE  \E p, new : /\ IsLeft(SubSeq(st, n + 1, Len(st)), s, p, new)
                       /\ p >= q
                       /\ rest = << >> => p > q
<1> DEFINE lo == IF rest = << >> THEN q + 1 ELSE q
           Good(m) == \E p, new : IsLeft(SubSeq(st, m + 1, Len(st)), s, p, new) /\ p >= lo
           T == {m \in Nat : m + 1 <= Len(st) => Good(m + 1)}
<1>1. st \in Seq(Tokens) /\ Len(st) \in Nat /\ q \in Nat
  <2>1. /\ q \in 0..Len(s) /\ rest \in Seq(Tokens) /\ Bytes(s, q) \in Seq(Tokens)
        /\ st = rest \o Bytes(s, q) /\ Len(s) \in Nat
    BY BytesAre DEF IsLeft, StarFree
  <2>2. st \in Seq(Tokens)
    BY <2>1, ConcatProperties
  <2> QED BY <2>1, <2>2
<1>2. lo \in Nat
  BY <1>1
<1>3. ASSUME NEW m \in Nat, m + 1 <= Len(st), NEW p, NEW new,
             IsLeft(SubSeq(st, m + 1, Len(st)), s, p, new), p >= lo
      PROVE  Good(m + 1)
  <2> DEFINE t == SubSeq(st, m + 1, Len(st))
  <2>1. m + 1 \in 1..Len(st) /\ Len(st) \in (m + 1)..Len(st)
    BY <1>1, <1>3
  <2>2. Tail(t) = SubSeq(st, (m + 1) + 1, Len(st))
    BY <1>1, <2>1, HeadTailOfSubSeq
  <2>3. t # << >>
    <3>1. Len(t) = Len(st) - (m + 1) + 1
      <4>1. \A i \in (m + 1)..Len(st) : st[i] \in Tokens
        BY <1>1, <2>1
      <4>2. m + 1 \in Int /\ Len(st) \in Int /\ m + 1 <= Len(st)
        BY <1>1, <2>1
      <4> QED BY <4>1, <4>2, SubSeqProperties
    <3> HIDE DEF t
    <3>2. Len(t) # 0
      BY <1>1, <1>3, <3>1
    <3> QED BY <3>2
  <2>4. PICK p2, new2 : /\ IsLeft(Tail(t), s, p2, new2)
                        /\ p2 = IF new = << >> THEN p + 1 ELSE p
    <3>1. IsLeft(t, s, p, new)
      BY <1>3
    <3> HIDE DEF t
    <3> QED BY <2>3, <3>1, TailIsLeft
  <2>5. p \in Nat
    <3>1. p \in 0..Len(s) /\ Len(s) \in Nat
      BY <1>3 DEF IsLeft
    <3> QED BY <3>1
  <2>6. p2 >= lo
    <3> HIDE DEF lo
    <3> QED BY <1>2, <1>3, <2>4, <2>5
  <2> QED BY <2>2, <2>4, <2>6
<1>4. 0 \in T
  <2>1. SUFFICES ASSUME 1 <= Len(st) PROVE Good(1)
    BY DEF T
  <2>2. st # << >>
    BY <2>1
  <2>3. PICK p, new : IsLeft(Tail(st), s, p, new) /\ p = lo
    BY <2>2, TailIsLeft
  <2>4. Tail(st) = SubSeq(st, 1 + 1, Len(st))
    BY <1>1, <2>2, TailIsSubSeq
  <2>5. p >= lo
    <3> HIDE DEF lo
    <3> QED BY <1>2, <2>3
  <2> QED BY <2>3, <2>4, <2>5
<1>5. ASSUME NEW m \in Nat, m \in T PROVE m + 1 \in T
  <2> HIDE DEF Good
  <2>1. SUFFICES ASSUME (m + 1) + 1 <= Len(st) PROVE Good((m + 1) + 1)
    OBVIOUS
  <2>2. Good(m + 1)
    BY <1>1, <1>5, <2>1
  <2>3. PICK p, new : IsLeft(SubSeq(st, (m + 1) + 1, Len(st)), s, p, new) /\ p >= lo
    BY <2>2 DEF Good
  <2>4. m + 1 \in Nat
    OBVIOUS
  <2> QED BY <1>3, <2>1, <2>3, <2>4
<1>6. n - 1 \in T
  <2>1. Nat \subseteq T
    <3> HIDE DEF T
    <3> QED BY <1>4, <1>5, SetInduction
  <2>2. n - 1 \in Nat
    BY <1>1
  <2> HIDE DEF T
  <2> QED BY <2>1, <2>2
<1>7. Good(n)
  <2> HIDE DEF Good
  <2>1. (n - 1) + 1 = n /\ n <= Len(st)
    BY <1>1
  <2> QED BY <1>6, <2>1
<1>8. PICK p, new : IsLeft(SubSeq(st, n + 1, Len(st)), s, p, new) /\ p >= lo
  BY <1>7
<1>9. p \in Nat
  <2>1. p \in 0..Len(s) /\ Len(s) \in Nat
    BY <1>8 DEF IsLeft
  <2> QED BY <2>1
<1>10. p >= q /\ (rest = << >> => p > q)
  BY <1>1, <1>8, <1>9
<1> QED BY <1>8, <1>10

\* At first all requests of a client are still to be read.
LEMMA AskedType ==
    ASSUME ConnInit
    PROVE  /\ asked \in [Clients -> Seq(Requests)]
           /\ stream = [c \in Clients |-> Bytes(asked[c], 0)]
<1>1. asked \in [Clients -> SeqOf(Requests, MaxEach)]
  BY DEF ConnInit
<1>2. SeqOf(Requests, MaxEach) \subseteq Seq(Requests)
  <2>1. MaxEach \in Nat
    BY WordAssumption
  <2> QED BY <2>1 DEF SeqOf
<1>3. asked \in [Clients -> Seq(Requests)]
  BY <1>1, <1>2
<1>4. ASSUME NEW c \in Clients
      PROVE  [i \in DOMAIN asked[c] |-> Wire(asked[c][i])] = Wires(asked[c], 0)
  <2> DEFINE s == asked[c]
  <2>1. s \in Seq(Requests) /\ Len(s) \in Nat /\ DOMAIN s = 1..Len(s)
    BY <1>3
  <2> HIDE DEF s
  <2>2. Len(s) - 0 = Len(s) /\ \A i \in 1..Len(s) : 0 + i = i
    BY <2>1
  <2>3. [i \in DOMAIN s |-> Wire(s[i])] = Wires(s, 0)
    BY <2>1, <2>2 DEF Wires
  <2> QED BY <2>3 DEF s
<1>5. stream = [c \in Clients |-> FlattenSeq([i \in DOMAIN asked[c] |-> Wire(asked[c][i])])]
  BY DEF ConnInit
<1>6. stream = [c \in Clients |-> Bytes(asked[c], 0)]
  BY <1>4, <1>5 DEF Bytes
<1> QED BY <1>3, <1>6
=============================================================================
