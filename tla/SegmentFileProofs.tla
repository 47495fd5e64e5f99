------------------------- MODULE SegmentFileProofs --------------------------
(***************************************************************************)
(* Theorems about SegmentFile, for any keys, values, hash functions, sizes *)
(* of filters and SPARSITY_FACTOR.                                         *)
(*                                                                         *)
(* A file is known by its entries and the offsets of their lines (IsFile). *)
(* What getline() makes of it from any offset on is LinesFrom, what a      *)
(* search finds in it SearchIs.  The inductive invariant FileInv says      *)
(* which entries each file has, and how far a merge is.                    *)
(***************************************************************************)
EXTENDS SegmentFile, SequenceTheorems, FiniteSetTheorems, WellFoundedInduction, TLAPS

(* Numbers and sequences *)

\* Induction: a set that holds 0 and the successor of each of its numbers holds
\* every number.
LEMMA SetInduction ==
    ASSUME NEW S, 0 \in S, \A n \in Nat : n \in S => n + 1 \in S
    PROVE  Nat \subseteq S
<1> DEFINE T == Nat \ S
           R == {ss \in Nat \X Nat : ss[1] < ss[2]}
<1>1. SUFFICES ASSUME T # {} PROVE FALSE
  OBVIOUS
<1>2. IsWellFoundedOn(R, Nat)
  BY NatLessThanWellFounded DEF OpToRel, IsWellFoundedOn
<1>3. T \subseteq Nat
  OBVIOUS
<1>4. PICK x \in T : \A y \in T : ~ (<<y, x>> \in R)
  <2> HIDE DEF T, R
  <2> QED BY <1>1, <1>2, <1>3, WFMin
<1>5. \A y \in T : ~(y < x)
  BY <1>4
<1>6. x # 0
  OBVIOUS
<1>7. x - 1 \in Nat /\ x - 1 < x
  BY <1>6
<1>8. x - 1 \in S
  BY <1>5, <1>7
<1>9. (x - 1) + 1 \in S
  BY <1>7, <1>8
<1>10. QED
  BY <1>9

\* The least of some numbers.
LEMMA MinIs ==
    ASSUME NEW I \in SUBSET Nat, I # {}
    PROVE  Min(I) \in I /\ \A y \in I : Min(I) <= y
<1> DEFINE R == {ss \in Nat \X Nat : ss[1] < ss[2]}
<1>1. IsWellFoundedOn(R, Nat)
  BY NatLessThanWellFounded DEF OpToRel, IsWellFoundedOn
<1>2. PICK x \in I : \A y \in I : ~ (<<y, x>> \in R)
  <2> HIDE DEF R
  <2> QED BY <1>1, WFMin
<1>3. \A y \in I : x <= y
  <2>1. TAKE y \in I
  <2>2. ~ (<<y, x>> \in R) /\ x \in Nat /\ y \in Nat
    BY <1>2
  <2> QED BY <2>2
<1>4. QED
  BY <1>3 DEF Min

\* The greatest of finitely many numbers.
LEMMA GreatestIs ==
    ASSUME NEW n \in Nat, NEW I \in SUBSET (1..n), I # {}
    PROVE  \E x \in I : \A y \in I : y <= x
<1> DEFINE J == {n - i : i \in I}
<1>1. J \in SUBSET Nat /\ J # {}
  <2>1. \A i \in I : n - i \in Nat
    OBVIOUS
  <2> QED BY <2>1
<1>2. Min(J) \in J /\ \A y \in J : Min(J) <= y
  <2> HIDE DEF J
  <2> QED BY <1>1, MinIs
<1>3. PICK x \in I : Min(J) = n - x
  BY <1>2
<1>4. \A y \in I : n - x <= n - y
  BY <1>2, <1>3
<1> QED BY <1>4

\* A function that takes its value at m from the one at a smaller place, nx[m], by
\* a step F[m] that keeps to T: there is one, and all of its values are in T.
Steps(n, T, nx, F) ==
    \A m \in 1..n :
        /\ nx[m] \in 0..m - 1
        /\ \A t \in T : F[m][t] \in T

Recursive(a, n, T, base, nx, F) ==
    /\ a \in [0..n -> T]
    /\ a = [m \in 0..n |-> IF m = 0 THEN base ELSE F[m][a[nx[m]]]]

LEMMA Recursion ==
    ASSUME NEW n \in Nat, NEW T, NEW base \in T, NEW nx, NEW F, Steps(n, T, nx, F)
    PROVE  \E a : Recursive(a, n, T, base, nx, F)
<1>s. \A m \in 1..n : nx[m] \in 0..m - 1 /\ \A t \in T : F[m][t] \in T
  BY DEF Steps
<1> DEFINE Rec(k, a) == /\ a = [m \in 0..k |-> IF m = 0 THEN base ELSE F[m][a[nx[m]]]]
                        /\ \A m \in 0..k : a[m] \in T
           S == {k \in Nat : k <= n => \E a : Rec(k, a)}
<1>1. 0 \in S
  <2>1. Rec(0, [m \in 0..0 |-> base])
    OBVIOUS
  <2> QED BY <2>1
<1>2. ASSUME NEW k \in Nat, k \in S PROVE k + 1 \in S
  <2>1. SUFFICES ASSUME k + 1 <= n PROVE \E a : Rec(k + 1, a)
    OBVIOUS
  <2>2. PICK a : Rec(k, a)
    BY <1>2, <2>1
  <2> DEFINE b == [m \in 0..k + 1 |-> IF m = k + 1 THEN F[m][a[nx[m]]] ELSE a[m]]
  <2>3. nx[k + 1] \in 0..k /\ k + 1 \in 1..n
    BY <1>s, <2>1
  <2>4. \A m \in 0..k : b[m] = a[m]
    OBVIOUS
  <2>5. b[k + 1] = F[k + 1][b[nx[k + 1]]]
    <3>1. b[k + 1] = F[k + 1][a[nx[k + 1]]]
      OBVIOUS
    <3> HIDE DEF b
    <3> QED BY <3>1, <2>3, <2>4
  <2>6. \A m \in 0..k : a[m] = IF m = 0 THEN base ELSE F[m][a[nx[m]]]
    BY <2>2
  <2>7. \A m \in 1..k : nx[m] \in 0..k
    BY <1>s, <2>1
  <2>8. \A m \in 0..k + 1 : b[m] = IF m = 0 THEN base ELSE F[m][b[nx[m]]]
    <3>1. TAKE m \in 0..k + 1
    <3>2. CASE m = k + 1
      <4>1. m # 0
        BY <3>2
      <4> HIDE DEF b
      <4> QED BY <2>5, <3>2, <4>1
    <3>3. CASE m # k + 1
      <4>1. m \in 0..k /\ (m # 0 => m \in 1..k)
        BY <3>1, <3>3
      <4> HIDE DEF b
      <4> QED BY <4>1, <2>4, <2>6, <2>7
    <3> QED BY <3>2, <3>3
  <2>9. \A m \in 0..k + 1 : b[m] \in T
    <3>1. b[k + 1] \in T
      BY <1>s, <2>2, <2>3, <2>4, <2>5
    <3>2. \A m \in 0..k : b[m] \in T
      BY <2>2, <2>4
    <3> QED BY <3>1, <3>2
  <2>10. b = [m \in 0..k + 1 |-> IF m = 0 THEN base ELSE F[m][b[nx[m]]]]
    <3>1. b = [m \in 0..k + 1 |-> b[m]]
      OBVIOUS
    <3> HIDE DEF b
    <3> QED BY <3>1, <2>8
  <2> HIDE DEF b
  <2> QED BY <2>9, <2>10
<1>3. n \in S
  <2> HIDE DEF S
  <2> QED BY <1>1, <1>2, SetInduction
<1>4. PICK a : Rec(n, a)
  BY <1>3
<1>5. a \in [0..n -> T]
  BY <1>4
<1> QED BY <1>4, <1>5 DEF Recursive

----------------------------------------------------------------------------
(* The order of strings *)

Strings == Seq(Nat)

LEMMA StartOf ==
    ASSUME NEW S, NEW s \in Seq(S), NEW n \in 0..Len(s)
    PROVE  /\ SubSeq(s, 1, n) \in Seq(S) /\ Len(SubSeq(s, 1, n)) = n
           /\ \A j \in 1..n : SubSeq(s, 1, n)[j] = s[j]
<1>1. Len(s) \in Nat /\ n \in Nat /\ \A i \in 1..n : s[i] \in S
  BY LenProperties
<1>2. /\ SubSeq(s, 1, n) \in Seq(S)
      /\ Len(SubSeq(s, 1, n)) = IF 1 <= n THEN n - 1 + 1 ELSE 0
      /\ \A j \in 1..n - 1 + 1 : SubSeq(s, 1, n)[j] = s[1 + j - 1]
  BY <1>1, SubSeqProperties
<1>3. n - 1 + 1 = n /\ \A j \in 1..n : 1 + j - 1 = j
  BY <1>1
<1> QED BY <1>1, <1>2, <1>3

LEMMA LessIs ==
    ASSUME NEW s \in Strings, NEW t \in Strings
    PROVE  Less(s, t) <=> \E n \in 0..Len(s) :
                              /\ n < Len(t)
                              /\ \A j \in 1..n : s[j] = t[j]
                              /\ n = Len(s) \/ s[n + 1] < t[n + 1]
<1>1. ASSUME NEW n \in 0..Len(s), n < Len(t)
      PROVE  SubSeq(s, 1, n) = SubSeq(t, 1, n) <=> \A j \in 1..n : s[j] = t[j]
  <2>1. n \in Nat /\ Len(s) \in Nat /\ Len(t) \in Nat
    BY LenProperties DEF Strings
  <2>2. /\ SubSeq(s, 1, n) \in Seq(Nat) /\ SubSeq(t, 1, n) \in Seq(Nat)
        /\ Len(SubSeq(s, 1, n)) = n /\ Len(SubSeq(t, 1, n)) = n
        /\ \A j \in 1..n : SubSeq(s, 1, n)[j] = s[j] /\ SubSeq(t, 1, n)[j] = t[j]
    <3>1. s \in Seq(Nat) /\ t \in Seq(Nat) /\ n \in 0..Len(s) /\ n \in 0..Len(t)
      BY <1>1, <2>1 DEF Strings
    <3> QED BY ONLY <3>1, StartOf
  <2>3. (\A j \in 1..n : s[j] = t[j]) => SubSeq(s, 1, n) = SubSeq(t, 1, n)
    BY <2>2, SeqEqual
  <2>4. SubSeq(s, 1, n) = SubSeq(t, 1, n) => \A j \in 1..n : s[j] = t[j]
    BY <2>2
  <2> QED BY <2>3, <2>4
<1> QED BY <1>1 DEF Less

LEMMA NotLessSelf ==
    ASSUME NEW s \in Strings
    PROVE  ~Less(s, s)
<1>1. \A n \in 1..Len(s) : s[n] \in Nat
  BY DEF Strings
<1> QED BY <1>1, LessIs, LenProperties DEF Strings

LEMMA LessTrans ==
    ASSUME NEW s \in Strings, NEW t \in Strings, NEW u \in Strings, Less(s, t), Less(t, u)
    PROVE  Less(s, u)
<1>1. Len(s) \in Nat /\ Len(t) \in Nat /\ Len(u) \in Nat
  BY LenProperties DEF Strings
<1>2. (\A n \in 1..Len(s) : s[n] \in Nat) /\ (\A n \in 1..Len(t) : t[n] \in Nat) /\ (\A n \in 1..Len(u) : u[n] \in Nat)
  BY DEF Strings
<1>3. PICK n \in 0..Len(s) : /\ n < Len(t)
                             /\ \A j \in 1..n : s[j] = t[j]
                             /\ n = Len(s) \/ s[n + 1] < t[n + 1]
  BY LessIs
<1>4. PICK m \in 0..Len(t) : /\ m < Len(u)
                             /\ \A j \in 1..m : t[j] = u[j]
                             /\ m = Len(t) \/ t[m + 1] < u[m + 1]
  BY LessIs
<1>5. CASE n <= m
  <2>1. n < Len(u) /\ \A j \in 1..n : s[j] = u[j]
    BY <1>1, <1>3, <1>4, <1>5
  <2>2. n = Len(s) \/ s[n + 1] < u[n + 1]
    <3>1. SUFFICES ASSUME n # Len(s) PROVE s[n + 1] < u[n + 1]
      OBVIOUS
    <3>2. n + 1 \in 1..Len(s) /\ n + 1 \in 1..Len(t) /\ n + 1 \in 1..Len(u)
      BY <1>1, <1>3, <2>1, <3>1
    <3>3. s[n + 1] \in Nat /\ t[n + 1] \in Nat /\ u[n + 1] \in Nat
      BY <1>2, <3>2
    <3>4. CASE n = m
      BY <1>3, <1>4, <3>1, <3>3, <3>4
    <3>5. CASE n < m
      <4>1. t[n + 1] = u[n + 1]
        BY <1>1, <1>3, <1>4, <3>5
      <4> QED BY <1>3, <3>1, <4>1
    <3> QED BY <1>1, <1>5, <3>4, <3>5
  <2> QED BY <2>1, <2>2, LessIs
<1>6. CASE m < n
  <2>1. m \in 0..Len(s) /\ m < Len(u) /\ \A j \in 1..m : s[j] = u[j]
    BY <1>1, <1>3, <1>4, <1>6
  <2>2. s[m + 1] = t[m + 1] /\ m # Len(t)
    BY <1>1, <1>3, <1>6
  <2> QED BY <1>4, <2>1, <2>2, LessIs
<1> QED BY <1>1, <1>5, <1>6

LEMMA LessTotal ==
    ASSUME NEW s \in Strings, NEW t \in Strings
    PROVE  s = t \/ Less(s, t) \/ Less(t, s)
<1> DEFINE D == {n \in Nat : n = Len(s) \/ n = Len(t) \/ s[n + 1] # t[n + 1]}
<1>1. Len(s) \in Nat /\ Len(t) \in Nat
  BY LenProperties DEF Strings
<1>2. (\A n \in 1..Len(s) : s[n] \in Nat) /\ (\A n \in 1..Len(t) : t[n] \in Nat)
  BY DEF Strings
<1>3. Len(s) \in D /\ Len(t) \in D /\ D \in SUBSET Nat
  BY <1>1
<1>4. PICK m : m \in D /\ \A y \in D : m <= y
  <2> HIDE DEF D
  <2> QED BY <1>3, MinIs
<1>5. m \in Nat /\ m <= Len(s) /\ m <= Len(t)
  BY <1>3, <1>4
<1>6. \A j \in 1..m : s[j] = t[j]
  <2>1. TAKE j \in 1..m
  <2>2. j - 1 \in Nat /\ j - 1 \notin D /\ (j - 1) + 1 = j
    <3>1. j - 1 \in Nat /\ ~(m <= j - 1) /\ (j - 1) + 1 = j
      BY <1>5, <2>1
    <3> HIDE DEF D
    <3> QED BY <1>4, <3>1
  <2> QED BY <2>2
<1>7. m = Len(s) \/ m = Len(t) \/ s[m + 1] # t[m + 1]
  BY <1>4
<1>8. CASE m = Len(s) /\ m = Len(t)
  <2>1. s = t
    BY <1>6, <1>8, SeqEqual DEF Strings
  <2> QED BY <2>1
<1>9. CASE m = Len(s) /\ m # Len(t)
  <2>1. m < Len(t) /\ m \in 0..Len(s)
    BY <1>1, <1>5, <1>9
  <2> QED BY <1>6, <1>9, <2>1, LessIs
<1>10. CASE m # Len(s) /\ m = Len(t)
  <2>1. m < Len(s) /\ m \in 0..Len(t)
    BY <1>1, <1>5, <1>10
  <2> QED BY <1>6, <1>10, <2>1, LessIs
<1>11. CASE m # Len(s) /\ m # Len(t)
  <2>1. m < Len(s) /\ m < Len(t) /\ m \in 0..Len(s) /\ m \in 0..Len(t)
    BY <1>1, <1>5, <1>11
  <2>2. s[m + 1] \in Nat /\ t[m + 1] \in Nat /\ s[m + 1] # t[m + 1]
    BY <1>2, <1>5, <1>7, <1>11, <2>1
  <2> QED BY <1>6, <2>1, <2>2, LessIs
<1> QED BY <1>8, <1>9, <1>10, <1>11

\* The empty string comes first.
LEMMA EmptyFirst ==
    ASSUME NEW s \in Strings
    PROVE  Leq(<< >>, s) /\ ~Less(s, << >>)
<1>1. << >> \in Strings /\ Len(<< >>) = 0 /\ Len(s) \in Nat
  BY EmptySeq, LenProperties DEF Strings
<1>2. ~Less(s, << >>)
  BY <1>1, LessIs
<1>3. s = << >> \/ Less(<< >>, s)
  BY <1>1, <1>2, LessTotal
<1> QED BY <1>2, <1>3 DEF Leq

----------------------------------------------------------------------------
(* Parts of sequences *)

LEMMA SeqFacts ==
    ASSUME NEW S, NEW s \in Seq(S)
    PROVE  /\ Len(s) \in Nat /\ DOMAIN s = 1..Len(s)
           /\ \A i \in 1..Len(s) : s[i] \in S
           /\ Len(s) = 0 <=> s = << >>
BY LenProperties, EmptySeq

\* The bytes behind the first a, up to the c-th.
LEMMA Cut ==
    ASSUME NEW S, NEW s \in Seq(S), NEW a \in 0..Len(s), NEW c \in a..Len(s)
    PROVE  /\ SubSeq(s, a + 1, c) \in Seq(S)
           /\ Len(SubSeq(s, a + 1, c)) = c - a
           /\ \A j \in 1..c - a : SubSeq(s, a + 1, c)[j] = s[a + j]
<1>1. Len(s) \in Nat /\ a \in Nat /\ c \in Nat /\ a <= c /\ \A i \in a + 1..c : s[i] \in S
  BY SeqFacts
<1>2. /\ SubSeq(s, a + 1, c) \in Seq(S)
      /\ Len(SubSeq(s, a + 1, c)) = IF a + 1 <= c THEN c - (a + 1) + 1 ELSE 0
      /\ \A j \in 1..c - (a + 1) + 1 : SubSeq(s, a + 1, c)[j] = s[(a + 1) + j - 1]
  BY <1>1, SubSeqProperties
<1>3. c - (a + 1) + 1 = c - a /\ \A j \in 1..c - a : (a + 1) + j - 1 = a + j
  BY <1>1
<1> QED BY <1>1, <1>2, <1>3

\* x is s with t behind it.
Joined(x, s, t, S) ==
    /\ x \in Seq(S) /\ Len(x) = Len(s) + Len(t)
    /\ Len(s) \in Nat /\ Len(t) \in Nat
    /\ \A j \in 1..Len(s) : x[j] = s[j]
    /\ \A j \in 1..Len(t) : x[Len(s) + j] = t[j]

LEMMA JoinedIs ==
    ASSUME NEW S, NEW s \in Seq(S), NEW t \in Seq(S)
    PROVE  Joined(s \o t, s, t, S)
<1> PICK n, m, x : n = Len(s) /\ m = Len(t) /\ x = s \o t
  OBVIOUS
<1>1. n \in Nat /\ m \in Nat
  BY SeqFacts
<1>2. x \in Seq(S) /\ Len(x) = n + m /\ \A j \in 1..n + m : x[j] = IF j <= n THEN s[j] ELSE t[j - n]
  BY ConcatProperties
<1>3. \A j \in 1..n : x[j] = s[j]
  <2>1. \A j \in 1..n : j \in 1..n + m /\ j <= n
    BY <1>1
  <2> QED BY <1>2, <2>1
<1>4. \A j \in 1..m : x[n + j] = t[j]
  <2>1. \A j \in 1..m : n + j \in 1..n + m /\ ~(n + j <= n) /\ n + j - n = j
    BY <1>1
  <2> QED BY <1>2, <2>1
<1> QED BY <1>1, <1>2, <1>3, <1>4 DEF Joined

\* What is left of s behind its first a elements.
From(s, a) == SubSeq(s, a + 1, Len(s))

LEMMA FromIs ==
    ASSUME NEW S, NEW s \in Seq(S), NEW a \in 0..Len(s)
    PROVE  /\ From(s, a) \in Seq(S)
           /\ Len(From(s, a)) = Len(s) - a
           /\ \A j \in 1..Len(s) - a : From(s, a)[j] = s[a + j]
           /\ a = 0 => From(s, a) = s
<1>1. Len(s) \in a..Len(s) /\ Len(s) \in Nat
  BY SeqFacts
<1>2. /\ From(s, a) \in Seq(S)
      /\ Len(From(s, a)) = Len(s) - a
      /\ \A j \in 1..Len(s) - a : From(s, a)[j] = s[a + j]
  BY <1>1, Cut DEF From
<1>3. ASSUME a = 0 PROVE From(s, a) = s
  <2>1. Len(s) - a = Len(s) /\ \A j \in 1..Len(s) : a + j = j
    BY <1>1, <1>3
  <2>2. Len(From(s, a)) = Len(s) /\ \A j \in 1..Len(From(s, a)) : From(s, a)[j] = s[j]
    BY <1>2, <2>1
  <2> QED BY <1>2, <2>2, SeqEqual
<1> QED BY <1>2, <1>3

LEMMA FromTwice ==
    ASSUME NEW S, NEW s \in Seq(S), NEW a \in 0..Len(s), NEW d \in 0..Len(s) - a
    PROVE  From(From(s, a), d) = From(s, a + d)
<1> DEFINE r == From(s, a)
           x == From(r, d)
           y == From(s, a + d)
<1>1. Len(s) \in Nat /\ a \in Nat /\ d \in Nat /\ a + d \in 0..Len(s) /\ a <= Len(s)
  BY SeqFacts
<1>2. r \in Seq(S) /\ Len(r) = Len(s) - a /\ \A j \in 1..Len(s) - a : r[j] = s[a + j]
  BY <1>1, FromIs
<1>3. x \in Seq(S) /\ Len(x) = Len(r) - d /\ \A j \in 1..Len(r) - d : x[j] = r[d + j]
  <2>1. d \in 0..Len(r)
    BY <1>1, <1>2
  <2>2. r \in Seq(S)
    BY <1>2
  <2> HIDE DEF r
  <2> QED BY ONLY <2>1, <2>2, FromIs
<1>4. y \in Seq(S) /\ Len(y) = Len(s) - (a + d) /\ \A j \in 1..Len(s) - (a + d) : y[j] = s[(a + d) + j]
  BY <1>1, FromIs
<1> HIDE DEF r, x, y
<1>5. \A j \in 1..Len(r) - d : x[j] = y[j]
  <2>1. TAKE j \in 1..Len(r) - d
  <2>2. d + j \in 1..Len(s) - a /\ a + (d + j) = (a + d) + j /\ j \in 1..Len(s) - (a + d)
    BY <1>1, <1>2
  <2> QED BY <1>2, <1>3, <1>4, <2>2
<1>6. Len(x) = Len(y)
  BY <1>1, <1>2, <1>3, <1>4
<1>7. x = y
  <2>1. \A j \in 1..Len(x) : x[j] = y[j]
    BY <1>3, <1>5
  <2> QED BY <1>3, <1>4, <1>6, <2>1, SeqEqual
<1> QED BY <1>7 DEF r, x, y

----------------------------------------------------------------------------
(* Lines *)

Texts == Seq(Nat \ {NEWLINE})

LEMMA TextsAre ==
    ASSUME NEW l \in Texts
    PROVE  /\ l \in Strings /\ Len(l) \in Nat
           /\ \A j \in 1..Len(l) : l[j] \in Nat /\ l[j] # NEWLINE
<1>1. l \in Seq(Nat)
  BY SeqMonotonic DEF Texts
<1> QED BY <1>1, LenProperties DEF Texts, Strings

LEMMA FirstIs ==
    ASSUME NEW s \in Strings, NEW c, NEW p \in 1..Len(s), s[p] = c, \A j \in 1..p - 1 : s[j] # c
    PROVE  FirstOf(c, s) = p
<1> DEFINE at == {i \in DOMAIN s : s[i] = c}
<1>1. DOMAIN s = 1..Len(s) /\ Len(s) \in Nat
  BY LenProperties DEF Strings
<1>2. p \in at /\ at \in SUBSET Nat
  BY <1>1
<1>3. Min(at) \in at /\ \A y \in at : Min(at) <= y
  <2> HIDE DEF at
  <2> QED BY <1>2, MinIs
<1>4. Min(at) <= p /\ Min(at) \in 1..Len(s) /\ s[Min(at)] = c
  BY <1>1, <1>2, <1>3
<1>5. Min(at) = p
  <2> HIDE DEF at
  <2> QED BY <1>1, <1>4
<1> QED BY <1>2, <1>5 DEF FirstOf

LEMMA FirstType ==
    ASSUME NEW s \in Strings, NEW c
    PROVE  /\ FirstOf(c, s) \in 1..Len(s) + 1
           /\ (\A j \in 1..Len(s) : s[j] # c) => FirstOf(c, s) = Len(s) + 1
<1> DEFINE at == {i \in DOMAIN s : s[i] = c}
<1>1. DOMAIN s = 1..Len(s) /\ Len(s) \in Nat
  BY LenProperties DEF Strings
<1>2. at \in SUBSET Nat
  BY <1>1
<1>3. at # {} => Min(at) \in at
  <2> HIDE DEF at
  <2> QED BY <1>2, MinIs
<1> QED BY <1>1, <1>3 DEF FirstOf

\* One line is taken from a stream that is not at its end.
LEMMA GotType ==
    ASSUME NEW b \in Strings, b # << >>
    PROVE  /\ Got(b) \in Strings /\ Left(b) \in Strings
           /\ Len(Left(b)) \in 0..Len(b) - 1
<1>1. Len(b) \in Nat /\ Len(b) # 0
  BY LenProperties, EmptySeq DEF Strings
<1>2. FirstOf(NEWLINE, b) \in 1..Len(b) + 1
  BY FirstType
<1> PICK f : f = FirstOf(NEWLINE, b)
  OBVIOUS
<1>3. Got(b) = SubSeq(b, 1, f - 1) /\ Left(b) = SubSeq(b, f + 1, Len(b)) /\ f \in 1..Len(b) + 1
  BY <1>2 DEF Got, Left
<1>4. SubSeq(b, 1, f - 1) \in Strings
  <2>1. f - 1 \in 0..Len(b) /\ b \in Seq(Nat)
    BY <1>1, <1>3 DEF Strings
  <2> QED BY ONLY <2>1, StartOf DEF Strings
<1>5. SubSeq(b, f + 1, Len(b)) \in Strings /\ Len(SubSeq(b, f + 1, Len(b))) \in 0..Len(b) - 1
  <2>1. CASE f <= Len(b)
    <3>1. f \in 0..Len(b) /\ Len(b) \in f..Len(b) /\ Len(b) - f \in 0..Len(b) - 1
      BY <1>1, <1>3, <2>1
    <3>2. b \in Seq(Nat)
      BY DEF Strings
    <3>3. SubSeq(b, f + 1, Len(b)) \in Seq(Nat) /\ Len(SubSeq(b, f + 1, Len(b))) = Len(b) - f
      <4>1. From(b, f) \in Seq(Nat) /\ Len(From(b, f)) = Len(b) - f
        BY ONLY <3>1, <3>2, FromIs
      <4> QED BY <4>1 DEF From
    <3> QED BY <3>1, <3>3 DEF Strings
  <2>2. CASE f > Len(b)
    <3>1. SubSeq(b, f + 1, Len(b)) = << >> /\ 0 \in 0..Len(b) - 1
      BY <1>1, <1>3, <2>2, SubSeqEmpty
    <3> QED BY <3>1, EmptySeq DEF Strings
  <2> QED BY <1>1, <1>3, <2>1, <2>2
<1> QED BY <1>3, <1>4, <1>5

\* The stream starts with the line l.
LEMMA GotIs ==
    ASSUME NEW b \in Strings, NEW l \in Texts, Len(l) < Len(b),
           \A j \in 1..Len(l) : b[j] = l[j], b[Len(l) + 1] = NEWLINE
    PROVE  /\ Got(b) = l
           /\ Left(b) = From(b, Len(l) + 1)
           /\ Len(Left(b)) = Len(b) - Len(l) - 1
<1>1. /\ Len(b) \in Nat /\ Len(l) \in Nat /\ l \in Seq(Nat) /\ b \in Seq(Nat)
      /\ \A j \in 1..Len(l) : l[j] # NEWLINE
  BY LenProperties, TextsAre DEF Strings
<1>2. FirstOf(NEWLINE, b) = Len(l) + 1
  <2>1. \A j \in 1..Len(l) : b[j] # NEWLINE
    BY <1>1
  <2>2. Len(l) + 1 \in 1..Len(b) /\ (Len(l) + 1) - 1 = Len(l)
    BY <1>1
  <2> QED BY <2>1, <2>2, FirstIs
<1>3. Got(b) = SubSeq(b, 1, Len(l))
  BY <1>1, <1>2 DEF Got
<1>4. SubSeq(b, 1, Len(l)) = l
  <2>1. /\ SubSeq(b, 1, Len(l)) \in Seq(Nat) /\ Len(SubSeq(b, 1, Len(l))) = Len(l)
        /\ \A j \in 1..Len(l) : SubSeq(b, 1, Len(l))[j] = b[j]
    BY <1>1, SubSeqProperties DEF Strings
  <2> QED BY <1>1, <2>1, SeqEqual
<1>5. Left(b) = From(b, Len(l) + 1)
  BY <1>2 DEF Left, From
<1>6. Len(From(b, Len(l) + 1)) = Len(b) - Len(l) - 1
  <2>1. Len(l) + 1 \in 0..Len(b) /\ Len(b) - (Len(l) + 1) = Len(b) - Len(l) - 1
    BY <1>1
  <2>2. b \in Seq(Nat)
    BY <1>1
  <2>3. Len(From(b, Len(l) + 1)) = Len(b) - (Len(l) + 1)
    BY ONLY <2>1, <2>2, FromIs
  <2> QED BY <2>1, <2>3
<1> QED BY <1>3, <1>4, <1>5, <1>6

\* b is the lines ls, each with its newline; the i-th starts at the offset off[i].
IsLines(b, ls, off) ==
    /\ b \in Strings
    /\ ls \in Seq(Texts)
    /\ off \in [1..Len(ls) + 1 -> Nat]
    /\ off[1] = 0
    /\ off[Len(ls) + 1] = Len(b)
    /\ \A i \in 1..Len(ls) :
          /\ off[i + 1] = off[i] + Len(ls[i]) + 1
          /\ \A j \in 1..Len(ls[i]) : b[off[i] + j] = ls[i][j]
          /\ b[off[i + 1]] = NEWLINE

LEMMA OffsetsGrow ==
    ASSUME NEW b, NEW ls, NEW off, IsLines(b, ls, off),
           NEW i \in 1..Len(ls) + 1, NEW j \in i..Len(ls) + 1
    PROVE  off[i] <= off[j] /\ (i < j => off[i] < off[j])
<1>1. Len(ls) \in Nat
  BY LenProperties DEF IsLines
<1> DEFINE S == {m \in Nat : i + m <= Len(ls) + 1 => off[i] + m <= off[i + m]}
<1>2. 0 \in S
  BY <1>1 DEF IsLines
<1>3. ASSUME NEW m \in Nat, m \in S PROVE m + 1 \in S
  <2>1. SUFFICES ASSUME i + (m + 1) <= Len(ls) + 1 PROVE off[i] + (m + 1) <= off[i + (m + 1)]
    OBVIOUS
  <2>2. i + m \in 1..Len(ls) /\ i + (m + 1) = (i + m) + 1 /\ i + m \in 1..Len(ls) + 1
        /\ (i + m) + 1 \in 1..Len(ls) + 1
    BY <1>1, <2>1
  <2>3. off[(i + m) + 1] = off[i + m] + Len(ls[i + m]) + 1 /\ Len(ls[i + m]) \in Nat
    BY <2>2, ElementOfSeq, TextsAre DEF IsLines
  <2>4. off[i] \in Nat /\ off[i + m] \in Nat
    BY <2>2 DEF IsLines
  <2>5. off[i] + m <= off[i + m]
    BY <1>1, <1>3, <2>2
  <2> PICK o, p, q, l : o = off[i] /\ p = off[i + m] /\ q = off[(i + m) + 1] /\ l = Len(ls[i + m])
    OBVIOUS
  <2>6. q = p + l + 1 /\ l \in Nat /\ o \in Nat /\ p \in Nat /\ o + m <= p /\ m \in Nat
    BY <1>3, <2>3, <2>4, <2>5
  <2>7. o + (m + 1) <= q
    BY ONLY <2>6
  <2> QED BY <2>2, <2>7
<1>4. j - i \in S
  <2>1. Nat \subseteq S
    <3> HIDE DEF S
    <3> QED BY <1>2, <1>3, SetInduction
  <2> QED BY <1>1, <2>1
<1>5. i + (j - i) = j /\ j - i \in Nat /\ off[i] \in Nat /\ off[j] \in Nat
  BY <1>1 DEF IsLines
<1>6. off[i] + (j - i) <= off[j]
  BY <1>1, <1>4, <1>5
<1> QED BY <1>1, <1>5, <1>6

LEMMA LineIs ==
    ASSUME NEW b, NEW ls, NEW off, IsLines(b, ls, off), NEW i \in 1..Len(ls)
    PROVE  /\ Len(ls) \in Nat /\ Len(b) \in Nat /\ off[i] \in Nat /\ off[i + 1] \in Nat
           /\ ls[i] \in Texts /\ Len(ls[i]) \in Nat
           /\ off[i + 1] = off[i] + Len(ls[i]) + 1
           /\ off[i + 1] <= Len(b)
           /\ \A j \in 1..Len(ls[i]) : b[off[i] + j] = ls[i][j]
           /\ b[off[i + 1]] = NEWLINE
<1>1. Len(ls) \in Nat /\ Len(b) \in Nat
  BY LenProperties DEF IsLines, Strings
<1>2. i \in 1..Len(ls) + 1 /\ i + 1 \in 1..Len(ls) + 1 /\ Len(ls) + 1 \in i + 1..Len(ls) + 1
  BY <1>1
<1>3. off[i] \in Nat /\ off[i + 1] \in Nat
  BY <1>2 DEF IsLines
<1>4. ls[i] \in Texts
  BY ElementOfSeq DEF IsLines
<1>5. Len(ls[i]) \in Nat
  BY <1>4, TextsAre
<1>6. off[i + 1] <= Len(b)
  <2>1. off[i + 1] <= off[Len(ls) + 1]
    BY <1>2, OffsetsGrow
  <2> QED BY <2>1 DEF IsLines
<1> QED BY <1>1, <1>3, <1>4, <1>5, <1>6 DEF IsLines

\* The line l starts at the offset o of b.
LineAt(b, l, o) ==
    /\ o + Len(l) + 1 <= Len(b)
    /\ \A j \in 1..Len(l) : b[o + j] = l[j]
    /\ b[o + Len(l) + 1] = NEWLINE

\* A stream r from the d-th byte of that line on starts with what is left of the
\* line, t, and goes on behind the line.
TailAt(b, l, o, d, r, t) ==
    /\ r \in Strings /\ r # << >> /\ Len(r) = Len(b) - (o + d)
    /\ \A j \in 1..Len(b) - (o + d) : r[j] = b[o + d + j]
    /\ t \in Texts /\ Len(t) = Len(l) - d
    /\ \A j \in 1..Len(t) : r[j] = t[j]
    /\ Got(r) = t
    /\ Left(r) = From(b, o + Len(l) + 1)
    /\ Len(Left(r)) = Len(b) - (o + Len(l) + 1)

LEMMA TailIs ==
    ASSUME NEW b \in Strings, NEW l \in Texts, NEW o \in Nat, LineAt(b, l, o),
           NEW d \in 0..Len(l),
           NEW r, r = From(b, o + d), NEW t, t = From(l, d)
    PROVE  TailAt(b, l, o, d, r, t)
<1>1. Len(b) \in Nat /\ Len(l) \in Nat /\ d \in Nat /\ b \in Seq(Nat) /\ l \in Seq(Nat \ {NEWLINE})
  BY SeqFacts DEF Strings, Texts
<1>a. /\ o + Len(l) + 1 <= Len(b)
      /\ \A j \in 1..Len(l) : b[o + j] = l[j]
      /\ b[o + Len(l) + 1] = NEWLINE
  BY DEF LineAt
<1>b. o + Len(l) + 1 <= Len(b)
  BY <1>a
<1>2. o + d \in 0..Len(b) /\ Len(l) - d \in Nat
  BY <1>1, <1>b
<1>3. t \in Seq(Nat \ {NEWLINE}) /\ Len(t) = Len(l) - d /\ \A j \in 1..Len(l) - d : t[j] = l[d + j]
  BY <1>1, FromIs
<1>4. r \in Seq(Nat) /\ Len(r) = Len(b) - (o + d) /\ \A j \in 1..Len(b) - (o + d) : r[j] = b[o + d + j]
  BY <1>1, <1>2, FromIs
<1>5. \A j \in 1..Len(t) : r[j] = t[j]
  <2>1. TAKE j \in 1..Len(t)
  <2>2. j \in 1..Len(l) - d /\ d + j \in 1..Len(l) /\ o + d + j = o + (d + j) /\ j \in 1..Len(b) - (o + d)
    BY <1>1, <1>b, <1>3
  <2> QED BY <1>a, <1>3, <1>4, <2>2
<1>6. r[Len(t) + 1] = NEWLINE
  <2>1. Len(t) + 1 \in 1..Len(b) - (o + d) /\ o + d + (Len(t) + 1) = o + Len(l) + 1
    BY <1>1, <1>b, <1>3
  <2> QED BY <1>a, <1>4, <2>1
<1>7. r # << >> /\ Len(t) < Len(r)
  <2>1. Len(t) < Len(r) /\ Len(r) # 0
    BY <1>1, <1>b, <1>3, <1>4
  <2> QED BY <1>4, <2>1, SeqFacts
<1>8. r \in Strings /\ t \in Texts
  BY <1>3, <1>4 DEF Strings, Texts
<1>9. Got(r) = t /\ Left(r) = From(r, Len(t) + 1) /\ Len(Left(r)) = Len(r) - Len(t) - 1
  BY <1>5, <1>6, <1>7, <1>8, GotIs
<1>10. From(r, Len(t) + 1) = From(b, o + Len(l) + 1)
  <2>1. Len(t) + 1 \in 0..Len(b) - (o + d) /\ (o + d) + (Len(t) + 1) = o + Len(l) + 1
    BY <1>1, <1>b, <1>3
  <2>2. From(From(b, o + d), Len(t) + 1) = From(b, (o + d) + (Len(t) + 1))
    BY <1>1, <1>2, <2>1, FromTwice
  <2> QED BY <2>1, <2>2
<1>11. Len(r) - Len(t) - 1 = Len(b) - (o + Len(l) + 1)
  BY <1>1, <1>3, <1>4
<1> QED BY <1>3, <1>4, <1>5, <1>7, <1>8, <1>9, <1>10, <1>11 DEF TailAt

\* The file is read from within its i-th line on.
LEMMA LineFrom ==
    ASSUME NEW b, NEW ls, NEW off, IsLines(b, ls, off), NEW i \in 1..Len(ls),
           NEW d \in 0..Len(ls[i]),
           NEW r, r = From(b, off[i] + d), NEW t, t = From(ls[i], d)
    PROVE  /\ r \in Strings /\ r # << >> /\ Len(r) = Len(b) - (off[i] + d)
           /\ \A j \in 1..Len(b) - (off[i] + d) : r[j] = b[off[i] + d + j]
           /\ t \in Texts /\ Len(t) = Len(ls[i]) - d
           /\ \A j \in 1..Len(t) : r[j] = t[j]
           /\ Got(r) = t
           /\ Left(r) = From(b, off[i + 1])
           /\ Len(Left(r)) = Len(b) - off[i + 1]
<1>1. b \in Strings
  BY DEF IsLines
<1>p. PICK l, o, q : l = ls[i] /\ o = off[i] /\ q = off[i + 1]
  OBVIOUS
<1>2. /\ l \in Texts /\ o \in Nat /\ q = o + Len(l) + 1 /\ q <= Len(b) /\ b[q] = NEWLINE
  BY <1>p, LineIs
<1>3. \A j \in 1..Len(l) : b[o + j] = l[j]
  <2>1. \A j \in 1..Len(ls[i]) : b[off[i] + j] = ls[i][j]
    BY LineIs
  <2> QED BY <1>p, <2>1
<1>4. r = From(b, o + d) /\ t = From(l, d) /\ d \in 0..Len(l)
  BY <1>p
<1>5. /\ r \in Strings /\ r # << >> /\ Len(r) = Len(b) - (o + d)
      /\ \A j \in 1..Len(b) - (o + d) : r[j] = b[o + d + j]
      /\ t \in Texts /\ Len(t) = Len(l) - d
      /\ \A j \in 1..Len(t) : r[j] = t[j]
      /\ Got(r) = t
      /\ Left(r) = From(b, o + Len(l) + 1)
      /\ Len(Left(r)) = Len(b) - (o + Len(l) + 1)
  <2>1. LineAt(b, l, o)
    BY <1>2, <1>3 DEF LineAt
  <2>2. TailAt(b, l, o, d, r, t)
    BY <1>1, <1>2, <1>4, <2>1, TailIs
  <2> QED BY <2>2 DEF TailAt
<1>6. Left(r) = From(b, q) /\ Len(Left(r)) = Len(b) - q
  BY <1>2, <1>5
<1>7. (\A j \in 1..Len(t) : r[j] = t[j]) /\ \A j \in 1..Len(b) - (off[i] + d) : r[j] = b[off[i] + d + j]
  BY <1>5, <1>p, Zenon
<1>8. /\ r \in Strings /\ r # << >> /\ Len(r) = Len(b) - (off[i] + d)
      /\ t \in Texts /\ Len(t) = Len(ls[i]) - d
      /\ Got(r) = t
  BY <1>5, <1>p, Zenon
<1>9. /\ Left(r) = From(b, off[i + 1])
      /\ Len(Left(r)) = Len(b) - off[i + 1]
  BY <1>6, <1>p, Zenon
<1> QED BY <1>7, <1>8, <1>9, Zenon

\* What is read of the last m bytes of b, for each m.
Reading(b, f) ==
    /\ f \in [0..Len(b) -> Seq(Strings)]
    /\ f[0] = << >>
    /\ \A m \in 1..Len(b) :
          LET rest == From(b, Len(b) - m)
          IN  f[m] = <<Got(rest)>> \o f[Len(Left(rest))]

LEMMA LinesRec ==
    ASSUME NEW b \in Strings
    PROVE  \E f : Reading(b, f) /\ Lines(b) = f[Len(b)]
<1> DEFINE n == Len(b)
           Rest(m) == From(b, n - m)
           T == Seq(Strings)
           nx == [m \in 1..n |-> Len(Left(Rest(m)))]
           F == [m \in 1..n |-> [t \in T |-> <<Got(Rest(m))>> \o t]]
           Rec(f) == f = [m \in 0..n |-> IF m = 0 THEN << >> ELSE <<Got(Rest(m))>> \o f[Len(Left(Rest(m)))]]
<1>1. n \in Nat /\ b \in Seq(Nat)
  BY SeqFacts DEF Strings
<1>2. ASSUME NEW m \in 1..n
      PROVE  /\ Got(Rest(m)) \in Strings
             /\ Len(Left(Rest(m))) \in 0..m - 1
  <2>1. n - m \in 0..Len(b) /\ n - (n - m) = m /\ m # 0
    BY <1>1
  <2>2. Rest(m) \in Seq(Nat) /\ Len(Rest(m)) = m
    BY <1>1, <2>1, FromIs
  <2>3. Rest(m) \in Strings
    BY <2>2 DEF Strings
  <2> HIDE DEF Rest
  <2>4. Rest(m) # << >>
    BY <2>1, <2>2, SeqFacts
  <2> QED BY <2>2, <2>3, <2>4, GotType
<1> HIDE DEF Rest, n
<1>3. << >> \in T
  BY EmptySeq
<1>4. \A m \in 1..n : nx[m] \in 0..m - 1
  BY <1>2
<1>5. \A m \in 1..n : \A t \in T : F[m][t] = <<Got(Rest(m))>> \o t /\ F[m][t] \in T
  <2>1. TAKE m \in 1..n
  <2>2. TAKE t \in T
  <2>3. F[m][t] = <<Got(Rest(m))>> \o t
    OBVIOUS
  <2>4. <<Got(Rest(m))>> \in T
    BY <1>2
  <2>5. <<Got(Rest(m))>> \o t \in T
    <3> HIDE DEF F
    <3> QED BY <2>4, ConcatProperties
  <2> QED BY <2>3, <2>5
<1>6. Steps(n, T, nx, F)
  <2> HIDE DEF T, F, nx
  <2> QED BY <1>4, <1>5 DEF Steps
<1>e. PICK base : base = << >> /\ base \in T
  BY <1>3
<1>r. PICK a : Recursive(a, n, T, base, nx, F)
  <2> HIDE DEF T, F, nx
  <2> QED BY <1>1, <1>e, <1>6, Recursion
<1>a. /\ a \in [0..n -> T]
      /\ a = [m \in 0..n |-> IF m = 0 THEN base ELSE F[m][a[nx[m]]]]
  <2> HIDE DEF T, F, nx
  <2> QED BY <1>r DEF Recursive
<1>7. Rec(a)
  <2>1. \A m \in 1..n : F[m][a[nx[m]]] = <<Got(Rest(m))>> \o a[Len(Left(Rest(m)))]
    <3>1. TAKE m \in 1..n
    <3>2. nx[m] = Len(Left(Rest(m)))
      OBVIOUS
    <3>3. nx[m] \in 0..n
      <4> HIDE DEF nx
      <4> QED BY <1>1, <1>4
    <3>4. a[nx[m]] \in T
      <4> HIDE DEF nx, T
      <4> QED BY <1>a, <3>3
    <3> HIDE DEF nx, F, T
    <3> QED BY <1>5, <3>2, <3>4
  <2>2. \A m \in 0..n : m # 0 => m \in 1..n
    OBVIOUS
  <2> HIDE DEF F, nx, T
  <2> QED BY <1>a, <1>e, <2>1, <2>2
<1>8. PICK f : f = CHOOSE g : Rec(g)
  OBVIOUS
<1>9. Rec(f)
  <2>1. \E g : Rec(g)
    BY <1>7
  <2> HIDE DEF Rec
  <2> QED BY <1>8, <2>1
<1>10. Lines(b) = f[n]
  BY <1>8 DEF Lines, n, Rest, From
<1>11. f[0] = << >> /\ \A m \in 1..n : f[m] = <<Got(Rest(m))>> \o f[Len(Left(Rest(m)))]
  <2>1. 0 \in 0..n /\ \A m \in 1..n : m \in 0..n /\ m # 0
    BY <1>1
  <2>2. \A m \in 0..n : f[m] = IF m = 0 THEN << >> ELSE <<Got(Rest(m))>> \o f[Len(Left(Rest(m)))]
    BY <1>9
  <2> HIDE DEF Rec
  <2> QED BY <2>1, <2>2
<1>12. f \in [0..n -> T]
  <2> DEFINE S == {k \in Nat : \A m \in 0..n : m <= k => f[m] \in T}
  <2>1. 0 \in S
    <3>1. \A m \in 0..n : m <= 0 => m = 0
      BY <1>1
    <3> HIDE DEF T
    <3> QED BY <1>3, <1>11, <3>1
  <2>2. ASSUME NEW k \in Nat, k \in S PROVE k + 1 \in S
    <3>1. SUFFICES ASSUME NEW m \in 0..n, m = k + 1 PROVE f[m] \in T
      BY <2>2
    <3>2. m \in 1..n
      BY <3>1
    <3>3. Len(Left(Rest(m))) \in 0..n /\ Len(Left(Rest(m))) <= k /\ Got(Rest(m)) \in Strings
      BY <1>1, <1>2, <3>1, <3>2
    <3>4. f[Len(Left(Rest(m)))] \in T
      BY <2>2, <3>3
    <3>5. <<Got(Rest(m))>> \in T
      BY <3>3
    <3>6. <<Got(Rest(m))>> \o f[Len(Left(Rest(m)))] \in T
      BY <3>4, <3>5, ConcatProperties
    <3> QED BY <1>11, <3>2, <3>6
  <2>3. n \in S
    <3> HIDE DEF S, T
    <3> QED BY <1>1, <2>1, <2>2, SetInduction
  <2>4. \A m \in 0..n : f[m] \in T
    BY <1>1, <2>3
  <2>5. f = [m \in 0..n |-> f[m]]
    BY <1>9
  <2> HIDE DEF T, Rec
  <2> QED BY <2>4, <2>5
<1> QED BY <1>10, <1>11, <1>12 DEF n, Rest, Reading


LEMMA RestIs ==
    ASSUME NEW b \in Strings, NEW m \in 1..Len(b), NEW r, r = From(b, Len(b) - m)
    PROVE  /\ r \in Strings /\ Len(r) = m /\ r # << >>
           /\ Got(r) \in Strings /\ Len(Left(r)) \in 0..m - 1
<1>1. Len(b) - m \in 0..Len(b) /\ Len(b) - (Len(b) - m) = m /\ m # 0 /\ b \in Seq(Nat)
  BY SeqFacts DEF Strings
<1>2. r \in Seq(Nat) /\ Len(r) = m
  BY <1>1, FromIs
<1>3. r # << >> /\ r \in Strings
  BY <1>1, <1>2, SeqFacts DEF Strings
<1> QED BY <1>2, <1>3, GotType

\* The lines of a file from some byte on are those that are read of its last bytes.
LEMMA LinesSuffix ==
    ASSUME NEW b \in Strings, NEW f, Reading(b, f), NEW a \in 0..Len(b)
    PROVE  Lines(From(b, a)) = f[Len(b) - a]
<1> PICK c : c = From(b, a)
  OBVIOUS
<1>1. Len(b) \in Nat /\ a \in Nat /\ b \in Seq(Nat)
  BY SeqFacts DEF Strings
<1>2. c \in Strings /\ Len(c) = Len(b) - a /\ Len(c) \in Nat
  BY <1>1, FromIs DEF Strings
<1>3. PICK g : Reading(c, g) /\ Lines(c) = g[Len(c)]
  BY <1>2, LinesRec
<1> DEFINE S == {k \in Nat : \A m \in 0..Len(c) : m <= k => g[m] = f[m]}
<1>4. 0 \in S
  <2>1. g[0] = f[0]
    BY <1>3 DEF Reading
  <2>2. \A m \in 0..Len(c) : m <= 0 => m = 0
    BY <1>2
  <2> QED BY <2>1, <2>2
<1>5. ASSUME NEW k \in Nat, k \in S PROVE k + 1 \in S
  <2>1. SUFFICES ASSUME NEW m \in 0..Len(c), m = k + 1 PROVE g[m] = f[m]
    BY <1>5
  <2>2. m \in 1..Len(c) /\ m \in 1..Len(b)
    BY <1>1, <1>2, <2>1
  <2> PICK r : r = From(c, Len(c) - m)
    OBVIOUS
  <2>3. r = From(b, Len(b) - m)
    <3>1. Len(c) - m \in 0..Len(b) - a /\ a + (Len(c) - m) = Len(b) - m
      BY <1>1, <1>2, <2>2
    <3>2. From(From(b, a), Len(c) - m) = From(b, a + (Len(c) - m))
      BY <1>1, <3>1, FromTwice
    <3> QED BY <3>1, <3>2
  <2>4. Len(Left(r)) \in 0..m - 1
    BY <1>2, <2>2, RestIs
  <2>5. g[Len(Left(r))] = f[Len(Left(r))]
    <3>1. Len(Left(r)) \in 0..Len(c) /\ Len(Left(r)) <= k
      BY <1>2, <2>1, <2>2, <2>4
    <3> QED BY <1>5, <3>1
  <2>6. g[m] = <<Got(r)>> \o g[Len(Left(r))]
    BY <1>3, <2>2 DEF Reading
  <2>7. f[m] = <<Got(r)>> \o f[Len(Left(r))]
    BY <2>2, <2>3 DEF Reading
  <2> QED BY <2>5, <2>6, <2>7
<1>6. Len(c) \in S
  <2> HIDE DEF S
  <2> QED BY <1>2, <1>4, <1>5, SetInduction
<1>7. g[Len(c)] = f[Len(c)]
  BY <1>2, <1>6
<1> QED BY <1>2, <1>3, <1>7

LEMMA LinesStep ==
    ASSUME NEW b \in Strings, NEW a \in 0..Len(b), NEW e \in 0..Len(b), a < Len(b),
           Left(From(b, a)) = From(b, e)
    PROVE  Lines(From(b, a)) = <<Got(From(b, a))>> \o Lines(From(b, e))
<1>1. Len(b) \in Nat /\ a \in Nat /\ e \in Nat /\ b \in Seq(Nat)
  BY SeqFacts DEF Strings
<1>2. PICK f : Reading(b, f)
  BY LinesRec
<1>3. Lines(From(b, a)) = f[Len(b) - a] /\ Lines(From(b, e)) = f[Len(b) - e]
  BY <1>2, LinesSuffix
<1>4. Len(b) - a \in 1..Len(b) /\ Len(b) - (Len(b) - a) = a
  BY <1>1
<1>5. f[Len(b) - a] = <<Got(From(b, a))>> \o f[Len(Left(From(b, a)))]
  BY <1>2, <1>4 DEF Reading
<1>6. Len(From(b, e)) = Len(b) - e
  BY <1>1, FromIs
<1> QED BY <1>3, <1>5, <1>6

LEMMA NoLines == Lines(<< >>) = << >>
<1>1. << >> \in Strings /\ Len(<< >>) = 0
  BY EmptySeq DEF Strings
<1>2. PICK f : Reading(<< >>, f) /\ Lines(<< >>) = f[Len(<< >>)]
  BY <1>1, LinesRec
<1>3. f[0] = << >>
  BY <1>2 DEF Reading
<1> QED BY <1>1, <1>2, <1>3

LEMMA FromStep ==
    ASSUME NEW S, NEW s \in Seq(S)
    PROVE  /\ From(s, Len(s)) = << >>
           /\ \A a \in 0..Len(s) - 1 : From(s, a) = <<s[a + 1]>> \o From(s, a + 1)
<1>1. Len(s) \in Nat /\ Len(s) \in 0..Len(s) /\ \A i \in 1..Len(s) : s[i] \in S
  BY SeqFacts
<1>2. From(s, Len(s)) \in Seq(S) /\ Len(From(s, Len(s))) = 0
  BY <1>1, FromIs
<1>3. From(s, Len(s)) = << >>
  BY <1>2, SeqFacts
<1>4. ASSUME NEW a \in 0..Len(s) - 1
      PROVE  From(s, a) = <<s[a + 1]>> \o From(s, a + 1)
  <2> PICK x, y : x = From(s, a) /\ y = From(s, a + 1)
    OBVIOUS
  <2>1. a \in 0..Len(s) /\ a + 1 \in 0..Len(s) /\ a \in Nat
    BY <1>1
  <2>2. x \in Seq(S) /\ Len(x) = Len(s) - a /\ \A j \in 1..Len(s) - a : x[j] = s[a + j]
    BY <2>1, FromIs
  <2>3. y \in Seq(S) /\ Len(y) = Len(s) - (a + 1) /\ \A j \in 1..Len(s) - (a + 1) : y[j] = s[(a + 1) + j]
    BY <2>1, FromIs
  <2> PICK h : h = s[a + 1]
    OBVIOUS
  <2>4. <<h>> \in Seq(S) /\ Len(<<h>>) = 1 /\ <<h>>[1] = h
    <3>1. h \in S
      BY <1>1, <2>1
    <3> QED BY <3>1
  <2>5. /\ <<h>> \o y \in Seq(S) /\ Len(<<h>> \o y) = 1 + Len(y)
        /\ \A j \in 1..1 + Len(y) : (<<h>> \o y)[j] = IF j <= 1 THEN <<h>>[j] ELSE y[j - 1]
    BY <2>3, <2>4, ConcatProperties
  <2>6. Len(<<h>> \o y) = Len(x)
    <3>1. 1 + (Len(s) - (a + 1)) = Len(s) - a
      BY <1>1, <2>1
    <3> QED BY <2>2, <2>3, <2>5, <3>1
  <2>7. \A j \in 1..Len(x) : (<<h>> \o y)[j] = x[j]
    <3>1. TAKE j \in 1..Len(x)
    <3>2. CASE j = 1
      <4>1. (<<h>> \o y)[1] = h
        BY <1>1, <2>1, <2>2, <2>4, <2>5, <2>6, <3>2
      <4>2. x[1] = h
        BY <1>1, <2>1, <2>2, <3>2
      <4> QED BY <3>2, <4>1, <4>2
    <3>3. CASE j # 1
      <4>1. j - 1 \in 1..Len(s) - (a + 1) /\ (a + 1) + (j - 1) = a + j /\ ~(j <= 1) /\ j \in 1..1 + Len(y)
            /\ j \in 1..Len(s) - a
        BY <1>1, <2>1, <2>2, <2>3, <3>1, <3>3
      <4>2. (<<h>> \o y)[j] = y[j - 1] /\ y[j - 1] = s[(a + 1) + (j - 1)] /\ x[j] = s[a + j]
        BY <2>2, <2>3, <2>5, <4>1
      <4> QED BY <4>1, <4>2
    <3> QED BY <3>2, <3>3
  <2>8. x = <<h>> \o y
    BY <2>2, <2>5, <2>6, <2>7, SeqEqual
  <2> QED BY <2>8
<1> QED BY <1>3, <1>4

\* What is read of a file from the start of a line on, and from within a line on.
LEMMA LinesFrom ==
    ASSUME NEW b, NEW ls, NEW off, IsLines(b, ls, off)
    PROVE  /\ Lines(b) = ls
           /\ \A i \in 1..Len(ls) + 1 : Lines(From(b, off[i])) = From(ls, i - 1)
           /\ \A i \in 1..Len(ls) : \A d \in 0..Len(ls[i]) :
                 Lines(From(b, off[i] + d)) = <<From(ls[i], d)>> \o From(ls, i)
<1> PICK N : N = Len(ls)
  OBVIOUS
<1>1. N \in Nat /\ b \in Strings /\ b \in Seq(Nat) /\ Len(b) \in Nat /\ ls \in Seq(Texts)
  BY SeqFacts DEF IsLines, Strings
<1>2. off[1] = 0 /\ off[N + 1] = Len(b)
  BY DEF IsLines
<1>3. ASSUME NEW i \in 1..N, NEW d \in 0..Len(ls[i])
      PROVE  Lines(From(b, off[i] + d)) = <<From(ls[i], d)>> \o Lines(From(b, off[i + 1]))
  <2>p. PICK o, l, q, r, t : o = off[i] /\ l = Len(ls[i]) /\ q = off[i + 1] /\ r = From(b, off[i] + d) /\ t = From(ls[i], d)
    OBVIOUS
  <2>1. o \in Nat /\ l \in Nat /\ q = o + l + 1 /\ q <= Len(b)
    BY <1>1, <2>p, LineIs
  <2>5. d \in 0..l /\ Len(b) \in Nat
    BY <1>1, <2>p
  <2>2. o + d \in 0..Len(b) /\ o + d < Len(b) /\ q \in 0..Len(b)
    <3> HIDE <2>p
    <3> QED BY <2>1, <2>5
  <2>3. Got(r) = t /\ Left(r) = From(b, off[i + 1])
    BY <1>1, <2>p, LineFrom
  <2>6. r = From(b, o + d)
    BY <2>p
  <2>4. Lines(From(b, o + d)) = <<Got(From(b, o + d))>> \o Lines(From(b, q))
    <3>1. Left(From(b, o + d)) = From(b, q)
      BY <2>p, <2>3, <2>6
    <3> QED BY <1>1, <2>2, <3>1, LinesStep
  <2> QED BY <2>3, <2>4, <2>6, <2>p
<1>4. ASSUME NEW i \in 1..N PROVE From(ls[i], 0) = ls[i] /\ 0 \in 0..Len(ls[i]) /\ off[i] + 0 = off[i]
  <2>1. ls[i] \in Seq(Nat \ {NEWLINE}) /\ Len(ls[i]) \in Nat /\ off[i] \in Nat
    BY <1>1, LineIs DEF Texts
  <2>2. 0 \in 0..Len(ls[i])
    BY <2>1
  <2> QED BY <2>1, <2>2, FromIs
<1> DEFINE S == {k \in Nat : k <= N => Lines(From(b, off[N + 1 - k])) = From(ls, N - k)}
<1>5. 0 \in S
  <2>1. From(b, Len(b)) = << >> /\ From(ls, N) = << >>
    BY <1>1, FromStep
  <2>2. N + 1 - 0 = N + 1 /\ N - 0 = N
    BY <1>1
  <2> QED BY <1>2, <2>1, <2>2, NoLines
<1>6. ASSUME NEW k \in Nat, k \in S PROVE k + 1 \in S
  <2>1. SUFFICES ASSUME k + 1 <= N
                 PROVE  Lines(From(b, off[N + 1 - (k + 1)])) = From(ls, N - (k + 1))
    OBVIOUS
  <2> PICK i : i = N - k
    OBVIOUS
  <2>2. i \in 1..N /\ N + 1 - (k + 1) = i /\ N - (k + 1) = i - 1 /\ N + 1 - k = i + 1 /\ i - 1 + 1 = i
        /\ i - 1 \in 0..N - 1
    BY <1>1, <2>1
  <2>3. Lines(From(b, off[i + 1])) = From(ls, i)
    BY <1>1, <1>6, <2>1, <2>2
  <2>4. Lines(From(b, off[i])) = <<ls[i]>> \o From(ls, i)
    <3>1. Lines(From(b, off[i] + 0)) = <<From(ls[i], 0)>> \o Lines(From(b, off[i + 1]))
      BY <1>3, <1>4, <2>2
    <3> QED BY <1>4, <2>2, <2>3, <3>1
  <2>5. From(ls, i - 1) = <<ls[i]>> \o From(ls, i)
    BY <1>1, <2>2, FromStep
  <2> QED BY <2>2, <2>4, <2>5
<1>7. ASSUME NEW i \in 1..N + 1 PROVE Lines(From(b, off[i])) = From(ls, i - 1)
  <2>1. Nat \subseteq S
    <3> HIDE DEF S
    <3> QED BY <1>5, <1>6, SetInduction
  <2>2. N + 1 - i \in Nat /\ N + 1 - i <= N /\ N + 1 - (N + 1 - i) = i /\ N - (N + 1 - i) = i - 1
    BY <1>1
  <2>3. N + 1 - i \in S
    BY <2>1, <2>2
  <2>4. Lines(From(b, off[N + 1 - (N + 1 - i)])) = From(ls, N - (N + 1 - i))
    BY <2>2, <2>3
  <2> QED BY <2>2, <2>4
<1>8. Lines(b) = ls
  <2>1. 1 \in 1..N + 1 /\ 1 - 1 = 0 /\ 0 \in 0..Len(b) /\ 0 \in 0..Len(ls)
    BY <1>1
  <2>2. From(b, 0) = b /\ From(ls, 0) = ls
    BY <1>1, <2>1, FromIs
  <2> QED BY <1>2, <1>7, <2>1, <2>2
<1>9. ASSUME NEW i \in 1..N, NEW d \in 0..Len(ls[i])
      PROVE  Lines(From(b, off[i] + d)) = <<From(ls[i], d)>> \o From(ls, i)
  <2>1. i + 1 \in 1..N + 1 /\ i + 1 - 1 = i
    BY <1>1
  <2>2. Lines(From(b, off[i + 1])) = From(ls, i)
    <3>1. Lines(From(b, off[i + 1])) = From(ls, i + 1 - 1)
      BY <1>7, <2>1
    <3> QED BY <2>1, <3>1
  <2>3. Lines(From(b, off[i] + d)) = <<From(ls[i], d)>> \o Lines(From(b, off[i + 1]))
    BY <1>3
  <2> QED BY <2>2, <2>3
<1>10. \A i \in 1..Len(ls) + 1 : Lines(From(b, off[i])) = From(ls, i - 1)
  BY <1>7
<1>11. \A i \in 1..Len(ls) : \A d \in 0..Len(ls[i]) :
          Lines(From(b, off[i] + d)) = <<From(ls[i], d)>> \o From(ls, i)
  BY <1>9
<1> QED BY <1>8, <1>10, <1>11

----------------------------------------------------------------------------
(* Entries *)

Pairs == [key : Keys, val : Values]

\* The line of an entry, without the newline.
Body(e) == e.key \o <<SEPERATOR>> \o e.val

LEMMA KeysAre ==
    /\ \A s \in Keys \cup Values : s \in Texts /\ s \in Strings
    /\ \A k \in Keys : \A j \in 1..Len(k) : k[j] # SEPERATOR
<1>1. ASSUME NEW s \in Keys \cup Values PROVE s \in Texts /\ s \in Strings
  <2>1. s \in Texts
    BY FileAssumption DEF Texts
  <2> QED BY <2>1, TextsAre
<1>2. \A k \in Keys : \A j \in 1..Len(k) : k[j] # SEPERATOR
  BY FileAssumption DEF Contains
<1> QED BY <1>1, <1>2

LEMMA BodyIs ==
    ASSUME NEW e \in Pairs, NEW l, l = Body(e)
    PROVE  /\ l \in Texts /\ l \in Strings /\ Len(l) = Len(e.key) + 1 + Len(e.val) /\ Len(l) \in Nat
           /\ l # << >>
           /\ Split(l) = e
           /\ Line(e) \in Strings /\ Len(Line(e)) = Len(l) + 1
           /\ \A j \in 1..Len(l) : Line(e)[j] = l[j]
           /\ Line(e)[Len(l) + 1] = NEWLINE
<1>p. PICK k, v : k = e.key /\ v = e.val
  OBVIOUS
<1>1. /\ k \in Keys /\ v \in Values /\ e = [key |-> k, val |-> v]
  BY <1>p DEF Pairs
<1>2. /\ k \in Seq(Nat \ {NEWLINE}) /\ v \in Seq(Nat \ {NEWLINE}) /\ Len(k) \in Nat /\ Len(v) \in Nat
      /\ \A j \in 1..Len(k) : k[j] # SEPERATOR
  BY <1>1, KeysAre, TextsAre DEF Texts
<1>3. SEPERATOR \in Nat \ {NEWLINE} /\ NEWLINE \in Nat
  BY DEF SEPERATOR, NEWLINE
<1>4. PICK c : c = <<SEPERATOR>>
  OBVIOUS
<1>5. c \in Seq(Nat \ {NEWLINE}) /\ Len(c) = 1 /\ c[1] = SEPERATOR
  BY <1>3, <1>4
<1>6. PICK h : h = k \o c
  OBVIOUS
<1>7. Joined(h, k, c, Nat \ {NEWLINE})
  BY <1>2, <1>5, <1>6, JoinedIs
<1>8. /\ h \in Seq(Nat \ {NEWLINE}) /\ Len(h) = Len(k) + 1
      /\ h[Len(k) + 1] = SEPERATOR
      /\ \A j \in 1..Len(k) : h[j] = k[j]
  <2>1. 1 \in 1..Len(c)
    BY <1>5
  <2>2. h[Len(k) + 1] = c[1]
    BY <1>7, <2>1 DEF Joined
  <2>3. h \in Seq(Nat \ {NEWLINE}) /\ Len(h) = Len(k) + Len(c) /\ \A j \in 1..Len(k) : h[j] = k[j]
    BY <1>7 DEF Joined
  <2> QED BY <1>5, <2>2, <2>3
<1>9. l = h \o v
  BY <1>4, <1>6, <1>p DEF Body
<1>a. Joined(l, h, v, Nat \ {NEWLINE})
  BY <1>2, <1>8, <1>9, JoinedIs
<1>10. l \in Seq(Nat \ {NEWLINE}) /\ Len(l) = Len(k) + 1 + Len(v)
  <2>1. l \in Seq(Nat \ {NEWLINE}) /\ Len(l) = Len(h) + Len(v)
    BY <1>a DEF Joined
  <2> QED BY <1>8, <2>1
<1>11. /\ l[Len(k) + 1] = SEPERATOR
       /\ \A j \in 1..Len(k) : l[j] = k[j]
       /\ \A j \in 1..Len(v) : l[Len(k) + 1 + j] = v[j]
  <2>1. Len(k) + 1 \in 1..Len(h) /\ \A j \in 1..Len(k) : j \in 1..Len(h)
    BY <1>2, <1>8
  <2>2. \A j \in 1..Len(h) : l[j] = h[j]
    BY <1>a DEF Joined
  <2>3. \A j \in 1..Len(v) : l[Len(h) + j] = v[j]
    BY <1>a DEF Joined
  <2>4. l[Len(k) + 1] = SEPERATOR
    BY <1>8, <2>1, <2>2
  <2>5. \A j \in 1..Len(k) : l[j] = k[j]
    BY <1>8, <2>1, <2>2
  <2>6. \A j \in 1..Len(v) : l[Len(k) + 1 + j] = v[j]
    BY <1>8, <2>3
  <2> QED BY <2>4, <2>5, <2>6
<1>12. l \in Texts /\ l \in Strings /\ Len(l) \in Nat /\ l # << >> /\ Len(l) = Len(k) + 1 + Len(v)
  <2>1. Len(l) # 0
    BY <1>2, <1>10
  <2>2. l # << >>
    BY <1>10, <2>1, SeqFacts
  <2> QED BY <1>10, <2>2, TextsAre DEF Texts
<1>13. FirstOf(SEPERATOR, l) = Len(k) + 1
  <2>1. Len(k) + 1 \in 1..Len(l) /\ Len(k) + 1 - 1 = Len(k)
    BY <1>2, <1>10
  <2>2. \A j \in 1..(Len(k) + 1) - 1 : l[j] # SEPERATOR
    BY <1>2, <1>11, <2>1
  <2> QED BY <1>11, <1>12, <2>1, <2>2, FirstIs
<1>14. SubSeq(l, 1, Len(k) + 1 - 1) = k
  <2>1. 0 \in 0..Len(l) /\ Len(k) \in 0..Len(l) /\ Len(k) - 0 = Len(k) /\ 0 + 1 = 1 /\ Len(k) + 1 - 1 = Len(k)
        /\ \A j \in 1..Len(k) : 0 + j = j
    BY <1>2, <1>10
  <2> PICK x : x = SubSeq(l, 0 + 1, Len(k))
    OBVIOUS
  <2>2. x \in Seq(Nat \ {NEWLINE}) /\ Len(x) = Len(k) - 0 /\ \A j \in 1..Len(k) - 0 : x[j] = l[0 + j]
    BY <1>10, <2>1, Cut
  <2>3. Len(x) = Len(k) /\ \A j \in 1..Len(x) : x[j] = k[j]
    BY <1>11, <2>1, <2>2
  <2>4. x = k
    BY <1>2, <2>2, <2>3, SeqEqual
  <2> QED BY <2>1, <2>4
<1>15. SubSeq(l, Len(k) + 1 + 1, Len(l)) = v
  <2>1. Len(k) + 1 \in 0..Len(l) /\ Len(l) \in Len(k) + 1..Len(l) /\ Len(l) - (Len(k) + 1) = Len(v)
    BY <1>2, <1>10
  <2> PICK x, a : a = Len(k) + 1 /\ x = From(l, a)
    OBVIOUS
  <2>2. x \in Seq(Nat \ {NEWLINE}) /\ Len(x) = Len(l) - a /\ \A j \in 1..Len(l) - a : x[j] = l[a + j]
    <3>1. a \in 0..Len(l) /\ l \in Seq(Nat \ {NEWLINE})
      BY <1>10, <2>1
    <3>2. x = From(l, a)
      OBVIOUS
    <3> QED BY ONLY <3>1, <3>2, FromIs
  <2>3. Len(x) = Len(v) /\ \A j \in 1..Len(x) : x[j] = v[j]
    BY <1>11, <2>1, <2>2
  <2>4. x = v
    BY <1>2, <2>2, <2>3, SeqEqual
  <2> QED BY <2>4 DEF From
<1>16. Split(l) = e
  <2>1. ~(Len(k) + 1 > Len(l))
    BY <1>2, <1>10
  <2>2. Split(l).key = k /\ Split(l).val = v /\ Split(l) = [key |-> Split(l).key, val |-> Split(l).val]
    BY <1>13, <1>14, <1>15, <2>1 DEF Split
  <2> QED BY <1>1, <2>2
<1>17. Line(e) = l \o <<NEWLINE>>
  BY <1>4, <1>6, <1>9, <1>p DEF Line
<1>18. PICK z : z = <<NEWLINE>>
  OBVIOUS
<1>19. z \in Seq(Nat) /\ Len(z) = 1 /\ z[1] = NEWLINE /\ l \in Seq(Nat)
  BY <1>3, <1>12, <1>18 DEF Strings
<1>20. PICK y : y = Line(e)
  OBVIOUS
<1>a1. Joined(y, l, z, Nat)
  BY <1>17, <1>18, <1>19, <1>20, JoinedIs
<1>21. y \in Seq(Nat) /\ Len(y) = Len(l) + 1
  BY <1>19, <1>a1 DEF Joined
<1>22. /\ \A j \in 1..Len(l) : y[j] = l[j]
       /\ y[Len(l) + 1] = NEWLINE
  <2>1. 1 \in 1..Len(z)
    BY <1>19
  <2>2. y[Len(l) + 1] = z[1]
    BY <1>a1, <2>1 DEF Joined
  <2>3. \A j \in 1..Len(l) : y[j] = l[j]
    BY <1>a1 DEF Joined
  <2> QED BY <1>19, <2>2, <2>3
<1>23. y \in Strings
  BY <1>21 DEF Strings
<1> QED BY <1>12, <1>16, <1>20, <1>21, <1>22, <1>23, <1>p

\* The lines of entries.
Bodies(es) == [i \in 1..Len(es) |-> Body(es[i])]

LEMMA BodiesAre ==
    ASSUME NEW es \in Seq(Pairs)
    PROVE  /\ Bodies(es) \in Seq(Texts) /\ Len(Bodies(es)) = Len(es) /\ Len(es) \in Nat
           /\ \A i \in 1..Len(es) : es[i] \in Pairs /\ Bodies(es)[i] = Body(es[i])
<1>1. Len(es) \in Nat /\ \A i \in 1..Len(es) : es[i] \in Pairs
  BY SeqFacts
<1>2. \A i \in 1..Len(es) : Body(es[i]) \in Texts
  BY <1>1, BodyIs
<1>3. Bodies(es) \in [1..Len(es) -> Texts]
  BY <1>2 DEF Bodies
<1>4. Bodies(es) \in Seq(Texts) /\ Len(Bodies(es)) = Len(es)
  BY <1>1, <1>3
<1>5. \A i \in 1..Len(es) : Bodies(es)[i] = Body(es[i])
  BY DEF Bodies
<1> QED BY <1>1, <1>4, <1>5

\* b is the file of the entries es, of which the i-th starts at off[i].
IsFile(b, es, off) == es \in Seq(Pairs) /\ IsLines(b, Bodies(es), off)

LEMMA EmptyFile == IsFile(<< >>, << >>, [i \in {1} |-> 0])
<1>1. << >> \in Seq(Pairs) /\ << >> \in Strings /\ Len(<< >>) = 0
  BY EmptySeq DEF Strings
<1>2. Bodies(<< >>) \in Seq(Texts) /\ Len(Bodies(<< >>)) = 0
  BY <1>1, BodiesAre
<1>3. [i \in {1} |-> 0] \in [1..0 + 1 -> Nat]
  <2>1. 1..0 + 1 = {1}
    OBVIOUS
  <2> QED BY <2>1
<1>4. [i \in {1} |-> 0][1] = 0
  OBVIOUS
<1> QED BY <1>1, <1>2, <1>3, <1>4 DEF IsFile, IsLines

\* Where the lines start when one more is added.
Further(off, n, m) == [i \in 1..n + 2 |-> IF i = n + 2 THEN m ELSE off[i]]

LEMMA AddLine ==
    ASSUME NEW b, NEW es, NEW off, IsFile(b, es, off), NEW e \in Pairs
    PROVE  /\ IsFile(b \o Line(e), Append(es, e), Further(off, Len(es), Len(b) + Len(Line(e))))
           /\ Len(b \o Line(e)) = Len(b) + Len(Line(e))
<1>p. PICK x, ls, fs, y, n, l, es2 :
        /\ x = b \o Line(e) /\ ls = Bodies(es) /\ es2 = Append(es, e) /\ n = Len(es) /\ l = Body(e)
        /\ y = Line(e) /\ fs = Further(off, Len(es), Len(b) + Len(Line(e)))
  OBVIOUS
<1>1. /\ es \in Seq(Pairs) /\ n \in Nat /\ b \in Seq(Nat) /\ Len(b) \in Nat
      /\ off \in [1..n + 1 -> Nat] /\ off[1] = 0 /\ off[n + 1] = Len(b)
      /\ ls \in Seq(Texts) /\ Len(ls) = n
  BY <1>p, BodiesAre, SeqFacts DEF IsFile, IsLines, Strings
<1>2. /\ l \in Texts /\ Len(l) \in Nat /\ y \in Seq(Nat) /\ Len(y) = Len(l) + 1
      /\ \A j \in 1..Len(l) : y[j] = l[j]
      /\ y[Len(l) + 1] = NEWLINE
  BY <1>p, BodyIs DEF Strings
<1>j. Joined(x, b, y, Nat)
  BY <1>1, <1>2, <1>p, JoinedIs
<1>3. x \in Seq(Nat) /\ Len(x) = Len(b) + Len(y)
  BY <1>j DEF Joined
<1>4. /\ \A j \in 1..Len(b) : x[j] = b[j]
      /\ \A j \in 1..Len(y) : x[Len(b) + j] = y[j]
  BY <1>j DEF Joined
<1>5. /\ es2 \in Seq(Pairs) /\ Len(es2) = n + 1 /\ es2[n + 1] = e
      /\ \A i \in 1..n : es2[i] = es[i]
  BY <1>1, <1>p, AppendProperties
<1>6. PICK ms : ms = Bodies(es2)
  OBVIOUS
<1>7. /\ ms \in Seq(Texts) /\ Len(ms) = n + 1 /\ ms[n + 1] = l
      /\ \A i \in 1..n : ms[i] = ls[i]
  <2>1. /\ ms \in Seq(Texts) /\ Len(ms) = n + 1
        /\ \A i \in 1..n + 1 : ms[i] = Body(es2[i])
    BY <1>5, <1>6, BodiesAre
  <2>2. \A i \in 1..n : ls[i] = Body(es[i])
    BY <1>1, <1>p, BodiesAre
  <2>3. n + 1 \in 1..n + 1 /\ \A i \in 1..n : i \in 1..n + 1
    BY <1>1
  <2>4. ms[n + 1] = l
    BY <1>5, <1>p, <2>1, <2>3
  <2>5. \A i \in 1..n : ms[i] = ls[i]
    BY <1>5, <2>1, <2>2, <2>3
  <2> QED BY <2>1, <2>4, <2>5
<1>8. /\ fs \in [1..(n + 1) + 1 -> Nat] /\ fs[(n + 1) + 1] = Len(x)
      /\ \A i \in 1..n + 1 : fs[i] = off[i]
  <2>1. fs = [i \in 1..n + 2 |-> IF i = n + 2 THEN Len(x) ELSE off[i]] /\ Len(x) \in Nat
    BY <1>1, <1>2, <1>3, <1>p DEF Further
  <2>2. (n + 1) + 1 = n + 2 /\ n + 2 \in 1..n + 2 /\ \A i \in 1..n + 1 : i \in 1..n + 2 /\ i # n + 2
    BY <1>1
  <2>3. \A i \in 1..n + 2 : i # n + 2 => i \in 1..n + 1
    BY <1>1
  <2> QED BY <1>1, <2>1, <2>2, <2>3
<1>9. ASSUME NEW i \in 1..n
      PROVE  /\ fs[i + 1] = fs[i] + Len(ms[i]) + 1
             /\ \A j \in 1..Len(ms[i]) : x[fs[i] + j] = ms[i][j]
             /\ x[fs[i + 1]] = NEWLINE
  <2>1. i \in 1..n + 1 /\ i + 1 \in 1..n + 1 /\ i \in 1..Len(ls)
    BY <1>1
  <2>2. fs[i] = off[i] /\ fs[i + 1] = off[i + 1] /\ ms[i] = ls[i]
    BY <1>7, <1>8, <2>1
  <2>3. PICK o, q, m : o = off[i] /\ q = off[i + 1] /\ m = ls[i]
    OBVIOUS
  <2>4. /\ o \in Nat /\ q \in Nat /\ Len(m) \in Nat /\ q = o + Len(m) + 1 /\ q <= Len(b)
        /\ b[q] = NEWLINE
        /\ \A j \in 1..Len(m) : b[o + j] = m[j]
    <3>1. IsLines(b, ls, off)
      BY <1>p DEF IsFile
    <3>2. /\ Len(ls[i]) \in Nat /\ off[i] \in Nat /\ off[i + 1] \in Nat
          /\ off[i + 1] = off[i] + Len(ls[i]) + 1
          /\ off[i + 1] <= Len(b)
          /\ b[off[i + 1]] = NEWLINE
      BY <2>1, <3>1, LineIs
    <3>3. \A j \in 1..Len(ls[i]) : b[off[i] + j] = ls[i][j]
      BY <2>1, <3>1, LineIs
    <3> QED BY <2>3, <3>2, <3>3
  <2>5. q \in 1..Len(b) /\ \A j \in 1..Len(m) : o + j \in 1..Len(b)
    BY <1>1, <2>4
  <2>6. x[q] = NEWLINE /\ \A j \in 1..Len(m) : x[o + j] = m[j]
    BY <1>4, <2>4, <2>5
  <2> QED BY <2>2, <2>3, <2>4, <2>6
<1>10. /\ fs[(n + 1) + 1] = fs[n + 1] + Len(ms[n + 1]) + 1
       /\ \A j \in 1..Len(ms[n + 1]) : x[fs[n + 1] + j] = ms[n + 1][j]
       /\ x[fs[(n + 1) + 1]] = NEWLINE
  <2>1. n + 1 \in 1..n + 1
    BY <1>1
  <2>2. fs[n + 1] = Len(b) /\ ms[n + 1] = l /\ fs[(n + 1) + 1] = Len(b) + (Len(l) + 1)
    BY <1>1, <1>2, <1>3, <1>7, <1>8, <2>1
  <2>3. Len(l) + 1 \in 1..Len(y) /\ \A j \in 1..Len(l) : j \in 1..Len(y)
    BY <1>2
  <2>4. x[Len(b) + (Len(l) + 1)] = NEWLINE /\ \A j \in 1..Len(l) : x[Len(b) + j] = l[j]
    BY <1>2, <1>4, <2>3
  <2>5. Len(b) + (Len(l) + 1) = Len(b) + Len(l) + 1
    BY <1>1, <1>2
  <2> QED BY <2>2, <2>4, <2>5
<1>11. \A i \in 1..n + 1 :
          /\ fs[i + 1] = fs[i] + Len(ms[i]) + 1
          /\ \A j \in 1..Len(ms[i]) : x[fs[i] + j] = ms[i][j]
          /\ x[fs[i + 1]] = NEWLINE
  <2>1. TAKE i \in 1..n + 1
  <2>2. i \in 1..n \/ i = n + 1
    BY <1>1
  <2> QED BY <1>9, <1>10, <2>2
<1>12. fs[1] = 0
  <2>1. 1 \in 1..n + 1
    BY <1>1
  <2> QED BY <1>1, <1>8, <2>1
<1>13. IsLines(x, ms, fs)
  BY <1>3, <1>7, <1>8, <1>11, <1>12 DEF IsLines, Strings
<1> QED BY <1>3, <1>5, <1>6, <1>13, <1>p DEF IsFile

\* What is known of a file of entries.
LEMMA FileIs ==
    ASSUME NEW b, NEW es, NEW off, IsFile(b, es, off)
    PROVE  /\ b \in Strings /\ Len(b) \in Nat
           /\ es \in Seq(Pairs) /\ Len(es) \in Nat /\ \A i \in 1..Len(es) : es[i] \in Pairs
           /\ off[1] = 0 /\ off[Len(es) + 1] = Len(b)
           /\ \A i \in 1..Len(es) + 1 : off[i] \in 0..Len(b)
           /\ \A i \in 1..Len(es) : off[i + 1] = off[i] + Len(Body(es[i])) + 1
           /\ DOMAIN Lines(b) = 1..Len(es)
           /\ \A i \in 1..Len(es) : Lines(b)[i] = Body(es[i]) /\ Split(Lines(b)[i]) = es[i]
           /\ [i \in DOMAIN Lines(b) |-> Split(Lines(b)[i])] = es
<1> PICK ls, N : ls = Bodies(es) /\ N = Len(es)
  OBVIOUS
<1>1. es \in Seq(Pairs) /\ IsLines(b, ls, off)
  BY DEF IsFile
<1>2. N \in Nat /\ ls \in Seq(Texts) /\ Len(ls) = N /\ \A i \in 1..N : es[i] \in Pairs /\ ls[i] = Body(es[i])
  BY <1>1, BodiesAre
<1>3. b \in Strings /\ Len(b) \in Nat
  BY <1>1, SeqFacts DEF IsLines, Strings
<1>4. off[1] = 0 /\ off[N + 1] = Len(b)
  BY <1>1, <1>2 DEF IsLines
<1>5. ASSUME NEW i \in 1..N + 1 PROVE off[i] \in 0..Len(b)
  <2>1. i \in 1..Len(ls) + 1 /\ Len(ls) + 1 \in i..Len(ls) + 1
    BY <1>2
  <2>2. off[i] <= off[Len(ls) + 1]
    BY <1>1, <2>1, OffsetsGrow
  <2>3. off[i] \in Nat
    BY <1>1, <2>1 DEF IsLines
  <2>4. off[i] <= Len(b)
    BY <1>2, <1>4, <2>2
  <2> QED BY <1>3, <2>3, <2>4
<1>6. \A i \in 1..N : off[i + 1] = off[i] + Len(Body(es[i])) + 1
  <2>1. TAKE i \in 1..N
  <2>2. i \in 1..Len(ls) /\ ls[i] = Body(es[i])
    BY <1>2
  <2>3. off[i + 1] = off[i] + Len(ls[i]) + 1
    BY <1>1, <2>2 DEF IsLines
  <2> QED BY <2>2, <2>3
<1>7. Lines(b) = ls
  BY <1>1, LinesFrom
<1>8. DOMAIN ls = 1..N
  BY <1>2, SeqFacts
<1>9. \A i \in 1..N : Split(ls[i]) = es[i]
  BY <1>2, BodyIs
<1>10. [i \in DOMAIN ls |-> Split(ls[i])] = es
  <2>1. es = [i \in 1..N |-> es[i]]
    BY <1>1
  <2> QED BY <1>8, <1>9, <2>1
<1> QED BY <1>1, <1>2, <1>3, <1>4, <1>5, <1>6, <1>7, <1>8, <1>9, <1>10

\* The lines from the i-th on.
LEMMA LinesAhead ==
    ASSUME NEW b, NEW es, NEW off, IsFile(b, es, off), NEW i \in 1..Len(es) + 1,
           NEW lines, lines = Lines(From(b, off[i]))
    PROVE  /\ Len(lines) = Len(es) + 1 - i /\ DOMAIN lines = 1..Len(es) + 1 - i
           /\ \A j \in 1..Len(es) + 1 - i : Split(lines[j]) = es[i - 1 + j]
<1> PICK ls, N : ls = Bodies(es) /\ N = Len(es)
  OBVIOUS
<1>1. es \in Seq(Pairs) /\ IsLines(b, ls, off)
  BY DEF IsFile
<1>2. N \in Nat /\ ls \in Seq(Texts) /\ Len(ls) = N /\ \A j \in 1..N : es[j] \in Pairs /\ ls[j] = Body(es[j])
  BY <1>1, BodiesAre
<1>3. lines = From(ls, i - 1)
  BY <1>1, <1>2, LinesFrom
<1>4. i - 1 \in 0..Len(ls) /\ Len(ls) - (i - 1) = N + 1 - i
  BY <1>2
<1>5. lines \in Seq(Texts) /\ Len(lines) = N + 1 - i /\ \A j \in 1..N + 1 - i : lines[j] = ls[i - 1 + j]
  <2> PICK a : a = i - 1
    OBVIOUS
  <2>1. From(ls, a) \in Seq(Texts) /\ Len(From(ls, a)) = Len(ls) - a /\ \A j \in 1..Len(ls) - a : From(ls, a)[j] = ls[a + j]
    <3>1. a \in 0..Len(ls) /\ ls \in Seq(Texts)
      BY <1>2, <1>4
    <3> QED BY ONLY <3>1, FromIs
  <2> QED BY <1>3, <1>4, <2>1
<1>6. \A j \in 1..N + 1 - i : Split(lines[j]) = es[i - 1 + j]
  <2>1. TAKE j \in 1..N + 1 - i
  <2>2. i - 1 + j \in 1..N
    BY <1>2
  <2>3. lines[j] = Body(es[i - 1 + j]) /\ es[i - 1 + j] \in Pairs
    BY <1>2, <1>5, <2>2
  <2> QED BY <2>3, BodyIs
<1>7. DOMAIN lines = 1..N + 1 - i
  BY <1>5, SeqFacts
<1> QED BY <1>5, <1>6, <1>7

\* From an offset that is not behind the i-th line this line is still ahead.
LEMMA StillAhead ==
    ASSUME NEW b, NEW es, NEW off, IsFile(b, es, off), NEW i \in 1..Len(es), NEW p \in 0..off[i],
           NEW lines, lines = Lines(From(b, p))
    PROVE  \E j \in DOMAIN lines : Split(lines[j]).key = es[i].key
<1> PICK ls, N : ls = Bodies(es) /\ N = Len(es)
  OBVIOUS
<1>1. es \in Seq(Pairs) /\ IsLines(b, ls, off)
  BY DEF IsFile
<1>2. N \in Nat /\ ls \in Seq(Texts) /\ Len(ls) = N /\ \A j \in 1..N : es[j] \in Pairs /\ ls[j] = Body(es[j])
  BY <1>1, BodiesAre
<1>3. off[1] = 0 /\ \A j \in 1..N + 1 : off[j] \in Nat
  BY FileIs
<1>4. p \in Nat /\ p <= off[i] /\ off[i] \in Nat
  BY <1>2, <1>3
<1> DEFINE I == {m \in 1..i : off[m] <= p}
<1>5. PICK m \in I : \A y \in I : y <= m
  <2>1. 1 \in I /\ I \in SUBSET (1..i) /\ i \in Nat
    BY <1>2, <1>3, <1>4
  <2> HIDE DEF I
  <2> QED BY <2>1, GreatestIs
<1>6. m \in 1..i /\ off[m] <= p /\ m \in 1..N /\ off[m] \in Nat
  BY <1>2, <1>3, <1>5
<1>7. CASE m = i
  <2>1. p = off[i] /\ i \in 1..Len(es) + 1
    BY <1>2, <1>4, <1>6, <1>7
  <2>2. DOMAIN lines = 1..N + 1 - i /\ \A j \in 1..N + 1 - i : Split(lines[j]) = es[i - 1 + j]
    BY <2>1, LinesAhead
  <2>3. 1 \in 1..N + 1 - i /\ i - 1 + 1 = i
    BY <1>2
  <2> QED BY <2>2, <2>3
<1>8. CASE m # i
  <2>1. m + 1 \in 1..i /\ m + 1 \notin I /\ off[m + 1] \in Nat
    <3>1. m + 1 \in 1..i /\ ~(m + 1 <= m) /\ m + 1 \in 1..N + 1
      BY <1>2, <1>6, <1>8
    <3> HIDE DEF I
    <3> QED BY <1>3, <1>5, <3>1
  <2>2. p < off[m + 1]
    BY <1>4, <2>1
  <2> PICK d : d = p - off[m]
    OBVIOUS
  <2>3. off[m + 1] = off[m] + Len(ls[m]) + 1 /\ Len(ls[m]) \in Nat /\ ls[m] \in Texts
    BY <1>1, <1>2, <1>6, LineIs
  <2>4. d \in 0..Len(ls[m]) /\ off[m] + d = p
    <3> PICK o, q, l : o = off[m] /\ q = off[m + 1] /\ l = Len(ls[m])
      OBVIOUS
    <3>1. o \in Nat /\ o <= p /\ p < q /\ q = o + l + 1 /\ l \in Nat /\ p \in Nat /\ d = p - o
      BY <1>4, <1>6, <2>2, <2>3
    <3>2. d \in 0..l /\ o + d = p
      BY ONLY <3>1
    <3> QED BY <3>2
  <2> PICK h, t : h = <<From(ls[m], d)>> /\ t = From(ls, m)
    OBVIOUS
  <2>5. lines = h \o t
    <3>1. Lines(From(b, off[m] + d)) = <<From(ls[m], d)>> \o From(ls, m)
      <4>1. \A x \in 1..Len(ls) : \A y \in 0..Len(ls[x]) :
               Lines(From(b, off[x] + y)) = <<From(ls[x], y)>> \o From(ls, x)
        <5>1. IsLines(b, ls, off)
          BY <1>1
        <5> QED BY ONLY <5>1, LinesFrom
      <4>2. m \in 1..Len(ls)
        BY <1>2, <1>6
      <4> QED BY <2>4, <4>1, <4>2
    <3> QED BY <2>4, <3>1
  <2>6. t \in Seq(Texts) /\ Len(t) = N - m /\ \A j \in 1..N - m : t[j] = ls[m + j]
    <3>1. m \in 0..Len(ls) /\ ls \in Seq(Texts)
      BY <1>2, <1>6
    <3>2. From(ls, m) \in Seq(Texts) /\ Len(From(ls, m)) = Len(ls) - m /\ \A j \in 1..Len(ls) - m : From(ls, m)[j] = ls[m + j]
      BY ONLY <3>1, FromIs
    <3> QED BY <1>2, <3>2
  <2>7. h \in Seq(Texts) /\ Len(h) = 1
    <3>1. From(ls[m], d) \in Texts
      BY <2>3, <2>4, FromIs DEF Texts
    <3> QED BY <3>1
  <2>8. Joined(lines, h, t, Texts)
    BY <2>5, <2>6, <2>7, JoinedIs
  <2>9. i - m \in 1..N - m /\ m + (i - m) = i /\ 1 + (i - m) \in 1..1 + (N - m)
    BY <1>2, <1>6, <1>8
  <2>10. lines[1 + (i - m)] = ls[i]
    <3>1. lines[Len(h) + (i - m)] = t[i - m]
      BY <2>6, <2>8, <2>9 DEF Joined
    <3> QED BY <2>6, <2>7, <2>9, <3>1
  <2>11. DOMAIN lines = 1..1 + (N - m)
    <3>1. lines \in Seq(Texts) /\ Len(lines) = 1 + (N - m)
      BY <2>6, <2>7, <2>8 DEF Joined
    <3> QED BY <3>1, SeqFacts
  <2>12. Split(lines[1 + (i - m)]) = es[i]
    <3>1. i \in 1..N
      BY <1>2
    <3>2. es[i] \in Pairs /\ lines[1 + (i - m)] = Body(es[i])
      BY <1>2, <2>10, <3>1
    <3> QED BY ONLY <3>2, BodyIs
  <2> QED BY <2>9, <2>11, <2>12
<1> QED BY <1>7, <1>8

----------------------------------------------------------------------------
(* Searching *)

\* The entries are in the order of their keys, each key once.
Sorted(es) == \A i, j \in 1..Len(es) : i < j => Less(es[i].key, es[j].key)

LEMMA OrderIs ==
    ASSUME NEW s \in Keys \cup {<< >>}, NEW t \in Keys \cup {<< >>}, NEW u \in Keys \cup {<< >>}
    PROVE  /\ s \in Strings
           /\ ~Less(s, s)
           /\ Less(s, t) /\ Less(t, u) => Less(s, u)
           /\ s = t \/ Less(s, t) \/ Less(t, s)
           /\ ~(Less(s, t) /\ Less(t, s))
           /\ Leq(s, t) <=> ~Less(t, s)
           /\ Leq(s, t) /\ Leq(t, u) => Leq(s, u)
           /\ Leq(s, t) /\ Less(t, u) => Less(s, u)
           /\ Less(s, t) /\ Leq(t, u) => Less(s, u)
           /\ Leq(<< >>, s) /\ ~Less(s, << >>)
<1>1. s \in Strings /\ t \in Strings /\ u \in Strings
  BY KeysAre, EmptySeq DEF Strings
<1>2. ~Less(s, s) /\ (Less(s, t) /\ Less(t, u) => Less(s, u)) /\ (s = t \/ Less(s, t) \/ Less(t, s))
  BY <1>1, NotLessSelf, LessTrans, LessTotal
<1>3. ~(Less(s, t) /\ Less(t, s))
  BY <1>1, <1>2, LessTrans
<1>4. Leq(<< >>, s) /\ ~Less(s, << >>)
  BY <1>1, EmptyFirst
<1> QED BY <1>1, <1>2, <1>3, <1>4 DEF Leq

LEMMA KeyIs ==
    ASSUME NEW es \in Seq(Pairs), NEW i \in 1..Len(es)
    PROVE  es[i].key \in Keys /\ es[i].val \in Values /\ es[i] = [key |-> es[i].key, val |-> es[i].val]
<1>1. es[i] \in Pairs
  BY SeqFacts
<1> QED BY <1>1 DEF Pairs

\* Of the entries with a key not below the target the first is read.
LEMMA ScanIs ==
    ASSUME NEW s, NEW es, NEW off, IsFile(s.bytes, es, off), Sorted(es), NEW target \in Keys,
           NEW i \in 1..Len(es) + 1, StartPos(s, target) = off[i],
           \A j \in 1..i - 1 : Less(es[j].key, target)
    PROVE  /\ \A j \in 1..Len(es) : es[j].key = target => Scan(s, target) = es[j].val
           /\ (\A j \in 1..Len(es) : es[j].key # target) => Scan(s, target) = None
<1> PICK lines, N : lines = Lines(From(s.bytes, off[i])) /\ N = Len(es)
  OBVIOUS
<1>1. /\ Len(lines) = N + 1 - i
      /\ \A j \in 1..N + 1 - i : Split(lines[j]) = es[i - 1 + j]
  BY LinesAhead
<1>2. N \in Nat /\ es \in Seq(Pairs)
  BY FileIs
<1> DEFINE I == {j \in 1..Len(lines) : ~Less(Split(lines[j]).key, target)}
<1> PICK n : n = IF I # {} THEN Min(I) ELSE 0
  OBVIOUS
<1>3. Scan(s, target) = IF n = 0 \/ Less(target, Split(lines[n]).key) THEN None ELSE Split(lines[n]).val
  BY DEF Scan, SelectInSeq, From
<1>4. I \in SUBSET Nat
  BY <1>2
<1>5. \A j \in 1..N : es[j].key \in Keys
  BY <1>2, KeyIs
<1>8. /\ \A j \in I : /\ j \in 1..N + 1 - i /\ j # 0
                      /\ ~Less(es[i - 1 + j].key, target)
                      /\ Split(lines[j]) = es[i - 1 + j]
                      /\ i - 1 + j \in 1..N
      /\ \A j \in 1..N + 1 - i : ~Less(es[i - 1 + j].key, target) => j \in I
  <2>1. \A j \in I : j \in 1..Len(lines) /\ ~Less(Split(lines[j]).key, target)
    OBVIOUS
  <2>2. \A j \in 1..Len(lines) : ~Less(Split(lines[j]).key, target) => j \in I
    OBVIOUS
  <2>3. \A j \in 1..N + 1 - i : j # 0 /\ i - 1 + j \in 1..N
    BY <1>2
  <2> HIDE DEF I
  <2> QED BY <1>1, <2>1, <2>2, <2>3
<1> HIDE DEF I
<1>6. ASSUME NEW j \in 1..N, es[j].key = target PROVE Scan(s, target) = es[j].val
  <2>1. ~Less(target, target)
    BY OrderIs
  <2>2. j >= i /\ j \in Nat
    <3>1. SUFFICES ASSUME j < i PROVE FALSE
      BY <1>2
    <3>2. j \in 1..i - 1
      BY <1>2, <3>1
    <3> QED BY <1>6, <2>1, <3>2
  <2>3. j - i + 1 \in 1..N + 1 - i /\ i - 1 + (j - i + 1) = j
    BY <1>2, <2>2
  <2>5. j - i + 1 \in I
    BY <1>6, <1>8, <2>1, <2>3
  <2>6. n \in I /\ n <= j - i + 1
    BY <1>4, <2>5, MinIs
  <2>7. n \in 1..N + 1 - i /\ Split(lines[n]) = es[i - 1 + n] /\ i - 1 + n \in 1..N /\ n # 0
        /\ ~Less(es[i - 1 + n].key, target)
    BY <1>8, <2>6
  <2>8. i - 1 + n = j
    <3>1. SUFFICES ASSUME i - 1 + n < j PROVE FALSE
      BY <1>2, <2>2, <2>6, <2>7
    <3>2. Less(es[i - 1 + n].key, target)
      BY <1>6, <2>7, <3>1 DEF Sorted
    <3> QED BY <2>7, <3>2
  <2>9. Split(lines[n]).key = target /\ Split(lines[n]).val = es[j].val
    BY <1>6, <2>7, <2>8
  <2> QED BY <1>3, <2>1, <2>7, <2>9
<1>7. ASSUME \A j \in 1..N : es[j].key # target PROVE Scan(s, target) = None
  <2>1. CASE I = {}
    <3>1. n = 0
      BY <2>1
    <3> QED BY <1>3, <3>1
  <2>2. CASE I # {}
    <3>1. n \in I
      BY <1>4, <2>2, MinIs
    <3>2. n \in 1..N + 1 - i /\ Split(lines[n]) = es[i - 1 + n] /\ i - 1 + n \in 1..N
          /\ ~Less(es[i - 1 + n].key, target)
      BY <1>8, <3>1
    <3>3. ~Less(es[i - 1 + n].key, target) /\ es[i - 1 + n].key # target /\ es[i - 1 + n].key \in Keys
      BY <1>5, <1>7, <3>2
    <3>4. Less(target, es[i - 1 + n].key)
      BY <3>3, OrderIs
    <3> QED BY <1>3, <3>2, <3>4
  <2> QED BY <2>1, <2>2
<1> QED BY <1>6, <1>7

\* The index has offsets of lines with these keys.
Exact(index, es, off) ==
    \A k \in DOMAIN index : \E i \in 1..Len(es) : es[i].key = k /\ index[k] = off[i]

\* The search starts at a line, and the lines before it have smaller keys.
LEMMA StartIs ==
    ASSUME NEW s, NEW es, NEW off, IsFile(s.bytes, es, off), Sorted(es), Exact(s.index, es, off),
           NEW target \in Keys
    PROVE  \E i \in 1..Len(es) + 1 : /\ StartPos(s, target) = off[i]
                                     /\ \A j \in 1..i - 1 : Less(es[j].key, target)
<1> DEFINE below == {k \in DOMAIN s.index : Leq(k, target)}
           Top(k) == k \in below /\ \A l \in below : Leq(l, k)
           I == {i \in 1..Len(es) : es[i].key \in below}
<1>1. Len(es) \in Nat /\ es \in Seq(Pairs) /\ off[1] = 0
  BY FileIs
<1>2. \A i \in 1..Len(es) : es[i].key \in Keys
  BY <1>1, KeyIs
<1>3. CASE below = {}
  <2>1. StartPos(s, target) = 0
    BY <1>3 DEF StartPos
  <2>2. 1 \in 1..Len(es) + 1 /\ 1 - 1 = 0
    BY <1>1
  <2> QED BY <1>1, <2>1, <2>2
<1>4. CASE below # {}
  <2>1. StartPos(s, target) = s.index[CHOOSE k \in below : \A l \in below : Leq(l, k)]
    BY <1>4 DEF StartPos
  <2>2. \A k \in below : /\ k \in DOMAIN s.index /\ Leq(k, target)
                         /\ \E i \in I : es[i].key = k
    BY DEF Exact
  <2>3. \A i \in I : i \in 1..Len(es) /\ es[i].key \in below
    OBVIOUS
  <2>4. I # {} /\ I \in SUBSET (1..Len(es))
    <3>1. I \in SUBSET (1..Len(es))
      OBVIOUS
    <3> HIDE DEF I, below
    <3> QED BY <1>4, <2>2, <3>1
  <2>5. PICK m \in I : \A y \in I : y <= m
    <3> HIDE DEF I, below
    <3> QED BY <1>1, <2>4, GreatestIs
  <2>6. Top(es[m].key)
    <3>1. SUFFICES ASSUME NEW l \in below PROVE Leq(l, es[m].key)
      BY <2>3, <2>5
    <3>2. PICK i \in I : es[i].key = l
      BY <2>2
    <3>3. i <= m /\ i \in 1..Len(es) /\ m \in 1..Len(es)
      <4> HIDE DEF I, below
      <4> QED BY <2>3, <2>5
    <3>4. i = m \/ i < m
      BY <3>3
    <3>5. i < m => Less(es[i].key, es[m].key)
      BY <3>3 DEF Sorted
    <3> HIDE DEF I, below
    <3> QED BY <3>2, <3>4, <3>5 DEF Leq
  <2>7. PICK k : k = CHOOSE x \in below : \A l \in below : Leq(l, x)
    OBVIOUS
  <2>8. k \in below
    <3>1. \E x \in below : \A l \in below : Leq(l, x)
      BY <2>6
    <3> HIDE DEF below
    <3> QED BY <2>7, <3>1
  <2>9. PICK i \in 1..Len(es) : es[i].key = k /\ s.index[k] = off[i]
    BY <2>8 DEF Exact
  <2>10. \A j \in 1..i - 1 : Less(es[j].key, target)
    <3>1. TAKE j \in 1..i - 1
    <3>2. j \in 1..Len(es) /\ j < i
      BY <1>1
    <3>3. Less(es[j].key, k) /\ es[j].key \in Keys /\ k \in Keys /\ Leq(k, target)
      BY <1>2, <2>8, <2>9, <3>2 DEF Sorted
    <3> QED BY <3>3, OrderIs
  <2>11. StartPos(s, target) = off[i] /\ i \in 1..Len(es) + 1
    BY <1>1, <2>1, <2>7, <2>9
  <2> QED BY <2>10, <2>11
<1> QED BY <1>3, <1>4

\* A search finds what the file has.
LEMMA SearchIs ==
    ASSUME NEW s, NEW es, NEW off, IsFile(s.bytes, es, off), Sorted(es), Exact(s.index, es, off),
           \A i \in 1..Len(es) : IsSetIn(s.bloom, es[i].key),
           NEW target \in Keys
    PROVE  /\ \A j \in 1..Len(es) : es[j].key = target => Search(s, target) = es[j].val
           /\ (\A j \in 1..Len(es) : es[j].key # target) => Search(s, target) = None
<1>1. PICK i \in 1..Len(es) + 1 : /\ StartPos(s, target) = off[i]
                                  /\ \A j \in 1..i - 1 : Less(es[j].key, target)
  BY StartIs
<1>2. /\ \A j \in 1..Len(es) : es[j].key = target => Scan(s, target) = es[j].val
      /\ (\A j \in 1..Len(es) : es[j].key # target) => Scan(s, target) = None
  BY <1>1, ScanIs
<1> QED BY <1>2 DEF Search

----------------------------------------------------------------------------
(* The entries of a map *)

\* es are the entries of the map in their order.
Lists(es, map) ==
    /\ Sorted(es)
    /\ \A i \in 1..Len(es) : es[i].key \in DOMAIN map /\ es[i].val = map[es[i].key]
    /\ \A k \in DOMAIN map : \E i \in 1..Len(es) : es[i].key = k

LEMMA SortedAppend ==
    ASSUME NEW es \in Seq(Pairs), Sorted(es), NEW e \in Pairs,
           \A i \in 1..Len(es) : Less(es[i].key, e.key)
    PROVE  /\ Sorted(Append(es, e)) /\ Append(es, e) \in Seq(Pairs)
           /\ Len(Append(es, e)) = Len(es) + 1 /\ Append(es, e)[Len(es) + 1] = e
           /\ \A i \in 1..Len(es) : Append(es, e)[i] = es[i]
<1> PICK x : x = Append(es, e)
  OBVIOUS
<1>1. x \in Seq(Pairs) /\ Len(x) = Len(es) + 1 /\ x[Len(es) + 1] = e /\ \A i \in 1..Len(es) : x[i] = es[i]
  BY AppendProperties
<1>2. Len(es) \in Nat
  BY SeqFacts
<1>3. ASSUME NEW i \in 1..Len(x), NEW j \in 1..Len(x), i < j PROVE Less(x[i].key, x[j].key)
  <2>1. i \in 1..Len(es) /\ (j \in 1..Len(es) \/ j = Len(es) + 1)
    <3>1. /\ Len(x) = Len(es) + 1 /\ Len(es) \in Nat
          /\ i \in 1..Len(x) /\ j \in 1..Len(x) /\ i < j
      BY <1>1, <1>2, <1>3
    <3> QED BY ONLY <3>1
  <2>2. CASE j \in 1..Len(es)
    BY <1>1, <1>3, <2>1, <2>2 DEF Sorted
  <2>3. CASE j = Len(es) + 1
    BY <1>1, <2>1, <2>3
  <2> QED BY <2>1, <2>2, <2>3
<1>4. Sorted(x)
  BY <1>3 DEF Sorted
<1> QED BY <1>1, <1>4

\* The first n keys are n keys.
LEMMA FirstKeys ==
    ASSUME NEW es \in Seq(Pairs), Sorted(es), NEW n \in 0..Len(es)
    PROVE  Cardinality({es[j].key : j \in 1..n}) = n
<1> DEFINE K == {es[j].key : j \in 1..n}
           f == [j \in 1..n |-> es[j].key]
<1>1. Len(es) \in Nat /\ n \in Nat /\ \A j \in 1..n : j \in 1..Len(es)
  BY SeqFacts
<1>2. f \in [1..n -> K] /\ (\A k \in K : \E j \in 1..n : f[j] = k)
  OBVIOUS
<1>3. ASSUME NEW i \in 1..n, NEW j \in 1..n, f[i] = f[j] PROVE i = j
  <2>1. es[i].key = es[j].key /\ es[i].key \in Keys /\ i \in 1..Len(es) /\ j \in 1..Len(es)
    BY <1>1, <1>3, KeyIs
  <2>2. ~(i < j) /\ ~(j < i)
    <3>1. ~Less(es[i].key, es[i].key)
      BY <2>1, OrderIs
    <3> QED BY <2>1, <3>1 DEF Sorted
  <2> QED BY <1>1, <2>1, <2>2
<1>4. f \in Bijection(1..n, K)
  <2> HIDE DEF f, K
  <2> QED BY <1>2, <1>3 DEF Bijection, Injection, Surjection, IsInjective
<1>5. ExistsBijection(1..n, K)
  <2> HIDE DEF f, K
  <2> QED BY <1>4 DEF ExistsBijection
<1>6. IsFiniteSet(1..n) /\ Cardinality(1..n) = n
  BY <1>1, FS_Interval
<1> HIDE DEF K
<1>7. Cardinality(K) = n
  BY <1>5, <1>6, FS_Bijection
<1> QED BY <1>7 DEF K

\* There is one such list, and Entries is it.
LEMMA EntriesAre ==
    ASSUME NEW es \in Seq(Pairs), NEW map, Lists(es, map)
    PROVE  Entries(map) = es
<1> DEFINE D == DOMAIN map
           Before(k) == {l \in D : Less(l, k)}
           Nth(i) == CHOOSE k \in D : Cardinality(Before(k)) = i - 1
<1> PICK N : N = Len(es)
  OBVIOUS
<1>1. N \in Nat /\ \A i \in 1..N : es[i].key \in Keys /\ es[i] = [key |-> es[i].key, val |-> es[i].val]
  BY KeyIs, SeqFacts
<1>2. /\ \A i \in 1..N : es[i].key \in D /\ es[i].val = map[es[i].key]
      /\ \A k \in D : \E i \in 1..N : es[i].key = k
      /\ Sorted(es)
  BY DEF Lists
<1>3. Cardinality(D) = N
  <2>1. D = {es[j].key : j \in 1..N}
    BY <1>2
  <2>2. N \in 0..Len(es)
    BY <1>1
  <2> HIDE DEF D
  <2> QED BY <1>2, <2>1, <2>2, FirstKeys
<1>4. ASSUME NEW i \in 1..N PROVE Cardinality(Before(es[i].key)) = i - 1
  <2>1. i - 1 \in 0..Len(es) /\ \A j \in 1..i - 1 : j \in 1..N /\ j < i
    BY <1>1
  <2>2. ASSUME NEW j \in 1..N PROVE Less(es[j].key, es[i].key) <=> j \in 1..i - 1
    <3>1. j < i => Less(es[j].key, es[i].key)
      BY <1>2 DEF Sorted
    <3>2. i < j => Less(es[i].key, es[j].key)
      BY <1>2 DEF Sorted
    <3>3. ~Less(es[i].key, es[i].key) /\ ~(Less(es[i].key, es[j].key) /\ Less(es[j].key, es[i].key))
      BY <1>1, OrderIs
    <3>4. (i < j \/ j < i \/ i = j) /\ (j < i <=> j \in 1..i - 1)
      BY <1>1
    <3> QED BY <3>1, <3>2, <3>3, <3>4
  <2>3. Before(es[i].key) = {es[j].key : j \in 1..i - 1}
    <3>1. ASSUME NEW l \in Before(es[i].key) PROVE l \in {es[j].key : j \in 1..i - 1}
      <4>1. l \in D /\ Less(l, es[i].key)
        OBVIOUS
      <4>2. PICK j \in 1..N : es[j].key = l
        BY <1>2, <4>1
      <4>3. j \in 1..i - 1
        BY <2>2, <4>1, <4>2
      <4> QED BY <4>2, <4>3
    <3>2. ASSUME NEW j \in 1..i - 1 PROVE es[j].key \in Before(es[i].key)
      BY <1>2, <2>1, <2>2
    <3> HIDE DEF Before
    <3> QED BY <3>1, <3>2
  <2>4. Cardinality({es[j].key : j \in 1..i - 1}) = i - 1
    BY <1>2, <2>1, FirstKeys
  <2> HIDE DEF Before
  <2> QED BY <2>3, <2>4
<1>5. ASSUME NEW i \in 1..N PROVE Nth(i) = es[i].key
  <2>1. es[i].key \in D /\ Cardinality(Before(es[i].key)) = i - 1
    BY <1>2, <1>4
  <2>2. ASSUME NEW k \in D, Cardinality(Before(k)) = i - 1 PROVE k = es[i].key
    <3>1. PICK j \in 1..N : es[j].key = k
      BY <1>2
    <3>2. Cardinality(Before(es[j].key)) = j - 1
      BY <1>4
    <3>3. j - 1 = i - 1
      <4> HIDE DEF Before
      <4> QED BY <2>2, <3>1, <3>2
    <3>4. j = i
      BY <1>1, <3>3
    <3> QED BY <3>1, <3>4
  <2>3. PICK x : x = CHOOSE k \in D : Cardinality(Before(k)) = i - 1
    OBVIOUS
  <2>4. x \in D /\ Cardinality(Before(x)) = i - 1
    <3> HIDE DEF Before, D
    <3> QED BY <2>1, <2>3
  <2>5. x = es[i].key
    <3> HIDE DEF Before, D
    <3> QED BY <2>2, <2>4
  <2> HIDE DEF Before, D
  <2> QED BY <2>3, <2>5
<1>6. Entries(map) = [i \in 1..N |-> [key |-> Nth(i), val |-> map[Nth(i)]]]
  <2>1. Entries(map) = [i \in 1..Cardinality(D) |-> [key |-> Nth(i), val |-> map[Nth(i)]]]
    BY DEF Entries
  <2> HIDE DEF Nth, D
  <2> QED BY <1>3, <2>1
<1>7. es = [i \in 1..N |-> es[i]]
  OBVIOUS
<1>8. \A i \in 1..N : [key |-> Nth(i), val |-> map[Nth(i)]] = es[i]
  <2>1. TAKE i \in 1..N
  <2>2. PICK k : k = Nth(i)
    OBVIOUS
  <2>3. k = es[i].key
    <3> HIDE DEF Nth
    <3> QED BY <1>5, <2>2
  <2>4. [key |-> k, val |-> map[k]] = es[i]
    BY <1>1, <1>2, <2>3
  <2> HIDE DEF Nth
  <2> QED BY <2>2, <2>4
<1> HIDE DEF Nth
<1> QED BY <1>6, <1>7, <1>8

\* Of finitely many keys one is the greatest.
LEMMA GreatestKey ==
    ASSUME NEW K \in SUBSET Keys, IsFiniteSet(K), K # {}
    PROVE  \E g \in K : \A l \in K : Leq(l, g)
<1> DEFINE S == {n \in Nat : \A L \in SUBSET Keys :
                    IsFiniteSet(L) /\ L # {} /\ Cardinality(L) = n => \E g \in L : \A l \in L : Leq(l, g)}
<1>1. 0 \in S
  BY FS_EmptySet
<1>2. ASSUME NEW n \in Nat, n \in S PROVE n + 1 \in S
  <2>1. SUFFICES ASSUME NEW L \in SUBSET Keys, IsFiniteSet(L), L # {}, Cardinality(L) = n + 1
                 PROVE  \E g \in L : \A l \in L : Leq(l, g)
    OBVIOUS
  <2>2. PICK x \in L : TRUE
    BY <2>1
  <2> DEFINE M == L \ {x}
  <2>3. IsFiniteSet(M) /\ Cardinality(M) = n /\ M \in SUBSET Keys
    <3>1. IsFiniteSet(L \ {x}) /\ Cardinality(L \ {x}) = Cardinality(L) - 1
      BY <2>1, FS_RemoveElement
    <3>2. (n + 1) - 1 = n
      OBVIOUS
    <3> QED BY <2>1, <3>1, <3>2
  <2>4. CASE M = {}
    <3>1. \A l \in L : l = x
      BY <2>4
    <3> QED BY <3>1 DEF Leq
  <2>5. CASE M # {}
    <3>1. PICK h \in M : \A l \in M : Leq(l, h)
      <4> HIDE DEF M
      <4> QED BY <1>2, <2>3, <2>5
    <3>2. CASE Leq(x, h)
      BY <3>1, <3>2
    <3>3. CASE ~Leq(x, h)
      <4>1. Leq(h, x)
        <5>1. h \in Keys /\ x \in Keys
          OBVIOUS
        <5> QED BY <3>3, <5>1, OrderIs DEF Leq
      <4>2. \A l \in L : Leq(l, x)
        <5>1. TAKE l \in L
        <5>2. l = x \/ Leq(l, h)
          BY <3>1
        <5>3. l \in Keys /\ h \in Keys /\ x \in Keys
          OBVIOUS
        <5> QED BY <4>1, <5>2, <5>3, OrderIs DEF Leq
      <4> QED BY <4>2
    <3> QED BY <3>2, <3>3
  <2> QED BY <2>4, <2>5
<1>3. Cardinality(K) \in Nat
  BY FS_CardinalityType
<1>4. Cardinality(K) \in S
  <2> HIDE DEF S
  <2> QED BY <1>1, <1>2, <1>3, SetInduction
<1> QED BY <1>4

LEMMA HasLists ==
    ASSUME NEW K \in SUBSET Keys, IsFiniteSet(K), NEW map \in [K -> Values]
    PROVE  \E es \in Seq(Pairs) : Lists(es, map)
<1> DEFINE S == {n \in Nat : \A L \in SUBSET Keys : IsFiniteSet(L) /\ Cardinality(L) = n =>
                    \A f \in [L -> Values] : \E es \in Seq(Pairs) : Lists(es, f)}
<1>1. 0 \in S
  <2>1. SUFFICES ASSUME NEW L \in SUBSET Keys, L = {}, NEW f \in [L -> Values]
                 PROVE  \E es \in Seq(Pairs) : Lists(es, f)
    BY FS_EmptySet
  <2>2. << >> \in Seq(Pairs) /\ Len(<< >>) = 0 /\ 1..0 = {}
    BY EmptySeq
  <2>3. Lists(<< >>, f)
    BY <2>1, <2>2 DEF Lists, Sorted
  <2> QED BY <2>2, <2>3
<1>2. ASSUME NEW n \in Nat, n \in S PROVE n + 1 \in S
  <2>1. SUFFICES ASSUME NEW L \in SUBSET Keys, IsFiniteSet(L), Cardinality(L) = n + 1, NEW f \in [L -> Values]
                 PROVE  \E es \in Seq(Pairs) : Lists(es, f)
    OBVIOUS
  <2>2. PICK g \in L : \A l \in L : Leq(l, g)
    <3>1. L # {}
      BY <2>1, FS_EmptySet
    <3> QED BY <2>1, <3>1, GreatestKey
  <2> DEFINE M == L \ {g}
             h == [k \in M |-> f[k]]
  <2>3. IsFiniteSet(M) /\ Cardinality(M) = n /\ M \in SUBSET Keys /\ h \in [M -> Values]
    <3>1. IsFiniteSet(L \ {g}) /\ Cardinality(L \ {g}) = Cardinality(L) - 1
      BY <2>1, FS_RemoveElement
    <3>2. (n + 1) - 1 = n
      OBVIOUS
    <3>3. h \in [M -> Values] /\ M \in SUBSET Keys
      OBVIOUS
    <3> QED BY <2>1, <3>1, <3>2, <3>3
  <2>4. PICK es \in Seq(Pairs) : Lists(es, h)
    <3> HIDE DEF M, h
    <3> QED BY <1>2, <2>3
  <2>5. PICK e : e = [key |-> g, val |-> f[g]] /\ e \in Pairs /\ e.key = g /\ e.val = f[g]
    <3>1. [key |-> g, val |-> f[g]] \in Pairs
      BY DEF Pairs
    <3> QED BY <3>1
  <2>6. /\ Sorted(es)
        /\ \A i \in 1..Len(es) : es[i].key \in M /\ es[i].val = f[es[i].key]
        /\ \A k \in M : \E i \in 1..Len(es) : es[i].key = k
    BY <2>4 DEF Lists
  <2>7. \A i \in 1..Len(es) : Less(es[i].key, e.key)
    BY <2>2, <2>5, <2>6 DEF Leq
  <2>8. PICK x : x = Append(es, e)
    OBVIOUS
  <2>9. /\ Sorted(x) /\ x \in Seq(Pairs)
        /\ Len(x) = Len(es) + 1 /\ x[Len(es) + 1] = e
        /\ \A i \in 1..Len(es) : x[i] = es[i]
    BY <2>5, <2>6, <2>7, <2>8, SortedAppend
  <2>10. Len(es) \in Nat
    BY SeqFacts
  <2>11. \A i \in 1..Len(x) : x[i].key \in L /\ x[i].val = f[x[i].key]
    <3>1. TAKE i \in 1..Len(x)
    <3>2. i \in 1..Len(es) \/ i = Len(es) + 1
      BY <2>9, <2>10
    <3> QED BY <2>5, <2>6, <2>9, <3>2
  <2>12. \A k \in L : \E i \in 1..Len(x) : x[i].key = k
    <3>1. TAKE k \in L
    <3>2. CASE k = g
      <4>1. Len(es) + 1 \in 1..Len(x)
        BY <2>9, <2>10
      <4> QED BY <2>5, <2>9, <3>2, <4>1
    <3>3. CASE k # g
      <4>1. PICK i \in 1..Len(es) : es[i].key = k
        BY <2>6, <3>3
      <4>2. i \in 1..Len(x)
        BY <2>9, <2>10
      <4> QED BY <2>9, <4>1, <4>2
    <3> QED BY <3>2, <3>3
  <2>13. Lists(x, f)
    BY <2>9, <2>11, <2>12 DEF Lists
  <2> QED BY <2>9, <2>13
<1>3. Cardinality(K) \in Nat
  BY FS_CardinalityType
<1>4. Cardinality(K) \in S
  <2> HIDE DEF S
  <2> QED BY <1>1, <1>2, <1>3, SetInduction
<1> QED BY <1>4

----------------------------------------------------------------------------
(* Writing and reading back *)

\* A filter never says no of a key that it was told of, whatever the hash
\* functions and the length are: it says so of none at first, and one key more
\* changes no answer for those before it.  (bloom_filter::set, is_set)
THEOREM NoFalseNegative ==
    ASSUME NEW length, NEW table, NEW S, NEW key,
           SaysYesOf([length |-> length, table |-> table], S)
    PROVE  SaysYesOf(SetIn([length |-> length, table |-> table], key), S \cup {key})
<1> DEFINE f == [length |-> length, table |-> table]
           g == SetIn(f, key)
<1>1. g.length = length /\ g.table = table \cup Bits(f, key)
  BY DEF SetIn
<1>2. \A k : Bits(g, k) = Bits(f, k)
  BY <1>1 DEF Bits
<1>3. IsSetIn(g, key)
  BY <1>1, <1>2 DEF IsSetIn
<1>4. ASSUME NEW k \in S
      PROVE  IsSetIn(g, k)
  <2>1. Bits(f, k) \subseteq table
    BY DEF SaysYesOf, IsSetIn
  <2> QED
    BY <2>1, <1>1, <1>2 DEF IsSetIn
<1> QED
  BY <1>3, <1>4 DEF SaysYesOf

\* f is a filter: its bits are those of its table.
IsFilter(f) ==
    /\ f = [length |-> f.length, table |-> f.table]
    /\ f.length \in Nat \ {0}
    /\ f.table \subseteq 0..f.length - 1

LEMMA FilterIs ==
    ASSUME NEW n \in Nat \ {0}
    PROVE  IsFilter(Filter(n)) /\ SaysYesOf(Filter(n), {})
BY DEF IsFilter, Filter, SaysYesOf

LEMMA SetInIs ==
    ASSUME NEW f, IsFilter(f), NEW S, SaysYesOf(f, S), NEW key \in Keys
    PROVE  IsFilter(SetIn(f, key)) /\ SaysYesOf(SetIn(f, key), S \cup {key})
<1> PICK n, t : n = f.length /\ t = f.table
  OBVIOUS
<1>1. f = [length |-> n, table |-> t] /\ n \in Nat \ {0} /\ t \subseteq 0..n - 1
  BY DEF IsFilter
<1>2. SaysYesOf(SetIn(f, key), S \cup {key})
  BY <1>1, NoFalseNegative
<1>3. SetIn(f, key) = [length |-> n, table |-> t \cup Bits(f, key)]
  BY <1>1 DEF SetIn
<1>4. Bits(f, key) \subseteq 0..n - 1
  <2>1. Hashes[key] \subseteq Nat
    BY HashAssumption
  <2>2. \A h \in Nat : h % n \in 0..n - 1
    BY <1>1
  <2> QED BY <1>1, <2>1, <2>2 DEF Bits
<1> QED BY <1>1, <1>2, <1>3, <1>4 DEF IsFilter

KeysOf(es) == {es[i].key : i \in 1..Len(es)}

\* The segment s has the entries es, the i-th at off[i].
Keeps(s, es, off) ==
    /\ IsFile(s.bytes, es, off)
    /\ Sorted(es)
    /\ IsFilter(s.bloom) /\ SaysYesOf(s.bloom, KeysOf(es))

\* The index has offsets from which the lines of these keys are still ahead.
Before(index, es, off) ==
    \A k \in DOMAIN index : \E i \in 1..Len(es) : es[i].key = k /\ index[k] \in 0..off[i]

\* The loop that writes has written es.
Writes(s, es, off) ==
    /\ Keeps(s, es, off) /\ Exact(s.index, es, off)
    /\ s.pos = Len(s.bytes) /\ s.sparsity_i \in 0..SPARSITY_FACTOR
    /\ s = [bytes |-> s.bytes, bloom |-> s.bloom, index |-> s.index,
            sparsity_i |-> s.sparsity_i, pos |-> s.pos]

\* x is the segment being written [bytes |-> bytes, ...] when key went by.
Went(x, bytes, bloom, index, n, pos, key) ==
    /\ x = [bytes |-> bytes, bloom |-> bloom, index |-> x.index, sparsity_i |-> x.sparsity_i, pos |-> pos]
    /\ n \in 0..SPARSITY_FACTOR => x.sparsity_i \in 0..SPARSITY_FACTOR
    /\ x.sparsity_i \in Nat
    /\ DOMAIN x.index \subseteq DOMAIN index \cup {key}
    /\ key \in DOMAIN x.index => x.index[key] = pos \/ (key \in DOMAIN index /\ x.index[key] = index[key])
    /\ \A k \in DOMAIN x.index : k # key => k \in DOMAIN index /\ x.index[k] = index[k]

LEMMA IndexedIs ==
    ASSUME NEW bytes, NEW bloom, NEW index, NEW n \in Nat, NEW pos, NEW key,
           NEW s, s = [bytes |-> bytes, bloom |-> bloom, index |-> index, sparsity_i |-> n, pos |-> pos],
           NEW x, x = Indexed(s, key)
    PROVE  Went(x, bytes, bloom, index, n, pos, key)
<1>1. CASE n = SPARSITY_FACTOR
  <2>1. x = [bytes |-> bytes, bloom |-> bloom, index |-> With(index, key, pos), sparsity_i |-> 0, pos |-> pos]
    BY <1>1 DEF Indexed
  <2> PICK f : f = With(index, key, pos)
    OBVIOUS
  <2>2. DOMAIN f = {key} \cup DOMAIN index /\ f[key] = pos /\ \A k \in DOMAIN index : k # key => f[k] = index[k]
    BY DEF With
  <2>3. x.index = f /\ x.sparsity_i = 0
    BY <2>1
  <2>4. 0 \in 0..SPARSITY_FACTOR
    BY FileAssumption
  <2> QED BY <2>1, <2>2, <2>3, <2>4 DEF Went
<1>2. CASE n # SPARSITY_FACTOR
  <2>1. x = [bytes |-> bytes, bloom |-> bloom, index |-> index, sparsity_i |-> n + 1, pos |-> pos]
    BY <1>2 DEF Indexed
  <2>2. SPARSITY_FACTOR \in Nat
    BY FileAssumption
  <2> QED BY <1>2, <2>1, <2>2 DEF Went
<1> QED BY <1>1, <1>2

\* One entry more is written.
LEMMA AddedIs ==
    ASSUME NEW s, NEW es, NEW off, Writes(s, es, off), NEW e \in Pairs,
           \A i \in 1..Len(es) : Less(es[i].key, e.key)
    PROVE  Writes(Added(s, e), Append(es, e), Further(off, Len(es), Len(s.bytes) + Len(Line(e))))
<1> PICK x, y, fs, es2, n, l : /\ x = Indexed(s, e.key) /\ y = Added(s, e) /\ es2 = Append(es, e) /\ n = Len(es)
                               /\ fs = Further(off, Len(es), Len(s.bytes) + Len(Line(e))) /\ l = Line(e)
  OBVIOUS
<1>1. /\ IsFile(s.bytes, es, off) /\ Sorted(es)
      /\ IsFilter(s.bloom) /\ SaysYesOf(s.bloom, KeysOf(es))
      /\ Exact(s.index, es, off)
      /\ s.pos = Len(s.bytes) /\ s.sparsity_i \in 0..SPARSITY_FACTOR
  BY DEF Writes, Keeps
<1>a. s = [bytes |-> s.bytes, bloom |-> s.bloom, index |-> s.index, sparsity_i |-> s.sparsity_i, pos |-> s.pos]
  BY DEF Writes
<1>2. es \in Seq(Pairs) /\ n \in Nat /\ Len(s.bytes) \in Nat /\ off[n + 1] = Len(s.bytes)
      /\ s.sparsity_i \in Nat /\ e.key \in Keys
  <2>1. s.sparsity_i \in Nat
    BY <1>1, FileAssumption
  <2>2. e.key \in Keys
    BY DEF Pairs
  <2> QED BY <1>1, <2>1, <2>2, FileIs
<1>3. /\ x = [bytes |-> s.bytes, bloom |-> s.bloom, index |-> x.index, sparsity_i |-> x.sparsity_i, pos |-> s.pos]
      /\ x.sparsity_i \in 0..SPARSITY_FACTOR
      /\ DOMAIN x.index \subseteq DOMAIN s.index \cup {e.key}
      /\ e.key \in DOMAIN x.index => x.index[e.key] = s.pos \/ (e.key \in DOMAIN s.index /\ x.index[e.key] = s.index[e.key])
      /\ \A k \in DOMAIN x.index : k # e.key => k \in DOMAIN s.index /\ x.index[k] = s.index[k]
  <2> PICK B, F, I, m, p, k : B = s.bytes /\ F = s.bloom /\ I = s.index /\ m = s.sparsity_i /\ p = s.pos /\ k = e.key
    OBVIOUS
  <2>1. s = [bytes |-> B, bloom |-> F, index |-> I, sparsity_i |-> m, pos |-> p] /\ m \in Nat /\ x = Indexed(s, k)
    BY <1>2, <1>a
  <2>2. Went(x, B, F, I, m, p, k)
    BY <2>1, IndexedIs
  <2> QED BY <1>1, <2>2 DEF Went
<1>4. y = [bytes |-> s.bytes \o l, bloom |-> SetIn(s.bloom, e.key), index |-> x.index,
           sparsity_i |-> x.sparsity_i, pos |-> s.pos + Len(l)]
  <2>1. y = [x EXCEPT !.bytes = @ \o l, !.bloom = SetIn(@, e.key), !.pos = @ + Len(l)]
    BY DEF Added
  <2> PICK B, F, I, m, p : B = s.bytes /\ F = s.bloom /\ I = x.index /\ m = x.sparsity_i /\ p = s.pos
    OBVIOUS
  <2>2. x = [bytes |-> B, bloom |-> F, index |-> I, sparsity_i |-> m, pos |-> p]
    BY <1>3
  <2>3. y = [bytes |-> B \o l, bloom |-> SetIn(F, e.key), index |-> I, sparsity_i |-> m, pos |-> p + Len(l)]
    <3>1. PICK b2, f2, p2 : b2 = x.bytes \o l /\ f2 = SetIn(x.bloom, e.key) /\ p2 = x.pos + Len(l)
      OBVIOUS
    <3>2. y = [x EXCEPT !.bytes = b2, !.bloom = f2, !.pos = p2]
      BY <2>1, <3>1
    <3>3. y = [bytes |-> b2, bloom |-> f2, index |-> I, sparsity_i |-> m, pos |-> p2]
      BY <2>2, <3>2
    <3>4. b2 = B \o l /\ f2 = SetIn(F, e.key) /\ p2 = p + Len(l)
      BY <2>2, <3>1
    <3> QED BY <3>3, <3>4
  <2> QED BY <2>3
<1>5. IsFile(s.bytes \o l, es2, fs) /\ Len(s.bytes \o l) = Len(s.bytes) + Len(l)
  BY <1>1, AddLine
<1>6. /\ Sorted(es2) /\ es2 \in Seq(Pairs)
      /\ Len(es2) = n + 1 /\ es2[n + 1] = e
      /\ \A i \in 1..n : es2[i] = es[i]
  BY <1>1, <1>2, SortedAppend
<1>7. KeysOf(es2) = KeysOf(es) \cup {e.key}
  <2>1. n + 1 \in 1..n + 1 /\ \A i \in 1..n + 1 : i \in 1..n \/ i = n + 1
    BY <1>2
  <2>2. \A i \in 1..n : i \in 1..n + 1
    BY <1>2
  <2> QED BY <1>6, <2>1, <2>2 DEF KeysOf
<1>8. IsFilter(SetIn(s.bloom, e.key)) /\ SaysYesOf(SetIn(s.bloom, e.key), KeysOf(es2))
  <2>1. IsFilter(SetIn(s.bloom, e.key)) /\ SaysYesOf(SetIn(s.bloom, e.key), KeysOf(es) \cup {e.key})
    BY <1>1, <1>2, SetInIs
  <2> QED BY <1>7, <2>1
<1>9. Exact(x.index, es2, fs)
  <2>1. \A i \in 1..n + 1 : fs[i] = off[i]
    <3>1. fs = [i \in 1..n + 2 |-> IF i = n + 2 THEN Len(s.bytes) + Len(l) ELSE off[i]]
      BY DEF Further
    <3>2. \A i \in 1..n + 1 : i \in 1..n + 2 /\ i # n + 2
      BY <1>2
    <3> QED BY <3>1, <3>2
  <2>2. n + 1 \in 1..n + 1 /\ \A i \in 1..n : i \in 1..n + 1
    BY <1>2
  <2>3. ASSUME NEW k \in DOMAIN s.index PROVE \E i \in 1..n : es2[i].key = k /\ s.index[k] = fs[i]
    <3>1. PICK i \in 1..n : es[i].key = k /\ s.index[k] = off[i]
      BY <1>1 DEF Exact
    <3> QED BY <1>6, <2>1, <2>2, <3>1
  <2>4. e.key \notin DOMAIN s.index
    <3>1. SUFFICES ASSUME e.key \in DOMAIN s.index PROVE FALSE
      OBVIOUS
    <3>2. PICK i \in 1..n : es[i].key = e.key
      BY <1>1, <3>1 DEF Exact
    <3> QED BY <1>2, <3>2, OrderIs
  <2>5. ASSUME NEW k \in DOMAIN x.index PROVE \E i \in 1..n + 1 : es2[i].key = k /\ x.index[k] = fs[i]
    <3>1. CASE k = e.key
      <4>1. x.index[k] = fs[n + 1]
        BY <1>1, <1>2, <1>3, <2>1, <2>2, <2>4, <3>1
      <4> QED BY <1>6, <2>2, <3>1, <4>1
    <3>2. CASE k # e.key
      <4>1. k \in DOMAIN s.index /\ x.index[k] = s.index[k]
        BY <1>3, <3>2
      <4> QED BY <2>2, <2>3, <4>1
    <3> QED BY <3>1, <3>2
  <2> QED BY <1>6, <2>5 DEF Exact
<1>10. /\ y.bytes = s.bytes \o l /\ y.bloom = SetIn(s.bloom, e.key) /\ y.index = x.index
       /\ y.sparsity_i = x.sparsity_i /\ y.pos = s.pos + Len(l)
       /\ y = [bytes |-> y.bytes, bloom |-> y.bloom, index |-> y.index,
               sparsity_i |-> y.sparsity_i, pos |-> y.pos]
  BY <1>4
<1>11. Keeps(y, es2, fs)
  BY <1>5, <1>6, <1>8, <1>10 DEF Keeps
<1>12. Exact(y.index, es2, fs) /\ y.sparsity_i \in 0..SPARSITY_FACTOR /\ y.pos = Len(y.bytes)
  BY <1>1, <1>3, <1>5, <1>9, <1>10
<1> QED BY <1>10, <1>11, <1>12 DEF Writes

LEMMA BlankIs ==
    ASSUME NEW n \in Nat \ {0}
    PROVE  Writes(Blank(n), << >>, [i \in {1} |-> 0])
<1>1. << >> \in Seq(Pairs) /\ Len(<< >>) = 0 /\ 1..0 = {} /\ DOMAIN << >> = {}
  BY EmptySeq
<1>2. Sorted(<< >>) /\ KeysOf(<< >>) = {} /\ Exact(<< >>, << >>, [i \in {1} |-> 0])
  BY <1>1 DEF Sorted, KeysOf, Exact
<1>3. 0 \in 0..SPARSITY_FACTOR
  BY FileAssumption
<1> PICK s, fs : s = Blank(n) /\ fs = [i \in {1} |-> 0]
  OBVIOUS
<1>4. s = [bytes |-> << >>, bloom |-> Filter(n), index |-> << >>, sparsity_i |-> 0, pos |-> 0]
  BY DEF Blank
<1>5. s.bytes = << >> /\ s.bloom = Filter(n) /\ s.index = << >> /\ s.sparsity_i = 0 /\ s.pos = 0
  BY <1>4
<1>6. IsFilter(s.bloom) /\ SaysYesOf(s.bloom, {})
  BY <1>5, FilterIs
<1>7. IsFile(s.bytes, << >>, fs)
  BY <1>5, EmptyFile
<1>8. Keeps(s, << >>, fs) /\ Exact(s.index, << >>, fs)
  BY <1>2, <1>5, <1>6, <1>7 DEF Keeps
<1>9. s = [bytes |-> s.bytes, bloom |-> s.bloom, index |-> s.index,
           sparsity_i |-> s.sparsity_i, pos |-> s.pos]
  BY <1>4, <1>5
<1> QED BY <1>1, <1>3, <1>5, <1>8, <1>9 DEF Writes

\* The file of a memtable.
LEMMA CreatedIs ==
    ASSUME NEW es \in Seq(Pairs), NEW map, Lists(es, map)
    PROVE  \E off : Keeps(Created(map), es, off) /\ Exact(Created(map).index, es, off)
<1> DEFINE Rec(a, k) == a = [i \in 0..k |-> IF i = 0 THEN Blank(FlushBits) ELSE Added(a[i - 1], es[i])]
           S == {k \in Nat : k <= Len(es) => \E a : Rec(a, k)}
<1>1. Len(es) \in Nat /\ \A i \in 1..Len(es) : es[i] \in Pairs
  BY SeqFacts
<1>2. 0 \in S
  <2>1. Rec([i \in 0..0 |-> Blank(FlushBits)], 0)
    OBVIOUS
  <2> QED BY <2>1
<1>3. ASSUME NEW k \in Nat, k \in S PROVE k + 1 \in S
  <2>1. SUFFICES ASSUME k + 1 <= Len(es) PROVE \E a : Rec(a, k + 1)
    OBVIOUS
  <2>2. PICK a : Rec(a, k)
    BY <1>3, <2>1
  <2> DEFINE b == [i \in 0..k + 1 |-> IF i = k + 1 THEN Added(a[k], es[k + 1]) ELSE a[i]]
  <2>3. \A i \in 0..k : b[i] = a[i]
    OBVIOUS
  <2>4. b[k + 1] = Added(a[k], es[k + 1])
    OBVIOUS
  <2>5. \A i \in 0..k : a[i] = IF i = 0 THEN Blank(FlushBits) ELSE Added(a[i - 1], es[i])
    BY <2>2
  <2>6. b = [i \in 0..k + 1 |-> b[i]]
    OBVIOUS
  <2> HIDE DEF b
  <2>7. \A i \in 0..k + 1 : b[i] = IF i = 0 THEN Blank(FlushBits) ELSE Added(b[i - 1], es[i])
    <3>1. TAKE i \in 0..k + 1
    <3>2. CASE i = k + 1
      <4>1. i # 0 /\ i - 1 = k /\ k \in 0..k
        BY <3>2
      <4> QED BY <2>3, <2>4, <3>2, <4>1
    <3>3. CASE i # k + 1
      <4>1. i \in 0..k /\ (i # 0 => i - 1 \in 0..k)
        BY <3>3
      <4> QED BY <2>3, <2>5, <4>1
    <3> QED BY <3>2, <3>3
  <2>8. Rec(b, k + 1)
    BY <2>6, <2>7
  <2> QED BY <2>8
<1>4. PICK a : Rec(a, Len(es))
  <2>1. Len(es) \in S
    <3> HIDE DEF S
    <3> QED BY <1>1, <1>2, <1>3, SetInduction
  <2> QED BY <1>1, <2>1
<1> PICK f : f = CHOOSE g : Rec(g, Len(es))
  OBVIOUS
<1>5. Rec(f, Len(es))
  <2>1. \E g : Rec(g, Len(es))
    BY <1>4
  <2> HIDE DEF Rec
  <2> QED BY <2>1
<1>6. Created(map) = Written(f[Len(es)])
  <2>1. Entries(map) = es
    BY EntriesAre
  <2> QED BY <2>1 DEF Created
<1>7. f[0] = Blank(FlushBits) /\ \A i \in 1..Len(es) : f[i] = Added(f[i - 1], es[i])
  <2>1. \A i \in 0..Len(es) : f[i] = IF i = 0 THEN Blank(FlushBits) ELSE Added(f[i - 1], es[i])
    BY <1>5
  <2>2. 0 \in 0..Len(es) /\ \A i \in 1..Len(es) : i \in 0..Len(es) /\ i # 0
    BY <1>1
  <2> HIDE DEF Rec
  <2> QED BY <2>1, <2>2
<1> DEFINE Part(k, p) == /\ p \in Seq(Pairs) /\ Len(p) = k /\ \A i \in 1..k : p[i] = es[i]
           Q(k) == \E p, off : Part(k, p) /\ Writes(f[k], p, off)
           W == {k \in Nat : k <= Len(es) => Q(k)}
<1>8. 0 \in W
  <2>1. Part(0, << >>)
    BY EmptySeq
  <2>2. Writes(f[0], << >>, [i \in {1} |-> 0])
    BY <1>7, BlankIs, FileAssumption
  <2> HIDE DEF Part
  <2> QED BY <2>1, <2>2
<1>9. ASSUME NEW k \in Nat, k \in W PROVE k + 1 \in W
  <2>1. SUFFICES ASSUME k + 1 <= Len(es) PROVE Q(k + 1)
    <3> HIDE DEF Q
    <3> QED OBVIOUS
  <2>a. Q(k)
    <3> HIDE DEF Q
    <3> QED BY <1>1, <1>9, <2>1
  <2>2. PICK p, off : Part(k, p) /\ Writes(f[k], p, off)
    BY <2>a
  <2>3. k + 1 \in 1..Len(es) /\ (k + 1) - 1 = k /\ \A i \in 1..k : i \in 1..Len(es) /\ i < k + 1
    BY <1>1, <2>1
  <2> PICK e : e = es[k + 1]
    OBVIOUS
  <2>4. e \in Pairs /\ \A i \in 1..Len(p) : Less(p[i].key, e.key)
    <3>1. Sorted(es)
      BY DEF Lists
    <3>2. \A i \in 1..k : Less(es[i].key, es[k + 1].key)
      BY <2>3, <3>1 DEF Sorted
    <3> QED BY <1>1, <2>2, <2>3, <3>2
  <2>5. Writes(Added(f[k], e), Append(p, e), Further(off, Len(p), Len(f[k].bytes) + Len(Line(e))))
    BY <2>2, <2>4, AddedIs
  <2>6. f[k + 1] = Added(f[k], e)
    BY <1>7, <2>3
  <2>7. Part(k + 1, Append(p, e))
    <3> PICK x : x = Append(p, e)
      OBVIOUS
    <3>1. x \in Seq(Pairs) /\ Len(x) = k + 1 /\ x[k + 1] = e /\ \A i \in 1..k : x[i] = p[i]
      BY <2>2, <2>4, AppendProperties
    <3>2. \A i \in 1..k + 1 : i \in 1..k \/ i = k + 1
      OBVIOUS
    <3> QED BY <2>2, <3>1, <3>2
  <2> HIDE DEF Part
  <2> QED BY <2>5, <2>6, <2>7
<1>10. Len(es) \in W
  <2> HIDE DEF W
  <2> QED BY <1>1, <1>8, <1>9, SetInduction
<1>a. Q(Len(es))
  <2> HIDE DEF Q
  <2> QED BY <1>1, <1>10
<1>11. PICK p, off : Part(Len(es), p) /\ Writes(f[Len(es)], p, off)
  BY <1>a
<1>12. p = es
  <2>1. p \in Seq(Pairs) /\ Len(p) = Len(es) /\ \A i \in 1..Len(p) : p[i] = es[i]
    BY <1>11
  <2> QED BY <2>1, SeqEqual
<1>13. Keeps(Created(map), es, off) /\ Exact(Created(map).index, es, off)
  <2> HIDE DEF Part, Rec
  <2> QED BY <1>6, <1>11, <1>12 DEF Writes, Keeps, Written
<1> QED BY <1>13

\* The loop that reads a file back has read the first i lines: as newlines do not
\* count, it is i bytes behind.
Reads(s, b, es, off, i) ==
    /\ s = [bytes |-> b, bloom |-> s.bloom, index |-> s.index,
            sparsity_i |-> s.sparsity_i, pos |-> s.pos]
    /\ s.sparsity_i \in Nat /\ s.pos \in Nat /\ s.pos + i = off[i + 1]
    /\ IsFilter(s.bloom) /\ SaysYesOf(s.bloom, {es[j].key : j \in 1..i})
    /\ \A k \in DOMAIN s.index : \E j \in 1..i : es[j].key = k /\ s.index[k] \in 0..off[j]

LEMMA ReadBackIs ==
    ASSUME NEW b, NEW es, NEW off, IsFile(b, es, off), NEW i \in 0..Len(es) - 1,
           NEW s, Reads(s, b, es, off, i)
    PROVE  Reads(ReadBack(s, Lines(b)[i + 1]), b, es, off, i + 1)
<1> PICK e, key, l, x, y : /\ e = es[i + 1] /\ key = es[i + 1].key /\ l = Lines(b)[i + 1]
                           /\ x = Indexed(s, es[i + 1].key) /\ y = ReadBack(s, Lines(b)[i + 1])
  OBVIOUS
<1>1. Len(es) \in Nat /\ i \in Nat /\ i + 1 \in 1..Len(es) /\ i + 1 \in 1..Len(es) + 1
  BY FileIs
<1>2. /\ e \in Pairs /\ Split(l) = e /\ l = Body(e)
      /\ off[(i + 1) + 1] = off[i + 1] + Len(l) + 1
      /\ off[i + 1] \in Nat
  <2>1. /\ es[i + 1] \in Pairs /\ Lines(b)[i + 1] = Body(es[i + 1]) /\ Split(Lines(b)[i + 1]) = es[i + 1]
        /\ off[(i + 1) + 1] = off[i + 1] + Len(Body(es[i + 1])) + 1
    BY <1>1, FileIs
  <2>2. off[i + 1] \in 0..Len(b) /\ Len(b) \in Nat
    BY <1>1, FileIs
  <2> QED BY <2>1, <2>2
<1>3. key \in Keys /\ key = e.key /\ Len(l) \in Nat
  <2>1. e.key \in Keys
    BY <1>2 DEF Pairs
  <2> QED BY <1>2, <2>1, BodyIs
<1> PICK F, I, m, p : F = s.bloom /\ I = s.index /\ m = s.sparsity_i /\ p = s.pos
  OBVIOUS
<1>4. /\ s = [bytes |-> b, bloom |-> F, index |-> I, sparsity_i |-> m, pos |-> p]
      /\ m \in Nat /\ p \in Nat /\ p + i = off[i + 1]
      /\ IsFilter(F) /\ SaysYesOf(F, {es[j].key : j \in 1..i})
  BY DEF Reads
<1>5. \A k \in DOMAIN I : \E j \in 1..i : es[j].key = k /\ I[k] \in 0..off[j]
  BY DEF Reads
<1>6. Went(x, b, F, I, m, p, key)
  <2>1. x = Indexed(s, key)
    OBVIOUS
  <2> QED BY <1>4, <2>1, IndexedIs
<1>7. y = [bytes |-> b, bloom |-> SetIn(F, key), index |-> x.index, sparsity_i |-> x.sparsity_i, pos |-> p + Len(l)]
  <2>1. y = [x EXCEPT !.bloom = SetIn(@, key), !.pos = @ + Len(l)]
    BY <1>2, <1>3 DEF ReadBack
  <2> PICK J, n : J = x.index /\ n = x.sparsity_i
    OBVIOUS
  <2>2. x = [bytes |-> b, bloom |-> F, index |-> J, sparsity_i |-> n, pos |-> p]
    BY <1>6 DEF Went
  <2>3. PICK f2, p2 : f2 = SetIn(x.bloom, key) /\ p2 = x.pos + Len(l)
    OBVIOUS
  <2>4. y = [x EXCEPT !.bloom = f2, !.pos = p2]
    BY <2>1, <2>3
  <2>5. y = [bytes |-> b, bloom |-> f2, index |-> J, sparsity_i |-> n, pos |-> p2]
    BY ONLY <2>2, <2>4
  <2>6. f2 = SetIn(F, key) /\ p2 = p + Len(l)
    BY <2>2, <2>3
  <2> QED BY <2>5, <2>6
<1>8. /\ y.bytes = b /\ y.bloom = SetIn(F, key) /\ y.index = x.index /\ y.sparsity_i = x.sparsity_i /\ y.pos = p + Len(l)
      /\ y = [bytes |-> b, bloom |-> y.bloom, index |-> y.index, sparsity_i |-> y.sparsity_i, pos |-> y.pos]
  BY <1>7
<1>9. y.sparsity_i \in Nat /\ y.pos \in Nat /\ y.pos + (i + 1) = off[(i + 1) + 1]
  <2>1. x.sparsity_i \in Nat
    BY <1>6 DEF Went
  <2>2. p + Len(l) \in Nat /\ p + Len(l) + (i + 1) = (p + i) + Len(l) + 1
    <3>1. i \in Nat /\ Len(l) \in Nat /\ p \in Nat
      BY <1>1, <1>3, <1>4
    <3> QED BY ONLY <3>1
  <2> QED BY <1>2, <1>4, <1>8, <2>1, <2>2
<1>10. IsFilter(y.bloom) /\ SaysYesOf(y.bloom, {es[j].key : j \in 1..i + 1})
  <2>1. {es[j].key : j \in 1..i + 1} = {es[j].key : j \in 1..i} \cup {key}
    <3>1. i + 1 \in 1..i + 1 /\ \A j \in 1..i + 1 : j \in 1..i \/ j = i + 1
      BY <1>1
    <3>2. \A j \in 1..i : j \in 1..i + 1
      BY <1>1
    <3> QED BY <3>1, <3>2
  <2>2. PICK K : K = {es[j].key : j \in 1..i}
    OBVIOUS
  <2>3. IsFilter(SetIn(F, key)) /\ SaysYesOf(SetIn(F, key), K \cup {key})
    <3>1. SaysYesOf(F, K)
      BY <1>4, <2>2
    <3> QED BY <1>3, <1>4, <3>1, SetInIs
  <2> QED BY <1>8, <2>1, <2>2, <2>3
<1>11. \A k \in DOMAIN y.index : \E j \in 1..i + 1 : es[j].key = k /\ y.index[k] \in 0..off[j]
  <2>1. TAKE k \in DOMAIN y.index
  <2>2. k \in DOMAIN x.index /\ y.index[k] = x.index[k]
    BY <1>8
  <2>3. \A j \in 1..i : j \in 1..i + 1
    BY <1>1
  <2>4. CASE k \in DOMAIN I /\ x.index[k] = I[k]
    BY <1>5, <2>2, <2>3, <2>4
  <2>5. CASE ~(k \in DOMAIN I /\ x.index[k] = I[k])
    <3>1. k = key /\ x.index[k] = p
      BY <1>6, <2>2, <2>5 DEF Went
    <3>2. p \in 0..off[i + 1] /\ i + 1 \in 1..i + 1
      BY <1>1, <1>2, <1>4
    <3> QED BY <2>2, <3>1, <3>2
  <2> QED BY <2>4, <2>5
<1>12. Reads(y, b, es, off, i + 1)
  BY <1>8, <1>9, <1>10, <1>11 DEF Reads
<1> QED BY <1>12

\* A segment is read back.
LEMMA ReopenedIs ==
    ASSUME NEW s, NEW es, NEW off, Keeps(s, es, off)
    PROVE  Keeps(Reopened(s), es, off) /\ Before(Reopened(s).index, es, off)
<1> PICK b, ls, B : b = s.bytes /\ ls = Lines(s.bytes) /\ B = [Blank(MEMTABLE_SIZE) EXCEPT !.bytes = s.bytes]
  OBVIOUS
<1>1. IsFile(b, es, off) /\ Sorted(es)
  BY DEF Keeps
<1>2. Len(es) \in Nat /\ off[1] = 0
  BY <1>1, FileIs
<1>3. Len(ls) = Len(es)
  <2>1. IsLines(b, Bodies(es), off) /\ es \in Seq(Pairs)
    BY <1>1 DEF IsFile
  <2>2. ls = Bodies(es)
    BY <2>1, LinesFrom
  <2> QED BY <2>1, <2>2, BodiesAre
<1> DEFINE Rec(a, k) == a = [i \in 0..k |-> IF i = 0 THEN B ELSE ReadBack(a[i - 1], ls[i])]
           S == {k \in Nat : k <= Len(es) => \E a : Rec(a, k)}
<1>4. 0 \in S
  <2>1. Rec([i \in 0..0 |-> B], 0)
    OBVIOUS
  <2> QED BY <2>1
<1>5. ASSUME NEW k \in Nat, k \in S PROVE k + 1 \in S
  <2>1. SUFFICES ASSUME k + 1 <= Len(es) PROVE \E a : Rec(a, k + 1)
    OBVIOUS
  <2>2. PICK a : Rec(a, k)
    BY <1>2, <1>5, <2>1
  <2> DEFINE c == [i \in 0..k + 1 |-> IF i = k + 1 THEN ReadBack(a[k], ls[k + 1]) ELSE a[i]]
  <2>3. \A i \in 0..k : c[i] = a[i]
    OBVIOUS
  <2>4. c[k + 1] = ReadBack(a[k], ls[k + 1])
    OBVIOUS
  <2>5. \A i \in 0..k : a[i] = IF i = 0 THEN B ELSE ReadBack(a[i - 1], ls[i])
    BY <2>2
  <2>6. c = [i \in 0..k + 1 |-> c[i]]
    OBVIOUS
  <2> HIDE DEF c
  <2>7. \A i \in 0..k + 1 : c[i] = IF i = 0 THEN B ELSE ReadBack(c[i - 1], ls[i])
    <3>1. TAKE i \in 0..k + 1
    <3>2. CASE i = k + 1
      <4>1. i # 0 /\ i - 1 = k /\ k \in 0..k
        BY <3>2
      <4> QED BY <2>3, <2>4, <3>2, <4>1
    <3>3. CASE i # k + 1
      <4>1. i \in 0..k /\ (i # 0 => i - 1 \in 0..k)
        BY <3>3
      <4> QED BY <2>3, <2>5, <4>1
    <3> QED BY <3>2, <3>3
  <2>8. Rec(c, k + 1)
    BY <2>6, <2>7
  <2> QED BY <2>8
<1>6. PICK a : Rec(a, Len(es))
  <2>1. Len(es) \in S
    <3> HIDE DEF S
    <3> QED BY <1>2, <1>4, <1>5, SetInduction
  <2> QED BY <1>2, <2>1
<1> PICK f : f = CHOOSE g : Rec(g, Len(es))
  OBVIOUS
<1>7. Rec(f, Len(es))
  <2>1. \E g : Rec(g, Len(es))
    BY <1>6
  <2> HIDE DEF Rec
  <2> QED BY <2>1
<1>8. Reopened(s) = Written(f[Len(es)])
  BY <1>3 DEF Reopened
<1>9. f[0] = B /\ \A i \in 1..Len(es) : f[i] = ReadBack(f[i - 1], ls[i])
  <2>1. \A i \in 0..Len(es) : f[i] = IF i = 0 THEN B ELSE ReadBack(f[i - 1], ls[i])
    BY <1>7
  <2>2. 0 \in 0..Len(es) /\ \A i \in 1..Len(es) : i \in 0..Len(es) /\ i # 0
    BY <1>2
  <2> HIDE DEF Rec
  <2> QED BY <2>1, <2>2
<1> DEFINE W == {k \in Nat : k <= Len(es) => Reads(f[k], b, es, off, k)}
<1>10. 0 \in W
  <2>1. B = [bytes |-> b, bloom |-> Filter(MEMTABLE_SIZE), index |-> << >>, sparsity_i |-> 0, pos |-> 0]
    BY DEF Blank
  <2>2. IsFilter(Filter(MEMTABLE_SIZE)) /\ SaysYesOf(Filter(MEMTABLE_SIZE), {})
    BY FilterIs, FileAssumption
  <2>3. {es[j].key : j \in 1..0} = {} /\ DOMAIN << >> = {} /\ off[0 + 1] = 0
    BY <1>2
  <2>4. /\ B = [bytes |-> b, bloom |-> B.bloom, index |-> B.index, sparsity_i |-> B.sparsity_i, pos |-> B.pos]
        /\ B.bloom = Filter(MEMTABLE_SIZE) /\ B.index = << >> /\ B.sparsity_i = 0 /\ B.pos = 0
    BY ONLY <2>1
  <2>6. SaysYesOf(B.bloom, {es[j].key : j \in 1..0}) /\ IsFilter(B.bloom)
    BY <2>2, <2>3, <2>4
  <2>7. \A k \in DOMAIN B.index : \E j \in 1..0 : es[j].key = k /\ B.index[k] \in 0..off[j]
    BY <2>3, <2>4
  <2>5. Reads(B, b, es, off, 0)
    BY <2>3, <2>4, <2>6, <2>7 DEF Reads
  <2> QED BY <1>9, <2>5
<1>11. ASSUME NEW k \in Nat, k \in W PROVE k + 1 \in W
  <2>1. SUFFICES ASSUME k + 1 <= Len(es) PROVE Reads(f[k + 1], b, es, off, k + 1)
    OBVIOUS
  <2>2. k \in 0..Len(es) - 1 /\ k + 1 \in 1..Len(es) /\ (k + 1) - 1 = k /\ k <= Len(es)
    BY <1>2, <2>1
  <2>3. Reads(f[k], b, es, off, k)
    BY <1>11, <2>2
  <2>4. Reads(ReadBack(f[k], Lines(b)[k + 1]), b, es, off, k + 1)
    BY <1>1, <2>2, <2>3, ReadBackIs
  <2>5. f[k + 1] = ReadBack(f[k], Lines(b)[k + 1])
    BY <1>9, <2>2
  <2> QED BY <2>4, <2>5
<1>12. Len(es) \in W
  <2> HIDE DEF W
  <2> QED BY <1>2, <1>10, <1>11, SetInduction
<1>13. Reads(f[Len(es)], b, es, off, Len(es))
  BY <1>2, <1>12
<1> PICK t : t = f[Len(es)]
  OBVIOUS
<1>14. /\ Reopened(s).bytes = b /\ Reopened(s).bloom = t.bloom /\ Reopened(s).index = t.index
  <2>1. t.bytes = b
    <3>1. Reads(t, b, es, off, Len(es))
      BY <1>13
    <3> QED BY ONLY <3>1 DEF Reads
  <2> QED BY <1>8, <2>1 DEF Written
<1>15. IsFilter(t.bloom) /\ SaysYesOf(t.bloom, KeysOf(es)) /\ Before(t.index, es, off)
  BY <1>13 DEF Reads, KeysOf, Before
<1> HIDE DEF Rec, W, S
<1> QED BY <1>1, <1>14, <1>15 DEF Keeps

----------------------------------------------------------------------------
(* The invariant *)

\* What a merge reads of the entries is what the map has, but for the empty key.
Readable(es, map) ==
    /\ \A i \in 1..Len(es) : ~Empty(es[i])
    /\ \A i \in 1..Len(es) : es[i].key # << >> =>
          es[i].key \in DOMAIN map /\ es[i].val = map[es[i].key]
    /\ \A k \in DOMAIN map : k # << >> => \E i \in 1..Len(es) : es[i].key = k

\* The segment x has the entries es, the i-th at off[i].
Kept(x, es, off) ==
    /\ Keeps(segment[x], es, off)
    /\ Before(segment[x].index, es, off)
    /\ x \notin reopened => Exact(segment[x].index, es, off)
    /\ ~unreadable => Readable(es, holds[x])

\* The n-th entry was read from a file, or its end.
ReaderAt(r, b, es, off, n) ==
    /\ n \in 1..Len(es) + 1
    /\ n <= Len(es) =>
          r = [rest |-> From(b, off[n + 1]), line |-> Body(es[n]), end |-> FALSE, kv |-> es[n]]
    /\ n = Len(es) + 1 =>
          r = [rest |-> << >>, line |-> << >>, end |-> TRUE, kv |-> [key |-> << >>, val |-> << >>]]

\* The next line of either file is not before the last that was merged, and of the
\* newer file behind it.
Ahead ==
    /\ \A x \in Sources : ~Empty(reader[x].kv) => Leq(last_key, reader[x].kv.key)
    /\ ~Empty(reader["a"].kv) => Less(last_key, reader["a"].kv.key) \/ reader["a"].kv.key = << >>

\* The new file has the entries ms, and what both files hold up to the last key.
Upto(es, n, ms) ==
    /\ \A x \in Sources : \A i \in 1..n[x] - 1 : Leq(es[x][i].key, last_key)
    /\ \A i \in 1..Len(ms) : ms[i].key \in DOMAIN Both /\ ms[i].val = Both[ms[i].key]
    /\ \A k \in DOMAIN Both : k # << >> /\ Leq(k, last_key) => \E i \in 1..Len(ms) : ms[i].key = k

\* A merge of the entries es[x] at off[x] is at the n[x]-th of each; it has written
\* the entries ms at mo.
Merges(es, off, n, ms, mo) ==
    /\ \A x \in Sources : /\ Kept(x, es[x], off[x])
                          /\ ReaderAt(reader[x], segment[x].bytes, es[x], off[x], n[x])
    /\ Ahead
    /\ Writes(merged, ms, mo)
    /\ \A i \in 1..Len(ms) : Leq(ms[i].key, last_key) /\ ms[i].key # << >>
    /\ ~unreadable => Upto(es, n, ms)

FileShape ==
    /\ DOMAIN segment \subseteq Sources
    /\ segment = [x \in DOMAIN segment |-> segment[x]]
    /\ reader = [x \in Sources |-> reader[x]]
    /\ pc \in {"idle", "merge"}
    /\ last_key \in Keys \cup {<< >>}
    /\ DOMAIN holds = DOMAIN segment
    /\ \A x \in DOMAIN segment : DOMAIN holds[x] \subseteq Keys
    /\ reopened \subseteq DOMAIN segment
    /\ unreadable \in BOOLEAN
    /\ pc = "idle" => merged = Blank(MergeBits)
    /\ pc = "merge" => DOMAIN segment = Sources

FileInv ==
    /\ FileShape
    /\ \A x \in DOMAIN segment : \E es, off : Kept(x, es, off)
    /\ pc = "merge" => \E es, off, n, ms, mo : Merges(es, off, n, ms, mo)

----------------------------------------------------------------------------
(* What follows from the invariant *)

LEMMA KeepsSegment ==
    ASSUME NEW s, NEW es, NEW off, Keeps(s, es, off), Before(s.index, es, off)
    PROVE  IsSegment(s)
<1>1. IsFile(s.bytes, es, off) /\ IsFilter(s.bloom)
  BY DEF Keeps
<1>2. /\ s.bytes \in Strings /\ Len(s.bytes) \in Nat
      /\ es \in Seq(Pairs) /\ Len(es) \in Nat
      /\ \A i \in 1..Len(es) + 1 : off[i] \in 0..Len(s.bytes)
  BY <1>1, FileIs
<1>3. ASSUME NEW k \in DOMAIN s.index PROVE k \in Keys /\ s.index[k] \in 0..Len(s.bytes)
  <2>1. PICK i \in 1..Len(es) : es[i].key = k /\ s.index[k] \in 0..off[i]
    BY DEF Before
  <2>2. es[i].key \in Keys /\ i \in 1..Len(es) + 1
    <3>1. i \in 1..Len(es) + 1
      BY <1>2
    <3>2. es[i].key \in Keys
      BY <1>2, KeyIs
    <3> QED BY <3>1, <3>2
  <2>3. off[i] \in 0..Len(s.bytes)
    BY <1>2, <2>2
  <2> QED BY <1>2, <2>1, <2>2, <2>3
<1> QED BY <1>1, <1>2, <1>3 DEF IsSegment, IsFilter, Strings

LEMMA ExactBefore ==
    ASSUME NEW s, NEW es, NEW off, Keeps(s, es, off), Exact(s.index, es, off)
    PROVE  Before(s.index, es, off)
<1>1. IsFile(s.bytes, es, off)
  BY DEF Keeps
<1>2. Len(es) \in Nat /\ Len(s.bytes) \in Nat /\ \A i \in 1..Len(es) + 1 : off[i] \in 0..Len(s.bytes)
  BY <1>1, FileIs
<1>3. \A i \in 1..Len(es) : off[i] \in 0..off[i]
  <2>1. TAKE i \in 1..Len(es)
  <2>2. i \in 1..Len(es) + 1
    BY <1>2
  <2>3. off[i] \in 0..Len(s.bytes)
    BY <1>2, <2>2
  <2> QED BY <1>2, <2>3
<1> QED BY <1>3 DEF Exact, Before

LEMMA WritesSegment ==
    ASSUME NEW s, NEW es, NEW off, Writes(s, es, off)
    PROVE  IsSegment(s)
<1>1. Keeps(s, es, off) /\ Exact(s.index, es, off)
  BY DEF Writes
<1> QED BY <1>1, ExactBefore, KeepsSegment

LEMMA InvType ==
    ASSUME FileInv
    PROVE  FileTypeOK
<1>1. FileShape
  BY DEF FileInv
<1>2. \A x \in DOMAIN segment : IsSegment(segment[x])
  <2>1. TAKE x \in DOMAIN segment
  <2>2. PICK es, off : Kept(x, es, off)
    BY DEF FileInv
  <2>3. Keeps(segment[x], es, off) /\ Before(segment[x].index, es, off)
    BY <2>2 DEF Kept
  <2> QED BY <2>3, KeepsSegment
<1>3. PICK ms, mo : Writes(merged, ms, mo)
  <2>1. CASE pc = "idle"
    <3>1. merged = Blank(MergeBits) /\ MergeBits \in Nat \ {0}
      BY <1>1, <2>1, FileAssumption DEF FileShape
    <3> QED BY <3>1, BlankIs
  <2>2. CASE pc = "merge"
    <3>1. PICK es, off, n, ms, mo : Merges(es, off, n, ms, mo)
      BY <2>2 DEF FileInv
    <3> QED BY <3>1 DEF Merges
  <2> QED BY <1>1, <2>1, <2>2 DEF FileShape
<1>4. IsSegment(merged)
  BY <1>3, WritesSegment
<1>5. merged.sparsity_i \in 0..SPARSITY_FACTOR /\ merged.pos = Len(merged.bytes)
  BY <1>3 DEF Writes
<1> QED BY <1>1, <1>2, <1>4, <1>5 DEF FileTypeOK, FileShape

LEMMA InvSearch ==
    ASSUME FileInv
    PROVE  SearchFindsAll
<1>1. SUFFICES ASSUME pc = "idle", ~unreadable,
                      NEW x \in DOMAIN segment, NEW k \in Keys \ {<< >>}, x \notin reopened
               PROVE  Search(segment[x], k) = Held(x, k)
  BY DEF SearchFindsAll
<1>2. PICK es, off : Kept(x, es, off)
  BY DEF FileInv
<1>3. /\ Keeps(segment[x], es, off) /\ Exact(segment[x].index, es, off) /\ Readable(es, holds[x])
  BY <1>1, <1>2 DEF Kept
<1>4. /\ IsFile(segment[x].bytes, es, off) /\ Sorted(es)
      /\ \A i \in 1..Len(es) : IsSetIn(segment[x].bloom, es[i].key)
  BY <1>3 DEF Keeps, SaysYesOf, KeysOf
<1>5. /\ \A j \in 1..Len(es) : es[j].key = k => Search(segment[x], k) = es[j].val
      /\ (\A j \in 1..Len(es) : es[j].key # k) => Search(segment[x], k) = None
  BY <1>3, <1>4, SearchIs
<1>6. CASE k \in DOMAIN holds[x]
  <2>1. PICK i \in 1..Len(es) : es[i].key = k
    BY <1>3, <1>6 DEF Readable
  <2>2. es[i].val = holds[x][k]
    BY <1>3, <2>1 DEF Readable
  <2> QED BY <1>5, <1>6, <2>1, <2>2 DEF Held
<1>7. CASE k \notin DOMAIN holds[x]
  <2>1. \A j \in 1..Len(es) : es[j].key # k
    BY <1>3, <1>7 DEF Readable
  <2> QED BY <1>5, <1>7, <2>1 DEF Held
<1> QED BY <1>6, <1>7

LEMMA InvMerged ==
    ASSUME FileInv
    PROVE  MergedSoFar
<1> DEFINE done == {k \in DOMAIN Both \ {<< >>} : Leq(k, last_key)}
           lines == Lines(merged.bytes)
<1>1. SUFFICES ASSUME pc = "merge", ~unreadable
               PROVE  [i \in DOMAIN lines |-> Split(lines[i])] = Entries([k \in done |-> Both[k]])
  BY DEF MergedSoFar
<1>2. PICK es, off, n, ms, mo : Merges(es, off, n, ms, mo)
  BY <1>1 DEF FileInv
<1>3. Writes(merged, ms, mo) /\ Upto(es, n, ms)
  BY <1>1, <1>2 DEF Merges
<1>a. \A i \in 1..Len(ms) : Leq(ms[i].key, last_key) /\ ms[i].key # << >>
  BY <1>2 DEF Merges
<1>4. IsFile(merged.bytes, ms, mo) /\ Sorted(ms)
  BY <1>3 DEF Writes, Keeps
<1>5. ms \in Seq(Pairs) /\ [i \in DOMAIN lines |-> Split(lines[i])] = ms
  BY <1>4, FileIs
<1> PICK f : f = [k \in done |-> Both[k]]
  OBVIOUS
<1>6. DOMAIN f = done /\ \A k \in done : f[k] = Both[k]
  OBVIOUS
<1>7. \A i \in 1..Len(ms) : ms[i].key \in done /\ ms[i].val = f[ms[i].key]
  <2>1. \A i \in 1..Len(ms) : ms[i].key \in DOMAIN Both /\ ms[i].val = Both[ms[i].key]
    BY <1>3 DEF Upto
  <2>2. \A i \in 1..Len(ms) : ms[i].key \in done
    BY <1>a, <2>1
  <2> HIDE DEF done
  <2> QED BY <1>6, <2>1, <2>2
<1>8. \A k \in done : \E i \in 1..Len(ms) : ms[i].key = k
  <2>1. \A k \in DOMAIN Both : k # << >> /\ Leq(k, last_key) => \E i \in 1..Len(ms) : ms[i].key = k
    BY <1>3 DEF Upto
  <2> QED BY <2>1
<1>9. Lists(ms, f)
  <2> HIDE DEF done
  <2> QED BY <1>4, <1>6, <1>7, <1>8 DEF Lists
<1>10. Entries(f) = ms
  BY <1>5, <1>9, EntriesAre
<1> HIDE DEF done, lines
<1> QED BY <1>5, <1>10

LEMMA InvIndex ==
    ASSUME FileInv
    PROVE  IndexNotPast
<1>1. SUFFICES ASSUME NEW x \in DOMAIN segment, NEW k \in DOMAIN segment[x].index
               PROVE  LET s == segment[x]
                          ahead == Lines(SubSeq(s.bytes, s.index[k] + 1, Len(s.bytes)))
                      IN  \E i \in DOMAIN ahead : Split(ahead[i]).key = k
  BY DEF IndexNotPast
<1>2. PICK es, off : Kept(x, es, off)
  BY DEF FileInv
<1>3. Keeps(segment[x], es, off) /\ Before(segment[x].index, es, off)
  BY <1>2 DEF Kept
<1>4. IsFile(segment[x].bytes, es, off)
  BY <1>3 DEF Keeps
<1>5. PICK i \in 1..Len(es) : es[i].key = k /\ segment[x].index[k] \in 0..off[i]
  BY <1>3 DEF Before
<1> PICK b, p, ahead : b = segment[x].bytes /\ p = segment[x].index[k] /\ ahead = Lines(From(b, p))
  OBVIOUS
<1>6. \E j \in DOMAIN ahead : Split(ahead[j]).key = es[i].key
  BY <1>4, <1>5, StillAhead
<1>7. ahead = Lines(SubSeq(segment[x].bytes, segment[x].index[k] + 1, Len(segment[x].bytes)))
  BY DEF From
<1> QED BY <1>5, <1>6, <1>7

----------------------------------------------------------------------------
(* Reading in a merge *)

LEMMA RefilledIs ==
    ASSUME NEW b, NEW es, NEW off, IsFile(b, es, off), NEW n \in 1..Len(es) + 1,
           NEW r, r.line = << >>, r.end = FALSE, r.rest = From(b, off[n])
    PROVE  ReaderAt(Refilled(r), b, es, off, n)
<1> PICK y, rest : y = Refilled(r) /\ rest = r.rest
  OBVIOUS
<1>1. Len(es) \in Nat /\ es \in Seq(Pairs) /\ off[Len(es) + 1] = Len(b) /\ b \in Seq(Nat)
  BY FileIs DEF Strings
<1>2. y = [rest |-> Left(rest), line |-> Got(rest), end |-> Got(rest) = << >>, kv |-> Split(Got(rest))]
  BY DEF Refilled
<1>3. CASE n <= Len(es)
  <2>1. n \in 1..Len(es)
    BY <1>1, <1>3
  <2> PICK ls, t : ls = Bodies(es) /\ t = ls[n]
    OBVIOUS
  <2>2. IsLines(b, ls, off) /\ Len(ls) = Len(es) /\ t = Body(es[n]) /\ es[n] \in Pairs /\ t \in Texts
    BY <1>1, <2>1, BodiesAre, BodyIs DEF IsFile
  <2>3. off[n] \in Nat
    BY <2>1, <2>2, LineIs
  <2>4. 0 \in 0..Len(t) /\ t = From(t, 0) /\ off[n] + 0 = off[n]
    <3>1. t \in Seq(Nat \ {NEWLINE}) /\ 0 \in 0..Len(t)
      BY <2>2, TextsAre DEF Texts
    <3>2. From(t, 0) = t
      BY <3>1, FromIs
    <3> QED BY <2>3, <3>1, <3>2
  <2>5. Got(rest) = t /\ Left(rest) = From(b, off[n + 1])
    <3>1. n \in 1..Len(ls) /\ 0 \in 0..Len(ls[n]) /\ rest = From(b, off[n] + 0) /\ t = From(ls[n], 0)
      BY <2>1, <2>2, <2>4
    <3> QED BY <2>2, <3>1, LineFrom
  <2>6. Split(t) = es[n] /\ t # << >>
    BY <2>2, BodyIs
  <2>7. y = [rest |-> From(b, off[n + 1]), line |-> t, end |-> FALSE, kv |-> es[n]]
    BY <1>2, <2>5, <2>6
  <2>8. n # Len(es) + 1
    BY <1>1, <2>1
  <2> QED BY <2>2, <2>7, <2>8 DEF ReaderAt
<1>4. CASE n = Len(es) + 1
  <2>1. rest = << >>
    BY <1>1, <1>4, FromStep
  <2>2. << >> \in Strings /\ Len(<< >>) = 0 /\ << >> \in Seq(Nat)
    BY EmptySeq DEF Strings
  <2>3. FirstOf(NEWLINE, << >>) = 1 /\ FirstOf(SEPERATOR, << >>) = 1
    <3>1. \A c : FirstOf(c, << >>) \in 1..0 + 1
      BY <2>2, FirstType
    <3> QED BY <3>1
  <2>4. SubSeq(<< >>, 1, 0) = << >> /\ SubSeq(<< >>, 2, 0) = << >>
    BY <2>2, SubSeqEmpty
  <2>5. Got(<< >>) = << >> /\ Left(<< >>) = << >>
    <3>1. 1 - 1 = 0 /\ 1 + 1 = 2
      OBVIOUS
    <3> QED BY <2>2, <2>3, <2>4, <3>1 DEF Got, Left
  <2>6. Split(<< >>) = [key |-> << >>, val |-> << >>]
    <3>1. 1 - 1 = 0 /\ 1 > 0
      OBVIOUS
    <3> QED BY <2>2, <2>3, <2>4, <3>1 DEF Split
  <2>7. y = [rest |-> << >>, line |-> << >>, end |-> TRUE, kv |-> [key |-> << >>, val |-> << >>]]
    BY <1>2, <2>1, <2>5, <2>6
  <2>8. ~(n <= Len(es))
    BY <1>1, <1>4
  <2> QED BY <1>4, <2>7, <2>8 DEF ReaderAt
<1> QED BY <1>1, <1>3, <1>4

\* The line was used: the next one is read.
LEMMA UsedIs ==
    ASSUME NEW b, NEW es, NEW off, IsFile(b, es, off), NEW n \in 1..Len(es),
           NEW r, ReaderAt(r, b, es, off, n)
    PROVE  ReaderAt(Used(r), b, es, off, n + 1)
<1>1. Len(es) \in Nat
  BY FileIs
<1>2. n <= Len(es) /\ n + 1 \in 1..Len(es) + 1
  BY <1>1
<1> PICK R, l, kv : R = From(b, off[n + 1]) /\ l = Body(es[n]) /\ kv = es[n]
  OBVIOUS
<1>3. r = [rest |-> R, line |-> l, end |-> FALSE, kv |-> kv]
  BY <1>2 DEF ReaderAt
<1> PICK q : q = [r EXCEPT !.line = << >>]
  OBVIOUS
<1>4. q.line = << >> /\ q.end = FALSE /\ q.rest = R
  BY <1>3
<1>5. ReaderAt(Refilled(q), b, es, off, n + 1)
  BY <1>2, <1>4, RefilledIs
<1> QED BY <1>5 DEF Used

----------------------------------------------------------------------------
(* The steps *)

LEMMA InvInit == Init => FileInv
<1> SUFFICES ASSUME Init PROVE FileInv
  OBVIOUS
<1>1. /\ segment = << >> /\ holds = << >> /\ pc = "idle" /\ last_key = << >> /\ reopened = {}
      /\ unreadable = FALSE /\ merged = Blank(MergeBits) /\ reader = [x \in Sources |-> Nowhere]
  BY DEF Init
<1>2. DOMAIN segment = {} /\ DOMAIN holds = {} /\ segment = [x \in DOMAIN segment |-> segment[x]]
      /\ reader = [x \in Sources |-> reader[x]]
  BY <1>1
<1>3. FileShape
  BY <1>1, <1>2 DEF FileShape
<1> QED BY <1>1, <1>2, <1>3 DEF FileInv

LEMMA InvFlush ==
    ASSUME FileInv, NEW map \in Memtables, Flush(map)
    PROVE  FileInv'
<1>1. /\ pc = "idle" /\ "a" \notin DOMAIN segment
      /\ unreadable' = (unreadable \/ \E i \in DOMAIN Entries(map) : Empty(Entries(map)[i]))
      /\ pc' = pc /\ last_key' = last_key /\ merged' = merged /\ reopened' = reopened /\ reader' = reader
  BY DEF Flush
<1>2. PICK x : x = IF "b" \in DOMAIN segment THEN "a" ELSE "b"
  OBVIOUS
<1>3. segment' = With(segment, x, Created(map)) /\ holds' = With(holds, x, map)
  BY <1>2 DEF Flush
<1>4. FileShape /\ \A z \in DOMAIN segment : \E es, off : Kept(z, es, off)
  BY DEF FileInv
<1>5. x \in Sources /\ x \notin DOMAIN segment
  BY <1>1, <1>2 DEF Sources
<1>6. PICK K \in SUBSET Keys : IsFiniteSet(K) /\ map \in [K -> Values]
  BY DEF Memtables
<1>7. PICK es \in Seq(Pairs) : Lists(es, map)
  BY <1>6, HasLists
<1>8. Entries(map) = es
  BY <1>7, EntriesAre
<1>9. PICK off : Keeps(Created(map), es, off) /\ Exact(Created(map).index, es, off)
  BY <1>7, CreatedIs
<1>10. /\ DOMAIN segment' = DOMAIN segment \cup {x} /\ DOMAIN holds' = DOMAIN segment \cup {x}
       /\ segment'[x] = Created(map) /\ holds'[x] = map
       /\ \A z \in DOMAIN segment : segment'[z] = segment[z] /\ holds'[z] = holds[z]
       /\ segment' = [z \in DOMAIN segment' |-> segment'[z]]
  <2>1. DOMAIN holds = DOMAIN segment
    BY <1>4 DEF FileShape
  <2> QED BY <1>3, <1>5, <2>1 DEF With
<1>11. unreadable' \in BOOLEAN /\ (~unreadable' => ~unreadable /\ \A i \in 1..Len(es) : ~Empty(es[i]))
  <2>1. unreadable \in BOOLEAN
    BY <1>4 DEF FileShape
  <2>2. DOMAIN es = 1..Len(es)
    BY SeqFacts
  <2> QED BY <1>1, <1>8, <2>1, <2>2
<1>12. FileShape'
  <2>1. DOMAIN map \subseteq Keys
    BY <1>6
  <2>2. /\ DOMAIN segment \subseteq Sources /\ pc \in {"idle", "merge"} /\ last_key \in Keys \cup {<< >>}
        /\ \A z \in DOMAIN segment : DOMAIN holds[z] \subseteq Keys
        /\ reopened \subseteq DOMAIN segment /\ merged = Blank(MergeBits)
        /\ reader' = [z \in Sources |-> reader'[z]]
    BY <1>1, <1>4 DEF FileShape
  <2>3. \A z \in DOMAIN segment' : DOMAIN holds'[z] \subseteq Keys
    BY <1>10, <2>1, <2>2
  <2>4. DOMAIN segment' \subseteq Sources /\ reopened' \subseteq DOMAIN segment' /\ DOMAIN holds' = DOMAIN segment'
    BY <1>1, <1>5, <1>10, <2>2
  <2>5. pc' = "idle" /\ pc' # "merge" /\ merged' = Blank(MergeBits) /\ last_key' \in Keys \cup {<< >>}
    BY <1>1, <2>2
  <2> QED BY <1>10, <1>11, <2>2, <2>3, <2>4, <2>5 DEF FileShape
<1>13. ASSUME NEW z \in DOMAIN segment' PROVE \E es2, off2 : Kept(z, es2, off2)'
  <2>1. CASE z = x
    <3>1. Before(Created(map).index, es, off)
      BY <1>9, ExactBefore
    <3>2. ~unreadable' => Readable(es, map)
      BY <1>7, <1>11 DEF Lists, Readable
    <3>3. Kept(x, es, off)'
      BY <1>9, <1>10, <3>1, <3>2 DEF Kept
    <3> QED BY <2>1, <3>3
  <2>2. CASE z # x
    <3>1. z \in DOMAIN segment /\ segment'[z] = segment[z] /\ holds'[z] = holds[z]
      BY <1>10, <2>2
    <3>2. PICK es2, off2 : Kept(z, es2, off2)
      BY <1>4, <3>1
    <3>3. Kept(z, es2, off2)'
      BY <1>1, <1>11, <3>1, <3>2 DEF Kept
    <3> QED BY <3>3
  <2> QED BY <2>1, <2>2
<1>14. pc' # "merge"
  BY <1>1
<1> QED BY <1>12, <1>13, <1>14 DEF FileInv

LEMMA InvRestart ==
    ASSUME FileInv, Restart
    PROVE  FileInv'
<1>1. /\ pc = "idle"
      /\ segment' = [x \in DOMAIN segment |-> Reopened(segment[x])]
      /\ reopened' = {x \in DOMAIN segment : segment'[x].index # << >>}
      /\ pc' = pc /\ last_key' = last_key /\ merged' = merged /\ holds' = holds /\ unreadable' = unreadable
      /\ reader' = reader
  BY DEF Restart
<1>2. FileShape /\ \A z \in DOMAIN segment : \E es, off : Kept(z, es, off)
  BY DEF FileInv
<1>3. /\ DOMAIN segment' = DOMAIN segment
      /\ \A z \in DOMAIN segment : segment'[z] = Reopened(segment[z])
      /\ segment' = [z \in DOMAIN segment' |-> segment'[z]]
      /\ reopened' \subseteq DOMAIN segment'
      /\ \A z \in DOMAIN segment : z \notin reopened' => segment'[z].index = << >>
  BY <1>1
<1>4. FileShape'
  BY <1>1, <1>2, <1>3 DEF FileShape
<1>5. ASSUME NEW z \in DOMAIN segment' PROVE \E es, off : Kept(z, es, off)'
  <2>1. PICK es, off : Kept(z, es, off)
    BY <1>2, <1>3
  <2>2. Keeps(segment[z], es, off) /\ (~unreadable => Readable(es, holds[z]))
    BY <2>1 DEF Kept
  <2>3. Keeps(segment'[z], es, off) /\ Before(segment'[z].index, es, off)
    BY <1>3, <2>2, ReopenedIs
  <2>4. z \notin reopened' => Exact(segment'[z].index, es, off)
    <3>1. z \notin reopened' => DOMAIN segment'[z].index = {}
      BY <1>3
    <3> QED BY <3>1 DEF Exact
  <2>5. Kept(z, es, off)'
    BY <1>1, <2>2, <2>3, <2>4 DEF Kept
  <2> QED BY <2>5
<1>6. pc' # "merge"
  BY <1>1
<1> QED BY <1>4, <1>5, <1>6 DEF FileInv

LEMMA InvMergeBegins ==
    ASSUME FileInv, MergeBegins
    PROVE  FileInv'
<1>1. /\ pc = "idle" /\ DOMAIN segment = Sources /\ pc' = "merge"
      /\ reader' = [x \in Sources |-> Refilled([Nowhere EXCEPT !.rest = segment[x].bytes])]
      /\ last_key' = << >> /\ merged' = Blank(MergeBits)
      /\ segment' = segment /\ holds' = holds /\ reopened' = reopened /\ unreadable' = unreadable
  BY DEF MergeBegins, auxVars
<1>2. FileShape /\ \A z \in DOMAIN segment : \E es, off : Kept(z, es, off)
  BY DEF FileInv
<1>3. FileShape'
  <2>1. reader' = [x \in Sources |-> reader'[x]]
    BY <1>1
  <2> QED BY <1>1, <1>2, <2>1 DEF FileShape
<1>4. \A z \in DOMAIN segment' : \E es, off : Kept(z, es, off)'
  <2>1. TAKE z \in DOMAIN segment'
  <2>2. PICK es, off : Kept(z, es, off)
    BY <1>1, <1>2
  <2>3. Kept(z, es, off)'
    BY <1>1, <2>2 DEF Kept
  <2> QED BY <2>3
<1>5. PICK ea, oa, eb, ob : Kept("a", ea, oa)' /\ Kept("b", eb, ob)'
  <2>1. "a" \in DOMAIN segment' /\ "b" \in DOMAIN segment'
    BY <1>1 DEF Sources
  <2> QED BY <1>4, <2>1
<1> PICK es, off, n : /\ es = [x \in Sources |-> IF x = "a" THEN ea ELSE eb]
                      /\ off = [x \in Sources |-> IF x = "a" THEN oa ELSE ob]
                      /\ n = [x \in Sources |-> 1]
  OBVIOUS
<1>6. ASSUME NEW x \in Sources PROVE Kept(x, es[x], off[x])'
  <2>1. x = "a" \/ x = "b"
    BY DEF Sources
  <2>2. "a" # "b" /\ "a" \in Sources /\ "b" \in Sources
    BY DEF Sources
  <2>3. es["a"] = ea /\ off["a"] = oa /\ es["b"] = eb /\ off["b"] = ob
    BY <2>2
  <2> QED BY <1>5, <2>1, <2>3
<1>7. ASSUME NEW x \in Sources
      PROVE  /\ ReaderAt(reader'[x], segment'[x].bytes, es[x], off[x], n[x])
             /\ ~Empty(reader'[x].kv) => reader'[x].kv.key \in Keys
  <2> PICK b, r, e, o : /\ b = segment'[x].bytes /\ r = [Nowhere EXCEPT !.rest = segment[x].bytes]
                        /\ e = es[x] /\ o = off[x]
    OBVIOUS
  <2>1. IsFile(b, e, o)
    BY <1>6 DEF Kept, Keeps
  <2>2. b \in Seq(Nat) /\ Len(e) \in Nat /\ o[1] = 0 /\ Len(b) \in Nat
    BY <2>1, FileIs DEF Strings
  <2>3. r.line = << >> /\ r.end = FALSE /\ r.rest = b
    BY <1>1 DEF Nowhere
  <2>4. From(b, o[1]) = b /\ 1 \in 1..Len(e) + 1
    <3>1. 0 \in 0..Len(b)
      BY <2>2
    <3> QED BY <2>2, <3>1, FromIs
  <2>5. ReaderAt(Refilled(r), b, e, o, 1)
    BY <2>1, <2>3, <2>4, RefilledIs
  <2>6. reader'[x] = Refilled(r) /\ n[x] = 1
    BY <1>1
  <2>7. ~Empty(Refilled(r).kv) => Refilled(r).kv.key \in Keys
    <3>1. CASE 1 <= Len(e)
      <4>1. Refilled(r).kv = e[1] /\ 1 \in 1..Len(e)
        BY <2>2, <2>5, <3>1 DEF ReaderAt
      <4>2. e \in Seq(Pairs)
        BY <2>1, FileIs
      <4> QED BY <4>1, <4>2, KeyIs
    <3>2. CASE ~(1 <= Len(e))
      <4>1. Refilled(r).kv = [key |-> << >>, val |-> << >>]
        BY <2>2, <2>5, <3>2 DEF ReaderAt
      <4> QED BY <4>1 DEF Empty
    <3> QED BY <3>1, <3>2
  <2> QED BY <2>5, <2>6, <2>7
<1>8. Ahead'
  <2>1. \A k \in Keys : Leq(<< >>, k) /\ (Less(<< >>, k) \/ k = << >>)
    BY OrderIs DEF Leq
  <2>2. "a" \in Sources
    BY DEF Sources
  <2> QED BY <1>1, <1>7, <2>1, <2>2 DEF Ahead
<1> PICK mo : mo = [i \in {1} |-> 0]
  OBVIOUS
<1>9. Writes(merged', << >>, mo)
  BY <1>1, BlankIs, FileAssumption
<1>10. Len(<< >>) = 0 /\ 1..0 = {}
  OBVIOUS
<1>11. ~unreadable' => Upto(es, n, << >>)'
  <2>1. \A x \in Sources : 1..n[x] - 1 = {}
    OBVIOUS
  <2>2. ASSUME ~unreadable, NEW k \in DOMAIN Both', k # << >>, Leq(k, << >>) PROVE FALSE
    <3>1. Both' = Both /\ "a" \in Sources /\ "b" \in Sources
      BY <1>1 DEF Both, Sources
    <3>2. DOMAIN Both = DOMAIN holds["a"] \cup DOMAIN holds["b"]
      BY DEF Both
    <3>3. k \in Keys
      BY <1>1, <1>2, <2>2, <3>1, <3>2 DEF FileShape
    <3>4. ~Less(k, << >>)
      BY <3>3, OrderIs
    <3> QED BY <2>2, <3>4 DEF Leq
  <2> QED BY <1>1, <1>10, <2>1, <2>2 DEF Upto
<1>12. Merges(es, off, n, << >>, mo)'
  BY <1>6, <1>7, <1>8, <1>9, <1>10, <1>11 DEF Merges
<1> QED BY <1>3, <1>4, <1>12 DEF FileInv

\* What the turns of a merge share: x gives the next entry e, y is the other file.
LEMMA NextIs ==
    ASSUME NEW es, NEW off, NEW n, NEW ms, NEW mo, Merges(es, off, n, ms, mo),
           \E x \in Sources : ~Empty(reader[x].kv)
    PROVE  /\ NextFrom \in Sources /\ n[NextFrom] \in 1..Len(es[NextFrom])
           /\ reader[NextFrom].kv = es[NextFrom][n[NextFrom]] /\ ~Empty(reader[NextFrom].kv)
           /\ NextFrom = "a" => Empty(reader["b"].kv) \/ Leq(reader["a"].kv.key, reader["b"].kv.key)
           /\ NextFrom = "b" => Empty(reader["a"].kv) \/ ~Leq(reader["a"].kv.key, reader["b"].kv.key)
           /\ \A x \in Sources : /\ IsFile(segment[x].bytes, es[x], off[x])
                                 /\ es[x] \in Seq(Pairs) /\ Len(es[x]) \in Nat /\ Sorted(es[x])
                                 /\ n[x] \in 1..Len(es[x]) + 1
                                 /\ ~Empty(reader[x].kv) =>
                                       n[x] \in 1..Len(es[x]) /\ reader[x].kv = es[x][n[x]]
<1>1. Sources = {"a", "b"} /\ "a" # "b"
  BY DEF Sources
<1>2. NextFrom = IF ~Empty(reader["a"].kv) /\ (Empty(reader["b"].kv) \/ Leq(reader["a"].kv.key, reader["b"].kv.key))
                 THEN "a" ELSE "b"
  BY DEF NextFrom
<1>3. /\ NextFrom \in Sources /\ ~Empty(reader[NextFrom].kv)
      /\ NextFrom = "a" => Empty(reader["b"].kv) \/ Leq(reader["a"].kv.key, reader["b"].kv.key)
      /\ NextFrom = "b" => Empty(reader["a"].kv) \/ ~Leq(reader["a"].kv.key, reader["b"].kv.key)
  <2>1. ~Empty(reader["a"].kv) \/ ~Empty(reader["b"].kv)
    BY <1>1
  <2>2. CASE ~Empty(reader["a"].kv) /\ (Empty(reader["b"].kv) \/ Leq(reader["a"].kv.key, reader["b"].kv.key))
    <3>1. NextFrom = "a"
      BY <1>2, <2>2
    <3> QED BY <1>1, <2>2, <3>1
  <2>3. CASE ~(~Empty(reader["a"].kv) /\ (Empty(reader["b"].kv) \/ Leq(reader["a"].kv.key, reader["b"].kv.key)))
    <3>1. NextFrom = "b"
      BY <1>2, <2>3
    <3> QED BY <1>1, <2>1, <2>3, <3>1
  <2> QED BY <2>2, <2>3
<1>4. ASSUME NEW x \in Sources
      PROVE  /\ IsFile(segment[x].bytes, es[x], off[x])
             /\ es[x] \in Seq(Pairs) /\ Len(es[x]) \in Nat /\ Sorted(es[x])
             /\ n[x] \in 1..Len(es[x]) + 1
             /\ ~Empty(reader[x].kv) =>
                   n[x] \in 1..Len(es[x]) /\ reader[x].kv = es[x][n[x]]
  <2>1. Kept(x, es[x], off[x]) /\ ReaderAt(reader[x], segment[x].bytes, es[x], off[x], n[x])
    BY DEF Merges
  <2>2. IsFile(segment[x].bytes, es[x], off[x]) /\ Sorted(es[x])
    BY <2>1 DEF Kept, Keeps
  <2>3. es[x] \in Seq(Pairs) /\ Len(es[x]) \in Nat
    BY <2>2, FileIs
  <2>4. n[x] \in 1..Len(es[x]) + 1
    BY <2>1 DEF ReaderAt
  <2>5. ASSUME ~Empty(reader[x].kv) PROVE n[x] \in 1..Len(es[x]) /\ reader[x].kv = es[x][n[x]]
    <3>1. n[x] # Len(es[x]) + 1
      <4>1. SUFFICES ASSUME n[x] = Len(es[x]) + 1 PROVE FALSE
        OBVIOUS
      <4>2. reader[x].kv = [key |-> << >>, val |-> << >>]
        BY <2>1, <4>1 DEF ReaderAt
      <4> QED BY <2>5, <4>2 DEF Empty
    <3>2. n[x] \in 1..Len(es[x]) /\ n[x] <= Len(es[x])
      BY <2>3, <2>4, <3>1
    <3>3. reader[x].kv = es[x][n[x]]
      BY <2>1, <3>2 DEF ReaderAt
    <3> QED BY <3>2, <3>3
  <2> QED BY <2>2, <2>3, <2>4, <2>5
<1> QED BY <1>3, <1>4

\* The turn writes the line, or drops it.
LEMMA TurnWrites ==
    ASSUME NEW es, NEW off, NEW n, NEW ms, NEW mo, Merges(es, off, n, ms, mo),
           NEW e \in Pairs, last_key \in Keys \cup {<< >>}, Leq(last_key, e.key),
           last_key' = e.key, merged' = IF e.key = last_key THEN merged ELSE Added(merged, e)
    PROVE  \E ms2, mo2 :
               /\ Writes(merged', ms2, mo2)
               /\ \A i \in 1..Len(ms2) : Leq(ms2[i].key, last_key') /\ ms2[i].key # << >>
               /\ Len(ms) \in Nat
               /\ e.key = last_key => ms2 = ms
               /\ e.key # last_key => /\ Len(ms2) = Len(ms) + 1 /\ ms2[Len(ms) + 1] = e
                                      /\ \A i \in 1..Len(ms) : ms2[i] = ms[i]
<1>1. Writes(merged, ms, mo) /\ \A i \in 1..Len(ms) : Leq(ms[i].key, last_key) /\ ms[i].key # << >>
  BY DEF Merges
<1>2. IsFile(merged.bytes, ms, mo) /\ Sorted(ms)
  BY <1>1 DEF Writes, Keeps
<1>3. ms \in Seq(Pairs) /\ Len(ms) \in Nat
  BY <1>2, FileIs
<1>4. e.key \in Keys
  BY DEF Pairs
<1>5. CASE e.key = last_key
  BY <1>1, <1>3, <1>5
<1>6. CASE e.key # last_key
  <2>1. Less(last_key, e.key) /\ e.key # << >> /\ Leq(e.key, e.key)
    BY <1>4, <1>6, OrderIs DEF Leq
  <2>2. \A i \in 1..Len(ms) : ms[i].key \in Keys
    BY <1>3, KeyIs
  <2>3. \A i \in 1..Len(ms) : Less(ms[i].key, e.key) /\ Leq(ms[i].key, e.key)
    <3>1. TAKE i \in 1..Len(ms)
    <3>2. ms[i].key \in Keys /\ Leq(ms[i].key, last_key)
      BY <1>1, <2>2
    <3>3. Less(ms[i].key, e.key)
      BY <1>4, <2>1, <3>2, OrderIs
    <3> QED BY <3>3 DEF Leq
  <2> PICK ms2, mo2 : /\ ms2 = Append(ms, e)
                      /\ mo2 = Further(mo, Len(ms), Len(merged.bytes) + Len(Line(e)))
    OBVIOUS
  <2>4. Writes(merged', ms2, mo2)
    BY <1>1, <1>6, <2>3, AddedIs
  <2>5. /\ Len(ms2) = Len(ms) + 1 /\ ms2[Len(ms) + 1] = e
        /\ \A i \in 1..Len(ms) : ms2[i] = ms[i]
    BY <1>2, <1>3, <2>3, SortedAppend
  <2>6. \A i \in 1..Len(ms2) : Leq(ms2[i].key, last_key') /\ ms2[i].key # << >>
    <3>1. TAKE i \in 1..Len(ms2)
    <3>2. i \in 1..Len(ms) \/ i = Len(ms) + 1
      BY <1>3, <2>5
    <3>3. CASE i \in 1..Len(ms)
      BY <1>1, <2>3, <2>5, <3>3
    <3>4. CASE i = Len(ms) + 1
      BY <2>1, <2>5, <3>4
    <3> QED BY <3>2, <3>3, <3>4
  <2> QED BY <1>3, <1>6, <2>4, <2>5, <2>6
<1> QED BY <1>5, <1>6

\* An entry behind the last key was not read past: its file has a line, not behind it.
LEMMA NotYet ==
    ASSUME NEW es, NEW off, NEW n, NEW ms, NEW mo, Merges(es, off, n, ms, mo), ~unreadable,
           last_key \in Keys \cup {<< >>},
           NEW z \in Sources, NEW j \in 1..Len(es[z]), ~Leq(es[z][j].key, last_key)
    PROVE  ~Empty(reader[z].kv) /\ reader[z].kv.key \in Keys /\ Leq(reader[z].kv.key, es[z][j].key)
<1>1. /\ Kept(z, es[z], off[z]) /\ ReaderAt(reader[z], segment[z].bytes, es[z], off[z], n[z])
      /\ Upto(es, n, ms)
  BY DEF Merges
<1>2. IsFile(segment[z].bytes, es[z], off[z]) /\ Sorted(es[z]) /\ \A i \in 1..Len(es[z]) : ~Empty(es[z][i])
  BY <1>1 DEF Kept, Keeps, Readable
<1>3. es[z] \in Seq(Pairs) /\ Len(es[z]) \in Nat
  BY <1>2, FileIs
<1>4. n[z] \in 1..Len(es[z]) + 1 /\ \A i \in 1..n[z] - 1 : Leq(es[z][i].key, last_key)
  BY <1>1 DEF ReaderAt, Upto
<1>5. n[z] <= j /\ n[z] \in 1..Len(es[z]) /\ n[z] <= Len(es[z])
  <2>1. ~(j \in 1..n[z] - 1)
    BY <1>4
  <2> QED BY <1>3, <1>4, <2>1
<1>6. reader[z].kv = es[z][n[z]]
  BY <1>1, <1>5 DEF ReaderAt
<1>7. es[z][n[z]].key \in Keys /\ es[z][j].key \in Keys
  BY <1>3, <1>5, KeyIs
<1>8. Leq(es[z][n[z]].key, es[z][j].key)
  <2>1. CASE n[z] = j
    BY <2>1 DEF Leq
  <2>2. CASE n[z] < j
    BY <1>2, <1>5, <2>2 DEF Sorted, Leq
  <2> QED BY <1>3, <1>5, <2>1, <2>2
<1> QED BY <1>2, <1>5, <1>6, <1>7, <1>8

LEMMA InvMergeTurn ==
    ASSUME FileInv, MergeTurn
    PROVE  FileInv'
<1> PICK x, e : x = NextFrom /\ e = reader[NextFrom].kv
  OBVIOUS
<1>1. /\ pc = "merge" /\ pc' = pc /\ segment' = segment
      /\ holds' = holds /\ reopened' = reopened /\ unreadable' = unreadable
      /\ \E z \in Sources : ~Empty(reader[z].kv)
      /\ reader' = [reader EXCEPT ![x] = Used(@)]
      /\ last_key' = e.key
      /\ merged' = IF e.key = last_key THEN merged ELSE Added(merged, e)
  BY DEF MergeTurn, auxVars
<1>2. FileShape /\ \A z \in DOMAIN segment : \E es, off : Kept(z, es, off)
  BY DEF FileInv
<1>3. PICK es, off, n, ms, mo : Merges(es, off, n, ms, mo)
  BY <1>1 DEF FileInv
<1>4. /\ x \in Sources /\ n[x] \in 1..Len(es[x])
      /\ e = es[x][n[x]] /\ ~Empty(e)
      /\ x = "a" => Empty(reader["b"].kv) \/ Leq(reader["a"].kv.key, reader["b"].kv.key)
      /\ x = "b" => Empty(reader["a"].kv) \/ ~Leq(reader["a"].kv.key, reader["b"].kv.key)
  BY <1>1, <1>3, NextIs
<1>5. \A z \in Sources : /\ IsFile(segment[z].bytes, es[z], off[z])
                         /\ es[z] \in Seq(Pairs) /\ Len(es[z]) \in Nat /\ Sorted(es[z])
                         /\ n[z] \in 1..Len(es[z]) + 1
                         /\ ~Empty(reader[z].kv) =>
                               n[z] \in 1..Len(es[z]) /\ reader[z].kv = es[z][n[z]]
  BY <1>1, <1>3, NextIs
<1>6. /\ \A z \in Sources : Kept(z, es[z], off[z]) /\ ReaderAt(reader[z], segment[z].bytes, es[z], off[z], n[z])
      /\ Ahead /\ Writes(merged, ms, mo)
      /\ \A i \in 1..Len(ms) : Leq(ms[i].key, last_key) /\ ms[i].key # << >>
      /\ ~unreadable => Upto(es, n, ms)
  BY <1>3 DEF Merges
<1>7. e \in Pairs /\ e.key \in Keys /\ last_key \in Keys \cup {<< >>} /\ e = reader[x].kv
  <2>1. es[x] \in Seq(Pairs)
    BY <1>4, <1>5
  <2>2. e \in Pairs
    BY <1>4, <2>1, SeqFacts
  <2>3. last_key \in Keys \cup {<< >>}
    BY <1>2 DEF FileShape
  <2> QED BY <2>2, <2>3 DEF Pairs
<1>8. Leq(last_key, e.key)
  BY <1>4, <1>6, <1>7 DEF Ahead
<1>a. reader = [z \in Sources |-> reader[z]]
  BY <1>2 DEF FileShape
<1>9. FileShape'
  <2>1. reader' = [z \in Sources |-> reader'[z]]
    BY <1>1, <1>a
  <2> QED BY <1>1, <1>2, <1>7, <2>1 DEF FileShape
<1>10. \A z \in Sources : Kept(z, es[z], off[z])'
  BY <1>1, <1>6 DEF Kept
<1>11. \A z \in DOMAIN segment' : \E es2, off2 : Kept(z, es2, off2)'
  <2>1. DOMAIN segment' = Sources
    BY <1>1, <1>2 DEF FileShape
  <2> QED BY <1>10, <2>1
<1> PICK m : m = [z \in Sources |-> IF z = x THEN n[z] + 1 ELSE n[z]]
  OBVIOUS
<1>12. ASSUME NEW z \in Sources
       PROVE  /\ ReaderAt(reader'[z], segment'[z].bytes, es[z], off[z], m[z])
              /\ z # x => m[z] = n[z] /\ reader'[z] = reader[z]
              /\ z = x => m[z] = n[z] + 1
  <2>1. CASE z = x
    <3>1. m[z] = n[z] + 1
      BY <2>1
    <3>2. ReaderAt(Used(reader[z]), segment[z].bytes, es[z], off[z], n[z] + 1)
      BY <1>4, <1>5, <1>6, <2>1, UsedIs
    <3>3. reader'[z] = Used(reader[z])
      BY <1>1, <1>a, <2>1
    <3> QED BY <1>1, <2>1, <3>1, <3>2, <3>3
  <2>2. CASE z # x
    <3>1. m[z] = n[z] /\ reader'[z] = reader[z]
      BY <1>1, <1>a, <2>2
    <3> QED BY <1>1, <1>6, <2>2, <3>1
  <2> QED BY <2>1, <2>2
<1>b. ASSUME NEW z \in Sources, ~Empty(reader[z].kv)
      PROVE  /\ reader[z].kv.key \in Keys /\ Leq(e.key, reader[z].kv.key)
             /\ x = "b" /\ z = "a" => Less(e.key, reader[z].kv.key)
  <2>1. z \in {"a", "b"} /\ x \in {"a", "b"} /\ "a" # "b"
    BY <1>4 DEF Sources
  <2>2. n[z] \in 1..Len(es[z]) /\ reader[z].kv = es[z][n[z]] /\ es[z] \in Seq(Pairs)
    BY <1>5, <1>b
  <2>3. reader[z].kv.key \in Keys
    BY <2>2, KeyIs
  <2>4. CASE z = x
    BY <1>7, <2>1, <2>3, <2>4 DEF Leq
  <2>5. CASE z # x /\ x = "a"
    BY <1>4, <1>7, <1>b, <2>1, <2>3, <2>5
  <2>6. CASE z # x /\ x = "b"
    <3>1. z = "a" /\ ~Leq(reader[z].kv.key, e.key)
      BY <1>4, <1>7, <1>b, <2>1, <2>6
    <3>2. Less(e.key, reader[z].kv.key)
      BY <1>7, <2>3, <3>1, OrderIs DEF Leq
    <3> QED BY <2>3, <3>2 DEF Leq
  <2> QED BY <2>1, <2>4, <2>5, <2>6
<1>13. ASSUME NEW z \in Sources, ~Empty(reader'[z].kv)
       PROVE  Leq(e.key, reader'[z].kv.key) /\ (z = "a" => Less(e.key, reader'[z].kv.key))
  <2>1. CASE z = x
    <3>1. m[z] = n[z] + 1 /\ ReaderAt(reader'[z], segment'[z].bytes, es[z], off[z], m[z])
      BY <1>12, <2>1
    <3>2. m[z] # Len(es[z]) + 1
      <4>1. SUFFICES ASSUME m[z] = Len(es[z]) + 1 PROVE FALSE
        OBVIOUS
      <4>2. reader'[z].kv = [key |-> << >>, val |-> << >>]
        BY <3>1, <4>1 DEF ReaderAt
      <4> QED BY <1>13, <4>2 DEF Empty
    <3>3. n[z] \in 1..Len(es[z]) /\ Len(es[z]) \in Nat /\ Sorted(es[z]) /\ e = es[z][n[z]]
      BY <1>4, <1>5, <2>1
    <3>4. m[z] \in 1..Len(es[z]) /\ m[z] <= Len(es[z]) /\ n[z] < m[z]
      BY <3>1, <3>2, <3>3
    <3>5. reader'[z].kv = es[z][m[z]]
      BY <3>1, <3>4 DEF ReaderAt
    <3>6. Less(e.key, es[z][m[z]].key)
      BY <3>3, <3>4 DEF Sorted
    <3> QED BY <3>5, <3>6 DEF Leq
  <2>2. CASE z # x
    <3>1. reader'[z] = reader[z]
      BY <1>12, <2>2
    <3>2. z = "a" => x = "b"
      BY <1>4, <2>2 DEF Sources
    <3> QED BY <1>13, <1>b, <3>1, <3>2
  <2> QED BY <2>1, <2>2
<1>14. Ahead'
  <2>1. "a" \in Sources
    BY DEF Sources
  <2> QED BY <1>1, <1>13, <2>1 DEF Ahead
<1>15. PICK ms2, mo2 :
           /\ Writes(merged', ms2, mo2)
           /\ \A i \in 1..Len(ms2) : Leq(ms2[i].key, last_key') /\ ms2[i].key # << >>
           /\ Len(ms) \in Nat
           /\ e.key = last_key => ms2 = ms
           /\ e.key # last_key => /\ Len(ms2) = Len(ms) + 1 /\ ms2[Len(ms) + 1] = e
                                  /\ \A i \in 1..Len(ms) : ms2[i] = ms[i]
  BY <1>1, <1>3, <1>7, <1>8, TurnWrites
<1>c. \A i \in 1..Len(ms) : i \in 1..Len(ms2) /\ ms2[i] = ms[i]
  <2>1. CASE e.key = last_key
    BY <1>15, <2>1
  <2>2. CASE e.key # last_key
    BY <1>15, <2>2
  <2> QED BY <2>1, <2>2
<1>16. ASSUME ~unreadable PROVE Upto(es, m, ms2)'
  <2>1. Upto(es, n, ms) /\ \A z \in Sources : Readable(es[z], holds[z])
    BY <1>6, <1>16 DEF Kept
  <2>2. \A z \in Sources : \A i \in 1..n[z] - 1 : Leq(es[z][i].key, last_key)
    BY <2>1 DEF Upto
  <2>3. /\ DOMAIN Both = DOMAIN holds["a"] \cup DOMAIN holds["b"]
        /\ \A k \in DOMAIN Both : Both[k] = IF k \in DOMAIN holds["a"] THEN holds["a"][k] ELSE holds["b"][k]
        /\ Both' = Both
    BY <1>1 DEF Both
  <2>4. "a" \in Sources /\ "b" \in Sources /\ x \in {"a", "b"}
    BY <1>4 DEF Sources
  <2>5. ASSUME NEW z \in Sources, NEW i \in 1..m[z] - 1 PROVE Leq(es[z][i].key, e.key)
    <3>1. i \in 1..Len(es[z]) /\ (i \in 1..n[z] - 1 \/ (z = x /\ i = n[z]))
      <4>1. /\ n[z] \in 1..Len(es[z]) + 1 /\ Len(es[z]) \in Nat
            /\ z = x => n[z] \in 1..Len(es[z]) /\ m[z] = n[z] + 1
            /\ z # x => m[z] = n[z]
        BY <1>4, <1>5, <1>12
      <4> QED BY <4>1
    <3>2. es[z][i].key \in Keys
      BY <1>5, <3>1, KeyIs
    <3>3. CASE i \in 1..n[z] - 1
      <4>1. Leq(es[z][i].key, last_key)
        BY <2>2, <3>3
      <4> QED BY <1>7, <1>8, <3>2, <4>1, OrderIs
    <3>4. CASE z = x /\ i = n[z]
      BY <1>4, <3>4 DEF Leq
    <3> QED BY <3>1, <3>3, <3>4
  <2>6. ASSUME e.key # last_key PROVE e.key \in DOMAIN Both /\ e.val = Both[e.key]
    <3>1. Less(last_key, e.key) /\ e.key # << >> /\ ~Leq(e.key, last_key)
      BY <1>7, <1>8, <2>6, OrderIs DEF Leq
    <3>2. e.key \in DOMAIN holds[x] /\ e.val = holds[x][e.key]
      BY <1>4, <2>1, <3>1 DEF Readable
    <3>3. CASE x = "a"
      BY <2>3, <3>2, <3>3
    <3>4. CASE x = "b"
      <4>1. e.key \notin DOMAIN holds["a"]
        <5>1. SUFFICES ASSUME e.key \in DOMAIN holds["a"] PROVE FALSE
          OBVIOUS
        <5>2. PICK j \in 1..Len(es["a"]) : es["a"][j].key = e.key
          BY <2>1, <2>4, <3>1, <5>1 DEF Readable
        <5>3. ~Empty(reader["a"].kv) /\ reader["a"].kv.key \in Keys /\ Leq(reader["a"].kv.key, e.key)
          BY <1>3, <1>7, <1>16, <2>4, <3>1, <5>2, NotYet
        <5>4. Less(e.key, reader["a"].kv.key)
          BY <1>b, <2>4, <3>4, <5>3
        <5> QED BY <1>7, <5>3, <5>4, OrderIs
      <4> QED BY <2>3, <3>2, <3>4, <4>1
    <3> QED BY <2>4, <3>3, <3>4
  <2>7. ASSUME NEW i \in 1..Len(ms2) PROVE ms2[i].key \in DOMAIN Both /\ ms2[i].val = Both[ms2[i].key]
    <3>1. \A h \in 1..Len(ms) : ms[h].key \in DOMAIN Both /\ ms[h].val = Both[ms[h].key]
      BY <2>1 DEF Upto
    <3>2. CASE e.key = last_key
      BY <1>15, <3>1, <3>2
    <3>3. CASE e.key # last_key
      <4>1. i \in 1..Len(ms) \/ i = Len(ms) + 1
        BY <1>15, <3>3
      <4>2. CASE i \in 1..Len(ms)
        BY <1>c, <3>1, <4>2
      <4>3. CASE i = Len(ms) + 1
        BY <1>15, <2>6, <3>3, <4>3
      <4> QED BY <4>1, <4>2, <4>3
    <3> QED BY <3>2, <3>3
  <2>8. ASSUME NEW k \in DOMAIN Both, k # << >>, Leq(k, e.key)
        PROVE  \E i \in 1..Len(ms2) : ms2[i].key = k
    <3>1. CASE Leq(k, last_key)
      <4>1. PICK i \in 1..Len(ms) : ms[i].key = k
        BY <2>1, <2>8, <3>1 DEF Upto
      <4> QED BY <1>c, <4>1
    <3>2. CASE ~Leq(k, last_key)
      <4>1. PICK z \in Sources : k \in DOMAIN holds[z]
        BY <2>3, <2>4, <2>8
      <4>2. PICK j \in 1..Len(es[z]) : es[z][j].key = k
        BY <2>1, <2>8, <4>1 DEF Readable
      <4>3. ~Empty(reader[z].kv) /\ reader[z].kv.key \in Keys /\ Leq(reader[z].kv.key, k)
        BY <1>3, <1>7, <1>16, <3>2, <4>2, NotYet
      <4>4. Leq(e.key, reader[z].kv.key) /\ k \in Keys
        BY <1>5, <1>b, <4>2, <4>3, KeyIs
      <4>5. Leq(e.key, k)
        BY <1>7, <4>3, <4>4, OrderIs
      <4>6. k = e.key
        BY <1>7, <2>8, <4>4, <4>5, OrderIs DEF Leq
      <4>7. e.key # last_key
        BY <3>2, <4>6 DEF Leq
      <4>8. Len(ms) + 1 \in 1..Len(ms2) /\ ms2[Len(ms) + 1].key = k
        BY <1>15, <4>6, <4>7
      <4> QED BY <4>8
    <3> QED BY <3>1, <3>2
  <2> QED BY <1>1, <2>3, <2>5, <2>7, <2>8 DEF Upto
<1>17. Merges(es, off, m, ms2, mo2)'
  <2>1. \A z \in Sources : ReaderAt(reader'[z], segment'[z].bytes, es[z], off[z], m[z])
    BY <1>12
  <2>2. ~unreadable' => Upto(es, m, ms2)'
    BY <1>1, <1>16
  <2> QED BY <1>10, <1>14, <1>15, <2>1, <2>2 DEF Merges
<1> QED BY <1>9, <1>11, <1>17 DEF FileInv

LEMMA InvMergeEnds ==
    ASSUME FileInv, MergeEnds
    PROVE  FileInv'
<1>1. /\ pc = "merge" /\ \A z \in Sources : Empty(reader[z].kv)
      /\ segment' = [x \in {"b"} |-> Written(merged)] /\ holds' = [x \in {"b"} |-> Both]
      /\ reopened' = {} /\ pc' = "idle" /\ reader' = [x \in Sources |-> Nowhere]
      /\ last_key' = << >> /\ merged' = Blank(MergeBits) /\ unreadable' = unreadable
  BY DEF MergeEnds
<1>2. FileShape
  BY DEF FileInv
<1>3. PICK es, off, n, ms, mo : Merges(es, off, n, ms, mo)
  BY <1>1 DEF FileInv
<1>4. /\ Writes(merged, ms, mo)
      /\ \A i \in 1..Len(ms) : Leq(ms[i].key, last_key) /\ ms[i].key # << >>
      /\ ~unreadable => Upto(es, n, ms)
      /\ \A z \in Sources : Kept(z, es[z], off[z])
  BY <1>3 DEF Merges
<1>5. DOMAIN Both = DOMAIN holds["a"] \cup DOMAIN holds["b"] /\ DOMAIN Both \subseteq Keys
  <2>1. DOMAIN Both = DOMAIN holds["a"] \cup DOMAIN holds["b"]
    BY DEF Both
  <2>2. \A z \in {"a", "b"} : DOMAIN holds[z] \subseteq Keys
    BY <1>1, <1>2 DEF FileShape, Sources
  <2> QED BY <2>1, <2>2
<1>6. /\ DOMAIN segment' = {"b"} /\ segment'["b"] = Written(merged)
      /\ DOMAIN holds' = {"b"} /\ holds'["b"] = Both
      /\ segment' = [x \in DOMAIN segment' |-> segment'[x]]
      /\ reader' = [x \in Sources |-> reader'[x]]
  BY <1>1
<1>7. FileShape'
  <2>1. pc' # "merge" /\ {"b"} \subseteq Sources
    BY <1>1 DEF Sources
  <2>2. unreadable' \in BOOLEAN /\ last_key' \in Keys \cup {<< >>}
    BY <1>1, <1>2 DEF FileShape
  <2> QED BY <1>1, <1>5, <1>6, <2>1, <2>2 DEF FileShape
<1>8. Keeps(Written(merged), ms, mo) /\ Exact(Written(merged).index, ms, mo)
  BY <1>4 DEF Writes, Keeps, Written
<1>9. ASSUME ~unreadable PROVE Readable(ms, Both)
  <2>1. Upto(es, n, ms) /\ \A z \in Sources : Readable(es[z], holds[z])
    BY <1>4, <1>9 DEF Kept
  <2>2. \A i \in 1..Len(ms) : ~Empty(ms[i])
    BY <1>4 DEF Empty
  <2>3. ASSUME NEW k \in DOMAIN Both, k # << >> PROVE \E i \in 1..Len(ms) : ms[i].key = k
    <3>1. CASE Leq(k, last_key)
      BY <2>1, <2>3, <3>1 DEF Upto
    <3>2. CASE ~Leq(k, last_key)
      <4>1. PICK z \in Sources : k \in DOMAIN holds[z]
        BY <1>5, <2>3 DEF Sources
      <4>2. PICK j \in 1..Len(es[z]) : es[z][j].key = k
        BY <2>1, <2>3, <4>1 DEF Readable
      <4>3. last_key \in Keys \cup {<< >>}
        BY <1>2 DEF FileShape
      <4>4. ~Empty(reader[z].kv)
        BY <1>3, <1>9, <3>2, <4>2, <4>3, NotYet
      <4> QED BY <1>1, <4>4
    <3> QED BY <3>1, <3>2
  <2>4. \A i \in 1..Len(ms) : ms[i].key \in DOMAIN Both /\ ms[i].val = Both[ms[i].key]
    BY <2>1 DEF Upto
  <2> QED BY <2>2, <2>3, <2>4 DEF Readable
<1>10. Kept("b", ms, mo)'
  <2>1. Before(Written(merged).index, ms, mo)
    BY <1>8, ExactBefore
  <2> QED BY <1>1, <1>6, <1>8, <1>9, <2>1 DEF Kept
<1>11. \A z \in DOMAIN segment' : \E es2, off2 : Kept(z, es2, off2)'
  BY <1>6, <1>10
<1>12. pc' # "merge"
  BY <1>1
<1> QED BY <1>7, <1>11, <1>12 DEF FileInv

LEMMA InvStutters ==
    ASSUME FileInv, UNCHANGED vars
    PROVE  FileInv'
<1>1. /\ segment' = segment /\ pc' = pc /\ reader' = reader /\ last_key' = last_key
      /\ merged' = merged /\ holds' = holds /\ reopened' = reopened /\ unreadable' = unreadable
  BY DEF vars, auxVars
<1>2. FileShape /\ \A z \in DOMAIN segment : \E es, off : Kept(z, es, off)
  BY DEF FileInv
<1>3. FileShape'
  BY <1>1, <1>2 DEF FileShape
<1>4. \A z, es, off : Kept(z, es, off) => Kept(z, es, off)'
  BY <1>1 DEF Kept
<1>5. \A z \in DOMAIN segment' : \E es, off : Kept(z, es, off)'
  <2>1. TAKE z \in DOMAIN segment'
  <2>2. PICK es, off : Kept(z, es, off)
    BY <1>1, <1>2
  <2> QED BY <1>4, <2>2
<1>6. ASSUME pc' = "merge" PROVE \E es, off, n, ms, mo : Merges(es, off, n, ms, mo)'
  <2>1. PICK es, off, n, ms, mo : Merges(es, off, n, ms, mo)
    BY <1>1, <1>6 DEF FileInv
  <2>2. Both' = Both /\ (Ahead => Ahead')
    BY <1>1 DEF Both, Ahead
  <2>3. ~unreadable' => Upto(es, n, ms)'
    BY <1>1, <2>1, <2>2 DEF Merges, Upto
  <2>4. Merges(es, off, n, ms, mo)'
    BY <1>1, <1>4, <2>1, <2>2, <2>3 DEF Merges
  <2> QED BY <2>4
<1> QED BY <1>3, <1>5, <1>6 DEF FileInv

----------------------------------------------------------------------------
(* Theorems *)

\* Every segment is a file of whole lines in the order of their keys, with a
\* filter that says yes to them and an index of offsets not behind their lines;
\* and a merge, turn by turn, has read the one and written the other so far.
THEOREM FileInductive == Spec => []FileInv
<1>1. Init => FileInv
  BY InvInit
<1>2. FileInv /\ [Next]_vars => FileInv'
  <2> SUFFICES ASSUME FileInv, [Next]_vars PROVE FileInv'
    OBVIOUS
  <2>1. ASSUME NEW map \in Memtables, Flush(map) PROVE FileInv'
    BY <2>1, InvFlush
  <2>2. CASE Restart
    BY <2>2, InvRestart
  <2>3. CASE MergeBegins
    BY <2>3, InvMergeBegins
  <2>4. CASE MergeTurn
    BY <2>4, InvMergeTurn
  <2>5. CASE MergeEnds
    BY <2>5, InvMergeEnds
  <2>6. CASE UNCHANGED vars
    BY <2>6, InvStutters
  <2> QED BY <2>1, <2>2, <2>3, <2>4, <2>5, <2>6 DEF Next, Merging
<1> QED BY <1>1, <1>2, PTL DEF Spec

\* The state has its types; an offset is within its file.  (level)
THEOREM FileTypeCorrect == Spec => []FileTypeOK
BY FileInductive, InvType, PTL

\* A search finds the value of every key but the empty one that a flush or a merge
\* was to write, and nothing for other keys, unless an entry without key and value
\* was written or the index was rebuilt.  (level::search)
THEOREM SearchFindsAllAlways == Spec => []SearchFindsAll
BY FileInductive, InvSearch, PTL

\* What a merge has written after each turn is what the two files hold up to the
\* last key, in order, once, and of the newer file if both have it.
\* (merge_sst_values)
THEOREM MergedSoFarAlways == Spec => []MergedSoFar
BY FileInductive, InvMerged, PTL

\* No offset of an index is behind the line of its key, whatever was flushed,
\* merged and read back.  (repopulate_bloom_and_index)
THEOREM IndexNotPastAlways == Spec => []IndexNotPast
BY FileInductive, InvIndex, PTL
=============================================================================
