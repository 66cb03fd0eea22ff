---------------------------- MODULE NumberLemmas ----------------------------
(***************************************************************************)
(* Facts about numbers and sequences that the proofs share: block numbers  *)
(* that wrap (tests/server/tftpd.c: unsigned short sendblock and           *)
(* recvblock), for every modulus; runs of consecutive numbers, as which    *)
(* the models see the bytes and blocks of a file in order; the least       *)
(* element of a set of numbers; and induction and the tables of recursive  *)
(* functions, as facts about sets.                                         *)
(***************************************************************************)
EXTENDS Integers, Sequences, SequenceTheorems, WellFoundedInduction, TLAPS

-----------------------------------------------------------------------------
(* Numbers that wrap *)

\* Quotient and remainder.
LEMMA Division ==
    ASSUME NEW M \in Nat, M > 0, NEW x \in Nat
    PROVE  /\ x \div M \in Int
           /\ x % M \in 0..(M - 1)
           /\ x = M * (x \div M) + (x % M)
OBVIOUS

\* A multiple of M that is nearer to 0 than M is 0.
LEMMA SmallMultiple ==
    ASSUME NEW M \in Nat, M > 0, NEW d \in Int, -M < d * M, d * M < M
    PROVE  d = 0
<1>1. CASE d >= 1  BY <1>1
<1>2. CASE d <= -1 BY <1>2
<1> QED BY <1>1, <1>2

\* Equal block numbers of blocks less than M apart are of the same block: the
\* reason why a datagram that is not too old cannot be taken for another one.
THEOREM SameBlock ==
    ASSUME NEW M \in Nat, M > 0, NEW x \in Nat, NEW y \in Nat,
           x % M = y % M, x - y < M, y - x < M
    PROVE  x = y
<1> DEFINE a == x \div M
           b == y \div M
           r == x % M
<1>1. a \in Int /\ b \in Int /\ r \in 0..(M - 1)
  BY Division
<1>2. x = M * a + r /\ y = M * b + r
  BY Division
<1> HIDE DEF a, b, r
<1>3. (a - b) * M = x - y
  BY <1>1, <1>2
<1>4. a - b = 0
  <2>1. a - b \in Int BY <1>1
  <2>2. -M < (a - b) * M /\ (a - b) * M < M BY <1>3
  <2> QED BY <2>1, <2>2, SmallMultiple
<1> QED BY <1>1, <1>2, <1>4

\* The remainder is the only candidate.
LEMMA Remainder ==
    ASSUME NEW M \in Nat, M > 0, NEW x \in Nat,
           NEW q \in Int, NEW r \in 0..(M - 1), x = M * q + r
    PROVE  x % M = r
<1> DEFINE a == x \div M
           s == x % M
<1>1. a \in Int /\ s \in 0..(M - 1) /\ x = M * a + s
  BY Division
<1> HIDE DEF a, s
<1>2. (a - q) * M = r - s
  BY <1>1
<1>3. a - q = 0
  <2>1. a - q \in Int BY <1>1
  <2>2. -M < (a - q) * M /\ (a - q) * M < M BY <1>1, <1>2
  <2> QED BY <2>1, <2>2, SmallMultiple
<1>4. s = r
  BY <1>1, <1>2, <1>3
<1> QED BY <1>4 DEF s

\* The wrapped counter follows the unwrapped one.
THEOREM NextWraps ==
    ASSUME NEW M \in Nat, M > 0, NEW x \in Nat
    PROVE  ((x % M) + 1) % M = (x + 1) % M
<1> DEFINE a == x \div M
           r == x % M
<1>1. a \in Int /\ r \in 0..(M - 1) /\ x = M * a + r
  BY Division
<1> HIDE DEF a, r
<1>2. CASE r + 1 < M
  <2>1. (x + 1) % M = r + 1
    <3>1. r + 1 \in 0..(M - 1) /\ x + 1 \in Nat /\ x + 1 = M * a + (r + 1)
      BY <1>1, <1>2
    <3> QED BY ONLY <3>1, <1>1, Remainder, M \in Nat, M > 0
  <2>2. (r + 1) % M = r + 1
    <3>1. r + 1 \in 0..(M - 1) /\ r + 1 \in Nat /\ r + 1 = M * 0 + (r + 1)
      BY <1>1, <1>2
    <3> QED BY ONLY <3>1, Remainder, M \in Nat, M > 0
  <2> QED BY <2>1, <2>2 DEF r
<1>3. CASE r + 1 = M
  <2>1. (x + 1) % M = 0
    <3>1. 0 \in 0..(M - 1) /\ x + 1 \in Nat /\ a + 1 \in Int
      BY <1>1
    <3>2. x + 1 = M * (a + 1) + 0
      BY <1>1, <1>3
    <3> QED BY ONLY <3>1, <3>2, Remainder, M \in Nat, M > 0
  <2>2. (r + 1) % M = 0
    <3>1. 0 \in 0..(M - 1) /\ r + 1 \in Nat /\ r + 1 = M * 1 + 0
      BY <1>1, <1>3
    <3> QED BY ONLY <3>1, Remainder, M \in Nat, M > 0
  <2> QED BY <2>1, <2>2 DEF r
<1> QED BY <1>1, <1>2, <1>3
-----------------------------------------------------------------------------
(* Runs of consecutive numbers *)

\* The numbers after a, up to b.
Run(a, b) == [i \in 1..(b - a) |-> a + i]

LEMMA RunSeq ==
    ASSUME NEW a \in Nat, NEW b \in Nat, a <= b
    PROVE  /\ Run(a, b) \in Seq(Nat) /\ Len(Run(a, b)) = b - a
           /\ \A i \in 1..(b - a) : Run(a, b)[i] = a + i
           /\ a = b => Run(a, b) = << >>
           /\ a < b => Run(a, b) # << >>
BY DEF Run

\* Sequences of numbers that agree everywhere are equal.
LEMMA SameSeq ==
    ASSUME NEW s \in Seq(Nat), NEW t \in Seq(Nat), NEW n \in Nat,
           Len(s) = n, Len(t) = n, \A i \in 1..n : s[i] = t[i]
    PROVE  s = t
BY SeqEqual

LEMMA RunConcat ==
    ASSUME NEW a \in Nat, NEW b \in Nat, NEW c \in Nat, a <= b, b <= c
    PROVE  Run(a, b) \o Run(b, c) = Run(a, c)
<1>1. PICK r, s, t : r = Run(a, b) /\ s = Run(b, c) /\ t = Run(a, c)
  OBVIOUS
<1>2. PICK m, n : m = b - a /\ n = c - b /\ m \in Nat /\ n \in Nat /\ m + n = c - a
  OBVIOUS
<1>3. /\ r \in Seq(Nat) /\ Len(r) = m /\ \A i \in 1..m : r[i] = a + i
      /\ s \in Seq(Nat) /\ Len(s) = n /\ \A i \in 1..n : s[i] = b + i
      /\ t \in Seq(Nat) /\ Len(t) = m + n /\ \A i \in 1..(m + n) : t[i] = a + i
  <2>1. a <= c
    OBVIOUS
  <2>2. r \in Seq(Nat) /\ Len(r) = m /\ \A i \in 1..m : r[i] = a + i
    BY <1>1, <1>2, RunSeq
  <2>3. s \in Seq(Nat) /\ Len(s) = n /\ \A i \in 1..n : s[i] = b + i
    BY <1>1, <1>2, RunSeq
  <2>4. t \in Seq(Nat) /\ Len(t) = m + n /\ \A i \in 1..(m + n) : t[i] = a + i
    <3>1. t \in Seq(Nat) /\ Len(t) = c - a /\ \A i \in 1..(c - a) : t[i] = a + i
      BY <1>1, <2>1, RunSeq
    <3>2. m + n = c - a
      BY <1>2
    <3> QED BY ONLY <3>1, <3>2, Zenon
  <2> QED BY <2>2, <2>3, <2>4
<1>4. /\ r \o s \in Seq(Nat) /\ Len(r \o s) = m + n
      /\ \A i \in 1..(m + n) : (r \o s)[i] = IF i <= m THEN r[i] ELSE s[i - m]
  BY ONLY ZenonT(30), <1>3, ConcatProperties
<1>5. ASSUME NEW i \in 1..(m + n)
      PROVE  (r \o s)[i] = t[i]
  <2>1. CASE i <= m
    <3>1. i \in 1..m
      BY <1>2, <2>1
    <3> QED BY <1>3, <1>4, <2>1, <3>1
  <2>2. CASE ~(i <= m)
    <3>1. i - m \in 1..n
      BY <1>2, <2>2
    <3>2. s[i - m] = b + (i - m)
      BY <1>3, <3>1
    <3>3. b + (i - m) = a + i
      BY <1>2, <3>1
    <3> QED BY <1>3, <1>4, <2>2, <3>2, <3>3
  <2> QED BY <2>1, <2>2
<1>6. m + n \in Nat
  BY <1>2
<1>7. r \o s = t
  BY ONLY <1>3, <1>4, <1>5, <1>6, SameSeq
<1> QED BY <1>1, <1>7

LEMMA RunAppend ==
    ASSUME NEW a \in Nat, NEW b \in Nat, a <= b
    PROVE  Append(Run(a, b), b + 1) = Run(a, b + 1)
<1>1. PICK r, t, s : r = Run(a, b) /\ t = Run(a, b + 1) /\ s = Append(r, b + 1)
  OBVIOUS
<1>2. PICK m : m = b - a /\ m \in Nat /\ m + 1 = b + 1 - a /\ m + 1 \in Nat
  <2>1. b - a \in Nat /\ (b - a) + 1 = b + 1 - a /\ (b - a) + 1 \in Nat
    OBVIOUS
  <2> QED BY ONLY <2>1
<1>3. /\ r \in Seq(Nat) /\ Len(r) = m /\ \A i \in 1..m : r[i] = a + i
      /\ t \in Seq(Nat) /\ Len(t) = m + 1 /\ \A i \in 1..(m + 1) : t[i] = a + i
  <2>1. a <= b + 1 /\ b + 1 \in Nat
    OBVIOUS
  <2>2. r \in Seq(Nat) /\ Len(r) = m /\ \A i \in 1..m : r[i] = a + i
    BY <1>1, <1>2, RunSeq
  <2>3. t \in Seq(Nat) /\ Len(t) = m + 1 /\ \A i \in 1..(m + 1) : t[i] = a + i
    <3>1. PICK c : c = b + 1
      OBVIOUS
    <3>2. t \in Seq(Nat) /\ Len(t) = c - a /\ \A i \in 1..(c - a) : t[i] = a + i
      BY <1>1, <2>1, <3>1, RunSeq
    <3>3. m + 1 = c - a
      BY <1>2, <3>1
    <3> QED BY ONLY <3>2, <3>3, Zenon
  <2> QED BY <2>2, <2>3
<1>4. /\ s \in Seq(Nat) /\ Len(s) = m + 1
      /\ \A i \in 1..m : s[i] = r[i]
      /\ s[m + 1] = b + 1
  <2>1. b + 1 \in Nat
    OBVIOUS
  <2> QED BY ONLY <1>1, <1>3, <2>1, AppendProperties
<1>5. ASSUME NEW i \in 1..(m + 1)
      PROVE  s[i] = t[i]
  <2>1. CASE i = m + 1
    BY <1>2, <1>3, <1>4, <2>1
  <2>2. CASE i # m + 1
    <3>1. i \in 1..m
      BY <1>2, <2>2
    <3> QED BY <1>3, <1>4, <3>1
  <2> QED BY <2>1, <2>2
<1>6. s = t
  BY ONLY <1>2, <1>3, <1>4, <1>5, SameSeq
<1> QED BY <1>1, <1>6

LEMMA RunSubSeq ==
    ASSUME NEW a \in Nat, NEW b \in Nat, a <= b,
           NEW m \in 1..(b - a + 1), NEW n \in (m - 1)..(b - a)
    PROVE  SubSeq(Run(a, b), m, n) = Run(a + m - 1, a + n)
<1>1. PICK r, s, t : r = Run(a, b) /\ s = SubSeq(r, m, n) /\ t = Run(a + m - 1, a + n)
  OBVIOUS
<1>2. PICK k, l : k = n - m + 1 /\ l = b - a /\ k \in Nat /\ l \in Nat
  <2>1. n - m + 1 \in Nat /\ b - a \in Nat
    OBVIOUS
  <2> QED BY ONLY <2>1
<1>3. \A i \in 1..l : r[i] = a + i
  BY <1>1, <1>2, RunSeq
<1>4. t \in Seq(Nat) /\ Len(t) = k /\ \A i \in 1..k : t[i] = (a + m - 1) + i
  <2>1. PICK x, y : x = a + m - 1 /\ y = a + n
    OBVIOUS
  <2>2. x \in Nat /\ y \in Nat /\ x <= y /\ y - x = k
    BY <1>2, <2>1
  <2>3. t = Run(x, y)
    BY <1>1, <2>1
  <2>4. t \in Seq(Nat) /\ Len(t) = k /\ \A i \in 1..k : t[i] = x + i
    BY ONLY <2>2, <2>3, RunSeq
  <2> QED BY <2>1, <2>4
<1>5. ASSUME NEW i \in 1..k
      PROVE  m + i - 1 \in 1..l /\ m + i - 1 \in m..n /\ a + (m + i - 1) = (a + m - 1) + i
  BY <1>2
<1>6. s \in Seq(Nat) /\ Len(s) = k /\ \A i \in 1..k : s[i] = r[m + i - 1]
  <2>1. \A i \in m..n : r[i] \in Nat
    <3>1. ASSUME NEW i \in m..n
          PROVE  i \in 1..l /\ a + i \in Nat
      BY <1>2
    <3> QED BY <1>3, <3>1
  <2>2. m \in Int /\ n \in Int /\ k = IF m <= n THEN n - m + 1 ELSE 0
    BY <1>2
  <2> QED BY ONLY <1>1, <2>1, <2>2, SubSeqProperties
<1>7. \A i \in 1..k : s[i] = t[i]
  BY <1>3, <1>4, <1>5, <1>6
<1>8. s = t
  BY ONLY <1>2, <1>4, <1>6, <1>7, SameSeq
<1> QED BY <1>1, <1>8

-----------------------------------------------------------------------------
(* The least number *)

Less == {p \in Nat \X Nat : p[1] < p[2]}

LEMMA LessWellFounded == IsWellFoundedOn(Less, Nat)
BY NatLessThanWellFounded DEF OpToRel, Less

\* The principle of induction, as a fact about sets.
THEOREM LeastNumber ==
    ASSUME NEW T \in SUBSET Nat, T # {}
    PROVE  \E x \in T : \A y \in T : x <= y
<1>1. PICK x \in T : \A y \in T : ~(<<y, x>> \in Less)
  BY LessWellFounded, WFMin
<1>2. \A y \in T : ~(y < x)
  BY <1>1 DEF Less
<1> QED BY <1>2

-----------------------------------------------------------------------------
(* Induction, as facts about sets *)

\* A set that has 0, and with a number the next one, has every number up to n.
LEMMA Induction ==
    ASSUME NEW n \in Nat, NEW T,
           0 \in T, \A m \in 0..(n - 1) : m \in T => m + 1 \in T
    PROVE  \A m \in 0..n : m \in T
<1> DEFINE F == {m \in 0..n : m \notin T}
<1>1. SUFFICES F = {}
  OBVIOUS
<1>2. SUFFICES ASSUME F # {} PROVE FALSE
  OBVIOUS
<1>3. PICK x \in F : \A y \in F : x <= y
  <2>1. F \in SUBSET Nat
    OBVIOUS
  <2> HIDE DEF F
  <2> QED BY <1>2, <2>1, LeastNumber
<1>4. x \in 0..n /\ x \notin T /\ x # 0
  BY <1>3
<1>5. x - 1 \in 0..(n - 1) /\ x - 1 \in 0..n /\ (x - 1) + 1 = x
  BY <1>4
<1>6. x - 1 \in T
  BY <1>3, <1>5
<1> QED BY ONLY <1>4, <1>5, <1>6, \A m \in 0..(n - 1) : m \in T => m + 1 \in T

\* A set that has the empty sequence, and with a sequence every sequence that is
\* one element longer, has every sequence.
THEOREM SeqInduction ==
    ASSUME NEW S, NEW T, << >> \in T,
           \A s \in Seq(S), e \in S : s \in T => Append(s, e) \in T
    PROVE  \A s \in Seq(S) : s \in T
<1> SUFFICES ASSUME NEW s \in Seq(S) PROVE s \in T
  OBVIOUS
<1> DEFINE P == {m \in 0..Len(s) : SubSeq(s, 1, m) \in T}
<1>1. Len(s) \in Nat
  OBVIOUS
<1>2. 0 \in P
  <2>1. SubSeq(s, 1, 0) \in Seq(S) /\ Len(SubSeq(s, 1, 0)) = 0
    OBVIOUS
  <2>2. SubSeq(s, 1, 0) = << >>
    BY <2>1
  <2>3. 0 \in 0..Len(s)
    BY <1>1
  <2>4. SubSeq(s, 1, 0) \in T
    BY ONLY <2>2, << >> \in T
  <2> QED BY <2>3, <2>4
<1>3. ASSUME NEW m \in 0..(Len(s) - 1), m \in P
      PROVE  m + 1 \in P
  <2>1. SubSeq(s, 1, m) \in Seq(S) /\ s[m + 1] \in S /\ m + 1 \in 0..Len(s)
    BY <1>1
  <2>2. SubSeq(s, 1, m + 1) = Append(SubSeq(s, 1, m), s[m + 1])
    BY <1>1
  <2> QED BY <1>3, <2>1, <2>2
<1>4. \A m \in 0..Len(s) : m \in P
  <2> HIDE DEF P
  <2> QED BY <1>1, <1>2, <1>3, Induction
<1>5. SubSeq(s, 1, Len(s)) = s
  OBVIOUS
<1>6. Len(s) \in P
  <2> HIDE DEF P
  <2> QED BY <1>1, <1>4
<1> QED BY <1>5, <1>6

\* What a loop does: there is a function from the number of turns to what they
\* have made of a, if each turn takes A to A.  A recursive function f over 0..n
\* is a CHOOSE of such a function: this fact and the next say that there is one
\* and only one.
THEOREM Iterates ==
    ASSUME NEW A, NEW a \in A, NEW n \in Nat, NEW step \in [1..n -> [A -> A]]
    PROVE  \E g \in [0..n -> A] :
              /\ g[0] = a
              /\ \A i \in 1..n : g[i] = step[i][g[i - 1]]
<1> DEFINE Of(m, g) == g[0] = a /\ \A i \in 1..m : g[i] = step[i][g[i - 1]]
           T == {m \in 0..n : \E g \in [0..m -> A] : Of(m, g)}
<1>1. 0 \in T
  <2> DEFINE h == [i \in 0..0 |-> a]
  <2>1. h \in [0..0 -> A] /\ h[0] = a
    OBVIOUS
  <2>2. Of(0, h)
    <3>1. \A i \in 1..0 : FALSE
      OBVIOUS
    <3> HIDE DEF h
    <3> QED BY <2>1, <3>1
  <2> HIDE DEF h, Of
  <2>3. 0 \in 0..n
    OBVIOUS
  <2> QED BY <2>1, <2>2, <2>3
<1>2. ASSUME NEW m \in 0..(n - 1), m \in T
      PROVE  m + 1 \in T
  <2>1. PICK g \in [0..m -> A] : Of(m, g)
    BY <1>2
  <2> DEFINE h == [i \in 0..(m + 1) |-> IF i <= m THEN g[i] ELSE step[m + 1][g[m]]]
  <2>2. step[m + 1][g[m]] \in A
    <3>1. m + 1 \in 1..n /\ g[m] \in A
      OBVIOUS
    <3> QED BY <3>1
  <2>3. h \in [0..(m + 1) -> A]
    BY <2>2
  <2>4. h[0] = a
    BY <2>1
  <2>5. ASSUME NEW i \in 1..(m + 1)
        PROVE  h[i] = step[i][h[i - 1]]
    <3>1. CASE i = m + 1
      <4>1. h[i] = step[m + 1][g[m]] /\ h[i - 1] = g[m]
        BY <3>1
      <4> QED BY <3>1, <4>1
    <3>2. CASE i # m + 1
      <4>1. i \in 1..m /\ h[i] = g[i] /\ h[i - 1] = g[i - 1]
        BY <3>2
      <4>2. g[i] = step[i][g[i - 1]]
        BY <2>1, <4>1
      <4> HIDE DEF h
      <4> QED BY <4>1, <4>2
    <3> QED BY <3>1, <3>2
  <2>6. \E k \in [0..(m + 1) -> A] : Of(m + 1, k)
    <3>1. Of(m + 1, h)
      BY <2>4, <2>5
    <3> QED BY <2>3, <3>1
  <2>7. m + 1 \in 0..n
    OBVIOUS
  <2> HIDE DEF Of
  <2> QED BY <2>6, <2>7
<1>3. n \in T
  <2> HIDE DEF T
  <2>1. \A m \in 0..n : m \in T
    BY <1>1, <1>2, Induction
  <2> QED BY <2>1
<1> HIDE DEF Of
<1>4. \E g \in [0..n -> A] : Of(n, g)
  BY <1>3
<1> QED BY <1>4 DEF Of

\* Functions that begin alike, and go on alike as long as they agree, agree.
LEMMA Agree ==
    ASSUME NEW n \in Nat, NEW g, NEW h, g[0] = h[0],
           \A i \in 1..n : g[i - 1] = h[i - 1] => g[i] = h[i]
    PROVE  \A i \in 0..n : g[i] = h[i]
<1> DEFINE T == {i \in 0..n : g[i] = h[i]}
<1>1. 0 \in T
  OBVIOUS
<1>2. ASSUME NEW m \in 0..(n - 1), m \in T
      PROVE  m + 1 \in T
  <2>1. m + 1 \in 1..n /\ (m + 1) - 1 = m /\ m + 1 \in 0..n
    OBVIOUS
  <2> QED BY <1>2, <2>1
<1>3. \A m \in 0..n : m \in T
  <2> HIDE DEF T
  <2> QED BY <1>1, <1>2, Induction
<1> QED BY <1>3
=============================================================================
