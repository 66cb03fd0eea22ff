---------------------------- MODULE Tftpd_proofs ----------------------------
(***************************************************************************)
(* Proofs about tests/server/tftpd.c that are not about one transfer.      *)
(* The netascii conversions (TftpNetascii), for every file, every SEGSIZE  *)
(* and every length: a download carries the encoding of its file, an       *)
(* upload stores the decoding of its stream, and decoding undoes encoding. *)
(* The process (TftpServer), for any number of requests: no end of it      *)
(* leaves a file of its own behind, and a waiting server holds nothing.    *)
(*                                                                         *)
(* Encoding, Decoding and the loops are recursive functions.  That the     *)
(* table of such a function exists comes from Iterates, that there is one  *)
(* only from Agree; what it has at each place is then shown one byte at a  *)
(* time, and for all bytes by SeqInduction.                                *)
(***************************************************************************)
EXTENDS TftpServer, TftpNetascii, NumberLemmas, TLAPS

-----------------------------------------------------------------------------
(* Concatenations *)

\* FlattenSeq's table is the only one of its kind.
LEMMA FlattenIs ==
    ASSUME NEW seqs, NEW g, Len(seqs) \in Nat, Len(seqs) > 0,
           g[0] = << >>, \A i \in 1..Len(seqs) : g[i] = g[i - 1] \o seqs[i],
           << >> \o seqs[1] = seqs[1]
    PROVE  FlattenSeq(seqs) = g[Len(seqs)]
<1>0. PICK n \in Nat : n = Len(seqs) /\ n > 0 /\ \A i \in 1..n : g[i] = g[i - 1] \o seqs[i]
  OBVIOUS
<1> DEFINE Def(c) == [i \in 1..n |-> IF i = 1 THEN seqs[i] ELSE c[i - 1] \o seqs[i]]
           f == [i \in 1..n |-> g[i]]
           c == CHOOSE c : c = Def(c)
<1>1. FlattenSeq(seqs) = c[n]
  BY <1>0 DEF FlattenSeq
<1>2. f = Def(f)
  <2>1. ASSUME NEW i \in 1..n
        PROVE  g[i] = IF i = 1 THEN seqs[i] ELSE f[i - 1] \o seqs[i]
    <3>1. CASE i = 1
      <4>1. g[i] = g[i - 1] \o seqs[i]
        BY <1>0
      <4>2. i - 1 = 0
        BY <3>1
      <4>3. g[i] = g[0] \o seqs[1]
        BY ONLY <3>1, <4>1, <4>2
      <4>4. g[i] = seqs[1]
        BY ONLY <4>3, g[0] = << >>, << >> \o seqs[1] = seqs[1]
      <4> QED BY ONLY <3>1, <4>4
    <3>2. CASE i # 1
      <4>1. i - 1 \in 1..n
        BY <3>2
      <4>2. f[i - 1] = g[i - 1]
        BY <4>1
      <4> QED BY <1>0, <3>2, <4>2
    <3> QED BY <3>1, <3>2
  <2> QED BY <2>1
<1>3. c = Def(c)
  <2> HIDE DEF Def, f
  <2> QED BY <1>2
<1>4. PICK h : h = [i \in 0..n |-> IF i = 0 THEN << >> ELSE c[i]]
  OBVIOUS
<1> HIDE DEF c
<1>5. h[0] = << >>
  BY <1>4
<1>6. ASSUME NEW i \in 1..n, g[i - 1] = h[i - 1]
      PROVE  g[i] = h[i]
  <2>1. h[i] = IF i = 1 THEN seqs[i] ELSE c[i - 1] \o seqs[i]
    <3>1. h[i] = c[i]
      BY <1>4
    <3>2. c[i] = Def(c)[i]
      BY <1>3, Zenon
    <3> QED BY <3>1, <3>2
  <2>2. h[i - 1] = IF i = 1 THEN << >> ELSE c[i - 1]
    BY <1>4
  <2>3. g[i] = g[i - 1] \o seqs[i]
    BY <1>0
  <2> QED BY <1>6, <2>1, <2>2, <2>3
<1>7. \A i \in 0..n : g[i] = h[i]
  <2>1. g[0] = h[0]
    BY <1>5
  <2> QED BY ONLY <1>6, <2>1, n \in Nat, Agree
<1>8. h[n] = c[n]
  BY <1>0, <1>4
<1> QED BY <1>0, <1>1, <1>7, <1>8

\* Files, packets and streams.
Text == Seq(Byte)

\* Texts and their concatenations.
LEMMA TextFacts ==
    /\ << >> \in Text
    /\ \A s \in Text, t \in Text : s \o t \in Text /\ << >> \o t = t /\ t \o << >> = t
<1>1. << >> \in Text
  BY DEF Text
<1>2. ASSUME NEW s \in Text, NEW t \in Text
      PROVE  s \o t \in Text /\ << >> \o t = t /\ t \o << >> = t
  BY ConcatProperties, ConcatEmptySeq DEF Text
<1> QED BY <1>1, <1>2

\* The beginnings of a concatenation, one by one.
LEMMA ConcatTable ==
    ASSUME NEW n \in Nat, NEW s, \A i \in 1..n : s[i] \in Text
    PROVE  \E g \in [0..n -> Text] :
              g[0] = << >> /\ \A i \in 1..n : g[i] = g[i - 1] \o s[i]
<1>1. PICK step : step = [i \in 1..n |-> [x \in Text |-> x \o s[i]]]
  OBVIOUS
<1>2. step \in [1..n -> [Text -> Text]]
  BY <1>1, TextFacts
<1>3. PICK g \in [0..n -> Text] :
        g[0] = << >> /\ \A i \in 1..n : g[i] = step[i][g[i - 1]]
  <2>1. << >> \in Text
    BY TextFacts
  <2> QED BY ONLY <1>2, <2>1, n \in Nat, Iterates
<1>4. ASSUME NEW i \in 1..n
      PROVE  g[i] = g[i - 1] \o s[i]
  <2>1. i - 1 \in 0..n
    OBVIOUS
  <2>2. g[i - 1] \in Text
    BY <2>1
  <2>3. step[i][g[i - 1]] = g[i - 1] \o s[i]
    BY <1>1, <2>2
  <2> QED BY <1>3, <2>3
<1> QED BY <1>3, <1>4

\* What FlattenSeq does with one more sequence.
LEMMA FlattenAppend ==
    ASSUME NEW seqs, NEW s \in Text, seqs \in Seq(Text)
    PROVE  /\ FlattenSeq(seqs) \in Text
           /\ FlattenSeq(Append(seqs, s)) = FlattenSeq(seqs) \o s
<1>1. PICK n, all : n = Len(seqs) /\ all = Append(seqs, s)
  OBVIOUS
<1>2. /\ n \in Nat /\ n + 1 \in Nat /\ n + 1 > 0 /\ n + 1 \in 1..(n + 1) /\ n \in 0..(n + 1)
      /\ Len(all) = n + 1 /\ all[n + 1] = s
      /\ \A i \in 1..n : all[i] = seqs[i]
      /\ \A i \in 1..(n + 1) : all[i] \in Text
  <2>1. n \in Nat /\ \A i \in 1..n : seqs[i] \in Text
    BY <1>1, ElementOfSeq
  <2>2. Len(all) = n + 1 /\ all[n + 1] = s /\ \A i \in 1..n : all[i] = seqs[i]
    BY <1>1, AppendProperties
  <2>3. ASSUME NEW i \in 1..(n + 1) PROVE all[i] \in Text
    <3>1. CASE i \in 1..n
      BY <2>1, <2>2, <3>1
    <3>2. CASE i \notin 1..n
      <4>1. i = n + 1
        BY <2>1, <3>2
      <4> QED BY ONLY <2>2, <4>1, s \in Text
    <3> QED BY <3>1, <3>2
  <2>4. n + 1 \in Nat /\ n + 1 > 0 /\ n + 1 \in 1..(n + 1) /\ n \in 0..(n + 1)
    BY <2>1
  <2> QED BY ONLY <2>1, <2>2, <2>3, <2>4
<1>3. PICK g : /\ g \in [0..(n + 1) -> Text] /\ g[0] = << >>
               /\ \A i \in 1..(n + 1) : g[i] = g[i - 1] \o all[i]
  <2>1. PICK m : m = n + 1
    OBVIOUS
  <2>2. m \in Nat /\ \A i \in 1..m : all[i] \in Text
    BY ONLY <1>2, <2>1
  <2>3. \E g \in [0..m -> Text] :
          g[0] = << >> /\ \A i \in 1..m : g[i] = g[i - 1] \o all[i]
    BY ONLY <2>2, ConcatTable
  <2> QED BY ONLY <2>1, <2>3
<1>4. FlattenSeq(all) = g[n + 1]
  <2>1. << >> \o all[1] = all[1]
    <3>1. 1 \in 1..(n + 1)
      BY ONLY <1>2
    <3> QED BY ONLY <1>2, <3>1, TextFacts
  <2>2. Len(all) \in Nat /\ Len(all) > 0
    BY ONLY <1>2
  <2>3. \A i \in 1..Len(all) : g[i] = g[i - 1] \o all[i]
    BY ONLY <1>2, <1>3
  <2>4. FlattenSeq(all) = g[Len(all)]
    BY ONLY <1>3, <2>1, <2>2, <2>3, FlattenIs
  <2> QED BY ONLY <1>2, <2>4
<1>5. g[n + 1] = g[n] \o s
  <2>1. (n + 1) - 1 = n
    BY ONLY <1>2
  <2> QED BY ONLY <1>2, <1>3, <2>1
<1>6. FlattenSeq(seqs) = g[n]
  <2>1. CASE n = 0
    <3>1. seqs = << >>
      BY <1>1, <2>1, EmptySeq
    <3>2. FlattenSeq(seqs) = seqs
      BY ONLY <1>1, <2>1 DEF FlattenSeq
    <3> QED BY ONLY <1>3, <2>1, <3>1, <3>2
  <2>2. CASE n # 0
    <3>1. 1 \in 1..n /\ n > 0 /\ \A i \in 1..n : i \in 1..(n + 1)
      BY ONLY <1>2, <2>2
    <3>2. << >> \o seqs[1] = seqs[1]
      BY ONLY <1>2, <3>1, TextFacts
    <3>3. \A i \in 1..n : g[i] = g[i - 1] \o seqs[i]
      BY ONLY <1>2, <1>3, <3>1
    <3>4. /\ Len(seqs) \in Nat /\ Len(seqs) > 0
          /\ \A i \in 1..Len(seqs) : g[i] = g[i - 1] \o seqs[i]
      BY ONLY <1>1, <1>2, <3>1, <3>3
    <3>5. FlattenSeq(seqs) = g[Len(seqs)]
      BY ONLY <1>3, <3>2, <3>4, FlattenIs
    <3> QED BY ONLY <1>1, <3>5
  <2> QED BY ONLY <2>1, <2>2
<1>7. g[n] \in Text
  BY ONLY <1>2, <1>3
<1> QED BY ONLY <1>1, <1>4, <1>5, <1>6, <1>7

\* One more byte.
LEMMA AppendText ==
    \A s \in Text, c \in Byte : Append(s, c) \in Text /\ s \o <<c>> = Append(s, c)
<1> HIDE DEF Byte
<1> QED BY AppendProperties, AppendIsConcat DEF Text

\* All but the last byte.
LEMMA FrontText ==
    \A s \in Text, c \in Byte : SubSeq(Append(s, c), 1, Len(Append(s, c)) - 1) = s
BY DEF Text

\* The same byte at the end of both sides.
LEMMA ConcatAppend ==
    \A s \in Text, t \in Text, c \in Byte : s \o Append(t, c) = Append(s \o t, c)
BY DEF Text

\* Induction over texts.
LEMMA TextInduction ==
    ASSUME NEW T, << >> \in T,
           \A s \in Text, c \in Byte : s \in T => Append(s, c) \in T
    PROVE  \A s \in Text : s \in T
BY SeqInduction DEF Text

-----------------------------------------------------------------------------
(* Encoding *)

\* The encoding of a byte is a text.
LEMMA CodeText == \A c \in Byte : Code(c) \in Text
<1> SUFFICES ASSUME NEW c \in Byte PROVE Code(c) \in Text
  OBVIOUS
<1>1. CASE c = "LF"
  BY <1>1 DEF Code, Byte, Text
<1>2. CASE c = "CR"
  BY <1>2 DEF Code, Byte, Text
<1>3. CASE c \notin {"LF", "CR"}
  BY <1>3 DEF Code, Byte, Text
<1> QED BY <1>1, <1>2, <1>3

\* Encoding byte by byte.
LEMMA EncodingAppend ==
    /\ Encoding(<< >>) = << >>
    /\ \A f \in Text : Encoding(f) \in Text
    /\ \A f \in Text, c \in Byte : Encoding(Append(f, c)) = Encoding(f) \o Code(c)
<1> DEFINE Codes(f) == [i \in 1..Len(f) |-> Code(f[i])]
<1>1. Encoding(<< >>) = << >>
  BY DEF Encoding, FlattenSeq
<1>2. ASSUME NEW f \in Text, NEW c \in Byte
      PROVE  Encoding(f) \in Text /\ Encoding(Append(f, c)) = Encoding(f) \o Code(c)
  <2>1. Codes(f) \in Seq(Text)
    <3>1. \A i \in 1..Len(f) : Code(f[i]) \in Text
      BY CodeText, ElementOfSeq DEF Text
    <3>2. Len(f) \in Nat
      BY DEF Text
    <3> QED BY <3>1, <3>2
  <2>2. Codes(Append(f, c)) = Append(Codes(f), Code(c))
    <3>1. PICK n \in Nat : n = Len(f)
      BY DEF Text
    <3>2. Codes(Append(f, c)) = [i \in 1..(n + 1) |-> Code(Append(f, c)[i])]
      BY <3>1, AppendProperties DEF Text
    <3>3. \A i \in 1..n : Append(f, c)[i] = f[i]
      BY <3>1, AppendProperties DEF Text
    <3>4. Append(f, c)[n + 1] = c
      BY <3>1, AppendProperties DEF Text
    <3>5. Append(Codes(f), Code(c))
            = [i \in 1..(n + 1) |-> IF i = n + 1 THEN Code(c) ELSE Codes(f)[i]]
      BY <3>1
    <3>6. ASSUME NEW i \in 1..(n + 1)
          PROVE  Code(Append(f, c)[i]) = IF i = n + 1 THEN Code(c) ELSE Codes(f)[i]
      <4>1. CASE i = n + 1
        BY <3>4, <4>1
      <4>2. CASE i # n + 1
        BY <3>1, <3>3, <4>2
      <4> QED BY <4>1, <4>2
    <3> QED BY <3>2, <3>5, <3>6
  <2>3. Code(c) \in Text
    BY CodeText
  <2>4. /\ Encoding(f) = FlattenSeq(Codes(f))
        /\ Encoding(Append(f, c)) = FlattenSeq(Codes(Append(f, c)))
    BY DEF Encoding
  <2> HIDE DEF Codes
  <2> QED BY ONLY <2>1, <2>2, <2>3, <2>4, FlattenAppend
<1>3. "x" \in Byte
  BY DEF Byte
<1> QED BY <1>1, <1>2, <1>3

-----------------------------------------------------------------------------
(* write_behind's loop *)

\* A turn of write_behind leaves a text.
LEMMA WrittenText ==
    \A f \in Text, c \in Byte, p \in Byte \cup {"none"} : Written(f, p, c) \in Text
<1> SUFFICES ASSUME NEW f \in Text, NEW c \in Byte, NEW p \in Byte \cup {"none"}
             PROVE  Written(f, p, c) \in Text
  OBVIOUS
<1>1. SubSeq(f, 1, Len(f) - 1) \in Text /\ "LF" \in Byte
  BY DEF Text, Byte
<1>2. Append(SubSeq(f, 1, Len(f) - 1), "LF") \in Text /\ Append(f, c) \in Text
  BY <1>1, AppendText
<1> QED BY <1>2 DEF Written

\* g has what write_behind's loop has made of f after each of n bytes of w.
Writes(g, f, p, w, n) ==
    g[0] = f /\ \A i \in 1..n : g[i] = Written(g[i - 1], Before(p, w, i), w[i])

\* WriteAll's table is the only one of its kind.
LEMMA WriteAllIs ==
    ASSUME NEW f, NEW p, NEW w, NEW g, Len(w) \in Nat, Writes(g, f, p, w, Len(w))
    PROVE  WriteAll(f, p, w) = g[Len(w)]
<1>a. g[0] = f /\ \A i \in 1..Len(w) : g[i] = Written(g[i - 1], Before(p, w, i), w[i])
  BY DEF Writes
<1>0. PICK n \in Nat : n = Len(w)
  OBVIOUS
<1> DEFINE Def(c) == [i \in 0..n |-> IF i = 0 THEN f
                        ELSE Written(c[i - 1], Before(p, w, i), w[i])]
           t == [i \in 0..n |-> g[i]]
           c == CHOOSE c : c = Def(c)
<1>1. WriteAll(f, p, w) = c[n]
  BY <1>0 DEF WriteAll
<1>2. t = Def(t)
  <2>1. ASSUME NEW i \in 0..n
        PROVE  g[i] = IF i = 0 THEN f
                      ELSE Written(t[i - 1], Before(p, w, i), w[i])
    <3>1. CASE i = 0
      BY <1>a, <3>1
    <3>2. CASE i # 0
      <4>1. i - 1 \in 0..n /\ i \in 1..n
        BY <3>2
      <4>2. t[i - 1] = g[i - 1]
        BY <4>1
      <4>3. g[i] = Written(g[i - 1], Before(p, w, i), w[i])
        BY <1>0, <1>a, <4>1
      <4> HIDE DEF t
      <4> QED BY <3>2, <4>2, <4>3
    <3> QED BY <3>1, <3>2
  <2> QED BY <2>1
<1>3. c = Def(c)
  <2> HIDE DEF Def, t
  <2> QED BY <1>2
<1> HIDE DEF c
<1>4. c[0] = f
  BY <1>3
<1>5. ASSUME NEW i \in 1..n, g[i - 1] = c[i - 1]
      PROVE  g[i] = c[i]
  <2>1. c[i] = Written(c[i - 1], Before(p, w, i), w[i])
    <3>1. i \in 0..n /\ i # 0
      OBVIOUS
    <3>2. c[i] = Def(c)[i]
      BY <1>3, Zenon
    <3>3. Def(c)[i] = IF i = 0 THEN f
                      ELSE Written(c[i - 1], Before(p, w, i), w[i])
      BY <3>1
    <3> QED BY <3>1, <3>2, <3>3
  <2>2. g[i] = Written(g[i - 1], Before(p, w, i), w[i])
    BY <1>0, <1>a
  <2> QED BY <1>5, <2>1, <2>2
<1>6. g[0] = c[0]
  BY <1>4, <1>a
<1>7. \A i \in 0..n : g[i] = c[i]
  BY ONLY <1>5, <1>6, n \in Nat, Agree, ZenonT(60)
<1> QED BY <1>0, <1>1, <1>7

\* What has been written after each byte.
LEMMA WriteTable ==
    ASSUME NEW f \in Text, NEW p \in Byte \cup {"none"}, NEW n \in Nat, NEW w,
           \A i \in 1..n : w[i] \in Byte
    PROVE  \E g \in [0..n -> Text] : Writes(g, f, p, w, n)
<1>1. PICK step : step = [i \in 1..n |-> [x \in Text |-> Written(x, Before(p, w, i), w[i])]]
  OBVIOUS
<1>2. ASSUME NEW i \in 1..n
      PROVE  w[i] \in Byte /\ Before(p, w, i) \in Byte \cup {"none"}
  <2>1. i = 1 \/ i - 1 \in 1..n
    OBVIOUS
  <2> QED BY <2>1 DEF Before
<1>3. step \in [1..n -> [Text -> Text]]
  <2>1. \A i \in 1..n : \A x \in Text : Written(x, Before(p, w, i), w[i]) \in Text
    BY <1>2, WrittenText
  <2> QED BY <1>1, <2>1
<1>4. PICK g \in [0..n -> Text] :
        g[0] = f /\ \A i \in 1..n : g[i] = step[i][g[i - 1]]
  BY ONLY <1>3, f \in Text, n \in Nat, Iterates
<1>5. ASSUME NEW i \in 1..n
      PROVE  g[i] = Written(g[i - 1], Before(p, w, i), w[i])
  <2>1. i - 1 \in 0..n
    OBVIOUS
  <2>2. g[i - 1] \in Text
    BY <2>1
  <2>3. step[i][g[i - 1]] = Written(g[i - 1], Before(p, w, i), w[i])
    BY <1>1, <2>2
  <2> QED BY <1>4, <2>3
<1> QED BY <1>4, <1>5 DEF Writes

\* Writing byte by byte.
LEMMA WriteAppend ==
    /\ \A f, p : WriteAll(f, p, << >>) = f
    /\ \A f \in Text, p \in Byte \cup {"none"}, w \in Text :
          /\ WriteAll(f, p, w) \in Text
          /\ \A c \in Byte :
                WriteAll(f, p, Append(w, c)) = Written(WriteAll(f, p, w), LastOf(p, w), c)
<1>1. ASSUME NEW f, NEW p
      PROVE  WriteAll(f, p, << >>) = f
  <2>1. PICK g : g = [i \in 0..0 |-> f]
    OBVIOUS
  <2>2. g[0] = f /\ Len(<< >>) = 0 /\ \A i \in 1..Len(<< >>) : FALSE
    BY <2>1
  <2>3. Len(<< >>) \in Nat /\ Writes(g, f, p, << >>, Len(<< >>))
    BY <2>2 DEF Writes
  <2>4. WriteAll(f, p, << >>) = g[Len(<< >>)]
    BY ONLY <2>3, WriteAllIs
  <2> QED BY <2>2, <2>4
<1>2. ASSUME NEW f \in Text, NEW p \in Byte \cup {"none"}, NEW w \in Text, NEW c \in Byte
      PROVE  /\ WriteAll(f, p, w) \in Text
             /\ WriteAll(f, p, Append(w, c)) = Written(WriteAll(f, p, w), LastOf(p, w), c)
  <2>1. PICK n, u : n = Len(w) /\ u = Append(w, c)
    OBVIOUS
  <2>2. /\ n \in Nat /\ n + 1 \in Nat /\ n + 1 \in 1..(n + 1) /\ n \in 0..(n + 1)
        /\ Len(u) = n + 1 /\ u[n + 1] = c
        /\ \A i \in 1..n : u[i] = w[i]
        /\ \A i \in 1..(n + 1) : u[i] \in Byte
        /\ n = 0 <=> w = << >>
    <3>1. n \in Nat /\ \A i \in 1..n : w[i] \in Byte
      BY <2>1, ElementOfSeq DEF Text
    <3>2. Len(u) = n + 1 /\ u[n + 1] = c /\ \A i \in 1..n : u[i] = w[i]
      BY <2>1, AppendProperties DEF Text
    <3>3. ASSUME NEW i \in 1..(n + 1) PROVE u[i] \in Byte
      <4>1. CASE i \in 1..n
        BY <3>1, <3>2, <4>1
      <4>2. CASE i \notin 1..n
        <5>1. i = n + 1
          BY <3>1, <4>2
        <5> QED BY ONLY <3>2, <5>1, c \in Byte
      <4> QED BY <4>1, <4>2
    <3>4. n = 0 <=> w = << >>
      BY <2>1, EmptySeq DEF Text
    <3>5. n + 1 \in Nat /\ n + 1 \in 1..(n + 1) /\ n \in 0..(n + 1)
      BY <3>1
    <3> QED BY ONLY <3>1, <3>2, <3>3, <3>4, <3>5
  <2>3. PICK g \in [0..(n + 1) -> Text] : Writes(g, f, p, u, n + 1)
    <3>1. PICK m : m = n + 1
      OBVIOUS
    <3>2. m \in Nat /\ \A i \in 1..m : u[i] \in Byte
      BY ONLY <2>2, <3>1
    <3>3. \E g \in [0..m -> Text] : Writes(g, f, p, u, m)
      BY ONLY <3>2, f \in Text, p \in Byte \cup {"none"}, WriteTable
    <3> QED BY ONLY <3>1, <3>3
  <2>4. WriteAll(f, p, u) = g[n + 1]
    <3>1. Len(u) \in Nat /\ Writes(g, f, p, u, Len(u))
      BY ONLY <2>2, <2>3
    <3>2. WriteAll(f, p, u) = g[Len(u)]
      BY ONLY <3>1, WriteAllIs
    <3> QED BY ONLY <2>2, <3>2
  <2>5. WriteAll(f, p, w) = g[n]
    <3>1. ASSUME NEW i \in 1..n
          PROVE  g[i] = Written(g[i - 1], Before(p, w, i), w[i])
      <4>1. i \in 1..(n + 1) /\ (i = 1 \/ i - 1 \in 1..n)
        BY ONLY <2>2, i \in 1..n
      <4>2. u[i] = w[i] /\ (i = 1 \/ u[i - 1] = w[i - 1])
        BY ONLY <2>2, <4>1, i \in 1..n
      <4>3. Before(p, u, i) = Before(p, w, i)
        BY ONLY <4>2 DEF Before
      <4> QED BY ONLY <2>3, <4>1, <4>2, <4>3 DEF Writes
    <3>2. Writes(g, f, p, w, n)
      BY ONLY <2>3, <3>1 DEF Writes
    <3>3. Len(w) \in Nat /\ Writes(g, f, p, w, Len(w))
      BY ONLY <2>1, <2>2, <3>2
    <3>4. WriteAll(f, p, w) = g[Len(w)]
      BY ONLY <3>3, WriteAllIs
    <3> QED BY ONLY <2>1, <3>4
  <2>6. g[n + 1] = Written(g[n], LastOf(p, w), c)
    <3>1. g[n + 1] = Written(g[(n + 1) - 1], Before(p, u, n + 1), u[n + 1])
      BY ONLY <2>2, <2>3 DEF Writes
    <3>2. (n + 1) - 1 = n /\ (n + 1 = 1 <=> n = 0) /\ (n = 0 \/ n \in 1..n)
      BY ONLY <2>2
    <3>3. LastOf(p, w) = IF n = 0 THEN p ELSE u[n]
      <4>1. LastOf(p, w) = IF n = 0 THEN p ELSE w[n]
        BY <2>1, <2>2 DEF LastOf
      <4> QED BY ONLY <2>2, <3>2, <4>1
    <3>4. Before(p, u, n + 1) = LastOf(p, w)
      BY ONLY <3>2, <3>3 DEF Before
    <3> QED BY ONLY <2>2, <3>1, <3>2, <3>4
  <2>7. g[n] \in Text
    BY ONLY <2>2, <2>3
  <2> QED BY ONLY <2>1, <2>4, <2>5, <2>6, <2>7
<1>3. "x" \in Byte
  BY DEF Byte
<1> QED BY <1>1, <1>2, <1>3

\* The same, as a rule to apply.
LEMMA WriteStep ==
    ASSUME NEW f, NEW p, NEW w, NEW c,
           f \in Text, p \in Byte \cup {"none"}, w \in Text, c \in Byte
    PROVE  WriteAll(f, p, Append(w, c)) = Written(WriteAll(f, p, w), LastOf(p, w), c)
BY WriteAppend

\* prevchar after a stream.
LEMMA LastOfFacts ==
    /\ \A p : LastOf(p, << >>) = p
    /\ \A p \in Byte \cup {"none"}, w \in Text : LastOf(p, w) \in Byte \cup {"none"}
<1>1. ASSUME NEW p PROVE LastOf(p, << >>) = p
  BY DEF LastOf
<1>2. ASSUME NEW p \in Byte \cup {"none"}, NEW w \in Text
      PROVE  LastOf(p, w) \in Byte \cup {"none"}
  <2>1. w # << >> => w[Len(w)] \in Byte
    BY EmptySeq, ElementOfSeq DEF Text
  <2> QED BY <2>1 DEF LastOf
<1> QED BY <1>1, <1>2

\* prevchar after one more byte.
LEMMA LastOfAppend ==
    \A p : \A w \in Text, c \in Byte : LastOf(p, Append(w, c)) = c
<1> SUFFICES ASSUME NEW p, NEW w \in Text, NEW c \in Byte PROVE LastOf(p, Append(w, c)) = c
  OBVIOUS
<1>1. Append(w, c) # << >> /\ Append(w, c)[Len(Append(w, c))] = c
  BY AppendProperties DEF Text
<1> QED BY <1>1 DEF LastOf

\* A stream written in two parts.
LEMMA WriteConcat ==
    ASSUME NEW f \in Text, NEW p \in Byte \cup {"none"}, NEW u \in Text
    PROVE  \A v \in Text :
              /\ LastOf(p, u \o v) = LastOf(LastOf(p, u), v)
              /\ WriteAll(f, p, u \o v) = WriteAll(WriteAll(f, p, u), LastOf(p, u), v)
<1> DEFINE Same(v) ==
              /\ LastOf(p, u \o v) = LastOf(LastOf(p, u), v)
              /\ WriteAll(f, p, u \o v) = WriteAll(WriteAll(f, p, u), LastOf(p, u), v)
           T == {v \in Text : Same(v)}
<1>1. WriteAll(f, p, u) \in Text /\ LastOf(p, u) \in Byte \cup {"none"}
  BY WriteAppend, LastOfFacts
<1>2. << >> \in T
  <2>1. u \o << >> = u /\ << >> \in Text
    BY TextFacts
  <2>2. LastOf(LastOf(p, u), << >>) = LastOf(p, u)
    BY LastOfFacts
  <2>3. WriteAll(WriteAll(f, p, u), LastOf(p, u), << >>) = WriteAll(f, p, u)
    BY WriteAppend
  <2> QED BY <2>1, <2>2, <2>3
<1>3. ASSUME NEW v \in Text, NEW c \in Byte, v \in T
      PROVE  Append(v, c) \in T
  <2>1. u \o v \in Text /\ u \o Append(v, c) = Append(u \o v, c) /\ Append(v, c) \in Text
    <3>1. u \o v \in Text
      BY TextFacts
    <3>2. u \o Append(v, c) = Append(u \o v, c)
      BY ONLY u \in Text, v \in Text, c \in Byte, ConcatAppend
    <3>3. Append(v, c) \in Text
      BY ONLY v \in Text, c \in Byte, AppendText
    <3> QED BY <3>1, <3>2, <3>3
  <2>2. LastOf(p, Append(u \o v, c)) = c /\ LastOf(LastOf(p, u), Append(v, c)) = c
    <3>1. \A q : LastOf(q, Append(u \o v, c)) = c /\ LastOf(q, Append(v, c)) = c
      BY ONLY <2>1, v \in Text, c \in Byte, LastOfAppend
    <3> QED BY ONLY <3>1
  <2>3. WriteAll(f, p, Append(u \o v, c)) = Written(WriteAll(f, p, u \o v), LastOf(p, u \o v), c)
    BY ONLY <2>1, f \in Text, p \in Byte \cup {"none"}, c \in Byte, WriteStep
  <2>4. WriteAll(WriteAll(f, p, u), LastOf(p, u), Append(v, c))
          = Written(WriteAll(WriteAll(f, p, u), LastOf(p, u), v), LastOf(LastOf(p, u), v), c)
    BY ONLY <1>1, v \in Text, c \in Byte, WriteStep
  <2>5. Same(v)
    BY <1>3
  <2> QED BY <2>1, <2>2, <2>3, <2>4, <2>5
<1>4. \A v \in Text : v \in T
  <2> HIDE DEF T
  <2> QED BY <1>2, <1>3, TextInduction
<1> QED BY <1>4

-----------------------------------------------------------------------------
(* Decoding *)

\* A byte of a stream stands for a text.
LEMMA MeaningText == \A w \in Text : \A i \in 1..Len(w) : Meaning(w, i) \in Text
<1> SUFFICES ASSUME NEW w \in Text, NEW i \in 1..Len(w) PROVE Meaning(w, i) \in Text
  OBVIOUS
<1>1. w[i] \in Byte /\ "CR" \in Byte
  BY ElementOfSeq DEF Text, Byte
<1>2. << >> \in Text /\ <<w[i]>> \in Text /\ <<"CR">> \in Text
  BY <1>1 DEF Text
<1> QED BY <1>2 DEF Meaning

\* One more byte only changes what the one before it stands for.
LEMMA MeaningAppend ==
    ASSUME NEW w \in Text, NEW c \in Byte, NEW i \in 1..Len(w),
           i < Len(w) \/ ~EndsPair(Append(w, c), i + 1)
    PROVE  Meaning(Append(w, c), i) = Meaning(w, i)
<1>1. PICK u : u = Append(w, c)
  OBVIOUS
<1>2. Len(w) \in Nat /\ Len(u) = Len(w) + 1 /\ \A j \in 1..Len(w) : u[j] = w[j]
  BY <1>1, AppendProperties DEF Text
<1>3. ASSUME NEW j \in 1..Len(w) PROVE EndsPair(u, j) <=> EndsPair(w, j)
  <2>1. j \in 2..Len(w) <=> j \in 2..Len(u)
    BY <1>2
  <2>2. j \in 2..Len(w) => j - 1 \in 1..Len(w)
    BY <1>2
  <2> QED BY <1>2, <2>1, <2>2 DEF EndsPair
<1>4. EndsPair(u, i + 1) <=> EndsPair(w, i + 1)
  <2>1. CASE i < Len(w)
    <3>1. i + 1 \in 1..Len(w)
      BY <1>2, <2>1
    <3> QED BY <1>3, <3>1
  <2>2. CASE ~(i < Len(w))
    <3>1. i + 1 \notin 2..Len(w)
      BY <1>2, <2>2
    <3>2. ~EndsPair(u, i + 1)
      BY <1>1, <2>2
    <3> QED BY <3>1, <3>2 DEF EndsPair
  <2> QED BY <2>1, <2>2
<1>5. u[i] = w[i] /\ (EndsPair(u, i) <=> EndsPair(w, i))
  BY <1>2, <1>3
<1>6. Meaning(u, i) = Meaning(w, i)
  BY ONLY <1>4, <1>5 DEF Meaning
<1> QED BY <1>1, <1>6

\* What the first n bytes of w stand for.
Meanings(w, n) == [i \in 1..n |-> Meaning(w, i)]

\* One more meaning.
LEMMA MeaningsAppend ==
    ASSUME NEW w, NEW n \in Nat, \A i \in 1..(n + 1) : Meaning(w, i) \in Text
    PROVE  /\ Meanings(w, n) \in Seq(Text)
           /\ Meanings(w, n + 1) = Append(Meanings(w, n), Meaning(w, n + 1))
<1>1. Meanings(w, n) \in Seq(Text)
  BY DEF Meanings
<1>2. Append(Meanings(w, n), Meaning(w, n + 1))
        = [i \in 1..(n + 1) |-> IF i = n + 1 THEN Meaning(w, n + 1) ELSE Meanings(w, n)[i]]
  BY DEF Meanings
<1>3. ASSUME NEW i \in 1..(n + 1)
      PROVE  Meaning(w, i) = IF i = n + 1 THEN Meaning(w, n + 1) ELSE Meanings(w, n)[i]
  BY DEF Meanings
<1>4. Meanings(w, n + 1) = [i \in 1..(n + 1) |-> Meaning(w, i)]
  BY DEF Meanings
<1> QED BY <1>1, <1>2, <1>3, <1>4

\* The first n bytes of w and what comes of them.
LEMMA FlattenMeanings ==
    ASSUME NEW w, NEW n \in Nat, \A i \in 1..(n + 1) : Meaning(w, i) \in Text
    PROVE  /\ FlattenSeq(Meanings(w, n)) \in Text
           /\ FlattenSeq(Meanings(w, n + 1)) = FlattenSeq(Meanings(w, n)) \o Meaning(w, n + 1)
<1>1. Meanings(w, n) \in Seq(Text)
  BY MeaningsAppend
<1>2. Meanings(w, n + 1) = Append(Meanings(w, n), Meaning(w, n + 1))
  BY MeaningsAppend
<1>3. Meaning(w, n + 1) \in Text
  OBVIOUS
<1> QED BY ONLY <1>1, <1>2, <1>3, FlattenAppend

\* Decoding byte by byte: what write_behind's turn does to the file.
LEMMA DecodingAppend ==
    /\ Decoding(<< >>) = << >>
    /\ \A w \in Text :
          /\ Decoding(w) \in Text
          /\ \A c \in Byte : Decoding(Append(w, c)) = Written(Decoding(w), LastOf("none", w), c)
<1>1. Decoding(<< >>) = << >>
  BY DEF Decoding, FlattenSeq
<1>2. \A w : Decoding(w) = FlattenSeq(Meanings(w, Len(w)))
  BY DEF Decoding, Meanings
<1>3. ASSUME NEW w \in Text PROVE Decoding(w) \in Text
  <2>1. CASE w = << >>
    BY <1>1, <2>1, TextFacts
  <2>2. CASE w # << >>
    <3>1. PICK n \in Nat : n + 1 = Len(w)
      <4>1. Len(w) \in Nat /\ Len(w) # 0
        BY <2>2, EmptySeq DEF Text
      <4>2. Len(w) - 1 \in Nat /\ (Len(w) - 1) + 1 = Len(w)
        BY <4>1
      <4> QED BY <4>2
    <3>2. \A i \in 1..(n + 1) : Meaning(w, i) \in Text
      BY <3>1, MeaningText
    <3>3. FlattenSeq(Meanings(w, n)) \in Text
          /\ FlattenSeq(Meanings(w, n + 1)) = FlattenSeq(Meanings(w, n)) \o Meaning(w, n + 1)
      BY ONLY <3>2, n \in Nat, FlattenMeanings
    <3>4. n + 1 \in 1..(n + 1)
      OBVIOUS
    <3> QED BY ONLY <1>2, <3>1, <3>2, <3>3, <3>4, TextFacts
  <2> QED BY <2>1, <2>2
<1>4. ASSUME NEW w \in Text, NEW c \in Byte
      PROVE  Decoding(Append(w, c)) = Written(Decoding(w), LastOf("none", w), c)
  <2>1. PICK n, u : n = Len(w) /\ u = Append(w, c)
    OBVIOUS
  <2>2. /\ n \in Nat /\ u \in Text /\ Len(u) = n + 1 /\ u[n + 1] = c
        /\ \A i \in 1..n : u[i] = w[i]
        /\ n = 0 <=> w = << >>
    BY <2>1, AppendProperties, EmptySeq, AppendText DEF Text
  <2>3. /\ \A i \in 1..(n + 1) : Meaning(u, i) \in Text
        /\ \A i \in 1..n : Meaning(w, i) \in Text
    BY <2>1, <2>2, MeaningText
  <2>4. Decoding(u) = FlattenSeq(Meanings(u, n)) \o Meaning(u, n + 1)
    <3>1. FlattenSeq(Meanings(u, n + 1)) = FlattenSeq(Meanings(u, n)) \o Meaning(u, n + 1)
      BY ONLY <2>2, <2>3, FlattenMeanings
    <3> QED BY ONLY <1>2, <2>2, <3>1
  <2>5. ~EndsPair(u, n + 2)
    BY <2>2 DEF EndsPair
  <2>6. EndsPair(u, n + 1) <=> LastOf("none", w) = "CR" /\ c \in {"LF", "NUL"}
    <3>1. CASE n = 0
      BY <2>2, <3>1 DEF EndsPair, LastOf
    <3>2. CASE n # 0
      <4>1. n \in 1..n /\ n + 1 \in 2..(n + 1) /\ (n + 1) - 1 = n /\ w # << >>
        BY <2>2, <3>2
      <4>2. LastOf("none", w) = u[n]
        BY <2>1, <2>2, <4>1 DEF LastOf
      <4> QED BY ONLY <2>2, <4>1, <4>2 DEF EndsPair
    <3> QED BY <3>1, <3>2
  <2>7. Meaning(u, n + 1) = IF EndsPair(u, n + 1) /\ c = "NUL" THEN <<"CR">> ELSE <<c>>
    <3>1. (n + 1) + 1 = n + 2
      BY <2>2
    <3> QED BY ONLY <2>2, <2>5, <3>1 DEF Meaning
  <2>8. CASE ~EndsPair(u, n + 1)
    <3>1. Meanings(u, n) = Meanings(w, n)
      <4>1. ASSUME NEW i \in 1..n PROVE Meaning(u, i) = Meaning(w, i)
        <5>1. i \in 1..Len(w)
          BY <2>1
        <5>2. i < Len(w) \/ ~EndsPair(u, i + 1)
          BY <2>1, <2>2, <2>8
        <5> QED BY <2>1, <5>1, <5>2, MeaningAppend
      <4> QED BY ONLY <4>1 DEF Meanings
    <3>2. Decoding(u) = Decoding(w) \o <<c>>
      BY ONLY <1>2, <2>1, <2>4, <2>7, <2>8, <3>1
    <3>3. Decoding(w) \o <<c>> = Append(Decoding(w), c)
      BY <1>3, AppendText
    <3>4. Written(Decoding(w), LastOf("none", w), c) = Append(Decoding(w), c)
      <4>1. ~(LastOf("none", w) = "CR" /\ c = "LF") /\ ~(LastOf("none", w) = "CR" /\ c = "NUL")
        BY <2>6, <2>8
      <4> QED BY ONLY <4>1 DEF Written
    <3> QED BY ONLY <2>1, <3>2, <3>3, <3>4
  <2>9. CASE EndsPair(u, n + 1)
    <3>1. /\ LastOf("none", w) = "CR" /\ c \in {"LF", "NUL"}
      BY <2>6, <2>9
    <3>2. n # 0 /\ w # << >> /\ w[n] = "CR" /\ n \in 1..n
      <4>1. w # << >>
        BY <3>1 DEF LastOf
      <4> QED BY <2>1, <2>2, <3>1, <4>1 DEF LastOf
    <3>3. PICK k \in Nat : n = k + 1 /\ k \in 0..n
      <4>1. n - 1 \in Nat /\ n = (n - 1) + 1 /\ n - 1 \in 0..n
        BY <2>2, <3>2
      <4> QED BY <4>1
    <3>4. Meanings(u, k) = Meanings(w, k)
      <4>1. ASSUME NEW i \in 1..k PROVE Meaning(u, i) = Meaning(w, i)
        <5>1. i \in 1..Len(w) /\ i < Len(w)
          BY <2>1, <3>3
        <5> QED BY <2>1, <5>1, MeaningAppend
      <4> QED BY ONLY <4>1 DEF Meanings
    <3>5. PICK P : P = FlattenSeq(Meanings(w, k))
      OBVIOUS
    <3>6. P \in Text /\ FlattenSeq(Meanings(w, k + 1)) = P \o Meaning(w, k + 1)
      <4>1. \A i \in 1..(k + 1) : Meaning(w, i) \in Text
        BY ONLY <2>3, <3>3
      <4> QED BY ONLY <3>5, <4>1, k \in Nat, FlattenMeanings
    <3>7. FlattenSeq(Meanings(u, k + 1)) = P \o Meaning(u, k + 1)
      <4>1. \A i \in 1..(k + 1) : Meaning(u, i) \in Text
        BY <2>2, <2>3, <3>3
      <4>2. FlattenSeq(Meanings(u, k + 1)) = FlattenSeq(Meanings(u, k)) \o Meaning(u, k + 1)
        BY ONLY <4>1, k \in Nat, FlattenMeanings
      <4> QED BY ONLY <3>4, <3>5, <4>2
    <3>8. Meaning(w, n) = <<"CR">>
      <4>1. ~EndsPair(w, n + 1)
        BY <2>1, <2>2 DEF EndsPair
      <4>2. ~EndsPair(w, n)
        BY <3>2 DEF EndsPair
      <4> QED BY ONLY <3>2, <4>1, <4>2 DEF Meaning
    <3>9. Meaning(u, n) = << >>
      <4>1. u[n] # "NUL"
        BY <2>2, <3>2
      <4> QED BY ONLY <2>9, <4>1 DEF Meaning
    <3>10. Decoding(w) = P \o <<"CR">>
      BY ONLY <1>2, <2>1, <3>3, <3>6, <3>8
    <3>11. Decoding(u) = P \o Meaning(u, n + 1)
      <4>1. FlattenSeq(Meanings(u, n)) = P
        <5>1. FlattenSeq(Meanings(u, n)) = P \o << >>
          BY ONLY <3>3, <3>7, <3>9
        <5> QED BY ONLY <3>6, <5>1, TextFacts
      <4> QED BY ONLY <2>4, <4>1
    <3>12. Decoding(w) = Append(P, "CR") /\ SubSeq(Decoding(w), 1, Len(Decoding(w)) - 1) = P
      <4>1. "CR" \in Byte
        BY DEF Byte
      <4> QED BY ONLY <3>6, <3>10, <4>1, AppendText, FrontText
    <3>13. CASE c = "LF"
      <4>1. Written(Decoding(w), LastOf("none", w), c) = Append(P, "LF")
        BY ONLY <3>1, <3>12, <3>13 DEF Written
      <4>2. Meaning(u, n + 1) = <<"LF">>
        BY ONLY <2>7, <3>13
      <4>3. P \o <<"LF">> = Append(P, "LF")
        BY ONLY <3>6, <3>13, c \in Byte, AppendText
      <4> QED BY ONLY <2>1, <3>11, <4>1, <4>2, <4>3
    <3>14. CASE c = "NUL"
      <4>1. Written(Decoding(w), LastOf("none", w), c) = Decoding(w)
        BY ONLY <3>1, <3>14 DEF Written
      <4>2. Meaning(u, n + 1) = <<"CR">>
        BY ONLY <2>7, <2>9, <3>14
      <4> QED BY ONLY <2>1, <3>10, <3>11, <4>1, <4>2
    <3> QED BY <3>1, <3>13, <3>14
  <2> QED BY <2>8, <2>9
<1>5. "x" \in Byte
  BY DEF Byte
<1> QED BY <1>1, <1>3, <1>4, <1>5

\* Writing a stream to an empty file is decoding it.
LEMMA WriteIsDecoding == \A w \in Text : WriteAll(<< >>, "none", w) = Decoding(w)
<1> DEFINE T == {w \in Text : WriteAll(<< >>, "none", w) = Decoding(w)}
<1>1. << >> \in T
  <2>1. << >> \in Text
    BY TextFacts
  <2> QED BY <2>1, WriteAppend, DecodingAppend
<1>2. ASSUME NEW w \in Text, NEW c \in Byte, w \in T
      PROVE  Append(w, c) \in T
  <2>1. Append(w, c) \in Text /\ << >> \in Text
    BY AppendText, TextFacts
  <2>2. WriteAll(<< >>, "none", Append(w, c))
          = Written(WriteAll(<< >>, "none", w), LastOf("none", w), c)
    <3>1. "none" \in Byte \cup {"none"}
      OBVIOUS
    <3> QED BY ONLY <2>1, <3>1, w \in Text, c \in Byte, WriteStep
  <2>3. Decoding(Append(w, c)) = Written(Decoding(w), LastOf("none", w), c)
    BY DecodingAppend
  <2> QED BY <1>2, <2>1, <2>2, <2>3
<1>3. \A w \in Text : w \in T
  <2> HIDE DEF T
  <2> QED BY <1>1, <1>2, TextInduction
<1> QED BY <1>3

-----------------------------------------------------------------------------
(* Decoding what was encoded *)

\* The code of a byte is written as that byte.
LEMMA WriteCode ==
    ASSUME NEW f \in Text, NEW p \in (Byte \cup {"none"}) \ {"CR"}, NEW c \in Byte
    PROVE  /\ WriteAll(f, p, Code(c)) = Append(f, c)
           /\ LastOf(p, Code(c)) # "CR"
<1>1. << >> \in Text /\ Append(f, "CR") \in Text /\ "CR" \in Byte /\ "LF" \in Byte
      /\ "NUL" \in Byte
  <2>1. "CR" \in Byte /\ "LF" \in Byte /\ "NUL" \in Byte
    BY DEF Byte
  <2> QED BY <2>1, TextFacts, AppendText
<1>2. \A d \in Byte : Append(<< >>, d) = <<d>> /\ <<d>> \in Text
  <2>1. \A d \in Byte : Append(<< >>, d) = <<d>>
    OBVIOUS
  <2> QED BY <1>1, <2>1, AppendText
<1>3. \A d \in Byte : WriteAll(f, p, <<d>>) = Append(f, d) /\ LastOf(p, <<d>>) = d
  <2>1. ASSUME NEW d \in Byte
        PROVE  WriteAll(f, p, Append(<< >>, d)) = Append(f, d) /\ LastOf(p, Append(<< >>, d)) = d
    <3>1. WriteAll(f, p, << >>) = f /\ LastOf(p, << >>) = p
      BY WriteAppend, LastOfFacts
    <3>2. WriteAll(f, p, Append(<< >>, d)) = Written(f, p, d)
      <4>1. PICK e : e = << >>
        OBVIOUS
      <4>2. e \in Text /\ p \in Byte \cup {"none"}
        BY <1>1, <4>1
      <4>3. WriteAll(f, p, Append(e, d)) = Written(WriteAll(f, p, e), LastOf(p, e), d)
        BY ONLY <4>2, f \in Text, d \in Byte, WriteStep
      <4> QED BY ONLY <3>1, <4>1, <4>3
    <3>3. Written(f, p, d) = Append(f, d)
      BY DEF Written
    <3>4. LastOf(p, Append(<< >>, d)) = d
      BY ONLY <1>1, d \in Byte, LastOfAppend
    <3> QED BY <3>2, <3>3, <3>4
  <2> QED BY <1>2, <2>1
<1>4. \A d \in Byte : WriteAll(f, p, <<"CR", d>>) = Written(Append(f, "CR"), "CR", d)
                      /\ LastOf(p, <<"CR", d>>) = d
  <2> SUFFICES ASSUME NEW d \in Byte
               PROVE  WriteAll(f, p, <<"CR", d>>) = Written(Append(f, "CR"), "CR", d)
                      /\ LastOf(p, <<"CR", d>>) = d
    OBVIOUS
  <2>1. <<"CR", d>> = Append(<<"CR">>, d) /\ <<"CR">> \in Text
    BY <1>1, <1>2
  <2>2. WriteAll(f, p, Append(<<"CR">>, d))
          = Written(WriteAll(f, p, <<"CR">>), LastOf(p, <<"CR">>), d)
    <3>1. p \in Byte \cup {"none"}
      OBVIOUS
    <3> QED BY ONLY <2>1, <3>1, f \in Text, d \in Byte, WriteStep
  <2>3. LastOf(p, Append(<<"CR">>, d)) = d
    BY ONLY <2>1, d \in Byte, LastOfAppend
  <2> QED BY <1>1, <1>3, <2>1, <2>2, <2>3
<1>5. CASE c = "LF"
  <2>1. Code(c) = <<"CR", "LF">>
    BY <1>5 DEF Code
  <2>2. Written(Append(f, "CR"), "CR", "LF") = Append(f, "LF")
    <3>1. SubSeq(Append(f, "CR"), 1, Len(Append(f, "CR")) - 1) = f
      BY <1>1, FrontText
    <3> QED BY <3>1 DEF Written
  <2>3. WriteAll(f, p, <<"CR", "LF">>) = Written(Append(f, "CR"), "CR", "LF")
        /\ LastOf(p, <<"CR", "LF">>) = "LF"
    BY <1>1, <1>4
  <2> QED BY ONLY <1>5, <2>1, <2>2, <2>3
<1>6. CASE c = "CR"
  <2>1. Code(c) = <<"CR", "NUL">>
    BY <1>6 DEF Code
  <2>2. Written(Append(f, "CR"), "CR", "NUL") = Append(f, "CR")
    BY DEF Written
  <2>3. WriteAll(f, p, <<"CR", "NUL">>) = Written(Append(f, "CR"), "CR", "NUL")
        /\ LastOf(p, <<"CR", "NUL">>) = "NUL"
    BY <1>1, <1>4
  <2> QED BY ONLY <1>6, <2>1, <2>2, <2>3
<1>7. CASE c \notin {"LF", "CR"}
  <2>1. Code(c) = <<c>>
    BY <1>7 DEF Code
  <2> QED BY <1>3, <1>7, <2>1
<1> QED BY <1>5, <1>6, <1>7

\* An upload of what a download makes of a file stores that file again.
LEMMA WriteEncoding ==
    \A f \in Text :
       /\ WriteAll(<< >>, "none", Encoding(f)) = f
       /\ LastOf("none", Encoding(f)) # "CR"
<1> DEFINE Back(f) == /\ WriteAll(<< >>, "none", Encoding(f)) = f
                      /\ LastOf("none", Encoding(f)) # "CR"
           T == {f \in Text : Back(f)}
<1>1. << >> \in T
  <2>1. << >> \in Text
    BY TextFacts
  <2>2. WriteAll(<< >>, "none", << >>) = << >> /\ LastOf("none", << >>) = "none"
    BY WriteAppend, LastOfFacts
  <2> QED BY <2>1, <2>2, EncodingAppend
<1>2. ASSUME NEW f \in Text, NEW c \in Byte, f \in T
      PROVE  Append(f, c) \in T
  <2>1. PICK u, v : u = Encoding(f) /\ v = Code(c)
    OBVIOUS
  <2>2. /\ Encoding(Append(f, c)) = u \o v /\ u \in Text /\ v \in Text
        /\ << >> \in Text /\ Append(f, c) \in Text
    BY <2>1, EncodingAppend, CodeText, TextFacts, AppendText
  <2>3. WriteAll(<< >>, "none", u) = f /\ LastOf("none", u) # "CR"
    BY <1>2, <2>1
  <2>4. LastOf("none", u) \in (Byte \cup {"none"}) \ {"CR"}
    BY <2>2, <2>3, LastOfFacts
  <2>5. WriteAll(f, LastOf("none", u), v) = Append(f, c) /\ LastOf(LastOf("none", u), v) # "CR"
    BY <2>1, <2>4, WriteCode
  <2>6. /\ LastOf("none", u \o v) = LastOf(LastOf("none", u), v)
        /\ WriteAll(<< >>, "none", u \o v)
             = WriteAll(WriteAll(<< >>, "none", u), LastOf("none", u), v)
    <3>1. "none" \in Byte \cup {"none"}
      OBVIOUS
    <3> QED BY ONLY <2>2, <3>1, WriteConcat
  <2>7. Back(Append(f, c))
    BY ONLY <2>2, <2>3, <2>5, <2>6
  <2> HIDE DEF Back
  <2> QED BY <2>2, <2>7
<1>3. \A f \in Text : f \in T
  <2> HIDE DEF T
  <2> QED BY <1>1, <1>2, TextInduction
<1> QED BY <1>3

-----------------------------------------------------------------------------
(* read_ahead's loop *)

\* The second half of a pair that is still to be sent.
Half(nl, prev) == IF nl THEN <<IF prev = "LF" THEN "LF" ELSE "NUL">> ELSE << >>

\* A state of the loop: what has been sent, with the half pair, is the encoding
\* of what has been read.
Loop ==
    {st \in [rptr : 0..Len(input), newline : BOOLEAN,
             prevchar : Byte \cup {"none"}, out : Text] :
       /\ st.newline => st.prevchar \in {"CR", "LF"}
       /\ (wire \o st.out) \o Half(st.newline, st.prevchar)
            = Encoding(SubSeq(input, 1, st.rptr))}

\* Each turn puts a byte, or the file is at its end with nothing left to send.
Turned(st, i) ==
    \/ Len(st.out) = i
    \/ Len(st.out) < i /\ ~st.newline /\ st.rptr = Len(input)

\* When a record is such a state.
LEMMA LoopRecord ==
    ASSUME NEW r, NEW nl, NEW p, NEW o, NEW h,
           r \in 0..Len(input), nl \in BOOLEAN, p \in Byte \cup {"none"}, o \in Text,
           nl => p \in {"CR", "LF"}, h = Half(nl, p),
           (wire \o o) \o h = Encoding(SubSeq(input, 1, r))
    PROVE  [rptr |-> r, newline |-> nl, prevchar |-> p, out |-> o] \in Loop
<1>1. PICK st : st = [rptr |-> r, newline |-> nl, prevchar |-> p, out |-> o]
  OBVIOUS
<1>2. st.rptr = r /\ st.newline = nl /\ st.prevchar = p /\ st.out = o
  BY ONLY <1>1
<1>3. st \in [rptr : 0..Len(input), newline : BOOLEAN,
              prevchar : Byte \cup {"none"}, out : Text]
  BY ONLY <1>1, r \in 0..Len(input), nl \in BOOLEAN, p \in Byte \cup {"none"}, o \in Text
<1>4. (wire \o st.out) \o Half(st.newline, st.prevchar) = Encoding(SubSeq(input, 1, st.rptr))
  BY ONLY <1>2, h = Half(nl, p), (wire \o o) \o h = Encoding(SubSeq(input, 1, r))
<1>5. st.newline => st.prevchar \in {"CR", "LF"}
  BY ONLY <1>2, nl => p \in {"CR", "LF"}
<1> QED BY <1>1, <1>3, <1>4, <1>5 DEF Loop

\* Reading one more byte of the file.
LEMMA EncodingNext ==
    ASSUME input \in Text, NEW r \in 0..Len(input), r < Len(input)
    PROVE  /\ input[r + 1] \in Byte
           /\ Encoding(SubSeq(input, 1, r)) \in Text
           /\ Encoding(SubSeq(input, 1, r + 1))
                = Encoding(SubSeq(input, 1, r)) \o Code(input[r + 1])
<1>1. SubSeq(input, 1, r) \in Text /\ input[r + 1] \in Byte
  <2> HIDE DEF Byte
  <2> QED BY DEF Text
<1>2. SubSeq(input, 1, r + 1) = Append(SubSeq(input, 1, r), input[r + 1])
  <2> HIDE DEF Byte
  <2> QED BY DEF Text
<1> QED BY <1>1, <1>2, EncodingAppend

\* Sending one more byte, with or without another one to follow.
LEMMA HalfAppend ==
    ASSUME NEW w \in Text, NEW o \in Text, NEW a \in Byte, NEW b \in Byte
    PROVE  /\ (w \o Append(o, a)) \o << >> = (w \o o) \o <<a>>
           /\ (w \o Append(o, a)) \o <<b>> = (w \o o) \o <<a, b>>
<1>1. PICK e : e = w \o o
  OBVIOUS
<1>2. e \in Text /\ Append(e, a) \in Text /\ w \o Append(o, a) = Append(e, a)
  BY <1>1, TextFacts, AppendText, ConcatAppend
<1>3. Append(e, a) \o << >> = Append(e, a)
  BY <1>2, TextFacts
<1>4. Append(e, a) = e \o <<a>>
  BY <1>2, AppendText
<1>5. PICK s, t : s = <<a>> /\ t = <<a, b>>
  OBVIOUS
<1>6. s \in Text /\ t = Append(s, b)
  BY <1>5 DEF Text
<1>7. Append(e, a) \o <<b>> = Append(Append(e, a), b)
  BY <1>2, AppendText
<1>8. e \o Append(s, b) = Append(e \o s, b)
  BY ONLY <1>2, <1>6, b \in Byte, ConcatAppend
<1> QED BY ONLY <1>1, <1>2, <1>3, <1>4, <1>5, <1>6, <1>7, <1>8

\* A turn of the loop.
LEMMA PutStep ==
    ASSUME input \in Text, wire \in Text, NEW st \in Loop
    PROVE  /\ Put(st) \in Loop
           /\ \A i \in Nat : Turned(st, i) => Turned(Put(st), i + 1)
<1>0. /\ st.rptr \in 0..Len(input) /\ st.newline \in BOOLEAN
      /\ st.prevchar \in Byte \cup {"none"} /\ st.out \in Text
      /\ st.newline => st.prevchar \in {"CR", "LF"}
      /\ (wire \o st.out) \o Half(st.newline, st.prevchar)
           = Encoding(SubSeq(input, 1, st.rptr))
      /\ st = [rptr |-> st.rptr, newline |-> st.newline,
               prevchar |-> st.prevchar, out |-> st.out]
  BY DEF Loop
<1>a. "CR" \in Byte /\ "LF" \in Byte /\ "NUL" \in Byte
  BY DEF Byte
<1>b. Len(input) \in Nat /\ Len(st.out) \in Nat
      /\ \A a : Len(Append(st.out, a)) = Len(st.out) + 1
  BY <1>0 DEF Text
<1>1. CASE st.newline
  <2>1. PICK a \in Byte : a = IF st.prevchar = "LF" THEN "LF" ELSE "NUL"
    BY <1>a
  <2>2. Put(st) = [rptr |-> st.rptr, newline |-> FALSE,
                   prevchar |-> st.prevchar, out |-> Append(st.out, a)]
    <3>1. Put(st) = [st EXCEPT !.newline = FALSE, !.out = Append(@, a)]
      BY ONLY <1>1, <2>1 DEF Put
    <3> QED BY ONLY <1>0, <3>1
  <2>3. Append(st.out, a) \in Text
    BY <1>0, AppendText
  <2>4. (wire \o Append(st.out, a)) \o << >> = (wire \o st.out) \o <<a>>
    BY <1>0, <2>1, HalfAppend
  <2>5. Half(FALSE, st.prevchar) = << >> /\ Half(st.newline, st.prevchar) = <<a>>
    BY <1>1, <2>1 DEF Half
  <2>6. Put(st) \in Loop
    <3>1. (wire \o Append(st.out, a)) \o << >> = Encoding(SubSeq(input, 1, st.rptr))
      BY ONLY <1>0, <2>4, <2>5
    <3>2. FALSE \in BOOLEAN
      OBVIOUS
    <3>3. [rptr |-> st.rptr, newline |-> FALSE, prevchar |-> st.prevchar,
           out |-> Append(st.out, a)] \in Loop
      BY ONLY <1>0, <2>3, <2>5, <3>1, <3>2, LoopRecord
    <3> QED BY ONLY <2>2, <3>3
  <2>7. ASSUME NEW i \in Nat, Turned(st, i) PROVE Turned(Put(st), i + 1)
    BY <1>1, <1>b, <2>2, <2>7 DEF Turned
  <2> QED BY <2>6, <2>7
<1>2. CASE ~st.newline /\ st.rptr < Len(input)
  <2>1. PICK c, e : c = input[st.rptr + 1] /\ e = Encoding(SubSeq(input, 1, st.rptr))
    OBVIOUS
  <2>2. /\ c \in Byte /\ e \in Text /\ st.rptr + 1 \in 0..Len(input)
        /\ Encoding(SubSeq(input, 1, st.rptr + 1)) = e \o Code(c)
    <3>1. st.rptr + 1 \in 0..Len(input)
      BY <1>0, <1>2, <1>b
    <3>2. /\ input[st.rptr + 1] \in Byte
          /\ Encoding(SubSeq(input, 1, st.rptr)) \in Text
          /\ Encoding(SubSeq(input, 1, st.rptr + 1))
               = Encoding(SubSeq(input, 1, st.rptr)) \o Code(input[st.rptr + 1])
      <4>1. PICK r : r = st.rptr
        OBVIOUS
      <4>2. r \in 0..Len(input) /\ r < Len(input)
        BY <1>0, <1>2, <4>1
      <4> QED BY ONLY <4>1, <4>2, input \in Text, EncodingNext
    <3> QED BY ONLY <2>1, <3>1, <3>2
  <2>3. e = wire \o st.out
    <3>1. Half(st.newline, st.prevchar) = << >>
      BY <1>2 DEF Half
    <3>2. wire \o st.out \in Text
      BY <1>0, TextFacts
    <3> QED BY <1>0, <2>1, <3>1, <3>2, TextFacts
  <2>4. CASE c \in {"CR", "LF"}
    <3>1. PICK b \in Byte : b = IF c = "LF" THEN "LF" ELSE "NUL"
      BY <1>a
    <3>2. Put(st) = [rptr |-> st.rptr + 1, newline |-> TRUE,
                     prevchar |-> c, out |-> Append(st.out, "CR")]
      <4>1. Put(st) = [st EXCEPT !.rptr = @ + 1, !.newline = TRUE, !.prevchar = c,
                                 !.out = Append(@, "CR")]
        BY ONLY <1>2, <2>1, <2>4 DEF Put
      <4> QED BY ONLY <1>0, <4>1
    <3>3. Append(st.out, "CR") \in Text
      BY <1>0, <1>a, AppendText
    <3>4. (wire \o Append(st.out, "CR")) \o <<b>> = (wire \o st.out) \o <<"CR", b>>
      BY ONLY <1>0, <1>a, wire \in Text, b \in Byte, HalfAppend, ZenonT(30)
    <3>5. Half(TRUE, c) = <<b>> /\ Code(c) = <<"CR", b>>
      BY <2>4, <3>1 DEF Half, Code
    <3>6. Put(st) \in Loop
      <4>1. (wire \o Append(st.out, "CR")) \o <<b>> = Encoding(SubSeq(input, 1, st.rptr + 1))
        BY ONLY <2>2, <2>3, <3>4, <3>5
      <4>2. TRUE \in BOOLEAN /\ c \in Byte \cup {"none"}
        BY <2>2
      <4>3. [rptr |-> st.rptr + 1, newline |-> TRUE, prevchar |-> c,
             out |-> Append(st.out, "CR")] \in Loop
        BY ONLY <2>2, <2>4, <3>3, <3>5, <4>1, <4>2, LoopRecord
      <4> QED BY ONLY <3>2, <4>3
    <3>7. ASSUME NEW i \in Nat, Turned(st, i) PROVE Turned(Put(st), i + 1)
      BY <1>0, <1>2, <1>b, <3>2, <3>7 DEF Turned
    <3> QED BY <3>6, <3>7
  <2>5. CASE c \notin {"CR", "LF"}
    <3>1. Put(st) = [rptr |-> st.rptr + 1, newline |-> FALSE,
                     prevchar |-> st.prevchar, out |-> Append(st.out, c)]
      <4>1. Put(st) = [st EXCEPT !.rptr = @ + 1, !.out = Append(@, c)]
        BY ONLY <1>2, <2>1, <2>5 DEF Put
      <4> QED BY ONLY <1>0, <1>2, <4>1
    <3>2. Append(st.out, c) \in Text
      BY <1>0, <2>2, AppendText
    <3>3. (wire \o Append(st.out, c)) \o << >> = (wire \o st.out) \o <<c>>
      BY <1>0, <2>2, HalfAppend
    <3>4. Half(FALSE, st.prevchar) = << >> /\ Code(c) = <<c>>
      BY <2>5 DEF Half, Code
    <3>5. Put(st) \in Loop
      <4>1. (wire \o Append(st.out, c)) \o << >> = Encoding(SubSeq(input, 1, st.rptr + 1))
        BY ONLY <2>2, <2>3, <3>3, <3>4
      <4>2. FALSE \in BOOLEAN
        OBVIOUS
      <4>3. [rptr |-> st.rptr + 1, newline |-> FALSE, prevchar |-> st.prevchar,
             out |-> Append(st.out, c)] \in Loop
        BY ONLY <1>0, <2>2, <3>2, <3>4, <4>1, <4>2, LoopRecord
      <4> QED BY ONLY <3>1, <4>3
    <3>6. ASSUME NEW i \in Nat, Turned(st, i) PROVE Turned(Put(st), i + 1)
      BY <1>0, <1>2, <1>b, <3>1, <3>6 DEF Turned
    <3> QED BY <3>5, <3>6
  <2> QED BY <2>4, <2>5
<1>3. CASE ~st.newline /\ ~(st.rptr < Len(input))
  <2>1. Put(st) = st
    BY <1>3 DEF Put
  <2>2. st.rptr = Len(input)
    BY <1>0, <1>b, <1>3
  <2>3. ASSUME NEW i \in Nat, Turned(st, i) PROVE Turned(st, i + 1)
    BY <1>3, <1>b, <2>2, <2>3 DEF Turned
  <2> QED BY <2>1, <2>3
<1> QED BY <1>1, <1>2, <1>3

\* g has the states of the loop after each of n turns.
Turns(g, st, n) == g[0] = st /\ \A i \in 1..n : g[i] = Put(g[i - 1])

\* The state in which a call of read_ahead enters the loop.
Start(nl) == [rptr |-> rptr, newline |-> nl, prevchar |-> prevchar, out |-> << >>]

\* Filled's table is the only one of its kind.
LEMMA FilledIs ==
    ASSUME NEW nl, NEW g, Turns(g, Start(nl), SegSize)
    PROVE  Filled(nl) = g[SegSize]
<1>0. PICK n, st : n = SegSize /\ st = Start(nl)
  OBVIOUS
<1>1. n \in Nat /\ g[0] = st /\ \A i \in 1..n : g[i] = Put(g[i - 1])
  BY <1>0, NetasciiAssumption DEF Turns
<1> DEFINE Def(c) == [i \in 0..n |-> IF i = 0 THEN st ELSE Put(c[i - 1])]
           t == [i \in 0..n |-> g[i]]
           c == CHOOSE c : c = Def(c)
<1>2. Filled(nl) = c[n]
  BY <1>0 DEF Filled, Start
<1>3. t = Def(t)
  <2>1. ASSUME NEW i \in 0..n
        PROVE  g[i] = IF i = 0 THEN st ELSE Put(t[i - 1])
    <3>1. CASE i = 0
      BY <1>1, <3>1
    <3>2. CASE i # 0
      <4>1. i - 1 \in 0..n /\ i \in 1..n
        BY <1>1, <3>2
      <4>2. t[i - 1] = g[i - 1]
        BY <4>1
      <4> HIDE DEF t
      <4> QED BY <1>1, <3>2, <4>1, <4>2
    <3> QED BY <3>1, <3>2
  <2> QED BY <2>1
<1>4. c = Def(c)
  <2> HIDE DEF Def, t
  <2> QED BY <1>3
<1> HIDE DEF c
<1>5. c[0] = st
  BY <1>1, <1>4
<1>6. ASSUME NEW i \in 1..n, g[i - 1] = c[i - 1]
      PROVE  g[i] = c[i]
  <2>1. c[i] = Put(c[i - 1])
    <3>1. i \in 0..n /\ i # 0
      BY <1>1
    <3>2. c[i] = Def(c)[i]
      BY <1>4, Zenon
    <3>3. Def(c)[i] = IF i = 0 THEN st ELSE Put(c[i - 1])
      BY <3>1
    <3> QED BY <3>1, <3>2, <3>3
  <2> QED BY <1>1, <1>6, <2>1
<1>7. g[0] = c[0]
  BY <1>1, <1>5
<1>8. \A i \in 0..n : g[i] = c[i]
  <2>1. n \in Nat
    BY <1>1
  <2> QED BY ONLY <1>6, <1>7, <2>1, Agree
<1>9. n \in 0..n
  BY <1>1
<1> QED BY <1>0, <1>2, <1>8, <1>9

\* Where a call of read_ahead leaves its loop.
LEMMA FilledGood ==
    ASSUME input \in Text, wire \in Text, NEW nl, Start(nl) \in Loop
    PROVE  Filled(nl) \in Loop /\ Turned(Filled(nl), SegSize)
<1>0. PICK n, A, st : n = SegSize /\ A = Loop /\ st = Start(nl)
  OBVIOUS
<1>1. n \in Nat /\ st \in A
  BY <1>0, NetasciiAssumption
<1>2. PICK put : put = [s \in A |-> Put(s)]
  OBVIOUS
<1>3. put \in [A -> A]
  BY <1>0, <1>2, PutStep
<1>4. PICK step : step = [i \in 1..n |-> put]
  OBVIOUS
<1>5. step \in [1..n -> [A -> A]]
  BY ONLY <1>3, <1>4
<1>6. PICK g \in [0..n -> A] : g[0] = st /\ \A i \in 1..n : g[i] = step[i][g[i - 1]]
  BY ONLY <1>1, <1>5, Iterates
<1>7. ASSUME NEW i \in 1..n
      PROVE  g[i] = Put(g[i - 1]) /\ g[i - 1] \in A
  <2>1. i - 1 \in 0..n
    BY <1>1
  <2>2. g[i - 1] \in A
    BY <2>1
  <2> QED BY <1>2, <1>4, <1>6, <2>2
<1>8. Filled(nl) = g[n]
  <2>1. Turns(g, st, n)
    BY <1>6, <1>7 DEF Turns
  <2> QED BY ONLY <1>0, <2>1, FilledIs
<1>9. \A i \in 0..n : Turned(g[i], i)
  <2> DEFINE T == {i \in 0..n : Turned(g[i], i)}
  <2>1. 0 \in T
    <3>1. Len(g[0].out) = 0
      BY <1>0, <1>6 DEF Start
    <3> QED BY <1>1, <3>1 DEF Turned
  <2>2. ASSUME NEW m \in 0..(n - 1), m \in T
        PROVE  m + 1 \in T
    <3>1. m \in Nat /\ m + 1 \in 1..n /\ m + 1 \in 0..n /\ (m + 1) - 1 = m
      BY <1>1
    <3>2. g[m + 1] = Put(g[m]) /\ g[m] \in Loop
      BY ONLY <1>0, <1>7, <3>1
    <3>3. Turned(g[m], m)
      BY <2>2
    <3>4. Turned(Put(g[m]), m + 1)
      BY <3>1, <3>2, <3>3, PutStep
    <3> QED BY <3>1, <3>2, <3>4
  <2>3. \A m \in 0..n : m \in T
    <3> HIDE DEF T
    <3> QED BY <1>1, <2>1, <2>2, Induction
  <2> QED BY <2>3
<1>10. n \in 0..n
  BY <1>1
<1> QED BY <1>0, <1>8, <1>9, <1>10

-----------------------------------------------------------------------------
(* The inductive invariant *)

\* The types.
NetasciiTypes ==
    /\ stage \in {"read_ahead", "write_behind", "done"}
    /\ input \in Text /\ download \in BOOLEAN
    /\ rptr \in 0..Len(input)
    /\ newline \in BOOLEAN /\ prevchar \in Byte \cup {"none"}
    /\ wire \in Text
    /\ wptr \in 0..Len(wire)
    /\ disk \in Text

\* During the download, the packets and the half pair still to be sent are the
\* encoding of what has been read.
ReadInv ==
    stage = "read_ahead" =>
        /\ download /\ wptr = 0 /\ disk = << >>
        /\ newline => prevchar \in {"CR", "LF"}
        /\ wire \o Half(newline, prevchar) = Encoding(SubSeq(input, 1, rptr))

\* During the upload, the file is what one call of write_behind would have made
\* of all the packets so far, and prevchar their last byte.
WriteInv ==
    stage # "read_ahead" =>
        /\ download => wire = Encoding(input)
        /\ prevchar = LastOf("none", SubSeq(wire, 1, wptr))
        /\ disk = WriteAll(<< >>, "none", SubSeq(wire, 1, wptr))
        /\ stage = "done" => wptr = Len(wire)

\* The inductive invariant.
NetasciiInv == NetasciiTypes /\ ReadInv /\ WriteInv

\* The beginnings of a text that are none of it and all of it.
LEMMA NoBytes == \A w \in Text : SubSeq(w, 1, 0) = << >>
BY SubSeqEmpty DEF Text

\* All of a text.
LEMMA AllBytes == \A w \in Text : SubSeq(w, 1, Len(w)) = w
BY DEF Text

\* rw_init establishes the invariant.
LEMMA NetasciiInvInit == NetasciiInit => NetasciiInv
<1> SUFFICES ASSUME NetasciiInit PROVE NetasciiInv
  OBVIOUS
<1>1. input \in Text
  <2>1. PICK m \in 0..MaxBytes : input \in [1..m -> Byte]
    BY DEF NetasciiInit, BoundedSeq, SeqOf
  <2>2. m \in Nat
    BY NetasciiAssumption
  <2> QED BY <2>1, <2>2 DEF Text
<1>2. << >> \in Text /\ Len(input) \in Nat /\ 0 \in 0..Len(input)
  BY <1>1, TextFacts DEF Text
<1>3. wire \in Text /\ Len(wire) \in Nat /\ 0 \in 0..Len(wire)
  <2>1. wire \in Text
    BY <1>1, <1>2 DEF NetasciiInit
  <2> QED BY <2>1 DEF Text
<1>4. NetasciiTypes
  BY <1>1, <1>2, <1>3 DEF NetasciiInit, NetasciiTypes
<1>5. ReadInv
  <2> SUFFICES ASSUME stage = "read_ahead" PROVE ReadInv
    BY DEF ReadInv
  <2>1. download
    BY DEF NetasciiInit
  <2>2. wire = << >> /\ Half(newline, prevchar) = << >>
    BY <2>1 DEF NetasciiInit, Half
  <2>3. wire \o Half(newline, prevchar) = << >>
    BY ONLY <1>2, <2>2, TextFacts
  <2>4. Encoding(SubSeq(input, 1, rptr)) = << >>
    <3>1. SubSeq(input, 1, 0) = << >>
      BY <1>1, NoBytes
    <3>2. rptr = 0
      BY DEF NetasciiInit
    <3> QED BY ONLY <3>1, <3>2, EncodingAppend
  <2> QED BY <2>1, <2>3, <2>4 DEF NetasciiInit, ReadInv
<1>6. WriteInv
  <2> SUFFICES ASSUME stage # "read_ahead" PROVE WriteInv
    BY DEF WriteInv
  <2>1. ~download /\ stage # "done" /\ prevchar = "none" /\ disk = << >> /\ wptr = 0
    BY DEF NetasciiInit
  <2>2. SubSeq(wire, 1, wptr) = << >>
    BY <1>3, <2>1, NoBytes
  <2>3. LastOf("none", << >>) = "none" /\ WriteAll(<< >>, "none", << >>) = << >>
    BY LastOfFacts, WriteAppend
  <2> QED BY ONLY <2>1, <2>2, <2>3, stage # "read_ahead" DEF WriteInv
<1> QED BY <1>4, <1>5, <1>6 DEF NetasciiInv

\* A packet of the download.
LEMMA ReadAheadInv ==
    ASSUME NetasciiInv, ReadAhead
    PROVE  NetasciiInv'
<1>1. PICK st : st = Filled(newline)
  OBVIOUS
<1>2. /\ stage = "read_ahead"
      /\ rptr' = st.rptr /\ newline' = st.newline /\ wire' = wire \o st.out
      /\ \/ Len(st.out) = SegSize /\ prevchar' = st.prevchar /\ stage' = stage
         \/ Len(st.out) < SegSize /\ prevchar' = "none" /\ stage' = "write_behind"
      /\ UNCHANGED <<input, download, wptr, disk>>
  BY <1>1 DEF ReadAhead, FillPacket
<1>3. /\ input \in Text /\ wire \in Text /\ rptr \in 0..Len(input)
      /\ newline \in BOOLEAN /\ prevchar \in Byte \cup {"none"}
      /\ download \in BOOLEAN /\ disk \in Text
      /\ download /\ wptr = 0 /\ disk = << >>
      /\ newline => prevchar \in {"CR", "LF"}
      /\ wire \o Half(newline, prevchar) = Encoding(SubSeq(input, 1, rptr))
  BY <1>2 DEF NetasciiInv, NetasciiTypes, ReadInv
<1>4. Start(newline) \in Loop
  <2>1. (wire \o << >>) \o Half(newline, prevchar) = Encoding(SubSeq(input, 1, rptr))
    BY ONLY <1>3, TextFacts
  <2>2. << >> \in Text
    BY TextFacts
  <2>3. [rptr |-> rptr, newline |-> newline, prevchar |-> prevchar, out |-> << >>] \in Loop
    BY ONLY <1>3, <2>1, <2>2, LoopRecord
  <2> QED BY <2>3 DEF Start
<1>5. st \in Loop /\ Turned(st, SegSize)
  BY ONLY <1>1, <1>3, <1>4, FilledGood
<1>6. /\ st.rptr \in 0..Len(input) /\ st.newline \in BOOLEAN
      /\ st.prevchar \in Byte \cup {"none"} /\ st.out \in Text
      /\ st.newline => st.prevchar \in {"CR", "LF"}
      /\ (wire \o st.out) \o Half(st.newline, st.prevchar)
           = Encoding(SubSeq(input, 1, st.rptr))
  BY <1>5 DEF Loop
<1>7. wire' \in Text /\ Len(wire') \in Nat
  <2>1. wire' \in Text
    BY <1>2, <1>3, <1>6, TextFacts
  <2> QED BY <2>1 DEF Text
<1>8. stage' \in {"read_ahead", "write_behind"} /\ prevchar' \in Byte \cup {"none"}
  BY <1>2, <1>6
<1>9. NetasciiTypes'
  BY ONLY <1>2, <1>3, <1>6, <1>7, <1>8 DEF NetasciiTypes
<1>10. ReadInv'
  <2> SUFFICES ASSUME stage' = "read_ahead" PROVE ReadInv'
    BY DEF ReadInv
  <2>1. prevchar' = st.prevchar
    BY <1>2
  <2> QED BY ONLY <1>2, <1>3, <1>6, <2>1 DEF ReadInv
<1>11. WriteInv'
  <2> SUFFICES ASSUME stage' # "read_ahead" PROVE WriteInv'
    BY DEF WriteInv
  <2>1. Len(st.out) < SegSize /\ prevchar' = "none" /\ stage' = "write_behind"
    BY <1>2
  <2>2. ~st.newline /\ st.rptr = Len(input)
    <3>1. Len(st.out) # SegSize
      BY <1>6, <2>1, NetasciiAssumption DEF Text
    <3> QED BY ONLY <1>5, <3>1 DEF Turned
  <2>3. wire' = Encoding(input)
    <3>1. Half(st.newline, st.prevchar) = << >>
      BY <2>2 DEF Half
    <3>2. wire' \o << >> = wire'
      BY <1>7, TextFacts
    <3>3. SubSeq(input, 1, st.rptr) = input
      BY <1>3, <2>2, AllBytes
    <3> QED BY ONLY <1>2, <1>6, <3>1, <3>2, <3>3
  <2>4. SubSeq(wire', 1, wptr') = << >>
    BY <1>2, <1>3, <1>7, NoBytes
  <2>5. LastOf("none", << >>) = "none" /\ WriteAll(<< >>, "none", << >>) = << >>
    BY LastOfFacts, WriteAppend
  <2> QED BY ONLY <1>2, <1>3, <2>1, <2>3, <2>4, <2>5 DEF WriteInv
<1> QED BY <1>9, <1>10, <1>11 DEF NetasciiInv

\* A packet of the upload.
LEMMA WriteBehindInv ==
    ASSUME NetasciiInv, WriteBehind
    PROVE  NetasciiInv'
<1>1. PICK u, v, k : /\ u = SubSeq(wire, 1, wptr) /\ v = Packet
                     /\ k = IF Len(wire) - wptr < SegSize THEN Len(wire) ELSE wptr + SegSize
  OBVIOUS
<1>2. /\ stage = "write_behind"
      /\ disk' = WriteAll(disk, prevchar, v) /\ wptr' = wptr + Len(v)
      /\ prevchar' = LastOf(prevchar, v)
      /\ stage' = IF Len(v) = SegSize THEN stage ELSE "done"
      /\ UNCHANGED <<input, download, rptr, newline, wire>>
  BY <1>1 DEF WriteBehind, WritePacket
<1>3. /\ input \in Text /\ wire \in Text /\ rptr \in 0..Len(input)
      /\ newline \in BOOLEAN /\ prevchar \in Byte \cup {"none"} /\ wptr \in 0..Len(wire)
      /\ download \in BOOLEAN /\ disk \in Text
      /\ download => wire = Encoding(input)
      /\ prevchar = LastOf("none", u) /\ disk = WriteAll(<< >>, "none", u)
  BY <1>1, <1>2 DEF NetasciiInv, NetasciiTypes, WriteInv
<1>4. Len(wire) \in Nat /\ k \in wptr..Len(wire) /\ wptr + 1 \in 1..(Len(wire) + 1)
  <2>1. Len(wire) \in Nat
    BY <1>3 DEF Text
  <2> QED BY <1>1, <1>3, <2>1, NetasciiAssumption
<1>5. v = SubSeq(wire, wptr + 1, k)
  BY <1>1 DEF Packet
<1>6. u \in Text /\ v \in Text /\ Len(v) = k - wptr /\ u \o v = SubSeq(wire, 1, k)
  <2>1. PICK s, i : s = wire /\ i = wptr
    OBVIOUS
  <2>2. s \in Seq(Byte) /\ i \in 0..Len(s) /\ k \in i..Len(s) /\ Len(s) \in Nat
    BY <1>3, <1>4, <2>1 DEF Text
  <2>3. SubSeq(s, 1, i) \in Seq(Byte) /\ SubSeq(s, i + 1, k) \in Seq(Byte)
        /\ Len(SubSeq(s, i + 1, k)) = k - i
    <3> HIDE DEF Byte
    <3> QED BY ONLY <2>2
  <2>4. SubSeq(s, 1, i) \o SubSeq(s, i + 1, k) = SubSeq(s, 1, k)
    <3>1. 1 \in 1..(Len(s) + 1) /\ i \in (1 - 1)..Len(s) /\ k \in i..Len(s)
      BY ONLY <2>2
    <3> QED BY ONLY <2>2, <3>1, ConcatAdjacentSubSeq
  <2> QED BY ONLY <1>1, <1>5, <2>1, <2>3, <2>4 DEF Text
<1>7. wptr' = k /\ k \in 0..Len(wire)
  BY <1>2, <1>3, <1>4, <1>6
<1>8. /\ prevchar' = LastOf("none", u \o v)
      /\ disk' = WriteAll(<< >>, "none", u \o v)
  <2>1. << >> \in Text /\ "none" \in Byte \cup {"none"}
    BY TextFacts
  <2>2. /\ LastOf("none", u \o v) = LastOf(LastOf("none", u), v)
        /\ WriteAll(<< >>, "none", u \o v)
             = WriteAll(WriteAll(<< >>, "none", u), LastOf("none", u), v)
    BY ONLY <1>6, <2>1, WriteConcat, ZenonT(30)
  <2> QED BY ONLY <1>2, <1>3, <2>2
<1>9. prevchar' \in Byte \cup {"none"} /\ disk' \in Text
  BY ONLY <1>2, <1>3, <1>6, LastOfFacts, WriteAppend
<1>10. stage' \in {"write_behind", "done"} /\ (stage' = "done" => wptr' = Len(wire))
  <2>1. stage' \in {"write_behind", "done"}
    BY <1>2
  <2>2. ASSUME stage' = "done" PROVE wptr' = Len(wire)
    <3>1. Len(v) # SegSize
      BY <1>2, <2>2
    <3>2. Len(wire) - wptr < SegSize
      BY <1>1, <1>3, <1>4, <1>6, <3>1, NetasciiAssumption
    <3> QED BY <1>1, <1>7, <3>2
  <2> QED BY <2>1, <2>2
<1>11. NetasciiTypes'
  BY ONLY <1>2, <1>3, <1>7, <1>9, <1>10 DEF NetasciiTypes
<1>12. ReadInv'
  BY <1>10 DEF ReadInv
<1>13. WriteInv'
  BY ONLY <1>2, <1>3, <1>6, <1>7, <1>8, <1>10 DEF WriteInv
<1> QED BY <1>11, <1>12, <1>13 DEF NetasciiInv

\* So every step keeps it.
LEMMA NetasciiInvStep == NetasciiInv /\ [NetasciiNext]_netasciiVars => NetasciiInv'
<1> SUFFICES ASSUME NetasciiInv, [NetasciiNext]_netasciiVars PROVE NetasciiInv'
  OBVIOUS
<1>1. CASE ReadAhead
  BY <1>1, ReadAheadInv
<1>2. CASE WriteBehind
  BY <1>2, WriteBehindInv
<1>3. CASE UNCHANGED netasciiVars
  BY <1>3 DEF netasciiVars, NetasciiInv, NetasciiTypes, ReadInv, WriteInv
<1> QED BY <1>1, <1>2, <1>3 DEF NetasciiNext

\* So it always holds.
LEMMA NetasciiInvAlways == NetasciiSpec => []NetasciiInv
BY NetasciiInvInit, NetasciiInvStep, PTL DEF NetasciiSpec

-----------------------------------------------------------------------------
(* The theorems *)

\* For every file and every SEGSIZE: when the last packet of a download has been
\* filled, the packets together are the encoding of the file, wherever read_ahead
\* had to cut a pair in two.
THEOREM CutsDoNotShowAlways == NetasciiSpec => []CutsDoNotShow
<1>1. NetasciiInv => CutsDoNotShow
  BY DEF NetasciiInv, WriteInv, CutsDoNotShow
<1> QED BY <1>1, NetasciiInvAlways, PTL

\* For every stream and every SEGSIZE: an upload that has ended stored the
\* decoding of its stream, wherever a CR was the last byte of a packet; and what
\* a download made of a file becomes the file again.
THEOREM RoundTripAlways == NetasciiSpec => []RoundTrip
<1>1. NetasciiInv => RoundTrip
  <2> SUFFICES ASSUME NetasciiInv, stage = "done"
               PROVE  disk = Decoding(wire) /\ (download => disk = input)
    BY DEF RoundTrip
  <2>1. /\ wire \in Text /\ input \in Text
        /\ disk = WriteAll(<< >>, "none", SubSeq(wire, 1, Len(wire)))
        /\ download => wire = Encoding(input)
    BY DEF NetasciiInv, NetasciiTypes, WriteInv
  <2>2. disk = WriteAll(<< >>, "none", wire)
    BY <2>1, AllBytes
  <2> QED BY <2>1, <2>2, WriteIsDecoding, WriteEncoding
<1> QED BY <1>1, NetasciiInvAlways, PTL

\* netascii loses nothing: what write_behind undoes is what read_ahead does, for
\* every file.
THEOREM DecodingEncoding == \A f \in Seq(Byte) : Decoding(Encoding(f)) = f
<1> SUFFICES ASSUME NEW f \in Text PROVE Decoding(Encoding(f)) = f
  BY DEF Text
<1>1. Encoding(f) \in Text
  BY EncodingAppend
<1> QED BY <1>1, WriteEncoding, WriteIsDecoding

-----------------------------------------------------------------------------
(* The process *)

\* A file the process created and that is still there has its flag set.
Mine == own \cap files

FilesInv ==
    /\ own \subseteq {"pid", "port", "lock"}
    /\ "pid" \in Mine => wrotepidfile
    /\ "port" \in Mine => wroteportfile
    /\ "lock" \in Mine => serverlogslocked
    /\ pc = "ended" => Mine = {}

\* Where the lock's flag and the peer socket may still be there.
HeldInv ==
    /\ serverlogslocked =>
         pc \in {"peer", "dispatch", "transfer", "closepeer", "unlock", "cleanup"}
    /\ peer => pc \in {"dispatch", "transfer", "closepeer", "cleanup"}

\* The inductive invariant.
IInv == FilesInv /\ HeldInv

\* A process that starts owns nothing.
LEMMA InvInit == Init => IInv
BY DEF Init, IInv, FilesInv, HeldInv, Mine

\* A step that leaves the files and their flags alone.
LEMMA FilesKept ==
    ASSUME FilesInv, UNCHANGED <<files, own, flags>>, pc' = "ended" => pc = "ended"
    PROVE  FilesInv'
BY DEF FilesInv, Mine, flags

\* The end removes every file whose flag is set.
LEMMA EndRemoves ==
    ASSUME FilesInv, ProcessEnds(Unlinked), own' = own
    PROVE  IInv'
<1>1. files' = Unlinked /\ pc' = "ended"
  BY DEF ProcessEnds, Goto
<1>2. \A f \in {"pid", "port", "lock"} : f \in own => f \notin files'
  BY <1>1, Zenon DEF FilesInv, Mine, Unlinked
<1>3. Mine' = {}
  BY <1>2 DEF FilesInv, Mine
<1>4. FilesInv'
  BY <1>3 DEF FilesInv
<1>5. HeldInv'
  BY DEF HeldInv, ProcessEnds
<1> QED BY <1>4, <1>5 DEF IInv

\* Every step keeps the invariant.
LEMMA InvStep == IInv /\ [Next]_vars => IInv'
<1> SUFFICES ASSUME FilesInv, HeldInv, [Next]_vars PROVE IInv'
  BY DEF IInv
<1> USE DEF Goto
<1>1. CASE OpenSocket
  BY <1>1, FilesKept DEF OpenSocket, IInv, HeldInv, flags
<1>2. CASE WritePidFile
  BY <1>2 DEF WritePidFile, Creates, IInv, FilesInv, HeldInv, Mine, sockets
<1>3. CASE WritePortFile
  BY <1>3 DEF WritePortFile, Creates, IInv, FilesInv, HeldInv, Mine, sockets
<1>4. CASE RecvFrom
  BY <1>4, FilesKept DEF RecvFrom, IInv, HeldInv, flags, sockets
<1>5. CASE RecvFails
  BY <1>5, FilesKept DEF RecvFails, IInv, HeldInv, flags, sockets
<1>6. CASE SetLock
  BY <1>6 DEF SetLock, Creates, IInv, FilesInv, HeldInv, Mine, sockets
<1>7. CASE ConnectPeer
  BY <1>7, FilesKept DEF ConnectPeer, IInv, HeldInv, flags
<1>8. CASE Dispatch
  BY <1>8, FilesKept DEF Dispatch, DoTftp, IInv, HeldInv, flags, sockets
<1>9. CASE TransferReturns
  BY <1>9, FilesKept DEF TransferReturns, IInv, HeldInv, flags, sockets
<1>10. CASE TimerExits
  BY <1>10, EndRemoves DEF TimerExits
<1>11. CASE ClosePeer
  BY <1>11, FilesKept DEF ClosePeer, IInv, HeldInv, flags
<1>12. CASE ClearLock
  BY <1>12 DEF ClearLock, IInv, FilesInv, HeldInv, Mine, sockets
<1>13. CASE Cleanup
  BY <1>13, EndRemoves DEF Cleanup
<1>14. CASE ExitSignal
  BY <1>14, FilesKept DEF ExitSignal, IInv, HeldInv, flags, sockets
<1>15. CASE ClientSends
  BY <1>15, FilesKept DEF ClientSends, IInv, HeldInv, flags, sockets
<1>16. CASE UNCHANGED vars
  BY <1>16, FilesKept DEF vars, IInv, HeldInv, flags, sockets
<1> QED
  BY <1>1, <1>2, <1>3, <1>4, <1>5, <1>6, <1>7, <1>8, <1>9, <1>10, <1>11, <1>12,
     <1>13, <1>14, <1>15, <1>16 DEF Next, Server

\* So it always holds.
LEMMA Invariant == Spec => []IInv
BY InvInit, InvStep, PTL DEF Spec

\* No way out of tftpd, the exit(1) of the timer's signal handler included,
\* leaves a pid, port or lock file the process created.
THEOREM FilesRemoved == Spec => []LeavesNoFiles
<1>1. IInv => LeavesNoFiles
  BY DEF IInv, FilesInv, LeavesNoFiles, Mine
<1> QED BY <1>1, Invariant, PTL

\* A server in recvfrom has no lock file of its own and no peer socket, and a
\* lock file of its own never loses its flag.
THEOREM WaitingHoldsNothing == Spec => []IdleHoldsNothing
<1>1. IInv => IdleHoldsNothing
  BY DEF IInv, FilesInv, HeldInv, IdleHoldsNothing, Mine
<1> QED BY <1>1, Invariant, PTL
=============================================================================
