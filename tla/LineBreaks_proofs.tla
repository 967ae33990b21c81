-------------------------- MODULE LineBreaks_proofs --------------------------
(***************************************************************************)
(* Proof that edit_write_stream reports success only for a text that is    *)
(* out (LineBreaks!SuccessIsConverted), for every buffer, style and failed *)
(* put.                                                                    *)
(*                                                                         *)
(* 1. Text and Convert are sequences of pieces, one per byte, which        *)
(*    FlattenSeq joins by a recursive function; by induction over the      *)
(*    natural numbers, taken from WFMin, one more byte adds its piece.     *)
(* 2. The invariant: what is out are the ordinary characters of the bytes  *)
(*    that the loop is past and, where the property promises it, their     *)
(*    conversion; then the counter is never between the two bytes of a     *)
(*    Windows break.                                                       *)
(* 3. One lemma per action.  The one failure that leaves the size of the   *)
(*    buffer in the counter is that of the second put at the last byte: it *)
(*    is a break, thus no character is missing, and a text with a break at *)
(*    its end has no promise about its breaks.                             *)
(***************************************************************************)
EXTENDS LineBreaks, SequenceTheorems, WellFoundedInduction, TLAPS

(* Induction                                                               *)

\* A set of numbers has a least one,
LEMMA Least ==
  ASSUME NEW S, S \subseteq Nat, S # {}
  PROVE  \E m \in S : \A k \in S : m <= k
<1> DEFINE R == OpToRel(<, Nat)
<1>1. IsWellFoundedOn(R, Nat) BY NatLessThanWellFounded
<1>2. \A x, y \in Nat : y < x => <<y, x>> \in R BY DEF OpToRel
<1> HIDE DEF R
<1>3. PICK m \in S : \A y \in S : ~ (<<y, m>> \in R) BY <1>1, WFMin
<1>4. ASSUME NEW k \in S PROVE m <= k
  <2>1. ~ (k < m) BY <1>2, <1>3
  <2>2. k \in Nat /\ m \in Nat OBVIOUS
  <2> QED BY <2>1, <2>2
<1> QED BY <1>4

\* so whoever holds 0, and with a number the next one, holds them all.
LEMMA Induction ==
  ASSUME NEW S, 0 \in S, \A n \in S \cap Nat : n + 1 \in S
  PROVE  Nat \subseteq S
<1>1. SUFFICES ASSUME Nat \ S # {} PROVE FALSE OBVIOUS
<1>2. PICK m \in Nat \ S : \A k \in Nat \ S : m <= k BY <1>1, Least
<1>3. m # 0 /\ m - 1 \in Nat BY <1>2
<1>4. m - 1 \in S BY <1>2, <1>3
<1>5. (m - 1) + 1 \in S BY <1>3, <1>4
<1> QED BY <1>2, <1>5

-----------------------------------------------------------------------------
(* Pieces one behind the other *)

\* The function by which FlattenSeq is defined.
Joins(f, seqs, n) == f = [k \in 1 .. n |-> IF k = 1 THEN seqs[k] ELSE f[k - 1] \o seqs[k]]

\* For every list of pieces there is such a function,
LEMMA JoinsExists ==
  ASSUME NEW seqs, NEW n \in Nat
  PROVE  \E f : Joins(f, seqs, n)
<1> DEFINE S == {m \in Nat : \E f : Joins(f, seqs, m)}
<1>1. 0 \in S
  <2>1. Joins([k \in 1 .. 0 |-> 0], seqs, 0) BY DEF Joins
  <2> QED BY <2>1
<1>2. ASSUME NEW m \in S \cap Nat PROVE m + 1 \in S
  <2>1. PICK f : Joins(f, seqs, m) OBVIOUS
  <2> DEFINE g == [k \in 1 .. m + 1 |-> IF k <= m THEN f[k] ELSE IF k = 1 THEN seqs[k] ELSE f[m] \o seqs[k]]
  <2>2. ASSUME NEW k \in 1 .. m + 1 PROVE g[k] = IF k = 1 THEN seqs[k] ELSE g[k - 1] \o seqs[k]
    <3>1. CASE k <= m
      <4>0. \A j \in 1 .. m : f[j] = IF j = 1 THEN seqs[j] ELSE f[j - 1] \o seqs[j] BY <2>1 DEF Joins
      <4>1. f[k] = IF k = 1 THEN seqs[k] ELSE f[k - 1] \o seqs[k] BY <3>1, <4>0
      <4>2. g[k] = f[k] BY <3>1
      <4>3. k # 1 => g[k - 1] = f[k - 1] BY <3>1
      <4> HIDE DEF g
      <4> QED BY <4>1, <4>2, <4>3
    <3>2. CASE k = m + 1
      <4>1. g[k] = IF k = 1 THEN seqs[k] ELSE f[m] \o seqs[k] BY <3>2
      <4>2. k # 1 => g[k - 1] = f[m] BY <3>2
      <4> HIDE DEF g
      <4> QED BY <4>1, <4>2
    <3> QED BY <3>1, <3>2
  <2>3. g = [k \in 1 .. m + 1 |-> g[k]] OBVIOUS
  <2> HIDE DEF g
  <2>4. Joins(g, seqs, m + 1) BY <2>2, <2>3 DEF Joins
  <2>5. m + 1 \in Nat OBVIOUS
  <2> QED BY <2>4, <2>5
<1> HIDE DEF S
<1>3. Nat \subseteq S BY <1>1, <1>2, Induction
<1> QED BY <1>3 DEF S

\* and where two lists begin with the same pieces the functions begin alike.
LEMMA JoinsAgree ==
  ASSUME NEW p, NEW q, NEW f, NEW g, NEW m \in Nat, NEW n \in Nat, Joins(f, p, m), Joins(g, q, n),
         m <= n, \A k \in 1 .. m : p[k] = q[k]
  PROVE  \A k \in 1 .. m : f[k] = g[k]
<1> DEFINE S == {k \in Nat : k + 1 <= m => f[k + 1] = g[k + 1]}
<1>0. /\ \A k \in 1 .. m : f[k] = IF k = 1 THEN p[k] ELSE f[k - 1] \o p[k]
      /\ \A k \in 1 .. n : g[k] = IF k = 1 THEN q[k] ELSE g[k - 1] \o q[k]
  BY DEF Joins
<1>1. 0 \in S
  <2>1. 1 <= m => f[1] = p[1] /\ g[1] = q[1] /\ p[1] = q[1] BY <1>0
  <2> QED BY <2>1
<1>2. ASSUME NEW k \in S \cap Nat PROVE k + 1 \in S
  <2>1. CASE k + 2 <= m
    <3>1. f[k + 1] = g[k + 1] BY <2>1
    <3>2. k + 2 \in 1 .. m /\ k + 2 \in 1 .. n /\ k + 2 # 1 /\ (k + 2) - 1 = k + 1 BY <2>1
    <3>3. f[k + 2] = g[k + 2] BY <1>0, <3>1, <3>2
    <3>4. (k + 1) + 1 = k + 2 OBVIOUS
    <3> QED BY <3>3, <3>4
  <2>2. CASE ~ (k + 2 <= m)
    <3>1. ~ ((k + 1) + 1 <= m) BY <2>2
    <3> QED BY <3>1
  <2> QED BY <2>1, <2>2
<1> HIDE DEF S
<1>3. Nat \subseteq S BY <1>1, <1>2, Induction
<1>4. ASSUME NEW k \in 1 .. m PROVE f[k] = g[k]
  <2>1. k - 1 \in Nat /\ (k - 1) + 1 = k /\ k <= m OBVIOUS
  <2>2. k - 1 \in S BY <1>3, <2>1
  <2> QED BY <2>1, <2>2 DEF S
<1> QED BY <1>4

\* FlattenSeq puts a new piece behind what the others are together.
LEMMA FlattenAppend ==
  ASSUME NEW S, NEW seqs \in Seq(Seq(S)), NEW s \in Seq(S)
  PROVE  FlattenSeq(Append(seqs, s)) = FlattenSeq(seqs) \o s
<1> DEFINE T == Seq(S)
           L == Len(seqs)  q == Append(seqs, s)
           c == CHOOSE f : Joins(f, seqs, L)
           d == CHOOSE f : Joins(f, q, Len(q))
<1>1. L \in Nat /\ Len(q) = L + 1 /\ q[L + 1] = s /\ \A k \in 1 .. L : q[k] = seqs[k]
  <2> HIDE DEF T
  <2>1. seqs \in Seq(T) /\ s \in T BY DEF T
  <2> QED BY <2>1
<1>2. Joins(c, seqs, L) /\ Joins(d, q, L + 1)
  <2>1. Joins(c, seqs, L)
    <3> HIDE DEF L, q
    <3> QED BY <1>1, JoinsExists
  <2>2. Joins(d, q, Len(q))
    <3>1. Len(q) \in Nat BY <1>1
    <3> HIDE DEF L, q
    <3> QED BY <3>1, JoinsExists
  <2> HIDE DEF c, d, L, q
  <2> QED BY <1>1, <2>1, <2>2
<1>3. FlattenSeq(q) = d[L + 1]
  <2>1. Len(q) # 0 BY <1>1
  <2> HIDE DEF q, L
  <2>2. FlattenSeq(q) = d[Len(q)] BY <2>1 DEF FlattenSeq, Joins
  <2> HIDE DEF d
  <2> QED BY <1>1, <2>2
<1>4. L # 0 => FlattenSeq(seqs) = c[L] BY DEF FlattenSeq, Joins
<1>5. \A k \in 1 .. L : c[k] = d[k]
  <2> HIDE DEF c, d, q, L
  <2>1. L + 1 \in Nat /\ L <= L + 1 /\ \A k \in 1 .. L : seqs[k] = q[k] BY <1>1
  <2> QED BY <1>1, <1>2, <2>1, JoinsAgree
<1>6. d[L + 1] = IF L + 1 = 1 THEN q[L + 1] ELSE d[(L + 1) - 1] \o q[L + 1]
  <2> HIDE DEF d, q, L
  <2>1. L + 1 \in 1 .. L + 1 BY <1>1
  <2> QED BY <1>2, <2>1 DEF Joins
<1>7. CASE L = 0
  <2>1. FlattenSeq(seqs) = <<>> BY <1>7 DEF FlattenSeq
  <2>2. <<>> \o s = s OBVIOUS
  <2> HIDE DEF d, q, L
  <2>3. d[L + 1] = s BY <1>1, <1>6, <1>7
  <2> QED BY <1>3, <2>1, <2>2, <2>3 DEF q
<1>8. CASE L # 0
  <2> HIDE DEF c, d, q, L
  <2>1. (L + 1) - 1 = L /\ L + 1 # 1 /\ L \in 1 .. L BY <1>1, <1>8
  <2>2. d[L + 1] = d[L] \o s BY <1>1, <1>6, <2>1
  <2>3. d[L] = c[L] BY <1>5, <2>1
  <2>4. FlattenSeq(seqs) = c[L] BY <1>4, <1>8
  <2> QED BY <1>3, <2>2, <2>3, <2>4 DEF q
<1> QED BY <1>7, <1>8

-----------------------------------------------------------------------------
(* Prefixes, texts and conversions, byte by byte                           *)

\* The bytes before place n + 1.
Prefix(bytes, n) == SubSeq(bytes, 1, n)

\* A prefix has the length asked for and the bytes of the whole.
LEMMA PrefixTyped ==
  ASSUME NEW S, NEW bytes \in Seq(S), NEW n \in 0 .. Len(bytes)
  PROVE  /\ Prefix(bytes, n) \in Seq(S) /\ Len(Prefix(bytes, n)) = n
         /\ \A k \in 1 .. n : Prefix(bytes, n)[k] = bytes[k]
BY DEF Prefix

\* The next prefix has one byte more.
LEMMA PrefixGrows ==
  ASSUME NEW S, NEW bytes \in Seq(S), NEW n \in Nat, n < Len(bytes)
  PROVE  Prefix(bytes, n + 1) = Append(Prefix(bytes, n), bytes[n + 1])
<1> DEFINE p == Prefix(bytes, n)  q == Prefix(bytes, n + 1)  r == Append(p, bytes[n + 1])
<1>0. n \in 0 .. Len(bytes) /\ n + 1 \in 0 .. Len(bytes) /\ bytes[n + 1] \in S OBVIOUS
<1>1. p \in Seq(S) /\ Len(p) = n /\ \A k \in 1 .. n : p[k] = bytes[k] BY <1>0, PrefixTyped
<1>2. q \in Seq(S) /\ Len(q) = n + 1 /\ \A k \in 1 .. n + 1 : q[k] = bytes[k] BY <1>0, PrefixTyped
<1> HIDE DEF p, q
<1>3. r \in Seq(S) /\ Len(r) = n + 1 /\ \A k \in 1 .. n + 1 : r[k] = bytes[k] BY <1>0, <1>1
<1> HIDE DEF r
<1>4. q = r BY <1>2, <1>3
<1> QED BY <1>4 DEF p, q, r

\* The first prefix is empty, the last one is the whole.
LEMMA PrefixAll ==
  ASSUME NEW S, NEW bytes \in Seq(S)
  PROVE  /\ Prefix(bytes, 0) = <<>>
         /\ Prefix(bytes, Len(bytes)) = bytes
BY DEF Prefix

\* Pieces over a set, joined, are a sequence over that set.
LEMMA FlattenTyped ==
  ASSUME NEW S, NEW seqs \in Seq(Seq(S))
  PROVE  FlattenSeq(seqs) \in Seq(S)
<1> DEFINE T == Seq(S)
           H == {n \in Nat : n <= Len(seqs) => FlattenSeq(Prefix(seqs, n)) \in T}
<1>0. seqs \in Seq(T) OBVIOUS
<1>1. 0 \in H
  <2>1. <<>> \in T OBVIOUS
  <2> HIDE DEF T
  <2>2. Prefix(seqs, 0) = <<>> BY <1>0, PrefixAll
  <2>3. FlattenSeq(<<>>) = <<>> BY DEF FlattenSeq
  <2>4. FlattenSeq(Prefix(seqs, 0)) \in T BY <2>1, <2>2, <2>3
  <2> QED BY <2>4
<1>2. ASSUME NEW n \in H \cap Nat PROVE n + 1 \in H
  <2>1. SUFFICES ASSUME n + 1 <= Len(seqs) PROVE FlattenSeq(Prefix(seqs, n + 1)) \in T
    <3> HIDE DEF T
    <3> QED OBVIOUS
  <2>2. n < Len(seqs) /\ n \in 0 .. Len(seqs) /\ seqs[n + 1] \in T /\ n <= Len(seqs)
    <3> HIDE DEF T
    <3> QED BY <1>0, <2>1
  <2>3. /\ Prefix(seqs, n + 1) = Append(Prefix(seqs, n), seqs[n + 1])
        /\ Prefix(seqs, n) \in Seq(T)
    <3> HIDE DEF T
    <3> QED BY <1>0, <2>2, PrefixGrows, PrefixTyped
  <2>4. FlattenSeq(Prefix(seqs, n)) \in T
    <3> HIDE DEF T
    <3> QED BY <2>2
  <2> DEFINE a == seqs[n + 1]  p == Prefix(seqs, n)
  <2>5. a \in Seq(S) /\ p \in Seq(Seq(S)) BY <2>2, <2>3
  <2> HIDE DEF a, p
  <2>6. FlattenSeq(Append(p, a)) = FlattenSeq(p) \o a BY <2>5, FlattenAppend
  <2>7. FlattenSeq(p) \o a \in T BY <2>4, <2>5 DEF p
  <2> QED BY <2>3, <2>6, <2>7 DEF a, p
<1>3. Nat \subseteq H
  <2> HIDE DEF H
  <2> QED BY <1>1, <1>2, Induction
<1>4. Len(seqs) \in H /\ Len(seqs) <= Len(seqs)
  <2> HIDE DEF T, H
  <2> QED BY <1>0, <1>3
<1>5. Prefix(seqs, Len(seqs)) = seqs
  <2> HIDE DEF T
  <2> QED BY <1>0, PrefixAll
<1> HIDE DEF T
<1>6. FlattenSeq(seqs) \in T BY <1>4, <1>5
<1> QED BY <1>6 DEF T

\* The ordinary character that a byte is, if it is one.
Char(b) == IF b \in Breaks THEN <<>> ELSE <<b>>

\* It is a sequence of at most one byte.
LEMMA CharTyped ==
  ASSUME NEW b \in Bytes
  PROVE  Char(b) \in Seq(Bytes)
BY DEF Char

\* What agrees with a sequence and has one place more is the sequence with that place
\* appended.
LEMMA Mapped ==
  ASSUME NEW T, NEW seqs \in Seq(T), NEW t \in T, NEW more,
         DOMAIN more = 1 .. Len(seqs) + 1,
         more = [k \in 1 .. Len(seqs) + 1 |-> more[k]],
         \A k \in 1 .. Len(seqs) : more[k] = seqs[k],
         more[Len(seqs) + 1] = t
  PROVE  more = Append(seqs, t)
<1> DEFINE L == Len(seqs)  q == Append(seqs, t)
<1>1. L \in Nat /\ q \in Seq(T) /\ Len(q) = L + 1 /\ q[L + 1] = t /\ \A k \in 1 .. L : q[k] = seqs[k] OBVIOUS
<1> HIDE DEF L, q
<1>2. q = [k \in 1 .. L + 1 |-> q[k]] BY <1>1
<1>3. ASSUME NEW k \in 1 .. L + 1 PROVE more[k] = q[k]
  <2>1. k \in 1 .. L \/ k = L + 1 BY <1>1
  <2>2. (\A j \in 1 .. L : more[j] = seqs[j]) /\ more[L + 1] = t BY DEF L
  <2> QED BY <1>1, <2>1, <2>2
<1> QED BY <1>2, <1>3 DEF L, q

\* A further byte adds its character to the text.
LEMMA TextAppend ==
  ASSUME NEW b \in Seq(Bytes), NEW c \in Bytes
  PROVE  /\ Text(b) \in Seq(Bytes)
         /\ Text(Append(b, c)) = Text(b) \o Char(c)
<1> DEFINE d == Append(b, c)  T == Seq(Bytes)
           p == [k \in DOMAIN b |-> Char(b[k])]
           q == [k \in DOMAIN d |-> Char(d[k])]
<1>1. /\ DOMAIN b = 1 .. Len(b) /\ DOMAIN d = 1 .. Len(b) + 1 /\ Len(b) \in Nat
      /\ d[Len(b) + 1] = c /\ \A k \in 1 .. Len(b) : d[k] = b[k] /\ b[k] \in Bytes
  OBVIOUS
<1> HIDE DEF d
<1>2. Text(b) = FlattenSeq(p) /\ Text(d) = FlattenSeq(q)
  <2>1. p = [k \in DOMAIN b |-> IF b[k] \in Breaks THEN <<>> ELSE <<b[k]>>] BY DEF Char
  <2>2. q = [k \in DOMAIN d |-> IF d[k] \in Breaks THEN <<>> ELSE <<d[k]>>] BY DEF Char
  <2> HIDE DEF p, q
  <2> QED BY <2>1, <2>2 DEF Text
<1>3. Char(c) \in T /\ \A k \in 1 .. Len(b) : Char(b[k]) \in T BY <1>1, CharTyped
<1> HIDE DEF T
<1>4. p \in Seq(T) /\ Len(p) = Len(b)
  <2>1. p \in [1 .. Len(b) -> T] BY <1>1, <1>3
  <2> HIDE DEF p
  <2> QED BY <1>1, <2>1
<1>5. q = Append(p, Char(c))
  <2>1. \A k \in 1 .. Len(p) : q[k] = p[k] BY <1>1, <1>4
  <2>2. q[Len(p) + 1] = Char(c) BY <1>1, <1>4
  <2>3. DOMAIN q = 1 .. Len(p) + 1 BY <1>1, <1>4
  <2>4. q = [k \in 1 .. Len(p) + 1 |-> q[k]] BY <2>3
  <2> HIDE DEF p, q
  <2> QED BY <1>3, <1>4, <2>1, <2>2, <2>3, <2>4, Mapped
<1> HIDE DEF p, q
<1>6. p \in Seq(Seq(Bytes)) /\ Char(c) \in Seq(Bytes) BY <1>3, <1>4 DEF T
<1>7. FlattenSeq(p) \in Seq(Bytes) BY <1>6, FlattenTyped
<1>8. FlattenSeq(Append(p, Char(c))) = FlattenSeq(p) \o Char(c) BY <1>6, FlattenAppend
<1> QED BY <1>2, <1>5, <1>7, <1>8 DEF d

\* The break of each style is one or two bytes.
LEMMA BreakTyped ==
  ASSUME NEW s \in Styles
  PROVE  BreakOf[s] \in Seq(Bytes) /\ BreakOf[s] \in {<<"LF">>, <<"CR">>, <<"CR", "LF">>}
<1>1. /\ BreakOf["unix"] = <<"LF">> /\ BreakOf["win"] = <<"CR", "LF">> /\ BreakOf["mac"] = <<"CR">>
  BY DEF BreakOf
<1>2. <<"LF">> \in Seq(Bytes) /\ <<"CR">> \in Seq(Bytes) /\ <<"CR", "LF">> \in Seq(Bytes)
  BY DEF Bytes, Breaks
<1> QED BY <1>1, <1>2 DEF Styles

\* What becomes of a byte is a sequence of bytes,
LEMMA PieceTyped ==
  ASSUME NEW b \in Seq(Bytes), NEW s \in Styles, NEW k \in 1 .. Len(b)
  PROVE  Piece(b, s, k) \in Seq(Bytes)
<1>1. BreakOf[s] \in Seq(Bytes) BY BreakTyped
<1>2. b[k] \in Bytes OBVIOUS
<1>3. <<b[k]>> \in Seq(Bytes) /\ <<>> \in Seq(Bytes) BY <1>2
<1> QED BY <1>1, <1>3, Zenon DEF Piece

\* which depends on that byte and the one before it only.
LEMMA PieceIn ==
  ASSUME NEW b, NEW d, NEW s, NEW k \in Nat, b[k] = d[k], k > 1 => b[k - 1] = d[k - 1]
  PROVE  Piece(b, s, k) = Piece(d, s, k)
BY DEF Piece

\* and a further byte adds its piece to the conversion.
LEMMA ConvertAppend ==
  ASSUME NEW b \in Seq(Bytes), NEW c \in Bytes, NEW s \in Styles
  PROVE  /\ Convert(b, s) \in Seq(Bytes)
         /\ Convert(Append(b, c), s) = Convert(b, s) \o Piece(Append(b, c), s, Len(b) + 1)
<1> DEFINE d == Append(b, c)  T == Seq(Bytes)  x == Piece(d, s, Len(b) + 1)
           p == [k \in DOMAIN b |-> Piece(b, s, k)]
           q == [k \in DOMAIN d |-> Piece(d, s, k)]
<1>1. /\ DOMAIN b = 1 .. Len(b) /\ DOMAIN d = 1 .. Len(b) + 1 /\ Len(b) \in Nat
      /\ d[Len(b) + 1] = c /\ \A k \in 1 .. Len(b) : d[k] = b[k] /\ b[k] \in Bytes
      /\ d \in Seq(Bytes) /\ Len(d) = Len(b) + 1
  OBVIOUS
<1> HIDE DEF d
<1>2. Convert(b, s) = FlattenSeq(p) /\ Convert(d, s) = FlattenSeq(q) BY DEF Convert
<1>3. x \in T /\ \A k \in 1 .. Len(b) : Piece(b, s, k) \in T
  <2>1. Len(b) + 1 \in 1 .. Len(d) BY <1>1
  <2> QED BY <1>1, <2>1, PieceTyped
<1> HIDE DEF T
<1>4. p \in Seq(T) /\ Len(p) = Len(b)
  <2>1. p \in [1 .. Len(b) -> T] BY <1>1, <1>3
  <2> HIDE DEF p
  <2> QED BY <1>1, <2>1
<1>5. q = Append(p, x)
  <2>1. \A k \in 1 .. Len(p) : q[k] = p[k]
    <3>1. TAKE k \in 1 .. Len(p)
    <3>2. k \in Nat /\ k \in 1 .. Len(b) /\ b[k] = d[k] /\ (k > 1 => b[k - 1] = d[k - 1])
      <4> HIDE DEF p
      <4> QED BY <1>1, <1>4
    <3>3. Piece(b, s, k) = Piece(d, s, k) BY <3>2, PieceIn
    <3> QED BY <1>1, <3>2, <3>3
  <2>0. Len(p) + 1 \in 1 .. Len(b) + 1 /\ Len(p) + 1 = Len(b) + 1 BY <1>1, <1>4
  <2>2. q[Len(p) + 1] = x BY <1>1, <2>0
  <2>3. DOMAIN q = 1 .. Len(p) + 1 BY <1>1, <1>4
  <2>4. q = [k \in 1 .. Len(p) + 1 |-> q[k]] BY <2>3
  <2> HIDE DEF p, q, x
  <2>5. p \in Seq(T) /\ x \in T BY <1>3, <1>4
  <2>6. \A more : DOMAIN more = 1 .. Len(p) + 1 /\ more = [k \in 1 .. Len(p) + 1 |-> more[k]] /\ (\A k \in 1 .. Len(p) : more[k] = p[k]) /\ more[Len(p) + 1] = x => more = Append(p, x) BY <2>5, Mapped
  <2> QED BY <2>1, <2>2, <2>3, <2>4, <2>6
<1> HIDE DEF p, q, x
<1>6. p \in Seq(Seq(Bytes)) /\ x \in Seq(Bytes) BY <1>3, <1>4 DEF T
<1>7. FlattenSeq(p) \in Seq(Bytes) BY <1>6, FlattenTyped
<1>8. FlattenSeq(Append(p, x)) = FlattenSeq(p) \o x BY <1>6, FlattenAppend
<1> QED BY <1>2, <1>5, <1>7, <1>8 DEF d, x

\* What a byte and a pair of bytes behind a text are to its ordinary characters.
LEMMA TextTwo ==
  ASSUME NEW o \in Seq(Bytes), NEW a \in Bytes, NEW b \in Bytes
  PROVE  /\ Text(o) \in Seq(Bytes) /\ Text(<<>>) = <<>>
         /\ Text(o \o <<a>>) = Text(o) \o Char(a)
         /\ Text(o \o <<a, b>>) = (Text(o) \o Char(a)) \o Char(b)
<1>1. o \o <<a>> = Append(o, a) /\ o \o <<a, b>> = Append(Append(o, a), b) /\ Append(o, a) \in Seq(Bytes)
  OBVIOUS
<1>2. Text(<<>>) = <<>> BY DEF Text, FlattenSeq
<1>3. Text(o) \in Seq(Bytes) /\ Text(Append(o, a)) = Text(o) \o Char(a) BY TextAppend
<1>4. Text(Append(Append(o, a), b)) = Text(Append(o, a)) \o Char(b) BY <1>1, TextAppend
<1> QED BY <1>1, <1>2, <1>3, <1>4, Zenon

\* What the next byte of the buffer adds.
LEMMA PrefixStep ==
  ASSUME NEW bytes \in Seq(Bytes), NEW s \in Styles, NEW n \in Nat, n < Len(bytes)
  PROVE  /\ bytes[n + 1] \in Bytes
         /\ Text(Prefix(bytes, n)) \in Seq(Bytes) /\ Convert(Prefix(bytes, n), s) \in Seq(Bytes)
         /\ Text(Prefix(bytes, n + 1)) = Text(Prefix(bytes, n)) \o Char(bytes[n + 1])
         /\ Convert(Prefix(bytes, n + 1), s) = Convert(Prefix(bytes, n), s) \o Piece(bytes, s, n + 1)
<1> DEFINE p == Prefix(bytes, n)  q == Prefix(bytes, n + 1)
<1>1. bytes[n + 1] \in Bytes /\ n \in 0 .. Len(bytes) /\ n + 1 \in 0 .. Len(bytes) /\ n + 1 \in Nat OBVIOUS
<1>2. p \in Seq(Bytes) /\ Len(p) = n /\ \A k \in 1 .. n : p[k] = bytes[k] BY <1>1, PrefixTyped
<1>3. q = Append(p, bytes[n + 1]) BY PrefixGrows
<1>4. \A k \in 1 .. n + 1 : q[k] = bytes[k] BY <1>1, PrefixTyped
<1> HIDE DEF p, q
<1>5. Piece(q, s, n + 1) = Piece(bytes, s, n + 1)
  <2>1. q[n + 1] = bytes[n + 1] /\ (n + 1 > 1 => q[(n + 1) - 1] = bytes[(n + 1) - 1]) BY <1>4
  <2> QED BY <1>1, <2>1, PieceIn
<1>6. Text(p) \in Seq(Bytes) /\ Text(q) = Text(p) \o Char(bytes[n + 1]) BY <1>1, <1>2, <1>3, TextAppend
<1>7. Convert(p, s) \in Seq(Bytes) /\ Convert(q, s) = Convert(p, s) \o Piece(q, s, n + 1)
  BY <1>1, <1>2, <1>3, ConvertAppend
<1> QED BY <1>1, <1>5, <1>6, <1>7 DEF p, q

-----------------------------------------------------------------------------
(* The invariant                                                           *)

\* The bytes that the loop is past.
Seen == IF i < Len(buffer) THEN i ELSE Len(buffer)

\* The counter stands between the two bytes of a Windows break.
InBreak == i \in 1 .. Len(buffer) - 1 /\ buffer[i] = "CR" /\ buffer[i + 1] = "LF"

\* The texts for which the breaks are promised.
Converting == lb = "win" \/ Separated(buffer)

\* The invariant: types,
Types ==
  /\ buffer \in Seq(Bytes) /\ Len(buffer) <= MaxLength /\ lb \in Styles
  /\ i \in 0 .. Len(buffer) + 1 /\ out \in Seq(Bytes) /\ result \in 0 .. Running

\* the state of the output while the loop runs,
SoFar ==
  result = Running =>
    /\ Text(out) = Text(Prefix(buffer, Seen))
    /\ Converting => out = Convert(Prefix(buffer, Seen), lb) /\ ~ InBreak

\* and the property.
Inv == Types /\ SoFar /\ SuccessIsConverted

\* What a busy loop knows of the byte it stands at and of the next one.
LEMMA AtByte ==
  ASSUME Types, Busy
  PROVE  /\ i \in Nat /\ i < Len(buffer) /\ Len(buffer) \in Nat /\ Seen = i
         /\ Byte(i) = buffer[i + 1] /\ Byte(i) \in Bytes /\ Byte(i + 1) \in Bytes
         /\ i + 1 < Len(buffer) => Byte(i + 1) = buffer[i + 2]
         /\ i + 1 = Len(buffer) => Byte(i + 1) = "LF"
<1>1. i \in Nat /\ i < Len(buffer) /\ Len(buffer) \in Nat BY DEF Types, Busy
<1>2. Byte(i) = buffer[i + 1] BY <1>1 DEF Byte
<1>3. i + 1 < Len(buffer) => Byte(i + 1) = buffer[i + 2]
  <2>1. (i + 1) + 1 = i + 2 BY <1>1
  <2> QED BY <2>1 DEF Byte
<1>4. i + 1 = Len(buffer) => Byte(i + 1) = "LF" BY <1>1 DEF Byte
<1>5. Byte(i) \in Bytes BY <1>1, <1>2 DEF Types
<1>6. Byte(i + 1) \in Bytes
  <2>1. CASE i + 1 < Len(buffer) BY <1>1, <1>3, <2>1 DEF Types
  <2>2. CASE ~ (i + 1 < Len(buffer))
    <3>1. i + 1 = Len(buffer) BY <1>1, <2>2
    <3> QED BY <1>4, <3>1 DEF Bytes, Breaks
  <2> QED BY <2>1, <2>2
<1> QED BY <1>1, <1>2, <1>3, <1>4, <1>5, <1>6 DEF Seen

\* A put that failed at the byte where the loop stood is not taken for success.
LEMMA FailedHere ==
  ASSUME Inv, Busy, result' = i, i' = i, UNCHANGED <<buffer, lb>>, out' \in Seq(Bytes)
  PROVE  Inv'
<1>1. i \in Nat /\ i < Len(buffer) /\ Len(buffer) \in Nat /\ Len(buffer) <= MaxLength /\ MaxLength \in Nat
  BY AtByte, LineBreaksAssumption DEF Inv, Types
<1>2. result' # Running' /\ result' # Len(buffer') /\ result' \in 0 .. Running' BY <1>1 DEF Running
<1>3. Types' BY <1>1, <1>2 DEF Inv, Types
<1>4. SoFar' BY <1>2 DEF SoFar
<1>5. SuccessIsConverted' BY <1>2 DEF SuccessIsConverted
<1> QED BY <1>3, <1>4, <1>5 DEF Inv

\* A turn that went well needs to be looked at for what it put only.
LEMMA WentOn ==
  ASSUME Inv, Busy, UNCHANGED <<buffer, lb, result>>,
         i' \in 0 .. Len(buffer) + 1, out' \in Seq(Bytes),
         Text(out') = Text(Prefix(buffer, Seen')),
         Converting => out' = Convert(Prefix(buffer, Seen'), lb) /\ ~ InBreak'
  PROVE  Inv'
<1>1. Types' BY DEF Inv, Types, Running
<1>2. result = Running /\ MaxLength \in Nat /\ Len(buffer) <= MaxLength /\ Len(buffer) \in Nat
  BY LineBreaksAssumption DEF Busy, Inv, Types
<1>3. result' # Len(buffer') BY <1>2 DEF Running
<1>4. SuccessIsConverted' BY <1>3 DEF SuccessIsConverted
<1>5. Converting' = Converting BY DEF Converting, Separated
<1>6. SoFar' BY <1>5 DEF SoFar
<1> QED BY <1>1, <1>4, <1>6 DEF Inv

\* Nothing is out of nothing.
LEMMA InitInv == Init => Inv
<1> SUFFICES ASSUME Init PROVE Inv OBVIOUS
<1>0. MaxLength \in Nat BY LineBreaksAssumption
<1>1. PICK n \in 0 .. MaxLength : buffer \in [1 .. n -> Bytes] BY DEF Init
<1>2. buffer \in Seq(Bytes) /\ Len(buffer) = n BY <1>1
<1>3. Types BY <1>0, <1>2 DEF Types, Init, Running
<1>4. Seen = 0 BY <1>2 DEF Seen, Init
<1>5. Prefix(buffer, Seen) = <<>> BY <1>2, <1>4, PrefixAll
<1>6. Convert(<<>>, lb) = <<>> BY DEF Convert, FlattenSeq
<1>7. ~ InBreak BY DEF InBreak, Init
<1>8. SoFar BY <1>5, <1>6, <1>7 DEF SoFar, Init
<1>9. result # Len(buffer) BY <1>0, <1>2 DEF Init, Running
<1> QED BY <1>3, <1>8, <1>9 DEF Inv, SuccessIsConverted

\* At the end of the loop the whole buffer is behind it.
LEMMA ReturnInv == Inv /\ Return => Inv'
<1> SUFFICES ASSUME Inv, Return PROVE Inv' OBVIOUS
<1>1. buffer \in Seq(Bytes) /\ Len(buffer) \in Nat /\ Len(buffer) <= MaxLength /\ MaxLength \in Nat /\ i \in Nat
  BY LineBreaksAssumption DEF Inv, Types
<1>2. Seen = Len(buffer) BY <1>1 DEF Return, Seen
<1>3. Prefix(buffer, Seen) = buffer BY <1>1, <1>2, PrefixAll
<1>4. Text(out) = Text(buffer) /\ (Converting => out = Convert(buffer, lb)) BY <1>3 DEF Inv, SoFar, Return
<1>5. result' # Running BY <1>1 DEF Return, Running
<1>6. Types' BY <1>1 DEF Inv, Types, Return, Running
<1>7. SoFar' BY <1>5 DEF SoFar, Running
<1>8. SuccessIsConverted' BY <1>4 DEF SuccessIsConverted, Converting, Return, Separated
<1> QED BY <1>6, <1>7, <1>8 DEF Inv

\* A put in the middle: the outputs of a turn that failed.
LEMMA Partly ==
  ASSUME NEW o \in Seq(Bytes), NEW a \in Bytes, NEW b \in Bytes
  PROVE  /\ o \o SubSeq(<<a>>, 1, 0) \in Seq(Bytes)
         /\ o \o SubSeq(<<a, b>>, 1, 0) \in Seq(Bytes)
         /\ o \o SubSeq(<<a, b>>, 1, 1) = o \o <<a>>
         /\ o \o <<a>> \in Seq(Bytes) /\ o \o <<a, b>> \in Seq(Bytes)
<1>1. SubSeq(<<a>>, 1, 0) = <<>> /\ SubSeq(<<a, b>>, 1, 0) = <<>> OBVIOUS
<1>4. SubSeq(<<a, b>>, 1, 1) = <<a>>
  <2> DEFINE s == SubSeq(<<a, b>>, 1, 1)
  <2>1. s \in Seq(Bytes) /\ Len(s) = 1 /\ s[1] = a OBVIOUS
  <2>2. <<a>> \in Seq(Bytes) /\ Len(<<a>>) = 1 /\ <<a>>[1] = a OBVIOUS
  <2> HIDE DEF s
  <2>3. s = <<a>> BY <2>1, <2>2
  <2> QED BY <2>3 DEF s
<1>2. <<>> \in Seq(Bytes) /\ <<a>> \in Seq(Bytes) /\ <<a, b>> \in Seq(Bytes) OBVIOUS
<1>3. o \o <<>> \in Seq(Bytes) /\ o \o <<a>> \in Seq(Bytes) /\ o \o <<a, b>> \in Seq(Bytes)
  BY <1>2
<1> QED BY <1>1, <1>3, <1>4, Zenon

\* Bytes put one after the other are put together.
LEMMA Together ==
  ASSUME NEW o \in Seq(Bytes), NEW a \in Bytes, NEW b \in Bytes
  PROVE  /\ <<a>> \o <<>> = <<a>> /\ <<a>> \o <<b>> = <<a, b>>
         /\ (o \o <<a>>) \o <<b>> = o \o <<a, b>>
<1>1. <<a>> \in Seq(Bytes) /\ o \o <<a>> \in Seq(Bytes) OBVIOUS
<1>2. <<a>> \o <<>> = <<a>> OBVIOUS
<1>3. <<a>> \o <<b>> = Append(<<a>>, b) BY <1>1
<1>4. Append(<<a>>, b) = <<a, b>>
  <2> DEFINE r == Append(<<a>>, b)  u == <<a, b>>
  <2>1. r \in Seq(Bytes) /\ Len(r) = 2 /\ r[1] = a /\ r[2] = b BY <1>1
  <2>2. u \in Seq(Bytes) /\ Len(u) = 2 /\ u[1] = a /\ u[2] = b OBVIOUS
  <2> HIDE DEF r, u
  <2>3. r = u BY <2>1, <2>2
  <2> QED BY <2>3 DEF r, u
<1>5. o \o <<a>> = Append(o, a) /\ o \o <<a, b>> = Append(Append(o, a), b) OBVIOUS
<1>6. (o \o <<a>>) \o <<b>> = Append(o \o <<a>>, b) BY <1>1
<1> QED BY <1>2, <1>3, <1>4, <1>5, <1>6, Zenon

\* An ordinary byte adds its character and its piece.
LEMMA CopyInv == Inv /\ Copy => Inv'
<1> SUFFICES ASSUME Inv, Copy PROVE Inv' OBVIOUS
<1> DEFINE x == Byte(i)
<1>1. Busy /\ x \notin Breaks /\ Turn(<<x>>, 1, <<i>>) BY DEF Copy
<1>2. /\ i \in Nat /\ i < Len(buffer) /\ Len(buffer) \in Nat /\ Seen = i /\ x = buffer[i + 1] /\ x \in Bytes
      /\ buffer \in Seq(Bytes) /\ lb \in Styles /\ out \in Seq(Bytes)
  BY <1>1, AtByte DEF Inv, Types
<1> HIDE DEF x
<1>3. CASE out' = out \o <<x>> /\ i' = i + 1 /\ UNCHANGED <<buffer, lb, result>>
  <2>1. Seen' = i + 1 BY <1>2, <1>3 DEF Seen
  <2>2. Text(out') = Text(out) \o Char(x) BY <1>2, <1>3, TextTwo
  <2>3. Text(Prefix(buffer, i + 1)) = Text(Prefix(buffer, i)) \o Char(x) BY <1>2, PrefixStep
  <2>4. Convert(Prefix(buffer, i + 1), lb) = Convert(Prefix(buffer, i), lb) \o Piece(buffer, lb, i + 1)
    BY <1>2, PrefixStep
  <2>5. Piece(buffer, lb, i + 1) = <<x>> BY <1>1, <1>2 DEF Piece
  <2>6. ~ InBreak' BY <1>1, <1>2, <1>3 DEF InBreak, Breaks
  <2>7. result = Running BY <1>1 DEF Busy
  <2>8. Text(out') = Text(Prefix(buffer, Seen')) BY <1>2, <2>1, <2>2, <2>3, <2>7 DEF Inv, SoFar
  <2>9. Converting => out' = Convert(Prefix(buffer, Seen'), lb)
    BY <1>2, <1>3, <2>1, <2>4, <2>5, <2>7 DEF Inv, SoFar
  <2>10. out' \in Seq(Bytes) /\ i' \in 0 .. Len(buffer) + 1 BY <1>2, <1>3, Partly
  <2> QED BY <1>1, <1>3, <2>6, <2>8, <2>9, <2>10, WentOn
<1>4. CASE out' = out \o SubSeq(<<x>>, 1, 0) /\ i' = i /\ result' = i /\ UNCHANGED <<buffer, lb>>
  <2>1. out' \in Seq(Bytes) BY <1>2, <1>4, Partly
  <2> QED BY <1>1, <1>4, <2>1, FailedHere
<1>5. (out' = out \o <<x>> /\ i' = i + 1 /\ UNCHANGED <<buffer, lb, result>>)
      \/ (out' = out \o SubSeq(<<x>>, 1, 0) /\ i' = i /\ result' = i /\ UNCHANGED <<buffer, lb>>)
  <2>1. Len(<<x>>) - 1 = 0 /\ <<i>>[0 + 1] = i OBVIOUS
  <2>2. \A k \in 0 .. 0 : k = 0 OBVIOUS
  <2> QED BY <1>1, <2>1, <2>2 DEF Turn
<1> QED BY <1>3, <1>4, <1>5

\* A Windows break adds no character; the second byte, if it is skipped, no piece.
LEMMA WinBreakInv == Inv /\ WinBreak => Inv'
<1> SUFFICES ASSUME Inv, WinBreak PROVE Inv' OBVIOUS
<1> DEFINE x == Byte(i)  y == Byte(i + 1)  used == IF x = "CR" /\ y = "LF" THEN 2 ELSE 1
<1>1. Busy /\ x \in Breaks /\ lb = "win" /\ Turn(<<"CR", "LF">>, used, <<i, i>>) BY DEF WinBreak
<1>2. /\ i \in Nat /\ i < Len(buffer) /\ Len(buffer) \in Nat /\ Seen = i /\ x = buffer[i + 1] /\ x \in Bytes
      /\ buffer \in Seq(Bytes) /\ lb \in Styles /\ out \in Seq(Bytes) /\ y \in Bytes
      /\ (i + 1 < Len(buffer) => y = buffer[i + 2]) /\ (i + 1 = Len(buffer) => y = "LF")
      /\ "CR" \in Bytes /\ "LF" \in Bytes /\ "CR" \in Breaks /\ "LF" \in Breaks
  BY <1>1, AtByte DEF Inv, Types, Bytes, Breaks
<1>3. result = Running /\ Converting BY <1>1 DEF Busy, Converting
<1>4. Text(out) = Text(Prefix(buffer, i)) /\ out = Convert(Prefix(buffer, i), lb) /\ ~ InBreak
  BY <1>2, <1>3 DEF Inv, SoFar
<1> HIDE DEF x, y
<1>5. used \in {1, 2} OBVIOUS
<1>6. Char(x) = <<>> /\ Char("CR") = <<>> /\ Char("LF") = <<>> /\ BreakOf[lb] = <<"CR", "LF">>
  BY <1>1, <1>2 DEF Char, BreakOf
<1>7. Piece(buffer, lb, i + 1) = <<"CR", "LF">>
  <2>1. ~ (buffer[i + 1] = "LF" /\ i + 1 > 1 /\ buffer[(i + 1) - 1] = "CR")
    <3>1. (i + 1) - 1 = i BY <1>2
    <3> QED BY <1>2, <1>4, <3>1 DEF InBreak
  <2> QED BY <1>1, <1>2, <1>6, <2>1 DEF Piece
<1>8. /\ Text(Prefix(buffer, i + 1)) = Text(Prefix(buffer, i))
      /\ Convert(Prefix(buffer, i + 1), lb) = Convert(Prefix(buffer, i), lb) \o <<"CR", "LF">>
      /\ Convert(Prefix(buffer, i + 1), lb) \in Seq(Bytes)
  <2>1. /\ Text(Prefix(buffer, i)) \in Seq(Bytes) /\ Convert(Prefix(buffer, i), lb) \in Seq(Bytes)
        /\ Text(Prefix(buffer, i + 1)) = Text(Prefix(buffer, i)) \o Char(x)
        /\ Convert(Prefix(buffer, i + 1), lb) = Convert(Prefix(buffer, i), lb) \o Piece(buffer, lb, i + 1)
    BY <1>2, PrefixStep
  <2>2. Convert(Prefix(buffer, i), lb) \o <<"CR", "LF">> \in Seq(Bytes) BY <1>2, <2>1, Partly
  <2> DEFINE t == Text(Prefix(buffer, i))
  <2>3. t \o <<>> = t
    <3>1. t \in Seq(Bytes) BY <2>1
    <3> HIDE DEF t
    <3> QED BY <3>1
  <2> QED BY <1>6, <1>7, <2>1, <2>2, <2>3
<1> DEFINE done == out' = out \o <<"CR", "LF">> /\ i' = i + used /\ UNCHANGED <<buffer, lb, result>>
           fails == out' \in Seq(Bytes) /\ i' = i /\ result' = i /\ UNCHANGED <<buffer, lb>>
<1>9. CASE done
  <2>0. out' = out \o <<"CR", "LF">> /\ i' = i + used /\ UNCHANGED <<buffer, lb, result>> BY <1>9
  <2>1. Text(out') = Text(out)
    <3>0. /\ Text(out) \in Seq(Bytes)
          /\ Text(out \o <<"CR", "LF">>) = (Text(out) \o Char("CR")) \o Char("LF")
      BY <1>2, TextTwo
    <3>1. Text(out) \in Seq(Bytes) /\ Text(out') = (Text(out) \o <<>>) \o <<>> BY <1>6, <2>0, <3>0, Zenon
    <3> DEFINE t == Text(out)
    <3>2. t \in Seq(Bytes) BY <3>1
    <3> HIDE DEF t
    <3>3. (t \o <<>>) \o <<>> = t BY <3>2
    <3> QED BY <3>1, <3>3 DEF t
  <2>2. /\ Text(Prefix(buffer, Seen')) = Text(Prefix(buffer, i))
        /\ Convert(Prefix(buffer, Seen'), lb) = Convert(Prefix(buffer, i), lb) \o <<"CR", "LF">>
    <3>1. CASE Seen' = i + 1 BY <1>8, <3>1
    <3>2. CASE Seen' # i + 1
      <4>1. used = 2 /\ i + 1 < Len(buffer) /\ Seen' = i + 2 BY <1>2, <1>5, <2>0, <3>2 DEF Seen
      <4>2. x = "CR" /\ y = "LF" /\ y = buffer[i + 2] BY <1>2, <4>1
      <4> DEFINE m == i + 1
      <4>3. m \in Nat /\ m < Len(buffer) /\ m + 1 = i + 2 /\ (i + 2) - 1 = i + 1 /\ i + 2 > 1 BY <1>2, <4>1
      <4>4. /\ Text(Prefix(buffer, m)) \in Seq(Bytes) /\ Convert(Prefix(buffer, m), lb) \in Seq(Bytes)
            /\ Text(Prefix(buffer, m + 1)) = Text(Prefix(buffer, m)) \o Char(buffer[m + 1])
            /\ Convert(Prefix(buffer, m + 1), lb) = Convert(Prefix(buffer, m), lb) \o Piece(buffer, lb, m + 1)
        <5> HIDE DEF m
        <5> QED BY <1>2, <4>3, PrefixStep
      <4>5. Char(buffer[i + 2]) = <<>> BY <1>6, <4>2
      <4>6. Piece(buffer, lb, i + 2) = <<>> BY <1>2, <4>2, <4>3 DEF Piece
      <4> DEFINE t == Text(Prefix(buffer, m))  c == Convert(Prefix(buffer, m), lb)
      <4>7. t \o <<>> = t /\ c \o <<>> = c
        <5>1. t \in Seq(Bytes) /\ c \in Seq(Bytes) BY <4>4
        <5> HIDE DEF t, c
        <5> QED BY <5>1
      <4>8. Text(Prefix(buffer, i + 2)) = t /\ Convert(Prefix(buffer, i + 2), lb) = c
        BY <4>3, <4>4, <4>5, <4>6, <4>7, Zenon
      <4> QED BY <1>8, <4>1, <4>8
    <3> QED BY <3>1, <3>2
  <2>3. ~ InBreak'
    <3>1. CASE used = 2
      <4>1. y = "LF" /\ x = "CR" /\ i' = i + 2 /\ buffer' = buffer BY <2>0, <3>1
      <4>2. InBreak' => i + 1 < Len(buffer) /\ buffer[i + 2] = "CR" BY <1>2, <4>1 DEF InBreak
      <4> QED BY <1>2, <4>1, <4>2
    <3>2. CASE used = 1
      <4>1. ~ (y = "LF" /\ x = "CR") /\ i' = i + 1 /\ buffer' = buffer BY <2>0, <3>2
      <4>2. InBreak' => i + 1 < Len(buffer) /\ buffer[i + 1] = "CR" /\ buffer[(i + 1) + 1] = "LF"
        BY <1>2, <4>1 DEF InBreak
      <4>3. (i + 1) + 1 = i + 2 BY <1>2
      <4> QED BY <1>2, <4>1, <4>2, <4>3
    <3> QED BY <1>5, <3>1, <3>2
  <2>4. out' \in Seq(Bytes) /\ i' \in 0 .. Len(buffer) + 1 BY <1>2, <1>5, <2>0, Partly
  <2>5. Text(out') = Text(Prefix(buffer, Seen')) BY <1>4, <2>1, <2>2
  <2>6. out' = Convert(Prefix(buffer, Seen'), lb) BY <1>4, <2>0, <2>2
  <2> QED BY <1>1, <2>0, <2>3, <2>4, <2>5, <2>6, WentOn
<1>10. CASE fails BY <1>1, <1>10, FailedHere
<1>11. done \/ fails
  <2>1. Len(<<"CR", "LF">>) - 1 = 1 /\ <<i, i>>[0 + 1] = i /\ <<i, i>>[1 + 1] = i OBVIOUS
  <2>2. \A k \in 0 .. 1 : k = 0 \/ k = 1 OBVIOUS
  <2>3. out \o SubSeq(<<"CR", "LF">>, 1, 0) \in Seq(Bytes) /\ out \o SubSeq(<<"CR", "LF">>, 1, 1) \in Seq(Bytes)
    BY <1>2, Partly
  <2> HIDE DEF used
  <2> QED BY <1>1, <2>1, <2>2, <2>3 DEF Turn
<1> QED BY <1>9, <1>10, <1>11

\* The cases of LB_UNIX and LB_MAC, which consume two bytes.
LEMMA TwoBytesInv ==
  ASSUME NEW style \in {"unix", "mac"}, NEW replaced \in Breaks, NEW break \in Breaks,
         BreakOf[style] = <<break>>, Inv, TwoBytes(style, replaced, break)
  PROVE  Inv'
<1> DEFINE x == Byte(i)  y == Byte(i + 1)
           second == CASE x = "CR" /\ y = "LF" -> <<>>
                       [] x = replaced /\ y = replaced -> <<break>>
                       [] OTHER -> <<y>>
           bytes == <<break>> \o second
<1>1. Busy /\ x \in Breaks /\ lb = style /\ Turn(bytes, 2, <<i, i + 1>>) BY DEF TwoBytes
<1>2. /\ i \in Nat /\ i < Len(buffer) /\ Len(buffer) \in Nat /\ Seen = i /\ x = buffer[i + 1] /\ x \in Bytes
      /\ buffer \in Seq(Bytes) /\ lb \in Styles /\ out \in Seq(Bytes) /\ y \in Bytes
      /\ (i + 1 < Len(buffer) => y = buffer[i + 2]) /\ (i + 1 = Len(buffer) => y = "LF")
      /\ break \in Bytes /\ (y \in Breaks => y = "CR" \/ y = "LF") /\ (x = "CR" \/ x = "LF")
      /\ replaced \in {"CR", "LF"}
  BY <1>1, AtByte DEF Inv, Types, Bytes, Breaks
<1>3. result = Running /\ (Converting => Separated(buffer)) BY <1>1 DEF Busy, Converting
<1>4. /\ Text(out) = Text(Prefix(buffer, i))
      /\ Converting => out = Convert(Prefix(buffer, i), lb) /\ ~ InBreak
  BY <1>2, <1>3 DEF Inv, SoFar
<1> DEFINE pair == x = "CR" /\ y = "LF"
<1> HIDE DEF x, y
<1>5. Char(x) = <<>> /\ Char(break) = <<>> /\ (y \in Breaks => Char(y) = <<>>)
  BY <1>1 DEF Char
\* Separated texts: the break is followed by an ordinary character.
<1>6. Converting => i + 1 < Len(buffer) /\ (pair \/ y \notin Breaks)
                    /\ (pair => i + 2 < Len(buffer) /\ buffer[i + 3] \notin Breaks)
  <2>1. SUFFICES ASSUME Converting PROVE i + 1 < Len(buffer) /\ (pair \/ y \notin Breaks)
                    /\ (pair => i + 2 < Len(buffer) /\ buffer[i + 3] \notin Breaks)
    OBVIOUS
  <2> DEFINE k == i + 1
             after == IF buffer[k] = "CR" /\ k < Len(buffer) /\ buffer[k + 1] = "LF" THEN k + 2 ELSE k + 1
  <2>2. k \in 1 .. Len(buffer) /\ buffer[k] \in Breaks BY <1>1, <1>2
  <2>3. after <= Len(buffer) /\ buffer[after] \notin Breaks
    <3> HIDE DEF k
    <3> QED BY <1>3, <2>1, <2>2 DEF Separated
  <2>4. k + 1 = i + 2 /\ k + 2 = i + 3 BY <1>2
  <2>5. CASE pair /\ i + 1 < Len(buffer)
    <3>1. after = i + 3 BY <1>2, <2>4, <2>5
    <3> HIDE DEF after
    <3> QED BY <1>2, <2>3, <2>5, <3>1
  <2>6. CASE ~ (pair /\ i + 1 < Len(buffer))
    <3>1. after = i + 2
      <4>1. ~ (buffer[k] = "CR" /\ k < Len(buffer) /\ buffer[k + 1] = "LF") BY <1>2, <2>4, <2>6
      <4> QED BY <2>4, <4>1
    <3>2. i + 1 < Len(buffer)
      <4> HIDE DEF after
      <4> QED BY <1>2, <2>3, <3>1
    <3>3. y \notin Breaks
      <4> HIDE DEF after
      <4> QED BY <1>2, <2>3, <3>1, <3>2
    <3>4. ~ pair BY <3>3 DEF Breaks
    <3> QED BY <3>2, <3>3, <3>4
  <2> QED BY <2>5, <2>6
\* The bytes of this turn.
<1>7. \/ pair /\ bytes = <<break>>
      \/ ~ pair /\ y \in Breaks /\ bytes = <<break, break>>
      \/ ~ pair /\ bytes = <<break, y>>
  <2>1. /\ pair => second = <<>>
        /\ ~ pair => (y \in Breaks /\ second = <<break>>) \/ second = <<y>>
    BY <1>2
  <2>2. <<break>> \o <<>> = <<break>> /\ <<break>> \o <<break>> = <<break, break>> /\ <<break>> \o <<y>> = <<break, y>>
    BY <1>2, Together
  <2> HIDE DEF pair, second
  <2> QED BY <2>1, <2>2
<1>8. y \notin Breaks => ~ pair /\ bytes = <<break, y>>
  <2>1. y \notin Breaks => ~ pair /\ ~ (x = replaced /\ y = replaced) BY <1>2 DEF Breaks
  <2>2. y \notin Breaks => second = <<y>> BY <2>1
  <2>3. <<break>> \o <<y>> = <<break, y>> BY <1>2, Together
  <2> HIDE DEF second
  <2> QED BY <2>1, <2>2, <2>3
\* The text and its break up to the next byte.
<1> DEFINE t == Text(Prefix(buffer, i))  c == Convert(Prefix(buffer, i), lb)
<1>9. /\ t \in Seq(Bytes) /\ c \in Seq(Bytes)
      /\ Text(Prefix(buffer, i + 1)) = t
      /\ Convert(Prefix(buffer, i + 1), lb) = c \o Piece(buffer, lb, i + 1)
  <2>1. /\ t \in Seq(Bytes) /\ c \in Seq(Bytes)
        /\ Text(Prefix(buffer, i + 1)) = t \o Char(x)
        /\ Convert(Prefix(buffer, i + 1), lb) = c \o Piece(buffer, lb, i + 1)
    BY <1>2, PrefixStep
  <2> HIDE DEF t, c
  <2>2. t \o <<>> = t BY <2>1
  <2> QED BY <1>5, <2>1, <2>2
<1>10. i + 1 < Len(buffer) =>
         /\ Text(Prefix(buffer, i + 2)) = t \o Char(y)
         /\ Convert(Prefix(buffer, i + 2), lb) = Convert(Prefix(buffer, i + 1), lb) \o Piece(buffer, lb, i + 2)
  <2> SUFFICES ASSUME i + 1 < Len(buffer)
               PROVE  /\ Text(Prefix(buffer, i + 2)) = t \o Char(y)
                      /\ Convert(Prefix(buffer, i + 2), lb)
                           = Convert(Prefix(buffer, i + 1), lb) \o Piece(buffer, lb, i + 2)
    OBVIOUS
  <2> DEFINE m == i + 1
  <2>1. m \in Nat /\ m < Len(buffer) /\ m + 1 = i + 2 BY <1>2
  <2>2. /\ Text(Prefix(buffer, m + 1)) = Text(Prefix(buffer, m)) \o Char(buffer[m + 1])
        /\ Convert(Prefix(buffer, m + 1), lb) = Convert(Prefix(buffer, m), lb) \o Piece(buffer, lb, m + 1)
    <3> HIDE DEF m
    <3> QED BY <1>2, <2>1, PrefixStep
  <2> HIDE DEF t
  <2> QED BY <1>2, <1>9, <2>1, <2>2, Zenon
\* What a put of the first byte and of both leaves of the text.
<1>11. /\ Text(out \o <<break>>) = t
       /\ Text(out \o <<break, break>>) = t
       /\ Text(out \o <<break, y>>) = t \o Char(y)
  <2>1. /\ Text(out \o <<break>>) = Text(out) \o Char(break)
        /\ Text(out \o <<break, break>>) = (Text(out) \o Char(break)) \o Char(break)
        /\ Text(out \o <<break, y>>) = (Text(out) \o Char(break)) \o Char(y)
    BY <1>2, TextTwo
  <2> HIDE DEF t
  <2>2. t \o <<>> = t BY <1>9
  <2>3. Text(out) = t BY <1>4 DEF t
  <2> QED BY <1>5, <2>1, <2>2, <2>3, Zenon
<1> DEFINE done == out' = out \o bytes /\ i' = i + 2 /\ UNCHANGED <<buffer, lb, result>>
           fails(k) == /\ k \in 0 .. Len(bytes) - 1 /\ out' = out \o SubSeq(bytes, 1, k)
                       /\ i' = <<i, i + 1>>[k + 1] /\ result' = <<i, i + 1>>[k + 1] /\ UNCHANGED <<buffer, lb>>
<1>12. ASSUME done PROVE Inv'
  <2>0. out' = out \o bytes /\ i' = i + 2 /\ UNCHANGED <<buffer, lb, result>> BY <1>12
  <2> HIDE DEF second
  <2>1. out' \in Seq(Bytes) /\ i' \in 0 .. Len(buffer) + 1
    <3>1. out' \in {out \o <<break>>, out \o <<break, break>>, out \o <<break, y>>} BY <1>7, <2>0
    <3>2. out' \in Seq(Bytes)
      <4> HIDE DEF bytes
      <4>1. /\ out \o <<break>> \in Seq(Bytes) /\ out \o <<break, break>> \in Seq(Bytes)
            /\ out \o <<break, y>> \in Seq(Bytes)
        BY <1>2, Partly
      <4> QED BY <3>1, <4>1
    <3>3. i' \in 0 .. Len(buffer) + 1 BY <1>2, <2>0
    <3> QED BY <3>2, <3>3
  <2>2. Text(out') = Text(Prefix(buffer, Seen'))
    <3>1. CASE i + 1 < Len(buffer)
      <4>1. Seen' = i + 2 BY <1>2, <2>0, <3>1 DEF Seen
      <4>2. Text(out') = t \o Char(y)
        <5>1. y \in Breaks => t \o Char(y) = t
          <6> HIDE DEF t
          <6>1. t \o <<>> = t BY <1>9
          <6> QED BY <1>5, <6>1
        <5>2. pair => y \in Breaks BY DEF Breaks
        <5> HIDE DEF t, pair, bytes
        <5> QED BY <1>7, <1>11, <2>0, <5>1, <5>2
      <4> QED BY <1>10, <3>1, <4>1, <4>2
    <3>2. CASE i + 1 = Len(buffer)
      <4>1. Seen' = i + 1 /\ y = "LF" /\ y \in Breaks BY <1>2, <2>0, <3>2 DEF Seen, Breaks
      <4>2. Text(out') = t
        <5> HIDE DEF t, pair, bytes
        <5>1. t \o <<>> = t BY <1>9
        <5> QED BY <1>5, <1>7, <1>11, <2>0, <4>1, <5>1
      <4> QED BY <1>9, <4>1, <4>2
    <3> QED BY <1>2, <3>1, <3>2
  <2>3. ASSUME Converting PROVE out' = Convert(Prefix(buffer, Seen'), lb) /\ ~ InBreak'
    <3>1. i + 1 < Len(buffer) /\ (pair \/ y \notin Breaks) /\ y = buffer[i + 2] BY <1>2, <1>6, <2>3
    <3>2. Seen' = i + 2 BY <1>2, <2>0, <3>1 DEF Seen
    <3>3. Piece(buffer, lb, i + 1) = <<break>>
      <4>1. ~ (buffer[i + 1] = "LF" /\ i + 1 > 1 /\ buffer[(i + 1) - 1] = "CR")
        <5>1. (i + 1) - 1 = i BY <1>2
        <5> QED BY <1>2, <1>4, <2>3, <5>1 DEF InBreak
      <4> QED BY <1>1, <1>2, <4>1 DEF Piece
    <3>4. Convert(Prefix(buffer, i + 2), lb) = (c \o <<break>>) \o Piece(buffer, lb, i + 2)
      BY <1>9, <1>10, <3>1, <3>3
    <3>5. out = c BY <1>4, <2>3
    <3>6. (i + 2) - 1 = i + 1 /\ i + 2 > 1 BY <1>2
    <3>7. CASE pair
      <4>1. Piece(buffer, lb, i + 2) = <<>> BY <1>2, <3>1, <3>6, <3>7 DEF Piece, Breaks
      <4>2. bytes = <<break>> BY <1>7, <3>7
      <4> HIDE DEF c, bytes
      <4>3. (c \o <<break>>) \o <<>> = c \o <<break>> BY <1>2, <1>9
      <4>4. out' = Convert(Prefix(buffer, Seen'), lb) BY <2>0, <3>2, <3>4, <3>5, <4>1, <4>2, <4>3
      <4>5. ~ InBreak' BY <1>2, <2>0, <3>1, <3>7 DEF InBreak
      <4> QED BY <4>4, <4>5
    <3>8. CASE ~ pair
      <4>0. y \notin Breaks BY <3>1, <3>8
      <4>1. Piece(buffer, lb, i + 2) = <<y>> BY <3>1, <4>0 DEF Piece
      <4>2. bytes = <<break, y>> BY <1>8, <4>0
      <4> HIDE DEF c, bytes
      <4>3. (c \o <<break>>) \o <<y>> = c \o <<break, y>> BY <1>2, <1>9, Together
      <4>4. out' = Convert(Prefix(buffer, Seen'), lb) BY <2>0, <3>2, <3>4, <3>5, <4>1, <4>2, <4>3
      <4>5. ~ InBreak' BY <1>2, <2>0, <3>1, <4>0 DEF InBreak, Breaks
      <4> QED BY <4>4, <4>5
    <3> QED BY <3>7, <3>8
  <2> HIDE DEF bytes
  <2> QED BY <1>1, <2>0, <2>1, <2>2, <2>3, WentOn
<1>13. ASSUME NEW k, fails(k) PROVE Inv'
  <2> HIDE DEF second, pair
  <2>0. /\ k \in 0 .. Len(bytes) - 1 /\ out' = out \o SubSeq(bytes, 1, k)
        /\ i' = <<i, i + 1>>[k + 1] /\ result' = i' /\ UNCHANGED <<buffer, lb>>
    BY <1>13
  <2>1. bytes \in {<<break>>, <<break, break>>, <<break, y>>} BY <1>7
  <2> HIDE DEF bytes
  <2>2. k = 0 \/ (k = 1 /\ bytes # <<break>>)
    <3>1. bytes = <<break>> => Len(bytes) = 1 OBVIOUS
    <3>2. Len(bytes) \in {1, 2} BY <2>1
    <3> DEFINE L == Len(bytes)
    <3>3. k = 0 \/ (k = 1 /\ L = 2)
      <4>1. L \in {1, 2} /\ k \in 0 .. L - 1 BY <2>0, <3>2
      <4> HIDE DEF L
      <4> QED BY <4>1
    <3> QED BY <3>1, <3>3
  <2>3. CASE k = 0
    <3>1. out' \in Seq(Bytes)
      <4>1. SubSeq(bytes, 1, k) \in Seq(Bytes) BY <1>2, <2>1, <2>3
      <4> QED BY <1>2, <2>0, <4>1
    <3>2. i' = i BY <2>0, <2>3
    <3> QED BY <1>1, <2>0, <3>1, <3>2, FailedHere
  <2>4. CASE k = 1
    <3>1. out' = out \o <<break>> BY <1>2, <2>0, <2>1, <2>2, <2>4, Partly
    <3>2. i' = i + 1 /\ result' = i + 1 BY <2>0, <2>4
    <3>3. out' \in Seq(Bytes) BY <1>2, <3>1, Partly
    <3>4. MaxLength \in Nat /\ Len(buffer) <= MaxLength BY LineBreaksAssumption DEF Inv, Types
    <3>5. Types' BY <1>2, <2>0, <3>2, <3>3, <3>4 DEF Inv, Types, Running
    <3>6. SoFar' BY <1>2, <3>2, <3>4 DEF SoFar, Running
    <3>7. ASSUME i + 1 = Len(buffer) PROVE Text(out') = Text(buffer) /\ ~ Converting
      <4>1. Prefix(buffer, i + 1) = buffer BY <1>2, <3>7, PrefixAll
      <4>2. Text(out') = Text(buffer) BY <1>9, <1>11, <3>1, <4>1
      <4>3. ~ Converting BY <1>2, <1>6, <3>7
      <4> QED BY <4>2, <4>3
    <3>8. SuccessIsConverted' BY <2>0, <3>2, <3>7 DEF SuccessIsConverted, Converting, Separated
    <3> QED BY <3>5, <3>6, <3>8 DEF Inv
  <2> QED BY <2>2, <2>3, <2>4
<1>14. done \/ \E k : fails(k)
  <2> HIDE DEF bytes
  <2> QED BY <1>1 DEF Turn
<1> QED BY <1>12, <1>13, <1>14

\* edit_write_stream returns the size of the buffer only when every ordinary character is
\* out in its order, and, with Windows breaks or where no break follows a break or ends
\* the text, every break converted.
THEOREM SuccessIsConvertedHolds == Spec => []SuccessIsConverted
<1>1. Init => Inv BY InitInv
<1>2. Inv /\ [Next]_vars => Inv'
  <2> SUFFICES ASSUME Inv, [Next]_vars PROVE Inv' OBVIOUS
  <2>0. /\ "CR" \in Breaks /\ "LF" \in Breaks
        /\ BreakOf["unix"] = <<"LF">> /\ BreakOf["mac"] = <<"CR">>
    BY DEF Breaks, BreakOf
  <2>1. CASE Copy BY <2>1, CopyInv
  <2>2. CASE UnixBreak BY <2>0, <2>2, TwoBytesInv DEF UnixBreak
  <2>3. CASE MacBreak BY <2>0, <2>3, TwoBytesInv DEF MacBreak
  <2>4. CASE WinBreak BY <2>4, WinBreakInv
  <2>5. CASE Return BY <2>5, ReturnInv
  <2>6. CASE UNCHANGED vars
    BY <2>6 DEF vars, Inv, Types, SoFar, Seen, InBreak, Converting, SuccessIsConverted, Separated, Running
  <2> QED BY <2>1, <2>2, <2>3, <2>4, <2>5, <2>6 DEF Next
<1>3. Inv => SuccessIsConverted BY DEF Inv
<1> QED BY <1>1, <1>2, <1>3, PTL DEF Spec
=============================================================================
