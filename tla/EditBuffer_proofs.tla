-------------------------- MODULE EditBuffer_proofs --------------------------
(***************************************************************************)
(* The two lists of chunks are a text with a cursor, a save writes that     *)
(* text, and the numbers of lines are those of it, for every text, every   *)
(* size of the chunks and every limit.                                     *)
(***************************************************************************)
EXTENDS EditBuffer, SequenceTheorems, FiniteSetTheorems, FunctionTheorems, WellFoundedInduction, TLAPS

Values == Bytes \cup {"zero"}
ChunkLists == Seq([0 .. BufSize - 1 -> Values])

Sides == {"before", "behind"}

\* The place of the byte number i in its chunk, in a list that is filled from
\* the start of the chunks, or from their end.
Slot(i, side) == IF side = "behind" THEN BufSize - 1 - (i % BufSize) ELSE i % BufSize
ByteAt(b, i, side) == Chunk(b, i)[Slot(i, side)]
PutAt(b, n, side, c) == [Grown(b, n) EXCEPT ![n \div BufSize + 1][Slot(n, side)] = c]

-----------------------------------------------------------------------------
\* How many chunks n bytes need, and one byte more.
LEMMA Division ==
  ASSUME NEW n \in Nat
  PROVE  n \div BufSize \in Nat /\ n % BufSize \in 0 .. BufSize - 1
BY BoundsAssumption, SMTT(20)

\* When no chunk is begun, n bytes fill theirs,
LEMMA FullChunks ==
  ASSUME NEW n \in Nat, n % BufSize = 0
  PROVE  Chunks(n) = n \div BufSize
BY BoundsAssumption, SMTT(20) DEF Chunks

\* and when one is begun, it is one more.
LEMMA OpenChunk ==
  ASSUME NEW n \in Nat, n % BufSize # 0
  PROVE  Chunks(n) = n \div BufSize + 1
BY BoundsAssumption, SMTT(20) DEF Chunks

\* The byte n, counted from 0, is in the last chunk of n + 1 bytes.
LEMMA ChunkOfNext ==
  ASSUME NEW n \in Nat
  PROVE  Chunks(n + 1) = n \div BufSize + 1
BY BoundsAssumption, SMTT(20) DEF Chunks

\* The byte n is in the chunk it needs, the ones before it are there already.
LEMMA ChunkExists ==
  ASSUME NEW n \in Nat, NEW i \in 0 .. n - 1
  PROVE  i \div BufSize + 1 \in 1 .. Chunks(n)
BY BoundsAssumption, SMTT(20) DEF Chunks

\* The place of a byte is in its chunk,
LEMMA SlotFits ==
  ASSUME NEW n \in Nat, NEW side \in Sides
  PROVE  Slot(n, side) \in 0 .. BufSize - 1
<1>1. n % BufSize \in 0 .. BufSize - 1 BY Division
<1> QED BY <1>1, BoundsAssumption DEF Slot

\* and no other byte of the chunk has it.
LEMMA SlotsDiffer ==
  ASSUME NEW n \in Nat, NEW i \in 0 .. n - 1, i \div BufSize = n \div BufSize, NEW side \in Sides
  PROVE  Slot(i, side) # Slot(n, side)
<1>1. i % BufSize # n % BufSize BY BoundsAssumption, SMTT(20)
<1>2. i % BufSize \in Int /\ n % BufSize \in Int BY Division
<1> QED BY <1>1, <1>2, BoundsAssumption DEF Slot

\* A new chunk at the end of a list leaves the others alone.
LEMMA AppendKeeps ==
  ASSUME NEW b \in ChunkLists, NEW chunk \in [0 .. BufSize - 1 -> Values]
  PROVE  Append(b, chunk) \in ChunkLists /\ \A k \in 1 .. Len(b) : Append(b, chunk)[k] = b[k]
<1> DEFINE S == [0 .. BufSize - 1 -> Values]
<1>1. b \in Seq(S) /\ chunk \in S BY DEF ChunkLists
<1>2. Append(b, chunk) \in Seq(S) /\ \A k \in 1 .. Len(b) : Append(b, chunk)[k] = b[k]
  <2> HIDE DEF S
  <2> QED BY <1>1
<1> QED BY <1>2 DEF ChunkLists

\* edit_buffer_insert adds a chunk exactly when the next byte needs one.
LEMMA GrownFits ==
  ASSUME NEW b \in ChunkLists, NEW n \in Nat, Len(b) = Chunks(n)
  PROVE  /\ Grown(b, n) \in ChunkLists /\ Len(Grown(b, n)) = Chunks(n + 1) /\ Len(b) <= Len(Grown(b, n))
         /\ \A k \in 1 .. Len(b) : Grown(b, n)[k] = b[k]
<1>1. Zeroed \in [0 .. BufSize - 1 -> Values] BY DEF Zeroed, Values
<1>2. n \div BufSize \in Nat BY Division
<1>3. CASE n % BufSize = 0
  <2>1. Grown(b, n) = Append(b, Zeroed) /\ Len(b) = n \div BufSize BY <1>3, FullChunks DEF Grown
  <2>2. Len(Grown(b, n)) = n \div BufSize + 1 BY <2>1, <1>2 DEF ChunkLists
  <2>3. \A k \in 1 .. Len(b) : Grown(b, n)[k] = b[k] BY <1>1, <2>1, AppendKeeps
  <2>4. Grown(b, n) \in ChunkLists BY <1>1, <2>1, AppendKeeps
  <2>5. Len(Grown(b, n)) = Chunks(n + 1) BY <2>2, ChunkOfNext
  <2>6. Len(b) <= Len(Grown(b, n)) BY <2>1, <2>2, <1>2
  <2> QED BY <2>3, <2>4, <2>5, <2>6
<1>4. CASE n % BufSize # 0
  <2>1. Grown(b, n) = b /\ Len(b) = n \div BufSize + 1 BY <1>4, OpenChunk DEF Grown
  <2> QED BY <2>1, ChunkOfNext
<1> QED BY <1>3, <1>4

\* A byte that is put behind the others is there, and the others stay.
LEMMA PutKeeps ==
  ASSUME NEW b \in ChunkLists, NEW n \in Nat, Len(b) = Chunks(n),
         NEW side \in Sides, NEW c \in Values
  PROVE  LET put == PutAt(b, n, side, c) IN
         /\ put \in ChunkLists /\ Len(put) = Chunks(n + 1)
         /\ ByteAt(put, n, side) = c
         /\ \A i \in 0 .. n - 1 : ByteAt(put, i, side) = ByteAt(b, i, side)
<1> DEFINE g == Grown(b, n)  put == PutAt(b, n, side, c)
           k == n \div BufSize + 1  slot == Slot(n, side)
<1>0. Len(b) <= Len(g) BY GrownFits
<1>1. g \in ChunkLists /\ Len(g) = Chunks(n + 1) /\ \A j \in 1 .. Len(b) : g[j] = b[j] BY GrownFits
<1>2. k \in 1 .. Len(g) /\ slot \in 0 .. BufSize - 1 
  <2>1. n \div BufSize \in Nat /\ Len(g) = n \div BufSize + 1 BY <1>1, Division, ChunkOfNext
  <2> QED BY <2>1, SlotFits, SMTT(30)
<1>3. g[k] \in [0 .. BufSize - 1 -> Values] BY <1>1, <1>2 DEF ChunkLists
<1>4. put = [g EXCEPT ![k] = [g[k] EXCEPT ![slot] = c]] BY DEF PutAt
<1>5. [g[k] EXCEPT ![slot] = c] \in [0 .. BufSize - 1 -> Values] BY <1>2, <1>3
<1>6. put \in ChunkLists /\ Len(put) = Len(g) BY <1>1, <1>2, <1>4, <1>5 DEF ChunkLists
<1>7. put[k] = [g[k] EXCEPT ![slot] = c] BY <1>1, <1>2, <1>4 DEF ChunkLists
<1>8. ByteAt(put, n, side) = c BY <1>7, <1>3, <1>2 DEF ByteAt, Chunk
<1>9. ASSUME NEW i \in 0 .. n - 1 PROVE ByteAt(put, i, side) = ByteAt(b, i, side)
  <2> DEFINE m == i \div BufSize + 1
  <2>0. i \div BufSize \in Nat /\ n \div BufSize \in Nat
    <3>1. i \in Nat OBVIOUS
    <3> QED BY <3>1, Division
  <2>1. m \in 1 .. Len(b) /\ m \in 1 .. Len(g)
    <3>1. m \in 1 .. Len(b) BY ChunkExists
    <3>2. Len(b) <= Len(g) BY <1>0 DEF ChunkLists
    <3> QED BY <3>1, <3>2, <1>1 DEF ChunkLists
  <2>2. Slot(i, side) \in 0 .. BufSize - 1 BY SlotFits
  <2>3. CASE m # k
    <3>1. put[m] = g[m] BY <2>1, <2>3, <1>1, <1>4 DEF ChunkLists
    <3> QED BY <3>1, <2>1, <1>1 DEF ByteAt, Chunk
  <2>4. CASE m = k
    <3>1. Slot(i, side) # slot
      <4>1. i \div BufSize = n \div BufSize BY <2>4, <2>0
      <4> QED BY <4>1, SlotsDiffer
    <3>2. put[m][Slot(i, side)] = g[m][Slot(i, side)] BY <3>1, <2>2, <2>4, <1>7, <1>3
    <3> QED BY <3>2, <2>1, <1>1 DEF ByteAt, Chunk
  <2> QED BY <2>3, <2>4
<1> QED BY <1>1, <1>6, <1>8, <1>9

\* The first chunks of a list are chunks, and unchanged.
LEMMA FrontKeeps ==
  ASSUME NEW b \in ChunkLists, NEW len \in Nat, len <= Len(b)
  PROVE  LET front == SubSeq(b, 1, len) IN
         front \in ChunkLists /\ Len(front) = len /\ \A k \in 1 .. len : front[k] = b[k]
<1> DEFINE S == [0 .. BufSize - 1 -> Values]  front == SubSeq(b, 1, len)
<1> b \in Seq(S) BY DEF ChunkLists
<1>1. \A k \in 1 .. len : b[k] \in S
  <2> HIDE DEF S
  <2> QED OBVIOUS
<1>2. /\ front \in Seq(S) /\ Len(front) = len
      /\ \A k \in 1 .. len : front[k] = b[k]
  <2> HIDE DEF S
  <2> QED BY <1>1
<1> QED BY <1>2 DEF ChunkLists

\* The last byte is taken away, with its chunk when it was alone there.
LEMMA TakeKeeps ==
  ASSUME NEW b \in ChunkLists, NEW n \in Nat \ {0}, Len(b) = Chunks(n), NEW side \in Sides
  PROVE  LET taken == Shrunk(b, n - 1) IN
         /\ taken \in ChunkLists /\ Len(taken) = Chunks(n - 1)
         /\ \A i \in 0 .. n - 2 : ByteAt(taken, i, side) = ByteAt(b, i, side)
<1> DEFINE taken == Shrunk(b, n - 1)
<1>1. n - 1 \in Nat /\ (n - 1) + 1 = n OBVIOUS
<1>2. Len(b) = (n - 1) \div BufSize + 1 /\ (n - 1) \div BufSize \in Nat
  BY <1>1, ChunkOfNext, Division, Zenon
<1>3. /\ taken \in ChunkLists /\ Len(taken) = Chunks(n - 1)
      /\ \A k \in 1 .. Len(taken) : taken[k] = b[k]
  <2>1. CASE (n - 1) % BufSize = 0
    <3>1. taken = SubSeq(b, 1, Len(b) - 1) BY <2>1 DEF Shrunk, Front
    <3>2. Chunks(n - 1) = (n - 1) \div BufSize BY <2>1, <1>1, FullChunks
    <3>3. Len(b) - 1 \in Nat /\ Len(b) - 1 <= Len(b) /\ Len(b) - 1 = Chunks(n - 1) BY <3>2, <1>2
    <3>4. taken = SubSeq(b, 1, Chunks(n - 1)) BY <3>1, <3>3
    <3>5. Chunks(n - 1) \in Nat /\ Chunks(n - 1) <= Len(b) BY <3>3
    <3> HIDE DEF taken
    <3> QED BY <3>4, <3>5, FrontKeeps
  <2>2. CASE (n - 1) % BufSize # 0
    <3>1. taken = b BY <2>2 DEF Shrunk
    <3>2. Chunks(n - 1) = (n - 1) \div BufSize + 1 BY <2>2, <1>1, OpenChunk
    <3> QED BY <3>1, <3>2, <1>2
  <2> QED BY <2>1, <2>2
<1>4. ASSUME NEW i \in 0 .. n - 2 PROVE ByteAt(taken, i, side) = ByteAt(b, i, side)
  <2>1. i \div BufSize + 1 \in 1 .. Chunks(n - 1) BY <1>1, ChunkExists
  <2> QED BY <2>1, <1>3 DEF ByteAt, Chunk
<1> QED BY <1>3, <1>4

-----------------------------------------------------------------------------
(* The texts the lists stand for                                           *)

LeftOf(b, n) == [i \in 1 .. n |-> ByteAt(b, i - 1, "before")]
RightOf(b, n) == [i \in 1 .. n |-> ByteAt(b, n - i, "behind")]

\* Every byte that the list is said to hold is a byte,
LEMMA ByteTyped ==
  ASSUME NEW b \in ChunkLists, NEW n \in Nat, Len(b) = Chunks(n), NEW i \in 0 .. n - 1, NEW side \in Sides
  PROVE  ByteAt(b, i, side) \in Values
<1>1. i \div BufSize + 1 \in 1 .. Len(b) BY ChunkExists
<1>2. b[i \div BufSize + 1] \in [0 .. BufSize - 1 -> Values] BY <1>1 DEF ChunkLists
<1>3. Slot(i, side) \in 0 .. BufSize - 1
  <2>1. i \in Nat OBVIOUS
  <2> QED BY <2>1, SlotFits
<1> QED BY <1>2, <1>3 DEF ByteAt, Chunk

\* so that a list that is filled from the start of its chunks is a text,
LEMMA LeftTyped ==
  ASSUME NEW b \in ChunkLists, NEW n \in Nat, Len(b) = Chunks(n)
  PROVE  LeftOf(b, n) \in Seq(Values) /\ Len(LeftOf(b, n)) = n /\ \A i \in 1 .. n : LeftOf(b, n)[i] = ByteAt(b, i - 1, "before")
<1>1. \A i \in 1 .. n : ByteAt(b, i - 1, "before") \in Values
  <2> TAKE i \in 1 .. n
  <2>1. i - 1 \in 0 .. n - 1 OBVIOUS
  <2> QED BY <2>1, ByteTyped DEF Sides
<1>2. LeftOf(b, n) \in [1 .. n -> Values] BY <1>1 DEF LeftOf
<1> QED BY <1>2 DEF LeftOf

\* and so is one that is filled from their end, read backwards.
LEMMA RightTyped ==
  ASSUME NEW b \in ChunkLists, NEW n \in Nat, Len(b) = Chunks(n)
  PROVE  RightOf(b, n) \in Seq(Values) /\ Len(RightOf(b, n)) = n /\ \A i \in 1 .. n : RightOf(b, n)[i] = ByteAt(b, n - i, "behind")
<1>1. \A i \in 1 .. n : ByteAt(b, n - i, "behind") \in Values
  <2> TAKE i \in 1 .. n
  <2>1. n - i \in 0 .. n - 1 OBVIOUS
  <2> QED BY <2>1, ByteTyped DEF Sides
<1>2. RightOf(b, n) \in [1 .. n -> Values] BY <1>1 DEF RightOf
<1> QED BY <1>2 DEF RightOf

\* Sequences are equal when their elements are.
LEMMA SameElements ==
  ASSUME NEW S, NEW s \in Seq(S), NEW t \in Seq(S), Len(s) = Len(t), \A i \in 1 .. Len(s) : s[i] = t[i]
  PROVE  s = t
BY SeqEqual

\* A byte behind the others of a list is the last one of the text before the
\* cursor, or the first one of the text behind it.
LEMMA PutIsAppend ==
  ASSUME NEW b \in ChunkLists, NEW n \in Nat, Len(b) = Chunks(n), NEW c \in Values
  PROVE  LeftOf(PutAt(b, n, "before", c), n + 1) = Append(LeftOf(b, n), c)
<1> DEFINE put == PutAt(b, n, "before", c)  old == LeftOf(b, n)  new == LeftOf(put, n + 1)
<1>1. ByteAt(put, n, "before") = c BY PutKeeps DEF Sides
<1>2. \A i \in 0 .. n - 1 : ByteAt(put, i, "before") = ByteAt(b, i, "before") BY PutKeeps DEF Sides
<1>3. put \in ChunkLists /\ Len(put) = Chunks(n + 1) /\ n + 1 \in Nat BY PutKeeps DEF Sides
<1>4. old \in Seq(Values) /\ Len(old) = n /\ \A i \in 1 .. n : old[i] = ByteAt(b, i - 1, "before") BY LeftTyped
<1>5. new \in Seq(Values) /\ Len(new) = n + 1 /\ \A i \in 1 .. n + 1 : new[i] = ByteAt(put, i - 1, "before")
  <2> HIDE DEF put
  <2> QED BY <1>3, LeftTyped
<1> HIDE DEF put, old, new
<1>6. new[n + 1] = c BY <1>1, <1>5
<1>7. ASSUME NEW i \in 1 .. n PROVE new[i] = old[i]
  <2>1. i - 1 \in 0 .. n - 1 OBVIOUS
  <2> QED BY <2>1, <1>2, <1>4, <1>5
<1>8. /\ Append(old, c) \in Seq(Values) /\ Len(Append(old, c)) = n + 1 /\ Append(old, c)[n + 1] = c
      /\ \A i \in 1 .. n : Append(old, c)[i] = old[i]
  BY <1>4, AppendProperties
<1>9. \A i \in 1 .. n + 1 : new[i] = Append(old, c)[i] BY <1>6, <1>7, <1>8
<1>10. new = Append(old, c) BY <1>5, <1>8, <1>9, SameElements
<1> QED BY <1>10 DEF new, old, put

\* A byte behind the others of the second list is the first one behind the cursor.
LEMMA PutIsCons ==
  ASSUME NEW b \in ChunkLists, NEW n \in Nat, Len(b) = Chunks(n), NEW c \in Values
  PROVE  RightOf(PutAt(b, n, "behind", c), n + 1) = <<c>> \o RightOf(b, n)
<1> DEFINE put == PutAt(b, n, "behind", c)  old == RightOf(b, n)  new == RightOf(put, n + 1)
<1>1. ByteAt(put, n, "behind") = c BY PutKeeps DEF Sides
<1>2. \A i \in 0 .. n - 1 : ByteAt(put, i, "behind") = ByteAt(b, i, "behind") BY PutKeeps DEF Sides
<1>3. put \in ChunkLists /\ Len(put) = Chunks(n + 1) /\ n + 1 \in Nat BY PutKeeps DEF Sides
<1>4. old \in Seq(Values) /\ Len(old) = n /\ \A i \in 1 .. n : old[i] = ByteAt(b, n - i, "behind") BY RightTyped
<1>5. new \in Seq(Values) /\ Len(new) = n + 1 /\ \A i \in 1 .. n + 1 : new[i] = ByteAt(put, n + 1 - i, "behind")
  <2> HIDE DEF put
  <2> QED BY <1>3, RightTyped
<1> HIDE DEF put, old, new
<1>6. new[1] = c
  <2>1. n + 1 - 1 = n /\ 1 \in 1 .. n + 1 OBVIOUS
  <2> QED BY <2>1, <1>1, <1>5
<1>7. ASSUME NEW i \in 1 .. n PROVE new[i + 1] = old[i]
  <2>1. n - i \in 0 .. n - 1 /\ n + 1 - (i + 1) = n - i /\ i + 1 \in 1 .. n + 1 OBVIOUS
  <2> QED BY <2>1, <1>2, <1>4, <1>5
<1>8. /\ <<c>> \o old \in Seq(Values) /\ Len(<<c>> \o old) = n + 1 /\ (<<c>> \o old)[1] = c
      /\ \A i \in 2 .. n + 1 : (<<c>> \o old)[i] = old[i - 1]
  BY <1>4, ConcatProperties
<1>9. ASSUME NEW i \in 2 .. n + 1 PROVE new[i] = (<<c>> \o old)[i]
  <2>1. i - 1 \in 1 .. n /\ (i - 1) + 1 = i OBVIOUS
  <2>2. new[(i - 1) + 1] = old[i - 1] BY <2>1, <1>7
  <2> QED BY <2>1, <2>2, <1>8
<1>10. \A i \in 1 .. n + 1 : new[i] = (<<c>> \o old)[i] BY <1>6, <1>8, <1>9
<1>11. new = <<c>> \o old BY <1>5, <1>8, <1>10, SameElements
<1> QED BY <1>11 DEF new, old, put

\* The last byte of a list goes from the end of the text before the cursor,
LEMMA TakeIsFront ==
  ASSUME NEW b \in ChunkLists, NEW n \in Nat \ {0}, Len(b) = Chunks(n)
  PROVE  /\ LeftOf(b, n) # <<>> /\ Last(LeftOf(b, n)) = ByteAt(b, n - 1, "before")
         /\ LeftOf(Shrunk(b, n - 1), n - 1) = Front(LeftOf(b, n))
<1> DEFINE taken == Shrunk(b, n - 1)  old == LeftOf(b, n)  new == LeftOf(taken, n - 1)
<1>0. n - 1 \in Nat OBVIOUS
<1>1. \A i \in 0 .. n - 2 : ByteAt(taken, i, "before") = ByteAt(b, i, "before") BY TakeKeeps DEF Sides
<1>3. taken \in ChunkLists /\ Len(taken) = Chunks(n - 1) BY TakeKeeps DEF Sides
<1>4. old \in Seq(Values) /\ Len(old) = n /\ \A i \in 1 .. n : old[i] = ByteAt(b, i - 1, "before") BY LeftTyped
<1>5. new \in Seq(Values) /\ Len(new) = n - 1 /\ \A i \in 1 .. n - 1 : new[i] = ByteAt(taken, i - 1, "before")
  <2> HIDE DEF taken
  <2> QED BY <1>0, <1>3, LeftTyped
<1> HIDE DEF taken, old, new
<1>6. ASSUME NEW i \in 1 .. n - 1 PROVE new[i] = old[i]
  <2>1. i - 1 \in 0 .. n - 2 /\ i \in 1 .. n OBVIOUS
  <2> QED BY <2>1, <1>1, <1>4, <1>5
<1>7. old # <<>> /\ Last(old) = ByteAt(b, n - 1, "before")
  <2>1. n \in 1 .. n OBVIOUS
  <2> QED BY <2>1, <1>4 DEF Last
<1>8. Front(old) = SubSeq(old, 1, n - 1) BY <1>4 DEF Front
<1>9. Front(old) \in Seq(Values) /\ Len(Front(old)) = n - 1 /\ \A i \in 1 .. n - 1 : Front(old)[i] = old[i]
  BY <1>4, <1>8, <1>0, SubSeqProperties
<1>10. new = Front(old) BY <1>5, <1>6, <1>9, SameElements
<1> QED BY <1>7, <1>10 DEF new, old, taken

\* or from the start of the text behind it.
LEMMA TakeIsTail ==
  ASSUME NEW b \in ChunkLists, NEW n \in Nat \ {0}, Len(b) = Chunks(n)
  PROVE  /\ RightOf(b, n) # <<>> /\ Head(RightOf(b, n)) = ByteAt(b, n - 1, "behind")
         /\ RightOf(Shrunk(b, n - 1), n - 1) = Tail(RightOf(b, n))
<1> DEFINE taken == Shrunk(b, n - 1)  old == RightOf(b, n)  new == RightOf(taken, n - 1)
<1>0. n - 1 \in Nat OBVIOUS
<1>1. \A i \in 0 .. n - 2 : ByteAt(taken, i, "behind") = ByteAt(b, i, "behind") BY TakeKeeps DEF Sides
<1>3. taken \in ChunkLists /\ Len(taken) = Chunks(n - 1) BY TakeKeeps DEF Sides
<1>4. old \in Seq(Values) /\ Len(old) = n /\ \A i \in 1 .. n : old[i] = ByteAt(b, n - i, "behind") BY RightTyped
<1>5. new \in Seq(Values) /\ Len(new) = n - 1 /\ \A i \in 1 .. n - 1 : new[i] = ByteAt(taken, n - 1 - i, "behind")
  <2> HIDE DEF taken
  <2> QED BY <1>0, <1>3, RightTyped
<1> HIDE DEF taken, old, new
<1>6. ASSUME NEW i \in 1 .. n - 1 PROVE new[i] = old[i + 1]
  <2>1. n - 1 - i \in 0 .. n - 2 /\ i + 1 \in 1 .. n /\ n - (i + 1) = n - 1 - i OBVIOUS
  <2> QED BY <2>1, <1>1, <1>4, <1>5
<1>7. old # <<>> /\ Head(old) = ByteAt(b, n - 1, "behind")
  <2>1. 1 \in 1 .. n OBVIOUS
  <2>2. old # <<>> /\ Head(old) = old[1] BY <1>4
  <2> QED BY <2>1, <2>2, <1>4
<1>9. Tail(old) \in Seq(Values) /\ Len(Tail(old)) = n - 1 /\ \A i \in 1 .. n - 1 : Tail(old)[i] = old[i + 1]
  BY <1>4, <1>7, HeadTailProperties
<1>10. new = Tail(old) BY <1>5, <1>6, <1>9, SameElements
<1> QED BY <1>7, <1>10 DEF new, old, taken

-----------------------------------------------------------------------------
(* Loading                                                                 *)

\* Where a byte of the file is: in the first chunk, which may not be full,
LEMMA OddByte ==
  ASSUME NEW n \in Nat, NEW i \in 0 .. n - 1, i \div BufSize = n \div BufSize
  PROVE  /\ BufSize - 1 - (i % BufSize) >= BufSize - (n % BufSize)
         /\ BufSize - 1 - (i % BufSize) - (BufSize - (n % BufSize)) + 1 = n - i
BY BoundsAssumption, SMTT(20)

\* or in one of the others.
LEMMA WholeByte ==
  ASSUME NEW n \in Nat, NEW i \in 0 .. n - 1
  PROVE  (n % BufSize) + (n \div BufSize - (i \div BufSize) - 1) * BufSize + (BufSize - 1 - (i % BufSize)) + 1 = n - i
BY BoundsAssumption, SMTT(20)

\* No byte of the file is in a chunk behind the first one that is read,
LEMMA EarlierChunk ==
  ASSUME NEW n \in Nat, NEW i \in 0 .. n - 1
  PROVE  i \div BufSize <= n \div BufSize
BY BoundsAssumption, SMTT(20)

\* which is a full one when the chunks hold the file without a rest.
LEMMA NoOddByte ==
  ASSUME NEW n \in Nat, NEW i \in 0 .. n - 1, n % BufSize = 0
  PROVE  i \div BufSize # n \div BufSize
BY BoundsAssumption, SMTT(20)

\* The bytes of the full chunks are bytes of the file,
LEMMA WholeIndex ==
  ASSUME NEW n \in Nat, NEW k \in 1 .. n \div BufSize, NEW i \in 0 .. BufSize - 1
  PROVE  (n % BufSize) + (k - 1) * BufSize + i + 1 \in 1 .. n
<1>1. n \div BufSize \in Nat /\ n % BufSize \in 0 .. BufSize - 1 BY Division
<1>2. n = (n \div BufSize) * BufSize + (n % BufSize) BY BoundsAssumption, SMTT(20)
<1>3. ASSUME NEW q \in Nat, NEW j \in 1 .. q PROVE (j - 1) * BufSize >= 0 /\ (j - 1) * BufSize + BufSize <= q * BufSize
  BY BoundsAssumption, SMTT(20)
<1>4. (k - 1) * BufSize >= 0 /\ (k - 1) * BufSize + BufSize <= (n \div BufSize) * BufSize BY <1>1, <1>3
<1>5. (k - 1) * BufSize \in Int /\ (n \div BufSize) * BufSize \in Int BY <1>1, BoundsAssumption
<1> QED BY <1>1, <1>2, <1>4, <1>5, BoundsAssumption

\* and so are those in the chunk that holds the rest.
LEMMA OddIndex ==
  ASSUME NEW n \in Nat, NEW i \in 0 .. BufSize - 1, i >= BufSize - (n % BufSize)
  PROVE  i - (BufSize - (n % BufSize)) + 1 \in 1 .. n
<1>1. n \div BufSize \in Nat /\ n % BufSize \in 0 .. BufSize - 1 BY Division
<1>2. n % BufSize <= n BY BoundsAssumption, SMTT(20)
<1> QED BY <1>1, <1>2, BoundsAssumption

\* The chunks a file is read into: all but the first are full.
LEMMA PartsOfFile ==
  ASSUME NEW t \in Seq(Bytes)
  PROVE  /\ Parts(t) \in ChunkLists /\ Len(Parts(t)) = Chunks(Len(t))
         /\ \A i \in 0 .. Len(t) - 1 :
              Parts(t)[Chunks(Len(t)) - (i \div BufSize)][Slot(i, "behind")] = t[Len(t) - i]
<1> DEFINE S == [0 .. BufSize - 1 -> Values]
           n == Len(t)  odd == n % BufSize  q == n \div BufSize
           first == [i \in 0 .. BufSize - 1 |-> IF i < BufSize - odd THEN "zero" ELSE t[i - (BufSize - odd) + 1]]
           whole == [k \in 1 .. q |-> [i \in 0 .. BufSize - 1 |-> t[odd + (k - 1) * BufSize + i + 1]]]
<1>1. n \in Nat /\ t \in [1 .. n -> Bytes] OBVIOUS
<1>2. q \in Nat /\ odd \in 0 .. BufSize - 1 BY <1>1, Division
<1>3. ASSUME NEW k \in 1 .. q, NEW i \in 0 .. BufSize - 1 PROVE t[odd + (k - 1) * BufSize + i + 1] \in Values
  <2>1. odd + (k - 1) * BufSize + i + 1 \in 1 .. n BY <1>1, WholeIndex
  <2> QED BY <2>1, <1>1 DEF Values
<1>4. ASSUME NEW i \in 0 .. BufSize - 1, ~ (i < BufSize - odd) PROVE t[i - (BufSize - odd) + 1] \in Values
  <2>1. i >= BufSize - odd BY <1>2, <1>4, BoundsAssumption
  <2>2. i - (BufSize - odd) + 1 \in 1 .. n BY <2>1, <1>1, OddIndex
  <2> QED BY <2>2, <1>1 DEF Values
<1>5. first \in S
  <2>1. \A i \in 0 .. BufSize - 1 : (IF i < BufSize - odd THEN "zero" ELSE t[i - (BufSize - odd) + 1]) \in Values
    BY <1>4 DEF Values
  <2> QED BY <2>1
<1>6. whole \in [1 .. q -> S] BY <1>3
<1>7. whole \in Seq(S) /\ Len(whole) = q
  <2> HIDE DEF S, whole
  <2> QED BY <1>2, <1>6
<1>8. Parts(t) = (IF odd = 0 THEN <<>> ELSE <<first>>) \o whole BY DEF Parts
<1>9. ASSUME NEW i \in 0 .. n - 1, i \div BufSize # q
      PROVE  q - (i \div BufSize) \in 1 .. q /\ whole[q - (i \div BufSize)][Slot(i, "behind")] = t[n - i]
  <2> DEFINE k == q - (i \div BufSize)  slot == Slot(i, "behind")
  <2>1. i \in Nat OBVIOUS
  <2>2. i \div BufSize \in Nat /\ i \div BufSize <= q BY <2>1, <1>1, Division, EarlierChunk
  <2>3. k \in 1 .. q BY <2>2, <1>2, <1>9
  <2>4. slot \in 0 .. BufSize - 1 BY <2>1, SlotFits DEF Sides
  <2>5. slot = BufSize - 1 - (i % BufSize) BY DEF Slot
  <2>6. odd + (k - 1) * BufSize + slot + 1 = n - i BY <2>5, <1>1, WholeByte
  <2>7. whole[k][slot] = t[odd + (k - 1) * BufSize + slot + 1]
    <3> HIDE DEF k, slot, odd, q
    <3> QED BY <2>3, <2>4
  <2> QED BY <2>3, <2>6, <2>7
<1>10. CASE odd = 0
  <2>1. Parts(t) = whole
    <3>1. Parts(t) = <<>> \o whole BY <1>8, <1>10
    <3> HIDE DEF whole, S
    <3> QED BY <3>1, <1>7
  <2>2. Chunks(n) = q BY <1>1, <1>10, FullChunks
  <2>3. \A i \in 0 .. n - 1 : i \div BufSize # q BY <1>1, <1>10, NoOddByte
  <2>4. Parts(t) \in ChunkLists /\ Len(Parts(t)) = Chunks(n) BY <2>1, <2>2, <1>7 DEF ChunkLists
  <2> QED BY <2>1, <2>2, <2>3, <2>4, <1>9
<1>11. CASE odd # 0
  <2>1. Parts(t) = <<first>> \o whole BY <1>8, <1>11
  <2>2. /\ Parts(t) \in Seq(S) /\ Len(Parts(t)) = q + 1 /\ Parts(t)[1] = first
        /\ \A k \in 1 .. q : Parts(t)[k + 1] = whole[k]
    <3> HIDE DEF S, first, whole
    <3>1. <<first>> \in Seq(S) /\ Len(<<first>>) = 1 /\ <<first>>[1] = first BY <1>5
    <3>2. /\ Parts(t) \in Seq(S) /\ Len(Parts(t)) = 1 + q
          /\ \A k \in 1 .. 1 + q : Parts(t)[k] = IF k <= 1 THEN <<first>>[k] ELSE whole[k - 1]
      BY <2>1, <3>1, <1>7, ConcatProperties
    <3>3. \A k \in 1 .. q : k + 1 \in 1 .. 1 + q /\ ~ (k + 1 <= 1) /\ (k + 1) - 1 = k BY <1>2
    <3> QED BY <3>1, <3>2, <3>3, <1>2
  <2>3. Chunks(n) = q + 1 BY <1>1, <1>11, OpenChunk
  <2>4. Parts(t) \in ChunkLists /\ Len(Parts(t)) = Chunks(n) BY <2>2, <2>3 DEF ChunkLists
  <2>5. ASSUME NEW i \in 0 .. n - 1
        PROVE  Parts(t)[Chunks(n) - (i \div BufSize)][Slot(i, "behind")] = t[n - i]
    <3>1. i \in Nat OBVIOUS
    <3>2. i \div BufSize \in Nat BY <3>1, Division
    <3>3. CASE i \div BufSize = q
      <4> DEFINE slot == Slot(i, "behind")
      <4>1. slot \in 0 .. BufSize - 1 BY <3>1, SlotFits DEF Sides
      <4>2. slot = BufSize - 1 - (i % BufSize) BY DEF Slot
      <4>3. slot >= BufSize - odd /\ slot - (BufSize - odd) + 1 = n - i BY <4>2, <3>3, <1>1, OddByte
      <4>4. ~ (slot < BufSize - odd) BY <4>1, <4>3, <1>2, BoundsAssumption
      <4>5. first[slot] = t[slot - (BufSize - odd) + 1]
        <5> HIDE DEF slot, odd
        <5> QED BY <4>1, <4>4
      <4>6. Chunks(n) - (i \div BufSize) = 1 BY <2>3, <3>3, <1>2
      <4> QED BY <4>3, <4>5, <4>6, <2>2
    <3>4. CASE i \div BufSize # q
      <4>1. Chunks(n) - (i \div BufSize) = (q - (i \div BufSize)) + 1 BY <2>3, <3>2, <1>2
      <4>2. q - (i \div BufSize) \in 1 .. q BY <3>4, <1>9
      <4>3. Parts(t)[(q - (i \div BufSize)) + 1] = whole[q - (i \div BufSize)] BY <4>2, <2>2
      <4>4. whole[q - (i \div BufSize)][Slot(i, "behind")] = t[n - i] BY <3>4, <1>9
      <4> QED BY <4>1, <4>3, <4>4
    <3> QED BY <3>3, <3>4
  <2> QED BY <2>4, <2>5
<1> QED BY <1>10, <1>11

\* Read backwards they are the text behind the cursor.
LEMMA LoadIsText ==
  ASSUME NEW t \in Seq(Bytes)
  PROVE  /\ Reverse(Parts(t)) \in ChunkLists /\ Len(Reverse(Parts(t))) = Chunks(Len(t))
         /\ RightOf(Reverse(Parts(t)), Len(t)) = t
<1> DEFINE S == [0 .. BufSize - 1 -> Values]  n == Len(t)  parts == Parts(t)  back == Reverse(parts)  right == RightOf(back, n)
<1>1. parts \in Seq(S) /\ Len(parts) = Chunks(n) /\ n \in Nat BY PartsOfFile DEF ChunkLists
<1>2. \A i \in 0 .. n - 1 : parts[Chunks(n) - (i \div BufSize)][Slot(i, "behind")] = t[n - i] BY PartsOfFile
<1>3. back \in Seq(S) /\ Len(back) = Len(parts) /\ \A j \in 1 .. Len(parts) : back[j] = parts[Len(parts) - j + 1]
  <2> HIDE DEF S, parts
  <2> QED BY <1>1 DEF Reverse
<1>4. back \in ChunkLists /\ Len(back) = Chunks(n) BY <1>1, <1>3 DEF ChunkLists
<1>5. ASSUME NEW i \in 0 .. n - 1 PROVE ByteAt(back, i, "behind") = t[n - i]
  <2>1. i \div BufSize + 1 \in 1 .. Chunks(n) BY <1>1, ChunkExists
  <2>2. i \div BufSize \in Nat
    <3>1. i \in Nat OBVIOUS
    <3> QED BY <3>1, Division
  <2>3. back[i \div BufSize + 1] = parts[Chunks(n) - (i \div BufSize + 1) + 1] BY <2>1, <1>1, <1>3
  <2>4. Chunks(n) - (i \div BufSize + 1) + 1 = Chunks(n) - (i \div BufSize) BY <2>2, <1>1
  <2> QED BY <2>3, <2>4, <1>2 DEF ByteAt, Chunk
<1>6. right \in Seq(Values) /\ Len(right) = n /\ \A j \in 1 .. n : right[j] = ByteAt(back, n - j, "behind")
  <2> HIDE DEF back
  <2> QED BY <1>1, <1>4, RightTyped
<1>7. ASSUME NEW j \in 1 .. n PROVE right[j] = t[j]
  <2>1. n - j \in 0 .. n - 1 /\ n - (n - j) = j BY <1>1
  <2>2. ByteAt(back, n - j, "behind") = t[n - (n - j)] BY <2>1, <1>5
  <2> QED BY <2>1, <2>2, <1>6
<1>8. t \in Seq(Values) BY DEF Values
<1>9. right = t BY <1>6, <1>7, <1>8, SameElements
<1> QED BY <1>4, <1>9

-----------------------------------------------------------------------------
(* The state                                                               *)

\* What every state satisfies: the types alone would let the cursor move
\* beyond the limit, and a file be loaded over a text.
LInv ==
  /\ TypeOK
  /\ size <= MaxLength
  /\ ~ loaded => curs1 = 0 /\ curs2 = 0

\* What the type invariant says of the lists.
LEMMA ListFacts ==
  ASSUME TypeOK
  PROVE  /\ b1 \in ChunkLists /\ Len(b1) = Chunks(curs1) /\ curs1 \in Nat
         /\ b2 \in ChunkLists /\ Len(b2) = Chunks(curs2) /\ curs2 \in Nat
         /\ size = curs1 + curs2
BY BoundsAssumption DEF TypeOK, ChunkLists, Values

\* Where the bytes behind the cursor are counted.
LEMMA BehindCursor ==
  ASSUME NEW x \in Nat, NEW y \in Nat, NEW i \in 1 .. y
  PROVE  /\ x + y - (x + i - 1) - 1 = y - i
         /\ ~ (x + i - 1 < 0 \/ x + i - 1 >= x + y) /\ x + i - 1 \notin 0 .. x - 1
OBVIOUS

\* Two parts of a text are no longer than the text may be.
LEMMA WithinLimit ==
  ASSUME NEW x \in Nat, NEW y \in Nat, NEW m \in Nat, x + y <= m
  PROVE  x \in 0 .. m /\ y \in 0 .. m
OBVIOUS

\* The texts that edit_buffer_get_byte shows are the ones of the lists,
LEMMA Texts ==
  ASSUME curs1 \in Nat, curs2 \in Nat
  PROVE  Left = LeftOf(b1, curs1) /\ Right = RightOf(b2, curs2)
<1>1. ASSUME NEW i \in 1 .. curs1 PROVE GetByte(i - 1) = ByteAt(b1, i - 1, "before")
  BY DEF GetByte, ByteAt, Slot
<1>2. ASSUME NEW i \in 1 .. curs2 PROVE GetByte(curs1 + i - 1) = ByteAt(b2, curs2 - i, "behind")
  <2>1. /\ curs1 + curs2 - (curs1 + i - 1) - 1 = curs2 - i
        /\ ~ (curs1 + i - 1 < 0 \/ curs1 + i - 1 >= curs1 + curs2) /\ curs1 + i - 1 \notin 0 .. curs1 - 1
    BY BehindCursor
  <2> QED BY <2>1 DEF GetByte, ByteAt, Slot
<1> QED BY <1>1, <1>2 DEF Left, Right, LeftOf, RightOf

\* before a step and after it.
LEMMA TextsNext ==
  ASSUME curs1' \in Nat, curs2' \in Nat
  PROVE  Left' = LeftOf(b1', curs1') /\ Right' = RightOf(b2', curs2')
<1>1. ASSUME NEW i \in 1 .. curs1' PROVE GetByte(i - 1)' = ByteAt(b1', i - 1, "before")
  BY DEF GetByte, ByteAt, Slot, Chunk
<1>2. ASSUME NEW i \in 1 .. curs2' PROVE GetByte(curs1 + i - 1)' = ByteAt(b2', curs2' - i, "behind")
  <2>1. /\ curs1' + curs2' - (curs1' + i - 1) - 1 = curs2' - i
        /\ ~ (curs1' + i - 1 < 0 \/ curs1' + i - 1 >= curs1' + curs2') /\ curs1' + i - 1 \notin 0 .. curs1' - 1
    BY BehindCursor
  <2> QED BY <2>1 DEF GetByte, ByteAt, Slot, Chunk
<1> QED BY <1>1, <1>2 DEF Left, Right, LeftOf, RightOf

\* The byte before the cursor, and the one behind it.
LEMMA AtCursor ==
  ASSUME TypeOK
  PROVE  /\ curs1 # 0 => Previous = ByteAt(b1, curs1 - 1, "before") /\ Previous \in Values
         /\ curs2 # 0 => Current = ByteAt(b2, curs2 - 1, "behind") /\ Current \in Values
<1> USE ListFacts
<1>1. ASSUME curs1 # 0 PROVE Previous = ByteAt(b1, curs1 - 1, "before") /\ Previous \in Values
  <2>1. Previous = ByteAt(b1, curs1 - 1, "before") BY <1>1 DEF Previous, GetByte, ByteAt, Slot
  <2>2. curs1 - 1 \in 0 .. curs1 - 1 BY <1>1
  <2> QED BY <2>1, <2>2, ByteTyped DEF Sides
<1>2. ASSUME curs2 # 0 PROVE Current = ByteAt(b2, curs2 - 1, "behind") /\ Current \in Values
  <2>0. curs1 + curs2 - curs1 - 1 = curs2 - 1 /\ ~ (curs1 < 0 \/ curs1 >= curs1 + curs2) /\ curs1 \notin 0 .. curs1 - 1
    BY <1>2
  <2>1. Current = ByteAt(b2, curs2 - 1, "behind") BY <2>0 DEF Current, GetByte, ByteAt, Slot
  <2>2. curs2 - 1 \in 0 .. curs2 - 1 BY <1>2
  <2> QED BY <2>1, <2>2, ByteTyped DEF Sides
<1> QED BY <1>1, <1>2

\* What each of the four operations on the lists does to the list and its text.
LEMMA Put1Is ==
  ASSUME TypeOK, NEW c \in Values, Put1(c)
  PROVE  /\ b1' \in ChunkLists /\ Len(b1') = Chunks(curs1') /\ curs1' = curs1 + 1
         /\ LeftOf(b1', curs1') = Append(LeftOf(b1, curs1), c)
<1>1. b1' = PutAt(b1, curs1, "before", c) /\ curs1' = curs1 + 1 BY DEF Put1, PutAt, Slot
<1> QED BY <1>1, ListFacts, PutKeeps, PutIsAppend DEF Sides

\* The same for a byte that is put behind the cursor,
LEMMA Put2Is ==
  ASSUME TypeOK, NEW c \in Values, Put2(c)
  PROVE  /\ b2' \in ChunkLists /\ Len(b2') = Chunks(curs2') /\ curs2' = curs2 + 1
         /\ RightOf(b2', curs2') = <<c>> \o RightOf(b2, curs2)
<1>1. b2' = PutAt(b2, curs2, "behind", c) /\ curs2' = curs2 + 1 BY DEF Put2, PutAt, Slot
<1> QED BY <1>1, ListFacts, PutKeeps, PutIsCons DEF Sides

\* taken before the cursor,
LEMMA Take1Is ==
  ASSUME TypeOK, curs1 # 0, Take1
  PROVE  /\ b1' \in ChunkLists /\ Len(b1') = Chunks(curs1') /\ curs1' = curs1 - 1
         /\ LeftOf(b1, curs1) # <<>> /\ Previous = Last(LeftOf(b1, curs1))
         /\ LeftOf(b1', curs1') = Front(LeftOf(b1, curs1))
<1>1. b1' = Shrunk(b1, curs1 - 1) /\ curs1' = curs1 - 1 BY DEF Take1
<1>2. curs1 \in Nat \ {0} BY ListFacts
<1> QED BY <1>1, <1>2, ListFacts, AtCursor, TakeKeeps, TakeIsFront DEF Sides

\* and taken behind it.
LEMMA Take2Is ==
  ASSUME TypeOK, curs2 # 0, Take2
  PROVE  /\ b2' \in ChunkLists /\ Len(b2') = Chunks(curs2') /\ curs2' = curs2 - 1
         /\ RightOf(b2, curs2) # <<>> /\ Current = Head(RightOf(b2, curs2))
         /\ RightOf(b2', curs2') = Tail(RightOf(b2, curs2))
<1>1. b2' = Shrunk(b2, curs2 - 1) /\ curs2' = curs2 - 1 BY DEF Take2
<1>2. curs2 \in Nat \ {0} BY ListFacts
<1> QED BY <1>1, <1>2, ListFacts, AtCursor, TakeKeeps, TakeIsTail DEF Sides

\* The files that can be read.
LEMMA FilesTyped ==
  ASSUME NEW t \in Files
  PROVE  t \in Seq(Bytes) /\ Len(t) \in 0 .. MaxLength
<1>1. PICK n \in 0 .. MaxLength : t \in [1 .. n -> Bytes] BY DEF Files
<1>2. n \in Nat BY <1>1, BoundsAssumption
<1> QED BY <1>1, <1>2

\* Both lists typed and the right number of bytes are the invariant.
LEMMA LInvNext ==
  ASSUME b1' \in ChunkLists, Len(b1') = Chunks(curs1'), curs1' \in Nat,
         b2' \in ChunkLists, Len(b2') = Chunks(curs2'), curs2' \in Nat,
         size' = curs1' + curs2', size' <= MaxLength, loaded' = TRUE
  PROVE  LInv'
<1>0. curs1' + curs2' <= MaxLength OBVIOUS
<1>1. curs1' \in 0 .. MaxLength /\ curs2' \in 0 .. MaxLength BY <1>0, WithinLimit, BoundsAssumption
<1>2. Chunks(curs1)' = Chunks(curs1') /\ Chunks(curs2)' = Chunks(curs2') BY DEF Chunks
<1> QED BY <1>1, <1>2 DEF LInv, TypeOK, ChunkLists, Values

\* Reading a file into the empty lists.
LEMMA ReadStep ==
  ASSUME LInv, NEW t \in Files, Read(t)
  PROVE  LInv' /\ [Text!Next]_<<Left, Right>>
<1>1. TypeOK /\ curs1 = 0 /\ curs2 = 0 BY DEF LInv, Read
<1>2. t \in Seq(Bytes) /\ Len(t) \in 0 .. MaxLength BY FilesTyped
<1>3. /\ b2' = Reverse(Parts(t)) /\ curs2' = Len(t) /\ size' = Len(t) /\ loaded' = TRUE
      /\ b1' = b1 /\ curs1' = curs1
  BY DEF Read
<1>4. b2' \in ChunkLists /\ Len(b2') = Chunks(curs2') /\ RightOf(b2', curs2') = t BY <1>2, <1>3, LoadIsText
<1>5. curs1' \in Nat /\ curs2' \in Nat /\ size' = curs1' + curs2' /\ size' <= MaxLength
  BY <1>1, <1>2, <1>3, BoundsAssumption
<1>6. LInv' BY <1>1, <1>3, <1>4, <1>5, ListFacts, LInvNext
<1>7. Left = LeftOf(b1, 0) /\ Right = RightOf(b2, 0) BY <1>1, ListFacts, Texts
<1>8. Left' = LeftOf(b1, 0) /\ Right' = t BY <1>1, <1>3, <1>4, <1>5, TextsNext
<1>9. LeftOf(b1, 0) = <<>> /\ RightOf(b2, 0) = <<>> BY DEF LeftOf, RightOf
<1>10. Text!Load(Right') BY <1>7, <1>8, <1>9 DEF Text!Load
<1> QED BY <1>2, <1>6, <1>8, <1>10 DEF Text!Next

\* edit_buffer_insert: the byte comes to the end of the text before the cursor.
LEMMA InsertStep ==
  ASSUME LInv, NEW c \in Bytes, Insert(c)
  PROVE  LInv' /\ [Text!Next]_<<Left, Right>>
<1>1. TypeOK /\ c \in Values BY DEF LInv, Values
<1>2. Put1(c) /\ size' = size + 1 /\ size < MaxLength /\ loaded' = TRUE /\ b2' = b2 /\ curs2' = curs2
  BY DEF Insert, Room
<1>3. /\ b1' \in ChunkLists /\ Len(b1') = Chunks(curs1') /\ curs1' = curs1 + 1
      /\ LeftOf(b1', curs1') = Append(LeftOf(b1, curs1), c)
  BY <1>1, <1>2, Put1Is
<1>4. curs1' \in Nat /\ curs2' \in Nat /\ size' = curs1' + curs2' /\ size' <= MaxLength
  <2>1. curs1 \in Nat /\ curs2 \in Nat /\ size = curs1 + curs2 BY <1>1, ListFacts
  <2> QED BY <1>1, <1>2, <1>3, <2>1, BoundsAssumption, SMTT(30)
<1>5. LInv' BY <1>1, <1>2, <1>3, <1>4, ListFacts, LInvNext
<1>6. Left' = Append(Left, c) /\ Right' = Right BY <1>1, <1>2, <1>3, <1>4, ListFacts, Texts, TextsNext
<1> QED BY <1>5, <1>6 DEF Text!Next, Text!Insert

\* edit_buffer_insert_ahead: the byte comes to the start of the text behind it.
LEMMA InsertAheadStep ==
  ASSUME LInv, NEW c \in Bytes, InsertAhead(c)
  PROVE  LInv' /\ [Text!Next]_<<Left, Right>>
<1>1. TypeOK /\ c \in Values BY DEF LInv, Values
<1>2. Put2(c) /\ size' = size + 1 /\ size < MaxLength /\ loaded' = TRUE /\ b1' = b1 /\ curs1' = curs1
  BY DEF InsertAhead, Room
<1>3. /\ b2' \in ChunkLists /\ Len(b2') = Chunks(curs2') /\ curs2' = curs2 + 1
      /\ RightOf(b2', curs2') = <<c>> \o RightOf(b2, curs2)
  BY <1>1, <1>2, Put2Is
<1>4. curs1' \in Nat /\ curs2' \in Nat /\ size' = curs1' + curs2' /\ size' <= MaxLength
  <2>1. curs1 \in Nat /\ curs2 \in Nat /\ size = curs1 + curs2 BY <1>1, ListFacts
  <2> QED BY <1>1, <1>2, <1>3, <2>1, BoundsAssumption, SMTT(30)
<1>5. LInv' BY <1>1, <1>2, <1>3, <1>4, ListFacts, LInvNext
<1>6. Right' = <<c>> \o Right /\ Left' = Left BY <1>1, <1>2, <1>3, <1>4, ListFacts, Texts, TextsNext
<1> QED BY <1>5, <1>6 DEF Text!Next, Text!InsertAhead

\* edit_buffer_delete takes the first byte behind the cursor.
LEMMA DeleteStep ==
  ASSUME LInv, Delete
  PROVE  LInv' /\ [Text!Next]_<<Left, Right>>
<1>1. TypeOK /\ size <= MaxLength BY DEF LInv
<1>2. curs2 # 0 /\ Take2 /\ size' = size - 1 /\ loaded' = TRUE /\ b1' = b1 /\ curs1' = curs1 BY DEF Delete
<1>3. /\ b2' \in ChunkLists /\ Len(b2') = Chunks(curs2') /\ curs2' = curs2 - 1
      /\ RightOf(b2, curs2) # <<>> /\ RightOf(b2', curs2') = Tail(RightOf(b2, curs2))
  BY <1>1, <1>2, Take2Is
<1>4. curs1' \in Nat /\ curs2' \in Nat /\ size' = curs1' + curs2' /\ size' <= MaxLength
  <2>1. curs1 \in Nat /\ curs2 \in Nat /\ size = curs1 + curs2 BY <1>1, ListFacts
  <2> QED BY <1>1, <1>2, <1>3, <2>1, BoundsAssumption
<1>5. LInv' BY <1>1, <1>2, <1>3, <1>4, ListFacts, LInvNext
<1>6. Right # <<>> /\ Right' = Tail(Right) /\ Left' = Left BY <1>1, <1>2, <1>3, <1>4, ListFacts, Texts, TextsNext
<1> QED BY <1>5, <1>6 DEF Text!Next, Text!Delete

\* edit_buffer_backspace takes the last byte before the cursor.
LEMMA BackspaceStep ==
  ASSUME LInv, Backspace
  PROVE  LInv' /\ [Text!Next]_<<Left, Right>>
<1>1. TypeOK /\ size <= MaxLength BY DEF LInv
<1>2. curs1 # 0 /\ Take1 /\ size' = size - 1 /\ loaded' = TRUE /\ b2' = b2 /\ curs2' = curs2 BY DEF Backspace
<1>3. /\ b1' \in ChunkLists /\ Len(b1') = Chunks(curs1') /\ curs1' = curs1 - 1
      /\ LeftOf(b1, curs1) # <<>> /\ LeftOf(b1', curs1') = Front(LeftOf(b1, curs1))
  BY <1>1, <1>2, Take1Is
<1>4. curs1' \in Nat /\ curs2' \in Nat /\ size' = curs1' + curs2' /\ size' <= MaxLength
  <2>1. curs1 \in Nat /\ curs2 \in Nat /\ size = curs1 + curs2 BY <1>1, ListFacts
  <2> QED BY <1>1, <1>2, <1>3, <2>1, BoundsAssumption, SMTT(30)
<1>5. LInv' BY <1>1, <1>2, <1>3, <1>4, ListFacts, LInvNext
<1>6. Left # <<>> /\ Left' = Front(Left) /\ Right' = Right BY <1>1, <1>2, <1>3, <1>4, ListFacts, Texts, TextsNext
<1> QED BY <1>5, <1>6 DEF Text!Next, Text!Backspace, Text!Front, Front

\* A step of the cursor to the left carries one byte from list to list,
LEMMA MoveLeftStep ==
  ASSUME LInv, MoveLeft
  PROVE  LInv' /\ [Text!Next]_<<Left, Right>>
<1>1. TypeOK /\ size <= MaxLength BY DEF LInv
<1>2. curs1 # 0 /\ Put2(Previous) /\ Take1 /\ size' = size /\ loaded' = TRUE BY DEF MoveLeft
<1>3. /\ b1' \in ChunkLists /\ Len(b1') = Chunks(curs1') /\ curs1' = curs1 - 1
      /\ LeftOf(b1, curs1) # <<>> /\ Previous = Last(LeftOf(b1, curs1))
      /\ LeftOf(b1', curs1') = Front(LeftOf(b1, curs1))
  BY <1>1, <1>2, Take1Is
<1>4. /\ b2' \in ChunkLists /\ Len(b2') = Chunks(curs2') /\ curs2' = curs2 + 1
      /\ RightOf(b2', curs2') = <<Previous>> \o RightOf(b2, curs2)
  BY <1>1, <1>2, AtCursor, Put2Is
<1>5. curs1' \in Nat /\ curs2' \in Nat /\ size' = curs1' + curs2' /\ size' <= MaxLength
  <2>1. curs1 \in Nat /\ curs2 \in Nat /\ size = curs1 + curs2 BY <1>1, ListFacts
  <2> QED BY <1>1, <1>2, <1>3, <1>4, <2>1, BoundsAssumption, SMTT(30)
<1>6. LInv' BY <1>2, <1>3, <1>4, <1>5, LInvNext
<1>7. Left # <<>> /\ Left' = Front(Left) /\ Right' = <<Last(Left)>> \o Right
  BY <1>1, <1>3, <1>4, <1>5, ListFacts, Texts, TextsNext
<1> QED BY <1>6, <1>7 DEF Text!Next, Text!MoveLeft, Text!Front, Front, Text!Last, Last

\* and one to the right carries it back.
LEMMA MoveRightStep ==
  ASSUME LInv, MoveRight
  PROVE  LInv' /\ [Text!Next]_<<Left, Right>>
<1>1. TypeOK /\ size <= MaxLength BY DEF LInv
<1>2. curs2 # 0 /\ Put1(Current) /\ Take2 /\ size' = size /\ loaded' = TRUE BY DEF MoveRight
<1>3. /\ b2' \in ChunkLists /\ Len(b2') = Chunks(curs2') /\ curs2' = curs2 - 1
      /\ RightOf(b2, curs2) # <<>> /\ Current = Head(RightOf(b2, curs2))
      /\ RightOf(b2', curs2') = Tail(RightOf(b2, curs2))
  BY <1>1, <1>2, Take2Is
<1>4. /\ b1' \in ChunkLists /\ Len(b1') = Chunks(curs1') /\ curs1' = curs1 + 1
      /\ LeftOf(b1', curs1') = Append(LeftOf(b1, curs1), Current)
  BY <1>1, <1>2, AtCursor, Put1Is
<1>5. curs1' \in Nat /\ curs2' \in Nat /\ size' = curs1' + curs2' /\ size' <= MaxLength
  <2>1. curs1 \in Nat /\ curs2 \in Nat /\ size = curs1 + curs2 BY <1>1, ListFacts
  <2> QED BY <1>1, <1>2, <1>3, <1>4, <2>1, BoundsAssumption, SMTT(30)
<1>6. LInv' BY <1>2, <1>3, <1>4, <1>5, LInvNext
<1>7. Right # <<>> /\ Left' = Append(Left, Head(Right)) /\ Right' = Tail(Right)
  BY <1>1, <1>3, <1>4, <1>5, ListFacts, Texts, TextsNext
<1> QED BY <1>6, <1>7 DEF Text!Next, Text!MoveRight

\* Nothing happens.
LEMMA StutterStep ==
  ASSUME LInv, UNCHANGED vars
  PROVE  LInv' /\ [Text!Next]_<<Left, Right>>
<1>1. curs1 \in Nat /\ curs2 \in Nat BY ListFacts DEF LInv
<1>2. /\ b1' = b1 /\ b2' = b2 /\ curs1' = curs1 /\ curs2' = curs2 /\ size' = size /\ loaded' = loaded
  BY DEF vars
<1>3. LInv' BY <1>2 DEF LInv, TypeOK, Chunks
<1>4. Left' = Left /\ Right' = Right BY <1>1, <1>2, Texts, TextsNext
<1> QED BY <1>3, <1>4

\* An empty buffer is an empty text with the cursor in it.
LEMMA InitHolds == Init => LInv /\ Text!Init
<1> SUFFICES ASSUME Init PROVE LInv /\ Text!Init OBVIOUS
<1>1. /\ b1 = <<>> /\ b2 = <<>> /\ curs1 = 0 /\ curs2 = 0 /\ size = 0 /\ loaded = FALSE BY DEF Init
<1>2. Chunks(0) = 0 BY BoundsAssumption, SMTT(20) DEF Chunks
<1>3. LInv
  <2>1. curs1 \in 0 .. MaxLength /\ curs2 \in 0 .. MaxLength /\ size = curs1 + curs2 /\ size <= MaxLength
    BY <1>1, BoundsAssumption
  <2>2. Len(b1) = Chunks(curs1) /\ Len(b2) = Chunks(curs2) BY <1>1, <1>2
  <2>3. \A b \in {b1, b2} : b \in Seq([0 .. BufSize - 1 -> Bytes \cup {"zero"}])
    <3> DEFINE S == [0 .. BufSize - 1 -> Bytes \cup {"zero"}]
    <3> HIDE DEF S
    <3>1. <<>> \in Seq(S) OBVIOUS
    <3>2. b1 \in Seq(S) /\ b2 \in Seq(S) BY <1>1, <3>1
    <3> QED BY <3>2 DEF S
  <2> QED BY <1>1, <2>1, <2>2, <2>3 DEF LInv, TypeOK
<1>4. Left = LeftOf(b1, 0) /\ Right = RightOf(b2, 0) BY <1>1, Texts
<1>5. Left = <<>> /\ Right = <<>> BY <1>4 DEF LeftOf, RightOf
<1> QED BY <1>3, <1>5 DEF Text!Init

\* Every operation keeps the invariant and is one of the text.
LEMMA StepHolds == LInv /\ [Next]_vars => LInv' /\ [Text!Next]_<<Left, Right>>
<1> SUFFICES ASSUME LInv, [Next]_vars PROVE LInv' /\ [Text!Next]_<<Left, Right>> OBVIOUS
<1>1. CASE \E t \in Files : Read(t) BY <1>1, ReadStep
<1>2. CASE \E c \in Bytes : Insert(c) BY <1>2, InsertStep
<1>3. CASE \E c \in Bytes : InsertAhead(c) BY <1>3, InsertAheadStep
<1>4. CASE Delete BY <1>4, DeleteStep
<1>5. CASE Backspace BY <1>5, BackspaceStep
<1>6. CASE MoveLeft BY <1>6, MoveLeftStep
<1>7. CASE MoveRight BY <1>7, MoveRightStep
<1>8. CASE UNCHANGED vars BY <1>8, StutterStep
<1> QED BY <1>1, <1>2, <1>3, <1>4, <1>5, <1>6, <1>7, <1>8 DEF Next

\* The counts of edit_buffer_t and its two arrays of chunks always agree: each list
\* has the chunks its bytes need and no more, and size is the sum of both.
THEOREM TypeCorrect == Spec => []TypeOK
<1>1. Init => LInv BY InitHolds
<1>2. LInv /\ [Next]_vars => LInv' BY StepHolds
<1>3. LInv => TypeOK BY DEF LInv
<1> QED BY <1>1, <1>2, <1>3, PTL DEF Spec

\* What edit_buffer_get_byte shows through the chunks is a text with a cursor in it,
\* whatever the operations, the size of the chunks and the limit.
THEOREM IsTextHolds == Spec => IsText
<1>1. Init => LInv /\ Text!Init BY InitHolds
<1>2. LInv /\ [Next]_vars => LInv' BY StepHolds
<1>3. LInv /\ [Next]_vars => [Text!Next]_<<Left, Right>> BY StepHolds
<1> QED BY <1>1, <1>2, <1>3, PTL DEF Spec, IsText, Text!Spec
-----------------------------------------------------------------------------
(* Induction. The induction theorems of the library take an operator as a   *)
(* parameter; the least element of a set of numbers needs none.            *)

\* A set of numbers has a least one,
LEMMA Least ==
  ASSUME NEW S, S \subseteq Nat, S # {}
  PROVE  \E m \in S : \A k \in S : m <= k
<1> DEFINE R == OpToRel(<, Nat)
<1>1. IsWellFoundedOn(R, Nat) BY NatLessThanWellFounded
<1>2. \A x, y \in Nat : y < x => <<y, x>> \in R BY DEF OpToRel
<1> HIDE DEF R
<1>3. PICK m \in S : \A y \in S : ~ (<<y, m>> \in R) BY <1>1, WFMin
<1>4. ASSUME NEW k \in S PROVE m <= k
  <2>1. ~ (k < m) BY <1>2, <1>3
  <2>2. k \in Nat /\ m \in Nat OBVIOUS
  <2> QED BY <2>1, <2>2
<1> QED BY <1>4

\* so whoever holds 0, and with a number the next one, holds them all.
LEMMA Induction ==
  ASSUME NEW S, 0 \in S, \A n \in S \cap Nat : n + 1 \in S
  PROVE  Nat \subseteq S
<1>1. SUFFICES ASSUME Nat \ S # {} PROVE FALSE OBVIOUS
<1>2. PICK m \in Nat \ S : \A k \in Nat \ S : m <= k BY <1>1, Least
<1>3. m # 0 /\ m - 1 \in Nat BY <1>2
<1>4. m - 1 \in S BY <1>2, <1>3
<1>5. (m - 1) + 1 \in S BY <1>3, <1>4
<1> QED BY <1>2, <1>5

-----------------------------------------------------------------------------
(* What is written *)

\* Pieces that are the parts of a text, one behind the other, are the text together.
LEMMA FlattenIs ==
  ASSUME NEW S, NEW t \in Seq(S), NEW seqs \in Seq(Seq(S)), Len(seqs) # 0,
         NEW cut \in [0 .. Len(seqs) -> Nat], cut[0] = 0, cut[Len(seqs)] = Len(t),
         \A k \in 1 .. Len(seqs) : /\ cut[k] = cut[k - 1] + Len(seqs[k])
                                   /\ \A j \in 1 .. Len(seqs[k]) : seqs[k][j] = t[cut[k - 1] + j]
  PROVE  FlattenSeq(seqs) = t
<1> DEFINE L == Len(seqs)
           Rec(f) == f = [i \in 1 .. L |-> IF i = 1 THEN seqs[i] ELSE f[i - 1] \o seqs[i]]
           g == [k \in 1 .. L |-> SubSeq(t, 1, cut[k])]
<1>0. L \in Nat \ {0} OBVIOUS
<1>1. \A k \in 1 .. L : cut[k] \in Nat /\ cut[k - 1] \in Nat /\ seqs[k] \in Seq(S) /\ Len(seqs[k]) \in Nat
  <2> SUFFICES ASSUME NEW k \in 1 .. L PROVE cut[k] \in Nat /\ cut[k - 1] \in Nat /\ seqs[k] \in Seq(S) /\ Len(seqs[k]) \in Nat
    OBVIOUS
  <2>1. seqs[k] \in Seq(S)
    <3> DEFINE T == Seq(S)
    <3> HIDE DEF T
    <3>1. seqs \in Seq(T) BY DEF T
    <3>2. seqs[k] \in T BY <3>1
    <3> QED BY <3>2 DEF T
  <2>2. k \in 0 .. L /\ k - 1 \in 0 .. L BY <1>0
  <2>3. Len(seqs[k]) \in Nat BY <2>1
  <2> QED BY <2>1, <2>2, <2>3
<1>2. \A k \in 0 .. L : cut[k] <= Len(t)
  <2> DEFINE A == {m \in Nat : m <= L => cut[L - m] <= Len(t)}
  <2>1. 0 \in A OBVIOUS
  <2>2. ASSUME NEW m \in A \cap Nat PROVE m + 1 \in A
    <3>1. CASE m + 1 <= L
      <4>1. L - m \in 1 .. L /\ (L - m) - 1 = L - (m + 1) BY <1>0, <3>1
      <4>2. cut[L - m] <= Len(t) BY <3>1
      <4>3. cut[L - m] = cut[L - (m + 1)] + Len(seqs[L - m]) BY <4>1
      <4>4. cut[L - m] \in Nat /\ cut[L - (m + 1)] \in Nat /\ Len(seqs[L - m]) \in Nat BY <4>1, <1>1
      <4>5. Len(t) \in Nat OBVIOUS
      <4> HIDE DEF L
      <4>6. cut[L - (m + 1)] <= Len(t) BY <4>2, <4>3, <4>4, <4>5
      <4> QED BY <4>6
    <3> QED BY <3>1
  <2> HIDE DEF A
  <2>3. Nat \subseteq A BY <2>1, <2>2, Induction
  <2>4. ASSUME NEW k \in 0 .. L PROVE cut[k] <= Len(t)
    <3>1. L - k \in Nat /\ L - k <= L /\ L - (L - k) = k BY <1>0
    <3>2. L - k \in A BY <2>3, <3>1
    <3> QED BY <3>1, <3>2 DEF A
  <2> QED BY <2>4
<1>3. ASSUME NEW k \in 1 .. L PROVE SubSeq(t, 1, cut[k]) = SubSeq(t, 1, cut[k - 1]) \o seqs[k]
  <2>1. cut[k] \in Nat /\ cut[k - 1] \in Nat /\ seqs[k] \in Seq(S) BY <1>1
  <2>2. cut[k] <= Len(t) /\ cut[k - 1] <= Len(t)
    <3>1. k \in 0 .. L /\ k - 1 \in 0 .. L BY <1>0
    <3> QED BY <1>2, <3>1
  <2>3. cut[k] = cut[k - 1] + Len(seqs[k]) /\ \A j \in 1 .. Len(seqs[k]) : seqs[k][j] = t[cut[k - 1] + j] OBVIOUS
  <2> DEFINE a == cut[k - 1]  b == cut[k]  s == seqs[k]
  <2>4. a \in Nat /\ b \in Nat /\ b = a + Len(s) /\ b <= Len(t) /\ s \in Seq(S)
        /\ \A j \in 1 .. Len(s) : s[j] = t[a + j]
    BY <2>1, <2>2, <2>3
  <2> HIDE DEF a, b, s, L
  <2>5. SubSeq(t, 1, b) \in Seq(S) /\ Len(SubSeq(t, 1, b)) = b /\ \A j \in 1 .. b : SubSeq(t, 1, b)[j] = t[j] BY <2>4
  <2>6. SubSeq(t, 1, a) \in Seq(S) /\ Len(SubSeq(t, 1, a)) = a /\ \A j \in 1 .. a : SubSeq(t, 1, a)[j] = t[j] BY <2>4
  <2>7. SubSeq(t, 1, a) \o s \in Seq(S) /\ Len(SubSeq(t, 1, a) \o s) = b BY <2>4, <2>6
  <2>8. ASSUME NEW j \in 1 .. b PROVE (SubSeq(t, 1, a) \o s)[j] = t[j]
    <3>1. CASE j <= a BY <2>4, <2>6, <3>1
    <3>2. CASE j > a
      <4>1. j - a \in 1 .. Len(s) /\ a + (j - a) = j BY <2>4, <3>2
      <4>2. (SubSeq(t, 1, a) \o s)[j] = s[j - a] BY <2>4, <2>6, <3>2
      <4> QED BY <2>4, <4>1, <4>2
    <3> QED BY <2>4, <3>1, <3>2
  <2>9. SubSeq(t, 1, b) = SubSeq(t, 1, a) \o s
    <3> DEFINE x == SubSeq(t, 1, b)  y == SubSeq(t, 1, a) \o s
    <3>1. x \in Seq(S) /\ y \in Seq(S) /\ Len(x) = b /\ Len(y) = b /\ \A j \in 1 .. b : x[j] = y[j] BY <2>5, <2>7, <2>8
    <3> HIDE DEF x, y
    <3>2. x = y BY <3>1, SameElements
    <3> QED BY <3>2 DEF x, y
  <2> QED BY <2>9 DEF a, b, s
<1>4. SubSeq(t, 1, cut[1]) = seqs[1]
  <2>1. 1 \in 1 .. L /\ 1 - 1 = 0 BY <1>0
  <2>2. SubSeq(t, 1, cut[0]) = <<>> OBVIOUS
  <2>3. seqs[1] \in Seq(S) BY <1>1, <2>1
  <2>4. SubSeq(t, 1, cut[1]) = SubSeq(t, 1, cut[1 - 1]) \o seqs[1] BY <1>3, <2>1
  <2> QED BY <2>1, <2>2, <2>3, <2>4
<1>5. Rec(g)
  <2> SUFFICES ASSUME NEW k \in 1 .. L PROVE g[k] = IF k = 1 THEN seqs[k] ELSE g[k - 1] \o seqs[k] OBVIOUS
  <2>1. CASE k = 1 BY <1>4, <2>1
  <2>2. CASE k # 1
    <3>1. k - 1 \in 1 .. L BY <1>0, <2>2
    <3>2. g[k - 1] = SubSeq(t, 1, cut[k - 1]) BY <3>1
    <3>3. g[k] = SubSeq(t, 1, cut[k]) OBVIOUS
    <3> HIDE DEF g, L
    <3> QED BY <1>3, <2>2, <3>2, <3>3
  <2> QED BY <2>1, <2>2
<1>6. ASSUME NEW f, Rec(f) PROVE f[L] = g[L]
  <2> DEFINE A == {m \in Nat : m + 1 <= L => f[m + 1] = g[m + 1]}
  <2>0. \A k \in 1 .. L : /\ f[k] = IF k = 1 THEN seqs[k] ELSE f[k - 1] \o seqs[k]
                          /\ g[k] = IF k = 1 THEN seqs[k] ELSE g[k - 1] \o seqs[k]
    <3> HIDE DEF g, L
    <3>1. ASSUME NEW h, Rec(h), NEW k \in 1 .. L PROVE h[k] = IF k = 1 THEN seqs[k] ELSE h[k - 1] \o seqs[k]
      BY <3>1
    <3> QED BY <1>5, <1>6, <3>1
  <2> HIDE DEF g, Rec, L
  <2>1. 0 \in A BY <1>0, <2>0
  <2>2. ASSUME NEW m \in A \cap Nat PROVE m + 1 \in A
    <3>1. CASE m + 2 <= L
      <4>1. m + 2 \in 1 .. L /\ m + 2 # 1 /\ (m + 2) - 1 = m + 1 BY <1>0, <3>1
      <4>2. f[m + 1] = g[m + 1] BY <1>0, <3>1
      <4>3. f[m + 2] = g[m + 2] BY <2>0, <4>1, <4>2
      <4> QED BY <4>3
    <3> QED BY <1>0, <3>1
  <2> HIDE DEF A
  <2>3. Nat \subseteq A BY <2>1, <2>2, Induction
  <2>4. L - 1 \in A /\ (L - 1) + 1 = L BY <1>0, <2>3
  <2> QED BY <1>0, <2>4 DEF A
<1>7. FlattenSeq(seqs) = (CHOOSE f : Rec(f))[L] BY <1>0 DEF FlattenSeq
<1>8. Rec(CHOOSE f : Rec(f))
  <2> HIDE DEF Rec, g
  <2> QED BY <1>5
<1>9. FlattenSeq(seqs) = g[L]
  <2> HIDE DEF Rec, g, L
  <2> QED BY <1>6, <1>7, <1>8
<1>10. g[L] = SubSeq(t, 1, Len(t)) BY <1>0
<1>11. SubSeq(t, 1, Len(t)) = t
  <2> DEFINE u == SubSeq(t, 1, Len(t))
  <2>1. u \in Seq(S) /\ Len(u) = Len(t) /\ \A j \in 1 .. Len(t) : u[j] = t[j] OBVIOUS
  <2> HIDE DEF u
  <2>2. u = t BY <2>1, SameElements
  <2> QED BY <2>2 DEF u
<1> QED BY <1>9, <1>10, <1>11

\* No pieces are no text.
LEMMA FlattenEmpty == ASSUME NEW seqs, Len(seqs) = 0, seqs = <<>> PROVE FlattenSeq(seqs) = <<>>
BY DEF FlattenSeq

\* A quotient and a rest make a number that has them.
LEMMA Euclid ==
  ASSUME NEW q \in Nat, NEW r \in 0 .. BufSize - 1
  PROVE  (q * BufSize + r) \div BufSize = q /\ (q * BufSize + r) % BufSize = r /\ q * BufSize \in Nat
BY BoundsAssumption, SMTT(20)

\* What is in the last chunk of n bytes, and in the others.
LEMMA LastChunk ==
  ASSUME NEW n \in Nat \ {0}
  PROVE  /\ Chunks(n) \in Nat \ {0} /\ Rest(n) \in 1 .. BufSize
         /\ (Chunks(n) - 1) * BufSize + Rest(n) = n
<1>1. n - 1 \in Nat /\ (n - 1) + 1 = n OBVIOUS
<1>2. Chunks(n) = (n - 1) \div BufSize + 1 BY <1>1, ChunkOfNext, Zenon
<1>3. (n - 1) \div BufSize \in Nat /\ (n - 1) % BufSize \in 0 .. BufSize - 1 BY <1>1, Division, Zenon
<1>4. n - 1 = ((n - 1) \div BufSize) * BufSize + ((n - 1) % BufSize) BY BoundsAssumption, SMTT(20)
<1>5. Rest(n) = ((n - 1) % BufSize) + 1 BY DEF Rest
<1>6. Chunks(n) - 1 = (n - 1) \div BufSize BY <1>2, <1>3
<1>7. ((n - 1) \div BufSize) * BufSize \in Int BY <1>3, BoundsAssumption
<1> QED BY <1>2, <1>3, <1>4, <1>5, <1>6, <1>7, BoundsAssumption

\* Without bytes there is none.
LEMMA NoChunk == Chunks(0) = 0
BY BoundsAssumption, SMTT(20) DEF Chunks

\* So many bytes are in the chunks before a chunk.
LEMMA Multiples ==
  ASSUME NEW k \in Nat
  PROVE  k * BufSize \in Nat /\ (k + 1) * BufSize = k * BufSize + BufSize
BY BoundsAssumption, SMTT(20)

\* A piece of a chunk is a sequence of its bytes.
LEMMA BitsTyped ==
  ASSUME NEW b \in ChunkLists, NEW k \in 1 .. Len(b), NEW from \in Nat, NEW n \in Nat, from + n <= BufSize
  PROVE  /\ Bits(b[k], from, n) \in Seq(Values) /\ Len(Bits(b[k], from, n)) = n
         /\ \A j \in 1 .. n : Bits(b[k], from, n)[j] = b[k][from + j - 1]
<1>1. b[k] \in [0 .. BufSize - 1 -> Values] BY DEF ChunkLists
<1>2. \A j \in 1 .. n : from + j - 1 \in 0 .. BufSize - 1 BY BoundsAssumption
<1>3. Bits(b[k], from, n) \in [1 .. n -> Values] BY <1>1, <1>2 DEF Bits
<1>4. \A j \in 1 .. n : Bits(b[k], from, n)[j] = b[k][from + j - 1] BY DEF Bits
<1> QED BY <1>3, <1>4

\* The bytes before the cursor, chunk by chunk,
LEMMA LeftWritten ==
  ASSUME NEW b \in ChunkLists, NEW n \in Nat, Len(b) = Chunks(n)
  PROVE  FlattenSeq([i \in DOMAIN b |-> Bits(b[i], 0, IF i = Len(b) THEN Rest(n) ELSE BufSize)]) = LeftOf(b, n)
<1> DEFINE L == Len(b)  t == LeftOf(b, n)
           long(i) == IF i = L THEN Rest(n) ELSE BufSize
           seqs == [i \in DOMAIN b |-> Bits(b[i], 0, long(i))]
           cut == [k \in 0 .. L |-> IF k = L THEN n ELSE k * BufSize]
<1>1. t \in Seq(Values) /\ Len(t) = n /\ \A i \in 1 .. n : t[i] = ByteAt(b, i - 1, "before") BY LeftTyped
<1>2. DOMAIN b = 1 .. L /\ L \in Nat BY DEF ChunkLists
<1>3. CASE n = 0
  <2>1. L = 0 BY <1>3, NoChunk
  <2>2. Len(seqs) = 0 /\ seqs = <<>> BY <1>2, <2>1
  <2>3. t = <<>> BY <1>3 DEF LeftOf
  <2> HIDE DEF seqs, t
  <2>4. FlattenSeq(seqs) = t BY <2>2, <2>3, FlattenEmpty
  <2> QED BY <2>4 DEF seqs, t
<1>4. CASE n # 0
  <2>1. L \in Nat \ {0} /\ Rest(n) \in 1 .. BufSize /\ (L - 1) * BufSize + Rest(n) = n BY <1>4, LastChunk
  <2>2. ASSUME NEW k \in 1 .. L
        PROVE  /\ long(k) \in Nat /\ long(k) <= BufSize /\ cut[k] = cut[k - 1] + long(k)
               /\ cut[k - 1] = (k - 1) * BufSize
    <3>1. long(k) \in 1 .. BufSize BY <2>1, BoundsAssumption
    <3>2. k - 1 \in 0 .. L /\ k - 1 # L BY <1>2
    <3>3. cut[k - 1] = (k - 1) * BufSize BY <3>2
    <3>4. CASE k = L BY <2>1, <3>3, <3>4
    <3>5. CASE k # L
      <4>1. cut[k] = k * BufSize /\ long(k) = BufSize BY <1>2, <3>5
      <4>2. k - 1 \in Nat /\ (k - 1) + 1 = k BY <1>2
      <4>3. k * BufSize = (k - 1) * BufSize + BufSize BY <4>2, Multiples, Zenon
      <4> QED BY <3>1, <3>3, <4>1, <4>3
    <3>6. long(k) \in Nat /\ long(k) <= BufSize
      <4> HIDE DEF long
      <4> QED BY <3>1, BoundsAssumption
    <3> QED BY <3>3, <3>4, <3>5, <3>6
  <2>3. cut \in [0 .. L -> Nat] /\ cut[0] = 0 /\ cut[L] = n
    <3>1. \A k \in 0 .. L : k * BufSize \in Nat BY Multiples
    <3> QED BY <1>2, <2>1, <3>1, BoundsAssumption
  <2>4. ASSUME NEW k \in 1 .. L
        PROVE  /\ seqs[k] \in Seq(Values) /\ Len(seqs[k]) = long(k)
               /\ \A j \in 1 .. long(k) : seqs[k][j] = b[k][j - 1]
    <3>1. seqs[k] = Bits(b[k], 0, long(k)) BY <1>2
    <3> DEFINE x == long(k)
    <3>2. x \in Nat /\ x <= BufSize BY <2>2
    <3> HIDE DEF x, seqs
    <3>3. 0 \in Nat /\ 0 + x <= BufSize BY <3>2
    <3>4. /\ Bits(b[k], 0, x) \in Seq(Values) /\ Len(Bits(b[k], 0, x)) = x
          /\ \A j \in 1 .. x : Bits(b[k], 0, x)[j] = b[k][0 + j - 1]
      BY <3>2, <3>3, BitsTyped
    <3>5. seqs[k] = Bits(b[k], 0, x) BY <3>1 DEF x
    <3>6. \A j \in 1 .. x : 0 + j - 1 = j - 1 BY <3>2
    <3>7. seqs[k] \in Seq(Values) /\ Len(seqs[k]) = x /\ \A j \in 1 .. x : seqs[k][j] = b[k][j - 1]
      BY <3>4, <3>5, <3>6
    <3> QED BY <3>7 DEF x
  <2>5. ASSUME NEW k \in 1 .. L, NEW j \in 1 .. long(k) PROVE seqs[k][j] = t[cut[k - 1] + j]
    <3>0. long(k) \in Nat /\ long(k) <= BufSize BY <2>2
    <3>1. k - 1 \in Nat /\ j - 1 \in 0 .. BufSize - 1
      <4> HIDE DEF long
      <4> QED BY <1>2, <3>0, BoundsAssumption
    <3> DEFINE p == (k - 1) * BufSize + (j - 1)
    <3>2. p \div BufSize = k - 1 /\ p % BufSize = j - 1 /\ (k - 1) * BufSize \in Nat BY <3>1, Euclid
    <3>3. p \in 0 .. n - 1
      <4>1. cut[k] <= n
        <5>1. CASE k = L BY <5>1
        <5>2. CASE k # L
          <6>1. cut[k] = k * BufSize BY <5>2
          <6>2. k \in Nat /\ L - 1 \in Nat /\ k <= L - 1 BY <1>2, <5>2
          <6>3. k * BufSize <= (L - 1) * BufSize BY <6>2, BoundsAssumption, SMTT(20)
          <6>4. (L - 1) * BufSize \in Nat /\ k * BufSize \in Nat BY <6>2, Multiples
          <6> QED BY <2>1, <6>1, <6>3, <6>4, BoundsAssumption
        <5> QED BY <5>1, <5>2
      <4>2. cut[k] = (k - 1) * BufSize + long(k) BY <2>2
      <4> HIDE DEF cut, long
      <4> QED BY <3>0, <3>1, <3>2, <4>1, <4>2
    <3>4. t[p + 1] = ByteAt(b, p, "before")
      <4>1. p + 1 \in 1 .. n /\ (p + 1) - 1 = p BY <3>3
      <4> HIDE DEF p, t
      <4> QED BY <1>1, <4>1
    <3>5. ByteAt(b, p, "before") = b[k][j - 1]
      <4>1. (k - 1) + 1 = k BY <1>2
      <4> HIDE DEF p
      <4> QED BY <3>2, <4>1 DEF ByteAt, Chunk, Slot
    <3>6. cut[k - 1] + j = p + 1
      <4>1. cut[k - 1] = (k - 1) * BufSize BY <2>2
      <4> HIDE DEF cut
      <4> QED BY <3>1, <3>2, <4>1
    <3>7. seqs[k][j] = b[k][j - 1] BY <2>4
    <3> HIDE DEF p, seqs, t, cut
    <3> QED BY <3>4, <3>5, <3>6, <3>7
  <2>6. seqs \in Seq(Seq(Values)) /\ Len(seqs) = L
    <3> DEFINE T == Seq(Values)
    <3>1. \A k \in 1 .. L : seqs[k] \in T BY <2>4
    <3>2. DOMAIN seqs = 1 .. L BY <1>2
    <3>3. seqs = [k \in 1 .. L |-> seqs[k]] BY <3>2
    <3> HIDE DEF T, seqs
    <3>4. seqs \in [1 .. L -> T] BY <3>1, <3>3
    <3>5. seqs \in Seq(T) /\ Len(seqs) = L BY <1>2, <3>4
    <3> QED BY <3>5 DEF T
  <2>7. \A k \in 1 .. Len(seqs) : /\ cut[k] = cut[k - 1] + Len(seqs[k])
                                  /\ \A j \in 1 .. Len(seqs[k]) : seqs[k][j] = t[cut[k - 1] + j]
    <3> HIDE DEF seqs, cut, t, long
    <3> QED BY <2>2, <2>4, <2>5, <2>6
  <2>8. Len(seqs) # 0 BY <2>1, <2>6
  <2> HIDE DEF seqs, cut, t, L
  <2>9. FlattenSeq(seqs) = t BY <1>1, <2>3, <2>6, <2>7, <2>8, FlattenIs
  <2> QED BY <2>9 DEF seqs, t, L
<1> QED BY <1>3, <1>4

\* and the ones behind it, from the last chunk to the first.
LEMMA RightWritten ==
  ASSUME NEW b \in ChunkLists, NEW n \in Nat, Len(b) = Chunks(n)
  PROVE  LET two(i) == IF i = Len(b) THEN Bits(b[i], BufSize - Rest(n), Rest(n)) ELSE Bits(b[i], 0, BufSize) IN
         FlattenSeq([i \in DOMAIN b |-> two(Len(b) + 1 - i)]) = RightOf(b, n)
<1> DEFINE L == Len(b)  t == RightOf(b, n)
           two(i) == IF i = L THEN Bits(b[i], BufSize - Rest(n), Rest(n)) ELSE Bits(b[i], 0, BufSize)
           from(i) == IF i = L THEN BufSize - Rest(n) ELSE 0
           seqs == [i \in DOMAIN b |-> two(L + 1 - i)]
           cut == [k \in 0 .. L |-> IF k = 0 THEN 0 ELSE Rest(n) + (k - 1) * BufSize]
<1>1. t \in Seq(Values) /\ Len(t) = n /\ \A i \in 1 .. n : t[i] = ByteAt(b, n - i, "behind") BY RightTyped
<1>2. DOMAIN b = 1 .. L /\ L \in Nat BY DEF ChunkLists
<1>3. CASE n = 0
  <2>1. L = 0 BY <1>3, NoChunk
  <2>2. Len(seqs) = 0 /\ seqs = <<>> BY <1>2, <2>1
  <2>3. t = <<>> BY <1>3 DEF RightOf
  <2> HIDE DEF seqs, t
  <2>4. FlattenSeq(seqs) = t BY <2>2, <2>3, FlattenEmpty
  <2> QED BY <2>4 DEF seqs, t
<1>4. CASE n # 0
  <2>1. L \in Nat \ {0} /\ Rest(n) \in 1 .. BufSize /\ (L - 1) * BufSize + Rest(n) = n BY <1>4, LastChunk
  <2>2. cut \in [0 .. L -> Nat] /\ cut[0] = 0 /\ cut[L] = n
    <3>1. \A k \in 1 .. L : (k - 1) * BufSize \in Nat
      <4> TAKE k \in 1 .. L
      <4>1. k - 1 \in Nat BY <1>2
      <4> QED BY <4>1, Multiples, Zenon
    <3>2. Rest(n) \in Nat BY <2>1, BoundsAssumption
    <3>3. \A k \in 1 .. L : Rest(n) + (k - 1) * BufSize \in Nat BY <3>1, <3>2
    <3>4. cut \in [0 .. L -> Nat] BY <1>2, <3>3
    <3>5. L \in 1 .. L BY <2>1
    <3>6. cut[L] = n BY <2>1, <3>1, <3>2, <3>5
    <3> QED BY <1>2, <3>4, <3>6
  <2>3. ASSUME NEW k \in 1 .. L
        PROVE  LET m == L + 1 - k
                   x == BufSize - from(m) IN
               /\ m \in 1 .. L /\ from(m) \in 0 .. BufSize - 1 /\ x \in Nat
               /\ seqs[k] \in Seq(Values) /\ Len(seqs[k]) = x
               /\ \A j \in 1 .. x : seqs[k][j] = b[m][from(m) + j - 1]
               /\ cut[k] = cut[k - 1] + x
    <3> DEFINE m == L + 1 - k  f == from(m)  x == BufSize - f
    <3>1. m \in 1 .. L BY <1>2
    <3>2. f \in 0 .. BufSize - 1 /\ x \in Nat /\ f \in Nat /\ f + x <= BufSize
      <4>1. f = BufSize - Rest(n) \/ f = 0 OBVIOUS
      <4> HIDE DEF f
      <4> QED BY <2>1, <4>1, BoundsAssumption
    <3>3. seqs[k] = Bits(b[m], f, x)
      <4>1. seqs[k] = two(m) BY <1>2
      <4>2. CASE m = L
        <5>1. f = BufSize - Rest(n) BY <4>2
        <5>2. x = Rest(n) BY <2>1, <5>1, BoundsAssumption
        <5> QED BY <4>1, <4>2, <5>1, <5>2
      <4>3. CASE m # L
        <5>1. f = 0 BY <4>3
        <5>2. x = BufSize BY <5>1, BoundsAssumption
        <5> QED BY <4>1, <4>3, <5>1, <5>2
      <4> QED BY <4>2, <4>3
    <3>4. cut[k] = cut[k - 1] + x
      <4>1. k \in 0 .. L /\ k - 1 \in 0 .. L /\ k # 0 BY <1>2
      <4>2. cut[k] = Rest(n) + (k - 1) * BufSize BY <4>1
      <4>3. CASE k = 1
        <5>1. m = L /\ k - 1 = 0 BY <1>2, <4>3
        <5>2. x = Rest(n) BY <2>1, <5>1, BoundsAssumption
        <5>3. cut[k - 1] = 0 BY <4>1, <5>1
        <5>4. (k - 1) * BufSize = 0 BY <5>1, BoundsAssumption
        <5>5. Rest(n) \in Nat BY <2>1, BoundsAssumption
        <5> HIDE DEF cut, x
        <5> QED BY <4>2, <5>2, <5>3, <5>4, <5>5
      <4>4. CASE k # 1
        <5>1. m # L /\ k - 1 # 0 /\ k - 2 \in Nat /\ (k - 2) + 1 = k - 1 /\ (k - 1) - 1 = k - 2 BY <1>2, <4>4
        <5>2. x = BufSize BY <5>1, BoundsAssumption
        <5>3. cut[k - 1] = Rest(n) + (k - 2) * BufSize BY <4>1, <5>1
        <5>4. (k - 1) * BufSize = (k - 2) * BufSize + BufSize /\ (k - 2) * BufSize \in Nat BY <5>1, Multiples, Zenon
        <5>5. Rest(n) \in Nat BY <2>1, BoundsAssumption
        <5> HIDE DEF cut, x
        <5> QED BY <4>2, <5>2, <5>3, <5>4, <5>5, BoundsAssumption
      <4> QED BY <4>3, <4>4
    <3> HIDE DEF x, f, m, seqs, cut
    <3>5. seqs[k] \in Seq(Values) /\ Len(seqs[k]) = x /\ \A j \in 1 .. x : seqs[k][j] = b[m][f + j - 1]
      <4>1. m \in 1 .. Len(b) BY <3>1
      <4>2. /\ Bits(b[m], f, x) \in Seq(Values) /\ Len(Bits(b[m], f, x)) = x
            /\ \A j \in 1 .. x : Bits(b[m], f, x)[j] = b[m][f + j - 1]
        BY <3>2, <4>1, BitsTyped, Zenon
      <4> QED BY <3>3, <4>2
    <3>6. m \in 1 .. L /\ f \in 0 .. BufSize - 1 /\ x \in Nat /\ cut[k] = cut[k - 1] + x BY <3>1, <3>2, <3>4
    <3> QED BY <3>5, <3>6 DEF x, f, m
  <2>5. ASSUME NEW k \in 1 .. L, NEW j \in 1 .. Len(seqs[k]) PROVE seqs[k][j] = t[cut[k - 1] + j]
    <3> DEFINE m == L + 1 - k  f == from(m)  x == BufSize - f  p == (m - 1) * BufSize + (x - j)
    <3>1. /\ m \in 1 .. L /\ f \in 0 .. BufSize - 1 /\ x \in Nat
          /\ seqs[k][j] = b[m][f + j - 1] /\ j \in 1 .. x
      <4> HIDE DEF seqs, from
      <4> QED BY <2>3
    <3>2. m - 1 \in Nat /\ x - j \in 0 .. BufSize - 1 /\ x = BufSize - f
      <4>1. x = BufSize - f OBVIOUS
      <4> HIDE DEF m, x, f
      <4> QED BY <1>2, <3>1, <4>1, BoundsAssumption
    <3>3. p \div BufSize = m - 1 /\ p % BufSize = x - j /\ (m - 1) * BufSize \in Nat
      <4> HIDE DEF m, x, f
      <4> QED BY <3>2, Euclid
    <3>4. n - (cut[k - 1] + j) = p /\ cut[k - 1] + j \in 1 .. n
      <4>1. cut[k - 1] \in Nat
        <5>1. k - 1 \in 0 .. L BY <1>2
        <5> HIDE DEF cut
        <5> QED BY <2>2, <5>1
      <4>2. cut[k - 1] + x + (m - 1) * BufSize = n
        <5>1. cut[k] = cut[k - 1] + x
          <6> HIDE DEF cut, from, seqs
          <6> QED BY <2>3
        <5>2. cut[k] = Rest(n) + (k - 1) * BufSize BY <1>2
        <5>3. (k - 1) * BufSize + (m - 1) * BufSize = (L - 1) * BufSize
          <6>1. (k - 1) + (m - 1) = L - 1 BY <1>2
          <6>2. k - 1 \in Nat /\ m - 1 \in Nat BY <1>2
          <6>3. ASSUME NEW u \in Nat, NEW v \in Nat PROVE u * BufSize + v * BufSize = (u + v) * BufSize
            BY BoundsAssumption, SMTT(20)
          <6> HIDE DEF m
          <6> QED BY <6>1, <6>2, <6>3
        <5>4. (k - 1) * BufSize \in Nat /\ (m - 1) * BufSize \in Nat /\ Rest(n) \in Nat /\ (L - 1) * BufSize \in Nat
          <6>1. k - 1 \in Nat /\ L - 1 \in Nat BY <1>2, <2>1
          <6>2. Rest(n) \in Nat BY <2>1, BoundsAssumption
          <6>3. (k - 1) * BufSize \in Nat /\ (L - 1) * BufSize \in Nat BY <6>1, Multiples, Zenon
          <6> HIDE DEF m
          <6> QED BY <3>3, <6>2, <6>3
        <5> HIDE DEF cut, x, m
        <5> QED BY <2>1, <3>1, <4>1, <5>1, <5>2, <5>3, <5>4
      <4> DEFINE c == cut[k - 1]  y == (m - 1) * BufSize
      <4>3. c \in Nat /\ y \in Nat /\ c + x + y = n /\ p = y + (x - j) BY <3>3, <4>1, <4>2
      <4>4. x \in Nat /\ j \in Nat /\ 1 <= j /\ j <= x BY <3>1
      <4> HIDE DEF c, y, p, x
      <4>5. n - (c + j) = p /\ c + j \in 1 .. n BY <4>3, <4>4
      <4> QED BY <4>5 DEF c
    <3>5. t[cut[k - 1] + j] = ByteAt(b, p, "behind")
      <4> DEFINE i == cut[k - 1] + j
      <4>1. i \in 1 .. n /\ n - i = p BY <3>4
      <4> HIDE DEF i, p, t
      <4>2. t[i] = ByteAt(b, p, "behind") BY <1>1, <4>1
      <4> QED BY <4>2 DEF i
    <3>6. ByteAt(b, p, "behind") = b[m][f + j - 1]
      <4>1. (m - 1) + 1 = m BY <1>2
      <4>2. BufSize - 1 - (x - j) = f + j - 1
        <5> HIDE DEF f
        <5> QED BY <3>1, BoundsAssumption
      <4> HIDE DEF p, m, x, f
      <4> QED BY <3>3, <4>1, <4>2 DEF ByteAt, Chunk, Slot
    <3> HIDE DEF seqs, t, cut, p, m, f, x
    <3> QED BY <3>1, <3>5, <3>6
  <2>6. seqs \in Seq(Seq(Values)) /\ Len(seqs) = L
    <3> DEFINE T == Seq(Values)
    <3>1. \A k \in 1 .. L : seqs[k] \in T BY <2>3
    <3>2. DOMAIN seqs = 1 .. L BY <1>2
    <3>3. seqs = [k \in 1 .. L |-> seqs[k]] BY <3>2
    <3> HIDE DEF T, seqs
    <3>4. seqs \in [1 .. L -> T] BY <3>1, <3>3
    <3>5. seqs \in Seq(T) /\ Len(seqs) = L BY <1>2, <3>4
    <3> QED BY <3>5 DEF T
  <2>7. \A k \in 1 .. Len(seqs) : /\ cut[k] = cut[k - 1] + Len(seqs[k])
                                  /\ \A j \in 1 .. Len(seqs[k]) : seqs[k][j] = t[cut[k - 1] + j]
    <3> HIDE DEF seqs, cut, t, from
    <3> QED BY <2>3, <2>5, <2>6
  <2>8. Len(seqs) # 0 BY <2>1, <2>6
  <2> HIDE DEF seqs, cut, t, L
  <2>9. FlattenSeq(seqs) = t BY <1>1, <2>2, <2>6, <2>7, <2>8, FlattenIs
  <2> QED BY <2>9 DEF seqs, t, L
<1> QED BY <1>3, <1>4

\* A save writes the text.
LEMMA WrittenIs ==
  ASSUME TypeOK
  PROVE  Written = Left \o Right
<1>1. FlattenSeq([i \in DOMAIN b1 |-> Bits(b1[i], 0, IF i = Len(b1) THEN Rest(curs1) ELSE BufSize)]) = LeftOf(b1, curs1)
  BY ListFacts, LeftWritten
<1>2. LET two(i) == IF i = Len(b2) THEN Bits(b2[i], BufSize - Rest(curs2), Rest(curs2)) ELSE Bits(b2[i], 0, BufSize) IN
      FlattenSeq([i \in DOMAIN b2 |-> two(Len(b2) + 1 - i)]) = RightOf(b2, curs2)
  BY ListFacts, RightWritten
<1>3. Left = LeftOf(b1, curs1) /\ Right = RightOf(b2, curs2) BY ListFacts, Texts
<1> QED BY <1>1, <1>2, <1>3 DEF Written

-----------------------------------------------------------------------------
(* The numbers of newlines *)

\* Positions counted from the other end are as many.
LEMMA Mirrored ==
  ASSUME NEW c \in Int, NEW A \in SUBSET Int, IsFiniteSet(A), NEW B, B = {c - i : i \in A}
  PROVE  IsFiniteSet(B) /\ Cardinality(B) = Cardinality(A)
<1> DEFINE f == [i \in A |-> c - i]
<1>1. f \in [A -> B] OBVIOUS
<1>2. \A i, j \in A : f[i] = f[j] => i = j
  <2> SUFFICES ASSUME NEW i \in A, NEW j \in A, c - i = c - j PROVE i = j OBVIOUS
  <2>1. i \in Int /\ j \in Int OBVIOUS
  <2> QED BY <2>1
<1>3. \A u \in B : \E i \in A : f[i] = u OBVIOUS
<1> HIDE DEF f
<1>4. f \in Bijection(A, B) BY <1>1, <1>2, <1>3, Fun_IsBij
<1>5. ExistsBijection(A, B) BY <1>4 DEF ExistsBijection
<1> QED BY <1>5, FS_Bijection

\* Where a list has newlines.
Newlines(b, n, side) == {p \in 0 .. n - 1 : ByteAt(b, p, side) = Newline}

\* They are finitely many.
LEMMA NewlinesFinite ==
  ASSUME NEW b, NEW n \in Nat, NEW side
  PROVE  IsFiniteSet(Newlines(b, n, side)) /\ Cardinality(Newlines(b, n, side)) \in Nat
<1>1. IsFiniteSet(0 .. n - 1) BY FS_Interval
<1>2. Newlines(b, n, side) \in SUBSET (0 .. n - 1) BY DEF Newlines
<1>3. IsFiniteSet(Newlines(b, n, side)) BY <1>1, <1>2, FS_Subset
<1> QED BY <1>3, FS_CardinalityType

\* One byte more is one newline more, if it is one.
LEMMA NewlinesGrow ==
  ASSUME NEW b, NEW put, NEW n \in Nat, NEW side, NEW c,
         ByteAt(put, n, side) = c, \A i \in 0 .. n - 1 : ByteAt(put, i, side) = ByteAt(b, i, side)
  PROVE  Cardinality(Newlines(put, n + 1, side)) = Cardinality(Newlines(b, n, side)) + Counts(c)
<1> DEFINE A == Newlines(b, n, side)  B == Newlines(put, n + 1, side)
<1>1. \A p : p \in 0 .. (n + 1) - 1 <=> p \in 0 .. n - 1 \/ p = n OBVIOUS
<1>2. n \notin 0 .. n - 1 OBVIOUS
<1>3. IsFiniteSet(A) /\ Cardinality(A) \in Nat BY NewlinesFinite
<1>4. n \notin A BY <1>2 DEF Newlines
<1>5. CASE c = Newline
  <2>1. B = A \cup {n} BY <1>1, <1>5 DEF Newlines
  <2> HIDE DEF A, B
  <2>2. Cardinality(B) = Cardinality(A) + 1 BY <1>3, <1>4, <2>1, FS_AddElement
  <2>3. Counts(c) = 1 BY <1>5 DEF Counts
  <2> QED BY <2>2, <2>3 DEF A, B
<1>6. CASE c # Newline
  <2>1. B = A BY <1>1, <1>2, <1>6 DEF Newlines
  <2>2. Counts(c) = 0 BY <1>6 DEF Counts
  <2> HIDE DEF A, B
  <2> QED BY <1>3, <2>1, <2>2 DEF A, B
<1> QED BY <1>5, <1>6

\* The counters of lines are right.
Counted ==
  /\ curs_line = Cardinality(Newlines(b1, curs1, "before"))
  /\ lines = curs_line + Cardinality(Newlines(b2, curs2, "behind"))

\* A byte put before the cursor adds what it counts,
LEMMA Put1Counts ==
  ASSUME TypeOK, NEW c \in Values, Put1(c)
  PROVE  Cardinality(Newlines(b1', curs1', "before")) = Cardinality(Newlines(b1, curs1, "before")) + Counts(c)
<1>1. b1' = PutAt(b1, curs1, "before", c) /\ curs1' = curs1 + 1 BY DEF Put1, PutAt, Slot
<1>2. ByteAt(b1', curs1, "before") = c /\ \A i \in 0 .. curs1 - 1 : ByteAt(b1', i, "before") = ByteAt(b1, i, "before")
  BY <1>1, ListFacts, PutKeeps DEF Sides
<1> QED BY <1>1, <1>2, ListFacts, NewlinesGrow

\* one put behind it as well,
LEMMA Put2Counts ==
  ASSUME TypeOK, NEW c \in Values, Put2(c)
  PROVE  Cardinality(Newlines(b2', curs2', "behind")) = Cardinality(Newlines(b2, curs2, "behind")) + Counts(c)
<1>1. b2' = PutAt(b2, curs2, "behind", c) /\ curs2' = curs2 + 1 BY DEF Put2, PutAt, Slot
<1>2. ByteAt(b2', curs2, "behind") = c /\ \A i \in 0 .. curs2 - 1 : ByteAt(b2', i, "behind") = ByteAt(b2, i, "behind")
  BY <1>1, ListFacts, PutKeeps DEF Sides
<1> QED BY <1>1, <1>2, ListFacts, NewlinesGrow

\* one taken before it is missing there,
LEMMA Take1Counts ==
  ASSUME TypeOK, curs1 # 0, Take1
  PROVE  Cardinality(Newlines(b1, curs1, "before")) = Cardinality(Newlines(b1', curs1', "before")) + Counts(Previous)
<1>1. b1' = Shrunk(b1, curs1 - 1) /\ curs1' = curs1 - 1 BY DEF Take1
<1>2. curs1 \in Nat \ {0} /\ curs1 - 1 \in Nat /\ (curs1 - 1) + 1 = curs1 BY ListFacts
<1>3. \A i \in 0 .. curs1 - 2 : ByteAt(b1', i, "before") = ByteAt(b1, i, "before") BY <1>1, <1>2, ListFacts, TakeKeeps DEF Sides
<1>4. ByteAt(b1, curs1 - 1, "before") = Previous BY AtCursor
<1>5. (curs1 - 1) - 1 = curs1 - 2 BY <1>2
<1>6. Cardinality(Newlines(b1, (curs1 - 1) + 1, "before")) = Cardinality(Newlines(b1', curs1 - 1, "before")) + Counts(Previous)
  BY <1>2, <1>3, <1>4, <1>5, NewlinesGrow
<1> QED BY <1>1, <1>2, <1>6

\* and one taken behind it there.
LEMMA Take2Counts ==
  ASSUME TypeOK, curs2 # 0, Take2
  PROVE  Cardinality(Newlines(b2, curs2, "behind")) = Cardinality(Newlines(b2', curs2', "behind")) + Counts(Current)
<1>1. b2' = Shrunk(b2, curs2 - 1) /\ curs2' = curs2 - 1 BY DEF Take2
<1>2. curs2 \in Nat \ {0} /\ curs2 - 1 \in Nat /\ (curs2 - 1) + 1 = curs2 BY ListFacts
<1>3. \A i \in 0 .. curs2 - 2 : ByteAt(b2', i, "behind") = ByteAt(b2, i, "behind") BY <1>1, <1>2, ListFacts, TakeKeeps DEF Sides
<1>4. ByteAt(b2, curs2 - 1, "behind") = Current BY AtCursor
<1>5. (curs2 - 1) - 1 = curs2 - 2 BY <1>2
<1>6. Cardinality(Newlines(b2, (curs2 - 1) + 1, "behind")) = Cardinality(Newlines(b2', curs2 - 1, "behind")) + Counts(Current)
  BY <1>2, <1>3, <1>4, <1>5, NewlinesGrow
<1> QED BY <1>1, <1>2, <1>6

\* The counts before and after a step are numbers.
LEMMA CountsTyped ==
  ASSUME TypeOK
  PROVE  /\ Cardinality(Newlines(b1, curs1, "before")) \in Nat /\ Cardinality(Newlines(b2, curs2, "behind")) \in Nat
         /\ \A c : Counts(c) \in {0, 1}
BY ListFacts, NewlinesFinite DEF Counts

\* A file that is read has as many newlines as are counted.
LEMMA ReadCounts ==
  ASSUME LInv, Counted, NEW t \in Files, Read(t)
  PROVE  Counted'
<1>1. TypeOK /\ curs1 = 0 /\ curs2 = 0 BY DEF LInv, Read
<1>2. t \in Seq(Bytes) /\ Len(t) \in 0 .. MaxLength BY FilesTyped
<1>3. /\ b2' = Reverse(Parts(t)) /\ curs2' = Len(t) /\ b1' = b1 /\ curs1' = curs1 /\ curs_line' = curs_line
      /\ lines' = Cardinality({i \in 1 .. Len(t) : t[i] = Newline})
  BY DEF Read
<1>4. b2' \in ChunkLists /\ Len(b2') = Chunks(curs2') /\ RightOf(b2', curs2') = t BY <1>2, <1>3, LoadIsText
<1> DEFINE n == Len(t)
<1>5. n \in Nat BY <1>2
<1>6. ASSUME NEW i \in 1 .. n PROVE t[i] = ByteAt(b2', n - i, "behind")
  <2>1. t[i] = RightOf(b2', n)[i] BY <1>3, <1>4
  <2> QED BY <2>1 DEF RightOf
<1> DEFINE A == Newlines(b2', n, "behind")  B == {i \in 1 .. n : t[i] = Newline}
<1>7. B = {n - p : p \in A}
  <2>1. ASSUME NEW i \in B PROVE i \in {n - p : p \in A}
    <3>1. n - i \in 0 .. n - 1 /\ n - (n - i) = i BY <1>5
    <3>2. n - i \in A BY <1>6, <3>1 DEF Newlines
    <3> QED BY <3>1, <3>2
  <2>2. ASSUME NEW p \in A PROVE n - p \in B
    <3>1. p \in 0 .. n - 1 /\ ByteAt(b2', p, "behind") = Newline BY DEF Newlines
    <3>2. n - p \in 1 .. n /\ n - (n - p) = p BY <1>5, <3>1
    <3>3. t[n - p] = Newline BY <1>6, <3>1, <3>2
    <3> QED BY <3>2, <3>3
  <2> HIDE DEF A, B
  <2> QED BY <2>1, <2>2
<1>8. A \in SUBSET Int /\ IsFiniteSet(A) /\ n \in Int
  <2>1. A \in SUBSET Int /\ n \in Int BY <1>5 DEF Newlines
  <2>2. IsFiniteSet(A) BY <1>5, NewlinesFinite
  <2> QED BY <2>1, <2>2
<1>9. Cardinality(B) = Cardinality(A)
  <2> HIDE DEF A, B, n
  <2> QED BY <1>7, <1>8, Mirrored
<1>10. curs_line = 0
  <2>1. Newlines(b1, 0, "before") = {} BY DEF Newlines
  <2>2. Cardinality(Newlines(b1, 0, "before")) = 0 BY <2>1, FS_EmptySet
  <2> QED BY <1>1, <2>2 DEF Counted
<1>11. Cardinality(Newlines(b1, 0, "before")) = 0
  <2>1. Newlines(b1, 0, "before") = {} BY DEF Newlines
  <2> QED BY <2>1, FS_EmptySet
<1>12. Cardinality(A) \in Nat BY <1>5, NewlinesFinite
<1>13. lines' = Cardinality(A) /\ curs_line' = 0 /\ curs1' = 0 /\ curs2' = n BY <1>1, <1>3, <1>9, <1>10
<1>14. Cardinality(Newlines(b1', curs1', "before")) = 0 /\ Cardinality(Newlines(b2', curs2', "behind")) = lines'
  BY <1>3, <1>11, <1>13
<1>15. lines' = curs_line' + Cardinality(Newlines(b2', curs2', "behind")) BY <1>12, <1>13, <1>14
<1>16. curs_line' = Cardinality(Newlines(b1', curs1', "before")) BY <1>13, <1>14
<1> QED BY <1>15, <1>16 DEF Counted, Newlines, ByteAt, Chunk

\* The counters after a step.
LEMMA CountedNext ==
  ASSUME curs_line' = Cardinality(Newlines(b1', curs1', "before")),
         lines' = curs_line' + Cardinality(Newlines(b2', curs2', "behind"))
  PROVE  Counted'
BY DEF Counted, Newlines, ByteAt, Chunk

\* Every operation counts what it does.
LEMMA CountsKept == LInv /\ Counted /\ [Next]_vars => Counted'
<1> SUFFICES ASSUME LInv, Counted, [Next]_vars PROVE Counted' OBVIOUS
<1> DEFINE n1 == Cardinality(Newlines(b1, curs1, "before"))  n2 == Cardinality(Newlines(b2, curs2, "behind"))
           m1 == Cardinality(Newlines(b1', curs1', "before"))  m2 == Cardinality(Newlines(b2', curs2', "behind"))
<1>0. TypeOK BY DEF LInv
<1>1. n1 \in Nat /\ n2 \in Nat /\ \A c : Counts(c) \in {0, 1} BY <1>0, CountsTyped
<1>2. curs_line = n1 /\ lines = n1 + n2 BY DEF Counted
<1>3. ASSUME NEW x \in Nat, NEW y \in Nat, m1 = x, m2 = y, curs_line' = x, lines' = x + y PROVE Counted'
  <2>1. curs_line' = m1 /\ lines' = curs_line' + m2 BY <1>3
  <2> QED BY <2>1, CountedNext
<1>4. ASSUME b1' = b1, curs1' = curs1 PROVE m1 = n1 BY <1>4
<1>5. ASSUME b2' = b2, curs2' = curs2 PROVE m2 = n2 BY <1>5
<1>6. \A c \in Bytes : c \in Values BY DEF Values
<1>7. CASE \E t \in Files : Read(t) BY <1>7, ReadCounts
<1>8. ASSUME NEW c \in Bytes, Insert(c) PROVE Counted'
  <2>1. Put1(c) /\ lines' = lines + Counts(c) /\ curs_line' = curs_line + Counts(c) /\ b2' = b2 /\ curs2' = curs2
    BY <1>8 DEF Insert
  <2>2. m1 = n1 + Counts(c) BY <1>0, <1>6, <2>1, Put1Counts
  <2>3. m2 = n2 BY <1>5, <2>1
  <2> DEFINE k == Counts(c)
  <2> HIDE DEF n1, n2, m1, m2, k
  <2>4. k \in {0, 1} BY <1>1 DEF k
  <2>5. m1 = n1 + k /\ lines' = lines + k /\ curs_line' = curs_line + k BY <2>1, <2>2 DEF k
  <2> QED BY <1>1, <1>2, <1>3, <2>3, <2>4, <2>5
<1>9. ASSUME NEW c \in Bytes, InsertAhead(c) PROVE Counted'
  <2>1. Put2(c) /\ lines' = lines + Counts(c) /\ curs_line' = curs_line /\ b1' = b1 /\ curs1' = curs1
    BY <1>9 DEF InsertAhead
  <2>2. m2 = n2 + Counts(c) BY <1>0, <1>6, <2>1, Put2Counts
  <2>3. m1 = n1 BY <1>4, <2>1
  <2> DEFINE k == Counts(c)
  <2> HIDE DEF n1, n2, m1, m2, k
  <2>4. k \in {0, 1} BY <1>1 DEF k
  <2>5. m2 = n2 + k /\ lines' = lines + k /\ curs_line' = curs_line BY <2>1, <2>2 DEF k
  <2> QED BY <1>1, <1>2, <1>3, <2>3, <2>4, <2>5
<1>10. CASE Delete
  <2>1. Take2 /\ curs2 # 0 /\ lines' = lines - Counts(Current) /\ curs_line' = curs_line /\ b1' = b1 /\ curs1' = curs1
    BY <1>10 DEF Delete
  <2>2. n2 = m2 + Counts(Current) BY <1>0, <2>1, Take2Counts
  <2>3. m1 = n1 BY <1>4, <2>1
  <2>6. m2 \in Nat BY <1>0, <2>1, Take2Is, NewlinesFinite, ListFacts
  <2> DEFINE k == Counts(Current)
  <2> HIDE DEF n1, n2, m1, m2, k
  <2>4. k \in {0, 1} BY <1>1 DEF k
  <2>5. n2 = m2 + k /\ lines' = lines - k /\ curs_line' = curs_line BY <2>1, <2>2 DEF k
  <2> QED BY <1>1, <1>2, <1>3, <2>3, <2>4, <2>5, <2>6
<1>11. CASE Backspace
  <2>1. /\ Take1 /\ curs1 # 0 /\ lines' = lines - Counts(Previous) /\ curs_line' = curs_line - Counts(Previous)
        /\ b2' = b2 /\ curs2' = curs2
    BY <1>11 DEF Backspace
  <2>2. n1 = m1 + Counts(Previous) BY <1>0, <2>1, Take1Counts
  <2>3. m2 = n2 BY <1>5, <2>1
  <2>6. m1 \in Nat BY <1>0, <2>1, Take1Is, NewlinesFinite, ListFacts
  <2> DEFINE k == Counts(Previous)
  <2> HIDE DEF n1, n2, m1, m2, k
  <2>4. k \in {0, 1} BY <1>1 DEF k
  <2>5. n1 = m1 + k /\ lines' = lines - k /\ curs_line' = curs_line - k BY <2>1, <2>2 DEF k
  <2> QED BY <1>1, <1>2, <1>3, <2>3, <2>4, <2>5, <2>6
<1>12. CASE MoveLeft
  <2>1. Put2(Previous) /\ Take1 /\ curs1 # 0 /\ lines' = lines /\ curs_line' = curs_line - Counts(Previous)
    BY <1>12 DEF MoveLeft
  <2>2. n1 = m1 + Counts(Previous) BY <1>0, <2>1, Take1Counts
  <2>3. m2 = n2 + Counts(Previous) BY <1>0, <2>1, AtCursor, Put2Counts
  <2>6. m1 \in Nat BY <1>0, <2>1, Take1Is, NewlinesFinite, ListFacts
  <2> DEFINE k == Counts(Previous)
  <2> HIDE DEF n1, n2, m1, m2, k
  <2>4. k \in {0, 1} BY <1>1 DEF k
  <2>5. n1 = m1 + k /\ m2 = n2 + k /\ lines' = lines /\ curs_line' = curs_line - k BY <2>1, <2>2, <2>3 DEF k
  <2> QED BY <1>1, <1>2, <1>3, <2>4, <2>5, <2>6
<1>13. CASE MoveRight
  <2>1. Put1(Current) /\ Take2 /\ curs2 # 0 /\ lines' = lines /\ curs_line' = curs_line + Counts(Current)
    BY <1>13 DEF MoveRight
  <2>2. n2 = m2 + Counts(Current) BY <1>0, <2>1, Take2Counts
  <2>3. m1 = n1 + Counts(Current) BY <1>0, <2>1, AtCursor, Put1Counts
  <2>6. m2 \in Nat BY <1>0, <2>1, Take2Is, NewlinesFinite, ListFacts
  <2> DEFINE k == Counts(Current)
  <2> HIDE DEF n1, n2, m1, m2, k
  <2>4. k \in {0, 1} BY <1>1 DEF k
  <2>5. n2 = m2 + k /\ m1 = n1 + k /\ lines' = lines /\ curs_line' = curs_line + k BY <2>1, <2>2, <2>3 DEF k
  <2> QED BY <1>1, <1>2, <1>3, <2>4, <2>5, <2>6
<1>14. CASE UNCHANGED vars
  <2>1. /\ b1' = b1 /\ b2' = b2 /\ curs1' = curs1 /\ curs2' = curs2 /\ lines' = lines /\ curs_line' = curs_line
    BY <1>14 DEF vars
  <2> QED BY <2>1, CountedNext DEF Counted
<1> QED BY <1>7, <1>8, <1>9, <1>10, <1>11, <1>12, <1>13, <1>14 DEF Next

\* An empty buffer has no newlines.
LEMMA InitCounts == Init => Counted
<1> SUFFICES ASSUME Init PROVE Counted OBVIOUS
<1>1. curs1 = 0 /\ curs2 = 0 /\ lines = 0 /\ curs_line = 0 BY DEF Init
<1>2. Newlines(b1, curs1, "before") = {} /\ Newlines(b2, curs2, "behind") = {} BY <1>1 DEF Newlines
<1> QED BY <1>1, <1>2, FS_EmptySet DEF Counted

-----------------------------------------------------------------------------
(* Lines forward and back *)

\* The least and the greatest number of a set.
LEMMA MinIs ==
  ASSUME NEW S, S \subseteq Nat, S # {}
  PROVE  Min(S) \in S /\ \A y \in S : Min(S) <= y
<1>1. PICK m \in S : \A k \in S : m <= k BY Least
<1> QED BY <1>1 DEF Min

LEMMA MaxIs ==
  ASSUME NEW n \in Nat, NEW S, S \subseteq 0 .. n, S # {}
  PROVE  Max(S) \in S /\ \A y \in S : Max(S) >= y
<1> DEFINE T == {n - k : k \in S}
<1>1. T \subseteq Nat /\ T # {}
  <2>1. \A k \in S : n - k \in Nat
    <3> TAKE k \in S
    <3>1. k \in 0 .. n OBVIOUS
    <3> QED BY <3>1
  <2> QED BY <2>1
<1> HIDE DEF T
<1>2. PICK m \in T : \A k \in T : m <= k BY <1>1, Least
<1>3. PICK j \in S : m = n - j BY DEF T
<1>4. ASSUME NEW k \in S PROVE j >= k
  <2>1. n - k \in T BY DEF T
  <2>2. n - j <= n - k BY <1>2, <1>3, <2>1
  <2>3. k \in Int /\ j \in Int OBVIOUS
  <2> QED BY <2>2, <2>3
<1> QED BY <1>4 DEF Max

\* Outside the text there are newlines.
LEMMA ByteOutside ==
  ASSUME TypeOK, NEW k \in Int, k < 0 \/ k >= size
  PROVE  GetByte(k) = Newline
<1>1. size = curs1 + curs2 /\ curs1 \in Nat /\ curs2 \in Nat BY ListFacts
<1>2. k < 0 \/ k >= curs1 + curs2 BY <1>1
<1>3. k \notin 0 .. curs1 - 1 BY <1>1, <1>2
<1> QED BY <1>2, <1>3 DEF GetByte

\* Between places of the text newlines are counted without a correction.
LEMMA CountIs ==
  ASSUME TypeOK, NEW f \in 0 .. size, NEW l \in 0 .. size
  PROVE  CountLines(f, l) = Cardinality({i \in f .. l - 1 : GetByte(i) = Newline})
<1>0. size \in Nat BY ListFacts
<1>1. Max({f, 0}) = f
  <2>1. {f, 0} \subseteq 0 .. f /\ {f, 0} # {} /\ f \in Nat BY <1>0
  <2>2. Max({f, 0}) \in {f, 0} /\ \A y \in {f, 0} : Max({f, 0}) >= y BY <2>1, MaxIs
  <2> QED BY <2>1, <2>2
<1>2. Min({l, size}) = l
  <2>1. {l, size} \subseteq Nat /\ {l, size} # {} /\ l \in Nat /\ l <= size BY <1>0
  <2>2. Min({l, size}) \in {l, size} /\ \A y \in {l, size} : Min({l, size}) <= y BY <2>1, MinIs
  <2> QED BY <1>0, <2>1, <2>2
<1> QED BY <1>1, <1>2 DEF CountLines

\* The end of a line is the first newline from here on,
LEMMA EolIs ==
  ASSUME TypeOK, NEW c \in 0 .. size
  PROVE  /\ Eol(c) \in c .. size /\ GetByte(Eol(c)) = Newline
         /\ \A j \in c .. Eol(c) - 1 : GetByte(j) # Newline
<1>0. size \in Nat BY ListFacts
<1>1. GetByte(size) = Newline BY <1>0, ByteOutside
<1>2. CASE c = size
  <2>1. Eol(c) = size BY <1>0, <1>2 DEF Eol
  <2> QED BY <1>0, <1>1, <1>2, <2>1
<1>3. CASE c # size
  <2> DEFINE S == {j \in c .. size : GetByte(j) = Newline}
  <2>1. Eol(c) = Min(S) BY <1>0, <1>3 DEF Eol
  <2>2. S \subseteq Nat /\ S # {} BY <1>0, <1>1
  <2>3. \A j : j \in S <=> j \in c .. size /\ GetByte(j) = Newline OBVIOUS
  <2> HIDE DEF S
  <2>4. Eol(c) \in S /\ \A y \in S : Eol(c) <= y BY <2>1, <2>2, MinIs
  <2>5. Eol(c) \in c .. size /\ GetByte(Eol(c)) = Newline BY <2>3, <2>4
  <2>6. ASSUME NEW j \in c .. Eol(c) - 1 PROVE GetByte(j) # Newline
    <3>1. j \in c .. size /\ ~ (Eol(c) <= j) BY <1>0, <2>5
    <3> QED BY <2>3, <2>4, <3>1
  <2> QED BY <2>5, <2>6
<1> QED BY <1>2, <1>3

\* its start is behind the last one before.
LEMMA BolIs ==
  ASSUME TypeOK, NEW c \in 0 .. size
  PROVE  /\ Bol(c) \in 0 .. c /\ GetByte(Bol(c) - 1) = Newline
         /\ \A j \in Bol(c) .. c - 1 : GetByte(j) # Newline
<1>0. size \in Nat /\ c \in Nat BY ListFacts
<1>1. GetByte(0 - 1) = Newline BY <1>0, ByteOutside
<1>2. CASE c = 0
  <2>1. Bol(c) = 0 BY <1>2 DEF Bol
  <2> QED BY <1>1, <1>2, <2>1
<1>3. CASE c # 0
  <2> DEFINE S == {j \in 0 .. c : GetByte(j - 1) = Newline}
  <2>1. Bol(c) = Max(S) BY <1>0, <1>3 DEF Bol
  <2>2. S \subseteq 0 .. c /\ S # {}
    <3>1. 0 \in S BY <1>0, <1>1
    <3> QED BY <3>1
  <2>3. \A j : j \in S <=> j \in 0 .. c /\ GetByte(j - 1) = Newline OBVIOUS
  <2> HIDE DEF S
  <2>4. Bol(c) \in S /\ \A y \in S : Bol(c) >= y BY <1>0, <2>1, <2>2, MaxIs
  <2>5. Bol(c) \in 0 .. c /\ GetByte(Bol(c) - 1) = Newline BY <2>3, <2>4
  <2>6. ASSUME NEW j \in Bol(c) .. c - 1 PROVE GetByte(j) # Newline
    <3>1. j + 1 \in 0 .. c /\ ~ (Bol(c) >= j + 1) /\ (j + 1) - 1 = j BY <1>0, <2>5
    <3>2. j + 1 \notin S BY <2>4, <3>1
    <3> QED BY <2>3, <3>1, <3>2
  <2> QED BY <2>5, <2>6
<1> QED BY <1>2, <1>3

\* There is only one start of a line.
LEMMA BolUnique ==
  ASSUME TypeOK, NEW c \in 0 .. size, NEW b \in 0 .. c, GetByte(b - 1) = Newline,
         \A j \in b .. c - 1 : GetByte(j) # Newline
  PROVE  Bol(c) = b
<1>0. size \in Nat /\ c \in Nat /\ b \in Nat BY ListFacts
<1>1. /\ Bol(c) \in 0 .. c /\ GetByte(Bol(c) - 1) = Newline
      /\ \A j \in Bol(c) .. c - 1 : GetByte(j) # Newline
  BY BolIs
<1>2. ~ (Bol(c) < b)
  <2> SUFFICES ASSUME Bol(c) < b PROVE FALSE OBVIOUS
  <2>1. b - 1 \in Bol(c) .. c - 1 BY <1>0, <1>1
  <2> QED BY <1>1, <2>1
<1>3. ~ (Bol(c) > b)
  <2> SUFFICES ASSUME Bol(c) > b PROVE FALSE OBVIOUS
  <2>1. Bol(c) - 1 \in b .. c - 1 BY <1>0, <1>1
  <2> QED BY <1>1, <2>1
<1> QED BY <1>0, <1>1, <1>2, <1>3

\* A function can be applied again and again.
Iterated(f, X, x, h, n) == f \in [0 .. n -> X] /\ f[0] = x /\ \A k \in 1 .. n : f[k] = h[f[k - 1]]

LEMMA Iterates ==
  ASSUME NEW X, NEW x \in X, NEW h \in [X -> X], NEW n \in Nat
  PROVE  \E f : Iterated(f, X, x, h, n)
<1> DEFINE A(f, m) == f[0] = x /\ \A k \in 1 .. m : f[k] = h[f[k - 1]]
           S == {m \in Nat : \E f \in [0 .. m -> X] : A(f, m)}
<1>1. 0 \in S
  <2> DEFINE f == [k \in 0 .. 0 |-> x]
  <2>1. f \in [0 .. 0 -> X] /\ A(f, 0) OBVIOUS
  <2> HIDE DEF f, A
  <2> QED BY <2>1
<1>2. ASSUME NEW m \in S \cap Nat PROVE m + 1 \in S
  <2>1. PICK f \in [0 .. m -> X] : A(f, m) OBVIOUS
  <2> DEFINE g == [k \in 0 .. m + 1 |-> IF k <= m THEN f[k] ELSE h[f[m]]]
  <2>2. m \in 0 .. m /\ f[m] \in X OBVIOUS
  <2>3. h[f[m]] \in X BY <2>2
  <2>4. g \in [0 .. m + 1 -> X] BY <2>3
  <2>5. g[0] = x BY <2>1
  <2>6. ASSUME NEW k \in 1 .. m + 1 PROVE g[k] = h[g[k - 1]]
    <3>1. CASE k <= m BY <2>1, <3>1
    <3>2. CASE k = m + 1 BY <3>2
    <3> QED BY <3>1, <3>2
  <2>7. A(g, m + 1) BY <2>5, <2>6
  <2>8. m + 1 \in Nat OBVIOUS
  <2> HIDE DEF g, A
  <2> QED BY <2>4, <2>7, <2>8
<1> HIDE DEF S
<1>3. Nat \subseteq S BY <1>1, <1>2, Induction
<1>4. n \in S BY <1>3
<1>5. PICK f \in [0 .. n -> X] : A(f, n) BY <1>4 DEF S
<1>6. Iterated(f, X, x, h, n) BY <1>5 DEF Iterated
<1> QED BY <1>6

\* One turn of the loops of edit_buffer_get_forward_offset and of
\* edit_buffer_get_backward_offset.
NextLine(v) == LET next == Eol(v) + 1 IN IF next > size THEN v ELSE next
PrevLine(v) == IF v = 0 THEN 0 ELSE Bol(v - 1)

\* They stay in the text.
LEMMA NextLineTyped == ASSUME TypeOK, NEW v \in 0 .. size PROVE NextLine(v) \in 0 .. size
<1>1. Eol(v) \in v .. size BY EolIs
<1>2. size \in Nat BY ListFacts
<1> QED BY <1>1, <1>2 DEF NextLine

LEMMA PrevLineTyped == ASSUME TypeOK, NEW v \in 0 .. size PROVE PrevLine(v) \in 0 .. size
<1>1. size \in Nat BY ListFacts
<1>2. ASSUME v # 0 PROVE Bol(v - 1) \in 0 .. size
  <2>1. v - 1 \in 0 .. size BY <1>1, <1>2
  <2>2. Bol(v - 1) \in 0 .. v - 1 BY <2>1, BolIs
  <2> QED BY <1>1, <2>2
<1> QED BY <1>1, <1>2 DEF PrevLine

\* Where so many lines forward and back lead.
LEMMA ForwardIs ==
  ASSUME TypeOK, NEW i \in 0 .. size, NEW n \in Nat
  PROVE  \E f \in [0 .. n -> 0 .. size] :
           f[0] = i /\ (\A k \in 1 .. n : f[k] = NextLine(f[k - 1])) /\ Forward(i, n) = f[n]
<1> DEFINE X == 0 .. size
           h == [v \in X |-> NextLine(v)]
           Rec(f) == f = [k \in 0 .. n |->
                            IF k = 0 THEN i
                            ELSE LET next == Eol(f[k - 1]) + 1 IN IF next > size THEN f[k - 1] ELSE next]
<1>1. h \in [X -> X] BY NextLineTyped
<1>2. PICK f : f \in [0 .. n -> X] /\ f[0] = i /\ \A k \in 1 .. n : f[k] = h[f[k - 1]]
  <2> HIDE DEF h, X
  <2>1. i \in X BY DEF X
  <2>2. \E f : Iterated(f, X, i, h, n) BY <1>1, <2>1, Iterates
  <2> QED BY <2>2 DEF Iterated
<1>3. ASSUME NEW k \in 1 .. n PROVE f[k] = NextLine(f[k - 1])
  <2>1. k - 1 \in 0 .. n OBVIOUS
  <2>2. f[k - 1] \in X
    <3> HIDE DEF X, h
    <3> QED BY <1>2, <2>1
  <2>3. h[f[k - 1]] = NextLine(f[k - 1]) BY <2>2
  <2> HIDE DEF h, X
  <2> QED BY <1>2, <2>3
<1>4. Rec(f)
  <2>1. f = [k \in 0 .. n |-> f[k]]
    <3> HIDE DEF X, h
    <3> QED BY <1>2
  <2>2. ASSUME NEW k \in 0 .. n PROVE f[k] = IF k = 0 THEN i ELSE NextLine(f[k - 1])
    <3> HIDE DEF h, X
    <3>1. k # 0 => k \in 1 .. n OBVIOUS
    <3> QED BY <1>2, <1>3, <3>1
  <2>3. f = [k \in 0 .. n |-> IF k = 0 THEN i ELSE NextLine(f[k - 1])]
    <3> HIDE DEF h, X
    <3> QED BY <2>1, <2>2
  <2> QED BY <2>3 DEF NextLine
<1> DEFINE c == CHOOSE g : Rec(g)
<1>5. Rec(c)
  <2> HIDE DEF Rec
  <2> QED BY <1>4
<1>6. Forward(i, n) = c[n] BY DEF Forward
<1> HIDE DEF c, h, X
<1>7. c[0] = i /\ \A k \in 1 .. n : c[k] = NextLine(c[k - 1])
  <2>1. \A k \in 0 .. n : c[k] = IF k = 0 THEN i ELSE NextLine(c[k - 1]) BY <1>5 DEF NextLine
  <2> QED BY <2>1
<1>8. c = [k \in 0 .. n |-> c[k]]
  <2>1. DOMAIN c = 0 .. n BY <1>5
  <2>2. \E g : c = [k \in 0 .. n |-> g[k]] BY <1>5
  <2> QED BY <2>1, <2>2
<1> HIDE DEF Rec
<1>9. \A k \in 0 .. n : c[k] \in X
  <2> DEFINE S == {k \in Nat : k <= n => c[k] \in X}
  <2>1. 0 \in S BY <1>7 DEF X
  <2>2. ASSUME NEW k \in S \cap Nat PROVE k + 1 \in S
    <3>1. CASE k + 1 <= n
      <4>1. c[k] \in X /\ k + 1 \in 1 .. n /\ (k + 1) - 1 = k BY <3>1
      <4>2. c[k + 1] = NextLine(c[k]) BY <1>7, <4>1
      <4>3. c[k + 1] \in X BY <4>1, <4>2, NextLineTyped DEF X
      <4> QED BY <4>3
    <3> QED BY <3>1
  <2> HIDE DEF S
  <2>3. Nat \subseteq S BY <2>1, <2>2, Induction
  <2> QED BY <2>3 DEF S
<1>10. c \in [0 .. n -> X] BY <1>8, <1>9
<1> QED BY <1>6, <1>7, <1>10 DEF X

\* and back.
LEMMA BackwardIs ==
  ASSUME TypeOK, NEW i \in 0 .. size, NEW n \in Nat
  PROVE  \E f \in [0 .. n -> 0 .. size] :
           f[0] = Bol(i) /\ (\A k \in 1 .. n : f[k] = PrevLine(f[k - 1])) /\ Backward(i, n) = f[n]
<1> DEFINE X == 0 .. size
           h == [v \in X |-> PrevLine(v)]
           Rec(f) == f = [k \in 0 .. n |->
                            IF k = 0 THEN Bol(i)
                            ELSE IF f[k - 1] = 0 THEN 0 ELSE Bol(f[k - 1] - 1)]
<1>0. Bol(i) \in 0 .. size
  <2>1. Bol(i) \in 0 .. i /\ size \in Nat BY BolIs, ListFacts
  <2> QED BY <2>1
<1>1. h \in [X -> X] BY PrevLineTyped
<1>2. PICK f : f \in [0 .. n -> X] /\ f[0] = Bol(i) /\ \A k \in 1 .. n : f[k] = h[f[k - 1]]
  <2> HIDE DEF h, X
  <2>1. Bol(i) \in X BY <1>0 DEF X
  <2>2. \E f : Iterated(f, X, Bol(i), h, n) BY <1>1, <2>1, Iterates
  <2> QED BY <2>2 DEF Iterated
<1>3. ASSUME NEW k \in 1 .. n PROVE f[k] = PrevLine(f[k - 1])
  <2>1. k - 1 \in 0 .. n OBVIOUS
  <2>2. f[k - 1] \in X
    <3> HIDE DEF X, h
    <3> QED BY <1>2, <2>1
  <2>3. h[f[k - 1]] = PrevLine(f[k - 1]) BY <2>2
  <2> HIDE DEF h, X
  <2> QED BY <1>2, <2>3
<1>4. Rec(f)
  <2>1. f = [k \in 0 .. n |-> f[k]]
    <3> HIDE DEF X, h
    <3> QED BY <1>2
  <2>2. ASSUME NEW k \in 0 .. n PROVE f[k] = IF k = 0 THEN Bol(i) ELSE PrevLine(f[k - 1])
    <3> HIDE DEF h, X
    <3>1. k # 0 => k \in 1 .. n OBVIOUS
    <3> QED BY <1>2, <1>3, <3>1
  <2>3. f = [k \in 0 .. n |-> IF k = 0 THEN Bol(i) ELSE PrevLine(f[k - 1])]
    <3> HIDE DEF h, X
    <3> QED BY <2>1, <2>2
  <2> QED BY <2>3 DEF PrevLine
<1> DEFINE c == CHOOSE g : Rec(g)
<1>5. Rec(c)
  <2> HIDE DEF Rec
  <2> QED BY <1>4
<1>6. Backward(i, n) = c[n] BY DEF Backward
<1> HIDE DEF c, h, X
<1>7. c[0] = Bol(i) /\ \A k \in 1 .. n : c[k] = PrevLine(c[k - 1])
  <2>1. \A k \in 0 .. n : c[k] = IF k = 0 THEN Bol(i) ELSE PrevLine(c[k - 1]) BY <1>5 DEF PrevLine
  <2> QED BY <2>1
<1>8. c = [k \in 0 .. n |-> c[k]]
  <2>1. DOMAIN c = 0 .. n BY <1>5
  <2>2. \E g : c = [k \in 0 .. n |-> g[k]] BY <1>5
  <2> QED BY <2>1, <2>2
<1> HIDE DEF Rec
<1>9. \A k \in 0 .. n : c[k] \in X
  <2> DEFINE S == {k \in Nat : k <= n => c[k] \in X}
  <2>1. 0 \in S BY <1>0, <1>7 DEF X
  <2>2. ASSUME NEW k \in S \cap Nat PROVE k + 1 \in S
    <3>1. CASE k + 1 <= n
      <4>1. c[k] \in X /\ k + 1 \in 1 .. n /\ (k + 1) - 1 = k BY <3>1
      <4>2. c[k + 1] = PrevLine(c[k]) BY <1>7, <4>1
      <4>3. c[k + 1] \in X BY <4>1, <4>2, PrevLineTyped DEF X
      <4> QED BY <4>3
    <3> QED BY <3>1
  <2> HIDE DEF S
  <2>3. Nat \subseteq S BY <2>1, <2>2, Induction
  <2> QED BY <2>3 DEF S
<1>10. c \in [0 .. n -> X] BY <1>8, <1>9
<1> QED BY <1>6, <1>7, <1>10 DEF X

\* The newlines between two places.
Between(f, l) == {j \in f .. l - 1 : GetByte(j) = Newline}

\* They are finitely many.
LEMMA BetweenFinite ==
  ASSUME NEW f \in Nat, NEW l \in Nat
  PROVE  IsFiniteSet(Between(f, l)) /\ Cardinality(Between(f, l)) \in Nat
<1>1. IsFiniteSet(f .. l - 1) BY FS_Interval
<1>2. Between(f, l) \in SUBSET (f .. l - 1) BY DEF Between
<1>3. IsFiniteSet(Between(f, l)) BY <1>1, <1>2, FS_Subset
<1> QED BY <1>3, FS_CardinalityType

\* One line forward is one newline.
LEMMA OneLine ==
  ASSUME TypeOK, NEW i \in 0 .. size, NEW v \in i .. size,
         Cardinality(Between(i, v)) < Cardinality(Between(i, size))
  PROVE  /\ NextLine(v) = Eol(v) + 1 /\ NextLine(v) \in v + 1 .. size
         /\ Cardinality(Between(i, NextLine(v))) = Cardinality(Between(i, v)) + 1
<1>0. size \in Nat /\ i \in Nat /\ v \in Nat /\ v \in 0 .. size /\ i <= v BY ListFacts
<1>1. Eol(v) \in v .. size /\ GetByte(Eol(v)) = Newline /\ \A j \in v .. Eol(v) - 1 : GetByte(j) # Newline
  BY <1>0, EolIs
<1> DEFINE e == Eol(v)
<1>2. e < size
  <2> SUFFICES ASSUME ~ (e < size) PROVE FALSE OBVIOUS
  <2>1. e = size BY <1>0, <1>1
  <2>2. \A j : j \in i .. size - 1 <=> j \in i .. v - 1 \/ j \in v .. e - 1 BY <1>0, <2>1
  <2>3. Between(i, size) = Between(i, v)
    <3> HIDE DEF e
    <3>1. \A j \in v .. e - 1 : GetByte(j) # Newline BY <1>1 DEF e
    <3> QED BY <2>2, <3>1 DEF Between
  <2>4. Cardinality(Between(i, v)) \in Nat BY <1>0, BetweenFinite
  <2> QED BY <2>3, <2>4
<1>3. NextLine(v) = e + 1 /\ e + 1 \in v + 1 .. size
  <2>1. e \in Nat /\ e >= v BY <1>0, <1>1
  <2> HIDE DEF e
  <2>2. ~ (e + 1 > size) /\ e + 1 \in v + 1 .. size BY <1>0, <1>2, <2>1
  <2> QED BY <2>2 DEF e, NextLine
<1>4. Between(i, e + 1) = Between(i, v) \cup {e} /\ e \notin Between(i, v)
  <2>1. e \in Nat /\ e >= v BY <1>0, <1>1
  <2>2. GetByte(e) = Newline /\ \A j \in v .. e - 1 : GetByte(j) # Newline BY <1>1
  <2> HIDE DEF e
  <2>3. \A j : j \in i .. (e + 1) - 1 <=> j \in i .. v - 1 \/ j \in v .. e - 1 \/ j = e BY <1>0, <2>1
  <2>4. e \notin i .. v - 1 BY <1>0, <2>1
  <2> QED BY <2>2, <2>3, <2>4 DEF Between
<1>5. IsFiniteSet(Between(i, v)) BY <1>0, BetweenFinite
<1> HIDE DEF e
<1>6. Cardinality(Between(i, e + 1)) = Cardinality(Between(i, v)) + 1 BY <1>4, <1>5, FS_AddElement
<1> QED BY <1>3, <1>6 DEF e

\* Back from the start of a line to the one before.
LEMMA LineBefore ==
  ASSUME TypeOK, NEW v \in 0 .. size, NextLine(v) = Eol(v) + 1, NextLine(v) \in v + 1 .. size
  PROVE  Bol(NextLine(v)) = NextLine(v) /\ PrevLine(NextLine(v)) = Bol(v)
<1>0. size \in Nat /\ v \in Nat BY ListFacts
<1> DEFINE e == Eol(v)  w == NextLine(v)
<1>1. e \in v .. size /\ GetByte(e) = Newline /\ \A j \in v .. e - 1 : GetByte(j) # Newline BY EolIs
<1>2. w = e + 1 /\ w \in v + 1 .. size OBVIOUS
<1>3. Bol(v) \in 0 .. v /\ GetByte(Bol(v) - 1) = Newline /\ \A j \in Bol(v) .. v - 1 : GetByte(j) # Newline BY BolIs
<1> HIDE DEF e, w
<1>4. e \in Nat /\ w \in 0 .. size /\ w # 0 /\ w - 1 = e /\ e \in 0 .. size BY <1>0, <1>1, <1>2
<1>5. Bol(w) = w
  <2>1. \A j \in w .. w - 1 : GetByte(j) # Newline BY <1>4
  <2>2. w \in 0 .. w /\ GetByte(w - 1) = Newline BY <1>1, <1>4
  <2> QED BY <1>4, <2>1, <2>2, BolUnique
<1>6. Bol(e) = Bol(v)
  <2> DEFINE b == Bol(v)
  <2>1. b \in 0 .. e /\ GetByte(b - 1) = Newline BY <1>0, <1>1, <1>3
  <2>2. \A j \in b .. e - 1 : GetByte(j) # Newline
    <3> TAKE j \in b .. e - 1
    <3>1. j \in b .. v - 1 \/ j \in v .. e - 1 BY <1>0, <1>3, <1>4
    <3> QED BY <1>1, <1>3, <3>1
  <2> HIDE DEF b
  <2>3. Bol(e) = b BY <1>4, <2>1, <2>2, BolUnique
  <2> QED BY <2>3 DEF b
<1>7. PrevLine(w) = Bol(w - 1) BY <1>4 DEF PrevLine
<1> QED BY <1>4, <1>5, <1>6, <1>7 DEF w

\* As many lines forward as there are newlines, and back again.
LEMMA LinesThereAndBack ==
  ASSUME TypeOK, NEW i \in 0 .. size, NEW n \in Nat, CountLines(i, size) >= n
  PROVE  Backward(Forward(i, n), n) = Bol(i) /\ CountLines(i, Forward(i, n)) = n
<1>0. size \in Nat /\ i \in Nat BY ListFacts
<1>1. PICK f \in [0 .. n -> 0 .. size] :
        f[0] = i /\ (\A k \in 1 .. n : f[k] = NextLine(f[k - 1])) /\ Forward(i, n) = f[n]
  BY ForwardIs
<1>2. Cardinality(Between(i, size)) >= n /\ Cardinality(Between(i, size)) \in Nat
  <2>1. size \in 0 .. size BY <1>0
  <2>2. CountLines(i, size) = Cardinality(Between(i, size)) BY <2>1, CountIs DEF Between
  <2> QED BY <1>0, <2>2, BetweenFinite
<1>3. \A k \in 0 .. n : f[k] \in i .. size /\ Cardinality(Between(i, f[k])) = k
  <2> DEFINE S == {k \in Nat : k <= n => f[k] \in i .. size /\ Cardinality(Between(i, f[k])) = k}
  <2>1. 0 \in S
    <3>1. Between(i, i) = {} BY <1>0 DEF Between
    <3>2. Cardinality(Between(i, i)) = 0 BY <3>1, FS_EmptySet
    <3>3. i \in i .. size /\ f[0] = i BY <1>0, <1>1
    <3> QED BY <3>2, <3>3
  <2>2. ASSUME NEW k \in S \cap Nat PROVE k + 1 \in S
    <3>1. CASE k + 1 <= n
      <4>1. f[k] \in i .. size /\ Cardinality(Between(i, f[k])) = k BY <3>1
      <4>2. Cardinality(Between(i, f[k])) < Cardinality(Between(i, size)) BY <1>2, <3>1, <4>1
      <4>3. k + 1 \in 1 .. n /\ (k + 1) - 1 = k BY <3>1
      <4>4. f[k + 1] = NextLine(f[k]) BY <1>1, <4>3
      <4> DEFINE v == f[k]
      <4>5. v \in i .. size /\ Cardinality(Between(i, v)) < Cardinality(Between(i, size)) BY <4>1, <4>2
      <4> HIDE DEF v
      <4>6. NextLine(v) \in v + 1 .. size /\ Cardinality(Between(i, NextLine(v))) = Cardinality(Between(i, v)) + 1
        BY <4>5, OneLine
      <4>7. NextLine(v) \in i .. size BY <1>0, <4>5, <4>6
      <4>8. f[k + 1] = NextLine(v) /\ Cardinality(Between(i, v)) = k BY <4>1, <4>4 DEF v
      <4> QED BY <4>6, <4>7, <4>8
    <3> QED BY <3>1
  <2> HIDE DEF S
  <2>3. Nat \subseteq S BY <2>1, <2>2, Induction
  <2> QED BY <2>3 DEF S
<1>4. ASSUME NEW k \in 1 .. n
      PROVE  f[k - 1] \in 0 .. size /\ f[k] = NextLine(f[k - 1])
             /\ Bol(f[k]) = f[k] /\ PrevLine(f[k]) = Bol(f[k - 1])
  <2> DEFINE v == f[k - 1]
  <2>1. k - 1 \in 0 .. n /\ k - 1 < n BY <1>1
  <2>2. v \in i .. size /\ Cardinality(Between(i, v)) = k - 1 BY <1>3, <2>1
  <2>3. f[k] = NextLine(v) BY <1>1
  <2> HIDE DEF v
  <2>4. Cardinality(Between(i, v)) < Cardinality(Between(i, size)) BY <1>2, <2>1, <2>2
  <2>5. NextLine(v) = Eol(v) + 1 /\ NextLine(v) \in v + 1 .. size BY <2>2, <2>4, OneLine
  <2>6. v \in 0 .. size BY <1>0, <2>2
  <2>7. Bol(NextLine(v)) = NextLine(v) /\ PrevLine(NextLine(v)) = Bol(v) BY <2>5, <2>6, LineBefore
  <2> QED BY <2>3, <2>6, <2>7 DEF v
<1> DEFINE c == f[n]
<1>5. c \in 0 .. size /\ n \in 0 .. n BY <1>1
<1>6. PICK g \in [0 .. n -> 0 .. size] :
        g[0] = Bol(c) /\ (\A k \in 1 .. n : g[k] = PrevLine(g[k - 1])) /\ Backward(c, n) = g[n]
  <2> HIDE DEF c
  <2> QED BY <1>5, BackwardIs
<1>7. \A k \in 0 .. n : g[k] = Bol(f[n - k])
  <2> DEFINE S == {k \in Nat : k <= n => g[k] = Bol(f[n - k])}
  <2>1. 0 \in S BY <1>6
  <2>2. ASSUME NEW k \in S \cap Nat PROVE k + 1 \in S
    <3>1. CASE k + 1 <= n
      <4>1. g[k] = Bol(f[n - k]) BY <3>1
      <4>2. k + 1 \in 1 .. n /\ (k + 1) - 1 = k /\ n - k \in 1 .. n /\ (n - k) - 1 = n - (k + 1) BY <3>1
      <4>3. Bol(f[n - k]) = f[n - k] /\ PrevLine(f[n - k]) = Bol(f[(n - k) - 1]) BY <1>4, <4>2
      <4>4. g[k + 1] = PrevLine(g[k]) BY <1>6, <4>2
      <4>5. g[k + 1] = Bol(f[n - (k + 1)]) BY <4>1, <4>2, <4>3, <4>4
      <4> QED BY <4>5
    <3> QED BY <3>1
  <2> HIDE DEF S
  <2>3. Nat \subseteq S BY <2>1, <2>2, Induction
  <2> QED BY <2>3 DEF S
<1>8. g[n] = Bol(i)
  <2>1. n - n = 0 OBVIOUS
  <2> QED BY <1>1, <1>5, <1>7, <2>1
<1>9. CountLines(i, c) = n
  <2>1. Cardinality(Between(i, c)) = n BY <1>3, <1>5
  <2> HIDE DEF c
  <2>2. CountLines(i, c) = Cardinality(Between(i, c)) BY <1>5, CountIs DEF Between
  <2> QED BY <2>1, <2>2
<1> QED BY <1>1, <1>6, <1>8, <1>9

\* The counters are the numbers of newlines.
LEMMA CountersAreLines ==
  ASSUME LInv, Counted
  PROVE  lines = CountLines(0, size) /\ curs_line = CountLines(0, curs1)
<1>0. TypeOK /\ size = curs1 + curs2 /\ curs1 \in Nat /\ curs2 \in Nat /\ size \in Nat BY ListFacts DEF LInv
<1> DEFINE A == Newlines(b1, curs1, "before")  B == Newlines(b2, curs2, "behind")
           D == {i \in curs1 .. size - 1 : GetByte(i) = Newline}
<1>1. ASSUME NEW i \in 0 .. curs1 - 1 PROVE GetByte(i) = ByteAt(b1, i, "before")
  <2>1. ~ (i < 0 \/ i >= curs1 + curs2) BY <1>0
  <2> QED BY <2>1 DEF GetByte, ByteAt, Slot
<1>2. ASSUME NEW p \in 0 .. curs2 - 1 PROVE GetByte(size - 1 - p) = ByteAt(b2, p, "behind")
  <2> DEFINE i == size - 1 - p
  <2>1. ~ (i < 0 \/ i >= curs1 + curs2) /\ i \notin 0 .. curs1 - 1 /\ curs1 + curs2 - i - 1 = p BY <1>0
  <2> HIDE DEF i
  <2>2. GetByte(i) = ByteAt(b2, p, "behind") BY <2>1 DEF GetByte, ByteAt, Slot
  <2> QED BY <2>2 DEF i
<1>3. {i \in 0 .. curs1 - 1 : GetByte(i) = Newline} = A BY <1>1 DEF Newlines
<1>4. CountLines(0, curs1) = Cardinality(A)
  <2>1. 0 \in 0 .. size /\ curs1 \in 0 .. size BY <1>0
  <2> QED BY <1>0, <1>3, <2>1, CountIs
<1>5. D = {(size - 1) - p : p \in B}
  <2>1. ASSUME NEW i \in D PROVE i \in {(size - 1) - p : p \in B}
    <3>1. size - 1 - i \in 0 .. curs2 - 1 /\ size - 1 - (size - 1 - i) = i BY <1>0
    <3>2. size - 1 - i \in B BY <1>2, <3>1 DEF Newlines
    <3> QED BY <3>1, <3>2
  <2>2. ASSUME NEW p \in B PROVE (size - 1) - p \in D
    <3>1. p \in 0 .. curs2 - 1 /\ ByteAt(b2, p, "behind") = Newline BY DEF Newlines
    <3>2. (size - 1) - p \in curs1 .. size - 1 BY <1>0, <3>1
    <3> QED BY <1>2, <3>1, <3>2
  <2> HIDE DEF D, B
  <2> QED BY <2>1, <2>2
<1>6. IsFiniteSet(A) /\ IsFiniteSet(B) /\ Cardinality(A) \in Nat /\ Cardinality(B) \in Nat BY <1>0, NewlinesFinite
<1>7. IsFiniteSet(D) /\ Cardinality(D) = Cardinality(B)
  <2>1. B \in SUBSET Int BY DEF Newlines
  <2>2. size - 1 \in Int BY <1>0
  <2> HIDE DEF B, D
  <2> QED BY <1>5, <1>6, <2>1, <2>2, Mirrored
<1>8. A \cap D = {} BY <1>0 DEF Newlines
<1>9. {i \in 0 .. size - 1 : GetByte(i) = Newline} = A \cup D
  <2>1. \A i : i \in 0 .. size - 1 <=> i \in 0 .. curs1 - 1 \/ i \in curs1 .. size - 1 BY <1>0
  <2>2. {i \in 0 .. size - 1 : GetByte(i) = Newline} = {i \in 0 .. curs1 - 1 : GetByte(i) = Newline} \cup D BY <2>1
  <2> HIDE DEF A, D
  <2> QED BY <1>3, <2>2
<1>10. Cardinality(A \cup D) = Cardinality(A) + Cardinality(B)
  <2> HIDE DEF A, B, D
  <2>1. Cardinality(A \cup D) = Cardinality(A) + Cardinality(D) - Cardinality(A \cap D) BY <1>6, <1>7, FS_Union
  <2>2. Cardinality(A \cap D) = 0 BY <1>8, FS_EmptySet
  <2> QED BY <1>6, <1>7, <2>1, <2>2
<1>11. CountLines(0, size) = Cardinality(A) + Cardinality(B)
  <2>1. 0 \in 0 .. size /\ size \in 0 .. size BY <1>0
  <2>2. CountLines(0, size) = Cardinality({i \in 0 .. size - 1 : GetByte(i) = Newline}) BY <1>0, <2>1, CountIs
  <2> QED BY <1>9, <1>10, <2>2
<1>12. curs_line = Cardinality(A) /\ lines = curs_line + Cardinality(B) BY DEF Counted
<1> QED BY <1>4, <1>11, <1>12

\* The invariant is enough.
LEMMA InvWrites == LInv /\ Counted => WritesTheText
<1> SUFFICES ASSUME LInv, Counted PROVE WritesTheText OBVIOUS
<1>1. TypeOK BY DEF LInv
<1>2. Written = Left \o Right BY <1>1, WrittenIs
<1>3. lines = CountLines(0, size) /\ curs_line = CountLines(0, curs1) BY CountersAreLines
<1>4. ASSUME NEW i \in 0 .. size, NEW n \in 0 .. size, CountLines(i, size) >= n
      PROVE  Backward(Forward(i, n), n) = Bol(i) /\ CountLines(i, Forward(i, n)) = n
  <2>1. n \in Nat BY <1>1, ListFacts
  <2> QED BY <1>1, <1>4, <2>1, LinesThereAndBack
<1> QED BY <1>2, <1>3, <1>4 DEF WritesTheText

\* A save writes the text that edit_buffer_get_byte shows, all of it and nothing of
\* the free parts of the chunks; lines and curs_line are the numbers of newlines; as
\* many lines forward as there are, and back again, end at the start of the line.
THEOREM WritesTheTextHolds == Spec => []WritesTheText
<1> DEFINE I == LInv /\ Counted
<1>1. Init => I BY InitHolds, InitCounts
<1>2. I /\ [Next]_vars => I' BY StepHolds, CountsKept
<1>3. I => WritesTheText BY InvWrites
<1> HIDE DEF I
<1> QED BY <1>1, <1>2, <1>3, PTL DEF Spec
=============================================================================
