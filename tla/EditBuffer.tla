----------------------------- MODULE EditBuffer -----------------------------
(***************************************************************************)
(* The buffer of the editor (src/editor/editbuffer.c): two lists of chunks, *)
(* b1 with what is before the cursor, filled from the start of its chunks, *)
(* and b2 with what is behind it, filled from the end of its chunks, the   *)
(* last byte of the file first.                                            *)
(***************************************************************************)
EXTENDS Integers, Sequences, SequencesExt, FiniteSetsExt

CONSTANTS
  Bytes, Newline,
  BufSize,    \* EDIT_BUF_SIZE
  MaxLength   \* how long the text may become

ASSUME BytesAssumption == Newline \in Bytes
ASSUME BoundsAssumption == BufSize \in Nat \ {0} /\ MaxLength \in Nat

VARIABLES
  b1, b2,        \* sequences of chunks; a chunk is a function of 0 .. BufSize - 1
  curs1, curs2,  \* how many bytes each of them holds
  size,
  lines, curs_line,  \* newlines in the text, and before the cursor
  loaded         \* the file has been read

vars == <<b1, b2, curs1, curs2, size, lines, curs_line, loaded>>

Zeroed == [i \in 0 .. BufSize - 1 |-> "zero"]
Chunk(b, index) == b[index \div BufSize + 1]

\* edit_buffer_get_byte_ptr, edit_buffer_get_byte
GetByte(index) ==
  CASE index < 0 \/ index >= curs1 + curs2 -> Newline
    [] index \in 0 .. curs1 - 1 -> Chunk(b1, index)[index % BufSize]
    [] OTHER -> LET p == curs1 + curs2 - index - 1 IN Chunk(b2, p)[BufSize - 1 - (p % BufSize)]

Init ==
  /\ b1 = <<>> /\ b2 = <<>> /\ curs1 = 0 /\ curs2 = 0
  /\ size = 0 /\ lines = 0 /\ curs_line = 0 /\ loaded = FALSE

-----------------------------------------------------------------------------
(* The two lists *)

GrownAtEnd(b, n) == IF n % BufSize = BufSize - 1 THEN Append(b, Zeroed) ELSE b  \* mutant: the new chunk comes one byte early
Grown(b, n) == IF n % BufSize = 0 THEN Append(b, Zeroed) ELSE b

Put2AtStart(c) ==  \* mutant: the list behind the cursor fills its chunks from their start
  b2' = [Grown(b2, curs2) EXCEPT ![curs2 \div BufSize + 1][curs2 % BufSize] = c] /\ curs2' = curs2 + 1
Put1(c) ==
  b1' = [Grown(b1, curs1) EXCEPT ![curs1 \div BufSize + 1][curs1 % BufSize] = c] /\ curs1' = curs1 + 1
Put2(c) ==
  b2' = [Grown(b2, curs2) EXCEPT ![curs2 \div BufSize + 1][BufSize - 1 - (curs2 % BufSize)] = c] /\ curs2' = curs2 + 1

Shrunk(b, prev) == IF prev % BufSize = 0 THEN Front(b) ELSE b

Take1 == b1' = Shrunk(b1, curs1 - 1) /\ curs1' = curs1 - 1
Take2 == b2' = Shrunk(b2, curs2 - 1) /\ curs2' = curs2 - 1

\* What a byte adds to the counters of lines (edit_insert, edit_delete).
Counts(c) == IF c = Newline THEN 1 ELSE 0

Current == GetByte(curs1)
Previous == GetByte(curs1 - 1)

Room == loaded /\ size < MaxLength

Insert(c) ==
  /\ Room /\ Put1(c) /\ size' = size + 1
  /\ lines' = lines + Counts(c) /\ curs_line' = curs_line + Counts(c)
  /\ UNCHANGED <<b2, curs2, loaded>>
InsertAhead(c) ==
  /\ Room /\ Put2(c) /\ size' = size + 1 /\ lines' = lines + Counts(c)
  /\ UNCHANGED <<b1, curs1, curs_line, loaded>>
Delete ==
  /\ loaded /\ curs2 # 0 /\ Take2 /\ size' = size - 1 /\ lines' = lines - Counts(Current)
  /\ UNCHANGED <<b1, curs1, curs_line, loaded>>
Backspace ==
  /\ loaded /\ curs1 # 0 /\ Take1 /\ size' = size - 1
  /\ lines' = lines - Counts(Previous) /\ curs_line' = curs_line - Counts(Previous)
  /\ UNCHANGED <<b2, curs2, loaded>>

\* edit_cursor_move by one: into the other list, then out of this one
MoveLeft ==
  /\ loaded /\ curs1 # 0 /\ Put2(Previous) /\ Take1 /\ curs_line' = curs_line - Counts(Previous)
  /\ UNCHANGED <<size, lines, loaded>>
MoveRight ==
  /\ loaded /\ curs2 # 0 /\ Put1(Current) /\ Take2 /\ curs_line' = curs_line + Counts(Current)
  /\ UNCHANGED <<size, lines, loaded>>

-----------------------------------------------------------------------------
(* Reading and writing the file *)

\* edit_buffer_read_file: a partly filled chunk for the start of the file, then
\* whole ones, and in the end the list is reversed.
Parts(t) ==
  LET odd == Len(t) % BufSize
      first == [i \in 0 .. BufSize - 1 |-> IF i < BufSize - odd THEN "zero" ELSE t[i - (BufSize - odd) + 1]]
      whole == [k \in 1 .. Len(t) \div BufSize |-> [i \in 0 .. BufSize - 1 |-> t[odd + (k - 1) * BufSize + i + 1]]] IN
  (IF odd = 0 THEN <<>> ELSE <<first>>) \o whole

Read(t) ==
  /\ ~ loaded /\ loaded' = TRUE
  /\ b2' = Reverse(Parts(t)) /\ curs2' = Len(t) /\ size' = Len(t)
  /\ lines' = Cardinality({i \in 1 .. Len(t) : t[i] = Newline})
  /\ UNCHANGED <<b1, curs1, curs_line>>

\* edit_buffer_write_file
Bits(chunk, from, n) == [i \in 1 .. n |-> chunk[from + i - 1]]
Rest(n) == ((n - 1) % BufSize) + 1

WrittenWhole ==  \* mutant: the last chunk before the cursor is written as a whole
  LET one(i) == Bits(b1[i], 0, BufSize)
      two(i) == IF i = Len(b2) THEN Bits(b2[i], BufSize - Rest(curs2), Rest(curs2)) ELSE Bits(b2[i], 0, BufSize) IN
  FlattenSeq([i \in DOMAIN b1 |-> one(i)]) \o FlattenSeq([i \in DOMAIN b2 |-> two(Len(b2) + 1 - i)])
Written ==
  LET one(i) == Bits(b1[i], 0, IF i = Len(b1) THEN Rest(curs1) ELSE BufSize)
      two(i) == IF i = Len(b2) THEN Bits(b2[i], BufSize - Rest(curs2), Rest(curs2)) ELSE Bits(b2[i], 0, BufSize) IN
  FlattenSeq([i \in DOMAIN b1 |-> one(i)]) \o FlattenSeq([i \in DOMAIN b2 |-> two(Len(b2) + 1 - i)])

-----------------------------------------------------------------------------
(* Lines *)

CountLines(first, last) ==
  Cardinality({i \in Max({first, 0}) .. Min({last, size}) - 1 : GetByte(i) = Newline})

Bol(current) ==
  IF current <= 0 THEN 0 ELSE Max({j \in 0 .. current : GetByte(j - 1) = Newline})
Eol(current) ==
  IF current >= size THEN size ELSE Min({j \in current .. size : GetByte(j) = Newline})

Forward(current, n) ==
  LET at[k \in 0 .. n] ==
        IF k = 0 THEN current
        ELSE LET next == Eol(at[k - 1]) + 1 IN IF next > size THEN at[k - 1] ELSE next IN
  at[n]

Backward(current, n) ==
  LET at[k \in 0 .. n] ==
        IF k = 0 THEN Bol(current) ELSE IF at[k - 1] = 0 THEN 0 ELSE Bol(at[k - 1] - 1) IN
  at[n]

-----------------------------------------------------------------------------
Files == UNION {[1 .. n -> Bytes] : n \in 0 .. MaxLength}

Next ==
  \/ \E t \in Files : Read(t)
  \/ \E c \in Bytes : Insert(c) \/ InsertAhead(c)
  \/ Delete \/ Backspace \/ MoveLeft \/ MoveRight

Spec == Init /\ [][Next]_vars

-----------------------------------------------------------------------------
(* Properties *)

Chunks(n) == (n + BufSize - 1) \div BufSize

\* Every list has exactly the chunks its bytes need, so no access is outside.
TypeOK ==
  /\ curs1 \in 0 .. MaxLength /\ curs2 \in 0 .. MaxLength /\ size = curs1 + curs2 /\ loaded \in BOOLEAN
  /\ \A b \in {b1, b2} : b \in Seq([0 .. BufSize - 1 -> Bytes \cup {"zero"}])
  /\ Len(b1) = Chunks(curs1) /\ Len(b2) = Chunks(curs2)

Left == [i \in 1 .. curs1 |-> GetByte(i - 1)]
Right == [i \in 1 .. curs2 |-> GetByte(curs1 + i - 1)]

\* Whatever is typed and deleted at the borders of the chunks, the two lists
\* are a text with a cursor (editbuffer.c:553, 593).
Text == INSTANCE TextBuffer WITH left <- Left, right <- Right
IsText == Text!Spec

\* A save writes the text, no byte of the free parts of the chunks and none left out
\* (editbuffer.c:833, 848). The numbers of lines, in the text and before the cursor,
\* which are only ever counted up and down, stay the numbers of newlines; going
\* forward and back by as many lines ends at the start of the line (editbuffer.c:638,
\* 670).
WritesTheText ==
  /\ Written = Left \o Right
  /\ lines = CountLines(0, size) /\ curs_line = CountLines(0, curs1)
  /\ \A i \in 0 .. size, n \in 0 .. size :
       CountLines(i, size) >= n => Backward(Forward(i, n), n) = Bol(i) /\ CountLines(i, Forward(i, n)) = n
=============================================================================
