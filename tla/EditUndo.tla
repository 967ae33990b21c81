------------------------------ MODULE EditUndo ------------------------------
(***************************************************************************)
(* Undo and redo of the editor (src/editor/edit.c): two rings of inverse   *)
(* actions.  Every command pushes a key press and the inverse of each of   *)
(* its changes; Undo plays them back to the last key press and pushes what *)
(* reverts them onto the other ring.  The window does not scroll: a key    *)
(* press carries no line.  Marks are left out.                             *)
(***************************************************************************)
EXTENDS Integers, Sequences, SequencesExt, FiniteSetsExt

CONSTANTS
  Bytes, Breaks,  \* what a text is made of; those that are blanks or newlines
  Keys,        \* commands: sequences of changes
  Texts,       \* texts a file may hold
  START_STACK_SIZE, max_undo, Slack,
  MaxOps       \* how many commands are given

ASSUME SizesAssumption == START_STACK_SIZE > Slack /\ max_undo >= START_STACK_SIZE /\ Slack > 4

VARIABLES
  d,            \* the editor: see Opened
  group_undo,   \* edit_options.group_undo
  did, ops

vars == <<d, group_undo, did, ops>>

Key    == <<"key", "", 0>>
Bottom == <<"bottom", "", 0>>   \* STACK_BOTTOM
Blank  == <<"blank", "", 0>>    \* memory never written
IsKey(cell) == cell[1] = "key"
IsTimes(cell) == cell[1] = "times"  \* a negative entry: how often the one below it

Ends == {"key", "bottom", "blank"}
Moves == {"left", "right", "backspace", "backspace_br", "delchar", "delchar_br"}
Cells == ((Ends \cup Moves) \X {""} \X {0}) \cup ({"insert", "ahead"} \X Bytes \X {0}) \cup ({"times"} \X {""} \X Nat)

Rings == [cells : [0 .. 2 * max_undo - 1 -> Cells], size : Nat, bottom : Nat, top : Nat]
Editors == [left : Seq(Bytes), right : Seq(Bytes), undo : Rings, redo : Rings, reset : BOOLEAN, off : BOOLEAN]

Ring == [cells |-> [i \in 0 .. 2 * max_undo - 1 |-> Blank], size |-> START_STACK_SIZE, bottom |-> 0, top |-> 0]

Opened(text) == [left |-> <<>>, right |-> text, undo |-> Ring, redo |-> Ring, reset |-> FALSE, off |-> FALSE]

-----------------------------------------------------------------------------
(* The rings *)

EnlargedLate(r) == IF r.top = r.size - 1 /\ r.size < max_undo THEN [r EXCEPT !.size = 2 * @] ELSE r  \* mutant
Enlarged(r) == IF r.top > r.size - Slack /\ r.size < max_undo THEN [r EXCEPT !.size = 2 * @] ELSE r

\* When the top comes near the bottom, the bottom moves over one command; when
\* a single command fills the ring, the ring is emptied.
Trimmed[r \in Rings] ==
  LET at(k) == (r.bottom + k) % r.size
      near == (r.bottom - r.top) % r.size \in {2, 3}
      far == Min({k \in 1 .. r.size : at(k) = r.top \/ IsKey(r.cells[at(k)])})
      moved == [r EXCEPT !.bottom = IF near THEN at(far) ELSE @] IN
  IF moved.top # moved.bottom /\ ~ IsKey(moved.cells[moved.bottom]) THEN [moved EXCEPT !.top = 0, !.bottom = 0] ELSE moved

\* edit_push_undo_action, edit_push_redo_action: equal actions are counted
Push[ring \in Rings, a \in Cells] ==
  LET r == Enlarged(ring)
      at(k) == (r.top - k) % r.size
      below == r.cells[at(1)]
      deep == r.bottom \notin {at(0), at(1), at(2)}
      add(cell) == Trimmed[[r EXCEPT !.cells[r.top] = cell, !.top = (@ + 1) % r.size]] IN
  CASE deep /\ IsTimes(below) /\ r.cells[at(2)] = a -> [r EXCEPT !.cells[at(1)][3] = @ + 1]
    [] deep /\ below = a -> IF IsKey(a) THEN r ELSE add(<<"times", "", 2>>)
    [] OTHER -> add(a)

\* edit_pop_undo_action, edit_pop_redo_action: the action and the ring without it
Pop[r \in Rings] ==
  LET sp == (r.top - 1) % r.size
      cell == r.cells[sp] IN
  CASE r.top = r.bottom -> [act |-> Bottom, ring |-> r]
    [] r.top # r.bottom /\ ~ IsTimes(cell) -> [act |-> cell, ring |-> [r EXCEPT !.top = sp]]
    [] r.top # r.bottom /\ IsTimes(cell) /\ sp = r.bottom -> [act |-> Bottom, ring |-> r]
    [] OTHER -> [act |-> r.cells[(sp - 1) % r.size],
                 ring |-> IF cell[3] = 2 THEN [r EXCEPT !.top = sp] ELSE [r EXCEPT !.cells[sp][3] = @ - 1]]

\* get_prev_undo_action
Prev(r) == Pop[r].act

-----------------------------------------------------------------------------
(* The changes, each with what reverts it *)

RecordAndReset(e, a) ==  \* mutant: what is undone empties the redo ring
  LET kept == IF e.reset \/ e.off THEN [e EXCEPT !.redo.top = 0, !.redo.bottom = 0] ELSE e IN
  IF e.off THEN [kept EXCEPT !.undo = Enlarged(@), !.redo = Push[Push[@, Key], a]] ELSE [kept EXCEPT !.undo = Push[@, a]]
Record(e, a) ==
  IF e.off THEN [e EXCEPT !.undo = Enlarged(@), !.redo = Push[Push[@, Key], a]]
  ELSE LET kept == IF e.reset THEN [e EXCEPT !.redo.top = 0, !.redo.bottom = 0] ELSE e IN
       [kept EXCEPT !.undo = Push[@, a]]

Insert(e, c) ==
  [Record(e, <<IF c \in Breaks THEN "backspace_br" ELSE "backspace", "", 0>>) EXCEPT !.left = Append(@, c)]
InsertAhead(e, c) ==
  [Record(e, <<IF c \in Breaks THEN "delchar_br" ELSE "delchar", "", 0>>) EXCEPT !.right = <<c>> \o @]
DeleteAsTyped(e) ==  \* mutant: what reverts it leaves the cursor behind the byte
  IF e.right = <<>> THEN e ELSE [Record(e, <<"insert", Head(e.right), 0>>) EXCEPT !.right = Tail(@)]
Delete(e) ==
  IF e.right = <<>> THEN e ELSE [Record(e, <<"ahead", Head(e.right), 0>>) EXCEPT !.right = Tail(@)]
Backspace(e) ==
  IF e.left = <<>> THEN e ELSE [Record(e, <<"insert", Last(e.left), 0>>) EXCEPT !.left = Front(@)]
MoveLeft(e) ==
  IF e.left = <<>> THEN e
  ELSE [Record(e, <<"right", "", 0>>) EXCEPT !.left = Front(@), !.right = <<Last(e.left)>> \o @]
MoveRight(e) ==
  IF e.right = <<>> THEN e
  ELSE [Record(e, <<"left", "", 0>>) EXCEPT !.left = Append(@, Head(e.right)), !.right = Tail(@)]

Do[e \in Editors, a \in Cells] ==
  CASE a[1] = "right" -> MoveRight(e)
    [] a[1] = "left" -> MoveLeft(e)
    [] a[1] \in {"backspace", "backspace_br"} -> Backspace(e)
    [] a[1] \in {"delchar", "delchar_br"} -> Delete(e)
    [] a[1] = "ahead" -> InsertAhead(e, a[2])
    [] a[1] = "insert" -> Insert(e, a[2])

After[e \in Editors, k \in Seq(Cells)] == IF k = <<>> THEN e ELSE After[Do[e, Head(k)], Tail(k)]

-----------------------------------------------------------------------------
(* Undo and redo *)

UndoLoop[e \in Editors] ==
  LET p == Pop[e.undo]
      popped == [e EXCEPT !.undo = p.ring] IN
  IF p.act = Bottom \/ IsKey(p.act) THEN popped ELSE UndoLoop[Do[popped, p.act]]

DoUndo(e) == [UndoLoop[[e EXCEPT !.off = TRUE]] EXCEPT !.off = FALSE]

\* edit_do_redo, which knows no BACKSPACE_BR and no DELCHAR_BR
RedoLoop[e \in Editors] ==
  LET p == Pop[e.redo]
      popped == [e EXCEPT !.redo = p.ring] IN
  CASE p.act = Bottom \/ IsKey(p.act) -> popped
    [] p.act[1] \in {"backspace_br", "delchar_br"} -> RedoLoop[popped]
    [] OTHER -> RedoLoop[Do[popped, p.act]]

DoRedo(e) == IF e.reset THEN e ELSE RedoLoop[e]

GroupUndo[e \in Editors] ==
  LET undone == DoUndo(e)
      next == Prev(undone.undo) IN
  IF group_undo /\ next # Bottom /\ next = Prev(e.undo) THEN GroupUndo[undone] ELSE undone

-----------------------------------------------------------------------------
Init ==
  /\ \E t \in Texts : d = Opened(t)
  /\ group_undo \in BOOLEAN /\ did = "open" /\ ops = 0

Command(kind, e) ==
  /\ ops < MaxOps /\ ops' = ops + 1
  /\ did' = kind /\ d' = e
  /\ UNCHANGED group_undo

\* edit_execute_key_command with any command but Undo and Redo
KeyPress(k) ==
  Command("key", After[[Record(d, Key) EXCEPT !.reset = TRUE], k])

Undo == Command("undo", GroupUndo[[d EXCEPT !.reset = FALSE]])

Redo == Command("redo", DoRedo([Record(d, Key) EXCEPT !.reset = FALSE]))

\* edit_update_cursor: a click moves the cursor, and resets no stack
Click ==
  \/ Command("click", MoveLeft(Record(d, Key)))
  \/ Command("click", MoveRight(Record(d, Key)))

Next == (\E k \in Keys : KeyPress(k)) \/ Undo \/ Redo \/ Click
Spec == Init /\ [][Next]_vars

-----------------------------------------------------------------------------
(* Properties *)

Doc(e) == <<e.left, e.right>>

Filled(r) == {(r.bottom + k) % r.size : k \in 0 .. ((r.top - r.bottom) % r.size) - 1}
RingOK(r) ==
  /\ r.size \in START_STACK_SIZE .. 2 * max_undo - 1 /\ r.top \in 0 .. r.size - 1 /\ r.bottom \in 0 .. r.size - 1
  /\ \A i \in Filled(r) : r.cells[i] \notin {Blank, Bottom}
  /\ r.top # r.bottom => IsKey(r.cells[r.bottom])
  /\ r.size < max_undo => r.bottom = 0

\* Both rings are read only where they were written, stay below the limit, and grow
\* only while their entries are in order: nothing is laid out anew when they do
\* (edit.c:2345).
TypeOK ==
  /\ RingOK(d.undo) /\ RingOK(d.redo) /\ d.reset \in BOOLEAN /\ d.off = FALSE
  /\ ops \in 0 .. MaxOps /\ did \in {"open", "key", "undo", "redo", "click"}

Past[e \in Editors] ==
  IF e.undo.top = e.undo.bottom THEN <<>>
  ELSE LET u == DoUndo(e) IN Append(Past[u], Doc(u))

\* Whatever mixture of commands, undos, redos and clicks is given, Undo leads to
\* a text that was there before a command, and the history is forgotten only
\* from its old end and only when the ring may not grow (edit.c:2403-2424).
History == INSTANCE EditHistory WITH doc <- Doc(d), past <- Past[d], full <- d.undo.size >= max_undo
UndoIsHistory == History!Spec

Retraces[e \in Editors, doc \in Seq(Bytes) \X Seq(Bytes)] ==
  Doc(e) = doc \/ (e.redo.top # e.redo.bottom /\ Retraces[DoRedo(e), doc])

\* What Undo took away, Redo brings back, unless it is a blank or a newline or
\* more than the ring may hold (edit.c:1241, 2371).
NoBreaks(r) == \A i \in Filled(r) : r.cells[i][1] \notin {"backspace_br", "delchar_br"}
UndoCanBeRedone ==
  [][did' = "undo" /\ NoBreaks(d'.redo) /\ d'.redo.size < max_undo => Retraces[d', Doc(d)]]_<<d, ops>>
=============================================================================
