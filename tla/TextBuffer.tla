----------------------------- MODULE TextBuffer -----------------------------
(***************************************************************************)
(* What the buffer of the editor promises: a text with a cursor in it, kept *)
(* as the text before the cursor and the text behind it.                   *)
(***************************************************************************)
EXTENDS Sequences, SequencesExt

CONSTANT Bytes

VARIABLES left, right

Init == left = <<>> /\ right = <<>>

Load(t) == left = <<>> /\ right = <<>> /\ left' = <<>> /\ right' = t

Insert(c)      == left' = Append(left, c) /\ UNCHANGED right
InsertAhead(c) == right' = <<c>> \o right /\ UNCHANGED left
Delete         == right # <<>> /\ right' = Tail(right) /\ UNCHANGED left
Backspace      == left # <<>> /\ left' = Front(left) /\ UNCHANGED right
MoveLeft       == left # <<>> /\ left' = Front(left) /\ right' = <<Last(left)>> \o right
MoveRight      == right # <<>> /\ left' = Append(left, Head(right)) /\ right' = Tail(right)

Next ==
  \/ Delete \/ Backspace \/ MoveLeft \/ MoveRight
  \/ \E c \in Bytes : Insert(c) \/ InsertAhead(c)
  \/ right' \in Seq(Bytes) /\ Load(right')

Spec == Init /\ [][Next]_<<left, right>>
=============================================================================
