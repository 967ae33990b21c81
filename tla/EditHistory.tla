---------------------------- MODULE EditHistory ----------------------------
(***************************************************************************)
(* What Undo promises: the texts that were there before each of the last   *)
(* commands, of which only the oldest may be forgotten, and only when the  *)
(* stack is as large as it may be.                                         *)
(***************************************************************************)
EXTENDS Integers, Sequences

VARIABLES
  doc,    \* the text and the cursor in it
  past,   \* what Undo leads to, the next one last
  full,   \* the stack may not grow any more
  did     \* the kind of the last command

Init == past = <<>> /\ did = "open"

Younger(s, from) == SubSeq(s, from, Len(s))

\* A command of any other kind; what changed nothing need not be remembered.
Act ==
  /\ did' # "undo"
  /\ \E all \in {Append(past, doc)} \cup (IF past # <<>> /\ past[Len(past)] = doc THEN {past} ELSE {}) :
       \E from \in 1 .. Len(all) + 1 : past' = Younger(all, from) /\ (from > 1 => full')

\* Undo leads to a text of the past; the later ones are gone.
Undo ==
  /\ did' = "undo"
  /\ \/ past = <<>> /\ UNCHANGED <<doc, past>>
     \/ \E i \in 1 .. Len(past) : doc' = past[i] /\ past' = SubSeq(past, 1, i - 1)

Next == Act \/ Undo
Spec == Init /\ [][Next]_<<doc, past, did>>
=============================================================================
