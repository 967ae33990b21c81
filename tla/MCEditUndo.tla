----------------------------- MODULE MCEditUndo -----------------------------
(* Commands and texts for EditUndo. *)
EXTENDS EditUndo

ins(c) == <<"insert", c, 0>>
bs == <<"backspace", "", 0>>
del == <<"delchar", "", 0>>
toleft == <<"left", "", 0>>

\* Typing a letter and a blank, a deleted word, a command that changes nothing,
\* a replacement, a step to the left, and a paste that fills the ring alone.
FewKeys == {
  <<ins("a")>>, <<ins(" ")>>, <<bs, bs>>, <<>>, <<toleft>>,
  <<del, <<"ahead", "c", 0>>, <<"right", "", 0>>, ins("b"), toleft>>}
Paste == <<ins("a"), toleft, ins("b"), toleft, ins("a"), toleft, ins("b"), toleft, ins("a"), toleft, ins("b"), toleft>>
ManyKeys == FewKeys \cup {Paste \o Paste}
SomeTexts == {<<>>, <<"b", " ">>}
=============================================================================
