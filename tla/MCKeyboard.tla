----------------------------- MODULE MCKeyboard -----------------------------
(* Sequences and keys for Keyboard: the cursor up, a function key whose      *)
(* sequence begins in the same way and just fits, and Esc Esc, as in         *)
(* mc_default_keys.                                                          *)
EXTENDS Keyboard

E == "ESC"
Def(s, code, escape) == [seq |-> s, code |-> <<"key", code>>, escape |-> escape]
Known3 == <<
  Def(<<E>>, "esc", TRUE), Def(<<E, E>>, "esc", FALSE),
  Def(<<E, "[", "A">>, "up", FALSE), Def(<<E, "[", "1", "~">>, "f1", FALSE),
  Def(<<E, "[", "1">>, "refused", FALSE), Def(<<E, "[", "1", "1", "~">>, "too long", FALSE)>>

Plain == {<<"x">>, <<E, "x">>, <<E, "[", "A">>, <<E, E>>}
Unknown == <<E, "[", "1", "x">>
World(old, nodelay, slow, items) ==
  [old_esc_mode |-> old, nodelay |-> nodelay, slow |-> slow, items |-> items]

\* A program that polls, and a user who presses Esc alone.
EscWorlds == {World(TRUE, TRUE, FALSE, {<<E>>, <<"x">>, <<E, "[", "A">>})}

\* Waiting and polling with known keys, a lone Esc, waiting with an unknown key; where
\* no Esc is timed the line may be slow.
SafeWorlds ==
  {World(old, nodelay, FALSE, Plain \cup {<<E, "1">>}) : old \in BOOLEAN, nodelay \in BOOLEAN}
  \cup {World(FALSE, nodelay, TRUE, Plain \cup {<<E, "1">>}) : nodelay \in BOOLEAN}
  \cup {World(TRUE, FALSE, FALSE, {<<"x">>, <<E>>, <<E, "[", "1", "~">>})} \cup EscWorlds
  \cup {World(old, FALSE, FALSE, Plain \cup {Unknown}) : old \in BOOLEAN}

\* Further worlds where NoGarbage fails: a sequence, or an unknown one, that a timeout
\* cuts, polling after an unknown sequence, which takes four keys to be seen, and Alt-[
\* before a key.
SplitWorlds == {World(TRUE, nodelay, TRUE, {<<"x">>, <<E, "[", "A">>}) : nodelay \in BOOLEAN}
SlowWorlds == {World(FALSE, FALSE, TRUE, {Unknown})}
UnknownWorlds == {World(FALSE, TRUE, FALSE, Plain \cup {Unknown})}
BracketWorlds == {World(FALSE, FALSE, FALSE, {<<E, "[">>, <<E, "[", "A">>})}
=============================================================================
