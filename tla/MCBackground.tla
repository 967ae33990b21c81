---------------------------- MODULE MCBackground ----------------------------
(***************************************************************************)
(* What may happen to jobs in the background.                              *)
(***************************************************************************)
EXTENDS Background

Calm == [kinds |-> {"query", "message"}, calls |-> 1, crashes |-> 0, quit |-> FALSE, press |-> {}]

SafeWorlds == {
  [Calm EXCEPT !.calls = 2],
  [Calm EXCEPT !.kinds = {"query"}, !.crashes = 2],
  [Calm EXCEPT !.kinds = {"message"}, !.quit = TRUE, !.crashes = 1],
  [Calm EXCEPT !.kinds = {"message"}, !.press = {"stop", "resume", "kill"}],
  [Calm EXCEPT !.kinds = {"query"}, !.press = {"kill"}, !.quit = TRUE]}

\* A failing call asks what to do about it.
ErrorWorlds == {[Calm EXCEPT !.kinds = {"error"}]}
=============================================================================
