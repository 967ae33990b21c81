------------------------------- MODULE MCVfsGc -------------------------------
(***************************************************************************)
(* Archives, and what the user may do with them.                           *)
(***************************************************************************)
EXTENDS VfsGc

\* b lies in a; the others on the disk.
Nesting == [x \in FS |-> IF x = "b" THEN "a" ELSE Local]

Work(set, n) == [visits |-> set, ops |-> n, views |-> FALSE, free |-> FALSE, quit |-> FALSE]

SafeWorlds == {
  Work({"a", "b"}, 7),
  [Work({"b", "c"}, 5) EXCEPT !.free = TRUE],
  [Work({"a", "c"}, 5) EXCEPT !.free = TRUE, !.quit = TRUE],
  [Work({"a", "b"}, 5) EXCEPT !.views = TRUE]}

\* Leaving with one panel in an archive and the other in one inside it.
ExitWorlds == {[Work({"a", "b"}, 4) EXCEPT !.quit = TRUE]}

\* Freeing all while a panel that listed the outer archive has been replaced.
ReplacedWorlds == {[Work({"a", "b"}, 6) EXCEPT !.views = TRUE, !.free = TRUE]}
=============================================================================
