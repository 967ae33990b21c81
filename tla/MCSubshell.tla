----------------------------- MODULE MCSubshell -----------------------------
(***************************************************************************)
(* Values for the constants of Subshell                                     *)
(***************************************************************************)
EXTENDS Subshell

World(keeps, late, ends, early) ==
  [persistent |-> keeps, slow |-> late, dies |-> ends, ahead |-> early]

\* The user waits for the prompt; a shell dies while it runs something, or at
\* its prompt while MC is idle; the answers about the command line may be late.
SafeWorlds == { World(keeps, {}, {"run"}, FALSE) : keeps \in BOOLEAN }
                \cup { World(TRUE, {"buffer", "repair"}, {"run"}, FALSE),
                       World(FALSE, {"init"}, {}, FALSE),
                       World(TRUE, {}, {"idle"}, FALSE) }

\* The shell takes more than ten seconds to enter a directory.
SlowWorlds == { World(TRUE, {"chdir"}, {"run"}, FALSE) }

\* The shell is killed at its prompt, while MC is idle.
KilledWorlds == { World(TRUE, {}, {"idle"}, FALSE) }

\* The user types ahead.
AheadWorlds == { World(FALSE, {}, {}, TRUE), World(TRUE, {}, {}, TRUE) }
=============================================================================
