----------------------------- MODULE MCEditSave -----------------------------
(***************************************************************************)
(* Worlds for TLC to explore EditSave in: two windows, two names.          *)
(***************************************************************************)
EXTENDS EditSave

\* Two processes edit the existing file f, by the rules of the program's dialogs.
Both(mode) ==
    [windows |-> {"w1", "w2"}, pid |-> [w1 |-> "p1", w2 |-> "p2"], opens |-> [w1 |-> "f", w2 |-> "f"],
     commands |-> 1, targets |-> {}, exists |-> {"f"}, linked |-> {}, stale |-> {}, mode |-> mode, filter |-> FALSE,
     cancel |-> FALSE, grab |-> TRUE, fail |-> FALSE, late |-> FALSE, convert |-> FALSE,
     crash |-> FALSE, ticks |-> TRUE]

\* One process edits f, the other g, and may save it as f.
Apart(mode) ==
    [Both(mode) EXCEPT !.opens = [w1 |-> "f", w2 |-> "g"], !.exists = {"f", "g"}, !.targets = {"f"}]

\* There is only one window, and nothing that it may not do.
Alone(mode, name) ==
    [Both(mode) EXCEPT !.windows = {"w1"}, !.opens = [w1 |-> name, w2 |-> NoName],
                       !.targets = Names, !.commands = 2, !.fail = TRUE]

SafeWorlds ==
    {Both("quick"), [Both("safe") EXCEPT !.crash = TRUE, !.fail = TRUE],
     Apart("quick"),
     [Alone("quick", "f") EXCEPT !.linked = {"f"}, !.stale = {"f"},
                                 !.convert = TRUE, !.late = TRUE, !.cancel = TRUE],
     [Alone("backup", "f") EXCEPT !.crash = TRUE, !.late = TRUE, !.cancel = TRUE],
     Alone("quick", "g"), Alone("quick", NoName)}

\* The question about hard links is cancelled while the window closes.
CancelWorlds == {[Alone("quick", "f") EXCEPT !.linked = {"f"}, !.cancel = TRUE]}

\* A new file is saved with other line breaks.
ConvertWorlds == {[Alone("quick", "g") EXCEPT !.convert = TRUE]}

\* The disk is full when the buffered stream of a safe save is closed.
LateWorlds == {[Alone("safe", "f") EXCEPT !.convert = TRUE, !.late = TRUE]}

\* Two sessions within one second.
SecondWorlds == {[Both("quick") EXCEPT !.ticks = FALSE]}

\* Two sessions begin without a name and save as the same new file.
UnnamedWorlds ==
    {[Both("quick") EXCEPT !.opens = [w \in Windows |-> NoName], !.exists = {}, !.targets = {"f"}]}
=============================================================================
