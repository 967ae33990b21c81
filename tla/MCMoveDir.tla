----------------------------- MODULE MCMoveDir -----------------------------
(***************************************************************************)
(* The directory trees and the operations TLC looks at.                    *)
(***************************************************************************)
EXTENDS MoveDir

NameSet == {"d", "e", "s", "f", "g", "h", "x", "late", "copied"}
Kids(d, e, s) == [n \in NameSet |-> CASE n = "d" -> d [] n = "e" -> e [] n = "s" -> s
                                     [] OTHER -> <<>>]
Same == [n \in NameSet |-> n]

\* d holds a file and a directory with a file; e holds one file
Plain == [
  op |-> "copy", tops |-> <<"d", "e">>, dirs |-> {"d", "e", "s"},
  kids |-> Kids(<<"f", "s">>, <<"h">>, <<"g">>), inode |-> Same,
  tree |-> {<<"d">>, <<"d", "f">>, <<"d", "s">>, <<"d", "s", "g">>, <<"e">>, <<"e", "h">>},
  dest |-> "absent", dive |-> FALSE, inside |-> {}, cross |-> FALSE, late |-> FALSE,
  failures |-> {}, errors |-> Answers, buttons |-> Buttons,
  recursive |-> {"yes", "no", "all", "none", "abort"}]

Reversed(j) == [j EXCEPT !.kids = Kids(<<"s", "f">>, <<"h">>, <<"g">>)]

CopyJobs == {
  [Plain EXCEPT !.failures = {"stat", "getflags", "mkdir", "chown"}, !.buttons = {"cont"}],
  Reversed([Plain EXCEPT !.dest = "inner", !.dive = TRUE, !.failures = {"copy"}, !.late = TRUE]),
  [Plain EXCEPT !.dest = "dir", !.dive = TRUE, !.failures = {"copy", "mkdir", "standing"}],
  [Plain EXCEPT !.dest = "file", !.failures = {"copy"}],
  [Plain EXCEPT !.failures = {"read", "copy"}, !.buttons = {"cont"}]}

MoveJobs == {
  [Plain EXCEPT !.op = "move", !.cross = TRUE, !.late = TRUE, !.failures = {"copy", "unlink"}],
  Reversed([Plain EXCEPT !.op = "move", !.cross = TRUE,
                         !.failures = {"copy", "rmdir", "opendir"}]),
  [Plain EXCEPT !.op = "move", !.failures = {"rename"}, !.late = TRUE],
  [Plain EXCEPT !.op = "move", !.cross = TRUE, !.failures = {"read", "rmdir"}],
  [Plain EXCEPT !.op = "move", !.dest = "inner", !.dive = TRUE],
  [Plain EXCEPT !.op = "move", !.dest = "dir", !.failures = {"vanish", "copy", "standing"}],
  [Plain EXCEPT !.op = "move", !.dest = "same"],
  [Plain EXCEPT !.op = "move", !.dest = "file", !.dive = TRUE],
  [Plain EXCEPT !.op = "move", !.dest = "dir", !.dive = TRUE, !.cross = TRUE, !.tops = <<"d">>,
                !.failures = {"mkdir", "unlink"}, !.tree = @ \ {<<"e">>, <<"e", "h">>}]}

DeleteJobs == {
  [Plain EXCEPT !.op = "delete", !.late = TRUE, !.failures = {"unlink", "rmdir", "lstat"}],
  Reversed([Plain EXCEPT !.op = "delete", !.failures = {"unlink", "read", "opendir"}]),
  [Plain EXCEPT !.op = "delete", !.tree = @ \ {<<"e", "h">>}, !.kids["e"] = <<>>,
                !.failures = {"rmdir"}]}

\* x is a link to a parent directory; the target appears in a source directory
CycleJobs == {
  [Plain EXCEPT !.kids = Kids(<<"x", "f", "s">>, <<"h">>, <<"x", "g">>), !.inode["x"] = "d",
                !.dirs = @ \cup {"x"}, !.failures = {"copy"}],
  [Plain EXCEPT !.kids = Kids(<<"f", "x", "s">>, <<"h">>, <<"g">>), !.inode["x"] = "s",
                !.dirs = @ \cup {"x"}, !.failures = {"copy"}],
  [Plain EXCEPT !.inside = {"d"}, !.tops = <<"d">>],
  [Plain EXCEPT !.inside = {"s"}, !.tops = <<"d">>, !.failures = {"copy"}],
  [Plain EXCEPT !.inside = {"d"}, !.tops = <<"d">>, !.dest = "dir"]}

SafeJobs == CopyJobs \cup MoveJobs \cup DeleteJobs \cup CycleJobs

\* A deletion that cannot look at an entry, and says nothing.
ReadJobs == {[Plain EXCEPT !.op = "delete", !.failures = {"lstat"}, !.buttons = {"cont"}]}

TagJobs == {[Plain EXCEPT !.failures = {"copy"}, !.buttons = {"cont"}]}
=============================================================================
