----------------------------- MODULE MCFileCopy -----------------------------
(***************************************************************************)
(* The jobs TLC looks at.  Careful jobs leave out exactly the              *)
(* circumstances under which the code is known to go wrong; each of the    *)
(* others is one of those circumstances and belongs to a run that expects  *)
(* a violation.                                                            *)
(***************************************************************************)
EXTENDS FileCopy

Kinds(k1, k2) == [f \in Files |-> IF f = 1 THEN k1 ELSE k2]

Plain == [
  op |-> "copy", files |-> 2, kind |-> Kinds("regular", "regular"), inode |-> [f \in Files |-> f],
  follow |-> FALSE, confirm |-> TRUE, stable |-> FALSE, clone |-> FALSE, prealloc |-> FALSE,
  unsupported |-> {}, failures |-> {}, intruder |-> FALSE,
  errors |-> ErrorReplies, buttons |-> {"cont", "skip", "abort"},
  replaces |-> {"yes", "no", "append", "all", "none", "abort"},
  shorts |-> {"delete", "keep", "continue"}, targets |-> {{Foreign}}]

CopyJob == [Plain EXCEPT
  !.failures = {"stat", "getflags", "open", "fstat", "creat", "write", "setmode"},
  !.intruder = TRUE, !.replaces = {"yes", "no", "all", "none", "abort"}]

AppendJob == [Plain EXCEPT
  !.failures = {"same", "isdir", "read", "write", "nospace", "seek", "fstat", "remove"},
  !.errors = {"ignore", "retry", "abort"}, !.intruder = TRUE]

MoveJob == [Plain EXCEPT
  !.op = "move", !.failures = {"stat", "rename", "open", "write", "nospace", "remove", "isdir", "same",
                "read"},
  !.replaces = {"yes", "no", "all", "abort"}]

KindsJob == [Plain EXCEPT
  !.kind = Kinds("symlink", "special"), !.inode = [f \in Files |-> 1], !.stable = TRUE,
  !.failures = {"symlink", "mknod", "link", "setmode"}, !.errors = {"ignore", "retry", "abort"},
  !.intruder = TRUE, !.replaces = {"yes", "append", "none"}]

StableJob == [Plain EXCEPT
  !.op = "move", !.kind = Kinds("symlink", "regular"), !.stable = TRUE, !.confirm = FALSE,
  !.failures = {"symlink", "rename", "remove"}, !.follow = TRUE, !.unsupported = {"source"}]

HardlinkJob == [Plain EXCEPT
  !.op = "move", !.files = 3, !.inode = [f \in Files |-> 1],
  !.failures = {"rename", "link", "write"}, !.errors = {"ignore", "abort"},
  !.buttons = {"cont", "abort"}, !.replaces = {"yes", "none"}]

AllocateJob == [Plain EXCEPT
  !.prealloc = TRUE, !.clone = TRUE, !.failures = {"clone", "write"},
  !.buttons = {"cont", "skip"},
  !.replaces = {"yes", "older", "smaller", "size"},
  !.unsupported = {"source", "target"}]

\* Failing attributes, or none at the target; short files are not kept
FlagsJob == [Plain EXCEPT
  !.op = "move", !.failures = {"setflags", "setmode", "rename", "write", "close"},
  !.errors = {"ignore", "ignore_all"}, !.buttons = {"cont"},
  !.replaces = {"yes", "none"}, !.shorts = {"delete", "continue"}]
NoFlagsJob == [FlagsJob EXCEPT !.unsupported = {"target"}]

RegetJob == [Plain EXCEPT
  !.op = "move", !.files = 1, !.failures = {"seek", "open", "creat", "fstat", "read", "rename"},
  !.replaces = {"yes", "append", "reget"}, !.errors = {"ignore", "retry", "abort"},
  !.targets = {1 .. n : n \in 1 .. NChunks}]

SafeJobs == {CopyJob, AppendJob, MoveJob, KindsJob, StableJob, HardlinkJob, AllocateJob, FlagsJob,
             NoFlagsJob, RegetJob}

StaleRegetJobs == {[Plain EXCEPT !.op = "move", !.failures = {"rename"},
                                 !.replaces = {"yes", "reget"},
                                 !.targets = {1 .. n : n \in 1 .. NChunks - 1}]}
AbortJobs == {[Plain EXCEPT !.op = "move", !.failures = {"rename"}, !.unsupported = {"target"}]}
ExistsJobs == {[Plain EXCEPT !.op = "move", !.failures = {"rename"}, !.unsupported = {"source"},
                             !.intruder = TRUE]}
AllocAbortJobs == {[Plain EXCEPT !.prealloc = TRUE, !.replaces = {"yes", "append"}]}
=============================================================================
