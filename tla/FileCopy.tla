------------------------------ MODULE FileCopy ------------------------------
(***************************************************************************)
(* Copying and moving the marked files of a panel:                         *)
(*   panel_operate's loop, move_file_file, copy_file_file,                  *)
(*   check_hardlinks, make_symlink, try_remove_file                         *)
(*                                   (src/filemanager/file.c)               *)
(*   file_progress_real_query_replace, file_progress_check_buttons          *)
(*                                   (src/filemanager/filegui.c)            *)
(*                                                                         *)
(* The code is sequential and long: it goes from label to label, asking    *)
(* the user at every failure, and what it returns decides whether the      *)
(* source of a move is removed.  pc is the label the code stands at.  The  *)
(* answers of the user, the failures of the file system and another        *)
(* program that creates the target in between are the environment.         *)
(*                                                                         *)
(* A file is the set of its chunks.  A target holds any subset of them,    *)
(* and Foreign stands for whatever an existing target held before.         *)
(***************************************************************************)
EXTENDS Integers, FiniteSets

CONSTANTS
  NFiles,   \* files of the largest job
  NChunks,  \* chunks of every source file
  Jobs      \* the operations to look at: options, answers and failures of each

Files == 1 .. NFiles
Chunks == 1 .. NChunks
Foreign == 0

ErrorReplies == {"ignore", "ignore_all", "retry", "abort"}
ReplaceReplies == {"yes", "no", "append", "reget", "all", "older", "smaller", "size", "none", "abort"}

JobType == [
  op : {"copy", "move"},
  files : Files,                 \* marked files, handled in the order 1 .. files
  kind : [Files -> {"regular", "symlink", "special"}],
  inode : [Files -> Files],      \* files with equal values are hard links
  follow : BOOLEAN,              \* ctx->follow_links
  confirm : BOOLEAN,             \* confirm_overwrite, read by move_file_file
  stable : BOOLEAN,              \* ctx->stable_symlinks
  clone : BOOLEAN,               \* the file system clones files (FICLONE)
  prealloc : BOOLEAN,            \* mc_global.vfs.preallocate_space
  unsupported : SUBSET {"source", "target"},   \* sides without ext2 attributes
  failures : SUBSET STRING,      \* the calls that may fail
  intruder : BOOLEAN,            \* another program may create a missing target
  errors : SUBSET ErrorReplies,
  buttons : SUBSET {"cont", "skip", "abort"},
  replaces : SUBSET ReplaceReplies,
  shorts : SUBSET {"delete", "keep", "continue"},
  targets : SUBSET SUBSET ({Foreign} \cup Chunks)  \* what an existing target may hold
]

ASSUME SizesAssumption == NFiles \in Nat \ {0} /\ NChunks \in Nat \ {0}
ASSUME JobsAssumption == Jobs \subseteq JobType

VARIABLES
  job,       \* the operation, chosen once
  pc,        \* the label the code stands at
  cur,       \* the file being handled (0 before the first)
  marked,    \* files still marked in the panel
  \* --- file_op_context_t, which outlives the single file
  ignoreAll, doReget, doAppend,
  replace,   \* ui->replace_result
  linked,    \* linklist: the file whose target stands for the inode, or 0
  \* --- locals of copy_file_file and move_file_file
  status,    \* return_status
  dstStatus, dstExists, attrsOk, appending,
  pos,       \* chunks of the source consumed so far
  \* --- the disk
  source,    \* sources that still exist
  present,   \* targets that exist
  data,      \* contents of the targets
  \* --- history
  answer,    \* [Files -> the replace decision applied to the file, or "unasked"]
  created,   \* targets this operation created itself
  lossy      \* files the user let a chunk be dropped from

panel   == <<job, cur, marked>>
options == <<doReget, doAppend, replace, linked>>
ctx     == <<ignoreAll, options>>
place   == <<dstStatus, dstExists, attrsOk, appending, pos>>
local   == <<status, place>>
disk    == <<source, present, data>>
hist    == <<answer, created, lossy>>
vars    == <<pc, panel, ctx, local, disk, hist>>

Statuses == {"cont", "retry", "skip", "abort", "ignore", "ignore_all"}
DestStatuses == {"none", "short_query", "short_keep", "short_delete", "full"}

Labels == {"next", "mv_start", "mv_stat", "mv_target", "mv_rename", "mv_remove", "mv_ret", "moved",
           "start", "stat_target", "stat_source", "getflags", "ask", "links", "kind", "open",
           "seek", "fstat", "creat", "clone", "fstat_target", "alloc", "begin", "read", "write",
           "progress", "short", "close_source", "close_target", "query", "settle", "setflags",
           "finish", "copied", "end"}

Complete(f) == f \in present /\ Chunks \subseteq data[f]
Size(f) == Cardinality(data[f])
MayFail(call) == call \in job.failures

Init ==
  /\ job \in Jobs
  /\ pc = "next" /\ cur = 0 /\ marked = 1 .. job.files
  /\ ignoreAll = FALSE /\ doReget = -1 /\ doAppend = FALSE
  /\ replace = "yes" /\ linked = [i \in Files |-> 0]
  /\ status = "cont" /\ dstStatus = "none" /\ dstExists = FALSE
  /\ attrsOk = TRUE /\ appending = FALSE /\ pos = 0
  /\ source = 1 .. job.files /\ present \in SUBSET (1 .. job.files)
  /\ data \in [Files -> job.targets \cup {{}}]
  /\ \A f \in Files : IF f \in present THEN data[f] \in job.targets ELSE data[f] = {}
  /\ answer = [f \in Files |-> "unasked"] /\ created = {} /\ lossy = {}

-----------------------------------------------------------------------------
(* The dialogs *)

\* A failing call whose loop ends by itself once ignore_all is set: the status
\* is FILE_IGNORE_ALL then, and the user's answer before.
ReportError(again, giveUp) ==
  /\ status' \in IF ignoreAll THEN {"ignore_all"} ELSE job.errors
  /\ ignoreAll' = (ignoreAll \/ status' = "ignore_all")
  /\ pc' = IF status' = "retry" THEN again ELSE giveUp

\* file_progress_real_query_replace: the dialog is shown again only while the
\* last answer was about one file; every other answer holds for the next files.
Offered == job.replaces \ (IF Size(cur) \in 1 .. NChunks - 1 THEN {} ELSE {"reget"})
ReplaceChoices == IF replace \in {"yes", "no", "append"} THEN Offered ELSE {replace}

Verdicts(r) ==
  CASE r \in {"yes", "all", "append", "reget"} -> {"cont"}
    [] r \in {"no", "none"} -> {"skip"}
    [] r = "abort" -> {"abort"}
    [] r = "older" -> {"cont", "skip"}
    [] r = "smaller" -> IF NChunks > Size(cur) THEN {"cont"} ELSE {"skip"}
    [] r = "size" -> IF NChunks = Size(cur) THEN {"skip"} ELSE {"cont"}

Appends(r) == r \in {"append", "reget"}

QueryReplace(reget, proceed, refuse) ==
  \E r \in ReplaceChoices :
    /\ replace' = r
    /\ status' \in Verdicts(r)
    /\ doReget' = IF r = "reget" THEN Size(cur) ELSE reget
    /\ doAppend' = (doAppend \/ Appends(r))
    /\ answer' = [answer EXCEPT ![cur] = IF status' = "cont" THEN r ELSE "no"]
    /\ pc' = IF status' = "cont" THEN proceed ELSE refuse

CheckSameFile(refuse) ==
  /\ MayFail("same") /\ cur \in present
  /\ status' \in {"skip", "abort"} /\ pc' = refuse

Goto(label) == pc' = label

-----------------------------------------------------------------------------
(* panel_operate *)

NextFile ==
  /\ pc = "next" /\ cur < job.files
  /\ cur' = cur + 1
  /\ Goto(IF job.op = "move" THEN "mv_start" ELSE "start")
  /\ UNCHANGED <<job, marked, ctx, local, disk, hist>>

Unmarks == status = "cont"

\* The loop stops at FILE_ABORT and unmarks the file at FILE_CONT.
FileDone ==
  /\ pc = IF job.op = "move" THEN "moved" ELSE "copied"
  /\ marked' = IF Unmarks THEN marked \ {cur} ELSE marked
  /\ Goto(IF status = "abort" \/ cur = job.files THEN "end" ELSE "next")
  /\ UNCHANGED <<job, cur, ctx, local, disk, hist>>

-----------------------------------------------------------------------------
(* move_file_file *)

MoveStart ==
  /\ pc = "mv_start"
  /\ \E b \in job.buttons :
       /\ status' = IF b = "abort" THEN "abort" ELSE "cont"
       /\ Goto(IF b = "abort" THEN "moved" ELSE "mv_stat")
  /\ UNCHANGED <<panel, ctx, place, disk, hist>>

MoveStatSource ==
  /\ pc = "mv_stat"
  /\ \/ Goto("mv_target") /\ UNCHANGED <<status, ignoreAll>>
     \/ MayFail("stat") /\ ReportError("mv_stat", "mv_ret")
  /\ UNCHANGED <<panel, options, place, disk, hist>>

MoveTarget ==
  /\ pc = "mv_target"
  /\ \/ /\ cur \notin present \/ ~job.confirm
        /\ Goto("mv_rename")
        /\ UNCHANGED <<status, doReget, doAppend, replace, answer>>
     \/ /\ cur \in present /\ job.confirm
        /\ QueryReplace(doReget, "mv_rename", "mv_ret")
     \/ CheckSameFile("mv_ret") /\ UNCHANGED <<doReget, doAppend, replace, answer>>
     \/ /\ MayFail("isdir") /\ cur \notin present
        /\ status' = "skip" /\ Goto("mv_ret")
        /\ UNCHANGED <<doReget, doAppend, replace, answer>>
  /\ UNCHANGED <<panel, ignoreAll, linked, place,
                 disk, created, lossy>>

\* rename() replaces whatever stands at the target.
MoveRename ==
  /\ pc = "mv_rename" /\ ~doAppend
  /\ ~(job.kind[cur] = "symlink" /\ job.stable)
  /\ source' = source \ {cur}
  /\ present' = present \cup {cur}
  /\ data' = [data EXCEPT ![cur] = Chunks]
  /\ created' = created \cup {cur}
  /\ Goto("mv_ret")
  /\ UNCHANGED <<panel, ctx, local, answer, lossy>>

\* Across file systems, or to append: copy and remove.
MoveByCopy ==
  /\ pc = "mv_rename"
  /\ doAppend \/ MayFail("rename")
  /\ doAppend \/ ~(job.kind[cur] = "symlink" /\ job.stable)
  /\ Goto("start")
  /\ UNCHANGED <<panel, ctx, local, disk, hist>>

\* make_symlink as move_file_file calls it for stable symlinks
MoveSymlink ==
  /\ pc = "mv_rename" /\ ~doAppend /\ job.kind[cur] = "symlink" /\ job.stable
  /\ \/ /\ status' = "cont" /\ Goto("mv_remove")
        /\ present' = present \cup {cur}
        /\ data' = [data EXCEPT ![cur] = Chunks]
        /\ created' = created \cup {cur}
        /\ UNCHANGED ignoreAll
     \/ /\ MayFail("symlink") /\ ReportError("mv_rename", "mv_ret")
        /\ UNCHANGED <<present, data, created>>
  /\ UNCHANGED <<panel, options, place, source, answer, lossy>>

CopyNotAborted == status # "abort"  \* mutant: anything but Abort removes the source
CopySucceeded == status = "cont"

MoveCopied ==
  /\ pc = "copied" /\ job.op = "move"
  /\ IF CopySucceeded
       THEN /\ status' \in job.buttons
            /\ Goto(IF status' = "cont" THEN "mv_remove" ELSE "moved")
       ELSE UNCHANGED status /\ Goto("mv_ret")
  /\ UNCHANGED <<panel, ctx, place, disk, hist>>

\* try_remove_file: with ignore_all set a failure counts as success.
MoveRemoveSource ==
  /\ pc = "mv_remove"
  /\ \/ /\ source' = source \ {cur} /\ Goto("mv_ret") /\ UNCHANGED <<status, ignoreAll>>
     \/ /\ MayFail("remove") /\ ignoreAll
        /\ Goto("mv_ret") /\ UNCHANGED <<status, ignoreAll, source>>
     \/ /\ MayFail("remove") /\ ~ignoreAll
        /\ ReportError("mv_remove", "moved") /\ UNCHANGED source
  /\ UNCHANGED <<panel, options, place, present, data, hist>>

ResultOfButtons == job.buttons  \* mutant: the buttons decide even after Abort
MoveResult == IF status = "abort" THEN {"abort"} ELSE job.buttons

MoveReturn ==
  /\ pc = "mv_ret"
  /\ status' \in MoveResult
  /\ Goto("moved")
  /\ UNCHANGED <<panel, ctx, place, disk, hist>>

-----------------------------------------------------------------------------
(* copy_file_file, up to the opening of the target *)

CopyStart ==
  /\ pc = "start"
  /\ doReget' = IF doReget < 0 THEN 0 ELSE doReget
  /\ dstStatus' = "none" /\ dstExists' = FALSE /\ attrsOk' = TRUE
  /\ appending' = FALSE /\ pos' = 0
  /\ \E b \in job.buttons :
       /\ status' = IF b = "abort" THEN "abort" ELSE "retry"
       /\ Goto(IF b = "abort" THEN "copied" ELSE "stat_target")
  /\ UNCHANGED <<panel, ignoreAll, doAppend, replace, linked, disk, hist>>

StatTarget ==
  /\ pc = "stat_target"
  /\ \/ /\ dstExists' = (cur \in present)
        /\ Goto("stat_source") /\ UNCHANGED <<status, ignoreAll>>
     \/ /\ MayFail("isdir") /\ cur \notin present
        /\ ReportError("stat_target", "copied") /\ UNCHANGED dstExists
  /\ UNCHANGED <<panel, options, dstStatus, attrsOk, appending, pos, disk, hist>>

StatSource ==
  /\ pc = "stat_source"
  /\ \/ Goto("getflags") /\ UNCHANGED <<status, ignoreAll>>
     \/ MayFail("stat") /\ ReportError("stat_source", "copied")
  /\ UNCHANGED <<panel, options, place, disk, hist>>

\* "Not supported here" is silent, but leaves FILE_CONT in return_status.
GetFlags ==
  /\ pc = "getflags"
  /\ \/ /\ "source" \notin job.unsupported
        /\ Goto("ask") /\ UNCHANGED <<status, ignoreAll, attrsOk>>
     \/ /\ "source" \in job.unsupported
        /\ status' = "cont" /\ attrsOk' = FALSE
        /\ Goto("ask") /\ UNCHANGED ignoreAll
     \/ /\ "source" \notin job.unsupported /\ MayFail("getflags")
        /\ ReportError("getflags", IF status' = "abort" THEN "copied" ELSE "ask")
        /\ attrsOk' = (status' = "retry")
  /\ UNCHANGED <<panel, options, dstStatus, dstExists, appending, pos, disk, hist>>

\* ctx->ask_overwrite is off when move_file_file, which has asked, is the caller.
AskOverwrite ==
  /\ pc = "ask"
  /\ \/ /\ ~dstExists \/ job.op = "move"
        /\ Goto("links")
        /\ UNCHANGED <<status, doReget, doAppend, replace, answer>>
     \/ /\ dstExists /\ job.op = "copy"
        /\ QueryReplace(0, "links", "copied")
     \/ /\ dstExists /\ CheckSameFile("copied")
        /\ UNCHANGED <<doReget, doAppend, replace, answer>>
  /\ UNCHANGED <<panel, ignoreAll, linked, place,
                 disk, created, lossy>>

\* st_nlink as far as the marked files show it
HasLinks(f) == \E g \in source \ {f} : job.inode[g] = job.inode[f]
Linked == linked[job.inode[cur]]

\* check_hardlinks, where it is called and finds nothing to do, or only
\* remembers the file (HARDLINK_CACHED).
PassLinks ==
  /\ pc = "links"
  /\ doAppend \/ job.follow \/ ~HasLinks(cur) \/ Linked = 0
  /\ linked' = IF ~doAppend /\ ~job.follow /\ HasLinks(cur)
                 THEN [linked EXCEPT ![job.inode[cur]] = cur] ELSE linked
  /\ Goto(IF doAppend THEN "open" ELSE "kind")
  /\ UNCHANGED <<panel, ignoreAll, doReget, doAppend, replace, local, disk, hist>>

\* link(), symlink() and mknod() never replace a target.
TargetFree == cur \notin present

AnyFirstLink == TRUE  \* mutant: the first source is not looked at again
FirstLinkThere == Linked \in source

\* The inode has been seen: link the new target to the target made then.
MakeHardlink ==
  /\ pc = "links" /\ ~doAppend /\ ~job.follow /\ HasLinks(cur) /\ Linked # 0
  /\ FirstLinkThere /\ Linked \in present /\ TargetFree
  /\ present' = present \cup {cur}
  /\ data' = [data EXCEPT ![cur] = data[Linked]]
  /\ created' = created \cup {cur}
  /\ status' = "cont" /\ Goto("copied")
  /\ UNCHANGED <<panel, ctx, place,
                 source, answer, lossy>>

\* HARDLINK_ERROR, HARDLINK_ABORT: the target of the first link is gone, the
\* new target exists, the link fails, or the first source has been replaced
\* (no retry is offered then).  Giving up means an ordinary copy.
LinkFailed ==
  /\ pc = "links" /\ ~doAppend /\ ~job.follow /\ HasLinks(cur) /\ Linked # 0
  /\ Linked \notin source \/ Linked \notin present \/ cur \in present \/ MayFail("link")
  /\ \E a \in IF ignoreAll THEN {"ignore"}
              ELSE job.errors \ (IF Linked \in source THEN {} ELSE {"retry"}) :
       /\ ignoreAll' = (ignoreAll \/ a = "ignore_all")
       /\ status' = IF a = "abort" THEN "abort" ELSE status
       /\ Goto(CASE a = "retry" -> "links" [] a = "abort" -> "copied" [] OTHER -> "kind")
  /\ UNCHANGED <<panel, options, place, disk, hist>>

CopyRegular ==
  /\ pc = "kind" /\ job.kind[cur] = "regular"
  /\ Goto("open")
  /\ UNCHANGED <<panel, ctx, local, disk, hist>>

\* make_symlink, and the ext2 attributes after it, whose dialog writes
\* return_status itself.  A link cannot replace a target that is no link.
CopySymlink ==
  /\ pc = "kind" /\ job.kind[cur] = "symlink"
  /\ \/ /\ TargetFree
        /\ present' = present \cup {cur}
        /\ data' = [data EXCEPT ![cur] = Chunks]
        /\ created' = created \cup {cur}
        /\ status' \in {"cont"} \cup (IF MayFail("setflags") /\ attrsOk /\ ~ignoreAll
                                        THEN job.errors ELSE {})
        /\ Goto("copied") /\ UNCHANGED ignoreAll
     \/ /\ cur \in present \/ MayFail("symlink")
        /\ ReportError("kind", "copied")
        /\ UNCHANGED <<present, data, created>>
  /\ UNCHANGED <<panel, options, place, source, answer, lossy>>

\* mknod, then chown, chmod and attributes.  With ignore_all set the failure of
\* mknod itself goes unnoticed.
CopySpecial ==
  /\ pc = "kind" /\ job.kind[cur] = "special"
  /\ \/ /\ TargetFree
        /\ present' = present \cup {cur}
        /\ data' = [data EXCEPT ![cur] = Chunks]
        /\ created' = created \cup {cur}
        /\ status' \in {"cont"} \cup (IF MayFail("setmode") /\ ~ignoreAll
                                        THEN job.errors \cap {"ignore_all", "abort"} ELSE {})
        /\ ignoreAll' = (ignoreAll \/ status' = "ignore_all")
        /\ Goto("copied")
     \/ /\ cur \in present \/ MayFail("mknod")
        /\ IF ignoreAll THEN status' = "cont" /\ Goto("copied") /\ UNCHANGED ignoreAll
                        ELSE ReportError("kind", "copied")
        /\ UNCHANGED <<present, data, created>>
  /\ UNCHANGED <<panel, options, place, source, answer, lossy>>

-----------------------------------------------------------------------------
(* copy_file_file: opening the two files *)

\* do_append is reset on the way out, but not when ignore_all answers.
GiveUpAppend == doAppend' = (doAppend /\ (ignoreAll \/ status' = "retry"))

OpenSource ==
  /\ pc = "open"
  /\ \/ Goto("seek") /\ UNCHANGED <<status, ignoreAll, doAppend>>
     \/ MayFail("open") /\ ReportError("open", "query") /\ GiveUpAppend
  /\ UNCHANGED <<panel, doReget, replace, linked, place, disk, hist>>

SeekSource ==
  /\ pc = "seek"
  /\ \/ pos' = doReget /\ UNCHANGED <<doReget, doAppend>>
     \/ /\ doReget # 0 /\ MayFail("seek")
        /\ doReget' = 0 /\ doAppend' = FALSE /\ UNCHANGED pos
  /\ Goto("fstat")
  /\ UNCHANGED <<panel, ignoreAll, replace, linked,
                 status, dstStatus, dstExists, attrsOk, appending, disk, hist>>

FstatSource ==
  /\ pc = "fstat"
  /\ \/ Goto("creat") /\ UNCHANGED <<status, ignoreAll, doAppend>>
     \/ MayFail("fstat") /\ ReportError("fstat", "close_source") /\ GiveUpAppend
  /\ UNCHANGED <<panel, doReget, replace, linked, place, disk, hist>>

NotExclusive == TRUE  \* mutant: no O_EXCL
MayOpen == dstExists \/ cur \notin present

Truncates == ~(dstExists /\ doAppend)

\* O_CREAT | O_EXCL for a target that was missing, O_APPEND or
\* O_CREAT | O_TRUNC for one that was there.
OpenTarget ==
  /\ pc = "creat"
  /\ MayOpen
  /\ present' = present \cup {cur}
  /\ data' = IF Truncates THEN [data EXCEPT ![cur] = {}] ELSE data
  /\ created' = IF dstExists THEN created ELSE created \cup {cur}
  /\ dstStatus' = "short_query"
  /\ appending' = doAppend /\ doAppend' = FALSE
  /\ Goto("clone")
  /\ UNCHANGED <<panel, ignoreAll, doReget, replace, linked, status, dstExists, attrsOk, pos,
                 source, answer, lossy>>

\* EEXIST gives up without a word and without touching return_status.
TargetAppeared ==
  /\ pc = "creat" /\ ~dstExists /\ cur \in present
  /\ Goto("close_source")
  /\ UNCHANGED <<panel, ctx, local, disk, hist>>

OpenTargetFailed ==
  /\ pc = "creat" /\ MayFail("creat")
  /\ ReportError("creat", "close_source") /\ GiveUpAppend
  /\ UNCHANGED <<panel, doReget, replace, linked, place, disk, hist>>

\* vfs_clone_file; the kernel refuses it for a file opened with O_APPEND.
CloneFile ==
  /\ pc = "clone"
  /\ \/ /\ job.clone /\ ~(dstExists /\ appending)
        /\ data' = [data EXCEPT ![cur] = Chunks]
        /\ dstStatus' = "full" /\ status' = "cont" /\ Goto("close_source")
     \/ /\ ~job.clone \/ (dstExists /\ appending) \/ MayFail("clone")
        /\ Goto("fstat_target") /\ UNCHANGED <<data, dstStatus, status>>
  /\ UNCHANGED <<panel, ctx, dstExists, attrsOk, appending, pos, source, present, hist>>

FstatTarget ==
  /\ pc = "fstat_target"
  /\ \/ Goto("alloc") /\ UNCHANGED <<status, ignoreAll>>
     \/ MayFail("fstat") /\ ReportError("fstat_target", "close_source")
  /\ UNCHANGED <<panel, options, place, disk, hist>>

\* A failed preallocation is an error like the others, but Abort also removes
\* the target on the spot, appended to or not.
PreallocateTarget ==
  /\ pc = "alloc"
  /\ \/ Goto("begin") /\ UNCHANGED <<status, ignoreAll, dstStatus, present, data>>
     \/ /\ job.prealloc
        /\ \E a \in IF ignoreAll THEN {"ignore_all"} ELSE job.errors :
             /\ status' = IF a \in {"ignore", "ignore_all"} THEN "cont" ELSE a
             /\ ignoreAll' = (ignoreAll \/ a = "ignore_all")
             /\ Goto(CASE a = "retry" -> "alloc" [] a = "abort" -> "close_source"
                       [] OTHER -> "begin")
        /\ IF status' = "abort"
             THEN /\ dstStatus' = "none"
                  /\ present' = present \ {cur}
                  /\ data' = [data EXCEPT ![cur] = {}]
             ELSE UNCHANGED <<dstStatus, present, data>>
  /\ UNCHANGED <<panel, options, dstExists, attrsOk, appending, pos, source, hist>>

-----------------------------------------------------------------------------
(* copy_file_file: the loop *)

BeginLoop ==
  /\ pc = "begin"
  /\ status' \in job.buttons
  /\ Goto(IF status' = "cont" THEN "read" ELSE "close_source")
  /\ UNCHANGED <<panel, ctx, place, disk, hist>>

EndsEarly == pos >= NChunks - 1  \* mutant: off by one
EndOfFile == pos >= NChunks

SkipsOne == pos + 2   \* mutant: a chunk is skipped
StaysThere == pos     \* mutant: the position does not advance
NextPos == pos + 1

ReadChunk ==
  /\ pc = "read"
  /\ IF EndOfFile
       THEN dstStatus' = "full" /\ Goto("close_source") /\ UNCHANGED pos
       ELSE pos' = NextPos /\ Goto("write") /\ UNCHANGED dstStatus
  /\ UNCHANGED <<panel, ctx, status, dstExists, attrsOk, appending, disk, hist>>

\* With ignore_all set a failed read writes nothing and the loop goes round.
ReadFailed ==
  /\ pc = "read" /\ MayFail("read")
  /\ IF ignoreAll THEN Goto("progress") /\ UNCHANGED <<status, ignoreAll>>
                  ELSE ReportError("read", "close_source")
  /\ UNCHANGED <<panel, options, place, disk, hist>>

WriteChunk ==
  /\ pc = "write"
  /\ data' = [data EXCEPT ![cur] = @ \cup {pos}]
  /\ Goto("progress")
  /\ UNCHANGED <<panel, ctx, local, source, present, hist>>

\* Ignore drops the chunk and goes on, unless the disk is full.
WriteFailed ==
  /\ pc = "write"
  /\ \E full \in {c \in {"write", "nospace"} : MayFail(c)} :
       /\ ReportError("write", IF status' = "ignore" /\ full = "write" THEN "progress"
                               ELSE "close_source")
       /\ lossy' = IF pc' = "progress" THEN lossy \cup {cur} ELSE lossy
  /\ UNCHANGED <<panel, options, place, disk, answer, created>>

ShowProgress ==
  /\ pc = "progress"
  /\ status' \in job.buttons
  /\ Goto(IF status' = "cont" THEN "read" ELSE "short")
  /\ UNCHANGED <<panel, ctx, place, disk, hist>>

\* "Incomplete file was retrieved": Delete, Keep or Continue copy
AskShort ==
  /\ pc = "short"
  /\ \E a \in job.shorts :
       /\ dstStatus' = CASE a = "delete" -> "short_delete" [] a = "keep" -> "short_keep"
                         [] a = "continue" -> dstStatus
       /\ Goto(IF a = "continue" THEN "read" ELSE "close_source")
  /\ UNCHANGED <<panel, ctx, status, dstExists, attrsOk, appending, pos, disk, hist>>

-----------------------------------------------------------------------------
(* copy_file_file from ret: on *)

CloseSource ==
  /\ pc = "close_source"
  /\ Goto("close_target")
  /\ \/ UNCHANGED <<status, ignoreAll>>
     \/ /\ MayFail("close") /\ ~ignoreAll
        /\ \E a \in job.errors \ {"retry"} :
             /\ status' = IF a = "abort" THEN a ELSE status
             /\ ignoreAll' = (a = "ignore_all")
  /\ UNCHANGED <<panel, options, place, disk, hist>>

\* The target is open unless dst_status says that it was never created.
CloseTarget ==
  /\ pc = "close_target"
  /\ Goto("query")
  /\ \/ UNCHANGED <<status, ignoreAll>>
     \/ /\ MayFail("close") /\ ~ignoreAll /\ dstStatus # "none"
        /\ status' \in job.errors \ {"retry"}
        /\ ignoreAll' = (status' = "ignore_all")
  /\ UNCHANGED <<panel, options, place, disk, hist>>

\* "Incomplete file was retrieved": Delete or Keep
QueryShort ==
  /\ pc = "query"
  /\ dstStatus' \in IF dstStatus # "short_query" THEN {dstStatus}
                    ELSE {d \in {"short_delete", "short_keep"} :
                            \E a \in job.shorts : d = "short_delete" <=> a = "delete"}
  /\ Goto("settle")
  /\ UNCHANGED <<panel, ctx, status, dstExists, attrsOk, appending, pos, disk, hist>>

\* The short target is removed, the full one gets its owner and mode.
Settle ==
  /\ pc = "settle"
  /\ \/ /\ dstStatus = "short_delete"
        /\ present' = present \ {cur} /\ data' = [data EXCEPT ![cur] = {}]
        /\ Goto("setflags") /\ UNCHANGED <<status, ignoreAll>>
     \/ /\ dstStatus # "short_delete"
        /\ Goto("setflags") /\ UNCHANGED <<present, data, status, ignoreAll>>
     \/ /\ dstStatus = "full" /\ ~appending /\ MayFail("setmode") /\ ~ignoreAll
        /\ \E a \in job.errors \ {"retry"} :
             /\ status' = IF a = "abort" THEN a ELSE "cont"
             /\ ignoreAll' = (a = "ignore_all")
             /\ Goto(IF a = "abort" THEN "copied" ELSE "setflags")
        /\ UNCHANGED <<present, data>>
  /\ UNCHANGED <<panel, options, place, source, hist>>

\* fsetflags is tried for what stays at the target, and fails.
FlagsFail == attrsOk /\ ~ignoreAll /\ dstStatus \in {"full", "short_keep"}

\* Both "attributes are not supported" and Ignore put FILE_CONT in
\* return_status, whatever it was.
SetFlags ==
  /\ pc = "setflags"
  /\ Goto("finish")
  /\ \/ /\ ~(FlagsFail /\ "target" \in job.unsupported)
        /\ UNCHANGED <<status, ignoreAll>>
     \/ /\ FlagsFail /\ "target" \in job.unsupported
        /\ status' = "cont" /\ UNCHANGED ignoreAll
     \/ /\ FlagsFail /\ "target" \notin job.unsupported /\ MayFail("setflags")
        /\ \E a \in job.errors \ {"retry"} :
             /\ status' = IF a = "abort" THEN a ELSE "cont"
             /\ ignoreAll' = (a = "ignore_all")
  /\ UNCHANGED <<panel, options, place, disk, hist>>

CopyFinish ==
  /\ pc = "finish"
  /\ status' \in IF status = "cont" THEN job.buttons ELSE {status}
  /\ Goto("copied")
  /\ UNCHANGED <<panel, ctx, place, disk, hist>>

-----------------------------------------------------------------------------
(* The other program, and the end *)

CreateMeanwhile(f) ==
  /\ job.intruder /\ pc # "end" /\ f \in cur .. job.files /\ f \notin present
  /\ present' = present \cup {f}
  /\ data' = [data EXCEPT ![f] = {Foreign}]
  /\ UNCHANGED <<pc, panel, ctx, local, source, hist>>

Finished == pc = "end" /\ UNCHANGED vars

Panel == NextFile \/ FileDone
Move == \/ MoveStart \/ MoveStatSource \/ MoveTarget \/ MoveRename \/ MoveByCopy \/ MoveSymlink
        \/ MoveCopied \/ MoveRemoveSource \/ MoveReturn
Prepare == \/ CopyStart \/ StatTarget \/ StatSource \/ GetFlags \/ AskOverwrite
           \/ PassLinks \/ MakeHardlink \/ LinkFailed \/ CopyRegular \/ CopySymlink \/ CopySpecial
Open == \/ OpenSource \/ SeekSource \/ FstatSource \/ OpenTarget \/ TargetAppeared
        \/ OpenTargetFailed \/ CloneFile \/ FstatTarget \/ PreallocateTarget
Loop == BeginLoop \/ ReadChunk \/ ReadFailed \/ WriteChunk \/ WriteFailed \/ ShowProgress \/ AskShort
Leave == CloseSource \/ CloseTarget \/ QueryShort \/ Settle \/ SetFlags \/ CopyFinish

Step == Panel \/ Move \/ Prepare \/ Open \/ Loop \/ Leave
Next == Step \/ Finished \/ \E f \in Files : CreateMeanwhile(f)

Spec == Init /\ [][Next]_vars

\* The program goes on, the user does not retry for ever, and a file that can be
\* read again and again cannot fail each time: with ignore_all set the loop
\* would go round a read error for ever.
FairSpec == Spec /\ WF_vars(Step) /\ SF_vars(ReadChunk)

-----------------------------------------------------------------------------
(* Properties *)

ControlOK ==
  /\ pc \in Labels /\ cur \in 0 .. NFiles /\ marked \subseteq Files
  /\ doReget \in Int /\ replace \in ReplaceReplies /\ linked \in [Files -> 0 .. NFiles]
  /\ status \in Statuses /\ dstStatus \in DestStatuses /\ pos \in Int
FlagsOK ==
  /\ ignoreAll \in BOOLEAN /\ doAppend \in BOOLEAN
  /\ dstExists \in BOOLEAN /\ attrsOk \in BOOLEAN /\ appending \in BOOLEAN
DiskOK ==
  /\ source \subseteq Files /\ present \subseteq Files
  /\ data \in [Files -> SUBSET ({Foreign} \cup Chunks)]
  /\ answer \in [Files -> ReplaceReplies \cup {"unasked"}]
  /\ created \subseteq Files /\ lossy \subseteq Files

\* The state stays within its types; no chunk is written that no source has.
TypeOK == job \in JobType /\ ControlOK /\ FlagsOK /\ DiskOK

\* What the source of f held can still be found: in its target, in an earlier
\* link to the same inode that was left in place, or the user has let it go
\* by ignoring a write error.
Survives(f) ==
  \/ Complete(f)
  \/ f \in lossy
  \/ \E g \in source : g < f /\ job.inode[g] = job.inode[f]

\* move_file_file removes a source only after its whole content has arrived,
\* whatever fails, is ignored, skipped, kept or aborted on the way.
SafeRemoval == \A f \in (1 .. job.files) \ source : Survives(f)

\* DEST_FULL means "Created, fully copied": a regular file the code regards as
\* fully copied holds every chunk the user did not agree to drop.
FullMeansComplete ==
  dstStatus = "full" /\ pc \in {"close_source", "close_target", "query", "settle", "setflags",
                                "finish"}
    => Complete(cur) \/ cur \in lossy

\* A target the operation did not create is touched only after the replace
\* dialog (or an earlier answer for all files) said so: nothing another program
\* creates between the check and the open is lost.
ForeignTargetUntouched ==
  [][job.confirm => \A f \in present \ created :
       (f \in present' /\ data'[f] = data[f]) \/ answer[f] \notin {"unasked", "no"}]_vars

\* Append and Reget keep what the target held until the user asks for its
\* deletion: violated by AllocAbortJobs, an Abort at a failed preallocation unlinks
\* the target (file.c:2682).
AppendKeepsOld ==
  [][\A f \in Files :
       answer[f] \in {"append", "reget"} /\ Foreign \in data[f]
         => Foreign \in data'[f] \/ dstStatus = "short_delete"]_vars

\* An Abort is withdrawn only by "Continue copy", while the loop goes on or after
\* it has copied the rest: no later failure, ignored or silent, turns the abort
\* of a file into something the callers go on after.
AbortSticks ==
  [][status = "abort" /\ status' # "abort"
       => pc \in {"read", "write", "progress"} \/ dstStatus = "full"]_vars

\* Every file operation comes to its end.
Terminates == <>(pc = "end")
=============================================================================
