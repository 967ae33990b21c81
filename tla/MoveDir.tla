------------------------------ MODULE MoveDir ------------------------------
(***************************************************************************)
(* Copying, moving and deleting the marked directories of a panel:         *)
(*   copy_dir_dir, do_move_dir_dir, erase_dir_after_copy,                  *)
(*   erase_dir_iff_empty, recursive_erase, erase_dir, erase_file           *)
(*                                   (src/filemanager/file.c)              *)
(*                                                                         *)
(* copy_dir_dir and recursive_erase call themselves: a frame of stack is   *)
(* one such call.  A file or a directory is its path below the panel, a    *)
(* sequence of names; what is copied appears in target under the same      *)
(* path (below one more name when the copy dives into a directory).        *)
(*                                                                         *)
(* copy_file_file is one step here, with the promise the module FileCopy   *)
(* is about: FILE_CONT is returned only when the content has arrived.      *)
(* A loop that repeats a call until the user stops saying Retry is one     *)
(* step as well; what it leaves in return_status is kept.                  *)
(***************************************************************************)
EXTENDS Integers, Sequences, SequencesExt, FiniteSets

CONSTANTS
  Names,     \* names of files and directories
  Late,      \* the name of a file another program creates meanwhile
  Copied,    \* the name under which the target is seen inside the source
  Jobs,      \* the operations to look at
  MaxDepth   \* nesting no job reaches

Answers == {"ignore", "ignore_all", "retry", "abort"}
Buttons == {"cont", "skip", "abort"}
Statuses == Answers \cup Buttons

JobType == [
  op : {"copy", "move", "delete"},
  tops : Seq(Names),               \* the marked directories, in panel order
  dirs : SUBSET Names,
  kids : [Names -> Seq(Names)],    \* entries in the order of readdir
  inode : [Names -> Names],        \* a link that is followed has that of its directory
  tree : SUBSET Seq(Names),        \* what exists at the start
  dest : {"absent", "dir", "file", "inner", "same"},  \* what the target name is;
                                   \* "inner": a directory with an entry of that name,
                                   \* "same": the directory to be moved
  dive : BOOLEAN,                  \* ctx->dive_into_subdirs
  inside : SUBSET Names,           \* the directory of the source that holds the target
  cross : BOOLEAN,                 \* the target is on another file system
  late : BOOLEAN,                  \* another program creates a file in the source
  failures : SUBSET STRING,        \* calls that may fail
  errors : SUBSET Answers,
  buttons : SUBSET Buttons,
  recursive : SUBSET {"yes", "no", "all", "none", "abort"}
]

\* The marks are on directories, what exists has a path through directories that
\* list it, and what the directories of a move or a delete list is there (a copy
\* follows links).
WellFormed(j) ==
  /\ j.tops # <<>> /\ ToSet(j.tops) \subseteq j.dirs /\ (j.dest = "same" => j.op = "move")
  /\ IsFiniteSet(j.tree) /\ \A p \in j.tree : p # <<>> /\ Copied \notin Range(p)
  /\ \A p \in j.tree : \A i \in 1 .. Len(p) - 1 :
       p[i] \in j.dirs /\ p[i + 1] \in Range(j.kids[j.inode[p[i]]])
  /\ j.op # "copy" => \A p \in j.tree : Last(p) \in j.dirs =>
                        \A n \in Range(j.kids[j.inode[Last(p)]]) : Append(p, n) \in j.tree

ASSUME NamesAssumption == {Late, Copied} \subseteq Names /\ Late # Copied /\ MaxDepth \in Nat
ASSUME JobsAssumption == \A j \in Jobs : j \in JobType /\ WellFormed(j)

VARIABLES
  job, pc,
  cur,        \* position in job.tops
  marked,     \* directories still marked
  stack,      \* calls of copy_dir_dir or recursive_erase, innermost last
  call,       \* the directory the next call is about, and its return_status so far
  val,        \* the value the last call returned
  ignoreAll,  \* ctx->ignore_all
  recursive,  \* ctx->recursive_result
  eraseList,  \* erase_list: what has been copied and is to be removed
  destDirs,   \* dest_dirs: directories this operation created
  source, target,  \* the disk: paths that exist; a file only when it is whole
  \* --- history
  asked,      \* marked directories during which the user saw a dialog
  aborted,    \* the user said Abort
  confirmed,  \* marked directories the user let go with all they contain
  added       \* what the other program has created

work == <<stack, call, val>>
ctx  == <<ignoreAll, recursive, eraseList, destDirs>>
disk == <<source, target>>
hist == <<asked, aborted, confirmed, added>>
vars == <<job, pc, cur, marked, work, ctx, disk, hist>>

Top == job.tops[cur]
TopLevel == stack = <<>>
Here == Last(stack)
MayFail(name) == name \in job.failures
Single == Len(job.tops) = 1

\* The target is one name deeper when it dives into an existing directory.
Dived == job.dive /\ job.dest \in {"dir", "inner"}
TargetOf(p) == (IF Dived THEN <<p[1], p[1]>> ELSE <<p[1]>>) \o Tail(p)

\* A source path through Copied is a place in the target.
ThroughCopy(p) == Copied \in Range(p)
AsTarget(p) ==
  TargetOf(<<Top>>) \o SubSeq(p, 1 + SelectInSeq(p, LAMBDA n : n = Copied), Len(p))
Inode(p) == IF ThroughCopy(p) THEN <<"target", AsTarget(p)>> ELSE <<"source", job.inode[Last(p)]>>

IsDirectory(p) == Last(p) \in job.dirs \cup {Copied}
Under(p) == {q \in source : IsPrefix(p, q)}
IsEmpty(p) == Under(p) \subseteq {p}

\* What readdir delivers, "." and ".." left out.
Listing(p) ==
  IF ThroughCopy(p)
  THEN SetToSeq({Last(t) : t \in {u \in target : Front(u) = AsTarget(p)}})
  ELSE job.kids[job.inode[Last(p)]]
       \o (IF Last(p) \in job.inside /\ TargetOf(<<Top>>) \in target THEN <<Copied>> ELSE <<>>)
       \o (IF Append(p, Late) \in source THEN <<Late>> ELSE <<>>)

NoCall == [from |-> <<>>, over |-> FALSE, status |-> "cont"]
CallOn(p, over) == [from |-> p, over |-> over, status |-> "cont"]

Init ==
  /\ job \in Jobs
  /\ pc = "next" /\ cur = 0 /\ marked = ToSet(job.tops)
  /\ stack = <<>> /\ call = NoCall /\ val = "cont"
  /\ ignoreAll = FALSE /\ recursive = "yes" /\ eraseList = <<>> /\ destDirs = {}
  /\ source = job.tree
  /\ target = (IF job.dest \in {"dir", "inner"} THEN {<<t>> : t \in ToSet(job.tops)} ELSE {})
              \cup (IF job.dest = "inner" THEN {<<t, t>> : t \in ToSet(job.tops)} ELSE {})
  /\ asked = {} /\ aborted = FALSE /\ confirmed = {} /\ added = {}

-----------------------------------------------------------------------------
(* Calls that may fail, and the dialogs about them *)

Outcome(ok, status, ask) == [ok |-> ok, status |-> status, ask |-> ask]

\* file_error asks unless ignore_all is set; silent is the status it leaves then.
Fails(silent) ==
  IF ignoreAll THEN {Outcome(FALSE, silent, FALSE)}
  ELSE {Outcome(FALSE, r, TRUE) : r \in job.errors \ {"retry"}}

\* A success after Retry leaves FILE_RETRY behind.
Attempt(name, status, silent) ==
  {Outcome(TRUE, status, FALSE)}
  \cup (IF MayFail(name) THEN Fails(silent) ELSE {})
  \cup (IF MayFail(name) /\ ~ignoreAll /\ "retry" \in job.errors
        THEN {Outcome(TRUE, "retry", TRUE)} ELSE {})

\* file_progress_check_buttons
Pressed == {Outcome(b = "cont", b, b # "cont") : b \in job.buttons}

Notice(o) ==
  /\ ignoreAll' = (ignoreAll \/ o.status = "ignore_all")
  /\ asked' = IF o.ask THEN asked \cup {Top} ELSE asked

Report(o) ==
  /\ Notice(o)
  /\ aborted' = (aborted \/ (o.ask /\ o.status = "abort"))

Goto(label) == pc' = label
KeepHist == UNCHANGED <<asked, aborted, confirmed, added>>

\* A call returns a status to the frame below it, or to the marked directory.
Give(status, frames) ==
  IF frames = <<>>
  THEN /\ val' = status /\ stack' = <<>>
       /\ Goto(IF job.op = "move" THEN "moved" ELSE "done")
  ELSE /\ stack' = [frames EXCEPT ![Len(frames)].status = status] /\ val' = val
       /\ Goto(IF job.op = "delete" THEN "wipe" ELSE "entry")

Push(p, status) ==
  /\ stack' = Append(stack, [from |-> p, todo |-> Listing(p), entry |-> p, status |-> status])
  /\ Goto(IF job.op = "delete" THEN "wipe" ELSE "read")

Finish(status) == val' = status /\ Goto("done")

-----------------------------------------------------------------------------
(* Removing one file or one empty directory *)

\* try_erase_dir: an ignored failure leaves FILE_CONT.
RemoveDir(p) == IF IsEmpty(p) THEN Attempt("rmdir", "cont", "cont") ELSE Fails("cont")

\* erase_file: only Abort is passed on when the file could not be removed.
EraseFile(p) ==
  LET stopped == {o \in Pressed : o.status = "abort"}
      removed == Attempt("unlink", "cont", "cont")
  IN  stopped
      \cup {o \in removed : o.status = "abort"}
      \cup {Outcome(o.ok, b.status, o.ask \/ b.ask) :
              o \in {r \in removed : r.status # "abort"}, b \in Pressed}

\* erase_dir_iff_empty, check_dir_is_empty
EraseIffEmpty(p) ==
  LET opened == IF p \in source THEN Attempt("opendir", "cont", "ignore_all") ELSE Fails("ignore_all")
  IN  {o \in Pressed : o.status = "abort"}
      \cup {o \in opened : ~o.ok}
      \cup (IF \E o \in opened : o.ok
            THEN IF IsEmpty(p) THEN RemoveDir(p) ELSE {Outcome(FALSE, "cont", FALSE)}
            ELSE {})

Erase(p, o) == source' = IF o.ok THEN source \ {p} ELSE source

-----------------------------------------------------------------------------
(* copy_dir_dir *)

StatDir ==
  /\ pc = "enter"
  /\ \E o \in Attempt("stat", "cont", "ignore_all") :
       /\ Report(o)
       /\ IF o.ok THEN call' = [call EXCEPT !.status = o.status] /\ Goto("flags")
                       /\ UNCHANGED <<stack, val>>
          ELSE Give(o.status, stack) /\ call' = NoCall
  /\ UNCHANGED <<job, cur, marked, recursive, eraseList, destDirs, disk, confirmed, added>>

\* Attributes that cannot be read do not stop the copy, unless the user does.
GetFlags ==
  /\ pc = "flags"
  /\ \E o \in Attempt("getflags", call.status, "ignore_all") :
       /\ Report(o)
       /\ IF o.status = "abort" THEN Give("abort", stack) /\ call' = NoCall
          ELSE call' = [call EXCEPT !.status = o.status] /\ Goto("cycles") /\ UNCHANGED <<stack, val>>
  /\ UNCHANGED <<job, cur, marked, recursive, eraseList, destDirs, disk, confirmed, added>>

NotLooking(p) == FALSE  \* mutant: dest_dirs is not asked
AnyTarget(p) == TargetOf(p) \in target  \* mutant: whatever exists counts as created
IsCopy(p) == ThroughCopy(p) /\ AsTarget(p) \in destDirs
IsParent(p) == \E i \in DOMAIN stack : Inode(stack[i].from) = Inode(p)

\* A directory this operation has created is passed over in silence, a link to
\* a directory being copied with a message.
CheckCycles ==
  /\ pc = "cycles"
  /\ \/ /\ IsCopy(call.from)
        /\ Give("cont", stack) /\ call' = NoCall /\ UNCHANGED asked
     \/ /\ ~IsCopy(call.from) /\ IsParent(call.from)
        /\ Give("skip", stack) /\ call' = NoCall /\ asked' = asked \cup {Top}
     \/ /\ ~IsCopy(call.from) /\ ~IsParent(call.from) /\ Len(stack) < MaxDepth
        /\ Goto("mkdir") /\ UNCHANGED <<stack, val, call, asked>>
  /\ UNCHANGED <<job, cur, marked, ctx, disk, aborted, confirmed, added>>

NeedsMkdir(to) == to \notin target \/ (TopLevel /\ job.op = "copy" /\ Dived)

Mkdir(to) == IF to \in target THEN Fails("ignore_all") ELSE Attempt("mkdir", call.status, "ignore_all")

MakeDir ==
  /\ pc = "mkdir"
  /\ ~(TopLevel /\ job.dest = "file")
  /\ LET to == TargetOf(call.from) IN
     \/ /\ ~NeedsMkdir(to)
        /\ Goto("own") /\ UNCHANGED <<work, ignoreAll, destDirs, target, asked, aborted>>
     \/ /\ NeedsMkdir(to)
        /\ \E o \in Mkdir(to) :
             /\ Report(o)
             /\ IF o.ok
                THEN /\ target' = target \cup {to} /\ destDirs' = destDirs \cup {to}
                     /\ call' = [call EXCEPT !.status = o.status]
                     /\ Goto("own") /\ UNCHANGED <<stack, val>>
                ELSE Give(o.status, stack) /\ call' = NoCall /\ UNCHANGED <<target, destDirs>>
  /\ UNCHANGED <<job, cur, marked, recursive, eraseList, source, confirmed, added>>

\* The name of the target belongs to a file.
TargetIsFile ==
  /\ pc = "mkdir" /\ TopLevel /\ job.dest = "file"
  /\ \E o \in Fails("ignore_all") : Report(o) /\ Give(o.status, stack)
  /\ call' = NoCall
  /\ UNCHANGED <<job, cur, marked, recursive, eraseList, destDirs, disk, confirmed, added>>

RenameTree(p) ==
  /\ source' = source \ Under(p)
  /\ target' = target \cup {TargetOf(q) : q \in Under(p)}

\* The directory to be merged with has gone: a rename does it all.
TargetVanished ==
  /\ pc = "mkdir" /\ call.over /\ TopLevel /\ job.dest = "dir" /\ MayFail("vanish")
  /\ RenameTree(call.from) /\ Give("cont", stack) /\ call' = NoCall
  /\ UNCHANGED <<job, cur, marked, ctx, hist>>

OwnDir ==
  /\ pc = "own"
  /\ \E o \in Attempt("chown", call.status, "ignore_all") :
       /\ Report(o)
       /\ IF o.ok THEN call' = [call EXCEPT !.status = o.status] /\ Goto("opendir")
                       /\ UNCHANGED <<stack, val>>
          ELSE Give(o.status, stack) /\ call' = NoCall
  /\ UNCHANGED <<job, cur, marked, recursive, eraseList, destDirs, disk, confirmed, added>>

\* A directory that cannot be read is left without a word.
OpenDir ==
  /\ pc = "opendir"
  /\ \/ Push(call.from, call.status) /\ UNCHANGED val
     \/ MayFail("read") /\ Give(call.status, stack)
  /\ call' = NoCall
  /\ UNCHANGED <<job, cur, marked, ctx, disk, hist>>

\* What copy_file_file returns, and whether the content has arrived.  After an
\* answer for all targets that exist ("standing") it skips without a question.
CopyResults ==
  {Outcome(TRUE, "cont", FALSE)}
  \cup (IF MayFail("standing")
        THEN [ok : BOOLEAN, ask : {FALSE}, status : {"skip", "retry"}] ELSE {})
  \cup (IF MayFail("copy")
        THEN [ok : BOOLEAN, ask : {~ignoreAll},
              status : IF ignoreAll THEN {"ignore_all"} ELSE (job.errors \ {"retry"}) \cup {"skip"}]
        ELSE {})

ReadEntry ==
  /\ pc = "read"
  /\ Here.status # "abort" /\ Here.todo # <<>>
  /\ LET p == Append(Here.from, Head(Here.todo))
         frame == [Here EXCEPT !.todo = Tail(@), !.entry = p]
         at == Len(stack)
     IN
     \/ /\ IsDirectory(p)
        /\ stack' = [stack EXCEPT ![at] = frame]
        /\ call' = CallOn(p, FALSE) /\ Goto("enter")
        /\ UNCHANGED <<ignoreAll, target, asked, aborted>>
     \/ /\ ~IsDirectory(p)
        /\ \E o \in CopyResults :
             /\ Report(o)
             /\ target' = IF o.ok THEN target \cup {TargetOf(p)} ELSE target
             /\ stack' = [stack EXCEPT ![at] = [frame EXCEPT !.status = o.status]]
        /\ Goto("entry") /\ UNCHANGED call
  /\ UNCHANGED <<job, cur, marked, val, recursive, eraseList, destDirs, source, confirmed, added>>

MayGoLate(status) == status # "abort"  \* mutant: skipped entries are erased, too
MayGo(status) == status = "cont"

\* A move lists what has been copied, to erase it at the end.
EntryDone ==
  /\ pc = "entry"
  /\ eraseList' = IF job.op = "move" /\ MayGo(Here.status)
                  THEN Append(eraseList, Here.entry) ELSE eraseList
  /\ Goto("read")
  /\ UNCHANGED <<job, cur, marked, work, ignoreAll, recursive, destDirs, disk, hist>>

ReadDone ==
  /\ pc = "read"
  /\ Here.status = "abort" \/ Here.todo = <<>>
  /\ Give(Here.status, Front(stack))
  /\ UNCHANGED <<job, cur, marked, call, ctx, disk, hist>>

-----------------------------------------------------------------------------
(* do_move_dir_dir *)

\* The target is the directory itself, or has an entry of that name, or is a
\* file, below which nothing can be renamed (ENOTDIR).
IsRefused == job.dest = "same" \/ (job.dest \in {"inner", "file"} /\ job.dive)
Refused ==
  IF job.dest = "same" THEN {Outcome(FALSE, s, TRUE) : s \in {"skip", "abort"}}
  ELSE Fails(IF job.dest = "inner" THEN "ignore_all" ELSE "cont")

MoveTop ==
  /\ pc = "move"
  /\ \/ /\ Single /\ "abort" \in job.buttons
        /\ Report(Outcome(FALSE, "abort", TRUE)) /\ Finish("abort")
        /\ UNCHANGED <<call, disk>>
     \/ /\ job.dest \notin {"absent", "same"} /\ ~job.dive
        /\ call' = CallOn(<<Top>>, TRUE) /\ Goto("enter")
        /\ UNCHANGED <<val, ignoreAll, disk, asked, aborted>>
     \/ /\ IsRefused
        /\ \E o \in Refused : Report(o) /\ Finish(o.status)
        /\ UNCHANGED <<call, disk>>
     \/ /\ job.dest = "absent" \/ (job.dest = "dir" /\ job.dive)
        /\ ~job.cross
        /\ \E o \in Attempt("rename", "cont", "cont") :
             /\ Report(o)
             /\ IF o.ok THEN RenameTree(<<Top>>) /\ Finish("cont")
                ELSE Finish(o.status) /\ UNCHANGED disk
        /\ UNCHANGED call
     \/ /\ job.dest = "absent" \/ (job.dest = "dir" /\ job.dive)
        /\ job.cross
        /\ call' = CallOn(<<Top>>, FALSE) /\ Goto("enter")
        /\ UNCHANGED <<val, ignoreAll, disk, asked, aborted>>
  /\ UNCHANGED <<job, cur, marked, stack, recursive, eraseList, destDirs, confirmed, added>>

KeepsList == eraseList  \* mutant: the list survives a directory that failed
DropsList == <<>>

\* oktoret: the list is dropped unless the last entry went well.
CopiedTop ==
  /\ pc = "moved"
  /\ \/ /\ val # "cont"
        /\ Goto("done") /\ eraseList' = DropsList
        /\ UNCHANGED <<val, ignoreAll, asked, aborted>>
     \/ /\ val = "cont"
        /\ \E o \in IF Single THEN {Outcome(TRUE, "cont", FALSE)} ELSE Pressed :
             /\ Report(o) /\ val' = o.status
             /\ IF o.ok THEN Goto("drain") /\ UNCHANGED eraseList
                ELSE Goto("done") /\ eraseList' = DropsList
  /\ UNCHANGED <<job, cur, marked, stack, call, recursive, destDirs, disk, confirmed, added>>

EraseListed ==
  /\ pc = "drain" /\ eraseList # <<>> /\ val # "abort"
  /\ LET p == Head(eraseList) IN
       \E o \in IF IsDirectory(p) THEN EraseIffEmpty(p) ELSE EraseFile(p) :
         Report(o) /\ Erase(p, o) /\ val' = o.status
  /\ eraseList' = Tail(eraseList)
  /\ UNCHANGED <<job, pc, cur, marked, stack, call, recursive, destDirs, target, confirmed, added>>

\* What erase_dir_iff_empty says of the directory itself is not looked at.
EraseTop ==
  /\ pc = "drain" /\ (eraseList = <<>> \/ val = "abort")
  /\ \E o \in EraseIffEmpty(<<Top>>) : Notice(o) /\ Erase(<<Top>>, o)
  /\ eraseList' = <<>> /\ Goto("done")
  /\ UNCHANGED <<job, cur, marked, work, recursive, destDirs, target, aborted, confirmed, added>>

-----------------------------------------------------------------------------
(* erase_dir and recursive_erase *)

DeleteTop ==
  /\ pc = "delete"
  /\ \/ /\ \E o \in EraseIffEmpty(<<Top>>) : Report(o) /\ Erase(<<Top>>, o) /\ Finish(o.status)
        /\ IsEmpty(<<Top>>)
     \/ /\ ~IsEmpty(<<Top>>)
        /\ \/ \E o \in {o \in EraseIffEmpty(<<Top>>) : o.status # "cont"} : Report(o) /\ Finish(o.status)
           \/ Goto("query") /\ UNCHANGED <<val, ignoreAll, asked, aborted>>
        /\ UNCHANGED source
  /\ UNCHANGED <<job, cur, marked, stack, call, recursive, eraseList, destDirs, target, confirmed, added>>

\* real_query_recursive: All and None answer for the next directories.
AsksAgain == recursive \in {"yes", "no"}
QueryRecursive ==
  /\ pc = "query"
  /\ recursive' \in IF AsksAgain THEN job.recursive ELSE {recursive}
  /\ aborted' = (recursive' = "abort")
  /\ \/ /\ recursive' \in {"yes", "all"}
        /\ confirmed' = confirmed \cup {Top}
        /\ call' = CallOn(<<Top>>, FALSE) /\ Goto("wipe_enter") /\ UNCHANGED <<val, asked>>
     \/ /\ recursive' \notin {"yes", "all"}
        /\ Finish(IF recursive' = "abort" THEN "abort" ELSE "skip")
        /\ asked' = IF recursive = "none" THEN asked ELSE asked \cup {Top}
        /\ UNCHANGED <<call, confirmed>>
  /\ UNCHANGED <<job, cur, marked, stack, ignoreAll, eraseList, destDirs, disk, added>>

\* A directory that cannot be read, or an entry that cannot be looked at, ends the
\* call without a word; the one below goes on.
WipeEnter ==
  /\ pc = "wipe_enter"
  /\ \/ Len(stack) < MaxDepth /\ Push(call.from, "cont") /\ UNCHANGED val
     \/ MayFail("read") /\ Give("retry", stack)
  /\ call' = NoCall
  /\ UNCHANGED <<job, cur, marked, ctx, disk, hist>>

WipeEntry ==
  /\ pc = "wipe" /\ Here.status # "abort" /\ Here.todo # <<>>
  /\ LET p == Append(Here.from, Head(Here.todo))
         frame == [Here EXCEPT !.todo = Tail(@), !.entry = p]
         at == Len(stack)
     IN
     \/ /\ MayFail("lstat")
        /\ Give("retry", Front(stack))
        /\ UNCHANGED <<call, ignoreAll, source, asked, aborted>>
     \/ /\ IsDirectory(p)
        /\ stack' = [stack EXCEPT ![at] = frame]
        /\ call' = CallOn(p, FALSE) /\ Goto("wipe_enter")
        /\ UNCHANGED <<val, ignoreAll, source, asked, aborted>>
     \/ /\ ~IsDirectory(p)
        /\ \E o \in EraseFile(p) :
             /\ Report(o) /\ Erase(p, o)
             /\ stack' = [stack EXCEPT ![at] = [frame EXCEPT !.status = o.status]]
        /\ UNCHANGED <<pc, val, call>>
  /\ UNCHANGED <<job, cur, marked, recursive, eraseList, destDirs, target, confirmed, added>>

WipeDone ==
  /\ pc = "wipe" /\ (Here.status = "abort" \/ Here.todo = <<>>)
  /\ \/ /\ Here.status = "abort"
        /\ Give("abort", Front(stack))
        /\ UNCHANGED <<ignoreAll, source, asked, aborted>>
     \/ /\ Here.status # "abort"
        /\ \E o \in {b \in Pressed : b.status = "abort"} \cup RemoveDir(Here.from) :
             Report(o) /\ Erase(Here.from, o) /\ Give(o.status, Front(stack))
  /\ UNCHANGED <<job, cur, marked, call, recursive, eraseList, destDirs, target, confirmed, added>>

-----------------------------------------------------------------------------
(* panel_operate, operate_one_file *)

NextTop ==
  /\ pc = "next"
  /\ cur' = cur + 1
  /\ call' = IF job.op = "copy" THEN CallOn(<<job.tops[cur']>>, FALSE) ELSE call
  /\ Goto(IF job.op = "copy" THEN "enter" ELSE job.op)
  /\ UNCHANGED <<job, marked, stack, val, ctx, disk, hist>>

GoesOn == FALSE  \* mutant: the loop does not look for Abort
LeavesLoop == val = "abort"

TopDone ==
  /\ pc = "done"
  /\ marked' = IF val = "cont" THEN marked \ {Top} ELSE marked
  /\ destDirs' = IF job.op = "copy" THEN {} ELSE destDirs
  /\ Goto(IF LeavesLoop \/ cur = Len(job.tops) THEN "end" ELSE "next")
  /\ UNCHANGED <<job, cur, work, ignoreAll, recursive, eraseList, disk, hist>>

-----------------------------------------------------------------------------
(* Another program creates a file; a directory being read may show it. *)

AnotherAdds ==
  /\ job.late /\ added = {}
  /\ \E d \in {p \in source : Last(p) \in job.dirs} :
       /\ added' = {Append(d, Late)} /\ source' = source \cup added'
       /\ stack' \in {stack} \cup {[stack EXCEPT ![i].todo = Append(@, Late)] :
                                     i \in {i \in DOMAIN stack : stack[i].from = d}}
  /\ UNCHANGED <<job, pc, cur, marked, call, val, ctx, target, asked, aborted, confirmed>>

Copy == StatDir \/ GetFlags \/ CheckCycles \/ MakeDir \/ TargetIsFile \/ TargetVanished \/ OwnDir
        \/ OpenDir \/ ReadEntry \/ EntryDone \/ ReadDone
Move == MoveTop \/ CopiedTop \/ EraseListed \/ EraseTop
Delete == DeleteTop \/ QueryRecursive \/ WipeEnter \/ WipeEntry \/ WipeDone
Operation == NextTop \/ Copy \/ Move \/ Delete \/ TopDone

Next == Operation \/ AnotherAdds
Spec == Init /\ [][Next]_vars
FairSpec == Spec /\ WF_vars(Operation)

-----------------------------------------------------------------------------
(* Properties *)

Frames == [from : Seq(Names), todo : Seq(Names), entry : Seq(Names), status : Statuses]

\* Types; the erase list is empty between two entries of the panel, and dest_dirs
\* names directories that have been made (file.c:3192).
TypeOK ==
  /\ job \in Jobs
  /\ pc \in {"next", "move", "delete", "enter", "flags", "cycles", "mkdir", "own", "opendir", "read",
             "entry", "moved", "drain", "query", "wipe_enter", "wipe", "done", "end"}
  /\ cur \in 0 .. Len(job.tops) /\ marked \subseteq ToSet(job.tops)
  /\ stack \in Seq(Frames) /\ Len(stack) <= MaxDepth
  /\ call \in [from : Seq(Names), over : BOOLEAN, status : Statuses]
  /\ val \in Statuses /\ ignoreAll \in BOOLEAN
  /\ recursive \in {"yes", "no", "all", "none", "abort"}
  /\ eraseList \in Seq(Seq(Names)) /\ (pc = "next" => eraseList = <<>>) /\ destDirs \subseteq target
  /\ source \subseteq Seq(Names) /\ target \subseteq Seq(Names)
  /\ asked \subseteq ToSet(job.tops) /\ aborted \in BOOLEAN
  /\ confirmed \subseteq ToSet(job.tops) /\ added \subseteq Seq(Names)

Files(set) == {p \in set : Last(p) \notin job.dirs}

\* Whatever fails, is skipped, ignored or aborted, and whatever appears in the
\* meantime: a file leaves the source only when its content is in the target,
\* or when the user agreed to delete the directory with all it contains.
GoneForAReason ==
  \A p \in Files(job.tree \cup added) : p \in source \/ TargetOf(p) \in target \/ p[1] \in confirmed

\* "button to abort the operation altogether": no file is removed or created,
\* and no other directory begun, after Abort.  What the user answers about the
\* emptied directory itself (erase_dir_after_copy) does not count as Abort here.
AbortSticks ==
  [][aborted => /\ Files(source) \subseteq source'
                /\ target' = target /\ cur' = cur]_vars

\* The calls that leave a directory to be deleted as it is without a word.
KeptSilently ==
  job.op = "delete" /\ (MayFail("read") \/ MayFail("lstat") \/ recursive = "none")

\* Where the user was not told anything about a marked directory it has been done: its
\* mark is gone, all its files are in the target, nothing of a moved or deleted one is
\* left.  Or it was to be deleted and its mark is still there: recursive_erase could
\* not read it, or not look at an entry, and asked nobody (file.c:1451, 1463), or the
\* user had said None before.  Nothing is claimed after answers that hold for all that
\* follows (ignoreAll, "standing"), and for a copy whose directories cannot be read,
\* which it passes over in silence (file.c:3210).
SilenceMeansDone ==
  pc = "end" /\ ~ignoreAll /\ ~MayFail("standing") /\ ~(MayFail("read") /\ job.op # "delete") =>
    \A t \in ToSet(SubSeq(job.tops, 1, cur)) \ asked :
      \/ t \in marked /\ KeptSilently
      \/ /\ t \notin marked
         /\ job.op # "delete" => \A p \in Files(job.tree) : p[1] = t => TargetOf(p) \in target
         /\ job.op # "copy" => \A p \in source : p[1] = t => \E q \in added : IsPrefix(p, q)

\* What has not been done the user was told: violated, see KeptSilently.
FailureIsTold ==
  pc = "end" /\ ~ignoreAll /\ recursive # "none" =>
    ToSet(SubSeq(job.tops, 1, cur)) \cap marked \subseteq asked

\* "only the files on which the operation succeeded are untagged": violated, the
\* status of a directory is that of its last entry.
UntaggedSucceeded ==
  pc \in {"next", "end"} /\ job.op # "delete" =>
    \A p \in Files(job.tree) : p[1] \notin marked => TargetOf(p) \in target

\* Links to parents, and a directory copied into itself, do not keep the
\* operation going for ever.
Terminates == <>(pc = "end")
=============================================================================
