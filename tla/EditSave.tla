------------------------------ MODULE EditSave ------------------------------
(***************************************************************************)
(* Editor windows of mcedit and the files they edit: loading, the lock     *)
(* link ".#name" taken at the first change (lib/lock.c), saving in the     *)
(* three modes, "save as", closing, and the file that is removed again     *)
(* when it was created for nothing (editor/edit.c, editor/editcmd.c).      *)
(*                                                                         *)
(* Windows run in the processes world.pid; windows of different processes  *)
(* interleave at every system call and dialog.  A text is a number; two    *)
(* texts that differ only in line breaks are the same text.                *)
(***************************************************************************)
EXTENDS Integers, Sequences, FiniteSets

CONSTANTS Windows,      \* editor windows
          Names,        \* file names
          NoName,       \* a window that has no name yet
          Worlds,       \* the circumstances to explore, see WorldType
          MaxTexts      \* bound: texts the users type

ASSUME EditSaveAssumption ==
    /\ NoName \notin Names
    /\ MaxTexts \in Nat

Empty  == 0             \* the text of a file that was only created
Part   == -1            \* a text that was cut short
NoText == -2            \* there is no file
Written == 1..(MaxTexts + 1)     \* whole texts; 1 is in every file that exists at the start
Texts == Written \union {Empty, Part, NoText}

Times == Nat
Files == [text : Texts, time : Times, linked : BOOLEAN]
Absent == [text |-> NoText, time |-> 0, linked |-> FALSE]
NameLists == Seq(Names)

Modes == {"quick", "safe", "backup"}    \* edit_options.save_mode
Free == "free"                          \* no lock link
Stale == "stale"                        \* a link that names a dead process

(***************************************************************************)
(* A world: the windows, their processes, what they open, how many         *)
(* commands each is given, the names they save as, the files and stale     *)
(* links at the start, the save mode, whether names have a write filter,   *)
(* and what may happen: cancelled questions, grabbed locks, failing calls, *)
(* errors that show only when a buffered stream is closed, changed line    *)
(* breaks, a crash, and whether every write gets a new st_mtime.           *)
(***************************************************************************)
Pids == {"p1", "p2"}
WorldType ==
    [windows : SUBSET Windows, pid : [Windows -> Pids], opens : [Windows -> Names \union {NoName}],
     commands : Nat, targets : SUBSET Names,
     exists : SUBSET Names, linked : SUBSET Names, stale : SUBSET Names,
     mode : Modes, filter : BOOLEAN, cancel : BOOLEAN, grab : BOOLEAN,
     fail : BOOLEAN, late : BOOLEAN, convert : BOOLEAN, crash : BOOLEAN, ticks : BOOLEAN]

ASSUME WorldsAssumption == Worlds \subseteq WorldType

VARIABLES
    world,      \* the circumstances, chosen once
    fs,         \* fs[n]: the file of that name
    backup,     \* backup[n]: the file n~
    temp,       \* temp[w]: the temporary file of a save of w
    link,       \* link[n]: what .#n points to
    win,        \* win[w]: the WEdit, and where its process is in it
    alive,      \* the processes that have not crashed
    now,        \* the clock behind st_mtime
    texts,      \* how many texts were typed
    bold,       \* history: names whose lock a user grabbed or ignored
    missed      \* history: names whose lock was missed in a race, without a question

vars == <<world, fs, backup, temp, link, win, alive, now, texts, bold, missed>>
disk == <<fs, backup, temp>>

Labels == {"unopened", "load", "idle", "lockStat", "lockRead", "lockAsk", "lockUnlink", "lockLink",
           "askSave", "askName", "askOver", "stat", "askLinks", "askTime", "temp", "open", "write",
           "backup", "rename", "unlock", "unlockRead", "unlockUnlink", "settle", "clean",
           "closed", "dead"}

WindowType ==
    [pc       : Labels,
     commands : Nat,            \* bound: commands given
     name     : Names \union {NoName},  \* filename_vpath
     buf      : Texts,                  \* the text in the buffer
     modified : BOOLEAN, locked : BOOLEAN, deleteFile : BOOLEAN, skip : BOOLEAN, convert : BOOLEAN,
     time     : Times,                  \* stat1.st_mtime
     cmd      : {"type", "save", "saveAs"},     \* who called lock_file or edit_save_file
     closing  : {"no", "asked", "sure"},        \* in edit_ok_to_exit, or past it
     target   : Names \union {NoName},  \* the argument of lock_file and edit_save_file
     saveLock : BOOLEAN, mode : Modes, sb : Files,
     fd       : {"none", "name", "backup", "gone"},    \* where the file opened for writing is now
     res      : {"ok", "error", "abort"},       \* result of edit_save_file
     todo     : NameLists,              \* unlock_file calls to make
     base     : Texts,      \* history: what the file held when it was last loaded or saved
     asked    : BOOLEAN,    \* history: the user agreed to overwrite
     saidNo   : BOOLEAN]    \* history: the user chose to lose the changes

NewWindow(n) ==
    [pc |-> "unopened", commands |-> 0, name |-> n, buf |-> Empty, modified |-> FALSE, locked |-> FALSE,
     deleteFile |-> FALSE, skip |-> FALSE, convert |-> FALSE, time |-> 0, cmd |-> "type",
     closing |-> "no", target |-> NoName, saveLock |-> FALSE, mode |-> "quick", sb |-> Absent,
     fd |-> "none", res |-> "ok", todo |-> <<>>, base |-> Empty, asked |-> FALSE, saidNo |-> FALSE]

Init ==
    /\ world \in Worlds
    /\ fs = [n \in Names |-> IF n \in world.exists
                             THEN [text |-> 1, time |-> 1, linked |-> n \in world.linked]
                             ELSE Absent]
    /\ backup = [n \in Names |-> Absent]
    /\ temp = [w \in Windows |-> Absent]
    /\ link = [n \in Names |-> IF n \in world.stale THEN Stale ELSE Free]
    /\ win = [w \in Windows |-> NewWindow(world.opens[w])]
    /\ alive = Pids
    /\ now = 1
    /\ texts = 1
    /\ bold = {}
    /\ missed = {}

-----------------------------------------------------------------------------
(* Helpers.                                                                *)

At(w, label) == win[w].pc = label
Become(w, r) == win' = [win EXCEPT ![w] = r]
Goto(w, label) == win' = [win EXCEPT ![w].pc = label]

Exists(n) == fs[n].text # NoText

\* Every write moves the clock, unless all happens within one second.
Tick == IF world.ticks THEN now + 1 ELSE now
Stamped(t) == [text |-> t, time |-> Tick, linked |-> FALSE]

\* The windows once the file of name n is renamed or unlinked: a file that was
\* open for writing under that name is now elsewhere.
Moved(wins, n, where) ==
    [v \in Windows |-> IF wins[v].fd = "name" /\ wins[v].target = n
                       THEN [wins[v] EXCEPT !.fd = where] ELSE wins[v]]

-----------------------------------------------------------------------------
(* Opening and typing.                                                     *)

\* check_file_access: open the file, or create it and remember to delete it.
Open(w) ==
    LET n == win[w].name IN
    /\ At(w, "unopened") /\ w \in world.windows
    /\ \/ n = NoName /\ Goto(w, "idle") /\ UNCHANGED <<fs, now>>
       \/ /\ n # NoName /\ Exists(n)
          /\ Become(w, [win[w] EXCEPT !.pc = "load", !.time = fs[n].time])
          /\ UNCHANGED <<fs, now>>
       \/ /\ n # NoName /\ ~Exists(n)
          /\ fs' = [fs EXCEPT ![n] = Stamped(Empty)]
          /\ now' = Tick
          /\ Become(w, [win[w] EXCEPT !.pc = "load", !.time = Tick, !.deleteFile = TRUE])
    /\ UNCHANGED <<world, backup, temp, link, alive, texts, bold, missed>>

\* edit_load_file: the text is read after the stat; a file that is gone by then
\* closes the window.
Load(w) ==
    LET n == win[w].name IN
    /\ At(w, "load")
    /\ Become(w, IF Exists(n)
                 THEN [win[w] EXCEPT !.pc = "idle", !.buf = fs[n].text, !.base = fs[n].text]
                 ELSE [win[w] EXCEPT !.pc = "closed"])
    /\ UNCHANGED <<world, disk, link, alive, now, texts, bold, missed>>

\* Mutant: edit_modification does not look at delete_file.
TypeLocksNew(w) ==
    LET typed == [win[w] EXCEPT !.buf = texts + 1]
    IN /\ At(w, "idle") /\ texts <= MaxTexts
       /\ texts' = texts + 1
       /\ Become(w, IF win[w].modified \/ win[w].name = NoName
                    THEN [typed EXCEPT !.modified = TRUE]
                    ELSE [typed EXCEPT !.pc = "lockStat", !.cmd = "type", !.target = win[w].name])
       /\ UNCHANGED <<world, disk, link, alive, now, bold, missed>>

\* edit_modification: the first change takes the lock, except in a file that is
\* to be deleted.
Type(w) ==
    LET typed == [win[w] EXCEPT !.buf = texts + 1]
    IN /\ At(w, "idle") /\ texts <= MaxTexts
       /\ texts' = texts + 1
       /\ Become(w, IF win[w].modified \/ win[w].deleteFile \/ win[w].name = NoName
                    THEN [typed EXCEPT !.modified = TRUE]
                    ELSE [typed EXCEPT !.pc = "lockStat", !.cmd = "type", !.target = win[w].name])
       /\ UNCHANGED <<world, disk, link, alive, now, bold, missed>>

-----------------------------------------------------------------------------
(* lock_file: lstat, readlink and kill, perhaps a question, unlink,        *)
(* symlink - each a system call of its own.                                *)

\* What the caller does with the result of lock_file.
Locked(w, r, ok) ==
    IF r.cmd = "type" THEN [r EXCEPT !.pc = "idle", !.locked = ok, !.modified = TRUE]
                      ELSE [r EXCEPT !.pc = "stat", !.saveLock = ok]

LockStat(w) ==
    /\ At(w, "lockStat")
    /\ Goto(w, IF link[win[w].target] = Free THEN "lockLink" ELSE "lockRead")
    /\ UNCHANGED <<world, disk, link, alive, now, texts, bold, missed>>

\* lock_get_info and kill (pid, 0); a link that vanished means no lock.
LockRead(w) ==
    LET owner == link[win[w].target] IN
    /\ At(w, "lockRead")
    /\ Become(w, CASE owner = Free     -> Locked(w, win[w], FALSE)
                   [] owner \in alive  -> [win[w] EXCEPT !.pc = "lockAsk"]
                   [] OTHER            -> [win[w] EXCEPT !.pc = "lockUnlink"])
    /\ missed' = IF owner = Free THEN missed \union {win[w].target} ELSE missed
    /\ UNCHANGED <<world, disk, link, alive, now, texts, bold>>

\* "File is already being edited": Grab lock, or Ignore lock.
LockAsk(w) ==
    /\ At(w, "lockAsk")
    /\ bold' = bold \union {win[w].target}
    /\ \/ world.grab /\ Goto(w, "lockUnlink")
       \/ Become(w, Locked(w, win[w], FALSE))
    /\ UNCHANGED <<world, disk, link, alive, now, texts, missed>>

LockUnlink(w) ==
    /\ At(w, "lockUnlink")
    /\ link' = [link EXCEPT ![win[w].target] = Free]
    /\ Goto(w, "lockLink")
    /\ UNCHANGED <<world, disk, alive, now, texts, bold, missed>>

\* Mutant: the lock is a file that is written over what is there.
LockOver(w) ==
    /\ At(w, "lockLink")
    /\ link' = [link EXCEPT ![win[w].target] = world.pid[w]]
    /\ Become(w, Locked(w, win[w], TRUE))
    /\ UNCHANGED <<world, disk, alive, now, texts, bold, missed>>

\* symlink fails if somebody made the link in between.
LockLink(w) ==
    LET n == win[w].target
        ok == link[n] = Free
    IN /\ At(w, "lockLink")
       /\ link' = IF ok THEN [link EXCEPT ![n] = world.pid[w]] ELSE link
       /\ Become(w, Locked(w, win[w], ok))
       /\ missed' = IF ok THEN missed ELSE missed \union {n}
       /\ UNCHANGED <<world, disk, alive, now, texts, bold>>

-----------------------------------------------------------------------------
(* unlock_file, for each name of win[w].todo.                              *)

Unlocked(r) ==
    LET rest == Tail(r.todo)
    IN [r EXCEPT !.todo = rest,
                 !.pc = IF rest # <<>> THEN "unlock"
                        ELSE IF r.closing = "sure" THEN "clean" ELSE "settle"]

UnlockStat(w) ==
    /\ At(w, "unlock")
    /\ Become(w, IF link[Head(win[w].todo)] = Free THEN Unlocked(win[w])
                                                  ELSE [win[w] EXCEPT !.pc = "unlockRead"])
    /\ UNCHANGED <<world, disk, link, alive, now, texts, bold, missed>>

\* Own, or unreadable because it vanished: remove it.
UnlockRead(w) ==
    LET owner == link[Head(win[w].todo)] IN
    /\ At(w, "unlockRead")
    /\ Become(w, IF owner \in {Free, world.pid[w]} THEN [win[w] EXCEPT !.pc = "unlockUnlink"]
                                                   ELSE Unlocked(win[w]))
    /\ UNCHANGED <<world, disk, link, alive, now, texts, bold, missed>>

UnlockUnlink(w) ==
    /\ At(w, "unlockUnlink")
    /\ link' = [link EXCEPT ![Head(win[w].todo)] = Free]
    /\ Become(w, Unlocked(win[w]))
    /\ UNCHANGED <<world, disk, alive, now, texts, bold, missed>>

-----------------------------------------------------------------------------
(* The commands: save, save as, close.                                     *)

\* The end of a command with its result; edit_ok_to_exit lets the window close.
Leave(r) == [r EXCEPT !.closing = "sure", !.locked = FALSE,
                      !.todo = IF r.locked THEN <<r.name>> ELSE <<>>,
                      !.pc = IF r.locked THEN "unlock" ELSE "clean"]

\* Mutant: edit_ok_to_exit does not look at the result of the save.
FinishAnyway(r, ok) == IF r.closing = "no" THEN [r EXCEPT !.pc = "idle"] ELSE Leave(r)

Finish(r, ok) == IF r.closing = "no" THEN [r EXCEPT !.pc = "idle"]
                 ELSE IF ok THEN Leave(r) ELSE [r EXCEPT !.pc = "idle", !.closing = "no"]

\* edit_save_cmd up to edit_save_file; a window without a name fails at once
\* and goes to "save as".
SaveCmd(r) ==
    LET begun == [r EXCEPT !.cmd = "save", !.target = r.name, !.saveLock = FALSE, !.asked = FALSE]
    IN [begun EXCEPT !.pc = IF r.name = NoName THEN "askName"
                            ELSE IF r.locked \/ r.deleteFile THEN "stat" ELSE "lockStat"]

\* The bound on commands: the user of w may still give one; the window with it counted.
Commanded(w) == At(w, "idle") /\ win[w].commands < world.commands
Counted(w) == [win[w] EXCEPT !.commands = @ + 1]

\* edit_save_confirm_cmd; its dialogs that only cancel are left out.
Save(w) ==
    /\ Commanded(w)
    /\ Become(w, SaveCmd(Counted(w)))
    /\ UNCHANGED <<world, disk, link, alive, now, texts, bold, missed>>

SaveAs(w) ==
    /\ Commanded(w)
    /\ Become(w, [Counted(w) EXCEPT !.pc = "askName"])
    /\ UNCHANGED <<world, disk, link, alive, now, texts, bold, missed>>

\* edit_close_cmd: edit_ok_to_exit asks only for a modified text.
Close(w) ==
    /\ Commanded(w)
    /\ Become(w, IF win[w].modified THEN [Counted(w) EXCEPT !.pc = "askSave"]
                                    ELSE Leave(Counted(w)))
    /\ UNCHANGED <<world, disk, link, alive, now, texts, bold, missed>>

\* "Save before close?": Yes, No, Cancel.
AskSave(w) ==
    /\ At(w, "askSave")
    /\ \/ Become(w, SaveCmd([win[w] EXCEPT !.closing = "asked"]))
       \/ Become(w, Leave([win[w] EXCEPT !.saidNo = TRUE]))
       \/ Goto(w, "idle")
    /\ UNCHANGED <<world, disk, link, alive, now, texts, bold, missed>>

\* The dialog of edit_save_as_cmd: Cancel, or a name and perhaps other line breaks.
AskName(w) ==
    LET r == win[w] IN
    /\ At(w, "askName")
    /\ \/ Become(w, Finish(r, FALSE))
       \/ \E n \in world.targets, lb \in {FALSE, world.convert} :
             LET named == [r EXCEPT !.cmd = "saveAs", !.target = n, !.convert = lb,
                                    !.saveLock = FALSE, !.asked = FALSE]
             IN Become(w, [named EXCEPT !.pc =
                    CASE n # r.name /\ Exists(n)           -> "askOver"
                      [] n = r.name /\ (r.locked \/ r.deleteFile) -> "stat"
                      [] OTHER                             -> "lockStat"])
    /\ UNCHANGED <<world, disk, link, alive, now, texts, bold, missed>>

\* "A file already exists with this name": Overwrite, Cancel.
AskOver(w) ==
    /\ At(w, "askOver")
    /\ \/ Become(w, [win[w] EXCEPT !.pc = "lockStat", !.asked = TRUE])
       \/ Become(w, Finish(win[w], FALSE))
    /\ UNCHANGED <<world, disk, link, alive, now, texts, bold, missed>>

-----------------------------------------------------------------------------
(* edit_save_file.                                                         *)

\* What edit_save_cmd and edit_save_as_cmd do first with a result: which locks
\* they lower, and whether edit->locked falls with them.
Result(r, res) ==
    LET own == IF r.cmd = "save" THEN (res = "ok" /\ r.locked) \/ r.saveLock
               ELSE res = "ok" /\ (r.locked \/ (r.saveLock /\ r.target = r.name))
        other == r.cmd = "saveAs" /\ r.saveLock /\ (r.target # r.name \/ res # "ok")
        todo == (IF other THEN <<r.target>> ELSE <<>>) \o (IF own THEN <<r.name>> ELSE <<>>)
    IN [r EXCEPT !.res = res, !.todo = todo, !.fd = "none", !.locked = IF own THEN FALSE ELSE @,
                 !.pc = IF todo = <<>> THEN "settle" ELSE "unlock"]

\* Mutant: the times are not compared.
CheckNothing(r) == [r EXCEPT !.pc = IF r.mode = "quick" THEN "open" ELSE "temp"]

\* "Prevent overwriting changes from other editor sessions."
CheckTime(r) ==
    [r EXCEPT !.pc = IF r.sb.text # NoText /\ r.time # 0 /\ r.time # r.sb.time THEN "askTime"
                     ELSE IF r.mode = "quick" THEN "open" ELSE "temp"]

\* A file that does not exist needs neither a safe save nor a backup.
Stat(w) ==
    LET sb == fs[win[w].target]
        mode == IF sb.text = NoText THEN "quick" ELSE world.mode
        r == [win[w] EXCEPT !.sb = sb, !.mode = mode]
    IN /\ At(w, "stat")
       /\ Become(w, IF mode = "quick" /\ sb.linked /\ ~r.skip
                    THEN [r EXCEPT !.pc = "askLinks"] ELSE CheckTime(r))
       /\ UNCHANGED <<world, disk, link, alive, now, texts, bold, missed>>

\* "File has hard-links. Detach before saving?": Yes, No, Cancel.
AskLinks(w) ==
    /\ At(w, "askLinks")
    /\ \/ Become(w, CheckTime([win[w] EXCEPT !.skip = TRUE, !.mode = "safe"]))
       \/ Become(w, CheckTime([win[w] EXCEPT !.skip = TRUE]))
       \/ world.cancel /\ Become(w, Result(win[w], "abort"))
    /\ UNCHANGED <<world, disk, link, alive, now, texts, bold, missed>>

\* "The file has been modified in the meantime. Save anyway?": Yes, Cancel.
AskTime(w) ==
    /\ At(w, "askTime")
    /\ \/ Become(w, [win[w] EXCEPT !.asked = TRUE,
                                   !.pc = IF win[w].mode = "quick" THEN "open" ELSE "temp"])
       \/ world.cancel /\ Become(w, Result(win[w], "abort"))
    /\ UNCHANGED <<world, disk, link, alive, now, texts, bold, missed>>

MakeTemp(w) ==
    /\ At(w, "temp")
    /\ \/ /\ temp' = [temp EXCEPT ![w] = Stamped(Empty)]
          /\ now' = Tick
          /\ Goto(w, "open")
       \/ /\ world.fail
          /\ Become(w, Result(win[w], "error"))
          /\ UNCHANGED <<temp, now>>
    /\ UNCHANGED <<world, fs, backup, link, alive, texts, bold, missed>>

\* mc_open with O_CREAT and O_TRUNC: a quick save cuts the file itself.
OpenToWrite(w) ==
    LET n == win[w].target IN
    /\ At(w, "open")
    /\ \/ /\ win[w].mode = "quick"
          /\ fs' = [fs EXCEPT ![n] = [text |-> Part, time |-> Tick, linked |-> fs[n].linked]]
          /\ now' = Tick
          /\ Become(w, [win[w] EXCEPT !.pc = "write", !.fd = "name"])
       \/ win[w].mode # "quick" /\ Goto(w, "write") /\ UNCHANGED <<fs, now>>
       \/ world.fail /\ Become(w, Result(win[w], "error")) /\ UNCHANGED <<fs, now>>
    /\ UNCHANGED <<world, backup, temp, link, alive, texts, bold, missed>>

\* The text t reaches the file being written: the temporary file, the file that
\* was opened, or - a filter and fopen take the name again - the file of that name.
Put(w, t) ==
    LET n == win[w].target
        byName == world.filter \/ win[w].convert
    IN /\ now' = Tick
       /\ IF win[w].mode # "quick" 
          THEN temp' = [temp EXCEPT ![w] = Stamped(t)] /\ UNCHANGED <<fs, backup>>
          ELSE IF byName \/ win[w].fd = "name"
               THEN /\ fs' = [fs EXCEPT ![n] = [text |-> t, time |-> Tick, linked |-> fs[n].linked]]
                    /\ UNCHANGED <<backup, temp>>
          ELSE IF win[w].fd = "backup"
               THEN backup' = [backup EXCEPT ![n] = Stamped(t)] /\ UNCHANGED <<fs, temp>>
          ELSE UNCHANGED disk

\* Where edit_save_file stands once the file is written.  Only the plain path
\* updates stat1, by the name of the file.
Wrote(w) ==
    LET r == win[w]
        plain == ~world.filter /\ ~r.convert
        saved == IF r.mode = "quick" THEN fs'[r.target] ELSE temp'[w]
        stamped == [r EXCEPT !.time = IF plain THEN saved.time ELSE @,
                               !.base = IF r.mode = "quick" THEN saved.text ELSE @]
    IN IF plain /\ saved.text = NoText THEN Result(r, "error")
       ELSE IF r.mode = "quick" THEN Result(stamped, "ok")
       ELSE [stamped EXCEPT !.pc = IF r.mode = "backup" THEN "backup" ELSE "rename"]

\* Writing and closing: all of it; an error that is seen; an error that a
\* buffered stream reports only to the pclose or fclose nobody looks at.
WriteAll(w) ==
    /\ At(w, "write")
    /\ Put(w, win[w].buf)
    /\ Become(w, Wrote(w))
    /\ UNCHANGED <<world, link, alive, texts, bold, missed>>

\* Mutant: the length written is not compared with the size of the buffer.
WriteUnchecked(w) ==
    /\ At(w, "write") /\ world.fail
    /\ Put(w, Part)
    /\ Become(w, Wrote(w))
    /\ UNCHANGED <<world, link, alive, texts, bold, missed>>

WriteFails(w) ==
    /\ At(w, "write") /\ world.fail
    /\ Put(w, Part)
    /\ Become(w, Result(win[w], "error"))
    /\ UNCHANGED <<world, link, alive, texts, bold, missed>>

CloseFails(w) ==
    /\ At(w, "write") /\ world.late /\ (world.filter \/ win[w].convert)
    /\ Put(w, Part)
    /\ Become(w, Wrote(w))
    /\ UNCHANGED <<world, link, alive, texts, bold, missed>>

\* mc_rename of the file to its backup name.
Backup(w) ==
    LET n == win[w].target IN
    /\ At(w, "backup")
    /\ \/ /\ Exists(n)
          /\ backup' = [backup EXCEPT ![n] = fs[n]]
          /\ fs' = [fs EXCEPT ![n] = Absent]
          /\ win' = [Moved(win, n, "backup") EXCEPT ![w].pc = "rename"]
       \/ /\ world.fail \/ ~Exists(n)
          /\ Become(w, Result(win[w], "error"))
          /\ UNCHANGED <<fs, backup>>
    /\ UNCHANGED <<world, temp, link, alive, now, texts, bold, missed>>

\* mc_rename of the temporary file to the name.
Rename(w) ==
    LET n == win[w].target IN
    /\ At(w, "rename")
    /\ \/ /\ fs' = [fs EXCEPT ![n] = temp[w]]
          /\ temp' = [temp EXCEPT ![w] = Absent]
          /\ win' = [Moved(win, n, "gone") EXCEPT ![w] = Result([win[w] EXCEPT !.base = temp[w].text], "ok")]
       \/ /\ world.fail
          /\ Become(w, Result(win[w], "error"))
          /\ UNCHANGED <<fs, temp>>
    /\ UNCHANGED <<world, backup, link, alive, now, texts, bold, missed>>

-----------------------------------------------------------------------------
(* After edit_save_file and the unlocking.                                 *)

\* Mutant: a saved window still deletes its file.
SettledStillDeletes(r) ==
    LET clean == [r EXCEPT !.modified = FALSE]
    IN CASE r.cmd = "save" /\ r.res = "error" -> [r EXCEPT !.pc = "askName"]
         [] r.res = "ok" -> Finish([clean EXCEPT !.name = r.target], TRUE)
         [] OTHER        -> Finish(r, r.cmd = "save")

\* The window after a result: a failed save goes on to "save as"; a cancelled one
\* counts as done in edit_save_cmd, as failed in edit_save_as_cmd.
Settled(r) ==
    LET clean == [r EXCEPT !.modified = FALSE, !.deleteFile = FALSE]
    IN CASE r.cmd = "save" /\ r.res = "error" -> [r EXCEPT !.pc = "askName"]
         [] r.res = "ok" -> Finish([clean EXCEPT !.name = r.target], TRUE)
         [] OTHER        -> Finish(r, r.cmd = "save")

\* edit_reload of a file saved with other line breaks: the file is loaded into a
\* new window, then edit_clean ends the old one - and deletes what it is to delete.
Reload(w) ==
    LET n == win[w].target
        read == [NewWindow(n) EXCEPT !.time = fs[n].time, !.buf = fs[n].text, !.base = fs[n].text,
                     !.cmd = "saveAs", !.target = n, !.closing = win[w].closing, !.commands = win[w].commands]
    IN /\ At(w, "settle")
       /\ win[w].cmd = "saveAs" /\ win[w].res = "ok" /\ win[w].convert
       /\ IF Exists(n)
          THEN /\ fs' = IF win[w].deleteFile THEN [fs EXCEPT ![n] = Absent] ELSE fs
               /\ win' = [(IF win[w].deleteFile THEN Moved(win, n, "gone") ELSE win)
                             EXCEPT ![w] = Settled(read)]
               /\ UNCHANGED now
          ELSE /\ fs' = IF win[w].deleteFile THEN fs ELSE [fs EXCEPT ![n] = Stamped(Empty)]
               /\ now' = Tick
               /\ Become(w, Settled([read EXCEPT !.time = Tick, !.buf = Empty, !.base = Empty]))
       /\ UNCHANGED <<world, backup, temp, link, alive, texts, bold, missed>>

Settle(w) ==
    /\ At(w, "settle")
    /\ ~(win[w].cmd = "saveAs" /\ win[w].res = "ok" /\ win[w].convert)
    /\ Become(w, Settled(win[w]))
    /\ UNCHANGED <<world, disk, link, alive, now, texts, bold, missed>>

\* edit_clean: a file created for this window and never saved is removed.
Clean(w) ==
    LET n == win[w].name
        delete == win[w].deleteFile
    IN /\ At(w, "clean")
       /\ fs' = IF delete THEN [fs EXCEPT ![n] = Absent] ELSE fs
       /\ win' = [(IF delete THEN Moved(win, n, "gone") ELSE win) EXCEPT ![w].pc = "closed"]
       /\ UNCHANGED <<world, backup, temp, link, alive, now, texts, bold, missed>>

\* A process dies with all its windows; its lock links stay.
Crash(p) ==
    /\ world.crash /\ alive = Pids
    /\ \E w \in Windows : world.pid[w] = p
    /\ alive' = alive \ {p}
    /\ win' = [w \in Windows |-> IF world.pid[w] = p
                                 THEN [NewWindow(NoName) EXCEPT !.pc = "dead"] ELSE win[w]]
    /\ UNCHANGED <<world, disk, link, now, texts, bold, missed>>

Resting(w) == win[w].pc \in {"unopened", "idle", "closed", "dead"}

\* A process runs one command at a time.
Turn(w) == \A v \in Windows \ {w} : world.pid[v] = world.pid[w] => Resting(v)

Step(w) ==
    \/ Open(w) \/ Load(w) \/ Type(w)
    \/ LockStat(w) \/ LockRead(w) \/ LockAsk(w) \/ LockUnlink(w) \/ LockLink(w)
    \/ UnlockStat(w) \/ UnlockRead(w) \/ UnlockUnlink(w)
    \/ Save(w) \/ SaveAs(w) \/ Close(w) \/ AskSave(w) \/ AskName(w) \/ AskOver(w)
    \/ Stat(w) \/ AskLinks(w) \/ AskTime(w) \/ MakeTemp(w) \/ OpenToWrite(w)
    \/ WriteAll(w) \/ WriteFails(w) \/ CloseFails(w) \/ Backup(w) \/ Rename(w)
    \/ Reload(w) \/ Settle(w) \/ Clean(w)

Next == (\E w \in Windows : Turn(w) /\ Step(w)) \/ \E p \in Pids : Crash(p)

Spec == Init /\ [][Next]_vars

-----------------------------------------------------------------------------
(* What the editor promises.                                               *)

\* Types; only a save has a file open, and a window that is to delete its file holds no
\* lock (edit_modification).
TypeOK ==
    /\ world \in WorldType
    /\ fs \in [Names -> Files] /\ backup \in [Names -> Files] /\ temp \in [Windows -> Files]
    /\ link \in [Names -> Pids \union {Free, Stale}]
    /\ win \in [Windows -> WindowType]
    /\ \A w \in Windows : /\ win[w].fd # "none" => win[w].pc = "write"
                         /\ ~(win[w].locked /\ win[w].deleteFile)
    /\ alive \subseteq Pids /\ now \in Times /\ texts \in Nat /\ bold \subseteq Names /\ missed \subseteq Names

Gone(w) == win[w].pc \in {"unopened", "closed", "dead"}

\* Two processes believe that they hold the lock of a name only if a user chose to
\* grab or to ignore it (lib/lock.c, lock_file).
OneHolder ==
    \A v, w \in Windows :
        /\ world.pid[v] # world.pid[w] /\ win[v].locked /\ win[w].locked
        /\ win[v].name = win[w].name
        => win[v].name \in bold

\* The link of a running process belongs to a window that knows of it, or to a
\* command under way.
NoneForgotten ==
    \A n \in Names : link[n] \in alive =>
        \E w \in Windows :
            /\ world.pid[w] = link[n] /\ ~Gone(w)
            /\ win[w].pc = "idle" => win[w].locked /\ win[w].name = n

\* A lock has one holder, and none outlives its use, on every path through the
\* locking and unlocking of edit_save_cmd, edit_save_as_cmd and edit_close_cmd.
LockExclusive == OneHolder /\ NoneForgotten

\* In the safe modes a file that was there at the start is there in full at every
\* moment - under its name, its backup name or in a temporary file - whatever call
\* fails and wherever the process dies (edit_save_file; mcedit(1),
\* editor_option_save_mode).
OriginalSurvives ==
    world.mode # "quick" =>
        \A n \in world.exists :
            \E f \in {fs[n], backup[n]} \union {temp[w] : w \in Windows} : f.text \in Written

\* A step of window w.
Acts(w) == win'[w].pc # win[w].pc

\* The text of file n that this step destroys was saved by another session, and the
\* user whose window destroys it was not asked.
Silent(n) ==
    LET lost == fs[n].text
    IN /\ lost \in Written /\ lost # fs'[n].text /\ lost # backup'[n].text
       /\ ~\E w \in Windows : /\ Acts(w)
                              /\ win[w].asked \/ (win[w].name = n /\ win[w].base = lost)

\* A text that another session saved is not overwritten unasked as long as every window
\* got the lock it wanted: the comparison of st_mtime and the lock together "prevent
\* overwriting changes from other editor sessions" (edit_save_file).
NoSilentOverwrite == [][\A n \in Names \ (bold \union missed) : ~Silent(n)]_vars

\* A window removes no file with a whole text in it (edit_clean's unlink; "Don't delete
\* non-empty files", check_file_access).
DeletesNoText ==
    [][\A n \in Names :
         fs'[n] = Absent /\ backup'[n] # fs[n] => fs[n].text \notin Written]_vars

\* A window with unsaved changes closes only if the user said that they may be lost, or
\* cancelled the save (edit_ok_to_exit, on every path through the two save commands).
ClosedMeansSaved ==
    [][\A w \in Windows : win'[w].pc = "closed" =>
         ~win[w].modified \/ win[w].saidNo \/ win[w].res = "abort"]_vars

\* The same without the exception: edit_save_cmd "returns TRUE on success".
CancelKeepsOpen ==
    [][\A w \in Windows : win'[w].pc = "closed" => ~win[w].modified \/ win[w].saidNo]_vars
=============================================================================
