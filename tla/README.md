# GNU Midnight Commander in TLA+

Models of the parts of Midnight Commander where an order of events, a failing
call or a second process decides whether the user's files, texts and commands
survive. Every module is translated from the C source; `PROJECT.json` names, for
every definition, the lines it stands for.

    tlc -workers 2 -config FileCopy_safe.cfg MCFileCopy.tla
    tlapm FileCopy_proofs.tla

## 1. Inventory

| Component | Source | State | Operations | Hard behaviour | What makes it correct |
|---|---|---|---|---|---|
| File copy and move | `src/filemanager/file.c`, `filegui.c` | `file_op_context_t` (answers that outlive a file), `return_status`, `dst_status`, list of hard links, marks in the panel | `panel_operate`, `move_file_file`, `copy_file_file`, `check_hardlinks`, `make_symlink`, the replace and error dialogs | a failure with Ignore/Ignore all/Retry/Abort at each of two dozen calls; stale answers; another program creating the target | a source goes only when its content is in the target; what the user did not agree to is not overwritten; Abort aborts |
| Directory copy, move, erase | `file.c` | `erase_list`, `dest_dirs`, `parent_dirs`, the C stack of the recursion | `copy_dir_dir`, `do_move_dir_dir`, `recursive_erase`, `erase_dir_after_copy` | Abort or errors halfway, one status for many entries, links to parents, files that appear meanwhile | each file of a moved tree is somewhere; what was not done was reported |
| Subshell | `src/subshell/common.c`, `src/execute.c` | `subshell_state`, `_ready`, `_alive`, `_stopped`, `subshell_cwd`, pty, the cwd pipe, the buffer pipe | `feed_subshell`, `synchronize`, `do_subshell_chdir`, `invoke_subshell`, `init_subshell`, SIGCHLD handler | two processes, SIGSTOP/SIGCONT, timeouts of 1 s and 10 s, the shell may exit or be killed | a command runs once, in the directory of the panel, never into a running program; every call returns |
| Editor windows: lock, save, close | `src/editor/editcmd.c`, `edit.c`, `lib/lock.c` | `WEdit` (modified, locked, delete_file, stat1, lb), the link `.#name`, temporary and backup files | `lock_file`, `unlock_file`, `edit_modification`, `edit_save_file`, `edit_save_cmd`, `edit_save_as_cmd`, `edit_ok_to_exit`, `edit_reload`, `edit_clean` | several editors on a file, each system call a step; a crash; errors seen late or never | one holder of a lock; nobody's text is overwritten or deleted unasked; a closed window was saved |
| Line breaks | `edit.c:edit_write_stream` | loop counter | conversion to Unix, Windows, Macintosh breaks | one byte of look-ahead at the end of the buffer | equals the reference conversion |
| Background operations | `src/background.c`, `boxes.c`, `lib/tty/key.c` | `task_list`, two pipes per task, `select_list`, the list on the screen | `do_background`, `background_attention`, `parent_call`, Stop, Resume, Kill | fork, calls marshalled by hand, dialogs inside dialogs, a child dying against `waitpid` | an answer is the user's, to that question; no job waits for ever; the list shows what runs |
| VFS core and expiry | `lib/vfs/{vfs,gc,interface,direntry}.c` | open handles, super blocks, `stamps` | `vfs_stamp_create`, `vfs_rmstamp`, `vfs_expire`, `vfs_s_free_super`, `mc_chdir` | freeing while walking; stamps that a free adds or removes; nested archives | nothing open is freed; everything unused is freed in time |
| Editor buffer | `editbuffer.c`, `edit.c` | two chunk lists around the cursor, `lines`, `curs_line` | insert, delete, move, load, save, line search | chunk borders, counts kept by increments | the buffer is a text with a cursor; a save writes that text |
| Undo and redo | `edit.c` | two rings of inverse actions, compressed in place | `edit_push_undo_action`, `edit_do_undo`, `edit_do_redo`, `edit_execute_key_command` | ring growth and overrun, groups, a click between Undo and Redo | Undo leads to a text of the past; Redo takes it back |
| Keyboard | `lib/tty/key.c` | tree of sequences, `seq_buffer`, `pending_keys`, `this`, two timeouts | `define_sequence`, `get_key_code` | a sequence cut by a timeout, by a poll, by an unknown key | no key becomes another; every key arrives |
| Dialogs and groups | `lib/widget/{dialog,group,widget-common,dialog-switch}.c` | focus, widget states, stack of dialogs | `dlg_run`, `group_select_widget`, `widget_set_state`, `dialog_switch_*` | callbacks that close the dialog they run in | one focused widget, a state sequence without gaps |
| Viewer | `src/viewer/{growbuf,datasource}.c` | growing buffer over stdout and stderr pipes | `mcview_growbuf_read_until` | two pipes, EAGAIN, EOF of one | bytes are kept in order and read to the end |
| Panels | `src/filemanager/{panel,dir,panelize}.c` | list, marks, totals | mark, sort, reload | totals against marks | sequential bookkeeping |
| Others | remote and archive file systems, diff viewer, search, skins, configuration, find, tree, events, menus, help | | | | see `PROJECT.json`, "components", for why each is left out |

How they interact: panels call file operations with the marked files and tell the
subshell where they are before a command; the editor, the viewer and file
operations go through the VFS and ask through dialogs, which run nested event
loops in the same process; a background operation is a forked copy of the file
operation that asks its dialogs over a pipe, which those event loops serve;
`tty_get_event` is also where the timer of the VFS runs; SIGCHLD tells the
subshell and the background tasks apart. The lock link of the editor is shared by
all processes.

`PROJECT.json` "hazards" lists what could go wrong, at its line, with the
properties aimed at it, or why none covers it.

## 2. Plan

Modelled: `FileCopy`, `Subshell`, `EditSave`, `LineBreaks`, `MoveDir` over what
`FileCopy` promises, `Background` as an implementation of `RemoteCall`, `VfsGc`,
`EditBuffer` as an implementation of `TextBuffer`, `EditUndo` as an implementation
of `EditHistory`, `Keyboard`. Proved about: `FileCopy`, `MoveDir`, `Subshell`,
`EditSave`, `EditBuffer`, `LineBreaks`, `Background`, `Keyboard` (section 6).

Next:

1. Proofs. `VfsGc` first needs its nested frees written without recursion. `Keyboard`:
   `NoGarbage` with unknown sequences, for programs that wait.
2. `Subshell`: a shell that dies between its report and its stop (section 4).
3. `Panel` (totals against marks through reload and panelize), `Group` (focus and
   the states of a dialog that a callback closes), `GrowBuf` (two pipes, one
   buffer).

Modules to be proved about use no RECURSIVE operator and state their invariants
as conjunctions of named parts.

## 3. What is modelled

### FileCopy (`MCFileCopy`, `FileCopy_proofs`)

One process, `panel_operate` over files `1 .. job.files`. `pc` is the label the
code stands at; there is one action per label, with the code's conditions, and
every failure asks the user as `file_error` and its kin do. `status`,
`dstStatus`, `doReget`, `doAppend`, `replace`, `ignoreAll` are the variables of
the same names; `linked` is the list of hard links. A file is the set of its
chunks, so that a copied prefix, an appended tail or a lost chunk can be told
apart. `job`, chosen in `Init`, holds the options, the answers the user may give
and the calls that may fail; another program may create the target.

Not in it: progress display, names and charsets, `chattr` details beyond success
and failure, a symbolic link where the target is one already, which is unlinked and
made again (`file.c:593`). `mknod` under "Ignore all" is the one branch no checked job takes.

### MoveDir (`MCMoveDir`, `MoveDir_proofs`)

Marked directories and files of a panel, copied, moved or deleted. A file is its
path, `source` and `target` are sets of paths, and a frame of `stack` is one call
of `copy_dir_dir`, `recursive_erase` or `erase_dir_iff_empty`; `call` and `val`
are what a call is given and what it has returned. `copy_file_file` is one step,
with what `FileCopy` is about: FILE_CONT only when the content has arrived (when the
code does not keep that, `StaleRegetJobs` and `ExistsJobs` of section 4 show). The
loops that repeat a system call until the user stops saying Retry are one step
each and leave what they leave in `return_status`. `eraseList`, `destDirs` and the
parents (the frames below) are the three lists of the code. The job says which
calls may fail, which answers are given, whether the target exists, lies in the
source, is the source itself, or is on another file system, whether a directory is a
link to its parent, and whether a file appears in the source meanwhile. `WellFormed` says what the jobs have in
common: directories are marked, the tree is finite, what exists is below directories
that list it, and what a directory that is moved or deleted holds is in the tree.

Not in it: hard links to directories (`check_hardlinks`, `file.c:3074`), ACLs and
times, the totals computed before, what is asked inside `copy_file_file`; `erase_at_end` is always TRUE
(`filegui.c:785`). The model keeps what looks odd in the code: a failing `rename`
other than EXDEV returns FILE_CONT when all errors are ignored (1708), a Retry
that succeeds leaves FILE_RETRY as the status of an empty directory, an ignored
`unlink` counts as done, `recursive_erase` returns FILE_RETRY without a dialog when
`opendir` or `lstat` fails (1451, 1466), and the levels above go on after it.

### Subshell (`MCSubshell`, `Subshell_proofs`)

MC and the shell are two processes. MC is at a `pc`, and `site` says which of the
calls of `feed_subshell` it is in; the shell reads commands, runs them, reports
its directory into `cwdPipe` and stops itself; SIGCHLD is pending in `chld` until
the handler runs. `world` fixes what may happen: the persistent command line,
answers slower than the timeouts, a shell that dies while idle or while running,
and type-ahead.

Not in it: fish and tcsh (another way to report), the second feed that zsh gets after
a `cd` (`common.c:1512`, its result is not used), stops by signals other than SIGSTOP,
which the handler answers with SIGCONT (1963), the capture of the prompt and
of command line text, a `cd` that fails, panels on remote file systems. Deaths
happen while the shell reads or runs, not between its report and its stop: there
the model would show that a SIGCHLD between the test of `subshell_alive`
(`common.c:852`) and `select` wakes nobody, and that a wait without a timeout (the
one for the prompt after a ^C) then lasts for ever, since MC holds the other end
of the pty open. That window is a few instructions wide.

### Background, RemoteCall (`MCBackground`, `Background_proofs`)

Midnight Commander and its background jobs. Midnight Commander is one thread:
`stack` holds the calls of `background_attention` and the dialogs they run, since
a dialog's event loop serves the other jobs, and a frame remembers the descriptors
its `select` reported (`sel`) and has not served yet. A job writes a call in the
parts the code writes (routine, head, context, arguments), and may crash or be
stopped or killed between them. `tasks` is `task_list`, `channels` is
`select_list`, `ctxPid` is the pid in the context the parent keeps by pointer: the
code overwrites the whole context with the child's copy, so that it is 0 after the
first call, and `waitpid (0)`, `kill (0)` mean the process group. `listed` is the
list on the screen, which may name tasks that are gone.

`RemoteCall` is what a job is promised: its question is shown once, and the answer
it goes on with is the one the user gave to that question. Its `screen` is what the
innermost event loop stands on: a question, or something else (`Other`), a notice,
the list, or a call that is being read or answered. `StateOf` and `AnswerOf` map the
two processes to it, `Shown` each frame of the stack.

Not in it: calls that return strings, a failing `pipe` or `fork`, the work of a job
between its calls. The model has, and no property excludes, that Midnight
Commander dies of SIGPIPE when it answers a child that is gone (337), blocks in
`read` for a job that was stopped in the middle of a call or that a stale `select`
has announced (`key.c:607`), and leaves without asking about jobs.

### VfsGc (`MCVfsGc`)

Archives, one of them nested in another. `vfs` is the state of the VFS: the
super blocks (`loaded`) with their `fd_usage`, the list of stamps, the current
directory, and what the two panels list. `Load`, `OpenFd`, `CloseFd`, `Free`,
`StampCreate` are the functions of the code as operators from state to state,
because they call each other: freeing an inner archive closes its handle in the
outer one, which may create a stamp for it, while `vfs_expire` walks the list.
The walk is an action per link (`at`), so the list it finds is the one the frees
have left, including links whose data is NULL, which `vfs_stamp_compare` takes
for equal to everything. The timer fires at any time between two actions of the
user and a stamp may have expired by then (`Age`). `current` is the current panel,
which is asked about its directory first; if it shows what is asked for, the other one
is not looked up (`AskPanels`). When the program ends the panels stamp what they leave
in either order: widgets are destroyed in that of the group, and selecting a panel
moves it to the end (WOP_TOP_SELECT, `widget-common.c:632`).

Not in it: archives that change on the disk or fail to open, inodes and directory
caches, the classes that do not use `direntry.c`. Archives whose inner archives
were freed at exit may stay loaded: the process ends.

### EditSave (`MCEditSave`, `EditSave_proofs`)

Windows of one or more editor processes. `win[w]` is the `WEdit` with the
position of its process in it; a process runs one command at a time, processes
interleave at every system call and every dialog. `fs`, `backup`, `temp` are the
files, `link` the lock links, `fd` says where a file opened for writing has gone
when somebody renamed or removed it. `edit_save_file` is a chain of actions from
`Stat` to `Rename`, `lock_file` and `unlock_file` are chains of their own, and
`Settle`/`Reload` are what the two save commands do with the result. `Crash`
kills a process and leaves its locks.

Not in it: dialogs that only cancel (confirm, missing newline), quitting with
several windows, files that are not regular, unreadable or remote, the hex viewer
(which takes the same lock), reused process numbers, locks of other hosts.
`check_file_access` opens or creates the file in one step.

### LineBreaks (`LineBreaks_proofs`)

The loop of `edit_write_stream`, one action per branch, over every buffer up to
`MaxLength`, with every put that may fail, against `Convert`, which joins what becomes
of each byte: itself, the wanted break, or nothing for the second byte of CR LF.

### EditBuffer, TextBuffer (`EditBuffer_proofs`)

`b1` and `b2` are the lists of chunks with `curs1` and `curs2` bytes in them, the
second one filled backwards; the actions are `edit_buffer_insert`,
`_insert_ahead`, `_delete`, `_backspace` and the moves, with the chunk that is
appended or freed at the border, and the load of a file. The searches for lines
and the write of the buffer are operators. `TextBuffer` is a text before and a
text behind the cursor; `Left` and `Right` read the two lists through
`edit_buffer_get_byte`.

Not in it: short reads and failed writes, marks, bookmarks and display.

### EditUndo, EditHistory (`MCEditUndo`)

The two rings as they lie in memory, with their size, bottom and top, the entries
that count repetitions in place, the growth by doubling and the fall of the
oldest groups. A command pushes a key press and the inverse of each of its
changes; `edit_do_undo` and `edit_do_redo` pop and push on the other ring;
`group_undo` joins key presses of a kind. Clicks move the cursor and push nothing,
as `edit_mouse_callback` does. `EditHistory` remembers the texts themselves: Undo
leads to one of them, and only the oldest may be forgotten, only when the ring may
not grow. `Past` computes what the ring still leads to.

Not in it: marks, the display line in a key press, slow loading, which runs with
the undo stack disabled and would push onto the redo ring instead
(`edit.c:442`). What the model shows and the properties exclude: `edit_do_redo`
has no case for a deleted blank or newline (1250-1270), a command that changes
nothing after an Undo ends Redo, and a single command that fills the ring empties
it (2421).

### Keyboard (`MCKeyboard`, `Keyboard_proofs`)

`get_key_code` reads bytes as they arrive. `keys` is the tree
`define_sequence` builds from a list of definitions (`Tree[n]` after the first n), `at` is the static `this`
with the child to try next, `buffer`, `append` and `pending` are `seq_buffer` and
the two pointers into it. The program either waits (`no_delay` FALSE, with the
timeout after an Esc) or polls (a call returns at once, and what was read so far
is kept); a program of the model never changes from one to the other, which in the
code resets `this` but not the buffer (1710). The timeouts compare the clock with the
bytes that are there, whatever is still on the way. `world.slow` says whether the line
may be slower than they are: if not, they run out only when nothing is on the way
(`Late`); if so, they may cut a key anywhere.

Not in it: a read that fails while the program waits (`c == -1` at 1770, the "incomplete
match", and after 1833), for `tty_lowlevel_getch` then waits without a limit. A user who
presses Esc alone waits for its effect before the next key (`PressKey`). Nor the mouse, bracketed paste, the modifiers of the console and of X, key
names.

## 4. What the runs show

Passing runs:

| Run | Bounds | Properties |
|---|---|---|
| `FileCopy_safe` | 3 files, 2 chunks, 10 jobs; 775 000 states | `SafeRemoval`: a source is gone only if the target is complete or the user let it go. `FullMeansComplete`: a file counted as copied is. `ForeignTargetUntouched`, `AbortSticks`: what a step never does. `Terminates` under fairness |
| `MoveDir_safe` | trees of 3 directories and 3 files, 22 jobs, one file that appears; 47 000 states | `GoneForAReason`: a file leaves the source only for its target or by consent. `SilenceMeansDone`: what nobody was told about is done, with the exceptions below. `AbortSticks`. `Terminates`, links to parents and targets inside the source included |
| `Subshell_safe` | 2 directories, 3 calls, 1 typed line, 1 death; 103 000 states, depth 121 | `InactiveAwaits`: INACTIVE means the shell waits and has started what it was sent. `CommandInPanelDir`, `UserNotInterrupted`; `EveryCallReturns` under fairness |
| `Background_safe` | 2 jobs, 2 calls each, 2 crashes, 2 buttons pressed, not all in one world; 330 000 states | `AnsweredByTheUser`: the refinement of `RemoteCall`. `ListShowsJobs`, `OrderlyEnds`; `EveryCallReturns` under fairness |
| `VfsGc_safe` | 3 archives, one nested, 1 handle each, 5 to 7 acts of the user; 9 700 states | `NothingOpenFreed`: handles lead to archives that are there, the use counts are right, nothing is freed twice. `UnusedIsFreed` under fairness of the timer |
| `EditSave_safe` | 2 windows, 2 names, 2 typed texts, 1 command a window when there are two, 2 when there is one; 1.17 million states | `LockExclusive` (one holder, none forgotten), `OriginalSurvives`, `NoSilentOverwrite`, `DeletesNoText`, `ClosedMeansSaved` |
| `LineBreaks_safe` | buffers of 5 bytes over CR, LF and two letters; 45 000 states | `SuccessIsConverted`: no failing put looks like success, Windows breaks and separated breaks come out right |
| `EditBuffer_safe` | chunks of 3 bytes, texts of up to 7 over a letter and a newline; 16 400 states | `IsText`: the refinement of `TextBuffer`. `WritesTheText`, with the counts of lines |
| `EditUndo_safe` | rings of 8 that grow to 16, 5 commands of 7 kinds; 107 000 states | `UndoIsHistory`: the refinement of `EditHistory`. `UndoCanBeRedone` |
| `Keyboard_safe` | 4 known sequences and 2 that are refused, 3 keys, a buffer of 5, in which the longest sequence just fits, 10 worlds, slow lines where no Esc is timed; 62 600 states | `NoGarbage`: what comes out is a part of what was pressed, in order. `EveryKeyArrives` under fairness, where all keys are known, come in time, and Esc is not pressed alone while the program polls |

Why the bounds are enough. The variables of `FileCopy` that outlive a file are
overwritten by the next one, so a third file shows what is carried from one to
another and back; two chunks distinguish nothing, a part and all. A directory with
a file and a directory with a file, in both orders, next to another directory, has
each way a status of one entry can reach the level above and the next entry. Three
calls let the subshell be left, restarted and used again. Two jobs are what a
dialog inside a dialog needs. Three archives give a nested pair and one beside it;
seven acts enter both, open, close and leave. Two editors are what a race needs.
Five bytes hold two Windows breaks and an odd one. Seven bytes in chunks of three
put each list at empty, one byte short of a chunk, full, one over, and two chunks.
A ring of 16 entries grows once and overruns, by one command or by five.

What the worlds and properties leave out, and why. `NoSilentOverwrite` does not
speak about names whose lock was ignored, grabbed, or missed in a race (`bold`,
`missed`), and its worlds give every write a new `st_mtime`; without these TLC finds
a lost text (`lock_file` returns 0 to the loser of a race and the save goes on;
`st_mtime` has whole seconds). `ClosedMeansSaved` excludes a cancelled save, see
below. The worlds with two windows have no stale lock (`unlink` at `lock.c:257` may
remove the lock the other editor has just taken) and no backup mode (a window
opened between the two renames creates the file, and later deletes the saved one).
`SilenceMeansDone` excludes what the code passes over without a word: copied
directories that cannot be read (`file.c:3214`), what is ignored or skipped because of
an answer given for all (Ignore all, None of the targets), and deletions that could not
open a directory or look at an entry (1451, 1466) or fall under None, given for an
earlier directory; these last keep their mark, and the property says so
(`KeptSilently`). `AbortSticks` of `MoveDir`
excludes the answer about the emptied top directory (`file.c:1599`, whose result is not
used). `NoGarbage` and `EveryKeyArrives` speak of a line that is faster than the
timeouts, or of a decoder that times no Esc: the code takes what a timeout cuts for the
end of a key, and no property can promise otherwise. `UndoCanBeRedone` speaks of a Redo
that follows its Undo at once, and not of deleted blanks and newlines. `OrderlyEnds`
speaks of jobs that do not crash: after a call with a context the kill of a broken
child goes to the whole process group. `UnusedIsFreed` is for two panels with
listings: as long as one shows something else no stamp is created
(`filemanager.c:459`).

Two runs show a disagreement between the code and what is said of it:

| Run | Property | What happens |
|---|---|---|
| `EditSave_v_cancel` | `CancelKeepsOpen` | Close, Yes, Cancel at the hard link (or modified-meanwhile) question: the window closes, the changes are gone |
| `Background_v_error` | `EveryCallReturns` | a job whose copy fails sends its call by value where a pointer is expected: the call never arrives as a whole, and the job waits for ever |

The MC modules define further worlds in which a property fails. Put in place of
`SafeWorlds` (`SafeJobs`) in the cfg of the passing run, each gives a trace:

| World | Property | What happens |
|---|---|---|
| `AbortJobs` | `AbortSticks` | Abort, then Keep for the short target, on a file system without ext2 attributes: `file.c:2959` overwrites the status and the operation goes on |
| `StaleRegetJobs` | `FullMeansComplete` | `do_reget` chosen for one file applies to the next, which is copied from that offset and counts as complete |
| `ExistsJobs` | `SafeRemoval` | another program creates the target meanwhile: the failing exclusive open (EEXIST) returns the FILE_CONT that was left over where the source has no ext2 attributes, and the source is removed |
| `AllocAbortJobs` | `AppendKeepsOld` | Abort at a failed preallocation unlinks the file that was only to be appended to |
| `ReadJobs` | `FailureIsTold` | a deletion whose `lstat` of an entry fails stops there, nobody is told, and the directories above are tried all the same |
| `TagJobs` | `UntaggedSucceeded` | a directory loses its mark although an entry in it was skipped: the status is that of the last entry |
| `SlowWorlds` | `InactiveAwaits` | a `cd` longer than ten seconds: its late prompt makes MC flush the command sent after it |
| `KilledWorlds` | `CommandAlwaysInPanelDir` | the shell is killed while MC is idle: the next command runs in the home directory |
| `AheadWorlds` | `UserNotInterrupted` | the user types ahead: MC takes the shell for ready and sends a ^C into a running program |
| `ConvertWorlds` | `DeletesNoText` | a new file saved with other line breaks is unlinked by the reload that follows |
| `LateWorlds` | `OriginalSurvives` | `fclose` fails unseen and a cut text replaces the original of a safe save |
| `SecondWorlds` | `NoSilentOverwrite` | two writes within one second look like none to the other editor |
| `UnnamedWorlds` | `NoSilentOverwrite` | two windows without a name save as the same new file: the later one has no time to compare (`edit->stat1.st_mtime != 0`) and overwrites what the first has saved |
| `LineBreaks_safe` with `AllConverted` | `AllConverted` | a final line feed is doubled by a conversion to Unix breaks |
| `ExitWorlds` | `NothingOpenFreed` | leaving with the outer archive in the right panel and the inner one in the left frees the outer one first, whose inode the inner one still holds |
| `ReplacedWorlds` | `NothingOpenFreed` | the stamp of an archive that a replaced panel had listed lets Free VFSs free it under an inner one |
| `EscWorlds` | `PolledEscArrives` | a lone Esc while the program polls is kept until the next key |
| `SplitWorlds` | `NoGarbage` | `old_esc_mode` and a slow line: the timeout cuts a sequence into an Esc and typed characters, waiting and polling |
| `SlowWorlds` | `NoGarbage` | an unknown sequence on a slow line: its tail comes after `key.c:1733` has given up eating it, and is typed |
| `UnknownWorlds` (four keys) | `NoGarbage` | an unknown sequence while polling: the next key is matched in the middle of the tree |
| `BracketWorlds` | `NoGarbage` | Alt-[ and then another key: the pending keys are given out from the wrong place |

## 5. Fairness

`FileCopy`: weak fairness of the operation as a whole - the user answers, the
system calls return, and a retry that changes nothing is not repeated for ever -
and strong fairness of reading a chunk: with "Ignore all" a read that fails is
repeated by the code without a question (`file.c:2720`), so termination needs a
disk that is readable some time.

`MoveDir`: weak fairness of the operation. It is one thread that waits for nobody
but the user; retries are inside a step, so they end.

`Subshell`: weak fairness of MC's own steps, of the shell's steps (what the user
runs ends) and of the user coming back with Ctrl-O. The death of the shell, the
timeouts and typing are not fair.

`Background`: weak fairness of the event loop (`Select`), of what it has begun
(`Attention`), of the user in a dialog (answers come, notices and the list are
closed), and of each job by itself, which the kernel schedules apart. Starting
jobs, crashes, the buttons of the list and leaving are not fair.

`VfsGc`: weak fairness of the walk of `vfs_expire` and of the timer, which
`tty_get_event` runs at least every ten seconds, and strong fairness of the clock
for each place of the list: the user's acts renew stamps and disable it now and
then.

`Keyboard`: weak fairness of the program that calls `get_key_code`, of the clock
(the timeouts after an Esc), and of the bytes on their way. Pressing keys is not
fair.

`EditSave`, `LineBreaks`, `EditBuffer` and `EditUndo` state safety only.

## 6. Proofs

Each theorem holds for every value of the constants that the named assumptions
allow; the runs of section 4 check the same formulas on small instances. The
invariants were checked by TLC, on the worlds of the passing runs, before they were
proved.

| Module | Theorem | States | Hypothesis |
|---|---|---|---|
| `FileCopy_proofs` | `TypeCorrect` | `[]TypeOK` | |
| | `CarefulMoveIsSafe` | `[]SafeRemoval` | `Careful(job)` |
| | `CarefulFullIsComplete` | `[]FullMeansComplete` | `Careful(job)` |
| | `ForeignTargetsRespected` | `ForeignTargetUntouched` | `Unraced(job)` |
| | `AbortIsHeeded` | `AbortSticks` | `Heeded(job)` |
| `MoveDir_proofs` | `TypeCorrect` | `[]TypeOK` | |
| | `NothingIsLost` | `[]GoneForAReason` | |
| | `AbortIsHeeded` | `AbortSticks` | |
| | `SilenceIsSuccess` | `[]SilenceMeansDone` (whose exceptions section 4 names) | |
| `Subshell_proofs` | `TypeCorrect` | `[]TypeOK` | |
| | `TheShellAwaits` | `[]InactiveAwaits` | `Prompt(world)` |
| | `CommandsRunInPlace` | `CommandInPanelDir` | `Prompt(world)` |
| | `UserIsNotInterrupted` | `UserNotInterrupted` | `Prompt(world)` |
| `EditSave_proofs` | `TypeCorrect` | `[]TypeOK` | |
| | `LockIsExclusive` | `[]LockExclusive` | every world `Careful` |
| | `ClosedIsSaved` | `ClosedMeansSaved` | |
| | `SafeSavesKeepTheOriginal` | `[]OriginalSurvives` | `Kept(world)` |
| | `OnlyEmptyFilesDeleted` | `DeletesNoText` | `Own(world)` |
| | `NoneOverwrittenUnasked` | `NoSilentOverwrite` | `Heedful(world)` |
| `Background_proofs` | `TypeCorrect` | `[]TypeOK` | |
| | `ListIsTrue` | `[]ListShowsJobs` | |
| | `EndsAreOrderly` | `[]OrderlyEnds` | |
| | `AnswersArrive` | `AnsweredByTheUser`, the refinement of `RemoteCall` | |
| `EditBuffer_proofs` | `TypeCorrect` | `[]TypeOK` | |
| | `IsTextHolds` | `IsText`, the refinement of `TextBuffer` | |
| | `WritesTheTextHolds` | `[]WritesTheText` | |
| `LineBreaks_proofs` | `SuccessIsConvertedHolds` | `[]SuccessIsConverted` | |
| `Keyboard_proofs` | `KeyboardTypeOK` | `[]TypeOK` | |
| | `KeysAreKeys` | `[]NoGarbage` | `Familiar(world)`, `InTime` |

### FileCopy

`NFiles` and `NChunks` are positive, `Jobs` is a set of jobs (`SizesAssumption`,
`JobsAssumption`). Each hypothesis excludes circumstances in which section 4 shows
the property violated:

* `Careful`: no Reget, no target without ext2 attributes or failing to set them, no
  intruder together with a source without attributes, no "Ignore all" with special
  files (`StaleRegetJobs`, `AbortJobs`, `ExistsJobs`).
* `Unraced`: a copy, or no other program. `rename` of a move replaces a target
  that another program creates after the question about it.
* `Heeded`: Abort cannot be answered, or `close` does not fail and the attributes
  can be set. A failing `close` (`file.c:2868`) and FILE_CONT over a short file that is
  kept (`file.c:2959`) overwrite the FILE_ABORT.

`SafeRemoval` is not inductive: when `move_file_file` stands before `unlink`
nothing in the property says that the copy it comes from has succeeded. The
invariant `IInv` says what each label knows - which sources are still there
(`SourcesAhead`), what the flags of the last dialogs can be (`IgnoreAllAsked`,
`NoOffset`), what `dst_status` claims about the target (`TargetStatus`,
`Arrived`), that a short target means a failure status (`ShortIsFailure`), and
that finished targets survive the next files, hard links included
(`LinksBehind`, `CopiedSurvives`). `SafetyStep` takes one step per action. The two
action properties have invariants of their own: at every label from which a target
that is not ours can be written the user has agreed to it (`AnsweredFirst`), and
after Abort the status stays FILE_ABORT up to the end (`Aborted`).

### MoveDir

`NamesAssumption` tells the two names the model adds from each other, and
`JobsAssumption` wants well-formed jobs; nothing is excluded. `TInv` is typing with
what the types rest on: which frames the stack may hold at each label, that the
stack has room where a call is about to be made, and that paths in the lists are
paths of the job. `GoneForAReason` needs to know why a source file may be unlinked,
long after the decision: the file stands in `erase_list` because it has arrived
(`Listed`), a `recursive_erase` runs because the user confirmed the directory it
started from (`Callers`, `Entered`, `Agreed`), and what appeared meanwhile is under
names of its own (`Added`). `AbortSticks` follows from `Leaving`: after FILE_ABORT
each frame that returns hands it on.

`SilenceMeansDone` speaks of the end, and of directories during which nobody was asked
anything. Its invariant `SInv` says what silence means on the way. As long as the user
has not been asked about the marked directory (`Quiet`) every call of a copy that returned
has returned FILE_CONT (`Smooth`). The frames are one below the other, each about the entry
the one above has come to (`Chain`), and whatever existed below the directory of a frame
has arrived, or is still to be read, or lies on the path of the calls (`Progress`); so
that nothing is missing when the last call returns. For a move this is not enough:
`erase_dir_iff_empty` leaves a directory that is not empty without a word, so
`erase_list` must name a directory after all that is in it (`Order`), and what is left
in the source must be in the list (`Remaining`). Only paths above what the other program
has created may stay (`Hides`). A deletion is not that smooth: `recursive_erase` may return FILE_RETRY and
nobody is asked, and the levels above try the rest (`Unbroken`). What silence leaves
then is one of two: the directory is done and its mark gone, or it returned something
else than FILE_CONT and keeps its mark, in a job where that can happen
(`KeptSilently`). `Past` keeps all that for the directories that are done.
The last part of `WellFormed` is used here: a file that no directory lists would be
passed over. TLC checked `SInv` in the 47 000 states of `MoveDir_safe`.

### Subshell

`Prompt(world)`: no type-ahead, and the two calls that change the directory get
their prompt within ten seconds. TLC violates `InactiveAwaits` in `SlowWorlds` and
in `AheadWorlds`, and the other two properties in `AheadWorlds`. Every other
behaviour is in: slow shells elsewhere, deaths, restarts, the persistent command
line on and off.

`InactiveAwaits` speaks of INACTIVE alone and is not inductive: that the shell
waits when MC comes to rest depends on what has been sent while MC was waiting for
it. `Places` says, per place of MC, what the two processes have exchanged: at rest
the shell is quiet or dead (`Resting`), after a line was sent it is still in the
terminal, or running, or reported and about to stop (`Executing`, `Waiting`, `Stopping`,
`Fed`), a question for the command line is answered in order (`Asked`), and so on.
`Signals` ties `subshell_alive` and `_stopped` to the SIGCHLD that is still pending.
TLC checked it in 1.6 and 7.6 million states (one and two lines, two directories).

### EditSave

`WorldsAssumption`: a world has a process for each window, and what a world has.
`TInv` types every window by what the place of its process needs (`LockingOK`,
`SavingOK`, `UnlockingOK`, `ClosingOK`). `LockExclusive` follows from four facts: a
holder's link names its process (`Held`), two windows do not hold one name
(`Single`), the link of a running process is held by one of its windows (`Known`),
and a link that is about to be removed belongs
to a dead process (`Orphaned`). The hypothesis: no stale link, or all windows
in one process. Two processes that find the link of a dead one may both remove it, the
second one the lock of the first (`lock.c:257`). `ClosedIsSaved` needs no
invariant beyond the types: each path to the end of a window is followed from the
step that sets it.

Three theorems are about files. `Kept(world)`, of the first, has three parts:

* A write that fails is reported: no late errors of a filter or of `fclose` (TLC
  violates `OriginalSurvives` in `LateWorlds`).
* Texts are saved under names that were free at the start, or all windows have opened
  files that were there. Otherwise a user may replace a file by the empty text
  of a new window, which is what he asked for.
* With backups, one window and no failing call. When the second rename fails the file
  is under its backup name, the next save finds no file and is a quick one, and the
  save after it takes the file that one may have cut short for the original, whose
  backup it replaces. Without any failure a second window does the same that opens the
  file between the two renames: it creates an empty one and saves that.

Safe saves keep their promise with any number of windows, whatever calls fail. What is
renamed to the name must be whole, and that goes back to where the window got its text
and its name from (`TextKept`, `NameKept`), to the mode that `edit_save_file` works in,
which depends on its `stat` having found the file (`ModeKept`), and to what was written to the
temporary file (`TempKept`). With backups the file may for a moment be only in the
temporary file, and there for ever when the process dies then (`Survives`).

`Own(world)` excludes two circumstances. A file that was created is saved with other
line breaks: `edit_reload` deletes it (`ConvertWorlds`). And a file that one window
creates is also opened or saved as by another, which includes two windows on one file
with backups: a window that opens the file between the two renames creates it, and
deletes what the second rename has put there (TLC finds it without a failing call).
The invariant says that a file to be deleted is the window's own creation (`Mine`), that what is renamed is there
(`FileThere`), and that the file has no text except while the locks of the save that wrote it
are lowered, after which `edit_save_cmd` resets `delete_file` (`Nothing`). `SafeWorlds`
are all in `Own`.

`Heedful(world)` is what the comparison of `st_mtime` relies on: every write has a time
of its own, no lock is missed because of a dead process (`Careful`), a file that is
created belongs to one window (`Own`), and every window was opened on a file. Backups
are allowed. Within one second TLC finds a lost text (`SecondWorlds`). The last
condition is needed too: a window without a name has no `stat1`, and `edit_save_file`
compares no times then (`stat1.st_mtime != 0`). Two such windows save as the same new
name; neither is asked, for the file is not there when the names are given, and
the one that gets the lock second overwrites what the first has saved. TLC finds this in
`UnnamedWorlds`. All of `SafeWorlds` but that of the unnamed window are in `Heedful`, and there it
is alone. Names whose lock a user grabbed or ignored, or that lost a race for
it, are excepted by the property itself.

That no text is lost is nowhere in the state, so the invariant has to say what each
window knows. While a file has the time that a window remembers, the window knows its text
(`Current`); a window that saves has the lock or created the file (`Claims`), hence
two windows do not save one file (`OneSaves`); a text that is about to be overwritten
unasked is the one the window last loaded or saved (`Aware`), because `stat` found
the time that the window remembers and nobody else could write since
(`CheckedAware`, `OtherAware`). A name given to "save as" that was free then cannot
get the time of the window later (`Unseen`), nor can a temporary file have a time
that a window or a file has (`OwnTime`), which is what the rename relies on. The question
about hard links is between `stat` and the comparison (`Looked`). `DeletesNoText` is
a lemma of this proof: what is not overwritten must not be unlinked either
(`Spares`).

### Background

`BoundsAssumption` wants a job, `WorldsAssumption` says what a world has; nothing is
excluded, jobs whose copy fails and whose call never arrives included. The parts of
`Inv` speak of the two ends of a pipe together. What is in the pipe and what the job
has not written yet are the rest of one call (`Rest`, `Sent`), so that the part after
which the parent acts is the last one, and the job waits. The calls on the stack belong to
jobs that wait for them or are dead (`FrameOK`), all but the innermost frame are
dialogs (`Nested`), and a job has one call on the stack, however many dialogs of it
are open (`OneCall`): this is why an answer goes to the question it was given to. A
job that has said good-bye is in no list and no call (`Parted`), although a `select`
may have announced it before; hence the kill of a whole process group is never on
its account, which is `OrderlyEnds`, and the pid in the context is that of the job or
none (`OwnPid`). `Watched` is the other half of the list. `check_selects` takes
the newest of a set of descriptors: that a set of jobs has a greatest one
(`HasMax`) is the least-number principle on `N - j`.

The lemmas are in the order of a proof by steps: what becomes of the stack
(`Returning`, `Becoming`, `StackMoves`), what one job's step and the parent's step
have to establish (`JobMoves`, `DialogMoves`, `AttentionMoves`), one lemma for each action
(`...Step`), and for the refinement one more (`...Keeps`).

### EditBuffer

`BoundsAssumption`: chunks are not empty and `MaxLength` is a number. The invariant
`LInv` says that each list has exactly the chunks its bytes need, that `size` is
the sum of both, and that both are empty before the load. `Left` and
`Right`, the text as `edit_buffer_get_byte` shows it, are then followed through each
operation: a byte put at the end of a chunk list, with or without a new chunk, is
appended to the text before the cursor or put in front of the text behind it
(`PutIsAppend`, `PutIsCons`), and taking one is the inverse (`TakeIsFront`, `TakeIsTail`).
Chunk borders are arithmetic on `\div` and `%`, stated once as lemmas.

`WritesTheText` is about what recursive functions compute: the joined chunks, the count
of newlines, the search for a line forward and back. `Least` and `Induction` derive
induction over the natural numbers from the well-foundedness of `<`
(`NatLessThanWellFounded`, `WFMin`); it is used on a set of numbers, "the n for which the
claim holds". By it the function that a definition chooses exists, and the choice
satisfies its recursive equation. `FlattenIs` and `WrittenIs` then say what
`edit_buffer_write_stream` has written at each place. `Counted` is the number of newlines in
an interval, which adds up over adjacent intervals, so that the counters, which only go up
and down by one, stay counts (`CountersAreLines`). `LinesThereAndBack` is the search:
each step forward goes behind the next newline, each step back to the start of the
line before, so that as many steps back undo the steps forward.

### LineBreaks

`LineBreaksAssumption` bounds the buffer. `Text` and `Convert` are pieces, one for each
byte, joined by `FlattenSeq`; `FlattenAppend`, by the same induction, says that a further
byte adds its piece (`TextAppend`, `ConvertAppend`). The invariant relates what is out
to the bytes that the loop is past: their ordinary characters are out, and, where the
property promises the breaks, their conversion; then the loop never stands between the two
bytes of a Windows break. A put that fails leaves a smaller counter than the size, with one
exception, the second put at the last byte. This byte is a break, thus no
character is missing, and the text is not one with a promise about its breaks.

### Keyboard

`BytesAssumption`, `BoundsAssumption`, `WorldsAssumption` and `DefsAssumption` type the
constants; the buffer has more than three cells and one definition at least is taken, as the
defaults of the program are. `TypeOK` is more than typing: no pointer leaves `seq_buffer`,
`pend_send` goes on only at an Esc, and a full buffer means that the children still to be
tried are leaves, so that the failing `push_char` at `key.c:1804` is never reached
(`Overfull`, which `MatchKeeps` excludes). It rests on the tree: `DefineOK` says that a definition
keeps it well formed, and `TreesOK` does the induction over the definitions. The
invariant relates pointer and place: `seq_append` is at most one cell farther than the
place is deep. It can be less far, when a program that polls has thrown an unknown
sequence away and goes on at the last child it tried.

`NoGarbage` holds for whoever presses keys that end where the decoder expects it, waiting
or polling (`KeysAreKeys`): where no Esc is timed, with every delay between the bytes, and
with `old_esc_mode`, if what belongs to an Esc comes before its timeout (`InTime`). Without
that it is false, as `SplitWorlds` show. `Familiar` says
which keys: all bytes but the last lead to an inner node of the tree, and the last one
completes a known sequence, or finds no child at the root (a character) or behind the Esc
(Alt and a key); besides, the Esc alone, where longer sequences begin with it. The worlds of
`Keyboard_safe` are such, apart from those with the unknown sequence. What it excludes is
excluded for a reason: after an unknown sequence the decoder may go on inside the next key
(`UnknownWorlds`), and Alt-[ is the beginning of other sequences (`BracketWorlds`); an
unknown sequence that loses whole keys and keeps the others intact, which the run covers for
programs that wait and lines in time (`SlowWorlds`), is left to TLC. `EscapeAssumption` says that Esc is the only
escape, as in `mc_default_keys` (`key.c:282`). The invariant
`Decodes` says that the bytes from the root to the place, those that have come and those on
the way are the keys without a code, one after the other. That a byte which completes or ends
something ends the key needs the shape of the tree: every beginning of a node is an inner node
that has the next byte as a child (`Branches`, which `DefineShape` shows of each definition: the
new branch leaves the tree at its longest known beginning). A place behind a lone Esc whose
time is over has nothing behind it, because nobody presses a key then before the Esc had
its effect.

### Only model-checked

All liveness (`Terminates`, `EveryCallReturns`, `UnusedIsFreed`, `EveryKeyArrives`), which
the provers cannot treat. `VfsGc`, which loads nested archives with RECURSIVE operators.
`EditUndo` (`UndoIsHistory` compares texts that recursive functions
compute from rings in memory) and `NoGarbage` of `Keyboard` in worlds with unknown
sequences: not attempted yet.

## 7. Not modelled

Dialogs and groups, the viewer's growing buffer and the panels are candidates
(section 2). Archive formats, network protocols, drawing, search and configuration
are data handling or depend on servers outside the repository; `PROJECT.json` gives
the reason for each. What is left out of a modelled part is named in section 3.

Met while reading, and stated by no property: `boxes.c:473` reads the pid of a task it
has just freed (the model takes it to be still there or not); an archive that has
changed on the disk is freed by `archive_same` without a look at its handles, and
the freed super block is returned (`direntry.c:1143`, `tar.c:1058`); a click
between Undo and Redo applies the Redo at the place of the click
(`editwidget.c:694`).
