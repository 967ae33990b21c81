------------------------------ MODULE Subshell ------------------------------
(***************************************************************************)
(* The concurrent subshell (src/subshell/common.c) and its callers          *)
(* (src/execute.c, src/filemanager/command.c): MC and a shell that run side *)
(* by side and talk over four channels.                                     *)
(*                                                                         *)
(*   tty      what MC writes into the pty and the shell has not yet read    *)
(*   cwdPipe  before each prompt the shell writes `pwd` here, stops itself  *)
(*            with SIGSTOP and waits for MC's SIGCONT                       *)
(*   bufPipe  the shell's answers to the two keys that ask for its command  *)
(*            line (shells with a "persistent buffer" only)                 *)
(*   chld     SIGCHLD, which tells MC that the shell has stopped or died    *)
(*                                                                         *)
(* pc is the place MC stands at; feed_subshell is called from six places,   *)
(* and site is the one it will return to.  What the shell prints is left    *)
(* out.  MC keeps both ends of the pty and of the pipes open, so the death  *)
(* of the shell shows in none of them.                                      *)
(***************************************************************************)
EXTENDS Integers, Sequences

CONSTANTS
  Dirs,      \* directories
  Home,      \* where a new shell starts
  Worlds,    \* what the shell and the user may do, see WorldType
  MaxOps, MaxLines, MaxDeaths  \* bounds: calls of MC, lines typed in the shell, deaths

ASSUME HomeAssumption == Home \in Dirs
ASSUME BoundsAssumption == MaxOps \in Nat /\ MaxLines \in Nat /\ MaxDeaths \in Nat

Sites == {"init", "chdir_int", "chdir", "intr", "run", "repair", "clear"}

WorldType == [
  persistent : BOOLEAN,   \* bash, zsh: the command line can be asked for
  slow : SUBSET (Sites \cup {"buffer"}),  \* waits that may exceed MC's patience
  dies : SUBSET {"idle", "run"},  \* the shell may die while MC is idle, or in a line
  ahead : BOOLEAN         \* the user types before he sees a prompt
]

ASSUME WorldsAssumption == Worlds \subseteq WorldType

NoDir == "none"
Garbled == "garbled"  \* two messages of the cwd pipe in one read
Lines == [kind : {"cd", "cmd", "user"}, dir : Dirs]
Keys == [kind : {"precmd", "bufkey", "curkey"}]

VARIABLES
  world,
  pc, site, result, op,
  state,       \* subshell_state
  ready,       \* subshell_ready
  alive, stopped, \* subshell_alive, subshell_stopped: set by the SIGCHLD handler
  use,         \* mc_global.tty.use_subshell
  persistent,  \* use_persistent_buffer
  cwd,         \* subshell_cwd
  panel,       \* current_panel->cwd_vpath
  newDir,      \* new_dir_vpath of the callers
  quit,        \* quit & SUBSHELL_EXIT
  \* --- the shell
  shell, job, shellCwd,
  hooked,      \* the precmd is installed
  intr,        \* a ^C that waits until the shell is continued
  exited,      \* the dead shell left by itself
  chld, tty, cwdPipe, bufPipe,
  command,     \* history: the last command MC has passed on
  left         \* what is left of the bounds

control  == <<pc, site, result, op>>
flags    == <<state, ready, use, persistent>>
handled  == <<alive, stopped, quit>>
places   == <<cwd, panel, newDir>>
process  == <<shell, job, shellCwd, hooked, intr, exited>>
channels == <<tty, cwdPipe, bufPipe>>
vars == <<world, control, flags, handled, places, process, chld, channels, command, left>>

States == {"inactive", "active", "running"}
Labels == {"init", "idle", "exit", "chdir", "invoke", "command", "feed", "enter", "select", "sync",
           "fed", "ask_buffer", "wait_buffer", "wait_cursor", "inited", "restart", "quit", "adopt"}

Goto(label) == pc' = label
Feed(where) == pc' = "feed" /\ site' = where /\ UNCHANGED result
Send(line) == tty' = Append(tty, line)

\* The shell waits at its prompt, and no line is on its way to it or from it.
NoLine == \A i \in 1 .. Len(tty) : tty[i].kind \in {"bufkey", "curkey"}
AtPrompt == shell = "read" /\ cwdPipe = <<>> /\ NoLine

Init ==
  /\ world \in Worlds
  /\ pc = "init" /\ site = "init" /\ result = FALSE /\ op = "start"
  /\ state = "inactive" /\ ready = FALSE /\ use = TRUE
  /\ persistent = world.persistent
  /\ alive = FALSE /\ stopped = FALSE /\ quit = FALSE
  /\ cwd = NoDir /\ panel \in Dirs /\ newDir = NoDir
  /\ shell = "dead" /\ job = [kind |-> "user", dir |-> Home] /\ shellCwd = Home
  /\ hooked = FALSE /\ intr = FALSE /\ exited = FALSE
  /\ chld = FALSE /\ tty = <<>> /\ cwdPipe = <<>> /\ bufPipe = <<>>
  /\ command = "none"
  /\ left = [ops |-> MaxOps, lines |-> MaxLines, deaths |-> MaxDeaths]

-----------------------------------------------------------------------------
(* The shell: an interactive program that is told by the precmd to report   *)
(* its directory and to stop before every prompt                            *)

ShellStarts ==
  /\ shell = "start"
  /\ shell' = "read"
  /\ UNCHANGED <<job, shellCwd, hooked, intr, exited, chld, channels, command, left>>

ShellReads ==
  /\ shell = "read" /\ tty # <<>>
  /\ tty' = Tail(tty)
  /\ LET next == Head(tty) IN
       \/ /\ next.kind = "precmd"
          /\ hooked' = TRUE /\ shell' = "pwd"
          /\ UNCHANGED <<job, bufPipe, command>>
       \/ /\ next.kind \in {"bufkey", "curkey"}
          /\ bufPipe' = IF hooked THEN Append(bufPipe, next.kind) ELSE bufPipe
          /\ UNCHANGED <<job, hooked, shell, command>>
       \/ /\ next \in Lines
          /\ shell' = "run" /\ job' = next
          /\ command' = IF next.kind = "cmd" THEN "started" ELSE command
          /\ UNCHANGED <<hooked, bufPipe>>
  /\ UNCHANGED <<shellCwd, intr, exited, chld, cwdPipe, left>>

ShellFinishes ==
  /\ shell = "run"
  /\ shellCwd' \in IF job.kind = "cd" THEN {job.dir} ELSE Dirs
  /\ shell' = IF hooked THEN "pwd" ELSE "read"
  /\ UNCHANGED <<job, hooked, intr, exited, chld, channels, command, left>>

ShellReports ==
  /\ shell = "pwd"
  /\ cwdPipe' = Append(cwdPipe, shellCwd)
  /\ shell' = "stop"
  /\ UNCHANGED <<job, shellCwd, hooked, intr, exited, chld, tty, bufPipe, command, left>>

ShellStops ==
  /\ shell = "stop"
  /\ shell' = "stopped" /\ chld' = TRUE
  /\ UNCHANGED <<job, shellCwd, hooked, intr, exited, channels, command, left>>

\* Killed by a signal, or ended by the line it runs.
ShellDies ==
  /\ left.deaths > 0
  /\ \/ /\ "idle" \in world.dies /\ pc = "idle" /\ AtPrompt /\ exited' = FALSE
     \/ /\ "run" \in world.dies /\ shell = "run" /\ job.kind # "cd" /\ exited' \in BOOLEAN
  /\ shell' = "dead" /\ chld' = TRUE
  /\ left' = [left EXCEPT !.deaths = @ - 1]
  /\ UNCHANGED <<job, shellCwd, hooked, intr, channels, command>>

ShellStep == ShellStarts \/ ShellReads \/ ShellFinishes \/ ShellReports \/ ShellStops

\* ^C written into the pty: the terminal drops what the shell has not read and
\* interrupts what runs, which leads to a new prompt.
Interrupt ==
  /\ tty' = <<>>
  /\ shell' = IF shell \in {"read", "run"} /\ hooked THEN "pwd" ELSE shell
  /\ intr' = (intr \/ shell \in {"pwd", "stop", "stopped"})
  /\ UNCHANGED <<job, shellCwd, hooked, exited>>

\* SIGCONT
Continue ==
  /\ shell' \in IF shell # "stopped" THEN {shell} ELSE {"read"} \cup (IF intr THEN {"pwd"} ELSE {})
  /\ intr' = IF shell = "stopped" THEN FALSE ELSE intr
  /\ UNCHANGED <<job, shellCwd, hooked, exited>>

-----------------------------------------------------------------------------
(* sigchld_handler: it runs whenever a SIGCHLD is pending.  In select() it   *)
(* makes feed_subshell start over (EINTR), everywhere else MC goes on.       *)

SigChld ==
  /\ chld /\ chld' = FALSE
  /\ IF shell = "dead"
       THEN alive' = FALSE /\ quit' = (quit \/ exited) /\ UNCHANGED stopped
       ELSE stopped' = (stopped \/ shell = "stopped") /\ UNCHANGED <<alive, quit>>
  /\ pc' = IF pc = "select" THEN "feed" ELSE pc
  /\ UNCHANGED <<site, result, op, flags, places, process, channels, command, left>>

-----------------------------------------------------------------------------
(* feed_subshell *)

Visible == site = "run"                        \* how = VISIBLY
Patient == site \in {"intr", "run"}             \* fail_on_error = FALSE
Return(value) == pc' = "fed" /\ result' = value /\ UNCHANGED site

FeedChecks ==
  /\ pc = "feed"
  /\ IF alive THEN Goto("enter") /\ UNCHANGED result
              ELSE pc' = "fed" /\ result' = FALSE
  /\ UNCHANGED <<site, op, flags, handled, places, process, chld, channels, command, left>>

\* A SIGCHLD that comes before select() does not wake it.
FeedEnters ==
  /\ pc = "enter" /\ Goto("select")
  /\ UNCHANGED <<site, result, op, flags, handled, places, process, chld, channels, command, left>>

\* One read() takes all that is in the pipe.
ReadCwd ==
  /\ cwdPipe # <<>> /\ cwdPipe' = <<>>
  /\ cwd' = IF Len(cwdPipe) = 1 THEN Head(cwdPipe) ELSE Garbled
  /\ UNCHANGED <<panel, newDir, tty, bufPipe>>

FeedReadsCwd ==
  /\ pc = "select" /\ ReadCwd /\ Goto("sync")
  /\ UNCHANGED <<site, result, op, flags, handled, process, chld, command, left>>

\* The shell is late, or has nothing more to say.
Silent == cwdPipe = <<>> /\ ~chld /\ (shell \in {"dead", "stopped"} \/ (shell = "read" /\ tty = <<>>))

FeedTimesOut ==
  /\ pc = "select" /\ ~Patient
  /\ site \in world.slow \/ Silent
  /\ Return(FALSE)
  /\ UNCHANGED <<op, flags, handled, places, process, chld, channels, command, left>>

StaysReady(newline) == ready  \* mutant: subshell_ready is not reset
ReadyAfter(newline) == ready /\ ~newline

\* The user types a line, or, if he types ahead, a line and the beginning of another.
FeedPassesLine ==
  /\ pc = "select" /\ Visible /\ cwdPipe = <<>> /\ left.lines > 0
  /\ world.ahead \/ (AtPrompt /\ ready)
  /\ Send([kind |-> "user", dir |-> Home])
  /\ \E newline \in IF world.ahead THEN BOOLEAN ELSE {TRUE} : ready' = ReadyAfter(newline)
  /\ Goto("feed")
  /\ left' = [left EXCEPT !.lines = @ - 1]
  /\ UNCHANGED <<site, result, op, state, use, persistent, handled, places, process, chld,
                 cwdPipe, bufPipe, command>>

Switched == IF ready THEN "inactive" ELSE state

\* The subshell switch key
FeedSwitches ==
  /\ pc = "select" /\ Visible /\ cwdPipe = <<>>
  /\ state' = Switched
  /\ IF ready /\ persistent THEN Goto("ask_buffer") /\ UNCHANGED <<site, result>> ELSE Return(TRUE)
  /\ UNCHANGED <<op, ready, use, persistent, handled, places, process, chld, channels, command, left>>

NoWait == TRUE  \* mutant: the shell is continued at once
StoppedOrDead == stopped \/ ~alive

KeepsStopped == stopped  \* mutant: the flag is not reset
ClearedFlag == FALSE

\* synchronize: wait until the shell has stopped, drop what it has not read
\* unless the user is in it, and let it go on.
Synchronize ==
  /\ pc = "sync" /\ StoppedOrDead
  /\ tty' = IF state = "active" THEN tty ELSE <<>>
  /\ stopped' = ClearedFlag /\ Continue
  /\ IF site = "clear"
       THEN Goto("command") /\ UNCHANGED <<result, state, ready>>
       ELSE /\ ready' = TRUE
            /\ IF state = "running"
                 THEN state' = "inactive" /\ pc' = "fed" /\ result' = TRUE
                 ELSE Goto("feed") /\ UNCHANGED <<result, state>>
  /\ UNCHANGED <<site, op, use, persistent, alive, quit, places, chld, cwdPipe, bufPipe, command, left>>

-----------------------------------------------------------------------------
(* read_command_line_buffer: called to test a new shell (site = "init"), at *)
(* the switch key (site = "run") and once more after a ^C (site = "repair") *)

AskBuffer ==
  /\ pc = "ask_buffer" /\ Goto("wait_buffer")
  /\ bufPipe' = <<>> /\ Send([kind |-> "bufkey"])
  /\ UNCHANGED <<site, result, op, flags, handled, places, process, chld, cwdPipe, command, left>>

AskCursor ==
  /\ pc = "wait_buffer" /\ bufPipe # <<>> /\ Goto("wait_cursor")
  /\ bufPipe' = <<>> /\ Send([kind |-> "curkey"])
  /\ UNCHANGED <<site, result, op, flags, handled, places, process, chld, cwdPipe, command, left>>

\* The answer to the second key has to be a number; each answer must come in a second.
BufferRead(ok) ==
  IF ok THEN pc = "wait_cursor" /\ bufPipe = <<"curkey">>
        ELSE \/ pc = "wait_cursor" /\ bufPipe \notin {<<>>, <<"curkey">>}
             \/ /\ pc \in {"wait_buffer", "wait_cursor"} /\ bufPipe = <<>>
                /\ "buffer" \in world.slow \/ shell # "read" \/ ~hooked

BufferTested(ok) ==
  /\ site = "init" /\ BufferRead(ok)
  /\ persistent' = ok /\ bufPipe' = <<>> /\ Goto("inited")
  /\ UNCHANGED <<site, result, op, state, ready, use, handled, places, process, chld,
                 tty, cwdPipe, command, left>>

BufferTaken ==
  /\ site \in {"run", "repair"} /\ BufferRead(TRUE)
  /\ bufPipe' = <<>> /\ pc' = "fed" /\ site' = "run" /\ result' = TRUE
  /\ UNCHANGED <<op, flags, handled, places, process, chld, tty, cwdPipe, command, left>>

BufferRepaired ==
  /\ site = "run" /\ BufferRead(FALSE)
  /\ bufPipe' = <<>> /\ Interrupt
  /\ state' = "running" /\ Feed("repair")
  /\ UNCHANGED <<op, ready, use, persistent, handled, places, chld, cwdPipe, command, left>>

\* MC goes back to the panels, but the shell stays in the user's hands.
GiveUpBuffer ==
  /\ site = "repair" /\ (BufferRead(FALSE) \/ (pc = "fed" /\ ~result))
  /\ state' = "active" /\ pc' = "fed" /\ site' = "run" /\ result' = TRUE
  /\ UNCHANGED <<op, ready, use, persistent, handled, places, process, chld, channels, command, left>>

RepairFed ==
  /\ pc = "fed" /\ site = "repair" /\ result /\ Goto("ask_buffer")
  /\ UNCHANGED <<site, result, op, flags, handled, places, process, chld, channels, command, left>>

-----------------------------------------------------------------------------
(* init_subshell *)

InitSubshell ==
  /\ pc = "init" /\ Feed("init")
  /\ alive' = TRUE /\ stopped' = FALSE
  /\ shell' = "start" /\ shellCwd' = Home
  /\ hooked' = FALSE /\ intr' = FALSE /\ exited' = FALSE
  /\ Send([kind |-> "precmd"]) /\ state' = "running"
  /\ UNCHANGED <<op, ready, use, persistent, quit, places, job, chld, cwdPipe, bufPipe, command, left>>

InitFed ==
  /\ pc = "fed" /\ site = "init"
  /\ use' = (use /\ result /\ alive)
  /\ Goto(IF persistent THEN "ask_buffer" ELSE "inited")
  /\ UNCHANGED <<site, result, op, state, ready, persistent, handled, places, process, chld,
                 channels, command, left>>

\* At the start the panel gets the focus next, which is a subshell_chdir.
Inited ==
  /\ pc = "inited"
  /\ op' = IF op = "start" THEN "panel" ELSE op
  /\ Goto(CASE op = "start" -> "chdir" [] op = "declined" -> "adopt" [] OTHER -> "restart")
  /\ UNCHANGED <<site, result, flags, handled, places, process, chld, channels, command, left>>

-----------------------------------------------------------------------------
(* do_subshell_chdir *)

SendCd ==
  /\ Send([kind |-> "cd", dir |-> panel])
  /\ state' = "running" /\ Feed("chdir")

ChdirDone == Goto(IF op = "panel" THEN "idle" ELSE "invoke")

OnlyFromPanel == state = "inactive" /\ cwd # panel /\ op = "panel"  \* mutant: not before a command
NeedsChdir == state = "inactive" /\ cwd # panel

ChdirSkipped ==
  /\ pc = "chdir" /\ (~NeedsChdir \/ (op = "panel" /\ ~use))
  /\ ChdirDone
  /\ UNCHANGED <<site, result, op, flags, handled, places, process, chld, channels, command, left>>

\* Without a persistent buffer the shell's command line is cleared first.
ChdirStarts ==
  /\ pc = "chdir" /\ NeedsChdir /\ (op = "panel" => use)
  /\ IF persistent
       THEN SendCd /\ UNCHANGED process
       ELSE Interrupt /\ state' = "running" /\ Feed("chdir_int")
  /\ UNCHANGED <<op, ready, use, persistent, handled, places, chld, cwdPipe, bufPipe, command, left>>

ChdirCleared ==
  /\ pc = "fed" /\ site = "chdir_int" /\ result /\ SendCd
  /\ UNCHANGED <<op, ready, use, persistent, handled, places, process, chld, cwdPipe, bufPipe,
                 command, left>>

ChdirFed ==
  /\ pc = "fed" /\ (site = "chdir" \/ (site = "chdir_int" /\ ~result))
  /\ state' = IF result THEN state ELSE "active"
  /\ ChdirDone
  /\ UNCHANGED <<site, result, op, ready, use, persistent, handled, places, process, chld,
                 channels, command, left>>

-----------------------------------------------------------------------------
(* invoke_subshell and its callers *)

InvokeToggle ==
  /\ pc = "invoke" /\ op = "toggle" /\ Feed("run")
  /\ state' = IF state = "inactive" THEN "active" ELSE state
  /\ UNCHANGED <<op, ready, use, persistent, handled, places, process, chld, channels, command, left>>

\* Before a command: clear_cwd_pipe, or a ^C where the command line is not persistent.
InvokePersistent ==
  /\ pc = "invoke" /\ op = "execute" /\ persistent
  /\ IF cwdPipe = <<>>
       THEN Goto("command") /\ UNCHANGED <<site, places, channels>>
       ELSE ReadCwd /\ pc' = "sync" /\ site' = "clear"
  /\ UNCHANGED <<result, op, flags, handled, process, chld, command, left>>

\* mutant: the prompt that follows the ^C is not waited for
InvokeWithoutFeed ==
  /\ pc = "invoke" /\ op = "execute" /\ ~persistent
  /\ Interrupt /\ state' = "running" /\ Goto("command")
  /\ UNCHANGED <<site, result, op, ready, use, persistent, handled, places, chld, cwdPipe, bufPipe,
                 command, left>>

InvokeInterrupt ==
  /\ pc = "invoke" /\ op = "execute" /\ ~persistent
  /\ Interrupt /\ state' = "running" /\ Feed("intr")
  /\ UNCHANGED <<op, ready, use, persistent, handled, places, chld, cwdPipe, bufPipe, command, left>>

WriteCommand ==
  /\ pc = "command" \/ (pc = "fed" /\ site = "intr")
  /\ Send([kind |-> "cmd", dir |-> panel]) /\ command' = "sent"
  /\ state' = "running" /\ ready' = FALSE /\ Feed("run")
  /\ UNCHANGED <<op, use, persistent, handled, places, process, chld, cwdPipe, bufPipe, left>>

\* MC will follow the shell into its directory.
RunFed ==
  /\ pc = "fed" /\ site = "run" /\ Goto("restart")
  /\ newDir' = IF alive /\ cwd \in Dirs \ {panel} THEN cwd ELSE NoDir
  /\ UNCHANGED <<site, result, op, flags, handled, cwd, panel, process, chld, channels, command, left>>

Restart ==
  /\ pc = "restart"
  /\ Goto(IF ~alive /\ ~quit /\ use THEN "init" ELSE IF quit THEN "quit" ELSE "adopt")
  /\ UNCHANGED <<site, result, op, flags, handled, places, process, chld, channels, command, left>>

\* The user has left the shell: MC ends, or starts another one.
QuitAsked ==
  /\ pc = "quit"
  /\ \/ Goto("exit") /\ UNCHANGED <<op, quit>>
     \/ /\ quit' = FALSE /\ op' = "declined"
        /\ Goto(IF use THEN "init" ELSE "adopt")
  /\ UNCHANGED <<site, result, flags, alive, stopped, places, process, chld, channels, command, left>>

Adopt ==
  /\ pc = "adopt"
  /\ IF newDir = NoDir THEN Goto("idle") /\ UNCHANGED <<op, places>>
                       ELSE /\ panel' = newDir /\ newDir' = NoDir /\ UNCHANGED cwd
                            /\ op' = "panel" /\ Goto("chdir")
  /\ UNCHANGED <<site, result, flags, handled, process, chld, channels, command, left>>

-----------------------------------------------------------------------------
(* The user at the panels *)

Call(what) ==
  /\ pc = "idle" /\ left.ops > 0 /\ use
  /\ op' = what /\ Goto("chdir")
  /\ left' = [left EXCEPT !.ops = @ - 1]

Toggle ==
  /\ Call("toggle")
  /\ UNCHANGED <<site, result, flags, handled, places, process, chld, channels, command>>

ShellIsFree == state = "inactive"

Execute ==
  /\ ShellIsFree /\ Call("execute") /\ command' = "none"
  /\ UNCHANGED <<site, result, flags, handled, places, process, chld, channels>>

ChangeDir ==
  /\ Call("panel") /\ panel' \in Dirs \ {panel}
  /\ UNCHANGED <<site, result, flags, handled, cwd, newDir, process, chld, channels, command>>

Done == pc = "exit" \/ (pc = "idle" /\ (left.ops = 0 \/ ~use))

FeedStep == \/ FeedChecks \/ FeedEnters \/ FeedReadsCwd \/ FeedTimesOut \/ Synchronize
BufferStep == \/ AskBuffer \/ AskCursor \/ BufferTaken \/ BufferRepaired \/ GiveUpBuffer \/ RepairFed
              \/ \E ok \in BOOLEAN : BufferTested(ok)
CallStep == \/ InitSubshell \/ InitFed \/ Inited
            \/ ChdirSkipped \/ ChdirStarts \/ ChdirCleared \/ ChdirFed
            \/ InvokeToggle \/ InvokePersistent \/ InvokeInterrupt \/ WriteCommand
            \/ RunFed \/ Restart \/ QuitAsked \/ Adopt
McStep == SigChld \/ FeedStep \/ BufferStep \/ CallStep
Process == UNCHANGED <<control, flags, handled, places>> /\ (ShellStep \/ ShellDies)
User == Toggle \/ Execute \/ ChangeDir \/ FeedPassesLine \/ FeedSwitches

Next == \/ UNCHANGED world /\ (McStep \/ Process \/ User)
        \/ Done /\ UNCHANGED vars

Spec == Init /\ [][Next]_vars

\* Both programs go on, what runs in the shell ends, and the user comes back.
FairSpec ==
  /\ Spec
  /\ WF_vars(UNCHANGED world /\ McStep)
  /\ WF_vars(UNCHANGED <<world, control, flags, handled, places>> /\ ShellStep)
  /\ WF_vars(UNCHANGED world /\ FeedSwitches)

-----------------------------------------------------------------------------
(* Properties *)

\* Types; and the flag subshell_stopped is up only while the shell is stopped or dead.
TypeOK ==
  /\ stopped => shell \in {"stopped", "dead"}
  /\ world \in WorldType /\ pc \in Labels /\ site \in Sites /\ result \in BOOLEAN
  /\ op \in {"start", "toggle", "execute", "panel", "declined"}
  /\ state \in States /\ <<ready, use, persistent>> \in BOOLEAN \X BOOLEAN \X BOOLEAN
  /\ <<alive, stopped, quit>> \in BOOLEAN \X BOOLEAN \X BOOLEAN
  /\ cwd \in Dirs \cup {NoDir, Garbled} /\ panel \in Dirs /\ newDir \in Dirs \cup {NoDir}
  /\ shell \in {"dead", "start", "read", "run", "pwd", "stop", "stopped"}
  /\ job \in Lines /\ shellCwd \in Dirs
  /\ <<hooked, intr, exited, chld>> \in BOOLEAN \X BOOLEAN \X BOOLEAN \X BOOLEAN
  /\ tty \in Seq(Lines \cup Keys) /\ cwdPipe \in Seq(Dirs) /\ bufPipe \in Seq({"bufkey", "curkey"})
  /\ command \in {"none", "sent", "started"}
  /\ left \in [ops : 0 .. MaxOps, lines : 0 .. MaxLines, deaths : 0 .. MaxDeaths]

\* "INACTIVE: the default state; awaiting a command": whenever MC is at its
\* panels in that state and the shell lives, the shell waits at its prompt, has
\* read all it was sent, and nothing it reported is left unread; and a command that
\* MC passed on has been started: no flush, ^C or late prompt has swallowed it.
InactiveAwaits ==
  pc = "idle" /\ state = "inactive" /\ use =>
    (alive => AtPrompt \/ chld) /\ command # "sent"

StartsCommand == shell = "read" /\ shell' = "run" /\ job'.kind = "cmd"

\* "Make the subshell change to MC's working directory": a shell that reports to
\* MC starts a command in the directory the panel showed when it was entered.
CommandInPanelDir == [][StartsCommand /\ hooked => shellCwd = job'.dir]_vars

\* The same of every shell, one that has just replaced a dead one included:
\* violated in KilledWorlds (common.c:1685).
CommandAlwaysInPanelDir == [][StartsCommand => shellCwd = job'.dir]_vars

\* "You can suspend applications at any time and jump back": what the user has
\* started in the shell is never interrupted by MC, whatever MC needs from it.
UserNotInterrupted ==
  [][shell = "run" /\ job.kind = "user" /\ shell' = "pwd" => pc' = pc]_vars

\* MC comes back from every call, or ends.
EveryCallReturns == pc # "idle" ~> pc \in {"idle", "exit"}
=============================================================================
