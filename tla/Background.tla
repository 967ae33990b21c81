----------------------------- MODULE Background -----------------------------
(***************************************************************************)
(* File operations in the background (src/background.c): a forked child    *)
(* sends its dialogs over a pipe, Midnight Commander runs them inside its  *)
(* event loops (lib/tty/key.c) and sends the answer back; the list of jobs *)
(* (src/filemanager/boxes.c) stops, resumes and kills the children.        *)
(*                                                                         *)
(* Midnight Commander is one thread: stack holds the calls of              *)
(* background_attention and the dialogs they run, innermost last; while a  *)
(* dialog waits for the user its event loop serves the other children.     *)
(* A child writes a call in parts, and may die or be stopped between them. *)
(***************************************************************************)
EXTENDS Integers, Sequences, SequencesExt, FiniteSetsExt

CONSTANTS
  N,         \* how many jobs the user starts
  MaxPress,  \* how many buttons the user presses in the list of jobs
  Worlds     \* what may happen

Jobs == 1 .. N
Kinds == {"query", "message", "error"}
Answers == {"yes", "no"}

ASSUME BoundsAssumption == N \in Nat \ {0} /\ MaxPress \in Nat
ASSUME WorldsAssumption ==
  Worlds \subseteq [kinds : SUBSET Kinds,   \* what the jobs call
                    calls : Nat,            \* how often one of them does
                    crashes : Nat,          \* how many jobs may crash
                    quit : BOOLEAN,         \* the user may leave Midnight Commander
                    press : SUBSET {"stop", "resume", "kill"}]

VARIABLES
  world,
  mc,        \* "up" or "gone"
  \* --- Midnight Commander
  stack,
  tasks,     \* task_list: the jobs listed
  channels,  \* select_list: the jobs whose pipe is watched
  ctxPid,    \* ctx->pid of each task; 0 is the process group
  listed,    \* bg_list: the jobs shown in the list that is open
  pressed,   \* buttons pressed
  \* --- the children and the kernel
  child,     \* "unborn", "busy", "asking", "waiting", "ending", "zombie", "reaped"
  stopped,   \* by SIGSTOP
  call,      \* the call each child makes
  left,      \* parts of it not written yet
  calls,     \* how many it has made
  status,    \* what waitpid would say
  up, down,  \* the two pipes of each job
  \* --- history
  got,       \* the last answer each child has read
  killed     \* the user pressed Kill

parent   == <<stack, tasks, channels, ctxPid, listed, pressed>>
children == <<child, stopped, call, left, calls, status>>
pipes    == <<up, down>>
hist     == <<got, killed>>
vars == <<world, mc, parent, children, pipes, hist>>

InMain == stack = <<>>
Top == Last(stack)
At(pc) == stack # <<>> /\ Top.pc = pc
Loops == InMain \/ At("ask") \/ At("notice") \/ At("list")

Alive(j) == child[j] \in {"busy", "asking", "waiting"}

\* Younger jobs inherit the ends of the older ones' pipes.
Heirs(j) == {k \in Jobs : k > j /\ Alive(k)}
Answerable(j) == mc = "up" \/ Heirs(j) # {}

PartsByValue(kind) == <<"routine", "head", "ctx", "short">>  \* mutant: every routine is called like do_file_error
\* The first argument of do_file_error is a number, sent as if it were a
\* pointer: write() fails, its bytes are missing.
Parts(kind) ==
  CASE kind = "query"   -> <<"routine", "head", "ctx", "args">>
    [] kind = "message" -> <<"routine", "head", "args">>
    [] kind = "error"   -> <<"routine", "head", "ctx", "short">>
    [] kind = "end"     -> <<"routine", "head", "ctx">>

Readable(j) == up[j] # <<>> \/ ~Alive(j)

Frame(j, pc, sel, ans) == [who |-> j, pc |-> pc, sel |-> sel, ans |-> ans]

\* check_selects: the callbacks of those still registered, the newest first.
Serve(frames, set) ==
  IF set \cap channels' = {} THEN frames
  ELSE LET j == Max(set \cap channels') IN Append(frames, Frame(j, "routine", set \ {j}, "none"))
Return == stack' = Serve(Front(stack), Top.sel)
Become(pc) == stack' = [stack EXCEPT ![Len(stack)].pc = pc]

Init ==
  /\ world \in Worlds /\ mc = "up"
  /\ stack = <<>> /\ tasks = {} /\ channels = {} /\ ctxPid = [j \in Jobs |-> 0] /\ listed = {} /\ pressed = 0
  /\ child = [j \in Jobs |-> "unborn"] /\ stopped = {}
  /\ call = [j \in Jobs |-> "end"] /\ left = [j \in Jobs |-> <<>>] /\ calls = [j \in Jobs |-> 0]
  /\ status = [j \in Jobs |-> "ok"]
  /\ up = [j \in Jobs |-> <<>>] /\ down = [j \in Jobs |-> <<>>]
  /\ got = [j \in Jobs |-> "none"] /\ killed = {}

-----------------------------------------------------------------------------
(* The child: parent_va_call, end of panel_operate *)

Runs(j) == j \notin stopped

Dies(set) ==
  /\ child' = [j \in Jobs |-> IF j \in set /\ Alive(j) THEN "ending" ELSE child[j]]
  /\ status' = [j \in Jobs |-> IF j \in set /\ Alive(j) THEN "bad" ELSE status[j]]

Ask(j) ==
  /\ child[j] = "busy" /\ Runs(j)
  /\ \/ /\ calls[j] < world.calls
        /\ \E k \in world.kinds : call' = [call EXCEPT ![j] = k]
     \/ call' = [call EXCEPT ![j] = "end"]
  /\ calls' = [calls EXCEPT ![j] = @ + 1]
  /\ child' = [child EXCEPT ![j] = "asking"] /\ left' = [left EXCEPT ![j] = Parts(call'[j])]
  /\ got' = [got EXCEPT ![j] = "none"]
  /\ UNCHANGED <<world, mc, parent, stopped, status, pipes, killed>>

\* Nobody can read the pipe any more: SIGPIPE.
Write(j) ==
  /\ child[j] = "asking" /\ Runs(j)
  /\ \/ /\ Answerable(j)
        /\ up' = [up EXCEPT ![j] = Append(@, Head(left[j]))]
        /\ left' = [left EXCEPT ![j] = Tail(@)]
        /\ child' = [child EXCEPT ![j] = IF left'[j] = <<>> THEN "waiting" ELSE @]
        /\ UNCHANGED status
     \/ ~Answerable(j) /\ Dies({j}) /\ UNCHANGED <<up, left>>
  /\ UNCHANGED <<world, mc, parent, stopped, call, calls, down, hist>>

\* An end of the answer pipe nobody holds: read() returns 0, and the answer is
\* the loop counter, which means neither yes nor no.
Read(j) ==
  /\ child[j] = "waiting" /\ Runs(j)
  /\ \/ /\ down[j] # <<>>
        /\ got' = [got EXCEPT ![j] = Head(down[j])] /\ down' = [down EXCEPT ![j] = Tail(@)]
     \/ down[j] = <<>> /\ ~Answerable(j) /\ UNCHANGED <<got, down>>
  /\ child' = [child EXCEPT ![j] = IF call[j] = "end" THEN "ending" ELSE "busy"]
  /\ UNCHANGED <<world, mc, parent, stopped, call, left, calls, status, up, killed>>

\* exit() closes the pipes before the parent can wait for the process.
Exited(j) ==
  /\ child[j] = "ending" /\ child' = [child EXCEPT ![j] = "zombie"]
  /\ UNCHANGED <<world, mc, parent, stopped, call, left, calls, status, pipes, hist>>

Crashes(j) ==
  /\ Alive(j) /\ Cardinality({k \in Jobs : status[k] = "bad"}) < world.crashes
  /\ Dies({j})
  /\ UNCHANGED <<world, mc, parent, stopped, call, left, calls, pipes, hist>>

Child(j) == Ask(j) \/ Write(j) \/ Read(j) \/ Exited(j)

-----------------------------------------------------------------------------
(* Midnight Commander *)

GoneWith(set) ==
  /\ mc' = "gone" /\ stack' = <<>> /\ Dies(set)
  /\ UNCHANGED <<tasks, channels, ctxPid>>

\* do_background, register_task_running
Start(j) ==
  /\ mc = "up" /\ InMain /\ child[j] = "unborn" /\ \A k \in 1 .. j - 1 : child[k] # "unborn"
  /\ child' = [child EXCEPT ![j] = "busy"]
  /\ tasks' = tasks \cup {j} /\ channels' = channels \cup {j} /\ ctxPid' = [ctxPid EXCEPT ![j] = j]
  /\ UNCHANGED <<world, mc, stack, listed, pressed, stopped, call, left, calls, status, pipes, hist>>

\* tty_get_event: select() returns all that can be read.
Select ==
  /\ mc = "up" /\ Loops
  /\ \E j \in channels : Readable(j)
  /\ UNCHANGED <<world, mc, tasks, channels, ctxPid, listed, pressed, children, pipes, hist>>
  /\ stack' = Serve(stack, {j \in channels : Readable(j)})

\* background_attention: the parts of a call, as they come
ReadPart ==
  /\ At("routine") \/ At("parts")
  /\ LET j == Top.who IN
     /\ up[j] # <<>>
     /\ up' = [up EXCEPT ![j] = Tail(@)]
     /\ ctxPid' = [ctxPid EXCEPT ![j] = IF Head(up[j]) # "ctx" THEN @
                                        ELSE IF call[j] = "end" THEN j ELSE 0]
     /\ Become(IF Head(up[j]) = "short" THEN "notice"
               ELSE IF Head(up[j]) = Last(Parts(call[j])) THEN "call" ELSE "parts")
  /\ UNCHANGED <<world, mc, tasks, channels, listed, pressed, children, down, hist>>

\* reading_failed: the child has died in the middle of a call.
ReadFails ==
  /\ At("parts") /\ up[Top.who] = <<>> /\ ~Alive(Top.who)
  /\ Become("notice")
  /\ UNCHANGED <<world, mc, tasks, channels, ctxPid, listed, pressed, children, pipes, hist>>

FirstRemoved(pid, set) == IF set = {} THEN set ELSE set \ {Max(set)}  \* mutant: the head of the list
NotFound(pid, set) == set  \* mutant: the task is looked for under another pid
Removed(pid, set) == set \ {pid}      \* destroy_task
StillWatched(pid, set) == set  \* mutant: only the task is removed
Unwatched(pid, set) == set \ {pid}    \* delete_select_channel

\* waitpid (pid, &status, WNOHANG): whom it may find
Waited(pid) == {j \in IF pid = 0 THEN Jobs ELSE {pid} : child[j] = "zombie"}
Unwaited(pid) == {j \in IF pid = 0 THEN Jobs ELSE {pid} : child[j] \notin {"unborn", "reaped"}}

\* The end of the pipe: the task of ctx->pid is removed, and the process it
\* names is waited for or killed.
Lost ==
  /\ At("routine") /\ up[Top.who] = <<>> /\ ~Alive(Top.who)
  /\ LET pid == ctxPid[Top.who] IN
     \/ \* still running as it seems: SIGTERM to the process, or to the group
        /\ Waited(pid) = {} /\ Unwaited(pid) # {}
        /\ IF pid = 0 THEN GoneWith(Jobs)
           ELSE /\ tasks' = Removed(pid, tasks) /\ channels' = channels \ {Top.who} /\ Become("notice")
                /\ UNCHANGED <<mc, ctxPid, child, status>>
     \/ \E j \in Waited(pid) :
          /\ tasks' = Removed(pid, tasks) /\ channels' = channels \ {Top.who}
          /\ child' = [child EXCEPT ![j] = "reaped"]
          /\ IF status[j] = "ok" THEN Return ELSE Become("notice")
          /\ UNCHANGED <<mc, ctxPid, status>>
     \/ \* status is not set
        /\ Unwaited(pid) = {}
        /\ tasks' = Removed(pid, tasks) /\ channels' = channels \ {Top.who}
        /\ Return \/ Become("notice")
        /\ UNCHANGED <<mc, ctxPid, child, status>>
  /\ UNCHANGED <<world, listed, pressed, stopped, call, left, calls, pipes, hist>>

\* end_bg_process is called, which knows the pid the child has sent; or a dialog.
Call ==
  /\ At("call")
  /\ LET j == Top.who IN
     \/ /\ call[j] = "end"
        /\ tasks' = Removed(ctxPid[j], tasks) /\ channels' = Unwatched(ctxPid[j], channels)
        /\ ctxPid' = [ctxPid EXCEPT ![j] = 0]
        /\ Become("reply")
     \/ /\ call[j] # "end"
        /\ Become("ask") /\ UNCHANGED <<tasks, channels, ctxPid>>
  /\ UNCHANGED <<world, mc, listed, pressed, children, pipes, hist>>

CalledLast == IF tasks = {} THEN Top.who ELSE Max(tasks)  \* mutant: the answer goes to the newest task
Caller == Top.who

\* An answer to a child that has ended raises SIGPIPE.
Reply ==
  /\ At("reply")
  /\ \/ /\ Alive(Caller)
        /\ down' = [down EXCEPT ![Caller] = Append(@, Top.ans)]
        /\ UNCHANGED <<mc, tasks, channels, ctxPid, child, status>> /\ Return
     \/ ~Alive(Caller) /\ GoneWith({}) /\ UNCHANGED down
  /\ UNCHANGED <<world, listed, pressed, stopped, call, left, calls, up, hist>>

-----------------------------------------------------------------------------
(* The user *)

Answer ==
  /\ At("ask")
  /\ \E a \in IF call[Top.who] = "query" THEN Answers ELSE {"yes"} :
       stack' = [stack EXCEPT ![Len(stack)] = [@ EXCEPT !.pc = "reply", !.ans = a]]
  /\ UNCHANGED <<world, mc, tasks, channels, ctxPid, listed, pressed, children, pipes, hist>>

Close ==
  /\ At("notice")
  /\ UNCHANGED <<world, mc, tasks, channels, ctxPid, listed, pressed, children, pipes, hist>>
  /\ Return

\* jobs_box, jobs_fill_listbox
OpenList ==
  /\ mc = "up" /\ InMain /\ world.press # {} /\ pressed < MaxPress
  /\ stack' = <<Frame(0, "list", {}, "none")>> /\ listed' = tasks
  /\ UNCHANGED <<world, mc, tasks, channels, ctxPid, pressed, children, pipes, hist>>

CloseList ==
  /\ At("list") /\ listed' = {}
  /\ UNCHANGED <<world, mc, tasks, channels, ctxPid, pressed, children, pipes, hist>>
  /\ Return

\* The list may show tasks that are freed by now; Kill frees the task before it
\* reads the pid from it.  What is read from freed memory is the pid, or not.
Hits(j, fresh) == IF fresh /\ j \in tasks THEN {{j}} ELSE {{j}, {}}

Refill == pressed' = pressed + 1 /\ listed' = tasks'

\* task_cb
Stop ==
  /\ At("list") /\ "stop" \in world.press /\ pressed < MaxPress
  /\ \E j \in listed : \E hit \in Hits(j, TRUE) : stopped' = stopped \cup {i \in hit : Alive(i)}
  /\ UNCHANGED <<world, mc, stack, tasks, channels, ctxPid, child, call, left, calls, status, pipes, hist>>
  /\ Refill

Resume ==
  /\ At("list") /\ "resume" \in world.press /\ pressed < MaxPress
  /\ \E j \in listed : \E hit \in Hits(j, TRUE) : stopped' = stopped \ hit
  /\ UNCHANGED <<world, mc, stack, tasks, channels, ctxPid, child, call, left, calls, status, pipes, hist>>
  /\ Refill

Kill ==
  /\ At("list") /\ "kill" \in world.press /\ pressed < MaxPress
  /\ \E j \in listed :
       /\ tasks' = tasks \ {j} /\ channels' = channels \ {j} /\ killed' = killed \cup {j}
       /\ \E hit \in Hits(j, FALSE) : Dies(hit) /\ stopped' = stopped \ hit
  /\ UNCHANGED <<world, mc, stack, ctxPid, call, left, calls, pipes, got>>
  /\ Refill

\* quit_cmd does not ask about jobs.  The kernel hangs up a process group that
\* is left behind with stopped members.
Quit ==
  /\ world.quit /\ mc = "up" /\ InMain
  /\ GoneWith(IF \E j \in stopped : Alive(j) THEN Jobs ELSE {})
  /\ UNCHANGED <<world, listed, pressed, stopped, call, left, calls, pipes, hist>>

Attention == ReadPart \/ ReadFails \/ Lost \/ Call \/ Reply
User == Answer \/ Close \/ CloseList

Next ==
  \/ \E j \in Jobs : Child(j) \/ Crashes(j) \/ Start(j)
  \/ Select \/ Attention \/ User
  \/ OpenList \/ Stop \/ Resume \/ Kill \/ Quit

Spec == Init /\ [][Next]_vars
FairSpec ==
  Spec /\ WF_vars(Attention) /\ WF_vars(Select) /\ WF_vars(User) /\ \A j \in Jobs : WF_vars(Child(j))

-----------------------------------------------------------------------------
(* Properties *)

Pcs == {"routine", "parts", "call", "ask", "reply", "notice", "list"}
AllParts == {"routine", "head", "ctx", "args", "short"}

\* Types; a job never has more than one answer in its pipe, and only a listed task
\* has a descriptor in the event loops (background.c:495).
TypeOK ==
  /\ world \in Worlds /\ mc \in {"up", "gone"}
  /\ stack \in Seq([who : 0 .. N, pc : Pcs, sel : SUBSET Jobs, ans : Answers \cup {"none"}])
  /\ tasks \subseteq Jobs /\ channels \subseteq tasks
  /\ ctxPid \in [Jobs -> 0 .. N] /\ pressed \in 0 .. MaxPress /\ listed \subseteq Jobs
  /\ child \in [Jobs -> {"unborn", "busy", "asking", "waiting", "ending", "zombie", "reaped"}]
  /\ stopped \subseteq Jobs /\ call \in [Jobs -> Kinds \cup {"end"}]
  /\ left \in [Jobs -> Seq(AllParts)] /\ calls \in [Jobs -> 0 .. world.calls + 1]
  /\ status \in [Jobs -> {"ok", "bad"}]
  /\ up \in [Jobs -> Seq(AllParts)] /\ down \in [Jobs -> Seq(Answers \cup {"none"})]
  /\ \A j \in Jobs : Len(down[j]) <= 1
  /\ got \in [Jobs -> Answers \cup {"none"}] /\ killed \subseteq Jobs

\* What a job gets for an answer is what the user said when this question of
\* this job was the one on top of the screen, and it gets it once.
Replying(j) == At("reply") /\ Top.who = j
StateOf(j) ==
  CASE child[j] \in {"unborn", "busy"} -> "running"
    [] child[j] \in {"ending", "zombie", "reaped"} -> "over"
    [] child[j] \in {"asking", "waiting"} /\ call[j] = "end" -> "leaving"
    [] child[j] \in {"asking", "waiting"} /\ call[j] # "end" ->
         IF down[j] # <<>> \/ Replying(j) THEN "answered" ELSE "asking"
AnswerOf(j) ==
  IF StateOf(j) = "over" THEN "none"
  ELSE IF down[j] # <<>> THEN Head(down[j])
  ELSE IF Replying(j) THEN Top.ans
  ELSE got[j]
Shown(f) == IF f.pc = "ask" THEN f.who ELSE 0
Calls == INSTANCE RemoteCall WITH
  Other <- 0, state <- [j \in Jobs |-> StateOf(j)], answer <- [j \in Jobs |-> AnswerOf(j)],
  screen <- [i \in DOMAIN stack |-> Shown(stack[i])], open <- mc = "up"
AnsweredByTheUser == Calls!Spec

\* The list shows every job that runs, until it says good-bye or the user kills
\* it, and a job that has come to its end is not in it.
ListShowsJobs ==
  mc = "up" =>
    \A j \in Jobs \ killed :
      /\ Alive(j) /\ ~(call[j] = "end" /\ child[j] = "waiting") => j \in tasks \cap channels
      /\ child[j] \in {"ending", "zombie", "reaped"} /\ status[j] = "ok" => j \notin tasks

\* As long as no job crashes or is killed, their ends do not take Midnight
\* Commander with them: no event loop serves a pipe of a job that has left.
OrderlyEnds == (\A j \in Jobs : status[j] = "ok") /\ ~world.quit => mc = "up"

\* A job that waits gets an answer or ends, whatever other dialogs are open,
\* whoever dies or leaves; jobs the user has killed or stopped are excluded (a
\* job stopped in the middle of a call stops Midnight Commander).
EveryCallReturns ==
  \A j \in Jobs : (child[j] = "waiting") ~> (child[j] # "waiting" \/ j \in killed \/ stopped # {})
=============================================================================
