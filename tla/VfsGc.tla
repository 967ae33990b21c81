-------------------------------- MODULE VfsGc --------------------------------
(***************************************************************************)
(* The life of the file systems in archives (lib/vfs/gc.c): an archive is  *)
(* loaded when a path inside it is used, gets a stamp when nothing uses it *)
(* any more, and is freed when the stamp has expired, when the user frees  *)
(* all file systems (hotlist), and at the end of Midnight Commander.       *)
(*                                                                         *)
(* An archive inside another one keeps a handle open in it: freeing the    *)
(* inner one closes that handle, and so changes the list of stamps while   *)
(* vfs_expire walks it.                                                    *)
(***************************************************************************)
EXTENDS Integers, Sequences, SequencesExt, FiniteSetsExt

CONSTANTS
  FS,        \* the archives
  Local,     \* the local file system, whose id is NULL
  Outer,     \* where the file of each archive lies
  MaxFiles,  \* how many files windows hold open in an archive
  Worlds     \* what the user may do

Panels == {"left", "right"}
Places == FS \cup {Local}

ASSUME OuterAssumption ==
  /\ Local \notin FS /\ Outer \in [FS -> Places]
  /\ \A x \in FS : Outer[x] # Local => Outer[Outer[x]] = Local
ASSUME WorldsAssumption ==
  Worlds \subseteq [visits : SUBSET FS,   \* the archives the user works with
                    ops : Nat,            \* how often the user does something
                    views : BOOLEAN,      \* panels may show something else than a listing
                    free : BOOLEAN,       \* the user may free all file systems
                    quit : BOOLEAN]       \* and leave Midnight Commander

VARIABLES
  world,
  phase,  \* "run", "quit" (after dlg_run) or "gone"
  ops,    \* what the user has done so far
  files,  \* handles that windows hold in each archive
  vfs     \* the archives, the stamps and the directories, see Empty

vars == <<world, phase, ops, files, vfs>>

Empty ==
  [loaded |-> {},                            \* the superblocks
   open   |-> [x \in FS |-> 0],              \* their fd_usage
   stamps |-> <<>>,                          \* the list; a link may have lost its data
   at     |-> 0,                             \* the link vfs_expire has come to; 0: not running
   now    |-> FALSE,                         \* its argument
   here   |-> Local,                         \* current_dir
   cwd    |-> [p \in Panels |-> Local],
   lists  |-> [p \in Panels |-> TRUE],       \* the panel shows a listing
   current |-> "left",                       \* current_panel
   events |-> TRUE]                          \* "vfs_timestamp" is handled

Null == [fs |-> Local, old |-> FALSE]
Fresh(x) == [fs |-> x, old |-> FALSE]

Init == world \in Worlds /\ phase = "run" /\ ops = 0 /\ files = [x \in FS |-> 0] /\ vfs = Empty

-----------------------------------------------------------------------------
(* The list of stamps *)

\* vfs_stamp_compare: a link without data equals everything.
Found(c, x) == SelectInSeq(c.stamps, LAMBDA e : e = Null \/ e.fs = x)

Stamp(c, x) ==
  LET i == Found(c, x) IN
  IF i > 0 /\ c.stamps[i] # Null THEN [c EXCEPT !.stamps[i].old = FALSE] ELSE c

RmStampNever(c, x) == c  \* mutant: an open file does not take the stamp away
\* The walk of vfs_expire stays at its link.
RmStamp(c, x) ==
  LET i == Found(c, x) IN
  IF i = 0 THEN c
  ELSE [c EXCEPT !.stamps = RemoveAt(@, i), !.at = IF i < @ THEN @ - 1 ELSE @]

AddStamp(c, x) ==
  LET i == Found(c, x) IN
  CASE x = Local -> c
    [] i > 0 /\ c.stamps[i] # Null -> Stamp(c, x)
    [] OTHER -> [c EXCEPT !.stamps = Append(@, Fresh(x))]

Id(c, x) == IF x \in c.loaded THEN x ELSE Local

\* check_panel_timestamp
Shows(c, p, x) == ~ c.lists[p] \/ c.cwd[p] = x
InPanel(c, x) == \E p \in Panels : Shows(c, p, x)
Other(p) == CHOOSE q \in Panels : q # p

RECURSIVE Load(_, _), StampCreate(_, _)

\* Every look at a path finds the archive's file in the outer one first, and
\* loads that; what is found is refreshed. (Operators rather than LET carry the
\* state from call to call: TLC expands a LET where it is used.)
Refreshed(c, x) == IF x \in c.loaded THEN Stamp(c, x) ELSE c
LookUp(c, x) == Refreshed(IF x # Local /\ Outer[x] # Local THEN Load(c, Outer[x]) ELSE c, x)

\* vfs_stamp_create: the current directory first, then the event, which the other
\* panel sees if the current one shows something else.
AskPanel(c, p) == IF c.lists[p] THEN LookUp(c, c.cwd[p]) ELSE c
AskPanels(c, x) ==
  IF Shows(c, c.current, x) THEN AskPanel(c, c.current)
  ELSE AskPanel(AskPanel(c, c.current), Other(c.current))
UnlessUsed(c, x) == IF InPanel(c, x) \/ c.open[x] > 0 THEN c ELSE AddStamp(c, x)
Created(c, x, cur) == IF x \in {Local, cur} THEN RmStamp(c, cur) ELSE UnlessUsed(AskPanels(RmStamp(c, cur), x), x)
Elsewhere(c, x) == Created(c, x, Id(c, c.here))
StampCreate(c, x) == IF c.events THEN Elsewhere(LookUp(c, c.here), x) ELSE c

OpenFdUncounted(c, x) == RmStamp(c, x)  \* mutant: the handle is not counted
OpenFd(c, x) == [RmStamp(c, x) EXCEPT !.open[x] = @ + 1]
CloseFd(c, x) ==
  LET d == [c EXCEPT !.open[x] = @ - 1] IN
  IF d.open[x] = 0 THEN StampCreate(d, x) ELSE d

Opened(c, x) ==
  IF x = Local \/ x \in c.loaded THEN c
  ELSE StampCreate([(IF Outer[x] = Local THEN c ELSE OpenFd(c, Outer[x])) EXCEPT !.loaded = @ \cup {x}, !.open[x] = 0], x)
Load(c, x) == Opened(LookUp(c, x), x)

Free(c, x) ==
  LET d == [c EXCEPT !.loaded = @ \ {x}] IN
  IF Outer[x] = Local THEN d ELSE CloseFd(d, Outer[x])

\* mc_chdir
Moved(c, x) == StampCreate([c EXCEPT !.here = x], Id(c, c.here))
Chdir(c, x) == Moved(LookUp(Load(c, x), c.here), x)

-----------------------------------------------------------------------------
(* What the user does *)

Idle == vfs.at = 0 /\ phase = "run"
Does(enabled) == Idle /\ enabled /\ ops < world.ops /\ ops' = ops + 1

\* vfs_release_path
StampLeft(c, x) == StampCreate(c, Id(c, x))

\* panel_do_cd_int
Enter(p, x) ==
  /\ Does(vfs.lists[p] /\ x # vfs.cwd[p])
  /\ vfs' = StampLeft(LookUp([Chdir(vfs, x) EXCEPT !.cwd[p] = x], vfs.cwd[p]), vfs.cwd[p])
  /\ UNCHANGED <<world, phase, files>>

\* MSG_FOCUS of a panel
Focus(p) ==
  /\ Does(vfs.lists[p] /\ (vfs.current # p \/ vfs.here # vfs.cwd[p]))
  /\ vfs' = Chdir([vfs EXCEPT !.current = p], vfs.cwd[p])
  /\ UNCHANGED <<world, phase, files>>

\* A path inside an archive is used from elsewhere: a copy, the hotlist, a search.
Visit(x) == Does(TRUE) /\ vfs' = Load(vfs, x) /\ UNCHANGED <<world, phase, files>>

OpenFile(x) ==
  /\ Does(files[x] < MaxFiles)
  /\ vfs' = OpenFd(Load(vfs, x), x) /\ files' = [files EXCEPT ![x] = @ + 1]
  /\ UNCHANGED <<world, phase>>

CloseFile(x) ==
  /\ Idle /\ files[x] > 0
  /\ vfs' = CloseFd(vfs, x) /\ files' = [files EXCEPT ![x] = @ - 1]
  /\ UNCHANGED <<world, phase, ops>>

\* vfs_stamp_path
StampId(c, x) == AddStamp(c, Id(c, x))
StampPath(c, x) == StampId(LookUp(c, x), x)

\* create_panel: the panel becomes an information, tree or quick view, and the other
\* one is the current panel.
ShowOther(p) ==
  /\ Does(world.views /\ \A q \in Panels : vfs.lists[q])
  /\ vfs' = StampPath([vfs EXCEPT !.lists[p] = FALSE, !.current = Other(p)], vfs.cwd[p])
  /\ UNCHANGED <<world, phase, files>>

\* panel_sized_with_dir_new: a new panel in the directory the old one had; the
\* current directory goes there and back.
ShowList(p) ==
  /\ Idle /\ ~ vfs.lists[p]
  /\ vfs' = [Chdir(Chdir(vfs, vfs.cwd[p]), vfs.here) EXCEPT !.lists[p] = TRUE]
  /\ UNCHANGED <<world, phase, ops, files>>

Expire(c, now) == [c EXCEPT !.at = 1, !.now = now, !.stamps = IF now THEN Reverse(@) ELSE @]

FreeAll == Does(world.free) /\ vfs' = Expire(vfs, TRUE) /\ UNCHANGED <<world, phase, files>>

\* do_nc after dlg_run, main.  The panels are destroyed in the order of the widgets,
\* where the one that was selected last comes last: either may be the first.
Quit ==
  /\ Idle /\ world.quit /\ \A x \in FS : files[x] = 0
  /\ LET stamped(c, p) == IF c.lists[p] THEN StampPath(c, c.cwd[p]) ELSE c
         dir == StampPath([vfs EXCEPT !.events = FALSE], vfs.here) IN
     \E p \in Panels : vfs' = Expire(stamped(stamped(dir, p), Other(p)), TRUE)
  /\ phase' = "quit"
  /\ UNCHANGED <<world, ops, files>>

-----------------------------------------------------------------------------
(* vfs_expire *)

Age(i) ==
  /\ Idle /\ i \in DOMAIN vfs.stamps /\ ~ vfs.stamps[i].old
  /\ vfs' = [vfs EXCEPT !.stamps[i].old = TRUE] /\ UNCHANGED <<world, phase, ops, files>>

Timer == Idle /\ vfs.stamps # <<>> /\ vfs' = Expire(vfs, FALSE) /\ UNCHANGED <<world, phase, ops, files>>

Link == vfs.stamps[vfs.at]
BlankLink(c) == [c EXCEPT !.stamps[c.at] = Null, !.at = @ + 1]

InUseAtZero(x) == vfs.open[x] >= 0  \* mutant: an archive without open files counts as used
InUse(x) == vfs.open[x] > 0

Step ==
  /\ vfs.at \in DOMAIN vfs.stamps
  /\ vfs' = CASE vfs.now -> BlankLink(Free(vfs, Link.fs))
              [] ~ vfs.now /\ Link.old /\ InUse(Link.fs) ->
                   [vfs EXCEPT !.stamps[vfs.at].old = FALSE, !.at = @ + 1]
              [] ~ vfs.now /\ Link.old /\ ~ InUse(Link.fs) -> BlankLink(Free(vfs, Link.fs))
              [] OTHER -> [vfs EXCEPT !.at = @ + 1]
  /\ UNCHANGED <<world, phase, ops, files>>

Done ==
  /\ vfs.at > Len(vfs.stamps)
  /\ vfs' = [vfs EXCEPT !.stamps = SelectSeq(@, LAMBDA e : e # Null), !.at = 0, !.now = FALSE]
  /\ phase' = IF phase = "quit" THEN "gone" ELSE phase
  /\ UNCHANGED <<world, ops, files>>

-----------------------------------------------------------------------------
User ==
  \/ \E p \in Panels : ShowOther(p) \/ ShowList(p) \/ Focus(p)
  \/ \E p \in Panels, x \in world.visits \cup {Local} : Enter(p, x)
  \/ \E x \in world.visits : Visit(x) \/ OpenFile(x) \/ CloseFile(x)
  \/ FreeAll \/ Quit
Clock == \E i \in DOMAIN vfs.stamps : Age(i)
Walk == Step \/ Done
Next == User \/ Clock \/ Timer \/ Walk

Spec == Init /\ [][Next]_vars
\* tty_get_event comes round, at the latest ten seconds later; between two of its
\* rounds the time of any stamp may run out.
FairSpec ==
  /\ Spec /\ WF_vars(Walk) /\ WF_vars(Timer)
  /\ \A i \in 1 .. Cardinality(FS) : SF_vars(Age(i))

-----------------------------------------------------------------------------
(* Properties *)

\* The fields of vfs and the counters have their types; the walk is at a link of
\* the list or just behind it.
TypeOK ==
  /\ world \in Worlds /\ phase \in {"run", "quit", "gone"} /\ ops \in 0 .. world.ops
  /\ files \in [FS -> 0 .. MaxFiles]
  /\ vfs.loaded \subseteq FS /\ vfs.open \in [FS -> Nat] /\ vfs.here \in Places
  /\ vfs.cwd \in [Panels -> Places] /\ vfs.lists \in [Panels -> BOOLEAN]
  /\ vfs.now \in BOOLEAN /\ vfs.events \in BOOLEAN /\ vfs.current \in Panels
  /\ vfs.stamps \in Seq([fs : Places, old : BOOLEAN]) /\ vfs.at \in 0 .. Len(vfs.stamps) + 1

Inside(x) == {y \in vfs.loaded : Outer[y] = x}

\* Every handle a window or a nested archive holds is in an archive that is there.
HandlesAreValid == \A x \in FS : files[x] > 0 \/ Inside(x) # {} => x \in vfs.loaded

\* fd_usage counts the windows' handles and the nested archives (direntry.c:664).
UsageIsRight == \A x \in vfs.loaded : vfs.open[x] = files[x] + Cardinality(Inside(x))

\* Every stamp that still has its data belongs to an archive that is loaded: none is
\* freed a second time, although freeing changes the list (gc.c:280).
FreedOnce == \A i \in DOMAIN vfs.stamps : vfs.stamps[i] = Null \/ vfs.stamps[i].fs \in vfs.loaded

\* What is open is never freed (gc.c:268, 228), not by the timer and not from the
\* hotlist, and nothing is freed twice. At exit, where "reverse list to free nested
\* VFSes at first" (gc.c:255) is to see to it, it is violated (ExitWorlds).
NothingOpenFreed == HandlesAreValid /\ UsageIsRight /\ FreedOnce

ListedIn(x) == \E p \in Panels : vfs.lists[p] /\ vfs.cwd[p] = x
Unused(x) == x \in vfs.loaded /\ vfs.open[x] = 0 /\ vfs.here # x /\ ~ ListedIn(x)

\* "This ensures that that filesystem is free'ed" (gc.c:75): an archive that nobody
\* uses any more is freed at last (key.c:1995, gc.c:280). While a panel shows no
\* listing no stamp is created (filemanager.c:459), so this is claimed for two listings.
UnusedIsFreed == \A x \in FS : ~ <>[](phase = "run" /\ ~ world.views /\ Unused(x))
=============================================================================
