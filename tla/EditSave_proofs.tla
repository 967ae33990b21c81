--------------------------- MODULE EditSave_proofs ---------------------------
(***************************************************************************)
(* The locks of the editor and the closing of its windows, for every       *)
(* number of windows, names and texts and every length of a run.           *)
(*                                                                         *)
(* LockExclusive is not inductive: a window that is saving or unlocking    *)
(* believes in a lock that is not in edit->locked yet or any more.  The    *)
(* invariant speaks of all that a window holds (Holds), and says that a    *)
(* lock that is held is in the link (Held), by one window (Single), that   *)
(* the link of a running process is held by one of its windows (Known) and *)
(* that a link about to be unlinked belongs to nobody who runs (Orphaned), *)
(* always except for names whose lock a user grabbed or ignored (bold).    *)
(*                                                                         *)
(* Then what becomes of the files: SInv says where the text of a file is   *)
(* during a safe save, OInv what a window may delete, and AInv what each   *)
(* window knows of its file, by the times that it compares.                *)
(***************************************************************************)
EXTENDS EditSave, SequenceTheorems, TLAPS

Locking   == {"lockStat", "lockRead", "lockAsk", "lockUnlink", "lockLink"}
Saving    == {"stat", "askLinks", "askTime", "temp", "open", "write", "backup", "rename"}
Unlocking == {"unlock", "unlockRead", "unlockUnlink"}

\* The name n is still to be unlocked.
Pending(r, n) == \E i \in DOMAIN r.todo : r.todo[i] = n

\* The window believes that it has the lock of the name n.
Holds(r, n) ==
    \/ r.locked /\ r.name = n
    \/ r.pc \in Saving /\ r.saveLock /\ r.target = n
    \/ r.pc \in Unlocking /\ Pending(r, n)

\* What a window is at each place of the code, whatever the others do.
LockedOK(r) ==
    /\ r.locked => r.modified /\ ~r.deleteFile /\ r.name \in Names
    /\ r.pc \in {"unopened", "load", "clean", "closed", "dead"} => ~r.locked
LockingOK(r) ==
    r.pc \in Locking =>
        /\ r.target \in Names
        /\ r.cmd # "saveAs" => r.target = r.name /\ ~r.locked
        /\ r.cmd = "saveAs" => r.target # r.name \/ ~r.locked
        /\ r.cmd = "type" => ~r.deleteFile
SavingOK(r) ==
    /\ r.pc = "askOver" => r.cmd = "saveAs" /\ r.target \in Names /\ r.target # r.name
    /\ r.pc \in Saving =>
        /\ r.target \in Names /\ r.cmd # "type"
        /\ r.cmd = "save" => r.target = r.name
        /\ r.saveLock /\ r.locked => r.target # r.name
    /\ r.fd # "none" => r.pc = "write" /\ r.mode = "quick"
    /\ r.pc = "load" => r.name \in Names
UnlockingOK(r) ==
    /\ r.pc \in Unlocking =>
        /\ r.todo # <<>> 
        /\ \A i, j \in DOMAIN r.todo : i # j => r.todo[i] # r.todo[j]
        /\ r.locked => ~Pending(r, r.name)
        /\ r.closing = "sure" => ~r.locked
    /\ r.pc = "settle" \/ (r.pc \in Unlocking /\ r.closing # "sure") =>
        /\ r.target \in Names
        /\ r.res = "ok" => ~r.locked
    /\ r.closing = "sure" => r.pc \in Unlocking \union {"clean", "closed"}

\* A window that closes has nothing to lose, or the user chose to.
ClosingOK(r) ==
    /\ r.pc \in {"unopened", "load"} => ~r.modified
    /\ r.closing = "sure" \/ r.pc \in {"clean", "closed"} =>
        ~r.modified \/ r.saidNo \/ r.res = "abort"

WinOK(r) ==
    r \in WindowType /\ LockedOK(r) /\ LockingOK(r) /\ SavingOK(r) /\ UnlockingOK(r) /\ ClosingOK(r)

DiskOK ==
    /\ world \in Worlds
    /\ fs \in [Names -> Files] /\ backup \in [Names -> Files] /\ temp \in [Windows -> Files]
    /\ link \in [Names -> Pids \union {Free, Stale}]
    /\ alive \subseteq Pids /\ now \in Times /\ texts \in Nat /\ bold \subseteq Names
    /\ missed \subseteq Names

TInv == DiskOK /\ win = [v \in Windows |-> win[v]] /\ \A w \in Windows : WinOK(win[w])

\* Windows live with their process; a link of a dead process was there at the start.
Living ==
    /\ \A w \in Windows : win[w].pc # "dead" => world.pid[w] \in alive
    /\ \A w \in Windows \ world.windows : win[w].pc \in {"unopened", "dead"}
    /\ \A n \in Names : link[n] = Stale => n \in world.stale

\* A lock that a window holds is its link.
Held == \A w \in Windows, n \in Names : Holds(win[w], n) => link[n] = world.pid[w] \/ n \in bold
\* No two windows hold the same lock.
Single == \A v, w \in Windows, n \in Names : v # w /\ Holds(win[v], n) /\ Holds(win[w], n) => n \in bold
\* The link of a process that runs is held by one of its windows.
Known ==
    \A n \in Names : link[n] \in alive => \E w \in Windows : world.pid[w] = link[n] /\ Holds(win[w], n)
\* A link that is about to be unlinked is that of no process that runs.
Orphaned == \A w \in Windows : win[w].pc = "lockUnlink" /\ win[w].target \notin bold =>
                 link[win[w].target] \notin alive \union {Free}

\* Not two processes find the link of a dead one.
Careful(wd) == wd.stale = {} \/ \A v, w \in wd.windows : wd.pid[v] = wd.pid[w]

\* The whole invariant: the windows always, the locks in such circumstances.
LInv == TInv /\ Living /\ (Careful(world) => Held /\ Single /\ Known /\ Orphaned)

-----------------------------------------------------------------------------
(* What the helpers of the code make of a window                           *)

\* The windows q and r hold the same locks.
Same(q, r) == \A n : Holds(q, n) <=> Holds(r, n)
Fits(q) == LockedOK(q) /\ LockingOK(q) /\ SavingOK(q) /\ UnlockingOK(q) /\ ClosingOK(q)

\* Short lists of names are lists of names.
LEMMA SeqNames ==
  /\ <<>> \in Seq(Names)
  /\ \A n \in Names : <<n>> \in Seq(Names)
  /\ \A n, m \in Names : <<n, m>> \in Seq(Names)
OBVIOUS

\* lock_file goes from one of its system calls to the next.
LEMMA LockMoves ==
  ASSUME NEW r, WinOK(r), r.pc \in Locking, NEW x \in Locking,
         NEW q, q = [r EXCEPT !.pc = x]
  PROVE  WinOK(q) /\ Same(q, r)
<1>0. r \in WindowType BY DEF WinOK
<1>1. q \in WindowType BY <1>0, ZenonT(60) DEF WindowType, Labels, Locking
<1>2. /\ q.pc = x /\ q.name = r.name /\ q.modified = r.modified /\ q.locked = r.locked
      /\ q.deleteFile = r.deleteFile /\ q.cmd = r.cmd
      /\ q.closing = r.closing /\ q.target = r.target /\ q.saveLock = r.saveLock /\ q.fd = r.fd
      /\ q.res = r.res /\ q.todo = r.todo /\ q.mode = r.mode /\ q.saidNo = r.saidNo
  BY <1>0 DEF WindowType
<1>3. Fits(q)
  BY <1>1, <1>2
    DEF WinOK, Fits, Pending, LockedOK, LockingOK, SavingOK, UnlockingOK, ClosingOK, Locking,
        Saving, Unlocking
<1>4. Same(q, r)
  BY <1>1, <1>2
    DEF Same, Holds, Pending, WinOK, LockedOK, LockingOK, SavingOK, UnlockingOK, ClosingOK,
        Locking, Saving, Unlocking
<1> QED BY <1>1, <1>3, <1>4 DEF WinOK, Fits

\* lock_file returns to edit_modification.
LEMMA LockTyped ==
  ASSUME NEW r, WinOK(r), r.pc \in Locking, r.cmd = "type", NEW ok \in BOOLEAN,
         NEW q, q = [r EXCEPT !.pc = "idle", !.locked = ok, !.modified = TRUE]
  PROVE  WinOK(q)
<1>0. r \in WindowType BY DEF WinOK
<1>1. q \in WindowType BY <1>0, ZenonT(60) DEF WindowType, Labels
<1>2. /\ q.pc = "idle" /\ q.name = r.name /\ q.modified = TRUE /\ q.locked = ok
      /\ q.deleteFile = r.deleteFile /\ q.cmd = r.cmd
      /\ q.closing = r.closing /\ q.target = r.target /\ q.saveLock = r.saveLock /\ q.fd = r.fd
      /\ q.res = r.res /\ q.todo = r.todo /\ q.mode = r.mode /\ q.saidNo = r.saidNo
  BY <1>0 DEF WindowType
<1>3. Fits(q)
  BY <1>1, <1>2
    DEF WinOK, Fits, Pending, LockedOK, LockingOK, SavingOK, UnlockingOK, ClosingOK, Locking,
        Saving, Unlocking
<1> QED BY <1>1, <1>3 DEF WinOK, Fits

\* lock_file returns to edit_save_cmd or edit_save_as_cmd.
LEMMA LockSaves ==
  ASSUME NEW r, WinOK(r), r.pc \in Locking, r.cmd # "type", NEW ok \in BOOLEAN,
         NEW q, q = [r EXCEPT !.pc = "stat", !.saveLock = ok]
  PROVE  WinOK(q)
<1>0. r \in WindowType BY DEF WinOK
<1>1. q \in WindowType BY <1>0, ZenonT(60) DEF WindowType, Labels
<1>2. /\ q.pc = "stat" /\ q.name = r.name /\ q.modified = r.modified /\ q.locked = r.locked
      /\ q.deleteFile = r.deleteFile /\ q.cmd = r.cmd
      /\ q.closing = r.closing /\ q.target = r.target /\ q.saveLock = ok /\ q.fd = r.fd
      /\ q.res = r.res /\ q.todo = r.todo /\ q.mode = r.mode /\ q.saidNo = r.saidNo
  BY <1>0 DEF WindowType
<1>3. Fits(q)
  BY <1>1, <1>2
    DEF WinOK, Fits, Pending, LockedOK, LockingOK, SavingOK, UnlockingOK, ClosingOK, Locking,
        Saving, Unlocking
<1> QED BY <1>1, <1>3 DEF WinOK, Fits

\* A change of a text that needs no lock, or has asked for it.
LEMMA TypedInto ==
  ASSUME NEW r, WinOK(r), r.pc = "idle", NEW t \in Texts, r.modified \/ r.deleteFile \/ r.name = NoName,
         NEW q, q = [r EXCEPT !.buf = t, !.modified = TRUE]
  PROVE  WinOK(q) /\ Same(q, r)
<1>0. r \in WindowType BY DEF WinOK
<1>1. q \in WindowType BY <1>0, ZenonT(60) DEF WindowType, Labels
<1>2. /\ q.pc = r.pc /\ q.name = r.name /\ q.modified = TRUE /\ q.locked = r.locked
      /\ q.deleteFile = r.deleteFile /\ q.cmd = r.cmd
      /\ q.closing = r.closing /\ q.target = r.target /\ q.saveLock = r.saveLock /\ q.fd = r.fd
      /\ q.res = r.res /\ q.todo = r.todo /\ q.mode = r.mode /\ q.saidNo = r.saidNo
  BY <1>0 DEF WindowType
<1>3. Fits(q)
  BY <1>1, <1>2
    DEF WinOK, Fits, Pending, LockedOK, LockingOK, SavingOK, UnlockingOK, ClosingOK, Locking,
        Saving, Unlocking
<1>4. Same(q, r)
  BY <1>1, <1>2
    DEF Same, Holds, Pending, WinOK, LockedOK, LockingOK, SavingOK, UnlockingOK, ClosingOK,
        Locking, Saving, Unlocking
<1> QED BY <1>1, <1>3, <1>4 DEF WinOK, Fits

\* The first change of a text asks for the lock.
LEMMA TypedFirst ==
  ASSUME NEW r, WinOK(r), r.pc = "idle", NEW t \in Texts, ~r.modified, ~r.deleteFile, r.name \in Names,
         NEW q, q = [r EXCEPT !.buf = t, !.pc = "lockStat", !.cmd = "type", !.target = r.name]
  PROVE  WinOK(q) /\ Same(q, r)
<1>0. r \in WindowType BY DEF WinOK
<1>1. q \in WindowType BY <1>0, ZenonT(60) DEF WindowType, Labels
<1>2. /\ q.pc = "lockStat" /\ q.name = r.name /\ q.modified = r.modified /\ q.locked = r.locked
      /\ q.deleteFile = r.deleteFile /\ q.cmd = "type"
      /\ q.closing = r.closing /\ q.target = r.name /\ q.saveLock = r.saveLock /\ q.fd = r.fd
      /\ q.res = r.res /\ q.todo = r.todo /\ q.mode = r.mode /\ q.saidNo = r.saidNo
  BY <1>0 DEF WindowType
<1>3. Fits(q)
  BY <1>1, <1>2
    DEF WinOK, Fits, Pending, LockedOK, LockingOK, SavingOK, UnlockingOK, ClosingOK, Locking,
        Saving, Unlocking
<1>4. Same(q, r)
  BY <1>1, <1>2
    DEF Same, Holds, Pending, WinOK, LockedOK, LockingOK, SavingOK, UnlockingOK, ClosingOK,
        Locking, Saving, Unlocking
<1> QED BY <1>1, <1>3, <1>4 DEF WinOK, Fits

\* A window that holds the lock of its file is to lower it before it closes.
LEMMA LeaveLocked ==
  ASSUME NEW r, WinOK(r), r.pc \in {"idle", "askSave", "settle"}, r.locked,
         ~r.modified \/ r.saidNo \/ r.res = "abort",
         NEW q, q = [r EXCEPT !.closing = "sure", !.locked = FALSE, !.todo = <<r.name>>, !.pc = "unlock"]
  PROVE  WinOK(q) /\ Same(q, r)
<1>0. r \in WindowType /\ <<r.name>> \in NameLists
  BY SeqNames
    DEF WinOK, LockedOK, SavingOK, LockingOK, UnlockingOK, NameLists, LockedOK, LockingOK,
        SavingOK, UnlockingOK, ClosingOK, Locking, Saving, Unlocking
<1>1. q \in WindowType BY <1>0, ZenonT(60) DEF WindowType, Labels
<1>2. /\ q.pc = "unlock" /\ q.name = r.name /\ q.modified = r.modified /\ q.locked = FALSE
      /\ q.deleteFile = r.deleteFile /\ q.cmd = r.cmd
      /\ q.closing = "sure" /\ q.target = r.target /\ q.saveLock = r.saveLock /\ q.fd = r.fd
      /\ q.res = r.res /\ q.todo = <<r.name>> /\ q.mode = r.mode /\ q.saidNo = r.saidNo
  BY <1>0 DEF WindowType
<1>3. Fits(q)
  BY <1>1, <1>2
    DEF WinOK, Fits, Pending, LockedOK, LockingOK, SavingOK, UnlockingOK, ClosingOK, Locking,
        Saving, Unlocking
<1>4. Same(q, r)
  BY <1>1, <1>2
    DEF Same, Holds, Pending, WinOK, LockedOK, LockingOK, SavingOK, UnlockingOK, ClosingOK,
        Locking, Saving, Unlocking
<1> QED BY <1>1, <1>3, <1>4 DEF WinOK, Fits

\* A window without a lock goes straight to edit_clean.
LEMMA LeaveFree ==
  ASSUME NEW r, WinOK(r), r.pc \in {"idle", "askSave", "settle", "unopened"}, ~r.locked,
         ~r.modified \/ r.saidNo \/ r.res = "abort",
         NEW q, q = [r EXCEPT !.closing = "sure", !.locked = FALSE, !.todo = <<>>, !.pc = "clean"]
  PROVE  WinOK(q) /\ Same(q, r)
<1>0. r \in WindowType /\ <<>> \in NameLists
  BY SeqNames
    DEF WinOK, LockedOK, SavingOK, LockingOK, UnlockingOK, NameLists, LockedOK, LockingOK,
        SavingOK, UnlockingOK, ClosingOK, Locking, Saving, Unlocking
<1>1. q \in WindowType BY <1>0, ZenonT(60) DEF WindowType, Labels
<1>2. /\ q.pc = "clean" /\ q.name = r.name /\ q.modified = r.modified /\ q.locked = FALSE
      /\ q.deleteFile = r.deleteFile /\ q.cmd = r.cmd
      /\ q.closing = "sure" /\ q.target = r.target /\ q.saveLock = r.saveLock /\ q.fd = r.fd
      /\ q.res = r.res /\ q.todo = <<>> /\ q.mode = r.mode /\ q.saidNo = r.saidNo
  BY <1>0 DEF WindowType
<1>3. Fits(q)
  BY <1>1, <1>2
    DEF WinOK, Fits, Pending, LockedOK, LockingOK, SavingOK, UnlockingOK, ClosingOK, Locking,
        Saving, Unlocking
<1>4. Same(q, r)
  BY <1>1, <1>2
    DEF Same, Holds, Pending, WinOK, LockedOK, LockingOK, SavingOK, UnlockingOK, ClosingOK,
        Locking, Saving, Unlocking
<1> QED BY <1>1, <1>3, <1>4 DEF WinOK, Fits

\* A window without a name is ready at once.
LEMMA OpenUnnamed ==
  ASSUME NEW r, WinOK(r), r.pc = "unopened",
         NEW q, q = [r EXCEPT !.pc = "idle"]
  PROVE  WinOK(q) /\ Same(q, r)
<1>0. r \in WindowType BY DEF WinOK
<1>1. q \in WindowType BY <1>0, ZenonT(60) DEF WindowType, Labels
<1>2. /\ q.pc = "idle" /\ q.name = r.name /\ q.modified = r.modified /\ q.locked = r.locked
      /\ q.deleteFile = r.deleteFile /\ q.cmd = r.cmd
      /\ q.closing = r.closing /\ q.target = r.target /\ q.saveLock = r.saveLock /\ q.fd = r.fd
      /\ q.res = r.res /\ q.todo = r.todo /\ q.mode = r.mode /\ q.saidNo = r.saidNo
  BY <1>0 DEF WindowType
<1>3. Fits(q)
  BY <1>1, <1>2
    DEF WinOK, Fits, Pending, LockedOK, LockingOK, SavingOK, UnlockingOK, ClosingOK, Locking,
        Saving, Unlocking
<1>4. Same(q, r)
  BY <1>1, <1>2
    DEF Same, Holds, Pending, WinOK, LockedOK, LockingOK, SavingOK, UnlockingOK, ClosingOK,
        Locking, Saving, Unlocking
<1> QED BY <1>1, <1>3, <1>4 DEF WinOK, Fits

\* A window opens a file that exists.
LEMMA OpenFile ==
  ASSUME NEW r, WinOK(r), r.pc = "unopened", r.name \in Names, NEW t \in Times,
         NEW q, q = [r EXCEPT !.pc = "load", !.time = t]
  PROVE  WinOK(q) /\ Same(q, r)
<1>0. r \in WindowType BY DEF WinOK
<1>1. q \in WindowType BY <1>0, ZenonT(60) DEF WindowType, Labels
<1>2. /\ q.pc = "load" /\ q.name = r.name /\ q.modified = r.modified /\ q.locked = r.locked
      /\ q.deleteFile = r.deleteFile /\ q.cmd = r.cmd
      /\ q.closing = r.closing /\ q.target = r.target /\ q.saveLock = r.saveLock /\ q.fd = r.fd
      /\ q.res = r.res /\ q.todo = r.todo /\ q.mode = r.mode /\ q.saidNo = r.saidNo
  BY <1>0 DEF WindowType
<1>3. Fits(q)
  BY <1>1, <1>2
    DEF WinOK, Fits, Pending, LockedOK, LockingOK, SavingOK, UnlockingOK, ClosingOK, Locking,
        Saving, Unlocking
<1>4. Same(q, r)
  BY <1>1, <1>2
    DEF Same, Holds, Pending, WinOK, LockedOK, LockingOK, SavingOK, UnlockingOK, ClosingOK,
        Locking, Saving, Unlocking
<1> QED BY <1>1, <1>3, <1>4 DEF WinOK, Fits

\* A window opens a file that it had to create.
LEMMA OpenNew ==
  ASSUME NEW r, WinOK(r), r.pc = "unopened", r.name \in Names, NEW t \in Times,
         NEW q, q = [r EXCEPT !.pc = "load", !.time = t, !.deleteFile = TRUE]
  PROVE  WinOK(q) /\ Same(q, r)
<1>0. r \in WindowType BY DEF WinOK
<1>1. q \in WindowType BY <1>0, ZenonT(60) DEF WindowType, Labels
<1>2. /\ q.pc = "load" /\ q.name = r.name /\ q.modified = r.modified /\ q.locked = r.locked
      /\ q.deleteFile = TRUE /\ q.cmd = r.cmd
      /\ q.closing = r.closing /\ q.target = r.target /\ q.saveLock = r.saveLock /\ q.fd = r.fd
      /\ q.res = r.res /\ q.todo = r.todo /\ q.mode = r.mode /\ q.saidNo = r.saidNo
  BY <1>0 DEF WindowType
<1>3. Fits(q)
  BY <1>1, <1>2
    DEF WinOK, Fits, Pending, LockedOK, LockingOK, SavingOK, UnlockingOK, ClosingOK, Locking,
        Saving, Unlocking
<1>4. Same(q, r)
  BY <1>1, <1>2
    DEF Same, Holds, Pending, WinOK, LockedOK, LockingOK, SavingOK, UnlockingOK, ClosingOK,
        Locking, Saving, Unlocking
<1> QED BY <1>1, <1>3, <1>4 DEF WinOK, Fits

\* The text of the file is read.
LEMMA LoadText ==
  ASSUME NEW r, WinOK(r), r.pc = "load", NEW t \in Texts,
         NEW q, q = [r EXCEPT !.pc = "idle", !.buf = t, !.base = t]
  PROVE  WinOK(q) /\ Same(q, r)
<1>0. r \in WindowType BY DEF WinOK
<1>1. q \in WindowType BY <1>0, ZenonT(60) DEF WindowType, Labels
<1>2. /\ q.pc = "idle" /\ q.name = r.name /\ q.modified = r.modified /\ q.locked = r.locked
      /\ q.deleteFile = r.deleteFile /\ q.cmd = r.cmd
      /\ q.closing = r.closing /\ q.target = r.target /\ q.saveLock = r.saveLock /\ q.fd = r.fd
      /\ q.res = r.res /\ q.todo = r.todo /\ q.mode = r.mode /\ q.saidNo = r.saidNo
  BY <1>0 DEF WindowType
<1>3. Fits(q)
  BY <1>1, <1>2
    DEF WinOK, Fits, Pending, LockedOK, LockingOK, SavingOK, UnlockingOK, ClosingOK, Locking,
        Saving, Unlocking
<1>4. Same(q, r)
  BY <1>1, <1>2
    DEF Same, Holds, Pending, WinOK, LockedOK, LockingOK, SavingOK, UnlockingOK, ClosingOK,
        Locking, Saving, Unlocking
<1> QED BY <1>1, <1>3, <1>4 DEF WinOK, Fits

\* The file is gone before it is read: the window closes, with nothing to lose.
LEMMA LoadFails ==
  ASSUME NEW r, WinOK(r), r.pc = "load",
         NEW q, q = [r EXCEPT !.pc = "closed"]
  PROVE  WinOK(q) /\ Same(q, r)
<1>0. r \in WindowType BY DEF WinOK
<1>1. q \in WindowType BY <1>0, ZenonT(60) DEF WindowType, Labels
<1>2. /\ q.pc = "closed" /\ q.name = r.name /\ q.modified = r.modified /\ q.locked = r.locked
      /\ q.deleteFile = r.deleteFile /\ q.cmd = r.cmd
      /\ q.closing = r.closing /\ q.target = r.target /\ q.saveLock = r.saveLock /\ q.fd = r.fd
      /\ q.res = r.res /\ q.todo = r.todo /\ q.mode = r.mode /\ q.saidNo = r.saidNo
  BY <1>0 DEF WindowType
<1>3. Fits(q)
  BY <1>1, <1>2
    DEF WinOK, Fits, Pending, LockedOK, LockingOK, SavingOK, UnlockingOK, ClosingOK, Locking,
        Saving, Unlocking
<1>4. Same(q, r)
  BY <1>1, <1>2
    DEF Same, Holds, Pending, WinOK, LockedOK, LockingOK, SavingOK, UnlockingOK, ClosingOK,
        Locking, Saving, Unlocking
<1> QED BY <1>1, <1>3, <1>4 DEF WinOK, Fits

\* Counting the commands changes nothing else.
LEMMA CountCommand ==
  ASSUME NEW r, WinOK(r), r.pc = "idle",
         NEW q, q = [r EXCEPT !.commands = r.commands + 1]
  PROVE  WinOK(q) /\ Same(q, r)
<1>0. r \in WindowType /\ r.commands + 1 \in Nat
  BY SeqNames
    DEF WinOK, LockedOK, SavingOK, LockingOK, UnlockingOK, NameLists, WindowType, LockedOK,
        LockingOK, SavingOK, UnlockingOK, ClosingOK, Locking, Saving, Unlocking
<1>1. q \in WindowType BY <1>0, ZenonT(60) DEF WindowType, Labels
<1>2. /\ q.pc = r.pc /\ q.name = r.name /\ q.modified = r.modified /\ q.locked = r.locked
      /\ q.deleteFile = r.deleteFile /\ q.cmd = r.cmd
      /\ q.closing = r.closing /\ q.target = r.target /\ q.saveLock = r.saveLock /\ q.fd = r.fd
      /\ q.res = r.res /\ q.todo = r.todo /\ q.mode = r.mode /\ q.saidNo = r.saidNo
  BY <1>0 DEF WindowType
<1>3. Fits(q)
  BY <1>1, <1>2
    DEF WinOK, Fits, Pending, LockedOK, LockingOK, SavingOK, UnlockingOK, ClosingOK, Locking,
        Saving, Unlocking
<1>4. Same(q, r)
  BY <1>1, <1>2
    DEF Same, Holds, Pending, WinOK, LockedOK, LockingOK, SavingOK, UnlockingOK, ClosingOK,
        Locking, Saving, Unlocking
<1> QED BY <1>1, <1>3, <1>4 DEF WinOK, Fits

\* A window goes to or from one of the first dialogs of a command.
LEMMA MovePause ==
  ASSUME NEW r, WinOK(r), r.pc \in {"idle", "askSave", "askName", "askOver"}, NEW x \in {"idle", "askSave", "askName"},
         NEW q, q = [r EXCEPT !.pc = x]
  PROVE  WinOK(q) /\ Same(q, r)
<1>0. r \in WindowType BY DEF WinOK
<1>1. q \in WindowType BY <1>0, ZenonT(60) DEF WindowType, Labels
<1>2. /\ q.pc = x /\ q.name = r.name /\ q.modified = r.modified /\ q.locked = r.locked
      /\ q.deleteFile = r.deleteFile /\ q.cmd = r.cmd
      /\ q.closing = r.closing /\ q.target = r.target /\ q.saveLock = r.saveLock /\ q.fd = r.fd
      /\ q.res = r.res /\ q.todo = r.todo /\ q.mode = r.mode /\ q.saidNo = r.saidNo
  BY <1>0 DEF WindowType
<1>3. Fits(q)
  BY <1>1, <1>2
    DEF WinOK, Fits, Pending, LockedOK, LockingOK, SavingOK, UnlockingOK, ClosingOK, Locking,
        Saving, Unlocking
<1>4. Same(q, r)
  BY <1>1, <1>2
    DEF Same, Holds, Pending, WinOK, LockedOK, LockingOK, SavingOK, UnlockingOK, ClosingOK,
        Locking, Saving, Unlocking
<1> QED BY <1>1, <1>3, <1>4 DEF WinOK, Fits

\* The user wants the text saved before the window closes.
LEMMA AskedToClose ==
  ASSUME NEW r, WinOK(r), r.pc = "askSave",
         NEW q, q = [r EXCEPT !.closing = "asked"]
  PROVE  WinOK(q) /\ Same(q, r)
<1>0. r \in WindowType BY DEF WinOK
<1>1. q \in WindowType BY <1>0, ZenonT(60) DEF WindowType, Labels
<1>2. /\ q.pc = r.pc /\ q.name = r.name /\ q.modified = r.modified /\ q.locked = r.locked
      /\ q.deleteFile = r.deleteFile /\ q.cmd = r.cmd
      /\ q.closing = "asked" /\ q.target = r.target /\ q.saveLock = r.saveLock /\ q.fd = r.fd
      /\ q.res = r.res /\ q.todo = r.todo /\ q.mode = r.mode /\ q.saidNo = r.saidNo
  BY <1>0 DEF WindowType
<1>3. Fits(q)
  BY <1>1, <1>2
    DEF WinOK, Fits, Pending, LockedOK, LockingOK, SavingOK, UnlockingOK, ClosingOK, Locking,
        Saving, Unlocking
<1>4. Same(q, r)
  BY <1>1, <1>2
    DEF Same, Holds, Pending, WinOK, LockedOK, LockingOK, SavingOK, UnlockingOK, ClosingOK,
        Locking, Saving, Unlocking
<1> QED BY <1>1, <1>3, <1>4 DEF WinOK, Fits

\* The user does not want the text saved before the window closes.
LEMMA SaidNo ==
  ASSUME NEW r, WinOK(r), r.pc = "askSave",
         NEW q, q = [r EXCEPT !.saidNo = TRUE]
  PROVE  WinOK(q) /\ Same(q, r)
<1>0. r \in WindowType BY DEF WinOK
<1>1. q \in WindowType BY <1>0, ZenonT(60) DEF WindowType, Labels
<1>2. /\ q.pc = r.pc /\ q.name = r.name /\ q.modified = r.modified /\ q.locked = r.locked
      /\ q.deleteFile = r.deleteFile /\ q.cmd = r.cmd
      /\ q.closing = r.closing /\ q.target = r.target /\ q.saveLock = r.saveLock /\ q.fd = r.fd
      /\ q.res = r.res /\ q.todo = r.todo /\ q.mode = r.mode /\ q.saidNo = TRUE
  BY <1>0 DEF WindowType
<1>3. Fits(q)
  BY <1>1, <1>2
    DEF WinOK, Fits, Pending, LockedOK, LockingOK, SavingOK, UnlockingOK, ClosingOK, Locking,
        Saving, Unlocking
<1>4. Same(q, r)
  BY <1>1, <1>2
    DEF Same, Holds, Pending, WinOK, LockedOK, LockingOK, SavingOK, UnlockingOK, ClosingOK,
        Locking, Saving, Unlocking
<1> QED BY <1>1, <1>3, <1>4 DEF WinOK, Fits

\* A save of a window without a name asks for one.
LEMMA SaveUnnamed ==
  ASSUME NEW r, WinOK(r), r.pc \in {"idle", "askSave"},
         NEW q, q = [r EXCEPT !.cmd = "save", !.target = r.name, !.saveLock = FALSE, !.asked = FALSE, !.pc = "askName"]
  PROVE  WinOK(q) /\ Same(q, r)
<1>0. r \in WindowType BY DEF WinOK
<1>1. q \in WindowType BY <1>0, ZenonT(60) DEF WindowType, Labels
<1>2. /\ q.pc = "askName" /\ q.name = r.name /\ q.modified = r.modified /\ q.locked = r.locked
      /\ q.deleteFile = r.deleteFile /\ q.cmd = "save"
      /\ q.closing = r.closing /\ q.target = r.name /\ q.saveLock = FALSE /\ q.fd = r.fd
      /\ q.res = r.res /\ q.todo = r.todo /\ q.mode = r.mode /\ q.saidNo = r.saidNo
  BY <1>0 DEF WindowType
<1>3. Fits(q)
  BY <1>1, <1>2
    DEF WinOK, Fits, Pending, LockedOK, LockingOK, SavingOK, UnlockingOK, ClosingOK, Locking,
        Saving, Unlocking
<1>4. Same(q, r)
  BY <1>1, <1>2
    DEF Same, Holds, Pending, WinOK, LockedOK, LockingOK, SavingOK, UnlockingOK, ClosingOK,
        Locking, Saving, Unlocking
<1> QED BY <1>1, <1>3, <1>4 DEF WinOK, Fits

\* A save of a window that has its lock, or needs none, goes on to the stat.
LEMMA SaveOwn ==
  ASSUME NEW r, WinOK(r), r.pc \in {"idle", "askSave"}, r.name \in Names,
         NEW q, q = [r EXCEPT !.cmd = "save", !.target = r.name, !.saveLock = FALSE, !.asked = FALSE, !.pc = "stat"]
  PROVE  WinOK(q) /\ Same(q, r)
<1>0. r \in WindowType BY DEF WinOK
<1>1. q \in WindowType BY <1>0, ZenonT(60) DEF WindowType, Labels
<1>2. /\ q.pc = "stat" /\ q.name = r.name /\ q.modified = r.modified /\ q.locked = r.locked
      /\ q.deleteFile = r.deleteFile /\ q.cmd = "save"
      /\ q.closing = r.closing /\ q.target = r.name /\ q.saveLock = FALSE /\ q.fd = r.fd
      /\ q.res = r.res /\ q.todo = r.todo /\ q.mode = r.mode /\ q.saidNo = r.saidNo
  BY <1>0 DEF WindowType
<1>3. Fits(q)
  BY <1>1, <1>2
    DEF WinOK, Fits, Pending, LockedOK, LockingOK, SavingOK, UnlockingOK, ClosingOK, Locking,
        Saving, Unlocking
<1>4. Same(q, r)
  BY <1>1, <1>2
    DEF Same, Holds, Pending, WinOK, LockedOK, LockingOK, SavingOK, UnlockingOK, ClosingOK,
        Locking, Saving, Unlocking
<1> QED BY <1>1, <1>3, <1>4 DEF WinOK, Fits

\* A save of a window without its lock asks for it first.
LEMMA SaveFirst ==
  ASSUME NEW r, WinOK(r), r.pc \in {"idle", "askSave"}, r.name \in Names, ~r.locked, ~r.deleteFile,
         NEW q, q = [r EXCEPT !.cmd = "save", !.target = r.name, !.saveLock = FALSE, !.asked = FALSE, !.pc = "lockStat"]
  PROVE  WinOK(q) /\ Same(q, r)
<1>0. r \in WindowType BY DEF WinOK
<1>1. q \in WindowType BY <1>0, ZenonT(60) DEF WindowType, Labels
<1>2. /\ q.pc = "lockStat" /\ q.name = r.name /\ q.modified = r.modified /\ q.locked = r.locked
      /\ q.deleteFile = r.deleteFile /\ q.cmd = "save"
      /\ q.closing = r.closing /\ q.target = r.name /\ q.saveLock = FALSE /\ q.fd = r.fd
      /\ q.res = r.res /\ q.todo = r.todo /\ q.mode = r.mode /\ q.saidNo = r.saidNo
  BY <1>0 DEF WindowType
<1>3. Fits(q)
  BY <1>1, <1>2
    DEF WinOK, Fits, Pending, LockedOK, LockingOK, SavingOK, UnlockingOK, ClosingOK, Locking,
        Saving, Unlocking
<1>4. Same(q, r)
  BY <1>1, <1>2
    DEF Same, Holds, Pending, WinOK, LockedOK, LockingOK, SavingOK, UnlockingOK, ClosingOK,
        Locking, Saving, Unlocking
<1> QED BY <1>1, <1>3, <1>4 DEF WinOK, Fits

\* "Save as" under the name of another file that exists.
LEMMA NameTaken ==
  ASSUME NEW r, WinOK(r), r.pc = "askName", NEW n \in Names, NEW lb \in BOOLEAN, n # r.name,
         NEW q, q = [r EXCEPT !.cmd = "saveAs", !.target = n, !.convert = lb, !.saveLock = FALSE, !.asked = FALSE, !.pc = "askOver"]
  PROVE  WinOK(q) /\ Same(q, r)
<1>0. r \in WindowType BY DEF WinOK
<1>1. q \in WindowType BY <1>0, ZenonT(60) DEF WindowType, Labels
<1>2. /\ q.pc = "askOver" /\ q.name = r.name /\ q.modified = r.modified /\ q.locked = r.locked
      /\ q.deleteFile = r.deleteFile /\ q.cmd = "saveAs"
      /\ q.closing = r.closing /\ q.target = n /\ q.saveLock = FALSE /\ q.fd = r.fd
      /\ q.res = r.res /\ q.todo = r.todo /\ q.mode = r.mode /\ q.saidNo = r.saidNo
  BY <1>0 DEF WindowType
<1>3. Fits(q)
  BY <1>1, <1>2
    DEF WinOK, Fits, Pending, LockedOK, LockingOK, SavingOK, UnlockingOK, ClosingOK, Locking,
        Saving, Unlocking
<1>4. Same(q, r)
  BY <1>1, <1>2
    DEF Same, Holds, Pending, WinOK, LockedOK, LockingOK, SavingOK, UnlockingOK, ClosingOK,
        Locking, Saving, Unlocking
<1> QED BY <1>1, <1>3, <1>4 DEF WinOK, Fits

\* "Save as" under the name the window has.
LEMMA NameOwn ==
  ASSUME NEW r, WinOK(r), r.pc = "askName", NEW n \in Names, NEW lb \in BOOLEAN,
         NEW q, q = [r EXCEPT !.cmd = "saveAs", !.target = n, !.convert = lb, !.saveLock = FALSE, !.asked = FALSE, !.pc = "stat"]
  PROVE  WinOK(q) /\ Same(q, r)
<1>0. r \in WindowType BY DEF WinOK
<1>1. q \in WindowType BY <1>0, ZenonT(60) DEF WindowType, Labels
<1>2. /\ q.pc = "stat" /\ q.name = r.name /\ q.modified = r.modified /\ q.locked = r.locked
      /\ q.deleteFile = r.deleteFile /\ q.cmd = "saveAs"
      /\ q.closing = r.closing /\ q.target = n /\ q.saveLock = FALSE /\ q.fd = r.fd
      /\ q.res = r.res /\ q.todo = r.todo /\ q.mode = r.mode /\ q.saidNo = r.saidNo
  BY <1>0 DEF WindowType
<1>3. Fits(q)
  BY <1>1, <1>2
    DEF WinOK, Fits, Pending, LockedOK, LockingOK, SavingOK, UnlockingOK, ClosingOK, Locking,
        Saving, Unlocking
<1>4. Same(q, r)
  BY <1>1, <1>2
    DEF Same, Holds, Pending, WinOK, LockedOK, LockingOK, SavingOK, UnlockingOK, ClosingOK,
        Locking, Saving, Unlocking
<1> QED BY <1>1, <1>3, <1>4 DEF WinOK, Fits

\* "Save as" under a name whose lock is wanted first.
LEMMA NameFree ==
  ASSUME NEW r, WinOK(r), r.pc = "askName", NEW n \in Names, NEW lb \in BOOLEAN, n # r.name \/ ~r.locked,
         NEW q, q = [r EXCEPT !.cmd = "saveAs", !.target = n, !.convert = lb, !.saveLock = FALSE, !.asked = FALSE, !.pc = "lockStat"]
  PROVE  WinOK(q) /\ Same(q, r)
<1>0. r \in WindowType BY DEF WinOK
<1>1. q \in WindowType BY <1>0, ZenonT(60) DEF WindowType, Labels
<1>2. /\ q.pc = "lockStat" /\ q.name = r.name /\ q.modified = r.modified /\ q.locked = r.locked
      /\ q.deleteFile = r.deleteFile /\ q.cmd = "saveAs"
      /\ q.closing = r.closing /\ q.target = n /\ q.saveLock = FALSE /\ q.fd = r.fd
      /\ q.res = r.res /\ q.todo = r.todo /\ q.mode = r.mode /\ q.saidNo = r.saidNo
  BY <1>0 DEF WindowType
<1>3. Fits(q)
  BY <1>1, <1>2
    DEF WinOK, Fits, Pending, LockedOK, LockingOK, SavingOK, UnlockingOK, ClosingOK, Locking,
        Saving, Unlocking
<1>4. Same(q, r)
  BY <1>1, <1>2
    DEF Same, Holds, Pending, WinOK, LockedOK, LockingOK, SavingOK, UnlockingOK, ClosingOK,
        Locking, Saving, Unlocking
<1> QED BY <1>1, <1>3, <1>4 DEF WinOK, Fits

\* The user agrees to overwrite: the lock is wanted next.
LEMMA Overwrite ==
  ASSUME NEW r, WinOK(r), r.pc = "askOver",
         NEW q, q = [r EXCEPT !.pc = "lockStat", !.asked = TRUE]
  PROVE  WinOK(q) /\ Same(q, r)
<1>0. r \in WindowType BY DEF WinOK
<1>1. q \in WindowType BY <1>0, ZenonT(60) DEF WindowType, Labels
<1>2. /\ q.pc = "lockStat" /\ q.name = r.name /\ q.modified = r.modified /\ q.locked = r.locked
      /\ q.deleteFile = r.deleteFile /\ q.cmd = r.cmd
      /\ q.closing = r.closing /\ q.target = r.target /\ q.saveLock = r.saveLock /\ q.fd = r.fd
      /\ q.res = r.res /\ q.todo = r.todo /\ q.mode = r.mode /\ q.saidNo = r.saidNo
  BY <1>0 DEF WindowType
<1>3. Fits(q)
  BY <1>1, <1>2
    DEF WinOK, Fits, Pending, LockedOK, LockingOK, SavingOK, UnlockingOK, ClosingOK, Locking,
        Saving, Unlocking
<1>4. Same(q, r)
  BY <1>1, <1>2
    DEF Same, Holds, Pending, WinOK, LockedOK, LockingOK, SavingOK, UnlockingOK, ClosingOK,
        Locking, Saving, Unlocking
<1> QED BY <1>1, <1>3, <1>4 DEF WinOK, Fits

\* A command is given up, and with it the attempt to close the window.
LEMMA GiveUp ==
  ASSUME NEW r, WinOK(r), r.pc \in {"askName", "askOver", "settle"},
         NEW q, q = [r EXCEPT !.pc = "idle", !.closing = "no"]
  PROVE  WinOK(q) /\ Same(q, r)
<1>0. r \in WindowType BY DEF WinOK
<1>1. q \in WindowType BY <1>0, ZenonT(60) DEF WindowType, Labels
<1>2. /\ q.pc = "idle" /\ q.name = r.name /\ q.modified = r.modified /\ q.locked = r.locked
      /\ q.deleteFile = r.deleteFile /\ q.cmd = r.cmd
      /\ q.closing = "no" /\ q.target = r.target /\ q.saveLock = r.saveLock /\ q.fd = r.fd
      /\ q.res = r.res /\ q.todo = r.todo /\ q.mode = r.mode /\ q.saidNo = r.saidNo
  BY <1>0 DEF WindowType
<1>3. Fits(q)
  BY <1>1, <1>2
    DEF WinOK, Fits, Pending, LockedOK, LockingOK, SavingOK, UnlockingOK, ClosingOK, Locking,
        Saving, Unlocking
<1>4. Same(q, r)
  BY <1>1, <1>2
    DEF Same, Holds, Pending, WinOK, LockedOK, LockingOK, SavingOK, UnlockingOK, ClosingOK,
        Locking, Saving, Unlocking
<1> QED BY <1>1, <1>3, <1>4 DEF WinOK, Fits

\* A command that is over leaves the window ready for the next.
LEMMA GoOn ==
  ASSUME NEW r, WinOK(r), r.pc \in {"askName", "askOver", "settle", "unopened"}, ~r.locked \/ r.pc # "unopened",
         NEW q, q = [r EXCEPT !.pc = "idle"]
  PROVE  WinOK(q) /\ Same(q, r)
<1>0. r \in WindowType BY DEF WinOK
<1>1. q \in WindowType BY <1>0, ZenonT(60) DEF WindowType, Labels
<1>2. /\ q.pc = "idle" /\ q.name = r.name /\ q.modified = r.modified /\ q.locked = r.locked
      /\ q.deleteFile = r.deleteFile /\ q.cmd = r.cmd
      /\ q.closing = r.closing /\ q.target = r.target /\ q.saveLock = r.saveLock /\ q.fd = r.fd
      /\ q.res = r.res /\ q.todo = r.todo /\ q.mode = r.mode /\ q.saidNo = r.saidNo
  BY <1>0 DEF WindowType
<1>3. Fits(q)
  BY <1>1, <1>2
    DEF WinOK, Fits, Pending, LockedOK, LockingOK, SavingOK, UnlockingOK, ClosingOK, Locking,
        Saving, Unlocking
<1>4. Same(q, r)
  BY <1>1, <1>2
    DEF Same, Holds, Pending, WinOK, LockedOK, LockingOK, SavingOK, UnlockingOK, ClosingOK,
        Locking, Saving, Unlocking
<1> QED BY <1>1, <1>3, <1>4 DEF WinOK, Fits

\* edit_save_file goes from one of its calls to the next.
LEMMA SaveMoves ==
  ASSUME NEW r, WinOK(r), r.pc \in Saving \ {"write"}, NEW x \in Saving,
         NEW q, q = [r EXCEPT !.pc = x]
  PROVE  WinOK(q) /\ Same(q, r)
<1>0. r \in WindowType BY DEF WinOK
<1>1. q \in WindowType BY <1>0, ZenonT(60) DEF WindowType, Labels, Saving
<1>2. /\ q.pc = x /\ q.name = r.name /\ q.modified = r.modified /\ q.locked = r.locked
      /\ q.deleteFile = r.deleteFile /\ q.cmd = r.cmd
      /\ q.closing = r.closing /\ q.target = r.target /\ q.saveLock = r.saveLock /\ q.fd = r.fd
      /\ q.res = r.res /\ q.todo = r.todo /\ q.mode = r.mode /\ q.saidNo = r.saidNo
  BY <1>0 DEF WindowType
<1>3. Fits(q)
  BY <1>1, <1>2
    DEF WinOK, Fits, Pending, LockedOK, LockingOK, SavingOK, UnlockingOK, ClosingOK, Locking,
        Saving, Unlocking
<1>4. Same(q, r)
  BY <1>1, <1>2
    DEF Same, Holds, Pending, WinOK, LockedOK, LockingOK, SavingOK, UnlockingOK, ClosingOK,
        Locking, Saving, Unlocking
<1> QED BY <1>1, <1>3, <1>4 DEF WinOK, Fits

\* edit_save_file notes what stat tells it and the mode it chooses.
LEMMA SaveStat ==
  ASSUME NEW r, WinOK(r), r.pc \in Saving \ {"write"}, NEW sb \in Files, NEW m \in Modes,
         NEW q, q = [r EXCEPT !.sb = sb, !.mode = m]
  PROVE  WinOK(q) /\ Same(q, r)
<1>0. r \in WindowType BY DEF WinOK
<1>1. q \in WindowType BY <1>0, ZenonT(60) DEF WindowType, Labels
<1>2. /\ q.pc = r.pc /\ q.name = r.name /\ q.modified = r.modified /\ q.locked = r.locked
      /\ q.deleteFile = r.deleteFile /\ q.cmd = r.cmd
      /\ q.closing = r.closing /\ q.target = r.target /\ q.saveLock = r.saveLock /\ q.fd = r.fd
      /\ q.res = r.res /\ q.todo = r.todo /\ q.mode = m /\ q.saidNo = r.saidNo
  BY <1>0 DEF WindowType
<1>3. Fits(q)
  BY <1>1, <1>2
    DEF WinOK, Fits, Pending, LockedOK, LockingOK, SavingOK, UnlockingOK, ClosingOK, Locking,
        Saving, Unlocking
<1>4. Same(q, r)
  BY <1>1, <1>2
    DEF Same, Holds, Pending, WinOK, LockedOK, LockingOK, SavingOK, UnlockingOK, ClosingOK,
        Locking, Saving, Unlocking
<1> QED BY <1>1, <1>3, <1>4 DEF WinOK, Fits

\* The user has the hard link detached: the save becomes a safe one.
LEMMA SaveDetached ==
  ASSUME NEW r, WinOK(r), r.pc \in Saving \ {"write"},
         NEW q, q = [r EXCEPT !.skip = TRUE, !.mode = "safe"]
  PROVE  WinOK(q) /\ Same(q, r)
<1>0. r \in WindowType BY DEF WinOK
<1>1. q \in WindowType BY <1>0, ZenonT(60) DEF WindowType, Labels, Modes
<1>2. /\ q.pc = r.pc /\ q.name = r.name /\ q.modified = r.modified /\ q.locked = r.locked
      /\ q.deleteFile = r.deleteFile /\ q.cmd = r.cmd
      /\ q.closing = r.closing /\ q.target = r.target /\ q.saveLock = r.saveLock /\ q.fd = r.fd
      /\ q.res = r.res /\ q.todo = r.todo /\ q.mode = "safe" /\ q.saidNo = r.saidNo
  BY <1>0 DEF WindowType
<1>3. Fits(q)
  BY <1>1, <1>2
    DEF WinOK, Fits, Pending, LockedOK, LockingOK, SavingOK, UnlockingOK, ClosingOK, Locking,
        Saving, Unlocking
<1>4. Same(q, r)
  BY <1>1, <1>2
    DEF Same, Holds, Pending, WinOK, LockedOK, LockingOK, SavingOK, UnlockingOK, ClosingOK,
        Locking, Saving, Unlocking
<1> QED BY <1>1, <1>3, <1>4 DEF WinOK, Fits

\* The question about hard links is not to be asked again.
LEMMA SaveSkipped ==
  ASSUME NEW r, WinOK(r), r.pc \in Saving,
         NEW q, q = [r EXCEPT !.skip = TRUE]
  PROVE  WinOK(q) /\ Same(q, r)
<1>0. r \in WindowType BY DEF WinOK
<1>1. q \in WindowType BY <1>0, ZenonT(60) DEF WindowType, Labels
<1>2. /\ q.pc = r.pc /\ q.name = r.name /\ q.modified = r.modified /\ q.locked = r.locked
      /\ q.deleteFile = r.deleteFile /\ q.cmd = r.cmd
      /\ q.closing = r.closing /\ q.target = r.target /\ q.saveLock = r.saveLock /\ q.fd = r.fd
      /\ q.res = r.res /\ q.todo = r.todo /\ q.mode = r.mode /\ q.saidNo = r.saidNo
  BY <1>0 DEF WindowType
<1>3. Fits(q)
  BY <1>1, <1>2
    DEF WinOK, Fits, Pending, LockedOK, LockingOK, SavingOK, UnlockingOK, ClosingOK, Locking,
        Saving, Unlocking
<1>4. Same(q, r)
  BY <1>1, <1>2
    DEF Same, Holds, Pending, WinOK, LockedOK, LockingOK, SavingOK, UnlockingOK, ClosingOK,
        Locking, Saving, Unlocking
<1> QED BY <1>1, <1>3, <1>4 DEF WinOK, Fits

\* The user agrees to overwrite what another session saved.
LEMMA SaveAsked ==
  ASSUME NEW r, WinOK(r), r.pc \in Saving \ {"write"}, NEW x \in Saving,
         NEW q, q = [r EXCEPT !.asked = TRUE, !.pc = x]
  PROVE  WinOK(q) /\ Same(q, r)
<1>0. r \in WindowType BY DEF WinOK
<1>1. q \in WindowType BY <1>0, ZenonT(60) DEF WindowType, Labels, Saving
<1>2. /\ q.pc = x /\ q.name = r.name /\ q.modified = r.modified /\ q.locked = r.locked
      /\ q.deleteFile = r.deleteFile /\ q.cmd = r.cmd
      /\ q.closing = r.closing /\ q.target = r.target /\ q.saveLock = r.saveLock /\ q.fd = r.fd
      /\ q.res = r.res /\ q.todo = r.todo /\ q.mode = r.mode /\ q.saidNo = r.saidNo
  BY <1>0 DEF WindowType
<1>3. Fits(q)
  BY <1>1, <1>2
    DEF WinOK, Fits, Pending, LockedOK, LockingOK, SavingOK, UnlockingOK, ClosingOK, Locking,
        Saving, Unlocking
<1>4. Same(q, r)
  BY <1>1, <1>2
    DEF Same, Holds, Pending, WinOK, LockedOK, LockingOK, SavingOK, UnlockingOK, ClosingOK,
        Locking, Saving, Unlocking
<1> QED BY <1>1, <1>3, <1>4 DEF WinOK, Fits

\* A quick save opens the file itself.
LEMMA SaveOpened ==
  ASSUME NEW r, WinOK(r), r.pc = "open", r.mode = "quick",
         NEW q, q = [r EXCEPT !.pc = "write", !.fd = "name"]
  PROVE  WinOK(q) /\ Same(q, r)
<1>0. r \in WindowType BY DEF WinOK
<1>1. q \in WindowType BY <1>0, ZenonT(60) DEF WindowType, Labels
<1>2. /\ q.pc = "write" /\ q.name = r.name /\ q.modified = r.modified /\ q.locked = r.locked
      /\ q.deleteFile = r.deleteFile /\ q.cmd = r.cmd
      /\ q.closing = r.closing /\ q.target = r.target /\ q.saveLock = r.saveLock
      /\ q.fd = "name" /\ q.res = r.res /\ q.todo = r.todo /\ q.mode = r.mode /\ q.saidNo = r.saidNo
  BY <1>0 DEF WindowType
<1>3. Fits(q)
  BY <1>1, <1>2
    DEF WinOK, Fits, Pending, LockedOK, LockingOK, SavingOK, UnlockingOK, ClosingOK, Locking,
        Saving, Unlocking
<1>4. Same(q, r)
  BY <1>1, <1>2
    DEF Same, Holds, Pending, WinOK, LockedOK, LockingOK, SavingOK, UnlockingOK, ClosingOK,
        Locking, Saving, Unlocking
<1> QED BY <1>1, <1>3, <1>4 DEF WinOK, Fits

\* A save notes the new time of the file and what the file now holds.
LEMMA SaveStamped ==
  ASSUME NEW r, WinOK(r), r.pc \in Saving, NEW t \in Times, NEW b \in Texts,
         NEW q, q = [r EXCEPT !.time = t, !.base = b]
  PROVE  WinOK(q) /\ Same(q, r)
<1>0. r \in WindowType BY DEF WinOK
<1>1. q \in WindowType BY <1>0, ZenonT(60) DEF WindowType, Labels
<1>2. /\ q.pc = r.pc /\ q.name = r.name /\ q.modified = r.modified /\ q.locked = r.locked
      /\ q.deleteFile = r.deleteFile /\ q.cmd = r.cmd
      /\ q.closing = r.closing /\ q.target = r.target /\ q.saveLock = r.saveLock /\ q.fd = r.fd
      /\ q.res = r.res /\ q.todo = r.todo /\ q.mode = r.mode /\ q.saidNo = r.saidNo
  BY <1>0 DEF WindowType
<1>3. Fits(q)
  BY <1>1, <1>2
    DEF WinOK, Fits, Pending, LockedOK, LockingOK, SavingOK, UnlockingOK, ClosingOK, Locking,
        Saving, Unlocking
<1>4. Same(q, r)
  BY <1>1, <1>2
    DEF Same, Holds, Pending, WinOK, LockedOK, LockingOK, SavingOK, UnlockingOK, ClosingOK,
        Locking, Saving, Unlocking
<1> QED BY <1>1, <1>3, <1>4 DEF WinOK, Fits

\* A save notes what the file now holds.
LEMMA SaveBased ==
  ASSUME NEW r, WinOK(r), r.pc \in Saving, NEW b \in Texts,
         NEW q, q = [r EXCEPT !.base = b]
  PROVE  WinOK(q) /\ Same(q, r)
<1>0. r \in WindowType BY DEF WinOK
<1>1. q \in WindowType BY <1>0, ZenonT(60) DEF WindowType, Labels
<1>2. /\ q.pc = r.pc /\ q.name = r.name /\ q.modified = r.modified /\ q.locked = r.locked
      /\ q.deleteFile = r.deleteFile /\ q.cmd = r.cmd
      /\ q.closing = r.closing /\ q.target = r.target /\ q.saveLock = r.saveLock /\ q.fd = r.fd
      /\ q.res = r.res /\ q.todo = r.todo /\ q.mode = r.mode /\ q.saidNo = r.saidNo
  BY <1>0 DEF WindowType
<1>3. Fits(q)
  BY <1>1, <1>2
    DEF WinOK, Fits, Pending, LockedOK, LockingOK, SavingOK, UnlockingOK, ClosingOK, Locking,
        Saving, Unlocking
<1>4. Same(q, r)
  BY <1>1, <1>2
    DEF Same, Holds, Pending, WinOK, LockedOK, LockingOK, SavingOK, UnlockingOK, ClosingOK,
        Locking, Saving, Unlocking
<1> QED BY <1>1, <1>3, <1>4 DEF WinOK, Fits

\* The temporary file is written: it is to be renamed.
LEMMA SaveWritten ==
  ASSUME NEW r, WinOK(r), r.pc = "write", r.fd = "none", NEW x \in {"backup", "rename"},
         NEW q, q = [r EXCEPT !.pc = x]
  PROVE  WinOK(q) /\ Same(q, r)
<1>0. r \in WindowType BY DEF WinOK
<1>1. q \in WindowType BY <1>0, ZenonT(60) DEF WindowType, Labels
<1>2. /\ q.pc = x /\ q.name = r.name /\ q.modified = r.modified /\ q.locked = r.locked
      /\ q.deleteFile = r.deleteFile /\ q.cmd = r.cmd
      /\ q.closing = r.closing /\ q.target = r.target /\ q.saveLock = r.saveLock /\ q.fd = r.fd
      /\ q.res = r.res /\ q.todo = r.todo /\ q.mode = r.mode /\ q.saidNo = r.saidNo
  BY <1>0 DEF WindowType
<1>3. Fits(q)
  BY <1>1, <1>2
    DEF WinOK, Fits, Pending, LockedOK, LockingOK, SavingOK, UnlockingOK, ClosingOK, Locking,
        Saving, Unlocking
<1>4. Same(q, r)
  BY <1>1, <1>2
    DEF Same, Holds, Pending, WinOK, LockedOK, LockingOK, SavingOK, UnlockingOK, ClosingOK,
        Locking, Saving, Unlocking
<1> QED BY <1>1, <1>3, <1>4 DEF WinOK, Fits

\* The file that a window writes is renamed or unlinked under its hands.
LEMMA FileMoved ==
  ASSUME NEW r, WinOK(r), r.fd = "name", NEW x \in {"backup", "gone"},
         NEW q, q = [r EXCEPT !.fd = x]
  PROVE  WinOK(q) /\ Same(q, r)
<1>0. r \in WindowType BY DEF WinOK
<1>1. q \in WindowType BY <1>0, ZenonT(60) DEF WindowType, Labels
<1>2. /\ q.pc = r.pc /\ q.name = r.name /\ q.modified = r.modified /\ q.locked = r.locked
      /\ q.deleteFile = r.deleteFile /\ q.cmd = r.cmd
      /\ q.closing = r.closing /\ q.target = r.target /\ q.saveLock = r.saveLock /\ q.fd = x
      /\ q.res = r.res /\ q.todo = r.todo /\ q.mode = r.mode /\ q.saidNo = r.saidNo
  BY <1>0 DEF WindowType
<1>3. Fits(q)
  BY <1>1, <1>2
    DEF WinOK, Fits, Pending, LockedOK, LockingOK, SavingOK, UnlockingOK, ClosingOK, Locking,
        Saving, Unlocking
<1>4. Same(q, r)
  BY <1>1, <1>2
    DEF Same, Holds, Pending, WinOK, LockedOK, LockingOK, SavingOK, UnlockingOK, ClosingOK,
        Locking, Saving, Unlocking
<1> QED BY <1>1, <1>3, <1>4 DEF WinOK, Fits

\* A save that failed goes on to "save as".
LEMMA SaveFailed ==
  ASSUME NEW r, WinOK(r), r.pc = "settle",
         NEW q, q = [r EXCEPT !.pc = "askName"]
  PROVE  WinOK(q) /\ Same(q, r)
<1>0. r \in WindowType BY DEF WinOK
<1>1. q \in WindowType BY <1>0, ZenonT(60) DEF WindowType, Labels
<1>2. /\ q.pc = "askName" /\ q.name = r.name /\ q.modified = r.modified /\ q.locked = r.locked
      /\ q.deleteFile = r.deleteFile /\ q.cmd = r.cmd
      /\ q.closing = r.closing /\ q.target = r.target /\ q.saveLock = r.saveLock /\ q.fd = r.fd
      /\ q.res = r.res /\ q.todo = r.todo /\ q.mode = r.mode /\ q.saidNo = r.saidNo
  BY <1>0 DEF WindowType
<1>3. Fits(q)
  BY <1>1, <1>2
    DEF WinOK, Fits, Pending, LockedOK, LockingOK, SavingOK, UnlockingOK, ClosingOK, Locking,
        Saving, Unlocking
<1>4. Same(q, r)
  BY <1>1, <1>2
    DEF Same, Holds, Pending, WinOK, LockedOK, LockingOK, SavingOK, UnlockingOK, ClosingOK,
        Locking, Saving, Unlocking
<1> QED BY <1>1, <1>3, <1>4 DEF WinOK, Fits

\* A saved window has no changes and nothing to delete.
LEMMA SettleClean ==
  ASSUME NEW r, WinOK(r), r.pc \in {"settle", "unopened"}, ~r.locked,
         NEW q, q = [r EXCEPT !.modified = FALSE, !.deleteFile = FALSE]
  PROVE  WinOK(q) /\ Same(q, r)
<1>0. r \in WindowType BY DEF WinOK
<1>1. q \in WindowType BY <1>0, ZenonT(60) DEF WindowType, Labels
<1>2. /\ q.pc = r.pc /\ q.name = r.name /\ q.modified = FALSE /\ q.locked = r.locked
      /\ q.deleteFile = FALSE /\ q.cmd = r.cmd
      /\ q.closing = r.closing /\ q.target = r.target /\ q.saveLock = r.saveLock /\ q.fd = r.fd
      /\ q.res = r.res /\ q.todo = r.todo /\ q.mode = r.mode /\ q.saidNo = r.saidNo
  BY <1>0 DEF WindowType
<1>3. Fits(q)
  BY <1>1, <1>2
    DEF WinOK, Fits, Pending, LockedOK, LockingOK, SavingOK, UnlockingOK, ClosingOK, Locking,
        Saving, Unlocking
<1>4. Same(q, r)
  BY <1>1, <1>2
    DEF Same, Holds, Pending, WinOK, LockedOK, LockingOK, SavingOK, UnlockingOK, ClosingOK,
        Locking, Saving, Unlocking
<1> QED BY <1>1, <1>3, <1>4 DEF WinOK, Fits

\* A saved window has the name it was saved as.
LEMMA SettleName ==
  ASSUME NEW r, WinOK(r), r.pc \in {"settle", "unopened"}, ~r.locked,
         NEW q, q = [r EXCEPT !.name = r.target]
  PROVE  WinOK(q) /\ Same(q, r)
<1>0. r \in WindowType BY DEF WinOK
<1>1. q \in WindowType BY <1>0, ZenonT(60) DEF WindowType, Labels
<1>2. /\ q.pc = r.pc /\ q.name = r.target /\ q.modified = r.modified /\ q.locked = r.locked
      /\ q.deleteFile = r.deleteFile /\ q.cmd = r.cmd
      /\ q.closing = r.closing /\ q.target = r.target /\ q.saveLock = r.saveLock /\ q.fd = r.fd
      /\ q.res = r.res /\ q.todo = r.todo /\ q.mode = r.mode /\ q.saidNo = r.saidNo
  BY <1>0 DEF WindowType
<1>3. Fits(q)
  BY <1>1, <1>2
    DEF WinOK, Fits, Pending, LockedOK, LockingOK, SavingOK, UnlockingOK, ClosingOK, Locking,
        Saving, Unlocking
<1>4. Same(q, r)
  BY <1>1, <1>2
    DEF Same, Holds, Pending, WinOK, LockedOK, LockingOK, SavingOK, UnlockingOK, ClosingOK,
        Locking, Saving, Unlocking
<1> QED BY <1>1, <1>3, <1>4 DEF WinOK, Fits

\* edit_clean closes the window.
LEMMA Closed ==
  ASSUME NEW r, WinOK(r), r.pc = "clean",
         NEW q, q = [r EXCEPT !.pc = "closed"]
  PROVE  WinOK(q) /\ Same(q, r)
<1>0. r \in WindowType BY DEF WinOK
<1>1. q \in WindowType BY <1>0, ZenonT(60) DEF WindowType, Labels
<1>2. /\ q.pc = "closed" /\ q.name = r.name /\ q.modified = r.modified /\ q.locked = r.locked
      /\ q.deleteFile = r.deleteFile /\ q.cmd = r.cmd
      /\ q.closing = r.closing /\ q.target = r.target /\ q.saveLock = r.saveLock /\ q.fd = r.fd
      /\ q.res = r.res /\ q.todo = r.todo /\ q.mode = r.mode /\ q.saidNo = r.saidNo
  BY <1>0 DEF WindowType
<1>3. Fits(q)
  BY <1>1, <1>2
    DEF WinOK, Fits, Pending, LockedOK, LockingOK, SavingOK, UnlockingOK, ClosingOK, Locking,
        Saving, Unlocking
<1>4. Same(q, r)
  BY <1>1, <1>2
    DEF Same, Holds, Pending, WinOK, LockedOK, LockingOK, SavingOK, UnlockingOK, ClosingOK,
        Locking, Saving, Unlocking
<1> QED BY <1>1, <1>3, <1>4 DEF WinOK, Fits

\* unlock_file goes from one of its system calls to the next.
LEMMA UnlockMoves ==
  ASSUME NEW r, WinOK(r), r.pc \in Unlocking, NEW x \in Unlocking,
         NEW q, q = [r EXCEPT !.pc = x]
  PROVE  WinOK(q) /\ Same(q, r)
<1>0. r \in WindowType BY DEF WinOK
<1>1. q \in WindowType BY <1>0, ZenonT(60) DEF WindowType, Labels, Unlocking
<1>2. /\ q.pc = x /\ q.name = r.name /\ q.modified = r.modified /\ q.locked = r.locked
      /\ q.deleteFile = r.deleteFile /\ q.cmd = r.cmd
      /\ q.closing = r.closing /\ q.target = r.target /\ q.saveLock = r.saveLock /\ q.fd = r.fd
      /\ q.res = r.res /\ q.todo = r.todo /\ q.mode = r.mode /\ q.saidNo = r.saidNo
  BY <1>0 DEF WindowType
<1>3. Fits(q)
  BY <1>1, <1>2
    DEF WinOK, Fits, Pending, LockedOK, LockingOK, SavingOK, UnlockingOK, ClosingOK, Locking,
        Saving, Unlocking
<1>4. Same(q, r)
  BY <1>1, <1>2
    DEF Same, Holds, Pending, WinOK, LockedOK, LockingOK, SavingOK, UnlockingOK, ClosingOK,
        Locking, Saving, Unlocking
<1> QED BY <1>1, <1>3, <1>4 DEF WinOK, Fits

-----------------------------------------------------------------------------
(* The results of whole calls                                              *)

\* edit_ok_to_exit lets the window close: its lock is to be lowered.
LEMMA LeaveFits ==
  ASSUME NEW r, WinOK(r), r.pc \in {"idle", "askSave", "settle", "unopened"},
         ~r.modified \/ r.saidNo \/ r.res = "abort"
  PROVE  WinOK(Leave(r)) /\ Same(Leave(r), r) /\ Leave(r).pc # "lockUnlink"
<1>0. r \in WindowType BY DEF WinOK
<1>1. CASE r.locked
  <2>0. r.pc # "unopened" BY <1>1 DEF WinOK, LockedOK
  <2>1. Leave(r) = [r EXCEPT !.closing = "sure", !.locked = FALSE, !.todo = <<r.name>>, !.pc = "unlock"]
    BY <1>1 DEF Leave
  <2>2. Leave(r).pc = "unlock" BY <2>1, <1>0 DEF WindowType
  <2> QED BY <2>0, <2>1, <2>2, <1>1, LeaveLocked
<1>2. CASE ~r.locked
  <2>1. Leave(r) = [r EXCEPT !.closing = "sure", !.locked = FALSE, !.todo = <<>>, !.pc = "clean"]
    BY <1>2 DEF Leave
  <2>2. Leave(r).pc = "clean" BY <2>1, <1>0 DEF WindowType
  <2> QED BY <2>1, <2>2, <1>2, LeaveFree
<1> QED BY <1>1, <1>2

\* A command ends, with the window ready or about to close.
LEMMA FinishFits ==
  ASSUME NEW r, WinOK(r), r.pc \in {"askName", "askOver", "settle"}, NEW ok \in BOOLEAN,
         ok => r.pc = "settle" /\ (~r.modified \/ r.saidNo \/ r.res = "abort")
  PROVE  WinOK(Finish(r, ok)) /\ Same(Finish(r, ok), r) /\ Finish(r, ok).pc # "lockUnlink"
<1>0. r \in WindowType BY DEF WinOK
<1>1. CASE r.closing = "no"
  <2>1. Finish(r, ok) = [r EXCEPT !.pc = "idle"] BY <1>1 DEF Finish
  <2>2. Finish(r, ok).pc = "idle" BY <2>1, <1>0 DEF WindowType
  <2> QED BY <2>1, <2>2, GoOn
<1>2. CASE r.closing # "no" /\ ok
  <2>1. Finish(r, ok) = Leave(r) BY <1>2 DEF Finish
  <2> QED BY <2>1, <1>2, LeaveFits
<1>3. CASE r.closing # "no" /\ ~ok
  <2>1. Finish(r, ok) = [r EXCEPT !.pc = "idle", !.closing = "no"] BY <1>3 DEF Finish
  <2>2. Finish(r, ok).pc = "idle" BY <2>1, <1>0 DEF WindowType
  <2> QED BY <2>1, <2>2, GiveUp
<1> QED BY <1>1, <1>2, <1>3

\* edit_save_cmd up to the lock or the stat.
LEMMA SaveCmdFits ==
  ASSUME NEW r, WinOK(r), r.pc \in {"idle", "askSave"}
  PROVE  WinOK(SaveCmd(r)) /\ Same(SaveCmd(r), r) /\ SaveCmd(r).pc # "lockUnlink"
<1>0. r \in WindowType BY DEF WinOK
<1> DEFINE x == IF r.name = NoName THEN "askName" ELSE IF r.locked \/ r.deleteFile THEN "stat" ELSE "lockStat"
<1>1. SaveCmd(r) = [r EXCEPT !.cmd = "save", !.target = r.name, !.saveLock = FALSE, !.asked = FALSE, !.pc = x]
  BY DEF SaveCmd
<1>2. SaveCmd(r).pc = x BY <1>1, <1>0 DEF WindowType
<1>3. r.name # NoName => r.name \in Names BY <1>0 DEF WindowType
<1>4. CASE r.name = NoName BY <1>1, <1>2, <1>4, SaveUnnamed
<1>5. CASE r.name # NoName /\ (r.locked \/ r.deleteFile) BY <1>1, <1>2, <1>3, <1>5, SaveOwn
<1>6. CASE r.name # NoName /\ ~(r.locked \/ r.deleteFile) BY <1>1, <1>2, <1>3, <1>6, SaveFirst
<1> QED BY <1>4, <1>5, <1>6

\* A name and no other make a list of one.
LEMMA JoinOne ==
  ASSUME NEW a \in Names
  PROVE  <<a>> \o <<>> = <<a>> /\ <<>> \o <<a>> = <<a>>
<1>1. <<a>> \in Seq(Names) OBVIOUS
<1> QED BY <1>1, ConcatEmptySeq

\* A name and another make a list of two.
LEMMA JoinTwo ==
  ASSUME NEW a \in Names, NEW b \in Names
  PROVE  <<a>> \o <<b>> = <<a, b>>
<1> DEFINE s == <<a>> \o <<b>>  t == <<a, b>>
<1>1. /\ <<a>> \in Seq(Names) /\ Len(<<a>>) = 1 /\ <<a>>[1] = a
      /\ <<b>> \in Seq(Names) /\ Len(<<b>>) = 1 /\ <<b>>[1] = b
  OBVIOUS
<1>2. s \in Seq(Names) /\ Len(s) = 2 BY <1>1, ConcatProperties
<1>3. s[1] = a /\ s[2] = b BY <1>1, ConcatProperties
<1>4. t \in Seq(Names) /\ Len(t) = 2 /\ t[1] = a /\ t[2] = b OBVIOUS
<1> HIDE DEF s, t
<1>5. \A i \in 1 .. Len(s) : s[i] = t[i] BY <1>2, <1>3, <1>4
<1>6. s = t BY <1>2, <1>4, <1>5, SeqEqual
<1> QED BY <1>6 DEF s, t

\* The locks that are lowered after a save are those the window holds.
LEMMA ResultFits ==
  ASSUME NEW r, WinOK(r), r.pc \in Saving, NEW res \in {"ok", "error", "abort"}
  PROVE  /\ WinOK(Result(r, res)) /\ Same(Result(r, res), r)
         /\ Result(r, res).pc \in {"settle", "unlock"} /\ Result(r, res).res = res
<1> DEFINE own == IF r.cmd = "save" THEN (res = "ok" /\ r.locked) \/ r.saveLock
                  ELSE res = "ok" /\ (r.locked \/ (r.saveLock /\ r.target = r.name))
           other == r.cmd = "saveAs" /\ r.saveLock /\ (r.target # r.name \/ res # "ok")
           todo == (IF other THEN <<r.target>> ELSE <<>>) \o (IF own THEN <<r.name>> ELSE <<>>)
           x == IF todo = <<>> THEN "settle" ELSE "unlock"
           q == Result(r, res)
<1>0. r \in WindowType BY DEF WinOK
<1>1. /\ r.target \in Names /\ r.cmd \in {"save", "saveAs"}
      /\ r.cmd = "save" => r.target = r.name
      /\ r.saveLock /\ r.locked => r.target # r.name
      /\ r.locked => r.name \in Names
  BY <1>0 DEF WinOK, SavingOK, LockedOK, WindowType
<1>2. r.closing # "sure" BY DEF WinOK, UnlockingOK, Saving, Unlocking
<1>3. own => r.name \in Names BY <1>1
<1>4. own /\ other => r.target # r.name BY <1>1
<1>5. res = "ok" /\ r.locked => own BY <1>1
<1>6. q = [r EXCEPT !.res = res, !.todo = todo, !.fd = "none", !.locked = IF own THEN FALSE ELSE r.locked, !.pc = x]
  BY DEF Result
<1>7. /\ ~own /\ ~other => todo = <<>>
      /\ own /\ ~other => todo = <<r.name>>
      /\ ~own /\ other => todo = <<r.target>>
      /\ own /\ other => todo = <<r.target, r.name>>
  <2>1. own => /\ <<r.name>> \o <<>> = <<r.name>> /\ <<>> \o <<r.name>> = <<r.name>>
    BY <1>3, JoinOne
  <2>2. /\ <<r.target>> \o <<>> = <<r.target>>
        /\ own => <<r.target>> \o <<r.name>> = <<r.target, r.name>>
    BY <1>1, <1>3, JoinOne, JoinTwo
  <2>3. <<>> \o <<>> = <<>> OBVIOUS
  <2> HIDE DEF own, other
  <2> QED BY <2>1, <2>2, <2>3
<1>8. todo \in NameLists BY <1>1, <1>3, <1>7, SeqNames DEF NameLists
<1> HIDE DEF todo
<1>9. x \in {"settle", "unlock"} OBVIOUS
<1>10. q \in WindowType
  <2> HIDE DEF own, other, q, x
  <2>1. CASE own
    <3> DEFINE p == [r EXCEPT !.res = res, !.todo = todo, !.fd = "none"]
    <3>1. p \in WindowType BY <1>0, <1>8, ZenonT(60) DEF WindowType
    <3>2. q = [p EXCEPT !.locked = FALSE, !.pc = x] BY <1>0, <1>6, <2>1 DEF WindowType
    <3> HIDE DEF p
    <3> QED BY <3>1, <3>2, <1>9, ZenonT(60) DEF WindowType, Labels
  <2>2. CASE ~own
    <3> DEFINE p == [r EXCEPT !.res = res, !.todo = todo, !.fd = "none"]
    <3>1. p \in WindowType BY <1>0, <1>8, ZenonT(60) DEF WindowType
    <3>2. q = [p EXCEPT !.pc = x] BY <1>0, <1>6, <2>2 DEF WindowType
    <3> HIDE DEF p
    <3> QED BY <3>1, <3>2, <1>9, ZenonT(60) DEF WindowType, Labels
  <2> QED BY <2>1, <2>2
<1>11. /\ q.pc = x /\ q.name = r.name /\ q.modified = r.modified /\ q.deleteFile = r.deleteFile
       /\ q.cmd = r.cmd /\ q.closing = r.closing /\ q.target = r.target /\ q.saveLock = r.saveLock
       /\ q.fd = "none" /\ q.res = res /\ q.todo = todo
       /\ q.locked = IF own THEN FALSE ELSE r.locked
  <2> HIDE DEF own, other, x
  <2> QED BY <1>0, <1>6 DEF WindowType
<1> HIDE DEF q
<1>12. CASE ~own /\ ~other
  <2>1. todo = <<>> /\ x = "settle"
    <3> HIDE DEF own, other
    <3>1. todo = <<>> BY <1>7, <1>12
    <3> QED BY <3>1
  <2>2. q.locked = r.locked BY <1>11, <1>12
  <2> HIDE DEF own, other, x
  <2>3. Fits(q)
    BY <1>1, <1>2, <1>5, <1>11, <1>12, <2>1, <2>2
      DEF WinOK, Fits, Pending, LockedOK, LockingOK, SavingOK, UnlockingOK, ClosingOK, Locking,
          Saving, Unlocking
  <2>4. ~ r.saveLock BY <1>1, <1>12 DEF own, other
  <2>5. Same(q, r)
    BY <1>10, <1>11, <2>1, <2>2, <2>4 DEF Same, Holds, Pending, Locking, Saving, Unlocking
  <2> QED BY <1>10, <1>11, <2>1, <2>3, <2>5 DEF WinOK, Fits, q
<1>13. CASE own /\ ~other
  <2>1. todo = <<r.name>> /\ x = "unlock"
    <3> HIDE DEF own, other
    <3>1. todo = <<r.name>> BY <1>7, <1>13
    <3> QED BY <3>1
  <2>2. q.locked = FALSE BY <1>11, <1>13
  <2>6. r.saveLock => r.target = r.name BY <1>1, <1>13
  <2>7. r.locked \/ r.saveLock BY <1>13
  <2> HIDE DEF own, other, x
  <2>3. Fits(q)
    BY <1>1, <1>2, <1>5, <1>11, <1>13, <2>1, <2>2
      DEF WinOK, Fits, Pending, LockedOK, LockingOK, SavingOK, UnlockingOK, ClosingOK, Locking,
          Saving, Unlocking
  <2>4. \A n : Pending(q, n) <=> n = r.name BY <1>11, <2>1 DEF Pending
  <2>5. Same(q, r)
    BY <1>11, <2>1, <2>2, <2>4, <2>6, <2>7 DEF Same, Holds, Locking, Saving, Unlocking
  <2> QED BY <1>10, <1>11, <2>1, <2>3, <2>5 DEF WinOK, Fits, q
<1>14. CASE ~own /\ other
  <2>1. todo = <<r.target>> /\ x = "unlock"
    <3> HIDE DEF own, other
    <3>1. todo = <<r.target>> BY <1>7, <1>14
    <3> QED BY <3>1
  <2>2. q.locked = r.locked BY <1>11, <1>14
  <2>6. r.saveLock BY <1>14
  <2> HIDE DEF own, other, x
  <2>3. Fits(q)
    BY <1>1, <1>2, <1>5, <1>11, <1>14, <2>1, <2>2, <2>6
      DEF WinOK, Fits, Pending, LockedOK, LockingOK, SavingOK, UnlockingOK, ClosingOK, Locking,
          Saving, Unlocking
  <2>4. \A n : Pending(q, n) <=> n = r.target BY <1>11, <2>1 DEF Pending
  <2>5. Same(q, r) BY <1>11, <2>1, <2>2, <2>4, <2>6 DEF Same, Holds, Locking, Saving, Unlocking
  <2> QED BY <1>10, <1>11, <2>1, <2>3, <2>5 DEF WinOK, Fits, q
<1>15. CASE own /\ other
  <2>1. todo = <<r.target, r.name>> /\ x = "unlock"
    <3> HIDE DEF own, other
    <3>1. todo = <<r.target, r.name>> BY <1>7, <1>15
    <3> QED BY <3>1
  <2>2. q.locked = FALSE BY <1>11, <1>15
  <2>6. r.saveLock /\ r.locked /\ r.target # r.name BY <1>1, <1>15
  <2> HIDE DEF own, other, x
  <2>3. Fits(q)
    BY <1>1, <1>2, <1>5, <1>11, <1>15, <2>1, <2>2, <2>6
      DEF WinOK, Fits, Pending, LockedOK, LockingOK, SavingOK, UnlockingOK, ClosingOK, Locking,
          Saving, Unlocking
  <2>4. \A n : Pending(q, n) <=> n = r.target \/ n = r.name BY <1>11, <2>1 DEF Pending
  <2>5. Same(q, r) BY <1>11, <2>1, <2>2, <2>4, <2>6 DEF Same, Holds, Locking, Saving, Unlocking
  <2> QED BY <1>10, <1>11, <2>1, <2>3, <2>5 DEF WinOK, Fits, q
<1> QED BY <1>12, <1>13, <1>14, <1>15

\* The first of the names to unlock is done: the window does not hold it any more.
LEMMA UnlockedFits ==
  ASSUME NEW r, WinOK(r), r.pc \in Unlocking
  PROVE  /\ WinOK(Unlocked(r)) /\ Unlocked(r).pc # "lockUnlink" /\ Head(r.todo) \in Names
         /\ Holds(r, Head(r.todo)) /\ \A n : Holds(Unlocked(r), n) <=> Holds(r, n) /\ n # Head(r.todo)
<1> DEFINE n0 == Head(r.todo)  rest == Tail(r.todo)  q == Unlocked(r)
           x == IF rest # <<>> THEN "unlock" ELSE IF r.closing = "sure" THEN "clean" ELSE "settle"
<1>0. r \in WindowType BY DEF WinOK
<1>1. /\ r.todo \in Seq(Names) /\ r.todo # <<>>
      /\ \A i, j \in DOMAIN r.todo : i # j => r.todo[i] # r.todo[j]
      /\ r.locked => ~Pending(r, r.name)
      /\ r.closing = "sure" => ~r.locked
  BY <1>0 DEF WinOK, UnlockingOK, WindowType, NameLists
<1>2. /\ rest \in Seq(Names) /\ Len(rest) = Len(r.todo) - 1 /\ n0 = r.todo[1]
      /\ 1 \in DOMAIN r.todo /\ n0 \in Names
      /\ \A i \in 1 .. Len(rest) : rest[i] = r.todo[i + 1]
  BY <1>1
<1>3. \A n : (\E i \in DOMAIN rest : rest[i] = n) <=> (\E i \in DOMAIN r.todo : r.todo[i] = n) /\ n # n0
  <2> TAKE n
  <2>1. ASSUME NEW i \in DOMAIN rest, rest[i] = n PROVE (\E j \in DOMAIN r.todo : r.todo[j] = n) /\ n # n0
    <3>1. i \in 1 .. Len(rest) /\ i + 1 \in DOMAIN r.todo /\ i + 1 # 1 BY <2>1, <1>1, <1>2
    <3> QED BY <3>1, <2>1, <1>1, <1>2
  <2>2. ASSUME NEW j \in DOMAIN r.todo, r.todo[j] = n, n # n0 PROVE \E i \in DOMAIN rest : rest[i] = n
    <3>1. j # 1 BY <2>2, <1>2
    <3>2. j - 1 \in DOMAIN rest /\ (j - 1) + 1 = j BY <3>1, <1>1, <1>2
    <3> QED BY <3>2, <2>2, <1>2
  <2> QED BY <2>1, <2>2
<1>4. \A i, j \in DOMAIN rest : i # j => rest[i] # rest[j]
  <2> TAKE i, j \in DOMAIN rest
  <2>1. i + 1 \in DOMAIN r.todo /\ j + 1 \in DOMAIN r.todo /\ i \in 1 .. Len(rest) /\ j \in 1 .. Len(rest)
    BY <1>1, <1>2
  <2>2. i # j => i + 1 # j + 1 BY <2>1
  <2> QED BY <2>1, <2>2, <1>1, <1>2
<1>5. q = [r EXCEPT !.todo = rest, !.pc = x] BY DEF Unlocked
<1>6. x \in {"unlock", "clean", "settle"} OBVIOUS
<1>7. rest \in NameLists BY <1>2 DEF NameLists
<1>8. Holds(r, n0) BY <1>2 DEF Holds, Pending
<1>9. ~ (r.locked /\ r.name = n0) BY <1>1, <1>2 DEF Pending
<1>10. x = "unlock" <=> rest # <<>> OBVIOUS
<1>11. rest = <<>> => ~ \E i \in DOMAIN rest : TRUE OBVIOUS
<1>12. x = "clean" <=> rest = <<>> /\ r.closing = "sure" OBVIOUS
<1>18. n0 \in Names BY <1>2
<1> HIDE DEF rest, x, q, n0
<1>13. q \in WindowType BY <1>0, <1>5, <1>6, <1>7, ZenonT(60) DEF WindowType, Labels
<1>14. /\ q.pc = x /\ q.name = r.name /\ q.modified = r.modified /\ q.deleteFile = r.deleteFile
       /\ q.cmd = r.cmd /\ q.closing = r.closing /\ q.target = r.target /\ q.saveLock = r.saveLock
       /\ q.fd = r.fd /\ q.res = r.res /\ q.todo = rest /\ q.locked = r.locked
       /\ q.saidNo = r.saidNo
  BY <1>0, <1>5 DEF WindowType
<1>15. Fits(q)
  <2>1. LockedOK(q) BY <1>1, <1>6, <1>12, <1>14 DEF WinOK, LockedOK
  <2>2. LockingOK(q) BY <1>6, <1>14 DEF LockingOK, Locking
  <2>3. SavingOK(q) BY <1>6, <1>14 DEF WinOK, SavingOK, Saving, Unlocking
  <2>4. r.locked => ~Pending(q, r.name)
    <3>1. r.locked => ~\E i \in DOMAIN rest : rest[i] = r.name BY <1>1, <1>3 DEF Pending
    <3>2. q.todo = rest BY <1>14
    <3> QED BY <3>1, <3>2 DEF Pending
  <2>5. UnlockingOK(q) BY <1>4, <1>6, <1>10, <1>12, <1>14, <2>4 DEF WinOK, UnlockingOK, Unlocking
  <2>6. ClosingOK(q) BY <1>6, <1>12, <1>14 DEF WinOK, ClosingOK
  <2> QED BY <2>1, <2>2, <2>3, <2>5, <2>6 DEF Fits
<1>16. \A n : Holds(q, n) <=> Holds(r, n) /\ n # n0
  BY <1>3, <1>6, <1>9, <1>10, <1>11, <1>12, <1>14 DEF Holds, Pending, Locking, Saving, Unlocking
<1>17. WinOK(q) BY <1>13, <1>15 DEF WinOK, Fits
<1> QED BY <1>6, <1>8, <1>14, <1>16, <1>17, <1>18 DEF n0, q

-----------------------------------------------------------------------------
(* Steps that leave the locks alone                                        *)

\* A window that acts has been opened, and its process runs.
LEMMA Acting ==
  ASSUME LInv, NEW w \in Windows, win[w].pc \notin {"unopened", "dead"}
  PROVE  WinOK(win[w]) /\ win[w] \in WindowType /\ w \in world.windows /\ world.pid[w] \in alive
BY DEF LInv, TInv, Living, WinOK

\* The windows after a step of w: w holds what it held, and so does every other.
Quiet(w) ==
  /\ world' = world /\ link' = link /\ alive' = alive /\ bold' = bold
  /\ win' = [v \in Windows |-> win'[v]]
  /\ WinOK(win'[w]) /\ Same(win'[w], win[w]) /\ win'[w].pc # "lockUnlink"
  /\ \A v \in Windows \ {w} : /\ WinOK(win'[v]) /\ Same(win'[v], win[v])
                              /\ win'[v].pc = win[v].pc /\ win'[v].target = win[v].target

\* A step after which every window holds what it held keeps the invariant.
LEMMA QuietKeeps ==
  ASSUME LInv, DiskOK', NEW w \in Windows, w \in world.windows, win[w].pc # "dead", Quiet(w)
  PROVE  LInv'
<1>1. TInv'
  BY DEF TInv, Quiet, WinOK, LockedOK, LockingOK, SavingOK, UnlockingOK, ClosingOK, Pending
<1>2. Living' BY DEF LInv, Living, Quiet
<1>3. \A v \in Windows, n \in Names : Holds(win'[v], n) <=> Holds(win[v], n) BY DEF Quiet, Same
<1>4. Held => Held' BY <1>3 DEF Held, Quiet, Holds, Pending
<1>5. Single => Single' BY <1>3 DEF Single, Quiet, Holds, Pending
<1>6. Known => Known' BY <1>3 DEF Known, Quiet, Holds, Pending
<1>7. Orphaned => Orphaned' BY DEF Orphaned, Quiet
<1>8. Careful(world)' => Careful(world) BY DEF Careful, Quiet
<1> QED BY <1>1, <1>2, <1>4, <1>5, <1>6, <1>7, <1>8 DEF LInv

\* So does a step that changes one window alone, and not what it holds.
LEMMA BecomeKeeps ==
  ASSUME LInv, DiskOK', NEW w \in Windows, w \in world.windows, win[w].pc # "dead",
         NEW q, WinOK(q), Same(q, win[w]), q.pc # "lockUnlink", Become(w, q),
         world' = world, link' = link, alive' = alive, bold' = bold
  PROVE  LInv'
<1>1. win = [v \in Windows |-> win[v]] /\ \A v \in Windows : WinOK(win[v]) BY DEF LInv, TInv
<1>2. win' = [win EXCEPT ![w] = q] BY DEF Become
<1>3. win' = [v \in Windows |-> win'[v]] /\ win'[w] = q /\ \A v \in Windows \ {w} : win'[v] = win[v]
  BY <1>1, <1>2
<1>4. Quiet(w) BY <1>1, <1>3 DEF Quiet, Same
<1> QED BY <1>4, QuietKeeps

\* A step to another place in the code is a change of the window.
LEMMA GotoIsBecome ==
  ASSUME LInv, NEW w \in Windows, NEW x, Goto(w, x)
  PROVE  Become(w, [win[w] EXCEPT !.pc = x]) /\ [win[w] EXCEPT !.pc = x].pc = x
<1>1. win[w] \in WindowType BY DEF LInv, TInv, WinOK
<1> QED BY <1>1 DEF Goto, Become, WindowType

\* Nothing on the disk changes.
LEMMA DiskStays ==
  ASSUME LInv, UNCHANGED <<world, disk, link, alive, now, texts, bold, missed>>
  PROVE  DiskOK'
BY DEF LInv, TInv, DiskOK, disk

\* A file that is written now is a file.
LEMMA Stamps ==
  ASSUME LInv
  PROVE  Tick \in Times /\ \A t \in Texts : Stamped(t) \in Files
<1>1. now \in Nat BY DEF LInv, TInv, DiskOK, Times
<1>2. Tick \in Times BY <1>1 DEF Tick, Times
<1> QED BY <1>2 DEF Stamped, Files

\* The texts that are special are texts, and the next one to be typed is.
LEMMA TextFacts ==
  /\ Empty \in Texts /\ Part \in Texts /\ NoText \in Texts /\ Absent \in Files
  /\ \A t \in Nat : t <= MaxTexts => t + 1 \in Texts
BY EditSaveAssumption DEF Texts, Empty, Part, NoText, Absent, Files, Times, Written

\* The circumstances are some of those there can be.
LEMMA WorldFacts ==
  ASSUME LInv
  PROVE  world \in WorldType /\ world.mode \in Modes
BY WorldsAssumption DEF LInv, TInv, DiskOK, WorldType

\* A window with one command more is the window for all that matters.
LEMMA CountedFits ==
  ASSUME NEW w \in Windows, WinOK(win[w]), win[w].pc = "idle"
  PROVE  WinOK(Counted(w)) /\ Same(Counted(w), win[w]) /\ Counted(w).pc = "idle"
<1>1. Counted(w) = [win[w] EXCEPT !.commands = win[w].commands + 1] BY DEF Counted
<1>2. Counted(w).pc = "idle" BY <1>1 DEF WinOK, WindowType
<1> QED BY <1>1, <1>2, CountCommand

-----------------------------------------------------------------------------
(* The steps of one window                                                 *)

\* check_file_access keeps the invariant.
LEMMA OpenStep ==
  ASSUME LInv, NEW w \in Windows, Open(w)
  PROVE  LInv'
<1> DEFINE r == win[w]
<1>1. r.pc = "unopened" /\ w \in world.windows /\ r.pc # "dead" BY DEF Open, At
<1>2. WinOK(r) /\ r \in WindowType BY DEF LInv, TInv, WinOK
<1>3. UNCHANGED <<world, backup, temp, link, alive, texts, bold, missed>> BY DEF Open
<1>4. r.name # NoName => r.name \in Names BY <1>2 DEF WindowType
<1>5. CASE r.name = NoName
  <2>1. Goto(w, "idle") /\ UNCHANGED <<fs, now>> BY <1>5 DEF Open
  <2>2. DiskOK' BY <2>1, <1>3, DiskStays DEF disk
  <2>3. Become(w, [r EXCEPT !.pc = "idle"]) /\ [r EXCEPT !.pc = "idle"].pc = "idle"
    BY <2>1, GotoIsBecome
  <2> QED BY <2>2, <2>3, <1>1, <1>2, <1>3, OpenUnnamed, BecomeKeeps
<1>6. CASE r.name # NoName /\ Exists(r.name)
  <2> DEFINE q == [r EXCEPT !.pc = "load", !.time = fs[r.name].time]
  <2>1. Become(w, q) /\ UNCHANGED <<fs, now>> BY <1>6 DEF Open
  <2>2. DiskOK' BY <2>1, <1>3, DiskStays DEF disk
  <2>3. fs[r.name].time \in Times BY <1>4, <1>6 DEF LInv, TInv, DiskOK, Files
  <2>4. q.pc = "load" BY <1>2 DEF WindowType
  <2>5. WinOK(q) /\ Same(q, r) BY <2>3, <1>1, <1>2, <1>4, <1>6, OpenFile
  <2> HIDE DEF q
  <2> QED BY <2>1, <2>2, <2>4, <2>5, <1>1, <1>3, BecomeKeeps
<1>7. CASE r.name # NoName /\ ~Exists(r.name)
  <2> DEFINE q == [r EXCEPT !.pc = "load", !.time = Tick, !.deleteFile = TRUE]
  <2>1. Become(w, q) /\ now' = Tick /\ fs' = [fs EXCEPT ![r.name] = Stamped(Empty)] BY <1>7 DEF Open
  <2>2. DiskOK' BY <2>1, <1>3, <1>4, <1>7, Stamps, TextFacts DEF LInv, TInv, DiskOK
  <2>4. q.pc = "load" BY <1>2 DEF WindowType
  <2>5. WinOK(q) /\ Same(q, r) BY <1>1, <1>2, <1>4, <1>7, Stamps, OpenNew
  <2> HIDE DEF q
  <2> QED BY <2>1, <2>2, <2>4, <2>5, <1>1, <1>3, BecomeKeeps
<1> QED BY <1>5, <1>6, <1>7

\* edit_load_file keeps the invariant.
LEMMA LoadStep ==
  ASSUME LInv, NEW w \in Windows, Load(w)
  PROVE  LInv'
<1> DEFINE r == win[w]
<1>1. r.pc = "load" /\ r.pc # "dead" BY DEF Load, At
<1>2. WinOK(r) /\ r \in WindowType /\ w \in world.windows BY <1>1, Acting
<1>3. UNCHANGED <<world, disk, link, alive, now, texts, bold, missed>> BY DEF Load
<1>4. DiskOK' BY <1>3, DiskStays
<1>5. r.name \in Names BY <1>1, <1>2 DEF WinOK, SavingOK
<1>6. CASE Exists(r.name)
  <2> DEFINE q == [r EXCEPT !.pc = "idle", !.buf = fs[r.name].text, !.base = fs[r.name].text]
  <2>1. Become(w, q) BY <1>6 DEF Load
  <2>2. fs[r.name].text \in Texts BY <1>5 DEF LInv, TInv, DiskOK, Files
  <2>3. WinOK(q) /\ Same(q, r) BY <2>2, <1>1, <1>2, LoadText
  <2>4. q.pc = "idle" BY <1>2 DEF WindowType
  <2> HIDE DEF q
  <2> QED BY <2>1, <2>3, <2>4, <1>1, <1>2, <1>3, <1>4, BecomeKeeps
<1>7. CASE ~Exists(r.name)
  <2> DEFINE q == [r EXCEPT !.pc = "closed"]
  <2>1. Become(w, q) BY <1>7 DEF Load
  <2>3. WinOK(q) /\ Same(q, r) BY <1>1, <1>2, LoadFails
  <2>4. q.pc = "closed" BY <1>2 DEF WindowType
  <2> HIDE DEF q
  <2> QED BY <2>1, <2>3, <2>4, <1>1, <1>2, <1>3, <1>4, BecomeKeeps
<1> QED BY <1>6, <1>7

\* edit_modification keeps the invariant.
LEMMA TypeStep ==
  ASSUME LInv, NEW w \in Windows, Type(w)
  PROVE  LInv'
<1> DEFINE r == win[w]
<1>1. r.pc = "idle" /\ r.pc # "dead" /\ texts <= MaxTexts /\ texts' = texts + 1 BY DEF Type, At
<1>2. WinOK(r) /\ r \in WindowType /\ w \in world.windows BY <1>1, Acting
<1>3. UNCHANGED <<world, disk, link, alive, now, bold, missed>> BY DEF Type
<1>4. texts \in Nat /\ texts + 1 \in Nat BY DEF LInv, TInv, DiskOK
<1>5. DiskOK' BY <1>1, <1>3, <1>4 DEF LInv, TInv, DiskOK, disk
<1>6. texts + 1 \in Texts BY <1>1, <1>4, TextFacts
<1>7. r.name # NoName => r.name \in Names BY <1>2 DEF WindowType
<1>8. CASE r.modified \/ r.deleteFile \/ r.name = NoName
  <2> DEFINE q == [r EXCEPT !.buf = texts + 1, !.modified = TRUE]
  <2>1. Become(w, q) BY <1>8 DEF Type
  <2>2. q.pc = "idle" BY <1>1, <1>2 DEF WindowType
  <2>3. WinOK(q) /\ Same(q, r) BY <1>1, <1>2, <1>6, <1>8, TypedInto
  <2> HIDE DEF q
  <2> QED BY <2>1, <2>2, <2>3, <1>1, <1>2, <1>3, <1>5, BecomeKeeps
<1>9. CASE ~(r.modified \/ r.deleteFile \/ r.name = NoName)
  <2> DEFINE q == [r EXCEPT !.buf = texts + 1, !.pc = "lockStat", !.cmd = "type", !.target = r.name]
  <2>1. Become(w, q) BY <1>9 DEF Type
  <2>2. q.pc = "lockStat" BY <1>2 DEF WindowType
  <2>3. WinOK(q) /\ Same(q, r) BY <1>1, <1>2, <1>6, <1>7, <1>9, TypedFirst
  <2> HIDE DEF q
  <2> QED BY <2>1, <2>2, <2>3, <1>1, <1>2, <1>3, <1>5, BecomeKeeps
<1> QED BY <1>8, <1>9

\* The lstat of lock_file keeps the invariant.
LEMMA LockStatStep ==
  ASSUME LInv, NEW w \in Windows, LockStat(w)
  PROVE  LInv'
<1> DEFINE r == win[w]  x == IF link[r.target] = Free THEN "lockLink" ELSE "lockRead"  q == [r EXCEPT !.pc = x]
<1>1. r.pc = "lockStat" /\ r.pc # "dead" /\ Goto(w, x) BY DEF LockStat, At
<1>2. WinOK(r) /\ r \in WindowType /\ w \in world.windows BY <1>1, Acting
<1>3. UNCHANGED <<world, disk, link, alive, now, texts, bold, missed>> BY DEF LockStat
<1>4. x \in Locking /\ x # "lockUnlink" BY DEF Locking
<1>5. DiskOK' BY <1>3, DiskStays
<1> HIDE DEF x
<1>6. Become(w, q) /\ q.pc = x BY <1>1, GotoIsBecome
<1>7. WinOK(q) /\ Same(q, r) BY <1>1, <1>2, <1>4, LockMoves DEF Locking
<1> HIDE DEF q
<1> QED BY <1>1, <1>2, <1>3, <1>4, <1>5, <1>6, <1>7, BecomeKeeps

\* edit_save_confirm_cmd keeps the invariant.
LEMMA SaveStep ==
  ASSUME LInv, NEW w \in Windows, Save(w)
  PROVE  LInv'
<1> DEFINE r == win[w]  c == Counted(w)
<1>1. r.pc = "idle" /\ r.pc # "dead" /\ Become(w, SaveCmd(c)) BY DEF Save, Commanded, At
<1>2. WinOK(r) /\ r \in WindowType /\ w \in world.windows BY <1>1, Acting
<1>3. UNCHANGED <<world, disk, link, alive, now, texts, bold, missed>> BY DEF Save
<1>4. DiskOK' BY <1>3, DiskStays
<1>5. WinOK(c) /\ Same(c, r) /\ c.pc = "idle" BY <1>1, <1>2, CountedFits
<1> HIDE DEF c
<1>6. WinOK(SaveCmd(c)) /\ Same(SaveCmd(c), c) /\ SaveCmd(c).pc # "lockUnlink" BY <1>5, SaveCmdFits
<1>7. Same(SaveCmd(c), r) BY <1>5, <1>6 DEF Same
<1> QED BY <1>1, <1>2, <1>3, <1>4, <1>6, <1>7, BecomeKeeps

\* The command "save as" keeps the invariant.
LEMMA SaveAsStep ==
  ASSUME LInv, NEW w \in Windows, SaveAs(w)
  PROVE  LInv'
<1> DEFINE r == win[w]  c == Counted(w)  q == [c EXCEPT !.pc = "askName"]
<1>1. r.pc = "idle" /\ r.pc # "dead" /\ Become(w, q) BY DEF SaveAs, Commanded, At
<1>2. WinOK(r) /\ r \in WindowType /\ w \in world.windows BY <1>1, Acting
<1>3. UNCHANGED <<world, disk, link, alive, now, texts, bold, missed>> BY DEF SaveAs
<1>4. DiskOK' BY <1>3, DiskStays
<1>5. WinOK(c) /\ Same(c, r) /\ c.pc = "idle" BY <1>1, <1>2, CountedFits
<1> HIDE DEF c
<1>6. WinOK(q) /\ Same(q, c) BY <1>5, MovePause
<1>7. q.pc = "askName" BY <1>5 DEF WinOK, WindowType
<1>8. Same(q, r) BY <1>5, <1>6 DEF Same
<1> HIDE DEF q
<1> QED BY <1>1, <1>2, <1>3, <1>4, <1>6, <1>7, <1>8, BecomeKeeps

\* edit_close_cmd keeps the invariant.
LEMMA CloseStep ==
  ASSUME LInv, NEW w \in Windows, Close(w)
  PROVE  LInv'
<1> DEFINE r == win[w]  c == Counted(w)  q == [c EXCEPT !.pc = "askSave"]
<1>1. r.pc = "idle" /\ r.pc # "dead" /\ Become(w, IF r.modified THEN q ELSE Leave(c))
  BY DEF Close, Commanded, At
<1>2. WinOK(r) /\ r \in WindowType /\ w \in world.windows BY <1>1, Acting
<1>3. UNCHANGED <<world, disk, link, alive, now, texts, bold, missed>> BY DEF Close
<1>4. DiskOK' BY <1>3, DiskStays
<1>5. WinOK(c) /\ Same(c, r) /\ c.pc = "idle" BY <1>1, <1>2, CountedFits
<1>8. c.modified = r.modified BY <1>2 DEF Counted, WindowType
<1> HIDE DEF c
<1>6. CASE r.modified
  <2>1. WinOK(q) /\ Same(q, c) BY <1>5, MovePause
  <2>2. q.pc = "askSave" BY <1>5 DEF WinOK, WindowType
  <2>3. Same(q, r) BY <1>5, <2>1 DEF Same
  <2>4. Become(w, q) BY <1>1, <1>6
  <2> HIDE DEF q
  <2> QED BY <1>1, <1>2, <1>3, <1>4, <2>1, <2>2, <2>3, <2>4, BecomeKeeps
<1>7. CASE ~r.modified
  <2>1. WinOK(Leave(c)) /\ Same(Leave(c), c) /\ Leave(c).pc # "lockUnlink"
    BY <1>5, <1>7, <1>8, LeaveFits
  <2>2. Same(Leave(c), r) BY <1>5, <2>1 DEF Same
  <2>3. Become(w, Leave(c)) BY <1>1, <1>7
  <2> QED BY <1>1, <1>2, <1>3, <1>4, <2>1, <2>2, <2>3, BecomeKeeps
<1> QED BY <1>6, <1>7

\* "Save before close?" keeps the invariant.
LEMMA AskSaveStep ==
  ASSUME LInv, NEW w \in Windows, AskSave(w)
  PROVE  LInv'
<1> DEFINE r == win[w]
<1>1. r.pc = "askSave" /\ r.pc # "dead" BY DEF AskSave, At
<1>2. WinOK(r) /\ r \in WindowType /\ w \in world.windows BY <1>1, Acting
<1>3. UNCHANGED <<world, disk, link, alive, now, texts, bold, missed>> BY DEF AskSave
<1>4. DiskOK' BY <1>3, DiskStays
<1>5. CASE Become(w, SaveCmd([r EXCEPT !.closing = "asked"]))
  <2> DEFINE c == [r EXCEPT !.closing = "asked"]
  <2>1. WinOK(c) /\ Same(c, r) BY <1>1, <1>2, AskedToClose
  <2>2. c.pc = "askSave" BY <1>1, <1>2 DEF WindowType
  <2>3. Become(w, SaveCmd(c)) BY <1>5
  <2> HIDE DEF c
  <2>4. WinOK(SaveCmd(c)) /\ Same(SaveCmd(c), c) /\ SaveCmd(c).pc # "lockUnlink"
    BY <2>1, <2>2, SaveCmdFits
  <2>5. Same(SaveCmd(c), r) BY <2>1, <2>4 DEF Same
  <2> QED BY <1>1, <1>2, <1>3, <1>4, <2>3, <2>4, <2>5, BecomeKeeps
<1>6. CASE Become(w, Leave([r EXCEPT !.saidNo = TRUE]))
  <2> DEFINE c == [r EXCEPT !.saidNo = TRUE]
  <2>1. WinOK(c) /\ Same(c, r) BY <1>1, <1>2, SaidNo
  <2>2. c.pc = "askSave" /\ c.saidNo BY <1>1, <1>2 DEF WindowType
  <2>3. Become(w, Leave(c)) BY <1>6
  <2> HIDE DEF c
  <2>4. WinOK(Leave(c)) /\ Same(Leave(c), c) /\ Leave(c).pc # "lockUnlink" BY <2>1, <2>2, LeaveFits
  <2>5. Same(Leave(c), r) BY <2>1, <2>4 DEF Same
  <2> QED BY <1>1, <1>2, <1>3, <1>4, <2>3, <2>4, <2>5, BecomeKeeps
<1>7. CASE Goto(w, "idle")
  <2> DEFINE q == [r EXCEPT !.pc = "idle"]
  <2>1. Become(w, q) /\ q.pc = "idle" BY <1>7, GotoIsBecome
  <2>2. WinOK(q) /\ Same(q, r) BY <1>1, <1>2, MovePause
  <2> HIDE DEF q
  <2> QED BY <1>1, <1>2, <1>3, <1>4, <2>1, <2>2, BecomeKeeps
<1> QED BY <1>5, <1>6, <1>7 DEF AskSave

\* The dialog of "save as" keeps the invariant.
LEMMA AskNameStep ==
  ASSUME LInv, NEW w \in Windows, AskName(w)
  PROVE  LInv'
<1> DEFINE r == win[w]
<1>1. r.pc = "askName" /\ r.pc # "dead" BY DEF AskName, At
<1>2. WinOK(r) /\ r \in WindowType /\ w \in world.windows BY <1>1, Acting
<1>3. UNCHANGED <<world, disk, link, alive, now, texts, bold, missed>> BY DEF AskName
<1>4. DiskOK' BY <1>3, DiskStays
<1>5. CASE Become(w, Finish(r, FALSE))
  <2>1. WinOK(Finish(r, FALSE)) /\ Same(Finish(r, FALSE), r) /\ Finish(r, FALSE).pc # "lockUnlink"
    BY <1>1, <1>2, FinishFits
  <2> QED BY <1>1, <1>2, <1>3, <1>4, <1>5, <2>1, BecomeKeeps
<1>6. ASSUME NEW n \in world.targets, NEW lb \in {FALSE, world.convert},
             Become(w, [[r EXCEPT !.cmd = "saveAs", !.target = n, !.convert = lb, !.saveLock = FALSE, !.asked = FALSE]
                        EXCEPT !.pc = CASE n # r.name /\ Exists(n) -> "askOver"
                                        [] n = r.name /\ (r.locked \/ r.deleteFile) -> "stat"
                                        [] OTHER -> "lockStat"])
      PROVE  LInv'
  <2> DEFINE x == CASE n # r.name /\ Exists(n) -> "askOver"
                    [] n = r.name /\ (r.locked \/ r.deleteFile) -> "stat"
                    [] OTHER -> "lockStat"
             q == [r EXCEPT !.cmd = "saveAs", !.target = n, !.convert = lb, !.saveLock = FALSE, !.asked = FALSE, !.pc = x]
  <2>1. n \in Names /\ lb \in BOOLEAN BY WorldFacts DEF WorldType
  <2>2. Become(w, q) BY <1>6
  <2>3. q.pc = x /\ x # "lockUnlink" BY <1>2 DEF WindowType
  <2>4. WinOK(q) /\ Same(q, r)
    <3>1. CASE n # r.name /\ Exists(n)
      <4>1. x = "askOver" BY <3>1
      <4> HIDE DEF x
      <4> QED BY <3>1, <4>1, <2>1, <1>1, <1>2, NameTaken
    <3>2. CASE n = r.name /\ (r.locked \/ r.deleteFile)
      <4>1. x = "stat" BY <3>2
      <4> HIDE DEF x
      <4> QED BY <3>2, <4>1, <2>1, <1>1, <1>2, NameOwn
    <3>3. CASE ~(n # r.name /\ Exists(n)) /\ ~(n = r.name /\ (r.locked \/ r.deleteFile))
      <4>1. x = "lockStat" BY <3>3
      <4>2. n # r.name \/ ~r.locked BY <3>3
      <4> HIDE DEF x
      <4> QED BY <4>1, <4>2, <2>1, <1>1, <1>2, NameFree
    <3> QED BY <3>1, <3>2, <3>3
  <2> HIDE DEF q
  <2> QED BY <1>1, <1>2, <1>3, <1>4, <2>2, <2>3, <2>4, BecomeKeeps
<1> QED BY <1>5, <1>6 DEF AskName

\* "A file already exists with this name" keeps the invariant.
LEMMA AskOverStep ==
  ASSUME LInv, NEW w \in Windows, AskOver(w)
  PROVE  LInv'
<1> DEFINE r == win[w]
<1>1. r.pc = "askOver" /\ r.pc # "dead" BY DEF AskOver, At
<1>2. WinOK(r) /\ r \in WindowType /\ w \in world.windows BY <1>1, Acting
<1>3. UNCHANGED <<world, disk, link, alive, now, texts, bold, missed>> BY DEF AskOver
<1>4. DiskOK' BY <1>3, DiskStays
<1>5. CASE Become(w, [r EXCEPT !.pc = "lockStat", !.asked = TRUE])
  <2> DEFINE q == [r EXCEPT !.pc = "lockStat", !.asked = TRUE]
  <2>1. WinOK(q) /\ Same(q, r) BY <1>1, <1>2, Overwrite
  <2>2. q.pc = "lockStat" BY <1>2 DEF WindowType
  <2>3. Become(w, q) BY <1>5
  <2> HIDE DEF q
  <2> QED BY <1>1, <1>2, <1>3, <1>4, <2>1, <2>2, <2>3, BecomeKeeps
<1>6. CASE Become(w, Finish(r, FALSE))
  <2>1. WinOK(Finish(r, FALSE)) /\ Same(Finish(r, FALSE), r) /\ Finish(r, FALSE).pc # "lockUnlink"
    BY <1>1, <1>2, FinishFits
  <2> QED BY <1>1, <1>2, <1>3, <1>4, <1>6, <2>1, BecomeKeeps
<1> QED BY <1>5, <1>6 DEF AskOver

\* The comparison of the times, after what has been asked before.
LEMMA CheckTimeFits ==
  ASSUME NEW r, WinOK(r), r.pc \in Saving \ {"write"}
  PROVE  WinOK(CheckTime(r)) /\ Same(CheckTime(r), r) /\ CheckTime(r).pc # "lockUnlink"
<1> DEFINE x == IF r.sb.text # NoText /\ r.time # 0 /\ r.time # r.sb.time THEN "askTime"
                ELSE IF r.mode = "quick" THEN "open" ELSE "temp"
<1>1. CheckTime(r) = [r EXCEPT !.pc = x] BY DEF CheckTime
<1>2. x \in Saving /\ x # "lockUnlink" BY DEF Saving
<1> HIDE DEF x
<1>3. CheckTime(r).pc = x BY <1>1 DEF WinOK, WindowType
<1> QED BY <1>1, <1>2, <1>3, SaveMoves

\* The end of a save, as a step of the window.
LEMMA ResultStep ==
  ASSUME LInv, DiskOK', NEW w \in Windows, win[w].pc \in Saving, NEW c, WinOK(c), c.pc \in Saving, Same(c, win[w]),
         NEW res \in {"ok", "error", "abort"}, Become(w, Result(c, res)),
         world' = world, link' = link, alive' = alive, bold' = bold
  PROVE  LInv'
<1>1. win[w].pc \notin {"unopened", "dead"} BY DEF Saving
<1>2. w \in world.windows BY <1>1, Acting
<1>3. WinOK(Result(c, res)) /\ Same(Result(c, res), c) /\ Result(c, res).pc # "lockUnlink"
  BY ResultFits
<1>4. Same(Result(c, res), win[w]) BY <1>3 DEF Same
<1> QED BY <1>1, <1>2, <1>3, <1>4, BecomeKeeps

\* The stat of edit_save_file keeps the invariant.
LEMMA StatStep ==
  ASSUME LInv, NEW w \in Windows, Stat(w)
  PROVE  LInv'
<1> DEFINE r == win[w]  sb == fs[r.target]  mode == IF sb.text = NoText THEN "quick" ELSE world.mode
           c == [r EXCEPT !.sb = sb, !.mode = mode]  q == [c EXCEPT !.pc = "askLinks"]
<1>1. r.pc = "stat" /\ r.pc # "dead" BY DEF Stat, At
<1>2. WinOK(r) /\ r \in WindowType /\ w \in world.windows BY <1>1, Acting
<1>3. UNCHANGED <<world, disk, link, alive, now, texts, bold, missed>> BY DEF Stat
<1>4. DiskOK' BY <1>3, DiskStays
<1>5. r.target \in Names BY <1>1, <1>2 DEF WinOK, SavingOK, Saving
<1>6. sb \in Files BY <1>5 DEF LInv, TInv, DiskOK
<1>7. mode \in Modes BY WorldFacts DEF Modes
<1>8. Become(w, IF mode = "quick" /\ sb.linked /\ ~c.skip THEN q ELSE CheckTime(c)) BY DEF Stat
<1> HIDE DEF sb, mode
<1>9. WinOK(c) /\ Same(c, r) BY <1>1, <1>2, <1>6, <1>7, SaveStat DEF Saving
<1>10. c.pc = "stat" BY <1>1, <1>2 DEF WindowType
<1> HIDE DEF c
<1>11. WinOK(q) /\ Same(q, c) /\ q.pc = "askLinks"
  <2>1. WinOK(q) /\ Same(q, c) BY <1>9, <1>10, SaveMoves DEF Saving
  <2>2. q.pc = "askLinks" BY <1>9 DEF WinOK, WindowType
  <2> QED BY <2>1, <2>2
<1>12. WinOK(CheckTime(c)) /\ Same(CheckTime(c), c) /\ CheckTime(c).pc # "lockUnlink"
  BY <1>9, <1>10, CheckTimeFits DEF Saving
<1>13. Same(q, r) /\ Same(CheckTime(c), r) BY <1>9, <1>11, <1>12 DEF Same
<1> HIDE DEF q
<1>14. CASE mode = "quick" /\ sb.linked /\ ~c.skip
  <2>1. Become(w, q) BY <1>8, <1>14
  <2> QED BY <2>1, <1>1, <1>2, <1>3, <1>4, <1>11, <1>13, BecomeKeeps
<1>15. CASE ~(mode = "quick" /\ sb.linked /\ ~c.skip)
  <2>1. Become(w, CheckTime(c)) BY <1>8, <1>15
  <2> QED BY <2>1, <1>1, <1>2, <1>3, <1>4, <1>12, <1>13, BecomeKeeps
<1> QED BY <1>14, <1>15

\* "Detach before saving?" keeps the invariant.
LEMMA AskLinksStep ==
  ASSUME LInv, NEW w \in Windows, AskLinks(w)
  PROVE  LInv'
<1> DEFINE r == win[w]
<1>1. r.pc = "askLinks" /\ r.pc # "dead" BY DEF AskLinks, At
<1>2. WinOK(r) /\ r \in WindowType /\ w \in world.windows BY <1>1, Acting
<1>3. UNCHANGED <<world, disk, link, alive, now, texts, bold, missed>> BY DEF AskLinks
<1>4. DiskOK' BY <1>3, DiskStays
<1>5. ASSUME NEW c, WinOK(c), Same(c, r), c.pc = "askLinks", Become(w, CheckTime(c)) PROVE LInv'
  <2>1. WinOK(CheckTime(c)) /\ Same(CheckTime(c), c) /\ CheckTime(c).pc # "lockUnlink"
    BY <1>5, CheckTimeFits DEF Saving
  <2>2. Same(CheckTime(c), r) BY <1>5, <2>1 DEF Same
  <2> QED BY <2>1, <2>2, <1>1, <1>2, <1>3, <1>4, <1>5, BecomeKeeps
<1>6. CASE Become(w, CheckTime([r EXCEPT !.skip = TRUE, !.mode = "safe"]))
  <2> DEFINE c == [r EXCEPT !.skip = TRUE, !.mode = "safe"]
  <2>1. WinOK(c) /\ Same(c, r) BY <1>1, <1>2, SaveDetached DEF Saving
  <2>2. c.pc = "askLinks" BY <1>1, <1>2 DEF WindowType
  <2>3. Become(w, CheckTime(c)) BY <1>6
  <2> HIDE DEF c
  <2> QED BY <2>1, <2>2, <2>3, <1>5
<1>7. CASE Become(w, CheckTime([r EXCEPT !.skip = TRUE]))
  <2> DEFINE c == [r EXCEPT !.skip = TRUE]
  <2>1. WinOK(c) /\ Same(c, r) BY <1>1, <1>2, SaveSkipped DEF Saving
  <2>2. c.pc = "askLinks" BY <1>1, <1>2 DEF WindowType
  <2>3. Become(w, CheckTime(c)) BY <1>7
  <2> HIDE DEF c
  <2> QED BY <2>1, <2>2, <2>3, <1>5
<1>8. CASE Become(w, Result(r, "abort"))
  BY <1>1, <1>2, <1>3, <1>4, <1>8, ResultStep DEF Saving, Same
<1> QED BY <1>6, <1>7, <1>8 DEF AskLinks

\* "Save anyway?" keeps the invariant.
LEMMA AskTimeStep ==
  ASSUME LInv, NEW w \in Windows, AskTime(w)
  PROVE  LInv'
<1> DEFINE r == win[w]
<1>1. r.pc = "askTime" /\ r.pc # "dead" BY DEF AskTime, At
<1>2. WinOK(r) /\ r \in WindowType /\ w \in world.windows BY <1>1, Acting
<1>3. UNCHANGED <<world, disk, link, alive, now, texts, bold, missed>> BY DEF AskTime
<1>4. DiskOK' BY <1>3, DiskStays
<1>5. CASE Become(w, [r EXCEPT !.asked = TRUE, !.pc = IF r.mode = "quick" THEN "open" ELSE "temp"])
  <2> DEFINE x == IF r.mode = "quick" THEN "open" ELSE "temp"  q == [r EXCEPT !.asked = TRUE, !.pc = x]
  <2>1. x \in Saving /\ x # "lockUnlink" BY DEF Saving
  <2>2. Become(w, q) BY <1>5
  <2> HIDE DEF x
  <2>3. q.pc = x BY <1>2 DEF WindowType
  <2>4. WinOK(q) /\ Same(q, r) BY <1>1, <1>2, <2>1, SaveAsked DEF Saving
  <2> HIDE DEF q
  <2> QED BY <2>1, <2>2, <2>3, <2>4, <1>1, <1>2, <1>3, <1>4, BecomeKeeps
<1>6. CASE Become(w, Result(r, "abort"))
  BY <1>1, <1>2, <1>3, <1>4, <1>6, ResultStep DEF Saving, Same
<1> QED BY <1>5, <1>6 DEF AskTime

\* Making the temporary file keeps the invariant.
LEMMA MakeTempStep ==
  ASSUME LInv, NEW w \in Windows, MakeTemp(w)
  PROVE  LInv'
<1> DEFINE r == win[w]
<1>1. r.pc = "temp" /\ r.pc # "dead" BY DEF MakeTemp, At
<1>2. WinOK(r) /\ r \in WindowType /\ w \in world.windows BY <1>1, Acting
<1>3. UNCHANGED <<world, fs, backup, link, alive, texts, bold, missed>> BY DEF MakeTemp
<1>4. CASE temp' = [temp EXCEPT ![w] = Stamped(Empty)] /\ now' = Tick /\ Goto(w, "open")
  <2> DEFINE q == [r EXCEPT !.pc = "open"]
  <2>1. DiskOK' BY <1>3, <1>4, Stamps, TextFacts DEF LInv, TInv, DiskOK
  <2>2. Become(w, q) /\ q.pc = "open" BY <1>4, GotoIsBecome
  <2>3. WinOK(q) /\ Same(q, r) BY <1>1, <1>2, SaveMoves DEF Saving
  <2> HIDE DEF q
  <2> QED BY <2>1, <2>2, <2>3, <1>1, <1>2, <1>3, BecomeKeeps
<1>5. CASE Become(w, Result(r, "error")) /\ UNCHANGED <<temp, now>>
  <2>1. DiskOK' BY <1>3, <1>5, DiskStays DEF disk
  <2> QED BY <2>1, <1>1, <1>2, <1>3, <1>5, ResultStep DEF Saving, Same
<1> QED BY <1>4, <1>5 DEF MakeTemp

\* Opening the file to write keeps the invariant.
LEMMA OpenToWriteStep ==
  ASSUME LInv, NEW w \in Windows, OpenToWrite(w)
  PROVE  LInv'
<1> DEFINE r == win[w]
<1>1. r.pc = "open" /\ r.pc # "dead" BY DEF OpenToWrite, At
<1>2. WinOK(r) /\ r \in WindowType /\ w \in world.windows BY <1>1, Acting
<1>3. UNCHANGED <<world, backup, temp, link, alive, texts, bold, missed>> BY DEF OpenToWrite
<1>4. r.target \in Names BY <1>1, <1>2 DEF WinOK, SavingOK, Saving
<1>5. CASE /\ r.mode = "quick" /\ now' = Tick
           /\ fs' = [fs EXCEPT ![r.target] = [text |-> Part, time |-> Tick, linked |-> fs[r.target].linked]]
           /\ Become(w, [r EXCEPT !.pc = "write", !.fd = "name"])
  <2> DEFINE q == [r EXCEPT !.pc = "write", !.fd = "name"]
  <2>1. [text |-> Part, time |-> Tick, linked |-> fs[r.target].linked] \in Files
    BY <1>4, Stamps, TextFacts DEF LInv, TInv, DiskOK, Files
  <2>2. DiskOK' BY <1>3, <1>5, <2>1, Stamps DEF LInv, TInv, DiskOK
  <2>3. WinOK(q) /\ Same(q, r) BY <1>1, <1>2, <1>5, SaveOpened
  <2>4. q.pc = "write" BY <1>2 DEF WindowType
  <2>5. Become(w, q) BY <1>5
  <2> HIDE DEF q
  <2> QED BY <2>2, <2>3, <2>4, <2>5, <1>1, <1>2, <1>3, BecomeKeeps
<1>6. CASE Goto(w, "write") /\ UNCHANGED <<fs, now>>
  <2> DEFINE q == [r EXCEPT !.pc = "write"]
  <2>1. DiskOK' BY <1>3, <1>6, DiskStays DEF disk
  <2>2. Become(w, q) /\ q.pc = "write" BY <1>6, GotoIsBecome
  <2>3. WinOK(q) /\ Same(q, r) BY <1>1, <1>2, SaveMoves DEF Saving
  <2> HIDE DEF q
  <2> QED BY <2>1, <2>2, <2>3, <1>1, <1>2, <1>3, BecomeKeeps
<1>7. CASE Become(w, Result(r, "error")) /\ UNCHANGED <<fs, now>>
  <2>1. DiskOK' BY <1>3, <1>7, DiskStays DEF disk
  <2> QED BY <2>1, <1>1, <1>2, <1>3, <1>7, ResultStep DEF Saving, Same
<1> QED BY <1>5, <1>6, <1>7 DEF OpenToWrite

\* Whichever file the text reaches, there are files of the right kind.
LEMMA PutTyped ==
  ASSUME LInv, NEW w \in Windows, win[w].pc = "write", NEW t \in Texts, Put(w, t),
         UNCHANGED <<world, link, alive, texts, bold, missed>>
  PROVE  DiskOK'
<1> DEFINE n == win[w].target  f == [text |-> t, time |-> Tick, linked |-> fs[n].linked]
<1>1. WinOK(win[w]) BY Acting
<1>2. n \in Names BY <1>1 DEF WinOK, SavingOK, Saving
<1>3. Stamped(t) \in Files /\ Tick \in Times BY Stamps
<1>4. f \in Files BY <1>2, <1>3 DEF LInv, TInv, DiskOK, Files
<1>5. \/ temp' = [temp EXCEPT ![w] = Stamped(t)] /\ UNCHANGED <<fs, backup>>
      \/ fs' = [fs EXCEPT ![n] = f] /\ UNCHANGED <<backup, temp>>
      \/ backup' = [backup EXCEPT ![n] = Stamped(t)] /\ UNCHANGED <<fs, temp>>
      \/ UNCHANGED disk
  BY DEF Put
<1>6. now' = Tick BY DEF Put
<1> HIDE DEF n, f
<1> QED BY <1>3, <1>4, <1>5, <1>6 DEF LInv, TInv, DiskOK, disk

\* edit_save_file has written its text and goes on.
LEMMA WroteStep ==
  ASSUME LInv, NEW w \in Windows, win[w].pc = "write", DiskOK', Become(w, Wrote(w)),
         world' = world, link' = link, alive' = alive, bold' = bold
  PROVE  LInv'
<1> DEFINE r == win[w]
           plain == ~world.filter /\ ~r.convert
           saved == IF r.mode = "quick" THEN fs'[r.target] ELSE temp'[w]
           t == IF plain THEN saved.time ELSE r.time
           b == IF r.mode = "quick" THEN saved.text ELSE r.base
           c == [r EXCEPT !.time = t, !.base = b]
           x == IF r.mode = "backup" THEN "backup" ELSE "rename"
           q == [c EXCEPT !.pc = x]
<1>1. WinOK(r) /\ r \in WindowType /\ w \in world.windows /\ r.pc # "dead" BY Acting
<1>2. r.target \in Names /\ (r.fd # "none" => r.mode = "quick") BY <1>1 DEF WinOK, SavingOK, Saving
<1>3. saved \in Files BY <1>2 DEF DiskOK
<1>4. t \in Times /\ b \in Texts BY <1>1, <1>3 DEF Files, WindowType
<1>5. Wrote(w) = IF plain /\ saved.text = NoText THEN Result(r, "error")
                 ELSE IF r.mode = "quick" THEN Result(c, "ok") ELSE q
  BY DEF Wrote
<1> HIDE DEF plain, saved, t, b
<1>6. WinOK(c) /\ Same(c, r) BY <1>1, <1>4, SaveStamped DEF Saving
<1>7. c.pc = "write" /\ c.fd = r.fd BY <1>1 DEF WindowType
<1>8. CASE plain /\ saved.text = NoText
  BY <1>1, <1>5, <1>8, ResultStep DEF Saving, Same
<1>9. CASE ~(plain /\ saved.text = NoText) /\ r.mode = "quick"
  <2>1. Become(w, Result(c, "ok")) BY <1>5, <1>9
  <2> HIDE DEF c
  <2> QED BY <2>1, <1>6, <1>7, ResultStep DEF Saving
<1>10. CASE ~(plain /\ saved.text = NoText) /\ r.mode # "quick"
  <2>1. Become(w, q) BY <1>5, <1>10
  <2>2. c.fd = "none" /\ x \in {"backup", "rename"} BY <1>2, <1>7, <1>10
  <2> HIDE DEF c, x
  <2>3. WinOK(q) /\ Same(q, c) BY <2>2, <1>6, <1>7, SaveWritten
  <2>4. q.pc = x BY <1>6 DEF WinOK, WindowType
  <2>5. Same(q, r) BY <2>3, <1>6 DEF Same
  <2> HIDE DEF q
  <2> QED BY <2>1, <2>2, <2>3, <2>4, <2>5, <1>1, BecomeKeeps
<1> QED BY <1>8, <1>9, <1>10

\* Writing all of the text keeps the invariant.
LEMMA WriteAllStep ==
  ASSUME LInv, NEW w \in Windows, WriteAll(w)
  PROVE  LInv'
<1>1. /\ win[w].pc = "write" /\ Put(w, win[w].buf) /\ Become(w, Wrote(w))
      /\ UNCHANGED <<world, link, alive, texts, bold, missed>>
  BY DEF WriteAll, At
<1>2. win[w] \in WindowType BY <1>1, Acting
<1>3. win[w].buf \in Texts BY <1>2, TextFacts DEF WindowType
<1>4. DiskOK' BY <1>1, <1>3, PutTyped
<1> QED BY <1>1, <1>4, WroteStep

\* A close that fails unseen keeps the invariant.
LEMMA CloseFailsStep ==
  ASSUME LInv, NEW w \in Windows, CloseFails(w)
  PROVE  LInv'
<1>1. /\ win[w].pc = "write" /\ Put(w, Part) /\ Become(w, Wrote(w))
      /\ UNCHANGED <<world, link, alive, texts, bold, missed>>
  BY DEF CloseFails, At
<1>2. win[w] \in WindowType BY <1>1, Acting
<1>3. Part \in Texts BY <1>2, TextFacts DEF WindowType
<1>4. DiskOK' BY <1>1, <1>3, PutTyped
<1> QED BY <1>1, <1>4, WroteStep

\* A write that fails keeps the invariant.
LEMMA WriteFailsStep ==
  ASSUME LInv, NEW w \in Windows, WriteFails(w)
  PROVE  LInv'
<1>1. /\ win[w].pc = "write" /\ Put(w, Part) /\ Become(w, Result(win[w], "error"))
      /\ UNCHANGED <<world, link, alive, texts, bold, missed>>
  BY DEF WriteFails, At
<1>2. WinOK(win[w]) BY <1>1, Acting
<1>3. DiskOK' BY <1>1, PutTyped, TextFacts
<1> QED BY <1>1, <1>2, <1>3, ResultStep DEF Saving, Same

\* Another window whose open file is renamed or unlinked holds what it held.
LEMMA MovedKeeps ==
  ASSUME LInv, DiskOK', NEW w \in Windows, w \in world.windows, win[w].pc # "dead",
         NEW q, WinOK(q), Same(q, win[w]), q.pc # "lockUnlink", NEW n, NEW x \in {"backup", "gone"},
         win' = [Moved(win, n, x) EXCEPT ![w] = q],
         world' = world, link' = link, alive' = alive, bold' = bold
  PROVE  LInv'
<1>1. win = [v \in Windows |-> win[v]] /\ \A v \in Windows : WinOK(win[v]) BY DEF LInv, TInv
<1>2. win' = [v \in Windows |-> win'[v]] /\ win'[w] = q /\ \A v \in Windows \ {w} : win'[v] = Moved(win, n, x)[v]
  BY DEF Moved
<1>3. ASSUME NEW v \in Windows
      PROVE  /\ WinOK(Moved(win, n, x)[v]) /\ Same(Moved(win, n, x)[v], win[v])
             /\ Moved(win, n, x)[v].pc = win[v].pc /\ Moved(win, n, x)[v].target = win[v].target
  <2>1. WinOK(win[v]) /\ win[v] \in WindowType BY <1>1 DEF WinOK
  <2>2. CASE win[v].fd = "name" /\ win[v].target = n
    <3> DEFINE m == [win[v] EXCEPT !.fd = x]
    <3>1. Moved(win, n, x)[v] = m BY <2>2 DEF Moved
    <3>2. WinOK(m) /\ Same(m, win[v]) BY <2>1, <2>2, FileMoved
    <3>3. m.pc = win[v].pc /\ m.target = win[v].target BY <2>1 DEF WindowType
    <3> QED BY <3>1, <3>2, <3>3
  <2>3. CASE ~(win[v].fd = "name" /\ win[v].target = n)
    <3>1. Moved(win, n, x)[v] = win[v] BY <2>3 DEF Moved
    <3> QED BY <3>1, <2>1 DEF Same
  <2> QED BY <2>2, <2>3
<1>4. Quiet(w) BY <1>2, <1>3 DEF Quiet
<1> QED BY <1>4, QuietKeeps

\* Renaming to the backup name keeps the invariant.
LEMMA BackupStep ==
  ASSUME LInv, NEW w \in Windows, Backup(w)
  PROVE  LInv'
<1> DEFINE r == win[w]  n == r.target  q == [r EXCEPT !.pc = "rename"]
<1>1. r.pc = "backup" /\ r.pc # "dead" BY DEF Backup, At
<1>2. WinOK(r) /\ r \in WindowType /\ w \in world.windows BY <1>1, Acting
<1>3. UNCHANGED <<world, temp, link, alive, now, texts, bold, missed>> BY DEF Backup
<1>4. n \in Names /\ r.fd = "none" BY <1>1, <1>2 DEF WinOK, SavingOK, Saving, WindowType
<1>5. CASE /\ backup' = [backup EXCEPT ![n] = fs[n]] /\ fs' = [fs EXCEPT ![n] = Absent]
           /\ win' = [Moved(win, n, "backup") EXCEPT ![w].pc = "rename"]
  <2>1. fs[n] \in Files BY <1>4 DEF LInv, TInv, DiskOK
  <2>2. DiskOK' BY <1>3, <1>5, <2>1, TextFacts DEF LInv, TInv, DiskOK
  <2>3. Moved(win, n, "backup")[w] = r BY <1>4 DEF Moved
  <2>4. win' = [Moved(win, n, "backup") EXCEPT ![w] = q] BY <1>5, <2>3
  <2>5. WinOK(q) /\ Same(q, r) BY <1>1, <1>2, SaveMoves DEF Saving
  <2>6. q.pc = "rename" BY <1>2 DEF WindowType
  <2> HIDE DEF q
  <2> QED BY <2>2, <2>4, <2>5, <2>6, <1>1, <1>2, <1>3, MovedKeeps
<1>6. CASE Become(w, Result(r, "error")) /\ UNCHANGED <<fs, backup>>
  <2>1. DiskOK' BY <1>3, <1>6, DiskStays DEF disk
  <2> QED BY <2>1, <1>1, <1>2, <1>3, <1>6, ResultStep DEF Saving, Same
<1> QED BY <1>5, <1>6 DEF Backup

\* Renaming the temporary file keeps the invariant.
LEMMA RenameStep ==
  ASSUME LInv, NEW w \in Windows, Rename(w)
  PROVE  LInv'
<1> DEFINE r == win[w]  n == r.target  c == [r EXCEPT !.base = temp[w].text]  q == Result(c, "ok")
<1>1. r.pc = "rename" /\ r.pc # "dead" BY DEF Rename, At
<1>2. WinOK(r) /\ r \in WindowType /\ w \in world.windows BY <1>1, Acting
<1>3. UNCHANGED <<world, backup, link, alive, now, texts, bold, missed>> BY DEF Rename
<1>4. temp[w] \in Files /\ temp[w].text \in Texts BY DEF LInv, TInv, DiskOK, Files
<1>5. CASE /\ fs' = [fs EXCEPT ![n] = temp[w]] /\ temp' = [temp EXCEPT ![w] = Absent]
           /\ win' = [Moved(win, n, "gone") EXCEPT ![w] = q]
  <2>1. DiskOK' BY <1>3, <1>4, <1>5, TextFacts DEF LInv, TInv, DiskOK
  <2>2. WinOK(c) /\ Same(c, r) BY <1>1, <1>2, <1>4, SaveBased DEF Saving
  <2>3. c.pc = "rename" BY <1>1, <1>2 DEF WindowType
  <2> HIDE DEF c
  <2>4. WinOK(q) /\ Same(q, c) /\ q.pc # "lockUnlink" BY <2>2, <2>3, ResultFits DEF Saving
  <2>5. Same(q, r) BY <2>2, <2>4 DEF Same
  <2> HIDE DEF q
  <2> QED BY <2>1, <2>4, <2>5, <1>1, <1>2, <1>3, <1>5, MovedKeeps
<1>6. CASE Become(w, Result(r, "error")) /\ UNCHANGED <<fs, temp>>
  <2>1. DiskOK' BY <1>3, <1>6, DiskStays DEF disk
  <2> QED BY <2>1, <1>1, <1>2, <1>3, <1>6, ResultStep DEF Saving, Same
<1> QED BY <1>5, <1>6 DEF Rename

\* edit_save_cmd and edit_save_as_cmd after the unlocking.
LEMMA SettledFits ==
  ASSUME NEW r, WinOK(r), r.pc \in {"settle", "unopened"},
         r.pc = "unopened" => r.cmd = "saveAs" /\ r.res = "ok" /\ r.closing # "sure"
  PROVE  WinOK(Settled(r)) /\ Same(Settled(r), r) /\ Settled(r).pc # "lockUnlink"
<1>0. r \in WindowType BY DEF WinOK
<1>1. CASE r.cmd = "save" /\ r.res = "error"
  <2>1. Settled(r) = [r EXCEPT !.pc = "askName"] BY <1>1 DEF Settled
  <2>2. Settled(r).pc = "askName" BY <2>1, <1>0 DEF WindowType
  <2> QED BY <2>1, <2>2, <1>1, SaveFailed
<1>2. CASE r.res = "ok"
  <2> DEFINE c == [r EXCEPT !.modified = FALSE, !.deleteFile = FALSE]  d == [c EXCEPT !.name = r.target]
  <2>1. Settled(r) = Finish(d, TRUE) BY <1>2 DEF Settled
  <2>2. ~r.locked BY <1>2 DEF WinOK, LockedOK, UnlockingOK
  <2>3. WinOK(c) /\ Same(c, r) BY <2>2, SettleClean
  <2>4. c.pc = r.pc /\ c.locked = r.locked /\ c.target = r.target /\ c.modified = FALSE
    BY <1>0 DEF WindowType
  <2> HIDE DEF c
  <2>5. WinOK(d) /\ Same(d, c) BY <2>2, <2>3, <2>4, SettleName
  <2>6. d.pc = r.pc /\ d.locked = r.locked /\ d.modified = FALSE BY <2>3, <2>4 DEF WinOK, WindowType
  <2>7. Same(d, r) BY <2>3, <2>5 DEF Same
  <2> HIDE DEF d
  <2>8. WinOK(Finish(d, TRUE)) /\ Same(Finish(d, TRUE), d) /\ Finish(d, TRUE).pc # "lockUnlink"
    <3>1. CASE d.closing = "no"
      <4>1. Finish(d, TRUE) = [d EXCEPT !.pc = "idle"] BY <3>1 DEF Finish
      <4>2. Finish(d, TRUE).pc = "idle" BY <4>1, <2>5 DEF WinOK, WindowType
      <4> QED BY <4>1, <4>2, <2>2, <2>5, <2>6, GoOn
    <3>2. CASE d.closing # "no"
      <4>1. Finish(d, TRUE) = Leave(d) BY <3>2 DEF Finish
      <4> QED BY <4>1, <2>2, <2>5, <2>6, LeaveFits
    <3> QED BY <3>1, <3>2
  <2> QED BY <2>1, <2>7, <2>8 DEF Same
<1>3. CASE ~(r.cmd = "save" /\ r.res = "error") /\ r.res # "ok"
  <2> DEFINE ok == r.cmd = "save"
  <2>1. Settled(r) = Finish(r, ok) BY <1>3 DEF Settled
  <2>2. r.pc = "settle" BY <1>3
  <2>3. CASE r.closing = "no"
    <3>1. Finish(r, ok) = [r EXCEPT !.pc = "idle"] BY <2>3 DEF Finish
    <3>2. Finish(r, ok).pc = "idle" BY <3>1, <1>0 DEF WindowType
    <3> QED BY <3>1, <3>2, <2>1, <2>2, GoOn
  <2>4. CASE r.closing # "no" /\ ok
    <3>1. Finish(r, ok) = Leave(r) BY <2>4 DEF Finish
    <3>2. r.res = "abort" BY <1>0, <1>3, <2>4 DEF WindowType
    <3> QED BY <3>1, <3>2, <2>1, <2>2, LeaveFits
  <2>5. CASE r.closing # "no" /\ ~ok
    <3>1. Finish(r, ok) = [r EXCEPT !.pc = "idle", !.closing = "no"] BY <2>5 DEF Finish
    <3>2. Finish(r, ok).pc = "idle" BY <3>1, <1>0 DEF WindowType
    <3> HIDE DEF ok
    <3> QED BY <3>1, <3>2, <2>1, <2>2, GiveUp, ZenonT(60)
  <2> QED BY <2>3, <2>4, <2>5
<1> QED BY <1>1, <1>2, <1>3

\* What follows the save keeps the invariant.
LEMMA SettleStep ==
  ASSUME LInv, NEW w \in Windows, Settle(w)
  PROVE  LInv'
<1> DEFINE r == win[w]
<1>1. r.pc = "settle" /\ r.pc # "dead" BY DEF Settle, At
<1>2. WinOK(r) /\ r \in WindowType /\ w \in world.windows BY <1>1, Acting
<1>3. UNCHANGED <<world, disk, link, alive, now, texts, bold, missed>> BY DEF Settle
<1>4. DiskOK' BY <1>3, DiskStays
<1>5. Become(w, Settled(r)) BY DEF Settle
<1>6. WinOK(Settled(r)) /\ Same(Settled(r), r) /\ Settled(r).pc # "lockUnlink"
  BY <1>1, <1>2, SettledFits
<1> QED BY <1>1, <1>2, <1>3, <1>4, <1>5, <1>6, BecomeKeeps

\* The window that edit_reload makes for the file it has just saved.
LEMMA NewFits ==
  ASSUME NEW n \in Names \union {NoName}
  PROVE  WinOK(NewWindow(n)) /\ NewWindow(n).pc = "unopened"
<1>1. NewWindow(n) \in WindowType
  <2>1. Empty \in Texts /\ Absent \in Files BY TextFacts
  <2>2. <<>> \in NameLists BY SeqNames DEF NameLists
  <2>3. 0 \in Nat /\ 0 \in Times BY DEF Times
  <2> QED BY <2>1, <2>2, <2>3 DEF NewWindow, WindowType, Labels, Modes
<1>2. /\ NewWindow(n).pc = "unopened" /\ NewWindow(n).locked = FALSE /\ NewWindow(n).fd = "none"
      /\ NewWindow(n).closing = "no" /\ NewWindow(n).modified = FALSE
  BY DEF NewWindow
<1> HIDE DEF NewWindow
<1> QED BY <1>1, <1>2
  DEF WinOK, LockedOK, LockingOK, SavingOK, UnlockingOK, ClosingOK, Locking, Saving, Unlocking

\* The file read into a new window, by a command of the old one.
ReadInto(n, t, b, c, m) ==
    [NewWindow(n) EXCEPT !.time = t, !.buf = b, !.base = b, !.cmd = "saveAs", !.target = n,
                         !.closing = c, !.commands = m]

\* The window that edit_reload has read the file into is a new one.
LEMMA ReadAgain ==
  ASSUME NEW n \in Names, NEW t \in Times, NEW b \in Texts, NEW c \in {"no", "asked"}, NEW m \in Nat
  PROVE  /\ WinOK(ReadInto(n, t, b, c, m)) /\ ReadInto(n, t, b, c, m).pc = "unopened"
         /\ ReadInto(n, t, b, c, m).cmd = "saveAs" /\ ReadInto(n, t, b, c, m).res = "ok"
         /\ ReadInto(n, t, b, c, m).closing # "sure" /\ ~ReadInto(n, t, b, c, m).locked
<1> DEFINE o == NewWindow(n)
           k == [o EXCEPT !.time = t, !.buf = b, !.base = b, !.cmd = "saveAs", !.target = n,
                          !.closing = c, !.commands = m]
<1>1. WinOK(o) /\ o \in WindowType /\ o.pc = "unopened" BY NewFits DEF WinOK
<1>2. o.locked = FALSE /\ o.fd = "none" /\ o.res = "ok" /\ o.modified = FALSE BY DEF NewWindow
<1>3. c # "sure" /\ c \in {"no", "asked", "sure"} OBVIOUS
<1> HIDE DEF o
<1>4. k \in WindowType BY <1>1, <1>3, ZenonT(60) DEF WindowType
<1>5. /\ k.pc = o.pc /\ k.locked = o.locked /\ k.fd = o.fd /\ k.res = o.res /\ k.cmd = "saveAs"
      /\ k.closing = c
      /\ k.modified = o.modified
  BY <1>1 DEF WindowType
<1> HIDE DEF k
<1>6. LockedOK(k) /\ LockingOK(k) /\ SavingOK(k) /\ UnlockingOK(k) /\ ClosingOK(k)
  BY <1>1, <1>2, <1>3, <1>5
    DEF LockedOK, LockingOK, SavingOK, UnlockingOK, ClosingOK, Locking, Saving, Unlocking
<1> QED BY <1>1, <1>2, <1>3, <1>4, <1>5, <1>6 DEF WinOK, k, o, ReadInto

\* edit_reload keeps the invariant.
LEMMA ReloadStep ==
  ASSUME LInv, NEW w \in Windows, Reload(w)
  PROVE  LInv'
<1> DEFINE r == win[w]  n == r.target
           Read(t, b) == ReadInto(n, t, b, r.closing, r.commands)
<1>1. r.pc = "settle" /\ r.pc # "dead" BY DEF Reload, At
<1>2. WinOK(r) /\ r \in WindowType /\ w \in world.windows BY <1>1, Acting
<1>3. UNCHANGED <<world, backup, temp, link, alive, texts, bold, missed>> BY DEF Reload
<1>4. n \in Names /\ ~r.locked BY <1>1, <1>2 DEF WinOK, UnlockingOK, Reload
<1>5. fs[n].time \in Times /\ fs[n].text \in Texts BY <1>4 DEF LInv, TInv, DiskOK, Files
<1>6. ASSUME NEW t \in Times, NEW b \in Texts
      PROVE  WinOK(Settled(Read(t, b))) /\ Same(Settled(Read(t, b)), r) /\ Settled(Read(t, b)).pc # "lockUnlink"
  <2> DEFINE k == Read(t, b)
  <2>1. /\ WinOK(k) /\ k.pc = "unopened" /\ k.cmd = "saveAs" /\ k.res = "ok"
        /\ k.closing # "sure" /\ ~k.locked
    <3>1. r.closing \in {"no", "asked"} /\ r.commands \in Nat
      BY <1>1, <1>2 DEF WinOK, UnlockingOK, Unlocking, WindowType
    <3> HIDE DEF r, n
    <3> QED BY <3>1, <1>4, ReadAgain
  <2> HIDE DEF k
  <2>2. WinOK(Settled(k)) /\ Same(Settled(k), k) /\ Settled(k).pc # "lockUnlink"
    BY <2>1, SettledFits
  <2>3. Same(k, r) BY <2>1, <1>1, <1>4 DEF Same, Holds, Saving, Unlocking
  <2> QED BY <2>2, <2>3 DEF Same, k
<1>7. CASE Exists(n)
  <2> DEFINE q == Settled(Read(fs[n].time, fs[n].text))
  <2>1. /\ fs' = IF r.deleteFile THEN [fs EXCEPT ![n] = Absent] ELSE fs
        /\ win' = [(IF r.deleteFile THEN Moved(win, n, "gone") ELSE win) EXCEPT ![w] = q]
        /\ UNCHANGED now
    BY <1>7 DEF Reload, ReadInto
  <2>2. DiskOK' BY <2>1, <1>3, TextFacts DEF LInv, TInv, DiskOK
  <2>3. WinOK(q) /\ Same(q, r) /\ q.pc # "lockUnlink" BY <1>5, <1>6
  <2> HIDE DEF q
  <2>4. CASE r.deleteFile
    <3>1. win' = [Moved(win, n, "gone") EXCEPT ![w] = q] BY <2>1, <2>4
    <3> QED BY <3>1, <2>2, <2>3, <1>1, <1>2, <1>3, MovedKeeps
  <2>5. CASE ~r.deleteFile
    <3>1. Become(w, q) BY <2>1, <2>5 DEF Become
    <3> QED BY <3>1, <2>2, <2>3, <1>1, <1>2, <1>3, BecomeKeeps
  <2> QED BY <2>4, <2>5
<1>8. CASE ~Exists(n)
  <2> DEFINE k == Read(fs[n].time, fs[n].text)  m == Read(Tick, Empty)  q == Settled(m)
  <2>1. /\ fs' = IF r.deleteFile THEN fs ELSE [fs EXCEPT ![n] = Stamped(Empty)]
        /\ now' = Tick
        /\ Become(w, Settled([k EXCEPT !.time = Tick, !.buf = Empty, !.base = Empty]))
    BY <1>8 DEF Reload, ReadInto
  <2>2. DiskOK' BY <2>1, <1>3, Stamps, TextFacts DEF LInv, TInv, DiskOK
  <2>3. [k EXCEPT !.time = Tick, !.buf = Empty, !.base = Empty] = m
    <3> DEFINE o == NewWindow(n)
    <3>1. o \in WindowType BY <1>4, NewFits DEF WinOK
    <3> HIDE DEF o
    <3>2. [[o EXCEPT !.time = fs[n].time, !.buf = fs[n].text, !.base = fs[n].text, !.cmd = "saveAs", !.target = n,
                     !.closing = r.closing, !.commands = r.commands]
           EXCEPT !.time = Tick, !.buf = Empty, !.base = Empty]
          = [o EXCEPT !.time = Tick, !.buf = Empty, !.base = Empty, !.cmd = "saveAs", !.target = n,
                      !.closing = r.closing, !.commands = r.commands]
      BY <3>1 DEF WindowType
    <3> QED BY <3>2 DEF o, ReadInto
  <2>4. Become(w, q) BY <2>1, <2>3
  <2>5. WinOK(q) /\ Same(q, r) /\ q.pc # "lockUnlink" BY <1>6, Stamps, TextFacts
  <2> HIDE DEF q
  <2> QED BY <2>2, <2>4, <2>5, <1>1, <1>2, <1>3, BecomeKeeps
<1> QED BY <1>7, <1>8

\* edit_clean keeps the invariant.
LEMMA CleanStep ==
  ASSUME LInv, NEW w \in Windows, Clean(w)
  PROVE  LInv'
<1> DEFINE r == win[w]  n == r.name  q == [r EXCEPT !.pc = "closed"]
<1>1. r.pc = "clean" /\ r.pc # "dead" BY DEF Clean, At
<1>2. WinOK(r) /\ r \in WindowType /\ w \in world.windows BY <1>1, Acting
<1>3. UNCHANGED <<world, backup, temp, link, alive, now, texts, bold, missed>> BY DEF Clean
<1>4. /\ fs' = IF r.deleteFile THEN [fs EXCEPT ![n] = Absent] ELSE fs
      /\ win' = [(IF r.deleteFile THEN Moved(win, n, "gone") ELSE win) EXCEPT ![w].pc = "closed"]
  BY DEF Clean
<1>5. DiskOK' BY <1>3, <1>4, TextFacts DEF LInv, TInv, DiskOK
<1>6. WinOK(q) /\ Same(q, r) BY <1>1, <1>2, Closed
<1>7. q.pc = "closed" BY <1>2 DEF WindowType
<1>8. CASE r.deleteFile
  <2>1. r.fd = "none" BY <1>1, <1>2 DEF WinOK, SavingOK, WindowType
  <2>2. Moved(win, n, "gone")[w] = r BY <2>1 DEF Moved
  <2>3. win' = [Moved(win, n, "gone") EXCEPT ![w] = q] BY <1>4, <1>8, <2>2
  <2> HIDE DEF q
  <2> QED BY <2>3, <1>1, <1>2, <1>3, <1>5, <1>6, <1>7, MovedKeeps
<1>9. CASE ~r.deleteFile
  <2>1. Become(w, q) BY <1>4, <1>9 DEF Become
  <2> HIDE DEF q
  <2> QED BY <2>1, <1>1, <1>2, <1>3, <1>5, <1>6, <1>7, BecomeKeeps
<1> QED BY <1>8, <1>9

-----------------------------------------------------------------------------
(* The steps of locking and unlocking                                      *)

\* The caller of lock_file has the lock of the name exactly if the call says so.
LEMMA LockedFits ==
  ASSUME NEW w, NEW r, WinOK(r), r.pc \in Locking, NEW ok \in BOOLEAN
  PROVE  /\ WinOK(Locked(w, r, ok)) /\ Locked(w, r, ok).pc # "lockUnlink"
         /\ \A n : Holds(Locked(w, r, ok), n) <=> Holds(r, n) \/ (ok /\ n = r.target)
<1> DEFINE q == Locked(w, r, ok)
<1>0. r \in WindowType BY DEF WinOK
<1>1. CASE r.cmd = "type"
  <2>1. q = [r EXCEPT !.pc = "idle", !.locked = ok, !.modified = TRUE] BY <1>1 DEF Locked
  <2>2. q.pc = "idle" /\ q.locked = ok /\ q.name = r.name BY <2>1, <1>0 DEF WindowType
  <2>3. r.target = r.name /\ ~r.locked BY <1>1 DEF WinOK, LockingOK
  <2>4. WinOK(q) BY <2>1, <1>1, LockTyped
  <2> HIDE DEF q
  <2>5. \A n : Holds(q, n) <=> Holds(r, n) \/ (ok /\ n = r.target)
    BY <2>2, <2>3 DEF Holds, Locking, Saving, Unlocking
  <2> QED BY <2>2, <2>4, <2>5 DEF q
<1>2. CASE r.cmd # "type"
  <2>1. q = [r EXCEPT !.pc = "stat", !.saveLock = ok] BY <1>2 DEF Locked
  <2>2. /\ q.pc = "stat" /\ q.saveLock = ok /\ q.locked = r.locked /\ q.name = r.name
        /\ q.target = r.target
    BY <2>1, <1>0 DEF WindowType
  <2>3. WinOK(q) BY <2>1, <1>2, LockSaves
  <2> HIDE DEF q
  <2>4. \A n : Holds(q, n) <=> Holds(r, n) \/ (ok /\ n = r.target)
    BY <2>2 DEF Holds, Locking, Saving, Unlocking
  <2> QED BY <2>2, <2>3, <2>4 DEF q
<1> QED BY <1>1, <1>2

\* Only a running window holds a lock.
LEMMA HoldersLive ==
  ASSUME LInv, NEW v \in Windows, NEW n, Holds(win[v], n)
  PROVE  world.pid[v] \in alive /\ world.pid[v] \in Pids
<1>1. WinOK(win[v]) BY DEF LInv, TInv
<1>2. win[v].pc # "dead" BY <1>1 DEF WinOK, LockedOK, Holds, Saving, Unlocking
<1> QED BY <1>2 DEF LInv, Living, TInv, DiskOK

\* No process is called as the two other things a lock link can be.
LEMMA LinkFacts ==
  ASSUME LInv
  PROVE  /\ \A n \in Names : link[n] \in Pids \union {Free, Stale}
         /\ Free \notin Pids /\ Stale \notin Pids /\ Free # Stale /\ alive \subseteq Pids
         /\ \A w \in Windows : world.pid[w] \in Pids
<1>1. \A w \in Windows : world.pid[w] \in Pids BY WorldFacts DEF WorldType
<1> QED BY <1>1 DEF LInv, TInv, DiskOK, Pids, Free, Stale

\* The part of the invariant that does not depend on who holds what.
LEMMA ActKeeps ==
  ASSUME LInv, DiskOK', NEW w \in Windows, w \in world.windows, win[w].pc # "dead",
         NEW q, WinOK(q), Become(w, q), world' = world, alive' = alive,
         \A n \in Names : link'[n] = Stale => link[n] = Stale,
         Careful(world) => Held' /\ Single' /\ Known' /\ Orphaned'
  PROVE  LInv'
<1>1. win = [v \in Windows |-> win[v]] /\ \A v \in Windows : WinOK(win[v]) BY DEF LInv, TInv
<1>2. win' = [v \in Windows |-> win'[v]] /\ win'[w] = q /\ \A v \in Windows \ {w} : win'[v] = win[v]
  BY <1>1 DEF Become
<1>3. \A v \in Windows : WinOK(win'[v])
  <2> TAKE v \in Windows
  <2>1. CASE v = w BY <2>1, <1>2
  <2>2. CASE v # w BY <2>2, <1>1, <1>2
  <2> QED BY <2>1, <2>2
<1>4. TInv'
  BY <1>2, <1>3 DEF TInv, WinOK, LockedOK, LockingOK, SavingOK, UnlockingOK, ClosingOK, Pending
<1>5. Living' BY <1>2 DEF LInv, Living
<1>6. Careful(world)' => Careful(world) BY DEF Careful
<1> QED BY <1>4, <1>5, <1>6 DEF LInv

\* Who holds what after a step, spelled out.
LEMMA Afterwards ==
  /\ Held' <=> \A v \in Windows, n \in Names :
                   Holds(win'[v], n) => link'[n] = world'.pid[v] \/ n \in bold'
  /\ Single' <=> \A u, v \in Windows, n \in Names :
                   u # v /\ Holds(win'[u], n) /\ Holds(win'[v], n) => n \in bold'
  /\ Known' <=> \A n \in Names : link'[n] \in alive' =>
                   \E v \in Windows : world'.pid[v] = link'[n] /\ Holds(win'[v], n)
  /\ Orphaned' <=> \A v \in Windows : win'[v].pc = "lockUnlink" /\ win'[v].target \notin bold' =>
                   link'[win'[v].target] \notin alive' \union {Free}
<1>1. Held' <=> \A v \in Windows, n \in Names :
                   Holds(win'[v], n) => link'[n] = world'.pid[v] \/ n \in bold'
  BY DEF Held, Holds, Pending
<1>2. Single' <=> \A u, v \in Windows, n \in Names :
                   u # v /\ Holds(win'[u], n) /\ Holds(win'[v], n) => n \in bold'
  BY DEF Single, Holds, Pending
<1>3. Known' <=> \A n \in Names : link'[n] \in alive' =>
                   \E v \in Windows : world'.pid[v] = link'[n] /\ Holds(win'[v], n)
  BY DEF Known, Holds, Pending
<1>4. Orphaned' <=> \A v \in Windows : win'[v].pc = "lockUnlink" /\ win'[v].target \notin bold' =>
                   link'[win'[v].target] \notin alive' \union {Free}
  BY DEF Orphaned
<1> QED BY <1>1, <1>2, <1>3, <1>4

\* A step of w that holds what it held, after a question or a look at the link: if it goes
\* on to unlink, the user asked for it or nobody who runs owns the link.
LEMMA LookKeeps ==
  ASSUME LInv, DiskOK', NEW w \in Windows, w \in world.windows, win[w].pc # "dead",
         NEW q, WinOK(q), Same(q, win[w]), Become(w, q),
         world' = world, alive' = alive, link' = link, bold \subseteq bold',
         q.pc = "lockUnlink" => q.target \in bold' \/ link[q.target] \notin alive \union {Free}
  PROVE  LInv'
<1>1. win'[w] = q /\ \A v \in Windows \ {w} : win'[v] = win[v]
  BY DEF LInv, TInv, Become
<1>2. \A v \in Windows, n \in Names : Holds(win'[v], n) <=> Holds(win[v], n)
  <2> TAKE v \in Windows, n \in Names
  <2>1. CASE v = w BY <2>1, <1>1 DEF Same
  <2>2. CASE v # w BY <2>2, <1>1
  <2> QED BY <2>1, <2>2
<1>3. ASSUME Careful(world) PROVE Held' /\ Single' /\ Known' /\ Orphaned'
  <2>1. Held /\ Single /\ Known /\ Orphaned BY <1>3 DEF LInv
  <2>2. Held' BY <2>1, <1>2, Afterwards DEF Held
  <2>3. Single' BY <2>1, <1>2, Afterwards DEF Single
  <2>4. Known' BY <2>1, <1>2, Afterwards DEF Known
  <2>5. \A v \in Windows : win'[v].pc = "lockUnlink" /\ win'[v].target \notin bold' =>
                   link'[win'[v].target] \notin alive' \union {Free}
    <3> TAKE v \in Windows
    <3>1. CASE v = w BY <3>1, <1>1
    <3>2. CASE v # w BY <3>2, <2>1, <1>1 DEF Orphaned
    <3> QED BY <3>1, <3>2
  <2> QED BY <2>2, <2>3, <2>4, <2>5, Afterwards
<1> QED BY <1>3, ActKeeps

\* Reading the lock link keeps the invariant.
LEMMA LockReadStep ==
  ASSUME LInv, NEW w \in Windows, LockRead(w)
  PROVE  LInv'
<1> DEFINE r == win[w]  owner == link[r.target]
<1>1. r.pc = "lockRead" /\ r.pc # "dead" /\ r.pc \in Locking BY DEF LockRead, At, Locking
<1>2. WinOK(r) /\ r \in WindowType /\ w \in world.windows BY <1>1, Acting
<1>3. UNCHANGED <<world, disk, link, alive, now, texts, bold>> BY DEF LockRead
<1>4. r.target \in Names BY <1>1, <1>2 DEF WinOK, LockingOK
<1>5. DiskOK'
  <2>1. missed' \subseteq Names BY <1>4 DEF LockRead, LInv, TInv, DiskOK
  <2> QED BY <2>1, <1>3 DEF LInv, TInv, DiskOK, disk
<1>6. CASE owner = Free
  <2>1. Become(w, Locked(w, r, FALSE)) BY <1>6, LinkFacts DEF LockRead
  <2>2. /\ WinOK(Locked(w, r, FALSE)) /\ Locked(w, r, FALSE).pc # "lockUnlink"
        /\ Same(Locked(w, r, FALSE), r)
    BY <1>1, <1>2, LockedFits DEF Same
  <2> QED BY <2>1, <2>2, <1>1, <1>2, <1>3, <1>5, BecomeKeeps
<1>7. CASE owner # Free /\ owner \in alive
  <2> DEFINE q == [r EXCEPT !.pc = "lockAsk"]
  <2>1. Become(w, q) BY <1>7 DEF LockRead
  <2>2. WinOK(q) /\ Same(q, r) BY <1>1, <1>2, LockMoves DEF Locking
  <2>3. q.pc = "lockAsk" BY <1>2 DEF WindowType
  <2> HIDE DEF q
  <2> QED BY <2>1, <2>2, <2>3, <1>1, <1>2, <1>3, <1>5, BecomeKeeps
<1>8. CASE owner # Free /\ owner \notin alive
  <2> DEFINE q == [r EXCEPT !.pc = "lockUnlink"]
  <2>1. Become(w, q) BY <1>8 DEF LockRead
  <2>2. WinOK(q) /\ Same(q, r) BY <1>1, <1>2, LockMoves DEF Locking
  <2>3. q.target = r.target BY <1>2 DEF WindowType
  <2> HIDE DEF q
  <2> QED BY <2>1, <2>2, <2>3, <1>1, <1>2, <1>3, <1>5, <1>8, LookKeeps
<1> QED BY <1>6, <1>7, <1>8

\* "File is already being edited" keeps the invariant.
LEMMA LockAskStep ==
  ASSUME LInv, NEW w \in Windows, LockAsk(w)
  PROVE  LInv'
<1> DEFINE r == win[w]
<1>1. r.pc = "lockAsk" /\ r.pc # "dead" /\ r.pc \in Locking BY DEF LockAsk, At, Locking
<1>2. WinOK(r) /\ r \in WindowType /\ w \in world.windows BY <1>1, Acting
<1>3. /\ UNCHANGED <<world, disk, link, alive, now, texts, missed>>
      /\ bold' = bold \union {r.target}
  BY DEF LockAsk
<1>4. r.target \in Names BY <1>1, <1>2 DEF WinOK, LockingOK
<1>5. DiskOK' BY <1>3, <1>4 DEF LInv, TInv, DiskOK, disk
<1>6. CASE Become(w, Locked(w, r, FALSE))
  <2>1. /\ WinOK(Locked(w, r, FALSE)) /\ Locked(w, r, FALSE).pc # "lockUnlink"
        /\ Same(Locked(w, r, FALSE), r)
    BY <1>1, <1>2, LockedFits DEF Same
  <2> QED BY <2>1, <1>1, <1>2, <1>3, <1>5, <1>6, LookKeeps
<1>7. CASE Goto(w, "lockUnlink")
  <2> DEFINE q == [r EXCEPT !.pc = "lockUnlink"]
  <2>1. Become(w, q) BY <1>7, GotoIsBecome
  <2>2. WinOK(q) /\ Same(q, r) BY <1>1, <1>2, LockMoves DEF Locking
  <2>3. q.target = r.target BY <1>2 DEF WindowType
  <2> HIDE DEF q
  <2> QED BY <2>1, <2>2, <2>3, <1>1, <1>2, <1>3, <1>5, LookKeeps
<1> QED BY <1>6, <1>7 DEF LockAsk

\* Two windows do not both remove the link of a process that is gone: both processes run,
\* so the link was there from the start, and then all windows belong to one process.
LEMMA OneRemoves ==
  ASSUME LInv, Careful(world), NEW v \in Windows, NEW w \in Windows, v # w, Turn(w),
         win[v].pc = "lockUnlink", win[w].pc = "lockUnlink", win[v].target = win[w].target
  PROVE  win[w].target \in bold
<1> DEFINE n == win[w].target
<1>1. /\ v \in world.windows /\ world.pid[v] \in alive /\ WinOK(win[w])
      /\ w \in world.windows /\ world.pid[w] \in alive
  BY Acting
<1>2. n \in Names BY <1>1 DEF WinOK, LockingOK, Locking
<1>3. world.pid[v] # world.pid[w] BY DEF Turn, Resting
<1>4. alive = Pids BY <1>1, <1>3, LinkFacts DEF Pids
<1>5. SUFFICES ASSUME n \notin bold PROVE FALSE OBVIOUS
<1>6. link[n] \notin alive \union {Free} BY <1>5 DEF LInv, Orphaned
<1>7. link[n] = Stale BY <1>2, <1>4, <1>6, LinkFacts
<1>8. n \in world.stale BY <1>2, <1>7 DEF LInv, Living
<1> QED BY <1>1, <1>3, <1>8 DEF Careful

\* Removing the link of a process that is gone, or a grabbed one, keeps the invariant.
LEMMA LockUnlinkStep ==
  ASSUME LInv, NEW w \in Windows, Turn(w), LockUnlink(w)
  PROVE  LInv'
<1> DEFINE r == win[w]  n == r.target  q == [r EXCEPT !.pc = "lockLink"]
<1>1. r.pc = "lockUnlink" /\ r.pc # "dead" BY DEF LockUnlink, At
<1>2. WinOK(r) /\ r \in WindowType /\ w \in world.windows BY <1>1, Acting
<1>3. /\ UNCHANGED <<world, disk, alive, now, texts, bold, missed>>
      /\ link' = [link EXCEPT ![n] = Free]
  BY DEF LockUnlink
<1>4. n \in Names BY <1>1, <1>2 DEF WinOK, LockingOK, Locking
<1>5. DiskOK' BY <1>3, <1>4 DEF LInv, TInv, DiskOK, disk
<1>6. Become(w, q) /\ q.pc = "lockLink" BY GotoIsBecome DEF LockUnlink
<1>7. WinOK(q) /\ Same(q, r) BY <1>1, <1>2, LockMoves DEF Locking
<1>8. link'[n] = Free /\ \A m \in Names \ {n} : link'[m] = link[m]
  BY <1>3, <1>4 DEF LInv, TInv, DiskOK
<1> HIDE DEF q
<1>9. win'[w] = q /\ \A v \in Windows \ {w} : win'[v] = win[v]
  BY <1>6 DEF LInv, TInv, Become
<1>10. \A v \in Windows, m \in Names : Holds(win'[v], m) <=> Holds(win[v], m)
  <2> TAKE v \in Windows, m \in Names
  <2>1. CASE v = w BY <2>1, <1>7, <1>9 DEF Same
  <2>2. CASE v # w BY <2>2, <1>9
  <2> QED BY <2>1, <2>2
<1>11. ASSUME Careful(world) PROVE Held' /\ Single' /\ Known' /\ Orphaned'
  <2>1. Held /\ Single /\ Known /\ Orphaned BY <1>11 DEF LInv
  <2>2. Held'
    <3>1. ASSUME NEW v \in Windows, Holds(win[v], n), n \notin bold PROVE FALSE
      <4>1. link[n] = world.pid[v] BY <3>1, <1>4, <2>1 DEF Held
      <4>2. link[n] \notin alive BY <3>1, <1>1, <2>1 DEF Orphaned
      <4> QED BY <4>1, <4>2, <3>1, HoldersLive
    <3>2. ASSUME NEW v \in Windows, NEW m \in Names, Holds(win'[v], m)
          PROVE  link'[m] = world'.pid[v] \/ m \in bold'
      <4>1. Holds(win[v], m) BY <3>2, <1>10
      <4>2. CASE m = n BY <4>1, <4>2, <3>1, <1>3
      <4>3. CASE m # n BY <4>1, <4>3, <2>1, <1>3, <1>8 DEF Held
      <4> QED BY <4>2, <4>3
    <3> QED BY <3>2, Afterwards
  <2>3. Single' BY <2>1, <1>3, <1>10, Afterwards DEF Single
  <2>4. Known'
    <3>1. \A m \in Names : link'[m] \in alive' =>
             \E v \in Windows : world'.pid[v] = link'[m] /\ Holds(win'[v], m)
      BY <2>1, <1>3, <1>8, <1>10, LinkFacts DEF Known
    <3> QED BY <3>1, Afterwards
  <2>5. Orphaned'
    <3>1. ASSUME NEW v \in Windows, win'[v].pc = "lockUnlink", win'[v].target \notin bold'
          PROVE  link'[win'[v].target] \notin alive' \union {Free}
      <4>1. v # w BY <3>1, <1>6, <1>9
      <4>2. win'[v] = win[v] BY <4>1, <1>9
      <4>3. win[v].target # n BY <3>1, <4>1, <4>2, <1>1, <1>3, <1>11, OneRemoves
      <4>4. win[v].target \in Names BY <3>1, <4>2 DEF LInv, TInv, WinOK, LockingOK, Locking
      <4> QED BY <3>1, <4>2, <4>3, <4>4, <2>1, <1>3, <1>8 DEF Orphaned
    <3> QED BY <3>1, Afterwards
  <2> QED BY <2>2, <2>3, <2>4, <2>5
<1>12. \A m \in Names : link'[m] = Stale => link[m] = Stale BY <1>8, LinkFacts
<1> QED BY <1>1, <1>2, <1>3, <1>5, <1>6, <1>7, <1>11, <1>12, ActKeeps

\* Making the lock link keeps the invariant.
LEMMA LockLinkStep ==
  ASSUME LInv, NEW w \in Windows, LockLink(w)
  PROVE  LInv'
<1> DEFINE r == win[w]  n == r.target  ok == link[n] = Free  q == Locked(w, r, ok)
<1>1. r.pc = "lockLink" /\ r.pc # "dead" /\ r.pc \in Locking BY DEF LockLink, At, Locking
<1>2. WinOK(r) /\ r \in WindowType /\ w \in world.windows BY <1>1, Acting
<1>3. /\ UNCHANGED <<world, disk, alive, now, texts, bold>>
      /\ link' = IF ok THEN [link EXCEPT ![n] = world.pid[w]] ELSE link
      /\ missed' = IF ok THEN missed ELSE missed \union {n}
  BY DEF LockLink
<1>4. n \in Names BY <1>1, <1>2 DEF WinOK, LockingOK
<1>5. DiskOK' BY <1>3, <1>4, LinkFacts DEF LInv, TInv, DiskOK, disk
<1>6. Become(w, q) BY DEF LockLink
<1>7. /\ WinOK(q) /\ q.pc # "lockUnlink"
      /\ \A m : Holds(q, m) <=> Holds(r, m) \/ (ok /\ m = n)
  <2>1. ok \in BOOLEAN OBVIOUS
  <2> HIDE DEF ok
  <2> QED BY <2>1, <1>1, <1>2, LockedFits
<1>8. /\ ok => link'[n] = world.pid[w]
      /\ \A m \in Names : m # n \/ ~ok => link'[m] = link[m]
  BY <1>3, <1>4 DEF LInv, TInv, DiskOK
<1> HIDE DEF q
<1>9. win'[w] = q /\ \A v \in Windows \ {w} : win'[v] = win[v]
  BY <1>6 DEF LInv, TInv, Become
<1>10. \A v \in Windows, m \in Names : Holds(win'[v], m) <=> Holds(win[v], m) \/ (v = w /\ ok /\ m = n)
  <2> TAKE v \in Windows, m \in Names
  <2>1. CASE v = w BY <2>1, <1>7, <1>9
  <2>2. CASE v # w BY <2>2, <1>9
  <2> QED BY <2>1, <2>2
<1>11. ASSUME Careful(world) PROVE Held' /\ Single' /\ Known' /\ Orphaned'
  <2>1. Held /\ Single /\ Known /\ Orphaned BY <1>11 DEF LInv
  <2>2. ASSUME ok, NEW v \in Windows, Holds(win[v], n) PROVE n \in bold
    <3>1. world.pid[v] # Free BY LinkFacts
    <3> QED BY <3>1, <2>1, <2>2, <1>4 DEF Held
  <2>3. Held'
    <3>1. ASSUME NEW v \in Windows, NEW m \in Names, Holds(win'[v], m)
          PROVE  link'[m] = world'.pid[v] \/ m \in bold'
      <4>1. CASE m = n /\ ok BY <4>1, <3>1, <2>2, <1>3, <1>8, <1>10
      <4>2. CASE m # n \/ ~ok BY <4>2, <3>1, <2>1, <1>3, <1>8, <1>10 DEF Held
      <4> QED BY <4>1, <4>2
    <3> QED BY <3>1, Afterwards
  <2>4. Single'
    <3>1. ASSUME NEW u \in Windows, NEW v \in Windows, NEW m \in Names,
                 u # v, Holds(win'[u], m), Holds(win'[v], m)
          PROVE  m \in bold'
      <4>1. CASE Holds(win[u], m) /\ Holds(win[v], m) BY <4>1, <3>1, <2>1, <1>3 DEF Single
      <4>2. CASE ~(Holds(win[u], m) /\ Holds(win[v], m)) BY <4>2, <3>1, <2>2, <1>3, <1>10
      <4> QED BY <4>1, <4>2
    <3> QED BY <3>1, Afterwards
  <2>5. Known'
    <3>1. ASSUME NEW m \in Names, link'[m] \in alive'
          PROVE  \E v \in Windows : world'.pid[v] = link'[m] /\ Holds(win'[v], m)
      <4>1. CASE m = n /\ ok BY <4>1, <1>3, <1>8, <1>10
      <4>2. CASE m # n \/ ~ok BY <4>2, <3>1, <2>1, <1>3, <1>8, <1>10 DEF Known
      <4> QED BY <4>1, <4>2
    <3> QED BY <3>1, Afterwards
  <2>6. Orphaned'
    <3>1. ASSUME NEW v \in Windows, win'[v].pc = "lockUnlink", win'[v].target \notin bold'
          PROVE  link'[win'[v].target] \notin alive' \union {Free}
      <4>1. v # w BY <3>1, <1>7, <1>9
      <4>2. win'[v] = win[v] BY <4>1, <1>9
      <4>3. link[win[v].target] \notin alive \union {Free} BY <3>1, <4>2, <2>1, <1>3 DEF Orphaned
      <4>4. win[v].target \in Names BY <3>1, <4>2 DEF LInv, TInv, WinOK, LockingOK, Locking
      <4> QED BY <4>2, <4>3, <4>4, <1>3, <1>8
    <3> QED BY <3>1, Afterwards
  <2> QED BY <2>3, <2>4, <2>5, <2>6
<1>12. \A m \in Names : link'[m] = Stale => link[m] = Stale BY <1>8, LinkFacts
<1> QED BY <1>1, <1>2, <1>3, <1>5, <1>6, <1>7, <1>11, <1>12, ActKeeps

\* A window that has lowered one of its locks, and found that it had lost it.
LEMMA LostKeeps ==
  ASSUME LInv, DiskOK', NEW w \in Windows, win[w].pc \in Unlocking,
         Become(w, Unlocked(win[w])), link[Head(win[w].todo)] # world.pid[w],
         world' = world, alive' = alive, link' = link, bold' = bold
  PROVE  LInv'
<1> DEFINE r == win[w]  n == Head(r.todo)  q == Unlocked(r)
<1>1. r.pc # "dead" /\ r.pc # "unopened" BY DEF Unlocking
<1>2. WinOK(r) /\ w \in world.windows BY <1>1, Acting
<1>3. /\ WinOK(q) /\ q.pc # "lockUnlink"
      /\ \A m : Holds(q, m) <=> Holds(r, m) /\ m # n
  BY <1>2, UnlockedFits
<1> HIDE DEF q
<1>4. win'[w] = q /\ \A v \in Windows \ {w} : win'[v] = win[v]
  BY DEF LInv, TInv, Become, q
<1>5. \A v \in Windows, m \in Names : Holds(win'[v], m) <=> Holds(win[v], m) /\ ~(v = w /\ m = n)
  <2> TAKE v \in Windows, m \in Names
  <2>1. CASE v = w BY <2>1, <1>3, <1>4
  <2>2. CASE v # w BY <2>2, <1>4
  <2> QED BY <2>1, <2>2
<1>6. ASSUME Careful(world) PROVE Held' /\ Single' /\ Known' /\ Orphaned'
  <2>1. Held /\ Single /\ Known /\ Orphaned BY <1>6 DEF LInv
  <2>2. Held' BY <2>1, <1>5, Afterwards DEF Held
  <2>3. Single' BY <2>1, <1>5, Afterwards DEF Single
  <2>4. Known' BY <2>1, <1>5, Afterwards DEF Known
  <2>5. \A v \in Windows : win'[v].pc = "lockUnlink" /\ win'[v].target \notin bold' =>
                   link'[win'[v].target] \notin alive' \union {Free}
    BY <2>1, <1>3, <1>4 DEF Orphaned
  <2> QED BY <2>2, <2>3, <2>4, <2>5, Afterwards
<1> QED BY <1>1, <1>2, <1>3, <1>6, ActKeeps DEF q

\* The lstat of unlock_file keeps the invariant.
LEMMA UnlockStatStep ==
  ASSUME LInv, NEW w \in Windows, UnlockStat(w)
  PROVE  LInv'
<1> DEFINE r == win[w]  n == Head(r.todo)
<1>1. r.pc = "unlock" /\ r.pc # "dead" /\ r.pc \in Unlocking BY DEF UnlockStat, At, Unlocking
<1>2. WinOK(r) /\ r \in WindowType /\ w \in world.windows BY <1>1, Acting
<1>3. UNCHANGED <<world, disk, link, alive, now, texts, bold, missed>> BY DEF UnlockStat
<1>4. DiskOK' BY <1>3, DiskStays
<1>5. CASE link[n] = Free
  <2>1. Become(w, Unlocked(r)) BY <1>5 DEF UnlockStat
  <2>2. link[n] # world.pid[w] BY <1>5, LinkFacts
  <2> QED BY <2>1, <2>2, <1>1, <1>3, <1>4, LostKeeps
<1>6. CASE link[n] # Free
  <2> DEFINE q == [r EXCEPT !.pc = "unlockRead"]
  <2>1. Become(w, q) BY <1>6 DEF UnlockStat
  <2>2. WinOK(q) /\ Same(q, r) BY <1>1, <1>2, UnlockMoves DEF Unlocking
  <2>3. q.pc = "unlockRead" BY <1>2 DEF WindowType
  <2> HIDE DEF q
  <2> QED BY <2>1, <2>2, <2>3, <1>1, <1>2, <1>3, <1>4, BecomeKeeps
<1> QED BY <1>5, <1>6

\* Reading the link that is to be lowered keeps the invariant.
LEMMA UnlockReadStep ==
  ASSUME LInv, NEW w \in Windows, UnlockRead(w)
  PROVE  LInv'
<1> DEFINE r == win[w]  n == Head(r.todo)
<1>1. r.pc = "unlockRead" /\ r.pc # "dead" /\ r.pc \in Unlocking BY DEF UnlockRead, At, Unlocking
<1>2. WinOK(r) /\ r \in WindowType /\ w \in world.windows BY <1>1, Acting
<1>3. UNCHANGED <<world, disk, link, alive, now, texts, bold, missed>> BY DEF UnlockRead
<1>4. DiskOK' BY <1>3, DiskStays
<1>5. CASE link[n] \notin {Free, world.pid[w]}
  <2>1. Become(w, Unlocked(r)) BY <1>5 DEF UnlockRead
  <2> QED BY <2>1, <1>1, <1>3, <1>4, <1>5, LostKeeps
<1>6. CASE link[n] \in {Free, world.pid[w]}
  <2> DEFINE q == [r EXCEPT !.pc = "unlockUnlink"]
  <2>1. Become(w, q) BY <1>6 DEF UnlockRead
  <2>2. WinOK(q) /\ Same(q, r) BY <1>1, <1>2, UnlockMoves DEF Unlocking
  <2>3. q.pc = "unlockUnlink" BY <1>2 DEF WindowType
  <2> HIDE DEF q
  <2> QED BY <2>1, <2>2, <2>3, <1>1, <1>2, <1>3, <1>4, BecomeKeeps
<1> QED BY <1>5, <1>6

\* Removing the own link keeps the invariant.
LEMMA UnlockUnlinkStep ==
  ASSUME LInv, NEW w \in Windows, UnlockUnlink(w)
  PROVE  LInv'
<1> DEFINE r == win[w]  n == Head(r.todo)  q == Unlocked(r)
<1>1. r.pc = "unlockUnlink" /\ r.pc # "dead" /\ r.pc \in Unlocking
  BY DEF UnlockUnlink, At, Unlocking
<1>2. WinOK(r) /\ w \in world.windows /\ world.pid[w] \in alive BY <1>1, Acting
<1>3. /\ UNCHANGED <<world, disk, alive, now, texts, bold, missed>>
      /\ link' = [link EXCEPT ![n] = Free] /\ Become(w, q)
  BY DEF UnlockUnlink
<1>4. /\ WinOK(q) /\ q.pc # "lockUnlink" /\ n \in Names /\ Holds(r, n)
      /\ \A m : Holds(q, m) <=> Holds(r, m) /\ m # n
  BY <1>1, <1>2, UnlockedFits
<1> HIDE DEF q
<1>5. DiskOK' BY <1>3, <1>4 DEF LInv, TInv, DiskOK, disk
<1>6. link'[n] = Free /\ \A m \in Names \ {n} : link'[m] = link[m]
  BY <1>3, <1>4 DEF LInv, TInv, DiskOK
<1>7. win'[w] = q /\ \A v \in Windows \ {w} : win'[v] = win[v]
  BY <1>3 DEF LInv, TInv, Become
<1>8. \A v \in Windows, m \in Names : Holds(win'[v], m) <=> Holds(win[v], m) /\ ~(v = w /\ m = n)
  <2> TAKE v \in Windows, m \in Names
  <2>1. CASE v = w BY <2>1, <1>4, <1>7
  <2>2. CASE v # w BY <2>2, <1>7
  <2> QED BY <2>1, <2>2
<1>9. ASSUME Careful(world) PROVE Held' /\ Single' /\ Known' /\ Orphaned'
  <2>1. Held /\ Single /\ Known /\ Orphaned BY <1>9 DEF LInv
  <2>2. Held'
    <3>1. ASSUME NEW v \in Windows, NEW m \in Names, Holds(win'[v], m)
          PROVE  link'[m] = world'.pid[v] \/ m \in bold'
      <4>1. Holds(win[v], m) /\ ~(v = w /\ m = n) BY <3>1, <1>8
      <4>2. CASE m = n BY <4>1, <4>2, <2>1, <1>3, <1>4 DEF Single
      <4>3. CASE m # n BY <4>1, <4>3, <2>1, <1>3, <1>6 DEF Held
      <4> QED BY <4>2, <4>3
    <3> QED BY <3>1, Afterwards
  <2>3. Single' BY <2>1, <1>3, <1>8, Afterwards DEF Single
  <2>4. Known'
    <3>1. \A m \in Names : link'[m] \in alive' =>
             \E v \in Windows : world'.pid[v] = link'[m] /\ Holds(win'[v], m)
      BY <2>1, <1>3, <1>6, <1>8, LinkFacts DEF Known
    <3> QED BY <3>1, Afterwards
  <2>5. Orphaned'
    <3>1. ASSUME NEW v \in Windows, win'[v].pc = "lockUnlink", win'[v].target \notin bold'
          PROVE  link'[win'[v].target] \notin alive' \union {Free}
      <4>1. v # w BY <3>1, <1>4, <1>7
      <4>2. win'[v] = win[v] BY <4>1, <1>7
      <4>3. link[win[v].target] \notin alive \union {Free} BY <3>1, <4>2, <2>1, <1>3 DEF Orphaned
      <4>4. win[v].target \in Names BY <3>1, <4>2 DEF LInv, TInv, WinOK, LockingOK, Locking
      <4>5. win[v].target # n BY <3>1, <4>2, <4>3, <2>1, <1>2, <1>3, <1>4 DEF Held
      <4> QED BY <4>2, <4>3, <4>4, <4>5, <1>3, <1>6
    <3> QED BY <3>1, Afterwards
  <2> QED BY <2>2, <2>3, <2>4, <2>5
<1>10. \A m \in Names : link'[m] = Stale => link[m] = Stale BY <1>6, LinkFacts
<1> QED BY <1>1, <1>2, <1>3, <1>4, <1>5, <1>9, <1>10, ActKeeps

\* A process dies: its windows hold nothing any more, its links are those of nobody.
LEMMA CrashStep ==
  ASSUME LInv, NEW p \in Pids, Crash(p)
  PROVE  LInv'
<1> DEFINE o == NewWindow(NoName)  d == [o EXCEPT !.pc = "dead"]
<1>1. /\ UNCHANGED <<world, disk, link, now, texts, bold, missed>> /\ alive' = alive \ {p}
      /\ win' = [w \in Windows |-> IF world.pid[w] = p THEN d ELSE win[w]]
  BY DEF Crash
<1>2. DiskOK' BY <1>1 DEF LInv, TInv, DiskOK, disk
<1>3. WinOK(o) /\ o.locked = FALSE /\ o.fd = "none" /\ o.closing = "no"
  BY NewFits DEF NewWindow
<1> HIDE DEF o
<1>4. /\ d \in WindowType /\ d.pc = "dead" /\ d.locked = FALSE /\ d.fd = "none" /\ d.closing = "no"
  <2>1. o \in WindowType BY <1>3 DEF WinOK
  <2>2. d \in WindowType BY <2>1, ZenonT(60) DEF WindowType, Labels
  <2> QED BY <2>1, <2>2, <1>3 DEF WindowType
<1> HIDE DEF d
<1>5. WinOK(d) /\ \A n : ~Holds(d, n)
  BY <1>4 DEF WinOK, LockedOK, LockingOK, SavingOK, UnlockingOK, ClosingOK, Locking, Saving,
     Unlocking, Holds
<1>6. \A v \in Windows : win'[v] = IF world.pid[v] = p THEN d ELSE win[v] BY <1>1
<1>7. \A v \in Windows : WinOK(win'[v])
  <2> TAKE v \in Windows
  <2>1. CASE world.pid[v] = p BY <2>1, <1>5, <1>6
  <2>2. CASE world.pid[v] # p BY <2>2, <1>6 DEF LInv, TInv
  <2> QED BY <2>1, <2>2
<1>8. TInv'
  BY <1>1, <1>2, <1>7
    DEF TInv, WinOK, LockedOK, LockingOK, SavingOK, UnlockingOK, ClosingOK, Pending
<1>9. Living' BY <1>1, <1>4, <1>6 DEF LInv, Living
<1>10. \A v \in Windows, n \in Names : Holds(win'[v], n) <=> Holds(win[v], n) /\ world.pid[v] # p
  <2> TAKE v \in Windows, n \in Names
  <2>1. CASE world.pid[v] = p BY <2>1, <1>5, <1>6
  <2>2. CASE world.pid[v] # p BY <2>2, <1>6
  <2> QED BY <2>1, <2>2
<1>11. ASSUME Careful(world) PROVE Held' /\ Single' /\ Known' /\ Orphaned'
  <2>1. Held /\ Single /\ Known /\ Orphaned BY <1>11 DEF LInv
  <2>2. Held' BY <2>1, <1>1, <1>10, Afterwards DEF Held
  <2>3. Single' BY <2>1, <1>1, <1>10, Afterwards DEF Single
  <2>4. Known'
    <3>1. ASSUME NEW n \in Names, link'[n] \in alive'
          PROVE  \E v \in Windows : world'.pid[v] = link'[n] /\ Holds(win'[v], n)
      BY <3>1, <2>1, <1>1, <1>10 DEF Known
    <3> QED BY <3>1, Afterwards
  <2>5. \A v \in Windows : win'[v].pc = "lockUnlink" /\ win'[v].target \notin bold' =>
                   link'[win'[v].target] \notin alive' \union {Free}
    BY <2>1, <1>1, <1>4, <1>6 DEF Orphaned
  <2> QED BY <2>2, <2>3, <2>4, <2>5, Afterwards
<1>12. Careful(world)' => Careful(world) BY <1>1 DEF Careful
<1> QED BY <1>8, <1>9, <1>11, <1>12 DEF LInv

-----------------------------------------------------------------------------
(* The invariant, and what follows from it                                 *)

\* At the start no window is open and nobody who runs has a lock.
LEMMA InitHolds ==
  ASSUME Init
  PROVE  LInv
<1>1. world \in WorldType BY WorldsAssumption DEF Init
<1>2. /\ world.opens \in [Windows -> Names \union {NoName}] /\ world.pid \in [Windows -> Pids]
  BY <1>1 DEF WorldType
<1>3. DiskOK
  <2>1. fs \in [Names -> Files]
    <3>1. ASSUME NEW n \in Names PROVE fs[n] \in Files
      <4>1. [text |-> 1, time |-> 1, linked |-> n \in world.linked] \in Files
        <5>1. 1 \in Texts BY EditSaveAssumption DEF Texts, Written
        <5>2. (n \in world.linked) \in BOOLEAN OBVIOUS
        <5> QED BY <5>1, <5>2, Zenon DEF Files, Times
      <4> QED BY <3>1, <4>1, TextFacts DEF Init
    <3> QED BY <3>1 DEF Init
  <2>2. backup \in [Names -> Files] /\ temp \in [Windows -> Files] BY TextFacts DEF Init
  <2>3. link \in [Names -> Pids \union {Free, Stale}] BY DEF Init
  <2> QED BY <2>1, <2>2, <2>3 DEF Init, DiskOK, Times
<1>4. ASSUME NEW w \in Windows
      PROVE  WinOK(win[w]) /\ win[w].pc = "unopened"
  <2>1. win[w] = NewWindow(world.opens[w]) BY <1>4 DEF Init
  <2> QED BY <2>1, <1>2, NewFits
<1>5. TInv BY <1>3, <1>4 DEF TInv, Init
<1>6. Living
  <2>1. \A n \in Names : link[n] = Stale => n \in world.stale BY DEF Init, Stale, Free
  <2> QED BY <2>1, <1>2, <1>4 DEF Living, Init
<1>7. \A w \in Windows : \A n : ~Holds(win[w], n)
  BY <1>4 DEF Holds, WinOK, LockedOK, Saving, Unlocking
<1>8. \A n \in Names : link[n] \notin alive BY DEF Init, Pids, Free, Stale
<1> QED BY <1>4, <1>5, <1>6, <1>7, <1>8 DEF LInv, Held, Single, Known, Orphaned

\* Every step keeps the invariant.
LEMMA StepHolds ==
  ASSUME LInv, [Next]_vars
  PROVE  LInv'
<1>1. ASSUME NEW w \in Windows, Turn(w), Step(w) PROVE LInv'
  BY <1>1, OpenStep, LoadStep, TypeStep, LockStatStep, LockReadStep, LockAskStep, LockUnlinkStep,
     LockLinkStep, UnlockStatStep, UnlockReadStep, UnlockUnlinkStep, SaveStep, SaveAsStep,
     CloseStep,
     AskSaveStep, AskNameStep, AskOverStep, StatStep, AskLinksStep, AskTimeStep, MakeTempStep,
     OpenToWriteStep, WriteAllStep, WriteFailsStep, CloseFailsStep, BackupStep, RenameStep,
     ReloadStep, SettleStep, CleanStep DEF Step
<1>2. ASSUME NEW p \in Pids, Crash(p) PROVE LInv' BY <1>2, CrashStep
<1>3. CASE UNCHANGED vars
  <2>1. DiskOK' BY <1>3 DEF vars, LInv, TInv, DiskOK, disk
  <2>2. TInv' /\ Living'
    BY <1>3, <2>1
      DEF vars, LInv, TInv, Living, WinOK, LockedOK, LockingOK, SavingOK, UnlockingOK, ClosingOK,
          Pending
  <2>3. Careful(world)' => Careful(world) BY <1>3 DEF vars, Careful
  <2>4. Held /\ Single /\ Known /\ Orphaned => Held' /\ Single' /\ Known' /\ Orphaned'
    BY <1>3, Afterwards DEF vars, Held, Single, Known, Orphaned
  <2> QED BY <2>2, <2>3, <2>4 DEF LInv
<1> QED BY <1>1, <1>2, <1>3 DEF Next

\* The invariant holds in every state.
LEMMA InvariantHolds == Spec => []LInv
<1>1. Init => LInv BY InitHolds
<1>2. LInv /\ [Next]_vars => LInv' BY StepHolds
<1> QED BY <1>1, <1>2, PTL DEF Spec

\* In every state every variable has its type, only the window that writes has a file
\* open, and a window that is to delete its file holds no lock.
THEOREM TypeCorrect == Spec => []TypeOK
<1>1. LInv => TypeOK
  <2> SUFFICES ASSUME LInv PROVE TypeOK OBVIOUS
  <2>1. world \in WorldType BY WorldFacts
  <2>2. \A w \in Windows : win[w] \in WindowType BY DEF LInv, TInv, WinOK
  <2>3. \A w \in Windows : /\ win[w].fd # "none" => win[w].pc = "write"
                           /\ ~(win[w].locked /\ win[w].deleteFile)
    BY DEF LInv, TInv, WinOK, LockedOK, SavingOK
  <2>4. win \in [Windows -> WindowType]
    <3>1. win = [w \in Windows |-> win[w]] BY DEF LInv, TInv
    <3> QED BY <3>1, <2>2
  <2> QED BY <2>1, <2>3, <2>4 DEF TypeOK, LInv, TInv, DiskOK
<1> QED BY <1>1, InvariantHolds, PTL

\* A lock has one holder and none outlives its use, for every number of windows, names and
\* commands, whichever calls fail and whenever a process dies - as long as not two processes
\* find the link of a dead one (two that both remove it may both get the lock: there is no
\* system call that removes only that link).
THEOREM LockIsExclusive ==
  ASSUME \A wd \in Worlds : Careful(wd)
  PROVE  Spec => []LockExclusive
<1>1. LInv => LockExclusive
  <2> SUFFICES ASSUME LInv PROVE LockExclusive OBVIOUS
  <2>1. Held /\ Known BY DEF LInv, TInv, DiskOK
  <2>2. OneHolder
    <3> SUFFICES ASSUME NEW v \in Windows, NEW w \in Windows, world.pid[v] # world.pid[w],
                        win[v].locked, win[w].locked, win[v].name = win[w].name
                 PROVE  win[v].name \in bold
      BY DEF OneHolder
    <3>1. win[v].name \in Names BY DEF LInv, TInv, WinOK, LockedOK
    <3>2. Holds(win[v], win[v].name) /\ Holds(win[w], win[v].name) BY DEF Holds
    <3> QED BY <2>1, <3>1, <3>2 DEF Held
  <2>3. NoneForgotten
    <3> SUFFICES ASSUME NEW n \in Names, link[n] \in alive
                 PROVE  \E w \in Windows :
                            /\ world.pid[w] = link[n] /\ ~Gone(w)
                            /\ win[w].pc = "idle" => win[w].locked /\ win[w].name = n
      BY DEF NoneForgotten
    <3>1. PICK w \in Windows : world.pid[w] = link[n] /\ Holds(win[w], n) BY <2>1 DEF Known
    <3>2. LockedOK(win[w]) BY DEF LInv, TInv, WinOK
    <3> QED BY <3>1, <3>2 DEF Holds, LockedOK, Gone, Saving, Unlocking
  <2> QED BY <2>2, <2>3 DEF LockExclusive
<1> QED BY <1>1, InvariantHolds, PTL

-----------------------------------------------------------------------------
(* How a window closes                                                     *)

\* The calls that end a command leave a window open, if only to close it next.
LEMMA CallsLeaveOpen ==
  ASSUME NEW r, "pc" \in DOMAIN r, NEW w, NEW ok, NEW x
  PROVE  /\ Leave(r).pc # "closed" /\ Finish(r, ok).pc # "closed" /\ SaveCmd(r).pc # "closed"
         /\ Locked(w, r, ok).pc # "closed" /\ Unlocked(r).pc # "closed"
         /\ Result(r, x).pc # "closed" /\ CheckTime(r).pc # "closed"
<1>1. Leave(r).pc # "closed" BY DEF Leave
<1>2. Finish(r, ok).pc # "closed" BY <1>1 DEF Finish
<1>3. SaveCmd(r).pc # "closed" BY DEF SaveCmd
<1>4. Locked(w, r, ok).pc # "closed" BY DEF Locked
<1>5. Unlocked(r).pc # "closed" BY DEF Unlocked
<1>6. Result(r, x).pc # "closed"
  <2> DEFINE own == IF r.cmd = "save" THEN (x = "ok" /\ r.locked) \/ r.saveLock
                    ELSE x = "ok" /\ (r.locked \/ (r.saveLock /\ r.target = r.name))
             other == r.cmd = "saveAs" /\ r.saveLock /\ (r.target # r.name \/ x # "ok")
             todo == (IF other THEN <<r.target>> ELSE <<>>) \o (IF own THEN <<r.name>> ELSE <<>>)
             low == IF own THEN FALSE ELSE r.locked
             y == IF todo = <<>> THEN "settle" ELSE "unlock"
  <2>1. Result(r, x) = [r EXCEPT !.res = x, !.todo = todo, !.fd = "none", !.locked = low, !.pc = y]
    BY DEF Result
  <2>2. y # "closed" OBVIOUS
  <2> HIDE DEF own, other, todo, low, y
  <2> QED BY <2>1, <2>2
<1>7. CheckTime(r).pc # "closed" BY DEF CheckTime
<1> QED BY <1>1, <1>2, <1>3, <1>4, <1>5, <1>6, <1>7

\* Nor does what follows a save close the window, but it may close it next.
LEMMA SettledLeavesOpen ==
  ASSUME NEW r, "pc" \in DOMAIN r
  PROVE  Settled(r).pc # "closed"
<1> DEFINE c == [r EXCEPT !.modified = FALSE, !.deleteFile = FALSE, !.name = r.target]
<1>1. "pc" \in DOMAIN c OBVIOUS
<1>2. Settled(r) = CASE r.cmd = "save" /\ r.res = "error" -> [r EXCEPT !.pc = "askName"]
                     [] r.res = "ok" -> Finish(c, TRUE)
                     [] OTHER        -> Finish(r, r.cmd = "save")
  BY DEF Settled
<1>3. Finish(c, TRUE).pc # "closed" BY <1>1, CallsLeaveOpen
<1>4. Finish(r, r.cmd = "save").pc # "closed" BY CallsLeaveOpen
<1>5. [r EXCEPT !.pc = "askName"].pc # "closed" OBVIOUS
<1> QED BY <1>2, <1>3, <1>4, <1>5

\* In one step of w, only a load that fails and the end of edit_clean close w.
LEMMA StepLeavesOpen ==
  ASSUME LInv, NEW w \in Windows, Step(w), win[w].pc \notin {"load", "clean"}
  PROVE  win'[w].pc # "closed"
<1> DEFINE r == win[w]
<1>1. r \in WindowType BY DEF LInv, TInv, WinOK
<1>2. "pc" \in DOMAIN r BY <1>1 DEF WindowType
<1>3. ASSUME NEW q, Become(w, q), q.pc # "closed" PROVE win'[w].pc # "closed"
  BY <1>3 DEF LInv, TInv, Become
<1>4. ASSUME NEW x, Goto(w, x), x # "closed" PROVE win'[w].pc # "closed"
  BY <1>3, <1>4, GotoIsBecome
<1>5. ASSUME NEW x, Become(w, [r EXCEPT !.pc = x]), x # "closed" PROVE win'[w].pc # "closed"
  BY <1>2, <1>3, <1>5
<1>6. ASSUME NEW q, NEW n, NEW where, win' = [Moved(win, n, where) EXCEPT ![w] = q], q.pc # "closed"
      PROVE  win'[w].pc # "closed"
  BY <1>6 DEF Moved
<1>7. ~Load(w) /\ ~Clean(w) BY DEF Load, Clean, At
<1>8. ASSUME Open(w) PROVE win'[w].pc # "closed"
  <2>1. ASSUME NEW t, Become(w, [r EXCEPT !.pc = "load", !.time = t]) PROVE win'[w].pc # "closed"
    BY <2>1, <1>2, <1>3
  <2>2. ASSUME NEW t, Become(w, [r EXCEPT !.pc = "load", !.time = t, !.deleteFile = TRUE])
        PROVE  win'[w].pc # "closed"
    BY <2>2, <1>2, <1>3
  <2> QED BY <1>4, <1>8, <2>1, <2>2 DEF Open
<1>9. ASSUME Type(w) PROVE win'[w].pc # "closed"
  <2> DEFINE a == [r EXCEPT !.buf = texts + 1, !.modified = TRUE]
             b == [r EXCEPT !.buf = texts + 1, !.pc = "lockStat", !.cmd = "type", !.target = r.name]
  <2>1. Become(w, a) \/ Become(w, b) BY <1>9 DEF Type
  <2>2. a.pc = "idle" BY <1>2, <1>9 DEF Type, At
  <2>3. b.pc = "lockStat" BY <1>2
  <2> QED BY <2>1, <2>2, <2>3, <1>3
<1>10. ASSUME LockStat(w) PROVE win'[w].pc # "closed"
  BY <1>4, <1>10 DEF LockStat
<1>11. ASSUME LockRead(w) \/ LockAsk(w) \/ LockUnlink(w) \/ LockLink(w) PROVE win'[w].pc # "closed"
  <2>1. ASSUME LockRead(w) PROVE win'[w].pc # "closed"
    <3>1. \/ Become(w, Locked(w, r, FALSE)) \/ Become(w, [r EXCEPT !.pc = "lockAsk"])
          \/ Become(w, [r EXCEPT !.pc = "lockUnlink"])
      BY <2>1, LinkFacts DEF LockRead
    <3> QED BY <3>1, <1>2, <1>3, <1>5, CallsLeaveOpen, ZenonT(60)
  <2>2. ASSUME LockAsk(w) PROVE win'[w].pc # "closed"
    BY <2>2, <1>2, <1>3, <1>4, CallsLeaveOpen DEF LockAsk
  <2>3. ASSUME LockUnlink(w) PROVE win'[w].pc # "closed"
    BY <2>3, <1>4 DEF LockUnlink
  <2>4. ASSUME LockLink(w) PROVE win'[w].pc # "closed"
    BY <2>4, <1>2, <1>3, CallsLeaveOpen DEF LockLink
  <2> QED BY <1>11, <2>1, <2>2, <2>3, <2>4
<1>12. ASSUME UnlockStat(w) \/ UnlockRead(w) \/ UnlockUnlink(w) PROVE win'[w].pc # "closed"
  <2>1. \/ Become(w, Unlocked(r)) \/ Become(w, [r EXCEPT !.pc = "unlockRead"])
        \/ Become(w, [r EXCEPT !.pc = "unlockUnlink"])
    BY <1>12 DEF UnlockStat, UnlockRead, UnlockUnlink
  <2> QED BY <2>1, <1>2, <1>3, <1>5, CallsLeaveOpen
<1>13. ASSUME Save(w) \/ SaveAs(w) \/ Close(w) PROVE win'[w].pc # "closed"
  <2> DEFINE c == Counted(w)
  <2>1. "pc" \in DOMAIN c BY <1>2 DEF Counted
  <2>2. \/ Become(w, SaveCmd(c)) \/ Become(w, [c EXCEPT !.pc = "askName"])
        \/ Become(w, [c EXCEPT !.pc = "askSave"]) \/ Become(w, Leave(c))
    BY <1>13 DEF Save, SaveAs, Close
  <2> HIDE DEF c
  <2>3. [c EXCEPT !.pc = "askName"].pc = "askName" /\ [c EXCEPT !.pc = "askSave"].pc = "askSave"
    BY <2>1
  <2> QED BY <2>1, <2>2, <2>3, <1>3, CallsLeaveOpen
<1>14. ASSUME AskSave(w) PROVE win'[w].pc # "closed"
  <2> DEFINE c == [r EXCEPT !.closing = "asked"]  d == [r EXCEPT !.saidNo = TRUE]
  <2>1. "pc" \in DOMAIN c /\ "pc" \in DOMAIN d BY <1>2
  <2>2. Become(w, SaveCmd(c)) \/ Become(w, Leave(d)) \/ Goto(w, "idle") BY <1>14 DEF AskSave
  <2> HIDE DEF c, d
  <2> QED BY <2>1, <2>2, <1>3, <1>4, CallsLeaveOpen
<1>15. ASSUME AskName(w) PROVE win'[w].pc # "closed"
  <2>1. ASSUME NEW n, NEW lb,
               Become(w, [[r EXCEPT !.cmd = "saveAs", !.target = n, !.convert = lb, !.saveLock = FALSE, !.asked = FALSE]
                          EXCEPT !.pc = CASE n # r.name /\ Exists(n) -> "askOver"
                                          [] n = r.name /\ (r.locked \/ r.deleteFile) -> "stat"
                                          [] OTHER -> "lockStat"])
        PROVE  win'[w].pc # "closed"
    <3> DEFINE x == CASE n # r.name /\ Exists(n) -> "askOver"
                      [] n = r.name /\ (r.locked \/ r.deleteFile) -> "stat"
                      [] OTHER -> "lockStat"
    <3>1. x # "closed" OBVIOUS
    <3> HIDE DEF x
    <3>2. Become(w, [r EXCEPT !.cmd = "saveAs", !.target = n, !.convert = lb, !.saveLock = FALSE, !.asked = FALSE, !.pc = x])
      BY <2>1 DEF x
    <3> QED BY <3>1, <3>2, <1>2, <1>3
  <2>2. CASE Become(w, Finish(r, FALSE)) BY <2>2, <1>2, <1>3, CallsLeaveOpen
  <2> QED BY <1>15, <2>1, <2>2 DEF AskName
<1>16. ASSUME AskOver(w) PROVE win'[w].pc # "closed"
  <2> DEFINE q == [r EXCEPT !.pc = "lockStat", !.asked = TRUE]
  <2>1. q.pc = "lockStat" BY <1>2
  <2>2. Become(w, q) \/ Become(w, Finish(r, FALSE)) BY <1>16 DEF AskOver
  <2> HIDE DEF q
  <2> QED BY <2>1, <2>2, <1>2, <1>3, CallsLeaveOpen
<1>17. ASSUME Stat(w) PROVE win'[w].pc # "closed"
  <2> DEFINE sb == fs[r.target]  mode == IF sb.text = NoText THEN "quick" ELSE world.mode
             c == [r EXCEPT !.sb = sb, !.mode = mode]
  <2>1. "pc" \in DOMAIN c BY <1>2
  <2>2. Become(w, [c EXCEPT !.pc = "askLinks"]) \/ Become(w, CheckTime(c)) BY <1>17 DEF Stat
  <2> HIDE DEF c
  <2>3. [c EXCEPT !.pc = "askLinks"].pc = "askLinks" BY <2>1
  <2> QED BY <2>1, <2>2, <2>3, <1>3, CallsLeaveOpen
<1>18. ASSUME AskLinks(w) PROVE win'[w].pc # "closed"
  <2> DEFINE c == [r EXCEPT !.skip = TRUE, !.mode = "safe"]  d == [r EXCEPT !.skip = TRUE]
  <2>1. "pc" \in DOMAIN c /\ "pc" \in DOMAIN d BY <1>2
  <2>2. Become(w, CheckTime(c)) \/ Become(w, CheckTime(d)) \/ Become(w, Result(r, "abort"))
    BY <1>18 DEF AskLinks
  <2> HIDE DEF c, d
  <2> QED BY <2>1, <2>2, <1>2, <1>3, CallsLeaveOpen
<1>19. ASSUME AskTime(w) PROVE win'[w].pc # "closed"
  <2> DEFINE x == IF r.mode = "quick" THEN "open" ELSE "temp"  q == [r EXCEPT !.asked = TRUE, !.pc = x]
  <2>1. q.pc # "closed" BY <1>2
  <2>2. Become(w, q) \/ Become(w, Result(r, "abort")) BY <1>19 DEF AskTime
  <2> HIDE DEF q
  <2> QED BY <2>1, <2>2, <1>2, <1>3, CallsLeaveOpen
<1>20. ASSUME MakeTemp(w) \/ OpenToWrite(w) PROVE win'[w].pc # "closed"
  <2> DEFINE q == [r EXCEPT !.pc = "write", !.fd = "name"]
  <2>1. q.pc = "write" BY <1>2
  <2>2. Goto(w, "open") \/ Goto(w, "write") \/ Become(w, q) \/ Become(w, Result(r, "error"))
    BY <1>20 DEF MakeTemp, OpenToWrite
  <2> HIDE DEF q
  <2> QED BY <2>1, <2>2, <1>2, <1>3, <1>4, CallsLeaveOpen
<1>21. ASSUME WriteAll(w) \/ WriteFails(w) \/ CloseFails(w) PROVE win'[w].pc # "closed"
  <2>1. Become(w, Wrote(w)) \/ Become(w, Result(r, "error"))
    BY <1>21 DEF WriteAll, WriteFails, CloseFails
  <2>2. Wrote(w).pc # "closed"
    <3> DEFINE plain == ~world.filter /\ ~r.convert
               saved == IF r.mode = "quick" THEN fs'[r.target] ELSE temp'[w]
               t == IF plain THEN saved.time ELSE r.time
               b == IF r.mode = "quick" THEN saved.text ELSE r.base
               c == [r EXCEPT !.time = t, !.base = b]
               x == IF r.mode = "backup" THEN "backup" ELSE "rename"
    <3>1. Wrote(w) = IF plain /\ saved.text = NoText THEN Result(r, "error")
                     ELSE IF r.mode = "quick" THEN Result(c, "ok") ELSE [c EXCEPT !.pc = x]
      BY DEF Wrote
    <3>2. "pc" \in DOMAIN c BY <1>2
    <3>3. x # "closed" OBVIOUS
    <3> HIDE DEF c, x, plain, saved
    <3>4. [c EXCEPT !.pc = x].pc = x BY <3>2
    <3> QED BY <3>1, <3>2, <3>3, <3>4, <1>2, CallsLeaveOpen
  <2> QED BY <2>1, <2>2, <1>2, <1>3, CallsLeaveOpen
<1>22. ASSUME Backup(w) PROVE win'[w].pc # "closed"
  <2>1. CASE win' = [Moved(win, r.target, "backup") EXCEPT ![w].pc = "rename"]
    <3>1. "pc" \in DOMAIN Moved(win, r.target, "backup")[w] BY <1>2 DEF Moved
    <3> QED BY <2>1, <3>1 DEF Moved
  <2>2. CASE Become(w, Result(r, "error")) BY <2>2, <1>2, <1>3, CallsLeaveOpen
  <2> QED BY <1>22, <2>1, <2>2 DEF Backup
<1>23. ASSUME Rename(w) PROVE win'[w].pc # "closed"
  <2> DEFINE c == [r EXCEPT !.base = temp[w].text]
  <2>1. "pc" \in DOMAIN c BY <1>2
  <2>2. \/ win' = [Moved(win, r.target, "gone") EXCEPT ![w] = Result(c, "ok")]
        \/ Become(w, Result(r, "error"))
    BY <1>23 DEF Rename
  <2> HIDE DEF c
  <2> QED BY <2>1, <2>2, <1>2, <1>3, <1>6, CallsLeaveOpen
<1>24. ASSUME Reload(w) PROVE win'[w].pc # "closed"
  <2> DEFINE n == r.target
             k == [NewWindow(n) EXCEPT !.time = fs[n].time, !.buf = fs[n].text, !.base = fs[n].text,
                     !.cmd = "saveAs", !.target = n, !.closing = r.closing, !.commands = r.commands]
             m == [k EXCEPT !.time = Tick, !.buf = Empty, !.base = Empty]
  <2>1. "pc" \in DOMAIN NewWindow(n) BY DEF NewWindow
  <2>2. "pc" \in DOMAIN k /\ "pc" \in DOMAIN m BY <2>1
  <2>3. \/ win' = [Moved(win, n, "gone") EXCEPT ![w] = Settled(k)]
        \/ Become(w, Settled(k)) \/ Become(w, Settled(m))
    BY <1>24 DEF Reload, Become
  <2> HIDE DEF k, m
  <2> QED BY <2>2, <2>3, <1>3, <1>6, SettledLeavesOpen
<1>25. ASSUME Settle(w) PROVE win'[w].pc # "closed"
  BY <1>25, <1>2, <1>3, SettledLeavesOpen DEF Settle
<1> QED BY <1>7, <1>8, <1>9, <1>10, <1>11, <1>12, <1>13, <1>14, <1>15, <1>16, <1>17, <1>18, <1>19,
           <1>20, <1>21, <1>22, <1>23, <1>24, <1>25 DEF Step

\* A step of one window does not move another to a different place in the code.
LEMMA OthersStay ==
  ASSUME LInv, NEW v \in Windows, NEW w \in Windows, v # w, Step(v)
  PROVE  win'[w].pc = win[w].pc
<1>1. win = [u \in Windows |-> win[u]] BY DEF LInv, TInv
<1>2. ASSUME NEW q, Become(v, q) PROVE win'[w].pc = win[w].pc BY <1>1, <1>2 DEF Become
<1>3. ASSUME NEW x, Goto(v, x) PROVE win'[w].pc = win[w].pc BY <1>1, <1>3 DEF Goto
<1>4. ASSUME NEW n, NEW where, NEW q, win' = [Moved(win, n, where) EXCEPT ![v] = q]
      PROVE  win'[w].pc = win[w].pc
  <2>1. win'[w] = Moved(win, n, where)[w] BY <1>4 DEF Moved
  <2>2. win[w] \in WindowType BY DEF LInv, TInv, WinOK
  <2> QED BY <2>1, <2>2 DEF Moved, WindowType
<1>5. ASSUME Open(v) \/ Load(v) \/ Type(v) \/ LockStat(v) \/ LockRead(v) \/ LockAsk(v) \/ LockUnlink(v)
             \/ LockLink(v) \/ UnlockStat(v) \/ UnlockRead(v) \/ UnlockUnlink(v)
      PROVE  win'[w].pc = win[w].pc
  BY <1>2, <1>3, <1>5 DEF Open, Load, Type, LockStat, LockRead, LockAsk, LockUnlink, LockLink,
     UnlockStat, UnlockRead, UnlockUnlink
<1>6. ASSUME Save(v) \/ SaveAs(v) \/ Close(v) \/ AskSave(v) \/ AskName(v) \/ AskOver(v)
             \/ Stat(v) \/ AskLinks(v) \/ AskTime(v) \/ MakeTemp(v) \/ OpenToWrite(v)
             \/ WriteAll(v) \/ WriteFails(v) \/ CloseFails(v) \/ Settle(v)
      PROVE  win'[w].pc = win[w].pc
  BY <1>2, <1>3, <1>6 DEF Save, SaveAs, Close, AskSave, AskName, AskOver, Stat, AskLinks, AskTime,
     MakeTemp, OpenToWrite, WriteAll, WriteFails, CloseFails, Settle
<1>7. ASSUME Backup(v) PROVE win'[w].pc = win[w].pc
  <2>1. ASSUME NEW n, win' = [Moved(win, n, "backup") EXCEPT ![v].pc = "rename"]
        PROVE  win'[w].pc = win[w].pc
    <3>1. win' = [Moved(win, n, "backup") EXCEPT ![v] = [Moved(win, n, "backup")[v] EXCEPT !.pc = "rename"]]
      BY <2>1 DEF Moved
    <3> QED BY <3>1, <1>4
  <2> QED BY <1>2, <1>7, <2>1 DEF Backup
<1>8. ASSUME Rename(v) PROVE win'[w].pc = win[w].pc BY <1>2, <1>4, <1>8 DEF Rename
<1>9. ASSUME Reload(v) PROVE win'[w].pc = win[w].pc
  <2>1. ASSUME NEW n, NEW q, NEW k, NEW m,
               \/ win' = [(IF win[v].deleteFile THEN Moved(win, n, "gone") ELSE win) EXCEPT ![v] = q]
               \/ Become(v, m)
        PROVE  win'[w].pc = win[w].pc
    BY <2>1, <1>2, <1>4 DEF Become
  <2> QED BY <1>9, <2>1 DEF Reload
<1>10. ASSUME Clean(v) PROVE win'[w].pc = win[w].pc
  <2>1. ASSUME NEW n, win' = [Moved(win, n, "gone") EXCEPT ![v].pc = "closed"]
        PROVE  win'[w].pc = win[w].pc
    <3>1. win' = [Moved(win, n, "gone") EXCEPT ![v] = [Moved(win, n, "gone")[v] EXCEPT !.pc = "closed"]]
      BY <2>1 DEF Moved
    <3> QED BY <3>1, <1>4
  <2>2. CASE win[v].deleteFile BY <1>10, <2>1, <2>2 DEF Clean
  <2>3. CASE ~win[v].deleteFile BY <1>1, <1>10, <2>3 DEF Clean
  <2> QED BY <2>2, <2>3
<1> QED BY <1>5, <1>6, <1>7, <1>8, <1>9, <1>10 DEF Step

\* A window with unsaved changes closes only if the user said that they may be lost or
\* cancelled the save, on every path through the save commands and whatever call fails.
THEOREM ClosedIsSaved == Spec => ClosedMeansSaved
<1>1. ASSUME LInv, [Next]_vars, NEW w \in Windows, win'[w].pc = "closed"
      PROVE  ~win[w].modified \/ win[w].saidNo \/ win[w].res = "abort"
  <2>1. CASE win[w].pc \in {"load", "clean", "closed"}
    BY <1>1, <2>1 DEF LInv, TInv, WinOK, ClosingOK
  <2>2. CASE win[w].pc \notin {"load", "clean", "closed"}
    <3>1. ASSUME NEW v \in Windows, Step(v) PROVE win'[w].pc # "closed"
      <4>1. CASE v = w BY <1>1, <2>2, <3>1, <4>1, StepLeavesOpen
      <4>2. CASE v # w BY <1>1, <2>2, <3>1, <4>2, OthersStay
      <4> QED BY <4>1, <4>2
    <3>2. ASSUME NEW p \in Pids, Crash(p) PROVE win'[w].pc # "closed"
      <4>1. "pc" \in DOMAIN NewWindow(NoName) BY DEF NewWindow
      <4>2. [NewWindow(NoName) EXCEPT !.pc = "dead"].pc = "dead"
        <5> DEFINE o == NewWindow(NoName)
        <5>1. "pc" \in DOMAIN o BY <4>1
        <5> HIDE DEF o
        <5> QED BY <5>1 DEF o
      <4> QED BY <4>2, <2>2, <3>2 DEF Crash
    <3>3. ASSUME UNCHANGED vars PROVE win'[w].pc # "closed" BY <2>2, <3>3 DEF vars
    <3> QED BY <1>1, <3>1, <3>2, <3>3 DEF Next
  <2> QED BY <2>1, <2>2
<1>2. LInv /\ [Next]_vars => \A w \in Windows : win'[w].pc = "closed" =>
         ~win[w].modified \/ win[w].saidNo \/ win[w].res = "abort"
  BY <1>1
<1> QED BY <1>2, InvariantHolds, PTL DEF Spec, ClosedMeansSaved

-----------------------------------------------------------------------------
(* The files                                                               *)
(***************************************************************************)
(* What a save in one of the safe modes leaves on the disk, and what a     *)
(* window may delete when it closes, for every number of windows, names    *)
(* and texts and every length of a run.                                    *)
(*                                                                         *)
(* OriginalSurvives is not inductive: that the temporary file is whole     *)
(* when it is renamed rests on the text of the window that wrote it, and   *)
(* that on where the window got its name and its text from. The invariant  *)
(* SInv says of every window what its text, its name and target, its mode  *)
(* and its temporary file have to do with the files that were there at the *)
(* start, and of each of these files where it is whole.                    *)
(*                                                                         *)
(* DeletesNoText needs the invariant OInv: a file that a window is to      *)
(* delete is its own creation, and has no text but for the moment between  *)
(* a save and the end of its command.                                      *)
(***************************************************************************)

\* Every window works on files that were there at the start.
AllThere(wd) ==
  /\ \A w \in wd.windows : wd.opens[w] \in wd.exists
  /\ wd.convert => wd.targets \subseteq wd.exists

\* The circumstances: a write that fails is reported; either no text is saved under
\* the name of another file that was there, or every window has the text of one; and
\* with backups one window saves and no call fails: when a rename fails after the
\* backup the next save is a quick one, and the one after it takes a cut file for
\* the original.
Kept(wd) ==
  /\ wd.late => ~wd.filter /\ ~wd.convert
  /\ wd.targets \cap wd.exists = {} \/ AllThere(wd)
  /\ wd.mode = "backup" => ~wd.fail /\ \A v, w \in wd.windows : v = w

\* A window whose name or text comes from such a file has a whole text.
Working(q) == q.pc \notin {"unopened", "load", "closed", "dead"}
TextKept(q) == Working(q) /\ (AllThere(world) \/ q.name \in world.exists) => q.buf \in Written

\* The names a window works with: it never deletes such a file, and where texts are not
\* saved under other names its target is its own.
NameKept(q, w) ==
  /\ q.pc \in {"unopened", "load"} => q.name = world.opens[w]
  /\ q.deleteFile => q.name \notin world.exists /\ (w \in world.windows => ~AllThere(world))
  /\ q.convert => world.convert
  /\ ~AllThere(world) /\ q.target \in world.exists => q.name = q.target
  /\ AllThere(world) /\ world.convert /\ q.cmd = "saveAs" => q.target \in world.exists

\* Such a file is saved in the mode of the world, and what is renamed to it is whole.
ModeKept(q) ==
  /\ q.pc \in Saving \ {"stat"} /\ q.target \in world.exists => q.mode = world.mode /\ q.pc # "askLinks"
  /\ q.pc = "backup" => q.mode = "backup"
TempKept(q, t) == q.pc \in {"backup", "rename"} /\ q.target \in world.exists => t.text \in Written

WindowKept(q, w, t) == TextKept(q) /\ NameKept(q, w) /\ ModeKept(q) /\ TempKept(q, t)

\* The file is whole under its name, or between two renames in the temporary file.
Survives(n) ==
  \/ fs[n].text \in Written
  \/ /\ world.mode = "backup"
     /\ \E w \in world.windows : /\ temp[w].text \in Written
                                 /\ win[w].pc = "dead" \/ (win[w].pc = "rename" /\ win[w].target = n)

FilesKept == \A n \in world.exists : Survives(n)
WindowsKept == \A w \in Windows : WindowKept(win[w], w, temp[w])
SInv == FilesKept /\ WindowsKept

\* Safe saves in such circumstances.
Safe == Kept(world) /\ world.mode # "quick"

-----------------------------------------------------------------------------
(* What the helpers of the code leave alone in a window                    *)

\* All that the invariant looks at but where the window is.
Alike(q, r) ==
  /\ q.buf = r.buf /\ q.name = r.name /\ q.deleteFile = r.deleteFile /\ q.convert = r.convert
  /\ q.target = r.target /\ q.cmd = r.cmd /\ q.mode = r.mode

\* A window that goes on to a place that is not in a save keeps its promises.
LEMMA GoesOn ==
  ASSUME NEW w, NEW r, NEW q, NEW t, NEW t1, WindowKept(r, w, t), Working(r), Alike(q, r),
         q.pc \notin {"unopened", "load"}, q.pc \notin Saving \ {"stat"}
  PROVE  WindowKept(q, w, t1)
BY DEF WindowKept, TextKept, NameKept, ModeKept, TempKept, Working, Alike, Saving

\* A place of edit_save_file: any but the two that need the temporary file.
LEMMA SavesOn ==
  ASSUME NEW w, NEW r, NEW q, NEW t, NEW t1, WindowKept(r, w, t), Alike(q, r),
         r.pc \in Saving \ {"stat"}, q.pc \in {"askTime", "temp", "open", "write"}
  PROVE  WindowKept(q, w, t1)
BY DEF WindowKept, TextKept, NameKept, ModeKept, TempKept, Working, Alike, Saving

\* Where the fields of a window are that the steps change.
LEMMA Fields ==
  ASSUME NEW r \in WindowType
  PROVE  /\ \A x : Alike([r EXCEPT !.pc = x], r) /\ [r EXCEPT !.pc = x].pc = x
         /\ \A x, y : LET q == [r EXCEPT !.pc = x, !.asked = y] IN Alike(q, r) /\ q.pc = x
         /\ \A y, x : LET q == [r EXCEPT !.asked = y, !.pc = x] IN Alike(q, r) /\ q.pc = x
         /\ \A y : Alike([r EXCEPT !.saidNo = y], r) /\ [r EXCEPT !.saidNo = y].pc = r.pc
         /\ \A y : Alike([r EXCEPT !.closing = y], r) /\ [r EXCEPT !.closing = y].pc = r.pc
         /\ \A y : Alike([r EXCEPT !.skip = y], r) /\ [r EXCEPT !.skip = y].pc = r.pc
         /\ \A y, z : LET q == [r EXCEPT !.time = y, !.base = z] IN Alike(q, r) /\ q.pc = r.pc
         /\ \A y : Alike([r EXCEPT !.base = y], r) /\ [r EXCEPT !.base = y].pc = r.pc
BY DEF WindowType, Alike

\* A result changes locks and goes on to unlocking or settling.
LEMMA ResultIs ==
  ASSUME NEW r \in WindowType, NEW x
  PROVE  Alike(Result(r, x), r) /\ Result(r, x).pc \in {"settle", "unlock"} /\ Result(r, x).res = x
<1> DEFINE own == IF r.cmd = "save" THEN (x = "ok" /\ r.locked) \/ r.saveLock
                  ELSE x = "ok" /\ (r.locked \/ (r.saveLock /\ r.target = r.name))
           other == r.cmd = "saveAs" /\ r.saveLock /\ (r.target # r.name \/ x # "ok")
           todo == (IF other THEN <<r.target>> ELSE <<>>) \o (IF own THEN <<r.name>> ELSE <<>>)
           low == IF own THEN FALSE ELSE r.locked
           y == IF todo = <<>> THEN "settle" ELSE "unlock"
<1>1. Result(r, x) = [r EXCEPT !.res = x, !.todo = todo, !.fd = "none", !.locked = low, !.pc = y]
  BY DEF Result
<1>2. y \in {"settle", "unlock"} OBVIOUS
<1> HIDE DEF own, other, todo, low, y
<1> QED BY <1>1, <1>2 DEF WindowType, Alike

\* The end of a command.
LEMMA LeaveIs ==
  ASSUME NEW r \in WindowType
  PROVE  Alike(Leave(r), r) /\ Leave(r).pc \in {"unlock", "clean"}
<1> DEFINE todo == IF r.locked THEN <<r.name>> ELSE <<>>
           y == IF r.locked THEN "unlock" ELSE "clean"
<1>1. Leave(r) = [r EXCEPT !.closing = "sure", !.locked = FALSE, !.todo = todo, !.pc = y] BY DEF Leave
<1>2. y \in {"unlock", "clean"} OBVIOUS
<1> HIDE DEF todo, y
<1> QED BY <1>1, <1>2 DEF WindowType, Alike

LEMMA FinishIs ==
  ASSUME NEW r \in WindowType, NEW ok \in BOOLEAN
  PROVE  Alike(Finish(r, ok), r) /\ Finish(r, ok).pc \in {"unlock", "clean", "idle"}
<1> DEFINE a == [r EXCEPT !.pc = "idle"]  b == [r EXCEPT !.pc = "idle", !.closing = "no"]
<1>1. Finish(r, ok) \in {a, b, Leave(r)} BY DEF Finish
<1>2. Alike(a, r) /\ a.pc = "idle" /\ Alike(b, r) /\ b.pc = "idle" BY DEF WindowType, Alike
<1> HIDE DEF a, b
<1> QED BY <1>1, <1>2, LeaveIs

\* lock_file returns, and unlock_file goes on to the next name.
LEMMA LockedIs ==
  ASSUME NEW w, NEW r \in WindowType, NEW ok
  PROVE  Alike(Locked(w, r, ok), r) /\ Locked(w, r, ok).pc \in {"idle", "stat"}
<1> DEFINE a == [r EXCEPT !.pc = "idle", !.locked = ok, !.modified = TRUE]
           b == [r EXCEPT !.pc = "stat", !.saveLock = ok]
<1>1. Locked(w, r, ok) \in {a, b} BY DEF Locked
<1>2. Alike(a, r) /\ a.pc = "idle" /\ Alike(b, r) /\ b.pc = "stat" BY DEF WindowType, Alike
<1> HIDE DEF a, b
<1> QED BY <1>1, <1>2

LEMMA UnlockedIs ==
  ASSUME NEW r \in WindowType
  PROVE  Alike(Unlocked(r), r) /\ Unlocked(r).pc \in {"unlock", "clean", "settle"}
<1> DEFINE todo == Tail(r.todo)
           y == IF todo # <<>> THEN "unlock" ELSE IF r.closing = "sure" THEN "clean" ELSE "settle"
<1>1. Unlocked(r) = [r EXCEPT !.todo = todo, !.pc = y] BY DEF Unlocked
<1>2. y \in {"unlock", "clean", "settle"} OBVIOUS
<1> HIDE DEF todo, y
<1> QED BY <1>1, <1>2 DEF WindowType, Alike

\* The comparison of the times.
LEMMA CheckTimeIs ==
  ASSUME NEW r \in WindowType
  PROVE  Alike(CheckTime(r), r) /\ CheckTime(r).pc \in {"askTime", "open", "temp"}
<1> DEFINE y == IF r.sb.text # NoText /\ r.time # 0 /\ r.time # r.sb.time THEN "askTime"
                ELSE IF r.mode = "quick" THEN "open" ELSE "temp"
<1>1. CheckTime(r) = [r EXCEPT !.pc = y] BY DEF CheckTime
<1>2. y \in {"askTime", "open", "temp"} OBVIOUS
<1> HIDE DEF y
<1> QED BY <1>1, <1>2 DEF WindowType, Alike

\* A window with one command more.
LEMMA CountedIs ==
  ASSUME NEW w \in Windows, win[w] \in WindowType
  PROVE  Counted(w) \in WindowType /\ Alike(Counted(w), win[w]) /\ Counted(w).pc = win[w].pc
<1> DEFINE r == win[w]
<1>1. r.commands + 1 \in Nat BY DEF WindowType
<1>2. Counted(w) = [r EXCEPT !.commands = r.commands + 1] BY DEF Counted
<1>3. Counted(w) \in WindowType BY <1>1, <1>2 DEF WindowType
<1> QED BY <1>2, <1>3 DEF WindowType, Alike

-----------------------------------------------------------------------------
(* How the invariant goes from state to state                              *)

\* While a window is not between two renames every file is whole under its name: with
\* backups there is no other window.
LEMMA WholeFiles ==
  ASSUME SInv, Safe, NEW w \in world.windows, win[w].pc \notin {"rename", "dead"}
  PROVE  \A n \in world.exists : fs[n].text \in Written
BY DEF SInv, FilesKept, Survives, Safe, Kept

\* The files there were are names, and so are those that windows open and save as.
LEMMA WorldNames ==
  ASSUME LInv
  PROVE  /\ world.exists \subseteq Names /\ world.targets \subseteq Names /\ world.windows \subseteq Windows
         /\ NoName \notin world.exists /\ world.mode \in Modes /\ world.convert \in BOOLEAN
BY WorldFacts, EditSaveAssumption DEF WorldType

\* A step that leaves them alone and is not between two renames.
LEMMA FilesStay ==
  ASSUME SInv, Safe, NEW w \in world.windows, win[w].pc \notin {"rename", "dead"},
         world' = world, \A n \in world.exists : fs'[n] = fs[n]
  PROVE  FilesKept'
BY WholeFiles DEF FilesKept, Survives

\* A step that changes one window.
LEMMA WindowsStay ==
  ASSUME SInv, NEW w \in Windows, world' = world, WindowKept(win'[w], w, temp'[w]),
         \A v \in Windows \ {w} : temp'[v] = temp[v] /\ Alike(win'[v], win[v]) /\ win'[v].pc = win[v].pc
  PROVE  WindowsKept'
<1>1. ASSUME NEW v \in Windows PROVE WindowKept(win'[v], v, temp'[v])
  <2>1. CASE v = w BY <2>1
  <2>2. CASE v # w
    <3>1. WindowKept(win[v], v, temp[v]) BY DEF SInv, WindowsKept
    <3>2. temp'[v] = temp[v] /\ Alike(win'[v], win[v]) /\ win'[v].pc = win[v].pc BY <2>2
    <3> QED BY <3>1, <3>2 DEF WindowKept, TextKept, NameKept, ModeKept, TempKept, Working, Alike
  <2> QED BY <2>1, <2>2
<1> QED BY <1>1 DEF WindowsKept, WindowKept, TextKept, NameKept, ModeKept, TempKept, AllThere

\* A window that is like itself.
LEMMA Itself == \A q : Alike(q, q)
BY DEF Alike

\* A change of one window alone.
LEMMA BecomesKept ==
  ASSUME LInv, SInv, NEW w \in Windows, world' = world, temp' = temp, NEW q, Become(w, q),
         WindowKept(q, w, temp[w])
  PROVE  WindowsKept'
<1>1. win' = [win EXCEPT ![w] = q] BY DEF Become
<1>2. win = [v \in Windows |-> win[v]] BY DEF LInv, TInv
<1>3. win'[w] = q /\ \A v \in Windows \ {w} : win'[v] = win[v] BY <1>1, <1>2
<1> QED BY <1>3, WindowsStay, Itself

\* A step on the spot: no file changes, and the window keeps its promises.
LEMMA QuietStep ==
  ASSUME LInv, SInv, Safe, NEW w \in world.windows, win[w].pc \notin {"rename", "dead"},
         world' = world, UNCHANGED disk, NEW q, Become(w, q), WindowKept(q, w, temp[w])
  PROVE  SInv'
<1>1. w \in Windows BY WorldNames
<1>2. FilesKept' BY FilesStay DEF disk
<1>3. WindowsKept' BY <1>1, BecomesKept DEF disk
<1> QED BY <1>2, <1>3 DEF SInv

\* Most steps change neither a file nor what the window is about.
LEMMA PlainStep ==
  ASSUME LInv, SInv, Safe, NEW w \in Windows, Working(win[w]), win[w].pc # "rename",
         world' = world, UNCHANGED disk, NEW q, Become(w, q), Alike(q, win[w]),
         q.pc \notin {"unopened", "load"}, q.pc \notin Saving \ {"stat"}
  PROVE  SInv'
<1>1. w \in world.windows /\ win[w].pc # "dead" BY Acting DEF Working
<1>2. WindowKept(q, w, temp[w]) BY GoesOn DEF SInv, WindowsKept
<1> QED BY <1>1, <1>2, QuietStep

\* The window of a step.
LEMMA ActingWindow ==
  ASSUME LInv, SInv, NEW w \in Windows, win[w].pc \notin {"unopened", "dead"}
  PROVE  /\ win[w] \in WindowType /\ WinOK(win[w]) /\ w \in world.windows /\ "pc" \in DOMAIN win[w]
         /\ WindowKept(win[w], w, temp[w])
BY Acting DEF SInv, WindowsKept, WindowType

-----------------------------------------------------------------------------
(* The steps of one window                                                 *)

LEMMA LockSteps ==
  ASSUME LInv, SInv, Safe, NEW w \in Windows,
         LockStat(w) \/ LockRead(w) \/ LockAsk(w) \/ LockUnlink(w) \/ LockLink(w)
  PROVE  SInv'
<1> DEFINE r == win[w]
<1>1. r.pc \in Locking BY DEF LockStat, LockRead, LockAsk, LockUnlink, LockLink, At, Locking
<1>2. Working(r) /\ r.pc # "rename" BY <1>1 DEF Working, Locking
<1>3. r \in WindowType BY <1>2, ActingWindow DEF Working
<1>4. world' = world /\ UNCHANGED disk BY DEF LockStat, LockRead, LockAsk, LockUnlink, LockLink, disk
<1>5. ASSUME NEW x \in Locking, Become(w, [r EXCEPT !.pc = x]) PROVE SInv'
  <2> DEFINE q == [r EXCEPT !.pc = x]
  <2>1. Alike(q, r) /\ q.pc = x BY <1>3, Fields
  <2>2. q.pc \notin {"unopened", "load"} /\ q.pc \notin Saving BY <2>1, <1>5 DEF Locking, Saving
  <2>3. Become(w, q) BY <1>5
  <2> HIDE DEF q
  <2> QED BY <2>1, <2>2, <2>3, <1>2, <1>4, PlainStep
<1>6. ASSUME NEW ok, Become(w, Locked(w, r, ok)) PROVE SInv'
  <2>1. Alike(Locked(w, r, ok), r) /\ Locked(w, r, ok).pc \in {"idle", "stat"} BY <1>3, LockedIs
  <2>2. Locked(w, r, ok).pc \notin {"unopened", "load"} /\ Locked(w, r, ok).pc \notin Saving \ {"stat"}
    BY <2>1 DEF Saving
  <2> QED BY <2>1, <2>2, <1>2, <1>4, <1>6, PlainStep
<1>7. ASSUME NEW x \in Locking, Goto(w, x) PROVE SInv' BY <1>5, <1>7, GotoIsBecome
<1>8. CASE LockStat(w)
  <2>1. Goto(w, "lockLink") \/ Goto(w, "lockRead") BY <1>8 DEF LockStat
  <2> QED BY <2>1, <1>7 DEF Locking
<1>9. CASE LockRead(w)
  <2>1. \/ Become(w, Locked(w, r, FALSE)) \/ Become(w, [r EXCEPT !.pc = "lockAsk"])
        \/ Become(w, [r EXCEPT !.pc = "lockUnlink"])
    BY <1>9, LinkFacts DEF LockRead
  <2> QED BY <2>1, <1>5, <1>6 DEF Locking
<1>10. CASE LockAsk(w) BY <1>6, <1>7, <1>10 DEF LockAsk, Locking
<1>11. CASE LockUnlink(w) BY <1>7, <1>11 DEF LockUnlink, Locking
<1>12. CASE LockLink(w) BY <1>6, <1>12 DEF LockLink
<1> QED BY <1>8, <1>9, <1>10, <1>11, <1>12

LEMMA UnlockSteps ==
  ASSUME LInv, SInv, Safe, NEW w \in Windows, UnlockStat(w) \/ UnlockRead(w) \/ UnlockUnlink(w)
  PROVE  SInv'
<1> DEFINE r == win[w]
<1>1. r.pc \in Unlocking BY DEF UnlockStat, UnlockRead, UnlockUnlink, At, Unlocking
<1>2. Working(r) /\ r.pc # "rename" BY <1>1 DEF Working, Unlocking
<1>3. r \in WindowType BY <1>2, ActingWindow DEF Working
<1>4. world' = world /\ UNCHANGED disk BY DEF UnlockStat, UnlockRead, UnlockUnlink, disk
<1>5. ASSUME NEW x \in Unlocking, Become(w, [r EXCEPT !.pc = x]) PROVE SInv'
  <2> DEFINE q == [r EXCEPT !.pc = x]
  <2>1. Alike(q, r) /\ q.pc = x BY <1>3, Fields
  <2>2. q.pc \notin {"unopened", "load"} /\ q.pc \notin Saving BY <2>1, <1>5 DEF Unlocking, Saving
  <2>3. Become(w, q) BY <1>5
  <2> HIDE DEF q
  <2> QED BY <2>1, <2>2, <2>3, <1>2, <1>4, PlainStep
<1>6. ASSUME Become(w, Unlocked(r)) PROVE SInv'
  <2>1. Alike(Unlocked(r), r) /\ Unlocked(r).pc \in {"unlock", "clean", "settle"} BY <1>3, UnlockedIs
  <2>2. Unlocked(r).pc \notin {"unopened", "load"} /\ Unlocked(r).pc \notin Saving BY <2>1 DEF Saving
  <2> QED BY <2>1, <2>2, <1>2, <1>4, <1>6, PlainStep
<1>7. \/ Become(w, Unlocked(r)) \/ Become(w, [r EXCEPT !.pc = "unlockRead"])
      \/ Become(w, [r EXCEPT !.pc = "unlockUnlink"])
  BY DEF UnlockStat, UnlockRead, UnlockUnlink
<1> QED BY <1>5, <1>6, <1>7 DEF Unlocking

\* A file that was there at the start is not created anew: until it is opened nothing
\* has happened to its name that takes it away.
LEMMA OpenKeeps ==
  ASSUME LInv, SInv, Safe, NEW w \in Windows, Open(w)
  PROVE  SInv'
<1> DEFINE r == win[w]  n == r.name
<1>1. r.pc = "unopened" /\ w \in world.windows /\ world' = world /\ temp' = temp BY DEF Open, At
<1>2. r \in WindowType /\ WindowKept(r, w, temp[w]) BY DEF LInv, TInv, WinOK, SInv, WindowsKept
<1>3. n = world.opens[w] BY <1>1, <1>2 DEF WindowKept, NameKept
<1>4. \A f \in world.exists : Exists(f)
  BY <1>1, WholeFiles DEF Exists, NoText, Written
<1>5. CASE n = NoName /\ Goto(w, "idle") /\ UNCHANGED <<fs, now>>
  <2> DEFINE q == [r EXCEPT !.pc = "idle"]
  <2>1. Alike(q, r) /\ q.pc = "idle" BY <1>2, Fields
  <2>2. Become(w, q) BY <1>5, GotoIsBecome
  <2>3. n \notin world.exists /\ ~AllThere(world) BY <1>1, <1>3, <1>5, WorldNames DEF AllThere
  <2> HIDE DEF q
  <2>4. WindowKept(q, w, temp[w])
    BY <1>2, <2>1, <2>3 DEF WindowKept, TextKept, NameKept, ModeKept, TempKept, Alike, Saving
  <2> QED BY <1>1, <1>5, <2>2, <2>4, QuietStep DEF Open, disk
<1>6. CASE n # NoName /\ Exists(n) /\ fs' = fs /\ Become(w, [r EXCEPT !.pc = "load", !.time = fs[n].time])
  <2> DEFINE q == [r EXCEPT !.pc = "load", !.time = fs[n].time]
  <2>1. Alike(q, r) /\ q.pc = "load" BY <1>2 DEF WindowType, Alike
  <2>2. Become(w, q) BY <1>6
  <2> HIDE DEF q
  <2>3. WindowKept(q, w, temp[w])
    BY <1>1, <1>2, <2>1
      DEF WindowKept, TextKept, NameKept, ModeKept, TempKept, Alike, Saving, Working
  <2> QED BY <1>1, <1>6, <2>2, <2>3, QuietStep DEF Open, disk
<1>7. CASE /\ n # NoName /\ ~Exists(n) /\ fs' = [fs EXCEPT ![n] = Stamped(Empty)]
           /\ Become(w, [r EXCEPT !.pc = "load", !.time = Tick, !.deleteFile = TRUE])
  <2> DEFINE q == [r EXCEPT !.pc = "load", !.time = Tick, !.deleteFile = TRUE]
  <2>1. /\ q.pc = "load" /\ q.name = r.name /\ q.deleteFile = TRUE /\ q.convert = r.convert
        /\ q.target = r.target /\ q.cmd = r.cmd
    BY <1>2 DEF WindowType
  <2>2. Become(w, q) BY <1>7
  <2> HIDE DEF q
  <2>3. n \notin world.exists /\ ~AllThere(world) BY <1>1, <1>3, <1>4, <1>7 DEF AllThere
  <2>4. WindowKept(q, w, temp[w])
    BY <1>1, <1>2, <2>1, <2>3
      DEF WindowKept, TextKept, NameKept, ModeKept, TempKept, Saving, Working
  <2>5. WindowsKept' BY <1>1, <2>2, <2>4, BecomesKept
  <2>6. \A f \in world.exists : fs'[f] = fs[f]
    BY <1>7, <2>3, WorldNames DEF LInv, TInv, DiskOK
  <2>7. FilesKept' BY <1>1, <2>6, FilesStay
  <2> QED BY <2>5, <2>7 DEF SInv
<1> QED BY <1>5, <1>6, <1>7 DEF Open

\* What is loaded from such a file is whole.
LEMMA LoadKeeps ==
  ASSUME LInv, SInv, Safe, NEW w \in Windows, Load(w)
  PROVE  SInv'
<1> DEFINE r == win[w]  n == r.name
<1>1. r.pc = "load" /\ world' = world /\ UNCHANGED disk BY DEF Load, At
<1>2. r \in WindowType /\ WindowKept(r, w, temp[w]) /\ w \in world.windows
  BY <1>1, ActingWindow
<1>3. n = world.opens[w] BY <1>1, <1>2 DEF WindowKept, NameKept
<1>4. AllThere(world) \/ n \in world.exists => fs[n].text \in Written
  BY <1>1, <1>2, <1>3, WholeFiles DEF AllThere
<1>5. CASE Become(w, [r EXCEPT !.pc = "idle", !.buf = fs[n].text, !.base = fs[n].text])
  <2> DEFINE q == [r EXCEPT !.pc = "idle", !.buf = fs[n].text, !.base = fs[n].text]
  <2>1. /\ q.pc = "idle" /\ q.name = r.name /\ q.deleteFile = r.deleteFile /\ q.convert = r.convert
        /\ q.target = r.target /\ q.cmd = r.cmd /\ q.buf = fs[n].text
    BY <1>2 DEF WindowType
  <2>2. Become(w, q) BY <1>5
  <2> HIDE DEF q
  <2>3. WindowKept(q, w, temp[w])
    BY <1>2, <1>4, <2>1 DEF WindowKept, TextKept, NameKept, ModeKept, TempKept, Saving
  <2> QED BY <1>1, <1>2, <2>2, <2>3, QuietStep
<1>6. CASE Become(w, [r EXCEPT !.pc = "closed"])
  <2> DEFINE q == [r EXCEPT !.pc = "closed"]
  <2>1. Alike(q, r) /\ q.pc = "closed" BY <1>2, Fields
  <2>2. Become(w, q) BY <1>6
  <2> HIDE DEF q
  <2>3. WindowKept(q, w, temp[w])
    BY <1>2, <2>1 DEF WindowKept, TextKept, NameKept, ModeKept, TempKept, Saving, Working, Alike
  <2> QED BY <1>1, <1>2, <2>2, <2>3, QuietStep
<1>7. IF Exists(n) THEN Become(w, [r EXCEPT !.pc = "idle", !.buf = fs[n].text, !.base = fs[n].text])
      ELSE Become(w, [r EXCEPT !.pc = "closed"])
  BY DEF Load
<1> QED BY <1>5, <1>6, <1>7

\* What is typed is whole.
LEMMA TypeKeeps ==
  ASSUME LInv, SInv, Safe, NEW w \in Windows, Type(w)
  PROVE  SInv'
<1> DEFINE r == win[w]
           a == [r EXCEPT !.buf = texts + 1, !.modified = TRUE]
           b == [r EXCEPT !.buf = texts + 1, !.pc = "lockStat", !.cmd = "type", !.target = r.name]
<1>1. r.pc = "idle" /\ world' = world /\ UNCHANGED disk /\ texts <= MaxTexts BY DEF Type, At
<1>2. r \in WindowType /\ WindowKept(r, w, temp[w]) /\ w \in world.windows BY <1>1, ActingWindow
<1>3. texts + 1 \in Written BY <1>1, EditSaveAssumption DEF LInv, TInv, DiskOK, Written
<1>4. Become(w, a) \/ Become(w, b) BY DEF Type
<1>5. /\ a.pc = "idle" /\ a.name = r.name /\ a.deleteFile = r.deleteFile /\ a.convert = r.convert
      /\ a.target = r.target /\ a.cmd = r.cmd /\ a.buf = texts + 1
      /\ b.pc = "lockStat" /\ b.name = r.name /\ b.deleteFile = r.deleteFile /\ b.convert = r.convert
      /\ b.target = r.name /\ b.cmd = "type" /\ b.buf = texts + 1
  BY <1>1, <1>2 DEF WindowType
<1> HIDE DEF a, b
<1>6. WindowKept(a, w, temp[w])
  BY <1>2, <1>3, <1>5 DEF WindowKept, TextKept, NameKept, ModeKept, TempKept, Saving
<1>7. WindowKept(b, w, temp[w])
  BY <1>2, <1>3, <1>5 DEF WindowKept, TextKept, NameKept, ModeKept, TempKept, Saving
<1> QED BY <1>1, <1>2, <1>4, <1>6, <1>7, QuietStep

\* edit_save_cmd saves the window's own file.
LEMMA SaveCmdKeeps ==
  ASSUME NEW w, NEW r \in WindowType, NEW t, WindowKept(r, w, t), Working(r)
  PROVE  WindowKept(SaveCmd(r), w, t)
<1> DEFINE y == IF r.name = NoName THEN "askName" ELSE IF r.locked \/ r.deleteFile THEN "stat" ELSE "lockStat"
<1>1. SaveCmd(r) = [r EXCEPT !.cmd = "save", !.target = r.name, !.saveLock = FALSE, !.asked = FALSE, !.pc = y]
  BY DEF SaveCmd
<1>2. y \in {"askName", "stat", "lockStat"} OBVIOUS
<1> HIDE DEF y
<1>3. /\ SaveCmd(r).pc = y /\ SaveCmd(r).name = r.name /\ SaveCmd(r).deleteFile = r.deleteFile
      /\ SaveCmd(r).convert = r.convert /\ SaveCmd(r).target = r.name /\ SaveCmd(r).cmd = "save"
      /\ SaveCmd(r).buf = r.buf
  BY <1>1 DEF WindowType
<1> QED BY <1>2, <1>3 DEF WindowKept, TextKept, NameKept, ModeKept, TempKept, Saving, Working

LEMMA CommandsKeep ==
  ASSUME LInv, SInv, Safe, NEW w \in Windows, Save(w) \/ SaveAs(w) \/ Close(w)
  PROVE  SInv'
<1> DEFINE r == win[w]  c == Counted(w)
<1>1. r.pc = "idle" /\ world' = world /\ UNCHANGED disk BY DEF Save, SaveAs, Close, Commanded, At, disk
<1>2. r \in WindowType /\ WindowKept(r, w, temp[w]) /\ w \in world.windows BY <1>1, ActingWindow
<1>3. c \in WindowType /\ Alike(c, r) /\ c.pc = "idle" BY <1>1, <1>2, CountedIs
<1>4. \/ Become(w, SaveCmd(c)) \/ Become(w, [c EXCEPT !.pc = "askName"])
      \/ Become(w, [c EXCEPT !.pc = "askSave"]) \/ Become(w, Leave(c))
  BY DEF Save, SaveAs, Close
<1> HIDE DEF c
<1>5. WindowKept(c, w, temp[w])
  BY <1>1, <1>2, <1>3, GoesOn DEF Working, Saving
<1>6. Working(c) BY <1>3 DEF Working
<1>7. CASE Become(w, SaveCmd(c)) BY <1>1, <1>2, <1>3, <1>5, <1>6, <1>7, SaveCmdKeeps, QuietStep
<1>8. CASE Become(w, Leave(c))
  <2>1. Alike(Leave(c), c) /\ Leave(c).pc \in {"unlock", "clean"} BY <1>3, LeaveIs
  <2>2. WindowKept(Leave(c), w, temp[w]) BY <2>1, <1>5, <1>6, GoesOn DEF Saving
  <2> QED BY <1>1, <1>2, <1>8, <2>2, QuietStep
<1>9. ASSUME NEW x \in {"askName", "askSave"}, Become(w, [c EXCEPT !.pc = x]) PROVE SInv'
  <2> DEFINE q == [c EXCEPT !.pc = x]
  <2>1. Alike(q, c) /\ q.pc = x BY <1>3, Fields
  <2>2. Become(w, q) BY <1>9
  <2> HIDE DEF q
  <2>3. WindowKept(q, w, temp[w]) BY <1>9, <2>1, <1>5, <1>6, GoesOn DEF Saving
  <2> QED BY <1>1, <1>2, <2>2, <2>3, QuietStep
<1> QED BY <1>4, <1>7, <1>8, <1>9

LEMMA AskSaveKeeps ==
  ASSUME LInv, SInv, Safe, NEW w \in Windows, AskSave(w)
  PROVE  SInv'
<1> DEFINE r == win[w]  c == [r EXCEPT !.closing = "asked"]  d == [r EXCEPT !.saidNo = TRUE]
<1>1. r.pc = "askSave" /\ world' = world /\ UNCHANGED disk BY DEF AskSave, At, disk
<1>2. r \in WindowType /\ WindowKept(r, w, temp[w]) /\ w \in world.windows BY <1>1, ActingWindow
<1>3. c \in WindowType /\ d \in WindowType BY <1>2 DEF WindowType
<1>4. Alike(c, r) /\ c.pc = "askSave" /\ Alike(d, r) /\ d.pc = "askSave" BY <1>1, <1>2, Fields
<1>5. Become(w, SaveCmd(c)) \/ Become(w, Leave(d)) \/ Goto(w, "idle") BY DEF AskSave
<1> HIDE DEF c, d
<1>6. Working(r) /\ Working(c) /\ Working(d) BY <1>1, <1>4 DEF Working
<1>7. WindowKept(c, w, temp[w]) /\ WindowKept(d, w, temp[w]) BY <1>2, <1>4, <1>6, GoesOn DEF Saving
<1>8. CASE Become(w, SaveCmd(c)) BY <1>1, <1>2, <1>3, <1>6, <1>7, <1>8, SaveCmdKeeps, QuietStep
<1>9. CASE Become(w, Leave(d))
  <2>1. Alike(Leave(d), d) /\ Leave(d).pc \in {"unlock", "clean"} BY <1>3, LeaveIs
  <2>2. WindowKept(Leave(d), w, temp[w]) BY <2>1, <1>6, <1>7, GoesOn DEF Saving
  <2> QED BY <1>1, <1>2, <1>9, <2>2, QuietStep
<1>10. CASE Goto(w, "idle")
  <2> DEFINE q == [r EXCEPT !.pc = "idle"]
  <2>1. Alike(q, r) /\ q.pc = "idle" BY <1>2, Fields
  <2>2. Become(w, q) BY <1>10, GotoIsBecome
  <2> HIDE DEF q
  <2> QED BY <1>1, <1>6, <2>1, <2>2, PlainStep DEF Saving
<1> QED BY <1>5, <1>8, <1>9, <1>10

\* A new name is that of a file that was there only where all texts are whole.
LEMMA AskNameKeeps ==
  ASSUME LInv, SInv, Safe, NEW w \in Windows, AskName(w)
  PROVE  SInv'
<1> DEFINE r == win[w]
<1>1. r.pc = "askName" /\ world' = world /\ UNCHANGED disk BY DEF AskName, At, disk
<1>2. r \in WindowType /\ WindowKept(r, w, temp[w]) /\ w \in world.windows BY <1>1, ActingWindow
<1>3. Working(r) BY <1>1 DEF Working
<1>4. CASE Become(w, Finish(r, FALSE))
  <2>1. Alike(Finish(r, FALSE), r) /\ Finish(r, FALSE).pc \in {"unlock", "clean", "idle"} BY <1>2, FinishIs
  <2> QED BY <1>1, <1>3, <1>4, <2>1, PlainStep DEF Saving
<1>5. ASSUME NEW n \in world.targets, NEW lb \in {FALSE, world.convert},
             Become(w, [[r EXCEPT !.cmd = "saveAs", !.target = n, !.convert = lb, !.saveLock = FALSE, !.asked = FALSE]
                        EXCEPT !.pc = CASE n # r.name /\ Exists(n) -> "askOver"
                                        [] n = r.name /\ (r.locked \/ r.deleteFile) -> "stat"
                                        [] OTHER -> "lockStat"])
      PROVE  SInv'
  <2> DEFINE x == CASE n # r.name /\ Exists(n) -> "askOver"
                    [] n = r.name /\ (r.locked \/ r.deleteFile) -> "stat"
                    [] OTHER -> "lockStat"
             q == [r EXCEPT !.cmd = "saveAs", !.target = n, !.convert = lb, !.saveLock = FALSE, !.asked = FALSE, !.pc = x]
  <2>1. x \in {"askOver", "stat", "lockStat"} OBVIOUS
  <2> HIDE DEF x
  <2>2. Become(w, q) BY <1>5 DEF x
  <2>3. /\ q.pc = x /\ q.name = r.name /\ q.deleteFile = r.deleteFile
        /\ q.convert = lb /\ q.target = n /\ q.cmd = "saveAs" /\ q.buf = r.buf
    BY <1>2 DEF WindowType
  <2> HIDE DEF q
  <2>4. lb => world.convert BY <1>5, WorldNames
  <2>5. ~AllThere(world) => n \notin world.exists BY <1>5 DEF Safe, Kept
  <2>6. AllThere(world) /\ world.convert => n \in world.exists BY <1>5 DEF AllThere
  <2>7. TextKept(q) BY <1>2, <1>3, <2>3 DEF WindowKept, TextKept
  <2>8. NameKept(q, w) BY <1>2, <2>1, <2>3, <2>4, <2>5, <2>6 DEF WindowKept, NameKept
  <2>9. ModeKept(q) /\ TempKept(q, temp[w]) BY <2>1, <2>3 DEF ModeKept, TempKept, Saving
  <2> QED BY <1>1, <1>2, <2>2, <2>7, <2>8, <2>9, QuietStep DEF WindowKept
<1> QED BY <1>4, <1>5 DEF AskName

LEMMA AskOverKeeps ==
  ASSUME LInv, SInv, Safe, NEW w \in Windows, AskOver(w)
  PROVE  SInv'
<1> DEFINE r == win[w]  q == [r EXCEPT !.pc = "lockStat", !.asked = TRUE]
<1>1. r.pc = "askOver" /\ world' = world /\ UNCHANGED disk BY DEF AskOver, At, disk
<1>2. r \in WindowType BY <1>1, ActingWindow
<1>3. Working(r) BY <1>1 DEF Working
<1>4. Alike(q, r) /\ q.pc = "lockStat" BY <1>2 DEF WindowType, Alike
<1>5. Become(w, q) \/ Become(w, Finish(r, FALSE)) BY DEF AskOver
<1> HIDE DEF q
<1>6. Alike(Finish(r, FALSE), r) /\ Finish(r, FALSE).pc \in {"unlock", "clean", "idle"} BY <1>2, FinishIs
<1> QED BY <1>1, <1>3, <1>4, <1>5, <1>6, PlainStep DEF Saving

-----------------------------------------------------------------------------
(* The steps of edit_save_file                                             *)

\* A file that was there is there when it is looked at, and so it is saved in the mode
\* that the user has chosen.
LEMMA StatKeeps ==
  ASSUME LInv, SInv, Safe, NEW w \in Windows, Stat(w)
  PROVE  SInv'
<1> DEFINE r == win[w]  sb == fs[r.target]
           mode == IF sb.text = NoText THEN "quick" ELSE world.mode
           c == [r EXCEPT !.sb = sb, !.mode = mode]  a == [c EXCEPT !.pc = "askLinks"]
<1>1. r.pc = "stat" /\ world' = world /\ UNCHANGED disk BY DEF Stat, At, disk
<1>2. r \in WindowType /\ WinOK(r) /\ WindowKept(r, w, temp[w]) /\ w \in world.windows BY <1>1, ActingWindow
<1>3. r.target \in Names BY <1>1, <1>2 DEF WinOK, SavingOK, Saving
<1>4. sb \in Files BY <1>3 DEF LInv, TInv, DiskOK
<1>5. mode \in Modes BY WorldNames DEF Modes
<1>6. r.target \in world.exists => mode = world.mode /\ mode # "quick"
  BY <1>1, <1>2, WholeFiles DEF Safe, NoText, Written
<1>7. \/ mode = "quick" /\ Become(w, a)
      \/ Become(w, CheckTime(c))
  BY DEF Stat
<1> HIDE DEF sb, mode
<1>8. c \in WindowType BY <1>2, <1>4, <1>5 DEF WindowType
<1>9. /\ c.pc = r.pc /\ c.name = r.name /\ c.deleteFile = r.deleteFile /\ c.convert = r.convert
      /\ c.target = r.target /\ c.cmd = r.cmd /\ c.buf = r.buf /\ c.mode = mode
  BY <1>2 DEF WindowType
<1> HIDE DEF c
<1>10. ASSUME NEW q, Alike(q, c), q.pc \in {"askLinks", "askTime", "open", "temp"},
              q.pc = "askLinks" => mode = "quick", Become(w, q)
       PROVE  SInv'
  <2>1. TextKept(q) BY <1>1, <1>2, <1>9, <1>10 DEF WindowKept, TextKept, Working, Alike
  <2>2. NameKept(q, w) BY <1>1, <1>2, <1>9, <1>10 DEF WindowKept, NameKept, Alike
  <2>3. ModeKept(q) /\ TempKept(q, temp[w]) BY <1>6, <1>9, <1>10 DEF ModeKept, TempKept, Alike, Saving
  <2> QED BY <1>1, <1>2, <1>10, <2>1, <2>2, <2>3, QuietStep DEF WindowKept
<1>11. Alike(CheckTime(c), c) /\ CheckTime(c).pc \in {"askTime", "open", "temp"} BY <1>8, CheckTimeIs
<1>12. Alike(a, c) /\ a.pc = "askLinks" BY <1>8, Fields
<1> HIDE DEF a
<1> QED BY <1>7, <1>10, <1>11, <1>12

\* The question about links is one for other files.
LEMMA AskLinksKeeps ==
  ASSUME LInv, SInv, Safe, NEW w \in Windows, AskLinks(w)
  PROVE  SInv'
<1> DEFINE r == win[w]
           c == [r EXCEPT !.skip = TRUE, !.mode = "safe"]  d == [r EXCEPT !.skip = TRUE]
<1>1. r.pc = "askLinks" /\ world' = world /\ UNCHANGED disk BY DEF AskLinks, At, disk
<1>2. r \in WindowType /\ WindowKept(r, w, temp[w]) /\ w \in world.windows BY <1>1, ActingWindow
<1>3. r.target \notin world.exists BY <1>1, <1>2 DEF WindowKept, ModeKept, Saving
<1>4. Become(w, CheckTime(c)) \/ Become(w, CheckTime(d)) \/ Become(w, Result(r, "abort"))
  BY DEF AskLinks
<1>5. c \in WindowType /\ d \in WindowType BY <1>2 DEF WindowType, Modes
<1>6. /\ c.name = r.name /\ c.deleteFile = r.deleteFile /\ c.convert = r.convert
      /\ c.target = r.target /\ c.cmd = r.cmd /\ c.buf = r.buf
      /\ d.name = r.name /\ d.deleteFile = r.deleteFile /\ d.convert = r.convert
      /\ d.target = r.target /\ d.cmd = r.cmd /\ d.buf = r.buf
  BY <1>2 DEF WindowType
<1> HIDE DEF c, d
<1>7. ASSUME NEW e \in {c, d}, Become(w, CheckTime(e)) PROVE SInv'
  <2> DEFINE q == CheckTime(e)
  <2>1. Alike(q, e) /\ q.pc \in {"askTime", "open", "temp"} BY <1>5, <1>7, CheckTimeIs
  <2>2. Become(w, q) BY <1>7
  <2> HIDE DEF q
  <2>3. /\ q.name = r.name /\ q.deleteFile = r.deleteFile /\ q.convert = r.convert
        /\ q.target = r.target /\ q.cmd = r.cmd /\ q.buf = r.buf
    BY <2>1, <1>6, <1>7 DEF Alike
  <2>4. TextKept(q) BY <1>1, <1>2, <2>3 DEF WindowKept, TextKept, Working
  <2>5. NameKept(q, w) BY <1>1, <1>2, <2>1, <2>3 DEF WindowKept, NameKept
  <2>6. ModeKept(q) /\ TempKept(q, temp[w]) BY <1>3, <2>1, <2>3 DEF ModeKept, TempKept, Saving
  <2> QED BY <1>1, <1>2, <2>2, <2>4, <2>5, <2>6, QuietStep DEF WindowKept
<1>8. CASE Become(w, Result(r, "abort"))
  BY <1>1, <1>2, <1>8, ResultIs, PlainStep DEF Saving, Working
<1> QED BY <1>4, <1>7, <1>8

LEMMA AskTimeKeeps ==
  ASSUME LInv, SInv, Safe, NEW w \in Windows, AskTime(w)
  PROVE  SInv'
<1> DEFINE r == win[w]  x == IF r.mode = "quick" THEN "open" ELSE "temp"
           q == [r EXCEPT !.asked = TRUE, !.pc = x]
<1>1. r.pc = "askTime" /\ world' = world /\ UNCHANGED disk BY DEF AskTime, At, disk
<1>2. r \in WindowType /\ WindowKept(r, w, temp[w]) /\ w \in world.windows BY <1>1, ActingWindow
<1>3. Become(w, q) \/ Become(w, Result(r, "abort")) BY DEF AskTime
<1>4. x \in {"open", "temp"} OBVIOUS
<1> HIDE DEF x
<1>5. Alike(q, r) /\ q.pc = x BY <1>2 DEF WindowType, Alike
<1> HIDE DEF q
<1>6. WindowKept(q, w, temp[w]) BY <1>1, <1>2, <1>4, <1>5, SavesOn DEF Saving
<1>7. CASE Become(w, Result(r, "abort"))
  BY <1>1, <1>2, <1>7, ResultIs, PlainStep DEF Saving, Working
<1> QED BY <1>1, <1>2, <1>3, <1>6, <1>7, QuietStep

\* A failed call in the middle of a save.
LEMMA FailedStep ==
  ASSUME LInv, SInv, Safe, NEW w \in Windows, win[w].pc \in Saving \ {"rename"}, world' = world,
         \A n \in world.exists : fs'[n] = fs[n],
         \A v \in Windows \ {w} : temp'[v] = temp[v],
         NEW c, Alike(c, win[w]), c \in WindowType, NEW x, Become(w, Result(c, x))
  PROVE  SInv'
<1> DEFINE r == win[w]  q == Result(c, x)
<1>1. r \in WindowType /\ WindowKept(r, w, temp[w]) /\ w \in world.windows
  BY ActingWindow DEF Saving
<1>2. Working(r) /\ r.pc # "dead" BY DEF Working, Saving
<1>3. Alike(q, c) /\ q.pc \in {"settle", "unlock"} BY ResultIs
<1>4. win'[w] = q /\ \A v \in Windows \ {w} : win'[v] = win[v] BY DEF LInv, TInv, Become
<1> HIDE DEF q
<1>5. Alike(q, r) BY <1>3 DEF Alike
<1>6. WindowKept(q, w, temp'[w]) BY <1>1, <1>2, <1>3, <1>5, GoesOn DEF Saving
<1>7. WindowsKept' BY <1>4, <1>6, WindowsStay, Itself
<1>8. FilesKept' BY <1>1, <1>2, FilesStay
<1> QED BY <1>7, <1>8 DEF SInv

LEMMA MakeTempKeeps ==
  ASSUME LInv, SInv, Safe, NEW w \in Windows, MakeTemp(w)
  PROVE  SInv'
<1> DEFINE r == win[w]  q == [r EXCEPT !.pc = "open"]
<1>1. r.pc = "temp" /\ world' = world /\ fs' = fs BY DEF MakeTemp, At
<1>2. r \in WindowType /\ WindowKept(r, w, temp[w]) /\ w \in world.windows BY <1>1, ActingWindow
<1>3. CASE temp' = [temp EXCEPT ![w] = Stamped(Empty)] /\ Goto(w, "open")
  <2>1. Become(w, q) BY <1>3, GotoIsBecome
  <2>2. Alike(q, r) /\ q.pc = "open" BY <1>2, Fields
  <2>3. win'[w] = q /\ \A v \in Windows \ {w} : win'[v] = win[v] BY <2>1 DEF LInv, TInv, Become
  <2> HIDE DEF q
  <2>4. \A v \in Windows \ {w} : temp'[v] = temp[v] BY <1>3 DEF LInv, TInv, DiskOK
  <2>5. WindowKept(q, w, temp'[w]) BY <1>1, <1>2, <2>2, SavesOn DEF Saving
  <2>6. WindowsKept' BY <1>1, <2>3, <2>4, <2>5, WindowsStay, Itself
  <2>7. FilesKept' BY <1>1, <1>2, FilesStay
  <2> QED BY <2>6, <2>7 DEF SInv
<1>4. CASE Become(w, Result(r, "error")) /\ temp' = temp
  BY <1>1, <1>2, <1>4, FailedStep, Itself DEF Saving
<1> QED BY <1>3, <1>4 DEF MakeTemp

\* A quick save cuts only other files.
LEMMA OpenToWriteKeeps ==
  ASSUME LInv, SInv, Safe, NEW w \in Windows, OpenToWrite(w)
  PROVE  SInv'
<1> DEFINE r == win[w]  n == r.target  q == [r EXCEPT !.pc = "write", !.fd = "name"]
           p == [r EXCEPT !.pc = "write"]
           f == [text |-> Part, time |-> Tick, linked |-> fs[n].linked]
<1>1. r.pc = "open" /\ world' = world /\ temp' = temp BY DEF OpenToWrite, At
<1>2. r \in WindowType /\ WindowKept(r, w, temp[w]) /\ w \in world.windows BY <1>1, ActingWindow
<1>3. Alike(q, r) /\ q.pc = "write" BY <1>2 DEF WindowType, Alike
<1>4. Alike(p, r) /\ p.pc = "write" BY <1>2, Fields
<1>5. CASE r.mode = "quick" /\ fs' = [fs EXCEPT ![n] = f] /\ Become(w, q)
  <2> HIDE DEF q, f
  <2>1. n \notin world.exists BY <1>1, <1>2, <1>5 DEF WindowKept, ModeKept, Safe, Saving
  <2>2. \A m \in world.exists : fs'[m] = fs[m] BY <2>1, <1>5, WorldNames DEF LInv, TInv, DiskOK
  <2>3. WindowKept(q, w, temp[w]) BY <1>1, <1>2, <1>3, SavesOn DEF Saving
  <2>4. WindowsKept' BY <1>1, <1>5, <2>3, BecomesKept
  <2>5. FilesKept' BY <1>1, <1>2, <2>2, FilesStay
  <2> QED BY <2>4, <2>5 DEF SInv
<1>6. CASE Goto(w, "write") /\ fs' = fs
  <2>1. Become(w, p) BY <1>6, GotoIsBecome
  <2> HIDE DEF p
  <2>2. WindowKept(p, w, temp[w]) BY <1>1, <1>2, <1>4, SavesOn DEF Saving
  <2>3. WindowsKept' BY <1>1, <2>1, <2>2, BecomesKept
  <2>4. FilesKept' BY <1>1, <1>2, <1>6, FilesStay
  <2> QED BY <2>3, <2>4 DEF SInv
<1>7. CASE Become(w, Result(r, "error")) /\ fs' = fs
  BY <1>1, <1>2, <1>7, FailedStep, Itself DEF Saving
<1> QED BY <1>5, <1>6, <1>7 DEF OpenToWrite

\* Where a write goes: never to a file that was there at the start.
LEMMA PutElsewhere ==
  ASSUME LInv, SInv, Safe, NEW w \in Windows, win[w].pc = "write", NEW t, Put(w, t)
  PROVE  /\ \A n \in world.exists : fs'[n] = fs[n]
         /\ \A v \in Windows \ {w} : temp'[v] = temp[v]
         /\ win[w].mode # "quick" => temp'[w].text = t
<1> DEFINE r == win[w]  n == r.target  f == [text |-> t, time |-> Tick, linked |-> fs[n].linked]
<1>1. WindowKept(r, w, temp[w]) BY ActingWindow
<1>2. temp \in [Windows -> Files] /\ fs \in [Names -> Files] BY DEF LInv, TInv, DiskOK
<1>3. CASE r.mode # "quick"
  <2>1. temp' = [temp EXCEPT ![w] = Stamped(t)] /\ fs' = fs BY <1>3 DEF Put
  <2>2. Stamped(t).text = t BY DEF Stamped
  <2> QED BY <2>1, <2>2, <1>2
<1>4. CASE r.mode = "quick"
  <2>1. n \notin world.exists BY <1>1, <1>4 DEF WindowKept, ModeKept, Safe, Saving
  <2>2. (fs' = fs \/ fs' = [fs EXCEPT ![n] = f]) /\ temp' = temp BY <1>4 DEF Put, disk
  <2> HIDE DEF f
  <2> QED BY <1>2, <1>4, <2>1, <2>2, WorldNames
<1> QED BY <1>3, <1>4

\* When edit_save_file goes on with its temporary file, that is whole.
LEMMA WroteKeeps ==
  ASSUME LInv, SInv, Safe, NEW w \in Windows, win[w].pc = "write", world' = world, DiskOK',
         Put(w, win[w].buf), Become(w, Wrote(w))
  PROVE  SInv'
<1> DEFINE r == win[w]
           plain == ~world.filter /\ ~r.convert
           saved == IF r.mode = "quick" THEN fs'[r.target] ELSE temp'[w]
           t == IF plain THEN saved.time ELSE r.time
           b == IF r.mode = "quick" THEN saved.text ELSE r.base
           c == [r EXCEPT !.time = t, !.base = b]
           x == IF r.mode = "backup" THEN "backup" ELSE "rename"
           q == [r EXCEPT !.time = t, !.base = b, !.pc = x]
<1>1. r \in WindowType /\ WindowKept(r, w, temp[w]) /\ w \in world.windows BY ActingWindow
<1>2. Wrote(w) = IF plain /\ saved.text = NoText THEN Result(r, "error")
                 ELSE IF r.mode = "quick" THEN Result(c, "ok") ELSE [c EXCEPT !.pc = x]
  BY DEF Wrote
<1>3. /\ \A n \in world.exists : fs'[n] = fs[n]
      /\ \A v \in Windows \ {w} : temp'[v] = temp[v]
      /\ r.mode # "quick" => temp'[w].text = r.buf
  BY PutElsewhere
<1> HIDE DEF plain, saved, t, b
<1>4. CASE Become(w, Result(r, "error")) BY <1>1, <1>3, <1>4, FailedStep, Itself DEF Saving
<1>5. CASE Become(w, Result(c, "ok"))
  <2>1. WinOK(r) /\ r.target \in Names BY Acting DEF WinOK, SavingOK, Saving
  <2>2. saved \in Files BY <2>1 DEF DiskOK, saved
  <2>3. t \in Times /\ b \in Texts BY <1>1, <2>2 DEF Files, WindowType, t, b
  <2>4. c \in WindowType BY <1>1, <2>1, <2>3, SaveStamped DEF WinOK, Saving
  <2>5. Alike(c, r) BY <1>1 DEF WindowType, Alike
  <2> HIDE DEF c
  <2> QED BY <1>1, <1>3, <1>5, <2>4, <2>5, FailedStep DEF Saving
<1>6. CASE r.mode # "quick" /\ Become(w, [c EXCEPT !.pc = x])
  <2>1. Become(w, q) BY <1>6
  <2>2. x \in {"backup", "rename"} /\ (x = "backup" => r.mode = "backup") OBVIOUS
  <2> HIDE DEF x, c
  <2>3. Alike(q, r) /\ q.pc = x BY <1>1 DEF WindowType, Alike
  <2> HIDE DEF q
  <2>4. r.target \in world.exists => r.buf \in Written
    BY <1>1 DEF WindowKept, TextKept, NameKept, Working
  <2>5. WindowKept(q, w, temp'[w])
    <3>1. TextKept(q) /\ NameKept(q, w) BY <1>1, <2>2, <2>3 DEF WindowKept, TextKept, NameKept, Working, Alike
    <3>2. ModeKept(q) BY <1>1, <2>2, <2>3 DEF WindowKept, ModeKept, Alike, Saving
    <3>3. TempKept(q, temp'[w]) BY <1>3, <1>6, <2>3, <2>4 DEF TempKept, Alike
    <3> QED BY <3>1, <3>2, <3>3 DEF WindowKept
  <2>6. win'[w] = q /\ \A v \in Windows \ {w} : win'[v] = win[v] BY <2>1 DEF LInv, TInv, Become
  <2>7. WindowsKept' BY <2>5, <2>6, <1>3, WindowsStay, Itself
  <2>8. FilesKept' BY <1>1, <1>3, FilesStay
  <2> QED BY <2>7, <2>8 DEF SInv
<1> QED BY <1>2, <1>4, <1>5, <1>6

LEMMA WritesKeep ==
  ASSUME LInv, SInv, Safe, NEW w \in Windows, WriteAll(w) \/ WriteFails(w) \/ CloseFails(w)
  PROVE  SInv'
<1> DEFINE r == win[w]
<1>1. r.pc = "write" /\ world' = world BY DEF WriteAll, WriteFails, CloseFails, At
<1>2. r \in WindowType /\ WindowKept(r, w, temp[w]) BY <1>1, ActingWindow
<1>3. CASE WriteAll(w)
  <2>1. Put(w, r.buf) /\ Become(w, Wrote(w)) /\ UNCHANGED <<world, link, alive, texts, bold, missed>>
    BY <1>3 DEF WriteAll
  <2>2. DiskOK' BY <1>1, <1>2, <2>1, PutTyped DEF WindowType
  <2> QED BY <1>1, <2>1, <2>2, WroteKeeps
<1>4. CASE WriteFails(w)
  <2>1. Put(w, Part) /\ Become(w, Result(r, "error")) BY <1>4 DEF WriteFails
  <2> QED BY <1>1, <1>2, <2>1, PutElsewhere, FailedStep, Itself DEF Saving
<1>5. CASE CloseFails(w) BY <1>2, <1>5 DEF CloseFails, Safe, Kept, WindowKept, NameKept
<1> QED BY <1>3, <1>4, <1>5

-----------------------------------------------------------------------------
(* The two renames                                                         *)

\* The windows that have a renamed or unlinked file open do not notice.
LEMMA MovedAlike ==
  ASSUME LInv, NEW w \in Windows, NEW q, NEW n, NEW x, win' = [Moved(win, n, x) EXCEPT ![w] = q]
  PROVE  /\ win'[w] = q
         /\ \A v \in Windows \ {w} : Alike(win'[v], win[v]) /\ win'[v].pc = win[v].pc
<1>1. win'[w] = q /\ \A v \in Windows \ {w} : win'[v] = Moved(win, n, x)[v] BY DEF Moved
<1>2. ASSUME NEW v \in Windows
      PROVE  Alike(Moved(win, n, x)[v], win[v]) /\ Moved(win, n, x)[v].pc = win[v].pc
  <2>1. win[v] \in WindowType BY DEF LInv, TInv, WinOK
  <2>2. Moved(win, n, x)[v] \in {[win[v] EXCEPT !.fd = x], win[v]} BY DEF Moved
  <2> QED BY <2>1, <2>2 DEF WindowType, Alike
<1> QED BY <1>1, <1>2

\* After the first rename the temporary file is the one that is whole.
LEMMA BackupKeeps ==
  ASSUME LInv, SInv, Safe, NEW w \in Windows, Backup(w)
  PROVE  SInv'
<1> DEFINE r == win[w]  n == r.target  q == [r EXCEPT !.pc = "rename"]
<1>1. r.pc = "backup" /\ world' = world /\ temp' = temp BY DEF Backup, At
<1>2. r \in WindowType /\ WinOK(r) /\ WindowKept(r, w, temp[w]) /\ w \in world.windows
  BY <1>1, ActingWindow
<1>3. n \in Names /\ r.fd = "none" BY <1>1, <1>2 DEF WinOK, SavingOK, Saving, WindowType
<1>4. Alike(q, r) /\ q.pc = "rename" BY <1>2, Fields
<1>5. CASE /\ fs' = [fs EXCEPT ![n] = Absent]
           /\ win' = [Moved(win, n, "backup") EXCEPT ![w].pc = "rename"]
  <2>1. Moved(win, n, "backup")[w] = r BY <1>3 DEF Moved
  <2>2. win' = [Moved(win, n, "backup") EXCEPT ![w] = q] BY <1>5, <2>1
  <2> HIDE DEF q
  <2>3. win'[w] = q /\ \A v \in Windows \ {w} : Alike(win'[v], win[v]) /\ win'[v].pc = win[v].pc
    BY <2>2, MovedAlike
  <2>4. WindowKept(q, w, temp[w])
    <3>1. TextKept(q) /\ NameKept(q, w) BY <1>1, <1>2, <1>4 DEF WindowKept, TextKept, NameKept, Working, Alike
    <3>2. ModeKept(q) BY <1>1, <1>2, <1>4 DEF WindowKept, ModeKept, Alike, Saving
    <3>3. TempKept(q, temp[w]) BY <1>1, <1>2, <1>4 DEF WindowKept, TempKept, Alike
    <3> QED BY <3>1, <3>2, <3>3 DEF WindowKept
  <2>5. WindowsKept' BY <1>1, <2>3, <2>4, WindowsStay
  <2>6. FilesKept'
    <3>1. ASSUME NEW m \in world.exists PROVE Survives(m)'
      <4>1. CASE m # n
        <5>1. fs'[m] = fs[m] BY <1>5, <4>1, WorldNames DEF LInv, TInv, DiskOK
        <5>2. fs[m].text \in Written BY <1>1, <1>2, WholeFiles
        <5> QED BY <5>1, <5>2 DEF Survives
      <4>2. CASE m = n
        <5>1. temp[w].text \in Written /\ world.mode = "backup"
          BY <1>1, <1>2, <3>1, <4>2 DEF WindowKept, TempKept, ModeKept, Saving
        <5>2. win'[w].pc = "rename" /\ win'[w].target = n BY <1>4, <2>3 DEF Alike
        <5> QED BY <5>1, <5>2, <1>1, <1>2, <4>2 DEF Survives
      <4> QED BY <4>1, <4>2
    <3> QED BY <3>1, <1>1 DEF FilesKept
  <2> QED BY <2>5, <2>6 DEF SInv
<1>6. CASE Become(w, Result(r, "error")) /\ fs' = fs
  BY <1>1, <1>2, <1>6, FailedStep, Itself DEF Saving
<1> QED BY <1>5, <1>6 DEF Backup

\* The second rename puts a whole file in the place of the other; when it fails there is
\* no backup, and the file is where it was.
LEMMA RenameKeeps ==
  ASSUME LInv, SInv, Safe, NEW w \in Windows, Rename(w)
  PROVE  SInv'
<1> DEFINE r == win[w]  n == r.target  c == [r EXCEPT !.base = temp[w].text]  q == Result(c, "ok")
           e == Result(r, "error")
<1>1. r.pc = "rename" /\ world' = world BY DEF Rename, At
<1>2. r \in WindowType /\ WinOK(r) /\ WindowKept(r, w, temp[w]) /\ w \in world.windows
  BY <1>1, ActingWindow
<1>3. n \in Names BY <1>1, <1>2 DEF WinOK, SavingOK, Saving
<1>4. Working(r) BY <1>1 DEF Working
<1>5. CASE /\ fs' = [fs EXCEPT ![n] = temp[w]] /\ temp' = [temp EXCEPT ![w] = Absent]
           /\ win' = [Moved(win, n, "gone") EXCEPT ![w] = q]
  <2>1. temp[w] \in Files /\ fs \in [Names -> Files] /\ temp \in [Windows -> Files]
    BY DEF LInv, TInv, DiskOK
  <2>2. c \in WindowType /\ Alike(c, r) BY <1>2, <2>1 DEF WindowType, Alike, Files
  <2>3. Alike(q, c) /\ q.pc \in {"settle", "unlock"} BY <2>2, ResultIs
  <2> HIDE DEF c, q
  <2>4. Alike(q, r) BY <2>2, <2>3 DEF Alike
  <2>5. win'[w] = q /\ \A v \in Windows \ {w} : Alike(win'[v], win[v]) /\ win'[v].pc = win[v].pc
    BY <1>5, MovedAlike
  <2>6. \A v \in Windows \ {w} : temp'[v] = temp[v] BY <1>5, <2>1
  <2>7. WindowKept(q, w, temp'[w]) BY <1>2, <1>4, <2>3, <2>4, GoesOn DEF Saving
  <2>8. WindowsKept' BY <1>1, <2>5, <2>6, <2>7, WindowsStay
  <2>9. FilesKept'
    <3>1. ASSUME NEW m \in world.exists PROVE Survives(m)'
      <4>1. CASE m # n
        <5>1. fs'[m] = fs[m] BY <1>5, <2>1, <4>1, WorldNames
        <5>2. fs[m].text \in Written
          BY <1>1, <1>2, <3>1, <4>1 DEF SInv, FilesKept, Survives, Safe, Kept
        <5> QED BY <5>1, <5>2 DEF Survives
      <4>2. CASE m = n
        <5>1. temp[w].text \in Written BY <1>1, <1>2, <3>1, <4>2 DEF WindowKept, TempKept
        <5>2. fs'[m] = temp[w] BY <1>3, <1>5, <2>1, <4>2
        <5> QED BY <5>1, <5>2 DEF Survives
      <4> QED BY <4>1, <4>2
    <3> QED BY <3>1, <1>1 DEF FilesKept
  <2> QED BY <2>8, <2>9 DEF SInv
<1>6. CASE world.fail /\ Become(w, e) /\ UNCHANGED <<fs, temp>>
  <2>1. Alike(e, r) /\ e.pc \in {"settle", "unlock"} BY <1>2, ResultIs
  <2> HIDE DEF e
  <2>2. WindowKept(e, w, temp[w]) BY <1>2, <1>4, <2>1, GoesOn DEF Saving
  <2>3. WindowsKept' BY <1>1, <1>6, <2>2, BecomesKept
  <2>4. world.mode # "backup" BY <1>6 DEF Safe, Kept
  <2>5. FilesKept' BY <1>1, <1>6, <2>4 DEF SInv, FilesKept, Survives
  <2> QED BY <2>3, <2>5 DEF SInv
<1> QED BY <1>5, <1>6 DEF Rename

-----------------------------------------------------------------------------
(* After a save                                                            *)

\* A window that has saved takes the name of its file.
LEMMA SettledSaved ==
  ASSUME NEW w, NEW t, NEW r \in WindowType, r.res = "ok",
         AllThere(world) \/ r.target \in world.exists => r.buf \in Written,
         r.convert => world.convert,
         AllThere(world) /\ world.convert /\ r.cmd = "saveAs" => r.target \in world.exists
  PROVE  WindowKept(Settled(r), w, t)
<1> DEFINE c == [r EXCEPT !.modified = FALSE, !.deleteFile = FALSE, !.name = r.target]
           q == Finish(c, TRUE)
<1>1. Settled(r) = q BY DEF Settled
<1>2. c \in WindowType BY DEF WindowType
<1>3. /\ c.name = r.target /\ c.deleteFile = FALSE /\ c.convert = r.convert /\ c.target = r.target
      /\ c.cmd = r.cmd /\ c.buf = r.buf
  BY DEF WindowType
<1>4. Alike(q, c) /\ q.pc \in {"unlock", "clean", "idle"} BY <1>2, FinishIs
<1> HIDE DEF c, q
<1>5. TextKept(q) BY <1>3, <1>4 DEF TextKept, Alike
<1>6. NameKept(q, w) BY <1>3, <1>4 DEF NameKept, Alike
<1>7. ModeKept(q) /\ TempKept(q, t) BY <1>4 DEF ModeKept, TempKept, Saving
<1> QED BY <1>1, <1>5, <1>6, <1>7 DEF WindowKept

LEMMA SettleKeeps ==
  ASSUME LInv, SInv, Safe, NEW w \in Windows, Settle(w)
  PROVE  SInv'
<1> DEFINE r == win[w]  a == [r EXCEPT !.pc = "askName"]  ok == r.cmd = "save"
<1>1. r.pc = "settle" /\ world' = world /\ UNCHANGED disk /\ Become(w, Settled(r)) BY DEF Settle, At, disk
<1>2. r \in WindowType /\ WindowKept(r, w, temp[w]) /\ w \in world.windows BY <1>1, ActingWindow
<1>3. Working(r) BY <1>1 DEF Working
<1>4. CASE r.res = "ok"
  <2>1. AllThere(world) \/ r.target \in world.exists => r.buf \in Written
    BY <1>2, <1>3 DEF WindowKept, TextKept, NameKept
  <2>2. WindowKept(Settled(r), w, temp[w])
    BY <1>2, <1>4, <2>1, SettledSaved DEF WindowKept, NameKept
  <2> QED BY <1>1, <1>2, <2>2, QuietStep
<1>5. CASE r.res # "ok"
  <2>1. Settled(r) \in {a, Finish(r, ok)} BY <1>5 DEF Settled
  <2>2. Alike(a, r) /\ a.pc = "askName" BY <1>2, Fields
  <2>3. Alike(Finish(r, ok), r) /\ Finish(r, ok).pc \in {"unlock", "clean", "idle"} BY <1>2, FinishIs
  <2> DEFINE q == Settled(r)
  <2> HIDE DEF a
  <2>4. Alike(q, r) /\ q.pc \in {"askName", "unlock", "clean", "idle"} BY <2>1, <2>2, <2>3
  <2>5. Become(w, q) BY <1>1
  <2> HIDE DEF q
  <2> QED BY <1>1, <1>3, <2>4, <2>5, PlainStep DEF Saving
<1> QED BY <1>4, <1>5

\* edit_reload reads a file that was there in full, and deletes none of them.
LEMMA ReloadKeeps ==
  ASSUME LInv, SInv, Safe, NEW w \in Windows, Reload(w)
  PROVE  SInv'
<1> DEFINE r == win[w]  n == r.target
           Read(t, b) == ReadInto(n, t, b, r.closing, r.commands)
<1>1. r.pc = "settle" /\ r.cmd = "saveAs" /\ r.convert /\ world' = world /\ temp' = temp
  BY DEF Reload, At
<1>2. r \in WindowType /\ WinOK(r) /\ WindowKept(r, w, temp[w]) /\ w \in world.windows
  BY <1>1, ActingWindow
<1>3. n \in Names BY <1>1, <1>2 DEF WinOK, UnlockingOK
<1>4. fs \in [Names -> Files] BY DEF LInv, TInv, DiskOK
<1>5. AllThere(world) => n \in world.exists BY <1>1, <1>2 DEF WindowKept, NameKept
<1>6. n \in world.exists => fs[n].text \in Written /\ ~r.deleteFile
  BY <1>1, <1>2, WholeFiles DEF WindowKept, NameKept
<1>7. ASSUME NEW t \in Times, NEW b \in Texts, n \in world.exists => b \in Written
      PROVE  WindowKept(Settled(Read(t, b)), w, temp[w])
  <2> DEFINE o == NewWindow(n)  k == Read(t, b)
  <2>1. r.closing \in {"no", "asked"} /\ r.commands \in Nat
    BY <1>1, <1>2 DEF WinOK, UnlockingOK, Unlocking, WindowType
  <2>2. WinOK(k) /\ k.res = "ok"
    <3> HIDE DEF r, n
    <3> QED BY <2>1, <1>3, <1>7, ReadAgain
  <2>3. o \in WindowType /\ o.convert = FALSE BY <1>3, NewFits DEF WinOK, NewWindow
  <2>4. k.buf = b /\ k.target = n /\ k.convert = FALSE /\ k.cmd = "saveAs"
    <3> HIDE DEF o
    <3>1. k = [o EXCEPT !.time = t, !.buf = b, !.base = b, !.cmd = "saveAs", !.target = n,
                        !.closing = r.closing, !.commands = r.commands]
      BY DEF ReadInto, o
    <3> QED BY <3>1, <2>3 DEF WindowType
  <2>5. k \in WindowType BY <2>2 DEF WinOK
  <2> HIDE DEF k
  <2> QED BY <2>2, <2>4, <2>5, <1>5, <1>7, SettledSaved DEF k
<1>8. CASE Exists(n)
  <2> DEFINE q == Settled(Read(fs[n].time, fs[n].text))
  <2>1. /\ fs' = IF r.deleteFile THEN [fs EXCEPT ![n] = Absent] ELSE fs
        /\ win' = [(IF r.deleteFile THEN Moved(win, n, "gone") ELSE win) EXCEPT ![w] = q]
    BY <1>8 DEF Reload, ReadInto
  <2>2. fs[n].time \in Times /\ fs[n].text \in Texts BY <1>3, <1>4 DEF Files
  <2>3. WindowKept(q, w, temp[w]) BY <2>2, <1>6, <1>7
  <2> HIDE DEF q
  <2>4. win'[w] = q /\ \A v \in Windows \ {w} : Alike(win'[v], win[v]) /\ win'[v].pc = win[v].pc
    <3>1. CASE r.deleteFile BY <2>1, <3>1, MovedAlike
    <3>2. CASE ~r.deleteFile BY <2>1, <3>2, Itself DEF LInv, TInv
    <3> QED BY <3>1, <3>2
  <2>5. WindowsKept' BY <1>1, <2>3, <2>4, WindowsStay
  <2>6. \A m \in world.exists : fs'[m] = fs[m] BY <1>4, <1>6, <2>1, WorldNames
  <2>7. FilesKept' BY <1>1, <1>2, <2>6, FilesStay
  <2> QED BY <2>5, <2>7 DEF SInv
<1>9. CASE ~Exists(n)
  <2> DEFINE k == Read(fs[n].time, fs[n].text)  m == Read(Tick, Empty)  q == Settled(m)
  <2>1. /\ fs' = IF r.deleteFile THEN fs ELSE [fs EXCEPT ![n] = Stamped(Empty)]
        /\ Become(w, Settled([k EXCEPT !.time = Tick, !.buf = Empty, !.base = Empty]))
    BY <1>9 DEF Reload, ReadInto
  <2>2. [k EXCEPT !.time = Tick, !.buf = Empty, !.base = Empty] = m
    <3> DEFINE o == NewWindow(n)
    <3>1. o \in WindowType BY <1>3, NewFits DEF WinOK
    <3> HIDE DEF o
    <3>2. [[o EXCEPT !.time = fs[n].time, !.buf = fs[n].text, !.base = fs[n].text, !.cmd = "saveAs", !.target = n,
                     !.closing = r.closing, !.commands = r.commands]
           EXCEPT !.time = Tick, !.buf = Empty, !.base = Empty]
          = [o EXCEPT !.time = Tick, !.buf = Empty, !.base = Empty, !.cmd = "saveAs", !.target = n,
                      !.closing = r.closing, !.commands = r.commands]
      BY <3>1 DEF WindowType
    <3> QED BY <3>2 DEF o, ReadInto
  <2>3. Become(w, q) BY <2>1, <2>2
  <2>4. n \notin world.exists BY <1>6, <1>9 DEF Exists, NoText, Written
  <2>5. WindowKept(q, w, temp[w]) BY <2>4, <1>7, Stamps, TextFacts
  <2> HIDE DEF q, k, m
  <2>6. WindowsKept' BY <1>1, <2>3, <2>5, BecomesKept
  <2>7. \A f \in world.exists : fs'[f] = fs[f] BY <1>4, <2>1, <2>4, WorldNames
  <2>8. FilesKept' BY <1>1, <1>2, <2>7, FilesStay
  <2> QED BY <2>6, <2>8 DEF SInv
<1> QED BY <1>8, <1>9

\* edit_clean deletes none of them either.
LEMMA CleanKeeps ==
  ASSUME LInv, SInv, Safe, NEW w \in Windows, Clean(w)
  PROVE  SInv'
<1> DEFINE r == win[w]  n == r.name  q == [r EXCEPT !.pc = "closed"]
<1>1. r.pc = "clean" /\ world' = world /\ temp' = temp BY DEF Clean, At
<1>2. r \in WindowType /\ WinOK(r) /\ WindowKept(r, w, temp[w]) /\ w \in world.windows
  BY <1>1, ActingWindow
<1>3. /\ fs' = IF r.deleteFile THEN [fs EXCEPT ![n] = Absent] ELSE fs
      /\ win' = [(IF r.deleteFile THEN Moved(win, n, "gone") ELSE win) EXCEPT ![w].pc = "closed"]
  BY DEF Clean
<1>4. Alike(q, r) /\ q.pc = "closed" BY <1>2, Fields
<1>5. win'[w] = q /\ \A v \in Windows \ {w} : Alike(win'[v], win[v]) /\ win'[v].pc = win[v].pc
  <2>1. CASE r.deleteFile
    <3>1. r.fd = "none" BY <1>1, <1>2 DEF WinOK, SavingOK, WindowType
    <3>2. Moved(win, n, "gone")[w] = r BY <3>1 DEF Moved
    <3>3. win' = [Moved(win, n, "gone") EXCEPT ![w] = q] BY <1>3, <2>1, <3>2
    <3> HIDE DEF q
    <3> QED BY <3>3, MovedAlike
  <2>2. CASE ~r.deleteFile
    <3>1. win' = [win EXCEPT ![w] = q] BY <1>3, <2>2
    <3> HIDE DEF q
    <3> QED BY <3>1, Itself DEF LInv, TInv
  <2> QED BY <2>1, <2>2
<1> HIDE DEF q
<1>6. WindowKept(q, w, temp[w]) BY <1>1, <1>2, <1>4, GoesOn DEF Working, Saving
<1>7. WindowsKept' BY <1>1, <1>5, <1>6, WindowsStay
<1>8. r.deleteFile => n \notin world.exists BY <1>2 DEF WindowKept, NameKept
<1>9. \A m \in world.exists : fs'[m] = fs[m] BY <1>3, <1>8, WorldNames DEF LInv, TInv, DiskOK
<1>10. FilesKept' BY <1>1, <1>2, <1>9, FilesStay
<1> QED BY <1>7, <1>10 DEF SInv

\* The temporary file of a process that dies between two renames stays.
LEMMA CrashKeeps ==
  ASSUME LInv, SInv, Safe, NEW p \in Pids, Crash(p)
  PROVE  SInv'
<1> DEFINE o == NewWindow(NoName)  d == [o EXCEPT !.pc = "dead"]
<1>1. /\ world' = world /\ fs' = fs /\ temp' = temp
      /\ win' = [w \in Windows |-> IF world.pid[w] = p THEN d ELSE win[w]]
  BY DEF Crash, disk
<1>2. o \in WindowType /\ o.target = NoName /\ o.deleteFile = FALSE /\ o.convert = FALSE /\ o.cmd = "type"
  BY NewFits DEF WinOK, NewWindow
<1> HIDE DEF o
<1>3. /\ d.pc = "dead" /\ d.target = NoName /\ d.deleteFile = FALSE /\ d.convert = FALSE /\ d.cmd = "type"
  BY <1>2 DEF WindowType
<1> HIDE DEF d
<1>4. \A w \in Windows : WindowKept(d, w, temp[w])
  BY <1>3, WorldNames DEF WindowKept, TextKept, NameKept, ModeKept, TempKept, Working, Saving
<1>5. \A w \in Windows : WindowKept(win'[w], w, temp'[w])
  BY <1>1, <1>4 DEF SInv, WindowsKept
<1>6. WindowsKept' BY <1>1, <1>5 DEF WindowsKept, WindowKept, TextKept, NameKept, ModeKept, TempKept, AllThere
<1>7. FilesKept'
  <2>1. ASSUME NEW w \in world.windows PROVE win'[w] \in {d, win[w]} BY <1>1, WorldNames
  <2> QED BY <1>1, <1>3, <2>1 DEF SInv, FilesKept, Survives
<1> QED BY <1>6, <1>7 DEF SInv

-----------------------------------------------------------------------------
(* The invariant, and what follows from it                                 *)

\* At the start no window is open and all files are whole.
LEMMA SafeInit ==
  ASSUME Init
  PROVE  SInv
<1>1. LInv BY InitHolds
<1>2. ASSUME NEW n \in world.exists PROVE fs[n].text \in Written
  <2>1. fs[n] = [text |-> 1, time |-> 1, linked |-> n \in world.linked] BY <1>1, <1>2, WorldNames DEF Init
  <2>2. fs[n].text = 1 BY <2>1
  <2> QED BY <2>2, EditSaveAssumption DEF Written
<1>3. ASSUME NEW w \in Windows PROVE WindowKept(win[w], w, temp[w])
  <2> DEFINE o == win[w]
  <2>1. o = NewWindow(world.opens[w]) BY DEF Init
  <2>2. /\ o.pc = "unopened" /\ o.name = world.opens[w] /\ o.deleteFile = FALSE /\ o.convert = FALSE
        /\ o.target = NoName /\ o.cmd = "type"
    BY <2>1 DEF NewWindow
  <2> HIDE DEF o
  <2> QED BY <2>2, <1>1, WorldNames DEF o, WindowKept, TextKept, NameKept, ModeKept, TempKept, Working, Saving
<1> QED BY <1>2, <1>3 DEF SInv, FilesKept, Survives, WindowsKept

\* Every step keeps the invariant.
LEMMA SafeStep ==
  ASSUME LInv, SInv, Safe, [Next]_vars
  PROVE  SInv'
<1>1. ASSUME NEW w \in Windows, Step(w) PROVE SInv'
  BY <1>1, OpenKeeps, LoadKeeps, TypeKeeps, LockSteps, UnlockSteps, CommandsKeep, AskSaveKeeps,
     AskNameKeeps, AskOverKeeps, StatKeeps, AskLinksKeeps, AskTimeKeeps, MakeTempKeeps,
     OpenToWriteKeeps, WritesKeep, BackupKeeps, RenameKeeps, ReloadKeeps, SettleKeeps, CleanKeeps
     DEF Step
<1>2. CASE UNCHANGED vars
  BY <1>2 DEF vars, disk, SInv, FilesKept, Survives, WindowsKept, WindowKept, TextKept, NameKept,
     ModeKept, TempKept, AllThere, Working
<1> QED BY <1>1, <1>2, CrashKeeps DEF Next

\* The circumstances do not change.
LEMMA WorldStays == [Next]_vars => world' = world
<1>1. ASSUME NEW w \in Windows, Step(w) PROVE world' = world
  BY <1>1 DEF Step, Open, Load, Type, LockStat, LockRead, LockAsk, LockUnlink, LockLink, UnlockStat,
     UnlockRead, UnlockUnlink, Save, SaveAs, Close, AskSave, AskName, AskOver, Stat, AskLinks, AskTime,
     MakeTemp, OpenToWrite, WriteAll, WriteFails, CloseFails, Backup, Rename, Reload, Settle, Clean
<1> QED BY <1>1 DEF Next, Crash, vars

\* In the safe modes a file that was there at the start is there in full at every moment,
\* for every number of windows, processes and commands, and whenever a process dies: safe
\* saves whatever calls fail, saves with a backup while none does.
THEOREM SafeSavesKeepTheOriginal == Spec /\ Kept(world) => []OriginalSurvives
<1> DEFINE JInv == Kept(world) /\ (world.mode # "quick" => SInv)
<1>1. Init /\ Kept(world) => JInv BY SafeInit
<1>2. LInv /\ JInv /\ [Next]_vars => JInv'
  <2> SUFFICES ASSUME LInv, JInv, [Next]_vars PROVE JInv' OBVIOUS
  <2>1. world' = world BY WorldStays
  <2>2. Kept(world)' BY <2>1 DEF Kept, AllThere
  <2>3. world.mode # "quick" => SInv' BY SafeStep DEF Safe
  <2> QED BY <2>1, <2>2, <2>3
<1>3. LInv /\ JInv => OriginalSurvives
  <2> SUFFICES ASSUME LInv, JInv, world.mode # "quick", NEW n \in world.exists
               PROVE  \E f \in {fs[n], backup[n]} \union {temp[w] : w \in Windows} : f.text \in Written
    BY DEF OriginalSurvives
  <2>1. Survives(n) BY DEF SInv, FilesKept
  <2> QED BY <2>1, WorldNames DEF Survives
<1> QED BY <1>1, <1>2, <1>3, InvariantHolds, PTL DEF Spec

-----------------------------------------------------------------------------
(* What a window deletes                                                   *)

\* The circumstances in which a file that is created belongs to the window that created
\* it: a window has no name, or the name of a file that was there and that no backup
\* takes away, or a name that no other window opens and nobody saves as. A file that was
\* created is not saved with other line breaks, for edit_reload deletes it then.
Own(wd) ==
  /\ wd.convert => wd.mode # "backup" /\ \A w \in wd.windows : wd.opens[w] \in wd.exists \union {NoName}
  /\ \A v, w \in wd.windows : v # w =>
       \/ wd.opens[v] = NoName
       \/ wd.opens[v] \in wd.exists /\ wd.mode # "backup"
       \/ wd.opens[v] # wd.opens[w] /\ wd.opens[v] \notin wd.targets

Owned == Own(world)

\* The names and the mode of a window; the file it is to delete was not there before it.
Mine(q, w) ==
  /\ q.buf # NoText /\ (q.convert => world.convert)
  /\ {q.name, q.target} \subseteq {world.opens[w], NoName} \union world.targets
  /\ q.pc \in {"unopened", "load"} => q.name = world.opens[w]
  /\ q.deleteFile => /\ w \in world.windows /\ q.name = world.opens[w] /\ q.name # NoName
                     /\ q.name \notin world.exists \/ world.mode = "backup"
  /\ q.mode = "backup" => world.mode = "backup"
  /\ q.pc = "backup" => q.mode = "backup"
FileThere(q, t) == q.pc \in {"backup", "rename"} => t.text # NoText

\* A file to be deleted has no text but right after a save, before the window settles.
JustSaved(q) == q.pc \in Unlocking \union {"settle"} /\ q.closing # "sure" /\ q.res = "ok"
Nothing(q, files) == q.deleteFile /\ files[q.name].text \in Written => JustSaved(q)

WindowOwn(q, w, t, files) == Mine(q, w) /\ FileThere(q, t) /\ Nothing(q, files)

FilesThere == world.mode # "backup" => \A n \in world.exists : fs[n].text # NoText
WindowsOwn == \A w \in Windows : WindowOwn(win[w], w, temp[w], fs)
OInv == FilesThere /\ WindowsOwn

\* What a step does to the files: none is gone that had a text, but to its backup name.
Spares == \A n \in Names : \/ fs'[n] = fs[n] \/ fs'[n].text # NoText
                           \/ backup'[n] = fs[n] \/ fs[n].text \notin Written

\* A window that does not act.
Still(q, r) == Alike(q, r) /\ q.pc = r.pc /\ q.closing = r.closing /\ q.res = r.res

LEMMA StillItself == \A q : Still(q, q)
BY Itself DEF Still

\* A window that goes on keeps its names.
LEMMA StaysMine ==
  ASSUME NEW w, NEW r, NEW q, Mine(r, w), Alike(q, r), q.pc \notin {"unopened", "load"},
         q.pc = "backup" => q.mode = "backup"
  PROVE  Mine(q, w)
BY DEF Mine, Alike

\* The files that a window changes are not those that another one is to delete.
LEMMA OwnStep ==
  ASSUME LInv, OInv, Owned, NEW w \in world.windows, world' = world, NEW n \in Names,
         n \in {world.opens[w]} \union world.targets,
         \A m \in Names \ {n} : fs'[m] = fs[m],
         world.mode # "backup" /\ n \in world.exists => fs'[n].text # NoText,
         \A v \in Windows \ {w} : temp'[v] = temp[v] /\ Still(win'[v], win[v]),
         WindowOwn(win'[w], w, temp'[w], fs')
  PROVE  OInv'
<1>1. FilesThere' BY WorldNames DEF OInv, FilesThere
<1>2. ASSUME NEW v \in Windows PROVE WindowOwn(win'[v], v, temp'[v], fs')
  <2>1. CASE v = w BY <2>1
  <2>2. CASE v # w
    <3>1. WindowOwn(win[v], v, temp[v], fs) BY DEF OInv, WindowsOwn
    <3>2. temp'[v] = temp[v] /\ Still(win'[v], win[v]) BY <2>2
    <3>3. Mine(win'[v], v) /\ FileThere(win'[v], temp'[v])
      BY <3>1, <3>2 DEF WindowOwn, Mine, FileThere, Still, Alike
    <3>4. ASSUME win[v].deleteFile PROVE win[v].name \in Names /\ win[v].name # n
      <4>1. /\ v \in world.windows /\ win[v].name = world.opens[v] /\ win[v].name # NoName
            /\ win[v].name \notin world.exists \/ world.mode = "backup"
        BY <3>1, <3>4 DEF WindowOwn, Mine
      <4>2. world.opens[v] # world.opens[w] /\ world.opens[v] \notin world.targets
        BY <4>1, <2>2 DEF Owned, Own
      <4>3. win[v].name \in Names \union {NoName} BY DEF LInv, TInv, WinOK, WindowType
      <4> QED BY <4>1, <4>2, <4>3
    <3>5. Nothing(win'[v], fs')
      BY <3>1, <3>2, <3>4 DEF WindowOwn, Nothing, JustSaved, Still, Alike
    <3> QED BY <3>3, <3>5 DEF WindowOwn
  <2> QED BY <2>1, <2>2
<1>3. WindowsOwn' BY <1>2 DEF WindowsOwn, WindowOwn, Mine, FileThere, Nothing, JustSaved
<1> QED BY <1>1, <1>3 DEF OInv

\* A change of one window alone.
LEMMA OwnQuiet ==
  ASSUME LInv, OInv, Owned, NEW w \in world.windows, world' = world, fs' = fs, temp' = temp, NEW q,
         Become(w, q), WindowOwn(q, w, temp[w], fs)
  PROVE  OInv' /\ Spares
<1>1. w \in Windows BY WorldNames
<1>2. win'[w] = q /\ \A v \in Windows \ {w} : win'[v] = win[v] BY <1>1 DEF LInv, TInv, Become
<1>3. FilesThere' BY DEF OInv, FilesThere
<1>4. ASSUME NEW v \in Windows PROVE WindowOwn(win'[v], v, temp'[v], fs')
  BY <1>2 DEF OInv, WindowsOwn
<1>5. WindowsOwn' BY <1>4 DEF WindowsOwn, WindowOwn, Mine, FileThere, Nothing, JustSaved
<1> QED BY <1>3, <1>5 DEF OInv, Spares

\* Most steps change neither a file nor what the window is about.
LEMMA OwnPlain ==
  ASSUME LInv, OInv, Owned, NEW w \in Windows, Working(win[w]), ~JustSaved(win[w]),
         world' = world, fs' = fs, temp' = temp, NEW q, Become(w, q), Alike(q, win[w]),
         q.pc \notin {"unopened", "load", "backup", "rename"}
  PROVE  OInv' /\ Spares
<1>1. w \in world.windows BY Acting DEF Working
<1>2. WindowOwn(win[w], w, temp[w], fs) BY DEF OInv, WindowsOwn
<1>3. Mine(q, w) BY <1>2, StaysMine DEF WindowOwn
<1>4. FileThere(q, temp[w]) /\ Nothing(q, fs)
  BY <1>2 DEF WindowOwn, FileThere, Nothing, Alike
<1> QED BY <1>1, <1>3, <1>4, OwnQuiet DEF WindowOwn

\* The window of a step.
LEMMA ActingOwn ==
  ASSUME LInv, OInv, NEW w \in Windows, win[w].pc \notin {"unopened", "dead"}
  PROVE  /\ win[w] \in WindowType /\ WinOK(win[w]) /\ w \in world.windows
         /\ Mine(win[w], w) /\ FileThere(win[w], temp[w]) /\ Nothing(win[w], fs)
BY Acting DEF OInv, WindowsOwn, WindowOwn

\* Opening: a file that is not there is created, and is to be deleted.
LEMMA OpenOwn ==
  ASSUME LInv, OInv, Owned, NEW w \in Windows, Open(w)
  PROVE  OInv' /\ Spares
<1> DEFINE r == win[w]  n == r.name
<1>1. r.pc = "unopened" /\ w \in world.windows /\ world' = world /\ temp' = temp BY DEF Open, At
<1>2. r \in WindowType /\ WindowOwn(r, w, temp[w], fs) BY DEF LInv, TInv, WinOK, OInv, WindowsOwn
<1>3. n = world.opens[w] /\ n \in Names \union {NoName} BY <1>1, <1>2 DEF WindowOwn, Mine, WindowType
<1>4. ~JustSaved(r) BY <1>1 DEF JustSaved, Unlocking
<1>5. ASSUME NEW q, Alike(q, r), q.pc \in {"idle", "load"}, fs' = fs, Become(w, q) PROVE OInv' /\ Spares
  <2>1. WindowOwn(q, w, temp[w], fs)
    BY <1>2, <1>3, <1>4, <1>5 DEF WindowOwn, Mine, FileThere, Nothing, Alike
  <2> QED BY <1>1, <1>5, <2>1, OwnQuiet
<1>6. CASE n = NoName /\ Goto(w, "idle") /\ UNCHANGED <<fs, now>>
  <2> DEFINE q == [r EXCEPT !.pc = "idle"]
  <2>1. Alike(q, r) /\ q.pc = "idle" BY <1>2, Fields
  <2>2. Become(w, q) BY <1>6, GotoIsBecome
  <2> HIDE DEF q
  <2> QED BY <1>5, <1>6, <2>1, <2>2
<1>7. CASE n # NoName /\ Exists(n) /\ fs' = fs /\ Become(w, [r EXCEPT !.pc = "load", !.time = fs[n].time])
  <2> DEFINE q == [r EXCEPT !.pc = "load", !.time = fs[n].time]
  <2>1. Alike(q, r) /\ q.pc = "load" BY <1>2 DEF WindowType, Alike
  <2>2. Become(w, q) BY <1>7
  <2> HIDE DEF q
  <2> QED BY <1>5, <1>7, <2>1, <2>2
<1>8. CASE /\ n # NoName /\ ~Exists(n) /\ fs' = [fs EXCEPT ![n] = Stamped(Empty)]
           /\ Become(w, [r EXCEPT !.pc = "load", !.time = Tick, !.deleteFile = TRUE])
  <2> DEFINE q == [r EXCEPT !.pc = "load", !.time = Tick, !.deleteFile = TRUE]
  <2>1. /\ q.pc = "load" /\ q.name = r.name /\ q.convert = r.convert
        /\ q.target = r.target /\ q.buf = r.buf /\ q.mode = r.mode
    BY <1>2 DEF WindowType
  <2>2. Become(w, q) BY <1>8
  <2> HIDE DEF q
  <2>3. n \in Names BY <1>3, <1>8
  <2>4. n \notin world.exists \/ world.mode = "backup" BY <1>8 DEF OInv, FilesThere, Exists
  <2>5. fs'[n].text = Empty /\ \A m \in Names \ {n} : fs'[m] = fs[m]
    BY <1>8, <2>3 DEF LInv, TInv, DiskOK, Stamped
  <2>6. Empty # NoText /\ Empty \notin Written BY DEF Empty, NoText, Written
  <2>7. win'[w] = q /\ \A v \in Windows \ {w} : win'[v] = win[v] BY <2>2 DEF LInv, TInv, Become
  <2>8. WindowOwn(q, w, temp[w], fs')
    <3>1. Mine(q, w) BY <1>1, <1>2, <1>3, <2>1, <2>3, <2>4, EditSaveAssumption DEF WindowOwn, Mine
    <3>2. FileThere(q, temp[w]) /\ Nothing(q, fs') BY <2>1, <2>5, <2>6 DEF FileThere, Nothing
    <3> QED BY <3>1, <3>2 DEF WindowOwn
  <2>9. OInv' BY <1>1, <1>3, <2>3, <2>5, <2>6, <2>7, <2>8, OwnStep, StillItself
  <2> QED BY <2>5, <2>6, <2>9 DEF Spares
<1> QED BY <1>6, <1>7, <1>8 DEF Open

LEMMA LoadOwn ==
  ASSUME LInv, OInv, Owned, NEW w \in Windows, Load(w)
  PROVE  OInv' /\ Spares
<1> DEFINE r == win[w]  n == r.name
<1>1. r.pc = "load" /\ world' = world /\ fs' = fs /\ temp' = temp BY DEF Load, At, disk
<1>2. /\ r \in WindowType /\ WinOK(r) /\ w \in world.windows
      /\ Mine(r, w) /\ FileThere(r, temp[w]) /\ Nothing(r, fs)
  BY <1>1, ActingOwn
<1>3. ~JustSaved(r) BY <1>1 DEF JustSaved, Unlocking
<1>4. CASE Exists(n) /\ Become(w, [r EXCEPT !.pc = "idle", !.buf = fs[n].text, !.base = fs[n].text])
  <2> DEFINE q == [r EXCEPT !.pc = "idle", !.buf = fs[n].text, !.base = fs[n].text]
  <2>1. /\ q.pc = "idle" /\ q.name = r.name /\ q.deleteFile = r.deleteFile /\ q.convert = r.convert
        /\ q.target = r.target /\ q.mode = r.mode /\ q.buf = fs[n].text
    BY <1>2 DEF WindowType
  <2>2. Become(w, q) BY <1>4
  <2> HIDE DEF q
  <2>3. Mine(q, w) BY <1>2, <1>4, <2>1 DEF Mine, Exists
  <2>4. FileThere(q, temp[w]) /\ Nothing(q, fs) BY <1>2, <1>3, <2>1 DEF FileThere, Nothing
  <2> QED BY <1>1, <1>2, <2>2, <2>3, <2>4, OwnQuiet DEF WindowOwn
<1>5. CASE Become(w, [r EXCEPT !.pc = "closed"])
  <2> DEFINE q == [r EXCEPT !.pc = "closed"]
  <2>1. Alike(q, r) /\ q.pc = "closed" BY <1>2, Fields
  <2>2. Become(w, q) BY <1>5
  <2> HIDE DEF q
  <2>3. Mine(q, w) BY <1>2, <2>1, StaysMine
  <2>4. FileThere(q, temp[w]) /\ Nothing(q, fs) BY <1>2, <1>3, <2>1 DEF FileThere, Nothing, Alike
  <2> QED BY <1>1, <1>2, <2>2, <2>3, <2>4, OwnQuiet DEF WindowOwn
<1>6. IF Exists(n) THEN Become(w, [r EXCEPT !.pc = "idle", !.buf = fs[n].text, !.base = fs[n].text])
      ELSE Become(w, [r EXCEPT !.pc = "closed"])
  BY DEF Load
<1> QED BY <1>4, <1>5, <1>6

LEMMA TypeOwn ==
  ASSUME LInv, OInv, Owned, NEW w \in Windows, Type(w)
  PROVE  OInv' /\ Spares
<1> DEFINE r == win[w]
           a == [r EXCEPT !.buf = texts + 1, !.modified = TRUE]
           b == [r EXCEPT !.buf = texts + 1, !.pc = "lockStat", !.cmd = "type", !.target = r.name]
<1>1. r.pc = "idle" /\ world' = world /\ fs' = fs /\ temp' = temp BY DEF Type, At, disk
<1>2. r \in WindowType /\ w \in world.windows /\ Mine(r, w) /\ Nothing(r, fs) BY <1>1, ActingOwn
<1>3. texts + 1 # NoText BY DEF LInv, TInv, DiskOK, NoText
<1>4. Become(w, a) \/ Become(w, b) BY DEF Type
<1>5. /\ a.pc = "idle" /\ a.name = r.name /\ a.deleteFile = r.deleteFile /\ a.convert = r.convert
      /\ a.target = r.target /\ a.mode = r.mode /\ a.buf = texts + 1
      /\ b.pc = "lockStat" /\ b.name = r.name /\ b.deleteFile = r.deleteFile /\ b.convert = r.convert
      /\ b.target = r.name /\ b.mode = r.mode /\ b.buf = texts + 1
  BY <1>1, <1>2 DEF WindowType
<1> HIDE DEF a, b
<1>6. ~JustSaved(r) BY <1>1 DEF JustSaved, Unlocking
<1>7. Mine(a, w) /\ Mine(b, w) BY <1>2, <1>3, <1>5 DEF Mine
<1>8. FileThere(a, temp[w]) /\ FileThere(b, temp[w]) /\ Nothing(a, fs) /\ Nothing(b, fs)
  BY <1>2, <1>5, <1>6 DEF FileThere, Nothing
<1> QED BY <1>1, <1>2, <1>4, <1>7, <1>8, OwnQuiet DEF WindowOwn

LEMMA LockOwn ==
  ASSUME LInv, OInv, Owned, NEW w \in Windows,
         LockStat(w) \/ LockRead(w) \/ LockAsk(w) \/ LockUnlink(w) \/ LockLink(w)
  PROVE  OInv' /\ Spares
<1> DEFINE r == win[w]
<1>1. r.pc \in Locking BY DEF LockStat, LockRead, LockAsk, LockUnlink, LockLink, At, Locking
<1>2. Working(r) /\ ~JustSaved(r) BY <1>1 DEF Working, Locking, JustSaved, Unlocking
<1>3. r \in WindowType BY <1>2, ActingOwn DEF Working
<1>4. world' = world /\ fs' = fs /\ temp' = temp
  BY DEF LockStat, LockRead, LockAsk, LockUnlink, LockLink, disk
<1>5. ASSUME NEW x \in Locking, Become(w, [r EXCEPT !.pc = x]) PROVE OInv' /\ Spares
  <2> DEFINE q == [r EXCEPT !.pc = x]
  <2>1. Alike(q, r) /\ q.pc = x BY <1>3, Fields
  <2>2. q.pc \notin {"unopened", "load", "backup", "rename"} BY <2>1, <1>5 DEF Locking
  <2>3. Become(w, q) BY <1>5
  <2> HIDE DEF q
  <2> QED BY <2>1, <2>2, <2>3, <1>2, <1>4, OwnPlain
<1>6. ASSUME NEW ok, Become(w, Locked(w, r, ok)) PROVE OInv' /\ Spares
  <2>1. Alike(Locked(w, r, ok), r) /\ Locked(w, r, ok).pc \in {"idle", "stat"} BY <1>3, LockedIs
  <2> QED BY <2>1, <1>2, <1>4, <1>6, OwnPlain
<1>7. ASSUME NEW x \in Locking, Goto(w, x) PROVE OInv' /\ Spares BY <1>5, <1>7, GotoIsBecome
<1>8. CASE LockStat(w)
  <2>1. Goto(w, "lockLink") \/ Goto(w, "lockRead") BY <1>8 DEF LockStat
  <2> QED BY <2>1, <1>7 DEF Locking
<1>9. CASE LockRead(w)
  <2>1. \/ Become(w, Locked(w, r, FALSE)) \/ Become(w, [r EXCEPT !.pc = "lockAsk"])
        \/ Become(w, [r EXCEPT !.pc = "lockUnlink"])
    BY <1>9, LinkFacts DEF LockRead
  <2> QED BY <2>1, <1>5, <1>6 DEF Locking
<1>10. CASE LockAsk(w) BY <1>6, <1>7, <1>10 DEF LockAsk, Locking
<1>11. CASE LockUnlink(w) BY <1>7, <1>11 DEF LockUnlink, Locking
<1>12. CASE LockLink(w) BY <1>6, <1>12 DEF LockLink
<1> QED BY <1>8, <1>9, <1>10, <1>11, <1>12

\* After a save the locks are lowered before the window settles.
LEMMA UnlockOwn ==
  ASSUME LInv, OInv, Owned, NEW w \in Windows, UnlockStat(w) \/ UnlockRead(w) \/ UnlockUnlink(w)
  PROVE  OInv' /\ Spares
<1> DEFINE r == win[w]
<1>1. r.pc \in Unlocking BY DEF UnlockStat, UnlockRead, UnlockUnlink, At, Unlocking
<1>2. r \in WindowType /\ w \in world.windows /\ Mine(r, w) /\ Nothing(r, fs)
  BY <1>1, ActingOwn DEF Unlocking
<1>3. world' = world /\ fs' = fs /\ temp' = temp BY DEF UnlockStat, UnlockRead, UnlockUnlink, disk
<1>4. ASSUME NEW q, Become(w, q), Alike(q, r), q.closing = r.closing, q.res = r.res,
             q.pc \in Unlocking \/ q.pc = (IF r.closing = "sure" THEN "clean" ELSE "settle")
      PROVE  OInv' /\ Spares
  <2>1. Mine(q, w) BY <1>2, <1>4, StaysMine DEF Unlocking
  <2>2. FileThere(q, temp[w]) BY <1>4 DEF FileThere, Unlocking
  <2>3. Nothing(q, fs) BY <1>2, <1>4 DEF Nothing, JustSaved, Alike
  <2> QED BY <1>2, <1>3, <1>4, <2>1, <2>2, <2>3, OwnQuiet DEF WindowOwn
<1>5. ASSUME NEW x \in Unlocking, Become(w, [r EXCEPT !.pc = x]) PROVE OInv' /\ Spares
  <2> DEFINE q == [r EXCEPT !.pc = x]
  <2>1. Alike(q, r) /\ q.pc = x /\ q.closing = r.closing /\ q.res = r.res BY <1>2 DEF WindowType, Alike
  <2>2. Become(w, q) BY <1>5
  <2> HIDE DEF q
  <2> QED BY <1>4, <1>5, <2>1, <2>2
<1>6. ASSUME Become(w, Unlocked(r)) PROVE OInv' /\ Spares
  <2> DEFINE todo == Tail(r.todo)
             y == IF todo # <<>> THEN "unlock" ELSE IF r.closing = "sure" THEN "clean" ELSE "settle"
             q == [r EXCEPT !.todo = todo, !.pc = y]
  <2>1. Become(w, q) BY <1>6 DEF Unlocked
  <2>2. y \in Unlocking \/ y = (IF r.closing = "sure" THEN "clean" ELSE "settle") BY DEF Unlocking
  <2> HIDE DEF todo, y
  <2>3. Alike(q, r) /\ q.pc = y /\ q.closing = r.closing /\ q.res = r.res BY <1>2 DEF WindowType, Alike
  <2> HIDE DEF q
  <2> QED BY <1>4, <2>1, <2>2, <2>3
<1>7. \/ Become(w, Unlocked(r)) \/ Become(w, [r EXCEPT !.pc = "unlockRead"])
      \/ Become(w, [r EXCEPT !.pc = "unlockUnlink"])
  BY DEF UnlockStat, UnlockRead, UnlockUnlink
<1> QED BY <1>5, <1>6, <1>7 DEF Unlocking

\* edit_save_cmd saves the window's own file.
LEMMA SaveCmdOwn ==
  ASSUME LInv, OInv, Owned, NEW w \in world.windows, world' = world, fs' = fs, temp' = temp,
         NEW r \in WindowType, Mine(r, w), Nothing(r, fs), ~JustSaved(r), Become(w, SaveCmd(r))
  PROVE  OInv' /\ Spares
<1> DEFINE y == IF r.name = NoName THEN "askName" ELSE IF r.locked \/ r.deleteFile THEN "stat" ELSE "lockStat"
           q == [r EXCEPT !.cmd = "save", !.target = r.name, !.saveLock = FALSE, !.asked = FALSE, !.pc = y]
<1>1. Become(w, q) BY DEF SaveCmd
<1>2. y \in {"askName", "stat", "lockStat"} OBVIOUS
<1> HIDE DEF y
<1>3. /\ q.pc = y /\ q.name = r.name /\ q.deleteFile = r.deleteFile /\ q.mode = r.mode
      /\ q.convert = r.convert /\ q.target = r.name /\ q.buf = r.buf
  BY DEF WindowType
<1> HIDE DEF q
<1>4. Mine(q, w) BY <1>2, <1>3 DEF Mine
<1>5. FileThere(q, temp[w]) /\ Nothing(q, fs) BY <1>2, <1>3 DEF FileThere, Nothing
<1> QED BY <1>1, <1>4, <1>5, OwnQuiet DEF WindowOwn

\* A window that is like the one of the step but for a place outside of the saves.
LEMMA OwnLike ==
  ASSUME LInv, OInv, Owned, NEW w \in Windows, Working(win[w]), ~JustSaved(win[w]),
         world' = world, fs' = fs, temp' = temp, NEW c, Alike(c, win[w]), NEW q, Become(w, q), Alike(q, c),
         q.pc \notin {"unopened", "load", "backup", "rename"}
  PROVE  OInv' /\ Spares
BY OwnPlain DEF Alike

LEMMA CommandsOwn ==
  ASSUME LInv, OInv, Owned, NEW w \in Windows, Save(w) \/ SaveAs(w) \/ Close(w)
  PROVE  OInv' /\ Spares
<1> DEFINE r == win[w]  c == Counted(w)
<1>1. r.pc = "idle" /\ world' = world /\ fs' = fs /\ temp' = temp
  BY DEF Save, SaveAs, Close, Commanded, At, disk
<1>2. r \in WindowType /\ w \in world.windows /\ Mine(r, w) /\ Nothing(r, fs) BY <1>1, ActingOwn
<1>3. c \in WindowType /\ Alike(c, r) /\ c.pc = "idle" BY <1>1, <1>2, CountedIs
<1>4. \/ Become(w, SaveCmd(c)) \/ Become(w, [c EXCEPT !.pc = "askName"])
      \/ Become(w, [c EXCEPT !.pc = "askSave"]) \/ Become(w, Leave(c))
  BY DEF Save, SaveAs, Close
<1> HIDE DEF c
<1>5. Working(r) /\ ~JustSaved(r) BY <1>1 DEF Working, JustSaved, Unlocking
<1>6. CASE Become(w, SaveCmd(c))
  <2>1. Mine(c, w) /\ Nothing(c, fs) /\ ~JustSaved(c)
    BY <1>1, <1>2, <1>3, <1>5 DEF Mine, Nothing, JustSaved, Unlocking, Alike
  <2> QED BY <1>1, <1>2, <1>3, <1>6, <2>1, SaveCmdOwn
<1>7. CASE Become(w, Leave(c))
  <2>1. Alike(Leave(c), c) /\ Leave(c).pc \in {"unlock", "clean"} BY <1>3, LeaveIs
  <2> QED BY <1>1, <1>3, <1>5, <1>7, <2>1, OwnLike
<1>8. ASSUME NEW x \in {"askName", "askSave"}, Become(w, [c EXCEPT !.pc = x]) PROVE OInv' /\ Spares
  <2> DEFINE q == [c EXCEPT !.pc = x]
  <2>1. Alike(q, c) /\ q.pc = x BY <1>3, Fields
  <2>2. Become(w, q) BY <1>8
  <2>3. x \notin {"unopened", "load", "backup", "rename"} BY <1>8
  <2> HIDE DEF q
  <2> QED BY <1>1, <1>3, <1>5, <2>1, <2>2, <2>3, OwnLike
<1> QED BY <1>4, <1>6, <1>7, <1>8

LEMMA AskSaveOwn ==
  ASSUME LInv, OInv, Owned, NEW w \in Windows, AskSave(w)
  PROVE  OInv' /\ Spares
<1> DEFINE r == win[w]  c == [r EXCEPT !.closing = "asked"]  d == [r EXCEPT !.saidNo = TRUE]
<1>1. r.pc = "askSave" /\ world' = world /\ fs' = fs /\ temp' = temp BY DEF AskSave, At, disk
<1>2. r \in WindowType /\ w \in world.windows /\ Mine(r, w) /\ Nothing(r, fs) BY <1>1, ActingOwn
<1>3. c \in WindowType /\ d \in WindowType BY <1>2 DEF WindowType
<1>4. Alike(c, r) /\ c.pc = "askSave" /\ Alike(d, r) BY <1>1, <1>2, Fields
<1>5. Become(w, SaveCmd(c)) \/ Become(w, Leave(d)) \/ Goto(w, "idle") BY DEF AskSave
<1> HIDE DEF c, d
<1>6. Working(r) /\ ~JustSaved(r) BY <1>1 DEF Working, JustSaved, Unlocking
<1>7. CASE Become(w, SaveCmd(c))
  <2>1. Mine(c, w) /\ Nothing(c, fs) /\ ~JustSaved(c)
    BY <1>1, <1>2, <1>4, <1>6 DEF Mine, Nothing, JustSaved, Unlocking, Alike
  <2> QED BY <1>1, <1>2, <1>3, <1>7, <2>1, SaveCmdOwn
<1>8. CASE Become(w, Leave(d))
  <2>1. Alike(Leave(d), d) /\ Leave(d).pc \in {"unlock", "clean"} BY <1>3, LeaveIs
  <2> QED BY <1>1, <1>4, <1>6, <1>8, <2>1, OwnLike
<1>9. CASE Goto(w, "idle")
  <2> DEFINE q == [r EXCEPT !.pc = "idle"]
  <2>1. Alike(q, r) /\ q.pc = "idle" BY <1>2, Fields
  <2>2. Become(w, q) BY <1>9, GotoIsBecome
  <2> HIDE DEF q
  <2> QED BY <1>1, <1>6, <2>1, <2>2, OwnPlain
<1> QED BY <1>5, <1>7, <1>8, <1>9

\* A new name is one that texts are saved as.
LEMMA AskNameOwn ==
  ASSUME LInv, OInv, Owned, NEW w \in Windows, AskName(w)
  PROVE  OInv' /\ Spares
<1> DEFINE r == win[w]
<1>1. r.pc = "askName" /\ world' = world /\ fs' = fs /\ temp' = temp BY DEF AskName, At, disk
<1>2. r \in WindowType /\ w \in world.windows /\ Mine(r, w) /\ Nothing(r, fs) BY <1>1, ActingOwn
<1>3. Working(r) /\ ~JustSaved(r) BY <1>1 DEF Working, JustSaved, Unlocking
<1>4. CASE Become(w, Finish(r, FALSE))
  <2>1. Alike(Finish(r, FALSE), r) /\ Finish(r, FALSE).pc \in {"unlock", "clean", "idle"} BY <1>2, FinishIs
  <2> QED BY <1>1, <1>3, <1>4, <2>1, OwnPlain
<1>5. ASSUME NEW n \in world.targets, NEW lb \in {FALSE, world.convert},
             Become(w, [[r EXCEPT !.cmd = "saveAs", !.target = n, !.convert = lb, !.saveLock = FALSE, !.asked = FALSE]
                        EXCEPT !.pc = CASE n # r.name /\ Exists(n) -> "askOver"
                                        [] n = r.name /\ (r.locked \/ r.deleteFile) -> "stat"
                                        [] OTHER -> "lockStat"])
      PROVE  OInv' /\ Spares
  <2> DEFINE x == CASE n # r.name /\ Exists(n) -> "askOver"
                    [] n = r.name /\ (r.locked \/ r.deleteFile) -> "stat"
                    [] OTHER -> "lockStat"
             q == [r EXCEPT !.cmd = "saveAs", !.target = n, !.convert = lb, !.saveLock = FALSE, !.asked = FALSE, !.pc = x]
  <2>1. x \in {"askOver", "stat", "lockStat"} OBVIOUS
  <2> HIDE DEF x
  <2>2. Become(w, q) BY <1>5 DEF x
  <2>3. /\ q.pc = x /\ q.name = r.name /\ q.deleteFile = r.deleteFile /\ q.mode = r.mode
        /\ q.convert = lb /\ q.target = n /\ q.buf = r.buf
    BY <1>2 DEF WindowType
  <2> HIDE DEF q
  <2>4. lb => world.convert BY <1>5, WorldNames
  <2>5. Mine(q, w) BY <1>2, <1>5, <2>1, <2>3, <2>4 DEF Mine
  <2>6. FileThere(q, temp[w]) /\ Nothing(q, fs) BY <1>2, <1>3, <2>1, <2>3 DEF FileThere, Nothing
  <2> QED BY <1>1, <1>2, <2>2, <2>5, <2>6, OwnQuiet DEF WindowOwn
<1> QED BY <1>4, <1>5 DEF AskName

LEMMA AskOverOwn ==
  ASSUME LInv, OInv, Owned, NEW w \in Windows, AskOver(w)
  PROVE  OInv' /\ Spares
<1> DEFINE r == win[w]  q == [r EXCEPT !.pc = "lockStat", !.asked = TRUE]
<1>1. r.pc = "askOver" /\ world' = world /\ fs' = fs /\ temp' = temp BY DEF AskOver, At, disk
<1>2. r \in WindowType BY <1>1, ActingOwn
<1>3. Working(r) /\ ~JustSaved(r) BY <1>1 DEF Working, JustSaved, Unlocking
<1>4. Alike(q, r) /\ q.pc = "lockStat" BY <1>2 DEF WindowType, Alike
<1>5. Become(w, q) \/ Become(w, Finish(r, FALSE)) BY DEF AskOver
<1> HIDE DEF q
<1>6. Alike(Finish(r, FALSE), r) /\ Finish(r, FALSE).pc \in {"unlock", "clean", "idle"} BY <1>2, FinishIs
<1> QED BY <1>1, <1>3, <1>4, <1>5, <1>6, OwnPlain

\* The mode of a save is that of the world, a quick one, or a safe one.
LEMMA StatOwn ==
  ASSUME LInv, OInv, Owned, NEW w \in Windows, Stat(w)
  PROVE  OInv' /\ Spares
<1> DEFINE r == win[w]  sb == fs[r.target]
           mode == IF sb.text = NoText THEN "quick" ELSE world.mode
           c == [r EXCEPT !.sb = sb, !.mode = mode]  a == [c EXCEPT !.pc = "askLinks"]
<1>1. r.pc = "stat" /\ world' = world /\ fs' = fs /\ temp' = temp BY DEF Stat, At, disk
<1>2. r \in WindowType /\ WinOK(r) /\ w \in world.windows /\ Mine(r, w) /\ Nothing(r, fs) BY <1>1, ActingOwn
<1>3. r.target \in Names BY <1>1, <1>2 DEF WinOK, SavingOK, Saving
<1>4. sb \in Files BY <1>3 DEF LInv, TInv, DiskOK
<1>5. mode \in Modes /\ (mode = "backup" => world.mode = "backup") BY WorldNames DEF Modes
<1>6. Become(w, a) \/ Become(w, CheckTime(c)) BY DEF Stat
<1> HIDE DEF sb, mode
<1>7. c \in WindowType BY <1>2, <1>4, <1>5 DEF WindowType
<1>8. /\ c.pc = r.pc /\ c.name = r.name /\ c.deleteFile = r.deleteFile /\ c.convert = r.convert
      /\ c.target = r.target /\ c.buf = r.buf /\ c.mode = mode
  BY <1>2 DEF WindowType
<1> HIDE DEF c
<1>9. ~JustSaved(r) BY <1>1 DEF JustSaved, Unlocking
<1>10. ASSUME NEW q, Alike(q, c), q.pc \in {"askLinks", "askTime", "open", "temp"}, Become(w, q)
       PROVE  OInv' /\ Spares
  <2>1. Mine(q, w) BY <1>2, <1>5, <1>8, <1>10 DEF Mine, Alike
  <2>2. FileThere(q, temp[w]) /\ Nothing(q, fs) BY <1>2, <1>8, <1>9, <1>10 DEF FileThere, Nothing, Alike
  <2> QED BY <1>1, <1>2, <1>10, <2>1, <2>2, OwnQuiet DEF WindowOwn
<1>11. Alike(CheckTime(c), c) /\ CheckTime(c).pc \in {"askTime", "open", "temp"} BY <1>7, CheckTimeIs
<1>12. Alike(a, c) /\ a.pc = "askLinks" BY <1>7, Fields
<1> HIDE DEF a
<1> QED BY <1>6, <1>10, <1>11, <1>12

LEMMA AskLinksOwn ==
  ASSUME LInv, OInv, Owned, NEW w \in Windows, AskLinks(w)
  PROVE  OInv' /\ Spares
<1> DEFINE r == win[w]
           c == [r EXCEPT !.skip = TRUE, !.mode = "safe"]  d == [r EXCEPT !.skip = TRUE]
<1>1. r.pc = "askLinks" /\ world' = world /\ fs' = fs /\ temp' = temp BY DEF AskLinks, At, disk
<1>2. r \in WindowType /\ w \in world.windows /\ Mine(r, w) /\ Nothing(r, fs) BY <1>1, ActingOwn
<1>3. Become(w, CheckTime(c)) \/ Become(w, CheckTime(d)) \/ Become(w, Result(r, "abort"))
  BY DEF AskLinks
<1>4. c \in WindowType /\ d \in WindowType BY <1>2 DEF WindowType, Modes
<1>5. /\ c.name = r.name /\ c.deleteFile = r.deleteFile /\ c.convert = r.convert
      /\ c.target = r.target /\ c.buf = r.buf /\ c.mode = "safe"
  BY <1>2 DEF WindowType
<1>6. Alike(d, r) BY <1>2, Fields
<1> HIDE DEF c, d
<1>7. Working(r) /\ ~JustSaved(r) BY <1>1 DEF Working, JustSaved, Unlocking
<1>8. CASE Become(w, CheckTime(c))
  <2> DEFINE q == CheckTime(c)
  <2>1. Alike(q, c) /\ q.pc \in {"askTime", "open", "temp"} BY <1>4, CheckTimeIs
  <2>2. Become(w, q) BY <1>8
  <2> HIDE DEF q
  <2>3. Mine(q, w) BY <1>2, <1>5, <2>1 DEF Mine, Alike
  <2>4. FileThere(q, temp[w]) /\ Nothing(q, fs) BY <1>2, <1>5, <1>7, <2>1 DEF FileThere, Nothing, Alike
  <2> QED BY <1>1, <1>2, <2>2, <2>3, <2>4, OwnQuiet DEF WindowOwn
<1>9. CASE Become(w, CheckTime(d))
  <2>1. Alike(CheckTime(d), d) /\ CheckTime(d).pc \in {"askTime", "open", "temp"} BY <1>4, CheckTimeIs
  <2> QED BY <1>1, <1>6, <1>7, <1>9, <2>1, OwnLike
<1>10. CASE Become(w, Result(r, "abort"))
  <2>1. Alike(Result(r, "abort"), r) /\ Result(r, "abort").pc \in {"settle", "unlock"} BY <1>2, ResultIs
  <2> QED BY <1>1, <1>7, <1>10, <2>1, OwnPlain
<1> QED BY <1>3, <1>8, <1>9, <1>10

LEMMA AskTimeOwn ==
  ASSUME LInv, OInv, Owned, NEW w \in Windows, AskTime(w)
  PROVE  OInv' /\ Spares
<1> DEFINE r == win[w]  x == IF r.mode = "quick" THEN "open" ELSE "temp"
           q == [r EXCEPT !.asked = TRUE, !.pc = x]
<1>1. r.pc = "askTime" /\ world' = world /\ fs' = fs /\ temp' = temp BY DEF AskTime, At, disk
<1>2. r \in WindowType BY <1>1, ActingOwn
<1>3. Become(w, q) \/ Become(w, Result(r, "abort")) BY DEF AskTime
<1>4. x \in {"open", "temp"} OBVIOUS
<1> HIDE DEF x
<1>5. Alike(q, r) /\ q.pc = x BY <1>2 DEF WindowType, Alike
<1> HIDE DEF q
<1>6. Working(r) /\ ~JustSaved(r) BY <1>1 DEF Working, JustSaved, Unlocking
<1>7. Alike(Result(r, "abort"), r) /\ Result(r, "abort").pc \in {"settle", "unlock"} BY <1>2, ResultIs
<1>8. CASE Become(w, q) BY <1>1, <1>4, <1>5, <1>6, <1>8, OwnPlain
<1>9. CASE Become(w, Result(r, "abort")) BY <1>1, <1>6, <1>7, <1>9, OwnPlain
<1> QED BY <1>3, <1>8, <1>9

\* The file a window saves is its own or one that texts are saved as, and it is not closing.
LEMMA SavingOwn ==
  ASSUME LInv, OInv, NEW w \in Windows, win[w].pc \in Saving
  PROVE  /\ win[w] \in WindowType /\ w \in world.windows
         /\ Mine(win[w], w) /\ FileThere(win[w], temp[w]) /\ Nothing(win[w], fs)
         /\ win[w].target \in Names /\ win[w].target \in {world.opens[w]} \union world.targets
         /\ win[w].closing # "sure" /\ Working(win[w]) /\ ~JustSaved(win[w])
<1>1. win[w] \in WindowType /\ WinOK(win[w]) /\ w \in world.windows
      /\ Mine(win[w], w) /\ FileThere(win[w], temp[w]) /\ Nothing(win[w], fs)
  BY ActingOwn DEF Saving
<1>2. win[w].target \in Names BY <1>1 DEF WinOK, SavingOK
<1>3. win[w].target \in {world.opens[w]} \union world.targets
  BY <1>1, <1>2, EditSaveAssumption DEF Mine
<1>4. win[w].closing # "sure" BY <1>1 DEF WinOK, UnlockingOK, Saving, Unlocking
<1>5. Working(win[w]) /\ ~JustSaved(win[w]) BY DEF Saving, Working, JustSaved, Unlocking
<1> QED BY <1>1, <1>2, <1>3, <1>4, <1>5

\* A result does not change whether the window closes.
LEMMA ResultCloses ==
  ASSUME NEW r \in WindowType, NEW x
  PROVE  Result(r, x).closing = r.closing
BY DEF Result, WindowType

\* The end of edit_save_file: only a saved file has a text that was not there.
LEMMA ResultOwn ==
  ASSUME LInv, OInv, Owned, NEW w \in Windows, win[w].pc \in Saving, world' = world,
         \A m \in Names \ {win[w].target} : fs'[m] = fs[m],
         world.mode # "backup" /\ win[w].target \in world.exists => fs'[win[w].target].text # NoText,
         \A v \in Windows \ {w} : temp'[v] = temp[v] /\ Still(win'[v], win[v]),
         NEW c \in WindowType, Alike(c, win[w]), c.closing = win[w].closing, NEW x, win'[w] = Result(c, x),
         x = "ok" \/ fs'[win[w].target] = fs[win[w].target] \/ fs'[win[w].target].text \notin Written
  PROVE  OInv'
<1> DEFINE r == win[w]  n == r.target  q == Result(c, x)
<1>1. /\ r \in WindowType /\ w \in world.windows /\ Mine(r, w) /\ Nothing(r, fs)
      /\ n \in Names /\ n \in {world.opens[w]} \union world.targets /\ r.closing # "sure" /\ ~JustSaved(r)
  BY SavingOwn
<1>2. Alike(q, c) /\ q.pc \in {"settle", "unlock"} /\ q.res = x /\ q.closing = c.closing
  BY ResultIs, ResultCloses
<1>3. win'[w] = q OBVIOUS
<1> HIDE DEF q
<1>4. Alike(q, r) BY <1>2 DEF Alike
<1>5. Mine(q, w) /\ FileThere(q, temp'[w]) BY <1>1, <1>2, <1>4, StaysMine DEF FileThere
<1>6. Nothing(q, fs')
  <2>1. CASE x = "ok" BY <1>1, <1>2, <2>1 DEF Nothing, JustSaved, Unlocking
  <2>2. CASE x # "ok"
    <3>1. ASSUME q.deleteFile PROVE fs'[q.name].text \notin Written
      <4>1. r.deleteFile /\ q.name = r.name BY <1>4, <3>1 DEF Alike
      <4>2. r.name \in Names BY <1>1, <4>1 DEF Mine, WindowType
      <4>3. fs[r.name].text \notin Written BY <1>1, <4>1 DEF Nothing
      <4> QED BY <2>2, <4>1, <4>2, <4>3
    <3> QED BY <3>1 DEF Nothing
  <2> QED BY <2>1, <2>2
<1> HIDE DEF r, n
<1>7. WindowOwn(q, w, temp'[w], fs') BY <1>5, <1>6 DEF WindowOwn
<1> QED BY <1>1, <1>3, <1>7, OwnStep DEF r, n

\* A call that fails in a save.
LEMMA FailedOwn ==
  ASSUME LInv, OInv, Owned, NEW w \in Windows, win[w].pc \in Saving, world' = world, fs' = fs, temp' = temp,
         NEW x, Become(w, Result(win[w], x))
  PROVE  OInv' /\ Spares
<1>1. win[w] \in WindowType /\ Working(win[w]) /\ ~JustSaved(win[w]) BY SavingOwn
<1>2. Alike(Result(win[w], x), win[w]) /\ Result(win[w], x).pc \in {"settle", "unlock"} BY <1>1, ResultIs
<1> QED BY <1>1, <1>2, OwnPlain

LEMMA MakeTempOwn ==
  ASSUME LInv, OInv, Owned, NEW w \in Windows, MakeTemp(w)
  PROVE  OInv' /\ Spares
<1> DEFINE r == win[w]  n == r.target  q == [r EXCEPT !.pc = "open"]
<1>1. r.pc = "temp" /\ world' = world /\ fs' = fs BY DEF MakeTemp, At
<1>2. /\ r \in WindowType /\ w \in world.windows /\ Mine(r, w) /\ Nothing(r, fs)
      /\ n \in Names /\ n \in {world.opens[w]} \union world.targets /\ ~JustSaved(r)
  BY <1>1, SavingOwn DEF Saving
<1>3. CASE temp' = [temp EXCEPT ![w] = Stamped(Empty)] /\ Goto(w, "open")
  <2>1. Become(w, q) BY <1>3, GotoIsBecome
  <2>2. Alike(q, r) /\ q.pc = "open" BY <1>2, Fields
  <2>3. win'[w] = q /\ \A v \in Windows \ {w} : win'[v] = win[v] BY <2>1 DEF LInv, TInv, Become
  <2> HIDE DEF q
  <2>4. \A v \in Windows \ {w} : temp'[v] = temp[v] BY <1>3 DEF LInv, TInv, DiskOK
  <2>5. Mine(q, w) /\ FileThere(q, temp'[w]) BY <1>2, <2>2, StaysMine DEF FileThere
  <2>6. Nothing(q, fs') BY <1>1, <1>2, <2>2 DEF Nothing, Alike
  <2>7. world.mode # "backup" /\ n \in world.exists => fs'[n].text # NoText BY <1>1 DEF OInv, FilesThere
  <2>8. OInv' BY <1>1, <1>2, <2>3, <2>4, <2>5, <2>6, <2>7, OwnStep, StillItself DEF WindowOwn
  <2> QED BY <1>1, <2>8 DEF Spares
<1>4. CASE Become(w, Result(r, "error")) /\ temp' = temp BY <1>1, <1>4, FailedOwn DEF Saving
<1> QED BY <1>3, <1>4 DEF MakeTemp

\* A quick save cuts its file, and leaves it there.
LEMMA OpenToWriteOwn ==
  ASSUME LInv, OInv, Owned, NEW w \in Windows, OpenToWrite(w)
  PROVE  OInv' /\ Spares
<1> DEFINE r == win[w]  n == r.target  q == [r EXCEPT !.pc = "write", !.fd = "name"]
           p == [r EXCEPT !.pc = "write"]
           f == [text |-> Part, time |-> Tick, linked |-> fs[n].linked]
<1>1. r.pc = "open" /\ world' = world /\ temp' = temp BY DEF OpenToWrite, At
<1>2. /\ r \in WindowType /\ w \in world.windows /\ Mine(r, w) /\ Nothing(r, fs)
      /\ n \in Names /\ n \in {world.opens[w]} \union world.targets /\ Working(r) /\ ~JustSaved(r)
  BY <1>1, SavingOwn DEF Saving
<1>3. Alike(q, r) /\ q.pc = "write" BY <1>2 DEF WindowType, Alike
<1>4. Alike(p, r) /\ p.pc = "write" BY <1>2, Fields
<1>5. CASE fs' = [fs EXCEPT ![n] = f] /\ Become(w, q)
  <2>1. f.text = Part OBVIOUS
  <2> HIDE DEF f, q
  <2>2. fs'[n].text = Part /\ \A m \in Names \ {n} : fs'[m] = fs[m]
    BY <1>2, <1>5, <2>1 DEF LInv, TInv, DiskOK
  <2>3. Part # NoText /\ Part \notin Written BY DEF Part, NoText, Written
  <2>4. win'[w] = q /\ \A v \in Windows \ {w} : win'[v] = win[v] BY <1>5 DEF LInv, TInv, Become
  <2>5. Mine(q, w) /\ FileThere(q, temp'[w]) BY <1>2, <1>3, StaysMine DEF FileThere
  <2>6. Nothing(q, fs')
    <3>1. ASSUME q.deleteFile PROVE fs'[q.name].text \notin Written
      <4>1. r.deleteFile /\ q.name = r.name /\ r.name \in Names BY <1>2, <1>3, <3>1 DEF Mine, WindowType, Alike
      <4>2. fs[r.name].text \notin Written BY <1>2, <4>1 DEF Nothing
      <4> QED BY <2>2, <2>3, <4>1, <4>2
    <3> QED BY <3>1 DEF Nothing
  <2>7. OInv' BY <1>1, <1>2, <2>2, <2>3, <2>4, <2>5, <2>6, OwnStep, StillItself DEF WindowOwn
  <2> QED BY <2>2, <2>3, <2>7 DEF Spares
<1>6. CASE Goto(w, "write") /\ fs' = fs
  <2>1. Become(w, p) BY <1>6, GotoIsBecome
  <2> HIDE DEF p
  <2> QED BY <1>1, <1>2, <1>4, <1>6, <2>1, OwnPlain
<1>7. CASE Become(w, Result(r, "error")) /\ fs' = fs BY <1>1, <1>7, FailedOwn DEF Saving
<1> QED BY <1>5, <1>6, <1>7 DEF OpenToWrite

\* What a write does.
LEMMA PutOwn ==
  ASSUME LInv, OInv, Owned, NEW w \in Windows, win[w].pc = "write", NEW t, t # NoText, Put(w, t)
  PROVE  /\ \A m \in Names \ {win[w].target} : fs'[m] = fs[m]
         /\ fs'[win[w].target] = fs[win[w].target] \/ fs'[win[w].target].text = t
         /\ win[w].mode # "quick" => fs' = fs /\ temp'[w].text = t
         /\ \A v \in Windows \ {w} : temp'[v] = temp[v]
         /\ world.mode # "backup" /\ win[w].target \in world.exists => fs'[win[w].target].text # NoText
         /\ Spares
<1> DEFINE r == win[w]  n == r.target  f == [text |-> t, time |-> Tick, linked |-> fs[n].linked]
<1>1. n \in Names BY SavingOwn DEF Saving
<1>2. temp \in [Windows -> Files] /\ fs \in [Names -> Files] BY DEF LInv, TInv, DiskOK
<1>3. Stamped(t).text = t /\ f.text = t BY DEF Stamped
<1>4. \/ r.mode # "quick" /\ temp' = [temp EXCEPT ![w] = Stamped(t)] /\ fs' = fs
      \/ r.mode = "quick" /\ (fs' = fs \/ fs' = [fs EXCEPT ![n] = f]) /\ temp' = temp
  BY DEF Put, disk
<1> HIDE DEF f
<1>5. /\ \A m \in Names \ {n} : fs'[m] = fs[m]
      /\ fs'[n] = fs[n] \/ fs'[n].text = t
      /\ r.mode # "quick" => fs' = fs /\ temp'[w].text = t
      /\ \A v \in Windows \ {w} : temp'[v] = temp[v]
  BY <1>1, <1>2, <1>3, <1>4
<1>6. world.mode # "backup" /\ n \in world.exists => fs'[n].text # NoText BY <1>5 DEF OInv, FilesThere
<1>7. Spares BY <1>5 DEF Spares
<1> QED BY <1>5, <1>6, <1>7

LEMMA WroteOwn ==
  ASSUME LInv, OInv, Owned, NEW w \in Windows, win[w].pc = "write", world' = world, DiskOK',
         NEW s, s # NoText, Put(w, s), Become(w, Wrote(w))
  PROVE  OInv' /\ Spares
<1> DEFINE r == win[w]
           plain == ~world.filter /\ ~r.convert
           saved == IF r.mode = "quick" THEN fs'[r.target] ELSE temp'[w]
           t == IF plain THEN saved.time ELSE r.time
           b == IF r.mode = "quick" THEN saved.text ELSE r.base
           c == [r EXCEPT !.time = t, !.base = b]
           x == IF r.mode = "backup" THEN "backup" ELSE "rename"
           q == [r EXCEPT !.time = t, !.base = b, !.pc = x]
<1>1. /\ r \in WindowType /\ w \in world.windows /\ Mine(r, w) /\ Nothing(r, fs) /\ ~JustSaved(r)
      /\ r.target \in Names /\ r.target \in {world.opens[w]} \union world.targets
  BY SavingOwn DEF Saving
<1>2. Wrote(w) = IF plain /\ saved.text = NoText THEN Result(r, "error")
                 ELSE IF r.mode = "quick" THEN Result(c, "ok") ELSE [c EXCEPT !.pc = x]
  BY DEF Wrote
<1>3. /\ \A m \in Names \ {r.target} : fs'[m] = fs[m]
      /\ r.mode # "quick" => fs' = fs /\ temp'[w].text = s
      /\ \A v \in Windows \ {w} : temp'[v] = temp[v]
      /\ world.mode # "backup" /\ r.target \in world.exists => fs'[r.target].text # NoText
      /\ Spares
  BY PutOwn
<1>4. saved.text = NoText => fs'[r.target] = fs[r.target] \/ fs'[r.target].text \notin Written
  BY <1>3 DEF NoText, Written
<1> HIDE DEF plain, saved, t, b
<1>5. ASSUME NEW e, Become(w, e) PROVE win'[w] = e /\ \A v \in Windows \ {w} : win'[v] = win[v]
  BY <1>5 DEF LInv, TInv, Become
<1>6. CASE saved.text = NoText /\ Become(w, Result(r, "error"))
  BY <1>1, <1>3, <1>4, <1>5, <1>6, ResultOwn, StillItself, Itself DEF Saving
<1>7. CASE Become(w, Result(c, "ok"))
  <2>1. WinOK(r) BY Acting
  <2>2. saved \in Files BY <1>1 DEF DiskOK, saved
  <2>3. t \in Times /\ b \in Texts BY <1>1, <2>2 DEF Files, WindowType, t, b
  <2>4. c \in WindowType BY <1>1, <2>1, <2>3, SaveStamped DEF WinOK, Saving
  <2>5. Alike(c, r) /\ c.closing = r.closing BY <1>1 DEF WindowType, Alike
  <2> HIDE DEF c
  <2> QED BY <1>1, <1>3, <1>5, <1>7, <2>4, <2>5, ResultOwn, StillItself DEF Saving
<1>8. CASE r.mode # "quick" /\ Become(w, [c EXCEPT !.pc = x])
  <2>1. Become(w, q) BY <1>8
  <2>2. x \in {"backup", "rename"} /\ (x = "backup" => r.mode = "backup") OBVIOUS
  <2> HIDE DEF x, c
  <2>3. Alike(q, r) /\ q.pc = x BY <1>1 DEF WindowType, Alike
  <2>4. win'[w] = q /\ \A v \in Windows \ {w} : win'[v] = win[v] BY <1>5, <2>1
  <2> HIDE DEF q
  <2>5. q.pc = "backup" => q.mode = "backup" BY <2>2, <2>3 DEF Alike
  <2>6. Mine(q, w) BY <1>1, <2>2, <2>3, <2>5, StaysMine
  <2>7. FileThere(q, temp'[w]) /\ Nothing(q, fs') BY <1>1, <1>3, <1>8, <2>3 DEF FileThere, Nothing, Alike
  <2>8. WindowOwn(q, w, temp'[w], fs') BY <2>6, <2>7 DEF WindowOwn
  <2> HIDE DEF r
  <2>9. OInv' BY <1>1, <1>3, <2>4, <2>8, OwnStep, StillItself
  <2> QED BY <1>3, <2>9
<1> QED BY <1>2, <1>6, <1>7, <1>8

LEMMA WritesOwn ==
  ASSUME LInv, OInv, Owned, NEW w \in Windows, WriteAll(w) \/ WriteFails(w) \/ CloseFails(w)
  PROVE  OInv' /\ Spares
<1> DEFINE r == win[w]
<1>1. r.pc = "write" /\ UNCHANGED <<world, link, alive, texts, bold, missed>>
  BY DEF WriteAll, WriteFails, CloseFails, At
<1>2. r \in WindowType /\ r.buf \in Texts /\ r.buf # NoText BY <1>1, SavingOwn DEF Saving, Mine, WindowType
<1>3. Part \in Texts /\ Part # NoText /\ Part \notin Written BY DEF Texts, Part, NoText, Written
<1>4. ASSUME NEW t \in Texts, t # NoText, Put(w, t), Become(w, Wrote(w)) PROVE OInv' /\ Spares
  <2>1. DiskOK' BY <1>1, <1>4, PutTyped
  <2> QED BY <1>1, <1>4, <2>1, WroteOwn
<1>5. CASE WriteFails(w)
  <2>1. Put(w, Part) /\ Become(w, Result(r, "error")) BY <1>5 DEF WriteFails
  <2>2. win'[w] = Result(r, "error") /\ \A v \in Windows \ {w} : win'[v] = win[v]
    BY <2>1 DEF LInv, TInv, Become
  <2>3. /\ \A m \in Names \ {r.target} : fs'[m] = fs[m]
        /\ fs'[r.target] = fs[r.target] \/ fs'[r.target].text = Part
        /\ \A v \in Windows \ {w} : temp'[v] = temp[v]
        /\ world.mode # "backup" /\ r.target \in world.exists => fs'[r.target].text # NoText
        /\ Spares
    BY <1>1, <1>3, <2>1, PutOwn
  <2> QED BY <1>1, <1>2, <1>3, <2>2, <2>3, ResultOwn, StillItself, Itself DEF Saving
<1> QED BY <1>2, <1>3, <1>4, <1>5 DEF WriteAll, CloseFails

\* A window whose open file is renamed or unlinked does not act.
LEMMA MovedStill ==
  ASSUME LInv, NEW w \in Windows, NEW q, NEW n, NEW x, win' = [Moved(win, n, x) EXCEPT ![w] = q]
  PROVE  win'[w] = q /\ \A v \in Windows \ {w} : Still(win'[v], win[v])
<1>1. win'[w] = q /\ \A v \in Windows \ {w} : win'[v] = Moved(win, n, x)[v] BY DEF Moved
<1>2. ASSUME NEW v \in Windows PROVE Still(Moved(win, n, x)[v], win[v])
  <2>1. win[v] \in WindowType BY DEF LInv, TInv, WinOK
  <2>2. Moved(win, n, x)[v] \in {[win[v] EXCEPT !.fd = x], win[v]} BY DEF Moved
  <2> QED BY <2>1, <2>2 DEF WindowType, Alike, Still
<1> QED BY <1>1, <1>2

\* What the first rename takes away is under its backup name.
LEMMA BackupOwn ==
  ASSUME LInv, OInv, Owned, NEW w \in Windows, Backup(w)
  PROVE  OInv' /\ Spares
<1> DEFINE r == win[w]  n == r.target  q == [r EXCEPT !.pc = "rename"]
<1>1. r.pc = "backup" /\ world' = world /\ temp' = temp BY DEF Backup, At
<1>2. /\ r \in WindowType /\ w \in world.windows /\ Mine(r, w) /\ Nothing(r, fs) /\ FileThere(r, temp[w])
      /\ n \in Names /\ n \in {world.opens[w]} \union world.targets /\ ~JustSaved(r)
  BY <1>1, SavingOwn DEF Saving
<1>3. r.fd = "none" BY <1>1, ActingOwn DEF WinOK, SavingOK, WindowType
<1>4. Alike(q, r) /\ q.pc = "rename" BY <1>2, Fields
<1>5. CASE /\ fs' = [fs EXCEPT ![n] = Absent] /\ backup' = [backup EXCEPT ![n] = fs[n]]
           /\ win' = [Moved(win, n, "backup") EXCEPT ![w].pc = "rename"]
  <2>1. Moved(win, n, "backup")[w] = r BY <1>3 DEF Moved
  <2>2. win' = [Moved(win, n, "backup") EXCEPT ![w] = q] BY <1>5, <2>1
  <2> HIDE DEF q
  <2>3. win'[w] = q /\ \A v \in Windows \ {w} : Still(win'[v], win[v]) BY <2>2, MovedStill
  <2>4. /\ \A m \in Names \ {n} : fs'[m] = fs[m]
        /\ fs'[n].text = NoText /\ backup'[n] = fs[n]
    BY <1>2, <1>5 DEF LInv, TInv, DiskOK, Absent
  <2>5. world.mode = "backup" BY <1>1, <1>2 DEF Mine
  <2>6. Mine(q, w) /\ FileThere(q, temp[w]) BY <1>1, <1>2, <1>4, StaysMine DEF FileThere
  <2>7. NoText \notin Written BY DEF NoText, Written
  <2>8. Nothing(q, fs')
    <3>1. ASSUME q.deleteFile PROVE fs'[q.name].text \notin Written
      <4>1. r.deleteFile /\ q.name = r.name /\ r.name \in Names BY <1>2, <1>4, <3>1 DEF Mine, WindowType, Alike
      <4>2. fs[r.name].text \notin Written BY <1>2, <4>1 DEF Nothing
      <4> QED BY <2>4, <2>7, <4>1, <4>2
    <3> QED BY <3>1 DEF Nothing
  <2>9. WindowOwn(q, w, temp'[w], fs') BY <1>1, <2>6, <2>8 DEF WindowOwn
  <2> HIDE DEF r, n
  <2>10. OInv' BY <1>1, <1>2, <2>3, <2>4, <2>5, <2>9, OwnStep
  <2> QED BY <2>4, <2>10 DEF Spares
<1>6. CASE Become(w, Result(r, "error")) /\ fs' = fs BY <1>1, <1>6, FailedOwn DEF Saving
<1> QED BY <1>5, <1>6 DEF Backup

LEMMA RenameOwn ==
  ASSUME LInv, OInv, Owned, NEW w \in Windows, Rename(w)
  PROVE  OInv' /\ Spares
<1> DEFINE r == win[w]  n == r.target  c == [r EXCEPT !.base = temp[w].text]
<1>1. r.pc = "rename" /\ world' = world BY DEF Rename, At
<1>2. /\ r \in WindowType /\ FileThere(r, temp[w]) /\ n \in Names
  BY <1>1, SavingOwn DEF Saving
<1>3. CASE /\ fs' = [fs EXCEPT ![n] = temp[w]] /\ temp' = [temp EXCEPT ![w] = Absent]
           /\ win' = [Moved(win, n, "gone") EXCEPT ![w] = Result(c, "ok")]
  <2>1. temp[w] \in Files /\ fs \in [Names -> Files] /\ temp \in [Windows -> Files]
    BY DEF LInv, TInv, DiskOK
  <2>2. c \in WindowType /\ Alike(c, r) /\ c.closing = r.closing BY <1>2, <2>1 DEF WindowType, Alike, Files
  <2> HIDE DEF c
  <2>3. win'[w] = Result(c, "ok") /\ \A v \in Windows \ {w} : Still(win'[v], win[v])
    BY <1>3, MovedStill
  <2>4. \A v \in Windows \ {w} : temp'[v] = temp[v] BY <1>3, <2>1
  <2>5. fs'[n].text # NoText /\ \A m \in Names \ {n} : fs'[m] = fs[m]
    BY <1>1, <1>2, <1>3, <2>1 DEF FileThere
  <2>6. OInv' BY <1>1, <2>2, <2>3, <2>4, <2>5, ResultOwn DEF Saving
  <2> QED BY <2>5, <2>6 DEF Spares
<1>4. CASE Become(w, Result(r, "error")) /\ UNCHANGED <<fs, temp>> BY <1>1, <1>4, FailedOwn DEF Saving
<1> QED BY <1>3, <1>4 DEF Rename

\* A window that has saved takes the name of its file, and is to delete nothing.
LEMMA SettledOwn ==
  ASSUME NEW w, NEW t, NEW files, NEW r \in WindowType, r.res = "ok",
         r.buf # NoText, r.convert => world.convert, r.mode = "backup" => world.mode = "backup",
         r.target \in {world.opens[w], NoName} \union world.targets
  PROVE  WindowOwn(Settled(r), w, t, files)
<1> DEFINE c == [r EXCEPT !.modified = FALSE, !.deleteFile = FALSE, !.name = r.target]
           q == Finish(c, TRUE)
<1>1. Settled(r) = q BY DEF Settled
<1>2. /\ c \in WindowType /\ c.name = r.target /\ c.deleteFile = FALSE /\ c.convert = r.convert
      /\ c.target = r.target /\ c.mode = r.mode /\ c.buf = r.buf
  BY DEF WindowType
<1> HIDE DEF c
<1>3. Alike(q, c) /\ q.pc \in {"unlock", "clean", "idle"} BY <1>2, FinishIs
<1> HIDE DEF q
<1>4. Mine(q, w) BY <1>2, <1>3 DEF Mine, Alike
<1>5. FileThere(q, t) /\ Nothing(q, files) BY <1>2, <1>3 DEF FileThere, Nothing, Alike
<1> QED BY <1>1, <1>4, <1>5 DEF WindowOwn

LEMMA SettleOwn ==
  ASSUME LInv, OInv, Owned, NEW w \in Windows, Settle(w)
  PROVE  OInv' /\ Spares
<1> DEFINE r == win[w]  a == [r EXCEPT !.pc = "askName"]  ok == r.cmd = "save"
<1>1. r.pc = "settle" /\ world' = world /\ fs' = fs /\ temp' = temp /\ Become(w, Settled(r))
  BY DEF Settle, At, disk
<1>2. r \in WindowType /\ w \in world.windows /\ Mine(r, w) BY <1>1, ActingOwn
<1>3. CASE r.res = "ok"
  <2>1. WindowOwn(Settled(r), w, temp[w], fs) BY <1>2, <1>3, SettledOwn DEF Mine
  <2> QED BY <1>1, <1>2, <2>1, OwnQuiet
<1>4. CASE r.res # "ok"
  <2>1. Settled(r) \in {a, Finish(r, ok)} BY <1>4 DEF Settled
  <2>2. Alike(a, r) /\ a.pc = "askName" BY <1>2, Fields
  <2>3. Alike(Finish(r, ok), r) /\ Finish(r, ok).pc \in {"unlock", "clean", "idle"} BY <1>2, FinishIs
  <2> DEFINE q == Settled(r)
  <2> HIDE DEF a
  <2>4. Alike(q, r) /\ q.pc \in {"askName", "unlock", "clean", "idle"} BY <2>1, <2>2, <2>3
  <2>5. Become(w, q) BY <1>1
  <2>6. Working(r) /\ ~JustSaved(r) BY <1>1, <1>4 DEF Working, JustSaved
  <2> HIDE DEF q
  <2> QED BY <1>1, <2>4, <2>5, <2>6, OwnPlain
<1> QED BY <1>3, <1>4

\* edit_reload finds nothing to delete: only files that were there are saved with other
\* line breaks, or names that a window was given later.
LEMMA ReloadOwn ==
  ASSUME LInv, OInv, Owned, NEW w \in Windows, Reload(w)
  PROVE  OInv' /\ Spares
<1> DEFINE r == win[w]  n == r.target
           Read(t, b) == ReadInto(n, t, b, r.closing, r.commands)
<1>1. r.pc = "settle" /\ r.cmd = "saveAs" /\ r.convert /\ world' = world /\ temp' = temp
  BY DEF Reload, At
<1>2. r \in WindowType /\ WinOK(r) /\ w \in world.windows /\ Mine(r, w) BY <1>1, ActingOwn
<1>3. n \in Names BY <1>1, <1>2 DEF WinOK, UnlockingOK
<1>4. n \in {world.opens[w]} \union world.targets BY <1>2, <1>3, EditSaveAssumption DEF Mine
<1>5. fs \in [Names -> Files] BY DEF LInv, TInv, DiskOK
<1>6. ~r.deleteFile BY <1>1, <1>2 DEF Mine, Owned, Own
<1>7. ASSUME NEW t \in Times, NEW b \in Texts, b # NoText, NEW files
      PROVE  WindowOwn(Settled(Read(t, b)), w, temp[w], files)
  <2> DEFINE o == NewWindow(n)  k == Read(t, b)
  <2>1. r.closing \in {"no", "asked"} /\ r.commands \in Nat
    BY <1>1, <1>2 DEF WinOK, UnlockingOK, Unlocking, WindowType
  <2>2. WinOK(k) /\ k.res = "ok"
    <3> HIDE DEF r, n
    <3> QED BY <2>1, <1>3, <1>7, ReadAgain
  <2>3. /\ o \in WindowType /\ o.convert = FALSE /\ o.deleteFile = FALSE /\ o.name = n
        /\ o.mode = "quick" /\ o.pc = "unopened"
    BY <1>3, NewFits DEF WinOK, NewWindow
  <2>4. /\ k.buf = b /\ k.target = n /\ k.convert = FALSE /\ k.deleteFile = FALSE /\ k.name = n
        /\ k.mode = "quick" /\ k.pc = "unopened"
    <3> HIDE DEF o
    <3>1. k = [o EXCEPT !.time = t, !.buf = b, !.base = b, !.cmd = "saveAs", !.target = n,
                        !.closing = r.closing, !.commands = r.commands]
      BY DEF ReadInto, o
    <3> QED BY <3>1, <2>3 DEF WindowType
  <2>5. k \in WindowType BY <2>2 DEF WinOK
  <2>6. WindowOwn(Settled(k), w, temp[w], files)
    <3> HIDE DEF k, o
    <3> QED BY <1>4, <1>7, <2>2, <2>4, <2>5, SettledOwn
  <2> QED BY <2>6
<1>8. CASE Exists(n)
  <2> DEFINE q == Settled(Read(fs[n].time, fs[n].text))
  <2>1. fs' = fs /\ Become(w, q) BY <1>6, <1>8 DEF Reload, ReadInto, Become
  <2>2. fs[n].time \in Times /\ fs[n].text \in Texts /\ fs[n].text # NoText
    BY <1>3, <1>5, <1>8 DEF Files, Exists
  <2>3. WindowOwn(q, w, temp[w], fs) BY <2>2, <1>7
  <2> HIDE DEF q
  <2> QED BY <1>1, <1>2, <2>1, <2>3, OwnQuiet
<1>9. CASE ~Exists(n)
  <2> DEFINE k == Read(fs[n].time, fs[n].text)  m == Read(Tick, Empty)  q == Settled(m)
  <2>1. /\ fs' = [fs EXCEPT ![n] = Stamped(Empty)]
        /\ Become(w, Settled([k EXCEPT !.time = Tick, !.buf = Empty, !.base = Empty]))
    BY <1>6, <1>9 DEF Reload, ReadInto
  <2>2. [k EXCEPT !.time = Tick, !.buf = Empty, !.base = Empty] = m
    <3> DEFINE o == NewWindow(n)
    <3>1. o \in WindowType BY <1>3, NewFits DEF WinOK
    <3> HIDE DEF o
    <3>2. [[o EXCEPT !.time = fs[n].time, !.buf = fs[n].text, !.base = fs[n].text, !.cmd = "saveAs", !.target = n,
                     !.closing = r.closing, !.commands = r.commands]
           EXCEPT !.time = Tick, !.buf = Empty, !.base = Empty]
          = [o EXCEPT !.time = Tick, !.buf = Empty, !.base = Empty, !.cmd = "saveAs", !.target = n,
                      !.closing = r.closing, !.commands = r.commands]
      BY <3>1 DEF WindowType
    <3> QED BY <3>2 DEF o, ReadInto
  <2>3. Become(w, q) BY <2>1, <2>2
  <2>4. Empty \in Texts /\ Empty # NoText BY DEF Texts, Empty, NoText
  <2>5. fs'[n].text = Empty /\ \A f \in Names \ {n} : fs'[f] = fs[f] BY <1>3, <1>5, <2>1 DEF Stamped
  <2>6. WindowOwn(q, w, temp[w], fs') BY <2>4, <1>7, Stamps
  <2> HIDE DEF q, k, m
  <2>7. win'[w] = q /\ \A v \in Windows \ {w} : win'[v] = win[v] BY <2>3 DEF LInv, TInv, Become
  <2>8. OInv' BY <1>1, <1>2, <1>3, <1>4, <2>4, <2>5, <2>6, <2>7, OwnStep, StillItself
  <2> QED BY <2>4, <2>5, <2>8 DEF Spares
<1> QED BY <1>8, <1>9

\* edit_clean deletes a file that the window created and that has no text.
LEMMA CleanOwn ==
  ASSUME LInv, OInv, Owned, NEW w \in Windows, Clean(w)
  PROVE  OInv' /\ Spares
<1> DEFINE r == win[w]  n == r.name  q == [r EXCEPT !.pc = "closed"]
<1>1. r.pc = "clean" /\ world' = world /\ temp' = temp BY DEF Clean, At
<1>2. r \in WindowType /\ WinOK(r) /\ w \in world.windows /\ Mine(r, w) /\ Nothing(r, fs) BY <1>1, ActingOwn
<1>3. /\ fs' = IF r.deleteFile THEN [fs EXCEPT ![n] = Absent] ELSE fs
      /\ win' = [(IF r.deleteFile THEN Moved(win, n, "gone") ELSE win) EXCEPT ![w].pc = "closed"]
  BY DEF Clean
<1>4. Alike(q, r) /\ q.pc = "closed" BY <1>2, Fields
<1>5. Working(r) /\ ~JustSaved(r) BY <1>1 DEF Working, JustSaved, Unlocking
<1>6. CASE ~r.deleteFile
  <2>1. fs' = fs /\ Become(w, q) BY <1>3, <1>6 DEF Become
  <2> HIDE DEF q
  <2> QED BY <1>1, <1>4, <1>5, <2>1, OwnPlain
<1>7. CASE r.deleteFile
  <2>1. r.fd = "none" BY <1>1, <1>2 DEF WinOK, SavingOK, WindowType
  <2>2. Moved(win, n, "gone")[w] = r BY <2>1 DEF Moved
  <2>3. win' = [Moved(win, n, "gone") EXCEPT ![w] = q] BY <1>3, <1>7, <2>2
  <2> HIDE DEF q
  <2>4. win'[w] = q /\ \A v \in Windows \ {w} : Still(win'[v], win[v]) BY <2>3, MovedStill
  <2>5. /\ n = world.opens[w] /\ n \in Names /\ (n \notin world.exists \/ world.mode = "backup")
        /\ fs[n].text \notin Written
    BY <1>2, <1>5, <1>7 DEF Mine, Nothing, WindowType
  <2>6. fs'[n].text = NoText /\ \A m \in Names \ {n} : fs'[m] = fs[m]
    BY <1>3, <1>7, <2>5 DEF LInv, TInv, DiskOK, Absent
  <2>7. NoText \notin Written BY DEF NoText, Written
  <2>8. Mine(q, w) /\ FileThere(q, temp'[w]) BY <1>2, <1>4, StaysMine DEF FileThere
  <2>9. Nothing(q, fs') BY <1>4, <2>6, <2>7 DEF Nothing, Alike
  <2>10. WindowOwn(q, w, temp'[w], fs') BY <2>8, <2>9 DEF WindowOwn
  <2> HIDE DEF r, n
  <2>11. OInv' BY <1>1, <1>2, <2>4, <2>5, <2>6, <2>10, OwnStep
  <2> QED BY <2>5, <2>6, <2>11 DEF Spares
<1> QED BY <1>6, <1>7

LEMMA CrashOwn ==
  ASSUME LInv, OInv, NEW p \in Pids, Crash(p)
  PROVE  OInv' /\ Spares
<1> DEFINE o == NewWindow(NoName)  d == [o EXCEPT !.pc = "dead"]
<1>1. /\ world' = world /\ fs' = fs /\ temp' = temp
      /\ win' = [w \in Windows |-> IF world.pid[w] = p THEN d ELSE win[w]]
  BY DEF Crash, disk
<1>2. /\ o \in WindowType /\ o.target = NoName /\ o.name = NoName /\ o.deleteFile = FALSE
      /\ o.convert = FALSE /\ o.buf # NoText /\ o.mode = "quick"
  BY NewFits DEF WinOK, NewWindow, Empty, NoText
<1> HIDE DEF o
<1>3. /\ d.pc = "dead" /\ d.target = NoName /\ d.name = NoName /\ d.deleteFile = FALSE
      /\ d.convert = FALSE /\ d.buf # NoText /\ d.mode = "quick"
  BY <1>2 DEF WindowType
<1> HIDE DEF d
<1>4. \A w \in Windows : WindowOwn(d, w, temp[w], fs)
  BY <1>3 DEF WindowOwn, Mine, FileThere, Nothing
<1>5. \A w \in Windows : WindowOwn(win'[w], w, temp'[w], fs') BY <1>1, <1>4 DEF OInv, WindowsOwn
<1>6. WindowsOwn' BY <1>1, <1>5 DEF WindowsOwn, WindowOwn, Mine, FileThere, Nothing, JustSaved
<1> QED BY <1>1, <1>6 DEF OInv, FilesThere, Spares

LEMMA OwnInit ==
  ASSUME Init
  PROVE  OInv
<1>1. LInv BY InitHolds
<1>2. ASSUME NEW n \in world.exists PROVE fs[n].text # NoText
  <2>1. fs[n] = [text |-> 1, time |-> 1, linked |-> n \in world.linked] BY <1>1, <1>2, WorldNames DEF Init
  <2> QED BY <2>1 DEF NoText
<1>3. ASSUME NEW w \in Windows PROVE WindowOwn(win[w], w, temp[w], fs)
  <2> DEFINE o == win[w]
  <2>1. o = NewWindow(world.opens[w]) BY DEF Init
  <2>2. /\ o.pc = "unopened" /\ o.name = world.opens[w] /\ o.deleteFile = FALSE /\ o.convert = FALSE
        /\ o.target = NoName /\ o.buf # NoText /\ o.mode = "quick"
    BY <2>1 DEF NewWindow, Empty, NoText
  <2> HIDE DEF o
  <2> QED BY <2>2 DEF o, WindowOwn, Mine, FileThere, Nothing
<1> QED BY <1>2, <1>3 DEF OInv, FilesThere, WindowsOwn

LEMMA OwnNext ==
  ASSUME LInv, OInv, Owned, [Next]_vars
  PROVE  OInv' /\ Spares
<1>1. ASSUME NEW w \in Windows, Step(w) PROVE OInv' /\ Spares
  BY <1>1, OpenOwn, LoadOwn, TypeOwn, LockOwn, UnlockOwn, CommandsOwn, AskSaveOwn, AskNameOwn,
     AskOverOwn, StatOwn, AskLinksOwn, AskTimeOwn, MakeTempOwn, OpenToWriteOwn, WritesOwn, BackupOwn,
     RenameOwn, ReloadOwn, SettleOwn, CleanOwn
     DEF Step
<1>2. CASE UNCHANGED vars
  BY <1>2 DEF vars, disk, OInv, FilesThere, WindowsOwn, WindowOwn, Mine, FileThere, Nothing, JustSaved, Spares
<1> QED BY <1>1, <1>2, CrashOwn DEF Next

\* No window removes a file with a text in it, in any save mode, with any number of
\* windows and processes and whatever fails, as long as a file that one window creates is
\* not one that others open or save as (edit_clean's unlink).
THEOREM OnlyEmptyFilesDeleted == Spec /\ Own(world) => DeletesNoText
<1> DEFINE Spared == \A n \in Names : fs'[n] = Absent /\ backup'[n] # fs[n] => fs[n].text \notin Written
           JInv == Owned /\ OInv
<1>1. Init /\ Own(world) => JInv BY OwnInit DEF Owned
<1>2. LInv /\ JInv /\ [Next]_vars => JInv'
  <2> SUFFICES ASSUME LInv, JInv, [Next]_vars PROVE JInv' OBVIOUS
  <2>1. Owned' BY WorldStays DEF Owned, Own
  <2> QED BY <2>1, OwnNext
<1>3. LInv /\ JInv /\ [Next]_vars => [Spared]_vars
  <2> SUFFICES ASSUME LInv, JInv, [Next]_vars, NEW n \in Names, fs'[n] = Absent, backup'[n] # fs[n]
               PROVE  fs[n].text \notin Written
    OBVIOUS
  <2>1. Absent.text = NoText /\ NoText \notin Written BY DEF Absent, NoText, Written
  <2>2. Spares BY OwnNext
  <2> QED BY <2>1, <2>2 DEF Spares
<1> QED BY <1>1, <1>2, <1>3, InvariantHolds, PTL DEF Spec, DeletesNoText

-----------------------------------------------------------------------------
(* What other sessions saved                                               *)

\* The circumstances in which the times of the files tell who saved last: every write gets
\* a time of its own, every window has the file it was opened with, locks are not missed
\* because of dead processes, and a file that is created belongs to one window.
Heedful(wd) == wd.ticks /\ Careful(wd) /\ Own(wd) /\ \A w \in wd.windows : wd.opens[w] # NoName

Heeded == Heedful(world)
Past == bold \union missed

\* The file that a window is about; after a save that is the one it saved.
Active(q) == q.pc \notin {"unopened", "closed", "dead"}
Subject(q) == IF JustSaved(q) THEN q.target ELSE q.name

\* A time is in the past; what exists has one.
Timely(f, clock) == f.time \in 0 .. clock /\ (f.text # NoText => f.time > 0)
Dated(q, clock) == q.time \in 0 .. clock /\ (Active(q) => q.time > 0 /\ q.name # NoName)

\* As long as its file has the time that a window remembers, the window knows its text.
Current(q, files) ==
  /\ Active(q) /\ q.pc # "load" /\ files[Subject(q)].text # NoText
  /\ files[Subject(q)].time = q.time
  => q.base = files[Subject(q)].text

\* A window that saves has the lock of the file, or created it.
Claims(q, past) ==
  q.pc \in Saving /\ q.target \notin past => Holds(q, q.target) \/ (q.deleteFile /\ q.name = q.target)

\* A file that was not there when the user gave its name has another time.
Unseen(q, files) ==
  /\ q.pc \in Locking \union {"stat", "askLinks"} /\ q.cmd = "saveAs" /\ q.target # q.name /\ ~q.asked
  /\ files[q.target].text # NoText
  => files[q.target].time # q.time

\* The question about hard links is about the file that is there.
Looked(q, files, past) ==
  q.pc = "askLinks" /\ q.target \notin past /\ files[q.target].text \in Written => q.sb = files[q.target]

\* A text that is overwritten unasked is the one the window had.
Aware(q, files, past) ==
  /\ q.pc \in {"temp", "open", "write", "backup", "rename"} /\ ~q.asked /\ q.target \notin past
  /\ files[q.target].text \in Written
  => q.name = q.target /\ q.base = files[q.target].text

WindowAware(q, files, clock, past) ==
  /\ Dated(q, clock) /\ Current(q, files) /\ Claims(q, past) /\ Unseen(q, files)
  /\ Looked(q, files, past) /\ Aware(q, files, past)

\* The temporary file of a save has a time that nothing else has.
OwnTime(w) ==
  temp[w].text # NoText =>
    /\ \A n \in Names : fs[n].time # temp[w].time
    /\ \A v \in Windows \ {w} : win[v].time # temp[w].time /\ temp[v].time # temp[w].time

FilesTimed == \A n \in Names : Timely(fs[n], now)
TempsTimed == \A w \in Windows : Timely(temp[w], now) /\ OwnTime(w)
WindowsAware == \A w \in Windows : WindowAware(win[w], fs, now, Past)
AInv == FilesTimed /\ TempsTimed /\ WindowsAware

\* The property of a step.
Loud == \A n \in Names \ (bold \union missed) : ~Silent(n)

\* Windows that agree on what they are about, and a window that does not act.
Keeps(q, r) == q.name = r.name /\ q.target = r.target /\ q.time = r.time /\ q.base = r.base
Agrees(q, r) ==
  /\ Keeps(q, r) /\ q.cmd = r.cmd /\ q.asked = r.asked /\ q.locked = r.locked
  /\ q.saveLock = r.saveLock /\ q.deleteFile = r.deleteFile
Rests(q, r) ==
  Agrees(q, r) /\ q.pc = r.pc /\ q.closing = r.closing /\ q.res = r.res /\ q.sb = r.sb /\ q.todo = r.todo

\* What a step of w does to a file, to its temporary file, and to the time it remembers.
Changed(w, n) ==
  \/ fs'[n] = fs[n]
  \/ fs'[n] = Absent
  \/ /\ fs'[n].time = now + 1 /\ now' = now + 1
     /\ \/ win[w].pc \in {"open", "write"} /\ n = win[w].target
        \/ fs[n].text \notin Written /\ fs'[n].text \notin Written
  \/ /\ fs'[n] = temp[w] /\ temp[w].text # NoText /\ temp'[w] = Absent
     /\ win[w].pc = "rename" /\ n = win[w].target
TempChanged(w) ==
  \/ temp'[w] = temp[w]
  \/ temp'[w] = Absent
  \/ temp'[w].time = now + 1 /\ now' = now + 1 /\ fs' = fs
TimeChanged(w, q) ==
  \/ q.time = win[w].time
  \/ q.time = now + 1 /\ now' = now + 1
  \/ \E n \in Names : q.time = fs[n].time

LEMMA RestsItself == \A q : Rests(q, q)
BY DEF Rests, Agrees, Keeps

\* The clock of circumstances in which every write has its own time.
LEMMA ClockIs ==
  ASSUME LInv, Heeded
  PROVE  now \in Nat /\ Tick = now + 1 /\ Owned /\ Careful(world)
BY DEF LInv, TInv, DiskOK, Times, Tick, Heeded, Heedful, Owned

LEMMA AbsentIs == Absent.text = NoText /\ Absent.time = 0 /\ NoText \notin Written
BY DEF Absent, NoText, Written

\* Two windows do not save the same file.
LEMMA OneSaves ==
  ASSUME LInv, OInv, AInv, Heeded, NEW v \in Windows, NEW w \in Windows, v # w,
         win[v].pc \in Saving, win[w].pc \in Saving, win[v].target = win[w].target,
         win[w].target \notin Past
  PROVE  FALSE
<1> DEFINE n == win[w].target
<1>1. n \in Names /\ v \in world.windows /\ w \in world.windows BY SavingOwn
<1>2. Claims(win[v], Past) /\ Claims(win[w], Past) BY DEF AInv, WindowsAware, WindowAware
<1>3. ASSUME NEW a \in Windows, NEW b \in Windows, a # b, win[a].pc \in Saving, win[b].pc \in Saving,
             win[a].target = n, win[b].target = n, win[a].deleteFile, win[a].name = n
      PROVE  FALSE
  <2>1. a \in world.windows /\ Mine(win[a], a) /\ b \in world.windows
        /\ win[b].target \in {world.opens[b]} \union world.targets
    BY <1>3, SavingOwn
  <2>2. n = world.opens[a] /\ n # NoName /\ (n \notin world.exists \/ world.mode = "backup")
    BY <1>3, <2>1 DEF Mine
  <2>3. Own(world) BY DEF Heeded, Heedful
  <2>4. world.opens[a] # world.opens[b] /\ world.opens[a] \notin world.targets
    BY <1>3, <2>1, <2>2, <2>3 DEF Own
  <2> QED BY <1>3, <2>1, <2>2, <2>4
<1>4. Holds(win[v], n) /\ Holds(win[w], n) BY <1>2, <1>3 DEF Claims
<1>5. Single BY DEF LInv, Heeded, Heedful
<1>6. n \in bold BY <1>1, <1>4, <1>5 DEF Single
<1> QED BY <1>6 DEF Past

\* The names that a window works with.
LEMMA SubjectIs ==
  ASSUME LInv, AInv, NEW v \in Windows, Active(win[v])
  PROVE  Subject(win[v]) \in Names
<1>1. WinOK(win[v]) /\ Dated(win[v], now) BY DEF LInv, TInv, AInv, WindowsAware, WindowAware
<1>2. win[v].name \in Names BY <1>1 DEF WinOK, WindowType, Dated
<1>3. JustSaved(win[v]) => win[v].target \in Names BY <1>1 DEF WinOK, UnlockingOK, JustSaved
<1> QED BY <1>2, <1>3 DEF Subject

\* What the times of the other windows say after a step of w.
LEMMA OtherTime ==
  ASSUME LInv, AInv, Heeded, NEW w \in Windows, NEW v \in Windows \ {w}, NEW n \in Names, Changed(w, n),
         fs'[n].text # NoText
  PROVE  fs'[n] = fs[n] \/ fs'[n].time # win[v].time
<1>1. now \in Nat BY ClockIs
<1>2. Dated(win[v], now) BY DEF AInv, WindowsAware, WindowAware
<1>3. OwnTime(w) BY DEF AInv, TempsTimed
<1> QED BY <1>1, <1>2, <1>3, AbsentIs DEF Changed, Dated, OwnTime

\* A window that does not act knows what it knew.
LEMMA OtherAware ==
  ASSUME LInv, OInv, AInv, Heeded, NEW w \in Windows, NEW v \in Windows \ {w}, world' = world,
         now' \in {now, now + 1}, Past \subseteq Past', \A n \in Names : Changed(w, n),
         NEW q, Rests(q, win[v])
  PROVE  WindowAware(q, fs', now', Past')
<1> DEFINE r == win[v]
<1>1. WindowAware(r, fs, now, Past) /\ WinOK(r) BY DEF AInv, WindowsAware, LInv, TInv
<1>2. now \in Nat BY ClockIs
<1>3. Dated(q, now') BY <1>1, <1>2 DEF WindowAware, Dated, Rests, Agrees, Keeps, Active
<1>4. Current(q, fs')
  <2> DEFINE n == Subject(r)
  <2>1. Subject(q) = n /\ (Active(q) <=> Active(r)) /\ q.pc = r.pc /\ q.time = r.time /\ q.base = r.base
    BY DEF Subject, JustSaved, Active, Rests, Agrees, Keeps
  <2>2. Active(r) => n \in Names BY SubjectIs
  <2>3. Current(r, fs) BY <1>1 DEF WindowAware
  <2> HIDE DEF n
  <2> SUFFICES ASSUME Active(r), r.pc # "load", fs'[n].text # NoText, fs'[n].time = r.time
               PROVE  r.base = fs'[n].text
    BY <2>1 DEF Current
  <2>4. fs'[n] = fs[n] BY <2>2, OtherTime
  <2> QED BY <2>3, <2>4 DEF Current, n
<1>5. Claims(q, Past')
  BY <1>1 DEF WindowAware, Claims, Holds, Pending, Rests, Agrees, Keeps
<1>6. Unseen(q, fs')
  <2> DEFINE n == r.target
  <2>1. /\ q.pc = r.pc /\ q.cmd = r.cmd /\ q.target = n /\ q.name = r.name /\ (q.asked = r.asked)
        /\ q.time = r.time
    BY DEF Rests, Agrees, Keeps
  <2>2. r.pc \in Locking \union {"stat", "askLinks"} => n \in Names
    BY <1>1 DEF WinOK, LockingOK, SavingOK, Saving
  <2>3. Unseen(r, fs) BY <1>1 DEF WindowAware
  <2> SUFFICES ASSUME r.pc \in Locking \union {"stat", "askLinks"}, r.cmd = "saveAs", n # r.name,
                      ~r.asked, fs'[n].text # NoText
               PROVE  fs'[n].time # r.time
    BY <2>1 DEF Unseen
  <2>4. fs'[n] = fs[n] \/ fs'[n].time # r.time
    <3> HIDE DEF n
    <3> QED BY <2>2, OtherTime
  <2> QED BY <2>3, <2>4 DEF Unseen
<1>7. ASSUME r.pc \in Saving, r.target \notin Past', fs'[r.target].text \in Written
      PROVE  fs'[r.target] = fs[r.target]
  <2> DEFINE n == r.target
  <2>1. n \in Names /\ n \notin Past BY <1>7, SavingOwn
  <2>2. ~(win[w].pc \in {"open", "write", "rename"} /\ n = win[w].target)
    BY <1>7, <2>1, OneSaves DEF Saving
  <2>3. Changed(w, n) BY <2>1
  <2> HIDE DEF n
  <2>4. fs'[n].text \in Written BY <1>7 DEF n
  <2>5. fs'[n] = fs[n] BY <2>2, <2>3, <2>4, AbsentIs DEF Changed
  <2> QED BY <2>5 DEF n
<1>8. Looked(q, fs', Past')
  <2>1. Looked(r, fs, Past) BY <1>1 DEF WindowAware
  <2>2. q.pc = r.pc /\ q.target = r.target /\ q.sb = r.sb BY DEF Rests, Agrees, Keeps
  <2> SUFFICES ASSUME r.pc = "askLinks", r.target \notin Past', fs'[r.target].text \in Written
               PROVE  r.sb = fs'[r.target]
    BY <2>2 DEF Looked
  <2>3. fs'[r.target] = fs[r.target] BY <1>7 DEF Saving
  <2> QED BY <2>1, <2>3 DEF Looked
<1>9. Aware(q, fs', Past')
  <2>1. Aware(r, fs, Past) BY <1>1 DEF WindowAware
  <2>2. q.pc = r.pc /\ q.target = r.target /\ q.asked = r.asked /\ q.name = r.name /\ q.base = r.base
    BY DEF Rests, Agrees, Keeps
  <2> SUFFICES ASSUME r.pc \in {"temp", "open", "write", "backup", "rename"}, ~r.asked,
                      r.target \notin Past', fs'[r.target].text \in Written
               PROVE  r.name = r.target /\ r.base = fs'[r.target].text
    BY <2>2 DEF Aware
  <2>3. fs'[r.target] = fs[r.target] BY <1>7 DEF Saving
  <2> QED BY <2>1, <2>3 DEF Aware
<1> QED BY <1>3, <1>4, <1>5, <1>6, <1>8, <1>9 DEF WindowAware

\* A step of w that changes a file and its temporary file as the saves do.
LEMMA AwareStep ==
  ASSUME LInv, OInv, AInv, Heeded, NEW w \in world.windows, world' = world,
         now' \in {now, now + 1}, Past \subseteq Past',
         \A n \in Names : Changed(w, n), TempChanged(w),
         win[w].pc \in {"open", "write", "rename"} => Acts(w),
         \A v \in Windows \ {w} : temp'[v] = temp[v] /\ Rests(win'[v], win[v]),
         TimeChanged(w, win'[w]), WindowAware(win'[w], fs', now', Past')
  PROVE  AInv' /\ (Spares => Loud)
<1>0. w \in Windows BY WorldNames
<1>1. now \in Nat BY ClockIs
<1>2. /\ \A n \in Names : Timely(fs[n], now)
      /\ \A v \in Windows : Timely(temp[v], now) /\ OwnTime(v) /\ WindowAware(win[v], fs, now, Past)
  BY DEF AInv, FilesTimed, TempsTimed, WindowsAware
<1>3. FilesTimed'
  <2> SUFFICES ASSUME NEW n \in Names PROVE Timely(fs'[n], now') BY DEF FilesTimed, Timely
  <2>1. Changed(w, n) /\ Timely(fs[n], now) /\ Timely(temp[w], now) BY <1>0, <1>2
  <2> QED BY <1>1, <2>1, AbsentIs DEF Changed, Timely
<1>4. WindowsAware'
  <2>1. ASSUME NEW v \in Windows PROVE WindowAware(win'[v], fs', now', Past')
    <3>1. CASE v = w BY <3>1
    <3>2. CASE v # w BY <1>0, <3>2, OtherAware
    <3> QED BY <3>1, <3>2
  <2> QED BY <2>1 DEF WindowsAware, WindowAware, Dated, Current, Claims, Unseen, Looked, Aware,
                      Active, Subject, JustSaved, Holds, Pending
<1>5. TempsTimed'
  <2> SUFFICES ASSUME NEW v \in Windows
               PROVE  /\ Timely(temp'[v], now')
                      /\ temp'[v].text # NoText =>
                           /\ \A n \in Names : fs'[n].time # temp'[v].time
                           /\ \A u \in Windows \ {v} : win'[u].time # temp'[v].time /\ temp'[u].time # temp'[v].time
    BY DEF TempsTimed, Timely, OwnTime
  <2>1. Timely(temp[v], now) /\ OwnTime(v) /\ Timely(temp[w], now) /\ OwnTime(w) BY <1>0, <1>2
  <2>2. Timely(temp'[v], now')
    <3>1. CASE v = w BY <1>1, <2>1, <3>1, AbsentIs DEF TempChanged, Timely
    <3>2. CASE v # w BY <1>1, <2>1, <3>2 DEF Timely
    <3> QED BY <3>1, <3>2
  <2>3. ASSUME temp'[v].text # NoText, NEW n \in Names PROVE fs'[n].time # temp'[v].time
    <3>1. Changed(w, n) /\ Timely(fs[n], now) BY <1>2
    <3>2. CASE v = w BY <1>1, <2>1, <2>3, <3>1, <3>2, AbsentIs DEF TempChanged, Changed, Timely, OwnTime
    <3>3. CASE v # w
      <4>1. temp'[v] = temp[v] /\ (temp[w].text # NoText => temp[w].time # temp[v].time)
        BY <1>0, <2>1, <3>3 DEF OwnTime
      <4> QED BY <1>1, <2>1, <2>3, <3>1, <4>1, AbsentIs DEF Changed, Timely, OwnTime
    <3> QED BY <3>2, <3>3
  <2>4. ASSUME temp'[v].text # NoText, NEW u \in Windows, u # v PROVE win'[u].time # temp'[v].time
    <3>1. Dated(win[u], now) /\ Dated(win[w], now) BY <1>0, <1>2 DEF WindowAware
    <3>2. CASE u = w
      <4>1. temp'[v] = temp[v] /\ TimeChanged(w, win'[u]) BY <2>4, <3>2
      <4>2. win[w].time # temp[v].time /\ \A n \in Names : fs[n].time # temp[v].time
        BY <1>0, <2>1, <2>4, <3>2, <4>1 DEF OwnTime
      <4> QED BY <1>1, <2>1, <4>1, <4>2 DEF TimeChanged, Timely
    <3>3. CASE u # w
      <4>1. win'[u].time = win[u].time BY <3>3 DEF Rests, Agrees, Keeps
      <4>2. CASE v = w BY <1>1, <2>1, <2>4, <3>1, <4>1, <4>2, AbsentIs DEF TempChanged, Dated, OwnTime
      <4>3. CASE v # w BY <2>1, <2>4, <4>1, <4>3 DEF OwnTime
      <4> QED BY <4>2, <4>3
    <3> QED BY <3>2, <3>3
  <2>5. ASSUME temp'[v].text # NoText, NEW u \in Windows, u # v PROVE temp'[u].time # temp'[v].time
    <3>1. Timely(temp[u], now) /\ OwnTime(u) BY <1>2
    <3>2. CASE u = w
      <4>1. temp'[v] = temp[v] /\ temp[v].text # NoText /\ temp[u].time # temp[v].time
        BY <2>1, <2>5, <3>2 DEF OwnTime
      <4> QED BY <1>1, <2>1, <3>2, <4>1, AbsentIs DEF TempChanged, Timely
    <3>3. CASE u # w
      <4>1. temp'[u] = temp[u] BY <3>3
      <4>2. CASE v = w BY <1>1, <2>1, <2>5, <3>1, <4>1, <4>2, AbsentIs DEF TempChanged, Timely, OwnTime
      <4>3. CASE v # w BY <2>1, <2>5, <4>1, <4>3 DEF OwnTime
      <4> QED BY <4>2, <4>3
    <3> QED BY <3>2, <3>3
  <2> QED BY <2>2, <2>3, <2>4, <2>5
<1>6. ASSUME Spares PROVE Loud
  <2> SUFFICES ASSUME NEW n \in Names, n \notin Past, fs[n].text \in Written,
                      fs[n].text # fs'[n].text, fs[n].text # backup'[n].text
               PROVE  \E v \in Windows : Acts(v) /\ (win[v].asked \/ (win[v].name = n /\ win[v].base = fs[n].text))
    BY DEF Loud, Silent, Past
  <2>1. Changed(w, n) /\ fs'[n].text # NoText BY <1>6, AbsentIs DEF Spares
  <2>2. win[w].pc \in {"open", "write", "rename"} /\ n = win[w].target
    BY <2>1, AbsentIs DEF Changed
  <2>3. Aware(win[w], fs, Past) BY <1>0, <1>2 DEF WindowAware
  <2>4. win[w].asked \/ (win[w].name = n /\ win[w].base = fs[n].text) BY <2>2, <2>3 DEF Aware
  <2> QED BY <1>0, <2>2, <2>4
<1> QED BY <1>3, <1>4, <1>5, <1>6 DEF AInv

\* A change of one window alone.
LEMMA AwareQuiet ==
  ASSUME LInv, OInv, AInv, Heeded, NEW w \in world.windows, world' = world, fs' = fs, temp' = temp,
         now' = now, Past \subseteq Past', NEW q, Become(w, q), TimeChanged(w, q),
         WindowAware(q, fs, now, Past')
  PROVE  AInv' /\ (Spares => Loud)
<1>1. w \in Windows BY WorldNames
<1>2. win'[w] = q /\ \A v \in Windows \ {w} : win'[v] = win[v] BY <1>1 DEF LInv, TInv, Become
<1>3. \A n \in Names : Changed(w, n) BY DEF Changed
<1>4. TempChanged(w) BY DEF TempChanged
<1>5. AInv'
  <2>1. FilesTimed' BY DEF AInv, FilesTimed, Timely
  <2>2. WindowsAware'
    <3>1. ASSUME NEW v \in Windows PROVE WindowAware(win'[v], fs', now', Past')
      <4>1. CASE v = w BY <1>2, <4>1
      <4>2. CASE v # w BY <1>1, <1>2, <1>3, <4>2, OtherAware, RestsItself
      <4> QED BY <4>1, <4>2
    <3> QED BY <3>1 DEF WindowsAware, WindowAware, Dated, Current, Claims, Unseen, Looked, Aware,
                        Active, Subject, JustSaved, Holds, Pending
  <2>3. TempsTimed'
    <3>1. \A v \in Windows : Timely(temp[v], now) /\ OwnTime(v) BY DEF AInv, TempsTimed
    <3>2. now \in Nat BY ClockIs
    <3>3. ASSUME NEW v \in Windows, temp[v].text # NoText, NEW u \in Windows, u # v
          PROVE  win'[u].time # temp[v].time
      <4>1. Timely(temp[v], now) /\ OwnTime(v) BY <3>1
      <4>2. CASE u = w BY <1>1, <1>2, <3>2, <3>3, <4>1, <4>2 DEF TimeChanged, Timely, OwnTime
      <4>3. CASE u # w BY <1>2, <3>3, <4>1, <4>3 DEF OwnTime
      <4> QED BY <4>2, <4>3
    <3> QED BY <3>1, <3>3 DEF TempsTimed, Timely, OwnTime
  <2> QED BY <2>1, <2>2, <2>3 DEF AInv
<1>6. Loud BY DEF Loud, Silent
<1> QED BY <1>5, <1>6

-----------------------------------------------------------------------------
(* What the helpers of the code leave of a window's knowledge              *)

LEMMA FieldsAgree ==
  ASSUME NEW r \in WindowType
  PROVE  \A x : LET q == [r EXCEPT !.pc = x]
                IN Agrees(q, r) /\ q.pc = x /\ q.sb = r.sb /\ q.closing = r.closing /\ q.res = r.res
BY DEF WindowType, Agrees, Keeps

LEMMA ResultKeeps ==
  ASSUME NEW r \in WindowType, NEW x
  PROVE  Keeps(Result(r, x), r)
<1> DEFINE own == IF r.cmd = "save" THEN (x = "ok" /\ r.locked) \/ r.saveLock
                  ELSE x = "ok" /\ (r.locked \/ (r.saveLock /\ r.target = r.name))
           other == r.cmd = "saveAs" /\ r.saveLock /\ (r.target # r.name \/ x # "ok")
           todo == (IF other THEN <<r.target>> ELSE <<>>) \o (IF own THEN <<r.name>> ELSE <<>>)
           low == IF own THEN FALSE ELSE r.locked
           y == IF todo = <<>> THEN "settle" ELSE "unlock"
<1>1. Result(r, x) = [r EXCEPT !.res = x, !.todo = todo, !.fd = "none", !.locked = low, !.pc = y]
  BY DEF Result
<1> HIDE DEF own, other, todo, low, y
<1> QED BY <1>1 DEF WindowType, Keeps

LEMMA LeaveKeeps ==
  ASSUME NEW r \in WindowType
  PROVE  Keeps(Leave(r), r) /\ Leave(r).closing = "sure"
<1> DEFINE todo == IF r.locked THEN <<r.name>> ELSE <<>>
           y == IF r.locked THEN "unlock" ELSE "clean"
<1>1. Leave(r) = [r EXCEPT !.closing = "sure", !.locked = FALSE, !.todo = todo, !.pc = y] BY DEF Leave
<1> HIDE DEF todo, y
<1> QED BY <1>1 DEF WindowType, Keeps

LEMMA FinishKeeps ==
  ASSUME NEW r \in WindowType, NEW ok \in BOOLEAN
  PROVE  Keeps(Finish(r, ok), r) /\ (Finish(r, ok).pc = "idle" \/ Finish(r, ok).closing = "sure")
<1> DEFINE a == [r EXCEPT !.pc = "idle"]  b == [r EXCEPT !.pc = "idle", !.closing = "no"]
<1>1. Finish(r, ok) \in {a, b, Leave(r)} BY DEF Finish
<1>2. Keeps(a, r) /\ a.pc = "idle" /\ Keeps(b, r) /\ b.pc = "idle" BY DEF WindowType, Keeps
<1> HIDE DEF a, b
<1> QED BY <1>1, <1>2, LeaveKeeps

LEMMA UnlockedKeeps ==
  ASSUME NEW r \in WindowType
  PROVE  /\ Keeps(Unlocked(r), r) /\ Unlocked(r).closing = r.closing /\ Unlocked(r).res = r.res
         /\ Unlocked(r).pc \in {"unlock", IF r.closing = "sure" THEN "clean" ELSE "settle"}
<1> DEFINE todo == Tail(r.todo)
           y == IF todo # <<>> THEN "unlock" ELSE IF r.closing = "sure" THEN "clean" ELSE "settle"
<1>1. Unlocked(r) = [r EXCEPT !.todo = todo, !.pc = y] BY DEF Unlocked
<1>2. y \in {"unlock", IF r.closing = "sure" THEN "clean" ELSE "settle"} OBVIOUS
<1> HIDE DEF todo, y
<1> QED BY <1>1, <1>2 DEF WindowType, Keeps

LEMMA CheckTimeKeeps ==
  ASSUME NEW r \in WindowType
  PROVE  LET q == CheckTime(r)
         IN /\ Agrees(q, r) /\ q.pc \in {"askTime", "open", "temp"}
            /\ q.pc # "askTime" => r.sb.text = NoText \/ r.time = 0 \/ r.time = r.sb.time
<1> DEFINE y == IF r.sb.text # NoText /\ r.time # 0 /\ r.time # r.sb.time THEN "askTime"
                ELSE IF r.mode = "quick" THEN "open" ELSE "temp"
           q == [r EXCEPT !.pc = y]
<1>1. CheckTime(r) = q BY DEF CheckTime
<1>2. y \in {"askTime", "open", "temp"} OBVIOUS
<1>3. y # "askTime" => r.sb.text = NoText \/ r.time = 0 \/ r.time = r.sb.time OBVIOUS
<1> HIDE DEF y
<1>4. Agrees(q, r) /\ q.pc = y BY DEF WindowType, Agrees, Keeps
<1> HIDE DEF q
<1> QED BY <1>1, <1>2, <1>3, <1>4

LEMMA CountedKeeps ==
  ASSUME NEW w \in Windows, win[w] \in WindowType
  PROVE  Counted(w) \in WindowType /\ Agrees(Counted(w), win[w]) /\ Counted(w).pc = win[w].pc
<1> DEFINE r == win[w]
<1>1. r.commands + 1 \in Nat BY DEF WindowType
<1>2. Counted(w) = [r EXCEPT !.commands = r.commands + 1] BY DEF Counted
<1>3. Counted(w) \in WindowType BY <1>1, <1>2 DEF WindowType
<1> QED BY <1>2, <1>3 DEF WindowType, Agrees, Keeps

\* A window that goes on outside of the locking and the saving.
LEMMA Outside ==
  ASSUME NEW r, NEW q, NEW files, NEW clock, NEW past, NEW past1, WindowAware(r, files, clock, past),
         Active(r), r.pc # "load", Keeps(q, r), Subject(q) = Subject(r),
         q.pc \notin {"unopened", "load"} \union Locking \union Saving
  PROVE  WindowAware(q, files, clock, past1)
<1>1. Dated(q, clock) BY DEF WindowAware, Dated, Keeps
<1>2. Current(q, files) BY DEF WindowAware, Current, Keeps
<1>3. /\ Claims(q, past1) /\ Unseen(q, files) /\ Looked(q, files, past1) /\ Aware(q, files, past1)
  BY DEF Claims, Unseen, Looked, Aware, Locking, Saving
<1> QED BY <1>1, <1>2, <1>3 DEF WindowAware

\* The window of a step.
LEMMA ActingAware ==
  ASSUME LInv, OInv, AInv, NEW w \in Windows, win[w].pc \notin {"unopened", "dead"}
  PROVE  /\ win[w] \in WindowType /\ WinOK(win[w]) /\ w \in world.windows
         /\ Mine(win[w], w) /\ FileThere(win[w], temp[w])
         /\ WindowAware(win[w], fs, now, Past)
BY ActingOwn DEF AInv, WindowsAware

\* Most steps go on like this.
LEMMA AwarePlain ==
  ASSUME LInv, OInv, AInv, Heeded, NEW w \in Windows, win[w].pc \notin {"unopened", "load", "closed", "dead"},
         world' = world, fs' = fs, temp' = temp, now' = now, Past \subseteq Past',
         NEW q, Become(w, q), Keeps(q, win[w]), Subject(q) = Subject(win[w]),
         q.pc \notin {"unopened", "load"} \union Locking \union Saving
  PROVE  AInv' /\ (Spares => Loud)
<1>1. w \in world.windows /\ WindowAware(win[w], fs, now, Past) BY ActingAware
<1>2. WindowAware(q, fs, now, Past') BY <1>1, Outside DEF Active
<1>3. TimeChanged(w, q) BY DEF TimeChanged, Keeps
<1> QED BY <1>1, <1>2, <1>3, AwareQuiet

-----------------------------------------------------------------------------
(* The steps that open a file, type and lock                               *)

\* A window learns the time of its file, or of the file it creates.
LEMMA OpenAware ==
  ASSUME LInv, OInv, AInv, Heeded, NEW w \in Windows, Open(w)
  PROVE  AInv' /\ (Spares => Loud)
<1> DEFINE r == win[w]  n == r.name
<1>1. r.pc = "unopened" /\ w \in world.windows /\ world' = world /\ temp' = temp /\ Past' = Past
  BY DEF Open, At, Past
<1>2. r \in WindowType /\ Mine(r, w) BY DEF LInv, TInv, WinOK, OInv, WindowsOwn, WindowOwn
<1>3. n = world.opens[w] /\ n \in Names /\ n # NoName
  BY <1>1, <1>2 DEF Mine, WindowType, Heeded, Heedful
<1>4. now \in Nat /\ Tick = now + 1 BY ClockIs
<1>5. Timely(fs[n], now) BY <1>3 DEF AInv, FilesTimed
<1>6. ASSUME NEW q, q.pc = "load", q.name = n, NEW clock \in Nat, q.time \in 1 .. clock, NEW files
      PROVE  WindowAware(q, files, clock, Past)
  BY <1>3, <1>6 DEF WindowAware, Dated, Current, Claims, Unseen, Looked, Aware, Saving, Locking
<1>7. CASE Exists(n) /\ fs' = fs /\ now' = now /\ Become(w, [r EXCEPT !.pc = "load", !.time = fs[n].time])
  <2> DEFINE q == [r EXCEPT !.pc = "load", !.time = fs[n].time]
  <2>1. q.pc = "load" /\ q.name = n /\ q.time = fs[n].time BY <1>2 DEF WindowType
  <2>2. Become(w, q) BY <1>7
  <2> HIDE DEF q
  <2>3. q.time \in 1 .. now BY <1>4, <1>5, <1>7, <2>1 DEF Timely, Exists
  <2>4. WindowAware(q, fs, now, Past) BY <1>4, <1>6, <2>1, <2>3
  <2>5. TimeChanged(w, q) BY <1>3, <2>1 DEF TimeChanged
  <2> QED BY <1>1, <1>7, <2>2, <2>4, <2>5, AwareQuiet
<1>8. CASE /\ ~Exists(n) /\ fs' = [fs EXCEPT ![n] = Stamped(Empty)] /\ now' = Tick
           /\ Become(w, [r EXCEPT !.pc = "load", !.time = Tick, !.deleteFile = TRUE])
  <2> DEFINE q == [r EXCEPT !.pc = "load", !.time = Tick, !.deleteFile = TRUE]
  <2>1. q.pc = "load" /\ q.name = n /\ q.time = now + 1 BY <1>2, <1>4 DEF WindowType
  <2>2. Become(w, q) BY <1>8
  <2> HIDE DEF q
  <2>3. win'[w] = q /\ \A v \in Windows \ {w} : win'[v] = win[v] BY <2>2 DEF LInv, TInv, Become
  <2>4. fs'[n].text = Empty /\ fs'[n].time = now + 1 /\ \A m \in Names \ {n} : fs'[m] = fs[m]
    BY <1>3, <1>4, <1>8 DEF LInv, TInv, DiskOK, Stamped
  <2>5. Empty \notin Written /\ NoText \notin Written BY DEF Empty, NoText, Written
  <2>6. now' = now + 1 BY <1>4, <1>8
  <2>7. \A m \in Names : Changed(w, m)
    BY <1>8, <2>4, <2>5, <2>6 DEF Changed, Exists
  <2>8. TempChanged(w) /\ TimeChanged(w, q) BY <1>1, <2>1, <2>6 DEF TempChanged, TimeChanged
  <2>9. WindowAware(q, fs', now', Past) BY <1>4, <1>6, <2>1, <2>6
  <2>10. r.pc \notin {"open", "write", "rename"} BY <1>1
  <2> QED BY <1>1, <1>4, <2>3, <2>6, <2>7, <2>8, <2>9, <2>10, AwareStep, RestsItself
<1> QED BY <1>3, <1>7, <1>8 DEF Open

\* The text that is read is the one the window knows.
LEMMA LoadAware ==
  ASSUME LInv, OInv, AInv, Heeded, NEW w \in Windows, Load(w)
  PROVE  AInv' /\ (Spares => Loud)
<1> DEFINE r == win[w]  n == r.name
<1>1. /\ r.pc = "load" /\ world' = world /\ fs' = fs /\ temp' = temp /\ now' = now /\ Past' = Past
  BY DEF Load, At, disk, Past
<1>2. r \in WindowType /\ w \in world.windows /\ WindowAware(r, fs, now, Past) BY <1>1, ActingAware
<1>3. CASE Become(w, [r EXCEPT !.pc = "idle", !.buf = fs[n].text, !.base = fs[n].text])
  <2> DEFINE q == [r EXCEPT !.pc = "idle", !.buf = fs[n].text, !.base = fs[n].text]
  <2>1. q.pc = "idle" /\ q.name = n /\ q.time = r.time /\ q.base = fs[n].text BY <1>2 DEF WindowType
  <2>2. Become(w, q) BY <1>3
  <2> HIDE DEF q
  <2>3. Dated(q, now) BY <1>1, <1>2, <2>1 DEF WindowAware, Dated, Active
  <2>4. Current(q, fs) BY <2>1 DEF Current, Subject, JustSaved, Unlocking
  <2>5. Claims(q, Past) /\ Unseen(q, fs) /\ Looked(q, fs, Past) /\ Aware(q, fs, Past)
    BY <2>1 DEF Claims, Unseen, Looked, Aware, Saving, Locking
  <2>6. TimeChanged(w, q) BY <2>1 DEF TimeChanged
  <2> QED BY <1>1, <1>2, <2>2, <2>3, <2>4, <2>5, <2>6, AwareQuiet DEF WindowAware
<1>4. CASE Become(w, [r EXCEPT !.pc = "closed"])
  <2> DEFINE q == [r EXCEPT !.pc = "closed"]
  <2>1. q.pc = "closed" /\ q.time = r.time BY <1>2 DEF WindowType
  <2>2. Become(w, q) BY <1>4
  <2> HIDE DEF q
  <2>3. WindowAware(q, fs, now, Past)
    BY <1>2, <2>1 DEF WindowAware, Dated, Active, Current, Claims, Unseen, Looked, Aware, Saving, Locking
  <2>4. TimeChanged(w, q) BY <2>1 DEF TimeChanged
  <2> QED BY <1>1, <1>2, <2>2, <2>3, <2>4, AwareQuiet
<1>5. IF Exists(n) THEN Become(w, [r EXCEPT !.pc = "idle", !.buf = fs[n].text, !.base = fs[n].text])
      ELSE Become(w, [r EXCEPT !.pc = "closed"])
  BY DEF Load
<1> QED BY <1>3, <1>4, <1>5

\* A window that goes to lock_file, or on in it, for its own name or a new one.
LEMMA LocksAware ==
  ASSUME NEW r, NEW q, NEW past, NEW past1, WindowAware(r, fs, now, past), Active(r), r.pc # "load",
         ~JustSaved(r), q.name = r.name, q.time = r.time, q.base = r.base, q.pc \in Locking, Unseen(q, fs)
  PROVE  WindowAware(q, fs, now, past1)
<1>1. Dated(q, now) BY DEF WindowAware, Dated
<1>2. Current(q, fs)
  BY DEF WindowAware, Current, Subject, JustSaved, Unlocking, Locking
<1>3. Claims(q, past1) /\ Looked(q, fs, past1) /\ Aware(q, fs, past1)
  BY DEF Claims, Looked, Aware, Locking, Saving
<1> QED BY <1>1, <1>2, <1>3 DEF WindowAware

\* A window that comes to the stat of edit_save_file with a lock or its own new file.
LEMMA StartsAware ==
  ASSUME NEW r, NEW q, NEW past, NEW past1, WindowAware(r, fs, now, past), Active(r), r.pc # "load",
         ~JustSaved(r), q.name = r.name, q.time = r.time, q.base = r.base, q.pc = "stat",
         Unseen(q, fs), Claims(q, past1)
  PROVE  WindowAware(q, fs, now, past1)
<1>1. Dated(q, now) BY DEF WindowAware, Dated, Active
<1>2. Current(q, fs)
  BY DEF WindowAware, Current, Subject, JustSaved, Unlocking
<1>3. Looked(q, fs, past1) /\ Aware(q, fs, past1) BY DEF Looked, Aware
<1> QED BY <1>1, <1>2, <1>3 DEF WindowAware

LEMMA TypeAware ==
  ASSUME LInv, OInv, AInv, Heeded, NEW w \in Windows, Type(w)
  PROVE  AInv' /\ (Spares => Loud)
<1> DEFINE r == win[w]
           a == [r EXCEPT !.buf = texts + 1, !.modified = TRUE]
           b == [r EXCEPT !.buf = texts + 1, !.pc = "lockStat", !.cmd = "type", !.target = r.name]
<1>1. /\ r.pc = "idle" /\ world' = world /\ fs' = fs /\ temp' = temp /\ now' = now /\ Past' = Past
  BY DEF Type, At, disk, Past
<1>2. r \in WindowType /\ w \in world.windows /\ WindowAware(r, fs, now, Past) BY <1>1, ActingAware
<1>3. Become(w, a) \/ Become(w, b) BY DEF Type
<1>4. /\ a.pc = "idle" /\ Keeps(a, r)
      /\ b.pc = "lockStat" /\ b.name = r.name /\ b.time = r.time /\ b.base = r.base /\ b.cmd = "type"
  BY <1>1, <1>2 DEF WindowType, Keeps
<1> HIDE DEF a, b
<1>5. CASE Become(w, a)
  <2>1. Subject(a) = Subject(r) BY <1>1, <1>4 DEF Subject, JustSaved, Unlocking, Keeps
  <2> QED BY <1>1, <1>4, <1>5, <2>1, AwarePlain DEF Locking, Saving
<1>6. CASE Become(w, b)
  <2>1. Unseen(b, fs) BY <1>4 DEF Unseen
  <2>2. WindowAware(b, fs, now, Past)
    BY <1>1, <1>2, <1>4, <2>1, LocksAware DEF Active, JustSaved, Unlocking, Locking
  <2>3. TimeChanged(w, b) BY <1>4 DEF TimeChanged
  <2> QED BY <1>1, <1>2, <1>6, <2>2, <2>3, AwareQuiet
<1> QED BY <1>3, <1>5, <1>6

\* lock_file: it succeeds, or the name is one whose lock was missed, grabbed or ignored.
LEMMA LockAware ==
  ASSUME LInv, OInv, AInv, Heeded, NEW w \in Windows,
         LockStat(w) \/ LockRead(w) \/ LockAsk(w) \/ LockUnlink(w) \/ LockLink(w)
  PROVE  AInv' /\ (Spares => Loud)
<1> DEFINE r == win[w]
<1>1. r.pc \in Locking BY DEF LockStat, LockRead, LockAsk, LockUnlink, LockLink, At, Locking
<1>2. Active(r) /\ r.pc # "load" /\ ~JustSaved(r) BY <1>1 DEF Active, Locking, JustSaved, Unlocking
<1>3. /\ r \in WindowType /\ WinOK(r) /\ w \in world.windows /\ WindowAware(r, fs, now, Past)
  BY <1>1, ActingAware DEF Locking
<1>4. world' = world /\ fs' = fs /\ temp' = temp /\ now' = now /\ Past \subseteq Past'
  BY DEF LockStat, LockRead, LockAsk, LockUnlink, LockLink, disk, Past
<1>5. Unseen(r, fs) BY <1>3 DEF WindowAware
<1>6. ASSUME NEW x \in Locking, Become(w, [r EXCEPT !.pc = x]) PROVE AInv' /\ (Spares => Loud)
  <2> DEFINE q == [r EXCEPT !.pc = x]
  <2>1. Agrees(q, r) /\ q.pc = x BY <1>3, FieldsAgree
  <2>2. Become(w, q) BY <1>6
  <2> HIDE DEF q
  <2>3. Unseen(q, fs) BY <1>1, <1>5, <2>1 DEF Unseen, Agrees, Keeps
  <2>4. WindowAware(q, fs, now, Past')
    BY <1>2, <1>3, <1>6, <2>1, <2>3, LocksAware DEF Agrees, Keeps
  <2>5. TimeChanged(w, q) BY <2>1 DEF TimeChanged, Agrees, Keeps
  <2> QED BY <1>3, <1>4, <2>2, <2>4, <2>5, AwareQuiet
<1>7. ASSUME NEW x \in Locking, Goto(w, x) PROVE AInv' /\ (Spares => Loud) BY <1>6, <1>7, GotoIsBecome
<1>8. ASSUME NEW ok \in BOOLEAN, Become(w, Locked(w, r, ok)), ok \/ r.target \in Past'
      PROVE  AInv' /\ (Spares => Loud)
  <2> DEFINE a == [r EXCEPT !.pc = "idle", !.locked = ok, !.modified = TRUE]
             b == [r EXCEPT !.pc = "stat", !.saveLock = ok]
  <2>1. Become(w, a) \/ Become(w, b) BY <1>8 DEF Locked
  <2>2. /\ a.pc = "idle" /\ Keeps(a, r)
        /\ b.pc = "stat" /\ b.saveLock = ok /\ Keeps(b, r) /\ b.cmd = r.cmd /\ b.asked = r.asked
    BY <1>3 DEF WindowType, Keeps
  <2> HIDE DEF a, b
  <2>3. CASE Become(w, a)
    <3>1. Subject(a) = Subject(r) BY <1>2, <2>2 DEF Subject, JustSaved, Unlocking, Keeps
    <3> QED BY <1>1, <1>4, <2>2, <2>3, <3>1, AwarePlain DEF Locking, Saving
  <2>4. CASE Become(w, b)
    <3>1. Unseen(b, fs) BY <1>1, <1>5, <2>2 DEF Unseen, Keeps
    <3>2. Claims(b, Past') BY <1>8, <2>2 DEF Claims, Holds, Keeps, Saving
    <3>3. WindowAware(b, fs, now, Past') BY <1>2, <1>3, <2>2, <3>1, <3>2, StartsAware DEF Keeps
    <3>4. TimeChanged(w, b) BY <2>2 DEF TimeChanged, Keeps
    <3> QED BY <1>3, <1>4, <2>4, <3>3, <3>4, AwareQuiet
  <2> QED BY <2>1, <2>3, <2>4
<1>9. CASE LockStat(w)
  <2>1. Goto(w, "lockLink") \/ Goto(w, "lockRead") BY <1>9 DEF LockStat
  <2> QED BY <2>1, <1>7 DEF Locking
<1>10. CASE LockRead(w)
  <2>1. \/ Become(w, Locked(w, r, FALSE)) /\ missed' = missed \union {r.target}
        \/ Become(w, [r EXCEPT !.pc = "lockAsk"]) \/ Become(w, [r EXCEPT !.pc = "lockUnlink"])
    BY <1>10, LinkFacts DEF LockRead
  <2> QED BY <2>1, <1>6, <1>8 DEF Locking, Past
<1>11. CASE LockAsk(w)
  <2>1. bold' = bold \union {r.target} /\ (Goto(w, "lockUnlink") \/ Become(w, Locked(w, r, FALSE)))
    BY <1>11 DEF LockAsk
  <2> QED BY <2>1, <1>7, <1>8 DEF Locking, Past
<1>12. CASE LockUnlink(w) BY <1>7, <1>12 DEF LockUnlink, Locking
<1>13. CASE LockLink(w)
  <2>1. \/ Become(w, Locked(w, r, TRUE))
        \/ Become(w, Locked(w, r, FALSE)) /\ missed' = missed \union {r.target}
    BY <1>13 DEF LockLink
  <2> QED BY <2>1, <1>8 DEF Past
<1> QED BY <1>9, <1>10, <1>11, <1>12, <1>13

\* unlock_file changes nothing that a window knows.
LEMMA UnlockAware ==
  ASSUME LInv, OInv, AInv, Heeded, NEW w \in Windows, UnlockStat(w) \/ UnlockRead(w) \/ UnlockUnlink(w)
  PROVE  AInv' /\ (Spares => Loud)
<1> DEFINE r == win[w]
<1>1. r.pc \in Unlocking BY DEF UnlockStat, UnlockRead, UnlockUnlink, At, Unlocking
<1>2. r \in WindowType BY <1>1, ActingAware DEF Unlocking
<1>3. world' = world /\ fs' = fs /\ temp' = temp /\ now' = now /\ Past' = Past
  BY DEF UnlockStat, UnlockRead, UnlockUnlink, disk, Past
<1>4. ASSUME NEW q, Become(w, q), Keeps(q, r), q.closing = r.closing, q.res = r.res,
             q.pc \in Unlocking \/ q.pc = (IF r.closing = "sure" THEN "clean" ELSE "settle")
      PROVE  AInv' /\ (Spares => Loud)
  <2>1. Subject(q) = Subject(r) BY <1>1, <1>4 DEF Subject, JustSaved, Keeps
  <2>2. q.pc \notin {"unopened", "load"} \union Locking \union Saving
    BY <1>4 DEF Unlocking, Locking, Saving
  <2>3. r.pc \notin {"unopened", "load", "closed", "dead"} BY <1>1 DEF Unlocking
  <2> QED BY <1>3, <1>4, <2>1, <2>2, <2>3, AwarePlain
<1>5. ASSUME NEW x \in Unlocking, Become(w, [r EXCEPT !.pc = x]) PROVE AInv' /\ (Spares => Loud)
  <2> DEFINE q == [r EXCEPT !.pc = x]
  <2>1. Keeps(q, r) /\ q.pc = x /\ q.closing = r.closing /\ q.res = r.res BY <1>2 DEF WindowType, Keeps
  <2>2. Become(w, q) BY <1>5
  <2> HIDE DEF q
  <2> QED BY <1>4, <1>5, <2>1, <2>2
<1>6. CASE Become(w, Unlocked(r))
  <2>1. /\ Keeps(Unlocked(r), r) /\ Unlocked(r).closing = r.closing /\ Unlocked(r).res = r.res
        /\ Unlocked(r).pc \in {"unlock", IF r.closing = "sure" THEN "clean" ELSE "settle"}
    BY <1>2, UnlockedKeeps
  <2> QED BY <1>4, <1>6, <2>1 DEF Unlocking
<1>7. \/ Become(w, Unlocked(r)) \/ Become(w, [r EXCEPT !.pc = "unlockRead"])
      \/ Become(w, [r EXCEPT !.pc = "unlockUnlink"])
  BY DEF UnlockStat, UnlockRead, UnlockUnlink
<1> QED BY <1>5, <1>6, <1>7 DEF Unlocking

-----------------------------------------------------------------------------
(* The commands and the questions of edit_save_file                        *)

\* edit_save_cmd saves the window's own file, under its lock or the one it asks for.
LEMMA SaveCmdAware ==
  ASSUME LInv, OInv, AInv, Heeded, NEW w \in world.windows, world' = world, fs' = fs, temp' = temp,
         now' = now, Past' = Past,
         NEW r \in WindowType, WindowAware(r, fs, now, Past), Active(r), r.pc # "load", ~JustSaved(r),
         r.time = win[w].time, Become(w, SaveCmd(r))
  PROVE  AInv' /\ (Spares => Loud)
<1> DEFINE y == IF r.name = NoName THEN "askName" ELSE IF r.locked \/ r.deleteFile THEN "stat" ELSE "lockStat"
           q == [r EXCEPT !.cmd = "save", !.target = r.name, !.saveLock = FALSE, !.asked = FALSE, !.pc = y]
<1>1. Become(w, q) BY DEF SaveCmd
<1>2. y \in {"stat", "lockStat"} /\ (y = "stat" => r.locked \/ r.deleteFile)
  BY DEF WindowAware, Dated
<1> HIDE DEF y
<1>3. /\ q.pc = y /\ q.name = r.name /\ q.deleteFile = r.deleteFile /\ q.locked = r.locked
      /\ q.target = r.name /\ q.time = r.time /\ q.base = r.base /\ q.cmd = "save"
  BY DEF WindowType
<1> HIDE DEF q
<1>4. Unseen(q, fs) BY <1>3 DEF Unseen
<1>5. Claims(q, Past) BY <1>2, <1>3 DEF Claims, Holds, Saving
<1>6. CASE y = "stat" 
  <2>1. WindowAware(q, fs, now, Past) BY <1>3, <1>4, <1>5, <1>6, StartsAware
  <2> QED BY <1>1, <1>3, <2>1, AwareQuiet DEF TimeChanged
<1>7. CASE y = "lockStat"
  <2>1. q.pc \in Locking BY <1>3, <1>7 DEF Locking
  <2>2. WindowAware(q, fs, now, Past) BY <1>3, <1>4, <2>1, LocksAware
  <2> QED BY <1>1, <1>3, <2>2, AwareQuiet DEF TimeChanged
<1> QED BY <1>2, <1>6, <1>7

\* A window before a command, in all that the command looks at.
LEMMA SameAware ==
  ASSUME NEW r, NEW c, WindowAware(r, fs, now, Past), Active(r), r.pc # "load", Keeps(c, r),
         c.pc = r.pc, ~JustSaved(r), r.pc \notin Locking \union Saving \union Unlocking \union {"settle"}
  PROVE  WindowAware(c, fs, now, Past) /\ Active(c) /\ c.pc # "load" /\ ~JustSaved(c)
<1>1. Active(c) /\ ~JustSaved(c) BY DEF Active, JustSaved
<1>2. Subject(c) = Subject(r) BY <1>1 DEF Subject, Keeps
<1>3. c.pc \notin {"unopened", "load"} \union Locking \union Saving BY DEF Active
<1> QED BY <1>1, <1>2, <1>3, Outside

LEMMA CommandsAware ==
  ASSUME LInv, OInv, AInv, Heeded, NEW w \in Windows, Save(w) \/ SaveAs(w) \/ Close(w)
  PROVE  AInv' /\ (Spares => Loud)
<1> DEFINE r == win[w]  c == Counted(w)
<1>1. /\ r.pc = "idle" /\ world' = world /\ fs' = fs /\ temp' = temp /\ now' = now /\ Past' = Past
  BY DEF Save, SaveAs, Close, Commanded, At, disk, Past
<1>2. r \in WindowType /\ w \in world.windows /\ WindowAware(r, fs, now, Past) BY <1>1, ActingAware
<1>3. c \in WindowType /\ Agrees(c, r) /\ c.pc = "idle" BY <1>1, <1>2, CountedKeeps
<1>4. \/ Become(w, SaveCmd(c)) \/ Become(w, [c EXCEPT !.pc = "askName"])
      \/ Become(w, [c EXCEPT !.pc = "askSave"]) \/ Become(w, Leave(c))
  BY DEF Save, SaveAs, Close
<1> HIDE DEF c
<1>5. Active(r) /\ ~JustSaved(r) BY <1>1 DEF Active, JustSaved, Unlocking
<1>6. WindowAware(c, fs, now, Past) /\ Active(c) /\ c.pc # "load" /\ ~JustSaved(c)
  BY <1>1, <1>2, <1>3, <1>5, SameAware DEF Agrees, Locking, Saving, Unlocking
<1>7. CASE Become(w, SaveCmd(c))
  <2>1. c.time = r.time BY <1>3 DEF Agrees, Keeps
  <2> QED BY <1>1, <1>2, <1>3, <1>6, <1>7, <2>1, SaveCmdAware
<1>8. ASSUME NEW q, Become(w, q), Keeps(q, c), q.closing = "sure" \/ q.pc \notin Unlocking \union {"settle"},
             q.pc \notin {"unopened", "load"} \union Locking \union Saving
      PROVE  AInv' /\ (Spares => Loud)
  <2>1. Keeps(q, r) BY <1>3, <1>8 DEF Agrees, Keeps
  <2>2. Subject(q) = Subject(r) BY <1>5, <1>8, <2>1 DEF Subject, JustSaved, Keeps
  <2> QED BY <1>1, <1>8, <2>1, <2>2, AwarePlain
<1>9. CASE Become(w, Leave(c))
  <2>1. Keeps(Leave(c), c) /\ Leave(c).closing = "sure" /\ Leave(c).pc \in {"unlock", "clean"}
    BY <1>3, LeaveKeeps, LeaveIs
  <2> QED BY <1>8, <1>9, <2>1 DEF Locking, Saving
<1>10. ASSUME NEW x \in {"askName", "askSave"}, Become(w, [c EXCEPT !.pc = x]) PROVE AInv' /\ (Spares => Loud)
  <2> DEFINE q == [c EXCEPT !.pc = x]
  <2>1. Keeps(q, c) /\ q.pc = x BY <1>3 DEF WindowType, Keeps
  <2>2. Become(w, q) BY <1>10
  <2>3. x \notin {"unopened", "load", "settle"} \union Locking \union Saving \union Unlocking
    BY <1>10 DEF Locking, Saving, Unlocking
  <2> HIDE DEF q
  <2> QED BY <1>8, <2>1, <2>2, <2>3
<1> QED BY <1>4, <1>7, <1>9, <1>10

LEMMA AskSaveAware ==
  ASSUME LInv, OInv, AInv, Heeded, NEW w \in Windows, AskSave(w)
  PROVE  AInv' /\ (Spares => Loud)
<1> DEFINE r == win[w]  c == [r EXCEPT !.closing = "asked"]  d == [r EXCEPT !.saidNo = TRUE]
<1>1. /\ r.pc = "askSave" /\ world' = world /\ fs' = fs /\ temp' = temp /\ now' = now /\ Past' = Past
  BY DEF AskSave, At, disk, Past
<1>2. r \in WindowType /\ w \in world.windows /\ WindowAware(r, fs, now, Past) BY <1>1, ActingAware
<1>3. c \in WindowType /\ d \in WindowType BY <1>2 DEF WindowType
<1>4. Keeps(c, r) /\ c.pc = "askSave" /\ Keeps(d, r) /\ d.pc = "askSave" BY <1>1, <1>2 DEF WindowType, Keeps
<1>5. Become(w, SaveCmd(c)) \/ Become(w, Leave(d)) \/ Goto(w, "idle") BY DEF AskSave
<1> HIDE DEF c, d
<1>6. Active(r) /\ ~JustSaved(r) BY <1>1 DEF Active, JustSaved, Unlocking
<1>7. CASE Become(w, SaveCmd(c))
  <2>1. WindowAware(c, fs, now, Past) /\ Active(c) /\ c.pc # "load" /\ ~JustSaved(c)
    BY <1>1, <1>2, <1>4, <1>6, SameAware DEF Locking, Saving, Unlocking
  <2>2. c.time = r.time BY <1>4 DEF Keeps
  <2> QED BY <1>1, <1>2, <1>3, <1>7, <2>1, <2>2, SaveCmdAware
<1>8. CASE Become(w, Leave(d))
  <2>1. Keeps(Leave(d), d) /\ Leave(d).closing = "sure" /\ Leave(d).pc \in {"unlock", "clean"}
    BY <1>3, LeaveKeeps, LeaveIs
  <2>2. Keeps(Leave(d), r) BY <1>4, <2>1 DEF Keeps
  <2>3. Subject(Leave(d)) = Subject(r) BY <1>6, <2>1, <2>2 DEF Subject, JustSaved, Keeps
  <2> QED BY <1>1, <1>8, <2>1, <2>2, <2>3, AwarePlain DEF Locking, Saving
<1>9. CASE Goto(w, "idle")
  <2> DEFINE q == [r EXCEPT !.pc = "idle"]
  <2>1. Keeps(q, r) /\ q.pc = "idle" BY <1>2 DEF WindowType, Keeps
  <2>2. Become(w, q) BY <1>9, GotoIsBecome
  <2> HIDE DEF q
  <2>3. Subject(q) = Subject(r) BY <1>6, <2>1 DEF Subject, JustSaved, Unlocking, Keeps
  <2> QED BY <1>1, <2>1, <2>2, <2>3, AwarePlain DEF Locking, Saving
<1> QED BY <1>5, <1>7, <1>8, <1>9

\* A command that is given up.
LEMMA GivenUpAware ==
  ASSUME LInv, OInv, AInv, Heeded, NEW w \in Windows, win[w].pc \in {"askName", "askOver"},
         world' = world, fs' = fs, temp' = temp, now' = now, Past \subseteq Past',
         Become(w, Finish(win[w], FALSE))
  PROVE  AInv' /\ (Spares => Loud)
<1> DEFINE r == win[w]  q == Finish(r, FALSE)
<1>1. r \in WindowType BY ActingAware
<1>2. /\ Keeps(q, r) /\ q.pc \in {"unlock", "clean", "idle"} /\ (q.pc = "idle" \/ q.closing = "sure")
  BY <1>1, FinishKeeps, FinishIs
<1> HIDE DEF q
<1>3. Subject(q) = Subject(r) BY <1>2 DEF Subject, JustSaved, Unlocking, Keeps
<1> QED BY <1>2, <1>3, AwarePlain DEF q, Locking, Saving

\* A new name is one of a file that is not there, or the user is asked.
LEMMA AskNameAware ==
  ASSUME LInv, OInv, AInv, Heeded, NEW w \in Windows, AskName(w)
  PROVE  AInv' /\ (Spares => Loud)
<1> DEFINE r == win[w]
<1>1. /\ r.pc = "askName" /\ world' = world /\ fs' = fs /\ temp' = temp /\ now' = now /\ Past' = Past
  BY DEF AskName, At, disk, Past
<1>2. r \in WindowType /\ w \in world.windows /\ WindowAware(r, fs, now, Past) BY <1>1, ActingAware
<1>3. Active(r) /\ ~JustSaved(r) /\ r.pc # "load" BY <1>1 DEF Active, JustSaved, Unlocking
<1>4. CASE Become(w, Finish(r, FALSE)) BY <1>1, <1>4, GivenUpAware
<1>5. ASSUME NEW n \in world.targets, NEW lb \in {FALSE, world.convert},
             Become(w, [[r EXCEPT !.cmd = "saveAs", !.target = n, !.convert = lb, !.saveLock = FALSE, !.asked = FALSE]
                        EXCEPT !.pc = CASE n # r.name /\ Exists(n) -> "askOver"
                                        [] n = r.name /\ (r.locked \/ r.deleteFile) -> "stat"
                                        [] OTHER -> "lockStat"])
      PROVE  AInv' /\ (Spares => Loud)
  <2> DEFINE x == CASE n # r.name /\ Exists(n) -> "askOver"
                    [] n = r.name /\ (r.locked \/ r.deleteFile) -> "stat"
                    [] OTHER -> "lockStat"
             q == [r EXCEPT !.cmd = "saveAs", !.target = n, !.convert = lb, !.saveLock = FALSE, !.asked = FALSE, !.pc = x]
  <2>1. \/ x = "askOver"
        \/ x = "stat" /\ n = r.name /\ (r.locked \/ r.deleteFile)
        \/ x = "lockStat" /\ (n = r.name \/ ~Exists(n))
    OBVIOUS
  <2> HIDE DEF x
  <2>2. Become(w, q) BY <1>5 DEF x
  <2>3. /\ q.pc = x /\ q.name = r.name /\ q.deleteFile = r.deleteFile /\ q.locked = r.locked
        /\ q.target = n /\ q.time = r.time /\ q.base = r.base
    BY <1>2 DEF WindowType
  <2> HIDE DEF q
  <2>4. TimeChanged(w, q) BY <2>3 DEF TimeChanged
  <2>5. CASE x = "askOver"
    <3>1. Subject(q) = Subject(r) BY <1>1, <2>3, <2>5 DEF Subject, JustSaved, Unlocking
    <3>2. Dated(q, now) BY <1>1, <1>2, <2>3 DEF WindowAware, Dated, Active
    <3>3. Current(q, fs) BY <1>1, <1>2, <2>3, <3>1 DEF WindowAware, Current, Active
    <3>4. Claims(q, Past) /\ Unseen(q, fs) /\ Looked(q, fs, Past) /\ Aware(q, fs, Past)
      BY <2>3, <2>5 DEF Claims, Unseen, Looked, Aware, Locking, Saving
    <3>5. WindowAware(q, fs, now, Past) BY <3>2, <3>3, <3>4 DEF WindowAware
    <3> QED BY <1>1, <1>2, <2>2, <2>4, <3>5, AwareQuiet
  <2>6. CASE x = "stat" /\ n = r.name /\ (r.locked \/ r.deleteFile)
    <3>1. Unseen(q, fs) BY <2>3, <2>6 DEF Unseen
    <3>2. Claims(q, Past) BY <2>3, <2>6 DEF Claims, Holds
    <3>3. WindowAware(q, fs, now, Past) BY <1>2, <1>3, <2>3, <2>6, <3>1, <3>2, StartsAware
    <3> QED BY <1>1, <1>2, <2>2, <2>4, <3>3, AwareQuiet
  <2>7. CASE x = "lockStat" /\ (n = r.name \/ ~Exists(n))
    <3>1. Unseen(q, fs) BY <2>3, <2>7 DEF Unseen, Exists
    <3>2. q.pc \in Locking BY <2>3, <2>7 DEF Locking
    <3>3. WindowAware(q, fs, now, Past) BY <1>2, <1>3, <2>3, <3>1, <3>2, LocksAware
    <3> QED BY <1>1, <1>2, <2>2, <2>4, <3>3, AwareQuiet
  <2> QED BY <2>1, <2>5, <2>6, <2>7
<1> QED BY <1>4, <1>5 DEF AskName

LEMMA AskOverAware ==
  ASSUME LInv, OInv, AInv, Heeded, NEW w \in Windows, AskOver(w)
  PROVE  AInv' /\ (Spares => Loud)
<1> DEFINE r == win[w]  q == [r EXCEPT !.pc = "lockStat", !.asked = TRUE]
<1>1. /\ r.pc = "askOver" /\ world' = world /\ fs' = fs /\ temp' = temp /\ now' = now /\ Past' = Past
  BY DEF AskOver, At, disk, Past
<1>2. r \in WindowType /\ w \in world.windows /\ WindowAware(r, fs, now, Past) BY <1>1, ActingAware
<1>3. Active(r) /\ ~JustSaved(r) /\ r.pc # "load" BY <1>1 DEF Active, JustSaved, Unlocking
<1>4. Keeps(q, r) /\ q.pc = "lockStat" /\ q.asked = TRUE BY <1>2 DEF WindowType, Keeps
<1>5. Become(w, q) \/ Become(w, Finish(r, FALSE)) BY DEF AskOver
<1> HIDE DEF q
<1>6. CASE Become(w, q)
  <2>1. Unseen(q, fs) BY <1>4 DEF Unseen
  <2>2. q.pc \in Locking BY <1>4 DEF Locking
  <2>3. WindowAware(q, fs, now, Past) BY <1>2, <1>3, <1>4, <2>1, <2>2, LocksAware DEF Keeps
  <2>4. TimeChanged(w, q) BY <1>4 DEF TimeChanged, Keeps
  <2> QED BY <1>1, <1>2, <1>6, <2>3, <2>4, AwareQuiet
<1>7. CASE Become(w, Finish(r, FALSE)) BY <1>1, <1>7, GivenUpAware
<1> QED BY <1>5, <1>6, <1>7

\* The comparison of the times: it goes on without a question only for the text that the
\* window had.
LEMMA CheckedAware ==
  ASSUME LInv, AInv, NEW w \in Windows, win[w].pc \in {"stat", "askLinks"},
         NEW c \in WindowType, Agrees(c, win[w]),
         win[w].target \notin Past /\ fs[win[w].target].text \in Written => c.sb = fs[win[w].target]
  PROVE  WindowAware(CheckTime(c), fs, now, Past)
<1> DEFINE r == win[w]  q == CheckTime(c)  n == r.target
<1>1. WindowAware(r, fs, now, Past) /\ WinOK(r) BY DEF AInv, WindowsAware, LInv, TInv
<1>2. /\ Agrees(q, c) /\ q.pc \in {"askTime", "open", "temp"}
      /\ q.pc # "askTime" => c.sb.text = NoText \/ c.time = 0 \/ c.time = c.sb.time
  BY CheckTimeKeeps
<1> HIDE DEF q
<1>3. Agrees(q, r) BY <1>2 DEF Agrees, Keeps
<1>4. Active(r) /\ ~JustSaved(r) /\ r.pc # "load" /\ r.pc \in Saving
  BY DEF Active, JustSaved, Unlocking, Saving
<1>5. Dated(q, now) BY <1>1, <1>2, <1>3, <1>4 DEF WindowAware, Dated, Agrees, Keeps
<1>6. Current(q, fs)
  BY <1>1, <1>2, <1>3, <1>4 DEF WindowAware, Current, Subject, JustSaved, Unlocking, Agrees, Keeps
<1>7. Claims(q, Past)
  <2>1. r.target \notin Past => Holds(r, r.target) \/ (r.deleteFile /\ r.name = r.target)
    BY <1>1, <1>4 DEF WindowAware, Claims
  <2>2. Holds(r, r.target) => Holds(q, r.target)
    BY <1>2, <1>3, <1>4 DEF Holds, Agrees, Keeps, Saving, Unlocking
  <2> QED BY <1>3, <2>1, <2>2 DEF Claims, Agrees, Keeps
<1>8. Unseen(q, fs) /\ Looked(q, fs, Past) BY <1>2 DEF Unseen, Looked, Locking
<1>9. Aware(q, fs, Past)
  <2> SUFFICES ASSUME q.pc # "askTime", ~r.asked, n \notin Past, fs[n].text \in Written
               PROVE  r.name = n /\ r.base = fs[n].text
    BY <1>3 DEF Aware, Agrees, Keeps
  <2>1. c.sb = fs[n] OBVIOUS
  <2>2. fs[n].text # NoText BY AbsentIs
  <2>3. r.time # 0 BY <1>1, <1>4 DEF WindowAware, Dated
  <2>4. c.time = r.time BY DEF Agrees, Keeps
  <2>5. r.time = fs[n].time BY <1>2, <2>1, <2>2, <2>3, <2>4
  <2>6. r.name = n
    <3> SUFFICES ASSUME r.name # n PROVE FALSE OBVIOUS
    <3>1. r.cmd = "saveAs" BY <1>1, <1>4 DEF WinOK, WindowType, SavingOK
    <3>2. Unseen(r, fs) BY <1>1 DEF WindowAware
    <3> QED BY <2>2, <2>5, <3>1, <3>2 DEF Unseen
  <2>7. Current(r, fs) /\ Subject(r) = n BY <1>1, <1>4, <2>6 DEF WindowAware, Subject
  <2> QED BY <1>4, <2>2, <2>5, <2>6, <2>7 DEF Current
<1> QED BY <1>5, <1>6, <1>7, <1>8, <1>9 DEF WindowAware, q

LEMMA StatAware ==
  ASSUME LInv, OInv, AInv, Heeded, NEW w \in Windows, Stat(w)
  PROVE  AInv' /\ (Spares => Loud)
<1> DEFINE r == win[w]  sb == fs[r.target]
           mode == IF sb.text = NoText THEN "quick" ELSE world.mode
           c == [r EXCEPT !.sb = sb, !.mode = mode]  a == [c EXCEPT !.pc = "askLinks"]
<1>1. /\ r.pc = "stat" /\ world' = world /\ fs' = fs /\ temp' = temp /\ now' = now /\ Past' = Past
  BY DEF Stat, At, disk, Past
<1>2. /\ r \in WindowType /\ WinOK(r) /\ w \in world.windows /\ WindowAware(r, fs, now, Past)
  BY <1>1, ActingAware
<1>3. r.target \in Names BY <1>1, <1>2 DEF WinOK, SavingOK, Saving
<1>4. sb \in Files BY <1>3 DEF LInv, TInv, DiskOK
<1>5. mode \in Modes BY WorldNames DEF Modes
<1>6. Become(w, a) \/ Become(w, CheckTime(c)) BY DEF Stat
<1> HIDE DEF mode
<1>7. c \in WindowType /\ c.sb = sb /\ Agrees(c, r) /\ c.pc = "stat"
  BY <1>1, <1>2, <1>4, <1>5 DEF WindowType, Agrees, Keeps
<1> HIDE DEF c
<1>8. CASE Become(w, CheckTime(c))
  <2>1. WindowAware(CheckTime(c), fs, now, Past) BY <1>1, <1>7, CheckedAware
  <2>2. Agrees(CheckTime(c), c) BY <1>7, CheckTimeKeeps
  <2>3. TimeChanged(w, CheckTime(c)) BY <1>7, <2>2 DEF TimeChanged, Agrees, Keeps
  <2> QED BY <1>1, <1>2, <1>8, <2>1, <2>3, AwareQuiet
<1>9. CASE Become(w, a)
  <2>1. Agrees(a, c) /\ a.pc = "askLinks" /\ a.sb = sb BY <1>7, FieldsAgree
  <2> HIDE DEF a, sb
  <2>2. Agrees(a, r) BY <1>7, <2>1 DEF Agrees, Keeps
  <2>3. Dated(a, now) BY <1>1, <1>2, <2>1, <2>2 DEF WindowAware, Dated, Active, Agrees, Keeps
  <2>4. Current(a, fs)
    BY <1>1, <1>2, <2>1, <2>2 DEF WindowAware, Current, Active, Subject, JustSaved, Unlocking, Agrees, Keeps
  <2>5. Claims(a, Past)
    BY <1>1, <1>2, <2>1, <2>2 DEF WindowAware, Claims, Holds, Pending, Saving, Unlocking, Agrees, Keeps
  <2>6. Unseen(a, fs) BY <1>1, <1>2, <2>1, <2>2 DEF WindowAware, Unseen, Agrees, Keeps
  <2>7. Looked(a, fs, Past) BY <2>1, <2>2 DEF Looked, Agrees, Keeps, sb
  <2>8. Aware(a, fs, Past) BY <2>1 DEF Aware
  <2>9. WindowAware(a, fs, now, Past) BY <2>3, <2>4, <2>5, <2>6, <2>7, <2>8 DEF WindowAware
  <2>10. TimeChanged(w, a) BY <2>2 DEF TimeChanged, Agrees, Keeps
  <2> QED BY <1>1, <1>2, <1>9, <2>9, <2>10, AwareQuiet
<1> QED BY <1>6, <1>8, <1>9

\* A save that is given up, or fails before anything is written.
LEMMA FailedAware ==
  ASSUME LInv, OInv, AInv, Heeded, NEW w \in Windows, win[w].pc \in Saving, world' = world, fs' = fs,
         temp' = temp, now' = now, Past' = Past, NEW x, x # "ok", Become(w, Result(win[w], x))
  PROVE  AInv' /\ (Spares => Loud)
<1> DEFINE r == win[w]  q == Result(r, x)
<1>1. r \in WindowType BY SavingOwn
<1>2. Keeps(q, r) /\ q.pc \in {"settle", "unlock"} /\ q.res = x BY <1>1, ResultKeeps, ResultIs
<1> HIDE DEF q
<1>3. Subject(q) = Subject(r) BY <1>2 DEF Subject, JustSaved, Unlocking, Saving, Keeps
<1>4. r.pc \notin {"unopened", "load", "closed", "dead"} BY DEF Saving
<1> QED BY <1>2, <1>3, <1>4, AwarePlain DEF q, Locking, Saving

LEMMA AskLinksAware ==
  ASSUME LInv, OInv, AInv, Heeded, NEW w \in Windows, AskLinks(w)
  PROVE  AInv' /\ (Spares => Loud)
<1> DEFINE r == win[w]
           c == [r EXCEPT !.skip = TRUE, !.mode = "safe"]  d == [r EXCEPT !.skip = TRUE]
<1>1. /\ r.pc = "askLinks" /\ world' = world /\ fs' = fs /\ temp' = temp /\ now' = now /\ Past' = Past
  BY DEF AskLinks, At, disk, Past
<1>2. r \in WindowType /\ w \in world.windows /\ WindowAware(r, fs, now, Past) BY <1>1, ActingAware
<1>3. Become(w, CheckTime(c)) \/ Become(w, CheckTime(d)) \/ Become(w, Result(r, "abort"))
  BY DEF AskLinks
<1>4. c \in WindowType /\ d \in WindowType BY <1>2 DEF WindowType, Modes
<1>5. Agrees(c, r) /\ c.sb = r.sb /\ Agrees(d, r) /\ d.sb = r.sb BY <1>2 DEF WindowType, Agrees, Keeps
<1> HIDE DEF c, d
<1>6. ASSUME NEW e \in WindowType, Agrees(e, r), e.sb = r.sb, Become(w, CheckTime(e))
      PROVE  AInv' /\ (Spares => Loud)
  <2>1. Looked(r, fs, Past) BY <1>2 DEF WindowAware
  <2>2. WindowAware(CheckTime(e), fs, now, Past) BY <1>1, <1>6, <2>1, CheckedAware DEF Looked
  <2>3. Agrees(CheckTime(e), e) BY <1>6, CheckTimeKeeps
  <2>4. TimeChanged(w, CheckTime(e)) BY <1>6, <2>3 DEF TimeChanged, Agrees, Keeps
  <2> QED BY <1>1, <1>2, <1>6, <2>2, <2>4, AwareQuiet
<1>7. CASE Become(w, Result(r, "abort")) BY <1>1, <1>7, FailedAware DEF Saving
<1> QED BY <1>3, <1>4, <1>5, <1>6, <1>7

\* A window that goes on in its save, and is as aware as before.
LEMMA SavesAware ==
  ASSUME NEW r, NEW q, NEW files, NEW clock, NEW past, WindowAware(r, files, clock, past),
         Agrees(q, r) \/ (/\ Keeps(q, r) /\ q.asked /\ q.locked = r.locked
                         /\ q.saveLock = r.saveLock /\ q.deleteFile = r.deleteFile),
         r.pc \in Saving, q.pc \in {"temp", "open", "write", "backup", "rename"},
         q.asked \/ r.pc \in {"temp", "open", "write", "backup", "rename"}
  PROVE  WindowAware(q, files, clock, past)
<1>1. /\ Keeps(q, r) /\ q.locked = r.locked /\ q.saveLock = r.saveLock /\ q.deleteFile = r.deleteFile
      /\ q.asked \/ (~r.asked /\ r.pc \in {"temp", "open", "write", "backup", "rename"})
  BY DEF Agrees
<1>2. Active(r) /\ r.pc # "load" /\ ~JustSaved(r) /\ Active(q) /\ q.pc # "load" /\ ~JustSaved(q)
  BY DEF Active, JustSaved, Unlocking, Saving
<1>3. Dated(q, clock) BY <1>1, <1>2 DEF WindowAware, Dated, Keeps
<1>4. Current(q, files) BY <1>1, <1>2 DEF WindowAware, Current, Subject, Keeps
<1>5. Claims(q, past)
  <2>1. r.target \notin past => Holds(r, r.target) \/ (r.deleteFile /\ r.name = r.target)
    BY DEF WindowAware, Claims
  <2>2. Holds(r, r.target) => Holds(q, r.target) BY <1>1 DEF Holds, Keeps, Saving, Unlocking
  <2> QED BY <1>1, <2>1, <2>2 DEF Claims, Keeps
<1>6. Unseen(q, files) /\ Looked(q, files, past) BY DEF Unseen, Looked, Locking
<1>7. Aware(q, files, past) BY <1>1 DEF WindowAware, Aware, Keeps
<1> QED BY <1>3, <1>4, <1>5, <1>6, <1>7 DEF WindowAware

LEMMA AskTimeAware ==
  ASSUME LInv, OInv, AInv, Heeded, NEW w \in Windows, AskTime(w)
  PROVE  AInv' /\ (Spares => Loud)
<1> DEFINE r == win[w]  x == IF r.mode = "quick" THEN "open" ELSE "temp"
           q == [r EXCEPT !.asked = TRUE, !.pc = x]
<1>1. /\ r.pc = "askTime" /\ world' = world /\ fs' = fs /\ temp' = temp /\ now' = now /\ Past' = Past
  BY DEF AskTime, At, disk, Past
<1>2. r \in WindowType /\ w \in world.windows /\ WindowAware(r, fs, now, Past) BY <1>1, ActingAware
<1>3. Become(w, q) \/ Become(w, Result(r, "abort")) BY DEF AskTime
<1>4. x \in {"open", "temp"} OBVIOUS
<1> HIDE DEF x
<1>5. /\ Keeps(q, r) /\ q.pc = x /\ q.asked = TRUE
      /\ q.locked = r.locked /\ q.saveLock = r.saveLock /\ q.deleteFile = r.deleteFile
  BY <1>2 DEF WindowType, Keeps
<1> HIDE DEF q
<1>6. CASE Become(w, q)
  <2>1. q.asked BY <1>5
  <2>2. r.pc \in Saving BY <1>1 DEF Saving
  <2>3. WindowAware(q, fs, now, Past) BY <1>2, <1>4, <1>5, <2>1, <2>2, SavesAware
  <2>4. TimeChanged(w, q) BY <1>5 DEF TimeChanged, Keeps
  <2> QED BY <1>1, <1>2, <1>6, <2>3, <2>4, AwareQuiet
<1>7. CASE Become(w, Result(r, "abort")) BY <1>1, <1>7, FailedAware DEF Saving
<1> QED BY <1>3, <1>6, <1>7

-----------------------------------------------------------------------------
(* The writing, and the end of a command                                   *)

\* A window is not less aware when the time goes on.
LEMMA LaterAware ==
  ASSUME now \in Nat, NEW r, NEW files, NEW past, WindowAware(r, files, now, past)
  PROVE  WindowAware(r, files, now + 1, past)
BY DEF WindowAware, Dated

\* A file that a window changes has a new time.
LEMMA OwnCurrent ==
  ASSUME LInv, AInv, Heeded, NEW w \in Windows, Active(win[w]), win[w].pc \notin {"load", "rename"},
         \A n \in Names : Changed(w, n), NEW q, Keeps(q, win[w]), Subject(q) = Subject(win[w])
  PROVE  Current(q, fs')
<1> DEFINE r == win[w]  n == Subject(r)
<1>1. n \in Names /\ now \in Nat BY SubjectIs, ClockIs
<1>2. Current(r, fs) /\ Dated(r, now) BY DEF AInv, WindowsAware, WindowAware
<1>3. Changed(w, n) BY <1>1
<1>4. q.time = r.time /\ q.base = r.base BY DEF Keeps
<1>5. r.time \in 0 .. now BY <1>2 DEF Dated
<1> HIDE DEF n
<1> SUFFICES ASSUME fs'[n].text # NoText, fs'[n].time = r.time PROVE r.base = fs'[n].text
  BY <1>4 DEF Current, n
<1>6. fs'[n] = fs[n] BY <1>1, <1>3, <1>5, AbsentIs DEF Changed
<1> QED BY <1>2, <1>6 DEF Current, n

\* A window whose open file is renamed or unlinked rests.
LEMMA MovedRests ==
  ASSUME LInv, NEW w \in Windows, NEW q, NEW n, NEW x, win' = [Moved(win, n, x) EXCEPT ![w] = q]
  PROVE  win'[w] = q /\ \A v \in Windows \ {w} : Rests(win'[v], win[v])
<1>1. win'[w] = q /\ \A v \in Windows \ {w} : win'[v] = Moved(win, n, x)[v] BY DEF Moved
<1>2. ASSUME NEW v \in Windows PROVE Rests(Moved(win, n, x)[v], win[v])
  <2>1. win[v] \in WindowType BY DEF LInv, TInv, WinOK
  <2> DEFINE a == [win[v] EXCEPT !.fd = x]
  <2>2. Moved(win, n, x)[v] = a \/ Moved(win, n, x)[v] = win[v] BY DEF Moved
  <2>3. Rests(a, win[v]) BY <2>1 DEF WindowType, Rests, Agrees, Keeps
  <2> HIDE DEF a
  <2> QED BY <2>2, <2>3, RestsItself
<1> QED BY <1>1, <1>2

LEMMA MakeTempAware ==
  ASSUME LInv, OInv, AInv, Heeded, NEW w \in Windows, MakeTemp(w)
  PROVE  AInv' /\ (Spares => Loud)
<1> DEFINE r == win[w]  q == [r EXCEPT !.pc = "open"]
<1>1. r.pc = "temp" /\ world' = world /\ fs' = fs /\ Past' = Past BY DEF MakeTemp, At, Past
<1>2. r \in WindowType /\ w \in world.windows /\ WindowAware(r, fs, now, Past) BY <1>1, ActingAware
<1>3. now \in Nat /\ Tick = now + 1 BY ClockIs
<1>4. CASE temp' = [temp EXCEPT ![w] = Stamped(Empty)] /\ now' = Tick /\ Goto(w, "open")
  <2>1. Become(w, q) BY <1>4, GotoIsBecome
  <2>2. Agrees(q, r) /\ q.pc = "open" BY <1>2, FieldsAgree
  <2>3. win'[w] = q /\ \A v \in Windows \ {w} : win'[v] = win[v] BY <2>1 DEF LInv, TInv, Become
  <2> HIDE DEF q
  <2>4. temp'[w].time = now + 1 /\ \A v \in Windows \ {w} : temp'[v] = temp[v]
    BY <1>3, <1>4 DEF LInv, TInv, DiskOK, Stamped
  <2>5. now' = now + 1 BY <1>3, <1>4
  <2>6. (\A n \in Names : Changed(w, n)) /\ TempChanged(w) BY <1>1, <2>4, <2>5 DEF Changed, TempChanged
  <2>7. WindowAware(r, fs', now', Past) BY <1>1, <1>2, <1>3, <2>5, LaterAware
  <2>8. WindowAware(q, fs', now', Past) BY <1>1, <2>2, <2>7, SavesAware DEF Saving
  <2>9. TimeChanged(w, q) BY <2>2 DEF TimeChanged, Agrees, Keeps
  <2>10. r.pc \notin {"open", "write", "rename"} BY <1>1
  <2> QED BY <1>1, <1>2, <2>3, <2>4, <2>5, <2>6, <2>8, <2>9, <2>10, AwareStep, RestsItself
<1>5. CASE Become(w, Result(r, "error")) /\ UNCHANGED <<temp, now>>
  BY <1>1, <1>5, FailedAware DEF Saving
<1> QED BY <1>4, <1>5 DEF MakeTemp

\* A quick save cuts its own file, or one that the user gave away.
LEMMA OpenToWriteAware ==
  ASSUME LInv, OInv, AInv, Heeded, NEW w \in Windows, OpenToWrite(w)
  PROVE  AInv' /\ (Spares => Loud)
<1> DEFINE r == win[w]  n == r.target  q == [r EXCEPT !.pc = "write", !.fd = "name"]
           p == [r EXCEPT !.pc = "write"]
           f == [text |-> Part, time |-> Tick, linked |-> fs[n].linked]
<1>1. r.pc = "open" /\ world' = world /\ temp' = temp /\ Past' = Past BY DEF OpenToWrite, At, Past
<1>2. r \in WindowType /\ w \in world.windows /\ WindowAware(r, fs, now, Past) BY <1>1, ActingAware
<1>3. n \in Names BY <1>1, SavingOwn DEF Saving
<1>4. now \in Nat /\ Tick = now + 1 BY ClockIs
<1>5. Agrees(q, r) /\ q.pc = "write" BY <1>2 DEF WindowType, Agrees, Keeps
<1>6. Agrees(p, r) /\ p.pc = "write" BY <1>2, FieldsAgree
<1>7. CASE fs' = [fs EXCEPT ![n] = f] /\ now' = Tick /\ Become(w, q)
  <2>1. f.text = Part /\ f.time = now + 1 BY <1>4
  <2> HIDE DEF f, q
  <2>2. fs'[n].text = Part /\ fs'[n].time = now + 1 /\ \A m \in Names \ {n} : fs'[m] = fs[m]
    BY <1>3, <1>7, <2>1 DEF LInv, TInv, DiskOK
  <2>3. win'[w] = q /\ \A v \in Windows \ {w} : win'[v] = win[v] BY <1>7 DEF LInv, TInv, Become
  <2>4. now' = now + 1 BY <1>4, <1>7
  <2>5. \A m \in Names : Changed(w, m) BY <1>1, <2>2, <2>4 DEF Changed
  <2>6. TempChanged(w) BY <1>1 DEF TempChanged
  <2>7. Keeps(q, r) /\ Subject(q) = Subject(r) /\ Active(r) /\ Active(q)
    BY <1>1, <1>5 DEF Agrees, Keeps, Subject, JustSaved, Unlocking, Active
  <2>8. Current(q, fs') BY <1>1, <2>5, <2>7, OwnCurrent
  <2>9. Dated(q, now') BY <1>2, <1>4, <2>4, <2>7 DEF WindowAware, Dated, Keeps
  <2>10. Claims(q, Past)
    BY <1>1, <1>2, <1>5 DEF WindowAware, Claims, Holds, Pending, Saving, Unlocking, Agrees, Keeps
  <2>11. Unseen(q, fs') /\ Looked(q, fs', Past) BY <1>5 DEF Unseen, Looked, Locking
  <2>12. Part \notin Written BY DEF Part, Written
  <2>13. Aware(q, fs', Past) BY <1>5, <2>2, <2>12 DEF Aware, Agrees, Keeps
  <2>14. TimeChanged(w, q) BY <2>7 DEF TimeChanged, Keeps
  <2>15. Acts(w) BY <1>1, <1>5, <2>3 DEF Acts
  <2>16. WindowAware(win'[w], fs', now', Past)
    BY <2>3, <2>8, <2>9, <2>10, <2>11, <2>13 DEF WindowAware
  <2> HIDE DEF r, n
  <2> QED BY <1>1, <1>2, <2>3, <2>4, <2>5, <2>6, <2>14, <2>15, <2>16, AwareStep, RestsItself
<1>8. CASE Goto(w, "write") /\ UNCHANGED <<fs, now>>
  <2>1. Become(w, p) BY <1>8, GotoIsBecome
  <2> HIDE DEF p
  <2>2. WindowAware(p, fs, now, Past) BY <1>1, <1>2, <1>6, SavesAware DEF Saving
  <2>3. TimeChanged(w, p) BY <1>6 DEF TimeChanged, Agrees, Keeps
  <2> QED BY <1>1, <1>2, <1>8, <2>1, <2>2, <2>3, AwareQuiet
<1>9. CASE Become(w, Result(r, "error")) /\ UNCHANGED <<fs, now>> BY <1>1, <1>9, FailedAware DEF Saving
<1> QED BY <1>7, <1>8, <1>9 DEF OpenToWrite

\* What a write does to the times.
LEMMA PutAware ==
  ASSUME LInv, OInv, AInv, Heeded, NEW w \in Windows, win[w].pc = "write", NEW t, t # NoText, Put(w, t)
  PROVE  /\ now' = now + 1 /\ (\A n \in Names : Changed(w, n)) /\ TempChanged(w)
         /\ \A v \in Windows \ {w} : temp'[v] = temp[v]
         /\ fs'[win[w].target] = fs[win[w].target] \/ fs'[win[w].target].time = now + 1
         /\ win[w].mode # "quick" => fs' = fs /\ temp'[w].time = now + 1
<1> DEFINE r == win[w]  n == r.target  f == [text |-> t, time |-> Tick, linked |-> fs[n].linked]
<1>1. n \in Names BY SavingOwn DEF Saving
<1>2. temp \in [Windows -> Files] /\ fs \in [Names -> Files] BY DEF LInv, TInv, DiskOK
<1>3. Tick = now + 1 /\ now' = now + 1 BY ClockIs DEF Put
<1>4. Stamped(t).time = now + 1 /\ f.time = now + 1 BY <1>3 DEF Stamped
<1>5. \/ r.mode # "quick" /\ temp' = [temp EXCEPT ![w] = Stamped(t)] /\ fs' = fs
      \/ r.mode = "quick" /\ (fs' = fs \/ fs' = [fs EXCEPT ![n] = f]) /\ temp' = temp
  BY DEF Put, disk
<1> HIDE DEF f
<1>6. /\ \A m \in Names \ {n} : fs'[m] = fs[m]
      /\ fs'[n] = fs[n] \/ fs'[n].time = now + 1
      /\ r.mode # "quick" => fs' = fs /\ temp'[w].time = now + 1
      /\ r.mode = "quick" => temp' = temp
      /\ \A v \in Windows \ {w} : temp'[v] = temp[v]
  BY <1>1, <1>2, <1>4, <1>5
<1>7. \A m \in Names : Changed(w, m) BY <1>3, <1>6 DEF Changed
<1>8. TempChanged(w) BY <1>3, <1>6 DEF TempChanged
<1> QED BY <1>3, <1>6, <1>7, <1>8

\* A write that is known to have failed.
LEMMA FailsAware ==
  ASSUME LInv, OInv, AInv, Heeded, NEW w \in Windows, win[w].pc = "write", world' = world, Past' = Past,
         NEW t, t # NoText, Put(w, t), Become(w, Result(win[w], "error"))
  PROVE  AInv' /\ (Spares => Loud)
<1> DEFINE r == win[w]  q == Result(r, "error")
<1>1. r \in WindowType /\ w \in world.windows /\ WindowAware(r, fs, now, Past) BY ActingAware
<1>2. Keeps(q, r) /\ q.pc \in {"settle", "unlock"} /\ q.res = "error" BY <1>1, ResultKeeps, ResultIs
<1> HIDE DEF q
<1>3. win'[w] = q /\ \A v \in Windows \ {w} : win'[v] = win[v] BY DEF LInv, TInv, Become, q
<1>4. now \in Nat BY ClockIs
<1>5. /\ now' = now + 1 /\ (\A n \in Names : Changed(w, n)) /\ TempChanged(w)
      /\ \A v \in Windows \ {w} : temp'[v] = temp[v]
  BY PutAware
<1>6. Subject(q) = Subject(r) /\ Active(r) BY <1>2 DEF Subject, JustSaved, Unlocking, Keeps, Active
<1>7. Current(q, fs') BY <1>2, <1>5, <1>6, OwnCurrent
<1>8. Dated(q, now') BY <1>1, <1>2, <1>4, <1>5, <1>6 DEF WindowAware, Dated, Keeps
<1>9. Claims(q, Past) /\ Unseen(q, fs') /\ Looked(q, fs', Past) /\ Aware(q, fs', Past)
  BY <1>2 DEF Claims, Unseen, Looked, Aware, Locking, Saving
<1>10. WindowAware(win'[w], fs', now', Past) BY <1>3, <1>7, <1>8, <1>9 DEF WindowAware
<1>11. TimeChanged(w, q) BY <1>2 DEF TimeChanged, Keeps
<1>12. Acts(w) BY <1>2, <1>3 DEF Acts
<1> HIDE DEF r
<1> QED BY <1>1, <1>3, <1>5, <1>10, <1>11, <1>12, AwareStep, RestsItself DEF r

\* edit_save_file takes the time of what it has written.
LEMMA WroteAware ==
  ASSUME LInv, OInv, AInv, Heeded, NEW w \in Windows, win[w].pc = "write", world' = world, Past' = Past,
         DiskOK', NEW s, s # NoText, Put(w, s), Become(w, Wrote(w))
  PROVE  AInv' /\ (Spares => Loud)
<1> DEFINE r == win[w]  n == r.target
           plain == ~world.filter /\ ~r.convert
           saved == IF r.mode = "quick" THEN fs'[n] ELSE temp'[w]
           t == IF plain THEN saved.time ELSE r.time
           b == IF r.mode = "quick" THEN saved.text ELSE r.base
           c == [r EXCEPT !.time = t, !.base = b]
           x == IF r.mode = "backup" THEN "backup" ELSE "rename"
           q == [r EXCEPT !.time = t, !.base = b, !.pc = x]
<1>1. r \in WindowType /\ WinOK(r) /\ w \in world.windows /\ WindowAware(r, fs, now, Past) BY ActingAware
<1>2. n \in Names /\ r.closing # "sure" BY SavingOwn DEF Saving
<1>3. Wrote(w) = IF plain /\ saved.text = NoText THEN Result(r, "error")
                 ELSE IF r.mode = "quick" THEN Result(c, "ok") ELSE [c EXCEPT !.pc = x]
  BY DEF Wrote
<1>4. /\ now' = now + 1 /\ (\A m \in Names : Changed(w, m)) /\ TempChanged(w)
      /\ \A v \in Windows \ {w} : temp'[v] = temp[v]
      /\ fs'[n] = fs[n] \/ fs'[n].time = now + 1
      /\ r.mode # "quick" => fs' = fs /\ temp'[w].time = now + 1
  BY PutAware
<1>5. now \in Nat /\ r.time \in 1 .. now /\ r.name # NoName
  BY <1>1, ClockIs DEF WindowAware, Dated, Active
<1>6. CASE Become(w, Result(r, "error")) BY <1>6, FailsAware
<1>7. CASE r.mode = "quick" /\ ~(plain /\ saved.text = NoText) /\ Become(w, Result(c, "ok"))
  <2> DEFINE e == Result(c, "ok")
  <2>1. saved = fs'[n] /\ saved \in Files BY <1>2, <1>7 DEF DiskOK
  <2>2. t \in 1 .. now + 1 /\ b = fs'[n].text /\ (t = r.time \/ t = now + 1 \/ t = fs[n].time)
    <3>1. Timely(fs[n], now) BY <1>2 DEF AInv, FilesTimed
    <3>2. b = fs'[n].text BY <1>7, <2>1
    <3>3. CASE ~plain
      <4>1. t = r.time BY <3>3
      <4> QED BY <1>5, <3>2, <4>1
    <3>4. CASE plain
      <4>1. t = fs'[n].time /\ fs'[n].text # NoText BY <1>7, <2>1, <3>4
      <4> HIDE DEF plain, t
      <4> QED BY <1>4, <1>5, <3>1, <3>2, <4>1 DEF Timely
    <3> QED BY <3>3, <3>4
  <2> HIDE DEF plain, saved, t, b
  <2>3. t \in Times /\ b \in Texts BY <1>5, <2>1, <2>2 DEF Files, Times
  <2>4. c \in WindowType BY <1>1, <2>3, SaveStamped DEF WinOK, Saving
  <2>5. /\ c.time = t /\ c.base = b /\ c.target = n /\ c.name = r.name /\ c.closing = r.closing
    BY <1>1 DEF WindowType
  <2> HIDE DEF c
  <2>6. Keeps(e, c) /\ e.pc \in {"settle", "unlock"} /\ e.res = "ok" /\ e.closing = r.closing
    BY <2>4, <2>5, ResultKeeps, ResultIs, ResultCloses
  <2> HIDE DEF e
  <2>7. win'[w] = e /\ \A v \in Windows \ {w} : win'[v] = win[v] BY <1>7 DEF LInv, TInv, Become, e
  <2>8. Subject(e) = n /\ e.time = t /\ e.base = b /\ e.name = r.name
    BY <1>2, <2>5, <2>6 DEF Subject, JustSaved, Unlocking, Keeps
  <2>9. Dated(e, now') BY <1>4, <1>5, <2>2, <2>8 DEF Dated
  <2>10. Current(e, fs') BY <2>2, <2>8 DEF Current
  <2>11. Claims(e, Past) /\ Unseen(e, fs') /\ Looked(e, fs', Past) /\ Aware(e, fs', Past)
    BY <2>6 DEF Claims, Unseen, Looked, Aware, Locking, Saving
  <2>12. WindowAware(win'[w], fs', now', Past) BY <2>7, <2>9, <2>10, <2>11 DEF WindowAware
  <2>13. TimeChanged(w, win'[w]) BY <1>2, <1>4, <2>2, <2>7, <2>8 DEF TimeChanged
  <2>14. Acts(w) BY <2>6, <2>7 DEF Acts
  <2> HIDE DEF r, n
  <2> QED BY <1>1, <1>4, <2>7, <2>12, <2>13, <2>14, AwareStep, RestsItself
<1>8. CASE r.mode # "quick" /\ Become(w, [c EXCEPT !.pc = x])
  <2>1. Become(w, q) BY <1>8
  <2>2. fs' = fs /\ saved.time = now + 1 BY <1>4, <1>8
  <2>3. t \in {r.time, now + 1} /\ b = r.base BY <1>8, <2>2
  <2>4. x \in {"backup", "rename"} OBVIOUS
  <2> HIDE DEF x, c, t, b, saved, plain
  <2>5. /\ q.pc = x /\ q.name = r.name /\ q.target = n /\ q.time = t /\ q.base = b /\ q.asked = r.asked
        /\ q.locked = r.locked /\ q.saveLock = r.saveLock /\ q.deleteFile = r.deleteFile
    BY <1>1 DEF WindowType
  <2> HIDE DEF q
  <2>6. win'[w] = q /\ \A v \in Windows \ {w} : win'[v] = win[v] BY <2>1 DEF LInv, TInv, Become
  <2>7. Dated(q, now') BY <1>4, <1>5, <2>3, <2>5 DEF Dated
  <2>8. Current(q, fs')
    <3>1. Subject(q) = r.name /\ Subject(r) = r.name /\ Active(r) /\ r.pc # "load"
      BY <2>4, <2>5 DEF Subject, JustSaved, Unlocking, Active
    <3>2. r.name \in Names BY <3>1, SubjectIs
    <3>3. Timely(fs[r.name], now) BY <3>2 DEF AInv, FilesTimed
    <3>4. Current(r, fs) BY <1>1 DEF WindowAware
    <3> QED BY <1>5, <2>2, <2>3, <2>5, <3>1, <3>3, <3>4 DEF Current, Timely
  <2>9. Claims(q, Past)
    <3>1. n \notin Past => Holds(r, n) \/ (r.deleteFile /\ r.name = n)
      BY <1>1 DEF WindowAware, Claims, Saving
    <3>2. Holds(r, n) => Holds(q, n) BY <2>4, <2>5 DEF Holds, Saving, Unlocking
    <3> QED BY <2>5, <3>1, <3>2 DEF Claims
  <2>10. Unseen(q, fs') /\ Looked(q, fs', Past) BY <2>4, <2>5 DEF Unseen, Looked, Locking
  <2>11. Aware(q, fs', Past) BY <1>1, <2>2, <2>3, <2>5 DEF WindowAware, Aware
  <2>12. WindowAware(win'[w], fs', now', Past) BY <2>6, <2>7, <2>8, <2>9, <2>10, <2>11 DEF WindowAware
  <2>13. TimeChanged(w, win'[w]) BY <1>4, <2>3, <2>5, <2>6 DEF TimeChanged
  <2>14. Acts(w) BY <2>4, <2>5, <2>6 DEF Acts
  <2> HIDE DEF r, n
  <2> QED BY <1>1, <1>4, <2>6, <2>12, <2>13, <2>14, AwareStep, RestsItself
<1> QED BY <1>3, <1>6, <1>7, <1>8

LEMMA WritesAware ==
  ASSUME LInv, OInv, AInv, Heeded, NEW w \in Windows, WriteAll(w) \/ WriteFails(w) \/ CloseFails(w)
  PROVE  AInv' /\ (Spares => Loud)
<1> DEFINE r == win[w]
<1>1. r.pc = "write" /\ UNCHANGED <<world, link, alive, texts, bold, missed>>
  BY DEF WriteAll, WriteFails, CloseFails, At
<1>2. r.buf \in Texts /\ r.buf # NoText BY <1>1, SavingOwn DEF Saving, Mine, WindowType
<1>3. Part \in Texts /\ Part # NoText BY DEF Texts, Part, NoText
<1>4. Past' = Past BY <1>1 DEF Past
<1>5. ASSUME NEW t \in Texts, t # NoText, Put(w, t), Become(w, Wrote(w)) PROVE AInv' /\ (Spares => Loud)
  <2>1. DiskOK' BY <1>1, <1>5, PutTyped
  <2> QED BY <1>1, <1>4, <1>5, <2>1, WroteAware
<1>6. CASE WriteFails(w)
  <2>1. Put(w, Part) /\ Become(w, Result(r, "error")) BY <1>6 DEF WriteFails
  <2> QED BY <1>1, <1>3, <1>4, <2>1, FailsAware
<1> QED BY <1>2, <1>3, <1>5, <1>6 DEF WriteAll, CloseFails

-----------------------------------------------------------------------------
(* The renames, and what comes after a save                                *)

LEMMA BackupAware ==
  ASSUME LInv, OInv, AInv, Heeded, NEW w \in Windows, Backup(w)
  PROVE  AInv' /\ (Spares => Loud)
<1> DEFINE r == win[w]  n == r.target  q == [r EXCEPT !.pc = "rename"]
<1>1. r.pc = "backup" /\ world' = world /\ temp' = temp /\ now' = now /\ Past' = Past
  BY DEF Backup, At, Past
<1>2. r \in WindowType /\ WinOK(r) /\ w \in world.windows /\ WindowAware(r, fs, now, Past)
  BY <1>1, ActingAware
<1>3. n \in Names BY <1>1, SavingOwn DEF Saving
<1>4. r.fd = "none" BY <1>1, <1>2 DEF WinOK, SavingOK, WindowType
<1>5. Agrees(q, r) /\ q.pc = "rename" BY <1>2, FieldsAgree
<1>6. CASE fs' = [fs EXCEPT ![n] = Absent] /\ win' = [Moved(win, n, "backup") EXCEPT ![w].pc = "rename"]
  <2>1. Moved(win, n, "backup")[w] = r BY <1>4 DEF Moved
  <2>2. win' = [Moved(win, n, "backup") EXCEPT ![w] = q] BY <1>6, <2>1
  <2> HIDE DEF q
  <2>3. win'[w] = q /\ \A v \in Windows \ {w} : Rests(win'[v], win[v]) BY <2>2, MovedRests
  <2>4. fs'[n] = Absent /\ \A m \in Names \ {n} : fs'[m] = fs[m]
    BY <1>3, <1>6 DEF LInv, TInv, DiskOK
  <2>5. \A m \in Names : Changed(w, m) BY <2>4 DEF Changed
  <2>6. TempChanged(w) /\ TimeChanged(w, q) BY <1>1, <1>5 DEF TempChanged, TimeChanged, Agrees, Keeps
  <2>7. Keeps(q, r) /\ Subject(q) = Subject(r) /\ Active(r) /\ Active(q)
    BY <1>1, <1>5 DEF Agrees, Keeps, Subject, JustSaved, Unlocking, Active
  <2>8. Current(q, fs') BY <1>1, <2>5, <2>7, OwnCurrent
  <2>9. Dated(q, now') BY <1>1, <1>2, <2>7 DEF WindowAware, Dated, Keeps
  <2>10. Claims(q, Past)
    BY <1>1, <1>2, <1>5 DEF WindowAware, Claims, Holds, Pending, Saving, Unlocking, Agrees, Keeps
  <2>11. Unseen(q, fs') /\ Looked(q, fs', Past) BY <1>5 DEF Unseen, Looked, Locking
  <2>12. fs'[n].text \notin Written BY <2>4, AbsentIs
  <2>13. Aware(q, fs', Past) BY <1>5, <2>12 DEF Aware, Agrees, Keeps
  <2>14. WindowAware(win'[w], fs', now', Past)
    BY <2>3, <2>8, <2>9, <2>10, <2>11, <2>13 DEF WindowAware
  <2>15. r.pc \notin {"open", "write", "rename"} BY <1>1
  <2>16. now' \in {now, now + 1} BY <1>1
  <2>17. \A v \in Windows \ {w} : temp'[v] = temp[v] BY <1>1
  <2> HIDE DEF r, n
  <2> QED BY <1>1, <1>2, <2>3, <2>5, <2>6, <2>14, <2>15, <2>16, <2>17, AwareStep DEF r
<1>7. CASE Become(w, Result(r, "error")) /\ fs' = fs BY <1>1, <1>7, FailedAware DEF Saving
<1> QED BY <1>6, <1>7 DEF Backup

LEMMA RenameAware ==
  ASSUME LInv, OInv, AInv, Heeded, NEW w \in Windows, Rename(w)
  PROVE  AInv' /\ (Spares => Loud)
<1> DEFINE r == win[w]  n == r.target  c == [r EXCEPT !.base = temp[w].text]  q == Result(c, "ok")
<1>1. r.pc = "rename" /\ world' = world /\ now' = now /\ Past' = Past BY DEF Rename, At, Past
<1>2. r \in WindowType /\ w \in world.windows /\ WindowAware(r, fs, now, Past) /\ FileThere(r, temp[w])
  BY <1>1, ActingAware
<1>3. n \in Names /\ r.closing # "sure" BY <1>1, SavingOwn DEF Saving
<1>4. CASE /\ fs' = [fs EXCEPT ![n] = temp[w]] /\ temp' = [temp EXCEPT ![w] = Absent]
           /\ win' = [Moved(win, n, "gone") EXCEPT ![w] = q]
  <2>1. temp[w] \in Files /\ fs \in [Names -> Files] /\ temp \in [Windows -> Files]
    BY DEF LInv, TInv, DiskOK
  <2>2. /\ c \in WindowType /\ c.name = r.name /\ c.target = n /\ c.time = r.time
        /\ c.base = temp[w].text /\ c.closing = r.closing
    BY <1>2, <2>1 DEF WindowType, Files
  <2> HIDE DEF c
  <2>3. Keeps(q, c) /\ q.pc \in {"settle", "unlock"} /\ q.res = "ok" /\ q.closing = r.closing
    BY <2>2, ResultKeeps, ResultIs, ResultCloses
  <2> HIDE DEF q
  <2>4. win'[w] = q /\ \A v \in Windows \ {w} : Rests(win'[v], win[v]) BY <1>4, MovedRests
  <2>5. temp'[w] = Absent /\ \A v \in Windows \ {w} : temp'[v] = temp[v] BY <1>4, <2>1
  <2>6. fs'[n] = temp[w] /\ \A m \in Names \ {n} : fs'[m] = fs[m] BY <1>3, <1>4, <2>1
  <2>7. temp[w].text # NoText BY <1>1, <1>2 DEF FileThere
  <2>8. \A m \in Names : Changed(w, m) BY <1>1, <2>5, <2>6, <2>7 DEF Changed
  <2>9. TempChanged(w) /\ TimeChanged(w, q) BY <2>2, <2>3, <2>5 DEF TempChanged, TimeChanged, Keeps
  <2>10. q.name = r.name /\ q.time = r.time /\ q.base = temp[w].text /\ Subject(q) = n
    BY <1>3, <2>2, <2>3 DEF Keeps, Subject, JustSaved, Unlocking
  <2>11. Dated(q, now') BY <1>1, <1>2, <2>10 DEF WindowAware, Dated, Active
  <2>12. Current(q, fs') BY <2>6, <2>10 DEF Current
  <2>13. Claims(q, Past) /\ Unseen(q, fs') /\ Looked(q, fs', Past) /\ Aware(q, fs', Past)
    BY <2>3 DEF Claims, Unseen, Looked, Aware, Locking, Saving
  <2>14. WindowAware(win'[w], fs', now', Past) BY <2>4, <2>11, <2>12, <2>13 DEF WindowAware
  <2>15. Acts(w) BY <1>1, <2>3, <2>4 DEF Acts
  <2>16. now' \in {now, now + 1} BY <1>1
  <2> HIDE DEF r, n
  <2> QED BY <1>1, <1>2, <2>4, <2>5, <2>8, <2>9, <2>14, <2>15, <2>16, AwareStep
<1>5. CASE Become(w, Result(r, "error")) /\ UNCHANGED <<fs, temp>>
  BY <1>1, <1>5, FailedAware DEF Saving
<1> QED BY <1>4, <1>5 DEF Rename

\* A window that has saved is about its file as before, under its new name.
LEMMA SettledAware ==
  ASSUME NEW r \in WindowType, r.res = "ok", r.target \in Names, NEW clock \in Nat, r.time \in 1 .. clock,
         NEW files, NEW past,
         files[r.target].text # NoText /\ files[r.target].time = r.time => r.base = files[r.target].text
  PROVE  WindowAware(Settled(r), files, clock, past) /\ Settled(r).time = r.time
<1> DEFINE c == [r EXCEPT !.modified = FALSE, !.deleteFile = FALSE, !.name = r.target]
           q == Finish(c, TRUE)
<1>1. Settled(r) = q BY DEF Settled
<1>2. /\ c \in WindowType /\ c.name = r.target /\ c.target = r.target /\ c.time = r.time /\ c.base = r.base
  BY DEF WindowType
<1> HIDE DEF c
<1>3. Keeps(q, c) /\ (q.pc = "idle" \/ q.closing = "sure") /\ q.pc \in {"unlock", "clean", "idle"}
  BY <1>2, FinishKeeps, FinishIs
<1> HIDE DEF q
<1>4. q.name = r.target /\ q.time = r.time /\ q.base = r.base /\ Subject(q) = r.target
  BY <1>2, <1>3 DEF Keeps, Subject, JustSaved, Unlocking
<1>5. Dated(q, clock)
  <2>1. r.target # NoName BY EditSaveAssumption
  <2> QED BY <1>4, <2>1 DEF Dated
<1>6. Current(q, files) BY <1>4 DEF Current
<1>7. Claims(q, past) /\ Unseen(q, files) /\ Looked(q, files, past) /\ Aware(q, files, past)
  BY <1>3 DEF Claims, Unseen, Looked, Aware, Locking, Saving
<1> QED BY <1>1, <1>4, <1>5, <1>6, <1>7 DEF WindowAware

LEMMA SettleAware ==
  ASSUME LInv, OInv, AInv, Heeded, NEW w \in Windows, Settle(w)
  PROVE  AInv' /\ (Spares => Loud)
<1> DEFINE r == win[w]  a == [r EXCEPT !.pc = "askName"]  ok == r.cmd = "save"  q == Settled(r)
<1>1. /\ r.pc = "settle" /\ world' = world /\ fs' = fs /\ temp' = temp /\ now' = now /\ Past' = Past
      /\ Become(w, q)
  BY DEF Settle, At, disk, Past
<1>2. r \in WindowType /\ WinOK(r) /\ w \in world.windows /\ WindowAware(r, fs, now, Past)
  BY <1>1, ActingAware
<1>3. now \in Nat BY ClockIs
<1>4. r.target \in Names /\ r.closing # "sure" BY <1>1, <1>2 DEF WinOK, UnlockingOK, Unlocking
<1>5. Active(r) /\ r.time \in 1 .. now BY <1>1, <1>2, <1>3 DEF WindowAware, Dated, Active
<1>6. CASE r.res = "ok"
  <2>1. Subject(r) = r.target BY <1>1, <1>4, <1>6 DEF Subject, JustSaved
  <2>2. fs[r.target].text # NoText /\ fs[r.target].time = r.time => r.base = fs[r.target].text
    BY <1>1, <1>2, <1>5, <2>1 DEF WindowAware, Current
  <2>3. WindowAware(q, fs, now, Past) /\ q.time = r.time
    BY <1>2, <1>3, <1>4, <1>5, <1>6, <2>2, SettledAware
  <2> HIDE DEF q
  <2>4. TimeChanged(w, q) BY <2>3 DEF TimeChanged
  <2> QED BY <1>1, <1>2, <2>3, <2>4, AwareQuiet
<1>7. CASE r.res # "ok"
  <2>1. q \in {a, Finish(r, ok)} BY <1>7 DEF Settled
  <2>2. Keeps(a, r) /\ a.pc = "askName" BY <1>2, FieldsAgree DEF Agrees
  <2>3. /\ Keeps(Finish(r, ok), r) /\ Finish(r, ok).pc \in {"unlock", "clean", "idle"}
        /\ Finish(r, ok).pc = "idle" \/ Finish(r, ok).closing = "sure"
    BY <1>2, FinishKeeps, FinishIs
  <2> HIDE DEF a
  <2>4. Keeps(q, r) /\ q.pc \in {"askName", "unlock", "clean", "idle"} /\ (q.pc # "unlock" \/ q.closing = "sure")
    BY <2>1, <2>2, <2>3
  <2> HIDE DEF q
  <2>5. ~JustSaved(q) BY <2>4 DEF JustSaved, Unlocking
  <2>6. ~JustSaved(r) BY <1>7 DEF JustSaved
  <2>7. Subject(q) = Subject(r) BY <2>4, <2>5, <2>6 DEF Subject, Keeps
  <2>8. q.pc \notin {"unopened", "load"} \union Locking \union Saving BY <2>4 DEF Locking, Saving
  <2> QED BY <1>1, <2>4, <2>7, <2>8, AwarePlain
<1> QED BY <1>6, <1>7

LEMMA ReloadAware ==
  ASSUME LInv, OInv, AInv, Heeded, NEW w \in Windows, Reload(w)
  PROVE  AInv' /\ (Spares => Loud)
<1> DEFINE r == win[w]  n == r.target
           Read(t, b) == ReadInto(n, t, b, r.closing, r.commands)
<1>1. r.pc = "settle" /\ r.cmd = "saveAs" /\ r.convert /\ world' = world /\ temp' = temp /\ Past' = Past
  BY DEF Reload, At, Past
<1>2. r \in WindowType /\ WinOK(r) /\ w \in world.windows /\ Mine(r, w) BY <1>1, ActingAware
<1>3. n \in Names BY <1>1, <1>2 DEF WinOK, UnlockingOK
<1>4. now \in Nat /\ Tick = now + 1 /\ Owned BY ClockIs
<1>5. fs \in [Names -> Files] BY DEF LInv, TInv, DiskOK
<1>6. ~r.deleteFile BY <1>1, <1>2, <1>4 DEF Mine, Owned, Own
<1>7. ASSUME NEW clock \in Nat, NEW t \in 1 .. clock, NEW b \in Texts, NEW files,
             files[n].text # NoText /\ files[n].time = t => b = files[n].text
      PROVE  WindowAware(Settled(Read(t, b)), files, clock, Past) /\ Settled(Read(t, b)).time = t
  <2> DEFINE o == NewWindow(n)  k == Read(t, b)
  <2>1. r.closing \in {"no", "asked"} /\ r.commands \in Nat
    BY <1>1, <1>2 DEF WinOK, UnlockingOK, Unlocking, WindowType
  <2>2. t \in Times BY <1>7 DEF Times
  <2>3. k \in WindowType /\ k.res = "ok"
    <3> HIDE DEF r, n
    <3> QED BY <2>1, <2>2, <1>3, <1>7, ReadAgain DEF WinOK
  <2>4. o \in WindowType BY <1>3, NewFits DEF WinOK
  <2>5. k.time = t /\ k.base = b /\ k.target = n
    <3> HIDE DEF o
    <3>1. k = [o EXCEPT !.time = t, !.buf = b, !.base = b, !.cmd = "saveAs", !.target = n,
                        !.closing = r.closing, !.commands = r.commands]
      BY DEF ReadInto, o
    <3> QED BY <3>1, <2>4 DEF WindowType
  <2> HIDE DEF k, o
  <2>6. WindowAware(Settled(k), files, clock, Past) /\ Settled(k).time = t
    BY <1>3, <1>7, <2>3, <2>5, SettledAware
  <2> QED BY <2>6 DEF k
<1>8. CASE Exists(n)
  <2> DEFINE q == Settled(Read(fs[n].time, fs[n].text))
  <2>1. fs' = fs /\ now' = now /\ Become(w, q) BY <1>6, <1>8 DEF Reload, ReadInto, Become
  <2>2. Timely(fs[n], now) BY <1>3 DEF AInv, FilesTimed
  <2>3. fs[n].time \in 1 .. now /\ fs[n].text \in Texts
    BY <1>3, <1>4, <1>5, <1>8, <2>2 DEF Files, Exists, Timely
  <2>4. WindowAware(q, fs, now, Past) /\ q.time = fs[n].time BY <1>4, <2>3, <1>7
  <2> HIDE DEF q
  <2>5. TimeChanged(w, q) BY <1>3, <2>4 DEF TimeChanged
  <2> QED BY <1>1, <1>2, <2>1, <2>4, <2>5, AwareQuiet
<1>9. CASE ~Exists(n)
  <2> DEFINE k == Read(fs[n].time, fs[n].text)  m == Read(Tick, Empty)  q == Settled(m)
  <2>1. /\ fs' = [fs EXCEPT ![n] = Stamped(Empty)] /\ now' = Tick
        /\ Become(w, Settled([k EXCEPT !.time = Tick, !.buf = Empty, !.base = Empty]))
    BY <1>6, <1>9 DEF Reload, ReadInto
  <2>2. [k EXCEPT !.time = Tick, !.buf = Empty, !.base = Empty] = m
    <3> DEFINE o == NewWindow(n)
    <3>1. o \in WindowType BY <1>3, NewFits DEF WinOK
    <3> HIDE DEF o
    <3>2. [[o EXCEPT !.time = fs[n].time, !.buf = fs[n].text, !.base = fs[n].text, !.cmd = "saveAs", !.target = n,
                     !.closing = r.closing, !.commands = r.commands]
           EXCEPT !.time = Tick, !.buf = Empty, !.base = Empty]
          = [o EXCEPT !.time = Tick, !.buf = Empty, !.base = Empty, !.cmd = "saveAs", !.target = n,
                      !.closing = r.closing, !.commands = r.commands]
      BY <3>1 DEF WindowType
    <3> QED BY <3>2 DEF o, ReadInto
  <2>3. Become(w, q) BY <2>1, <2>2
  <2>4. Empty \in Texts /\ Empty \notin Written /\ NoText \notin Written BY DEF Texts, Empty, NoText, Written
  <2>5. fs'[n].text = Empty /\ fs'[n].time = now + 1 /\ \A f \in Names \ {n} : fs'[f] = fs[f]
    BY <1>3, <1>4, <1>5, <2>1 DEF Stamped
  <2>6. now' = now + 1 /\ now' \in Nat /\ Tick \in 1 .. now' BY <1>4, <2>1
  <2>7. WindowAware(q, fs', now', Past) /\ q.time = now + 1 BY <1>4, <2>4, <2>5, <2>6, <1>7
  <2> HIDE DEF q, k, m
  <2>8. win'[w] = q /\ \A v \in Windows \ {w} : win'[v] = win[v] BY <2>3 DEF LInv, TInv, Become
  <2>9. fs[n].text \notin Written BY <1>9, <2>4 DEF Exists
  <2>10. \A f \in Names : Changed(w, f) BY <2>4, <2>5, <2>6, <2>9 DEF Changed
  <2>11. TempChanged(w) /\ TimeChanged(w, q) BY <1>1, <2>6, <2>7 DEF TempChanged, TimeChanged
  <2>12. r.pc \notin {"open", "write", "rename"} BY <1>1
  <2> HIDE DEF r, n
  <2> QED BY <1>1, <1>2, <2>6, <2>7, <2>8, <2>10, <2>11, <2>12, AwareStep, RestsItself DEF r
<1> QED BY <1>8, <1>9

LEMMA CleanAware ==
  ASSUME LInv, OInv, AInv, Heeded, NEW w \in Windows, Clean(w)
  PROVE  AInv' /\ (Spares => Loud)
<1> DEFINE r == win[w]  n == r.name  q == [r EXCEPT !.pc = "closed"]
<1>1. r.pc = "clean" /\ world' = world /\ temp' = temp /\ now' = now /\ Past' = Past
  BY DEF Clean, At, Past
<1>2. r \in WindowType /\ WinOK(r) /\ w \in world.windows /\ Mine(r, w) /\ WindowAware(r, fs, now, Past)
  BY <1>1, ActingAware
<1>3. /\ fs' = IF r.deleteFile THEN [fs EXCEPT ![n] = Absent] ELSE fs
      /\ win' = [(IF r.deleteFile THEN Moved(win, n, "gone") ELSE win) EXCEPT ![w].pc = "closed"]
  BY DEF Clean
<1>4. Keeps(q, r) /\ q.pc = "closed" BY <1>2, FieldsAgree DEF Agrees
<1>5. Subject(q) = Subject(r) BY <1>1, <1>4 DEF Subject, JustSaved, Unlocking, Keeps
<1>6. q.pc \notin {"unopened", "load"} \union Locking \union Saving BY <1>4 DEF Locking, Saving
<1>7. CASE ~r.deleteFile
  <2>1. fs' = fs /\ Become(w, q) BY <1>3, <1>7 DEF Become
  <2> HIDE DEF q
  <2> QED BY <1>1, <1>4, <1>5, <1>6, <2>1, AwarePlain
<1>8. CASE r.deleteFile
  <2>1. r.fd = "none" BY <1>1, <1>2 DEF WinOK, SavingOK, WindowType
  <2>2. Moved(win, n, "gone")[w] = r BY <2>1 DEF Moved
  <2>3. win' = [Moved(win, n, "gone") EXCEPT ![w] = q] BY <1>3, <1>8, <2>2
  <2> HIDE DEF q
  <2>4. win'[w] = q /\ \A v \in Windows \ {w} : Rests(win'[v], win[v]) BY <2>3, MovedRests
  <2>5. n \in Names BY <1>2, <1>8 DEF Mine, WindowType
  <2>6. fs'[n] = Absent /\ \A m \in Names \ {n} : fs'[m] = fs[m]
    BY <1>3, <1>8, <2>5 DEF LInv, TInv, DiskOK
  <2>7. \A m \in Names : Changed(w, m) BY <2>6 DEF Changed
  <2>8. TempChanged(w) /\ TimeChanged(w, q) BY <1>1, <1>4 DEF TempChanged, TimeChanged, Keeps
  <2>9. Active(r) /\ r.pc # "load" BY <1>1 DEF Active
  <2>10. WindowAware(r, fs', now', Past')
    <3>1. Dated(r, now') BY <1>1, <1>2 DEF WindowAware, Dated
    <3>2. Keeps(r, r) BY DEF Keeps
    <3>3. Current(r, fs') BY <1>1, <2>7, <2>9, <3>2, OwnCurrent
    <3>4. Claims(r, Past') /\ Unseen(r, fs') /\ Looked(r, fs', Past') /\ Aware(r, fs', Past')
      BY <1>1 DEF Claims, Unseen, Looked, Aware, Locking, Saving
    <3> QED BY <3>1, <3>3, <3>4 DEF WindowAware
  <2>11. WindowAware(win'[w], fs', now', Past')
    <3> HIDE DEF r
    <3> QED BY <1>4, <1>5, <1>6, <2>4, <2>9, <2>10, Outside
  <2>12. r.pc \notin {"open", "write", "rename"} BY <1>1
  <2>13. now' \in {now, now + 1} BY <1>1
  <2>14. \A v \in Windows \ {w} : temp'[v] = temp[v] BY <1>1
  <2> HIDE DEF r, n
  <2> QED BY <1>1, <1>2, <2>4, <2>7, <2>8, <2>11, <2>12, <2>13, <2>14, AwareStep DEF r
<1> QED BY <1>7, <1>8

LEMMA CrashAware ==
  ASSUME LInv, OInv, AInv, NEW p \in Pids, Crash(p)
  PROVE  AInv' /\ (Spares => Loud)
<1> DEFINE o == NewWindow(NoName)  d == [o EXCEPT !.pc = "dead"]
<1>1. /\ fs' = fs /\ temp' = temp /\ now' = now /\ Past' = Past
      /\ win' = [w \in Windows |-> IF world.pid[w] = p THEN d ELSE win[w]]
  BY DEF Crash, disk, Past
<1>2. o \in WindowType /\ o.time = 0 BY NewFits DEF WinOK, NewWindow
<1> HIDE DEF o
<1>3. d.pc = "dead" /\ d.time = 0 BY <1>2 DEF WindowType
<1> HIDE DEF d
<1>4. now \in Nat BY DEF LInv, TInv, DiskOK, Times
<1>5. WindowAware(d, fs, now, Past)
  BY <1>3, <1>4 DEF WindowAware, Dated, Active, Current, Claims, Unseen, Looked, Aware, Locking, Saving
<1>6. \A w \in Windows : win'[w] = d \/ win'[w] = win[w] BY <1>1
<1>7. \A w \in Windows : WindowAware(win'[w], fs, now, Past) BY <1>5, <1>6 DEF AInv, WindowsAware
<1>8. FilesTimed' BY <1>1 DEF AInv, FilesTimed, Timely
<1>9. WindowsAware'
  BY <1>1, <1>7 DEF WindowsAware, WindowAware, Dated, Current, Claims, Unseen, Looked, Aware,
                    Active, Subject, JustSaved, Holds, Pending
<1>10. TempsTimed'
  <2>1. ASSUME NEW w \in Windows, temp[w].text # NoText, NEW v \in Windows \ {w} PROVE win'[v].time # temp[w].time
    <3>1. Timely(temp[w], now) /\ OwnTime(w) BY DEF AInv, TempsTimed
    <3> QED BY <1>3, <1>6, <2>1, <3>1 DEF Timely, OwnTime
  <2> QED BY <1>1, <2>1 DEF AInv, TempsTimed, Timely, OwnTime
<1>11. Loud BY <1>1 DEF Loud, Silent
<1> QED BY <1>8, <1>9, <1>10, <1>11 DEF AInv

LEMMA AwareInit ==
  ASSUME Init
  PROVE  AInv
<1>1. now = 1 BY DEF Init
<1>2. ASSUME NEW n \in Names PROVE Timely(fs[n], now)
  <2>1. fs[n] = [text |-> 1, time |-> 1, linked |-> n \in world.linked] \/ fs[n] = Absent BY DEF Init
  <2> QED BY <1>1, <2>1, AbsentIs DEF Timely
<1>3. ASSUME NEW w \in Windows PROVE Timely(temp[w], now) /\ OwnTime(w)
  <2>1. temp[w] = Absent BY DEF Init
  <2> QED BY <1>1, <2>1, AbsentIs DEF Timely, OwnTime
<1>4. ASSUME NEW w \in Windows PROVE WindowAware(win[w], fs, now, Past)
  <2> DEFINE o == win[w]
  <2>1. o = NewWindow(world.opens[w]) BY DEF Init
  <2>2. o.pc = "unopened" /\ o.time = 0 BY <2>1 DEF NewWindow
  <2> HIDE DEF o
  <2>3. WindowAware(o, fs, now, Past)
    BY <1>1, <2>2 DEF WindowAware, Dated, Active, Current, Claims, Unseen, Looked, Aware, Locking, Saving
  <2> QED BY <2>3 DEF o
<1> QED BY <1>2, <1>3, <1>4 DEF AInv, FilesTimed, TempsTimed, WindowsAware

\* Every step keeps the invariant, and destroys no text in silence.
LEMMA AwareNext ==
  ASSUME LInv, OInv, AInv, Heeded, [Next]_vars
  PROVE  AInv' /\ Loud
<1>1. Spares BY OwnNext, ClockIs
<1>2. ASSUME NEW w \in Windows, Step(w) PROVE AInv' /\ (Spares => Loud)
  BY <1>2, OpenAware, LoadAware, TypeAware, LockAware, UnlockAware, CommandsAware, AskSaveAware,
     AskNameAware, AskOverAware, StatAware, AskLinksAware, AskTimeAware, MakeTempAware, OpenToWriteAware,
     WritesAware, BackupAware, RenameAware, ReloadAware, SettleAware, CleanAware
     DEF Step
<1>3. CASE UNCHANGED vars
  <2>1. AInv'
    BY <1>3 DEF vars, disk, AInv, FilesTimed, TempsTimed, WindowsAware, WindowAware, Dated, Current, Claims,
                Unseen, Looked, Aware, Active, Subject, JustSaved, Holds, Pending, Timely, OwnTime, Past
  <2>2. Loud BY <1>3 DEF vars, disk, Loud, Silent
  <2> QED BY <2>1, <2>2
<1> QED BY <1>1, <1>2, <1>3, CrashAware DEF Next

\* No text that another session saved is overwritten unasked, in any save mode, with any
\* number of windows and processes and whatever fails, in circumstances in which the time of
\* a file tells who wrote it last (edit_save_file's comparison of st_mtime, with the lock).
THEOREM NoneOverwrittenUnasked == Spec /\ Heedful(world) => NoSilentOverwrite
<1> DEFINE Asked == \A n \in Names \ (bold \union missed) : ~Silent(n)
           JInv == Heeded /\ OInv /\ AInv
<1>1. Init /\ Heedful(world) => JInv BY OwnInit, AwareInit DEF Heeded
<1>2. LInv /\ JInv /\ [Next]_vars => JInv'
  <2> SUFFICES ASSUME LInv, JInv, [Next]_vars PROVE JInv' OBVIOUS
  <2>1. Heeded' BY WorldStays DEF Heeded, Heedful, Careful, Own
  <2> QED BY <2>1, ClockIs, OwnNext, AwareNext
<1>3. LInv /\ JInv /\ [Next]_vars => [Asked]_vars
  <2> SUFFICES ASSUME LInv, JInv, [Next]_vars PROVE Asked OBVIOUS
  <2> QED BY AwareNext DEF Loud
<1> QED BY <1>1, <1>2, <1>3, InvariantHolds, PTL DEF Spec, NoSilentOverwrite
=============================================================================
