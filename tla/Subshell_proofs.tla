-------------------------- MODULE Subshell_proofs --------------------------
(***************************************************************************)
(* Theorems about Subshell: the types in every world; and, where a prompt   *)
(* belongs to the line before it (Prompt below: the user does not type      *)
(* ahead, and a cd of MC's is given the time it needs), that MC and the     *)
(* shell agree: a shell at rest waits with nothing unread, commands run in  *)
(* the directory of the panel, and no ^C of MC's meets what the user runs.  *)
(*                                                                         *)
(* The invariant LInv says, for each place MC can stand at, what the shell  *)
(* is about: Quiet, Busy, Prompting, Reported, Entering, Starting or dead.  *)
(***************************************************************************)
EXTENDS Subshell, SequenceTheorems, TLAPS

-----------------------------------------------------------------------------
(* Types *)

Messages == Lines \cup Keys

TControl ==
  /\ pc \in Labels /\ site \in Sites /\ result \in BOOLEAN
  /\ op \in {"start", "toggle", "execute", "panel", "declined"}
  /\ state \in States /\ ready \in BOOLEAN /\ use \in BOOLEAN /\ persistent \in BOOLEAN
  /\ alive \in BOOLEAN /\ stopped \in BOOLEAN /\ quit \in BOOLEAN

TShell ==
  /\ stopped => shell \in {"stopped", "dead"}
  /\ shell \in {"dead", "start", "read", "run", "pwd", "stop", "stopped"}
  /\ hooked \in BOOLEAN /\ intr \in BOOLEAN /\ exited \in BOOLEAN /\ chld \in BOOLEAN
  /\ command \in {"none", "sent", "started"}

TDirs ==
  /\ cwd \in Dirs \cup {NoDir, Garbled} /\ panel \in Dirs /\ newDir \in Dirs \cup {NoDir}
  /\ job \in Lines /\ shellCwd \in Dirs

TChannels ==
  tty \in Seq(Messages) /\ cwdPipe \in Seq(Dirs) /\ bufPipe \in Seq({"bufkey", "curkey"})

TLeft == left \in [ops : 0 .. MaxOps, lines : 0 .. MaxLines, deaths : 0 .. MaxDeaths]

TInv == world \in WorldType /\ TControl /\ TShell /\ TDirs /\ TChannels /\ TLeft

\* TInv is the type invariant without its tuples.
LEMMA TypesTold == TypeOK <=> TInv
  BY DEF TypeOK, TInv, TControl, TShell, TDirs, TChannels, TLeft, Messages

\* What is appended to the pty and taken from the front of it is a message.
LEMMA MessageTypes ==
  ASSUME NEW s \in Seq(Messages)
  PROVE  /\ \A m \in Messages : Append(s, m) \in Seq(Messages)
         /\ s # <<>> => Head(s) \in Messages /\ Tail(s) \in Seq(Messages)
         /\ <<>> \in Seq(Messages)
  OBVIOUS

\* A line for the shell is a message.
LEMMA LineTypes ==
  ASSUME NEW dir \in Dirs, NEW kind \in {"cd", "cmd", "user"}
  PROVE  [kind |-> kind, dir |-> dir] \in Messages
  BY DEF Messages, Lines

\* So is a key.
LEMMA KeyTypes ==
  ASSUME NEW kind \in {"precmd", "bufkey", "curkey"}
  PROVE  [kind |-> kind] \in Messages
  BY DEF Messages, Keys

\* What the pipes hold.
LEMMA PipeTypes ==
  ASSUME NEW S, NEW s \in Seq(S)
  PROVE  /\ \A x \in S : Append(s, x) \in Seq(S)
         /\ s # <<>> => Head(s) \in S
         /\ <<>> \in Seq(S)
  OBVIOUS

\* Every step keeps the types.
LEMMA TypeStep ==
  ASSUME TInv, [Next]_vars
  PROVE  TInv'
<1> USE HomeAssumption, BoundsAssumption
<1>a. /\ world \in WorldType /\ TControl /\ TShell /\ TDirs /\ TChannels /\ TLeft
  BY DEF TInv
<1>1. CASE UNCHANGED world /\ UNCHANGED <<control, flags, handled, places>> /\ ShellStarts
  <2>1. world' \in WorldType /\ TControl'
    BY <1>1, <1>a DEF ShellStarts, TControl, control, flags, handled, places, channels, Labels,
       Sites, States
  <2>2. TShell'
    BY <1>1, <1>a DEF ShellStarts, TControl, TShell, control, flags, handled, places, channels
  <2>3. TDirs'
    BY <1>1, <1>a, PipeTypes DEF ShellStarts, TDirs, TChannels, control, flags, handled, places,
       channels, Lines
  <2>4. TChannels'
    BY <1>1, <1>a, MessageTypes, PipeTypes, LineTypes, KeyTypes DEF ShellStarts, TDirs, TChannels,
       control, flags, handled, places, channels
  <2>5. TLeft'
    BY <1>1, <1>a DEF ShellStarts, TLeft, control, flags, handled, places, channels
  <2> QED
    BY <2>1, <2>2, <2>3, <2>4, <2>5 DEF TInv
<1>2. CASE UNCHANGED world /\ UNCHANGED <<control, flags, handled, places>> /\ ShellReads
  <2>1. world' \in WorldType /\ TControl'
    BY <1>2, <1>a DEF ShellReads, TControl, control, flags, handled, places, Labels, Sites, States
  <2>2. TShell'
    BY <1>2, <1>a DEF ShellReads, TControl, TShell, control, flags, handled, places
  <2>3. TDirs'
    BY <1>2, <1>a, PipeTypes DEF ShellReads, TDirs, TChannels, control, flags, handled, places,
       Lines
  <2>4. TChannels'
    BY <1>2, <1>a, MessageTypes, PipeTypes, LineTypes, KeyTypes DEF ShellReads, TDirs, TChannels,
       control, flags, handled, places
  <2>5. TLeft'
    BY <1>2, <1>a DEF ShellReads, TLeft, control, flags, handled, places
  <2> QED
    BY <2>1, <2>2, <2>3, <2>4, <2>5 DEF TInv
<1>3. CASE UNCHANGED world /\ UNCHANGED <<control, flags, handled, places>> /\ ShellFinishes
  <2>1. world' \in WorldType /\ TControl'
    BY <1>3, <1>a DEF ShellFinishes, TControl, control, flags, handled, places, channels, Labels,
       Sites, States
  <2>2. TShell'
    BY <1>3, <1>a DEF ShellFinishes, TControl, TShell, control, flags, handled, places, channels
  <2>3. TDirs'
    BY <1>3, <1>a, PipeTypes DEF ShellFinishes, TDirs, TChannels, control, flags, handled, places,
       channels, Lines
  <2>4. TChannels'
    BY <1>3, <1>a, MessageTypes, PipeTypes, LineTypes, KeyTypes DEF ShellFinishes, TDirs,
       TChannels, control, flags, handled, places, channels
  <2>5. TLeft'
    BY <1>3, <1>a DEF ShellFinishes, TLeft, control, flags, handled, places, channels
  <2> QED
    BY <2>1, <2>2, <2>3, <2>4, <2>5 DEF TInv
<1>4. CASE UNCHANGED world /\ UNCHANGED <<control, flags, handled, places>> /\ ShellReports
  <2>1. world' \in WorldType /\ TControl'
    BY <1>4, <1>a DEF ShellReports, TControl, control, flags, handled, places, Labels, Sites,
       States
  <2>2. TShell'
    BY <1>4, <1>a DEF ShellReports, TControl, TShell, control, flags, handled, places
  <2>3. TDirs'
    BY <1>4, <1>a, PipeTypes DEF ShellReports, TDirs, TChannels, control, flags, handled, places,
       Lines
  <2>4. TChannels'
    BY <1>4, <1>a, MessageTypes, PipeTypes, LineTypes, KeyTypes DEF ShellReports, TDirs,
       TChannels, control, flags, handled, places
  <2>5. TLeft'
    BY <1>4, <1>a DEF ShellReports, TLeft, control, flags, handled, places
  <2> QED
    BY <2>1, <2>2, <2>3, <2>4, <2>5 DEF TInv
<1>5. CASE UNCHANGED world /\ UNCHANGED <<control, flags, handled, places>> /\ ShellStops
  <2>1. world' \in WorldType /\ TControl'
    BY <1>5, <1>a DEF ShellStops, TControl, control, flags, handled, places, channels, Labels,
       Sites, States
  <2>2. TShell'
    BY <1>5, <1>a DEF ShellStops, TControl, TShell, control, flags, handled, places, channels
  <2>3. TDirs'
    BY <1>5, <1>a, PipeTypes DEF ShellStops, TDirs, TChannels, control, flags, handled, places,
       channels, Lines
  <2>4. TChannels'
    BY <1>5, <1>a, MessageTypes, PipeTypes, LineTypes, KeyTypes DEF ShellStops, TDirs, TChannels,
       control, flags, handled, places, channels
  <2>5. TLeft'
    BY <1>5, <1>a DEF ShellStops, TLeft, control, flags, handled, places, channels
  <2> QED
    BY <2>1, <2>2, <2>3, <2>4, <2>5 DEF TInv
<1>6. CASE UNCHANGED world /\ UNCHANGED <<control, flags, handled, places>> /\ ShellDies
  <2>1. world' \in WorldType /\ TControl'
    BY <1>6, <1>a DEF ShellDies, AtPrompt, TControl, control, flags, handled, places, channels,
       Labels, Sites, States
  <2>2. TShell'
    BY <1>6, <1>a DEF ShellDies, AtPrompt, TControl, TShell, control, flags, handled, places,
       channels
  <2>3. TDirs'
    BY <1>6, <1>a, PipeTypes DEF ShellDies, AtPrompt, TDirs, TChannels, control, flags, handled,
       places, channels, Lines
  <2>4. TChannels'
    BY <1>6, <1>a, MessageTypes, PipeTypes, LineTypes, KeyTypes DEF ShellDies, AtPrompt, TDirs,
       TChannels, control, flags, handled, places, channels
  <2>5. TLeft'
    BY <1>6, <1>a DEF ShellDies, AtPrompt, TLeft, control, flags, handled, places, channels
  <2> QED
    BY <2>1, <2>2, <2>3, <2>4, <2>5 DEF TInv
<1>7. CASE UNCHANGED world /\ SigChld
  <2>1. world' \in WorldType /\ TControl'
    <3>1. /\ world' \in WorldType /\ pc' \in Labels /\ site' \in Sites /\ state' \in States
          /\ op' \in {"start", "toggle", "execute", "panel", "declined"}
      BY <1>7, <1>a DEF SigChld, TControl, flags, places, process, channels, Labels, Sites, States
    <3>2. /\ result' \in BOOLEAN /\ ready' \in BOOLEAN /\ use' \in BOOLEAN /\ persistent' \in BOOLEAN
          /\ alive' \in BOOLEAN /\ stopped' \in BOOLEAN /\ quit' \in BOOLEAN
      BY <1>7, <1>a DEF SigChld, TShell, TControl, flags
    <3> QED
      BY <3>1, <3>2 DEF TControl
  <2>2. TShell'
    BY <1>7, <1>a DEF SigChld, TControl, TShell, flags, places, process, channels
  <2>3. TDirs'
    BY <1>7, <1>a, PipeTypes DEF SigChld, TDirs, TChannels, flags, places, process, channels,
       Lines
  <2>4. TChannels'
    BY <1>7, <1>a, MessageTypes, PipeTypes, LineTypes, KeyTypes DEF SigChld, TDirs, TChannels,
       flags, places, process, channels
  <2>5. TLeft'
    BY <1>7, <1>a DEF SigChld, TLeft, flags, places, process, channels
  <2> QED
    BY <2>1, <2>2, <2>3, <2>4, <2>5 DEF TInv
<1>8. CASE UNCHANGED world /\ FeedChecks
  <2>1. world' \in WorldType /\ TControl'
    <3>1. /\ world' \in WorldType /\ pc' \in Labels /\ site' \in Sites /\ state' \in States
          /\ op' \in {"start", "toggle", "execute", "panel", "declined"}
      BY <1>8, <1>a DEF FeedChecks, Goto, TControl, flags, handled, places, process, channels,
         Labels, Sites, States
    <3>2. /\ result' \in BOOLEAN /\ ready' \in BOOLEAN /\ use' \in BOOLEAN /\ persistent' \in BOOLEAN
          /\ alive' \in BOOLEAN /\ stopped' \in BOOLEAN /\ quit' \in BOOLEAN
      BY <1>8, <1>a DEF FeedChecks, Goto, TShell, TControl, flags, handled
    <3> QED
      BY <3>1, <3>2 DEF TControl
  <2>2. TShell'
    BY <1>8, <1>a DEF FeedChecks, Goto, TControl, TShell, flags, handled, places, process,
       channels
  <2>3. TDirs'
    BY <1>8, <1>a, PipeTypes DEF FeedChecks, Goto, TDirs, TChannels, flags, handled, places,
       process, channels, Lines
  <2>4. TChannels'
    BY <1>8, <1>a, MessageTypes, PipeTypes, LineTypes, KeyTypes DEF FeedChecks, Goto, TDirs,
       TChannels, flags, handled, places, process, channels
  <2>5. TLeft'
    BY <1>8, <1>a DEF FeedChecks, Goto, TLeft, flags, handled, places, process, channels
  <2> QED
    BY <2>1, <2>2, <2>3, <2>4, <2>5 DEF TInv
<1>9. CASE UNCHANGED world /\ FeedEnters
  <2>1. world' \in WorldType /\ TControl'
    BY <1>9, <1>a DEF FeedEnters, Goto, TControl, flags, handled, places, process, channels,
       Labels, Sites, States
  <2>2. TShell'
    BY <1>9, <1>a DEF FeedEnters, Goto, TControl, TShell, flags, handled, places, process,
       channels
  <2>3. TDirs'
    BY <1>9, <1>a, PipeTypes DEF FeedEnters, Goto, TDirs, TChannels, flags, handled, places,
       process, channels, Lines
  <2>4. TChannels'
    BY <1>9, <1>a, MessageTypes, PipeTypes, LineTypes, KeyTypes DEF FeedEnters, Goto, TDirs,
       TChannels, flags, handled, places, process, channels
  <2>5. TLeft'
    BY <1>9, <1>a DEF FeedEnters, Goto, TLeft, flags, handled, places, process, channels
  <2> QED
    BY <2>1, <2>2, <2>3, <2>4, <2>5 DEF TInv
<1>10. CASE UNCHANGED world /\ FeedReadsCwd
  <2>1. world' \in WorldType /\ TControl'
    BY <1>10, <1>a DEF FeedReadsCwd, Goto, ReadCwd, TControl, flags, handled, process, Labels,
       Sites, States
  <2>2. TShell'
    BY <1>10, <1>a DEF FeedReadsCwd, Goto, ReadCwd, TControl, TShell, flags, handled, process
  <2>3. TDirs'
    BY <1>10, <1>a, PipeTypes DEF FeedReadsCwd, Goto, ReadCwd, TDirs, TChannels, flags, handled,
       process, Lines
  <2>4. TChannels'
    BY <1>10, <1>a, MessageTypes, PipeTypes, LineTypes, KeyTypes DEF FeedReadsCwd, Goto, ReadCwd,
       TDirs, TChannels, flags, handled, process
  <2>5. TLeft'
    BY <1>10, <1>a DEF FeedReadsCwd, Goto, ReadCwd, TLeft, flags, handled, process
  <2> QED
    BY <2>1, <2>2, <2>3, <2>4, <2>5 DEF TInv
<1>11. CASE UNCHANGED world /\ FeedTimesOut
  <2>1. world' \in WorldType /\ TControl'
    <3>1. /\ world' \in WorldType /\ pc' \in Labels /\ site' \in Sites /\ state' \in States
          /\ op' \in {"start", "toggle", "execute", "panel", "declined"}
      BY <1>11, <1>a DEF FeedTimesOut, Return, TControl, flags, handled, places, process,
         channels, Labels, Sites, States
    <3>2. /\ result' \in BOOLEAN /\ ready' \in BOOLEAN /\ use' \in BOOLEAN /\ persistent' \in BOOLEAN
          /\ alive' \in BOOLEAN /\ stopped' \in BOOLEAN /\ quit' \in BOOLEAN
      BY <1>11, <1>a DEF FeedTimesOut, Return, TShell, TControl, flags, handled
    <3> QED
      BY <3>1, <3>2 DEF TControl
  <2>2. TShell'
    BY <1>11, <1>a DEF FeedTimesOut, Return, Patient, Silent, TControl, TShell, flags, handled,
       places, process, channels
  <2>3. TDirs'
    BY <1>11, <1>a, PipeTypes DEF FeedTimesOut, Return, Patient, Silent, TDirs, TChannels, flags,
       handled, places, process, channels, Lines
  <2>4. TChannels'
    BY <1>11, <1>a, MessageTypes, PipeTypes, LineTypes, KeyTypes DEF FeedTimesOut, Return,
       Patient, Silent, TDirs, TChannels, flags, handled, places, process, channels
  <2>5. TLeft'
    BY <1>11, <1>a DEF FeedTimesOut, Return, Patient, Silent, TLeft, flags, handled, places,
       process, channels
  <2> QED
    BY <2>1, <2>2, <2>3, <2>4, <2>5 DEF TInv
<1>12. CASE UNCHANGED world /\ Synchronize
  <2>1. world' \in WorldType /\ TControl'
    <3>1. /\ world' \in WorldType /\ pc' \in Labels /\ site' \in Sites /\ state' \in States
          /\ op' \in {"start", "toggle", "execute", "panel", "declined"}
      BY <1>12, <1>a DEF Synchronize, Goto, ClearedFlag, TControl, places, Labels, Sites, States
    <3>2. /\ result' \in BOOLEAN /\ ready' \in BOOLEAN /\ use' \in BOOLEAN /\ persistent' \in BOOLEAN
          /\ alive' \in BOOLEAN /\ stopped' \in BOOLEAN /\ quit' \in BOOLEAN
      BY <1>12, <1>a DEF Synchronize, Goto, ClearedFlag, TShell, TControl
    <3> QED
      BY <3>1, <3>2 DEF TControl
  <2>2. TShell'
    BY <1>12, <1>a DEF Synchronize, Goto, ClearedFlag, Continue, StoppedOrDead, TControl, TShell,
       places
  <2>3. TDirs'
    BY <1>12, <1>a, PipeTypes DEF Synchronize, Goto, ClearedFlag, Continue, StoppedOrDead, TDirs,
       TChannels, places, Lines
  <2>4. TChannels'
    BY <1>12, <1>a, MessageTypes, PipeTypes, LineTypes, KeyTypes DEF Synchronize, Goto,
       ClearedFlag, Continue, StoppedOrDead, TDirs, TChannels, places
  <2>5. TLeft'
    BY <1>12, <1>a DEF Synchronize, Goto, ClearedFlag, Continue, StoppedOrDead, TLeft, places
  <2> QED
    BY <2>1, <2>2, <2>3, <2>4, <2>5 DEF TInv
<1>13. CASE UNCHANGED world /\ AskBuffer
  <2>1. world' \in WorldType /\ TControl'
    BY <1>13, <1>a DEF AskBuffer, Goto, Send, TControl, flags, handled, places, process, Labels,
       Sites, States
  <2>2. TShell'
    BY <1>13, <1>a DEF AskBuffer, Goto, Send, TControl, TShell, flags, handled, places, process
  <2>3. TDirs'
    BY <1>13, <1>a, PipeTypes DEF AskBuffer, Goto, Send, TDirs, TChannels, flags, handled, places,
       process, Lines
  <2>4. TChannels'
    BY <1>13, <1>a, MessageTypes, PipeTypes, LineTypes, KeyTypes DEF AskBuffer, Goto, Send, TDirs,
       TChannels, flags, handled, places, process
  <2>5. TLeft'
    BY <1>13, <1>a DEF AskBuffer, Goto, Send, TLeft, flags, handled, places, process
  <2> QED
    BY <2>1, <2>2, <2>3, <2>4, <2>5 DEF TInv
<1>14. CASE UNCHANGED world /\ AskCursor
  <2>1. world' \in WorldType /\ TControl'
    BY <1>14, <1>a DEF AskCursor, Goto, Send, TControl, flags, handled, places, process, Labels,
       Sites, States
  <2>2. TShell'
    BY <1>14, <1>a DEF AskCursor, Goto, Send, TControl, TShell, flags, handled, places, process
  <2>3. TDirs'
    BY <1>14, <1>a, PipeTypes DEF AskCursor, Goto, Send, TDirs, TChannels, flags, handled, places,
       process, Lines
  <2>4. TChannels'
    BY <1>14, <1>a, MessageTypes, PipeTypes, LineTypes, KeyTypes DEF AskCursor, Goto, Send, TDirs,
       TChannels, flags, handled, places, process
  <2>5. TLeft'
    BY <1>14, <1>a DEF AskCursor, Goto, Send, TLeft, flags, handled, places, process
  <2> QED
    BY <2>1, <2>2, <2>3, <2>4, <2>5 DEF TInv
<1>15. CASE UNCHANGED world /\ BufferTaken
  <2>1. world' \in WorldType /\ TControl'
    BY <1>15, <1>a DEF BufferTaken, BufferRead, TControl, flags, handled, places, process, Labels,
       Sites, States
  <2>2. TShell'
    BY <1>15, <1>a DEF BufferTaken, BufferRead, TControl, TShell, flags, handled, places, process
  <2>3. TDirs'
    BY <1>15, <1>a, PipeTypes DEF BufferTaken, BufferRead, TDirs, TChannels, flags, handled,
       places, process, Lines
  <2>4. TChannels'
    BY <1>15, <1>a, MessageTypes, PipeTypes, LineTypes, KeyTypes DEF BufferTaken, BufferRead,
       TDirs, TChannels, flags, handled, places, process
  <2>5. TLeft'
    BY <1>15, <1>a DEF BufferTaken, BufferRead, TLeft, flags, handled, places, process
  <2> QED
    BY <2>1, <2>2, <2>3, <2>4, <2>5 DEF TInv
<1>16. CASE UNCHANGED world /\ BufferRepaired
  <2>1. world' \in WorldType /\ TControl'
    BY <1>16, <1>a DEF BufferRepaired, BufferRead, Interrupt, Feed, TControl, handled, places,
       Labels, Sites, States
  <2>2. TShell'
    BY <1>16, <1>a DEF BufferRepaired, BufferRead, Interrupt, Feed, TControl, TShell, handled,
       places
  <2>3. TDirs'
    BY <1>16, <1>a, PipeTypes DEF BufferRepaired, BufferRead, Interrupt, Feed, TDirs, TChannels,
       handled, places, Lines
  <2>4. TChannels'
    BY <1>16, <1>a, MessageTypes, PipeTypes, LineTypes, KeyTypes DEF BufferRepaired, BufferRead,
       Interrupt, Feed, TDirs, TChannels, handled, places
  <2>5. TLeft'
    BY <1>16, <1>a DEF BufferRepaired, BufferRead, Interrupt, Feed, TLeft, handled, places
  <2> QED
    BY <2>1, <2>2, <2>3, <2>4, <2>5 DEF TInv
<1>17. CASE UNCHANGED world /\ GiveUpBuffer
  <2>1. world' \in WorldType /\ TControl'
    BY <1>17, <1>a DEF GiveUpBuffer, BufferRead, TControl, handled, places, process, channels,
       Labels, Sites, States
  <2>2. TShell'
    BY <1>17, <1>a DEF GiveUpBuffer, BufferRead, TControl, TShell, handled, places, process,
       channels
  <2>3. TDirs'
    BY <1>17, <1>a, PipeTypes DEF GiveUpBuffer, BufferRead, TDirs, TChannels, handled, places,
       process, channels, Lines
  <2>4. TChannels'
    BY <1>17, <1>a, MessageTypes, PipeTypes, LineTypes, KeyTypes DEF GiveUpBuffer, BufferRead,
       TDirs, TChannels, handled, places, process, channels
  <2>5. TLeft'
    BY <1>17, <1>a DEF GiveUpBuffer, BufferRead, TLeft, handled, places, process, channels
  <2> QED
    BY <2>1, <2>2, <2>3, <2>4, <2>5 DEF TInv
<1>18. CASE UNCHANGED world /\ RepairFed
  <2>1. world' \in WorldType /\ TControl'
    BY <1>18, <1>a DEF RepairFed, Goto, TControl, flags, handled, places, process, channels,
       Labels, Sites, States
  <2>2. TShell'
    BY <1>18, <1>a DEF RepairFed, Goto, TControl, TShell, flags, handled, places, process,
       channels
  <2>3. TDirs'
    BY <1>18, <1>a, PipeTypes DEF RepairFed, Goto, TDirs, TChannels, flags, handled, places,
       process, channels, Lines
  <2>4. TChannels'
    BY <1>18, <1>a, MessageTypes, PipeTypes, LineTypes, KeyTypes DEF RepairFed, Goto, TDirs,
       TChannels, flags, handled, places, process, channels
  <2>5. TLeft'
    BY <1>18, <1>a DEF RepairFed, Goto, TLeft, flags, handled, places, process, channels
  <2> QED
    BY <2>1, <2>2, <2>3, <2>4, <2>5 DEF TInv
<1>19. ASSUME NEW ok \in BOOLEAN, UNCHANGED world, BufferTested(ok) PROVE TInv'
  <2>1. world' \in WorldType /\ TControl'
    BY <1>19, <1>a DEF BufferTested, Goto, BufferRead, TControl, handled, places, process, Labels,
       Sites, States
  <2>2. TShell'
    BY <1>19, <1>a DEF BufferTested, Goto, BufferRead, TControl, TShell, handled, places, process
  <2>3. TDirs'
    BY <1>19, <1>a, PipeTypes DEF BufferTested, Goto, BufferRead, TDirs, TChannels, handled,
       places, process, Lines
  <2>4. TChannels'
    BY <1>19, <1>a, MessageTypes, PipeTypes, LineTypes, KeyTypes DEF BufferTested, Goto,
       BufferRead, TDirs, TChannels, handled, places, process
  <2>5. TLeft'
    BY <1>19, <1>a DEF BufferTested, Goto, BufferRead, TLeft, handled, places, process
  <2> QED
    BY <2>1, <2>2, <2>3, <2>4, <2>5 DEF TInv
<1>20. CASE UNCHANGED world /\ InitSubshell
  <2>1. world' \in WorldType /\ TControl'
    BY <1>20, <1>a DEF InitSubshell, Feed, Send, TControl, places, Labels, Sites, States
  <2>2. TShell'
    BY <1>20, <1>a DEF InitSubshell, Feed, Send, TControl, TShell, places
  <2>3. TDirs'
    BY <1>20, <1>a, PipeTypes DEF InitSubshell, Feed, Send, TDirs, TChannels, places, Lines
  <2>4. TChannels'
    BY <1>20, <1>a, MessageTypes, PipeTypes, LineTypes, KeyTypes DEF InitSubshell, Feed, Send,
       TDirs, TChannels, places
  <2>5. TLeft'
    BY <1>20, <1>a DEF InitSubshell, Feed, Send, TLeft, places
  <2> QED
    BY <2>1, <2>2, <2>3, <2>4, <2>5 DEF TInv
<1>21. CASE UNCHANGED world /\ InitFed
  <2>1. world' \in WorldType /\ TControl'
    BY <1>21, <1>a DEF InitFed, Goto, TControl, handled, places, process, channels, Labels, Sites,
       States
  <2>2. TShell'
    BY <1>21, <1>a DEF InitFed, Goto, TControl, TShell, handled, places, process, channels
  <2>3. TDirs'
    BY <1>21, <1>a, PipeTypes DEF InitFed, Goto, TDirs, TChannels, handled, places, process,
       channels, Lines
  <2>4. TChannels'
    BY <1>21, <1>a, MessageTypes, PipeTypes, LineTypes, KeyTypes DEF InitFed, Goto, TDirs,
       TChannels, handled, places, process, channels
  <2>5. TLeft'
    BY <1>21, <1>a DEF InitFed, Goto, TLeft, handled, places, process, channels
  <2> QED
    BY <2>1, <2>2, <2>3, <2>4, <2>5 DEF TInv
<1>22. CASE UNCHANGED world /\ Inited
  <2>1. world' \in WorldType /\ TControl'
    BY <1>22, <1>a DEF Inited, Goto, TControl, flags, handled, places, process, channels, Labels,
       Sites, States
  <2>2. TShell'
    BY <1>22, <1>a DEF Inited, Goto, TControl, TShell, flags, handled, places, process, channels
  <2>3. TDirs'
    BY <1>22, <1>a, PipeTypes DEF Inited, Goto, TDirs, TChannels, flags, handled, places, process,
       channels, Lines
  <2>4. TChannels'
    BY <1>22, <1>a, MessageTypes, PipeTypes, LineTypes, KeyTypes DEF Inited, Goto, TDirs,
       TChannels, flags, handled, places, process, channels
  <2>5. TLeft'
    BY <1>22, <1>a DEF Inited, Goto, TLeft, flags, handled, places, process, channels
  <2> QED
    BY <2>1, <2>2, <2>3, <2>4, <2>5 DEF TInv
<1>23. CASE UNCHANGED world /\ ChdirSkipped
  <2>1. world' \in WorldType /\ TControl'
    BY <1>23, <1>a DEF ChdirSkipped, ChdirDone, Goto, NeedsChdir, TControl, flags, handled,
       places, process, channels, Labels, Sites, States
  <2>2. TShell'
    BY <1>23, <1>a DEF ChdirSkipped, ChdirDone, Goto, NeedsChdir, TControl, TShell, flags,
       handled, places, process, channels
  <2>3. TDirs'
    BY <1>23, <1>a, PipeTypes DEF ChdirSkipped, ChdirDone, Goto, NeedsChdir, TDirs, TChannels,
       flags, handled, places, process, channels, Lines
  <2>4. TChannels'
    BY <1>23, <1>a, MessageTypes, PipeTypes, LineTypes, KeyTypes DEF ChdirSkipped, ChdirDone,
       Goto, NeedsChdir, TDirs, TChannels, flags, handled, places, process, channels
  <2>5. TLeft'
    BY <1>23, <1>a DEF ChdirSkipped, ChdirDone, Goto, NeedsChdir, TLeft, flags, handled, places,
       process, channels
  <2> QED
    BY <2>1, <2>2, <2>3, <2>4, <2>5 DEF TInv
<1>24. CASE UNCHANGED world /\ ChdirStarts
  <2>1. world' \in WorldType /\ TControl'
    BY <1>24, <1>a DEF ChdirStarts, NeedsChdir, SendCd, Send, Feed, Interrupt, TControl, handled,
       places, process, Labels, Sites, States
  <2>2. TShell'
    BY <1>24, <1>a DEF ChdirStarts, NeedsChdir, SendCd, Send, Feed, Interrupt, TControl, TShell,
       handled, places, process
  <2>3. TDirs'
    BY <1>24, <1>a, PipeTypes DEF ChdirStarts, NeedsChdir, SendCd, Send, Feed, Interrupt, TDirs,
       TChannels, handled, places, process, Lines
  <2>4. TChannels'
    BY <1>24, <1>a, MessageTypes, PipeTypes, LineTypes, KeyTypes DEF ChdirStarts, NeedsChdir,
       SendCd, Send, Feed, Interrupt, TDirs, TChannels, handled, places, process
  <2>5. TLeft'
    BY <1>24, <1>a DEF ChdirStarts, NeedsChdir, SendCd, Send, Feed, Interrupt, TLeft, handled,
       places, process
  <2> QED
    BY <2>1, <2>2, <2>3, <2>4, <2>5 DEF TInv
<1>25. CASE UNCHANGED world /\ ChdirCleared
  <2>1. world' \in WorldType /\ TControl'
    BY <1>25, <1>a DEF ChdirCleared, SendCd, Send, Feed, TControl, handled, places, process,
       Labels, Sites, States
  <2>2. TShell'
    BY <1>25, <1>a DEF ChdirCleared, SendCd, Send, Feed, TControl, TShell, handled, places,
       process
  <2>3. TDirs'
    BY <1>25, <1>a, PipeTypes DEF ChdirCleared, SendCd, Send, Feed, TDirs, TChannels, handled,
       places, process, Lines
  <2>4. TChannels'
    BY <1>25, <1>a, MessageTypes, PipeTypes, LineTypes, KeyTypes DEF ChdirCleared, SendCd, Send,
       Feed, TDirs, TChannels, handled, places, process
  <2>5. TLeft'
    BY <1>25, <1>a DEF ChdirCleared, SendCd, Send, Feed, TLeft, handled, places, process
  <2> QED
    BY <2>1, <2>2, <2>3, <2>4, <2>5 DEF TInv
<1>26. CASE UNCHANGED world /\ ChdirFed
  <2>1. world' \in WorldType /\ TControl'
    BY <1>26, <1>a DEF ChdirFed, ChdirDone, Goto, TControl, handled, places, process, channels,
       Labels, Sites, States
  <2>2. TShell'
    BY <1>26, <1>a DEF ChdirFed, ChdirDone, Goto, TControl, TShell, handled, places, process,
       channels
  <2>3. TDirs'
    BY <1>26, <1>a, PipeTypes DEF ChdirFed, ChdirDone, Goto, TDirs, TChannels, handled, places,
       process, channels, Lines
  <2>4. TChannels'
    BY <1>26, <1>a, MessageTypes, PipeTypes, LineTypes, KeyTypes DEF ChdirFed, ChdirDone, Goto,
       TDirs, TChannels, handled, places, process, channels
  <2>5. TLeft'
    BY <1>26, <1>a DEF ChdirFed, ChdirDone, Goto, TLeft, handled, places, process, channels
  <2> QED
    BY <2>1, <2>2, <2>3, <2>4, <2>5 DEF TInv
<1>27. CASE UNCHANGED world /\ InvokeToggle
  <2>1. world' \in WorldType /\ TControl'
    BY <1>27, <1>a DEF InvokeToggle, Feed, TControl, handled, places, process, channels, Labels,
       Sites, States
  <2>2. TShell'
    BY <1>27, <1>a DEF InvokeToggle, Feed, TControl, TShell, handled, places, process, channels
  <2>3. TDirs'
    BY <1>27, <1>a, PipeTypes DEF InvokeToggle, Feed, TDirs, TChannels, handled, places, process,
       channels, Lines
  <2>4. TChannels'
    BY <1>27, <1>a, MessageTypes, PipeTypes, LineTypes, KeyTypes DEF InvokeToggle, Feed, TDirs,
       TChannels, handled, places, process, channels
  <2>5. TLeft'
    BY <1>27, <1>a DEF InvokeToggle, Feed, TLeft, handled, places, process, channels
  <2> QED
    BY <2>1, <2>2, <2>3, <2>4, <2>5 DEF TInv
<1>28. CASE UNCHANGED world /\ InvokePersistent
  <2>1. world' \in WorldType /\ TControl'
    BY <1>28, <1>a DEF InvokePersistent, Goto, ReadCwd, TControl, flags, handled, places, process,
       channels, Labels, Sites, States
  <2>2. TShell'
    BY <1>28, <1>a DEF InvokePersistent, Goto, ReadCwd, TControl, TShell, flags, handled, places,
       process, channels
  <2>3. TDirs'
    BY <1>28, <1>a, PipeTypes DEF InvokePersistent, Goto, ReadCwd, TDirs, TChannels, flags,
       handled, places, process, channels, Lines
  <2>4. TChannels'
    BY <1>28, <1>a, MessageTypes, PipeTypes, LineTypes, KeyTypes DEF InvokePersistent, Goto,
       ReadCwd, TDirs, TChannels, flags, handled, places, process, channels
  <2>5. TLeft'
    BY <1>28, <1>a DEF InvokePersistent, Goto, ReadCwd, TLeft, flags, handled, places, process,
       channels
  <2> QED
    BY <2>1, <2>2, <2>3, <2>4, <2>5 DEF TInv
<1>29. CASE UNCHANGED world /\ InvokeInterrupt
  <2>1. world' \in WorldType /\ TControl'
    BY <1>29, <1>a DEF InvokeInterrupt, Interrupt, Feed, TControl, handled, places, Labels, Sites,
       States
  <2>2. TShell'
    BY <1>29, <1>a DEF InvokeInterrupt, Interrupt, Feed, TControl, TShell, handled, places
  <2>3. TDirs'
    BY <1>29, <1>a, PipeTypes DEF InvokeInterrupt, Interrupt, Feed, TDirs, TChannels, handled,
       places, Lines
  <2>4. TChannels'
    BY <1>29, <1>a, MessageTypes, PipeTypes, LineTypes, KeyTypes DEF InvokeInterrupt, Interrupt,
       Feed, TDirs, TChannels, handled, places
  <2>5. TLeft'
    BY <1>29, <1>a DEF InvokeInterrupt, Interrupt, Feed, TLeft, handled, places
  <2> QED
    BY <2>1, <2>2, <2>3, <2>4, <2>5 DEF TInv
<1>30. CASE UNCHANGED world /\ WriteCommand
  <2>1. world' \in WorldType /\ TControl'
    BY <1>30, <1>a DEF WriteCommand, Send, Feed, TControl, handled, places, process, Labels,
       Sites, States
  <2>2. TShell'
    BY <1>30, <1>a DEF WriteCommand, Send, Feed, TControl, TShell, handled, places, process
  <2>3. TDirs'
    BY <1>30, <1>a, PipeTypes DEF WriteCommand, Send, Feed, TDirs, TChannels, handled, places,
       process, Lines
  <2>4. TChannels'
    BY <1>30, <1>a, MessageTypes, PipeTypes, LineTypes, KeyTypes DEF WriteCommand, Send, Feed,
       TDirs, TChannels, handled, places, process
  <2>5. TLeft'
    BY <1>30, <1>a DEF WriteCommand, Send, Feed, TLeft, handled, places, process
  <2> QED
    BY <2>1, <2>2, <2>3, <2>4, <2>5 DEF TInv
<1>31. CASE UNCHANGED world /\ RunFed
  <2>1. world' \in WorldType /\ TControl'
    BY <1>31, <1>a DEF RunFed, Goto, TControl, flags, handled, process, channels, Labels, Sites,
       States
  <2>2. TShell'
    BY <1>31, <1>a DEF RunFed, Goto, TControl, TShell, flags, handled, process, channels
  <2>3. TDirs'
    BY <1>31, <1>a, PipeTypes DEF RunFed, Goto, TDirs, TChannels, flags, handled, process,
       channels, Lines
  <2>4. TChannels'
    BY <1>31, <1>a, MessageTypes, PipeTypes, LineTypes, KeyTypes DEF RunFed, Goto, TDirs,
       TChannels, flags, handled, process, channels
  <2>5. TLeft'
    BY <1>31, <1>a DEF RunFed, Goto, TLeft, flags, handled, process, channels
  <2> QED
    BY <2>1, <2>2, <2>3, <2>4, <2>5 DEF TInv
<1>32. CASE UNCHANGED world /\ Restart
  <2>1. world' \in WorldType /\ TControl'
    BY <1>32, <1>a DEF Restart, Goto, TControl, flags, handled, places, process, channels, Labels,
       Sites, States
  <2>2. TShell'
    BY <1>32, <1>a DEF Restart, Goto, TControl, TShell, flags, handled, places, process, channels
  <2>3. TDirs'
    BY <1>32, <1>a, PipeTypes DEF Restart, Goto, TDirs, TChannels, flags, handled, places,
       process, channels, Lines
  <2>4. TChannels'
    BY <1>32, <1>a, MessageTypes, PipeTypes, LineTypes, KeyTypes DEF Restart, Goto, TDirs,
       TChannels, flags, handled, places, process, channels
  <2>5. TLeft'
    BY <1>32, <1>a DEF Restart, Goto, TLeft, flags, handled, places, process, channels
  <2> QED
    BY <2>1, <2>2, <2>3, <2>4, <2>5 DEF TInv
<1>33. CASE UNCHANGED world /\ QuitAsked
  <2>1. world' \in WorldType /\ TControl'
    <3>1. /\ world' \in WorldType /\ pc' \in Labels /\ site' \in Sites /\ state' \in States
          /\ op' \in {"start", "toggle", "execute", "panel", "declined"}
      BY <1>33, <1>a DEF QuitAsked, Goto, TControl, flags, places, process, channels, Labels,
         Sites, States
    <3>2. /\ result' \in BOOLEAN /\ ready' \in BOOLEAN /\ use' \in BOOLEAN /\ persistent' \in BOOLEAN
          /\ alive' \in BOOLEAN /\ stopped' \in BOOLEAN /\ quit' \in BOOLEAN
      BY <1>33, <1>a DEF QuitAsked, Goto, TShell, TControl, flags
    <3> QED
      BY <3>1, <3>2 DEF TControl
  <2>2. TShell'
    BY <1>33, <1>a DEF QuitAsked, Goto, TControl, TShell, flags, places, process, channels
  <2>3. TDirs'
    BY <1>33, <1>a, PipeTypes DEF QuitAsked, Goto, TDirs, TChannels, flags, places, process,
       channels, Lines
  <2>4. TChannels'
    BY <1>33, <1>a, MessageTypes, PipeTypes, LineTypes, KeyTypes DEF QuitAsked, Goto, TDirs,
       TChannels, flags, places, process, channels
  <2>5. TLeft'
    BY <1>33, <1>a DEF QuitAsked, Goto, TLeft, flags, places, process, channels
  <2> QED
    BY <2>1, <2>2, <2>3, <2>4, <2>5 DEF TInv
<1>34. CASE UNCHANGED world /\ Adopt
  <2>1. world' \in WorldType /\ TControl'
    BY <1>34, <1>a DEF Adopt, Goto, TControl, flags, handled, places, process, channels, Labels,
       Sites, States
  <2>2. TShell'
    BY <1>34, <1>a DEF Adopt, Goto, TControl, TShell, flags, handled, places, process, channels
  <2>3. TDirs'
    BY <1>34, <1>a, PipeTypes DEF Adopt, Goto, TDirs, TChannels, flags, handled, places, process,
       channels, Lines
  <2>4. TChannels'
    BY <1>34, <1>a, MessageTypes, PipeTypes, LineTypes, KeyTypes DEF Adopt, Goto, TDirs,
       TChannels, flags, handled, places, process, channels
  <2>5. TLeft'
    BY <1>34, <1>a DEF Adopt, Goto, TLeft, flags, handled, places, process, channels
  <2> QED
    BY <2>1, <2>2, <2>3, <2>4, <2>5 DEF TInv
<1>35. CASE UNCHANGED world /\ Toggle
  <2>1. world' \in WorldType /\ TControl'
    BY <1>35, <1>a DEF Toggle, Call, Goto, TControl, flags, handled, places, process, channels,
       Labels, Sites, States
  <2>2. TShell'
    BY <1>35, <1>a DEF Toggle, Call, Goto, TControl, TShell, flags, handled, places, process,
       channels
  <2>3. TDirs'
    BY <1>35, <1>a, PipeTypes DEF Toggle, Call, Goto, TDirs, TChannels, flags, handled, places,
       process, channels, Lines
  <2>4. TChannels'
    BY <1>35, <1>a, MessageTypes, PipeTypes, LineTypes, KeyTypes DEF Toggle, Call, Goto, TDirs,
       TChannels, flags, handled, places, process, channels
  <2>5. TLeft'
    BY <1>35, <1>a DEF Toggle, Call, Goto, TLeft, flags, handled, places, process, channels
  <2> QED
    BY <2>1, <2>2, <2>3, <2>4, <2>5 DEF TInv
<1>36. CASE UNCHANGED world /\ Execute
  <2>1. world' \in WorldType /\ TControl'
    BY <1>36, <1>a DEF Execute, Call, Goto, ShellIsFree, TControl, flags, handled, places,
       process, channels, Labels, Sites, States
  <2>2. TShell'
    BY <1>36, <1>a DEF Execute, Call, Goto, ShellIsFree, TControl, TShell, flags, handled, places,
       process, channels
  <2>3. TDirs'
    BY <1>36, <1>a, PipeTypes DEF Execute, Call, Goto, ShellIsFree, TDirs, TChannels, flags,
       handled, places, process, channels, Lines
  <2>4. TChannels'
    BY <1>36, <1>a, MessageTypes, PipeTypes, LineTypes, KeyTypes DEF Execute, Call, Goto,
       ShellIsFree, TDirs, TChannels, flags, handled, places, process, channels
  <2>5. TLeft'
    BY <1>36, <1>a DEF Execute, Call, Goto, ShellIsFree, TLeft, flags, handled, places, process,
       channels
  <2> QED
    BY <2>1, <2>2, <2>3, <2>4, <2>5 DEF TInv
<1>37. CASE UNCHANGED world /\ ChangeDir
  <2>1. world' \in WorldType /\ TControl'
    BY <1>37, <1>a DEF ChangeDir, Call, Goto, TControl, flags, handled, process, channels, Labels,
       Sites, States
  <2>2. TShell'
    BY <1>37, <1>a DEF ChangeDir, Call, Goto, TControl, TShell, flags, handled, process, channels
  <2>3. TDirs'
    BY <1>37, <1>a, PipeTypes DEF ChangeDir, Call, Goto, TDirs, TChannels, flags, handled,
       process, channels, Lines
  <2>4. TChannels'
    BY <1>37, <1>a, MessageTypes, PipeTypes, LineTypes, KeyTypes DEF ChangeDir, Call, Goto, TDirs,
       TChannels, flags, handled, process, channels
  <2>5. TLeft'
    BY <1>37, <1>a DEF ChangeDir, Call, Goto, TLeft, flags, handled, process, channels
  <2> QED
    BY <2>1, <2>2, <2>3, <2>4, <2>5 DEF TInv
<1>38. CASE UNCHANGED world /\ FeedPassesLine
  <2>1. world' \in WorldType /\ TControl'
    BY <1>38, <1>a DEF FeedPassesLine, Send, Goto, Visible, AtPrompt, ReadyAfter, TControl,
       handled, places, process, Labels, Sites, States
  <2>2. TShell'
    BY <1>38, <1>a DEF FeedPassesLine, Send, Goto, Visible, AtPrompt, ReadyAfter, TControl,
       TShell, handled, places, process
  <2>3. TDirs'
    BY <1>38, <1>a, PipeTypes DEF FeedPassesLine, Send, Goto, Visible, AtPrompt, ReadyAfter,
       TDirs, TChannels, handled, places, process, Lines
  <2>4. TChannels'
    BY <1>38, <1>a, MessageTypes, PipeTypes, LineTypes, KeyTypes DEF FeedPassesLine, Send, Goto,
       Visible, AtPrompt, ReadyAfter, TDirs, TChannels, handled, places, process
  <2>5. TLeft'
    BY <1>38, <1>a DEF FeedPassesLine, Send, Goto, Visible, AtPrompt, ReadyAfter, TLeft, handled,
       places, process
  <2> QED
    BY <2>1, <2>2, <2>3, <2>4, <2>5 DEF TInv
<1>39. CASE UNCHANGED world /\ FeedSwitches
  <2>1. world' \in WorldType /\ TControl'
    BY <1>39, <1>a DEF FeedSwitches, Visible, Switched, Goto, Return, TControl, handled, places,
       process, channels, Labels, Sites, States
  <2>2. TShell'
    BY <1>39, <1>a DEF FeedSwitches, Visible, Switched, Goto, Return, TControl, TShell, handled,
       places, process, channels
  <2>3. TDirs'
    BY <1>39, <1>a, PipeTypes DEF FeedSwitches, Visible, Switched, Goto, Return, TDirs, TChannels,
       handled, places, process, channels, Lines
  <2>4. TChannels'
    BY <1>39, <1>a, MessageTypes, PipeTypes, LineTypes, KeyTypes DEF FeedSwitches, Visible,
       Switched, Goto, Return, TDirs, TChannels, handled, places, process, channels
  <2>5. TLeft'
    BY <1>39, <1>a DEF FeedSwitches, Visible, Switched, Goto, Return, TLeft, handled, places,
       process, channels
  <2> QED
    BY <2>1, <2>2, <2>3, <2>4, <2>5 DEF TInv
<1>40. CASE UNCHANGED vars
  BY <1>40 DEF TInv, TControl, TShell, TDirs, TChannels, TLeft, vars, control, flags, handled,
     places, process, channels
<1> QED
  BY <1>1, <1>2, <1>3, <1>4, <1>5, <1>6, <1>7, <1>8, <1>9, <1>10, <1>11, <1>12, <1>13, <1>14,
     <1>15, <1>16, <1>17, <1>18, <1>19, <1>20, <1>21, <1>22, <1>23, <1>24, <1>25, <1>26, <1>27,
     <1>28, <1>29, <1>30, <1>31, <1>32, <1>33, <1>34, <1>35, <1>36, <1>37, <1>38, <1>39, <1>40 DEF
     Next, McStep, FeedStep, BufferStep, CallStep, Process, ShellStep, User, vars
-----------------------------------------------------------------------------
(* What is on its way to the shell *)

IsKey(m) == m.kind \in {"bufkey", "curkey"}

KeysOnly(s) == \A i \in 1 .. Len(s) : IsKey(s[i])
\* Keys, and then m.
EndsIn(s, m) == s # <<>> /\ s[Len(s)] = m /\ \A i \in 1 .. Len(s) - 1 : IsKey(s[i])
NoPrecmd(s) == \A i \in 1 .. Len(s) : s[i].kind # "precmd"
\* Anything, and then the only precmd.
PrecmdLast(s) ==
  s # <<>> /\ s[Len(s)].kind = "precmd" /\ \A i \in 1 .. Len(s) - 1 : s[i].kind # "precmd"
\* No line stands behind a precmd.
Harmless(s) == \A i, j \in 1 .. Len(s) : i < j /\ s[i].kind = "precmd" => IsKey(s[j])
HasCmd(s) == \E i \in 1 .. Len(s) : s[i].kind = "cmd"

-----------------------------------------------------------------------------
(* What the shell is about *)

Dead == shell = "dead"

\* It waits for MC, and MC knows where.
Quiet == shell = "read" /\ cwdPipe = <<>> /\ KeysOnly(tty) /\ cwd = shellCwd

\* A prompt is on its way: it reports its directory once and stops.
Prompting ==
  /\ KeysOnly(tty)
  /\ \/ shell = "pwd" /\ cwdPipe = <<>>
     \/ shell \in {"stop", "stopped"} /\ cwdPipe = <<shellCwd>>

\* MC has read the report and waits for the shell to stop.
Reported ==
  /\ KeysOnly(tty) /\ shell \in {"stop", "stopped"}
  /\ cwdPipe = <<>> /\ cwd = shellCwd

\* The last thing it has to read is this line; or it runs a line, the last.
Told(line) == shell = "read" /\ cwdPipe = <<>> /\ EndsIn(tty, line)
Running == shell = "run" /\ cwdPipe = <<>> /\ KeysOnly(tty)

\* It has one line to run, runs it, or is about to prompt.
Busy ==
  \/ \E line \in Lines : Told(line) /\ (line.kind = "cmd" => shellCwd = line.dir)
  \/ Running
  \/ Prompting

\* It is about to enter the directory of the panel.
Entering ==
  \/ Told([kind |-> "cd", dir |-> panel])
  \/ Running /\ job = [kind |-> "cd", dir |-> panel]
  \/ Prompting /\ shellCwd = panel

\* A new shell, which may find lines meant for the old one before the precmd.
Starting ==
  ~hooked /\ shell \in {"start", "read", "run"} /\ cwdPipe = <<>> /\ PrecmdLast(tty)

Up(what) == Dead \/ (hooked /\ what)

-----------------------------------------------------------------------------
(* The invariant *)

\* The circumstances in which a prompt belongs to the line before it: the user
\* waits for it, and so does MC when it changes the directory.
Prompt(wd) == ~wd.ahead /\ wd.slow \cap {"chdir_int", "chdir"} = {}

\* What MC knows of the life of the shell, from SIGCHLD alone.
Signals ==
  /\ ~alive => Dead /\ ~chld
  /\ Dead => ~stopped /\ (alive => chld)
  /\ chld => shell \in {"stopped", "dead"}
  /\ shell = "stopped" => chld \/ stopped
  /\ stopped => ~chld
  /\ quit => ~alive
  /\ pc = "init" => ~alive /\ ~quit
  /\ pc = "quit" => quit
  /\ intr => shell \in {"pwd", "stop", "stopped"}

Feeding == pc \in {"feed", "enter", "select"}
Asking == pc \in {"ask_buffer", "wait_buffer", "wait_cursor"}
AtRest == \/ pc \in {"idle", "exit", "chdir", "restart", "quit", "adopt", "invoke"}
          \/ (Feeding \/ pc = "fed") /\ site = "run"

\* MC is not in a call, or it is in the shell at the user's request.
Resting ==
  AtRest =>
    /\ state = "inactive" => Up(Quiet)
    /\ state = "active" => Up(Quiet \/ Busy) /\ (ready => Up(Quiet \/ (persistent /\ Prompting)))
    /\ state = "running" => Up(Busy) /\ ~ready /\ ~intr
    /\ Feeding => state # "inactive"

\* A command is going to be run in the directory of the panel.
Executing ==
  /\ pc = "chdir" /\ op = "execute" => state = "inactive"
  /\ pc = "chdir" \/ ((Feeding \/ pc \in {"fed", "sync"}) /\ site \in {"chdir", "chdir_int"}) =>
       op \in {"panel", "toggle", "execute"}
  /\ pc = "invoke" => op \in {"toggle", "execute"}
  /\ pc = "invoke" /\ op = "execute" =>
       (Dead \/ (state = "inactive" /\ cwd = panel)) /\ state # "running"
  /\ pc = "command" => Up(Quiet /\ cwd = panel)

\* feed_subshell waits for the prompt after the line it was called for.
Waiting ==
  Feeding =>
    /\ site # "run" => state = "running"
    /\ site \in {"init", "chdir_int", "chdir", "intr"} => ~intr
    /\ site = "init" => Dead \/ Starting \/ (hooked /\ Prompting)
    /\ site \in {"chdir_int", "repair"} => Up(Prompting)
    /\ site = "intr" => Up(Prompting /\ shellCwd = panel)
    /\ site = "chdir" => Up(Entering)
    /\ site # "clear"

\* synchronize waits for the stop that belongs to the report.
Stopping ==
  pc = "sync" =>
    /\ hooked /\ Reported /\ site # "clear"
    /\ site \in {"chdir", "intr"} => shellCwd = panel
    /\ state = "active" => site = "run"
    /\ state # "inactive"
    /\ state = "running" /\ site # "repair" => ~intr

\* feed_subshell has succeeded when the shell waits.
Fed ==
  pc = "fed" =>
    /\ site = "init" =>
         IF result THEN Up(Quiet) /\ state = "inactive"
                   ELSE Dead \/ Starting \/ (hooked /\ Prompting)
    /\ site \in {"chdir_int", "chdir", "intr"} =>
         IF result THEN Up(Quiet) /\ state = "inactive" ELSE Dead
    /\ site \in {"chdir", "intr"} => Up(cwd = panel)
    /\ site = "repair" => Up(Quiet \/ Prompting) /\ (result => state = "inactive")
    /\ site # "clear"

\* The command line is asked for while the shell waits, or is still on its way
\* there after a ^C; then it does not answer.
Asked ==
  Asking \/ pc = "inited" =>
    /\ state = "inactive"
    /\ pc = "inited" \/ site = "init" => Up(Quiet)
    /\ Asking => site \in {"init", "run", "repair"} /\ Up(Quiet \/ Prompting)
    /\ pc \in {"wait_buffer", "wait_cursor"} => Up(Quiet \/ bufPipe = <<>>)

\* What has been sent and not started is still to be read; a dead shell has
\* reported nothing; only a ^C from read_command_line_buffer may be pending.
Kept ==
  /\ command = "sent" => state = "running" /\ HasCmd(tty) /\ site \in {"run", "init"}
  /\ Dead => cwdPipe = <<>>
  /\ intr => persistent
  /\ Asking /\ site # "init" => persistent
  /\ (Feeding \/ pc \in {"sync", "fed"}) /\ site = "repair" => persistent

\* The precmd is read in init_subshell or never.
Installed ==
  \/ NoPrecmd(tty)
  \/ (Feeding \/ (pc = "fed" /\ ~result)) /\ site = "init"

Places == /\ Resting /\ Executing /\ Waiting /\ Stopping /\ Fed /\ Asked /\ Kept /\ Installed

\* Without a subshell MC stays away from the shell, and no line is left behind
\* the precmd that the shell may still find.
Unused ==
  /\ pc \in {"ask_buffer", "wait_buffer", "wait_cursor", "inited", "restart", "quit", "exit",
             "idle", "adopt", "chdir"}
  /\ Asking => site = "init"
  /\ pc = "chdir" => op = "panel"
  /\ Dead \/ (IF hooked THEN KeysOnly(tty) ELSE Harmless(tty))

LInv == Signals /\ (IF use THEN Places ELSE Unused)
-----------------------------------------------------------------------------
(* Lemmas about what is on its way to the shell *)

\* What Tail and Append do, index by index.
LEMMA FrontOfTty ==
  ASSUME NEW s \in Seq(Messages), s # <<>>
  PROVE  /\ Len(s) \in Nat /\ Len(s) > 0 /\ Head(s) = s[1]
         /\ Tail(s) \in Seq(Messages) /\ Len(Tail(s)) = Len(s) - 1
         /\ \A i \in 1 .. Len(s) - 1 : Tail(s)[i] = s[i + 1]
         /\ Len(s) = 1 <=> Tail(s) = <<>>
  <1>1. /\ Len(s) \in Nat /\ Len(s) > 0 /\ Head(s) = s[1]
        /\ Tail(s) \in Seq(Messages) /\ Len(Tail(s)) = Len(s) - 1
        /\ \A i \in 1 .. Len(s) - 1 : Tail(s)[i] = s[i + 1]
    OBVIOUS
  <1>2. Len(Tail(s)) = 0 <=> Tail(s) = <<>>
    BY <1>1, EmptySeq
  <1> QED
    BY <1>1, <1>2

\* The same of Append.
LEMMA EndOfTty ==
  ASSUME NEW s \in Seq(Messages), NEW m \in Messages
  PROVE  /\ Len(s) \in Nat /\ Append(s, m) \in Seq(Messages) /\ Append(s, m) # <<>>
         /\ Len(Append(s, m)) = Len(s) + 1 /\ Append(s, m)[Len(s) + 1] = m
         /\ \A i \in 1 .. Len(s) : Append(s, m)[i] = s[i]
  OBVIOUS

\* An empty pty holds nothing of interest.
LEMMA NothingSent == KeysOnly(<<>>) /\ NoPrecmd(<<>>) /\ Harmless(<<>>) /\ ~HasCmd(<<>>)
  BY DEF KeysOnly, NoPrecmd, Harmless, HasCmd

\* NoLine of the model, as an operator on the pty.
LEMMA NoLineIsKeys == NoLine <=> KeysOnly(tty)
  BY DEF NoLine, KeysOnly, IsKey

\* Keys are no lines.
LEMMA OnlyKeys ==
  ASSUME NEW s \in Seq(Messages), KeysOnly(s)
  PROVE  /\ NoPrecmd(s) /\ Harmless(s) /\ ~HasCmd(s)
         /\ s # <<>> => IsKey(Head(s)) /\ KeysOnly(Tail(s))
  BY SMTT(20) DEF KeysOnly, NoPrecmd, Harmless, HasCmd, IsKey

\* A key changes nothing that matters.
LEMMA KeyAppended ==
  ASSUME NEW s \in Seq(Messages), NEW m \in Messages, IsKey(m)
  PROVE  /\ KeysOnly(s) => KeysOnly(Append(s, m))
         /\ NoPrecmd(s) => NoPrecmd(Append(s, m))
         /\ Harmless(s) => Harmless(Append(s, m))
  <1>1. KeysOnly(s) => KeysOnly(Append(s, m))
    BY SMTT(20) DEF KeysOnly
  <1>2. NoPrecmd(s) => NoPrecmd(Append(s, m))
    BY SMTT(20) DEF NoPrecmd, IsKey
  <1>3. Harmless(s) => Harmless(Append(s, m))
    BY SMTT(20) DEF Harmless
  <1> QED
    BY <1>1, <1>2, <1>3

\* A line behind keys is the last.
LEMMA LineAppended ==
  ASSUME NEW s \in Seq(Messages), NEW m \in Messages, m.kind # "precmd"
  PROVE  /\ KeysOnly(s) => EndsIn(Append(s, m), m)
         /\ NoPrecmd(s) => NoPrecmd(Append(s, m))
         /\ m.kind = "cmd" => HasCmd(Append(s, m))
  <1>1. KeysOnly(s) => EndsIn(Append(s, m), m)
    <2>1. Len(Append(s, m)) - 1 = Len(s)
      BY EndOfTty
    <2> QED
      BY <2>1, EndOfTty DEF KeysOnly, EndsIn
  <1>2. NoPrecmd(s) => NoPrecmd(Append(s, m))
    BY SMTT(20) DEF NoPrecmd
  <1>3. Len(Append(s, m)) = Len(s) + 1 /\ Append(s, m)[Len(s) + 1] = m /\ Len(s) \in Nat
    OBVIOUS
  <1>4. m.kind = "cmd" => HasCmd(Append(s, m))
    BY <1>3 DEF HasCmd
  <1> QED
    BY <1>1, <1>2, <1>4

\* The precmd is written last.
LEMMA PrecmdAppended ==
  ASSUME NEW s \in Seq(Messages), NEW m \in Messages, m.kind = "precmd", NoPrecmd(s)
  PROVE  PrecmdLast(Append(s, m))
  BY SMTT(20) DEF NoPrecmd, PrecmdLast

\* A command that has been sent stays until it is read.
LEMMA CmdStays ==
  ASSUME NEW s \in Seq(Messages), HasCmd(s)
  PROVE  /\ s # <<>>
         /\ \A m \in Messages : HasCmd(Append(s, m))
         /\ Head(s).kind # "cmd" => HasCmd(Tail(s))
  <1>1. PICK i \in 1 .. Len(s) : s[i].kind = "cmd"
    BY DEF HasCmd
  <1>2. s # <<>>
    BY <1>1
  <1>3. ASSUME NEW m \in Messages PROVE HasCmd(Append(s, m))
    <2>1. Append(s, m)[i] = s[i] /\ i \in 1 .. Len(Append(s, m))
      BY <1>1
    <2> QED
      BY <1>1, <2>1 DEF HasCmd
  <1>4. ASSUME Head(s).kind # "cmd" PROVE HasCmd(Tail(s))
    <2>1. i # 1 /\ Tail(s)[i - 1] = s[i] /\ i - 1 \in 1 .. Len(Tail(s))
      BY <1>1, <1>4
    <2> QED
      BY <1>1, <2>1 DEF HasCmd
  <1> QED
    BY <1>2, <1>3, <1>4

\* What is read of keys and a line.
LEMMA EndRead ==
  ASSUME NEW s \in Seq(Messages), NEW m \in Messages, EndsIn(s, m), ~IsKey(m)
  PROVE  /\ s # <<>>
         /\ \/ Head(s) = m /\ KeysOnly(Tail(s))
            \/ IsKey(Head(s)) /\ EndsIn(Tail(s), m)
  <1>1. s # <<>> /\ s[Len(s)] = m /\ Len(s) \in Nat /\ Len(s) > 0
    BY DEF EndsIn
  <1>2. CASE Len(s) = 1
    <2>1. Head(s) = m /\ Tail(s) = <<>>
      BY <1>1, <1>2, FrontOfTty
    <2> QED
      BY <1>1, <2>1, NothingSent
  <1>3. CASE Len(s) > 1
    <2>1. IsKey(Head(s))
      BY <1>3, FrontOfTty DEF EndsIn
    <2>2. Tail(s)[Len(Tail(s))] = m /\ Tail(s) # <<>>
      BY <1>1, <1>3, FrontOfTty
    <2>3. ASSUME NEW i \in 1 .. Len(Tail(s)) - 1 PROVE IsKey(Tail(s)[i])
      BY <1>3, FrontOfTty DEF EndsIn
    <2> QED
      BY <1>1, <2>1, <2>2, <2>3 DEF EndsIn
  <1> QED
    BY <1>1, <1>2, <1>3

\* What is read of a pty that ends in a precmd.
LEMMA PrecmdRead ==
  ASSUME NEW s \in Seq(Messages), PrecmdLast(s)
  PROVE  /\ s # <<>>
         /\ IF Head(s).kind = "precmd" THEN Tail(s) = <<>> ELSE PrecmdLast(Tail(s))
  <1>1. s # <<>> /\ s[Len(s)].kind = "precmd" /\ Len(s) \in Nat /\ Len(s) > 0
    BY DEF PrecmdLast
  <1>2. CASE Len(s) = 1
    BY <1>1, <1>2, FrontOfTty
  <1>3. CASE Len(s) > 1
    <2>1. Head(s).kind # "precmd"
      BY <1>3, FrontOfTty DEF PrecmdLast
    <2>2. Tail(s)[Len(Tail(s))].kind = "precmd" /\ Tail(s) # <<>>
      BY <1>1, <1>3, FrontOfTty
    <2>3. ASSUME NEW i \in 1 .. Len(Tail(s)) - 1 PROVE Tail(s)[i].kind # "precmd"
      BY <1>3, FrontOfTty DEF PrecmdLast
    <2> QED
      BY <1>1, <2>1, <2>2, <2>3 DEF PrecmdLast
  <1> QED
    BY <1>1, <1>2, <1>3

\* No line stands behind a precmd that is the last.
LEMMA PrecmdIsHarmless ==
  ASSUME NEW s \in Seq(Messages), PrecmdLast(s)
  PROVE  Harmless(s)
  BY SMTT(20) DEF PrecmdLast, Harmless

\* What is read of a pty with no line behind a precmd.
LEMMA HarmlessRead ==
  ASSUME NEW s \in Seq(Messages), Harmless(s), s # <<>>
  PROVE  /\ Harmless(Tail(s))
         /\ Head(s).kind = "precmd" => KeysOnly(Tail(s))
  <1>1. Harmless(Tail(s))
    BY SMTT(20) DEF Harmless
  <1>2. Head(s).kind = "precmd" => KeysOnly(Tail(s))
    BY SMTT(20) DEF Harmless, KeysOnly
  <1> QED
    BY <1>1, <1>2

\* No precmd comes out where none is.
LEMMA NoPrecmdRead ==
  ASSUME NEW s \in Seq(Messages), NoPrecmd(s), s # <<>>
  PROVE  Head(s).kind # "precmd" /\ NoPrecmd(Tail(s))
  BY SMTT(20) DEF NoPrecmd

-----------------------------------------------------------------------------
(* What the shell does by itself *)

ShellMove == UNCHANGED <<control, flags, handled, places>> /\ (ShellStep \/ ShellDies)

\* Lines, keys and the precmd differ.
LEMMA LinesAreNoKeys ==
  ASSUME NEW line \in Lines
  PROVE  line \in Messages /\ ~IsKey(line) /\ line.kind # "precmd"
  BY DEF Lines, Messages, IsKey

\* What the shell takes from the pty.
LEMMA NextRead ==
  ASSUME TInv, ShellReads
  PROVE  /\ shell = "read" /\ tty # <<>> /\ tty \in Seq(Messages) /\ tty' = Tail(tty)
         /\ UNCHANGED <<shellCwd, intr, exited, chld, cwdPipe, left>>
         /\ \/ /\ Head(tty).kind = "precmd" /\ hooked' = TRUE /\ shell' = "pwd"
               /\ UNCHANGED <<job, command>>
            \/ IsKey(Head(tty)) /\ UNCHANGED <<job, hooked, shell, command>>
            \/ /\ Head(tty) \in Lines /\ shell' = "run" /\ job' = Head(tty) /\ UNCHANGED hooked
               /\ command' = IF Head(tty).kind = "cmd" THEN "started" ELSE command
  BY DEF ShellReads, TInv, TChannels, IsKey

\* A shell that waits goes on waiting, or dies.
LEMMA QuietGoesOn ==
  ASSUME TInv, ShellMove, hooked, Quiet
  PROVE  Dead' \/ (hooked' /\ Quiet')
  <1> USE DEF Quiet, Dead, ShellMove, places
  <1>1. CASE ShellReads
    <2>1. tty \in Seq(Messages) /\ tty # <<>> /\ NoPrecmd(tty) /\ IsKey(Head(tty)) /\ KeysOnly(Tail(tty))
      BY <1>1, NextRead, OnlyKeys
    <2>2. Head(tty) \notin Lines /\ Head(tty).kind # "precmd"
      BY <2>1, LinesAreNoKeys DEF IsKey
    <2> QED
      BY <1>1, <2>1, <2>2, NextRead
  <1>2. CASE ShellDies
    BY <1>2 DEF ShellDies
  <1>3. ASSUME ShellStarts \/ ShellFinishes \/ ShellReports \/ ShellStops PROVE FALSE
    BY <1>3 DEF ShellStarts, ShellFinishes, ShellReports, ShellStops
  <1> QED
    BY <1>1, <1>2, <1>3 DEF ShellStep

\* A prompt goes its way.
LEMMA PromptingGoesOn ==
  ASSUME TInv, ShellMove, hooked, Prompting
  PROVE  hooked' /\ Prompting' /\ shellCwd' = shellCwd
  <1> USE DEF Prompting, ShellMove
  <1>1. CASE ShellReports
    BY <1>1 DEF ShellReports, TInv, TChannels, TDirs
  <1>2. CASE ShellStops
    BY <1>2 DEF ShellStops, channels
  <1>3. ASSUME ShellStarts \/ ShellReads \/ ShellFinishes \/ ShellDies PROVE FALSE
    BY <1>3 DEF ShellStarts, ShellReads, ShellFinishes, ShellDies, AtPrompt
  <1> QED
    BY <1>1, <1>2, <1>3 DEF ShellStep

\* After the report the shell can only stop.
LEMMA ReportedGoesOn ==
  ASSUME TInv, ShellMove, hooked, Reported
  PROVE  hooked' /\ Reported'
  <1> USE DEF Reported, ShellMove, places
  <1>1. CASE ShellStops
    BY <1>1 DEF ShellStops, channels
  <1>2. ASSUME ShellStarts \/ ShellReads \/ ShellFinishes \/ ShellReports \/ ShellDies PROVE FALSE
    BY <1>2 DEF ShellStarts, ShellReads, ShellFinishes, ShellReports, ShellDies, AtPrompt
  <1> QED
    BY <1>1, <1>2 DEF ShellStep

\* A line that has been sent is run.
LEMMA ToldGoesOn ==
  ASSUME TInv, ShellMove, hooked, NEW line \in Lines, Told(line)
  PROVE  /\ hooked' /\ shellCwd' = shellCwd
         /\ (shell' = "read" /\ cwdPipe' = <<>> /\ EndsIn(tty', line)) \/ (Running' /\ job' = line)
  <1> USE DEF Told, ShellMove
  <1>t. tty \in Seq(Messages) /\ line \in Messages /\ ~IsKey(line) /\ line.kind # "precmd"
    BY LinesAreNoKeys DEF TInv, TChannels
  <1>1. CASE ShellReads
    <2>1. CASE Head(tty) = line /\ KeysOnly(Tail(tty))
      BY <1>1, <1>t, <2>1, NextRead DEF Running
    <2>2. CASE IsKey(Head(tty)) /\ EndsIn(Tail(tty), line)
      <3>1. Head(tty) \notin Lines /\ Head(tty).kind # "precmd"
        BY <2>2, LinesAreNoKeys DEF IsKey
      <3> QED
        BY <1>1, <2>2, <3>1, NextRead
    <2> QED
      BY <1>t, <2>1, <2>2, EndRead
  <1>2. ~NoLine
    <2>1. Len(tty) \in 1 .. Len(tty) /\ tty[Len(tty)] = line
      BY <1>t, EmptySeq DEF EndsIn
    <2> QED
      BY <1>t, <2>1 DEF NoLine, IsKey
  <1>3. ASSUME ShellStarts \/ ShellFinishes \/ ShellReports \/ ShellStops \/ ShellDies PROVE FALSE
    BY <1>2, <1>3 DEF ShellStarts, ShellFinishes, ShellReports, ShellStops, ShellDies, AtPrompt
  <1> QED
    BY <1>1, <1>3 DEF ShellStep

\* What runs ends with a prompt, a cd in its directory, or with the shell.
LEMMA RunningGoesOn ==
  ASSUME TInv, ShellMove, hooked, Running
  PROVE  /\ Dead' \/ (hooked' /\ Prompting' /\ (job.kind = "cd" => shellCwd' = job.dir))
         /\ job.kind = "cd" => ~Dead'
  <1> USE DEF Running, ShellMove, Dead
  <1>1. CASE ShellFinishes
    BY <1>1 DEF ShellFinishes, channels, Prompting
  <1>2. CASE ShellDies
    BY <1>2 DEF ShellDies, AtPrompt
  <1>3. ASSUME ShellStarts \/ ShellReads \/ ShellReports \/ ShellStops PROVE FALSE
    BY <1>3 DEF ShellStarts, ShellReads, ShellReports, ShellStops
  <1> QED
    BY <1>1, <1>2, <1>3 DEF ShellStep

\* A new shell comes to its first prompt.
LEMMA StartingGoesOn ==
  ASSUME TInv, ShellMove, Starting
  PROVE  Dead' \/ Starting' \/ (hooked' /\ Prompting')
  <1> USE DEF Starting, ShellMove, Dead
  <1>t. tty \in Seq(Messages) /\ tty # <<>>
    BY DEF TInv, TChannels, PrecmdLast
  <1>1. CASE ShellReads
    <2>1. CASE Head(tty).kind = "precmd"
      <3>1. Tail(tty) = <<>> /\ Head(tty) \notin Lines /\ ~IsKey(Head(tty))
        BY <1>t, <2>1, PrecmdRead, LinesAreNoKeys DEF IsKey
      <3> QED
        BY <1>1, <3>1, NextRead, NothingSent DEF Prompting
    <2>2. CASE Head(tty).kind # "precmd"
      <3>1. PrecmdLast(Tail(tty))
        BY <1>t, <2>2, PrecmdRead
      <3> QED
        BY <1>1, <2>2, <3>1, NextRead
    <2> QED
      BY <2>1, <2>2
  <1>2. CASE ShellStarts
    BY <1>2 DEF ShellStarts, channels
  <1>3. CASE ShellFinishes
    BY <1>3 DEF ShellFinishes, channels
  <1>4. CASE ShellDies
    BY <1>4 DEF ShellDies
  <1>5. ASSUME ShellReports \/ ShellStops PROVE FALSE
    BY <1>5 DEF ShellReports, ShellStops
  <1> QED
    BY <1>1, <1>2, <1>3, <1>4, <1>5 DEF ShellStep

\* A dead shell does nothing, and leaves its lines in the pty.
LEMMA DeadStays ==
  ASSUME ShellMove, Dead
  PROVE  FALSE
  BY DEF ShellMove, ShellStep, ShellStarts, ShellReads, ShellFinishes, ShellReports, ShellStops,
     ShellDies, AtPrompt, Dead

\* What is said of the shell while MC waits stays true while the shell goes on.
LEMMA UpGoesOn ==
  ASSUME TInv, ShellMove
  PROVE  /\ ~Dead
         /\ Up(Quiet) => Up(Quiet)'
         /\ Up(Prompting) => hooked' /\ Prompting' /\ shellCwd' = shellCwd
         /\ Up(Busy) => Up(Busy)'
         /\ Up(Entering) => hooked' /\ Entering' /\ ~Dead'
         /\ hooked => hooked'
         /\ cwd' = cwd /\ panel' = panel
  <1> USE DEF Up
  <1>1. ~Dead
    BY DeadStays
  <1>2. Up(Quiet) => Up(Quiet)'
    BY <1>1, QuietGoesOn
  <1>3. Up(Prompting) => hooked' /\ Prompting' /\ shellCwd' = shellCwd
    BY <1>1, PromptingGoesOn
  <1>4. Up(Busy) => Up(Busy)'
    <2> SUFFICES ASSUME hooked, Busy PROVE Up(Busy)'
      BY <1>1
    <2>1. CASE Prompting
      BY <2>1, PromptingGoesOn DEF Busy
    <2>2. CASE Running
      BY <2>2, RunningGoesOn DEF Busy
    <2>3. CASE \E line \in Lines : Told(line) /\ (line.kind = "cmd" => shellCwd = line.dir)
      <3>1. PICK line \in Lines : Told(line) /\ (line.kind = "cmd" => shellCwd = line.dir)
        BY <2>3
      <3> QED
        BY <3>1, ToldGoesOn DEF Busy, Told
    <2> QED
      BY <2>1, <2>2, <2>3 DEF Busy
  <1>5. Up(Entering) => hooked' /\ Entering' /\ ~Dead'
    <2> SUFFICES ASSUME hooked, Entering PROVE hooked' /\ Entering' /\ ~Dead'
      BY <1>1
    <2> DEFINE cd == [kind |-> "cd", dir |-> panel]
    <2>1. cd \in Lines /\ panel' = panel /\ cd.kind = "cd" /\ cd.dir = panel
      BY DEF Lines, TInv, TDirs, ShellMove, places
    <2> HIDE DEF cd
    <2>a. Entering <=> Told(cd) \/ (Running /\ job = cd) \/ (Prompting /\ shellCwd = panel)
      BY DEF Entering, cd
    <2>b. Entering' <=> \/ shell' = "read" /\ cwdPipe' = <<>> /\ EndsIn(tty', cd)
                        \/ Running' /\ job' = cd
                        \/ Prompting' /\ shellCwd' = panel
      BY <2>1 DEF Entering, Told, cd
    <2>2. CASE Told(cd)
      BY <2>1, <2>b, <2>2, ToldGoesOn DEF Dead, Running
    <2>3. CASE Running /\ job = cd
      BY <2>1, <2>b, <2>3, RunningGoesOn
    <2>4. CASE Prompting /\ shellCwd = panel
      BY <2>b, <2>4, PromptingGoesOn DEF Dead, Prompting
    <2> QED
      BY <2>a, <2>2, <2>3, <2>4
  <1>6. hooked => hooked'
    BY DEF ShellMove, ShellStep, ShellStarts, ShellReads, ShellFinishes, ShellReports, ShellStops,
       ShellDies
  <1>7. cwd' = cwd /\ panel' = panel
    BY DEF ShellMove, places
  <1> QED
    BY <1>1, <1>2, <1>3, <1>4, <1>5, <1>6, <1>7

\* Wherever MC is, the shell is in one of these.
LEMMA Where ==
  ASSUME TInv, LInv, use
  PROVE  Dead \/ Starting \/ (hooked /\ (Quiet \/ Busy \/ Reported))
  <1> USE DEF Up, Feeding, Asking
  <1>0. pc \in Labels /\ site \in Sites /\ state \in States
    BY DEF TInv, TControl
  <1>1. Prompting => Busy
    BY DEF Busy
  <1>2. Entering => Busy
    <2>1. [kind |-> "cd", dir |-> panel] \in Lines /\ [kind |-> "cd", dir |-> panel].kind # "cmd"
      BY DEF Lines, TInv, TDirs
    <2> QED
      BY <2>1 DEF Busy, Entering
  <1>3. CASE pc = "init"
    BY <1>3 DEF LInv, Signals
  <1>4. CASE pc \in {"idle", "exit", "chdir", "restart", "quit", "adopt", "invoke"}
    BY <1>0, <1>1, <1>4 DEF LInv, Places, Resting, AtRest, States
  <1>5. CASE pc \in {"feed", "enter", "select"}
    <2>1. CASE site = "run"
      BY <1>0, <1>1, <1>5, <2>1 DEF LInv, Places, Resting, AtRest, States
    <2>2. CASE site # "run"
      BY <1>0, <1>1, <1>2, <1>5, <2>2 DEF LInv, Places, Waiting, Sites
    <2> QED
      BY <2>1, <2>2
  <1>6. CASE pc = "sync"
    BY <1>6 DEF LInv, Places, Stopping
  <1>7. CASE pc = "fed"
    <2>1. CASE site = "run"
      BY <1>0, <1>1, <1>7, <2>1 DEF LInv, Places, Resting, AtRest, States
    <2>2. CASE site # "run"
      BY <1>0, <1>1, <1>7, <2>2 DEF LInv, Places, Fed, Sites
    <2> QED
      BY <2>1, <2>2
  <1>8. CASE pc \in {"ask_buffer", "wait_buffer", "wait_cursor", "inited"}
    BY <1>1, <1>8 DEF LInv, Places, Asked
  <1>9. CASE pc = "command"
    BY <1>9 DEF LInv, Places, Executing
  <1> QED
    BY <1>0, <1>3, <1>4, <1>5, <1>6, <1>7, <1>8, <1>9 DEF Labels

\* The shell keeps the invariant.
LEMMA ShellKeeps ==
  ASSUME TInv, TInv', LInv, ShellMove
  PROVE  LInv'
  <1> USE DEF Feeding, Asking
  <1>0. /\ pc' = pc /\ site' = site /\ op' = op /\ result' = result /\ state' = state
        /\ ready' = ready /\ use' = use /\ persistent' = persistent /\ alive' = alive
        /\ stopped' = stopped /\ quit' = quit /\ cwd' = cwd /\ panel' = panel
        /\ tty \in Seq(Messages)
    BY DEF ShellMove, control, flags, handled, places, TInv, TChannels
  <1>1. Signals'
    BY <1>0 DEF LInv, Signals, ShellMove, ShellStep, ShellStarts, ShellReads, ShellFinishes,
       ShellReports, ShellStops, ShellDies, AtPrompt, Dead, TInv, TShell
  <1>u. ~Dead
    BY UpGoesOn
  <1>i. intr' = intr
    BY DEF ShellMove, ShellStep, ShellStarts, ShellReads, ShellFinishes, ShellReports, ShellStops,
       ShellDies
  <1>t. tty' = tty \/ (ShellReads /\ tty # <<>> /\ tty' = Tail(tty))
    BY DEF ShellMove, ShellStep, ShellStarts, ShellReads, ShellFinishes, ShellReports, ShellStops,
       ShellDies, channels
  <1>2. CASE use
    <2>a. Resting /\ Executing /\ Waiting /\ Stopping /\ Fed /\ Asked /\ Kept /\ Installed
      BY <1>2 DEF LInv, Places
    <2>1. Resting'
      BY <1>0, <1>i, <1>u, <2>a, UpGoesOn DEF Resting, AtRest, Up
    <2>2. Executing'
      BY <1>0, <1>u, <2>a, UpGoesOn DEF Executing, Up
    <2>3. Waiting'
      BY <1>0, <1>i, <1>u, <2>a, UpGoesOn, StartingGoesOn DEF Waiting, Up
    <2>4. Stopping'
      <3>1. ASSUME pc = "sync" PROVE hooked' /\ Reported' /\ shellCwd' = shellCwd
        BY <1>0, <2>a, <3>1, ReportedGoesOn DEF Stopping, Reported
      <3> QED
        BY <1>0, <1>i, <2>a, <3>1 DEF Stopping
    <2>5. Fed'
      BY <1>0, <1>u, <2>a, UpGoesOn, StartingGoesOn DEF Fed, Up
    <2>6. Asked'
      <3>1. shell # "read" => bufPipe' = bufPipe
        BY DEF ShellMove, ShellStep, ShellStarts, ShellReads, ShellFinishes, ShellReports,
           ShellStops, ShellDies, channels
      <3>2. ASSUME Asking, Quiet PROVE Up(Quiet)'
        BY <1>u, <2>a, <3>2, UpGoesOn DEF Asked, Up
      <3>3. ASSUME Asking, ~Quiet PROVE hooked' /\ Prompting' /\ bufPipe' = bufPipe
        BY <1>u, <2>a, <3>1, <3>3, UpGoesOn DEF Asked, Up, Prompting
      <3>4. ASSUME pc = "inited" PROVE Up(Quiet)'
        BY <2>a, <3>4, UpGoesOn DEF Asked
      <3> QED
        BY <1>0, <1>u, <2>a, <3>2, <3>3, <3>4 DEF Asked, Up
    <2>7. Kept'
      <3>1. command' = "sent" => command = "sent" /\ HasCmd(tty')
        <4>1. ASSUME command = "sent", ShellReads, command' = "sent" PROVE HasCmd(tty')
          <5>1. Head(tty).kind # "cmd"
            BY <4>1, NextRead DEF IsKey
          <5> QED
            BY <1>0, <2>a, <4>1, <5>1, CmdStays, NextRead DEF Kept
        <4>2. (command' = command /\ tty' = tty) \/ ShellReads
          BY DEF ShellMove, ShellStep, ShellStarts, ShellFinishes, ShellReports, ShellStops,
             ShellDies, channels
        <4>3. command' = "sent" => command = "sent"
          BY <4>2, NextRead
        <4> QED
          BY <2>a, <4>1, <4>2, <4>3 DEF Kept
      <3>2. Dead' => cwdPipe' = <<>>
        <4>1. Dead' => ShellDies
          BY <1>u DEF ShellMove, ShellStep, ShellStarts, ShellReads, ShellFinishes, ShellReports,
             ShellStops, Dead
        <4>2. ShellDies => cwdPipe' = cwdPipe /\ (AtPrompt \/ shell = "run")
          BY DEF ShellDies, channels
        <4>3. AtPrompt \/ shell = "run" => cwdPipe = <<>>
          BY <1>2, <1>u, Where DEF AtPrompt, Starting, Quiet, Busy, Told, Running, Prompting,
             Reported
        <4> QED
          BY <4>1, <4>2, <4>3
      <3> QED
        BY <1>0, <1>i, <2>a, <3>1, <3>2 DEF Kept
    <2>8. Installed'
      BY <1>0, <1>t, <2>a, NoPrecmdRead DEF Installed
    <2> QED
      BY <1>0, <1>1, <1>2, <2>1, <2>2, <2>3, <2>4, <2>5, <2>6, <2>7, <2>8 DEF LInv, Places
  <1>3. CASE ~use
    <2>1. (hooked' = hooked \/ ~hooked) /\ (hooked' = hooked \/ (ShellReads /\ Head(tty).kind = "precmd"))
      <3>1. hooked' = hooked \/ ShellReads
        BY DEF ShellMove, ShellStep, ShellStarts, ShellFinishes, ShellReports, ShellStops,
           ShellDies
      <3>2. CASE ShellReads
        BY <3>2, NextRead, UpGoesOn DEF TInv, TShell
      <3> QED
        BY <3>1, <3>2
    <2>a. Unused /\ (tty' = tty \/ (tty # <<>> /\ tty' = Tail(tty)))
      BY <1>3, <1>t DEF LInv
    <2>2. IF hooked' THEN KeysOnly(tty') ELSE Harmless(tty')
      <3>1. CASE hooked
        BY <1>0, <1>u, <2>a, <3>1, OnlyKeys, UpGoesOn DEF Unused
      <3>2. CASE ~hooked /\ ~hooked'
        BY <1>0, <1>u, <2>a, <3>2, HarmlessRead DEF Unused
      <3>3. CASE ~hooked /\ hooked'
        BY <1>0, <1>u, <2>1, <2>a, <3>3, HarmlessRead, NextRead DEF Unused
      <3> QED
        BY <3>1, <3>2, <3>3
    <2>3. Unused'
      BY <1>0, <1>u, <2>2, <2>a DEF Unused
    <2> QED
      BY <1>0, <1>1, <1>3, <2>3 DEF LInv
  <1> QED
    BY <1>2, <1>3

-----------------------------------------------------------------------------
(* What MC does *)

\* What is said of the shell depends on the shell and the channels only.
LEMMA Same ==
  ASSUME shell' = shell, hooked' = hooked, job' = job, shellCwd' = shellCwd,
         cwdPipe' = cwdPipe, tty' = tty, cwd' = cwd
  PROVE  /\ Dead' <=> Dead
         /\ Quiet' <=> Quiet
         /\ Prompting' <=> Prompting
         /\ Reported' <=> Reported
         /\ Busy' <=> Busy
         /\ Starting' <=> Starting
         /\ panel' = panel => (Entering' <=> Entering)
  BY DEF Dead, Quiet, Prompting, Reported, Busy, Told, Running, Starting, Entering

\* The cd that MC sends to a waiting shell is the last line.
LEMMA CdSent ==
  ASSUME TInv, Up(Quiet), NoPrecmd(tty), SendCd, UNCHANGED process, cwdPipe' = cwdPipe, panel' = panel
  PROVE  /\ Dead' <=> Dead
         /\ Dead \/ (hooked' /\ Entering')
         /\ NoPrecmd(tty')
  <1> DEFINE cd == [kind |-> "cd", dir |-> panel]
  <1>1. cd \in Messages /\ cd.kind = "cd" /\ tty \in Seq(Messages)
    BY LineTypes DEF TInv, TDirs, TChannels
  <1>2. tty' = Append(tty, cd)
    BY DEF SendCd, Send
  <1>3. (KeysOnly(tty) => EndsIn(tty', cd)) /\ NoPrecmd(tty')
    <2> HIDE DEF cd
    <2> QED
      BY <1>1, <1>2, LineAppended
  <1>4. Told(cd)' <=> shell' = "read" /\ cwdPipe' = <<>> /\ EndsIn(tty', cd)
    BY DEF Told
  <1>5. Entering' <=> Told(cd)' \/ (Running' /\ job' = cd) \/ (Prompting' /\ shellCwd' = panel)
    BY DEF Entering, Told
  <1> HIDE DEF cd
  <1> QED
    BY <1>3, <1>4, <1>5 DEF process, Dead, Up, Quiet

\* MC's steps keep what it knows of the life of the shell.
LEMMA SignalsKept ==
  ASSUME TInv, Signals, McStep \/ User
  PROVE  Signals'
<1> USE DEF Signals, Dead, TInv, TControl, TShell

<1>1. CASE SigChld
  BY <1>1 DEF SigChld, flags, process, channels
<1>2. CASE FeedChecks
  BY <1>2 DEF FeedChecks, Goto, flags, handled, process, channels
<1>3. CASE FeedEnters
  BY <1>3 DEF FeedEnters, Goto, flags, handled, process, channels
<1>4. CASE FeedReadsCwd
  BY <1>4 DEF FeedReadsCwd, Goto, ReadCwd, flags, handled, process
<1>5. CASE FeedTimesOut
  BY <1>5 DEF FeedTimesOut, Return, Patient, Silent, flags, handled, process, channels
<1>6. CASE Synchronize
  BY <1>6 DEF Synchronize, Goto, ClearedFlag, Continue, StoppedOrDead
<1>7. CASE AskBuffer
  BY <1>7 DEF AskBuffer, Goto, Send, flags, handled, process
<1>8. CASE AskCursor
  BY <1>8 DEF AskCursor, Goto, Send, flags, handled, process
<1>9. CASE BufferTaken
  BY <1>9 DEF BufferTaken, BufferRead, flags, handled, process
<1>10. CASE BufferRepaired
  BY <1>10 DEF BufferRepaired, BufferRead, Interrupt, Feed, handled
<1>11. CASE GiveUpBuffer
  BY <1>11 DEF GiveUpBuffer, BufferRead, handled, process, channels
<1>12. CASE RepairFed
  BY <1>12 DEF RepairFed, Goto, flags, handled, process, channels
<1>13. ASSUME NEW ok \in BOOLEAN, BufferTested(ok) PROVE Signals'
  BY <1>13 DEF BufferTested, Goto, BufferRead, handled, process
<1>14. CASE InitSubshell
  BY <1>14 DEF InitSubshell, Feed, Send
<1>15. CASE InitFed
  BY <1>15 DEF InitFed, Goto, handled, process, channels
<1>16. CASE Inited
  BY <1>16 DEF Inited, Goto, flags, handled, process, channels
<1>17. CASE ChdirSkipped
  BY <1>17 DEF ChdirSkipped, ChdirDone, Goto, NeedsChdir, flags, handled, process, channels
<1>18. CASE ChdirStarts
  BY <1>18 DEF ChdirStarts, NeedsChdir, SendCd, Send, Feed, Interrupt, handled, process
<1>19. CASE ChdirCleared
  BY <1>19 DEF ChdirCleared, SendCd, Send, Feed, handled, process
<1>20. CASE ChdirFed
  BY <1>20 DEF ChdirFed, ChdirDone, Goto, handled, process, channels
<1>21. CASE InvokeToggle
  BY <1>21 DEF InvokeToggle, Feed, handled, process, channels
<1>22. CASE InvokePersistent
  BY <1>22 DEF InvokePersistent, Goto, ReadCwd, flags, handled, process, channels
<1>23. CASE InvokeInterrupt
  BY <1>23 DEF InvokeInterrupt, Interrupt, Feed, handled
<1>24. CASE WriteCommand
  BY <1>24 DEF WriteCommand, Send, Feed, handled, process
<1>25. CASE RunFed
  BY <1>25 DEF RunFed, Goto, flags, handled, process, channels
<1>26. CASE Restart
  BY <1>26 DEF Restart, Goto, flags, handled, process, channels
<1>27. CASE QuitAsked
  BY <1>27 DEF QuitAsked, Goto, flags, process, channels
<1>28. CASE Adopt
  BY <1>28 DEF Adopt, Goto, flags, handled, process, channels
<1>29. CASE Toggle
  BY <1>29 DEF Toggle, Call, Goto, flags, handled, process, channels
<1>30. CASE Execute
  BY <1>30 DEF Execute, Call, Goto, ShellIsFree, flags, handled, process, channels
<1>31. CASE ChangeDir
  BY <1>31 DEF ChangeDir, Call, Goto, flags, handled, process, channels
<1>32. CASE FeedPassesLine
  BY <1>32 DEF FeedPassesLine, Send, Goto, Visible, AtPrompt, ReadyAfter, handled, process
<1>33. CASE FeedSwitches
  BY <1>33 DEF FeedSwitches, Visible, Switched, Goto, Return, handled, process, channels
<1> QED
  BY <1>1, <1>2, <1>3, <1>4, <1>5, <1>6, <1>7, <1>8, <1>9, <1>10, <1>11, <1>12, <1>13, <1>14,
     <1>15, <1>16, <1>17, <1>18, <1>19, <1>20, <1>21, <1>22, <1>23, <1>24, <1>25, <1>26, <1>27,
     <1>28, <1>29, <1>30, <1>31, <1>32, <1>33 DEF McStep, FeedStep, BufferStep, CallStep, User

\* MC's steps keep what it knows of the place the shell is at.
LEMMA PlacesKept ==
  ASSUME TInv, LInv, use, Prompt(world), McStep \/ User, use'
  PROVE  Places'
<1> USE DEF Feeding, Asking, AtRest, Up
<1>a. /\ TControl /\ TShell /\ Signals
      /\ Resting /\ Executing /\ Waiting /\ Stopping /\ Fed /\ Asked /\ Kept /\ Installed
  BY DEF TInv, LInv, Places

<1>1. CASE SigChld
  <2>s. /\ shell' = shell /\ hooked' = hooked /\ job' = job /\ shellCwd' = shellCwd
        /\ intr' = intr /\ cwdPipe' = cwdPipe /\ tty' = tty /\ cwd' = cwd
    BY <1>1 DEF SigChld, places, process, channels
  <2>1. Resting'
    BY <1>1, <1>a, <2>s, Same DEF SigChld, Resting, Executing, Waiting, Stopping, Fed, Asked,
       Kept, Installed, Prompt, Signals, TControl, States, flags, places, channels
  <2>2. Executing'
    BY <1>1, <1>a, <2>s, Same DEF SigChld, Resting, Executing, Waiting, Stopping, Fed, Asked,
       Kept, Installed, Prompt, Signals, TControl, States, flags, places, channels
  <2>3. Waiting'
    BY <1>1, <1>a, <2>s, Same DEF SigChld, Resting, Executing, Waiting, Stopping, Fed, Asked,
       Kept, Installed, Prompt, Signals, TControl, States, flags, places, channels
  <2>4. Stopping'
    BY <1>1, <1>a, <2>s, Same DEF SigChld, Resting, Executing, Waiting, Stopping, Fed, Asked,
       Kept, Installed, Prompt, Signals, TControl, States, flags, places, channels
  <2>5. Fed'
    BY <1>1, <1>a, <2>s, Same DEF SigChld, Resting, Executing, Waiting, Stopping, Fed, Asked,
       Kept, Installed, Prompt, Signals, TControl, States, flags, places, channels
  <2>6. Asked'
    BY <1>1, <1>a, <2>s, Same DEF SigChld, Resting, Executing, Waiting, Stopping, Fed, Asked,
       Kept, Installed, Prompt, Signals, TControl, States, flags, places, channels
  <2>7. Kept'
    BY <1>1, <1>a, <2>s, Same DEF SigChld, Resting, Executing, Waiting, Stopping, Fed, Asked,
       Kept, Installed, Prompt, Signals, TControl, States, flags, places, channels
  <2>8. Installed'
    BY <1>1, <1>a, <2>s, Same DEF SigChld, Resting, Executing, Waiting, Stopping, Fed, Asked,
       Kept, Installed, Prompt, Signals, TControl, States, flags, places, channels
  <2> QED
    BY <2>1, <2>2, <2>3, <2>4, <2>5, <2>6, <2>7, <2>8 DEF Places
<1>2. CASE FeedChecks
  <2>s. /\ shell' = shell /\ hooked' = hooked /\ job' = job /\ shellCwd' = shellCwd
        /\ intr' = intr /\ cwdPipe' = cwdPipe /\ tty' = tty /\ cwd' = cwd
    BY <1>2 DEF FeedChecks, places, process, channels
  <2>1. Resting'
    BY <1>2, <1>a, <2>s, Same DEF FeedChecks, Goto, Resting, Executing, Waiting, Stopping, Fed,
       Asked, Kept, Installed, Prompt, Signals, TControl, States, flags, handled, places, channels
  <2>2. Executing'
    BY <1>2, <1>a, <2>s, Same DEF FeedChecks, Goto, Resting, Executing, Waiting, Stopping, Fed,
       Asked, Kept, Installed, Prompt, Signals, TControl, States, flags, handled, places, channels
  <2>3. Waiting'
    BY <1>2, <1>a, <2>s, Same DEF FeedChecks, Goto, Resting, Executing, Waiting, Stopping, Fed,
       Asked, Kept, Installed, Prompt, Signals, TControl, States, flags, handled, places, channels
  <2>4. Stopping'
    BY <1>2, <1>a, <2>s, Same DEF FeedChecks, Goto, Resting, Executing, Waiting, Stopping, Fed,
       Asked, Kept, Installed, Prompt, Signals, TControl, States, flags, handled, places, channels
  <2>5. Fed'
    BY <1>2, <1>a, <2>s, Same DEF FeedChecks, Goto, Resting, Executing, Waiting, Stopping, Fed,
       Asked, Kept, Installed, Prompt, Signals, TControl, States, flags, handled, places, channels
  <2>6. Asked'
    BY <1>2, <1>a, <2>s, Same DEF FeedChecks, Goto, Resting, Executing, Waiting, Stopping, Fed,
       Asked, Kept, Installed, Prompt, Signals, TControl, States, flags, handled, places, channels
  <2>7. Kept'
    BY <1>2, <1>a, <2>s, Same DEF FeedChecks, Goto, Resting, Executing, Waiting, Stopping, Fed,
       Asked, Kept, Installed, Prompt, Signals, TControl, States, flags, handled, places, channels
  <2>8. Installed'
    BY <1>2, <1>a, <2>s, Same DEF FeedChecks, Goto, Resting, Executing, Waiting, Stopping, Fed,
       Asked, Kept, Installed, Prompt, Signals, TControl, States, flags, handled, places, channels
  <2> QED
    BY <2>1, <2>2, <2>3, <2>4, <2>5, <2>6, <2>7, <2>8 DEF Places
<1>3. CASE FeedEnters
  <2>s. /\ shell' = shell /\ hooked' = hooked /\ job' = job /\ shellCwd' = shellCwd
        /\ intr' = intr /\ cwdPipe' = cwdPipe /\ tty' = tty /\ cwd' = cwd
    BY <1>3 DEF FeedEnters, places, process, channels
  <2>1. Resting'
    BY <1>3, <1>a, <2>s, Same DEF FeedEnters, Goto, Resting, Executing, Waiting, Stopping, Fed,
       Asked, Kept, Installed, Prompt, Signals, TControl, States, flags, handled, places, channels
  <2>2. Executing'
    BY <1>3, <1>a, <2>s, Same DEF FeedEnters, Goto, Resting, Executing, Waiting, Stopping, Fed,
       Asked, Kept, Installed, Prompt, Signals, TControl, States, flags, handled, places, channels
  <2>3. Waiting'
    BY <1>3, <1>a, <2>s, Same DEF FeedEnters, Goto, Resting, Executing, Waiting, Stopping, Fed,
       Asked, Kept, Installed, Prompt, Signals, TControl, States, flags, handled, places, channels
  <2>4. Stopping'
    BY <1>3, <1>a, <2>s, Same DEF FeedEnters, Goto, Resting, Executing, Waiting, Stopping, Fed,
       Asked, Kept, Installed, Prompt, Signals, TControl, States, flags, handled, places, channels
  <2>5. Fed'
    BY <1>3, <1>a, <2>s, Same DEF FeedEnters, Goto, Resting, Executing, Waiting, Stopping, Fed,
       Asked, Kept, Installed, Prompt, Signals, TControl, States, flags, handled, places, channels
  <2>6. Asked'
    BY <1>3, <1>a, <2>s, Same DEF FeedEnters, Goto, Resting, Executing, Waiting, Stopping, Fed,
       Asked, Kept, Installed, Prompt, Signals, TControl, States, flags, handled, places, channels
  <2>7. Kept'
    BY <1>3, <1>a, <2>s, Same DEF FeedEnters, Goto, Resting, Executing, Waiting, Stopping, Fed,
       Asked, Kept, Installed, Prompt, Signals, TControl, States, flags, handled, places, channels
  <2>8. Installed'
    BY <1>3, <1>a, <2>s, Same DEF FeedEnters, Goto, Resting, Executing, Waiting, Stopping, Fed,
       Asked, Kept, Installed, Prompt, Signals, TControl, States, flags, handled, places, channels
  <2> QED
    BY <2>1, <2>2, <2>3, <2>4, <2>5, <2>6, <2>7, <2>8 DEF Places
<1>4. CASE FeedReadsCwd
  <2>1. /\ pc = "select" /\ pc' = "sync" /\ cwdPipe # <<>> /\ cwdPipe' = <<>> /\ tty' = tty
        /\ cwd' = (IF Len(cwdPipe) = 1 THEN Head(cwdPipe) ELSE Garbled)
        /\ UNCHANGED <<site, result, op, state, ready, persistent, shell, shellCwd, hooked, intr, panel, command>>
    BY <1>4 DEF FeedReadsCwd, ReadCwd, Goto, flags, process
  <2>2. hooked /\ Prompting
    <3>1. Dead \/ Starting \/ (hooked /\ (Quiet \/ Busy))
      BY <2>1, Where DEF LInv, Reported
    <3> QED
      BY <1>a, <2>1, <3>1 DEF Kept, Starting, Quiet, Busy, Told, Running, Dead
  <2>3. hooked' /\ Reported'
    <3>1. cwdPipe = <<shellCwd>> /\ shell \in {"stop", "stopped"} /\ KeysOnly(tty)
      BY <2>1, <2>2 DEF Prompting
    <3>2. Len(<<shellCwd>>) = 1 /\ Head(<<shellCwd>>) = shellCwd
      OBVIOUS
    <3> QED
      BY <2>1, <2>2, <3>1, <3>2 DEF Reported
  <2>4. shell # "dead"
    BY <2>2 DEF Prompting
  <2>5. Entering => shellCwd = panel
    BY <2>1, <2>2 DEF Entering, Prompting, Told, Running
  <2>n. NoPrecmd(tty')
    BY <2>1, <2>2, OnlyKeys DEF Prompting, TInv, TChannels
  <2>6. Resting'
    BY <1>a, <2>1, <2>3, <2>4, <2>5 DEF Resting, Executing, Waiting, Stopping, Fed, Asked, Kept,
       Installed, Dead, TControl, States
  <2>7. Executing'
    BY <1>a, <2>1, <2>3, <2>4, <2>5 DEF Resting, Executing, Waiting, Stopping, Fed, Asked, Kept,
       Installed, Dead, TControl, States
  <2>8. Waiting'
    BY <1>a, <2>1, <2>3, <2>4, <2>5 DEF Resting, Executing, Waiting, Stopping, Fed, Asked, Kept,
       Installed, Dead, TControl, States
  <2>9. Stopping'
    <3>1. CASE site = "run"
      BY <1>a, <2>1, <2>3, <3>1 DEF Resting, Stopping
    <3>2. CASE site # "run"
      BY <1>a, <2>1, <2>2, <2>3, <2>4, <2>5, <3>2 DEF Waiting, Stopping, Dead, TControl, Sites
    <3> QED
      BY <3>1, <3>2
  <2>10. Fed'
    BY <1>a, <2>1, <2>3, <2>4, <2>5 DEF Resting, Executing, Waiting, Stopping, Fed, Asked, Kept,
       Installed, Dead, TControl, States
  <2>11. Asked'
    BY <1>a, <2>1, <2>3, <2>4, <2>5 DEF Resting, Executing, Waiting, Stopping, Fed, Asked, Kept,
       Installed, Dead, TControl, States
  <2>12. Kept'
    BY <1>a, <2>1, <2>3, <2>4, <2>5 DEF Resting, Executing, Waiting, Stopping, Fed, Asked, Kept,
       Installed, Dead, TControl, States
  <2>13. Installed'
    BY <2>n DEF Installed
  <2> QED
    BY <2>6, <2>7, <2>8, <2>9, <2>10, <2>11, <2>12, <2>13 DEF Places
<1>5. CASE FeedTimesOut
  <2>s. /\ shell' = shell /\ hooked' = hooked /\ job' = job /\ shellCwd' = shellCwd
        /\ intr' = intr /\ cwdPipe' = cwdPipe /\ tty' = tty /\ cwd' = cwd
    BY <1>5 DEF FeedTimesOut, places, process, channels
  <2>d. site \in {"chdir_int", "chdir"} => Dead
    <3>1. ASSUME site \in {"chdir_int", "chdir"} PROVE pc = "select" /\ Silent
      BY <1>5, <3>1 DEF FeedTimesOut, Prompt
    <3>2. Silent => ~Prompting /\ ~Entering
      BY EmptySeq DEF Silent, Prompting, Entering, Told, Running, EndsIn
    <3> QED
      BY <1>a, <3>1, <3>2 DEF Waiting
  <2>1. Resting'
    BY <1>5, <1>a, <2>s, Same DEF FeedTimesOut, Return, Patient, Silent, Resting, Executing,
       Waiting, Stopping, Fed, Asked, Kept, Installed, Prompt, Signals, TControl, States, flags,
       handled, places, channels
  <2>2. Executing'
    BY <1>5, <1>a, <2>s, Same DEF FeedTimesOut, Return, Patient, Silent, Resting, Executing,
       Waiting, Stopping, Fed, Asked, Kept, Installed, Prompt, Signals, TControl, States, flags,
       handled, places, channels
  <2>3. Waiting'
    BY <1>5, <1>a, <2>s, Same DEF FeedTimesOut, Return, Patient, Silent, Resting, Executing,
       Waiting, Stopping, Fed, Asked, Kept, Installed, Prompt, Signals, TControl, States, flags,
       handled, places, channels
  <2>4. Stopping'
    BY <1>5, <1>a, <2>s, Same DEF FeedTimesOut, Return, Patient, Silent, Resting, Executing,
       Waiting, Stopping, Fed, Asked, Kept, Installed, Prompt, Signals, TControl, States, flags,
       handled, places, channels
  <2>5. Fed'
    BY <1>5, <1>a, <2>s, <2>d, Same DEF FeedTimesOut, Return, Patient, Waiting, Fed, flags,
       places, TControl, Sites
  <2>6. Asked'
    BY <1>5, <1>a, <2>s, Same DEF FeedTimesOut, Return, Patient, Silent, Resting, Executing,
       Waiting, Stopping, Fed, Asked, Kept, Installed, Prompt, Signals, TControl, States, flags,
       handled, places, channels
  <2>7. Kept'
    BY <1>5, <1>a, <2>s, Same DEF FeedTimesOut, Return, Patient, Silent, Resting, Executing,
       Waiting, Stopping, Fed, Asked, Kept, Installed, Prompt, Signals, TControl, States, flags,
       handled, places, channels
  <2>8. Installed'
    BY <1>5, <1>a, <2>s, Same DEF FeedTimesOut, Return, Patient, Silent, Resting, Executing,
       Waiting, Stopping, Fed, Asked, Kept, Installed, Prompt, Signals, TControl, States, flags,
       handled, places, channels
  <2> QED
    BY <2>1, <2>2, <2>3, <2>4, <2>5, <2>6, <2>7, <2>8 DEF Places
<1>6. CASE Synchronize
  <2>1. /\ pc = "sync" /\ StoppedOrDead /\ hooked /\ Reported /\ site # "clear"
        /\ shell = "stopped"
    <3>1. pc = "sync" /\ StoppedOrDead
      BY <1>6 DEF Synchronize
    <3> QED
      BY <1>a, <3>1 DEF Stopping, StoppedOrDead, Signals, Reported, TShell, Dead
  <2>2. /\ hooked' = hooked /\ shellCwd' = shellCwd /\ cwdPipe' = <<>> /\ cwd' = cwd /\ panel' = panel
        /\ site' = site /\ op' = op /\ persistent' = persistent /\ command' = command /\ ready' = TRUE
        /\ intr' = FALSE /\ bufPipe' = bufPipe
        /\ shell' = "read" \/ (intr /\ shell' = "pwd")
        /\ tty' = (IF state = "active" THEN tty ELSE <<>>)
        /\ IF state = "running" THEN state' = "inactive" /\ pc' = "fed" /\ result' = TRUE
                                ELSE state' = state /\ pc' = "feed" /\ result' = result
    BY <1>6, <2>1 DEF Synchronize, Goto, ClearedFlag, Continue, places, Reported
  <2>3. KeysOnly(tty')
    BY <2>1, <2>2, NothingSent DEF Reported
  <2>4. ~Dead' /\ (Quiet' \/ (intr /\ Prompting')) /\ ((state = "running" /\ site # "repair") => Quiet')
    BY <1>a, <2>1, <2>2, <2>3 DEF Stopping, Quiet, Prompting, Reported, Dead
  <2>5. cwd' = shellCwd'
    BY <2>1, <2>2 DEF Reported
  <2>6. command = "sent" => FALSE
    BY <1>a, <2>1, OnlyKeys DEF Kept, Reported, TInv, TChannels
  <2>7. NoPrecmd(tty')
    BY <2>1, <2>2, NothingSent, OnlyKeys DEF Reported, TInv, TChannels
  <2>8. state \in {"active", "running"} /\ (state = "active" => site = "run")
    BY <1>a, <2>1 DEF Stopping, TControl, States
  <2>9. site \in {"chdir", "intr"} => cwd' = panel'
    BY <1>a, <2>1, <2>2, <2>5 DEF Stopping
  <2>p. Prompting' => Busy'
    BY DEF Busy
  <2>10. Resting'
    BY <1>a, <2>1, <2>2, <2>4, <2>8, <2>p DEF Resting, Kept, TControl
  <2>11. Executing'
    BY <1>a, <2>1, <2>2, <2>4, <2>6, <2>7, <2>8, <2>9 DEF Resting, Executing, Waiting, Stopping,
       Fed, Asked, Kept, Installed, TControl, Sites
  <2>12. Waiting'
    BY <1>a, <2>1, <2>2, <2>4, <2>6, <2>7, <2>8, <2>9 DEF Resting, Executing, Waiting, Stopping,
       Fed, Asked, Kept, Installed, TControl, Sites
  <2>13. Stopping'
    BY <1>a, <2>1, <2>2, <2>4, <2>6, <2>7, <2>8, <2>9 DEF Resting, Executing, Waiting, Stopping,
       Fed, Asked, Kept, Installed, TControl, Sites
  <2>14. Fed'
    BY <1>a, <2>1, <2>2, <2>4, <2>6, <2>7, <2>8, <2>9 DEF Resting, Executing, Waiting, Stopping,
       Fed, Asked, Kept, Installed, TControl, Sites
  <2>15. Asked'
    BY <1>a, <2>1, <2>2, <2>4, <2>6, <2>7, <2>8, <2>9 DEF Resting, Executing, Waiting, Stopping,
       Fed, Asked, Kept, Installed, TControl, Sites
  <2>16. Kept'
    BY <1>a, <2>1, <2>2, <2>4, <2>6, <2>7, <2>8, <2>9 DEF Resting, Executing, Waiting, Stopping,
       Fed, Asked, Kept, Installed, TControl, Sites
  <2>17. Installed'
    BY <1>a, <2>1, <2>2, <2>4, <2>6, <2>7, <2>8, <2>9 DEF Resting, Executing, Waiting, Stopping,
       Fed, Asked, Kept, Installed, TControl, Sites
  <2> QED
    BY <2>10, <2>11, <2>12, <2>13, <2>14, <2>15, <2>16, <2>17 DEF Places
<1>7. CASE AskBuffer
  <2> DEFINE key == [kind |-> "bufkey"]
  <2>1. /\ pc = "ask_buffer" /\ pc' = "wait_buffer" /\ bufPipe' = <<>> /\ tty' = Append(tty, key)
        /\ UNCHANGED <<site, result, op, state, ready, persistent, shell, job, shellCwd, hooked, intr,
                       cwd, panel, cwdPipe, command>>
    BY <1>7 DEF AskBuffer, Goto, Send, flags, process, places
  <2>k. key \in Messages /\ IsKey(key) /\ tty \in Seq(Messages)
    BY KeyTypes DEF IsKey, TInv, TChannels
  <2> HIDE DEF key
  <2>2. (Dead' <=> Dead) /\ (Quiet => Quiet') /\ (Prompting => Prompting')
    BY <2>1, <2>k, KeyAppended DEF Dead, Quiet, Prompting
  <2>3. NoPrecmd(tty) => NoPrecmd(tty')
    BY <2>1, <2>k, KeyAppended
  <2> QED
    BY <1>a, <2>1, <2>2, <2>3 DEF Places, Resting, Executing, Waiting, Stopping, Fed, Asked, Kept,
       Installed
<1>8. CASE AskCursor
  <2> DEFINE key == [kind |-> "curkey"]
  <2>1. /\ pc = "wait_buffer" /\ pc' = "wait_cursor" /\ bufPipe' = <<>> /\ tty' = Append(tty, key)
        /\ UNCHANGED <<site, result, op, state, ready, persistent, shell, job, shellCwd, hooked, intr,
                       cwd, panel, cwdPipe, command>>
    BY <1>8 DEF AskCursor, Goto, Send, flags, process, places
  <2>k. key \in Messages /\ IsKey(key) /\ tty \in Seq(Messages)
    BY KeyTypes DEF IsKey, TInv, TChannels
  <2> HIDE DEF key
  <2>2. (Dead' <=> Dead) /\ (Quiet => Quiet') /\ (Prompting => Prompting')
    BY <2>1, <2>k, KeyAppended DEF Dead, Quiet, Prompting
  <2>3. NoPrecmd(tty) => NoPrecmd(tty')
    BY <2>1, <2>k, KeyAppended
  <2> QED
    BY <1>a, <2>1, <2>2, <2>3 DEF Places, Resting, Executing, Waiting, Stopping, Fed, Asked, Kept,
       Installed
<1>9. CASE BufferTaken
  <2>s. /\ shell' = shell /\ hooked' = hooked /\ job' = job /\ shellCwd' = shellCwd
        /\ intr' = intr /\ cwdPipe' = cwdPipe /\ tty' = tty /\ cwd' = cwd
    BY <1>9 DEF BufferTaken, places, process
  <2>1. Resting'
    BY <1>9, <1>a, <2>s, Same DEF BufferTaken, BufferRead, Resting, Executing, Waiting, Stopping,
       Fed, Asked, Kept, Installed, Prompt, Signals, TControl, States, flags, handled, places
  <2>2. Executing'
    BY <1>9, <1>a, <2>s, Same DEF BufferTaken, BufferRead, Resting, Executing, Waiting, Stopping,
       Fed, Asked, Kept, Installed, Prompt, Signals, TControl, States, flags, handled, places
  <2>3. Waiting'
    BY <1>9, <1>a, <2>s, Same DEF BufferTaken, BufferRead, Resting, Executing, Waiting, Stopping,
       Fed, Asked, Kept, Installed, Prompt, Signals, TControl, States, flags, handled, places
  <2>4. Stopping'
    BY <1>9, <1>a, <2>s, Same DEF BufferTaken, BufferRead, Resting, Executing, Waiting, Stopping,
       Fed, Asked, Kept, Installed, Prompt, Signals, TControl, States, flags, handled, places
  <2>5. Fed'
    BY <1>9, <1>a, <2>s, Same DEF BufferTaken, BufferRead, Resting, Executing, Waiting, Stopping,
       Fed, Asked, Kept, Installed, Prompt, Signals, TControl, States, flags, handled, places
  <2>6. Asked'
    BY <1>9, <1>a, <2>s, Same DEF BufferTaken, BufferRead, Resting, Executing, Waiting, Stopping,
       Fed, Asked, Kept, Installed, Prompt, Signals, TControl, States, flags, handled, places
  <2>7. Kept'
    BY <1>9, <1>a, <2>s, Same DEF BufferTaken, BufferRead, Resting, Executing, Waiting, Stopping,
       Fed, Asked, Kept, Installed, Prompt, Signals, TControl, States, flags, handled, places
  <2>8. Installed'
    BY <1>9, <1>a, <2>s, Same DEF BufferTaken, BufferRead, Resting, Executing, Waiting, Stopping,
       Fed, Asked, Kept, Installed, Prompt, Signals, TControl, States, flags, handled, places
  <2> QED
    BY <2>1, <2>2, <2>3, <2>4, <2>5, <2>6, <2>7, <2>8 DEF Places
<1>10. CASE BufferRepaired
  <2>1. /\ site = "run" /\ Asking /\ pc' = "feed" /\ site' = "repair" /\ state' = "running" /\ tty' = <<>>
        /\ shell' = (IF shell \in {"read", "run"} /\ hooked THEN "pwd" ELSE shell)
        /\ intr' = (intr \/ shell \in {"pwd", "stop", "stopped"})
        /\ UNCHANGED <<result, op, ready, persistent, job, shellCwd, hooked, cwd, panel, cwdPipe, command>>
    BY <1>10 DEF BufferRepaired, BufferRead, Interrupt, Feed, places
  <2>2. persistent /\ state = "inactive" /\ Up(Quiet \/ Prompting) /\ command # "sent"
    BY <1>a, <2>1 DEF Asked, Kept
  <2>3. Dead' <=> Dead
    BY <2>1 DEF Dead
  <2>4. Dead \/ (hooked' /\ Prompting')
    BY <2>1, <2>2, NothingSent DEF Quiet, Prompting
  <2> QED
    BY <1>a, <2>1, <2>2, <2>3, <2>4, NothingSent DEF Places, Resting, Executing, Waiting,
       Stopping, Fed, Asked, Kept, Installed
<1>11. CASE GiveUpBuffer
  <2>s. /\ shell' = shell /\ hooked' = hooked /\ job' = job /\ shellCwd' = shellCwd
        /\ intr' = intr /\ cwdPipe' = cwdPipe /\ tty' = tty /\ cwd' = cwd
    BY <1>11 DEF GiveUpBuffer, places, process, channels
  <2>p. Prompting => Busy
    BY DEF Busy
  <2>1. Resting'
    BY <1>11, <1>a, <2>s, <2>p, Same DEF GiveUpBuffer, BufferRead, Resting, Asked, Fed, Kept,
       places
  <2>2. Executing'
    BY <1>11, <1>a, <2>s, Same DEF GiveUpBuffer, BufferRead, Resting, Executing, Waiting,
       Stopping, Fed, Asked, Kept, Installed, Prompt, Signals, TControl, States, handled, places,
       channels
  <2>3. Waiting'
    BY <1>11, <1>a, <2>s, Same DEF GiveUpBuffer, BufferRead, Resting, Executing, Waiting,
       Stopping, Fed, Asked, Kept, Installed, Prompt, Signals, TControl, States, handled, places,
       channels
  <2>4. Stopping'
    BY <1>11, <1>a, <2>s, Same DEF GiveUpBuffer, BufferRead, Resting, Executing, Waiting,
       Stopping, Fed, Asked, Kept, Installed, Prompt, Signals, TControl, States, handled, places,
       channels
  <2>5. Fed'
    BY <1>11, <1>a, <2>s, Same DEF GiveUpBuffer, BufferRead, Resting, Executing, Waiting,
       Stopping, Fed, Asked, Kept, Installed, Prompt, Signals, TControl, States, handled, places,
       channels
  <2>6. Asked'
    BY <1>11, <1>a, <2>s, Same DEF GiveUpBuffer, BufferRead, Resting, Executing, Waiting,
       Stopping, Fed, Asked, Kept, Installed, Prompt, Signals, TControl, States, handled, places,
       channels
  <2>7. Kept'
    BY <1>11, <1>a, <2>s, Same DEF GiveUpBuffer, BufferRead, Resting, Executing, Waiting,
       Stopping, Fed, Asked, Kept, Installed, Prompt, Signals, TControl, States, handled, places,
       channels
  <2>8. Installed'
    BY <1>11, <1>a, <2>s, Same DEF GiveUpBuffer, BufferRead, Resting, Executing, Waiting,
       Stopping, Fed, Asked, Kept, Installed, Prompt, Signals, TControl, States, handled, places,
       channels
  <2> QED
    BY <2>1, <2>2, <2>3, <2>4, <2>5, <2>6, <2>7, <2>8 DEF Places
<1>12. CASE RepairFed
  <2>s. /\ shell' = shell /\ hooked' = hooked /\ job' = job /\ shellCwd' = shellCwd
        /\ intr' = intr /\ cwdPipe' = cwdPipe /\ tty' = tty /\ cwd' = cwd
    BY <1>12 DEF RepairFed, places, process, channels
  <2>1. Resting'
    BY <1>12, <1>a, <2>s, Same DEF RepairFed, Goto, Resting, Executing, Waiting, Stopping, Fed,
       Asked, Kept, Installed, Prompt, Signals, TControl, States, flags, handled, places, channels
  <2>2. Executing'
    BY <1>12, <1>a, <2>s, Same DEF RepairFed, Goto, Resting, Executing, Waiting, Stopping, Fed,
       Asked, Kept, Installed, Prompt, Signals, TControl, States, flags, handled, places, channels
  <2>3. Waiting'
    BY <1>12, <1>a, <2>s, Same DEF RepairFed, Goto, Resting, Executing, Waiting, Stopping, Fed,
       Asked, Kept, Installed, Prompt, Signals, TControl, States, flags, handled, places, channels
  <2>4. Stopping'
    BY <1>12, <1>a, <2>s, Same DEF RepairFed, Goto, Resting, Executing, Waiting, Stopping, Fed,
       Asked, Kept, Installed, Prompt, Signals, TControl, States, flags, handled, places, channels
  <2>5. Fed'
    BY <1>12, <1>a, <2>s, Same DEF RepairFed, Goto, Resting, Executing, Waiting, Stopping, Fed,
       Asked, Kept, Installed, Prompt, Signals, TControl, States, flags, handled, places, channels
  <2>6. Asked'
    BY <1>12, <1>a, <2>s, Same DEF RepairFed, Goto, Resting, Executing, Waiting, Stopping, Fed,
       Asked, Kept, Installed, Prompt, Signals, TControl, States, flags, handled, places, channels
  <2>7. Kept'
    BY <1>12, <1>a, <2>s, Same DEF RepairFed, Goto, Resting, Executing, Waiting, Stopping, Fed,
       Asked, Kept, Installed, Prompt, Signals, TControl, States, flags, handled, places, channels
  <2>8. Installed'
    BY <1>12, <1>a, <2>s, Same DEF RepairFed, Goto, Resting, Executing, Waiting, Stopping, Fed,
       Asked, Kept, Installed, Prompt, Signals, TControl, States, flags, handled, places, channels
  <2> QED
    BY <2>1, <2>2, <2>3, <2>4, <2>5, <2>6, <2>7, <2>8 DEF Places
<1>13. ASSUME NEW ok \in BOOLEAN, BufferTested(ok) PROVE Places'
  <2>s. /\ shell' = shell /\ hooked' = hooked /\ job' = job /\ shellCwd' = shellCwd
        /\ intr' = intr /\ cwdPipe' = cwdPipe /\ tty' = tty /\ cwd' = cwd
    BY <1>13 DEF BufferTested, places, process
  <2>i. ~intr
    BY <1>13, <1>a DEF BufferTested, BufferRead, Asked, Signals, Quiet, Dead
  <2>1. Resting'
    BY <1>13, <1>a, <2>s, Same DEF BufferTested, Goto, BufferRead, Resting, Executing, Waiting,
       Stopping, Fed, Asked, Kept, Installed, Prompt, Signals, TControl, States, handled, places
  <2>2. Executing'
    BY <1>13, <1>a, <2>s, Same DEF BufferTested, Goto, BufferRead, Resting, Executing, Waiting,
       Stopping, Fed, Asked, Kept, Installed, Prompt, Signals, TControl, States, handled, places
  <2>3. Waiting'
    BY <1>13, <1>a, <2>s, Same DEF BufferTested, Goto, BufferRead, Resting, Executing, Waiting,
       Stopping, Fed, Asked, Kept, Installed, Prompt, Signals, TControl, States, handled, places
  <2>4. Stopping'
    BY <1>13, <1>a, <2>s, Same DEF BufferTested, Goto, BufferRead, Resting, Executing, Waiting,
       Stopping, Fed, Asked, Kept, Installed, Prompt, Signals, TControl, States, handled, places
  <2>5. Fed'
    BY <1>13, <1>a, <2>s, Same DEF BufferTested, Goto, BufferRead, Resting, Executing, Waiting,
       Stopping, Fed, Asked, Kept, Installed, Prompt, Signals, TControl, States, handled, places
  <2>6. Asked'
    BY <1>13, <1>a, <2>s, Same DEF BufferTested, Goto, BufferRead, Resting, Executing, Waiting,
       Stopping, Fed, Asked, Kept, Installed, Prompt, Signals, TControl, States, handled, places
  <2>7. Kept'
    BY <1>13, <1>a, <2>s, <2>i, Same DEF BufferTested, BufferRead, Goto, Kept, Asked, places
  <2>8. Installed'
    BY <1>13, <1>a, <2>s, Same DEF BufferTested, Goto, BufferRead, Resting, Executing, Waiting,
       Stopping, Fed, Asked, Kept, Installed, Prompt, Signals, TControl, States, handled, places
  <2> QED
    BY <2>1, <2>2, <2>3, <2>4, <2>5, <2>6, <2>7, <2>8 DEF Places
<1>14. CASE InitSubshell
  <2> DEFINE precmd == [kind |-> "precmd"]
  <2>1. /\ pc = "init" /\ pc' = "feed" /\ site' = "init" /\ shell' = "start" /\ ~hooked' /\ ~intr'
        /\ state' = "running" /\ tty' = Append(tty, precmd)
        /\ UNCHANGED <<result, op, ready, persistent, cwd, panel, cwdPipe, command>>
    BY <1>14 DEF InitSubshell, Feed, Send, places
  <2>k. precmd \in Messages /\ precmd.kind = "precmd" /\ tty \in Seq(Messages)
    BY KeyTypes DEF TInv, TChannels
  <2> HIDE DEF precmd
  <2>2. Dead /\ cwdPipe = <<>> /\ NoPrecmd(tty)
    BY <1>a, <2>1 DEF Signals, Kept, Installed
  <2>3. Starting'
    BY <2>1, <2>2, <2>k, PrecmdAppended DEF Starting
  <2>4. HasCmd(tty) => HasCmd(tty')
    BY <2>1, <2>k, CmdStays
  <2>5. ~Dead'
    BY <2>1 DEF Dead
  <2> QED
    BY <1>a, <2>1, <2>3, <2>4, <2>5 DEF Places, Resting, Executing, Waiting, Stopping, Fed, Asked,
       Kept, Installed
<1>15. CASE InitFed
  <2>s. /\ shell' = shell /\ hooked' = hooked /\ job' = job /\ shellCwd' = shellCwd
        /\ intr' = intr /\ cwdPipe' = cwdPipe /\ tty' = tty /\ cwd' = cwd
    BY <1>15 DEF InitFed, places, process, channels
  <2>1. Resting'
    BY <1>15, <1>a, <2>s, Same DEF InitFed, Goto, Resting, Executing, Waiting, Stopping, Fed,
       Asked, Kept, Installed, Prompt, Signals, TControl, States, handled, places, channels
  <2>2. Executing'
    BY <1>15, <1>a, <2>s, Same DEF InitFed, Goto, Resting, Executing, Waiting, Stopping, Fed,
       Asked, Kept, Installed, Prompt, Signals, TControl, States, handled, places, channels
  <2>3. Waiting'
    BY <1>15, <1>a, <2>s, Same DEF InitFed, Goto, Resting, Executing, Waiting, Stopping, Fed,
       Asked, Kept, Installed, Prompt, Signals, TControl, States, handled, places, channels
  <2>4. Stopping'
    BY <1>15, <1>a, <2>s, Same DEF InitFed, Goto, Resting, Executing, Waiting, Stopping, Fed,
       Asked, Kept, Installed, Prompt, Signals, TControl, States, handled, places, channels
  <2>5. Fed'
    BY <1>15, <1>a, <2>s, Same DEF InitFed, Goto, Resting, Executing, Waiting, Stopping, Fed,
       Asked, Kept, Installed, Prompt, Signals, TControl, States, handled, places, channels
  <2>6. Asked'
    BY <1>15, <1>a, <2>s, Same DEF InitFed, Goto, Resting, Executing, Waiting, Stopping, Fed,
       Asked, Kept, Installed, Prompt, Signals, TControl, States, handled, places, channels
  <2>7. Kept'
    BY <1>15, <1>a, <2>s, Same DEF InitFed, Goto, Resting, Executing, Waiting, Stopping, Fed,
       Asked, Kept, Installed, Prompt, Signals, TControl, States, handled, places, channels
  <2>8. Installed'
    BY <1>15, <1>a, <2>s, Same DEF InitFed, Goto, Resting, Executing, Waiting, Stopping, Fed,
       Asked, Kept, Installed, Prompt, Signals, TControl, States, handled, places, channels
  <2> QED
    BY <2>1, <2>2, <2>3, <2>4, <2>5, <2>6, <2>7, <2>8 DEF Places
<1>16. CASE Inited
  <2>s. /\ shell' = shell /\ hooked' = hooked /\ job' = job /\ shellCwd' = shellCwd
        /\ intr' = intr /\ cwdPipe' = cwdPipe /\ tty' = tty /\ cwd' = cwd
    BY <1>16 DEF Inited, places, process, channels
  <2>1. Resting'
    BY <1>16, <1>a, <2>s, Same DEF Inited, Goto, Resting, Executing, Waiting, Stopping, Fed,
       Asked, Kept, Installed, Prompt, Signals, TControl, States, flags, handled, places, channels
  <2>2. Executing'
    BY <1>16, <1>a, <2>s, Same DEF Inited, Goto, Resting, Executing, Waiting, Stopping, Fed,
       Asked, Kept, Installed, Prompt, Signals, TControl, States, flags, handled, places, channels
  <2>3. Waiting'
    BY <1>16, <1>a, <2>s, Same DEF Inited, Goto, Resting, Executing, Waiting, Stopping, Fed,
       Asked, Kept, Installed, Prompt, Signals, TControl, States, flags, handled, places, channels
  <2>4. Stopping'
    BY <1>16, <1>a, <2>s, Same DEF Inited, Goto, Resting, Executing, Waiting, Stopping, Fed,
       Asked, Kept, Installed, Prompt, Signals, TControl, States, flags, handled, places, channels
  <2>5. Fed'
    BY <1>16, <1>a, <2>s, Same DEF Inited, Goto, Resting, Executing, Waiting, Stopping, Fed,
       Asked, Kept, Installed, Prompt, Signals, TControl, States, flags, handled, places, channels
  <2>6. Asked'
    BY <1>16, <1>a, <2>s, Same DEF Inited, Goto, Resting, Executing, Waiting, Stopping, Fed,
       Asked, Kept, Installed, Prompt, Signals, TControl, States, flags, handled, places, channels
  <2>7. Kept'
    BY <1>16, <1>a, <2>s, Same DEF Inited, Goto, Resting, Executing, Waiting, Stopping, Fed,
       Asked, Kept, Installed, Prompt, Signals, TControl, States, flags, handled, places, channels
  <2>8. Installed'
    BY <1>16, <1>a, <2>s, Same DEF Inited, Goto, Resting, Executing, Waiting, Stopping, Fed,
       Asked, Kept, Installed, Prompt, Signals, TControl, States, flags, handled, places, channels
  <2> QED
    BY <2>1, <2>2, <2>3, <2>4, <2>5, <2>6, <2>7, <2>8 DEF Places
<1>17. CASE ChdirSkipped
  <2>s. /\ shell' = shell /\ hooked' = hooked /\ job' = job /\ shellCwd' = shellCwd
        /\ intr' = intr /\ cwdPipe' = cwdPipe /\ tty' = tty /\ cwd' = cwd
    BY <1>17 DEF ChdirSkipped, places, process, channels
  <2>1. Resting'
    BY <1>17, <1>a, <2>s, Same DEF ChdirSkipped, ChdirDone, Goto, NeedsChdir, Resting, Executing,
       Waiting, Stopping, Fed, Asked, Kept, Installed, Prompt, Signals, TControl, States, flags,
       handled, places, channels
  <2>2. Executing'
    BY <1>17, <1>a, <2>s, Same DEF ChdirSkipped, ChdirDone, Goto, NeedsChdir, Resting, Executing,
       Waiting, Stopping, Fed, Asked, Kept, Installed, Prompt, Signals, TControl, States, flags,
       handled, places, channels
  <2>3. Waiting'
    BY <1>17, <1>a, <2>s, Same DEF ChdirSkipped, ChdirDone, Goto, NeedsChdir, Resting, Executing,
       Waiting, Stopping, Fed, Asked, Kept, Installed, Prompt, Signals, TControl, States, flags,
       handled, places, channels
  <2>4. Stopping'
    BY <1>17, <1>a, <2>s, Same DEF ChdirSkipped, ChdirDone, Goto, NeedsChdir, Resting, Executing,
       Waiting, Stopping, Fed, Asked, Kept, Installed, Prompt, Signals, TControl, States, flags,
       handled, places, channels
  <2>5. Fed'
    BY <1>17, <1>a, <2>s, Same DEF ChdirSkipped, ChdirDone, Goto, NeedsChdir, Resting, Executing,
       Waiting, Stopping, Fed, Asked, Kept, Installed, Prompt, Signals, TControl, States, flags,
       handled, places, channels
  <2>6. Asked'
    BY <1>17, <1>a, <2>s, Same DEF ChdirSkipped, ChdirDone, Goto, NeedsChdir, Resting, Executing,
       Waiting, Stopping, Fed, Asked, Kept, Installed, Prompt, Signals, TControl, States, flags,
       handled, places, channels
  <2>7. Kept'
    BY <1>17, <1>a, <2>s, Same DEF ChdirSkipped, ChdirDone, Goto, NeedsChdir, Resting, Executing,
       Waiting, Stopping, Fed, Asked, Kept, Installed, Prompt, Signals, TControl, States, flags,
       handled, places, channels
  <2>8. Installed'
    BY <1>17, <1>a, <2>s, Same DEF ChdirSkipped, ChdirDone, Goto, NeedsChdir, Resting, Executing,
       Waiting, Stopping, Fed, Asked, Kept, Installed, Prompt, Signals, TControl, States, flags,
       handled, places, channels
  <2> QED
    BY <2>1, <2>2, <2>3, <2>4, <2>5, <2>6, <2>7, <2>8 DEF Places
<1>18. CASE ChdirStarts
  <2>0. /\ pc = "chdir" /\ state = "inactive" /\ pc' = "feed" /\ state' = "running"
        /\ UNCHANGED <<result, op, persistent, job, shellCwd, hooked, cwd, panel, cwdPipe, command>>
    BY <1>18 DEF ChdirStarts, NeedsChdir, SendCd, Send, Feed, Interrupt, places, process
  <2>2. Up(Quiet) /\ command # "sent" /\ ~intr /\ NoPrecmd(tty)
    BY <1>a, <2>0 DEF Resting, Kept, Signals, Quiet, Dead, Installed
  <2>3. CASE persistent
    <3>1. SendCd /\ UNCHANGED process /\ site' = "chdir"
      BY <1>18, <2>3 DEF ChdirStarts, SendCd, Feed
    <3>2. (Dead' <=> Dead) /\ (Dead \/ (hooked' /\ Entering')) /\ NoPrecmd(tty') /\ intr' = intr
      BY <2>0, <2>2, <3>1, CdSent DEF process
    <3> QED
      BY <1>a, <2>0, <2>2, <3>1, <3>2 DEF Places, Resting, Executing, Waiting, Stopping, Fed,
         Asked, Kept, Installed
  <2>4. CASE ~persistent
    <3>1. /\ site' = "chdir_int" /\ tty' = <<>>
          /\ shell' = (IF shell \in {"read", "run"} /\ hooked THEN "pwd" ELSE shell)
          /\ intr' = (intr \/ shell \in {"pwd", "stop", "stopped"})
      BY <1>18, <2>4 DEF ChdirStarts, Interrupt, Feed
    <3>2. (Dead' <=> Dead) /\ (Dead \/ (hooked' /\ Prompting')) /\ ~intr'
      BY <2>0, <2>2, <3>1, NothingSent DEF Quiet, Prompting, Dead
    <3> QED
      BY <1>a, <2>0, <2>2, <3>1, <3>2, NothingSent DEF Places, Resting, Executing, Waiting,
         Stopping, Fed, Asked, Kept, Installed
  <2> QED
    BY <2>3, <2>4
<1>19. CASE ChdirCleared
  <2> DEFINE cd == [kind |-> "cd", dir |-> panel]
  <2>1. /\ pc = "fed" /\ site = "chdir_int" /\ result
        /\ pc' = "feed" /\ site' = "chdir" /\ state' = "running" /\ tty' = Append(tty, cd)
        /\ UNCHANGED <<result, op, persistent, shell, job, shellCwd, hooked, intr, cwd, panel, cwdPipe, command>>
    BY <1>19 DEF ChdirCleared, SendCd, Feed, Send, process, places
  <2>2. Up(Quiet) /\ state = "inactive" /\ command # "sent" /\ ~intr /\ NoPrecmd(tty)
    BY <1>a, <2>1 DEF Fed, Kept, Signals, Quiet, Dead, Installed
  <2>3. (Dead' <=> Dead) /\ (Dead \/ (hooked' /\ Entering')) /\ NoPrecmd(tty')
    BY <1>19, <2>1, <2>2, CdSent DEF ChdirCleared
  <2> QED
    BY <1>a, <2>1, <2>2, <2>3 DEF Places, Resting, Executing, Waiting, Stopping, Fed, Asked, Kept,
       Installed
<1>20. CASE ChdirFed
  <2>s. /\ shell' = shell /\ hooked' = hooked /\ job' = job /\ shellCwd' = shellCwd
        /\ intr' = intr /\ cwdPipe' = cwdPipe /\ tty' = tty /\ cwd' = cwd
    BY <1>20 DEF ChdirFed, places, process, channels
  <2>1. Resting'
    BY <1>20, <1>a, <2>s, Same DEF ChdirFed, ChdirDone, Goto, Resting, Executing, Waiting,
       Stopping, Fed, Asked, Kept, Installed, Prompt, Signals, TControl, States, handled, places,
       channels
  <2>2. Executing'
    BY <1>20, <1>a, <2>s, Same DEF ChdirFed, ChdirDone, Goto, Resting, Executing, Waiting,
       Stopping, Fed, Asked, Kept, Installed, Prompt, Signals, TControl, States, handled, places,
       channels
  <2>3. Waiting'
    BY <1>20, <1>a, <2>s, Same DEF ChdirFed, ChdirDone, Goto, Resting, Executing, Waiting,
       Stopping, Fed, Asked, Kept, Installed, Prompt, Signals, TControl, States, handled, places,
       channels
  <2>4. Stopping'
    BY <1>20, <1>a, <2>s, Same DEF ChdirFed, ChdirDone, Goto, Resting, Executing, Waiting,
       Stopping, Fed, Asked, Kept, Installed, Prompt, Signals, TControl, States, handled, places,
       channels
  <2>5. Fed'
    BY <1>20, <1>a, <2>s, Same DEF ChdirFed, ChdirDone, Goto, Resting, Executing, Waiting,
       Stopping, Fed, Asked, Kept, Installed, Prompt, Signals, TControl, States, handled, places,
       channels
  <2>6. Asked'
    BY <1>20, <1>a, <2>s, Same DEF ChdirFed, ChdirDone, Goto, Resting, Executing, Waiting,
       Stopping, Fed, Asked, Kept, Installed, Prompt, Signals, TControl, States, handled, places,
       channels
  <2>7. Kept'
    BY <1>20, <1>a, <2>s, Same DEF ChdirFed, ChdirDone, Goto, Resting, Executing, Waiting,
       Stopping, Fed, Asked, Kept, Installed, Prompt, Signals, TControl, States, handled, places,
       channels
  <2>8. Installed'
    BY <1>20, <1>a, <2>s, Same DEF ChdirFed, ChdirDone, Goto, Resting, Executing, Waiting,
       Stopping, Fed, Asked, Kept, Installed, Prompt, Signals, TControl, States, handled, places,
       channels
  <2> QED
    BY <2>1, <2>2, <2>3, <2>4, <2>5, <2>6, <2>7, <2>8 DEF Places
<1>21. CASE InvokeToggle
  <2>s. /\ shell' = shell /\ hooked' = hooked /\ job' = job /\ shellCwd' = shellCwd
        /\ intr' = intr /\ cwdPipe' = cwdPipe /\ tty' = tty /\ cwd' = cwd
    BY <1>21 DEF InvokeToggle, places, process, channels
  <2>1. Resting'
    BY <1>21, <1>a, <2>s, Same DEF InvokeToggle, Feed, Resting, Executing, Waiting, Stopping, Fed,
       Asked, Kept, Installed, Prompt, Signals, TControl, States, handled, places, channels
  <2>2. Executing'
    BY <1>21, <1>a, <2>s, Same DEF InvokeToggle, Feed, Resting, Executing, Waiting, Stopping, Fed,
       Asked, Kept, Installed, Prompt, Signals, TControl, States, handled, places, channels
  <2>3. Waiting'
    BY <1>21, <1>a, <2>s, Same DEF InvokeToggle, Feed, Resting, Executing, Waiting, Stopping, Fed,
       Asked, Kept, Installed, Prompt, Signals, TControl, States, handled, places, channels
  <2>4. Stopping'
    BY <1>21, <1>a, <2>s, Same DEF InvokeToggle, Feed, Resting, Executing, Waiting, Stopping, Fed,
       Asked, Kept, Installed, Prompt, Signals, TControl, States, handled, places, channels
  <2>5. Fed'
    BY <1>21, <1>a, <2>s, Same DEF InvokeToggle, Feed, Resting, Executing, Waiting, Stopping, Fed,
       Asked, Kept, Installed, Prompt, Signals, TControl, States, handled, places, channels
  <2>6. Asked'
    BY <1>21, <1>a, <2>s, Same DEF InvokeToggle, Feed, Resting, Executing, Waiting, Stopping, Fed,
       Asked, Kept, Installed, Prompt, Signals, TControl, States, handled, places, channels
  <2>7. Kept'
    BY <1>21, <1>a, <2>s, Same DEF InvokeToggle, Feed, Resting, Executing, Waiting, Stopping, Fed,
       Asked, Kept, Installed, Prompt, Signals, TControl, States, handled, places, channels
  <2>8. Installed'
    BY <1>21, <1>a, <2>s, Same DEF InvokeToggle, Feed, Resting, Executing, Waiting, Stopping, Fed,
       Asked, Kept, Installed, Prompt, Signals, TControl, States, handled, places, channels
  <2> QED
    BY <2>1, <2>2, <2>3, <2>4, <2>5, <2>6, <2>7, <2>8 DEF Places
<1>22. CASE InvokePersistent
  <2>1. cwdPipe = <<>>
    <3>1. pc = "invoke" /\ op = "execute"
      BY <1>22 DEF InvokePersistent
    <3> QED
      BY <1>a, <3>1 DEF Executing, Resting, Kept, Quiet
  <2>2. /\ pc = "invoke" /\ op = "execute" /\ pc' = "command"
        /\ UNCHANGED <<site, result, op, state, ready, persistent, shell, job, shellCwd, hooked, intr,
                       cwd, panel, cwdPipe, tty, command>>
    BY <1>22, <2>1 DEF InvokePersistent, Goto, flags, process, places, channels
  <2> QED
    BY <1>a, <2>2, Same DEF Places, Resting, Executing, Waiting, Stopping, Fed, Asked, Kept,
       Installed
<1>23. CASE InvokeInterrupt
  <2>1. /\ pc = "invoke" /\ op = "execute" /\ pc' = "feed" /\ site' = "intr" /\ state' = "running" /\ tty' = <<>>
        /\ shell' = (IF shell \in {"read", "run"} /\ hooked THEN "pwd" ELSE shell)
        /\ intr' = (intr \/ shell \in {"pwd", "stop", "stopped"})
        /\ UNCHANGED <<result, op, ready, persistent, job, shellCwd, hooked, cwd, panel, cwdPipe, command>>
    BY <1>23 DEF InvokeInterrupt, Interrupt, Feed, places
  <2>2. state # "running" /\ Up(Quiet /\ cwd = panel)
    BY <1>a, <2>1 DEF Executing, Resting
  <2>3. ~intr'
    BY <1>a, <2>1, <2>2 DEF Signals, Quiet, Dead
  <2>4. (Dead' <=> Dead) /\ (Dead \/ (hooked' /\ Prompting' /\ shellCwd' = panel'))
    BY <2>1, <2>2, NothingSent DEF Quiet, Prompting, Dead
  <2> QED
    BY <1>a, <2>1, <2>2, <2>3, <2>4, NothingSent DEF Places, Resting, Executing, Waiting,
       Stopping, Fed, Asked, Kept, Installed
<1>24. CASE WriteCommand
  <2> DEFINE cmd == [kind |-> "cmd", dir |-> panel]
  <2>1. /\ pc = "command" \/ (pc = "fed" /\ site = "intr")
        /\ pc' = "feed" /\ site' = "run" /\ state' = "running" /\ ~ready' /\ command' = "sent"
        /\ tty' = Append(tty, cmd)
        /\ UNCHANGED <<result, op, persistent, shell, job, shellCwd, hooked, intr, cwd, panel, cwdPipe>>
    BY <1>24 DEF WriteCommand, Feed, Send, process, places
  <2>k. cmd \in Lines /\ cmd \in Messages /\ cmd.kind = "cmd" /\ cmd.dir = panel /\ tty \in Seq(Messages)
    BY LineTypes DEF Lines, TInv, TDirs, TChannels
  <2> HIDE DEF cmd
  <2>2. Up(Quiet /\ cwd = panel)
    BY <1>a, <2>1 DEF Executing, Fed
  <2>3. HasCmd(tty')
    BY <2>1, <2>k, LineAppended
  <2>4. NoPrecmd(tty')
    BY <1>a, <2>1, <2>k, LineAppended DEF Installed
  <2>5. (Dead' <=> Dead) /\ ~intr'
    BY <1>a, <2>1, <2>2 DEF Dead, Signals, Quiet
  <2>6. Dead \/ (hooked' /\ Busy')
    <3>1. Quiet => EndsIn(tty', cmd)
      BY <2>1, <2>k, LineAppended DEF Quiet
    <3> QED
      BY <2>1, <2>2, <2>k, <3>1 DEF Busy, Told, Quiet
  <2> QED
    BY <1>a, <2>1, <2>3, <2>4, <2>5, <2>6 DEF Places, Resting, Executing, Waiting, Stopping, Fed,
       Asked, Kept, Installed
<1>25. CASE RunFed
  <2>s. /\ shell' = shell /\ hooked' = hooked /\ job' = job /\ shellCwd' = shellCwd
        /\ intr' = intr /\ cwdPipe' = cwdPipe /\ tty' = tty /\ cwd' = cwd
    BY <1>25 DEF RunFed, process, channels
  <2>1. Resting'
    BY <1>25, <1>a, <2>s, Same DEF RunFed, Goto, Resting, Executing, Waiting, Stopping, Fed,
       Asked, Kept, Installed, Prompt, Signals, TControl, States, flags, handled, channels
  <2>2. Executing'
    BY <1>25, <1>a, <2>s, Same DEF RunFed, Goto, Resting, Executing, Waiting, Stopping, Fed,
       Asked, Kept, Installed, Prompt, Signals, TControl, States, flags, handled, channels
  <2>3. Waiting'
    BY <1>25, <1>a, <2>s, Same DEF RunFed, Goto, Resting, Executing, Waiting, Stopping, Fed,
       Asked, Kept, Installed, Prompt, Signals, TControl, States, flags, handled, channels
  <2>4. Stopping'
    BY <1>25, <1>a, <2>s, Same DEF RunFed, Goto, Resting, Executing, Waiting, Stopping, Fed,
       Asked, Kept, Installed, Prompt, Signals, TControl, States, flags, handled, channels
  <2>5. Fed'
    BY <1>25, <1>a, <2>s, Same DEF RunFed, Goto, Resting, Executing, Waiting, Stopping, Fed,
       Asked, Kept, Installed, Prompt, Signals, TControl, States, flags, handled, channels
  <2>6. Asked'
    BY <1>25, <1>a, <2>s, Same DEF RunFed, Goto, Resting, Executing, Waiting, Stopping, Fed,
       Asked, Kept, Installed, Prompt, Signals, TControl, States, flags, handled, channels
  <2>7. Kept'
    BY <1>25, <1>a, <2>s, Same DEF RunFed, Goto, Resting, Executing, Waiting, Stopping, Fed,
       Asked, Kept, Installed, Prompt, Signals, TControl, States, flags, handled, channels
  <2>8. Installed'
    BY <1>25, <1>a, <2>s, Same DEF RunFed, Goto, Resting, Executing, Waiting, Stopping, Fed,
       Asked, Kept, Installed, Prompt, Signals, TControl, States, flags, handled, channels
  <2> QED
    BY <2>1, <2>2, <2>3, <2>4, <2>5, <2>6, <2>7, <2>8 DEF Places
<1>26. CASE Restart
  <2>s. /\ shell' = shell /\ hooked' = hooked /\ job' = job /\ shellCwd' = shellCwd
        /\ intr' = intr /\ cwdPipe' = cwdPipe /\ tty' = tty /\ cwd' = cwd
    BY <1>26 DEF Restart, places, process, channels
  <2>1. Resting'
    BY <1>26, <1>a, <2>s, Same DEF Restart, Goto, Resting, Executing, Waiting, Stopping, Fed,
       Asked, Kept, Installed, Prompt, Signals, TControl, States, flags, handled, places, channels
  <2>2. Executing'
    BY <1>26, <1>a, <2>s, Same DEF Restart, Goto, Resting, Executing, Waiting, Stopping, Fed,
       Asked, Kept, Installed, Prompt, Signals, TControl, States, flags, handled, places, channels
  <2>3. Waiting'
    BY <1>26, <1>a, <2>s, Same DEF Restart, Goto, Resting, Executing, Waiting, Stopping, Fed,
       Asked, Kept, Installed, Prompt, Signals, TControl, States, flags, handled, places, channels
  <2>4. Stopping'
    BY <1>26, <1>a, <2>s, Same DEF Restart, Goto, Resting, Executing, Waiting, Stopping, Fed,
       Asked, Kept, Installed, Prompt, Signals, TControl, States, flags, handled, places, channels
  <2>5. Fed'
    BY <1>26, <1>a, <2>s, Same DEF Restart, Goto, Resting, Executing, Waiting, Stopping, Fed,
       Asked, Kept, Installed, Prompt, Signals, TControl, States, flags, handled, places, channels
  <2>6. Asked'
    BY <1>26, <1>a, <2>s, Same DEF Restart, Goto, Resting, Executing, Waiting, Stopping, Fed,
       Asked, Kept, Installed, Prompt, Signals, TControl, States, flags, handled, places, channels
  <2>7. Kept'
    BY <1>26, <1>a, <2>s, Same DEF Restart, Goto, Resting, Executing, Waiting, Stopping, Fed,
       Asked, Kept, Installed, Prompt, Signals, TControl, States, flags, handled, places, channels
  <2>8. Installed'
    BY <1>26, <1>a, <2>s, Same DEF Restart, Goto, Resting, Executing, Waiting, Stopping, Fed,
       Asked, Kept, Installed, Prompt, Signals, TControl, States, flags, handled, places, channels
  <2> QED
    BY <2>1, <2>2, <2>3, <2>4, <2>5, <2>6, <2>7, <2>8 DEF Places
<1>27. CASE QuitAsked
  <2>s. /\ shell' = shell /\ hooked' = hooked /\ job' = job /\ shellCwd' = shellCwd
        /\ intr' = intr /\ cwdPipe' = cwdPipe /\ tty' = tty /\ cwd' = cwd
    BY <1>27 DEF QuitAsked, places, process, channels
  <2>1. Resting'
    BY <1>27, <1>a, <2>s, Same DEF QuitAsked, Goto, Resting, Executing, Waiting, Stopping, Fed,
       Asked, Kept, Installed, Prompt, Signals, TControl, States, flags, places, channels
  <2>2. Executing'
    BY <1>27, <1>a, <2>s, Same DEF QuitAsked, Goto, Resting, Executing, Waiting, Stopping, Fed,
       Asked, Kept, Installed, Prompt, Signals, TControl, States, flags, places, channels
  <2>3. Waiting'
    BY <1>27, <1>a, <2>s, Same DEF QuitAsked, Goto, Resting, Executing, Waiting, Stopping, Fed,
       Asked, Kept, Installed, Prompt, Signals, TControl, States, flags, places, channels
  <2>4. Stopping'
    BY <1>27, <1>a, <2>s, Same DEF QuitAsked, Goto, Resting, Executing, Waiting, Stopping, Fed,
       Asked, Kept, Installed, Prompt, Signals, TControl, States, flags, places, channels
  <2>5. Fed'
    BY <1>27, <1>a, <2>s, Same DEF QuitAsked, Goto, Resting, Executing, Waiting, Stopping, Fed,
       Asked, Kept, Installed, Prompt, Signals, TControl, States, flags, places, channels
  <2>6. Asked'
    BY <1>27, <1>a, <2>s, Same DEF QuitAsked, Goto, Resting, Executing, Waiting, Stopping, Fed,
       Asked, Kept, Installed, Prompt, Signals, TControl, States, flags, places, channels
  <2>7. Kept'
    BY <1>27, <1>a, <2>s, Same DEF QuitAsked, Goto, Resting, Executing, Waiting, Stopping, Fed,
       Asked, Kept, Installed, Prompt, Signals, TControl, States, flags, places, channels
  <2>8. Installed'
    BY <1>27, <1>a, <2>s, Same DEF QuitAsked, Goto, Resting, Executing, Waiting, Stopping, Fed,
       Asked, Kept, Installed, Prompt, Signals, TControl, States, flags, places, channels
  <2> QED
    BY <2>1, <2>2, <2>3, <2>4, <2>5, <2>6, <2>7, <2>8 DEF Places
<1>28. CASE Adopt
  <2>1. /\ pc = "adopt"
        /\ pc' = "idle" \/ (pc' = "chdir" /\ op' = "panel")
        /\ UNCHANGED <<site, result, state, ready, persistent, shell, job, shellCwd, hooked, intr,
                       cwd, cwdPipe, tty, command>>
    BY <1>28 DEF Adopt, Goto, flags, process, places, channels
  <2> QED
    BY <1>a, <2>1, Same DEF Places, Resting, Executing, Waiting, Stopping, Fed, Asked, Kept,
       Installed
<1>29. CASE Toggle
  <2>s. /\ shell' = shell /\ hooked' = hooked /\ job' = job /\ shellCwd' = shellCwd
        /\ intr' = intr /\ cwdPipe' = cwdPipe /\ tty' = tty /\ cwd' = cwd
    BY <1>29 DEF Toggle, places, process, channels
  <2>1. Resting'
    BY <1>29, <1>a, <2>s, Same DEF Toggle, Call, Goto, Resting, Executing, Waiting, Stopping, Fed,
       Asked, Kept, Installed, Prompt, Signals, TControl, States, flags, handled, places, channels
  <2>2. Executing'
    BY <1>29, <1>a, <2>s, Same DEF Toggle, Call, Goto, Resting, Executing, Waiting, Stopping, Fed,
       Asked, Kept, Installed, Prompt, Signals, TControl, States, flags, handled, places, channels
  <2>3. Waiting'
    BY <1>29, <1>a, <2>s, Same DEF Toggle, Call, Goto, Resting, Executing, Waiting, Stopping, Fed,
       Asked, Kept, Installed, Prompt, Signals, TControl, States, flags, handled, places, channels
  <2>4. Stopping'
    BY <1>29, <1>a, <2>s, Same DEF Toggle, Call, Goto, Resting, Executing, Waiting, Stopping, Fed,
       Asked, Kept, Installed, Prompt, Signals, TControl, States, flags, handled, places, channels
  <2>5. Fed'
    BY <1>29, <1>a, <2>s, Same DEF Toggle, Call, Goto, Resting, Executing, Waiting, Stopping, Fed,
       Asked, Kept, Installed, Prompt, Signals, TControl, States, flags, handled, places, channels
  <2>6. Asked'
    BY <1>29, <1>a, <2>s, Same DEF Toggle, Call, Goto, Resting, Executing, Waiting, Stopping, Fed,
       Asked, Kept, Installed, Prompt, Signals, TControl, States, flags, handled, places, channels
  <2>7. Kept'
    BY <1>29, <1>a, <2>s, Same DEF Toggle, Call, Goto, Resting, Executing, Waiting, Stopping, Fed,
       Asked, Kept, Installed, Prompt, Signals, TControl, States, flags, handled, places, channels
  <2>8. Installed'
    BY <1>29, <1>a, <2>s, Same DEF Toggle, Call, Goto, Resting, Executing, Waiting, Stopping, Fed,
       Asked, Kept, Installed, Prompt, Signals, TControl, States, flags, handled, places, channels
  <2> QED
    BY <2>1, <2>2, <2>3, <2>4, <2>5, <2>6, <2>7, <2>8 DEF Places
<1>30. CASE Execute
  <2>s. /\ shell' = shell /\ hooked' = hooked /\ job' = job /\ shellCwd' = shellCwd
        /\ intr' = intr /\ cwdPipe' = cwdPipe /\ tty' = tty /\ cwd' = cwd
    BY <1>30 DEF Execute, places, process, channels
  <2>1. Resting'
    BY <1>30, <1>a, <2>s, Same DEF Execute, Call, Goto, ShellIsFree, Resting, Executing, Waiting,
       Stopping, Fed, Asked, Kept, Installed, Prompt, Signals, TControl, States, flags, handled,
       places, channels
  <2>2. Executing'
    BY <1>30, <1>a, <2>s, Same DEF Execute, Call, Goto, ShellIsFree, Resting, Executing, Waiting,
       Stopping, Fed, Asked, Kept, Installed, Prompt, Signals, TControl, States, flags, handled,
       places, channels
  <2>3. Waiting'
    BY <1>30, <1>a, <2>s, Same DEF Execute, Call, Goto, ShellIsFree, Resting, Executing, Waiting,
       Stopping, Fed, Asked, Kept, Installed, Prompt, Signals, TControl, States, flags, handled,
       places, channels
  <2>4. Stopping'
    BY <1>30, <1>a, <2>s, Same DEF Execute, Call, Goto, ShellIsFree, Resting, Executing, Waiting,
       Stopping, Fed, Asked, Kept, Installed, Prompt, Signals, TControl, States, flags, handled,
       places, channels
  <2>5. Fed'
    BY <1>30, <1>a, <2>s, Same DEF Execute, Call, Goto, ShellIsFree, Resting, Executing, Waiting,
       Stopping, Fed, Asked, Kept, Installed, Prompt, Signals, TControl, States, flags, handled,
       places, channels
  <2>6. Asked'
    BY <1>30, <1>a, <2>s, Same DEF Execute, Call, Goto, ShellIsFree, Resting, Executing, Waiting,
       Stopping, Fed, Asked, Kept, Installed, Prompt, Signals, TControl, States, flags, handled,
       places, channels
  <2>7. Kept'
    BY <1>30, <1>a, <2>s, Same DEF Execute, Call, Goto, ShellIsFree, Resting, Executing, Waiting,
       Stopping, Fed, Asked, Kept, Installed, Prompt, Signals, TControl, States, flags, handled,
       places, channels
  <2>8. Installed'
    BY <1>30, <1>a, <2>s, Same DEF Execute, Call, Goto, ShellIsFree, Resting, Executing, Waiting,
       Stopping, Fed, Asked, Kept, Installed, Prompt, Signals, TControl, States, flags, handled,
       places, channels
  <2> QED
    BY <2>1, <2>2, <2>3, <2>4, <2>5, <2>6, <2>7, <2>8 DEF Places
<1>31. CASE ChangeDir
  <2>1. /\ pc = "idle" /\ pc' = "chdir" /\ op' = "panel"
        /\ UNCHANGED <<site, result, state, ready, persistent, shell, job, shellCwd, hooked, intr,
                       cwd, cwdPipe, tty, command>>
    BY <1>31 DEF ChangeDir, Call, Goto, flags, process, channels
  <2> QED
    BY <1>a, <2>1, Same DEF Places, Resting, Executing, Waiting, Stopping, Fed, Asked, Kept,
       Installed
<1>32. CASE FeedPassesLine
  <2> DEFINE line == [kind |-> "user", dir |-> Home]
  <2>1. /\ pc = "select" /\ pc' = "feed" /\ site = "run" /\ AtPrompt /\ ready /\ ~ready'
        /\ tty' = Append(tty, line)
        /\ UNCHANGED <<site, result, op, state, persistent, shell, job, shellCwd, hooked, intr, cwd, panel,
                       cwdPipe, command>>
    BY <1>32 DEF FeedPassesLine, Visible, Send, Goto, ReadyAfter, Prompt, process, places
  <2>k. line \in Lines /\ line \in Messages /\ line.kind = "user" /\ tty \in Seq(Messages)
    BY LineTypes, HomeAssumption DEF Lines, TInv, TChannels
  <2> HIDE DEF line
  <2>2. state = "active" /\ hooked /\ command # "sent"
    <3>1. shell = "read"
      BY <2>1 DEF AtPrompt
    <3> QED
      BY <1>a, <2>1, <3>1 DEF Resting, Kept, TControl, States, Dead
  <2>3. Busy'
    <3>1. EndsIn(tty', line)
      BY <2>1, <2>k, LineAppended, NoLineIsKeys DEF AtPrompt
    <3> QED
      BY <2>1, <2>k, <3>1 DEF Busy, Told, AtPrompt
  <2>4. NoPrecmd(tty')
    BY <1>a, <2>1, <2>k, LineAppended DEF Installed
  <2>5. ~Dead'
    BY <2>1 DEF Dead, AtPrompt
  <2> QED
    BY <1>a, <2>1, <2>2, <2>3, <2>4, <2>5 DEF Places, Resting, Executing, Waiting, Stopping, Fed,
       Asked, Kept, Installed
<1>33. CASE FeedSwitches
  <2>s. /\ shell' = shell /\ hooked' = hooked /\ job' = job /\ shellCwd' = shellCwd
        /\ intr' = intr /\ cwdPipe' = cwdPipe /\ tty' = tty /\ cwd' = cwd
    BY <1>33 DEF FeedSwitches, places, process, channels
  <2>1. Resting'
    BY <1>33, <1>a, <2>s, Same DEF FeedSwitches, Visible, Switched, Goto, Return, Resting,
       Executing, Waiting, Stopping, Fed, Asked, Kept, Installed, Prompt, Signals, TControl,
       States, handled, places, channels
  <2>2. Executing'
    BY <1>33, <1>a, <2>s, Same DEF FeedSwitches, Visible, Switched, Goto, Return, Resting,
       Executing, Waiting, Stopping, Fed, Asked, Kept, Installed, Prompt, Signals, TControl,
       States, handled, places, channels
  <2>3. Waiting'
    BY <1>33, <1>a, <2>s, Same DEF FeedSwitches, Visible, Switched, Goto, Return, Resting,
       Executing, Waiting, Stopping, Fed, Asked, Kept, Installed, Prompt, Signals, TControl,
       States, handled, places, channels
  <2>4. Stopping'
    BY <1>33, <1>a, <2>s, Same DEF FeedSwitches, Visible, Switched, Goto, Return, Resting,
       Executing, Waiting, Stopping, Fed, Asked, Kept, Installed, Prompt, Signals, TControl,
       States, handled, places, channels
  <2>5. Fed'
    BY <1>33, <1>a, <2>s, Same DEF FeedSwitches, Visible, Switched, Goto, Return, Resting,
       Executing, Waiting, Stopping, Fed, Asked, Kept, Installed, Prompt, Signals, TControl,
       States, handled, places, channels
  <2>6. Asked'
    BY <1>33, <1>a, <2>s, Same DEF FeedSwitches, Visible, Switched, Goto, Return, Resting,
       Executing, Waiting, Stopping, Fed, Asked, Kept, Installed, Prompt, Signals, TControl,
       States, handled, places, channels
  <2>7. Kept'
    BY <1>33, <1>a, <2>s, Same DEF FeedSwitches, Visible, Switched, Goto, Return, Resting,
       Executing, Waiting, Stopping, Fed, Asked, Kept, Installed, Prompt, Signals, TControl,
       States, handled, places, channels
  <2>8. Installed'
    BY <1>33, <1>a, <2>s, Same DEF FeedSwitches, Visible, Switched, Goto, Return, Resting,
       Executing, Waiting, Stopping, Fed, Asked, Kept, Installed, Prompt, Signals, TControl,
       States, handled, places, channels
  <2> QED
    BY <2>1, <2>2, <2>3, <2>4, <2>5, <2>6, <2>7, <2>8 DEF Places
<1> QED
  BY <1>1, <1>2, <1>3, <1>4, <1>5, <1>6, <1>7, <1>8, <1>9, <1>10, <1>11, <1>12, <1>13, <1>14,
     <1>15, <1>16, <1>17, <1>18, <1>19, <1>20, <1>21, <1>22, <1>23, <1>24, <1>25, <1>26, <1>27,
     <1>28, <1>29, <1>30, <1>31, <1>32, <1>33 DEF McStep, FeedStep, BufferStep, CallStep, User

\* Without a subshell MC stays away from it.
LEMMA UnusedKept ==
  ASSUME TInv, Signals, ~use, Unused, McStep \/ User
  PROVE  ~use' /\ Unused'
<1> USE DEF Asking
<1>a. /\ TControl /\ TShell /\ tty \in Seq(Messages)
      /\ pc \in {"ask_buffer", "wait_buffer", "wait_cursor", "inited", "restart", "quit", "exit",
                 "idle", "adopt", "chdir"}
      /\ Asking => site = "init"
      /\ pc = "chdir" => op = "panel"
  BY DEF TInv, TChannels, Unused

<1>1. CASE SigChld
  BY <1>1, <1>a DEF SigChld, Unused, flags, places, process, channels, Dead, Signals, TControl
<1>2. CASE AskBuffer
  <2> DEFINE key == [kind |-> "bufkey"]
  <2>1. key \in Messages /\ IsKey(key)
    BY KeyTypes DEF IsKey
  <2>2. tty' = Append(tty, key)
    BY <1>2 DEF AskBuffer, Goto, Send
  <2> HIDE DEF key
  <2>3. (KeysOnly(tty) => KeysOnly(tty')) /\ (Harmless(tty) => Harmless(tty'))
    BY <1>a, <2>1, <2>2, KeyAppended
  <2> QED
    BY <1>2, <1>a, <2>3 DEF AskBuffer, Goto, Send, Unused, flags, process, Dead
<1>3. CASE AskCursor
  <2> DEFINE key == [kind |-> "curkey"]
  <2>1. key \in Messages /\ IsKey(key)
    BY KeyTypes DEF IsKey
  <2>2. tty' = Append(tty, key)
    BY <1>3 DEF AskCursor, Goto, Send
  <2> HIDE DEF key
  <2>3. (KeysOnly(tty) => KeysOnly(tty')) /\ (Harmless(tty) => Harmless(tty'))
    BY <1>a, <2>1, <2>2, KeyAppended
  <2> QED
    BY <1>3, <1>a, <2>3 DEF AskCursor, Goto, Send, Unused, flags, process, Dead
<1>4. ASSUME NEW ok \in BOOLEAN, BufferTested(ok) PROVE ~use' /\ Unused'
  BY <1>4, <1>a DEF BufferTested, Goto, BufferRead, Unused, handled, places, process, Dead,
     Signals, TControl
<1>5. CASE Inited
  BY <1>5, <1>a DEF Inited, Goto, Unused, flags, handled, places, process, channels, Dead,
     Signals, TControl
<1>6. CASE ChdirSkipped
  BY <1>6, <1>a DEF ChdirSkipped, ChdirDone, Goto, NeedsChdir, Unused, flags, handled, places,
     process, channels, Dead, Signals, TControl
<1>7. CASE Restart
  BY <1>7, <1>a DEF Restart, Goto, Unused, flags, handled, places, process, channels, Dead,
     Signals, TControl
<1>8. CASE QuitAsked
  BY <1>8, <1>a DEF QuitAsked, Goto, Unused, flags, places, process, channels, Dead, Signals,
     TControl
<1>9. CASE Adopt
  BY <1>9, <1>a DEF Adopt, Goto, Unused, flags, handled, places, process, channels, Dead, Signals,
     TControl
<1>10. ASSUME FeedChecks \/ FeedEnters \/ FeedReadsCwd \/ FeedTimesOut \/ Synchronize \/ BufferTaken \/ BufferRepaired
            \/ GiveUpBuffer \/ RepairFed \/ InitSubshell \/ InitFed \/ ChdirStarts \/ ChdirCleared \/ ChdirFed
            \/ InvokeToggle \/ InvokePersistent \/ InvokeInterrupt \/ WriteCommand \/ RunFed \/ Toggle \/ Execute
            \/ ChangeDir \/ FeedPassesLine \/ FeedSwitches
     PROVE FALSE
  BY <1>10, <1>a DEF FeedChecks, FeedEnters, FeedReadsCwd, FeedTimesOut, Synchronize, BufferTaken,
     BufferRepaired, GiveUpBuffer, RepairFed, InitSubshell, InitFed, ChdirStarts, ChdirCleared,
     ChdirFed, InvokeToggle, InvokePersistent, InvokeInterrupt, WriteCommand, RunFed, Toggle,
     Execute, ChangeDir, FeedPassesLine, FeedSwitches, BufferRead, Call, NeedsChdir
<1> QED
  BY <1>1, <1>2, <1>3, <1>4, <1>5, <1>6, <1>7, <1>8, <1>9, <1>10 DEF McStep, FeedStep, BufferStep,
     CallStep, User

\* It is in init_subshell that MC learns that it has none.
LEMMA UseLost ==
  ASSUME TInv, LInv, use, ~use', McStep \/ User
  PROVE  Unused'
  <1>1. /\ pc = "fed" /\ site = "init" /\ pc' \in {"ask_buffer", "inited"} /\ site' = site
        /\ ~(result /\ alive) /\ shell' = shell /\ hooked' = hooked /\ tty' = tty
    <2>1. CASE InitFed
      BY <2>1 DEF InitFed, Goto, process, channels, TInv, TControl
    <2>2. CASE use' = use
      BY <2>2
    <2>3. InitFed \/ use' = use
      BY DEF McStep, User, SigChld, FeedStep, FeedChecks, FeedEnters, FeedReadsCwd, FeedTimesOut,
         Synchronize, BufferStep, AskBuffer, AskCursor, BufferTaken, BufferRepaired, GiveUpBuffer,
         RepairFed, BufferTested, CallStep, InitSubshell, Inited, ChdirSkipped, ChdirStarts,
         ChdirCleared, ChdirFed, InvokeToggle, InvokePersistent, InvokeInterrupt, WriteCommand,
         RunFed, Restart, QuitAsked, Adopt, Toggle, Execute, ChangeDir, FeedPassesLine,
         FeedSwitches, flags
    <2> QED
      BY <2>1, <2>2, <2>3
  <1>2. Dead \/ Starting \/ (hooked /\ KeysOnly(tty))
    BY <1>1 DEF LInv, Places, Fed, Up, Quiet, Prompting
  <1>3. Starting => ~hooked /\ Harmless(tty)
    BY PrecmdIsHarmless DEF Starting, TInv, TChannels
  <1> QED
    BY <1>1, <1>2, <1>3 DEF Unused, Dead, Asking

-----------------------------------------------------------------------------
(* The theorems *)

\* The invariant holds at the start.
LEMMA InvInit ==
  ASSUME Init
  PROVE  TInv /\ LInv
  <1>1. world \in WorldType /\ persistent \in BOOLEAN
    BY WorldsAssumption DEF Init, WorldType
  <1>2. TInv
    <2>1. world \in WorldType /\ TControl /\ TShell
      BY <1>1 DEF Init, TControl, TShell, Labels, Sites, States
    <2>2. TDirs
      BY HomeAssumption DEF Init, TDirs, Lines
    <2>3. TChannels
      BY MessageTypes, PipeTypes DEF Init, TChannels
    <2>4. TLeft
      BY BoundsAssumption DEF Init, TLeft
    <2> QED
      BY <2>1, <2>2, <2>3, <2>4 DEF TInv
  <1>3. Signals
    BY DEF Init, Signals, Dead
  <1>4. Places
    BY NothingSent DEF Init, Places, Resting, Executing, Waiting, Stopping, Fed, Asked, Kept,
       Installed, AtRest, Feeding, Asking
  <1> QED
    BY <1>2, <1>3, <1>4 DEF LInv, Init

\* Every step keeps the invariant.
LEMMA InvStep ==
  ASSUME TInv, LInv, Prompt(world), [Next]_vars
  PROVE  TInv' /\ LInv' /\ Prompt(world)'
  <1>1. TInv'
    BY TypeStep
  <1>2. world' = world
    BY DEF Next, vars
  <1>3. CASE ShellMove
    BY <1>1, <1>2, <1>3, ShellKeeps
  <1>4. CASE McStep \/ User
    <2>1. Signals'
      BY <1>4, SignalsKept DEF LInv
    <2>2. CASE ~use
      BY <1>1, <1>2, <1>4, <2>1, <2>2, UnusedKept DEF LInv
    <2>3. CASE use /\ use'
      BY <1>1, <1>2, <1>4, <2>1, <2>3, PlacesKept DEF LInv
    <2>4. CASE use /\ ~use'
      BY <1>1, <1>2, <1>4, <2>1, <2>4, UseLost DEF LInv
    <2> QED
      BY <1>1, <1>2, <2>2, <2>3, <2>4
  <1>5. CASE UNCHANGED vars
    <2>1. /\ UNCHANGED <<pc, site, op, result, state, ready, use, persistent, alive, stopped, quit, cwd, panel>>
          /\ UNCHANGED <<shell, job, shellCwd, hooked, intr, exited, chld, tty, cwdPipe, bufPipe, command>>
      BY <1>5 DEF vars, control, flags, handled, places, process, channels
    <2>2. Signals' <=> Signals
      BY <2>1 DEF Signals, Dead
    <2>3. Places' <=> Places
      BY <2>1, Same DEF Places, Resting, Executing, Waiting, Stopping, Fed, Asked, Kept,
         Installed, AtRest, Feeding, Asking, Up
    <2>4. Unused' <=> Unused
      BY <2>1, Same DEF Unused, Asking
    <2> QED
      BY <1>1, <1>2, <2>1, <2>2, <2>3, <2>4 DEF LInv
  <1> QED
    BY <1>3, <1>4, <1>5 DEF Next, Process, ShellMove, vars

\* In every state of every world the variables have their types, and the flag
\* that a SIGCHLD has told of a stop is up only while the shell is stopped or
\* dead (sigchld_handler and synchronize, common.c).
THEOREM TypeCorrect == Spec => []TypeOK
  <1>1. Init => TInv
    BY InvInit
  <1>2. TInv /\ [Next]_vars => TInv'
    BY TypeStep
  <1>3. TInv => TypeOK
    BY TypesTold
  <1> QED
    BY <1>1, <1>2, <1>3, PTL DEF Spec

\* In these worlds the invariant holds in every state.
LEMMA Invariance == Spec /\ Prompt(world) => [](TInv /\ LInv /\ Prompt(world))
  <1>1. Init => TInv /\ LInv
    BY InvInit
  <1>2. TInv /\ LInv /\ Prompt(world) /\ [Next]_vars => TInv' /\ LInv' /\ Prompt(world)'
    BY InvStep
  <1> QED
    BY <1>1, <1>2, PTL DEF Spec

\* Back at its panels and INACTIVE, MC has a shell that waits at its prompt, has
\* read all it was sent and left no report unread, or a SIGCHLD is pending; and
\* no command that MC passed on has been swallowed by a flush, a ^C or a prompt
\* that came late (invoke_subshell, synchronize and feed_subshell, common.c).
THEOREM TheShellAwaits == Spec /\ Prompt(world) => []InactiveAwaits
  <1>1. TInv /\ LInv => InactiveAwaits
    <2> SUFFICES ASSUME TInv, LInv, pc = "idle", state = "inactive", use
                 PROVE  (alive => AtPrompt \/ chld) /\ command # "sent"
      BY DEF InactiveAwaits
    <2>1. Up(Quiet) /\ command # "sent"
      BY DEF LInv, Places, Resting, AtRest, Kept
    <2>2. Quiet => AtPrompt
      BY NoLineIsKeys DEF Quiet, AtPrompt
    <2>3. Dead /\ alive => chld
      BY DEF LInv, Signals
    <2> QED
      BY <2>1, <2>2, <2>3 DEF Up
  <1> QED
    BY <1>1, Invariance, PTL

\* A shell that reports to MC starts a command of MC's only in the directory
\* that the panel showed when the command was entered (do_subshell_chdir and
\* invoke_subshell, common.c).
THEOREM CommandsRunInPlace == Spec /\ Prompt(world) => CommandInPanelDir
  <1>1. ASSUME TInv, LInv, Next, StartsCommand, hooked
        PROVE  shellCwd = job'.dir
    <2>1. ShellReads
      BY <1>1 DEF StartsCommand, Next, Process, McStep, User, SigChld, FeedStep, FeedChecks,
         FeedEnters, FeedReadsCwd, FeedTimesOut, Synchronize, Continue, BufferStep, AskBuffer,
         AskCursor, BufferTaken, BufferRepaired, GiveUpBuffer, RepairFed, BufferTested, CallStep,
         InitSubshell, InitFed, Inited, ChdirSkipped, ChdirStarts, ChdirCleared, ChdirFed,
         InvokeToggle, InvokePersistent, InvokeInterrupt, WriteCommand, RunFed, Restart,
         QuitAsked, Adopt, Toggle, Execute, ChangeDir, FeedPassesLine, FeedSwitches, Interrupt,
         ShellStep, ShellStarts, ShellFinishes, ShellReports, ShellStops, ShellDies, process, vars
    <2>2. /\ shell = "read" /\ tty # <<>> /\ tty \in Seq(Messages)
          /\ Head(tty) \in Lines /\ job' = Head(tty) /\ Head(tty).kind = "cmd" /\ ~IsKey(Head(tty))
      BY <1>1, <2>1, NextRead DEF StartsCommand, IsKey
    <2>3. ~KeysOnly(tty)
      BY <2>2, OnlyKeys
    <2>4. use
      BY <1>1, <2>2, <2>3 DEF LInv, Unused, Dead
    <2>5. PICK line \in Lines : Told(line) /\ (line.kind = "cmd" => shellCwd = line.dir)
      BY <1>1, <2>2, <2>3, <2>4, Where DEF Dead, Starting, Quiet, Busy, Running, Prompting,
         Reported
    <2>6. Head(tty) = line
      BY <2>2, <2>5, EndRead, LinesAreNoKeys DEF Told
    <2> QED
      BY <2>2, <2>5, <2>6
  <1>2. TInv /\ LInv /\ [Next]_vars => [StartsCommand /\ hooked => shellCwd = job'.dir]_vars
    BY <1>1
  <1> QED
    BY <1>2, Invariance, PTL DEF Spec, CommandInPanelDir

\* What the user has started in the shell ends by itself: no ^C that MC writes
\* for its own purposes meets it (do_subshell_chdir, invoke_subshell and
\* read_command_line_buffer, common.c).
THEOREM UserIsNotInterrupted == Spec /\ Prompt(world) => UserNotInterrupted
  <1>1. ASSUME TInv, LInv, Next, shell = "run", job.kind = "user", shell' = "pwd"
        PROVE  pc' = pc
    <2>1. CASE BufferRepaired
      <3>1. site = "run" /\ pc \in {"wait_buffer", "wait_cursor"}
        BY <2>1 DEF BufferRepaired, BufferRead
      <3>2. use
        BY <1>1, <3>1 DEF LInv, Unused, Asking
      <3> QED
        BY <1>1, <3>1, <3>2 DEF LInv, Places, Asked, Asking, Up, Dead, Quiet, Prompting
    <2>2. CASE ChdirStarts
      <3>1. pc = "chdir" /\ state = "inactive" /\ (op = "panel" => use)
        BY <2>2 DEF ChdirStarts, NeedsChdir
      <3>2. use
        BY <1>1, <3>1 DEF LInv, Unused
      <3> QED
        BY <1>1, <3>1, <3>2 DEF LInv, Places, Resting, AtRest, Up, Dead, Quiet
    <2>3. CASE InvokeInterrupt
      <3>1. pc = "invoke" /\ op = "execute"
        BY <2>3 DEF InvokeInterrupt
      <3>2. use
        BY <1>1, <3>1 DEF LInv, Unused
      <3> QED
        BY <1>1, <3>1, <3>2 DEF LInv, Places, Resting, Executing, AtRest, Up, Dead, Quiet
    <2>4. BufferRepaired \/ ChdirStarts \/ InvokeInterrupt \/ pc' = pc
      BY <1>1 DEF Next, Process, McStep, User, SigChld, FeedStep, FeedChecks, FeedEnters,
         FeedReadsCwd, FeedTimesOut, Synchronize, Continue, BufferStep, AskBuffer, AskCursor,
         BufferTaken, GiveUpBuffer, RepairFed, BufferTested, CallStep, InitSubshell, InitFed,
         Inited, ChdirSkipped, ChdirCleared, ChdirFed, InvokeToggle, InvokePersistent,
         WriteCommand, RunFed, Restart, QuitAsked, Adopt, Toggle, Execute, ChangeDir,
         FeedPassesLine, FeedSwitches, SendCd, process, control, vars
    <2> QED
      BY <2>1, <2>2, <2>3, <2>4
  <1>2. TInv /\ LInv /\ [Next]_vars => [shell = "run" /\ job.kind = "user" /\ shell' = "pwd" => pc' = pc]_vars
    BY <1>1
  <1> QED
    BY <1>2, Invariance, PTL DEF Spec, UserNotInterrupted

=============================================================================
