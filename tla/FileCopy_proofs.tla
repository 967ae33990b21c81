--------------------------- MODULE FileCopy_proofs ---------------------------
(***************************************************************************)
(* What FileCopy promises for every number of files, chunks and jobs.      *)
(***************************************************************************)
EXTENDS FileCopy, FiniteSetTheorems, TLAPS

\* The circumstances under which a move loses nothing.  Each of them excludes a
\* way in which the code is known to remove a source whose data has not arrived.
Careful(j) ==
  /\ "reget" \notin j.replaces                        \* a stale or sticky offset
  /\ "target" \notin j.unsupported /\ "setflags" \notin j.failures
                                                      \* FILE_CONT over a kept short file
  /\ ~(j.intruder /\ "source" \in j.unsupported)      \* EEXIST with FILE_CONT left over
  /\ "ignore_all" \notin j.errors \/ \A f \in Files : j.kind[f] # "special"
                                                      \* mknod that fails unnoticed

BeforeLinks == {"mv_start", "mv_stat", "mv_target", "mv_rename", "start", "stat_target",
                "stat_source", "getflags", "ask", "links"}
BeforeOpen  == {"stat_source", "getflags", "ask", "links", "kind", "open", "seek", "fstat", "creat"}
AfterOpen   == {"clone", "fstat_target", "alloc", "begin", "read", "write", "progress", "short"}
Closing     == {"close_source", "close_target", "query", "settle", "setflags", "finish"}
InCopy      == {"stat_target"} \cup BeforeOpen \cup AfterOpen \cup Closing
Between     == {"next", "mv_ret", "moved", "end"}

\* The offset and the position stay within the file.
Positions ==
  /\ doReget >= -1 /\ pos >= 0
  /\ pc \in InCopy => doReget >= 0
  /\ pc = "write" => pos \in Chunks
  /\ pc # "next" => cur \in 1 .. job.files \/ pc = "end"
  /\ cur <= job.files

TInv == TypeOK /\ Positions

\* Files are handled in order, and the source of the current one stays until the
\* operation on it is over.
SourcesAhead ==
  /\ \A f \in cur + 1 .. job.files : f \in source
  /\ pc \notin Between => cur \in source

\* linklist knows files that have been handled before.
LinksBehind ==
  \A i \in Files : linked[i] # 0 =>
    /\ job.inode[linked[i]] = i /\ linked[i] <= cur
    /\ pc \in BeforeLinks => linked[i] < cur

\* Without Reget every copy starts at the first chunk,
NoOffset ==
  /\ replace # "reget" /\ doReget <= 0
  /\ pc \in {"fstat", "creat", "clone", "fstat_target", "alloc", "begin"} => pos = 0

\* dst_status follows the target,
TargetStatus ==
  /\ pc \in {"stat_target"} \cup BeforeOpen => dstStatus = "none"
  /\ pc \in AfterOpen => dstStatus = "short_query" /\ cur \in present

\* and what has been read has been written, unless the user let it go.
Arrived ==
  /\ pc \in {"read", "progress", "short"} => 1 .. pos \subseteq data[cur] \/ cur \in lossy
  /\ pc = "write" => 1 .. pos - 1 \subseteq data[cur] \/ cur \in lossy
  /\ pc \in Closing /\ dstStatus = "full" => Complete(cur) \/ cur \in lossy

\* A target that was missing is still missing, or giving up on it is not FILE_CONT.
TargetUnseen ==
  pc \in BeforeOpen /\ ~dstExists =>
    IF job.intruder THEN status # "cont" ELSE cur \notin present

\* return_status is not FILE_CONT before there is a target, nor over a short one,
ShortIsFailure ==
  /\ pc \in {"stat_target", "short"} => status # "cont"
  /\ pc \in Closing /\ dstStatus # "full" => status # "cont"

\* so that FILE_CONT at the end of the copy means that the data is safe.
CopiedSurvives ==
  /\ pc = "copied" /\ status = "cont" => Survives(cur)
  /\ pc = "mv_remove" => Survives(cur)

\* ignore_all is never set unless the user may answer so.
IgnoreAllAsked == "ignore_all" \notin job.errors => ~ignoreAll

IInv ==
  /\ TInv /\ Careful(job) /\ SourcesAhead /\ LinksBehind /\ IgnoreAllAsked
  /\ NoOffset /\ TargetStatus /\ Arrived /\ TargetUnseen /\ ShortIsFailure /\ CopiedSurvives
  /\ SafeRemoval

-----------------------------------------------------------------------------
\* What the type of a job says of its fields.
LEMMA JobFacts ==
  ASSUME job \in JobType
  PROVE  /\ job.files \in Files /\ job.op \in {"copy", "move"}
         /\ job.errors \subseteq ErrorReplies /\ job.buttons \subseteq {"cont", "skip", "abort"}
         /\ job.replaces \subseteq ReplaceReplies
         /\ job.shorts \subseteq {"delete", "keep", "continue"}
         /\ job.targets \subseteq SUBSET ({Foreign} \cup Chunks)
         /\ job.inode \in [Files -> Files]
         /\ \A f \in Files : job.inode[f] \in Files
BY DEF JobType

\* The size of a target is a natural number.
LEMMA SizeIsNat ==
  ASSUME TypeOK, NEW f \in Files
  PROVE  Size(f) \in Nat
<1>1. IsFiniteSet(0 .. NChunks) BY SizesAssumption, FS_Interval
<1>2. data[f] \subseteq 0 .. NChunks BY SizesAssumption DEF TypeOK, DiskOK, Foreign, Chunks
<1>3. IsFiniteSet(data[f]) BY <1>1, <1>2, FS_Subset
<1> QED BY <1>3, FS_CardinalityType DEF Size

\* A membership test has a Boolean value.
LEMMA MembershipIsBoolean ==
  ASSUME NEW x, NEW S, NEW y, y = (x \in S)
  PROVE  y \in BOOLEAN
<1>1. CASE x \in S BY <1>1
<1>2. CASE x \notin S BY <1>2
<1> QED BY <1>1, <1>2

\* The initial states are within their types.
LEMMA InitTyped == Init => TInv
<1> SUFFICES ASSUME Init PROVE TInv OBVIOUS
<1> USE SizesAssumption, JobsAssumption DEF Files, Chunks
<1>1. job \in JobType BY DEF Init
<1>2. job.files \in Files /\ job.targets \subseteq SUBSET ({Foreign} \cup Chunks) BY <1>1, JobFacts
<1>3. TypeOK
  <2>1. data \in [Files -> SUBSET ({Foreign} \cup Chunks)] BY <1>2 DEF Init
  <2>2. source \subseteq Files /\ present \subseteq Files /\ marked \subseteq Files
    BY <1>2 DEF Init
  <2>3. ControlOK
    BY <2>2 DEF Init, ControlOK, Labels, Statuses, DestStatuses, ReplaceReplies
  <2>4. FlagsOK BY DEF Init, FlagsOK
  <2>5. DiskOK BY <2>1, <2>2 DEF Init, DiskOK
  <2> QED BY <1>1, <2>3, <2>4, <2>5 DEF TypeOK
<1>4. Positions BY <1>2 DEF Init, Positions, InCopy, BeforeOpen, AfterOpen, Closing
<1> QED BY <1>3, <1>4 DEF TInv

\* Every answer of the replace dialog is a decision, and the state it leaves is
\* within its types.
LEMMA QueryTyped ==
  ASSUME TypeOK, cur \in Files, NEW reget \in Int, NEW proceed, NEW refuse,
         QueryReplace(reget, proceed, refuse)
  PROVE  /\ replace' \in ReplaceReplies /\ status' \in {"cont", "skip", "abort"}
         /\ doReget' \in Int /\ (doReget' = reget \/ doReget' >= 0)
         /\ doAppend' \in BOOLEAN
         /\ answer' \in [Files -> ReplaceReplies \cup {"unasked"}]
         /\ pc' = IF status' = "cont" THEN proceed ELSE refuse
<1>1. PICK r \in ReplaceChoices :
        /\ replace' = r /\ status' \in Verdicts(r)
        /\ doReget' = IF r = "reget" THEN Size(cur) ELSE reget
        /\ doAppend' = (doAppend \/ Appends(r))
        /\ answer' = [answer EXCEPT ![cur] = IF status' = "cont" THEN r ELSE "no"]
        /\ pc' = IF status' = "cont" THEN proceed ELSE refuse
  BY DEF QueryReplace
<1>2. r \in ReplaceReplies
  BY JobFacts DEF ReplaceChoices, Offered, TypeOK, ControlOK
<1>3. Verdicts(r) \subseteq {"cont", "skip", "abort"}
  BY <1>2 DEF ReplaceReplies, Verdicts
<1>4. Size(cur) \in Nat BY SizeIsNat
<1>5. doAppend' \in BOOLEAN
  <2>1. doAppend \in BOOLEAN BY DEF TypeOK, FlagsOK
  <2> QED BY <1>1, <2>1 DEF Appends
<1>6. (IF status' = "cont" THEN r ELSE "no") \in ReplaceReplies \cup {"unasked"}
  BY <1>2 DEF ReplaceReplies
<1>7. answer' \in [Files -> ReplaceReplies \cup {"unasked"}]
  <2>1. answer \in [Files -> ReplaceReplies \cup {"unasked"}] BY DEF TypeOK, DiskOK
  <2> QED BY <1>1, <1>6, <2>1
<1> QED BY <1>1, <1>2, <1>3, <1>4, <1>5, <1>7

\* Every step keeps the state within its types.
LEMMA TypeStep == TInv /\ [Next]_vars => TInv'
<1> SUFFICES ASSUME TInv, [Next]_vars PROVE TInv' OBVIOUS
<1> USE SizesAssumption DEF TInv, TypeOK, Positions, panel, options, ctx, place, local, disk, hist, Goto, Files,
      Chunks, Foreign, Labels, Statuses, DestStatuses, ErrorReplies, InCopy, BeforeOpen, AfterOpen,
      Closing
<1>a. job \in JobType BY DEF TypeOK
<1>b. job.files \in Files /\ job.op \in {"copy", "move"} /\ job.errors \subseteq ErrorReplies
      /\ job.buttons \subseteq {"cont", "skip", "abort"} /\ job.replaces \subseteq ReplaceReplies
  BY <1>a, JobFacts
<1>c. \A f \in Files : job.inode[f] \in Files BY <1>a, JobFacts
<1>d. \A f \in Files : Size(f) \in Nat BY SizeIsNat
<1>e. pc \notin {"next", "end"} => cur \in Files BY <1>b
<1>1. CASE NextFile
  <2>1. ControlOK' BY <1>1, <1>b, <1>e DEF NextFile, ControlOK
  <2>2. FlagsOK' BY <1>1 DEF NextFile, FlagsOK
  <2>3. DiskOK' BY <1>1, <1>b, <1>e DEF NextFile, ControlOK, DiskOK
  <2>4. Positions' BY <1>1, <1>b, <1>e DEF NextFile, ControlOK
  <2>5. job' = job BY <1>1 DEF NextFile
  <2> QED BY <2>1, <2>2, <2>3, <2>4, <2>5 DEF TypeOK
<1>2. CASE FileDone
  BY <1>2, <1>b, <1>e DEF FileDone, Unmarks, ControlOK, FlagsOK, DiskOK
<1>3. CASE MoveStart
  BY <1>3, <1>b, <1>e DEF MoveStart, ControlOK, FlagsOK, DiskOK
<1>4. CASE MoveStatSource
  <2>1. ControlOK' BY <1>4, <1>b, <1>e DEF MoveStatSource, ReportError, ControlOK
  <2>2. FlagsOK' BY <1>4 DEF MoveStatSource, ReportError, FlagsOK
  <2>3. DiskOK' BY <1>4, <1>b, <1>e DEF MoveStatSource, ReportError, ControlOK, DiskOK
  <2>4. Positions' BY <1>4, <1>b, <1>e DEF MoveStatSource, ReportError, ControlOK
  <2>5. job' = job BY <1>4 DEF MoveStatSource
  <2> QED BY <2>1, <2>2, <2>3, <2>4, <2>5 DEF TypeOK
<1>5. CASE MoveTarget
  <2>a. cur \in Files /\ doReget \in Int /\ 0 \in Int BY <1>5, <1>e DEF MoveTarget, ControlOK
  <2>b. CASE QueryReplace(doReget, "mv_rename", "mv_ret")
    <3>1. /\ replace' \in ReplaceReplies /\ status' \in {"cont", "skip", "abort"}
          /\ doReget' \in Int /\ (doReget' = doReget \/ doReget' >= 0)
          /\ doAppend' \in BOOLEAN /\ answer' \in [Files -> ReplaceReplies \cup {"unasked"}]
          /\ pc' = IF status' = "cont" THEN "mv_rename" ELSE "mv_ret"
      BY <2>a, <2>b, QueryTyped
    <3>2. ControlOK' BY <1>5, <1>b, <1>d, <2>a, <3>1 DEF MoveTarget, ControlOK
    <3>3. FlagsOK' BY <1>5, <3>1 DEF MoveTarget, FlagsOK
    <3>4. DiskOK' BY <1>5, <3>1 DEF MoveTarget, DiskOK
    <3>5. Positions' BY <1>5, <1>b, <1>d, <2>a, <3>1 DEF MoveTarget, ControlOK
    <3> QED BY <1>5, <3>2, <3>3, <3>4, <3>5 DEF MoveTarget
  <2>c. CASE ~QueryReplace(doReget, "mv_rename", "mv_ret")
    <3>2. ControlOK' BY <1>5, <1>b, <1>d, <2>a, <2>c DEF MoveTarget, CheckSameFile, ControlOK
    <3>3. FlagsOK' BY <1>5, <2>c DEF MoveTarget, CheckSameFile, FlagsOK
    <3>4. DiskOK' BY <1>5, <2>c DEF MoveTarget, CheckSameFile, DiskOK
    <3>5. Positions' BY <1>5, <1>b, <1>d, <2>a, <2>c DEF MoveTarget, CheckSameFile, ControlOK
    <3> QED BY <1>5, <3>2, <3>3, <3>4, <3>5 DEF MoveTarget, CheckSameFile
  <2> QED BY <2>b, <2>c
<1>6. CASE MoveRename
  BY <1>6, <1>b, <1>e DEF MoveRename, ControlOK, FlagsOK, DiskOK
<1>7. CASE MoveByCopy
  BY <1>7, <1>b, <1>e DEF MoveByCopy, ControlOK, FlagsOK, DiskOK
<1>8. CASE MoveSymlink
  <2>1. ControlOK' BY <1>8, <1>b, <1>e DEF MoveSymlink, ReportError, ControlOK
  <2>2. FlagsOK' BY <1>8 DEF MoveSymlink, ReportError, FlagsOK
  <2>3. DiskOK'
    <3>1. cur \in Files BY <1>8, <1>e DEF MoveSymlink
    <3>2. data' \in {data, [data EXCEPT ![cur] = Chunks]} BY <1>8 DEF MoveSymlink, ReportError
    <3>3. data' \in [Files -> SUBSET ({Foreign} \cup Chunks)] BY <3>1, <3>2 DEF DiskOK
    <3>4. present' \subseteq Files /\ created' \subseteq Files BY <1>8, <3>1 DEF MoveSymlink, ReportError, DiskOK
    <3> QED BY <1>8, <3>3, <3>4 DEF MoveSymlink, DiskOK
  <2>4. Positions' BY <1>8, <1>b, <1>e DEF MoveSymlink, ReportError, ControlOK
  <2>5. job' = job BY <1>8 DEF MoveSymlink
  <2> QED BY <2>1, <2>2, <2>3, <2>4, <2>5 DEF TypeOK
<1>9. CASE MoveCopied
  <2>1. ControlOK' BY <1>9, <1>b, <1>e DEF MoveCopied, CopySucceeded, ControlOK
  <2>2. FlagsOK' BY <1>9 DEF MoveCopied, CopySucceeded, FlagsOK
  <2>3. DiskOK' BY <1>9, <1>b, <1>e DEF MoveCopied, CopySucceeded, ControlOK, DiskOK
  <2>4. Positions' BY <1>9, <1>b, <1>e DEF MoveCopied, CopySucceeded, ControlOK
  <2>5. job' = job BY <1>9 DEF MoveCopied
  <2> QED BY <2>1, <2>2, <2>3, <2>4, <2>5 DEF TypeOK
<1>10. CASE MoveRemoveSource
  <2>1. ControlOK' BY <1>10, <1>b, <1>e DEF MoveRemoveSource, ReportError, ControlOK
  <2>2. FlagsOK' BY <1>10 DEF MoveRemoveSource, ReportError, FlagsOK
  <2>3. DiskOK' BY <1>10, <1>b, <1>e DEF MoveRemoveSource, ReportError, ControlOK, DiskOK
  <2>4. Positions' BY <1>10, <1>b, <1>e DEF MoveRemoveSource, ReportError, ControlOK
  <2>5. job' = job BY <1>10 DEF MoveRemoveSource
  <2> QED BY <2>1, <2>2, <2>3, <2>4, <2>5 DEF TypeOK
<1>11. CASE MoveReturn
  <2>1. ControlOK' BY <1>11, <1>b, <1>e DEF MoveReturn, MoveResult, ControlOK
  <2>2. FlagsOK' BY <1>11 DEF MoveReturn, MoveResult, FlagsOK
  <2>3. DiskOK' BY <1>11, <1>b, <1>e DEF MoveReturn, MoveResult, ControlOK, DiskOK
  <2>4. Positions' BY <1>11, <1>b, <1>e DEF MoveReturn, MoveResult, ControlOK
  <2>5. job' = job BY <1>11 DEF MoveReturn
  <2> QED BY <2>1, <2>2, <2>3, <2>4, <2>5 DEF TypeOK
<1>12. CASE CopyStart
  <2>1. ControlOK' BY <1>12, <1>b, <1>e DEF CopyStart, ControlOK
  <2>2. FlagsOK' BY <1>12 DEF CopyStart, FlagsOK
  <2>3. DiskOK' BY <1>12, <1>b, <1>e DEF CopyStart, ControlOK, DiskOK
  <2>4. Positions' BY <1>12, <1>b, <1>e DEF CopyStart, ControlOK
  <2>5. job' = job BY <1>12 DEF CopyStart
  <2> QED BY <2>1, <2>2, <2>3, <2>4, <2>5 DEF TypeOK
<1>13. CASE StatTarget
  <2>1. ControlOK' BY <1>13, <1>b, <1>e DEF StatTarget, ReportError, ControlOK
  <2>2. FlagsOK'
    <3>1. dstExists' = (cur \in present) \/ dstExists' = dstExists BY <1>13, Zenon DEF StatTarget
    <3>2. dstExists \in BOOLEAN BY DEF FlagsOK
    <3>3. dstExists' \in BOOLEAN BY <3>1, <3>2, MembershipIsBoolean
    <3> QED BY <1>13, <3>3 DEF StatTarget, ReportError, FlagsOK
  <2>3. DiskOK' BY <1>13, <1>b, <1>e DEF StatTarget, ReportError, ControlOK, DiskOK
  <2>4. Positions' BY <1>13, <1>b, <1>e DEF StatTarget, ReportError, ControlOK
  <2>5. job' = job BY <1>13 DEF StatTarget
  <2> QED BY <2>1, <2>2, <2>3, <2>4, <2>5 DEF TypeOK
<1>14. CASE StatSource
  <2>1. ControlOK' BY <1>14, <1>b, <1>e DEF StatSource, ReportError, ControlOK
  <2>2. FlagsOK' BY <1>14 DEF StatSource, ReportError, FlagsOK
  <2>3. DiskOK' BY <1>14, <1>b, <1>e DEF StatSource, ReportError, ControlOK, DiskOK
  <2>4. Positions' BY <1>14, <1>b, <1>e DEF StatSource, ReportError, ControlOK
  <2>5. job' = job BY <1>14 DEF StatSource
  <2> QED BY <2>1, <2>2, <2>3, <2>4, <2>5 DEF TypeOK
<1>15. CASE GetFlags
  <2>1. ControlOK' BY <1>15, <1>b, <1>e DEF GetFlags, ReportError, ControlOK
  <2>2. FlagsOK' BY <1>15 DEF GetFlags, ReportError, FlagsOK
  <2>3. DiskOK' BY <1>15, <1>b, <1>e DEF GetFlags, ReportError, ControlOK, DiskOK
  <2>4. Positions' BY <1>15, <1>b, <1>e DEF GetFlags, ReportError, ControlOK
  <2>5. job' = job BY <1>15 DEF GetFlags
  <2> QED BY <2>1, <2>2, <2>3, <2>4, <2>5 DEF TypeOK
<1>16. CASE AskOverwrite
  <2>a. cur \in Files /\ doReget \in Int /\ 0 \in Int BY <1>16, <1>e DEF AskOverwrite, ControlOK
  <2>b. CASE QueryReplace(0, "links", "copied")
    <3>1. /\ replace' \in ReplaceReplies /\ status' \in {"cont", "skip", "abort"}
          /\ doReget' \in Int /\ (doReget' = 0 \/ doReget' >= 0)
          /\ doAppend' \in BOOLEAN /\ answer' \in [Files -> ReplaceReplies \cup {"unasked"}]
          /\ pc' = IF status' = "cont" THEN "links" ELSE "copied"
      BY <2>a, <2>b, QueryTyped
    <3>2. ControlOK' BY <1>16, <1>b, <1>d, <2>a, <3>1 DEF AskOverwrite, ControlOK
    <3>3. FlagsOK' BY <1>16, <3>1 DEF AskOverwrite, FlagsOK
    <3>4. DiskOK' BY <1>16, <3>1 DEF AskOverwrite, DiskOK
    <3>5. Positions' BY <1>16, <1>b, <1>d, <2>a, <3>1 DEF AskOverwrite, ControlOK
    <3> QED BY <1>16, <3>2, <3>3, <3>4, <3>5 DEF AskOverwrite
  <2>c. CASE ~QueryReplace(0, "links", "copied")
    <3>2. ControlOK' BY <1>16, <1>b, <1>d, <2>a, <2>c DEF AskOverwrite, CheckSameFile, ControlOK
    <3>3. FlagsOK' BY <1>16, <2>c DEF AskOverwrite, CheckSameFile, FlagsOK
    <3>4. DiskOK' BY <1>16, <2>c DEF AskOverwrite, CheckSameFile, DiskOK
    <3>5. Positions' BY <1>16, <1>b, <1>d, <2>a, <2>c DEF AskOverwrite, CheckSameFile, ControlOK
    <3> QED BY <1>16, <3>2, <3>3, <3>4, <3>5 DEF AskOverwrite, CheckSameFile
  <2> QED BY <2>b, <2>c
<1>17. CASE PassLinks
  <2>1. ControlOK' BY <1>17, <1>b, <1>c, <1>e DEF PassLinks, HasLinks, Linked, ControlOK
  <2>2. FlagsOK' BY <1>17 DEF PassLinks, HasLinks, Linked, FlagsOK
  <2>3. DiskOK' BY <1>17, <1>b, <1>c, <1>e DEF PassLinks, HasLinks, Linked, ControlOK, DiskOK
  <2>4. Positions' BY <1>17, <1>b, <1>c, <1>e DEF PassLinks, HasLinks, Linked, ControlOK
  <2>5. job' = job BY <1>17 DEF PassLinks
  <2> QED BY <2>1, <2>2, <2>3, <2>4, <2>5 DEF TypeOK
<1>18. CASE MakeHardlink
  <2>1. ControlOK' BY <1>18, <1>b, <1>c, <1>e DEF MakeHardlink, HasLinks, Linked, FirstLinkThere, TargetFree, ControlOK
  <2>2. FlagsOK' BY <1>18 DEF MakeHardlink, HasLinks, Linked, FirstLinkThere, TargetFree, FlagsOK
  <2>3. DiskOK' BY <1>18, <1>b, <1>c, <1>e DEF MakeHardlink, HasLinks, Linked, FirstLinkThere, TargetFree, ControlOK, DiskOK
  <2>4. Positions' BY <1>18, <1>b, <1>c, <1>e DEF MakeHardlink, HasLinks, Linked, FirstLinkThere, TargetFree, ControlOK
  <2>5. job' = job BY <1>18 DEF MakeHardlink
  <2> QED BY <2>1, <2>2, <2>3, <2>4, <2>5 DEF TypeOK
<1>19. CASE LinkFailed
  <2>1. ControlOK' BY <1>19, <1>b, <1>c, <1>e DEF LinkFailed, HasLinks, Linked, ControlOK
  <2>2. FlagsOK' BY <1>19 DEF LinkFailed, HasLinks, Linked, FlagsOK
  <2>3. DiskOK' BY <1>19, <1>b, <1>c, <1>e DEF LinkFailed, HasLinks, Linked, ControlOK, DiskOK
  <2>4. Positions' BY <1>19, <1>b, <1>c, <1>e DEF LinkFailed, HasLinks, Linked, ControlOK
  <2>5. job' = job BY <1>19 DEF LinkFailed
  <2> QED BY <2>1, <2>2, <2>3, <2>4, <2>5 DEF TypeOK
<1>20. CASE CopyRegular
  BY <1>20, <1>b, <1>e DEF CopyRegular, ControlOK, FlagsOK, DiskOK
<1>21. CASE CopySymlink
  <2>1. ControlOK' BY <1>21, <1>b, <1>e DEF CopySymlink, TargetFree, ReportError, ControlOK
  <2>2. FlagsOK' BY <1>21 DEF CopySymlink, TargetFree, ReportError, FlagsOK
  <2>3. DiskOK'
    <3>1. cur \in Files BY <1>21, <1>e DEF CopySymlink
    <3>2. data' \in {data, [data EXCEPT ![cur] = Chunks]} BY <1>21 DEF CopySymlink, TargetFree, ReportError
    <3>3. data' \in [Files -> SUBSET ({Foreign} \cup Chunks)] BY <3>1, <3>2 DEF DiskOK
    <3>4. present' \subseteq Files /\ created' \subseteq Files BY <1>21, <3>1 DEF CopySymlink, TargetFree, ReportError, DiskOK
    <3> QED BY <1>21, <3>3, <3>4 DEF CopySymlink, DiskOK
  <2>4. Positions' BY <1>21, <1>b, <1>e DEF CopySymlink, TargetFree, ReportError, ControlOK
  <2>5. job' = job BY <1>21 DEF CopySymlink
  <2> QED BY <2>1, <2>2, <2>3, <2>4, <2>5 DEF TypeOK
<1>22. CASE CopySpecial
  <2>1. ControlOK' BY <1>22, <1>b, <1>e DEF CopySpecial, TargetFree, ReportError, ControlOK
  <2>2. FlagsOK' BY <1>22 DEF CopySpecial, TargetFree, ReportError, FlagsOK
  <2>3. DiskOK'
    <3>1. cur \in Files BY <1>22, <1>e DEF CopySpecial
    <3>2. data' \in {data, [data EXCEPT ![cur] = Chunks]} BY <1>22 DEF CopySpecial, TargetFree, ReportError
    <3>3. data' \in [Files -> SUBSET ({Foreign} \cup Chunks)] BY <3>1, <3>2 DEF DiskOK
    <3>4. present' \subseteq Files /\ created' \subseteq Files BY <1>22, <3>1 DEF CopySpecial, TargetFree, ReportError, DiskOK
    <3> QED BY <1>22, <3>3, <3>4 DEF CopySpecial, DiskOK
  <2>4. Positions' BY <1>22, <1>b, <1>e DEF CopySpecial, TargetFree, ReportError, ControlOK
  <2>5. job' = job BY <1>22 DEF CopySpecial
  <2> QED BY <2>1, <2>2, <2>3, <2>4, <2>5 DEF TypeOK
<1>23. CASE OpenSource
  <2>1. ControlOK' BY <1>23, <1>b, <1>e DEF OpenSource, GiveUpAppend, ReportError, ControlOK
  <2>2. FlagsOK' BY <1>23 DEF OpenSource, GiveUpAppend, ReportError, FlagsOK
  <2>3. DiskOK' BY <1>23, <1>b, <1>e DEF OpenSource, GiveUpAppend, ReportError, ControlOK, DiskOK
  <2>4. Positions' BY <1>23, <1>b, <1>e DEF OpenSource, GiveUpAppend, ReportError, ControlOK
  <2>5. job' = job BY <1>23 DEF OpenSource
  <2> QED BY <2>1, <2>2, <2>3, <2>4, <2>5 DEF TypeOK
<1>24. CASE SeekSource
  <2>1. ControlOK' BY <1>24, <1>b, <1>e DEF SeekSource, ControlOK
  <2>2. FlagsOK' BY <1>24 DEF SeekSource, FlagsOK
  <2>3. DiskOK' BY <1>24, <1>b, <1>e DEF SeekSource, ControlOK, DiskOK
  <2>4. Positions' BY <1>24, <1>b, <1>e DEF SeekSource, ControlOK
  <2>5. job' = job BY <1>24 DEF SeekSource
  <2> QED BY <2>1, <2>2, <2>3, <2>4, <2>5 DEF TypeOK
<1>25. CASE FstatSource
  <2>1. ControlOK' BY <1>25, <1>b, <1>e DEF FstatSource, GiveUpAppend, ReportError, ControlOK
  <2>2. FlagsOK' BY <1>25 DEF FstatSource, GiveUpAppend, ReportError, FlagsOK
  <2>3. DiskOK' BY <1>25, <1>b, <1>e DEF FstatSource, GiveUpAppend, ReportError, ControlOK, DiskOK
  <2>4. Positions' BY <1>25, <1>b, <1>e DEF FstatSource, GiveUpAppend, ReportError, ControlOK
  <2>5. job' = job BY <1>25 DEF FstatSource
  <2> QED BY <2>1, <2>2, <2>3, <2>4, <2>5 DEF TypeOK
<1>26. CASE OpenTarget
  BY <1>26, <1>b, <1>e DEF OpenTarget, MayOpen, Truncates, ControlOK, FlagsOK, DiskOK
<1>27. CASE TargetAppeared
  BY <1>27, <1>b, <1>e DEF TargetAppeared, ControlOK, FlagsOK, DiskOK
<1>28. CASE OpenTargetFailed
  BY <1>28, <1>b, <1>e DEF OpenTargetFailed, GiveUpAppend, ReportError, ControlOK, FlagsOK, DiskOK
<1>29. CASE CloneFile
  <2>1. ControlOK' BY <1>29, <1>b, <1>e DEF CloneFile, ControlOK
  <2>2. FlagsOK' BY <1>29 DEF CloneFile, FlagsOK
  <2>3. DiskOK'
    <3>1. cur \in Files BY <1>29, <1>e DEF CloneFile
    <3>2. data' \in {data, [data EXCEPT ![cur] = Chunks]} BY <1>29 DEF CloneFile
    <3>3. data' \in [Files -> SUBSET ({Foreign} \cup Chunks)] BY <3>1, <3>2 DEF DiskOK
    <3>4. present' \subseteq Files /\ created' \subseteq Files BY <1>29, <3>1 DEF CloneFile, DiskOK
    <3> QED BY <1>29, <3>3, <3>4 DEF CloneFile, DiskOK
  <2>4. Positions' BY <1>29, <1>b, <1>e DEF CloneFile, ControlOK
  <2>5. job' = job BY <1>29 DEF CloneFile
  <2> QED BY <2>1, <2>2, <2>3, <2>4, <2>5 DEF TypeOK
<1>30. CASE FstatTarget
  <2>1. ControlOK' BY <1>30, <1>b, <1>e DEF FstatTarget, ReportError, ControlOK
  <2>2. FlagsOK' BY <1>30 DEF FstatTarget, ReportError, FlagsOK
  <2>3. DiskOK' BY <1>30, <1>b, <1>e DEF FstatTarget, ReportError, ControlOK, DiskOK
  <2>4. Positions' BY <1>30, <1>b, <1>e DEF FstatTarget, ReportError, ControlOK
  <2>5. job' = job BY <1>30 DEF FstatTarget
  <2> QED BY <2>1, <2>2, <2>3, <2>4, <2>5 DEF TypeOK
<1>31. CASE PreallocateTarget
  <2>1. ControlOK' BY <1>31, <1>b, <1>e DEF PreallocateTarget, ControlOK
  <2>2. FlagsOK' BY <1>31 DEF PreallocateTarget, FlagsOK
  <2>3. DiskOK' BY <1>31, <1>b, <1>e DEF PreallocateTarget, ControlOK, DiskOK
  <2>4. Positions' BY <1>31, <1>b, <1>e DEF PreallocateTarget, ControlOK
  <2>5. job' = job BY <1>31 DEF PreallocateTarget
  <2> QED BY <2>1, <2>2, <2>3, <2>4, <2>5 DEF TypeOK
<1>32. CASE BeginLoop
  <2>1. ControlOK' BY <1>32, <1>b, <1>e DEF BeginLoop, ControlOK
  <2>2. FlagsOK' BY <1>32 DEF BeginLoop, FlagsOK
  <2>3. DiskOK' BY <1>32, <1>b, <1>e DEF BeginLoop, ControlOK, DiskOK
  <2>4. Positions' BY <1>32, <1>b, <1>e DEF BeginLoop, ControlOK
  <2>5. job' = job BY <1>32 DEF BeginLoop
  <2> QED BY <2>1, <2>2, <2>3, <2>4, <2>5 DEF TypeOK
<1>33. CASE ReadChunk
  <2>1. ControlOK' BY <1>33, <1>b, <1>e DEF ReadChunk, EndOfFile, NextPos, ControlOK
  <2>2. FlagsOK' BY <1>33 DEF ReadChunk, EndOfFile, NextPos, FlagsOK
  <2>3. DiskOK' BY <1>33, <1>b, <1>e DEF ReadChunk, EndOfFile, NextPos, ControlOK, DiskOK
  <2>4. Positions' BY <1>33, <1>b, <1>e DEF ReadChunk, EndOfFile, NextPos, ControlOK
  <2>5. job' = job BY <1>33 DEF ReadChunk
  <2> QED BY <2>1, <2>2, <2>3, <2>4, <2>5 DEF TypeOK
<1>34. CASE ReadFailed
  <2>1. ControlOK' BY <1>34, <1>b, <1>e DEF ReadFailed, ReportError, ControlOK
  <2>2. FlagsOK' BY <1>34 DEF ReadFailed, ReportError, FlagsOK
  <2>3. DiskOK' BY <1>34, <1>b, <1>e DEF ReadFailed, ReportError, ControlOK, DiskOK
  <2>4. Positions' BY <1>34, <1>b, <1>e DEF ReadFailed, ReportError, ControlOK
  <2>5. job' = job BY <1>34 DEF ReadFailed
  <2> QED BY <2>1, <2>2, <2>3, <2>4, <2>5 DEF TypeOK
<1>35. CASE WriteChunk
  <2>1. ControlOK' BY <1>35, <1>b, <1>e DEF WriteChunk, ControlOK
  <2>2. FlagsOK' BY <1>35 DEF WriteChunk, FlagsOK
  <2>3. DiskOK' BY <1>35, <1>b, <1>e DEF WriteChunk, ControlOK, DiskOK
  <2>4. Positions' BY <1>35, <1>b, <1>e DEF WriteChunk, ControlOK
  <2>5. job' = job BY <1>35 DEF WriteChunk
  <2> QED BY <2>1, <2>2, <2>3, <2>4, <2>5 DEF TypeOK
<1>36. CASE WriteFailed
  <2>1. ControlOK' BY <1>36, <1>b, <1>e DEF WriteFailed, ReportError, ControlOK
  <2>2. FlagsOK' BY <1>36 DEF WriteFailed, ReportError, FlagsOK
  <2>3. DiskOK' BY <1>36, <1>b, <1>e DEF WriteFailed, ReportError, ControlOK, DiskOK
  <2>4. Positions' BY <1>36, <1>b, <1>e DEF WriteFailed, ReportError, ControlOK
  <2>5. job' = job BY <1>36 DEF WriteFailed
  <2> QED BY <2>1, <2>2, <2>3, <2>4, <2>5 DEF TypeOK
<1>37. CASE ShowProgress
  BY <1>37, <1>b, <1>e DEF ShowProgress, ControlOK, FlagsOK, DiskOK
<1>38. CASE AskShort
  <2>1. ControlOK'
    <3>1. PICK s \in job.shorts :
            /\ dstStatus' = CASE s = "delete" -> "short_delete" [] s = "keep" -> "short_keep"
                              [] s = "continue" -> dstStatus
            /\ pc' = IF s = "continue" THEN "read" ELSE "close_source"
      BY <1>38 DEF AskShort
    <3>2. s \in {"delete", "keep", "continue"} BY <1>a DEF JobType
    <3>3. dstStatus' \in DestStatuses BY <3>1, <3>2 DEF ControlOK
    <3> QED BY <1>38, <3>1, <3>3 DEF AskShort, ControlOK
  <2>2. FlagsOK' BY <1>38 DEF AskShort, FlagsOK
  <2>3. DiskOK' BY <1>38, <1>b, <1>e DEF AskShort, ControlOK, DiskOK
  <2>4. Positions' BY <1>38, <1>b, <1>e DEF AskShort, ControlOK
  <2>5. job' = job BY <1>38 DEF AskShort
  <2> QED BY <2>1, <2>2, <2>3, <2>4, <2>5 DEF TypeOK
<1>39. CASE CloseSource
  <2>1. ControlOK' BY <1>39, <1>b, <1>e DEF CloseSource, ControlOK
  <2>2. FlagsOK' BY <1>39 DEF CloseSource, FlagsOK
  <2>3. DiskOK' BY <1>39, <1>b, <1>e DEF CloseSource, ControlOK, DiskOK
  <2>4. Positions' BY <1>39, <1>b, <1>e DEF CloseSource, ControlOK
  <2>5. job' = job BY <1>39 DEF CloseSource
  <2> QED BY <2>1, <2>2, <2>3, <2>4, <2>5 DEF TypeOK
<1>40. CASE CloseTarget
  <2>1. ControlOK' BY <1>40, <1>b, <1>e DEF CloseTarget, ControlOK
  <2>2. FlagsOK' BY <1>40 DEF CloseTarget, FlagsOK
  <2>3. DiskOK' BY <1>40, <1>b, <1>e DEF CloseTarget, ControlOK, DiskOK
  <2>4. Positions' BY <1>40, <1>b, <1>e DEF CloseTarget, ControlOK
  <2>5. job' = job BY <1>40 DEF CloseTarget
  <2> QED BY <2>1, <2>2, <2>3, <2>4, <2>5 DEF TypeOK
<1>41. CASE QueryShort
  <2>1. ControlOK' BY <1>41, <1>b, <1>e DEF QueryShort, ControlOK
  <2>2. FlagsOK' BY <1>41 DEF QueryShort, FlagsOK
  <2>3. DiskOK' BY <1>41, <1>b, <1>e DEF QueryShort, ControlOK, DiskOK
  <2>4. Positions' BY <1>41, <1>b, <1>e DEF QueryShort, ControlOK
  <2>5. job' = job BY <1>41 DEF QueryShort
  <2> QED BY <2>1, <2>2, <2>3, <2>4, <2>5 DEF TypeOK
<1>42. CASE Settle
  <2>1. ControlOK' BY <1>42, <1>b, <1>e DEF Settle, ControlOK
  <2>2. FlagsOK' BY <1>42 DEF Settle, FlagsOK
  <2>3. DiskOK' BY <1>42, <1>b, <1>e DEF Settle, ControlOK, DiskOK
  <2>4. Positions' BY <1>42, <1>b, <1>e DEF Settle, ControlOK
  <2>5. job' = job BY <1>42 DEF Settle
  <2> QED BY <2>1, <2>2, <2>3, <2>4, <2>5 DEF TypeOK
<1>43. CASE SetFlags
  <2>1. ControlOK' BY <1>43, <1>b, <1>e DEF SetFlags, FlagsFail, ControlOK
  <2>2. FlagsOK' BY <1>43 DEF SetFlags, FlagsFail, FlagsOK
  <2>3. DiskOK' BY <1>43, <1>b, <1>e DEF SetFlags, FlagsFail, ControlOK, DiskOK
  <2>4. Positions' BY <1>43, <1>b, <1>e DEF SetFlags, FlagsFail, ControlOK
  <2>5. job' = job BY <1>43 DEF SetFlags
  <2> QED BY <2>1, <2>2, <2>3, <2>4, <2>5 DEF TypeOK
<1>44. CASE CopyFinish
  <2>1. ControlOK' BY <1>44, <1>b, <1>e DEF CopyFinish, ControlOK
  <2>2. FlagsOK' BY <1>44 DEF CopyFinish, FlagsOK
  <2>3. DiskOK' BY <1>44, <1>b, <1>e DEF CopyFinish, ControlOK, DiskOK
  <2>4. Positions' BY <1>44, <1>b, <1>e DEF CopyFinish, ControlOK
  <2>5. job' = job BY <1>44 DEF CopyFinish
  <2> QED BY <2>1, <2>2, <2>3, <2>4, <2>5 DEF TypeOK
<1>45. CASE Finished BY <1>45 DEF Finished, vars, ControlOK, FlagsOK, DiskOK
<1>46. ASSUME NEW f \in Files, CreateMeanwhile(f) PROVE TInv'
  <2>1. ControlOK' /\ FlagsOK' BY <1>46 DEF CreateMeanwhile, ControlOK, FlagsOK
  <2>2. DiskOK' BY <1>46 DEF CreateMeanwhile, DiskOK
  <2>3. Positions' BY <1>46 DEF CreateMeanwhile
  <2> QED BY <1>46, <2>1, <2>2, <2>3 DEF CreateMeanwhile
<1>47. CASE UNCHANGED vars BY <1>47 DEF vars, ControlOK, FlagsOK, DiskOK
<1> QED
  BY <1>1, <1>2, <1>3, <1>4, <1>5, <1>6, <1>7, <1>8, <1>9, <1>10, <1>11, <1>12, <1>13, <1>14, <1>15, <1>16, <1>17, <1>18, <1>19, <1>20, <1>21, <1>22, <1>23, <1>24, <1>25, <1>26, <1>27, <1>28, <1>29, <1>30, <1>31, <1>32, <1>33, <1>34, <1>35, <1>36, <1>37, <1>38, <1>39, <1>40, <1>41, <1>42, <1>43, <1>44, <1>45, <1>46, <1>47
  DEF Next, Step, Panel, Move, Prepare, Open, Loop, Leave

\* FileCopy keeps to its types: no unknown label or status, no chunk in a target
\* that neither the source nor the old target held.
THEOREM TypeCorrect == Spec => []TypeOK
<1>1. Init => TInv BY InitTyped
<1>2. TInv /\ [Next]_vars => TInv' BY TypeStep
<1>3. TInv => TypeOK BY DEF TInv
<1> QED BY <1>1, <1>2, <1>3, PTL DEF Spec

-----------------------------------------------------------------------------
LEMMA SafetyInit == Init /\ Careful(job) => IInv
<1> SUFFICES ASSUME Init, Careful(job) PROVE IInv OBVIOUS
<1>1. TInv BY InitTyped
<1>2. job.files \in Files BY <1>1, JobFacts DEF TInv, TypeOK
<1> USE SizesAssumption DEF Init, Files
<1>3. SourcesAhead BY <1>2 DEF SourcesAhead, Between
<1>4. LinksBehind /\ IgnoreAllAsked BY DEF LinksBehind, IgnoreAllAsked
<1>5. NoOffset /\ TargetStatus /\ Arrived
  BY DEF NoOffset, TargetStatus, Arrived, BeforeOpen, AfterOpen, Closing
<1>6. TargetUnseen /\ ShortIsFailure /\ CopiedSurvives
  BY DEF TargetUnseen, ShortIsFailure, CopiedSurvives, BeforeOpen, Closing
<1>7. SafeRemoval BY DEF SafeRemoval
<1> QED BY <1>1, <1>3, <1>4, <1>5, <1>6, <1>7 DEF IInv

\* A dialog about a failure never answers FILE_CONT.
LEMMA ReportFacts ==
  ASSUME job \in JobType, NEW again, NEW giveUp, ReportError(again, giveUp)
  PROVE  /\ status' \in ErrorReplies
         /\ ignoreAll => status' = "ignore_all"
         /\ "ignore_all" \notin job.errors /\ ~ignoreAll => ~ignoreAll'
         /\ pc' = IF status' = "retry" THEN again ELSE giveUp
BY JobFacts DEF ReportError, ErrorReplies

\* What a step of a careful job keeps.
LEMMA SafetyStep == IInv /\ [Next]_vars => IInv'
<1> SUFFICES ASSUME IInv, [Next]_vars PROVE IInv' OBVIOUS
<1> USE SizesAssumption DEF panel, options, ctx, place, local, disk, hist, Goto, Files, Chunks
<1>a. TInv /\ TInv' BY TypeStep DEF IInv
<1>b. job \in JobType /\ ControlOK /\ FlagsOK /\ DiskOK /\ Positions BY <1>a DEF TInv, TypeOK
<1>c. job.files \in Files /\ job.errors \subseteq ErrorReplies
      /\ job.buttons \subseteq {"cont", "skip", "abort"} /\ job.replaces \subseteq ReplaceReplies
      /\ job.shorts \subseteq {"delete", "keep", "continue"}
  BY <1>b, JobFacts
<1>d. job' = job
  BY DEF Next, Step, Panel, Move, Prepare, Open, Loop, Leave, vars, Finished, CreateMeanwhile,
      NextFile, FileDone, MoveStart, MoveStatSource, MoveTarget, MoveRename, MoveByCopy, MoveSymlink, MoveCopied, MoveRemoveSource, MoveReturn, CopyStart, StatTarget, StatSource, GetFlags, AskOverwrite, PassLinks, MakeHardlink, LinkFailed, CopyRegular, CopySymlink, CopySpecial, OpenSource, SeekSource, FstatSource, OpenTarget, TargetAppeared, OpenTargetFailed, CloneFile, FstatTarget, PreallocateTarget, BeginLoop, ReadChunk, ReadFailed, WriteChunk, WriteFailed, ShowProgress, AskShort, CloseSource, CloseTarget, QueryShort, Settle, SetFlags, CopyFinish
<1>e. Careful(job) /\ Careful(job)' BY <1>d DEF IInv
<1>f. pc \notin {"next", "end"} => cur \in Files BY <1>b, <1>c DEF Positions
<1>1. CASE NextFile
  <2>1. (SourcesAhead /\ LinksBehind /\ IgnoreAllAsked)' BY <1>1, <1>b, <1>c, <1>d, <1>e, <1>f DEF
      NextFile, IInv, ControlOK, FlagsOK, DiskOK, Careful, MayFail, SourcesAhead, Between,
      Positions, LinksBehind, BeforeLinks, IgnoreAllAsked
  <2>2. (NoOffset /\ TargetStatus /\ Arrived)' BY <1>1, <1>b, <1>c, <1>d, <1>e, <1>f DEF NextFile,
      IInv, ControlOK, FlagsOK, DiskOK, Careful, MayFail, NoOffset, Positions, InCopy, BeforeOpen,
      TargetStatus, AfterOpen, Arrived, Closing, Complete
  <2>3. (TargetUnseen /\ ShortIsFailure /\ CopiedSurvives)' BY <1>1, <1>b, <1>c, <1>d, <1>e, <1>f
      DEF NextFile, IInv, ControlOK, FlagsOK, DiskOK, Careful, MayFail, TargetUnseen,
      ShortIsFailure, ErrorReplies, BeforeOpen, AfterOpen, TargetStatus, Closing, CopiedSurvives,
      Arrived, LinksBehind, BeforeLinks, Survives, Complete
  <2>4. SafeRemoval' BY <1>1, <1>b, <1>c, <1>d, <1>e, <1>f DEF NextFile, IInv, ControlOK, FlagsOK,
      DiskOK, Careful, MayFail, SafeRemoval, Survives, Complete, SourcesAhead, Between
  <2> QED BY <1>a, <1>e, <2>1, <2>2, <2>3, <2>4 DEF IInv
<1>2. CASE FileDone
  <2>1. (SourcesAhead /\ LinksBehind /\ IgnoreAllAsked)' BY <1>2, <1>b, <1>c, <1>d, <1>e, <1>f DEF
      FileDone, Unmarks, IInv, ControlOK, FlagsOK, DiskOK, Careful, MayFail, SourcesAhead, Between,
      Positions, LinksBehind, BeforeLinks, IgnoreAllAsked
  <2>2. (NoOffset /\ TargetStatus /\ Arrived)' BY <1>2, <1>b, <1>c, <1>d, <1>e, <1>f DEF FileDone,
      Unmarks, IInv, ControlOK, FlagsOK, DiskOK, Careful, MayFail, NoOffset, Positions, InCopy,
      BeforeOpen, TargetStatus, AfterOpen, Arrived, Closing, Complete
  <2>3. (TargetUnseen /\ ShortIsFailure /\ CopiedSurvives)' BY <1>2, <1>b, <1>c, <1>d, <1>e, <1>f
      DEF FileDone, Unmarks, IInv, ControlOK, FlagsOK, DiskOK, Careful, MayFail, TargetUnseen,
      ShortIsFailure, ErrorReplies, BeforeOpen, AfterOpen, TargetStatus, Closing, CopiedSurvives,
      Arrived, LinksBehind, BeforeLinks, Survives, Complete
  <2>4. SafeRemoval' BY <1>2, <1>b, <1>c, <1>d, <1>e, <1>f DEF FileDone, Unmarks, IInv, ControlOK,
      FlagsOK, DiskOK, Careful, MayFail, SafeRemoval, Survives, Complete, SourcesAhead, Between
  <2> QED BY <1>a, <1>e, <2>1, <2>2, <2>3, <2>4 DEF IInv
<1>3. CASE MoveStart
  <2>1. (SourcesAhead /\ LinksBehind /\ IgnoreAllAsked)' BY <1>3, <1>b, <1>c, <1>d, <1>e, <1>f DEF
      MoveStart, IInv, ControlOK, FlagsOK, DiskOK, Careful, MayFail, SourcesAhead, Between,
      Positions, LinksBehind, BeforeLinks, IgnoreAllAsked
  <2>2. (NoOffset /\ TargetStatus /\ Arrived)' BY <1>3, <1>b, <1>c, <1>d, <1>e, <1>f DEF MoveStart,
      IInv, ControlOK, FlagsOK, DiskOK, Careful, MayFail, NoOffset, Positions, InCopy, BeforeOpen,
      TargetStatus, AfterOpen, Arrived, Closing, Complete
  <2>3. (TargetUnseen /\ ShortIsFailure /\ CopiedSurvives)' BY <1>3, <1>b, <1>c, <1>d, <1>e, <1>f
      DEF MoveStart, IInv, ControlOK, FlagsOK, DiskOK, Careful, MayFail, TargetUnseen,
      ShortIsFailure, ErrorReplies, BeforeOpen, AfterOpen, TargetStatus, Closing, CopiedSurvives,
      Arrived, LinksBehind, BeforeLinks, Survives, Complete
  <2>4. SafeRemoval' BY <1>3, <1>b, <1>c, <1>d, <1>e, <1>f DEF MoveStart, IInv, ControlOK, FlagsOK,
      DiskOK, Careful, MayFail, SafeRemoval, Survives, Complete, SourcesAhead, Between
  <2> QED BY <1>a, <1>e, <2>1, <2>2, <2>3, <2>4 DEF IInv
<1>4. CASE MoveStatSource
  <2>1. (SourcesAhead /\ LinksBehind /\ IgnoreAllAsked)' BY <1>4, <1>b, <1>c, <1>d, <1>e, <1>f DEF
      MoveStatSource, ReportError, IInv, ControlOK, FlagsOK, DiskOK, Careful, MayFail, SourcesAhead,
      Between, Positions, LinksBehind, BeforeLinks, IgnoreAllAsked
  <2>2. (NoOffset /\ TargetStatus /\ Arrived)' BY <1>4, <1>b, <1>c, <1>d, <1>e, <1>f DEF
      MoveStatSource, ReportError, IInv, ControlOK, FlagsOK, DiskOK, Careful, MayFail, NoOffset,
      Positions, InCopy, BeforeOpen, TargetStatus, AfterOpen, Arrived, Closing, Complete
  <2>3. (TargetUnseen /\ ShortIsFailure /\ CopiedSurvives)' BY <1>4, <1>b, <1>c, <1>d, <1>e, <1>f
      DEF MoveStatSource, ReportError, IInv, ControlOK, FlagsOK, DiskOK, Careful, MayFail,
      TargetUnseen, ShortIsFailure, ErrorReplies, BeforeOpen, AfterOpen, TargetStatus, Closing,
      CopiedSurvives, Arrived, LinksBehind, BeforeLinks, Survives, Complete
  <2>4. SafeRemoval' BY <1>4, <1>b, <1>c, <1>d, <1>e, <1>f DEF MoveStatSource, ReportError, IInv,
      ControlOK, FlagsOK, DiskOK, Careful, MayFail, SafeRemoval, Survives, Complete, SourcesAhead,
      Between
  <2> QED BY <1>a, <1>e, <2>1, <2>2, <2>3, <2>4 DEF IInv
<1>5. CASE MoveTarget
  <2>1. (SourcesAhead /\ LinksBehind /\ IgnoreAllAsked)' BY <1>5, <1>b, <1>c, <1>d, <1>e, <1>f DEF
      MoveTarget, QueryReplace, ReplaceChoices, Offered, Verdicts, CheckSameFile, Appends, IInv,
      ControlOK, FlagsOK, DiskOK, Careful, MayFail, SourcesAhead, Between, Positions, LinksBehind,
      BeforeLinks, IgnoreAllAsked
  <2>2. (NoOffset /\ TargetStatus /\ Arrived)' BY <1>5, <1>b, <1>c, <1>d, <1>e, <1>f, SMTT(30)
      DEF MoveTarget,
      QueryReplace, ReplaceChoices, Offered, Verdicts, CheckSameFile, Appends, IInv, ControlOK,
      FlagsOK, DiskOK, Careful, MayFail, NoOffset, Positions, InCopy, BeforeOpen, TargetStatus,
      AfterOpen, Arrived, Closing, Complete
  <2>3. (TargetUnseen /\ ShortIsFailure /\ CopiedSurvives)' BY <1>5, <1>b, <1>c, <1>d, <1>e, <1>f
      DEF MoveTarget, QueryReplace, ReplaceChoices, Offered, Verdicts, CheckSameFile, Appends, IInv,
      ControlOK, FlagsOK, DiskOK, Careful, MayFail, TargetUnseen, ShortIsFailure, ErrorReplies,
      BeforeOpen, AfterOpen, TargetStatus, Closing, CopiedSurvives, Arrived, LinksBehind,
      BeforeLinks, Survives, Complete
  <2>4. SafeRemoval' BY <1>5, <1>b, <1>c, <1>d, <1>e, <1>f DEF MoveTarget, QueryReplace,
      ReplaceChoices, Offered, Verdicts, CheckSameFile, Appends, IInv, ControlOK, FlagsOK, DiskOK,
      Careful, MayFail, SafeRemoval, Survives, Complete, SourcesAhead, Between
  <2> QED BY <1>a, <1>e, <2>1, <2>2, <2>3, <2>4 DEF IInv
<1>6. CASE MoveRename
  <2>1. (SourcesAhead /\ LinksBehind /\ IgnoreAllAsked)' BY <1>6, <1>b, <1>c, <1>d, <1>e, <1>f DEF
      MoveRename, IInv, ControlOK, FlagsOK, DiskOK, Careful, MayFail, SourcesAhead, Between,
      Positions, LinksBehind, BeforeLinks, IgnoreAllAsked
  <2>2. (NoOffset /\ TargetStatus /\ Arrived)' BY <1>6, <1>b, <1>c, <1>d, <1>e, <1>f DEF MoveRename,
      IInv, ControlOK, FlagsOK, DiskOK, Careful, MayFail, NoOffset, Positions, InCopy, BeforeOpen,
      TargetStatus, AfterOpen, Arrived, Closing, Complete
  <2>3. (TargetUnseen /\ ShortIsFailure /\ CopiedSurvives)' BY <1>6, <1>b, <1>c, <1>d, <1>e, <1>f
      DEF MoveRename, IInv, ControlOK, FlagsOK, DiskOK, Careful, MayFail, TargetUnseen,
      ShortIsFailure, ErrorReplies, BeforeOpen, AfterOpen, TargetStatus, Closing, CopiedSurvives,
      Arrived, LinksBehind, BeforeLinks, Survives, Complete
  <2>4. SafeRemoval' BY <1>6, <1>b, <1>c, <1>d, <1>e, <1>f DEF MoveRename, IInv, ControlOK, FlagsOK,
      DiskOK, Careful, MayFail, SafeRemoval, Survives, Complete, SourcesAhead, Between
  <2> QED BY <1>a, <1>e, <2>1, <2>2, <2>3, <2>4 DEF IInv
<1>7. CASE MoveByCopy
  <2>1. (SourcesAhead /\ LinksBehind /\ IgnoreAllAsked)' BY <1>7, <1>b, <1>c, <1>d, <1>e, <1>f DEF
      MoveByCopy, IInv, ControlOK, FlagsOK, DiskOK, Careful, MayFail, SourcesAhead, Between,
      Positions, LinksBehind, BeforeLinks, IgnoreAllAsked
  <2>2. (NoOffset /\ TargetStatus /\ Arrived)' BY <1>7, <1>b, <1>c, <1>d, <1>e, <1>f DEF MoveByCopy,
      IInv, ControlOK, FlagsOK, DiskOK, Careful, MayFail, NoOffset, Positions, InCopy, BeforeOpen,
      TargetStatus, AfterOpen, Arrived, Closing, Complete
  <2>3. (TargetUnseen /\ ShortIsFailure /\ CopiedSurvives)' BY <1>7, <1>b, <1>c, <1>d, <1>e, <1>f
      DEF MoveByCopy, IInv, ControlOK, FlagsOK, DiskOK, Careful, MayFail, TargetUnseen,
      ShortIsFailure, ErrorReplies, BeforeOpen, AfterOpen, TargetStatus, Closing, CopiedSurvives,
      Arrived, LinksBehind, BeforeLinks, Survives, Complete
  <2>4. SafeRemoval' BY <1>7, <1>b, <1>c, <1>d, <1>e, <1>f DEF MoveByCopy, IInv, ControlOK, FlagsOK,
      DiskOK, Careful, MayFail, SafeRemoval, Survives, Complete, SourcesAhead, Between
  <2> QED BY <1>a, <1>e, <2>1, <2>2, <2>3, <2>4 DEF IInv
<1>8. CASE MoveSymlink
  <2>1. (SourcesAhead /\ LinksBehind /\ IgnoreAllAsked)' BY <1>8, <1>b, <1>c, <1>d, <1>e, <1>f DEF
      MoveSymlink, ReportError, IInv, ControlOK, FlagsOK, DiskOK, Careful, MayFail, SourcesAhead,
      Between, Positions, LinksBehind, BeforeLinks, IgnoreAllAsked
  <2>2. (NoOffset /\ TargetStatus /\ Arrived)' BY <1>8, <1>b, <1>c, <1>d, <1>e, <1>f DEF
      MoveSymlink, ReportError, IInv, ControlOK, FlagsOK, DiskOK, Careful, MayFail, NoOffset,
      Positions, InCopy, BeforeOpen, TargetStatus, AfterOpen, Arrived, Closing, Complete
  <2>3. (TargetUnseen /\ ShortIsFailure /\ CopiedSurvives)' BY <1>8, <1>b, <1>c, <1>d, <1>e, <1>f
      DEF MoveSymlink, ReportError, IInv, ControlOK, FlagsOK, DiskOK, Careful, MayFail,
      TargetUnseen, ShortIsFailure, ErrorReplies, BeforeOpen, AfterOpen, TargetStatus, Closing,
      CopiedSurvives, Arrived, LinksBehind, BeforeLinks, Survives, Complete
  <2>4. SafeRemoval'
    <3>1. cur \in source /\ source' = source /\ lossy' = lossy
      BY <1>8 DEF MoveSymlink, IInv, SourcesAhead, Between
    <3>2. \A f \in Files \ {cur} : data'[f] = data[f] /\ (f \in present' <=> f \in present)
      BY <1>8, <1>b DEF MoveSymlink, DiskOK
    <3>3. \A f \in Files \ {cur} : Survives(f) => Survives(f)'
      BY <1>d, <3>1, <3>2 DEF Survives, Complete
    <3> QED BY <1>c, <1>d, <3>1, <3>3 DEF IInv, SafeRemoval
  <2> QED BY <1>a, <1>e, <2>1, <2>2, <2>3, <2>4 DEF IInv
<1>9. CASE MoveCopied
  <2>1. (SourcesAhead /\ LinksBehind /\ IgnoreAllAsked)' BY <1>9, <1>b, <1>c, <1>d, <1>e, <1>f DEF
      MoveCopied, CopySucceeded, IInv, ControlOK, FlagsOK, DiskOK, Careful, MayFail, SourcesAhead,
      Between, Positions, LinksBehind, BeforeLinks, IgnoreAllAsked
  <2>2. (NoOffset /\ TargetStatus /\ Arrived)' BY <1>9, <1>b, <1>c, <1>d, <1>e, <1>f DEF MoveCopied,
      CopySucceeded, IInv, ControlOK, FlagsOK, DiskOK, Careful, MayFail, NoOffset, Positions,
      InCopy, BeforeOpen, TargetStatus, AfterOpen, Arrived, Closing, Complete
  <2>3. (TargetUnseen /\ ShortIsFailure /\ CopiedSurvives)' BY <1>9, <1>b, <1>c, <1>d, <1>e, <1>f
      DEF MoveCopied, CopySucceeded, IInv, ControlOK, FlagsOK, DiskOK, Careful, MayFail,
      TargetUnseen, ShortIsFailure, ErrorReplies, BeforeOpen, AfterOpen, TargetStatus, Closing,
      CopiedSurvives, Arrived, LinksBehind, BeforeLinks, Survives, Complete
  <2>4. SafeRemoval' BY <1>9, <1>b, <1>c, <1>d, <1>e, <1>f DEF MoveCopied, CopySucceeded, IInv,
      ControlOK, FlagsOK, DiskOK, Careful, MayFail, SafeRemoval, Survives, Complete, SourcesAhead,
      Between
  <2> QED BY <1>a, <1>e, <2>1, <2>2, <2>3, <2>4 DEF IInv
<1>10. CASE MoveRemoveSource
  <2>1. (SourcesAhead /\ LinksBehind /\ IgnoreAllAsked)' BY <1>10, <1>b, <1>c, <1>d, <1>e, <1>f DEF
      MoveRemoveSource, ReportError, IInv, ControlOK, FlagsOK, DiskOK, Careful, MayFail,
      SourcesAhead, Between, Positions, LinksBehind, BeforeLinks, IgnoreAllAsked
  <2>2. (NoOffset /\ TargetStatus /\ Arrived)' BY <1>10, <1>b, <1>c, <1>d, <1>e, <1>f DEF
      MoveRemoveSource, ReportError, IInv, ControlOK, FlagsOK, DiskOK, Careful, MayFail, NoOffset,
      Positions, InCopy, BeforeOpen, TargetStatus, AfterOpen, Arrived, Closing, Complete
  <2>3. (TargetUnseen /\ ShortIsFailure /\ CopiedSurvives)' BY <1>10, <1>b, <1>c, <1>d, <1>e, <1>f
      DEF MoveRemoveSource, ReportError, IInv, ControlOK, FlagsOK, DiskOK, Careful, MayFail,
      TargetUnseen, ShortIsFailure, ErrorReplies, BeforeOpen, AfterOpen, TargetStatus, Closing,
      CopiedSurvives, Arrived, LinksBehind, BeforeLinks, Survives, Complete
  <2>4. SafeRemoval'
    <3>1. /\ data' = data /\ present' = present /\ lossy' = lossy /\ pc = "mv_remove"
          /\ source' \in {source, source \ {cur}}
      BY <1>10 DEF MoveRemoveSource
    <3>2. Survives(cur) BY <3>1 DEF IInv, CopiedSurvives
    <3>3. \A f \in 1 .. job.files \ source : f < cur
      BY <1>b, <1>c, <3>1 DEF IInv, SourcesAhead, Between, ControlOK
    <3>4. ASSUME NEW f \in 1 .. job.files \ source' PROVE Survives(f)'
      <4>1. f \in 1 .. job.files \ source \/ f = cur BY <3>1
      <4>2. Survives(f) /\ f <= cur
        BY <3>2, <3>3, <4>1, <1>b, <1>c DEF IInv, SafeRemoval, ControlOK
      <4>3. ASSUME NEW g \in source, g < f PROVE g \in source'
        BY <3>1, <4>2, <4>3, <1>b, <1>c DEF ControlOK, DiskOK
      <4> QED BY <1>d, <3>1, <4>2, <4>3 DEF Survives, Complete
    <3> QED BY <1>d, <3>4 DEF SafeRemoval
  <2> QED BY <1>a, <1>e, <2>1, <2>2, <2>3, <2>4 DEF IInv
<1>11. CASE MoveReturn
  <2>1. (SourcesAhead /\ LinksBehind /\ IgnoreAllAsked)' BY <1>11, <1>b, <1>c, <1>d, <1>e, <1>f DEF
      MoveReturn, MoveResult, IInv, ControlOK, FlagsOK, DiskOK, Careful, MayFail, SourcesAhead,
      Between, Positions, LinksBehind, BeforeLinks, IgnoreAllAsked
  <2>2. (NoOffset /\ TargetStatus /\ Arrived)' BY <1>11, <1>b, <1>c, <1>d, <1>e, <1>f DEF
      MoveReturn, MoveResult, IInv, ControlOK, FlagsOK, DiskOK, Careful, MayFail, NoOffset,
      Positions, InCopy, BeforeOpen, TargetStatus, AfterOpen, Arrived, Closing, Complete
  <2>3. (TargetUnseen /\ ShortIsFailure /\ CopiedSurvives)' BY <1>11, <1>b, <1>c, <1>d, <1>e, <1>f
      DEF MoveReturn, MoveResult, IInv, ControlOK, FlagsOK, DiskOK, Careful, MayFail, TargetUnseen,
      ShortIsFailure, ErrorReplies, BeforeOpen, AfterOpen, TargetStatus, Closing, CopiedSurvives,
      Arrived, LinksBehind, BeforeLinks, Survives, Complete
  <2>4. SafeRemoval' BY <1>11, <1>b, <1>c, <1>d, <1>e, <1>f DEF MoveReturn, MoveResult, IInv,
      ControlOK, FlagsOK, DiskOK, Careful, MayFail, SafeRemoval, Survives, Complete, SourcesAhead,
      Between
  <2> QED BY <1>a, <1>e, <2>1, <2>2, <2>3, <2>4 DEF IInv
<1>12. CASE CopyStart
  <2>1. (SourcesAhead /\ LinksBehind /\ IgnoreAllAsked)' BY <1>12, <1>b, <1>c, <1>d, <1>e, <1>f DEF
      CopyStart, IInv, ControlOK, FlagsOK, DiskOK, Careful, MayFail, SourcesAhead, Between,
      Positions, LinksBehind, BeforeLinks, IgnoreAllAsked
  <2>2. (NoOffset /\ TargetStatus /\ Arrived)' BY <1>12, <1>b, <1>c, <1>d, <1>e, <1>f DEF CopyStart,
      IInv, ControlOK, FlagsOK, DiskOK, Careful, MayFail, NoOffset, Positions, InCopy, BeforeOpen,
      TargetStatus, AfterOpen, Arrived, Closing, Complete
  <2>3. (TargetUnseen /\ ShortIsFailure /\ CopiedSurvives)' BY <1>12, <1>b, <1>c, <1>d, <1>e, <1>f
      DEF CopyStart, IInv, ControlOK, FlagsOK, DiskOK, Careful, MayFail, TargetUnseen,
      ShortIsFailure, ErrorReplies, BeforeOpen, AfterOpen, TargetStatus, Closing, CopiedSurvives,
      Arrived, LinksBehind, BeforeLinks, Survives, Complete
  <2>4. SafeRemoval' BY <1>12, <1>b, <1>c, <1>d, <1>e, <1>f DEF CopyStart, IInv, ControlOK, FlagsOK,
      DiskOK, Careful, MayFail, SafeRemoval, Survives, Complete, SourcesAhead, Between
  <2> QED BY <1>a, <1>e, <2>1, <2>2, <2>3, <2>4 DEF IInv
<1>13. CASE StatTarget
  <2>1. (SourcesAhead /\ LinksBehind /\ IgnoreAllAsked)' BY <1>13, <1>b, <1>c, <1>d, <1>e, <1>f DEF
      StatTarget, ReportError, IInv, ControlOK, FlagsOK, DiskOK, Careful, MayFail, SourcesAhead,
      Between, Positions, LinksBehind, BeforeLinks, IgnoreAllAsked
  <2>2. (NoOffset /\ TargetStatus /\ Arrived)' BY <1>13, <1>b, <1>c, <1>d, <1>e, <1>f DEF
      StatTarget, ReportError, IInv, ControlOK, FlagsOK, DiskOK, Careful, MayFail, NoOffset,
      Positions, InCopy, BeforeOpen, TargetStatus, AfterOpen, Arrived, Closing, Complete
  <2>3. (TargetUnseen /\ ShortIsFailure /\ CopiedSurvives)' BY <1>13, <1>b, <1>c, <1>d, <1>e, <1>f
      DEF StatTarget, ReportError, IInv, ControlOK, FlagsOK, DiskOK, Careful, MayFail, TargetUnseen,
      ShortIsFailure, ErrorReplies, BeforeOpen, AfterOpen, TargetStatus, Closing, CopiedSurvives,
      Arrived, LinksBehind, BeforeLinks, Survives, Complete
  <2>4. SafeRemoval' BY <1>13, <1>b, <1>c, <1>d, <1>e, <1>f DEF StatTarget, ReportError, IInv,
      ControlOK, FlagsOK, DiskOK, Careful, MayFail, SafeRemoval, Survives, Complete, SourcesAhead,
      Between
  <2> QED BY <1>a, <1>e, <2>1, <2>2, <2>3, <2>4 DEF IInv
<1>14. CASE StatSource
  <2>1. (SourcesAhead /\ LinksBehind /\ IgnoreAllAsked)' BY <1>14, <1>b, <1>c, <1>d, <1>e, <1>f DEF
      StatSource, ReportError, IInv, ControlOK, FlagsOK, DiskOK, Careful, MayFail, SourcesAhead,
      Between, Positions, LinksBehind, BeforeLinks, IgnoreAllAsked
  <2>2. (NoOffset /\ TargetStatus /\ Arrived)' BY <1>14, <1>b, <1>c, <1>d, <1>e, <1>f DEF
      StatSource, ReportError, IInv, ControlOK, FlagsOK, DiskOK, Careful, MayFail, NoOffset,
      Positions, InCopy, BeforeOpen, TargetStatus, AfterOpen, Arrived, Closing, Complete
  <2>3. TargetUnseen' BY <1>14, <1>b, <1>c, <1>d, <1>e, <1>f DEF StatSource, ReportError, IInv,
      ControlOK, FlagsOK, DiskOK, Careful, MayFail, TargetUnseen, ShortIsFailure, ErrorReplies,
      BeforeOpen, AfterOpen
  <2>4. ShortIsFailure' BY <1>14, <1>b, <1>c, <1>d, <1>e, <1>f DEF StatSource, ReportError, IInv,
      ControlOK, FlagsOK, DiskOK, Careful, MayFail, ShortIsFailure, ErrorReplies, TargetStatus,
      TargetUnseen, BeforeOpen, AfterOpen, Closing
  <2>5. CopiedSurvives' BY <1>14, <1>b, <1>c, <1>d, <1>e, <1>f DEF StatSource, ReportError, IInv,
      ControlOK, FlagsOK, DiskOK, Careful, MayFail, CopiedSurvives, ErrorReplies, Arrived,
      LinksBehind, BeforeLinks, ShortIsFailure, Closing, Survives, Complete
  <2>6. SafeRemoval' BY <1>14, <1>b, <1>c, <1>d, <1>e, <1>f DEF StatSource, ReportError, IInv,
      ControlOK, FlagsOK, DiskOK, Careful, MayFail, SafeRemoval, Survives, Complete, SourcesAhead,
      Between
  <2> QED BY <1>a, <1>e, <2>1, <2>2, <2>3, <2>4, <2>5, <2>6 DEF IInv
<1>15. CASE GetFlags
  <2>1. (SourcesAhead /\ LinksBehind /\ IgnoreAllAsked)' BY <1>15, <1>b, <1>c, <1>d, <1>e, <1>f DEF
      GetFlags, ReportError, IInv, ControlOK, FlagsOK, DiskOK, Careful, MayFail, SourcesAhead,
      Between, Positions, LinksBehind, BeforeLinks, IgnoreAllAsked
  <2>2. (NoOffset /\ TargetStatus /\ Arrived)' BY <1>15, <1>b, <1>c, <1>d, <1>e, <1>f DEF GetFlags,
      ReportError, IInv, ControlOK, FlagsOK, DiskOK, Careful, MayFail, NoOffset, Positions, InCopy,
      BeforeOpen, TargetStatus, AfterOpen, Arrived, Closing, Complete
  <2>3. (TargetUnseen /\ ShortIsFailure /\ CopiedSurvives)' BY <1>15, <1>b, <1>c, <1>d, <1>e, <1>f
      DEF GetFlags, ReportError, IInv, ControlOK, FlagsOK, DiskOK, Careful, MayFail, TargetUnseen,
      ShortIsFailure, ErrorReplies, BeforeOpen, AfterOpen, TargetStatus, Closing, CopiedSurvives,
      Arrived, LinksBehind, BeforeLinks, Survives, Complete
  <2>4. SafeRemoval' BY <1>15, <1>b, <1>c, <1>d, <1>e, <1>f DEF GetFlags, ReportError, IInv,
      ControlOK, FlagsOK, DiskOK, Careful, MayFail, SafeRemoval, Survives, Complete, SourcesAhead,
      Between
  <2> QED BY <1>a, <1>e, <2>1, <2>2, <2>3, <2>4 DEF IInv
<1>16. CASE AskOverwrite
  <2>1. (SourcesAhead /\ LinksBehind /\ IgnoreAllAsked)' BY <1>16, <1>b, <1>c, <1>d, <1>e, <1>f DEF
      AskOverwrite, QueryReplace, ReplaceChoices, Offered, Verdicts, CheckSameFile, Appends, IInv,
      ControlOK, FlagsOK, DiskOK, Careful, MayFail, SourcesAhead, Between, Positions, LinksBehind,
      BeforeLinks, IgnoreAllAsked
  <2>2. (NoOffset /\ TargetStatus /\ Arrived)' BY <1>16, <1>b, <1>c, <1>d, <1>e, <1>f DEF
      AskOverwrite, QueryReplace, ReplaceChoices, Offered, Verdicts, CheckSameFile, Appends, IInv,
      ControlOK, FlagsOK, DiskOK, Careful, MayFail, NoOffset, Positions, InCopy, BeforeOpen,
      TargetStatus, AfterOpen, Arrived, Closing, Complete
  <2>3. (TargetUnseen /\ ShortIsFailure /\ CopiedSurvives)' BY <1>16, <1>b, <1>c, <1>d, <1>e, <1>f
      DEF AskOverwrite, QueryReplace, ReplaceChoices, Offered, Verdicts, CheckSameFile, Appends,
      IInv, ControlOK, FlagsOK, DiskOK, Careful, MayFail, TargetUnseen, ShortIsFailure,
      ErrorReplies, BeforeOpen, AfterOpen, TargetStatus, Closing, CopiedSurvives, Arrived,
      LinksBehind, BeforeLinks, Survives, Complete
  <2>4. SafeRemoval' BY <1>16, <1>b, <1>c, <1>d, <1>e, <1>f DEF AskOverwrite, QueryReplace,
      ReplaceChoices, Offered, Verdicts, CheckSameFile, Appends, IInv, ControlOK, FlagsOK, DiskOK,
      Careful, MayFail, SafeRemoval, Survives, Complete, SourcesAhead, Between
  <2> QED BY <1>a, <1>e, <2>1, <2>2, <2>3, <2>4 DEF IInv
<1>17. CASE PassLinks
  <2>1. SourcesAhead' BY <1>17, <1>b, <1>c, <1>d, <1>e, <1>f DEF PassLinks, HasLinks, Linked, IInv,
      ControlOK, FlagsOK, DiskOK, Careful, MayFail, SourcesAhead, Between, Positions
  <2>2. LinksBehind' BY <1>17, <1>b, <1>c, <1>d, <1>e, <1>f, SMTT(30) DEF PassLinks, HasLinks, Linked, IInv,
      ControlOK, FlagsOK, DiskOK, Careful, MayFail, LinksBehind, BeforeLinks
  <2>3. IgnoreAllAsked' BY <1>17, <1>b, <1>c, <1>d, <1>e, <1>f DEF PassLinks, HasLinks, Linked,
      IInv, ControlOK, FlagsOK, DiskOK, Careful, MayFail, IgnoreAllAsked
  <2>4. (NoOffset /\ TargetStatus /\ Arrived)' BY <1>17, <1>b, <1>c, <1>d, <1>e, <1>f DEF PassLinks,
      HasLinks, Linked, IInv, ControlOK, FlagsOK, DiskOK, Careful, MayFail, NoOffset, Positions,
      InCopy, BeforeOpen, TargetStatus, AfterOpen, Arrived, Closing, Complete
  <2>5. (TargetUnseen /\ ShortIsFailure /\ CopiedSurvives)' BY <1>17, <1>b, <1>c, <1>d, <1>e, <1>f
      DEF PassLinks, HasLinks, Linked, IInv, ControlOK, FlagsOK, DiskOK, Careful, MayFail,
      TargetUnseen, ShortIsFailure, ErrorReplies, BeforeOpen, AfterOpen, TargetStatus, Closing,
      CopiedSurvives, Arrived, LinksBehind, BeforeLinks, Survives, Complete
  <2>6. SafeRemoval' BY <1>17, <1>b, <1>c, <1>d, <1>e, <1>f DEF PassLinks, HasLinks, Linked, IInv,
      ControlOK, FlagsOK, DiskOK, Careful, MayFail, SafeRemoval, Survives, Complete, SourcesAhead,
      Between
  <2> QED BY <1>a, <1>e, <2>1, <2>2, <2>3, <2>4, <2>5, <2>6 DEF IInv
<1>18. CASE MakeHardlink
  <2>1. (SourcesAhead /\ LinksBehind /\ IgnoreAllAsked)' BY <1>18, <1>b, <1>c, <1>d, <1>e, <1>f DEF
      MakeHardlink, HasLinks, Linked, FirstLinkThere, TargetFree, IInv, ControlOK, FlagsOK, DiskOK,
      Careful, MayFail, SourcesAhead, Between, Positions, LinksBehind, BeforeLinks, IgnoreAllAsked
  <2>2. (NoOffset /\ TargetStatus /\ Arrived)' BY <1>18, <1>b, <1>c, <1>d, <1>e, <1>f DEF
      MakeHardlink, HasLinks, Linked, FirstLinkThere, TargetFree, IInv, ControlOK, FlagsOK, DiskOK,
      Careful, MayFail, NoOffset, Positions, InCopy, BeforeOpen, TargetStatus, AfterOpen, Arrived,
      Closing, Complete
  <2>3. TargetUnseen' BY <1>18, <1>b, <1>c, <1>d, <1>e, <1>f DEF MakeHardlink, HasLinks, Linked,
      FirstLinkThere, TargetFree, IInv, ControlOK, FlagsOK, DiskOK, Careful, MayFail, TargetUnseen,
      ShortIsFailure, ErrorReplies, BeforeOpen, AfterOpen
  <2>4. ShortIsFailure' BY <1>18, <1>b, <1>c, <1>d, <1>e, <1>f DEF MakeHardlink, HasLinks, Linked,
      FirstLinkThere, TargetFree, IInv, ControlOK, FlagsOK, DiskOK, Careful, MayFail,
      ShortIsFailure, ErrorReplies, TargetStatus, TargetUnseen, BeforeOpen, AfterOpen, Closing
  <2>5. CopiedSurvives'
    <3>1. /\ pc = "links" /\ pc' = "copied" /\ source' = source /\ cur' = cur
          /\ Linked # 0 /\ Linked \in source
      BY <1>18 DEF MakeHardlink, FirstLinkThere
    <3>2. job.inode[cur] \in Files BY <1>b, <1>f, <3>1, JobFacts
    <3>3. Linked <= cur /\ Linked < cur /\ job.inode[Linked] = job.inode[cur]
      BY <3>1, <3>2 DEF IInv, LinksBehind, BeforeLinks, Linked
    <3> QED BY <1>d, <3>1, <3>3 DEF CopiedSurvives, Survives
  <2>6. SafeRemoval'
    <3>1. cur \in source /\ source' = source /\ lossy' = lossy
      BY <1>18 DEF MakeHardlink, IInv, SourcesAhead, Between
    <3>2. \A f \in Files \ {cur} : data'[f] = data[f] /\ (f \in present' <=> f \in present)
      BY <1>18, <1>b DEF MakeHardlink, DiskOK
    <3>3. \A f \in Files \ {cur} : Survives(f) => Survives(f)'
      BY <1>d, <3>1, <3>2 DEF Survives, Complete
    <3> QED BY <1>c, <1>d, <3>1, <3>3 DEF IInv, SafeRemoval
  <2> QED BY <1>a, <1>e, <2>1, <2>2, <2>3, <2>4, <2>5, <2>6 DEF IInv
<1>19. CASE LinkFailed
  <2>1. (SourcesAhead /\ LinksBehind /\ IgnoreAllAsked)' BY <1>19, <1>b, <1>c, <1>d, <1>e, <1>f DEF
      LinkFailed, HasLinks, Linked, IInv, ControlOK, FlagsOK, DiskOK, Careful, MayFail,
      SourcesAhead, Between, Positions, LinksBehind, BeforeLinks, IgnoreAllAsked
  <2>2. (NoOffset /\ TargetStatus /\ Arrived)' BY <1>19, <1>b, <1>c, <1>d, <1>e, <1>f DEF
      LinkFailed, HasLinks, Linked, IInv, ControlOK, FlagsOK, DiskOK, Careful, MayFail, NoOffset,
      Positions, InCopy, BeforeOpen, TargetStatus, AfterOpen, Arrived, Closing, Complete
  <2>3. (TargetUnseen /\ ShortIsFailure /\ CopiedSurvives)' BY <1>19, <1>b, <1>c, <1>d, <1>e, <1>f
      DEF LinkFailed, HasLinks, Linked, IInv, ControlOK, FlagsOK, DiskOK, Careful, MayFail,
      TargetUnseen, ShortIsFailure, ErrorReplies, BeforeOpen, AfterOpen, TargetStatus, Closing,
      CopiedSurvives, Arrived, LinksBehind, BeforeLinks, Survives, Complete
  <2>4. SafeRemoval' BY <1>19, <1>b, <1>c, <1>d, <1>e, <1>f DEF LinkFailed, HasLinks, Linked, IInv,
      ControlOK, FlagsOK, DiskOK, Careful, MayFail, SafeRemoval, Survives, Complete, SourcesAhead,
      Between
  <2> QED BY <1>a, <1>e, <2>1, <2>2, <2>3, <2>4 DEF IInv
<1>20. CASE CopyRegular
  <2>1. (SourcesAhead /\ LinksBehind /\ IgnoreAllAsked)' BY <1>20, <1>b, <1>c, <1>d, <1>e, <1>f DEF
      CopyRegular, IInv, ControlOK, FlagsOK, DiskOK, Careful, MayFail, SourcesAhead, Between,
      Positions, LinksBehind, BeforeLinks, IgnoreAllAsked
  <2>2. (NoOffset /\ TargetStatus /\ Arrived)' BY <1>20, <1>b, <1>c, <1>d, <1>e, <1>f DEF
      CopyRegular, IInv, ControlOK, FlagsOK, DiskOK, Careful, MayFail, NoOffset, Positions, InCopy,
      BeforeOpen, TargetStatus, AfterOpen, Arrived, Closing, Complete
  <2>3. (TargetUnseen /\ ShortIsFailure /\ CopiedSurvives)' BY <1>20, <1>b, <1>c, <1>d, <1>e, <1>f
      DEF CopyRegular, IInv, ControlOK, FlagsOK, DiskOK, Careful, MayFail, TargetUnseen,
      ShortIsFailure, ErrorReplies, BeforeOpen, AfterOpen, TargetStatus, Closing, CopiedSurvives,
      Arrived, LinksBehind, BeforeLinks, Survives, Complete
  <2>4. SafeRemoval' BY <1>20, <1>b, <1>c, <1>d, <1>e, <1>f DEF CopyRegular, IInv, ControlOK,
      FlagsOK, DiskOK, Careful, MayFail, SafeRemoval, Survives, Complete, SourcesAhead, Between
  <2> QED BY <1>a, <1>e, <2>1, <2>2, <2>3, <2>4 DEF IInv
<1>21. CASE CopySymlink
  <2>1. (SourcesAhead /\ LinksBehind /\ IgnoreAllAsked)' BY <1>21, <1>b, <1>c, <1>d, <1>e, <1>f DEF
      CopySymlink, TargetFree, ReportError, IInv, ControlOK, FlagsOK, DiskOK, Careful, MayFail,
      SourcesAhead, Between, Positions, LinksBehind, BeforeLinks, IgnoreAllAsked
  <2>2. (NoOffset /\ TargetStatus /\ Arrived)' BY <1>21, <1>b, <1>c, <1>d, <1>e, <1>f DEF
      CopySymlink, TargetFree, ReportError, IInv, ControlOK, FlagsOK, DiskOK, Careful, MayFail,
      NoOffset, Positions, InCopy, BeforeOpen, TargetStatus, AfterOpen, Arrived, Closing, Complete
  <2>3. TargetUnseen' BY <1>21, <1>b, <1>c, <1>d, <1>e, <1>f DEF CopySymlink, TargetFree,
      ReportError, IInv, ControlOK, FlagsOK, DiskOK, Careful, MayFail, TargetUnseen, ShortIsFailure,
      ErrorReplies, BeforeOpen, AfterOpen
  <2>4. ShortIsFailure' BY <1>21, <1>b, <1>c, <1>d, <1>e, <1>f DEF CopySymlink, TargetFree,
      ReportError, IInv, ControlOK, FlagsOK, DiskOK, Careful, MayFail, ShortIsFailure, ErrorReplies,
      TargetStatus, TargetUnseen, BeforeOpen, AfterOpen, Closing
  <2>5. CopiedSurvives' BY <1>21, <1>b, <1>c, <1>d, <1>e, <1>f DEF CopySymlink, TargetFree,
      ReportError, IInv, ControlOK, FlagsOK, DiskOK, Careful, MayFail, CopiedSurvives, ErrorReplies,
      Arrived, LinksBehind, BeforeLinks, ShortIsFailure, Closing, Survives, Complete
  <2>6. SafeRemoval'
    <3>1. cur \in source /\ source' = source /\ lossy' = lossy
      BY <1>21 DEF CopySymlink, IInv, SourcesAhead, Between
    <3>2. \A f \in Files \ {cur} : data'[f] = data[f] /\ (f \in present' <=> f \in present)
      BY <1>21, <1>b DEF CopySymlink, DiskOK
    <3>3. \A f \in Files \ {cur} : Survives(f) => Survives(f)'
      BY <1>d, <3>1, <3>2 DEF Survives, Complete
    <3> QED BY <1>c, <1>d, <3>1, <3>3 DEF IInv, SafeRemoval
  <2> QED BY <1>a, <1>e, <2>1, <2>2, <2>3, <2>4, <2>5, <2>6 DEF IInv
<1>22. CASE CopySpecial
  <2>1. (SourcesAhead /\ LinksBehind /\ IgnoreAllAsked)' BY <1>22, <1>b, <1>c, <1>d, <1>e, <1>f DEF
      CopySpecial, TargetFree, ReportError, IInv, ControlOK, FlagsOK, DiskOK, Careful, MayFail,
      SourcesAhead, Between, Positions, LinksBehind, BeforeLinks, IgnoreAllAsked
  <2>2. (NoOffset /\ TargetStatus /\ Arrived)' BY <1>22, <1>b, <1>c, <1>d, <1>e, <1>f DEF
      CopySpecial, TargetFree, ReportError, IInv, ControlOK, FlagsOK, DiskOK, Careful, MayFail,
      NoOffset, Positions, InCopy, BeforeOpen, TargetStatus, AfterOpen, Arrived, Closing, Complete
  <2>3. TargetUnseen' BY <1>22, <1>b, <1>c, <1>d, <1>e, <1>f DEF CopySpecial, TargetFree,
      ReportError, IInv, ControlOK, FlagsOK, DiskOK, Careful, MayFail, TargetUnseen, ShortIsFailure,
      ErrorReplies, BeforeOpen, AfterOpen
  <2>4. ShortIsFailure' BY <1>22, <1>b, <1>c, <1>d, <1>e, <1>f DEF CopySpecial, TargetFree,
      ReportError, IInv, ControlOK, FlagsOK, DiskOK, Careful, MayFail, ShortIsFailure, ErrorReplies,
      TargetStatus, TargetUnseen, BeforeOpen, AfterOpen, Closing
  <2>5. CopiedSurvives'
    <3>1. ~ignoreAll
      BY <1>22, <1>e, <1>f DEF CopySpecial, Careful, IInv, IgnoreAllAsked
    <3>2. CASE data' = [data EXCEPT ![cur] = Chunks] /\ present' = present \cup {cur}
      <4>1. Complete(cur)' BY <1>22, <1>b, <1>f, <3>2 DEF CopySpecial, Complete, DiskOK
      <4> QED BY <1>22, <4>1 DEF CopySpecial, ReportError, CopiedSurvives, Survives
    <3>3. CASE ReportError("kind", "copied")
      BY <1>c, <3>3 DEF ReportError, ErrorReplies, CopiedSurvives
    <3> QED BY <1>22, <3>1, <3>2, <3>3 DEF CopySpecial
  <2>6. SafeRemoval'
    <3>1. cur \in source /\ source' = source /\ lossy' = lossy
      BY <1>22 DEF CopySpecial, IInv, SourcesAhead, Between
    <3>2. \A f \in Files \ {cur} : data'[f] = data[f] /\ (f \in present' <=> f \in present)
      BY <1>22, <1>b DEF CopySpecial, DiskOK
    <3>3. \A f \in Files \ {cur} : Survives(f) => Survives(f)'
      BY <1>d, <3>1, <3>2 DEF Survives, Complete
    <3> QED BY <1>c, <1>d, <3>1, <3>3 DEF IInv, SafeRemoval
  <2> QED BY <1>a, <1>e, <2>1, <2>2, <2>3, <2>4, <2>5, <2>6 DEF IInv
<1>23. CASE OpenSource
  <2>1. (SourcesAhead /\ LinksBehind /\ IgnoreAllAsked)' BY <1>23, <1>b, <1>c, <1>d, <1>e, <1>f DEF
      OpenSource, GiveUpAppend, ReportError, IInv, ControlOK, FlagsOK, DiskOK, Careful, MayFail,
      SourcesAhead, Between, Positions, LinksBehind, BeforeLinks, IgnoreAllAsked
  <2>2. (NoOffset /\ TargetStatus /\ Arrived)' BY <1>23, <1>b, <1>c, <1>d, <1>e, <1>f DEF
      OpenSource, GiveUpAppend, ReportError, IInv, ControlOK, FlagsOK, DiskOK, Careful, MayFail,
      NoOffset, Positions, InCopy, BeforeOpen, TargetStatus, AfterOpen, Arrived, Closing, Complete
  <2>3. TargetUnseen' BY <1>23, <1>b, <1>c, <1>d, <1>e, <1>f DEF OpenSource, GiveUpAppend,
      ReportError, IInv, ControlOK, FlagsOK, DiskOK, Careful, MayFail, TargetUnseen, ShortIsFailure,
      ErrorReplies, BeforeOpen, AfterOpen
  <2>4. ShortIsFailure' BY <1>23, <1>b, <1>c, <1>d, <1>e, <1>f DEF OpenSource, GiveUpAppend,
      ReportError, IInv, ControlOK, FlagsOK, DiskOK, Careful, MayFail, ShortIsFailure, ErrorReplies,
      TargetStatus, TargetUnseen, BeforeOpen, AfterOpen, Closing
  <2>5. CopiedSurvives' BY <1>23, <1>b, <1>c, <1>d, <1>e, <1>f DEF OpenSource, GiveUpAppend,
      ReportError, IInv, ControlOK, FlagsOK, DiskOK, Careful, MayFail, CopiedSurvives, ErrorReplies,
      Arrived, LinksBehind, BeforeLinks, ShortIsFailure, Closing, Survives, Complete
  <2>6. SafeRemoval' BY <1>23, <1>b, <1>c, <1>d, <1>e, <1>f DEF OpenSource, GiveUpAppend,
      ReportError, IInv, ControlOK, FlagsOK, DiskOK, Careful, MayFail, SafeRemoval, Survives,
      Complete, SourcesAhead, Between
  <2> QED BY <1>a, <1>e, <2>1, <2>2, <2>3, <2>4, <2>5, <2>6 DEF IInv
<1>24. CASE SeekSource
  <2>1. (SourcesAhead /\ LinksBehind /\ IgnoreAllAsked)' BY <1>24, <1>b, <1>c, <1>d, <1>e, <1>f DEF
      SeekSource, IInv, ControlOK, FlagsOK, DiskOK, Careful, MayFail, SourcesAhead, Between,
      Positions, LinksBehind, BeforeLinks, IgnoreAllAsked
  <2>2. (NoOffset /\ TargetStatus /\ Arrived)' BY <1>24, <1>b, <1>c, <1>d, <1>e, <1>f DEF
      SeekSource, IInv, ControlOK, FlagsOK, DiskOK, Careful, MayFail, NoOffset, Positions, InCopy,
      BeforeOpen, TargetStatus, AfterOpen, Arrived, Closing, Complete
  <2>3. (TargetUnseen /\ ShortIsFailure /\ CopiedSurvives)' BY <1>24, <1>b, <1>c, <1>d, <1>e, <1>f
      DEF SeekSource, IInv, ControlOK, FlagsOK, DiskOK, Careful, MayFail, TargetUnseen,
      ShortIsFailure, ErrorReplies, BeforeOpen, AfterOpen, TargetStatus, Closing, CopiedSurvives,
      Arrived, LinksBehind, BeforeLinks, Survives, Complete
  <2>4. SafeRemoval' BY <1>24, <1>b, <1>c, <1>d, <1>e, <1>f DEF SeekSource, IInv, ControlOK,
      FlagsOK, DiskOK, Careful, MayFail, SafeRemoval, Survives, Complete, SourcesAhead, Between
  <2> QED BY <1>a, <1>e, <2>1, <2>2, <2>3, <2>4 DEF IInv
<1>25. CASE FstatSource
  <2>1. (SourcesAhead /\ LinksBehind /\ IgnoreAllAsked)' BY <1>25, <1>b, <1>c, <1>d, <1>e, <1>f DEF
      FstatSource, GiveUpAppend, ReportError, IInv, ControlOK, FlagsOK, DiskOK, Careful, MayFail,
      SourcesAhead, Between, Positions, LinksBehind, BeforeLinks, IgnoreAllAsked
  <2>2. (NoOffset /\ TargetStatus /\ Arrived)' BY <1>25, <1>b, <1>c, <1>d, <1>e, <1>f DEF
      FstatSource, GiveUpAppend, ReportError, IInv, ControlOK, FlagsOK, DiskOK, Careful, MayFail,
      NoOffset, Positions, InCopy, BeforeOpen, TargetStatus, AfterOpen, Arrived, Closing, Complete
  <2>3. (TargetUnseen /\ ShortIsFailure /\ CopiedSurvives)' BY <1>25, <1>b, <1>c, <1>d, <1>e, <1>f
      DEF FstatSource, GiveUpAppend, ReportError, IInv, ControlOK, FlagsOK, DiskOK, Careful,
      MayFail, TargetUnseen, ShortIsFailure, ErrorReplies, BeforeOpen, AfterOpen, TargetStatus,
      Closing, CopiedSurvives, Arrived, LinksBehind, BeforeLinks, Survives, Complete
  <2>4. SafeRemoval' BY <1>25, <1>b, <1>c, <1>d, <1>e, <1>f DEF FstatSource, GiveUpAppend,
      ReportError, IInv, ControlOK, FlagsOK, DiskOK, Careful, MayFail, SafeRemoval, Survives,
      Complete, SourcesAhead, Between
  <2> QED BY <1>a, <1>e, <2>1, <2>2, <2>3, <2>4 DEF IInv
<1>26. CASE OpenTarget
  <2>1. (SourcesAhead /\ LinksBehind /\ IgnoreAllAsked)' BY <1>26, <1>b, <1>c, <1>d, <1>e, <1>f DEF
      OpenTarget, MayOpen, Truncates, IInv, ControlOK, FlagsOK, DiskOK, Careful, MayFail,
      SourcesAhead, Between, Positions, LinksBehind, BeforeLinks, IgnoreAllAsked
  <2>2. (NoOffset /\ TargetStatus /\ Arrived)' BY <1>26, <1>b, <1>c, <1>d, <1>e, <1>f DEF
      OpenTarget, MayOpen, Truncates, IInv, ControlOK, FlagsOK, DiskOK, Careful, MayFail, NoOffset,
      Positions, InCopy, BeforeOpen, TargetStatus, AfterOpen, Arrived, Closing, Complete
  <2>3. (TargetUnseen /\ ShortIsFailure /\ CopiedSurvives)' BY <1>26, <1>b, <1>c, <1>d, <1>e, <1>f
      DEF OpenTarget, MayOpen, Truncates, IInv, ControlOK, FlagsOK, DiskOK, Careful, MayFail,
      TargetUnseen, ShortIsFailure, ErrorReplies, BeforeOpen, AfterOpen, TargetStatus, Closing,
      CopiedSurvives, Arrived, LinksBehind, BeforeLinks, Survives, Complete
  <2>4. SafeRemoval'
    <3>1. cur \in source /\ source' = source /\ lossy' = lossy
      BY <1>26 DEF OpenTarget, Truncates, IInv, SourcesAhead, Between
    <3>2. \A f \in Files \ {cur} : data'[f] = data[f] /\ (f \in present' <=> f \in present)
      BY <1>26, <1>b DEF OpenTarget, Truncates, DiskOK
    <3>3. \A f \in Files \ {cur} : Survives(f) => Survives(f)'
      BY <1>d, <3>1, <3>2 DEF Survives, Complete
    <3> QED BY <1>c, <1>d, <3>1, <3>3 DEF IInv, SafeRemoval
  <2> QED BY <1>a, <1>e, <2>1, <2>2, <2>3, <2>4 DEF IInv
<1>27. CASE TargetAppeared
  <2>1. (SourcesAhead /\ LinksBehind /\ IgnoreAllAsked)' BY <1>27, <1>b, <1>c, <1>d, <1>e, <1>f DEF
      TargetAppeared, IInv, ControlOK, FlagsOK, DiskOK, Careful, MayFail, SourcesAhead, Between,
      Positions, LinksBehind, BeforeLinks, IgnoreAllAsked
  <2>2. (NoOffset /\ TargetStatus /\ Arrived)' BY <1>27, <1>b, <1>c, <1>d, <1>e, <1>f DEF
      TargetAppeared, IInv, ControlOK, FlagsOK, DiskOK, Careful, MayFail, NoOffset, Positions,
      InCopy, BeforeOpen, TargetStatus, AfterOpen, Arrived, Closing, Complete
  <2>3. (TargetUnseen /\ ShortIsFailure /\ CopiedSurvives)' BY <1>27, <1>b, <1>c, <1>d, <1>e, <1>f
      DEF TargetAppeared, IInv, ControlOK, FlagsOK, DiskOK, Careful, MayFail, TargetUnseen,
      ShortIsFailure, ErrorReplies, BeforeOpen, AfterOpen, TargetStatus, Closing, CopiedSurvives,
      Arrived, LinksBehind, BeforeLinks, Survives, Complete
  <2>4. SafeRemoval' BY <1>27, <1>b, <1>c, <1>d, <1>e, <1>f DEF TargetAppeared, IInv, ControlOK,
      FlagsOK, DiskOK, Careful, MayFail, SafeRemoval, Survives, Complete, SourcesAhead, Between
  <2> QED BY <1>a, <1>e, <2>1, <2>2, <2>3, <2>4 DEF IInv
<1>28. CASE OpenTargetFailed
  <2>1. (SourcesAhead /\ LinksBehind /\ IgnoreAllAsked)' BY <1>28, <1>b, <1>c, <1>d, <1>e, <1>f DEF
      OpenTargetFailed, GiveUpAppend, ReportError, IInv, ControlOK, FlagsOK, DiskOK, Careful,
      MayFail, SourcesAhead, Between, Positions, LinksBehind, BeforeLinks, IgnoreAllAsked
  <2>2. (NoOffset /\ TargetStatus /\ Arrived)' BY <1>28, <1>b, <1>c, <1>d, <1>e, <1>f DEF
      OpenTargetFailed, GiveUpAppend, ReportError, IInv, ControlOK, FlagsOK, DiskOK, Careful,
      MayFail, NoOffset, Positions, InCopy, BeforeOpen, TargetStatus, AfterOpen, Arrived, Closing,
      Complete
  <2>3. TargetUnseen' BY <1>28, <1>b, <1>c, <1>d, <1>e, <1>f DEF OpenTargetFailed, GiveUpAppend,
      ReportError, IInv, ControlOK, FlagsOK, DiskOK, Careful, MayFail, TargetUnseen, ShortIsFailure,
      ErrorReplies, BeforeOpen, AfterOpen
  <2>4. ShortIsFailure' BY <1>28, <1>b, <1>c, <1>d, <1>e, <1>f DEF OpenTargetFailed, GiveUpAppend,
      ReportError, IInv, ControlOK, FlagsOK, DiskOK, Careful, MayFail, ShortIsFailure, ErrorReplies,
      TargetStatus, TargetUnseen, BeforeOpen, AfterOpen, Closing
  <2>5. CopiedSurvives' BY <1>28, <1>b, <1>c, <1>d, <1>e, <1>f DEF OpenTargetFailed, GiveUpAppend,
      ReportError, IInv, ControlOK, FlagsOK, DiskOK, Careful, MayFail, CopiedSurvives, ErrorReplies,
      Arrived, LinksBehind, BeforeLinks, ShortIsFailure, Closing, Survives, Complete
  <2>6. SafeRemoval' BY <1>28, <1>b, <1>c, <1>d, <1>e, <1>f DEF OpenTargetFailed, GiveUpAppend,
      ReportError, IInv, ControlOK, FlagsOK, DiskOK, Careful, MayFail, SafeRemoval, Survives,
      Complete, SourcesAhead, Between
  <2> QED BY <1>a, <1>e, <2>1, <2>2, <2>3, <2>4, <2>5, <2>6 DEF IInv
<1>29. CASE CloneFile
  <2>1. (SourcesAhead /\ LinksBehind /\ IgnoreAllAsked)' BY <1>29, <1>b, <1>c, <1>d, <1>e, <1>f DEF
      CloneFile, IInv, ControlOK, FlagsOK, DiskOK, Careful, MayFail, SourcesAhead, Between,
      Positions, LinksBehind, BeforeLinks, IgnoreAllAsked
  <2>2. (NoOffset /\ TargetStatus /\ Arrived)' BY <1>29, <1>b, <1>c, <1>d, <1>e, <1>f DEF CloneFile,
      IInv, ControlOK, FlagsOK, DiskOK, Careful, MayFail, NoOffset, Positions, InCopy, BeforeOpen,
      TargetStatus, AfterOpen, Arrived, Closing, Complete
  <2>3. (TargetUnseen /\ ShortIsFailure /\ CopiedSurvives)' BY <1>29, <1>b, <1>c, <1>d, <1>e, <1>f
      DEF CloneFile, IInv, ControlOK, FlagsOK, DiskOK, Careful, MayFail, TargetUnseen,
      ShortIsFailure, ErrorReplies, BeforeOpen, AfterOpen, TargetStatus, Closing, CopiedSurvives,
      Arrived, LinksBehind, BeforeLinks, Survives, Complete
  <2>4. SafeRemoval'
    <3>1. cur \in source /\ source' = source /\ lossy' = lossy
      BY <1>29 DEF CloneFile, IInv, SourcesAhead, Between
    <3>2. \A f \in Files \ {cur} : data'[f] = data[f] /\ (f \in present' <=> f \in present)
      BY <1>29, <1>b DEF CloneFile, DiskOK
    <3>3. \A f \in Files \ {cur} : Survives(f) => Survives(f)'
      BY <1>d, <3>1, <3>2 DEF Survives, Complete
    <3> QED BY <1>c, <1>d, <3>1, <3>3 DEF IInv, SafeRemoval
  <2> QED BY <1>a, <1>e, <2>1, <2>2, <2>3, <2>4 DEF IInv
<1>30. CASE FstatTarget
  <2>1. (SourcesAhead /\ LinksBehind /\ IgnoreAllAsked)' BY <1>30, <1>b, <1>c, <1>d, <1>e, <1>f DEF
      FstatTarget, ReportError, IInv, ControlOK, FlagsOK, DiskOK, Careful, MayFail, SourcesAhead,
      Between, Positions, LinksBehind, BeforeLinks, IgnoreAllAsked
  <2>2. (NoOffset /\ TargetStatus /\ Arrived)' BY <1>30, <1>b, <1>c, <1>d, <1>e, <1>f DEF
      FstatTarget, ReportError, IInv, ControlOK, FlagsOK, DiskOK, Careful, MayFail, NoOffset,
      Positions, InCopy, BeforeOpen, TargetStatus, AfterOpen, Arrived, Closing, Complete
  <2>3. (TargetUnseen /\ ShortIsFailure /\ CopiedSurvives)' BY <1>30, <1>b, <1>c, <1>d, <1>e, <1>f
      DEF FstatTarget, ReportError, IInv, ControlOK, FlagsOK, DiskOK, Careful, MayFail,
      TargetUnseen, ShortIsFailure, ErrorReplies, BeforeOpen, AfterOpen, TargetStatus, Closing,
      CopiedSurvives, Arrived, LinksBehind, BeforeLinks, Survives, Complete
  <2>4. SafeRemoval' BY <1>30, <1>b, <1>c, <1>d, <1>e, <1>f DEF FstatTarget, ReportError, IInv,
      ControlOK, FlagsOK, DiskOK, Careful, MayFail, SafeRemoval, Survives, Complete, SourcesAhead,
      Between
  <2> QED BY <1>a, <1>e, <2>1, <2>2, <2>3, <2>4 DEF IInv
<1>31. CASE PreallocateTarget
  <2>1. SourcesAhead' BY <1>31, <1>b, <1>c, <1>d, <1>e, <1>f DEF PreallocateTarget, IInv, ControlOK,
      FlagsOK, DiskOK, Careful, MayFail, SourcesAhead, Between, Positions
  <2>2. LinksBehind' BY <1>31, <1>b, <1>c, <1>d, <1>e, <1>f DEF PreallocateTarget, IInv, ControlOK,
      FlagsOK, DiskOK, Careful, MayFail, LinksBehind, BeforeLinks
  <2>3. IgnoreAllAsked' BY <1>31, <1>b, <1>c, <1>d, <1>e, <1>f DEF PreallocateTarget, IInv,
      ControlOK, FlagsOK, DiskOK, Careful, MayFail, IgnoreAllAsked
  <2>4. (NoOffset /\ TargetStatus /\ Arrived)' BY <1>31, <1>b, <1>c, <1>d, <1>e, <1>f DEF
      PreallocateTarget, IInv, ControlOK, FlagsOK, DiskOK, Careful, MayFail, NoOffset, Positions,
      InCopy, BeforeOpen, TargetStatus, AfterOpen, Arrived, Closing, Complete
  <2>5. (TargetUnseen /\ ShortIsFailure /\ CopiedSurvives)' BY <1>31, <1>b, <1>c, <1>d, <1>e, <1>f
      DEF PreallocateTarget, IInv, ControlOK, FlagsOK, DiskOK, Careful, MayFail, TargetUnseen,
      ShortIsFailure, ErrorReplies, BeforeOpen, AfterOpen, TargetStatus, Closing, CopiedSurvives,
      Arrived, LinksBehind, BeforeLinks, Survives, Complete
  <2>6. SafeRemoval'
    <3>1. cur \in source /\ source' = source /\ lossy' = lossy
      BY <1>31 DEF PreallocateTarget, IInv, SourcesAhead, Between
    <3>2. \A f \in Files \ {cur} : data'[f] = data[f] /\ (f \in present' <=> f \in present)
      BY <1>31, <1>b DEF PreallocateTarget, DiskOK
    <3>3. \A f \in Files \ {cur} : Survives(f) => Survives(f)'
      BY <1>d, <3>1, <3>2 DEF Survives, Complete
    <3> QED BY <1>c, <1>d, <3>1, <3>3 DEF IInv, SafeRemoval
  <2> QED BY <1>a, <1>e, <2>1, <2>2, <2>3, <2>4, <2>5, <2>6 DEF IInv
<1>32. CASE BeginLoop
  <2>1. (SourcesAhead /\ LinksBehind /\ IgnoreAllAsked)' BY <1>32, <1>b, <1>c, <1>d, <1>e, <1>f DEF
      BeginLoop, IInv, ControlOK, FlagsOK, DiskOK, Careful, MayFail, SourcesAhead, Between,
      Positions, LinksBehind, BeforeLinks, IgnoreAllAsked
  <2>2. (NoOffset /\ TargetStatus /\ Arrived)' BY <1>32, <1>b, <1>c, <1>d, <1>e, <1>f DEF BeginLoop,
      IInv, ControlOK, FlagsOK, DiskOK, Careful, MayFail, NoOffset, Positions, InCopy, BeforeOpen,
      TargetStatus, AfterOpen, Arrived, Closing, Complete
  <2>3. (TargetUnseen /\ ShortIsFailure /\ CopiedSurvives)' BY <1>32, <1>b, <1>c, <1>d, <1>e, <1>f
      DEF BeginLoop, IInv, ControlOK, FlagsOK, DiskOK, Careful, MayFail, TargetUnseen,
      ShortIsFailure, ErrorReplies, BeforeOpen, AfterOpen, TargetStatus, Closing, CopiedSurvives,
      Arrived, LinksBehind, BeforeLinks, Survives, Complete
  <2>4. SafeRemoval' BY <1>32, <1>b, <1>c, <1>d, <1>e, <1>f DEF BeginLoop, IInv, ControlOK, FlagsOK,
      DiskOK, Careful, MayFail, SafeRemoval, Survives, Complete, SourcesAhead, Between
  <2> QED BY <1>a, <1>e, <2>1, <2>2, <2>3, <2>4 DEF IInv
<1>33. CASE ReadChunk
  <2>1. (SourcesAhead /\ LinksBehind /\ IgnoreAllAsked)' BY <1>33, <1>b, <1>c, <1>d, <1>e, <1>f DEF
      ReadChunk, EndOfFile, NextPos, IInv, ControlOK, FlagsOK, DiskOK, Careful, MayFail,
      SourcesAhead, Between, Positions, LinksBehind, BeforeLinks, IgnoreAllAsked
  <2>2. (NoOffset /\ TargetStatus /\ Arrived)' BY <1>33, <1>b, <1>c, <1>d, <1>e, <1>f DEF ReadChunk,
      EndOfFile, NextPos, IInv, ControlOK, FlagsOK, DiskOK, Careful, MayFail, NoOffset, Positions,
      InCopy, BeforeOpen, TargetStatus, AfterOpen, Arrived, Closing, Complete
  <2>3. (TargetUnseen /\ ShortIsFailure /\ CopiedSurvives)' BY <1>33, <1>b, <1>c, <1>d, <1>e, <1>f
      DEF ReadChunk, EndOfFile, NextPos, IInv, ControlOK, FlagsOK, DiskOK, Careful, MayFail,
      TargetUnseen, ShortIsFailure, ErrorReplies, BeforeOpen, AfterOpen, TargetStatus, Closing,
      CopiedSurvives, Arrived, LinksBehind, BeforeLinks, Survives, Complete
  <2>4. SafeRemoval' BY <1>33, <1>b, <1>c, <1>d, <1>e, <1>f DEF ReadChunk, EndOfFile, NextPos, IInv,
      ControlOK, FlagsOK, DiskOK, Careful, MayFail, SafeRemoval, Survives, Complete, SourcesAhead,
      Between
  <2> QED BY <1>a, <1>e, <2>1, <2>2, <2>3, <2>4 DEF IInv
<1>34. CASE ReadFailed
  <2>1. (SourcesAhead /\ LinksBehind /\ IgnoreAllAsked)' BY <1>34, <1>b, <1>c, <1>d, <1>e, <1>f DEF
      ReadFailed, ReportError, IInv, ControlOK, FlagsOK, DiskOK, Careful, MayFail, SourcesAhead,
      Between, Positions, LinksBehind, BeforeLinks, IgnoreAllAsked
  <2>2. (NoOffset /\ TargetStatus /\ Arrived)' BY <1>34, <1>b, <1>c, <1>d, <1>e, <1>f DEF
      ReadFailed, ReportError, IInv, ControlOK, FlagsOK, DiskOK, Careful, MayFail, NoOffset,
      Positions, InCopy, BeforeOpen, TargetStatus, AfterOpen, Arrived, Closing, Complete
  <2>3. (TargetUnseen /\ ShortIsFailure /\ CopiedSurvives)' BY <1>34, <1>b, <1>c, <1>d, <1>e, <1>f
      DEF ReadFailed, ReportError, IInv, ControlOK, FlagsOK, DiskOK, Careful, MayFail, TargetUnseen,
      ShortIsFailure, ErrorReplies, BeforeOpen, AfterOpen, TargetStatus, Closing, CopiedSurvives,
      Arrived, LinksBehind, BeforeLinks, Survives, Complete
  <2>4. SafeRemoval' BY <1>34, <1>b, <1>c, <1>d, <1>e, <1>f DEF ReadFailed, ReportError, IInv,
      ControlOK, FlagsOK, DiskOK, Careful, MayFail, SafeRemoval, Survives, Complete, SourcesAhead,
      Between
  <2> QED BY <1>a, <1>e, <2>1, <2>2, <2>3, <2>4 DEF IInv
<1>35. CASE WriteChunk
  <2>1. (SourcesAhead /\ LinksBehind /\ IgnoreAllAsked)' BY <1>35, <1>b, <1>c, <1>d, <1>e, <1>f DEF
      WriteChunk, IInv, ControlOK, FlagsOK, DiskOK, Careful, MayFail, SourcesAhead, Between,
      Positions, LinksBehind, BeforeLinks, IgnoreAllAsked
  <2>2. (NoOffset /\ TargetStatus /\ Arrived)' BY <1>35, <1>b, <1>c, <1>d, <1>e, <1>f DEF
      WriteChunk, IInv, ControlOK, FlagsOK, DiskOK, Careful, MayFail, NoOffset, Positions, InCopy,
      BeforeOpen, TargetStatus, AfterOpen, Arrived, Closing, Complete
  <2>3. (TargetUnseen /\ ShortIsFailure /\ CopiedSurvives)' BY <1>35, <1>b, <1>c, <1>d, <1>e, <1>f
      DEF WriteChunk, IInv, ControlOK, FlagsOK, DiskOK, Careful, MayFail, TargetUnseen,
      ShortIsFailure, ErrorReplies, BeforeOpen, AfterOpen, TargetStatus, Closing, CopiedSurvives,
      Arrived, LinksBehind, BeforeLinks, Survives, Complete
  <2>4. SafeRemoval'
    <3>1. cur \in source /\ source' = source /\ lossy' = lossy
      BY <1>35 DEF WriteChunk, IInv, SourcesAhead, Between
    <3>2. \A f \in Files \ {cur} : data'[f] = data[f] /\ (f \in present' <=> f \in present)
      BY <1>35, <1>b DEF WriteChunk, DiskOK
    <3>3. \A f \in Files \ {cur} : Survives(f) => Survives(f)'
      BY <1>d, <3>1, <3>2 DEF Survives, Complete
    <3> QED BY <1>c, <1>d, <3>1, <3>3 DEF IInv, SafeRemoval
  <2> QED BY <1>a, <1>e, <2>1, <2>2, <2>3, <2>4 DEF IInv
<1>36. CASE WriteFailed
  <2>1. (SourcesAhead /\ LinksBehind /\ IgnoreAllAsked)' BY <1>36, <1>b, <1>c, <1>d, <1>e, <1>f DEF
      WriteFailed, ReportError, IInv, ControlOK, FlagsOK, DiskOK, Careful, MayFail, SourcesAhead,
      Between, Positions, LinksBehind, BeforeLinks, IgnoreAllAsked
  <2>2. (NoOffset /\ TargetStatus /\ Arrived)' BY <1>36, <1>b, <1>c, <1>d, <1>e, <1>f DEF
      WriteFailed, ReportError, IInv, ControlOK, FlagsOK, DiskOK, Careful, MayFail, NoOffset,
      Positions, InCopy, BeforeOpen, TargetStatus, AfterOpen, Arrived, Closing, Complete
  <2>3. (TargetUnseen /\ ShortIsFailure /\ CopiedSurvives)' BY <1>36, <1>b, <1>c, <1>d, <1>e, <1>f
      DEF WriteFailed, ReportError, IInv, ControlOK, FlagsOK, DiskOK, Careful, MayFail,
      TargetUnseen, ShortIsFailure, ErrorReplies, BeforeOpen, AfterOpen, TargetStatus, Closing,
      CopiedSurvives, Arrived, LinksBehind, BeforeLinks, Survives, Complete
  <2>4. SafeRemoval' BY <1>36, <1>b, <1>c, <1>d, <1>e, <1>f DEF WriteFailed, ReportError, IInv,
      ControlOK, FlagsOK, DiskOK, Careful, MayFail, SafeRemoval, Survives, Complete, SourcesAhead,
      Between
  <2> QED BY <1>a, <1>e, <2>1, <2>2, <2>3, <2>4 DEF IInv
<1>37. CASE ShowProgress
  <2>1. (SourcesAhead /\ LinksBehind /\ IgnoreAllAsked)' BY <1>37, <1>b, <1>c, <1>d, <1>e, <1>f DEF
      ShowProgress, IInv, ControlOK, FlagsOK, DiskOK, Careful, MayFail, SourcesAhead, Between,
      Positions, LinksBehind, BeforeLinks, IgnoreAllAsked
  <2>2. (NoOffset /\ TargetStatus /\ Arrived)' BY <1>37, <1>b, <1>c, <1>d, <1>e, <1>f DEF
      ShowProgress, IInv, ControlOK, FlagsOK, DiskOK, Careful, MayFail, NoOffset, Positions, InCopy,
      BeforeOpen, TargetStatus, AfterOpen, Arrived, Closing, Complete
  <2>3. (TargetUnseen /\ ShortIsFailure /\ CopiedSurvives)' BY <1>37, <1>b, <1>c, <1>d, <1>e, <1>f
      DEF ShowProgress, IInv, ControlOK, FlagsOK, DiskOK, Careful, MayFail, TargetUnseen,
      ShortIsFailure, ErrorReplies, BeforeOpen, AfterOpen, TargetStatus, Closing, CopiedSurvives,
      Arrived, LinksBehind, BeforeLinks, Survives, Complete
  <2>4. SafeRemoval' BY <1>37, <1>b, <1>c, <1>d, <1>e, <1>f DEF ShowProgress, IInv, ControlOK,
      FlagsOK, DiskOK, Careful, MayFail, SafeRemoval, Survives, Complete, SourcesAhead, Between
  <2> QED BY <1>a, <1>e, <2>1, <2>2, <2>3, <2>4 DEF IInv
<1>38. CASE AskShort
  <2>1. (SourcesAhead /\ LinksBehind /\ IgnoreAllAsked)' BY <1>38, <1>b, <1>c, <1>d, <1>e, <1>f DEF
      AskShort, IInv, ControlOK, FlagsOK, DiskOK, Careful, MayFail, SourcesAhead, Between,
      Positions, LinksBehind, BeforeLinks, IgnoreAllAsked
  <2>2. (NoOffset /\ TargetStatus /\ Arrived)' BY <1>38, <1>b, <1>c, <1>d, <1>e, <1>f DEF AskShort,
      IInv, ControlOK, FlagsOK, DiskOK, Careful, MayFail, NoOffset, Positions, InCopy, BeforeOpen,
      TargetStatus, AfterOpen, Arrived, Closing, Complete
  <2>3. (TargetUnseen /\ ShortIsFailure /\ CopiedSurvives)' BY <1>38, <1>b, <1>c, <1>d, <1>e, <1>f
      DEF AskShort, IInv, ControlOK, FlagsOK, DiskOK, Careful, MayFail, TargetUnseen,
      ShortIsFailure, ErrorReplies, BeforeOpen, AfterOpen, TargetStatus, Closing, CopiedSurvives,
      Arrived, LinksBehind, BeforeLinks, Survives, Complete
  <2>4. SafeRemoval' BY <1>38, <1>b, <1>c, <1>d, <1>e, <1>f DEF AskShort, IInv, ControlOK, FlagsOK,
      DiskOK, Careful, MayFail, SafeRemoval, Survives, Complete, SourcesAhead, Between
  <2> QED BY <1>a, <1>e, <2>1, <2>2, <2>3, <2>4 DEF IInv
<1>39. CASE CloseSource
  <2>1. (SourcesAhead /\ LinksBehind /\ IgnoreAllAsked)' BY <1>39, <1>b, <1>c, <1>d, <1>e, <1>f DEF
      CloseSource, IInv, ControlOK, FlagsOK, DiskOK, Careful, MayFail, SourcesAhead, Between,
      Positions, LinksBehind, BeforeLinks, IgnoreAllAsked
  <2>2. (NoOffset /\ TargetStatus /\ Arrived)' BY <1>39, <1>b, <1>c, <1>d, <1>e, <1>f DEF
      CloseSource, IInv, ControlOK, FlagsOK, DiskOK, Careful, MayFail, NoOffset, Positions, InCopy,
      BeforeOpen, TargetStatus, AfterOpen, Arrived, Closing, Complete
  <2>3. (TargetUnseen /\ ShortIsFailure /\ CopiedSurvives)' BY <1>39, <1>b, <1>c, <1>d, <1>e, <1>f
      DEF CloseSource, IInv, ControlOK, FlagsOK, DiskOK, Careful, MayFail, TargetUnseen,
      ShortIsFailure, ErrorReplies, BeforeOpen, AfterOpen, TargetStatus, Closing, CopiedSurvives,
      Arrived, LinksBehind, BeforeLinks, Survives, Complete
  <2>4. SafeRemoval' BY <1>39, <1>b, <1>c, <1>d, <1>e, <1>f DEF CloseSource, IInv, ControlOK,
      FlagsOK, DiskOK, Careful, MayFail, SafeRemoval, Survives, Complete, SourcesAhead, Between
  <2> QED BY <1>a, <1>e, <2>1, <2>2, <2>3, <2>4 DEF IInv
<1>40. CASE CloseTarget
  <2>1. (SourcesAhead /\ LinksBehind /\ IgnoreAllAsked)' BY <1>40, <1>b, <1>c, <1>d, <1>e, <1>f DEF
      CloseTarget, IInv, ControlOK, FlagsOK, DiskOK, Careful, MayFail, SourcesAhead, Between,
      Positions, LinksBehind, BeforeLinks, IgnoreAllAsked
  <2>2. (NoOffset /\ TargetStatus /\ Arrived)' BY <1>40, <1>b, <1>c, <1>d, <1>e, <1>f DEF
      CloseTarget, IInv, ControlOK, FlagsOK, DiskOK, Careful, MayFail, NoOffset, Positions, InCopy,
      BeforeOpen, TargetStatus, AfterOpen, Arrived, Closing, Complete
  <2>3. (TargetUnseen /\ ShortIsFailure /\ CopiedSurvives)' BY <1>40, <1>b, <1>c, <1>d, <1>e, <1>f
      DEF CloseTarget, IInv, ControlOK, FlagsOK, DiskOK, Careful, MayFail, TargetUnseen,
      ShortIsFailure, ErrorReplies, BeforeOpen, AfterOpen, TargetStatus, Closing, CopiedSurvives,
      Arrived, LinksBehind, BeforeLinks, Survives, Complete
  <2>4. SafeRemoval' BY <1>40, <1>b, <1>c, <1>d, <1>e, <1>f DEF CloseTarget, IInv, ControlOK,
      FlagsOK, DiskOK, Careful, MayFail, SafeRemoval, Survives, Complete, SourcesAhead, Between
  <2> QED BY <1>a, <1>e, <2>1, <2>2, <2>3, <2>4 DEF IInv
<1>41. CASE QueryShort
  <2>1. (SourcesAhead /\ LinksBehind /\ IgnoreAllAsked)' BY <1>41, <1>b, <1>c, <1>d, <1>e, <1>f DEF
      QueryShort, IInv, ControlOK, FlagsOK, DiskOK, Careful, MayFail, SourcesAhead, Between,
      Positions, LinksBehind, BeforeLinks, IgnoreAllAsked
  <2>2. (NoOffset /\ TargetStatus /\ Arrived)' BY <1>41, <1>b, <1>c, <1>d, <1>e, <1>f DEF
      QueryShort, IInv, ControlOK, FlagsOK, DiskOK, Careful, MayFail, NoOffset, Positions, InCopy,
      BeforeOpen, TargetStatus, AfterOpen, Arrived, Closing, Complete
  <2>3. (TargetUnseen /\ ShortIsFailure /\ CopiedSurvives)' BY <1>41, <1>b, <1>c, <1>d, <1>e, <1>f
      DEF QueryShort, IInv, ControlOK, FlagsOK, DiskOK, Careful, MayFail, TargetUnseen,
      ShortIsFailure, ErrorReplies, BeforeOpen, AfterOpen, TargetStatus, Closing, CopiedSurvives,
      Arrived, LinksBehind, BeforeLinks, Survives, Complete
  <2>4. SafeRemoval' BY <1>41, <1>b, <1>c, <1>d, <1>e, <1>f DEF QueryShort, IInv, ControlOK,
      FlagsOK, DiskOK, Careful, MayFail, SafeRemoval, Survives, Complete, SourcesAhead, Between
  <2> QED BY <1>a, <1>e, <2>1, <2>2, <2>3, <2>4 DEF IInv
<1>42. CASE Settle
  <2>1. (SourcesAhead /\ LinksBehind /\ IgnoreAllAsked)' BY <1>42, <1>b, <1>c, <1>d, <1>e, <1>f DEF
      Settle, IInv, ControlOK, FlagsOK, DiskOK, Careful, MayFail, SourcesAhead, Between, Positions,
      LinksBehind, BeforeLinks, IgnoreAllAsked
  <2>2. (NoOffset /\ TargetStatus /\ Arrived)' BY <1>42, <1>b, <1>c, <1>d, <1>e, <1>f DEF Settle,
      IInv, ControlOK, FlagsOK, DiskOK, Careful, MayFail, NoOffset, Positions, InCopy, BeforeOpen,
      TargetStatus, AfterOpen, Arrived, Closing, Complete
  <2>3. (TargetUnseen /\ ShortIsFailure /\ CopiedSurvives)' BY <1>42, <1>b, <1>c, <1>d, <1>e, <1>f
      DEF Settle, IInv, ControlOK, FlagsOK, DiskOK, Careful, MayFail, TargetUnseen, ShortIsFailure,
      ErrorReplies, BeforeOpen, AfterOpen, TargetStatus, Closing, CopiedSurvives, Arrived,
      LinksBehind, BeforeLinks, Survives, Complete
  <2>4. SafeRemoval'
    <3>1. cur \in source /\ source' = source /\ lossy' = lossy
      BY <1>42 DEF Settle, IInv, SourcesAhead, Between
    <3>2. \A f \in Files \ {cur} : data'[f] = data[f] /\ (f \in present' <=> f \in present)
      BY <1>42, <1>b DEF Settle, DiskOK
    <3>3. \A f \in Files \ {cur} : Survives(f) => Survives(f)'
      BY <1>d, <3>1, <3>2 DEF Survives, Complete
    <3> QED BY <1>c, <1>d, <3>1, <3>3 DEF IInv, SafeRemoval
  <2> QED BY <1>a, <1>e, <2>1, <2>2, <2>3, <2>4 DEF IInv
<1>43. CASE SetFlags
  <2>1. (SourcesAhead /\ LinksBehind /\ IgnoreAllAsked)' BY <1>43, <1>b, <1>c, <1>d, <1>e, <1>f DEF
      SetFlags, FlagsFail, IInv, ControlOK, FlagsOK, DiskOK, Careful, MayFail, SourcesAhead,
      Between, Positions, LinksBehind, BeforeLinks, IgnoreAllAsked
  <2>2. (NoOffset /\ TargetStatus /\ Arrived)' BY <1>43, <1>b, <1>c, <1>d, <1>e, <1>f DEF SetFlags,
      FlagsFail, IInv, ControlOK, FlagsOK, DiskOK, Careful, MayFail, NoOffset, Positions, InCopy,
      BeforeOpen, TargetStatus, AfterOpen, Arrived, Closing, Complete
  <2>3. (TargetUnseen /\ ShortIsFailure /\ CopiedSurvives)' BY <1>43, <1>b, <1>c, <1>d, <1>e, <1>f
      DEF SetFlags, FlagsFail, IInv, ControlOK, FlagsOK, DiskOK, Careful, MayFail, TargetUnseen,
      ShortIsFailure, ErrorReplies, BeforeOpen, AfterOpen, TargetStatus, Closing, CopiedSurvives,
      Arrived, LinksBehind, BeforeLinks, Survives, Complete
  <2>4. SafeRemoval' BY <1>43, <1>b, <1>c, <1>d, <1>e, <1>f DEF SetFlags, FlagsFail, IInv,
      ControlOK, FlagsOK, DiskOK, Careful, MayFail, SafeRemoval, Survives, Complete, SourcesAhead,
      Between
  <2> QED BY <1>a, <1>e, <2>1, <2>2, <2>3, <2>4 DEF IInv
<1>44. CASE CopyFinish
  <2>1. (SourcesAhead /\ LinksBehind /\ IgnoreAllAsked)' BY <1>44, <1>b, <1>c, <1>d, <1>e, <1>f DEF
      CopyFinish, IInv, ControlOK, FlagsOK, DiskOK, Careful, MayFail, SourcesAhead, Between,
      Positions, LinksBehind, BeforeLinks, IgnoreAllAsked
  <2>2. (NoOffset /\ TargetStatus /\ Arrived)' BY <1>44, <1>b, <1>c, <1>d, <1>e, <1>f DEF
      CopyFinish, IInv, ControlOK, FlagsOK, DiskOK, Careful, MayFail, NoOffset, Positions, InCopy,
      BeforeOpen, TargetStatus, AfterOpen, Arrived, Closing, Complete
  <2>3. (TargetUnseen /\ ShortIsFailure /\ CopiedSurvives)' BY <1>44, <1>b, <1>c, <1>d, <1>e, <1>f
      DEF CopyFinish, IInv, ControlOK, FlagsOK, DiskOK, Careful, MayFail, TargetUnseen,
      ShortIsFailure, ErrorReplies, BeforeOpen, AfterOpen, TargetStatus, Closing, CopiedSurvives,
      Arrived, LinksBehind, BeforeLinks, Survives, Complete
  <2>4. SafeRemoval' BY <1>44, <1>b, <1>c, <1>d, <1>e, <1>f DEF CopyFinish, IInv, ControlOK,
      FlagsOK, DiskOK, Careful, MayFail, SafeRemoval, Survives, Complete, SourcesAhead, Between
  <2> QED BY <1>a, <1>e, <2>1, <2>2, <2>3, <2>4 DEF IInv
<1>45. CASE Finished
  BY <1>45, <1>a, <1>e DEF Finished, vars, IInv, SourcesAhead, LinksBehind, IgnoreAllAsked, NoOffset, TargetStatus, Arrived,
      TargetUnseen, ShortIsFailure, CopiedSurvives, SafeRemoval, Survives, Complete
<1>46. ASSUME NEW f \in Files, CreateMeanwhile(f) PROVE IInv'
  <2>1. (SourcesAhead /\ LinksBehind /\ IgnoreAllAsked)' BY <1>46, <1>b, <1>c, <1>d, <1>e, <1>f DEF
      CreateMeanwhile, IInv, ControlOK, FlagsOK, DiskOK, Careful, MayFail, SourcesAhead, Between,
      Positions, LinksBehind, BeforeLinks, IgnoreAllAsked
  <2>2. (NoOffset /\ TargetStatus /\ Arrived)' BY <1>46, <1>b, <1>c, <1>d, <1>e, <1>f DEF
      CreateMeanwhile, IInv, ControlOK, FlagsOK, DiskOK, Careful, MayFail, NoOffset, Positions,
      InCopy, BeforeOpen, TargetStatus, AfterOpen, Arrived, Closing, Complete
  <2>3. (TargetUnseen /\ ShortIsFailure /\ CopiedSurvives)' BY <1>46, <1>b, <1>c, <1>d, <1>e, <1>f
      DEF CreateMeanwhile, IInv, ControlOK, FlagsOK, DiskOK, Careful, MayFail, TargetUnseen,
      ShortIsFailure, ErrorReplies, BeforeOpen, AfterOpen, TargetStatus, Closing, CopiedSurvives,
      Arrived, LinksBehind, BeforeLinks, Survives, Complete
  <2>4. SafeRemoval' BY <1>46, <1>b, <1>c, <1>d, <1>e, <1>f DEF CreateMeanwhile, IInv, ControlOK,
      FlagsOK, DiskOK, Careful, MayFail, SafeRemoval, Survives, Complete, SourcesAhead, Between
  <2> QED BY <1>a, <1>e, <2>1, <2>2, <2>3, <2>4 DEF IInv
<1>47. CASE UNCHANGED vars
  BY <1>47, <1>a, <1>e DEF vars, IInv, SourcesAhead, LinksBehind, IgnoreAllAsked, NoOffset, TargetStatus, Arrived,
      TargetUnseen, ShortIsFailure, CopiedSurvives, SafeRemoval, Survives, Complete
<1> QED
  BY <1>1, <1>2, <1>3, <1>4, <1>5, <1>6, <1>7, <1>8, <1>9, <1>10, <1>11, <1>12, <1>13, <1>14, <1>15,
    <1>16, <1>17, <1>18, <1>19, <1>20, <1>21, <1>22, <1>23, <1>24, <1>25, <1>26, <1>27, <1>28,
    <1>29, <1>30, <1>31, <1>32, <1>33, <1>34, <1>35, <1>36, <1>37, <1>38, <1>39, <1>40, <1>41,
    <1>42, <1>43, <1>44, <1>45, <1>46, <1>47
  DEF Next, Step, Panel, Move, Prepare, Open, Loop, Leave

\* A move never removes a source whose content is not safe: in its target, in an
\* earlier hard link that is still there, or given up by the user; whatever
\* fails, is ignored, skipped, kept short or aborted on the way, for every number
\* of files and chunks, as long as the circumstances are Careful.
THEOREM CarefulMoveIsSafe == Spec /\ Careful(job) => []SafeRemoval
<1>1. Init /\ Careful(job) => IInv BY SafetyInit
<1>2. IInv /\ [Next]_vars => IInv' BY SafetyStep
<1>3. IInv => SafeRemoval BY DEF IInv
<1> QED BY <1>1, <1>2, <1>3, PTL DEF Spec

\* What the code calls fully copied is: DEST_FULL at ret: means that every chunk
\* has arrived that the user did not let go.
THEOREM CarefulFullIsComplete == Spec /\ Careful(job) => []FullMeansComplete
<1>1. Init /\ Careful(job) => IInv BY SafetyInit
<1>2. IInv /\ [Next]_vars => IInv' BY SafetyStep
<1>3. IInv => FullMeansComplete BY DEF IInv, Arrived, Closing, FullMeansComplete
<1> QED BY <1>1, <1>2, <1>3, PTL DEF Spec

-----------------------------------------------------------------------------
\* The job is chosen once.
LEMMA JobStays == [Next]_vars => job' = job
BY DEF Next, Step, Panel, Move, Prepare, Open, Loop, Leave, vars, panel, Finished, CreateMeanwhile,
    NextFile, FileDone, MoveStart, MoveStatSource, MoveTarget, MoveRename, MoveByCopy,
    MoveSymlink, MoveCopied, MoveRemoveSource, MoveReturn, CopyStart, StatTarget, StatSource,
    GetFlags, AskOverwrite, PassLinks, MakeHardlink, LinkFailed, CopyRegular, CopySymlink,
    CopySpecial, OpenSource, SeekSource, FstatSource, OpenTarget, TargetAppeared,
    OpenTargetFailed, CloneFile, FstatTarget, PreallocateTarget, BeginLoop, ReadChunk, ReadFailed,
    WriteChunk, WriteFailed, ShowProgress, AskShort, CloseSource, CloseTarget, QueryShort, Settle,
    SetFlags, CopyFinish

-----------------------------------------------------------------------------
(* Foreign targets *)

\* The user has agreed to the end of what the target of f holds.
Agreed(f) == f \in created \/ answer[f] \notin {"unasked", "no"}

\* Nobody can create the target between the question of a move and its rename().
Unraced(j) == j.op = "copy" \/ ~j.intruder

\* While the code is on its way to a target it may touch, the user has agreed,
\* or the target is missing.
AnsweredFirst ==
  job.confirm =>
    /\ job.op = "move" /\ pc \in {"mv_rename", "start", "stat_target"} /\ cur \in present => Agreed(cur)
    /\ job.op = "move" /\ pc \in {"stat_source", "getflags", "ask"} /\ dstExists => Agreed(cur)
    /\ pc \in {"links", "kind", "open", "seek", "fstat", "creat"} /\ dstExists => Agreed(cur)
    /\ pc \in AfterOpen => Agreed(cur)
    /\ pc \in Closing /\ dstStatus # "none" => Agreed(cur)

\* Nothing is at the target before it is opened,
NoTargetYet == pc \in {"stat_target"} \cup BeforeOpen => dstStatus = "none"

\* and only a move comes to move_file_file.
MoveLabels == pc \in {"mv_start", "mv_stat", "mv_target", "mv_rename"} => job.op = "move"

FInv == TInv /\ Unraced(job) /\ NoTargetYet /\ MoveLabels /\ AnsweredFirst

\* What ForeignTargetUntouched says of a step.
Respected ==
  job.confirm => \A f \in present \ created :
    (f \in present' /\ data'[f] = data[f]) \/ answer[f] \notin {"unasked", "no"}

\* At the start nothing is on its way to a target.
LEMMA ForeignInit == Init /\ Unraced(job) => FInv
<1> SUFFICES ASSUME Init, Unraced(job) PROVE FInv OBVIOUS
<1>1. TInv BY InitTyped
<1> QED BY <1>1 DEF Init, FInv, NoTargetYet, MoveLabels, AnsweredFirst, BeforeOpen, AfterOpen, Closing

\* The replace dialog lets the code go on to the target only with an answer.
LEMMA QueryAnswers ==
  ASSUME TypeOK, cur \in Files, NEW reget, NEW proceed, NEW refuse,
         QueryReplace(reget, proceed, refuse), status' = "cont"
  PROVE  answer'[cur] \notin {"unasked", "no"}
<1>1. PICK r \in ReplaceChoices :
        /\ status' \in Verdicts(r)
        /\ answer' = [answer EXCEPT ![cur] = IF status' = "cont" THEN r ELSE "no"]
  BY DEF QueryReplace
<1>2. r \in ReplaceReplies
  BY JobFacts DEF ReplaceChoices, Offered, TypeOK, ControlOK
<1>3. r # "no" BY <1>1 DEF Verdicts
<1>4. r # "unasked" BY <1>2 DEF ReplaceReplies
<1> QED BY <1>1, <1>3, <1>4 DEF TypeOK, DiskOK

\* Every step respects the targets it has not made, and keeps the invariant.
LEMMA ForeignStep == FInv /\ [Next]_vars => (NoTargetYet /\ MoveLabels /\ AnsweredFirst)' /\ Respected
<1> SUFFICES ASSUME FInv, [Next]_vars PROVE (NoTargetYet /\ MoveLabels /\ AnsweredFirst)' /\ Respected OBVIOUS
<1> USE SizesAssumption DEF panel, options, ctx, place, local, disk, hist, Goto, Files, Chunks
<1>a. TInv /\ TInv' BY TypeStep DEF FInv
<1>b. job \in JobType /\ ControlOK /\ FlagsOK /\ DiskOK /\ Positions BY <1>a DEF TInv, TypeOK
<1>c. job.files \in Files /\ job.op \in {"copy", "move"} /\ job.errors \subseteq ErrorReplies
      /\ job.buttons \subseteq {"cont", "skip", "abort"} /\ job.replaces \subseteq ReplaceReplies
  BY <1>b, JobFacts
<1>d. job' = job BY JobStays
<1>f. pc \notin {"next", "end"} => cur \in Files BY <1>b, <1>c DEF Positions
<1>1. CASE NextFile
  BY <1>1, <1>b, <1>c, <1>d, <1>f DEF NextFile, FInv, Unraced, NoTargetYet, MoveLabels,
      AnsweredFirst, Agreed, Respected, ControlOK, DiskOK, MayFail, BeforeOpen, AfterOpen, Closing
<1>2. CASE FileDone
  BY <1>2, <1>b, <1>c, <1>d, <1>f DEF FileDone, Unmarks, FInv, Unraced, NoTargetYet, MoveLabels,
      AnsweredFirst, Agreed, Respected, ControlOK, DiskOK, MayFail, BeforeOpen, AfterOpen, Closing
<1>3. CASE MoveStart
  BY <1>3, <1>b, <1>c, <1>d, <1>f DEF MoveStart, FInv, Unraced, NoTargetYet, MoveLabels,
      AnsweredFirst, Agreed, Respected, ControlOK, DiskOK, MayFail, BeforeOpen, AfterOpen, Closing
<1>4. CASE MoveStatSource
  BY <1>4, <1>b, <1>c, <1>d, <1>f DEF MoveStatSource, ReportError, FInv, Unraced, NoTargetYet,
      MoveLabels, AnsweredFirst, Agreed, Respected, ControlOK, DiskOK, MayFail, BeforeOpen,
      AfterOpen, Closing
<1>5. CASE MoveTarget
  <2>0. cur \in Files BY <1>5, <1>f DEF MoveTarget
  <2>1. CASE QueryReplace(doReget, "mv_rename", "mv_ret")
    <3>1. pc' = IF status' = "cont" THEN "mv_rename" ELSE "mv_ret" BY <2>1 DEF QueryReplace
    <3>2. status' = "cont" => answer'[cur] \notin {"unasked", "no"}
      BY <2>0, <2>1, <1>a, QueryAnswers DEF TInv
    <3>3. /\ data' = data /\ present' = present /\ created' = created /\ cur' = cur
          /\ dstStatus' = dstStatus /\ dstExists' = dstExists
      BY <1>5 DEF MoveTarget
    <3>4. (NoTargetYet /\ MoveLabels)' BY <1>5, <3>1, <3>3, <1>d DEF MoveTarget, FInv, NoTargetYet, MoveLabels, BeforeOpen, Closing
    <3>5. AnsweredFirst'
      BY <1>5, <3>1, <3>2, <3>3, <1>c, <1>d DEF MoveTarget, FInv, AnsweredFirst, Agreed, BeforeOpen, AfterOpen, Closing
    <3> QED BY <3>3, <3>4, <3>5 DEF Respected
  <2>2. CASE ~QueryReplace(doReget, "mv_rename", "mv_ret")
    BY <1>5, <2>2, <1>c, <1>d DEF MoveTarget, CheckSameFile, FInv, NoTargetYet, MoveLabels, AnsweredFirst,
      Agreed, Respected, BeforeOpen, AfterOpen, Closing
  <2> QED BY <2>1, <2>2
<1>6. CASE MoveRename
  <2>1. /\ pc = "mv_rename" /\ dstStatus' = dstStatus /\ answer' = answer /\ cur' = cur
        /\ pc' \in {"mv_ret", "mv_remove", "mv_rename"}
        /\ present \subseteq present' /\ created \subseteq created'
        /\ data' \in {data, [data EXCEPT ![cur] = Chunks]}
    BY <1>6 DEF MoveRename
  <2>2. cur \in Files /\ data \in [Files -> SUBSET ({Foreign} \cup Chunks)] BY <2>1, <1>b, <1>f DEF DiskOK
  <2>3. (NoTargetYet /\ MoveLabels)' BY <2>1, <1>d, <1>6 DEF FInv, NoTargetYet, MoveLabels, BeforeOpen
  <2>4. AnsweredFirst'
    BY <1>6, <2>1, <1>c, <1>d DEF MoveRename, FInv, AnsweredFirst, Agreed, BeforeOpen, AfterOpen, Closing
  <2>5. ASSUME job.confirm, NEW f \in present \ created
        PROVE  (f \in present' /\ data'[f] = data[f]) \/ answer[f] \notin {"unasked", "no"}
    <3>1. CASE f = cur BY <1>6, <2>1, <2>5, <3>1 DEF FInv, MoveLabels, AnsweredFirst, Agreed
    <3>2. CASE f # cur BY <2>1, <2>2, <3>2, <1>b DEF DiskOK
    <3> QED BY <3>1, <3>2
  <2> QED BY <2>3, <2>4, <2>5 DEF Respected
<1>7. CASE MoveByCopy
  BY <1>7, <1>b, <1>c, <1>d, <1>f DEF MoveByCopy, FInv, Unraced, NoTargetYet, MoveLabels,
      AnsweredFirst, Agreed, Respected, ControlOK, DiskOK, MayFail, BeforeOpen, AfterOpen, Closing
<1>8. CASE MoveSymlink
  <2>1. /\ pc = "mv_rename" /\ dstStatus' = dstStatus /\ answer' = answer /\ cur' = cur
        /\ pc' \in {"mv_ret", "mv_remove", "mv_rename"}
        /\ present \subseteq present' /\ created \subseteq created'
        /\ data' \in {data, [data EXCEPT ![cur] = Chunks]}
    BY <1>8 DEF MoveSymlink, ReportError
  <2>2. cur \in Files /\ data \in [Files -> SUBSET ({Foreign} \cup Chunks)] BY <2>1, <1>b, <1>f DEF DiskOK
  <2>3. (NoTargetYet /\ MoveLabels)' BY <2>1, <1>d, <1>8 DEF FInv, NoTargetYet, MoveLabels, BeforeOpen
  <2>4. AnsweredFirst'
    BY <1>8, <2>1, <1>c, <1>d DEF MoveSymlink, ReportError, FInv, AnsweredFirst, Agreed, BeforeOpen, AfterOpen, Closing
  <2>5. ASSUME job.confirm, NEW f \in present \ created
        PROVE  (f \in present' /\ data'[f] = data[f]) \/ answer[f] \notin {"unasked", "no"}
    <3>1. CASE f = cur BY <1>8, <2>1, <2>5, <3>1 DEF FInv, MoveLabels, AnsweredFirst, Agreed
    <3>2. CASE f # cur BY <2>1, <2>2, <3>2, <1>b DEF DiskOK
    <3> QED BY <3>1, <3>2
  <2> QED BY <2>3, <2>4, <2>5 DEF Respected
<1>9. CASE MoveCopied
  BY <1>9, <1>b, <1>c, <1>d, <1>f DEF MoveCopied, CopySucceeded, FInv, Unraced, NoTargetYet,
      MoveLabels, AnsweredFirst, Agreed, Respected, ControlOK, DiskOK, MayFail, BeforeOpen,
      AfterOpen, Closing
<1>10. CASE MoveRemoveSource
  BY <1>10, <1>b, <1>c, <1>d, <1>f DEF MoveRemoveSource, ReportError, FInv, Unraced, NoTargetYet,
      MoveLabels, AnsweredFirst, Agreed, Respected, ControlOK, DiskOK, MayFail, BeforeOpen,
      AfterOpen, Closing
<1>11. CASE MoveReturn
  BY <1>11, <1>b, <1>c, <1>d, <1>f DEF MoveReturn, MoveResult, FInv, Unraced, NoTargetYet,
      MoveLabels, AnsweredFirst, Agreed, Respected, ControlOK, DiskOK, MayFail, BeforeOpen,
      AfterOpen, Closing
<1>12. CASE CopyStart
  BY <1>12, <1>b, <1>c, <1>d, <1>f DEF CopyStart, FInv, Unraced, NoTargetYet, MoveLabels,
      AnsweredFirst, Agreed, Respected, ControlOK, DiskOK, MayFail, BeforeOpen, AfterOpen, Closing
<1>13. CASE StatTarget
  BY <1>13, <1>b, <1>c, <1>d, <1>f DEF StatTarget, ReportError, FInv, Unraced, NoTargetYet,
      MoveLabels, AnsweredFirst, Agreed, Respected, ControlOK, DiskOK, MayFail, BeforeOpen,
      AfterOpen, Closing
<1>14. CASE StatSource
  BY <1>14, <1>b, <1>c, <1>d, <1>f DEF StatSource, ReportError, FInv, Unraced, NoTargetYet,
      MoveLabels, AnsweredFirst, Agreed, Respected, ControlOK, DiskOK, MayFail, BeforeOpen,
      AfterOpen, Closing
<1>15. CASE GetFlags
  BY <1>15, <1>b, <1>c, <1>d, <1>f DEF GetFlags, ReportError, FInv, Unraced, NoTargetYet,
      MoveLabels, AnsweredFirst, Agreed, Respected, ControlOK, DiskOK, MayFail, BeforeOpen,
      AfterOpen, Closing
<1>16. CASE AskOverwrite
  <2>0. cur \in Files BY <1>16, <1>f DEF AskOverwrite
  <2>1. CASE QueryReplace(0, "links", "copied")
    <3>1. pc' = IF status' = "cont" THEN "links" ELSE "copied" BY <2>1 DEF QueryReplace
    <3>2. status' = "cont" => answer'[cur] \notin {"unasked", "no"}
      BY <2>0, <2>1, <1>a, QueryAnswers DEF TInv
    <3>3. /\ data' = data /\ present' = present /\ created' = created /\ cur' = cur
          /\ dstStatus' = dstStatus /\ dstExists' = dstExists
      BY <1>16 DEF AskOverwrite
    <3>4. (NoTargetYet /\ MoveLabels)' BY <1>16, <3>1, <3>3, <1>d DEF AskOverwrite, FInv, NoTargetYet, MoveLabels, BeforeOpen, Closing
    <3>5. AnsweredFirst'
      BY <1>16, <3>1, <3>2, <3>3, <1>c, <1>d DEF AskOverwrite, FInv, AnsweredFirst, Agreed, BeforeOpen, AfterOpen, Closing
    <3> QED BY <3>3, <3>4, <3>5 DEF Respected
  <2>2. CASE ~QueryReplace(0, "links", "copied")
    BY <1>16, <2>2, <1>c, <1>d DEF AskOverwrite, CheckSameFile, FInv, NoTargetYet, MoveLabels, AnsweredFirst,
      Agreed, Respected, BeforeOpen, AfterOpen, Closing
  <2> QED BY <2>1, <2>2
<1>17. CASE PassLinks
  BY <1>17, <1>b, <1>c, <1>d, <1>f DEF PassLinks, FInv, Unraced, NoTargetYet, MoveLabels,
      AnsweredFirst, Agreed, Respected, ControlOK, DiskOK, MayFail, BeforeOpen, AfterOpen, Closing
<1>18. CASE MakeHardlink
  BY <1>18, <1>b, <1>c, <1>d, <1>f DEF MakeHardlink, TargetFree, FInv, Unraced, NoTargetYet,
      MoveLabels, AnsweredFirst, Agreed, Respected, ControlOK, DiskOK, MayFail, BeforeOpen,
      AfterOpen, Closing
<1>19. CASE LinkFailed
  BY <1>19, <1>b, <1>c, <1>d, <1>f DEF LinkFailed, FInv, Unraced, NoTargetYet, MoveLabels,
      AnsweredFirst, Agreed, Respected, ControlOK, DiskOK, MayFail, BeforeOpen, AfterOpen, Closing
<1>20. CASE CopyRegular
  BY <1>20, <1>b, <1>c, <1>d, <1>f DEF CopyRegular, FInv, Unraced, NoTargetYet, MoveLabels,
      AnsweredFirst, Agreed, Respected, ControlOK, DiskOK, MayFail, BeforeOpen, AfterOpen, Closing
<1>21. CASE CopySymlink
  BY <1>21, <1>b, <1>c, <1>d, <1>f DEF CopySymlink, ReportError, TargetFree, FInv, Unraced,
      NoTargetYet, MoveLabels, AnsweredFirst, Agreed, Respected, ControlOK, DiskOK, MayFail,
      BeforeOpen, AfterOpen, Closing
<1>22. CASE CopySpecial
  BY <1>22, <1>b, <1>c, <1>d, <1>f DEF CopySpecial, ReportError, TargetFree, FInv, Unraced,
      NoTargetYet, MoveLabels, AnsweredFirst, Agreed, Respected, ControlOK, DiskOK, MayFail,
      BeforeOpen, AfterOpen, Closing
<1>23. CASE OpenSource
  BY <1>23, <1>b, <1>c, <1>d, <1>f DEF OpenSource, ReportError, GiveUpAppend, FInv, Unraced,
      NoTargetYet, MoveLabels, AnsweredFirst, Agreed, Respected, ControlOK, DiskOK, MayFail,
      BeforeOpen, AfterOpen, Closing
<1>24. CASE SeekSource
  BY <1>24, <1>b, <1>c, <1>d, <1>f DEF SeekSource, FInv, Unraced, NoTargetYet, MoveLabels,
      AnsweredFirst, Agreed, Respected, ControlOK, DiskOK, MayFail, BeforeOpen, AfterOpen, Closing
<1>25. CASE FstatSource
  BY <1>25, <1>b, <1>c, <1>d, <1>f DEF FstatSource, ReportError, GiveUpAppend, FInv, Unraced,
      NoTargetYet, MoveLabels, AnsweredFirst, Agreed, Respected, ControlOK, DiskOK, MayFail,
      BeforeOpen, AfterOpen, Closing
<1>26. CASE OpenTarget
  BY <1>26, <1>b, <1>c, <1>d, <1>f DEF OpenTarget, MayOpen, Truncates, FInv, Unraced, NoTargetYet,
      MoveLabels, AnsweredFirst, Agreed, Respected, ControlOK, DiskOK, MayFail, BeforeOpen,
      AfterOpen, Closing
<1>27. CASE TargetAppeared
  BY <1>27, <1>b, <1>c, <1>d, <1>f DEF TargetAppeared, FInv, Unraced, NoTargetYet, MoveLabels,
      AnsweredFirst, Agreed, Respected, ControlOK, DiskOK, MayFail, BeforeOpen, AfterOpen, Closing
<1>28. CASE OpenTargetFailed
  BY <1>28, <1>b, <1>c, <1>d, <1>f DEF OpenTargetFailed, ReportError, GiveUpAppend, FInv, Unraced,
      NoTargetYet, MoveLabels, AnsweredFirst, Agreed, Respected, ControlOK, DiskOK, MayFail,
      BeforeOpen, AfterOpen, Closing
<1>29. CASE CloneFile
  BY <1>29, <1>b, <1>c, <1>d, <1>f DEF CloneFile, FInv, Unraced, NoTargetYet, MoveLabels,
      AnsweredFirst, Agreed, Respected, ControlOK, DiskOK, MayFail, BeforeOpen, AfterOpen, Closing
<1>30. CASE FstatTarget
  BY <1>30, <1>b, <1>c, <1>d, <1>f DEF FstatTarget, ReportError, FInv, Unraced, NoTargetYet,
      MoveLabels, AnsweredFirst, Agreed, Respected, ControlOK, DiskOK, MayFail, BeforeOpen,
      AfterOpen, Closing
<1>31. CASE PreallocateTarget
  BY <1>31, <1>b, <1>c, <1>d, <1>f DEF PreallocateTarget, FInv, Unraced, NoTargetYet, MoveLabels,
      AnsweredFirst, Agreed, Respected, ControlOK, DiskOK, MayFail, BeforeOpen, AfterOpen, Closing
<1>32. CASE BeginLoop
  BY <1>32, <1>b, <1>c, <1>d, <1>f DEF BeginLoop, FInv, Unraced, NoTargetYet, MoveLabels,
      AnsweredFirst, Agreed, Respected, ControlOK, DiskOK, MayFail, BeforeOpen, AfterOpen, Closing
<1>33. CASE ReadChunk
  BY <1>33, <1>b, <1>c, <1>d, <1>f DEF ReadChunk, EndOfFile, NextPos, FInv, Unraced, NoTargetYet,
      MoveLabels, AnsweredFirst, Agreed, Respected, ControlOK, DiskOK, MayFail, BeforeOpen,
      AfterOpen, Closing
<1>34. CASE ReadFailed
  BY <1>34, <1>b, <1>c, <1>d, <1>f DEF ReadFailed, ReportError, FInv, Unraced, NoTargetYet,
      MoveLabels, AnsweredFirst, Agreed, Respected, ControlOK, DiskOK, MayFail, BeforeOpen,
      AfterOpen, Closing
<1>35. CASE WriteChunk
  BY <1>35, <1>b, <1>c, <1>d, <1>f DEF WriteChunk, FInv, Unraced, NoTargetYet, MoveLabels,
      AnsweredFirst, Agreed, Respected, ControlOK, DiskOK, MayFail, BeforeOpen, AfterOpen, Closing
<1>36. CASE WriteFailed
  BY <1>36, <1>b, <1>c, <1>d, <1>f DEF WriteFailed, ReportError, FInv, Unraced, NoTargetYet,
      MoveLabels, AnsweredFirst, Agreed, Respected, ControlOK, DiskOK, MayFail, BeforeOpen,
      AfterOpen, Closing
<1>37. CASE ShowProgress
  BY <1>37, <1>b, <1>c, <1>d, <1>f DEF ShowProgress, FInv, Unraced, NoTargetYet, MoveLabels,
      AnsweredFirst, Agreed, Respected, ControlOK, DiskOK, MayFail, BeforeOpen, AfterOpen, Closing
<1>38. CASE AskShort
  BY <1>38, <1>b, <1>c, <1>d, <1>f DEF AskShort, FInv, Unraced, NoTargetYet, MoveLabels,
      AnsweredFirst, Agreed, Respected, ControlOK, DiskOK, MayFail, BeforeOpen, AfterOpen, Closing
<1>39. CASE CloseSource
  BY <1>39, <1>b, <1>c, <1>d, <1>f DEF CloseSource, FInv, Unraced, NoTargetYet, MoveLabels,
      AnsweredFirst, Agreed, Respected, ControlOK, DiskOK, MayFail, BeforeOpen, AfterOpen, Closing
<1>40. CASE CloseTarget
  BY <1>40, <1>b, <1>c, <1>d, <1>f DEF CloseTarget, FInv, Unraced, NoTargetYet, MoveLabels,
      AnsweredFirst, Agreed, Respected, ControlOK, DiskOK, MayFail, BeforeOpen, AfterOpen, Closing
<1>41. CASE QueryShort
  BY <1>41, <1>b, <1>c, <1>d, <1>f DEF QueryShort, FInv, Unraced, NoTargetYet, MoveLabels,
      AnsweredFirst, Agreed, Respected, ControlOK, DiskOK, MayFail, BeforeOpen, AfterOpen, Closing
<1>42. CASE Settle
  BY <1>42, <1>b, <1>c, <1>d, <1>f DEF Settle, FInv, Unraced, NoTargetYet, MoveLabels,
      AnsweredFirst, Agreed, Respected, ControlOK, DiskOK, MayFail, BeforeOpen, AfterOpen, Closing
<1>43. CASE SetFlags
  BY <1>43, <1>b, <1>c, <1>d, <1>f DEF SetFlags, FlagsFail, FInv, Unraced, NoTargetYet, MoveLabels,
      AnsweredFirst, Agreed, Respected, ControlOK, DiskOK, MayFail, BeforeOpen, AfterOpen, Closing
<1>44. CASE CopyFinish
  BY <1>44, <1>b, <1>c, <1>d, <1>f DEF CopyFinish, FInv, Unraced, NoTargetYet, MoveLabels,
      AnsweredFirst, Agreed, Respected, ControlOK, DiskOK, MayFail, BeforeOpen, AfterOpen, Closing
<1>45. CASE Finished
  BY <1>45, <1>b, <1>d DEF Finished, vars, FInv, Unraced, NoTargetYet, MoveLabels, AnsweredFirst, Agreed, Respected, ControlOK, DiskOK, MayFail, BeforeOpen, AfterOpen, Closing
<1>46. ASSUME NEW f \in Files, CreateMeanwhile(f) PROVE (NoTargetYet /\ MoveLabels /\ AnsweredFirst)' /\ Respected
  BY <1>46, <1>b, <1>c, <1>d, <1>f DEF CreateMeanwhile, FInv, Unraced, NoTargetYet, MoveLabels, AnsweredFirst, Agreed, Respected, ControlOK, DiskOK, MayFail, BeforeOpen, AfterOpen, Closing
<1>47. CASE UNCHANGED vars
  BY <1>47, <1>b, <1>d DEF vars, FInv, Unraced, NoTargetYet, MoveLabels, AnsweredFirst, Agreed, Respected, ControlOK, DiskOK, MayFail, BeforeOpen, AfterOpen, Closing
<1> QED
  BY <1>1, <1>2, <1>3, <1>4, <1>5, <1>6, <1>7, <1>8, <1>9, <1>10, <1>11, <1>12, <1>13, <1>14, <1>15,
    <1>16, <1>17, <1>18, <1>19, <1>20, <1>21, <1>22, <1>23, <1>24, <1>25, <1>26, <1>27, <1>28,
    <1>29, <1>30, <1>31, <1>32, <1>33, <1>34, <1>35, <1>36, <1>37, <1>38, <1>39, <1>40, <1>41,
    <1>42, <1>43, <1>44, <1>45, <1>46, <1>47
  DEF Next, Step, Panel, Move, Prepare, Open, Loop, Leave

\* A target that the operation did not make is changed or removed only after the
\* user agreed to it, for every number of files and chunks and every job, unless
\* another program creates the target of a move between the question and rename().
THEOREM ForeignTargetsRespected == Spec /\ Unraced(job) => ForeignTargetUntouched
<1>1. Init /\ Unraced(job) => FInv BY ForeignInit
<1>2. FInv /\ [Next]_vars => FInv' /\ Respected
  <2> SUFFICES ASSUME FInv, [Next]_vars PROVE FInv' /\ Respected OBVIOUS
  <2>1. TInv' BY TypeStep DEF FInv
  <2>2. job' = job BY JobStays
  <2> QED BY <2>1, <2>2, ForeignStep DEF FInv, Unraced
<1>3. Respected => (job.confirm => \A f \in present \ created :
       (f \in present' /\ data'[f] = data[f]) \/ answer[f] \notin {"unasked", "no"})
  BY DEF Respected
<1> QED BY <1>1, <1>2, <1>3, PTL DEF Spec, ForeignTargetUntouched

-----------------------------------------------------------------------------
(* Abort *)

\* Nothing that happens after an Abort writes over return_status: a failing
\* close of the target, or ext2 attributes the source has and the target refuses.
Heeded(j) ==
  \/ "abort" \notin j.errors \cup j.buttons
  \/ /\ "close" \notin j.failures
     /\ \/ "source" \in j.unsupported
        \/ "target" \notin j.unsupported /\ "setflags" \notin j.failures

Returning == {"mv_ret", "moved", "copied", "end"}

\* Where the code can be after an Abort,
Aborted ==
  status = "abort" =>
    \/ pc \in Returning
    \/ /\ pc \in Closing \cup {"read", "write", "progress", "short"}
       /\ "abort" \in job.errors \cup job.buttons

\* and that attributes are not set that could not be read.
NoAttributes ==
  "source" \in job.unsupported /\ pc \in AfterOpen \cup Closing \cup (BeforeOpen \ {"stat_source", "getflags"})
    => ~attrsOk

AInv == TInv /\ Heeded(job) /\ Aborted /\ NoAttributes

\* What AbortSticks says of a step.
Sticks ==
  status = "abort" /\ status' # "abort" => pc \in {"read", "write", "progress"} \/ dstStatus = "full"

\* At the start nothing is aborted.
LEMMA AbortInit == Init /\ Heeded(job) => AInv
<1> SUFFICES ASSUME Init, Heeded(job) PROVE AInv OBVIOUS
<1>1. TInv BY InitTyped
<1> QED BY <1>1 DEF Init, AInv, Aborted, NoAttributes, BeforeOpen, AfterOpen, Closing

\* No step but a copy that is continued takes an Abort back.
LEMMA AbortStep == AInv /\ [Next]_vars => (Aborted /\ NoAttributes)' /\ Sticks
<1> SUFFICES ASSUME AInv, [Next]_vars PROVE (Aborted /\ NoAttributes)' /\ Sticks OBVIOUS
<1> USE SizesAssumption DEF panel, options, ctx, place, local, disk, hist, Goto, Files, Chunks
<1>a. TInv /\ TInv' BY TypeStep DEF AInv
<1>b. job \in JobType /\ ControlOK /\ FlagsOK /\ DiskOK /\ Positions BY <1>a DEF TInv, TypeOK
<1>c. job.files \in Files /\ job.op \in {"copy", "move"} /\ job.errors \subseteq ErrorReplies
      /\ job.buttons \subseteq {"cont", "skip", "abort"} /\ job.replaces \subseteq ReplaceReplies
  BY <1>b, JobFacts
<1>d. job' = job BY JobStays
<1>f. pc \notin {"next", "end"} => cur \in Files BY <1>b, <1>c DEF Positions
<1>1. CASE NextFile
  BY <1>1, <1>b, <1>c, <1>d, <1>f DEF NextFile, AInv, Heeded, Aborted, NoAttributes, Sticks,
      ControlOK, FlagsOK, MayFail, ErrorReplies, Returning, BeforeOpen, AfterOpen, Closing
<1>2. CASE FileDone
  BY <1>2, <1>b, <1>c, <1>d, <1>f DEF FileDone, Unmarks, AInv, Heeded, Aborted, NoAttributes,
      Sticks, ControlOK, FlagsOK, MayFail, ErrorReplies, Returning, BeforeOpen, AfterOpen, Closing
<1>3. CASE MoveStart
  BY <1>3, <1>b, <1>c, <1>d, <1>f DEF MoveStart, AInv, Heeded, Aborted, NoAttributes, Sticks,
      ControlOK, FlagsOK, MayFail, ErrorReplies, Returning, BeforeOpen, AfterOpen, Closing
<1>4. CASE MoveStatSource
  BY <1>4, <1>b, <1>c, <1>d, <1>f DEF MoveStatSource, ReportError, AInv, Heeded, Aborted,
      NoAttributes, Sticks, ControlOK, FlagsOK, MayFail, ErrorReplies, Returning, BeforeOpen,
      AfterOpen, Closing
<1>5. CASE MoveTarget
  BY <1>5, <1>b, <1>c, <1>d, <1>f DEF MoveTarget, CheckSameFile, QueryReplace, AInv, Heeded,
      Aborted, NoAttributes, Sticks, ControlOK, FlagsOK, MayFail, ErrorReplies, Returning,
      BeforeOpen, AfterOpen, Closing
<1>6. CASE MoveRename
  BY <1>6, <1>b, <1>c, <1>d, <1>f DEF MoveRename, AInv, Heeded, Aborted, NoAttributes, Sticks,
      ControlOK, FlagsOK, MayFail, ErrorReplies, Returning, BeforeOpen, AfterOpen, Closing
<1>7. CASE MoveByCopy
  BY <1>7, <1>b, <1>c, <1>d, <1>f DEF MoveByCopy, AInv, Heeded, Aborted, NoAttributes, Sticks,
      ControlOK, FlagsOK, MayFail, ErrorReplies, Returning, BeforeOpen, AfterOpen, Closing
<1>8. CASE MoveSymlink
  BY <1>8, <1>b, <1>c, <1>d, <1>f DEF MoveSymlink, ReportError, AInv, Heeded, Aborted, NoAttributes,
      Sticks, ControlOK, FlagsOK, MayFail, ErrorReplies, Returning, BeforeOpen, AfterOpen, Closing
<1>9. CASE MoveCopied
  BY <1>9, <1>b, <1>c, <1>d, <1>f DEF MoveCopied, CopySucceeded, AInv, Heeded, Aborted,
      NoAttributes, Sticks, ControlOK, FlagsOK, MayFail, ErrorReplies, Returning, BeforeOpen,
      AfterOpen, Closing
<1>10. CASE MoveRemoveSource
  BY <1>10, <1>b, <1>c, <1>d, <1>f DEF MoveRemoveSource, ReportError, AInv, Heeded, Aborted,
      NoAttributes, Sticks, ControlOK, FlagsOK, MayFail, ErrorReplies, Returning, BeforeOpen,
      AfterOpen, Closing
<1>11. CASE MoveReturn
  BY <1>11, <1>b, <1>c, <1>d, <1>f DEF MoveReturn, MoveResult, AInv, Heeded, Aborted, NoAttributes,
      Sticks, ControlOK, FlagsOK, MayFail, ErrorReplies, Returning, BeforeOpen, AfterOpen, Closing
<1>12. CASE CopyStart
  BY <1>12, <1>b, <1>c, <1>d, <1>f DEF CopyStart, AInv, Heeded, Aborted, NoAttributes, Sticks,
      ControlOK, FlagsOK, MayFail, ErrorReplies, Returning, BeforeOpen, AfterOpen, Closing
<1>13. CASE StatTarget
  BY <1>13, <1>b, <1>c, <1>d, <1>f DEF StatTarget, ReportError, AInv, Heeded, Aborted, NoAttributes,
      Sticks, ControlOK, FlagsOK, MayFail, ErrorReplies, Returning, BeforeOpen, AfterOpen, Closing
<1>14. CASE StatSource
  BY <1>14, <1>b, <1>c, <1>d, <1>f DEF StatSource, ReportError, AInv, Heeded, Aborted, NoAttributes,
      Sticks, ControlOK, FlagsOK, MayFail, ErrorReplies, Returning, BeforeOpen, AfterOpen, Closing
<1>15. CASE GetFlags
  BY <1>15, <1>b, <1>c, <1>d, <1>f DEF GetFlags, ReportError, AInv, Heeded, Aborted, NoAttributes,
      Sticks, ControlOK, FlagsOK, MayFail, ErrorReplies, Returning, BeforeOpen, AfterOpen, Closing
<1>16. CASE AskOverwrite
  BY <1>16, <1>b, <1>c, <1>d, <1>f DEF AskOverwrite, CheckSameFile, QueryReplace, AInv, Heeded,
      Aborted, NoAttributes, Sticks, ControlOK, FlagsOK, MayFail, ErrorReplies, Returning,
      BeforeOpen, AfterOpen, Closing
<1>17. CASE PassLinks
  BY <1>17, <1>b, <1>c, <1>d, <1>f DEF PassLinks, AInv, Heeded, Aborted, NoAttributes, Sticks,
      ControlOK, FlagsOK, MayFail, ErrorReplies, Returning, BeforeOpen, AfterOpen, Closing
<1>18. CASE MakeHardlink
  BY <1>18, <1>b, <1>c, <1>d, <1>f DEF MakeHardlink, TargetFree, AInv, Heeded, Aborted,
      NoAttributes, Sticks, ControlOK, FlagsOK, MayFail, ErrorReplies, Returning, BeforeOpen,
      AfterOpen, Closing
<1>19. CASE LinkFailed
  BY <1>19, <1>b, <1>c, <1>d, <1>f DEF LinkFailed, AInv, Heeded, Aborted, NoAttributes, Sticks,
      ControlOK, FlagsOK, MayFail, ErrorReplies, Returning, BeforeOpen, AfterOpen, Closing
<1>20. CASE CopyRegular
  BY <1>20, <1>b, <1>c, <1>d, <1>f DEF CopyRegular, AInv, Heeded, Aborted, NoAttributes, Sticks,
      ControlOK, FlagsOK, MayFail, ErrorReplies, Returning, BeforeOpen, AfterOpen, Closing
<1>21. CASE CopySymlink
  BY <1>21, <1>b, <1>c, <1>d, <1>f DEF CopySymlink, ReportError, TargetFree, AInv, Heeded, Aborted,
      NoAttributes, Sticks, ControlOK, FlagsOK, MayFail, ErrorReplies, Returning, BeforeOpen,
      AfterOpen, Closing
<1>22. CASE CopySpecial
  BY <1>22, <1>b, <1>c, <1>d, <1>f DEF CopySpecial, ReportError, TargetFree, AInv, Heeded, Aborted,
      NoAttributes, Sticks, ControlOK, FlagsOK, MayFail, ErrorReplies, Returning, BeforeOpen,
      AfterOpen, Closing
<1>23. CASE OpenSource
  BY <1>23, <1>b, <1>c, <1>d, <1>f DEF OpenSource, ReportError, GiveUpAppend, AInv, Heeded, Aborted,
      NoAttributes, Sticks, ControlOK, FlagsOK, MayFail, ErrorReplies, Returning, BeforeOpen,
      AfterOpen, Closing
<1>24. CASE SeekSource
  BY <1>24, <1>b, <1>c, <1>d, <1>f DEF SeekSource, AInv, Heeded, Aborted, NoAttributes, Sticks,
      ControlOK, FlagsOK, MayFail, ErrorReplies, Returning, BeforeOpen, AfterOpen, Closing
<1>25. CASE FstatSource
  BY <1>25, <1>b, <1>c, <1>d, <1>f DEF FstatSource, ReportError, GiveUpAppend, AInv, Heeded,
      Aborted, NoAttributes, Sticks, ControlOK, FlagsOK, MayFail, ErrorReplies, Returning,
      BeforeOpen, AfterOpen, Closing
<1>26. CASE OpenTarget
  BY <1>26, <1>b, <1>c, <1>d, <1>f DEF OpenTarget, MayOpen, Truncates, AInv, Heeded, Aborted,
      NoAttributes, Sticks, ControlOK, FlagsOK, MayFail, ErrorReplies, Returning, BeforeOpen,
      AfterOpen, Closing
<1>27. CASE TargetAppeared
  BY <1>27, <1>b, <1>c, <1>d, <1>f DEF TargetAppeared, AInv, Heeded, Aborted, NoAttributes, Sticks,
      ControlOK, FlagsOK, MayFail, ErrorReplies, Returning, BeforeOpen, AfterOpen, Closing
<1>28. CASE OpenTargetFailed
  BY <1>28, <1>b, <1>c, <1>d, <1>f DEF OpenTargetFailed, ReportError, GiveUpAppend, AInv, Heeded,
      Aborted, NoAttributes, Sticks, ControlOK, FlagsOK, MayFail, ErrorReplies, Returning,
      BeforeOpen, AfterOpen, Closing
<1>29. CASE CloneFile
  BY <1>29, <1>b, <1>c, <1>d, <1>f DEF CloneFile, AInv, Heeded, Aborted, NoAttributes, Sticks,
      ControlOK, FlagsOK, MayFail, ErrorReplies, Returning, BeforeOpen, AfterOpen, Closing
<1>30. CASE FstatTarget
  BY <1>30, <1>b, <1>c, <1>d, <1>f DEF FstatTarget, ReportError, AInv, Heeded, Aborted,
      NoAttributes, Sticks, ControlOK, FlagsOK, MayFail, ErrorReplies, Returning, BeforeOpen,
      AfterOpen, Closing
<1>31. CASE PreallocateTarget
  BY <1>31, <1>b, <1>c, <1>d, <1>f DEF PreallocateTarget, AInv, Heeded, Aborted, NoAttributes,
      Sticks, ControlOK, FlagsOK, MayFail, ErrorReplies, Returning, BeforeOpen, AfterOpen, Closing
<1>32. CASE BeginLoop
  BY <1>32, <1>b, <1>c, <1>d, <1>f DEF BeginLoop, AInv, Heeded, Aborted, NoAttributes, Sticks,
      ControlOK, FlagsOK, MayFail, ErrorReplies, Returning, BeforeOpen, AfterOpen, Closing
<1>33. CASE ReadChunk
  BY <1>33, <1>b, <1>c, <1>d, <1>f DEF ReadChunk, EndOfFile, NextPos, AInv, Heeded, Aborted,
      NoAttributes, Sticks, ControlOK, FlagsOK, MayFail, ErrorReplies, Returning, BeforeOpen,
      AfterOpen, Closing
<1>34. CASE ReadFailed
  BY <1>34, <1>b, <1>c, <1>d, <1>f DEF ReadFailed, ReportError, AInv, Heeded, Aborted, NoAttributes,
      Sticks, ControlOK, FlagsOK, MayFail, ErrorReplies, Returning, BeforeOpen, AfterOpen, Closing
<1>35. CASE WriteChunk
  BY <1>35, <1>b, <1>c, <1>d, <1>f DEF WriteChunk, AInv, Heeded, Aborted, NoAttributes, Sticks,
      ControlOK, FlagsOK, MayFail, ErrorReplies, Returning, BeforeOpen, AfterOpen, Closing
<1>36. CASE WriteFailed
  BY <1>36, <1>b, <1>c, <1>d, <1>f DEF WriteFailed, ReportError, AInv, Heeded, Aborted,
      NoAttributes, Sticks, ControlOK, FlagsOK, MayFail, ErrorReplies, Returning, BeforeOpen,
      AfterOpen, Closing
<1>37. CASE ShowProgress
  BY <1>37, <1>b, <1>c, <1>d, <1>f DEF ShowProgress, AInv, Heeded, Aborted, NoAttributes, Sticks,
      ControlOK, FlagsOK, MayFail, ErrorReplies, Returning, BeforeOpen, AfterOpen, Closing
<1>38. CASE AskShort
  BY <1>38, <1>b, <1>c, <1>d, <1>f DEF AskShort, AInv, Heeded, Aborted, NoAttributes, Sticks,
      ControlOK, FlagsOK, MayFail, ErrorReplies, Returning, BeforeOpen, AfterOpen, Closing
<1>39. CASE CloseSource
  BY <1>39, <1>b, <1>c, <1>d, <1>f DEF CloseSource, AInv, Heeded, Aborted, NoAttributes, Sticks,
      ControlOK, FlagsOK, MayFail, ErrorReplies, Returning, BeforeOpen, AfterOpen, Closing
<1>40. CASE CloseTarget
  BY <1>40, <1>b, <1>c, <1>d, <1>f DEF CloseTarget, AInv, Heeded, Aborted, NoAttributes, Sticks,
      ControlOK, FlagsOK, MayFail, ErrorReplies, Returning, BeforeOpen, AfterOpen, Closing
<1>41. CASE QueryShort
  BY <1>41, <1>b, <1>c, <1>d, <1>f DEF QueryShort, AInv, Heeded, Aborted, NoAttributes, Sticks,
      ControlOK, FlagsOK, MayFail, ErrorReplies, Returning, BeforeOpen, AfterOpen, Closing
<1>42. CASE Settle
  BY <1>42, <1>b, <1>c, <1>d, <1>f DEF Settle, AInv, Heeded, Aborted, NoAttributes, Sticks,
      ControlOK, FlagsOK, MayFail, ErrorReplies, Returning, BeforeOpen, AfterOpen, Closing
<1>43. CASE SetFlags
  BY <1>43, <1>b, <1>c, <1>d, <1>f DEF SetFlags, FlagsFail, AInv, Heeded, Aborted, NoAttributes,
      Sticks, ControlOK, FlagsOK, MayFail, ErrorReplies, Returning, BeforeOpen, AfterOpen, Closing
<1>44. CASE CopyFinish
  BY <1>44, <1>b, <1>c, <1>d, <1>f DEF CopyFinish, AInv, Heeded, Aborted, NoAttributes, Sticks,
      ControlOK, FlagsOK, MayFail, ErrorReplies, Returning, BeforeOpen, AfterOpen, Closing
<1>45. CASE Finished
  BY <1>45, <1>b, <1>d DEF Finished, vars, AInv, Heeded, Aborted, NoAttributes, Sticks, ControlOK, FlagsOK, MayFail, ErrorReplies, Returning, BeforeOpen, AfterOpen, Closing
<1>46. ASSUME NEW f \in Files, CreateMeanwhile(f) PROVE (Aborted /\ NoAttributes)' /\ Sticks
  BY <1>46, <1>b, <1>c, <1>d, <1>f DEF CreateMeanwhile, AInv, Heeded, Aborted, NoAttributes, Sticks, ControlOK, FlagsOK, MayFail, ErrorReplies, Returning, BeforeOpen, AfterOpen, Closing
<1>47. CASE UNCHANGED vars
  BY <1>47, <1>b, <1>d DEF vars, AInv, Heeded, Aborted, NoAttributes, Sticks, ControlOK, FlagsOK, MayFail, ErrorReplies, Returning, BeforeOpen, AfterOpen, Closing
<1> QED
  BY <1>1, <1>2, <1>3, <1>4, <1>5, <1>6, <1>7, <1>8, <1>9, <1>10, <1>11, <1>12, <1>13, <1>14, <1>15,
    <1>16, <1>17, <1>18, <1>19, <1>20, <1>21, <1>22, <1>23, <1>24, <1>25, <1>26, <1>27, <1>28,
    <1>29, <1>30, <1>31, <1>32, <1>33, <1>34, <1>35, <1>36, <1>37, <1>38, <1>39, <1>40, <1>41,
    <1>42, <1>43, <1>44, <1>45, <1>46, <1>47
  DEF Next, Step, Panel, Move, Prepare, Open, Loop, Leave

\* An Abort is taken back only by "Continue copy", for every number of files and
\* chunks and every job in which return_status is not written over at the end.
THEOREM AbortIsHeeded == Spec /\ Heeded(job) => AbortSticks
<1>1. Init /\ Heeded(job) => AInv BY AbortInit
<1>2. AInv /\ [Next]_vars => AInv' /\ Sticks
  <2> SUFFICES ASSUME AInv, [Next]_vars PROVE AInv' /\ Sticks OBVIOUS
  <2>1. TInv' BY TypeStep DEF AInv
  <2>2. job' = job BY JobStays
  <2> QED BY <2>1, <2>2, AbortStep DEF AInv, Heeded
<1>3. Sticks => (status = "abort" /\ status' # "abort"
       => pc \in {"read", "write", "progress"} \/ dstStatus = "full")
  BY DEF Sticks
<1> QED BY <1>1, <1>2, <1>3, PTL DEF Spec, AbortSticks
=============================================================================
