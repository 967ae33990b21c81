-------------------------- MODULE MoveDir_proofs --------------------------
(***************************************************************************)
(* Theorems about MoveDir                                                   *)
(***************************************************************************)
EXTENDS MoveDir, FiniteSetTheorems, SequenceTheorems, TLAPS

-----------------------------------------------------------------------------
(* Types *)

Path == Seq(Names) \ {<<>>}
PathFrames == [from : Path, todo : Seq(Names), entry : Path, status : Statuses]
CallTypes == [from : Seq(Names), over : BOOLEAN, status : Statuses]
Labels == {"next", "move", "delete", "enter", "flags", "cycles", "mkdir", "own", "opendir", "read",
           "entry", "moved", "drain", "query", "wipe_enter", "wipe", "done", "end"}
Outcomes == [ok : BOOLEAN, status : Statuses, ask : BOOLEAN]

TPlace ==
  /\ job \in Jobs /\ pc \in Labels
  /\ cur \in 0 .. Len(job.tops) /\ marked \subseteq ToSet(job.tops)

TWork ==
  /\ stack \in Seq(PathFrames) /\ Len(stack) <= MaxDepth
  /\ call \in CallTypes /\ val \in Statuses

TCtx ==
  /\ ignoreAll \in BOOLEAN /\ recursive \in {"yes", "no", "all", "none", "abort"}
  /\ eraseList \in Seq(Seq(Names)) /\ destDirs \subseteq target

TDisk ==
  /\ source \subseteq Path /\ target \subseteq Path
  /\ IsFiniteSet(source) /\ IsFiniteSet(target)

THist ==
  /\ asked \subseteq ToSet(job.tops) /\ aborted \in BOOLEAN
  /\ confirmed \subseteq ToSet(job.tops) /\ added \subseteq Path

\* Where the operation can be.
Copying == {"enter", "flags", "cycles", "mkdir", "own", "opendir", "read", "entry"}
TStage ==
  /\ pc = "next" => cur < Len(job.tops)
  /\ pc # "next" => cur > 0
  /\ pc \in Copying => job.op # "delete"
  /\ pc \in {"move", "moved", "drain"} => job.op = "move"
  /\ pc \in {"delete", "query", "wipe_enter", "wipe"} => job.op = "delete"
  /\ pc \in {"read", "entry", "wipe"} => stack # <<>>
  /\ pc \in {"next", "move", "moved", "drain", "delete", "query", "done", "end"} => stack = <<>>
  /\ pc \in {"enter", "flags", "cycles", "mkdir", "own", "opendir", "wipe_enter"} => call.from # <<>>
  /\ pc \in {"mkdir", "own", "opendir"} => Len(stack) < MaxDepth
  /\ eraseList # <<>> => job.op = "move" /\ pc \in Copying \cup {"moved", "drain"}

TInv == TPlace /\ TWork /\ TCtx /\ TDisk /\ THist /\ TStage

-----------------------------------------------------------------------------
(* Lemmas about sequences, the job and the outcomes of calls *)

\* The last element and what stands before it.
LEMMA LastAndFront ==
  ASSUME NEW S, NEW s \in Seq(S), s # <<>>
  PROVE  /\ Len(s) \in Nat /\ Len(s) > 0 /\ Last(s) \in S /\ Last(s) = s[Len(s)]
         /\ Front(s) \in Seq(S) /\ Len(Front(s)) = Len(s) - 1
         /\ \A i \in 1 .. Len(s) - 1 : Front(s)[i] = s[i]
  <1>1. Len(s) \in Nat /\ Len(s) > 0
    BY EmptySeq
  <1>2. Last(s) \in S /\ Last(s) = s[Len(s)]
    BY <1>1 DEF Last
  <1>3. Front(s) = SubSeq(s, 1, Len(s) - 1)
    BY DEF Front
  <1>4. Front(s) \in Seq(S)
    BY <1>1, <1>3
  <1>5. Len(Front(s)) = Len(s) - 1
    <2>1. Len(SubSeq(s, 1, Len(s) - 1)) = IF 1 <= Len(s) - 1 THEN Len(s) - 1 - 1 + 1 ELSE 0
      BY <1>1, SubSeqProperties
    <2>2. \A n \in Nat : n > 0 => (IF 1 <= n - 1 THEN n - 1 - 1 + 1 ELSE 0) = n - 1
      OBVIOUS
    <2> QED
      BY <1>1, <1>3, <2>1, <2>2, Zenon
  <1>6. \A i \in 1 .. Len(s) - 1 : Front(s)[i] = s[i]
    BY <1>1, <1>3
  <1> QED
    BY <1>1, <1>2, <1>4, <1>5, <1>6

\* Appending and dropping.
LEMMA AppendHead ==
  ASSUME NEW S, NEW s \in Seq(S)
  PROVE  /\ Len(s) \in Nat
         /\ \A x \in S : /\ Append(s, x) \in Seq(S) /\ Append(s, x) # <<>>
                         /\ Len(Append(s, x)) = Len(s) + 1
                         /\ \A i \in 1 .. Len(s) : Append(s, x)[i] = s[i]
                         /\ Append(s, x)[Len(s) + 1] = x
         /\ s # <<>> => /\ Head(s) \in S /\ Tail(s) \in Seq(S) /\ Len(Tail(s)) = Len(s) - 1
                        /\ Head(s) = s[1] /\ \A i \in 1 .. Len(s) - 1 : Tail(s)[i] = s[i + 1]
         /\ <<>> \in Seq(S)
  <1>1. s # <<>> => /\ Head(s) \in S /\ Tail(s) \in Seq(S) /\ Len(Tail(s)) = Len(s) - 1
                    /\ Head(s) = s[1] /\ \A i \in 1 .. Len(s) - 1 : Tail(s)[i] = s[i + 1]
    BY EmptySeq
  <1>2. ASSUME NEW x \in S
        PROVE  /\ Append(s, x) \in Seq(S) /\ Append(s, x) # <<>>
               /\ Len(Append(s, x)) = Len(s) + 1
               /\ \A i \in 1 .. Len(s) : Append(s, x)[i] = s[i]
               /\ Append(s, x)[Len(s) + 1] = x
    <2>1. Append(s, x) \in Seq(S) /\ Len(Append(s, x)) = Len(s) + 1 /\ Len(s) \in Nat
      OBVIOUS
    <2>2. Append(s, x) # <<>>
      BY <2>1
    <2>3. \A i \in 1 .. Len(s) : Append(s, x)[i] = s[i]
      BY <2>1
    <2>4. Append(s, x)[Len(s) + 1] = x
      BY <2>1
    <2> QED
      BY <2>1, <2>2, <2>3, <2>4
  <1>3. Len(s) \in Nat /\ <<>> \in Seq(S)
    OBVIOUS
  <1> QED
    BY <1>1, <1>2, <1>3, Zenon

\* The last element exchanged.
LEMMA LastExchanged ==
  ASSUME NEW S, NEW s \in Seq(S), s # <<>>, NEW x \in S, NEW t, t = [s EXCEPT ![Len(s)] = x]
  PROVE  /\ t \in Seq(S) /\ Len(t) = Len(s) /\ t # <<>> /\ t[Len(t)] = x
         /\ \A i \in 1 .. Len(s) - 1 : t[i] = s[i]
  <1>1. Len(s) \in Nat /\ Len(s) > 0 /\ Len(s) \in DOMAIN s
    BY EmptySeq
  <1>2. t \in Seq(S) /\ Len(t) = Len(s)
    BY <1>1
  <1>3. t # <<>>
    BY <1>1, <1>2
  <1>4. t[Len(t)] = x
    BY <1>1, <1>2
  <1>5. \A i \in 1 .. Len(s) - 1 : t[i] = s[i]
    BY <1>1
  <1> QED
    BY <1>2, <1>3, <1>4, <1>5

LEMMA PathOf ==
  ASSUME NEW s \in Seq(Names), NEW n \in Names
  PROVE  Append(s, n) \in Path /\ Last(Append(s, n)) = n /\ (s # <<>> => Append(s, n)[1] = s[1])
  <1>1. Append(s, n) \in Seq(Names) /\ Len(Append(s, n)) = Len(s) + 1 /\ Len(s) \in Nat
    OBVIOUS
  <1>2. Append(s, n) # <<>> /\ Append(s, n)[Len(s) + 1] = n
    BY <1>1
  <1>3. s # <<>> => Append(s, n)[1] = s[1]
    BY <1>1, EmptySeq
  <1> QED
    BY <1>1, <1>2, <1>3 DEF Path, Last

\* What the assumptions say of the job.
LEMMA JobFacts ==
  ASSUME TPlace
  PROVE  /\ job.op \in {"copy", "move", "delete"}
         /\ job.tops \in Seq(Names) /\ job.tops # <<>> /\ Len(job.tops) \in Nat /\ Len(job.tops) > 0
         /\ job.dirs \subseteq Names /\ ToSet(job.tops) \subseteq job.dirs
         /\ job.kids \in [Names -> Seq(Names)] /\ job.inode \in [Names -> Names]
         /\ job.errors \subseteq Answers /\ job.buttons \subseteq Buttons
         /\ job.recursive \subseteq {"yes", "no", "all", "none", "abort"}
         /\ job.tree \subseteq Path /\ IsFiniteSet(job.tree)
         /\ \A p \in job.tree : Copied \notin Range(p)
  BY JobsAssumption, EmptySeq DEF TPlace, JobType, WellFormed, Path

\* The marked directory the operation is at.
LEMMA TopFacts ==
  ASSUME TPlace, cur > 0
  PROVE  Top \in ToSet(job.tops) /\ Top \in Names /\ Top \in job.dirs /\ <<Top>> \in Path
         /\ Last(<<Top>>) = Top
  <1>1. cur \in 1 .. Len(job.tops) /\ job.tops[cur] \in Names
    BY JobFacts DEF TPlace
  <1>2. Top \in ToSet(job.tops) /\ Top \in Names
    BY <1>1, JobFacts DEF Top, ToSet
  <1>3. <<Top>> \in Path /\ Last(<<Top>>) = Top
    BY <1>2 DEF Path, Last
  <1> QED
    BY <1>2, <1>3, JobFacts

LEMMA Stated == \A ok \in BOOLEAN, status \in Statuses, ask \in BOOLEAN :
                  /\ Outcome(ok, status, ask) \in Outcomes
                  /\ Outcome(ok, status, ask).ok = ok /\ Outcome(ok, status, ask).status = status
                  /\ Outcome(ok, status, ask).ask = ask
  BY DEF Outcome, Outcomes

LEMMA StatusNames == Answers \subseteq Statuses /\ Buttons \subseteq Statuses
                     /\ {"ignore", "ignore_all", "retry", "abort", "cont", "skip"} = Statuses
  BY DEF Statuses, Answers, Buttons

LEMMA FailsTypes ==
  ASSUME TPlace, TCtx, NEW silent \in Statuses
  PROVE  \A o \in Fails(silent) : o \in Outcomes /\ ~o.ok /\ (o.ask \/ o.status = silent)
                                  /\ (o.ask => o.status \in Answers)
  <1>1. ASSUME NEW o \in Fails(silent)
        PROVE  o \in Outcomes /\ ~o.ok /\ (o.ask \/ o.status = silent) /\ (o.ask => o.status \in Answers)
    <2>1. \/ o = Outcome(FALSE, silent, FALSE)
          \/ \E r \in job.errors \ {"retry"} : o = Outcome(FALSE, r, TRUE)
      BY <1>1 DEF Fails
    <2>2. CASE o = Outcome(FALSE, silent, FALSE)
      BY <2>2, Stated
    <2>3. CASE \E r \in job.errors \ {"retry"} : o = Outcome(FALSE, r, TRUE)
      <3>1. PICK r \in job.errors \ {"retry"} : o = Outcome(FALSE, r, TRUE)
        BY <2>3
      <3>2. r \in Answers /\ r \in Statuses
        BY JobFacts, StatusNames
      <3> QED
        BY <3>1, <3>2, Stated
    <2> QED
      BY <2>1, <2>2, <2>3
  <1> QED
    BY <1>1

\* A call that may fail: what it leaves when it succeeds and when it does not.
LEMMA AttemptTypes ==
  ASSUME TPlace, TCtx, NEW name, NEW status \in Statuses, NEW silent \in Statuses
  PROVE  \A o \in Attempt(name, status, silent) :
            /\ o \in Outcomes
            /\ o.ok => o.status \in {status, "retry"} /\ (o.ask => o.status = "retry")
            /\ ~o.ok => o.ask \/ o.status = silent
  <1> SUFFICES ASSUME NEW o \in Attempt(name, status, silent)
               PROVE  /\ o \in Outcomes
                      /\ o.ok => o.status \in {status, "retry"} /\ (o.ask => o.status = "retry")
                      /\ ~o.ok => o.ask \/ o.status = silent
    OBVIOUS
  <1>1. \/ o = Outcome(TRUE, status, FALSE)
        \/ o \in Fails(silent)
        \/ o = Outcome(TRUE, "retry", TRUE)
    BY DEF Attempt
  <1>2. {"retry", "ignore_all", "abort"} \subseteq Statuses /\ TRUE \in BOOLEAN /\ FALSE \in BOOLEAN
    BY StatusNames
  <1>3. CASE o = Outcome(TRUE, status, FALSE)
    BY <1>2, <1>3, Stated
  <1>4. CASE o \in Fails(silent)
    BY <1>4, FailsTypes
  <1>5. CASE o = Outcome(TRUE, "retry", TRUE)
    BY <1>2, <1>5, Stated
  <1> QED
    BY <1>1, <1>3, <1>4, <1>5

LEMMA PressedTypes ==
  ASSUME TPlace
  PROVE  \A o \in Pressed : /\ o \in Outcomes /\ o.status \in Buttons
                            /\ (o.ok <=> o.status = "cont") /\ (o.ask <=> o.status # "cont")
  <1> SUFFICES ASSUME NEW b \in job.buttons, NEW o, o = Outcome(b = "cont", b, b # "cont")
               PROVE  /\ o \in Outcomes /\ o.status \in Buttons
                      /\ (o.ok <=> o.status = "cont") /\ (o.ask <=> o.status # "cont")
    BY DEF Pressed
  <1>1. b \in Statuses /\ b \in Buttons
    BY JobFacts, StatusNames
  <1>2. (b = "cont") \in BOOLEAN /\ (b # "cont") \in BOOLEAN
    OBVIOUS
  <1> QED
    BY <1>1, <1>2, Stated

LEMMA RemoveDirTypes ==
  ASSUME TPlace, TCtx, NEW p
  PROVE  \A o \in RemoveDir(p) : o \in Outcomes /\ (o.status = "abort" => o.ask)
  BY AttemptTypes, FailsTypes, StatusNames DEF RemoveDir

LEMMA EraseFileTypes ==
  ASSUME TPlace, TCtx, NEW p
  PROVE  \A o \in EraseFile(p) : o \in Outcomes /\ (o.status = "abort" => o.ask)
  <1> SUFFICES ASSUME NEW o \in EraseFile(p) PROVE o \in Outcomes /\ (o.status = "abort" => o.ask)
    OBVIOUS
  <1>1. \/ o \in Pressed
        \/ o \in Attempt("unlink", "cont", "cont")
        \/ \E r \in Attempt("unlink", "cont", "cont"), b \in Pressed :
              o = Outcome(r.ok, b.status, r.ask \/ b.ask)
    BY DEF EraseFile
  <1>2. CASE o \in Pressed
    BY <1>2, PressedTypes
  <1>3. CASE o \in Attempt("unlink", "cont", "cont")
    BY <1>3, AttemptTypes, StatusNames
  <1>4. CASE \E r \in Attempt("unlink", "cont", "cont"), b \in Pressed :
                o = Outcome(r.ok, b.status, r.ask \/ b.ask)
    <2>1. PICK r \in Attempt("unlink", "cont", "cont"), b \in Pressed :
                 o = Outcome(r.ok, b.status, r.ask \/ b.ask)
      BY <1>4
    <2>2. r.ok \in BOOLEAN /\ r.ask \in BOOLEAN /\ b.ask \in BOOLEAN /\ b.status \in Statuses
      BY AttemptTypes, PressedTypes, StatusNames DEF Outcomes
    <2>3. (r.ask \/ b.ask) \in BOOLEAN /\ (b.status = "abort" => b.ask)
      BY <2>2, PressedTypes
    <2> QED
      BY <2>1, <2>2, <2>3, Stated
  <1> QED
    BY <1>1, <1>2, <1>3, <1>4

LEMMA EraseIffEmptyTypes ==
  ASSUME TPlace, TCtx, NEW p
  PROVE  \A o \in EraseIffEmpty(p) : o \in Outcomes /\ (o.status = "abort" => o.ask)
  <1> SUFFICES ASSUME NEW o \in EraseIffEmpty(p) PROVE o \in Outcomes /\ (o.status = "abort" => o.ask)
    OBVIOUS
  <1>1. \/ o \in Pressed
        \/ o \in Attempt("opendir", "cont", "ignore_all") \/ o \in Fails("ignore_all")
        \/ o \in RemoveDir(p) \/ o = Outcome(FALSE, "cont", FALSE)
    BY DEF EraseIffEmpty
  <1>2. CASE o \in Pressed
    BY <1>2, PressedTypes
  <1>3. CASE o \in Attempt("opendir", "cont", "ignore_all")
    BY <1>3, AttemptTypes, StatusNames
  <1>4. CASE o \in Fails("ignore_all")
    BY <1>4, FailsTypes, StatusNames
  <1>5. CASE o \in RemoveDir(p)
    BY <1>5, RemoveDirTypes
  <1>6. CASE o = Outcome(FALSE, "cont", FALSE)
    BY <1>6, Stated, StatusNames
  <1> QED
    BY <1>1, <1>2, <1>3, <1>4, <1>5, <1>6

LEMMA RefusedTypes ==
  ASSUME TPlace, TCtx
  PROVE  \A o \in Refused : o \in Outcomes
  <1> SUFFICES ASSUME NEW o \in Refused PROVE o \in Outcomes
    OBVIOUS
  <1>1. CASE \E x \in {"skip", "abort"} : o = Outcome(FALSE, x, TRUE)
    <2>1. PICK x \in {"skip", "abort"} : o = Outcome(FALSE, x, TRUE)
      BY <1>1
    <2>2. x \in Statuses
      BY <2>1, StatusNames
    <2> QED
      BY <2>1, <2>2, Stated
  <1>2. CASE \E x \in {"ignore_all", "cont"} : o \in Fails(x)
    BY <1>2, FailsTypes, StatusNames
  <1> QED
    BY <1>1, <1>2 DEF Refused

LEMMA CopyResultsTypes ==
  ASSUME TPlace, TCtx
  PROVE  \A o \in CopyResults : /\ o \in Outcomes /\ (o.status = "cont" => o.ok)
                                /\ (o.status = "abort" => o.ask)
  <1> SUFFICES ASSUME NEW o \in CopyResults
               PROVE  /\ o \in Outcomes /\ (o.status = "cont" => o.ok) /\ (o.status = "abort" => o.ask)
    OBVIOUS
  <1>1. CASE o = Outcome(TRUE, "cont", FALSE)
    BY <1>1, Stated, StatusNames
  <1>2. CASE o \in [ok : BOOLEAN, ask : {~ignoreAll},
              status : IF ignoreAll THEN {"ignore_all"} ELSE (job.errors \ {"retry"}) \cup {"skip"}]
    <2>1. ignoreAll \in BOOLEAN /\ job.errors \subseteq Answers
      BY JobFacts DEF TCtx
    <2>2. CASE ignoreAll
      BY <1>2, <2>1, <2>2, StatusNames DEF Outcomes
    <2>3. CASE ~ignoreAll
      BY <1>2, <2>1, <2>3, StatusNames DEF Outcomes, Answers
    <2> QED
      BY <2>1, <2>2, <2>3
  <1>3. CASE o \in [ok : BOOLEAN, ask : {FALSE}, status : {"skip", "retry"}]
    BY <1>3, StatusNames DEF Outcomes
  <1> QED
    BY <1>1, <1>2, <1>3 DEF CopyResults

-----------------------------------------------------------------------------
(* Lemmas about the operators of the model *)

\* A finite set is listed.
LEMMA ListedSet ==
  ASSUME NEW T, NEW S \in SUBSET T, IsFiniteSet(S)
  PROVE  SetToSeq(S) \in Seq(T)
  <1> DEFINE n == Cardinality(S)
  <1>1. n \in Nat /\ ExistsBijection(1 .. n, S)
    BY FS_CardinalityType
  <1>2. \E f \in [1 .. n -> S] : IsInjective(f)
    BY <1>1 DEF ExistsBijection, Bijection, Injection, IsInjective
  <1>3. SetToSeq(S) \in [1 .. n -> S]
    BY <1>2 DEF SetToSeq
  <1> QED
    BY <1>1, <1>3

\* The image of a finite set of paths.
LEMMA TargetsFinite ==
  ASSUME NEW S, IsFiniteSet(S)
  PROVE  IsFiniteSet({TargetOf(q) : q \in S}) /\ IsFiniteSet({Last(q) : q \in S})
  <1>1. ASSUME NEW T, NEW f, f \in Surjection(S, T)
        PROVE  IsFiniteSet(T)
    BY <1>1, FS_Surjection
  <1>2. [q \in S |-> TargetOf(q)] \in Surjection(S, {TargetOf(q) : q \in S})
    BY DEF Surjection
  <1>3. [q \in S |-> Last(q)] \in Surjection(S, {Last(q) : q \in S})
    BY DEF Surjection
  <1> QED
    BY <1>1, <1>2, <1>3

LEMMA TargetTypes ==
  ASSUME NEW p \in Path
  PROVE  TargetOf(p) \in Path
  <1>1. p \in Seq(Names) /\ Len(p) \in Nat /\ Len(p) > 0 /\ p[1] \in Names /\ Tail(p) \in Seq(Names)
    BY EmptySeq DEF Path
  <1> DEFINE head == IF Dived THEN <<p[1], p[1]>> ELSE <<p[1]>>
  <1>2. head \in Seq(Names) /\ Len(head) > 0 /\ Len(head) \in Nat
    BY <1>1
  <1>3. TargetOf(p) = head \o Tail(p)
    BY DEF TargetOf
  <1> HIDE DEF head
  <1>4. head \o Tail(p) \in Seq(Names) /\ Len(head \o Tail(p)) = Len(head) + Len(Tail(p))
    BY <1>1, <1>2
  <1>5. Len(Tail(p)) \in Nat
    BY <1>1
  <1>6. head \o Tail(p) # <<>>
    BY <1>2, <1>4, <1>5
  <1> QED
    BY <1>3, <1>4, <1>6 DEF Path

LEMMA ListingTypes ==
  ASSUME TPlace, TDisk, NEW p \in Path
  PROVE  Listing(p) \in Seq(Names)
  <1>1. p \in Seq(Names) /\ p # <<>> /\ Last(p) \in Names
    BY LastAndFront DEF Path
  <1>2. CASE ThroughCopy(p)
    <2> DEFINE U == {u \in target : Front(u) = AsTarget(p)}
               L == {Last(t) : t \in U}
    <2>1. U \in SUBSET target
      OBVIOUS
    <2>2. IsFiniteSet(U)
      BY <2>1, FS_Subset DEF TDisk
    <2>3. IsFiniteSet(L)
      BY <2>2, TargetsFinite
    <2>4. \A t \in Path : Last(t) \in Names
      BY LastAndFront DEF Path
    <2>5. L \in SUBSET Names
      BY <2>1, <2>4 DEF TDisk
    <2>6. SetToSeq(L) \in Seq(Names)
      BY <2>3, <2>5, ListedSet
    <2>7. Listing(p) = SetToSeq(L)
      BY <1>2 DEF Listing
    <2> QED
      BY <2>6, <2>7
  <1>3. CASE ~ThroughCopy(p)
    <2> DEFINE kids == job.kids[job.inode[Last(p)]]
               in == IF Last(p) \in job.inside /\ TargetOf(<<Top>>) \in target THEN <<Copied>> ELSE <<>>
               late == IF Append(p, Late) \in source THEN <<Late>> ELSE <<>>
    <2>1. kids \in Seq(Names)
      BY <1>1, JobFacts
    <2>2. in \in Seq(Names) /\ late \in Seq(Names)
      BY NamesAssumption
    <2>3. Listing(p) = kids \o in \o late
      BY <1>3 DEF Listing
    <2> HIDE DEF kids, in, late
    <2> QED
      BY <2>1, <2>2, <2>3
  <1> QED
    BY <1>2, <1>3

\* A tree is renamed.
LEMMA RenameTypes ==
  ASSUME TDisk, NEW p \in Path, RenameTree(p)
  PROVE  /\ source' \subseteq source /\ target \subseteq target' /\ target' \subseteq Path
         /\ IsFiniteSet(source') /\ IsFiniteSet(target')
         /\ \A q \in source : q \in source' \/ TargetOf(q) \in target'
  <1> DEFINE new == {TargetOf(q) : q \in Under(p)}
  <1>1. source' = source \ Under(p) /\ target' = target \cup new
    BY DEF RenameTree
  <1>2. Under(p) \in SUBSET source
    BY DEF Under
  <1>3. IsFiniteSet(Under(p)) /\ IsFiniteSet(source')
    BY <1>1, <1>2, FS_Subset DEF TDisk
  <1>4. new \subseteq Path
    BY <1>2, TargetTypes DEF TDisk
  <1>5. IsFiniteSet(new)
    BY <1>3, TargetsFinite
  <1>6. IsFiniteSet(target')
    BY <1>1, <1>5, FS_Union DEF TDisk
  <1>7. \A q \in source : q \in source' \/ TargetOf(q) \in target'
    BY <1>1
  <1> QED
    BY <1>1, <1>3, <1>4, <1>6, <1>7 DEF TDisk

\* The call on top of the stack.
LEMMA HereTypes ==
  ASSUME TWork, stack # <<>>
  PROVE  /\ Len(stack) \in Nat /\ Len(stack) > 0 /\ Here = stack[Len(stack)] /\ Here \in PathFrames
         /\ Front(stack) \in Seq(PathFrames) /\ Len(Front(stack)) = Len(stack) - 1
         /\ \A i \in 1 .. Len(stack) - 1 : Front(stack)[i] = stack[i]
  BY LastAndFront, Zenon DEF TWork, Here

\* The entry the call on top of the stack is about to look at.
LEMMA EntryTypes ==
  ASSUME TWork, stack # <<>>, Here.todo # <<>>
  PROVE  /\ Append(Here.from, Head(Here.todo)) \in Path
         /\ Append(Here.from, Head(Here.todo))[1] = Here.from[1]
         /\ [Here EXCEPT !.todo = Tail(@), !.entry = Append(Here.from, Head(Here.todo))]
              \in PathFrames
  <1>1. Here \in PathFrames
    BY HereTypes
  <1>2. Here.from \in Path /\ Here.todo \in Seq(Names)
    BY <1>1 DEF PathFrames
  <1>3. Head(Here.todo) \in Names /\ Tail(Here.todo) \in Seq(Names)
    BY <1>2, AppendHead
  <1>4. Append(Here.from, Head(Here.todo)) \in Path
        /\ Append(Here.from, Head(Here.todo))[1] = Here.from[1]
    BY <1>2, <1>3, PathOf DEF Path
  <1> QED
    BY <1>1, <1>3, <1>4 DEF PathFrames

\* A call returns: only the status of the frame below it changes.
LEMMA GiveTypes ==
  ASSUME TPlace, TWork, NEW status \in Statuses, NEW frames \in Seq(PathFrames), Give(status, frames)
  PROVE  /\ stack' \in Seq(PathFrames) /\ Len(stack') = Len(frames) /\ val' \in Statuses
         /\ frames = <<>> => /\ stack' = <<>> /\ val' = status
                             /\ pc' = IF job.op = "move" THEN "moved" ELSE "done"
         /\ frames # <<>> => /\ stack' # <<>> /\ stack'[Len(frames)].status = status
                             /\ pc' = IF job.op = "delete" THEN "wipe" ELSE "entry"
         /\ \A i \in 1 .. Len(frames) : /\ stack'[i].from = frames[i].from
                                        /\ stack'[i].entry = frames[i].entry
  <1>1. CASE frames = <<>>
    <2>1. val' = status /\ stack' = <<>> /\ pc' = IF job.op = "move" THEN "moved" ELSE "done"
      BY <1>1 DEF Give, Goto
    <2>2. 1 .. Len(frames) = {}
      BY <1>1
    <2> QED
      BY <1>1, <2>1, <2>2
  <1>2. CASE frames # <<>>
    <2> DEFINE old == frames[Len(frames)]
               new == [old EXCEPT !.status = status]
    <2>1. /\ stack' = [frames EXCEPT ![Len(frames)] = new] /\ val' = val
          /\ pc' = IF job.op = "delete" THEN "wipe" ELSE "entry"
      BY <1>2 DEF Give, Goto
    <2>2. Len(frames) \in Nat /\ Len(frames) > 0 /\ old \in PathFrames
      BY <1>2, EmptySeq
    <2>3. new \in PathFrames /\ new.status = status /\ new.from = old.from /\ new.entry = old.entry
      BY <2>2 DEF PathFrames
    <2> HIDE DEF new
    <2>4. /\ stack' \in Seq(PathFrames) /\ Len(stack') = Len(frames) /\ stack' # <<>>
          /\ stack'[Len(stack')] = new /\ \A i \in 1 .. Len(frames) - 1 : stack'[i] = frames[i]
      BY <1>2, <2>1, <2>3, LastExchanged
    <2>5. \A i \in 1 .. Len(frames) : i = Len(frames) \/ i \in 1 .. Len(frames) - 1
      BY <2>2
    <2>6. \A i \in 1 .. Len(frames) : /\ stack'[i].from = frames[i].from
                                      /\ stack'[i].entry = frames[i].entry
      BY <2>3, <2>4, <2>5
    <2> QED
      BY <1>2, <2>1, <2>3, <2>4, <2>6 DEF TWork
  <1> QED
    BY <1>1, <1>2

\* A directory is opened.
LEMMA PushTypes ==
  ASSUME TPlace, TWork, TDisk, NEW p \in Path, NEW status \in Statuses, Push(p, status)
  PROVE  /\ stack' \in Seq(PathFrames) /\ stack' # <<>> /\ Len(stack') = Len(stack) + 1
         /\ \A i \in 1 .. Len(stack) : stack'[i] = stack[i]
         /\ stack'[Len(stack) + 1].from = p /\ stack'[Len(stack) + 1].status = status
         /\ stack'[Len(stack) + 1].entry = p
         /\ pc' = IF job.op = "delete" THEN "wipe" ELSE "read"
  <1> DEFINE frame == [from |-> p, todo |-> Listing(p), entry |-> p, status |-> status]
  <1>1. frame \in PathFrames /\ frame.from = p /\ frame.status = status /\ frame.entry = p
    BY ListingTypes DEF PathFrames
  <1>2. stack' = Append(stack, frame) /\ pc' = IF job.op = "delete" THEN "wipe" ELSE "read"
    BY DEF Push, Goto
  <1> HIDE DEF frame
  <1>3. stack \in Seq(PathFrames)
    BY DEF TWork
  <1>4. \A x \in PathFrames : /\ Append(stack, x) \in Seq(PathFrames) /\ Append(stack, x) # <<>>
                             /\ Len(Append(stack, x)) = Len(stack) + 1
                             /\ \A i \in 1 .. Len(stack) : Append(stack, x)[i] = stack[i]
                             /\ Append(stack, x)[Len(stack) + 1] = x
    BY <1>3, AppendHead
  <1>5. /\ stack' \in Seq(PathFrames) /\ stack' # <<>> /\ Len(stack') = Len(stack) + 1
        /\ \A i \in 1 .. Len(stack) : stack'[i] = stack[i]
        /\ stack'[Len(stack) + 1] = frame
    <2>1. \A t : t = Append(stack, frame) =>
             /\ t \in Seq(PathFrames) /\ t # <<>> /\ Len(t) = Len(stack) + 1
             /\ \A i \in 1 .. Len(stack) : t[i] = stack[i]
             /\ t[Len(stack) + 1] = frame
      BY <1>1, <1>4
    <2> QED
      BY <1>2, <2>1
  <1> QED
    BY <1>1, <1>2, <1>5, Zenon

-----------------------------------------------------------------------------
(* Every step preserves the types *)

\* An outcome is taken note of, or reported.
LEMMA NoticeTypes ==
  ASSUME TPlace, TCtx, THist, cur > 0, NEW o \in Outcomes, Notice(o), UNCHANGED job
  PROVE  ignoreAll' \in BOOLEAN /\ asked' \subseteq ToSet(job'.tops)
  <1>1. Top \in ToSet(job.tops)
    BY TopFacts
  <1>2. ignoreAll' \in BOOLEAN
    BY DEF Notice, TCtx
  <1>3. asked' = asked \/ asked' = asked \cup {Top}
    BY DEF Notice
  <1> QED
    BY <1>1, <1>2, <1>3 DEF THist

LEMMA ReportTypes ==
  ASSUME TPlace, TCtx, THist, cur > 0, NEW o \in Outcomes, Report(o),
         UNCHANGED <<job, recursive, eraseList, destDirs, target, confirmed, added>>
  PROVE  TCtx' /\ THist'
  <1>1. ignoreAll' \in BOOLEAN /\ asked' \subseteq ToSet(job'.tops)
    BY NoticeTypes DEF Report
  <1>2. aborted' \in BOOLEAN
    BY DEF Report, THist
  <1>3. TCtx'
    BY <1>1 DEF TCtx
  <1>4. THist'
    BY <1>1, <1>2 DEF THist
  <1> QED
    BY <1>3, <1>4

\* A call goes on with its next step.
LEMMA CallGoesOn ==
  ASSUME TInv, pc \in Copying \ {"read", "entry"}, NEW label \in Copying \ {"read", "entry"},
         label \in {"mkdir", "own", "opendir"} => Len(stack) < MaxDepth, pc' = label,
         call' \in CallTypes, call'.from = call.from,
         UNCHANGED <<job, cur, marked, stack, val, eraseList>>
  PROVE  TPlace' /\ TWork' /\ TStage'
  <1>1. TPlace'
    BY DEF TInv, TPlace, Copying, Labels
  <1>2. TWork'
    BY DEF TInv, TWork
  <1>3. TStage'
    BY DEF TInv, TStage, Copying
  <1> QED
    BY <1>1, <1>2, <1>3

\* A call returns before it has opened its directory.
LEMMA CallReturns ==
  ASSUME TInv, pc \in Copying \ {"read", "entry"}, NEW status \in Statuses, Give(status, stack),
         call' = NoCall, UNCHANGED <<job, cur, marked, eraseList>>
  PROVE  TPlace' /\ TWork' /\ TStage'
  <1>1. /\ stack' \in Seq(PathFrames) /\ Len(stack') = Len(stack) /\ val' \in Statuses
        /\ stack = <<>> => stack' = <<>> /\ pc' = IF job.op = "move" THEN "moved" ELSE "done"
        /\ stack # <<>> => stack' # <<>> /\ pc' = IF job.op = "delete" THEN "wipe" ELSE "entry"
    BY GiveTypes DEF TInv, TWork
  <1>2. pc' \in {"moved", "done", "entry"} /\ job.op # "delete" /\ cur > 0
    BY <1>1 DEF TInv, TStage, Copying
  <1>3. TPlace'
    BY <1>2 DEF TInv, TPlace, Labels
  <1>4. NoCall \in CallTypes
    BY StatusNames DEF NoCall, CallTypes
  <1>5. TWork'
    BY <1>1, <1>4 DEF TInv, TWork
  <1>6. TStage'
    BY <1>1, <1>2 DEF TInv, TStage, Copying
  <1> QED
    BY <1>3, <1>5, <1>6

\* Where a call of copy_dir_dir is under way, the operation has a marked directory.
LEMMA CopyingFacts ==
  ASSUME TInv, pc \in Copying
  PROVE  /\ TPlace /\ TCtx /\ THist /\ cur > 0 /\ job.op # "delete"
         /\ call \in CallTypes /\ call.status \in Statuses
         /\ pc \notin {"read", "entry"} => call.from \in Path
  <1>1. call \in CallTypes
    BY DEF TInv, TWork
  <1>2. call.from \in Seq(Names) /\ call.status \in Statuses
    BY <1>1 DEF CallTypes
  <1> QED
    BY <1>1, <1>2 DEF TInv, TStage, Copying, Path

\* The status of a call replaced.
LEMMA CallStatus ==
  ASSUME NEW c \in CallTypes, NEW status \in Statuses
  PROVE  [c EXCEPT !.status = status] \in CallTypes
         /\ [c EXCEPT !.status = status].from = c.from
  BY DEF CallTypes

LEMMA StatDirTypes ==
  ASSUME TInv, StatDir
  PROVE  TInv'
  <1>1. pc \in Copying /\ pc = "enter"
    BY DEF StatDir, Copying
  <1>2. UNCHANGED <<job, cur, marked, recursive, eraseList, destDirs, source, target, confirmed,
                    added>>
    BY DEF StatDir, disk
  <1>3. PICK o \in Attempt("stat", "cont", "ignore_all") :
          /\ Report(o)
          /\ IF o.ok THEN /\ call' = [call EXCEPT !.status = o.status] /\ Goto("flags")
                          /\ UNCHANGED <<stack, val>>
             ELSE Give(o.status, stack) /\ call' = NoCall
    BY DEF StatDir
  <1>4. o \in Outcomes /\ o.status \in Statuses
    BY <1>1, CopyingFacts, AttemptTypes, StatusNames DEF Outcomes
  <1>5. TCtx' /\ THist'
    BY <1>1, <1>2, <1>3, <1>4, CopyingFacts, ReportTypes
  <1>6. TDisk'
    BY <1>2 DEF TInv, TDisk
  <1>7. TPlace' /\ TWork' /\ TStage'
    <2>1. CASE o.ok
      <3>1. call' \in CallTypes /\ call'.from = call.from
        BY <1>1, <1>3, <1>4, <2>1, CopyingFacts, CallStatus
      <3> QED
        BY <1>1, <1>2, <1>3, <2>1, <3>1, CallGoesOn DEF Goto, Copying
    <2>2. CASE ~o.ok
      BY <1>1, <1>2, <1>3, <1>4, <2>2, CallReturns DEF Copying
    <2> QED
      BY <2>1, <2>2
  <1> QED
    BY <1>5, <1>6, <1>7 DEF TInv

LEMMA GetFlagsTypes ==
  ASSUME TInv, GetFlags
  PROVE  TInv'
  <1>1. pc \in Copying /\ pc = "flags"
    BY DEF GetFlags, Copying
  <1>2. UNCHANGED <<job, cur, marked, recursive, eraseList, destDirs, source, target, confirmed,
                    added>>
    BY DEF GetFlags, disk
  <1>3. PICK o \in Attempt("getflags", call.status, "ignore_all") :
          /\ Report(o)
          /\ IF o.status = "abort" THEN Give("abort", stack) /\ call' = NoCall
             ELSE /\ call' = [call EXCEPT !.status = o.status] /\ Goto("cycles")
                  /\ UNCHANGED <<stack, val>>
    BY DEF GetFlags
  <1>4. o \in Outcomes /\ o.status \in Statuses /\ "abort" \in Statuses
    BY <1>1, CopyingFacts, AttemptTypes, StatusNames DEF Outcomes
  <1>5. TCtx' /\ THist'
    BY <1>1, <1>2, <1>3, <1>4, CopyingFacts, ReportTypes
  <1>6. TDisk'
    BY <1>2 DEF TInv, TDisk
  <1>7. TPlace' /\ TWork' /\ TStage'
    <2>1. CASE o.status # "abort"
      <3>1. call' \in CallTypes /\ call'.from = call.from
        BY <1>1, <1>3, <1>4, <2>1, CopyingFacts, CallStatus
      <3> QED
        BY <1>1, <1>2, <1>3, <2>1, <3>1, CallGoesOn DEF Goto, Copying
    <2>2. CASE o.status = "abort"
      BY <1>1, <1>2, <1>3, <1>4, <2>2, CallReturns DEF Copying
    <2> QED
      BY <2>1, <2>2
  <1> QED
    BY <1>5, <1>6, <1>7 DEF TInv

LEMMA OwnDirTypes ==
  ASSUME TInv, OwnDir
  PROVE  TInv'
  <1>1. pc \in Copying /\ pc = "own"
    BY DEF OwnDir, Copying
  <1>2. UNCHANGED <<job, cur, marked, recursive, eraseList, destDirs, source, target, confirmed,
                    added>>
    BY DEF OwnDir, disk
  <1>3. PICK o \in Attempt("chown", call.status, "ignore_all") :
          /\ Report(o)
          /\ IF o.ok THEN /\ call' = [call EXCEPT !.status = o.status] /\ Goto("opendir")
                          /\ UNCHANGED <<stack, val>>
             ELSE Give(o.status, stack) /\ call' = NoCall
    BY DEF OwnDir
  <1>4. o \in Outcomes /\ o.status \in Statuses
    BY <1>1, CopyingFacts, AttemptTypes, StatusNames DEF Outcomes
  <1>5. TCtx' /\ THist'
    BY <1>1, <1>2, <1>3, <1>4, CopyingFacts, ReportTypes
  <1>6. TDisk'
    BY <1>2 DEF TInv, TDisk
  <1>7. TPlace' /\ TWork' /\ TStage'
    <2>1. CASE o.ok
      <3>1. call' \in CallTypes /\ call'.from = call.from
        BY <1>1, <1>3, <1>4, <2>1, CopyingFacts, CallStatus
      <3>2. Len(stack) < MaxDepth
        BY <1>1 DEF TInv, TStage
      <3> QED
        BY <1>1, <1>2, <1>3, <2>1, <3>1, <3>2, CallGoesOn DEF Goto, Copying
    <2>2. CASE ~o.ok
      BY <1>1, <1>2, <1>3, <1>4, <2>2, CallReturns DEF Copying
    <2> QED
      BY <2>1, <2>2
  <1> QED
    BY <1>5, <1>6, <1>7 DEF TInv

LEMMA CheckCyclesTypes ==
  ASSUME TInv, CheckCycles
  PROVE  TInv'
  <1>1. pc \in Copying /\ pc = "cycles"
    BY DEF CheckCycles, Copying
  <1>2. UNCHANGED <<job, cur, marked, ignoreAll, recursive, eraseList, destDirs, source, target,
                    aborted, confirmed, added>>
    BY DEF CheckCycles, disk, ctx
  <1>3. \/ Give("cont", stack) /\ call' = NoCall
        \/ Give("skip", stack) /\ call' = NoCall
        \/ Len(stack) < MaxDepth /\ Goto("mkdir") /\ UNCHANGED <<stack, val, call>>
    BY DEF CheckCycles
  <1>4. asked' = asked \/ asked' = asked \cup {Top}
    BY DEF CheckCycles
  <1>5. Top \in ToSet(job.tops)
    BY <1>1, CopyingFacts, TopFacts
  <1>6. TCtx'
    BY <1>2 DEF TInv, TCtx
  <1>7. THist'
    BY <1>2, <1>4, <1>5 DEF TInv, THist
  <1>8. TDisk'
    BY <1>2 DEF TInv, TDisk
  <1>9. TPlace' /\ TWork' /\ TStage'
    <2>1. CASE Give("cont", stack) /\ call' = NoCall
      BY <1>1, <1>2, <2>1, CallReturns, StatusNames DEF Copying
    <2>2. CASE Give("skip", stack) /\ call' = NoCall
      BY <1>1, <1>2, <2>2, CallReturns, StatusNames DEF Copying
    <2>3. CASE Len(stack) < MaxDepth /\ Goto("mkdir") /\ UNCHANGED <<stack, val, call>>
      <3>1. call' \in CallTypes /\ call'.from = call.from
        BY <1>1, <2>3, CopyingFacts
      <3> QED
        BY <1>1, <1>2, <2>3, <3>1, CallGoesOn DEF Goto, Copying
    <2> QED
      BY <1>3, <2>1, <2>2, <2>3
  <1> QED
    BY <1>6, <1>7, <1>8, <1>9 DEF TInv

LEMMA MkdirTypes ==
  ASSUME TPlace, TCtx, call \in CallTypes, NEW to
  PROVE  \A o \in Mkdir(to) : /\ o \in Outcomes /\ (o.ok => o.status # "abort" \/ call.status = "abort")
                              /\ (o.ok /\ o.ask => o.status = "retry")
                              /\ (o.ok => to \notin target)
  <1>1. call.status \in Statuses /\ "ignore_all" \in Statuses
    BY StatusNames DEF CallTypes
  <1>2. CASE to \in target
    BY <1>1, <1>2, FailsTypes DEF Mkdir
  <1>3. CASE to \notin target
    BY <1>1, <1>3, AttemptTypes DEF Mkdir
  <1> QED
    BY <1>2, <1>3

LEMMA MakeDirTypes ==
  ASSUME TInv, MakeDir
  PROVE  TInv'
  <1> DEFINE to == TargetOf(call.from)
  <1>1. pc \in Copying /\ pc = "mkdir" /\ Len(stack) < MaxDepth
    BY DEF MakeDir, Copying, TInv, TStage
  <1>2. UNCHANGED <<job, cur, marked, recursive, eraseList, source, confirmed, added>>
    BY DEF MakeDir
  <1>3. \/ /\ Goto("own")
           /\ UNCHANGED <<stack, call, val, ignoreAll, destDirs, target, asked, aborted>>
        \/ \E o \in Mkdir(to) :
             /\ Report(o)
             /\ IF o.ok
                THEN /\ target' = target \cup {to} /\ destDirs' = destDirs \cup {to}
                     /\ call' = [call EXCEPT !.status = o.status]
                     /\ Goto("own") /\ UNCHANGED <<stack, val>>
                ELSE Give(o.status, stack) /\ call' = NoCall /\ UNCHANGED <<target, destDirs>>
    BY DEF MakeDir, work
  <1>4. to \in Path /\ call \in CallTypes
    BY <1>1, CopyingFacts, TargetTypes
  <1> HIDE DEF to
  <1>5. CASE /\ Goto("own")
             /\ UNCHANGED <<stack, call, val, ignoreAll, destDirs, target, asked, aborted>>
    <2>1. TCtx'
      BY <1>2, <1>5 DEF TInv, TCtx
    <2>2. THist'
      BY <1>2, <1>5 DEF TInv, THist
    <2>3. TDisk'
      BY <1>2, <1>5 DEF TInv, TDisk
    <2>4. TPlace' /\ TWork' /\ TStage'
      BY <1>1, <1>2, <1>4, <1>5, CallGoesOn DEF Goto, Copying
    <2> QED
      BY <2>1, <2>2, <2>3, <2>4 DEF TInv
  <1>6. ASSUME NEW o \in Mkdir(to), Report(o),
               IF o.ok
               THEN /\ target' = target \cup {to} /\ destDirs' = destDirs \cup {to}
                    /\ call' = [call EXCEPT !.status = o.status]
                    /\ Goto("own") /\ UNCHANGED <<stack, val>>
               ELSE Give(o.status, stack) /\ call' = NoCall /\ UNCHANGED <<target, destDirs>>
        PROVE  TInv'
    <2>1. o \in Outcomes /\ o.status \in Statuses
      BY <1>1, <1>4, CopyingFacts, MkdirTypes DEF Outcomes
    <2>2. ignoreAll' \in BOOLEAN /\ asked' \subseteq ToSet(job'.tops)
      BY <1>1, <1>2, <1>6, <2>1, CopyingFacts, NoticeTypes DEF Report
    <2>3. aborted' \in BOOLEAN
      BY <1>6 DEF Report, TInv, THist
    <2>4. THist'
      BY <1>2, <2>2, <2>3 DEF TInv, THist
    <2>5. CASE o.ok
      <3>1. /\ target' = target \cup {to} /\ destDirs' = destDirs \cup {to}
            /\ call' = [call EXCEPT !.status = o.status] /\ pc' = "own" /\ UNCHANGED <<stack, val>>
        BY <1>6, <2>5 DEF Goto
      <3>2. TCtx'
        BY <1>2, <2>2, <3>1 DEF TInv, TCtx
      <3>3. IsFiniteSet(target')
        BY <3>1, FS_AddElement DEF TInv, TDisk
      <3>4. TDisk'
        BY <1>2, <1>4, <3>1, <3>3 DEF TInv, TDisk
      <3>5. call' \in CallTypes /\ call'.from = call.from
        BY <1>4, <2>1, <3>1, CallStatus
      <3>6. TPlace' /\ TWork' /\ TStage'
        BY <1>1, <1>2, <3>1, <3>5, CallGoesOn DEF Copying
      <3> QED
        BY <2>4, <3>2, <3>4, <3>6 DEF TInv
    <2>6. CASE ~o.ok
      <3>1. Give(o.status, stack) /\ call' = NoCall /\ UNCHANGED <<target, destDirs>>
        BY <1>6, <2>6
      <3>2. TCtx'
        BY <1>2, <2>2, <3>1 DEF TInv, TCtx
      <3>3. TDisk'
        BY <1>2, <3>1 DEF TInv, TDisk
      <3>4. TPlace' /\ TWork' /\ TStage'
        BY <1>1, <1>2, <2>1, <3>1, CallReturns DEF Copying
      <3> QED
        BY <2>4, <3>2, <3>3, <3>4 DEF TInv
    <2> QED
      BY <2>5, <2>6
  <1> QED
    BY <1>3, <1>5, <1>6

LEMMA TargetIsFileTypes ==
  ASSUME TInv, TargetIsFile
  PROVE  TInv'
  <1>1. pc \in Copying /\ pc = "mkdir"
    BY DEF TargetIsFile, Copying
  <1>2. UNCHANGED <<job, cur, marked, recursive, eraseList, destDirs, source, target, confirmed,
                    added>>
    BY DEF TargetIsFile, disk
  <1>3. PICK o \in Fails("ignore_all") : Report(o) /\ Give(o.status, stack)
    BY DEF TargetIsFile
  <1>4. o \in Outcomes /\ o.status \in Statuses /\ call' = NoCall
    BY <1>1, CopyingFacts, FailsTypes, StatusNames DEF Outcomes, TargetIsFile
  <1>5. TCtx' /\ THist'
    BY <1>1, <1>2, <1>3, <1>4, CopyingFacts, ReportTypes
  <1>6. TDisk'
    BY <1>2 DEF TInv, TDisk
  <1>7. TPlace' /\ TWork' /\ TStage'
    BY <1>1, <1>2, <1>3, <1>4, CallReturns DEF Copying
  <1> QED
    BY <1>5, <1>6, <1>7 DEF TInv

LEMMA TargetVanishedTypes ==
  ASSUME TInv, TargetVanished
  PROVE  TInv'
  <1>1. pc \in Copying /\ pc = "mkdir" /\ call.from \in Path
    BY CopyingFacts DEF TargetVanished, Copying
  <1>2. UNCHANGED <<job, cur, marked, ignoreAll, recursive, eraseList, destDirs, asked, aborted,
                    confirmed, added>>
    BY DEF TargetVanished, ctx, hist
  <1>3. RenameTree(call.from) /\ Give("cont", stack) /\ call' = NoCall
    BY DEF TargetVanished
  <1>4. /\ source' \subseteq source /\ target \subseteq target' /\ target' \subseteq Path
        /\ IsFiniteSet(source') /\ IsFiniteSet(target')
    BY <1>1, <1>3, RenameTypes DEF TInv
  <1>5. TCtx'
    BY <1>2, <1>4 DEF TInv, TCtx
  <1>6. THist'
    BY <1>2 DEF TInv, THist
  <1>7. TDisk'
    BY <1>4 DEF TInv, TDisk
  <1>8. TPlace' /\ TWork' /\ TStage'
    BY <1>1, <1>2, <1>3, CallReturns, StatusNames DEF Copying
  <1> QED
    BY <1>5, <1>6, <1>7, <1>8 DEF TInv

LEMMA OpenDirTypes ==
  ASSUME TInv, OpenDir
  PROVE  TInv'
  <1>1. /\ pc \in Copying /\ pc = "opendir" /\ Len(stack) < MaxDepth /\ job.op # "delete"
        /\ TPlace /\ TWork /\ TDisk /\ Len(stack) \in Nat /\ cur > 0
    BY DEF OpenDir, Copying, TInv, TStage, TWork
  <1>2. UNCHANGED <<job, cur, marked, ignoreAll, recursive, eraseList, destDirs, source, target,
                    asked, aborted, confirmed, added>> /\ call' = NoCall
    BY DEF OpenDir, disk, ctx, hist
  <1>3. (Push(call.from, call.status) /\ UNCHANGED val) \/ Give(call.status, stack)
    BY DEF OpenDir
  <1>4. call.status \in Statuses /\ call.from \in Path /\ NoCall \in CallTypes
    BY <1>1, CopyingFacts, StatusNames DEF NoCall, CallTypes
  <1>5. TCtx'
    BY <1>2 DEF TInv, TCtx
  <1>6. THist'
    BY <1>2 DEF TInv, THist
  <1>7. TDisk'
    BY <1>2 DEF TInv, TDisk
  <1>8. TPlace' /\ TWork' /\ TStage'
    <2>1. CASE Push(call.from, call.status) /\ UNCHANGED val
      <3>1. /\ stack' \in Seq(PathFrames) /\ stack' # <<>> /\ Len(stack') = Len(stack) + 1
            /\ pc' = "read"
        BY <1>1, <1>4, <2>1, PushTypes
      <3>2. Len(stack') <= MaxDepth
        BY <1>1, <3>1, NamesAssumption
      <3>3. TPlace'
        BY <1>2, <3>1 DEF TInv, TPlace, Labels
      <3>4. TWork'
        BY <1>2, <1>4, <2>1, <3>1, <3>2 DEF TInv, TWork
      <3>5. TStage'
        BY <1>1, <1>2, <3>1 DEF TInv, TStage, Copying
      <3> QED
        BY <3>3, <3>4, <3>5
    <2>2. CASE Give(call.status, stack)
      BY <1>1, <1>2, <1>4, <2>2, CallReturns DEF Copying
    <2> QED
      BY <1>3, <2>1, <2>2
  <1> QED
    BY <1>5, <1>6, <1>7, <1>8 DEF TInv

\* The call on top of the stack takes the next entry, and its status may change.
LEMMA TopExchanged ==
  ASSUME TWork, stack # <<>>, NEW frame \in PathFrames,
         stack' = [stack EXCEPT ![Len(stack)] = frame]
  PROVE  /\ stack' \in Seq(PathFrames) /\ stack' # <<>> /\ Len(stack') = Len(stack)
         /\ stack'[Len(stack)] = frame /\ \A i \in 1 .. Len(stack) - 1 : stack'[i] = stack[i]
  BY LastExchanged DEF TWork

LEMMA ReadEntryTypes ==
  ASSUME TInv, ReadEntry
  PROVE  TInv'
  <1> DEFINE p == Append(Here.from, Head(Here.todo))
             frame == [Here EXCEPT !.todo = Tail(@), !.entry = p]
  <1>1. /\ pc = "read" /\ pc \in Copying /\ stack # <<>> /\ Here.todo # <<>> /\ job.op # "delete"
        /\ TPlace /\ TWork /\ TCtx /\ THist /\ cur > 0
    BY DEF ReadEntry, Copying, TInv, TStage
  <1>2. UNCHANGED <<job, cur, marked, val, recursive, eraseList, destDirs, source, confirmed,
                    added>>
    BY DEF ReadEntry
  <1>3. \/ /\ stack' = [stack EXCEPT ![Len(stack)] = frame]
           /\ call' = CallOn(p, FALSE) /\ Goto("enter")
           /\ UNCHANGED <<ignoreAll, target, asked, aborted>>
        \/ /\ \E o \in CopyResults :
                /\ Report(o)
                /\ target' = IF o.ok THEN target \cup {TargetOf(p)} ELSE target
                /\ stack' = [stack EXCEPT ![Len(stack)] = [frame EXCEPT !.status = o.status]]
           /\ Goto("entry") /\ UNCHANGED call
    BY DEF ReadEntry
  <1>4. p \in Path /\ frame \in PathFrames /\ TargetOf(p) \in Path
    BY <1>1, EntryTypes, TargetTypes
  <1> HIDE DEF p, frame
  <1>5. CASE /\ stack' = [stack EXCEPT ![Len(stack)] = frame]
             /\ call' = CallOn(p, FALSE) /\ Goto("enter")
             /\ UNCHANGED <<ignoreAll, target, asked, aborted>>
    <2>1. stack' \in Seq(PathFrames) /\ stack' # <<>> /\ Len(stack') = Len(stack)
      BY <1>1, <1>4, <1>5, TopExchanged
    <2>2. call' \in CallTypes /\ call'.from = p /\ p # <<>> /\ pc' = "enter"
      BY <1>4, <1>5, StatusNames DEF CallOn, CallTypes, Path, Goto
    <2>3. TCtx'
      BY <1>2, <1>5 DEF TInv, TCtx
    <2>4. THist'
      BY <1>2, <1>5 DEF TInv, THist
    <2>5. TDisk'
      BY <1>2, <1>5 DEF TInv, TDisk
    <2>6. TPlace'
      BY <1>2, <2>2 DEF TInv, TPlace, Labels
    <2>7. TWork'
      BY <1>2, <2>1, <2>2 DEF TInv, TWork
    <2>8. TStage'
      BY <1>1, <1>2, <2>1, <2>2 DEF TInv, TStage, Copying
    <2> QED
      BY <2>3, <2>4, <2>5, <2>6, <2>7, <2>8 DEF TInv
  <1>6. CASE /\ \E o \in CopyResults :
                  /\ Report(o)
                  /\ target' = IF o.ok THEN target \cup {TargetOf(p)} ELSE target
                  /\ stack' = [stack EXCEPT ![Len(stack)] = [frame EXCEPT !.status = o.status]]
             /\ Goto("entry") /\ UNCHANGED call
    <2>1. PICK o \in CopyResults :
            /\ Report(o)
            /\ target' = IF o.ok THEN target \cup {TargetOf(p)} ELSE target
            /\ stack' = [stack EXCEPT ![Len(stack)] = [frame EXCEPT !.status = o.status]]
      BY <1>6
    <2>2. o \in Outcomes /\ o.status \in Statuses
      BY <1>1, CopyResultsTypes DEF Outcomes
    <2>3. [frame EXCEPT !.status = o.status] \in PathFrames
      BY <1>4, <2>2 DEF PathFrames
    <2>4. stack' \in Seq(PathFrames) /\ stack' # <<>> /\ Len(stack') = Len(stack)
      BY <1>1, <2>1, <2>3, TopExchanged
    <2>5. pc' = "entry" /\ call' = call
      BY <1>6 DEF Goto
    <2>6. target \subseteq target' /\ target' \subseteq Path /\ IsFiniteSet(target')
      <3>1. CASE o.ok
        BY <1>4, <2>1, <3>1, FS_AddElement DEF TInv, TDisk
      <3>2. CASE ~o.ok
        BY <2>1, <3>2 DEF TInv, TDisk
      <3> QED
        BY <3>1, <3>2
    <2>7. ignoreAll' \in BOOLEAN /\ asked' \subseteq ToSet(job'.tops)
      BY <1>1, <1>2, <2>1, <2>2, NoticeTypes DEF Report
    <2>8. aborted' \in BOOLEAN
      BY <2>1 DEF Report, TInv, THist
    <2>9. THist'
      BY <1>2, <2>7, <2>8 DEF TInv, THist
    <2>10. TCtx'
      BY <1>2, <2>6, <2>7 DEF TInv, TCtx
    <2>11. TDisk'
      BY <1>2, <2>6 DEF TInv, TDisk
    <2>12. TPlace'
      BY <1>2, <2>5 DEF TInv, TPlace, Labels
    <2>13. TWork'
      BY <1>2, <2>4, <2>5 DEF TInv, TWork
    <2>14. TStage'
      BY <1>1, <1>2, <2>4, <2>5 DEF TInv, TStage, Copying
    <2> QED
      BY <2>9, <2>10, <2>11, <2>12, <2>13, <2>14 DEF TInv
  <1> QED
    BY <1>3, <1>5, <1>6

LEMMA EntryDoneTypes ==
  ASSUME TInv, EntryDone
  PROVE  TInv'
  <1>1. /\ pc = "entry" /\ pc \in Copying /\ stack # <<>> /\ pc' = "read" /\ cur > 0
        /\ TWork /\ job.op # "delete"
    BY DEF EntryDone, Copying, TInv, TStage, Goto
  <1>2. UNCHANGED <<job, cur, marked, stack, call, val, ignoreAll, recursive, destDirs, source,
                    target,
                    asked, aborted, confirmed, added>>
    BY DEF EntryDone, work, disk, hist
  <1>3. eraseList' = eraseList \/ (job.op = "move" /\ eraseList' = Append(eraseList, Here.entry))
    BY DEF EntryDone
  <1>4. Here.entry \in Seq(Names) /\ eraseList \in Seq(Seq(Names))
    BY <1>1, HereTypes DEF PathFrames, Path, TInv, TCtx
  <1>5. eraseList' \in Seq(Seq(Names)) /\ (eraseList' # <<>> => eraseList # <<>> \/ job.op = "move")
    BY <1>3, <1>4, SMTT(30)
  <1>6. TCtx'
    BY <1>2, <1>5 DEF TInv, TCtx
  <1>7. THist'
    BY <1>2 DEF TInv, THist
  <1>8. TDisk'
    BY <1>2 DEF TInv, TDisk
  <1>9. TPlace'
    BY <1>1, <1>2 DEF TInv, TPlace, Labels
  <1>10. TWork'
    BY <1>2 DEF TInv, TWork
  <1>11. TStage'
    BY <1>1, <1>2, <1>5 DEF TInv, TStage, Copying
  <1> QED
    BY <1>6, <1>7, <1>8, <1>9, <1>10, <1>11 DEF TInv

LEMMA ReadDoneTypes ==
  ASSUME TInv, ReadDone
  PROVE  TInv'
  <1>1. /\ pc = "read" /\ pc \in Copying /\ stack # <<>> /\ cur > 0 /\ job.op # "delete"
        /\ TPlace /\ TWork /\ Len(stack) <= MaxDepth
    BY DEF ReadDone, Copying, TInv, TStage, TWork
  <1>2. UNCHANGED <<job, cur, marked, call, ignoreAll, recursive, eraseList, destDirs, source,
                    target,
                    asked, aborted, confirmed, added>>
    BY DEF ReadDone, ctx, disk, hist
  <1>3. Here.status \in Statuses /\ Front(stack) \in Seq(PathFrames)
        /\ Len(Front(stack)) = Len(stack) - 1 /\ Len(stack) \in Nat
    BY <1>1, HereTypes DEF PathFrames
  <1>4. Give(Here.status, Front(stack))
    BY DEF ReadDone
  <1>5. /\ stack' \in Seq(PathFrames) /\ Len(stack') = Len(stack) - 1 /\ val' \in Statuses
        /\ stack' = <<>> => pc' = IF job.op = "move" THEN "moved" ELSE "done"
        /\ stack' # <<>> => pc' = "entry"
    BY <1>1, <1>3, <1>4, GiveTypes
  <1>6. Len(stack') <= MaxDepth
    BY <1>1, <1>3, <1>5, NamesAssumption
  <1>7. TCtx'
    BY <1>2 DEF TInv, TCtx
  <1>8. THist'
    BY <1>2 DEF TInv, THist
  <1>9. TDisk'
    BY <1>2 DEF TInv, TDisk
  <1>10. TPlace'
    BY <1>2, <1>5 DEF TInv, TPlace, Labels
  <1>11. TWork'
    BY <1>2, <1>5, <1>6 DEF TInv, TWork
  <1>12. TStage'
    BY <1>1, <1>2, <1>5 DEF TInv, TStage, Copying
  <1> QED
    BY <1>7, <1>8, <1>9, <1>10, <1>11, <1>12 DEF TInv

LEMMA EraseTypes ==
  ASSUME TDisk, NEW p, NEW o, Erase(p, o)
  PROVE  source' \subseteq source /\ source \ {p} \subseteq source' /\ IsFiniteSet(source')
  <1>1. source' = source \ {p} \/ source' = source
    BY DEF Erase
  <1>2. IsFiniteSet(source \ {p})
    BY FS_RemoveElement DEF TDisk
  <1> QED
    BY <1>1, <1>2 DEF TDisk

\* Between two calls: the value is one of those a call returns.
LEMMA BetweenCalls ==
  ASSUME TInv, cur > 0, job.op # "copy", stack = <<>>, call' \in CallTypes, val' \in Statuses, eraseList' = <<>>,
         \/ pc' = "done"
         \/ (pc' = "query" /\ job.op = "delete")
         \/ (pc' = "wipe_enter" /\ job.op = "delete" /\ call'.from # <<>>)
         \/ (pc' = "enter" /\ job.op = "move" /\ call'.from # <<>>),
         UNCHANGED <<job, cur, marked, stack>>
  PROVE  TPlace' /\ TWork' /\ TStage'
  <1>1. TPlace'
    BY DEF TInv, TPlace, Labels
  <1>2. TWork'
    BY DEF TInv, TWork
  <1>3. TStage'
    BY DEF TInv, TStage, Copying
  <1> QED
    BY <1>1, <1>2, <1>3

LEMMA MoveTopTypes ==
  ASSUME TInv, MoveTop
  PROVE  TInv'
  <1>1. /\ pc = "move" /\ cur > 0 /\ job.op = "move" /\ stack = <<>> /\ eraseList = <<>>
        /\ TPlace /\ TCtx /\ THist /\ TDisk /\ call \in CallTypes /\ val \in Statuses
    BY DEF MoveTop, TInv, TStage, TWork, Copying
  <1>2. UNCHANGED <<job, cur, marked, stack, recursive, eraseList, destDirs, confirmed, added>>
    BY DEF MoveTop
  <1>3. \/ /\ Report(Outcome(FALSE, "abort", TRUE)) /\ Finish("abort")
           /\ UNCHANGED <<call, source, target>>
        \/ /\ \E over \in BOOLEAN : call' = CallOn(<<Top>>, over)
           /\ Goto("enter") /\ UNCHANGED <<val, ignoreAll, source, target, asked, aborted>>
        \/ /\ \E o \in Refused : Report(o) /\ Finish(o.status)
           /\ UNCHANGED <<call, source, target>>
        \/ /\ \E o \in Attempt("rename", "cont", "cont") :
                /\ Report(o)
                /\ IF o.ok THEN RenameTree(<<Top>>) /\ Finish("cont")
                   ELSE Finish(o.status) /\ UNCHANGED <<source, target>>
           /\ UNCHANGED call
    BY DEF MoveTop, disk
  <1>4. <<Top>> \in Path /\ <<Top>> # <<>>
    BY <1>1, TopFacts
  <1>5. \A over \in BOOLEAN : CallOn(<<Top>>, over) \in CallTypes /\ CallOn(<<Top>>, over).from = <<Top>>
    BY <1>4, StatusNames DEF CallOn, CallTypes, Path
  <1>6. ASSUME NEW o \in Outcomes, Report(o), UNCHANGED <<call, source, target>>, Finish(o.status)
        PROVE  TInv'
    <2>1. TCtx' /\ THist'
      BY <1>1, <1>2, <1>6, ReportTypes
    <2>2. TDisk'
      BY <1>6 DEF TInv, TDisk
    <2>3. TPlace' /\ TWork' /\ TStage'
      BY <1>1, <1>2, <1>6, BetweenCalls DEF Finish, Goto, Outcomes
    <2> QED
      BY <2>1, <2>2, <2>3 DEF TInv
  <1>7. CASE Report(Outcome(FALSE, "abort", TRUE)) /\ Finish("abort") /\ UNCHANGED <<call, source, target>>
    <2>1. "abort" \in Statuses
      BY StatusNames
    <2>2. /\ Outcome(FALSE, "abort", TRUE) \in Outcomes
          /\ Outcome(FALSE, "abort", TRUE).status = "abort"
      BY <2>1, Stated
    <2> QED
      BY <1>6, <1>7, <2>2
  <1>8. CASE /\ \E over \in BOOLEAN : call' = CallOn(<<Top>>, over)
             /\ Goto("enter") /\ UNCHANGED <<val, ignoreAll, source, target, asked, aborted>>
    <2>1. call' \in CallTypes /\ call'.from # <<>> /\ pc' = "enter"
      BY <1>4, <1>5, <1>8 DEF Goto
    <2>2. TPlace' /\ TWork' /\ TStage'
      BY <1>1, <1>2, <1>8, <2>1, BetweenCalls
    <2>3. TCtx'
      BY <1>2, <1>8 DEF TInv, TCtx
    <2>4. THist'
      BY <1>2, <1>8 DEF TInv, THist
    <2>5. TDisk'
      BY <1>8 DEF TInv, TDisk
    <2> QED
      BY <2>2, <2>3, <2>4, <2>5 DEF TInv
  <1>9. CASE /\ \E o \in Refused : Report(o) /\ Finish(o.status)
             /\ UNCHANGED <<call, source, target>>
    BY <1>1, <1>6, <1>9, RefusedTypes
  <1>10. ASSUME NEW o \in Attempt("rename", "cont", "cont"), Report(o), UNCHANGED call,
                IF o.ok THEN RenameTree(<<Top>>) /\ Finish("cont")
                ELSE Finish(o.status) /\ UNCHANGED <<source, target>>
         PROVE  TInv'
    <2>1. o \in Outcomes /\ "cont" \in Statuses
      BY <1>1, AttemptTypes, StatusNames
    <2>2. CASE ~o.ok
      BY <1>6, <1>10, <2>1, <2>2
    <2>3. CASE o.ok
      <3>1. RenameTree(<<Top>>) /\ val' = "cont" /\ pc' = "done"
        BY <1>10, <2>3 DEF Finish, Goto
      <3>2. /\ source' \subseteq source /\ target \subseteq target' /\ target' \subseteq Path
            /\ IsFiniteSet(source') /\ IsFiniteSet(target')
        BY <1>1, <1>4, <3>1, RenameTypes
      <3>3. ignoreAll' \in BOOLEAN /\ asked' \subseteq ToSet(job'.tops)
        BY <1>1, <1>2, <1>10, <2>1, NoticeTypes DEF Report
      <3>4. aborted' \in BOOLEAN
        BY <1>10 DEF Report, TInv, THist
      <3>5. TCtx'
        BY <1>2, <3>2, <3>3 DEF TInv, TCtx
      <3>6. THist'
        BY <1>2, <3>3, <3>4 DEF TInv, THist
      <3>7. TDisk'
        BY <3>2 DEF TInv, TDisk
      <3>8. TPlace' /\ TWork' /\ TStage'
        BY <1>1, <1>2, <1>10, <2>1, <3>1, BetweenCalls
      <3> QED
        BY <3>5, <3>6, <3>7, <3>8 DEF TInv
    <2> QED
      BY <2>2, <2>3
  <1> QED
    BY <1>3, <1>7, <1>8, <1>9, <1>10

LEMMA CopiedTopTypes ==
  ASSUME TInv, CopiedTop
  PROVE  TInv'
  <1>1. /\ pc = "moved" /\ cur > 0 /\ job.op = "move" /\ stack = <<>>
        /\ TPlace /\ TCtx /\ THist /\ call \in CallTypes
    BY DEF CopiedTop, TInv, TStage, TWork
  <1>2. UNCHANGED <<job, cur, marked, stack, call, recursive, destDirs, source, target,
                    confirmed, added>>
    BY DEF CopiedTop, disk
  <1>3. \/ /\ pc' = "done" /\ eraseList' = <<>> /\ UNCHANGED <<val, ignoreAll, asked, aborted>>
        \/ \E o \in Outcomes :
             /\ Report(o) /\ val' = o.status
             /\ ((pc' = "drain" /\ UNCHANGED eraseList) \/ (pc' = "done" /\ eraseList' = <<>>))
    <2>1. \A o \in Pressed : o \in Outcomes
      BY <1>1, PressedTypes
    <2>2. Outcome(TRUE, "cont", FALSE) \in Outcomes
      BY Stated, StatusNames
    <2> QED
      BY <2>1, <2>2 DEF CopiedTop, Goto, DropsList
  <1>4. TDisk'
    BY <1>2 DEF TInv, TDisk
  <1>5. /\ TPlace' /\ TCtx' /\ THist' /\ val' \in Statuses
        /\ ((pc' = "drain" /\ UNCHANGED eraseList) \/ (pc' = "done" /\ eraseList' = <<>>))
    <2>1. CASE pc' = "done" /\ eraseList' = <<>> /\ UNCHANGED <<val, ignoreAll, asked, aborted>>
      <3>1. TCtx'
        BY <1>2, <2>1 DEF TInv, TCtx
      <3>2. THist'
        BY <1>2, <2>1 DEF TInv, THist
      <3>3. TPlace'
        BY <1>2, <2>1 DEF TInv, TPlace, Labels
      <3> QED
        BY <2>1, <3>1, <3>2, <3>3 DEF TInv, TWork
    <2>2. ASSUME NEW o \in Outcomes, Report(o), val' = o.status,
                 (pc' = "drain" /\ UNCHANGED eraseList) \/ (pc' = "done" /\ eraseList' = <<>>)
          PROVE  /\ TPlace' /\ TCtx' /\ THist' /\ val' \in Statuses
                 /\ ((pc' = "drain" /\ UNCHANGED eraseList) \/ (pc' = "done" /\ eraseList' = <<>>))
      <3>0. eraseList' \in Seq(Seq(Names))
        <4>1. eraseList' = eraseList \/ eraseList' = <<>>
          BY <2>2
        <4>2. <<>> \in Seq(Seq(Names)) /\ eraseList \in Seq(Seq(Names))
          BY <1>1 DEF TCtx
        <4> QED
          BY <4>1, <4>2
      <3>1. ignoreAll' \in BOOLEAN /\ asked' \subseteq ToSet(job'.tops)
        BY <1>1, <1>2, <2>2, NoticeTypes DEF Report
      <3>2. aborted' \in BOOLEAN
        BY <2>2 DEF Report, TInv, THist
      <3>3. TCtx'
        BY <1>2, <3>0, <3>1 DEF TInv, TCtx
      <3>4. THist'
        BY <1>2, <3>1, <3>2 DEF TInv, THist
      <3>5. TPlace'
        BY <1>2, <2>2 DEF TInv, TPlace, Labels
      <3> QED
        BY <2>2, <3>3, <3>4, <3>5 DEF Outcomes
    <2> QED
      BY <1>3, <2>1, <2>2
  <1>6. TWork'
    BY <1>2, <1>5 DEF TInv, TWork
  <1>7. TStage'
    BY <1>1, <1>2, <1>5 DEF TInv, TStage, Copying
  <1> QED
    BY <1>4, <1>5, <1>6, <1>7 DEF TInv

LEMMA EraseListedTypes ==
  ASSUME TInv, EraseListed
  PROVE  TInv'
  <1>1. /\ pc = "drain" /\ cur > 0 /\ job.op = "move" /\ stack = <<>> /\ eraseList # <<>>
        /\ TPlace /\ TCtx /\ THist /\ TDisk /\ call \in CallTypes /\ eraseList \in Seq(Seq(Names))
    BY DEF EraseListed, TInv, TStage, TWork, TCtx
  <1>2. UNCHANGED <<job, pc, cur, marked, stack, call, recursive, destDirs, target, confirmed,
                    added>>
        /\ eraseList' = Tail(eraseList)
    BY DEF EraseListed
  <1> DEFINE p == Head(eraseList)
  <1>3. PICK o \in IF IsDirectory(p) THEN EraseIffEmpty(p) ELSE EraseFile(p) :
          Report(o) /\ Erase(p, o) /\ val' = o.status
    BY DEF EraseListed
  <1>4. o \in Outcomes /\ o.status \in Statuses
    BY <1>1, EraseIffEmptyTypes, EraseFileTypes DEF Outcomes
  <1>5. source' \subseteq source /\ IsFiniteSet(source')
    BY <1>1, <1>3, EraseTypes
  <1>6. eraseList' \in Seq(Seq(Names))
    BY <1>1, <1>2, AppendHead
  <1>7. ignoreAll' \in BOOLEAN /\ asked' \subseteq ToSet(job'.tops)
    BY <1>1, <1>2, <1>3, <1>4, NoticeTypes DEF Report
  <1>8. aborted' \in BOOLEAN
    BY <1>3 DEF Report, TInv, THist
  <1>9. TCtx'
    BY <1>2, <1>6, <1>7 DEF TInv, TCtx
  <1>10. THist'
    BY <1>2, <1>7, <1>8 DEF TInv, THist
  <1>11. TDisk'
    BY <1>2, <1>5 DEF TInv, TDisk
  <1>12. TPlace'
    BY <1>2 DEF TInv, TPlace
  <1>13. TWork'
    BY <1>2, <1>3, <1>4 DEF TInv, TWork
  <1>14. TStage'
    BY <1>1, <1>2 DEF TInv, TStage
  <1> QED
    BY <1>9, <1>10, <1>11, <1>12, <1>13, <1>14 DEF TInv

LEMMA EraseTopTypes ==
  ASSUME TInv, EraseTop
  PROVE  TInv'
  <1>1. /\ pc = "drain" /\ cur > 0 /\ job.op = "move" /\ stack = <<>>
        /\ TPlace /\ TCtx /\ THist /\ TDisk /\ call \in CallTypes /\ val \in Statuses
    BY DEF EraseTop, TInv, TStage, TWork
  <1>2. /\ UNCHANGED <<job, cur, marked, stack, call, val, recursive, destDirs, target, aborted,
                       confirmed, added>>
        /\ eraseList' = <<>> /\ pc' = "done"
    BY DEF EraseTop, work, Goto
  <1>3. PICK o \in EraseIffEmpty(<<Top>>) : Notice(o) /\ Erase(<<Top>>, o)
    BY DEF EraseTop
  <1>4. ignoreAll' \in BOOLEAN /\ asked' \subseteq ToSet(job'.tops)
    BY <1>1, <1>2, <1>3, EraseIffEmptyTypes, NoticeTypes
  <1>5. source' \subseteq source /\ IsFiniteSet(source')
    BY <1>1, <1>3, EraseTypes
  <1>6. TCtx'
    BY <1>2, <1>4 DEF TInv, TCtx
  <1>7. THist'
    BY <1>2, <1>4 DEF TInv, THist
  <1>8. TDisk'
    BY <1>2, <1>5 DEF TInv, TDisk
  <1>9. TPlace' /\ TWork' /\ TStage'
    BY <1>1, <1>2, BetweenCalls
  <1> QED
    BY <1>6, <1>7, <1>8, <1>9 DEF TInv

LEMMA DeleteTopTypes ==
  ASSUME TInv, DeleteTop
  PROVE  TInv'
  <1>1. /\ pc = "delete" /\ cur > 0 /\ job.op = "delete" /\ stack = <<>> /\ eraseList = <<>>
        /\ TPlace /\ TCtx /\ THist /\ TDisk /\ call \in CallTypes /\ val \in Statuses
    BY DEF DeleteTop, TInv, TStage, TWork, Copying
  <1>2. UNCHANGED <<job, cur, marked, stack, call, recursive, eraseList, destDirs, target,
                    confirmed, added>>
    BY DEF DeleteTop
  <1>3. \/ \E o \in EraseIffEmpty(<<Top>>) :
             /\ Report(o) /\ Finish(o.status)
             /\ Erase(<<Top>>, o) \/ UNCHANGED source
        \/ Goto("query") /\ UNCHANGED <<source, val, ignoreAll, asked, aborted>>
    BY DEF DeleteTop
  <1>4. ASSUME NEW o \in EraseIffEmpty(<<Top>>), Report(o), Finish(o.status),
               Erase(<<Top>>, o) \/ UNCHANGED source
        PROVE  TInv'
    <2>1. o \in Outcomes /\ o.status \in Statuses
      BY <1>1, EraseIffEmptyTypes DEF Outcomes
    <2>2. TCtx' /\ THist'
      BY <1>1, <1>2, <1>4, <2>1, ReportTypes
    <2>3. source' \subseteq source /\ IsFiniteSet(source')
      BY <1>1, <1>4, EraseTypes DEF TDisk
    <2>4. TDisk'
      BY <1>2, <2>3 DEF TInv, TDisk
    <2>5. TPlace' /\ TWork' /\ TStage'
      BY <1>1, <1>2, <1>4, <2>1, BetweenCalls DEF Finish, Goto
    <2> QED
      BY <2>2, <2>4, <2>5 DEF TInv
  <1>5. CASE Goto("query") /\ UNCHANGED <<source, val, ignoreAll, asked, aborted>>
    <2>1. TCtx'
      BY <1>2, <1>5 DEF TInv, TCtx
    <2>2. THist'
      BY <1>2, <1>5 DEF TInv, THist
    <2>3. TDisk'
      BY <1>2, <1>5 DEF TInv, TDisk
    <2>4. TPlace' /\ TWork' /\ TStage'
      BY <1>1, <1>2, <1>5, BetweenCalls DEF Goto
    <2> QED
      BY <2>1, <2>2, <2>3, <2>4 DEF TInv
  <1> QED
    BY <1>3, <1>4, <1>5

LEMMA QueryRecursiveTypes ==
  ASSUME TInv, QueryRecursive
  PROVE  TInv'
  <1>1. /\ pc = "query" /\ cur > 0 /\ job.op = "delete" /\ stack = <<>> /\ eraseList = <<>>
        /\ TPlace /\ call \in CallTypes /\ val \in Statuses
    BY DEF QueryRecursive, TInv, TStage, TWork, Copying
  <1>2. UNCHANGED <<job, cur, marked, stack, ignoreAll, eraseList, destDirs, source, target, added>>
        /\ aborted' \in BOOLEAN
    BY DEF QueryRecursive, disk
  <1>3. Top \in ToSet(job.tops) /\ <<Top>> \in Path
    BY <1>1, TopFacts
  <1>4. recursive' \in {"yes", "no", "all", "none", "abort"}
    BY <1>1, JobFacts DEF QueryRecursive, TInv, TCtx
  <1>5. \/ /\ confirmed' = confirmed \cup {Top} /\ call' = CallOn(<<Top>>, FALSE) /\ pc' = "wipe_enter"
           /\ UNCHANGED <<val, asked>>
        \/ /\ val' \in {"abort", "skip"} /\ pc' = "done" /\ asked' \subseteq asked \cup {Top}
           /\ UNCHANGED <<call, confirmed>>
    BY DEF QueryRecursive, Goto, Finish
  <1>6. CallOn(<<Top>>, FALSE) \in CallTypes /\ CallOn(<<Top>>, FALSE).from # <<>>
    BY <1>3, StatusNames DEF CallOn, CallTypes, Path
  <1>7. call' \in CallTypes /\ val' \in Statuses
        /\ (pc' = "done" \/ (pc' = "wipe_enter" /\ call'.from # <<>>))
    BY <1>1, <1>5, <1>6, StatusNames
  <1>8. TCtx'
    BY <1>2, <1>4 DEF TInv, TCtx
  <1>9. THist'
    BY <1>2, <1>3, <1>5 DEF TInv, THist
  <1>10. TDisk'
    BY <1>2 DEF TInv, TDisk
  <1>11. TPlace' /\ TWork' /\ TStage'
    BY <1>1, <1>2, <1>7, BetweenCalls
  <1> QED
    BY <1>8, <1>9, <1>10, <1>11 DEF TInv

\* A call of recursive_erase returns.
LEMMA WipeReturns ==
  ASSUME TInv, pc = "wipe", NEW status \in Statuses, Give(status, Front(stack)),
         UNCHANGED <<job, cur, marked, call, eraseList>>
  PROVE  TPlace' /\ TWork' /\ TStage'
  <1>1. /\ stack # <<>> /\ cur > 0 /\ job.op = "delete" /\ eraseList = <<>>
        /\ TPlace /\ TWork /\ Len(stack) <= MaxDepth
    BY DEF Copying, TInv, TStage, TWork
  <1>2. Front(stack) \in Seq(PathFrames) /\ Len(Front(stack)) = Len(stack) - 1 /\ Len(stack) \in Nat
    BY <1>1, HereTypes
  <1>3. /\ stack' \in Seq(PathFrames) /\ Len(stack') = Len(stack) - 1 /\ val' \in Statuses
        /\ stack' = <<>> => pc' = "done"
        /\ stack' # <<>> => pc' = "wipe"
    BY <1>1, <1>2, GiveTypes
  <1>4. Len(stack') <= MaxDepth
    BY <1>1, <1>2, <1>3, NamesAssumption
  <1>5. TPlace'
    BY <1>3 DEF TInv, TPlace, Labels
  <1>6. TWork'
    BY <1>3, <1>4 DEF TInv, TWork
  <1>7. TStage'
    BY <1>1, <1>3 DEF TInv, TStage, Copying
  <1> QED
    BY <1>5, <1>6, <1>7

LEMMA WipeEnterTypes ==
  ASSUME TInv, WipeEnter
  PROVE  TInv'
  <1>1. /\ pc = "wipe_enter" /\ cur > 0 /\ job.op = "delete" /\ call.from # <<>> /\ eraseList = <<>>
        /\ TPlace /\ TWork /\ TDisk /\ TCtx /\ THist /\ call \in CallTypes /\ Len(stack) \in Nat
    BY DEF WipeEnter, TInv, TStage, TWork, Copying
  <1>2. /\ UNCHANGED <<job, cur, marked, ignoreAll, recursive, eraseList, destDirs, source, target,
                       aborted, confirmed, added>>
        /\ call' = NoCall /\ asked' = asked
    BY DEF WipeEnter, ctx, disk, hist
  <1>3. \/ Len(stack) < MaxDepth /\ Push(call.from, "cont") /\ UNCHANGED val
        \/ Give("retry", stack)
    BY DEF WipeEnter
  <1>4. call.from \in Path /\ NoCall \in CallTypes /\ {"cont", "retry"} \subseteq Statuses
    BY <1>1, StatusNames DEF NoCall, CallTypes, Path
  <1>5. TCtx'
    BY <1>2 DEF TInv, TCtx
  <1>6. THist'
    BY <1>2 DEF TInv, THist
  <1>7. TDisk'
    BY <1>2 DEF TInv, TDisk
  <1>8. CASE Len(stack) < MaxDepth /\ Push(call.from, "cont") /\ UNCHANGED val
    <2>1. /\ stack' \in Seq(PathFrames) /\ stack' # <<>> /\ Len(stack') = Len(stack) + 1
          /\ pc' = "wipe"
      BY <1>1, <1>4, <1>8, PushTypes
    <2>2. Len(stack') <= MaxDepth
      BY <1>1, <1>8, <2>1, NamesAssumption
    <2>3. TPlace'
      BY <1>2, <2>1 DEF TInv, TPlace, Labels
    <2>4. TWork'
      BY <1>2, <1>4, <1>8, <2>1, <2>2 DEF TInv, TWork
    <2>5. TStage'
      BY <1>1, <1>2, <2>1 DEF TInv, TStage, Copying
    <2> QED
      BY <1>5, <1>6, <1>7, <2>3, <2>4, <2>5 DEF TInv
  <1>9. CASE Give("retry", stack)
    <2>1. stack \in Seq(PathFrames)
      BY <1>1 DEF TWork
    <2>2. /\ stack' \in Seq(PathFrames) /\ Len(stack') = Len(stack) /\ val' \in Statuses
          /\ stack' = <<>> => pc' = "done"
          /\ stack' # <<>> => pc' = "wipe"
      BY <1>1, <1>4, <1>9, <2>1, GiveTypes
    <2>3. TPlace'
      BY <1>2, <2>2 DEF TInv, TPlace, Labels
    <2>4. TWork'
      BY <1>2, <1>4, <2>2 DEF TInv, TWork
    <2>5. TStage'
      BY <1>1, <1>2, <2>2 DEF TInv, TStage, Copying
    <2> QED
      BY <1>5, <1>6, <1>7, <2>3, <2>4, <2>5 DEF TInv
  <1> QED
    BY <1>3, <1>8, <1>9

LEMMA WipeEntryTypes ==
  ASSUME TInv, WipeEntry
  PROVE  TInv'
  <1> DEFINE p == Append(Here.from, Head(Here.todo))
             frame == [Here EXCEPT !.todo = Tail(@), !.entry = p]
  <1>1. /\ pc = "wipe" /\ stack # <<>> /\ Here.todo # <<>> /\ job.op = "delete" /\ eraseList = <<>>
        /\ TPlace /\ TWork /\ TCtx /\ THist /\ TDisk /\ cur > 0
    BY DEF WipeEntry, Copying, TInv, TStage
  <1>2. UNCHANGED <<job, cur, marked, recursive, eraseList, destDirs, target, confirmed, added>>
    BY DEF WipeEntry
  <1>3. \/ /\ Give("retry", Front(stack))
           /\ UNCHANGED <<call, ignoreAll, source, asked, aborted>>
        \/ /\ stack' = [stack EXCEPT ![Len(stack)] = frame]
           /\ call' = CallOn(p, FALSE) /\ Goto("wipe_enter")
           /\ UNCHANGED <<val, ignoreAll, source, asked, aborted>>
        \/ /\ \E o \in EraseFile(p) :
                /\ Report(o) /\ Erase(p, o)
                /\ stack' = [stack EXCEPT ![Len(stack)] = [frame EXCEPT !.status = o.status]]
           /\ UNCHANGED <<pc, val, call>>
    BY DEF WipeEntry
  <1>4. p \in Path /\ frame \in PathFrames
    BY <1>1, EntryTypes
  <1> HIDE DEF p, frame
  <1>5. CASE /\ Give("retry", Front(stack))
             /\ UNCHANGED <<call, ignoreAll, source, asked, aborted>>
    <2>1. TPlace' /\ TWork' /\ TStage'
      BY <1>1, <1>2, <1>5, WipeReturns, StatusNames
    <2>3. TCtx'
      BY <1>2, <1>5 DEF TInv, TCtx
    <2>4. THist'
      BY <1>2, <1>5 DEF TInv, THist
    <2>5. TDisk'
      BY <1>2, <1>5 DEF TInv, TDisk
    <2> QED
      BY <2>1, <2>3, <2>4, <2>5 DEF TInv
  <1>6. CASE /\ stack' = [stack EXCEPT ![Len(stack)] = frame]
             /\ call' = CallOn(p, FALSE) /\ Goto("wipe_enter")
             /\ UNCHANGED <<val, ignoreAll, source, asked, aborted>>
    <2>1. stack' \in Seq(PathFrames) /\ stack' # <<>> /\ Len(stack') = Len(stack)
      BY <1>1, <1>4, <1>6, TopExchanged
    <2>2. call' \in CallTypes /\ call'.from = p /\ p # <<>> /\ pc' = "wipe_enter"
      BY <1>4, <1>6, StatusNames DEF CallOn, CallTypes, Path, Goto
    <2>3. TCtx'
      BY <1>2, <1>6 DEF TInv, TCtx
    <2>4. THist'
      BY <1>2, <1>6 DEF TInv, THist
    <2>5. TDisk'
      BY <1>2, <1>6 DEF TInv, TDisk
    <2>6. TPlace'
      BY <1>2, <2>2 DEF TInv, TPlace, Labels
    <2>7. TWork'
      BY <1>2, <1>6, <2>1, <2>2 DEF TInv, TWork
    <2>8. TStage'
      BY <1>1, <1>2, <2>1, <2>2 DEF TInv, TStage, Copying
    <2> QED
      BY <2>3, <2>4, <2>5, <2>6, <2>7, <2>8 DEF TInv
  <1>7. ASSUME NEW o \in EraseFile(p), Report(o), Erase(p, o),
               stack' = [stack EXCEPT ![Len(stack)] = [frame EXCEPT !.status = o.status]],
               UNCHANGED <<pc, val, call>>
        PROVE  TInv'
    <2>1. o \in Outcomes /\ o.status \in Statuses
      BY <1>1, EraseFileTypes DEF Outcomes
    <2>2. [frame EXCEPT !.status = o.status] \in PathFrames
      BY <1>4, <2>1 DEF PathFrames
    <2>3. stack' \in Seq(PathFrames) /\ stack' # <<>> /\ Len(stack') = Len(stack)
      BY <1>1, <1>7, <2>2, TopExchanged
    <2>4. TCtx' /\ THist'
      BY <1>1, <1>2, <1>7, <2>1, ReportTypes
    <2>5. source' \subseteq source /\ IsFiniteSet(source')
      BY <1>1, <1>7, EraseTypes
    <2>6. TDisk'
      BY <1>2, <2>5 DEF TInv, TDisk
    <2>7. TPlace'
      BY <1>2, <1>7 DEF TInv, TPlace, Labels
    <2>8. TWork'
      BY <1>7, <2>3 DEF TInv, TWork
    <2>9. TStage'
      BY <1>1, <1>2, <1>7, <2>3 DEF TInv, TStage, Copying
    <2> QED
      BY <2>4, <2>6, <2>7, <2>8, <2>9 DEF TInv
  <1> QED
    BY <1>3, <1>5, <1>6, <1>7

LEMMA WipeDoneTypes ==
  ASSUME TInv, WipeDone
  PROVE  TInv'
  <1>1. /\ pc = "wipe" /\ stack # <<>> /\ job.op = "delete"
        /\ TPlace /\ TWork /\ TCtx /\ THist /\ TDisk /\ cur > 0
    BY DEF WipeDone, TInv, TStage
  <1>2. UNCHANGED <<job, cur, marked, call, recursive, eraseList, destDirs, target, confirmed,
                    added>>
    BY DEF WipeDone
  <1>3. \/ Give("abort", Front(stack)) /\ UNCHANGED <<ignoreAll, source, asked, aborted>>
        \/ \E o \in Pressed \cup RemoveDir(Here.from) :
             Report(o) /\ Erase(Here.from, o) /\ Give(o.status, Front(stack))
    BY DEF WipeDone
  <1>4. CASE Give("abort", Front(stack)) /\ UNCHANGED <<ignoreAll, source, asked, aborted>>
    <2>1. TPlace' /\ TWork' /\ TStage'
      BY <1>1, <1>2, <1>4, WipeReturns, StatusNames
    <2>2. TCtx'
      BY <1>2, <1>4 DEF TInv, TCtx
    <2>3. THist'
      BY <1>2, <1>4 DEF TInv, THist
    <2>4. TDisk'
      BY <1>2, <1>4 DEF TInv, TDisk
    <2> QED
      BY <2>1, <2>2, <2>3, <2>4 DEF TInv
  <1>5. ASSUME NEW o \in Pressed \cup RemoveDir(Here.from), Report(o), Erase(Here.from, o),
               Give(o.status, Front(stack))
        PROVE  TInv'
    <2>1. o \in Outcomes /\ o.status \in Statuses
      BY <1>1, PressedTypes, RemoveDirTypes DEF Outcomes
    <2>2. TPlace' /\ TWork' /\ TStage'
      BY <1>1, <1>2, <1>5, <2>1, WipeReturns
    <2>3. TCtx' /\ THist'
      BY <1>1, <1>2, <1>5, <2>1, ReportTypes
    <2>4. source' \subseteq source /\ IsFiniteSet(source')
      BY <1>1, <1>5, EraseTypes
    <2>5. TDisk'
      BY <1>2, <2>4 DEF TInv, TDisk
    <2> QED
      BY <2>2, <2>3, <2>5 DEF TInv
  <1> QED
    BY <1>3, <1>4, <1>5

LEMMA NextTopTypes ==
  ASSUME TInv, NextTop
  PROVE  TInv'
  <1>1. /\ pc = "next" /\ stack = <<>> /\ eraseList = <<>> /\ cur < Len(job.tops) /\ cur \in Nat
        /\ TPlace /\ call \in CallTypes
    BY JobFacts DEF NextTop, TInv, TStage, TWork, TPlace, Copying
  <1>2. /\ UNCHANGED <<job, marked, stack, val, ignoreAll, recursive, eraseList, destDirs, source,
                       target, asked, aborted, confirmed, added>>
        /\ cur' = cur + 1
        /\ call' = IF job.op = "copy" THEN CallOn(<<job.tops[cur']>>, FALSE) ELSE call
        /\ pc' = IF job.op = "copy" THEN "enter" ELSE job.op
    BY DEF NextTop, ctx, disk, hist, Goto
  <1>3. cur' \in 1 .. Len(job.tops) /\ job.tops[cur'] \in Names /\ cur' \in 0 .. Len(job.tops)
        /\ cur' > 0
    BY <1>1, <1>2, JobFacts
  <1>4. \A n \in Names : CallOn(<<n>>, FALSE) \in CallTypes /\ CallOn(<<n>>, FALSE).from # <<>>
    BY StatusNames DEF CallOn, CallTypes
  <1>5. call' \in CallTypes /\ (job.op = "copy" => call'.from # <<>>)
    BY <1>1, <1>2, <1>3, <1>4
  <1>6. /\ job.op \in {"copy", "move", "delete"}
        /\ pc' \in {"enter", "move", "delete"} /\ (pc' = "enter" => job.op = "copy")
        /\ (pc' = "move" => job.op = "move") /\ (pc' = "delete" => job.op = "delete")
    BY <1>1, <1>2, JobFacts
  <1>7. TPlace'
    BY <1>2, <1>3, <1>6 DEF TInv, TPlace, Labels
  <1>8. TWork'
    BY <1>2, <1>5 DEF TInv, TWork
  <1>9. TCtx'
    BY <1>2 DEF TInv, TCtx
  <1>10. TDisk'
    BY <1>2 DEF TInv, TDisk
  <1>11. THist'
    BY <1>2 DEF TInv, THist
  <1>12. TStage'
    BY <1>1, <1>2, <1>3, <1>5, <1>6 DEF TInv, TStage, Copying
  <1> QED
    BY <1>7, <1>8, <1>9, <1>10, <1>11, <1>12 DEF TInv

LEMMA TopDoneTypes ==
  ASSUME TInv, TopDone
  PROVE  TInv'
  <1>1. /\ pc = "done" /\ stack = <<>> /\ eraseList = <<>> /\ cur \in 0 .. Len(job.tops) /\ cur > 0
        /\ Len(job.tops) \in Nat
    BY JobFacts DEF TopDone, TInv, TStage, TPlace, Copying
  <1>2. /\ UNCHANGED <<job, cur, stack, call, val, ignoreAll, recursive, eraseList, source, target,
                       asked, aborted, confirmed, added>>
        /\ marked' \subseteq marked /\ destDirs' \subseteq destDirs
        /\ pc' = "end" \/ (pc' = "next" /\ cur # Len(job.tops))
    BY DEF TopDone, work, disk, hist, Goto
  <1>3. pc' = "next" => cur < Len(job.tops)
    BY <1>1, <1>2
  <1>4. TPlace'
    BY <1>2 DEF TInv, TPlace, Labels
  <1>5. TWork'
    BY <1>2 DEF TInv, TWork
  <1>6. TCtx'
    BY <1>2 DEF TInv, TCtx
  <1>7. TDisk'
    BY <1>2 DEF TInv, TDisk
  <1>8. THist'
    BY <1>2 DEF TInv, THist
  <1>9. TStage'
    BY <1>1, <1>2, <1>3 DEF TInv, TStage, Copying
  <1> QED
    BY <1>4, <1>5, <1>6, <1>7, <1>8, <1>9 DEF TInv

\* The other program adds to what a call still has to look at, and to nothing else.
LEMMA StackAdded ==
  ASSUME TWork, NEW d,
         stack' \in {stack} \cup {[stack EXCEPT ![i].todo = Append(@, Late)] :
                                    i \in {i \in DOMAIN stack : stack[i].from = d}}
  PROVE  /\ stack' \in Seq(PathFrames) /\ Len(stack') = Len(stack) /\ (stack' = <<>> <=> stack = <<>>)
         /\ \A i \in 1 .. Len(stack) : /\ stack'[i].from = stack[i].from
                                       /\ stack'[i].entry = stack[i].entry
                                       /\ stack'[i].status = stack[i].status
  <1>1. stack \in Seq(PathFrames) /\ Len(stack) \in Nat /\ DOMAIN stack = 1 .. Len(stack)
    BY DEF TWork
  <1>2. ASSUME NEW i \in 1 .. Len(stack), NEW t, t = [stack EXCEPT ![i].todo = Append(@, Late)]
        PROVE  /\ t \in Seq(PathFrames) /\ Len(t) = Len(stack) /\ (t = <<>> <=> stack = <<>>)
               /\ \A j \in 1 .. Len(stack) : /\ t[j].from = stack[j].from
                                             /\ t[j].entry = stack[j].entry
                                             /\ t[j].status = stack[j].status
    <2> DEFINE f == [stack[i] EXCEPT !.todo = Append(@, Late)]
    <2>1. stack[i] \in PathFrames
      BY <1>1
    <2>2. stack[i].todo \in Seq(Names)
      BY <2>1 DEF PathFrames
    <2>3. Append(stack[i].todo, Late) \in Seq(Names)
      BY <2>2, NamesAssumption
    <2>4. /\ f \in PathFrames /\ f.from = stack[i].from /\ f.entry = stack[i].entry
          /\ f.status = stack[i].status
      BY <2>1, <2>3 DEF PathFrames
    <2>5. t = [stack EXCEPT ![i] = f]
      BY <1>2
    <2> HIDE DEF f
    <2>6. t \in Seq(PathFrames) /\ Len(t) = Len(stack)
      BY <1>1, <2>4, <2>5
    <2>7. \A j \in 1 .. Len(stack) : t[j] = IF j = i THEN f ELSE stack[j]
      BY <1>1, <2>5
    <2>8. t = <<>> <=> stack = <<>>
      BY <1>1, <2>6, EmptySeq
    <2> QED
      BY <2>4, <2>6, <2>7, <2>8
  <1> QED
    BY <1>1, <1>2

LEMMA AnotherAddsTypes ==
  ASSUME TInv, AnotherAdds
  PROVE  TInv'
  <1>1. UNCHANGED <<job, pc, cur, marked, call, val, ignoreAll, recursive, eraseList, destDirs,
                    target,
                    asked, aborted, confirmed>>
    BY DEF AnotherAdds, ctx
  <1>2. PICK d \in source :
          /\ added' = {Append(d, Late)} /\ source' = source \cup added'
          /\ stack' \in {stack} \cup {[stack EXCEPT ![i].todo = Append(@, Late)] :
                                        i \in {i \in DOMAIN stack : stack[i].from = d}}
    BY DEF AnotherAdds
  <1>3. TWork
    BY DEF TInv
  <1>4. stack' \in Seq(PathFrames) /\ Len(stack') = Len(stack) /\ (stack' = <<>> <=> stack = <<>>)
    BY <1>2, <1>3, StackAdded
  <1>5. Append(d, Late) \in Path
    BY <1>2, PathOf, NamesAssumption DEF Path, TInv, TDisk
  <1>6. added' \subseteq Path /\ source' \subseteq Path /\ IsFiniteSet(source')
    BY <1>2, <1>5, FS_AddElement DEF TInv, TDisk
  <1>7. TPlace'
    BY <1>1 DEF TInv, TPlace
  <1>8. TWork'
    BY <1>1, <1>4 DEF TInv, TWork
  <1>9. TCtx'
    BY <1>1 DEF TInv, TCtx
  <1>10. TDisk'
    BY <1>1, <1>6 DEF TInv, TDisk
  <1>11. THist'
    BY <1>1, <1>6 DEF TInv, THist
  <1>12. TStage'
    BY <1>1, <1>4 DEF TInv, TStage
  <1> QED
    BY <1>7, <1>8, <1>9, <1>10, <1>11, <1>12 DEF TInv

LEMMA InitTypes ==
  ASSUME Init
  PROVE  TInv
  <1>1. TPlace
    BY EmptySeq, JobsAssumption DEF Init, TPlace, Labels, JobType
  <1>2. TWork
    BY StatusNames, NamesAssumption DEF Init, TWork, NoCall, CallTypes
  <1>3. TCtx
    <2>1. eraseList \in Seq(Seq(Names)) /\ destDirs \subseteq target
      BY DEF Init
    <2> QED
      BY <2>1 DEF Init, TCtx
  <1>4. \A t \in ToSet(job.tops) : t \in Names
    BY <1>1, JobFacts
  <1>5. source \subseteq Path /\ IsFiniteSet(source)
    BY <1>1, JobFacts DEF Init
  <1> DEFINE T == ToSet(job.tops)
             ones == {<<t>> : t \in T}
             twos == {<<t, t>> : t \in T}
  <1>6. ones \subseteq Path /\ twos \subseteq Path
    <2>1. \A n \in Names : <<n>> \in Path /\ <<n, n>> \in Path
      BY DEF Path
    <2> QED
      BY <1>4, <2>1
  <1>7. IsFiniteSet(ones) /\ IsFiniteSet(twos)
    <2>1. ASSUME NEW S, IsFiniteSet(S), NEW U, NEW f \in Surjection(S, U)
          PROVE  IsFiniteSet(U)
      BY <2>1, FS_Surjection
    <2>2. IsFiniteSet(1 .. Len(job.tops))
      BY <1>1, JobFacts, FS_Interval
    <2>3. [i \in 1 .. Len(job.tops) |-> job.tops[i]] \in Surjection(1 .. Len(job.tops), T)
      <3>1. \A n, s : [i \in 1 .. n |-> s[i]] \in Surjection(1 .. n, {s[i] : i \in 1 .. n})
        BY DEF Surjection
      <3>2. DOMAIN job.tops = 1 .. Len(job.tops)
        BY <1>1, JobFacts
      <3>3. T = {job.tops[i] : i \in 1 .. Len(job.tops)}
        BY <3>2, Zenon DEF ToSet
      <3> QED
        BY <3>1, <3>3
    <2>4. IsFiniteSet(T)
      BY <2>1, <2>2, <2>3
    <2> HIDE DEF T
    <2>5. [t \in T |-> <<t>>] \in Surjection(T, ones) /\ [t \in T |-> <<t, t>>] \in Surjection(T, twos)
      BY DEF Surjection
    <2> QED
      BY <2>1, <2>4, <2>5
  <1>8. target \subseteq Path /\ IsFiniteSet(target)
    <2> HIDE DEF ones, twos
    <2>1. target \in {{}, ones, ones \cup twos}
      BY DEF Init, ones, twos
    <2>2. IsFiniteSet({}) /\ IsFiniteSet(ones \cup twos)
      BY <1>7, FS_EmptySet, FS_Union
    <2> QED
      BY <1>6, <1>7, <2>1, <2>2
  <1>9. TDisk
    BY <1>5, <1>8 DEF TDisk
  <1>10. THist
    BY DEF Init, THist
  <1>11. TStage
    BY <1>1, JobFacts DEF Init, TStage, Copying
  <1> QED
    BY <1>1, <1>2, <1>3, <1>9, <1>10, <1>11 DEF TInv

LEMMA TypesStep ==
  ASSUME TInv, [Next]_vars
  PROVE  TInv'
  <1>1. CASE UNCHANGED vars
    BY <1>1 DEF TInv, TPlace, TWork, TCtx, TDisk, THist, TStage, vars, work, ctx, disk, hist
  <1>2. CASE Copy
    BY <1>2, StatDirTypes, GetFlagsTypes, CheckCyclesTypes, MakeDirTypes, TargetIsFileTypes,
       TargetVanishedTypes, OwnDirTypes, OpenDirTypes, ReadEntryTypes, EntryDoneTypes,
       ReadDoneTypes DEF Copy
  <1>3. CASE Move
    BY <1>3, MoveTopTypes, CopiedTopTypes, EraseListedTypes, EraseTopTypes DEF Move
  <1>4. CASE Delete
    BY <1>4, DeleteTopTypes, QueryRecursiveTypes, WipeEnterTypes, WipeEntryTypes, WipeDoneTypes
       DEF Delete
  <1> QED
    BY <1>1, <1>2, <1>3, <1>4, NextTopTypes, TopDoneTypes, AnotherAddsTypes DEF Next, Operation

-----------------------------------------------------------------------------
(* Why a file may have gone *)

Arrived(p) == IsDirectory(p) \/ TargetOf(p) \in target

\* Frames below the top wait for a directory; the top one does when a call is made.
Calling == {"enter", "flags", "cycles", "mkdir", "own", "opendir"}
Callers ==
  job.op # "delete" =>
    \A i \in DOMAIN stack : (i < Len(stack) \/ pc \in Calling) => IsDirectory(stack[i].entry)

\* What is to be erased is a directory or has arrived.
Entered ==
  pc = "entry" /\ stack[Len(stack)].status = "cont" => Arrived(stack[Len(stack)].entry)
Listed == \A i \in DOMAIN eraseList : Arrived(eraseList[i])

\* What recursive_erase looks at is below a directory the user let go.
Agreed ==
  job.op = "delete" => /\ pc = "wipe_enter" => call.from[1] \in confirmed
                       /\ \A i \in DOMAIN stack : stack[i].from[1] \in confirmed

\* The other program's files have a name of their own.
Added == \A p \in added : Last(p) = Late

GInv == Callers /\ Entered /\ Listed /\ Agreed /\ Added /\ GoneForAReason

LEMMA ArrivedStays ==
  ASSUME UNCHANGED job, target \subseteq target', NEW p, Arrived(p)
  PROVE  Arrived(p)'
  <1>1. IsDirectory(p)' <=> IsDirectory(p)
    BY DEF IsDirectory
  <1>2. TargetOf(p)' = TargetOf(p)
    BY DEF TargetOf, Dived
  <1> QED
    BY <1>1, <1>2 DEF Arrived

LEMMA ListedStays ==
  ASSUME Listed, UNCHANGED <<job, eraseList>>, target \subseteq target'
  PROVE  Listed'
  BY ArrivedStays DEF Listed

\* Whatever a step takes from the source has a reason to go.
GoesForAReason ==
  /\ UNCHANGED job /\ added' \subseteq added \cup source'
  /\ target \subseteq target' /\ confirmed \subseteq confirmed'
  /\ \A p \in Files(job.tree \cup added) \cap source :
        p \in source' \/ TargetOf(p) \in target' \/ p[1] \in confirmed'

LEMMA GoneKept ==
  ASSUME GoneForAReason, GoesForAReason
  PROVE  GoneForAReason'
  <1> SUFFICES ASSUME NEW p \in Files(job.tree \cup added)'
               PROVE  p \in source' \/ TargetOf(p)' \in target' \/ p[1] \in confirmed'
    BY DEF GoneForAReason
  <1>1. p \in Files(job.tree \cup added) \/ p \in source'
    BY DEF Files, GoesForAReason
  <1>2. TargetOf(p)' = TargetOf(p)
    BY DEF TargetOf, Dived, GoesForAReason
  <1> QED
    BY <1>1, <1>2 DEF GoneForAReason, GoesForAReason

\* A call of copy_dir_dir goes on, or returns to a frame that waits for a directory.
LEMMA CarriesOn ==
  ASSUME TInv, GInv, pc \in Calling, GoesForAReason, UNCHANGED <<eraseList, added>>,
         \/ UNCHANGED stack /\ pc' \in Calling
         \/ \E status \in Statuses : Give(status, stack)
  PROVE  GInv'
  <1>1. job.op # "delete" /\ TPlace /\ TWork /\ stack \in Seq(PathFrames) /\ Len(stack) \in Nat
        /\ job' = job /\ target \subseteq target'
    BY DEF TInv, TStage, TWork, Calling, Copying, GoesForAReason
  <1>2. \A i \in 1 .. Len(stack) : IsDirectory(stack[i].entry)
    BY <1>1 DEF GInv, Callers, Calling
  <1>3. /\ stack' \in Seq(PathFrames) /\ Len(stack') = Len(stack)
        /\ \A i \in 1 .. Len(stack) : stack'[i].entry = stack[i].entry
        /\ (pc' = "entry" => stack # <<>>)
    <2>1. CASE UNCHANGED stack /\ pc' \in Calling
      BY <1>1, <2>1 DEF Calling
    <2>2. CASE \E status \in Statuses : Give(status, stack)
      BY <1>1, <2>2, GiveTypes
    <2> QED
      BY <2>1, <2>2
  <1>4. \A p : IsDirectory(p) => IsDirectory(p)' /\ Arrived(p)'
    BY <1>1 DEF IsDirectory, Arrived
  <1>5. Callers'
    <2>1. \A i \in 1 .. Len(stack') : Last(stack'[i].entry) \in job'.dirs \cup {Copied}
      BY <1>1, <1>2, <1>3 DEF IsDirectory
    <2>2. DOMAIN stack' = 1 .. Len(stack')
      BY <1>3
    <2> QED
      BY <2>1, <2>2 DEF Callers, IsDirectory
  <1>6. Entered'
    <2>1. stack # <<>> => Len(stack) \in 1 .. Len(stack)
      BY <1>1, EmptySeq
    <2> QED
      BY <1>2, <1>3, <1>4, <2>1 DEF Entered
  <1>7. Listed'
    BY <1>1, ListedStays DEF GInv
  <1>8. Agreed'
    BY <1>1 DEF Agreed
  <1>9. Added'
    BY DEF GInv, Added
  <1> QED
    BY <1>5, <1>6, <1>7, <1>8, <1>9, GoneKept DEF GInv

\* Between two calls.
LEMMA NothingCalled ==
  ASSUME TInv, GInv, GoesForAReason, stack = <<>>, pc' # "entry", Listed', UNCHANGED <<stack, added>>,
         job.op = "delete" /\ pc' = "wipe_enter" => call'.from[1] \in confirmed'
  PROVE  GInv'
  <1>1. job' = job /\ stack' = <<>> /\ DOMAIN stack' = {}
    BY DEF GoesForAReason
  <1>2. Callers' /\ Entered' /\ Agreed'
    BY <1>1 DEF Callers, Entered, Agreed
  <1>3. Added'
    BY DEF GInv, Added
  <1> QED
    BY <1>2, <1>3, GoneKept DEF GInv

LEMMA CallingGone ==
  ASSUME TInv, GInv, StatDir \/ GetFlags \/ CheckCycles \/ MakeDir \/ TargetIsFile \/ OwnDir
  PROVE  GInv'
  <1>1. UNCHANGED <<job, eraseList, source, confirmed,
                    added>> /\ target \subseteq target' /\ pc \in Calling
    BY DEF StatDir, GetFlags, CheckCycles, MakeDir, TargetIsFile, OwnDir, ctx, disk, Calling
  <1>2. \/ UNCHANGED stack /\ pc' \in Calling
        \/ \E status \in Statuses : Give(status, stack)
    <2>1. TPlace /\ TCtx /\ call \in CallTypes /\ call.status \in Statuses
      BY DEF TInv, TWork, CallTypes
    <2>2. \A o \in Attempt("stat", "cont", "ignore_all") \cup Attempt("getflags", call.status, "ignore_all")
                   \cup Attempt("chown", call.status, "ignore_all") \cup Fails("ignore_all") :
              o.status \in Statuses
      BY <2>1, AttemptTypes, FailsTypes, StatusNames DEF Outcomes
    <2>3. \A to : \A o \in Mkdir(to) : o.status \in Statuses
      BY <2>1, MkdirTypes DEF Outcomes
    <2>4. CASE StatDir
      BY <2>2, <2>4 DEF StatDir, Goto, Calling
    <2>5. CASE GetFlags
      BY <2>2, <2>5, StatusNames DEF GetFlags, Goto, Calling
    <2>6. CASE CheckCycles
      BY <2>6, StatusNames DEF CheckCycles, Goto, Calling
    <2>7. CASE MakeDir
      BY <2>3, <2>7 DEF MakeDir, Goto, Calling, work
    <2>8. CASE TargetIsFile
      BY <2>2, <2>8 DEF TargetIsFile
    <2>9. CASE OwnDir
      BY <2>2, <2>9 DEF OwnDir, Goto, Calling
    <2> QED
      BY <2>4, <2>5, <2>6, <2>7, <2>8, <2>9
  <1>3. GoesForAReason
    BY <1>1 DEF GoesForAReason
  <1> QED
    BY <1>1, <1>2, <1>3, CarriesOn

LEMMA TargetVanishedGone ==
  ASSUME TInv, GInv, TargetVanished
  PROVE  GInv'
  <1>1. /\ UNCHANGED <<job, eraseList, confirmed, added>> /\ pc \in Calling /\ pc \in Copying
        /\ pc \notin {"read", "entry"}
        /\ RenameTree(call.from) /\ Give("cont", stack)
    BY DEF TargetVanished, ctx, hist, Calling, Copying
  <1>2. call.from \in Path
    BY <1>1, CopyingFacts
  <1>3. target \subseteq target' /\ \A q \in source : q \in source' \/ TargetOf(q) \in target'
    BY <1>1, <1>2, RenameTypes DEF TInv
  <1>4. GoesForAReason
    BY <1>1, <1>3 DEF GoesForAReason
  <1> QED
    BY <1>1, <1>4, CarriesOn, StatusNames

LEMMA OpenDirGone ==
  ASSUME TInv, GInv, OpenDir
  PROVE  GInv'
  <1>1. /\ UNCHANGED <<job, eraseList, source, target, confirmed, added>>
        /\ pc = "opendir" /\ pc \in Calling /\ pc \in Copying /\ pc \notin {"read", "entry"}
    BY DEF OpenDir, ctx, disk, hist, Calling, Copying
  <1>2. GoesForAReason
    BY <1>1 DEF GoesForAReason
  <1>3. CASE Give(call.status, stack)
    BY <1>1, <1>2, <1>3, CopyingFacts, CarriesOn
  <1>4. CASE Push(call.from, call.status)
    <2>1. /\ call.from \in Path /\ call.status \in Statuses /\ TPlace /\ TWork /\ TDisk
          /\ job.op # "delete" /\ stack \in Seq(PathFrames) /\ Len(stack) \in Nat
      BY <1>1, CopyingFacts DEF TInv, TWork
    <2>2. /\ stack' \in Seq(PathFrames) /\ Len(stack') = Len(stack) + 1 /\ pc' = "read"
          /\ \A i \in 1 .. Len(stack) : stack'[i] = stack[i]
      BY <1>4, <2>1, PushTypes
    <2>3. \A i \in 1 .. Len(stack) : IsDirectory(stack[i].entry)
      BY <1>1, <2>1 DEF GInv, Callers
    <2>4. Callers'
      <3>1. \A i \in 1 .. Len(stack') : i < Len(stack') => i \in 1 .. Len(stack)
        BY <2>1, <2>2
      <3>2. DOMAIN stack' = 1 .. Len(stack')
        BY <2>2
      <3> QED
        BY <1>1, <2>2, <2>3, <3>1, <3>2 DEF Callers, Calling, IsDirectory
    <2>5. Entered' /\ Agreed'
      BY <1>1, <2>1, <2>2 DEF Entered, Agreed
    <2>6. Listed'
      BY <1>1, ListedStays DEF GInv
    <2>7. Added'
      BY <1>1 DEF GInv, Added
    <2> QED
      BY <1>2, <2>4, <2>5, <2>6, <2>7, GoneKept DEF GInv
  <1> QED
    BY <1>3, <1>4 DEF OpenDir

LEMMA ReadEntryGone ==
  ASSUME TInv, GInv, ReadEntry
  PROVE  GInv'
  <1> DEFINE p == Append(Here.from, Head(Here.todo))
             frame == [Here EXCEPT !.todo = Tail(@), !.entry = p]
  <1>1. /\ pc = "read" /\ stack # <<>> /\ Here.todo # <<>> /\ job.op # "delete"
        /\ TPlace /\ TWork /\ TCtx /\ stack \in Seq(PathFrames) /\ Len(stack) \in Nat
    <2>1. pc = "read" /\ Here.todo # <<>>
      BY DEF ReadEntry
    <2>2. TPlace /\ TWork /\ TCtx /\ TStage
      BY DEF TInv
    <2>3. stack \in Seq(PathFrames) /\ Len(stack) \in Nat
      BY <2>2 DEF TWork
    <2> QED
      BY <2>1, <2>2, <2>3 DEF TStage, Copying
  <1>2. UNCHANGED <<job, eraseList, source, confirmed, added>> /\ target \subseteq target'
    BY DEF ReadEntry
  <1>3. \/ IsDirectory(p) /\ stack' = [stack EXCEPT ![Len(stack)] = frame]
        \/ \E o \in CopyResults :
             /\ target' = IF o.ok THEN target \cup {TargetOf(p)} ELSE target
             /\ stack' = [stack EXCEPT ![Len(stack)] = [frame EXCEPT !.status = o.status]]
             /\ pc' = "entry"
    BY DEF ReadEntry, Goto
  <1>4. frame \in PathFrames /\ frame.entry = p
    BY <1>1, EntryTypes, HereTypes DEF PathFrames
  <1> HIDE DEF p, frame
  <1>5. GoesForAReason
    BY <1>2 DEF GoesForAReason
  <1>6. \A i \in 1 .. Len(stack) - 1 : IsDirectory(stack[i].entry)
    BY <1>1 DEF GInv, Callers
  <1>7. CASE IsDirectory(p) /\ stack' = [stack EXCEPT ![Len(stack)] = frame]
    <2>1. /\ stack' \in Seq(PathFrames) /\ Len(stack') = Len(stack)
          /\ stack'[Len(stack)].entry = p /\ \A i \in 1 .. Len(stack) - 1 : stack'[i] = stack[i]
      BY <1>1, <1>4, <1>7, TopExchanged
    <2>2. \A i \in 1 .. Len(stack) : IsDirectory(stack'[i].entry)
      <3>1. \A i \in 1 .. Len(stack) : i = Len(stack) \/ i \in 1 .. Len(stack) - 1
        BY <1>1
      <3> QED
        BY <1>6, <1>7, <2>1, <3>1
    <2>3. DOMAIN stack' = 1 .. Len(stack') /\ Len(stack') \in 1 .. Len(stack)
      BY <1>1, <2>1, EmptySeq
    <2>4. Callers'
      BY <1>2, <2>1, <2>2, <2>3 DEF Callers, IsDirectory
    <2>5. Entered'
      BY <1>2, <2>1, <2>2, <2>3 DEF Entered, Arrived, IsDirectory
    <2>6. Agreed' /\ Added'
      BY <1>1, <1>2 DEF GInv, Agreed, Added
    <2>7. Listed'
      BY <1>2, ListedStays DEF GInv
    <2> QED
      BY <1>5, <2>4, <2>5, <2>6, <2>7, GoneKept DEF GInv
  <1>8. ASSUME NEW o \in CopyResults,
               target' = IF o.ok THEN target \cup {TargetOf(p)} ELSE target,
               stack' = [stack EXCEPT ![Len(stack)] = [frame EXCEPT !.status = o.status]],
               pc' = "entry"
        PROVE  GInv'
    <2>1. o \in Outcomes /\ o.status \in Statuses /\ (o.status = "cont" => o.ok)
      BY <1>1, CopyResultsTypes DEF Outcomes
    <2>2. /\ [frame EXCEPT !.status = o.status] \in PathFrames
          /\ [frame EXCEPT !.status = o.status].entry = p
          /\ [frame EXCEPT !.status = o.status].status = o.status
      BY <1>4, <2>1 DEF PathFrames
    <2>3. /\ stack' \in Seq(PathFrames) /\ Len(stack') = Len(stack)
          /\ stack'[Len(stack)].entry = p /\ stack'[Len(stack)].status = o.status
          /\ \A i \in 1 .. Len(stack) - 1 : stack'[i] = stack[i]
      BY <1>1, <1>8, <2>2, TopExchanged
    <2>4. \A i \in 1 .. Len(stack') : i < Len(stack') => i \in 1 .. Len(stack) - 1
      BY <1>1, <2>3
    <2>5. DOMAIN stack' = 1 .. Len(stack')
      BY <2>3
    <2>6. Callers'
      BY <1>2, <1>6, <1>8, <2>3, <2>4, <2>5 DEF Callers, Calling, IsDirectory
    <2>7. Entered'
      <3>1. o.status = "cont" => TargetOf(p) \in target'
        BY <1>8, <2>1
      <3> QED
        BY <1>2, <2>3, <3>1 DEF Entered, Arrived, TargetOf, Dived
    <2>8. Agreed' /\ Added'
      BY <1>1, <1>2 DEF GInv, Agreed, Added
    <2>9. Listed'
      BY <1>2, ListedStays DEF GInv
    <2> QED
      BY <1>5, <2>6, <2>7, <2>8, <2>9, GoneKept DEF GInv
  <1> QED
    BY <1>3, <1>7, <1>8

LEMMA EntryDoneGone ==
  ASSUME TInv, GInv, EntryDone
  PROVE  GInv'
  <1>1. /\ pc = "entry" /\ pc' = "read" /\ stack # <<>> /\ job.op # "delete" /\ TWork
        /\ eraseList \in Seq(Seq(Names))
    BY DEF EntryDone, Goto, TInv, TStage, TCtx, Copying
  <1>2. UNCHANGED <<job, stack, source, target, confirmed, added>>
    BY DEF EntryDone, work, disk, hist
  <1>3. eraseList' = eraseList \/ (Here.status = "cont" /\ eraseList' = Append(eraseList, Here.entry))
    BY DEF EntryDone, MayGo
  <1>4. Here = stack[Len(stack)] /\ Here.entry \in Seq(Names)
    BY <1>1, HereTypes DEF PathFrames, Path
  <1>5. GoesForAReason
    BY <1>2 DEF GoesForAReason
  <1>6. \A p : Arrived(p) => Arrived(p)'
    BY <1>2, ArrivedStays
  <1>7. \A i \in DOMAIN eraseList' : Arrived(eraseList'[i])
    <2>1. CASE eraseList' = eraseList
      BY <2>1 DEF GInv, Listed
    <2>2. CASE Here.status = "cont" /\ eraseList' = Append(eraseList, Here.entry)
      <3>1. Arrived(Here.entry)
        BY <1>1, <1>4, <2>2 DEF GInv, Entered
      <3>2. /\ DOMAIN eraseList' = 1 .. Len(eraseList) + 1 /\ DOMAIN eraseList = 1 .. Len(eraseList)
            /\ \A i \in 1 .. Len(eraseList) : eraseList'[i] = eraseList[i]
            /\ eraseList'[Len(eraseList) + 1] = Here.entry /\ Len(eraseList) \in Nat
        BY <1>1, <1>4, <2>2
      <3>3. \A i \in 1 .. Len(eraseList) + 1 : i = Len(eraseList) + 1 \/ i \in 1 .. Len(eraseList)
        BY <3>2
      <3> QED
        BY <3>1, <3>2, <3>3 DEF GInv, Listed
    <2> QED
      BY <1>3, <2>1, <2>2
  <1>8. Listed'
    BY <1>2, <1>7 DEF Listed, Arrived, IsDirectory, TargetOf, Dived
  <1>9. Callers'
    BY <1>1, <1>2 DEF GInv, Callers, Calling, IsDirectory
  <1>10. Entered' /\ Agreed' /\ Added'
    BY <1>1, <1>2 DEF GInv, Entered, Agreed, Added
  <1> QED
    BY <1>5, <1>8, <1>9, <1>10, GoneKept DEF GInv

LEMMA ReadDoneGone ==
  ASSUME TInv, GInv, ReadDone
  PROVE  GInv'
  <1>1. /\ pc = "read" /\ stack # <<>> /\ job.op # "delete" /\ TPlace /\ TWork
        /\ Give(Here.status, Front(stack))
    BY DEF ReadDone, TInv, TStage, Copying
  <1>2. UNCHANGED <<job, eraseList, source, target, confirmed, added>>
    BY DEF ReadDone, ctx, disk, hist
  <1>3. /\ Here.status \in Statuses /\ Front(stack) \in Seq(PathFrames) /\ Len(stack) \in Nat
        /\ Len(stack) > 0 /\ Len(Front(stack)) = Len(stack) - 1
        /\ \A i \in 1 .. Len(stack) - 1 : Front(stack)[i] = stack[i]
    BY <1>1, HereTypes DEF PathFrames
  <1>4. /\ stack' \in Seq(PathFrames) /\ Len(stack') = Len(stack) - 1
        /\ (pc' = "entry" => stack' # <<>>) /\ pc' \in {"moved", "done", "entry"}
        /\ \A i \in 1 .. Len(stack) - 1 : stack'[i].entry = stack[i].entry
    BY <1>1, <1>3, GiveTypes
  <1>5. \A i \in 1 .. Len(stack) - 1 : IsDirectory(stack'[i].entry)
    <2>1. \A i \in 1 .. Len(stack) - 1 : i \in 1 .. Len(stack) /\ i < Len(stack)
      BY <1>3
    <2>2. DOMAIN stack = 1 .. Len(stack)
      BY <1>1 DEF TWork
    <2> QED
      BY <1>1, <1>4, <2>1, <2>2 DEF GInv, Callers
  <1>6. GoesForAReason
    BY <1>2 DEF GoesForAReason
  <1>7. Callers'
    <2>1. DOMAIN stack' = 1 .. Len(stack) - 1
      BY <1>4
    <2> QED
      BY <1>2, <1>5, <2>1 DEF Callers, IsDirectory
  <1>8. Entered'
    <2>1. pc' = "entry" => Len(stack') \in 1 .. Len(stack) - 1
      BY <1>3, <1>4, EmptySeq
    <2> QED
      BY <1>2, <1>5, <2>1 DEF Entered, Arrived, IsDirectory
  <1>9. Agreed' /\ Added'
    BY <1>1, <1>2 DEF GInv, Agreed, Added
  <1>10. Listed'
    BY <1>2, ListedStays DEF GInv
  <1> QED
    BY <1>6, <1>7, <1>8, <1>9, <1>10, GoneKept DEF GInv

\* No file the operation answers for has the name of the copy.
LEMMA NoCopies ==
  ASSUME TInv, Added, NEW p \in job.tree \cup added
  PROVE  Last(p) # Copied
  <1>1. TPlace
    BY DEF TInv
  <1>2. CASE p \in job.tree
    <2>1. p \in Path /\ Copied \notin Range(p)
      BY <1>1, <1>2, JobFacts
    <2>2. Len(p) \in DOMAIN p /\ Last(p) = p[Len(p)]
      BY <2>1, EmptySeq DEF Path, Last
    <2> QED
      BY <2>1, <2>2 DEF Range
  <1>3. CASE p \in added
    BY <1>3, NamesAssumption DEF Added
  <1> QED
    BY <1>2, <1>3

\* A directory, and what has arrived, may be erased.
LEMMA MayBeErased ==
  ASSUME TInv, GInv, NEW p, Arrived(p) \/ p[1] \in confirmed, source \ {p} \subseteq source',
         UNCHANGED <<job, target, confirmed, added>>
  PROVE  GoesForAReason
  <1>1. ASSUME NEW q \in Files(job.tree \cup added) \cap source
        PROVE  q \in source' \/ TargetOf(q) \in target' \/ q[1] \in confirmed'
    <2>1. ~IsDirectory(q)
      BY <1>1, NoCopies DEF Files, IsDirectory, GInv
    <2> QED
      BY <1>1, <2>1 DEF Arrived
  <1> QED
    BY <1>1 DEF GoesForAReason

LEMMA TopIsDirectory ==
  ASSUME TInv, cur > 0
  PROVE  Arrived(<<Top>>)
  BY TopFacts DEF TInv, Arrived, IsDirectory

LEMMA MoveTopGone ==
  ASSUME TInv, GInv, MoveTop
  PROVE  GInv'
  <1>1. /\ pc = "move" /\ job.op = "move" /\ stack = <<>> /\ cur > 0 /\ TPlace /\ TDisk
        /\ UNCHANGED <<job, stack, eraseList, confirmed, added>> /\ pc' # "entry"
    BY DEF MoveTop, TInv, TStage, Finish, Goto
  <1>2. UNCHANGED <<source, target>> \/ RenameTree(<<Top>>)
    BY DEF MoveTop, disk
  <1>3. target \subseteq target' /\ \A q \in source : q \in source' \/ TargetOf(q) \in target'
    BY <1>1, <1>2, TopFacts, RenameTypes
  <1>4. GoesForAReason
    BY <1>1, <1>3 DEF GoesForAReason
  <1>5. Listed'
    BY <1>1, <1>3, ListedStays DEF GInv
  <1> QED
    BY <1>1, <1>4, <1>5, NothingCalled

LEMMA CopiedTopGone ==
  ASSUME TInv, GInv, CopiedTop
  PROVE  GInv'
  <1>1. /\ pc = "moved" /\ job.op = "move" /\ stack = <<>>
        /\ UNCHANGED <<job, stack, source, target, confirmed, added>> /\ pc' # "entry"
        /\ (eraseList' = eraseList \/ eraseList' = <<>>)
    BY DEF CopiedTop, TInv, TStage, Goto, disk, DropsList
  <1>2. GoesForAReason
    BY <1>1 DEF GoesForAReason
  <1>3. Listed'
    <2>1. CASE eraseList' = eraseList
      BY <1>1, <2>1, ListedStays DEF GInv
    <2>2. CASE eraseList' = <<>>
      BY <2>2 DEF Listed
    <2> QED
      BY <1>1, <2>1, <2>2
  <1> QED
    BY <1>1, <1>2, <1>3, NothingCalled

LEMMA EraseListedGone ==
  ASSUME TInv, GInv, EraseListed
  PROVE  GInv'
  <1>1. /\ pc = "drain" /\ job.op = "move" /\ stack = <<>> /\ eraseList # <<>> /\ TDisk
        /\ eraseList \in Seq(Seq(Names))
    BY DEF EraseListed, TInv, TStage, TCtx
  <1>2. UNCHANGED <<job, pc, stack, target, confirmed, added>> /\ eraseList' = Tail(eraseList)
    BY DEF EraseListed
  <1> DEFINE p == Head(eraseList)
  <1>3. PICK o : Erase(p, o)
    BY DEF EraseListed
  <1>4. /\ Len(eraseList) \in Nat /\ Len(eraseList) > 0 /\ DOMAIN eraseList = 1 .. Len(eraseList)
        /\ p = eraseList[1]
        /\ DOMAIN eraseList' = 1 .. Len(eraseList) - 1
        /\ \A i \in 1 .. Len(eraseList) - 1 : eraseList'[i] = eraseList[i + 1]
    BY <1>1, <1>2, EmptySeq
  <1>5. Arrived(p)
    BY <1>4 DEF GInv, Listed
  <1> HIDE DEF p
  <1>6. source \ {p} \subseteq source'
    BY <1>1, <1>3, EraseTypes
  <1>7. GoesForAReason
    BY <1>2, <1>5, <1>6, MayBeErased
  <1>8. Listed'
    <2>1. \A i \in 1 .. Len(eraseList) - 1 : i + 1 \in 1 .. Len(eraseList)
      BY <1>4
    <2>2. \A i \in DOMAIN eraseList' : Arrived(eraseList'[i])
      BY <1>4, <2>1 DEF GInv, Listed
    <2> QED
      BY <1>2, <2>2 DEF Listed, Arrived, IsDirectory, TargetOf, Dived
  <1> QED
    BY <1>1, <1>2, <1>7, <1>8, NothingCalled

LEMMA EraseTopGone ==
  ASSUME TInv, GInv, EraseTop
  PROVE  GInv'
  <1>1. /\ job.op = "move" /\ stack = <<>> /\ cur > 0 /\ TDisk /\ pc' = "done"
        /\ UNCHANGED <<job, stack, target, confirmed, added>> /\ eraseList' = <<>>
    BY DEF EraseTop, TInv, TStage, work, Goto
  <1>2. \E o : Erase(<<Top>>, o)
    BY DEF EraseTop
  <1>3. source \ {<<Top>>} \subseteq source'
    BY <1>1, <1>2, EraseTypes
  <1>4. GoesForAReason
    BY <1>1, <1>3, TopIsDirectory, MayBeErased
  <1>5. Listed'
    BY <1>1 DEF Listed
  <1> QED
    BY <1>1, <1>4, <1>5, NothingCalled

LEMMA DeleteTopGone ==
  ASSUME TInv, GInv, DeleteTop
  PROVE  GInv'
  <1>1. /\ job.op = "delete" /\ stack = <<>> /\ cur > 0 /\ TDisk
        /\ UNCHANGED <<job, stack, eraseList, target, confirmed, added>> /\ pc' \in {"done", "query"}
    BY DEF DeleteTop, TInv, TStage, Finish, Goto
  <1>2. UNCHANGED source \/ \E o : Erase(<<Top>>, o)
    BY DEF DeleteTop
  <1>3. source \ {<<Top>>} \subseteq source'
    BY <1>1, <1>2, EraseTypes
  <1>4. GoesForAReason
    BY <1>1, <1>3, TopIsDirectory, MayBeErased
  <1>5. Listed'
    BY <1>1, ListedStays DEF GInv
  <1> QED
    BY <1>1, <1>4, <1>5, NothingCalled

LEMMA QueryRecursiveGone ==
  ASSUME TInv, GInv, QueryRecursive
  PROVE  GInv'
  <1>1. /\ stack = <<>> /\ UNCHANGED <<job, stack, eraseList, source, target, added>>
        /\ \/ confirmed' = confirmed \cup {Top} /\ call' = CallOn(<<Top>>, FALSE) /\ pc' = "wipe_enter"
           \/ confirmed' = confirmed /\ pc' = "done"
    BY DEF QueryRecursive, TInv, TStage, Finish, Goto, disk
  <1>2. GoesForAReason
    BY <1>1 DEF GoesForAReason
  <1>3. Listed'
    BY <1>1, ListedStays DEF GInv
  <1>4. pc' = "wipe_enter" => call'.from[1] \in confirmed'
    <2>1. CallOn(<<Top>>, FALSE).from[1] = Top
      BY DEF CallOn
    <2> QED
      BY <1>1, <2>1
  <1> QED
    BY <1>1, <1>2, <1>3, <1>4, NothingCalled

LEMMA BetweenTopsGone ==
  ASSUME TInv, GInv, NextTop \/ TopDone
  PROVE  GInv'
  <1>1. /\ stack = <<>> /\ UNCHANGED <<job, stack, eraseList, source, target, confirmed, added>>
        /\ pc' \in {"enter", "move", "delete", "copy", "next", "end"}
    BY JobFacts DEF NextTop, TopDone, TInv, TStage, Goto, work, ctx, disk, hist
  <1>2. GoesForAReason
    BY <1>1 DEF GoesForAReason
  <1>3. Listed'
    BY <1>1, ListedStays DEF GInv
  <1> QED
    BY <1>1, <1>2, <1>3, NothingCalled

\* recursive_erase stays below a directory the user let go.
LEMMA Wiping ==
  ASSUME TInv, GInv, GoesForAReason, job.op = "delete", UNCHANGED <<eraseList, added>>,
         pc' \in {"wipe", "wipe_enter", "done"}, pc' = "wipe_enter" => call'.from[1] \in confirmed',
         \A i \in DOMAIN stack' : stack'[i].from[1] \in confirmed'
  PROVE  GInv'
  <1>1. job' = job /\ target \subseteq target'
    BY DEF GoesForAReason
  <1>2. Callers' /\ Entered' /\ Agreed'
    BY <1>1 DEF Callers, Entered, Agreed
  <1>3. Listed'
    BY <1>1, ListedStays DEF GInv
  <1>4. Added'
    BY DEF GInv, Added
  <1> QED
    BY <1>2, <1>3, <1>4, GoneKept DEF GInv

LEMMA WipeEnterGone ==
  ASSUME TInv, GInv, WipeEnter
  PROVE  GInv'
  <1>1. /\ pc = "wipe_enter" /\ job.op = "delete" /\ call.from # <<>> /\ call \in CallTypes
        /\ TPlace /\ TWork /\ TDisk /\ stack \in Seq(PathFrames) /\ Len(stack) \in Nat
        /\ UNCHANGED <<job, eraseList, source, target, confirmed, added>>
    BY DEF WipeEnter, TInv, TStage, TWork, ctx, disk, hist
  <1>2. call.from \in Path /\ "cont" \in Statuses /\ "retry" \in Statuses
    BY <1>1, StatusNames DEF CallTypes, Path
  <1>3. GoesForAReason
    BY <1>1 DEF GoesForAReason
  <1>4. \A i \in 1 .. Len(stack) : stack[i].from[1] \in confirmed
    BY <1>1 DEF GInv, Agreed
  <1>5. call.from[1] \in confirmed
    BY <1>1 DEF GInv, Agreed
  <1>6. CASE Push(call.from, "cont")
    <2>1. /\ stack' \in Seq(PathFrames) /\ Len(stack') = Len(stack) + 1 /\ pc' = "wipe"
          /\ \A i \in 1 .. Len(stack) : stack'[i] = stack[i]
          /\ stack'[Len(stack) + 1].from = call.from
      BY <1>1, <1>2, <1>6, PushTypes
    <2>2. DOMAIN stack' = 1 .. Len(stack) + 1
          /\ \A i \in 1 .. Len(stack) + 1 : i = Len(stack) + 1 \/ i \in 1 .. Len(stack)
      BY <1>1, <2>1
    <2>3. \A i \in DOMAIN stack' : stack'[i].from[1] \in confirmed'
      BY <1>1, <1>4, <1>5, <2>1, <2>2
    <2> QED
      BY <1>1, <1>3, <2>1, <2>3, Wiping
  <1>7. CASE Give("retry", stack)
    <2>1. /\ stack' \in Seq(PathFrames) /\ Len(stack') = Len(stack) /\ pc' \in {"wipe", "done"}
          /\ \A i \in 1 .. Len(stack) : stack'[i].from = stack[i].from
      BY <1>1, <1>2, <1>7, GiveTypes
    <2>2. DOMAIN stack' = 1 .. Len(stack)
      BY <2>1
    <2>3. \A i \in DOMAIN stack' : stack'[i].from[1] \in confirmed'
      BY <1>1, <1>4, <2>1, <2>2
    <2> QED
      BY <1>1, <1>3, <2>1, <2>3, Wiping
  <1> QED
    BY <1>6, <1>7 DEF WipeEnter

\* A call of recursive_erase returns.
LEMMA WipeReturnsGone ==
  ASSUME TInv, GInv, pc = "wipe", NEW status \in Statuses, Give(status, Front(stack)),
         GoesForAReason, UNCHANGED <<eraseList, added>>
  PROVE  GInv'
  <1>1. /\ stack # <<>> /\ job.op = "delete" /\ TPlace /\ TWork /\ stack \in Seq(PathFrames)
        /\ confirmed \subseteq confirmed'
    BY DEF TInv, TStage, TWork, GoesForAReason
  <1>2. /\ Front(stack) \in Seq(PathFrames) /\ Len(Front(stack)) = Len(stack) - 1
        /\ Len(stack) \in Nat /\ Len(stack) > 0
        /\ \A i \in 1 .. Len(stack) - 1 : Front(stack)[i] = stack[i]
    BY <1>1, HereTypes
  <1>3. /\ stack' \in Seq(PathFrames) /\ Len(stack') = Len(stack) - 1 /\ pc' \in {"wipe", "done"}
        /\ \A i \in 1 .. Len(stack) - 1 : stack'[i].from = stack[i].from
    BY <1>1, <1>2, GiveTypes
  <1>4. \A i \in 1 .. Len(stack) - 1 : i \in DOMAIN stack
    BY <1>1, <1>2
  <1>5. DOMAIN stack' = 1 .. Len(stack) - 1
    BY <1>3
  <1>6. \A i \in DOMAIN stack' : stack'[i].from[1] \in confirmed'
    BY <1>1, <1>3, <1>4, <1>5 DEF GInv, Agreed
  <1> QED
    BY <1>1, <1>3, <1>6, Wiping

LEMMA WipeEntryGone ==
  ASSUME TInv, GInv, WipeEntry
  PROVE  GInv'
  <1> DEFINE p == Append(Here.from, Head(Here.todo))
             frame == [Here EXCEPT !.todo = Tail(@), !.entry = p]
  <1>1. /\ pc = "wipe" /\ stack # <<>> /\ Here.todo # <<>> /\ job.op = "delete"
        /\ TPlace /\ TWork /\ TCtx /\ TDisk /\ stack \in Seq(PathFrames) /\ Len(stack) \in Nat
    <2>1. pc = "wipe" /\ Here.todo # <<>>
      BY DEF WipeEntry
    <2>2. TPlace /\ TWork /\ TCtx /\ TDisk /\ TStage
      BY DEF TInv
    <2>3. stack \in Seq(PathFrames) /\ Len(stack) \in Nat
      BY <2>2 DEF TWork
    <2> QED
      BY <2>1, <2>2, <2>3 DEF TStage
  <1>2. UNCHANGED <<job, eraseList, target, confirmed, added>>
    BY DEF WipeEntry
  <1>3. \/ Give("retry", Front(stack)) /\ UNCHANGED source
        \/ /\ stack' = [stack EXCEPT ![Len(stack)] = frame]
           /\ call' = CallOn(p, FALSE) /\ pc' = "wipe_enter" /\ UNCHANGED source
        \/ /\ \E o \in EraseFile(p) :
                /\ Erase(p, o)
                /\ stack' = [stack EXCEPT ![Len(stack)] = [frame EXCEPT !.status = o.status]]
           /\ UNCHANGED pc
    BY DEF WipeEntry, Goto
  <1>4. /\ p \in Path /\ frame \in PathFrames /\ frame.from = Here.from /\ p[1] = Here.from[1]
        /\ Here = stack[Len(stack)] /\ Len(stack) > 0
    BY <1>1, EntryTypes, HereTypes DEF PathFrames
  <1>5. \A i \in 1 .. Len(stack) : stack[i].from[1] \in confirmed
    BY <1>1 DEF GInv, Agreed
  <1>6. p[1] \in confirmed /\ Here.from[1] \in confirmed
    <2>1. Len(stack) \in 1 .. Len(stack)
      BY <1>1, <1>4
    <2> QED
      BY <1>4, <1>5, <2>1
  <1> HIDE DEF p, frame
  <1>7. \A i \in 1 .. Len(stack) : i = Len(stack) \/ i \in 1 .. Len(stack) - 1
    BY <1>1
  <1>8. CASE Give("retry", Front(stack)) /\ UNCHANGED source
    <2>1. GoesForAReason
      BY <1>2, <1>8 DEF GoesForAReason
    <2> QED
      BY <1>1, <1>2, <1>8, <2>1, WipeReturnsGone, StatusNames
  <1>9. CASE /\ stack' = [stack EXCEPT ![Len(stack)] = frame]
             /\ call' = CallOn(p, FALSE) /\ pc' = "wipe_enter" /\ UNCHANGED source
    <2>1. GoesForAReason
      BY <1>2, <1>9 DEF GoesForAReason
    <2>2. /\ stack' \in Seq(PathFrames) /\ Len(stack') = Len(stack)
          /\ stack'[Len(stack)].from = Here.from /\ \A i \in 1 .. Len(stack) - 1 : stack'[i] = stack[i]
      BY <1>1, <1>4, <1>9, TopExchanged
    <2>3. DOMAIN stack' = 1 .. Len(stack)
      BY <2>2
    <2>4. \A i \in DOMAIN stack' : stack'[i].from[1] \in confirmed'
      BY <1>2, <1>5, <1>6, <1>7, <2>2, <2>3
    <2>5. call'.from = p
      BY <1>9 DEF CallOn
    <2> QED
      BY <1>1, <1>2, <1>6, <1>9, <2>1, <2>4, <2>5, Wiping
  <1>10. ASSUME NEW o \in EraseFile(p), Erase(p, o), UNCHANGED pc,
                stack' = [stack EXCEPT ![Len(stack)] = [frame EXCEPT !.status = o.status]]
         PROVE  GInv'
    <2>1. o.status \in Statuses
      BY <1>1, EraseFileTypes DEF Outcomes
    <2>2. [frame EXCEPT !.status = o.status] \in PathFrames
          /\ [frame EXCEPT !.status = o.status].from = Here.from
      BY <1>4, <2>1 DEF PathFrames
    <2>3. /\ stack' \in Seq(PathFrames) /\ Len(stack') = Len(stack)
          /\ stack'[Len(stack)].from = Here.from /\ \A i \in 1 .. Len(stack) - 1 : stack'[i] = stack[i]
      BY <1>1, <1>10, <2>2, TopExchanged
    <2>4. DOMAIN stack' = 1 .. Len(stack)
      BY <2>3
    <2>5. \A i \in DOMAIN stack' : stack'[i].from[1] \in confirmed'
      BY <1>2, <1>5, <1>6, <1>7, <2>3, <2>4
    <2>6. source \ {p} \subseteq source'
      BY <1>1, <1>10, EraseTypes
    <2>7. GoesForAReason
      BY <1>2, <1>6, <2>6, MayBeErased
    <2> QED
      BY <1>1, <1>2, <1>10, <2>5, <2>7, Wiping
  <1> QED
    BY <1>3, <1>8, <1>9, <1>10

LEMMA WipeDoneGone ==
  ASSUME TInv, GInv, WipeDone
  PROVE  GInv'
  <1>1. /\ pc = "wipe" /\ stack # <<>> /\ job.op = "delete" /\ TPlace /\ TCtx /\ TWork /\ TDisk
        /\ stack \in Seq(PathFrames)
    BY DEF WipeDone, TInv, TStage, TWork
  <1>2. UNCHANGED <<job, eraseList, target, confirmed, added>>
    BY DEF WipeDone
  <1>3. \/ Give("abort", Front(stack)) /\ UNCHANGED source
        \/ \E o \in Pressed \cup RemoveDir(Here.from) :
             Erase(Here.from, o) /\ Give(o.status, Front(stack))
    BY DEF WipeDone
  <1>4. CASE Give("abort", Front(stack)) /\ UNCHANGED source
    <2>1. GoesForAReason
      BY <1>2, <1>4 DEF GoesForAReason
    <2> QED
      BY <1>1, <1>2, <1>4, <2>1, WipeReturnsGone, StatusNames
  <1>5. ASSUME NEW o \in Pressed \cup RemoveDir(Here.from), Erase(Here.from, o),
               Give(o.status, Front(stack))
        PROVE  GInv'
    <2>1. o.status \in Statuses
      BY <1>1, PressedTypes, RemoveDirTypes DEF Outcomes
    <2>2. Here = stack[Len(stack)] /\ Len(stack) \in DOMAIN stack
      BY <1>1, HereTypes
    <2>3. Here.from[1] \in confirmed
      BY <1>1, <2>2 DEF GInv, Agreed
    <2>4. source \ {Here.from} \subseteq source'
      BY <1>1, <1>5, EraseTypes
    <2>5. GoesForAReason
      BY <1>2, <2>3, <2>4, MayBeErased
    <2> QED
      BY <1>1, <1>2, <1>5, <2>1, <2>5, WipeReturnsGone
  <1> QED
    BY <1>3, <1>4, <1>5

LEMMA AnotherAddsGone ==
  ASSUME TInv, GInv, AnotherAdds
  PROVE  GInv'
  <1>1. UNCHANGED <<job, pc, call, eraseList, target, confirmed>>
    BY DEF AnotherAdds, ctx
  <1>2. PICK d \in source :
          /\ added' = {Append(d, Late)} /\ source' = source \cup added'
          /\ stack' \in {stack} \cup {[stack EXCEPT ![i].todo = Append(@, Late)] :
                                        i \in {i \in DOMAIN stack : stack[i].from = d}}
    BY DEF AnotherAdds
  <1>3. TWork /\ stack \in Seq(PathFrames) /\ Len(stack) \in Nat
    BY DEF TInv, TWork
  <1>4. /\ stack' \in Seq(PathFrames) /\ Len(stack') = Len(stack)
        /\ \A i \in 1 .. Len(stack) : /\ stack'[i].from = stack[i].from
                                      /\ stack'[i].entry = stack[i].entry
                                      /\ stack'[i].status = stack[i].status
    BY <1>2, <1>3, StackAdded
  <1>5. DOMAIN stack' = 1 .. Len(stack) /\ DOMAIN stack = 1 .. Len(stack)
    BY <1>3, <1>4
  <1>6. GoesForAReason
    BY <1>1, <1>2 DEF GoesForAReason
  <1>7. Callers'
    BY <1>1, <1>4, <1>5 DEF GInv, Callers, IsDirectory
  <1>8. Entered'
    <2>1. pc = "entry" => Len(stack) \in 1 .. Len(stack)
      BY <1>3, EmptySeq DEF TInv, TStage
    <2> QED
      BY <1>1, <1>4, <2>1 DEF GInv, Entered, Arrived, IsDirectory, TargetOf, Dived
  <1>9. Listed'
    BY <1>1, ListedStays DEF GInv
  <1>10. Agreed'
    BY <1>1, <1>4, <1>5 DEF GInv, Agreed
  <1>11. Added'
    <2>1. Last(Append(d, Late)) = Late
      BY <1>2, PathOf, NamesAssumption DEF TInv, TDisk, Path
    <2> QED
      BY <1>2, <2>1 DEF Added
  <1> QED
    BY <1>6, <1>7, <1>8, <1>9, <1>10, <1>11, GoneKept DEF GInv

LEMMA GoneStep ==
  ASSUME TInv, GInv, [Next]_vars
  PROVE  GInv'
  <1>1. CASE UNCHANGED vars
    BY <1>1 DEF GInv, Callers, Entered, Listed, Agreed, Added, GoneForAReason, Files, Arrived,
       IsDirectory, TargetOf, Dived, vars, work, ctx, disk, hist
  <1>2. CASE Copy
    BY <1>2, CallingGone, TargetVanishedGone, OpenDirGone, ReadEntryGone, EntryDoneGone,
       ReadDoneGone DEF Copy
  <1>3. CASE Move
    BY <1>3, MoveTopGone, CopiedTopGone, EraseListedGone, EraseTopGone DEF Move
  <1>4. CASE Delete
    BY <1>4, DeleteTopGone, QueryRecursiveGone, WipeEnterGone, WipeEntryGone, WipeDoneGone DEF
       Delete
  <1> QED
    BY <1>1, <1>2, <1>3, <1>4, BetweenTopsGone, AnotherAddsGone DEF Next, Operation

LEMMA InitGone ==
  ASSUME Init
  PROVE  GInv
  BY DEF Init, GInv, Callers, Entered, Listed, Agreed, Added, GoneForAReason, Files

-----------------------------------------------------------------------------
(* After Abort *)

\* The operation is on its way out.
Left ==
  \/ pc \in {"moved", "drain", "done", "end"} /\ val = "abort"
  \/ pc \in {"read", "entry", "wipe"} /\ stack[Len(stack)].status = "abort"
Leaving == aborted => Left

LEMMA LeavesByAbort ==
  ASSUME TPlace, TWork, NEW frames \in Seq(PathFrames), Give("abort", frames)
  PROVE  Left'
  <1>1. /\ Len(stack') = Len(frames)
        /\ frames = <<>> => val' = "abort" /\ pc' \in {"moved", "done"}
        /\ frames # <<>> => stack'[Len(frames)].status = "abort" /\ pc' \in {"wipe", "entry"}
    BY GiveTypes, StatusNames
  <1> QED
    BY <1>1 DEF Left

\* Abort is said in a dialog.
LEMMA SaysAbort ==
  ASSUME NEW o, Report(o), ~aborted
  PROVE  aborted' => o.ask /\ o.status = "abort"
  BY DEF Report

LEMMA CallingLeaves ==
  ASSUME TInv, Leaving, pc \in Calling, Copy
  PROVE  Leaving'
  <1>1. /\ ~aborted /\ TPlace /\ TWork /\ TCtx /\ stack \in Seq(PathFrames) /\ call \in CallTypes
        /\ call.status \in Statuses
    BY DEF Leaving, Left, Calling, TInv, TWork, CallTypes
  <1>2. CASE StatDir
    <2>1. PICK o \in Attempt("stat", "cont", "ignore_all") : Report(o) /\ (~o.ok => Give(o.status, stack))
      BY <1>2 DEF StatDir
    <2>2. o.ok /\ o.ask => o.status # "abort"
      BY <1>1, AttemptTypes, StatusNames
    <2> QED
      BY <1>1, <2>1, <2>2, SaysAbort, LeavesByAbort DEF Leaving
  <1>3. CASE GetFlags
    <2>1. PICK o \in Attempt("getflags", call.status, "ignore_all") :
             Report(o) /\ (o.status = "abort" => Give("abort", stack))
      BY <1>3 DEF GetFlags
    <2> QED
      BY <1>1, <2>1, SaysAbort, LeavesByAbort DEF Leaving
  <1>4. CASE CheckCycles
    BY <1>1, <1>4 DEF CheckCycles, Leaving
  <1>5. CASE MakeDir
    <2>1. CASE UNCHANGED aborted
      BY <1>1, <2>1 DEF Leaving
    <2>2. CASE \E to : \E o \in Mkdir(to) : Report(o) /\ (~o.ok => Give(o.status, stack))
      <3>1. PICK to : \E o \in Mkdir(to) : Report(o) /\ (~o.ok => Give(o.status, stack))
        BY <2>2
      <3>2. PICK o \in Mkdir(to) : Report(o) /\ (~o.ok => Give(o.status, stack))
        BY <3>1
      <3>3. o.ok /\ o.ask => o.status = "retry"
        BY <1>1, MkdirTypes
      <3> QED
        BY <1>1, <3>2, <3>3, SaysAbort, LeavesByAbort DEF Leaving
    <2>3. UNCHANGED aborted \/ \E to : \E o \in Mkdir(to) : Report(o) /\ (~o.ok => Give(o.status, stack))
      BY <1>5 DEF MakeDir
    <2> QED
      BY <2>1, <2>2, <2>3
  <1>6. CASE TargetIsFile
    <2>1. PICK o \in Fails("ignore_all") : Report(o) /\ Give(o.status, stack)
      BY <1>6 DEF TargetIsFile
    <2> QED
      BY <1>1, <2>1, SaysAbort, LeavesByAbort DEF Leaving
  <1>7. CASE TargetVanished \/ OpenDir
    BY <1>1, <1>7 DEF TargetVanished, OpenDir, hist, Leaving
  <1>8. CASE OwnDir
    <2>1. PICK o \in Attempt("chown", call.status, "ignore_all") :
            Report(o) /\ (~o.ok => Give(o.status, stack))
      BY <1>8 DEF OwnDir
    <2>2. o.ok /\ o.ask => o.status # "abort"
      BY <1>1, AttemptTypes, StatusNames
    <2> QED
      BY <1>1, <2>1, <2>2, SaysAbort, LeavesByAbort DEF Leaving
  <1> QED
    BY <1>2, <1>3, <1>4, <1>5, <1>6, <1>7, <1>8 DEF Copy, Calling, ReadEntry, EntryDone, ReadDone

LEMMA ReadingLeaves ==
  ASSUME TInv, Leaving, ReadEntry \/ EntryDone \/ ReadDone
  PROVE  Leaving'
  <1>1. /\ TPlace /\ TWork /\ TCtx /\ stack # <<>> /\ Here = stack[Len(stack)]
        /\ Front(stack) \in Seq(PathFrames) /\ pc \in {"read", "entry"}
    <2>1. TPlace /\ TWork /\ TCtx /\ TStage /\ pc \in {"read", "entry"}
      BY DEF TInv, ReadEntry, EntryDone, ReadDone
    <2> QED
      BY <2>1, HereTypes DEF TStage
  <1>2. aborted => Here.status = "abort"
    BY <1>1 DEF Leaving, Left
  <1>3. CASE ReadEntry
    <2> DEFINE frame == [Here EXCEPT !.todo = Tail(@), !.entry = Append(Here.from, Head(Here.todo))]
    <2>1. ~aborted
      BY <1>2, <1>3 DEF ReadEntry
    <2>2. \/ UNCHANGED aborted
          \/ \E o \in CopyResults :
               /\ Report(o) /\ pc' = "entry"
               /\ stack' = [stack EXCEPT ![Len(stack)] = [frame EXCEPT !.status = o.status]]
      BY <1>3 DEF ReadEntry, Goto
    <2>3. frame \in PathFrames
      BY <1>1, <1>3, EntryTypes DEF ReadEntry
    <2> HIDE DEF frame
    <2>4. ASSUME NEW o \in CopyResults, Report(o), pc' = "entry",
                 stack' = [stack EXCEPT ![Len(stack)] = [frame EXCEPT !.status = o.status]]
          PROVE  Leaving'
      <3>1. o.status \in Statuses
        BY <1>1, CopyResultsTypes DEF Outcomes
      <3>2. [frame EXCEPT !.status = o.status] \in PathFrames
            /\ [frame EXCEPT !.status = o.status].status = o.status
        BY <2>3, <3>1 DEF PathFrames
      <3>3. Len(stack') = Len(stack) /\ stack'[Len(stack)].status = o.status
        BY <1>1, <2>4, <3>2, TopExchanged
      <3> QED
        BY <2>1, <2>4, <3>3, SaysAbort DEF Leaving, Left
    <2> QED
      BY <2>1, <2>2, <2>4 DEF Leaving
  <1>4. CASE EntryDone
    BY <1>1, <1>2, <1>4 DEF EntryDone, Leaving, Left, work, hist, Goto
  <1>5. CASE ReadDone
    <2>1. aborted => Give("abort", Front(stack))
      BY <1>2, <1>5 DEF ReadDone
    <2>2. aborted' = aborted
      BY <1>5 DEF ReadDone, hist
    <2> QED
      BY <1>1, <2>1, <2>2, LeavesByAbort DEF Leaving
  <1> QED
    BY <1>3, <1>4, <1>5

LEMMA MoveLeaves ==
  ASSUME TInv, Leaving, Move
  PROVE  Leaving'
  <1>1. TPlace /\ TCtx
    BY DEF TInv
  <1>2. CASE MoveTop
    <2>1. ~aborted
      BY <1>2 DEF MoveTop, Leaving, Left
    <2>2. UNCHANGED aborted \/ \E o : Report(o) /\ (val' = o.status \/ (o.ok /\ o.ask => o.status = "retry"))
                                      /\ pc' = "done" /\ (o.ok \/ val' = o.status)
      <3>1. \A o \in Attempt("rename", "cont", "cont") : o.ok /\ o.ask => o.status = "retry"
        BY <1>1, AttemptTypes, StatusNames
      <3>2. Outcome(FALSE, "abort", TRUE).status = "abort"
        BY Stated, StatusNames
      <3> QED
        BY <1>2, <3>1, <3>2 DEF MoveTop, Finish, Goto
    <2> QED
      BY <2>1, <2>2, SaysAbort DEF Leaving, Left
  <1>3. CASE CopiedTop
    <2>1. aborted => val = "abort"
      BY <1>3 DEF CopiedTop, Leaving, Left
    <2>2. \/ UNCHANGED <<val, aborted>> /\ pc' = "done"
          \/ /\ val = "cont"
             /\ \E o : Report(o) /\ val' = o.status /\ pc' \in {"drain", "done"}
      BY <1>3 DEF CopiedTop, Goto
    <2> QED
      BY <2>1, <2>2, SaysAbort DEF Leaving, Left
  <1>4. CASE EraseListed
    <2>1. ~aborted
      BY <1>4 DEF EraseListed, Leaving, Left
    <2>2. \E o : Report(o) /\ val' = o.status /\ pc' = "drain"
      BY <1>4 DEF EraseListed
    <2> QED
      BY <2>1, <2>2, SaysAbort DEF Leaving, Left
  <1>5. CASE EraseTop
    <2>1. UNCHANGED <<val, aborted>> /\ pc = "drain" /\ pc' = "done"
      BY <1>5 DEF EraseTop, Goto, work
    <2> QED
      BY <2>1 DEF Leaving, Left
  <1> QED
    BY <1>2, <1>3, <1>4, <1>5 DEF Move

LEMMA DeleteLeaves ==
  ASSUME TInv, Leaving, Delete
  PROVE  Leaving'
  <1>1. CASE DeleteTop
    <2>1. ~aborted
      BY <1>1 DEF DeleteTop, Leaving, Left
    <2>2. UNCHANGED aborted \/ \E o : Report(o) /\ val' = o.status /\ pc' = "done"
      BY <1>1 DEF DeleteTop, Finish, Goto
    <2> QED
      BY <2>1, <2>2, SaysAbort DEF Leaving, Left
  <1>2. CASE QueryRecursive
    <2>1. aborted' => val' = "abort" /\ pc' = "done"
      BY <1>2 DEF QueryRecursive, Finish, Goto
    <2> QED
      BY <2>1 DEF Leaving, Left
  <1>3. CASE WipeEnter
    BY <1>3 DEF WipeEnter, hist, Leaving, Left
  <1>4. CASE WipeEntry \/ WipeDone
    <2>1. /\ TPlace /\ TWork /\ TCtx /\ stack # <<>> /\ Here = stack[Len(stack)] /\ pc = "wipe"
          /\ Front(stack) \in Seq(PathFrames)
      <3>1. TPlace /\ TWork /\ TCtx /\ TStage /\ pc = "wipe"
        BY <1>4 DEF TInv, WipeEntry, WipeDone
      <3> QED
        BY <3>1, HereTypes DEF TStage
    <2>2. aborted => Here.status = "abort"
      BY <2>1 DEF Leaving, Left
    <2>3. CASE WipeEntry
      <3> DEFINE p == Append(Here.from, Head(Here.todo))
                 frame == [Here EXCEPT !.todo = Tail(@), !.entry = p]
      <3>1. ~aborted
        BY <2>2, <2>3 DEF WipeEntry
      <3>2. \/ UNCHANGED aborted
            \/ \E o \in EraseFile(p) :
                 /\ Report(o) /\ pc' = "wipe"
                 /\ stack' = [stack EXCEPT ![Len(stack)] = [frame EXCEPT !.status = o.status]]
        BY <2>1, <2>3, ZenonT(60) DEF WipeEntry
      <3>3. frame \in PathFrames
        BY <2>1, <2>3, EntryTypes DEF WipeEntry
      <3> HIDE DEF frame, p
      <3>4. ASSUME NEW o \in EraseFile(p), Report(o), pc' = "wipe",
                   stack' = [stack EXCEPT ![Len(stack)] = [frame EXCEPT !.status = o.status]]
            PROVE  Leaving'
        <4>1. o.status \in Statuses
          BY <2>1, EraseFileTypes DEF Outcomes
        <4>2. [frame EXCEPT !.status = o.status] \in PathFrames
              /\ [frame EXCEPT !.status = o.status].status = o.status
          BY <3>3, <4>1 DEF PathFrames
        <4>3. Len(stack') = Len(stack) /\ stack'[Len(stack)].status = o.status
          BY <2>1, <3>4, <4>2, TopExchanged
        <4> QED
          BY <3>1, <3>4, <4>3, SaysAbort DEF Leaving, Left
      <3> QED
        BY <3>1, <3>2, <3>4 DEF Leaving
    <2>4. CASE WipeDone
      <3>1. \/ Give("abort", Front(stack)) /\ UNCHANGED aborted
            \/ Here.status # "abort" /\ \E o : Report(o) /\ Give(o.status, Front(stack))
        BY <2>4 DEF WipeDone
      <3>2. CASE Give("abort", Front(stack)) /\ UNCHANGED aborted
        BY <2>1, <3>2, LeavesByAbort DEF Leaving
      <3>3. CASE Here.status # "abort" /\ \E o : Report(o) /\ Give(o.status, Front(stack))
        BY <2>1, <2>2, <3>3, SaysAbort, LeavesByAbort DEF Leaving
      <3> QED
        BY <3>1, <3>2, <3>3
    <2> QED
      BY <1>4, <2>3, <2>4
  <1> QED
    BY <1>1, <1>2, <1>3, <1>4 DEF Delete

LEMMA OthersLeave ==
  ASSUME TInv, Leaving, NextTop \/ TopDone \/ AnotherAdds
  PROVE  Leaving'
  <1>1. CASE NextTop
    BY <1>1 DEF NextTop, hist, Leaving, Left
  <1>2. CASE TopDone
    BY <1>2 DEF TopDone, LeavesLoop, Goto, work, hist, Leaving, Left
  <1>3. CASE AnotherAdds
    <2>1. TWork /\ UNCHANGED <<pc, val, aborted>>
      BY <1>3 DEF TInv, AnotherAdds
    <2>2. /\ Len(stack') = Len(stack)
          /\ \A i \in 1 .. Len(stack) : stack'[i].status = stack[i].status
      BY <1>3, <2>1, StackAdded DEF AnotherAdds
    <2>3. pc \in {"read", "entry", "wipe"} => Len(stack) \in 1 .. Len(stack)
      BY <2>1, EmptySeq DEF TInv, TWork, TStage
    <2> QED
      BY <2>1, <2>2, <2>3 DEF Leaving, Left
  <1> QED
    BY <1>1, <1>2, <1>3

LEMMA LeavingStep ==
  ASSUME TInv, Leaving, [Next]_vars
  PROVE  Leaving'
  <1>1. CASE UNCHANGED vars
    BY <1>1 DEF Leaving, Left, vars, work, hist
  <1>2. CASE Copy
    <2>1. pc \in Calling \/ ReadEntry \/ EntryDone \/ ReadDone
      BY <1>2 DEF Copy, Calling, StatDir, GetFlags, CheckCycles, MakeDir, TargetIsFile,
         TargetVanished, OwnDir, OpenDir
    <2> QED
      BY <1>2, <2>1, CallingLeaves, ReadingLeaves
  <1> QED
    BY <1>1, <1>2, MoveLeaves, DeleteLeaves, OthersLeave DEF Next, Operation

\* Nothing that is still done touches a file or begins a directory.
LEMMA NothingAfterAbort ==
  ASSUME TInv, Leaving, Next, aborted
  PROVE  Files(source) \subseteq source' /\ target' = target /\ cur' = cur
  <1>1. Left
    BY DEF Leaving
  <1>2. pc \in {"read", "entry", "wipe"} => Here.status = "abort"
    BY <1>1, HereTypes DEF Left, TInv, TStage
  <1>3. CASE Copy
    <2>1. EntryDone \/ ReadDone
      BY <1>1, <1>2, <1>3 DEF Copy, Left, StatDir, GetFlags, CheckCycles, MakeDir, TargetIsFile,
         TargetVanished, OwnDir, OpenDir, ReadEntry
    <2> QED
      BY <2>1 DEF EntryDone, ReadDone, disk, Files
  <1>4. CASE Move
    <2>1. CopiedTop \/ EraseTop
      BY <1>1, <1>4 DEF Move, Left, MoveTop, EraseListed
    <2>2. CASE CopiedTop
      BY <2>2 DEF CopiedTop, disk, Files
    <2>3. CASE EraseTop
      <3>1. TDisk /\ TPlace /\ cur > 0 /\ Last(<<Top>>) \in job.dirs /\ UNCHANGED <<target, cur>>
            /\ \E o : Erase(<<Top>>, o)
        BY <2>3, TopFacts DEF EraseTop, TInv, TStage
      <3>2. source \ {<<Top>>} \subseteq source'
        BY <3>1, EraseTypes
      <3> QED
        BY <3>1, <3>2 DEF Files
    <2> QED
      BY <2>1, <2>2, <2>3
  <1>5. CASE Delete
    <2>1. WipeDone /\ Here.status = "abort"
      BY <1>1, <1>2, <1>5 DEF Delete, Left, DeleteTop, QueryRecursive, WipeEnter, WipeEntry,
         WipeDone
    <2> QED
      BY <2>1 DEF WipeDone, Files
  <1>6. CASE NextTop \/ TopDone
    BY <1>1, <1>6 DEF NextTop, TopDone, Left, disk, Files
  <1>7. CASE AnotherAdds
    BY <1>7 DEF AnotherAdds, Files
  <1> QED
    BY <1>3, <1>4, <1>5, <1>6, <1>7 DEF Next, Operation

-----------------------------------------------------------------------------
(* What the user is not told about *)

Occurs(x, s) == \E i \in 1 .. Len(s) : s[i] = x
Below(p, q) == Len(p) < Len(q) /\ \A i \in 1 .. Len(p) : q[i] = p[i]
Cut(p, n, q) == Len(q) = n /\ \A i \in 1 .. n : q[i] = p[i]

\* A directory, or a file whose content is in the target; a path that is only there
\* because of what the other program has created; what a move need not list again.
Reached(p) == Last(p) \in job.dirs \/ TargetOf(p) \in target
Hides(p) == \E q \in added : IsPrefix(p, q)
Settled(p) ==
  /\ Reached(p)
  /\ job.op = "move" => p \notin source \/ Occurs(p, eraseList) \/ Hides(p)

FilesArrived(t) == \A p \in job.tree : p[1] = t => Reached(p)
Emptied(t) == \A p \in source : p[1] = t => Hides(p)
Finished(t) ==
  /\ job.op # "delete" => FilesArrived(t)
  /\ job.op # "copy" => Emptied(t)

\* The user has not been asked about this marked directory.
Calm == ~ignoreAll /\ ~MayFail("standing") /\ (MayFail("read") => job.op = "delete")
Quiet == Calm /\ Top \notin asked

Known == source \subseteq job.tree \cup added
NoneLetGo == job.op # "delete" => confirmed = {}

\* The directories the operation is through with.
Between == {"next", "end"}
Past ==
  Calm => /\ \A i \in 1 .. cur :
               (i < cur \/ pc \in Between) /\ job.tops[i] \notin asked
                 => job.tops[i] \notin marked \/ KeptSilently
          /\ \A t \in ToSet(job.tops) : t \notin marked /\ t \notin asked => Finished(t)

\* What silent calls have returned: a deletion goes on after FILE_RETRY.
Smooth == \A i \in 1 .. Len(stack) : stack[i].status = "cont"
Unbroken == \A i \in 1 .. Len(stack) : stack[i].status \in {"cont", "retry"}

\* The calls of copy_dir_dir: each is about the entry the one below has come to.
Chain ==
  \A i \in 1 .. Len(stack) :
    /\ Len(stack[i].from) = i /\ stack[i].from[1] = Top
    /\ \A m \in 1 .. i : Cut(stack[i].from, m, stack[m].from)
    /\ i < Len(stack) => stack[i].entry = stack[i + 1].from
    /\ i < Len(stack) \/ pc # "read"
         => Len(stack[i].entry) = i + 1 /\ Below(stack[i].from, stack[i].entry)
CallAt == call.from = (IF stack = <<>> THEN <<Top>> ELSE stack[Len(stack)].entry)

\* What is in a directory being copied is settled, still to be read, or under way.
UnderWay(i, p) ==
  /\ p[i + 1] = stack[i].entry[i + 1]
  /\ i < Len(stack) \/ pc \in Calling \/ (pc = "entry" /\ Len(p) = i + 1 /\ Reached(p))
Progress ==
  \A i \in 1 .. Len(stack) : \A p \in job.tree : Below(stack[i].from, p) =>
    Settled(p) \/ Occurs(p[i + 1], stack[i].todo) \/ UnderWay(i, p)

\* A directory comes after what is in it.
Later(j, m) == \E k \in j + 1 .. Len(eraseList) : Cut(eraseList[j], m, eraseList[k])
Open(j, m) ==
  \/ m <= Len(stack) /\ Cut(eraseList[j], m, stack[m].from)
  \/ m = Len(stack) + 1 /\ pc = "entry" /\ Cut(eraseList[j], m, stack[Len(stack)].entry)
Order ==
  \A j \in 1 .. Len(eraseList) : \A m \in 2 .. Len(eraseList[j]) - 1 : Later(j, m) \/ Open(j, m)

\* What is left of the directory is in the list.
Remaining == \A p \in source : p[1] = Top /\ Len(p) > 1 => Occurs(p, eraseList) \/ Hides(p)

InCopy ==
  pc \in Copying => /\ Smooth /\ Chain /\ Progress /\ Order
                    /\ pc \in Calling => call.status = "cont" /\ CallAt
InMove == pc \in {"moved", "drain"} => val = "cont" /\ FilesArrived(Top) /\ Remaining /\ Order
InWipe ==
  pc \in {"wipe_enter", "wipe"} => /\ Unbroken
                                   /\ stack # <<>> => stack[1].from = <<Top>>
                                   /\ stack = <<>> => call.from = <<Top>>
InDone == pc = "done" => \/ val = "cont" /\ Finished(Top)
                         \/ val # "cont" /\ KeptSilently
Now == InCopy /\ InMove /\ InWipe /\ InDone

SInv == Known /\ NoneLetGo /\ Past /\ (cur > 0 /\ pc \notin Between /\ Quiet => Now)

\* Prefixes element by element; sequences that agree are equal.
LEMMA PrefixMeans ==
  ASSUME NEW p \in Seq(Names), NEW q \in Seq(Names)
  PROVE  IsPrefix(p, q) <=> Len(p) <= Len(q) /\ \A i \in 1 .. Len(p) : q[i] = p[i]
  <1>1. Len(p) \in Nat /\ Len(q) \in Nat
    OBVIOUS
  <1>2. SubSeq(p, 1, Len(p)) = p
    BY SubSeqFull
  <1>3. CASE Len(p) <= Len(q)
    <2> DEFINE r == SubSeq(q, 1, Len(p))
    <2>1. r \in Seq(Names) /\ Len(r) = Len(p) /\ \A i \in 1 .. Len(p) : r[i] = q[i]
      BY <1>1, <1>3
    <2>2. (\A i \in 1 .. Len(p) : r[i] = p[i]) => r = p
      <3> HIDE DEF r
      <3> QED
        BY <2>1, SeqEqual
    <2>3. p = r <=> \A i \in 1 .. Len(p) : q[i] = p[i]
      <3> HIDE DEF r
      <3> QED
        BY <2>1, <2>2
    <2> QED
      BY <1>2, <1>3, <2>3 DEF IsPrefix
  <1>4. CASE ~(Len(p) <= Len(q))
    BY <1>4 DEF IsPrefix
  <1> QED
    BY <1>3, <1>4

LEMMA SamePath ==
  ASSUME NEW p \in Seq(Names), NEW q \in Seq(Names), Len(p) = Len(q),
         \A i \in 1 .. Len(p) : p[i] = q[i]
  PROVE  p = q
  BY SeqEqual

\* What occurs in a sequence that has grown or lost its head.
LEMMA OccursIn ==
  ASSUME NEW S, NEW s \in Seq(S)
  PROVE  /\ \A x \in S : \A y : Occurs(y, Append(s, x)) <=> Occurs(y, s) \/ y = x
         /\ s # <<>> => \A y : Occurs(y, s) <=> y = Head(s) \/ Occurs(y, Tail(s))
         /\ \A t \in Seq(S) : \A y : Occurs(y, s) => Occurs(y, s \o t)
         /\ ~(\E y : Occurs(y, <<>>))
  <1>1. Len(s) \in Nat
    OBVIOUS
  <1>2. ASSUME NEW x \in S, NEW y
        PROVE  Occurs(y, Append(s, x)) <=> Occurs(y, s) \/ y = x
    <2> DEFINE t == Append(s, x)
    <2>1. Len(t) = Len(s) + 1 /\ t[Len(s) + 1] = x /\ \A i \in 1 .. Len(s) : t[i] = s[i]
      BY AppendHead
    <2> HIDE DEF t
    <2>2. \A i \in 1 .. Len(t) : i \in 1 .. Len(s) \/ i = Len(s) + 1
      BY <1>1, <2>1
    <2>3. \A i \in 1 .. Len(s) : i \in 1 .. Len(t)
      BY <1>1, <2>1
    <2>4. Len(s) + 1 \in 1 .. Len(t)
      BY <1>1, <2>1
    <2>5. Occurs(y, t) <=> Occurs(y, s) \/ y = x
      BY <2>1, <2>2, <2>3, <2>4 DEF Occurs
    <2> QED
      BY <2>5 DEF t
  <1>3. ASSUME s # <<>>, NEW y
        PROVE  Occurs(y, s) <=> y = Head(s) \/ Occurs(y, Tail(s))
    <2> DEFINE t == Tail(s)
    <2>1. Len(s) > 0 /\ Len(t) = Len(s) - 1 /\ Head(s) = s[1]
          /\ \A i \in 1 .. Len(s) - 1 : t[i] = s[i + 1]
      BY <1>1, <1>3, AppendHead, EmptySeq
    <2> HIDE DEF t
    <2>2. ASSUME NEW i \in 1 .. Len(s)
          PROVE  i = 1 \/ (i - 1 \in 1 .. Len(t) /\ s[i] = t[i - 1])
      BY <1>1, <2>1
    <2>3. ASSUME NEW i \in 1 .. Len(t)
          PROVE  i + 1 \in 1 .. Len(s) /\ t[i] = s[i + 1]
      BY <1>1, <2>1
    <2>4. 1 \in 1 .. Len(s)
      BY <1>1, <2>1
    <2>5. Occurs(y, s) => y = Head(s) \/ Occurs(y, t)
      BY <2>1, <2>2 DEF Occurs
    <2>6. Occurs(y, t) => Occurs(y, s)
      BY <2>3 DEF Occurs
    <2>7. y = Head(s) => Occurs(y, s)
      BY <2>1, <2>4 DEF Occurs
    <2> QED
      BY <2>5, <2>6, <2>7 DEF t
  <1>4. ASSUME NEW t \in Seq(S), NEW y, Occurs(y, s)
        PROVE  Occurs(y, s \o t)
    <2>1. Len(s \o t) = Len(s) + Len(t) /\ Len(t) \in Nat /\ \A i \in 1 .. Len(s) : (s \o t)[i] = s[i]
      BY ConcatProperties
    <2>2. \A i \in 1 .. Len(s) : i \in 1 .. Len(s \o t)
      BY <1>1, <2>1
    <2> QED
      BY <1>4, <2>1, <2>2 DEF Occurs
  <1>5. ~(\E y : Occurs(y, <<>>))
    BY DEF Occurs
  <1> QED
    BY <1>2, <1>3, <1>4, <1>5

\* What the other program created is on the way to itself, and so is what is above.
LEMMA HidesUp ==
  ASSUME added \subseteq Path
  PROVE  /\ \A p \in added : Hides(p)
         /\ \A p, q \in Path : Hides(q) /\ Len(p) <= Len(q) /\ (\A i \in 1 .. Len(p) : q[i] = p[i])
                               => Hides(p)
  <1>1. \A p \in Path : p \in Seq(Names) /\ Len(p) \in Nat
    BY DEF Path
  <1>2. ASSUME NEW p \in added
        PROVE  Hides(p)
    BY <1>1, <1>2, PrefixMeans DEF Hides
  <1>3. ASSUME NEW p \in Path, NEW q \in Path, Hides(q), Len(p) <= Len(q),
               \A i \in 1 .. Len(p) : q[i] = p[i]
        PROVE  Hides(p)
    <2>1. PICK r \in added : IsPrefix(q, r)
      BY <1>3 DEF Hides
    <2>2. Len(q) <= Len(r) /\ \A i \in 1 .. Len(q) : r[i] = q[i]
      BY <1>1, <2>1, PrefixMeans
    <2>3. Len(p) <= Len(r) /\ \A i \in 1 .. Len(p) : r[i] = p[i]
      BY <1>1, <1>3, <2>2
    <2>4. IsPrefix(p, r)
      BY <1>1, <2>3, PrefixMeans
    <2> QED
      BY <2>4 DEF Hides
  <1> QED
    BY <1>2, <1>3

\* What a call does when nobody is asked about it.
LEMMA FailsQuietly ==
  ASSUME ~ignoreAll, NEW silent
  PROVE  \A o \in Fails(silent) : o.ask
  BY DEF Fails, Outcome

LEMMA AttemptsQuietly ==
  ASSUME ~ignoreAll, NEW name, NEW status, NEW silent
  PROVE  \A o \in Attempt(name, status, silent) : o.ask \/ (o.ok /\ o.status = status)
  <1> SUFFICES ASSUME NEW o \in Attempt(name, status, silent)
               PROVE  o.ask \/ (o.ok /\ o.status = status)
    OBVIOUS
  <1>1. o = Outcome(TRUE, status, FALSE) \/ o \in Fails(silent) \/ o = Outcome(TRUE, "retry", TRUE)
    BY DEF Attempt
  <1>2. Outcome(TRUE, status, FALSE).ok /\ Outcome(TRUE, status, FALSE).status = status
        /\ Outcome(TRUE, "retry", TRUE).ask
    BY DEF Outcome
  <1> QED
    BY <1>1, <1>2, FailsQuietly

LEMMA PressedQuietly ==
  ASSUME TPlace
  PROVE  \A o \in Pressed : o.ask \/ (o.ok /\ o.status = "cont")
  BY PressedTypes

LEMMA RemovesQuietly ==
  ASSUME ~ignoreAll, NEW p
  PROVE  \A o \in RemoveDir(p) : o.ask \/ (o.ok /\ o.status = "cont" /\ IsEmpty(p))
  BY AttemptsQuietly, FailsQuietly DEF RemoveDir

LEMMA ErasesFileQuietly ==
  ASSUME TPlace, TCtx, ~ignoreAll, NEW p
  PROVE  \A o \in EraseFile(p) : o.ask \/ (o.ok /\ o.status = "cont")
  <1> SUFFICES ASSUME NEW o \in EraseFile(p) PROVE o.ask \/ (o.ok /\ o.status = "cont")
    OBVIOUS
  <1>1. \/ o \in Pressed
        \/ o \in Attempt("unlink", "cont", "cont")
        \/ \E r \in Attempt("unlink", "cont", "cont"), b \in Pressed :
              o = Outcome(r.ok, b.status, r.ask \/ b.ask)
    BY DEF EraseFile
  <1>2. ASSUME NEW r \in Attempt("unlink", "cont", "cont"), NEW b \in Pressed,
               o = Outcome(r.ok, b.status, r.ask \/ b.ask)
        PROVE  o.ask \/ (o.ok /\ o.status = "cont")
    <2>1. o.ok = r.ok /\ o.status = b.status /\ o.ask = (r.ask \/ b.ask)
      BY <1>2 DEF Outcome
    <2> QED
      BY <2>1, AttemptsQuietly, PressedQuietly
  <1> QED
    BY <1>1, <1>2, AttemptsQuietly, PressedQuietly

\* erase_dir_iff_empty leaves a directory that is not empty without a word.
LEMMA ErasesQuietly ==
  ASSUME TPlace, ~ignoreAll, NEW p
  PROVE  \A o \in EraseIffEmpty(p) :
            o.ask \/ (o.status = "cont" /\ (o.ok <=> IsEmpty(p)))
  <1> SUFFICES ASSUME NEW o \in EraseIffEmpty(p)
               PROVE  o.ask \/ (o.status = "cont" /\ (o.ok <=> IsEmpty(p)))
    OBVIOUS
  <1> DEFINE opened == IF p \in source THEN Attempt("opendir", "cont", "ignore_all") ELSE Fails("ignore_all")
  <1>1. \/ o \in Pressed /\ o.status = "abort"
        \/ o \in opened /\ ~o.ok
        \/ IsEmpty(p) /\ o \in RemoveDir(p)
        \/ ~IsEmpty(p) /\ o = Outcome(FALSE, "cont", FALSE)
    BY DEF EraseIffEmpty
  <1>2. o \in opened /\ ~o.ok => o.ask
    BY AttemptsQuietly, FailsQuietly
  <1>3. Outcome(FALSE, "cont", FALSE).status = "cont" /\ ~Outcome(FALSE, "cont", FALSE).ok
    BY DEF Outcome
  <1> HIDE DEF opened
  <1> QED
    BY <1>1, <1>2, <1>3, PressedQuietly, RemovesQuietly

LEMMA CopiesQuietly ==
  ASSUME ~ignoreAll, ~MayFail("standing")
  PROVE  \A o \in CopyResults : o.ask \/ (o.ok /\ o.status = "cont")
  <1> SUFFICES ASSUME NEW o \in CopyResults PROVE o.ask \/ (o.ok /\ o.status = "cont")
    OBVIOUS
  <1>1. \/ o = Outcome(TRUE, "cont", FALSE)
        \/ o \in [ok : BOOLEAN, ask : {~ignoreAll},
              status : IF ignoreAll THEN {"ignore_all"} ELSE (job.errors \ {"retry"}) \cup {"skip"}]
    BY DEF CopyResults
  <1>2. Outcome(TRUE, "cont", FALSE).ok /\ Outcome(TRUE, "cont", FALSE).status = "cont"
    BY DEF Outcome
  <1> QED
    BY <1>1, <1>2

\* A step after which the user has not been asked asked nothing.
LEMMA QuietBefore ==
  ASSUME Quiet', UNCHANGED <<job, cur>>, asked \subseteq asked', ignoreAll => ignoreAll'
  PROVE  Quiet /\ Calm /\ ~ignoreAll /\ Top' = Top
  <1>1. Top' = Top
    BY DEF Top
  <1> QED
    BY <1>1 DEF Quiet, Calm, MayFail

LEMMA QuietReport ==
  ASSUME Quiet', UNCHANGED <<job, cur>>, NEW o, Notice(o)
  PROVE  Quiet /\ ~ignoreAll /\ ~o.ask
  <1>1. asked \subseteq asked' /\ (ignoreAll => ignoreAll') /\ (o.ask => Top \in asked')
    BY DEF Notice
  <1>2. Top' = Top
    BY DEF Top
  <1> QED
    BY <1>1, <1>2, QuietBefore DEF Quiet

LEMMA Reports ==
  ASSUME NEW o, Report(o)
  PROVE  Notice(o)
  BY DEF Report

\* What has been reached stays so, and so does what is finished.
LEMMA ReachedStays ==
  ASSUME UNCHANGED job, target \subseteq target'
  PROVE  /\ \A p : Reached(p) => Reached(p)'
         /\ \A t : FilesArrived(t) => FilesArrived(t)'
  <1>1. \A p : TargetOf(p)' = TargetOf(p)
    BY DEF TargetOf, Dived
  <1>2. \A p : Reached(p) => Reached(p)'
    BY <1>1 DEF Reached
  <1> QED
    BY <1>2 DEF FilesArrived

LEMMA FinishedStays ==
  ASSUME UNCHANGED <<job, added>>, target \subseteq target', source' \subseteq source, NEW t, Finished(t)
  PROVE  Finished(t)'
  <1>1. FilesArrived(t) => FilesArrived(t)'
    BY ReachedStays
  <1>2. Emptied(t) => Emptied(t)'
    BY DEF Emptied, Hides
  <1> QED
    BY <1>1, <1>2 DEF Finished

\* A step within a marked directory.
LEMMA WithinTop ==
  ASSUME SInv, cur > 0, pc \notin Between, pc' \notin Between,
         UNCHANGED <<job, cur, marked, added>>, source' \subseteq source, target \subseteq target',
         asked \subseteq asked', ignoreAll => ignoreAll',
         confirmed' = confirmed \/ job.op = "delete", recursive = "none" => recursive' = "none",
         Quiet /\ Now /\ Quiet' => Now'
  PROVE  SInv'
  <1>1. Known' /\ NoneLetGo'
    BY DEF SInv, Known, NoneLetGo
  <1>2. Past'
    <2> SUFFICES ASSUME Calm'
                 PROVE  /\ \A i \in 1 .. cur : i < cur /\ job.tops[i] \notin asked'
                             => job.tops[i] \notin marked \/ KeptSilently'
                        /\ \A t \in ToSet(job.tops) : t \notin marked /\ t \notin asked' => Finished(t)'
      BY DEF Past
    <2>1. Calm
      BY DEF Calm, MayFail
    <2>2. KeptSilently => KeptSilently'
      BY DEF KeptSilently, MayFail
    <2>3. \A t : Finished(t) => Finished(t)'
      BY FinishedStays
    <2> QED
      BY <2>1, <2>2, <2>3 DEF SInv, Past
  <1>3. Quiet' => Quiet /\ Now
    BY QuietBefore DEF SInv
  <1> QED
    BY <1>1, <1>2, <1>3 DEF SInv

\* What exists is in directories that list it.
LEMMA TreeListed ==
  ASSUME TPlace, NEW p \in job.tree, NEW i \in 1 .. Len(p) - 1
  PROVE  p[i] \in job.dirs /\ Occurs(p[i + 1], job.kids[job.inode[p[i]]])
  <1>1. p[i] \in job.dirs /\ p[i + 1] \in Range(job.kids[job.inode[p[i]]])
    BY JobsAssumption DEF TPlace, WellFormed
  <1>2. job.kids[job.inode[p[i]]] \in Seq(Names)
    BY <1>1, JobFacts
  <1> DEFINE s == job.kids[job.inode[p[i]]]
  <1> HIDE DEF s
  <1>3. DOMAIN s = 1 .. Len(s)
    BY <1>2 DEF s
  <1>4. Occurs(p[i + 1], s)
    BY <1>1, <1>3 DEF Occurs, Range, s
  <1> QED
    BY <1>1, <1>4 DEF s

\* Nothing that existed at the start is in a copy.
LEMMA NotInCopy ==
  ASSUME TPlace, NEW p \in job.tree, NEW q \in Path, ThroughCopy(q), Len(q) <= Len(p),
         \A i \in 1 .. Len(q) : p[i] = q[i]
  PROVE  FALSE
  <1>1. p \in Path /\ Copied \notin Range(p)
    BY JobFacts
  <1>2. DOMAIN q = 1 .. Len(q) /\ DOMAIN p = 1 .. Len(p) /\ Len(p) \in Nat /\ Len(q) \in Nat
    BY <1>1 DEF Path
  <1>3. PICK i \in 1 .. Len(q) : q[i] = Copied
    BY <1>2 DEF ThroughCopy, Range
  <1>4. i \in 1 .. Len(p) /\ p[i] = Copied
    BY <1>2, <1>3
  <1> QED
    BY <1>1, <1>2, <1>4 DEF Range

\* A directory that is opened lists all that is in it.
LEMMA ListsAll ==
  ASSUME TPlace, NEW p \in job.tree, NEW q \in Path, Below(q, p)
  PROVE  Occurs(p[Len(q) + 1], Listing(q))
  <1>1. p \in Seq(Names) /\ q \in Seq(Names) /\ Len(q) \in Nat /\ Len(p) \in Nat /\ Len(q) > 0
    BY JobFacts, EmptySeq DEF Path
  <1>2. Len(q) \in 1 .. Len(p) - 1 /\ p[Len(q)] = Last(q)
    BY <1>1 DEF Below, Last
  <1>3. Last(q) \in job.dirs /\ Occurs(p[Len(q) + 1], job.kids[job.inode[Last(q)]])
    BY <1>2, TreeListed
  <1>4. ~ThroughCopy(q)
    BY <1>1, NotInCopy DEF Below
  <1> DEFINE kids == job.kids[job.inode[Last(q)]]
             in == IF Last(q) \in job.inside /\ TargetOf(<<Top>>) \in target THEN <<Copied>> ELSE <<>>
             late == IF Append(q, Late) \in source THEN <<Late>> ELSE <<>>
  <1>5. kids \in Seq(Names)
    BY <1>3, JobFacts
  <1>6. in \in Seq(Names) /\ late \in Seq(Names)
    BY NamesAssumption
  <1>7. Listing(q) = kids \o in \o late
    BY <1>4 DEF Listing
  <1>8. Occurs(p[Len(q) + 1], kids)
    BY <1>3
  <1> HIDE DEF kids, in, late
  <1>9. Occurs(p[Len(q) + 1], kids \o in) /\ kids \o in \in Seq(Names)
    BY <1>5, <1>6, <1>8, OccursIn
  <1>10. Occurs(p[Len(q) + 1], (kids \o in) \o late)
    <2> DEFINE both == kids \o in
    <2>1. Occurs(p[Len(q) + 1], both) /\ both \in Seq(Names)
      BY <1>9
    <2> HIDE DEF both
    <2>2. Occurs(p[Len(q) + 1], both \o late)
      BY <1>6, <2>1, OccursIn
    <2> QED
      BY <2>2 DEF both
  <1> QED
    BY <1>7, <1>10

\* The frames that remain when a call returns, and those below a new one.
LEMMA GiveFrames ==
  ASSUME TWork, NEW status \in Statuses, NEW frames \in Seq(PathFrames), Give(status, frames)
  PROVE  \A i \in 1 .. Len(frames) :
            /\ stack'[i].todo = frames[i].todo
            /\ stack'[i].status = IF i = Len(frames) THEN status ELSE frames[i].status
  <1>1. CASE frames = <<>>
    BY <1>1
  <1>2. CASE frames # <<>>
    <2> DEFINE old == frames[Len(frames)]
               new == [old EXCEPT !.status = status]
    <2>1. stack' = [frames EXCEPT ![Len(frames)] = new]
      BY <1>2 DEF Give
    <2>2. Len(frames) \in Nat /\ Len(frames) > 0 /\ old \in PathFrames
      BY <1>2, EmptySeq
    <2>3. new.status = status /\ new.todo = old.todo
      BY <2>2 DEF PathFrames
    <2> HIDE DEF new
    <2>4. \A i \in 1 .. Len(frames) : stack'[i] = IF i = Len(frames) THEN new ELSE frames[i]
      BY <2>1, <2>2
    <2> QED
      BY <2>3, <2>4
  <1> QED
    BY <1>1, <1>2

LEMMA PushFrames ==
  ASSUME TPlace, TWork, TDisk, NEW p \in Path, NEW status \in Statuses, Push(p, status)
  PROVE  stack'[Len(stack) + 1].todo = Listing(p)
  <1> DEFINE frame == [from |-> p, todo |-> Listing(p), entry |-> p, status |-> status]
  <1>1. frame \in PathFrames /\ frame.todo = Listing(p)
    BY ListingTypes DEF PathFrames
  <1>2. stack' = Append(stack, frame) /\ stack \in Seq(PathFrames)
    BY DEF Push, TWork
  <1> HIDE DEF frame
  <1>3. Append(stack, frame)[Len(stack) + 1] = frame
    BY <1>1, <1>2, AppendHead
  <1> QED
    BY <1>1, <1>2, <1>3

\* What is settled stays so.
LEMMA SettledStays ==
  ASSUME UNCHANGED <<job, added>>, target \subseteq target', source' \subseteq source,
         \A x : Occurs(x, eraseList) => Occurs(x, eraseList')
  PROVE  \A p : Settled(p) => Settled(p)'
  <1>1. \A p : Reached(p) => Reached(p)'
    BY ReachedStays
  <1> SUFFICES ASSUME NEW p, Settled(p)
               PROVE  Settled(p)'
    OBVIOUS
  <1>2. Reached(p)'
    BY <1>1 DEF Settled
  <1>3. Hides(p)' = Hides(p) /\ Occurs(p, eraseList)' = Occurs(p, eraseList')
    BY DEF Hides, Occurs
  <1>4. job.op = "move" => p \notin source' \/ Occurs(p, eraseList') \/ Hides(p)
    BY DEF Settled
  <1> QED
    BY <1>2, <1>3, <1>4 DEF Settled

\* What is above the entry a call has come to are the directories of the calls below.
LEMMA ChainCuts ==
  ASSUME Chain, stack \in Seq(PathFrames), pc # "read", stack # <<>>, NEW m \in 1 .. Len(stack)
  PROVE  Cut(stack[Len(stack)].entry, m, stack[m].from)
  <1> DEFINE here == stack[Len(stack)]
  <1>1. Len(stack) \in Nat /\ Len(stack) \in 1 .. Len(stack)
    BY EmptySeq
  <1>2. Cut(here.from, m, stack[m].from) /\ Len(here.from) = Len(stack) /\ Below(here.from, here.entry)
    BY <1>1 DEF Chain
  <1> HIDE DEF here
  <1>3. \A i \in 1 .. m : i \in 1 .. Len(stack)
    BY <1>1
  <1> QED
    BY <1>2, <1>3 DEF Cut, Below, here

LEMMA PathLength ==
  ASSUME NEW p \in Path
  PROVE  Len(p) = 1 \/ Len(p) > 1
  <1>1. Len(p) \in Nat /\ Len(p) # 0
    BY EmptySeq DEF Path
  <1> QED
    BY <1>1

\* The copy of a marked directory ends.
LEMMA CopyEnds ==
  ASSUME TPlace, TDisk, THist, cur > 0, Known, stack' = <<>>, val' = "cont", job.op # "delete",
         pc' = (IF job.op = "move" THEN "moved" ELSE "done"),
         \A p \in job.tree : p[1] = Top /\ Len(p) > 1 => Settled(p)',
         Order', UNCHANGED <<job, cur, added>>, source' \subseteq source
  PROVE  Now'
  <1>1. Top' = Top /\ Top \in job.dirs
    BY TopFacts DEF Top
  <1>2. ASSUME NEW p \in job.tree, p[1] = Top
        PROVE  Reached(p)'
    <2>1. Len(p) = 1 \/ Len(p) > 1
      BY PathLength, JobFacts
    <2>2. CASE Len(p) = 1
      <3>1. Last(p) = Top
        BY <1>2, <2>2 DEF Last
      <3> QED
        BY <1>1, <3>1 DEF Reached
    <2>3. CASE Len(p) > 1
      BY <1>2, <2>3 DEF Settled
    <2> QED
      BY <2>1, <2>2, <2>3
  <1>3. FilesArrived(Top)'
    BY <1>1, <1>2 DEF FilesArrived
  <1>4. job.op = "move" => Remaining'
    <2> SUFFICES ASSUME job.op = "move", NEW p \in source', p[1] = Top, Len(p) > 1
                 PROVE  Occurs(p, eraseList)' \/ Hides(p)'
      BY <1>1 DEF Remaining
    <2>1. CASE p \in job.tree
      BY <2>1 DEF Settled
    <2>2. CASE p \in added
      <3>1. Hides(p)
        BY <2>2, HidesUp DEF THist
      <3> QED
        BY <3>1 DEF Hides
    <2> QED
      BY <2>1, <2>2 DEF Known
  <1>5. InMove' /\ InDone'
    BY <1>1, <1>3, <1>4, JobFacts DEF InMove, InDone, Finished
  <1>6. InCopy' /\ InWipe'
    BY DEF InCopy, InWipe, Copying
  <1> QED
    BY <1>5, <1>6 DEF Now

\* A call goes on with its next step.
LEMMA CallGoesOnQuietly ==
  ASSUME pc \in Calling, pc' \in Calling, Now, UNCHANGED <<job, cur, stack, eraseList, source, added>>,
         target \subseteq target', call'.from = call.from, call'.status = "cont"
  PROVE  Now'
  <1>1. Top' = Top /\ pc \in Copying /\ pc' \in Copying /\ pc # "read" /\ pc' # "read" /\ pc # "entry"
    BY DEF Top, Calling, Copying
  <1>2. Smooth /\ Chain /\ Progress /\ Order /\ CallAt
    BY <1>1 DEF Now, InCopy
  <1>3. Smooth' /\ Chain' /\ CallAt'
    BY <1>1, <1>2 DEF Smooth, Chain, CallAt
  <1>4. Progress'
    <2>1. \A p : Settled(p) => Settled(p)'
      BY SettledStays
    <2>2. \A i \in 1 .. Len(stack) : \A p : UnderWay(i, p) => UnderWay(i, p)'
      BY <1>1 DEF UnderWay
    <2>3. \A i \in 1 .. Len(stack) : \A p \in job.tree :
             Below(stack[i].from, p) =>
                Settled(p) \/ Occurs(p[i + 1], stack[i].todo) \/ UnderWay(i, p)
      BY <1>2 DEF Progress
    <2> QED
      BY <2>1, <2>2, <2>3 DEF Progress
  <1>5. Order'
    BY <1>1, <1>2 DEF Order, Later, Open
  <1>6. pc' \notin {"moved", "drain", "wipe_enter", "wipe", "done"}
    BY DEF Calling
  <1> QED
    BY <1>3, <1>4, <1>5, <1>6 DEF Now, InCopy, InMove, InWipe, InDone

\* A call is about a place in the copy, where nothing was at the start.
LEMMA PassesOverCopy ==
  ASSUME TInv, Known, Now, pc \in Calling, ThroughCopy(call.from), Give("cont", stack),
         UNCHANGED <<job, cur, eraseList, source, target, added>>
  PROVE  Now'
  <1>1. /\ TPlace /\ TWork /\ TDisk /\ THist /\ cur > 0 /\ job.op # "delete" /\ call.from \in Path
        /\ stack \in Seq(PathFrames) /\ Len(stack) \in Nat /\ pc \in Copying /\ pc \notin {"read", "entry"}
    <2>1. pc \in Copying /\ pc \notin {"read", "entry"}
      BY DEF Calling, Copying
    <2>2. stack \in Seq(PathFrames)
      BY DEF TInv, TWork
    <2> QED
      BY <2>1, <2>2, CopyingFacts DEF TInv
  <1>2. Smooth /\ Chain /\ Progress /\ Order /\ CallAt /\ Top' = Top
    BY <1>1 DEF Now, InCopy, Top
  <1>3. /\ stack' \in Seq(PathFrames) /\ Len(stack') = Len(stack)
        /\ stack = <<>> => /\ stack' = <<>> /\ val' = "cont"
                           /\ pc' = IF job.op = "move" THEN "moved" ELSE "done"
        /\ stack # <<>> => stack' # <<>> /\ pc' = "entry"
        /\ \A i \in 1 .. Len(stack) : /\ stack'[i].from = stack[i].from
                                      /\ stack'[i].entry = stack[i].entry
                                      /\ stack'[i].todo = stack[i].todo
                                      /\ stack'[i].status = IF i = Len(stack) THEN "cont" ELSE stack[i].status
    <2>1. "cont" \in Statuses
      BY StatusNames
    <2>2. /\ stack' \in Seq(PathFrames) /\ Len(stack') = Len(stack)
          /\ stack = <<>> => /\ stack' = <<>> /\ val' = "cont"
                             /\ pc' = IF job.op = "move" THEN "moved" ELSE "done"
          /\ stack # <<>> => stack' # <<>> /\ pc' = IF job.op = "delete" THEN "wipe" ELSE "entry"
          /\ \A i \in 1 .. Len(stack) : /\ stack'[i].from = stack[i].from
                                        /\ stack'[i].entry = stack[i].entry
      BY <1>1, <2>1, GiveTypes
    <2>3. \A i \in 1 .. Len(stack) : /\ stack'[i].todo = stack[i].todo
                                    /\ stack'[i].status = IF i = Len(stack) THEN "cont" ELSE stack[i].status
      BY <1>1, <2>1, GiveFrames
    <2> QED
      BY <1>1, <2>2, <2>3
  <1>4. \A p : Settled(p) => Settled(p)'
    BY SettledStays
  <1>5. Order'
    <2>1. ASSUME NEW j \in 1 .. Len(eraseList), NEW m \in 2 .. Len(eraseList[j]) - 1, Open(j, m)
          PROVE  Open(j, m)'
      <3>1. m <= Len(stack) /\ Cut(eraseList[j], m, stack[m].from)
        BY <1>1, <2>1 DEF Open
      <3>2. m \in 1 .. Len(stack)
        BY <1>1, <3>1
      <3>3. stack'[m].from = stack[m].from
        BY <1>3, <3>2
      <3> QED
        BY <1>3, <3>1, <3>3 DEF Open
    <2> QED
      BY <1>2, <2>1 DEF Order, Later
  <1>6. CASE stack = <<>>
    <2>1. call.from = <<Top>>
      BY <1>2, <1>6 DEF CallAt
    <2>2. ASSUME NEW p \in job.tree, p[1] = Top, Len(p) > 1
          PROVE  FALSE
      <3>1. Len(call.from) <= Len(p) /\ \A i \in 1 .. Len(call.from) : p[i] = call.from[i]
        BY <2>1, <2>2
      <3> QED
        BY <1>1, <3>1, NotInCopy
    <2> QED
      BY <1>1, <1>3, <1>5, <1>6, <2>2, CopyEnds
  <1>7. CASE stack # <<>>
    <2>1. pc' = "entry" /\ call.from = stack[Len(stack)].entry
      BY <1>2, <1>3, <1>7 DEF CallAt
    <2>2. Smooth'
      BY <1>2, <1>3 DEF Smooth
    <2>3. Chain'
      <3>1. \A i \in 1 .. Len(stack) :
               /\ i < Len(stack) => i + 1 \in 1 .. Len(stack)
               /\ \A m \in 1 .. i : m \in 1 .. Len(stack)
        BY <1>1
      <3> QED
        BY <1>1, <1>2, <1>3, <2>1, <3>1 DEF Chain
    <2>4. Progress'
      <3> SUFFICES ASSUME NEW i \in 1 .. Len(stack), NEW p \in job.tree, Below(stack[i].from, p)
                   PROVE  Settled(p)' \/ Occurs(p[i + 1], stack[i].todo) \/ UnderWay(i, p)'
        BY <1>3 DEF Progress, Occurs
      <3>1. Settled(p) \/ Occurs(p[i + 1], stack[i].todo) \/ UnderWay(i, p)
        BY <1>2 DEF Progress
      <3>2. ASSUME UnderWay(i, p), i < Len(stack)
            PROVE  UnderWay(i, p)'
        BY <1>3, <3>2 DEF UnderWay
      <3>3. ASSUME UnderWay(i, p), i = Len(stack)
            PROVE  FALSE
        <4>1. Len(call.from) = i + 1 /\ Below(stack[i].from, call.from) /\ p[i + 1] = call.from[i + 1]
              /\ Len(stack[i].from) = i
          BY <1>1, <1>2, <2>1, <3>3 DEF Chain, UnderWay
        <4>2. Len(p) \in Nat /\ p \in Path
          BY <1>1, JobFacts DEF Path
        <4>3. \A k \in 1 .. i + 1 : k \in 1 .. i \/ k = i + 1
          OBVIOUS
        <4>4. \A k \in 1 .. Len(call.from) : p[k] = call.from[k]
          BY <4>1, <4>3 DEF Below
        <4>5. Len(call.from) <= Len(p)
          BY <4>1, <4>2 DEF Below
        <4> QED
          BY <1>1, <4>4, <4>5, NotInCopy
      <3>4. i < Len(stack) \/ i = Len(stack)
        BY <1>1
      <3> QED
        BY <1>4, <3>1, <3>2, <3>3, <3>4
    <2>5. InCopy'
      BY <1>5, <2>1, <2>2, <2>3, <2>4 DEF InCopy, Calling
    <2> QED
      BY <2>1, <2>5 DEF Now, InMove, InWipe, InDone
  <1> QED
    BY <1>6, <1>7

\* A directory is opened: all that is in it is still to be read.
LEMMA OpensQuietly ==
  ASSUME TInv, Now, pc = "opendir", Push(call.from, "cont"),
         UNCHANGED <<job, cur, eraseList, source, target, added>>
  PROVE  Now'
  <1>1. /\ TPlace /\ TWork /\ TDisk /\ cur > 0 /\ job.op # "delete" /\ call.from \in Path
        /\ stack \in Seq(PathFrames) /\ Len(stack) \in Nat /\ pc \in Copying /\ pc \in Calling
    <2>1. pc \in Copying /\ pc \notin {"read", "entry"} /\ pc \in Calling
      BY DEF Calling, Copying
    <2>2. stack \in Seq(PathFrames)
      BY DEF TInv, TWork
    <2> QED
      BY <2>1, <2>2, CopyingFacts DEF TInv
  <1>2. Smooth /\ Chain /\ Progress /\ Order /\ CallAt /\ Top' = Top
    BY <1>1 DEF Now, InCopy, Top
  <1>3. /\ stack' \in Seq(PathFrames) /\ Len(stack') = Len(stack) + 1 /\ pc' = "read"
        /\ \A i \in 1 .. Len(stack) : stack'[i] = stack[i]
        /\ stack'[Len(stack) + 1].from = call.from /\ stack'[Len(stack) + 1].status = "cont"
        /\ stack'[Len(stack) + 1].todo = Listing(call.from)
    BY <1>1, PushTypes, PushFrames, StatusNames
  <1>4. \A i \in 1 .. Len(stack') : i \in 1 .. Len(stack) \/ i = Len(stack) + 1
    BY <1>1, <1>3
  <1>5. Len(call.from) = Len(stack) + 1 /\ call.from[1] = Top
    <2>1. CASE stack = <<>>
      BY <1>2, <2>1 DEF CallAt
    <2>2. CASE stack # <<>>
      <3>1. Len(stack) \in 1 .. Len(stack) /\ 1 \in 1 .. Len(stack)
        BY <1>1, <2>2, EmptySeq
      <3>2. call.from = stack[Len(stack)].entry
        BY <1>2, <2>2 DEF CallAt
      <3>3. /\ Len(stack[Len(stack)].from) = Len(stack) /\ stack[Len(stack)].from[1] = Top
            /\ Len(stack[Len(stack)].entry) = Len(stack) + 1
            /\ Below(stack[Len(stack)].from, stack[Len(stack)].entry)
        BY <1>2, <3>1 DEF Chain
      <3> QED
        BY <3>1, <3>2, <3>3 DEF Below
    <2> QED
      BY <2>1, <2>2
  <1>6. Smooth'
    BY <1>2, <1>3, <1>4 DEF Smooth
  <1>7. Chain'
    <2> SUFFICES ASSUME NEW i \in 1 .. Len(stack')
                 PROVE  /\ Len(stack'[i].from) = i /\ stack'[i].from[1] = Top
                        /\ \A m \in 1 .. i : Cut(stack'[i].from, m, stack'[m].from)
                        /\ i < Len(stack') => stack'[i].entry = stack'[i + 1].from
                        /\ i < Len(stack') => /\ Len(stack'[i].entry) = i + 1
                                              /\ Below(stack'[i].from, stack'[i].entry)
      BY <1>2, <1>3 DEF Chain
    <2>1. CASE i = Len(stack) + 1
      <3>1. ASSUME NEW m \in 1 .. i
            PROVE  Cut(call.from, m, stack'[m].from)
        <4>1. CASE m = Len(stack) + 1
          BY <1>3, <1>5, <4>1 DEF Cut
        <4>2. CASE m \in 1 .. Len(stack)
          <5>1. stack # <<>> /\ Len(stack) \in 1 .. Len(stack) /\ stack'[m] = stack[m]
            BY <1>1, <1>3, <4>2
          <5>2. call.from = stack[Len(stack)].entry
            BY <1>2, <5>1 DEF CallAt
          <5>3. Cut(stack[Len(stack)].entry, m, stack[m].from)
            BY <1>1, <1>2, <4>2, <5>1, ChainCuts
          <5> QED
            BY <5>1, <5>2, <5>3
        <4> QED
          BY <2>1, <4>1, <4>2
      <3> QED
        BY <1>3, <1>5, <2>1, <3>1
    <2>2. CASE i \in 1 .. Len(stack)
      <3>1. /\ Len(stack[i].from) = i /\ stack[i].from[1] = Top
            /\ \A m \in 1 .. i : Cut(stack[i].from, m, stack[m].from)
            /\ i < Len(stack) => stack[i].entry = stack[i + 1].from
            /\ Len(stack[i].entry) = i + 1 /\ Below(stack[i].from, stack[i].entry)
        BY <1>2, <2>2 DEF Chain
      <3>2. stack'[i] = stack[i] /\ \A m \in 1 .. i : stack'[m] = stack[m]
        BY <1>1, <1>3, <2>2
      <3>3. CASE i < Len(stack)
        <4>1. i + 1 \in 1 .. Len(stack)
          BY <1>1, <3>3
        <4> QED
          BY <1>3, <3>1, <3>2, <3>3, <4>1
      <3>4. CASE i = Len(stack)
        <4>1. stack # <<>>
          BY <1>1, <2>2
        <4>2. stack'[i + 1].from = stack[i].entry
          BY <1>2, <1>3, <3>4, <4>1 DEF CallAt
        <4> QED
          BY <3>1, <3>2, <4>2
      <3> QED
        BY <1>1, <2>2, <3>3, <3>4
    <2> QED
      BY <1>4, <2>1, <2>2
  <1>8. Progress'
    <2>1. \A p : Settled(p) => Settled(p)'
      BY SettledStays
    <2> SUFFICES ASSUME NEW i \in 1 .. Len(stack'), NEW p \in job.tree, Below(stack'[i].from, p)
                 PROVE  Settled(p)' \/ Occurs(p[i + 1], stack'[i].todo) \/ UnderWay(i, p)'
      BY DEF Progress, Occurs
    <2>2. CASE i = Len(stack) + 1
      <3>1. Occurs(p[Len(call.from) + 1], Listing(call.from))
        BY <1>1, <1>3, <2>2, ListsAll
      <3> QED
        BY <1>3, <1>5, <2>2, <3>1
    <2>3. CASE i \in 1 .. Len(stack)
      <3>1. stack'[i] = stack[i] /\ i < Len(stack')
        BY <1>1, <1>3, <2>3
      <3>2. Settled(p) \/ Occurs(p[i + 1], stack[i].todo) \/ UnderWay(i, p)
        BY <1>2, <2>3, <3>1 DEF Progress
      <3>3. UnderWay(i, p) => UnderWay(i, p)'
        BY <3>1 DEF UnderWay
      <3> QED
        BY <2>1, <3>1, <3>2, <3>3
    <2> QED
      BY <1>4, <2>2, <2>3
  <1>9. Order'
    <2>1. ASSUME NEW j \in 1 .. Len(eraseList), NEW m \in 2 .. Len(eraseList[j]) - 1, Open(j, m)
          PROVE  Open(j, m)'
      <3>1. m <= Len(stack) /\ Cut(eraseList[j], m, stack[m].from)
        BY <2>1 DEF Open
      <3>2. m \in 1 .. Len(stack) /\ m <= Len(stack')
        BY <1>1, <1>3, <3>1
      <3> QED
        BY <1>3, <3>1, <3>2 DEF Open
    <2> QED
      BY <1>2, <2>1 DEF Order, Later
  <1>10. InCopy'
    BY <1>3, <1>6, <1>7, <1>8, <1>9 DEF InCopy, Calling
  <1> QED
    BY <1>3, <1>10 DEF Now, InMove, InWipe, InDone

\* copy_dir_dir takes the next entry: a directory is called for, a file has arrived.
LEMMA TakesEntry ==
  ASSUME TInv, Now, pc = "read", stack # <<>>, Here.todo # <<>>, job.op # "delete",
         NEW p, p = Append(Here.from, Head(Here.todo)),
         NEW f \in PathFrames, f.from = Here.from, f.todo = Tail(Here.todo), f.entry = p,
         f.status = "cont", stack' = [stack EXCEPT ![Len(stack)] = f],
         UNCHANGED <<job, cur, eraseList, source, added>>, target \subseteq target',
         \/ pc' = "enter" /\ call'.from = p /\ call'.status = "cont"
         \/ pc' = "entry" /\ ~IsDirectory(p) /\ TargetOf(p) \in target'
  PROVE  Now'
  <1>1. /\ TPlace /\ TWork /\ stack \in Seq(PathFrames) /\ Len(stack) \in Nat /\ Len(stack) > 0
        /\ Len(stack) \in 1 .. Len(stack) /\ Here = stack[Len(stack)] /\ Here \in PathFrames
        /\ Here.from \in Seq(Names) /\ Here.todo \in Seq(Names) /\ Top' = Top
    <2>1. TPlace /\ TWork /\ stack \in Seq(PathFrames)
      BY DEF TInv, TWork
    <2>2. Len(stack) \in Nat /\ Len(stack) > 0 /\ Here = stack[Len(stack)] /\ Here \in PathFrames
      BY <2>1, HereTypes
    <2> QED
      BY <2>1, <2>2 DEF PathFrames, Path, Top
  <1>2. Smooth /\ Chain /\ Progress /\ Order
    BY DEF Now, InCopy, Copying
  <1>3. /\ stack' \in Seq(PathFrames) /\ Len(stack') = Len(stack) /\ stack' # <<>>
        /\ stack'[Len(stack)] = f /\ \A i \in 1 .. Len(stack) - 1 : stack'[i] = stack[i]
    BY <1>1, TopExchanged
  <1>4. /\ \A i \in 1 .. Len(stack) : i = Len(stack) \/ (i \in 1 .. Len(stack) - 1 /\ i < Len(stack))
        /\ \A i \in 1 .. Len(stack) : i < Len(stack) => i + 1 \in 1 .. Len(stack)
        /\ \A i \in 1 .. Len(stack) : \A m \in 1 .. i : m \in 1 .. Len(stack)
    BY <1>1
  <1>5. \A i \in 1 .. Len(stack) : stack'[i].from = stack[i].from
    BY <1>1, <1>3, <1>4
  <1>6. /\ p \in Path /\ Len(Here.from) = Len(stack) /\ Len(p) = Len(stack) + 1
        /\ p[Len(stack) + 1] = Head(Here.todo) /\ Below(Here.from, p)
        /\ Last(p) = Head(Here.todo)
    <2>1. Len(Here.from) = Len(stack)
      BY <1>1, <1>2 DEF Chain
    <2>2. Head(Here.todo) \in Names
      BY <1>1, AppendHead
    <2>3. /\ Len(p) = Len(Here.from) + 1 /\ p[Len(Here.from) + 1] = Head(Here.todo)
          /\ \A i \in 1 .. Len(Here.from) : p[i] = Here.from[i]
      BY <1>1, <2>2, AppendHead
    <2>4. Len(Here.from) < Len(p)
      BY <1>1, <2>1, <2>3
    <2>5. p \in Path /\ Last(p) = Head(Here.todo)
      BY <1>1, <2>2, PathOf
    <2> QED
      BY <2>1, <2>3, <2>4, <2>5 DEF Below
  <1>7. Smooth'
    BY <1>2, <1>3, <1>4 DEF Smooth
  <1>8. Chain'
    <2> SUFFICES ASSUME NEW i \in 1 .. Len(stack)
                 PROVE  /\ Len(stack'[i].from) = i /\ stack'[i].from[1] = Top
                        /\ \A m \in 1 .. i : Cut(stack'[i].from, m, stack'[m].from)
                        /\ i < Len(stack) => stack'[i].entry = stack'[i + 1].from
                        /\ Len(stack'[i].entry) = i + 1 /\ Below(stack'[i].from, stack'[i].entry)
      BY <1>1, <1>3 DEF Chain
    <2>1. /\ Len(stack'[i].from) = i /\ stack'[i].from[1] = Top
          /\ \A m \in 1 .. i : Cut(stack'[i].from, m, stack'[m].from)
      BY <1>2, <1>4, <1>5 DEF Chain
    <2>2. CASE i = Len(stack)
      <3>1. ~(i < Len(stack))
        BY <1>1, <2>2
      <3>2. stack'[i].entry = p /\ stack'[i].from = Here.from
        BY <1>3, <2>2
      <3>3. Len(p) = i + 1 /\ Below(Here.from, p)
        BY <1>6, <2>2
      <3> QED
        BY <2>1, <3>1, <3>2, <3>3
    <2>3. CASE i \in 1 .. Len(stack) - 1 /\ i < Len(stack)
      BY <1>2, <1>3, <1>4, <1>5, <2>1, <2>3 DEF Chain
    <2> QED
      BY <1>4, <2>2, <2>3
  <1>9. \A q : Settled(q) => Settled(q)'
    BY SettledStays
  <1>10. Progress'
    <2> SUFFICES ASSUME NEW i \in 1 .. Len(stack), NEW q \in job.tree, Below(stack[i].from, q)
                 PROVE  Settled(q)' \/ Occurs(q[i + 1], stack'[i].todo) \/ UnderWay(i, q)'
      BY <1>3, <1>5 DEF Progress, Occurs
    <2>1. Settled(q) \/ Occurs(q[i + 1], stack[i].todo) \/ UnderWay(i, q)
      BY <1>2 DEF Progress
    <2>2. CASE i \in 1 .. Len(stack) - 1 /\ i < Len(stack)
      <3>1. stack'[i] = stack[i]
        BY <1>3, <2>2
      <3>2. UnderWay(i, q) => UnderWay(i, q)'
        BY <1>3, <2>2, <3>1 DEF UnderWay
      <3> QED
        BY <1>9, <2>1, <3>1, <3>2
    <2>3. CASE i = Len(stack)
      <3>1. stack[i] = Here /\ stack'[i] = f
        BY <1>1, <1>3, <2>3
      <3>2. ~UnderWay(i, q)
        BY <2>3 DEF UnderWay, Calling
      <3>3. Occurs(q[i + 1], Here.todo) => q[i + 1] = Head(Here.todo) \/ Occurs(q[i + 1], Tail(Here.todo))
        BY <1>1, OccursIn
      <3>4. ASSUME q[i + 1] = Head(Here.todo)
            PROVE  UnderWay(i, q)'
        <4>1. q[i + 1] = stack'[i].entry[i + 1]
          BY <1>6, <2>3, <3>1, <3>4
        <4>2. CASE pc' = "enter"
          BY <4>1, <4>2 DEF UnderWay, Calling
        <4>3. CASE pc' = "entry" /\ ~IsDirectory(p) /\ TargetOf(p) \in target'
          <5>1. q \in Seq(Names) /\ Len(q) \in Nat /\ Len(q) >= i + 1
            <6>1. Len(stack[i].from) = i /\ i \in Nat
              BY <1>6, <2>3, <3>1
            <6>2. Len(stack[i].from) < Len(q)
              BY DEF Below
            <6>3. q \in Path
              BY <1>1, JobFacts
            <6>4. q \in Seq(Names) /\ Len(q) \in Nat
              BY <6>3 DEF Path
            <6> QED
              BY <6>1, <6>2, <6>4
          <5>2. ASSUME Len(q) # i + 1
                PROVE  FALSE
            <6>1. i + 1 \in 1 .. Len(q) - 1
              BY <5>1, <5>2
            <6>2. q[i + 1] \in job.dirs
              BY <1>1, <6>1, TreeListed
            <6> QED
              BY <1>6, <3>4, <4>3, <6>2 DEF IsDirectory
          <5>3. \A k \in 1 .. i + 1 : k \in 1 .. i \/ k = i + 1
            OBVIOUS
          <5>4. \A k \in 1 .. Len(q) : q[k] = p[k]
            BY <1>6, <2>3, <3>1, <3>4, <5>2, <5>3 DEF Below
          <5>5. Len(q) = Len(p) /\ p \in Seq(Names)
            BY <1>6, <2>3, <5>2 DEF Path
          <5>6. q = p
            BY <5>1, <5>4, <5>5, SamePath
          <5>7. TargetOf(q)' = TargetOf(q)
            BY DEF TargetOf, Dived
          <5> QED
            BY <4>1, <4>3, <5>2, <5>6, <5>7 DEF UnderWay, Reached
        <4> QED
          BY <4>2, <4>3
      <3> QED
        BY <1>9, <2>1, <3>1, <3>2, <3>3, <3>4
    <2> QED
      BY <1>4, <2>2, <2>3
  <1>11. Order'
    <2>1. ASSUME NEW j \in 1 .. Len(eraseList), NEW m \in 2 .. Len(eraseList[j]) - 1, Open(j, m)
          PROVE  Open(j, m)'
      <3>1. m <= Len(stack) /\ Cut(eraseList[j], m, stack[m].from)
        BY <2>1 DEF Open
      <3>2. m \in 1 .. Len(stack) /\ m <= Len(stack')
        BY <1>1, <1>3, <3>1
      <3> QED
        BY <1>5, <3>1, <3>2 DEF Open
    <2> QED
      BY <1>2, <2>1 DEF Order, Later
  <1>12. pc' \in Calling => CallAt' /\ call'.status = "cont"
    BY <1>3 DEF CallAt, Calling
  <1>13. InCopy'
    BY <1>7, <1>8, <1>10, <1>11, <1>12 DEF InCopy
  <1> QED
    BY <1>13 DEF Now, InMove, InWipe, InDone

\* A list that has grown by one.
LEMMA Lengthened ==
  ASSUME NEW S, NEW s \in Seq(S), NEW x \in S, NEW t, t = Append(s, x)
  PROVE  /\ Len(s) \in Nat /\ Len(t) = Len(s) + 1 /\ t[Len(s) + 1] = x
         /\ \A i \in 1 .. Len(s) : t[i] = s[i]
         /\ Occurs(x, t) /\ \A y : Occurs(y, s) => Occurs(y, t)
  <1>1. \A y : Occurs(y, Append(s, x)) <=> Occurs(y, s) \/ y = x
    BY OccursIn
  <1> QED
    BY <1>1, AppendHead

\* An entry is through, and a move lists it.
LEMMA EntryDoneQuietly ==
  ASSUME TInv, Now, EntryDone
  PROVE  Now'
  <1>1. /\ pc = "entry" /\ pc' = "read" /\ stack # <<>> /\ job.op # "delete"
        /\ TPlace /\ TWork /\ stack \in Seq(PathFrames) /\ eraseList \in Seq(Seq(Names))
        /\ (job.op # "move" => eraseList = <<>>)
    BY DEF EntryDone, Goto, TInv, TStage, TWork, TCtx, Copying
  <1>2. UNCHANGED <<job, cur, stack, source, target, added>> /\ Top' = Top
    BY DEF EntryDone, work, disk, hist, Top
  <1>3. Smooth /\ Chain /\ Progress /\ Order
    BY <1>1 DEF Now, InCopy, Copying
  <1> DEFINE here == stack[Len(stack)]
             e == here.entry
  <1>4. /\ Here = here /\ here \in PathFrames /\ Len(stack) \in Nat /\ Len(stack) > 0
        /\ Len(stack) \in 1 .. Len(stack) /\ e \in Path /\ e \in Seq(Names)
        /\ here.from \in Seq(Names)
    <2>1. Here = here /\ here \in PathFrames /\ Len(stack) \in Nat /\ Len(stack) > 0
      BY <1>1, HereTypes
    <2>2. Len(stack) \in 1 .. Len(stack)
      BY <2>1
    <2>3. e \in Path /\ here.from \in Path
      BY <2>1 DEF PathFrames
    <2>4. e \in Seq(Names) /\ here.from \in Seq(Names)
      BY <2>3 DEF Path
    <2> QED
      BY <2>1, <2>2, <2>3, <2>4
  <1>5. here.status = "cont"
    BY <1>3, <1>4 DEF Smooth
  <1>6. /\ job.op = "move" => eraseList' = Append(eraseList, e)
        /\ job.op # "move" => eraseList' = <<>>
    BY <1>1, <1>4, <1>5 DEF EntryDone, MayGo
  <1>7. Len(here.from) = Len(stack) /\ Len(e) = Len(stack) + 1 /\ Below(here.from, e)
    BY <1>1, <1>3, <1>4 DEF Chain
  <1> HIDE DEF e, here
  <1>13. job.op = "move" =>
           /\ Len(eraseList) \in Nat /\ Len(eraseList') = Len(eraseList) + 1
           /\ eraseList'[Len(eraseList) + 1] = e
           /\ \A j \in 1 .. Len(eraseList) : eraseList'[j] = eraseList[j]
           /\ Occurs(e, eraseList') /\ \A x : Occurs(x, eraseList) => Occurs(x, eraseList')
    <2> DEFINE T == Seq(Names)
    <2>1. eraseList \in Seq(T) /\ e \in T
      BY <1>1, <1>4
    <2> HIDE DEF T
    <2> QED
      BY <1>6, <2>1, Lengthened
  <1>8. /\ job.op = "move" => Occurs(e, eraseList')
        /\ \A x : Occurs(x, eraseList) => Occurs(x, eraseList')
    BY <1>1, <1>6, <1>13 DEF Occurs
  <1>9. Smooth' /\ Chain'
    BY <1>1, <1>2, <1>3 DEF Smooth, Chain
  <1>10. Progress'
    <2>1. \A q : Settled(q) => Settled(q)'
      BY <1>2, <1>8, SettledStays
    <2> SUFFICES ASSUME NEW i \in 1 .. Len(stack), NEW q \in job.tree, Below(stack[i].from, q)
                 PROVE  Settled(q)' \/ Occurs(q[i + 1], stack[i].todo) \/ UnderWay(i, q)'
      BY <1>2 DEF Progress
    <2>2. Settled(q) \/ Occurs(q[i + 1], stack[i].todo) \/ UnderWay(i, q)
      BY <1>3 DEF Progress
    <2>3. ASSUME UnderWay(i, q), i < Len(stack)
          PROVE  UnderWay(i, q)'
      BY <1>2, <2>3 DEF UnderWay
    <2>4. ASSUME UnderWay(i, q), i = Len(stack)
          PROVE  Settled(q)'
      <3>1. q[i + 1] = e[i + 1] /\ Len(q) = i + 1 /\ Reached(q)
        BY <1>1, <2>4 DEF UnderWay, Calling, here, e
      <3>2. q \in Seq(Names)
        BY <1>1, JobFacts DEF Path
      <3>3. \A k \in 1 .. i + 1 : k \in 1 .. i \/ k = i + 1
        OBVIOUS
      <3>4. \A k \in 1 .. Len(q) : q[k] = e[k]
        BY <1>7, <2>4, <3>1, <3>3 DEF Below, here
      <3>5. q = e
        BY <1>4, <1>7, <2>4, <3>1, <3>2, <3>4, SamePath
      <3>6. Reached(q)'
        BY <1>2, <3>1, ReachedStays
      <3>7. Occurs(q, eraseList)' <=> Occurs(q, eraseList')
        BY DEF Occurs
      <3> QED
        BY <1>2, <1>8, <3>5, <3>6, <3>7 DEF Settled
    <2>5. i < Len(stack) \/ i = Len(stack)
      BY <1>4
    <2> QED
      BY <2>1, <2>2, <2>3, <2>4, <2>5
  <1>11. Order'
    <2>1. CASE job.op # "move"
      BY <1>6, <2>1 DEF Order
    <2>2. CASE job.op = "move"
      <3>1. /\ Len(eraseList) \in Nat /\ Len(eraseList') = Len(eraseList) + 1
            /\ eraseList'[Len(eraseList) + 1] = e
            /\ \A j \in 1 .. Len(eraseList) : eraseList'[j] = eraseList[j]
        BY <1>13, <2>2
      <3>2. \A j \in 1 .. Len(eraseList') : j \in 1 .. Len(eraseList) \/ j = Len(eraseList) + 1
        BY <3>1
      <3>3. ASSUME NEW j \in 1 .. Len(eraseList), NEW m \in 2 .. Len(eraseList[j]) - 1
            PROVE  Later(j, m)' \/ Open(j, m)'
        <4>1. Later(j, m) \/ Open(j, m)
          BY <1>3 DEF Order
        <4>2. ASSUME Later(j, m)
              PROVE  Later(j, m)'
          <5>1. PICK k \in j + 1 .. Len(eraseList) : Cut(eraseList[j], m, eraseList[k])
            BY <4>2 DEF Later
          <5>2. k \in 1 .. Len(eraseList) /\ k \in j + 1 .. Len(eraseList')
            BY <3>1
          <5>3. Cut(eraseList'[j], m, eraseList'[k])
            BY <3>1, <5>1, <5>2
          <5> QED
            BY <5>2, <5>3 DEF Later, Cut
        <4>3. ASSUME m <= Len(stack), Cut(eraseList[j], m, stack[m].from)
              PROVE  Open(j, m)'
          BY <1>2, <3>1, <4>3 DEF Open, Cut
        <4>4. ASSUME Cut(eraseList[j], m, e)
              PROVE  Later(j, m)'
          <5>1. Len(eraseList) + 1 \in j + 1 .. Len(eraseList')
            BY <3>1
          <5>2. Cut(eraseList'[j], m, eraseList'[Len(eraseList) + 1])
            BY <3>1, <4>4
          <5> QED
            BY <5>1, <5>2 DEF Later, Cut
        <4>5. Open(j, m) => \/ m <= Len(stack) /\ Cut(eraseList[j], m, stack[m].from)
                            \/ Cut(eraseList[j], m, e)
          BY DEF Open, e, here
        <4> QED
          BY <4>1, <4>2, <4>3, <4>4, <4>5
      <3>4. ASSUME NEW j, j = Len(eraseList) + 1, NEW m \in 2 .. Len(e) - 1
            PROVE  Open(j, m)'
        <4>1. m \in 1 .. Len(stack) /\ m <= Len(stack)
          BY <1>4, <1>7
        <4>2. Cut(e, m, stack[m].from)
          BY <1>1, <1>3, <4>1, ChainCuts DEF e, here
        <4> QED
          BY <1>2, <3>1, <3>4, <4>1, <4>2 DEF Open
      <3>5. ASSUME NEW j \in 1 .. Len(eraseList'), NEW m \in 2 .. Len(eraseList'[j]) - 1
            PROVE  Later(j, m)' \/ Open(j, m)'
        <4>1. CASE j \in 1 .. Len(eraseList)
          BY <3>1, <3>3, <4>1
        <4>2. CASE j = Len(eraseList) + 1
          <5>1. m \in 2 .. Len(e) - 1
            BY <3>1, <4>2
          <5> QED
            BY <3>4, <4>2, <5>1
        <4> QED
          BY <3>2, <4>1, <4>2
      <3> QED
        BY <3>5 DEF Order
    <2> QED
      BY <2>1, <2>2
  <1>12. InCopy'
    BY <1>1, <1>9, <1>10, <1>11 DEF InCopy, Calling
  <1> QED
    BY <1>1, <1>12 DEF Now, InMove, InWipe, InDone

\* A directory has been read to its end: the call below has its entry.
LEMMA ReadDoneQuietly ==
  ASSUME TInv, GInv, Known, Now, ReadDone
  PROVE  Now'
  <1>1. /\ pc = "read" /\ stack # <<>> /\ job.op # "delete" /\ cur > 0 /\ TPlace /\ TWork /\ TDisk /\ THist
        /\ stack \in Seq(PathFrames)
    BY DEF ReadDone, TInv, TStage, TWork, Copying
  <1>2. UNCHANGED <<job, cur, eraseList, source, target, added>> /\ Top' = Top
    BY DEF ReadDone, ctx, disk, hist, Top
  <1>3. Smooth /\ Chain /\ Progress /\ Order
    BY <1>1 DEF Now, InCopy, Copying
  <1> DEFINE n == Len(stack)
  <1>4. /\ n \in Nat /\ n > 0 /\ n \in 1 .. n /\ Here = stack[n]
        /\ Front(stack) \in Seq(PathFrames) /\ Len(Front(stack)) = n - 1
        /\ \A i \in 1 .. n - 1 : Front(stack)[i] = stack[i]
    BY <1>1, HereTypes
  <1>5. Here.status = "cont"
    BY <1>3, <1>4 DEF Smooth
  <1>6. Here.todo = <<>> /\ Give("cont", Front(stack))
    BY <1>5 DEF ReadDone
  <1>7. /\ stack' \in Seq(PathFrames) /\ Len(stack') = n - 1
        /\ Front(stack) = <<>> => /\ stack' = <<>> /\ val' = "cont"
                                  /\ pc' = IF job.op = "move" THEN "moved" ELSE "done"
        /\ Front(stack) # <<>> => stack' # <<>> /\ pc' = "entry"
        /\ \A i \in 1 .. n - 1 : /\ stack'[i].from = stack[i].from
                                 /\ stack'[i].entry = stack[i].entry
                                 /\ stack'[i].todo = stack[i].todo
                                 /\ stack'[i].status = IF i = n - 1 THEN "cont" ELSE stack[i].status
    <2> DEFINE front == Front(stack)
    <2>1. front \in Seq(PathFrames) /\ Give("cont", front) /\ "cont" \in Statuses /\ Len(front) = n - 1
          /\ \A i \in 1 .. n - 1 : front[i] = stack[i]
      BY <1>4, <1>6, StatusNames
    <2> HIDE DEF front, n
    <2>2. /\ stack' \in Seq(PathFrames) /\ Len(stack') = Len(front)
          /\ front = <<>> => /\ stack' = <<>> /\ val' = "cont"
                             /\ pc' = IF job.op = "move" THEN "moved" ELSE "done"
          /\ front # <<>> => stack' # <<>> /\ pc' = IF job.op = "delete" THEN "wipe" ELSE "entry"
          /\ \A i \in 1 .. Len(front) : /\ stack'[i].from = front[i].from
                                         /\ stack'[i].entry = front[i].entry
      BY <1>1, <2>1, GiveTypes
    <2>3. \A i \in 1 .. Len(front) : /\ stack'[i].todo = front[i].todo
                                      /\ stack'[i].status = IF i = Len(front) THEN "cont" ELSE front[i].status
      BY <1>1, <2>1, GiveFrames
    <2> QED
      BY <1>1, <2>1, <2>2, <2>3 DEF front
  <1>8. \A p : Settled(p) => Settled(p)'
    BY <1>2, SettledStays
  <1>9. ASSUME NEW p \in job.tree, Below(stack[n].from, p)
        PROVE  Settled(p)
    <2>1. Settled(p) \/ Occurs(p[n + 1], stack[n].todo) \/ UnderWay(n, p)
      BY <1>3, <1>4, <1>9 DEF Progress
    <2>2. ~Occurs(p[n + 1], stack[n].todo)
      BY <1>4, <1>6 DEF Occurs
    <2>3. ~UnderWay(n, p)
      BY <1>1, <1>4 DEF UnderWay, Calling
    <2> QED
      BY <2>1, <2>2, <2>3
  <1>10. /\ \A i \in 1 .. n - 1 : i \in 1 .. n /\ i < n
         /\ \A i \in 1 .. n - 1 : i = n - 1 \/ (i < n - 1 /\ i + 1 \in 1 .. n - 1)
         /\ \A i \in 1 .. n - 1 : \A m \in 1 .. i : m \in 1 .. n - 1
    BY <1>4
  <1> HIDE DEF n
  <1>11. CASE n = 1
    <2>1. stack' = <<>> /\ Front(stack) = <<>>
      BY <1>4, <1>7, <1>11, EmptySeq
    <2>2. ASSUME NEW p \in job.tree, p[1] = Top, Len(p) > 1
          PROVE  Settled(p)
      <3>1. Len(stack[1].from) = 1 /\ stack[1].from[1] = Top
        BY <1>3, <1>4, <1>11 DEF Chain, n
      <3>2. Below(stack[1].from, p)
        BY <2>2, <3>1 DEF Below
      <3> QED
        BY <1>9, <1>11, <3>2
    <2>3. Order'
      <3>1. ASSUME NEW j \in 1 .. Len(eraseList), NEW m \in 2 .. Len(eraseList[j]) - 1
            PROVE  ~Open(j, m)
        BY <1>1, <1>11 DEF Open, n
      <3> QED
        BY <1>2, <1>3, <3>1 DEF Order, Later
    <2> QED
      BY <1>1, <1>2, <1>7, <1>8, <2>1, <2>2, <2>3, CopyEnds
  <1>12. CASE n > 1
    <2>1. /\ pc' = "entry" /\ n - 1 \in 1 .. n - 1 /\ n - 1 \in 1 .. n /\ n - 1 < n /\ (n - 1) + 1 = n
          /\ stack[n - 1].entry = stack[n].from
      <3>1. Front(stack) # <<>>
        BY <1>4, <1>12, EmptySeq
      <3>2. n - 1 \in 1 .. n - 1 /\ n - 1 \in 1 .. n /\ n - 1 < n /\ (n - 1) + 1 = n
        BY <1>4, <1>12
      <3> QED
        BY <1>3, <1>7, <3>1, <3>2 DEF Chain, n
    <2>2. Smooth'
      BY <1>3, <1>7, <1>10 DEF Smooth, n
    <2>3. Chain'
      <3> SUFFICES ASSUME NEW i \in 1 .. n - 1
                   PROVE  /\ Len(stack'[i].from) = i /\ stack'[i].from[1] = Top
                          /\ \A m \in 1 .. i : Cut(stack'[i].from, m, stack'[m].from)
                          /\ i < n - 1 => stack'[i].entry = stack'[i + 1].from
                          /\ Len(stack'[i].entry) = i + 1 /\ Below(stack'[i].from, stack'[i].entry)
        BY <1>2, <1>7 DEF Chain
      <3>1. /\ Len(stack[i].from) = i /\ stack[i].from[1] = Top
            /\ \A m \in 1 .. i : Cut(stack[i].from, m, stack[m].from)
            /\ stack[i].entry = stack[i + 1].from
            /\ Len(stack[i].entry) = i + 1 /\ Below(stack[i].from, stack[i].entry)
        BY <1>3, <1>10 DEF Chain, n
      <3>2. /\ stack'[i].from = stack[i].from /\ stack'[i].entry = stack[i].entry
            /\ \A m \in 1 .. i : stack'[m].from = stack[m].from
            /\ i < n - 1 => stack'[i + 1].from = stack[i + 1].from
        BY <1>7, <1>10
      <3> QED
        BY <3>1, <3>2
    <2>4. Progress'
      <3> SUFFICES ASSUME NEW i \in 1 .. n - 1, NEW p \in job.tree, Below(stack[i].from, p)
                   PROVE  Settled(p)' \/ Occurs(p[i + 1], stack[i].todo) \/ UnderWay(i, p)'
        BY <1>2, <1>7 DEF Progress, Occurs
      <3>1. Settled(p) \/ Occurs(p[i + 1], stack[i].todo) \/ UnderWay(i, p)
        BY <1>3, <1>10 DEF Progress, n
      <3>2. ASSUME UnderWay(i, p), i < n - 1
            PROVE  UnderWay(i, p)'
        BY <1>7, <3>2 DEF UnderWay
      <3>3. ASSUME UnderWay(i, p), i = n - 1
            PROVE  Settled(p) \/ UnderWay(i, p)'
        <4>1. p[n] = stack[n].from[n] /\ Len(stack[n].from) = n /\ Len(stack[i].from) = i
              /\ Below(stack[i].from, stack[n].from)
          BY <1>3, <1>4, <2>1, <3>3 DEF UnderWay, Chain, n
        <4>2. p \in Seq(Names) /\ Len(p) \in Nat /\ p \in Path
          BY <1>1, JobFacts DEF Path
        <4>3. \A k \in 1 .. n : k \in 1 .. i \/ k = n
          BY <1>4, <3>3
        <4>4. \A k \in 1 .. n : p[k] = stack[n].from[k]
          BY <4>1, <4>3 DEF Below
        <4>5. Len(p) >= n
          BY <1>4, <3>3, <4>1, <4>2 DEF Below
        <4>6. CASE Len(p) > n
          BY <1>9, <4>1, <4>4, <4>6 DEF Below
        <4>7. CASE Len(p) = n
          <5>1. IsDirectory(stack[i].entry)
            BY <1>1, <1>4, <2>1, <3>3 DEF GInv, Callers, n
          <5>2. Last(p) = Last(stack[i].entry)
            BY <2>1, <3>3, <4>1, <4>7 DEF Last
          <5>3. Last(p) # Copied
            BY NoCopies DEF GInv
          <5>4. Last(p) \in job.dirs
            BY <5>1, <5>2, <5>3 DEF IsDirectory
          <5>5. Reached(p)'
            BY <1>2, <5>4 DEF Reached
          <5>6. Len(p) = i + 1 /\ p[i + 1] = stack'[i].entry[i + 1]
            BY <1>7, <2>1, <3>3, <4>1, <4>7
          <5> QED
            BY <2>1, <5>5, <5>6 DEF UnderWay
        <4> QED
          BY <1>4, <4>2, <4>5, <4>6, <4>7
      <3> QED
        BY <1>8, <1>10, <3>1, <3>2, <3>3
    <2>5. Order'
      <3>1. ASSUME NEW j \in 1 .. Len(eraseList), NEW m \in 2 .. Len(eraseList[j]) - 1, Open(j, m)
            PROVE  Open(j, m)'
        <4>1. m <= n /\ Cut(eraseList[j], m, stack[m].from)
          BY <1>1, <3>1 DEF Open, n
        <4>2. CASE m = n
          <5>1. m = Len(stack') + 1 /\ stack'[Len(stack')].entry = stack[n].from
            BY <1>4, <1>7, <2>1, <4>2
          <5> QED
            BY <1>2, <2>1, <4>1, <4>2, <5>1 DEF Open
        <4>3. CASE m < n
          <5>1. m \in 1 .. n - 1 /\ m <= Len(stack')
            BY <1>4, <1>7, <4>3
          <5> QED
            BY <1>2, <1>7, <4>1, <5>1 DEF Open
        <4> QED
          BY <1>4, <4>1, <4>2, <4>3
      <3> QED
        BY <1>2, <1>3, <3>1 DEF Order, Later
    <2>6. InCopy'
      BY <2>1, <2>2, <2>3, <2>4, <2>5 DEF InCopy, Calling
    <2> QED
      BY <2>1, <2>6 DEF Now, InMove, InWipe, InDone
  <1> QED
    BY <1>4, <1>11, <1>12

\* Where a call that returns leaves the operation.
LEMMA GivePlace ==
  ASSUME NEW status, NEW frames, Give(status, frames)
  PROVE  pc' \in {"moved", "done", "wipe", "entry"}
  BY DEF Give, Goto

LEMMA NoticeGrows ==
  ASSUME NEW o, Notice(o)
  PROVE  asked \subseteq asked' /\ (ignoreAll => ignoreAll')
  BY DEF Notice

\* Below a marked directory, prefix by prefix.
LEMMA UnderTop ==
  ASSUME TPlace, TDisk, cur > 0
  PROVE  \A p \in source : p[1] = Top <=> p \in Under(<<Top>>)
  <1>1. <<Top>> \in Seq(Names) /\ Len(<<Top>>) = 1 /\ <<Top>>[1] = Top
    BY TopFacts DEF Path
  <1> SUFFICES ASSUME NEW p \in source
               PROVE  p[1] = Top <=> IsPrefix(<<Top>>, p)
    BY DEF Under
  <1>2. p \in Seq(Names) /\ (Len(p) = 1 \/ Len(p) > 1)
    BY PathLength DEF TDisk, Path
  <1> DEFINE t == <<Top>>
  <1> HIDE DEF t
  <1>3. t \in Seq(Names) /\ Len(t) = 1 /\ t[1] = Top
    BY <1>1 DEF t
  <1>4. IsPrefix(t, p) <=> Len(t) <= Len(p) /\ \A i \in 1 .. Len(t) : p[i] = t[i]
    BY <1>2, <1>3, PrefixMeans
  <1>5. IsPrefix(t, p) <=> p[1] = Top
    BY <1>2, <1>3, <1>4
  <1> QED
    BY <1>5 DEF t

LEMMA CallingSilent ==
  ASSUME TInv, SInv, StatDir \/ GetFlags \/ CheckCycles \/ MakeDir \/ TargetIsFile \/ OwnDir
  PROVE  SInv'
  <1>1. /\ UNCHANGED <<job, cur, marked, recursive, eraseList, source, confirmed, added>> /\ target \subseteq target'
        /\ pc \in Calling /\ pc \in Copying /\ pc \notin Between
    BY DEF StatDir, GetFlags, CheckCycles, MakeDir, TargetIsFile, OwnDir, ctx, disk, Calling, Copying, Between
  <1>2. TPlace /\ TCtx /\ cur > 0 /\ call \in CallTypes
    BY <1>1, CopyingFacts
  <1>3. asked \subseteq asked' /\ (ignoreAll => ignoreAll')
    <2>1. \A o : Report(o) => asked \subseteq asked' /\ (ignoreAll => ignoreAll')
      BY Reports, NoticeGrows
    <2>2. CASE CheckCycles
      BY <2>2 DEF CheckCycles, ctx
    <2>3. CASE MakeDir
      BY <2>1, <2>3 DEF MakeDir
    <2> QED
      BY <1>1, <2>1, <2>2, <2>3 DEF StatDir, GetFlags, TargetIsFile, OwnDir
  <1>4. pc' \notin Between
    BY GivePlace DEF StatDir, GetFlags, CheckCycles, MakeDir, TargetIsFile, OwnDir, Goto, Between
  <1>5. ASSUME Quiet, Now, Quiet'
        PROVE  Now'
    <2>1. ~ignoreAll /\ call.status = "cont" /\ Known
      BY <1>1, <1>5 DEF Quiet, Calm, Now, InCopy, SInv
    <2>2. ASSUME NEW o, Report(o)
          PROVE  ~o.ask
      BY <1>1, <1>5, <2>2, Reports, QuietReport
    <2>3. \A c \in CallTypes : /\ [c EXCEPT !.status = "cont"].status = "cont"
                               /\ [c EXCEPT !.status = "cont"].from = c.from
      BY DEF CallTypes
    <2>4. CASE StatDir
      <3>1. PICK o \in Attempt("stat", "cont", "ignore_all") :
              /\ Report(o)
              /\ o.ok => /\ call' = [call EXCEPT !.status = o.status] /\ pc' = "flags"
                         /\ UNCHANGED stack
        BY <2>4 DEF StatDir, Goto
      <3>2. o.ok /\ o.status = "cont"
        BY <2>1, <2>2, <3>1, AttemptsQuietly
      <3> QED
        BY <1>1, <1>2, <1>5, <2>3, <3>1, <3>2, CallGoesOnQuietly DEF Calling
    <2>5. CASE GetFlags
      <3>1. PICK o \in Attempt("getflags", call.status, "ignore_all") :
              /\ Report(o)
              /\ o.status # "abort" => /\ call' = [call EXCEPT !.status = o.status] /\ pc' = "cycles"
                                       /\ UNCHANGED stack
        BY <2>5 DEF GetFlags, Goto
      <3>2. o.status = "cont"
        BY <2>1, <2>2, <3>1, AttemptsQuietly
      <3> QED
        BY <1>1, <1>2, <1>5, <2>3, <3>1, <3>2, CallGoesOnQuietly DEF Calling
    <2>6. CASE OwnDir
      <3>1. PICK o \in Attempt("chown", call.status, "ignore_all") :
              /\ Report(o)
              /\ o.ok => /\ call' = [call EXCEPT !.status = o.status] /\ pc' = "opendir"
                         /\ UNCHANGED stack
        BY <2>6 DEF OwnDir, Goto
      <3>2. o.ok /\ o.status = "cont"
        BY <2>1, <2>2, <3>1, AttemptsQuietly
      <3> QED
        BY <1>1, <1>2, <1>5, <2>3, <3>1, <3>2, CallGoesOnQuietly DEF Calling
    <2>7. CASE TargetIsFile
      <3>1. PICK o \in Fails("ignore_all") : Report(o)
        BY <2>7 DEF TargetIsFile
      <3> QED
        BY <2>1, <2>2, <3>1, FailsQuietly
    <2>8. CASE MakeDir
      <3>1. \/ pc' = "own" /\ UNCHANGED <<call, stack>>
            \/ \E o \in Mkdir(TargetOf(call.from)) :
                 /\ Report(o)
                 /\ o.ok => /\ call' = [call EXCEPT !.status = o.status] /\ pc' = "own"
                            /\ UNCHANGED stack
        BY <2>8 DEF MakeDir, Goto, work
      <3>2. CASE pc' = "own" /\ UNCHANGED <<call, stack>>
        BY <1>1, <1>5, <2>1, <3>2, CallGoesOnQuietly DEF Calling
      <3>3. ASSUME NEW o \in Mkdir(TargetOf(call.from)), Report(o),
                   o.ok => /\ call' = [call EXCEPT !.status = o.status] /\ pc' = "own"
                           /\ UNCHANGED stack
            PROVE  Now'
        <4>1. o.ok /\ o.status = "cont"
          BY <2>1, <2>2, <3>3, AttemptsQuietly, FailsQuietly DEF Mkdir
        <4> QED
          BY <1>1, <1>2, <1>5, <2>3, <3>3, <4>1, CallGoesOnQuietly DEF Calling
      <3> QED
        BY <3>1, <3>2, <3>3
    <2>9. CASE CheckCycles
      <3>1. \/ IsCopy(call.from) /\ Give("cont", stack) /\ call' = NoCall
            \/ asked' = asked \cup {Top}
            \/ pc' = "mkdir" /\ UNCHANGED <<stack, call>>
        BY <2>9 DEF CheckCycles, Goto
      <3>2. CASE IsCopy(call.from) /\ Give("cont", stack) /\ call' = NoCall
        <4>1. UNCHANGED target
          BY <2>9 DEF CheckCycles, disk
        <4> QED
          BY <1>1, <1>5, <2>1, <3>2, <4>1, PassesOverCopy DEF IsCopy
      <3>3. CASE asked' = asked \cup {Top}
        BY <1>1, <1>5, <3>3 DEF Quiet, Top
      <3>4. CASE pc' = "mkdir" /\ UNCHANGED <<stack, call>>
        BY <1>1, <1>5, <2>1, <3>4, CallGoesOnQuietly DEF Calling
      <3> QED
        BY <3>1, <3>2, <3>3, <3>4
    <2> QED
      BY <2>4, <2>5, <2>6, <2>7, <2>8, <2>9
  <1> QED
    BY <1>1, <1>2, <1>3, <1>4, <1>5, WithinTop

\* The directory to be merged with has gone: the rename has moved everything.
LEMMA TargetVanishedSilent ==
  ASSUME TInv, GInv, SInv, TargetVanished
  PROVE  SInv'
  <1>1. /\ UNCHANGED <<job, cur, marked, recursive, eraseList, ignoreAll, asked, confirmed, added>>
        /\ pc \in Copying /\ pc \in Calling /\ pc \notin {"read", "entry"} /\ pc \notin Between
        /\ RenameTree(call.from) /\ Give("cont", stack) /\ stack = <<>>
    BY DEF TargetVanished, ctx, hist, Copying, Calling, Between, TopLevel
  <1>2. /\ TPlace /\ TWork /\ TDisk /\ THist /\ cur > 0 /\ job.op # "delete" /\ call.from \in Path
        /\ stack \in Seq(PathFrames)
    BY <1>1, CopyingFacts DEF TInv, TWork
  <1>3. target \subseteq target' /\ source' = source \ Under(call.from)
    BY <1>1 DEF RenameTree
  <1>4. pc' \notin Between
    BY <1>1, GivePlace DEF Between
  <1>5. ASSUME Quiet, Now, Quiet'
        PROVE  Now'
    <2>1. call.from = <<Top>> /\ Order
      BY <1>1, <1>5 DEF Now, InCopy, CallAt
    <2>2. stack' = <<>> /\ val' = "cont" /\ pc' = IF job.op = "move" THEN "moved" ELSE "done"
      BY <1>1, <1>2, GiveTypes, StatusNames
    <2>3. ASSUME NEW p \in job.tree, p[1] = Top
          PROVE  Settled(p)'
      <3>1. p \notin source'
        BY <1>2, <1>3, <2>1, <2>3, UnderTop
      <3>2. GoneForAReason'
        BY GoneStep DEF GInv, Next, Operation, Copy
      <3>3. p \in Files(job.tree \cup added)' \/ Last(p) \in job.dirs
        BY <1>1 DEF Files
      <3>4. confirmed' = {}
        BY <1>1, <1>2 DEF SInv, NoneLetGo
      <3>5. Reached(p)'
        BY <1>1, <3>1, <3>2, <3>3, <3>4 DEF GoneForAReason, Reached
      <3> QED
        BY <3>1, <3>5 DEF Settled
    <2>4. Order'
      <3>1. ASSUME NEW j \in 1 .. Len(eraseList), NEW m \in 2 .. Len(eraseList[j]) - 1
            PROVE  ~Open(j, m)
        BY <1>1 DEF Open, Calling
      <3> QED
        BY <1>1, <2>1, <3>1 DEF Order, Later
    <2> QED
      BY <1>1, <1>2, <1>3, <2>2, <2>3, <2>4, CopyEnds DEF SInv
  <1> QED
    BY <1>1, <1>2, <1>3, <1>4, <1>5, WithinTop

LEMMA OpenDirSilent ==
  ASSUME TInv, SInv, OpenDir
  PROVE  SInv'
  <1>1. /\ UNCHANGED <<job, cur, marked, recursive, eraseList, ignoreAll, asked, source, target, confirmed, added>>
        /\ pc = "opendir" /\ pc \in Copying /\ pc \in Calling /\ pc \notin Between
    BY DEF OpenDir, ctx, disk, hist, Copying, Calling, Between
  <1>2. cur > 0 /\ job.op # "delete"
    BY <1>1, CopyingFacts
  <1>3. pc' \notin Between
    BY <1>2, GivePlace DEF OpenDir, Push, Goto, Between
  <1>4. ASSUME Quiet, Now, Quiet'
        PROVE  Now'
    <2>1. Push(call.from, call.status) \/ MayFail("read")
      BY DEF OpenDir
    <2>2. ~MayFail("read") /\ call.status = "cont"
      BY <1>1, <1>2, <1>4 DEF Quiet, Calm, Now, InCopy
    <2> QED
      BY <1>1, <1>4, <2>1, <2>2, OpensQuietly
  <1> QED
    BY <1>1, <1>2, <1>3, <1>4, WithinTop

LEMMA ReadEntrySilent ==
  ASSUME TInv, SInv, ReadEntry
  PROVE  SInv'
  <1> DEFINE p == Append(Here.from, Head(Here.todo))
             frame == [Here EXCEPT !.todo = Tail(@), !.entry = p]
  <1>1. /\ pc = "read" /\ pc \in Copying /\ pc \notin Between /\ stack # <<>> /\ Here.todo # <<>>
        /\ job.op # "delete" /\ TPlace /\ TWork /\ TCtx /\ cur > 0
    BY DEF ReadEntry, Copying, Between, TInv, TStage
  <1>2. /\ UNCHANGED <<job, cur, marked, recursive, eraseList, source, confirmed, added>> /\ target \subseteq target'
        /\ pc' \in {"enter", "entry"} /\ pc' \notin Between
    BY DEF ReadEntry, Goto, Between
  <1>3. \/ /\ stack' = [stack EXCEPT ![Len(stack)] = frame]
           /\ call' = CallOn(p, FALSE) /\ pc' = "enter" /\ UNCHANGED <<ignoreAll, target, asked>>
        \/ /\ ~IsDirectory(p) /\ pc' = "entry"
           /\ \E o \in CopyResults :
                /\ Report(o)
                /\ target' = IF o.ok THEN target \cup {TargetOf(p)} ELSE target
                /\ stack' = [stack EXCEPT ![Len(stack)] = [frame EXCEPT !.status = o.status]]
    BY DEF ReadEntry, Goto
  <1>4. Here \in PathFrames /\ p \in Path
    BY <1>1, HereTypes, EntryTypes
  <1>5. /\ frame \in PathFrames /\ frame.from = Here.from /\ frame.todo = Tail(Here.todo)
        /\ frame.entry = p /\ frame.status = Here.status
    BY <1>1, <1>4, EntryTypes DEF PathFrames
  <1>6. p = Append(Here.from, Head(Here.todo))
    OBVIOUS
  <1> HIDE DEF p, frame
  <1>7. asked \subseteq asked' /\ (ignoreAll => ignoreAll')
    <2>1. (\E o : Report(o)) \/ UNCHANGED <<ignoreAll, asked>>
      BY <1>3
    <2>2. CASE UNCHANGED <<ignoreAll, asked>>
      BY <2>2
    <2> QED
      BY <2>1, <2>2, Reports, NoticeGrows
  <1>8. ASSUME Quiet, Now, Quiet'
        PROVE  Now'
    <2>1. ~ignoreAll /\ ~MayFail("standing") /\ Here.status = "cont"
      <3>1. Here = stack[Len(stack)] /\ Len(stack) \in 1 .. Len(stack)
        BY <1>1, HereTypes
      <3> QED
        BY <1>1, <1>8, <3>1 DEF Quiet, Calm, Now, InCopy, Smooth
    <2>2. CASE /\ stack' = [stack EXCEPT ![Len(stack)] = frame]
               /\ call' = CallOn(p, FALSE) /\ pc' = "enter" /\ UNCHANGED <<ignoreAll, target, asked>>
      <3>1. call'.from = p /\ call'.status = "cont"
        BY <2>2 DEF CallOn
      <3> QED
        BY <1>1, <1>2, <1>5, <1>6, <1>8, <2>1, <2>2, <3>1, TakesEntry
    <2>3. ASSUME ~IsDirectory(p), pc' = "entry", NEW o \in CopyResults, Report(o),
                 target' = IF o.ok THEN target \cup {TargetOf(p)} ELSE target,
                 stack' = [stack EXCEPT ![Len(stack)] = [frame EXCEPT !.status = o.status]]
          PROVE  Now'
      <3>1. ~o.ask
        BY <1>2, <1>8, <2>3, Reports, QuietReport
      <3>2. o.ok /\ o.status = "cont"
        BY <2>1, <2>3, <3>1, CopiesQuietly
      <3> DEFINE f == [frame EXCEPT !.status = o.status]
      <3>3. /\ f \in PathFrames /\ f.from = Here.from /\ f.todo = Tail(Here.todo) /\ f.entry = p
            /\ f.status = "cont"
        BY <1>5, <3>2, StatusNames DEF PathFrames
      <3>4. stack' = [stack EXCEPT ![Len(stack)] = f] /\ TargetOf(p) \in target'
        BY <2>3, <3>2
      <3> HIDE DEF f
      <3> QED
        BY <1>1, <1>2, <1>6, <1>8, <2>3, <3>3, <3>4, TakesEntry
    <2> QED
      BY <1>3, <2>2, <2>3
  <1> QED
    BY <1>1, <1>2, <1>7, <1>8, WithinTop

LEMMA ReadsOnSilent ==
  ASSUME TInv, GInv, SInv, EntryDone \/ ReadDone
  PROVE  SInv'
  <1>1. /\ UNCHANGED <<job, cur, marked, ignoreAll, recursive, asked, source, target, confirmed, added>>
        /\ pc \in Copying /\ pc \notin Between
    BY DEF EntryDone, ReadDone, ctx, disk, hist, Copying, Between
  <1>2. cur > 0
    BY <1>1, CopyingFacts
  <1>3. pc' \notin Between
    BY GivePlace DEF EntryDone, ReadDone, Goto, Between
  <1>4. Quiet /\ Now /\ Quiet' => Now'
    BY EntryDoneQuietly, ReadDoneQuietly DEF SInv
  <1> QED
    BY <1>1, <1>2, <1>3, <1>4, WithinTop

\* The first call of copy_dir_dir.
LEMMA CallsFirst ==
  ASSUME stack' = <<>>, eraseList' = <<>>, pc' = "enter", NEW over, call' = CallOn(<<Top'>>, over)
  PROVE  Now'
  <1>1. Smooth' /\ Chain' /\ Progress' /\ Order'
    BY DEF Smooth, Chain, Progress, Order
  <1>2. call'.from = <<Top'>> /\ call'.status = "cont"
    BY DEF CallOn
  <1>3. CallAt'
    BY <1>2 DEF CallAt
  <1> QED
    BY <1>1, <1>2, <1>3 DEF Now, InCopy, InMove, InWipe, InDone

LEMMA MoveTopSilent ==
  ASSUME TInv, GInv, SInv, MoveTop
  PROVE  SInv'
  <1>1. /\ pc = "move" /\ pc \notin Between /\ job.op = "move" /\ stack = <<>> /\ cur > 0 /\ eraseList = <<>>
        /\ TPlace /\ TDisk
    BY DEF MoveTop, Between, TInv, TStage, Copying
  <1>2. UNCHANGED <<job, cur, marked, stack, recursive, eraseList, confirmed, added>> /\ pc' \in {"enter", "done"}
    BY DEF MoveTop, Finish, Goto
  <1>3. \/ Report(Outcome(FALSE, "abort", TRUE)) /\ UNCHANGED <<source, target>>
        \/ /\ \E over \in BOOLEAN : call' = CallOn(<<Top>>, over)
           /\ pc' = "enter" /\ UNCHANGED <<ignoreAll, source, target, asked>>
        \/ (\E o \in Refused : Report(o)) /\ UNCHANGED <<source, target>>
        \/ \E o \in Attempt("rename", "cont", "cont") :
             /\ Report(o)
             /\ IF o.ok THEN RenameTree(<<Top>>) /\ val' = "cont" /\ pc' = "done"
                ELSE UNCHANGED <<source, target>>
    BY DEF MoveTop, disk, Finish, Goto
  <1>4. source' \subseteq source /\ target \subseteq target'
    BY <1>3 DEF RenameTree
  <1>5. asked \subseteq asked' /\ (ignoreAll => ignoreAll')
    <2>1. (\E o : Report(o)) \/ UNCHANGED <<ignoreAll, asked>>
      BY <1>3
    <2>2. CASE UNCHANGED <<ignoreAll, asked>>
      BY <2>2
    <2> QED
      BY <2>1, <2>2, Reports, NoticeGrows
  <1>6. pc' \notin Between
    BY <1>2 DEF Between
  <1>7. ASSUME Quiet, Now, Quiet'
        PROVE  Now'
    <2>1. ~ignoreAll /\ Top' = Top
      BY <1>2, <1>7 DEF Quiet, Calm, Top
    <2>2. ASSUME NEW o, Report(o)
          PROVE  ~o.ask
      BY <1>2, <1>7, <2>2, Reports, QuietReport
    <2>3. ~Report(Outcome(FALSE, "abort", TRUE))
      <3>1. Outcome(FALSE, "abort", TRUE).ask
        BY DEF Outcome
      <3> QED
        BY <2>2, <3>1
    <2>4. CASE /\ \E over \in BOOLEAN : call' = CallOn(<<Top>>, over)
               /\ pc' = "enter" /\ UNCHANGED <<ignoreAll, source, target, asked>>
      BY <1>1, <1>2, <2>1, <2>4, CallsFirst
    <2>5. ~(\E o \in Refused : Report(o))
      <3>1. \A o \in Refused : o.ask
        BY <2>1, FailsQuietly DEF Refused, Outcome
      <3> QED
        BY <2>2, <3>1
    <2>6. ASSUME NEW o \in Attempt("rename", "cont", "cont"), Report(o),
                 IF o.ok THEN RenameTree(<<Top>>) /\ val' = "cont" /\ pc' = "done"
                 ELSE UNCHANGED <<source, target>>
          PROVE  Now'
      <3>1. RenameTree(<<Top>>) /\ val' = "cont" /\ pc' = "done"
        BY <2>1, <2>2, <2>6, AttemptsQuietly
      <3>2. source' = source \ Under(<<Top>>)
        BY <3>1 DEF RenameTree
      <3>3. \A p \in source' : p[1] # Top
        BY <1>1, <3>2, UnderTop
      <3>4. GoneForAReason'
        BY GoneStep DEF GInv, Next, Operation, Move
      <3>5. ASSUME NEW p \in job.tree, p[1] = Top
            PROVE  Reached(p)'
        <4>1. p \in Files(job.tree \cup added)' \/ Last(p) \in job.dirs
          BY <1>2 DEF Files
        <4>2. confirmed' = {}
          BY <1>1, <1>2 DEF SInv, NoneLetGo
        <4> QED
          BY <1>2, <3>3, <3>4, <3>5, <4>1, <4>2 DEF GoneForAReason, Reached
      <3>6. Finished(Top)'
        BY <1>2, <2>1, <3>3, <3>5 DEF Finished, FilesArrived, Emptied
      <3> QED
        BY <3>1, <3>6 DEF Now, InCopy, InMove, InWipe, InDone, Copying
    <2> QED
      BY <1>3, <2>3, <2>4, <2>5, <2>6
  <1> QED
    BY <1>1, <1>2, <1>4, <1>5, <1>6, <1>7, WithinTop

\* No call is under way: a directory in the list comes after what is in it.
LEMMA AllLater ==
  ASSUME stack = <<>>, Order
  PROVE  \A j \in 1 .. Len(eraseList) : \A m \in 2 .. Len(eraseList[j]) - 1 : Later(j, m)
  <1>1. ASSUME NEW j \in 1 .. Len(eraseList), NEW m \in 2 .. Len(eraseList[j]) - 1
        PROVE  ~Open(j, m)
    BY DEF Open
  <1> QED
    BY <1>1 DEF Order

LEMMA CopiedTopSilent ==
  ASSUME TInv, SInv, CopiedTop
  PROVE  SInv'
  <1>1. /\ pc = "moved" /\ pc \notin Between /\ job.op = "move" /\ stack = <<>> /\ cur > 0 /\ TPlace
    BY DEF CopiedTop, Between, TInv, TStage
  <1>2. UNCHANGED <<job, cur, marked, stack, recursive, source, target, confirmed, added>> /\ pc' \in {"drain", "done"}
    BY DEF CopiedTop, Goto, disk
  <1>3. \/ val # "cont" /\ UNCHANGED <<ignoreAll, asked>>
        \/ /\ val = "cont"
           /\ \E o \in IF Single THEN {Outcome(TRUE, "cont", FALSE)} ELSE Pressed :
                /\ Report(o) /\ val' = o.status
                /\ o.ok => pc' = "drain" /\ UNCHANGED eraseList
    BY DEF CopiedTop, Goto
  <1>4. asked \subseteq asked' /\ (ignoreAll => ignoreAll')
    <2>1. (\E o : Report(o)) \/ UNCHANGED <<ignoreAll, asked>>
      BY <1>3
    <2>2. CASE UNCHANGED <<ignoreAll, asked>>
      BY <2>2
    <2> QED
      BY <2>1, <2>2, Reports, NoticeGrows
  <1>5. pc' \notin Between
    BY <1>2 DEF Between
  <1>6. ASSUME Quiet, Now, Quiet'
        PROVE  Now'
    <2>1. val = "cont" /\ FilesArrived(Top) /\ Remaining /\ Order /\ Top' = Top
      BY <1>1, <1>2, <1>6 DEF Now, InMove, Top
    <2>2. PICK o \in IF Single THEN {Outcome(TRUE, "cont", FALSE)} ELSE Pressed :
            /\ Report(o) /\ val' = o.status
            /\ o.ok => pc' = "drain" /\ UNCHANGED eraseList
      BY <1>3, <2>1
    <2>3. ~o.ask
      BY <1>2, <1>6, <2>2, Reports, QuietReport
    <2>4. o.ok /\ o.status = "cont"
      <3>1. Outcome(TRUE, "cont", FALSE).ok /\ Outcome(TRUE, "cont", FALSE).status = "cont"
        BY DEF Outcome
      <3> QED
        BY <1>1, <2>2, <2>3, <3>1, PressedQuietly
    <2>5. FilesArrived(Top)'
      BY <1>2, <2>1, ReachedStays
    <2>6. Remaining' /\ Order'
      BY <1>1, <1>2, <2>1, <2>2, <2>4, AllLater DEF Remaining, Order, Later, Hides, Occurs
    <2> QED
      BY <1>2, <2>2, <2>4, <2>5, <2>6 DEF Now, InCopy, InMove, InWipe, InDone, Copying
  <1> QED
    BY <1>1, <1>2, <1>4, <1>5, <1>6, WithinTop

\* What keeps a directory from being removed.
LEMMA Keeper ==
  ASSUME TDisk, NEW p \in Path, ~IsEmpty(p)
  PROVE  \E r \in source : Len(p) < Len(r) /\ \A i \in 1 .. Len(p) : r[i] = p[i]
  <1>1. PICK r \in Under(p) : r # p
    BY DEF IsEmpty
  <1>2. r \in source /\ IsPrefix(p, r)
    BY DEF Under
  <1>3. r \in Seq(Names) /\ p \in Seq(Names) /\ Len(r) \in Nat /\ Len(p) \in Nat
    BY <1>2 DEF TDisk, Path
  <1>4. Len(p) <= Len(r) /\ \A i \in 1 .. Len(p) : r[i] = p[i]
    BY <1>2, <1>3, PrefixMeans
  <1>5. Len(p) # Len(r)
    <2> SUFFICES ASSUME Len(p) = Len(r)
                 PROVE  FALSE
      OBVIOUS
    <2>1. \A i \in 1 .. Len(p) : p[i] = r[i]
      BY <1>4
    <2>2. p = r
      BY <1>3, <2>1, SamePath
    <2> QED
      BY <1>1, <2>2
  <1> QED
    BY <1>2, <1>3, <1>4, <1>5

LEMMA EraseListedSilent ==
  ASSUME TInv, SInv, EraseListed
  PROVE  SInv'
  <1> DEFINE T == Seq(Names)
             p == Head(eraseList)
  <1>1. /\ pc = "drain" /\ pc \notin Between /\ job.op = "move" /\ stack = <<>> /\ cur > 0 /\ eraseList # <<>>
        /\ TPlace /\ TCtx /\ TDisk /\ THist /\ eraseList \in Seq(T)
    BY DEF EraseListed, Between, TInv, TStage, TCtx
  <1>2. /\ UNCHANGED <<job, pc, cur, marked, stack, recursive, target, confirmed, added>>
        /\ eraseList' = Tail(eraseList)
    BY DEF EraseListed
  <1>3. PICK o \in IF IsDirectory(p) THEN EraseIffEmpty(p) ELSE EraseFile(p) :
          Report(o) /\ Erase(p, o) /\ val' = o.status
    BY DEF EraseListed
  <1>4. asked \subseteq asked' /\ (ignoreAll => ignoreAll')
    BY <1>3, Reports, NoticeGrows
  <1> HIDE DEF T
  <1>5. /\ Len(eraseList) \in Nat /\ p \in T /\ p = eraseList[1]
        /\ eraseList' \in Seq(T) /\ Len(eraseList') = Len(eraseList) - 1
        /\ \A j \in 1 .. Len(eraseList) - 1 : eraseList'[j] = eraseList[j + 1]
        /\ \A y : Occurs(y, eraseList) <=> y = p \/ Occurs(y, eraseList')
    BY <1>1, <1>2, AppendHead, OccursIn
  <1>6. source' = IF o.ok THEN source \ {p} ELSE source
    BY <1>3 DEF Erase
  <1> HIDE DEF p
  <1>7. ASSUME Quiet, Now, Quiet'
        PROVE  Now'
    <2>1. val = "cont" /\ FilesArrived(Top) /\ Remaining /\ Order /\ Top' = Top /\ ~ignoreAll
      BY <1>1, <1>2, <1>7 DEF Now, InMove, Top, Quiet, Calm
    <2>2. ~o.ask
      BY <1>2, <1>3, <1>7, Reports, QuietReport
    <2>3. o.status = "cont" /\ (o.ok \/ ~IsEmpty(p))
      BY <1>1, <1>3, <2>1, <2>2, ErasesQuietly, ErasesFileQuietly
    <2>4. \A j \in 1 .. Len(eraseList) : \A m \in 2 .. Len(eraseList[j]) - 1 : Later(j, m)
      BY <1>1, <2>1, AllLater
    <2>5. Order'
      <3> SUFFICES ASSUME NEW j \in 1 .. Len(eraseList'), NEW m \in 2 .. Len(eraseList'[j]) - 1
                   PROVE  Later(j, m)'
        BY DEF Order
      <3>1. j + 1 \in 1 .. Len(eraseList) /\ eraseList'[j] = eraseList[j + 1]
        BY <1>5
      <3>2. PICK k \in (j + 1) + 1 .. Len(eraseList) : Cut(eraseList[j + 1], m, eraseList[k])
        BY <2>4, <3>1 DEF Later
      <3>3. k - 1 \in j + 1 .. Len(eraseList') /\ k - 1 \in 1 .. Len(eraseList) - 1 /\ (k - 1) + 1 = k
        BY <1>5, <3>2
      <3>4. eraseList'[k - 1] = eraseList[k]
        BY <1>5, <3>3
      <3>5. Cut(eraseList'[j], m, eraseList'[k - 1])
        BY <3>1, <3>2, <3>4
      <3> QED
        BY <3>3, <3>5 DEF Later, Cut
    <2>6. Remaining'
      <3> SUFFICES ASSUME NEW q \in source', q[1] = Top, Len(q) > 1
                   PROVE  Occurs(q, eraseList') \/ Hides(q)'
        BY <2>1 DEF Remaining, Occurs
      <3>1. q \in source /\ (Occurs(q, eraseList) \/ Hides(q)) /\ Hides(q)' = Hides(q)
        BY <1>2, <1>6, <2>1 DEF Remaining, Hides
      <3>2. ASSUME q = p
            PROVE  Occurs(q, eraseList') \/ Hides(q)
        <4>1. ~IsEmpty(p) /\ p \in Path
          BY <1>1, <1>6, <2>3, <3>1, <3>2 DEF TDisk
        <4>2. PICK r \in source : Len(p) < Len(r) /\ \A i \in 1 .. Len(p) : r[i] = p[i]
          BY <1>1, <4>1, Keeper
        <4>3. /\ r \in Path /\ Len(r) \in Nat /\ Len(p) \in Nat
              /\ p \in Seq(Names) /\ Len(p) > 1
          BY <1>1, <3>2, <4>1 DEF TDisk, Path
        <4>4. r[1] = Top /\ Len(r) > 1
          BY <3>2, <4>2, <4>3
        <4>5. CASE Hides(r)
          <5>1. Len(p) <= Len(r) /\ added \subseteq Path
            BY <1>1, <4>2, <4>3 DEF THist
          <5>2. Hides(p)
            BY <4>1, <4>2, <4>3, <4>5, <5>1, HidesUp
          <5> QED
            BY <3>2, <5>2
        <4>6. CASE Occurs(r, eraseList)
          <5>1. PICK j \in 1 .. Len(eraseList) : eraseList[j] = r
            BY <4>6 DEF Occurs
          <5>2. Len(p) \in 2 .. Len(eraseList[j]) - 1
            BY <4>2, <4>3, <5>1
          <5>3. PICK k \in j + 1 .. Len(eraseList) : Cut(r, Len(p), eraseList[k])
            BY <2>4, <5>1, <5>2 DEF Later
          <5>4. /\ k \in 1 .. Len(eraseList) /\ k - 1 \in 1 .. Len(eraseList) - 1 /\ (k - 1) + 1 = k
                /\ k - 1 \in 1 .. Len(eraseList')
            BY <1>5, <5>3
          <5>5. eraseList[k] \in Seq(Names)
            BY <1>1, <5>4 DEF T
          <5>6. Len(eraseList[k]) = Len(p) /\ \A i \in 1 .. Len(p) : p[i] = eraseList[k][i]
            BY <4>2, <5>3 DEF Cut
          <5>7. p = eraseList[k]
            BY <4>3, <5>5, <5>6, SamePath
          <5>8. eraseList'[k - 1] = p
            BY <1>5, <5>4, <5>7
          <5> QED
            BY <3>2, <5>4, <5>8 DEF Occurs
        <4> QED
          BY <2>1, <4>4, <4>5, <4>6 DEF Remaining
      <3> QED
        BY <1>5, <3>1, <3>2
    <2>7. FilesArrived(Top)'
      BY <1>2, <2>1, ReachedStays
    <2> QED
      BY <1>1, <1>2, <1>3, <2>3, <2>5, <2>6, <2>7 DEF Now, InCopy, InMove, InWipe, InDone, Copying
  <1> QED
    BY <1>1, <1>2, <1>4, <1>6, <1>7, WithinTop

LEMMA EraseTopSilent ==
  ASSUME TInv, SInv, EraseTop
  PROVE  SInv'
  <1>1. /\ pc = "drain" /\ pc \notin Between /\ job.op = "move" /\ cur > 0
        /\ TPlace /\ TDisk /\ THist /\ (eraseList = <<>> \/ val = "abort")
    BY DEF EraseTop, Between, TInv, TStage
  <1>2. UNCHANGED <<job, cur, marked, val, recursive, target, confirmed, added>> /\ pc' = "done"
    BY DEF EraseTop, Goto, work
  <1>3. PICK o \in EraseIffEmpty(<<Top>>) : Notice(o) /\ Erase(<<Top>>, o)
    BY DEF EraseTop
  <1>4. asked \subseteq asked' /\ (ignoreAll => ignoreAll')
    BY <1>3, NoticeGrows
  <1>5. source' = IF o.ok THEN source \ {<<Top>>} ELSE source
    BY <1>3 DEF Erase
  <1>6. ASSUME Quiet, Now, Quiet'
        PROVE  Now'
    <2>1. val = "cont" /\ FilesArrived(Top) /\ Remaining /\ Top' = Top /\ ~ignoreAll
      BY <1>1, <1>2, <1>6 DEF Now, InMove, Top, Quiet, Calm
    <2>2. o.ok <=> IsEmpty(<<Top>>)
      <3>1. ~o.ask
        BY <1>2, <1>3, <1>6, QuietReport
      <3> QED
        BY <1>1, <1>3, <2>1, <3>1, ErasesQuietly
    <2>3. \A q \in source : q[1] = Top /\ Len(q) > 1 => Hides(q)
      BY <1>1, <2>1 DEF Remaining, Occurs
    <2> DEFINE t == <<Top>>
    <2>4. t \in Path /\ Len(t) = 1 /\ t[1] = Top
      BY <1>1, TopFacts
    <2>5. source' = (IF o.ok THEN source \ {t} ELSE source) /\ (o.ok <=> IsEmpty(t))
      BY <1>5, <2>2
    <2> HIDE DEF t
    <2>6. ASSUME NEW q \in source', q[1] = Top
          PROVE  Hides(q)
      <3>1. q \in source /\ q \in Path /\ (Len(q) = 1 \/ Len(q) > 1)
        BY <1>1, <2>5, PathLength DEF TDisk
      <3>2. CASE Len(q) = 1
        <4>1. q \in Seq(Names) /\ t \in Seq(Names)
          BY <2>4, <3>1 DEF Path
        <4>2. q = t
          BY <2>4, <2>6, <3>2, <4>1, SamePath
        <4>3. ~IsEmpty(t)
          BY <2>5, <2>6, <4>2
        <4>4. PICK r \in source : Len(t) < Len(r) /\ \A i \in 1 .. Len(t) : r[i] = t[i]
          BY <1>1, <2>4, <4>3, Keeper
        <4>5. r \in Path /\ Len(r) \in Nat
          BY <1>1 DEF TDisk, Path
        <4>6. r[1] = Top /\ Len(r) > 1 /\ Len(t) <= Len(r)
          BY <2>4, <4>4, <4>5
        <4>7. Hides(r) /\ added \subseteq Path
          BY <1>1, <2>3, <4>6 DEF THist
        <4>8. Hides(t)
          BY <2>4, <4>4, <4>5, <4>6, <4>7, HidesUp
        <4> QED
          BY <4>2, <4>8
      <3> QED
        BY <2>3, <2>6, <3>1, <3>2
    <2>7. Emptied(Top)'
      BY <1>2, <2>1, <2>6 DEF Emptied, Hides
    <2>8. FilesArrived(Top)'
      BY <1>2, <2>1, ReachedStays
    <2> QED
      BY <1>2, <2>1, <2>7, <2>8 DEF Now, InCopy, InMove, InWipe, InDone, Copying, Finished
  <1> QED
    BY <1>1, <1>2, <1>4, <1>5, <1>6, WithinTop DEF Between

\* A marked directory that was empty has gone.
LEMMA EmptyTopGone ==
  ASSUME TPlace, TDisk, cur > 0, job.op = "delete", IsEmpty(<<Top>>), source' = source \ {<<Top>>},
         UNCHANGED <<job, cur, added>>
  PROVE  Finished(Top)'
  <1>1. Top' = Top
    BY DEF Top
  <1>2. \A p \in source' : p[1] # Top
    <2> SUFFICES ASSUME NEW p \in source', p[1] = Top
                 PROVE  FALSE
      OBVIOUS
    <2>1. p \in Under(<<Top>>)
      BY UnderTop
    <2> QED
      BY <2>1 DEF IsEmpty
  <1> QED
    BY <1>1, <1>2 DEF Finished, Emptied

\* How a deletion ends, or goes on to its next call.
LEMMA DeleteEnds ==
  ASSUME pc' = "done", \/ val' = "cont" /\ Finished(Top)'
                       \/ val' # "cont" /\ KeptSilently'
  PROVE  Now'
  BY DEF Now, InCopy, InMove, InWipe, InDone, Copying

LEMMA WipesOn ==
  ASSUME pc' \in {"wipe_enter", "wipe"}, Unbroken', stack' # <<>> => stack'[1].from = <<Top>>,
         stack' = <<>> => call'.from = <<Top>>, Top' = Top
  PROVE  Now'
  BY DEF Now, InCopy, InMove, InWipe, InDone, Copying

\* The call below goes on after FILE_RETRY; the last one ends the directory.
LEMMA BreaksOff ==
  ASSUME TPlace, TWork, NEW frames \in Seq(PathFrames), Give("retry", frames), job.op = "delete",
         \A i \in 1 .. Len(frames) : frames[i].status \in {"cont", "retry"},
         frames # <<>> => frames[1].from = <<Top>>, Top' = Top, KeptSilently'
  PROVE  Now'
  <1>1. "retry" \in Statuses
    BY StatusNames
  <1>2. /\ Len(stack') = Len(frames)
        /\ frames = <<>> => val' = "retry" /\ pc' = "done"
        /\ frames # <<>> => stack' # <<>> /\ pc' = "wipe"
        /\ \A i \in 1 .. Len(frames) : stack'[i].from = frames[i].from
    BY <1>1, GiveTypes
  <1>3. \A i \in 1 .. Len(frames) : stack'[i].status = IF i = Len(frames) THEN "retry" ELSE frames[i].status
    BY <1>1, GiveFrames
  <1>4. CASE frames = <<>>
    BY <1>2, <1>4, DeleteEnds
  <1>5. CASE frames # <<>>
    <2>1. 1 \in 1 .. Len(frames)
      BY <1>5, EmptySeq
    <2>2. Unbroken'
      BY <1>2, <1>3 DEF Unbroken
    <2> QED
      BY <1>2, <1>5, <2>1, <2>2, WipesOn
  <1> QED
    BY <1>4, <1>5

\* A directory is opened to be emptied.
LEMMA OpensOn ==
  ASSUME TPlace, TWork, TDisk, stack \in Seq(PathFrames), call \in CallTypes, call.from # <<>>,
         job.op = "delete",
         Push(call.from, "cont"), Unbroken, stack # <<>> => stack[1].from = <<Top>>,
         stack = <<>> => call.from = <<Top>>, Top' = Top
  PROVE  Now'
  <1>1. call.from \in Path
    BY DEF CallTypes, Path
  <1> DEFINE n == Len(stack)
             q == call.from
  <1>2. /\ stack' # <<>> /\ Len(stack') = n + 1 /\ pc' = "wipe"
        /\ \A i \in 1 .. n : stack'[i] = stack[i]
        /\ stack'[n + 1].from = q /\ stack'[n + 1].status = "cont"
    BY <1>1, PushTypes, StatusNames
  <1>3. n \in Nat /\ (n = 0 <=> stack = <<>>) /\ \A i \in 1 .. n + 1 : i \in 1 .. n \/ i = n + 1
    BY EmptySeq
  <1>4. \A i \in 1 .. n : stack[i].status \in {"cont", "retry"}
    BY DEF Unbroken
  <1>5. stack = <<>> => q = <<Top>>
    OBVIOUS
  <1> HIDE DEF n, q
  <1>6. \A i \in 1 .. n + 1 : stack'[i].status \in {"cont", "retry"}
    BY <1>2, <1>3, <1>4
  <1>7. Unbroken'
    BY <1>2, <1>6 DEF Unbroken
  <1>8. stack'[1].from = <<Top>>
    <2>1. CASE n = 0
      BY <1>2, <1>3, <1>5, <2>1
    <2>2. CASE n # 0
      <3>1. 1 \in 1 .. n
        BY <1>3, <2>2
      <3> QED
        BY <1>2, <1>3, <2>2, <3>1
    <2> QED
      BY <2>1, <2>2
  <1> QED
    BY <1>2, <1>7, <1>8, WipesOn

LEMMA DeleteTopSilent ==
  ASSUME TInv, SInv, DeleteTop
  PROVE  SInv'
  <1>1. /\ pc = "delete" /\ pc \notin Between /\ cur > 0 /\ job.op = "delete" /\ TPlace /\ TDisk
    BY DEF DeleteTop, Between, TInv, TStage
  <1>2. UNCHANGED <<job, cur, marked, recursive, target, confirmed, added>> /\ pc' \in {"done", "query"}
    BY DEF DeleteTop, Finish, Goto
  <1>3. \/ /\ IsEmpty(<<Top>>)
           /\ \E o \in EraseIffEmpty(<<Top>>) :
                Report(o) /\ Erase(<<Top>>, o) /\ val' = o.status /\ pc' = "done"
        \/ /\ \E o \in EraseIffEmpty(<<Top>>) : o.status # "cont" /\ Report(o)
           /\ UNCHANGED source
        \/ pc' = "query" /\ UNCHANGED <<source, ignoreAll, asked>>
    BY DEF DeleteTop, Finish, Goto
  <1>4. asked \subseteq asked' /\ (ignoreAll => ignoreAll')
    <2>1. (\E o : Report(o)) \/ UNCHANGED <<ignoreAll, asked>>
      BY <1>3
    <2>2. CASE UNCHANGED <<ignoreAll, asked>>
      BY <2>2
    <2> QED
      BY <2>1, <2>2, Reports, NoticeGrows
  <1>5. source' \subseteq source
    BY <1>3 DEF Erase
  <1>6. ASSUME Quiet, Now, Quiet'
        PROVE  Now'
    <2>1. ~ignoreAll
      BY <1>6 DEF Quiet, Calm
    <2>2. ASSUME NEW o, Report(o)
          PROVE  ~o.ask
      BY <1>2, <1>6, <2>2, Reports, QuietReport
    <2>3. ASSUME IsEmpty(<<Top>>), NEW o \in EraseIffEmpty(<<Top>>), Report(o), Erase(<<Top>>, o),
                 val' = o.status, pc' = "done"
          PROVE  Now'
      <3>1. o.ok /\ o.status = "cont"
        BY <1>1, <2>1, <2>2, <2>3, ErasesQuietly
      <3>2. source' = source \ {<<Top>>}
        BY <2>3, <3>1 DEF Erase
      <3>3. Finished(Top)'
        BY <1>1, <1>2, <2>3, <3>2, EmptyTopGone
      <3> QED
        BY <2>3, <3>1, <3>3, DeleteEnds
    <2>4. ASSUME NEW o \in EraseIffEmpty(<<Top>>), o.status # "cont", Report(o)
          PROVE  FALSE
      BY <1>1, <2>1, <2>2, <2>4, ErasesQuietly
    <2>5. CASE pc' = "query"
      BY <2>5 DEF Now, InCopy, InMove, InWipe, InDone, Copying
    <2> QED
      BY <1>3, <2>3, <2>4, <2>5
  <1> QED
    BY <1>1, <1>2, <1>4, <1>5, <1>6, WithinTop DEF Between

LEMMA QueryRecursiveAsks ==
  ASSUME QueryRecursive
  PROVE  asked \subseteq asked'
  BY DEF QueryRecursive

LEMMA QueryRecursiveSilent ==
  ASSUME TInv, SInv, QueryRecursive
  PROVE  SInv'
  <1>1. pc = "query" /\ pc \notin Between /\ cur > 0 /\ job.op = "delete" /\ stack = <<>>
    BY DEF QueryRecursive, Between, TInv, TStage
  <1>2. UNCHANGED <<job, cur, marked, stack, ignoreAll, source, target, added>>
    BY DEF QueryRecursive, disk
  <1>3. \/ call' = CallOn(<<Top>>, FALSE) /\ pc' = "wipe_enter" /\ UNCHANGED asked
        \/ /\ pc' = "done" /\ val' # "cont"
           /\ asked' = asked \cup {Top} \/ recursive = "none"
    BY DEF QueryRecursive, Goto, Finish
  <1>4. recursive = "none" => recursive' = "none"
    BY DEF QueryRecursive, AsksAgain
  <1>5. ASSUME Quiet, Now, Quiet'
        PROVE  Now'
    <2>1. Top' = Top
      BY <1>2 DEF Top
    <2>2. CASE call' = CallOn(<<Top>>, FALSE) /\ pc' = "wipe_enter"
      <3>1. call'.from = <<Top>> /\ Unbroken'
        BY <1>1, <1>2, <2>2 DEF CallOn, Unbroken
      <3> QED
        BY <1>1, <1>2, <2>1, <2>2, <3>1, WipesOn
    <2>3. CASE pc' = "done" /\ val' # "cont" /\ recursive = "none"
      <3>1. KeptSilently'
        BY <1>1, <1>2, <1>4, <2>3 DEF KeptSilently
      <3> QED
        BY <2>3, <3>1, DeleteEnds
    <2> QED
      BY <1>3, <1>5, <2>1, <2>2, <2>3 DEF Quiet
  <1>6. asked \subseteq asked' /\ (ignoreAll => ignoreAll') /\ pc' \notin Between
    BY <1>2, <1>3, QueryRecursiveAsks DEF Between
  <1> QED
    BY <1>1, <1>2, <1>4, <1>5, <1>6, WithinTop

LEMMA WipeEnterSilent ==
  ASSUME TInv, SInv, WipeEnter
  PROVE  SInv'
  <1>1. /\ pc = "wipe_enter" /\ pc \notin Between /\ cur > 0 /\ job.op = "delete" /\ call.from # <<>>
        /\ TPlace /\ TWork /\ TDisk /\ stack \in Seq(PathFrames) /\ call \in CallTypes
    BY DEF WipeEnter, Between, TInv, TStage, TWork
  <1>2. UNCHANGED <<job, cur, marked, ignoreAll, recursive, source, target, asked, confirmed, added>>
    BY DEF WipeEnter, ctx, disk, hist
  <1>3. Push(call.from, "cont") \/ (MayFail("read") /\ Give("retry", stack))
    BY DEF WipeEnter
  <1>4. asked \subseteq asked' /\ (ignoreAll => ignoreAll')
    BY <1>2
  <1>5. pc' \notin Between
    BY <1>1, <1>3, GivePlace DEF Push, Goto, Between
  <1>6. ASSUME Quiet, Now, Quiet'
        PROVE  Now'
    <2>1. Top' = Top
      BY <1>2 DEF Top
    <2>2. /\ Unbroken /\ (stack # <<>> => stack[1].from = <<Top>>)
          /\ (stack = <<>> => call.from = <<Top>>)
      BY <1>1, <1>6 DEF Now, InWipe
    <2>3. CASE Push(call.from, "cont")
      BY <1>1, <2>1, <2>2, <2>3, OpensOn
    <2>4. CASE MayFail("read") /\ Give("retry", stack)
      <3>1. KeptSilently'
        BY <1>1, <1>2, <2>4 DEF KeptSilently, MayFail
      <3> QED
        BY <1>1, <2>1, <2>2, <2>4, <3>1, BreaksOff DEF Unbroken
    <2> QED
      BY <1>3, <2>3, <2>4
  <1> QED
    BY <1>1, <1>2, <1>4, <1>5, <1>6, WithinTop

LEMMA WipeEntrySilent ==
  ASSUME TInv, SInv, WipeEntry
  PROVE  SInv'
  <1> DEFINE p == Append(Here.from, Head(Here.todo))
             frame == [Here EXCEPT !.todo = Tail(@), !.entry = p]
  <1>1. /\ pc = "wipe" /\ pc \notin Between /\ stack # <<>> /\ Here.todo # <<>> /\ job.op = "delete"
        /\ TPlace /\ TWork /\ TCtx /\ TDisk /\ cur > 0 /\ stack \in Seq(PathFrames)
    BY DEF WipeEntry, Between, TInv, TStage, TWork
  <1>2. UNCHANGED <<job, cur, marked, recursive, target, confirmed, added>>
    BY DEF WipeEntry
  <1>3. \/ /\ MayFail("lstat") /\ Give("retry", Front(stack)) /\ UNCHANGED <<ignoreAll, source, asked>>
        \/ /\ stack' = [stack EXCEPT ![Len(stack)] = frame] /\ pc' = "wipe_enter"
           /\ UNCHANGED <<ignoreAll, source, asked>>
        \/ /\ \E o \in EraseFile(p) :
                /\ Report(o) /\ Erase(p, o)
                /\ stack' = [stack EXCEPT ![Len(stack)] = [frame EXCEPT !.status = o.status]]
           /\ UNCHANGED pc
    BY DEF WipeEntry, Goto
  <1>4. Here \in PathFrames /\ frame \in PathFrames
    BY <1>1, HereTypes, EntryTypes
  <1>5. frame.from = Here.from /\ frame.status = Here.status
    BY <1>4 DEF PathFrames
  <1> HIDE DEF p, frame
  <1>6. asked \subseteq asked' /\ (ignoreAll => ignoreAll') /\ source' \subseteq source
    <2>1. CASE UNCHANGED ignoreAll /\ UNCHANGED source /\ asked \subseteq asked'
      BY <2>1
    <2>2. ASSUME NEW o, Report(o), Erase(p, o)
          PROVE  asked \subseteq asked' /\ (ignoreAll => ignoreAll') /\ source' \subseteq source
      BY <1>1, <2>2, Reports, NoticeGrows, EraseTypes
    <2>3. \/ UNCHANGED ignoreAll /\ UNCHANGED source /\ asked \subseteq asked'
          \/ \E o : Report(o) /\ Erase(p, o)
      BY <1>3
    <2> QED
      BY <2>1, <2>2, <2>3
  <1>7. pc' \notin Between
    <2>1. Give("retry", Front(stack)) \/ pc' \in {"wipe_enter", "wipe"}
      BY <1>1, <1>3
    <2> QED
      BY <2>1, GivePlace DEF Between
  <1>8. ASSUME Quiet, Now, Quiet'
        PROVE  Now'
    <2>1. ~ignoreAll /\ Top' = Top /\ stack[1].from = <<Top>>
          /\ \A i \in 1 .. Len(stack) : stack[i].status \in {"cont", "retry"}
      BY <1>1, <1>2, <1>8 DEF Quiet, Calm, Top, Now, InWipe, Unbroken
    <2> DEFINE n == Len(stack)
    <2>2. /\ n \in Nat /\ n > 0 /\ n \in 1 .. n /\ Here = stack[n]
          /\ Front(stack) \in Seq(PathFrames) /\ Len(Front(stack)) = n - 1
          /\ \A i \in 1 .. n - 1 : Front(stack)[i] = stack[i]
      BY <1>1, HereTypes
    <2>3. CASE MayFail("lstat") /\ Give("retry", Front(stack))
      <3>1. KeptSilently'
        BY <1>1, <1>2, <2>3 DEF KeptSilently, MayFail
      <3> DEFINE front == Front(stack)
      <3>2. front # <<>> => 1 \in 1 .. n - 1
        BY <2>2, EmptySeq
      <3>3. \A i \in 1 .. n - 1 : i \in 1 .. n
        BY <2>2
      <3>4. Give("retry", front) /\ front \in Seq(PathFrames) /\ Len(front) = n - 1
            /\ \A i \in 1 .. n - 1 : front[i] = stack[i]
        BY <2>2, <2>3
      <3> HIDE DEF front, n
      <3>5. \A i \in 1 .. Len(front) : front[i].status \in {"cont", "retry"}
        BY <2>1, <3>3, <3>4 DEF n
      <3>6. front # <<>> => front[1].from = <<Top>>
        BY <2>1, <3>2, <3>4
      <3> QED
        BY <1>1, <2>1, <3>1, <3>4, <3>5, <3>6, BreaksOff
    <2>4. ASSUME NEW f \in PathFrames, stack' = [stack EXCEPT ![n] = f], pc' \in {"wipe_enter", "wipe"},
                 f.from = Here.from, f.status \in {"cont", "retry"}
          PROVE  Now'
      <3>1. /\ stack' # <<>> /\ Len(stack') = n
            /\ stack'[n] = f /\ \A i \in 1 .. n - 1 : stack'[i] = stack[i]
        BY <1>1, <2>4, TopExchanged
      <3>2. \A i \in 1 .. n : stack[i].status \in {"cont", "retry"}
        BY <2>1
      <3> HIDE DEF n
      <3>3. 1 \in 1 .. n /\ \A i \in 1 .. n : i = n \/ (i \in 1 .. n - 1 /\ i \in 1 .. n)
        BY <2>2
      <3>4. \A i \in 1 .. n : stack'[i].status \in {"cont", "retry"} /\ stack'[i].from = stack[i].from
        BY <2>2, <2>4, <3>1, <3>2, <3>3
      <3>5. Unbroken' /\ stack'[1].from = <<Top>>
        BY <2>1, <3>1, <3>3, <3>4 DEF Unbroken
      <3> QED
        BY <2>1, <2>4, <3>1, <3>5, WipesOn
    <2>5. CASE stack' = [stack EXCEPT ![n] = frame] /\ pc' = "wipe_enter"
      BY <1>4, <1>5, <2>1, <2>2, <2>4, <2>5
    <2>6. ASSUME NEW o \in EraseFile(p), Report(o),
                 stack' = [stack EXCEPT ![n] = [frame EXCEPT !.status = o.status]], UNCHANGED pc
          PROVE  Now'
      <3>1. ~o.ask
        BY <1>2, <1>8, <2>6, Reports, QuietReport
      <3>2. o.status = "cont"
        BY <1>1, <2>1, <2>6, <3>1, ErasesFileQuietly
      <3> DEFINE f == [frame EXCEPT !.status = o.status]
      <3>3. f \in PathFrames /\ f.from = Here.from /\ f.status = "cont"
        BY <1>4, <1>5, <3>2, StatusNames DEF PathFrames
      <3>4. stack' = [stack EXCEPT ![n] = f] /\ pc' \in {"wipe_enter", "wipe"}
        BY <1>1, <2>6
      <3> HIDE DEF f
      <3> QED
        BY <2>4, <3>3, <3>4
    <2> QED
      BY <1>3, <2>3, <2>5, <2>6
  <1> QED
    BY <1>1, <1>2, <1>6, <1>7, <1>8, WithinTop

LEMMA WipeDoneSilent ==
  ASSUME TInv, SInv, WipeDone
  PROVE  SInv'
  <1>1. /\ pc = "wipe" /\ pc \notin Between /\ stack # <<>> /\ job.op = "delete"
        /\ TPlace /\ TWork /\ TDisk /\ cur > 0 /\ stack \in Seq(PathFrames)
    BY DEF WipeDone, Between, TInv, TStage, TWork
  <1>2. UNCHANGED <<job, cur, marked, recursive, target, confirmed, added>>
    BY DEF WipeDone
  <1>3. \/ Here.status = "abort" /\ Give("abort", Front(stack)) /\ UNCHANGED <<ignoreAll, source, asked>>
        \/ \E o \in {b \in Pressed : b.status = "abort"} \cup RemoveDir(Here.from) :
             Report(o) /\ Erase(Here.from, o) /\ Give(o.status, Front(stack))
    BY DEF WipeDone
  <1>4. asked \subseteq asked' /\ (ignoreAll => ignoreAll') /\ source' \subseteq source /\ pc' \notin Between
    <2>1. CASE Give("abort", Front(stack)) /\ UNCHANGED <<ignoreAll, source, asked>>
      BY <2>1, GivePlace DEF Between
    <2>2. ASSUME NEW o, Report(o), Erase(Here.from, o), Give(o.status, Front(stack))
          PROVE  /\ asked \subseteq asked' /\ (ignoreAll => ignoreAll') /\ source' \subseteq source
                 /\ pc' \notin Between
      BY <1>1, <2>2, Reports, NoticeGrows, EraseTypes, GivePlace DEF Between
    <2> QED
      BY <1>3, <2>1, <2>2
  <1>5. ASSUME Quiet, Now, Quiet'
        PROVE  Now'
    <2> DEFINE n == Len(stack)
               front == Front(stack)
    <2>1. ~ignoreAll /\ Top' = Top /\ Unbroken /\ stack[1].from = <<Top>>
      BY <1>1, <1>2, <1>5 DEF Quiet, Calm, Top, Now, InWipe
    <2>2. /\ n \in Nat /\ n > 0 /\ n \in 1 .. n /\ Here = stack[n] /\ Here \in PathFrames
          /\ front \in Seq(PathFrames) /\ Len(front) = n - 1
          /\ \A i \in 1 .. n - 1 : front[i] = stack[i]
      BY <1>1, HereTypes
    <2>3. Here.status # "abort"
      BY <2>1, <2>2 DEF Unbroken
    <2>4. PICK o \in {b \in Pressed : b.status = "abort"} \cup RemoveDir(Here.from) :
             Report(o) /\ Erase(Here.from, o) /\ Give(o.status, Front(stack))
      BY <1>3, <2>3
    <2>5. o.ok /\ o.status = "cont" /\ IsEmpty(Here.from)
      <3>1. ~o.ask
        BY <1>2, <1>5, <2>4, Reports, QuietReport
      <3> QED
        BY <1>1, <2>1, <2>4, <3>1, PressedQuietly, RemovesQuietly
    <2>6. Give("cont", front) /\ source' = source \ {Here.from} /\ "cont" \in Statuses
      BY <2>4, <2>5, StatusNames DEF Erase
    <2>7. \A i \in 1 .. n : stack[i].status \in {"cont", "retry"}
      BY <2>1 DEF Unbroken
    <2> HIDE DEF n, front
    <2>8. /\ Len(stack') = n - 1
          /\ front = <<>> => stack' = <<>> /\ val' = "cont" /\ pc' = "done"
          /\ front # <<>> => stack' # <<>> /\ pc' = "wipe"
          /\ \A i \in 1 .. n - 1 : stack'[i].from = stack[i].from
      <3>1. /\ Len(stack') = Len(front)
            /\ front = <<>> => /\ stack' = <<>> /\ val' = "cont"
                               /\ pc' = IF job.op = "move" THEN "moved" ELSE "done"
            /\ front # <<>> => stack' # <<>> /\ pc' = IF job.op = "delete" THEN "wipe" ELSE "entry"
            /\ \A i \in 1 .. Len(front) : stack'[i].from = front[i].from
        BY <1>1, <2>2, <2>6, GiveTypes
      <3> QED
        BY <1>1, <2>2, <3>1
    <2>9. \A i \in 1 .. n - 1 : stack'[i].status \in {"cont", "retry"}
      <3>1. \A i \in 1 .. Len(front) : stack'[i].status = IF i = Len(front) THEN "cont" ELSE front[i].status
        BY <1>1, <2>2, <2>6, GiveFrames
      <3>2. \A i \in 1 .. n - 1 : i \in 1 .. n
        BY <2>2
      <3> QED
        BY <2>2, <2>7, <3>1, <3>2
    <2>10. CASE n = 1
      <3>1. front = <<>>
        BY <2>2, <2>10, EmptySeq
      <3>2. Here.from = <<Top>>
        BY <2>1, <2>2, <2>10
      <3>3. Finished(Top)'
        BY <1>1, <1>2, <2>5, <2>6, <3>2, EmptyTopGone
      <3> QED
        BY <2>8, <3>1, <3>3, DeleteEnds
    <2>11. CASE n > 1
      <3>1. 1 \in 1 .. n - 1 /\ front # <<>>
        BY <2>2, <2>11, EmptySeq
      <3>2. Unbroken' /\ stack'[1].from = <<Top>>
        BY <2>1, <2>8, <2>9, <3>1 DEF Unbroken
      <3> QED
        BY <2>1, <2>8, <3>1, <3>2, WipesOn
    <2> QED
      BY <2>2, <2>10, <2>11
  <1> QED
    BY <1>1, <1>2, <1>4, <1>5, WithinTop

LEMMA NextTopSilent ==
  ASSUME TInv, SInv, NextTop
  PROVE  SInv'
  <1>1. /\ pc = "next" /\ pc \in Between /\ stack = <<>> /\ eraseList = <<>> /\ cur \in Nat
        /\ job.op \in {"copy", "move", "delete"}
    BY JobFacts DEF NextTop, TInv, TStage, TPlace, Copying, Between
  <1>2. /\ UNCHANGED <<job, marked, stack, ignoreAll, recursive, eraseList, source, target, asked, confirmed, added>>
        /\ cur' = cur + 1
        /\ job.op = "copy" => call' = CallOn(<<job.tops[cur']>>, FALSE)
        /\ pc' = IF job.op = "copy" THEN "enter" ELSE job.op
    BY DEF NextTop, ctx, disk, hist, Goto
  <1>3. Known' /\ NoneLetGo'
    BY <1>2 DEF SInv, Known, NoneLetGo
  <1>4. pc' \notin Between
    BY <1>1, <1>2 DEF Between
  <1>5. Past'
    <2>1. \A t : Finished(t) => Finished(t)'
      BY <1>2, FinishedStays
    <2>2. Calm' => Calm
      BY <1>2 DEF Calm, MayFail
    <2>3. KeptSilently => KeptSilently'
      BY <1>2 DEF KeptSilently, MayFail
    <2>4. \A i \in 1 .. cur' : i < cur' => i \in 1 .. cur
      BY <1>1, <1>2
    <2> QED
      BY <1>1, <1>2, <1>4, <2>1, <2>2, <2>3, <2>4 DEF SInv, Past
  <1>6. Now'
    <2>1. CASE job.op = "copy"
      <3>1. call' = CallOn(<<Top'>>, FALSE)
        BY <1>2, <2>1 DEF Top
      <3> QED
        BY <1>1, <1>2, <2>1, <3>1, CallsFirst
    <2>2. CASE pc' \in {"move", "delete"}
      BY <2>2 DEF Now, InCopy, InMove, InWipe, InDone, Copying
    <2> QED
      BY <1>1, <1>2, <2>1, <2>2
  <1> QED
    BY <1>3, <1>5, <1>6 DEF SInv

LEMMA TopDoneSilent ==
  ASSUME TInv, SInv, TopDone
  PROVE  SInv'
  <1>1. pc = "done" /\ pc \notin Between /\ cur > 0 /\ cur \in Nat
    BY JobFacts DEF TopDone, Between, TInv, TStage, TPlace
  <1>2. /\ UNCHANGED <<job, cur, ignoreAll, recursive, source, target, asked, confirmed, added>>
        /\ marked' = (IF val = "cont" THEN marked \ {Top} ELSE marked) /\ pc' \in Between
    BY DEF TopDone, work, disk, hist, Goto, Between
  <1>3. Known' /\ NoneLetGo'
    BY <1>2 DEF SInv, Known, NoneLetGo
  <1>4. ASSUME Calm'
        PROVE  /\ \A i \in 1 .. cur : job.tops[i] \notin asked
                    => job.tops[i] \notin marked' \/ KeptSilently'
               /\ \A t \in ToSet(job.tops) : t \notin marked' /\ t \notin asked => Finished(t)'
    <2>1. \A t : Finished(t) => Finished(t)'
      BY <1>2, FinishedStays
    <2>2. Calm
      BY <1>2, <1>4 DEF Calm, MayFail
    <2>3. KeptSilently <=> KeptSilently'
      BY <1>2 DEF KeptSilently, MayFail
    <2>4. Top \notin asked => (val = "cont" /\ Finished(Top)) \/ (val # "cont" /\ KeptSilently)
      BY <1>1, <2>2 DEF SInv, Quiet, Now, InDone
    <2>5. ASSUME NEW i \in 1 .. cur, job.tops[i] \notin asked
          PROVE  job.tops[i] \notin marked' \/ KeptSilently'
      <3>1. CASE i < cur
        BY <1>2, <2>2, <2>3, <2>5, <3>1 DEF SInv, Past
      <3>2. CASE i = cur
        BY <1>2, <2>3, <2>4, <2>5, <3>2 DEF Top
      <3> QED
        BY <1>1, <3>1, <3>2
    <2>6. ASSUME NEW t \in ToSet(job.tops), t \notin marked', t \notin asked
          PROVE  Finished(t)'
      <3>1. CASE t \notin marked
        BY <2>1, <2>2, <2>6, <3>1 DEF SInv, Past
      <3>2. CASE t \in marked
        BY <1>2, <2>1, <2>4, <2>6, <3>2
      <3> QED
        BY <3>1, <3>2
    <2> QED
      BY <2>5, <2>6
  <1>5. Past'
    BY <1>2, <1>4 DEF Past
  <1> QED
    BY <1>2, <1>3, <1>5 DEF SInv

\* What a call still has to look at only grows.
LEMMA TodoAdded ==
  ASSUME TWork, NEW d,
         stack' \in {stack} \cup {[stack EXCEPT ![i].todo = Append(@, Late)] :
                                    i \in {i \in DOMAIN stack : stack[i].from = d}}
  PROVE  \A i \in 1 .. Len(stack) : \A x : Occurs(x, stack[i].todo) => Occurs(x, stack'[i].todo)
  <1>1. stack \in Seq(PathFrames) /\ DOMAIN stack = 1 .. Len(stack)
    BY DEF TWork
  <1>2. ASSUME NEW i \in 1 .. Len(stack), NEW t, t = [stack EXCEPT ![i].todo = Append(@, Late)],
               NEW j \in 1 .. Len(stack), NEW x, Occurs(x, stack[j].todo)
        PROVE  Occurs(x, t[j].todo)
    <2> DEFINE todo == stack[i].todo
               f == [stack[i] EXCEPT !.todo = Append(todo, Late)]
    <2>1. stack[i] \in PathFrames
      BY <1>1
    <2>2. todo \in Seq(Names) /\ f.todo = Append(todo, Late)
      BY <2>1 DEF PathFrames
    <2>3. t = [stack EXCEPT ![i] = f]
      BY <1>2
    <2> HIDE DEF f
    <2>4. t[j] = IF j = i THEN f ELSE stack[j]
      BY <1>1, <2>3
    <2> HIDE DEF todo
    <2>5. Occurs(x, todo) => Occurs(x, Append(todo, Late))
      BY <2>2, NamesAssumption, OccursIn
    <2>6. CASE j = i
      BY <1>2, <2>2, <2>4, <2>5, <2>6 DEF todo
    <2>7. CASE j # i
      BY <1>2, <2>4, <2>7
    <2> QED
      BY <2>6, <2>7
  <1> QED
    BY <1>1, <1>2

LEMMA AnotherAddsSilent ==
  ASSUME TInv, SInv, AnotherAdds
  PROVE  SInv'
  <1>1. /\ UNCHANGED <<job, pc, cur, marked, call, val, ignoreAll, recursive, eraseList, target, asked, confirmed>>
        /\ added = {} /\ source' = source \cup added'
    BY DEF AnotherAdds, ctx
  <1>2. PICK d \in source :
          /\ added' = {Append(d, Late)}
          /\ stack' \in {stack} \cup {[stack EXCEPT ![i].todo = Append(@, Late)] :
                                        i \in {i \in DOMAIN stack : stack[i].from = d}}
    BY DEF AnotherAdds
  <1>3. TWork /\ stack \in Seq(PathFrames) /\ Len(stack) \in Nat
    BY DEF TInv, TWork
  <1>4. /\ Len(stack') = Len(stack) /\ (stack' = <<>> <=> stack = <<>>)
        /\ \A i \in 1 .. Len(stack) : /\ stack'[i].from = stack[i].from
                                      /\ stack'[i].entry = stack[i].entry
                                      /\ stack'[i].status = stack[i].status
    BY <1>2, <1>3, StackAdded
  <1>5. \A i \in 1 .. Len(stack) : \A x : Occurs(x, stack[i].todo) => Occurs(x, stack'[i].todo)
    BY <1>2, <1>3, TodoAdded
  <1>6. \A p : ~Hides(p)
    BY <1>1 DEF Hides
  <1>7. \A p \in added' : Hides(p)'
    <2>1. Append(d, Late) \in Path
      BY <1>2, PathOf, NamesAssumption DEF Path, TInv, TDisk
    <2> DEFINE q == Append(d, Late)
    <2> HIDE DEF q
    <2>2. q \in Seq(Names) /\ Len(q) \in Nat /\ added' = {q}
      BY <1>2, <2>1 DEF Path, q
    <2>3. IsPrefix(q, q)
      BY <2>2, PrefixMeans
    <2> QED
      BY <2>2, <2>3 DEF Hides
  <1>8. Top' = Top
    BY <1>1 DEF Top
  <1>9. \A p : Reached(p) => Reached(p)'
    BY <1>1, ReachedStays
  <1>10. \A t : Finished(t) => Finished(t)'
    <2> SUFFICES ASSUME NEW t, Finished(t)
                 PROVE  Finished(t)'
      OBVIOUS
    <2>1. FilesArrived(t) => FilesArrived(t)'
      BY <1>1, ReachedStays
    <2>2. ASSUME Emptied(t), NEW p \in source', p[1] = t
          PROVE  Hides(p)'
      <3>1. p \notin source
        BY <1>6, <2>2 DEF Emptied
      <3> QED
        BY <1>1, <1>7, <3>1
    <2> QED
      BY <1>1, <2>1, <2>2 DEF Finished, Emptied
  <1>11. Known' /\ NoneLetGo'
    BY <1>1 DEF SInv, Known, NoneLetGo
  <1>12. Past'
    <2>1. Calm' => Calm
      BY <1>1 DEF Calm, MayFail
    <2>2. KeptSilently => KeptSilently'
      BY <1>1 DEF KeptSilently, MayFail
    <2> QED
      BY <1>1, <1>10, <2>1, <2>2 DEF SInv, Past
  <1>13. ASSUME Order
         PROVE  Order'
    <2>1. \A j, m : Later(j, m) => Later(j, m)'
      BY <1>1 DEF Later
    <2>2. ASSUME NEW j \in 1 .. Len(eraseList), NEW m \in 2 .. Len(eraseList[j]) - 1, Open(j, m)
          PROVE  Open(j, m)'
      <3>1. CASE m <= Len(stack) /\ Cut(eraseList[j], m, stack[m].from)
        <4>1. m \in 1 .. Len(stack)
          BY <1>3, <3>1
        <4> QED
          BY <1>1, <1>4, <3>1, <4>1 DEF Open
      <3>2. CASE m = Len(stack) + 1 /\ pc = "entry" /\ Cut(eraseList[j], m, stack[Len(stack)].entry)
        <4>1. Len(stack) \in 1 .. Len(stack)
          BY <1>3, <3>2
        <4> QED
          BY <1>1, <1>4, <3>2, <4>1 DEF Open
      <3> QED
        BY <2>2, <3>1, <3>2 DEF Open
    <2> QED
      BY <1>1, <1>13, <2>1, <2>2 DEF Order
  <1>14. ASSUME Now, cur > 0
         PROVE  Now'
    <2>1. ASSUME NEW p \in job.tree, Settled(p)
          PROVE  Settled(p)'
      <3>1. Reached(p)'
        BY <1>9, <2>1 DEF Settled
      <3>2. ASSUME job.op = "move"
            PROVE  p \notin source' \/ Occurs(p, eraseList) \/ Hides(p)'
        BY <1>1, <1>6, <1>7, <2>1, <3>2 DEF Settled
      <3>3. Occurs(p, eraseList) <=> Occurs(p, eraseList)'
        BY <1>1 DEF Occurs
      <3> QED
        BY <1>1, <3>1, <3>2, <3>3 DEF Settled
    <2>2. (Smooth => Smooth') /\ (Unbroken => Unbroken')
      BY <1>4 DEF Smooth, Unbroken
    <2>3. Chain => Chain'
      <3> SUFFICES ASSUME Chain, NEW i \in 1 .. Len(stack)
                   PROVE  /\ Len(stack'[i].from) = i /\ stack'[i].from[1] = Top
                          /\ \A m \in 1 .. i : Cut(stack'[i].from, m, stack'[m].from)
                          /\ i < Len(stack) => stack'[i].entry = stack'[i + 1].from
                          /\ i < Len(stack) \/ pc # "read"
                               => Len(stack'[i].entry) = i + 1 /\ Below(stack'[i].from, stack'[i].entry)
        BY <1>1, <1>4, <1>8 DEF Chain
      <3>1. /\ Len(stack[i].from) = i /\ stack[i].from[1] = Top
            /\ \A m \in 1 .. i : Cut(stack[i].from, m, stack[m].from)
            /\ i < Len(stack) => stack[i].entry = stack[i + 1].from
            /\ i < Len(stack) \/ pc # "read"
                 => Len(stack[i].entry) = i + 1 /\ Below(stack[i].from, stack[i].entry)
        BY DEF Chain
      <3>2. (\A m \in 1 .. i : m \in 1 .. Len(stack)) /\ (i < Len(stack) => i + 1 \in 1 .. Len(stack))
        BY <1>3
      <3>3. /\ stack'[i].from = stack[i].from /\ stack'[i].entry = stack[i].entry
            /\ \A m \in 1 .. i : stack'[m].from = stack[m].from
            /\ i < Len(stack) => stack'[i + 1].from = stack[i + 1].from
        BY <1>4, <3>2
      <3> QED
        BY <3>1, <3>3
    <2>4. Progress => Progress'
      <3> SUFFICES ASSUME Progress, NEW i \in 1 .. Len(stack), NEW p \in job.tree, Below(stack[i].from, p)
                   PROVE  Settled(p)' \/ Occurs(p[i + 1], stack'[i].todo) \/ UnderWay(i, p)'
        BY <1>1, <1>4 DEF Progress, Occurs
      <3>1. Settled(p) \/ Occurs(p[i + 1], stack[i].todo) \/ UnderWay(i, p)
        BY DEF Progress
      <3>2. UnderWay(i, p) => UnderWay(i, p)'
        BY <1>1, <1>4, <1>9 DEF UnderWay
      <3> QED
        BY <1>5, <2>1, <3>1, <3>2
    <2>5. CallAt => CallAt'
      <3>1. stack # <<>> => Len(stack) \in 1 .. Len(stack)
        BY <1>3, EmptySeq
      <3> QED
        BY <1>1, <1>4, <1>8, <3>1 DEF CallAt
    <2>6. InCopy'
      BY <1>1, <1>13, <1>14, <2>2, <2>3, <2>4, <2>5 DEF Now, InCopy
    <2>7. Remaining => Remaining'
      <3> SUFFICES ASSUME Remaining, NEW p \in source', p[1] = Top, Len(p) > 1
                   PROVE  Occurs(p, eraseList) \/ Hides(p)'
        BY <1>1, <1>8 DEF Remaining, Occurs
      <3>1. CASE p \in source
        BY <1>6, <3>1 DEF Remaining
      <3>2. CASE p \in added'
        BY <1>7, <3>2
      <3> QED
        BY <1>1, <3>1, <3>2
    <2>8. FilesArrived(Top) => FilesArrived(Top)'
      <3>1. \A t : FilesArrived(t) => FilesArrived(t)'
        BY <1>1, ReachedStays
      <3> QED
        BY <1>8, <3>1
    <2>9. InMove'
      BY <1>1, <1>13, <1>14, <2>7, <2>8 DEF Now, InMove
    <2>10. InWipe'
      <3>1. stack # <<>> => 1 \in 1 .. Len(stack)
        BY <1>3, EmptySeq
      <3> QED
        BY <1>1, <1>4, <1>8, <1>14, <2>2, <3>1 DEF Now, InWipe
    <2>11. InDone'
      BY <1>1, <1>8, <1>10, <1>14 DEF Now, InDone, KeptSilently, MayFail
    <2> QED
      BY <2>6, <2>9, <2>10, <2>11 DEF Now
  <1>15. Quiet' => Quiet
    BY <1>1, <1>8 DEF Quiet, Calm, MayFail
  <1> QED
    BY <1>1, <1>11, <1>12, <1>14, <1>15 DEF SInv

LEMMA SilentStep ==
  ASSUME TInv, GInv, SInv, [Next]_vars
  PROVE  SInv'
  <1>1. CASE UNCHANGED vars
    BY <1>1 DEF SInv, Known, NoneLetGo, Past, Quiet, Calm, MayFail, Top, Now, InCopy, InMove, InWipe, InDone,
       Smooth, Unbroken, KeptSilently, Chain, Progress, Order, CallAt, Settled, Reached, TargetOf, Dived, Hides, Occurs, UnderWay,
       Later, Open, Remaining, Finished, FilesArrived, Emptied, vars, work, ctx, disk, hist
  <1>2. CASE Copy
    BY <1>2, CallingSilent, TargetVanishedSilent, OpenDirSilent, ReadEntrySilent, ReadsOnSilent DEF Copy
  <1>3. CASE Move
    BY <1>3, MoveTopSilent, CopiedTopSilent, EraseListedSilent, EraseTopSilent DEF Move
  <1>4. CASE Delete
    BY <1>4, DeleteTopSilent, QueryRecursiveSilent, WipeEnterSilent, WipeEntrySilent, WipeDoneSilent
       DEF Delete
  <1> QED
    BY <1>1, <1>2, <1>3, <1>4, NextTopSilent, TopDoneSilent, AnotherAddsSilent DEF Next, Operation

LEMMA InitSilent ==
  ASSUME Init
  PROVE  SInv
  BY DEF Init, SInv, Known, NoneLetGo, Past

\* Nothing has happened that the user does not know of.
LEMMA SilentEnd ==
  ASSUME TInv, SInv
  PROVE  SilenceMeansDone
  <1> SUFFICES ASSUME pc = "end", ~ignoreAll, ~MayFail("standing"), ~(MayFail("read") /\ job.op # "delete"),
                      NEW t \in ToSet(SubSeq(job.tops, 1, cur)), t \notin asked
               PROVE  \/ t \in marked /\ KeptSilently
                      \/ /\ t \notin marked
                         /\ job.op # "delete" => \A p \in Files(job.tree) : p[1] = t => TargetOf(p) \in target
                         /\ job.op # "copy" => \A p \in source : p[1] = t => \E q \in added : IsPrefix(p, q)
    BY DEF SilenceMeansDone
  <1>1. job.tops \in Seq(Names) /\ cur \in 0 .. Len(job.tops) /\ Len(job.tops) \in Nat
    BY JobFacts DEF TInv, TPlace
  <1> DEFINE s == SubSeq(job.tops, 1, cur)
  <1>2. s \in Seq(Names) /\ Len(s) = cur /\ \A i \in 1 .. cur : s[i] = job.tops[i]
    BY <1>1
  <1>3. PICK i \in DOMAIN s : t = s[i]
    BY DEF ToSet
  <1> HIDE DEF s
  <1>4. i \in 1 .. cur /\ t = job.tops[i]
    BY <1>2, <1>3
  <1>5. t \in ToSet(job.tops) /\ 1 .. cur \subseteq DOMAIN job.tops
    BY <1>1, <1>4 DEF ToSet
  <1>6. (t \in marked /\ KeptSilently) \/ (t \notin marked /\ Finished(t))
    BY <1>4, <1>5 DEF SInv, Past, Calm, Between
  <1> QED
    BY <1>6 DEF Finished, FilesArrived, Emptied, Reached, Hides, Files

-----------------------------------------------------------------------------
(* The theorems *)

LEMMA TypesInvariant == Spec => []TInv
  <1>1. TInv /\ [Next]_vars => TInv'
    BY TypesStep
  <1> QED
    BY InitTypes, <1>1, PTL DEF Spec

\* Whatever the tree, the answers and the failures: every call, value and list is
\* of its type, and the erase list is empty between two marked directories.
THEOREM TypeCorrect == Spec => []TypeOK
  <1>1. ASSUME TInv
        PROVE  TypeOK
    <2>1. stack \in Seq(Frames)
      <3>1. stack \in Seq(PathFrames) /\ \A f \in PathFrames : f \in Frames
        BY <1>1 DEF TInv, TWork, PathFrames, Frames, Path
      <3> QED
        BY <3>1
    <2>2. source \subseteq Seq(Names) /\ target \subseteq Seq(Names) /\ added \subseteq Seq(Names)
      BY <1>1 DEF TInv, TDisk, THist, Path
    <2>3. pc = "next" => eraseList = <<>>
      BY <1>1 DEF TInv, TStage, Copying
    <2>4. job \in Jobs /\ pc \in Labels /\ cur \in 0 .. Len(job.tops) /\ marked \subseteq ToSet(job.tops)
      BY <1>1 DEF TInv, TPlace
    <2>5. Len(stack) <= MaxDepth /\ call \in CallTypes /\ val \in Statuses
      BY <1>1 DEF TInv, TWork
    <2>6. /\ ignoreAll \in BOOLEAN /\ recursive \in {"yes", "no", "all", "none", "abort"}
          /\ eraseList \in Seq(Seq(Names)) /\ destDirs \subseteq target
      BY <1>1 DEF TInv, TCtx
    <2>7. asked \subseteq ToSet(job.tops) /\ aborted \in BOOLEAN /\ confirmed \subseteq ToSet(job.tops)
      BY <1>1 DEF TInv, THist
    <2> QED
      BY <2>1, <2>2, <2>3, <2>4, <2>5, <2>6, <2>7 DEF TypeOK, Labels, CallTypes
  <1> QED
    BY <1>1, TypesInvariant, PTL

\* Whatever fails, is skipped, ignored or aborted, and whatever another program
\* creates: a file has left the source only because its content is in the target,
\* or because the user agreed to delete its directory with all it contains.
THEOREM NothingIsLost == Spec => []GoneForAReason
  <1>1. TInv /\ GInv /\ [Next]_vars => GInv'
    BY GoneStep
  <1>2. GInv => GoneForAReason
    BY DEF GInv
  <1> QED
    BY TypesInvariant, InitGone, <1>1, <1>2, PTL DEF Spec

\* After Abort no file is removed or created and no other marked directory is
\* begun, however deep in the tree the answer was given.
THEOREM AbortIsHeeded == Spec => AbortSticks
  <1>1. Init => Leaving
    BY DEF Init, Leaving
  <1>2. TInv /\ Leaving /\ [Next]_vars => Leaving'
    BY LeavingStep
  <1>3. Spec => []Leaving
    BY TypesInvariant, <1>1, <1>2, PTL DEF Spec
  <1>4. TInv /\ Leaving /\ [Next]_vars
        => [aborted => Files(source) \subseteq source' /\ target' = target /\ cur' = cur]_vars
    BY NothingAfterAbort
  <1> QED
    BY TypesInvariant, <1>3, <1>4, PTL DEF Spec, AbortSticks

\* Where the user was told nothing about a marked directory it has been done: its mark
\* is gone, each of its files is in the target, and nothing that was in it is left where
\* it was moved or deleted.  Or its mark is still there and it was to be deleted: the
\* calls of recursive_erase that return FILE_RETRY without a word, or an earlier None.
THEOREM SilenceIsSuccess == Spec => []SilenceMeansDone
  <1>1. TInv /\ GInv /\ [Next]_vars => GInv'
    BY GoneStep
  <1>2. TInv /\ GInv /\ SInv /\ [Next]_vars => SInv'
    BY SilentStep
  <1>3. TInv /\ SInv => SilenceMeansDone
    BY SilentEnd
  <1> QED
    BY TypesInvariant, InitGone, InitSilent, <1>1, <1>2, <1>3, PTL DEF Spec
=============================================================================
