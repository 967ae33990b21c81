------------------------- MODULE Background_proofs -------------------------
(***************************************************************************)
(* Proofs about the jobs in the background: the parent never mixes up two  *)
(* calls, whatever dies, is stopped or killed between their parts, and the *)
(* whole keeps the promise of RemoteCall.                                  *)
(***************************************************************************)
EXTENDS Background, SequenceTheorems, WellFoundedInduction, TLAPS

FrameType == [who : 0 .. N, pc : Pcs, sel : SUBSET Jobs, ans : Answers \cup {"none"}]
Lives == {"unborn", "busy", "asking", "waiting", "ending", "zombie", "reaped"}
Waits == {"ask", "notice", "list"}            \* a dialog waits for the user
Engaged == {"parts", "call", "ask", "reply"}  \* a call has begun to arrive
Dead(j) == child[j] \in {"ending", "zombie", "reaped"}

-----------------------------------------------------------------------------
(* The invariant *)

TPlace ==
  /\ world \in Worlds /\ mc \in {"up", "gone"}
  /\ tasks \subseteq Jobs /\ channels \subseteq tasks
  /\ ctxPid \in [Jobs -> 0 .. N] /\ pressed \in 0 .. MaxPress /\ listed \subseteq Jobs
  /\ stopped \subseteq Jobs /\ killed \subseteq Jobs
TStack == stack \in Seq(FrameType)
TJobs ==
  /\ child \in [Jobs -> Lives] /\ call \in [Jobs -> Kinds \cup {"end"}] /\ calls \in [Jobs -> Nat]
  /\ status \in [Jobs -> {"ok", "bad"}] /\ got \in [Jobs -> Answers \cup {"none"}]
TPipes ==
  /\ left \in [Jobs -> Seq(AllParts)] /\ up \in [Jobs -> Seq(AllParts)]
  /\ down \in [Jobs -> Seq(Answers \cup {"none"})]

\* Only the innermost call runs; those below it are dialogs.
Nested ==
  /\ mc = "gone" => stack = <<>>
  /\ \A i \in DOMAIN stack : stack[i].who = 0 <=> stack[i].pc = "list"
  /\ \A i \in 1 .. Len(stack) - 1 : stack[i].pc \in Waits

\* A job that has made its calls says good-bye.
Counted(j) ==
  \/ calls[j] <= world.calls
  \/ calls[j] = world.calls + 1 /\ child[j] \notin {"unborn", "busy"} /\ (Alive(j) => call[j] = "end")

\* The context holds the pid of its own job or none.
OwnPid == \A j \in Jobs : ctxPid[j] \in {0, j}

\* What is in the pipe and what is not written yet are the rest of one call.
Rest(a, b, p) ==
  /\ Len(a) + Len(b) <= Len(p)
  /\ \A i \in 1 .. Len(a) : a[i] = p[Len(p) - Len(b) - Len(a) + i]
  /\ \A i \in 1 .. Len(b) : b[i] = p[Len(p) - Len(b) + i]
Sent(j) ==
  /\ Rest(up[j], left[j], Parts(call[j]))
  /\ child[j] = "waiting" => left[j] = <<>>
  /\ child[j] \in {"unborn", "busy"} => left[j] = <<>> /\ up[j] = <<>>

\* An answer is in the pipe only while the job waits for it, and then its call has
\* been read.
JobOK(j) ==
  /\ child[j] = "asking" => left[j] # <<>>
  /\ Len(down[j]) <= 1
  /\ down[j] # <<>> => child[j] = "waiting" \/ Dead(j)
  /\ down[j] # <<>> /\ call[j] = "end" /\ child[j] = "waiting" => down[j][1] = "none"
  /\ child[j] \in {"asking", "waiting"} => got[j] = "none"
  /\ ~Dead(j) => status[j] = "ok"
  /\ mc = "up" /\ down[j] # <<>> /\ Alive(j) => up[j] = <<>>

\* The job of a call that has arrived waits for its answer, or is dead.
FrameOK(f) ==
  /\ f.pc \in {"routine", "parts", "call", "ask"} => f.ans = "none"
  /\ f.pc = "parts" /\ Alive(f.who) => child[f.who] \in {"asking", "waiting"} /\ down[f.who] = <<>>
  /\ f.pc \in {"call", "ask", "reply"} =>
       /\ up[f.who] = <<>> /\ (child[f.who] = "waiting" \/ Dead(f.who))
       /\ child[f.who] = "waiting" => down[f.who] = <<>>
  /\ f.pc = "call" /\ call[f.who] = "end" => ctxPid[f.who] = f.who
  /\ f.pc = "ask" => call[f.who] # "end"
  /\ f.pc = "reply" /\ call[f.who] = "end" => f.ans = "none" /\ f.who \notin tasks

\* A job has one call on the stack.
OneCall ==
  \A i, k \in DOMAIN stack :
    stack[i].who = stack[k].who /\ stack[i].pc \in Engaged /\ stack[k].pc \in Engaged => i = k

\* A job that has said good-bye, or is not started, is in no list and no call.
Away(j) ==
  child[j] = "unborn" \/ (Dead(j) /\ status[j] = "ok") \/ (child[j] = "waiting" /\ call[j] = "end" /\ down[j] # <<>>)
Parted(j) ==
  mc = "up" /\ Away(j) => j \notin tasks /\ \A i \in DOMAIN stack : stack[i].who = j => stack[i].pc = "notice"

\* A job that runs and has not said good-bye is watched, until it is killed.
Watched(j) ==
  mc = "up" /\ j \notin killed /\ Alive(j) /\ ~(call[j] = "end" /\ child[j] = "waiting") => j \in channels

CountedAll == \A j \in Jobs : Counted(j)
SentAll == mc = "up" => \A j \in Jobs : Sent(j)
JobsOK == \A j \in Jobs : JobOK(j)
FramesOK == \A i \in DOMAIN stack : FrameOK(stack[i])
PartedAll == \A j \in Jobs : Parted(j)
WatchedAll == \A j \in Jobs : Watched(j)

Inv == /\ TPlace /\ TStack /\ TJobs /\ TPipes /\ Nested /\ CountedAll /\ OwnPid /\ SentAll /\ JobsOK
       /\ FramesOK /\ OneCall /\ PartedAll /\ WatchedAll /\ OrderlyEnds

-----------------------------------------------------------------------------
(* Parts, frames and what is served *)

LEMMA HasMax == ASSUME NEW S \in SUBSET Jobs, S # {} PROVE Max(S) \in S
<1> DEFINE T == {N - x : x \in S}
<1>1. T \subseteq Nat /\ T # {} BY BoundsAssumption DEF Jobs
<1>2. PICK m \in T : \A y \in T : ~ (<<y, m>> \in OpToRel(<, Nat))
  BY ONLY <1>1, NatLessThanWellFounded, WFMin
<1>3. \A y \in T : ~ (y < m) BY <1>1, <1>2 DEF OpToRel
<1>4. PICK x \in S : m = N - x BY <1>2
<1>5. \A y \in S : x >= y BY <1>3, <1>4, BoundsAssumption DEF Jobs
<1> QED BY <1>5 DEF Max

LEMMA JobsAreNumbers == Jobs \subseteq 0 .. N /\ 0 \notin Jobs /\ 0 \in 0 .. N
BY BoundsAssumption DEF Jobs

\* No part comes twice in a call.
LEMMA PartsFacts ==
  ASSUME NEW k \in Kinds \cup {"end"}
  PROVE  /\ Parts(k) \in Seq(AllParts) /\ Len(Parts(k)) \in 3 .. 4
         /\ \A i \in 1 .. Len(Parts(k)) : Parts(k)[i] = Last(Parts(k)) => i = Len(Parts(k))
<1>1. CASE k = "query"
  <2>1. Parts(k) = <<"routine", "head", "ctx", "args">> BY <1>1 DEF Parts
  <2> QED BY <2>1 DEF AllParts, Last
<1>2. CASE k = "message"
  <2>1. Parts(k) = <<"routine", "head", "args">> BY <1>2 DEF Parts
  <2> QED BY <2>1 DEF AllParts, Last
<1>3. CASE k = "error"
  <2>1. Parts(k) = <<"routine", "head", "ctx", "short">> BY <1>3 DEF Parts
  <2> QED BY <2>1 DEF AllParts, Last
<1>4. CASE k = "end"
  <2>1. Parts(k) = <<"routine", "head", "ctx">> BY <1>4 DEF Parts
  <2> QED BY <2>1 DEF AllParts, Last
<1> QED BY <1>1, <1>2, <1>3, <1>4 DEF Kinds

LEMMA RestBegins == ASSUME NEW p \in Seq(AllParts) PROVE Rest(<<>>, p, p)
BY DEF Rest

LEMMA RestWritten ==
  ASSUME NEW a \in Seq(AllParts), NEW b \in Seq(AllParts), NEW p \in Seq(AllParts), Rest(a, b, p), b # <<>>
  PROVE  /\ Append(a, Head(b)) \in Seq(AllParts) /\ Tail(b) \in Seq(AllParts)
         /\ Rest(Append(a, Head(b)), Tail(b), p)
<1> DEFINE c == Append(a, Head(b))  d == Tail(b)
<1>1. Len(b) >= 1 /\ Head(b) = b[1] /\ b[1] \in AllParts BY EmptySeq
<1>2. /\ c \in Seq(AllParts) /\ d \in Seq(AllParts) /\ Len(c) = Len(a) + 1 /\ Len(d) = Len(b) - 1
      /\ c[Len(a) + 1] = b[1] /\ \A i \in 1 .. Len(a) : c[i] = a[i]
      /\ \A i \in 1 .. Len(b) - 1 : d[i] = b[i + 1]
  BY <1>1
<1> HIDE DEF c, d
<1>3. ASSUME NEW i \in 1 .. Len(c) PROVE c[i] = p[Len(p) - Len(d) - Len(c) + i]
  <2>1. Len(p) - Len(d) - Len(c) + i = Len(p) - Len(b) - Len(a) + i BY <1>2
  <2>2. CASE i \in 1 .. Len(a)
    <3>1. a[i] = p[Len(p) - Len(b) - Len(a) + i] BY <2>2 DEF Rest
    <3> QED BY <1>2, <2>1, <2>2, <3>1
  <2>3. CASE i = Len(a) + 1
    <3>1. b[1] = p[Len(p) - Len(b) + 1] BY <1>1 DEF Rest
    <3>2. Len(p) - Len(b) - Len(a) + i = Len(p) - Len(b) + 1 BY <2>3
    <3> QED BY <1>2, <2>1, <2>3, <3>1, <3>2
  <2> QED BY <1>2, <2>2, <2>3
<1>4. \A i \in 1 .. Len(d) : d[i] = p[Len(p) - Len(d) + i] BY <1>1, <1>2 DEF Rest
<1>5. Len(c) + Len(d) <= Len(p) BY <1>1, <1>2 DEF Rest
<1> QED BY <1>2, <1>3, <1>4, <1>5 DEF Rest, c, d

LEMMA RestRead ==
  ASSUME NEW a \in Seq(AllParts), NEW b \in Seq(AllParts), NEW p \in Seq(AllParts), Rest(a, b, p), a # <<>>
  PROVE  /\ Tail(a) \in Seq(AllParts) /\ Rest(Tail(a), b, p)
         /\ (\A i \in 1 .. Len(p) : p[i] = Last(p) => i = Len(p)) /\ Head(a) = Last(p) =>
              Tail(a) = <<>> /\ b = <<>>
<1> DEFINE c == Tail(a)
<1>1. Len(a) >= 1 /\ Head(a) = a[1] BY EmptySeq
<1>2. c \in Seq(AllParts) /\ Len(c) = Len(a) - 1 /\ \A i \in 1 .. Len(a) - 1 : c[i] = a[i + 1] BY <1>1
<1> HIDE DEF c
<1>3. \A i \in 1 .. Len(c) : c[i] = p[Len(p) - Len(b) - Len(c) + i] BY <1>1, <1>2 DEF Rest
<1>4. Rest(c, b, p) BY <1>1, <1>2, <1>3 DEF Rest
<1>5. ASSUME \A i \in 1 .. Len(p) : p[i] = Last(p) => i = Len(p), Head(a) = Last(p)
      PROVE  c = <<>> /\ b = <<>>
  <2>1. a[1] = p[Len(p) - Len(b) - Len(a) + 1] BY <1>1 DEF Rest
  <2>2. Len(p) - Len(b) - Len(a) + 1 \in 1 .. Len(p) BY <1>1 DEF Rest
  <2>3. Len(p) - Len(b) - Len(a) + 1 = Len(p) BY <1>1, <1>5, <2>1, <2>2
  <2>4. Len(c) = 0 /\ Len(b) = 0 BY <1>1, <1>2, <2>3
  <2> QED BY <1>2, <2>4, EmptySeq
<1> QED BY <1>2, <1>4, <1>5 DEF c

\* The event loop serves nobody, or one of those it watches.
LEMMA ServeIs ==
  ASSUME NEW s, NEW set \in SUBSET Jobs
  PROVE  \/ Serve(s, set) = s
         \/ \E j \in set \cap channels' : Serve(s, set) = Append(s, Frame(j, "routine", set \ {j}, "none"))
<1>1. CASE set \cap channels' = {} BY <1>1 DEF Serve
<1>2. CASE set \cap channels' # {}
  <2>1. Max(set \cap channels') \in set \cap channels' BY <1>2, HasMax
  <2> QED BY <1>2, <2>1 DEF Serve
<1> QED BY <1>1, <1>2

LEMMA FrameTyped ==
  ASSUME NEW j \in 0 .. N, NEW p \in Pcs, NEW set \in SUBSET Jobs, NEW a \in Answers \cup {"none"}
  PROVE  /\ Frame(j, p, set, a) \in FrameType
         /\ Frame(j, p, set, a).who = j /\ Frame(j, p, set, a).pc = p
         /\ Frame(j, p, set, a).sel = set /\ Frame(j, p, set, a).ans = a
BY DEF Frame, FrameType

LEMMA TopIs ==
  ASSUME TStack, stack # <<>>
  PROVE  /\ Len(stack) \in Nat \ {0} /\ Len(stack) \in DOMAIN stack /\ DOMAIN stack = 1 .. Len(stack)
         /\ Top = stack[Len(stack)] /\ Top \in FrameType
         /\ \A i \in DOMAIN stack : stack[i] \in FrameType
<1>1. Len(stack) > 0 BY EmptySeq DEF TStack
<1> QED BY <1>1 DEF TStack, Top, Last

\* The stack keeps what is below n.
Below(n) == \A i \in 1 .. n : stack'[i] = stack[i]
\* A callback begins above n.
Begun(n) ==
  \/ Len(stack') = n
  \/ /\ Len(stack') = n + 1 /\ stack'[n + 1].who \in channels' /\ stack'[n + 1].pc = "routine"
     /\ stack'[n + 1].ans = "none"

LEMMA Serving ==
  ASSUME TStack, NEW n \in Nat, n <= Len(stack), NEW s \in Seq(FrameType), Len(s) = n,
         \A i \in 1 .. n : s[i] = stack[i], NEW set \in SUBSET Jobs, channels' \subseteq Jobs,
         stack' = Serve(s, set)
  PROVE  TStack' /\ Below(n) /\ Begun(n)
<1>1. CASE stack' = s BY <1>1 DEF TStack, Below, Begun
<1>2. ASSUME NEW j \in set \cap channels', stack' = Append(s, Frame(j, "routine", set \ {j}, "none"))
      PROVE  TStack' /\ Below(n) /\ Begun(n)
  <2> DEFINE f == Frame(j, "routine", set \ {j}, "none")
  <2>1. f \in FrameType /\ f.who = j /\ f.pc = "routine" /\ f.ans = "none"
    BY <1>2, FrameTyped, JobsAreNumbers DEF Pcs
  <2> HIDE DEF f
  <2>2. stack' \in Seq(FrameType) /\ Len(stack') = n + 1 /\ stack'[n + 1] = f
        /\ \A i \in 1 .. n : stack'[i] = s[i]
    BY <1>2, <2>1 DEF f
  <2> QED BY <1>2, <2>1, <2>2 DEF TStack, Below, Begun
<1> QED BY <1>1, <1>2, ServeIs

\* A callback or dialog ends, and the event loop below it goes on with the others.
LEMMA Returning ==
  ASSUME TStack, stack # <<>>, channels' \subseteq Jobs, Return
  PROVE  TStack' /\ Below(Len(stack) - 1) /\ Begun(Len(stack) - 1)
<1>1. Front(stack) \in Seq(FrameType) /\ Len(Front(stack)) = Len(stack) - 1
      /\ \A i \in 1 .. Len(stack) - 1 : Front(stack)[i] = stack[i]
  BY TopIs DEF TStack, Front
<1>2. Top.sel \in SUBSET Jobs BY TopIs DEF FrameType
<1>3. Len(stack) - 1 \in Nat /\ Len(stack) - 1 <= Len(stack) BY TopIs
<1> QED BY <1>1, <1>2, <1>3, Serving DEF Return

\* The innermost call goes on.
LEMMA Becoming ==
  ASSUME TStack, stack # <<>>, NEW p \in Pcs, Become(p)
  PROVE  /\ TStack' /\ Below(Len(stack) - 1) /\ Len(stack') = Len(stack)
         /\ stack'[Len(stack)].who = Top.who /\ stack'[Len(stack)].pc = p
         /\ stack'[Len(stack)].ans = Top.ans
<1> DEFINE n == Len(stack)
<1>1. n \in Nat \ {0} /\ DOMAIN stack = 1 .. n /\ n \in DOMAIN stack /\ stack[n] = Top /\ Top \in FrameType
  BY TopIs
<1>2. stack' = [stack EXCEPT ![n] = [stack[n] EXCEPT !.pc = p]] BY DEF Become
<1>3. [stack[n] EXCEPT !.pc = p] \in FrameType BY <1>1 DEF FrameType
<1>4. stack' \in Seq(FrameType) /\ Len(stack') = n /\ stack'[n] = [stack[n] EXCEPT !.pc = p]
      /\ \A i \in 1 .. n - 1 : stack'[i] = stack[i]
  BY <1>1, <1>2, <1>3 DEF TStack
<1> QED BY <1>1, <1>4 DEF TStack, Below, FrameType

-----------------------------------------------------------------------------
(* A step of one job *)

\* Nothing changes for the other jobs.
Alone(j) ==
  \A k \in Jobs \ {j} :
    /\ child'[k] = child[k] /\ call'[k] = call[k] /\ left'[k] = left[k] /\ calls'[k] = calls[k]
    /\ status'[k] = status[k] /\ up'[k] = up[k] /\ down'[k] = down[k] /\ got'[k] = got[k]

LEMMA JobMoves ==
  ASSUME Inv, NEW j \in Jobs, UNCHANGED <<world, mc, parent, stopped, killed>>, TJobs', TPipes', Alone(j),
         Counted(j)', mc = "up" => Sent(j)', JobOK(j)',
         \A i \in DOMAIN stack : stack[i].who = j => FrameOK(stack[i])',
         mc = "up" /\ Away(j)' => Away(j), Watched(j)', status[j] = "bad" => status'[j] = "bad"
  PROVE  Inv'
<1>1. TPlace' /\ TStack' /\ Nested' /\ OwnPid' /\ OneCall'
  BY DEF Inv, parent, TPlace, TStack, Nested, OwnPid, OneCall
<1>2. CountedAll'
  <2>1. ASSUME NEW k \in Jobs \ {j} PROVE Counted(k)'
    BY <2>1 DEF Inv, CountedAll, Counted, Alone, Alive
  <2> QED BY <2>1 DEF CountedAll
<1>3. SentAll'
  <2>1. ASSUME NEW k \in Jobs \ {j}, mc = "up" PROVE Sent(k)'
    <3>1. Sent(k) BY <2>1 DEF Inv, SentAll
    <3> QED BY <2>1, <3>1 DEF Sent, Alone
  <2> QED BY <2>1 DEF SentAll
<1>4. JobsOK'
  <2>1. ASSUME NEW k \in Jobs \ {j} PROVE JobOK(k)'
    <3>1. JobOK(k) BY <2>1 DEF Inv, JobsOK
    <3> QED BY <2>1, <3>1 DEF JobOK, Alone, Alive, Dead
  <2> QED BY <2>1 DEF JobsOK
<1>5. FramesOK'
  <2>1. stack' = stack /\ tasks' = tasks /\ ctxPid' = ctxPid BY DEF parent
  <2>2. ASSUME NEW i \in DOMAIN stack, stack[i].who # j PROVE FrameOK(stack[i])'
    <3>1. FrameOK(stack[i]) BY <2>2 DEF Inv, FramesOK
    <3>2. stack[i] \in FrameType BY <2>2 DEF Inv, TStack
    <3>3. CASE stack[i].who = 0
      <4>1. stack[i].pc = "list" BY <2>2, <3>3 DEF Inv, Nested
      <4> QED BY <4>1, <2>1 DEF FrameOK
    <3>4. CASE stack[i].who # 0
      <4>1. stack[i].who \in Jobs \ {j} BY <2>2, <3>2, <3>4, BoundsAssumption DEF FrameType, Jobs
      <4> QED BY <2>1, <3>1, <4>1 DEF FrameOK, Alone, Alive, Dead
    <3> QED BY <3>3, <3>4
  <2>3. \A i \in DOMAIN stack : FrameOK(stack[i])' BY <2>2
  <2> QED BY <2>1, <2>3 DEF FramesOK
<1>6. PartedAll'
  <2>1. ASSUME NEW k \in Jobs PROVE Parted(k)'
    <3>1. Parted(k) BY <2>1 DEF Inv, PartedAll
    <3>2. mc = "up" /\ Away(k)' => Away(k)
      BY <2>1 DEF Away, Alone, Dead
    <3> QED BY <3>1, <3>2 DEF Parted, parent
  <2> QED BY <2>1 DEF PartedAll
<1>7. WatchedAll'
  <2>1. ASSUME NEW k \in Jobs \ {j} PROVE Watched(k)'
    <3>1. Watched(k) BY <2>1 DEF Inv, WatchedAll
    <3> QED BY <2>1, <3>1 DEF Watched, Alone, Alive, parent
  <2> QED BY <2>1 DEF WatchedAll
<1>8. OrderlyEnds'
  <2>1. ASSUME NEW k \in Jobs, status[k] # "ok" PROVE status'[k] # "ok"
    BY <2>1 DEF Alone, Inv, TJobs
  <2> QED BY <2>1 DEF Inv, OrderlyEnds
<1> QED BY <1>1, <1>2, <1>3, <1>4, <1>5, <1>6, <1>7, <1>8 DEF Inv

\* What is known of one job.
LEMMA OfJob ==
  ASSUME Inv, NEW j \in Jobs
  PROVE  /\ Counted(j) /\ (mc = "up" => Sent(j)) /\ JobOK(j) /\ Parted(j) /\ Watched(j)
         /\ child[j] \in Lives /\ call[j] \in Kinds \cup {"end"} /\ calls[j] \in Nat
         /\ left[j] \in Seq(AllParts) /\ up[j] \in Seq(AllParts) /\ down[j] \in Seq(Answers \cup {"none"})
         /\ world.calls \in Nat
         /\ Parts(call[j]) \in Seq(AllParts)
<1>1. left[j] \in Seq(AllParts) /\ up[j] \in Seq(AllParts) /\ down[j] \in Seq(Answers \cup {"none"})
  BY DEF Inv, TPipes
<1>2. world.calls \in Nat BY WorldsAssumption DEF Inv, TPlace
<1>3. Counted(j) /\ (mc = "up" => Sent(j)) /\ JobOK(j) /\ Parted(j) /\ Watched(j)
  BY DEF Inv, CountedAll, SentAll, JobsOK, PartedAll, WatchedAll
<1>4. child[j] \in Lives /\ call[j] \in Kinds \cup {"end"} /\ calls[j] \in Nat BY DEF Inv, TJobs
<1> QED BY <1>1, <1>2, <1>3, <1>4, PartsFacts

LEMMA AskStep ==
  ASSUME Inv, NEW j \in Jobs, Ask(j)
  PROVE  Inv'
<1> DEFINE k == call'[j]
<1>1. /\ child[j] = "busy" /\ UNCHANGED <<world, mc, parent, stopped, status, pipes, killed>>
      /\ calls' = [calls EXCEPT ![j] = @ + 1] /\ child' = [child EXCEPT ![j] = "asking"]
      /\ left' = [left EXCEPT ![j] = Parts(call'[j])] /\ got' = [got EXCEPT ![j] = "none"]
  BY DEF Ask
<1>2. \E c \in Kinds \cup {"end"} : call' = [call EXCEPT ![j] = c] /\ (c # "end" => calls[j] < world.calls)
  BY WorldsAssumption DEF Ask, Inv, TPlace
<1>3. /\ k \in Kinds \cup {"end"} /\ call' \in [Jobs -> Kinds \cup {"end"}]
      /\ \A i \in Jobs \ {j} : call'[i] = call[i]
      /\ k # "end" => calls[j] < world.calls
  BY <1>2 DEF Inv, TJobs
<1> HIDE DEF k
<1>4. Parts(k) \in Seq(AllParts) /\ Len(Parts(k)) \in 3 .. 4 BY <1>3, PartsFacts
<1>5. /\ child'[j] = "asking" /\ left'[j] = Parts(k) /\ calls'[j] = calls[j] + 1 /\ got'[j] = "none"
      /\ call'[j] = k /\ status' = status /\ up' = up /\ down' = down
  BY <1>1 DEF Inv, TJobs, TPipes, pipes, k
<1>6. TJobs'
  <2>1. child' \in [Jobs -> Lives] /\ got' \in [Jobs -> Answers \cup {"none"}]
    BY <1>1 DEF Inv, TJobs, Lives
  <2>2. calls' \in [Jobs -> Nat] BY <1>1 DEF Inv, TJobs
  <2> QED BY <1>3, <1>5, <2>1, <2>2 DEF Inv, TJobs
<1>7. TPipes' BY <1>1, <1>4, <1>5 DEF Inv, TPipes, k
<1>8. Alone(j) BY <1>1, <1>3, <1>5 DEF Alone, Inv, TJobs, TPipes
<1>9. Counted(j)' BY <1>1, <1>3, <1>5, OfJob DEF Counted, Alive
<1>10. ASSUME mc = "up" PROVE Sent(j)'
  <2>1. up[j] = <<>> BY <1>1, <1>10, OfJob DEF Sent
  <2> QED BY <1>4, <1>5, <2>1, RestBegins DEF Sent
<1>11. JobOK(j)'
  <2>1. Len(down[j]) = 0 /\ down[j] = <<>> /\ status[j] = "ok" BY <1>1, OfJob DEF JobOK, Dead
  <2>2. Parts(k) # <<>>
    <3>1. \A m \in 3 .. 4 : m # 0 OBVIOUS
    <3>2. Len(Parts(k)) # 0 BY <1>4, <3>1, Zenon
    <3> QED BY <1>4, <3>2, EmptySeq
  <2> QED BY <1>1, <1>5, <2>1, <2>2 DEF JobOK, Dead
<1>12. ASSUME NEW i \in DOMAIN stack, stack[i].who = j PROVE FrameOK(stack[i])'
  <2>1. FrameOK(stack[i]) BY DEF Inv, FramesOK
  <2>2. stack[i].pc \notin Engaged BY <1>1, <1>12, <2>1 DEF FrameOK, Alive, Dead, Engaged
  <2> QED BY <1>1, <2>1, <2>2 DEF FrameOK, Engaged, parent
<1>13. ~Away(j)' BY <1>5 DEF Away, Dead
<1>14. Watched(j)' BY <1>1, <1>5, OfJob DEF Watched, Alive, parent
<1> QED BY <1>1, <1>5, <1>6, <1>7, <1>8, <1>9, <1>10, <1>11, <1>12, <1>13, <1>14, JobMoves

\* A job dies.
LEMMA DeathStep ==
  ASSUME Inv, NEW j \in Jobs, Alive(j), Dies({j}),
         UNCHANGED <<world, mc, parent, stopped, call, left, calls, pipes, hist>>
  PROVE  Inv'
<1>1. /\ child' \in [Jobs -> Lives] /\ status' \in [Jobs -> {"ok", "bad"}]
      /\ child'[j] = "ending" /\ status'[j] = "bad"
      /\ \A k \in Jobs \ {j} : child'[k] = child[k] /\ status'[k] = status[k]
  BY DEF Dies, Inv, TJobs, Lives
<1>2. TJobs' /\ TPipes' BY <1>1 DEF Inv, TJobs, TPipes, hist, pipes
<1>3. Alone(j) BY <1>1 DEF Alone, pipes, hist
<1>4. Counted(j)' BY <1>1, OfJob DEF Counted, Alive
<1>5. mc = "up" => Sent(j)' BY <1>1, OfJob DEF Sent, pipes
<1>6. JobOK(j)' BY <1>1, OfJob DEF JobOK, Dead, Alive, pipes
<1>7. ASSUME NEW i \in DOMAIN stack, stack[i].who = j PROVE FrameOK(stack[i])'
  <2>1. FrameOK(stack[i]) BY DEF Inv, FramesOK
  <2> QED BY <1>1, <1>7, <2>1 DEF FrameOK, Alive, Dead, parent, pipes
<1>8. ~Away(j)' BY <1>1 DEF Away
<1>9. Watched(j)' BY <1>1 DEF Watched, Alive
<1> QED BY <1>1, <1>2, <1>3, <1>4, <1>5, <1>6, <1>7, <1>8, <1>9, JobMoves DEF hist

LEMMA CrashesStep == ASSUME Inv, NEW j \in Jobs, Crashes(j) PROVE Inv'
BY DeathStep DEF Crashes

LEMMA WriteStep ==
  ASSUME Inv, NEW j \in Jobs, Write(j)
  PROVE  Inv'
<1>1. child[j] = "asking" /\ Alive(j) /\ UNCHANGED <<world, mc, parent, stopped, call, calls, down, hist>>
  BY DEF Write, Alive
<1>2. CASE ~Answerable(j) /\ Dies({j}) /\ UNCHANGED <<up, left>>
  BY <1>1, <1>2, DeathStep DEF pipes
<1>3. CASE /\ up' = [up EXCEPT ![j] = Append(@, Head(left[j]))] /\ left' = [left EXCEPT ![j] = Tail(@)]
           /\ child' = [child EXCEPT ![j] = IF left'[j] = <<>> THEN "waiting" ELSE @] /\ status' = status
  <2>1. left[j] \in Seq(AllParts) /\ left[j] # <<>> /\ up[j] \in Seq(AllParts) /\ down[j] = <<>> /\ got[j] = "none"
        /\ status[j] = "ok"
    BY <1>1, OfJob DEF JobOK, Dead
  <2>2. /\ up'[j] = Append(up[j], Head(left[j])) /\ left'[j] = Tail(left[j])
        /\ child'[j] = IF left'[j] = <<>> THEN "waiting" ELSE "asking"
        /\ status'[j] = status[j] /\ call'[j] = call[j] /\ down'[j] = down[j] /\ got'[j] = got[j]
    BY <1>1, <1>3 DEF Inv, TJobs, TPipes, hist
  <2>3. up'[j] \in Seq(AllParts) /\ left'[j] \in Seq(AllParts)
    <3>1. Head(left[j]) \in AllParts BY <2>1, EmptySeq
    <3> QED BY <2>1, <2>2, <3>1
  <2>4. TJobs'
    <3>1. child' \in [Jobs -> Lives] BY <1>3 DEF Inv, TJobs, Lives
    <3> QED BY <1>1, <1>3, <3>1 DEF Inv, TJobs, hist
  <2>5. TPipes' BY <1>1, <1>3, <2>2, <2>3 DEF Inv, TPipes
  <2>6. Alone(j) BY <1>1, <1>3 DEF Alone, Inv, TJobs, TPipes, hist
  <2>7. Counted(j)' BY <1>1, <2>2, OfJob DEF Counted, Alive
  <2>8. ASSUME mc = "up" PROVE Sent(j)'
    <3>1. Rest(up[j], left[j], Parts(call[j])) BY <2>8, OfJob DEF Sent
    <3>2. Rest(up'[j], left'[j], Parts(call[j])) BY <2>1, <2>2, <3>1, OfJob, RestWritten
    <3>3. child'[j] = "waiting" => left'[j] = <<>> BY <2>2
    <3>4. child'[j] \notin {"unborn", "busy"} BY <2>2
    <3> QED BY <2>2, <3>2, <3>3, <3>4 DEF Sent
  <2>9. JobOK(j)'
    <3>1. child'[j] = "asking" => left'[j] # <<>> BY <2>2
    <3>2. child'[j] \in {"asking", "waiting"} BY <2>2
    <3> QED BY <2>1, <2>2, <3>1, <3>2 DEF JobOK, Dead
  <2>10. ASSUME NEW i \in DOMAIN stack, stack[i].who = j PROVE FrameOK(stack[i])'
    <3>1. FrameOK(stack[i]) BY DEF Inv, FramesOK
    <3>2. stack[i].pc \notin {"call", "ask", "reply"} BY <1>1, <2>10, <3>1 DEF FrameOK, Dead
    <3>3. child'[j] \in {"asking", "waiting"} BY <2>2
    <3> QED BY <1>1, <2>1, <2>2, <2>10, <3>1, <3>2, <3>3 DEF FrameOK, parent
  <2>11. ~Away(j)' BY <2>1, <2>2 DEF Away, Dead
  <2>12. Watched(j)'
    <3>1. Watched(j) /\ Alive(j) /\ child[j] # "waiting" BY <1>1, OfJob
    <3> QED BY <1>1, <3>1 DEF Watched, parent, hist
  <2> QED BY <1>1, <2>2, <2>4, <2>5, <2>6, <2>7, <2>8, <2>9, <2>10, <2>11, <2>12, JobMoves DEF hist
<1> QED BY <1>2, <1>3 DEF Write

LEMMA NoneOrOne == \A n \in Nat : n # 0 /\ n <= 1 => n = 1
OBVIOUS

LEMMA OneAnswer ==
  ASSUME NEW S, NEW d \in Seq(S), d # <<>>, Len(d) <= 1
  PROVE  Head(d) \in S /\ Head(d) = d[1] /\ Tail(d) = <<>> /\ Len(d) = 1
<1>1. \A e \in Seq(S) : e = <<>> <=> Len(e) = 0 BY EmptySeq
<1>2. Len(d) = 1 /\ Head(d) = d[1] /\ d[1] \in S
  <2>1. Len(d) \in Nat /\ Len(d) # 0 BY <1>1
  <2>2. Len(d) = 1 BY <2>1, NoneOrOne
  <2> QED BY <2>2
<1>3. Len(Tail(d)) = 0 /\ Tail(d) \in Seq(S) BY <1>2
<1> QED BY <1>1, <1>2, <1>3

LEMMA ReadStep ==
  ASSUME Inv, NEW j \in Jobs, Read(j)
  PROVE  Inv'
<1>1. /\ child[j] = "waiting" /\ Alive(j)
      /\ child' = [child EXCEPT ![j] = IF call[j] = "end" THEN "ending" ELSE "busy"]
      /\ UNCHANGED <<world, mc, parent, stopped, call, left, calls, status, up, killed>>
  BY DEF Read, Alive
<1>2. /\ mc = "up" => down[j] # <<>> /\ up[j] = <<>> /\ left[j] = <<>>
      /\ Len(down'[j]) <= 1 /\ down'[j] = <<>> /\ got'[j] \in Answers \cup {"none"}
      /\ down'[j] \in Seq(Answers \cup {"none"})
      /\ \A k \in Jobs \ {j} : down'[k] = down[k] /\ got'[k] = got[k]
      /\ down' \in [Jobs -> Seq(Answers \cup {"none"})] /\ got' \in [Jobs -> Answers \cup {"none"}]
  <2>1. CASE down[j] # <<>> /\ got' = [got EXCEPT ![j] = Head(down[j])] /\ down' = [down EXCEPT ![j] = Tail(@)]
    <3>1. Len(down[j]) <= 1 /\ down[j] \in Seq(Answers \cup {"none"}) BY OfJob DEF JobOK
    <3>2. Head(down[j]) \in Answers \cup {"none"} /\ Tail(down[j]) = <<>> BY <2>1, <3>1, OneAnswer
    <3>3. mc = "up" => up[j] = <<>> /\ left[j] = <<>> BY <1>1, <2>1, OfJob DEF JobOK, Sent
    <3>4. got'[j] = Head(down[j]) /\ down'[j] = Tail(down[j])
          /\ \A k \in Jobs \ {j} : down'[k] = down[k] /\ got'[k] = got[k]
      BY <2>1 DEF Inv, TPipes, TJobs
    <3>5. Len(<<>>) <= 1 /\ <<>> \in Seq(Answers \cup {"none"}) OBVIOUS
    <3>6. down' \in [Jobs -> Seq(Answers \cup {"none"})] /\ got' \in [Jobs -> Answers \cup {"none"}]
      BY <2>1, <3>2, <3>5 DEF Inv, TPipes, TJobs
    <3> QED BY <2>1, <3>2, <3>3, <3>4, <3>5, <3>6
  <2>2. CASE down[j] = <<>> /\ ~Answerable(j) /\ UNCHANGED <<got, down>>
    BY <2>2 DEF Answerable, Inv, TPipes, TJobs
  <2> QED BY <2>1, <2>2 DEF Read
<1>3. /\ child'[j] = IF call[j] = "end" THEN "ending" ELSE "busy"
      /\ child' \in [Jobs -> Lives] /\ \A k \in Jobs \ {j} : child'[k] = child[k]
  BY <1>1 DEF Inv, TJobs, Lives
<1>4. TJobs' /\ TPipes' /\ Alone(j) BY <1>1, <1>2, <1>3 DEF Inv, TJobs, TPipes, Alone
<1>5. Counted(j)' BY <1>1, <1>3, OfJob DEF Counted, Alive
<1>6. mc = "up" => Sent(j)' BY <1>1, <1>2, <1>3, OfJob DEF Sent
<1>7. JobOK(j)' BY <1>1, <1>2, <1>3, OfJob DEF JobOK, Dead
<1>8. ASSUME NEW i \in DOMAIN stack, stack[i].who = j PROVE FrameOK(stack[i])'
  <2>1. FrameOK(stack[i]) /\ mc = "up" BY EmptySeq DEF Inv, FramesOK, Nested, TPlace
  <2>2. stack[i].pc \notin Engaged BY <1>1, <1>2, <1>8, <2>1 DEF FrameOK, Engaged
  <2> QED BY <1>1, <2>1, <2>2 DEF FrameOK, Engaged, parent
<1>9. mc = "up" /\ Away(j)' => Away(j) BY <1>1, <1>2, <1>3 DEF Away, Dead
<1>10. Watched(j)'
  <2>1. CASE call[j] = "end" BY <1>3, <2>1 DEF Watched, Alive
  <2>2. CASE call[j] # "end"
    <3>1. Watched(j) BY OfJob
    <3> QED BY <1>1, <2>2, <3>1 DEF Watched, parent
  <2> QED BY <2>1, <2>2
<1> QED BY <1>1, <1>2, <1>3, <1>4, <1>5, <1>6, <1>7, <1>8, <1>9, <1>10, JobMoves

LEMMA ExitedStep ==
  ASSUME Inv, NEW j \in Jobs, Exited(j)
  PROVE  Inv'
<1>1. /\ child[j] = "ending" /\ child' = [child EXCEPT ![j] = "zombie"] /\ Dead(j)
      /\ UNCHANGED <<world, mc, parent, stopped, call, left, calls, status, pipes, hist>>
  BY DEF Exited, Dead
<1>2. /\ child'[j] = "zombie" /\ child' \in [Jobs -> Lives] /\ \A k \in Jobs \ {j} : child'[k] = child[k]
  BY <1>1 DEF Inv, TJobs, Lives
<1>3. TJobs' /\ TPipes' /\ Alone(j) BY <1>1, <1>2 DEF Inv, TJobs, TPipes, Alone, hist, pipes
<1>4. Counted(j)' BY <1>1, <1>2, OfJob DEF Counted, Alive
<1>5. mc = "up" => Sent(j)' BY <1>1, <1>2, OfJob DEF Sent, pipes
<1>6. JobOK(j)' BY <1>1, <1>2, OfJob DEF JobOK, Dead, Alive, pipes, hist
<1>7. ASSUME NEW i \in DOMAIN stack, stack[i].who = j PROVE FrameOK(stack[i])'
  <2>1. FrameOK(stack[i]) BY DEF Inv, FramesOK
  <2> QED BY <1>1, <1>2, <1>7, <2>1 DEF FrameOK, Alive, Dead, parent, pipes
<1>8. Away(j)' => Away(j) BY <1>1, <1>2 DEF Away, Dead
<1>9. Watched(j)' BY <1>2 DEF Watched, Alive
<1> QED BY <1>1, <1>2, <1>3, <1>4, <1>5, <1>6, <1>7, <1>8, <1>9, JobMoves DEF hist

-----------------------------------------------------------------------------
(* A step of Midnight Commander: what becomes of the stack *)

\* No call of the job is on the stack.
Absent(j) == \A i \in DOMAIN stack : stack[i].who = j => stack[i].pc = "notice"

LEMMA Places ==
  ASSUME NEW n \in Nat, NEW l \in Nat, NEW m \in Nat, n <= l, m = n \/ m = n + 1
  PROVE  /\ \A i \in 1 .. m : i \in 1 .. n \/ (i = n + 1 /\ m = n + 1)
         /\ \A i \in 1 .. m - 1 : i \in 1 .. n
         /\ \A i \in 1 .. n : i \in 1 .. l
OBVIOUS

LEMMA StackMoves ==
  ASSUME Inv, TStack', mc' = "up", NEW n \in Nat, n <= Len(stack), Below(n),
         Len(stack') = n \/ Len(stack') = n + 1,
         \A i \in 1 .. n : stack[i].pc \in Waits /\ (stack[i].pc = "ask" => FrameOK(stack[i])'),
         Len(stack') = n + 1 =>
           /\ stack'[n + 1].who = 0 <=> stack'[n + 1].pc = "list"
           /\ \A i \in DOMAIN stack' : i = n + 1 => FrameOK(stack[i])'
           /\ stack'[n + 1].pc \in Engaged =>
                \A i \in 1 .. n : stack[i].pc = "ask" => stack[i].who # stack'[n + 1].who
  PROVE  Nested' /\ FramesOK' /\ OneCall'
<1>1. /\ DOMAIN stack' = 1 .. Len(stack') /\ DOMAIN stack = 1 .. Len(stack)
      /\ Len(stack) \in Nat /\ Len(stack') \in Nat
  BY DEF Inv, TStack
<1>a. /\ \A i \in DOMAIN stack' : i \in 1 .. n \/ (i = n + 1 /\ Len(stack') = n + 1)
      /\ \A i \in 1 .. Len(stack') - 1 : i \in 1 .. n
      /\ \A i \in 1 .. n : i \in DOMAIN stack
  BY <1>1, Places
<1>2. ASSUME NEW i \in 1 .. n PROVE stack'[i] = stack[i] /\ i \in DOMAIN stack /\ stack[i].pc \in Waits
  BY <1>a DEF Below
<1>3. Nested'
  <2>1. ASSUME NEW i \in DOMAIN stack' PROVE stack'[i].who = 0 <=> stack'[i].pc = "list"
    <3>1. CASE i \in 1 .. n BY <1>2, <3>1 DEF Inv, Nested
    <3>2. CASE i = n + 1 /\ Len(stack') = n + 1 BY <3>2
    <3> QED BY <1>a, <3>1, <3>2
  <2>2. \A i \in 1 .. Len(stack') - 1 : stack'[i].pc \in Waits BY <1>a, <1>2
  <2> QED BY <2>1, <2>2 DEF Nested
<1>4. FramesOK'
  <2>1. ASSUME NEW i \in DOMAIN stack' PROVE FrameOK(stack[i])'
    <3>1. CASE i \in 1 .. n
      <4>1. CASE stack[i].pc = "ask" BY <3>1, <4>1
      <4>2. CASE stack[i].pc \in {"notice", "list"} BY <1>2, <3>1, <4>2 DEF FrameOK
      <4> QED BY <1>2, <3>1, <4>1, <4>2 DEF Waits
    <3>2. CASE i = n + 1 /\ Len(stack') = n + 1 BY <3>2
    <3> QED BY <1>a, <3>1, <3>2
  <2> QED BY <2>1 DEF FramesOK
<1>5. OneCall'
  <2> SUFFICES ASSUME NEW i \in DOMAIN stack', NEW k \in DOMAIN stack', stack'[i].who = stack'[k].who,
                      stack'[i].pc \in Engaged, stack'[k].pc \in Engaged
               PROVE  i = k
    BY DEF OneCall
  <2>1. ASSUME NEW m \in 1 .. n, stack[m].pc \in Engaged PROVE stack[m].pc = "ask"
    BY <1>2, <2>1 DEF Engaged, Waits
  <2>2. CASE i \in 1 .. n /\ k \in 1 .. n BY <1>2, <2>2 DEF Inv, OneCall
  <2>3. CASE i \in 1 .. n /\ k = n + 1 /\ Len(stack') = n + 1 BY <1>2, <2>1, <2>3
  <2>4. CASE i = n + 1 /\ k \in 1 .. n /\ Len(stack') = n + 1 BY <1>2, <2>1, <2>4
  <2>5. CASE i = n + 1 /\ k = n + 1 BY <2>5
  <2> QED BY <1>a, <2>2, <2>3, <2>4, <2>5
<1> QED BY <1>3, <1>4, <1>5

\* What is above n now belongs to a job that is watched, or was there before.
LEMMA AbsentStays ==
  ASSUME TStack, TStack', NEW n \in Nat, n <= Len(stack), Below(n), Len(stack') = n \/ Len(stack') = n + 1,
         NEW j, Absent(j), Len(stack') = n + 1 /\ stack'[n + 1].who = j => stack'[n + 1].pc = "notice"
  PROVE  Absent(j)'
<1>1. /\ DOMAIN stack' = 1 .. Len(stack') /\ DOMAIN stack = 1 .. Len(stack)
      /\ Len(stack) \in Nat /\ Len(stack') \in Nat
  BY DEF TStack
<1>2. /\ \A i \in DOMAIN stack' : i \in 1 .. n \/ (i = n + 1 /\ Len(stack') = n + 1)
      /\ \A i \in 1 .. n : i \in DOMAIN stack
  BY <1>1, Places
<1> QED BY <1>2 DEF Absent, Below

\* A step in which only the dialogs change.
LEMMA DialogMoves ==
  ASSUME Inv, mc = "up", UNCHANGED <<world, mc, tasks, channels, ctxPid, children, pipes, hist>>,
         listed' \subseteq Jobs, pressed' \in 0 .. MaxPress,
         TStack', NEW n \in Nat, n <= Len(stack), Below(n), Len(stack') = n \/ Len(stack') = n + 1,
         \A i \in 1 .. n : stack[i].pc \in Waits,
         Len(stack') = n + 1 =>
           /\ stack'[n + 1].who = 0 <=> stack'[n + 1].pc = "list"
           /\ \A i \in DOMAIN stack' : i = n + 1 => FrameOK(stack[i])'
           /\ stack'[n + 1].pc \in Engaged =>
                \A i \in 1 .. n : stack[i].pc = "ask" => stack[i].who # stack'[n + 1].who
           /\ stack'[n + 1].pc = "notice" \/ \A j \in Jobs : j \notin tasks /\ Away(j) => stack'[n + 1].who # j
  PROVE  Inv'
<1>1. UNCHANGED <<child, stopped, call, left, calls, status, up, down, got, killed>>
  BY DEF children, pipes, hist
<1>2. TPlace' /\ TJobs' /\ TPipes' /\ CountedAll' /\ OwnPid' /\ SentAll' /\ JobsOK' /\ WatchedAll' /\ OrderlyEnds'
  <2>1. TPlace' /\ TJobs' /\ TPipes' BY <1>1 DEF Inv, TPlace, TJobs, TPipes
  <2>2. CountedAll' /\ OwnPid' BY <1>1 DEF Inv, CountedAll, Counted, OwnPid, Alive
  <2>3. SentAll' BY <1>1 DEF Inv, SentAll, Sent
  <2>4. JobsOK' BY <1>1 DEF Inv, JobsOK, JobOK, Alive, Dead
  <2>5. WatchedAll' /\ OrderlyEnds' BY <1>1 DEF Inv, WatchedAll, Watched, Alive, OrderlyEnds
  <2> QED BY <2>1, <2>2, <2>3, <2>4, <2>5
<1>3. ASSUME NEW i \in 1 .. n, stack[i].pc = "ask" PROVE FrameOK(stack[i])'
  <2>1. FrameOK(stack[i]) /\ stack'[i] = stack[i] BY <1>3 DEF Inv, FramesOK, Below, TStack
  <2> QED BY <1>1, <2>1 DEF FrameOK, Alive, Dead
<1>4. Nested' /\ FramesOK' /\ OneCall' BY <1>3, StackMoves
<1>5. PartedAll'
  <2>1. ASSUME NEW j \in Jobs, Away(j)' PROVE j \notin tasks' /\ Absent(j)'
    <3>1. Away(j) BY <1>1, <2>1 DEF Away, Dead
    <3>2. j \notin tasks /\ Absent(j) BY <3>1 DEF Inv, PartedAll, Parted, Absent
    <3> QED BY <3>1, <3>2, AbsentStays DEF Inv
  <2> QED BY <2>1 DEF PartedAll, Parted, Absent
<1> QED BY <1>2, <1>4, <1>5 DEF Inv

-----------------------------------------------------------------------------
(* The dialogs *)

LEMMA Running ==
  ASSUME Inv, stack # <<>>
  PROVE  /\ mc = "up" /\ Len(stack) - 1 \in Nat /\ Len(stack) - 1 <= Len(stack)
         /\ Len(stack) = Len(stack) - 1 + 1
         /\ \A i \in 1 .. Len(stack) - 1 : stack[i].pc \in Waits /\ i \in DOMAIN stack
         /\ FrameOK(Top) /\ Top \in FrameType /\ Top = stack[Len(stack)] /\ Len(stack) \in DOMAIN stack
         /\ Top.who = 0 <=> Top.pc = "list"
         /\ Top.pc # "list" => Top.who \in Jobs
<1>1. /\ Len(stack) \in Nat \ {0} /\ Len(stack) \in DOMAIN stack /\ DOMAIN stack = 1 .. Len(stack)
      /\ Top = stack[Len(stack)] /\ Top \in FrameType
  BY TopIs DEF Inv
<1>2. FrameOK(Top) /\ (Top.who = 0 <=> Top.pc = "list") BY <1>1 DEF Inv, FramesOK, Nested
<1>3. Top.pc # "list" => Top.who \in Jobs BY <1>1, <1>2, BoundsAssumption DEF FrameType, Jobs
<1>4. mc = "up" BY DEF Inv, Nested, TPlace
<1>5. \A i \in 1 .. Len(stack) - 1 : stack[i].pc \in Waits BY DEF Inv, Nested
<1>6. /\ Len(stack) - 1 \in Nat /\ Len(stack) - 1 <= Len(stack) /\ Len(stack) = Len(stack) - 1 + 1
      /\ \A i \in 1 .. Len(stack) - 1 : i \in DOMAIN stack
  BY <1>1
<1> QED BY <1>1, <1>2, <1>3, <1>4, <1>5, <1>6

LEMMA NobodyElse ==
  ASSUME Inv, stack # <<>>, Top.pc \in Engaged
  PROVE  \A i \in 1 .. Len(stack) - 1 : stack[i].pc = "ask" => stack[i].who # Top.who
<1>1. Len(stack) \in DOMAIN stack /\ Top = stack[Len(stack)] /\ Len(stack) - 1 \in Nat BY Running
<1>2. ASSUME NEW i \in 1 .. Len(stack) - 1, stack[i].pc = "ask", stack[i].who = Top.who PROVE FALSE
  <2>1. i \in DOMAIN stack /\ stack[i].pc \in Engaged BY <1>2, Running DEF Engaged
  <2>2. i = Len(stack) BY <1>1, <1>2, <2>1 DEF Inv, OneCall
  <2> QED BY <1>1, <2>2
<1> QED BY <1>2

LEMMA ServedMoves ==
  ASSUME Inv, mc = "up", UNCHANGED <<world, mc, tasks, channels, ctxPid, children, pipes, hist>>,
         listed' \subseteq Jobs, pressed' \in 0 .. MaxPress,
         TStack', NEW n \in Nat, n <= Len(stack), Below(n), Begun(n),
         \A i \in 1 .. n : stack[i].pc \in Waits
  PROVE  Inv'
<1>1. Len(stack') = n \/ Len(stack') = n + 1 BY DEF Begun
<1>2. ASSUME Len(stack') = n + 1
      PROVE  /\ stack'[n + 1].who = 0 <=> stack'[n + 1].pc = "list"
             /\ \A i \in DOMAIN stack' : i = n + 1 => FrameOK(stack[i])'
             /\ stack'[n + 1].pc \notin Engaged
             /\ \A j \in Jobs : j \notin tasks /\ Away(j) => stack'[n + 1].who # j
  <2>1. /\ stack'[n + 1].who \in channels /\ stack'[n + 1].pc = "routine" /\ stack'[n + 1].ans = "none"
    BY <1>2 DEF Begun
  <2>2. stack'[n + 1].who \in tasks /\ stack'[n + 1].who # 0 BY <2>1, JobsAreNumbers DEF Inv, TPlace
  <2>3. \A i \in DOMAIN stack' : i = n + 1 => FrameOK(stack[i])' BY <2>1 DEF FrameOK
  <2> QED BY <2>1, <2>2, <2>3 DEF Engaged
<1> QED BY <1>1, <1>2, DialogMoves

LEMMA SelectStep == ASSUME Inv, Select PROVE Inv'
<1> DEFINE set == {j \in channels : Readable(j)}
<1>1. /\ mc = "up" /\ Loops /\ stack' = Serve(stack, set)
      /\ UNCHANGED <<world, mc, tasks, channels, ctxPid, listed, pressed, children, pipes, hist>>
  BY DEF Select
<1>2. set \in SUBSET Jobs /\ channels' \subseteq Jobs /\ listed' \subseteq Jobs /\ pressed' \in 0 .. MaxPress
  BY <1>1 DEF Inv, TPlace
<1> HIDE DEF set
<1>3. /\ stack \in Seq(FrameType) /\ Len(stack) \in Nat /\ Len(stack) <= Len(stack)
      /\ \A i \in 1 .. Len(stack) : stack[i] = stack[i]
  BY DEF Inv, TStack
<1>4. TStack' /\ Below(Len(stack)) /\ Begun(Len(stack)) BY <1>1, <1>2, <1>3, Serving DEF Inv
<1>5. \A i \in 1 .. Len(stack) : stack[i].pc \in Waits
  <2>1. CASE stack = <<>> BY <2>1
  <2>2. CASE stack # <<>>
    <3>1. Top.pc \in Waits BY <1>1, <2>2 DEF Loops, InMain, At, Waits
    <3>2. ASSUME NEW i \in 1 .. Len(stack) PROVE stack[i].pc \in Waits
      <4>1. i \in 1 .. Len(stack) - 1 \/ i = Len(stack) BY <1>3
      <4> QED BY <2>2, <3>1, <4>1, Running
    <3> QED BY <3>2
  <2> QED BY <2>1, <2>2
<1> QED BY <1>1, <1>2, <1>3, <1>4, <1>5, ServedMoves

\* A dialog is closed.
LEMMA ClosedStep ==
  ASSUME Inv, stack # <<>>, Return, UNCHANGED <<world, mc, tasks, channels, ctxPid, children, pipes, hist>>,
         listed' \subseteq Jobs, pressed' \in 0 .. MaxPress
  PROVE  Inv'
<1>1. channels' \subseteq Jobs BY DEF Inv, TPlace
<1>2. TStack' /\ Below(Len(stack) - 1) /\ Begun(Len(stack) - 1) BY <1>1, Returning DEF Inv
<1> QED BY <1>2, Running, ServedMoves

LEMMA CloseStep == ASSUME Inv, Close PROVE Inv'
<1>1. listed' \subseteq Jobs /\ pressed' \in 0 .. MaxPress BY DEF Close, Inv, TPlace
<1> QED BY <1>1, ClosedStep DEF Close, At

LEMMA CloseListStep == ASSUME Inv, CloseList PROVE Inv'
<1>1. listed' \subseteq Jobs /\ pressed' \in 0 .. MaxPress BY DEF CloseList, Inv, TPlace
<1> QED BY <1>1, ClosedStep DEF CloseList, At

LEMMA OpenListStep == ASSUME Inv, OpenList PROVE Inv'
<1> DEFINE f == Frame(0, "list", {}, "none")
<1>1. /\ mc = "up" /\ stack = <<>> /\ stack' = <<f>> /\ listed' = tasks
      /\ UNCHANGED <<world, mc, tasks, channels, ctxPid, pressed, children, pipes, hist>>
  BY DEF OpenList, InMain
<1>2. f \in FrameType /\ f.who = 0 /\ f.pc = "list" /\ f.ans = "none"
  BY FrameTyped, JobsAreNumbers DEF Pcs
<1> HIDE DEF f
<1>3. TStack' /\ Len(stack') = 1 /\ stack'[1] = f /\ Len(stack) = 0 BY <1>1, <1>2 DEF TStack
<1>4. \A i \in DOMAIN stack' : i = 0 + 1 => FrameOK(stack[i])' BY <1>2, <1>3 DEF FrameOK
<1>5. listed' \subseteq Jobs /\ pressed' \in 0 .. MaxPress BY <1>1 DEF Inv, TPlace
<1>6. /\ Len(stack') = 0 + 1 /\ stack'[0 + 1].who = 0 /\ stack'[0 + 1].pc = "list" /\ 0 <= Len(stack)
      /\ 0 \in Nat /\ \A j \in Jobs : stack'[0 + 1].who # j
  BY <1>2, <1>3, JobsAreNumbers
<1>7. Below(0) /\ \A i \in 1 .. 0 : stack[i].pc \in Waits BY DEF Below
<1> QED BY <1>1, <1>3, <1>4, <1>5, <1>6, <1>7, DialogMoves DEF Engaged

LEMMA ReadFailsStep == ASSUME Inv, ReadFails PROVE Inv'
<1> DEFINE n == Len(stack) - 1
<1>1. /\ stack # <<>> /\ Become("notice") /\ Top.pc = "parts"
      /\ UNCHANGED <<world, mc, tasks, channels, ctxPid, listed, pressed, children, pipes, hist>>
  BY DEF ReadFails, At
<1>2. /\ TStack' /\ Below(n) /\ Len(stack') = n + 1 /\ stack'[n + 1].who = Top.who
      /\ stack'[n + 1].pc = "notice"
  BY <1>1, Running, Becoming DEF Inv, Pcs
<1>3. /\ mc = "up" /\ n \in Nat /\ n <= Len(stack) /\ \A i \in 1 .. n : stack[i].pc \in Waits
      /\ Top.who # 0
  BY <1>1, Running
<1>4. \A i \in DOMAIN stack' : i = n + 1 => FrameOK(stack[i])' BY <1>2 DEF FrameOK
<1>5. listed' \subseteq Jobs /\ pressed' \in 0 .. MaxPress BY <1>1 DEF Inv, TPlace
<1> HIDE DEF n
<1> QED BY <1>1, <1>2, <1>3, <1>4, <1>5, DialogMoves DEF Engaged

LEMMA AnswerStep == ASSUME Inv, Answer PROVE Inv'
<1> DEFINE n == Len(stack) - 1
<1>1. /\ stack # <<>> /\ Top.pc = "ask"
      /\ UNCHANGED <<world, mc, tasks, channels, ctxPid, listed, pressed, children, pipes, hist>>
  BY DEF Answer, At
<1>2. PICK a \in Answers : stack' = [stack EXCEPT ![Len(stack)] = [@ EXCEPT !.pc = "reply", !.ans = a]]
  BY DEF Answer, Answers
<1>3. /\ mc = "up" /\ n \in Nat /\ n <= Len(stack) /\ Len(stack) = n + 1 /\ Top = stack[n + 1]
      /\ \A i \in 1 .. n : stack[i].pc \in Waits
      /\ Top.who # 0 /\ Top.who \in Jobs /\ Top \in FrameType /\ FrameOK(Top) /\ stack \in Seq(FrameType)
  BY <1>1, Running DEF Inv, TStack
<1>4. /\ TStack' /\ Below(n) /\ Len(stack') = n + 1 /\ stack'[n + 1].who = Top.who
      /\ stack'[n + 1].pc = "reply" /\ stack'[n + 1].ans = a
  <2> DEFINE f == [Top EXCEPT !.pc = "reply", !.ans = a]
  <2>1. f \in FrameType /\ f.who = Top.who /\ f.pc = "reply" /\ f.ans = a BY <1>3 DEF FrameType, Pcs
  <2>2. stack' = [stack EXCEPT ![n + 1] = f] BY <1>2, <1>3
  <2> HIDE DEF f, n
  <2>3. stack' \in Seq(FrameType) /\ Len(stack') = n + 1 /\ stack'[n + 1] = f
        /\ \A i \in 1 .. n : stack'[i] = stack[i]
    BY <1>3, <2>1, <2>2
  <2> QED BY <2>1, <2>3 DEF TStack, Below
<1>5. \A i \in DOMAIN stack' : i = n + 1 => FrameOK(stack[i])'
  BY <1>1, <1>3, <1>4 DEF FrameOK, Dead, children, pipes
<1>6. \A i \in 1 .. n : stack[i].pc = "ask" => stack[i].who # stack'[n + 1].who
  BY <1>1, <1>4, NobodyElse DEF Engaged
<1>7. \A j \in Jobs : Away(j) => Top.who # j
  <2>1. ASSUME NEW j \in Jobs, Away(j), Top.who = j PROVE FALSE
    BY <1>1, <1>3, <2>1, Running DEF Inv, PartedAll, Parted
  <2> QED BY <2>1
<1>8. listed' \subseteq Jobs /\ pressed' \in 0 .. MaxPress BY <1>1 DEF Inv, TPlace
<1> HIDE DEF n
<1> QED BY <1>1, <1>3, <1>4, <1>5, <1>6, <1>7, <1>8, DialogMoves

-----------------------------------------------------------------------------
(* The list of jobs, the start of a job, and the end *)

LEMMA SignalStep ==
  ASSUME Inv, Stop \/ Resume
  PROVE  Inv'
<1>1. /\ UNCHANGED <<world, mc, stack, tasks, channels, ctxPid, child, call, left, calls, status, pipes, hist>>
      /\ listed' = tasks' /\ pressed' = pressed + 1 /\ pressed < MaxPress /\ stopped' \subseteq Jobs
  <2>1. listed \subseteq Jobs /\ stopped \subseteq Jobs BY DEF Inv, TPlace
  <2>2. CASE Stop BY <2>1, <2>2 DEF Stop, Refill, Hits
  <2>3. CASE Resume BY <2>1, <2>3 DEF Resume, Refill
  <2> QED BY <2>2, <2>3
<1>2. TPlace' BY <1>1, BoundsAssumption DEF Inv, TPlace, hist
<1>3. TStack' /\ TJobs' /\ TPipes' /\ Nested' /\ OwnPid' /\ OneCall' /\ OrderlyEnds'
  BY <1>1 DEF Inv, TStack, TJobs, TPipes, Nested, OwnPid, OneCall, OrderlyEnds, pipes, hist
<1>4. CountedAll' /\ SentAll' BY <1>1 DEF Inv, CountedAll, Counted, Alive, SentAll, Sent, pipes
<1>5. JobsOK' BY <1>1 DEF Inv, JobsOK, JobOK, Alive, Dead, pipes, hist
<1>6. FramesOK' BY <1>1 DEF Inv, FramesOK, FrameOK, Alive, Dead, pipes
<1>7. PartedAll' BY <1>1 DEF Inv, PartedAll, Parted, Away, Dead, pipes
<1>8. WatchedAll' BY <1>1 DEF Inv, WatchedAll, Watched, Alive, hist
<1> QED BY <1>2, <1>3, <1>4, <1>5, <1>6, <1>7, <1>8 DEF Inv

\* What death changes.
LEMMA Dying ==
  ASSUME Inv, NEW S, Dies(S)
  PROVE  /\ child' \in [Jobs -> Lives] /\ status' \in [Jobs -> {"ok", "bad"}]
         /\ \A k \in Jobs :
              \/ Alive(k) /\ k \in S /\ child'[k] = "ending" /\ status'[k] = "bad"
              \/ ~(Alive(k) /\ k \in S) /\ child'[k] = child[k] /\ status'[k] = status[k]
<1>1. child \in [Jobs -> Lives] /\ status \in [Jobs -> {"ok", "bad"}] BY DEF Inv, TJobs
<1>2. child' = [k \in Jobs |-> IF k \in S /\ Alive(k) THEN "ending" ELSE child[k]]
      /\ status' = [k \in Jobs |-> IF k \in S /\ Alive(k) THEN "bad" ELSE status[k]]
  BY DEF Dies
<1>3. child' \in [Jobs -> Lives] /\ status' \in [Jobs -> {"ok", "bad"}]
  <2>1. ASSUME NEW k \in Jobs PROVE /\ (IF k \in S /\ Alive(k) THEN "ending" ELSE child[k]) \in Lives
                                     /\ (IF k \in S /\ Alive(k) THEN "bad" ELSE status[k]) \in {"ok", "bad"}
    BY <1>1 DEF Lives
  <2> QED BY <1>2, <2>1
<1> QED BY <1>2, <1>3

\* A job that dies keeps its invariant.
LEMMA DyingKeeps ==
  ASSUME Inv, NEW S, Dies(S), UNCHANGED <<world, call, left, calls, pipes, got>>, mc' = "up" => mc = "up",
         NEW k \in Jobs
  PROVE  Counted(k)' /\ (mc' = "up" => Sent(k)') /\ JobOK(k)' /\ (Away(k)' => Away(k))
<1>1. \/ Alive(k) /\ child'[k] = "ending" /\ status'[k] = "bad"
      \/ child'[k] = child[k] /\ status'[k] = status[k]
  BY Dying
<1>2. Counted(k) /\ JobOK(k) /\ (mc = "up" => Sent(k)) BY OfJob
<1>3. Counted(k)' BY <1>1, <1>2 DEF Counted, Alive
<1>4. mc' = "up" => Sent(k)' BY <1>1, <1>2 DEF Sent, pipes
<1>5. JobOK(k)' BY <1>1, <1>2 DEF JobOK, Dead, Alive, pipes
<1>6. Away(k)' => Away(k) BY <1>1 DEF Away, Dead, pipes
<1> QED BY <1>3, <1>4, <1>5, <1>6

LEMMA KillStep == ASSUME Inv, Kill PROVE Inv'
<1>1. /\ UNCHANGED <<world, mc, stack, ctxPid, call, left, calls, pipes, got>>
      /\ listed' = tasks' /\ pressed' = pressed + 1 /\ pressed < MaxPress
  BY DEF Kill, Refill
<1>2. PICK j \in listed : /\ tasks' = tasks \ {j} /\ channels' = channels \ {j} /\ killed' = killed \cup {j}
                          /\ \E hit \in Hits(j, FALSE) : Dies(hit) /\ stopped' = stopped \ hit
  BY DEF Kill
<1>3. PICK S \in {{j}, {}} : Dies(S) /\ stopped' = stopped \ S BY <1>2 DEF Hits
<1>4. /\ child' \in [Jobs -> Lives] /\ status' \in [Jobs -> {"ok", "bad"}]
      /\ \A k \in Jobs :
           \/ Alive(k) /\ k \in S /\ child'[k] = "ending" /\ status'[k] = "bad"
           \/ ~(Alive(k) /\ k \in S) /\ child'[k] = child[k] /\ status'[k] = status[k]
  BY <1>3, Dying
<1>5. TPlace' BY <1>1, <1>2, <1>3, BoundsAssumption DEF Inv, TPlace
<1>6. TStack' /\ TJobs' /\ TPipes' /\ Nested' /\ OwnPid' /\ OneCall'
  BY <1>1, <1>4 DEF Inv, TStack, TJobs, TPipes, Nested, OwnPid, OneCall, pipes
<1>7. CountedAll' /\ SentAll' /\ JobsOK' BY <1>1, <1>3, DyingKeeps DEF CountedAll, SentAll, JobsOK
<1>8. FramesOK'
  <2>1. ASSUME NEW i \in DOMAIN stack PROVE FrameOK(stack[i])'
    <3>1. FrameOK(stack[i]) /\ stack[i] \in FrameType BY <2>1 DEF Inv, FramesOK, TStack
    <3>2. CASE stack[i].who \notin Jobs
      <4>1. stack[i].pc = "list" BY <2>1, <3>1, <3>2, BoundsAssumption DEF Inv, Nested, FrameType, Jobs
      <4> QED BY <1>1, <4>1 DEF FrameOK
    <3>3. CASE stack[i].who \in Jobs
      <4>1. \/ Alive(stack[i].who) /\ child'[stack[i].who] = "ending"
            \/ child'[stack[i].who] = child[stack[i].who]
        BY <1>4, <3>3
      <4> QED BY <1>1, <1>2, <3>1, <4>1 DEF FrameOK, Alive, Dead, pipes
    <3> QED BY <3>2, <3>3
  <2> QED BY <1>1, <2>1 DEF FramesOK
<1>9. PartedAll'
  <2>1. ASSUME NEW k \in Jobs, mc' = "up", Away(k)'
        PROVE  k \notin tasks' /\ \A i \in DOMAIN stack' : stack'[i].who = k => stack'[i].pc = "notice"
    <3>1. Away(k) BY <1>1, <1>3, <2>1, DyingKeeps
    <3> QED BY <1>1, <1>2, <2>1, <3>1 DEF Inv, PartedAll, Parted
  <2> QED BY <2>1 DEF PartedAll, Parted
<1>10. WatchedAll'
  <2>1. ASSUME NEW k \in Jobs, mc' = "up", k \notin killed', Alive(k)',
               ~(call[k] = "end" /\ child[k] = "waiting")'
        PROVE  k \in channels'
    <3>1. child'[k] = child[k] BY <1>4, <2>1 DEF Alive
    <3>2. Watched(k) /\ k # j BY <1>2, <2>1, OfJob
    <3> QED BY <1>1, <1>2, <2>1, <3>1, <3>2 DEF Watched, Alive
  <2> QED BY <2>1 DEF WatchedAll, Watched
<1>11. OrderlyEnds'
  <2>1. ASSUME NEW k \in Jobs, status[k] # "ok" PROVE status'[k] # "ok" BY <1>4, <2>1
  <2> QED BY <1>1, <2>1 DEF Inv, OrderlyEnds
<1> QED BY <1>5, <1>6, <1>7, <1>8, <1>9, <1>10, <1>11 DEF Inv

LEMMA StartStep == ASSUME Inv, NEW j \in Jobs, Start(j) PROVE Inv'
<1>1. /\ mc = "up" /\ stack = <<>> /\ child[j] = "unborn" /\ child' = [child EXCEPT ![j] = "busy"]
      /\ tasks' = tasks \cup {j} /\ channels' = channels \cup {j} /\ ctxPid' = [ctxPid EXCEPT ![j] = j]
      /\ UNCHANGED <<world, mc, stack, listed, pressed, stopped, call, left, calls, status, pipes, hist>>
  BY DEF Start, InMain
<1>2. /\ child' \in [Jobs -> Lives] /\ child'[j] = "busy" /\ \A k \in Jobs \ {j} : child'[k] = child[k]
  BY <1>1 DEF Inv, TJobs, Lives
<1>3. TPlace' /\ OwnPid'
  <2>1. ctxPid' \in [Jobs -> 0 .. N] BY <1>1, JobsAreNumbers DEF Inv, TPlace
  <2>2. OwnPid' BY <1>1 DEF Inv, OwnPid, TPlace
  <2> QED BY <1>1, <2>1, <2>2 DEF Inv, TPlace, hist
<1>4. TStack' /\ TJobs' /\ TPipes' /\ Nested' /\ OneCall' /\ FramesOK' /\ OrderlyEnds'
  BY <1>1, <1>2 DEF Inv, TStack, TJobs, TPipes, Nested, OneCall, FramesOK, OrderlyEnds, pipes, hist
<1>5. ASSUME NEW k \in Jobs
      PROVE  Counted(k)' /\ Sent(k)' /\ JobOK(k)' /\ Parted(k)' /\ Watched(k)'
  <2>1. Counted(k) /\ Sent(k) /\ JobOK(k) /\ Parted(k) /\ Watched(k) BY <1>1, OfJob
  <2>2. CASE k = j
    <3>1. Counted(k)' BY <1>1, <1>2, <2>1, <2>2 DEF Counted, Alive
    <3>2. Sent(k)' BY <1>1, <1>2, <2>1, <2>2 DEF Sent, pipes
    <3>3. JobOK(k)' BY <1>1, <1>2, <2>1, <2>2 DEF JobOK, Alive, Dead, pipes, hist
    <3>4. ~Away(k)' BY <1>2, <2>2 DEF Away, Dead
    <3> QED BY <1>1, <2>2, <3>1, <3>2, <3>3, <3>4 DEF Parted, Watched
  <2>3. CASE k # j
    <3>1. child'[k] = child[k] BY <1>2, <2>3
    <3>2. Counted(k)' /\ Sent(k)' BY <1>1, <2>1, <3>1 DEF Counted, Alive, Sent, pipes
    <3>3. JobOK(k)' BY <1>1, <2>1, <3>1 DEF JobOK, Alive, Dead, pipes, hist
    <3>4. Parted(k)' BY <1>1, <2>1, <2>3, <3>1 DEF Parted, Away, Dead, pipes
    <3>5. Watched(k)' BY <1>1, <2>1, <3>1 DEF Watched, Alive, hist
    <3> QED BY <3>2, <3>3, <3>4, <3>5
  <2> QED BY <2>2, <2>3
<1> QED BY <1>3, <1>4, <1>5 DEF Inv, CountedAll, SentAll, JobsOK, PartedAll, WatchedAll

\* Midnight Commander ends, for a reason.
LEMMA GoneStep ==
  ASSUME Inv, NEW S, GoneWith(S), UNCHANGED <<world, listed, pressed, stopped, call, left, calls, pipes, hist>>,
         world.quit \/ \E j \in Jobs : status[j] # "ok"
  PROVE  Inv'
<1>1. mc' = "gone" /\ stack' = <<>> /\ Dies(S) /\ UNCHANGED <<tasks, channels, ctxPid>> BY DEF GoneWith
<1>2. child' \in [Jobs -> Lives] /\ status' \in [Jobs -> {"ok", "bad"}] BY <1>1, Dying
<1>3. TPlace' /\ OwnPid' BY <1>1 DEF Inv, TPlace, OwnPid, hist
<1>4. TStack' /\ TJobs' /\ TPipes' BY <1>1, <1>2 DEF TStack, Inv, TJobs, TPipes, pipes, hist
<1>5. Nested' /\ FramesOK' /\ OneCall'
  <2>1. stack' = <<>> BY <1>1
  <2> QED BY <2>1 DEF Nested, FramesOK, OneCall
<1>6. CountedAll' /\ SentAll' /\ JobsOK' BY <1>1, DyingKeeps DEF CountedAll, SentAll, JobsOK, hist
<1>7. PartedAll' /\ WatchedAll' BY <1>1 DEF PartedAll, Parted, WatchedAll, Watched
<1>8. OrderlyEnds'
  <2>1. ASSUME NEW j \in Jobs, status[j] # "ok" PROVE status'[j] # "ok" BY <1>1, <2>1, Dying
  <2> QED BY <2>1 DEF OrderlyEnds
<1> QED BY <1>3, <1>4, <1>5, <1>6, <1>7, <1>8 DEF Inv

LEMMA QuitStep == ASSUME Inv, Quit PROVE Inv'
BY GoneStep DEF Quit

-----------------------------------------------------------------------------
(* background_attention *)

\* A step of the innermost call, which may reap a job.
LEMMA AttentionMoves ==
  ASSUME Inv, stack # <<>>, NEW j \in Jobs, Top.who = j, NEW n \in Nat, n = Len(stack) - 1,
         UNCHANGED <<world, mc, listed, pressed, stopped, call, left, calls, status, hist>>,
         TPlace', TStack', TPipes', OwnPid', child' \in [Jobs -> Lives],
         \A k \in Jobs : child'[k] = child[k] \/ (child[k] = "zombie" /\ child'[k] = "reaped"),
         \A k \in Jobs \ {j} : up'[k] = up[k] /\ down'[k] = down[k],
         \/ \A i \in 1 .. n : stack[i].pc = "ask" => stack[i].who # j
         \/ up'[j] = up[j] /\ down'[j] = down[j],
         Below(n), Len(stack') = n \/ Len(stack') = n + 1,
         Sent(j)', JobOK(j)', PartedAll', WatchedAll',
         Len(stack') = n + 1 =>
           /\ stack'[n + 1].who = 0 <=> stack'[n + 1].pc = "list"
           /\ \A i \in DOMAIN stack' : i = n + 1 => FrameOK(stack[i])'
           /\ stack'[n + 1].pc \in Engaged =>
                \A i \in 1 .. n : stack[i].pc = "ask" => stack[i].who # stack'[n + 1].who
  PROVE  Inv'
<1>1. TJobs' BY DEF Inv, TJobs, hist
<1>2. mc = "up" /\ mc' = "up" /\ n <= Len(stack) /\ \A i \in 1 .. n : stack[i].pc \in Waits /\ i \in DOMAIN stack
  BY Running
<1>3. ASSUME NEW k \in Jobs PROVE (Alive(k)' <=> Alive(k)) /\ (Dead(k)' <=> Dead(k))
                                  /\ (child'[k] = "waiting" <=> child[k] = "waiting")
  BY <1>3 DEF Alive, Dead
<1>4. CountedAll'
  <2>1. ASSUME NEW k \in Jobs PROVE Counted(k)'
    <3>1. Counted(k) BY OfJob
    <3> QED BY <1>3, <3>1 DEF Counted
  <2> QED BY <2>1 DEF CountedAll
<1>5. SentAll' /\ JobsOK'
  <2>1. ASSUME NEW k \in Jobs \ {j} PROVE Sent(k)' /\ JobOK(k)'
    <3>1. Sent(k) /\ JobOK(k) BY <1>2, OfJob
    <3>2. child'[k] = child[k] \/ (child[k] = "zombie" /\ child'[k] = "reaped") OBVIOUS
    <3>3. Sent(k)' BY <3>1, <3>2 DEF Sent
    <3>4. JobOK(k)' BY <3>1, <3>2, <1>3 DEF JobOK, hist
    <3> QED BY <3>3, <3>4
  <2> QED BY <2>1 DEF SentAll, JobsOK
<1>6. ASSUME NEW i \in 1 .. n, stack[i].pc = "ask" PROVE FrameOK(stack[i])'
  <2>1. /\ stack'[i] = stack[i] /\ i \in DOMAIN stack /\ FrameOK(stack[i]) /\ stack[i] \in FrameType
        /\ stack[i].who # 0
    BY <1>2, <1>6 DEF Below, Inv, FramesOK, TStack, Nested
  <2>2. stack[i].who \in Jobs BY <2>1, BoundsAssumption DEF FrameType, Jobs
  <2>3. up'[stack[i].who] = up[stack[i].who] /\ down'[stack[i].who] = down[stack[i].who] BY <1>6, <2>2
  <2> QED BY <1>3, <1>6, <2>1, <2>2, <2>3 DEF FrameOK
<1>7. Nested' /\ FramesOK' /\ OneCall' BY <1>2, <1>6, StackMoves
<1>8. OrderlyEnds' BY <1>2 DEF OrderlyEnds
<1> QED BY <1>1, <1>4, <1>5, <1>7, <1>8 DEF Inv

\* Nothing of the call is below its own frame, if it is not that of a dead job.
LEMMA NoAskBelow ==
  ASSUME Inv, stack # <<>>, NEW j \in Jobs, up[j] # <<>>
  PROVE  \A i \in 1 .. Len(stack) - 1 : stack[i].pc = "ask" => stack[i].who # j
BY Running DEF Inv, FramesOK, FrameOK

LEMMA ReadPartStep == ASSUME Inv, ReadPart PROVE Inv'
<1>0. stack # <<>> /\ Top.pc \in {"routine", "parts"} BY DEF ReadPart, At
<1>j. PICK j \in Jobs : Top.who = j BY <1>0, Running
<1> DEFINE n == Len(stack) - 1
           p == IF Head(up[j]) = "short" THEN "notice"
                ELSE IF Head(up[j]) = Last(Parts(call[j])) THEN "call" ELSE "parts"
<1>1. /\ stack # <<>> /\ Top.pc \in {"routine", "parts"} /\ up[j] # <<>>
      /\ up' = [up EXCEPT ![j] = Tail(@)]
      /\ ctxPid' = [ctxPid EXCEPT ![j] = IF Head(up[j]) # "ctx" THEN @
                                         ELSE IF call[j] = "end" THEN j ELSE 0]
      /\ Become(p)
      /\ UNCHANGED <<world, mc, tasks, channels, listed, pressed, children, down, hist>>
  BY <1>j DEF ReadPart, At
<1>2. UNCHANGED <<child, stopped, call, left, calls, status, got, killed>> BY <1>1 DEF children, hist
<1>3. /\ n \in Nat /\ mc = "up" /\ FrameOK(Top) /\ Len(stack) \in DOMAIN stack
      /\ Top = stack[Len(stack)] /\ Len(stack) = n + 1
  BY <1>1, Running
<1>4. p \in {"notice", "call", "parts"} /\ p \in Pcs BY DEF Pcs
<1>5. /\ TStack' /\ Below(n) /\ Len(stack') = n + 1 /\ stack'[n + 1].who = j /\ stack'[n + 1].pc = p
      /\ stack'[n + 1].ans = "none"
  <2>1. Top.ans = "none" BY <1>1, <1>3 DEF FrameOK
  <2> HIDE DEF p
  <2> QED BY <1>1, <1>3, <1>4, <2>1, <1>j, Becoming DEF Inv
<1>6. Sent(j) /\ JobOK(j) /\ Parted(j) BY <1>3, OfJob
<1>7. /\ child[j] \in Lives \ {"unborn", "busy"} /\ (Alive(j) => down[j] = <<>>) /\ ~Away(j)
  <2>1. child[j] \in Lives \ {"unborn", "busy"} BY <1>1, <1>3, <1>6, OfJob DEF Sent
  <2>2. Alive(j) => down[j] = <<>> BY <1>1, <1>3, <1>6 DEF JobOK
  <2>3. ~Away(j) BY <1>1, <1>3, <1>6, <1>j DEF Parted
  <2> QED BY <2>1, <2>2, <2>3
<1> DEFINE q == Parts(call[j])
<1>8. /\ q \in Seq(AllParts) /\ (\A i \in 1 .. Len(q) : q[i] = Last(q) => i = Len(q))
      /\ up[j] \in Seq(AllParts) /\ left[j] \in Seq(AllParts) /\ Rest(up[j], left[j], q)
  <2>1. call[j] \in Kinds \cup {"end"} /\ up[j] \in Seq(AllParts) /\ left[j] \in Seq(AllParts) BY <1>3, OfJob
  <2> QED BY <2>1, <1>6, PartsFacts DEF Sent
<1> HIDE DEF q
<1>9. /\ Tail(up[j]) \in Seq(AllParts) /\ Rest(Tail(up[j]), left[j], q)
      /\ Head(up[j]) = Last(q) => Tail(up[j]) = <<>> /\ left[j] = <<>>
  BY ONLY <1>1, <1>8, RestRead
<1>10. /\ up' \in [Jobs -> Seq(AllParts)] /\ up'[j] = Tail(up[j]) /\ \A k \in Jobs \ {j} : up'[k] = up[k]
  BY <1>1, <1>3, <1>9 DEF Inv, TPipes
<1>11. /\ ctxPid' \in [Jobs -> 0 .. N] /\ OwnPid'
       /\ Head(up[j]) = "ctx" /\ call[j] = "end" => ctxPid'[j] = j
  <2>1. ctxPid \in [Jobs -> 0 .. N] BY DEF Inv, TPlace
  <2>2. ctxPid' \in [Jobs -> 0 .. N] BY <1>1, <1>3, <2>1, JobsAreNumbers
  <2>3. OwnPid' BY <1>1, <1>3, <2>1 DEF Inv, OwnPid
  <2> QED BY <1>1, <1>3, <2>1, <2>2, <2>3
<1>12. TPlace' /\ TPipes' BY <1>1, <1>2, <1>10, <1>11 DEF Inv, TPlace, TPipes
<1>13. Sent(j)'
  <2>1. Rest(up'[j], left'[j], Parts(call'[j])) BY <1>2, <1>9, <1>10 DEF q
  <2> QED BY <1>2, <1>6, <1>7, <2>1 DEF Sent
<1>14. JobOK(j)' BY <1>1, <1>2, <1>6, <1>7 DEF JobOK, Alive, Dead
<1>15. \A i \in DOMAIN stack' : i = n + 1 => FrameOK(stack[i])'
  <2>1. CASE p = "notice" BY <1>5, <2>1 DEF FrameOK
  <2>2. CASE p = "parts" BY <1>1, <1>2, <1>5, <1>7, <2>2 DEF FrameOK, Lives, Alive
  <2>3. CASE p = "call"
    <3>1. Head(up[j]) = Last(q) BY <2>3 DEF q
    <3>2. up'[j] = <<>> /\ left[j] = <<>> BY <1>9, <1>10, <3>1
    <3>3. child[j] = "waiting" \/ Dead(j) BY <1>6, <1>7, <3>2 DEF JobOK, Dead, Lives
    <3>4. child[j] = "waiting" => down[j] = <<>> BY <1>7 DEF Alive
    <3>5. call[j] = "end" => ctxPid'[j] = j
      <4>1. call[j] = "end" => Last(q) = "ctx" BY DEF q, Parts, Last
      <4> QED BY <1>11, <3>1, <4>1
    <3> QED BY <1>1, <1>2, <1>5, <2>3, <3>2, <3>3, <3>4, <3>5 DEF FrameOK, Dead
  <2> HIDE DEF p
  <2> QED BY <1>4, <2>1, <2>2, <2>3
<1>16. \A i \in 1 .. n : stack[i].pc = "ask" => stack[i].who # j BY <1>1, <1>3, NoAskBelow
<1>17. PartedAll'
  <2>1. ASSUME NEW k \in Jobs, Away(k)' PROVE k \notin tasks' /\ Absent(k)'
    <3>1. Away(k) BY <1>1, <1>2, <2>1 DEF Away, Dead
    <3>2. k # j /\ k \notin tasks /\ Absent(k) BY <1>3, <1>7, <3>1 DEF Inv, PartedAll, Parted, Absent
    <3> HIDE DEF n
    <3>3. Absent(k)' BY <1>3, <1>5, <3>2, AbsentStays DEF Inv
    <3> QED BY <1>1, <3>2, <3>3
  <2> QED BY <2>1 DEF PartedAll, Parted, Absent
<1>18. WatchedAll' BY <1>1, <1>2 DEF Inv, WatchedAll, Watched, Alive
<1>19. j # 0 /\ p # "list" /\ stack'[n + 1].who = j /\ stack'[n + 1].pc = p
  BY <1>3, <1>4, <1>5, JobsAreNumbers
<1>20. /\ \A k \in Jobs : child'[k] = child[k] \/ (child[k] = "zombie" /\ child'[k] = "reaped")
       /\ \A k \in Jobs \ {j} : up'[k] = up[k] /\ down'[k] = down[k]
       /\ child' \in [Jobs -> Lives]
  BY <1>1, <1>2, <1>10 DEF Inv, TJobs
<1>n. n = Len(stack) - 1 OBVIOUS
<1> HIDE DEF n, p
<1>a. Len(stack') = n + 1 =>
        /\ stack'[n + 1].who = 0 <=> stack'[n + 1].pc = "list"
        /\ \A i \in DOMAIN stack' : i = n + 1 => FrameOK(stack[i])'
        /\ stack'[n + 1].pc \in Engaged =>
             \A i \in 1 .. n : stack[i].pc = "ask" => stack[i].who # stack'[n + 1].who
  BY <1>15, <1>16, <1>19
<1>21. UNCHANGED <<world, mc, listed, pressed, stopped, call, left, calls, status, hist>> BY <1>1, <1>2 DEF hist
<1> QED BY <1>0, <1>3, <1>5, <1>11, <1>12, <1>13, <1>14, <1>16, <1>17, <1>18, <1>20, <1>21, <1>a, <1>j, <1>n,
           AttentionMoves

\* A dead job whose call is on the stack has not come to its end in order.
LEMMA DiedOnIt ==
  ASSUME Inv, stack # <<>>, NEW j \in Jobs, Top.who = j, Top.pc # "notice", ~Alive(j)
  PROVE  \E k \in Jobs : status[k] # "ok"
BY Running, OfJob DEF Parted, Away, Alive, Dead, Lives

LEMMA CallStep == ASSUME Inv, Call PROVE Inv'
<1>0. stack # <<>> /\ Top.pc = "call" BY DEF Call, At
<1>j. PICK j \in Jobs : Top.who = j BY <1>0, Running
<1> DEFINE n == Len(stack) - 1  p == IF call[j] = "end" THEN "reply" ELSE "ask"
<1>1. /\ Become(p) /\ UNCHANGED <<world, mc, listed, pressed, children, pipes, hist>>
      /\ \/ /\ call[j] = "end" /\ tasks' = tasks \ {ctxPid[j]} /\ channels' = channels \ {ctxPid[j]}
            /\ ctxPid' = [ctxPid EXCEPT ![j] = 0]
         \/ call[j] # "end" /\ UNCHANGED <<tasks, channels, ctxPid>>
  BY <1>j DEF Call, Removed, Unwatched
<1>2. UNCHANGED <<child, stopped, call, left, calls, status, up, down, got, killed>> BY <1>1 DEF children, pipes, hist
<1>3. /\ n \in Nat /\ n = Len(stack) - 1 /\ mc = "up" /\ FrameOK(Top) /\ Len(stack) \in DOMAIN stack
      /\ Top = stack[Len(stack)] /\ Len(stack) = n + 1
  BY <1>0, Running
<1>4. p \in {"reply", "ask"} /\ p \in Pcs BY DEF Pcs
<1>5. /\ TStack' /\ Below(n) /\ Len(stack') = n + 1 /\ stack'[n + 1].who = j /\ stack'[n + 1].pc = p
      /\ stack'[n + 1].ans = "none"
  <2>1. Top.ans = "none" BY <1>0, <1>3 DEF FrameOK
  <2> HIDE DEF p
  <2> QED BY <1>0, <1>1, <1>3, <1>4, <1>j, <2>1, Becoming DEF Inv
<1>6. Sent(j) /\ JobOK(j) /\ Parted(j) BY <1>3, OfJob
<1>7. /\ up[j] = <<>> /\ (child[j] = "waiting" \/ Dead(j)) /\ (child[j] = "waiting" => down[j] = <<>>)
      /\ call[j] = "end" => ctxPid[j] = j
  BY <1>0, <1>3, <1>j DEF FrameOK
<1>8. \/ call[j] = "end" /\ tasks' = tasks \ {j} /\ channels' = channels \ {j}
      \/ call[j] # "end" /\ tasks' = tasks /\ channels' = channels
  BY <1>1, <1>7
<1>9. TPlace' /\ TPipes' /\ OwnPid'
  <2>1. ctxPid \in [Jobs -> 0 .. N] BY DEF Inv, TPlace
  <2>2. ctxPid' \in [Jobs -> 0 .. N] BY <1>1, <2>1, JobsAreNumbers
  <2>3. OwnPid' BY <1>1, <2>1 DEF Inv, OwnPid
  <2> QED BY <1>1, <1>2, <1>8, <2>2, <2>3 DEF Inv, TPlace, TPipes
<1>10. Sent(j)' /\ JobOK(j)' BY <1>1, <1>2, <1>6 DEF Sent, JobOK, Alive, Dead
<1>11. \A i \in DOMAIN stack' : i = n + 1 => FrameOK(stack[i])'
  <2>1. CASE call[j] = "end" BY <1>2, <1>5, <1>7, <1>8, <2>1 DEF FrameOK, Dead
  <2>2. CASE call[j] # "end" BY <1>2, <1>5, <1>7, <2>2 DEF FrameOK, Dead
  <2> QED BY <2>1, <2>2
<1>12. \A i \in 1 .. n : stack[i].pc = "ask" => stack[i].who # j
  BY <1>0, <1>j, NobodyElse DEF Engaged
<1>13. PartedAll'
  <2>1. ASSUME NEW k \in Jobs, Away(k)' PROVE k \notin tasks' /\ Absent(k)'
    <3>1. Away(k) BY <1>2, <2>1 DEF Away, Dead
    <3>2. k # j /\ k \notin tasks /\ Absent(k)
      BY <1>0, <1>3, <1>j, <3>1 DEF Inv, PartedAll, Parted, Absent
    <3> HIDE DEF n
    <3>3. Absent(k)' BY <1>3, <1>5, <3>2, AbsentStays DEF Inv
    <3> QED BY <1>8, <3>2, <3>3
  <2> QED BY <2>1 DEF PartedAll, Parted, Absent
<1>14. WatchedAll'
  <2>1. ASSUME NEW k \in Jobs PROVE Watched(k)'
    <3>1. Watched(k) BY OfJob
    <3>2. k = j /\ call[j] = "end" => ~Alive(j) \/ child[j] = "waiting" BY <1>7 DEF Alive, Dead
    <3> QED BY <1>1, <1>2, <1>8, <3>1, <3>2 DEF Watched, Alive
  <2> QED BY <2>1 DEF WatchedAll
<1>15. j # 0 /\ p # "list" BY JobsAreNumbers
<1>16. child' \in [Jobs -> Lives] BY <1>2 DEF Inv, TJobs
<1> HIDE DEF n, p
<1>17. Len(stack') = n + 1 =>
         /\ stack'[n + 1].who = 0 <=> stack'[n + 1].pc = "list"
         /\ \A i \in DOMAIN stack' : i = n + 1 => FrameOK(stack[i])'
         /\ stack'[n + 1].pc \in Engaged =>
              \A i \in 1 .. n : stack[i].pc = "ask" => stack[i].who # stack'[n + 1].who
  BY <1>5, <1>11, <1>12, <1>15
<1>18. UNCHANGED <<world, mc, listed, pressed, stopped, call, left, calls, status, hist>> BY <1>1, <1>2
<1> QED BY <1>0, <1>2, <1>3, <1>5, <1>9, <1>10, <1>12, <1>13, <1>14, <1>16, <1>17, <1>18, <1>j, AttentionMoves

LEMMA ReplyStep == ASSUME Inv, Reply PROVE Inv'
<1>0. stack # <<>> /\ Top.pc = "reply" BY DEF Reply, At
<1>j. PICK j \in Jobs : Top.who = j BY <1>0, Running
<1>c. Caller = j BY <1>j DEF Caller
<1>1. UNCHANGED <<world, listed, pressed, stopped, call, left, calls, up, hist>> BY DEF Reply
<1>2. CASE ~Alive(j) /\ GoneWith({}) /\ UNCHANGED down
  <2>1. \E k \in Jobs : status[k] # "ok" BY <1>0, <1>2, <1>j, DiedOnIt
  <2> QED BY <1>1, <1>2, <2>1, GoneStep DEF pipes
<1>3. CASE /\ Alive(j) /\ down' = [down EXCEPT ![j] = Append(@, Top.ans)]
           /\ UNCHANGED <<mc, tasks, channels, ctxPid, child, status>> /\ Return
  <2> DEFINE n == Len(stack) - 1
  <2>1. /\ n \in Nat /\ n = Len(stack) - 1 /\ mc = "up" /\ FrameOK(Top) /\ Top \in FrameType
        /\ n <= Len(stack) /\ \A i \in 1 .. n : stack[i].pc \in Waits /\ i \in DOMAIN stack
    BY <1>0, Running
  <2>2. channels' \subseteq Jobs /\ channels' \subseteq tasks' BY <1>3 DEF Inv, TPlace
  <2>3. TStack' /\ Below(n) /\ Begun(n) BY <1>0, <1>3, <2>2, Returning DEF Inv
  <2> HIDE DEF n
  <2>4. /\ child[j] = "waiting" /\ down[j] = <<>> /\ up[j] = <<>>
        /\ call[j] = "end" => Top.ans = "none" /\ j \notin tasks
    BY <1>0, <1>3, <1>j, <2>1 DEF FrameOK, Alive, Dead
  <2>5. Top.ans \in Answers \cup {"none"} BY <2>1 DEF FrameType
  <2>6. /\ down'[j] = <<Top.ans>> /\ \A k \in Jobs \ {j} : down'[k] = down[k]
        /\ down' \in [Jobs -> Seq(Answers \cup {"none"})]
    <3>1. Append(<<>>, Top.ans) = <<Top.ans>> /\ <<Top.ans>> \in Seq(Answers \cup {"none"}) BY <2>5
    <3> QED BY <1>3, <2>4, <3>1 DEF Inv, TPipes
  <2>7. TPlace' /\ TPipes' /\ OwnPid' BY <1>1, <1>3, <2>6 DEF Inv, TPlace, TPipes, OwnPid, hist
  <2>8. Sent(j) /\ JobOK(j) BY <2>1, OfJob
  <2>9. Sent(j)' BY <1>1, <1>3, <2>8 DEF Sent
  <2>10. JobOK(j)'
    <3>1. Len(<<Top.ans>>) = 1 /\ <<Top.ans>>[1] = Top.ans OBVIOUS
    <3>2. got'[j] = got[j] BY <1>1 DEF hist
    <3> QED BY <1>1, <1>3, <2>4, <2>6, <2>8, <3>1, <3>2 DEF JobOK, Dead
  <2>11. Len(stack') = n \/ Len(stack') = n + 1 BY <2>3 DEF Begun
  <2>12. \A i \in 1 .. n : stack[i].pc = "ask" => stack[i].who # j
    BY <1>0, <1>j, <2>1, NobodyElse DEF Engaged
  <2>13. ASSUME NEW k \in Jobs, Away(k)' PROVE k \notin tasks' /\ Absent(k)'
    <3>1. Len(stack') = n + 1 => stack'[n + 1].who \in tasks' BY <2>2, <2>3 DEF Begun
    <3>2. CASE k # j
      <4>1. Away(k) BY <1>1, <1>3, <2>6, <2>13, <3>2 DEF Away, Dead
      <4>2. k \notin tasks /\ Absent(k) BY <2>1, <4>1 DEF Inv, PartedAll, Parted, Absent
      <4>3. Absent(k)' BY <1>3, <2>1, <2>3, <2>11, <3>1, <4>2, AbsentStays DEF Inv
      <4> QED BY <1>3, <4>2, <4>3
    <3>3. CASE k = j
      <4>1. j \notin tasks' BY <1>1, <1>3, <2>4, <2>13, <3>3 DEF Away, Dead
      <4>2. ASSUME NEW i \in DOMAIN stack', stack'[i].who = j PROVE stack'[i].pc = "notice"
        <5>1. /\ DOMAIN stack' = 1 .. Len(stack') /\ Len(stack') \in Nat /\ Len(stack) \in Nat
          BY <2>3 DEF TStack, Inv
        <5>2. i \in 1 .. n \/ (i = n + 1 /\ Len(stack') = n + 1) BY <2>1, <2>11, <5>1, Places
        <5>3. CASE i \in 1 .. n
          <6>1. /\ stack'[i] = stack[i] /\ stack[i].pc \in Waits /\ stack[i].pc # "ask"
            BY <2>1, <2>3, <2>12, <4>2, <5>3 DEF Below
          <6>2. stack[i].pc # "list" BY <2>1, <4>2, <5>3, <6>1, JobsAreNumbers DEF Inv, Nested
          <6> QED BY <6>1, <6>2 DEF Waits
        <5>4. CASE i = n + 1 /\ Len(stack') = n + 1 BY <3>1, <4>1, <4>2, <5>4
        <5> QED BY <5>2, <5>3, <5>4
      <4> QED BY <3>3, <4>1, <4>2 DEF Absent
    <3> QED BY <3>2, <3>3
  <2>14. PartedAll' BY <2>13 DEF PartedAll, Parted, Absent
  <2>15. WatchedAll' BY <1>1, <1>3 DEF Inv, WatchedAll, Watched, Alive, hist
  <2>16. Len(stack') = n + 1 =>
           /\ stack'[n + 1].who = 0 <=> stack'[n + 1].pc = "list"
           /\ \A i \in DOMAIN stack' : i = n + 1 => FrameOK(stack[i])'
           /\ stack'[n + 1].pc \notin Engaged
    <3>1. Len(stack') = n + 1 =>
            stack'[n + 1].who \in Jobs /\ stack'[n + 1].pc = "routine" /\ stack'[n + 1].ans = "none"
      BY <2>2, <2>3 DEF Begun
    <3>2. Len(stack') = n + 1 => \A i \in DOMAIN stack' : i = n + 1 => FrameOK(stack[i])'
      BY <3>1 DEF FrameOK
    <3> QED BY <3>1, <3>2, JobsAreNumbers DEF Engaged
  <2>17. /\ child' \in [Jobs -> Lives] /\ \A k \in Jobs : child'[k] = child[k]
         /\ UNCHANGED <<world, mc, listed, pressed, stopped, call, left, calls, status, hist>>
         /\ \A k \in Jobs \ {j} : up'[k] = up[k] /\ down'[k] = down[k]
    BY <1>1, <1>3, <2>6 DEF Inv, TJobs
  <2> QED BY <1>0, <1>j, <2>1, <2>3, <2>7, <2>9, <2>10, <2>11, <2>12, <2>14, <2>15, <2>16, <2>17, AttentionMoves
<1> QED BY <1>c, <1>2, <1>3 DEF Reply

\* The end of a pipe: its job is forgotten.
LEMMA LostMoves ==
  ASSUME Inv, stack # <<>>, NEW j \in Jobs, Top.who = j, ~Alive(j),
         tasks' = tasks \ {ctxPid[j]}, channels' = channels \ {j}, child' \in [Jobs -> Lives],
         \A k \in Jobs : child'[k] = child[k] \/ (child[k] = "zombie" /\ child'[k] = "reaped"),
         Return \/ Become("notice"),
         UNCHANGED <<world, mc, ctxPid, status, listed, pressed, stopped, call, left, calls, pipes, hist>>
  PROVE  Inv'
<1> DEFINE n == Len(stack) - 1
<1>1. /\ n \in Nat /\ n = Len(stack) - 1 /\ mc = "up" /\ n <= Len(stack) /\ Len(stack) = n + 1
  BY Running
<1>2. up' = up /\ down' = down BY DEF pipes
<1>3. channels' \subseteq tasks' /\ tasks' \subseteq Jobs /\ tasks' \subseteq tasks /\ channels' \subseteq Jobs
  BY DEF Inv, OwnPid, TPlace
<1>4. TPlace' /\ TPipes' /\ OwnPid' BY <1>3 DEF Inv, TPlace, TPipes, OwnPid, pipes, hist
<1>5. /\ TStack' /\ Below(n) /\ (Len(stack') = n \/ Len(stack') = n + 1)
      /\ Len(stack') = n + 1 =>
           \/ stack'[n + 1].who = j /\ stack'[n + 1].pc = "notice"
           \/ stack'[n + 1].who \in channels' /\ stack'[n + 1].pc = "routine" /\ stack'[n + 1].ans = "none"
  <2>1. CASE Return
    <3>1. TStack' /\ Below(n) /\ Begun(n) BY <1>3, <2>1, Returning DEF Inv
    <3> QED BY <3>1 DEF Begun
  <2>2. CASE Become("notice") BY <1>1, <2>2, Becoming DEF Inv, Pcs
  <2> QED BY <2>1, <2>2
<1> HIDE DEF n
<1>6. ASSUME NEW k \in Jobs PROVE (Alive(k)' <=> Alive(k)) /\ (Dead(k)' <=> Dead(k))
                                  /\ (child'[k] = "waiting" <=> child[k] = "waiting")
  BY <1>6 DEF Alive, Dead
<1>7. Sent(j)' /\ JobOK(j)'
  <2>1. Sent(j) /\ JobOK(j) BY <1>1, OfJob
  <2>2. Sent(j)' BY <1>2, <1>6, <2>1 DEF Sent, Dead
  <2>3. JobOK(j)' BY <1>2, <1>6, <2>1 DEF JobOK, Dead, hist
  <2> QED BY <2>2, <2>3
<1>8. PartedAll'
  <2>1. ASSUME NEW k \in Jobs, Away(k)' PROVE k \notin tasks' /\ Absent(k)'
    <3>1. Away(k) BY <1>2, <1>6, <2>1 DEF Away
    <3>2. k \notin tasks /\ k \notin channels' /\ Absent(k) BY <1>1, <1>3, <3>1 DEF Inv, PartedAll, Parted, Absent
    <3>3. Len(stack') = n + 1 /\ stack'[n + 1].who = k => stack'[n + 1].pc = "notice" BY <1>5, <3>2
    <3>4. Absent(k)' BY <1>1, <1>5, <3>2, <3>3, AbsentStays DEF Inv
    <3> QED BY <1>3, <3>2, <3>4
  <2> QED BY <2>1 DEF PartedAll, Parted, Absent
<1>9. WatchedAll'
  <2>1. ASSUME NEW k \in Jobs PROVE Watched(k)'
    <3>1. Watched(k) /\ ~Alive(j) BY OfJob
    <3>2. k = j \/ (k \in channels' <=> k \in channels) OBVIOUS
    <3>3. CASE k = j BY <1>6, <3>1, <3>3 DEF Watched
    <3>4. CASE k # j BY <1>6, <3>1, <3>2, <3>4 DEF Watched, hist
    <3> QED BY <3>3, <3>4
  <2> QED BY <2>1 DEF WatchedAll
<1>10. Len(stack') = n + 1 =>
         /\ stack'[n + 1].who = 0 <=> stack'[n + 1].pc = "list"
         /\ \A i \in DOMAIN stack' : i = n + 1 => FrameOK(stack[i])'
         /\ stack'[n + 1].pc \notin Engaged
  <2>1. Len(stack') = n + 1 => \A i \in DOMAIN stack' : i = n + 1 => FrameOK(stack[i])'
    BY <1>5 DEF FrameOK
  <2> QED BY <1>3, <1>5, <2>1, JobsAreNumbers DEF Engaged
<1>11. /\ \A k \in Jobs \ {j} : up'[k] = up[k] /\ down'[k] = down[k]
       /\ up'[j] = up[j] /\ down'[j] = down[j]
  BY <1>2
<1> QED BY <1>1, <1>4, <1>5, <1>7, <1>8, <1>9, <1>10, <1>11, AttentionMoves

LEMMA LostStep == ASSUME Inv, Lost PROVE Inv'
<1>0. stack # <<>> /\ Top.pc = "routine" /\ ~Alive(Top.who) BY DEF Lost, At
<1>j. PICK j \in Jobs : Top.who = j BY <1>0, Running
<1>1. UNCHANGED <<world, listed, pressed, stopped, call, left, calls, pipes, hist>> BY DEF Lost
<1> DEFINE pid == ctxPid[j]
<1>2. CASE GoneWith(Jobs)
  <2>1. \E k \in Jobs : status[k] # "ok" BY <1>0, <1>j, DiedOnIt
  <2> QED BY <1>1, <1>2, <2>1, GoneStep
<1>3. CASE /\ tasks' = tasks \ {pid} /\ channels' = channels \ {j} /\ (Return \/ Become("notice"))
           /\ UNCHANGED <<mc, ctxPid, status>>
           /\ child' = child \/ \E k \in Jobs : child[k] = "zombie" /\ child' = [child EXCEPT ![k] = "reaped"]
  <2>1. /\ child' \in [Jobs -> Lives]
        /\ \A k \in Jobs : child'[k] = child[k] \/ (child[k] = "zombie" /\ child'[k] = "reaped")
    BY <1>3 DEF Inv, TJobs, Lives
  <2> QED BY <1>0, <1>1, <1>3, <1>j, <2>1, LostMoves
<1>4. ASSUME NEW k \in Waited(pid) PROVE k \in Jobs /\ child[k] = "zombie"
  BY <1>4 DEF Waited, Inv, OwnPid
<1> QED BY <1>2, <1>3, <1>4, <1>j DEF Lost, Removed

-----------------------------------------------------------------------------
(* The invariant holds *)

LEMMA InitHolds == Init => Inv
<1> SUFFICES ASSUME Init PROVE Inv
  OBVIOUS
<1>1. TPlace /\ OwnPid BY JobsAreNumbers, BoundsAssumption DEF Init, TPlace, OwnPid
<1>2. TStack /\ TJobs /\ TPipes
  <2>1. stack = <<>> /\ <<>> \in Seq(FrameType) /\ <<>> \in Seq(AllParts) /\ <<>> \in Seq(Answers \cup {"none"})
    BY DEF Init
  <2> QED BY <2>1 DEF Init, TStack, TJobs, TPipes, Lives
<1>3. Nested /\ FramesOK /\ OneCall
  <2>1. stack = <<>> /\ mc = "up" BY DEF Init
  <2> QED BY <2>1 DEF Nested, FramesOK, OneCall
<1>4. ASSUME NEW j \in Jobs PROVE Counted(j) /\ Sent(j) /\ JobOK(j) /\ Parted(j) /\ Watched(j)
  <2>1. /\ child[j] = "unborn" /\ calls[j] = 0 /\ left[j] = <<>> /\ up[j] = <<>> /\ down[j] = <<>>
        /\ call[j] = "end" /\ status[j] = "ok" /\ tasks = {} /\ stack = <<>>
    BY DEF Init
  <2>2. Counted(j)
    <3>1. world.calls \in Nat BY WorldsAssumption DEF Init
    <3> QED BY <2>1, <3>1 DEF Counted
  <2>3. Sent(j)
    <3>1. Parts("end") = <<"routine", "head", "ctx">> BY DEF Parts
    <3> QED BY <2>1, <3>1 DEF Sent, Rest
  <2>4. JobOK(j) BY <2>1 DEF JobOK, Dead, Alive
  <2>5. Parted(j) BY <2>1 DEF Parted
  <2>6. Watched(j) BY <2>1 DEF Watched, Alive
  <2> QED BY <2>2, <2>3, <2>4, <2>5, <2>6
<1>5. OrderlyEnds BY DEF Init, OrderlyEnds
<1> QED BY <1>1, <1>2, <1>3, <1>4, <1>5 DEF Inv, CountedAll, SentAll, JobsOK, PartedAll, WatchedAll

LEMMA StutterHolds == Inv /\ UNCHANGED vars => Inv'
<1> SUFFICES ASSUME Inv, UNCHANGED vars PROVE Inv'
  OBVIOUS
<1>1. /\ UNCHANGED <<world, mc, stack, tasks, channels, ctxPid, listed, pressed>>
      /\ UNCHANGED <<child, stopped, call, left, calls, status, up, down, got, killed>>
  BY DEF vars, parent, children, pipes, hist
<1>2. TPlace' /\ TStack' /\ TJobs' /\ TPipes' /\ Nested' /\ OwnPid' /\ OneCall' /\ OrderlyEnds'
  BY <1>1 DEF Inv, TPlace, TStack, TJobs, TPipes, Nested, OwnPid, OneCall, OrderlyEnds
<1>3. CountedAll' /\ SentAll' BY <1>1 DEF Inv, CountedAll, Counted, Alive, SentAll, Sent
<1>4. JobsOK' BY <1>1 DEF Inv, JobsOK, JobOK, Alive, Dead
<1>5. FramesOK' BY <1>1 DEF Inv, FramesOK, FrameOK, Alive, Dead
<1>6. PartedAll' /\ WatchedAll' BY <1>1 DEF Inv, PartedAll, Parted, Away, Dead, WatchedAll, Watched, Alive
<1> QED BY <1>2, <1>3, <1>4, <1>5, <1>6 DEF Inv

LEMMA StepHolds == Inv /\ [Next]_vars => Inv'
<1> SUFFICES ASSUME Inv, Next PROVE Inv'
  BY StutterHolds
<1>1. ASSUME NEW j \in Jobs, Child(j) \/ Crashes(j) \/ Start(j) PROVE Inv'
  BY <1>1, AskStep, WriteStep, ReadStep, ExitedStep, CrashesStep, StartStep DEF Child
<1>2. CASE Select \/ Attention \/ User
  BY <1>2, SelectStep, ReadPartStep, ReadFailsStep, LostStep, CallStep, ReplyStep, AnswerStep, CloseStep,
     CloseListStep
  DEF Attention, User
<1>3. CASE OpenList \/ Stop \/ Resume \/ Kill \/ Quit BY <1>3, OpenListStep, SignalStep, KillStep, QuitStep
<1> QED BY <1>1, <1>2, <1>3 DEF Next

\* What every state of Midnight Commander and its jobs in the background is like.
THEOREM InvariantHolds == Spec => []Inv
BY InitHolds, StepHolds, PTL DEF Spec

\* Types; a job has at most one answer in its pipe, and only a listed task is watched
\* by the event loops.
THEOREM TypeCorrect == Spec => []TypeOK
<1>1. Inv => TypeOK
  <2> SUFFICES ASSUME Inv PROVE TypeOK
    OBVIOUS
  <2>1. calls \in [Jobs -> 0 .. world.calls + 1]
    <3>1. ASSUME NEW j \in Jobs PROVE calls[j] \in 0 .. world.calls + 1
      <4>1. Counted(j) /\ calls[j] \in Nat /\ world.calls \in Nat BY OfJob
      <4> QED BY <4>1 DEF Counted
    <3> QED BY <3>1 DEF Inv, TJobs
  <2>2. \A j \in Jobs : Len(down[j]) <= 1 BY DEF Inv, JobsOK, JobOK
  <2>3. TPlace /\ TJobs /\ TPipes /\ stack \in Seq(FrameType) BY DEF Inv, TStack
  <2> QED BY <2>1, <2>2, <2>3 DEF TypeOK, TPlace, TJobs, TPipes, FrameType, Lives
<1> QED BY <1>1, InvariantHolds, PTL

\* The list of jobs (boxes.c) shows each job that runs until it says good-bye or is
\* killed, and none that has come to its end.
THEOREM ListIsTrue == Spec => []ListShowsJobs
<1>1. Inv => ListShowsJobs
  <2> SUFFICES ASSUME Inv, mc = "up", NEW j \in Jobs \ killed
               PROVE  /\ Alive(j) /\ ~(call[j] = "end" /\ child[j] = "waiting") => j \in tasks \cap channels
                      /\ child[j] \in {"ending", "zombie", "reaped"} /\ status[j] = "ok" => j \notin tasks
    BY DEF ListShowsJobs
  <2>1. Watched(j) /\ Parted(j) /\ channels \subseteq tasks BY OfJob DEF Inv, TPlace
  <2> QED BY <2>1 DEF Watched, Parted, Away, Dead
<1> QED BY <1>1, InvariantHolds, PTL

\* Jobs that neither crash nor are killed do not take Midnight Commander with them.
THEOREM EndsAreOrderly == Spec => []OrderlyEnds
<1>1. Inv => OrderlyEnds BY DEF Inv
<1> QED BY <1>1, InvariantHolds, PTL

-----------------------------------------------------------------------------
(* The promise of RemoteCall *)

Screen == [i \in DOMAIN stack |-> Shown(stack[i])]
Promised == [Calls!Next]_(Calls!vars)
Same(k) == StateOf(k)' = StateOf(k) /\ AnswerOf(k)' = AnswerOf(k)
Kept == \A k \in Jobs : Same(k)

LEMMA ScreenIs ==
  ASSUME TStack
  PROVE  /\ Screen \in Seq(0 .. N) /\ Len(Screen) = Len(stack) /\ DOMAIN Screen = 1 .. Len(stack)
         /\ \A i \in DOMAIN stack : Screen[i] = Shown(stack[i])
         /\ stack # <<>> => Screen # <<>> /\ Last(Screen) = Shown(Top)
<1>1. ASSUME NEW i \in DOMAIN stack PROVE Shown(stack[i]) \in 0 .. N
  <2>1. stack[i] \in FrameType BY DEF TStack
  <2> QED BY <2>1, JobsAreNumbers DEF Shown, FrameType
<1>2. DOMAIN stack = 1 .. Len(stack) /\ Len(stack) \in Nat BY DEF TStack
<1>3. Screen \in Seq(0 .. N) /\ Len(Screen) = Len(stack) BY <1>1, <1>2 DEF Screen
<1>4. ASSUME stack # <<>> PROVE Screen # <<>> /\ Last(Screen) = Shown(Top)
  <2>1. Len(stack) # 0 BY <1>4, EmptySeq DEF TStack
  <2>2. Len(stack) \in DOMAIN stack BY <1>2, <2>1
  <2> QED BY <1>3, <2>1, <2>2, EmptySeq DEF Screen, Top, Last
<1> QED BY <1>2, <1>3, <1>4 DEF Screen

\* Windows come and go without a job taking notice.
LEMMA Unnoticed ==
  ASSUME Inv, Kept, mc' = mc,
         \/ Screen' = Screen
         \/ mc = "up" /\ Screen' = Append(Screen, 0)
         \/ stack # <<>> /\ Shown(Top) = 0 /\ Screen' = Front(Screen)
  PROVE  Promised
<1>1. /\ [j \in Jobs |-> StateOf(j)]' = [j \in Jobs |-> StateOf(j)]
      /\ [j \in Jobs |-> AnswerOf(j)]' = [j \in Jobs |-> AnswerOf(j)]
  BY DEF Kept, Same
<1>2. CASE Screen' = Screen BY <1>1, <1>2 DEF Promised, Calls!vars, Screen
<1>3. CASE mc = "up" /\ Screen' = Append(Screen, 0)
  <2>1. Calls!Window BY <1>1, <1>3 DEF Calls!Window, Screen
  <2> QED BY <2>1 DEF Promised, Calls!Next
<1>4. CASE stack # <<>> /\ Shown(Top) = 0 /\ Screen' = Front(Screen)
  <2>1. Screen # <<>> /\ Last(Screen) = 0 BY <1>4, ScreenIs DEF Inv
  <2>2. Calls!CloseWindow BY <1>1, <1>4, <2>1 DEF Calls!CloseWindow, Calls!Last, Calls!Front, Last, Front, Screen
  <2> QED BY <2>2 DEF Promised, Calls!Next
<1> QED BY <1>2, <1>3, <1>4

\* One job goes on.
LEMMA Turned ==
  ASSUME NEW j \in Jobs, \A k \in Jobs \ {j} : Same(k)
  PROVE  /\ [k \in Jobs |-> StateOf(k)]' = [[k \in Jobs |-> StateOf(k)] EXCEPT ![j] = StateOf(j)']
         /\ [k \in Jobs |-> AnswerOf(k)]' = [[k \in Jobs |-> AnswerOf(k)] EXCEPT ![j] = AnswerOf(j)']
BY DEF Same

LEMMA OverKeeps ==
  ASSUME NEW j \in Jobs, \A k \in Jobs \ {j} : Same(k), Screen' = Screen, mc' = mc, Dead(j)'
  PROVE  Promised
<1>1. StateOf(j)' = "over" /\ AnswerOf(j)' = "none"
  <2>1. StateOf(j)' = "over" BY DEF StateOf, Dead
  <2> QED BY <2>1 DEF AnswerOf
<1>2. Calls!Over(j) BY <1>1, Turned DEF Calls!Over, Calls!NoAnswer, Screen
<1> QED BY <1>2 DEF Promised, Calls!Next

\* The call of a job is not touched.
LEMMA Untouched ==
  ASSUME NEW k \in Jobs, call'[k] = call[k], down'[k] = down[k], got'[k] = got[k],
         child'[k] = child[k], Replying(k)' <=> Replying(k), Replying(k) => Top'.ans = Top.ans
  PROVE  Same(k)
<1>1. StateOf(k)' = StateOf(k) BY DEF StateOf
<1>2. AnswerOf(k)' = AnswerOf(k) BY <1>1 DEF AnswerOf
<1> QED BY <1>1, <1>2 DEF Same

LEMMA DeadStays ==
  ASSUME NEW k \in Jobs, Dead(k), Dead(k)'
  PROVE  Same(k)
<1>1. StateOf(k)' = "over" /\ StateOf(k) = "over" BY DEF StateOf, Dead
<1> QED BY <1>1 DEF Same, AnswerOf

\* One job moves, and the stack does not.
LEMMA OthersKeep ==
  ASSUME NEW j \in Jobs, stack' = stack, Alone(j)
  PROVE  \A k \in Jobs \ {j} : Same(k)
<1>1. ASSUME NEW k \in Jobs PROVE (Replying(k)' <=> Replying(k)) /\ Top' = Top BY DEF Replying, At, Top
<1> QED BY <1>1, Untouched DEF Alone

LEMMA StateIs ==
  ASSUME NEW j \in Jobs
  PROVE  /\ child[j] \in {"unborn", "busy"} => StateOf(j) = "running"
         /\ Dead(j) => StateOf(j) = "over" /\ AnswerOf(j) = "none"
         /\ child[j] \in {"asking", "waiting"} /\ call[j] = "end" => StateOf(j) = "leaving"
         /\ child[j] \in {"asking", "waiting"} /\ call[j] # "end" /\ down[j] = <<>> /\ ~Replying(j) =>
              StateOf(j) = "asking"
         /\ child[j] \in {"asking", "waiting"} /\ call[j] # "end" /\ (down[j] # <<>> \/ Replying(j)) =>
              StateOf(j) = "answered"
<1>1. /\ child[j] \in {"unborn", "busy"} => StateOf(j) = "running"
      /\ Dead(j) => StateOf(j) = "over"
      /\ child[j] \in {"asking", "waiting"} /\ call[j] = "end" => StateOf(j) = "leaving"
  BY DEF StateOf, Dead
<1>2. /\ child[j] \in {"asking", "waiting"} /\ call[j] # "end" /\ down[j] = <<>> /\ ~Replying(j) =>
           StateOf(j) = "asking"
      /\ child[j] \in {"asking", "waiting"} /\ call[j] # "end" /\ (down[j] # <<>> \/ Replying(j)) =>
           StateOf(j) = "answered"
  BY DEF StateOf
<1> QED BY <1>1, <1>2 DEF AnswerOf

\* Only a call that replies is answered.
LEMMA NotReplying ==
  ASSUME NEW k, stack = <<>> \/ Top.pc # "reply"
  PROVE  ~Replying(k)
BY DEF Replying, At

LEMMA TopAfter ==
  ASSUME TStack', NEW n \in Nat, Len(stack') = n + 1
  PROVE  stack' # <<>> /\ Top' = stack'[n + 1] /\ n + 1 \in DOMAIN stack'
<1>1. stack' # <<>>
  <2>1. Len(stack') # 0 BY DEF TStack
  <2> QED BY <2>1, EmptySeq
<1> QED BY <1>1 DEF Top, Last, TStack

\* The innermost frame is replaced.
LEMMA TurnedScreen ==
  ASSUME Inv, stack # <<>>, TStack', NEW n \in Nat, n = Len(stack) - 1, Below(n), Len(stack') = n + 1
  PROVE  Screen' = [Screen EXCEPT ![Len(Screen)] = Shown(stack'[n + 1])]
<1>1. /\ Screen' = [i \in 1 .. n + 1 |-> Shown(stack'[i])] /\ Screen = [i \in 1 .. n + 1 |-> Shown(stack[i])]
      /\ Len(Screen) = n + 1
  BY ScreenIs DEF Inv, TStack, Screen
<1>2. \A i \in 1 .. n + 1 : i \in 1 .. n \/ i = n + 1 OBVIOUS
<1> QED BY <1>1, <1>2 DEF Below

LEMMA SameScreen ==
  ASSUME Inv, stack # <<>>, TStack', NEW n \in Nat, n = Len(stack) - 1, Below(n), Len(stack') = n + 1,
         Shown(stack'[n + 1]) = Shown(Top)
  PROVE  Screen' = Screen
<1>1. Screen' = [Screen EXCEPT ![Len(Screen)] = Shown(Top)] BY TurnedScreen
<1>2. Screen \in Seq(0 .. N) /\ Len(Screen) = Len(stack) /\ Screen[Len(stack)] = Shown(Top)
  BY TopIs, ScreenIs DEF Inv
<1> QED BY <1>1, <1>2

LEMMA ReturnedScreen ==
  ASSUME Inv, stack # <<>>, Return, channels' \subseteq Jobs, Shown(Top) = 0
  PROVE  /\ Screen' = Screen \/ Screen' = Front(Screen)
         /\ \A k : ~Replying(k)'
<1> DEFINE n == Len(stack) - 1
<1>1. /\ n \in Nat /\ n = Len(stack) - 1 /\ Len(stack) = n + 1
      /\ \A i \in 1 .. n : stack[i].pc \in Waits /\ i \in DOMAIN stack
  BY Running
<1>2. TStack' /\ Below(n) /\ Begun(n) BY Returning DEF Inv
<1> HIDE DEF n
<1>3. CASE Len(stack') = n
  <2>1. Screen' = [i \in 1 .. n |-> Shown(stack'[i])] /\ Len(Screen) = n + 1
        /\ \A i \in 1 .. n + 1 : Screen[i] = Shown(stack[i])
    BY <1>1, <1>2, <1>3, ScreenIs DEF Inv, TStack, Screen
  <2>2. Front(Screen) = [i \in 1 .. n |-> Screen[i]]
    <3>1. Len(Screen) - 1 = n BY <1>1, <2>1
    <3> QED BY <3>1 DEF Front
  <2>3. Screen' = Front(Screen) BY <1>1, <1>2, <2>1, <2>2 DEF Below
  <2>4. ASSUME NEW k PROVE ~Replying(k)'
    <3>1. CASE stack' = <<>> BY <3>1 DEF Replying, At
    <3>2. CASE stack' # <<>>
      <4>1. n # 0 /\ n \in 1 .. n /\ Top' = stack'[n]
        <5>1. Len(stack') # 0 BY <1>2, <3>2, EmptySeq DEF TStack
        <5> QED BY <1>1, <1>3, <5>1 DEF Top, Last
      <4>2. Top'.pc \in Waits BY <1>1, <1>2, <4>1 DEF Below
      <4> QED BY <4>2 DEF Replying, At, Waits
    <3> QED BY <3>1, <3>2
  <2> QED BY <2>3, <2>4
<1>4. CASE Len(stack') = n + 1
  <2>1. stack'[n + 1].pc = "routine" BY <1>1, <1>2, <1>4 DEF Begun
  <2>2. Screen' = Screen BY <1>1, <1>2, <1>4, <2>1, SameScreen DEF Shown
  <2>3. Top' = stack'[n + 1] BY <1>1, <1>2, <1>4, TopAfter
  <2> QED BY <2>1, <2>2, <2>3 DEF Replying, At
<1> QED BY <1>2, <1>3, <1>4 DEF Begun

-----------------------------------------------------------------------------
(* Each step keeps the promise *)

LEMMA AskKeeps == ASSUME Inv, NEW j \in Jobs, Ask(j) PROVE Promised
<1>1. /\ child[j] = "busy" /\ UNCHANGED <<world, mc, parent, stopped, status, pipes, killed>>
      /\ calls' = [calls EXCEPT ![j] = @ + 1] /\ child' = [child EXCEPT ![j] = "asking"]
      /\ left' = [left EXCEPT ![j] = Parts(call'[j])] /\ got' = [got EXCEPT ![j] = "none"]
      /\ \E k \in Kinds \cup {"end"} : call' = [call EXCEPT ![j] = k]
  BY WorldsAssumption DEF Ask, Inv, TPlace
<1>2. /\ child'[j] = "asking" /\ got'[j] = "none" /\ down' = down /\ down[j] = <<>>
      /\ stack' = stack /\ mc' = mc /\ Screen' = Screen
  <2>1. down[j] = <<>> BY <1>1, OfJob DEF JobOK, Dead
  <2> QED BY <1>1, <2>1 DEF Inv, TJobs, pipes, parent, Screen
<1>3. Alone(j) BY <1>1 DEF Alone, Inv, TJobs, TPipes, pipes
<1>4. \A k \in Jobs \ {j} : Same(k) BY <1>2, <1>3, OthersKeep
<1>5. ~Replying(j) /\ ~Replying(j)'
  <2>1. ASSUME Replying(j) PROVE FALSE
    <3>1. stack # <<>> /\ Top.pc = "reply" /\ Top.who = j BY <2>1 DEF Replying, At
    <3> QED BY <1>1, <3>1, Running DEF FrameOK, Dead
  <2> QED BY <1>2, <2>1 DEF Replying, At, Top
<1>6. StateOf(j) = "running" BY <1>1, StateIs
<1>7. AnswerOf(j)' = "none"
  <2>1. StateOf(j)' \in {"leaving", "asking"} BY <1>2, <1>5 DEF StateOf
  <2> QED BY <1>2, <1>5, <2>1 DEF AnswerOf
<1>8. CASE call'[j] = "end"
  <2>1. StateOf(j)' = "leaving" BY <1>2, <1>8 DEF StateOf
  <2>2. Calls!Leave(j)
    BY <1>2, <1>4, <1>6, <1>7, <2>1, Turned DEF Calls!Leave, Calls!Moves, Calls!NoAnswer, Screen
  <2> QED BY <2>2 DEF Promised, Calls!Next
<1>9. CASE call'[j] # "end"
  <2>1. StateOf(j)' = "asking" BY <1>2, <1>5, <1>9 DEF StateOf
  <2>2. Calls!Ask(j)
    BY <1>2, <1>4, <1>6, <1>7, <2>1, Turned DEF Calls!Ask, Calls!Moves, Calls!NoAnswer, Screen
  <2> QED BY <2>2 DEF Promised, Calls!Next
<1> QED BY <1>8, <1>9

\* A job dies.
LEMMA DeathKeeps ==
  ASSUME Inv, NEW j \in Jobs, NEW S \in SUBSET {j}, Dies(S), UNCHANGED <<mc, stack, call, pipes, got>>
  PROVE  Promised
<1>1. Screen' = Screen /\ \A k \in Jobs : (Replying(k)' <=> Replying(k)) /\ Top' = Top
  BY DEF Screen, Replying, At, Top
<1>2. \A k \in Jobs : \/ Alive(k) /\ k \in S /\ child'[k] = "ending" /\ status'[k] = "bad"
                      \/ ~(Alive(k) /\ k \in S) /\ child'[k] = child[k] /\ status'[k] = status[k]
  BY Dying
<1>3. \A k \in Jobs : child'[k] = child[k] => Same(k) BY <1>1, Untouched DEF pipes
<1>4. CASE child'[j] = child[j]
  <2>1. Kept BY <1>2, <1>3, <1>4 DEF Kept
  <2> QED BY <1>1, <2>1, Unnoticed
<1>5. CASE child'[j] = "ending" BY <1>1, <1>2, <1>3, <1>5, OverKeeps DEF Dead
<1> QED BY <1>2, <1>4, <1>5

LEMMA CrashesKeeps == ASSUME Inv, NEW j \in Jobs, Crashes(j) PROVE Promised
BY DeathKeeps DEF Crashes, parent, hist

LEMMA WriteKeeps == ASSUME Inv, NEW j \in Jobs, Write(j) PROVE Promised
<1>1. /\ child[j] = "asking" /\ UNCHANGED <<world, mc, parent, stopped, call, calls, down, hist>>
  BY DEF Write
<1>2. CASE ~Answerable(j) /\ Dies({j}) /\ UNCHANGED <<up, left>>
  BY <1>1, <1>2, DeathKeeps DEF pipes, parent, hist
<1>3. CASE /\ up' = [up EXCEPT ![j] = Append(@, Head(left[j]))] /\ left' = [left EXCEPT ![j] = Tail(@)]
           /\ child' = [child EXCEPT ![j] = IF left'[j] = <<>> THEN "waiting" ELSE @] /\ status' = status
  <2>1. child'[j] \in {"asking", "waiting"} /\ stack' = stack /\ Screen' = Screen
    BY <1>1, <1>3 DEF Inv, TJobs, parent, Screen
  <2>2. Alone(j) BY <1>1, <1>3 DEF Alone, Inv, TJobs, TPipes, hist
  <2>3. Replying(j)' <=> Replying(j) BY <2>1 DEF Replying, At, Top
  <2>4. Same(j)
    <3>1. StateOf(j)' = StateOf(j) BY <1>1, <2>1, <2>3 DEF StateOf
    <3> QED BY <1>1, <2>1, <2>3, <3>1 DEF Same, AnswerOf, Top, hist
  <2>5. Kept BY <2>1, <2>2, <2>4, OthersKeep DEF Kept
  <2> QED BY <1>1, <2>1, <2>5, Unnoticed
<1> QED BY <1>2, <1>3 DEF Write

LEMMA ReadKeeps == ASSUME Inv, NEW j \in Jobs, Read(j) PROVE Promised
<1>1. /\ child[j] = "waiting" /\ Alive(j)
      /\ child' = [child EXCEPT ![j] = IF call[j] = "end" THEN "ending" ELSE "busy"]
      /\ UNCHANGED <<world, mc, parent, stopped, call, left, calls, status, up, killed>>
  BY DEF Read, Alive
<1>2. /\ child'[j] = IF call[j] = "end" THEN "ending" ELSE "busy"
      /\ stack' = stack /\ Screen' = Screen
  BY <1>1 DEF Inv, TJobs, parent, Screen
<1>3. \/ /\ down[j] # <<>> /\ got' = [got EXCEPT ![j] = Head(down[j])] /\ down' = [down EXCEPT ![j] = Tail(@)]
      \/ down[j] = <<>> /\ ~Answerable(j) /\ UNCHANGED <<got, down>>
  BY DEF Read
<1>4. Alone(j) BY <1>1, <1>3 DEF Alone, Inv, TJobs, TPipes
<1>5. \A k \in Jobs \ {j} : Same(k) BY <1>2, <1>4, OthersKeep
<1>6. CASE call[j] = "end" BY <1>1, <1>2, <1>5, <1>6, OverKeeps DEF Dead
<1>7. CASE call[j] # "end" /\ down[j] # <<>>
  <2>1. got'[j] = Head(down[j]) /\ down'[j] = <<>>
    <3>1. Len(down[j]) <= 1 /\ down[j] \in Seq(Answers \cup {"none"}) BY OfJob DEF JobOK
    <3>2. Tail(down[j]) = <<>> BY <1>7, <3>1, OneAnswer
    <3>3. got'[j] = Head(down[j]) BY <1>3, <1>7 DEF Inv, TJobs
    <3>4. down'[j] = Tail(down[j]) BY <1>3, <1>7 DEF Inv, TPipes
    <3> QED BY <3>2, <3>3, <3>4
  <2>2. ~Replying(j) /\ ~Replying(j)'
    <3>1. ASSUME Replying(j) PROVE FALSE
      <4>1. stack # <<>> /\ Top.pc = "reply" /\ Top.who = j BY <3>1 DEF Replying, At
      <4> QED BY <1>1, <1>7, <4>1, Running DEF FrameOK
    <3> QED BY <1>2, <3>1 DEF Replying, At, Top
  <2>3. StateOf(j) = "answered" /\ StateOf(j)' = "running" BY <1>1, <1>2, <1>7 DEF StateOf
  <2>4. AnswerOf(j) = Head(down[j]) BY <1>7, <2>3 DEF AnswerOf
  <2>5. AnswerOf(j)' = Head(down[j]) BY <2>1, <2>2, <2>3 DEF AnswerOf
  <2>6. Calls!Continue(j)
    <3>1. [k \in Jobs |-> AnswerOf(k)]' = [k \in Jobs |-> AnswerOf(k)] BY <1>5, <2>4, <2>5 DEF Same
    <3> QED BY <1>1, <1>2, <1>5, <2>3, <3>1, Turned DEF Calls!Continue, Calls!Moves, Screen
  <2> QED BY <2>6 DEF Promised, Calls!Next
<1>8. CASE call[j] # "end" /\ down[j] = <<>>
  <2>1. got' = got /\ down' = down /\ mc # "up" BY <1>3, <1>8 DEF Answerable
  <2>2. stack = <<>> BY <2>1, Running DEF Inv, TPlace
  <2>3. ~Replying(j) /\ ~Replying(j)' BY <1>2, <2>2 DEF Replying, At
  <2>4. StateOf(j) = "asking" /\ StateOf(j)' = "running" BY <1>1, <1>2, <1>8, <2>3 DEF StateOf
  <2>5. AnswerOf(j) = got[j] BY <1>8, <2>3, <2>4 DEF AnswerOf
  <2>6. AnswerOf(j)' = got[j] BY <1>8, <2>1, <2>3, <2>4 DEF AnswerOf
  <2>7. Calls!GiveUp(j)
    <3>1. [k \in Jobs |-> AnswerOf(k)]' = [k \in Jobs |-> AnswerOf(k)] BY <1>5, <2>5, <2>6 DEF Same
    <3> QED BY <1>1, <1>2, <1>5, <2>1, <2>4, <3>1, Turned DEF Calls!GiveUp, Calls!Moves, Screen
  <2> QED BY <2>7 DEF Promised, Calls!Next
<1> QED BY <1>6, <1>7, <1>8

LEMMA ExitedKeeps == ASSUME Inv, NEW j \in Jobs, Exited(j) PROVE Promised
<1>1. /\ child[j] = "ending" /\ child' = [child EXCEPT ![j] = "zombie"]
      /\ UNCHANGED <<world, mc, parent, stopped, call, left, calls, status, pipes, hist>>
  BY DEF Exited
<1>2. child'[j] = "zombie" /\ stack' = stack /\ Screen' = Screen /\ Alone(j)
  BY <1>1 DEF Inv, TJobs, parent, pipes, hist, Screen, Alone
<1>3. Same(j) BY <1>1, <1>2, DeadStays DEF Dead
<1> QED BY <1>1, <1>2, <1>3, OthersKeep, Unnoticed DEF Kept

LEMMA StartKeeps == ASSUME Inv, NEW j \in Jobs, Start(j) PROVE Promised
<1>1. /\ child[j] = "unborn" /\ child' = [child EXCEPT ![j] = "busy"] /\ stack = <<>>
      /\ UNCHANGED <<world, mc, stack, listed, pressed, stopped, call, left, calls, status, pipes, hist>>
  BY DEF Start, InMain
<1>2. child'[j] = "busy" /\ Screen' = Screen /\ Alone(j)
  BY <1>1 DEF Inv, TJobs, pipes, hist, Screen, Alone
<1>3. ~Replying(j) /\ ~Replying(j)' BY <1>1 DEF Replying, At
<1>4. StateOf(j) = "running" /\ StateOf(j)' = "running" BY <1>1, <1>2 DEF StateOf
<1>5. Same(j) BY <1>1, <1>3, <1>4 DEF Same, AnswerOf, pipes, hist
<1> QED BY <1>1, <1>2, <1>5, OthersKeep, Unnoticed DEF Kept

\* Nothing of the jobs changes, and nobody is being answered.
LEMMA JobsRest ==
  ASSUME UNCHANGED <<child, call, down, got>>, \A k : ~Replying(k), \A k : ~Replying(k)'
  PROVE  Kept
BY Untouched DEF Kept

LEMMA SignalKeeps == ASSUME Inv, Stop \/ Resume PROVE Promised
<1>1. UNCHANGED <<mc, stack, child, call, pipes, hist>> BY DEF Stop, Resume
<1>2. Screen' = Screen /\ \A k \in Jobs : (Replying(k)' <=> Replying(k)) /\ Top' = Top
  BY <1>1 DEF Screen, Replying, At, Top
<1>3. Kept BY <1>1, <1>2, Untouched DEF Kept, pipes, hist
<1> QED BY <1>1, <1>2, <1>3, Unnoticed

LEMMA KillKeeps == ASSUME Inv, Kill PROVE Promised
<1>1. UNCHANGED <<mc, stack, call, pipes, got>> BY DEF Kill
<1>2. PICK j \in listed : \E hit \in Hits(j, FALSE) : Dies(hit) BY DEF Kill
<1>3. PICK S \in SUBSET {j} : Dies(S) BY <1>2 DEF Hits
<1>4. j \in Jobs BY DEF Inv, TPlace
<1> QED BY <1>1, <1>3, <1>4, DeathKeeps

LEMMA SelectKeeps == ASSUME Inv, Select PROVE Promised
<1> DEFINE set == {j \in channels : Readable(j)}  n == Len(stack)
<1>1. /\ mc = "up" /\ Loops /\ stack' = Serve(stack, set)
      /\ UNCHANGED <<world, mc, tasks, channels, ctxPid, listed, pressed, children, pipes, hist>>
  BY DEF Select
<1>2. set \in SUBSET Jobs BY DEF Inv, TPlace
<1>3. \A k : ~Replying(k) BY <1>1 DEF Loops, InMain, At, Replying
<1>4. CASE stack' = stack
  <2>1. Screen' = Screen /\ \A k : ~Replying(k)' BY <1>3, <1>4 DEF Screen, Replying, At, Top
  <2>2. Kept BY <1>1, <1>3, <2>1, JobsRest DEF children, pipes, hist
  <2> QED BY <1>1, <2>1, <2>2, Unnoticed
<1>5. ASSUME NEW j \in set \cap channels', stack' = Append(stack, Frame(j, "routine", set \ {j}, "none"))
      PROVE  Promised
  <2> DEFINE f == Frame(j, "routine", set \ {j}, "none")
  <2> HIDE DEF set
  <2>0. j \in 0 .. N /\ set \ {j} \in SUBSET Jobs BY <1>2, JobsAreNumbers
  <2>1. f \in FrameType /\ f.pc = "routine"
    <3>1. "routine" \in Pcs /\ "none" \in Answers \cup {"none"} BY DEF Pcs
    <3> QED BY <2>0, <3>1 DEF f, Frame, FrameType
  <2> HIDE DEF f
  <2>2. /\ n \in Nat /\ stack' \in Seq(FrameType) /\ Len(stack') = n + 1 /\ stack'[n + 1] = f
        /\ \A i \in 1 .. n : stack'[i] = stack[i]
    BY <1>5, <2>1 DEF f, Inv, TStack
  <2>3. Screen' = Append(Screen, 0)
    <3>1. /\ Screen' = [i \in 1 .. n + 1 |-> Shown(stack'[i])] /\ Screen = [i \in 1 .. n |-> Shown(stack[i])]
          /\ Len(Screen) = n
      BY <2>2, ScreenIs DEF Inv, TStack, Screen
    <3>2. Shown(stack'[n + 1]) = 0 BY <2>1, <2>2 DEF Shown
    <3>3. \A i \in 1 .. n + 1 : i \in 1 .. n \/ i = n + 1 BY <2>2
    <3>4. Append(Screen, 0) = [i \in 1 .. n + 1 |-> IF i = n + 1 THEN 0 ELSE Screen[i]]
      <4>1. Screen \in Seq(0 .. N) BY ScreenIs DEF Inv
      <4> QED BY <2>2, <3>1, <4>1
    <3>5. \A i \in 1 .. n : i # n + 1 BY <2>2
    <3> QED BY <2>2, <3>1, <3>2, <3>3, <3>4, <3>5
  <2>4. \A k : ~Replying(k)'
    <3>1. Top' = f BY <2>2, TopAfter DEF TStack
    <3> QED BY <2>1, <3>1 DEF Replying, At
  <2>5. Kept BY <1>1, <1>3, <2>4, JobsRest DEF children, pipes, hist
  <2> QED BY <1>1, <2>3, <2>5, Unnoticed
<1> HIDE DEF set
<1> QED BY <1>1, <1>2, <1>4, <1>5, ServeIs

LEMMA OpenListKeeps == ASSUME Inv, OpenList PROVE Promised
<1> DEFINE f == Frame(0, "list", {}, "none")
<1>1. /\ mc = "up" /\ stack = <<>> /\ stack' = <<f>>
      /\ UNCHANGED <<world, mc, tasks, channels, ctxPid, pressed, children, pipes, hist>>
  BY DEF OpenList, InMain
<1>2. f.pc = "list" BY FrameTyped, JobsAreNumbers DEF Pcs
<1> HIDE DEF f
<1>3. /\ stack' # <<>> /\ Top' = f /\ Screen' = <<0>> /\ Screen = <<>>
  BY <1>1, <1>2 DEF Top, Last, Screen, Shown
<1>4. \A k : ~Replying(k) /\ ~Replying(k)' BY <1>1, <1>2, <1>3 DEF Replying, At
<1>5. Kept BY <1>1, <1>4, JobsRest DEF children, pipes, hist
<1> QED BY <1>1, <1>3, <1>5, Unnoticed

LEMMA ClosedKeeps ==
  ASSUME Inv, stack # <<>>, Top.pc \in {"notice", "list"}, Return,
         UNCHANGED <<world, mc, tasks, channels, ctxPid, children, pipes, hist>>
  PROVE  Promised
<1>1. channels' \subseteq Jobs /\ Shown(Top) = 0 BY DEF Inv, TPlace, Shown
<1>2. /\ Screen' = Screen \/ Screen' = Front(Screen)
      /\ \A k : ~Replying(k)'
  BY <1>1, ReturnedScreen
<1>3. \A k : ~Replying(k) BY NotReplying
<1>4. Kept BY <1>2, <1>3, JobsRest DEF children, pipes, hist
<1> QED BY <1>1, <1>2, <1>4, Unnoticed

LEMMA CloseKeeps == ASSUME Inv, Close \/ CloseList PROVE Promised
BY ClosedKeeps DEF Close, CloseList, At

\* The innermost call goes on without a question being shown or answered.
LEMMA BecomeKeeps ==
  ASSUME Inv, stack # <<>>, Top.pc \in {"routine", "parts"}, NEW p \in {"notice", "call", "parts"}, Become(p),
         UNCHANGED <<mc, child, call, down, got>>
  PROVE  Promised
<1> DEFINE n == Len(stack) - 1
<1>1. n \in Nat /\ n = Len(stack) - 1 /\ Len(stack) = n + 1 BY Running
<1>2. TStack' /\ Below(n) /\ Len(stack') = n + 1 /\ stack'[n + 1].pc = p
  BY <1>1, Becoming DEF Inv, Pcs
<1> HIDE DEF n
<1>3. Screen' = Screen BY <1>1, <1>2, SameScreen DEF Shown
<1>4. \A k : ~Replying(k) BY NotReplying
<1>5. \A k : ~Replying(k)'
  <2>1. Top' = stack'[n + 1] BY <1>1, <1>2, TopAfter
  <2> QED BY <1>2, <2>1 DEF Replying, At
<1>6. Kept BY <1>4, <1>5, JobsRest
<1> QED BY <1>3, <1>6, Unnoticed

LEMMA ReadPartKeeps == ASSUME Inv, ReadPart \/ ReadFails PROVE Promised
<1>1. CASE ReadPart
  <2> DEFINE j == Top.who
             p == IF Head(up[j]) = "short" THEN "notice"
                  ELSE IF Head(up[j]) = Last(Parts(call[j])) THEN "call" ELSE "parts"
  <2>1. /\ stack # <<>> /\ Top.pc \in {"routine", "parts"} /\ Become(p)
        /\ UNCHANGED <<world, mc, tasks, channels, listed, pressed, children, down, hist>>
    BY <1>1 DEF ReadPart, At
  <2>2. p \in {"notice", "call", "parts"} OBVIOUS
  <2> HIDE DEF p
  <2> QED BY <2>1, <2>2, BecomeKeeps DEF children, hist
<1>2. CASE ReadFails BY <1>2, BecomeKeeps DEF ReadFails, At, children, pipes, hist
<1> QED BY <1>1, <1>2

\* The end of Midnight Commander.
LEMMA GoneKeeps ==
  ASSUME Inv, NEW S, GoneWith(S), UNCHANGED <<call, down, got>>,
         \A k \in Jobs : Replying(k) => Dead(k)
  PROVE  Promised
<1> DEFINE T == {k \in Jobs : child'[k] = "ending"}
<1>1. mc' = "gone" /\ stack' = <<>> /\ Screen' = <<>> BY DEF GoneWith, Screen
<1>2. \A k : ~Replying(k)' BY <1>1 DEF Replying, At
<1>3. \A k \in Jobs : child'[k] = "ending" \/ child'[k] = child[k] BY Dying DEF GoneWith
<1>4. ASSUME NEW k \in T PROVE StateOf(k)' = "over" /\ AnswerOf(k)' = "none"
  <2>1. StateOf(k)' = "over" BY <1>4 DEF StateOf
  <2> QED BY <2>1 DEF AnswerOf
<1>5. ASSUME NEW k \in Jobs \ T PROVE Same(k)
  <2>1. child'[k] = child[k] BY <1>3
  <2>2. CASE Replying(k) BY <2>1, <2>2, DeadStays DEF Dead
  <2>3. CASE ~Replying(k) BY <1>2, <2>1, <2>3, Untouched
  <2> QED BY <2>2, <2>3
<1> HIDE DEF T
<1>6. T \in SUBSET Jobs BY DEF T
<1>7. Calls!Shut
  <2>1. /\ [k \in Jobs |-> StateOf(k)]' = [k \in Jobs |-> IF k \in T THEN "over" ELSE StateOf(k)]
        /\ [k \in Jobs |-> AnswerOf(k)]' = [k \in Jobs |-> IF k \in T THEN "none" ELSE AnswerOf(k)]
    BY <1>4, <1>5 DEF Same
  <2>2. /\ [k \in Jobs |-> StateOf(k)]' =
             [k \in Jobs |-> IF k \in T THEN "over" ELSE [i \in Jobs |-> StateOf(i)][k]]
        /\ [k \in Jobs |-> AnswerOf(k)]' =
             [k \in Jobs |-> IF k \in T THEN "none" ELSE [i \in Jobs |-> AnswerOf(i)][k]]
    BY <2>1
  <2>3. (mc = "up")' = FALSE /\ [i \in DOMAIN stack |-> Shown(stack[i])]' = <<>> BY <1>1 DEF Screen
  <2> QED BY <1>6, <2>2, <2>3 DEF Calls!Shut, Calls!NoAnswer
<1> QED BY <1>7 DEF Promised, Calls!Next

LEMMA LostKeeps == ASSUME Inv, Lost PROVE Promised
<1>0. stack # <<>> /\ Top.pc = "routine" BY DEF Lost, At
<1>j. PICK j \in Jobs : Top.who = j BY <1>0, Running
<1> DEFINE pid == ctxPid[j]
<1>1. UNCHANGED <<call, down, got>> /\ \A k : ~Replying(k) BY <1>0, NotReplying DEF Lost, pipes, hist
<1>2. CASE GoneWith(Jobs) BY <1>1, <1>2, GoneKeeps
<1>3. CASE /\ channels' = channels \ {j} /\ (Return \/ Become("notice")) /\ mc' = mc
           /\ child' = child \/ \E k \in Jobs : child[k] = "zombie" /\ child' = [child EXCEPT ![k] = "reaped"]
  <2>1. \A k \in Jobs : child'[k] = child[k] \/ (Dead(k) /\ Dead(k)') BY <1>3 DEF Inv, TJobs, Dead
  <2>2. Shown(Top) = 0 /\ channels' \subseteq Jobs BY <1>0, <1>3 DEF Shown, Inv, TPlace
  <2>3. /\ Screen' = Screen \/ Screen' = Front(Screen)
        /\ \A k : ~Replying(k)'
    <3>1. CASE Return BY <1>0, <2>2, <3>1, ReturnedScreen
    <3>2. CASE Become("notice")
      <4> DEFINE n == Len(stack) - 1
      <4>1. n \in Nat /\ n = Len(stack) - 1 /\ Len(stack) = n + 1 BY <1>0, Running
      <4>2. TStack' /\ Below(n) /\ Len(stack') = n + 1 /\ stack'[n + 1].pc = "notice"
        BY <1>0, <3>2, <4>1, Becoming DEF Inv, Pcs
      <4> HIDE DEF n
      <4>3. Screen' = Screen BY <1>0, <2>2, <4>1, <4>2, SameScreen DEF Shown
      <4>4. Top' = stack'[n + 1] BY <4>1, <4>2, TopAfter
      <4> QED BY <4>2, <4>3, <4>4 DEF Replying, At
    <3> QED BY <1>3, <3>1, <3>2
  <2>4. Kept BY <1>1, <2>1, <2>3, Untouched, DeadStays DEF Kept
  <2> QED BY <1>0, <1>3, <2>2, <2>3, <2>4, Unnoticed
<1>4. ASSUME NEW k \in Waited(pid) PROVE k \in Jobs /\ child[k] = "zombie"
  BY <1>4 DEF Waited, Inv, OwnPid
<1> QED BY <1>2, <1>3, <1>4, <1>j DEF Lost

LEMMA CallKeeps == ASSUME Inv, Call PROVE Promised
<1>0. stack # <<>> /\ Top.pc = "call" BY DEF Call, At
<1>j. PICK j \in Jobs : Top.who = j BY <1>0, Running
<1> DEFINE n == Len(stack) - 1  p == IF call[j] = "end" THEN "reply" ELSE "ask"
<1>1. Become(p) /\ UNCHANGED <<mc, child, call, down, got>> BY <1>j DEF Call, children, pipes, hist
<1>2. /\ n \in Nat /\ n = Len(stack) - 1 /\ mc = "up" /\ FrameOK(Top) /\ Len(stack) = n + 1
      /\ Top = stack[n + 1] /\ \A i \in 1 .. n : i \in DOMAIN stack
  BY <1>0, Running
<1>3. p \in {"reply", "ask"} /\ p \in Pcs BY DEF Pcs
<1>4. /\ TStack' /\ Below(n) /\ Len(stack') = n + 1 /\ stack'[n + 1].who = j /\ stack'[n + 1].pc = p
      /\ stack'[n + 1].ans = "none"
  <2>1. Top.ans = "none" BY <1>0, <1>2 DEF FrameOK
  <2> HIDE DEF p
  <2> QED BY <1>0, <1>1, <1>2, <1>3, <1>j, <2>1, Becoming DEF Inv
<1>5. /\ child[j] = "waiting" \/ Dead(j)
      /\ child[j] = "waiting" => down[j] = <<>> /\ got[j] = "none"
  BY <1>0, <1>2, <1>j, OfJob DEF FrameOK, JobOK
<1> HIDE DEF n
<1>6. Top' = stack'[n + 1] /\ stack' # <<>> BY <1>2, <1>4, TopAfter
<1>7. \A k : ~Replying(k) BY <1>0, NotReplying
<1>8. \A k \in Jobs \ {j} : Same(k)
  <2>1. ASSUME NEW k \in Jobs \ {j} PROVE ~Replying(k)' BY <1>4, <1>6 DEF Replying
  <2> QED BY <1>1, <1>7, <2>1, Untouched
<1>9. CASE call[j] = "end"
  <2>1. Shown(stack'[n + 1]) = 0 /\ Shown(Top) = 0 BY <1>0, <1>4, <1>9 DEF Shown
  <2>2. Screen' = Screen BY <1>0, <1>2, <1>4, <2>1, SameScreen
  <2>3. Same(j)
    <3>1. CASE Dead(j) BY <1>1, <3>1, DeadStays DEF Dead
    <3>2. CASE child[j] = "waiting"
      <4>1. StateOf(j) = "leaving" /\ StateOf(j)' = "leaving" BY <1>1, <1>9, <3>2 DEF StateOf
      <4>2. AnswerOf(j) = "none" BY <1>5, <1>7, <3>2, <4>1 DEF AnswerOf
      <4>3. AnswerOf(j)' = "none" BY <1>1, <1>4, <1>5, <1>6, <3>2, <4>1 DEF AnswerOf
      <4> QED BY <4>1, <4>2, <4>3 DEF Same
    <3> QED BY <1>5, <3>1, <3>2
  <2>4. Kept BY <1>8, <2>3 DEF Kept
  <2> QED BY <1>1, <2>2, <2>4, Unnoticed
<1>10. CASE call[j] # "end"
  <2>1. Shown(stack'[n + 1]) = j /\ Shown(Top) = 0 BY <1>0, <1>4, <1>10 DEF Shown
  <2>2. Screen' = [Screen EXCEPT ![Len(Screen)] = j] BY <1>0, <1>2, <1>4, <2>1, TurnedScreen
  <2>3. Screen # <<>> /\ Last(Screen) = 0 BY <1>0, <2>1, ScreenIs DEF Inv
  <2>4. ~Replying(j)' BY <1>4, <1>6, <1>10 DEF Replying, At
  <2>5. Kept BY <1>1, <1>7, <1>8, <2>4, Untouched DEF Kept
  <2>6. StateOf(j) \in {"asking", "over"} BY <1>5, <1>7, <1>10, StateIs
  <2>7. ASSUME NEW i \in DOMAIN Screen PROVE Screen[i] # j
    <3>1. i \in 1 .. Len(stack) /\ Screen[i] = Shown(stack[i]) /\ j # 0
      BY <2>7, ScreenIs, JobsAreNumbers DEF Inv, Screen
    <3>2. CASE i = n + 1 BY <1>2, <2>1, <3>1, <3>2
    <3>3. CASE i \in 1 .. n
      <4>1. stack[i].pc = "ask" => stack[i].who # j
        BY <1>0, <1>2, <1>j, <3>3, NobodyElse DEF Engaged
      <4> QED BY <3>1, <4>1 DEF Shown
    <3> QED BY <1>2, <3>1, <3>2, <3>3
  <2>8. j \notin ToSet(Screen) BY <2>7 DEF ToSet
  <2>9. Calls!Show(j)
    <3>1. /\ [k \in Jobs |-> StateOf(k)]' = [k \in Jobs |-> StateOf(k)]
          /\ [k \in Jobs |-> AnswerOf(k)]' = [k \in Jobs |-> AnswerOf(k)]
      BY <2>5 DEF Kept, Same
    <3>2. [k \in Jobs |-> StateOf(k)][j] \in {"asking", "over"} BY <2>6
    <3> QED BY <1>1, <1>2, <2>2, <2>3, <2>8, <3>1, <3>2
            DEF Calls!Show, Calls!TopTurns, Calls!Last, Last, Calls!ToSet, ToSet, Screen
  <2> QED BY <2>9 DEF Promised, Calls!Next
<1> QED BY <1>9, <1>10

LEMMA ReplyKeeps == ASSUME Inv, Reply PROVE Promised
<1>0. stack # <<>> /\ Top.pc = "reply" BY DEF Reply, At
<1>j. PICK j \in Jobs : Top.who = j BY <1>0, Running
<1>c. Caller = j BY <1>j DEF Caller
<1>1. UNCHANGED <<call, got>> BY DEF Reply, hist
<1>2. FrameOK(Top) /\ (child[j] = "waiting" \/ Dead(j)) /\ Replying(j) /\ \A k : k # j => ~Replying(k)
  BY <1>0, <1>j, Running DEF FrameOK, Replying, At
<1>3. CASE ~Alive(j) /\ GoneWith({}) /\ UNCHANGED down
  BY <1>1, <1>2, <1>3, GoneKeeps DEF Alive
<1>4. CASE /\ Alive(j) /\ down' = [down EXCEPT ![j] = Append(@, Top.ans)]
           /\ UNCHANGED <<mc, tasks, channels, ctxPid, child, status>> /\ Return
  <2>1. /\ child[j] = "waiting" /\ down[j] = <<>> /\ Top.ans \in Answers \cup {"none"}
        /\ channels' \subseteq Jobs /\ Shown(Top) = 0
    BY <1>0, <1>2, <1>4, <1>j, Running DEF FrameOK, FrameType, Alive, Dead, Inv, TPlace, Shown
  <2>2. down'[j] = <<Top.ans>> /\ \A k \in Jobs \ {j} : down'[k] = down[k]
    <3>1. Append(<<>>, Top.ans) = <<Top.ans>> OBVIOUS
    <3> QED BY <1>4, <2>1, <3>1 DEF Inv, TPipes
  <2>3. /\ Screen' = Screen \/ Screen' = Front(Screen)
        /\ \A k : ~Replying(k)'
    BY <1>0, <1>4, <2>1, ReturnedScreen
  <2>4. \A k \in Jobs \ {j} : Same(k) BY <1>1, <1>2, <1>4, <2>2, <2>3, Untouched
  <2>5. <<Top.ans>> # <<>> /\ Head(<<Top.ans>>) = Top.ans OBVIOUS
  <2>6. StateOf(j)' = StateOf(j) /\ StateOf(j) # "over"
    BY <1>1, <1>2, <1>4, <2>1, <2>2, <2>3, <2>5 DEF StateOf
  <2>7. AnswerOf(j) = Top.ans BY <1>2, <2>1, <2>6 DEF AnswerOf
  <2>8. AnswerOf(j)' = Top.ans BY <2>2, <2>5, <2>6 DEF AnswerOf
  <2>9. Kept BY <2>4, <2>6, <2>7, <2>8 DEF Kept, Same
  <2> QED BY <1>0, <1>4, <2>1, <2>3, <2>9, Unnoticed
<1> QED BY <1>c, <1>3, <1>4 DEF Reply

LEMMA AnswerKeeps == ASSUME Inv, Answer PROVE Promised
<1>0. stack # <<>> /\ Top.pc = "ask" /\ UNCHANGED <<mc, child, call, down, got>>
  BY DEF Answer, At, children, pipes, hist
<1>j. PICK j \in Jobs : Top.who = j BY <1>0, Running
<1> DEFINE n == Len(stack) - 1
<1>1. PICK a \in Answers : stack' = [stack EXCEPT ![Len(stack)] = [@ EXCEPT !.pc = "reply", !.ans = a]]
  BY DEF Answer, Answers
<1>2. /\ n \in Nat /\ n = Len(stack) - 1 /\ Len(stack) = n + 1 /\ Top = stack[n + 1]
      /\ Top \in FrameType /\ FrameOK(Top) /\ stack \in Seq(FrameType)
  BY <1>0, Running DEF Inv, TStack
<1> HIDE DEF n
<1>3. /\ TStack' /\ Below(n) /\ Len(stack') = n + 1 /\ stack'[n + 1].who = j
      /\ stack'[n + 1].pc = "reply" /\ stack'[n + 1].ans = a
  <2> DEFINE f == [Top EXCEPT !.pc = "reply", !.ans = a]
  <2>1. f \in FrameType /\ f.who = j /\ f.pc = "reply" /\ f.ans = a BY <1>2, <1>j DEF FrameType, Pcs
  <2>2. stack' = [stack EXCEPT ![n + 1] = f] BY <1>1, <1>2
  <2> HIDE DEF f
  <2>3. stack' \in Seq(FrameType) /\ Len(stack') = n + 1 /\ stack'[n + 1] = f
        /\ \A i \in 1 .. n : stack'[i] = stack[i]
    BY <1>2, <2>1, <2>2
  <2> QED BY <2>1, <2>3 DEF TStack, Below
<1>4. Top' = stack'[n + 1] /\ stack' # <<>> BY <1>2, <1>3, TopAfter
<1>5. Replying(j)' /\ (\A k : k # j => ~Replying(k)') /\ \A k : ~Replying(k)
  BY <1>0, <1>3, <1>4, NotReplying DEF Replying, At
<1>6. Shown(stack'[n + 1]) = 0 /\ Shown(Top) = j BY <1>0, <1>3, <1>j DEF Shown
<1>7. Screen' = [Screen EXCEPT ![Len(Screen)] = 0] /\ Screen # <<>> /\ Last(Screen) = j
  BY <1>0, <1>2, <1>3, <1>6, TurnedScreen, ScreenIs DEF Inv
<1>8. /\ call[j] # "end" /\ (child[j] = "waiting" \/ Dead(j)) /\ (child[j] = "waiting" => down[j] = <<>>)
  BY <1>0, <1>2, <1>j DEF FrameOK
<1>9. \A k \in Jobs \ {j} : Same(k) BY <1>0, <1>5, Untouched
<1>10. CASE child[j] = "waiting"
  <2>1. StateOf(j) = "asking" /\ StateOf(j)' = "answered" BY <1>0, <1>5, <1>8, <1>10 DEF StateOf
  <2>2. AnswerOf(j)' = a BY <1>0, <1>3, <1>4, <1>5, <1>8, <1>10, <2>1 DEF AnswerOf
  <2>3. Calls!Answer(j)
    BY <1>0, <1>7, <1>9, <2>1, <2>2, Turned
    DEF Calls!Answer, Calls!TopTurns, Calls!Moves, Calls!Last, Last, Screen
  <2> QED BY <2>3 DEF Promised, Calls!Next
<1>11. CASE Dead(j)
  <2>1. Same(j) /\ StateOf(j) = "over" BY <1>0, <1>11, DeadStays, StateIs DEF Dead
  <2>2. /\ [k \in Jobs |-> StateOf(k)]' = [k \in Jobs |-> StateOf(k)]
        /\ [k \in Jobs |-> AnswerOf(k)]' = [k \in Jobs |-> AnswerOf(k)]
    BY <1>9, <2>1 DEF Same
  <2>3. Calls!Dismiss(j)
    BY <1>0, <1>7, <2>1, <2>2 DEF Calls!Dismiss, Calls!TopTurns, Calls!Last, Last, Screen
  <2> QED BY <2>3 DEF Promised, Calls!Next
<1> QED BY <1>8, <1>10, <1>11

LEMMA QuitKeeps == ASSUME Inv, Quit PROVE Promised
BY NotReplying, GoneKeeps DEF Quit, InMain, pipes, hist

LEMMA StutterKeeps == ASSUME Inv, UNCHANGED vars PROVE Promised
<1>1. UNCHANGED <<mc, stack, child, call, down, got>> BY DEF vars, parent, children, pipes, hist
<1>2. Screen' = Screen /\ \A k \in Jobs : (Replying(k)' <=> Replying(k)) /\ Top' = Top
  BY <1>1 DEF Screen, Replying, At, Top
<1>3. Kept BY <1>1, <1>2, Untouched DEF Kept
<1> QED BY <1>1, <1>2, <1>3, Unnoticed

\* The answer a job goes on with is what the user has said to its own question, while
\* that was on top of the screen: the code implements the promise of RemoteCall.
THEOREM AnswersArrive == Spec => AnsweredByTheUser
<1>1. Init => Calls!Init
  <2> SUFFICES ASSUME Init PROVE Calls!Init
    OBVIOUS
  <2>1. stack = <<>> /\ mc = "up" /\ Screen = <<>> BY DEF Init, Screen
  <2>2. ASSUME NEW j \in Jobs PROVE StateOf(j) = "running" /\ AnswerOf(j) = "none"
    <3>1. child[j] = "unborn" /\ down[j] = <<>> /\ got[j] = "none" /\ ~Replying(j)
      BY <2>1 DEF Init, Replying, At
    <3>2. StateOf(j) = "running" BY <3>1, StateIs
    <3> QED BY <3>1, <3>2 DEF AnswerOf
  <2> QED BY <2>1, <2>2 DEF Calls!Init, Calls!NoAnswer, Screen
<1>2. Inv /\ [Next]_vars => [Calls!Next]_(Calls!vars)
  <2> SUFFICES ASSUME Inv, Next PROVE Promised
    BY StutterKeeps DEF Promised
  <2>1. ASSUME NEW j \in Jobs, Child(j) \/ Crashes(j) \/ Start(j) PROVE Promised
    BY <2>1, AskKeeps, WriteKeeps, ReadKeeps, ExitedKeeps, CrashesKeeps, StartKeeps DEF Child
  <2>2. CASE Select \/ Attention \/ User
    BY <2>2, SelectKeeps, ReadPartKeeps, LostKeeps, CallKeeps, ReplyKeeps, AnswerKeeps, CloseKeeps
    DEF Attention, User
  <2>3. CASE OpenList \/ Stop \/ Resume \/ Kill \/ Quit
    BY <2>3, OpenListKeeps, SignalKeeps, KillKeeps, QuitKeeps
  <2> QED BY <2>1, <2>2, <2>3 DEF Next
<1> QED BY <1>1, <1>2, InvariantHolds, PTL DEF Spec, AnsweredByTheUser, Calls!Spec

=============================================================================
