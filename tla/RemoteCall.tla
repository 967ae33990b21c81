----------------------------- MODULE RemoteCall -----------------------------
(***************************************************************************)
(* What a job in the background is promised (src/background.c): a question *)
(* it asks is shown to the user once, the answer the user gives to it is   *)
(* the one the job goes on with, and a job goes on without one only when   *)
(* nobody is left to give it.                                              *)
(***************************************************************************)
EXTENDS Sequences, SequencesExt

CONSTANTS
  Jobs,     \* the jobs
  Other,    \* no job: a window, or a call being served, that asks nothing
  Answers   \* what the user may say

VARIABLES
  state,    \* of each job: "running", "asking", "answered", "leaving", "over"
  answer,   \* the last answer given to each job
  screen,   \* whose question each window shows, the topmost last
  open      \* somebody is there to answer

vars == <<state, answer, screen, open>>
NoAnswer == "none"

Init ==
  /\ state = [j \in Jobs |-> "running"] /\ answer = [j \in Jobs |-> NoAnswer]
  /\ screen = <<>> /\ open = TRUE

Moves(j, from, to) == state[j] = from /\ state' = [state EXCEPT ![j] = to]

Ask(j) ==
  /\ Moves(j, "running", "asking") /\ answer' = [answer EXCEPT ![j] = NoAnswer]
  /\ UNCHANGED <<screen, open>>

Window ==
  /\ open /\ screen' = Append(screen, Other)
  /\ UNCHANGED <<state, answer, open>>

CloseWindow ==
  /\ screen # <<>> /\ Last(screen) = Other /\ screen' = Front(screen)
  /\ UNCHANGED <<state, answer, open>>

TopTurns(from, to) ==
  screen # <<>> /\ Last(screen) = from /\ screen' = [screen EXCEPT ![Len(screen)] = to]

Show(j) ==
  /\ open /\ state[j] \in {"asking", "over"} /\ j \notin ToSet(screen)
  /\ TopTurns(Other, j)
  /\ UNCHANGED <<state, answer, open>>

Answer(j) ==
  /\ TopTurns(j, Other)
  /\ Moves(j, "asking", "answered")
  /\ \E a \in Answers : answer' = [answer EXCEPT ![j] = a]
  /\ UNCHANGED open

\* The job has ended in the meantime.
Dismiss(j) ==
  /\ TopTurns(j, Other)
  /\ state[j] = "over"
  /\ UNCHANGED <<state, answer, open>>

Continue(j) == Moves(j, "answered", "running") /\ UNCHANGED <<answer, screen, open>>

GiveUp(j) == ~open /\ Moves(j, "asking", "running") /\ UNCHANGED <<answer, screen, open>>

Leave(j) ==
  /\ Moves(j, "running", "leaving") /\ answer' = [answer EXCEPT ![j] = NoAnswer]
  /\ UNCHANGED <<screen, open>>

\* A job is over by itself or is killed, at any time.
Over(j) ==
  /\ state' = [state EXCEPT ![j] = "over"] /\ answer' = [answer EXCEPT ![j] = NoAnswer]
  /\ UNCHANGED <<screen, open>>

Shut ==
  /\ open' = FALSE /\ screen' = <<>>
  /\ \E S \in SUBSET Jobs :
       /\ state' = [j \in Jobs |-> IF j \in S THEN "over" ELSE state[j]]
       /\ answer' = [j \in Jobs |-> IF j \in S THEN NoAnswer ELSE answer[j]]

Next ==
  \/ \E j \in Jobs : \/ Ask(j) \/ Show(j) \/ Answer(j) \/ Dismiss(j) \/ Continue(j)
                     \/ GiveUp(j) \/ Leave(j) \/ Over(j)
  \/ Window \/ CloseWindow \/ Shut

Spec == Init /\ [][Next]_vars
=============================================================================
