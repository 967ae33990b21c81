------------------------------ MODULE Keyboard ------------------------------
(***************************************************************************)
(* The decoder of keys (lib/tty/key.c): bytes of the terminal are matched  *)
(* with a tree of known sequences; an Esc is a prefix, an unknown sequence *)
(* is thrown away.  The program either waits for a key or only polls, and  *)
(* the decoder keeps its place in the tree between the polls.              *)
(***************************************************************************)
EXTENDS Integers, Sequences, SequencesExt

CONSTANTS
  Bytes,               \* what the terminal sends
  Esc, Blank, Digits,  \* bytes with a meaning of their own
  Defs,            \* the known sequences, in the order of their definition
  SEQ_BUFFER_LEN, Paranoia,
  Worlds,          \* [old_esc_mode, nodelay, slow, items]: the option, polling or waiting,
                   \* a line that may be slower than the timeouts, what is typed
  MaxKeys

End == "0"       \* the byte behind the last one in seq_buffer
NULL == <<>>

ASSUME BytesAssumption == {Esc, Blank} \cup Digits \subseteq Bytes /\ Esc # End
ASSUME BoundsAssumption ==
  SEQ_BUFFER_LEN \in Nat /\ SEQ_BUFFER_LEN > 3 /\ Paranoia \in Nat \ {0} /\ MaxKeys \in Nat
ASSUME WorldsAssumption ==
  \A w \in Worlds : w \in [old_esc_mode : BOOLEAN, nodelay : BOOLEAN, slow : BOOLEAN,
                         items : SUBSET Seq(Bytes)]

\* Definitions, one of which at least is taken.
ASSUME DefsAssumption ==
  /\ Defs \in Seq([seq : Seq(Bytes), code : Seq(STRING), escape : BOOLEAN])
  /\ \E i \in DOMAIN Defs : Len(Defs[i].seq) \in 1 .. SEQ_BUFFER_LEN - 1

\* Only the Esc itself is defined with MCKEY_ESCAPE (key.c:282).
ASSUME EscapeAssumption == \A i \in DOMAIN Defs : Defs[i].escape => Defs[i].seq = <<Esc>>

VARIABLES
  world,
  typed, wire, input,   \* the keys pressed; their bytes on the way; those that have arrived
  out,                  \* the codes get_key_code returned
  pc, at,               \* where get_key_code is; `this`: a path in the tree and a child of it
  esc_time,
  buffer, append, pending,  \* seq_buffer, seq_append, pending_keys; 0 is NULL
  left                  \* how many more bytes are thrown away

vars == <<world, typed, wire, input, out, pc, at, esc_time, buffer, append, pending, left>>
private == <<esc_time, buffer, append, pending, left>>

no_delay == world.nodelay
old_esc_mode == world.old_esc_mode

-----------------------------------------------------------------------------
(* The tree: for every path its code, its action and its children in order *)

IsLeaf(tree, path) == tree[path].kids = <<>>

\* define_sequence: a sequence without room in the buffer and a beginning of a longer
\* one are refused; a sequence that goes on where another one ended takes its place.
Define(tree, def) ==
  LET s == def.seq
      known == Prefixes(s) \cap DOMAIN tree
      stem == CHOOSE p \in known : \A q \in known : Len(q) <= Len(p)
      node(p) == [code |-> def.code, escape |-> def.escape /\ p = s,
                  kids |-> IF p = s THEN <<>> ELSE <<s[Len(p) + 1]>>] IN
  CASE Len(s) \notin 1 .. SEQ_BUFFER_LEN - 1 \/ (stem = s /\ ~ IsLeaf(tree, s)) -> tree
    [] stem = s /\ IsLeaf(tree, s) -> [tree EXCEPT ![s].code = def.code, ![s].escape = def.escape]
    [] OTHER -> [p \in DOMAIN tree \cup Prefixes(s) |->
         IF p \notin DOMAIN tree THEN node(p)
         ELSE IF p = stem THEN [tree[p] EXCEPT !.kids = Append(@, s[Len(p) + 1])] ELSE tree[p]]

Root == [p \in {<<>>} |-> [code |-> NULL, escape |-> FALSE, kids |-> <<>>]]
Tree[n \in 0 .. Len(Defs)] == IF n = 0 THEN Root ELSE Define(Tree[n - 1], Defs[n])
keys == Tree[Len(Defs)]

-----------------------------------------------------------------------------
(* The end of get_key_code, and the buffer *)

Return(code) == out' = Append(out, code) /\ pc' = "out" /\ at' = NULL

Forgotten == append' = 0 /\ pending' = 0

Slot == IF append = 0 THEN 1 ELSE append
Full == Slot = SEQ_BUFFER_LEN - 1
Pushed(c) == IF Full THEN buffer ELSE [buffer EXCEPT ![Slot] = c, ![Slot + 1] = End]
NextSlot == IF Full THEN Slot ELSE Slot + 1

PlaceAfter == IF at = NULL THEN [path |-> <<>>, from |-> 1] ELSE [at EXCEPT !.from = 2]  \* mutant: the first child is skipped
Place == IF at = NULL THEN [path |-> <<>>, from |-> 1] ELSE at

\* `this` at child i of its place; one who waits begins at the root again.
Child(i) == IF no_delay THEN [path |-> Place.path, from |-> i] ELSE NULL
LastChild == Child(Len(keys[Place.path].kids))

\* pend_send: the buffer is a byte, or Esc and a byte, and then Esc or nothing;
\* of any other one the rest is thrown away, with what follows quickly.
PendSend(buf, p, app, this) ==
  LET alt == buf[p] = Esc
      next == IF alt THEN p + 2 ELSE p + 1
      bad == buf[next] \notin {Esc, End} IN
  /\ buffer' = buf
  /\ IF bad \/ buf[next] = End THEN Forgotten ELSE pending' = next /\ append' = app
  /\ IF bad THEN pc' = "eat" /\ left' = Paranoia /\ at' = this /\ UNCHANGED out
     ELSE Return(IF alt THEN <<"alt", buf[p + 1]>> ELSE <<"char", buf[p]>>) /\ UNCHANGED left

-----------------------------------------------------------------------------
(* get_key_code *)

\* tty_get_event calls it when there is something to read, or still pending.
\* no_delay never changes: see the README.
EnterForgetting ==  \* mutant: the place in the tree is lost between two polls
  /\ pc = "out" /\ (pending # 0 \/ input # <<>>)
  /\ IF pending # 0 THEN PendSend(buffer, pending, append, NULL)
     ELSE pc' = "read" /\ at' = NULL /\ UNCHANGED <<out, buffer, append, pending, left>>
  /\ UNCHANGED <<world, typed, wire, input, esc_time>>
Enter ==
  /\ pc = "out" /\ (pending # 0 \/ input # <<>>)
  /\ IF pending # 0 THEN PendSend(buffer, pending, append, NULL)
     ELSE pc' = "read" /\ UNCHANGED <<out, at, buffer, append, pending, left>>
  /\ UNCHANGED <<world, typed, wire, input, esc_time>>

\* No room for a byte of a known sequence.
Overfull(place, c) ==
  /\ \E i \in place.from .. Len(keys[place.path].kids) :
       keys[place.path].kids[i] = c /\ PendSend(buffer, 1, Slot, Child(i))
  /\ UNCHANGED esc_time

\* An inner node of the tree: one more byte is wanted, after an Esc in time.
Deeper(path, c) ==
  /\ buffer' = Pushed(c) /\ append' = NextSlot /\ at' = [path |-> path, from |-> 1]
  /\ IF keys[path].escape /\ old_esc_mode
     THEN IF no_delay THEN pc' = "read" /\ esc_time' = "now" ELSE pc' = "timed" /\ esc_time' = "none"
     ELSE pc' = "read" /\ UNCHANGED esc_time
  /\ UNCHANGED <<out, pending, left>>

\* A leaf returns its code, and nothing is pending any more.
CompleteKept(path) == Return(keys[path].code) /\ UNCHANGED private  \* mutant: seq_append is not reset
Complete(path) ==
  Return(keys[path].code) /\ Forgotten /\ UNCHANGED <<esc_time, buffer, left>>

\* No child: Esc and a key is Alt and the key; anything else is an unknown sequence.
Special(c) == CASE c \in Digits -> <<"fn", c>> [] c = Blank -> <<"key", "esc">> [] OTHER -> <<"alt", c>>
Miss(place, c) ==
  IF keys[place.path].escape
  THEN Return(Special(c)) /\ Forgotten /\ UNCHANGED <<esc_time, buffer, left>>
  ELSE PendSend(Pushed(c), 1, NextSlot, LastChild) /\ UNCHANGED esc_time

Match(place, c) ==
  LET kids == keys[place.path].kids
      path == Append(place.path, c) IN
  IF \E i \in place.from .. Len(kids) : kids[i] = c
  THEN IF IsLeaf(keys, path) THEN Complete(path)
       ELSE IF Full THEN Overfull(place, c) ELSE Deeper(path, c)
  ELSE Miss(place, c)

Read ==
  /\ pc \in {"read", "timed"} /\ input # <<>> /\ input' = Tail(input)
  /\ Match(Place, Head(input))
  /\ UNCHANGED <<world, typed, wire>>

\* Nothing to read, when polling.
NothingThere ==
  /\ pc = "read" /\ no_delay /\ input = <<>>
  /\ IF at # NULL /\ keys[Place.path].escape /\ old_esc_mode /\ esc_time = "past"
     THEN Return(<<"key", "esc">>) /\ Forgotten ELSE pc' = "out" /\ UNCHANGED <<out, at, append, pending>>
  /\ UNCHANGED <<world, typed, wire, input, esc_time, buffer, left>>

-----------------------------------------------------------------------------
(* Time: the clock does not wait for the terminal.  Where the line is not slow what  *)
(* is on the way comes before old_esc_mode_timeout, whatever has arrived is read.    *)

Late == world.slow \/ wire = <<>>

TimeRunsOut == Late /\ esc_time = "now" /\ esc_time' = "past"
  /\ UNCHANGED <<world, typed, wire, input, out, pc, at, buffer, append, pending, left>>

\* getch_with_timeout after an Esc
LoneEsc ==
  /\ pc = "timed" /\ input = <<>> /\ Late
  /\ Return(<<"key", "esc">>) /\ Forgotten
  /\ UNCHANGED <<world, typed, wire, input, esc_time, buffer, left>>

\* the loop that eats what follows an unknown sequence; then the next byte is read:
\* waiting starts at the root, polling goes on at the last child that was tried
Eat ==
  /\ pc = "eat"
  /\ \/ /\ input # <<>> /\ input' = Tail(input) /\ left' = left - 1 /\ pc' = IF left = 1 THEN "read" ELSE "eat"
        /\ UNCHANGED at
     \/ input = <<>> /\ Late /\ pc' = "read" /\ UNCHANGED <<input, left, at>>
  /\ UNCHANGED <<world, typed, wire, out, esc_time, buffer, append, pending>>

-----------------------------------------------------------------------------
(* The terminal and its user *)

\* Somebody who presses Esc alone waits until it has had its effect.
PressKey ==
  /\ Len(typed) < MaxKeys
  /\ typed # <<>> /\ Last(typed) = <<Esc>> => Len(out) = Len(typed)
  /\ \E item \in world.items : typed' = Append(typed, item) /\ wire' = wire \o item
  /\ UNCHANGED <<world, input, out, pc, at, private>>

Arrive ==
  /\ wire # <<>> /\ wire' = Tail(wire) /\ input' = Append(input, Head(wire))
  /\ UNCHANGED <<world, typed, out, pc, at, private>>

Init ==
  /\ world \in Worlds
  /\ typed = <<>> /\ wire = <<>> /\ input = <<>> /\ out = <<>>
  /\ pc = "out" /\ at = NULL /\ esc_time = "none"
  /\ buffer = [i \in 1 .. SEQ_BUFFER_LEN |-> End] /\ append = 0 /\ pending = 0 /\ left = 0

Program == Enter \/ Read \/ NothingThere
Clock == TimeRunsOut \/ LoneEsc \/ Eat
Next == Program \/ Clock \/ PressKey \/ Arrive
Spec == Init /\ [][Next]_vars
FairSpec == Spec /\ WF_vars(Program) /\ WF_vars(Clock) /\ WF_vars(Arrive)

-----------------------------------------------------------------------------
(* Properties *)

\* The pointers into the buffer stay inside it, pend_send finds an Esc where it goes on,
\* and the place in the tree is a node that is there: what is kept between two calls of
\* get_key_code (key.c:1703).  Whoever goes down the tree has room for one more byte:
\* the limits of define_sequence and of push_char fit together (key.c:1010, 1612).
TypeOK ==
  /\ world \in Worlds /\ Len(typed) <= MaxKeys
  /\ pc \in {"out", "read", "timed", "eat"} /\ esc_time \in {"none", "now", "past"} /\ left \in 0 .. Paranoia
  /\ buffer \in [1 .. SEQ_BUFFER_LEN -> Bytes \cup {End}]
  /\ append \in 0 .. SEQ_BUFFER_LEN - 1 /\ pending \in 0 .. SEQ_BUFFER_LEN - 2
  /\ pending # 0 => buffer[pending] = Esc /\ pc = "out"
  /\ at # NULL => /\ at.path \in DOMAIN keys /\ at.from \in 1 .. Len(keys[at.path].kids)
                  /\ \A i \in at.from .. Len(keys[at.path].kids) :
                       Full => IsLeaf(keys, Append(at.path, keys[at.path].kids[i]))

\* What a key should give: nothing, when it is unknown.
Known(item) == item \in DOMAIN keys \/ Len(item) = 1 \/ (Len(item) = 2 /\ item[1] = Esc)
Meaning(item) ==
  CASE item = <<Esc>> -> <<"key", "esc">>
    [] item # <<Esc>> /\ item \in DOMAIN keys -> keys[item].code
    [] item \notin DOMAIN keys /\ Len(item) = 1 -> <<"char", item[1]>>
    [] OTHER -> Special(item[2])

\* No Esc is timed, or the rest of a sequence comes in time.
InTime == old_esc_mode => ~world.slow

\* Where the bytes of a key come before the timeouts, or no Esc is timed: whether the
\* program waits or polls, and between whichever bytes, no key turns into another one
\* and no part of a sequence is taken for typed characters; an unknown sequence, all
\* of which comes in time, may take the keys after it with it (key.c:1730: "to prevent
\* interpreting its tail as a random garbage").  A timeout that cuts a sequence
\* (key.c:1733, 1762, 1822) violates it.
NoGarbage ==
  \E pressed \in [DOMAIN out -> DOMAIN typed] :
    /\ \A i, j \in DOMAIN out : i < j => pressed[i] < pressed[j]
    /\ \A i \in DOMAIN out : Known(typed[pressed[i]]) /\ out[i] = Meaning(typed[pressed[i]])

\* Where all the keys are known and come in time each of them arrives in the end, a lone
\* Esc, too, if the program waits (doc/man/mc.1.in:1751).
AllKnown == \A item \in world.items : Known(item)
Delivered == <>[](out = [i \in DOMAIN typed |-> Meaning(typed[i])])
EveryKeyArrives == AllKnown /\ InTime /\ (no_delay => <<Esc>> \notin world.items) => Delivered

\* A program that polls takes a lone Esc, too: violated, nothing polls again.
PolledEscArrives == AllKnown /\ InTime => Delivered
=============================================================================
