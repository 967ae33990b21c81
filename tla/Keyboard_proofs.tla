--------------------------- MODULE Keyboard_proofs ---------------------------
(***************************************************************************)
(* Proofs about the decoder of keys, for every list of definitions and     *)
(* every length of the buffer: it stays inside its buffer and inside its   *)
(* tree (Keyboard!TypeOK), and whoever presses keys that end where the     *)
(* decoder expects it gets these keys (NoGarbage).                         *)
(*                                                                         *)
(* 1. Define keeps a tree well formed: what a node lists as its child is   *)
(*    there, no path is longer than define_sequence takes, and the root    *)
(*    has a child as soon as a sequence was taken.  keys is reached by     *)
(*    induction over the definitions.                                      *)
(* 2. The invariant: seq_append is not farther in the buffer than the      *)
(*    place is deep in the tree, the two last cells of the buffer are the  *)
(*    end of the string, and bytes are pending only between two calls.     *)
(* 3. One lemma per action.  An inner node is so short that push_char has  *)
(*    room for the byte that led there: get_key_code:1804 never fails.     *)
(* 4. The branches of the tree: on the way to a node each byte is a child  *)
(*    (KeysShape, by the same induction).  Thus a known sequence that is   *)
(*    read to its leaf, or a byte that is missed, is the whole key         *)
(*    (LeafIsItem, MissIsItem).                                            *)
(* 5. The invariant Decodes: the bytes on the way to the place, with those *)
(*    still to be read, are those of the keys without a code yet, one key  *)
(*    after the other (Cut).  A step gives out the first key that is cut   *)
(*    out, or leaves the bytes as they are.                                *)
(***************************************************************************)
EXTENDS Keyboard, SequenceTheorems, WellFoundedInduction, TLAPS

(* Induction                                                               *)

\* A set of numbers has a least one,
LEMMA Least ==
  ASSUME NEW S, S \subseteq Nat, S # {}
  PROVE  \E m \in S : \A k \in S : m <= k
<1> DEFINE R == OpToRel(<, Nat)
<1>1. IsWellFoundedOn(R, Nat) BY NatLessThanWellFounded
<1>2. \A x, y \in Nat : y < x => <<y, x>> \in R BY DEF OpToRel
<1> HIDE DEF R
<1>3. PICK m \in S : \A y \in S : ~ (<<y, m>> \in R) BY <1>1, WFMin
<1>4. ASSUME NEW k \in S PROVE m <= k
  <2>1. ~ (k < m) BY <1>2, <1>3
  <2>2. k \in Nat /\ m \in Nat OBVIOUS
  <2> QED BY <2>1, <2>2
<1> QED BY <1>4

\* so whoever holds 0, and with a number the next one, holds them all.
LEMMA Induction ==
  ASSUME NEW S, 0 \in S, \A n \in S \cap Nat : n + 1 \in S
  PROVE  Nat \subseteq S
<1>1. SUFFICES ASSUME Nat \ S # {} PROVE FALSE OBVIOUS
<1>2. PICK m \in Nat \ S : \A k \in Nat \ S : m <= k BY <1>1, Least
<1>3. m # 0 /\ m - 1 \in Nat BY <1>2
<1>4. m - 1 \in S BY <1>2, <1>3
<1>5. (m - 1) + 1 \in S BY <1>3, <1>4
<1> QED BY <1>2, <1>5

\* Paths of a set that are none longer than n: one of them is the longest.
LEMMA Longest ==
  ASSUME NEW paths, NEW n \in Nat, paths # {},
         \A p \in paths : Len(p) \in Nat /\ Len(p) <= n
  PROVE  \E p \in paths : \A q \in paths : Len(q) <= Len(p)
<1> DEFINE Short == {n - Len(p) : p \in paths}
<1>1. Short \subseteq Nat OBVIOUS
<1>2. Short # {} OBVIOUS
<1>3. PICK m \in Short : \A k \in Short : m <= k BY <1>1, <1>2, Least
<1>4. PICK p \in paths : m = n - Len(p) OBVIOUS
<1>5. ASSUME NEW q \in paths PROVE Len(q) <= Len(p)
  <2>1. n - Len(q) \in Short OBVIOUS
  <2>2. n - Len(p) <= n - Len(q) BY <1>3, <1>4, <2>1
  <2>3. Len(p) \in Nat /\ Len(q) \in Nat OBVIOUS
  <2> QED BY <2>2, <2>3
<1> QED BY <1>5

-----------------------------------------------------------------------------
(* The tree *)

Room == SEQ_BUFFER_LEN - 1

\* One node: its path, and its children's.
NodeOK(tree, p) ==
  /\ "kids" \in DOMAIN tree[p]
  /\ p \in Seq(Bytes) /\ Len(p) <= Room
  /\ tree[p].kids \in Seq(Bytes)
  /\ \A i \in 1 .. Len(tree[p].kids) : Append(p, tree[p].kids[i]) \in DOMAIN tree

TreeOK(tree) ==
  /\ <<>> \in DOMAIN tree
  /\ \A p \in DOMAIN tree : NodeOK(tree, p)
  /\ \A p \in DOMAIN tree : p # <<>> => tree[<<>>].kids # <<>>

LEMMA RoomIs == Room \in Nat /\ Room >= 3 /\ SEQ_BUFFER_LEN = Room + 1
BY BoundsAssumption DEF Room

LEMMA RootOK == TreeOK(Root)
<1>1. DOMAIN Root = {<<>>} BY DEF Root
<1>2. Root[<<>>].kids = <<>> /\ "kids" \in DOMAIN Root[<<>>] BY DEF Root
<1>3. Len(<<>>) = 0 OBVIOUS
<1>4. <<>> \in Seq(Bytes) OBVIOUS
<1>5. NodeOK(Root, <<>>)
  <2>1. \A i \in 1 .. Len(Root[<<>>].kids) : FALSE BY <1>2, <1>3
  <2>2. 0 <= Room BY RoomIs
  <2> QED BY <1>2, <1>3, <1>4, <2>1, <2>2 DEF NodeOK
<1> QED BY <1>1, <1>5 DEF TreeOK

\* A node at the greatest depth has no children.
LEMMA DeepestIsLeaf ==
  ASSUME NEW tree, TreeOK(tree), NEW p \in DOMAIN tree, Len(p) >= Room
  PROVE  IsLeaf(tree, p)
<1> DEFINE kids == tree[p].kids
<1>1. NodeOK(tree, p) BY DEF TreeOK
<1>2. kids \in Seq(Bytes) /\ p \in Seq(Bytes) BY <1>1 DEF NodeOK
<1>3. SUFFICES ASSUME kids # <<>> PROVE FALSE BY DEF IsLeaf
<1>4. Len(kids) \in Nat /\ Len(kids) >= 1 BY <1>2, <1>3, EmptySeq
<1>5. kids[1] \in Bytes BY <1>2, <1>4
<1>6. Append(p, kids[1]) \in DOMAIN tree BY <1>1, <1>4 DEF NodeOK
<1>7. Len(Append(p, kids[1])) = Len(p) + 1 BY <1>2, <1>5
<1>8. Len(Append(p, kids[1])) <= Room BY <1>6 DEF TreeOK, NodeOK
<1>9. Len(p) \in Nat BY <1>2
<1> QED BY <1>7, <1>8, <1>9, RoomIs

\* The beginnings of a sequence.
LEMMA PrefixIs ==
  ASSUME NEW s \in Seq(Bytes), NEW q \in Prefixes(s)
  PROVE  /\ q \in Seq(Bytes) /\ Len(q) \in 0 .. Len(s)
         /\ q # s => /\ Len(q) < Len(s) /\ s[Len(q) + 1] \in Bytes
                     /\ Append(q, s[Len(q) + 1]) \in Prefixes(s)
<1>0. Len(s) \in Nat OBVIOUS
<1>1. PICK l \in 0 .. Len(s) : q = SubSeq(s, 1, l) BY DEF Prefixes
<1>2. q \in Seq(Bytes) /\ Len(q) = l BY <1>0, <1>1
<1>3. ASSUME q # s PROVE l < Len(s)
  <2>1. SubSeq(s, 1, Len(s)) = s OBVIOUS
  <2>2. l # Len(s) BY <1>1, <1>3, <2>1
  <2> QED BY <1>0, <2>2
<1>4. ASSUME q # s PROVE Append(q, s[l + 1]) \in Prefixes(s)
  <2>1. l + 1 \in 0 .. Len(s) BY <1>0, <1>3, <1>4
  <2>2. SubSeq(s, 1, l + 1) = Append(SubSeq(s, 1, l), s[l + 1]) BY <1>0, <1>3, <1>4
  <2> QED BY <1>1, <2>1, <2>2 DEF Prefixes
<1>5. q # s => s[l + 1] \in Bytes BY <1>0, <1>3
<1> QED BY <1>2, <1>3, <1>4, <1>5

LEMMA PrefixEnds ==
  ASSUME NEW s \in Seq(Bytes)
  PROVE  <<>> \in Prefixes(s) /\ s \in Prefixes(s)
<1>1. SubSeq(s, 1, 0) = <<>> OBVIOUS
<1>2. SubSeq(s, 1, Len(s)) = s OBVIOUS
<1>3. 0 \in 0 .. Len(s) /\ Len(s) \in 0 .. Len(s) OBVIOUS
<1> QED BY <1>1, <1>2, <1>3 DEF Prefixes

-----------------------------------------------------------------------------
(* define_sequence *)

Shared(tree, s) == Prefixes(s) \cap DOMAIN tree
Stem(tree, s) == CHOOSE p \in Shared(tree, s) : \A q \in Shared(tree, s) : Len(q) <= Len(p)

\* The place where a sequence leaves the tree is a node of the tree.
LEMMA StemIs ==
  ASSUME NEW tree, TreeOK(tree), NEW s \in Seq(Bytes)
  PROVE  Stem(tree, s) \in Prefixes(s) /\ Stem(tree, s) \in DOMAIN tree
<1> DEFINE paths == Shared(tree, s)
<1>1. <<>> \in paths BY PrefixEnds DEF TreeOK, Shared
<1>2. \A p \in paths : Len(p) \in Nat /\ Len(p) <= Len(s) BY PrefixIs DEF Shared
<1>3. Len(s) \in Nat OBVIOUS
<1>4. \E p \in paths : \A q \in paths : Len(q) <= Len(p)
  <2> HIDE DEF paths
  <2> QED BY <1>1, <1>2, <1>3, Longest
<1>5. Stem(tree, s) \in paths BY <1>4 DEF Stem
<1> QED BY <1>5 DEF Shared

\* The tree with the branch of s grown at a stem.
Grown(tree, def, stem) ==
  LET s == def.seq
      node(p) == [code |-> def.code, escape |-> def.escape /\ p = s,
                  kids |-> IF p = s THEN <<>> ELSE <<s[Len(p) + 1]>>] IN
  [p \in DOMAIN tree \cup Prefixes(s) |->
     IF p \notin DOMAIN tree THEN node(p)
     ELSE IF p = stem THEN [tree[p] EXCEPT !.kids = Append(@, s[Len(p) + 1])] ELSE tree[p]]

Renamed(tree, def) == [tree EXCEPT ![def.seq].code = def.code, ![def.seq].escape = def.escape]
Taken(def) == Len(def.seq) \in 1 .. Room

LEMMA DefineIs ==
  ASSUME NEW tree, NEW def
  PROVE  \/ Define(tree, def) = tree /\ (Taken(def) => Stem(tree, def.seq) = def.seq)
         \/ Define(tree, def) = Renamed(tree, def) /\ Stem(tree, def.seq) = def.seq
         \/ /\ Taken(def) /\ Stem(tree, def.seq) # def.seq
            /\ Define(tree, def) = Grown(tree, def, Stem(tree, def.seq))
BY RoomIs DEF Define, Grown, Renamed, Taken, Stem, Shared, Room

Definition == [seq : Seq(Bytes), code : Seq(STRING), escape : BOOLEAN]

\* A new node has one child or none; the stem has one more; all the others stay.
LEMMA GrownKids ==
  ASSUME NEW tree, TreeOK(tree), NEW def \in Definition,
         NEW stem \in DOMAIN tree, NEW p \in DOMAIN Grown(tree, def, stem)
  PROVE  /\ "kids" \in DOMAIN Grown(tree, def, stem)[p]
         /\ p \notin DOMAIN tree /\ p = def.seq => Grown(tree, def, stem)[p].kids = <<>>
         /\ p \notin DOMAIN tree /\ p # def.seq => Grown(tree, def, stem)[p].kids = <<def.seq[Len(p) + 1]>>
         /\ p \in DOMAIN tree /\ p = stem =>
              Grown(tree, def, stem)[p].kids = Append(tree[p].kids, def.seq[Len(p) + 1])
         /\ p \in DOMAIN tree /\ p # stem => Grown(tree, def, stem)[p].kids = tree[p].kids
<1> DEFINE node == [code |-> def.code, escape |-> def.escape /\ p = def.seq,
                    kids |-> IF p = def.seq THEN <<>> ELSE <<def.seq[Len(p) + 1]>>]
<1>1. Grown(tree, def, stem)[p] =
        IF p \notin DOMAIN tree THEN node
        ELSE IF p = stem THEN [tree[p] EXCEPT !.kids = Append(@, def.seq[Len(p) + 1])] ELSE tree[p]
  BY DEF Grown
<1>2. "kids" \in DOMAIN node /\ node.kids = IF p = def.seq THEN <<>> ELSE <<def.seq[Len(p) + 1]>> OBVIOUS
<1> HIDE DEF node
<1>3. p \in DOMAIN tree => "kids" \in DOMAIN tree[p] BY DEF TreeOK, NodeOK
<1>4. CASE p \notin DOMAIN tree BY <1>1, <1>2, <1>4
<1>5. CASE p \in DOMAIN tree /\ p = stem BY <1>1, <1>3, <1>5
<1>6. CASE p \in DOMAIN tree /\ p # stem BY <1>1, <1>3, <1>6
<1> QED BY <1>4, <1>5, <1>6

LEMMA GrownOK ==
  ASSUME NEW tree, TreeOK(tree), NEW def \in Definition, Taken(def),
         NEW stem \in DOMAIN tree, stem \in Prefixes(def.seq), stem # def.seq
  PROVE  TreeOK(Grown(tree, def, stem)) /\ def.seq \in DOMAIN Grown(tree, def, stem)
<1> DEFINE s == def.seq
           G == Grown(tree, def, stem)
<1>0. s \in Seq(Bytes) BY DEF Definition
<1>1. DOMAIN G = DOMAIN tree \cup Prefixes(s) BY DEF Grown
<1>2. Len(s) <= Room /\ Len(s) \in Nat BY <1>0, RoomIs DEF Taken
<1>3. ASSUME NEW p \in DOMAIN G PROVE NodeOK(G, p)
  <2>1. "kids" \in DOMAIN G[p] BY GrownKids
  <2>2. CASE p \notin DOMAIN tree
    <3>1. p \in Prefixes(s) BY <1>1, <2>2
    <3>2. p \in Seq(Bytes) /\ Len(p) \in 0 .. Len(s) BY <1>0, <3>1, PrefixIs
    <3>3. Len(p) <= Room BY <1>2, <3>2, RoomIs
    <3>4. CASE p = s
      <4>1. G[p].kids = <<>> BY <2>2, <3>4, GrownKids
      <4>2. <<>> \in Seq(Bytes) /\ \A i \in 1 .. Len(<<>>) : FALSE OBVIOUS
      <4> HIDE DEF G
      <4> QED BY <2>1, <3>2, <3>3, <4>1, <4>2 DEF NodeOK
    <3>5. CASE p # s
      <4> DEFINE b == s[Len(p) + 1]
      <4>1. G[p].kids = <<b>> BY <2>2, <3>5, GrownKids
      <4>2. b \in Bytes /\ Append(p, b) \in Prefixes(s) BY <1>0, <3>1, <3>5, PrefixIs
      <4> HIDE DEF b
      <4>3. <<b>> \in Seq(Bytes) /\ \A i \in 1 .. Len(<<b>>) : <<b>>[i] = b BY <4>2
      <4>4. \A i \in 1 .. Len(G[p].kids) : Append(p, G[p].kids[i]) \in DOMAIN G BY <1>1, <4>1, <4>2, <4>3
      <4> HIDE DEF G
      <4> QED BY <2>1, <3>2, <3>3, <4>1, <4>3, <4>4 DEF NodeOK
    <3> QED BY <3>4, <3>5
  <2>3. CASE p \in DOMAIN tree
    <3>0. NodeOK(tree, p) BY <2>3 DEF TreeOK
    <3>1. CASE p = stem
      <4> DEFINE b == s[Len(p) + 1]
                 kids == tree[p].kids
      <4>1. G[p].kids = Append(kids, b) BY <2>3, <3>1, GrownKids
      <4>2. b \in Bytes /\ Append(p, b) \in Prefixes(s) BY <1>0, <3>1, PrefixIs
      <4>3. kids \in Seq(Bytes) /\ \A i \in 1 .. Len(kids) : Append(p, kids[i]) \in DOMAIN tree BY <3>0 DEF NodeOK
      <4> HIDE DEF b, kids
      <4>4. Append(kids, b) \in Seq(Bytes) BY <4>2, <4>3
      <4>5. \A i \in 1 .. Len(Append(kids, b)) : \/ i \in 1 .. Len(kids) /\ Append(kids, b)[i] = kids[i]
                                                 \/ Append(kids, b)[i] = b
        BY <4>2, <4>3
      <4>6. \A i \in 1 .. Len(G[p].kids) : Append(p, G[p].kids[i]) \in DOMAIN G
        <5> SUFFICES ASSUME NEW i \in 1 .. Len(G[p].kids) PROVE Append(p, G[p].kids[i]) \in DOMAIN G OBVIOUS
        <5> HIDE DEF G
        <5> QED BY <1>1, <4>1, <4>2, <4>3, <4>5
      <4> HIDE DEF G
      <4> QED BY <2>1, <3>0, <4>1, <4>4, <4>6 DEF NodeOK
    <3>2. CASE p # stem
      <4>1. G[p].kids = tree[p].kids BY <2>3, <3>2, GrownKids
      <4> HIDE DEF G
      <4> QED BY <1>1, <2>1, <3>0, <4>1 DEF NodeOK
    <3> QED BY <3>1, <3>2
  <2> QED BY <2>2, <2>3
<1>4. <<>> \in DOMAIN tree /\ <<>> \in DOMAIN G BY <1>1 DEF TreeOK
<1>5. G[<<>>].kids # <<>>
  <2>1. CASE stem = <<>>
    <3>1. G[<<>>].kids = Append(tree[<<>>].kids, s[Len(<<>>) + 1]) BY <1>4, <2>1, GrownKids
    <3>2. tree[<<>>].kids \in Seq(Bytes) BY <1>4 DEF TreeOK, NodeOK
    <3>3. Len(Append(tree[<<>>].kids, s[Len(<<>>) + 1])) = Len(tree[<<>>].kids) + 1 /\ Len(tree[<<>>].kids) \in Nat
      BY <3>2
    <3>4. Len(<<>>) = 0 OBVIOUS
    <3> HIDE DEF G
    <3> QED BY <3>1, <3>3, <3>4
  <2>2. CASE stem # <<>>
    <3>1. tree[<<>>].kids # <<>> BY <2>2 DEF TreeOK
    <3>2. G[<<>>].kids = tree[<<>>].kids BY <1>4, <2>2, GrownKids
    <3> QED BY <3>1, <3>2
  <2> QED BY <2>1, <2>2
<1>6. s \in DOMAIN G BY <1>0, <1>1, PrefixEnds
<1> HIDE DEF G
<1>7. TreeOK(G) BY <1>3, <1>4, <1>5 DEF TreeOK
<1> QED BY <1>6, <1>7 DEF G

LEMMA RenamedOK ==
  ASSUME NEW tree, TreeOK(tree), NEW def
  PROVE  TreeOK(Renamed(tree, def)) /\ DOMAIN Renamed(tree, def) = DOMAIN tree
<1> DEFINE R == Renamed(tree, def)
<1>1. DOMAIN R = DOMAIN tree BY DEF Renamed
<1>2. ASSUME NEW p \in DOMAIN tree PROVE R[p].kids = tree[p].kids /\ "kids" \in DOMAIN R[p]
  <2>1. "kids" \in DOMAIN tree[p] BY DEF TreeOK, NodeOK
  <2> QED BY <2>1 DEF Renamed
<1> HIDE DEF R
<1>3. ASSUME NEW p \in DOMAIN R PROVE NodeOK(R, p)
  <2>1. NodeOK(tree, p) BY <1>1 DEF TreeOK
  <2> QED BY <1>1, <1>2, <2>1 DEF NodeOK
<1>4. <<>> \in DOMAIN R BY <1>1 DEF TreeOK
<1>5. \A p \in DOMAIN R : p # <<>> => R[<<>>].kids # <<>> BY <1>1, <1>2 DEF TreeOK
<1>6. TreeOK(R) BY <1>3, <1>4, <1>5 DEF TreeOK
<1> QED BY <1>1, <1>6 DEF R

\* define_sequence keeps the tree well formed, forgets no node, and one that it takes is a node.
LEMMA DefineOK ==
  ASSUME NEW tree, TreeOK(tree), NEW def \in Definition
  PROVE  /\ TreeOK(Define(tree, def)) /\ DOMAIN tree \subseteq DOMAIN Define(tree, def)
         /\ Taken(def) => def.seq \in DOMAIN Define(tree, def)
<1>0. def.seq \in Seq(Bytes) BY DEF Definition
<1>1. Stem(tree, def.seq) \in Prefixes(def.seq) /\ Stem(tree, def.seq) \in DOMAIN tree BY <1>0, StemIs
<1>2. CASE Define(tree, def) = tree /\ (Taken(def) => Stem(tree, def.seq) = def.seq) BY <1>1, <1>2
<1>3. CASE Define(tree, def) = Renamed(tree, def) /\ Stem(tree, def.seq) = def.seq BY <1>1, <1>3, RenamedOK
<1>4. CASE /\ Taken(def) /\ Stem(tree, def.seq) # def.seq
           /\ Define(tree, def) = Grown(tree, def, Stem(tree, def.seq))
  <2>1. /\ TreeOK(Define(tree, def)) /\ def.seq \in DOMAIN Define(tree, def) BY <1>1, <1>4, GrownOK
  <2>2. DOMAIN tree \subseteq DOMAIN Define(tree, def) BY <1>4 DEF Grown
  <2> QED BY <2>1, <2>2
<1> QED BY <1>2, <1>3, <1>4, DefineIs

-----------------------------------------------------------------------------
(* define_sequences: one definition after the other *)

\* The function by which Tree is defined.
Grows(f, n) == f = [m \in 0 .. n |-> IF m = 0 THEN Root ELSE Define(f[m - 1], Defs[m])]

\* There is one for every number of definitions.
LEMMA GrowsExists ==
  ASSUME NEW n \in Nat
  PROVE  \E f : Grows(f, n)
<1> DEFINE S == {m \in Nat : \E f : Grows(f, m)}
<1>1. 0 \in S
  <2>1. Grows([m \in 0 .. 0 |-> Root], 0) BY DEF Grows
  <2> QED BY <2>1
<1>2. ASSUME NEW m \in S \cap Nat PROVE m + 1 \in S
  <2>1. PICK f : Grows(f, m) OBVIOUS
  <2> DEFINE g == [k \in 0 .. m + 1 |-> IF k <= m THEN f[k] ELSE Define(f[m], Defs[k])]
  <2>2. ASSUME NEW k \in 0 .. m + 1 PROVE g[k] = IF k = 0 THEN Root ELSE Define(g[k - 1], Defs[k])
    <3>1. CASE k <= m
      <4>0. \A j \in 0 .. m : f[j] = IF j = 0 THEN Root ELSE Define(f[j - 1], Defs[j]) BY <2>1 DEF Grows
      <4>1. f[k] = IF k = 0 THEN Root ELSE Define(f[k - 1], Defs[k]) BY <3>1, <4>0
      <4>2. g[k] = f[k] BY <3>1
      <4>3. k # 0 => g[k - 1] = f[k - 1] BY <3>1
      <4> HIDE DEF g
      <4> QED BY <4>1, <4>2, <4>3
    <3>2. CASE k = m + 1
      <4>1. g[k] = Define(f[m], Defs[k]) BY <3>2
      <4>2. k # 0 /\ g[k - 1] = f[m] BY <3>2
      <4> HIDE DEF g
      <4> QED BY <4>1, <4>2
    <3> QED BY <3>1, <3>2
  <2>3. g = [k \in 0 .. m + 1 |-> g[k]] OBVIOUS
  <2> HIDE DEF g
  <2>4. Grows(g, m + 1) BY <2>2, <2>3 DEF Grows
  <2>5. m + 1 \in Nat OBVIOUS
  <2> QED BY <2>4, <2>5
<1> HIDE DEF S
<1>3. Nat \subseteq S BY <1>1, <1>2, Induction
<1> QED BY <1>3 DEF S

LEMMA DefsTyped == Len(Defs) \in Nat /\ \A i \in 1 .. Len(Defs) : Defs[i] \in Definition
<1>1. Defs \in Seq(Definition) BY DefsAssumption DEF Definition
<1> QED BY <1>1

\* Tree is that function.
LEMMA TreeIs ==
  ASSUME NEW m \in 0 .. Len(Defs)
  PROVE  Tree[m] = IF m = 0 THEN Root ELSE Define(Tree[m - 1], Defs[m])
<1>1. Grows(Tree, Len(Defs))
  <2>1. \E f : Grows(f, Len(Defs)) BY GrowsExists, DefsTyped
  <2>2. Tree = CHOOSE f : Grows(f, Len(Defs)) BY DEF Tree, Grows
  <2> QED BY <2>1, <2>2
<1> QED BY <1>1 DEF Grows

\* However many definitions were read: the tree is well formed, and one that was taken is there.
LEMMA TreesOK ==
  ASSUME NEW n \in 0 .. Len(Defs)
  PROVE  TreeOK(Tree[n]) /\ \A i \in 1 .. n : Taken(Defs[i]) => Defs[i].seq \in DOMAIN Tree[n]
<1> DEFINE OK(m) == TreeOK(Tree[m]) /\ \A i \in 1 .. m : Taken(Defs[i]) => Defs[i].seq \in DOMAIN Tree[m]
           S == {m \in Nat : m <= Len(Defs) => OK(m)}
<1>2. \A m \in 0 .. Len(Defs) : Tree[m] = IF m = 0 THEN Root ELSE Define(Tree[m - 1], Defs[m])
  BY TreeIs
<1>3. 0 \in S
  <2>1. Tree[0] = Root BY <1>2, DefsTyped
  <2> QED BY <2>1, RootOK
<1>4. ASSUME NEW m \in S \cap Nat PROVE m + 1 \in S
  <2>1. SUFFICES ASSUME m + 1 <= Len(Defs) PROVE OK(m + 1) OBVIOUS
  <2>2. OK(m) BY <2>1, DefsTyped
  <2>3. m + 1 \in 0 .. Len(Defs) /\ m + 1 # 0 /\ (m + 1) - 1 = m /\ m + 1 \in 1 .. Len(Defs) BY <2>1, DefsTyped
  <2>4. Tree[m + 1] = Define(Tree[m], Defs[m + 1]) BY <1>2, <2>3
  <2>5. Defs[m + 1] \in Definition BY <2>3, DefsTyped
  <2>6. /\ TreeOK(Tree[m + 1]) /\ DOMAIN Tree[m] \subseteq DOMAIN Tree[m + 1]
        /\ Taken(Defs[m + 1]) => Defs[m + 1].seq \in DOMAIN Tree[m + 1]
    BY <2>2, <2>4, <2>5, DefineOK
  <2>7. \A i \in 1 .. m + 1 : i \in 1 .. m \/ i = m + 1 OBVIOUS
  <2> QED BY <2>2, <2>6, <2>7
<1> HIDE DEF S
<1>5. Nat \subseteq S BY <1>3, <1>4, Induction
<1>6. n \in Nat /\ n <= Len(Defs) BY DefsTyped
<1>7. n \in S BY <1>5, <1>6
<1> QED BY <1>6, <1>7 DEF S

\* The tree that get_key_code walks has a first byte to look for.
LEMMA KeysOK == TreeOK(keys) /\ ~ IsLeaf(keys, <<>>)
<1>1. Len(Defs) \in 0 .. Len(Defs) BY DefsTyped
<1>2. TreeOK(keys) /\ \A i \in 1 .. Len(Defs) : Taken(Defs[i]) => Defs[i].seq \in DOMAIN keys
  BY <1>1, TreesOK DEF keys
<1>3. PICK i \in 1 .. Len(Defs) : Taken(Defs[i])
  <2>1. DOMAIN Defs = 1 .. Len(Defs)
    <3>1. Defs \in Seq(Definition) BY DefsAssumption DEF Definition
    <3> QED BY <3>1
  <2> QED BY <2>1, DefsAssumption, RoomIs DEF Taken, Room
<1>4. Defs[i].seq \in DOMAIN keys BY <1>2, <1>3
<1>5. Defs[i].seq # <<>>
  <2>1. Len(<<>>) = 0 OBVIOUS
  <2> QED BY <1>3, <2>1 DEF Taken
<1> QED BY <1>2, <1>4, <1>5 DEF TreeOK, IsLeaf

-----------------------------------------------------------------------------
(* The invariant *)

Nodes == DOMAIN keys

\* A place: a node that has children, and one of them.
PlaceOK(a) ==
  /\ a.path \in Nodes /\ a.from \in 1 .. Len(keys[a.path].kids)
  /\ a # NULL

\* seq_buffer: the byte behind the last one that push_char can write is the end.
BufferOK(buf) ==
  /\ buf \in [1 .. SEQ_BUFFER_LEN -> Bytes \cup {End}]
  /\ buf[SEQ_BUFFER_LEN - 1] = End /\ buf[SEQ_BUFFER_LEN] = End

\* What is kept between two calls.
Kept ==
  /\ at = NULL \/ PlaceOK(at)
  /\ BufferOK(buffer)
  /\ append \in 0 .. Room /\ pending \in 0 .. SEQ_BUFFER_LEN - 2
  /\ pending # 0 => buffer[pending] = Esc /\ pc = "out" /\ at = NULL
  /\ at = NULL /\ pending = 0 => append = 0
  /\ at # NULL => append <= Len(at.path) + 1

\* Where get_key_code is, and how much it still eats.
Counters ==
  /\ pc \in {"out", "read", "timed", "eat"} /\ esc_time \in {"none", "now", "past"}
  /\ left \in 0 .. Paranoia /\ (pc = "eat" => left # 0)

Wires == world \in Worlds /\ typed \in Seq(Seq(Bytes)) /\ Len(typed) <= MaxKeys
         /\ wire \in Seq(Bytes) /\ input \in Seq(Bytes)

Inv == Wires /\ Counters /\ Kept

\* An inner node: its path leaves room for one byte more.
LEMMA InnerIs ==
  ASSUME NEW p \in Nodes, ~ IsLeaf(keys, p)
  PROVE  /\ p \in Seq(Bytes) /\ Len(p) \in Nat /\ Len(p) < Room
         /\ keys[p].kids \in Seq(Bytes) /\ Len(keys[p].kids) \in Nat \ {0}
<1>1. NodeOK(keys, p) BY KeysOK DEF TreeOK, Nodes
<1>2. Len(p) < Room BY <1>1, KeysOK, DeepestIsLeaf, RoomIs DEF Nodes, NodeOK
<1>3. keys[p].kids \in Seq(Bytes) /\ keys[p].kids # <<>> BY <1>1 DEF NodeOK, IsLeaf
<1>4. Len(keys[p].kids) \in Nat \ {0} BY <1>3, EmptySeq
<1> QED BY <1>1, <1>2, <1>3, <1>4 DEF NodeOK

LEMMA RecordIsSome == ASSUME NEW p, NEW i PROVE [path |-> p, from |-> i] # NULL
<1>1. "path" \in DOMAIN [path |-> p, from |-> i] OBVIOUS
<1>2. DOMAIN NULL = {} BY DEF NULL
<1> QED BY <1>1, <1>2

\* A child of an inner node is a place.
LEMMA PlaceFrom ==
  ASSUME NEW p \in Nodes, NEW i \in 1 .. Len(keys[p].kids)
  PROVE  PlaceOK([path |-> p, from |-> i])
BY RecordIsSome DEF PlaceOK

\* The place of the next byte, NULL being the root, and the cell for it.
LEMMA PlaceIs ==
  ASSUME Inv, pending = 0
  PROVE  /\ PlaceOK(Place) /\ ~ IsLeaf(keys, Place.path)
         /\ Place.path \in Seq(Bytes) /\ Len(Place.path) \in Nat /\ Len(Place.path) < Room
         /\ Slot \in 1 .. Room /\ Slot <= Len(Place.path) + 1
<1>1. CASE at = NULL
  <2>1. Place = [path |-> <<>>, from |-> 1] BY <1>1 DEF Place
  <2>2. <<>> \in Nodes /\ ~ IsLeaf(keys, <<>>) BY KeysOK DEF TreeOK, Nodes
  <2>3. 1 \in 1 .. Len(keys[<<>>].kids) BY <2>2, InnerIs
  <2>4. PlaceOK(Place) BY <2>1, <2>2, <2>3, PlaceFrom
  <2>5. Place.path = <<>> /\ Len(<<>>) = 0 /\ <<>> \in Seq(Bytes) BY <2>1
  <2>6. Slot = 1 BY <1>1 DEF Slot, Inv, Kept
  <2> QED BY <2>2, <2>4, <2>5, <2>6, RoomIs
<1>2. CASE at # NULL
  <2>1. Place = at /\ PlaceOK(at) BY <1>2 DEF Place, Inv, Kept
  <2>2. ~ IsLeaf(keys, at.path)
    <3>1. Len(<<>>) = 0 OBVIOUS
    <3> QED BY <2>1, <3>1 DEF PlaceOK, IsLeaf
  <2>3. at.path \in Nodes BY <2>1 DEF PlaceOK
  <2>4. at.path \in Seq(Bytes) /\ Len(at.path) \in Nat /\ Len(at.path) < Room BY <2>2, <2>3, InnerIs
  <2>5. append \in 0 .. Room /\ append <= Len(at.path) + 1 BY <1>2 DEF Inv, Kept
  <2>6. Slot \in 1 .. Room /\ Slot <= Len(at.path) + 1 BY <2>4, <2>5, RoomIs DEF Slot
  <2> QED BY <2>1, <2>2, <2>4, <2>6
<1> QED BY <1>1, <1>2

\* The invariant gives what TypeOK promises.
LEMMA InvTypeOK == Inv => TypeOK
<1> SUFFICES ASSUME Inv PROVE TypeOK OBVIOUS
<1>1. ASSUME at # NULL, NEW i \in at.from .. Len(keys[at.path].kids), Full
      PROVE  IsLeaf(keys, Append(at.path, keys[at.path].kids[i]))
  <2>1. pending = 0 BY <1>1 DEF Inv, Kept
  <2>2. Place = at BY <1>1 DEF Place
  <2>3. PlaceOK(at) /\ at.path \in Seq(Bytes) /\ Len(at.path) \in Nat /\ Slot <= Len(at.path) + 1
    BY <2>1, <2>2, PlaceIs
  <2>4. Slot = Room BY <1>1 DEF Full, Room
  <2>5. NodeOK(keys, at.path) BY <2>3, KeysOK DEF PlaceOK, TreeOK, Nodes
  <2>6. i \in 1 .. Len(keys[at.path].kids) BY <2>3 DEF PlaceOK
  <2> DEFINE b == keys[at.path].kids[i]
  <2>7. b \in Bytes /\ Append(at.path, b) \in DOMAIN keys BY <2>5, <2>6 DEF NodeOK
  <2>8. Len(Append(at.path, b)) = Len(at.path) + 1 BY <2>3, <2>7
  <2>9. Len(Append(at.path, b)) >= Room BY <2>3, <2>4, <2>8, RoomIs
  <2> QED BY <2>7, <2>9, KeysOK, DeepestIsLeaf
<1>2. at # NULL => /\ at.path \in DOMAIN keys /\ at.from \in 1 .. Len(keys[at.path].kids)
                   /\ \A i \in at.from .. Len(keys[at.path].kids) :
                        Full => IsLeaf(keys, Append(at.path, keys[at.path].kids[i]))
  BY <1>1 DEF Inv, Kept, PlaceOK, Nodes
<1>3. append \in 0 .. SEQ_BUFFER_LEN - 1 BY DEF Inv, Kept, Room
<1> QED BY <1>2, <1>3 DEF TypeOK, Inv, Kept, Counters, Wires, BufferOK

LEMMA InitInv == Init => Inv
<1> SUFFICES ASSUME Init PROVE Inv OBVIOUS
<1>1. Wires
  <2>1. <<>> \in Seq(Bytes) /\ <<>> \in Seq(Seq(Bytes)) /\ Len(<<>>) = 0 OBVIOUS
  <2> QED BY <2>1, BoundsAssumption DEF Init, Wires
<1>2. Counters BY BoundsAssumption DEF Init, Counters
<1>3. BufferOK(buffer) BY RoomIs DEF Init, BufferOK
<1>4. Kept BY <1>3, RoomIs DEF Init, Kept
<1> QED BY <1>1, <1>2, <1>4 DEF Inv

-----------------------------------------------------------------------------
(* The steps *)

\* pend_send: whatever it does, what is kept is kept.
LEMMA PendSendKept ==
  ASSUME NEW buf, NEW p \in 1 .. SEQ_BUFFER_LEN - 2, NEW app \in 0 .. Room, NEW this,
         BufferOK(buf), Counters, this = NULL \/ PlaceOK(this), PendSend(buf, p, app, this), esc_time' = esc_time
  PROVE  Counters' /\ Kept'
<1> DEFINE alt == buf[p] = Esc
           next == IF alt THEN p + 2 ELSE p + 1
           bad == buf[next] \notin {Esc, End}
<1>1. next \in 1 .. SEQ_BUFFER_LEN /\ next # 0 BY RoomIs
<1>2. /\ buffer' = buf
      /\ IF bad \/ buf[next] = End THEN Forgotten ELSE pending' = next /\ append' = app
      /\ IF bad THEN pc' = "eat" /\ left' = Paranoia /\ at' = this /\ UNCHANGED out
         ELSE pc' = "out" /\ at' = NULL /\ left' = left
  BY DEF PendSend, Return
<1> HIDE DEF next
<1>4. BufferOK(buffer') BY <1>2
<1>5. CASE bad \/ buf[next] = End
  <2>1. append' = 0 /\ pending' = 0 BY <1>2, <1>5 DEF Forgotten
  <2>2. at' = NULL \/ PlaceOK(at') BY <1>2
  <2>3. at' # NULL => Len(at'.path) \in Nat
    <3>1. \A a : PlaceOK(a) => Len(a.path) \in Nat
      <4>1. \A q \in Nodes : Len(q) \in Nat BY KeysOK DEF TreeOK, NodeOK, Nodes
      <4> QED BY <4>1 DEF PlaceOK
    <3> QED BY <2>2, <3>1
  <2>4. Kept' BY <1>4, <2>1, <2>2, <2>3, RoomIs DEF Kept, BufferOK, PlaceOK, Nodes
  <2>5. Counters' BY <1>2, BoundsAssumption DEF Counters
  <2> QED BY <2>4, <2>5
<1>6. CASE ~ (bad \/ buf[next] = End)
  <2>1. buf[next] = Esc BY <1>6
  <2>2. next # SEQ_BUFFER_LEN - 1 /\ next # SEQ_BUFFER_LEN BY <2>1, BytesAssumption DEF BufferOK
  <2>3. next \in 1 .. SEQ_BUFFER_LEN - 2 BY <1>1, <2>2, RoomIs
  <2>4. pending' = next /\ append' = app /\ pc' = "out" /\ at' = NULL /\ left' = left BY <1>2, <1>6
  <2>5. Kept' BY <1>2, <1>4, <2>1, <2>3, <2>4, RoomIs DEF Kept, BufferOK, PlaceOK, Nodes
  <2>6. Counters' BY <2>4 DEF Counters
  <2> QED BY <2>5, <2>6
<1> QED BY <1>5, <1>6

\* push_char writes nothing behind the last cell but one.
LEMMA PushedIs ==
  ASSUME Inv, pending = 0, NEW c \in Bytes
  PROVE  BufferOK(Pushed(c)) /\ NextSlot \in 1 .. Room /\ (Full => NextSlot = Slot) /\ (~ Full => NextSlot = Slot + 1)
<1>1. Slot \in 1 .. Room BY PlaceIs
<1>2. BufferOK(buffer) BY DEF Inv, Kept
<1>3. CASE Full
  <2>1. Pushed(c) = buffer /\ NextSlot = Slot BY <1>3 DEF Pushed, NextSlot
  <2> QED BY <1>1, <1>2, <1>3, <2>1
<1>4. CASE ~ Full
  <2>1. Slot + 1 \in 2 .. Room BY <1>1, <1>4, RoomIs DEF Full
  <2>2. NextSlot = Slot + 1 BY <1>4 DEF NextSlot
  <2>3. Pushed(c) = [buffer EXCEPT ![Slot] = c, ![Slot + 1] = End] BY <1>4 DEF Pushed
  <2>4. BufferOK(Pushed(c)) BY <1>1, <1>2, <2>1, <2>3, RoomIs DEF BufferOK
  <2> QED BY <1>4, <2>1, <2>2, <2>4
<1> QED BY <1>3, <1>4

LEMMA EnterInv == Inv /\ Enter => Inv'
<1> SUFFICES ASSUME Inv, Enter PROVE Inv' OBVIOUS
<1>1. Wires' BY DEF Inv, Wires, Enter
<1>2. CASE pending # 0
  <2>1. PendSend(buffer, pending, append, NULL) /\ esc_time' = esc_time BY <1>2 DEF Enter
  <2>2. pending \in 1 .. SEQ_BUFFER_LEN - 2 /\ append \in 0 .. Room /\ BufferOK(buffer) BY <1>2, RoomIs DEF Inv, Kept
  <2>3. Counters' /\ Kept' BY <2>1, <2>2, PendSendKept DEF Inv
  <2> QED BY <1>1, <2>3 DEF Inv
<1>3. CASE pending = 0
  <2>1. pc' = "read" /\ UNCHANGED <<out, at, buffer, append, pending, left, esc_time>> BY <1>3 DEF Enter
  <2>2. Counters' BY <2>1 DEF Inv, Counters
  <2>3. Kept' BY <1>3, <2>1 DEF Inv, Kept, BufferOK, PlaceOK, Nodes
  <2> QED BY <1>1, <2>2, <2>3 DEF Inv
<1> QED BY <1>2, <1>3

\* After a key nothing is pending and the next one starts at the root.
LEMMA ReturnKept ==
  ASSUME Inv, NEW code, Return(code), Forgotten, UNCHANGED <<buffer, left>>, esc_time' \in {"none", "now", "past"}
  PROVE  Counters' /\ Kept'
<1>1. pc' = "out" /\ at' = NULL /\ append' = 0 /\ pending' = 0 BY DEF Return, Forgotten
<1>2. Counters' BY <1>1 DEF Inv, Counters
<1>3. Kept' BY <1>1, RoomIs DEF Inv, Kept, BufferOK, PlaceOK, Nodes
<1> QED BY <1>2, <1>3

LEMMA CompleteKeeps ==
  ASSUME Inv, NEW path, Complete(path)
  PROVE  Counters' /\ Kept'
BY ReturnKept DEF Complete, Inv, Counters

LEMMA DeeperKeeps ==
  ASSUME Inv, pending = 0, NEW c \in Bytes, ~ Full, Append(Place.path, c) \in Nodes,
         ~ IsLeaf(keys, Append(Place.path, c)), Deeper(Append(Place.path, c), c)
  PROVE  Counters' /\ Kept'
<1> DEFINE path == Append(Place.path, c)
<1>1. BufferOK(Pushed(c)) /\ NextSlot \in 1 .. Room /\ NextSlot = Slot + 1 BY PushedIs
<1>2. Slot \in 1 .. Room /\ Slot <= Len(Place.path) + 1 /\ Place.path \in Seq(Bytes) /\ Len(Place.path) \in Nat BY PlaceIs
<1>3. Len(path) = Len(Place.path) + 1 BY <1>2
<1>4. PlaceOK([path |-> path, from |-> 1])
  <2>1. 1 \in 1 .. Len(keys[path].kids) BY InnerIs
  <2> QED BY <2>1, PlaceFrom
<1>5. buffer' = Pushed(c) /\ append' = NextSlot /\ at' = [path |-> path, from |-> 1] /\ pending' = pending /\ left' = left
  BY DEF Deeper
<1>6. pc' \in {"read", "timed"} /\ esc_time' \in {"none", "now", "past"} BY DEF Deeper, Inv, Counters
<1>7. Counters' BY <1>5, <1>6 DEF Inv, Counters
<1>8. at'.path = path BY <1>5
<1>9. append' \in 1 .. Room /\ append' <= Len(at'.path) + 1 BY <1>1, <1>2, <1>3, <1>5, <1>8, RoomIs
<1> HIDE DEF path
<1>10. PlaceOK(at') /\ BufferOK(buffer') BY <1>1, <1>4, <1>5
<1>11. pending' = 0 BY <1>5
<1>12. Kept' BY <1>9, <1>10, <1>11, RoomIs DEF Kept, BufferOK, PlaceOK, Nodes
<1> QED BY <1>7, <1>12

\* A byte that is no child of its place is pushed, or there is no room for it.
LEMMA MissKeeps ==
  ASSUME Inv, pending = 0, NEW c \in Bytes, Miss(Place, c)
  PROVE  Counters' /\ Kept'
<1>1. CASE keys[Place.path].escape
  <2>1. Return(Special(c)) /\ Forgotten /\ UNCHANGED <<esc_time, buffer, left>> BY <1>1 DEF Miss
  <2> QED BY <2>1, ReturnKept DEF Inv, Counters
<1>2. CASE ~ keys[Place.path].escape
  <2>1. PendSend(Pushed(c), 1, NextSlot, LastChild) /\ esc_time' = esc_time BY <1>2 DEF Miss
  <2>2. BufferOK(Pushed(c)) /\ NextSlot \in 0 .. Room BY PushedIs
  <2>3. LastChild = NULL \/ PlaceOK(LastChild)
    <3>1. Place.path \in Nodes /\ ~ IsLeaf(keys, Place.path) BY PlaceIs DEF PlaceOK
    <3>2. Len(keys[Place.path].kids) \in 1 .. Len(keys[Place.path].kids) BY <3>1, InnerIs
    <3> QED BY <3>1, <3>2, PlaceFrom DEF LastChild, Child
  <2>4. 1 \in 1 .. SEQ_BUFFER_LEN - 2 BY RoomIs
  <2> QED BY <2>1, <2>2, <2>3, <2>4, PendSendKept DEF Inv
<1> QED BY <1>1, <1>2

\* Only a leaf is as deep as the buffer is long, thus a child that is not one finds room.
LEMMA MatchKeeps ==
  ASSUME Inv, pending = 0, NEW c \in Bytes, Match(Place, c)
  PROVE  Counters' /\ Kept'
<1> DEFINE kids == keys[Place.path].kids
           path == Append(Place.path, c)
           Found == \E i \in Place.from .. Len(kids) : kids[i] = c
<1>1. CASE ~ Found
  <2>1. Miss(Place, c) BY <1>1 DEF Match
  <2> QED BY <2>1, MissKeeps
<1>2. CASE Found
  <2>1. PICK i \in Place.from .. Len(kids) : kids[i] = c BY <1>2
  <2>2. /\ PlaceOK(Place) /\ Place.path \in Seq(Bytes) /\ Len(Place.path) \in Nat
        /\ Slot \in 1 .. Room /\ Slot <= Len(Place.path) + 1
    BY PlaceIs
  <2>3. NodeOK(keys, Place.path) BY <2>2, KeysOK DEF PlaceOK, TreeOK, Nodes
  <2>4. i \in 1 .. Len(kids) BY <2>2 DEF PlaceOK
  <2>5. path \in Nodes BY <2>1, <2>3, <2>4 DEF NodeOK, Nodes
  <2>6. CASE IsLeaf(keys, path)
    <3>1. Complete(path) BY <1>2, <2>6 DEF Match
    <3> QED BY <3>1, CompleteKeeps
  <2>7. CASE ~ IsLeaf(keys, path)
    <3>1. Len(path) = Len(Place.path) + 1 BY <2>2
    <3>2. Len(path) < Room BY <2>5, <2>7, InnerIs
    <3>3. Slot # SEQ_BUFFER_LEN - 1 BY <2>2, <3>1, <3>2, RoomIs
    <3>4. ~ Full BY <3>3 DEF Full
    <3>5. Deeper(path, c) BY <1>2, <2>7, <3>4 DEF Match
    <3> QED BY <2>5, <2>7, <3>4, <3>5, DeeperKeeps
  <2> QED BY <2>6, <2>7
<1> QED BY <1>1, <1>2

\* A byte less of what has come.
LEMMA TailTyped ==
  ASSUME NEW s \in Seq(Bytes), s # <<>>
  PROVE  Head(s) \in Bytes /\ Tail(s) \in Seq(Bytes)
OBVIOUS

LEMMA ReadInv == Inv /\ Read => Inv'
<1> SUFFICES ASSUME Inv, Read PROVE Inv' OBVIOUS
<1>1. pending = 0 BY DEF Read, Inv, Kept
<1>2. input \in Seq(Bytes) /\ input # <<>> BY DEF Inv, Wires, Read
<1>3. Head(input) \in Bytes /\ Tail(input) \in Seq(Bytes) BY <1>2, TailTyped
<1>4. Match(Place, Head(input)) BY DEF Read
<1>5. Counters' /\ Kept' BY <1>1, <1>3, <1>4, MatchKeeps
<1>6. Wires' BY <1>3 DEF Read, Inv, Wires
<1> QED BY <1>5, <1>6 DEF Inv

LEMMA NothingThereInv == Inv /\ NothingThere => Inv'
<1> SUFFICES ASSUME Inv, NothingThere PROVE Inv' OBVIOUS
<1>0. pending = 0 BY DEF NothingThere, Inv, Kept
<1>1. UNCHANGED <<world, typed, wire, input, esc_time, buffer, left>> BY DEF NothingThere
<1>2. Wires' BY <1>1 DEF Inv, Wires
<1>3. CASE Return(<<"key", "esc">>) /\ Forgotten
  <2>1. Counters' /\ Kept' BY <1>1, <1>3, ReturnKept DEF Inv, Counters
  <2> QED BY <1>2, <2>1 DEF Inv
<1>4. CASE pc' = "out" /\ UNCHANGED <<out, at, append, pending>>
  <2>1. Counters' BY <1>1, <1>4 DEF Inv, Counters
  <2>2. Kept' BY <1>0, <1>1, <1>4 DEF Inv, Kept, BufferOK, PlaceOK, Nodes
  <2> QED BY <1>2, <2>1, <2>2 DEF Inv
<1> QED BY <1>3, <1>4 DEF NothingThere

LEMMA TimeInv == Inv /\ TimeRunsOut => Inv'
<1> SUFFICES ASSUME Inv, TimeRunsOut PROVE Inv' OBVIOUS
<1>1. esc_time' = "past" /\ UNCHANGED <<world, typed, wire, input, out, pc, at, buffer, append, pending, left>>
  BY DEF TimeRunsOut
<1>2. Wires' BY <1>1 DEF Inv, Wires
<1>3. Counters' BY <1>1 DEF Inv, Counters
<1>4. Kept' BY <1>1 DEF Inv, Kept, BufferOK, PlaceOK, Nodes
<1> QED BY <1>2, <1>3, <1>4 DEF Inv

LEMMA LoneEscInv == Inv /\ LoneEsc => Inv'
<1> SUFFICES ASSUME Inv, LoneEsc PROVE Inv' OBVIOUS
<1>1. Wires' BY DEF LoneEsc, Inv, Wires
<1>2. Counters' /\ Kept' BY ReturnKept DEF LoneEsc, Inv, Counters
<1> QED BY <1>1, <1>2 DEF Inv

LEMMA EatInv == Inv /\ Eat => Inv'
<1> SUFFICES ASSUME Inv, Eat PROVE Inv' OBVIOUS
<1>0. pending = 0 /\ left \in 1 .. Paranoia BY BoundsAssumption DEF Eat, Inv, Kept, Counters
<1>1. UNCHANGED <<world, typed, wire, out, esc_time, buffer, append, pending, at>> BY DEF Eat
<1>2. Kept' BY <1>0, <1>1 DEF Inv, Kept, BufferOK, PlaceOK, Nodes
<1>3. CASE input # <<>> /\ input' = Tail(input) /\ left' = left - 1 /\ pc' = IF left = 1 THEN "read" ELSE "eat"
  <2>1. input' \in Seq(Bytes) BY <1>3, TailTyped DEF Inv, Wires
  <2>2. Wires' BY <1>1, <2>1 DEF Inv, Wires
  <2>3. Counters' BY <1>0, <1>1, <1>3, BoundsAssumption DEF Inv, Counters
  <2> QED BY <1>2, <2>2, <2>3 DEF Inv
<1>4. CASE pc' = "read" /\ UNCHANGED <<input, left, at>>
  <2>1. Wires' BY <1>1, <1>4 DEF Inv, Wires
  <2>2. Counters' BY <1>1, <1>4 DEF Inv, Counters
  <2> QED BY <1>2, <2>1, <2>2 DEF Inv
<1> QED BY <1>3, <1>4 DEF Eat

\* The keys of a world are sequences of bytes.
LEMMA PressKeyInv == Inv /\ PressKey => Inv'
<1> SUFFICES ASSUME Inv, PressKey PROVE Inv' OBVIOUS
<1> DEFINE T == Seq(Bytes)
<1>1. PICK item \in world.items : typed' = Append(typed, item) /\ wire' = wire \o item BY DEF PressKey
<1>2. item \in T BY <1>1, WorldsAssumption DEF Inv, Wires
<1>3. wire \in T /\ typed \in Seq(T) /\ Len(typed) < MaxKeys BY DEF Inv, Wires, PressKey
<1>4. wire' \in Seq(Bytes) BY <1>1, <1>2, <1>3
<1>5. typed' \in Seq(T) /\ Len(typed') <= MaxKeys
  <2> HIDE DEF T
  <2> QED BY <1>1, <1>2, <1>3, BoundsAssumption
<1>6. UNCHANGED <<world, input, out, pc, at, esc_time, buffer, append, pending, left>> BY DEF PressKey, private
<1>7. Wires' BY <1>4, <1>5, <1>6 DEF Inv, Wires
<1>8. Counters' BY <1>6 DEF Inv, Counters
<1>9. Kept' BY <1>6 DEF Inv, Kept, BufferOK, PlaceOK, Nodes
<1> QED BY <1>7, <1>8, <1>9 DEF Inv

LEMMA ArriveInv == Inv /\ Arrive => Inv'
<1> SUFFICES ASSUME Inv, Arrive PROVE Inv' OBVIOUS
<1>1. wire \in Seq(Bytes) /\ wire # <<>> /\ input \in Seq(Bytes) BY DEF Inv, Wires, Arrive
<1>2. Head(wire) \in Bytes /\ wire' \in Seq(Bytes) BY <1>1, TailTyped DEF Arrive
<1>3. input' \in Seq(Bytes) BY <1>1, <1>2 DEF Arrive
<1>4. UNCHANGED <<world, typed, out, pc, at, esc_time, buffer, append, pending, left>> BY DEF Arrive, private
<1>5. Wires' BY <1>2, <1>3, <1>4 DEF Inv, Wires
<1>6. Counters' BY <1>4 DEF Inv, Counters
<1>7. Kept' BY <1>4 DEF Inv, Kept, BufferOK, PlaceOK, Nodes
<1> QED BY <1>5, <1>6, <1>7 DEF Inv

LEMMA StepInv == Inv /\ [Next]_vars => Inv'
<1> SUFFICES ASSUME Inv, [Next]_vars PROVE Inv' OBVIOUS
<1>1. CASE UNCHANGED vars
  <2>1. UNCHANGED <<world, typed, wire, input, out, pc, at, esc_time, buffer, append, pending, left>>
    BY <1>1 DEF vars
  <2>2. Wires' BY <2>1 DEF Inv, Wires
  <2>3. Counters' BY <2>1 DEF Inv, Counters
  <2>4. Kept' BY <2>1 DEF Inv, Kept, BufferOK, PlaceOK, Nodes
  <2> QED BY <2>2, <2>3, <2>4 DEF Inv
<1>2. CASE Program BY <1>2, EnterInv, ReadInv, NothingThereInv DEF Program
<1>3. CASE Clock BY <1>3, TimeInv, LoneEscInv, EatInv DEF Clock
<1>4. CASE PressKey BY <1>4, PressKeyInv
<1>5. CASE Arrive BY <1>5, ArriveInv
<1> QED BY <1>1, <1>2, <1>3, <1>4, <1>5 DEF Next

\* For every list of definitions and every buffer of more than three bytes: the
\* pointers of get_key_code stay inside the buffer, pend_send goes on only at an Esc,
\* the place in the tree is a node that is there, and whoever goes down the tree has
\* room for the byte (key.c:1010, 1612, 1703).
THEOREM KeyboardTypeOK == Spec => []TypeOK
<1>1. Spec => []Inv BY InitInv, StepInv, PTL DEF Spec
<1>2. Inv => TypeOK BY InvTypeOK
<1> QED BY <1>1, <1>2, PTL

-----------------------------------------------------------------------------
(* The branches of the tree: whoever reads a known sequence byte by byte    *)
(* finds each byte as a child, and only a single Esc is an escape.          *)

HasChild(tree, q, c) == q \in DOMAIN tree /\ \E i \in 1 .. Len(tree[q].kids) : tree[q].kids[i] = c

Branches(tree) == \A p \in DOMAIN tree : \A n \in 0 .. Len(p) - 1 : HasChild(tree, SubSeq(p, 1, n), p[n + 1])

Escapes(tree) == \A p \in DOMAIN tree : "escape" \in DOMAIN tree[p] /\ (tree[p].escape => p = <<Esc>>)

\* All that is known of a tree.
Shape(tree) == TreeOK(tree) /\ Branches(tree) /\ Escapes(tree)

LEMMA RootShape == Shape(Root)
<1>1. DOMAIN Root = {<<>>} BY DEF Root
<1>2. "escape" \in DOMAIN Root[<<>>] /\ Root[<<>>].escape = FALSE BY DEF Root
<1>3. \A n \in 0 .. Len(<<>>) - 1 : FALSE
  <2>1. Len(<<>>) = 0 OBVIOUS
  <2> QED BY <2>1
<1>4. Branches(Root) BY <1>1, <1>3 DEF Branches
<1>5. Escapes(Root) BY <1>1, <1>2 DEF Escapes
<1> QED BY <1>4, <1>5, RootOK DEF Shape

\* The stem is the longest beginning that the tree knows.
LEMMA StemLongest ==
  ASSUME NEW tree, TreeOK(tree), NEW s \in Seq(Bytes), NEW q \in Prefixes(s), q \in DOMAIN tree
  PROVE  Len(q) <= Len(Stem(tree, s))
<1> DEFINE paths == Shared(tree, s)
<1>1. <<>> \in paths BY PrefixEnds DEF TreeOK, Shared
<1>2. \A p \in paths : Len(p) \in Nat /\ Len(p) <= Len(s) BY PrefixIs DEF Shared
<1>3. Len(s) \in Nat OBVIOUS
<1>4. \E p \in paths : \A r \in paths : Len(r) <= Len(p)
  <2> HIDE DEF paths
  <2> QED BY <1>1, <1>2, <1>3, Longest
<1>5. \A r \in paths : Len(r) <= Len(Stem(tree, s)) BY <1>4 DEF Stem
<1> QED BY <1>5 DEF Shared

\* A beginning of a beginning.
LEMMA PrefixOf ==
  ASSUME NEW s \in Seq(Bytes), NEW p \in Prefixes(s), NEW n \in 0 .. Len(p)
  PROVE  SubSeq(p, 1, n) \in Prefixes(s) /\ Len(SubSeq(p, 1, n)) = n /\ SubSeq(p, 1, n) = SubSeq(s, 1, n)
         /\ (n < Len(p) => p[n + 1] = s[n + 1])
<1>1. PICK l \in 0 .. Len(s) : p = SubSeq(s, 1, l) BY DEF Prefixes
<1>2. Len(s) \in Nat /\ Len(p) = l /\ p \in Seq(Bytes) BY <1>1
<1>3. \A i \in 1 .. l : p[i] = s[i] BY <1>1, <1>2
<1>4. SubSeq(p, 1, n) = SubSeq(s, 1, n) BY <1>2, <1>3
<1>5. n \in 0 .. Len(s) /\ Len(SubSeq(p, 1, n)) = n BY <1>2
<1> QED BY <1>2, <1>3, <1>4, <1>5 DEF Prefixes

\* What a node has as a child it keeps.
LEMMA GrownHasChild ==
  ASSUME NEW tree, TreeOK(tree), NEW def \in Definition, NEW stem \in DOMAIN tree,
         stem \in Prefixes(def.seq), stem # def.seq
  PROVE  /\ \A q, c : HasChild(tree, q, c) => HasChild(Grown(tree, def, stem), q, c)
         /\ HasChild(Grown(tree, def, stem), stem, def.seq[Len(stem) + 1])
<1> DEFINE s == def.seq
           G == Grown(tree, def, stem)
<1>0. s \in Seq(Bytes) BY DEF Definition
<1>1. DOMAIN G = DOMAIN tree \cup Prefixes(s) BY DEF Grown
<1>2. s[Len(stem) + 1] \in Bytes BY <1>0, PrefixIs
<1>3. ASSUME NEW q, NEW c, HasChild(tree, q, c) PROVE HasChild(G, q, c)
  <2>1. q \in DOMAIN tree /\ q \in DOMAIN G BY <1>1, <1>3 DEF HasChild
  <2>2. PICK i \in 1 .. Len(tree[q].kids) : tree[q].kids[i] = c BY <1>3 DEF HasChild
  <2>3. tree[q].kids \in Seq(Bytes) BY <2>1 DEF TreeOK, NodeOK
  <2>4. CASE q = stem
    <3>1. G[q].kids = Append(tree[q].kids, s[Len(q) + 1]) BY <2>1, <2>4, GrownKids
    <3> DEFINE b == s[Len(q) + 1]
    <3> HIDE DEF G, b
    <3>2. i \in 1 .. Len(Append(tree[q].kids, b)) /\ Append(tree[q].kids, b)[i] = c BY <2>2, <2>3
    <3> QED BY <2>1, <3>1, <3>2 DEF HasChild, b
  <2>5. CASE q # stem
    <3>1. G[q].kids = tree[q].kids BY <2>1, <2>5, GrownKids
    <3> HIDE DEF G
    <3> QED BY <2>1, <2>2, <3>1 DEF HasChild
  <2> QED BY <2>4, <2>5
<1>4. HasChild(G, stem, s[Len(stem) + 1])
  <2>1. stem \in DOMAIN G BY <1>1
  <2>2. tree[stem].kids \in Seq(Bytes) BY DEF TreeOK, NodeOK
  <2>3. G[stem].kids = Append(tree[stem].kids, s[Len(stem) + 1]) BY <2>1, GrownKids
  <2> DEFINE b == s[Len(stem) + 1]
             n == Len(tree[stem].kids) + 1
  <2> HIDE DEF G, b
  <2>4. n \in 1 .. Len(Append(tree[stem].kids, b)) /\ Append(tree[stem].kids, b)[n] = b BY <2>2
  <2> QED BY <2>1, <2>3, <2>4 DEF HasChild, b
<1> QED BY <1>3, <1>4

\* The new branch, byte after byte.
LEMMA GrownBranch ==
  ASSUME NEW tree, TreeOK(tree), Branches(tree), NEW def \in Definition, Taken(def),
         NEW stem, stem = Stem(tree, def.seq), stem # def.seq,
         NEW q \in Prefixes(def.seq), q # def.seq
  PROVE  HasChild(Grown(tree, def, stem), q, def.seq[Len(q) + 1])
<1> DEFINE s == def.seq
           G == Grown(tree, def, stem)
<1>0. s \in Seq(Bytes) BY DEF Definition
<1>1. DOMAIN G = DOMAIN tree \cup Prefixes(s) BY DEF Grown
<1>2. stem \in DOMAIN tree /\ stem \in Prefixes(s) BY <1>0, StemIs
<1>3. CASE q \notin DOMAIN tree
  <2>1. q \in DOMAIN G BY <1>1
  <2>2. G[q].kids = <<s[Len(q) + 1]>> BY <1>2, <1>3, <2>1, GrownKids
  <2> DEFINE b == s[Len(q) + 1]
  <2> HIDE DEF G, b
  <2>3. 1 \in 1 .. Len(<<b>>) /\ <<b>>[1] = b OBVIOUS
  <2>4. HasChild(G, q, b) BY <2>1, <2>2, <2>3 DEF HasChild, b
  <2> QED BY <2>4 DEF G, b
<1>4. CASE q = stem BY <1>2, <1>4, GrownHasChild
<1>5. CASE q \in DOMAIN tree /\ q # stem
  <2>1. Len(q) <= Len(stem) BY <1>0, <1>5, StemLongest
  <2>2. PICK k \in 0 .. Len(s) : q = SubSeq(s, 1, k) BY DEF Prefixes
  <2>3. PICK l \in 0 .. Len(s) : stem = SubSeq(s, 1, l) BY <1>2 DEF Prefixes
  <2>4. Len(s) \in Nat /\ Len(q) = k /\ Len(stem) = l BY <1>0, <2>2, <2>3
  <2>5. k # l BY <1>5, <2>2, <2>3
  <2>6. k < l BY <2>1, <2>4, <2>5
  <2>7. k \in 0 .. Len(stem) - 1 /\ k \in 0 .. Len(stem) BY <2>4, <2>6
  <2>8. SubSeq(stem, 1, k) = q /\ stem[k + 1] = s[k + 1] BY <1>0, <1>2, <2>2, <2>4, <2>6, <2>7, PrefixOf
  <2>9. HasChild(tree, q, s[k + 1]) BY <1>2, <2>7, <2>8 DEF Branches
  <2> QED BY <1>2, <2>4, <2>9, GrownHasChild
<1> QED BY <1>3, <1>4, <1>5

LEMMA GrownShape ==
  ASSUME NEW tree, Shape(tree), NEW def \in Definition, Taken(def), def.escape => def.seq = <<Esc>>,
         NEW stem, stem = Stem(tree, def.seq), stem # def.seq
  PROVE  Shape(Grown(tree, def, stem))
<1> DEFINE s == def.seq
           G == Grown(tree, def, stem)
<1>0. s \in Seq(Bytes) BY DEF Definition
<1>1. DOMAIN G = DOMAIN tree \cup Prefixes(s) BY DEF Grown
<1>2. stem \in DOMAIN tree /\ stem \in Prefixes(s) BY <1>0, StemIs DEF Shape
<1>3. TreeOK(G) BY <1>2, GrownOK DEF Shape
<1>4. ASSUME NEW p \in DOMAIN G, NEW n \in 0 .. Len(p) - 1 PROVE HasChild(G, SubSeq(p, 1, n), p[n + 1])
  <2>1. CASE p \in DOMAIN tree
    <3>1. HasChild(tree, SubSeq(p, 1, n), p[n + 1]) BY <2>1 DEF Shape, Branches
    <3> QED BY <1>2, <3>1, GrownHasChild DEF Shape
  <2>2. CASE p \in Prefixes(s)
    <3> DEFINE q == SubSeq(p, 1, n)
    <3>1. p \in Seq(Bytes) /\ Len(p) \in 0 .. Len(s) BY <1>0, <2>2, PrefixIs
    <3>2. n \in 0 .. Len(p) /\ n < Len(p) /\ Len(s) \in Nat BY <1>0, <3>1
    <3>3. q \in Prefixes(s) /\ Len(q) = n /\ p[n + 1] = s[n + 1] BY <1>0, <2>2, <3>2, PrefixOf
    <3>4. q # s BY <3>1, <3>2, <3>3
    <3> HIDE DEF q
    <3>5. HasChild(G, q, s[Len(q) + 1]) BY <3>3, <3>4, GrownBranch DEF Shape
    <3> QED BY <3>3, <3>5 DEF q
  <2> QED BY <1>1, <2>1, <2>2
<1>5. ASSUME NEW p \in DOMAIN G PROVE "escape" \in DOMAIN G[p] /\ (G[p].escape => p = <<Esc>>)
  <2> DEFINE node == [code |-> def.code, escape |-> def.escape /\ p = s,
                      kids |-> IF p = s THEN <<>> ELSE <<s[Len(p) + 1]>>]
             more == [tree[p] EXCEPT !.kids = Append(@, s[Len(p) + 1])]
  <2>1. G[p] = IF p \notin DOMAIN tree THEN node ELSE IF p = stem THEN more ELSE tree[p] BY DEF Grown
  <2>2. "escape" \in DOMAIN node /\ node.escape = (def.escape /\ p = s) OBVIOUS
  <2>3. p \in DOMAIN tree => "escape" \in DOMAIN tree[p] /\ (tree[p].escape => p = <<Esc>>) BY DEF Shape, Escapes
  <2>4. p \in DOMAIN tree => "escape" \in DOMAIN more /\ more.escape = tree[p].escape BY <2>3
  <2> HIDE DEF node, more, G
  <2>5. CASE p \notin DOMAIN tree BY <2>1, <2>2, <2>5
  <2>6. CASE p \in DOMAIN tree /\ p = stem BY <2>1, <2>3, <2>4, <2>6
  <2>7. CASE p \in DOMAIN tree /\ p # stem BY <2>1, <2>3, <2>7
  <2> QED BY <2>5, <2>6, <2>7
<1> HIDE DEF G
<1>6. Branches(G) BY <1>4 DEF Branches
<1>7. Escapes(G) BY <1>5 DEF Escapes
<1> QED BY <1>3, <1>6, <1>7 DEF Shape, G

LEMMA RenamedShape ==
  ASSUME NEW tree, Shape(tree), NEW def, def.escape => def.seq = <<Esc>>
  PROVE  Shape(Renamed(tree, def))
<1> DEFINE R == Renamed(tree, def)
<1>1. TreeOK(R) /\ DOMAIN R = DOMAIN tree BY RenamedOK DEF Shape
<1>2. ASSUME NEW p \in DOMAIN tree
      PROVE  /\ R[p].kids = tree[p].kids
             /\ "escape" \in DOMAIN R[p] /\ (R[p].escape => p = <<Esc>>)
  <2>1. "kids" \in DOMAIN tree[p] BY DEF Shape, TreeOK, NodeOK
  <2>2. "escape" \in DOMAIN tree[p] /\ (tree[p].escape => p = <<Esc>>) BY DEF Shape, Escapes
  <2>3. CASE p # def.seq
    <3>1. R[p] = tree[p] BY <2>3 DEF Renamed
    <3> QED BY <2>2, <3>1
  <2>4. CASE p = def.seq
    <3>1. R[p] = [[tree[p] EXCEPT !.code = def.code] EXCEPT !.escape = def.escape] BY <2>4 DEF Renamed
    <3>2. R[p].kids = tree[p].kids /\ "escape" \in DOMAIN R[p] /\ R[p].escape = def.escape BY <2>1, <2>2, <3>1
    <3> QED BY <2>4, <3>2
  <2> QED BY <2>3, <2>4
<1> HIDE DEF R
<1>3. \A q, c : HasChild(tree, q, c) => HasChild(R, q, c) BY <1>1, <1>2 DEF HasChild
<1>4. Branches(R) BY <1>1, <1>3 DEF Branches, Shape
<1>5. Escapes(R) BY <1>1, <1>2 DEF Escapes
<1> QED BY <1>1, <1>4, <1>5 DEF Shape, R

LEMMA DefineShape ==
  ASSUME NEW tree, Shape(tree), NEW def \in Definition, def.escape => def.seq = <<Esc>>
  PROVE  Shape(Define(tree, def))
<1>1. CASE Define(tree, def) = tree BY <1>1
<1>2. CASE Define(tree, def) = Renamed(tree, def) BY <1>2, RenamedShape
<1>3. CASE /\ Taken(def) /\ Stem(tree, def.seq) # def.seq
           /\ Define(tree, def) = Grown(tree, def, Stem(tree, def.seq))
  BY <1>3, GrownShape
<1> QED BY <1>1, <1>2, <1>3, DefineIs

\* However many definitions were read.
LEMMA TreesShape ==
  ASSUME NEW n \in 0 .. Len(Defs)
  PROVE  Shape(Tree[n])
<1> DEFINE S == {m \in Nat : m <= Len(Defs) => Shape(Tree[m])}
<1>1. 0 \in S
  <2>1. Tree[0] = Root BY TreeIs, DefsTyped
  <2> QED BY <2>1, RootShape
<1>2. ASSUME NEW m \in S \cap Nat PROVE m + 1 \in S
  <2>1. SUFFICES ASSUME m + 1 <= Len(Defs) PROVE Shape(Tree[m + 1]) OBVIOUS
  <2>2. Shape(Tree[m]) BY <2>1, DefsTyped
  <2>3. m + 1 \in 0 .. Len(Defs) /\ m + 1 # 0 /\ (m + 1) - 1 = m /\ m + 1 \in 1 .. Len(Defs) BY <2>1, DefsTyped
  <2>4. Tree[m + 1] = Define(Tree[m], Defs[m + 1]) BY <2>3, TreeIs
  <2>5. Defs[m + 1] \in Definition BY <2>3, DefsTyped
  <2>6. Defs[m + 1].escape => Defs[m + 1].seq = <<Esc>>
    <3>1. m + 1 \in DOMAIN Defs
      <4>1. Defs \in Seq(Definition) BY DefsAssumption DEF Definition
      <4> QED BY <2>3, <4>1
    <3> QED BY <3>1, EscapeAssumption
  <2> QED BY <2>2, <2>4, <2>5, <2>6, DefineShape
<1> HIDE DEF S
<1>3. Nat \subseteq S BY <1>1, <1>2, Induction
<1>4. n \in Nat /\ n <= Len(Defs) BY DefsTyped
<1>5. n \in S BY <1>3, <1>4
<1> QED BY <1>4, <1>5 DEF S

LEMMA KeysShape == Shape(keys)
<1>1. Len(Defs) \in 0 .. Len(Defs) BY DefsTyped
<1> QED BY <1>1, TreesShape DEF keys

-----------------------------------------------------------------------------
(* Sequences of bytes                                                       *)

Begins(p, s) == Len(p) <= Len(s) /\ \A i \in 1 .. Len(p) : p[i] = s[i]

\* The bytes s are the keys behind the first k, one after the other; b[j] of
\* them belong to the keys up to the j-th.
Cut(s, k, items) ==
  \E b \in [k .. Len(items) -> 0 .. Len(s)] :
    /\ b[k] = 0 /\ b[Len(items)] = Len(s)
    /\ \A i, j \in k .. Len(items) : i <= j => b[i] <= b[j]
    /\ \A j \in k + 1 .. Len(items) :
         b[j] = b[j - 1] + Len(items[j]) /\ \A i \in 1 .. Len(items[j]) : s[b[j - 1] + i] = items[j][i]

LEMMA SameBytes ==
  ASSUME NEW p \in Seq(Bytes), NEW q \in Seq(Bytes), NEW s \in Seq(Bytes),
         Begins(p, s), Begins(q, s), Len(p) = Len(q)
  PROVE  p = q
<1>1. \A i \in 1 .. Len(p) : p[i] = q[i] BY DEF Begins
<1> QED BY <1>1

LEMMA Shorter ==
  ASSUME NEW p \in Seq(Bytes), NEW q \in Seq(Bytes), NEW s \in Seq(Bytes),
         Begins(p, s), Begins(q, s), Len(p) <= Len(q)
  PROVE  Begins(p, q)
BY DEF Begins

LEMMA Joined ==
  ASSUME NEW p \in Seq(Bytes), NEW r \in Seq(Bytes)
  PROVE  /\ p \o r \in Seq(Bytes) /\ Len(p \o r) = Len(p) + Len(r) /\ Len(p) \in Nat /\ Len(r) \in Nat
         /\ Begins(p, p \o r)
         /\ \A i \in 1 .. Len(r) : (p \o r)[Len(p) + i] = r[i]
BY DEF Begins

LEMMA Associative ==
  ASSUME NEW p \in Seq(Bytes), NEW q \in Seq(Bytes), NEW r \in Seq(Bytes)
  PROVE  p \o (q \o r) = (p \o q) \o r
OBVIOUS

\* A byte that passes from one sequence to the next.
LEMMA Passed ==
  ASSUME NEW p \in Seq(Bytes), NEW q \in Seq(Bytes), q # <<>>
  PROVE  Append(p, Head(q)) \o Tail(q) = p \o q
OBVIOUS

\* The i-th byte of the h ones behind the x-th, where they end among the first l,
LEMMA Reaches ==
  ASSUME NEW x \in Nat, NEW h \in Nat, NEW y \in Nat, NEW l \in Nat, NEW i \in 1 .. h, y = x + h, y <= l
  PROVE  x + i \in 1 .. l
OBVIOUS

\* and the same where the first m of them are left out.
LEMMA Within ==
  ASSUME NEW x \in Nat, NEW h \in Nat, NEW y \in Nat, NEW l \in Nat, NEW i \in 1 .. h, y = x + h,
         NEW m \in Nat, x >= m, y <= m + l
  PROVE  (x - m) + i \in 1 .. l /\ m + ((x - m) + i) = x + i
OBVIOUS

LEMMA CutNothing == Cut(<<>>, 0, <<>>)
<1> DEFINE b == [j \in 0 .. 0 |-> 0]
<1>1. Len(<<>>) = 0 OBVIOUS
<1>2. b \in [0 .. Len(<<>>) -> 0 .. Len(<<>>)] BY <1>1
<1>3. b[0] = 0 /\ \A j \in 0 .. 0 : j = 0 OBVIOUS
<1>4. \A j \in 0 + 1 .. 0 : FALSE OBVIOUS
<1> HIDE DEF b
<1>5. \A i, j \in 0 .. 0 : i <= j => b[i] <= b[j] BY <1>3
<1> QED BY <1>1, <1>2, <1>3, <1>4, <1>5 DEF Cut

\* One more key, with its bytes.
LEMMA CutMore ==
  ASSUME NEW s \in Seq(Bytes), NEW items \in Seq(Seq(Bytes)), NEW k \in 0 .. Len(items),
         NEW x \in Seq(Bytes), Cut(s, k, items)
  PROVE  Cut(s \o x, k, Append(items, x))
<1> DEFINE n == Len(items)
           more == Append(items, x)
<1>1. PICK b \in [k .. n -> 0 .. Len(s)] :
        /\ b[k] = 0 /\ b[n] = Len(s)
        /\ \A i, j \in k .. n : i <= j => b[i] <= b[j]
        /\ \A j \in k + 1 .. n :
             b[j] = b[j - 1] + Len(items[j]) /\ \A i \in 1 .. Len(items[j]) : s[b[j - 1] + i] = items[j][i]
  BY DEF Cut
<1>2. n \in Nat /\ Len(more) = n + 1 /\ more[n + 1] = x /\ \A j \in 1 .. n : more[j] = items[j]
  <2> DEFINE T == Seq(Bytes)
  <2>1. items \in Seq(T) /\ x \in T OBVIOUS
  <2> HIDE DEF T
  <2> QED BY <2>1
<1>3. \A j \in 1 .. n : items[j] \in Seq(Bytes)
  <2> DEFINE T == Seq(Bytes)
  <2>1. items \in Seq(T) OBVIOUS
  <2> HIDE DEF T
  <2>2. \A j \in 1 .. n : items[j] \in T BY <2>1
  <2> QED BY <2>2 DEF T
<1> HIDE DEF n, more
<1>4. Len(s \o x) = Len(s) + Len(x) /\ Len(s) \in Nat /\ Len(x) \in Nat /\ Begins(s, s \o x)
      /\ \A i \in 1 .. Len(x) : (s \o x)[Len(s) + i] = x[i]
  BY Joined
<1>5. ASSUME NEW j \in k .. n PROVE b[j] \in Nat /\ b[j] <= Len(s)
  <2>1. b[j] \in 0 .. Len(s) BY <1>1
  <2> QED BY <1>4, <2>1
<1> DEFINE t == s \o x
           c == [j \in k .. n + 1 |-> IF j = n + 1 THEN Len(t) ELSE b[j]]
<1>6. k \in 0 .. n BY DEF n
<1>7. c \in [k .. n + 1 -> 0 .. Len(t)] BY <1>1, <1>2, <1>4, <1>6
<1>8. c[n + 1] = Len(t) /\ \A j \in k .. n : c[j] = b[j] BY <1>2, <1>6
<1> HIDE DEF c, t
<1>9. \A i, j \in k .. n + 1 : i <= j => c[i] <= c[j]
  <2> SUFFICES ASSUME NEW i \in k .. n + 1, NEW j \in k .. n + 1, i <= j PROVE c[i] <= c[j] OBVIOUS
  <2>1. CASE j = n + 1 BY <1>2, <1>6, <1>7, <1>8, <2>1
  <2>2. CASE j # n + 1
    <3>1. i \in k .. n /\ j \in k .. n BY <1>2, <1>6, <2>2
    <3> QED BY <1>1, <1>8, <3>1
  <2> QED BY <2>1, <2>2
<1>10. ASSUME NEW j \in k + 1 .. n + 1
       PROVE  c[j] = c[j - 1] + Len(more[j]) /\ \A i \in 1 .. Len(more[j]) : t[c[j - 1] + i] = more[j][i]
  <2>1. CASE j = n + 1
    <3>1. j - 1 = n /\ n \in k .. n BY <1>2, <1>6, <2>1
    <3>2. c[j - 1] = Len(s) /\ c[j] = Len(t) /\ more[j] = x BY <1>1, <1>2, <1>8, <2>1, <3>1
    <3> QED BY <1>4, <3>2 DEF t
  <2>2. CASE j # n + 1
    <3>1. j \in k + 1 .. n /\ j \in k .. n /\ j - 1 \in k .. n /\ j \in 1 .. n BY <1>2, <1>6, <2>2
    <3>2. c[j] = b[j] /\ c[j - 1] = b[j - 1] /\ more[j] = items[j] BY <1>2, <1>8, <3>1
    <3>3. items[j] \in Seq(Bytes) /\ Len(items[j]) \in Nat BY <1>3, <3>1
    <3>4. b[j] = b[j - 1] + Len(items[j]) /\ \A i \in 1 .. Len(items[j]) : s[b[j - 1] + i] = items[j][i] BY <1>1, <3>1
    <3>5. ASSUME NEW i \in 1 .. Len(items[j]) PROVE t[b[j - 1] + i] = items[j][i]
      <4>1. b[j - 1] \in Nat /\ b[j] \in Nat /\ b[j] <= Len(s) BY <1>5, <3>1
      <4>2. b[j] = b[j - 1] + Len(items[j]) BY <3>4
      <4>3. b[j - 1] + i \in 1 .. Len(s) BY <1>4, <3>3, <4>1, <4>2, Reaches
      <4> QED BY <1>4, <3>4, <4>3 DEF t, Begins
    <3> QED BY <3>2, <3>4, <3>5
  <2> QED BY <2>1, <2>2
<1>11. c[k] = 0 /\ k \in k .. n BY <1>1, <1>6, <1>8
<1>12. Cut(t, k, more)
  <2>1. Len(more) = n + 1 BY <1>2
  <2>2. c \in [k .. Len(more) -> 0 .. Len(t)] BY <1>7, <2>1
  <2>3. c[k] = 0 /\ c[Len(more)] = Len(t) BY <1>8, <1>11, <2>1
  <2>4. \A i, j \in k .. Len(more) : i <= j => c[i] <= c[j] BY <1>9, <2>1
  <2>5. \A j \in k + 1 .. Len(more) :
          c[j] = c[j - 1] + Len(more[j]) /\ \A i \in 1 .. Len(more[j]) : t[c[j - 1] + i] = more[j][i]
    BY <1>10, <2>1
  <2> QED BY <2>2, <2>3, <2>4, <2>5 DEF Cut
<1> QED BY <1>12 DEF t, more

\* The bytes begin with those of the first key that is cut out; without a key there are none.
LEMMA CutFirst ==
  ASSUME NEW s \in Seq(Bytes), NEW items \in Seq(Seq(Bytes)), NEW k \in 0 .. Len(items), Cut(s, k, items)
  PROVE  /\ k < Len(items) => Begins(items[k + 1], s)
         /\ k = Len(items) => s = <<>>
         /\ k + 1 = Len(items) => Len(s) = Len(items[k + 1])
<1> DEFINE n == Len(items)
<1>1. PICK b \in [k .. n -> 0 .. Len(s)] :
        /\ b[k] = 0 /\ b[n] = Len(s)
        /\ \A j \in k + 1 .. n :
             b[j] = b[j - 1] + Len(items[j]) /\ \A i \in 1 .. Len(items[j]) : s[b[j - 1] + i] = items[j][i]
  BY DEF Cut
<1>2. n \in Nat /\ Len(s) \in Nat OBVIOUS
<1>3. ASSUME k < n PROVE Len(items[k + 1]) \in Nat
  <2> DEFINE T == Seq(Bytes)
  <2>1. items \in Seq(T) /\ k + 1 \in 1 .. n BY <1>2, <1>3
  <2> HIDE DEF T
  <2>2. items[k + 1] \in T BY <2>1
  <2> QED BY <2>2 DEF T
<1> HIDE DEF n
<1>4. ASSUME k < n
      PROVE  b[k + 1] = Len(items[k + 1]) /\ \A i \in 1 .. Len(items[k + 1]) : s[i] = items[k + 1][i]
  <2>1. k + 1 \in k + 1 .. n /\ (k + 1) - 1 = k BY <1>2, <1>4
  <2>2. b[k + 1] = 0 + Len(items[k + 1]) /\ \A i \in 1 .. Len(items[k + 1]) : s[0 + i] = items[k + 1][i] BY <1>1, <2>1
  <2> QED BY <1>3, <1>4, <2>2
<1>5. k < n => Begins(items[k + 1], s)
  <2> SUFFICES ASSUME k < n PROVE Begins(items[k + 1], s) OBVIOUS
  <2>1. k + 1 \in k .. n BY <1>2
  <2>2. b[k + 1] <= Len(s) BY <1>1, <1>2, <2>1
  <2> QED BY <1>4, <2>2 DEF Begins
<1>6. k = n => s = <<>>
  <2>1. k = n => Len(s) = 0 BY <1>1
  <2> QED BY <2>1, EmptySeq
<1>7. k + 1 = n => Len(s) = Len(items[k + 1]) BY <1>1, <1>2, <1>4
<1> QED BY <1>5, <1>6, <1>7 DEF n

\* The first key taken away.
LEMMA CutRest ==
  ASSUME NEW p \in Seq(Bytes), NEW r \in Seq(Bytes), NEW items \in Seq(Seq(Bytes)), NEW k \in 0 .. Len(items),
         k < Len(items), items[k + 1] = p, Cut(p \o r, k, items)
  PROVE  Cut(r, k + 1, items)
<1> DEFINE n == Len(items)
           s == p \o r
<1>1. PICK b \in [k .. n -> 0 .. Len(s)] :
        /\ b[k] = 0 /\ b[n] = Len(s)
        /\ \A i, j \in k .. n : i <= j => b[i] <= b[j]
        /\ \A j \in k + 1 .. n :
             b[j] = b[j - 1] + Len(items[j]) /\ \A i \in 1 .. Len(items[j]) : s[b[j - 1] + i] = items[j][i]
  BY DEF Cut
<1>2. n \in Nat /\ k < n OBVIOUS
<1>3. Len(s) = Len(p) + Len(r) /\ Len(p) \in Nat /\ Len(r) \in Nat
      /\ \A i \in 1 .. Len(r) : s[Len(p) + i] = r[i]
  BY Joined
<1>4. \A j \in 1 .. n : Len(items[j]) \in Nat
  <2> DEFINE T == Seq(Bytes)
  <2>1. items \in Seq(T) OBVIOUS
  <2> HIDE DEF T
  <2>2. \A j \in 1 .. n : items[j] \in T BY <2>1
  <2> QED BY <2>2 DEF T
<1> HIDE DEF n, s
<1>5. b[k + 1] = Len(p)
  <2>1. k + 1 \in k + 1 .. n /\ (k + 1) - 1 = k BY <1>2
  <2>2. b[k + 1] = 0 + Len(items[k + 1]) BY <1>1, <2>1
  <2> QED BY <1>3, <2>2
<1>6. \A j \in k + 1 .. n : b[j] \in Nat /\ b[j] >= Len(p) /\ b[j] <= Len(s)
  <2> SUFFICES ASSUME NEW j \in k + 1 .. n PROVE b[j] \in Nat /\ b[j] >= Len(p) /\ b[j] <= Len(s) OBVIOUS
  <2>1. j \in k .. n /\ k + 1 \in k .. n /\ k + 1 <= j BY <1>2
  <2>2. b[k + 1] <= b[j] BY <1>1, <2>1
  <2>3. b[j] \in 0 .. Len(s) BY <1>1, <2>1
  <2> QED BY <1>3, <1>5, <2>2, <2>3
<1> DEFINE c == [j \in k + 1 .. n |-> b[j] - Len(p)]
<1>7. c \in [k + 1 .. n -> 0 .. Len(r)]
  <2> SUFFICES ASSUME NEW j \in k + 1 .. n PROVE b[j] - Len(p) \in 0 .. Len(r) OBVIOUS
  <2>1. b[j] \in Nat /\ b[j] >= Len(p) /\ b[j] <= Len(s) BY <1>6
  <2> QED BY <1>3, <2>1
<1>8. \A j \in k + 1 .. n : c[j] = b[j] - Len(p) OBVIOUS
<1> HIDE DEF c
<1>9. c[k + 1] = 0 /\ c[n] = Len(r)
  <2>1. k + 1 \in k + 1 .. n /\ n \in k + 1 .. n BY <1>2
  <2>2. c[k + 1] = Len(p) - Len(p) BY <1>5, <1>8, <2>1
  <2>3. c[n] = Len(s) - Len(p) BY <1>1, <1>8, <2>1
  <2> QED BY <1>3, <2>2, <2>3
<1>10. \A i, j \in k + 1 .. n : i <= j => c[i] <= c[j]
  <2> SUFFICES ASSUME NEW i \in k + 1 .. n, NEW j \in k + 1 .. n, i <= j PROVE c[i] <= c[j] OBVIOUS
  <2>1. i \in k .. n /\ j \in k .. n BY <1>2
  <2>2. b[i] <= b[j] BY <1>1, <2>1
  <2> QED BY <1>3, <1>6, <1>8, <2>2
<1>11. ASSUME NEW j \in (k + 1) + 1 .. n
       PROVE  c[j] = c[j - 1] + Len(items[j]) /\ \A i \in 1 .. Len(items[j]) : r[c[j - 1] + i] = items[j][i]
  <2>1. j \in k + 1 .. n /\ j - 1 \in k + 1 .. n /\ j \in 1 .. n BY <1>2
  <2>2. b[j] = b[j - 1] + Len(items[j]) /\ \A i \in 1 .. Len(items[j]) : s[b[j - 1] + i] = items[j][i] BY <1>1, <2>1
  <2>3. c[j] = b[j] - Len(p) /\ c[j - 1] = b[j - 1] - Len(p) BY <1>8, <2>1
  <2>4. Len(items[j]) \in Nat BY <1>4, <2>1
  <2>5. ASSUME NEW i \in 1 .. Len(items[j]) PROVE r[c[j - 1] + i] = items[j][i]
    <3>1. b[j - 1] \in Nat /\ b[j - 1] >= Len(p) /\ b[j] \in Nat /\ b[j] <= Len(p) + Len(r) BY <1>3, <1>6, <2>1
    <3>2. b[j] = b[j - 1] + Len(items[j]) BY <2>2
    <3>3. (b[j - 1] - Len(p)) + i \in 1 .. Len(r) /\ Len(p) + ((b[j - 1] - Len(p)) + i) = b[j - 1] + i
      <4> DEFINE x == b[j - 1]
                 y == b[j]
                 h == Len(items[j])
                 m == Len(p)
                 l == Len(r)
      <4>1. x \in Nat /\ y \in Nat /\ h \in Nat /\ m \in Nat /\ l \in Nat /\ i \in 1 .. h BY <1>3, <2>4, <3>1
      <4>2. y = x + h /\ x >= m /\ y <= m + l BY <3>1, <3>2
      <4> HIDE DEF x, y, h, m, l
      <4>3. (x - m) + i \in 1 .. l /\ m + ((x - m) + i) = x + i BY <4>1, <4>2, Within
      <4> QED BY <4>3 DEF x, m, l
    <3>4. s[Len(p) + (c[j - 1] + i)] = r[c[j - 1] + i] BY <1>3, <2>3, <3>3
    <3> QED BY <2>2, <2>3, <3>3, <3>4
  <2>6. b[j - 1] \in Nat /\ b[j] = b[j - 1] + Len(items[j]) BY <1>6, <2>1, <2>2
  <2>7. ASSUME NEW x \in Nat, NEW m \in Nat, NEW l \in Nat PROVE (x + l) - m = (x - m) + l OBVIOUS
  <2>8. (b[j - 1] + Len(items[j])) - Len(p) = (b[j - 1] - Len(p)) + Len(items[j]) BY <1>3, <2>4, <2>6, <2>7
  <2>9. c[j] = c[j - 1] + Len(items[j]) BY <2>3, <2>6, <2>8
  <2> QED BY <2>5, <2>9
<1> QED BY <1>7, <1>9, <1>10, <1>11 DEF Cut, n

-----------------------------------------------------------------------------
(* Keys that end where the decoder expects it                               *)

Inner(p) == p \in Nodes /\ ~ IsLeaf(keys, p)

\* All but the last byte lead to an inner node; the last one makes a known sequence
\* of it, or finds no child at the root or behind the Esc.
Whole(item) ==
  /\ item # <<>> /\ item # <<Esc>> /\ Inner(Front(item))
  /\ IF item \in Nodes THEN IsLeaf(keys, item) ELSE Front(item) = <<>> \/ keys[Front(item)].escape

\* The Esc alone, where longer sequences begin with it.
Lone(item) == item = <<Esc>> /\ Inner(item) /\ keys[item].escape

\* Somebody presses such keys only.
Familiar(w) == \A item \in w.items : Whole(item) \/ Lone(item)

LEMMA FirstBytes ==
  ASSUME NEW s \in Seq(Bytes), NEW n \in 0 .. Len(s)
  PROVE  SubSeq(s, 1, n) \in Seq(Bytes) /\ Len(SubSeq(s, 1, n)) = n /\ \A i \in 1 .. n : SubSeq(s, 1, n)[i] = s[i]
OBVIOUS

LEMMA FrontIs ==
  ASSUME NEW item \in Seq(Bytes), item # <<>>
  PROVE  /\ Front(item) \in Seq(Bytes) /\ Len(Front(item)) = Len(item) - 1 /\ Len(item) \in Nat \ {0}
         /\ Begins(Front(item), item)
<1>1. Len(item) \in Nat \ {0} BY EmptySeq
<1> DEFINE front == SubSeq(item, 1, Len(item) - 1)
<1>2. front \in Seq(Bytes) /\ Len(front) = Len(item) - 1 /\ \A i \in 1 .. Len(item) - 1 : front[i] = item[i]
  <2>1. Len(item) - 1 \in 0 .. Len(item) BY <1>1
  <2> QED BY <2>1, FirstBytes
<1>3. Front(item) = front BY DEF Front
<1> HIDE DEF front
<1>4. Begins(front, item) BY <1>1, <1>2 DEF Begins
<1> QED BY <1>1, <1>2, <1>3, <1>4

\* A byte appended, and the beginnings of what it makes.
LEMMA OneMore ==
  ASSUME NEW p \in Seq(Bytes), NEW c \in Bytes, NEW r \in Seq(Bytes)
  PROVE  /\ Append(p, c) \in Seq(Bytes) /\ Len(Append(p, c)) = Len(p) + 1 /\ Len(p) \in Nat
         /\ Append(p, c)[Len(p) + 1] = c /\ Begins(p, Append(p, c))
         /\ p \o (<<c>> \o r) = Append(p, c) \o r
BY DEF Begins

\* On the way to a node everything is a node that goes on with its next byte.
LEMMA BranchIs ==
  ASSUME NEW p \in Nodes, NEW q \in Seq(Bytes), Begins(q, p), Len(q) < Len(p)
  PROVE  Inner(q) /\ \E i \in 1 .. Len(keys[q].kids) : keys[q].kids[i] = p[Len(q) + 1]
<1>1. p \in Seq(Bytes) BY KeysOK DEF TreeOK, NodeOK, Nodes
<1>2. Len(q) \in 0 .. Len(p) - 1 /\ Len(q) \in Nat BY <1>1
<1>3. SubSeq(p, 1, Len(q)) = q BY <1>1, <1>2 DEF Begins
<1>4. HasChild(keys, q, p[Len(q) + 1]) BY <1>2, <1>3, KeysShape DEF Shape, Branches, Nodes
<1>5. PICK i \in 1 .. Len(keys[q].kids) : keys[q].kids[i] = p[Len(q) + 1] BY <1>4 DEF HasChild
<1>6. q \in Nodes BY <1>4 DEF HasChild, Nodes
<1>7. keys[q].kids # <<>>
  <2>1. Len(<<>>) = 0 OBVIOUS
  <2> QED BY <1>5, <2>1
<1> QED BY <1>5, <1>6, <1>7 DEF Inner, IsLeaf

LEMMA NodeTyped == ASSUME NEW p \in Nodes PROVE p \in Seq(Bytes)
BY KeysOK DEF TreeOK, NodeOK, Nodes

\* The decoder is never behind the end of such a key.
LEMMA WholeAhead ==
  ASSUME NEW item \in Seq(Bytes), Whole(item), NEW path, Inner(path),
         NEW s \in Seq(Bytes), Begins(path, s), Begins(item, s)
  PROVE  Len(path) < Len(item) /\ Begins(path, item)
<1>1. path \in Nodes /\ path \in Seq(Bytes) BY NodeTyped DEF Inner
<1>2. Len(path) \in Nat /\ Len(item) \in Nat BY <1>1
<1>3. ASSUME Len(path) >= Len(item) PROVE FALSE
  <2>1. Begins(item, path) BY <1>1, <1>2, <1>3, Shorter
  <2>2. CASE Len(path) = Len(item)
    <3>1. item = path BY <1>1, <2>2, SameBytes
    <3> QED BY <3>1 DEF Whole, Inner
  <2>3. CASE Len(path) > Len(item)
    <3>1. Inner(item) BY <1>1, <1>2, <2>1, <2>3, BranchIs
    <3> QED BY <3>1 DEF Whole, Inner
  <2> QED BY <1>2, <1>3, <2>2, <2>3
<1>4. Len(path) < Len(item) BY <1>2, <1>3
<1>5. Begins(path, item) BY <1>1, <1>2, <1>4, Shorter
<1> QED BY <1>4, <1>5

\* A known sequence that has come is that key,
LEMMA LeafIsItem ==
  ASSUME NEW item \in Seq(Bytes), Whole(item), NEW path \in Nodes, IsLeaf(keys, path),
         NEW s \in Seq(Bytes), Begins(path, s), Begins(item, s)
  PROVE  path = item
<1>1. path \in Seq(Bytes) BY NodeTyped
<1>2. Len(path) \in Nat /\ Len(item) \in Nat BY <1>1
<1>3. ASSUME Len(path) > Len(item) PROVE FALSE
  <2>1. Begins(item, path) BY <1>1, <1>2, <1>3, Shorter
  <2>2. Inner(item) BY <1>2, <1>3, <2>1, BranchIs
  <2> QED BY <2>2 DEF Whole, Inner
<1>4. ASSUME Len(path) < Len(item) PROVE FALSE
  <2> DEFINE front == Front(item)
  <2>1. front \in Seq(Bytes) /\ Len(front) = Len(item) - 1 /\ Begins(front, item) BY FrontIs DEF Whole
  <2>2. Begins(path, item) BY <1>1, <1>2, <1>4, Shorter
  <2>3. Inner(front) BY DEF Whole
  <2> HIDE DEF front
  <2>4. Len(path) <= Len(front) /\ Len(front) \in Nat BY <1>2, <1>4, <2>1
  <2>5. Begins(path, front) BY <1>1, <2>1, <2>2, <2>4, Shorter
  <2>6. CASE Len(path) = Len(front)
    <3>1. path = front BY <1>1, <2>1, <2>2, <2>6, SameBytes
    <3> QED BY <2>3, <3>1 DEF Inner
  <2>7. CASE Len(path) < Len(front)
    <3>1. Inner(path) BY <1>1, <2>3, <2>5, <2>7, BranchIs DEF Inner
    <3> QED BY <3>1 DEF Inner
  <2> QED BY <1>2, <2>4, <2>6, <2>7
<1> QED BY <1>1, <1>2, <1>3, <1>4, SameBytes

\* and so is what ends with a byte that is no child.
LEMMA MissIsItem ==
  ASSUME NEW item \in Seq(Bytes), Whole(item), NEW path, Inner(path), NEW c \in Bytes,
         ~ \E i \in 1 .. Len(keys[path].kids) : keys[path].kids[i] = c,
         NEW s \in Seq(Bytes), Begins(Append(path, c), s), Begins(item, s)
  PROVE  Append(path, c) = item /\ item \notin Nodes /\ Front(item) = path
<1> DEFINE longer == Append(path, c)
           front == Front(item)
<1>1. path \in Nodes /\ path \in Seq(Bytes) BY NodeTyped DEF Inner
<1>2. longer \in Seq(Bytes) /\ Len(longer) = Len(path) + 1 /\ Len(path) \in Nat /\ longer[Len(path) + 1] = c /\ Begins(path, longer)
  BY <1>1, OneMore
<1>3. front \in Seq(Bytes) /\ Len(front) = Len(item) - 1 /\ Len(item) \in Nat /\ Begins(front, item) BY FrontIs DEF Whole
<1>4. Begins(longer, s) /\ Inner(front) BY DEF Whole
<1> HIDE DEF longer, front
<1>5. Begins(path, s) BY <1>1, <1>2, <1>4 DEF Begins
<1>6. Len(path) < Len(item) /\ Begins(path, item) BY <1>5, WholeAhead
<1>7. Begins(longer, item) BY <1>2, <1>3, <1>4, <1>6, Shorter
<1>8. item[Len(path) + 1] = c BY <1>2, <1>7 DEF Begins
<1>9. ASSUME Len(path) < Len(front) PROVE FALSE
  <2>1. Begins(path, front) BY <1>1, <1>2, <1>3, <1>6, <1>9, Shorter
  <2>2. front \in Nodes BY <1>4 DEF Inner
  <2>3. \E i \in 1 .. Len(keys[path].kids) : keys[path].kids[i] = front[Len(path) + 1] BY <1>1, <1>9, <2>1, <2>2, BranchIs
  <2>4. front[Len(path) + 1] = item[Len(path) + 1]
    <3>1. Len(path) + 1 \in 1 .. Len(front) BY <1>2, <1>3, <1>9
    <3> QED BY <1>3, <3>1 DEF Begins
  <2> QED BY <1>8, <2>3, <2>4
<1>10. Len(item) = Len(longer) /\ Len(front) = Len(path) BY <1>2, <1>3, <1>6, <1>9
<1>11. longer = item BY <1>2, <1>4, <1>10, SameBytes
<1>12. front = path BY <1>1, <1>3, <1>6, <1>10, SameBytes
<1>13. item \notin Nodes
  <2> SUFFICES ASSUME item \in Nodes PROVE FALSE OBVIOUS
  <2>1. \E i \in 1 .. Len(keys[path].kids) : keys[path].kids[i] = item[Len(path) + 1] BY <1>1, <1>6, BranchIs
  <2> QED BY <1>8, <2>1
<1> QED BY <1>11, <1>12, <1>13 DEF longer, front

\* What such a key means.
LEMMA FamiliarKnown ==
  ASSUME NEW item \in Seq(Bytes), Whole(item) \/ Lone(item)
  PROVE  Known(item)
<1>1. CASE item \in Nodes BY <1>1 DEF Known, Nodes
<1>2. CASE item \notin Nodes /\ Whole(item)
  <2>1. Len(Front(item)) = Len(item) - 1 /\ Len(item) \in Nat \ {0} /\ Begins(Front(item), item) BY <1>2, FrontIs DEF Whole
  <2>2. CASE Front(item) = <<>>
    <3>1. Len(<<>>) = 0 OBVIOUS
    <3>2. Len(item) = 1 BY <2>1, <2>2, <3>1
    <3> QED BY <3>2 DEF Known
  <2>3. CASE keys[Front(item)].escape
    <3>1. Front(item) = <<Esc>> BY <1>2, <2>3, KeysShape DEF Whole, Inner, Shape, Escapes, Nodes
    <3>2. Len(<<Esc>>) = 1 /\ <<Esc>>[1] = Esc OBVIOUS
    <3>3. Len(Front(item)) = 1 /\ Front(item)[1] = Esc /\ 1 \in 1 .. Len(Front(item)) BY <3>1, <3>2
    <3>4. item[1] = Front(item)[1] BY <2>1, <3>3 DEF Begins
    <3>5. Len(item) - 1 = 1 /\ Len(item) \in Nat BY <2>1, <3>3
    <3>6. Len(item) = 2 BY <3>5
    <3>7. item[1] = Esc BY <3>3, <3>4
    <3> QED BY <3>6, <3>7 DEF Known
  <2> QED BY <1>2, <2>2, <2>3 DEF Whole
<1>3. CASE Lone(item) BY <1>3 DEF Lone, Inner, Known, Nodes
<1> QED BY <1>1, <1>2, <1>3

-----------------------------------------------------------------------------
(* The invariant of the decoder                                             *)

Codes == {Meaning(item) : item \in Seq(Bytes)}

\* The bytes whose keys are not given out yet: those that led to the place, and
\* those that are still to be read.
Unread == Place.path \o (input \o wire)
NextItem == typed[Len(out) + 1]

\* Every code is that of the key pressed in its turn.
Answered ==
  /\ out \in Seq(Codes) /\ Len(out) <= Len(typed)
  /\ \A i \in 1 .. Len(out) : out[i] = Meaning(typed[i])

Pressed == \A i \in 1 .. Len(typed) : typed[i] \in world.items

\* Only the last key can be an Esc that has had no effect yet.
Patient == \A i \in 1 .. Len(typed) - 1 : typed[i] = <<Esc>> => i <= Len(out)

Silence == wire = <<>> /\ input = <<>>

\* Nothing is pending or thrown away, each child is looked at, and once the time
\* after an Esc has run out what follows it is already there.
Calm ==
  /\ pc # "eat" /\ pending = 0
  /\ at # NULL => at.from = 1 /\ at.path # <<>>
  /\ pc = "timed" => at # NULL /\ keys[at.path].escape /\ old_esc_mode
  /\ at # NULL /\ keys[at.path].escape /\ old_esc_mode /\ esc_time = "past" /\ input = <<>> => Silence

Flow == Cut(Unread, Len(out), typed)

Decodes == Familiar(world) /\ InTime /\ Answered /\ Pressed /\ Patient /\ Calm /\ Flow

LEMMA UnreadIs ==
  ASSUME Inv, Calm
  PROVE  /\ Inner(Place.path) /\ Place.path \in Seq(Bytes) /\ Len(Place.path) \in Nat
         /\ input \o wire \in Seq(Bytes) /\ Unread \in Seq(Bytes) /\ Begins(Place.path, Unread)
         /\ Len(Unread) = Len(Place.path) + Len(input \o wire) /\ Len(input \o wire) = Len(input) + Len(wire)
         /\ Len(input) \in Nat /\ Len(wire) \in Nat
<1>1. Inner(Place.path) /\ Place.path \in Seq(Bytes) BY PlaceIs DEF Calm, PlaceOK, Inner
<1>2. input \in Seq(Bytes) /\ wire \in Seq(Bytes) BY DEF Inv, Wires
<1>3. input \o wire \in Seq(Bytes) /\ Len(input \o wire) = Len(input) + Len(wire) /\ Len(input) \in Nat /\ Len(wire) \in Nat
  BY <1>2, Joined
<1> DEFINE r == input \o wire
<1> HIDE DEF r
<1>4. r \in Seq(Bytes) BY <1>3 DEF r
<1>5. Place.path \o r \in Seq(Bytes) /\ Len(Place.path \o r) = Len(Place.path) + Len(r)
      /\ Begins(Place.path, Place.path \o r) /\ Len(Place.path) \in Nat
  BY <1>1, <1>4, Joined
<1> QED BY <1>1, <1>3, <1>5 DEF Unread, r

LEMMA TypedItem ==
  ASSUME Inv, NEW i \in 1 .. Len(typed)
  PROVE  typed[i] \in Seq(Bytes)
<1> DEFINE T == Seq(Bytes)
<1>1. typed \in Seq(T) BY DEF Inv, Wires
<1> HIDE DEF T
<1>2. typed[i] \in T BY <1>1
<1> QED BY <1>2 DEF T

LEMMA Lengths ==
  ASSUME Inv, Answered
  PROVE  Len(out) \in Nat /\ Len(typed) \in Nat /\ Len(out) \in 0 .. Len(typed) /\ typed \in Seq(Seq(Bytes))
<1>1. typed \in Seq(Seq(Bytes)) BY DEF Inv, Wires
<1>2. Len(typed) \in Nat BY <1>1
<1>3. Len(out) \in Nat /\ Len(out) <= Len(typed) BY DEF Answered
<1> QED BY <1>1, <1>2, <1>3

\* Where a byte is left there is a key that begins with it; an Esc alone is the last one.
LEMMA NextKey ==
  ASSUME Inv, Decodes, Unread # <<>>
  PROVE  /\ Len(out) < Len(typed)
         /\ NextItem \in Seq(Bytes) /\ (Whole(NextItem) \/ Lone(NextItem)) /\ Begins(NextItem, Unread)
         /\ NextItem = <<Esc>> => Len(out) + 1 = Len(typed) /\ Unread = <<Esc>>
<1>1. Unread \in Seq(Bytes) BY UnreadIs DEF Decodes
<1>2. Len(out) \in Nat /\ Len(typed) \in Nat /\ Len(out) \in 0 .. Len(typed) /\ typed \in Seq(Seq(Bytes)) BY Lengths DEF Decodes
<1>3. Cut(Unread, Len(out), typed) BY DEF Decodes, Flow
<1>4. Len(out) < Len(typed)
  <2>1. Len(out) # Len(typed) BY <1>1, <1>2, <1>3, CutFirst
  <2> QED BY <1>2, <2>1
<1>5. Begins(NextItem, Unread) BY <1>1, <1>2, <1>3, <1>4, CutFirst DEF NextItem
<1>6. Len(out) + 1 \in 1 .. Len(typed) BY <1>2, <1>4
<1>7. NextItem \in Seq(Bytes) BY <1>6, TypedItem DEF NextItem
<1>8. NextItem \in world.items BY <1>6 DEF Decodes, Pressed, NextItem
<1>9. Whole(NextItem) \/ Lone(NextItem) BY <1>8 DEF Decodes, Familiar
<1>10. ASSUME NextItem = <<Esc>> PROVE Len(out) + 1 = Len(typed) /\ Unread = <<Esc>>
  <2>1. Len(out) + 1 = Len(typed)
    <3> SUFFICES ASSUME Len(out) + 1 # Len(typed) PROVE FALSE OBVIOUS
    <3>1. Len(out) + 1 \in 1 .. Len(typed) - 1 BY <1>2, <1>4
    <3>2. Len(out) + 1 <= Len(out) BY <1>10, <3>1 DEF Decodes, Patient, NextItem
    <3> QED BY <1>2, <3>2
  <2>2. Len(Unread) = Len(NextItem) BY <1>1, <1>2, <1>3, <2>1, CutFirst DEF NextItem
  <2>3. Begins(Unread, Unread) BY <1>1 DEF Begins
  <2>4. Unread = NextItem BY <1>1, <1>5, <1>7, <2>2, <2>3, SameBytes
  <2> QED BY <1>10, <2>1, <2>4
<1> QED BY <1>4, <1>5, <1>7, <1>9, <1>10

-----------------------------------------------------------------------------
(* The steps *)

\* The next key is given out: the bytes behind it are left.
LEMMA KeyDone ==
  ASSUME Inv, Decodes, Len(out) < Len(typed), NextItem \in Seq(Bytes),
         Return(Meaning(NextItem)), Forgotten, UNCHANGED <<world, typed>>,
         input' \o wire' \in Seq(Bytes), Unread = NextItem \o (input' \o wire')
  PROVE  Decodes'
<1>1. out' = Append(out, Meaning(NextItem)) /\ pc' = "out" /\ at' = NULL /\ append' = 0 /\ pending' = 0
  BY DEF Return, Forgotten
<1>2. Len(out) \in Nat /\ Len(typed) \in Nat /\ Len(out) \in 0 .. Len(typed) /\ typed \in Seq(Seq(Bytes)) BY Lengths DEF Decodes
<1>3. out \in Seq(Codes) /\ Meaning(NextItem) \in Codes BY DEF Decodes, Answered, Codes
<1>4. out' \in Seq(Codes) /\ Len(out') = Len(out) + 1 /\ out'[Len(out) + 1] = Meaning(NextItem)
      /\ \A i \in 1 .. Len(out) : out'[i] = out[i]
  <2> DEFINE code == Meaning(NextItem)
  <2> HIDE DEF code
  <2>1. out \in Seq(Codes) /\ code \in Codes /\ out' = Append(out, code) BY <1>1, <1>3 DEF code
  <2>2. out' \in Seq(Codes) /\ Len(out') = Len(out) + 1 /\ out'[Len(out) + 1] = code
        /\ \A i \in 1 .. Len(out) : out'[i] = out[i]
    BY <2>1
  <2> QED BY <2>2 DEF code
<1>5. ASSUME NEW i \in 1 .. Len(out') PROVE out'[i] = Meaning(typed[i])
  <2>1. CASE i \in 1 .. Len(out) BY <1>4, <2>1 DEF Decodes, Answered
  <2>2. CASE i = Len(out) + 1 BY <1>4, <2>2 DEF NextItem
  <2> QED BY <1>2, <1>4, <2>1, <2>2
<1>0. typed' = typed /\ world' = world OBVIOUS
<1>6. Answered'
  <2>1. out' \in Seq(Codes) /\ Len(out') <= Len(typed) BY <1>2, <1>4
  <2> QED BY <1>0, <1>5, <2>1 DEF Answered
<1>7. Familiar(world)' /\ InTime' /\ Pressed' BY DEF Decodes, InTime, old_esc_mode, Pressed, Familiar, Whole, Lone, Inner, IsLeaf
<1>8. Patient'
  <2> SUFFICES ASSUME NEW i \in 1 .. Len(typed) - 1, typed[i] = <<Esc>> PROVE i <= Len(out') BY <1>0 DEF Patient
  <2>1. i <= Len(out) BY DEF Decodes, Patient
  <2> QED BY <1>2, <1>4, <2>1
<1>9. Calm' BY <1>1 DEF Calm
<1>10. Unread' = input' \o wire'
  <2>1. Place' = [path |-> <<>>, from |-> 1] BY <1>1 DEF Place
  <2>2. Unread' = <<>> \o (input' \o wire') BY <2>1 DEF Unread
  <2> DEFINE r == input' \o wire'
  <2>3. r \in Seq(Bytes) OBVIOUS
  <2> HIDE DEF r
  <2>4. <<>> \o r = r BY <2>3
  <2> QED BY <2>2, <2>4 DEF r
<1>11. Cut(input' \o wire', Len(out) + 1, typed)
  <2> DEFINE r == input' \o wire'
  <2>1. r \in Seq(Bytes) /\ Cut(NextItem \o r, Len(out), typed) BY DEF Decodes, Flow
  <2> HIDE DEF r
  <2>2. Cut(r, Len(out) + 1, typed) BY <1>2, <2>1, CutRest DEF NextItem
  <2> QED BY <2>2 DEF r
<1>12. Flow' BY <1>4, <1>10, <1>11 DEF Flow
<1> QED BY <1>6, <1>7, <1>8, <1>9, <1>12 DEF Decodes

\* What is unread begins with the place and the byte that is read.
LEMMA ReadByte ==
  ASSUME Inv, Calm, input # <<>>, input' = Tail(input), wire' = wire
  PROVE  /\ Head(input) \in Bytes /\ input' \o wire' \in Seq(Bytes)
         /\ Unread = Append(Place.path, Head(input)) \o (input' \o wire')
         /\ Append(Place.path, Head(input)) \in Seq(Bytes) /\ Begins(Append(Place.path, Head(input)), Unread)
         /\ Len(Append(Place.path, Head(input))) = Len(Place.path) + 1
         /\ Unread # <<>>
<1>1. input \in Seq(Bytes) /\ wire \in Seq(Bytes) BY DEF Inv, Wires
<1>2. Place.path \in Seq(Bytes) /\ Unread \in Seq(Bytes) BY UnreadIs
<1> DEFINE c == Head(input)
           r == Tail(input) \o wire
<1>3. c \in Bytes /\ Tail(input) \in Seq(Bytes) BY <1>1, TailTyped
<1>4. r \in Seq(Bytes) BY <1>1, <1>3
<1>5. input \o wire = <<c>> \o r BY <1>1, <1>3
<1>6. Unread = Place.path \o (<<c>> \o r) BY <1>5 DEF Unread
<1>7. input' \o wire' = r OBVIOUS
<1> HIDE DEF c, r
<1>8. Append(Place.path, c) \in Seq(Bytes) /\ Len(Append(Place.path, c)) = Len(Place.path) + 1 /\ Len(Place.path) \in Nat
      /\ Place.path \o (<<c>> \o r) = Append(Place.path, c) \o r
  BY <1>2, <1>3, <1>4, OneMore
<1> DEFINE longer == Append(Place.path, c)
<1> HIDE DEF longer
<1>9. longer \in Seq(Bytes) /\ Unread = longer \o r BY <1>6, <1>8 DEF longer
<1>10. Begins(longer, Unread) /\ Len(Unread) = Len(longer) + Len(r) /\ Len(r) \in Nat /\ Len(longer) = Len(Place.path) + 1
  BY <1>4, <1>8, <1>9, Joined DEF longer
<1>11. Unread # <<>>
  <2>1. Len(<<>>) = 0 OBVIOUS
  <2> QED BY <1>8, <1>10, <2>1
<1> QED BY <1>3, <1>4, <1>7, <1>8, <1>9, <1>10, <1>11 DEF c, longer

\* A step that gives nothing out and reads nothing but into the place.
LEMMA SameFlow ==
  ASSUME Decodes, world' = world, typed' = typed, out' = out, Unread' = Unread
  PROVE  Familiar(world)' /\ InTime' /\ Answered' /\ Pressed' /\ Patient' /\ Flow'
BY DEF Decodes, InTime, old_esc_mode, Answered, Pressed, Patient, Flow, Familiar, Whole, Lone, Inner, IsLeaf

LEMMA EnterDecodes == Inv /\ Decodes /\ Enter => Decodes'
<1> SUFFICES ASSUME Inv, Decodes, Enter PROVE Decodes' OBVIOUS
<1>1. pending = 0 BY DEF Decodes, Calm
<1>2. pc' = "read" /\ world' = world /\ typed' = typed /\ wire' = wire /\ input' = input /\ out' = out /\ at' = at
      /\ esc_time' = esc_time /\ pending' = pending
  BY <1>1 DEF Enter
<1>3. Unread' = Unread BY <1>2 DEF Unread, Place
<1>4. Calm' BY <1>2 DEF Decodes, Calm, Silence, old_esc_mode
<1> QED BY <1>2, <1>3, <1>4, SameFlow DEF Decodes

\* A known sequence.
LEMMA CompleteDecodes ==
  ASSUME Inv, Decodes, input # <<>>, input' = Tail(input), wire' = wire, UNCHANGED <<world, typed>>,
         Append(Place.path, Head(input)) \in Nodes, IsLeaf(keys, Append(Place.path, Head(input))),
         Complete(Append(Place.path, Head(input)))
  PROVE  Decodes'
<1> DEFINE path == Append(Place.path, Head(input))
<1>1. /\ input' \o wire' \in Seq(Bytes) /\ Unread = path \o (input' \o wire') /\ path \in Seq(Bytes)
      /\ Begins(path, Unread) /\ Len(path) = Len(Place.path) + 1 /\ Unread # <<>>
  BY ReadByte DEF Decodes
<1>2. path \in Nodes /\ IsLeaf(keys, path) OBVIOUS
<1>3. Return(keys[path].code) /\ Forgotten BY DEF Complete
<1>4. Unread \in Seq(Bytes) /\ Len(Place.path) \in Nat BY UnreadIs DEF Decodes
<1> HIDE DEF path
<1>5. /\ Len(out) < Len(typed) /\ NextItem \in Seq(Bytes) /\ (Whole(NextItem) \/ Lone(NextItem))
      /\ Begins(NextItem, Unread) /\ (NextItem = <<Esc>> => Unread = <<Esc>>)
  BY <1>1, NextKey
<1>6. CASE Whole(NextItem)
  <2>1. path = NextItem BY <1>1, <1>2, <1>4, <1>5, <1>6, LeafIsItem
  <2>2. Meaning(NextItem) = keys[path].code
    <3>1. NextItem # <<Esc>> /\ NextItem \in DOMAIN keys BY <1>2, <1>6, <2>1 DEF Whole, Nodes
    <3> QED BY <2>1, <3>1 DEF Meaning
  <2>3. Return(Meaning(NextItem)) BY <1>3, <2>2
  <2>4. Unread = NextItem \o (input' \o wire') BY <1>1, <2>1
  <2> QED BY <1>1, <1>3, <1>5, <2>3, <2>4, KeyDone
<1>7. CASE Lone(NextItem)
  <2>1. Unread = <<Esc>> /\ NextItem = <<Esc>> BY <1>5, <1>7 DEF Lone
  <2>2. Len(<<Esc>>) = 1 OBVIOUS
  <2>3. Len(path) = Len(NextItem)
    <3>1. Len(path) <= Len(Unread) BY <1>1 DEF Begins
    <3>2. Len(Unread) = 1 /\ Len(NextItem) = 1 BY <2>1, <2>2
    <3> QED BY <1>1, <1>4, <3>1, <3>2
  <2>4. path = NextItem BY <1>1, <1>4, <1>5, <2>3, SameBytes
  <2> QED BY <1>2, <1>7, <2>4 DEF Lone, Inner
<1> QED BY <1>5, <1>6, <1>7

\* push_char puts the first byte of a key at the beginning of the buffer.
LEMMA FirstPushed ==
  ASSUME Inv, at = NULL, pending = 0, NEW c \in Bytes
  PROVE  Pushed(c)[1] = c /\ Pushed(c)[2] = End
<1>1. Slot = 1 BY DEF Slot, Inv, Kept
<1>2. ~ Full BY <1>1, BoundsAssumption DEF Full
<1>3. Pushed(c) = [buffer EXCEPT ![1] = c, ![2] = End] BY <1>1, <1>2 DEF Pushed
<1>4. 1 \in DOMAIN buffer /\ 2 \in DOMAIN buffer BY BoundsAssumption DEF Inv, Kept, BufferOK
<1> QED BY <1>3, <1>4

\* A byte behind the Esc, or one that begins no sequence.
LEMMA MissDecodes ==
  ASSUME Inv, Decodes, input # <<>>, input' = Tail(input), wire' = wire, UNCHANGED <<world, typed>>,
         ~ \E i \in 1 .. Len(keys[Place.path].kids) : keys[Place.path].kids[i] = Head(input),
         Miss(Place, Head(input))
  PROVE  Decodes'
<1> DEFINE c == Head(input)
           path == Place.path
           longer == Append(path, c)
<1>1. /\ c \in Bytes /\ input' \o wire' \in Seq(Bytes) /\ Unread = longer \o (input' \o wire') /\ longer \in Seq(Bytes)
      /\ Begins(longer, Unread) /\ Len(longer) = Len(path) + 1 /\ Unread # <<>>
  BY ReadByte DEF Decodes
<1>2. Unread \in Seq(Bytes) /\ Len(path) \in Nat /\ Inner(path) /\ path \in Seq(Bytes) BY UnreadIs DEF Decodes
<1>3. ~ \E i \in 1 .. Len(keys[path].kids) : keys[path].kids[i] = c OBVIOUS
<1>4. Miss(Place, c) OBVIOUS
<1>5. longer[Len(path) + 1] = c BY <1>1, <1>2, OneMore
<1> HIDE DEF c, path
<1>6. /\ Len(out) < Len(typed) /\ NextItem \in Seq(Bytes) /\ (Whole(NextItem) \/ Lone(NextItem))
      /\ Begins(NextItem, Unread) /\ (NextItem = <<Esc>> => Unread = <<Esc>>)
  BY <1>1, NextKey
<1>7. ASSUME Return(Meaning(NextItem)), Forgotten, longer = NextItem PROVE Decodes'
  <2>1. Unread = NextItem \o (input' \o wire') BY <1>1, <1>7
  <2> QED BY <1>1, <1>6, <1>7, <2>1, KeyDone
<1>8. CASE Whole(NextItem)
  <2>1. longer = NextItem /\ NextItem \notin Nodes /\ Front(NextItem) = path BY <1>1, <1>2, <1>3, <1>6, <1>8, MissIsItem
  <2>2. NextItem # <<Esc>> /\ NextItem \notin DOMAIN keys BY <1>8, <2>1 DEF Whole, Nodes
  <2> HIDE DEF longer
  <2>3. CASE keys[path].escape
    <3>1. path = <<Esc>> BY <1>2, <2>3, KeysShape DEF Inner, Shape, Escapes, Nodes
    <3>2. Len(<<Esc>>) = 1 OBVIOUS
    <3>3. Len(NextItem) = 2 /\ NextItem[2] = c BY <1>1, <1>5, <2>1, <3>1, <3>2
    <3>4. Meaning(NextItem) = Special(c) BY <2>2, <3>3 DEF Meaning
    <3>5. Return(Special(c)) /\ Forgotten BY <1>4, <2>3 DEF Miss, path
    <3> QED BY <1>7, <2>1, <3>4, <3>5
  <2>4. CASE ~ keys[path].escape
    <3>1. path = <<>> /\ Len(<<>>) = 0 BY <1>8, <2>1, <2>4 DEF Whole
    <3>2. Len(NextItem) = 1 /\ NextItem[1] = c BY <1>1, <1>5, <2>1, <3>1
    <3>3. Meaning(NextItem) = <<"char", c>> BY <2>2, <3>2 DEF Meaning
    <3>4. c # Esc
      <4> SUFFICES ASSUME c = Esc PROVE FALSE OBVIOUS
      <4>1. Append(<<>>, Esc) = <<Esc>> OBVIOUS
      <4> QED BY <2>1, <2>2, <3>1, <4>1 DEF longer
    <3>5. at = NULL BY <3>1 DEF Decodes, Calm, path, Place
    <3>6. pending = 0 BY DEF Decodes, Calm
    <3>7. Pushed(c)[1] = c /\ Pushed(c)[2] = End BY <1>1, <3>5, <3>6, FirstPushed
    <3>8. PendSend(Pushed(c), 1, NextSlot, LastChild) BY <1>4, <2>4 DEF Miss, path
    <3>9. Return(<<"char", c>>) /\ Forgotten
      <4> DEFINE buf == Pushed(c)
      <4>1. PendSend(buf, 1, NextSlot, LastChild) BY <3>8
      <4>2. buf[1] # Esc /\ buf[1] = c /\ buf[1 + 1] = End BY <3>4, <3>7
      <4> HIDE DEF buf
      <4> QED BY <4>1, <4>2 DEF PendSend
    <3> QED BY <1>7, <2>1, <3>3, <3>9
  <2> QED BY <2>3, <2>4
<1>9. CASE Lone(NextItem)
  <2>1. Unread = <<Esc>> /\ NextItem = <<Esc>> BY <1>6, <1>9 DEF Lone
  <2>2. Len(<<Esc>>) = 1 /\ Len(<<>>) = 0 OBVIOUS
  <2>3. Len(longer) = Len(NextItem) BY <1>1, <1>2, <2>1, <2>2 DEF Begins
  <2>4. longer = NextItem BY <1>1, <1>2, <1>6, <2>3, SameBytes
  <2>5. NextItem \in Nodes BY <1>9 DEF Lone, Inner
  <2>6. Begins(path, longer) BY <1>1, <1>2, OneMore
  <2>7. Len(path) < Len(NextItem) /\ NextItem[Len(path) + 1] = c BY <1>1, <1>2, <1>5, <2>4
  <2>8. \E i \in 1 .. Len(keys[path].kids) : keys[path].kids[i] = NextItem[Len(path) + 1]
    BY <1>2, <2>4, <2>5, <2>6, <2>7, BranchIs
  <2> QED BY <1>3, <2>7, <2>8
<1> QED BY <1>6, <1>8, <1>9

\* A beginning of a sequence.
LEMMA DeeperDecodes ==
  ASSUME Inv, Decodes, input # <<>>, input' = Tail(input), wire' = wire, UNCHANGED <<world, typed>>,
         Deeper(Append(Place.path, Head(input)), Head(input))
  PROVE  Decodes'
<1> DEFINE path == Append(Place.path, Head(input))
<1>1. Unread = path \o (input' \o wire') /\ path \in Seq(Bytes) /\ Len(path) = Len(Place.path) + 1 BY ReadByte DEF Decodes
<1>2. Len(Place.path) \in Nat BY UnreadIs DEF Decodes
<1>3. /\ at' = [path |-> path, from |-> 1] /\ out' = out /\ pending' = pending
      /\ IF keys[path].escape /\ old_esc_mode
         THEN IF no_delay THEN pc' = "read" /\ esc_time' = "now" ELSE pc' = "timed" /\ esc_time' = "none"
         ELSE pc' = "read" /\ esc_time' = esc_time
  BY DEF Deeper
<1> HIDE DEF path
<1>4. at' # NULL /\ at'.path = path /\ at'.from = 1
  <2>1. [path |-> path, from |-> 1] # NULL BY RecordIsSome
  <2> QED BY <1>3, <2>1
<1>5. path # <<>>
  <2>1. Len(<<>>) = 0 OBVIOUS
  <2> QED BY <1>1, <1>2, <2>1
<1>6. Unread' = Unread BY <1>1, <1>4 DEF Unread, Place
<1>7. world' = world /\ typed' = typed OBVIOUS
<1>8. Calm'
  <2>1. pc' # "eat" /\ pending' = 0 BY <1>3 DEF Decodes, Calm
  <2>2. pc' = "timed" => keys[path].escape /\ old_esc_mode BY <1>3
  <2>3. keys[path].escape /\ old_esc_mode => esc_time' # "past" BY <1>3
  <2>4. (old_esc_mode)' = old_esc_mode BY <1>7 DEF old_esc_mode
  <2> QED BY <1>4, <1>5, <2>1, <2>2, <2>3, <2>4 DEF Calm
<1> QED BY <1>3, <1>6, <1>7, <1>8, SameFlow DEF Decodes

LEMMA ReadDecodes == Inv /\ Decodes /\ Read => Decodes'
<1> SUFFICES ASSUME Inv, Decodes, Read PROVE Decodes' OBVIOUS
<1> DEFINE c == Head(input)
           kids == keys[Place.path].kids
           path == Append(Place.path, c)
<1>1. input # <<>> /\ input' = Tail(input) /\ wire' = wire /\ world' = world /\ typed' = typed /\ Match(Place, c) BY DEF Read
<1>2. pending = 0 /\ Calm BY DEF Decodes, Calm
<1>3. Place.from = 1
  <2>1. at # NULL => at.from = 1 BY <1>2 DEF Calm
  <2> QED BY <2>1 DEF Place
<1>4. CASE ~ \E i \in 1 .. Len(kids) : kids[i] = c
  <2>1. Miss(Place, c) BY <1>1, <1>3, <1>4 DEF Match
  <2> QED BY <1>1, <1>4, <2>1, MissDecodes
<1>5. CASE \E i \in 1 .. Len(kids) : kids[i] = c
  <2>1. /\ PlaceOK(Place) /\ Place.path \in Seq(Bytes) /\ Len(Place.path) \in Nat
        /\ Slot \in 1 .. Room /\ Slot <= Len(Place.path) + 1
    BY <1>2, PlaceIs
  <2>2. NodeOK(keys, Place.path) BY <2>1, KeysOK DEF PlaceOK, TreeOK, Nodes
  <2>3. path \in Nodes BY <1>5, <2>2 DEF NodeOK, Nodes
  <2>4. CASE IsLeaf(keys, path)
    <3>1. Complete(path) BY <1>1, <1>3, <1>5, <2>4 DEF Match
    <3> QED BY <1>1, <2>3, <2>4, <3>1, CompleteDecodes
  <2>5. CASE ~ IsLeaf(keys, path)
    <3>1. c \in Bytes /\ Len(path) = Len(Place.path) + 1 BY <1>1, <1>2, ReadByte
    <3>2. Len(path) < Room BY <2>3, <2>5, InnerIs
    <3>3. Slot # SEQ_BUFFER_LEN - 1 BY <2>1, <3>1, <3>2, RoomIs
    <3>4. ~ Full BY <3>3 DEF Full
    <3>5. Deeper(path, c) BY <1>1, <1>3, <1>5, <2>5, <3>4 DEF Match
    <3> QED BY <1>1, <3>5, DeeperDecodes
  <2> QED BY <2>4, <2>5
<1> QED BY <1>4, <1>5

\* When nothing follows an Esc, that is the key.
LEMMA EscNext ==
  ASSUME Inv, Decodes, at # NULL, keys[at.path].escape, Silence
  PROVE  /\ Unread = <<Esc>> /\ NextItem = <<Esc>> /\ Lone(NextItem) /\ Len(out) + 1 = Len(typed)
<1>1. Place = at BY DEF Place
<1>2. at.path = <<Esc>>
  <2>1. Inner(at.path) BY <1>1, UnreadIs DEF Decodes
  <2> QED BY <2>1, KeysShape DEF Inner, Shape, Escapes, Nodes
<1>3. Unread = <<Esc>>
  <2>1. Unread = <<Esc>> \o (<<>> \o <<>>) BY <1>1, <1>2 DEF Unread, Silence
  <2>2. <<Esc>> \o (<<>> \o <<>>) = <<Esc>>
    <3>1. Esc \in Bytes BY BytesAssumption
    <3> QED BY <3>1
  <2> QED BY <2>1, <2>2
<1>4. Len(<<Esc>>) = 1 /\ Len(<<>>) = 0 OBVIOUS
<1>5. Unread # <<>> BY <1>3, <1>4
<1>6. /\ NextItem \in Seq(Bytes) /\ (Whole(NextItem) \/ Lone(NextItem)) /\ Begins(NextItem, Unread)
      /\ NextItem = <<Esc>> => Len(out) + 1 = Len(typed)
  BY <1>5, NextKey
<1>7. NextItem # <<>> BY <1>4, <1>6 DEF Whole, Lone
<1>8. Unread \in Seq(Bytes) BY UnreadIs DEF Decodes
<1>9. Len(NextItem) = Len(Unread)
  <2>1. Len(NextItem) \in Nat \ {0} BY <1>6, <1>7, EmptySeq
  <2>2. Len(NextItem) <= 1 BY <1>3, <1>4, <1>6 DEF Begins
  <2> QED BY <1>3, <1>4, <2>1, <2>2
<1>10. Begins(Unread, Unread) BY <1>8 DEF Begins
<1>11. NextItem = Unread BY <1>6, <1>8, <1>9, <1>10, SameBytes
<1>12. Lone(NextItem) BY <1>3, <1>6, <1>11 DEF Whole
<1> QED BY <1>3, <1>6, <1>11, <1>12

LEMMA EscDecodes ==
  ASSUME Inv, Decodes, at # NULL, keys[at.path].escape, Silence, Return(<<"key", "esc">>), Forgotten,
         world' = world, typed' = typed, wire' = wire, input' = input
  PROVE  Decodes'
<1>1. Unread = <<Esc>> /\ NextItem = <<Esc>> /\ Len(out) + 1 = Len(typed) BY EscNext
<1>2. Meaning(NextItem) = <<"key", "esc">>
  <2>1. NextItem \in DOMAIN keys BY <1>1, EscNext DEF Lone, Inner, Nodes
  <2> QED BY <1>1, <2>1 DEF Meaning
<1>3. Return(Meaning(NextItem)) BY <1>2
<1>4. Len(out) < Len(typed) BY <1>1, Lengths DEF Decodes
<1>5. NextItem \in Seq(Bytes)
  <2>1. Esc \in Bytes BY BytesAssumption
  <2> QED BY <1>1, <2>1
<1>6. input' \o wire' = <<>> BY DEF Silence
<1>7. <<>> \in Seq(Bytes) OBVIOUS
<1>8. NextItem \o <<>> = NextItem BY <1>5
<1>9. input' \o wire' \in Seq(Bytes) /\ Unread = NextItem \o (input' \o wire') BY <1>1, <1>6, <1>7, <1>8
<1> QED BY <1>3, <1>4, <1>5, <1>9, KeyDone

LEMMA NothingThereDecodes == Inv /\ Decodes /\ NothingThere => Decodes'
<1> SUFFICES ASSUME Inv, Decodes, NothingThere PROVE Decodes' OBVIOUS
<1>1. world' = world /\ typed' = typed /\ wire' = wire /\ input' = input /\ esc_time' = esc_time BY DEF NothingThere
<1>2. CASE at # NULL /\ keys[Place.path].escape /\ old_esc_mode /\ esc_time = "past"
  <2>1. Return(<<"key", "esc">>) /\ Forgotten BY <1>2 DEF NothingThere
  <2>2. keys[at.path].escape BY <1>2 DEF Place
  <2>3. Silence BY <1>2, <2>2 DEF NothingThere, Decodes, Calm
  <2> QED BY <1>1, <1>2, <2>1, <2>2, <2>3, EscDecodes
<1>3. CASE ~ (at # NULL /\ keys[Place.path].escape /\ old_esc_mode /\ esc_time = "past")
  <2>1. pc' = "out" /\ out' = out /\ at' = at /\ append' = append /\ pending' = pending BY <1>3 DEF NothingThere
  <2>2. Unread' = Unread BY <1>1, <2>1 DEF Unread, Place
  <2>3. Calm' BY <1>1, <2>1 DEF Decodes, Calm, Silence, old_esc_mode
  <2> QED BY <1>1, <2>1, <2>2, <2>3, SameFlow DEF Decodes
<1> QED BY <1>2, <1>3

LEMMA TimeDecodes == Inv /\ Decodes /\ TimeRunsOut => Decodes'
<1> SUFFICES ASSUME Inv, Decodes, TimeRunsOut PROVE Decodes' OBVIOUS
<1>1. UNCHANGED <<world, typed, wire, input, out, pc, at, buffer, append, pending, left>> /\ Late BY DEF TimeRunsOut
<1>2. Unread' = Unread BY <1>1 DEF Unread, Place
<1>3. old_esc_mode /\ input' = <<>> => Silence' BY <1>1 DEF Silence, Late, Decodes, InTime
<1>4. Calm' BY <1>1, <1>3 DEF Decodes, Calm, old_esc_mode
<1> QED BY <1>1, <1>2, <1>4, SameFlow DEF Decodes

LEMMA LoneEscDecodes == Inv /\ Decodes /\ LoneEsc => Decodes'
<1> SUFFICES ASSUME Inv, Decodes, LoneEsc PROVE Decodes' OBVIOUS
<1>1. pc = "timed" /\ input = <<>> /\ Late /\ Return(<<"key", "esc">>) /\ Forgotten BY DEF LoneEsc
<1>2. world' = world /\ typed' = typed /\ wire' = wire /\ input' = input BY DEF LoneEsc
<1>3. at # NULL /\ keys[at.path].escape /\ old_esc_mode BY <1>1 DEF Decodes, Calm
<1>4. Silence BY <1>1, <1>3 DEF Late, Silence, Decodes, InTime
<1> QED BY <1>1, <1>2, <1>3, <1>4, EscDecodes

\* Whoever pressed the Esc alone waits.
LEMMA PressKeyDecodes == Inv /\ Decodes /\ PressKey => Decodes'
<1> SUFFICES ASSUME Inv, Decodes, PressKey PROVE Decodes' OBVIOUS
<1> DEFINE T == Seq(Bytes)
<1>1. PICK item \in world.items : typed' = Append(typed, item) /\ wire' = wire \o item BY DEF PressKey
<1>2. world' = world /\ input' = input /\ out' = out /\ pc' = pc /\ at' = at /\ esc_time' = esc_time
      /\ append' = append /\ pending' = pending
  BY DEF PressKey, private
<1>3. item \in T BY <1>1, WorldsAssumption DEF Inv, Wires
<1>4. Len(out) \in Nat /\ Len(typed) \in Nat /\ Len(out) \in 0 .. Len(typed) /\ typed \in Seq(T) BY Lengths DEF Decodes
<1>5. Len(typed') = Len(typed) + 1 /\ typed'[Len(typed) + 1] = item /\ \A i \in 1 .. Len(typed) : typed'[i] = typed[i]
  <2> HIDE DEF T
  <2> QED BY <1>1, <1>3, <1>4
<1>6. typed # <<>> /\ typed[Len(typed)] = <<Esc>> => Len(out) = Len(typed) BY DEF PressKey, Last
<1>7. Answered'
  <2>1. ASSUME NEW i \in 1 .. Len(out) PROVE out'[i] = Meaning(typed'[i])
    <3>1. out[i] = Meaning(typed[i]) BY DEF Decodes, Answered
    <3>2. typed'[i] = typed[i] BY <1>4, <1>5
    <3> QED BY <1>2, <3>1, <3>2
  <2>2. out' \in Seq(Codes) /\ Len(out') <= Len(typed') BY <1>2, <1>4, <1>5 DEF Decodes, Answered
  <2> QED BY <1>2, <2>1, <2>2 DEF Answered
<1>8. Familiar(world)' /\ InTime' BY <1>2 DEF Decodes, InTime, old_esc_mode, Familiar, Whole, Lone, Inner, IsLeaf
<1>9. Pressed'
  <2> SUFFICES ASSUME NEW i \in 1 .. Len(typed) + 1 PROVE typed'[i] \in world.items BY <1>2, <1>5 DEF Pressed
  <2>1. CASE i \in 1 .. Len(typed) BY <1>5, <2>1 DEF Decodes, Pressed
  <2>2. CASE i = Len(typed) + 1 BY <1>1, <1>5, <2>2
  <2> QED BY <1>4, <2>1, <2>2
<1>10. Patient'
  <2> SUFFICES ASSUME NEW i \in 1 .. Len(typed), typed'[i] = <<Esc>> PROVE i <= Len(out)
    BY <1>2, <1>4, <1>5 DEF Patient
  <2>1. typed[i] = <<Esc>> BY <1>5
  <2>2. CASE i \in 1 .. Len(typed) - 1 BY <2>1, <2>2 DEF Decodes, Patient
  <2>3. CASE i = Len(typed)
    <3>1. typed # <<>>
      <4>1. Len(<<>>) = 0 OBVIOUS
      <4> QED BY <2>3, <4>1
    <3> QED BY <1>4, <1>6, <2>1, <2>3, <3>1
  <2> QED BY <1>4, <2>2, <2>3
<1>11. Calm'
  <2>1. ASSUME at # NULL, keys[at.path].escape, old_esc_mode, esc_time = "past", input = <<>> PROVE FALSE
    <3>1. Silence BY <2>1 DEF Decodes, Calm
    <3>2. NextItem = <<Esc>> /\ Len(out) + 1 = Len(typed) BY <2>1, <3>1, EscNext
    <3>3. typed # <<>>
      <4>1. Len(<<>>) = 0 OBVIOUS
      <4> QED BY <1>4, <3>2, <4>1
    <3> QED BY <1>4, <1>6, <3>2, <3>3 DEF NextItem
  <2>2. (old_esc_mode)' = old_esc_mode BY <1>2 DEF old_esc_mode
  <2> QED BY <1>2, <2>1, <2>2 DEF Decodes, Calm
<1>12. Unread \in Seq(Bytes) BY UnreadIs DEF Decodes
<1>13. Unread' = Unread \o item
  <2>1. Place' = Place BY <1>2 DEF Place
  <2>2. Place.path \in Seq(Bytes) BY UnreadIs DEF Decodes
  <2>3. input \in Seq(Bytes) /\ wire \in Seq(Bytes) BY DEF Inv, Wires
  <2> DEFINE u == input \o wire
             p == Place.path
  <2>4. input \o (wire \o item) = u \o item BY <1>3, <2>3, Associative
  <2>5. u \in Seq(Bytes) BY <2>3
  <2> HIDE DEF u, p
  <2>6. p \o (u \o item) = (p \o u) \o item
    <3>1. p \in Seq(Bytes) /\ item \in Seq(Bytes) BY <1>3, <2>2 DEF p
    <3> QED BY <2>5, <3>1, Associative
  <2>7. Unread' = p \o (u \o item) BY <1>1, <1>2, <2>1, <2>4 DEF Unread, p
  <2>8. Unread = p \o u BY DEF Unread, p, u
  <2> QED BY <2>6, <2>7, <2>8
<1>14. Flow'
  <2>1. Cut(Unread, Len(out), typed) BY DEF Decodes, Flow
  <2>2. Cut(Unread \o item, Len(out), Append(typed, item)) BY <1>3, <1>4, <1>12, <2>1, CutMore
  <2> QED BY <1>1, <1>2, <1>13, <2>2 DEF Flow
<1> QED BY <1>7, <1>8, <1>9, <1>10, <1>11, <1>14 DEF Decodes

LEMMA ArriveDecodes == Inv /\ Decodes /\ Arrive => Decodes'
<1> SUFFICES ASSUME Inv, Decodes, Arrive PROVE Decodes' OBVIOUS
<1>1. wire \in Seq(Bytes) /\ wire # <<>> /\ input \in Seq(Bytes) BY DEF Inv, Wires, Arrive
<1>2. wire' = Tail(wire) /\ input' = Append(input, Head(wire)) BY DEF Arrive
<1>3. world' = world /\ typed' = typed /\ out' = out /\ pc' = pc /\ at' = at /\ esc_time' = esc_time /\ pending' = pending
  BY DEF Arrive, private
<1>4. input' \o wire' = input \o wire
  <2>1. Append(input, Head(wire)) \o Tail(wire) = input \o wire BY <1>1, Passed
  <2> QED BY <1>2, <2>1
<1>5. Unread' = Unread BY <1>3, <1>4 DEF Unread, Place
<1>6. Calm'
  <2>1. input' # <<>>
    <3>1. input' = Append(input, Head(wire)) /\ Head(wire) \in Bytes BY <1>1, <1>2
    <3>2. Len(input') = Len(input) + 1 /\ Len(input) \in Nat BY <1>1, <3>1
    <3>3. Len(<<>>) = 0 OBVIOUS
    <3> QED BY <3>2, <3>3
  <2>2. (old_esc_mode)' = old_esc_mode BY <1>3 DEF old_esc_mode
  <2> QED BY <1>3, <2>1, <2>2 DEF Decodes, Calm
<1> QED BY <1>3, <1>5, <1>6, SameFlow DEF Decodes

LEMMA InitDecodes == Init /\ Familiar(world) /\ InTime => Decodes
<1> SUFFICES ASSUME Init, Familiar(world), InTime PROVE Decodes OBVIOUS
<1>0. Len(<<>>) = 0 /\ \A S : <<>> \in Seq(S) OBVIOUS
<1>1. typed = <<>> /\ wire = <<>> /\ input = <<>> /\ out = <<>> /\ pc = "out" /\ at = NULL /\ pending = 0 BY DEF Init
<1>2. Answered /\ Pressed /\ Patient BY <1>0, <1>1 DEF Answered, Pressed, Patient
<1>3. Calm BY <1>1 DEF Calm
<1>4. Flow
  <2>1. Place.path = <<>> BY <1>1 DEF Place
  <2>2. <<>> \o (<<>> \o <<>>) = <<>> OBVIOUS
  <2>3. Unread = <<>> BY <1>1, <2>1, <2>2 DEF Unread
  <2> QED BY <1>0, <1>1, <2>3, CutNothing DEF Flow
<1> QED BY <1>2, <1>3, <1>4 DEF Decodes

LEMMA StepDecodes == Inv /\ Decodes /\ [Next]_vars => Decodes'
<1> SUFFICES ASSUME Inv, Decodes, [Next]_vars PROVE Decodes' OBVIOUS
<1>1. CASE UNCHANGED vars
  <2>1. UNCHANGED <<world, typed, wire, input, out, pc, at, esc_time, buffer, append, pending, left>>
    BY <1>1 DEF vars
  <2>2. Unread' = Unread BY <2>1 DEF Unread, Place
  <2>3. Calm' BY <2>1 DEF Decodes, Calm, Silence, old_esc_mode
  <2> QED BY <2>1, <2>2, <2>3, SameFlow DEF Decodes
<1>2. CASE Program BY <1>2, EnterDecodes, ReadDecodes, NothingThereDecodes DEF Program
<1>3. CASE Clock
  <2>1. ~ Eat BY DEF Eat, Decodes, Calm
  <2> QED BY <1>3, <2>1, TimeDecodes, LoneEscDecodes DEF Clock
<1>4. CASE PressKey BY <1>4, PressKeyDecodes
<1>5. CASE Arrive BY <1>5, ArriveDecodes
<1> QED BY <1>1, <1>2, <1>3, <1>4, <1>5 DEF Next

LEMMA DecodesNoGarbage == Inv /\ Decodes => NoGarbage
<1> SUFFICES ASSUME Inv, Decodes PROVE NoGarbage OBVIOUS
<1>1. Len(out) \in Nat /\ Len(typed) \in Nat /\ Len(out) <= Len(typed) BY Lengths DEF Decodes
<1>2. DOMAIN out = 1 .. Len(out) /\ DOMAIN typed = 1 .. Len(typed)
  <2> DEFINE T == Seq(Bytes)
  <2>1. out \in Seq(Codes) /\ typed \in Seq(T) BY DEF Decodes, Answered, Inv, Wires
  <2> HIDE DEF T
  <2> QED BY <2>1
<1> DEFINE pressed == [i \in DOMAIN out |-> i]
<1>3. pressed \in [DOMAIN out -> DOMAIN typed] BY <1>1, <1>2
<1>4. \A i, j \in DOMAIN out : i < j => pressed[i] < pressed[j] OBVIOUS
<1>5. ASSUME NEW i \in DOMAIN out PROVE Known(typed[pressed[i]]) /\ out[i] = Meaning(typed[pressed[i]])
  <2>1. pressed[i] = i /\ i \in 1 .. Len(out) /\ i \in 1 .. Len(typed) BY <1>1, <1>2
  <2>2. typed[i] \in Seq(Bytes) BY <2>1, TypedItem
  <2>3. typed[i] \in world.items BY <2>1 DEF Decodes, Pressed
  <2>4. Known(typed[i]) BY <2>2, <2>3, FamiliarKnown DEF Decodes, Familiar
  <2>5. out[i] = Meaning(typed[i]) BY <2>1 DEF Decodes, Answered
  <2> QED BY <2>1, <2>4, <2>5
<1> HIDE DEF pressed
<1> QED BY <1>3, <1>4, <1>5 DEF NoGarbage

\* Whoever presses keys that end where the decoder expects it (known sequences, Alt and
\* a key that begins none of them, single characters, and an Esc before which and after
\* which he waits) gets exactly these keys, in order, whatever the definitions are and
\* whether the program waits or polls (key.c:1703, 1730, 1845): with the old mode of the
\* Esc off however the bytes are delayed, with it on if the rest of a sequence comes
\* before old_esc_mode_timeout has run out (key.c:1762, 1822).
THEOREM KeysAreKeys == Spec /\ Familiar(world) /\ InTime => []NoGarbage
<1>1. Inv /\ Decodes /\ [Next]_vars => (Inv /\ Decodes)' BY StepInv, StepDecodes
<1>2. Init /\ Familiar(world) /\ InTime => Inv /\ Decodes BY InitInv, InitDecodes
<1>3. Inv /\ Decodes => NoGarbage BY DecodesNoGarbage
<1> QED BY <1>1, <1>2, <1>3, PTL DEF Spec
=============================================================================
