----------------------------- MODULE Tui_proofs -----------------------------
(***************************************************************************)
(* Proofs about Tui, for any number of nodes and properties and any        *)
(* transactions: its types, and that no sequence of commands ties the      *)
(* links of the tree into a knot; then, where each transaction is one      *)
(* whole command, what a commit does, what a command can lose, and that    *)
(* the linked nodes implement the document of Forest.                      *)
(*                                                                         *)
(* What a sequence of creates and removes keeps is said link by link (who  *)
(* is whose parent, who may link to whom, which way the links go); that    *)
(* loops end follows from it, and so that a list has as many nodes as      *)
(* follow its first one, which is what makes sequences of linked nodes.    *)
(***************************************************************************)
EXTENDS Tui, FiniteSetTheorems, WellFoundedInduction, TLAPS

-----------------------------------------------------------------------------
(* What every tree is. *)

Byte  == 0 .. 255
Word  == {n \in Nat : n <= 65535}
Props == [1 .. PROP_COUNT -> Byte \X Byte]
Nodes == [kind : Byte, parent : Handles, first_child : Handles, next_sibling : Handles,
          text_len : Word, props : Props]

Shaped(t) == t \in [Handles -> Nodes] /\ Occupied(t, 0)

Child(t, m, n)   == Occupied(t, m) /\ t[m].first_child = n
Sibling(t, m, n) == Occupied(t, m) /\ t[m].next_sibling = n
Leads(t, m, n)   == Child(t, m, n) \/ Sibling(t, m, n)

\* The nodes of a list have the parent that the list hangs from.
Kinship(t) ==
  \A m \in Handles, n \in Named :
    /\ Child(t, m, n) => Occupied(t, n) /\ t[n].parent = m
    /\ Sibling(t, m, n) => Occupied(t, n) /\ t[n].parent = t[m].parent

OneWay(t) ==
  \A l, m \in Handles, n \in Named :
    /\ Sibling(t, l, n) /\ Sibling(t, m, n) => l = m
    /\ ~(Child(t, l, n) /\ Sibling(t, m, n))

\* Only a node that hangs in a list has siblings after it.
Queued(t) ==
  \A m \in Handles : Occupied(t, m) /\ t[m].next_sibling # 0 =>
    m \in Named /\ \E l \in Handles : Leads(t, l, m)

\* A node that was created under itself is the last one in its list,
OwnParent(t, n) == Occupied(t, n) /\ t[n].parent = n
Alone(t) == \A n \in Named : OwnParent(t, n) => t[n].next_sibling = 0

\* and only links to such a node lead back.
Ranked(r, t) ==
  \A m \in Handles, n \in Named : Leads(t, m, n) => r[m] < r[n] \/ t[n].parent = n

Ranks == [Handles -> Nat]
Sound(t) ==
  /\ Shaped(t) /\ Kinship(t) /\ OneWay(t) /\ Queued(t) /\ Alone(t)
  /\ \E r \in Ranks : Ranked(r, t)

-----------------------------------------------------------------------------
(* Nodes. *)

LEMMA HandlesAre ==
  /\ 0 \in Handles /\ 0 \notin Named
  /\ \A h : h \in Named <=> h \in Handles /\ h # 0
BY TreeAssumption DEF Handles, Named

LEMMA EmptyNodeType ==
  /\ EmptyNode \in Nodes /\ EmptyNode.kind = 0
  /\ EmptyNode.first_child = 0 /\ EmptyNode.next_sibling = 0
<1>1. [i \in 1 .. PROP_COUNT |-> <<0, 0>>] \in Props BY DEF Byte, Props
<1>2. 0 \in Byte /\ 0 \in Word BY DEF Byte, Word
<1>. QED BY <1>1, <1>2, HandlesAre DEF EmptyNode, Nodes, NODE_FREE

LEMMA NodeAt ==
  ASSUME NEW x \in Nodes
  PROVE  /\ x.kind \in Byte /\ x.parent \in Handles
         /\ x.first_child \in Handles /\ x.next_sibling \in Handles
         /\ x.text_len \in Word /\ x.props \in Props
BY DEF Nodes

LEMMA ShapedAt ==
  ASSUME NEW t, Shaped(t), NEW h \in Handles
  PROVE  /\ t[h] \in Nodes
         /\ t[h].kind \in Byte /\ t[h].parent \in Handles
         /\ t[h].first_child \in Handles /\ t[h].next_sibling \in Handles
         /\ Occupied(t, h) <=> t[h].kind # 0
<1>1. t[h] \in Nodes BY DEF Shaped
<1>2. Occupied(t, h) <=> t[h].kind # 0 BY DEF Occupied, NODE_FREE
<1>3. t[h].kind \in Byte /\ t[h].parent \in Handles BY <1>1, NodeAt
<1>4. t[h].first_child \in Handles /\ t[h].next_sibling \in Handles BY <1>1, NodeAt
<1>. QED BY <1>1, <1>2, <1>3, <1>4

\* Lists and subtrees are the least sets that their links do not leave.
LEMMA ChainStart ==
  ASSUME NEW t, NEW n \in Named
  PROVE  n \in Chain(t, n)
BY HandlesAre DEF Chain

LEMMA ChainStep ==
  ASSUME NEW t, NEW n, NEW x \in Chain(t, n), t[x].next_sibling \in Named
  PROVE  t[x].next_sibling \in Chain(t, n)
BY HandlesAre DEF Chain

LEMMA ChainWithin ==
  ASSUME NEW t, NEW n, NEW S, S \subseteq Named,
         n \in S \cup {0}, \A x \in S : t[x].next_sibling \in S \cup {0}
  PROVE  Chain(t, n) \subseteq S
BY DEF Chain

LEMMA BelowStart ==
  ASSUME NEW t, NEW h, t[h].first_child \in Named
  PROVE  t[h].first_child \in Below(t, h)
BY HandlesAre DEF Below

LEMMA BelowStep ==
  ASSUME NEW t, NEW h, NEW x \in Below(t, h)
  PROVE  /\ t[x].first_child \in Named => t[x].first_child \in Below(t, h)
         /\ t[x].next_sibling \in Named => t[x].next_sibling \in Below(t, h)
BY HandlesAre DEF Below

LEMMA BelowWithin ==
  ASSUME NEW t, NEW h, NEW S, S \subseteq Named, t[h].first_child \in S \cup {0},
         \A x \in S : t[x].first_child \in S \cup {0} /\ t[x].next_sibling \in S \cup {0}
  PROVE  Below(t, h) \subseteq S
BY DEF Below

LEMMA BelowFrom ==
  ASSUME NEW t, NEW h, NEW y \in Below(t, h), y # t[h].first_child,
         t[h].first_child \in Handles,
         \A x \in Below(t, h) : t[x].first_child \in Handles /\ t[x].next_sibling \in Handles
  PROVE  \E x \in Below(t, h) : t[x].first_child = y \/ t[x].next_sibling = y
<1> DEFINE S == Below(t, h) \ {y}
<1>1. SUFFICES ASSUME \A x \in Below(t, h) : t[x].first_child # y /\ t[x].next_sibling # y PROVE FALSE
  OBVIOUS
<1>2. Below(t, h) \subseteq Named BY DEF Below
<1>3. t[h].first_child \in S \cup {0} BY BelowStart, HandlesAre
<1>4. ASSUME NEW x \in S PROVE t[x].first_child \in S \cup {0} /\ t[x].next_sibling \in S \cup {0}
  BY <1>1, BelowStep, HandlesAre
<1>5. Below(t, h) \subseteq S
  <2>1. S \subseteq Named BY <1>2
  <2>. HIDE DEF S
  <2>. QED BY <1>3, <1>4, <2>1, BelowWithin
<1>. QED BY <1>5

\* What has a link from a node of a tree is one of its nodes.
LEMMA LinkAt ==
  ASSUME NEW t, Shaped(t), NEW m \in Handles, Occupied(t, m)
  PROVE  /\ t[m].first_child = 0 \/ (t[m].first_child \in Named /\ Child(t, m, t[m].first_child))
         /\ t[m].next_sibling = 0 \/ (t[m].next_sibling \in Named /\ Sibling(t, m, t[m].next_sibling))
<1>1. t[m].first_child \in Handles /\ t[m].next_sibling \in Handles BY ShapedAt
<1>. QED BY <1>1, HandlesAre DEF Child, Sibling

LEMMA ChainOccupied ==
  ASSUME NEW t, Shaped(t), Kinship(t), NEW p \in Handles, Occupied(t, p)
  PROVE  \A m \in Children(t, p) : m \in Named /\ Occupied(t, m)
<1> DEFINE S == {m \in Named : Occupied(t, m)}
<1>1. t[p].first_child \in S \cup {0} BY LinkAt DEF Kinship
<1>2. \A x \in S : t[x].next_sibling \in S \cup {0} BY LinkAt, HandlesAre DEF Kinship
<1>3. Chain(t, t[p].first_child) \subseteq S
  <2>1. S \subseteq Named OBVIOUS
  <2>. HIDE DEF S
  <2> DEFINE f == t[p].first_child
  <2>2. f \in S \cup {0} BY <1>1
  <2>. HIDE DEF f
  <2>3. Chain(t, f) \subseteq S BY <1>2, <2>1, <2>2, ChainWithin
  <2>. QED BY <2>3 DEF f
<1>. QED BY <1>3 DEF Children

LEMMA BelowOccupied ==
  ASSUME NEW t, Shaped(t), Kinship(t), NEW h \in Handles, Occupied(t, h)
  PROVE  \A m \in Below(t, h) : m \in Named /\ Occupied(t, m)
<1> DEFINE S == {m \in Named : Occupied(t, m)}
<1>1. t[h].first_child \in S \cup {0} BY LinkAt DEF Kinship
<1>2. \A x \in S : t[x].first_child \in S \cup {0} /\ t[x].next_sibling \in S \cup {0}
  BY LinkAt, HandlesAre DEF Kinship
<1>3. Below(t, h) \subseteq S
  <2>1. S \subseteq Named OBVIOUS
  <2>. HIDE DEF S
  <2>. QED BY <1>1, <1>2, <2>1, BelowWithin
<1>. QED BY <1>3

-----------------------------------------------------------------------------
(* The least of some numbers. *)

LEMMA Minimal ==
  ASSUME NEW R, IsWellFoundedOn(R, Nat), NEW T, T \subseteq Nat, T # {}
  PROVE  \E x \in T : \A y \in T : ~(<<y, x>> \in R)
BY WFMin

LEMMA Least ==
  ASSUME NEW T, T \subseteq Nat, T # {}
  PROVE  \E x \in T : \A y \in T : x <= y
<1>1. ASSUME NEW R, IsWellFoundedOn(R, Nat), \A x, y \in Nat : <<x, y>> \in R <=> x < y
      PROVE  \E x \in T : \A y \in T : x <= y
  <2>1. PICK x \in T : \A y \in T : ~(<<y, x>> \in R)
    <3>1. IsWellFoundedOn(R, Nat) BY <1>1
    <3>. QED BY <3>1, Minimal
  <2>2. ASSUME NEW y \in T PROVE x <= y
    <3>1. x \in Nat /\ y \in Nat /\ ~(<<y, x>> \in R) BY <2>1
    <3>. QED BY <1>1, <3>1
  <2>. QED BY <2>2
<1>2. IsWellFoundedOn(OpToRel(<, Nat), Nat) BY NatLessThanWellFounded
<1>3. \A x, y \in Nat : <<x, y>> \in OpToRel(<, Nat) <=> x < y BY DEF OpToRel
<1>4. \E R : IsWellFoundedOn(R, Nat) /\ \A x, y \in Nat : <<x, y>> \in R <=> x < y
  <2>. WITNESS OpToRel(<, Nat)
  <2>. QED BY <1>2, <1>3, Zenon
<1>. QED BY <1>1, <1>4

LEMMA LeastOf ==
  ASSUME NEW r \in Ranks, NEW T, T \subseteq Handles, T # {}
  PROVE  \E x \in T : \A y \in T : r[x] <= r[y]
<1> DEFINE U == {r[x] : x \in T}
<1>1. U \subseteq Nat /\ U # {} BY DEF Ranks
<1>2. PICK u \in U : \A y \in U : u <= y
  <2> HIDE DEF U
  <2>. QED BY <1>1, Least
<1>. QED BY <1>2

\* detach finds every node that has one after it: it is in its parent's list.
LEMMA InItsList ==
  ASSUME NEW t, Sound(t), NEW m \in Handles, Occupied(t, m), t[m].next_sibling # 0
  PROVE  Occupied(t, t[m].parent) /\ m \in Children(t, t[m].parent)
<1> DEFINE Held(x) == Occupied(t, t[x].parent) /\ x \in Children(t, t[x].parent)
           Bad == {x \in Handles : Occupied(t, x) /\ t[x].next_sibling # 0 /\ ~Held(x)}
<1>1. SUFFICES ASSUME Bad # {} PROVE FALSE OBVIOUS
<1>2. PICK r \in Ranks : Ranked(r, t) BY DEF Sound
<1>3. PICK b \in Bad : \A x \in Bad : r[b] <= r[x]
  <2>1. Bad \subseteq Handles OBVIOUS
  <2> HIDE DEF Bad
  <2>. QED BY <1>1, <2>1, LeastOf
<1>4. b \in Handles /\ Occupied(t, b) /\ t[b].next_sibling # 0 /\ ~Held(b) OBVIOUS
<1>5. b \in Named BY <1>4 DEF Sound, Queued
<1>6. PICK l \in Handles : Leads(t, l, b) BY <1>4 DEF Sound, Queued
<1>7. Occupied(t, l) BY <1>6 DEF Leads, Child, Sibling
<1>8. r[l] < r[b] BY <1>2, <1>4, <1>5, <1>6 DEF Ranked, Sound, Alone, OwnParent
<1>9. r[l] \in Nat /\ r[b] \in Nat BY <1>5, HandlesAre DEF Ranks
<1>10. l \notin Bad BY <1>3, <1>8, <1>9
<1> HIDE DEF Bad
<1>11. CASE Child(t, l, b)
  <2>1. t[b].parent = l /\ t[l].first_child = b BY <1>5, <1>11 DEF Sound, Kinship, Child
  <2>2. b \in Chain(t, b) BY <1>5, ChainStart
  <2>. QED BY <1>4, <1>7, <2>1, <2>2 DEF Children
<1>12. CASE Sibling(t, l, b)
  <2>1. t[b].parent = t[l].parent /\ t[l].next_sibling = b BY <1>5, <1>12 DEF Sound, Kinship, Sibling
  <2>2. b # 0 BY <1>5, HandlesAre
  <2>3. Held(l) BY <1>7, <1>10, <2>1, <2>2 DEF Bad
  <2>4. b \in Children(t, t[l].parent) BY <1>5, <2>1, <2>3, ChainStep DEF Children
  <2>. QED BY <1>4, <2>1, <2>3, <2>4
<1>. QED BY <1>6, <1>11, <1>12 DEF Leads

-----------------------------------------------------------------------------
(* detach. *)

\* A node of the same kind under the same parent, and with the same data.
SameKin(x, y) == x.kind = y.kind /\ x.parent = y.parent
SameData(x, y) == x.text_len = y.text_len /\ x.props = y.props
SameBut(x, y) == SameKin(x, y) /\ SameData(x, y)

\* The one link that leads to h skips it.
Skipped(t, h, d) ==
  \A m \in Handles :
    /\ d[m] \in Nodes /\ SameBut(d[m], t[m])
    /\ d[m].first_child = IF Child(t, m, h) THEN t[h].next_sibling ELSE t[m].first_child
    /\ d[m].next_sibling = IF Sibling(t, m, h) THEN t[h].next_sibling ELSE t[m].next_sibling

LEMMA ChildSet ==
  ASSUME NEW x \in Nodes, NEW l \in Handles, NEW y, y = [x EXCEPT !.first_child = l]
  PROVE  y \in Nodes /\ SameBut(y, x) /\ y.first_child = l /\ y.next_sibling = x.next_sibling
BY DEF Nodes, SameBut, SameKin, SameData

LEMMA SiblingSet ==
  ASSUME NEW x \in Nodes, NEW l \in Handles, NEW y, y = [x EXCEPT !.next_sibling = l]
  PROVE  y \in Nodes /\ SameBut(y, x) /\ y.next_sibling = l /\ y.first_child = x.first_child
BY DEF Nodes, SameBut, SameKin, SameData

LEMMA DetachSkips ==
  ASSUME NEW t, Sound(t), NEW h \in Named, Occupied(t, h), NEW d, d = Detached(t, h)
  PROVE  Skipped(t, h, d) /\ d = [m \in Handles |-> d[m]]
<1>0. PICK p, n : p = t[h].parent /\ n = t[h].next_sibling OBVIOUS
<1> DEFINE prev == {m \in Children(t, p) : t[m].next_sibling = h}
<1>1. h \in Handles /\ h # 0 BY HandlesAre
<1>2. Shaped(t) /\ t \in [Handles -> Nodes] /\ p \in Handles /\ n \in Handles
  BY <1>0, <1>1, ShapedAt DEF Sound, Shaped
<1>3. \A m \in Handles : Child(t, m, h) => m = p BY <1>0 DEF Sound, Kinship
<1>4. \A m \in Handles : Sibling(t, m, h) => Occupied(t, p) /\ m \in Children(t, p)
  <2>1. SUFFICES ASSUME NEW m \in Handles, Sibling(t, m, h) PROVE Occupied(t, p) /\ m \in Children(t, p)
    OBVIOUS
  <2>2. Occupied(t, m) /\ t[m].next_sibling # 0 BY <1>1, <2>1 DEF Sibling
  <2>3. t[m].parent = p BY <1>0, <2>1 DEF Sound, Kinship
  <2>. QED BY <2>2, <2>3, InItsList
<1>5. \A m \in Handles : t[m] \in Nodes /\ SameBut(t[m], t[m]) BY <1>2 DEF SameBut, SameKin, SameData
<1>6. CASE ~Occupied(t, p)
  <2>1. d = t BY <1>0, <1>6 DEF Detached
  <2>2. \A m \in Handles : ~Child(t, m, h) /\ ~Sibling(t, m, h)
    BY <1>3, <1>4, <1>6 DEF Child
  <2>. QED BY <1>2, <1>5, <2>1, <2>2 DEF Skipped
<1>7. CASE Occupied(t, p) /\ t[p].first_child = h
  <2>1. d = [t EXCEPT ![p].first_child = n] BY <1>0, <1>7 DEF Detached
  <2>2. Child(t, p, h) BY <1>7 DEF Child
  <2>3. \A m \in Handles : ~Sibling(t, m, h) BY <1>2, <2>2 DEF Sound, OneWay
  <2>4. d = [m \in Handles |-> IF m = p THEN [t[m] EXCEPT !.first_child = n] ELSE t[m]]
    BY <1>2, <2>1
  <2>5. d[p] = [t[p] EXCEPT !.first_child = n] /\ \A m \in Handles : m # p => d[m] = t[m]
    BY <1>2, <2>4
  <2>6. d[p] \in Nodes /\ SameBut(d[p], t[p]) /\ d[p].first_child = n /\ d[p].next_sibling = t[p].next_sibling
    <3>1. t[p] \in Nodes BY <1>2
    <3>. QED BY <1>2, <2>5, <3>1, ChildSet
  <2>7. d = [m \in Handles |-> d[m]] BY <2>4
  <2>. QED BY <1>0, <1>3, <1>5, <2>2, <2>3, <2>5, <2>6, <2>7 DEF Skipped
<1>8. CASE Occupied(t, p) /\ t[p].first_child # h
  <2>1. d = [m \in Handles |-> IF m \in prev THEN [t[m] EXCEPT !.next_sibling = n] ELSE t[m]]
    BY <1>0, <1>8 DEF Detached
  <2>2. \A m \in Handles : ~Child(t, m, h) BY <1>3, <1>8 DEF Child
  <2>3. \A m \in Handles : m \in prev <=> Sibling(t, m, h)
    BY <1>2, <1>4, <1>8, ChainOccupied DEF Sibling, Sound
  <2>4. \A m \in Handles : d[m] = IF Sibling(t, m, h) THEN [t[m] EXCEPT !.next_sibling = n] ELSE t[m]
    BY <2>1, <2>3
  <2>5. d = [m \in Handles |-> d[m]] BY <2>1
  <2>6. ASSUME NEW m \in Handles
        PROVE  /\ d[m] \in Nodes /\ SameBut(d[m], t[m]) /\ d[m].first_child = t[m].first_child
               /\ d[m].next_sibling = IF Sibling(t, m, h) THEN n ELSE t[m].next_sibling
    <3>1. CASE Sibling(t, m, h)
      <4>1. d[m] = [t[m] EXCEPT !.next_sibling = n] BY <2>4, <3>1
      <4>2. t[m] \in Nodes BY <1>5
      <4>. QED BY <1>2, <3>1, <4>1, <4>2, SiblingSet
    <3>2. CASE ~Sibling(t, m, h) BY <1>5, <2>4, <3>2
    <3>. QED BY <3>1, <3>2
  <2>. QED BY <1>0, <2>2, <2>5, <2>6 DEF Skipped
<1>. QED BY <1>6, <1>7, <1>8

\* The tree without the links to and from h among siblings.
Unlinked(d, h) == [d EXCEPT ![h].next_sibling = 0]

\* Who links to whom then, and that nobody links to h.
Spliced(t, h, u) ==
  /\ u \in [Handles -> Nodes]
  /\ \A m \in Handles : (Occupied(u, m) <=> Occupied(t, m)) /\ u[m].parent = t[m].parent
  /\ \A m \in Handles, n \in Named :
       /\ Child(u, m, n) <=> (n # h /\ Child(t, m, n)) \/ (Child(t, m, h) /\ Sibling(t, h, n))
       /\ Sibling(u, m, n) <=>
            m # h /\ ((n # h /\ Sibling(t, m, n)) \/ (Sibling(t, m, h) /\ Sibling(t, h, n)))
  /\ u[h].next_sibling = 0 /\ ~Sibling(t, h, h)
  /\ \A m \in Handles : ~Leads(u, m, h)

LEMMA UnlinkedLinks ==
  ASSUME NEW t, Sound(t), NEW h \in Named, Occupied(t, h), NEW d, d = Detached(t, h),
         NEW u, u = Unlinked(d, h)
  PROVE  /\ Spliced(t, h, u)
         /\ \A m \in Handles : (m # h => u[m] = d[m]) /\ u[m].first_child = d[m].first_child
<1>1. h \in Handles /\ h # 0 BY HandlesAre
<1>2. Skipped(t, h, d) /\ d = [m \in Handles |-> d[m]] BY DetachSkips
<1>3. u = [m \in Handles |-> IF m = h THEN [d[m] EXCEPT !.next_sibling = 0] ELSE d[m]]
  BY <1>1, <1>2 DEF Unlinked
<1>4. u[h] = [d[h] EXCEPT !.next_sibling = 0] /\ \A m \in Handles : m # h => u[m] = d[m]
  BY <1>1, <1>3
<1>5. u[h] \in Nodes /\ SameBut(u[h], d[h]) /\ u[h].next_sibling = 0 /\ u[h].first_child = d[h].first_child
  <2>1. d[h] \in Nodes /\ 0 \in Handles BY <1>1, <1>2, HandlesAre DEF Skipped
  <2>. QED BY <1>4, <2>1, SiblingSet
<1>6. ASSUME NEW m \in Handles
      PROVE  /\ u[m] \in Nodes /\ SameBut(u[m], t[m]) /\ u[m].first_child = d[m].first_child
             /\ u[m].next_sibling = IF m = h THEN 0 ELSE d[m].next_sibling
  BY <1>2, <1>4, <1>5 DEF Skipped, SameBut, SameKin, SameData
<1>7. u \in [Handles -> Nodes] BY <1>3, <1>6
<1>8. \A m \in Handles : (Occupied(u, m) <=> Occupied(t, m)) /\ u[m].parent = t[m].parent
  BY <1>6 DEF Occupied, SameBut, SameKin
<1>9. t[h].next_sibling # h
  <2>1. SUFFICES ASSUME t[h].next_sibling = h PROVE FALSE OBVIOUS
  <2>2. PICK r \in Ranks : Ranked(r, t) BY DEF Sound
  <2>3. Leads(t, h, h) BY <2>1 DEF Leads, Sibling
  <2>4. ~(r[h] < r[h]) BY <1>1 DEF Ranks
  <2>5. OwnParent(t, h) BY <1>1, <2>2, <2>3, <2>4 DEF Ranked, OwnParent
  <2>. QED BY <1>1, <2>1, <2>5 DEF Sound, Alone
<1>10. ASSUME NEW m \in Handles, NEW n \in Named
       PROVE  /\ Child(u, m, n) <=> (n # h /\ Child(t, m, n)) \/ (Child(t, m, h) /\ Sibling(t, h, n))
              /\ Sibling(u, m, n) <=>
                   m # h /\ ((n # h /\ Sibling(t, m, n)) \/ (Sibling(t, m, h) /\ Sibling(t, h, n)))
  <2>1. n # 0 BY HandlesAre
  <2>2. u[m].first_child = IF Child(t, m, h) THEN t[h].next_sibling ELSE t[m].first_child
    BY <1>2, <1>6 DEF Skipped
  <2>3. m # h => u[m].next_sibling = IF Sibling(t, m, h) THEN t[h].next_sibling ELSE t[m].next_sibling
    BY <1>2, <1>6 DEF Skipped
  <2>4. m = h => u[m].next_sibling = 0 BY <1>5
  <2>5. Occupied(u, m) <=> Occupied(t, m) BY <1>8
  <2>6. Child(u, m, n) <=> (n # h /\ Child(t, m, n)) \/ (Child(t, m, h) /\ Sibling(t, h, n))
    BY <2>2, <2>5, <1>9 DEF Child, Sibling
  <2>7. Sibling(u, m, n) <=> m # h /\ ((n # h /\ Sibling(t, m, n)) \/ (Sibling(t, m, h) /\ Sibling(t, h, n)))
    BY <2>1, <2>3, <2>4, <2>5, <1>9 DEF Sibling
  <2>. QED BY <2>6, <2>7
<1>11. ~Sibling(t, h, h) BY <1>9 DEF Sibling
<1>12. \A m \in Handles : ~Leads(u, m, h) BY <1>10, <1>11 DEF Leads
<1>13. Spliced(t, h, u) BY <1>5, <1>7, <1>8, <1>10, <1>11, <1>12 DEF Spliced
<1>. QED BY <1>4, <1>6, <1>13

LEMMA UnlinkedSound ==
  ASSUME NEW t, Sound(t), NEW h \in Named, Occupied(t, h), NEW d, d = Detached(t, h),
         NEW u, u = Unlinked(d, h)
  PROVE  Sound(u)
<1>1. h \in Handles /\ h # 0 /\ 0 \in Handles BY HandlesAre
<1>2. Spliced(t, h, u) BY UnlinkedLinks
<1> USE DEF Spliced
<1>3. Shaped(t) /\ Kinship(t) /\ OneWay(t) /\ Queued(t) /\ Alone(t) BY DEF Sound
<1>4. PICK r \in Ranks : Ranked(r, t) BY DEF Sound
<1>6. \A n \in Named : n \in Handles /\ n # 0 BY HandlesAre
<1>7. Shaped(u) BY <1>1, <1>2, <1>3 DEF Shaped
<1>8. Kinship(u)
  <2>1. SUFFICES ASSUME NEW m \in Handles, NEW n \in Named
                 PROVE  /\ Child(u, m, n) => Occupied(u, n) /\ u[n].parent = m
                        /\ Sibling(u, m, n) => Occupied(u, n) /\ u[n].parent = u[m].parent
    BY DEF Kinship
  <2>. QED BY <1>1, <1>2, <1>3, <1>6 DEF Kinship
<1>9. OneWay(u)
  <2>1. SUFFICES ASSUME NEW l \in Handles, NEW m \in Handles, NEW n \in Named
                 PROVE  /\ Sibling(u, l, n) /\ Sibling(u, m, n) => l = m
                        /\ ~(Child(u, l, n) /\ Sibling(u, m, n))
    BY DEF OneWay
  <2>. QED BY <1>1, <1>2, <1>3 DEF OneWay
<1>10. Alone(u)
  <2>1. SUFFICES ASSUME NEW n \in Named, OwnParent(u, n) PROVE u[n].next_sibling = 0 BY DEF Alone
  <2>2. OwnParent(t, n) BY <1>2, <1>6, <2>1 DEF OwnParent
  <2>3. t[n].next_sibling = 0 BY <1>3, <2>2 DEF Alone
  <2>4. ~Sibling(t, n, h) /\ \A x \in Named : ~Sibling(t, n, x) BY <1>6, <2>3 DEF Sibling
  <2>5. \A x \in Named : ~Sibling(u, n, x) BY <1>2, <1>6, <2>4
  <2>. QED BY <1>6, <1>7, <2>1, <2>5, LinkAt DEF OwnParent
<1>11. Ranked(r, u)
  <2>1. SUFFICES ASSUME NEW m \in Handles, NEW n \in Named, Leads(u, m, n)
                 PROVE  r[m] < r[n] \/ u[n].parent = n
    BY DEF Ranked
  <2>2. u[n].parent = t[n].parent BY <1>2, <1>6
  <2>3. CASE Leads(t, m, n) BY <1>4, <2>2, <2>3 DEF Ranked
  <2>4. CASE Leads(t, m, h) /\ Sibling(t, h, n)
    <3>1. ~OwnParent(t, h) BY <1>3, <1>6, <2>4 DEF Alone, Sibling
    <3>2. r[m] < r[h] BY <1>4, <2>4, <3>1 DEF Ranked, OwnParent, Sibling
    <3>3. r[h] < r[n] \/ t[n].parent = n BY <1>1, <1>4, <2>4 DEF Ranked, Leads
    <3>4. r[m] \in Nat /\ r[h] \in Nat /\ r[n] \in Nat BY <1>1, <1>6 DEF Ranks
    <3>. QED BY <2>2, <3>2, <3>3, <3>4
  <2>. QED BY <1>2, <2>1, <2>3, <2>4 DEF Leads
<1>12. Queued(u)
  <2>1. SUFFICES ASSUME NEW m \in Handles, Occupied(u, m), u[m].next_sibling # 0
                 PROVE  m \in Named /\ \E l \in Handles : Leads(u, l, m)
    BY DEF Queued
  <2>2. m # h /\ Occupied(t, m) BY <1>2, <2>1
  <2>3. t[m].next_sibling # 0
    <3>1. u[m].next_sibling \in Named /\ Sibling(u, m, u[m].next_sibling) BY <1>7, <2>1, LinkAt
    <3>2. \E x \in Named : Sibling(t, m, x) BY <1>2, <3>1
    <3>. QED BY <1>6, <3>2 DEF Sibling
  <2>4. m \in Named /\ \E l \in Handles : Leads(t, l, m) BY <1>3, <2>2, <2>3 DEF Queued
  <2>5. PICK l \in Handles : Leads(t, l, m) BY <2>4
  <2>6. CASE Child(t, l, m) \/ l # h BY <1>2, <2>2, <2>4, <2>5, <2>6 DEF Leads
  <2>7. CASE Sibling(t, h, m)
    <3>1. t[h].next_sibling # 0 BY <1>6, <2>4, <2>7 DEF Sibling
    <3>2. PICK k \in Handles : Leads(t, k, h) BY <1>1, <1>3, <3>1 DEF Queued
    <3>3. k # h \/ Child(t, k, h) BY <1>2, <3>2 DEF Leads
    <3>. QED BY <1>2, <2>4, <2>7, <3>2, <3>3 DEF Leads
  <2>. QED BY <2>4, <2>5, <2>6, <2>7 DEF Leads
<1>. QED BY <1>4, <1>7, <1>8, <1>9, <1>10, <1>11, <1>12 DEF Sound

\* What is below a node is the same with the link after h as without it.
LEMMA UnlinkedBelow ==
  ASSUME NEW t, Sound(t), NEW h \in Named, Occupied(t, h), NEW d, d = Detached(t, h),
         NEW u, u = Unlinked(d, h), NEW x \in Handles, Occupied(t, x)
  PROVE  Below(d, x) = Below(u, x) /\ h \notin Below(u, x)
<1>1. Sound(u) BY UnlinkedSound
<1>2. h \in Handles /\ Occupied(u, x) /\ u[h].next_sibling = 0
      /\ (\A m \in Handles : ~Leads(u, m, h))
      /\ \A m \in Handles : (m # h => u[m] = d[m]) /\ u[m].first_child = d[m].first_child
  <2>1. u[h].next_sibling = 0
        /\ (\A m \in Handles : ~Leads(u, m, h))
        /\ (\A m \in Handles : Occupied(u, m) <=> Occupied(t, m))
        /\ \A m \in Handles : (m # h => u[m] = d[m]) /\ u[m].first_child = d[m].first_child
    BY UnlinkedLinks DEF Spliced
  <2>2. h \in Handles BY HandlesAre
  <2>. QED BY <2>1, <2>2
<1>3. \A m \in Below(u, x) : m \in Named /\ m \in Handles /\ Occupied(u, m)
  BY <1>1, <1>2, BelowOccupied, HandlesAre DEF Sound
<1>4. h \notin Below(u, x)
  <2>1. SUFFICES ASSUME h \in Below(u, x) PROVE FALSE OBVIOUS
  <2>2. \A m \in Handles : u[m].first_child \in Handles /\ u[m].next_sibling \in Handles
    BY <1>1, ShapedAt DEF Sound
  <2>3. h # u[x].first_child BY <1>2 DEF Leads, Child
  <2>4. \E m \in Below(u, x) : u[m].first_child = h \/ u[m].next_sibling = h
    BY <1>3, <2>1, <2>2, <2>3, BelowFrom
  <2>. QED BY <1>2, <1>3, <2>4 DEF Leads, Child, Sibling
<1>5. ASSUME NEW m \in Handles, Occupied(u, m)
      PROVE  u[m].first_child \in Named \cup {0} /\ u[m].next_sibling \in Named \cup {0}
  BY <1>1, <1>5, LinkAt DEF Sound
<1>6. Below(d, x) \subseteq Below(u, x)
  <2>1. PICK S : S = Below(u, x) OBVIOUS
  <2>2. d[x].first_child \in S \cup {0} BY <1>2, <1>5, <2>1, BelowStart
  <2>3. \A m \in S : d[m].first_child \in S \cup {0} /\ d[m].next_sibling \in S \cup {0}
    BY <1>2, <1>3, <1>4, <1>5, <2>1, BelowStep
  <2>. QED BY <1>3, <2>1, <2>2, <2>3, BelowWithin
<1>7. Below(u, x) \subseteq Below(d, x)
  <2>1. PICK S : S = Below(d, x) OBVIOUS
  <2>2. S \subseteq Named BY <2>1 DEF Below
  <2>3. \A m \in Handles : d[m].first_child \in Handles /\ d[m].next_sibling \in Handles
    <3>1. \A m \in Handles : d[m] \in Nodes BY DetachSkips DEF Skipped
    <3>. QED BY <3>1, NodeAt
  <2>4. u[x].first_child \in S \cup {0} BY <1>2, <2>1, <2>3, BelowStart, HandlesAre
  <2>5. ASSUME NEW m \in S PROVE u[m].first_child \in S \cup {0} /\ u[m].next_sibling \in S \cup {0}
    <3>1. m \in Handles BY <2>2, HandlesAre
    <3>2. d[m].first_child \in S \cup {0} /\ d[m].next_sibling \in S \cup {0}
      BY <2>1, <2>3, <3>1, BelowStep, HandlesAre
    <3>. QED BY <1>2, <3>1, <3>2
  <2>. QED BY <2>1, <2>2, <2>4, <2>5, BelowWithin
<1>. QED BY <1>4, <1>6, <1>7

-----------------------------------------------------------------------------
(* remove_subtree. *)

Pruned(u, h) == [n \in Handles |-> IF n \in Below(u, h) \cup {h} THEN EmptyNode ELSE u[n]]

\* What is below h has its parent there.
LEMMA BelowParents ==
  ASSUME NEW u, Sound(u), NEW h \in Named, Occupied(u, h), NEW F, F = Below(u, h) \cup {h}, NEW n \in Below(u, h)
  PROVE  u[n].parent \in F
<1>1. h \in Handles /\ Shaped(u) /\ Kinship(u) BY HandlesAre DEF Sound
<1>2. \A x \in F : x \in Named /\ x \in Handles /\ Occupied(u, x)
  <2>1. \A x \in Below(u, h) : x \in Named /\ Occupied(u, x) BY <1>1, BelowOccupied
  <2>. QED BY <2>1, HandlesAre
<1> DEFINE S == {x \in Below(u, h) : u[x].parent \in F}
<1>3. u[h].first_child \in S \cup {0}
  <2>1. CASE u[h].first_child = 0 BY <2>1
  <2>2. CASE u[h].first_child # 0
    <3>1. u[h].first_child \in Named /\ Child(u, h, u[h].first_child) BY <1>1, <2>2, LinkAt
    <3>2. u[h].first_child \in Below(u, h) BY <3>1, BelowStart
    <3>. QED BY <1>1, <3>1, <3>2 DEF Kinship
  <2>. QED BY <2>1, <2>2
<1>4. ASSUME NEW x \in S
      PROVE  u[x].first_child \in S \cup {0} /\ u[x].next_sibling \in S \cup {0}
  <2>1. x \in Handles /\ Occupied(u, x) /\ x \in F BY <1>2
  <2>2. /\ u[x].first_child = 0 \/ (u[x].first_child \in Named /\ Child(u, x, u[x].first_child))
        /\ u[x].next_sibling = 0 \/ (u[x].next_sibling \in Named /\ Sibling(u, x, u[x].next_sibling))
    BY <1>1, <2>1, LinkAt
  <2>3. u[x].first_child = 0 \/ (u[x].first_child \in Below(u, h) /\ u[u[x].first_child].parent \in F)
    BY <1>1, <2>1, <2>2, BelowStep DEF Kinship
  <2>4. u[x].next_sibling = 0 \/ (u[x].next_sibling \in Below(u, h) /\ u[u[x].next_sibling].parent \in F)
    BY <1>1, <2>1, <2>2, BelowStep DEF Kinship
  <2>. QED BY <2>3, <2>4
<1>5. S \subseteq Named BY <1>2
<1>6. Below(u, h) \subseteq S
  <2>. HIDE DEF S
  <2>. QED BY <1>3, <1>4, <1>5, BelowWithin
<1>. QED BY <1>5, <1>6

\* No link leads from what stays to what goes.
LEMMA NothingDangles ==
  ASSUME NEW u, Sound(u), NEW h \in Named, Occupied(u, h), u[h].next_sibling = 0,
         \A m \in Handles : ~Leads(u, m, h),
         NEW F, F = Below(u, h) \cup {h}, NEW m \in Handles, m \notin F, NEW n \in Named, Leads(u, m, n)
  PROVE  n \notin F
<1>1. h \in Handles /\ Shaped(u) /\ Kinship(u) /\ Occupied(u, m) BY HandlesAre DEF Sound, Leads, Child, Sibling
<1>2. \A x \in F : x \in Named /\ x \in Handles /\ Occupied(u, x)
  <2>1. \A x \in Below(u, h) : x \in Named /\ Occupied(u, x) BY <1>1, BelowOccupied
  <2>. QED BY <2>1, HandlesAre
<1>3. ASSUME NEW x \in F
      PROVE  /\ u[x].first_child \in F \cup {0}
             /\ u[x].next_sibling \in F \cup {0}
  <2>1. u[x].first_child \in Named \cup {0} /\ u[x].next_sibling \in Named \cup {0}
    BY <1>1, <1>2, <1>3, LinkAt
  <2>2. CASE x = h BY <2>1, <2>2, BelowStart
  <2>3. CASE x # h BY <2>1, <2>3, BelowStep
  <2>. QED BY <2>2, <2>3
<1>4. SUFFICES ASSUME n \in F PROVE FALSE OBVIOUS
<1>5. n \in Below(u, h) BY <1>4
<1>6. u[n].parent \in F BY <1>5, BelowParents
<1>7. CASE Child(u, m, n) BY <1>1, <1>6, <1>7 DEF Kinship
<1>8. CASE Sibling(u, m, n)
  <2>1. PICK q : q = u[m].parent OBVIOUS
  <2>2. q \in F /\ u[m].next_sibling # 0
    BY <1>1, <1>6, <1>8, <2>1, HandlesAre DEF Kinship, Sibling
  <2>3. m \in Children(u, q) BY <1>1, <2>1, <2>2, InItsList
  <2>4. PICK f : f = u[q].first_child OBVIOUS
  <2>5. Chain(u, f) \subseteq F
    <3>1. F \subseteq Named /\ f \in F \cup {0} BY <1>2, <1>3, <2>2, <2>4
    <3>. QED BY <1>3, <3>1, ChainWithin
  <2>. QED BY <2>3, <2>4, <2>5 DEF Children
<1>. QED BY <1>7, <1>8 DEF Leads

LEMMA PrunedSound ==
  ASSUME NEW u, Sound(u), NEW h \in Named, Occupied(u, h), u[h].next_sibling = 0,
         \A m \in Handles : ~Leads(u, m, h), NEW v, v = Pruned(u, h)
  PROVE  /\ Sound(v) /\ ~Occupied(v, h)
         /\ \A p \in Handles : Occupied(u, p) => Occupied(v, p) \/ v[p] = EmptyNode
<1>0. PICK F : F = Below(u, h) \cup {h} OBVIOUS
<1>1. h \in Handles /\ 0 \in Handles /\ Shaped(u) BY HandlesAre DEF Sound
<1>2. F \subseteq Named BY <1>0 DEF Below
<1>3. v = [n \in Handles |-> IF n \in F THEN EmptyNode ELSE u[n]] BY <1>0 DEF Pruned
<1>4. /\ \A n \in F : v[n] = EmptyNode
      /\ \A n \in Handles : n \notin F => v[n] = u[n]
      /\ v \in [Handles -> Nodes]
  BY <1>1, <1>2, <1>3, EmptyNodeType, HandlesAre DEF Shaped
<1>5. \A m \in Handles : Occupied(v, m) <=> m \notin F /\ Occupied(u, m)
  BY <1>2, <1>4, EmptyNodeType, HandlesAre DEF Occupied, NODE_FREE
<1>6. \A m \in Handles : \A n : /\ Child(v, m, n) <=> (m \notin F /\ Child(u, m, n))
                                /\ Sibling(v, m, n) <=> (m \notin F /\ Sibling(u, m, n))
  BY <1>4, <1>5 DEF Child, Sibling
<1>7. \A m \in Handles, n \in Named : m \notin F /\ Leads(u, m, n) => n \notin F
  BY <1>0, NothingDangles
<1>8. \A n \in Named : n \in Handles BY HandlesAre
<1>9. Kinship(u) /\ OneWay(u) /\ Queued(u) /\ Alone(u) BY DEF Sound
<1>10. Shaped(v)
  <2>1. 0 \notin F BY <1>2, HandlesAre
  <2>. QED BY <1>1, <1>4, <1>5, <2>1 DEF Shaped
<1>11. Kinship(v)
  <2>1. SUFFICES ASSUME NEW m \in Handles, NEW n \in Named
                 PROVE  /\ Child(v, m, n) => Occupied(v, n) /\ v[n].parent = m
                        /\ Sibling(v, m, n) => Occupied(v, n) /\ v[n].parent = v[m].parent
    BY DEF Kinship
  <2>. QED BY <1>4, <1>5, <1>6, <1>7, <1>8, <1>9 DEF Kinship, Leads
<1>12. OneWay(v)
  <2>1. SUFFICES ASSUME NEW l \in Handles, NEW m \in Handles, NEW n \in Named
                 PROVE  /\ Sibling(v, l, n) /\ Sibling(v, m, n) => l = m
                        /\ ~(Child(v, l, n) /\ Sibling(v, m, n))
    BY DEF OneWay
  <2>. QED BY <1>6, <1>9 DEF OneWay
<1>13. Alone(v)
  <2>1. SUFFICES ASSUME NEW n \in Named, OwnParent(v, n) PROVE v[n].next_sibling = 0 BY DEF Alone
  <2>2. n \notin F /\ v[n] = u[n] /\ Occupied(u, n) BY <1>4, <1>5, <1>8, <2>1 DEF OwnParent
  <2>. QED BY <1>9, <2>1, <2>2 DEF Alone, OwnParent
<1>14. PICK r \in Ranks : Ranked(r, u) BY DEF Sound
<1>15. Ranked(r, v)
  <2>1. SUFFICES ASSUME NEW m \in Handles, NEW n \in Named, Leads(v, m, n)
                 PROVE  r[m] < r[n] \/ v[n].parent = n
    BY DEF Ranked
  <2>2. m \notin F /\ Leads(u, m, n) BY <1>6, <2>1 DEF Leads
  <2>3. v[n] = u[n] BY <1>4, <1>7, <1>8, <2>2
  <2>. QED BY <1>14, <2>2, <2>3 DEF Ranked
<1>16. Queued(v)
  <2>1. SUFFICES ASSUME NEW m \in Handles, Occupied(v, m), v[m].next_sibling # 0
                 PROVE  m \in Named /\ \E l \in Handles : Leads(v, l, m)
    BY DEF Queued
  <2>2. m \notin F /\ Occupied(u, m) /\ u[m].next_sibling # 0 BY <1>4, <1>5, <2>1
  <2>3. m \in Named /\ \E l \in Handles : Leads(u, l, m) BY <1>9, <2>2 DEF Queued
  <2>4. PICK l \in Handles : Leads(u, l, m) BY <2>3
  <2>5. l \notin F
    <3>1. ASSUME l = h PROVE FALSE
      <4>1. ~Sibling(u, h, m) BY <2>3, HandlesAre DEF Sibling
      <4>2. u[h].first_child = m BY <2>4, <3>1, <4>1 DEF Leads, Child
      <4>. QED BY <1>0, <2>2, <2>3, <4>2, BelowStart
    <3>2. ASSUME l \in Below(u, h) PROVE FALSE
      <4>1. u[l].first_child = m \/ u[l].next_sibling = m BY <2>4 DEF Leads, Child, Sibling
      <4>. QED BY <1>0, <2>2, <2>3, <3>2, <4>1, BelowStep
    <3>. QED BY <1>0, <3>1, <3>2
  <2>. QED BY <1>6, <2>3, <2>4, <2>5 DEF Leads
<1>17. ~Occupied(v, h) BY <1>0, <1>1, <1>5
<1>18. \A p \in Handles : Occupied(u, p) => Occupied(v, p) \/ v[p] = EmptyNode BY <1>4, <1>5
<1>. QED BY <1>10, <1>11, <1>12, <1>13, <1>14, <1>15, <1>16, <1>17, <1>18 DEF Sound

\* A removal splices h out of its list and prunes what hangs from it. What stays
\* is as it was but for the link that led to h.
Skips(t, h, u) ==
  \A m \in Handles : m # h =>
    /\ SameBut(u[m], t[m])
    /\ u[m].first_child = IF Child(t, m, h) THEN t[h].next_sibling ELSE t[m].first_child
    /\ u[m].next_sibling = IF Sibling(t, m, h) THEN t[h].next_sibling ELSE t[m].next_sibling

LEMMA RemovedPrunes ==
  ASSUME NEW t, Sound(t), NEW h \in Named, Occupied(t, h), NEW v, v = Removed(t, h)
  PROVE  \E u : Sound(u) /\ Spliced(t, h, u) /\ Skips(t, h, u) /\ v = Pruned(u, h)
<1>1. PICK d, u : d = Detached(t, h) /\ u = Unlinked(d, h) OBVIOUS
<1>2. h \in Handles BY HandlesAre
<1>3. Sound(u) BY <1>1, UnlinkedSound
<1>4. Spliced(t, h, u) /\ \A m \in Handles : m # h => u[m] = d[m] BY <1>1, UnlinkedLinks
<1>5. Below(d, h) = Below(u, h) BY <1>1, <1>2, UnlinkedBelow
<1>6. v = [n \in Handles |-> IF n \in Below(d, h) \cup {h} THEN EmptyNode ELSE d[n]]
  BY <1>1 DEF Removed
<1>7. v = Pruned(u, h) BY <1>4, <1>5, <1>6 DEF Pruned
<1>8. Skips(t, h, u) BY <1>1, <1>4, DetachSkips DEF Skips, Skipped
<1>. QED BY <1>3, <1>4, <1>7, <1>8

LEMMA RemovedSound ==
  ASSUME NEW t, Sound(t), NEW h, NEW v, v = Removed(t, h)
  PROVE  /\ Sound(v) /\ (h \in Named => ~Occupied(v, h))
         /\ \A p \in Handles : Occupied(t, p) => Occupied(v, p) \/ v[p] = EmptyNode
<1>1. CASE h \notin Named \/ ~Occupied(t, h) BY <1>1 DEF Removed
<1>2. CASE h \in Named /\ Occupied(t, h)
  <2>1. PICK u : Sound(u) /\ Spliced(t, h, u) /\ v = Pruned(u, h) BY <1>2, RemovedPrunes
  <2>2. h \in Handles BY <1>2, HandlesAre
  <2>. QED BY <1>2, <2>1, <2>2, PrunedSound DEF Spliced
<1>. QED BY <1>1, <1>2

-----------------------------------------------------------------------------
(* create. *)

\* h is the first of the children of p, before those that p had.
Hung(v, h, p, w) ==
  /\ w \in [Handles -> Nodes]
  /\ \A m \in Handles : Occupied(w, m) <=> (m = h \/ Occupied(v, m))
  /\ \A m \in Handles : w[m].parent = IF m = h THEN p ELSE v[m].parent
  /\ \A m \in Handles :
       w[m].next_sibling = IF m = h THEN v[p].first_child ELSE v[m].next_sibling
  /\ \A m \in Handles :
       w[m].first_child = IF m = p THEN h ELSE IF m = h THEN 0 ELSE v[m].first_child
  /\ \A m \in Handles, n \in Named :
       Child(w, m, n) <=> IF m = p THEN n = h /\ Occupied(w, p) ELSE m # h /\ Child(v, m, n)

LEMMA LinkedHangs ==
  ASSUME NEW v \in [Handles -> Nodes], NEW h \in Named, NEW p \in Handles, NEW kind \in Byte, kind # 0,
         NEW w, w = Linked(v, h, p, kind)
  PROVE  Hung(v, h, p, w)
<1>1. h \in Handles /\ h # 0 /\ 0 \in Handles BY HandlesAre
<1>2. PICK c : c = v[p].first_child OBVIOUS
<1>3. c \in Handles /\ v[p] \in Nodes BY <1>2, NodeAt
<1>4. PICK x : x = [EmptyNode EXCEPT !.kind = kind, !.parent = p, !.next_sibling = c] OBVIOUS
<1>5. x \in Nodes /\ x.kind = kind /\ x.parent = p /\ x.next_sibling = c /\ x.first_child = 0
  <2>1. PICK e \in Nodes : e = EmptyNode BY EmptyNodeType
  <2>2. x = [e EXCEPT !.kind = kind, !.parent = p, !.next_sibling = c] BY <1>4, <2>1
  <2>3. e.first_child = 0 BY <2>1, EmptyNodeType
  <2>. QED BY <1>3, <2>2, <2>3 DEF Nodes
<1>6. w = [[v EXCEPT ![h] = x] EXCEPT ![p].first_child = h] BY <1>2, <1>4 DEF Linked
<1>7. PICK v1 : v1 = [v EXCEPT ![h] = x] OBVIOUS
<1>8. v1 \in [Handles -> Nodes] /\ v1[h] = x /\ \A m \in Handles : m # h => v1[m] = v[m]
  BY <1>1, <1>5, <1>7
<1>9. w = [v1 EXCEPT ![p] = [v1[p] EXCEPT !.first_child = h]] BY <1>6, <1>7, <1>8
<1>10. PICK y : y = [v1[p] EXCEPT !.first_child = h] OBVIOUS
<1>11. y \in Nodes /\ SameBut(y, v1[p]) /\ y.first_child = h /\ y.next_sibling = v1[p].next_sibling
  <2>1. PICK z \in Nodes : z = v1[p] BY <1>8
  <2>2. y = [z EXCEPT !.first_child = h] BY <1>10, <2>1
  <2>3. y \in Nodes /\ SameBut(y, z) /\ y.first_child = h /\ y.next_sibling = z.next_sibling
    BY <1>1, <2>2, ChildSet
  <2>. QED BY <2>1, <2>3
<1>12. w \in [Handles -> Nodes] /\ w[p] = y /\ \A m \in Handles : m # p => w[m] = v1[m]
  BY <1>8, <1>9, <1>10, <1>11
<1>13. ASSUME NEW m \in Handles
       PROVE  /\ w[m].kind = IF m = h THEN kind ELSE v[m].kind
              /\ w[m].parent = IF m = h THEN p ELSE v[m].parent
              /\ w[m].next_sibling = IF m = h THEN c ELSE v[m].next_sibling
              /\ w[m].first_child = IF m = p THEN h ELSE IF m = h THEN 0 ELSE v[m].first_child
  <2>1. v1[m].kind = (IF m = h THEN kind ELSE v[m].kind)
        /\ v1[m].parent = (IF m = h THEN p ELSE v[m].parent)
        /\ v1[m].next_sibling = (IF m = h THEN c ELSE v[m].next_sibling)
        /\ v1[m].first_child = (IF m = h THEN 0 ELSE v[m].first_child)
    BY <1>5, <1>8
  <2>2. m # p => w[m] = v1[m] BY <1>12
  <2>3. m = p => w[m].kind = v1[m].kind /\ w[m].parent = v1[m].parent
                 /\ w[m].next_sibling = v1[m].next_sibling /\ w[m].first_child = h
    BY <1>11, <1>12 DEF SameBut, SameKin
  <2>. QED BY <2>1, <2>2, <2>3
<1>14. \A m \in Handles : Occupied(w, m) <=> (m = h \/ Occupied(v, m))
  BY <1>13 DEF Occupied, NODE_FREE
<1>15. ASSUME NEW m \in Handles, NEW n \in Named
       PROVE  Child(w, m, n) <=> IF m = p THEN n = h /\ Occupied(w, p) ELSE m # h /\ Child(v, m, n)
  <2>1. n # 0 BY HandlesAre
  <2>. QED BY <1>13, <1>14, <2>1 DEF Child
<1>16. /\ \A m \in Handles : w[m].parent = IF m = h THEN p ELSE v[m].parent
       /\ \A m \in Handles :
            w[m].next_sibling = IF m = h THEN v[p].first_child ELSE v[m].next_sibling
       /\ \A m \in Handles :
            w[m].first_child = IF m = p THEN h ELSE IF m = h THEN 0 ELSE v[m].first_child
  BY <1>2, <1>13
<1>. QED BY <1>12, <1>14, <1>15, <1>16 DEF Hung

LEMMA LinkedSound ==
  ASSUME NEW v, Sound(v), NEW h \in Named, ~Occupied(v, h),
         NEW p \in Handles, Occupied(v, p) \/ v[p].first_child = 0,
         NEW kind \in Byte, kind # 0, NEW w, w = Linked(v, h, p, kind)
  PROVE  Sound(w)
<1>1. h \in Handles /\ h # 0 /\ 0 \in Handles BY HandlesAre
<1>2. \A n \in Named : n \in Handles /\ n # 0 BY HandlesAre
<1>3. Kinship(v) /\ OneWay(v) /\ Queued(v) /\ Alone(v) /\ v \in [Handles -> Nodes] /\ Occupied(v, 0)
  BY DEF Sound, Shaped
<1>4. PICK r \in Ranks : Ranked(r, v) BY DEF Sound
<1>5. PICK c : c = v[p].first_child OBVIOUS
<1>6. Hung(v, h, p, w) BY <1>3, LinkedHangs
<1>7. w \in [Handles -> Nodes] /\ \A m \in Handles : Occupied(w, m) <=> (m = h \/ Occupied(v, m))
  BY <1>6 DEF Hung
<1>8. \A m \in Handles : w[m].parent = IF m = h THEN p ELSE v[m].parent BY <1>6 DEF Hung
<1>9. \A m \in Handles : w[m].next_sibling = IF m = h THEN c ELSE v[m].next_sibling
  BY <1>5, <1>6 DEF Hung
<1>10. \A m \in Handles, n \in Named :
         Child(w, m, n) <=> IF m = p THEN n = h /\ Occupied(w, p) ELSE m # h /\ Child(v, m, n)
  BY <1>6 DEF Hung
<1>11. \A m \in Handles, n \in Named :
         Sibling(w, m, n) <=> IF m = h THEN n = c ELSE Sibling(v, m, n)
  BY <1>7, <1>9 DEF Sibling
<1>12. c \in Named => Child(v, p, c) BY <1>2, <1>5 DEF Child
<1>13. \A m \in Handles : ~Child(v, m, h) /\ ~Sibling(v, m, h) BY <1>3 DEF Kinship
<1>14. c # h BY <1>12, <1>13
<1>15. \A m \in Handles, n \in Named :
         /\ Child(v, m, n) => n # h /\ Occupied(v, n) /\ v[n].parent = m /\ w[n].parent = v[n].parent
         /\ Sibling(v, m, n) => n # h /\ Occupied(v, n) /\ v[n].parent = v[m].parent
                                /\ w[n].parent = v[n].parent
  BY <1>2, <1>3, <1>8, <1>13 DEF Kinship
<1>16. Shaped(w) BY <1>1, <1>3, <1>7 DEF Shaped
<1>17. Kinship(w)
  <2>1. SUFFICES ASSUME NEW m \in Handles, NEW n \in Named
                 PROVE  /\ Child(w, m, n) => Occupied(w, n) /\ w[n].parent = m
                        /\ Sibling(w, m, n) => Occupied(w, n) /\ w[n].parent = w[m].parent
    BY DEF Kinship
  <2>2. Child(w, m, n) => Occupied(w, n) /\ w[n].parent = m BY <1>1, <1>2, <1>7, <1>8, <1>10, <1>15
  <2>3. Sibling(w, m, n) => Occupied(w, n) /\ w[n].parent = w[m].parent
    BY <1>1, <1>2, <1>7, <1>8, <1>11, <1>12, <1>15
  <2>. QED BY <2>2, <2>3
<1>18. OneWay(w)
  <2>1. SUFFICES ASSUME NEW l \in Handles, NEW m \in Handles, NEW n \in Named
                 PROVE  /\ Sibling(w, l, n) /\ Sibling(w, m, n) => l = m
                        /\ ~(Child(w, l, n) /\ Sibling(w, m, n))
    BY DEF OneWay
  <2>2. /\ Sibling(v, l, n) /\ Sibling(v, m, n) => l = m
        /\ ~(Child(v, l, n) /\ Sibling(v, m, n))
        /\ ~(Child(v, p, n) /\ Sibling(v, m, n)) /\ ~(Child(v, p, n) /\ Sibling(v, l, n))
    BY <1>3 DEF OneWay
  <2>3. Sibling(w, l, n) /\ Sibling(w, m, n) => l = m BY <1>11, <1>12, <2>2
  <2>4. Child(w, l, n) => IF n = h THEN l = p ELSE l # p /\ Child(v, l, n) BY <1>10, <1>15
  <2>5. Child(v, l, n) /\ Child(v, p, n) => l = p BY <1>15
  <2>6. ~(Child(w, l, n) /\ Sibling(w, m, n)) BY <1>11, <1>12, <1>13, <1>14, <2>2, <2>4, <2>5
  <2>. QED BY <2>3, <2>6
<1>19. Queued(w)
  <2>1. SUFFICES ASSUME NEW m \in Handles, Occupied(w, m), w[m].next_sibling # 0
                 PROVE  m \in Named /\ \E l \in Handles : Leads(w, l, m)
    BY DEF Queued
  <2>2. CASE m = h
    <3>1. c # 0 BY <1>9, <2>1, <2>2
    <3>2. Occupied(w, p) BY <1>5, <1>7, <3>1
    <3>. QED BY <1>10, <2>2, <3>2 DEF Leads
  <2>3. CASE m # h
    <3>1. m \in Named /\ \E l \in Handles : Leads(v, l, m) BY <1>3, <1>7, <1>9, <2>1, <2>3 DEF Queued
    <3>2. PICK l \in Handles : Leads(v, l, m) BY <3>1
    <3>3. l # h BY <3>2 DEF Leads, Child, Sibling
    <3>4. CASE Child(v, l, m) /\ l = p
      <4>1. m = c BY <1>5, <3>4 DEF Child
      <4>. QED BY <1>1, <1>11, <3>1, <4>1 DEF Leads
    <3>5. CASE Child(v, l, m) /\ l # p BY <1>10, <3>1, <3>3, <3>5 DEF Leads
    <3>6. CASE Sibling(v, l, m) BY <1>11, <3>1, <3>3, <3>6 DEF Leads
    <3>. QED BY <3>1, <3>2, <3>4, <3>5, <3>6 DEF Leads
  <2>. QED BY <2>2, <2>3
<1>20. Alone(w)
  <2>1. SUFFICES ASSUME NEW n \in Named, OwnParent(w, n) PROVE w[n].next_sibling = 0 BY DEF Alone
  <2>2. n \in Handles /\ Occupied(w, n) /\ w[n].parent = n BY <1>2, <2>1 DEF OwnParent
  <2>3. CASE n = h
    <3>1. p = h BY <1>8, <2>2, <2>3
    <3>. QED BY <1>5, <1>9, <2>2, <2>3, <3>1
  <2>4. CASE n # h
    <3>1. OwnParent(v, n) BY <1>7, <1>8, <2>2, <2>4 DEF OwnParent
    <3>. QED BY <1>3, <1>9, <2>2, <2>4, <3>1 DEF Alone
  <2>. QED BY <2>3, <2>4
<1>21. \E q \in Ranks : Ranked(q, w)
  <2>1. PICK q : q = [x \in Handles |-> IF x = h THEN 2 * r[p] + 1 ELSE 2 * r[x]] OBVIOUS
  <2>2. \A x \in Handles : r[x] \in Nat BY DEF Ranks
  <2>3. q \in Ranks BY <2>1, <2>2 DEF Ranks
  <2>4. q[h] = 2 * r[p] + 1 /\ \A x \in Handles : x # h => q[x] = 2 * r[x] BY <1>1, <2>1
  <2>5. Ranked(q, w)
    <3>1. SUFFICES ASSUME NEW m \in Handles, NEW n \in Named, Leads(w, m, n)
                   PROVE  q[m] < q[n] \/ w[n].parent = n
      BY DEF Ranked
    <3>2. r[m] \in Nat /\ r[n] \in Nat /\ r[p] \in Nat /\ n \in Handles BY <1>2, <2>2
    <3>3. CASE m = p /\ n = h
      <4>1. CASE p = h BY <1>8, <3>2, <3>3, <4>1
      <4>2. CASE p # h
        <5>1. q[m] = 2 * r[p] /\ q[n] = 2 * r[p] + 1 BY <2>4, <3>3, <4>2
        <5>. QED BY <3>2, <5>1
      <4>. QED BY <4>1, <4>2
    <3>4. CASE m # h /\ Leads(v, m, n)
      <4>1. n # h /\ w[n].parent = v[n].parent BY <1>15, <3>4 DEF Leads
      <4>2. r[m] < r[n] \/ v[n].parent = n BY <1>4, <3>4 DEF Ranked
      <4>3. q[m] = 2 * r[m] /\ q[n] = 2 * r[n] BY <2>4, <3>2, <3>4, <4>1
      <4>. QED BY <3>2, <4>1, <4>2, <4>3
    <3>5. CASE m = h /\ n = c
      <4>1. Child(v, p, n) BY <1>12, <3>5
      <4>2. n # h /\ w[n].parent = v[n].parent BY <1>15, <4>1
      <4>3. r[p] < r[n] \/ v[n].parent = n BY <1>4, <4>1 DEF Ranked, Leads
      <4>4. q[m] = 2 * r[p] + 1 /\ q[n] = 2 * r[n] BY <2>4, <3>2, <3>5, <4>2
      <4>. QED BY <3>2, <4>2, <4>3, <4>4
    <3>. QED BY <1>10, <1>11, <3>1, <3>3, <3>4, <3>5 DEF Leads
  <2>. QED BY <2>3, <2>5
<1>. QED BY <1>16, <1>17, <1>18, <1>19, <1>20, <1>21 DEF Sound

LEMMA CreatedSound ==
  ASSUME NEW t, Sound(t), NEW h, NEW p \in Byte, NEW kind \in Byte
  PROVE  Sound(Created(t, h, p, kind))
<1>1. CASE h \notin Named \/ ~Occupied(t, p) \/ kind = NODE_FREE BY <1>1 DEF Created
<1>2. CASE h \in Named /\ Occupied(t, p) /\ kind # NODE_FREE
  <2>1. PICK v : v = Removed(t, h) OBVIOUS
  <2>2. p \in Handles /\ kind # 0 BY <1>2 DEF Occupied, NODE_FREE
  <2>3. Sound(v) /\ ~Occupied(v, h) BY <1>2, <2>1, RemovedSound
  <2>4. Occupied(v, p) \/ v[p].first_child = 0 BY <1>2, <2>1, <2>2, RemovedSound, EmptyNodeType
  <2>5. Created(t, h, p, kind) = Linked(v, h, p, kind) BY <1>2, <2>1 DEF Created
  <2>6. PICK w : w = Linked(v, h, p, kind) OBVIOUS
  <2>7. Sound(w) BY <1>2, <2>2, <2>3, <2>4, <2>6, LinkedSound
  <2>. QED BY <2>5, <2>6, <2>7
<1>. QED BY <1>1, <1>2

-----------------------------------------------------------------------------
(* set_prop, set_text and a new tree. *)

SameLinks(t, w) ==
  /\ w \in [Handles -> Nodes]
  /\ \A m \in Handles : /\ SameKin(w[m], t[m])
                        /\ w[m].first_child = t[m].first_child
                        /\ w[m].next_sibling = t[m].next_sibling

LEMMA LinksAreSame ==
  ASSUME NEW t, NEW w, SameLinks(t, w)
  PROVE  /\ \A m \in Handles : (Occupied(w, m) <=> Occupied(t, m)) /\ w[m].parent = t[m].parent
         /\ \A m \in Handles : \A n :
              /\ Child(w, m, n) <=> Child(t, m, n)
              /\ Sibling(w, m, n) <=> Sibling(t, m, n)
              /\ Leads(w, m, n) <=> Leads(t, m, n)
<1>1. \A m \in Handles : Occupied(w, m) <=> Occupied(t, m) BY DEF Occupied, SameKin, SameLinks
<1>2. \A m \in Handles : \A n : (Child(w, m, n) <=> Child(t, m, n)) /\ (Sibling(w, m, n) <=> Sibling(t, m, n))
  BY <1>1 DEF Child, Sibling, SameLinks
<1>3. \A m \in Handles : \A n : Leads(w, m, n) <=> Leads(t, m, n) BY <1>2 DEF Leads
<1>. QED BY <1>1, <1>2, <1>3 DEF SameKin, SameLinks

LEMMA SameLinksSound ==
  ASSUME NEW t, Sound(t), NEW w, SameLinks(t, w)
  PROVE  Sound(w)
<1>0. w \in [Handles -> Nodes] /\ \A m \in Handles : w[m].next_sibling = t[m].next_sibling
  BY DEF SameLinks
<1>1. \A m \in Handles : Occupied(w, m) <=> Occupied(t, m) BY LinksAreSame
<1>2. \A m \in Handles : \A n : (Child(w, m, n) <=> Child(t, m, n)) /\ (Sibling(w, m, n) <=> Sibling(t, m, n))
  BY LinksAreSame
<1>3. \A m \in Handles : \A n : Leads(w, m, n) <=> Leads(t, m, n) BY LinksAreSame
<1>4. \A m \in Handles : w[m].parent = t[m].parent BY LinksAreSame
<1>5. \A n \in Named : n \in Handles BY HandlesAre
<1>6. Shaped(t) /\ Kinship(t) /\ OneWay(t) /\ Queued(t) /\ Alone(t) BY DEF Sound
<1>7. Shaped(w) BY <1>0, <1>1, <1>6, HandlesAre DEF Shaped
<1>8. Kinship(w)
  <2>1. SUFFICES ASSUME NEW m \in Handles, NEW n \in Named
                 PROVE  /\ Child(w, m, n) => Occupied(w, n) /\ w[n].parent = m
                        /\ Sibling(w, m, n) => Occupied(w, n) /\ w[n].parent = w[m].parent
    BY DEF Kinship
  <2>. QED BY <1>1, <1>2, <1>4, <1>5, <1>6 DEF Kinship
<1>9. OneWay(w)
  <2>1. SUFFICES ASSUME NEW l \in Handles, NEW m \in Handles, NEW n \in Named
                 PROVE  /\ Sibling(w, l, n) /\ Sibling(w, m, n) => l = m
                        /\ ~(Child(w, l, n) /\ Sibling(w, m, n))
    BY DEF OneWay
  <2>. QED BY <1>2, <1>6 DEF OneWay
<1>10. Queued(w)
  <2>1. SUFFICES ASSUME NEW m \in Handles, Occupied(w, m), w[m].next_sibling # 0
                 PROVE  m \in Named /\ \E l \in Handles : Leads(w, l, m)
    BY DEF Queued
  <2>. QED BY <1>0, <1>1, <1>3, <1>6, <2>1 DEF Queued
<1>11. Alone(w)
  <2>1. SUFFICES ASSUME NEW n \in Named, OwnParent(w, n) PROVE w[n].next_sibling = 0 BY DEF Alone
  <2>2. OwnParent(t, n) BY <1>1, <1>4, <1>5, <2>1 DEF OwnParent
  <2>. QED BY <1>0, <1>5, <1>6, <2>2 DEF Alone
<1>12. PICK r \in Ranks : Ranked(r, t) BY DEF Sound
<1>13. Ranked(r, w)
  <2>1. SUFFICES ASSUME NEW m \in Handles, NEW n \in Named, Leads(w, m, n)
                 PROVE  r[m] < r[n] \/ w[n].parent = n
    BY DEF Ranked
  <2>. QED BY <1>3, <1>4, <1>5, <1>12, <2>1 DEF Ranked
<1>. QED BY <1>7, <1>8, <1>9, <1>10, <1>11, <1>12, <1>13 DEF Sound

LEMMA ItsLinks == ASSUME NEW t, Sound(t) PROVE SameLinks(t, t)
BY DEF SameLinks, SameKin, Sound, Shaped

LEMMA WithPropLinks ==
  ASSUME NEW t, Sound(t), NEW h \in Byte, NEW key \in Byte, NEW value \in Byte,
         NEW w, w = WithProp(t, h, key, value)
  PROVE  SameLinks(t, w)
<1>1. CASE ~Occupied(t, h) \/ w = t BY <1>1, ItsLinks DEF WithProp
<1>2. CASE Occupied(t, h) /\ w # t
  <2>1. h \in Handles /\ t \in [Handles -> Nodes] BY <1>2 DEF Occupied, Sound, Shaped
  <2>2. PICK i : w = [t EXCEPT ![h].props[i] = <<key, value>>] BY <1>2 DEF WithProp
  <2>3. PICK x \in Nodes : x = t[h] BY <2>1
  <2>4. PICK q : q = [x.props EXCEPT ![i] = <<key, value>>] OBVIOUS
  <2>5. PICK y : y = [x EXCEPT !.props = q] OBVIOUS
  <2>6. w = [t EXCEPT ![h] = y] BY <2>1, <2>2, <2>3, <2>4, <2>5
  <2>7. q \in Props
    <3>1. x.props \in Props BY <2>3, NodeAt
    <3>2. <<key, value>> \in Byte \X Byte OBVIOUS
    <3>. QED BY <2>4, <3>1, <3>2 DEF Props
  <2>8. y \in Nodes /\ SameKin(y, x) /\ y.first_child = x.first_child /\ y.next_sibling = x.next_sibling
    BY <2>3, <2>5, <2>7 DEF Nodes, SameKin
  <2>9. w \in [Handles -> Nodes] BY <2>1, <2>6, <2>8
  <2>10. \A m \in Handles : w[m] = IF m = h THEN y ELSE t[m] BY <2>1, <2>6
  <2>11. \A m \in Handles : /\ SameKin(w[m], t[m])
                            /\ w[m].first_child = t[m].first_child
                            /\ w[m].next_sibling = t[m].next_sibling
    BY <2>3, <2>8, <2>10 DEF SameKin
  <2>. QED BY <2>9, <2>11 DEF SameLinks
<1>. QED BY <1>1, <1>2

LEMMA WithTextLinks ==
  ASSUME NEW t, Sound(t), NEW h, NEW len \in Word, NEW w, w = WithText(t, h, len)
  PROVE  SameLinks(t, w)
<1>1. CASE ~Occupied(t, h) BY <1>1, ItsLinks DEF WithText
<1>2. CASE Occupied(t, h)
  <2>1. h \in Handles /\ t \in [Handles -> Nodes] BY <1>2 DEF Occupied, Sound, Shaped
  <2>2. w = [t EXCEPT ![h].text_len = len] BY <1>2 DEF WithText
  <2>3. PICK x \in Nodes : x = t[h] BY <2>1
  <2>4. PICK y : y = [x EXCEPT !.text_len = len] OBVIOUS
  <2>5. w = [t EXCEPT ![h] = y] BY <2>1, <2>2, <2>3, <2>4
  <2>6. y \in Nodes /\ SameKin(y, x) /\ y.first_child = x.first_child /\ y.next_sibling = x.next_sibling
    BY <2>3, <2>4 DEF Nodes, SameKin
  <2>7. w \in [Handles -> Nodes] BY <2>1, <2>5, <2>6
  <2>8. \A m \in Handles : w[m] = IF m = h THEN y ELSE t[m] BY <2>1, <2>5
  <2>9. \A m \in Handles : /\ SameKin(w[m], t[m])
                           /\ w[m].first_child = t[m].first_child
                           /\ w[m].next_sibling = t[m].next_sibling
    BY <2>3, <2>6, <2>8 DEF SameKin
  <2>. QED BY <2>7, <2>9 DEF SameLinks
<1>. QED BY <1>1, <1>2

LEMMA NewTreeSound == Sound(NewTree)
<1>1. PICK t : t = NewTree OBVIOUS
<1>2. PICK x : x = [EmptyNode EXCEPT !.kind = 255] OBVIOUS
<1>3. PICK e \in Nodes : e = EmptyNode /\ e.kind = 0 /\ e.first_child = 0 /\ e.next_sibling = 0
  BY EmptyNodeType
<1>4. x \in Nodes /\ x.kind = 255 /\ x.first_child = 0 /\ x.next_sibling = 0
  <2>1. 255 \in Byte BY DEF Byte
  <2>2. x = [e EXCEPT !.kind = 255] BY <1>2, <1>3
  <2>. QED BY <1>3, <2>1, <2>2 DEF Nodes
<1>5. t = [h \in Handles |-> IF h = 0 THEN x ELSE e] BY <1>1, <1>2, <1>3 DEF NewTree, NODE_ROOT
<1>6. t \in [Handles -> Nodes] BY <1>4, <1>5
<1>7. \A m \in Handles : t[m].first_child = 0 /\ t[m].next_sibling = 0 BY <1>3, <1>4, <1>5
<1>8. \A m \in Handles : Occupied(t, m) <=> m = 0 BY <1>3, <1>4, <1>5 DEF Occupied, NODE_FREE
<1>9. 0 \in Handles /\ 0 \notin Named /\ \A n \in Named : n \in Handles /\ n # 0 BY HandlesAre
<1>10. \A m \in Handles, n \in Named : ~Child(t, m, n) /\ ~Sibling(t, m, n) /\ ~Leads(t, m, n)
  BY <1>7, <1>9 DEF Child, Sibling, Leads
<1>11. Shaped(t) /\ Kinship(t) /\ OneWay(t) BY <1>6, <1>8, <1>9, <1>10 DEF Shaped, Kinship, OneWay
<1>12. Queued(t) /\ Alone(t) BY <1>7, <1>9 DEF Queued, Alone
<1>13. \E r \in Ranks : Ranked(r, t)
  <2>1. [m \in Handles |-> 0] \in Ranks BY DEF Ranks
  <2>. QED BY <1>10, <2>1 DEF Ranked
<1>. QED BY <1>1, <1>11, <1>12, <1>13 DEF Sound

-----------------------------------------------------------------------------
(* In a sound tree nodes are linked to once, and the loops end. *)

LEMMA SingleLinks ==
  ASSUME NEW t, Sound(t)
  PROVE  LinksSingle(t)
<1>1. SUFFICES ASSUME NEW n \in Named
               PROVE  Cardinality(LinksTo(t, n)) <= (IF Occupied(t, n) THEN 1 ELSE 0)
  BY DEF LinksSingle
<1>2. LinksTo(t, n) = {<<m, "child">> : m \in {x \in Handles : Child(t, x, n)}} \cup
                      {<<m, "sibling">> : m \in {x \in Handles : Sibling(t, x, n)}}
  BY DEF LinksTo, Child, Sibling
<1>3. \A l, m \in Handles :
        /\ Child(t, l, n) => Occupied(t, n) /\ t[n].parent = l
        /\ Sibling(t, l, n) => Occupied(t, n)
        /\ Sibling(t, l, n) /\ Sibling(t, m, n) => l = m
        /\ ~(Child(t, l, n) /\ Sibling(t, m, n))
  BY DEF Sound, Kinship, OneWay
<1>4. CASE \E m \in Handles : Child(t, m, n)
  <2>1. PICK m \in Handles : Child(t, m, n) BY <1>4
  <2>2. {x \in Handles : Child(t, x, n)} = {m} /\ {x \in Handles : Sibling(t, x, n)} = {}
    BY <1>3, <2>1
  <2>3. LinksTo(t, n) = {<<m, "child">>} BY <1>2, <2>2
  <2>4. Cardinality(LinksTo(t, n)) = 1 BY <2>3, FS_Singleton
  <2>. QED BY <1>3, <2>1, <2>4
<1>5. CASE \E m \in Handles : Sibling(t, m, n)
  <2>1. PICK m \in Handles : Sibling(t, m, n) BY <1>5
  <2>2. {x \in Handles : Sibling(t, x, n)} = {m} /\ {x \in Handles : Child(t, x, n)} = {}
    BY <1>3, <2>1
  <2>3. LinksTo(t, n) = {<<m, "sibling">>} BY <1>2, <2>2
  <2>4. Cardinality(LinksTo(t, n)) = 1 BY <2>3, FS_Singleton
  <2>. QED BY <1>3, <2>1, <2>4
<1>6. CASE ~(\E m \in Handles : Child(t, m, n) \/ Sibling(t, m, n))
  <2>1. {x \in Handles : Sibling(t, x, n)} = {} /\ {x \in Handles : Child(t, x, n)} = {} BY <1>6
  <2>2. LinksTo(t, n) = {} BY <1>2, <2>1
  <2>3. Cardinality(LinksTo(t, n)) = 0 BY <2>2, FS_EmptySet
  <2>. QED BY <2>3
<1>. QED BY <1>4, <1>5, <1>6

LEMMA ListsEnd ==
  ASSUME NEW t, Sound(t), NEW n \in Named, Occupied(t, n)
  PROVE  n \notin Chain(t, t[n].next_sibling)
<1>1. PICK r \in Ranks : Ranked(r, t) BY DEF Sound
<1>2. PICK s : s = t[n].next_sibling OBVIOUS
<1>3. Shaped(t) /\ Kinship(t) /\ Alone(t) /\ \A x \in Named : x \in Handles /\ x # 0
  BY HandlesAre DEF Sound
<1>4. \A x \in Named : r[x] \in Nat BY <1>3 DEF Ranks
<1>5. CASE s = 0
  <2>1. PICK S : S = {} OBVIOUS
  <2>2. Chain(t, s) \subseteq S BY <1>5, <2>1, ChainWithin
  <2>. QED BY <1>2, <2>1, <2>2
<1>6. CASE s # 0
  <2>1. PICK S : S = {x \in Named : Occupied(t, x) /\ (r[n] < r[x] \/ OwnParent(t, x))} OBVIOUS
  <2>2. ~OwnParent(t, n) BY <1>2, <1>3, <1>6 DEF Alone
  <2>3. n \notin S BY <1>4, <2>1, <2>2
  <2>4. ASSUME NEW x \in Named, Occupied(t, x), NEW y \in Named, y = t[x].next_sibling, r[n] <= r[x]
        PROVE  y \in S
    <3>1. x \in Handles /\ Sibling(t, x, y) BY <1>3, <2>4 DEF Sibling
    <3>2. Occupied(t, y) BY <1>3, <3>1 DEF Kinship
    <3>3. r[x] < r[y] \/ OwnParent(t, y) BY <1>1, <3>1, <3>2 DEF Ranked, Leads, OwnParent
    <3>4. r[n] \in Nat /\ r[x] \in Nat /\ r[y] \in Nat BY <1>4
    <3>5. r[n] < r[y] \/ OwnParent(t, y) BY <2>4, <3>3, <3>4
    <3>. QED BY <2>1, <3>2, <3>5
  <2>5. s \in S
    <3>1. s \in Named BY <1>2, <1>3, <1>6, LinkAt
    <3>2. r[n] <= r[n] BY <1>4
    <3>. QED BY <1>2, <2>4, <3>1, <3>2
  <2>6. ASSUME NEW x \in S PROVE t[x].next_sibling \in S \cup {0}
    <3>1. x \in Named /\ x \in Handles /\ Occupied(t, x) /\ (r[n] < r[x] \/ OwnParent(t, x))
      BY <1>3, <2>1
    <3>2. CASE t[x].next_sibling = 0 BY <3>2
    <3>3. CASE t[x].next_sibling # 0
      <4>1. t[x].next_sibling \in Named BY <1>3, <3>1, <3>3, LinkAt
      <4>2. r[n] < r[x] BY <1>3, <3>1, <3>3 DEF Alone
      <4>3. r[n] <= r[x] BY <1>4, <3>1, <4>2
      <4>. QED BY <2>4, <3>1, <4>1, <4>3
    <3>. QED BY <3>2, <3>3
  <2>7. S \subseteq Named BY <2>1
  <2>8. Chain(t, s) \subseteq S BY <2>5, <2>6, <2>7, ChainWithin
  <2>. QED BY <1>2, <2>3, <2>8
<1>. QED BY <1>5, <1>6

\* Only a node that is its own parent is below itself,
LEMMA BelowItself ==
  ASSUME NEW u, Sound(u), NEW n \in Named, Occupied(u, n), n \in Below(u, n)
  PROVE  u[n].parent = n
<1>1. SUFFICES ASSUME u[n].parent # n PROVE FALSE OBVIOUS
<1>2. PICK r \in Ranks : Ranked(r, u) BY DEF Sound
<1>3. Shaped(u) /\ Kinship(u) /\ \A x \in Named : x \in Handles /\ x # 0 BY HandlesAre DEF Sound
<1>4. \A x \in Named : r[x] \in Nat BY <1>3 DEF Ranks
<1> DEFINE Looped(x) == u[x].parent \in Named /\ u[u[x].parent].parent = u[x].parent
<1>5. PICK S : S = {x \in Named : Occupied(u, x) /\ r[n] < r[x] /\ ~Looped(x)} OBVIOUS
<1>6. n \notin S BY <1>4, <1>5
<1>7. u[n].first_child \in S \cup {0}
  <2>1. PICK f : f = u[n].first_child OBVIOUS
  <2>2. CASE f # 0
    <3>1. f \in Named /\ Child(u, n, f) BY <1>3, <2>1, <2>2, LinkAt
    <3>2. Occupied(u, f) /\ u[f].parent = n BY <1>3, <3>1 DEF Kinship
    <3>3. r[n] < r[f] BY <1>1, <1>2, <1>3, <3>1, <3>2 DEF Ranked, Leads
    <3>. QED BY <1>1, <1>5, <2>1, <3>1, <3>2, <3>3
  <2>. QED BY <2>1, <2>2
<1>8. ASSUME NEW x \in S, NEW y \in Named, Leads(u, x, y) PROVE y \in S
  <2>1. x \in Named /\ x \in Handles /\ Occupied(u, x) /\ r[n] < r[x] /\ ~Looped(x) BY <1>3, <1>5
  <2>2. Occupied(u, y) /\ (u[y].parent = x \/ u[y].parent = u[x].parent)
    BY <1>3, <1>8, <2>1 DEF Kinship, Leads
  <2>3. ~Looped(y) BY <2>1, <2>2
  <2>4. u[y].parent # y BY <2>3
  <2>5. r[x] < r[y] BY <1>2, <1>8, <2>1, <2>4 DEF Ranked
  <2>6. r[n] \in Nat /\ r[x] \in Nat /\ r[y] \in Nat BY <1>4, <2>1
  <2>7. r[n] < r[y] BY <2>1, <2>5, <2>6
  <2>. HIDE DEF Looped
  <2>. QED BY <1>5, <2>2, <2>3, <2>7
<1>9. ASSUME NEW x \in S PROVE u[x].first_child \in S \cup {0} /\ u[x].next_sibling \in S \cup {0}
  <2>1. x \in Handles /\ Occupied(u, x) BY <1>3, <1>5
  <2>. QED BY <1>3, <1>8, <2>1, LinkAt DEF Leads
<1>10. S \subseteq Named BY <1>5
<1>11. Below(u, n) \subseteq S BY <1>7, <1>9, <1>10, BelowWithin
<1>. QED BY <1>6, <1>11

\* and only itself is above it.
LEMMA BelowOther ==
  ASSUME NEW u, Sound(u), NEW h \in Named, Occupied(u, h), NEW n \in Below(u, h), n # h
  PROVE  u[n].parent # n
<1>1. SUFFICES ASSUME u[n].parent = n PROVE FALSE OBVIOUS
<1>2. Shaped(u) /\ Kinship(u) /\ h \in Handles /\ \A x \in Named : x \in Handles BY HandlesAre DEF Sound
<1>3. PICK S : S = {x \in Named : Occupied(u, x) /\ u[x].parent # n} OBVIOUS
<1>4. u[h].first_child \in S \cup {0}
  <2>1. PICK f : f = u[h].first_child OBVIOUS
  <2>2. CASE f # 0
    <3>1. f \in Named /\ Child(u, h, f) BY <1>2, <2>1, <2>2, LinkAt
    <3>. QED BY <1>2, <1>3, <2>1, <3>1 DEF Kinship
  <2>. QED BY <2>1, <2>2
<1>5. ASSUME NEW x \in S PROVE u[x].first_child \in S \cup {0} /\ u[x].next_sibling \in S \cup {0}
  <2>1. x \in Handles /\ Occupied(u, x) /\ u[x].parent # n /\ x # n BY <1>1, <1>2, <1>3
  <2>2. \A y \in Named : Leads(u, x, y) => y \in S BY <1>2, <1>3, <2>1 DEF Kinship, Leads
  <2>. QED BY <1>2, <2>1, <2>2, LinkAt DEF Leads
<1>6. S \subseteq Named BY <1>3
<1>7. Below(u, h) \subseteq S BY <1>4, <1>5, <1>6, BelowWithin
<1>. QED BY <1>1, <1>3, <1>7

LEMMA SubtreesEnd ==
  ASSUME NEW t, Sound(t), NEW h \in Named, Occupied(t, h), NEW d, d = Detached(t, h),
         NEW n \in Below(d, h) \cup {h}
  PROVE  n \notin Below(d, n)
<1>1. PICK u : u = Unlinked(d, h) OBVIOUS
<1>2. Sound(u) BY <1>1, UnlinkedSound
<1>3. \A m \in Handles : Occupied(u, m) <=> Occupied(t, m) BY <1>1, UnlinkedLinks DEF Spliced
<1>4. h \in Handles /\ Shaped(u) /\ Kinship(u) BY <1>2, HandlesAre DEF Sound
<1>5. Below(d, h) = Below(u, h) BY <1>1, <1>4, UnlinkedBelow
<1>6. n \in Named /\ n \in Handles /\ Occupied(u, n) /\ Occupied(t, n)
  <2>1. CASE n = h BY <1>3, <1>4, <2>1
  <2>2. CASE n \in Below(u, h)
    <3>1. n \in Named /\ Occupied(u, n) BY <1>3, <1>4, <2>2, BelowOccupied
    <3>. QED BY <1>3, <3>1, HandlesAre
  <2>. QED BY <1>5, <2>1, <2>2
<1>7. Below(d, n) = Below(u, n) /\ h \notin Below(u, n) BY <1>1, <1>6, UnlinkedBelow
<1>8. SUFFICES ASSUME n \in Below(u, n) PROVE FALSE BY <1>7
<1>9. n # h /\ n \in Below(u, h) BY <1>5, <1>7, <1>8
<1>10. u[n].parent = n BY <1>2, <1>6, <1>8, BelowItself
<1>11. u[n].parent # n
  <2>1. Occupied(u, h) BY <1>3, <1>4
  <2>. QED BY <1>2, <1>9, <2>1, BelowOther
<1>. QED BY <1>10, <1>11

LEMMA LoopsDoEnd ==
  ASSUME NEW t, Sound(t)
  PROVE  LoopsEnd(t)
BY ListsEnd, SubtreesEnd DEF LoopsEnd

-----------------------------------------------------------------------------
(* The commands. *)

Trees == {t \in [Handles -> Nodes] : Sound(t)}

LEMMA TreesAre == \A t : t \in Trees <=> Sound(t)
BY DEF Trees, Sound, Shaped

\* The parser waits for the rest of a command.
Parsers ==
  {q \in [buf : Seq(Byte), remaining : Nat] :
     /\ q.remaining = 0 /\ q.buf # <<>> => q.buf[1] \in DOMAIN Args /\ Len(q.buf) <= Args[q.buf[1]]
     /\ q.remaining > 0 => Len(q.buf) = 4 /\ q.buf[1] = TUI_SET_TEXT}

States == [parser : Parsers, staged : Trees, committed : Trees, dirty : BOOLEAN]

\* A command with all its arguments.
Complete(cmd) ==
  /\ cmd \in Seq(Byte) /\ cmd # <<>>
  /\ \/ cmd[1] \in DOMAIN Args /\ Len(cmd) = 1 + Args[cmd[1]]
     \/ cmd[1] \in {TUI_ABORT, TUI_COMMIT}

LEMMA ArgsAre ==
  /\ DOMAIN Args = {TUI_CREATE, TUI_REMOVE, TUI_SET_PROP, TUI_SET_TEXT}
  /\ Args[TUI_CREATE] = 3 /\ Args[TUI_REMOVE] = 1 /\ Args[TUI_SET_PROP] = 3 /\ Args[TUI_SET_TEXT] = 3
BY DEF Args, TUI_CREATE, TUI_REMOVE, TUI_SET_PROP, TUI_SET_TEXT

LEMMA Pair ==
  ASSUME NEW lo \in Nat, NEW hi \in Nat, lo <= 255, hi <= 255
  PROVE  lo + 256 * hi \in Nat /\ lo + 256 * hi <= 65535
OBVIOUS

LEMMA LengthIs ==
  ASSUME NEW lo \in Byte, NEW hi \in Byte, NEW len, len = lo + 256 * hi
  PROVE  len \in Nat /\ len \in Word
<1>1. lo \in Nat /\ hi \in Nat /\ lo <= 255 /\ hi <= 255 BY DEF Byte
<1>2. len \in Nat /\ len <= 65535 BY <1>1, Pair
<1>. QED BY <1>2 DEF Word

LEMMA ByteAt ==
  ASSUME NEW cmd \in Seq(Byte), NEW i \in 1 .. Len(cmd)
  PROVE  cmd[i] \in Byte
OBVIOUS

LEMMA ArgumentsAre ==
  ASSUME NEW cmd \in Seq(Byte), Len(cmd) = 4
  PROVE  cmd[2] \in Byte /\ cmd[3] \in Byte /\ cmd[4] \in Byte
<1>1. 2 \in 1 .. Len(cmd) /\ 3 \in 1 .. Len(cmd) /\ 4 \in 1 .. Len(cmd) OBVIOUS
<1>. QED BY <1>1, ByteAt

LEMMA ParserType ==
  ASSUME NEW s \in Seq(Byte), NEW k \in Nat,
         k = 0 /\ s # <<>> => s[1] \in DOMAIN Args /\ Len(s) <= Args[s[1]],
         k > 0 => Len(s) = 4 /\ s[1] = TUI_SET_TEXT
  PROVE  [buf |-> s, remaining |-> k] \in Parsers
<1>1. PICK q : q = [buf |-> s, remaining |-> k] OBVIOUS
<1>2. q \in [buf : Seq(Byte), remaining : Nat] /\ q.buf = s /\ q.remaining = k BY <1>1
<1>3. q \in Parsers BY <1>2 DEF Parsers
<1>. QED BY <1>1, <1>3

LEMMA EmptyParser == [buf |-> <<>>, remaining |-> 0] \in Parsers
BY DEF Parsers

LEMMA WithStaged ==
  ASSUME NEW m \in States, NEW t \in Trees
  PROVE  [m EXCEPT !.staged = t] \in States
BY DEF States

LEMMA AppliedType ==
  ASSUME NEW m \in States, NEW cmd, Complete(cmd)
  PROVE  Apply(m, cmd) \in States
<1>1. cmd[1] \in {TUI_CREATE, TUI_REMOVE, TUI_SET_PROP, TUI_SET_TEXT, TUI_ABORT, TUI_COMMIT}
  BY ArgsAre DEF Complete
<1>2. PICK t \in Trees : t = m.staged BY DEF States
<1>3. Sound(t) BY TreesAre
<1>4. cmd \in Seq(Byte) /\ cmd # <<>> BY DEF Complete
<1>5. CASE cmd[1] = TUI_CREATE
  <2>1. Len(cmd) = 4 BY <1>5, ArgsAre DEF Complete, TUI_CREATE, TUI_ABORT, TUI_COMMIT
  <2>2. cmd[2] \in Byte /\ cmd[3] \in Byte /\ cmd[4] \in Byte BY <1>4, <2>1, ArgumentsAre
  <2>3. PICK w : w = Created(t, cmd[2], cmd[3], cmd[4]) OBVIOUS
  <2>4. Sound(w) BY <1>3, <2>2, <2>3, CreatedSound
  <2>5. Apply(m, cmd) = [m EXCEPT !.staged = w] BY <1>2, <1>5, <2>3 DEF Apply, TUI_CREATE,
          TUI_REMOVE, TUI_SET_PROP, TUI_SET_TEXT, TUI_ABORT, TUI_COMMIT
  <2>. QED BY <2>4, <2>5, TreesAre, WithStaged
<1>6. CASE cmd[1] = TUI_REMOVE
  <2>1. PICK w : w = Removed(t, cmd[2]) OBVIOUS
  <2>2. Sound(w) BY <1>3, <2>1, RemovedSound
  <2>3. Apply(m, cmd) = [m EXCEPT !.staged = w] BY <1>2, <1>6, <2>1 DEF Apply, TUI_CREATE,
          TUI_REMOVE, TUI_SET_PROP, TUI_SET_TEXT, TUI_ABORT, TUI_COMMIT
  <2>. QED BY <2>2, <2>3, TreesAre, WithStaged
<1>7. CASE cmd[1] = TUI_SET_PROP
  <2>1. Len(cmd) = 4 BY <1>7, ArgsAre DEF Complete, TUI_SET_PROP, TUI_ABORT, TUI_COMMIT
  <2>2. cmd[2] \in Byte /\ cmd[3] \in Byte /\ cmd[4] \in Byte BY <1>4, <2>1, ArgumentsAre
  <2>3. PICK w : w = WithProp(t, cmd[2], cmd[3], cmd[4]) OBVIOUS
  <2>4. Sound(w) BY <1>3, <2>2, <2>3, WithPropLinks, SameLinksSound
  <2>5. Apply(m, cmd) = [m EXCEPT !.staged = w] BY <1>2, <1>7, <2>3 DEF Apply, TUI_CREATE,
          TUI_REMOVE, TUI_SET_PROP, TUI_SET_TEXT, TUI_ABORT, TUI_COMMIT
  <2>. QED BY <2>4, <2>5, TreesAre, WithStaged
<1>8. CASE cmd[1] = TUI_SET_TEXT
  <2>1. Len(cmd) = 4 BY <1>8, ArgsAre DEF Complete, TUI_SET_TEXT, TUI_ABORT, TUI_COMMIT
  <2>2. cmd[3] \in Byte /\ cmd[4] \in Byte BY <1>4, <2>1, ArgumentsAre
  <2>3. PICK w, len : len = Length(cmd) /\ w = WithText(t, cmd[2], len) OBVIOUS
  <2>4. len \in Word BY <2>2, <2>3, LengthIs DEF Length
  <2>5. Sound(w) BY <1>3, <2>3, <2>4, WithTextLinks, SameLinksSound
  <2>6. Apply(m, cmd) = [m EXCEPT !.staged = w] BY <1>2, <1>8, <2>3 DEF Apply, TUI_CREATE,
          TUI_REMOVE, TUI_SET_PROP, TUI_SET_TEXT, TUI_ABORT, TUI_COMMIT
  <2>. QED BY <2>5, <2>6, TreesAre, WithStaged
<1>9. CASE cmd[1] = TUI_ABORT
  <2>1. Apply(m, cmd) = [m EXCEPT !.staged = m.committed, !.dirty = TRUE] BY <1>9 DEF Apply, TUI_CREATE,
          TUI_REMOVE, TUI_SET_PROP, TUI_SET_TEXT, TUI_ABORT, TUI_COMMIT
  <2>. QED BY <2>1 DEF States
<1>10. CASE cmd[1] = TUI_COMMIT
  <2>1. Apply(m, cmd) = [m EXCEPT !.committed = m.staged, !.dirty = TRUE] BY <1>10 DEF Apply, TUI_CREATE,
          TUI_REMOVE, TUI_SET_PROP, TUI_SET_TEXT, TUI_ABORT, TUI_COMMIT
  <2>. QED BY <2>1 DEF States
<1>. QED BY <1>1, <1>5, <1>6, <1>7, <1>8, <1>9, <1>10

LEMMA AwaitsType ==
  ASSUME NEW m \in States, NEW buf, NEW remaining,
         [buf |-> buf, remaining |-> remaining] \in Parsers
  PROVE  Awaits(m, buf, remaining) \in States
BY DEF Awaits, States

LEMMA CompletesType ==
  ASSUME NEW m \in States, NEW cmd, Complete(cmd)
  PROVE  Completes(m, cmd) \in States
<1>1. PICK n \in States : n = Awaits(m, <<>>, 0) BY EmptyParser, AwaitsType
<1>. QED BY <1>1, AppliedType DEF Completes

\* A byte leaves the mode with sound trees and a command that it knows.
LEMMA ConsumedType ==
  ASSUME NEW m \in States, NEW b \in Byte
  PROVE  Consume(m, b) \in States
<1>0. PICK z \in Nat : z = 0 OBVIOUS
<1>1. PICK q \in Parsers : q = m.parser BY DEF States
<1>2. PICK buf, remaining : buf = q.buf /\ remaining = q.remaining OBVIOUS
<1>3. buf \in Seq(Byte) /\ remaining \in Nat BY <1>2 DEF Parsers
<1>4. remaining > 0 => Len(buf) = 4 /\ buf[1] = TUI_SET_TEXT BY <1>2 DEF Parsers
<1>5. remaining = 0 /\ buf # <<>> => buf[1] \in DOMAIN Args /\ Len(buf) <= Args[buf[1]]
  BY <1>2 DEF Parsers
<1>6. CASE remaining > 0
  <2>1. Consume(m, b) = OnText(m) BY <1>1, <1>2, <1>6 DEF Consume
  <2>2. CASE remaining > 1
    <3>1. PICK k \in Nat : k = remaining - 1 /\ k > 0 BY <1>3, <2>2
    <3>2. [buf |-> buf, remaining |-> k] \in Parsers BY <1>3, <1>4, <1>6, <3>1, ParserType
    <3>3. OnText(m) = Awaits(m, buf, k) BY <1>1, <1>2, <2>2, <3>1 DEF OnText
    <3>. QED BY <2>1, <3>2, <3>3, AwaitsType
  <2>3. CASE ~(remaining > 1)
    <3>1. OnText(m) = Completes(m, buf) BY <1>1, <1>2, <2>3 DEF OnText
    <3>2. Complete(buf)
      <4>1. buf # <<>> /\ Len(buf) = 4 BY <1>3, <1>4, <1>6
      <4>2. buf[1] \in DOMAIN Args /\ Args[buf[1]] = 3 BY <1>4, <1>6, ArgsAre
      <4>. QED BY <1>3, <4>1, <4>2 DEF Complete
    <3>. QED BY <2>1, <3>1, <3>2, CompletesType
  <2>. QED BY <2>2, <2>3
<1>7. CASE remaining = 0 /\ buf = <<>>
  <2>1. Consume(m, b) = OnOpcode(m, b) BY <1>1, <1>2, <1>7 DEF Consume
  <2>2. CASE b \in DOMAIN Args
    <3>1. PICK s : s = <<b>> OBVIOUS
    <3>2. s \in Seq(Byte) /\ Len(s) = 1 /\ s[1] = b BY <3>1
    <3>3. 1 <= Args[b] BY <2>2, ArgsAre
    <3>4. s[1] \in DOMAIN Args /\ Len(s) <= Args[s[1]] BY <2>2, <3>2, <3>3
    <3>5. [buf |-> s, remaining |-> z] \in Parsers
      <4>1. s \in Seq(Byte) /\ ~(z > 0) BY <1>0, <3>2
      <4>. QED BY <3>4, <4>1, ParserType
    <3>. QED BY <1>0, <2>1, <2>2, <3>1, <3>5, AwaitsType DEF OnOpcode
  <2>3. CASE b \notin DOMAIN Args /\ b \in {TUI_ABORT, TUI_COMMIT}
    <3>1. Complete(<<b>>) BY <2>3 DEF Complete
    <3>. QED BY <2>1, <2>3, <3>1, CompletesType DEF OnOpcode
  <2>4. CASE b \notin DOMAIN Args /\ b \notin {TUI_ABORT, TUI_COMMIT} BY <2>1, <2>4 DEF OnOpcode
  <2>. QED BY <2>2, <2>3, <2>4
<1>8. CASE remaining = 0 /\ buf # <<>>
  <2>1. PICK cmd : cmd = Append(buf, b) OBVIOUS
  <2>2. cmd \in Seq(Byte) /\ Len(cmd) = Len(buf) + 1 /\ cmd # <<>> /\ cmd[1] = buf[1]
    BY <1>3, <1>8, <2>1
  <2>3. Consume(m, b) = OnArgument(m, b) BY <1>1, <1>2, <1>3, <1>8 DEF Consume
  <2>4. Args[cmd[1]] \in Nat /\ cmd[1] \in DOMAIN Args /\ Len(cmd) <= 1 + Args[cmd[1]] /\ Len(cmd) \in Nat
    BY <1>3, <1>5, <1>8, <2>2, ArgsAre
  <2>5. CASE Len(cmd) < 1 + Args[cmd[1]]
    <3>1. OnArgument(m, b) = Awaits(m, cmd, 0) BY <1>1, <1>2, <2>1, <2>5 DEF OnArgument
    <3>2. Len(cmd) <= Args[cmd[1]] BY <2>4, <2>5
    <3>3. [buf |-> cmd, remaining |-> z] \in Parsers BY <1>0, <2>2, <2>4, <3>2, ParserType
    <3>. QED BY <1>0, <2>3, <3>1, <3>3, AwaitsType
  <2>6. CASE ~(Len(cmd) < 1 + Args[cmd[1]])
    <3>1. Len(cmd) = 1 + Args[cmd[1]] BY <2>4, <2>6
    <3>2. CASE cmd[1] = TUI_SET_TEXT /\ Length(cmd) > 0
      <4>1. PICK k : k = Length(cmd) OBVIOUS
      <4>2. OnArgument(m, b) = Awaits(m, cmd, k) BY <1>1, <1>2, <2>1, <2>6, <3>2, <4>1 DEF OnArgument
      <4>3. Len(cmd) = 4 BY <3>1, <3>2, ArgsAre
      <4>4. k \in Nat /\ k > 0
        <5>1. cmd[3] \in Byte /\ cmd[4] \in Byte BY <2>2, <4>3, ArgumentsAre
        <5>2. k = cmd[3] + 256 * cmd[4] BY <4>1 DEF Length
        <5>. QED BY <3>2, <4>1, <5>1, <5>2, LengthIs
      <4>5. [buf |-> cmd, remaining |-> k] \in Parsers BY <2>2, <3>2, <4>3, <4>4, ParserType
      <4>. QED BY <2>3, <4>2, <4>5, AwaitsType
    <3>3. CASE ~(cmd[1] = TUI_SET_TEXT /\ Length(cmd) > 0)
      <4>1. OnArgument(m, b) = Completes(m, cmd) BY <1>1, <1>2, <2>1, <2>6, <3>3 DEF OnArgument
      <4>2. Complete(cmd) BY <2>2, <2>4, <3>1 DEF Complete
      <4>. QED BY <2>3, <4>1, <4>2, CompletesType
    <3>. QED BY <3>2, <3>3
  <2>. QED BY <2>5, <2>6
<1>. QED BY <1>3, <1>6, <1>7, <1>8

-----------------------------------------------------------------------------
(* Transactions: the fold of Consume over the bytes that arrived is the    *)
(* last of a run of modes, each the one before it after one more byte.     *)

LEMMA Induction ==
  ASSUME NEW S, 0 \in S, NEW n \in Nat, \A i \in 0 .. n - 1 : i \in S => i + 1 \in S
  PROVE  \A i \in 0 .. n : i \in S
<1> DEFINE T == {i \in 0 .. n : i \notin S}
<1>1. SUFFICES ASSUME T # {} PROVE FALSE
  OBVIOUS
<1>2. T \subseteq Nat OBVIOUS
<1>3. PICK x \in T : \A y \in T : x <= y
  <2>. HIDE DEF T
  <2>. QED BY <1>1, <1>2, Least
<1>4. x # 0 /\ x \in 0 .. n /\ x \notin S OBVIOUS
<1>5. x - 1 \in 0 .. n - 1 /\ x - 1 \notin T BY <1>3, <1>4
<1>6. x - 1 \in S BY <1>5
<1>. QED BY <1>4, <1>5, <1>6

Played(m, bytes) == FoldLeft(Consume, m, bytes)

\* What the fold has computed for the indices s, from what it has for fewer.
Step(m, bytes, it, s) == IF s = {} THEN m ELSE Consume(it[s \ {Max(s)}], bytes[Max(s)])

LEMMA Greatest ==
  ASSUME NEW k \in Nat, NEW s \in SUBSET (1 .. k), k \in s
  PROVE  Max(s) = k
<1>1. \A y \in s : k >= y OBVIOUS
<1>2. ASSUME NEW x \in s, \A y \in s : x >= y PROVE x = k BY <1>1, <1>2
<1>. QED BY <1>1, <1>2 DEF Max

LEMMA Unfolds ==
  ASSUME NEW m, NEW bytes
  PROVE  Played(m, bytes) =
           (CHOOSE it : it = [s \in SUBSET DOMAIN bytes |-> Step(m, bytes, it, s)])[DOMAIN bytes]
BY DEF Played, FoldLeft, MapThenFoldSet, Step

LEMMA FoldExists ==
  ASSUME NEW m, NEW bytes, NEW n \in Nat
  PROVE  \A k \in 0 .. n : \E it : it = [s \in SUBSET (1 .. k) |-> Step(m, bytes, it, s)]
<1> DEFINE S == {k \in 0 .. n : \E it : it = [s \in SUBSET (1 .. k) |-> Step(m, bytes, it, s)]}
<1>1. 0 \in S
  <2> DEFINE it == [s \in SUBSET (1 .. 0) |-> m]
  <2>1. it = [s \in SUBSET (1 .. 0) |-> Step(m, bytes, it, s)] BY DEF Step
  <2>. HIDE DEF it
  <2>2. 0 \in 0 .. n /\ \E i : i = [s \in SUBSET (1 .. 0) |-> Step(m, bytes, i, s)] BY <2>1
  <2>. QED BY <2>2
<1>2. ASSUME NEW k \in 0 .. n - 1, k \in S PROVE k + 1 \in S
  <2>1. PICK it : it = [s \in SUBSET (1 .. k) |-> Step(m, bytes, it, s)] BY <1>2
  <2>2. PICK l \in Nat : l = k + 1 OBVIOUS
  <2>3. PICK more : more = [s \in SUBSET (1 .. l) |->
               IF l \in s THEN Consume(it[s \ {l}], bytes[l]) ELSE it[s]]
    OBVIOUS
  <2>4. ASSUME NEW s \in SUBSET (1 .. l) PROVE more[s] = Step(m, bytes, more, s)
    <3>1. CASE l \in s
      <4>1. Max(s) = l BY <3>1, Greatest
      <4>2. s \ {l} \in SUBSET (1 .. k) /\ s \ {l} \in SUBSET (1 .. l) /\ l \notin s \ {l} BY <2>2
      <4>3. more[s \ {l}] = it[s \ {l}] BY <2>3, <4>2
      <4>. QED BY <2>3, <3>1, <4>1, <4>3 DEF Step
    <3>2. CASE l \notin s
      <4>1. s \in SUBSET (1 .. k) BY <2>2, <3>2
      <4>2. more[s] = Step(m, bytes, it, s) BY <2>1, <2>3, <3>2, <4>1
      <4>3. s # {} => s \ {Max(s)} \in SUBSET (1 .. l) /\ l \notin s \ {Max(s)} BY <3>2
      <4>4. s # {} => more[s \ {Max(s)}] = it[s \ {Max(s)}] BY <2>3, <4>3
      <4>. QED BY <4>2, <4>4 DEF Step
    <3>. QED BY <3>1, <3>2
  <2>5. more = [s \in SUBSET (1 .. l) |-> Step(m, bytes, more, s)] BY <2>3, <2>4
  <2>. QED BY <2>2, <2>5
<1>3. \A k \in 0 .. n : k \in S
  <2>. HIDE DEF S
  <2>. QED BY <1>1, <1>2, Induction
<1>. QED BY <1>3

LEMMA Run ==
  ASSUME NEW m, NEW bytes, NEW n \in Nat, DOMAIN bytes = 1 .. n
  PROVE  \E run : /\ run[0] = m /\ run[n] = Played(m, bytes)
                  /\ \A k \in 1 .. n : run[k] = Consume(run[k - 1], bytes[k])
<1>1. PICK it : it = CHOOSE i : i = [s \in SUBSET (1 .. n) |-> Step(m, bytes, i, s)] OBVIOUS
<1>2. it = [s \in SUBSET (1 .. n) |-> Step(m, bytes, it, s)]
  <2>1. \E i : i = [s \in SUBSET (1 .. n) |-> Step(m, bytes, i, s)]
    <3>1. \A k \in 0 .. n : \E i : i = [s \in SUBSET (1 .. k) |-> Step(m, bytes, i, s)] BY FoldExists
    <3>2. n \in 0 .. n OBVIOUS
    <3>. QED BY <3>1, <3>2
  <2>. QED BY <1>1, <2>1
<1>3. Played(m, bytes) = it[1 .. n] BY <1>1, Unfolds
<1>4. PICK run : run = [k \in 0 .. n |-> it[1 .. k]] OBVIOUS
<1>5. run[0] = m BY <1>2, <1>4 DEF Step
<1>6. ASSUME NEW k \in 1 .. n PROVE run[k] = Consume(run[k - 1], bytes[k])
  <2>1. PICK s : s = 1 .. k OBVIOUS
  <2>2. s \in SUBSET (1 .. n) /\ s # {} /\ k \in s /\ k \in Nat /\ s \in SUBSET (1 .. k) BY <2>1
  <2>3. Max(s) = k BY <2>2, Greatest
  <2>4. s \ {k} = 1 .. k - 1 BY <2>1
  <2>5. it[s] = Consume(it[1 .. k - 1], bytes[k]) BY <1>2, <2>2, <2>3, <2>4 DEF Step
  <2>6. run[k] = it[s] /\ run[k - 1] = it[1 .. k - 1] BY <1>4, <2>1
  <2>. QED BY <2>5, <2>6
<1>7. \A k \in 1 .. n : run[k] = Consume(run[k - 1], bytes[k]) BY <1>6
<1>8. run[n] = Played(m, bytes) BY <1>3, <1>4
<1>. QED BY <1>5, <1>7, <1>8

LEMMA PlayedType ==
  ASSUME NEW m \in States, NEW bytes \in Seq(Byte)
  PROVE  Played(m, bytes) \in States
<1>1. PICK n \in Nat : DOMAIN bytes = 1 .. n OBVIOUS
<1>2. PICK run : /\ run[0] = m /\ run[n] = Played(m, bytes)
                 /\ \A k \in 1 .. n : run[k] = Consume(run[k - 1], bytes[k])
  BY <1>1, Run
<1> DEFINE S == {k \in 0 .. n : run[k] \in States}
<1>3. 0 \in S BY <1>2
<1>4. ASSUME NEW k \in 0 .. n - 1, k \in S PROVE k + 1 \in S
  <2>1. PICK l : l = k + 1 /\ l \in 1 .. n /\ l - 1 = k OBVIOUS
  <2>2. run[l] = Consume(run[k], bytes[l]) BY <1>2, <2>1
  <2>3. run[k] \in States BY <1>4
  <2>4. bytes[l] \in Byte BY <1>1, <2>1
  <2>5. run[l] \in States BY <2>2, <2>3, <2>4, ConsumedType
  <2>. QED BY <2>1, <2>5
<1>5. \A k \in 0 .. n : k \in S
  <2>. HIDE DEF S
  <2>. QED BY <1>3, <1>4, Induction
<1>. QED BY <1>2, <1>5

-----------------------------------------------------------------------------
(* The invariant. *)

Mode == [parser |-> parser, staged |-> staged, committed |-> committed, dirty |-> dirty]
Inv == Mode \in States

LEMMA InitKeeps == Init => Inv
<1>1. NewTree \in Trees BY NewTreeSound, TreesAre
<1>. QED BY <1>1, EmptyParser DEF Init, Inv, Mode, States, AwaitOpcode

LEMMA NextKeeps == Inv /\ [Next]_vars => Inv'
<1>1. ASSUME Inv, NEW txn \in Txns, HandleTxn(txn) PROVE Inv'
  <2>1. PICK bytes : bytes = Arrived(txn) OBVIOUS
  <2>2. bytes \in Seq(Byte)
    <3>1. txn \in Seq(Byte) BY TuiAssumption DEF Byte
    <3>2. PICK l : l = Min({Len(txn), Capacity}) OBVIOUS
    <3>3. l \in Nat /\ l <= Len(txn)
      <4>1. PICK len \in Nat : len = Len(txn) BY <3>1
      <4>2. Capacity \in Nat BY TuiAssumption
      <4>. QED BY <3>2, <4>1, <4>2 DEF Min
    <3>4. bytes = SubSeq(txn, 1, l) BY <2>1, <3>2 DEF Arrived
    <3>. QED BY <3>1, <3>3, <3>4
  <2>3. PICK m \in States : m = Mode BY <1>1 DEF Inv
  <2>4. PICK n \in States : n = Played(m, bytes) BY <2>2, PlayedType
  <2>5. parser' = n.parser /\ staged' = n.staged /\ committed' = n.committed /\ dirty' = n.dirty
    BY <1>1, <2>1, <2>3, <2>4 DEF HandleTxn, Played, Mode
  <2>. QED BY <2>5 DEF Inv, Mode, States
<1>2. ASSUME Reset PROVE Inv'
  <2>1. NewTree \in Trees BY NewTreeSound, TreesAre
  <2>. QED BY <1>2, <2>1, EmptyParser DEF Reset, Inv, Mode, States, AwaitOpcode
<1>3. ASSUME Inv, Render PROVE Inv' BY <1>3 DEF Render, Inv, Mode, States
<1>4. ASSUME Inv, UNCHANGED vars PROVE Inv' BY <1>4 DEF vars, Inv, Mode
<1>. QED BY <1>1, <1>2, <1>3, <1>4 DEF Next

LEMMA Invariance == Spec => []Inv
BY InitKeeps, NextKeeps, PTL DEF Spec

LEMMA InvParts ==
  ASSUME Inv
  PROVE  /\ Sound(staged) /\ Sound(committed) /\ parser \in Parsers /\ dirty \in BOOLEAN
BY TreesAre DEF Inv, Mode, States

\* The trees have the shape of their arrays, the root is never freed, every link
\* is an index of the array, and the parser holds a prefix of a command it knows.
THEOREM TypeCorrect == Spec => []TypeOK
<1>1. ASSUME Inv PROVE TypeOK
  <2>1. /\ Sound(staged) /\ Sound(committed) /\ parser \in Parsers /\ dirty \in BOOLEAN
    BY <1>1, InvParts
  <2>2. ASSUME NEW t, Sound(t)
        PROVE  /\ DOMAIN t = Handles /\ Occupied(t, 0)
               /\ \A h \in Handles : {t[h].parent, t[h].first_child, t[h].next_sibling} \subseteq Handles
    <3>1. Shaped(t) BY <2>2 DEF Sound
    <3>2. DOMAIN t = Handles /\ Occupied(t, 0) BY <3>1 DEF Shaped
    <3>3. ASSUME NEW h \in Handles
          PROVE  {t[h].parent, t[h].first_child, t[h].next_sibling} \subseteq Handles
      <4>1. t[h].parent \in Handles /\ t[h].first_child \in Handles /\ t[h].next_sibling \in Handles
        BY <3>1, ShapedAt
      <4>. QED BY <4>1
    <3>. QED BY <3>2, <3>3
  <2>3. \A t \in {staged, committed} :
          /\ DOMAIN t = Handles /\ Occupied(t, 0)
          /\ \A h \in Handles : {t[h].parent, t[h].first_child, t[h].next_sibling} \subseteq Handles
    BY <2>1, <2>2
  <2>4. PICK buf, k : buf = parser.buf /\ k = parser.remaining OBVIOUS
  <2>5. /\ buf \in Seq(Byte) /\ k \in Nat
        /\ k = 0 /\ buf # <<>> => buf[1] \in DOMAIN Args /\ Len(buf) <= Args[buf[1]]
        /\ k > 0 => Len(buf) = 4 /\ buf[1] = TUI_SET_TEXT
    BY <2>1, <2>4 DEF Parsers
  <2>6. buf # <<>> => buf[1] \in DOMAIN Args /\ Len(buf) <= 1 + Args[buf[1]]
    <3>1. CASE k = 0
      <4>1. \A op \in DOMAIN Args : Args[op] \in Nat BY ArgsAre
      <4>2. Len(buf) \in Nat BY <2>5
      <4>. QED BY <2>5, <3>1, <4>1, <4>2
    <3>2. CASE k > 0
      <4>1. Len(buf) = 4 /\ buf[1] \in DOMAIN Args /\ Args[buf[1]] = 3 BY <2>5, <3>2, ArgsAre
      <4>. QED BY <4>1
    <3>. QED BY <2>5, <3>1, <3>2
  <2>7. k > 0 => Len(buf) = 1 + Args[TUI_SET_TEXT] BY <2>5, ArgsAre
  <2>. QED BY <2>1, <2>3, <2>4, <2>6, <2>7 DEF TypeOK
<1>. QED BY <1>1, Invariance, PTL

\* No sequence of transactions ties the links into a knot: every node is linked
\* to once, and create and remove return whichever node they are called with.
THEOREM CommandsReturn == Spec => []TreeSound
<1>1. Inv => TreeSound BY InvParts, SingleLinks, LoopsDoEnd DEF TreeSound
<1>. QED BY <1>1, Invariance, PTL

-----------------------------------------------------------------------------
(* Transactions of one command. *)

\* tui.s sends each command, with its text, as a transaction of its own.
Command(txn) ==
  \/ txn[1] \in {TUI_ABORT, TUI_COMMIT} /\ Len(txn) = 1
  \/ txn[1] \in DOMAIN Args \ {TUI_SET_TEXT} /\ Len(txn) = 1 + Args[txn[1]]
  \/ txn[1] = TUI_SET_TEXT /\ Len(txn) >= 4 /\ Len(txn) = 4 + Length(txn)

\* None is cut.
WholeCommands == \A txn \in Txns : Command(txn) /\ Len(txn) <= Capacity

\* What the mode applies: the command without its text.
Heads(cmd, txn) ==
  /\ Complete(cmd) /\ Len(cmd) <= Len(txn)
  /\ \A i \in 1 .. Len(cmd) : cmd[i] = txn[i]

LEMMA AwaitsParser ==
  ASSUME NEW m \in States, NEW s, NEW k \in Nat, NEW x, x = Awaits(m, s, k)
  PROVE  x.parser.buf = s /\ x.parser.remaining = k
BY DEF Awaits, States

LEMMA AwaitsAgain ==
  ASSUME NEW m \in States, NEW s, NEW k, NEW r, NEW l
  PROVE  Awaits(Awaits(m, s, k), r, l) = Awaits(m, r, l)
BY DEF Awaits, States

LEMMA CompletesAfter ==
  ASSUME NEW m \in States, NEW s, NEW k, NEW cmd
  PROVE  Completes(Awaits(m, s, k), cmd) = Completes(m, cmd)
BY AwaitsAgain DEF Completes

\* One byte of the arguments, one of the text.
Grown(s, b, cmd) == s \in Seq(Byte) /\ s # <<>> /\ b \in Byte /\ cmd = Append(s, b)
Partial(cmd) == Len(cmd) < 1 + Args[cmd[1]]
TextFollows(cmd) == cmd[1] = TUI_SET_TEXT /\ Length(cmd) > 0

LEMMA ArgumentTaken ==
  ASSUME NEW m \in States, NEW s, NEW b, NEW cmd, Grown(s, b, cmd)
  PROVE  Consume(Awaits(m, s, 0), b) =
           IF Partial(cmd) THEN Awaits(m, cmd, 0)
           ELSE IF TextFollows(cmd) THEN Awaits(m, cmd, Length(cmd))
           ELSE Completes(m, cmd)
<1>1. PICK z \in Nat : z = 0 OBVIOUS
<1>2. PICK x : x = Awaits(m, s, z) OBVIOUS
<1>3. x.parser.buf = s /\ x.parser.remaining = 0 BY <1>1, <1>2, AwaitsParser
<1>4. Awaits(x, cmd, 0) = Awaits(m, cmd, 0) /\ Awaits(x, cmd, Length(cmd)) = Awaits(m, cmd, Length(cmd))
  BY <1>2, AwaitsAgain
<1>5. Completes(x, cmd) = Completes(m, cmd) BY <1>2, CompletesAfter
<1>6. s # <<>> /\ cmd = Append(s, b) BY DEF Grown
<1>7. Consume(x, b) = OnArgument(x, b) BY <1>3, <1>6 DEF Consume
<1>8. OnArgument(x, b) = IF Len(cmd) < 1 + Args[cmd[1]] THEN Awaits(x, cmd, 0)
                         ELSE IF cmd[1] = TUI_SET_TEXT /\ Length(cmd) > 0 THEN Awaits(x, cmd, Length(cmd))
                         ELSE Completes(x, cmd)
  BY <1>3, <1>6 DEF OnArgument
<1>. QED BY <1>1, <1>2, <1>4, <1>5, <1>7, <1>8 DEF Partial, TextFollows

\* The first bytes of a command.
Spelled(b1, b2, b3, b4, s1, s2, s3, cmd) ==
  /\ s1 = <<b1>> /\ Grown(s1, b2, s2) /\ Grown(s2, b3, s3) /\ Grown(s3, b4, cmd)
  /\ s2 \in Seq(Byte) /\ s2 # <<>> /\ Len(s2) = 2 /\ s2[1] = b1 /\ s2[2] = b2
  /\ Len(s3) = 3 /\ s3[1] = b1
  /\ cmd \in Seq(Byte) /\ cmd # <<>> /\ Len(cmd) = 4
  /\ cmd[1] = b1 /\ cmd[2] = b2 /\ cmd[3] = b3 /\ cmd[4] = b4

LEMMA ArgumentBytes ==
  ASSUME NEW b1 \in Byte, NEW b2 \in Byte, NEW b3 \in Byte, NEW b4 \in Byte
  PROVE  \E s1, s2, s3, cmd : Spelled(b1, b2, b3, b4, s1, s2, s3, cmd)
<1>1. PICK s1 : s1 = <<b1>> OBVIOUS
<1>2. PICK s2 : s2 = <<b1, b2>> OBVIOUS
<1>3. PICK s3 : s3 = <<b1, b2, b3>> OBVIOUS
<1>4. PICK cmd : cmd = <<b1, b2, b3, b4>> OBVIOUS
<1>5. Grown(s1, b2, s2) BY <1>1, <1>2 DEF Grown
<1>6. Grown(s2, b3, s3) BY <1>2, <1>3 DEF Grown
<1>7. Grown(s3, b4, cmd) BY <1>3, <1>4 DEF Grown
<1>8. s2 \in Seq(Byte) /\ s2 # <<>> /\ Len(s2) = 2 /\ s2[1] = b1 /\ s2[2] = b2 BY <1>2
<1>9. Len(s3) = 3 /\ s3[1] = b1 BY <1>3
<1>10. /\ cmd \in Seq(Byte) /\ cmd # <<>> /\ Len(cmd) = 4
       /\ cmd[1] = b1 /\ cmd[2] = b2 /\ cmd[3] = b3 /\ cmd[4] = b4
  BY <1>4
<1>. QED BY <1>1, <1>5, <1>6, <1>7, <1>8, <1>9, <1>10 DEF Spelled

LEMMA TextTaken ==
  ASSUME NEW m \in States, NEW s, NEW k \in Nat, k > 0, NEW b
  PROVE  Consume(Awaits(m, s, k), b) = IF k > 1 THEN Awaits(m, s, k - 1) ELSE Completes(m, s)
<1>1. PICK x : x = Awaits(m, s, k) OBVIOUS
<1>2. x.parser.buf = s /\ x.parser.remaining = k BY <1>1, AwaitsParser
<1>3. Awaits(x, s, k - 1) = Awaits(m, s, k - 1) BY <1>1, AwaitsAgain
<1>4. Completes(x, s) = Completes(m, s) BY <1>1, CompletesAfter
<1>5. Consume(x, b) = OnText(x) BY <1>2 DEF Consume
<1>. QED BY <1>1, <1>2, <1>3, <1>4, <1>5 DEF OnText

LEMMA TextPlayed ==
  ASSUME NEW m \in States, NEW s, NEW len \in Nat, len > 0, NEW n \in Nat, n = 4 + len, NEW bytes, NEW run,
         run[4] = Awaits(m, s, len), \A k \in 1 .. n : run[k] = Consume(run[k - 1], bytes[k])
  PROVE  run[n] = Completes(m, s)
<1>0. PICK last \in Nat : last = len - 1 OBVIOUS
<1> DEFINE S == {j \in 0 .. last : run[4 + j] = Awaits(m, s, len - j)}
<1>1. 0 \in S BY <1>0
<1>2. ASSUME NEW j \in 0 .. last - 1, j \in S PROVE j + 1 \in S
  <2>1. PICK k \in Nat : k = len - j /\ k > 1 /\ k - 1 = len - (j + 1) BY <1>0
  <2>2. run[4 + j] = Awaits(m, s, k) BY <1>2, <2>1
  <2>3. PICK i \in 1 .. n : i = 4 + (j + 1) /\ i - 1 = 4 + j BY <1>0
  <2>4. run[i] = Consume(run[4 + j], bytes[i]) BY <2>3
  <2>5. run[i] = Awaits(m, s, k - 1) BY <2>1, <2>2, <2>4, TextTaken
  <2>. QED BY <2>1, <2>3, <2>5
<1>3. \A j \in 0 .. last : j \in S
  <2>. HIDE DEF S
  <2>. QED BY <1>1, <1>2, Induction
<1>4. last \in S BY <1>3
<1>5. PICK one \in Nat : one = 1 /\ len - last = one BY <1>0
<1>6. n \in 1 .. n /\ n - 1 = 4 + last BY <1>0
<1>7. run[n - 1] = Awaits(m, s, one) BY <1>4, <1>5, <1>6
<1>8. run[n] = Consume(Awaits(m, s, one), bytes[n]) BY <1>6, <1>7
<1>. QED BY <1>5, <1>8, TextTaken

LEMMA PlayedCommand ==
  ASSUME NEW m \in States, m.parser = AwaitOpcode, NEW txn \in Seq(Byte), txn # <<>>, Command(txn)
  PROVE  \E cmd : Heads(cmd, txn) /\ Played(m, txn) = Apply(m, cmd)
<1>1. PICK n \in Nat : n = Len(txn) /\ DOMAIN txn = 1 .. n OBVIOUS
<1>2. PICK run : /\ run[0] = m /\ run[n] = Played(m, txn)
                 /\ \A k \in 1 .. n : run[k] = Consume(run[k - 1], txn[k])
  BY <1>1, Run
<1>3. \A cmd : Completes(m, cmd) = Apply(m, cmd)
  <2>1. Awaits(m, <<>>, 0) = m BY DEF Awaits, States, AwaitOpcode
  <2>. QED BY <2>1 DEF Completes
<1>4. PICK b1 \in Byte : b1 = txn[1] BY <1>1
<1>5. run[1] = OnOpcode(m, b1)
  <2>1. n >= 1 BY <1>1
  <2>2. run[1] = Consume(m, b1) BY <1>1, <1>2, <1>4, <2>1
  <2>. QED BY <2>2 DEF Consume, AwaitOpcode
<1>6. CASE b1 \in {TUI_ABORT, TUI_COMMIT}
  <2>1. n = 1 /\ b1 \notin DOMAIN Args
    BY <1>1, <1>4, <1>6, ArgsAre
       DEF Command, TUI_CREATE, TUI_REMOVE, TUI_SET_PROP, TUI_SET_TEXT, TUI_ABORT, TUI_COMMIT
  <2>2. PICK cmd : cmd = <<b1>> OBVIOUS
  <2>3. run[1] = Apply(m, cmd) BY <1>3, <1>5, <1>6, <2>1, <2>2 DEF OnOpcode
  <2>4. cmd \in Seq(Byte) /\ cmd # <<>> /\ Len(cmd) = 1 /\ cmd[1] = b1 BY <2>2
  <2>5. Heads(cmd, txn) BY <1>1, <1>4, <1>6, <2>1, <2>4 DEF Heads, Complete
  <2>. QED BY <1>2, <2>1, <2>3, <2>5
<1>7. CASE b1 \in DOMAIN Args
  <2>1. CASE b1 = TUI_REMOVE
    <3>1. n = 2 /\ Args[b1] = 1 /\ b1 # TUI_SET_TEXT
      BY <1>1, <1>4, <2>1, ArgsAre
         DEF Command, TUI_CREATE, TUI_REMOVE, TUI_SET_PROP, TUI_SET_TEXT, TUI_ABORT, TUI_COMMIT
    <3>2. PICK b2 \in Byte : b2 = txn[2]
      <4>1. 2 \in 1 .. Len(txn) BY <1>1, <3>1
      <4>. QED BY <4>1, ByteAt
    <3>3. PICK s1, cmd : /\ s1 = <<b1>> /\ Grown(s1, b2, cmd)
                         /\ cmd \in Seq(Byte) /\ cmd # <<>> /\ Len(cmd) = 2 /\ cmd[1] = b1 /\ cmd[2] = b2
      BY ArgumentBytes DEF Spelled
    <3>4. run[1] = Awaits(m, s1, 0) BY <1>5, <1>7, <3>3 DEF OnOpcode
    <3>5. run[2] = Consume(Awaits(m, s1, 0), b2) BY <1>2, <3>1, <3>2, <3>4
    <3>6. ~Partial(cmd) /\ ~TextFollows(cmd) BY <3>1, <3>3 DEF Partial, TextFollows
    <3>7. run[2] = Completes(m, cmd) BY <3>3, <3>5, <3>6, ArgumentTaken
    <3>8. Heads(cmd, txn)
      <4>1. Complete(cmd) BY <1>7, <3>1, <3>3 DEF Complete
      <4>2. \A i \in 1 .. 2 : i = 1 \/ i = 2 OBVIOUS
      <4>. QED BY <1>1, <1>4, <3>1, <3>2, <3>3, <4>1, <4>2 DEF Heads
    <3>. QED BY <1>2, <1>3, <3>1, <3>7, <3>8
  <2>2. CASE b1 # TUI_REMOVE
    <3>1. Args[b1] = 3 /\ b1 \notin {TUI_ABORT, TUI_COMMIT}
      BY <1>7, <2>2, ArgsAre
         DEF TUI_CREATE, TUI_REMOVE, TUI_SET_PROP, TUI_SET_TEXT, TUI_ABORT, TUI_COMMIT
    <3>2. n >= 4 /\ (b1 # TUI_SET_TEXT => n = 4) /\ (b1 = TUI_SET_TEXT => n = 4 + Length(txn))
      BY <1>1, <1>4, <3>1 DEF Command
    <3>3. PICK b2 \in Byte, b3 \in Byte, b4 \in Byte : b2 = txn[2] /\ b3 = txn[3] /\ b4 = txn[4]
      BY <1>1, <3>2
    <3>4a. PICK s1, s2, s3, cmd : Spelled(b1, b2, b3, b4, s1, s2, s3, cmd) BY ArgumentBytes
    <3>4. /\ s1 = <<b1>> /\ Grown(s1, b2, s2) /\ Grown(s2, b3, s3) /\ Grown(s3, b4, cmd)
          /\ Len(s2) = 2 /\ s2[1] = b1 /\ Len(s3) = 3 /\ s3[1] = b1
          /\ cmd \in Seq(Byte) /\ cmd # <<>> /\ Len(cmd) = 4
          /\ cmd[1] = b1 /\ cmd[2] = b2 /\ cmd[3] = b3 /\ cmd[4] = b4
      BY <3>4a DEF Spelled
    <3>5. run[2] = Consume(run[1], b2) /\ run[3] = Consume(run[2], b3) /\ run[4] = Consume(run[3], b4)
      BY <1>2, <3>2, <3>3
    <3>6. Partial(s2) /\ Partial(s3) /\ ~Partial(cmd) BY <3>1, <3>4 DEF Partial
    <3>7. run[1] = Awaits(m, s1, 0) BY <1>5, <1>7, <3>4 DEF OnOpcode
    <3>8. run[2] = Awaits(m, s2, 0) BY <3>4, <3>5, <3>6, <3>7, ArgumentTaken
    <3>9. run[3] = Awaits(m, s3, 0) BY <3>4, <3>5, <3>6, <3>8, ArgumentTaken
    <3>10. run[4] = Consume(Awaits(m, s3, 0), b4) BY <3>5, <3>9
    <3>11. run[4] = IF TextFollows(cmd) THEN Awaits(m, cmd, Length(cmd)) ELSE Completes(m, cmd)
      BY <3>4, <3>6, <3>10, ArgumentTaken
    <3>12. Heads(cmd, txn)
      <4>1. Complete(cmd) BY <1>7, <3>1, <3>4 DEF Complete
      <4>2. \A i \in 1 .. 4 : i = 1 \/ i = 2 \/ i = 3 \/ i = 4 OBVIOUS
      <4>3. \A i \in 1 .. 4 : cmd[i] = txn[i] BY <1>4, <3>3, <3>4, <4>2
      <4>. QED BY <1>1, <3>2, <3>4, <4>1, <4>3 DEF Heads
    <3>13. PICK len : len = Length(cmd) OBVIOUS
    <3>14. len = Length(txn) /\ len \in Nat
      <4>1. len = b3 + 256 * b4 BY <3>4, <3>13 DEF Length
      <4>. QED BY <3>3, <4>1, LengthIs DEF Length
    <3>15. CASE TextFollows(cmd)
      <4>1. b1 = TUI_SET_TEXT /\ len > 0 BY <3>4, <3>13, <3>15 DEF TextFollows
      <4>2. n = 4 + len BY <3>2, <3>14, <4>1
      <4>3. run[4] = Awaits(m, cmd, len) BY <3>11, <3>13, <3>15
      <4>4. \A k \in 1 .. n : run[k] = Consume(run[k - 1], txn[k]) BY <1>2
      <4>5. run[n] = Completes(m, cmd) BY <3>14, <4>1, <4>2, <4>3, <4>4, TextPlayed
      <4>. QED BY <1>2, <1>3, <3>12, <4>5
    <3>16. CASE ~TextFollows(cmd)
      <4>1. ~(b1 = TUI_SET_TEXT /\ len > 0) BY <3>4, <3>13, <3>16 DEF TextFollows
      <4>2. n = 4 BY <3>2, <3>14, <4>1
      <4>3. run[4] = Completes(m, cmd) BY <3>11, <3>16
      <4>. QED BY <1>2, <1>3, <3>12, <4>2, <4>3
    <3>. QED BY <3>15, <3>16
  <2>. QED BY <2>1, <2>2
<1>. QED BY <1>4, <1>6, <1>7, ArgsAre DEF Command
\* A transaction that arrives whole is one command for the mode.
LEMMA PlayedStep ==
  ASSUME Inv, NEW txn, HandleTxn(txn), NEW bytes \in Seq(Byte), bytes = Arrived(txn)
  PROVE  Mode' = Played(Mode, bytes)
<1>1. PICK m \in States : m = Mode BY DEF Inv
<1>2. PICK n \in States : n = Played(m, bytes) BY PlayedType
<1>3. parser' = n.parser /\ staged' = n.staged /\ committed' = n.committed /\ dirty' = n.dirty
  BY <1>1, <1>2 DEF HandleTxn, Played, Mode
<1>4. n = [parser |-> n.parser, staged |-> n.staged, committed |-> n.committed, dirty |-> n.dirty]
  BY DEF States
<1>. QED BY <1>1, <1>2, <1>3, <1>4 DEF Mode

LEMMA ArrivedWhole ==
  ASSUME NEW txn \in Seq(Byte), Len(txn) <= Capacity
  PROVE  Arrived(txn) = txn
<1>1. PICK len \in Nat : len = Len(txn) OBVIOUS
<1>2. Capacity \in Nat BY TuiAssumption
<1>3. PICK l : l = Min({len, Capacity}) OBVIOUS
<1>4. l = len BY <1>1, <1>2, <1>3 DEF Min
<1>5. Arrived(txn) = SubSeq(txn, 1, len) BY <1>1, <1>3, <1>4 DEF Arrived
<1>. QED BY <1>1, <1>5

LEMMA OneCommand ==
  ASSUME Inv, parser = AwaitOpcode, NEW txn \in Seq(Byte), txn # <<>>, Command(txn),
         Len(txn) <= Capacity, HandleTxn(txn)
  PROVE  \E cmd : Heads(cmd, txn) /\ Mode' = Apply(Mode, cmd)
<1>1. Mode' = Played(Mode, txn) BY ArrivedWhole, PlayedStep
<1>2. Mode \in States /\ Mode.parser = AwaitOpcode BY DEF Inv, Mode
<1>. QED BY <1>1, <1>2, PlayedCommand

\* What a command does to the staged tree.
Edited(t, w) ==
  \/ \E h \in Byte, p \in Byte, kind \in Byte : w = Created(t, h, p, kind)
  \/ \E h : w = Removed(t, h)
  \/ SameLinks(t, w)

LEMMA StagedEdited ==
  ASSUME NEW m \in States, NEW cmd, Complete(cmd), NEW n, n = Apply(m, cmd)
  PROVE  n.parser = m.parser /\ (n.staged = m.committed \/ Edited(m.staged, n.staged))
<1>1. cmd[1] \in {TUI_CREATE, TUI_REMOVE, TUI_SET_PROP, TUI_SET_TEXT, TUI_ABORT, TUI_COMMIT}
  BY ArgsAre DEF Complete
<1>2. PICK t \in Trees : t = m.staged BY DEF States
<1>3. Sound(t) BY TreesAre
<1>4. cmd \in Seq(Byte) /\ cmd # <<>> BY DEF Complete
<1>5. ASSUME NEW w, n = [m EXCEPT !.staged = w] PROVE n.parser = m.parser /\ n.staged = w
  BY <1>5 DEF States
<1>6. CASE cmd[1] = TUI_CREATE
  <2>1. Len(cmd) = 4 BY <1>6, ArgsAre DEF Complete, TUI_CREATE, TUI_ABORT, TUI_COMMIT
  <2>2. cmd[2] \in Byte /\ cmd[3] \in Byte /\ cmd[4] \in Byte BY <1>4, <2>1, ArgumentsAre
  <2>3. PICK w : w = Created(t, cmd[2], cmd[3], cmd[4]) OBVIOUS
  <2>4. n = [m EXCEPT !.staged = w] BY <1>2, <1>6, <2>3 DEF Apply, TUI_CREATE,
          TUI_REMOVE, TUI_SET_PROP, TUI_SET_TEXT, TUI_ABORT, TUI_COMMIT
  <2>. QED BY <1>2, <1>5, <2>2, <2>3, <2>4 DEF Edited
<1>7. CASE cmd[1] = TUI_REMOVE
  <2>1. PICK w : w = Removed(t, cmd[2]) OBVIOUS
  <2>2. n = [m EXCEPT !.staged = w] BY <1>2, <1>7, <2>1 DEF Apply, TUI_CREATE,
          TUI_REMOVE, TUI_SET_PROP, TUI_SET_TEXT, TUI_ABORT, TUI_COMMIT
  <2>. QED BY <1>2, <1>5, <2>1, <2>2 DEF Edited
<1>8. CASE cmd[1] = TUI_SET_PROP
  <2>1. Len(cmd) = 4 BY <1>8, ArgsAre DEF Complete, TUI_SET_PROP, TUI_ABORT, TUI_COMMIT
  <2>2. cmd[2] \in Byte /\ cmd[3] \in Byte /\ cmd[4] \in Byte BY <1>4, <2>1, ArgumentsAre
  <2>3. PICK w : w = WithProp(t, cmd[2], cmd[3], cmd[4]) OBVIOUS
  <2>4. SameLinks(t, w) BY <1>3, <2>2, <2>3, WithPropLinks
  <2>5. n = [m EXCEPT !.staged = w] BY <1>2, <1>8, <2>3 DEF Apply, TUI_CREATE,
          TUI_REMOVE, TUI_SET_PROP, TUI_SET_TEXT, TUI_ABORT, TUI_COMMIT
  <2>. QED BY <1>2, <1>5, <2>4, <2>5 DEF Edited
<1>9. CASE cmd[1] = TUI_SET_TEXT
  <2>1. Len(cmd) = 4 BY <1>9, ArgsAre DEF Complete, TUI_SET_TEXT, TUI_ABORT, TUI_COMMIT
  <2>2. cmd[3] \in Byte /\ cmd[4] \in Byte BY <1>4, <2>1, ArgumentsAre
  <2>3. PICK w, len : len = Length(cmd) /\ w = WithText(t, cmd[2], len) OBVIOUS
  <2>4. len \in Word BY <2>2, <2>3, LengthIs DEF Length
  <2>5. SameLinks(t, w) BY <1>3, <2>3, <2>4, WithTextLinks
  <2>6. n = [m EXCEPT !.staged = w] BY <1>2, <1>9, <2>3 DEF Apply, TUI_CREATE,
          TUI_REMOVE, TUI_SET_PROP, TUI_SET_TEXT, TUI_ABORT, TUI_COMMIT
  <2>. QED BY <1>2, <1>5, <2>5, <2>6 DEF Edited
<1>10. CASE cmd[1] = TUI_ABORT
  <2>1. n = [m EXCEPT !.staged = m.committed, !.dirty = TRUE] BY <1>10 DEF Apply, TUI_CREATE,
          TUI_REMOVE, TUI_SET_PROP, TUI_SET_TEXT, TUI_ABORT, TUI_COMMIT
  <2>. QED BY <2>1 DEF States
<1>11. CASE cmd[1] = TUI_COMMIT
  <2>1. n = [m EXCEPT !.committed = m.staged, !.dirty = TRUE] BY <1>11 DEF Apply, TUI_CREATE,
          TUI_REMOVE, TUI_SET_PROP, TUI_SET_TEXT, TUI_ABORT, TUI_COMMIT
  <2>2. n.parser = m.parser /\ n.staged = m.staged BY <2>1 DEF States
  <2>. QED BY <1>2, <1>3, <2>2, ItsLinks DEF Edited
<1>. QED BY <1>1, <1>6, <1>7, <1>8, <1>9, <1>10, <1>11

\* Between transactions the parser waits for a command.
Waiting == Inv /\ parser = AwaitOpcode

LEMMA TxnsAre ==
  ASSUME WholeCommands, NEW txn \in Txns
  PROVE  txn \in Seq(Byte) /\ txn # <<>> /\ Command(txn) /\ Len(txn) <= Capacity
BY TuiAssumption DEF WholeCommands, Byte

LEMMA HandledEdited ==
  ASSUME WholeCommands, Waiting, NEW txn \in Txns, HandleTxn(txn)
  PROVE  parser' = AwaitOpcode /\ (staged' = committed \/ Edited(staged, staged'))
<1>1. PICK cmd : Heads(cmd, txn) /\ Mode' = Apply(Mode, cmd) BY TxnsAre, OneCommand DEF Waiting
<1>2. PICK m, n : m = Mode /\ n = Mode' OBVIOUS
<1>3. m \in States /\ Complete(cmd) /\ n = Apply(m, cmd) BY <1>1, <1>2 DEF Waiting, Inv, Heads
<1>4. n.parser = m.parser /\ (n.staged = m.committed \/ Edited(m.staged, n.staged))
  BY <1>3, StagedEdited
<1>5. /\ m.parser = parser /\ m.staged = staged /\ m.committed = committed
      /\ n.parser = parser' /\ n.staged = staged'
  BY <1>2 DEF Mode
<1>. QED BY <1>4, <1>5 DEF Waiting

LEMMA WaitingHolds == ASSUME WholeCommands PROVE Spec => []Waiting
<1>1. Init => Waiting BY InitKeeps DEF Init, Waiting
<1>2. Waiting /\ [Next]_vars => Waiting'
  <2>1. ASSUME Waiting, [Next]_vars PROVE Inv' BY <2>1, NextKeeps DEF Waiting
  <2>2. ASSUME Waiting, NEW txn \in Txns, HandleTxn(txn) PROVE parser' = AwaitOpcode'
    BY <2>2, HandledEdited DEF AwaitOpcode
  <2>3. ASSUME Waiting, Reset \/ Render \/ UNCHANGED vars PROVE parser' = AwaitOpcode'
    BY <2>3 DEF Waiting, Reset, Render, vars, AwaitOpcode
  <2>. QED BY <2>1, <2>2, <2>3 DEF Waiting, Next
<1>. QED BY <1>1, <1>2, PTL DEF Spec

-----------------------------------------------------------------------------
(* What is lost. *)

\* The nodes below h are those that links lead to.
LEMMA LinkedBelow ==
  ASSUME NEW t, NEW h, NEW n \in Named
  PROVE  /\ Child(t, h, n) => n \in Below(t, h)
         /\ \A x \in Below(t, h) : Leads(t, x, n) => n \in Below(t, h)
BY BelowStart, BelowStep DEF Leads, Child, Sibling

LEMMA BelowClosed ==
  ASSUME NEW t, Shaped(t), NEW h \in Handles, Occupied(t, h),
         NEW S, S \subseteq Named, \A x \in S : Occupied(t, x),
         \A n \in Named : Child(t, h, n) => n \in S,
         \A x \in S : \A n \in Named : Leads(t, x, n) => n \in S
  PROVE  Below(t, h) \subseteq S
<1>1. t[h].first_child \in S \cup {0} BY LinkAt
<1>2. ASSUME NEW x \in S
      PROVE  t[x].first_child \in S \cup {0} /\ t[x].next_sibling \in S \cup {0}
  <2>1. x \in Handles /\ Occupied(t, x) BY HandlesAre
  <2>. QED BY <2>1, LinkAt DEF Leads
<1>. QED BY <1>1, <1>2, BelowWithin

\* What goes with h was below it.
LEMMA PrunedBelow ==
  ASSUME NEW t, Sound(t), NEW h \in Named, Occupied(t, h), NEW u, Sound(u), Spliced(t, h, u)
  PROVE  Below(u, h) \subseteq Below(t, h)
<1>1. h \in Handles /\ Shaped(t) /\ Kinship(t) /\ Shaped(u) BY HandlesAre DEF Sound
<1>2. \A x \in Below(t, h) : x \in Named /\ x \in Handles /\ Occupied(t, x)
  BY <1>1, BelowOccupied, HandlesAre
<1>3. Occupied(u, h) /\ \A x \in Below(t, h) : Occupied(u, x) BY <1>1, <1>2 DEF Spliced
<1>4. ASSUME NEW m \in Handles, NEW n \in Named, Leads(u, m, n)
      PROVE  \/ Child(t, m, n) \/ (m # h /\ Sibling(t, m, n))
             \/ Child(t, m, h) /\ Sibling(t, h, n)
             \/ m # h /\ Sibling(t, m, h) /\ Sibling(t, h, n)
  BY <1>4 DEF Leads, Spliced
<1>5. ASSUME NEW n \in Named, Child(u, h, n) PROVE n \in Below(t, h)
  <2>1. Child(t, h, n) \/ (Child(t, h, h) /\ Sibling(t, h, n)) BY <1>1, <1>4, <1>5 DEF Leads
  <2>. QED BY <2>1, LinkedBelow DEF Leads
<1>6. ASSUME NEW x \in Below(t, h), NEW n \in Named, Leads(u, x, n) PROVE n \in Below(t, h)
  <2>1. Leads(t, x, n) \/ (Leads(t, x, h) /\ Leads(t, h, n)) BY <1>2, <1>4, <1>6 DEF Leads
  <2>. QED BY <2>1, LinkedBelow
<1>. QED BY <1>1, <1>2, <1>3, <1>5, <1>6, BelowClosed

LEMMA RemovedKeeps ==
  ASSUME NEW t, Sound(t), NEW h \in Named, NEW v, v = Removed(t, h),
         NEW p \in Handles, Occupied(t, p), p \notin Below(t, h) \cup {h}
  PROVE  Occupied(v, p)
<1>1. CASE ~Occupied(t, h) BY <1>1 DEF Removed
<1>2. CASE Occupied(t, h)
  <2>1. PICK u : Sound(u) /\ Spliced(t, h, u) /\ v = Pruned(u, h) BY <1>2, RemovedPrunes
  <2>2. p \notin Below(u, h) \cup {h} BY <1>2, <2>1, PrunedBelow
  <2>3. v[p] = u[p] BY <2>1, <2>2 DEF Pruned
  <2>. QED BY <2>1, <2>3 DEF Spliced, Occupied
<1>. QED BY <1>1, <1>2

\* What stays hangs from the root: where a node went, the link skips it.
LEMMA RemovedRooted ==
  ASSUME NEW t, Sound(t), Rooted(t), NEW h, NEW v, v = Removed(t, h)
  PROVE  Rooted(v)
<1>1. CASE h \notin Named \/ ~Occupied(t, h) BY <1>1 DEF Removed
<1>2. CASE h \in Named /\ Occupied(t, h)
  <2>1. PICK u : Sound(u) /\ Spliced(t, h, u) /\ v = Pruned(u, h) BY <1>2, RemovedPrunes
  <2>2. Sound(v) BY RemovedSound
  <2>3. PICK F : F = Below(u, h) \cup {h} OBVIOUS
  <2>4. PICK S : S = Below(v, 0) OBVIOUS
  <2>5. 0 \in Handles /\ h \in Handles /\ h # 0 BY <1>2, HandlesAre
  <2>6. /\ Shaped(t) /\ Kinship(t) /\ Queued(t) /\ Shaped(u) /\ Kinship(u) /\ Shaped(v) /\ Kinship(v)
        /\ Occupied(t, 0) /\ Occupied(v, 0)
    BY <2>1, <2>2 DEF Sound, Shaped
  <2>7. \A m \in Handles : Occupied(u, m) <=> Occupied(t, m) BY <2>1 DEF Spliced
  <2>8. \A x \in F : x \in Named /\ x \in Handles /\ Occupied(t, x)
    BY <1>2, <2>3, <2>5, <2>6, <2>7, BelowOccupied, HandlesAre
  <2>9. \A m \in Handles : Occupied(v, m) <=> m \notin F /\ Occupied(t, m)
    BY <2>1, <2>3, <2>7, EmptyNodeType DEF Pruned, Occupied, NODE_FREE
  <2>10. \A x \in S : x \in Named /\ x \in Handles /\ Occupied(t, x) /\ x \notin F
    BY <2>4, <2>5, <2>6, <2>9, BelowOccupied, HandlesAre
  <2>11. 0 \notin F BY <2>8, HandlesAre
  <2>12. ASSUME NEW m \in S \cup {0}, NEW n \in Named, Leads(u, m, n), m = 0 => Child(u, m, n)
         PROVE  n \in S
    <3>1. m \in Handles /\ m \notin F BY <2>5, <2>10, <2>11
    <3>2. u[h].next_sibling = 0 /\ \A l \in Handles : ~Leads(u, l, h) BY <2>1 DEF Spliced
    <3>3. Occupied(u, h) BY <1>2, <2>5, <2>7
    <3>4. n \notin F BY <1>2, <2>1, <2>3, <2>12, <3>1, <3>2, <3>3, NothingDangles
    <3>5. v[m] = u[m] BY <2>1, <2>3, <3>1 DEF Pruned
    <3>6. Child(u, m, n) => Child(v, m, n) BY <3>5 DEF Child, Occupied
    <3>7. Sibling(u, m, n) => Sibling(v, m, n) BY <3>5 DEF Sibling, Occupied
    <3>8. CASE m = 0 BY <2>4, <2>12, <3>6, <3>8, LinkedBelow
    <3>9. CASE m \in S BY <2>4, <2>12, <3>6, <3>7, <3>9, LinkedBelow DEF Leads
    <3>. QED BY <3>8, <3>9
  \* Links of t that do not touch h are links of u.
  <2>13. \A m \in Handles, n \in Named :
           /\ n # h /\ Child(t, m, n) => Child(u, m, n)
           /\ m # h /\ n # h /\ Sibling(t, m, n) => Sibling(u, m, n)
           /\ Child(t, m, h) /\ Sibling(t, h, n) => Child(u, m, n)
           /\ m # h /\ Sibling(t, m, h) /\ Sibling(t, h, n) => Sibling(u, m, n)
    BY <2>1 DEF Spliced
  <2>14. \A n \in Named : ~Sibling(t, 0, n)
    BY <2>5, <2>6, HandlesAre DEF Queued, Sibling
  <2>15. ASSUME NEW m \in S \cup {0}, NEW n \in Named, Leads(t, m, n), n # h PROVE n \in S
    <3>1. m \in Handles /\ m # h BY <2>3, <2>5, <2>10
    <3>2. Leads(u, m, n) /\ (m = 0 => Child(u, m, n)) BY <2>13, <2>14, <2>15, <3>1 DEF Leads
    <3>. QED BY <2>12, <3>2
  <2>16. Below(t, 0) \subseteq S \cup F
    <3>1. CASE \E m \in S \cup {0} : Leads(t, m, h)
      <4>1. PICK m \in S \cup {0} : Leads(t, m, h) BY <3>1
      <4>2. m \in Handles /\ m # h BY <2>3, <2>5, <2>10
      <4>3. ASSUME NEW n \in Named, Sibling(t, h, n) PROVE n \in S
        <5>1. Leads(u, m, n) /\ (m = 0 => Child(u, m, n))
          BY <1>2, <2>13, <2>14, <4>1, <4>2, <4>3 DEF Leads
        <5>. QED BY <2>12, <5>1
      <4>4. ASSUME NEW x \in F, NEW n \in Named, Leads(t, x, n) PROVE n \in S \cup F
        <5>1. CASE n = h BY <2>3, <5>1
        <5>2. CASE n # h /\ x = h
          <6>1. CASE Sibling(t, h, n) BY <4>3, <6>1
          <6>2. CASE Child(t, h, n)
            <7>1. Child(u, h, n) BY <2>5, <2>13, <5>2, <6>2
            <7>. QED BY <2>3, <7>1, LinkedBelow
          <6>. QED BY <4>4, <5>2, <6>1, <6>2 DEF Leads
        <5>3. CASE n # h /\ x # h
          <6>1. Leads(u, x, n) BY <2>8, <2>13, <4>4, <5>3 DEF Leads
          <6>2. x \in Below(u, h) BY <2>3, <5>3
          <6>. QED BY <2>3, <6>1, <6>2, LinkedBelow
        <5>. QED BY <5>1, <5>2, <5>3
      <4>5. ASSUME NEW x \in S \cup {0}, NEW n \in Named, Leads(t, x, n) PROVE n \in S \cup F
        BY <2>3, <2>15, <4>5
      <4>6. PICK T : T = S \cup F OBVIOUS
      <4>7. T \subseteq Named /\ \A x \in T : Occupied(t, x) BY <2>8, <2>10, <4>6
      <4>8. \A n \in Named : Child(t, 0, n) => n \in T BY <4>5, <4>6 DEF Leads
      <4>9. \A x \in T : \A n \in Named : Leads(t, x, n) => n \in T BY <4>4, <4>5, <4>6
      <4>. QED BY <2>5, <2>6, <4>6, <4>7, <4>8, <4>9, BelowClosed
    <3>2. CASE \A m \in S \cup {0} : ~Leads(t, m, h)
      <4>1. \A m \in S \cup {0} : \A n \in Named : Leads(t, m, n) => n \in S BY <2>15, <3>2
      <4>2. S \subseteq Named /\ \A x \in S : Occupied(t, x) BY <2>10
      <4>3. \A n \in Named : Child(t, 0, n) => n \in S BY <4>1 DEF Leads
      <4>. QED BY <2>5, <2>6, <4>1, <4>2, <4>3, BelowClosed
    <3>. QED BY <3>1, <3>2
  <2>17. ASSUME NEW n \in Named, Occupied(v, n) PROVE n \in Below(v, 0)
    <3>1. n \in Handles /\ n \notin F /\ Occupied(t, n) BY <2>9, <2>17, HandlesAre
    <3>. QED BY <2>4, <2>16, <3>1 DEF Rooted
  <2>. QED BY <2>17 DEF Rooted
<1>. QED BY <1>1, <1>2

LEMMA LinkedRooted ==
  ASSUME NEW v, Sound(v), Rooted(v), NEW h \in Named, ~Occupied(v, h),
         NEW p \in Handles, Occupied(v, p), NEW w, Sound(w), Hung(v, h, p, w)
  PROVE  Rooted(w)
<1>1. 0 \in Handles /\ h \in Handles /\ h # 0 /\ p # h BY HandlesAre
<1>2. PICK S : S = Below(w, 0) OBVIOUS
<1>3. /\ Shaped(v) /\ Kinship(v) /\ Queued(v) /\ Shaped(w) /\ Kinship(w)
      /\ Occupied(v, 0) /\ Occupied(w, 0)
  BY DEF Sound, Shaped
<1>4. \A m \in Handles : Occupied(w, m) <=> (m = h \/ Occupied(v, m)) BY DEF Hung
<1>5. Child(w, p, h) /\ \A n \in Named : Child(v, p, n) => Sibling(w, h, n)
  BY <1>1, <1>4 DEF Hung, Child, Sibling
<1>6. \A m \in Handles, n \in Named :
        /\ m # p /\ m # h /\ Child(v, m, n) => Child(w, m, n)
        /\ m # h /\ Sibling(v, m, n) => Sibling(w, m, n)
  BY <1>4 DEF Hung, Sibling
<1>7. \A n \in Named : ~Sibling(v, 0, n) BY <1>1, <1>3, HandlesAre DEF Queued, Sibling
<1>8. p \in S \cup {0} => h \in S BY <1>2, <1>5, LinkedBelow DEF Leads
<1>9. ASSUME NEW m \in S \cup {0}, NEW n \in Named, Leads(v, m, n) PROVE n \in S
  <2>1. m \in Handles /\ m # h
    <3>1. Occupied(v, m) BY <1>9 DEF Leads, Child, Sibling
    <3>. QED BY <3>1 DEF Occupied
  <2>2. CASE m = p /\ Child(v, p, n)
    <3>1. Sibling(w, h, n) /\ h \in S BY <1>5, <1>8, <2>2
    <3>. QED BY <1>2, <3>1, LinkedBelow DEF Leads
  <2>3. CASE ~(m = p /\ Child(v, p, n))
    <3>1. Leads(w, m, n) /\ (m = 0 => Child(w, m, n)) BY <1>6, <1>7, <1>9, <2>1, <2>3 DEF Leads
    <3>. QED BY <1>2, <3>1, LinkedBelow
  <2>. QED BY <2>2, <2>3
<1>10. PICK T : T = {x \in S : Occupied(v, x)} OBVIOUS
<1>11. T \subseteq Named BY <1>1, <1>2, <1>3, <1>10, BelowOccupied
<1>12. ASSUME NEW m \in T \cup {0}, NEW n \in Named, Leads(v, m, n) PROVE n \in T
  <2>1. n \in S BY <1>9, <1>10, <1>12
  <2>2. m \in Handles BY <1>1, <1>11, HandlesAre
  <2>3. Occupied(v, n) BY <1>3, <1>12, <2>2 DEF Kinship, Leads
  <2>. QED BY <1>10, <2>1, <2>3
<1>13. Below(v, 0) \subseteq T
  <2>1. \A x \in T : Occupied(v, x) BY <1>10
  <2>2. \A n \in Named : Child(v, 0, n) => n \in T BY <1>12 DEF Leads
  <2>3. \A x \in T : \A n \in Named : Leads(v, x, n) => n \in T BY <1>12
  <2>. QED BY <1>1, <1>3, <1>11, <2>1, <2>2, <2>3, BelowClosed
<1>14. \A n \in Named : Occupied(v, n) => n \in S BY <1>10, <1>13 DEF Rooted
<1>15. h \in S BY <1>8, <1>14, HandlesAre
<1>16. ASSUME NEW n \in Named, Occupied(w, n) PROVE n \in Below(w, 0)
  BY <1>2, <1>4, <1>14, <1>15, <1>16, HandlesAre
<1>. QED BY <1>16 DEF Rooted

LEMMA SameLinksRooted ==
  ASSUME NEW t, Sound(t), Rooted(t), NEW w, SameLinks(t, w)
  PROVE  Rooted(w)
<1>1. 0 \in Handles BY HandlesAre
<1>2. Shaped(t) /\ Kinship(t) /\ Occupied(t, 0) BY DEF Sound, Shaped
<1>3. PICK S : S = {x \in Below(w, 0) : Occupied(t, x)} OBVIOUS
<1>4. S \subseteq Named BY <1>3 DEF Below
<1>5. ASSUME NEW n \in Named, Child(t, 0, n) PROVE n \in S
  BY <1>1, <1>2, <1>3, <1>5, LinksAreSame, LinkedBelow DEF Kinship
<1>6. ASSUME NEW x \in S, NEW n \in Named, Leads(t, x, n) PROVE n \in S
  <2>1. x \in Handles BY <1>4, HandlesAre
  <2>2. Leads(w, x, n) /\ Occupied(t, n) BY <1>2, <1>6, <2>1, LinksAreSame DEF Kinship, Leads
  <2>. QED BY <1>3, <2>2, LinkedBelow
<1>7. Below(t, 0) \subseteq S
  <2>1. \A x \in S : Occupied(t, x) BY <1>3
  <2>. QED BY <1>1, <1>2, <1>4, <1>5, <1>6, <2>1, BelowClosed
<1>8. ASSUME NEW n \in Named, Occupied(w, n) PROVE n \in Below(w, 0)
  <2>1. Occupied(t, n) BY <1>8, LinksAreSame, HandlesAre
  <2>. QED BY <1>3, <1>7, <2>1 DEF Rooted
<1>. QED BY <1>8 DEF Rooted

LEMMA NewTreeRooted == Rooted(NewTree)
<1>1. \A n \in Named : ~Occupied(NewTree, n) BY HandlesAre, EmptyNodeType DEF NewTree, Occupied, NODE_FREE
<1>. QED BY <1>1 DEF Rooted

\* Only a create can lose nodes: when its parent is the node or was below it.
LEMMA EditedRooted ==
  ASSUME NEW t, Sound(t), Rooted(t), NEW w, Edited(t, w), ~Rooted(w)
  PROVE  \E h \in Named : Occupied(w, h) /\ w[h].parent \in Below(t, h) \cup {h}
<1>1. ~SameLinks(t, w) BY SameLinksRooted
<1>2. \A h : w # Removed(t, h) BY RemovedRooted
<1>3. PICK h \in Byte, p \in Byte, kind \in Byte : w = Created(t, h, p, kind) BY <1>1, <1>2 DEF Edited
<1>4. h \in Named /\ Occupied(t, p) /\ kind # NODE_FREE BY <1>3 DEF Created
<1>5. p \in Handles /\ kind # 0 /\ h \in Handles BY <1>4, HandlesAre DEF Occupied, NODE_FREE
<1>6. PICK v : v = Removed(t, h) OBVIOUS
<1>7. Sound(v) /\ ~Occupied(v, h) /\ Rooted(v) BY <1>4, <1>6, RemovedSound, RemovedRooted
<1>8. w = Linked(v, h, p, kind) BY <1>3, <1>4, <1>6 DEF Created
<1>9. v \in [Handles -> Nodes] BY <1>7 DEF Sound, Shaped
<1>10. Hung(v, h, p, w) BY <1>4, <1>5, <1>8, <1>9, LinkedHangs
<1>11. Occupied(w, h) /\ w[h].parent = p BY <1>5, <1>10 DEF Hung
<1>12. CASE p \in Below(t, h) \cup {h} BY <1>4, <1>11, <1>12
<1>13. CASE p \notin Below(t, h) \cup {h}
  <2>1. Occupied(v, p) BY <1>4, <1>5, <1>6, <1>13, RemovedKeeps
  <2>2. Sound(w) BY <1>4, <1>5, <1>7, <1>8, <2>1, LinkedSound
  <2>. QED BY <1>4, <1>5, <1>7, <1>10, <2>1, <2>2, LinkedRooted
<1>. QED BY <1>12, <1>13

\* Programs that send each command whole lose nodes only when a create names as
\* the parent the node itself or one below it.
THEOREM LostUnderItself == ASSUME WholeCommands PROVE Spec => LostOnlyUnderItself
<1> DEFINE Lost == Rooted(staged) /\ Rooted(committed) /\ ~Rooted(staged')
           Under == \E h \in Named : Occupied(staged', h) /\ staged'[h].parent \in Below(staged, h) \cup {h}
<1>1. ASSUME Waiting, [Next]_vars PROVE [Lost => Under]_vars
  <2>1. SUFFICES ASSUME Lost PROVE Under OBVIOUS
  <2>2. Sound(staged) BY <1>1, InvParts DEF Waiting
  <2>3. ASSUME NEW txn \in Txns, HandleTxn(txn) PROVE Under
    <3>1. staged' = committed \/ Edited(staged, staged') BY <1>1, <2>3, HandledEdited
    <3>2. Edited(staged, staged') BY <2>1, <3>1
    <3>. QED BY <2>1, <2>2, <3>2, EditedRooted
  <2>4. CASE Reset BY <2>1, <2>4, NewTreeRooted DEF Reset
  <2>5. CASE Render \/ UNCHANGED vars
    <3>1. staged' = staged BY <2>5 DEF Render, vars
    <3>. QED BY <2>1, <3>1
  <2>. QED BY <1>1, <2>3, <2>4, <2>5 DEF Next
<1>. QED BY <1>1, WaitingHolds, PTL DEF Spec, LostOnlyUnderItself

\* To programs that send each command whole, what tui.s says of a commit holds:
\* the staged tree becomes the committed one. (Where a text is cut, the commit
\* that follows can be taken for the rest of it.)
THEOREM WholeCommitApplies == ASSUME WholeCommands PROVE Spec => CommitApplies
<1>1. ASSUME Waiting, HandleTxn(<<TUI_COMMIT>>) PROVE committed' = staged /\ staged' = staged
  <2>1. PICK b \in Byte : b = TUI_COMMIT BY DEF Byte, TUI_COMMIT
  <2>2. PICK txn \in Seq(Byte) : txn = <<b>> /\ txn # <<>> /\ Len(txn) = 1 /\ txn[1] = b
    <3>1. PICK s : s = <<b>> OBVIOUS
    <3>2. s \in Seq(Byte) /\ s # <<>> /\ Len(s) = 1 /\ s[1] = b BY <3>1
    <3>. QED BY <3>1, <3>2
  <2>3. Command(txn) BY <2>1, <2>2 DEF Command
  <2>4. Len(txn) <= Capacity BY <2>2, TuiAssumption
  <2>5. PICK cmd : Heads(cmd, txn) /\ Mode' = Apply(Mode, cmd)
    BY <1>1, <2>1, <2>2, <2>3, <2>4, OneCommand DEF Waiting
  <2>6. cmd[1] = TUI_COMMIT
    <3>1. cmd \in Seq(Byte) /\ cmd # <<>> BY <2>5 DEF Heads, Complete
    <3>2. 1 \in 1 .. Len(cmd) BY <3>1
    <3>. QED BY <2>1, <2>2, <2>5, <3>2 DEF Heads
  <2>7. PICK m \in States : m = Mode BY <1>1 DEF Waiting, Inv
  <2>8. Mode' = [m EXCEPT !.committed = m.staged, !.dirty = TRUE] BY <2>5, <2>6, <2>7 DEF Apply, TUI_CREATE,
          TUI_REMOVE, TUI_SET_PROP, TUI_SET_TEXT, TUI_ABORT, TUI_COMMIT
  <2>9. PICK n : n = [m EXCEPT !.committed = m.staged, !.dirty = TRUE] OBVIOUS
  <2>10. n.committed = m.staged /\ n.staged = m.staged BY <2>9 DEF States
  <2>. QED BY <2>7, <2>8, <2>9, <2>10 DEF Mode
<1>2. Waiting => [HandleTxn(<<TUI_COMMIT>>) => committed' = staged /\ staged' = staged]_vars
  BY <1>1
<1>. QED BY <1>2, WaitingHolds, PTL DEF CommitApplies

-----------------------------------------------------------------------------
(* Lists of children as sequences. *)

\* The element at i, or the end of the list.
At(s, i) == IF i \in 1 .. Len(s) THEN s[i] ELSE 0

\* The links that start at p go through s.
List(t, p, s) ==
  /\ s \in Seq(Named)
  /\ At(s, 1) = t[p].first_child
  /\ \A i \in 1 .. Len(s) : At(s, i + 1) = t[s[i]].next_sibling

LEMMA ListSame ==
  ASSUME NEW t, NEW p, NEW s, List(t, p, s), NEW r, List(t, p, r)
  PROVE  s = r
<1>1. s \in Seq(Named) /\ r \in Seq(Named) BY DEF List
<1>2. PICK m \in Nat, n \in Nat : m = Len(s) /\ n = Len(r) BY <1>1
<1>3. /\ \A i : At(s, i) = IF i \in 1 .. m THEN s[i] ELSE 0
      /\ \A i : At(r, i) = IF i \in 1 .. n THEN r[i] ELSE 0
  BY <1>2 DEF At
<1>4. /\ \A i \in 1 .. m : s[i] # 0
      /\ \A i \in 1 .. n : r[i] # 0
  BY <1>1, <1>2, HandlesAre
<1>5. PICK k \in Nat : k = m + n OBVIOUS
<1> DEFINE S == {i \in 0 .. k : At(s, i + 1) = At(r, i + 1)}
<1>6. 0 \in S BY DEF List
<1>7. ASSUME NEW i \in 0 .. k - 1, i \in S PROVE i + 1 \in S
  <2>1. PICK j \in Nat : j = i + 1 /\ j > 0 /\ j \in 0 .. k OBVIOUS
  <2>2. At(s, j) = At(r, j) BY <1>7, <2>1
  <2>3. CASE j <= m
    <3>1. j \in 1 .. m /\ j \in 1 .. n /\ s[j] = r[j] BY <1>3, <1>4, <2>1, <2>2, <2>3
    <3>2. At(s, j + 1) = t[s[j]].next_sibling /\ At(r, j + 1) = t[r[j]].next_sibling
      BY <1>2, <3>1 DEF List
    <3>. QED BY <2>1, <3>1, <3>2
  <2>4. CASE j > m
    <3>1. ~(j \in 1 .. n) BY <1>3, <1>4, <2>1, <2>2, <2>4
    <3>2. ~(j + 1 \in 1 .. m) /\ ~(j + 1 \in 1 .. n) BY <2>1, <2>4, <3>1
    <3>. QED BY <1>3, <2>1, <3>2
  <2>. QED BY <2>1, <2>3, <2>4
<1>8. \A i \in 0 .. k : i \in S
  <2>. HIDE DEF S
  <2>. QED BY <1>6, <1>7, Induction
<1>9. \A i \in 1 .. k : At(s, i) = At(r, i)
  <2>1. SUFFICES ASSUME NEW i \in 1 .. k PROVE At(s, i) = At(r, i) OBVIOUS
  <2>2. PICK j \in 0 .. k : i = j + 1 OBVIOUS
  <2>. QED BY <1>8, <2>2
<1>10. m = n
  <2>1. ~(m < n)
    <3>1. ASSUME m < n PROVE FALSE
      <4>1. n \in 1 .. k /\ n \in 1 .. n /\ ~(n \in 1 .. m) BY <1>5, <3>1
      <4>. QED BY <1>3, <1>4, <1>9, <4>1
    <3>. QED BY <3>1
  <2>2. ~(n < m)
    <3>1. ASSUME n < m PROVE FALSE
      <4>1. m \in 1 .. k /\ m \in 1 .. m /\ ~(m \in 1 .. n) BY <1>5, <3>1
      <4>. QED BY <1>3, <1>4, <1>9, <4>1
    <3>. QED BY <3>1
  <2>. QED BY <2>1, <2>2
<1>11. \A i \in 1 .. m : s[i] = r[i]
  <2>1. \A i \in 1 .. m : i \in 1 .. k BY <1>5
  <2>. QED BY <1>3, <1>9, <1>10, <2>1
<1>12. s = [i \in 1 .. m |-> s[i]] /\ r = [i \in 1 .. n |-> r[i]] BY <1>1, <1>2
<1>. QED BY <1>10, <1>11, <1>12

\* The children are what is in the list.
LEMMA ListHolds ==
  ASSUME NEW t, NEW p, NEW s, List(t, p, s), t[p].first_child \in Handles
  PROVE  Children(t, p) = {s[i] : i \in 1 .. Len(s)}
<1>1. PICK n \in Nat : n = Len(s) BY DEF List
<1>2. PICK T : T = {s[i] : i \in 1 .. n} OBVIOUS
<1>3. T \subseteq Named BY <1>1, <1>2 DEF List
<1>4. \A i : At(s, i) = IF i \in 1 .. n THEN s[i] ELSE 0 BY <1>1 DEF At
<1>5. \A i : At(s, i) \in T \cup {0} BY <1>2, <1>4
<1>6. PICK f : f = t[p].first_child OBVIOUS
<1>7. Chain(t, f) \subseteq T
  <2>1. f \in T \cup {0} BY <1>5, <1>6 DEF List
  <2>2. \A x \in T : t[x].next_sibling \in T \cup {0}
    <3>1. SUFFICES ASSUME NEW i \in 1 .. n PROVE t[s[i]].next_sibling \in T \cup {0} BY <1>2
    <3>2. At(s, i + 1) = t[s[i]].next_sibling BY <1>1 DEF List
    <3>. QED BY <1>5, <3>2
  <2>. QED BY <1>3, <2>1, <2>2, ChainWithin
<1> DEFINE S == {i \in 0 .. n : At(s, i + 1) = 0 \/ At(s, i + 1) \in Chain(t, f)}
<1>8. 0 \in S
  <2>1. At(s, 1) = f BY <1>6 DEF List
  <2>2. f = 0 \/ f \in Named BY <1>6, HandlesAre
  <2>. QED BY <2>1, <2>2, ChainStart
<1>9. ASSUME NEW i \in 0 .. n - 1, i \in S PROVE i + 1 \in S
  <2>1. PICK j \in Nat : j = i + 1 /\ j \in 1 .. n OBVIOUS
  <2>2. At(s, j) = s[j] /\ s[j] \in Named BY <1>1, <1>4, <2>1 DEF List
  <2>3. s[j] \in Chain(t, f) BY <1>9, <2>1, <2>2, HandlesAre
  <2>4. At(s, j + 1) = t[s[j]].next_sibling BY <1>1, <2>1 DEF List
  <2>5. At(s, j + 1) \in Named \cup {0} BY <1>3, <1>5
  <2>6. At(s, j + 1) = 0 \/ At(s, j + 1) \in Chain(t, f) BY <2>3, <2>4, <2>5, ChainStep
  <2>. QED BY <2>1, <2>6
<1>10. \A i \in 0 .. n : i \in S
  <2>. HIDE DEF S
  <2>. QED BY <1>8, <1>9, Induction
<1>11. \A i \in 1 .. n : s[i] \in Chain(t, f)
  <2>1. SUFFICES ASSUME NEW i \in 1 .. n PROVE s[i] \in Chain(t, f) OBVIOUS
  <2>2. PICK j \in 0 .. n : i = j + 1 OBVIOUS
  <2>3. At(s, i) = s[i] /\ s[i] \in Named BY <1>1, <1>4 DEF List
  <2>. QED BY <1>10, <2>2, <2>3, HandlesAre
<1>. QED BY <1>1, <1>2, <1>6, <1>7, <1>11 DEF Children

LEMMA ChainClosed ==
  ASSUME NEW t, Sound(t), NEW f
  PROVE  \A x \in Chain(t, f) : x \in Named /\ t[x].next_sibling \in Chain(t, f) \cup {0}
<1>1. SUFFICES ASSUME NEW x \in Chain(t, f)
               PROVE  x \in Named /\ t[x].next_sibling \in Chain(t, f) \cup {0}
  OBVIOUS
<1>2. x \in Named BY DEF Chain
<1>3. t[x].next_sibling = 0 \/ t[x].next_sibling \in Named BY <1>2, ShapedAt, HandlesAre DEF Sound
<1>. QED BY <1>2, <1>3, ChainStep

\* The list from n on is n and the list from the one after it.
LEMMA ChainNext ==
  ASSUME NEW t, Sound(t), NEW n \in Named, Occupied(t, n)
  PROVE  /\ Chain(t, n) = {n} \cup Chain(t, t[n].next_sibling)
         /\ n \notin Chain(t, t[n].next_sibling)
<1>1. PICK s : s = t[n].next_sibling OBVIOUS
<1>2. n \in Handles /\ (s = 0 \/ s \in Named) BY <1>1, HandlesAre, LinkAt DEF Sound
<1>3. PICK A, B : A = Chain(t, n) /\ B = Chain(t, s) OBVIOUS
<1>4. A \subseteq Named /\ B \subseteq Named BY <1>3 DEF Chain
<1>5. A \subseteq {n} \cup B
  <2>1. PICK S : S = {n} \cup B OBVIOUS
  <2>2. s \in B \cup {0} BY <1>2, <1>3, ChainStart
  <2>3. \A x \in B : t[x].next_sibling \in B \cup {0} BY <1>3, ChainClosed
  <2>4. \A x \in S : t[x].next_sibling \in S \cup {0} BY <1>1, <2>1, <2>2, <2>3
  <2>. QED BY <1>3, <1>4, <2>1, <2>4, ChainWithin
<1>6. n \in A BY <1>3, ChainStart
<1>7. B \subseteq A
  <2>1. \A x \in A : t[x].next_sibling \in A \cup {0} BY <1>3, ChainClosed
  <2>2. s \in A \cup {0} BY <1>1, <1>6, <2>1
  <2>. QED BY <1>3, <1>4, <2>1, <2>2, ChainWithin
<1>. QED BY <1>1, <1>3, <1>5, <1>6, <1>7, ListsEnd

LEMMA ChainEmpty == ASSUME NEW t PROVE Chain(t, 0) = {}
<1>1. PICK S : S = {} OBVIOUS
<1>2. Chain(t, 0) \subseteq S BY <1>1, ChainWithin
<1>. QED BY <1>1, <1>2

\* Chains are finite, so their sizes are numbers, one less from node to node.
Size(t, n) == Cardinality(Chain(t, n))

LEMMA ChainFinite ==
  ASSUME NEW t, NEW n
  PROVE  IsFiniteSet(Chain(t, n)) /\ Size(t, n) \in Nat
<1>1. IsFiniteSet(Handles)
  <2>1. PICK k \in Int : k = NODE_COUNT - 1 BY TreeAssumption
  <2>. QED BY <2>1, FS_Interval DEF Handles
<1>2. Chain(t, n) \subseteq Handles BY HandlesAre DEF Chain
<1>. QED BY <1>1, <1>2, FS_Subset, FS_CardinalityType DEF Size

LEMMA SizeNext ==
  ASSUME NEW t, Sound(t), NEW n \in Named, Occupied(t, n)
  PROVE  Size(t, n) = Size(t, t[n].next_sibling) + 1
<1>1. PICK s : s = t[n].next_sibling OBVIOUS
<1>2. PICK B : B = Chain(t, s) OBVIOUS
<1>3. Chain(t, n) = {n} \cup B /\ n \notin B BY <1>1, <1>2, ChainNext
<1>4. IsFiniteSet(B) BY <1>2, ChainFinite
<1>5. Cardinality(B \cup {n}) = Cardinality(B) + 1 BY <1>3, <1>4, FS_AddElement
<1>6. B \cup {n} = {n} \cup B OBVIOUS
<1>. QED BY <1>1, <1>2, <1>3, <1>5, <1>6 DEF Size

\* A part of a list starts at each of its nodes.
LEMMA ChainPart ==
  ASSUME NEW t, Sound(t), NEW f, NEW n \in Chain(t, f)
  PROVE  Chain(t, n) \subseteq Chain(t, f)
<1>1. PICK A : A = Chain(t, f) OBVIOUS
<1>2. A \subseteq Named BY <1>1 DEF Chain
<1>3. \A x \in A : t[x].next_sibling \in A \cup {0} BY <1>1, ChainClosed
<1>. QED BY <1>1, <1>2, <1>3, ChainWithin

LEMMA SizePart ==
  ASSUME NEW t, Sound(t), NEW f, NEW n \in Chain(t, f)
  PROVE  Size(t, n) <= Size(t, f)
BY ChainPart, ChainFinite, FS_Subset DEF Size

\* Of two nodes of a list one comes after the other, so they differ in the size of
\* what follows.
LEMMA ChainOrder ==
  ASSUME NEW t, Sound(t), NEW f, NEW C, C = Chain(t, f), \A x \in C : x \in Named /\ Occupied(t, x),
         f \in Named, NEW a \in C
  PROVE  \A b \in C : a \in Chain(t, b) \/ b \in Chain(t, a)
<1>1. PICK T : T = {x \in C : a \in Chain(t, x) \/ x \in Chain(t, a)} OBVIOUS
<1>2. T \subseteq Named BY <1>1
<1>3. f \in T \cup {0} BY <1>1, ChainStart
<1>4. ASSUME NEW x \in T PROVE t[x].next_sibling \in T \cup {0}
  <2>1. PICK y : y = t[x].next_sibling OBVIOUS
  <2>2. x \in C /\ x \in Named /\ Occupied(t, x) BY <1>1
  <2>3. y = 0 \/ (y \in Named /\ y \in C)
    <3>1. x \in Handles BY <2>2, HandlesAre
    <3>2. y = 0 \/ y \in Named BY <2>1, <2>2, <3>1, LinkAt DEF Sound
    <3>. QED BY <2>1, <2>2, <3>2, ChainStep
  <2>4. CASE y = 0 BY <2>1, <2>4
  <2>5. CASE y \in Named /\ x \in Chain(t, a)
    <3>1. y \in Chain(t, a) BY <2>1, <2>5, ChainStep
    <3>. QED BY <1>1, <2>1, <2>3, <2>5, <3>1, HandlesAre
  <2>6. CASE y \in Named /\ x \notin Chain(t, a)
    <3>1. a \in Chain(t, x) /\ a # x BY <1>1, <2>2, <2>6, ChainStart
    <3>2. a \in Chain(t, y) BY <2>1, <2>2, <3>1, ChainNext
    <3>. QED BY <1>1, <2>1, <2>3, <2>6, <3>2, HandlesAre
  <2>. QED BY <2>3, <2>4, <2>5, <2>6
<1>5. C \subseteq T BY <1>2, <1>3, <1>4, ChainWithin
<1>. QED BY <1>1, <1>5

LEMMA SizesDiffer ==
  ASSUME NEW t, Sound(t), NEW f \in Named, NEW C, C = Chain(t, f), \A x \in C : x \in Named /\ Occupied(t, x),
         NEW a \in C, NEW b \in C, Size(t, a) = Size(t, b)
  PROVE  a = b
<1>1. ASSUME NEW x \in C, NEW y \in C, Size(t, x) = Size(t, y), x \in Chain(t, y) PROVE x = y
  <2>1. SUFFICES ASSUME x # y PROVE FALSE OBVIOUS
  <2>2. PICK s : s = t[y].next_sibling OBVIOUS
  <2>3. x \in Chain(t, s) BY <1>1, <2>1, <2>2, ChainNext
  <2>4. Size(t, x) <= Size(t, s) BY <2>3, SizePart
  <2>5. Size(t, y) = Size(t, s) + 1 BY <2>2, SizeNext
  <2>6. Size(t, s) \in Nat BY ChainFinite
  <2>. QED BY <1>1, <2>4, <2>5, <2>6
<1>2. a \in Chain(t, b) \/ b \in Chain(t, a) BY ChainOrder
<1>. QED BY <1>1, <1>2

\* Sizes count down to the end of the list.
LEMMA SizeZero ==
  ASSUME NEW t, Sound(t), NEW f, f = 0 \/ (f \in Named /\ Occupied(t, f))
  PROVE  f = 0 <=> Size(t, f) = 0
<1>1. Size(t, 0) = 0 BY ChainEmpty, FS_EmptySet DEF Size
<1>2. CASE f = 0 BY <1>1, <1>2
<1>3. CASE f \in Named /\ Occupied(t, f)
  <2>1. Size(t, f) = Size(t, t[f].next_sibling) + 1 BY <1>3, SizeNext
  <2>2. Size(t, t[f].next_sibling) \in Nat BY ChainFinite
  <2>. QED BY <1>3, <2>1, <2>2, HandlesAre
<1>. QED BY <1>2, <1>3

LEMMA SizesAll ==
  ASSUME NEW t, Sound(t), NEW f \in Named, NEW C, C = Chain(t, f), \A x \in C : x \in Named /\ Occupied(t, x),
         NEW N \in Nat, N = Size(t, f)
  PROVE  \A k \in 1 .. N : \E n \in C : Size(t, n) = k
<1>1. f \in C BY ChainStart
<1>2. N # 0 BY <1>1, SizeZero, HandlesAre
<1>3. PICK l \in Nat : l = N - 1 BY <1>2
<1> DEFINE S == {j \in 0 .. l : \E n \in C : Size(t, n) = N - j}
<1>4. 0 \in S BY <1>1
<1>5. ASSUME NEW j \in 0 .. l - 1, j \in S PROVE j + 1 \in S
  <2>1. PICK n \in C : Size(t, n) = N - j BY <1>5
  <2>2. PICK y : y = t[n].next_sibling OBVIOUS
  <2>3. y = 0 \/ y \in C BY <2>2, ChainClosed
  <2>4. Size(t, n) = Size(t, y) + 1 BY <2>2, SizeNext
  <2>5. Size(t, y) \in Nat BY ChainFinite
  <2>6. Size(t, y) = N - (j + 1) /\ Size(t, y) # 0 BY <1>3, <2>1, <2>4, <2>5
  <2>7. y \in C BY <2>3, <2>6, SizeZero
  <2>. QED BY <2>6, <2>7
<1>6. \A j \in 0 .. l : j \in S
  <2>. HIDE DEF S
  <2>. QED BY <1>4, <1>5, Induction
<1>7. ASSUME NEW k \in 1 .. N PROVE \E n \in C : Size(t, n) = k
  <2>1. PICK j \in 0 .. l : k = N - j
    <3>1. N - k \in 0 .. l /\ k = N - (N - k) BY <1>3
    <3>. QED BY <3>1
  <2>. QED BY <1>6, <2>1
<1>. QED BY <1>7

\* Listed orders the children by what follows them,
LEMMA ListedSizes ==
  ASSUME NEW t, Sound(t), NEW p \in Handles, Occupied(t, p), NEW s, s = Listed(t, p)
  PROVE  /\ s \in Seq(Named) /\ Len(s) = Size(t, t[p].first_child)
         /\ \A i \in 1 .. Len(s) : s[i] \in Children(t, p) /\ Size(t, s[i]) = Len(s) + 1 - i
<1>1. PICK f, C : f = t[p].first_child /\ C = Chain(t, f) OBVIOUS
<1>2. C = Children(t, p) /\ \A x \in C : x \in Named /\ Occupied(t, x)
  <2>1. Shaped(t) /\ Kinship(t) BY DEF Sound
  <2>. QED BY <1>1, <2>1, ChainOccupied DEF Children
<1>3. PICK N \in Nat : N = Cardinality(C) BY <1>1, ChainFinite DEF Size
<1>4. N = Size(t, f) BY <1>1, <1>3 DEF Size
<1>5. s = [i \in 1 .. N |-> CHOOSE n \in C : N + 1 - Size(t, n) = i] BY <1>2, <1>3 DEF Listed, Size
<1>6. ASSUME NEW i \in 1 .. N PROVE s[i] \in C /\ Size(t, s[i]) = N + 1 - i
  <2>1. PICK k \in 1 .. N : k = N + 1 - i OBVIOUS
  <2>2. f \in Named
    <3>1. f = 0 \/ (f \in Named /\ Occupied(t, f)) BY <1>1, LinkAt DEF Sound, Kinship
    <3>2. N # 0 OBVIOUS
    <3>. QED BY <1>4, <3>1, <3>2, SizeZero
  <2>3. PICK n \in C : Size(t, n) = k
    <3>1. \A x \in C : x \in Named /\ Occupied(t, x) BY <1>2
    <3>2. C = Chain(t, f) BY <1>1
    <3>3. \A l \in 1 .. N : \E n \in C : Size(t, n) = l BY <1>4, <2>2, <3>1, <3>2, SizesAll
    <3>. QED BY <3>3
  <2>4. N + 1 - Size(t, n) = i BY <2>1, <2>3
  <2>5. s[i] \in C /\ N + 1 - Size(t, s[i]) = i BY <1>5, <2>4
  <2>6. Size(t, s[i]) \in Nat BY ChainFinite
  <2>. QED BY <2>5, <2>6
<1>7. s \in [1 .. N -> Named] BY <1>2, <1>5, <1>6
<1>8. s \in Seq(Named) /\ Len(s) = N BY <1>7
<1>. QED BY <1>1, <1>2, <1>4, <1>6, <1>8

\* so that it names each once
LEMMA ListDistinct ==
  ASSUME NEW t, Sound(t), NEW p \in Handles, Occupied(t, p), NEW s, s = Listed(t, p)
  PROVE  \A i, j \in 1 .. Len(s) : s[i] = s[j] => i = j
<1>1. PICK N \in Nat : N = Len(s) BY ListedSizes
<1>2. \A i \in 1 .. N : Size(t, s[i]) = N + 1 - i BY <1>1, ListedSizes
<1>3. ASSUME NEW i \in 1 .. N, NEW j \in 1 .. N, s[i] = s[j] PROVE i = j
  <2>1. N + 1 - i = N + 1 - j BY <1>2, <1>3
  <2>. QED BY <2>1
<1>. QED BY <1>1, <1>3

\* and follows the links.
LEMMA ListedIs ==
  ASSUME NEW t, Sound(t), NEW p \in Handles, Occupied(t, p)
  PROVE  List(t, p, Listed(t, p))
<1>1. PICK f, C, s : f = t[p].first_child /\ C = Chain(t, f) /\ s = Listed(t, p) OBVIOUS
<1>2. C = Children(t, p) /\ \A x \in C : x \in Named /\ Occupied(t, x)
  <2>1. Shaped(t) /\ Kinship(t) BY DEF Sound
  <2>. QED BY <1>1, <2>1, ChainOccupied DEF Children
<1>3. s \in Seq(Named) /\ Len(s) = Size(t, f) BY <1>1, ListedSizes
<1>4. PICK N \in Nat : N = Len(s) BY <1>3
<1>5. \A i \in 1 .. N : s[i] \in C /\ Size(t, s[i]) = N + 1 - i BY <1>1, <1>2, <1>4, ListedSizes
<1>6. \A i : At(s, i) = IF i \in 1 .. N THEN s[i] ELSE 0 BY <1>4 DEF At
<1>7. f = 0 \/ (f \in Named /\ f \in C /\ Occupied(t, f))
  <2>1. f = 0 \/ f \in Named BY <1>1, LinkAt DEF Sound
  <2>. QED BY <1>1, <1>2, <2>1, ChainStart
<1>8. CASE f = 0
  <2>1. N = 0 BY <1>3, <1>4, <1>8, SizeZero
  <2>. QED BY <1>1, <1>3, <1>4, <1>6, <1>8, <2>1 DEF List
<1>9. CASE f # 0
  <2>1. f \in Named /\ f \in C BY <1>7, <1>9
  <2>2. N # 0 BY <1>3, <1>4, <1>7, <1>9, SizeZero
  <2>3. At(s, 1) = f
    <3>1. 1 \in 1 .. N BY <2>2
    <3>2. s[1] \in C /\ Size(t, s[1]) = Size(t, f) BY <1>3, <1>4, <1>5, <3>1
    <3>3. s[1] = f BY <1>1, <1>2, <2>1, <3>2, SizesDiffer
    <3>. QED BY <1>6, <3>1, <3>3
  <2>4. ASSUME NEW i \in 1 .. N PROVE At(s, i + 1) = t[s[i]].next_sibling
    <3>1. PICK x, y : x = s[i] /\ y = t[x].next_sibling OBVIOUS
    <3>2. x \in C /\ x \in Named /\ Occupied(t, x) /\ Size(t, x) = N + 1 - i BY <1>2, <1>5, <3>1
    <3>3. y = 0 \/ (y \in C /\ y \in Named /\ Occupied(t, y)) BY <1>1, <1>2, <3>1, <3>2, ChainClosed
    <3>4. Size(t, y) = N - i
      <4>1. Size(t, x) = Size(t, y) + 1 BY <3>1, <3>2, SizeNext
      <4>2. Size(t, y) \in Nat BY ChainFinite
      <4>. QED BY <3>2, <4>1, <4>2
    <3>5. CASE i = N
      <4>1. Size(t, y) = 0 BY <3>4, <3>5
      <4>2. y = 0 BY <3>3, <4>1, SizeZero
      <4>3. ~(i + 1 \in 1 .. N) BY <3>5
      <4>. QED BY <1>6, <3>1, <4>2, <4>3
    <3>6. CASE i # N
      <4>1. PICK j \in 1 .. N : j = i + 1 BY <3>6
      <4>2. s[j] \in C /\ Size(t, s[j]) = Size(t, y) BY <1>5, <3>4, <4>1
      <4>3. Size(t, y) # 0 BY <3>4, <3>6
      <4>4. y \in C BY <3>3, <4>3, SizeZero
      <4>5. s[j] = y BY <1>1, <1>2, <2>1, <4>2, <4>4, SizesDiffer
      <4>. QED BY <1>6, <3>1, <4>1, <4>5
    <3>. QED BY <3>5, <3>6
  <2>. QED BY <1>1, <1>3, <1>4, <2>3, <2>4 DEF List
<1>. QED BY <1>8, <1>9

-----------------------------------------------------------------------------
(* What a removal, a create and the rest do to the lists. *)

LEMMA AtIs ==
  ASSUME NEW s \in Seq(Named)
  PROVE  /\ \A i \in 1 .. Len(s) : At(s, i) = s[i] /\ s[i] \in Named /\ s[i] # 0
         /\ \A i : ~(i \in 1 .. Len(s)) => At(s, i) = 0
BY HandlesAre DEF At

LEMMA ChildParents ==
  ASSUME NEW t, Sound(t), NEW p \in Handles, Occupied(t, p)
  PROVE  \A m \in Children(t, p) : m \in Named /\ Occupied(t, m) /\ t[m].parent = p
<1>1. PICK S, f : S = {m \in Named : Occupied(t, m) /\ t[m].parent = p} /\ f = t[p].first_child OBVIOUS
<1>2. Shaped(t) /\ Kinship(t) BY DEF Sound
<1>3. f \in S \cup {0} BY <1>1, <1>2, LinkAt DEF Kinship
<1>4. \A x \in S : t[x].next_sibling \in S \cup {0} BY <1>1, <1>2, LinkAt, HandlesAre DEF Kinship
<1>5. Chain(t, f) \subseteq S
  <2>1. S \subseteq Named BY <1>1
  <2>. QED BY <1>3, <1>4, <2>1, ChainWithin
<1>. QED BY <1>1, <1>5 DEF Children

\* What is listed is a child.
LEMMA ListedChild ==
  ASSUME NEW t, Sound(t), NEW p \in Handles, Occupied(t, p), NEW s, s = Listed(t, p), NEW i \in 1 .. Len(s)
  PROVE  s[i] \in Named /\ s[i] \in Handles /\ Occupied(t, s[i]) /\ t[s[i]].parent = p
BY ListedSizes, ChildParents, HandlesAre

LEMMA ListedOnly ==
  ASSUME NEW t, Sound(t), NEW p \in Handles, Occupied(t, p), NEW s, List(t, p, s)
  PROVE  Listed(t, p) = s
BY ListedIs, ListSame

LEMMA SameLinksListed ==
  ASSUME NEW t, Sound(t), NEW w, SameLinks(t, w), NEW p \in Handles, Occupied(t, p)
  PROVE  Listed(w, p) = Listed(t, p)
<1>1. PICK s : s = Listed(t, p) OBVIOUS
<1>2. List(t, p, s) BY <1>1, ListedIs
<1>3. \A i \in 1 .. Len(s) : s[i] \in Handles BY <1>1, ListedChild
<1>4. List(w, p, s) BY <1>2, <1>3 DEF List, SameLinks
<1>5. Sound(w) /\ Occupied(w, p) BY SameLinksSound, LinksAreSame
<1>. QED BY <1>1, <1>4, <1>5, ListedOnly

\* The list without h skips it.
LEMMA WithoutSkips ==
  ASSUME NEW s \in Seq(Named), NEW a \in 1 .. Len(s), \A i, j \in 1 .. Len(s) : s[i] = s[j] => i = j,
         NEW r, r = Doc!Without(s, s[a])
  PROVE  /\ r \in Seq(Named) /\ Len(r) = Len(s) - 1
         /\ \A i \in Nat : i > 0 => At(r, i) = At(s, IF i < a THEN i ELSE i + 1)
<1>1. PICK n \in Nat : n = Len(s) OBVIOUS
<1>2. a \in 1 .. n /\ a \in DOMAIN s /\ DOMAIN s = 1 .. n BY <1>1
<1>3. s[a] \in Doc!Range(s) BY <1>2 DEF Doc!Range
<1>4. (CHOOSE i \in DOMAIN s : s[i] = s[a]) = a BY <1>1, <1>2
<1>5. r = [i \in 1 .. n - 1 |-> s[IF i < a THEN i ELSE i + 1]] BY <1>1, <1>3, <1>4 DEF Doc!Without
<1>6. \A i \in 1 .. n - 1 : (IF i < a THEN i ELSE i + 1) \in 1 .. n BY <1>2
<1>7. \A i \in 1 .. n : s[i] \in Named BY <1>1
<1>8. r \in [1 .. n - 1 -> Named] BY <1>5, <1>6, <1>7
<1>9. n - 1 \in Nat BY <1>2
<1>10. r \in Seq(Named) /\ Len(r) = n - 1 BY <1>8, <1>9
<1>11. ASSUME NEW i \in Nat, i > 0 PROVE At(r, i) = At(s, IF i < a THEN i ELSE i + 1)
  <2>1. PICK k \in Nat : k = IF i < a THEN i ELSE i + 1 OBVIOUS
  <2>2. i \in 1 .. n - 1 <=> k \in 1 .. n BY <1>2, <1>11, <2>1
  <2>3. i \in 1 .. n - 1 => r[i] = s[k] BY <1>5, <2>1
  <2>. QED BY <1>1, <1>10, <2>1, <2>2, <2>3 DEF At
<1>. QED BY <1>1, <1>10, <1>11

LEMMA WithoutNone ==
  ASSUME NEW s \in Seq(Named), NEW h, \A i \in 1 .. Len(s) : s[i] # h
  PROVE  Doc!Without(s, h) = s
BY DEF Doc!Without, Doc!Range

\* What stays of the tree.
LEMMA Stays ==
  ASSUME NEW t, Sound(t), NEW h \in Named, Occupied(t, h), NEW u, Sound(u), Spliced(t, h, u), Skips(t, h, u),
         NEW F, F = Below(u, h) \cup {h}, NEW v, v = Pruned(u, h), NEW n \in Handles, n \notin F, Occupied(t, n)
  PROVE  /\ Occupied(v, n) /\ SameBut(v[n], t[n])
         /\ v[n].first_child = IF t[n].first_child = h THEN t[h].next_sibling ELSE t[n].first_child
         /\ v[n].next_sibling = IF t[n].next_sibling = h THEN t[h].next_sibling ELSE t[n].next_sibling
<1>1. v[n] = u[n] /\ n # h BY DEF Pruned
<1>2. Occupied(v, n) BY <1>1 DEF Spliced, Occupied
<1>3. (Child(t, n, h) <=> t[n].first_child = h) /\ (Sibling(t, n, h) <=> t[n].next_sibling = h)
  BY DEF Child, Sibling
<1>. QED BY <1>1, <1>2, <1>3 DEF Skips

LEMMA RemovedListed ==
  ASSUME NEW t, Sound(t), NEW h \in Named, Occupied(t, h), NEW u, Sound(u), Spliced(t, h, u), Skips(t, h, u),
         NEW F, F = Below(u, h) \cup {h}, NEW v, v = Pruned(u, h), NEW p \in Handles, p \notin F, Occupied(t, p)
  PROVE  Listed(v, p) = Doc!Without(Listed(t, p), h)
<1>1. PICK s : s = Listed(t, p) OBVIOUS
<1>2. PICK r : r = Doc!Without(s, h) OBVIOUS
<1>3. h \in Handles /\ Occupied(u, h) BY HandlesAre DEF Spliced
<1>4. Sound(v) /\ Occupied(v, p)
  <2>1. u[h].next_sibling = 0 /\ \A m \in Handles : ~Leads(u, m, h) BY DEF Spliced
  <2>2. Sound(v) BY <1>3, <2>1, PrunedSound
  <2>. QED BY <2>2, Stays
<1>5. PICK n \in Nat : n = Len(s) BY <1>1, ListedSizes
<1>6. s \in Seq(Named) /\ At(s, 1) = t[p].first_child /\ \A i \in 1 .. n : At(s, i + 1) = t[s[i]].next_sibling
  BY <1>1, <1>5, ListedIs DEF List
<1>7. \A i \in 1 .. n : s[i] \in Handles /\ Occupied(t, s[i]) /\ (s[i] # h => s[i] \notin F)
  <2>1. SUFFICES ASSUME NEW i \in 1 .. n PROVE s[i] \in Handles /\ Occupied(t, s[i]) /\ (s[i] # h => s[i] \notin F)
    OBVIOUS
  <2>2. PICK x : x = s[i] OBVIOUS
  <2>3. x \in Handles /\ Occupied(t, x) /\ t[x].parent = p BY <1>1, <1>5, <2>2, ListedChild
  <2>4. u[x].parent = p BY <2>3 DEF Spliced
  <2>5. x \notin Below(u, h) BY <1>3, <2>4, BelowParents
  <2>. QED BY <2>2, <2>3, <2>5
<1>8. ASSUME NEW i \in 1 .. n, s[i] # h
      PROVE  v[s[i]].next_sibling = IF At(s, i + 1) = h THEN t[h].next_sibling ELSE At(s, i + 1)
  <2>1. PICK x \in Handles : x = s[i] /\ Occupied(t, x) /\ x \notin F BY <1>7, <1>8
  <2>2. v[x].next_sibling = IF t[x].next_sibling = h THEN t[h].next_sibling ELSE t[x].next_sibling
    BY <2>1, Stays
  <2>. QED BY <1>6, <2>1, <2>2
<1>9. v[p].first_child = IF At(s, 1) = h THEN t[h].next_sibling ELSE At(s, 1) BY <1>6, Stays
<1>10. h # 0 BY HandlesAre
<1>11. /\ \A i \in 1 .. n : At(s, i) = s[i] /\ s[i] \in Named
       /\ \A i : ~(i \in 1 .. n) => At(s, i) = 0
  BY <1>5, <1>6, AtIs
<1>12. List(v, p, r)
  <2>1. CASE \A i \in 1 .. n : s[i] # h
    <3>1. r = s BY <1>2, <1>5, <1>6, <2>1, WithoutNone
    <3>2. \A i : At(s, i) # h BY <1>10, <1>11, <2>1
    <3>. QED BY <1>5, <1>6, <1>8, <1>9, <2>1, <3>1, <3>2 DEF List
  <2>2. CASE \E i \in 1 .. n : s[i] = h
    <3>1. PICK a \in 1 .. n : s[a] = h BY <2>2
    <3>2. \A i, j \in 1 .. n : s[i] = s[j] => i = j BY <1>1, <1>5, ListDistinct
    <3>3. /\ r \in Seq(Named) /\ Len(r) = n - 1
          /\ \A i \in Nat : i > 0 => At(r, i) = At(s, IF i < a THEN i ELSE i + 1)
      <4>1. r = Doc!Without(s, s[a]) BY <1>2, <3>1
      <4>2. a \in 1 .. Len(s) /\ \A i, j \in 1 .. Len(s) : s[i] = s[j] => i = j BY <1>5, <3>2
      <4>3. /\ r \in Seq(Named) /\ Len(r) = Len(s) - 1
            /\ \A i \in Nat : i > 0 => At(r, i) = At(s, IF i < a THEN i ELSE i + 1)
        BY <1>6, <4>1, <4>2, WithoutSkips
      <4>. QED BY <1>5, <4>3
    <3>4. \A i : At(s, i) = h <=> i = a BY <1>10, <1>11, <3>1, <3>2
    <3>5. t[h].next_sibling = At(s, a + 1) BY <1>6, <3>1
    <3>6. At(r, 1) = v[p].first_child
      <4>1. At(r, 1) = At(s, IF 1 < a THEN 1 ELSE 2) BY <3>3
      <4>2. v[p].first_child = IF a = 1 THEN At(s, a + 1) ELSE At(s, 1) BY <1>9, <3>4, <3>5
      <4>. QED BY <4>1, <4>2
    <3>7. ASSUME NEW i \in 1 .. n - 1 PROVE At(r, i + 1) = v[r[i]].next_sibling
      <4>1. PICK k \in 1 .. n : k = IF i < a THEN i ELSE i + 1 OBVIOUS
      <4>2. r[i] = s[k]
        <5>1. At(r, i) = At(s, k) BY <3>3, <4>1
        <5>2. At(r, i) = r[i] BY <3>3 DEF At
        <5>. QED BY <1>11, <5>1, <5>2
      <4>3. s[k] # h BY <3>1, <3>2, <4>1
      <4>4. v[s[k]].next_sibling = IF k + 1 = a THEN At(s, a + 1) ELSE At(s, k + 1) BY <1>8, <3>4, <3>5, <4>3
      <4>5. At(r, i + 1) = At(s, IF i + 1 < a THEN i + 1 ELSE i + 2)
        <5>1. PICK j \in Nat : j = i + 1 /\ j > 0 OBVIOUS
        <5>2. At(r, j) = At(s, IF j < a THEN j ELSE j + 1) BY <3>3, <5>1
        <5>3. j + 1 = i + 2 BY <5>1
        <5>. QED BY <5>1, <5>2, <5>3
      <4>. QED BY <4>1, <4>2, <4>4, <4>5
    <3>. QED BY <3>3, <3>6, <3>7 DEF List
  <2>. QED BY <2>1, <2>2
<1>. QED BY <1>1, <1>2, <1>4, <1>12, ListedOnly

\* A create leaves the lists of the others,
LEMMA LinkedOthers ==
  ASSUME NEW v, Sound(v), NEW h \in Named, ~Occupied(v, h), NEW p \in Handles, NEW w, Sound(w), Hung(v, h, p, w),
         NEW n \in Handles, n # h, n # p, Occupied(v, n)
  PROVE  Listed(w, n) = Listed(v, n)
<1>1. PICK s : s = Listed(v, n) OBVIOUS
<1>2. List(v, n, s) BY <1>1, ListedIs
<1>3. \A i \in 1 .. Len(s) : s[i] \in Handles /\ s[i] # h BY <1>1, ListedChild
<1>4. \A i \in 1 .. Len(s) : w[s[i]].next_sibling = v[s[i]].next_sibling BY <1>3 DEF Hung
<1>5. w[n].first_child = v[n].first_child /\ Occupied(w, n) BY DEF Hung
<1>6. List(w, n, s) BY <1>2, <1>4, <1>5 DEF List
<1>. QED BY <1>1, <1>5, <1>6, ListedOnly

\* puts h before those that its parent had,
LEMMA LinkedParent ==
  ASSUME NEW v, Sound(v), NEW h \in Named, ~Occupied(v, h), NEW p \in Handles, NEW w, Sound(w), Hung(v, h, p, w),
         p # h, Occupied(v, p)
  PROVE  Listed(w, p) = <<h>> \o Listed(v, p)
<1>1. PICK s : s = Listed(v, p) OBVIOUS
<1>2. s \in Seq(Named) /\ At(s, 1) = v[p].first_child /\ \A i \in 1 .. Len(s) : At(s, i + 1) = v[s[i]].next_sibling
  BY <1>1, ListedIs DEF List
<1>3. PICK n \in Nat : n = Len(s) BY <1>2
<1>4. PICK r : r = <<h>> \o s OBVIOUS
<1>5. r \in Seq(Named) /\ Len(r) = n + 1 /\ r[1] = h /\ \A i \in 1 .. n : r[i + 1] = s[i] BY <1>2, <1>3, <1>4
<1>6. \A i \in 1 .. n : s[i] \in Handles /\ s[i] # h BY <1>1, <1>3, ListedChild
<1>7. \A i \in 1 .. n : w[s[i]].next_sibling = v[s[i]].next_sibling BY <1>6 DEF Hung
<1>8. w[p].first_child = h /\ w[h].next_sibling = v[p].first_child /\ Occupied(w, p) BY HandlesAre DEF Hung
<1>9. \A i \in Nat : i > 0 => At(r, i + 1) = At(s, i)
  <2>1. SUFFICES ASSUME NEW i \in Nat, i > 0 PROVE At(r, i + 1) = At(s, i) OBVIOUS
  <2>2. i + 1 \in 1 .. n + 1 <=> i \in 1 .. n BY <2>1
  <2>. QED BY <1>3, <1>5, <2>2 DEF At
<1>10. At(r, 1) = h
  <2>1. 1 \in 1 .. n + 1 OBVIOUS
  <2>. QED BY <1>5, <2>1 DEF At
<1>11. ASSUME NEW i \in 1 .. n + 1 PROVE At(r, i + 1) = w[r[i]].next_sibling
  <2>1. At(r, i + 1) = At(s, i) BY <1>9
  <2>2. CASE i = 1 BY <1>2, <1>5, <1>8, <2>1, <2>2
  <2>3. CASE i # 1
    <3>1. PICK j \in 1 .. n : i = j + 1 BY <2>3
    <3>2. r[i] = s[j] /\ At(s, j + 1) = v[s[j]].next_sibling BY <1>2, <1>3, <1>5, <3>1
    <3>. QED BY <1>7, <2>1, <3>1, <3>2
  <2>. QED BY <2>2, <2>3
<1>12. List(w, p, r) BY <1>5, <1>8, <1>10, <1>11 DEF List
<1>. QED BY <1>1, <1>4, <1>8, <1>12, ListedOnly

LEMMA SingleLists ==
  /\ \E s : s \in Seq(Named) /\ s = <<>> /\ Len(s) = 0
  /\ \A h \in Named : \E s : s \in Seq(Named) /\ s = <<h>> /\ Len(s) = 1 /\ s[1] = h
<1>1. <<>> \in Seq(Named) /\ Len(<<>>) = 0 OBVIOUS
<1>2. ASSUME NEW h \in Named PROVE \E s : s \in Seq(Named) /\ s = <<h>> /\ Len(s) = 1 /\ s[1] = h
  <2>. WITNESS <<h>>
  <2>. QED OBVIOUS
<1>. QED BY <1>1, <1>2

\* and h has none itself, unless it is its own parent.
LEMMA LinkedNew ==
  ASSUME NEW v, NEW h \in Named, NEW p \in Handles, NEW w, Sound(w), Hung(v, h, p, w)
  PROVE  /\ p # h => Listed(w, h) = <<>>
         /\ p = h /\ v[h].first_child = 0 => Listed(w, h) = <<h>>
<1>1. h \in Handles /\ Occupied(w, h) BY HandlesAre DEF Hung
<1>2. ASSUME p # h PROVE Listed(w, h) = <<>>
  <2>1. PICK s : s \in Seq(Named) /\ s = <<>> /\ Len(s) = 0 BY SingleLists
  <2>2. w[h].first_child = 0 BY <1>1, <1>2 DEF Hung
  <2>3. List(w, h, s) BY <2>1, <2>2 DEF List, At
  <2>. QED BY <1>1, <2>1, <2>3, ListedOnly
<1>3. ASSUME p = h, v[h].first_child = 0 PROVE Listed(w, h) = <<h>>
  <2>1. PICK s : s \in Seq(Named) /\ s = <<h>> /\ Len(s) = 1 /\ s[1] = h BY SingleLists
  <2>2. w[h].first_child = h /\ w[h].next_sibling = 0 BY <1>1, <1>3 DEF Hung
  <2>3. At(s, 1) = h /\ At(s, 1 + 1) = 0 BY <2>1 DEF At
  <2>4. \A i \in 1 .. 1 : i = 1 OBVIOUS
  <2>5. List(w, h, s) BY <2>1, <2>2, <2>3, <2>4 DEF List
  <2>. QED BY <1>1, <2>1, <2>5, ListedOnly
<1>. QED BY <1>2, <1>3

\* A new tree has no lists.
LEMMA NewTreeListed == Listed(NewTree, 0) = <<>>
<1>1. PICK t : t = NewTree OBVIOUS
<1>2. PICK s : s \in Seq(Named) /\ s = <<>> /\ Len(s) = 0 BY SingleLists
<1>3. Sound(t) /\ 0 \in Handles /\ Occupied(t, 0) BY <1>1, NewTreeSound, HandlesAre DEF Sound, Shaped
<1>4. t[0].first_child = 0
  <2>1. t[0] = [EmptyNode EXCEPT !.kind = NODE_ROOT] BY <1>1, <1>3 DEF NewTree
  <2>. QED BY <2>1 DEF EmptyNode
<1>5. List(t, 0, s) BY <1>2, <1>4 DEF List, At
<1>. QED BY <1>1, <1>2, <1>3, <1>5, ListedOnly

-----------------------------------------------------------------------------
(* What the abstract removal takes: h and what is below it. *)

Family(t, h) ==
  {n \in Handles : Occupied(t, n) /\
     \A S \in SUBSET {x \in Named : Occupied(t, x)} :
        h \in S /\ (\A x \in S : Children(t, x) \subseteq S) => n \in S}

\* In the list of a node below h there is no h.
LEMMA NotBelowItself ==
  ASSUME NEW t, Sound(t), NEW h \in Named, Occupied(t, h), NEW u, Sound(u), Spliced(t, h, u),
         NEW p \in Below(u, h), t[h].parent = p, t[h].next_sibling # 0
  PROVE  FALSE
<1>1. PICK r \in Ranks : Ranked(r, t) BY DEF Sound
<1>2. Shaped(t) /\ Kinship(t) /\ OneWay(t) /\ Alone(t) /\ Shaped(u) /\ h \in Handles BY HandlesAre DEF Sound
<1>3. Occupied(u, h) BY <1>2 DEF Spliced
<1>4. p \in Named /\ p \in Handles /\ Occupied(t, p) /\ Occupied(u, p)
  BY <1>2, <1>3, BelowOccupied, HandlesAre DEF Sound, Spliced
<1>5. p # h BY <1>2, <1>4 DEF Alone, OwnParent
<1>6. t[p].parent # p /\ ~OwnParent(t, h)
  <2>1. u[p].parent # p BY <1>3, <1>5, BelowOther
  <2>. QED BY <1>4, <1>5, <2>1 DEF Spliced, OwnParent
\* From h to p ranks grow,
<1>7. \A x \in Below(u, h) : x \in Named /\ x \in Handles /\ Occupied(t, x) /\ Occupied(u, x) /\ (x # h => t[x].parent # x)
  <2>1. SUFFICES ASSUME NEW x \in Below(u, h)
                 PROVE  x \in Named /\ x \in Handles /\ Occupied(t, x) /\ Occupied(u, x) /\ (x # h => t[x].parent # x)
    OBVIOUS
  <2>2. x \in Named /\ Occupied(u, x) /\ x \in Handles BY <1>2, <1>3, BelowOccupied, HandlesAre DEF Sound
  <2>3. x # h => u[x].parent # x BY <1>3, BelowOther
  <2>. QED BY <2>2, <2>3 DEF Spliced
<1>8. \A x \in Handles : r[x] \in Nat BY DEF Ranks
<1>9. PICK S : S = {x \in Below(u, h) : r[h] < r[x]} OBVIOUS
<1>10. t[h].parent # h /\ \A x \in Below(u, h) : t[x].parent # x BY <1>5, <1>7
<1>11. ASSUME NEW y \in Named, Child(u, h, y) PROVE y \in S
  <2>1. y \in Below(u, h) BY <1>11, LinkedBelow
  <2>2. ~Child(t, h, h) BY <1>2, <1>10 DEF Kinship
  <2>3. Child(t, h, y) BY <1>2, <1>11, <2>2 DEF Spliced
  <2>4. r[h] < r[y] BY <1>1, <1>2, <1>10, <2>1, <2>3 DEF Ranked, Leads
  <2>. QED BY <1>9, <2>1, <2>4
<1>12. ASSUME NEW x \in S, NEW y \in Named, Leads(u, x, y) PROVE y \in S
  <2>1. x \in Below(u, h) /\ x \in Handles /\ r[h] < r[x] BY <1>7, <1>9
  <2>2. y \in Below(u, h) /\ y \in Handles /\ t[y].parent # y BY <1>7, <1>10, <1>12, <2>1, LinkedBelow
  <2>3. Leads(t, x, y) \/ (Leads(t, x, h) /\ Leads(t, h, y)) BY <1>2, <1>12, <2>1 DEF Leads, Spliced
  <2>4. Leads(t, x, y) => r[x] < r[y] BY <1>1, <2>1, <2>2 DEF Ranked
  <2>5. Leads(t, x, h) /\ Leads(t, h, y) => r[x] < r[h] /\ r[h] < r[y]
    BY <1>1, <1>2, <1>10, <2>1, <2>2 DEF Ranked
  <2>6. r[x] \in Nat /\ r[y] \in Nat /\ r[h] \in Nat BY <1>2, <1>8, <2>1, <2>2
  <2>7. r[h] < r[y] BY <2>1, <2>3, <2>4, <2>5, <2>6
  <2>. QED BY <1>9, <2>2, <2>7
<1>13. r[h] < r[p]
  <2>1. S \subseteq Named /\ \A x \in S : Occupied(u, x) BY <1>7, <1>9
  <2>2. Below(u, h) \subseteq S BY <1>2, <1>3, <1>11, <1>12, <2>1, BelowClosed
  <2>. QED BY <1>9, <2>2
\* and from p to h, which is in its list.
<1>14. h \in Children(t, p) BY <1>2, InItsList
<1>15. PICK T, f : T = {x \in Named : Occupied(t, x) /\ t[x].parent = p /\ r[p] < r[x]} /\ f = t[p].first_child
  OBVIOUS
<1>16. ASSUME NEW y \in Named, Child(t, p, y) PROVE y \in T
  <2>1. Occupied(t, y) /\ t[y].parent = p BY <1>2, <1>4, <1>16 DEF Kinship
  <2>2. r[p] < r[y] BY <1>1, <1>4, <1>6, <1>16, <2>1 DEF Ranked, Leads
  <2>. QED BY <1>15, <2>1, <2>2
<1>17. ASSUME NEW x \in T, NEW y \in Named, Sibling(t, x, y) PROVE y \in T
  <2>1. x \in Handles /\ t[x].parent = p /\ r[p] < r[x] BY <1>15, HandlesAre
  <2>2. Occupied(t, y) /\ t[y].parent = p /\ y \in Handles BY <1>2, <1>17, <2>1, HandlesAre DEF Kinship
  <2>3. r[x] < r[y] BY <1>1, <1>6, <1>17, <2>1, <2>2 DEF Ranked, Leads
  <2>4. r[x] \in Nat /\ r[y] \in Nat /\ r[p] \in Nat BY <1>4, <1>8, <2>1, <2>2
  <2>. QED BY <1>15, <2>1, <2>2, <2>3, <2>4
<1>18. f \in T \cup {0} BY <1>2, <1>4, <1>15, <1>16, LinkAt
<1>19. \A x \in T : t[x].next_sibling \in T \cup {0}
  <2>1. SUFFICES ASSUME NEW x \in T PROVE t[x].next_sibling \in T \cup {0} OBVIOUS
  <2>2. x \in Handles /\ Occupied(t, x) BY <1>15, HandlesAre
  <2>. QED BY <1>2, <1>17, <2>2, LinkAt
<1>20. h \in T
  <2>1. T \subseteq Named BY <1>15
  <2>2. Chain(t, f) \subseteq T BY <1>18, <1>19, <2>1, ChainWithin
  <2>. QED BY <1>14, <1>15, <2>2 DEF Children
<1>21. r[p] < r[h] BY <1>15, <1>20
<1>22. r[p] \in Nat /\ r[h] \in Nat BY <1>2, <1>4, <1>8
<1>. QED BY <1>13, <1>21, <1>22

\* Links lead to children.
LEMMA LinkedChild ==
  ASSUME NEW t, NEW m \in Handles, NEW n \in Named
  PROVE  /\ Child(t, m, n) => n \in Children(t, m)
         /\ \A q : m \in Children(t, q) /\ Sibling(t, m, n) => n \in Children(t, q)
BY ChainStart, ChainStep DEF Child, Sibling, Children

LEMMA FamilyIs ==
  ASSUME NEW t, Sound(t), NEW h \in Named, Occupied(t, h), NEW u, Sound(u), Spliced(t, h, u)
  PROVE  Family(t, h) = Below(u, h) \cup {h}
<1>1. Shaped(t) /\ Kinship(t) /\ Alone(t) /\ Shaped(u) /\ Kinship(u) /\ h \in Handles /\ Occupied(u, h)
  BY HandlesAre DEF Sound, Spliced
<1>2. PICK F : F = Below(u, h) \cup {h} OBVIOUS
<1>3. \A x \in F : x \in Named /\ x \in Handles /\ Occupied(t, x) /\ Occupied(u, x)
  <2>1. \A x \in Below(u, h) : x \in Named /\ Occupied(u, x) BY <1>1, BelowOccupied
  <2>. QED BY <1>1, <1>2, <2>1, HandlesAre DEF Spliced
<1>4. ASSUME NEW x \in F PROVE Children(t, x) \subseteq F
  <2>1. PICK S, f : S = {y \in F : t[y].parent = x} /\ f = t[x].first_child OBVIOUS
  <2>2. x \in Handles /\ Occupied(t, x) /\ Occupied(u, x) BY <1>3
  <2>3. f \in S \cup {0}
    <3>1. ASSUME f # 0 PROVE f \in S
      <4>1. f \in Named /\ Child(t, x, f) BY <1>1, <2>1, <2>2, <3>1, LinkAt
      <4>2. t[f].parent = x BY <1>1, <2>2, <4>1 DEF Kinship
      <4>3. f # h => Child(u, x, f) BY <2>2, <4>1 DEF Spliced
      <4>4. f \in F BY <1>2, <4>1, <4>3, LinkedBelow DEF Leads
      <4>. QED BY <2>1, <4>2, <4>4
    <3>. QED BY <3>1
  <2>4. ASSUME NEW y \in S PROVE t[y].next_sibling \in S \cup {0}
    <3>1. SUFFICES ASSUME t[y].next_sibling # 0 PROVE t[y].next_sibling \in S OBVIOUS
    <3>2. y \in F /\ y \in Handles /\ Occupied(t, y) /\ t[y].parent = x BY <1>3, <2>1
    <3>3. PICK z \in Named : z = t[y].next_sibling /\ Sibling(t, y, z) BY <1>1, <3>1, <3>2, LinkAt
    <3>4. t[z].parent = x BY <1>1, <3>2, <3>3 DEF Kinship
    <3>5. y # h
      <4>1. ASSUME y = h PROVE FALSE
        <5>1. x # h BY <1>1, <3>1, <3>2, <4>1 DEF Alone, OwnParent
        <5>2. x \in Below(u, h) BY <1>2, <5>1
        <5>. QED BY <3>1, <3>2, <4>1, <5>2, NotBelowItself
      <4>. QED BY <4>1
    <3>6. z # h => Sibling(u, y, z) BY <3>2, <3>3, <3>5 DEF Spliced
    <3>7. z \in F BY <1>2, <3>2, <3>5, <3>6, LinkedBelow DEF Leads
    <3>. QED BY <2>1, <3>3, <3>4, <3>7
  <2>5. S \subseteq Named BY <1>3, <2>1
  <2>6. Chain(t, f) \subseteq S BY <2>3, <2>4, <2>5, ChainWithin
  <2>. QED BY <2>1, <2>6 DEF Children
<1>5. Family(t, h) \subseteq F
  <2>1. F \in SUBSET {x \in Named : Occupied(t, x)} /\ h \in F BY <1>2, <1>3
  <2>. QED BY <1>4, <2>1 DEF Family
<1>6. ASSUME NEW S \in SUBSET {x \in Named : Occupied(t, x)}, h \in S, \A x \in S : Children(t, x) \subseteq S
      PROVE  Below(u, h) \subseteq S
  <2>1. PICK T : T = {y \in S : \E q \in S : y \in Children(t, q)} OBVIOUS
  <2>2. T \subseteq Named /\ T \subseteq Handles /\ T \subseteq S /\ \A x \in T : Occupied(u, x)
    BY <1>6, <2>1, HandlesAre DEF Spliced
  <2>3. ASSUME NEW x \in S, NEW n \in Named, Child(t, x, n) PROVE n \in T
    <3>1. x \in Handles BY <1>6, HandlesAre
    <3>2. n \in Children(t, x) BY <2>3, <3>1, LinkedChild
    <3>. QED BY <1>6, <2>1, <3>2
  <2>4. ASSUME NEW x \in T, NEW n \in Named, Sibling(t, x, n) PROVE n \in T
    <3>1. PICK q \in S : x \in Children(t, q) BY <2>1
    <3>2. n \in Children(t, q) BY <2>2, <2>4, <3>1, LinkedChild
    <3>. QED BY <1>6, <2>1, <3>2
  <2>5. ASSUME NEW n \in Named, Child(u, h, n) PROVE n \in T
    <3>1. ASSUME Child(t, h, h), Sibling(t, h, n) PROVE n \in T
      <4>1. h \in T BY <1>6, <2>3, <3>1
      <4>. QED BY <2>4, <3>1, <4>1
    <3>2. Child(t, h, n) \/ (Child(t, h, h) /\ Sibling(t, h, n)) BY <1>1, <2>5 DEF Spliced
    <3>. QED BY <1>6, <2>3, <3>1, <3>2
  <2>6. ASSUME NEW x \in T, NEW n \in Named, Leads(u, x, n) PROVE n \in T
    <3>1. x \in S /\ x \in Handles BY <2>2
    <3>2. \/ Child(t, x, n) \/ Sibling(t, x, n)
          \/ Child(t, x, h) /\ Sibling(t, h, n)
          \/ Sibling(t, x, h) /\ Sibling(t, h, n)
      BY <2>6, <3>1 DEF Leads, Spliced
    <3>3. Child(t, x, h) \/ Sibling(t, x, h) => h \in T BY <2>3, <2>4, <3>1
    <3>. QED BY <2>3, <2>4, <3>1, <3>2, <3>3
  <2>7. Below(u, h) \subseteq T BY <1>1, <2>2, <2>5, <2>6, BelowClosed
  <2>. QED BY <2>2, <2>7
<1>7. F \subseteq Family(t, h)
  <2>1. SUFFICES ASSUME NEW n \in F PROVE n \in Family(t, h) OBVIOUS
  <2>2. n \in Handles /\ Occupied(t, n) BY <1>3
  <2>3. ASSUME NEW S \in SUBSET {x \in Named : Occupied(t, x)}, h \in S, \A x \in S : Children(t, x) \subseteq S
        PROVE  n \in S
    <3>1. Below(u, h) \subseteq S BY <1>6, <2>3
    <3>. QED BY <1>2, <2>3, <3>1
  <2>. QED BY <2>2, <2>3 DEF Family
<1>. QED BY <1>2, <1>5, <1>7

-----------------------------------------------------------------------------
(* Properties fill the slots from the first on, each key in one. *)

Slots == 1 .. PROP_COUNT

Packed(q) ==
  /\ q \in Props
  /\ \A i, j \in Slots : i < j /\ q[i][1] = 0 => q[j][1] = 0
  /\ \A i, j \in Slots : q[i][1] = q[j][1] /\ q[i][1] # 0 => i = j

Used(q) == {i \in Slots : q[i][1] # 0}

LEMMA KeyedIs ==
  ASSUME NEW q, Packed(q)
  PROVE  /\ DOMAIN Keyed(q) = {q[i][1] : i \in Used(q)}
         /\ Keyed(q) = [k \in DOMAIN Keyed(q) |-> Keyed(q)[k]]
         /\ \A i \in Used(q) : Keyed(q)[q[i][1]] = q[i][2]
<1>1. PICK U : U = Used(q) OBVIOUS
<1>2. PICK f : f = [k \in {q[i][1] : i \in U} |-> q[CHOOSE i \in U : q[i][1] = k][2]] OBVIOUS
<1>3. Keyed(q) = f BY <1>1, <1>2 DEF Keyed, Used, Slots
<1>4. ASSUME NEW i \in U PROVE f[q[i][1]] = q[i][2]
  <2>1. PICK k : k = q[i][1] OBVIOUS
  <2>2. PICK j : j = CHOOSE x \in U : q[x][1] = k OBVIOUS
  <2>3. j \in U /\ q[j][1] = k BY <2>1, <2>2
  <2>4. j = i BY <1>1, <2>1, <2>3 DEF Packed, Used
  <2>5. f[k] = q[j][2] BY <1>2, <2>1, <2>2
  <2>. QED BY <2>1, <2>4, <2>5
<1>. QED BY <1>1, <1>2, <1>3, <1>4

\* A key that is set anew takes a free slot: there are fewer keys than slots.
LEMMA KeysFewer ==
  ASSUME NEW q, Packed(q), NEW i \in Slots, q[i][1] = 0
  PROVE  Cardinality(DOMAIN Keyed(q)) < PROP_COUNT
<1>1. PICK U, K : U = Used(q) /\ K = {q[j][1] : j \in U} OBVIOUS
<1>2. DOMAIN Keyed(q) = K BY <1>1, KeyedIs
<1>3. PROP_COUNT \in Nat BY TreeAssumption
<1>4. IsFiniteSet(Slots) /\ Cardinality(Slots) = PROP_COUNT
  <2>1. PICK z \in Int : z = 1 OBVIOUS
  <2>2. IsFiniteSet(z .. PROP_COUNT) /\ Cardinality(z .. PROP_COUNT) = IF z > PROP_COUNT THEN 0 ELSE PROP_COUNT - z + 1
    BY <1>3, FS_Interval
  <2>. QED BY <1>3, <2>1, <2>2, TreeAssumption DEF Slots
<1>5. IsFiniteSet(Slots \ {i}) /\ Cardinality(Slots \ {i}) = PROP_COUNT - 1 BY <1>4, FS_RemoveElement
<1>6. U \subseteq Slots \ {i} BY <1>1 DEF Used
<1>7. IsFiniteSet(U) /\ Cardinality(U) \in Nat /\ Cardinality(U) <= PROP_COUNT - 1
  BY <1>5, <1>6, FS_Subset, FS_CardinalityType
<1>8. PICK f : f = [j \in U |-> q[j][1]] OBVIOUS
<1>9. f \in Surjection(U, K) BY <1>1, <1>8 DEF Surjection
<1>10. IsFiniteSet(K) /\ Cardinality(K) <= Cardinality(U) BY <1>7, <1>9, FS_Surjection
<1>11. Cardinality(K) \in Nat BY <1>10, FS_CardinalityType
<1>. QED BY <1>2, <1>3, <1>7, <1>10, <1>11

\* A slot that is the key's or free is given a value.
SetAt(q, r, i, key, value) ==
  /\ q[i][1] \in {key, 0} /\ r[i][1] = key /\ r[i][2] = value
  /\ \A j \in Slots : j # i => r[j] = q[j]

KeyedWith(q, r, key, value) ==
  Keyed(r) = [k \in DOMAIN Keyed(q) \cup {key} |-> IF k = key THEN value ELSE Keyed(q)[k]]

LEMMA SlotKeyed ==
  ASSUME NEW q, Packed(q), NEW r, Packed(r), NEW i \in Slots, NEW key, key # 0, NEW value,
         SetAt(q, r, i, key, value)
  PROVE  KeyedWith(q, r, key, value)
<1>1. Used(r) = Used(q) \cup {i} BY DEF Used, SetAt
<1>2. PICK D, E : D = DOMAIN Keyed(q) /\ E = DOMAIN Keyed(r) OBVIOUS
<1>3. D = {q[j][1] : j \in Used(q)} BY <1>2, KeyedIs
<1>4. E = {r[j][1] : j \in Used(r)} BY <1>2, KeyedIs
<1>5. \A j \in Used(q) : r[j][1] = q[j][1] BY DEF Used, SetAt
<1>6. r[i][1] = key BY DEF SetAt
<1>7. E = D \cup {key}
  <2>1. \A k : k \in D <=> \E j \in Used(q) : k = q[j][1] BY <1>3
  <2>2. \A k : k \in E <=> \E j \in Used(r) : k = r[j][1] BY <1>4
  <2>3. \A k : k \in E <=> k \in D \cup {key} BY <1>1, <1>5, <1>6, <2>1, <2>2
  <2>. QED BY <2>3
<1>8. ASSUME NEW k \in D \cup {key}
      PROVE  Keyed(r)[k] = IF k = key THEN value ELSE Keyed(q)[k]
  <2>1. CASE k = key
    <3>1. i \in Used(r) BY <1>1
    <3>2. Keyed(r)[r[i][1]] = r[i][2] BY <3>1, KeyedIs
    <3>. QED BY <2>1, <3>2 DEF SetAt
  <2>2. CASE k # key
    <3>1. PICK j \in Used(q) : k = q[j][1] BY <1>3, <1>8, <2>2
    <3>2. j \in Slots /\ j # i BY <2>2, <3>1 DEF Used, SetAt
    <3>3. r[j] = q[j] /\ j \in Used(r) BY <1>1, <3>1, <3>2 DEF SetAt
    <3>4. Keyed(r)[r[j][1]] = r[j][2] BY <3>3, KeyedIs
    <3>5. Keyed(q)[q[j][1]] = q[j][2] BY <3>1, KeyedIs
    <3>. QED BY <2>2, <3>1, <3>3, <3>4, <3>5
  <2>. QED BY <2>1, <2>2
<1>9. Keyed(r) = [k \in E |-> Keyed(r)[k]] BY <1>2, KeyedIs
<1>. QED BY <1>2, <1>7, <1>8, <1>9 DEF KeyedWith

\* The first slot that has the key or is free is the key's, if it has one.
LEMMA SlotSet ==
  ASSUME NEW q, Packed(q), NEW key \in Byte, key # 0, NEW value \in Byte,
         NEW slots, slots = {j \in Slots : q[j][1] \in {key, 0}}, slots # {},
         NEW i, i = Min(slots), NEW r, r = [q EXCEPT ![i] = <<key, value>>]
  PROVE  /\ Packed(r)
         /\ KeyedWith(q, r, key, value)
         /\ key \in DOMAIN Keyed(q) \/ Cardinality(DOMAIN Keyed(q)) < PROP_COUNT
<1>1. Slots \subseteq Nat /\ PROP_COUNT \in Nat BY TreeAssumption DEF Slots
<1>2. i \in slots /\ \A j \in slots : i <= j
  <2>1. slots \subseteq Nat BY <1>1
  <2>2. PICK x \in slots : \A j \in slots : x <= j BY <2>1, Least
  <2>. QED BY <2>2 DEF Min
<1>3. i \in Slots /\ i \in Nat /\ q[i][1] \in {key, 0} BY <1>1, <1>2
<1>4. q \in [Slots -> Byte \X Byte] BY DEF Packed, Props, Slots
<1>5. r = [j \in Slots |-> IF j = i THEN <<key, value>> ELSE q[j]] BY <1>3, <1>4
<1>6. r[i][1] = key /\ r[i][2] = value /\ \A j \in Slots : j # i => r[j] = q[j] BY <1>3, <1>5
\* Before i there is neither a free slot nor the key, and the key is in no other slot.
<1>7. \A j \in Slots : j < i => q[j][1] # 0 /\ q[j][1] # key
  <2>1. SUFFICES ASSUME NEW j \in Slots, j < i PROVE j \notin slots OBVIOUS
  <2>2. j \in Nat BY <1>1
  <2>. QED BY <1>2, <1>3, <2>1, <2>2
<1>8. \A j \in Slots : q[j][1] = key => j = i
  <2>1. SUFFICES ASSUME NEW j \in Slots, q[j][1] = key, j # i PROVE FALSE OBVIOUS
  <2>2. j \in Nat /\ i < j BY <1>1, <1>3, <1>7, <2>1
  <2>3. q[i][1] # 0 BY <1>3, <2>1, <2>2 DEF Packed
  <2>. QED BY <1>3, <2>1, <2>3 DEF Packed
<1>9. r \in Props
  <2>1. \A j \in Slots : r[j] \in Byte \X Byte BY <1>3, <1>4, <1>5
  <2>. QED BY <1>5, <2>1 DEF Props, Slots
<1>10. Packed(r)
  <2>1. ASSUME NEW a \in Slots, NEW b \in Slots, a < b, r[a][1] = 0 PROVE r[b][1] = 0
    <3>1. a # i /\ q[a][1] = 0 BY <1>6, <2>1
    <3>2. q[b][1] = 0 BY <2>1, <3>1 DEF Packed
    <3>3. b # i BY <1>7, <2>1, <3>1
    <3>. QED BY <1>6, <3>2, <3>3
  <2>2. ASSUME NEW a \in Slots, NEW b \in Slots, r[a][1] = r[b][1], r[a][1] # 0 PROVE a = b
    <3>1. a = i \/ r[a] = q[a] BY <1>6
    <3>2. b = i \/ r[b] = q[b] BY <1>6
    <3>. QED BY <1>6, <1>8, <2>2, <3>1, <3>2 DEF Packed
  <2>. QED BY <1>9, <2>1, <2>2 DEF Packed
<1>11. SetAt(q, r, i, key, value) BY <1>3, <1>6 DEF SetAt
<1>12. KeyedWith(q, r, key, value)
  BY <1>3, <1>10, <1>11, SlotKeyed
<1>13. key \in DOMAIN Keyed(q) \/ Cardinality(DOMAIN Keyed(q)) < PROP_COUNT
  <2>1. CASE q[i][1] = 0 BY <1>3, <2>1, KeysFewer
  <2>2. CASE q[i][1] # 0
    <3>1. q[i][1] = key /\ i \in Used(q) BY <1>3, <2>2 DEF Used
    <3>2. key \in {q[j][1] : j \in Used(q)} BY <3>1
    <3>. QED BY <3>2, KeyedIs
  <2>. QED BY <2>1, <2>2
<1>. QED BY <1>10, <1>12, <1>13

NoProps == [i \in Slots |-> <<0, 0>>]

LEMMA NoPropsAre ==
  /\ Packed(NoProps) /\ Keyed(NoProps) = <<>>
  /\ EmptyNode.props = NoProps /\ EmptyNode.text_len = 0
<1>1. PICK q : q = NoProps OBVIOUS
<1>2. q \in Props /\ \A i \in Slots : q[i][1] = 0 BY <1>1 DEF NoProps, Props, Slots, Byte
<1>3. Packed(q) BY <1>2 DEF Packed
<1>4. Used(q) = {} BY <1>2 DEF Used
<1>5. Keyed(q) = <<>>
  <2>1. DOMAIN Keyed(q) = {} /\ Keyed(q) = [k \in DOMAIN Keyed(q) |-> Keyed(q)[k]] BY <1>3, <1>4, KeyedIs
  <2>. QED BY <2>1
<1>. QED BY <1>1, <1>3, <1>5 DEF EmptyNode, NoProps, Slots

-----------------------------------------------------------------------------
(* The documents of the trees. *)

\* Nodes that are free have no data.
Tidy(t) ==
  \A h \in Handles : Packed(t[h].props) /\ (~Occupied(t, h) => SameData(t[h], EmptyNode))

LEMMA DocumentAt ==
  ASSUME NEW t, NEW d, d = Document(t), NEW h \in Handles
  PROVE  /\ d.kind[h] = t[h].kind /\ d.text[h] = t[h].text_len /\ d.props[h] = Keyed(t[h].props)
         /\ d.kids[h] = IF Occupied(t, h) THEN Listed(t, h) ELSE <<>>
BY DEF Document

\* Equal parts make equal documents.
LEMMA DocumentIs ==
  ASSUME NEW t, NEW k, NEW l, NEW x, NEW q,
         \A h \in Handles : t[h].kind = k[h] /\ t[h].text_len = x[h] /\ Keyed(t[h].props) = q[h],
         \A h \in Handles : l[h] = IF Occupied(t, h) THEN Listed(t, h) ELSE <<>>,
         k = [h \in Handles |-> k[h]], l = [h \in Handles |-> l[h]],
         x = [h \in Handles |-> x[h]], q = [h \in Handles |-> q[h]]
  PROVE  Document(t) = [kind |-> k, kids |-> l, text |-> x, props |-> q]
<1>1. [h \in Handles |-> t[h].kind] = k OBVIOUS
<1>2. [h \in Handles |-> IF Occupied(t, h) THEN Listed(t, h) ELSE <<>>] = l OBVIOUS
<1>3. [h \in Handles |-> t[h].text_len] = x OBVIOUS
<1>4. [h \in Handles |-> Keyed(t[h].props)] = q OBVIOUS
<1>. QED BY <1>1, <1>2, <1>3, <1>4 DEF Document

LEMMA DocLive ==
  ASSUME NEW t
  PROVE  Doc!Live(Document(t)) = {h \in Handles : Occupied(t, h)}
<1>1. PICK d : d = Document(t) OBVIOUS
<1>2. \A h \in Handles : d.kind[h] = t[h].kind BY <1>1, DocumentAt
<1>3. Doc!Live(d) = {h \in Handles : d.kind[h] # 0} BY DEF Doc!Live, Doc!None
<1>4. \A h \in Handles : d.kind[h] # 0 <=> Occupied(t, h) BY <1>2 DEF Occupied, NODE_FREE
<1>. QED BY <1>1, <1>3, <1>4

LEMMA DocFamily ==
  ASSUME NEW t, Sound(t), NEW h
  PROVE  Doc!Family(Document(t), h) = Family(t, h)
<1>1. PICK d : d = Document(t) OBVIOUS
<1>2. PICK L : L = {x \in Handles : Occupied(t, x)} OBVIOUS
<1>3. Doc!Live(d) = L BY <1>1, <1>2, DocLive
<1>4. L \ {0} = {x \in Named : Occupied(t, x)} BY <1>2, HandlesAre
<1>5. ASSUME NEW x \in L PROVE Doc!Range(d.kids[x]) = Children(t, x)
  <2>1. PICK s : s = Listed(t, x) OBVIOUS
  <2>2. x \in Handles /\ Occupied(t, x) BY <1>2
  <2>3. List(t, x, s) /\ t[x].first_child \in Handles BY <2>1, <2>2, ListedIs, ShapedAt DEF Sound
  <2>4. Children(t, x) = {s[i] : i \in 1 .. Len(s)} BY <2>3, ListHolds
  <2>5. s \in Seq(Named) BY <2>3 DEF List
  <2>6. DOMAIN s = 1 .. Len(s) BY <2>5
  <2>7. d.kids[x] = s BY <1>1, <2>1, <2>2, DocumentAt
  <2>. QED BY <2>4, <2>6, <2>7 DEF Doc!Range
<1>6. Doc!Family(d, h) =
        {n \in L : \A S \in SUBSET (L \ {0}) :
           h \in S /\ (\A x \in S : Doc!Range(d.kids[x]) \subseteq S) => n \in S}
  BY <1>3 DEF Doc!Family
<1>7. \A S \in SUBSET (L \ {0}) :
        (\A x \in S : Doc!Range(d.kids[x]) \subseteq S) <=> (\A x \in S : Children(t, x) \subseteq S)
  BY <1>5
<1>8. Family(t, h) =
        {n \in L : \A S \in SUBSET (L \ {0}) : h \in S /\ (\A x \in S : Children(t, x) \subseteq S) => n \in S}
  BY <1>2, <1>4 DEF Family
<1>. QED BY <1>1, <1>6, <1>7, <1>8

\* What a removal leaves of each node.
LEMMA RemovedNodes ==
  ASSUME NEW t, Sound(t), NEW h \in Named, Occupied(t, h), NEW v, v = Removed(t, h),
         NEW F, F = Family(t, h)
  PROVE  /\ v = [n \in Handles |-> v[n]]
         /\ \A n \in Handles : IF n \in F THEN v[n] = EmptyNode ELSE SameBut(v[n], t[n])
         /\ \A n \in Handles : Occupied(v, n) <=> n \notin F /\ Occupied(t, n)
         /\ \A n \in Handles : Occupied(v, n) => Listed(v, n) = Doc!Without(Listed(t, n), h)
<1>1. PICK u : Sound(u) /\ Spliced(t, h, u) /\ Skips(t, h, u) /\ v = Pruned(u, h) BY RemovedPrunes
<1>2. F = Below(u, h) \cup {h} BY <1>1, FamilyIs
<1>3. v = [n \in Handles |-> IF n \in F THEN EmptyNode ELSE u[n]] BY <1>1, <1>2 DEF Pruned
<1>4. \A n \in Handles : IF n \in F THEN v[n] = EmptyNode ELSE SameBut(v[n], t[n])
  <2>1. \A n \in Handles : n \notin F => n # h BY <1>2
  <2>. QED BY <1>1, <1>3, <2>1 DEF Skips
<1>5. \A n \in Handles : Occupied(v, n) <=> n \notin F /\ Occupied(t, n)
  BY <1>4, EmptyNodeType DEF Occupied, NODE_FREE, SameBut, SameKin
<1>6. \A n \in Handles : Occupied(v, n) => Listed(v, n) = Doc!Without(Listed(t, n), h)
  BY <1>1, <1>2, <1>5, RemovedListed
<1>. QED BY <1>3, <1>4, <1>5, <1>6

LEMMA RemovedTidy ==
  ASSUME NEW t, Sound(t), Tidy(t), NEW h, NEW v, v = Removed(t, h)
  PROVE  Tidy(v)
<1>1. CASE h \notin Named \/ ~Occupied(t, h) BY <1>1 DEF Removed
<1>2. CASE h \in Named /\ Occupied(t, h)
  <2>1. PICK F : F = Family(t, h) OBVIOUS
  <2>2. \A n \in Handles : IF n \in F THEN v[n] = EmptyNode ELSE SameBut(v[n], t[n])
    BY <1>2, <2>1, RemovedNodes
  <2>3. ASSUME NEW n \in Handles PROVE Packed(v[n].props) /\ (~Occupied(v, n) => SameData(v[n], EmptyNode))
    <3>1. CASE n \in F BY <2>2, <3>1, NoPropsAre DEF SameData
    <3>2. CASE n \notin F
      <4>1. SameBut(v[n], t[n]) BY <2>2, <3>2
      <4>2. Occupied(v, n) <=> Occupied(t, n) BY <4>1 DEF Occupied, SameBut, SameKin
      <4>. QED BY <4>1, <4>2 DEF Tidy, SameBut, SameData
    <3>. QED BY <3>1, <3>2
  <2>. QED BY <2>3 DEF Tidy
<1>. QED BY <1>1, <1>2

LEMMA RemovedDocument ==
  ASSUME NEW t, Sound(t), NEW h \in Named, Occupied(t, h), NEW v, v = Removed(t, h)
  PROVE  Document(v) = Doc!Remove(Document(t), h)
<1>1. PICK F : F = Family(t, h) OBVIOUS
<1>2. PICK d : d = Document(t) OBVIOUS
<1>3. Doc!Family(d, h) = F BY <1>1, <1>2, DocFamily
<1>4. PICK k, l, x, q :
        /\ k = [n \in Handles |-> IF n \in F THEN 0 ELSE d.kind[n]]
        /\ l = [n \in Handles |-> IF n \in F THEN <<>> ELSE Doc!Without(d.kids[n], h)]
        /\ x = [n \in Handles |-> IF n \in F THEN 0 ELSE d.text[n]]
        /\ q = [n \in Handles |-> IF n \in F THEN <<>> ELSE d.props[n]]
  OBVIOUS
<1>5. Doc!Remove(d, h) = [kind |-> k, kids |-> l, text |-> x, props |-> q]
  <2>1. [n \in Handles |-> IF n \in F THEN <<>> ELSE [m \in Handles |-> Doc!Without(d.kids[m], h)][n]] = l
    BY <1>4
  <2>. QED BY <1>3, <1>4, <2>1 DEF Doc!Remove, Doc!None
<1>6. \A n \in Handles : v[n].kind = k[n] /\ v[n].text_len = x[n] /\ Keyed(v[n].props) = q[n]
  <2>1. SUFFICES ASSUME NEW n \in Handles
                 PROVE  v[n].kind = k[n] /\ v[n].text_len = x[n] /\ Keyed(v[n].props) = q[n]
    OBVIOUS
  <2>2. IF n \in F THEN v[n] = EmptyNode ELSE SameBut(v[n], t[n]) BY <1>1, RemovedNodes
  <2>3. CASE n \in F
    <3>1. k[n] = 0 /\ x[n] = 0 /\ q[n] = <<>> BY <1>4, <2>3
    <3>. QED BY <2>2, <2>3, <3>1, NoPropsAre, EmptyNodeType
  <2>4. CASE n \notin F
    <3>1. k[n] = d.kind[n] /\ x[n] = d.text[n] /\ q[n] = d.props[n] BY <1>4, <2>4
    <3>2. k[n] = t[n].kind /\ x[n] = t[n].text_len /\ q[n] = Keyed(t[n].props) BY <1>2, <3>1, DocumentAt
    <3>. QED BY <2>2, <2>4, <3>2 DEF SameBut, SameKin, SameData
  <2>. QED BY <2>3, <2>4
<1>7. \A n \in Handles : l[n] = IF Occupied(v, n) THEN Listed(v, n) ELSE <<>>
  <2>1. SUFFICES ASSUME NEW n \in Handles PROVE l[n] = IF Occupied(v, n) THEN Listed(v, n) ELSE <<>>
    OBVIOUS
  <2>2. Occupied(v, n) <=> n \notin F /\ Occupied(t, n) BY <1>1, RemovedNodes
  <2>3. CASE n \in F BY <1>4, <2>2, <2>3
  <2>4. CASE n \notin F /\ ~Occupied(t, n)
    <3>1. l[n] = Doc!Without(d.kids[n], h) /\ d.kids[n] = <<>> BY <1>2, <1>4, <2>4, DocumentAt
    <3>2. Doc!Without(<<>>, h) = <<>>
      <4>1. PICK s : s \in Seq(Named) /\ s = <<>> /\ Len(s) = 0 BY SingleLists
      <4>2. \A i \in 1 .. Len(s) : s[i] # h BY <4>1
      <4>3. Doc!Without(s, h) = s BY <4>1, <4>2, WithoutNone
      <4>. QED BY <4>1, <4>3
    <3>. QED BY <2>2, <2>4, <3>1, <3>2
  <2>5. CASE n \notin F /\ Occupied(t, n)
    <3>1. l[n] = Doc!Without(Listed(t, n), h) BY <1>2, <1>4, <2>5, DocumentAt
    <3>2. Occupied(v, n) /\ Listed(v, n) = Doc!Without(Listed(t, n), h) BY <1>1, <2>2, <2>5, RemovedNodes
    <3>. QED BY <3>1, <3>2
  <2>. QED BY <2>3, <2>4, <2>5
<1>8. /\ k = [n \in Handles |-> k[n]] /\ l = [n \in Handles |-> l[n]]
      /\ x = [n \in Handles |-> x[n]] /\ q = [n \in Handles |-> q[n]]
  BY <1>4
<1>9. Document(v) = [kind |-> k, kids |-> l, text |-> x, props |-> q] BY <1>6, <1>7, <1>8, DocumentIs
<1>. QED BY <1>2, <1>5, <1>9

LEMMA LinkedData ==
  ASSUME NEW v \in [Handles -> Nodes], NEW h \in Named, NEW p \in Handles, NEW kind \in Byte,
         NEW w, w = Linked(v, h, p, kind)
  PROVE  \A m \in Handles :
           /\ w[m].kind = IF m = h THEN kind ELSE v[m].kind
           /\ SameData(w[m], IF m = h THEN EmptyNode ELSE v[m])
<1>1. h \in Handles BY HandlesAre
<1>2. PICK c \in Handles : c = v[p].first_child BY NodeAt
<1>3. PICK x : x = [EmptyNode EXCEPT !.kind = kind, !.parent = p, !.next_sibling = c] OBVIOUS
<1>4. x \in Nodes /\ x.kind = kind /\ SameData(x, EmptyNode)
  <2>1. PICK e \in Nodes : e = EmptyNode BY EmptyNodeType
  <2>2. x = [e EXCEPT !.kind = kind, !.parent = p, !.next_sibling = c] BY <1>3, <2>1
  <2>. QED BY <1>2, <2>1, <2>2 DEF Nodes, SameData
<1>5. PICK v1 : v1 = [v EXCEPT ![h] = x] OBVIOUS
<1>6. v1 \in [Handles -> Nodes] /\ v1[h] = x /\ \A m \in Handles : m # h => v1[m] = v[m] BY <1>1, <1>4, <1>5
<1>7. PICK y : y = [v1[p] EXCEPT !.first_child = h] OBVIOUS
<1>8. SameBut(y, v1[p])
  <2>1. PICK z \in Nodes : z = v1[p] BY <1>6
  <2>2. y = [z EXCEPT !.first_child = h] BY <1>7, <2>1
  <2>. QED BY <1>1, <2>1, <2>2, ChildSet
<1>9. w = [v1 EXCEPT ![p] = y]
  <2>1. w = [[v EXCEPT ![h] = x] EXCEPT ![p].first_child = h] BY <1>2, <1>3 DEF Linked
  <2>. QED BY <1>5, <1>6, <1>7, <2>1
<1>10. w[p] = y /\ \A m \in Handles : m # p => w[m] = v1[m] BY <1>6, <1>9
<1>11. \A m \in Handles : SameBut(w[m], v1[m]) BY <1>8, <1>10 DEF SameBut, SameKin, SameData
<1>. QED BY <1>4, <1>6, <1>11 DEF SameBut, SameKin, SameData

LEMMA LinkedTidy ==
  ASSUME NEW v, Sound(v), Tidy(v), NEW h \in Named, NEW p \in Handles, NEW kind \in Byte, kind # 0,
         NEW w, w = Linked(v, h, p, kind)
  PROVE  Tidy(w)
<1>1. v \in [Handles -> Nodes] BY DEF Sound, Shaped
<1>2. \A m \in Handles : /\ w[m].kind = IF m = h THEN kind ELSE v[m].kind
                         /\ SameData(w[m], IF m = h THEN EmptyNode ELSE v[m])
  BY <1>1, LinkedData
<1>3. ASSUME NEW m \in Handles PROVE Packed(w[m].props) /\ (~Occupied(w, m) => SameData(w[m], EmptyNode))
  <2>1. CASE m = h
    <3>1. SameData(w[m], EmptyNode) BY <1>2, <2>1
    <3>. QED BY <3>1, NoPropsAre DEF SameData
  <2>2. CASE m # h
    <3>1. SameData(w[m], v[m]) /\ w[m].kind = v[m].kind BY <1>2, <2>2
    <3>2. Occupied(w, m) <=> Occupied(v, m) BY <3>1 DEF Occupied
    <3>. QED BY <3>1, <3>2 DEF Tidy, SameData
  <2>. QED BY <2>1, <2>2
<1>. QED BY <1>3 DEF Tidy

LEMMA CreatedTidy ==
  ASSUME NEW t, Sound(t), Tidy(t), NEW h, NEW p, NEW kind \in Byte, NEW w, w = Created(t, h, p, kind)
  PROVE  Tidy(w)
<1>1. CASE h \notin Named \/ ~Occupied(t, p) \/ kind = NODE_FREE BY <1>1 DEF Created
<1>2. CASE h \in Named /\ Occupied(t, p) /\ kind # NODE_FREE
  <2>1. PICK v : v = Removed(t, h) OBVIOUS
  <2>2. p \in Handles /\ kind # 0 BY <1>2 DEF Occupied, NODE_FREE
  <2>3. Sound(v) /\ Tidy(v) BY <2>1, RemovedSound, RemovedTidy
  <2>4. w = Linked(v, h, p, kind) BY <1>2, <2>1 DEF Created
  <2>. QED BY <1>2, <2>2, <2>3, <2>4, LinkedTidy
<1>. QED BY <1>1, <1>2

\* Create, part by part.
Adds(d, h, p, kind) ==
  [d EXCEPT !.kind[h] = kind,
            !.kids[p] = IF p = h \/ p \in Doc!Live(d) THEN <<h>> \o @ ELSE <<>>]

OnHandles(f) == f = [n \in Handles |-> f[n]]

AddsTo(k, l, x, q, L, h, p, kind) ==
  [kind |-> [n \in Handles |-> IF n = h THEN kind ELSE k[n]],
   kids |-> [n \in Handles |-> IF n = p THEN (IF p = h \/ p \in L THEN <<h>> \o l[n] ELSE <<>>) ELSE l[n]],
   text |-> x, props |-> q]

LEMMA AddsIs ==
  ASSUME NEW k, NEW l, NEW x, NEW q, NEW d, d = [kind |-> k, kids |-> l, text |-> x, props |-> q],
         OnHandles(k), OnHandles(l), NEW h, NEW p, NEW kind
  PROVE  Adds(d, h, p, kind) = AddsTo(k, l, x, q, Doc!Live(d), h, p, kind)
<1>1. PICK L : L = Doc!Live(d) OBVIOUS
<1>2. PICK y : y = IF p = h \/ p \in L THEN <<h>> \o l[p] ELSE <<>> OBVIOUS
<1>3. PICK a, b : a = [k EXCEPT ![h] = kind] /\ b = [l EXCEPT ![p] = y] OBVIOUS
<1>4. d.kind = k /\ d.kids = l OBVIOUS
<1>5. Adds(d, h, p, kind) = [[d EXCEPT !.kind = a] EXCEPT !.kids = b]
  <2>1. [d EXCEPT !.kind = a].kids = l OBVIOUS
  <2>. QED BY <1>1, <1>2, <1>3, <1>4, <2>1 DEF Adds
<1>6. [[d EXCEPT !.kind = a] EXCEPT !.kids = b] = [kind |-> a, kids |-> b, text |-> x, props |-> q]
  <2>1. PICK e : e = [d EXCEPT !.kind = a] OBVIOUS
  <2>2. e = [kind |-> a, kids |-> l, text |-> x, props |-> q] BY <2>1
  <2>3. [e EXCEPT !.kids = b] = [kind |-> a, kids |-> b, text |-> x, props |-> q] BY <2>2
  <2>. QED BY <2>1, <2>3
<1>7. a = [n \in Handles |-> IF n = h THEN kind ELSE k[n]] BY <1>3 DEF OnHandles
<1>8. b = [n \in Handles |-> IF n = p THEN (IF p = h \/ p \in L THEN <<h>> \o l[n] ELSE <<>>) ELSE l[n]]
  BY <1>2, <1>3 DEF OnHandles
<1>. QED BY <1>1, <1>5, <1>6, <1>7, <1>8 DEF AddsTo

LEMMA LinkedDocument ==
  ASSUME NEW v, Sound(v), Tidy(v), NEW h \in Named, ~Occupied(v, h), NEW p \in Handles,
         NEW kind \in Byte, kind # 0, NEW w, w = Linked(v, h, p, kind), Sound(w), p = h => v[h].first_child = 0
  PROVE  Document(w) = Adds(Document(v), h, p, kind)
<1>1. PICK d : d = Document(v) OBVIOUS
<1>2. PICK k, l, x, q :
        /\ k = [n \in Handles |-> v[n].kind]
        /\ l = [n \in Handles |-> IF Occupied(v, n) THEN Listed(v, n) ELSE <<>>]
        /\ x = [n \in Handles |-> v[n].text_len]
        /\ q = [n \in Handles |-> Keyed(v[n].props)]
  OBVIOUS
<1>3. d = [kind |-> k, kids |-> l, text |-> x, props |-> q] BY <1>1, <1>2 DEF Document
<1>4. PICK L : L = Doc!Live(d) OBVIOUS
<1>5. p \in L <=> Occupied(v, p) BY <1>1, <1>4, DocLive
<1>6. PICK k2, l2 :
        /\ k2 = [n \in Handles |-> IF n = h THEN kind ELSE k[n]]
        /\ l2 = [n \in Handles |->
                   IF n = p THEN (IF p = h \/ p \in L THEN <<h>> \o l[n] ELSE <<>>) ELSE l[n]]
  OBVIOUS
<1>7. Adds(d, h, p, kind) = [kind |-> k2, kids |-> l2, text |-> x, props |-> q]
  <2>1. OnHandles(k) /\ OnHandles(l) BY <1>2 DEF OnHandles
  <2>2. Adds(d, h, p, kind) = AddsTo(k, l, x, q, L, h, p, kind) BY <1>3, <1>4, <2>1, AddsIs
  <2>. QED BY <1>6, <2>2 DEF AddsTo
<1>8. v \in [Handles -> Nodes] BY DEF Sound, Shaped
<1>9. Hung(v, h, p, w) BY <1>8, LinkedHangs
<1>10. \A n \in Handles : w[n].kind = k2[n] /\ w[n].text_len = x[n] /\ Keyed(w[n].props) = q[n]
  <2>1. SUFFICES ASSUME NEW n \in Handles
                 PROVE  w[n].kind = k2[n] /\ w[n].text_len = x[n] /\ Keyed(w[n].props) = q[n]
    OBVIOUS
  <2>2. w[n].kind = k2[n] BY <1>2, <1>6, <1>8, LinkedData
  <2>3. SameData(w[n], IF n = h THEN EmptyNode ELSE v[n]) BY <1>8, LinkedData
  <2>4. SameData(w[n], v[n])
    <3>1. n = h => SameData(v[n], EmptyNode) BY DEF Tidy
    <3>. QED BY <2>3, <3>1 DEF SameData
  <2>. QED BY <1>2, <2>2, <2>4 DEF SameData
<1>11. \A n \in Handles : l2[n] = IF Occupied(w, n) THEN Listed(w, n) ELSE <<>>
  <2>1. SUFFICES ASSUME NEW n \in Handles PROVE l2[n] = IF Occupied(w, n) THEN Listed(w, n) ELSE <<>>
    OBVIOUS
  <2>2. Occupied(w, n) <=> n = h \/ Occupied(v, n) BY <1>9 DEF Hung
  <2>3. l[n] = IF Occupied(v, n) THEN Listed(v, n) ELSE <<>> BY <1>2
  <2>4. CASE n = p /\ p = h
    <3>1. l2[n] = <<h>> \o <<>> BY <1>5, <1>6, <2>3, <2>4
    <3>2. <<h>> \o <<>> = <<h>> OBVIOUS
    <3>3. Listed(w, h) = <<h>> BY <1>9, <2>4, LinkedNew
    <3>. QED BY <2>2, <2>4, <3>1, <3>2, <3>3
  <2>5. CASE n = p /\ p # h /\ Occupied(v, p)
    <3>1. l2[n] = <<h>> \o Listed(v, p) BY <1>5, <1>6, <2>3, <2>5
    <3>2. Listed(w, p) = <<h>> \o Listed(v, p) BY <1>9, <2>5, LinkedParent
    <3>. QED BY <2>2, <2>5, <3>1, <3>2
  <2>6. CASE n = p /\ p # h /\ ~Occupied(v, p) BY <1>5, <1>6, <2>2, <2>6
  <2>7. CASE n # p /\ n = h
    <3>1. Listed(w, h) = <<>> BY <1>9, <2>7, LinkedNew
    <3>. QED BY <1>6, <2>2, <2>3, <2>7, <3>1
  <2>8. CASE n # p /\ n # h
    <3>1. l2[n] = l[n] BY <1>6, <2>8
    <3>2. Occupied(v, n) => Listed(w, n) = Listed(v, n) BY <1>9, <2>8, LinkedOthers
    <3>. QED BY <2>2, <2>3, <2>8, <3>1, <3>2
  <2>. QED BY <2>4, <2>5, <2>6, <2>7, <2>8
<1>12. /\ k2 = [n \in Handles |-> k2[n]] /\ l2 = [n \in Handles |-> l2[n]]
       /\ x = [n \in Handles |-> x[n]] /\ q = [n \in Handles |-> q[n]]
  BY <1>2, <1>6
<1>13. Document(w) = [kind |-> k2, kids |-> l2, text |-> x, props |-> q] BY <1>10, <1>11, <1>12, DocumentIs
<1>. QED BY <1>1, <1>7, <1>13

LEMMA CreatedDocument ==
  ASSUME NEW t, Sound(t), Tidy(t), NEW h \in Named, NEW p, Occupied(t, p), NEW kind \in Byte, kind # 0,
         NEW w, w = Created(t, h, p, kind)
  PROVE  Document(w) = Doc!Create(Document(t), h, p, kind)
<1>1. PICK v : v = Removed(t, h) OBVIOUS
<1>2. p \in Handles /\ h \in Handles BY HandlesAre DEF Occupied
<1>3. Sound(v) /\ ~Occupied(v, h) /\ Tidy(v) BY <1>1, RemovedSound, RemovedTidy
<1>4. w = Linked(v, h, p, kind) BY <1>1 DEF Created, NODE_FREE
<1>5. Occupied(v, p) \/ v[p] = EmptyNode BY <1>1, <1>2, RemovedSound
<1>6. Sound(w) BY <1>2, <1>3, <1>4, <1>5, EmptyNodeType, LinkedSound
<1>7. p = h => v[h].first_child = 0 BY <1>3, <1>5, EmptyNodeType
<1>8. Document(w) = Adds(Document(v), h, p, kind) BY <1>2, <1>3, <1>4, <1>6, <1>7, LinkedDocument
<1>9. PICK d, e : d = Document(t) /\ e = Document(v) OBVIOUS
<1>10. e = IF h \in Doc!Live(d) THEN Doc!Remove(d, h) ELSE d
  <2>1. h \in Doc!Live(d) <=> Occupied(t, h) BY <1>2, <1>9, DocLive
  <2>2. CASE Occupied(t, h) BY <1>1, <1>9, <2>1, <2>2, RemovedDocument
  <2>3. CASE ~Occupied(t, h)
    <3>1. v = t BY <1>1, <2>3 DEF Removed
    <3>. QED BY <1>9, <2>1, <2>3, <3>1
  <2>. QED BY <2>2, <2>3
<1>11. Doc!Create(d, h, p, kind) = Adds(e, h, p, kind) BY <1>10 DEF Doc!Create, Adds
<1>. QED BY <1>8, <1>9, <1>11

\* A property that is set.
LEMMA WithPropNodes ==
  ASSUME NEW t, Sound(t), Tidy(t), NEW h \in Byte, NEW key \in Byte, NEW value \in Byte,
         NEW w, w = WithProp(t, h, key, value), w # t
  PROVE  /\ h \in Handles /\ Occupied(t, h) /\ key # 0
         /\ \A n \in Handles : n # h => w[n] = t[n]
         /\ w[h].kind = t[h].kind /\ w[h].text_len = t[h].text_len /\ Packed(w[h].props)
         /\ KeyedWith(t[h].props, w[h].props, key, value)
         /\ \/ key \in DOMAIN Keyed(t[h].props)
            \/ Cardinality(DOMAIN Keyed(t[h].props)) < PROP_COUNT
<1>1. PICK slots : slots = {i \in Slots : t[h].props[i][1] \in {key, 0}} OBVIOUS
<1>2. /\ Occupied(t, h) /\ key # 0 /\ slots # {}
      /\ w = [t EXCEPT ![h].props[Min(slots)] = <<key, value>>]
  BY <1>1 DEF WithProp, Slots
<1>3. h \in Handles /\ t \in [Handles -> Nodes] BY <1>2 DEF Occupied, Sound, Shaped
<1>4. PICK i : i = Min(slots) OBVIOUS
<1>5. PICK x \in Nodes : x = t[h] BY <1>3
<1>6. PICK q, r : q = x.props /\ r = [q EXCEPT ![i] = <<key, value>>] OBVIOUS
<1>7. PICK y : y = [x EXCEPT !.props = r] OBVIOUS
<1>8. w = [t EXCEPT ![h] = y] BY <1>2, <1>3, <1>4, <1>5, <1>6, <1>7
<1>9. Packed(q) BY <1>3, <1>5, <1>6 DEF Tidy
<1>10. /\ Packed(r) /\ KeyedWith(q, r, key, value)
       /\ key \in DOMAIN Keyed(q) \/ Cardinality(DOMAIN Keyed(q)) < PROP_COUNT
  <2>1. slots = {j \in Slots : q[j][1] \in {key, 0}} BY <1>1, <1>5, <1>6
  <2>. QED BY <1>2, <1>4, <1>6, <1>9, <2>1, SlotSet
<1>11. y.props = r /\ y.kind = x.kind /\ y.text_len = x.text_len BY <1>7 DEF Nodes
<1>12. w[h] = y /\ \A n \in Handles : n # h => w[n] = t[n] BY <1>3, <1>8
<1>. QED BY <1>2, <1>3, <1>5, <1>6, <1>10, <1>11, <1>12

LEMMA WithPropTidy ==
  ASSUME NEW t, Sound(t), Tidy(t), NEW h \in Byte, NEW key \in Byte, NEW value \in Byte,
         NEW w, w = WithProp(t, h, key, value)
  PROVE  Tidy(w)
<1>1. CASE w = t BY <1>1
<1>2. CASE w # t
  <2>1. /\ h \in Handles /\ Occupied(t, h)
        /\ \A n \in Handles : n # h => w[n] = t[n]
        /\ w[h].kind = t[h].kind /\ Packed(w[h].props)
    BY <1>2, WithPropNodes
  <2>2. ASSUME NEW n \in Handles PROVE Packed(w[n].props) /\ (~Occupied(w, n) => SameData(w[n], EmptyNode))
    <3>1. CASE n = h BY <2>1, <3>1 DEF Occupied
    <3>2. CASE n # h
      <4>1. w[n] = t[n] BY <2>1, <3>2
      <4>. QED BY <4>1 DEF Tidy, Occupied
    <3>. QED BY <3>1, <3>2
  <2>. QED BY <2>2 DEF Tidy
<1>. QED BY <1>1, <1>2

LEMMA WithPropDocument ==
  ASSUME NEW t, Sound(t), Tidy(t), NEW h \in Byte, NEW key \in Byte, NEW value \in Byte,
         NEW w, w = WithProp(t, h, key, value), w # t
  PROVE  Document(w) = Doc!SetProp(Document(t), h, key, value)
<1>1. PICK d : d = Document(t) OBVIOUS
<1>2. PICK k, l, x, q :
        /\ k = [n \in Handles |-> t[n].kind]
        /\ l = [n \in Handles |-> IF Occupied(t, n) THEN Listed(t, n) ELSE <<>>]
        /\ x = [n \in Handles |-> t[n].text_len]
        /\ q = [n \in Handles |-> Keyed(t[n].props)]
  OBVIOUS
<1>3. d = [kind |-> k, kids |-> l, text |-> x, props |-> q] BY <1>1, <1>2 DEF Document
<1>4. PICK y : y = Keyed(w[h].props) OBVIOUS
<1>5. h \in Handles /\ y = [i \in DOMAIN q[h] \cup {key} |-> IF i = key THEN value ELSE q[h][i]]
  <2>1. h \in Handles /\ KeyedWith(t[h].props, w[h].props, key, value) BY WithPropNodes
  <2>2. q[h] = Keyed(t[h].props) BY <1>2, <2>1
  <2>. QED BY <1>4, <2>1, <2>2 DEF KeyedWith
<1>6. PICK q2 : q2 = [n \in Handles |-> IF n = h THEN y ELSE q[n]] OBVIOUS
<1>7. Doc!SetProp(d, h, key, value) = [kind |-> k, kids |-> l, text |-> x, props |-> q2]
  <2>1. d.props = q BY <1>3
  <2>2. Doc!SetProp(d, h, key, value) = [d EXCEPT !.props = [q EXCEPT ![h] = y]]
    BY <1>5, <2>1 DEF Doc!SetProp
  <2>3. [q EXCEPT ![h] = y] = q2 BY <1>2, <1>6
  <2>4. [d EXCEPT !.props = q2] = [kind |-> k, kids |-> l, text |-> x, props |-> q2] BY <1>3
  <2>. QED BY <2>2, <2>3, <2>4
<1>8. SameLinks(t, w) BY WithPropLinks
<1>9. \A n \in Handles : w[n].kind = k[n] /\ w[n].text_len = x[n] /\ Keyed(w[n].props) = q2[n]
  <2>1. SUFFICES ASSUME NEW n \in Handles
                 PROVE  w[n].kind = k[n] /\ w[n].text_len = x[n] /\ Keyed(w[n].props) = q2[n]
    OBVIOUS
  <2>2. /\ \A m \in Handles : m # h => w[m] = t[m]
        /\ w[h].kind = t[h].kind /\ w[h].text_len = t[h].text_len
    BY WithPropNodes
  <2>3. k[n] = t[n].kind /\ x[n] = t[n].text_len /\ q[n] = Keyed(t[n].props) BY <1>2
  <2>. QED BY <1>4, <1>6, <2>2, <2>3
<1>10. \A n \in Handles : l[n] = IF Occupied(w, n) THEN Listed(w, n) ELSE <<>>
  BY <1>2, <1>8, LinksAreSame, SameLinksListed
<1>11. /\ k = [n \in Handles |-> k[n]] /\ l = [n \in Handles |-> l[n]]
       /\ x = [n \in Handles |-> x[n]] /\ q2 = [n \in Handles |-> q2[n]]
  BY <1>2, <1>6
<1>12. Document(w) = [kind |-> k, kids |-> l, text |-> x, props |-> q2] BY <1>9, <1>10, <1>11, DocumentIs
<1>. QED BY <1>1, <1>7, <1>12

\* A text that is set.
LEMMA WithTextNodes ==
  ASSUME NEW t, Sound(t), NEW h, NEW len \in Word, NEW w, w = WithText(t, h, len), Occupied(t, h)
  PROVE  /\ h \in Handles /\ \A n \in Handles : n # h => w[n] = t[n]
         /\ w[h].kind = t[h].kind /\ w[h].text_len = len /\ w[h].props = t[h].props
<1>1. h \in Handles /\ t \in [Handles -> Nodes] BY DEF Occupied, Sound, Shaped
<1>2. PICK x \in Nodes : x = t[h] BY <1>1
<1>3. PICK y : y = [x EXCEPT !.text_len = len] OBVIOUS
<1>4. w = [t EXCEPT ![h] = y] BY <1>1, <1>2, <1>3 DEF WithText
<1>5. y.kind = x.kind /\ y.text_len = len /\ y.props = x.props BY <1>2, <1>3 DEF Nodes
<1>. QED BY <1>1, <1>2, <1>4, <1>5

LEMMA WithTextTidy ==
  ASSUME NEW t, Sound(t), Tidy(t), NEW h, NEW len \in Word, NEW w, w = WithText(t, h, len)
  PROVE  Tidy(w)
<1>1. CASE ~Occupied(t, h) BY <1>1 DEF WithText
<1>2. CASE Occupied(t, h)
  <2>1. /\ h \in Handles /\ \A n \in Handles : n # h => w[n] = t[n]
        /\ w[h].kind = t[h].kind /\ w[h].props = t[h].props
    BY <1>2, WithTextNodes
  <2>2. ASSUME NEW n \in Handles PROVE Packed(w[n].props) /\ (~Occupied(w, n) => SameData(w[n], EmptyNode))
    <3>1. CASE n = h BY <1>2, <2>1, <3>1 DEF Occupied, Tidy
    <3>2. CASE n # h
      <4>1. w[n] = t[n] BY <2>1, <3>2
      <4>. QED BY <4>1 DEF Tidy, Occupied
    <3>. QED BY <3>1, <3>2
  <2>. QED BY <2>2 DEF Tidy
<1>. QED BY <1>1, <1>2

LEMMA WithTextDocument ==
  ASSUME NEW t, Sound(t), NEW h, NEW len \in Word, NEW w, w = WithText(t, h, len), Occupied(t, h)
  PROVE  Document(w) = Doc!SetText(Document(t), h, len)
<1>1. PICK d : d = Document(t) OBVIOUS
<1>2. PICK k, l, x, q :
        /\ k = [n \in Handles |-> t[n].kind]
        /\ l = [n \in Handles |-> IF Occupied(t, n) THEN Listed(t, n) ELSE <<>>]
        /\ x = [n \in Handles |-> t[n].text_len]
        /\ q = [n \in Handles |-> Keyed(t[n].props)]
  OBVIOUS
<1>3. d = [kind |-> k, kids |-> l, text |-> x, props |-> q] BY <1>1, <1>2 DEF Document
<1>4. PICK x2 : x2 = [n \in Handles |-> IF n = h THEN len ELSE x[n]] OBVIOUS
<1>5. Doc!SetText(d, h, len) = [kind |-> k, kids |-> l, text |-> x2, props |-> q]
  <2>1. d.text = x BY <1>3
  <2>2. Doc!SetText(d, h, len) = [d EXCEPT !.text = [x EXCEPT ![h] = len]] BY <2>1 DEF Doc!SetText
  <2>3. [x EXCEPT ![h] = len] = x2 BY <1>2, <1>4
  <2>4. [d EXCEPT !.text = x2] = [kind |-> k, kids |-> l, text |-> x2, props |-> q] BY <1>3
  <2>. QED BY <2>2, <2>3, <2>4
<1>6. SameLinks(t, w) BY WithTextLinks
<1>7. \A n \in Handles : w[n].kind = k[n] /\ w[n].text_len = x2[n] /\ Keyed(w[n].props) = q[n]
  <2>1. SUFFICES ASSUME NEW n \in Handles
                 PROVE  w[n].kind = k[n] /\ w[n].text_len = x2[n] /\ Keyed(w[n].props) = q[n]
    OBVIOUS
  <2>2. /\ \A m \in Handles : m # h => w[m] = t[m]
        /\ w[h].kind = t[h].kind /\ w[h].text_len = len /\ w[h].props = t[h].props
    BY WithTextNodes
  <2>3. k[n] = t[n].kind /\ x[n] = t[n].text_len /\ q[n] = Keyed(t[n].props) BY <1>2
  <2>. QED BY <1>4, <2>2, <2>3
<1>8. \A n \in Handles : l[n] = IF Occupied(w, n) THEN Listed(w, n) ELSE <<>>
  BY <1>2, <1>6, LinksAreSame, SameLinksListed
<1>9. /\ k = [n \in Handles |-> k[n]] /\ l = [n \in Handles |-> l[n]]
      /\ x2 = [n \in Handles |-> x2[n]] /\ q = [n \in Handles |-> q[n]]
  BY <1>2, <1>4
<1>10. Document(w) = [kind |-> k, kids |-> l, text |-> x2, props |-> q] BY <1>7, <1>8, <1>9, DocumentIs
<1>. QED BY <1>1, <1>5, <1>10

\* A new tree is the blank document.
LEMMA NewTreeNodes ==
  /\ \A n \in Handles : NewTree[n].kind = IF n = 0 THEN 255 ELSE 0
  /\ \A n \in Handles : SameData(NewTree[n], EmptyNode)
<1>1. PICK e \in Nodes : e = EmptyNode /\ e.kind = 0 BY EmptyNodeType
<1>2. PICK x : x = [e EXCEPT !.kind = 255] OBVIOUS
<1>3. x.kind = 255 /\ SameData(x, e) BY <1>2 DEF Nodes, SameData
<1>4. \A n \in Handles : NewTree[n] = IF n = 0 THEN x ELSE e BY <1>1, <1>2 DEF NewTree, NODE_ROOT
<1>. QED BY <1>1, <1>3, <1>4 DEF SameData

LEMMA NewTreeDocument == Tidy(NewTree) /\ Document(NewTree) = Doc!Blank
<1>1. PICK t : t = NewTree OBVIOUS
<1>2. \A n \in Handles : t[n].kind = (IF n = 0 THEN 255 ELSE 0) /\ SameData(t[n], EmptyNode)
  BY <1>1, NewTreeNodes
<1>3. \A n \in Handles : Packed(t[n].props) /\ Keyed(t[n].props) = <<>> /\ t[n].text_len = 0
  BY <1>2, NoPropsAre DEF SameData
<1>4. Tidy(t) BY <1>2, <1>3 DEF Tidy
<1>5. PICK k, l :
        /\ k = [n \in Handles |-> IF n = 0 THEN 255 ELSE 0] /\ l = [n \in Handles |-> <<>>]
  OBVIOUS
<1>6. PICK x : x = [n \in Handles |-> 0] OBVIOUS
<1>7. Doc!Blank = [kind |-> k, kids |-> l, text |-> x, props |-> l] BY <1>5, <1>6 DEF Doc!Blank, Doc!None
<1>8. \A n \in Handles : t[n].kind = k[n] /\ t[n].text_len = x[n] /\ Keyed(t[n].props) = l[n]
  BY <1>2, <1>3, <1>5, <1>6
<1>9. \A n \in Handles : l[n] = IF Occupied(t, n) THEN Listed(t, n) ELSE <<>>
  <2>1. \A n \in Handles : Occupied(t, n) => n = 0 BY <1>2 DEF Occupied, NODE_FREE
  <2>2. Listed(t, 0) = <<>> BY <1>1, NewTreeListed
  <2>. QED BY <1>5, <2>1, <2>2
<1>10. k = [n \in Handles |-> k[n]] /\ l = [n \in Handles |-> l[n]] /\ x = [n \in Handles |-> x[n]] BY <1>5, <1>6
<1>11. Document(t) = [kind |-> k, kids |-> l, text |-> x, props |-> l] BY <1>8, <1>9, <1>10, DocumentIs
<1>. QED BY <1>1, <1>4, <1>7, <1>11

-----------------------------------------------------------------------------
(* The trees implement the document. *)

\* The counts of Forest are counts.
LEMMA SameCount == \A S : Doc!Cardinality(S) = Cardinality(S)
BY Zenon DEF Doc!Cardinality, Cardinality

\* Each edit of a tree that changes it is one of the edits of its document.
LEMMA EditCreate ==
  ASSUME NEW t, NEW d, d = Document(t), NEW h \in Named, NEW p, Occupied(t, p), NEW k \in Kinds
  PROVE  Doc!Create(d, h, p, k) \in Doc!Edits(d)
<1>1. p \in Doc!Live(d) BY DocLive DEF Occupied
<1>2. h \in Handles \ {0} BY DEF Named
<1>3. Doc!Create(d, h, p, k) \in {Doc!Create(d, x, y, z) : x \in Handles \ {0}, y \in Doc!Live(d), z \in Kinds}
  BY <1>1, <1>2
<1>. QED BY <1>3 DEF Doc!Edits

LEMMA EditRemove ==
  ASSUME NEW t, NEW d, d = Document(t), NEW h \in Named, Occupied(t, h)
  PROVE  Doc!Remove(d, h) \in Doc!Edits(d)
<1>1. h \in Doc!Live(d) \ {0} BY DocLive DEF Occupied, Named
<1>2. Doc!Remove(d, h) \in {Doc!Remove(d, x) : x \in Doc!Live(d) \ {0}} BY <1>1
<1>. QED BY <1>2 DEF Doc!Edits

LEMMA EditText ==
  ASSUME NEW t, NEW d, d = Document(t), NEW h, Occupied(t, h), NEW len \in Lengths
  PROVE  Doc!SetText(d, h, len) \in Doc!Edits(d)
<1>1. h \in Doc!Live(d) BY DocLive DEF Occupied
<1>2. Doc!SetText(d, h, len) \in {Doc!SetText(d, x, y) : x \in Doc!Live(d), y \in Lengths} BY <1>1
<1>. QED BY <1>2 DEF Doc!Edits

LEMMA EditProp ==
  ASSUME NEW t, NEW d, d = Document(t), NEW h, Occupied(t, h), NEW key \in Keys, NEW value \in Values,
         key \in DOMAIN d.props[h] \/ Doc!Cardinality(DOMAIN d.props[h]) < PROP_COUNT
  PROVE  Doc!SetProp(d, h, key, value) \in Doc!Edits(d)
<1>1. h \in Doc!Live(d) BY DocLive DEF Occupied
<1>2. PICK x : x = <<h, key, value>> OBVIOUS
<1>3. x \in Doc!Live(d) \X Keys \X Values /\ x[1] = h /\ x[2] = key /\ x[3] = value BY <1>1, <1>2
<1>4. x \in {y \in Doc!Live(d) \X Keys \X Values :
               y[2] \in DOMAIN d.props[y[1]] \/ Doc!Cardinality(DOMAIN d.props[y[1]]) < PROP_COUNT}
  BY <1>3
<1>5. Doc!SetProp(d, x[1], x[2], x[3]) \in
        {Doc!SetProp(d, y[1], y[2], y[3]) : y \in {y \in Doc!Live(d) \X Keys \X Values :
               y[2] \in DOMAIN d.props[y[1]] \/ Doc!Cardinality(DOMAIN d.props[y[1]]) < PROP_COUNT}}
  BY <1>4
<1>. QED BY <1>3, <1>5 DEF Doc!Edits

\* What a command does to a mode, seen as documents.
Promised(m, n) ==
  \/ n.staged = m.staged /\ n.committed = m.committed
  \/ n.staged = m.committed /\ n.committed = m.committed
  \/ n.staged = m.staged /\ n.committed = m.staged
  \/ /\ Tidy(n.staged) /\ n.committed = m.committed
     /\ Document(n.staged) \in Doc!Edits(Document(m.staged))

LEMMA CreatePromised ==
  ASSUME NEW t, Sound(t), Tidy(t), NEW h \in Byte, NEW p \in Byte, NEW kind \in Byte, kind # 0 => kind \in Kinds,
         NEW w, w = Created(t, h, p, kind)
  PROVE  w = t \/ (Tidy(w) /\ Document(w) \in Doc!Edits(Document(t)))
<1>1. CASE h \notin Named \/ ~Occupied(t, p) \/ kind = NODE_FREE BY <1>1 DEF Created
<1>2. CASE h \in Named /\ Occupied(t, p) /\ kind # NODE_FREE
  <2>1. kind # 0 /\ kind \in Kinds BY <1>2 DEF NODE_FREE
  <2>2. PICK d : d = Document(t) OBVIOUS
  <2>3. Document(w) = Doc!Create(d, h, p, kind) BY <1>2, <2>1, <2>2, CreatedDocument
  <2>4. Doc!Create(d, h, p, kind) \in Doc!Edits(d) BY <1>2, <2>1, <2>2, EditCreate
  <2>5. Tidy(w) BY CreatedTidy
  <2>. QED BY <2>2, <2>3, <2>4, <2>5
<1>. QED BY <1>1, <1>2

LEMMA RemovePromised ==
  ASSUME NEW t, Sound(t), Tidy(t), NEW h, NEW w, w = Removed(t, h)
  PROVE  w = t \/ (Tidy(w) /\ Document(w) \in Doc!Edits(Document(t)))
<1>1. CASE h \notin Named \/ ~Occupied(t, h) BY <1>1 DEF Removed
<1>2. CASE h \in Named /\ Occupied(t, h)
  <2>1. PICK d : d = Document(t) OBVIOUS
  <2>2. Document(w) = Doc!Remove(d, h) BY <1>2, <2>1, RemovedDocument
  <2>3. Doc!Remove(d, h) \in Doc!Edits(d) BY <1>2, <2>1, EditRemove
  <2>4. Tidy(w) BY RemovedTidy
  <2>. QED BY <2>1, <2>2, <2>3, <2>4
<1>. QED BY <1>1, <1>2

LEMMA SetPropPromised ==
  ASSUME NEW t, Sound(t), Tidy(t), NEW h \in Byte, NEW key \in Byte, NEW value \in Byte,
         key # 0 => key \in Keys, value \in Values, NEW w, w = WithProp(t, h, key, value)
  PROVE  w = t \/ (Tidy(w) /\ Document(w) \in Doc!Edits(Document(t)))
<1>1. SUFFICES ASSUME w # t PROVE Tidy(w) /\ Document(w) \in Doc!Edits(Document(t)) OBVIOUS
<1>2. PICK d : d = Document(t) OBVIOUS
<1>3. /\ h \in Handles /\ Occupied(t, h) /\ key # 0
      /\ key \in DOMAIN Keyed(t[h].props) \/ Cardinality(DOMAIN Keyed(t[h].props)) < PROP_COUNT
  BY <1>1, WithPropNodes
<1>4. d.props[h] = Keyed(t[h].props) BY <1>2, <1>3, DocumentAt
<1>8. /\ key \in Keys /\ value \in Values
      /\ key \in DOMAIN d.props[h] \/ Doc!Cardinality(DOMAIN d.props[h]) < PROP_COUNT
  BY <1>3, <1>4, SameCount
<1>5. Document(w) = Doc!SetProp(d, h, key, value) BY <1>1, <1>2, WithPropDocument
<1>6. Doc!SetProp(d, h, key, value) \in Doc!Edits(d) BY <1>2, <1>3, <1>4, <1>8, EditProp
<1>7. Tidy(w) BY WithPropTidy
<1>. QED BY <1>2, <1>5, <1>6, <1>7

LEMMA SetTextPromised ==
  ASSUME NEW t, Sound(t), Tidy(t), NEW h, NEW len \in Word, len \in Lengths, NEW w, w = WithText(t, h, len)
  PROVE  w = t \/ (Tidy(w) /\ Document(w) \in Doc!Edits(Document(t)))
<1>1. CASE ~Occupied(t, h) BY <1>1 DEF WithText
<1>2. CASE Occupied(t, h)
  <2>1. PICK d : d = Document(t) OBVIOUS
  <2>2. Document(w) = Doc!SetText(d, h, len) BY <1>2, <2>1, WithTextDocument
  <2>3. Doc!SetText(d, h, len) \in Doc!Edits(d) BY <1>2, <2>1, EditText
  <2>4. Tidy(w) BY WithTextTidy
  <2>. QED BY <2>1, <2>2, <2>3, <2>4
<1>. QED BY <1>1, <1>2

LEMMA CommandPromised ==
  ASSUME NEW m \in States, Tidy(m.staged), NEW txn \in Txns, NEW cmd, Heads(cmd, txn), NEW n, n = Apply(m, cmd)
  PROVE  Promised(m, n)
<1>1. Complete(cmd) /\ cmd \in Seq(Byte) /\ cmd # <<>> BY DEF Heads, Complete
<1>2. cmd[1] \in {TUI_CREATE, TUI_REMOVE, TUI_SET_PROP, TUI_SET_TEXT, TUI_ABORT, TUI_COMMIT}
  BY <1>1, ArgsAre DEF Complete
<1>3. PICK t \in Trees : t = m.staged BY DEF States
<1>4. Sound(t) /\ Tidy(t) BY <1>3, TreesAre
<1>5. ASSUME NEW w, n = [m EXCEPT !.staged = w] PROVE n.staged = w /\ n.committed = m.committed
  BY <1>5 DEF States
<1>6. ASSUME NEW w, n = [m EXCEPT !.staged = w],
             w = t \/ (Tidy(w) /\ Document(w) \in Doc!Edits(Document(t)))
      PROVE  Promised(m, n)
  BY <1>3, <1>5, <1>6 DEF Promised
<1>7. txn[1] = cmd[1]
  <2>1. 1 \in 1 .. Len(cmd) BY <1>1
  <2>. QED BY <2>1 DEF Heads
<1>8. ASSUME Len(cmd) = 4
      PROVE  /\ cmd[2] \in Byte /\ cmd[3] \in Byte /\ cmd[4] \in Byte
             /\ txn[3] = cmd[3] /\ txn[4] = cmd[4]
  <2>1. 3 \in 1 .. Len(cmd) /\ 4 \in 1 .. Len(cmd) BY <1>8
  <2>2. txn[3] = cmd[3] /\ txn[4] = cmd[4] BY <2>1 DEF Heads
  <2>. QED BY <1>1, <1>8, <2>2, ArgumentsAre
<1>9. CASE cmd[1] = TUI_CREATE
  <2>1. Len(cmd) = 4 BY <1>1, <1>9, ArgsAre DEF Complete, TUI_CREATE, TUI_ABORT, TUI_COMMIT
  <2>2. PICK w : w = Created(t, cmd[2], cmd[3], cmd[4]) OBVIOUS
  <2>3. n = [m EXCEPT !.staged = w] BY <1>3, <1>9, <2>2 DEF Apply, TUI_CREATE,
          TUI_REMOVE, TUI_SET_PROP, TUI_SET_TEXT, TUI_ABORT, TUI_COMMIT
  <2>4. txn \in Sent(TUI_CREATE) BY <1>7, <1>9 DEF Sent
  <2>5. cmd[4] # 0 => cmd[4] \in Kinds BY <1>8, <2>1, <2>4 DEF Kinds, NODE_FREE
  <2>6. w = t \/ (Tidy(w) /\ Document(w) \in Doc!Edits(Document(t)))
    BY <1>4, <1>8, <2>1, <2>2, <2>5, CreatePromised
  <2>. QED BY <1>6, <2>3, <2>6
<1>10. CASE cmd[1] = TUI_REMOVE
  <2>1. PICK w : w = Removed(t, cmd[2]) OBVIOUS
  <2>2. n = [m EXCEPT !.staged = w] BY <1>3, <1>10, <2>1 DEF Apply, TUI_CREATE,
          TUI_REMOVE, TUI_SET_PROP, TUI_SET_TEXT, TUI_ABORT, TUI_COMMIT
  <2>3. w = t \/ (Tidy(w) /\ Document(w) \in Doc!Edits(Document(t))) BY <1>4, <2>1, RemovePromised
  <2>. QED BY <1>6, <2>2, <2>3
<1>11. CASE cmd[1] = TUI_SET_PROP
  <2>1. Len(cmd) = 4 BY <1>1, <1>11, ArgsAre DEF Complete, TUI_SET_PROP, TUI_ABORT, TUI_COMMIT
  <2>2. PICK w : w = WithProp(t, cmd[2], cmd[3], cmd[4]) OBVIOUS
  <2>3. n = [m EXCEPT !.staged = w] BY <1>3, <1>11, <2>2 DEF Apply, TUI_CREATE,
          TUI_REMOVE, TUI_SET_PROP, TUI_SET_TEXT, TUI_ABORT, TUI_COMMIT
  <2>4. txn \in Sent(TUI_SET_PROP) BY <1>7, <1>11 DEF Sent
  <2>5. (cmd[3] # 0 => cmd[3] \in Keys) /\ cmd[4] \in Values BY <1>8, <2>1, <2>4 DEF Keys, Values
  <2>6. w = t \/ (Tidy(w) /\ Document(w) \in Doc!Edits(Document(t)))
    BY <1>4, <1>8, <2>1, <2>2, <2>5, SetPropPromised
  <2>. QED BY <1>6, <2>3, <2>6
<1>12. CASE cmd[1] = TUI_SET_TEXT
  <2>1. Len(cmd) = 4 BY <1>1, <1>12, ArgsAre DEF Complete, TUI_SET_TEXT, TUI_ABORT, TUI_COMMIT
  <2>2. PICK w, len : len = Length(cmd) /\ w = WithText(t, cmd[2], len) OBVIOUS
  <2>3. n = [m EXCEPT !.staged = w] BY <1>3, <1>12, <2>2 DEF Apply, TUI_CREATE,
          TUI_REMOVE, TUI_SET_PROP, TUI_SET_TEXT, TUI_ABORT, TUI_COMMIT
  <2>4. txn \in Sent(TUI_SET_TEXT) BY <1>7, <1>12 DEF Sent
  <2>5. len \in Word BY <1>8, <2>1, <2>2, LengthIs DEF Length
  <2>6. len = Length(txn) BY <1>8, <2>1, <2>2 DEF Length
  <2>7. len \in Lengths BY <2>4, <2>6 DEF Lengths
  <2>8. w = t \/ (Tidy(w) /\ Document(w) \in Doc!Edits(Document(t)))
    BY <1>4, <2>2, <2>5, <2>7, SetTextPromised
  <2>. QED BY <1>6, <2>3, <2>8
<1>13. CASE cmd[1] = TUI_ABORT
  <2>1. n = [m EXCEPT !.staged = m.committed, !.dirty = TRUE] BY <1>13 DEF Apply, TUI_CREATE,
          TUI_REMOVE, TUI_SET_PROP, TUI_SET_TEXT, TUI_ABORT, TUI_COMMIT
  <2>2. n.staged = m.committed /\ n.committed = m.committed BY <2>1 DEF States
  <2>. QED BY <2>2 DEF Promised
<1>14. CASE cmd[1] = TUI_COMMIT
  <2>1. n = [m EXCEPT !.committed = m.staged, !.dirty = TRUE] BY <1>14 DEF Apply, TUI_CREATE,
          TUI_REMOVE, TUI_SET_PROP, TUI_SET_TEXT, TUI_ABORT, TUI_COMMIT
  <2>2. n.staged = m.staged /\ n.committed = m.staged BY <2>1 DEF States
  <2>. QED BY <2>2 DEF Promised
<1>. QED BY <1>2, <1>9, <1>10, <1>11, <1>12, <1>13, <1>14

\* Besides waiting between transactions, the mode keeps tidy trees.
Neat == Waiting /\ Tidy(staged) /\ Tidy(committed)

LEMMA HandledPromised ==
  ASSUME WholeCommands, Neat, NEW txn \in Txns, HandleTxn(txn)
  PROVE  Promised(Mode, Mode')
<1>1. PICK cmd : Heads(cmd, txn) /\ Mode' = Apply(Mode, cmd) BY TxnsAre, OneCommand DEF Neat, Waiting
<1>2. PICK m \in States : m = Mode BY DEF Neat, Waiting, Inv
<1>3. Tidy(m.staged) BY <1>2 DEF Neat, Mode
<1>4. PICK n : n = Mode' OBVIOUS
<1>5. Promised(m, n) BY <1>1, <1>2, <1>3, <1>4, CommandPromised
<1>. QED BY <1>2, <1>4, <1>5

\* The four ways of Promised, in the variables.
LEMMA PromisedIs ==
  ASSUME Promised(Mode, Mode')
  PROVE  \/ staged' = staged /\ committed' = committed
         \/ staged' = committed /\ committed' = committed
         \/ staged' = staged /\ committed' = staged
         \/ Tidy(staged') /\ committed' = committed /\ Document(staged') \in Doc!Edits(Document(staged))
<1>1. PICK m, n : m = Mode /\ n = Mode' OBVIOUS
<1>2. /\ m.staged = staged /\ m.committed = committed
      /\ n.staged = staged' /\ n.committed = committed'
  BY <1>1 DEF Mode
<1>. QED BY <1>1, <1>2 DEF Promised

LEMMA NeatHolds == ASSUME WholeCommands PROVE Spec => []Neat
<1>1. Init => Neat
  <2>1. Init => Waiting BY InitKeeps DEF Init, Waiting
  <2>. QED BY <2>1, NewTreeDocument DEF Init, Neat
<1>2. Waiting' /\ Neat /\ [Next]_vars => Neat'
  <2>1. SUFFICES ASSUME Waiting', Neat, [Next]_vars PROVE Tidy(staged') /\ Tidy(committed') BY DEF Neat
  <2>2. Tidy(staged) /\ Tidy(committed) BY <2>1 DEF Neat
  <2>3. ASSUME NEW txn \in Txns, HandleTxn(txn) PROVE Tidy(staged') /\ Tidy(committed')
    <3>1. Promised(Mode, Mode') BY <2>1, <2>3, HandledPromised
    <3>. QED BY <2>2, <3>1, PromisedIs
  <2>4. CASE Reset BY <2>4, NewTreeDocument DEF Reset
  <2>5. CASE Render \/ UNCHANGED vars
    <3>1. staged' = staged /\ committed' = committed BY <2>5 DEF Render, vars
    <3>. QED BY <2>2, <3>1
  <2>. QED BY <2>1, <2>3, <2>4, <2>5 DEF Next
<1>3. Spec => []Waiting BY WaitingHolds
<1>. QED BY <1>1, <1>2, <1>3, PTL DEF Spec

\* To programs that send each command whole, the linked nodes are a document: an
\* ordered list of children under every node, edited in a draft that a commit
\* shows and an abort throws away, whatever was created and removed before.
THEOREM TreeImplementsForest == ASSUME WholeCommands PROVE Spec => ImplementsForest
<1>1. Init => Doc!Init
  <2>1. SUFFICES ASSUME Init PROVE Document(staged) = Doc!Blank /\ Document(committed) = Doc!Blank
    BY DEF Doc!Init
  <2>. QED BY <2>1, NewTreeDocument DEF Init
<1>2. Neat /\ [Next]_vars => [Doc!Next]_(<<Document(staged), Document(committed)>>)
  <2>1. SUFFICES ASSUME Neat, [Next]_vars PROVE Doc!Next BY Zenon
  <2>2. ASSUME staged' = staged, committed' = committed PROVE Doc!Next
    <3>1. Document(staged)' = Document(staged) /\ Document(committed)' = Document(committed) BY <2>2
    <3>. QED BY <3>1 DEF Doc!Next, Doc!Refuse
  <2>3. ASSUME NEW txn \in Txns, HandleTxn(txn) PROVE Doc!Next
    <3>1. Promised(Mode, Mode') BY <2>1, <2>3, HandledPromised
    <3>2. CASE staged' = committed /\ committed' = committed BY <3>2 DEF Doc!Next, Doc!Abort
    <3>3. CASE staged' = staged /\ committed' = staged BY <3>3 DEF Doc!Next, Doc!Commit
    <3>4. CASE committed' = committed /\ Document(staged') \in Doc!Edits(Document(staged))
      BY <3>4 DEF Doc!Next, Doc!Edit
    <3>. QED BY <2>2, <3>1, <3>2, <3>3, <3>4, PromisedIs
  <2>4. CASE Reset BY <2>4, NewTreeDocument DEF Reset, Doc!Next, Doc!Clear
  <2>5. CASE Render \/ UNCHANGED vars BY <2>2, <2>5 DEF Render, vars
  <2>. QED BY <2>1, <2>3, <2>4, <2>5 DEF Next
<1>3. Spec => []Neat BY NeatHolds
<1>. QED BY <1>1, <1>2, <1>3, PTL DEF Spec, ImplementsForest, Doc!Spec
=============================================================================
