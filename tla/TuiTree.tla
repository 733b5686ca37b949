------------------------------ MODULE TuiTree ------------------------------
(***************************************************************************)
(* The retained tree of the TUI (tui/node.rs): an array of nodes that hang *)
(* together by indices. Index 0 is the root, and as a link it is the end   *)
(* of a list.                                                              *)
(***************************************************************************)
EXTENDS Naturals, FiniteSets, FiniteSetsExt

CONSTANTS NODE_COUNT, PROP_COUNT

ASSUME TreeAssumption ==
  /\ NODE_COUNT \in Nat \ {0}
  /\ PROP_COUNT \in Nat \ {0}

NODE_FREE == 0
NODE_ROOT == 255

Handles == 0 .. NODE_COUNT - 1
Named   == Handles \ {0}

EmptyNode ==
  [kind |-> NODE_FREE, parent |-> 0, first_child |-> 0, next_sibling |-> 0,
   text_len |-> 0, props |-> [i \in 1 .. PROP_COUNT |-> <<0, 0>>]]

NewTree == [h \in Handles |-> IF h = 0 THEN [EmptyNode EXCEPT !.kind = NODE_ROOT] ELSE EmptyNode]

Occupied(t, h) == h \in Handles /\ t[h].kind # NODE_FREE

\* The nodes from n on in its list of siblings.
Chain(t, n) ==
  {m \in Named : \A S \in SUBSET Named :
     n \in S \cup {0} /\ (\A x \in S : t[x].next_sibling \in S \cup {0}) => m \in S}

Children(t, p) == Chain(t, t[p].first_child)

\* The nodes that remove_subtree visits below h.
Below(t, h) ==
  {m \in Named : \A S \in SUBSET Named :
     /\ t[h].first_child \in S \cup {0}
     /\ \A x \in S : {t[x].first_child, t[x].next_sibling} \subseteq S \cup {0}
     => m \in S}

\* detach: the link that leads to h skips it.
DetachedFirst(t, h) ==
  LET p == t[h].parent
  IN IF Occupied(t, p) /\ t[p].first_child = h
     THEN [t EXCEPT ![p].first_child = t[h].next_sibling] ELSE t

Detached(t, h) ==
  LET p == t[h].parent
      prev == {m \in Children(t, p) : t[m].next_sibling = h}
  IN IF ~Occupied(t, p) THEN t
     ELSE IF t[p].first_child = h THEN [t EXCEPT ![p].first_child = t[h].next_sibling]
     ELSE [m \in Handles |-> IF m \in prev THEN [t[m] EXCEPT !.next_sibling = t[h].next_sibling]
                             ELSE t[m]]

RemovedAlone(t, h) ==
  IF h \notin Named \/ ~Occupied(t, h) THEN t
  ELSE [Detached(t, h) EXCEPT ![h] = EmptyNode]

\* remove: h and all below it are free.
Removed(t, h) ==
  IF h \notin Named \/ ~Occupied(t, h) THEN t
  ELSE LET d == Detached(t, h)
       IN [n \in Handles |-> IF n \in Below(d, h) \cup {h} THEN EmptyNode ELSE d[n]]

\* create: h becomes the first child of parent.
Linked(t, h, parent, kind) ==
  [t EXCEPT ![h] = [EmptyNode EXCEPT !.kind = kind, !.parent = parent,
                                     !.next_sibling = t[parent].first_child],
            ![parent].first_child = h]

CreatedOver(t, h, parent, kind) ==
  IF h \notin Named \/ ~Occupied(t, parent) \/ kind = NODE_FREE THEN t
  ELSE Linked(t, h, parent, kind)

Created(t, h, parent, kind) ==
  IF h \notin Named \/ ~Occupied(t, parent) \/ kind = NODE_FREE THEN t
  ELSE Linked(Removed(t, h), h, parent, kind)

\* set_prop: the first slot that has the key or is free; none may be left.
WithProp(t, h, key, value) ==
  LET slots == {i \in 1 .. PROP_COUNT : t[h].props[i][1] \in {key, 0}}
  IN IF ~Occupied(t, h) \/ key = 0 \/ slots = {} THEN t
     ELSE [t EXCEPT ![h].props[Min(slots)] = <<key, value>>]

WithText(t, h, len) == IF Occupied(t, h) THEN [t EXCEPT ![h].text_len = len] ELSE t

-----------------------------------------------------------------------------

\* The links of the occupied nodes lead to occupied nodes, no two to the same
\* one. So detach finds at most one link to change, and remove_subtree, which
\* clears nodes while it walks, visits the nodes of Below once each.
LinksTo(t, n) ==
  {<<m, "child">> : m \in {x \in Handles : Occupied(t, x) /\ t[x].first_child = n}} \cup
  {<<m, "sibling">> : m \in {x \in Handles : Occupied(t, x) /\ t[x].next_sibling = n}}

LinksSingle(t) ==
  \A n \in Named : Cardinality(LinksTo(t, n)) <= (IF Occupied(t, n) THEN 1 ELSE 0)

\* The loops of detach and remove_subtree end, whichever node is removed.
LoopsEnd(t) ==
  /\ \A n \in Named : Occupied(t, n) => n \notin Chain(t, t[n].next_sibling)
  /\ \A h \in Named : Occupied(t, h) =>
       LET d == Detached(t, h)
       IN \A n \in Below(d, h) \cup {h} : n \notin Below(d, n)

\* Every node hangs from the root.
Rooted(t) == \A n \in Named : Occupied(t, n) => n \in Below(t, 0)
=============================================================================
