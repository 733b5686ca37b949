------------------------------- MODULE Forest -------------------------------
(***************************************************************************)
(* What the TUI promises to programs: a document of nodes, each with an    *)
(* ordered list of children, edited in a draft that is shown all at once   *)
(* or thrown away.                                                         *)
(***************************************************************************)
EXTENDS Naturals, Sequences, FiniteSets, Functions

CONSTANTS Handles,    \* names of nodes; 0 is the root
          Kinds,      \* kinds of nodes; 0 is none
          Keys, Values, Lengths,
          MaxProps

VARIABLES draft, shown

None == 0

Blank == [kind |-> [h \in Handles |-> IF h = 0 THEN 255 ELSE None],
          kids |-> [h \in Handles |-> <<>>],
          text |-> [h \in Handles |-> 0],
          props |-> [h \in Handles |-> <<>>]]

Live(d) == {h \in Handles : d.kind[h] # None}

\* A node and all below it.
Family(d, h) ==
  {n \in Live(d) : \A S \in SUBSET (Live(d) \ {0}) :
     h \in S /\ (\A x \in S : Range(d.kids[x]) \subseteq S) => n \in S}

\* A list without h, which is in it once at most.
Without(s, h) ==
  IF h \notin Range(s) THEN s
  ELSE LET at == CHOOSE i \in DOMAIN s : s[i] = h
       IN [i \in 1 .. Len(s) - 1 |-> s[IF i < at THEN i ELSE i + 1]]

\* The document without h and all below it.
Remove(d, h) ==
  LET F == Family(d, h)
      keep(f, none) == [n \in Handles |-> IF n \in F THEN none ELSE f[n]]
  IN [kind |-> keep(d.kind, None), text |-> keep(d.text, 0), props |-> keep(d.props, <<>>),
      kids |-> keep([n \in Handles |-> Without(d.kids[n], h)], <<>>)]

Init == draft = Blank /\ shown = Blank

\* A new node, first in its parent's list. A node that had this name goes, with
\* all below it: a program that names one of those as the parent has a node that
\* hangs from nothing.
Create(d, h, p, k) ==
  LET rest == IF h \in Live(d) THEN Remove(d, h) ELSE d
  IN [rest EXCEPT !.kind[h] = k,
                  !.kids[p] = IF p = h \/ p \in Live(rest) THEN <<h>> \o @ ELSE <<>>]

SetProp(d, h, key, value) ==
  [d EXCEPT !.props[h] = [k \in DOMAIN @ \cup {key} |-> IF k = key THEN value ELSE @[k]]]

SetText(d, h, len) == [d EXCEPT !.text[h] = len]

\* Only live nodes are edited, the root is neither created nor removed, and a
\* node holds a number of properties.
Edits(d) ==
  {Create(d, h, p, k) : h \in Handles \ {0}, p \in Live(d), k \in Kinds} \cup
  {Remove(d, h) : h \in Live(d) \ {0}} \cup
  {SetText(d, h, len) : h \in Live(d), len \in Lengths} \cup
  {SetProp(d, p[1], p[2], p[3]) : p \in
     {x \in Live(d) \X Keys \X Values :
        x[2] \in DOMAIN d.props[x[1]] \/ Cardinality(DOMAIN d.props[x[1]]) < MaxProps}}

Edit == draft' \in Edits(draft) /\ UNCHANGED shown

Abort == draft' = shown /\ UNCHANGED shown

Commit == shown' = draft /\ UNCHANGED draft

\* The program enters the mode.
Clear == draft' = Blank /\ shown' = Blank

\* What cannot be done is ignored.
Refuse == UNCHANGED <<draft, shown>>

Next == Refuse \/ Commit \/ Abort \/ Clear \/ Edit

Spec == Init /\ [][Next]_<<draft, shown>>
=============================================================================
