-------------------------------- MODULE Tui --------------------------------
(***************************************************************************)
(* The TUI mode of the console (tui.rs, tui/parser.rs) on the transactions *)
(* that reach it. Bytes keep their values, so that a byte of a text can be *)
(* one that means a command.                                               *)
(***************************************************************************)
EXTENDS TuiTree, Sequences, SequencesExt

CONSTANTS
  Txns,       \* what programs send (tui.s), each a sequence of bytes
  Capacity    \* HOST_TXN_CAPACITY: the rest of a transaction is dropped

TUI_CREATE   == 16
TUI_REMOVE   == 17
TUI_SET_PROP == 18
TUI_SET_TEXT == 19
TUI_ABORT    == 30
TUI_COMMIT   == 31

ASSUME TuiAssumption ==
  /\ Capacity \in Nat \ {0}
  /\ \A txn \in Txns : txn \in Seq(0 .. 255) /\ txn # <<>>

VARIABLES
  parser,      \* the bytes of the command so far, the text bytes to come
  staged, committed,
  dirty

vars == <<parser, staged, committed, dirty>>

AwaitOpcode == [buf |-> <<>>, remaining |-> 0]

Args ==
  [op \in {TUI_CREATE, TUI_REMOVE, TUI_SET_PROP, TUI_SET_TEXT} |-> IF op = TUI_REMOVE THEN 1 ELSE 3]

Init ==
  /\ parser = AwaitOpcode
  /\ staged = NewTree /\ committed = NewTree
  /\ dirty = TRUE

-----------------------------------------------------------------------------
(* A mode is a record of parser, staged, committed and dirty. *)

Length(cmd) == cmd[3] + 256 * cmd[4]

Apply(m, cmd) ==
  CASE cmd[1] = TUI_CREATE   -> [m EXCEPT !.staged = Created(@, cmd[2], cmd[3], cmd[4])]
    [] cmd[1] = TUI_REMOVE   -> [m EXCEPT !.staged = Removed(@, cmd[2])]
    [] cmd[1] = TUI_SET_PROP -> [m EXCEPT !.staged = WithProp(@, cmd[2], cmd[3], cmd[4])]
    [] cmd[1] = TUI_SET_TEXT -> [m EXCEPT !.staged = WithText(@, cmd[2], Length(cmd))]
    [] cmd[1] = TUI_ABORT    -> [m EXCEPT !.staged = m.committed, !.dirty = TRUE]
    [] cmd[1] = TUI_COMMIT   -> [m EXCEPT !.committed = m.staged, !.dirty = TRUE]

\* A command that is complete with byte b is applied, another one waits.
Awaits(m, buf, remaining) == [m EXCEPT !.parser = [buf |-> buf, remaining |-> remaining]]
Completes(m, cmd) == Apply(Awaits(m, <<>>, 0), cmd)

OnOpcode(m, b) ==
  IF b \in DOMAIN Args THEN Awaits(m, <<b>>, 0)
  ELSE IF b \in {TUI_ABORT, TUI_COMMIT} THEN Completes(m, <<b>>)
  ELSE m

OnArgumentEmptyText(m, b) ==
  LET cmd == Append(m.parser.buf, b)
  IN IF Len(cmd) < 1 + Args[cmd[1]] THEN Awaits(m, cmd, 0)
     ELSE IF cmd[1] = TUI_SET_TEXT THEN Awaits(m, cmd, Length(cmd))
     ELSE Completes(m, cmd)

OnArgument(m, b) ==
  LET cmd == Append(m.parser.buf, b)
  IN IF Len(cmd) < 1 + Args[cmd[1]] THEN Awaits(m, cmd, 0)
     ELSE IF cmd[1] = TUI_SET_TEXT /\ Length(cmd) > 0 THEN Awaits(m, cmd, Length(cmd))
     ELSE Completes(m, cmd)

\* Text bytes are counted, not kept.
OnText(m) ==
  IF m.parser.remaining > 1 THEN Awaits(m, m.parser.buf, m.parser.remaining - 1)
  ELSE Completes(m, m.parser.buf)

Consume(m, b) ==
  IF m.parser.remaining > 0 THEN OnText(m)
  ELSE IF m.parser.buf = <<>> THEN OnOpcode(m, b)
  ELSE OnArgument(m, b)

-----------------------------------------------------------------------------

Arrived(txn) == SubSeq(txn, 1, Min({Len(txn), Capacity}))

HandleTxn(txn) ==
  LET m == FoldLeft(Consume,
             [parser |-> parser, staged |-> staged, committed |-> committed, dirty |-> dirty],
             Arrived(txn))
  IN /\ parser' = m.parser
     /\ staged' = m.staged
     /\ committed' = m.committed
     /\ dirty' = m.dirty

\* The program switches to this mode.
Reset ==
  /\ parser' = AwaitOpcode
  /\ staged' = NewTree /\ committed' = NewTree
  /\ dirty' = TRUE

Render ==
  /\ dirty
  /\ dirty' = FALSE
  /\ UNCHANGED <<parser, staged, committed>>

Next == (\E txn \in Txns : HandleTxn(txn)) \/ Reset \/ Render

Spec == Init /\ [][Next]_vars

-----------------------------------------------------------------------------

\* Trees have the shape of their arrays, and the parser waits for the rest of a
\* command that it knows.
TypeOK ==
  /\ \A t \in {staged, committed} :
       /\ DOMAIN t = Handles /\ Occupied(t, 0)
       /\ \A h \in Handles : {t[h].parent, t[h].first_child, t[h].next_sibling} \subseteq Handles
  /\ parser.buf # <<>> => parser.buf[1] \in DOMAIN Args /\ Len(parser.buf) <= 1 + Args[parser.buf[1]]
  /\ parser.remaining > 0 => Len(parser.buf) = 1 + Args[TUI_SET_TEXT]
  /\ dirty \in BOOLEAN

\* No sequence of commands ties the links into a knot: each node is linked to
\* once, and create and remove always return.
TreeSound == LinksSingle(staged) /\ LoopsEnd(staged)

\* Nodes get lost only when a create names as the parent the node itself or one
\* below it.
LostOnlyUnderItself ==
  [][Rooted(staged) /\ Rooted(committed) /\ ~Rooted(staged') =>
       \E h \in Named : Occupied(staged', h) /\ staged'[h].parent \in Below(staged, h) \cup {h}]_vars

\* tui.s: a commit applies the staged mutations.
CommitApplies == [][HandleTxn(<<TUI_COMMIT>>) => committed' = staged /\ staged' = staged]_vars

\* The links implement ordered lists of children, and the staged copy a draft.
Listed(t, p) ==
  LET rank(n) == Cardinality(Children(t, p)) + 1 - Cardinality(Chain(t, n))
  IN [i \in 1 .. Cardinality(Children(t, p)) |-> CHOOSE n \in Children(t, p) : rank(n) = i]

Keyed(props) ==
  LET used == {i \in 1 .. PROP_COUNT : props[i][1] # 0}
  IN [key \in {props[i][1] : i \in used} |-> props[CHOOSE i \in used : props[i][1] = key][2]]

Document(t) ==
  [kind |-> [h \in Handles |-> t[h].kind],
   kids |-> [h \in Handles |-> IF Occupied(t, h) THEN Listed(t, h) ELSE <<>>],
   text |-> [h \in Handles |-> t[h].text_len],
   props |-> [h \in Handles |-> Keyed(t[h].props)]]

Sent(op) == {txn \in Txns : txn[1] = op}
Kinds   == {txn[4] : txn \in Sent(TUI_CREATE)} \ {NODE_FREE}
Keys    == {txn[3] : txn \in Sent(TUI_SET_PROP)} \ {0}
Values  == {txn[4] : txn \in Sent(TUI_SET_PROP)}
Lengths == {Length(txn) : txn \in Sent(TUI_SET_TEXT)}

Doc == INSTANCE Forest WITH
  MaxProps <- PROP_COUNT, draft <- Document(staged), shown <- Document(committed)
ImplementsForest == Doc!Spec
=============================================================================
