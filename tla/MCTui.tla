------------------------------- MODULE MCTui -------------------------------
(***************************************************************************)
(* A TUI of a few nodes. Every create and remove is sent, some for names   *)
(* that do not exist; properties go to node 1 and texts to node 2, to keep *)
(* the trees few. A text is made of bytes that mean commit.                *)
(***************************************************************************)
EXTENDS Tui

CONSTANT TextLengths

MCTxns ==
  {<<TUI_CREATE, h, p, 1>> : h \in 1 .. NODE_COUNT - 1, p \in 0 .. NODE_COUNT - 1} \cup
  {<<TUI_CREATE, 0, 1, 1>>, <<TUI_CREATE, NODE_COUNT, 0, 1>>,
   <<TUI_CREATE, 1, NODE_COUNT, 1>>, <<TUI_CREATE, 1, 0, NODE_FREE>>} \cup
  {<<TUI_REMOVE, h>> : h \in 0 .. NODE_COUNT} \cup
  {<<TUI_SET_PROP, 1, 1, 1>>, <<TUI_SET_PROP, 1, 2, 1>>, <<TUI_SET_PROP, 1, 0, 1>>} \cup
  {<<TUI_SET_TEXT, 2, len, 0>> \o [i \in 1 .. len |-> TUI_COMMIT] : len \in TextLengths} \cup
  {<<TUI_ABORT>>, <<TUI_COMMIT>>}
=============================================================================
