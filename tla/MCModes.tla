------------------------------ MODULE MCModes ------------------------------
(***************************************************************************)
(* Transactions that draw, switch to either mode, switch and draw at once, *)
(* name a mode that does not exist, or end after the switch opcode.        *)
(***************************************************************************)
EXTENDS Modes

MCTxns ==
  {<<p>> : p \in Pictures} \cup {<<SWITCH_MODE_OPCODE>>, <<SWITCH_MODE_OPCODE, MODE_TEXT>>} \cup
  {<<SWITCH_MODE_OPCODE, m, p>> : m \in {MODE_TUI, 9}, p \in Pictures}
=============================================================================
