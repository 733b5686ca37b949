------------------------------ MODULE Terminal ------------------------------
(***************************************************************************)
(* What a program may expect of a terminal, without rows and columns of    *)
(* bytes: one long line, cut into rows of Width, of which the last cells   *)
(* are seen; typing goes on where the cursor is, and the line moves up a   *)
(* row when it gets past the end of what is seen.                          *)
(***************************************************************************)
EXTENDS Integers

CONSTANTS Width, Height, Glyphs, Inks, Space, FirstInk

VARIABLES tape,   \* the cells that are seen
          pos,    \* where the cursor is
          ink     \* what is written with

Size  == Width * Height
Cell(g, i) == <<g, i>>

Init ==
  /\ tape = [i \in 0 .. Size - 1 |-> Cell(Space, FirstInk)]
  /\ pos = 0
  /\ ink = FirstInk

\* The cursor goes on to position q, at most a row past the end.
GoOn(written, q) ==
  IF q < Size THEN tape' = written /\ pos' = q
  ELSE /\ tape' = [i \in 0 .. Size - 1 |-> IF i + Width < Size THEN written[i + Width] ELSE Cell(Space, ink)]
       /\ pos' = q - Width

Type(g)  == GoOn([tape EXCEPT ![pos] = Cell(g, ink)], pos + 1) /\ UNCHANGED ink
NewLine  == GoOn(tape, Width * (pos \div Width + 1)) /\ UNCHANGED ink

RubOut ==
  /\ pos % Width > 0
  /\ pos' = pos - 1
  /\ tape' = [tape EXCEPT ![pos - 1] = Cell(Space, ink)]
  /\ UNCHANGED ink

Move == pos' \in 0 .. Size - 1 /\ UNCHANGED <<tape, ink>>

EraseRow ==
  /\ tape' = [i \in 0 .. Size - 1 |-> IF i \div Width = pos \div Width THEN Cell(Space, ink) ELSE tape[i]]
  /\ UNCHANGED <<pos, ink>>

EraseAll ==
  /\ tape' = [i \in 0 .. Size - 1 |-> Cell(Space, ink)]
  /\ pos' = 0
  /\ UNCHANGED ink

Dip == ink' \in Inks /\ UNCHANGED <<tape, pos>>

Restart ==
  /\ tape' = [i \in 0 .. Size - 1 |-> Cell(Space, FirstInk)]
  /\ pos' = 0
  /\ ink' = FirstInk

Next ==
  (\E g \in Glyphs : Type(g)) \/ NewLine \/ RubOut \/ Move \/ EraseRow \/ EraseAll \/ Dip \/ Restart

Spec == Init /\ [][Next]_<<tape, pos, ink>>
=============================================================================
