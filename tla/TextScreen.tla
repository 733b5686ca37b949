----------------------------- MODULE TextScreen -----------------------------
(***************************************************************************)
(* The screen of the text mode (TextState in text.rs): a grid of cells, a  *)
(* cursor whose coordinates are bytes, a colour, and what redrawing needs  *)
(* to know. Each operator gives the screen that a method leaves.           *)
(***************************************************************************)
EXTENDS AnsiParser

CONSTANTS
  COLS, ROWS,          \* 58 and 17
  CURSOR_IDLE_TICKS    \* blinks the cursor stays away after typing (8)

ASSUME ScreenAssumption ==
  /\ COLS \in 1 .. 255 /\ ROWS \in 1 .. 255
  /\ CURSOR_IDLE_TICKS \in Byte \ {0}

Rows  == 0 .. ROWS - 1
Cols  == 0 .. COLS - 1
Cells == [ch : Byte, attr : Byte]
SPACE == 32
NEW_ATTR == 10
SGR_ATTR == 15

Screens ==
  [grid : [Rows -> [Cols -> Cells]], x : Cols, y : Rows, attr : Byte,
   visible : BOOLEAN, dirty : BOOLEAN, idle : 0 .. CURSOR_IDLE_TICKS]

Blank(attr) == [ch |-> SPACE, attr |-> attr]
Erased(attr) == [r \in Rows |-> [c \in Cols |-> Blank(attr)]]

NewScreen ==
  [grid |-> Erased(NEW_ATTR), x |-> 0, y |-> 0, attr |-> NEW_ATTR,
   visible |-> TRUE, dirty |-> TRUE, idle |-> CURSOR_IDLE_TICKS]

Dirty(s) == [s EXCEPT !.dirty = TRUE]

-----------------------------------------------------------------------------

Scrolled(s) ==
  [s EXCEPT !.grid = [r \in Rows |-> IF r = ROWS - 1 THEN [c \in Cols |-> Blank(s.attr)] ELSE @[r + 1]]]

\* Mutant: the last line is written over.
NextLineStuck(s) == [s EXCEPT !.x = 0, !.y = IF @ + 1 < ROWS THEN @ + 1 ELSE @]
NextLine(s) ==
  IF s.y + 1 < ROWS THEN [s EXCEPT !.x = 0, !.y = @ + 1]
  ELSE Scrolled([s EXCEPT !.x = 0, !.y = ROWS - 1])

Backspaced(s) ==
  IF s.x > 0 THEN Dirty([s EXCEPT !.x = @ - 1, !.grid[s.y][s.x - 1] = Blank(s.attr)]) ELSE s

MarkedActive(s) == Dirty([s EXCEPT !.idle = 0, !.visible = FALSE])

PutCharacter(s, c) ==
  LET drawn == [s EXCEPT !.grid[s.y][s.x] = [ch |-> c, attr |-> s.attr]]
  IN MarkedActive(IF s.x + 1 < COLS THEN [drawn EXCEPT !.x = @ + 1] ELSE NextLine(drawn))

AtMost(v, limit) == IF v < limit THEN v ELSE limit

\* Mutant: no limit on the right.
CursorRightFar(s, n) == Dirty([s EXCEPT !.x = Added(@, n)])

CursorPos(s, row, col) == Dirty([s EXCEPT !.y = AtMost(row, ROWS - 1), !.x = AtMost(col, COLS - 1)])
CursorUp(s, n)    == Dirty([s EXCEPT !.y = Less(@, n)])
CursorDown(s, n)  == Dirty([s EXCEPT !.y = AtMost(Added(@, n), ROWS - 1)])
CursorRight(s, n) == Dirty([s EXCEPT !.x = AtMost(Added(@, n), COLS - 1)])
CursorLeft(s, n)  == Dirty([s EXCEPT !.x = Less(@, n)])

Cleared(s)    == Dirty([s EXCEPT !.grid = Erased(s.attr), !.x = 0, !.y = 0])
RowCleared(s) == Dirty([s EXCEPT !.grid[s.y] = [c \in Cols |-> Blank(s.attr)]])

-----------------------------------------------------------------------------

\* ANSI colour to palette: red and blue change places.
ANSI_TO_TEXTVGA == <<0, 4, 2, 6, 1, 5, 3, 7, 8, 12, 10, 14, 9, 13, 11, 15>>

\* The low nibble of an attribute is the ink, the high one the paper.
Coloured(attr, p) ==
  LET ink(i)   == 16 * (attr \div 16) + ANSI_TO_TEXTVGA[i + 1]
      paper(i) == 16 * ANSI_TO_TEXTVGA[i + 1] + (attr % 16)
  IN CASE p = 0          -> SGR_ATTR
       [] p \in 30 .. 37 -> ink(p - 30)
       [] p \in 40 .. 47 -> paper(p - 40)
       [] p \in 90 .. 97 -> ink(p - 90 + 8)
       [] p \in 100 .. 107 -> paper(p - 100 + 8)
       [] OTHER          -> attr

Rendition(s, params) ==
  LET attr == FoldLeft(Coloured, s.attr, params)
  IN Dirty([s EXCEPT !.attr = Saturated(attr)])

ShownCursor(s, visible) == Dirty([s EXCEPT !.visible = visible])

\* Mutant: the idle count does not move on.
BlinkedNever(s) ==
  IF s.idle < CURSOR_IDLE_TICKS THEN Dirty([s EXCEPT !.visible = FALSE])
  ELSE Dirty([s EXCEPT !.visible = ~@])
Blinked(s) ==
  IF s.idle < CURSOR_IDLE_TICKS THEN Dirty([s EXCEPT !.idle = @ + 1, !.visible = FALSE])
  ELSE Dirty([s EXCEPT !.visible = ~@])

Apply(s, cmd) ==
  CASE cmd.op = "PutChar"     -> PutCharacter(s, cmd.args[1])
    [] cmd.op = "Newline"     -> Dirty(NextLine(s))
    [] cmd.op = "Backspace"   -> Backspaced(s)
    [] cmd.op = "CursorPos"   -> CursorPos(s, cmd.args[1], cmd.args[2])
    [] cmd.op = "CursorUp"    -> CursorUp(s, cmd.args[1])
    [] cmd.op = "CursorDown"  -> CursorDown(s, cmd.args[1])
    [] cmd.op = "CursorRight" -> CursorRight(s, cmd.args[1])
    [] cmd.op = "CursorLeft"  -> CursorLeft(s, cmd.args[1])
    [] cmd.op = "EraseScreen" -> Cleared(s)
    [] cmd.op = "EraseLine"   -> RowCleared(s)
    [] cmd.op = "Sgr"         -> Rendition(s, cmd.args)
    [] cmd.op = "ShowCursor"  -> ShownCursor(s, cmd.args[1])
    [] OTHER                  -> s
=============================================================================
