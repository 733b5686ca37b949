--------------------------- MODULE TextMode_proofs ---------------------------
(***************************************************************************)
(* Proofs about the text mode for every size of grid and every sequence of *)
(* bytes: all that is indexed stays in range, every change is drawn, what  *)
(* the methods do to the grid, cell by cell, is what Terminal does to its  *)
(* one line, and the parameters of a sequence are the numbers written in   *)
(* its fields.                                                             *)
(***************************************************************************)
EXTENDS TextMode, SequenceTheorems, FiniteSetTheorems, WellFoundedInduction, TLAPS

\* What Apply relies on in a command.
CmdOK(cmd) ==
  /\ cmd.op \in {"PutChar", "CursorPos", "CursorUp", "CursorDown", "CursorRight", "CursorLeft"} =>
       cmd.args[1] \in Byte
  /\ cmd.op = "CursorPos" => cmd.args[2] \in Byte
  /\ cmd.op = "ShowCursor" => cmd.args[1] \in BOOLEAN

ParserOK(p) == p \in Parsers /\ Len(p.buf) <= SEQ_CAPACITY

\* Arithmetic on bytes gives bytes.
LEMMA ByteArithmetic ==
  ASSUME NEW a \in Byte, NEW b \in Byte
  PROVE  Added(a, b) \in Byte /\ Less(a, b) \in Byte /\ Less(a, b) <= a
BY DEF Added, Less, Byte

\* A saturated number is a byte, whatever it was.
LEMMA SaturatedByte == ASSUME NEW v PROVE Saturated(v) \in Byte
BY DEF Saturated, Byte

\* Every command a sequence means has arguments of the right types.
LEMMA DispatchOK ==
  ASSUME NEW final \in Byte, NEW buf \in Seq(Byte)
  PROVE  CmdOK(Dispatch(final, buf))
<1> DEFINE private == buf # <<>> /\ Head(buf) = QUESTION
           params  == ParseParams(IF private THEN Tail(buf) ELSE buf)
           arg(i)  == IF i <= Len(params) THEN Saturated(params[i]) ELSE 0
           steps   == IF arg(1) = 0 THEN 1 ELSE arg(1)
<1> HIDE DEF params, private
<1>1. arg(1) \in Byte /\ arg(2) \in Byte
  <2>1. 0 \in Byte
    BY DEF Byte
  <2>2. ASSUME NEW i PROVE arg(i) \in Byte
    BY <2>1, SaturatedByte
  <2> QED
    BY <2>2
<1>2. steps \in Byte /\ Less(arg(1), 1) \in Byte /\ Less(arg(2), 1) \in Byte
  BY <1>1 DEF Less, Byte
<1> HIDE DEF arg, steps
<1>3. Dispatch(final, buf) =
        CASE final \in {72, 102} -> Cmd("CursorPos", <<Less(arg(1), 1), Less(arg(2), 1)>>)
          [] final = 65 -> Cmd("CursorUp", <<steps>>)
          [] final = 66 -> Cmd("CursorDown", <<steps>>)
          [] final = 67 -> Cmd("CursorRight", <<steps>>)
          [] final = 68 -> Cmd("CursorLeft", <<steps>>)
          [] final = 74 -> Cmd("EraseScreen", <<>>)
          [] final = 75 -> Cmd("EraseLine", <<>>)
          [] final = 109 -> Cmd("Sgr", params)
          [] final = 104 /\ private -> Cmd("ShowCursor", <<TRUE>>)
          [] final = 108 /\ private -> Cmd("ShowCursor", <<FALSE>>)
          [] OTHER -> NoCmd
  BY DEF Dispatch, arg, steps, params, private
<1>4. /\ CmdOK(Cmd("CursorUp", <<steps>>)) /\ CmdOK(Cmd("CursorDown", <<steps>>))
      /\ CmdOK(Cmd("CursorRight", <<steps>>)) /\ CmdOK(Cmd("CursorLeft", <<steps>>))
  BY <1>2 DEF CmdOK, Cmd
<1>5. CmdOK(Cmd("CursorPos", <<Less(arg(1), 1), Less(arg(2), 1)>>))
  BY <1>2 DEF CmdOK, Cmd
<1>6. /\ CmdOK(Cmd("EraseScreen", <<>>)) /\ CmdOK(Cmd("EraseLine", <<>>)) /\ CmdOK(Cmd("Sgr", params))
      /\ CmdOK(Cmd("ShowCursor", <<TRUE>>)) /\ CmdOK(Cmd("ShowCursor", <<FALSE>>)) /\ CmdOK(NoCmd)
  BY DEF CmdOK, Cmd, NoCmd
<1> QED
  BY <1>3, <1>4, <1>5, <1>6

\* A byte leaves the parser in order and makes a command in order.
LEMMA FeedOK ==
  ASSUME NEW p, ParserOK(p), NEW c \in Byte
  PROVE  ParserOK(Feed(p, c).parser) /\ CmdOK(Feed(p, c).cmd)
<1>1. /\ p.state \in {"normal", "escape", "sequence"}
      /\ p.buf \in Seq(Byte) /\ Len(p.buf) \in Nat /\ Len(p.buf) <= SEQ_CAPACITY
  BY DEF ParserOK, Parsers
<1>2. SEQ_CAPACITY \in Nat
  BY ParserAssumption
<1>3. <<>> \in Seq(Byte) /\ Len(<<>>) = 0
  OBVIOUS
<1>4. CmdOK(NoCmd)
  BY DEF CmdOK, NoCmd, Cmd
<1>5. CASE p.state = "normal"
  <2>1. Feed(p, c) = OnNormal(c)
    BY <1>5 DEF Feed
  <2> QED
    BY <2>1, <1>2, <1>3, <1>4 DEF OnNormal, To, ParserOK, Parsers, CmdOK, Cmd, NoCmd
<1>6. CASE p.state = "escape"
  <2>1. Feed(p, c) = OnEsc(c)
    BY <1>6 DEF Feed
  <2> QED
    BY <2>1, <1>2, <1>3, <1>4 DEF OnEsc, To, ParserOK, Parsers
<1>7. CASE p.state = "sequence"
  <2>1. Feed(p, c) = OnSequence(p.buf, c)
    BY <1>7 DEF Feed
  <2>2. CASE c \in FINALS
    BY <2>1, <2>2, <1>1, <1>2, <1>3, DispatchOK DEF OnSequence, To, ParserOK, Parsers
  <2>3. CASE c \notin FINALS /\ Len(p.buf) = SEQ_CAPACITY
    BY <2>1, <2>3, <1>2, <1>3, <1>4 DEF OnSequence, To, ParserOK, Parsers
  <2>4. CASE c \notin FINALS /\ Len(p.buf) # SEQ_CAPACITY
    <3>1. Append(p.buf, c) \in Seq(Byte) /\ Len(Append(p.buf, c)) = Len(p.buf) + 1
      BY <1>1, AppendProperties
    <3> QED
      BY <2>1, <2>4, <3>1, <1>1, <1>2, <1>4 DEF OnSequence, To, ParserOK, Parsers
  <2> QED
    BY <2>2, <2>3, <2>4
<1> QED
  BY <1>1, <1>5, <1>6, <1>7

-----------------------------------------------------------------------------
(* Each method leaves a screen that is to be drawn, or changes nothing. *)

Drawn(s) == s \in Screens /\ s.dirty

\* The sizes as numbers, and cells of spaces.
LEMMA Sizes ==
  /\ ROWS \in 1 .. 255 /\ COLS \in 1 .. 255
  /\ 0 \in Rows /\ 0 \in Cols /\ ROWS - 1 \in Rows /\ COLS - 1 \in Cols
  /\ Rows \subseteq Byte /\ Cols \subseteq Byte
  /\ \A a \in Byte : Blank(a) \in Cells
BY ScreenAssumption DEF Rows, Cols, Byte, Blank, Cells, SPACE

\* The fields of a screen.
LEMMA PartsOK ==
  ASSUME NEW s \in Screens
  PROVE  /\ s.grid \in [Rows -> [Cols -> Cells]] /\ s.x \in Cols /\ s.y \in Rows /\ s.attr \in Byte
         /\ s.visible \in BOOLEAN /\ s.dirty \in BOOLEAN /\ s.idle \in 0 .. CURSOR_IDLE_TICKS
BY DEF Screens

\* A screen with one field changed to a value of its type is a screen.
LEMMA FieldsOK ==
  ASSUME NEW s \in Screens
  PROVE  /\ s.grid \in [Rows -> [Cols -> Cells]] /\ s.x \in Cols /\ s.y \in Rows /\ s.attr \in Byte
         /\ s.visible \in BOOLEAN /\ s.dirty \in BOOLEAN /\ s.idle \in 0 .. CURSOR_IDLE_TICKS
         /\ \A x \in Cols : [s EXCEPT !.x = x] \in Screens
         /\ \A y \in Rows : [s EXCEPT !.y = y] \in Screens
         /\ \A a \in Byte : [s EXCEPT !.attr = a] \in Screens
         /\ \A v \in BOOLEAN : [s EXCEPT !.visible = v] \in Screens
         /\ \A g \in [Rows -> [Cols -> Cells]] : [s EXCEPT !.grid = g] \in Screens
         /\ \A i \in 0 .. CURSOR_IDLE_TICKS, v \in BOOLEAN : [s EXCEPT !.idle = i, !.visible = v] \in Screens
         /\ Drawn(Dirty(s))
BY DEF Screens, Dirty, Drawn

\* One cell, one row, or all of them may be written.
LEMMA GridOK ==
  ASSUME NEW s \in Screens, NEW x \in Cols, NEW y \in Rows, NEW cell \in Cells
  PROVE  /\ [s EXCEPT !.grid[y][x] = cell] \in Screens
         /\ [s EXCEPT !.grid[y] = [c \in Cols |-> Blank(s.attr)]] \in Screens
         /\ Scrolled(s) \in Screens
         /\ Erased(s.attr) \in [Rows -> [Cols -> Cells]]
<1>1. s.attr \in Byte /\ s.grid \in [Rows -> [Cols -> Cells]]
  BY FieldsOK
<1>2. [c \in Cols |-> Blank(s.attr)] \in [Cols -> Cells]
  BY <1>1, Sizes
<1>3. [s.grid EXCEPT ![y][x] = cell] \in [Rows -> [Cols -> Cells]]
  BY <1>1
<1>4. [s.grid EXCEPT ![y] = [c \in Cols |-> Blank(s.attr)]] \in [Rows -> [Cols -> Cells]]
  BY <1>1, <1>2
<1>5. Erased(s.attr) \in [Rows -> [Cols -> Cells]]
  BY <1>2 DEF Erased
<1> DEFINE up == [r \in Rows |-> IF r = ROWS - 1 THEN [c \in Cols |-> Blank(s.attr)] ELSE s.grid[r + 1]]
<1>6. up \in [Rows -> [Cols -> Cells]]
  <2> SUFFICES ASSUME NEW r \in Rows PROVE up[r] \in [Cols -> Cells]
    OBVIOUS
  <2>1. r # ROWS - 1 => r + 1 \in Rows
    BY Sizes DEF Rows
  <2> QED
    BY <2>1, <1>1, <1>2
<1>7. Scrolled(s) = [s EXCEPT !.grid = up]
  BY DEF Scrolled
<1>8. [s EXCEPT !.grid[y][x] = cell] = [s EXCEPT !.grid = [s.grid EXCEPT ![y][x] = cell]]
  BY DEF Screens
<1>9. [s EXCEPT !.grid[y] = [c \in Cols |-> Blank(s.attr)]]
        = [s EXCEPT !.grid = [s.grid EXCEPT ![y] = [c \in Cols |-> Blank(s.attr)]]]
  BY DEF Screens
<1> HIDE DEF up
<1>10. \A g \in [Rows -> [Cols -> Cells]] : [s EXCEPT !.grid = g] \in Screens
  BY FieldsOK
<1>11. Scrolled(s) \in Screens
  BY <1>6, <1>7, <1>10
<1>12. [s EXCEPT !.grid[y][x] = cell] \in Screens
  BY <1>3, <1>8, <1>10
<1>13. [s EXCEPT !.grid[y] = [c \in Cols |-> Blank(s.attr)]] \in Screens
  BY <1>4, <1>9, <1>10
<1> QED
  BY <1>5, <1>11, <1>12, <1>13

\* The next line is on the grid, scrolled if need be.
LEMMA NextLineOK == ASSUME NEW s \in Screens PROVE NextLine(s) \in Screens
<1>1. s.y \in Rows
  BY FieldsOK
<1>2. CASE s.y + 1 < ROWS
  <2>1. s.y + 1 \in Rows
    BY <1>1, <1>2, Sizes DEF Rows
  <2>2. [s EXCEPT !.x = 0, !.y = s.y + 1] \in Screens
    BY <2>1, Sizes DEF Screens
  <2> QED
    BY <1>2, <2>2 DEF NextLine
<1>3. CASE ~(s.y + 1 < ROWS)
  <2>1. [s EXCEPT !.x = 0, !.y = ROWS - 1] \in Screens
    BY Sizes DEF Screens
  <2>2. Blank(0) \in Cells
    BY Sizes DEF Byte
  <2> QED
    BY <1>3, <2>1, <2>2, GridOK, Sizes DEF NextLine
<1> QED
  BY <1>2, <1>3

\* The cursor moves, however the sum wraps, to a place on the grid.
LEMMA MovesOK ==
  ASSUME NEW s \in Screens, NEW n \in Byte, NEW m \in Byte
  PROVE  /\ Drawn(CursorPos(s, n, m)) /\ Drawn(CursorUp(s, n)) /\ Drawn(CursorDown(s, n))
         /\ Drawn(CursorRight(s, n)) /\ Drawn(CursorLeft(s, n))
<1>1. s.x \in Cols /\ s.y \in Rows /\ s.x \in Byte /\ s.y \in Byte
  BY FieldsOK, Sizes
<1>2. \A v \in Byte : AtMost(v, ROWS - 1) \in Rows /\ AtMost(v, COLS - 1) \in Cols
  BY Sizes DEF AtMost, Rows, Cols, Byte
<1>3. Less(s.y, n) \in Rows /\ Less(s.x, n) \in Cols
  BY <1>1, Sizes DEF Less, Rows, Cols, Byte
<1>4. AtMost(Added(s.y, n), ROWS - 1) \in Rows /\ AtMost(Added(s.x, n), COLS - 1) \in Cols
  BY <1>1, <1>2, ByteArithmetic
<1>5. [s EXCEPT !.y = AtMost(n, ROWS - 1), !.x = AtMost(m, COLS - 1)] \in Screens
  BY <1>2 DEF Screens
<1> QED
  BY <1>3, <1>4, <1>5, FieldsOK DEF CursorPos, CursorUp, CursorDown, CursorRight, CursorLeft

\* Writing and erasing.
LEMMA WritesOK ==
  ASSUME NEW s \in Screens, NEW c \in Byte
  PROVE  /\ Drawn(PutCharacter(s, c)) /\ Drawn(Cleared(s)) /\ Drawn(RowCleared(s))
         /\ Backspaced(s) = s \/ Drawn(Backspaced(s))
<1>1. s.x \in Cols /\ s.y \in Rows /\ s.attr \in Byte /\ Blank(s.attr) \in Cells
      /\ [ch |-> c, attr |-> s.attr] \in Cells
  BY FieldsOK, Sizes DEF Cells
<1>2. Drawn(PutCharacter(s, c))
  <2> DEFINE drawn == [s EXCEPT !.grid[s.y][s.x] = [ch |-> c, attr |-> s.attr]]
             moved == IF s.x + 1 < COLS THEN [drawn EXCEPT !.x = @ + 1] ELSE NextLine(drawn)
  <2>1. drawn \in Screens /\ drawn.x = s.x
    BY <1>1, GridOK DEF Screens
  <2>2. s.x + 1 < COLS => s.x + 1 \in Cols
    BY <1>1, Sizes DEF Cols
  <2> HIDE DEF drawn
  <2>3. moved \in Screens
    BY <2>1, <2>2, FieldsOK, NextLineOK
  <2>4. 0 \in 0 .. CURSOR_IDLE_TICKS
    BY ScreenAssumption DEF Byte
  <2>5. Drawn(MarkedActive(moved))
    BY <2>3, <2>4, FieldsOK DEF MarkedActive
  <2>6. PutCharacter(s, c) = MarkedActive(moved)
    BY DEF PutCharacter, drawn
  <2> QED
    BY <2>5, <2>6
<1>3. Backspaced(s) = s \/ Drawn(Backspaced(s))
  <2>1. CASE s.x > 0
    <3>1. s.x - 1 \in Cols
      BY <1>1, <2>1, Sizes DEF Cols
    <3> DEFINE back == [s EXCEPT !.x = s.x - 1]
    <3>2. back \in Screens
      BY <3>1, FieldsOK
    <3>3. [back EXCEPT !.grid[s.y][s.x - 1] = Blank(s.attr)] \in Screens
      BY <1>1, <3>1, <3>2, GridOK
    <3>4. [s EXCEPT !.x = @ - 1, !.grid[s.y][s.x - 1] = Blank(s.attr)]
            = [back EXCEPT !.grid[s.y][s.x - 1] = Blank(s.attr)]
      BY DEF Screens
    <3> QED
      BY <2>1, <3>3, <3>4, FieldsOK DEF Backspaced
  <2>2. CASE ~(s.x > 0)
    BY <2>2 DEF Backspaced
  <2> QED
    BY <2>1, <2>2
<1>4. Drawn(Cleared(s))
  <2>1. Erased(s.attr) \in [Rows -> [Cols -> Cells]]
    BY <1>1, GridOK
  <2>2. [s EXCEPT !.grid = Erased(s.attr), !.x = 0, !.y = 0] \in Screens
    BY <2>1, Sizes DEF Screens
  <2> QED
    BY <2>2, FieldsOK DEF Cleared
<1>5. Drawn(RowCleared(s))
  BY <1>1, GridOK, FieldsOK DEF RowCleared
<1> QED
  BY <1>2, <1>3, <1>4, <1>5

\* Every command does that.
LEMMA ApplyOK ==
  ASSUME NEW s \in Screens, NEW cmd, CmdOK(cmd)
  PROVE  Apply(s, cmd) = s \/ Drawn(Apply(s, cmd))
<1>1. 0 \in Byte
  BY DEF Byte
<1>2. Drawn(Dirty(NextLine(s)))
  BY NextLineOK, FieldsOK
<1>3. Drawn(Rendition(s, cmd.args))
  BY SaturatedByte, FieldsOK DEF Rendition
<1>4. cmd.op = "ShowCursor" => Drawn(ShownCursor(s, cmd.args[1]))
  BY FieldsOK DEF ShownCursor, CmdOK
<1>5. (Backspaced(s) = s \/ Drawn(Backspaced(s))) /\ Drawn(Cleared(s)) /\ Drawn(RowCleared(s))
  BY <1>1, WritesOK
<1>6. cmd.op = "PutChar" => Drawn(PutCharacter(s, cmd.args[1]))
  BY WritesOK DEF CmdOK
<1>7. cmd.op = "CursorPos" => Drawn(CursorPos(s, cmd.args[1], cmd.args[2]))
  BY MovesOK DEF CmdOK
<1>8. cmd.op = "CursorUp" => Drawn(CursorUp(s, cmd.args[1]))
  BY <1>1, MovesOK DEF CmdOK
<1>9. cmd.op = "CursorDown" => Drawn(CursorDown(s, cmd.args[1]))
  BY <1>1, MovesOK DEF CmdOK
<1>10. cmd.op = "CursorRight" => Drawn(CursorRight(s, cmd.args[1]))
  BY <1>1, MovesOK DEF CmdOK
<1>11. cmd.op = "CursorLeft" => Drawn(CursorLeft(s, cmd.args[1]))
  BY <1>1, MovesOK DEF CmdOK
<1> QED
  BY <1>2, <1>3, <1>4, <1>5, <1>6, <1>7, <1>8, <1>9, <1>10, <1>11 DEF Apply

\* Blinking, too.
LEMMA BlinkOK == ASSUME NEW s \in Screens PROVE Drawn(Blinked(s))
<1>1. s.idle \in 0 .. CURSOR_IDLE_TICKS /\ s.visible \in BOOLEAN
  BY FieldsOK
<1>2. s.idle < CURSOR_IDLE_TICKS => s.idle + 1 \in 0 .. CURSOR_IDLE_TICKS
  BY <1>1, ScreenAssumption DEF Byte
<1> QED
  BY <1>1, <1>2, FieldsOK DEF Blinked

\* The screen at the start and after a switch.
LEMMA NewOK == NewScreen \in Screens
<1>1. NEW_ATTR \in Byte /\ CURSOR_IDLE_TICKS \in 0 .. CURSOR_IDLE_TICKS
  BY ScreenAssumption DEF Byte, NEW_ATTR
<1>2. Erased(NEW_ATTR) \in [Rows -> [Cols -> Cells]]
  BY <1>1, Sizes DEF Erased
<1> QED
  BY <1>1, <1>2, Sizes DEF NewScreen, Screens

\* The parser and the tick count at the start and after a switch.
LEMMA IdleOK == ParserOK(Idle) /\ 0 \in 0 .. BLINK_TICKS - 1
<1>1. Len(<<>>) = 0 /\ <<>> \in Seq(Byte)
  OBVIOUS
<1>2. SEQ_CAPACITY \in Nat /\ BLINK_TICKS \in Nat /\ BLINK_TICKS > 0
  BY ParserAssumption, TextAssumption DEF Byte
<1> QED
  BY <1>1, <1>2 DEF Idle, ParserOK, Parsers

\* Nothing is out of range after any step.
LEMMA TypeStep == ASSUME TypeOK, [Next]_vars PROVE TypeOK'
<1> USE DEF TypeOK
<1>1. CASE ConsumeChar
  <2>1. PICK c \in Chars : Put(c)
    BY <1>1 DEF ConsumeChar
  <2>2. c \in Byte
    BY <2>1, TextAssumption DEF Chars
  <2>3. ParserOK(parser) /\ screen \in Screens
    BY DEF ParserOK
  <2>4. ParserOK(parser') /\ screen' \in Screens
    BY <2>1, <2>2, <2>3, FeedOK, ApplyOK DEF Put, Drawn
  <2> QED
    BY <1>1, <2>4 DEF ConsumeChar, ParserOK
<1>2. CASE ConsumeCommand
  BY <1>2 DEF ConsumeCommand
<1>3. CASE Tick
  BY <1>3, BlinkOK, TextAssumption DEF Tick, Byte, Drawn
<1>4. CASE Render
  BY <1>4 DEF Render, Screens
<1>5. CASE Reset
  BY <1>5, NewOK, IdleOK DEF Reset, ParserOK
<1>6. CASE UNCHANGED vars
  BY <1>6 DEF vars
<1> QED
  BY <1>1, <1>2, <1>3, <1>4, <1>5, <1>6 DEF Next

\* The cursor stays on the grid and the parser within its buffer, for every size
\* up to 255 and whatever bytes come.
THEOREM TypeCorrect == Spec => []TypeOK
<1>1. Init => TypeOK
  BY NewOK, IdleOK DEF Init, TypeOK, ParserOK
<1> QED
  BY <1>1, TypeStep, PTL DEF Spec

-----------------------------------------------------------------------------

\* A step that does not ask for drawing shows what was shown.
LEMMA DrawStep ==
  ASSUME TypeOK, [Next]_vars
  PROVE  View(screen') = View(screen) \/ screen'.dirty
<1>1. CASE ConsumeChar
  <2>1. PICK c \in Chars : Put(c)
    BY <1>1 DEF ConsumeChar
  <2>2. c \in Byte
    BY <2>1, TextAssumption DEF Chars
  <2>3. ParserOK(parser) /\ screen \in Screens
    BY DEF ParserOK, TypeOK
  <2> QED
    BY <2>1, <2>2, <2>3, FeedOK, ApplyOK DEF Put, Drawn
<1>2. CASE Tick
  BY <1>2, BlinkOK DEF Tick, Drawn, TypeOK
<1>3. CASE Render
  BY <1>3 DEF Render, View, TypeOK, Screens
<1>4. CASE Reset
  BY <1>4 DEF Reset, NewScreen
<1>5. CASE ConsumeCommand \/ UNCHANGED vars
  BY <1>5 DEF ConsumeCommand, vars
<1> QED
  BY <1>1, <1>2, <1>3, <1>4, <1>5 DEF Next

\* Whatever changes what is to be seen asks for it to be drawn, for every size,
\* blink period and sequence of bytes.
THEOREM EveryChangeIsDrawn == Spec => ChangesDrawn
<1>1. TypeOK /\ [Next]_vars => [View(screen') # View(screen) => screen'.dirty]_vars
  BY DrawStep
<1> QED
  BY <1>1, TypeCorrect, PTL DEF Spec, ChangesDrawn

-----------------------------------------------------------------------------
(* The text mode is a terminal. *)

Places == 0 .. COLS * ROWS - 1
PosOf(s) == COLS * s.y + s.x

\* A grid with one cell written, a line with one place written.
WithCell(grid, y, x, ch, attr) == [grid EXCEPT ![y][x] = [ch |-> ch, attr |-> attr]]
WithPlace(tape, p, ch, attr)   == [tape EXCEPT ![p] = <<ch, attr>>]

-----------------------------------------------------------------------------
(* Places on the line and cells of the grid. *)

\* Division with a remainder is unique.
LEMMA Division ==
  ASSUME NEW d \in Nat \ {0}, NEW q \in Int, NEW r \in 0 .. d - 1
  PROVE  (d * q + r) \div d = q /\ (d * q + r) % d = r
OBVIOUS

\* Every cell of the grid is a place.
LEMMA CellIsPlace ==
  ASSUME NEW x \in Cols, NEW y \in Rows
  PROVE  /\ COLS * y + x \in Places
         /\ (COLS * y + x) \div COLS = y /\ (COLS * y + x) % COLS = x
<1>1. COLS \in Nat \ {0} /\ ROWS \in Nat \ {0} /\ x \in 0 .. COLS - 1 /\ y \in 0 .. ROWS - 1
  BY Sizes DEF Cols, Rows
<1>2. (COLS * y + x) \div COLS = y /\ (COLS * y + x) % COLS = x
  BY <1>1, Division
<1>3. COLS * y + COLS = COLS * (y + 1) /\ COLS * (y + 1) <= COLS * ROWS /\ 0 <= COLS * y
  BY <1>1
<1>4. COLS * y \in Int /\ COLS * ROWS \in Int
  BY <1>1
<1> QED
  BY <1>1, <1>2, <1>3, <1>4 DEF Places

\* Every place is a cell of the grid.
LEMMA PlaceIsCell ==
  ASSUME NEW i \in Places
  PROVE  /\ i \in Int
         /\ i \div COLS \in Rows /\ i % COLS \in Cols
         /\ i = COLS * (i \div COLS) + (i % COLS)
<1>1. COLS \in Nat \ {0} /\ ROWS \in Nat \ {0} /\ i \in Int /\ 0 <= i /\ i < COLS * ROWS
  BY Sizes DEF Places
<1>2. i = COLS * (i \div COLS) + (i % COLS) /\ i % COLS \in 0 .. COLS - 1 /\ i \div COLS \in Int
  BY <1>1
<1>3. 0 <= i \div COLS /\ i \div COLS < ROWS
  BY <1>1, <1>2
<1> QED
  BY <1>1, <1>2, <1>3 DEF Rows, Cols

-----------------------------------------------------------------------------
(* The line of a screen. *)

Shown(cell) == <<cell.ch, cell.attr>>
Spaces(attr) == <<SPACE, attr>>

\* The line, with names for its places and its cells.
LEMMA TapeIs ==
  ASSUME NEW s
  PROVE  TapeOf(s) = [i \in Places |-> Shown(s.grid[i \div COLS][i % COLS])]
BY DEF TapeOf, Places, Shown

\* A cell of the line is the cell of the grid at its place.
LEMMA TapeCell ==
  ASSUME NEW s, NEW i \in Places
  PROVE  TapeOf(s)[i] = Shown(s.grid[i \div COLS][i % COLS])
BY TapeIs

\* A screen with nothing on it.
LEMMA ErasedTape ==
  ASSUME NEW s, NEW attr, s.grid = Erased(attr)
  PROVE  TapeOf(s) = [i \in Places |-> Spaces(attr)]
<1>1. ASSUME NEW i \in Places
      PROVE  Shown(s.grid[i \div COLS][i % COLS]) = Spaces(attr)
  BY PlaceIsCell DEF Erased, Blank, Shown, Spaces
<1> QED
  BY <1>1, TapeIs

\* One cell written on the grid is one cell written on the line.
LEMMA WrittenTape ==
  ASSUME NEW s \in Screens, NEW t, NEW x \in Cols, NEW y \in Rows, NEW ch, NEW attr,
         t.grid = WithCell(s.grid, y, x, ch, attr)
  PROVE  TapeOf(t) = WithPlace(TapeOf(s), COLS * y + x, ch, attr)
<1> USE DEF WithCell, WithPlace
<1> DEFINE p == COLS * y + x
           cell == [ch |-> ch, attr |-> attr]
<1>1. p \in Places /\ p \div COLS = y /\ p % COLS = x
  BY CellIsPlace
<1>2. s.grid \in [Rows -> [Cols -> Cells]]
  BY PartsOK
<1>3. ASSUME NEW i \in Places
      PROVE  Shown(t.grid[i \div COLS][i % COLS]) = [TapeOf(s) EXCEPT ![p] = <<ch, attr>>][i]
  <2>1. /\ i \div COLS \in Rows /\ i % COLS \in Cols
        /\ i = COLS * (i \div COLS) + (i % COLS)
    BY PlaceIsCell
  <2>2. CASE i = p
    <3>1. t.grid[i \div COLS][i % COLS] = cell
      BY <1>1, <1>2, <2>2
    <3>2. [TapeOf(s) EXCEPT ![p] = <<ch, attr>>][i] = <<ch, attr>>
      BY <2>2, TapeIs
    <3> QED
      BY <3>1, <3>2 DEF Shown
  <2>3. CASE i # p
    <3>1. i \div COLS # y \/ i % COLS # x
      BY <2>1, <2>3
    <3>2. t.grid[i \div COLS][i % COLS] = s.grid[i \div COLS][i % COLS]
      BY <1>2, <2>1, <3>1
    <3>3. [TapeOf(s) EXCEPT ![p] = <<ch, attr>>][i] = TapeOf(s)[i]
      BY <2>3, TapeIs
    <3> QED
      BY <3>2, <3>3, TapeCell
  <2> QED
    BY <2>2, <2>3
<1>4. [TapeOf(s) EXCEPT ![p] = <<ch, attr>>]
        = [i \in Places |-> [TapeOf(s) EXCEPT ![p] = <<ch, attr>>][i]]
  BY TapeIs
<1> QED
  BY <1>3, <1>4, TapeIs

\* A row erased on the grid is the places of that row on the line.
LEMMA RowTape ==
  ASSUME NEW s \in Screens
  PROVE  TapeOf(RowCleared(s)) =
           [i \in Places |-> IF i \div COLS = PosOf(s) \div COLS THEN Spaces(s.attr) ELSE TapeOf(s)[i]]
<1>1. s.x \in Cols /\ s.y \in Rows /\ s.grid \in [Rows -> [Cols -> Cells]]
  BY PartsOK
<1>2. PosOf(s) \div COLS = s.y
  BY <1>1, CellIsPlace DEF PosOf
<1>3. RowCleared(s).grid = [s.grid EXCEPT ![s.y] = [c \in Cols |-> Blank(s.attr)]]
  BY DEF RowCleared, Dirty, Screens
<1>4. ASSUME NEW i \in Places
      PROVE  Shown(RowCleared(s).grid[i \div COLS][i % COLS])
               = IF i \div COLS = s.y THEN Spaces(s.attr) ELSE TapeOf(s)[i]
  <2>1. i \div COLS \in Rows /\ i % COLS \in Cols
    BY PlaceIsCell
  <2>2. CASE i \div COLS = s.y
    BY <1>1, <1>3, <2>1, <2>2 DEF Shown, Spaces, Blank
  <2>3. CASE i \div COLS # s.y
    <3>1. RowCleared(s).grid[i \div COLS] = s.grid[i \div COLS]
      BY <1>1, <1>3, <2>1, <2>3
    <3> QED
      BY <2>3, <3>1, TapeCell
  <2> QED
    BY <2>2, <2>3
<1> QED
  BY <1>2, <1>4, TapeIs

-----------------------------------------------------------------------------
(* Going on to the next line. *)

\* What Terminal asks of a line and a position that go on to q.
WentOn(t, written, q, attr) ==
  IF q < COLS * ROWS THEN TapeOf(t) = written /\ PosOf(t) = q
  ELSE /\ TapeOf(t) = [i \in Places |-> IF i + COLS < COLS * ROWS THEN written[i + COLS] ELSE Spaces(attr)]
       /\ PosOf(t) = q - COLS

\* Rows move up by one where places move down by the width.
LEMMA ScrolledTape ==
  ASSUME NEW s \in Screens
  PROVE  TapeOf(Scrolled(s)) =
           [i \in Places |-> IF i + COLS < COLS * ROWS THEN TapeOf(s)[i + COLS] ELSE Spaces(s.attr)]
<1>1. COLS \in Nat \ {0} /\ ROWS \in Nat \ {0}
  BY Sizes
<1>2. Scrolled(s).grid = [r \in Rows |-> IF r = ROWS - 1 THEN [c \in Cols |-> Blank(s.attr)] ELSE s.grid[r + 1]]
  BY DEF Scrolled, Screens
<1>3. ASSUME NEW i \in Places
      PROVE  Shown(Scrolled(s).grid[i \div COLS][i % COLS])
               = IF i + COLS < COLS * ROWS THEN TapeOf(s)[i + COLS] ELSE Spaces(s.attr)
  <2> DEFINE y == i \div COLS
             x == i % COLS
  <2>1. i \in Int /\ y \in Rows /\ x \in Cols /\ i = COLS * y + x
    BY PlaceIsCell
  <2> HIDE DEF x, y
  <2>2. i + COLS = COLS * (y + 1) + x
    BY <1>1, <2>1 DEF Rows, Cols
  <2>3. CASE y = ROWS - 1
    <3>1. ~(i + COLS < COLS * ROWS)
      BY <1>1, <2>1, <2>2, <2>3 DEF Rows, Cols
    <3>2. Scrolled(s).grid[y][x] = Blank(s.attr)
      BY <1>2, <2>1, <2>3
    <3> QED
      BY <3>1, <3>2 DEF Shown, Blank, Spaces, x, y
  <2>4. CASE y # ROWS - 1
    <3>1. y + 1 \in Rows
      BY <1>1, <2>1, <2>4 DEF Rows
    <3>2. i + COLS \in Places /\ (i + COLS) \div COLS = y + 1 /\ (i + COLS) % COLS = x
      BY <2>1, <2>2, <3>1, CellIsPlace
    <3>3. i + COLS < COLS * ROWS
      BY <1>1, <3>2 DEF Places
    <3>4. Scrolled(s).grid[y][x] = s.grid[y + 1][x]
      BY <1>2, <2>1, <2>4
    <3>5. TapeOf(s)[i + COLS] = Shown(s.grid[y + 1][x])
      BY <3>2, TapeCell
    <3> QED
      BY <3>3, <3>4, <3>5 DEF x, y
  <2> QED
    BY <2>3, <2>4
<1> QED
  BY <1>3, TapeIs

\* The next line is where the line goes on after the last place of a row.
LEMMA NextLineGoesOn ==
  ASSUME NEW s \in Screens
  PROVE  WentOn(NextLine(s), TapeOf(s), COLS * (s.y + 1), s.attr) /\ NextLine(s).attr = s.attr
<1>1. s.y \in Rows /\ COLS \in Nat \ {0} /\ ROWS \in Nat \ {0} /\ s.y \in Nat /\ s.y < ROWS
  <2>1. s.y \in Rows
    BY PartsOK
  <2> QED
    BY <2>1, Sizes DEF Rows
<1>2. CASE s.y + 1 < ROWS
  <2>1. COLS * (s.y + 1) < COLS * ROWS
    BY <1>1, <1>2
  <2>2. /\ NextLine(s).grid = s.grid /\ NextLine(s).x = 0 /\ NextLine(s).y = s.y + 1
        /\ NextLine(s).attr = s.attr
    BY <1>2 DEF NextLine, Screens
  <2>3. TapeOf(NextLine(s)) = TapeOf(s)
    BY <2>2, TapeIs
  <2>4. PosOf(NextLine(s)) = COLS * (s.y + 1)
    BY <1>1, <2>2 DEF PosOf
  <2> QED
    BY <2>1, <2>2, <2>3, <2>4 DEF WentOn
<1>3. CASE ~(s.y + 1 < ROWS)
  <2> DEFINE top == [s EXCEPT !.x = 0, !.y = ROWS - 1]
  <2>1. s.y + 1 = ROWS
    BY <1>1, <1>3
  <2>2. top \in Screens /\ top.grid = s.grid /\ top.attr = s.attr /\ top.x = 0 /\ top.y = ROWS - 1
    BY Sizes DEF Screens
  <2>3. NextLine(s) = Scrolled(top)
    BY <1>3 DEF NextLine
  <2> HIDE DEF top
  <2>4. NextLine(s).x = 0 /\ NextLine(s).y = ROWS - 1 /\ NextLine(s).attr = s.attr
    BY <2>2, <2>3 DEF Scrolled, Screens
  <2>5. TapeOf(top) = TapeOf(s)
    BY <2>2, TapeIs
  <2>6. TapeOf(NextLine(s)) =
          [i \in Places |-> IF i + COLS < COLS * ROWS THEN TapeOf(s)[i + COLS] ELSE Spaces(s.attr)]
    BY <2>2, <2>3, <2>5, ScrolledTape
  <2>7. PosOf(NextLine(s)) = COLS * (s.y + 1) - COLS
    BY <1>1, <2>1, <2>4 DEF PosOf
  <2>8. ~(COLS * (s.y + 1) < COLS * ROWS)
    BY <1>1, <2>1
  <2> QED
    BY <2>4, <2>6, <2>7, <2>8 DEF WentOn
<1> QED
  BY <1>2, <1>3

-----------------------------------------------------------------------------
(* Typing, rubbing out and moving. *)

\* The flags that redrawing and blinking need are no part of the line.
LEMMA FlagsAside ==
  ASSUME NEW s \in Screens
  PROVE  /\ TapeOf(Dirty(s)) = TapeOf(s) /\ PosOf(Dirty(s)) = PosOf(s) /\ Dirty(s).attr = s.attr
         /\ TapeOf(MarkedActive(s)) = TapeOf(s) /\ PosOf(MarkedActive(s)) = PosOf(s)
         /\ MarkedActive(s).attr = s.attr
<1>1. Dirty(s).grid = s.grid /\ Dirty(s).x = s.x /\ Dirty(s).y = s.y /\ Dirty(s).attr = s.attr
  BY DEF Dirty, Screens
<1>2. /\ MarkedActive(s).grid = s.grid /\ MarkedActive(s).x = s.x /\ MarkedActive(s).y = s.y
      /\ MarkedActive(s).attr = s.attr
  BY DEF MarkedActive, Dirty, Screens
<1> QED
  BY <1>1, <1>2 DEF TapeOf, PosOf

\* A character is typed at its place, and the line goes on.
LEMMA TypingGoesOn ==
  ASSUME NEW s \in Screens, NEW c \in Byte
  PROVE  /\ WentOn(PutCharacter(s, c), [TapeOf(s) EXCEPT ![PosOf(s)] = <<c, s.attr>>], PosOf(s) + 1, s.attr)
         /\ PutCharacter(s, c).attr = s.attr
<1> DEFINE drawn == [s EXCEPT !.grid[s.y][s.x] = [ch |-> c, attr |-> s.attr]]
           moved == IF s.x + 1 < COLS THEN [drawn EXCEPT !.x = @ + 1] ELSE NextLine(drawn)
           written == [TapeOf(s) EXCEPT ![PosOf(s)] = <<c, s.attr>>]
<1>1. s.x \in Cols /\ s.y \in Rows /\ [ch |-> c, attr |-> s.attr] \in Cells
  BY PartsOK DEF Cells
<1>2. /\ drawn \in Screens /\ drawn.x = s.x /\ drawn.y = s.y /\ drawn.attr = s.attr
      /\ drawn.grid = [s.grid EXCEPT ![s.y][s.x] = [ch |-> c, attr |-> s.attr]]
  BY <1>1, GridOK DEF Screens
<1>3. PutCharacter(s, c) = MarkedActive(moved)
  BY DEF PutCharacter
<1> HIDE DEF drawn
<1>4. TapeOf(drawn) = written
  <2>1. drawn.grid = WithCell(s.grid, s.y, s.x, c, s.attr)
    BY <1>2 DEF WithCell
  <2>2. TapeOf(drawn) = WithPlace(TapeOf(s), COLS * s.y + s.x, c, s.attr)
    BY <1>1, <2>1, WrittenTape
  <2> QED
    BY <2>2 DEF WithPlace, PosOf
<1>5. COLS \in Nat \ {0} /\ ROWS \in Nat \ {0} /\ s.x \in Nat /\ s.x < COLS /\ s.y \in Nat /\ s.y < ROWS
  BY <1>1, Sizes DEF Rows, Cols
<1>6. moved \in Screens /\ moved.attr = s.attr /\ WentOn(moved, written, PosOf(s) + 1, s.attr)
  <2>1. CASE s.x + 1 < COLS
    <3> DEFINE right == [drawn EXCEPT !.x = s.x + 1]
    <3>1. s.x + 1 \in Cols
      BY <1>5, <2>1 DEF Cols
    <3>2. right \in Screens /\ right.grid = drawn.grid /\ right.x = s.x + 1 /\ right.y = s.y
          /\ right.attr = s.attr
      BY <1>2, <3>1 DEF Screens
    <3>3. moved = right
      BY <1>2, <2>1
    <3> HIDE DEF right
    <3>4. TapeOf(right) = written
      BY <1>4, <3>2, TapeIs
    <3>5. PosOf(right) = PosOf(s) + 1
      BY <1>5, <3>2 DEF PosOf
    <3>6. PosOf(right) < COLS * ROWS
      <4>1. PosOf(right) \in Places
        BY <1>1, <3>1, <3>2, CellIsPlace DEF PosOf
      <4> QED
        BY <1>5, <4>1 DEF Places
    <3> QED
      BY <3>2, <3>3, <3>4, <3>5, <3>6 DEF WentOn
  <2>2. CASE ~(s.x + 1 < COLS)
    <3>1. s.x + 1 = COLS
      BY <1>5, <2>2
    <3>2. PosOf(s) + 1 = COLS * (drawn.y + 1)
      BY <1>2, <1>5, <3>1 DEF PosOf
    <3>3. moved = NextLine(drawn)
      BY <2>2
    <3> QED
      BY <1>2, <1>4, <3>2, <3>3, NextLineOK, NextLineGoesOn
  <2> QED
    BY <2>1, <2>2
<1> HIDE DEF moved, written
<1>7. PutCharacter(s, c).attr = s.attr
  BY <1>3, <1>6, FlagsAside
<1>8. WentOn(PutCharacter(s, c), written, PosOf(s) + 1, s.attr)
  BY <1>3, <1>6, FlagsAside DEF WentOn
<1> QED
  BY <1>7, <1>8 DEF written

\* Rubbing out is for the places after the first of a row.
LEMMA RubbingOut ==
  ASSUME NEW s \in Screens, s.x > 0
  PROVE  /\ PosOf(s) % COLS > 0
         /\ PosOf(Backspaced(s)) = PosOf(s) - 1
         /\ TapeOf(Backspaced(s)) = [TapeOf(s) EXCEPT ![PosOf(s) - 1] = Spaces(s.attr)]
         /\ Backspaced(s).attr = s.attr
<1>1. s.x \in Cols /\ s.y \in Rows
  BY PartsOK
<1>2. s.x - 1 \in Cols /\ COLS \in Nat /\ s.x \in Nat /\ s.y \in Nat
  BY <1>1, Sizes DEF Cols, Rows
<1>3. /\ Backspaced(s).grid = [s.grid EXCEPT ![s.y][s.x - 1] = [ch |-> SPACE, attr |-> s.attr]]
      /\ Backspaced(s).x = s.x - 1 /\ Backspaced(s).y = s.y /\ Backspaced(s).attr = s.attr
  BY DEF Backspaced, Dirty, Blank, Screens
<1>4. PosOf(s) - 1 = COLS * s.y + (s.x - 1) /\ PosOf(Backspaced(s)) = PosOf(s) - 1
  BY <1>2, <1>3 DEF PosOf
<1>5. TapeOf(Backspaced(s)) = [TapeOf(s) EXCEPT ![PosOf(s) - 1] = <<SPACE, s.attr>>]
  <2> DEFINE left == s.x - 1
  <2>1. Backspaced(s).grid = WithCell(s.grid, s.y, left, SPACE, s.attr)
    BY <1>3 DEF WithCell
  <2>2. left \in Cols /\ PosOf(s) - 1 = COLS * s.y + left
    BY <1>2, <1>4
  <2> HIDE DEF left
  <2>3. TapeOf(Backspaced(s)) = WithPlace(TapeOf(s), COLS * s.y + left, SPACE, s.attr)
    BY <1>1, <2>1, <2>2, WrittenTape
  <2> QED
    BY <2>2, <2>3 DEF WithPlace
<1>6. PosOf(s) % COLS > 0
  BY <1>1, CellIsPlace DEF PosOf
<1> QED
  BY <1>3, <1>4, <1>5, <1>6 DEF Spaces

\* A move leaves the line and the ink alone.
Went(t, s) == TapeOf(t) = TapeOf(s) /\ PosOf(t) \in Places /\ t.attr = s.attr

LEMMA MovesStay ==
  ASSUME NEW s \in Screens, NEW n \in Byte, NEW m \in Byte
  PROVE  /\ Went(CursorPos(s, n, m), s) /\ Went(CursorUp(s, n), s) /\ Went(CursorDown(s, n), s)
         /\ Went(CursorRight(s, n), s) /\ Went(CursorLeft(s, n), s)
<1>1. ASSUME NEW t \in Screens, t.grid = s.grid, t.attr = s.attr
      PROVE  Went(t, s)
  <2>1. PosOf(t) \in Places
    BY PartsOK, CellIsPlace DEF PosOf
  <2> QED
    BY <1>1, <2>1 DEF Went, TapeOf
<1>2. /\ CursorPos(s, n, m) \in Screens /\ CursorUp(s, n) \in Screens /\ CursorDown(s, n) \in Screens
      /\ CursorRight(s, n) \in Screens /\ CursorLeft(s, n) \in Screens
  BY MovesOK DEF Drawn
<1>3. CursorPos(s, n, m).grid = s.grid /\ CursorPos(s, n, m).attr = s.attr
  BY DEF CursorPos, Dirty, Screens
<1>4. CursorUp(s, n).grid = s.grid /\ CursorUp(s, n).attr = s.attr
  BY DEF CursorUp, Dirty, Screens
<1>5. CursorDown(s, n).grid = s.grid /\ CursorDown(s, n).attr = s.attr
  BY DEF CursorDown, Dirty, Screens
<1>6. CursorRight(s, n).grid = s.grid /\ CursorRight(s, n).attr = s.attr
  BY DEF CursorRight, Dirty, Screens
<1>7. CursorLeft(s, n).grid = s.grid /\ CursorLeft(s, n).attr = s.attr
  BY DEF CursorLeft, Dirty, Screens
<1> QED
  BY <1>1, <1>2, <1>3, <1>4, <1>5, <1>6, <1>7

-----------------------------------------------------------------------------
(* Every command is a step of a terminal. *)

\* A sequence never means a character: those of it do not show.
LEMMA SequencesDoNotShow ==
  ASSUME NEW p, ParserOK(p), NEW c, Feed(p, c).cmd.op = "PutChar"
  PROVE  p.state = "normal" /\ Feed(p, c).cmd.args[1] = c
<1>1. p.state \in {"normal", "escape", "sequence"}
  BY DEF ParserOK, Parsers
<1>2. NoCmd.op # "PutChar"
  BY DEF NoCmd, Cmd
<1>3. CASE p.state = "normal"
  <2>1. Feed(p, c) = OnNormal(c)
    BY <1>3 DEF Feed
  <2> QED
    BY <1>2, <1>3, <2>1 DEF OnNormal, To, Cmd
<1>4. CASE p.state = "escape"
  <2>1. Feed(p, c) = OnEsc(c)
    BY <1>4 DEF Feed
  <2> QED
    BY <1>2, <2>1 DEF OnEsc, To
<1>5. CASE p.state = "sequence"
  <2>1. Feed(p, c) = OnSequence(p.buf, c)
    BY <1>5 DEF Feed
  <2>2. Dispatch(c, p.buf).op # "PutChar"
    BY <1>2 DEF Dispatch, Cmd
  <2> QED
    BY <1>2, <2>1, <2>2 DEF OnSequence, To
<1> QED
  BY <1>1, <1>3, <1>4, <1>5

TermVars == <<TapeOf(screen), COLS * screen.y + screen.x, screen.attr>>

\* Where the screen went on, so did the terminal.
LEMMA GoingOn ==
  ASSUME NEW written, NEW q, WentOn(screen', written, q, screen.attr)
  PROVE  Term!GoOn(written, q)
BY DEF WentOn, PosOf, Places, Spaces, Term!GoOn, Term!Size, Term!Cell

\* A command that a byte makes is one of the terminal's steps, or none.
LEMMA ApplyIsAStep ==
  ASSUME screen \in Screens, NEW cmd, CmdOK(cmd), cmd.op = "PutChar" => cmd.args[1] \in Plain,
         screen' = Apply(screen, cmd)
  PROVE  [Term!Next]_TermVars
<1>1. CASE cmd.op = "PutChar"
  <2> DEFINE c == cmd.args[1]
  <2>1. c \in Plain /\ c \in Byte /\ screen' = PutCharacter(screen, c)
    BY <1>1, TextAssumption DEF Apply
  <2>2. Term!GoOn([TapeOf(screen) EXCEPT ![PosOf(screen)] = <<c, screen.attr>>], PosOf(screen) + 1)
        /\ screen'.attr = screen.attr
    BY <2>1, TypingGoesOn, GoingOn
  <2>3. Term!Type(c)
    BY <2>2 DEF Term!Type, Term!Cell, PosOf
  <2> QED
    BY <2>1, <2>3 DEF Term!Next
<1>2. CASE cmd.op = "Newline"
  <2>1. screen' = Dirty(NextLine(screen)) /\ NextLine(screen) \in Screens
    BY <1>2, NextLineOK DEF Apply
  <2>2. WentOn(screen', TapeOf(screen), COLS * (screen.y + 1), screen.attr) /\ screen'.attr = screen.attr
    BY <2>1, NextLineGoesOn, FlagsAside DEF WentOn
  <2>3. (COLS * screen.y + screen.x) \div COLS = screen.y
    BY PartsOK, CellIsPlace
  <2>4. Term!NewLine
    BY <2>2, <2>3, GoingOn DEF Term!NewLine
  <2> QED
    BY <2>4 DEF Term!Next
<1>3. CASE cmd.op = "Backspace"
  <2>1. screen' = Backspaced(screen)
    BY <1>3 DEF Apply
  <2>2. CASE screen.x > 0
    <3>1. Term!RubOut
      BY <2>1, <2>2, RubbingOut DEF Term!RubOut, Term!Cell, PosOf, Spaces
    <3> QED
      BY <3>1 DEF Term!Next
  <2>3. CASE ~(screen.x > 0)
    BY <2>1, <2>3 DEF Backspaced, TermVars
  <2> QED
    BY <2>2, <2>3
<1>4. CASE cmd.op \in {"CursorPos", "CursorUp", "CursorDown", "CursorRight", "CursorLeft"}
  <2>1. Went(screen', screen)
    <3>1. cmd.args[1] \in Byte /\ (cmd.op = "CursorPos" => cmd.args[2] \in Byte)
      BY <1>4 DEF CmdOK
    <3>2. CASE cmd.op = "CursorPos"
      BY <3>1, <3>2, MovesStay DEF Apply
    <3>3. CASE cmd.op = "CursorUp"
      BY <3>1, <3>3, MovesStay DEF Apply
    <3>4. CASE cmd.op = "CursorDown"
      BY <3>1, <3>4, MovesStay DEF Apply
    <3>5. CASE cmd.op = "CursorRight"
      BY <3>1, <3>5, MovesStay DEF Apply
    <3>6. CASE cmd.op = "CursorLeft"
      BY <3>1, <3>6, MovesStay DEF Apply
    <3> QED
      BY <1>4, <3>2, <3>3, <3>4, <3>5, <3>6
  <2>2. Term!Move
    BY <2>1 DEF Went, PosOf, Places, Term!Move, Term!Size
  <2> QED
    BY <2>2 DEF Term!Next
<1>5. CASE cmd.op = "EraseScreen"
  <2>1. screen' = Cleared(screen)
    BY <1>5 DEF Apply
  <2>2. screen'.grid = Erased(screen.attr) /\ screen'.x = 0 /\ screen'.y = 0 /\ screen'.attr = screen.attr
    BY <2>1 DEF Cleared, Dirty, Screens
  <2>3. TapeOf(screen') = [i \in Places |-> Spaces(screen.attr)]
    BY <2>2, ErasedTape
  <2>4. COLS * screen'.y + screen'.x = 0
    BY <2>2, Sizes
  <2>5. Term!EraseAll
    BY <2>2, <2>3, <2>4 DEF Term!EraseAll, Term!Size, Term!Cell, Places, Spaces
  <2> QED
    BY <2>5 DEF Term!Next
<1>6. CASE cmd.op = "EraseLine"
  <2>1. screen' = RowCleared(screen)
    BY <1>6 DEF Apply
  <2>2. screen'.x = screen.x /\ screen'.y = screen.y /\ screen'.attr = screen.attr
    BY <2>1 DEF RowCleared, Dirty, Screens
  <2>3. TapeOf(screen') =
          [i \in Places |-> IF i \div COLS = PosOf(screen) \div COLS THEN Spaces(screen.attr) ELSE TapeOf(screen)[i]]
    BY <2>1, RowTape
  <2>4. Term!EraseRow
    BY <2>2, <2>3 DEF Term!EraseRow, Term!Size, Term!Cell, Places, Spaces, PosOf
  <2> QED
    BY <2>4 DEF Term!Next
<1>7. CASE cmd.op = "Sgr"
  <2>1. screen' = Rendition(screen, cmd.args)
    BY <1>7 DEF Apply
  <2> DEFINE attr == Saturated(FoldLeft(Coloured, screen.attr, cmd.args))
  <2>2. screen' = Dirty([screen EXCEPT !.attr = attr])
    BY <2>1 DEF Rendition
  <2>3. attr \in Byte
    BY SaturatedByte
  <2> HIDE DEF attr
  <2>4. screen'.grid = screen.grid /\ screen'.x = screen.x /\ screen'.y = screen.y /\ screen'.attr = attr
    BY <2>2 DEF Dirty, Screens
  <2>5. Term!Dip
    BY <2>3, <2>4 DEF Term!Dip, TapeOf
  <2> QED
    BY <2>5 DEF Term!Next
<1>8. CASE cmd.op = "ShowCursor"
  <2>1. screen' = ShownCursor(screen, cmd.args[1])
    BY <1>8 DEF Apply
  <2>2. /\ screen'.grid = screen.grid /\ screen'.x = screen.x /\ screen'.y = screen.y
        /\ screen'.attr = screen.attr
    BY <2>1 DEF ShownCursor, Dirty, Screens
  <2> QED
    BY <2>2 DEF TermVars, TapeOf
<1>9. CASE cmd.op \notin {"PutChar", "Newline", "Backspace", "CursorPos", "CursorUp", "CursorDown", "CursorRight",
                         "CursorLeft", "EraseScreen", "EraseLine", "Sgr", "ShowCursor"}
  <2>1. screen' = screen
    BY <1>9 DEF Apply
  <2> QED
    BY <2>1 DEF TermVars
<1> QED
  BY <1>1, <1>2, <1>3, <1>4, <1>5, <1>6, <1>7, <1>8, <1>9

-----------------------------------------------------------------------------

\* A new screen is a new terminal.
LEMMA NewIsNew ==
  /\ TapeOf(NewScreen) = [i \in Places |-> Spaces(NEW_ATTR)]
  /\ PosOf(NewScreen) = 0 /\ NewScreen.attr = NEW_ATTR
<1>1. NewScreen.grid = Erased(NEW_ATTR) /\ NewScreen.x = 0 /\ NewScreen.y = 0 /\ NewScreen.attr = NEW_ATTR
  BY DEF NewScreen
<1> QED
  BY <1>1, ErasedTape, Sizes DEF PosOf

\* Each step of the mode is a step of the terminal, or leaves it alone.
LEMMA TermStep == ASSUME TypeOK, [Next]_vars PROVE [Term!Next]_TermVars
<1>1. screen \in Screens /\ ParserOK(parser)
  BY DEF TypeOK, ParserOK
<1>2. CASE ConsumeChar
  <2>1. PICK c \in Chars : Put(c)
    BY <1>2 DEF ConsumeChar
  <2> DEFINE cmd == Feed(parser, c).cmd
  <2>2. c \in Byte
    BY <2>1, TextAssumption DEF Chars
  <2>3. CmdOK(cmd)
    BY <1>1, <2>2, FeedOK
  <2>4. cmd.op = "PutChar" => cmd.args[1] \in Plain
    BY <1>1, <2>1, SequencesDoNotShow DEF Chars
  <2>5. screen' = Apply(screen, cmd)
    BY <2>1 DEF Put
  <2> HIDE DEF cmd
  <2> QED
    BY <1>1, <2>3, <2>4, <2>5, ApplyIsAStep
<1>3. CASE Tick \/ Render
  <2>1. /\ screen'.grid = screen.grid /\ screen'.x = screen.x /\ screen'.y = screen.y
        /\ screen'.attr = screen.attr
    BY <1>1, <1>3 DEF Tick, Blinked, Render, Dirty, Screens
  <2> QED
    BY <2>1 DEF TermVars, TapeOf
<1>4. CASE Reset
  <2>1. Term!Restart
    BY <1>4, NewIsNew DEF Reset, Term!Restart, Term!Size, Term!Cell, PosOf, Places, Spaces
  <2> QED
    BY <2>1 DEF Term!Next
<1>5. CASE ConsumeCommand \/ UNCHANGED vars
  BY <1>5 DEF ConsumeCommand, vars, TermVars
<1> QED
  BY <1>2, <1>3, <1>4, <1>5 DEF Next

\* Whatever bytes come, for every size of grid, what is on the screen is what a
\* terminal shows: rows and columns, wrapping, scrolling and erasing are those of
\* one long line.
THEOREM TextIsATerminal == Spec => ImplementsTerminal
<1>1. Init => Term!Init
  BY NewIsNew DEF Init, Term!Init, Term!Size, Term!Cell, PosOf, Places, Spaces
<1>2. TypeOK /\ [Next]_vars => [Term!Next]_TermVars
  BY TermStep
<1> QED
  BY <1>1, <1>2, TypeCorrect, PTL DEF Spec, ImplementsTerminal, Term!Spec, TermVars

-----------------------------------------------------------------------------
(* Induction up to a number. *)

LEMMA Minimal ==
  ASSUME NEW R, IsWellFoundedOn(R, Nat), NEW T, T \subseteq Nat, T # {}
  PROVE  \E x \in T : \A y \in T : ~(<<y, x>> \in R)
BY WFMin

LEMMA Least ==
  ASSUME NEW T, T \subseteq Nat, T # {}
  PROVE  \E x \in T : \A y \in T : x <= y
<1>1. ASSUME NEW R, IsWellFoundedOn(R, Nat), \A x, y \in Nat : <<x, y>> \in R <=> x < y
      PROVE  \E x \in T : \A y \in T : x <= y
  <2>1. IsWellFoundedOn(R, Nat)
    BY <1>1
  <2>2. PICK x \in T : \A y \in T : ~(<<y, x>> \in R)
    BY <2>1, Minimal
  <2>3. ASSUME NEW y \in T PROVE x <= y
    <3>1. x \in Nat /\ y \in Nat /\ ~(<<y, x>> \in R)
      BY <2>2
    <3> QED
      BY <1>1, <3>1
  <2> QED
    BY <2>3
<1>2. \A x, y \in Nat : <<x, y>> \in OpToRel(<, Nat) <=> x < y
  BY DEF OpToRel
<1>3. \E R : IsWellFoundedOn(R, Nat) /\ \A x, y \in Nat : <<x, y>> \in R <=> x < y
  <2> WITNESS OpToRel(<, Nat)
  <2> QED
    BY <1>2, NatLessThanWellFounded, Zenon
<1> QED
  BY <1>1, <1>3

LEMMA Induction ==
  ASSUME NEW S, 0 \in S, NEW n \in Nat, \A i \in 0 .. n - 1 : i \in S => i + 1 \in S
  PROVE  \A i \in 0 .. n : i \in S
<1> DEFINE T == {i \in 0 .. n : i \notin S}
<1>1. SUFFICES ASSUME T # {} PROVE FALSE
  OBVIOUS
<1>2. T \subseteq Nat
  OBVIOUS
<1>3. PICK x \in T : \A y \in T : x <= y
  <2> HIDE DEF T
  <2> QED
    BY <1>1, <1>2, Least
<1>4. x # 0 /\ x \in 0 .. n /\ x \notin S
  OBVIOUS
<1>5. x - 1 \in 0 .. n - 1 /\ x - 1 \notin T
  BY <1>3, <1>4
<1> QED
  BY <1>4, <1>5

-----------------------------------------------------------------------------
(* The parameters of a sequence: the fold of Collected over its bytes is   *)
(* the last of a run of lists of numbers, each the one before it after one *)
(* more byte.                                                              *)

\* What the fold has computed for the indices s, from what it has for fewer.
Step(buf, it, s) == IF s = {} THEN <<0>> ELSE Collected(it[s \ {Max(s)}], buf[Max(s)])

LEMMA Unfolds ==
  ASSUME NEW buf
  PROVE  FoldLeft(Collected, <<0>>, buf) =
           (CHOOSE it : it = [s \in SUBSET DOMAIN buf |-> Step(buf, it, s)])[DOMAIN buf]
BY DEF FoldLeft, MapThenFoldSet, Step

LEMMA Greatest ==
  ASSUME NEW k \in Nat, NEW s \in SUBSET (1 .. k), k \in s
  PROVE  Max(s) = k
<1>1. \A y \in s : k >= y
  OBVIOUS
<1>2. ASSUME NEW x \in s, \A y \in s : x >= y PROVE x = k
  BY <1>1, <1>2
<1> QED
  BY <1>1, <1>2 DEF Max

LEMMA FoldExists ==
  ASSUME NEW buf, NEW n \in Nat
  PROVE  \E it : it = [s \in SUBSET (1 .. n) |-> Step(buf, it, s)]
<1> DEFINE S == {k \in 0 .. n : \E it : it = [s \in SUBSET (1 .. k) |-> Step(buf, it, s)]}
<1>1. 0 \in S
  <2> DEFINE it == [s \in SUBSET (1 .. 0) |-> <<0>>]
  <2>1. it = [s \in SUBSET (1 .. 0) |-> Step(buf, it, s)]
    BY DEF Step
  <2> HIDE DEF it
  <2>2. 0 \in 0 .. n /\ \E i : i = [s \in SUBSET (1 .. 0) |-> Step(buf, i, s)]
    BY <2>1
  <2> QED
    BY <2>2
<1>2. ASSUME NEW k \in 0 .. n - 1, k \in S PROVE k + 1 \in S
  <2>1. PICK it : it = [s \in SUBSET (1 .. k) |-> Step(buf, it, s)]
    BY <1>2
  <2>2. PICK l \in Nat : l = k + 1
    OBVIOUS
  <2>3. PICK more : more = [s \in SUBSET (1 .. l) |->
               IF l \in s THEN Collected(it[s \ {l}], buf[l]) ELSE it[s]]
    OBVIOUS
  <2>4. ASSUME NEW s \in SUBSET (1 .. l) PROVE more[s] = Step(buf, more, s)
    <3>1. CASE l \in s
      <4>1. Max(s) = l
        BY <3>1, Greatest
      <4>2. s \ {l} \in SUBSET (1 .. k) /\ s \ {l} \in SUBSET (1 .. l) /\ l \notin s \ {l}
        BY <2>2
      <4>3. more[s \ {l}] = it[s \ {l}]
        BY <2>3, <4>2
      <4> QED
        BY <2>3, <3>1, <4>1, <4>3 DEF Step
    <3>2. CASE l \notin s
      <4>1. s \in SUBSET (1 .. k)
        BY <2>2, <3>2
      <4>2. more[s] = Step(buf, it, s)
        BY <2>1, <2>3, <3>2, <4>1
      <4>3. s # {} => s \ {Max(s)} \in SUBSET (1 .. l) /\ l \notin s \ {Max(s)}
        BY <3>2
      <4>4. s # {} => more[s \ {Max(s)}] = it[s \ {Max(s)}]
        BY <2>3, <4>3
      <4> QED
        BY <4>2, <4>4 DEF Step
    <3> QED
      BY <3>1, <3>2
  <2>5. more = [s \in SUBSET (1 .. l) |-> Step(buf, more, s)]
    BY <2>3, <2>4
  <2> QED
    BY <2>2, <2>5
<1>3. \A k \in 0 .. n : k \in S
  <2> HIDE DEF S
  <2> QED
    BY <1>1, <1>2, Induction
<1>4. n \in 0 .. n
  OBVIOUS
<1> QED
  BY <1>3, <1>4

LEMMA Run ==
  ASSUME NEW buf, NEW n \in Nat, DOMAIN buf = 1 .. n
  PROVE  \E run : /\ run[0] = <<0>> /\ run[n] = FoldLeft(Collected, <<0>>, buf)
                  /\ \A k \in 1 .. n : run[k] = Collected(run[k - 1], buf[k])
<1>1. PICK it : it = CHOOSE i : i = [s \in SUBSET (1 .. n) |-> Step(buf, i, s)]
  OBVIOUS
<1>2. it = [s \in SUBSET (1 .. n) |-> Step(buf, it, s)]
  BY <1>1, FoldExists
<1>3. FoldLeft(Collected, <<0>>, buf) = it[1 .. n]
  BY <1>1, Unfolds
<1>4. PICK run : run = [k \in 0 .. n |-> it[1 .. k]]
  OBVIOUS
<1>5. run[0] = <<0>>
  BY <1>2, <1>4 DEF Step
<1>6. ASSUME NEW k \in 1 .. n PROVE run[k] = Collected(run[k - 1], buf[k])
  <2>1. PICK s : s = 1 .. k
    OBVIOUS
  <2>2. s \in SUBSET (1 .. n) /\ s # {} /\ k \in s /\ k \in Nat /\ s \in SUBSET (1 .. k)
    BY <2>1
  <2>3. Max(s) = k
    BY <2>2, Greatest
  <2>4. s \ {k} = 1 .. k - 1
    BY <2>1
  <2>5. it[s] = Collected(it[1 .. k - 1], buf[k])
    BY <1>2, <2>2, <2>3, <2>4 DEF Step
  <2>6. run[k] = it[s] /\ run[k - 1] = it[1 .. k - 1]
    BY <1>4, <2>1
  <2> QED
    BY <2>5, <2>6
<1>7. \A k \in 1 .. n : run[k] = Collected(run[k - 1], buf[k])
  BY <1>6
<1>8. run[n] = FoldLeft(Collected, <<0>>, buf)
  BY <1>3, <1>4
<1> QED
  BY <1>5, <1>7, <1>8

-----------------------------------------------------------------------------
(* The fields of a sequence and their numbers. *)

\* A semicolon begins the next field.
LEMMA Fields ==
  ASSUME NEW buf, NEW k \in Nat
  PROVE  /\ FieldAt(buf, 1) = 1
         /\ FieldAt(buf, k + 1) \in Nat \ {0}
         /\ FieldAt(buf, k + 2) = IF buf[k + 1] = SEMICOLON THEN FieldAt(buf, k + 1) + 1 ELSE FieldAt(buf, k + 1)
<1> DEFINE Ends(n) == {j \in 1 .. n : buf[j] = SEMICOLON}
<1>1. ASSUME NEW n \in Nat PROVE IsFiniteSet(Ends(n)) /\ Cardinality(Ends(n)) \in Nat
  <2>1. IsFiniteSet(1 .. n)
    BY FS_Interval
  <2>2. Ends(n) \in SUBSET (1 .. n)
    OBVIOUS
  <2> HIDE DEF Ends
  <2> QED
    BY <2>1, <2>2, FS_Subset, FS_CardinalityType
<1>2. ASSUME NEW n \in Nat PROVE FieldAt(buf, n + 1) = 1 + Cardinality(Ends(n))
  <2>1. n + 1 - 1 = n
    OBVIOUS
  <2> QED
    BY <2>1 DEF FieldAt
<1>3. Ends(0) = {}
  OBVIOUS
<1>4. Ends(k + 1) = IF buf[k + 1] = SEMICOLON THEN Ends(k) \cup {k + 1} ELSE Ends(k)
  OBVIOUS
<1>5. k + 1 \notin Ends(k)
  OBVIOUS
<1> HIDE DEF Ends
<1>6. Cardinality(Ends(k + 1)) =
        IF buf[k + 1] = SEMICOLON THEN Cardinality(Ends(k)) + 1 ELSE Cardinality(Ends(k))
  <2>1. IsFiniteSet(Ends(k))
    BY <1>1
  <2> QED
    BY <2>1, <1>4, <1>5, FS_AddElement
<1>7. FieldAt(buf, 1) = 1
  <2>1. FieldAt(buf, 0 + 1) = 1 + Cardinality(Ends(0)) /\ 0 + 1 = 1
    BY <1>2
  <2> QED
    BY <2>1, <1>3, FS_EmptySet
<1>8. k + 1 \in Nat /\ (k + 1) + 1 = k + 2
  OBVIOUS
<1>9. FieldAt(buf, k + 2) = 1 + Cardinality(Ends(k + 1))
  <2>1. FieldAt(buf, (k + 1) + 1) = 1 + Cardinality(Ends(k + 1))
    BY <1>2, <1>8
  <2> QED
    BY <2>1, <1>8
<1>10. FieldAt(buf, k + 1) = 1 + Cardinality(Ends(k)) /\ Cardinality(Ends(k)) \in Nat
  BY <1>1, <1>2
<1> QED
  BY <1>6, <1>7, <1>9, <1>10

\* The number that field n is after byte i, from what it was.
Reads(buf, n, f, i) ==
  IF i = 0 THEN 0
  ELSE IF buf[i] \in DIGITS /\ FieldAt(buf, i) = n THEN 10 * f[i - 1] + buf[i] - 48
  ELSE f[i - 1]

LEMMA ReadsExist ==
  ASSUME NEW buf, NEW n, NEW len \in Nat
  PROVE  \E f : f = [i \in 0 .. len |-> Reads(buf, n, f, i)]
<1> DEFINE S == {k \in 0 .. len : \E f : f = [i \in 0 .. k |-> Reads(buf, n, f, i)]}
<1>1. 0 \in S
  <2> DEFINE f == [i \in 0 .. 0 |-> 0]
  <2>1. f = [i \in 0 .. 0 |-> Reads(buf, n, f, i)]
    BY DEF Reads
  <2> HIDE DEF f
  <2>2. 0 \in 0 .. len /\ \E g : g = [i \in 0 .. 0 |-> Reads(buf, n, g, i)]
    BY <2>1
  <2> QED
    BY <2>2
<1>2. ASSUME NEW k \in 0 .. len - 1, k \in S PROVE k + 1 \in S
  <2>1. PICK f : f = [i \in 0 .. k |-> Reads(buf, n, f, i)]
    BY <1>2
  <2>2. PICK l \in Nat : l = k + 1
    OBVIOUS
  <2>3. PICK more : more = [i \in 0 .. l |-> IF i = l THEN Reads(buf, n, f, i) ELSE f[i]]
    OBVIOUS
  <2>4. ASSUME NEW i \in 0 .. l PROVE more[i] = Reads(buf, n, more, i)
    <3>1. i # 0 => i - 1 \in 0 .. l /\ i - 1 # l
      OBVIOUS
    <3>2. i # 0 => more[i - 1] = f[i - 1]
      BY <2>3, <3>1
    <3>3. Reads(buf, n, more, i) = Reads(buf, n, f, i)
      BY <3>2 DEF Reads
    <3>4. i # l => i \in 0 .. k
      BY <2>2
    <3> QED
      BY <2>1, <2>3, <3>3, <3>4
  <2>5. more = [i \in 0 .. l |-> Reads(buf, n, more, i)]
    BY <2>3, <2>4
  <2> QED
    BY <2>2, <2>5
<1>3. \A k \in 0 .. len : k \in S
  <2> HIDE DEF S
  <2> QED
    BY <1>1, <1>2, Induction
<1>4. len \in 0 .. len
  OBVIOUS
<1> QED
  BY <1>3, <1>4

LEMMA NumbersAre ==
  ASSUME NEW buf \in Seq(Byte), NEW n
  PROVE  \A i \in 0 .. Len(buf) : Numbers(buf, n)[i] = Reads(buf, n, Numbers(buf, n), i)
<1>1. Numbers(buf, n) = CHOOSE f : f = [i \in 0 .. Len(buf) |-> Reads(buf, n, f, i)]
  BY DEF Numbers, Reads
<1>2. PICK len \in Nat : len = Len(buf)
  OBVIOUS
<1>3. PICK g : g = Numbers(buf, n)
  OBVIOUS
<1>4. g = [i \in 0 .. len |-> Reads(buf, n, g, i)]
  BY <1>1, <1>2, <1>3, ReadsExist
<1> QED
  BY <1>2, <1>3, <1>4

LEMMA NumbersNat ==
  ASSUME NEW buf \in Seq(Byte), NEW n
  PROVE  \A i \in 0 .. Len(buf) : Numbers(buf, n)[i] \in Nat
<1>1. PICK len \in Nat : len = Len(buf)
  OBVIOUS
<1>2. PICK g : g = Numbers(buf, n)
  OBVIOUS
<1>3. \A i \in 0 .. len : g[i] = Reads(buf, n, g, i)
  BY <1>1, <1>2, NumbersAre
<1> DEFINE S == {k \in 0 .. len : g[k] \in Nat}
<1>4. 0 \in S
  BY <1>3 DEF Reads
<1>5. ASSUME NEW k \in 0 .. len - 1, k \in S PROVE k + 1 \in S
  <2>1. PICK l \in 1 .. len : l = k + 1 /\ l - 1 = k
    OBVIOUS
  <2>2. g[l] = Reads(buf, n, g, l) /\ g[l - 1] \in Nat
    BY <1>3, <1>5, <2>1
  <2>3. ASSUME buf[l] \in DIGITS PROVE 10 * g[l - 1] + buf[l] - 48 \in Nat
    <3>1. PICK v \in Nat, b \in 48 .. 57 : v = g[l - 1] /\ b = buf[l]
      BY <2>2, <2>3 DEF DIGITS
    <3>2. 10 * v + b - 48 \in Nat
      OBVIOUS
    <3> QED
      BY <3>1, <3>2
  <2>4. g[l] \in Nat
    BY <2>2, <2>3 DEF Reads
  <2> QED
    BY <2>1, <2>4
<1>6. \A k \in 0 .. len : k \in S
  <2> HIDE DEF S
  <2> QED
    BY <1>4, <1>5, Induction
<1> QED
  BY <1>1, <1>2, <1>6

\* Taking the most that fits after each digit takes it of the whole number.
LEMMA Capped ==
  ASSUME NEW v \in Nat, NEW b \in DIGITS
  PROVE  Saturated(Saturated(10 * AtMost(v, 255)) + b - 48) = AtMost(10 * v + b - 48, 255)
<1>1. PICK d \in 0 .. 9 : d = b - 48
  BY DEF DIGITS
<1>2. \A x \in Nat : Saturated(x) = AtMost(x, 255)
  BY DEF Saturated, AtMost, Byte
<1>3. AtMost(v, 255) \in Nat /\ 10 * AtMost(v, 255) \in Nat
  BY DEF AtMost
<1>4. AtMost(10 * AtMost(v, 255), 255) \in Nat
  BY <1>3 DEF AtMost
<1>5. AtMost(AtMost(10 * AtMost(v, 255), 255) + d, 255) = AtMost(10 * v + d, 255)
  BY DEF AtMost
<1>6. /\ Saturated(10 * AtMost(v, 255)) = AtMost(10 * AtMost(v, 255), 255)
      /\ Saturated(AtMost(10 * AtMost(v, 255), 255) + d) = AtMost(AtMost(10 * AtMost(v, 255), 255) + d, 255)
  BY <1>2, <1>3, <1>4
<1>7. /\ Saturated(10 * AtMost(v, 255)) + b - 48 = AtMost(10 * AtMost(v, 255), 255) + d
      /\ 10 * v + b - 48 = 10 * v + d
  BY <1>1, <1>4, <1>6 DEF DIGITS
<1> QED
  BY <1>5, <1>6, <1>7

\* After k bytes there is a number for each field that has begun, and none of
\* the others has digits yet.
Agree(params, buf, k) ==
  /\ params \in Seq(Nat) /\ Len(params) = FieldAt(buf, k + 1)
  /\ \A n \in 1 .. FieldAt(buf, k + 1) : params[n] = AtMost(Numbers(buf, n)[k], 255)
  /\ \A n \in Nat : n > FieldAt(buf, k + 1) => Numbers(buf, n)[k] = 0

LEMMA CollectedAgree ==
  ASSUME NEW buf \in Seq(Byte), NEW k \in Nat, k < Len(buf), NEW params, Agree(params, buf, k)
  PROVE  Agree(Collected(params, buf[k + 1]), buf, k + 1)
<1>1. PICK b, at, next, l \in Nat :
        b = buf[k + 1] /\ at = FieldAt(buf, k + 1) /\ next = FieldAt(buf, k + 2) /\ l = k + 1
  <2>1. buf[k + 1] \in Nat
    <3>1. PICK c \in Byte : c = buf[k + 1]
      OBVIOUS
    <3>2. c \in Nat
      BY DEF Byte
    <3> QED
      BY <3>1, <3>2
  <2>2. FieldAt(buf, k + 1) \in Nat /\ FieldAt(buf, k + 2) \in Nat /\ k + 1 \in Nat
    BY Fields
  <2> QED
    BY <2>1, <2>2
<1>2. at \in Nat \ {0} /\ next = (IF b = SEMICOLON THEN at + 1 ELSE at) /\ FieldAt(buf, l + 1) = next
  <2>1. l + 1 = k + 2
    BY <1>1
  <2> QED
    BY <1>1, <2>1, Fields
<1>3. PICK had, has : had = [n \in Nat |-> Numbers(buf, n)[k]] /\ has = [n \in Nat |-> Numbers(buf, n)[l]]
  OBVIOUS
<1>4. \A n \in Nat : has[n] = (IF b \in DIGITS /\ at = n THEN 10 * had[n] + b - 48 ELSE had[n]) /\ had[n] \in Nat
  <2>1. l \in 0 .. Len(buf) /\ k \in 0 .. Len(buf) /\ l # 0 /\ l - 1 = k
    BY <1>1
  <2>2. ASSUME NEW n \in Nat
        PROVE  /\ Numbers(buf, n)[l] = (IF b \in DIGITS /\ at = n THEN 10 * Numbers(buf, n)[k] + b - 48 ELSE Numbers(buf, n)[k])
               /\ Numbers(buf, n)[k] \in Nat
    <3>1. Numbers(buf, n)[l] = Reads(buf, n, Numbers(buf, n), l)
      BY <2>1, NumbersAre
    <3>2. Numbers(buf, n)[k] \in Nat
      BY <2>1, NumbersNat
    <3> QED
      BY <1>1, <2>1, <3>1, <3>2 DEF Reads
  <2> QED
    BY <1>3, <2>2
<1>5. /\ params \in Seq(Nat) /\ Len(params) = at
      /\ \A n \in 1 .. at : params[n] = AtMost(had[n], 255)
      /\ \A n \in Nat : n > at => had[n] = 0
  BY <1>1, <1>2, <1>3 DEF Agree
<1>6. PICK q : q = Collected(params, b)
  OBVIOUS
<1>7. \A n \in Nat : n > next => has[n] = 0
  BY <1>2, <1>4, <1>5
<1> DEFINE Goal == q \in Seq(Nat) /\ Len(q) = next /\ \A n \in 1 .. next : q[n] = AtMost(has[n], 255)
<1>8. ASSUME b = SEMICOLON PROVE Goal
  <2>1. q = Append(params, 0)
    BY <1>6, <1>8 DEF Collected
  <2>2. q \in Seq(Nat) /\ Len(q) = at + 1 /\ q[at + 1] = 0 /\ \A n \in 1 .. at : q[n] = params[n]
    BY <1>5, <2>1
  <2>3. \A n \in Nat : has[n] = had[n]
    BY <1>4, <1>8 DEF SEMICOLON, DIGITS
  <2>4. has[at + 1] = 0
    BY <1>2, <1>5, <2>3
  <2>5. AtMost(0, 255) = 0
    BY DEF AtMost
  <2>6. ASSUME NEW n \in 1 .. next PROVE q[n] = AtMost(has[n], 255)
    <3>1. n \in 1 .. at \/ n = at + 1
      BY <1>2, <1>8
    <3> QED
      BY <1>5, <2>2, <2>3, <2>4, <2>5, <3>1
  <2> QED
    BY <1>2, <1>8, <2>2, <2>6
<1>9. ASSUME b \in DIGITS PROVE Goal
  <2>1. b # SEMICOLON
    BY <1>9 DEF SEMICOLON, DIGITS
  <2>2. PICK v : v = Saturated(Saturated(10 * params[at]) + b - 48)
    OBVIOUS
  <2>3. q = [params EXCEPT ![at] = v]
    BY <1>5, <1>6, <1>9, <2>1, <2>2 DEF Collected
  <2>4. at \in 1 .. at
    BY <1>2
  <2>5. v = AtMost(has[at], 255)
    <3>1. params[at] = AtMost(had[at], 255) /\ had[at] \in Nat /\ has[at] = 10 * had[at] + b - 48
      BY <1>2, <1>4, <1>5, <1>9, <2>4
    <3>2. PICK w \in Nat : w = had[at]
      BY <3>1
    <3>3. Saturated(Saturated(10 * AtMost(w, 255)) + b - 48) = AtMost(10 * w + b - 48, 255)
      BY <1>9, Capped
    <3> QED
      BY <2>2, <3>1, <3>2, <3>3
  <2>6. v \in Nat
    <3>1. v \in Byte
      BY <2>2, SaturatedByte
    <3> QED
      BY <3>1 DEF Byte
  <2>7. q \in Seq(Nat) /\ Len(q) = at /\ q[at] = v /\ \A n \in 1 .. at : n # at => q[n] = params[n]
    BY <1>5, <2>3, <2>4, <2>6
  <2>8. \A n \in 1 .. at : n # at => has[n] = had[n]
    BY <1>4
  <2> QED
    BY <1>2, <1>5, <2>1, <2>5, <2>7, <2>8
<1>10. ASSUME b # SEMICOLON, b \notin DIGITS PROVE Goal
  <2>1. q = params
    BY <1>6, <1>10 DEF Collected
  <2>2. \A n \in Nat : has[n] = had[n]
    BY <1>4, <1>10
  <2> QED
    BY <1>2, <1>5, <1>10, <2>1, <2>2
<1>11. Goal
  BY <1>8, <1>9, <1>10
<1>12. \A n \in Nat : has[n] = Numbers(buf, n)[l]
  BY <1>3
<1>13. Agree(q, buf, l)
  <2>1. \A n \in 1 .. next : q[n] = AtMost(Numbers(buf, n)[l], 255)
    <3>1. \A n \in 1 .. next : n \in Nat
      OBVIOUS
    <3> QED
      BY <1>11, <1>12, <3>1
  <2>2. \A n \in Nat : n > next => Numbers(buf, n)[l] = 0
    BY <1>7, <1>12
  <2>3. q \in Seq(Nat) /\ Len(q) = next
    BY <1>11
  <2>4. FieldAt(buf, l + 1) = next
    BY <1>2
  <2>5. /\ q \in Seq(Nat) /\ Len(q) = FieldAt(buf, l + 1)
        /\ \A n \in 1 .. FieldAt(buf, l + 1) : q[n] = AtMost(Numbers(buf, n)[l], 255)
        /\ \A n \in Nat : n > FieldAt(buf, l + 1) => Numbers(buf, n)[l] = 0
    BY ONLY <2>1, <2>2, <2>3, <2>4
  <2> QED
    BY <2>5 DEF Agree
<1> QED
  BY <1>1, <1>6, <1>13

\* What a sequence of any length means to parse_params.
LEMMA ParamsAre ==
  ASSUME NEW buf \in Seq(Byte)
  PROVE  ParseParams(buf) =
           [n \in 1 .. AtMost(FieldAt(buf, Len(buf) + 1), MAX_PARAMS) |-> AtMost(Number(buf, n), 255)]
<1>1. PICK len \in Nat : len = Len(buf) /\ DOMAIN buf = 1 .. len
  OBVIOUS
<1>2. PICK run : /\ run[0] = <<0>> /\ run[len] = FoldLeft(Collected, <<0>>, buf)
                 /\ \A k \in 1 .. len : run[k] = Collected(run[k - 1], buf[k])
  BY <1>1, Run
<1> DEFINE S == {k \in 0 .. len : Agree(run[k], buf, k)}
<1>3. 0 \in S
  <2>1. PICK p : p = <<0>>
    OBVIOUS
  <2>2. p \in Seq(Nat) /\ Len(p) = 1 /\ p[1] = 0
    BY <2>1
  <2>3. FieldAt(buf, 0 + 1) = 1
    BY Fields
  <2>4. ASSUME NEW n PROVE Numbers(buf, n)[0] = 0
    <3>1. 0 \in 0 .. Len(buf)
      OBVIOUS
    <3> QED
      BY <3>1, NumbersAre DEF Reads
  <2>5. AtMost(0, 255) = 0
    BY DEF AtMost
  <2>6. \A n \in 1 .. 1 : p[n] = AtMost(Numbers(buf, n)[0], 255)
    BY <2>2, <2>4, <2>5
  <2>7. Agree(p, buf, 0)
    BY <2>2, <2>3, <2>4, <2>6 DEF Agree
  <2> QED
    BY <1>2, <2>1, <2>7
<1>4. ASSUME NEW k \in 0 .. len - 1, k \in S PROVE k + 1 \in S
  <2>1. PICK l \in 1 .. len : l = k + 1 /\ l - 1 = k
    OBVIOUS
  <2>2. run[l] = Collected(run[k], buf[l])
    BY <1>2, <2>1
  <2>3. Agree(run[k], buf, k) /\ k \in Nat /\ k < Len(buf)
    BY <1>1, <1>4
  <2>4. Agree(Collected(run[k], buf[k + 1]), buf, k + 1)
    BY <2>3, CollectedAgree
  <2> QED
    BY <2>1, <2>2, <2>4
<1>5. \A k \in 0 .. len : k \in S
  <2> HIDE DEF S
  <2> QED
    BY <1>3, <1>4, Induction
<1>6. PICK all, f : all = run[len] /\ f = FieldAt(buf, len + 1)
  OBVIOUS
<1>7. Agree(all, buf, len)
  BY <1>5, <1>6
<1>8. all \in Seq(Nat) /\ Len(all) = f /\ \A n \in 1 .. f : all[n] = AtMost(Number(buf, n), 255)
  BY <1>1, <1>6, <1>7 DEF Agree, Number
<1>9. PICK m : m = AtMost(f, MAX_PARAMS)
  OBVIOUS
<1>10. m \in 1 .. f
  <2>1. f \in Nat \ {0} /\ MAX_PARAMS \in Nat \ {0}
    BY <1>6, Fields, ParserAssumption
  <2> QED
    BY <1>9, <2>1 DEF AtMost
<1>11. ParseParams(buf) = SubSeq(all, 1, m)
  BY <1>2, <1>6, <1>8, <1>9 DEF ParseParams, AtMost
<1>12. SubSeq(all, 1, m) = [n \in 1 .. m |-> all[n]]
  BY <1>8, <1>10
<1>13. [n \in 1 .. m |-> all[n]] = [n \in 1 .. m |-> AtMost(Number(buf, n), 255)]
  BY <1>8, <1>10
<1> QED
  BY <1>1, <1>6, <1>9, <1>11, <1>12, <1>13

\* Each field between semicolons is the number that its digits write in decimal,
\* at most 255: for every capacity, every number of parameters and all bytes.
THEOREM FieldsAreNumbers == Spec => []ParamsRight
<1>1. TypeOK => ParamsRight
  <2>1. SUFFICES ASSUME TypeOK PROVE ParamsRight
    OBVIOUS
  <2>2. parser.buf \in Seq(Byte)
    BY <2>1 DEF TypeOK, Parsers
  <2> QED
    BY <2>2, ParamsAre DEF ParamsRight
<1> QED
  BY <1>1, TypeCorrect, PTL
==============================================================================
