------------------------------ MODULE TextMode ------------------------------
(***************************************************************************)
(* The text mode of the console (Text in text.rs), byte by byte: the host  *)
(* link cuts and drops transactions, and this mode keeps its framing and   *)
(* its parser from one to the next, so any chopping is a behaviour.        *)
(***************************************************************************)
EXTENDS TextScreen

CONSTANTS
  BLINK_TICKS,   \* ticks from one blink to the next (31)
  Plain,         \* characters programs put outside an escape sequence
  Coded          \* and inside one

CMD_PUT_CHAR == 33

ASSUME TextAssumption ==
  /\ BLINK_TICKS \in Byte \ {0}
  /\ Plain \subseteq Byte /\ Coded \subseteq Byte

VARIABLES
  awaiting,      \* awaiting_put_char
  blinkTicks,
  parser,
  screen

vars == <<awaiting, blinkTicks, parser, screen>>

Init ==
  /\ awaiting = FALSE
  /\ blinkTicks = 0
  /\ parser = Idle
  /\ screen = NewScreen

\* put_char
Put(c) ==
  LET fed == Feed(parser, c)
  IN /\ parser' = fed.parser
     /\ screen' = Apply(screen, fed.cmd)

Chars == IF parser.state = "normal" THEN Plain ELSE Coded

ConsumeChar ==
  /\ awaiting
  /\ awaiting' = FALSE
  /\ \E c \in Chars : Put(c)
  /\ UNCHANGED blinkTicks

\* Any other byte means nothing to this mode.
ConsumeCommand ==
  /\ ~awaiting
  /\ awaiting' \in {b = CMD_PUT_CHAR : b \in Chars \cup {CMD_PUT_CHAR}}
  /\ UNCHANGED <<blinkTicks, parser, screen>>

Tick ==
  IF blinkTicks + 1 >= BLINK_TICKS
  THEN blinkTicks' = 0 /\ screen' = Blinked(screen) /\ UNCHANGED <<awaiting, parser>>
  ELSE blinkTicks' = blinkTicks + 1 /\ UNCHANGED <<awaiting, parser, screen>>

\* render: what is drawn is View.
Render ==
  /\ screen.dirty
  /\ screen' = [screen EXCEPT !.dirty = FALSE]
  /\ UNCHANGED <<awaiting, blinkTicks, parser>>

\* The program switches to this mode.
Reset ==
  /\ awaiting' = FALSE
  /\ blinkTicks' = 0
  /\ parser' = Idle
  /\ screen' = NewScreen

Next == ConsumeChar \/ ConsumeCommand \/ Tick \/ Render \/ Reset

Spec == Init /\ [][Next]_vars

\* The mode task ticks as long as this mode is active and it gets to it.
FairSpec == Spec /\ WF_vars(Tick)

-----------------------------------------------------------------------------

\* Types. In Screens the cursor is on the grid, which is what every access to the
\* grid relies on (grid[y][x] panics otherwise), whatever bytes come and however
\* the sums wrap; and the parser keeps within its buffer.
TypeOK ==
  /\ awaiting \in BOOLEAN
  /\ blinkTicks \in 0 .. BLINK_TICKS - 1
  /\ parser \in Parsers /\ Len(parser.buf) <= SEQ_CAPACITY
  /\ screen \in Screens

\* push_state: the cursor is a block over its cell.
CURSOR_CH == 219
View(s) ==
  [r \in Rows |-> [c \in Cols |->
     IF s.visible /\ r = s.y /\ c = s.x THEN [ch |-> CURSOR_CH, attr |-> s.attr] ELSE s.grid[r][c]]]

\* Whatever changes what is to be seen also asks for it to be drawn: a change
\* that did not would stay unseen until something else happens.
ChangesDrawn == [][View(screen') # View(screen) => screen'.dirty]_vars

\* The mode is a terminal: its rows and columns, wrapping, scrolling and erasing
\* are those of one long line, and bytes of a sequence do not show.
TapeOf(s) ==
  [i \in 0 .. COLS * ROWS - 1 |->
     LET cell == s.grid[i \div COLS][i % COLS] IN <<cell.ch, cell.attr>>]

Term == INSTANCE Terminal WITH
  Width <- COLS, Height <- ROWS, Glyphs <- Plain, Inks <- Byte, Space <- SPACE, FirstInk <- NEW_ATTR,
  tape <- TapeOf(screen), pos <- COLS * screen.y + screen.x, ink <- screen.attr
ImplementsTerminal == Term!Spec

\* When nobody types any more the cursor comes back, whatever programs do with
\* its visibility, and although typing hides it for some blinks.
CursorReturns == <>[][screen'.idle >= screen.idle]_vars => []<>screen.visible

\* What a sequence means: the fields between its semicolons, each the number its
\* digits write in decimal, at most 255. FieldAt is the field that byte i is in, and
\* Numbers what the digits of field n write up to each byte.
FieldAt(buf, i) == 1 + Cardinality({j \in 1 .. i - 1 : buf[j] = SEMICOLON})

Numbers(buf, n) ==
  LET number[i \in 0 .. Len(buf)] ==
        IF i = 0 THEN 0
        ELSE IF buf[i] \in DIGITS /\ FieldAt(buf, i) = n THEN 10 * number[i - 1] + buf[i] - 48
        ELSE number[i - 1]
  IN number

Number(buf, n) == Numbers(buf, n)[Len(buf)]

ParamsRight ==
  LET fields == FieldAt(parser.buf, Len(parser.buf) + 1)
  IN ParseParams(parser.buf) =
       [n \in 1 .. AtMost(fields, MAX_PARAMS) |-> AtMost(Number(parser.buf, n), 255)]
=============================================================================
