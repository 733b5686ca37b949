----------------------------- MODULE AnsiParser -----------------------------
(***************************************************************************)
(* The escape sequence parser of the text mode (AnsiParser in text.rs): a  *)
(* parser is a record, and Feed gives the parser and the command that a    *)
(* byte makes of it. Bytes keep their values.                              *)
(***************************************************************************)
EXTENDS Integers, Sequences, SequencesExt

CONSTANTS
  SEQ_CAPACITY,   \* parameter bytes an escape sequence may have (16)
  MAX_PARAMS      \* parameters that are kept (8)

ASSUME ParserAssumption == SEQ_CAPACITY \in Nat \ {0} /\ MAX_PARAMS \in Nat \ {0}

Byte == 0 .. 255

ESC       == 27
BRACKET   == 91
SEMICOLON == 59
QUESTION  == 63
DIGITS    == 48 .. 57
FINALS    == 64 .. 255      \* what ends a sequence

Parsers == [state : {"normal", "escape", "sequence"}, buf : Seq(Byte)]
Idle    == [state |-> "normal", buf |-> <<>>]

\* Arithmetic of u8: saturating, and wrapping as in a release build.
Saturated(v) == IF v \in Byte THEN v ELSE 255
Added(a, b)  == (a + b) % 256
Less(a, b)   == IF a >= b THEN a - b ELSE 0

-----------------------------------------------------------------------------

\* A command and its arguments.
Cmd(op, args) == [op |-> op, args |-> args]
NoCmd == Cmd("none", <<>>)

\* Mutant: the number goes on after a semicolon.
CollectedCarry(params, b) ==
  IF b = SEMICOLON THEN Append(params, params[Len(params)])
  ELSE IF b \in DIGITS THEN [params EXCEPT ![Len(params)] = Saturated(Saturated(10 * @) + b - 48)]
  ELSE params

\* What a byte does to the numbers that parse_params collects.
Collected(params, b) ==
  IF b = SEMICOLON THEN Append(params, 0)
  ELSE IF b \in DIGITS THEN [params EXCEPT ![Len(params)] = Saturated(Saturated(10 * @) + b - 48)]
  ELSE params

\* parse_params: the numbers between the semicolons, at least one.
ParseParams(buf) ==
  LET all == FoldLeft(Collected, <<0>>, buf)
  IN SubSeq(all, 1, IF Len(all) < MAX_PARAMS THEN Len(all) ELSE MAX_PARAMS)

\* The final byte of a sequence and its parameter bytes.
Dispatch(final, buf) ==
  LET private == buf # <<>> /\ Head(buf) = QUESTION
      params  == ParseParams(IF private THEN Tail(buf) ELSE buf)
      arg(i)  == IF i <= Len(params) THEN Saturated(params[i]) ELSE 0
      steps   == IF arg(1) = 0 THEN 1 ELSE arg(1)
  IN CASE final \in {72, 102} -> Cmd("CursorPos", <<Less(arg(1), 1), Less(arg(2), 1)>>)
       [] final = 65 -> Cmd("CursorUp", <<steps>>)
       [] final = 66 -> Cmd("CursorDown", <<steps>>)
       [] final = 67 -> Cmd("CursorRight", <<steps>>)
       [] final = 68 -> Cmd("CursorLeft", <<steps>>)
       [] final = 74 -> Cmd("EraseScreen", <<>>)
       [] final = 75 -> Cmd("EraseLine", <<>>)
       [] final = 109 -> Cmd("Sgr", params)
       [] final = 104 /\ private -> Cmd("ShowCursor", <<TRUE>>)
       [] final = 108 /\ private -> Cmd("ShowCursor", <<FALSE>>)
       [] OTHER -> NoCmd

-----------------------------------------------------------------------------

To(state, buf, cmd) == [parser |-> [state |-> state, buf |-> buf], cmd |-> cmd]

OnNormal(c) ==
  IF c = ESC THEN To("escape", <<>>, NoCmd)
  ELSE To("normal", <<>>,
          CASE c \in {10, 13} -> Cmd("Newline", <<>>)
            [] c \in {8, 127} -> Cmd("Backspace", <<>>)
            [] OTHER          -> Cmd("PutChar", <<c>>))

OnEsc(c) == To(IF c = BRACKET THEN "sequence" ELSE "normal", <<>>, NoCmd)

\* A sequence that is too long is given up; the rest of it is plain text.
OnSequence(buf, c) ==
  IF c \in FINALS THEN To("normal", <<>>, Dispatch(c, buf))
  ELSE IF Len(buf) = SEQ_CAPACITY THEN To("normal", <<>>, NoCmd)
  ELSE To("sequence", Append(buf, c), NoCmd)

Feed(p, c) ==
  CASE p.state = "normal"   -> OnNormal(c)
    [] p.state = "escape"   -> OnEsc(c)
    [] p.state = "sequence" -> OnSequence(p.buf, c)
=============================================================================
