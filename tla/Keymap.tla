------------------------------- MODULE Keymap -------------------------------
(***************************************************************************)
(* What the key of a boot keyboard types (keymap.rs): the byte of          *)
(* KEYCODE_TO_ASCII, where it is not 0, or else the sequence that          *)
(* KEYCODE_TO_ANSI has for it.                                             *)
(***************************************************************************)
EXTENDS Integers, Sequences

Nothing == <<0, 0>>
Both(c) == <<c, c>>

SHIFTED_DIGITS == <<33, 64, 35, 36, 37, 94, 38, 42, 40, 41>>
CONTROLS       == <<13, 27, 8, 9, 32>>     \* Enter, Escape, Backspace, Tab, Space
PUNCTUATION    ==
  <<<<45, 95>>, <<61, 43>>, <<91, 123>>, <<93, 125>>, <<92, 124>>, <<35, 126>>,
    <<59, 58>>, <<39, 34>>, <<96, 126>>, <<44, 60>>, <<46, 62>>, <<47, 63>>>>
KEYPAD_SIGNS   == <<47, 42, 45, 43, 13>>

\* Plain and shifted, by keycode.
KEYCODE_TO_ASCII(k) ==
  CASE k \in 4 .. 29  -> <<k + 93, k + 61>>
    [] k \in 30 .. 38 -> <<k + 19, SHIFTED_DIGITS[k - 29]>>
    [] k = 39         -> <<48, SHIFTED_DIGITS[10]>>
    [] k \in 40 .. 44 -> Both(CONTROLS[k - 39])
    [] k \in 45 .. 56 -> PUNCTUATION[k - 44]
    [] k \in 84 .. 88 -> Both(KEYPAD_SIGNS[k - 83])
    [] k = 93         -> Both(53)
    [] k \in (89 .. 97) \ {93} -> <<k - 40, 0>>
    [] k = 98         -> <<48, 0>>
    [] k = 99         -> <<46, 0>>
    [] k = 103        -> Both(61)
    [] OTHER          -> Nothing

ESCAPE == 27

KEYCODE_TO_ANSI(k) ==
  CASE k \in 79 .. 82 -> <<ESCAPE, 91, <<67, 68, 66, 65>>[k - 78]>>   \* the arrows
    [] k = 74         -> <<ESCAPE, 91, 72>>                            \* Home
    [] k = 77         -> <<ESCAPE, 91, 70>>                            \* End
    [] k = 76         -> <<ESCAPE, 91, 51, 126>>                       \* Delete
    [] k \in 58 .. 61 -> <<ESCAPE, 79, k + 22>>                        \* F1 to F4
    [] OTHER          -> <<>>

Typed(k, shift) ==
  LET ascii == KEYCODE_TO_ASCII(k)[IF shift THEN 2 ELSE 1]
  IN IF ascii # 0 THEN <<ascii>> ELSE KEYCODE_TO_ANSI(k)
=============================================================================
