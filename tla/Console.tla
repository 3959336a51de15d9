------------------------------ MODULE Console ------------------------------
(***************************************************************************)
(* What console.c does to the screen, as functions on a record: the cursor *)
(* in pixels, and for each place a character may have been drawn the       *)
(* glyphs lying there on top of each other, for drawing one sets pixels    *)
(* and clears none.  Each call holds console_lock throughout.              *)
(***************************************************************************)
EXTENDS Naturals, Sequences

CONSTANTS Width, Height    \* of the screen, in pixels

Newline == "NL"
Backspace == "BS"
Space == "SP"

CharWidth == 8
CharHeight == 8
Advance == CharWidth + 1       \* CHAR_SPACING
LineStep == CharHeight + 4
Margin == 10

Xs == {x \in 0 .. Width : x = 1 \/ (x >= Margin /\ (x - Margin) % Advance = 0)}
Ys == {y \in 0 .. Height : y >= Margin /\ (y - Margin) % LineStep = 0}

(* console_clear; lapped tells whether the cursor has since come back from  *)
(* the bottom to the top.                                                   *)
Cleared == [x |-> Margin, y |-> Margin, lapped |-> FALSE,
            glyphs |-> [p \in Xs \X Ys |-> {}]]

Wrapped(s) ==
  IF s.x + CharWidth >= Width THEN [s EXCEPT !.x = Margin, !.y = @ + LineStep] ELSE s

TopAgain(s) ==
  IF s.y + CharHeight >= Height THEN [s EXCEPT !.x = Margin, !.y = Margin, !.lapped = TRUE] ELSE s

Drawn(s, c) ==
  [s EXCEPT !.x = @ + Advance,
            !.glyphs[<<s.x, s.y>>] = IF c = Space THEN @ ELSE @ \cup {c}]

Erased(s) ==
  IF s.x >= Advance
  THEN [s EXCEPT !.x = @ - Advance, !.glyphs[<<s.x - Advance, s.y>>] = {}]
  ELSE s

console_putc(s, c) ==
  TopAgain(Wrapped(
    CASE c = Newline -> [s EXCEPT !.x = Margin, !.y = @ + LineStep]
      [] c = Backspace -> Erased(s)
      [] OTHER -> Drawn(s, c)))

console_print(s, str) ==
  LET after[n \in 0 .. Len(str)] == IF n = 0 THEN s ELSE console_putc(after[n - 1], str[n])
  IN after[Len(str)]
=============================================================================
