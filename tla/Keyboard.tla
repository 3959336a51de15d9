------------------------------ MODULE Keyboard ------------------------------
(***************************************************************************)
(* From key to command: keyboard_handler (src/kernel/keyboard.c) puts      *)
(* characters in a ring from interrupt context, shell_run (shell.c) polls  *)
(* the ring, edits its command line and echoes it to the console.  While a *)
(* command runs nobody reads the ring.                                     *)
(***************************************************************************)
EXTENDS Integers, Console

CONSTANTS
  Scancode,    \* what port 0x60 delivers
  Translate,   \* scancode_table as a function; its domain is what the table covers
  Printable,   \* the characters 32 .. 126
  BufSize,     \* sizeof kbd_buffer: 128
  CmdSize,     \* sizeof cmd: 64
  MaxKeys      \* keys typed in all (bound of the model)

NUL == "NUL"

ASSUME KeyboardAssumption ==
  /\ BufSize \in Nat \ {0} /\ CmdSize \in Nat \ {0} /\ MaxKeys \in Nat
  /\ DOMAIN Translate \subseteq Scancode
  /\ Printable \cap {NUL, Newline, Backspace} = {}

VARIABLES
  kbd_buffer, kbd_head, kbd_tail,  \* the ring; head is where the handler writes
  cmd, pos,                        \* the command line of shell_run
  running,                         \* a command runs
  screen,                          \* the console
  longest,                         \* the most characters the line has had since the prompt
  keys,                            \* keys typed so far
  typed,                           \* every character the ring has accepted
  taken,                           \* how many of them the shell has read
  ran                              \* every command line run

ring == <<kbd_buffer, kbd_head, kbd_tail>>
line == <<cmd, pos, running, screen, longest, ran>>
kbd_vars == <<ring, line, keys, typed, taken>>

Char == {Translate[s] : s \in DOMAIN Translate} \ {NUL}
KbdIndex == 0 .. BufSize - 1
Blank == [i \in 0 .. CmdSize - 1 |-> NUL]

(* The ring indices and pos stay inside their arrays and the last byte of   *)
(* cmd stays 0 (keyboard.c:42-46, 61-62; shell.c:687-688).                  *)
KeyboardTypeOK ==
  /\ kbd_buffer \in [KbdIndex -> Char \cup {NUL}]
  /\ kbd_head \in KbdIndex /\ kbd_tail \in KbdIndex
  /\ cmd \in [0 .. CmdSize - 1 -> Printable \cup {NUL}]
  /\ pos \in 0 .. CmdSize - 1
  /\ keys \in 0 .. MaxKeys

PromptText == <<">", Space>>

(* keyboard_init, and the shell at its first prompt. *)
KbdInit ==
  /\ kbd_buffer = [i \in KbdIndex |-> NUL]
  /\ kbd_head = 0 /\ kbd_tail = 0
  /\ cmd = Blank /\ pos = 0 /\ longest = 0
  /\ running = FALSE /\ screen = console_print(Cleared, PromptText)
  /\ keys = 0 /\ typed = <<>> /\ taken = 0 /\ ran = <<>>

-----------------------------------------------------------------------------
\* Mutant: a full ring is overwritten.
PushOver(c) ==
  /\ kbd_buffer' = [kbd_buffer EXCEPT ![kbd_head] = c]
  /\ kbd_head' = (kbd_head + 1) % BufSize
  /\ typed' = Append(typed, c)
  /\ UNCHANGED kbd_tail

(* The locked section of keyboard_handler: a key that does not fit is lost. *)
Push(c) ==
  LET next == (kbd_head + 1) % BufSize IN
  /\ IF next # kbd_tail
     THEN /\ kbd_buffer' = [kbd_buffer EXCEPT ![kbd_head] = c]
          /\ kbd_head' = next
          /\ typed' = Append(typed, c)
     ELSE UNCHANGED <<kbd_buffer, kbd_head, typed>>
  /\ UNCHANGED kbd_tail

(* keyboard_handler.  Releases and unknown keys are beyond the table or 0.  *)
keyboard_handler(s) ==
  /\ keys < MaxKeys
  /\ keys' = keys + 1
  /\ IF s \in DOMAIN Translate /\ Translate[s] # NUL
     THEN Push(Translate[s])
     ELSE UNCHANGED <<ring, typed>>
  /\ UNCHANGED <<line, taken>>

-----------------------------------------------------------------------------
Echo(c) == screen' = console_putc(screen, c)

\* Mutant: backspace moves back without clearing.
EraseKept ==
  /\ IF pos > 0 THEN pos' = pos - 1 /\ Echo(Backspace) ELSE UNCHANGED <<pos, screen>>
  /\ UNCHANGED cmd

\* Mutant: every backspace is echoed.
EraseEchoed ==
  /\ IF pos > 0
     THEN pos' = pos - 1 /\ cmd' = [cmd EXCEPT ![pos - 1] = NUL]
     ELSE UNCHANGED <<cmd, pos>>
  /\ Echo(Backspace)

Erase ==
  IF pos > 0
  THEN pos' = pos - 1 /\ cmd' = [cmd EXCEPT ![pos - 1] = NUL] /\ Echo(Backspace)
  ELSE UNCHANGED <<cmd, pos, screen>>

Type(c) ==
  IF pos < CmdSize - 1
  THEN pos' = pos + 1 /\ cmd' = [cmd EXCEPT ![pos] = c] /\ Echo(c)
  ELSE UNCHANGED <<cmd, pos, screen>>

(* A C string: the characters before the first 0. *)
CString(s) ==
  LET end == CHOOSE n \in 0 .. CmdSize :
               /\ n < CmdSize => s[n] = NUL
               /\ \A i \in 0 .. n - 1 : s[i] # NUL
  IN [i \in 1 .. end |-> s[i - 1]]

(* Newline: the line is compared with the commands and one is run. *)
Enter ==
  /\ Echo(Newline)
  /\ ran' = Append(ran, CString(cmd))
  /\ running' = TRUE
  /\ UNCHANGED <<cmd, pos>>

(* keyboard_get_char when there is something to get. *)
keyboard_get_char(c) ==
  /\ kbd_head # kbd_tail
  /\ c = kbd_buffer[kbd_tail]
  /\ kbd_tail' = (kbd_tail + 1) % BufSize
  /\ taken' = taken + 1
  /\ UNCHANGED <<kbd_buffer, kbd_head>>

Edited(c) ==
  \/ c = Newline /\ Enter
  \/ c = Backspace /\ Erase /\ UNCHANGED <<ran, running>>
  \/ c \in Printable /\ Type(c) /\ UNCHANGED <<ran, running>>

\* Mutant: a character that is neither printable nor special is read again.
GetKeyStuck ==
  /\ ~ running
  /\ \E c \in Char : keyboard_get_char(c) /\ Edited(c)
  /\ longest' = IF pos' > longest THEN pos' ELSE longest
  /\ UNCHANGED <<keys, typed>>

(* One round of the inner loop of shell_run that gets a character. *)
GetKey ==
  /\ ~ running
  /\ \E c \in Char :
       /\ keyboard_get_char(c)
       /\ \/ Edited(c)
          \/ /\ c \notin Printable \cup {Newline, Backspace}
             /\ UNCHANGED <<cmd, pos, running, screen, ran>>
  /\ longest' = IF pos' > longest THEN pos' ELSE longest
  /\ UNCHANGED <<keys, typed>>

(* With nothing to read it sleeps and tries again. *)
ShellSleep == ~ running /\ kbd_head = kbd_tail /\ UNCHANGED kbd_vars

(* The command is over, with or without a line of output, and the next      *)
(* prompt clears the line.                                                  *)
NextPrompt ==
  /\ running /\ running' = FALSE
  /\ \E output \in {<<>>, <<"out", Newline>>} : screen' = console_print(screen, output \o PromptText)
  /\ cmd' = Blank /\ pos' = 0 /\ longest' = 0
  /\ UNCHANGED <<ring, ran, keys, typed, taken>>

shell_run == GetKey \/ ShellSleep \/ NextPrompt

KbdNext == (\E s \in Scancode : keyboard_handler(s)) \/ shell_run

KbdSpec == KbdInit /\ [][KbdNext]_kbd_vars

-----------------------------------------------------------------------------
(* The reference: what a typist means by a run of characters.               *)
Pending == [i \in 1 .. (kbd_head + BufSize - kbd_tail) % BufSize |->
              kbd_buffer[(kbd_tail + i - 1) % BufSize]]
Read == SubSeq(typed, 1, taken)

Edit(l, c) ==
  CASE c = Backspace -> IF l = <<>> THEN l ELSE SubSeq(l, 1, Len(l) - 1)
    [] c \in Printable -> IF Len(l) < CmdSize - 1 THEN Append(l, c) ELSE l
    [] OTHER -> l

NoLines == [lines |-> <<>>, line |-> <<>>]
Keyed(m, c) ==
  IF c = Newline THEN [lines |-> Append(m.lines, m.line), line |-> <<>>]
  ELSE [m EXCEPT !.line = Edit(@, c)]

Meant(s) ==
  LET meant[n \in 0 .. Len(s)] == IF n = 0 THEN NoLines ELSE Keyed(meant[n - 1], s[n])
  IN meant[Len(s)]

(* The shell has read, or the ring still holds, every character the ring    *)
(* accepted, in the order typed, however often it has wrapped and however   *)
(* long commands kept the shell from reading (keyboard.c:42-46, 61-62).     *)
NoKeyLost == KeyboardTypeOK /\ Read \o Pending = typed

(* The shell runs exactly the lines that were typed, with every backspace   *)
(* applied, cut at CmdSize - 1 characters and nothing of an earlier line    *)
(* left behind (shell.c:677-690).                                           *)
RunsWhatWasTyped ==
  /\ ran = Meant(Read).lines
  /\ ~ running => CString(cmd) = Meant(Read).line /\ pos = Len(Meant(Read).line)

LineStart == Margin + Advance * Len(PromptText)

(* The next character always has its place on the screen, and what the user *)
(* sees after the prompt is the line that would be run, whatever was erased *)
(* and retyped, as long as the line has stayed on one row and the text has  *)
(* not come round to the top, where it is drawn over what is there          *)
(* (console.c:39-74, shell.c:677-688).                                      *)
ScreenShowsLine ==
  /\ screen.x \in Xs /\ screen.x + CharWidth < Width
  /\ screen.y \in Ys /\ screen.y + CharHeight < Height
  /\ ~ running /\ ~ screen.lapped /\ LineStart + Advance * longest + CharWidth < Width =>
       /\ screen.x = LineStart + Advance * pos
       /\ \A x \in Xs : x >= Margin =>
            screen.glyphs[<<x, screen.y>>] = IF x = Margin THEN {">"}
                                             ELSE IF x >= LineStart /\ x < screen.x
                                             THEN {cmd[(x - LineStart) \div Advance]} ELSE {}
=============================================================================
