---------------------------- MODULE ShellProofs -----------------------------
(***************************************************************************)
(* Proofs about the shell: the ring between the keyboard and shell_run     *)
(* (Keyboard), and the sections of shstest (Shstest).                      *)
(***************************************************************************)
EXTENDS Keyboard, Shstest, WellFoundedInduction, TLAPS

(* The provers, in the order in which they are tried. *)
USE ZenonT(15), SMT

(* A set of numbers has a least one. *)
LEMMA NatMin ==
  ASSUME NEW S \in SUBSET Nat, S # {}
  PROVE  \E x \in S : \A y \in S : x <= y
<1> DEFINE R == OpToRel(<, Nat)
<1>1. \A x, y \in Nat : y < x => <<y, x>> \in R
  BY DEF OpToRel
<1>2. IsWellFoundedOn(R, Nat)
  BY NatLessThanWellFounded
<1> HIDE DEF R
<1>3. PICK x \in S : \A y \in S : <<y, x>> \notin R
  BY <1>2, WFMin
<1>4. \A y \in S : ~ (y < x)
  BY <1>1, <1>3
<1> QED
  BY SMT, <1>4

(* Induction, with a set for the predicate. *)
LEMMA NatInductive ==
  ASSUME NEW S, 0 \in S, \A n \in Nat : n \in S => n + 1 \in S
  PROVE  Nat \subseteq S
<1> SUFFICES ASSUME NEW m \in Nat, m \notin S PROVE FALSE
  OBVIOUS
<1>1. PICK n \in Nat \ S : \A l \in Nat \ S : n <= l
  BY NatMin
<1>2. n - 1 \in Nat /\ n - 1 + 1 = n /\ ~ (n <= n - 1)
  BY SMT
<1> QED
  BY <1>1, <1>2

-----------------------------------------------------------------------------
(* What % leaves of an index that has gone at most once round a ring, as in *)
(* (kbd_head + 1) % 128 (keyboard.c:42, 62).                                 *)
LEMMA OneTurn ==
  ASSUME NEW b \in Nat \ {0}, NEW y \in Nat, y < b
  PROVE y % b = y /\ (y + b) % b = y
<1>1. y % b = y
  BY SMT
<1>2. (y + b) % b = y % b
  BY SMT
<1> QED
  BY <1>1, <1>2

(* A step of the ring from one index to the next (keyboard.c:42, 62).       *)
LEMMA NextKbdIndex ==
  ASSUME NEW i \in KbdIndex
  PROVE /\ (i + 1) % BufSize \in KbdIndex
        /\ (i + 1) % BufSize = IF i + 1 = BufSize THEN 0 ELSE i + 1
<1>1. BufSize \in Nat \ {0} /\ i \in Nat /\ i < BufSize
  BY KeyboardAssumption, SMT DEF KbdIndex
<1>2. CASE i + 1 < BufSize
  <2>1. i + 1 \in Nat
    BY <1>1, SMT
  <2>2. (i + 1) % BufSize = i + 1
    BY <1>1, <1>2, <2>1, OneTurn
  <2> QED
    BY <1>1, <1>2, <2>2, SMT DEF KbdIndex
<1>3. CASE i + 1 = BufSize
  <2>1. (0 + BufSize) % BufSize = 0
    BY <1>1, OneTurn, SMT
  <2> QED
    BY <1>1, <1>3, <2>1, SMT DEF KbdIndex
<1> QED
  BY <1>1, <1>2, <1>3, SMT

-----------------------------------------------------------------------------
(* How many characters wait in the ring, and where the i-th of them is, by  *)
(* cases on whether the ring wraps between tail and head                    *)
(* (keyboard.c:42-46, 61-62).                                               *)
Held == IF kbd_tail <= kbd_head THEN kbd_head - kbd_tail ELSE kbd_head + BufSize - kbd_tail
Place(i) == IF kbd_tail + i <= BufSize THEN kbd_tail + i - 1 ELSE kbd_tail + i - 1 - BufSize

(* The ring holds, each in its slot, the characters it accepted after those *)
(* the shell has read.                                                      *)
RingInv ==
  /\ kbd_buffer \in [KbdIndex -> Char \cup {NUL}]
  /\ kbd_head \in KbdIndex /\ kbd_tail \in KbdIndex
  /\ typed \in Seq(Char) /\ taken \in Nat
  /\ Len(typed) = taken + Held
  /\ \A i \in 1 .. Held : kbd_buffer[Place(i)] = typed[taken + i]

LineInv ==
  /\ cmd \in [0 .. CmdSize - 1 -> Printable \cup {NUL}]
  /\ pos \in 0 .. CmdSize - 1
  /\ keys \in 0 .. MaxKeys

(* The inductive form of NoKeyLost. *)
KeysInv == RingInv /\ LineInv

(* The modulo arithmetic of Pending says what Held and Place say            *)
(* (keyboard.c:42, 62).                                                     *)
LEMMA HeldPlace ==
  ASSUME kbd_head \in KbdIndex, kbd_tail \in KbdIndex
  PROVE /\ Held \in Nat /\ Held < BufSize
        /\ (kbd_head + BufSize - kbd_tail) % BufSize = Held
        /\ \A i \in 1 .. Held : /\ Place(i) \in KbdIndex
                                /\ (kbd_tail + i - 1) % BufSize = Place(i)
<1>1. BufSize \in Nat \ {0}
  BY KeyboardAssumption
<1>2. Held \in Nat /\ Held < BufSize
  BY <1>1, SMT DEF KbdIndex, Held
<1>3. (kbd_head + BufSize - kbd_tail) % BufSize = Held
  <2>1. kbd_head + BufSize - kbd_tail \in {Held, Held + BufSize}
    BY <1>1, SMT DEF KbdIndex, Held
  <2>2. Held % BufSize = Held /\ (Held + BufSize) % BufSize = Held
    BY <1>1, <1>2, OneTurn
  <2> QED
    BY <2>1, <2>2
<1>4. ASSUME NEW i \in 1 .. Held
      PROVE Place(i) \in KbdIndex /\ (kbd_tail + i - 1) % BufSize = Place(i)
  <2>1. Place(i) \in Nat /\ Place(i) < BufSize
    BY <1>1, <1>2, SMT DEF KbdIndex, Place
  <2>2. kbd_tail + i - 1 \in {Place(i), Place(i) + BufSize}
    BY <1>1, <1>2, SMT DEF KbdIndex, Place
  <2>3. Place(i) % BufSize = Place(i) /\ (Place(i) + BufSize) % BufSize = Place(i)
    BY <1>1, <2>1, OneTurn
  <2>4. Place(i) \in KbdIndex
    BY <1>1, <2>1, SMT DEF KbdIndex
  <2> QED
    BY <2>2, <2>3, <2>4
<1> QED
  BY <1>2, <1>3, <1>4

(* A key put into the ring (keyboard.c:42-46).                              *)
LEMMA PushKeeps ==
  ASSUME RingInv, NEW c \in Char, Push(c), UNCHANGED taken
  PROVE RingInv'
<1> DEFINE next == (kbd_head + 1) % BufSize
<1>a. /\ IF next # kbd_tail
         THEN /\ kbd_buffer' = [kbd_buffer EXCEPT ![kbd_head] = c]
              /\ kbd_head' = next
              /\ typed' = Append(typed, c)
         ELSE UNCHANGED <<kbd_buffer, kbd_head, typed>>
      /\ UNCHANGED <<kbd_tail, taken>>
  BY DEF Push
<1>b. /\ next \in KbdIndex
      /\ next = IF kbd_head + 1 = BufSize THEN 0 ELSE kbd_head + 1
  BY NextKbdIndex DEF RingInv
<1> HIDE DEF next
<1>c. BufSize \in Nat \ {0} /\ kbd_head \in KbdIndex /\ kbd_tail \in KbdIndex
  BY KeyboardAssumption DEF RingInv
<1>1. CASE next = kbd_tail
  <2>1. UNCHANGED <<kbd_buffer, kbd_head, kbd_tail, typed, taken>>
    BY <1>1, <1>a
  <2> QED
    BY <2>1 DEF RingInv, Held, Place
<1>2. CASE next # kbd_tail
  <2>1. /\ kbd_buffer' = [kbd_buffer EXCEPT ![kbd_head] = c]
        /\ kbd_head' = next /\ kbd_tail' = kbd_tail /\ taken' = taken
        /\ typed' = Append(typed, c)
    BY <1>2, <1>a
  <2>3. Held \in Nat /\ Held' = Held + 1
    BY <1>2, <2>1, <1>b, <1>c, SMT DEF Held, KbdIndex
  <2>4. \A i : Place(i)' = Place(i)
    BY <2>1 DEF Place
  <2>5. /\ Place(Held + 1) = kbd_head
        /\ \A i \in 1 .. Held : Place(i) \in KbdIndex /\ Place(i) # kbd_head
    BY <1>c, <2>3, SMT DEF Held, Place, KbdIndex
  <2>6. /\ typed' \in Seq(Char) /\ Len(typed') = Len(typed) + 1
        /\ \A j \in 1 .. Len(typed) : typed'[j] = typed[j]
        /\ typed'[Len(typed) + 1] = c
    BY <2>1, SMT DEF RingInv
  <2>7. kbd_buffer' \in [KbdIndex -> Char \cup {NUL}]
    BY <2>1 DEF RingInv
  <2>8. ASSUME NEW i \in 1 .. Held'
        PROVE kbd_buffer'[Place(i)] = typed'[taken + i]
    <3>1. CASE i = Held + 1
      <4>1. typed'[taken + i] = c
        BY <3>1, <2>3, <2>6, SMT DEF RingInv
      <4>2. kbd_buffer'[Place(i)] = c
        BY <3>1, <2>1, <2>5 DEF RingInv
      <4> QED
        BY <4>1, <4>2
    <3>2. CASE i \in 1 .. Held
      <4>1. taken + i \in 1 .. Len(typed)
        BY <3>2, <2>3, SMT DEF RingInv
      <4>2. typed'[taken + i] = typed[taken + i]
        BY <4>1, <2>6
      <4>3. kbd_buffer'[Place(i)] = kbd_buffer[Place(i)]
        BY <3>2, <2>1, <2>5 DEF RingInv
      <4> QED
        BY <3>2, <4>2, <4>3 DEF RingInv
    <3> QED
      BY <3>1, <3>2, <2>3, SMT
  <2>9. Len(typed') = taken' + Held'
    BY <2>1, <2>3, <2>6, SMT DEF RingInv
  <2> QED
    BY <1>b, <1>c, <2>1, <2>4, <2>6, <2>7, <2>8, <2>9 DEF RingInv
<1> QED
  BY <1>1, <1>2

(* A key taken out of the ring (keyboard.c:61-62).                          *)
LEMMA GetKeeps ==
  ASSUME RingInv, NEW c, keyboard_get_char(c), UNCHANGED typed
  PROVE RingInv'
<1> DEFINE next == (kbd_tail + 1) % BufSize
<1>a. /\ kbd_head # kbd_tail /\ kbd_tail' = next /\ taken' = taken + 1
      /\ UNCHANGED <<kbd_buffer, kbd_head, typed>>
  BY DEF keyboard_get_char
<1>b. /\ next \in KbdIndex
      /\ next = IF kbd_tail + 1 = BufSize THEN 0 ELSE kbd_tail + 1
  BY NextKbdIndex DEF RingInv
<1> HIDE DEF next
<1>c. /\ BufSize \in Nat \ {0} /\ kbd_head \in KbdIndex /\ kbd_tail \in KbdIndex
      /\ taken \in Nat
  BY KeyboardAssumption DEF RingInv
<1>1. PICK h \in Nat : Held' = h /\ Held = h + 1 /\ h < BufSize
  BY <1>a, <1>b, <1>c, SMT DEF Held, KbdIndex
<1>2. ASSUME NEW i \in 1 .. h
      PROVE kbd_buffer'[Place(i)'] = typed'[taken' + i]
  <2>1. i + 1 \in 1 .. h + 1 /\ taken' + i = taken + (i + 1)
    BY <1>a, <1>c, SMT
  <2>2. Place(i)' = Place(i + 1)
    BY <1>1, <1>a, <1>b, <1>c, SMT DEF Place, KbdIndex
  <2> QED
    BY <1>1, <2>1, <2>2, <1>a DEF RingInv
<1>3. Len(typed') = taken' + h
  <2>1. Len(typed) = taken + (h + 1)
    BY <1>1 DEF RingInv
  <2> QED
    BY <2>1, <1>a, <1>c, SMT
<1>4. taken' \in Nat
  BY <1>a, <1>c, SMT
<1> QED
  BY <1>a, <1>b, <1>1, <1>2, <1>3, <1>4 DEF RingInv

(* Editing the command line keeps it inside cmd, with a 0 at its end        *)
(* (shell.c:677-690).                                                       *)
LEMMA LineKeeps ==
  ASSUME LineInv, KbdNext
  PROVE LineInv'
<1>0. CmdSize \in Nat \ {0} /\ MaxKeys \in Nat
  BY KeyboardAssumption
<1>1. ASSUME NEW s \in Scancode, keyboard_handler(s)
      PROVE LineInv'
  <2>1. keys < MaxKeys /\ keys' = keys + 1 /\ UNCHANGED <<cmd, pos>>
    BY <1>1 DEF keyboard_handler, line
  <2>2. keys' \in 0 .. MaxKeys
    BY <1>0, <2>1, SMT DEF LineInv
  <2> QED
    BY <2>1, <2>2 DEF LineInv
<1>2. CASE GetKey
  <2>1. PICK c \in Char : \/ Edited(c)
                          \/ UNCHANGED <<cmd, pos>>
    BY <1>2 DEF GetKey
  <2>2. keys' = keys
    BY <1>2 DEF GetKey
  <2>3. CASE UNCHANGED <<cmd, pos>>
    BY <2>2, <2>3 DEF LineInv
  <2>4. CASE Enter
    BY <2>2, <2>4 DEF Enter, LineInv
  <2>5. CASE Erase
    <3>1. CASE pos > 0
      <4>1. pos' = pos - 1 /\ cmd' = [cmd EXCEPT ![pos - 1] = NUL]
        BY <2>5, <3>1 DEF Erase
      <4>2. pos' \in 0 .. CmdSize - 1
        BY <1>0, <3>1, <4>1, SMT DEF LineInv
      <4> QED
        BY <2>2, <4>1, <4>2 DEF LineInv
    <3>2. CASE ~ (pos > 0)
      BY <2>2, <2>5, <3>2 DEF Erase, LineInv
    <3> QED
      BY <3>1, <3>2
  <2>6. CASE c \in Printable /\ Type(c)
    <3>1. CASE pos < CmdSize - 1
      <4>1. pos' = pos + 1 /\ cmd' = [cmd EXCEPT ![pos] = c]
        BY <2>6, <3>1 DEF Type
      <4>2. pos' \in 0 .. CmdSize - 1
        BY <1>0, <3>1, <4>1, SMT DEF LineInv
      <4> QED
        BY <2>2, <2>6, <4>1, <4>2 DEF LineInv
    <3>2. CASE ~ (pos < CmdSize - 1)
      BY <2>2, <2>6, <3>2 DEF Type, LineInv
    <3> QED
      BY <3>1, <3>2
  <2> QED
    BY <2>1, <2>3, <2>4, <2>5, <2>6 DEF Edited
<1>3. CASE ShellSleep
  BY <1>3 DEF ShellSleep, kbd_vars, line, LineInv
<1>4. CASE NextPrompt
  <2>1. cmd' = Blank /\ pos' = 0 /\ keys' = keys
    BY <1>4 DEF NextPrompt
  <2>2. 0 \in 0 .. CmdSize - 1
    BY <1>0, SMT
  <2> QED
    BY <2>1, <2>2 DEF LineInv, Blank
<1> QED
  BY <1>1, <1>2, <1>3, <1>4 DEF KbdNext, shell_run

(* Every step of the keyboard and the shell keeps the ring in order         *)
(* (keyboard.c:35-66, shell.c:680-689).                                     *)
LEMMA KeysKeeps ==
  ASSUME KeysInv, [KbdNext]_kbd_vars
  PROVE KeysInv'
<1>1. ASSUME NEW s \in Scancode, keyboard_handler(s)
      PROVE RingInv'
  <2>1. taken' = taken
    BY <1>1 DEF keyboard_handler
  <2>2. CASE s \in DOMAIN Translate /\ Translate[s] # NUL
    <3>1. Translate[s] \in Char /\ Push(Translate[s])
      BY <1>1, <2>2 DEF keyboard_handler, Char
    <3> QED
      BY <2>1, <3>1, PushKeeps DEF KeysInv
  <2>3. CASE ~ (s \in DOMAIN Translate /\ Translate[s] # NUL)
    <3>1. UNCHANGED <<kbd_buffer, kbd_head, kbd_tail, typed>>
      BY <1>1, <2>3 DEF keyboard_handler, ring
    <3> QED
      BY <2>1, <3>1 DEF KeysInv, RingInv, Held, Place
  <2> QED
    BY <2>2, <2>3
<1>2. ASSUME GetKey PROVE RingInv'
  BY <1>2, GetKeeps DEF GetKey, KeysInv
<1>3. ASSUME UNCHANGED <<ring, typed, taken>> PROVE RingInv'
  BY <1>3 DEF KeysInv, RingInv, Held, Place, ring
<1>4. RingInv'
  BY <1>1, <1>2, <1>3 DEF KbdNext, shell_run, ShellSleep, NextPrompt, kbd_vars
<1>5. LineInv'
  BY LineKeeps DEF KeysInv, LineInv, kbd_vars, line
<1> QED
  BY <1>4, <1>5 DEF KeysInv

(* With the ring in order, what was read and what waits is what was typed   *)
(* (keyboard.c:42-46, 61-62).                                               *)
LEMMA InOrder == KeysInv => NoKeyLost
<1> SUFFICES ASSUME KeysInv PROVE NoKeyLost
  OBVIOUS
<1>1. KeyboardTypeOK
  BY DEF KeysInv, RingInv, LineInv, KeyboardTypeOK
<1>2. typed \in Seq(Char) /\ taken \in Nat /\ Held \in Nat /\ Len(typed) = taken + Held
  BY HeldPlace DEF KeysInv, RingInv
<1>3. Pending = [i \in 1 .. Held |-> typed[taken + i]]
  BY HeldPlace DEF KeysInv, RingInv, Pending
<1>4. Pending \in Seq(Char) /\ Len(Pending) = Held
  BY <1>2, <1>3, SMT
<1>5. /\ Read \in Seq(Char) /\ Len(Read) = taken
      /\ \A i \in 1 .. taken : Read[i] = typed[i]
  BY <1>2, SMT DEF Read
<1>6. Read \o Pending = typed
  <2> DEFINE all == Read \o Pending
  <2>1. /\ all \in Seq(Char) /\ Len(all) = taken + Held
        /\ \A i \in 1 .. taken : all[i] = Read[i]
        /\ \A i \in taken + 1 .. taken + Held : all[i] = Pending[i - taken]
    <3>1. all \in Seq(Char) /\ Len(all) = Len(Read) + Len(Pending)
      BY <1>4, <1>5, SMT
    <3>2. \A i \in 1 .. Len(Read) + Len(Pending) :
            all[i] = IF i <= Len(Read) THEN Read[i] ELSE Pending[i - Len(Read)]
      BY <1>4, <1>5, SMT
    <3> HIDE DEF all
    <3> QED
      BY <1>2, <1>4, <1>5, <3>1, <3>2, SMT
  <2> HIDE DEF all
  <2>2. \A i \in taken + 1 .. taken + Held : i - taken \in 1 .. Held /\ taken + (i - taken) = i
    BY <1>2, SMT
  <2>3. \A i \in taken + 1 .. taken + Held : all[i] = typed[i]
    BY <1>3, <2>1, <2>2
  <2>4. \A i \in 1 .. taken + Held : all[i] = typed[i]
    BY <1>2, <1>5, <2>1, <2>3, SMT
  <2>5. all = typed
    BY <1>2, <2>1, <2>4, SMT
  <2> QED
    BY <2>5 DEF all
<1> QED
  BY <1>1, <1>6 DEF NoKeyLost

(* The empty ring at the first prompt (keyboard.c:16-18).                   *)
LEMMA KeysInit == KbdInit => KeysInv
<1> SUFFICES ASSUME KbdInit PROVE KeysInv
  OBVIOUS
<1>1. BufSize \in Nat \ {0} /\ CmdSize \in Nat \ {0} /\ MaxKeys \in Nat
  BY KeyboardAssumption
<1>2. 0 \in KbdIndex /\ 0 \in 0 .. CmdSize - 1 /\ 0 \in 0 .. MaxKeys
  BY <1>1, SMT DEF KbdIndex
<1>3. LineInv
  BY <1>2 DEF KbdInit, LineInv, Blank
<1>4. Held = 0 /\ typed = <<>> /\ taken = 0
  BY SMT DEF KbdInit, Held
<1>5. typed \in Seq(Char) /\ Len(typed) = taken + Held /\ 1 .. Held = {}
  BY <1>4, SMT
<1>6. RingInv
  BY SMT, <1>2, <1>4, <1>5 DEF KbdInit, RingInv
<1> QED
  BY <1>3, <1>6 DEF KeysInv

(* No key the ring accepted is lost, doubled or read out of turn, for every *)
(* size of the ring and of the command line, every key table and however    *)
(* long the shell does not read (keyboard.c:42-46, 61-62).                  *)
THEOREM EveryKeyInOrder == KbdSpec => []NoKeyLost
<1>1. KbdInit => KeysInv
  BY KeysInit
<1>2. KeysInv /\ [KbdNext]_kbd_vars => KeysInv'
  BY KeysKeeps
<1> QED
  BY <1>1, <1>2, InOrder, PTL DEF KbdSpec

-----------------------------------------------------------------------------
(* Meant is a recursive function; f is that function as far as n keys. *)
IsMeant(f, s, n) ==
  f = [k \in 0 .. n |-> IF k = 0 THEN NoLines ELSE Keyed(f[k - 1], s[k])]

(* What a run of keys means is defined key by key (shell.c:677-690).        *)
LEMMA MeantStep ==
  ASSUME NEW f, NEW s, NEW n \in Nat, IsMeant(f, s, n)
  PROVE f[0] = NoLines /\ \A k \in 1 .. n : f[k] = Keyed(f[k - 1], s[k])
<1>1. \A k \in 0 .. n : f[k] = IF k = 0 THEN NoLines ELSE Keyed(f[k - 1], s[k])
  BY DEF IsMeant
<1>2. 0 \in 0 .. n /\ \A k \in 1 .. n : k \in 0 .. n /\ k # 0
  BY SMT
<1> QED
  BY <1>1, <1>2

(* There is only one such function: what the shell's loop makes of the keys *)
(* depends on the keys alone (shell.c:676-689).                             *)
LEMMA MeantOne ==
  ASSUME NEW f, NEW g, NEW s, NEW n \in Nat, IsMeant(f, s, n), IsMeant(g, s, n)
  PROVE f = g
<1> DEFINE S == {k \in Nat : k \in 0 .. n => f[k] = g[k]}
<1>1. 0 \in S
  BY MeantStep
<1>2. ASSUME NEW k \in Nat, k \in S PROVE k + 1 \in S
  <2> SUFFICES ASSUME k + 1 \in 0 .. n PROVE f[k + 1] = g[k + 1]
    BY SMT
  <2>1. k \in 0 .. n /\ k + 1 \in 1 .. n /\ (k + 1) - 1 = k
    BY SMT
  <2>2. f[k + 1] = Keyed(f[(k + 1) - 1], s[k + 1])
    BY ZenonT(40), <2>1, MeantStep
  <2>3. g[k + 1] = Keyed(g[(k + 1) - 1], s[k + 1])
    BY ZenonT(40), <2>1, MeantStep
  <2> QED
    BY <1>2, <2>1, <2>2, <2>3
<1> HIDE DEF S
<1>3. Nat \subseteq S
  BY <1>1, <1>2, NatInductive
<1>4. \A k \in 0 .. n : f[k] = g[k]
  <2>1. \A k \in 0 .. n : k \in Nat
    BY SMT
  <2> QED
    BY <1>3, <2>1 DEF S
<1>5. /\ f = [k \in 0 .. n |-> f[k]]
      /\ g = [k \in 0 .. n |-> g[k]]
  BY DEF IsMeant
<1> QED
  BY <1>4, <1>5

(* There is such a function for every run of keys (shell.c:676-689).        *)
LEMMA MeantSome ==
  ASSUME NEW s, NEW n \in Nat
  PROVE \E f : IsMeant(f, s, n)
<1> DEFINE S == {k \in Nat : \E f : IsMeant(f, s, k)}
<1>1. 0 \in S
  <2> DEFINE f == [k \in 0 .. 0 |-> NoLines]
  <2>1. 0 .. 0 = {0}
    BY SMT
  <2>2. IsMeant(f, s, 0)
    BY <2>1 DEF IsMeant
  <2> QED
    BY <2>2
<1>2. ASSUME NEW k \in Nat, k \in S PROVE k + 1 \in S
  <2>1. PICK f : IsMeant(f, s, k)
    BY <1>2
  <2> DEFINE g == [j \in 0 .. k + 1 |-> IF j = k + 1 THEN Keyed(f[k], s[k + 1]) ELSE f[j]]
             G(j) == IF j = 0 THEN NoLines ELSE Keyed(g[j - 1], s[j])
  <2>2. ASSUME NEW j \in 0 .. k + 1 PROVE g[j] = G(j)
    <3>1. CASE j = k + 1
      <4>1. k \in 0 .. k + 1 /\ k # k + 1 /\ j - 1 = k /\ j # 0
        BY <3>1, SMT
      <4>2. g[k] = f[k] /\ g[j] = Keyed(f[k], s[k + 1])
        BY <3>1, <4>1
      <4> QED
        BY <3>1, <4>1, <4>2
    <3>2. CASE j # k + 1
      <4>1. j \in 0 .. k
        BY <3>2, SMT
      <4>2. g[j] = f[j]
        BY <3>2
      <4>3. CASE j = 0
        BY <2>1, <4>2, <4>3, MeantStep
      <4>4. CASE j # 0
        <5>1. j \in 1 .. k /\ j - 1 \in 0 .. k + 1 /\ j - 1 # k + 1
          BY <4>1, <4>4, SMT
        <5>2. g[j - 1] = f[j - 1] /\ f[j] = Keyed(f[j - 1], s[j])
          BY <2>1, <5>1, MeantStep
        <5> QED
          BY <4>2, <4>4, <5>2
      <4> QED
        BY <4>3, <4>4
    <3> QED
      BY <3>1, <3>2
  <2>3. g = [j \in 0 .. k + 1 |-> g[j]]
    OBVIOUS
  <2>4. IsMeant(g, s, k + 1)
    <3> HIDE DEF g
    <3> QED
      BY <2>2, <2>3 DEF IsMeant
  <2>5. k + 1 \in Nat
    BY SMT
  <2> QED
    BY <2>4, <2>5
<1> HIDE DEF S
<1>3. Nat \subseteq S
  BY <1>1, <1>2, NatInductive
<1> QED
  BY <1>3 DEF S

(* Meant is that function (shell.c:676-689).                                *)
LEMMA MeantIs ==
  ASSUME NEW s, Len(s) \in Nat, NEW f, IsMeant(f, s, Len(s))
  PROVE Meant(s) = f[Len(s)]
<1> DEFINE g == CHOOSE h : IsMeant(h, s, Len(s))
<1>1. IsMeant(g, s, Len(s))
  OBVIOUS
<1>2. Meant(s) = g[Len(s)]
  BY DEF Meant, IsMeant
<1> HIDE DEF g
<1>3. f = g
  BY <1>1, MeantOne
<1> QED
  BY <1>2, <1>3

(* No key read, no line run (shell.c:676-679).                              *)
LEMMA MeantEmpty == Meant(<<>>) = NoLines
<1>1. Len(<<>>) = 0 /\ Len(<<>>) \in Nat
  BY SMT
<1>2. PICK f : IsMeant(f, <<>>, 0)
  BY MeantSome
<1> QED
  BY <1>1, <1>2, MeantIs, MeantStep

(* One key more takes the line one step further (shell.c:677-690).          *)
LEMMA MeantAppend ==
  ASSUME NEW T, NEW s \in Seq(T), NEW c \in T
  PROVE Meant(Append(s, c)) = Keyed(Meant(s), c)
<1> DEFINE t == Append(s, c)
           n == Len(s)
<1>1. /\ n \in Nat /\ Len(t) = n + 1 /\ n + 1 \in Nat /\ t[n + 1] = c
      /\ \A k \in 1 .. n : t[k] = s[k]
  BY SMT
<1> HIDE DEF t, n
<1>2. PICK f : IsMeant(f, t, n + 1)
  BY <1>1, MeantSome
<1> DEFINE g == [k \in 0 .. n |-> f[k]]
<1>3. f[n + 1] = Keyed(f[n], c)
  <2>1. n + 1 \in 1 .. n + 1 /\ (n + 1) - 1 = n
    BY <1>1, SMT
  <2>2. f[n + 1] = Keyed(f[(n + 1) - 1], t[n + 1])
    BY SMT, <1>1, <1>2, <2>1, MeantStep
  <2> QED
    BY <1>1, <2>1, <2>2
<1>4. ASSUME NEW k \in 0 .. n
      PROVE g[k] = IF k = 0 THEN NoLines ELSE Keyed(g[k - 1], s[k])
  <2>1. CASE k = 0
    BY <1>1, <1>2, <2>1, MeantStep
  <2>2. CASE k # 0
    <3>1. k \in 1 .. n + 1 /\ k \in 1 .. n /\ k - 1 \in 0 .. n
      BY <1>1, <2>2, SMT
    <3>2. f[k] = Keyed(f[k - 1], t[k])
      BY <1>1, <1>2, <3>1, MeantStep
    <3> QED
      BY <1>1, <2>2, <3>1, <3>2
  <2> QED
    BY <2>1, <2>2
<1>5. g = [k \in 0 .. n |-> g[k]]
  OBVIOUS
<1>6. n \in 0 .. n /\ g[n] = f[n]
  BY <1>1, SMT
<1> HIDE DEF g
<1>7. IsMeant(g, s, n)
  BY <1>4, <1>5 DEF IsMeant
<1>8. Meant(s) = g[n]
  BY <1>1, <1>7, MeantIs DEF n
<1>9. Meant(t) = f[n + 1]
  BY <1>1, <1>2, MeantIs
<1> QED
  BY <1>3, <1>6, <1>8, <1>9 DEF t

-----------------------------------------------------------------------------
Lines == [lines : Seq(Seq(Printable)), line : Seq(Printable)]

(* The command line is what the keys read so far mean (shell.c:677-690). *)
LineIs(l) ==
  /\ pos = Len(l)
  /\ \A i \in 0 .. CmdSize - 1 : cmd[i] = IF i < pos THEN l[i + 1] ELSE NUL

EditInv ==
  /\ Meant(Read) \in Lines
  /\ ran = Meant(Read).lines
  /\ running => Meant(Read).line = <<>>
  /\ ~ running => LineIs(Meant(Read).line)

(* The string in cmd ends where the line ends (shell.c:687-688). *)
LEMMA CStringIs ==
  ASSUME LineInv, NEW l \in Seq(Printable), LineIs(l)
  PROVE CString(cmd) = l
<1> DEFINE E(n) == /\ n < CmdSize => cmd[n] = NUL
                   /\ \A i \in 0 .. n - 1 : cmd[i] # NUL
           end == CHOOSE n \in 0 .. CmdSize : E(n)
<1>1. CmdSize \in Nat \ {0} /\ NUL \notin Printable
  BY KeyboardAssumption
<1>2. pos \in Nat /\ pos < CmdSize /\ Len(l) = pos
  BY <1>1, SMT DEF LineInv, LineIs
<1>3. \A i \in 0 .. pos - 1 : cmd[i] = l[i + 1] /\ l[i + 1] \in Printable
  <2>1. ASSUME NEW i \in 0 .. pos - 1
        PROVE i \in 0 .. CmdSize - 1 /\ i < pos /\ i + 1 \in 1 .. Len(l)
    BY <1>1, <1>2, SMT
  <2>2. \A k \in 1 .. Len(l) : l[k] \in Printable
    BY SMT
  <2> QED
    BY <2>1, <2>2 DEF LineIs
<1>4. E(pos) /\ pos \in 0 .. CmdSize
  <2>1. pos \in 0 .. CmdSize - 1 /\ ~ (pos < pos) /\ pos \in 0 .. CmdSize
    BY <1>1, <1>2, SMT
  <2>2. cmd[pos] = NUL
    BY <2>1 DEF LineIs
  <2> QED
    BY <1>1, <1>3, <2>1, <2>2
<1>5. ASSUME NEW n \in 0 .. CmdSize, E(n) PROVE n = pos
  <2>1. CASE n < pos
    <3>1. n < CmdSize /\ n \in 0 .. pos - 1
      BY <1>1, <1>2, <2>1, SMT
    <3> QED
      BY <1>1, <1>3, <1>5, <3>1
  <2>2. CASE n > pos
    <3>1. pos \in 0 .. n - 1
      BY <1>1, <1>2, <2>2, SMT
    <3> QED
      BY <1>2, <1>4, <1>5, <3>1
  <2> QED
    BY <1>1, <1>2, <2>1, <2>2, SMT
<1>6. end \in 0 .. CmdSize /\ E(end)
  <2> HIDE DEF E
  <2> QED
    BY <1>4
<1>7. end = pos
  <2> HIDE DEF E, end
  <2> QED
    BY <1>5, <1>6
<1>8. CString(cmd) = [i \in 1 .. end |-> cmd[i - 1]]
  BY DEF CString
<1> HIDE DEF E, end
<1>9. \A i \in 1 .. pos : cmd[i - 1] = l[i]
  <2>1. \A i \in 1 .. pos : i - 1 \in 0 .. pos - 1 /\ (i - 1) + 1 = i
    BY <1>2, SMT
  <2> QED
    BY <1>3, <2>1
<1>10. l = [i \in 1 .. pos |-> l[i]]
  BY <1>2, SMT
<1> QED
  BY <1>7, <1>8, <1>9, <1>10

(* One key more is read (shell.c:677-690). *)
LEMMA ReadOneMore ==
  ASSUME typed \in Seq(Char), taken \in Nat, taken + 1 <= Len(typed),
         typed' = typed, taken' = taken + 1
  PROVE Read \in Seq(Char) /\ typed[taken + 1] \in Char /\ Read' = Append(Read, typed[taken + 1])
<1>1. typed[taken + 1] \in Char
  BY SMT
<1>2. /\ Read \in Seq(Char) /\ Len(Read) = taken
      /\ \A i \in 1 .. taken : Read[i] = typed[i]
  BY SMT DEF Read
<1>3. Read' = SubSeq(typed, 1, taken + 1)
  BY DEF Read
<1>4. /\ SubSeq(typed, 1, taken + 1) \in Seq(Char) /\ Len(SubSeq(typed, 1, taken + 1)) = taken + 1
      /\ \A i \in 1 .. taken + 1 : SubSeq(typed, 1, taken + 1)[i] = typed[i]
  BY SMT
<1> DEFINE a == Append(Read, typed[taken + 1])
           b == SubSeq(typed, 1, taken + 1)
<1>5. /\ a \in Seq(Char) /\ Len(a) = taken + 1
      /\ \A i \in 1 .. taken : a[i] = typed[i]
      /\ a[taken + 1] = typed[taken + 1]
  BY <1>1, <1>2, SMT
<1> HIDE DEF a, b
<1>6. \A i \in 1 .. taken + 1 : a[i] = typed[i]
  BY <1>5, SMT
<1>7. a = b
  <2>1. b \in Seq(Char) /\ Len(b) = taken + 1 /\ \A i \in 1 .. taken + 1 : b[i] = typed[i]
    BY <1>4 DEF b
  <2> QED
    BY <1>5, <1>6, <2>1, SMT
<1> QED
  BY <1>1, <1>2, <1>3, <1>7 DEF a, b

(* A key the interrupt handler puts into the ring has not been read yet     *)
(* (keyboard.c:42-46).                                                      *)
LEMMA ReadSame ==
  ASSUME typed \in Seq(Char), taken \in Nat, taken <= Len(typed), NEW c \in Char,
         typed' = Append(typed, c), taken' = taken
  PROVE Read' = Read
<1>1. /\ Read \in Seq(Char) /\ Len(Read) = taken
      /\ \A i \in 1 .. taken : Read[i] = typed[i]
  BY SMT DEF Read
<1>2. /\ typed' \in Seq(Char) /\ Len(typed') = Len(typed) + 1
      /\ \A i \in 1 .. taken : typed'[i] = typed[i]
  BY SMT
<1>3. /\ SubSeq(typed', 1, taken) \in Seq(Char) /\ Len(SubSeq(typed', 1, taken)) = taken
      /\ \A i \in 1 .. taken : SubSeq(typed', 1, taken)[i] = typed'[i]
  BY <1>2, SMT
<1> DEFINE b == SubSeq(typed', 1, taken)
<1>4. Read' = b
  BY DEF Read
<1> HIDE DEF b
<1>5. b \in Seq(Char) /\ Len(b) = taken /\ \A i \in 1 .. taken : b[i] = Read[i]
  BY <1>1, <1>2, <1>3 DEF b
<1> QED
  BY <1>1, <1>4, <1>5, SMT

(* The three ways in which the line is edited (shell.c:686-688). *)
LEMMA TypedOn ==
  ASSUME LineInv, NEW l \in Seq(Printable), LineIs(l), NEW c \in Printable, Type(c)
  PROVE Edit(l, c) \in Seq(Printable) /\ LineIs(Edit(l, c))'
<1>1. CmdSize \in Nat \ {0} /\ c \notin {NUL, Newline, Backspace}
  BY KeyboardAssumption
<1>2. Len(l) = pos /\ pos \in 0 .. CmdSize - 1 /\ cmd \in [0 .. CmdSize - 1 -> Printable \cup {NUL}]
  BY DEF LineInv, LineIs
<1>3. Edit(l, c) = IF Len(l) < CmdSize - 1 THEN Append(l, c) ELSE l
  BY <1>1 DEF Edit
<1>4. CASE pos < CmdSize - 1
  <2>1. pos' = pos + 1 /\ cmd' = [cmd EXCEPT ![pos] = c] /\ Edit(l, c) = Append(l, c)
    BY <1>2, <1>3, <1>4 DEF Type
  <2> DEFINE a == Append(l, c)
  <2>2. /\ a \in Seq(Printable) /\ Len(a) = pos + 1 /\ a[pos + 1] = c
        /\ \A k \in 1 .. pos : a[k] = l[k]
    BY <1>2, SMT
  <2> HIDE DEF a
  <2>3. ASSUME NEW i \in 0 .. CmdSize - 1
        PROVE cmd'[i] = IF i < pos' THEN a[i + 1] ELSE NUL
    <3>1. CASE i = pos
      <4>1. cmd'[i] = c /\ i < pos'
        BY <1>1, <1>2, <2>1, <3>1, SMT
      <4> QED
        BY <2>2, <3>1, <4>1
    <3>2. CASE i < pos
      <4>1. i # pos /\ i < pos + 1 /\ i + 1 \in 1 .. pos
        BY <1>1, <1>2, <3>2, SMT
      <4>2. cmd'[i] = cmd[i] /\ cmd[i] = l[i + 1]
        BY <1>2, <2>1, <3>2, <4>1 DEF LineIs
      <4> QED
        BY <2>1, <2>2, <4>1, <4>2
    <3>3. CASE i > pos
      <4>1. i # pos /\ ~ (i < pos + 1) /\ ~ (i < pos)
        BY <1>1, <1>2, <3>3, SMT
      <4>2. cmd'[i] = cmd[i] /\ cmd[i] = NUL
        BY <1>2, <2>1, <4>1 DEF LineIs
      <4> QED
        BY <2>1, <4>1, <4>2
    <3> QED
      BY <1>1, <1>2, <3>1, <3>2, <3>3, SMT
  <2> QED
    BY <2>1, <2>2, <2>3 DEF LineIs, a
<1>5. CASE ~ (pos < CmdSize - 1)
  <2>1. pos' = pos /\ cmd' = cmd /\ Edit(l, c) = l
    BY <1>2, <1>3, <1>5 DEF Type
  <2> QED
    BY <2>1 DEF LineIs
<1> QED
  BY <1>4, <1>5

(* A backspace takes the last character off the line (shell.c:687).         *)
LEMMA ErasedOn ==
  ASSUME LineInv, NEW l \in Seq(Printable), LineIs(l), Erase
  PROVE Edit(l, Backspace) \in Seq(Printable) /\ LineIs(Edit(l, Backspace))'
<1>1. CmdSize \in Nat \ {0}
  BY KeyboardAssumption
<1>2. Len(l) = pos /\ pos \in 0 .. CmdSize - 1 /\ cmd \in [0 .. CmdSize - 1 -> Printable \cup {NUL}]
  BY DEF LineInv, LineIs
<1>3. Edit(l, Backspace) = IF l = <<>> THEN l ELSE SubSeq(l, 1, Len(l) - 1)
  BY KeyboardAssumption DEF Edit
<1>4. CASE pos > 0
  <2>1. pos' = pos - 1 /\ cmd' = [cmd EXCEPT ![pos - 1] = NUL]
    BY <1>4 DEF Erase
  <2> DEFINE a == SubSeq(l, 1, pos - 1)
  <2>2. Edit(l, Backspace) = a
    <3>1. l # <<>>
      BY <1>2, <1>4, SMT
    <3> QED
      BY <1>2, <1>3, <3>1
  <2>3. /\ a \in Seq(Printable) /\ Len(a) = pos - 1
        /\ \A k \in 1 .. pos - 1 : a[k] = l[k]
    BY <1>2, <1>4, SMT
  <2> HIDE DEF a
  <2>4. ASSUME NEW i \in 0 .. CmdSize - 1
        PROVE cmd'[i] = IF i < pos' THEN a[i + 1] ELSE NUL
    <3>1. CASE i = pos - 1
      <4>1. cmd'[i] = NUL
        BY <1>2, <2>1, <3>1
      <4>2. ~ (i < pos')
        BY <1>1, <1>2, <2>1, <3>1, SMT
      <4> QED
        BY <4>1, <4>2
    <3>2. CASE i < pos - 1
      <4>1. i # pos - 1 /\ i < pos /\ i + 1 \in 1 .. pos - 1
        BY <1>1, <1>2, <3>2, SMT
      <4>2. cmd'[i] = cmd[i] /\ cmd[i] = l[i + 1]
        BY <1>2, <2>1, <4>1 DEF LineIs
      <4> QED
        BY <2>1, <2>3, <3>2, <4>1, <4>2
    <3>3. CASE i > pos - 1
      <4>1. i # pos - 1 /\ ~ (i < pos) /\ ~ (i < pos - 1)
        BY <1>1, <1>2, <3>3, SMT
      <4>2. cmd'[i] = cmd[i] /\ cmd[i] = NUL
        BY <1>2, <2>1, <4>1 DEF LineIs
      <4> QED
        BY <2>1, <4>1, <4>2
    <3> QED
      BY <1>1, <1>2, <3>1, <3>2, <3>3, SMT
  <2> QED
    BY <2>1, <2>2, <2>3, <2>4 DEF LineIs
<1>5. CASE ~ (pos > 0)
  <2>1. pos' = pos /\ cmd' = cmd
    BY <1>5 DEF Erase
  <2>2. l = <<>>
    BY <1>1, <1>2, <1>5, SMT
  <2> QED
    BY <1>3, <2>1, <2>2 DEF LineIs
<1> QED
  BY <1>4, <1>5

(* A key that is read (shell.c:680-689). *)
LEMMA KeyRead ==
  ASSUME LineInv, EditInv, Read \in Seq(Char), NEW c \in Char, Read' = Append(Read, c), ~ running,
         \/ Edited(c)
         \/ /\ c \notin Printable \cup {Newline, Backspace}
            /\ UNCHANGED <<cmd, pos, running, screen, ran>>
  PROVE EditInv'
<1>0. PICK m : m = Meant(Read)
  OBVIOUS
<1>1. Meant(Read)' = Keyed(m, c)
  <2>1. Meant(Read)' = Meant(Read')
    BY DEF Meant
  <2> QED
    BY <1>0, <2>1, MeantAppend
<1>2. /\ m \in Lines /\ m.lines \in Seq(Seq(Printable)) /\ m.line \in Seq(Printable)
      /\ ran = m.lines /\ LineIs(m.line)
  BY <1>0 DEF EditInv, Lines
<1>3. Newline # Backspace /\ Newline \notin Printable /\ Backspace \notin Printable
  BY KeyboardAssumption DEF Newline, Backspace
<1>4. ASSUME c # Newline, Edit(m.line, c) \in Seq(Printable), LineIs(Edit(m.line, c))',
             ran' = ran, running' = running
      PROVE EditInv'
  <2> DEFINE k == [m EXCEPT !.line = Edit(m.line, c)]
  <2>1. Keyed(m, c) = k
    BY <1>4 DEF Keyed
  <2>2. k \in Lines /\ k.lines = m.lines /\ k.line = Edit(m.line, c)
    BY <1>2, <1>4 DEF Lines
  <2> HIDE DEF k
  <2>3. LineIs(k.line)'
    BY <1>4, <2>2 DEF LineIs
  <2> QED
    BY <1>1, <1>2, <1>4, <2>1, <2>2, <2>3 DEF EditInv, LineIs
<1>5. CASE c = Newline /\ Enter
  <2>1. ran' = Append(ran, CString(cmd)) /\ running' = TRUE
    BY <1>5 DEF Enter
  <2>2. CString(cmd) = m.line
    BY <1>2, CStringIs
  <2>3. Keyed(m, c) = [lines |-> Append(m.lines, m.line), line |-> <<>>]
    BY <1>5 DEF Keyed
  <2>4. Append(m.lines, m.line) \in Seq(Seq(Printable)) /\ <<>> \in Seq(Printable)
    BY <1>2, SMT
  <2>5. Keyed(m, c) \in Lines /\ Keyed(m, c).lines = ran' /\ Keyed(m, c).line = <<>>
    BY SMT, <1>2, <2>1, <2>2, <2>3, <2>4 DEF Lines
  <2> QED
    BY <1>1, <2>1, <2>5 DEF EditInv
<1>6. CASE c = Backspace /\ Erase /\ UNCHANGED <<ran, running>>
  BY <1>2, <1>3, <1>4, <1>6, ErasedOn
<1>7. CASE c \in Printable /\ Type(c) /\ UNCHANGED <<ran, running>>
  BY <1>2, <1>3, <1>4, <1>7, TypedOn
<1>8. CASE /\ c \notin Printable \cup {Newline, Backspace}
           /\ UNCHANGED <<cmd, pos, running, screen, ran>>
  <2>1. Edit(m.line, c) = m.line
    BY <1>8 DEF Edit
  <2>2. LineIs(m.line)'
    BY <1>2, <1>8 DEF LineIs
  <2> QED
    BY <1>2, <1>4, <1>8, <2>1, <2>2
<1> QED
  BY <1>5, <1>6, <1>7, <1>8 DEF Edited

(* Every step of the keyboard and the shell keeps the command line what was *)
(* meant: the handler does not touch it, a key that is read edits it, and   *)
(* the next prompt starts it anew (shell.c:676-689).                        *)
LEMMA EditKeeps ==
  ASSUME KeysInv, EditInv, [KbdNext]_kbd_vars
  PROVE EditInv'
<1>0. /\ typed \in Seq(Char) /\ taken \in Nat /\ Held \in Nat /\ Len(typed) = taken + Held
      /\ taken <= Len(typed)
  <2>1. typed \in Seq(Char) /\ taken \in Nat /\ Held \in Nat /\ Len(typed) = taken + Held
    BY HeldPlace DEF KeysInv, RingInv
  <2> QED
    BY <2>1, SMT
<1>1. ASSUME Read' = Read, UNCHANGED <<cmd, pos, running, ran>> PROVE EditInv'
  <2>1. Meant(Read)' = Meant(Read)
    BY <1>1 DEF Meant
  <2> QED
    BY <1>1, <2>1 DEF EditInv, LineIs
<1>2. ASSUME NEW s \in Scancode, keyboard_handler(s) PROVE EditInv'
  <2>1. UNCHANGED <<cmd, pos, running, ran, taken>>
    BY <1>2 DEF keyboard_handler, line
  <2>2. Read' = Read
    <3>1. CASE UNCHANGED typed
      BY <2>1, <3>1 DEF Read
    <3>2. ASSUME NEW c \in Char, typed' = Append(typed, c) PROVE Read' = Read
      BY <1>0, <2>1, <3>2, ReadSame
    <3>3. CASE s \in DOMAIN Translate /\ Translate[s] # NUL
      <4>1. Translate[s] \in Char /\ Push(Translate[s])
        BY <1>2, <3>3 DEF keyboard_handler, Char
      <4> QED
        BY <3>1, <3>2, <4>1 DEF Push
    <3>4. CASE ~ (s \in DOMAIN Translate /\ Translate[s] # NUL)
      BY <1>2, <3>1, <3>4 DEF keyboard_handler
    <3> QED
      BY <3>3, <3>4
  <2> QED
    BY <1>1, <2>1, <2>2
<1>3. ASSUME GetKey PROVE EditInv'
  <2>1. PICK c \in Char :
          /\ keyboard_get_char(c)
          /\ \/ Edited(c)
             \/ /\ c \notin Printable \cup {Newline, Backspace}
                /\ UNCHANGED <<cmd, pos, running, screen, ran>>
    BY <1>3 DEF GetKey
  <2>2. ~ running /\ typed' = typed
    BY <1>3 DEF GetKey
  <2>3. kbd_head # kbd_tail /\ c = kbd_buffer[kbd_tail] /\ taken' = taken + 1
    BY <2>1 DEF keyboard_get_char
  <2>4. 1 \in 1 .. Held /\ Place(1) = kbd_tail
    <3>1. BufSize \in Nat \ {0} /\ kbd_head \in KbdIndex /\ kbd_tail \in KbdIndex
      BY KeyboardAssumption DEF KeysInv, RingInv
    <3> QED
      BY <2>3, <3>1, SMT DEF Held, Place, KbdIndex
  <2>5. c = typed[taken + 1]
    BY <2>3, <2>4 DEF KeysInv, RingInv
  <2>6. taken + 1 <= Len(typed)
    BY <1>0, <2>4, SMT
  <2>7. Read \in Seq(Char) /\ Read' = Append(Read, c)
    BY <1>0, <2>2, <2>3, <2>5, <2>6, ReadOneMore
  <2> QED
    BY <2>1, <2>2, <2>7, KeyRead DEF KeysInv
<1>4. ASSUME NextPrompt PROVE EditInv'
  <2>1. /\ running /\ running' = FALSE /\ cmd' = Blank /\ pos' = 0
        /\ ran' = ran /\ typed' = typed /\ taken' = taken
    BY <1>4 DEF NextPrompt
  <2>2. Meant(Read)' = Meant(Read)
    BY ZenonT(40), <2>1 DEF Meant, Read
  <2>3. Meant(Read) \in Lines /\ ran = Meant(Read).lines /\ Meant(Read).line = <<>>
    BY <2>1 DEF EditInv
  <2>4. LineIs(<<>>)'
    <3>1. Len(<<>>) = 0 /\ \A i \in 0 .. CmdSize - 1 : ~ (i < 0)
      BY SMT
    <3> QED
      BY <2>1, <3>1 DEF LineIs, Blank
  <2> QED
    BY <2>1, <2>2, <2>3, <2>4 DEF EditInv, LineIs
<1>5. ASSUME UNCHANGED kbd_vars PROVE EditInv'
  BY <1>1, <1>5 DEF kbd_vars, line, Read
<1> QED
  BY <1>2, <1>3, <1>4, <1>5 DEF KbdNext, shell_run, ShellSleep

(* The shell runs exactly the lines that were typed, for every size of the  *)
(* ring and of the command line, every key table and every interleaving of  *)
(* the interrupt with the shell (keyboard.c:35-66, shell.c:676-689).        *)
THEOREM OnlyWhatWasTyped == KbdSpec => []RunsWhatWasTyped
<1>1. KbdInit => EditInv
  <2> SUFFICES ASSUME KbdInit PROVE EditInv
    OBVIOUS
  <2>1. typed = <<>> /\ taken = 0 /\ cmd = Blank /\ pos = 0 /\ running = FALSE /\ ran = <<>>
    BY DEF KbdInit
  <2>2. Read = <<>>
    BY <2>1, SMT DEF Read
  <2>3. Meant(Read) = NoLines
    BY <2>2, MeantEmpty
  <2>4. <<>> \in Seq(Printable) /\ <<>> \in Seq(Seq(Printable)) /\ Len(<<>>) = 0
        /\ \A i \in 0 .. CmdSize - 1 : ~ (i < 0)
    BY SMT
  <2>5. NoLines \in Lines /\ NoLines.lines = <<>> /\ NoLines.line = <<>>
    BY <2>4 DEF NoLines, Lines
  <2>6. LineIs(<<>>)
    BY <2>1, <2>4 DEF LineIs, Blank
  <2> QED
    BY <2>1, <2>3, <2>5, <2>6 DEF EditInv
<1>2. EditInv /\ KeysInv /\ [KbdNext]_kbd_vars => EditInv'
  BY EditKeeps
<1>3. EditInv /\ KeysInv => RunsWhatWasTyped
  <2> SUFFICES ASSUME EditInv, KeysInv PROVE RunsWhatWasTyped
    OBVIOUS
  <2>1. ASSUME ~ running
        PROVE CString(cmd) = Meant(Read).line /\ pos = Len(Meant(Read).line)
    <3>1. Meant(Read).line \in Seq(Printable) /\ LineIs(Meant(Read).line)
      BY <2>1 DEF EditInv, Lines
    <3> QED
      BY <3>1, CStringIs DEF KeysInv, LineIs
  <2> QED
    BY <2>1 DEF EditInv, RunsWhatWasTyped
<1>4. KbdInit => KeysInv
  BY KeysInit
<1>5. KeysInv /\ [KbdNext]_kbd_vars => KeysInv'
  BY KeysKeeps
<1> QED
  BY <1>1, <1>2, <1>3, <1>4, <1>5, PTL DEF KbdSpec

-----------------------------------------------------------------------------
(* The sections of shstest.  What a client has put together, a message and  *)
(* a port.                                                                  *)
SectionId == Nat \cup {None}
ClientState ==
  [pc : {"new", "connect", "fill", "map", "send", "exit", "fault"},
   i : 0 .. Messages, port : 0 .. Runs, section : SectionId]
Message ==
  [sender_tid : Client, receiver_tid : 0 .. Runs,
   body : [i : 0 .. Messages, section : SectionId]]
PortState == [queue_head : Index, queue_tail : Index, msg_queue : [Index -> Message \cup {None}]]

(* The slots of a ring that hold a message (alpc.c:71-80, 98-105). *)
Live(p, i) ==
  IF p.queue_head <= p.queue_tail THEN p.queue_head <= i /\ i < p.queue_tail
  ELSE p.queue_head <= i \/ i < p.queue_tail

(* A section that can be sent: none, or one that is in the table and was    *)
(* written to.                                                              *)
Good(id) == id = None \/ (id \in Nat \ {0} /\ Mappable(id) /\ id \in filled)

Entry == {e \in [msg : Message, intact : BOOLEAN] : e.intact}

ClientsInv ==
  /\ client \in [Client -> ClientState]
  /\ port_list \in Seq(Run)
  /\ \A c \in Client : client[c].pc \in {"fill", "map", "send"} => client[c].port \in Run
  /\ \A c \in Client : client[c].pc \in {"map", "send"} => client[c].i < Messages

TableInv ==
  /\ sections \in [1 .. Slots -> Nat] /\ next_section_id \in Nat \ {0}
  /\ \A k \in 1 .. Slots : sections[k] < next_section_id

(* Ids are handed out once; who is about to write to a section has one of   *)
(* its own, or the table is full.                                           *)
OwnersInv ==
  /\ \A c \in Client : client[c].section # None => client[c].section < next_section_id
  /\ \A c, d \in Client : c # d /\ client[c].section \notin {0, None}
                            => client[c].section # client[d].section
  /\ \A c \in Client : client[c].pc = "map" => /\ client[c].section \in Nat
                                               /\ client[c].section = 0 => FreeSlots = {}

(* What is about to be sent, was sent and was received is good.             *)
SentInv ==
  /\ \A c \in Client : client[c].pc = "send" => Good(client[c].section)
  /\ port \in [Run -> PortState]
  /\ \A r \in Run : \A i \in Index :
       Live(port[r], i) => /\ port[r].msg_queue[i] \in Message
                           /\ Good(port[r].msg_queue[i].body.section)
  /\ log \in [Run -> Seq(Entry)]

(* The inductive form of SectionsIntact. *)
SectionsInv == ClientsInv /\ TableInv /\ OwnersInv /\ SentInv

(* alpc_create_section takes an entry that was free (alpc.c:116-120).       *)
LEMMA SlotTaken ==
  ASSUME FreeSlots # {}
  PROVE (CHOOSE k \in FreeSlots : \A j \in FreeSlots : k <= j) \in FreeSlots
<1>1. FreeSlots \in SUBSET Nat
  BY ShstestAssumption, SMT DEF FreeSlots
<1>2. \E k \in FreeSlots : \A j \in FreeSlots : k <= j
  BY <1>1, NatMin
<1> QED
  BY <1>2

(* The first free entry of the table (alpc.c:116-120).                      *)
FirstFree == CHOOSE k \in FreeSlots : \A j \in FreeSlots : k <= j

(* The table changes only where an entry was free (alpc.c:116-120).         *)
LEMMA TableStep ==
  ASSUME TableInv, [Next]_vars
  PROVE \/ sections' = sections /\ next_section_id' \in {next_section_id, next_section_id + 1}
        \/ /\ FreeSlots # {} /\ FirstFree \in FreeSlots
           /\ sections' = [sections EXCEPT ![FirstFree] = next_section_id]
           /\ next_section_id' = next_section_id + 1
<1>1. CASE \E c \in Client : Fill(c)
  BY <1>1, SlotTaken DEF Fill, table, FirstFree
<1>2. CASE \A c \in Client : ~ Fill(c)
  BY <1>2 DEF Next, vars, table, shstest, ShstestDone, ShstestWaits, Prompt, ServerStep, ClientStep, alpc_create_port,
              ServerRecv, ServerDone, alpc_connect_port, MapSection, alpc_send, ClientExit
<1> QED
  BY <1>1, <1>2

(* Ids in the table are below the next one (alpc.c:116-120).                *)
LEMMA TableKeeps ==
  ASSUME TableInv, [Next]_vars
  PROVE TableInv' /\ FreeSlots' \subseteq FreeSlots
<1>0. next_section_id \in Nat \ {0} /\ sections \in [1 .. Slots -> Nat]
  BY DEF TableInv
<1>1. CASE sections' = sections /\ next_section_id' \in {next_section_id, next_section_id + 1}
  <2>1. /\ next_section_id' \in Nat \ {0}
        /\ \A k \in 1 .. Slots : sections[k] < next_section_id'
    BY <1>0, <1>1, SMT DEF TableInv
  <2> QED
    BY <1>0, <1>1, <2>1 DEF TableInv, FreeSlots
<1>2. CASE /\ FirstFree \in FreeSlots
           /\ sections' = [sections EXCEPT ![FirstFree] = next_section_id]
           /\ next_section_id' = next_section_id + 1
  <2>a. next_section_id' \in Nat \ {0}
    BY <1>0, <1>2, SMT
  <2>1. next_section_id' \in Nat \ {0} /\ sections' \in [1 .. Slots -> Nat]
    BY <1>0, <1>2, <2>a
  <2>2. ASSUME NEW k \in 1 .. Slots
        PROVE sections'[k] < next_section_id' /\ (sections'[k] = 0 => sections[k] = 0)
    <3>1. CASE k = FirstFree
      <4>1. sections'[k] = next_section_id
        BY <1>0, <1>2, <3>1
      <4> QED
        BY <1>0, <1>2, <4>1, SMT
    <3>2. CASE k # FirstFree
      <4>1. sections'[k] = sections[k] /\ sections[k] \in Nat /\ sections[k] < next_section_id
        BY <1>0, <1>2, <3>2 DEF TableInv
      <4> QED
        BY <1>0, <1>2, <4>1, SMT
    <3> QED
      BY <3>1, <3>2
  <2> QED
    BY <2>1, <2>2 DEF TableInv, FreeSlots
<1> QED
  BY <1>1, <1>2, TableStep

(* A good section stays good: entries are never taken back or overwritten   *)
(* (alpc.c:116-127).                                                        *)
LEMMA GoodStays ==
  ASSUME TableInv, [Next]_vars, NEW id, Good(id)
  PROVE Good(id)'
<1>1. filled \subseteq filled'
  BY DEF Next, vars, table, shstest, ShstestDone, ShstestWaits, Prompt, ServerStep, ClientStep, alpc_create_port,
         ServerRecv, ServerDone, alpc_connect_port, Fill, MapSection, alpc_send, ClientExit
<1>2. ASSUME Mappable(id), id # 0 PROVE Mappable(id)'
  <2>1. PICK k \in 1 .. Slots : sections[k] = id
    BY <1>2 DEF Mappable
  <2>2. k \notin FreeSlots
    BY <2>1, <1>2 DEF FreeSlots
  <2>3. sections'[k] = id
    BY <2>1, <2>2, TableStep DEF TableInv
  <2> QED
    BY <2>3 DEF Mappable
<1> QED
  BY <1>1, <1>2 DEF Good

(* One client moves, as every step of a client does (shell.c:603-625).      *)
LEMMA OneMoves ==
  ASSUME ClientsInv, NEW c \in Client, NEW new \in ClientState, Step(c, new), UNCHANGED port_list,
         new.pc \in {"fill", "map", "send"} => new.port \in Run,
         new.pc \in {"map", "send"} => new.i < Messages
  PROVE ClientsInv'
<1>1. /\ client' \in [Client -> ClientState] /\ client'[c] = new
      /\ \A d \in Client : d # c => client'[d] = client[d]
  BY DEF ClientsInv, Step
<1> QED
  BY <1>1 DEF ClientsInv

(* Clients and the list of ports keep their types, and a client that sends  *)
(* has a port to send to (shell.c:603-625, alpc.c:20-58).                   *)
LEMMA ClientsKeep ==
  ASSUME ClientsInv, TableInv, [Next]_vars
  PROVE ClientsInv'
<1>0. Messages \in Nat /\ Runs \in Nat
  BY ShstestAssumption
<1>1. ASSUME UNCHANGED <<client, port_list>> PROVE ClientsInv'
  BY <1>1 DEF ClientsInv
<1>2. ASSUME shstest PROVE ClientsInv'
  <2>1. /\ port_list' = port_list
        /\ client' = [c \in Client |-> IF c[1] = shell.run + 1
                                       THEN [client[c] EXCEPT !.pc = "connect"] ELSE client[c]]
    BY <1>2 DEF shstest
  <2>2. \A c \in Client : [client[c] EXCEPT !.pc = "connect"] \in ClientState
    BY DEF ClientsInv, ClientState
  <2>3. client' \in [Client -> ClientState]
    BY <2>1, <2>2 DEF ClientsInv
  <2>4. \A c \in Client : client'[c] = client[c] \/ client'[c].pc = "connect"
    BY <2>1 DEF ClientsInv, ClientState
  <2> QED
    BY <2>1, <2>3, <2>4 DEF ClientsInv
<1>3. ASSUME NEW r \in Run, alpc_create_port(r) PROVE ClientsInv'
  <2>1. client' = client /\ port_list' = <<r>> \o port_list
    BY <1>3 DEF alpc_create_port
  <2>2. port_list' \in Seq(Run)
    BY <2>1, SMT DEF ClientsInv
  <2> QED
    BY <2>1, <2>2 DEF ClientsInv
<1>4. ASSUME NEW c \in Client, ClientStep(c) PROVE ClientsInv'
  <2>0. client[c] \in ClientState /\ UNCHANGED port_list
    BY <1>4 DEF ClientsInv, ClientStep, alpc_connect_port, Fill, MapSection, alpc_send, ClientExit
  <2>1. CASE alpc_connect_port(c)
    <3> DEFINE new == [client[c] EXCEPT !.port = Head(port_list), !.pc = "fill"]
    <3>1. Head(port_list) \in Run
      BY <2>1, SMT DEF alpc_connect_port, ClientsInv
    <3>2. Run \subseteq 0 .. Runs
      BY <1>0, SMT DEF Run
    <3>3. new \in ClientState /\ new.pc = "fill" /\ new.port \in Run
      BY <2>0, <3>1, <3>2 DEF ClientState
    <3>4. Step(c, new)
      BY <2>1 DEF alpc_connect_port
    <3> QED
      BY <2>0, <3>3, <3>4, OneMoves
  <2>2. CASE Fill(c)
    <3>0. client[c].pc = "fill" /\ client[c].i < Messages /\ client[c].port \in Run
      BY <2>2 DEF Fill, ClientsInv
    <3>1. PICK id \in SectionId, pc \in {"map", "send"} :
            Step(c, [client[c] EXCEPT !.section = id, !.pc = pc])
      BY <2>2 DEF Fill, SectionId, TableInv
    <3> DEFINE new == [client[c] EXCEPT !.section = id, !.pc = pc]
    <3>2. new \in ClientState /\ new.port \in Run /\ new.i < Messages
      BY <2>0, <3>0 DEF ClientState
    <3> QED
      BY <2>0, <3>1, <3>2, OneMoves
  <2>3. CASE MapSection(c)
    <3>0. client[c].pc = "map" /\ client[c].i < Messages /\ client[c].port \in Run
      BY <2>3 DEF MapSection, ClientsInv
    <3>1. PICK pc \in {"send", "fault"} : Step(c, [client[c] EXCEPT !.pc = pc])
      BY <2>3 DEF MapSection
    <3> DEFINE new == [client[c] EXCEPT !.pc = pc]
    <3>2. new \in ClientState /\ new.port \in Run /\ new.i < Messages
      BY <2>0, <3>0 DEF ClientState
    <3> QED
      BY <2>0, <3>1, <3>2, OneMoves
  <2>4. CASE alpc_send(c)
    <3>0. client[c].pc = "send" /\ client[c].i < Messages /\ client[c].port \in Run
      BY <2>4 DEF alpc_send, ClientsInv
    <3> DEFINE new == [client[c] EXCEPT !.i = @ + 1, !.pc = "fill"]
    <3>1. Step(c, new)
      BY <2>4 DEF alpc_send
    <3>2. client[c].i + 1 \in 0 .. Messages
      BY <1>0, <2>0, <3>0, SMT DEF ClientState
    <3>3. new \in ClientState /\ new.port \in Run /\ new.pc = "fill"
      BY <2>0, <3>0, <3>2 DEF ClientState
    <3> QED
      BY <2>0, <3>1, <3>3, OneMoves
  <2>5. CASE ClientExit(c)
    <3> DEFINE new == [client[c] EXCEPT !.pc = "exit"]
    <3>1. Step(c, new)
      BY <2>5 DEF ClientExit
    <3>2. new \in ClientState /\ new.pc = "exit"
      BY <2>0 DEF ClientState
    <3> QED
      BY <2>0, <3>1, <3>2, OneMoves
  <2> QED
    BY <1>4, <2>1, <2>2, <2>3, <2>4, <2>5 DEF ClientStep
<1>5. ASSUME NEW r \in Run, ServerRecv(r) \/ ServerDone(r) PROVE ClientsInv'
  BY <1>1, <1>5 DEF ServerRecv, ServerDone
<1> QED
  BY <1>1, <1>2, <1>3, <1>4, <1>5 DEF Next, ShstestDone, ShstestWaits, Prompt, ServerStep, vars

(* Ids are handed out once, and a client that got none found the table full *)
(* (alpc.c:116-127, shell.c:606-611).                                       *)
LEMMA OwnersKeep ==
  ASSUME ClientsInv, TableInv, OwnersInv, [Next]_vars
  PROVE OwnersInv'
<1>0. /\ next_section_id \in Nat \ {0} /\ next_section_id' \in Nat \ {0}
      /\ next_section_id <= next_section_id'
      /\ FreeSlots' \subseteq FreeSlots
  <2>1. next_section_id' \in {next_section_id, next_section_id + 1}
    BY TableStep
  <2>2. next_section_id \in Nat \ {0}
    BY DEF TableInv
  <2>3. next_section_id' \in Nat \ {0} /\ next_section_id <= next_section_id'
    BY <2>1, <2>2, SMT
  <2> QED
    BY <2>2, <2>3, TableKeeps
<1>1. \A c \in Client : client[c].section \in SectionId
  BY DEF ClientsInv, ClientState
<1>2. ASSUME NEW id \in SectionId, id # None => id < next_section_id
      PROVE id # None => id < next_section_id'
  BY <1>0, <1>2, SMT DEF SectionId
<1>3. ASSUME \A c \in Client : /\ client'[c].section = client[c].section
                               /\ client'[c].pc = "map" => client[c].pc = "map"
      PROVE OwnersInv'
  BY <1>0, <1>1, <1>2, <1>3 DEF OwnersInv
<1>4. ASSUME NEW c \in Client, Fill(c) PROVE OwnersInv'
  <2>1. client[c] \in ClientState
    BY DEF ClientsInv
  <2>a. PICK id, pc : /\ client' = [client EXCEPT ![c] = [client[c] EXCEPT !.section = id, !.pc = pc]]
                      /\ \/ id = None /\ pc = "send"
                         \/ id = next_section_id /\ pc = "map" /\ next_section_id' = next_section_id + 1
                         \/ id = 0 /\ pc = "map" /\ FreeSlots = {}
    BY <1>4 DEF Fill, Step
  <2> DEFINE new == [client[c] EXCEPT !.section = id, !.pc = pc]
  <2>b. new.section = id /\ new.pc = pc
    BY <2>1 DEF ClientState
  <2>2. /\ client' = [client EXCEPT ![c] = new]
        /\ \/ new.section = None /\ new.pc = "send"
           \/ /\ next_section_id' = next_section_id + 1
              /\ new.section = next_section_id /\ new.pc = "map"
           \/ /\ new.section = 0 /\ new.pc = "map" /\ FreeSlots = {}
    BY <2>a, <2>b
  <2> HIDE DEF new
  <2>3. client'[c] = new /\ \A d \in Client : d # c => client'[d] = client[d]
    BY <2>2 DEF ClientsInv
  <2>4. \A d \in Client : client[d].section # next_section_id
    <3>1. \A d \in Client : client[d].section # None => client[d].section < next_section_id
      BY DEF OwnersInv
    <3>2. None # next_section_id
      BY <1>0, ShstestAssumption
    <3> QED
      BY <1>0, <1>1, <3>1, <3>2, SMT DEF SectionId
  <2>5. /\ new.section \in {None, 0, next_section_id}
        /\ new.section # None => new.section < next_section_id'
    BY <1>0, <2>2, SMT
  <2>6. \A d \in Client : client'[d].section # None => client'[d].section < next_section_id'
    BY <1>1, <1>2, <2>3, <2>5 DEF OwnersInv
  <2>7. \A d, e \in Client : d # e /\ client'[d].section \notin {0, None}
                               => client'[d].section # client'[e].section
    BY <2>3, <2>4, <2>5 DEF OwnersInv
  <2>8. \A d \in Client : client'[d].pc = "map" => /\ client'[d].section \in Nat
                                                   /\ client'[d].section = 0 => FreeSlots' = {}
    <3>1. CASE new.section = None /\ new.pc = "send"
      BY <1>0, <2>3, <3>1 DEF OwnersInv
    <3>2. CASE new.section = next_section_id /\ new.pc = "map"
      BY <1>0, <2>3, <3>2 DEF OwnersInv
    <3>3. CASE new.section = 0 /\ new.pc = "map" /\ FreeSlots = {}
      BY SMT, <1>0, <2>3, <3>3 DEF OwnersInv
    <3> QED
      BY <2>2, <3>1, <3>2, <3>3
  <2> QED
    BY <2>6, <2>7, <2>8 DEF OwnersInv
<1>5. ASSUME NEW c \in Client, NEW new, Step(c, new), new.section = client[c].section, new.pc # "map"
      PROVE OwnersInv'
  <2>1. client'[c] = new /\ \A d \in Client : d # c => client'[d] = client[d]
    BY <1>5 DEF Step, ClientsInv
  <2> QED
    BY <1>3, <1>5, <2>1
<1>6. ASSUME NEW c \in Client, ClientStep(c), ~ Fill(c) PROVE OwnersInv'
  <2>1. client[c] \in ClientState
    BY DEF ClientsInv
  <2>2. CASE alpc_connect_port(c)
    <3> DEFINE new == [client[c] EXCEPT !.port = Head(port_list), !.pc = "fill"]
    <3>1. Step(c, new) /\ new.section = client[c].section /\ new.pc # "map"
      BY <2>1, <2>2 DEF alpc_connect_port, ClientState
    <3> QED
      BY <3>1, <1>5
  <2>3. CASE MapSection(c)
    <3>1. PICK pc \in {"send", "fault"} : Step(c, [client[c] EXCEPT !.pc = pc])
      BY <2>3 DEF MapSection
    <3> DEFINE new == [client[c] EXCEPT !.pc = pc]
    <3>2. new.section = client[c].section /\ new.pc # "map"
      BY <2>1 DEF ClientState
    <3> QED
      BY <3>1, <3>2, <1>5
  <2>4. CASE alpc_send(c)
    <3> DEFINE new == [client[c] EXCEPT !.i = @ + 1, !.pc = "fill"]
    <3>1. Step(c, new) /\ new.section = client[c].section /\ new.pc # "map"
      BY <2>1, <2>4 DEF alpc_send, ClientState
    <3> QED
      BY <3>1, <1>5
  <2>5. CASE ClientExit(c)
    <3> DEFINE new == [client[c] EXCEPT !.pc = "exit"]
    <3>1. Step(c, new) /\ new.section = client[c].section /\ new.pc # "map"
      BY <2>1, <2>5 DEF ClientExit, ClientState
    <3> QED
      BY <3>1, <1>5
  <2> QED
    BY <1>6, <2>2, <2>3, <2>4, <2>5 DEF ClientStep
<1>7. ASSUME shstest PROVE OwnersInv'
  <2>1. \A c \in Client : /\ client'[c].section = client[c].section
                          /\ client'[c].pc = "map" => client[c].pc = "map"
    BY <1>7 DEF shstest, ClientsInv, ClientState
  <2> QED
    BY <2>1, <1>3
<1>8. ASSUME UNCHANGED client PROVE OwnersInv'
  BY <1>3, <1>8
<1> QED
  BY <1>4, <1>6, <1>7, <1>8 DEF Next, ShstestDone, ShstestWaits, Prompt, ServerStep, alpc_create_port, ServerRecv,
                               ServerDone, vars

(* The ring of a port: Succ is the next slot (alpc.c:78, 103).              *)
LEMMA SuccValue ==
  ASSUME NEW i \in Index
  PROVE Succ(i) \in Index /\ Succ(i) = IF i + 1 = QueueSize THEN 0 ELSE i + 1
<1>1. QueueSize \in Nat \ {0} /\ i \in Nat /\ i < QueueSize
  BY PortAssumption, SMT DEF Index
<1>2. CASE i + 1 < QueueSize
  <2>1. i + 1 \in Nat
    BY <1>1, SMT
  <2>2. (i + 1) % QueueSize = i + 1
    BY <1>1, <1>2, <2>1, OneTurn
  <2> QED
    BY <1>1, <1>2, <2>2, SMT DEF Index, Succ
<1>3. CASE i + 1 = QueueSize
  <2>1. (0 + QueueSize) % QueueSize = 0
    BY <1>1, OneTurn, SMT
  <2> QED
    BY <1>1, <1>3, <2>1, SMT DEF Index, Succ
<1> QED
  BY <1>1, <1>2, <1>3, SMT

(* alpc_send puts a message into a slot that held none (alpc.c:71-80).      *)
LEMMA EnqueueLive ==
  ASSUME NEW p \in PortState, ~ IsFull(p), NEW m \in Message
  PROVE /\ Enqueue(p, m) \in PortState
        /\ \A i \in Index : Live(Enqueue(p, m), i) =>
             \/ i = p.queue_tail /\ Enqueue(p, m).msg_queue[i] = m
             \/ Live(p, i) /\ Enqueue(p, m).msg_queue[i] = p.msg_queue[i]
<1> DEFINE h == p.queue_head
           t == p.queue_tail
           q == Enqueue(p, m)
           n == Succ(t)
<1>1. h \in Index /\ t \in Index /\ p.msg_queue \in [Index -> Message \cup {None}]
  BY DEF PortState
<1>2. n \in Index /\ n = (IF t + 1 = QueueSize THEN 0 ELSE t + 1) /\ n # h
  BY <1>1, SuccValue DEF IsFull
<1>3. /\ q.queue_head = h /\ q.queue_tail = n
      /\ q.msg_queue = [p.msg_queue EXCEPT ![t] = m]
  BY DEF Enqueue, PortState
<1>4. q \in PortState
  BY <1>1, <1>2 DEF Enqueue, PortState
<1> HIDE DEF n, q
<1>5. ASSUME NEW i \in Index, Live(q, i), i # t PROVE Live(p, i)
  <2>1. IF h <= n THEN h <= i /\ i < n ELSE h <= i \/ i < n
    BY <1>3, <1>5 DEF Live
  <2>2. QueueSize \in Nat
    BY PortAssumption
  <2> HIDE DEF h, t
  <2>3. IF h <= t THEN h <= i /\ i < t ELSE h <= i \/ i < t
    BY <1>1, <1>2, <1>5, <2>1, <2>2, SMT DEF Index
  <2> QED
    BY <2>3 DEF Live, h, t
<1>6. ASSUME NEW i \in Index
      PROVE q.msg_queue[i] = IF i = t THEN m ELSE p.msg_queue[i]
  BY <1>1, <1>3
<1>7. \A i \in Index : Live(q, i) => \/ i = t /\ q.msg_queue[i] = m
                                     \/ Live(p, i) /\ q.msg_queue[i] = p.msg_queue[i]
  BY <1>5, <1>6
<1> QED
  BY <1>4, <1>7 DEF q

(* alpc_recv takes a message and leaves the others (alpc.c:98-105).         *)
LEMMA DequeueLive ==
  ASSUME NEW p \in PortState, ~ IsEmpty(p)
  PROVE /\ Dequeue(p) \in PortState
        /\ Dequeue(p).msg_queue = p.msg_queue
        /\ Live(p, p.queue_head)
        /\ \A i \in Index : Live(Dequeue(p), i) => Live(p, i)
<1> DEFINE h == p.queue_head
           t == p.queue_tail
           q == Dequeue(p)
           n == Succ(h)
<1>1. h \in Index /\ t \in Index /\ h # t
  BY DEF PortState, IsEmpty
<1>2. n \in Index /\ n = (IF h + 1 = QueueSize THEN 0 ELSE h + 1)
  BY <1>1, SuccValue
<1>3. q.queue_head = n /\ q.queue_tail = t /\ q.msg_queue = p.msg_queue
  BY DEF Dequeue, PortState
<1>4. q \in PortState
  BY <1>2 DEF Dequeue, PortState
<1>a. QueueSize \in Nat
  BY PortAssumption
<1> HIDE DEF n, q
<1>5. Live(p, h)
  <2> HIDE DEF h, t
  <2>1. IF h <= t THEN h <= h /\ h < t ELSE h <= h \/ h < t
    BY <1>1, <1>a, SMT DEF Index
  <2> QED
    BY <2>1 DEF Live, h, t
<1>6. ASSUME NEW i \in Index, Live(q, i) PROVE Live(p, i)
  <2>1. IF n <= t THEN n <= i /\ i < t ELSE n <= i \/ i < t
    BY <1>3, <1>6 DEF Live
  <2> HIDE DEF h, t
  <2>3. IF h <= t THEN h <= i /\ i < t ELSE h <= i \/ i < t
    BY <1>1, <1>2, <1>a, <2>1, SMT DEF Index
  <2> QED
    BY <2>3 DEF Live, h, t
<1> QED
  BY <1>3, <1>4, <1>5, <1>6 DEF q

(* A client sends only sections that it has written to (shell.c:606-621).   *)
LEMMA SendsGood ==
  ASSUME SectionsInv, [Next]_vars
  PROVE \A c \in Client : client'[c].pc = "send" => Good(client[c].section)'
<1>0. ClientsInv /\ TableInv /\ OwnersInv /\ SentInv
  BY DEF SectionsInv
<1> SUFFICES ASSUME NEW c \in Client, client'[c].pc = "send" PROVE Good(client[c].section)'
  OBVIOUS
<1>1. client[c] \in ClientState
  BY <1>0 DEF ClientsInv
<1>2. ASSUME client'[c] = client[c] PROVE Good(client[c].section)'
  BY <1>0, <1>2, GoodStays DEF SentInv
<1>3. ASSUME NEW d \in Client, ClientStep(d) PROVE client'[c] = client[c] \/ c = d
  BY <1>0, <1>3 DEF ClientsInv, ClientStep, alpc_connect_port, Fill, MapSection, alpc_send, ClientExit, Step
<1>4. ASSUME Fill(c) PROVE Good(client[c].section)'
  <2>1. PICK id, pc : /\ client' = [client EXCEPT ![c] = [client[c] EXCEPT !.section = id, !.pc = pc]]
                      /\ (id = None /\ pc = "send") \/ pc = "map"
    BY <1>4 DEF Fill, Step
  <2>2. client'[c].section = id /\ client'[c].pc = pc
    BY <1>0, <1>1, <2>1 DEF ClientsInv, ClientState
  <2> QED
    BY <2>1, <2>2 DEF Good
<1>5. ASSUME MapSection(c) PROVE Good(client[c].section)'
  <2>1. CASE ~ Mappable(client[c].section)
    <3>1. client' = [client EXCEPT ![c] = [client[c] EXCEPT !.pc = "fault"]]
      BY <1>5, <2>1 DEF MapSection, Step
    <3>2. client'[c].pc = "fault"
      BY <1>0, <1>1, <3>1 DEF ClientsInv, ClientState
    <3> QED
      BY <3>2
  <2>2. CASE Mappable(client[c].section)
    <3>1. /\ client' = [client EXCEPT ![c] = [client[c] EXCEPT !.pc = "send"]]
          /\ filled' = filled \cup {client[c].section} /\ sections' = sections
      BY <1>5, <2>2 DEF MapSection, Step, table
    <3>2. client'[c].section = client[c].section
      BY <1>0, <1>1, <3>1 DEF ClientsInv, ClientState
    <3>3. client[c].section \in Nat /\ (client[c].section = 0 => FreeSlots = {})
      BY <1>0, <1>5 DEF MapSection, OwnersInv
    <3>4. client[c].section # 0
      BY <2>2, <3>3 DEF Mappable, FreeSlots
    <3> QED
      BY SMT, <2>2, <3>1, <3>2, <3>3, <3>4 DEF Good, Mappable
  <2> QED
    BY <2>1, <2>2
<1>6. ASSUME alpc_connect_port(c) \/ alpc_send(c) \/ ClientExit(c) PROVE FALSE
  <2>1. PICK new : client' = [client EXCEPT ![c] = new] /\ new.pc \in {"fill", "exit"}
    <3>1. CASE alpc_connect_port(c)
      <4> DEFINE new == [client[c] EXCEPT !.port = Head(port_list), !.pc = "fill"]
      <4>1. client' = [client EXCEPT ![c] = new] /\ new.pc = "fill"
        BY <1>1, <3>1 DEF alpc_connect_port, Step, ClientState
      <4> QED
        BY <4>1
    <3>2. CASE alpc_send(c)
      <4> DEFINE new == [client[c] EXCEPT !.i = @ + 1, !.pc = "fill"]
      <4>1. client' = [client EXCEPT ![c] = new] /\ new.pc = "fill"
        BY <1>1, <3>2 DEF alpc_send, Step, ClientState
      <4> QED
        BY <4>1
    <3>3. CASE ClientExit(c)
      <4> DEFINE new == [client[c] EXCEPT !.pc = "exit"]
      <4>1. client' = [client EXCEPT ![c] = new] /\ new.pc = "exit"
        BY <1>1, <3>3 DEF ClientExit, Step, ClientState
      <4> QED
        BY <4>1
    <3> QED
      BY <1>6, <3>1, <3>2, <3>3
  <2>2. client'[c] = new
    BY <1>0, <2>1 DEF ClientsInv
  <2> QED
    BY <2>1, <2>2
<1>7. ASSUME shstest PROVE client'[c] = client[c]
  BY <1>0, <1>1, <1>7 DEF shstest, ClientsInv, ClientState
<1>8. ASSUME NEW d \in Client, ClientStep(d) PROVE Good(client[c].section)'
  BY <1>2, <1>3, <1>4, <1>5, <1>6, <1>8 DEF ClientStep
<1> QED
  BY <1>2, <1>7, <1>8 DEF Next, ShstestDone, ShstestWaits, Prompt, ServerStep, alpc_create_port, ServerRecv,
                          ServerDone, vars

(* What the ports hold and the servers have logged stays good               *)
(* (shell.c:572-585, 606-621, alpc.c:61-108).                               *)
LEMMA SentKeeps ==
  ASSUME SectionsInv, [Next]_vars
  PROVE SentInv'
<1>0. ClientsInv /\ TableInv /\ OwnersInv /\ SentInv
  BY DEF SectionsInv
<1>1. \A c \in Client : client'[c].pc = "send" => Good(client[c].section)'
  BY SendsGood
<1>2. port \in [Run -> PortState] /\ log \in [Run -> Seq(Entry)]
  BY <1>0 DEF SentInv
<1>3. \A id : Good(id) => Good(id)'
  BY <1>0, GoodStays
<1>4. ASSUME UNCHANGED port PROVE SentInv' \/ log' \notin [Run -> Seq(Entry)]
  BY <1>0, <1>1, <1>2, <1>3, <1>4 DEF SentInv
<1>5. ASSUME NEW r \in Run, NEW q \in PortState, port' = [port EXCEPT ![r] = q],
             log' \in [Run -> Seq(Entry)],
             \A i \in Index : Live(q, i) => /\ q.msg_queue[i] \in Message
                                            /\ Good(q.msg_queue[i].body.section)
      PROVE SentInv'
  <2>1. port' \in [Run -> PortState] /\ port'[r] = q /\ \A u \in Run : u # r => port'[u] = port[u]
    BY <1>2, <1>5
  <2>2. ASSUME NEW u \in Run, NEW i \in Index, Live(port'[u], i)
        PROVE /\ port'[u].msg_queue[i] \in Message
              /\ Good(port[u].msg_queue[i].body.section)'
    <3>1. CASE u = r
      BY <1>3, <1>5, <2>1, <2>2, <3>1
    <3>2. CASE u # r
      BY <1>0, <1>3, <2>1, <2>2, <3>2 DEF SentInv
    <3> QED
      BY <3>1, <3>2
  <2>3. \A u \in Run, i \in Index : Live(port[u], i)' <=> Live(port'[u], i)
    BY DEF Live
  <2> QED
    BY <1>1, <1>5, <2>1, <2>2, <2>3 DEF SentInv
<1>6. ASSUME NEW r \in Run, ServerRecv(r) PROVE SentInv'
  <2> DEFINE m == Front(port[r])
             e == [msg |-> m, intact |-> m.body.section = None \/ (Mappable(m.body.section) /\ m.body.section \in filled)]
  <2>1. /\ ~ IsEmpty(port[r]) /\ port' = [port EXCEPT ![r] = Dequeue(port[r])]
        /\ log' = [log EXCEPT ![r] = Append(log[r], e)]
    BY <1>6 DEF ServerRecv
  <2>2. port[r] \in PortState /\ port[r].queue_head \in Index
    BY <1>2 DEF PortState
  <2>3. m \in Message /\ Good(m.body.section)
    BY <1>0, <2>1, <2>2, DequeueLive DEF SentInv, Front
  <2>4. e \in Entry
    <3>1. (m.body.section = None \/ (Mappable(m.body.section) /\ m.body.section \in filled)) = TRUE
      BY <2>3 DEF Good
    <3>2. e.msg \in Message /\ e.intact = TRUE
      BY <2>3, <3>1
    <3> QED
      BY <2>3, <3>1 DEF Entry
  <2> HIDE DEF e
  <2>5. log' \in [Run -> Seq(Entry)]
    <3>1. log[r] \in Seq(Entry)
      BY <1>2
    <3>2. Append(log[r], e) \in Seq(Entry)
      BY <2>4, <3>1, SMT
    <3> QED
      BY <1>2, <2>1, <3>2
  <2>6. /\ Dequeue(port[r]) \in PortState
        /\ \A i \in Index : Live(Dequeue(port[r]), i) =>
             /\ Dequeue(port[r]).msg_queue[i] \in Message
             /\ Good(Dequeue(port[r]).msg_queue[i].body.section)
    BY <1>0, <2>1, <2>2, DequeueLive DEF SentInv
  <2> QED
    BY <1>5, <2>1, <2>5, <2>6
<1>7. ASSUME NEW c \in Client, alpc_send(c) PROVE SentInv'
  <2> DEFINE r == client[c].port
             m == MessageOf(c)
             q == Enqueue(port[r], m)
  <2>1. /\ client[c].pc = "send" /\ ~ IsFull(port[r]) /\ port' = [port EXCEPT ![r] = q] /\ log' = log
    BY <1>7 DEF alpc_send
  <2>2. client[c] \in ClientState /\ r \in Run
    BY <1>0, <2>1 DEF ClientsInv
  <2>3. m \in Message /\ m.body.section = client[c].section
    BY <2>2 DEF MessageOf, Message, ClientState
  <2>4. Good(client[c].section)
    BY <1>0, <2>1 DEF SentInv
  <2>5. port[r] \in PortState
    BY <1>2, <2>2
  <2>6. /\ q \in PortState
        /\ \A i \in Index : Live(q, i) =>
             \/ i = port[r].queue_tail /\ q.msg_queue[i] = m
             \/ Live(port[r], i) /\ q.msg_queue[i] = port[r].msg_queue[i]
    BY <2>1, <2>3, <2>5, EnqueueLive
  <2> HIDE DEF q, m, r
  <2>7. \A i \in Index : Live(q, i) => q.msg_queue[i] \in Message /\ Good(q.msg_queue[i].body.section)
    BY <1>0, <2>2, <2>3, <2>4, <2>6 DEF SentInv
  <2> QED
    BY <1>2, <1>5, <2>1, <2>2, <2>6, <2>7
<1>8. ASSUME UNCHANGED <<port, log>> PROVE SentInv'
  BY <1>2, <1>4, <1>8
<1> QED
  BY <1>6, <1>7, <1>8 DEF Next, shstest, ShstestDone, ShstestWaits, Prompt, ServerStep, alpc_create_port, ServerDone,
                          ClientStep, alpc_connect_port, Fill, MapSection, ClientExit, vars

(* No section is mapped by a server before its client has written to it,    *)
(* and no two clients write to one section, for any number of runs,         *)
(* clients, messages, table entries and ring slots, also when the table is  *)
(* full (alpc.c:61-127, shell.c:566-644).                                   *)
THEOREM SectionsArriveIntact == Spec => []SectionsIntact
<1>1. Init => SectionsInv
  <2> SUFFICES ASSUME Init PROVE SectionsInv
    OBVIOUS
  <2>0. QueueSize \in Nat \ {0} /\ Messages \in Nat /\ Runs \in Nat
    BY PortAssumption, ShstestAssumption
  <2>1. 0 \in Index /\ 0 \in 0 .. Messages /\ 0 \in 0 .. Runs /\ 0 \in Nat
    BY <2>0, SMT DEF Index
  <2>2. NewClient \in ClientState /\ NewClient.pc = "new" /\ NewClient.section = 0
    BY <2>1 DEF NewClient, ClientState, SectionId
  <2>3. \A c \in Client : client[c] = NewClient
    BY DEF Init
  <2>4. port_list \in Seq(Run)
    BY SMT DEF Init
  <2>5. ClientsInv
    BY <2>2, <2>3, <2>4 DEF ClientsInv, Init
  <2>6. next_section_id \in Nat \ {0} /\ 0 < next_section_id /\ next_section_id = 1
    BY SMT DEF Init
  <2>7. TableInv
    BY <2>1, <2>6 DEF TableInv, Init
  <2>8. OwnersInv
    BY <2>2, <2>3, <2>6 DEF OwnersInv
  <2>9. EmptyRing(None) \in PortState
    BY <2>1 DEF EmptyRing, PortState
  <2>10. \A i \in Index : ~ Live(EmptyRing(None), i)
    <3>1. EmptyRing(None).queue_head = 0 /\ EmptyRing(None).queue_tail = 0
      BY DEF EmptyRing
    <3>2. \A i \in Index : ~ (IF 0 <= 0 THEN 0 <= i /\ i < 0 ELSE 0 <= i \/ i < 0)
      BY <2>0, SMT DEF Index
    <3> QED
      BY <3>1, <3>2 DEF Live
  <2>11. <<>> \in Seq(Entry)
    BY SMT
  <2>12. SentInv
    BY <2>2, <2>3, <2>9, <2>10, <2>11 DEF SentInv, Init
  <2> QED
    BY <2>5, <2>7, <2>8, <2>12 DEF SectionsInv
<1>2. SectionsInv /\ [Next]_vars => SectionsInv'
  BY ClientsKeep, TableKeeps, OwnersKeep, SentKeeps DEF SectionsInv
<1>3. SectionsInv => SectionsIntact
  <2> SUFFICES ASSUME SectionsInv PROVE SectionsIntact
    OBVIOUS
  <2>1. ASSUME NEW r \in Run, NEW k \in 1 .. Len(log[r]) PROVE log[r][k].intact
    <3>1. log[r] \in Seq(Entry)
      BY DEF SectionsInv, SentInv
    <3>2. log[r][k] \in Entry
      BY <3>1, SMT
    <3> QED
      BY <3>2 DEF Entry
  <2>2. ASSUME NEW c \in Client, client[c].pc = "map", client[c].section # 0
        PROVE client[c].section \notin {0, None}
    BY <2>2, ShstestAssumption DEF SectionsInv, OwnersInv
  <2> QED
    BY <2>1, <2>2 DEF SectionsInv, OwnersInv, SectionsIntact
<1> QED
  BY <1>1, <1>2, <1>3, PTL DEF Spec
=============================================================================
