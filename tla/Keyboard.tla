------------------------------ MODULE Keyboard ------------------------------
(***************************************************************************)
(* Decoding of scan codes: the modifier flags and key tables of            *)
(* print_keyboard and ini_keyboard (keyboard.c, codes in keyboard.h).      *)
(* What a decoded key does to the line is in LineInput, what it does to    *)
(* the screen in Console.                                                  *)
(***************************************************************************)
EXTENDS Integers, Sequences

VARIABLES shift_flags, ctrl_flags, alt_flags, caps_lock_flags

flagVars == <<shift_flags, ctrl_flags, alt_flags, caps_lock_flags>>

Codes == 0 .. 255

enter_pressed == 28
space_pressed == 57
backspace_pressed == 14
l_pressed == 38
F_pressed == 59 .. 61            \* Fone_pressed, Ftwo_pressed, Fthree_pressed

\* character_pressed_array: the scan codes of a to z.
Letters == <<30, 48, 46, 32, 18, 33, 34, 35, 23, 36, 37, 38, 50, 49, 24, 25, 16, 19,
             31, 20, 22, 47, 17, 45, 21, 44>>

\* The digit keys 1 to 9 and 0, and what they print with shift.
Digits == <<2, 3, 4, 5, 6, 7, 8, 9, 10, 11>>
DigitPlain == <<49, 50, 51, 52, 53, 54, 55, 56, 57, 48>>
DigitShift == <<33, 64, 35, 36, 37, 94, 38, 42, 40, 41>>

\* The other keys: scan code, character without and with shift.  The branch for
\* caps lock has a list of its own, with the same codes and characters as the
\* plain one.
Symbols == {<<41, 96, 126>>, <<12, 45, 95>>, <<13, 61, 43>>, <<26, 91, 123>>,
            <<27, 93, 125>>, <<43, 92, 124>>, <<39, 59, 58>>, <<40, 39, 34>>,
            <<51, 44, 60>>, <<52, 46, 62>>, <<53, 47, 63>>}

\* Mutant: the caps lock branch prints digits from keyboard_Cap too.
CapsGlyphDigits(c) ==
  {s[2] : s \in {s \in Symbols : s[1] = c}}
    \cup {DigitShift[i] : i \in {i \in 1 .. 10 : Digits[i] = c}}
    \cup {64 + i : i \in {i \in 1 .. 26 : Letters[i] = c}}

\* The characters the three branches print for key c (at most one).
ShiftGlyph(c) ==
  {s[3] : s \in {s \in Symbols : s[1] = c}}
    \cup {DigitShift[i] : i \in {i \in 1 .. 10 : Digits[i] = c}}
    \cup {64 + i : i \in {i \in 1 .. 26 : Letters[i] = c}}

CapsGlyph(c) ==
  {s[2] : s \in {s \in Symbols : s[1] = c}}
    \cup {DigitPlain[i] : i \in {i \in 1 .. 10 : Digits[i] = c}}
    \cup {64 + i : i \in {i \in 1 .. 26 : Letters[i] = c}}

PlainGlyph(c) ==
  {s[2] : s \in {s \in Symbols : s[1] = c}}
    \cup {DigitPlain[i] : i \in {i \in 1 .. 10 : Digits[i] = c}}
    \cup {96 + i : i \in {i \in 1 .. 26 : Letters[i] = c}}

\* What key c prints when shift and caps lock are as given.
Glyph(c, shift, caps) ==
  (IF c = space_pressed THEN {32} ELSE {})
    \cup (IF shift THEN ShiftGlyph(c) ELSE IF caps THEN CapsGlyph(c) ELSE PlainGlyph(c))

\* The keys that print anything, for each state of shift and caps lock.
PrintingKeys ==
  [shift \in BOOLEAN |->
     [caps \in BOOLEAN |-> {c \in Codes : Glyph(c, shift, caps) # {}}]]

InitFlags ==
  /\ shift_flags = FALSE
  /\ ctrl_flags = FALSE
  /\ alt_flags = FALSE
  /\ caps_lock_flags = FALSE

\* The flags after scan code c: set by the key, cleared by its release; caps lock
\* toggles.
Modifiers(c) ==
  /\ shift_flags' = (c \in {42, 54} \/ (shift_flags /\ c \notin {170, 182}))
  /\ ctrl_flags' = (c = 29 \/ (ctrl_flags /\ c # 157))
  /\ alt_flags' = (c = 56 \/ (alt_flags /\ c # 184))
  /\ caps_lock_flags' = (caps_lock_flags # (c = 58))

\* What scan code c asks for, with the flags it has just set: the tests in the
\* order of the handler, which returns for every release first.
Operation(c) ==
  CASE c > 128 -> "none"
    [] c = enter_pressed -> "enter"
    [] alt_flags' /\ c \in F_pressed -> "switch"
    [] ctrl_flags' /\ c = l_pressed -> "clear"
    [] c = backspace_pressed -> "backspace"
    [] c \in PrintingKeys[shift_flags'][caps_lock_flags'] -> "type"
    [] OTHER -> "none"

-----------------------------------------------------------------------------
(* Properties *)

\* What the tables are to print, for each state of caps lock: with and without
\* shift every printable ASCII character and nothing else, except that caps lock
\* takes the lower case away (shift does not give it back); no key prints two
\* characters, and no two keys print the same one.
WellFormed ==
  [caps \in BOOLEAN |->
     LET Keys(s) == PrintingKeys[s][caps]
         LowerCase == 97 .. 122
     IN /\ UNION {Glyph(c, s, caps) : c \in Codes, s \in BOOLEAN}
             = IF caps THEN (32 .. 126) \ LowerCase ELSE 32 .. 126
        /\ \A s \in BOOLEAN : \A c \in Keys(s) : \A a, b \in Glyph(c, s, caps) : a = b
        /\ \A s \in BOOLEAN : \A c, d \in Keys(s) :
             Glyph(c, s, caps) = Glyph(d, s, caps) => c = d]

\* The tables of keyboard.c are well formed in whatever state caps lock gets into.
Layout == WellFormed[caps_lock_flags]
=============================================================================
