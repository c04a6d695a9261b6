------------------------------ MODULE Console ------------------------------
(***************************************************************************)
(* Where characters land on the screen: putc, putm and the cursor          *)
(* functions of lib.c, prout, backspace and the Enter, Ctrl-L and Alt-F    *)
(* branches of the key handler (keyboard.c), the positions a display       *)
(* switch saves and restores, and terminal_write (terminal.c).             *)
(*                                                                         *)
(* There are two notions of the current position: screen_x/screen_y of     *)
(* lib.c, where putc writes, and vd_x/vd_y of keyboard.c, by which the     *)
(* keyboard decides when a line is full.  putc copies the first to the     *)
(* second; a display switch does not.                                      *)
(*                                                                         *)
(* putc runs with interrupts off.  putm runs with interrupts on: each of   *)
(* its statements is a step of its own, and keys and the PIT may come      *)
(* between two of them.                                                    *)
(*                                                                         *)
(* The contents of the screen are left out, and with them enter_flag,      *)
(* which only decides whether Enter scrolls them.  off records that a      *)
(* character was stored outside video memory, and torn that a display      *)
(* switch or the loss of a context split a putm; after either nothing is   *)
(* modelled.                                                               *)
(***************************************************************************)
EXTENDS Keyboard

CONSTANTS NT,        \* number of terminals (3 in the code)
          Cols,      \* NUM_COLS, screen_legth (80 in the code)
          Rows,      \* NUM_ROWS, screen_width + 2 (25 in the code)
          BufSize,   \* bufsize (128 in the code)
          KeyCodes   \* scan codes the keyboard may send

ASSUME ScreenAssumption ==
  NT \in Nat \ {0} /\ Cols \in Nat \ {0, 1} /\ Rows \in Nat \ {0, 1} /\ BufSize \in Nat \ {0}
ASSUME KeyAssumption == KeyCodes \subseteq Codes

Terminals == 0 .. NT - 1
Already == 21        \* length of "already in terminal 1"

\* The statements of putm, each named for what it is about to do.
InPutm == {"increment", "wrap", "row", "last", "bottom", "down", "home"}

\* Outside terminal_write, or at the head of one of its two loops.
Loops == {"none", "putc", "putm"}

VARIABLES
  scr,              \* the globals of lib.c and keyboard.c
  saved,            \* terminals[t].screen_x, terminals[t].screen_y
  open, current_id, curr_terminal,
  wpc,              \* where the process of t is in terminal_write
  masked,           \* putc has disabled interrupts until terminal_write returns
  torn              \* history: a putm was split by a switch or a lost context

vars == <<flagVars, scr, saved, open, current_id, curr_terminal, wpc, masked, torn>>

Running == ~scr.off /\ ~torn

Shown == current_id - 1

Screen == [screen_x : 0 .. Cols - 1, screen_y : 0 .. Rows - 1,
           vd_x : 0 .. Cols - 1, vd_y : 0 .. Rows,
           count : 0 .. BufSize, off : BOOLEAN]

Init ==
  /\ InitFlags
  /\ scr = [screen_x |-> 0, screen_y |-> 0, vd_x |-> 0, vd_y |-> 0,
            count |-> 0, off |-> FALSE]
  /\ saved = [t \in Terminals |-> [x |-> 0, y |-> 0]]
  /\ open = [t \in Terminals |-> t = 0]
  /\ current_id = 1
  /\ curr_terminal = 0
  /\ wpc = [t \in Terminals |-> "none"]
  /\ masked = FALSE
  /\ torn = FALSE

-----------------------------------------------------------------------------
(* The screen *)

\* reset_position and copy_position.
ResetPosition(s, x, y) == [s EXCEPT !.screen_x = x, !.screen_y = y]
CopyPosition(s, x, y) == [s EXCEPT !.vd_x = x, !.vd_y = y]

\* A character is stored at column x of row y of video memory.
Store(s, x, y) ==
  [s EXCEPT !.off = @ \/ Cols * y + x \notin 0 .. Cols * Rows - 1]

\* putc of a newline: scroll on the last row.
PutNewline(s) ==
  LET y == IF s.screen_y = Rows - 1 THEN s.screen_y ELSE s.screen_y + 1
  IN CopyPosition(ResetPosition(s, 0, y), 0, y)

\* putc of another character.  The column wraps to 0; the row stays, because it
\* is computed from the column that has wrapped already.
PutChar(s) ==
  LET x == (s.screen_x + 1) % Cols
  IN CopyPosition(ResetPosition(Store(s, s.screen_x, s.screen_y), x, s.screen_y),
                  x, s.screen_y)

Putc(s, newline) == IF newline THEN PutNewline(s) ELSE PutChar(s)

\* prout: when the key fills the row by vd_x, go to the next row, and scroll
\* below the last one (vd_y is left below the screen then).
Prout(s, newline) ==
  IF s.count = BufSize THEN s
  ELSE LET p == [Putc(s, newline) EXCEPT !.count = @ + 1]
           y == p.vd_y + 1
       IN IF s.vd_x + 1 = Cols
          THEN CopyPosition(ResetPosition(p, 0, IF y = Rows THEN y - 1 ELSE y), 0, y)
          ELSE p

-----------------------------------------------------------------------------
(* Keys *)

\* Enter, after the newline: the keyboard goes down a row of its own accord.
EnterLine(s) ==
  LET p == [Prout(s, TRUE) EXCEPT !.count = 0]
  IN IF p.vd_y <= Rows - 1
     THEN CopyPosition(p, 0, p.vd_y + 1)
     ELSE CopyPosition(ResetPosition(p, 0, Rows - 1), 0, Rows - 1)

\* Mutant: backspace in column 0 goes left like everywhere else.
BackspaceNoUp(s) ==
  IF s.count = 0 \/ (s.vd_x = 0 /\ s.vd_y = 0) THEN s
  ELSE CopyPosition(ResetPosition(Store(s, s.screen_x - 1, s.screen_y),
                                  s.screen_x - 1, s.screen_y), s.screen_x - 1, s.screen_y)

\* backspace: wipe the character before the position, in the row above when the
\* keyboard's column is 0.
Backspace(s) ==
  IF s.count = 0 \/ (s.vd_x = 0 /\ s.vd_y = 0) THEN s
  ELSE LET up == s.vd_x = 0
           w == IF up THEN Store(s, Cols - 1, s.screen_y - 1)
                ELSE Store(s, s.screen_x - 1, s.screen_y)
           x == IF up THEN Cols - 1 ELSE s.vd_x - 1
           y == IF up THEN s.vd_y - 1 ELSE s.vd_y
       IN CopyPosition(ResetPosition(w, x, y), x, y)

\* Ctrl-L.
ClearLine(s) == [CopyPosition(ResetPosition(s, 0, 0), 0, 0) EXCEPT !.count = 0]

OneTerminal == \A t \in Terminals : open[t] => t = 0

\* A scan code that edits the line.  backspace lowers count only if the line is
\* not empty, which it can be with count > 0 once the display has been switched
\* (LineInput, SingleTerminalFits).
EditKey(c) ==
  /\ Running /\ ~masked
  /\ Modifiers(c)
  /\ \/ Operation(c) = "none" /\ UNCHANGED scr
     \/ Operation(c) = "type" /\ scr' = Prout(scr, FALSE)
     \/ Operation(c) = "enter" /\ scr' = EnterLine(scr)
     \/ Operation(c) = "clear" /\ scr' = ClearLine(scr)
     \/ /\ Operation(c) = "backspace"
        /\ \/ Backspace(scr) = scr /\ scr' = scr
           \/ Backspace(scr) # scr /\ scr' = [Backspace(scr) EXCEPT !.count = @ - 1]
           \/ Backspace(scr) # scr /\ ~OneTerminal /\ scr' = Backspace(scr)
  /\ UNCHANGED <<saved, open, current_id, curr_terminal, wpc, masked, torn>>

\* Alt-F: save the position, show terminal t with its own (the origin if it is
\* opened; its shell is executed later, by Execute).  vd_x, vd_y and count stay.
SwitchKey(c) ==
  LET t == c - 59
      pos == IF t = 0 \/ open[t] THEN saved[t] ELSE [x |-> 0, y |-> 0]
  IN /\ Running /\ ~masked
     /\ Modifiers(c)
     /\ Operation(c) = "switch"
     /\ t \in Terminals \ {Shown}
     /\ saved' = [saved EXCEPT ![Shown] = [x |-> scr.screen_x, y |-> scr.screen_y]]
     /\ scr' = ResetPosition(scr, pos.x, pos.y)
     /\ open' = [open EXCEPT ![t] = TRUE]
     /\ current_id' = t + 1
     /\ torn' = (wpc[Shown] \in InPutm \/ wpc[t] \in InPutm)
     /\ UNCHANGED <<curr_terminal, wpc, masked>>

\* Alt-F of the displayed terminal prints "already in terminal 1" into its row.
AlreadyKey(c) ==
  LET x == (scr.screen_x + Already) % Cols
  IN /\ Running /\ ~masked
     /\ Modifiers(c)
     /\ Operation(c) = "switch"
     /\ c - 59 = Shown
     /\ scr' = CopyPosition(ResetPosition(Store(scr, scr.screen_x, scr.screen_y),
                                          x, scr.screen_y), x, scr.screen_y)
     /\ UNCHANGED <<saved, open, current_id, curr_terminal, wpc, masked, torn>>

-----------------------------------------------------------------------------
(* terminal_write, by the process of terminal t *)

\* The test: putc if the terminal is displayed, putm if not.
WriteCall(t) ==
  /\ Running
  /\ curr_terminal = t /\ open[t]
  /\ wpc[t] = "none"
  /\ wpc' = [wpc EXCEPT ![t] = IF t = Shown THEN "putc" ELSE "putm"]
  /\ UNCHANGED <<flagVars, scr, saved, open, current_id, curr_terminal, masked, torn>>

\* A character of the putc loop.
WriteShown(t, newline) ==
  /\ Running
  /\ curr_terminal = t
  /\ wpc[t] = "putc"
  /\ scr' = Putc(scr, newline)
  /\ masked' = TRUE
  /\ UNCHANGED <<flagVars, saved, open, current_id, curr_terminal, wpc, torn>>

\* A character of the putm loop: putm tests for a newline and for the last row, or
\* stores the character in the page of the terminal.
WriteHidden(t, newline) ==
  /\ Running
  /\ curr_terminal = t
  /\ wpc[t] = "putm"
  /\ wpc' = [wpc EXCEPT ![t] = IF ~newline THEN "increment"
                               ELSE IF saved[t].y = Rows - 1 THEN "last" ELSE "down"]
  /\ scr' = IF newline THEN scr ELSE Store(scr, saved[t].x, saved[t].y)
  /\ UNCHANGED <<flagVars, saved, open, current_id, curr_terminal, masked, torn>>

\* Mutant: the column of a hidden terminal wraps one too late.
PutmPositionLate(p, at) ==
  CASE at = "increment" -> [p EXCEPT !.x = @ + 1]
    [] at = "wrap"      -> [p EXCEPT !.x = @ % (Cols + 1)]
    [] at = "row"       -> [p EXCEPT !.y = (@ + p.x \div Cols) % Rows]
    [] at = "down"      -> [p EXCEPT !.y = @ + 1]
    [] at = "bottom"    -> [p EXCEPT !.y = Rows - 1]
    [] at \in {"last", "home"} -> [p EXCEPT !.x = 0]

\* What a statement of putm does to the position of the terminal.
PutmPosition(p, at) ==
  CASE at = "increment" -> [p EXCEPT !.x = @ + 1]
    [] at = "wrap"      -> [p EXCEPT !.x = @ % Cols]
    [] at = "row"       -> [p EXCEPT !.y = (@ + p.x \div Cols) % Rows]
    [] at = "down"      -> [p EXCEPT !.y = @ + 1]
    [] at = "bottom"    -> [p EXCEPT !.y = Rows - 1]
    [] at \in {"last", "home"} -> [p EXCEPT !.x = 0]

\* The statement that follows; "putm" when putm returns.
PutmNext(at) ==
  CASE at = "increment" -> "wrap"
    [] at = "wrap"      -> "row"
    [] at = "last"      -> "bottom"
    [] at = "down"      -> "home"
    [] at \in {"row", "bottom", "home"} -> "putm"

\* A statement of putm.  (The scroll that follows "bottom" moves no position.)
Putm(t) ==
  /\ Running
  /\ curr_terminal = t
  /\ wpc[t] \in InPutm
  /\ saved' = [saved EXCEPT ![t] = PutmPosition(@, wpc[t])]
  /\ wpc' = [wpc EXCEPT ![t] = PutmNext(@)]
  /\ UNCHANGED <<flagVars, scr, open, current_id, curr_terminal, masked, torn>>

\* terminal_write returns; the system call restores the interrupt flag.
WriteEnd(t) ==
  /\ Running
  /\ curr_terminal = t
  /\ wpc[t] \in {"putc", "putm"}
  /\ wpc' = [wpc EXCEPT ![t] = "none"]
  /\ masked' = FALSE
  /\ UNCHANGED <<flagVars, scr, saved, open, current_id, curr_terminal, torn>>

-----------------------------------------------------------------------------
(* Processes *)

\* execute, called by a program or by a handler that opened a terminal, finds the process
\* table full and prints "Maximum Processes" with a newline, whichever terminal its caller
\* belongs to.
TableFull ==
  /\ Running /\ ~masked
  /\ scr' = PutNewline(Store(scr, scr.screen_x, scr.screen_y))
  /\ UNCHANGED <<flagVars, saved, open, current_id, curr_terminal, wpc, masked, torn>>

\* execute runs a new process on the displayed terminal.  A terminal that the processor
\* is taken from goes on later from wherever it was saved last (ContextSaved of
\* ProcessTable), and so may a parent that is returned to; where one of them leaves a
\* putm or comes back into one, the putm is split.  With one terminal each is where it
\* was.
Execute ==
  /\ Running /\ ~masked
  /\ ~OneTerminal
  /\ curr_terminal' = Shown
  /\ \/ /\ {wpc[curr_terminal], wpc[Shown]} \subseteq Loops
        /\ \E a, b \in Loops : wpc' = [wpc EXCEPT ![curr_terminal] = a, ![Shown] = b]
        /\ UNCHANGED torn
     \/ torn' = TRUE /\ UNCHANGED wpc
  /\ UNCHANGED <<flagVars, scr, saved, open, current_id, masked>>

\* The PIT: another open terminal is scheduled (which one, see ProcessTable).
Pit ==
  /\ Running /\ ~masked
  /\ curr_terminal' \in {t \in Terminals : open[t]}
  /\ UNCHANGED <<flagVars, scr, saved, open, current_id, wpc, masked, torn>>

Next ==
  \/ \E c \in KeyCodes : EditKey(c)
  \/ \E c \in KeyCodes : SwitchKey(c)
  \/ \E c \in KeyCodes : AlreadyKey(c)
  \/ \E t \in Terminals : WriteCall(t)
  \/ \E t \in Terminals, newline \in BOOLEAN : WriteShown(t, newline)
  \/ \E t \in Terminals, newline \in BOOLEAN : WriteHidden(t, newline)
  \/ \E t \in Terminals : Putm(t)
  \/ \E t \in Terminals : WriteEnd(t)
  \/ TableFull
  \/ Execute
  \/ Pit

Spec == Init /\ [][Next]_vars

-----------------------------------------------------------------------------
(* Properties *)

\* Until a second terminal is opened every character is stored on the screen,
\* and while a line is being typed the keyboard's position is that of the
\* screen, or the row below it just after the last row was filled.
SingleTerminalOnScreen ==
  OneTerminal =>
    /\ ~scr.off
    /\ scr.screen_x \in 0 .. Cols - 1 /\ scr.screen_y \in 0 .. Rows - 1
    /\ scr.count > 0 =>
         /\ scr.vd_x = scr.screen_x
         /\ scr.vd_y = scr.screen_y
              \/ (scr.vd_x = 0 /\ scr.vd_y = Rows /\ scr.screen_y = Rows - 1)

\* Whatever is switched, typed and printed, the position of a hidden terminal is on the
\* screen, so that what a background program prints stays in the terminal's page and a
\* switch restores a valid position: wherever the PIT interrupts a background putm, but
\* for the one statement before the column wraps.  So is the position of the displayed
\* terminal, even where a backspace that trusts vd_x and vd_y of another terminal stores
\* off the screen.  Not once Alt-F, or the loss of a context, splits a putm of the
\* terminal itself.
HiddenOnScreen ==
  ~torn =>
    /\ scr \in Screen
    /\ \A t \in Terminals \ {Shown} :
         /\ saved[t].x \in 0 .. Cols - 1 \/ (saved[t].x = Cols /\ wpc[t] = "wrap")
         /\ saved[t].y \in 0 .. Rows - 1

(* What the comments of the code say, and the code does not do *)

\* keyboard.c:796 "it will copy the most updated position from other file": every
\* character is stored on the screen.
StoresOnScreen == ~scr.off
=============================================================================
