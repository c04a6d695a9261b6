------------------------------ MODULE LineInput ------------------------------
(***************************************************************************)
(* From key presses to lines: the keyboard buffer (keyboard.c), the line   *)
(* buffer and read flag of each terminal, the display switch that saves    *)
(* and restores half-typed lines, and terminal_read (terminal.c).          *)
(*                                                                         *)
(* The keyboard handler runs with interrupts off, so what it does for one  *)
(* key is one action.  terminal_read runs with interrupts on until it      *)
(* leaves its waiting loop, so the two tests of the loop and the copy are  *)
(* separate steps: the keyboard and the PIT may come between them.         *)
(*                                                                         *)
(* Opening a terminal executes a shell from inside the key handler, with   *)
(* interrupts on again, and execute takes the processor from the terminal  *)
(* that had it without saving where its process is (ContextSaved of        *)
(* ProcessTable).  When the PIT comes back to such a terminal, its process *)
(* goes on from an older point of its own, or the processor is lost.       *)
(*                                                                         *)
(* kbbuf only carries keyboardbuf from the key handler to the switch       *)
(* function it calls, and is folded into the switch.                       *)
(***************************************************************************)
EXTENDS Integers, Sequences

CONSTANTS NT,        \* number of terminals (3 in the code)
          BufSize,   \* bufsize and buf_size (128 in the code)
          Chars,     \* characters a key can produce
          MaxIndex   \* bound on terminals[t].buf_index, which unread lines grow

ASSUME SizesAssumption == NT \in Nat \ {0} /\ BufSize \in Nat \ {0} /\ MaxIndex \in Nat

Terminals == 0 .. NT - 1
Positions == 0 .. BufSize - 1
NUL == "NUL"
NL == "NL"

ASSUME CharsAssumption == NUL \notin Chars /\ NL \notin Chars

Bytes == Chars \cup {NL, NUL}
Buffers == [Positions -> Bytes]
Empty == [i \in Positions |-> NUL]

\* At the two tests of the loop of terminal_read and behind it; or outside.
Waiting == {"flag", "term", "copy"}
Points == Waiting \cup {"run"}

VARIABLES
  keyboardbuf, buf_index, count,   \* the line being typed on the displayed terminal
  tbuf, tindex,                    \* terminals[t].buf and terminals[t].buf_index
  read_flag, open,                 \* terminals[t].read_flag and terminals[t].open
  current_id,                      \* displayed terminal, 1-based
  curr_terminal,                   \* scheduled terminal, 0-based
  rpc,                             \* where the process of terminal t is in terminal_read,
                                   \* "none" before it has one
  opening,                         \* the terminals whose process an opening is on top of
  stale,                           \* the terminals that would not go on where they were
  lost,                            \* the processor went on from no context at all
  overrun,                         \* a buffer was written beyond its end
  entered                          \* history: the last line entered on t, until it is read
                                   \* or Alt-F overwrites it

keyVars == <<keyboardbuf, buf_index, count>>
termVars == <<tbuf, tindex, read_flag, open>>
procVars == <<rpc, opening, stale, lost>>
vars == <<keyVars, termVars, current_id, curr_terminal, procVars, overrun, entered>>

Shown == current_id - 1

TypeOK ==
  /\ keyboardbuf \in Buffers
  /\ buf_index \in Nat
  /\ count \in 0 .. BufSize
  /\ tbuf \in [Terminals -> Buffers]
  /\ tindex \in [Terminals -> Nat]
  /\ read_flag \in [Terminals -> BOOLEAN]
  /\ open \in [Terminals -> BOOLEAN]
  /\ current_id \in 1 .. NT
  /\ curr_terminal \in Terminals
  /\ rpc \in [Terminals -> Points \cup {"none"}]
  /\ opening \subseteq Terminals
  /\ stale \subseteq Terminals
  /\ lost \in BOOLEAN
  /\ overrun \in BOOLEAN
  /\ entered \in [Terminals -> Seq(Bytes)]

Init ==
  /\ keyboardbuf = Empty
  /\ buf_index = 0
  /\ count = 0
  /\ tbuf = [t \in Terminals |-> Empty]
  /\ tindex = [t \in Terminals |-> 0]
  /\ read_flag = [t \in Terminals |-> FALSE]
  /\ open = [t \in Terminals |-> t = 0]
  /\ current_id = 1
  /\ curr_terminal = 0
  /\ rpc = [t \in Terminals |-> IF t = 0 THEN "run" ELSE "none"]
  /\ opening = {}
  /\ stale = {}
  /\ lost = FALSE
  /\ overrun = FALSE
  /\ entered = [t \in Terminals |-> <<>>]

\* The first n bytes of buffer b, as a sequence.
Prefix(b, n) == [i \in 1 .. n |-> b[i - 1]]

\* Buffer b with its first n bytes replaced by those of c.
Overlay(b, c, n) == [i \in Positions |-> IF i < n THEN c[i] ELSE b[i]]

-----------------------------------------------------------------------------
(* Keys *)

\* Mutant: no test for a full line.
AcceptsAlways == TRUE

\* prout: does the key get into the buffer?  The test is on count, the store on
\* buf_index.
Accepts == count # BufSize

\* keyboardbuf after prout(c).
Stored(c) ==
  IF Accepts /\ buf_index < BufSize
  THEN [keyboardbuf EXCEPT ![buf_index] = c] ELSE keyboardbuf

\* buf_index after prout.
Advanced == IF Accepts THEN buf_index + 1 ELSE buf_index

\* A key with a character.
Type(c) ==
  /\ ~overrun /\ ~lost
  /\ Advanced <= MaxIndex
  /\ keyboardbuf' = Stored(c)
  /\ buf_index' = Advanced
  /\ count' = IF Accepts THEN count + 1 ELSE count
  /\ UNCHANGED <<termVars, current_id, curr_terminal, procVars, overrun, entered>>

\* Mutant: backspace wipes the byte and leaves buf_index.
BackspaceKeepsIndex ==
  /\ ~overrun /\ ~lost
  /\ count > 0 /\ buf_index > 0
  /\ count' = count - 1
  /\ keyboardbuf' = IF buf_index <= BufSize
                    THEN [keyboardbuf EXCEPT ![buf_index - 1] = NUL] ELSE keyboardbuf
  /\ overrun' = (buf_index > BufSize)
  /\ UNCHANGED <<buf_index, termVars, current_id, curr_terminal, procVars, entered>>

\* Backspace.  (At the screen's origin the handler returns and nothing happens.)
Backspace ==
  /\ ~overrun /\ ~lost
  /\ count > 0 /\ buf_index > 0
  /\ count' = count - 1
  /\ buf_index' = buf_index - 1
  /\ keyboardbuf' = IF buf_index <= BufSize
                    THEN [keyboardbuf EXCEPT ![buf_index - 1] = NUL] ELSE keyboardbuf
  /\ overrun' = (buf_index > BufSize)
  /\ UNCHANGED <<termVars, current_id, curr_terminal, procVars, entered>>

\* Mutant: copy_to_teminal copies the bytes and does not count them.
EnterNoIndex ==
  /\ ~overrun /\ ~lost
  /\ Advanced <= BufSize
  /\ read_flag' = [read_flag EXCEPT ![Shown] = TRUE]
  /\ tbuf' = [tbuf EXCEPT ![Shown] = Overlay(@, Stored(NL), Advanced)]
  /\ entered' = [entered EXCEPT ![Shown] = Prefix(Stored(NL), Advanced)]
  /\ keyboardbuf' = Empty
  /\ buf_index' = 0
  /\ count' = 0
  /\ UNCHANGED <<tindex, overrun, open, current_id, curr_terminal, procVars>>

\* Mutant: a new line starts with the count of the old one.
EnterKeepsCount ==
  /\ ~overrun /\ ~lost
  /\ Advanced <= BufSize /\ tindex[Shown] + Advanced <= MaxIndex
  /\ read_flag' = [read_flag EXCEPT ![Shown] = TRUE]
  /\ tbuf' = [tbuf EXCEPT ![Shown] = Overlay(@, Stored(NL), Advanced)]
  /\ entered' = [entered EXCEPT ![Shown] = Prefix(Stored(NL), Advanced)]
  /\ tindex' = [tindex EXCEPT ![Shown] = @ + Advanced]
  /\ keyboardbuf' = Empty
  /\ buf_index' = 0
  /\ UNCHANGED <<count, overrun, open, current_id, curr_terminal, procVars>>

\* Enter: append the newline, copy the line over the terminal's buffer
\* (copy_to_teminal), raise its read flag and start a new line.
Enter ==
  /\ ~overrun /\ ~lost
  /\ tindex[Shown] + Advanced <= MaxIndex
  /\ read_flag' = [read_flag EXCEPT ![Shown] = TRUE]
  /\ IF Advanced <= BufSize
     THEN /\ tbuf' = [tbuf EXCEPT ![Shown] = Overlay(@, Stored(NL), Advanced)]
          /\ entered' = [entered EXCEPT ![Shown] = Prefix(Stored(NL), Advanced)]
          /\ UNCHANGED overrun
     ELSE /\ overrun' = TRUE
          /\ UNCHANGED <<tbuf, entered>>
  /\ tindex' = [tindex EXCEPT ![Shown] = @ + Advanced]
  /\ keyboardbuf' = Empty
  /\ buf_index' = 0
  /\ count' = 0
  /\ UNCHANGED <<open, current_id, curr_terminal, procVars>>

\* Ctrl-L: forget the line, but leave its bytes in the buffer.
ClearScreen ==
  /\ ~overrun /\ ~lost
  /\ count' = 0
  /\ buf_index' = 0
  /\ UNCHANGED <<keyboardbuf, termVars, current_id, curr_terminal, procVars, overrun, entered>>

\* Mutant: the restored line starts at index 0, as in a terminal just opened.
SwitchTerminalNoIndex(t) ==
  LET saved == [tbuf EXCEPT ![Shown] = Overlay(Empty, keyboardbuf, buf_index)]
      index == [tindex EXCEPT ![Shown] = buf_index]
  IN /\ ~overrun /\ ~lost
     /\ t # Shown
     /\ tindex' = index
     /\ buf_index <= BufSize /\ tbuf' = saved
     /\ keyboardbuf' = IF t = 0 \/ open[t] THEN Overlay(Empty, tbuf[t], index[t]) ELSE Empty
     /\ buf_index' = 0
     /\ open' = [open EXCEPT ![t] = TRUE]
     /\ current_id' = t + 1
     /\ entered' = [entered EXCEPT ![Shown] = <<>>]
     /\ opening' = IF t = 0 \/ open[t] THEN opening ELSE opening \cup {curr_terminal}
     /\ UNCHANGED <<count, read_flag, curr_terminal, rpc, stale, lost, overrun>>

\* Alt-F: save the half-typed line in the terminal that is left, over a line
\* that was entered there and not read; then show the other one with its saved
\* line, or with an empty one when it is opened.  count stays as it is.  An opening
\* goes on to execute a shell, on top of the process that was interrupted.
SwitchTerminal(t) ==
  LET saved == [tbuf EXCEPT ![Shown] = Overlay(Empty, keyboardbuf, buf_index)]
      index == [tindex EXCEPT ![Shown] = buf_index]
      restores == t = 0 \/ open[t]
  IN /\ ~overrun /\ ~lost
     /\ t # Shown
     /\ tindex' = index
     /\ IF buf_index <= BufSize
        THEN tbuf' = saved /\ UNCHANGED overrun
        ELSE overrun' = TRUE /\ UNCHANGED tbuf
     /\ keyboardbuf' = IF restores THEN Overlay(Empty, tbuf[t], index[t]) ELSE Empty
     /\ buf_index' = IF restores THEN index[t] ELSE 0
     /\ open' = [open EXCEPT ![t] = TRUE]
     /\ current_id' = t + 1
     /\ entered' = [entered EXCEPT ![Shown] = <<>>]
     /\ opening' = IF restores THEN opening ELSE opening \cup {curr_terminal}
     /\ UNCHANGED <<count, read_flag, curr_terminal, rpc, stale, lost>>

-----------------------------------------------------------------------------
(* terminal_read, by the process of terminal t *)

\* The process calls terminal_read and gets to the loop.
ReadCall(t) ==
  /\ ~overrun /\ ~lost
  /\ curr_terminal = t /\ open[t] /\ t \notin opening
  /\ rpc[t] = "run"
  /\ rpc' = [rpc EXCEPT ![t] = "flag"]
  /\ UNCHANGED <<keyVars, termVars, current_id, curr_terminal, opening, stale, lost,
                 overrun, entered>>

\* First test of the loop: the read flag of the displayed terminal is up.
TestFlag(t) ==
  /\ ~overrun /\ ~lost
  /\ curr_terminal = t /\ t \notin opening
  /\ rpc[t] = "flag"
  /\ read_flag[Shown]
  /\ rpc' = [rpc EXCEPT ![t] = "term"]
  /\ UNCHANGED <<keyVars, termVars, current_id, curr_terminal, opening, stale, lost,
                 overrun, entered>>

\* Mutant: the 0-based terminal is compared with the 1-based id.
TestTerminalOneBased(t) ==
  /\ ~overrun /\ ~lost
  /\ curr_terminal = t /\ t \notin opening
  /\ rpc[t] = "term"
  /\ rpc' = [rpc EXCEPT ![t] = IF curr_terminal = current_id THEN "copy" ELSE "flag"]
  /\ UNCHANGED <<keyVars, termVars, current_id, curr_terminal, opening, stale, lost,
                 overrun, entered>>

\* Second test: the scheduled terminal is the displayed one; else loop.
TestTerminal(t) ==
  /\ ~overrun /\ ~lost
  /\ curr_terminal = t /\ t \notin opening
  /\ rpc[t] = "term"
  /\ rpc' = [rpc EXCEPT ![t] = IF curr_terminal = Shown THEN "copy" ELSE "flag"]
  /\ UNCHANGED <<keyVars, termVars, current_id, curr_terminal, opening, stale, lost,
                 overrun, entered>>

\* What the scan for a NUL finds behind a full buffer: the low byte of the
\* field that follows it, buf_index.
Spill(index) == IF index % 256 = 0 THEN <<>> ELSE <<"JUNK">>

\* The bytes up to the first NUL, which terminal_read copies to the program.
Line(b, index) ==
  LET ends == {i \in Positions : b[i] = NUL}
  IN IF ends = {} THEN Prefix(b, BufSize) \o Spill(index)
     ELSE Prefix(b, CHOOSE i \in ends : \A j \in ends : i <= j)

\* Mutant: clear_buf stops one byte early.
WipedTooShort(b, index) == Overlay(b, Empty, index - 1)

\* clear_buf: the first index bytes are wiped.
Wiped(b, index) == Overlay(b, Empty, index)

\* After cli(): hand over the line, wipe the buffer and lower the flag, all of
\* the terminal that is displayed by now.
Copy(t) ==
  /\ ~overrun /\ ~lost
  /\ curr_terminal = t /\ t \notin opening
  /\ rpc[t] = "copy"
  /\ tbuf' = [tbuf EXCEPT ![Shown] = Wiped(@, tindex[Shown])]
  /\ tindex' = [tindex EXCEPT ![Shown] = 0]
  /\ read_flag' = [read_flag EXCEPT ![Shown] = FALSE]
  /\ entered' = [entered EXCEPT ![Shown] = <<>>]
  /\ rpc' = [rpc EXCEPT ![t] = "run"]
  /\ UNCHANGED <<keyVars, open, current_id, curr_terminal, opening, stale, lost, overrun>>

-----------------------------------------------------------------------------
(* Processes *)

\* execute, by an opening on top of the process of terminal t, or by that process (a
\* command of the shell, a root shell that halts): the new process is the displayed
\* terminal's, and t is left as it is.  For an opening it may fail, if the display was
\* switched again and the table is full.
Execute(t) ==
  /\ ~overrun /\ ~lost
  /\ curr_terminal = t
  /\ t \in opening \/ rpc[t] = "run"
  /\ opening' = opening \ {t}
  /\ \/ /\ curr_terminal' = Shown
        /\ rpc' = [rpc EXCEPT ![Shown] = "run"]
        /\ stale' = IF t = Shown THEN stale ELSE (stale \cup {t}) \ {Shown}
     \/ UNCHANGED <<curr_terminal, rpc, stale>>
  /\ UNCHANGED <<keyVars, termVars, current_id, lost, overrun, entered>>

\* A process halts that was executed on top of another one: that goes on, from wherever
\* in a read it was.  (If there is another opening on top of it, its execute is one of a
\* process that does not read.)
Return(t) ==
  /\ ~overrun /\ ~lost
  /\ curr_terminal = t /\ t \notin opening
  /\ rpc[t] = "run"
  /\ \E u \in Terminals \ {0} : open[u]
  /\ rpc' \in {[rpc EXCEPT ![t] = p] : p \in Waiting}
  /\ UNCHANGED <<keyVars, termVars, current_id, curr_terminal, opening, stale, lost,
                 overrun, entered>>

\* The PIT: the next open terminal after the scheduled one, if any.  It goes on where it
\* was, unless its context is stale or it has none yet.
OpenAhead == {i \in 1 .. NT - 1 : open[(curr_terminal + i) % NT]}
Ahead == (curr_terminal + (CHOOSE i \in OpenAhead : \A j \in OpenAhead : i <= j)) % NT

Pit ==
  /\ ~overrun /\ ~lost
  /\ OpenAhead # {}
  /\ curr_terminal' = Ahead
  /\ stale' = stale \ {Ahead}
  /\ \/ /\ Ahead \notin stale /\ rpc[Ahead] # "none"
        /\ UNCHANGED <<rpc, opening, lost>>
     \/ /\ Ahead \in stale
        /\ rpc' \in {[rpc EXCEPT ![Ahead] = p] : p \in Points}
        /\ opening' = opening \ {Ahead}
        /\ UNCHANGED lost
     \/ /\ Ahead \in stale \/ rpc[Ahead] = "none"
        /\ lost' = TRUE
        /\ UNCHANGED <<rpc, opening>>
  /\ UNCHANGED <<keyVars, termVars, current_id, overrun, entered>>

Next ==
  \/ \E c \in Chars : Type(c)
  \/ Backspace
  \/ Enter
  \/ ClearScreen
  \/ \E t \in Terminals : SwitchTerminal(t)
  \/ \E t \in Terminals : ReadCall(t)
  \/ \E t \in Terminals : TestFlag(t)
  \/ \E t \in Terminals : TestTerminal(t)
  \/ \E t \in Terminals : Copy(t)
  \/ \E t \in Terminals : Execute(t)
  \/ \E t \in Terminals : Return(t)
  \/ Pit

Spec == Init /\ [][Next]_vars

\* A step of the process of terminal t that waits in terminal_read, or of the opening on
\* top of it.
ReadStep(t) == TestFlag(t) \/ TestTerminal(t) \/ Copy(t) \/ (t \in opening /\ Execute(t))

\* The PIT ticks for ever, and a time slice (50 ms) is long enough for a process
\* that waits in terminal_read to test its condition, so a process that could
\* take a step of the loop in slice after slice takes one of them.  That a process is
\* given slices at all is not assumed: execute may take the processor from it.
FairSpec ==
  /\ Spec
  /\ WF_vars(Pit)
  /\ \A t \in Terminals : SF_vars(ReadStep(t))

-----------------------------------------------------------------------------
(* Properties *)

\* The half-typed line of terminal t: in the keyboard buffer while t is
\* displayed, in the terminal's own buffer while it is not.
HalfTyped(t) ==
  LET Fit(n) == IF n <= BufSize THEN n ELSE BufSize
  IN IF t = Shown THEN Prefix(keyboardbuf, Fit(buf_index))
     ELSE Prefix(tbuf[t], Fit(tindex[t]))

\* Alt-F loses nothing that is half typed, on any terminal, and mixes no two
\* lines, however often the display is switched.
SwitchKeepsHalfTyped ==
  [][\A t, u \in Terminals : SwitchTerminal(t) /\ ~overrun' =>
       HalfTyped(u)' = HalfTyped(u)]_vars

\* A half-typed line has no NUL in it: terminal_read, which scans for a NUL,
\* and Enter, which counts, mean the same line.
NoHoles ==
  ~overrun => \A t \in Terminals : \A i \in 1 .. Len(HalfTyped(t)) :
                HalfTyped(t)[i] # NUL

\* Every byte in a terminal's buffer lies below its buf_index, so the clear_buf
\* of a read leaves nothing behind for the next line, although buf_index is
\* only ever added to by Enter and overwritten by Alt-F.
IndexCovers ==
  \A t \in Terminals : \A i \in Positions : tbuf[t][i] # NUL => i < tindex[t]

\* Until a second terminal is opened, count is the length of the line, so
\* typing cannot run past the end of the buffer.
SingleTerminalFits ==
  (\A t \in Terminals : open[t] => t = 0) =>
    count = buf_index /\ buf_index <= BufSize /\ ~overrun

\* On every terminal, what terminal_read would hand over starts with the line
\* that was entered last, whole, after any typing, backspacing, clearing,
\* overfilling, unread lines and switching of the display before Enter; and it is
\* that line, with nothing stale behind it, when the line is shorter than the buffer
\* and the buffer was clean before it (it was read, or there was none).  (Alt-F after
\* Enter overwrites a line that was not read, and ends it.)
LineIntact ==
  \A t \in Terminals :
    LET line == Line(tbuf[t], tindex[t])
        n == Len(entered[t])
    IN /\ n <= Len(line) /\ SubSeq(line, 1, n) = entered[t]
       /\ tindex[t] = n /\ n < BufSize => line = entered[t]

\* No process waits in terminal_read for ever while its terminal is displayed
\* and has a line for it, although openings take the processor from it in between:
\* unless the processor is lost.
ReadCompletes ==
  \A t \in Terminals :
    ~ <>[](/\ rpc[t] \in Waiting /\ current_id = t + 1
           /\ read_flag[t] /\ open[t] /\ ~overrun /\ ~lost)

(* What the comments of the code say, and the code does not do *)

\* keyboard.c:24 "count how many charater in buffer": with the test on count, the
\* buffers are never written beyond their end.
NoOverrun == ~overrun
=============================================================================
