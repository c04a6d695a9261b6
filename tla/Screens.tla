------------------------------- MODULE Screens -------------------------------
(***************************************************************************)
(* What is on the screen: video memory, the page that keeps each hidden    *)
(* terminal's screen (terminal.c), the copies between them on Alt-F, on    *)
(* the execution of fish (syscall.c) and in do_switch (schedule.c), the    *)
(* output of programs through putc and putm (lib.c), and vidmap with the   *)
(* one page-table entry it sets for everybody (syscall.c, initpaging.c).   *)
(*                                                                         *)
(* A write tests once whether its terminal is displayed.  If it is, the    *)
(* first putc turns interrupts off and the rest of the write is one step,  *)
(* but the test is not part of it; if it is not, the whole loop runs with  *)
(* interrupts on, and an interrupt may come in the middle of a character,  *)
(* which may scroll the page.                                              *)
(*                                                                         *)
(* The contents of an area are abstracted to whether it shows exactly the  *)
(* output of its terminal (that of the screen is the displayed one): an    *)
(* output that goes elsewhere, or comes from elsewhere, makes it wrong; so *)
(* does a copy of a page taken in the middle of a character.               *)
(* Where on the screen the output is, is in Console.                       *)
(***************************************************************************)
EXTENDS Integers

CONSTANTS NT,         \* number of terminals (3 in the code)
          Unflushed   \* the terminal vidmap does not flush the TLB for (the third)

ASSUME ScreensAssumption == NT \in Nat \ {0} /\ Unflushed \in Int

Terminals == 0 .. NT - 1
None == -1

\* Outside terminal_write, or at the head of one of its two loops; or in putm.
Loops == {"none", "putc", "putm"}
Branches == Loops \cup {"char"}

VARIABLES
  screen,            \* video memory shows exactly the displayed terminal's output
  page,              \* so does the page of terminal t (terminals[t].video_ptr), or it
                     \* will when the character that putm is at is finished
  synced,            \* video memory and the displayed terminal's page are the same
  fish,              \* the terminals whose flag terminals[t].fish is set
  open,              \* the open terminals
  current_id, curr_terminal,
  wpc,               \* the branch of terminal_write the process of t is in
  vid,               \* the terminal whose page the page table has at 132 MB
  tlb,               \* the terminal whose page the TLB has there
  mapped,            \* the terminals a process of which has called vidmap
  drawn,             \* history: terminals that were given to a program that draws
  strayed,           \* history: an output went astray: a write went by an outdated test,
                     \* Alt-F or the loss of a context split a character, or execute
                     \* printed its message for a hidden terminal
  shared             \* history: vidmap gave a page to a program of another terminal

pageVars == <<screen, page, synced, fish>>
termVars == <<open, current_id, curr_terminal>>
mapVars == <<vid, tlb, mapped>>
histVars == <<drawn, strayed, shared>>
vars == <<pageVars, termVars, wpc, mapVars, histVars>>

Shown == current_id - 1

TypeOK ==
  /\ screen \in BOOLEAN
  /\ page \in [Terminals -> BOOLEAN]
  /\ synced \in BOOLEAN
  /\ fish \subseteq Terminals
  /\ open \subseteq Terminals
  /\ current_id \in 1 .. NT
  /\ curr_terminal \in Terminals
  /\ wpc \in [Terminals -> Branches]
  /\ vid \in Terminals \cup {None}
  /\ tlb \in Terminals \cup {None}
  /\ mapped \subseteq Terminals
  /\ drawn \subseteq Terminals
  /\ strayed \in BOOLEAN
  /\ shared \in BOOLEAN

\* After terminal_init: the pages have not been written.
Init ==
  /\ screen = TRUE
  /\ page = [t \in Terminals |-> FALSE]
  /\ synced = FALSE
  /\ fish = {}
  /\ open = {0}
  /\ current_id = 1
  /\ curr_terminal = 0
  /\ wpc = [t \in Terminals |-> "none"]
  /\ vid = None
  /\ tlb = None
  /\ mapped = {}
  /\ drawn = {}
  /\ strayed = FALSE
  /\ shared = FALSE

\* Terminal t has an output, which goes to video memory.
ToScreen(t) ==
  /\ screen' = (screen /\ t = Shown)
  /\ page' = [page EXCEPT ![t] = FALSE]
  /\ synced' = FALSE

\* Terminal t has an output, which goes to its page.
ToPage(t) ==
  /\ screen' = (screen /\ t # Shown)
  /\ page' = page
  /\ synced' = (synced /\ t # Shown)

-----------------------------------------------------------------------------
(* Writes and keys *)

\* terminal_write tests whether the terminal is displayed.
WriteCall(t) ==
  /\ curr_terminal = t
  /\ wpc[t] = "none"
  /\ wpc' = [wpc EXCEPT ![t] = IF t = Shown THEN "putc" ELSE "putm"]
  /\ UNCHANGED <<pageVars, termVars, mapVars, histVars>>

\* Its putc loop: interrupts are off from the first character to the return.
WriteShown(t) ==
  /\ curr_terminal = t
  /\ wpc[t] = "putc"
  /\ ToScreen(t)
  /\ wpc' = [wpc EXCEPT ![t] = "none"]
  /\ strayed' = (strayed \/ t # Shown)
  /\ UNCHANGED <<fish, termVars, mapVars, drawn, shared>>

\* A character of its putm loop, to the page of the scheduled terminal: putm begins
\* to store it, or to scroll the page.
WriteHidden(t) ==
  /\ curr_terminal = t
  /\ wpc[t] = "putm"
  /\ ToPage(t)
  /\ wpc' = [wpc EXCEPT ![t] = "char"]
  /\ strayed' = (strayed \/ t = Shown)
  /\ UNCHANGED <<fish, termVars, mapVars, drawn, shared>>

\* putm returns.
WriteHiddenDone(t) ==
  /\ curr_terminal = t
  /\ wpc[t] = "char"
  /\ wpc' = [wpc EXCEPT ![t] = "putm"]
  /\ UNCHANGED <<pageVars, termVars, mapVars, histVars>>

\* It returns.
WriteEnd(t) ==
  /\ curr_terminal = t
  /\ wpc[t] \in {"putc", "putm"}
  /\ wpc' = [wpc EXCEPT ![t] = "none"]
  /\ UNCHANGED <<pageVars, termVars, mapVars, histVars>>

\* The keyboard handler echoes a key, or says that the terminal is displayed already.
Echo ==
  /\ ToScreen(Shown)
  /\ UNCHANGED <<fish, termVars, wpc, mapVars, histVars>>

\* Ctrl-L: the displayed terminal begins anew.
ClearScreen ==
  /\ screen' = TRUE
  /\ page' = [page EXCEPT ![Shown] = FALSE]
  /\ synced' = FALSE
  /\ UNCHANGED <<fish, termVars, wpc, mapVars, histVars>>

\* A terminal is restored when it is open, and terminal 1 always.
Restores(t) == t = 0 \/ t \in open

\* Mutant: the screen of the terminal that is left is not saved.
SwitchTerminalNoSave(t) ==
  /\ t # Shown
  /\ page' = [page EXCEPT ![t] = @ /\ Restores(t)]
  /\ screen' = IF Restores(t) THEN page[t] /\ wpc[t] # "char" ELSE TRUE
  /\ synced' = Restores(t)
  /\ open' = open \cup {t}
  /\ current_id' = t + 1
  /\ strayed' = (strayed \/ wpc[Shown] = "char" \/ wpc[t] = "char")
  /\ UNCHANGED <<fish, curr_terminal, wpc, mapVars, drawn, shared>>

\* Alt-F: the screen goes to the page of the terminal that is left, and comes from
\* the page of the other one, or is cleared when that is opened (its shell is
\* executed later, by Execute).
SwitchTerminal(t) ==
  /\ t # Shown
  /\ page' = [u \in Terminals |-> IF u = Shown THEN screen ELSE page[u] /\ (u # t \/ Restores(t))]
  /\ screen' = IF Restores(t) THEN page[t] /\ wpc[t] # "char" ELSE TRUE
  /\ synced' = Restores(t)
  /\ open' = open \cup {t}
  /\ current_id' = t + 1
  /\ strayed' = (strayed \/ wpc[Shown] = "char" \/ wpc[t] = "char")
  /\ UNCHANGED <<fish, curr_terminal, wpc, mapVars, drawn, shared>>

-----------------------------------------------------------------------------
(* Programs that draw *)

\* The processor goes to the displayed terminal's new process.  A terminal it is
\* taken from goes on later from wherever it was saved last (ContextSaved of
\* ProcessTable), and so may a parent that it returns to; where one of them leaves a
\* character or comes back into one, the character is split.
Taken ==
  /\ curr_terminal' = Shown
  /\ \E a, b \in Branches :
       /\ wpc' = [wpc EXCEPT ![curr_terminal] = a, ![Shown] = b]
       /\ strayed' = (strayed \/ "char" \in {a, b, wpc[curr_terminal], wpc[Shown]})

\* "Maximum Processes": execute prints to video memory, whichever terminal its caller
\* belongs to.
TableFull ==
  /\ screen' = (screen /\ curr_terminal = Shown)
  /\ synced' = FALSE
  /\ strayed' = (strayed \/ curr_terminal # Shown)
  /\ UNCHANGED <<curr_terminal, wpc>>

\* execute, called by the scheduled terminal's process or to open a terminal.  A
\* command that begins with "fish" makes the page a copy of the screen and sets the
\* flag, whether or not there is such a program and room for it; only if there is, it
\* runs.
Execute ==
  \E isFish \in BOOLEAN, outcome \in {"missing", "full", "runs"} :
    LET copied == IF isFish THEN [page EXCEPT ![Shown] = screen] ELSE page
    IN /\ page' = IF outcome = "full" THEN [copied EXCEPT ![curr_terminal] = FALSE] ELSE copied
       /\ IF isFish THEN fish' = fish \cup {Shown} /\ drawn' = drawn \cup {Shown}
                    ELSE UNCHANGED <<fish, drawn>>
       /\ \/ /\ outcome = "missing"
             /\ UNCHANGED <<screen, curr_terminal, wpc, tlb, strayed>>
             /\ synced' = (synced \/ isFish)
          \/ /\ outcome = "full"
             /\ TableFull
             /\ UNCHANGED tlb
          \/ /\ outcome = "runs"
             /\ Taken
             /\ tlb' = None
             /\ UNCHANGED screen
             /\ synced' = (synced \/ isFish)
       /\ UNCHANGED <<open, current_id, vid, mapped, shared>>

\* halt: the scheduled terminal is no longer a fish terminal.  The parent, or a new
\* shell on the displayed terminal, goes on; for a root shell on a hidden terminal the
\* table may be full.
Halt ==
  LET t == curr_terminal
  IN /\ wpc[t] = "none"
     /\ fish' = fish \ {t}
     /\ mapped' \in {mapped, mapped \ {t}}
     /\ tlb' = None
     /\ \/ Taken /\ UNCHANGED <<screen, page, synced>>
        \/ UNCHANGED <<screen, page, synced, curr_terminal, wpc, strayed>>
        \/ /\ t # Shown
           /\ TableFull
           /\ page' = [page EXCEPT ![t] = FALSE]
     /\ UNCHANGED <<open, current_id, vid, drawn, shared>>

\* vidmap flushes the TLB for all terminals but one.
Flushes(d) == d # Unflushed

\* Mutant: the entry is set to the page of the first terminal, whichever it is for.
EntryFirst(d) == 0

\* The page that vidmap maps when terminal d is displayed.
Entry(d) == d

\* vidmap, by the scheduled terminal's process: the one entry at 132 MB is set to
\* the page of the DISPLAYED terminal.
Vidmap ==
  LET t == curr_terminal
  IN /\ wpc[t] = "none"
     /\ vid' = Entry(Shown)
     /\ tlb' = IF Flushes(Shown) THEN None ELSE tlb
     /\ mapped' = mapped \cup {t}
     /\ drawn' = drawn \cup {t}
     /\ shared' = (shared \/ t # Shown \/ mapped \ {t} # {})
     /\ UNCHANGED <<pageVars, termVars, wpc, strayed>>

\* The pages a program may reach at 132 MB: a translation in the TLB is used until
\* it is flushed or replaced.
Reached == {vid} \cup ({tlb} \ {None})

\* The scheduled terminal's process draws.
Draw ==
  LET t == curr_terminal
  IN /\ wpc[t] = "none"
     /\ t \in mapped
     /\ \E u \in Reached :
          /\ page' = [page EXCEPT ![u] = @ /\ u = t]
          /\ screen' = (screen /\ t # Shown)
          /\ synced' = (synced /\ u # Shown)
          /\ tlb' = u
     /\ UNCHANGED <<fish, termVars, wpc, vid, mapped, histVars>>

-----------------------------------------------------------------------------
(* The PIT *)

\* Mutant: do_switch shows no drawing.
CopiesNever == FALSE

\* do_switch shows what a fish terminal has drawn in its slice.
Copies == curr_terminal = Shown /\ curr_terminal \in fish

OpenAhead == {i \in 1 .. NT - 1 : (curr_terminal + i) % NT \in open}

Pit ==
  /\ IF Copies THEN screen' = page[Shown] /\ synced' = TRUE
               ELSE UNCHANGED <<screen, synced>>
  /\ curr_terminal' =
       IF OpenAhead = {} THEN curr_terminal
       ELSE (curr_terminal + (CHOOSE i \in OpenAhead : \A j \in OpenAhead : i <= j)) % NT
  /\ tlb' = None
  /\ UNCHANGED <<page, fish, open, current_id, wpc, vid, mapped, histVars>>

-----------------------------------------------------------------------------
Next ==
  \/ \E t \in Terminals : WriteCall(t) \/ WriteShown(t) \/ WriteHidden(t)
                           \/ WriteHiddenDone(t) \/ WriteEnd(t)
  \/ Echo
  \/ ClearScreen
  \/ \E t \in Terminals : SwitchTerminal(t)
  \/ Execute
  \/ Halt
  \/ Vidmap
  \/ Draw
  \/ Pit

Spec == Init /\ [][Next]_vars

\* The PIT ticks for ever.
FairSpec == Spec /\ WF_vars(Pit)

-----------------------------------------------------------------------------
(* Properties *)

\* Whether one sees the output of terminal t, now or when it is displayed again.
View(t) == IF t = Shown THEN screen ELSE page[t]

\* The screen of a terminal shows all of its own output and nothing else, however
\* often it is hidden and shown, whoever writes and draws in the background, and
\* wherever the PIT interrupts a write: until an output goes astray, or vidmap is
\* called in the background or by two terminals.  A terminal that ran a drawing program
\* is not held to it.
OwnScreen ==
  ~strayed /\ ~shared => \A t \in open \ drawn : View(t)

\* A program that draws reaches its own terminal's page only, although there is one
\* mapping for all, and although the TLB is not flushed for terminal 3.
DrawsOwn ==
  ~shared /\ curr_terminal \in mapped => Reached = {curr_terminal}

\* A fish terminal that stays displayed shows what was drawn, again and again, as long
\* as the processor is not lost in another context (see Interrupts).
DrawingShown ==
  \A t \in Terminals :
    <>[](current_id = t + 1 /\ t \in fish) => []<>synced
=============================================================================
