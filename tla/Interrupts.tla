----------------------------- MODULE Interrupts -----------------------------
(***************************************************************************)
(* Interrupts: the two 8259 chips and their masks (i8259.c), the vectors   *)
(* (idt.c), the entry points (interrupthandler.S), what the keyboard, RTC  *)
(* and PIT handlers owe to the chips and to their devices, and the order   *)
(* in which entry() (kernel.c) brings them up with interrupts on.          *)
(*                                                                         *)
(* A handler runs with interrupts off up to its sti(), so it is one        *)
(* action; behind the sti() nothing but the return is left, and the        *)
(* context it returns to stands for that too.  What the handlers do to     *)
(* lines, screens and processes is in LineInput, Screens and ProcessTable. *)
(* Here a terminal has a saved context, and a context may have handlers in *)
(* it that opened a terminal, enabled interrupts and have not reached      *)
(* their execute("shell").                                                 *)
(*                                                                         *)
(* The chips, the devices and the boot loader are external: requests are   *)
(* latched, a line is acknowledged by the processor and served until its   *)
(* EOI, and it holds up the lines of its own and of lower priority.        *)
(***************************************************************************)
EXTENDS Integers

CONSTANT NT          \* number of terminals (3 in the code)

ASSUME NTAssumption == NT \in Nat \ {0}

Terminals == 0 .. NT - 1

PitLine == 0
KeyLine == 1
Cascade == 2         \* RTC_slaveirq: the master's pin for the slave
RtcLine == 8         \* RTC_masterirq
PortNum == 8         \* PORT_NUM: lines of one chip
Lines == {PitLine, KeyLine, RtcLine}

VARIABLES
  phase,                     \* what entry() does next
  if_flag,                   \* the processor takes interrupts
  master_mask, slave_mask,   \* pins that are masked, of each chip
  irr,                       \* lines that request service
  isr,                       \* lines in service, Cascade for the slave's
  key,                       \* the keyboard has a byte that was not read
  regC,                      \* the RTC waits for register C to be read
  open, current_id,          \* terminals[t].open and the displayed terminal, 1-based
  curr_terminal,             \* the scheduled terminal, 0-based
  ctx,                       \* the context saved in terminals[t]
  unseen,                    \* history: a byte waited when the chips were initialised
  cpu                        \* the context the processor is executing

chipVars == <<master_mask, slave_mask, irr, isr>>
deviceVars == <<key, regC>>
termVars == <<open, current_id, curr_terminal, ctx>>
vars == <<phase, if_flag, chipVars, deviceVars, termVars, unseen, cpu>>

Phases == {"sti", "icw", "mask", "keyboard", "rtc", "terminal", "pit", "execute"}

\* bottom: a program, entry(), or nothing to return to; opening: the handlers
\* above it that have still to execute a shell.
Context == [bottom : {"program", "entry", "lost"}, opening : Nat]
User == [bottom |-> "program", opening |-> 0]
Boot == [bottom |-> "entry", opening |-> 0]
Lost == [bottom |-> "lost", opening |-> 0]

TypeOK ==
  /\ phase \in Phases
  /\ if_flag \in BOOLEAN
  /\ master_mask \subseteq 0 .. PortNum - 1
  /\ slave_mask \subseteq 0 .. PortNum - 1
  /\ irr \subseteq Lines
  /\ isr \subseteq Lines \cup {Cascade}
  /\ key \in BOOLEAN
  /\ regC \in BOOLEAN
  /\ open \in [Terminals -> BOOLEAN]
  /\ current_id \in 0 .. NT
  /\ curr_terminal \in Terminals
  /\ ctx \in [Terminals -> [saved : Context, fresh : BOOLEAN]]
  /\ unseen \in BOOLEAN
  /\ cpu \in Context

\* entry() has set up the descriptor tables and is about to enable interrupts.
Init ==
  /\ phase = "sti"
  /\ if_flag = FALSE
  /\ master_mask = {} /\ slave_mask = {}
  /\ irr = {} /\ isr = {}
  /\ key = FALSE /\ regC = FALSE
  /\ open = [t \in Terminals |-> FALSE]
  /\ current_id = 0
  /\ curr_terminal = 0
  /\ ctx = [t \in Terminals |-> [saved |-> Lost, fresh |-> FALSE]]
  /\ unseen = FALSE
  /\ cpu = Boot

-----------------------------------------------------------------------------
(* The chips *)

\* The vector of a line: ICW2 gives the first one of each chip.
Vector(l) == IF l < PortNum THEN 32 + l ELSE 40 + (l - PortNum)

\* The vectors the boot loader left: line l of the master is at 8 + l.
LoaderVector(l) == 8 + l

\* The entry of the IDT for vector v; a few of the first 32 are left without one.
Handler(v) ==
  CASE v \in 0 .. 19 \ {15} -> "exception"
    [] v = 32 -> "pit"
    [] v = 33 -> "keyboard"
    [] v = 40 -> "rtc"
    [] v = 128 -> "syscall"
    [] v \in {15} \cup 20 .. 31 -> "none"
    [] OTHER -> "general"

\* enable_irq: for a line of the slave, 1 << irq_num is beyond the master's eight
\* bits, so the master's pin for the slave has to be enabled by a call of its own.
UnmaskedBy(masks, l) ==
  IF l < PortNum THEN [masks EXCEPT !.master = @ \ {l}]
  ELSE [masks EXCEPT !.slave = @ \ {l - PortNum}]

\* disable_irq.
MaskedBy(masks, l) ==
  IF l < PortNum THEN [masks EXCEPT !.master = @ \cup {l}]
  ELSE [masks EXCEPT !.slave = @ \cup {l - PortNum}]

Masks == [master |-> master_mask, slave |-> slave_mask]
SetMasks(m) == master_mask' = m.master /\ slave_mask' = m.slave

\* Mutant: no EOI for the master when the slave has served.
AfterEoiSlaveOnly(s, l) == s \ {l}

\* send_eoi: an EOI for a line of the slave is one for the cascade too.
AfterEoi(s, l) == s \ (IF l >= PortNum THEN {l, Cascade} ELSE {l})

\* The master's pin of a line; a smaller pin has priority.
Pin(l) == IF l < PortNum THEN l ELSE Cascade

Unmasked(l) ==
  /\ Pin(l) \notin master_mask
  /\ l >= PortNum => l - PortNum \notin slave_mask

\* The chips present line l to the processor: it requests, is not masked, and no
\* line with its priority or a higher one is in service or requests as well.
Presented(l) ==
  LET Ready(m) == m \in irr /\ Unmasked(m) /\ \A s \in isr : Pin(m) < Pin(s)
  IN Ready(l) /\ \A m \in Lines : Ready(m) => Pin(l) <= Pin(m)

\* The processor takes line l and finds handler h behind its vector.
Takes(l, h) ==
  /\ cpu # Lost /\ if_flag
  /\ phase \notin {"sti", "icw"}
  /\ Presented(l)
  /\ Handler(Vector(l)) = h
  /\ irr' = irr \ {l}

\* What is in service once line l is acknowledged.
Acknowledged(l) == isr \cup {l, Pin(l)}

-----------------------------------------------------------------------------
(* entry() *)

\* A step of entry(), which runs when no handler is above it.
BootStep(from, to) == cpu = Boot /\ phase = from /\ phase' = to

Sti ==
  /\ BootStep("sti", "icw")
  /\ if_flag' = TRUE
  /\ UNCHANGED <<chipVars, deviceVars, termVars, unseen, cpu>>

\* i8259_init, the control words: they set the vectors, clear all masks and forget
\* the requests.  A device that has raised its line before does not do so again.
Icw ==
  /\ BootStep("icw", "mask")
  /\ master_mask' = {} /\ slave_mask' = {}
  /\ irr' = {} /\ isr' = {}
  /\ unseen' = key
  /\ UNCHANGED <<if_flag, deviceVars, termVars, cpu>>

\* i8259_init, its end: all lines are masked.
MaskAll ==
  /\ BootStep("mask", "keyboard")
  /\ master_mask' = 0 .. PortNum - 1 /\ slave_mask' = 0 .. PortNum - 1
  /\ UNCHANGED <<if_flag, irr, isr, deviceVars, termVars, unseen, cpu>>

IniKeyboard ==
  /\ BootStep("keyboard", "rtc")
  /\ SetMasks(UnmaskedBy(Masks, KeyLine))
  /\ UNCHANGED <<if_flag, irr, isr, deviceVars, termVars, unseen, cpu>>

\* rtc_init: with interrupts off, mask the clock and the cascade, start the clock,
\* unmask both, read register C; then interrupts are on.
RtcInit ==
  /\ BootStep("rtc", "terminal")
  /\ LET masked == MaskedBy(MaskedBy(Masks, RtcLine), Cascade)
     IN SetMasks(UnmaskedBy(UnmaskedBy(masked, Cascade), RtcLine))
  /\ regC' = FALSE
  /\ if_flag' = TRUE
  /\ UNCHANGED <<irr, isr, key, termVars, unseen, cpu>>

TerminalInit ==
  /\ BootStep("terminal", "pit")
  /\ open' = [t \in Terminals |-> t = 0]
  /\ current_id' = 1
  /\ UNCHANGED <<if_flag, chipVars, deviceVars, curr_terminal, ctx, unseen, cpu>>

PitInit ==
  /\ BootStep("pit", "execute")
  /\ SetMasks(UnmaskedBy(Masks, PitLine))
  /\ curr_terminal' = 0
  /\ UNCHANGED <<if_flag, irr, isr, deviceVars, open, current_id, ctx, unseen, cpu>>

-----------------------------------------------------------------------------
(* The devices *)

\* The PIT, which the BIOS has started, and pit_init sets to 20 Hz.
PitTick ==
  /\ PitLine \notin irr
  /\ irr' = irr \cup {PitLine}
  /\ UNCHANGED <<phase, unseen, if_flag, master_mask, slave_mask, isr,
                 deviceVars, termVars, cpu>>

\* The keyboard has a byte, and no other until that one is read.
KeyPress ==
  /\ ~key
  /\ key' = TRUE
  /\ irr' = irr \cup {KeyLine}
  /\ UNCHANGED <<phase, unseen, if_flag, master_mask, slave_mask, isr,
                 regC, termVars, cpu>>

\* The clock, which rtc_init has started, ticks, and does not interrupt again until
\* register C is read.
RtcTick ==
  /\ phase \in {"terminal", "pit", "execute"}
  /\ ~regC
  /\ regC' = TRUE
  /\ irr' = irr \cup {RtcLine}
  /\ UNCHANGED <<phase, unseen, if_flag, master_mask, slave_mask, isr,
                 key, termVars, cpu>>

-----------------------------------------------------------------------------
(* The handlers *)

\* Mutant: the handler does not read register C.
RtcInterruptNoC ==
  \E l \in Lines :
    /\ Takes(l, "rtc")
    /\ isr' = AfterEoi(Acknowledged(l), RtcLine)
    /\ if_flag' = TRUE
    /\ UNCHANGED <<phase, unseen, master_mask, slave_mask, key, regC, termVars, cpu>>

\* rtc_handle_interrupt.
RtcInterrupt ==
  \E l \in Lines :
    /\ Takes(l, "rtc")
    /\ regC' = FALSE
    /\ isr' = AfterEoi(Acknowledged(l), RtcLine)
    /\ if_flag' = TRUE
    /\ UNCHANGED <<phase, unseen, master_mask, slave_mask, key, termVars, cpu>>

\* print_keyboard reads the byte and acknowledges the interrupt.
KeyTaken ==
  \E l \in Lines :
    /\ Takes(l, "keyboard")
    /\ key' = FALSE
    /\ isr' = AfterEoi(Acknowledged(l), KeyLine)
    /\ if_flag' = TRUE
    /\ UNCHANGED <<phase, unseen, master_mask, slave_mask, regC>>

\* A key that concerns no other module than LineInput, or Alt-F of the displayed
\* terminal.  Before terminal_init no terminal is displayed: Enter and Alt-F then
\* write to terminals[-1], in front of the array, which may or may not do harm.
Key ==
  /\ KeyTaken
  /\ \/ UNCHANGED cpu
     \/ current_id = 0 /\ cpu' = Lost
  /\ UNCHANGED termVars

\* Alt-F of an open terminal (the first is taken to be).
Show(t) ==
  /\ KeyTaken
  /\ current_id # t + 1
  /\ t = 0 \/ open[t]
  /\ current_id' = t + 1
  /\ UNCHANGED <<open, curr_terminal, ctx, cpu>>

\* Alt-F of a terminal that is not open: a second EOI, and interrupts are on with
\* execute("shell") still to come.  Before pit_init it is entry() that is interrupted.
Open(t) ==
  /\ KeyTaken
  /\ current_id # t + 1
  /\ t # 0 /\ ~open[t]
  /\ open' = [open EXCEPT ![t] = TRUE]
  /\ current_id' = t + 1
  /\ cpu' = [cpu EXCEPT !.opening = @ + 1]
  /\ UNCHANGED <<curr_terminal, ctx>>

\* Mutant: the loop stops one terminal early.
OpenAheadShort == {i \in 1 .. NT - 2 : open[(curr_terminal + i) % NT]}

\* Terminals the loop of pit_handler finds open, by their distance.
OpenAhead == {i \in 1 .. NT - 1 : open[(curr_terminal + i) % NT]}

\* The terminal to run next; when the loop finds none, next_terminal is still the
\* scheduled one.
NextTerminal ==
  IF OpenAhead = {} THEN curr_terminal
  ELSE (curr_terminal + (CHOOSE i \in OpenAhead : \A j \in OpenAhead : i <= j)) % NT

\* pit_handler and do_switch: the EOI comes before the switch, which may leave the
\* handler for good.  A context that was not saved since its terminal ran last may
\* have been overwritten.
PitInterrupt ==
  LET n == NextTerminal
      all == [ctx EXCEPT ![curr_terminal] = [saved |-> cpu, fresh |-> TRUE]]
  IN \E l \in Lines :
       /\ Takes(l, "pit")
       /\ isr' = AfterEoi(Acknowledged(l), PitLine)
       /\ if_flag' = TRUE
       /\ curr_terminal' = n
       /\ ctx' = [all EXCEPT ![n].fresh = FALSE]
       /\ cpu' \in IF all[n].fresh THEN {all[n].saved} ELSE {all[n].saved, Lost}
       /\ UNCHANGED <<phase, unseen, master_mask, slave_mask, deviceVars,
                       open, current_id>>

\* Exceptions: a program faults; a terminal is opened before file_init, so execute
\* looks for the shell at address 0; or the PIT or the keyboard interrupts between
\* sti() and i8259_init, where the boot loader's vectors are those of exceptions.
Exception ==
  /\ \/ cpu = User
     \/ cpu.opening > 0 /\ phase \in {"mask", "rtc", "terminal"}
     \/ phase = "icw" /\ cpu = Boot
        /\ \E l \in irr : l < PortNum /\ Handler(LoaderVector(l)) = "exception"
  /\ if_flag' = FALSE
  /\ cpu' = Lost
  /\ UNCHANGED <<phase, unseen, chipVars, deviceVars, termVars>>

-----------------------------------------------------------------------------
(* execute and halt *)

\* execute sets IF in the flags it gives to the program.
EnterProgram == if_flag' = TRUE

\* execute succeeds, called by a program, by a handler that opened a terminal (if
\* entry() has come to file_init), by entry(), or by halt for a root shell: the
\* displayed terminal is scheduled, and a context saved for it is stale.
Execute ==
  /\ \/ cpu = User
     \/ cpu.opening > 0 /\ phase \in {"terminal", "pit", "execute"}
     \/ cpu = Boot /\ phase = "execute"
  /\ EnterProgram
  /\ curr_terminal' = current_id - 1
  /\ ctx' = [ctx EXCEPT ![current_id - 1].fresh = FALSE]
  /\ cpu' = User
  /\ UNCHANGED <<phase, unseen, chipVars, deviceVars, open, current_id>>

\* There is no slot for the shell of a terminal that was being opened, or no file
\* system yet: execute returns, and so does the handler.
ExecuteFails ==
  /\ cpu.opening > 0
  /\ cpu' = [cpu EXCEPT !.opening = @ - 1]
  /\ if_flag' = TRUE
  /\ UNCHANGED <<phase, unseen, chipVars, deviceVars, termVars>>

-----------------------------------------------------------------------------
Entry == Sti \/ Icw \/ MaskAll \/ IniKeyboard \/ RtcInit \/ TerminalInit \/ PitInit

Next ==
  \/ Entry
  \/ PitTick \/ KeyPress \/ RtcTick
  \/ RtcInterrupt \/ PitInterrupt \/ Key
  \/ \E t \in Terminals : Show(t) \/ Open(t)
  \/ Exception
  \/ Execute \/ ExecuteFails

Spec == Init /\ [][Next]_vars

\* entry() and the handlers that open a terminal go on when they can, and the PIT
\* ticks for ever.  A handler takes far less than the time between two interrupts,
\* so each line that is presented again and again is taken.
FinishOpen == cpu.opening > 0 /\ (Execute \/ ExecuteFails)

KeyInterrupt == Key \/ \E t \in Terminals : Show(t) \/ Open(t)

FairSpec ==
  /\ Spec
  /\ WF_vars(Entry) /\ WF_vars(FinishOpen) /\ WF_vars(PitTick)
  /\ SF_vars(PitInterrupt) /\ SF_vars(KeyInterrupt) /\ SF_vars(RtcInterrupt)

-----------------------------------------------------------------------------
(* Properties *)

\* Outside the handlers nothing holds up a device: interrupts are on, no line is
\* in service, and once entry() is done none of the three is masked, whichever way
\* the processor left its handlers: by iret, by do_switch into another terminal,
\* or by the execute of a terminal that was opened.
NothingBlocked ==
  cpu # Lost =>
    /\ phase # "sti" => if_flag /\ isr = {}
    /\ phase = "execute" => \A l \in Lines : Unmasked(l)

\* The keyboard's bytes and the clock's ticks are taken, again and again: neither
\* device is left waiting for a handler, except a keyboard that had a byte when
\* the chips were initialised and has not been read since.
DevicesServed ==
  \/ <>[](cpu = Lost)
  \/ []<>(~key \/ unseen) /\ []<>~regC

\* Each open terminal is scheduled again and again once programs stop calling
\* execute (which sets curr_terminal and so can hold the round robin at the
\* displayed terminal), unless the processor is lost or the scheduler was never
\* started: a terminal that is opened between file_init and pit_init takes entry()'s
\* place.
TerminalsRun ==
  \/ <>[](cpu = Lost)
  \/ <>[](phase \in {"terminal", "pit"})
  \/ []<><<Execute>>_vars
  \/ \A t \in Terminals : <>[]open[t] => []<>(curr_terminal = t)
=============================================================================
