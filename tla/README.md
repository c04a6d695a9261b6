# TLA+ models of the Small Linux OS kernel

The kernel in `student-distrib/` runs up to six programs on three text terminals
of one processor. Alt-F1/F2/F3 choose the terminal that is **displayed**; the PIT
(20 Hz) chooses the terminal that is **scheduled**. Almost everything that is hard
about this kernel follows from having two notions of "the current terminal", set by
two interrupt handlers, and from system calls that run with interrupts on and use
sometimes the one and sometimes the other.

The models are written from the C and assembly sources; line numbers below are
those of the files under `student-distrib/`.

## Inventory

| Component | State | Operations | Correct when |
|---|---|---|---|
| Processes (`syscall.c`) | `process_array`, PCBs (parent, arguments, `old_esp`, descriptors), `current_pcb` | `execute`, `halt`, `getargs` | every slot in use belongs to a chain of waiting parents of one terminal; the parent of a live process is live; a live PCB is not overwritten; no slot leaks |
| Scheduler (`schedule.c`) | `curr_terminal`, `next_terminal`, saved `esp`/`ebp` of each terminal | `pit_handler`, `do_switch` | no open terminal starves; frame, TSS and PCB agree; contexts are saved before another terminal runs |
| Terminals (`terminal.c`) | `terminals[3]`, `current_id` | `switch_to_terminal_1/2/3`, `terminal_read`, `terminal_write` | a switch loses no half-typed line; a read gets the line entered on its terminal; output stays on its screen |
| Keyboard (`keyboard.c`) | `keyboardbuf`, `buf_index`, `count`, `vd_x`/`vd_y`, modifier flags | `print_keyboard`, `prout`, `backspace` | every printable character can be typed; buffers do not overrun; the cursor stays on the screen |
| Screen (`lib.c`) | `screen_x`/`screen_y`, video memory | `putc`, `putm`, cursor functions, scrolling | every store is inside video memory |
| File system (`filesystem.c`) | the boot image (read only), file positions, `dir_read_loc` | `file_read`, `read_data`, `dir_read`, lookups | reads copy consecutive bytes, no more than asked for, and end |
| Descriptors (`syscall.c`) | `fd_array` of each PCB | `open`, `close`, `read`, `write` | a descriptor is used by the process that opened it |
| RTC (`rtc.c`) | `rtc_interrupt_flag`, rate | interrupt, `rtc_read`, `rtc_write` | a read returns after a tick, and does return |
| Interrupt controller (`i8259.c`) | masks of both chips | `i8259_init`, `enable_irq`, `disable_irq`, `send_eoi` | outside the handlers nothing is in service and nothing the kernel uses is masked |
| Paging (`initpaging.c`, `paging.S`) | page directory and tables, the TLB | `map_page`, `vidmap` | a program reaches its own frame and draws on its own terminal's page only |
| Entry code (`interrupthandler.S`, `idt.c`) | the IDT | system call, interrupts, exceptions | every vector leads to the handler of its line |
| Boot (`kernel.c`) | — | `entry` | the devices come up in an order that no interrupt upsets |
| Library (`lib.c`) | — | `strlen`, `strncmp`, `strncpy`, `printf`, ... | the string functions stop where a name ends |
| Kernel tests, user programs, fish | — | — | programs are the inputs of the models |

How they interact: a key press is an interrupt that changes the line buffers, the
cursor and, with Alt-F, the displayed terminal; opening a terminal calls `execute`
from inside the keyboard handler. The PIT interrupts any system call that runs with
interrupts on, saves its kernel stack in the scheduled terminal and continues another
terminal. `execute` makes the displayed terminal the scheduled one. `terminal_read`
polls, with interrupts on, a flag that the keyboard handler raises.

The hard behaviours are therefore interleavings of handlers, values that are stale
after a switch, and boundaries (full buffers, last row, end of file, last slot).
There is no persistence, no network and no crash recovery. `PROJECT.json` lists the
hazards one by one, each at its line.

## Modules

| Module | Models | Run from |
|---|---|---|
| `ProcessStacks` | abstract: one stack of processes per terminal | through `ProcessTable` |
| `ProcessTable` (instantiates `ProcessStacks`) | `execute`, `halt`, `getargs`, `pit_handler`, `do_switch`, the display switch as far as it concerns processes | `MCProcessTable` |
| `LineInput` | keyboard line buffer, terminal line buffers, the display switch, `terminal_read` | itself |
| `Keyboard` | scan codes, modifier flags, key tables | through `Console` |
| `Console` (extends `Keyboard`) | cursor positions: `prout`, `backspace`, Enter, Ctrl-L, Alt-F, `putc`, `putm`, `terminal_write` | itself |
| `Screens` | what the screen and the terminals' pages show: output, echo, the copies of Alt-F, fish and `do_switch`, `vidmap` with its one page-table entry and the TLB | itself |
| `Interrupts` | both 8259 chips, the IDT, the steps of `entry()`, what each handler owes to chip and device, the scheduler's contexts | itself |
| `FileRead` | `file_read` and the block loop of `read_data` | itself, and through `FileSystem` |
| `FileNames` | names in the directory, the search, the listing, the parsing of a command, the string functions they use | through `FileSystem` |
| `FileSystem` (extends `FileRead`, `FileNames`) | a program that opens a file by name and reads it to its end, as `cat` and `grep` do | `MCFileSystem` |
| `Rtc` | the clock's interrupt, `rtc_read`, `rtc_write` | through `Descriptors` |
| `Descriptors` (extends `Rtc`) | `open`, `close`, the dispatch of `read` and `write`, `dir_read` | itself |
| `ProcessTableProofs`, `LineInputProofs`, `FileSystemProofs`, `ConsoleProofs`, `DescriptorsProofs`, `ScreensProofs`, `InterruptsProofs` | theorems | — |
| `NatLemmas` | the least element of a set of numbers, for the loops modelled with CHOOSE | — |

**What is one action.** `print_keyboard`, `pit_handler`, `execute` and `halt` run with
interrupts off, so each is one action with everything it calls. The exception is the
`sti()` in `switch_to_terminal_2/3` before their `execute("shell")`: `OpenTerminal`
ends there, `FinishOpen` is the `execute`, and the PIT and other keys may come in
between (`cpu.opening` counts the nested windows). `terminal_read` and
`terminal_write` run with interrupts on: each test of a loop and each character is an
action of its own, and in `Console` so is each statement of `putm`. The load and the store
inside one such statement are not separated: the field belongs to the process's own
terminal, so that only an Alt-F that hides or shows it could change the field in between,
and that already ends what is modelled (`torn`). `read_data` has one action per `memcpy`. `open`, `write`, `rtc_read`
and `dir_read` have one action per access to state that another process or a handler
can change. The kernel is compiled without optimisation (`Makefile`, no `-O`), so
`dir_read_loc++` is a load and a store.

**ProcessTable.** Variables have the names of the C globals and of the fields of
`terminals[t]` and of the PCB. What a stack pointer points to is modelled, not its
value: `old_esp[p]` is the process on whose kernel stack the saved pointer lies, and a
saved context `ctx[t]` says whether a program is at its bottom and how many openings
of terminals are pending on it; `ret[p]` is the context that goes on when the `execute` of
process `p` returns, which `halt` brings about. `fresh[t]` is false when terminal `t` has
run since its context was saved. Loading such a stale context is undefined by the code: the
stack may have been reused, so `Resume` leaves both outcomes possible, and so does
`HaltReturns` for a frame on the kernel stack of another process than the parent. `Lost`
is a processor without a frame of its own (a never-saved context, a frame of no process,
the middle of the `halt` of a process that is gone, an exception handler, which never
returns); nothing is said of what follows, and the behaviour ends there, which is why the
process runs do not check deadlock. `getargs` is taken to be atomic; it reads two
words that interrupts could separate. Where it finds no PCB it faults, or reads the page
that an earlier `vidmap` has mapped at 0: all three outcomes are possible.

**ProcessStacks.** What a user of `execute` and `halt` relies on: each terminal has a
stack of processes, a process waits for the one above it, and only a top process ends.
`ProcessTable` maps its live slots, their `parent_pid` and the terminals' `current_pid`
to it (`Stacks`). A root shell that halts and is replaced in its own slot is a stuttering
step; one that halts while another terminal is displayed ends there and its successor is
pushed on the displayed terminal's stack (`Move`), because `halt` calls `execute`.

**LineInput.** `overrun` records a write beyond the end of a buffer; what it
overwrites is not modelled, so the behaviour stops there. `entered` is a history
variable: the last line entered on a terminal and neither read nor overwritten by Alt-F.
`tindex` is `terminals[t].buf_index`, which every Enter without a read makes larger; it is
bounded by `MaxIndex`. The processor is part of the model as far as a reader depends on it:
an Alt-F that opens a terminal leaves an `execute` on top of the process it interrupted
(`opening`), and `execute` takes the processor from the scheduled terminal without saving
where its process is (`stale`). The PIT then resumes that process at any point of its own,
or the processor is `lost` and the behaviour ends. `Return` is a child that halts: its
parent goes on from wherever in a read it was.

**Console.** `scr` holds the positions of `lib.c` (`screen_x`, `screen_y`) and of
`keyboard.c` (`vd_x`, `vd_y`). Characters on the screen are left out, and with them
`enter_flag`, which only decides whether Enter scrolls them; `off` records a
store outside video memory, and the behaviour ends there. `putc` disables interrupts
and does not restore them (`masked`), so a write that has printed one character is not
interrupted until the system call returns. A write to a hidden terminal (`putm`) is:
`WriteHidden` is its test and its store, `Putm` one of the statements that follow, which
`PutmPosition` and `PutmNext` list, and keys and the PIT come between any two. An Alt-F
that hides or shows the terminal of a `putm`, or an `execute` that takes its processor
away, in the middle of one splits it; `torn` records that, and nothing is modelled
behind it.

**Screens.** The contents of an area of memory are abstracted to whether it shows exactly
the output of its terminal. Output of another terminal, or own output that went
elsewhere, makes it wrong, and a copy passes right and wrong on; Ctrl-L and the opening
of a terminal begin anew. A character of `putm`, which may scroll the page, begins with
`WriteHidden` and ends with `WriteHiddenDone`; a page that is shown in between is not right
yet. An `execute` that finds the table full prints to video memory for whichever terminal
it was called (`TableFull`), and so may the `halt` of a root shell. `vid` is the one page-table entry `vidmap` sets, `tlb` a
translation the processor may still hold: an access uses either. `Unflushed` is the
terminal whose branch of `vidmap` lacks the flush. `execute` and `halt` may resume a
stale context (`ContextSaved` of `ProcessTable`), so `Taken` leaves open where in a write
the terminal goes on. `drawn`, `strayed` and `shared` are history: what the properties
exclude because the code cannot promise it. Kernel messages other than "Maximum
Processes" and "already in terminal" (those of exceptions, which stop the machine) are
left out.

**Interrupts.** The chips, the devices and the boot loader's state are external: a request
is latched, an acknowledged line is in service until its EOI and holds up lines of the
same and lower priority, and a keyboard or clock that was not read does not interrupt
again. A handler is one action up to its `sti()`; behind it nothing but the return is
left, which is why nested handlers need no stack here, except those that have opened a
terminal and have their `execute` before them (`cpu.opening`). `entry()` is a sequence of
phases between which interrupts can come, since it executes `sti()` before `i8259_init`.
Alt-F2 before `file_init` ends in a failing `execute` or in an exception; between `file_init`
and `pit_init` its shell takes the place of `entry()`. As in `ProcessTable`, `execute` makes
the context saved for the displayed terminal stale.
`Lost` is as in `ProcessTable`; an exception leads there.

**FileRead.** A byte is represented by its block and offset, so a misplaced byte
shows in `buf`. The file is read only, and a read touches its own descriptor only, so
one process suffices.

**FileNames and FileSystem.** A string is the sequence of bytes from its address on, so a
name that fills its entry runs on into the file type behind it, as in memory. `FileNames`
has no state: the directory never changes. It is checked against what each function is
for, over every directory of up to three names (`EveryListedOpens`, `EveryCommandRuns`),
in the states in which a program of `FileSystem` starts. `execute` copies the arguments
into `ArgLen` bytes without a bound; `Overrun` is what becomes of longer ones, and no
string. `chunk` is the length of the
program's reads, 0 if it changes from read to read, as in `grep`.

**Descriptors and Rtc.** Every terminal has one process, its shell; a shell that halts
while it is displayed is replaced, with a new table (`Replace`). The tables of children
are left out: nobody reaches the table of a parent while its child runs. So are `execute`
and `halt` on terminals that are not displayed, which `ProcessTable` covers. `open`,
`close` and `read` use the table of the process that runs; `write` uses that of the
displayed terminal's process, and looks it up twice, for the test of `flags`
(`WriteTest`) and for the call (`WriteCall`). A call through a null table is a page fault:
`fault` records it and the behaviour ends there. Calls that fail and return -1 change
nothing and are stuttering steps. `call[t].own`, `hz` and `ticked` are history: whether
the writer's terminal has stayed displayed since its test, the frequency last accepted,
and whether the clock has ticked since a reader raised the flag.

## Runs

| Run | Configuration | Question |
|---|---|---|
| `process_table` | 2 terminals, 4 slots | Are the process table, the address space and the PCBs consistent under every interleaving of `execute`, `halt`, the PIT and the opening of terminals, do they implement one stack per terminal, and whose arguments does `getargs` copy? |
| `line_input` | 2 terminals, buffers of 2, `MaxIndex` 4 | Do half-typed lines survive switches, do reads get the line that was entered and leave nothing behind, and does a waiting read of the displayed terminal complete? |
| `file_system` | blocks of 3, files up to 10, reads up to 11 bytes; names of 2, 3 entries, `arg` of 3 | Are the right bytes copied, none too many; does a program that reads to the end print the file, once, and end; does every listed name open its file and every command start the program it names with its arguments? |
| `descriptors` | 2 terminals, descriptors 0 to 2, 2 directory entries | Are descriptors usable whenever another process may look at them; does a clock read wait for a tick, and end; does a directory scan end; is the rate the one asked for? |
| `console` | 2 terminals, screen 2 by 2, buffers of 3 | Do positions stay on the screen, wherever `putm` is interrupted; do the key tables cover printable ASCII? |
| `interrupts` | 3 terminals | From the first `sti()` on: is any device ever blocked, are keyboard and clock served for ever, does the round robin reach every open terminal? |
| `screens` | 2 terminals, the second without a flush | Does every terminal's screen show its own output and nothing else, does a program draw on its own page, and does one see what it draws? |

Five further runs show where the code does not do what its comments say; each is
expected to end in a counterexample.

| Run | The comment | What happens |
|---|---|---|
| `context_saved` | terminal.c:72 "save previous terminal structure and restore the next terminal" | Opening a terminal calls `execute`, which makes it the scheduled one; nothing saves `esp`/`ebp` of the terminal that was running. The PIT later resumes that one from an older context. |
| `returns_to_parent` | syscall.c:406 "return the specified value to its parent process" | `execute` called by a program of a terminal that is not displayed takes the displayed terminal's process as parent and the caller's stack as the one to return to. |
| `line_overrun` | keyboard.c:24 "count how many charater in buffer" | A switch replaces `buf_index` and leaves `count`; typing tests `count` and stores at `buf_index`. |
| `file_bytes_read` | syscall.c:166 "return the number of bytes read" | A last chunk that runs past the end of the file is copied, then 0 is returned and the position goes back to 0. |
| `console_stores` | keyboard.c:796 "it will copy the most updated position from other file" | A switch restores `screen_x`/`screen_y` and leaves `vd_x`/`vd_y`; a backspace then stores in front of video memory. |

Behaviours of the code that the models contain and no property asserts:

- `halt` leaves by `return 0` on the parent's frame, so the status does not reach the
  parent (`ReturnValue`).
- `getargs` takes the size from the displayed terminal's PCB and the string from the
  PCB touched last by `execute` or `halt`: a parent whose child has halted gets the
  child's arguments (`Getargs`; `ArgsOfCaller` says when it is right).
- A line entered and not yet read is overwritten by Alt-F, and two lines entered
  before a read are laid over one another (`SwitchTerminal`, `Enter`). A half-typed line
  that was restored, shortened by backspaces and entered is read with the rest of the
  longer one behind it; `LineIntact` holds of its beginning.
- `terminal_read` tests the terminal with interrupts on and copies later; after a
  switch in between it takes the buffer of the terminal now displayed (`TestTerminal`,
  `Copy`).
- A write whose terminal is hidden or shown between the test and the characters, or that
  resumes from a stale context, prints on the other terminal's screen, or into a page
  that is overwritten (`strayed` of `Screens`). An Alt-F inside a scroll of `putm` shows the
  page half scrolled.
- `putm` increments the column and wraps it in two statements with interrupts on. An Alt-F
  that shows the terminal between them restores column 80, the one beyond the last, and one
  between its test of the last row and its increment of the row can go beyond the last row
  (`torn` of `Console`).
- "Maximum Processes" appears on the displayed screen, also when the terminal that is told
  is hidden (`TableFull`).
- Opening a terminal takes the processor from a process that waits for a line; if its
  context is stale when the PIT comes back to it, it may never read the line (`lost` of
  `LineInput`, excluded by `ReadCompletes`).
- A root shell that halts while another terminal is displayed calls `execute` there; when
  that new shell halts, control goes on in the middle of the first `halt`, which then stores
  -1 as the terminal's process (`HaltRoot`, `ret`; the behaviour ends at the return).
- `vidmap` called by a program in the background maps the displayed terminal's page, and
  a second program that calls it takes the first one's page away (`shared`). What a
  program draws is copied to the screen only if its name begins with `fish`; the flag is
  set before `execute` knows whether there is such a program, and if there is none the
  echo of every key is overwritten at the terminal's next slice until a program halts
  (`Execute`, `Pit` of `Screens`).
- `write` by a process of a hidden terminal goes to the descriptor of that number of the
  displayed terminal's process. If Alt-F, or the replacement of that process, comes
  between the test and the call, the table may be null (`WriteCall`, `fault`).
- Two processes that read the directory share `dir_read_loc`: each sees some of the
  entries, and a scan given up half-way leaves the next one to begin there (`DirLookup`,
  `DirStore`).
- Two processes that read the clock share one flag: a reader that raises it after a tick
  and before the other has seen the tick makes the other wait for the next (`RtcSet`).
- A file whose last chunk runs past the end is printed without that chunk: `PrintsFile`
  promises all of it for files read in one chunk or in whole chunks only.
- A command that begins with a space has the empty name, which matches an unused entry of
  the directory; `open` refuses that name, `execute` does not. `dir_read` writes 33 bytes
  for a name of 32. Arguments of 128 characters or more overrun the stack of `execute`
  (`Overrun`; `CommandRuns` is about those that fit).
- Between `sti()` and `i8259_init` the boot loader's vectors are those of exceptions, which
  never return (`Exception`). A key pressed before the control words are written leaves
  the keyboard with a byte nobody reads (`unseen`). Enter or Alt-F before
  `terminal_init` writes to `terminals[-1]` (`Key`). Alt-F2 between `file_init` and
  `pit_init` leaves `entry()` for good, and the PIT is never enabled (`TerminalsRun`
  excludes it).
- The PIT may schedule a terminal that is open and has no process yet (`Pit` with a
  context that was never saved).

### Bounds

Two terminals are enough for every interaction of a displayed with a scheduled
terminal; `interrupts` has three because the loop of `pit_handler` goes around more
than one neighbour only then. Four slots give two child slots: chains of three
processes on one terminal, and two terminals that compete for the last slot, so
"Maximum Processes" is reached. Buffers of two bytes hold a line that is empty,
partly filled and full; `MaxIndex` 4 lets unread lines add up beyond the buffer (the
processor can be taken away at every point of a read, so larger buffers and a second
character are out of reach; the theorems of `LineInputProofs` hold for every alphabet and
size). Files
of ten bytes in blocks of three have reads with an empty, a partial and a full first
block, up to three whole blocks, and with and without a remainder. Names of up to two
characters out of two have all cases of equality, prefix and a full entry; three entries
have a used and an unused one behind every name. An `arg` of three bytes has arguments that
are empty and that fill it. A 2 by 2 screen
has a first and last column and a first and last row, and buffers of three there make a line
that goes from one row to the next. The keys of `console` leave out the release of Alt: once
pressed it stays so, and what it adds to typing is in `console_stores`, where a terminal is
shown and then typed on. Descriptors 0 to 2 leave one to
open, so the table is empty and full; two directory entries have a first, a last and the
position behind them. Two readers of the directory can push `dir_read_loc` up without a
bound (each loads what the other has just stored), so `MaxLoc` 3 cuts it off one above
the position at which a scan ends. Frequency 3 stands for those that are refused;
`RateMatches` goes through the whole table of the others. `Interrupts` and `Screens` have
no bound but the number of terminals.

`process_table` uses a VIEW. `LiveView` leaves out `eax`, `argbuf` and the PCBs of free
slots: no guard and no property of the run reads them before they are written again (a
slot of a root shell that is free has parent -1 in either case).

Deadlock is not checked: the models end where the processor is lost, a buffer or the
screen has been overrun, or a program is done.

### Fairness

- `Interrupts`: weak fairness of the steps of `entry()` and of the handlers that open a
  terminal, which wait for nothing, and of the PIT, which is programmed once, in periodic mode; strong fairness of each handler:
  a handler takes far less than the time between two interrupts, so a line that is
  presented again and again is taken. `TerminalsRun` is about behaviours in which
  programs stop calling `execute`, since `execute` sets `curr_terminal` and a program
  that keeps calling it can hold the round robin at the displayed terminal.
- `LineInput`: weak fairness of `Pit`, strong fairness, for each terminal, of the steps of
  the loop in `terminal_read`. A time slice of 50 ms is millions of turns of the loop, so
  a step that is possible in slice after slice is taken. That a reader is given slices is not
  assumed: `execute` may take the processor from it again and again, and `ReadCompletes` is
  about what follows when the PIT's round robin and the reader's own steps are all that is
  fair. It excludes behaviours in which the processor is lost.
- `Descriptors`: weak fairness of the clock, which `rtc_init` programs periodically, and
  of the PIT; strong fairness of the steps of a read that has begun, for the reason given
  for `terminal_read`. Several readers of the clock can starve one of them, so
  `SoleRtcReaderReturns` is about one.
- `Screens`: weak fairness of `Pit`, as long as the processor is not lost.
- `FileSystem`: weak fairness of the program: it and the loop of `read_data` wait for
  nothing.

No fairness is assumed of keys or of `execute` and `halt`.

## Proofs

All theorems hold for every value of the constants, under the assumptions the modules
state: at least one terminal, no more terminals than slots; a nonempty buffer, and NUL
and newline not among the typed characters; a block size above zero; names of at least
one character, without NUL and space; a screen of at least two columns and two rows; a
descriptor table with more than the two standard descriptors. Every invariant and every
action property the runs check is a theorem. What the runs add is liveness, and that the
properties fail when the code is changed.

**ProcessTableProofs** proves `TypeOK`, `AddressSpace`, `ParentsWait`, `RootSlots`,
`NoLeak`, `TerminalProcess`, `ArgsOfCaller`, the action property `PcbStable`, and that the
process table implements the stacks (`ImplementsStacks`). None of them is
inductive alone: `halt` restores a parent from a PCB written long before, on a
terminal that need not have been displayed then. The inductive invariant says that the
live processes form one chain for each terminal that has a first process, from its root
shell to its current process, linked by `parent_pid` without branching (`ChainInv`),
and that a context with a program at its bottom belongs to a terminal whose PCB and
pid agree (`ContextInv`). The proof follows the code: `Push` (a process is added at the
end of a chain), `PopChild` and `PopRoot` (the end is removed) are lemmas about chains,
`SpawnInv`, `HaltChildInv`, `HaltRootInv` and `PitInv` apply them to the actions. For the
refinement (`StacksImplemented`) every action that changes a chain is shown to be a
`Push`, a `Pop`, a `Move` or a stuttering step of `ProcessStacks`; the chains say that the
process `halt` removes is the top one and that its parent is the one below.

**LineInputProofs** proves `TypeOK`, `IndexCovers`, `SingleTerminalFits`, `NoHoles`,
`LineIntact` and the action property `SwitchKeepsHalfTyped`. The first three need that the
displayed terminal is open (`ShownOpen`), without which a step could leave the
single-terminal case by a terminal nobody opened. The others rest on two invariants.
`LinesFull`: below its index a line has no NUL, in the keyboard buffer and in the buffers of
the terminals that are not displayed. The buffer of the displayed terminal has to be left
out: Enter lays a line over it and adds to its index, so that index says nothing about the
bytes below it until the next switch copies the keyboard buffer there. `LinesFull` also
says that a terminal nobody opened has index 0, so that a switch which opens one and
restores nothing loses no line. `EnteredStored`: the line last entered and not read lies at the start of its
terminal's buffer, below its index and without a NUL, so the scan of `terminal_read` does
not stop inside it; that it stops right behind it is `IndexCovers`.

**ScreensProofs** proves `OwnScreen` and `DrawsOwn`. `OwnScreen` follows the copies, with a
character of `putm` begun and not ended wherever the PIT comes in: it needs
that the displayed terminal is open, that only terminals given to a drawing program have
the flag or a mapping (`DrawnOnes`), and that such a program reaches its own page. For
that, `OneMapping`: while nothing is `shared`, the page-table entry is that of the one
terminal with a mapping, and a translation in the TLB agrees with it, flushed or not.

**InterruptsProofs** proves `NothingBlocked`. The invariant says what is unmasked after
each step of `entry()` (`MasksOfPhase`; the cascade pin is unmasked by `rtc_init`, not by
`enable_irq` of the clock's own line), that nothing is in service at the first `sti()`, and
that no context but that of `entry()` exists before a terminal is displayed
(`NoTerminalYet`), so
that `execute` always finds a displayed terminal. `EoiClears` is the step that matters: one
EOI, and for the slave two, undo exactly what the acknowledgement did.

**FileSystemProofs** has four parts. *The block loop*: `Bounded`, `Contiguous`,
`CompleteInside` and `PositionInside` of `FileRead`. The invariant adds that the current
block is the one that holds the position when a read begins (`AtBlock`), that after the
first copy a read that is not finished stands at the end of a block (`OnBoundary`), and how
the counters of the running read relate at each of its steps (`Call0`). *Names and
listings*: what `strlen`, `strncmp` and `strncpy` return on a directory entry, with the two
cases of a name that fills its entry (no NUL, so the string goes on into the file type) and
one that does not; from them `EveryListedOpens`. *Commands*: `EveryCommandRuns`, for all
arguments that fit in `arg`, whatever its size (`CommandWithArgs`). Both
hold for every directory, name length and alphabet. *The program*: `PrintsFile`. Its
invariant `SystemInv` relates the program to the block loop: what is printed is the file up
to the position, or up to where a result that is not yet printed begins (`PrintedUpTo`), and
if the size is one chunk or whole chunks, the rest of the file is a number of reads
(`WholeRest`), which excludes the read past the end that returns 0 with bytes copied.
`ProgramReadsCorrect` carries the properties of the block loop over to the reads of the
program.

**ConsoleProofs** proves `SingleTerminalOnScreen`, `HiddenOnScreen` and `Layout`. Between the
statements of `putm` the invariant says where the column and the row of a hidden terminal may
be at each of them (the column is `Cols` only before the wrap, and the row is not the last one
where `putm` is about to go down), which holds because nobody but an Alt-F of that terminal
writes them meanwhile. There is one
lemma for each position function (`putc`, `prout`, Enter, `backspace`, Ctrl-L), which says
that it keeps a position on the screen and the link between the two notions of it. A
position is `OnScreen` when the keyboard's row is below the last one only in column 0, where
`backspace` goes up instead of left. `Linked` is what one terminal guarantees: while a line is
being typed, `vd_x`/`vd_y` are `screen_x`/`screen_y`, or the row below. It has to be weaker for
an empty line: Enter on a full line (`prout` refuses the newline) moves the keyboard down a
row and leaves the screen's position, and the link is restored by the next character. For
`Layout` the tables are taken entry by entry; the three branches of `print_keyboard` are
shown to print one of two characters of each key (`GlyphIsPrinted`), and every key and every
printable character to be in the tables once.

**DescriptorsProofs** proves `OpenHasTable`, `StdStreams`, `WriteIsOwn`,
`RtcWaitsForTick` and `RateMatches`. `OpenHasTable` needs to know that an `open` which is about to raise
`flags` has set the table of a descriptor other than 0 and 1 (`Opening`); `WriteIsOwn`
needs `OpenHasTable` for the descriptor tested. `RtcWaitsForTick` is inductive with the
types: only a tick lowers the flag, and it ticks for every waiting reader at once.
`RateMatches` is inductive by the table of `rtc_write`, whose entries are checked one by one
against the divider (`TableMatches`).

Model-checked only: the liveness properties (`ReadCompletes`, `ProgramEnds`,
`SoleScanEnds`, `SoleRtcReaderReturns`, `DevicesServed`, `TerminalsRun`, `DrawingShown`).
Liveness under fairness is out of the prover's reach.

## Not modelled

- The contents of registers. `interrupthandler.S:10` calls the keyboard's and the clock's C
  handlers without saving `eax`, `ecx` and `edx`, which a model of registers and compiled
  code would have to show.
- The layout of the GDT, LDT, TSS and page tables, multiboot parsing, `printf` and the
  memory functions: sequential set-up or helpers that keep no state between calls.
- What an exception prints: every handler stops the machine, which is the models' `Lost`.
  The handler of the unused vectors (`general_interrupt`) sends no EOI and ends with
  `ret`; no device the kernel enables leads there.
- A command word of more than 32 characters, which overruns `file_name` on the stack of
  `execute`, and what arguments of 128 or more overwrite there: it depends on the compiler.
- The colours, the scrolling and the characters of the screen.
- The descriptor tables of child processes: a child has a fresh table, and nobody reaches
  that of a parent while its child runs.
- The kernel's tests, and the user programs beyond the read loop of `cat` and `grep`: the
  models let programs make any sequence of the system calls they model, and the programs
  in `syscalls/` and `fish/` are instances of that.

## Plan

Done: processes and scheduler with their abstract specification, line input, file reads,
names, positions and contents of the screen, descriptors and the clock, interrupts and
boot; the invariants and action properties of all of them are proved. What is left:

1. The safety side of the liveness properties: the bounds that make the loops of
   `read_data` and of a program end (a measure that every step lowers), and that a waiting
   reader is never without a step that lets it go on.
2. An atomic `read` as the abstract specification of `FileRead`, and one buffer for each
   terminal as that of `Screens`, with the refinements proved as that of `ProcessStacks` is.
3. The descriptor tables of children, which would join `ProcessTable` and `Descriptors`.
