---------------------------- MODULE ProcessTable ----------------------------
(***************************************************************************)
(* Processes, terminals and the scheduler: execute, halt and getargs       *)
(* (syscall.c), pit_handler and do_switch (schedule.c) and the part of     *)
(* switch_to_terminal_1/2/3 (terminal.c) that opens or shows a terminal.   *)
(*                                                                         *)
(* The kernel keeps two notions of a current terminal.  The DISPLAYED one  *)
(* (current_id, 1-based, set by Alt-F1/F2/F3) and the SCHEDULED one        *)
(* (curr_terminal, 0-based, set by the PIT and by execute).  execute acts  *)
(* on the displayed terminal, halt on the scheduled one.                   *)
(*                                                                         *)
(* execute, halt, the PIT handler and the display switch run with          *)
(* interrupts off, so each is one action.  The exception is the window     *)
(* that switch_to_terminal_2/3 open with sti() before they call execute:   *)
(* there the PIT and the keyboard may come in between.  The kernel's       *)
(* entry(), which runs with interrupts on until it executes the first      *)
(* shell, is in such a window too: it is where Init starts.                *)
(***************************************************************************)
EXTENDS Integers

CONSTANTS NT,       \* number of terminals (3 in the code)
          NSlots,   \* length of process_array, max_processes (6 in the code)
          Args,     \* argument strings a command line may carry
          Status    \* values a program may pass to halt

ASSUME SizesAssumption == NT \in Nat \ {0} /\ NSlots \in Nat /\ NT <= NSlots
ASSUME StatusAssumption == Status \subseteq 0..255

Terminals == 0 .. NT - 1
Slots == 0 .. NSlots - 1
ChildSlots == NT .. NSlots - 1        \* slots 0..NT-1 are the root shells
None == -1                            \* parent_pid of a root; "no process"
Pids == Slots \cup {None}
NoArg == "no argument"                \* arg_size = 0

ASSUME ArgsAssumption == NoArg \notin Args

VARIABLES
  \* terminals[t], the fields of init_terminal that concern processes
  open, first_process, current_pid, cur_pcb,
  ctx,            \* the context current_esp/current_ebp point to
  fresh,          \* FALSE once terminal t has run since that context was saved
  \* process_array and the PCBs
  process_array, parent_pid, pcb_arg,
  old_esp,        \* the process on whose kernel stack the PCB's old_esp lies
  ret,            \* the context that goes on there when the execute returns
  \* globals
  current_pcb, curr_terminal, next_terminal, current_id,
  \* machine state
  user_page,      \* process whose frame is mapped at 128 MB
  esp0,           \* process whose kernel stack the TSS names
  eax,            \* result of the last execute or getargs returned to a program
  argbuf,         \* what the last successful getargs copied out
  cpu             \* the context the processor is executing

terminalVars == <<open, first_process, current_pid, cur_pcb, ctx, fresh>>
pcbVars == <<process_array, parent_pid, pcb_arg, old_esp, ret>>
globalVars == <<current_pcb, curr_terminal, next_terminal, current_id>>
machineVars == <<user_page, esp0, eax, argbuf, cpu>>
vars == <<terminalVars, pcbVars, globalVars, machineVars>>

\* A context: whether a program is at its bottom, and how many handlers above it
\* have enabled interrupts and not yet reached their execute("shell").
Context == [program : BOOLEAN, opening : Nat]
User == [program |-> TRUE, opening |-> 0]
Boot == [program |-> FALSE, opening |-> 1]   \* entry(), no program below it
Lost == [program |-> FALSE, opening |-> 0]   \* no frame left that is its own

\* The displayed terminal as an index: get_terminal_id() - 1.
Shown == current_id - 1

TypeOK ==
  /\ open \in [Terminals -> BOOLEAN]
  /\ first_process \in [Terminals -> BOOLEAN]
  /\ current_pid \in [Terminals -> Pids]
  /\ cur_pcb \in [Terminals -> Pids]
  /\ ctx \in [Terminals -> Context]
  /\ fresh \in [Terminals -> BOOLEAN]
  /\ process_array \in [Slots -> BOOLEAN]
  /\ parent_pid \in [Slots -> Pids]
  /\ pcb_arg \in [Slots -> Args \cup {NoArg}]
  /\ old_esp \in [Slots -> Pids]
  /\ ret \in [Slots -> Context]
  /\ current_pcb \in Pids
  /\ curr_terminal \in Terminals
  /\ next_terminal \in Terminals
  /\ current_id \in 1 .. NT
  /\ user_page \in Pids
  /\ esp0 \in Pids
  /\ eax \in {-1, 0}
  /\ argbuf \in Args \cup {NoArg}
  /\ cpu \in Context

\* The state entry() has built when it reaches execute("shell"): terminal_init
\* has opened terminal 0, the fields it does not set are zero (BSS).
Init ==
  /\ open = [t \in Terminals |-> t = 0]
  /\ first_process = [t \in Terminals |-> FALSE]
  /\ current_pid = [t \in Terminals |-> 0]
  /\ cur_pcb = [t \in Terminals |-> None]
  /\ ctx = [t \in Terminals |-> Lost]
  /\ fresh = [t \in Terminals |-> FALSE]
  /\ process_array = [p \in Slots |-> FALSE]
  /\ parent_pid = [p \in Slots |-> None]
  /\ pcb_arg = [p \in Slots |-> NoArg]
  /\ old_esp = [p \in Slots |-> None]
  /\ ret = [p \in Slots |-> Lost]
  /\ current_pcb = None
  /\ curr_terminal = 0
  /\ next_terminal = 0
  /\ current_id = 1
  /\ user_page = None
  /\ esp0 = None
  /\ eax = 0
  /\ argbuf = NoArg
  /\ cpu = Boot

-----------------------------------------------------------------------------
(* execute *)

\* Mutant: the search for a slot does not look at process_array.
FreeChildrenUnchecked(pa) == ChildSlots

\* Child slots that are free in the process array pa.
FreeChildren(pa) == {i \in ChildSlots : ~pa[i]}

\* execute does not return "Maximum Processes" on terminal d.
HasRoom(pa, fp, d) == ~fp[d] \/ FreeChildren(pa) # {}

\* The slot execute gives to a new process of terminal d.
Slot(pa, fp, d) ==
  IF ~fp[d] THEN d
  ELSE CHOOSE i \in FreeChildren(pa) : \A j \in FreeChildren(pa) : i <= j

\* The context without the handler that calls execute.
Returned(c) == [c EXCEPT !.opening = @ - 1]

\* execute after its checks, on the displayed terminal, called with the
\* process array pa and the first_process flags fp: take a slot, map its frame,
\* fill the PCB, make it the terminal's process, iret to the program.  What goes on
\* when it returns is the context back.  The context saved for the terminal, if
\* any, is stale from here on.
Spawn(pa, fp, arg, back) ==
  LET d == Shown
      p == Slot(pa, fp, d)
  IN /\ process_array' = [pa EXCEPT ![p] = TRUE]
     /\ user_page' = p
     /\ current_pcb' = p
     /\ pcb_arg' = [pcb_arg EXCEPT ![p] = arg]
     /\ cur_pcb' = [cur_pcb EXCEPT ![d] = p]
     /\ parent_pid' = [parent_pid EXCEPT ![p] =
                         IF fp[d] THEN current_pid[d] ELSE None]
     /\ first_process' = [fp EXCEPT ![d] = TRUE]
     /\ current_pid' = [current_pid EXCEPT ![d] = p]
     /\ curr_terminal' = d
     /\ old_esp' = [old_esp EXCEPT ![p] = esp0]
     /\ ret' = [ret EXCEPT ![p] = back]
     /\ esp0' = p
     /\ cpu' = User
     /\ fresh' = [fresh EXCEPT ![d] = FALSE]
     /\ UNCHANGED <<open, ctx, next_terminal, current_id, eax, argbuf>>

\* A program calls execute with the name of an executable file.
Execute(arg) ==
  /\ cpu = User
  /\ HasRoom(process_array, first_process, Shown)
  /\ Spawn(process_array, first_process, arg, User)

\* A program calls execute and gets -1: no such file, not an executable, or no
\* free slot.  Nothing else changes.
ExecuteFails ==
  /\ cpu = User
  /\ eax' = -1
  /\ UNCHANGED <<terminalVars, pcbVars, globalVars, user_page, esp0, argbuf, cpu>>

\* The code that opened the window reaches its execute("shell").  When no slot
\* is left execute returns and so does the handler (entry() then stops).
FinishOpen ==
  /\ cpu.opening > 0
  /\ \/ /\ HasRoom(process_array, first_process, Shown)
        /\ Spawn(process_array, first_process, NoArg, Returned(cpu))
     \/ /\ ~HasRoom(process_array, first_process, Shown)
        /\ cpu' = Returned(cpu)
        /\ UNCHANGED <<terminalVars, pcbVars, globalVars,
                       user_page, esp0, eax, argbuf>>

-----------------------------------------------------------------------------
(* halt *)

\* Mutant: halt does not free the slot.
AfterHaltNotFreed == process_array

\* The process that halt ends, and the process array without it.
Halting == cur_pcb[curr_terminal]
AfterHalt == [process_array EXCEPT ![Halting] = FALSE]

\* The value execute returns in the parent: halt leaves by "return 0" on the
\* parent's frame, so the status it was given does not reach eax.
ReturnValue(status) == 0

\* What goes on when halt returns from the execute of process p.  On the kernel
\* stack of another process than p's parent, which ran on meanwhile, the frame may
\* have been overwritten.
HaltReturns(p) ==
  IF old_esp[p] = parent_pid[p] THEN {ret[p]} ELSE {ret[p], Lost}

\* Mutant: halt forgets to map the parent's frame.
HaltChildNoRemap(status) ==
  LET parent == parent_pid[Halting]
  IN /\ cpu = User
     /\ parent # None
     /\ current_pcb' = Halting
     /\ process_array' = AfterHalt
     /\ esp0' = parent
     /\ cur_pcb' = [cur_pcb EXCEPT ![curr_terminal] = parent]
     /\ current_pid' = [current_pid EXCEPT ![curr_terminal] = parent]
     /\ eax' = ReturnValue(status)
     /\ cpu' \in HaltReturns(Halting)
     /\ UNCHANGED <<open, first_process, ctx, fresh, parent_pid, pcb_arg, old_esp,
                    ret, curr_terminal, next_terminal, current_id, argbuf, user_page>>

\* Mutant: halt restores the terminal's PCB but not its current_pid.
HaltChildKeepsPid(status) ==
  LET parent == parent_pid[Halting]
  IN /\ cpu = User
     /\ parent # None
     /\ current_pcb' = Halting
     /\ process_array' = AfterHalt
     /\ user_page' = parent
     /\ esp0' = parent
     /\ cur_pcb' = [cur_pcb EXCEPT ![curr_terminal] = parent]
     /\ eax' = ReturnValue(status)
     /\ cpu' \in HaltReturns(Halting)
     /\ UNCHANGED <<open, first_process, ctx, fresh, parent_pid, pcb_arg, old_esp,
                    ret, curr_terminal, next_terminal, current_id, argbuf, current_pid>>

\* halt of a child: remap the parent, make it current again, return from its
\* execute.
HaltChild(status) ==
  LET parent == parent_pid[Halting]
  IN /\ cpu = User
     /\ parent # None
     /\ current_pcb' = Halting
     /\ process_array' = AfterHalt
     /\ user_page' = parent
     /\ esp0' = parent
     /\ cur_pcb' = [cur_pcb EXCEPT ![curr_terminal] = parent]
     /\ current_pid' = [current_pid EXCEPT ![curr_terminal] = parent]
     /\ eax' = ReturnValue(status)
     /\ cpu' \in HaltReturns(Halting)
     /\ UNCHANGED <<open, first_process, ctx, fresh, parent_pid, pcb_arg, old_esp,
                    ret, curr_terminal, next_terminal, current_id, argbuf>>

\* Mutant: halt of a root shell leaves first_process set.
HaltRootKeepsFlag ==
  /\ cpu = User
  /\ parent_pid[Halting] = None
  /\ HasRoom(AfterHalt, first_process, Shown)
  /\ Spawn(AfterHalt, first_process, NoArg, Lost)

\* halt of a root shell: execute a new shell (on the displayed terminal).  If
\* that execute fails, halt goes on with parent -1: it maps frame -1, which is
\* the kernel's own 4 MB, and jumps to a frame that belongs to no process.  If it
\* succeeds, a return from it would go on in the middle of this halt, on the
\* kernel stack of a process that is gone.
HaltRoot ==
  LET fp == [first_process EXCEPT ![curr_terminal] = FALSE]
  IN /\ cpu = User
     /\ parent_pid[Halting] = None
     /\ \/ /\ HasRoom(AfterHalt, fp, Shown)
           /\ Spawn(AfterHalt, fp, NoArg, Lost)
        \/ /\ ~HasRoom(AfterHalt, fp, Shown)
           /\ current_pcb' = Halting
           /\ process_array' = AfterHalt
           /\ first_process' = fp
           /\ user_page' = None
           /\ esp0' = None
           /\ cur_pcb' = [cur_pcb EXCEPT ![curr_terminal] = None]
           /\ current_pid' = [current_pid EXCEPT ![curr_terminal] = None]
           /\ cpu' = Lost
           /\ UNCHANGED <<open, ctx, fresh, parent_pid, pcb_arg, old_esp, ret,
                          curr_terminal, next_terminal, current_id, eax, argbuf>>

-----------------------------------------------------------------------------
(* getargs *)

\* getargs looks at the displayed terminal's PCB for the size and copies the
\* string of the last PCB that execute or halt touched.  A displayed terminal
\* that is still being opened has no PCB: the access faults, and the exception
\* handlers never return; or, when some program has called vidmap, it reads the
\* page mapped at 0, whatever that holds.
Getargs ==
  /\ cpu = User
  /\ \/ /\ cur_pcb[Shown] = None
        /\ cpu' = Lost
        /\ UNCHANGED <<eax, argbuf>>
     \/ /\ cur_pcb[Shown] # None => pcb_arg[cur_pcb[Shown]] = NoArg
        /\ eax' = -1
        /\ UNCHANGED <<argbuf, cpu>>
     \/ /\ cur_pcb[Shown] # None => pcb_arg[cur_pcb[Shown]] # NoArg
        /\ eax' = 0
        /\ argbuf' = pcb_arg[current_pcb]
        /\ UNCHANGED cpu
  /\ UNCHANGED <<terminalVars, pcbVars, globalVars, user_page, esp0>>

-----------------------------------------------------------------------------
(* pit_handler and do_switch *)

\* Terminals the handler's loop finds open, by their distance from the
\* scheduled one.
OpenAhead == {i \in 1 .. NT - 1 : open[(curr_terminal + i) % NT]}

\* The terminal to run next: the first open one, or the previous choice when
\* the loop finds none.
NextTerminal ==
  IF OpenAhead = {} THEN next_terminal
  ELSE LET i == CHOOSE i \in OpenAhead : \A j \in OpenAhead : i <= j
       IN (curr_terminal + i) % NT

\* What becomes of the processor when it loads the context c saved for a
\* terminal: one never saved (esp = 0) is Lost; the stack under a stale one has
\* been reused, so the context may or may not still be there.
Resume(c, isFresh) == IF isFresh THEN {c} ELSE {c, Lost}

\* A PIT interrupt: choose, save the running context in the scheduled
\* terminal, remap, set the TSS, load the next terminal's context.
Pit ==
  LET n == NextTerminal
      saved == [ctx EXCEPT ![curr_terminal] = cpu]
      isFresh == [fresh EXCEPT ![curr_terminal] = TRUE]
  IN /\ cpu # Lost
     /\ next_terminal' = n
     /\ ctx' = saved
     /\ user_page' = current_pid[n]
     /\ esp0' = current_pid[n]
     /\ curr_terminal' = n
     /\ cpu' \in Resume(saved[n], isFresh[n])
     /\ fresh' = [isFresh EXCEPT ![n] = FALSE]
     /\ UNCHANGED <<open, first_process, current_pid, cur_pcb, pcbVars,
                    current_pcb, current_id, eax, argbuf>>

-----------------------------------------------------------------------------
(* switch_to_terminal_1/2/3, called by the keyboard handler *)

\* Mutant: the 0-based index is stored as the terminal id.
ShowTerminalZeroBased(t) ==
  /\ cpu # Lost
  /\ t # Shown
  /\ t = 0 \/ open[t]
  /\ current_id' = t
  /\ UNCHANGED <<terminalVars, pcbVars, current_pcb, curr_terminal,
                 next_terminal, machineVars>>

\* Alt-F on a terminal that is open (terminal 1 is taken to be): show it.
ShowTerminal(t) ==
  /\ cpu # Lost
  /\ t # Shown
  /\ t = 0 \/ open[t]
  /\ current_id' = t + 1
  /\ UNCHANGED <<terminalVars, pcbVars, current_pcb, curr_terminal,
                 next_terminal, machineVars>>

\* Alt-F on a terminal that is not open: mark it open, show it, acknowledge
\* the interrupt and enable interrupts, with execute("shell") still to come.
OpenTerminal(t) ==
  /\ cpu # Lost
  /\ t # Shown
  /\ t # 0 /\ ~open[t]
  /\ open' = [open EXCEPT ![t] = TRUE]
  /\ current_id' = t + 1
  /\ cpu' = [cpu EXCEPT !.opening = @ + 1]
  /\ UNCHANGED <<first_process, current_pid, cur_pcb, ctx, fresh, pcbVars,
                 current_pcb, curr_terminal, next_terminal,
                 user_page, esp0, eax, argbuf>>

-----------------------------------------------------------------------------
Next ==
  \/ \E arg \in Args \cup {NoArg} : Execute(arg)
  \/ ExecuteFails
  \/ FinishOpen
  \/ \E status \in Status : HaltChild(status)
  \/ HaltRoot
  \/ Getargs
  \/ Pit
  \/ \E t \in Terminals : ShowTerminal(t) \/ OpenTerminal(t)

Spec == Init /\ [][Next]_vars

-----------------------------------------------------------------------------
(* Properties *)

\* While a program runs, the frame mapped at 128 MB, the kernel stack in the
\* TSS and the PCB that the system calls use are all those of the scheduled
\* terminal's process.  They are set in three places (execute, halt and
\* do_switch), each from a different variable.
AddressSpace ==
  cpu = User =>
    /\ cur_pcb[curr_terminal] = current_pid[curr_terminal]
    /\ user_page = current_pid[curr_terminal]
    /\ esp0 = current_pid[curr_terminal]

\* The parent of a live process is live, so halt always has a process to return
\* to, and no process is the parent of two (a parent waits in execute).
ParentsWait ==
  \A p \in Slots : process_array[p] /\ parent_pid[p] # None =>
    /\ process_array[parent_pid[p]]
    /\ \A q \in Slots : process_array[q] /\ parent_pid[q] = parent_pid[p] => q = p

\* The first slots belong to the root shells: slot t is taken exactly when
\* terminal t has its first process, and only root shells have no parent.
\* execute takes slot t without looking whether it is free.
RootSlots ==
  /\ \A t \in Terminals : process_array[t] <=> first_process[t]
  /\ \A p \in Slots : process_array[p] => (parent_pid[p] = None <=> p \in Terminals)

\* No slot leaks: a taken slot is the process of a terminal or waits for a live
\* child, so "Maximum Processes" is never reported because of dead processes.
NoLeak ==
  \A p \in Slots : process_array[p] =>
    \/ \E t \in Terminals : first_process[t] /\ current_pid[t] = p
    \/ \E q \in Slots : process_array[q] /\ parent_pid[q] = p

\* The process of a terminal that has one is live, has no child, and is not the
\* process of another terminal.
TerminalProcess ==
  \A t \in Terminals : first_process[t] =>
    /\ current_pid[t] \in Slots
    /\ process_array[current_pid[t]]
    /\ cur_pcb[t] = current_pid[t]
    /\ \A p \in Slots : process_array[p] => parent_pid[p] # current_pid[t]
    /\ \A u \in Terminals : first_process[u] /\ current_pid[u] = current_pid[t] => u = t

\* The PCB of a live process is not overwritten: execute and halt write the
\* parent, the arguments and the return stack of free slots only, except that a
\* root shell that halts is replaced in its own slot.
PcbStep ==
  \A p \in Slots :
    process_array[p] =>
      \/ /\ parent_pid'[p] = parent_pid[p]
         /\ pcb_arg'[p] = pcb_arg[p]
         /\ old_esp'[p] = old_esp[p]
      \/ HaltRoot /\ p = Halting

PcbStable == [][PcbStep]_vars

\* The processes seen as one stack per terminal.
Live == {p \in Slots : process_array[p]}
Parent == [p \in Live |-> parent_pid[p]]
Top == [t \in Terminals |-> IF first_process[t] THEN current_pid[t] ELSE None]

Stacks == INSTANCE ProcessStacks WITH live <- Live, parent <- Parent, top <- Top

\* execute and halt, which act on different terminals, and the scheduler, which
\* changes neither, implement the stacks of ProcessStacks: whatever they are
\* called for, a live process only ever leaves from the top of its stack, and
\* the one below it takes its place.  (A root shell replaced by a new one in
\* its own slot is no step there.)
ImplementsStacks == Stacks!Spec

\* With one open terminal, getargs copies the arguments of its caller unless
\* the last PCB that execute or halt touched is that of a dead process: the
\* caller's child, which halted after it.
ArgsOfCaller ==
  (\A t \in Terminals : open[t] => t = 0) /\ cpu = User
    => \/ current_pcb = current_pid[curr_terminal]
       \/ ~process_array[current_pcb] /\ current_pcb \in ChildSlots

(* What the comments of the code say, and the code does not do *)

\* syscall.c:406 "return the specified value to its parent process": the frame halt returns to lies on the
\* kernel stack of the parent whose address space it maps.
ReturnsToParent ==
  \A p \in Slots :
    process_array[p] /\ parent_pid[p] # None => old_esp[p] = parent_pid[p]

\* terminal.c:72 "save previous terminal structure and restore the next
\* terminal": an open terminal with a process that is not running has its
\* context saved since it last ran.
ContextSaved ==
  cpu = User =>
    \A t \in Terminals : first_process[t] /\ t # curr_terminal => fresh[t]
=============================================================================
