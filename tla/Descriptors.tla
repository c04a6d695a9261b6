---------------------------- MODULE Descriptors ----------------------------
(***************************************************************************)
(* The system calls on file descriptors: open, close and the dispatch of   *)
(* read and write through the operation tables (syscall.c), with dir_read  *)
(* (filesystem.c) and the clock (module Rtc) behind them.  What the other  *)
(* tables do is in FileRead, LineInput and Console.                        *)
(*                                                                         *)
(* These calls run with interrupts on.  open, close and read go to the     *)
(* table of the scheduled terminal's process, which while a process runs   *)
(* is its own (AddressSpace of ProcessTable).  write goes to the table of  *)
(* the DISPLAYED terminal's process, and looks it up twice: for the test   *)
(* of flags and for the call.                                              *)
(*                                                                         *)
(* Every terminal has a process here, its shell.  A shell that halts while *)
(* displayed is replaced, with a new table.  Children have tables of their *)
(* own, which nobody reaches while their parents run, and are left out; so *)
(* are execute and halt on a terminal that is not displayed, which put the *)
(* table of one terminal's process under the stack of another              *)
(* (ReturnsToParent of ProcessTable).                                      *)
(***************************************************************************)
EXTENDS Rtc

CONSTANTS MaxFd,       \* MAX_FD (7 in the code)
          NumDentry,   \* entries of the directory
          MaxLoc,      \* bound on dir_read_loc, which racing readers can push up
          FileTypes    \* types of the files that can be opened

ASSUME FdAssumption == MaxFd \in Nat \ {0, 1} /\ NumDentry \in Nat /\ MaxLoc \in Nat
ASSUME TypesAssumption == FileTypes \subseteq {"rtc", "dir", "file"}

Fds == 0 .. MaxFd
Null == "NULL"
Tables == FileTypes \cup {"stdin", "stdout", Null}

VARIABLES
  op_table, flags,          \* the descriptors of terminal t's process
  call,                     \* where that process is in a system call
  dir_read_loc,             \* next directory entry, for all processes
  curr_terminal,            \* scheduled terminal, 0-based
  current_id,               \* displayed terminal, 1-based
  fault                     \* a call went through a null pointer

fdVars == <<op_table, flags>>
termVars == <<curr_terminal, current_id>>
vars == <<rtcVars, fdVars, call, dir_read_loc, termVars, fault>>

Shown == current_id - 1

\* own: the process's terminal has been displayed since write made its test.
Calls == [at : {"run", "open", "write", "rtc", "dir", "load", "store", "wrap"},
          fd : Fds, own : BOOLEAN, loc : Nat]
Place(p, i, own, loc) == [at |-> p, fd |-> i, own |-> own, loc |-> loc]
Run == Place("run", 0, FALSE, 0)

TypeOK ==
  /\ RtcTypeOK
  /\ op_table \in [Terminals -> [Fds -> Tables]]
  /\ flags \in [Terminals -> [Fds -> BOOLEAN]]
  /\ call \in [Terminals -> Calls]
  /\ dir_read_loc \in Nat
  /\ curr_terminal \in Terminals
  /\ current_id \in 1 .. NT
  /\ fault \in BOOLEAN

\* The descriptors execute gives to a new process.
NewTable == [i \in Fds |-> IF i = 0 THEN "stdin" ELSE IF i = 1 THEN "stdout" ELSE Null]
NewFlags == [i \in Fds |-> i \in {0, 1}]

Init ==
  /\ RtcInit
  /\ op_table = [t \in Terminals |-> NewTable]
  /\ flags = [t \in Terminals |-> NewFlags]
  /\ call = [t \in Terminals |-> Run]
  /\ dir_read_loc = 0
  /\ curr_terminal = 0
  /\ current_id = 1
  /\ fault = FALSE

\* The process of terminal t is at point p of a system call, and runs.
At(t, p) == ~fault /\ curr_terminal = t /\ call[t].at = p

\* It goes on to point p.
Goto(t, p) == call' = [call EXCEPT ![t] = Place(p, 0, FALSE, 0)]

-----------------------------------------------------------------------------
(* open and close *)

FreeFds(t) == {i \in Fds \ {0, 1} : ~flags[t][i]}

\* Mutant: open raises flags first and sets the table afterwards.
OpenTableLate(t, type) ==
  /\ At(t, "run")
  /\ FreeFds(t) # {}
  /\ LET i == CHOOSE i \in FreeFds(t) : \A j \in FreeFds(t) : i <= j
     IN /\ flags' = [flags EXCEPT ![t][i] = TRUE]
        /\ call' = [call EXCEPT ![t] = Place("open", i, FALSE, 0)]
  /\ UNCHANGED <<rtcVars, op_table, dir_read_loc, termVars, fault>>

\* open finds a file and a free descriptor, and fills in the descriptor.  (If it
\* finds none it returns -1 and nothing changes.)
OpenTable(t, type) ==
  /\ At(t, "run")
  /\ FreeFds(t) # {}
  /\ LET i == CHOOSE i \in FreeFds(t) : \A j \in FreeFds(t) : i <= j
     IN /\ op_table' = [op_table EXCEPT ![t][i] = type]
        /\ call' = [call EXCEPT ![t] = Place("open", i, FALSE, 0)]
  /\ UNCHANGED <<rtcVars, flags, dir_read_loc, termVars, fault>>

\* open raises flags and returns.
OpenFlags(t) ==
  /\ At(t, "open")
  /\ flags' = [flags EXCEPT ![t][call[t].fd] = TRUE]
  /\ Goto(t, "run")
  /\ UNCHANGED <<rtcVars, op_table, dir_read_loc, termVars, fault>>

\* Mutant: close refuses descriptor 0 only.
CloseStdout(t, i) ==
  /\ At(t, "run")
  /\ flags[t][i] /\ i # 0
  /\ flags' = [flags EXCEPT ![t][i] = FALSE]
  /\ UNCHANGED <<rtcVars, op_table, call, dir_read_loc, termVars, fault>>

\* close: lower flags; the close functions of all tables do nothing.
Close(t, i) ==
  /\ At(t, "run")
  /\ flags[t][i] /\ i \notin {0, 1}
  /\ flags' = [flags EXCEPT ![t][i] = FALSE]
  /\ UNCHANGED <<rtcVars, op_table, call, dir_read_loc, termVars, fault>>

\* halt of the displayed terminal's shell, and execute of its successor.
Replace(t) ==
  /\ At(t, "run")
  /\ t = Shown
  /\ op_table' = [op_table EXCEPT ![t] = NewTable]
  /\ flags' = [flags EXCEPT ![t] = NewFlags]
  /\ UNCHANGED <<rtcVars, call, dir_read_loc, termVars, fault>>

-----------------------------------------------------------------------------
(* read *)

\* read on the clock.
ReadRtc(t, i) ==
  /\ At(t, "run")
  /\ flags[t][i] /\ op_table[t][i] = "rtc"
  /\ RtcReadCall(t)
  /\ Goto(t, "rtc")
  /\ UNCHANGED <<fdVars, dir_read_loc, termVars, fault>>

\* The steps of rtc_read.
RtcStep(t) ==
  /\ At(t, "rtc")
  /\ \/ RtcSet(t) /\ UNCHANGED call
     \/ RtcReturn(t) /\ Goto(t, "run")
  /\ UNCHANGED <<fdVars, dir_read_loc, termVars, fault>>

\* read on the directory.
ReadDir(t, i) ==
  /\ At(t, "run")
  /\ flags[t][i] /\ op_table[t][i] = "dir"
  /\ Goto(t, "dir")
  /\ UNCHANGED <<rtcVars, fdVars, dir_read_loc, termVars, fault>>

\* dir_read looks up the entry at dir_read_loc.
DirLookup(t) ==
  /\ At(t, "dir")
  /\ Goto(t, IF dir_read_loc >= NumDentry THEN "wrap" ELSE "load")
  /\ UNCHANGED <<rtcVars, fdVars, dir_read_loc, termVars, fault>>

\* Behind the last entry: start again at 0, return 0.
DirWrap(t) ==
  /\ At(t, "wrap")
  /\ dir_read_loc' = 0
  /\ Goto(t, "run")
  /\ UNCHANGED <<rtcVars, fdVars, termVars, fault>>

\* dir_read_loc++ is a load and a store, for the kernel is compiled without
\* optimisation.  A reader that loads what another one has just stored adds to it,
\* so two readers can push dir_read_loc beyond the last entry, without a bound.
DirLoad(t) ==
  /\ At(t, "load")
  /\ call' = [call EXCEPT ![t] = Place("store", 0, FALSE, dir_read_loc)]
  /\ UNCHANGED <<rtcVars, fdVars, dir_read_loc, termVars, fault>>

\* Mutant: the increment is lost.
DirStoreSame(t) ==
  /\ At(t, "store")
  /\ dir_read_loc' = call[t].loc
  /\ Goto(t, "run")
  /\ UNCHANGED <<rtcVars, fdVars, termVars, fault>>

DirStore(t) ==
  /\ At(t, "store")
  /\ call[t].loc < MaxLoc
  /\ dir_read_loc' = call[t].loc + 1
  /\ Goto(t, "run")
  /\ UNCHANGED <<rtcVars, fdVars, termVars, fault>>

-----------------------------------------------------------------------------
(* write *)

\* Mutant: write calls without looking at flags.
WriteTestNot(t, i) ==
  /\ At(t, "run")
  /\ call' = [call EXCEPT ![t] = Place("write", i, t = Shown, 0)]
  /\ UNCHANGED <<rtcVars, fdVars, dir_read_loc, termVars, fault>>

\* write tests flags in the displayed terminal's process.
WriteTest(t, i) ==
  /\ At(t, "run")
  /\ flags[Shown][i]
  /\ call' = [call EXCEPT ![t] = Place("write", i, t = Shown, 0)]
  /\ UNCHANGED <<rtcVars, fdVars, dir_read_loc, termVars, fault>>

\* write calls through the table of the process that is displayed by now.  A null
\* table is a page fault, which stops the machine (after a vidmap, which maps the
\* first page to video memory, it is a jump to what the screen holds).
WriteCall(t, f) ==
  LET table == op_table[Shown][call[t].fd]
  IN /\ At(t, "write")
     /\ fault' = (table = Null)
     /\ IF table = "rtc" THEN RtcWrite(f) ELSE UNCHANGED rtcVars
     /\ Goto(t, "run")
     /\ UNCHANGED <<fdVars, dir_read_loc, termVars>>

-----------------------------------------------------------------------------
(* Interrupts *)

\* The clock.
Tick ==
  /\ ~fault
  /\ RtcInterrupt
  /\ UNCHANGED <<fdVars, call, dir_read_loc, termVars, fault>>

\* The PIT: the next terminal (all are open).
Pit ==
  /\ ~fault
  /\ curr_terminal' = (curr_terminal + 1) % NT
  /\ UNCHANGED <<rtcVars, fdVars, call, dir_read_loc, current_id, fault>>

\* Alt-F.
ShowTerminal(d) ==
  /\ ~fault
  /\ d # Shown
  /\ current_id' = d + 1
  /\ call' = [t \in Terminals |-> Place(call[t].at, call[t].fd, FALSE, call[t].loc)]
  /\ UNCHANGED <<rtcVars, fdVars, dir_read_loc, curr_terminal, fault>>

-----------------------------------------------------------------------------
\* A step inside a read that has begun.
ReadStep(t) ==
  RtcStep(t) \/ DirLookup(t) \/ DirWrap(t) \/ DirLoad(t) \/ DirStore(t)

Next ==
  \/ \E t \in Terminals, type \in FileTypes : OpenTable(t, type)
  \/ \E t \in Terminals : OpenFlags(t)
  \/ \E t \in Terminals, i \in Fds : Close(t, i)
  \/ \E t \in Terminals : Replace(t)
  \/ \E t \in Terminals, i \in Fds : ReadRtc(t, i)
  \/ \E t \in Terminals, i \in Fds : ReadDir(t, i)
  \/ \E t \in Terminals : ReadStep(t)
  \/ \E t \in Terminals, i \in Fds : WriteTest(t, i)
  \/ \E t \in Terminals, f \in Freqs : WriteCall(t, f)
  \/ Tick
  \/ Pit
  \/ \E d \in Terminals : ShowTerminal(d)

Spec == Init /\ [][Next]_vars

\* The clock and the PIT tick for ever.  A time slice (50 ms) is long enough for a
\* step of a read, so one that is possible in slice after slice is taken.
FairSpec ==
  Spec /\ WF_vars(Tick) /\ WF_vars(Pit) /\ \A t \in Terminals : SF_vars(ReadStep(t))

-----------------------------------------------------------------------------
(* Properties *)

\* A descriptor whose flags are up has a table at every moment, so that a write of
\* another terminal's process, which may come while open is at work, finds one.
OpenHasTable ==
  \A t \in Terminals, i \in Fds : flags[t][i] => op_table[t][i] # Null

\* Whatever is closed and opened, descriptors 0 and 1 stay the terminal's.
StdStreams ==
  \A t \in Terminals :
    /\ flags[t][0] /\ op_table[t][0] = "stdin"
    /\ flags[t][1] /\ op_table[t][1] = "stdout"

\* A write by the displayed terminal's process, with no Alt-F between its test and
\* its call, goes to the descriptor it named, which is still open.
WriteIsOwn ==
  \A t \in Terminals : call[t].at = "write" /\ call[t].own =>
    /\ t = Shown
    /\ flags[t][call[t].fd] /\ op_table[t][call[t].fd] # Null

\* A process that reads the directory again and again reaches the end again and
\* again if no other process reads it.
SoleScanEnds ==
  \A t \in Terminals :
    /\ <>[](\A u \in Terminals \ {t} : call[u].at \notin {"dir", "load", "store", "wrap"})
    /\ []<>(call[t].at = "dir") /\ []~fault
    => []<>(call[t].at = "wrap")

\* A process that is the only one to read the clock does not wait for ever.
SoleRtcReaderReturns ==
  \A t \in Terminals :
    ~ (/\ <>[](\A u \in Terminals \ {t} : waits[u] = "no")
       /\ <>[](waits[t] # "no" /\ ~fault))
=============================================================================
