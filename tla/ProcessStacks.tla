---------------------------- MODULE ProcessStacks ----------------------------
(***************************************************************************)
(* What execute, halt and the scheduler promise together: every terminal   *)
(* has a stack of processes, a root shell at its bottom and the process    *)
(* that runs at its top.  Each process waits for the one above it, and no  *)
(* process is in two stacks.  A step adds one process to a stack, removes  *)
(* the top one, or, when the last shell of a terminal halts, removes it    *)
(* and adds its successor to the stack of the displayed terminal.          *)
(*                                                                         *)
(* ProcessTable implements this specification.  The stacks are linked, as  *)
(* in the PCBs: the top of each and the process below each.                *)
(***************************************************************************)
CONSTANTS Slots,      \* processes there can be
          Terminals,
          None        \* no process

VARIABLES live,       \* the processes in use
          parent,     \* the process below each of them, or None
          top         \* the process of each terminal, or None

vars == <<live, parent, top>>

Init ==
  /\ live = {}
  /\ parent = [p \in {} |-> None]
  /\ top = [t \in Terminals |-> None]

\* A new process goes on top of the stack of terminal t.
Push(t, p) ==
  /\ p \notin live
  /\ live' = live \cup {p}
  /\ parent' = [q \in live \cup {p} |-> IF q = p THEN top[t] ELSE parent[q]]
  /\ top' = [top EXCEPT ![t] = p]

\* The top process of terminal t ends and the one below it runs again.
Pop(t) ==
  /\ top[t] # None
  /\ live' = live \ {top[t]}
  /\ parent' = [q \in live \ {top[t]} |-> parent[q]]
  /\ top' = [top EXCEPT ![t] = parent[top[t]]]

\* The only process of terminal t ends and its successor starts on terminal u.
Move(t, u, p) ==
  /\ t # u
  /\ top[t] # None
  /\ parent[top[t]] = None
  /\ p \notin live
  /\ live' = (live \ {top[t]}) \cup {p}
  /\ parent' = [q \in (live \ {top[t]}) \cup {p} |-> IF q = p THEN top[u] ELSE parent[q]]
  /\ top' = [top EXCEPT ![t] = None, ![u] = p]

Next ==
  \E t \in Terminals :
    \/ \E p \in Slots : Push(t, p)
    \/ Pop(t)
    \/ \E u \in Terminals, p \in Slots : Move(t, u, p)

Spec == Init /\ [][Next]_vars
=============================================================================
