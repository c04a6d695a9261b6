--------------------------- MODULE MCProcessTable ---------------------------
(* Model checking of ProcessTable. *)
EXTENDS ProcessTable

\* f on the live slots; what execute left in a free slot is read by nothing until
\* the next execute overwrites it.
OnLive(f) == [p \in Slots |-> IF process_array[p] THEN f[p] ELSE None]

\* A view for the safety run: it leaves out what no guard and no property of the
\* run reads (eax, argbuf and the PCBs of free slots), so states with
\* equal views have the same behaviours.
LiveView ==
  <<terminalVars, process_array, OnLive(parent_pid), OnLive(pcb_arg), OnLive(old_esp),
    OnLive(ret), current_pcb, curr_terminal, next_terminal, current_id, user_page, esp0, cpu>>
=============================================================================
