------------------------- MODULE ProcessTableProofs -------------------------
(***************************************************************************)
(* Proofs about ProcessTable for any number of terminals and slots.        *)
(*                                                                         *)
(* The argument: the live processes form one chain per terminal, from its  *)
(* root shell to the process it runs.  execute pushes a process on the     *)
(* chain of the displayed terminal and halt pops one from the chain of the *)
(* scheduled terminal, so although the two may be different terminals the  *)
(* chains stay chains.  Which chain a process is in is given by a function *)
(* own, whose existence is part of the invariant.                          *)
(***************************************************************************)
EXTENDS ProcessTable, NatLemmas, TLAPS

\* The process array pa, the first_process flags fp, the parents par, and the
\* current_pid cp and cur_pcb pcb of the terminals describe one chain of live
\* processes per terminal; own maps a process to the terminal of its chain.
Chains(pa, fp, par, cp, pcb, own) ==
  /\ \A t \in Terminals : (pa[t] <=> fp[t]) /\ par[t] = None /\ own[t] = t
  /\ \A p \in ChildSlots :
       pa[p] => par[p] \in Slots /\ pa[par[p]] /\ own[par[p]] = own[p]
  /\ \A p, q \in ChildSlots : pa[p] /\ pa[q] /\ par[p] = par[q] => p = q
  /\ \A t \in Terminals :
       fp[t] => cp[t] \in Slots /\ pa[cp[t]] /\ pcb[t] = cp[t] /\ own[cp[t]] = t
  /\ \A t \in Terminals, p \in ChildSlots : fp[t] /\ pa[p] => par[p] # cp[t]
  /\ \A t \in Terminals : ~fp[t] => pcb[t] = None \/ (pcb[t] = t /\ cp[t] = t)
  /\ \A p \in Slots : pa[p] => \/ \E t \in Terminals : fp[t] /\ cp[t] = p
                               \/ \E q \in ChildSlots : pa[q] /\ par[q] = p

ChainInv ==
  \E own \in [Slots -> Terminals] :
    Chains(process_array, first_process, parent_pid, current_pid, cur_pcb, own)

\* Every context with a program at its bottom belongs to a terminal that has a
\* PCB; for the running one the machine state agrees with that PCB.
ContextInv ==
  /\ cpu # Lost => \A t \in Terminals : ctx[t].program => cur_pcb[t] # None
  /\ cpu.program => /\ cur_pcb[curr_terminal] \in Slots
                    /\ cur_pcb[curr_terminal] = current_pid[curr_terminal]
                    /\ user_page = current_pid[curr_terminal]
                    /\ esp0 = current_pid[curr_terminal]
  /\ current_pcb = None => ~cpu.program /\ \A t \in Terminals : ~ctx[t].program

Inv == TypeOK /\ ChainInv /\ ContextInv

-----------------------------------------------------------------------------
(* Lemmas about the operators *)

\* The slot execute picks is free: a root slot for a terminal without process,
\* otherwise a free child slot.
LEMMA SlotIsFree ==
  ASSUME NEW pa \in [Slots -> BOOLEAN], NEW fp \in [Terminals -> BOOLEAN],
         NEW d \in Terminals, HasRoom(pa, fp, d)
  PROVE  \/ ~fp[d] /\ Slot(pa, fp, d) = d
         \/ /\ fp[d]
            /\ Slot(pa, fp, d) \in ChildSlots
            /\ ~pa[Slot(pa, fp, d)]
<1>1. CASE ~fp[d]
  BY <1>1 DEF Slot
<1>2. CASE fp[d]
  <2>1. FreeChildren(pa) # {} /\ FreeChildren(pa) \in SUBSET Nat
    BY <1>2, SizesAssumption DEF HasRoom, FreeChildren, ChildSlots
  <2>2. Slot(pa, fp, d) \in FreeChildren(pa)
    BY <1>2, <2>1, LeastElement DEF Slot
  <2> QED  BY <1>2, <2>2 DEF FreeChildren
<1> QED  BY <1>1, <1>2

\* Slots are the terminals' root slots and the child slots.
LEMMA SlotsSplit ==
  /\ Terminals \subseteq Slots /\ ChildSlots \subseteq Slots
  /\ \A p \in Slots : p \in Terminals \/ p \in ChildSlots
  /\ \A p \in Terminals : p \notin ChildSlots
  /\ None \notin Slots /\ 0 \in Terminals
  /\ Terminals \subseteq Nat
BY SizesAssumption DEF Slots, Terminals, ChildSlots, None

\* Alt-F and the round robin produce terminals.
LEMMA NextTerminalType ==
  ASSUME TypeOK
  PROVE  NextTerminal \in Terminals
<1>1. CASE OpenAhead = {}
  BY <1>1 DEF NextTerminal, TypeOK
<1>2. CASE OpenAhead # {}
  <2> DEFINE i == CHOOSE i \in OpenAhead : \A j \in OpenAhead : i <= j
  <2> OpenAhead \in SUBSET Nat
    BY SizesAssumption DEF OpenAhead
  <2>1. i \in OpenAhead
    BY <1>2, LeastElement
  <2>2. i \in Nat /\ curr_terminal \in Nat
    BY <2>1, SizesAssumption DEF OpenAhead, TypeOK, Terminals
  <2>3. (curr_terminal + i) % NT \in Terminals
    BY <2>2, SizesAssumption DEF Terminals
  <2> QED  BY <1>2, <2>3 DEF NextTerminal
<1> QED  BY <1>1, <1>2

-----------------------------------------------------------------------------
(* What execute and halt do to the chains, as facts about functions *)

\* execute pushes: process p, in a slot that is free, becomes the end of the
\* chain of terminal d.
LEMMA Push ==
  ASSUME NEW pa \in [Slots -> BOOLEAN], NEW fp \in [Terminals -> BOOLEAN],
         NEW par \in [Slots -> Pids], NEW cp \in [Terminals -> Pids],
         NEW pcb \in [Terminals -> Pids], NEW own \in [Slots -> Terminals],
         Chains(pa, fp, par, cp, pcb, own),
         NEW d \in Terminals, NEW p \in Slots,
         \/ ~fp[d] /\ p = d
         \/ fp[d] /\ p \in ChildSlots /\ ~pa[p]
  PROVE  Chains([pa EXCEPT ![p] = TRUE], [fp EXCEPT ![d] = TRUE],
                [par EXCEPT ![p] = IF fp[d] THEN cp[d] ELSE None],
                [cp EXCEPT ![d] = p], [pcb EXCEPT ![d] = p],
                [own EXCEPT ![p] = d])
<1> USE SlotsSplit DEF Chains
<1>1. ~pa[p]
  OBVIOUS
<1>2. CASE ~fp[d]
  <2>1. p = d /\ \A q \in ChildSlots : q # p /\ (pa[q] => par[q] # p)
    BY <1>1, <1>2
  <2> QED  BY <1>1, <1>2, <2>1
<1>3. CASE fp[d]
  <2>1. p \in ChildSlots /\ cp[d] \in Slots /\ cp[d] # p /\ pa[cp[d]] /\ p # d
    BY <1>1, <1>3
  <2>2. \A q \in ChildSlots : pa[q] => par[q] # p /\ par[q] # cp[d]
    BY <1>1, <1>3
  <2>3. \A t \in Terminals : fp[t] => cp[t] # p /\ (t # d => cp[t] # cp[d])
    BY <1>1, <1>3
  <2> QED  BY <1>1, <1>3, <2>1, <2>2, <2>3
<1> QED  BY <1>2, <1>3

\* halt of a child pops: the end of the chain of terminal c is freed and its
\* parent becomes the end.
LEMMA PopChild ==
  ASSUME NEW pa \in [Slots -> BOOLEAN], NEW fp \in [Terminals -> BOOLEAN],
         NEW par \in [Slots -> Pids], NEW cp \in [Terminals -> Pids],
         NEW pcb \in [Terminals -> Pids], NEW own \in [Slots -> Terminals],
         Chains(pa, fp, par, cp, pcb, own),
         NEW c \in Terminals, pcb[c] \in Slots, par[pcb[c]] # None
  PROVE  /\ par[pcb[c]] \in Slots
         /\ Chains([pa EXCEPT ![pcb[c]] = FALSE], fp, par,
                   [cp EXCEPT ![c] = par[pcb[c]]],
                   [pcb EXCEPT ![c] = par[pcb[c]]], own)
<1> USE SlotsSplit DEF Chains
<1> DEFINE me == pcb[c]
<1>a. me \in Slots /\ me \in ChildSlots
  BY ZenonT(30)
<1>b. fp[c]
  <2> SUFFICES ASSUME ~fp[c]  PROVE FALSE
    OBVIOUS
  <2>1. me = c
    BY <1>a
  <2> QED  BY <1>a, <2>1
<1>1. me \in ChildSlots /\ fp[c] /\ pa[me] /\ cp[c] = me /\ own[me] = c
  BY <1>a, <1>b
<1>c. \A q \in ChildSlots : pa[q] => par[q] # me
  <2> TAKE q \in ChildSlots
  <2> HAVE pa[q]
  <2>1. par[q] # cp[c]
    BY <1>1
  <2> QED  BY <1>1, <2>1
<1>2. par[me] \in Slots /\ pa[par[me]] /\ own[par[me]] = c /\ par[me] # me
  <2>1. par[me] \in Slots /\ pa[par[me]] /\ own[par[me]] = own[me]
    BY <1>1
  <2> QED  BY <1>1, <1>c, <2>1
<1>3. \A q \in ChildSlots : pa[q] => par[q] # me /\ (q # me => par[q] # par[me])
  <2> TAKE q \in ChildSlots
  <2> HAVE pa[q]
  <2>1. q # me => par[q] # par[me]
    BY <1>1, ZenonT(30)
  <2> QED  BY <1>c, <2>1
<1>4. \A t \in Terminals : fp[t] /\ t # c => cp[t] # me /\ cp[t] # par[me]
  BY <1>1, <1>2
<1> QED  BY <1>1, <1>2, <1>3, <1>4

\* halt of a root shell: the process is the terminal's own root slot, and
\* without it the terminal has no chain.
LEMMA PopRoot ==
  ASSUME TypeOK, NEW own \in [Slots -> Terminals],
         Chains(process_array, first_process, parent_pid, current_pid, cur_pcb, own),
         Halting \in Slots, parent_pid[Halting] = None
  PROVE  /\ Halting = curr_terminal
         /\ Chains(AfterHalt, [first_process EXCEPT ![curr_terminal] = FALSE],
                   parent_pid, current_pid, cur_pcb, own)
<1> DEFINE c == curr_terminal
           me == cur_pcb[c]
<1> USE SlotsSplit DEF Chains
<1>0. /\ c \in Terminals /\ me \in Slots /\ parent_pid[me] = None
      /\ process_array \in [Slots -> BOOLEAN] /\ first_process \in [Terminals -> BOOLEAN]
  BY DEF TypeOK, Halting
<1> HIDE DEF c
<1>a. ASSUME ~first_process[c]  PROVE me = c /\ current_pid[c] = c
  BY <1>0, <1>a
<1>b. ASSUME first_process[c]  PROVE me = c /\ current_pid[c] = c
  <2>1. current_pid[c] = me /\ process_array[me] /\ own[me] = c
    BY <1>0, <1>b
  <2> HIDE DEF me
  <2>2. me \in ChildSlots => parent_pid[me] \in Slots
    BY <2>1
  <2>3. me \in Terminals
    BY <1>0, <2>2
  <2> QED  BY <2>1, <2>3
<1>1. me = c /\ current_pid[c] = c
  BY <1>a, <1>b
<1>2. \A q \in ChildSlots : process_array[q] => parent_pid[q] # c
  BY <1>0, <1>1
<1>3. \A t \in Terminals : first_process[t] /\ t # c => current_pid[t] # c
  BY <1>0, <1>1
<1>4. Chains([process_array EXCEPT ![c] = FALSE], [first_process EXCEPT ![c] = FALSE],
             parent_pid, current_pid, cur_pcb, own)
  BY <1>0, <1>1, <1>2, <1>3
<1> QED  BY <1>1, <1>4 DEF Halting, AfterHalt, c

-----------------------------------------------------------------------------
(* The inductive invariant *)

LEMMA InitInv == Init => Inv
<1> SUFFICES ASSUME Init  PROVE Inv
  OBVIOUS
<1>1. TypeOK
  BY SlotsSplit, SizesAssumption
  DEF Init, TypeOK, Context, Boot, Lost, Pids, None, Terminals
<1>2. ChainInv
  <2> DEFINE own == [p \in Slots |-> IF p \in Terminals THEN p ELSE 0]
  <2>1. own \in [Slots -> Terminals]
    BY SlotsSplit
  <2>2. Chains(process_array, first_process, parent_pid, current_pid, cur_pcb, own)
    BY SlotsSplit DEF Init, Chains
  <2> QED  BY <2>1, <2>2 DEF ChainInv
<1>3. ContextInv
  BY DEF Init, ContextInv, Boot, Lost
<1> QED  BY <1>1, <1>2, <1>3 DEF Inv

LEMMA LostIsContext == Lost \in Context
BY DEF Lost, Context

\* execute, whoever calls it, keeps the invariant.
LEMMA SpawnInv ==
  ASSUME TypeOK, ContextInv, cpu # Lost,
         NEW pa \in [Slots -> BOOLEAN], NEW fp \in [Terminals -> BOOLEAN],
         NEW arg \in Args \cup {NoArg}, NEW own \in [Slots -> Terminals],
         Chains(pa, fp, parent_pid, current_pid, cur_pcb, own),
         NEW back \in Context, HasRoom(pa, fp, Shown), Spawn(pa, fp, arg, back)
  PROVE  Inv'
<1> DEFINE d == Shown
           p == Slot(pa, fp, d)
<1>1. d \in Terminals
  BY SizesAssumption DEF TypeOK, Shown, Terminals
<1>2. \/ ~fp[d] /\ p = d
      \/ fp[d] /\ p \in ChildSlots /\ ~pa[p]
  BY <1>1, SlotIsFree
<1>3. p \in Slots /\ p \in Pids /\ p # None
  BY <1>1, <1>2, SlotsSplit DEF Pids
<1> HIDE DEF d, p
<1>4. /\ process_array' = [pa EXCEPT ![p] = TRUE]
      /\ first_process' = [fp EXCEPT ![d] = TRUE]
      /\ parent_pid' = [parent_pid EXCEPT ![p] = IF fp[d] THEN current_pid[d] ELSE None]
      /\ current_pid' = [current_pid EXCEPT ![d] = p]
      /\ cur_pcb' = [cur_pcb EXCEPT ![d] = p]
      /\ curr_terminal' = d
      /\ user_page' = p /\ esp0' = p /\ current_pcb' = p
      /\ pcb_arg' = [pcb_arg EXCEPT ![p] = arg]
      /\ old_esp' = [old_esp EXCEPT ![p] = esp0]
      /\ ret' = [ret EXCEPT ![p] = back]
      /\ cpu' = User
      /\ fresh' = [fresh EXCEPT ![d] = FALSE]
      /\ UNCHANGED <<open, ctx, next_terminal, current_id, eax, argbuf>>
  BY DEF Spawn, d, p
<1>5. TypeOK'
  BY <1>1, <1>3, <1>4 DEF TypeOK, Pids, User, Context
<1>6. ChainInv'
  <2>1. Chains(process_array', first_process', parent_pid', current_pid', cur_pcb',
               [own EXCEPT ![p] = d])
    BY <1>1, <1>2, <1>3, <1>4, Push DEF TypeOK
  <2>2. [own EXCEPT ![p] = d] \in [Slots -> Terminals]
    BY <1>1
  <2> QED  BY <2>1, <2>2 DEF ChainInv, Chains
<1>7. ContextInv'
  BY <1>1, <1>3, <1>4 DEF TypeOK, ContextInv, User, Lost
<1> QED  BY <1>5, <1>6, <1>7 DEF Inv

\* halt of a child keeps the invariant, and the parent it returns to is live.
LEMMA HaltChildInv ==
  ASSUME Inv, NEW status \in Status, HaltChild(status)
  PROVE  Inv'
<1> DEFINE parent == parent_pid[Halting]
<1>1. PICK own \in [Slots -> Terminals] :
        Chains(process_array, first_process, parent_pid, current_pid, cur_pcb, own)
  BY DEF Inv, ChainInv
<1>2. TypeOK /\ ContextInv /\ cpu = User /\ parent # None
  BY DEF Inv, HaltChild
<1>3. Halting \in Slots /\ curr_terminal \in Terminals
  BY <1>2 DEF ContextInv, User, Halting, TypeOK
<1>4. /\ parent \in Slots
      /\ Chains(AfterHalt, first_process, parent_pid,
                [current_pid EXCEPT ![curr_terminal] = parent],
                [cur_pcb EXCEPT ![curr_terminal] = parent], own)
  BY <1>1, <1>2, <1>3, PopChild DEF TypeOK, Halting, AfterHalt
<1> HIDE DEF parent
<1>5. /\ process_array' = AfterHalt
      /\ current_pid' = [current_pid EXCEPT ![curr_terminal] = parent]
      /\ cur_pcb' = [cur_pcb EXCEPT ![curr_terminal] = parent]
      /\ user_page' = parent /\ esp0' = parent /\ current_pcb' = Halting /\ eax' = 0
      /\ cpu' \in {ret[Halting], Lost}
      /\ UNCHANGED <<open, first_process, ctx, fresh, parent_pid, pcb_arg, old_esp, ret,
                     curr_terminal, next_terminal, current_id, argbuf>>
  BY DEF HaltChild, HaltReturns, ReturnValue, parent
<1>6. TypeOK'
  <2>1. cpu' \in Context
    BY <1>2, <1>3, <1>5, LostIsContext DEF TypeOK
  <2> QED  BY <1>2, <1>3, <1>4, <1>5, <2>1 DEF TypeOK, AfterHalt, Pids
<1>7. ChainInv'
  BY <1>4, <1>5 DEF ChainInv, Chains
<1>8. ContextInv'
  <2>1. parent # None
    BY <1>2
  <2>2. cpu # Lost
    BY <1>2 DEF User, Lost
  <2> QED  BY <1>2, <1>3, <1>4, <1>5, <2>1, <2>2, SlotsSplit DEF ContextInv, TypeOK
<1> QED  BY <1>6, <1>7, <1>8 DEF Inv

\* halt of a root shell keeps the invariant, the failing execute included.
LEMMA HaltRootInv ==
  ASSUME Inv, HaltRoot
  PROVE  Inv'
<1> DEFINE fp == [first_process EXCEPT ![curr_terminal] = FALSE]
<1>1. PICK own \in [Slots -> Terminals] :
        Chains(process_array, first_process, parent_pid, current_pid, cur_pcb, own)
  BY DEF Inv, ChainInv
<1>2. TypeOK /\ ContextInv /\ cpu = User /\ parent_pid[Halting] = None
  BY DEF Inv, HaltRoot
<1>3. Halting \in Slots /\ curr_terminal \in Terminals /\ cpu # Lost
  BY <1>2 DEF ContextInv, User, Lost, Halting, TypeOK
<1>4. /\ Halting = curr_terminal
      /\ Chains(AfterHalt, fp, parent_pid, current_pid, cur_pcb, own)
  BY <1>1, <1>2, <1>3, PopRoot
<1>5. AfterHalt \in [Slots -> BOOLEAN] /\ fp \in [Terminals -> BOOLEAN]
  BY <1>2, <1>3 DEF TypeOK, AfterHalt
<1>6. CASE HasRoom(AfterHalt, fp, Shown) /\ Spawn(AfterHalt, fp, NoArg, Lost)
  BY <1>2, <1>3, <1>4, <1>5, <1>6, LostIsContext, SpawnInv
<1>7. CASE ~HasRoom(AfterHalt, fp, Shown)
  <2> HIDE DEF fp
  <2>1. /\ process_array' = AfterHalt /\ first_process' = fp
        /\ cur_pcb' = [cur_pcb EXCEPT ![curr_terminal] = None]
        /\ current_pid' = [current_pid EXCEPT ![curr_terminal] = None]
        /\ user_page' = None /\ esp0' = None /\ current_pcb' = Halting
        /\ cpu' = Lost
        /\ UNCHANGED <<open, ctx, fresh, parent_pid, pcb_arg, old_esp, ret,
                       curr_terminal, next_terminal, current_id, eax, argbuf>>
    BY <1>7 DEF HaltRoot, fp
  <2>2. TypeOK'
    BY <1>2, <1>3, <1>5, <2>1 DEF TypeOK, Pids, Lost, Context
  <2>3. ChainInv'
    <3>1. ~fp[curr_terminal]
      BY <1>2, <1>3 DEF fp, TypeOK
    <3>2. Chains(process_array', first_process', parent_pid', current_pid', cur_pcb', own)
      BY <1>2, <1>3, <1>4, <1>5, <2>1, <3>1, SlotsSplit DEF Chains, TypeOK
    <3> QED  BY <3>2 DEF ChainInv, Chains
  <2>4. ContextInv'
    BY <1>3, <2>1, SlotsSplit DEF ContextInv, Lost
  <2> QED  BY <2>2, <2>3, <2>4 DEF Inv
<1> QED  BY <1>6, <1>7 DEF HaltRoot

\* The chains depend on five variables only.
LEMMA ChainFrame ==
  ASSUME ChainInv,
         UNCHANGED <<process_array, first_process, parent_pid, current_pid, cur_pcb>>
  PROVE  ChainInv'
BY DEF ChainInv, Chains

\* A PIT interrupt keeps the invariant.
LEMMA PitInv ==
  ASSUME Inv, Pit
  PROVE  Inv'
<1> DEFINE n == NextTerminal
           saved == [ctx EXCEPT ![curr_terminal] = cpu]
           isFresh == [fresh EXCEPT ![curr_terminal] = TRUE]
<1>1. TypeOK /\ ChainInv /\ ContextInv /\ cpu # Lost /\ n \in Terminals
  BY NextTerminalType DEF Inv, Pit
<1>2. saved \in [Terminals -> Context] /\ isFresh \in [Terminals -> BOOLEAN]
  BY <1>1 DEF TypeOK
<1> HIDE DEF n, saved, isFresh
<1>3. /\ next_terminal' = n /\ curr_terminal' = n /\ ctx' = saved
      /\ user_page' = current_pid[n] /\ esp0' = current_pid[n]
      /\ cpu' \in {saved[n], Lost}
      /\ fresh' = [isFresh EXCEPT ![n] = FALSE]
      /\ UNCHANGED <<open, first_process, current_pid, cur_pcb, process_array,
                     parent_pid, pcb_arg, old_esp, ret, current_pcb, current_id, eax,
                     argbuf>>
  BY DEF Pit, Resume, pcbVars, n, saved, isFresh
<1>4. TypeOK'
  <2>1. cpu' \in Context
    BY <1>1, <1>2, <1>3, LostIsContext
  <2> QED  BY <1>1, <1>2, <1>3, <2>1 DEF TypeOK
<1>5. ChainInv'
  BY <1>1, <1>3, ChainFrame
<1>6. ContextInv'
  <2>1. \A t \in Terminals : saved[t].program => cur_pcb[t] # None
    BY <1>1, SlotsSplit DEF ContextInv, TypeOK, saved
  <2>2. ASSUME saved[n].program
        PROVE  cur_pcb[n] \in Slots /\ cur_pcb[n] = current_pid[n]
    <3>1. cur_pcb[n] \in Slots
      BY <1>1, <2>1, <2>2 DEF TypeOK, Pids
    <3>2. PICK own \in [Slots -> Terminals] :
            Chains(process_array, first_process, parent_pid, current_pid, cur_pcb, own)
      BY <1>1 DEF ChainInv
    <3> QED  BY <1>1, <3>1, <3>2, SlotsSplit DEF Chains, TypeOK
  <2>3. current_pcb = None => \A t \in Terminals : ~saved[t].program
    BY <1>1 DEF ContextInv, TypeOK, saved
  <2> QED  BY <1>1, <1>3, <2>1, <2>2, <2>3 DEF ContextInv, Lost
<1> QED  BY <1>4, <1>5, <1>6 DEF Inv

\* Every step keeps the invariant.
LEMMA NextInv == Inv /\ [Next]_vars => Inv'
<1> SUFFICES ASSUME Inv, [Next]_vars  PROVE Inv'
  OBVIOUS
<1>0. TypeOK /\ ChainInv /\ ContextInv
  BY DEF Inv
<1>own. PICK own \in [Slots -> Terminals] :
          Chains(process_array, first_process, parent_pid, current_pid, cur_pcb, own)
  BY DEF Inv, ChainInv
<1>1. ASSUME NEW arg \in Args \cup {NoArg}, Execute(arg)  PROVE Inv'
  <2>1. cpu # Lost /\ User \in Context
    BY <1>1 DEF Execute, User, Lost, Context
  <2> QED  BY <1>0, <1>own, <1>1, <2>1, SpawnInv DEF Execute, TypeOK
<1>2. CASE ExecuteFails
  <2> USE <1>0, <1>2 DEF ExecuteFails, terminalVars, pcbVars, globalVars
  <2>1. TypeOK'
    BY DEF TypeOK
  <2>2. ChainInv'
    BY ChainFrame
  <2>3. ContextInv'
    BY DEF ContextInv
  <2> QED  BY <2>1, <2>2, <2>3 DEF Inv
<1>3. CASE FinishOpen
  <2>1. cpu # Lost /\ cpu.opening > 0
    BY <1>3 DEF FinishOpen, Lost
  <2>a. Returned(cpu) \in Context /\ Returned(cpu).program = cpu.program
    BY <1>0, <2>1 DEF TypeOK, Context, Returned
  <2>2. CASE /\ HasRoom(process_array, first_process, Shown)
             /\ Spawn(process_array, first_process, NoArg, Returned(cpu))
    BY <1>0, <1>own, <2>1, <2>a, <2>2, SpawnInv DEF TypeOK
  <2>3. CASE ~HasRoom(process_array, first_process, Shown)
    <3>1. /\ cpu' = Returned(cpu)
          /\ UNCHANGED <<terminalVars, pcbVars, globalVars, user_page, esp0, eax, argbuf>>
      BY <1>3, <2>3 DEF FinishOpen
    <3>2. cpu' \in Context /\ cpu'.program = cpu.program
      BY <2>a, <3>1
    <3> USE <1>0, <2>1, <3>1, <3>2 DEF terminalVars, pcbVars, globalVars
    <3>3. TypeOK'
      BY DEF TypeOK
    <3>4. ChainInv'
      BY ChainFrame
    <3>5. ContextInv'
      BY DEF ContextInv
    <3> QED  BY <3>3, <3>4, <3>5 DEF Inv
  <2> QED  BY <1>3, <2>2, <2>3 DEF FinishOpen
<1>4. ASSUME NEW status \in Status, HaltChild(status)  PROVE Inv'
  BY <1>4, HaltChildInv
<1>5. CASE HaltRoot
  BY <1>5, HaltRootInv
<1>6. CASE Getargs
  <2>1. /\ eax' \in {-1, 0} /\ argbuf' \in Args \cup {NoArg} /\ cpu' \in {cpu, Lost}
        /\ UNCHANGED <<terminalVars, pcbVars, globalVars, user_page, esp0>>
    <3>1. cpu = User
      BY <1>6 DEF Getargs
    <3>2. current_pcb \in Slots
      BY <1>0, <3>1 DEF TypeOK, ContextInv, User, Pids
    <3>3. pcb_arg[current_pcb] \in Args \cup {NoArg}
      BY <1>0, <3>2 DEF TypeOK
    <3> QED  BY <1>0, <1>6, <3>3 DEF Getargs, TypeOK
  <2> USE <1>0, <2>1 DEF terminalVars, pcbVars, globalVars
  <2>a. cpu' \in Context
    BY LostIsContext DEF TypeOK
  <2>2. TypeOK'
    BY <2>a DEF TypeOK
  <2>3. ChainInv'
    BY ChainFrame
  <2>4. ContextInv'
    BY DEF ContextInv, Lost
  <2> QED  BY <2>2, <2>3, <2>4 DEF Inv
<1>7. CASE Pit
  BY <1>7, PitInv
<1>8. ASSUME NEW t \in Terminals, ShowTerminal(t)  PROVE Inv'
  <2>1. t + 1 \in 1 .. NT
    BY SizesAssumption DEF Terminals
  <2> USE <1>0, <1>8, <2>1 DEF ShowTerminal, terminalVars, pcbVars, machineVars
  <2>2. TypeOK'
    BY DEF TypeOK
  <2>3. ChainInv'
    BY ChainFrame
  <2>4. ContextInv'
    BY DEF ContextInv
  <2> QED  BY <2>2, <2>3, <2>4 DEF Inv
<1>9. ASSUME NEW t \in Terminals, OpenTerminal(t)  PROVE Inv'
  <2>1. t + 1 \in 1 .. NT
    BY SizesAssumption DEF Terminals
  <2>2. cpu' \in Context /\ cpu'.program = cpu.program /\ cpu # Lost
    BY <1>0, <1>9, SMTT(30) DEF OpenTerminal, TypeOK, Context
  <2> USE <1>0, <1>9, <2>1, <2>2 DEF OpenTerminal, pcbVars
  <2>3. TypeOK'
    BY DEF TypeOK
  <2>4. ChainInv'
    BY ChainFrame
  <2>5. ContextInv'
    BY DEF ContextInv
  <2> QED  BY <2>3, <2>4, <2>5 DEF Inv
<1>10. CASE UNCHANGED vars
  <2> USE <1>0, <1>10 DEF vars, terminalVars, pcbVars, globalVars, machineVars
  <2>1. TypeOK'
    BY DEF TypeOK
  <2>2. ChainInv'
    BY ChainFrame
  <2>3. ContextInv'
    BY DEF ContextInv
  <2> QED  BY <2>1, <2>2, <2>3 DEF Inv
<1> QED  BY <1>1, <1>2, <1>3, <1>4, <1>5, <1>6, <1>7, <1>8, <1>9, <1>10 DEF Next

\* The invariant implies the properties of ProcessTable.
LEMMA InvProperties ==
  Inv => AddressSpace /\ ParentsWait /\ RootSlots /\ NoLeak /\ TerminalProcess
<1> SUFFICES ASSUME Inv
             PROVE  AddressSpace /\ ParentsWait /\ RootSlots /\ NoLeak /\ TerminalProcess
  OBVIOUS
<1>0. PICK own \in [Slots -> Terminals] :
        Chains(process_array, first_process, parent_pid, current_pid, cur_pcb, own)
  BY DEF Inv, ChainInv
<1>1. AddressSpace
  BY DEF Inv, ContextInv, AddressSpace, User
<1>2. RootSlots
  BY <1>0, SlotsSplit DEF Chains, RootSlots
<1>3. ParentsWait
  BY <1>0, SlotsSplit DEF Chains, ParentsWait
<1>4. NoLeak
  BY <1>0, SlotsSplit DEF Chains, NoLeak
<1>5. TerminalProcess
  <2> SUFFICES ASSUME NEW t \in Terminals, first_process[t]
               PROVE  /\ current_pid[t] \in Slots
                      /\ process_array[current_pid[t]]
                      /\ cur_pcb[t] = current_pid[t]
                      /\ \A p \in Slots : process_array[p] => parent_pid[p] # current_pid[t]
                      /\ \A u \in Terminals :
                           first_process[u] /\ current_pid[u] = current_pid[t] => u = t
    BY DEF TerminalProcess
  <2> QED  BY <1>0, SlotsSplit DEF Chains
<1> QED  BY <1>1, <1>2, <1>3, <1>4, <1>5

-----------------------------------------------------------------------------
(* Theorems *)

LEMMA InvariantHolds == Spec => []Inv
BY InitInv, NextInv, PTL DEF Spec

\* Type correctness of the process table, the terminals and the machine state.
THEOREM TypeCorrect == Spec => []TypeOK
<1>1. Inv => TypeOK
  BY DEF Inv
<1> QED  BY <1>1, InvariantHolds, PTL

\* While a program runs, the mapped frame, the kernel stack and the PCB are
\* those of the scheduled terminal's process, whatever execute, halt, the PIT
\* and the display switch have done before.
THEOREM AddressSpaceCorrect == Spec => []AddressSpace
BY InvProperties, InvariantHolds, PTL

\* halt always finds its parent live and a parent has one child: the PCBs that
\* execute and halt link form chains although they act on different terminals.
THEOREM ParentsWaitCorrect == Spec => []ParentsWait
BY InvProperties, InvariantHolds, PTL

\* Slot t is taken exactly when terminal t has its root shell, so execute never
\* takes the slot of a live root shell.
THEOREM RootSlotsCorrect == Spec => []RootSlots
BY InvProperties, InvariantHolds, PTL

\* No slot of the process array leaks.
THEOREM NoLeakCorrect == Spec => []NoLeak
BY InvProperties, InvariantHolds, PTL

\* The process of a terminal is live, childless and of that terminal only.
THEOREM TerminalProcessCorrect == Spec => []TerminalProcess
BY InvProperties, InvariantHolds, PTL

\* The slot that execute takes is not that of a live process, so the PCBs of
\* live processes keep their parent, arguments and return stack.
LEMMA SpawnKeepsLive ==
  ASSUME TypeOK, RootSlots, HasRoom(process_array, first_process, Shown),
         NEW arg, NEW back, Spawn(process_array, first_process, arg, back)
  PROVE  PcbStep
<1> DEFINE p == Slot(process_array, first_process, Shown)
<1>1. Shown \in Terminals
  BY SizesAssumption DEF TypeOK, Shown, Terminals
<1>2. ~process_array[p]
  BY <1>1, SlotIsFree DEF TypeOK, RootSlots
<1> HIDE DEF p
<1>3. \A q \in Slots : q # p => /\ parent_pid'[q] = parent_pid[q]
                                /\ pcb_arg'[q] = pcb_arg[q]
                                /\ old_esp'[q] = old_esp[q]
  BY DEF Spawn, TypeOK, p
<1> QED  BY <1>2, <1>3 DEF PcbStep

\* The PCB of a live process is never overwritten, except a halting root
\* shell's by the shell that replaces it.
THEOREM PcbStableCorrect == Spec => PcbStable
<1>1. ASSUME Inv, [Next]_vars  PROVE [PcbStep]_vars
  <2>0. TypeOK /\ RootSlots
    BY <1>1, InvProperties DEF Inv
  <2> SUFFICES ASSUME Next  PROVE PcbStep
    BY <1>1
  <2>1. ASSUME NEW arg \in Args \cup {NoArg}, Execute(arg)  PROVE PcbStep
    BY <2>0, <2>1, SpawnKeepsLive DEF Execute
  <2>2. CASE FinishOpen
    <3>1. CASE UNCHANGED pcbVars
      BY <3>1 DEF PcbStep, pcbVars
    <3>2. CASE /\ HasRoom(process_array, first_process, Shown)
               /\ Spawn(process_array, first_process, NoArg, Returned(cpu))
      BY <2>0, <3>2, SpawnKeepsLive
    <3> QED  BY <2>2, <3>1, <3>2 DEF FinishOpen
  <2>3. CASE HaltRoot
    <3> DEFINE fp == [first_process EXCEPT ![curr_terminal] = FALSE]
    <3>1. CASE HasRoom(AfterHalt, fp, Shown) /\ Spawn(AfterHalt, fp, NoArg, Lost)
      <4> DEFINE p == Slot(AfterHalt, fp, Shown)
      <4>1. PICK own \in [Slots -> Terminals] :
              Chains(process_array, first_process, parent_pid, current_pid, cur_pcb, own)
        BY <1>1 DEF Inv, ChainInv
      <4>2. Halting \in Slots /\ parent_pid[Halting] = None
        BY <1>1, <2>3 DEF Inv, ContextInv, HaltRoot, Halting, User
      <4>3. Chains(AfterHalt, fp, parent_pid, current_pid, cur_pcb, own)
        BY <2>0, <4>1, <4>2, PopRoot
      <4>4. Shown \in Terminals /\ fp \in [Terminals -> BOOLEAN]
            /\ AfterHalt \in [Slots -> BOOLEAN]
        BY <2>0, <4>2, SizesAssumption DEF TypeOK, Shown, Terminals, AfterHalt
      <4> HIDE DEF fp
      <4>5. ~AfterHalt[p]
        BY <3>1, <4>3, <4>4, SlotIsFree DEF Chains
      <4> HIDE DEF p
      <4>6. \A q \in Slots : q # p => /\ parent_pid'[q] = parent_pid[q]
                                      /\ pcb_arg'[q] = pcb_arg[q]
                                      /\ old_esp'[q] = old_esp[q]
        BY <2>0, <3>1 DEF Spawn, TypeOK, p
      <4>7. p # Halting => ~process_array[p]
        BY <2>0, <4>2, <4>5 DEF AfterHalt, TypeOK
      <4> QED  BY <2>3, <4>6, <4>7 DEF PcbStep
    <3>2. CASE UNCHANGED <<parent_pid, pcb_arg, old_esp>>
      BY <3>2 DEF PcbStep
    <3> QED  BY <2>3, <3>1, <3>2 DEF HaltRoot
  <2>4. CASE UNCHANGED <<parent_pid, pcb_arg, old_esp>>
    BY <2>4 DEF PcbStep
  <2> QED  BY <2>1, <2>2, <2>3, <2>4 DEF Next, ExecuteFails, HaltChild, Getargs, Pit,
           ShowTerminal, OpenTerminal, pcbVars
<1> QED  BY <1>1, InvariantHolds, PTL DEF Spec, PcbStable
-----------------------------------------------------------------------------
(* ProcessTable implements ProcessStacks *)

\* execute adds a process to the stack of the displayed terminal.
LEMMA SpawnPushes ==
  ASSUME TypeOK, RootSlots, NEW pa, NEW fp, NEW arg, NEW back,
         pa = process_array, fp = first_process,
         HasRoom(pa, fp, Shown), Spawn(pa, fp, arg, back)
  PROVE  \E p \in Slots : Stacks!Push(Shown, p)
<1> DEFINE d == Shown
           p == Slot(pa, fp, d)
<1>1. d \in Terminals
  BY SizesAssumption DEF TypeOK, Shown, Terminals
<1>a. pa \in [Slots -> BOOLEAN] /\ fp \in [Terminals -> BOOLEAN]
  BY DEF TypeOK
<1>b. \/ ~fp[d] /\ p = d
      \/ fp[d] /\ p \in ChildSlots /\ ~pa[p]
  BY <1>1, <1>a, SlotIsFree
<1> HIDE DEF d, p
<1>2. ~process_array[p] /\ p \in Slots
  BY <1>1, <1>b, SlotsSplit DEF RootSlots
<1>3. /\ process_array' = [process_array EXCEPT ![p] = TRUE]
      /\ first_process' = [first_process EXCEPT ![d] = TRUE]
      /\ parent_pid' = [parent_pid EXCEPT ![p] =
                          IF first_process[d] THEN current_pid[d] ELSE None]
      /\ current_pid' = [current_pid EXCEPT ![d] = p]
  BY DEF Spawn, d, p
<1>4. Live' = Live \cup {p} /\ p \notin Live
  BY <1>2, <1>3 DEF Live, TypeOK
<1>5. Parent' = [q \in Live \cup {p} |-> IF q = p THEN Top[d] ELSE Parent[q]]
  <2>1. \A q \in Live \cup {p} :
          parent_pid'[q] = IF q = p THEN Top[d] ELSE Parent[q]
    BY <1>1, <1>2, <1>3, <1>4 DEF Live, Parent, Top, TypeOK
  <2> QED  BY <1>4, <2>1 DEF Parent
<1>6. Top' = [Top EXCEPT ![d] = p]
  BY <1>1, <1>2, <1>3 DEF Top, TypeOK
<1> QED  BY <1>2, <1>4, <1>5, <1>6 DEF Stacks!Push, d

\* halt of a child removes the top process of the scheduled terminal.
LEMMA HaltChildPops ==
  ASSUME Inv, NEW status \in Status, HaltChild(status)
  PROVE  Stacks!Pop(curr_terminal)
<1> DEFINE c == curr_terminal
           me == Halting
<1>0. PICK own \in [Slots -> Terminals] :
        Chains(process_array, first_process, parent_pid, current_pid, cur_pcb, own)
  BY DEF Inv, ChainInv
<1>1. /\ c \in Terminals /\ me \in Slots /\ parent_pid[me] # None
      /\ cur_pcb[c] = me /\ current_pid[c] = me
      /\ process_array \in [Slots -> BOOLEAN] /\ first_process \in [Terminals -> BOOLEAN]
      /\ parent_pid \in [Slots -> Pids] /\ current_pid \in [Terminals -> Pids]
  BY DEF Inv, TypeOK, ContextInv, User, HaltChild, Halting
<1>2. /\ process_array' = [process_array EXCEPT ![me] = FALSE]
      /\ current_pid' = [current_pid EXCEPT ![c] = parent_pid[me]]
      /\ parent_pid' = parent_pid /\ first_process' = first_process
  BY DEF HaltChild, AfterHalt
<1> HIDE DEF c, me
<1>3. first_process[c]
  BY <1>0, <1>1, SlotsSplit DEF Chains
<1>4. process_array[me]
  BY <1>0, <1>1, <1>3 DEF Chains
<1>5. Top[c] = me /\ me \in Live /\ me # None /\ Parent[me] = parent_pid[me]
  BY <1>1, <1>3, <1>4, SlotsSplit DEF Top, Live, Parent
<1>6. Live' = Live \ {me}
  BY <1>1, <1>2 DEF Live
<1>7. Parent' = [q \in Live \ {me} |-> Parent[q]]
  BY <1>2, <1>6 DEF Parent
<1>8. Top' = [Top EXCEPT ![c] = Parent[me]]
  BY <1>1, <1>2, <1>3, <1>5 DEF Top
<1> QED  BY <1>5, <1>6, <1>7, <1>8 DEF Stacks!Pop, c

\* halt of a root shell: its successor takes its place, or goes on top of the
\* stack of the displayed terminal.
LEMMA HaltRootMoves ==
  ASSUME Inv, HaltRoot
  PROVE  [Stacks!Next]_(Stacks!vars)
<1> DEFINE c == curr_terminal
           d == Shown
           fp == [first_process EXCEPT ![curr_terminal] = FALSE]
           p == Slot(AfterHalt, fp, d)
<1>0. PICK own \in [Slots -> Terminals] :
        Chains(process_array, first_process, parent_pid, current_pid, cur_pcb, own)
  BY DEF Inv, ChainInv
<1>1. /\ c \in Terminals /\ d \in Terminals /\ c \in Slots
      /\ process_array \in [Slots -> BOOLEAN] /\ first_process \in [Terminals -> BOOLEAN]
      /\ parent_pid \in [Slots -> Pids] /\ current_pid \in [Terminals -> Pids]
      /\ TypeOK /\ RootSlots
  BY InvProperties, SizesAssumption, SlotsSplit DEF Inv, TypeOK, Shown, Terminals
<1>2. Halting \in Slots /\ parent_pid[Halting] = None /\ current_pid[c] = Halting
  BY DEF Inv, ContextInv, HaltRoot, Halting, User
<1>3. /\ Halting = c
      /\ Chains(AfterHalt, fp, parent_pid, current_pid, cur_pcb, own)
  BY <1>0, <1>1, <1>2, PopRoot
<1>4. AfterHalt = [process_array EXCEPT ![c] = FALSE]
  BY <1>3 DEF AfterHalt
<1>5. process_array[c] <=> first_process[c]
  BY <1>1 DEF RootSlots
<1>6. CASE ~first_process[c] /\ HasRoom(AfterHalt, fp, d) /\ Spawn(AfterHalt, fp, NoArg, Lost)
  <2>1. AfterHalt = process_array /\ fp = first_process
    BY <1>1, <1>4, <1>5, <1>6
  <2>2. \E q \in Slots : Stacks!Push(d, q)
    BY <1>1, <1>6, <2>1, SpawnPushes
  <2> QED  BY <1>1, <2>2 DEF Stacks!Next
<1>7. CASE first_process[c] /\ HasRoom(AfterHalt, fp, d) /\ Spawn(AfterHalt, fp, NoArg, Lost)
  <2>1. \/ ~fp[d] /\ p = d
        \/ fp[d] /\ p \in ChildSlots /\ ~AfterHalt[p]
    BY <1>1, <1>4, <1>7, SlotIsFree
  <2>2. p \in Slots
    BY <1>1, <2>1, SlotsSplit
  <2> HIDE DEF p
  <2>3. /\ process_array' = [AfterHalt EXCEPT ![p] = TRUE]
        /\ first_process' = [fp EXCEPT ![d] = TRUE]
        /\ parent_pid' = [parent_pid EXCEPT ![p] = IF fp[d] THEN current_pid[d] ELSE None]
        /\ current_pid' = [current_pid EXCEPT ![d] = p]
    BY <1>7 DEF Spawn, p
  <2>4. CASE c = d
    <3>1. p = c
      BY <1>1, <2>1, <2>4
    <3>2. process_array' = process_array /\ first_process' = first_process
      BY <1>1, <1>4, <1>5, <1>7, <2>3, <2>4, <3>1
    <3>3. parent_pid' = parent_pid /\ current_pid' = current_pid
      BY <1>1, <1>2, <1>3, <2>3, <2>4, <3>1
    <3> QED  BY <3>2, <3>3 DEF Stacks!vars, Live, Parent, Top
  <2>5. CASE c # d
    <3>1. fp[d] = first_process[d] /\ first_process' = [first_process EXCEPT ![c] = FALSE, ![d] = TRUE]
      BY <1>1, <2>3, <2>5
    <3>2. p # c /\ ~process_array[p]
      BY <1>1, <1>3, <1>4, <2>1, <2>5, <3>1, SlotsSplit DEF RootSlots
    <3>3. Top[c] = c /\ c \in Live /\ c # None /\ Parent[c] = None /\ p \notin Live
      BY <1>1, <1>2, <1>3, <1>5, <1>7, <3>2, SlotsSplit DEF Top, Live, Parent
    <3>4. Live' = (Live \ {c}) \cup {p}
      BY <1>1, <1>4, <2>2, <2>3, <3>2 DEF Live
    <3>5. Parent' = [q \in (Live \ {c}) \cup {p} |-> IF q = p THEN Top[d] ELSE Parent[q]]
      <4>1. \A q \in (Live \ {c}) \cup {p} :
              parent_pid'[q] = IF q = p THEN Top[d] ELSE Parent[q]
        BY <1>1, <2>2, <2>3, <3>1, <3>2 DEF Live, Parent, Top
      <4> QED  BY <3>4, <4>1 DEF Parent
    <3>6. Top' = [Top EXCEPT ![c] = None, ![d] = p]
      BY <1>1, <2>3, <2>5, <3>1 DEF Top
    <3>7. Stacks!Move(c, d, p)
      BY <2>5, <3>3, <3>4, <3>5, <3>6 DEF Stacks!Move
    <3> QED  BY <1>1, <2>2, <3>7 DEF Stacks!Next
  <2> QED  BY <2>4, <2>5
<1>8. CASE ~HasRoom(AfterHalt, fp, d)
  <2> HIDE DEF fp
  <2>1. /\ process_array' = AfterHalt /\ first_process' = fp
        /\ current_pid' = [current_pid EXCEPT ![c] = None]
        /\ parent_pid' = parent_pid
    BY <1>8 DEF HaltRoot, fp
  <2> USE DEF fp
  <2>2. CASE ~first_process[c]
    <3>1. process_array' = process_array /\ first_process' = first_process
      BY <1>1, <1>4, <1>5, <2>1, <2>2
    <3>2. Top' = Top
      BY <1>1, <2>1, <2>2, <3>1 DEF Top
    <3> QED  BY <2>1, <3>1, <3>2 DEF Stacks!vars, Live, Parent
  <2>3. CASE first_process[c]
    <3>1. Top[c] = c /\ c \in Live /\ c # None /\ Parent[c] = None
      BY <1>1, <1>2, <1>3, <1>5, <2>3, SlotsSplit DEF Top, Live, Parent
    <3>2. Live' = Live \ {c}
      BY <1>1, <1>4, <2>1 DEF Live
    <3>3. Parent' = [q \in Live \ {c} |-> Parent[q]]
      BY <2>1, <3>2 DEF Parent
    <3>4. Top' = [Top EXCEPT ![c] = None]
      BY <1>1, <2>1 DEF Top
    <3>5. Stacks!Pop(c)
      BY <3>1, <3>2, <3>3, <3>4 DEF Stacks!Pop
    <3> QED  BY <1>1, <3>5 DEF Stacks!Next
  <2> QED  BY <2>2, <2>3
<1> QED  BY <1>6, <1>7, <1>8 DEF HaltRoot

\* The processes form one stack per terminal: execute, called on the displayed
\* terminal, halt, called on the scheduled one, and their failures are steps of
\* ProcessStacks, and nothing else changes the stacks.
THEOREM StacksImplemented == Spec => ImplementsStacks
<1>1. Init => Stacks!Init
  <2> SUFFICES ASSUME Init  PROVE Stacks!Init
    OBVIOUS
  <2>1. Live = {}
    BY DEF Init, Live
  <2>2. Top = [t \in Terminals |-> None]
    BY DEF Init, Top
  <2>3. Parent = [p \in {} |-> None]
    BY <2>1 DEF Parent
  <2> QED  BY <2>1, <2>2, <2>3 DEF Stacks!Init
<1>2. ASSUME Inv, [Next]_vars  PROVE [Stacks!Next]_(Stacks!vars)
  <2>0. TypeOK /\ RootSlots /\ Shown \in Terminals /\ curr_terminal \in Terminals
    BY <1>2, InvProperties, SizesAssumption DEF Inv, TypeOK, Shown, Terminals
  <2>1. ASSUME NEW arg \in Args \cup {NoArg}, Execute(arg)  PROVE Stacks!Next
    BY <2>0, <2>1, SpawnPushes DEF Execute, Stacks!Next
  <2>2. CASE /\ HasRoom(process_array, first_process, Shown)
             /\ Spawn(process_array, first_process, NoArg, Returned(cpu))
    BY <2>0, <2>2, SpawnPushes DEF Stacks!Next
  <2>3. ASSUME NEW status \in Status, HaltChild(status)  PROVE Stacks!Next
    BY <1>2, <2>0, <2>3, HaltChildPops DEF Stacks!Next
  <2>4. CASE HaltRoot
    BY <1>2, <2>4, HaltRootMoves
  <2>5. CASE UNCHANGED <<process_array, first_process, parent_pid, current_pid>>
    BY <2>5 DEF Stacks!vars, Live, Parent, Top
  <2> QED  BY <1>2, <2>1, <2>2, <2>3, <2>4, <2>5
           DEF Next, FinishOpen, ExecuteFails, Getargs, Pit, ShowTerminal, OpenTerminal,
               vars, terminalVars, pcbVars
<1> QED  BY <1>1, <1>2, InvariantHolds, PTL DEF Spec, ImplementsStacks, Stacks!Spec

-----------------------------------------------------------------------------
(* getargs with one terminal *)

\* With one open terminal the displayed, the scheduled and the next terminal
\* are that one, so execute, halt and getargs mean the same terminal.
SingleTerminal ==
  /\ open[0] /\ open[Shown] /\ open[curr_terminal] /\ open[next_terminal]
  /\ (\A t \in Terminals : open[t] => t = 0) =>
       \/ current_pcb = None
       \/ current_pcb = current_pid[0]
       \/ ~process_array[current_pcb] /\ current_pcb \in ChildSlots

LEMMA NextTerminalOpen ==
  ASSUME TypeOK, open[next_terminal]
  PROVE  open[NextTerminal]
<1>1. CASE OpenAhead = {}
  BY <1>1 DEF NextTerminal
<1>2. CASE OpenAhead # {}
  <2> DEFINE i == CHOOSE i \in OpenAhead : \A j \in OpenAhead : i <= j
  <2>1. OpenAhead \in SUBSET Nat
    BY SizesAssumption DEF OpenAhead
  <2>2. i \in OpenAhead
    BY <1>2, <2>1, LeastElement
  <2> HIDE DEF i
  <2>3. open[(curr_terminal + i) % NT]
    BY <2>2 DEF OpenAhead
  <2> QED  BY <1>2, <2>3 DEF NextTerminal, i
<1> QED  BY <1>1, <1>2

LEMMA SingleTerminalNext == Inv /\ SingleTerminal /\ [Next]_vars => SingleTerminal'
<1> SUFFICES ASSUME Inv, SingleTerminal, [Next]_vars  PROVE SingleTerminal'
  OBVIOUS
<1> DEFINE Only == \A t \in Terminals : open[t] => t = 0
<1>0. /\ TypeOK /\ Shown \in Terminals /\ curr_terminal \in Terminals
      /\ next_terminal \in Terminals
  BY SizesAssumption DEF Inv, TypeOK, Shown, Terminals
<1>1. ASSUME NEW pa, NEW fp, NEW arg, NEW back, Spawn(pa, fp, arg, back)  PROVE SingleTerminal'
  <2>1. /\ open' = open /\ current_id' = current_id /\ next_terminal' = next_terminal
        /\ curr_terminal' = Shown /\ current_pid' = [current_pid EXCEPT ![Shown] = current_pcb']
    BY <1>1 DEF Spawn
  <2>2. Only => current_pid'[0] = current_pcb'
    BY <1>0, <2>1 DEF SingleTerminal, TypeOK
  <2> QED  BY <2>1, <2>2 DEF SingleTerminal, Shown
<1>2. ASSUME NEW status \in Status, HaltChild(status)  PROVE SingleTerminal'
  <2>1. PICK own \in [Slots -> Terminals] :
          Chains(process_array, first_process, parent_pid, current_pid, cur_pcb, own)
    BY DEF Inv, ChainInv
  <2>2. Halting \in Slots /\ parent_pid[Halting] # None
    BY <1>2 DEF Inv, ContextInv, HaltChild, Halting, User
  <2>3. Halting \in ChildSlots
    BY <2>1, <2>2, SlotsSplit DEF Chains
  <2>4. current_pcb' = Halting /\ process_array' = [process_array EXCEPT ![Halting] = FALSE]
    BY <1>2 DEF HaltChild, AfterHalt
  <2>5. ~process_array'[current_pcb'] /\ current_pcb' \in ChildSlots
    BY <1>0, <2>2, <2>3, <2>4 DEF TypeOK
  <2> QED  BY <1>2, <2>5 DEF SingleTerminal, HaltChild, Shown
<1>3. CASE HaltRoot
  <2> DEFINE fp == [first_process EXCEPT ![curr_terminal] = FALSE]
  <2>1. CASE Spawn(AfterHalt, fp, NoArg, Lost)
    BY <1>1, <2>1
  <2>2. CASE ~HasRoom(AfterHalt, fp, Shown)
    <3>1. ~Only
      <4>1. Only => ~fp[Shown]
        BY <1>0 DEF SingleTerminal, TypeOK
      <4> QED  BY <2>2, <4>1 DEF HasRoom
    <3>2. UNCHANGED <<open, curr_terminal, next_terminal, current_id>>
      BY <1>3, <2>2 DEF HaltRoot
    <3> QED  BY <3>1, <3>2 DEF SingleTerminal, Shown
  <2> QED  BY <1>3, <2>1, <2>2 DEF HaltRoot
<1>4. CASE Pit
  <2>1. open[NextTerminal]
    BY <1>0, NextTerminalOpen DEF SingleTerminal
  <2>2. /\ next_terminal' = NextTerminal /\ curr_terminal' = NextTerminal
        /\ UNCHANGED <<open, current_id, current_pcb, current_pid, process_array>>
    BY <1>4 DEF Pit, pcbVars
  <2> QED  BY <2>1, <2>2 DEF SingleTerminal, Shown
<1>5. ASSUME NEW t \in Terminals, ShowTerminal(t)  PROVE SingleTerminal'
  <2>1. current_id' = t + 1 /\ (t = 0 \/ open[t]) /\ t \in Nat
    BY <1>5, SlotsSplit DEF ShowTerminal
  <2>2. Shown' = t
    BY <2>1 DEF Shown
  <2>3. UNCHANGED <<open, curr_terminal, next_terminal, current_pcb, current_pid, process_array>>
    BY <1>5 DEF ShowTerminal, terminalVars, pcbVars
  <2> QED  BY <2>1, <2>2, <2>3 DEF SingleTerminal
<1>6. ASSUME NEW t \in Terminals, OpenTerminal(t)  PROVE SingleTerminal'
  <2>1. current_id' = t + 1 /\ t # 0 /\ t \in Nat /\ open' = [open EXCEPT ![t] = TRUE]
    BY <1>6, SlotsSplit DEF OpenTerminal
  <2>2. Shown' = t
    BY <2>1 DEF Shown
  <2>3. open'[t] /\ \A u \in Terminals : open[u] => open'[u]
    BY <1>0, <2>1 DEF TypeOK
  <2>4. UNCHANGED <<curr_terminal, next_terminal>>
    BY <1>6 DEF OpenTerminal
  <2> QED  BY <1>0, <2>1, <2>2, <2>3, <2>4, SlotsSplit DEF SingleTerminal
<1>7. CASE UNCHANGED <<open, current_id, curr_terminal, next_terminal, current_pcb,
                       current_pid, process_array>>
  BY <1>7 DEF SingleTerminal, Shown
<1> QED  BY <1>1, <1>2, <1>3, <1>4, <1>5, <1>6, <1>7
         DEF Next, Execute, FinishOpen, ExecuteFails, Getargs, vars, terminalVars, pcbVars,
             globalVars

\* With one open terminal getargs copies its caller's arguments, or those of
\* the child that halted last, and no other process's.
THEOREM ArgsOfCallerCorrect == Spec => []ArgsOfCaller
<1>1. Init => SingleTerminal
  <2> SUFFICES ASSUME Init  PROVE SingleTerminal
    OBVIOUS
  <2>1. current_id = 1 /\ current_pcb = None /\ curr_terminal = 0 /\ next_terminal = 0
    BY DEF Init
  <2>2. open[0]
    BY SlotsSplit DEF Init
  <2>3. Shown = 0
    BY <2>1 DEF Shown
  <2> QED  BY <2>1, <2>2, <2>3 DEF SingleTerminal
<1>2. Inv /\ SingleTerminal => ArgsOfCaller
  <2> SUFFICES ASSUME Inv, SingleTerminal, \A t \in Terminals : open[t] => t = 0, cpu = User
               PROVE  \/ current_pcb = current_pid[curr_terminal]
                      \/ ~process_array[current_pcb] /\ current_pcb \in ChildSlots
    BY DEF ArgsOfCaller
  <2>1. current_pcb # None
    BY DEF Inv, ContextInv, User
  <2>2. curr_terminal = 0
    BY DEF Inv, TypeOK, SingleTerminal
  <2> QED  BY <2>1, <2>2 DEF SingleTerminal
<1> QED  BY <1>1, <1>2, SingleTerminalNext, InvariantHolds, PTL DEF Spec
=============================================================================
