-------------------------- MODULE InterruptsProofs --------------------------
(***************************************************************************)
(* Proofs about Interrupts, for every number of terminals: nothing blocks  *)
(* the devices.  The invariant adds to NothingBlocked what entry() has     *)
(* unmasked at each point, that nothing is in service when interrupts are  *)
(* first enabled, and that nobody executes a program before a terminal is  *)
(* displayed.                                                              *)
(***************************************************************************)
EXTENDS Interrupts, NatLemmas

\* What is unmasked at each point of entry(); nothing masks it again.
MasksOfPhase ==
  /\ phase \in {"rtc", "terminal", "pit", "execute"} => KeyLine \notin master_mask
  /\ phase \in {"terminal", "pit", "execute"} =>
       Cascade \notin master_mask /\ RtcLine - PortNum \notin slave_mask
  /\ phase = "execute" => PitLine \notin master_mask

\* Before sti() no line was acknowledged.
IdleAtSti == phase = "sti" => isr = {}

\* As long as no terminal is displayed there is no context but that of entry().
NoTerminalYet ==
  current_id = 0 =>
    /\ cpu \in {Boot, Lost}
    /\ \A t \in Terminals : ctx[t].saved \in {Boot, Lost}
    /\ phase \notin {"pit", "execute"}

Inv == TypeOK /\ MasksOfPhase /\ IdleAtSti /\ NoTerminalYet /\ NothingBlocked

\* The three special contexts are contexts; only the first two can take an interrupt.
LEMMA Contexts ==
  /\ User \in Context /\ Boot \in Context /\ Lost \in Context
  /\ User # Lost /\ Boot # Lost /\ User # Boot
  /\ User.opening = 0 /\ Boot.opening = 0 /\ Lost.opening = 0
  BY DEF User, Boot, Lost, Context

\* The IDT leads each line to its own handler.
LEMMA HandlerOfLine ==
  ASSUME NEW l \in Lines
  PROVE  /\ Handler(Vector(l)) = "pit" => l = PitLine
         /\ Handler(Vector(l)) = "keyboard" => l = KeyLine
         /\ Handler(Vector(l)) = "rtc" => l = RtcLine
  BY DEF Handler, Vector, Lines, PitLine, KeyLine, RtcLine, PortNum

\* An EOI for the line that was acknowledged, with no other in service, leaves none.
LEMMA EoiClears ==
  ASSUME isr = {}, NEW l \in Lines
  PROVE  AfterEoi(Acknowledged(l), l) = {}
  BY DEF AfterEoi, Acknowledged, Pin, Lines, PitLine, KeyLine, RtcLine, PortNum, Cascade

\* A line that is taken: the processor is running and nothing is in service.
LEMMA TakesFacts ==
  ASSUME Inv, NEW l, NEW h, Takes(l, h)
  PROVE  cpu # Lost /\ phase \notin {"sti", "icw"} /\ isr = {} /\ irr' \subseteq Lines
  BY DEF Inv, TypeOK, NothingBlocked, Takes

\* The next terminal is a terminal.
LEMMA NextTerminalType ==
  ASSUME TypeOK
  PROVE  NextTerminal \in Terminals
<1>1. CASE OpenAhead = {}
  BY <1>1 DEF NextTerminal, TypeOK
<1>2. CASE OpenAhead # {}
  <2> DEFINE i == CHOOSE i \in OpenAhead : \A j \in OpenAhead : i <= j
  <2> OpenAhead \in SUBSET Nat
    BY NTAssumption DEF OpenAhead
  <2>1. i \in OpenAhead
    BY <1>2, LeastElement
  <2>2. i \in Nat /\ curr_terminal \in Nat
    BY <2>1, NTAssumption DEF OpenAhead, TypeOK, Terminals
  <2>3. (curr_terminal + i) % NT \in Terminals
    BY <2>2, NTAssumption DEF Terminals
  <2> QED  BY <1>2, <2>3 DEF NextTerminal
<1> QED  BY <1>1, <1>2

\* Init implies the inductive invariant.
LEMMA InitInv == ASSUME Init PROVE Inv
<1>1. 0 \in Terminals /\ 0 \in 0 .. NT
  BY NTAssumption DEF Terminals
<1>2. TypeOK
  BY <1>1, Contexts DEF Init, TypeOK, Phases
<1>3. MasksOfPhase /\ IdleAtSti /\ NoTerminalYet /\ NothingBlocked
  BY DEF Init, MasksOfPhase, IdleAtSti, NoTerminalYet, NothingBlocked
<1> QED  BY <1>2, <1>3 DEF Inv

\* A stuttering step keeps the invariant.
LEMMA StutterInv == ASSUME Inv, UNCHANGED vars PROVE Inv'
  BY DEF Inv, TypeOK, MasksOfPhase, IdleAtSti, NoTerminalYet, NothingBlocked, Unmasked,
         vars, chipVars, deviceVars, termVars

-----------------------------------------------------------------------------
(* entry() *)

\* When every line is unmasked, from the masks.
LEMMA AllUnmasked ==
  ASSUME NEW mm, NEW sm, KeyLine \notin mm, Cascade \notin mm, PitLine \notin mm,
         RtcLine - PortNum \notin sm
  PROVE  \A l \in Lines : Pin(l) \notin mm /\ (l >= PortNum => l - PortNum \notin sm)
  BY DEF Lines, Pin, PitLine, KeyLine, RtcLine, PortNum, Cascade

\* sti() and i8259_init.
LEMMA ChipsInv == ASSUME Inv, Sti \/ Icw \/ MaskAll PROVE Inv'
<1>1. TypeOK'
  BY DEF Inv, TypeOK, Sti, Icw, MaskAll, BootStep, Phases, chipVars, deviceVars, termVars
<1>2. MasksOfPhase' /\ IdleAtSti'
  BY DEF MasksOfPhase, IdleAtSti, Sti, Icw, MaskAll, BootStep
<1>3. NoTerminalYet'
  BY DEF Inv, NoTerminalYet, Sti, Icw, MaskAll, BootStep, termVars
<1>4. NothingBlocked'
  BY Contexts DEF Inv, IdleAtSti, NothingBlocked, Sti, Icw, MaskAll, BootStep, chipVars
<1> QED  BY <1>1, <1>2, <1>3, <1>4 DEF Inv

\* The devices and the first terminal are brought up, and their lines unmasked.
LEMMA DevicesInv ==
  ASSUME Inv, IniKeyboard \/ RtcInit \/ TerminalInit \/ PitInit PROVE Inv'
<1> USE DEF Inv
<1>0. /\ cpu = Boot /\ cpu' = cpu /\ cpu # Lost /\ irr' = irr /\ isr' = isr /\ isr = {}
      /\ if_flag = TRUE /\ if_flag' = TRUE /\ ctx' = ctx /\ unseen' = unseen /\ key' = key
      /\ regC' \in BOOLEAN
  BY Contexts DEF IniKeyboard, RtcInit, TerminalInit, PitInit, BootStep, TypeOK,
     NothingBlocked, chipVars, deviceVars, termVars
<1>1. CASE IniKeyboard
  <2>1. /\ master_mask' = master_mask \ {KeyLine} /\ slave_mask' = slave_mask
        /\ phase' = "rtc" /\ UNCHANGED termVars
    BY <1>1 DEF IniKeyboard, BootStep, SetMasks, UnmaskedBy, Masks, KeyLine, PortNum
  <2> QED
    BY <1>0, <2>1, <1>1 DEF TypeOK, Phases, MasksOfPhase, IdleAtSti, NoTerminalYet,
       NothingBlocked, termVars
<1>2. CASE RtcInit
  <2>1. /\ master_mask' = master_mask \ {Cascade}
        /\ slave_mask' = slave_mask \ {RtcLine - PortNum}
        /\ phase = "rtc" /\ phase' = "terminal" /\ UNCHANGED termVars
    BY <1>2 DEF RtcInit, BootStep, SetMasks, UnmaskedBy, MaskedBy, Masks,
       RtcLine, Cascade, PortNum
  <2> QED
    BY <1>0, <2>1, <1>2 DEF TypeOK, Phases, MasksOfPhase, IdleAtSti, NoTerminalYet,
       NothingBlocked, termVars
<1>3. CASE TerminalInit
  <2>1. /\ UNCHANGED <<master_mask, slave_mask>>
        /\ phase = "terminal" /\ phase' = "pit" /\ current_id' = 1
        /\ UNCHANGED curr_terminal /\ open' \in [Terminals -> BOOLEAN]
    BY <1>3 DEF TerminalInit, BootStep, chipVars
  <2>2. 1 \in 0 .. NT
    BY NTAssumption
  <2> QED
    BY <1>0, <2>1, <2>2 DEF TypeOK, Phases, MasksOfPhase, IdleAtSti, NoTerminalYet,
       NothingBlocked
<1>4. CASE PitInit
  <2>1. /\ master_mask' = master_mask \ {PitLine} /\ slave_mask' = slave_mask
        /\ phase = "pit" /\ phase' = "execute" /\ curr_terminal' = 0
        /\ UNCHANGED <<open, current_id>>
    BY <1>4 DEF PitInit, BootStep, SetMasks, UnmaskedBy, Masks, PitLine, PortNum
  <2>2. TypeOK' /\ MasksOfPhase' /\ IdleAtSti' /\ NoTerminalYet'
    <3>1. 0 \in Terminals
      BY NTAssumption DEF Terminals
    <3> QED
      BY <1>0, <2>1, <3>1 DEF TypeOK, Phases, MasksOfPhase, IdleAtSti, NoTerminalYet
  <2>3. NothingBlocked'
    <3>1. \A l \in Lines : Unmasked(l)'
      BY <2>1, <2>2, AllUnmasked DEF MasksOfPhase, Unmasked
    <3> QED  BY <1>0, <3>1 DEF NothingBlocked
  <2> QED  BY <2>2, <2>3
<1> QED  BY <1>1, <1>2, <1>3, <1>4

-----------------------------------------------------------------------------
(* Devices, handlers, programs: the masks stay *)

\* A step outside entry() keeps the invariant if it has the right types, leaves
\* interrupts on and nothing in service, and invents no context before terminal_init.
LEMMA StepInv ==
  ASSUME Inv, TypeOK', UNCHANGED <<phase, master_mask, slave_mask>>,
         cpu' # Lost /\ phase # "sti" => if_flag' /\ isr' = {},
         phase = "sti" => isr' = {}, NoTerminalYet'
  PROVE  Inv'
<1>1. MasksOfPhase' /\ IdleAtSti'
  BY DEF Inv, MasksOfPhase, IdleAtSti
<1>2. phase = "execute" => \A l \in Lines : Unmasked(l)'
  BY AllUnmasked DEF Inv, MasksOfPhase, Unmasked
<1> QED  BY <1>1, <1>2 DEF Inv, NothingBlocked

\* A device ticks.
LEMMA TickInv == ASSUME Inv, PitTick \/ KeyPress \/ RtcTick PROVE Inv'
<1>1. /\ UNCHANGED <<phase, unseen, if_flag, master_mask, slave_mask, isr, termVars, cpu>>
      /\ irr' \subseteq Lines /\ key' \in BOOLEAN /\ regC' \in BOOLEAN
  BY DEF Inv, TypeOK, PitTick, KeyPress, RtcTick, deviceVars, Lines
<1>2. TypeOK' /\ NoTerminalYet'
  BY <1>1 DEF Inv, TypeOK, NoTerminalYet, termVars
<1> QED  BY <1>1, <1>2, StepInv DEF Inv, NothingBlocked, IdleAtSti

\* The clock's handler.
LEMMA RtcInv == ASSUME Inv, RtcInterrupt PROVE Inv'
<1>1. PICK l \in Lines : Takes(l, "rtc") /\ isr' = AfterEoi(Acknowledged(l), RtcLine)
  BY DEF RtcInterrupt
<1>2. isr' = {} /\ irr' \subseteq Lines /\ phase # "sti"
  BY <1>1, TakesFacts, HandlerOfLine, EoiClears DEF Takes
<1>3. /\ regC' = FALSE /\ if_flag' = TRUE
      /\ UNCHANGED <<phase, unseen, master_mask, slave_mask, key, termVars, cpu>>
  BY DEF RtcInterrupt
<1>4. TypeOK' /\ NoTerminalYet'
  BY <1>2, <1>3 DEF Inv, TypeOK, NoTerminalYet, termVars
<1> QED  BY <1>2, <1>3, <1>4, StepInv

\* What all keys have in common.
LEMMA KeyFacts ==
  ASSUME Inv, KeyTaken
  PROVE  /\ isr' = {} /\ irr' \subseteq Lines /\ phase \notin {"sti", "icw"} /\ cpu # Lost
         /\ key' = FALSE /\ if_flag' = TRUE
         /\ UNCHANGED <<phase, unseen, master_mask, slave_mask, regC>>
<1>1. PICK l \in Lines : Takes(l, "keyboard") /\ isr' = AfterEoi(Acknowledged(l), KeyLine)
  BY DEF KeyTaken
<1>2. isr' = {} /\ irr' \subseteq Lines /\ phase \notin {"sti", "icw"} /\ cpu # Lost
  BY <1>1, TakesFacts, HandlerOfLine, EoiClears DEF Takes
<1> QED  BY <1>2 DEF KeyTaken

\* The keyboard's handler, up to a shell that is to be executed.
LEMMA KeyInv ==
  ASSUME Inv, Key \/ \E t \in Terminals : Show(t) \/ Open(t) PROVE Inv'
<1>1. KeyTaken
  BY DEF Key, Show, Open
<1>2. CASE Key
  <2>1. TypeOK' /\ NoTerminalYet'
    BY <1>1, <1>2, KeyFacts, Contexts DEF Key, Inv, TypeOK, NoTerminalYet, termVars
  <2> QED  BY <1>1, <2>1, KeyFacts, StepInv
<1>3. ASSUME NEW t \in Terminals, Show(t) \/ Open(t)  PROVE Inv'
  <2>1. current_id' = t + 1 /\ current_id' \in 0 .. NT /\ current_id' # 0
    BY <1>3, NTAssumption DEF Show, Open, Terminals
  <2>2. cpu' \in Context
    BY <1>3 DEF Show, Open, Inv, TypeOK, Context
  <2>3. open' \in [Terminals -> BOOLEAN] /\ UNCHANGED <<curr_terminal, ctx>>
    BY <1>3 DEF Show, Open, Inv, TypeOK
  <2>4. TypeOK' /\ NoTerminalYet'
    BY <1>1, <2>1, <2>2, <2>3, KeyFacts DEF Inv, TypeOK, NoTerminalYet
  <2> QED  BY <1>1, <2>4, KeyFacts, StepInv
<1> QED  BY <1>2, <1>3

\* The PIT's handler, which may go on in another terminal.
LEMMA PitInv == ASSUME Inv, PitInterrupt PROVE Inv'
<1> DEFINE n == NextTerminal
           all == [ctx EXCEPT ![curr_terminal] = [saved |-> cpu, fresh |-> TRUE]]
<1>0. n \in Terminals /\ curr_terminal \in Terminals
  BY NextTerminalType DEF Inv, TypeOK
<1>1. PICK l \in Lines : Takes(l, "pit") /\ isr' = AfterEoi(Acknowledged(l), PitLine)
  BY DEF PitInterrupt
<1>2. isr' = {} /\ irr' \subseteq Lines /\ phase # "sti"
  BY <1>1, TakesFacts, HandlerOfLine, EoiClears DEF Takes
<1>3. all \in [Terminals -> [saved : Context, fresh : BOOLEAN]]
  BY <1>0 DEF Inv, TypeOK
<1>4. current_id = 0 => \A t \in Terminals : all[t].saved \in {Boot, Lost}
  BY <1>0 DEF Inv, TypeOK, NoTerminalYet
<1> HIDE DEF n, all
<1>5. /\ if_flag' = TRUE /\ curr_terminal' = n /\ ctx' = [all EXCEPT ![n].fresh = FALSE]
      /\ cpu' \in {all[n].saved, Lost}
      /\ UNCHANGED <<phase, unseen, master_mask, slave_mask, deviceVars, open, current_id>>
  BY DEF PitInterrupt, n, all
<1>6. /\ ctx' \in [Terminals -> [saved : Context, fresh : BOOLEAN]]
      /\ \A t \in Terminals : ctx'[t].saved = all[t].saved
  BY <1>0, <1>3, <1>5
<1>7. cpu' \in Context
  BY <1>0, <1>3, <1>5, Contexts
<1>8. TypeOK'
  BY <1>0, <1>2, <1>5, <1>6, <1>7 DEF Inv, TypeOK, deviceVars
<1>9. NoTerminalYet'
  BY <1>0, <1>4, <1>5, <1>6 DEF Inv, NoTerminalYet
<1> QED  BY <1>2, <1>5, <1>8, <1>9, StepInv

\* An exception handler never returns.
LEMMA ExceptionInv == ASSUME Inv, Exception PROVE Inv'
<1>1. /\ if_flag' = FALSE /\ cpu' = Lost
      /\ UNCHANGED <<phase, unseen, chipVars, deviceVars, termVars>>
  BY DEF Exception
<1>2. TypeOK' /\ NoTerminalYet'
  BY <1>1, Contexts DEF Inv, TypeOK, NoTerminalYet, chipVars, deviceVars, termVars
<1> QED  BY <1>1, <1>2, StepInv DEF Inv, IdleAtSti, chipVars

\* execute enters a program, or fails and its caller goes on.
LEMMA ExecuteInv == ASSUME Inv, Execute \/ ExecuteFails PROVE Inv'
<1>0. cpu # Lost
  BY Contexts DEF Execute, ExecuteFails
<1>1. CASE Execute
  <2>1. current_id \in 1 .. NT
    BY <1>1, Contexts DEF Execute, Inv, NoTerminalYet, TypeOK
  <2>2. /\ if_flag' = TRUE /\ cpu' = User /\ curr_terminal' \in Terminals
        /\ ctx' = [ctx EXCEPT ![current_id - 1].fresh = FALSE]
        /\ UNCHANGED <<phase, unseen, chipVars, deviceVars, open, current_id>>
    BY <1>1, <2>1, NTAssumption DEF Execute, EnterProgram, Terminals
  <2>4. ctx' \in [Terminals -> [saved : Context, fresh : BOOLEAN]]
    BY <2>2 DEF Inv, TypeOK
  <2>3. TypeOK' /\ NoTerminalYet'
    BY <2>1, <2>2, <2>4, Contexts DEF Inv, TypeOK, NoTerminalYet, chipVars, deviceVars
  <2> QED  BY <1>0, <2>2, <2>3, StepInv DEF Inv, NothingBlocked, IdleAtSti, chipVars
<1>2. CASE ExecuteFails
  <2>1. /\ if_flag' = TRUE /\ cpu' \in Context /\ current_id # 0
        /\ UNCHANGED <<phase, unseen, chipVars, deviceVars, termVars>>
    BY <1>2, Contexts DEF ExecuteFails, Inv, TypeOK, NoTerminalYet, Context
  <2>2. TypeOK' /\ NoTerminalYet'
    BY <2>1 DEF Inv, TypeOK, NoTerminalYet, chipVars, deviceVars, termVars
  <2> QED  BY <1>0, <2>1, <2>2, StepInv DEF Inv, NothingBlocked, IdleAtSti, chipVars
<1> QED  BY <1>1, <1>2

-----------------------------------------------------------------------------
\* The invariant holds in every reachable state.
THEOREM Invariant == Spec => []Inv
<1>1. Init => Inv
  BY InitInv
<1>2. Inv /\ [Next]_vars => Inv'
  <2> SUFFICES ASSUME Inv, [Next]_vars  PROVE Inv'
    OBVIOUS
  <2>1. CASE UNCHANGED vars
    BY <2>1, StutterInv
  <2>2. CASE Entry
    BY <2>2, ChipsInv, DevicesInv DEF Entry
  <2>3. CASE PitTick \/ KeyPress \/ RtcTick
    BY <2>3, TickInv
  <2>4. CASE RtcInterrupt
    BY <2>4, RtcInv
  <2>5. CASE PitInterrupt
    BY <2>5, PitInv
  <2>6. CASE Key \/ \E t \in Terminals : Show(t) \/ Open(t)
    BY <2>6, KeyInv
  <2>7. CASE Exception
    BY <2>7, ExceptionInv
  <2>8. CASE Execute \/ ExecuteFails
    BY <2>8, ExecuteInv
  <2> QED
    BY <2>1, <2>2, <2>3, <2>4, <2>5, <2>6, <2>7, <2>8 DEF Next
<1> QED  BY <1>1, <1>2, PTL DEF Spec

\* Outside the handlers interrupts are on, no line is in service, and once entry() is
\* done no device is masked, whichever way the processor left the handlers.
THEOREM NothingBlockedCorrect == Spec => []NothingBlocked
<1>1. Inv => NothingBlocked
  BY DEF Inv
<1> QED  BY <1>1, Invariant, PTL
=============================================================================
