--------------------------- MODULE ScreensProofs ---------------------------
(***************************************************************************)
(* Proofs about Screens, for every number of terminals and whichever of    *)
(* them vidmap does not flush the TLB for.  OwnScreen needs that only      *)
(* terminals which were given to a drawing program are fish terminals or   *)
(* have a mapping, and DrawsOwn; that needs that the mapping and the TLB   *)
(* agree while there is one user of them.                                  *)
(***************************************************************************)
EXTENDS Screens, NatLemmas

\* The first terminal is open from the start, and the displayed one is open.
OpenOnes == 0 \in open /\ Shown \in open

\* The copies of do_switch and the drawing concern drawn terminals only.
DrawnOnes == fish \subseteq drawn /\ mapped \subseteq drawn

\* While no page was given to a program of another terminal, the entry of the page
\* table is that of the one terminal with a mapping, and a translation in the TLB
\* is younger than that terminal's last vidmap.
OneMapping ==
  ~shared => /\ \A t \in mapped : vid = t
             /\ tlb # None => tlb = vid /\ mapped # {}

Inv == TypeOK /\ OpenOnes /\ DrawnOnes /\ OneMapping /\ OwnScreen

\* The displayed terminal is a terminal.
LEMMA ShownType == ASSUME TypeOK PROVE Shown \in Terminals
  BY ScreensAssumption DEF TypeOK, Shown, Terminals

\* None is not a terminal.
LEMMA NoneIsNone == None \notin Terminals
  BY ScreensAssumption DEF None, Terminals

\* Init implies the inductive invariant.
LEMMA InitInv == ASSUME Init PROVE Inv
<1>1. 0 \in Terminals /\ 1 \in 1 .. NT
  BY ScreensAssumption DEF Terminals
<1>2. Shown = 0
  BY DEF Init, Shown
<1>3. TypeOK
  BY <1>1 DEF Init, TypeOK, Branches, Loops
<1>4. OpenOnes /\ DrawnOnes /\ OneMapping
  BY <1>2 DEF Init, OpenOnes, DrawnOnes, OneMapping
<1>5. OwnScreen
  BY <1>2 DEF Init, OwnScreen, View
<1> QED  BY <1>3, <1>4, <1>5 DEF Inv

\* The terminal the PIT schedules.
LEMMA PitType == ASSUME TypeOK, Pit PROVE curr_terminal' \in Terminals
<1>1. CASE OpenAhead = {}
  BY <1>1 DEF Pit, TypeOK
<1>2. CASE OpenAhead # {}
  <2> DEFINE i == CHOOSE i \in OpenAhead : \A j \in OpenAhead : i <= j
  <2> OpenAhead \in SUBSET Nat
    BY ScreensAssumption DEF OpenAhead
  <2>1. i \in OpenAhead
    BY <1>2, LeastElement
  <2>2. i \in Nat /\ curr_terminal \in Nat
    BY <2>1, ScreensAssumption DEF OpenAhead, TypeOK, Terminals
  <2>3. (curr_terminal + i) % NT \in Terminals
    BY <2>2, ScreensAssumption DEF Terminals
  <2> QED  BY <1>2, <2>3 DEF Pit
<1> QED  BY <1>1, <1>2

\* A program that draws reaches its own terminal's page: the invariant implies it.
LEMMA ReachedOwn == ASSUME Inv PROVE DrawsOwn
<1> SUFFICES ASSUME ~shared, curr_terminal \in mapped  PROVE Reached = {curr_terminal}
  BY DEF DrawsOwn
<1>1. vid = curr_terminal /\ tlb \in {vid, None}
  BY DEF Inv, OneMapping
<1> QED  BY <1>1 DEF Reached

-----------------------------------------------------------------------------
(* The actions *)

\* A stuttering step keeps the invariant.
LEMMA StutterInv == ASSUME Inv, UNCHANGED vars PROVE Inv'
  BY DEF Inv, TypeOK, OpenOnes, DrawnOnes, OneMapping, OwnScreen, View, Shown,
         vars, pageVars, termVars, mapVars, histVars

\* An output of a terminal that goes where it belongs keeps what every terminal shows.
LEMMA WriteInv ==
  ASSUME Inv, NEW t \in Terminals,
         WriteCall(t) \/ WriteShown(t) \/ WriteHidden(t) \/ WriteHiddenDone(t) \/ WriteEnd(t)
  PROVE  Inv'
<1>1. Shown \in Terminals
  BY ShownType DEF Inv
<1>2. CASE WriteCall(t) \/ WriteHiddenDone(t) \/ WriteEnd(t)
  BY <1>2 DEF Inv, TypeOK, OpenOnes, DrawnOnes, OneMapping, OwnScreen, View, Shown,
      WriteCall, WriteHiddenDone, WriteEnd, pageVars, termVars, mapVars, histVars,
      Branches, Loops
<1>3. CASE WriteShown(t)
  <2>1. TypeOK' /\ OpenOnes' /\ DrawnOnes' /\ OneMapping'
    BY <1>3 DEF Inv, TypeOK, OpenOnes, DrawnOnes, OneMapping, Shown,
      WriteShown, ToScreen, termVars, mapVars, Branches, Loops
  <2>2. OwnScreen'
    <3> SUFFICES ASSUME ~strayed', ~shared', NEW u \in open' \ drawn'
                 PROVE  View(u)'
      BY DEF OwnScreen
    <3>1. t = Shown /\ ~strayed /\ ~shared /\ u \in open \ drawn /\ Shown' = Shown
      BY <1>3 DEF WriteShown, Inv, TypeOK, Shown, termVars
    <3>2. View(u)
      BY <3>1 DEF Inv, OwnScreen
    <3>3. u \in Terminals
      BY <3>1 DEF Inv, TypeOK
    <3> QED  BY <1>3, <3>1, <3>2, <3>3 DEF View, WriteShown, ToScreen, Inv, TypeOK
  <2> QED  BY <2>1, <2>2 DEF Inv
<1>4. CASE WriteHidden(t)
  <2>1. TypeOK' /\ OpenOnes' /\ DrawnOnes' /\ OneMapping'
    BY <1>4 DEF Inv, TypeOK, OpenOnes, DrawnOnes, OneMapping, Shown,
      WriteHidden, ToPage, termVars, mapVars, Branches, Loops
  <2>2. OwnScreen'
    BY <1>4 DEF Inv, TypeOK, OwnScreen, View, Shown, WriteHidden, ToPage, termVars
  <2> QED  BY <2>1, <2>2 DEF Inv
<1> QED  BY <1>2, <1>3, <1>4

\* So does what the keyboard handler prints.
LEMMA EchoInv == ASSUME Inv, Echo \/ ClearScreen PROVE Inv'
<1>1. Shown \in Terminals
  BY ShownType DEF Inv
<1>2. Shown' = Shown /\ UNCHANGED <<open, drawn, strayed, shared>>
  BY DEF Echo, ClearScreen, ToScreen, termVars, histVars, Shown
<1>3. \A u \in Terminals : u # Shown => page'[u] = page[u]
  BY DEF Echo, ClearScreen, ToScreen, Inv, TypeOK
<1>4. screen => screen'
  BY DEF Echo, ClearScreen, ToScreen, Inv, TypeOK
<1>5. TypeOK' /\ OpenOnes' /\ DrawnOnes' /\ OneMapping'
  BY <1>1, <1>2 DEF Inv, TypeOK, OpenOnes, DrawnOnes, OneMapping,
      Echo, ClearScreen, ToScreen, termVars, mapVars, histVars
<1>6. OwnScreen'
  BY <1>2, <1>3, <1>4 DEF Inv, TypeOK, OwnScreen, View
<1> QED  BY <1>5, <1>6 DEF Inv

\* Alt-F: the terminal that is left has its screen in its page, the other one its page
\* on the screen.
LEMMA SwitchInv ==
  ASSUME Inv, NEW t \in Terminals, SwitchTerminal(t) PROVE Inv'
<1>1. Shown \in Terminals /\ Shown \in open /\ 0 \in open
  BY ShownType DEF Inv, OpenOnes
<1>2. Shown' = t /\ t # Shown
  BY ScreensAssumption DEF SwitchTerminal, Shown, Terminals
<1>3. t + 1 \in 1 .. NT
  BY ScreensAssumption DEF Terminals
<1>4. TypeOK' /\ OpenOnes' /\ DrawnOnes' /\ OneMapping'
  BY <1>1, <1>2, <1>3 DEF Inv, TypeOK, OpenOnes, DrawnOnes, OneMapping,
      SwitchTerminal, Restores, mapVars
<1>5. OwnScreen'
  <2> SUFFICES ASSUME ~strayed', ~shared', NEW u \in open' \ drawn'
               PROVE  View(u)'
    BY DEF OwnScreen
  <2>1. ~strayed /\ ~shared /\ u \notin drawn /\ u \in open \cup {t} /\ wpc[t] # "char"
    BY DEF SwitchTerminal
  <2>2. u \in open => View(u)
    BY <2>1 DEF Inv, OwnScreen
  <2>3. CASE u = t
    <3>1. View(u)' = screen'
      BY <2>3, <1>2 DEF View
    <3>2. CASE Restores(t)
      BY <1>1, <1>2, <2>1, <2>2, <2>3, <3>1, <3>2 DEF Restores, View, SwitchTerminal
    <3>3. CASE ~Restores(t)
      BY <3>1, <3>3 DEF SwitchTerminal
    <3> QED  BY <3>2, <3>3
  <2>4. CASE u # t
    <3>1. u \in Terminals /\ View(u)' = page'[u] /\ View(u)
      BY <2>1, <2>2, <2>4, <1>2 DEF View, Inv, TypeOK
    <3> QED  BY <3>1, <2>4 DEF View, SwitchTerminal, Inv, TypeOK
  <2> QED  BY <2>3, <2>4
<1> QED  BY <1>4, <1>5 DEF Inv

\* The processor goes to the displayed terminal, or stays after the message: types, and
\* what strayed stays so.
LEMMA TakenType ==
  ASSUME TypeOK, Taken \/ TableFull \/ UNCHANGED <<curr_terminal, wpc, strayed>>
  PROVE  /\ curr_terminal' \in Terminals /\ wpc' \in [Terminals -> Branches]
         /\ strayed' \in BOOLEAN /\ (~strayed' => ~strayed)
  BY ShownType DEF TypeOK, Taken, TableFull

\* The message for a displayed terminal goes to the screen of that terminal; the others
\* are as before, but for those that draw.
LEMMA MessageShown ==
  ASSUME Inv, TableFull, Shown' = Shown, UNCHANGED <<open, shared>>, drawn \subseteq drawn',
         page' \in [Terminals -> BOOLEAN],
         \A u \in Terminals \ drawn' : u # curr_terminal => page'[u] = page[u]
  PROVE  OwnScreen'
<1> SUFFICES ASSUME ~strayed', ~shared', NEW u \in open' \ drawn'
             PROVE  View(u)'
  BY DEF OwnScreen
<1>1. curr_terminal = Shown /\ ~strayed /\ ~shared /\ screen' = screen
  BY DEF TableFull, Inv, TypeOK
<1>2. u \in open \ drawn /\ u \in Terminals
  BY DEF Inv, TypeOK
<1>3. View(u)
  BY <1>1, <1>2 DEF Inv, OwnScreen
<1> QED  BY <1>1, <1>2, <1>3 DEF View

\* execute: the copy for fish concerns a terminal that draws from then on.
LEMMA ExecuteInv == ASSUME Inv, Execute PROVE Inv'
<1>1. Shown \in Terminals /\ Shown' = Shown /\ curr_terminal \in Terminals
  BY ShownType DEF Inv, TypeOK, Execute, Shown
<1>2. UNCHANGED <<open, current_id, vid, mapped, shared>>
  BY DEF Execute
<1>3. PICK isFish \in BOOLEAN, outcome \in {"missing", "full", "runs"} :
        LET copied == IF isFish THEN [page EXCEPT ![Shown] = screen] ELSE page
        IN /\ page' = IF outcome = "full" THEN [copied EXCEPT ![curr_terminal] = FALSE] ELSE copied
           /\ IF isFish THEN fish' = fish \cup {Shown} /\ drawn' = drawn \cup {Shown}
                        ELSE UNCHANGED <<fish, drawn>>
           /\ \/ /\ outcome = "missing"
                 /\ UNCHANGED <<screen, curr_terminal, wpc, tlb, strayed>>
                 /\ synced' = (synced \/ isFish)
              \/ /\ outcome = "full"
                 /\ TableFull
                 /\ UNCHANGED tlb
              \/ /\ outcome = "runs"
                 /\ Taken
                 /\ tlb' = None
                 /\ UNCHANGED screen
                 /\ synced' = (synced \/ isFish)
  BY DEF Execute
<1>4. /\ tlb' \in {tlb, None} /\ fish \subseteq fish' /\ fish' \subseteq fish \cup {Shown}
      /\ drawn' \subseteq drawn \cup {Shown} /\ drawn \subseteq drawn'
      /\ (Shown \in drawn' \/ UNCHANGED <<fish, drawn>>)
  BY <1>3
<1>5. /\ curr_terminal' \in Terminals /\ wpc' \in [Terminals -> Branches]
      /\ strayed' \in BOOLEAN /\ (~strayed' => ~strayed)
  BY <1>3, TakenType DEF Inv
<1>6. page' \in [Terminals -> BOOLEAN] /\ screen' \in BOOLEAN /\ synced' \in BOOLEAN
  BY <1>1, <1>3 DEF Inv, TypeOK, TableFull
<1>7. TypeOK'
  BY <1>1, <1>2, <1>4, <1>5, <1>6 DEF Inv, TypeOK
<1>8. OpenOnes' /\ DrawnOnes' /\ OneMapping'
  BY <1>1, <1>2, <1>4 DEF Inv, OpenOnes, DrawnOnes, OneMapping
<1>9. OwnScreen'
  <2>1. CASE outcome = "full"
    <3>1. TableFull /\ \A u \in Terminals \ drawn' : u # curr_terminal => page'[u] = page[u]
      BY <1>1, <1>3, <2>1 DEF Inv, TypeOK
    <3> QED  BY <1>1, <1>2, <1>4, <1>6, <3>1, MessageShown
  <2>2. CASE outcome # "full"
    <3>1. screen' = screen /\ \A u \in Terminals \ drawn' : page'[u] = page[u]
      BY <1>1, <1>3, <2>2 DEF Inv, TypeOK
    <3> QED  BY <1>1, <1>2, <1>4, <1>5, <3>1 DEF Inv, TypeOK, OwnScreen, View
  <2> QED  BY <2>1, <2>2
<1> QED  BY <1>7, <1>8, <1>9 DEF Inv

\* halt: mappings and flags go, nothing is drawn.
LEMMA HaltInv == ASSUME Inv, Halt PROVE Inv'
<1>1. Shown' = Shown /\ UNCHANGED <<open, current_id, vid, drawn, shared>>
  BY DEF Halt, Shown
<1>2. tlb' = None /\ fish' \subseteq fish /\ mapped' \subseteq mapped
  BY DEF Halt
<1>3. \/ UNCHANGED <<screen, page, synced>> /\ (Taken \/ UNCHANGED <<curr_terminal, wpc, strayed>>)
      \/ TableFull /\ page' = [page EXCEPT ![curr_terminal] = FALSE]
  BY DEF Halt
<1>4. /\ curr_terminal' \in Terminals /\ wpc' \in [Terminals -> Branches]
      /\ strayed' \in BOOLEAN /\ (~strayed' => ~strayed)
  BY <1>3, TakenType DEF Inv
<1>5. screen' \in BOOLEAN /\ page' \in [Terminals -> BOOLEAN] /\ synced' \in BOOLEAN
  BY <1>3 DEF Inv, TypeOK, TableFull
<1>6. TypeOK'
  BY <1>1, <1>2, <1>4, <1>5 DEF Inv, TypeOK
<1>7. OpenOnes' /\ DrawnOnes' /\ OneMapping'
  BY <1>1, <1>2 DEF Inv, OpenOnes, DrawnOnes, OneMapping
<1>8. OwnScreen'
  <2>1. CASE UNCHANGED <<screen, page>>
    BY <1>1, <1>4, <2>1 DEF Inv, OwnScreen, View
  <2>2. CASE TableFull /\ page' = [page EXCEPT ![curr_terminal] = FALSE]
    BY <1>1, <1>5, <2>2, MessageShown DEF Inv, TypeOK
  <2> QED  BY <1>3, <2>1, <2>2
<1> QED  BY <1>6, <1>7, <1>8 DEF Inv

\* vidmap: without a flush a translation stays only of a mapping that is replaced by
\* itself.
LEMMA VidmapInv == ASSUME Inv, Vidmap PROVE Inv'
<1> DEFINE t == curr_terminal
<1>1. Shown \in Terminals /\ t \in Terminals /\ Shown' = Shown
  BY ShownType DEF Inv, TypeOK, Vidmap, termVars, Shown
<1>2. /\ vid' = Shown /\ tlb' \in {tlb, None} /\ mapped' = mapped \cup {t}
      /\ drawn' = drawn \cup {t}
      /\ shared' = (shared \/ t # Shown \/ mapped \ {t} # {})
      /\ UNCHANGED <<pageVars, termVars, wpc, strayed>>
  BY DEF Vidmap, Entry
<1>3. TypeOK'
  BY <1>1, <1>2 DEF Inv, TypeOK, pageVars, termVars
<1>4. OneMapping'
  <2> SUFFICES ASSUME ~shared'
               PROVE  /\ \A u \in mapped' : vid' = u
                      /\ tlb' # None => tlb' = vid' /\ mapped' # {}
    BY DEF OneMapping
  <2>1. ~shared /\ t = Shown /\ mapped \subseteq {t}
    BY <1>2
  <2>2. tlb # None => tlb = t
    BY <2>1 DEF Inv, OneMapping
  <2> QED  BY <1>2, <2>1, <2>2
<1>5. OpenOnes' /\ DrawnOnes' /\ OwnScreen'
  BY <1>1, <1>2 DEF Inv, OpenOnes, DrawnOnes, OwnScreen, View, pageVars, termVars
<1> QED  BY <1>3, <1>4, <1>5 DEF Inv

\* Drawing changes the page of the drawing program's own terminal only.
LEMMA DrawInv == ASSUME Inv, Draw PROVE Inv'
<1> DEFINE t == curr_terminal
<1>1. PICK u \in Reached :
        /\ page' = [page EXCEPT ![u] = @ /\ u = t]
        /\ screen' = (screen /\ t # Shown)
        /\ synced' = (synced /\ u # Shown)
        /\ tlb' = u
  BY DEF Draw
<1>2. Shown' = Shown /\ t \in mapped /\ UNCHANGED <<fish, termVars, wpc, vid, mapped, histVars>>
  BY DEF Draw, termVars, Shown
<1>3. u \in Terminals \cup {None}
  BY <1>1 DEF Reached, Inv, TypeOK
<1>4. page' \in [Terminals -> BOOLEAN]
  BY <1>1, <1>3 DEF Inv, TypeOK
<1>5. TypeOK'
  BY <1>1, <1>2, <1>3, <1>4 DEF Inv, TypeOK, termVars, histVars
<1>6. ~shared => u = t /\ vid = t
  BY <1>2, ReachedOwn DEF DrawsOwn, Inv, OneMapping
<1>7. OpenOnes' /\ DrawnOnes' /\ OneMapping'
  BY <1>1, <1>2, <1>6 DEF Inv, OpenOnes, DrawnOnes, OneMapping, termVars, histVars
<1>8. OwnScreen'
  <2> SUFFICES ASSUME ~strayed', ~shared', NEW v \in open' \ drawn'
               PROVE  View(v)'
    BY DEF OwnScreen
  <2>1. ~strayed /\ ~shared /\ v \in open \ drawn
    BY <1>2 DEF histVars, termVars
  <2>2. View(v) /\ t \in drawn /\ v # t /\ u = t
    BY <1>2, <1>6, <2>1 DEF Inv, OwnScreen, DrawnOnes
  <2> QED  BY <1>1, <1>2, <2>1, <2>2 DEF View, Inv, TypeOK
<1> QED  BY <1>5, <1>7, <1>8 DEF Inv

\* The copy of do_switch is that of a terminal that draws.
LEMMA PitInv == ASSUME Inv, Pit PROVE Inv'
<1>1. curr_terminal' \in Terminals
  BY PitType DEF Inv
<1>2. /\ Shown' = Shown /\ tlb' = None
      /\ UNCHANGED <<page, fish, open, current_id, wpc, vid, mapped, histVars>>
  BY DEF Pit, Shown
<1>3. \/ UNCHANGED <<screen, synced>>
      \/ Shown \in fish /\ screen' = page[Shown] /\ synced' = TRUE
  BY DEF Pit, Copies
<1>4. TypeOK'
  BY <1>1, <1>2, <1>3, ShownType DEF Inv, TypeOK, histVars
<1>5. OpenOnes' /\ DrawnOnes' /\ OneMapping'
  BY <1>2 DEF Inv, OpenOnes, DrawnOnes, OneMapping, histVars
<1>6. OwnScreen'
  BY <1>2, <1>3 DEF Inv, OwnScreen, DrawnOnes, View, histVars
<1> QED  BY <1>4, <1>5, <1>6 DEF Inv

-----------------------------------------------------------------------------
\* The invariant holds in every reachable state.
THEOREM Invariant == Spec => []Inv
<1>1. Init => Inv
  BY InitInv
<1>2. Inv /\ [Next]_vars => Inv'
  <2> SUFFICES ASSUME Inv, [Next]_vars  PROVE Inv'
    OBVIOUS
  <2>1. CASE UNCHANGED vars
    BY <2>1, StutterInv
  <2>2. CASE \E t \in Terminals : WriteCall(t) \/ WriteShown(t) \/ WriteHidden(t)
                                   \/ WriteHiddenDone(t) \/ WriteEnd(t)
    BY <2>2, WriteInv
  <2>3. CASE Echo \/ ClearScreen
    BY <2>3, EchoInv
  <2>4. CASE \E t \in Terminals : SwitchTerminal(t)
    BY <2>4, SwitchInv
  <2>5. CASE Execute
    BY <2>5, ExecuteInv
  <2>6. CASE Halt
    BY <2>6, HaltInv
  <2>7. CASE Vidmap
    BY <2>7, VidmapInv
  <2>8. CASE Draw
    BY <2>8, DrawInv
  <2>9. CASE Pit
    BY <2>9, PitInv
  <2> QED
    BY <2>1, <2>2, <2>3, <2>4, <2>5, <2>6, <2>7, <2>8, <2>9 DEF Next
<1> QED  BY <1>1, <1>2, PTL DEF Spec

\* The screen of a terminal shows all of its own output and nothing else, through all
\* copies of Alt-F, fish and do_switch, until an output goes astray.
THEOREM OwnScreenCorrect == Spec => []OwnScreen
<1>1. Inv => OwnScreen
  BY DEF Inv
<1> QED  BY <1>1, Invariant, PTL

\* A program that draws reaches its own terminal's page only, although vidmap shares
\* one entry and does not flush the TLB for one of the terminals.
THEOREM DrawsOwnCorrect == Spec => []DrawsOwn
<1>1. Inv => DrawsOwn
  BY ReachedOwn
<1> QED  BY <1>1, Invariant, PTL
=============================================================================
