--------------------------- MODULE LineInputProofs ---------------------------
(***************************************************************************)
(* Proofs about LineInput for any number of terminals, any buffer size and *)
(* any set of characters.                                                  *)
(***************************************************************************)
EXTENDS LineInput, NatLemmas, TLAPS, SequenceTheorems

\* The displayed terminal is open, which is what SingleTerminalFits needs to be
\* inductive: with one open terminal, any display switch opens another.
ShownOpen == open[Shown]

Inv == TypeOK /\ ShownOpen /\ IndexCovers /\ SingleTerminalFits

LEMMA ShownType ==
  ASSUME TypeOK
  PROVE  Shown \in Terminals
BY SizesAssumption DEF TypeOK, Shown, Terminals

LEMMA EmptyType == Empty \in Buffers /\ \A i \in Positions : Empty[i] = NUL
BY DEF Empty, Buffers, Bytes

\* Overlaying buffers gives a buffer.
LEMMA OverlayType ==
  ASSUME NEW b \in Buffers, NEW c \in Buffers, NEW n \in Nat
  PROVE  Overlay(b, c, n) \in Buffers
BY DEF Overlay, Buffers

\* A prefix of a buffer is a sequence of bytes.
LEMMA PrefixType ==
  ASSUME NEW b \in Buffers, NEW n \in Nat, n <= BufSize
  PROVE  Prefix(b, n) \in Seq(Bytes)
<1>1. \A i \in 1 .. n : b[i - 1] \in Bytes
  BY SizesAssumption DEF Buffers, Positions
<1>2. Prefix(b, n) \in [1 .. n -> Bytes]
  BY <1>1 DEF Prefix
<1> QED  BY <1>2, SeqDef

\* What prout does to the keyboard buffer.
LEMMA ProutType ==
  ASSUME TypeOK, NEW c \in Bytes
  PROVE  /\ Stored(c) \in Buffers
         /\ Advanced \in Nat
         /\ (Accepts => count + 1 \in 0 .. BufSize)
BY SizesAssumption DEF TypeOK, Stored, Advanced, Accepts, Buffers, Positions

-----------------------------------------------------------------------------
(* Type correctness *)

LEMMA InitInv == Init => Inv
<1> SUFFICES ASSUME Init  PROVE Inv
  OBVIOUS
<1>1. TypeOK
  <2>1. <<>> \in Seq(Bytes)
    OBVIOUS
  <2>2. rpc \in [Terminals -> Points \cup {"none"}]
    BY DEF Init, Points
  <2>3. 0 \in Terminals /\ 1 \in 1 .. NT /\ 0 \in 0 .. BufSize
    BY SizesAssumption DEF Terminals
  <2> QED  BY <2>1, <2>2, <2>3, EmptyType DEF Init, TypeOK
<1>2. ShownOpen /\ IndexCovers /\ SingleTerminalFits
  BY EmptyType, SizesAssumption
  DEF Init, ShownOpen, Shown, IndexCovers, SingleTerminalFits, Terminals
<1> QED  BY <1>1, <1>2 DEF Inv

LEMMA TypeNext == TypeOK /\ [Next]_vars => TypeOK'
<1> SUFFICES ASSUME TypeOK, [Next]_vars  PROVE TypeOK'
  OBVIOUS
<1> USE ShownType
<1>1. ASSUME NEW c \in Chars, Type(c)  PROVE TypeOK'
  <2>1. Stored(c) \in Buffers /\ Advanced \in Nat /\ (Accepts => count + 1 \in 0 .. BufSize)
    BY ProutType DEF Bytes
  <2> QED  BY <1>1, <2>1 DEF Type, TypeOK, termVars, procVars
<1>2. CASE Backspace
  <2>1. keyboardbuf' \in Buffers
    BY <1>2, SizesAssumption DEF Backspace, TypeOK, Buffers, Bytes, Positions
  <2>2. count' \in 0 .. BufSize /\ buf_index' \in Nat /\ overrun' \in BOOLEAN
    BY <1>2, SizesAssumption DEF Backspace, TypeOK
  <2> QED  BY <1>2, <2>1, <2>2 DEF Backspace, TypeOK, termVars, procVars
<1>3. CASE Enter
  <2>1. Stored(NL) \in Buffers /\ Advanced \in Nat
    BY ProutType DEF Bytes
  <2>2. tbuf' \in [Terminals -> Buffers] /\ entered' \in [Terminals -> Seq(Bytes)]
        /\ overrun' \in BOOLEAN
    <3>1. CASE Advanced <= BufSize
      <4>1. Overlay(tbuf[Shown], Stored(NL), Advanced) \in Buffers
        BY <2>1, OverlayType DEF TypeOK
      <4>2. Prefix(Stored(NL), Advanced) \in Seq(Bytes)
        BY <2>1, <3>1, PrefixType
      <4> QED  BY <1>3, <3>1, <4>1, <4>2 DEF Enter, TypeOK
    <3>2. CASE ~(Advanced <= BufSize)
      BY <1>3, <3>2 DEF Enter, TypeOK
    <3> QED  BY <3>1, <3>2
  <2>3. tindex' \in [Terminals -> Nat]
    BY <1>3, <2>1 DEF Enter, TypeOK
  <2> QED  BY <1>3, <2>2, <2>3, EmptyType, SizesAssumption DEF Enter, TypeOK, procVars
<1>4. CASE ClearScreen
  BY <1>4, SizesAssumption DEF ClearScreen, TypeOK, termVars, procVars
<1>5. ASSUME NEW t \in Terminals, SwitchTerminal(t)  PROVE TypeOK'
  <2> DEFINE index == [tindex EXCEPT ![Shown] = buf_index]
  <2>1. index \in [Terminals -> Nat]
    BY DEF TypeOK
  <2>2. tbuf' \in [Terminals -> Buffers] /\ overrun' \in BOOLEAN
    <3>1. Overlay(Empty, keyboardbuf, buf_index) \in Buffers
      BY OverlayType, EmptyType DEF TypeOK
    <3> QED  BY <1>5, <3>1 DEF SwitchTerminal, TypeOK
  <2>3. keyboardbuf' \in Buffers /\ buf_index' \in Nat
    <3>1. Overlay(Empty, tbuf[t], index[t]) \in Buffers
      BY <2>1, OverlayType, EmptyType DEF TypeOK
    <3> QED  BY <1>5, <2>1, <3>1, EmptyType DEF SwitchTerminal
  <2>4. t + 1 \in 1 .. NT
    BY SizesAssumption DEF Terminals
  <2>5. opening' \subseteq Terminals
    BY <1>5 DEF SwitchTerminal, TypeOK
  <2> QED  BY <1>5, <2>1, <2>2, <2>3, <2>4, <2>5 DEF SwitchTerminal, TypeOK
<1>6. ASSUME NEW t \in Terminals, ReadCall(t) \/ TestFlag(t) \/ TestTerminal(t)
      PROVE  TypeOK'
  BY <1>6 DEF ReadCall, TestFlag, TestTerminal, TypeOK, keyVars, termVars, Points, Waiting
<1>7. ASSUME NEW t \in Terminals, Copy(t)  PROVE TypeOK'
  <2>1. Wiped(tbuf[Shown], tindex[Shown]) \in Buffers
    BY OverlayType, EmptyType DEF TypeOK, Wiped
  <2>2. <<>> \in Seq(Bytes)
    OBVIOUS
  <2> QED  BY <1>7, <2>1, <2>2 DEF Copy, TypeOK, keyVars, Points
<1>8. CASE Pit
  <2> OpenAhead \in SUBSET (1 .. NT - 1)
    BY DEF OpenAhead
  <2>0. curr_terminal \in Terminals
    BY DEF TypeOK
  <2>1. \A i \in OpenAhead : (curr_terminal + i) % NT \in Terminals
    BY <2>0, SizesAssumption DEF Terminals
  <2>2. OpenAhead \in SUBSET Nat
    BY SizesAssumption DEF OpenAhead
  <2>3. OpenAhead # {} /\ curr_terminal' = Ahead
    BY <1>8 DEF Pit
  <2>4. (CHOOSE i \in OpenAhead : \A j \in OpenAhead : i <= j) \in OpenAhead
    BY <2>2, <2>3, LeastElement
  <2>5. Ahead \in Terminals
    BY <2>1, <2>4 DEF Ahead
  <2>6. /\ rpc' \in [Terminals -> Points \cup {"none"}] /\ opening' \subseteq Terminals
        /\ stale' \subseteq Terminals /\ lost' \in BOOLEAN
    BY <1>8, <2>5 DEF Pit, TypeOK
  <2> QED  BY <1>8, <2>3, <2>5, <2>6 DEF Pit, TypeOK, keyVars, termVars
<1>9. ASSUME NEW t \in Terminals, Execute(t) \/ Return(t)  PROVE TypeOK'
  <2>1. Waiting \subseteq Points /\ "run" \in Points
    BY DEF Points
  <2>2. /\ rpc' \in [Terminals -> Points \cup {"none"}] /\ opening' \subseteq Terminals
        /\ stale' \subseteq Terminals /\ lost' = lost /\ curr_terminal' \in Terminals
    BY <1>9, <2>1 DEF Execute, Return, TypeOK
  <2> QED  BY <1>9, <2>2 DEF Execute, Return, TypeOK, keyVars, termVars
<1>10. CASE UNCHANGED vars
  BY <1>10 DEF vars, keyVars, termVars, procVars, TypeOK
<1> QED  BY <1>1, <1>2, <1>3, <1>4, <1>5, <1>6, <1>7, <1>8, <1>9, <1>10 DEF Next

\* Type correctness of the buffers and indices.
THEOREM TypeCorrect == Spec => []TypeOK
<1>1. Init => TypeOK
  BY InitInv DEF Inv
<1> QED  BY <1>1, TypeNext, PTL DEF Spec

-----------------------------------------------------------------------------
(* The terminal buffers *)

LEMMA IndexCoversNext ==
  TypeOK /\ IndexCovers /\ [Next]_vars => IndexCovers'
<1> SUFFICES ASSUME TypeOK, IndexCovers, [Next]_vars,
                    NEW u \in Terminals, NEW i \in Positions, tbuf'[u][i] # NUL
             PROVE  i < tindex'[u]
  BY DEF IndexCovers
<1> USE ShownType DEF Positions
<1>0. CASE UNCHANGED <<tbuf, tindex>>
  BY <1>0 DEF IndexCovers
<1>1. CASE Enter
  <2>1. Advanced \in Nat /\ tindex \in [Terminals -> Nat] /\ tbuf \in [Terminals -> Buffers]
    BY ProutType DEF TypeOK, Bytes
  <2>2. tindex' = [tindex EXCEPT ![Shown] = @ + Advanced]
    BY <1>1 DEF Enter
  <2>3. CASE i < Advanced /\ u = Shown
    BY <2>1, <2>2, <2>3
  <2>4. CASE ~(i < Advanced /\ u = Shown)
    <3>1. tbuf'[u][i] = tbuf[u][i]
      <4>1. CASE Advanced <= BufSize /\ u = Shown
        <5>1. tbuf'[u] = Overlay(tbuf[u], Stored(NL), Advanced)
          BY <1>1, <2>1, <4>1 DEF Enter
        <5>2. ~(i < Advanced)
          BY <2>4, <4>1
        <5> QED  BY <5>1, <5>2 DEF Overlay
      <4>2. CASE ~(Advanced <= BufSize /\ u = Shown)
        <5>1. tbuf' = tbuf \/ tbuf' = [tbuf EXCEPT ![Shown] = Overlay(@, Stored(NL), Advanced)]
          BY <1>1 DEF Enter
        <5>2. ~(Advanced <= BufSize) => tbuf' = tbuf
          BY <1>1 DEF Enter
        <5> QED  BY <2>1, <4>2, <5>1, <5>2
      <4> QED  BY <4>1, <4>2
    <3>2. i < tindex[u]
      BY <3>1 DEF IndexCovers
    <3> QED  BY <2>1, <2>2, <3>2
  <2> QED  BY <2>3, <2>4
<1>2. ASSUME NEW t \in Terminals, SwitchTerminal(t)  PROVE i < tindex'[u]
  <2>1. buf_index \in Nat /\ tindex \in [Terminals -> Nat] /\ tbuf \in [Terminals -> Buffers]
        /\ BufSize \in Nat
    BY SizesAssumption DEF TypeOK
  <2>2. tindex' = [tindex EXCEPT ![Shown] = buf_index]
    BY <1>2 DEF SwitchTerminal
  <2>3. CASE u # Shown
    <3>1. tbuf'[u] = tbuf[u]
      BY <1>2, <2>1, <2>3 DEF SwitchTerminal
    <3> QED  BY <2>1, <2>2, <2>3, <3>1 DEF IndexCovers
  <2>4. CASE u = Shown /\ buf_index <= BufSize
    <3>1. tbuf'[u] = Overlay(Empty, keyboardbuf, buf_index)
      BY <1>2, <2>1, <2>4 DEF SwitchTerminal
    <3>2. i < buf_index
      BY <3>1, EmptyType DEF Overlay
    <3> QED  BY <2>1, <2>2, <2>4, <3>2
  <2>5. CASE u = Shown /\ ~(buf_index <= BufSize)
    BY <2>1, <2>2, <2>5
  <2> QED  BY <2>3, <2>4, <2>5
<1>3. ASSUME NEW t \in Terminals, Copy(t)  PROVE i < tindex'[u]
  <2>1. tindex \in [Terminals -> Nat] /\ tbuf \in [Terminals -> Buffers]
    BY DEF TypeOK
  <2>2. CASE u # Shown
    BY <1>3, <2>1, <2>2 DEF Copy, IndexCovers
  <2>3. CASE u = Shown
    <3>1. tbuf'[u] = Overlay(tbuf[u], Empty, tindex[u])
      BY <1>3, <2>1, <2>3 DEF Copy, Wiped
    <3>2. tbuf[u][i] # NUL /\ ~(i < tindex[u])
      BY <3>1, EmptyType DEF Overlay
    <3> QED  BY <3>2 DEF IndexCovers
  <2> QED  BY <2>2, <2>3
<1> QED  BY <1>0, <1>1, <1>2, <1>3
         DEF Next, Type, Backspace, ClearScreen, ReadCall, TestFlag, TestTerminal,
             Execute, Return, Pit, vars, termVars

\* A read leaves nothing behind: what is in a terminal's buffer is below its
\* buf_index, for every interleaving of Enter, Alt-F and reads.
THEOREM IndexCoversCorrect == Spec => []IndexCovers
<1>1. Init => IndexCovers
  BY InitInv DEF Inv
<1> QED  BY <1>1, IndexCoversNext, TypeCorrect, PTL DEF Spec

-----------------------------------------------------------------------------
(* The keyboard buffer with one terminal *)

LEMMA SingleNext ==
  TypeOK /\ ShownOpen /\ SingleTerminalFits /\ [Next]_vars
    => ShownOpen' /\ SingleTerminalFits'
<1> SUFFICES ASSUME TypeOK, ShownOpen, SingleTerminalFits, [Next]_vars
             PROVE  ShownOpen' /\ SingleTerminalFits'
  OBVIOUS
<1> USE ShownType, SizesAssumption
<1>1. ASSUME NEW t \in Terminals, SwitchTerminal(t)
      PROVE  ShownOpen' /\ SingleTerminalFits'
  <2>1. open' = [open EXCEPT ![t] = TRUE] /\ current_id' = t + 1 /\ t # Shown
    BY <1>1 DEF SwitchTerminal
  <2>2. ShownOpen'
    BY <2>1 DEF ShownOpen, Shown, TypeOK, Terminals
  <2>3. open'[Shown] /\ open'[t]
    BY <2>1 DEF ShownOpen, TypeOK
  <2> QED  BY <2>1, <2>2, <2>3 DEF SingleTerminalFits
<1>2. CASE UNCHANGED <<open, current_id>>
  <2>1. ShownOpen'
    BY <1>2 DEF ShownOpen, Shown
  <2>2. ASSUME \A t \in Terminals : open[t] => t = 0
        PROVE  count' = buf_index' /\ buf_index' <= BufSize /\ ~overrun'
    <3>1. count = buf_index /\ buf_index <= BufSize /\ ~overrun /\ buf_index \in Nat
      BY <2>2 DEF SingleTerminalFits, TypeOK
    <3>2. ASSUME NEW c \in Chars, Type(c)
          PROVE  count' = buf_index' /\ buf_index' <= BufSize /\ ~overrun'
      BY <3>1, <3>2 DEF Type, Advanced, Accepts
    <3>3. CASE Backspace
      <4>1. count' = count - 1 /\ buf_index' = buf_index - 1
        BY <3>3 DEF Backspace
      <4>2. ~(buf_index > BufSize)
        BY <3>1
      <4>3. overrun' = (buf_index > BufSize)
        BY <3>3 DEF Backspace
      <4>4. ~overrun'
        BY <4>2, <4>3, Zenon
      <4> QED  BY <3>1, <4>1, <4>4
    <3>4. CASE Enter
      <4>1. Advanced <= BufSize
        BY <3>1 DEF Advanced, Accepts
      <4>2. overrun' = overrun
        BY <3>4, <4>1 DEF Enter
      <4>3. count' = 0 /\ buf_index' = 0
        BY <3>4 DEF Enter
      <4> QED  BY <3>1, <4>2, <4>3
    <3>5. CASE ClearScreen
      BY <3>1, <3>5 DEF ClearScreen
    <3>6. CASE UNCHANGED <<keyVars, overrun>>
      BY <3>1, <3>6 DEF keyVars
    <3>7. ASSUME NEW t \in Terminals, SwitchTerminal(t)  PROVE FALSE
      BY <1>2, <3>7 DEF SwitchTerminal, Shown, TypeOK, Terminals
    <3> QED  BY <3>2, <3>3, <3>4, <3>5, <3>6, <3>7
             DEF Next, ReadCall, TestFlag, TestTerminal, Copy, Execute, Return, Pit, vars
  <2> QED  BY <1>2, <2>1, <2>2 DEF SingleTerminalFits
<1> QED  BY <1>1, <1>2 DEF Next, Type, Backspace, Enter, ClearScreen, ReadCall, TestFlag,
         TestTerminal, Copy, Execute, Return, Pit, vars, termVars

\* As long as only the first terminal is open the keyboard buffer never
\* overruns: count, which prout tests, is the index at which prout stores.
THEOREM SingleTerminalFitsCorrect == Spec => []SingleTerminalFits
<1>1. Init => ShownOpen /\ SingleTerminalFits
  BY InitInv DEF Inv
<1> QED  BY <1>1, SingleNext, TypeCorrect, PTL DEF Spec

-----------------------------------------------------------------------------
(* Half-typed lines *)

\* What the display switch rests on: a line below its index has no NUL in it, in
\* the keyboard buffer and in the buffer of every terminal that is not displayed,
\* and a terminal that was never opened has no line.  The buffer of the displayed
\* terminal is left out: Enter lays a line over it and adds to its index, so
\* that index says nothing about the bytes below it until the next switch.
LinesFull ==
  /\ ~overrun => \A i \in Positions : i < buf_index => keyboardbuf[i] # NUL
  /\ ~overrun => \A t \in Terminals \ {Shown} : \A i \in Positions :
                   i < tindex[t] => tbuf[t][i] # NUL
  /\ \A t \in Terminals : t = 0 \/ open[t] \/ tindex[t] = 0

\* What prout leaves in the buffer below the new index.
LEMMA ProutFull ==
  ASSUME TypeOK, LinesFull, ~overrun, NEW c \in Bytes, c # NUL,
         NEW i \in Positions, i < Advanced
  PROVE  Stored(c)[i] # NUL
<1>1. buf_index \in Nat /\ keyboardbuf \in Buffers /\ BufSize \in Nat
  BY SizesAssumption DEF TypeOK
<1>2. CASE i < buf_index
  BY <1>1, <1>2 DEF Stored, LinesFull, Buffers, Positions
<1>3. CASE ~(i < buf_index)
  <2>1. Accepts /\ i = buf_index
    BY <1>1, <1>3 DEF Advanced, Positions
  <2> QED  BY <1>1, <2>1 DEF Stored, Buffers, Positions
<1> QED  BY <1>2, <1>3

LEMMA LinesFullInit == Init => LinesFull
<1> SUFFICES ASSUME Init  PROVE LinesFull
  OBVIOUS
<1> QED  BY DEF Init, LinesFull, Positions

LEMMA LinesFullNext ==
  TypeOK /\ ShownOpen /\ LinesFull /\ [Next]_vars => LinesFull'
<1> SUFFICES ASSUME TypeOK, ShownOpen, LinesFull, [Next]_vars  PROVE LinesFull'
  OBVIOUS
<1> USE ShownType
<1>t. /\ keyboardbuf \in Buffers /\ buf_index \in Nat /\ BufSize \in Nat
      /\ tbuf \in [Terminals -> Buffers] /\ tindex \in [Terminals -> Nat]
      /\ open \in [Terminals -> BOOLEAN] /\ Terminals \subseteq Int
  BY SizesAssumption DEF TypeOK, Terminals
<1>1. ASSUME NEW c \in Chars, Type(c)  PROVE LinesFull'
  <2>1. c \in Bytes /\ c # NUL
    BY CharsAssumption DEF Bytes
  <2>2. ~overrun /\ keyboardbuf' = Stored(c) /\ buf_index' = Advanced
        /\ tbuf' = tbuf /\ tindex' = tindex /\ open' = open /\ Shown' = Shown
        /\ overrun' = overrun
    BY <1>1 DEF Type, termVars, Shown
  <2>3. \A i \in Positions : i < buf_index' => keyboardbuf'[i] # NUL
    BY <2>1, <2>2, ProutFull
  <2> QED  BY <2>2, <2>3 DEF LinesFull
<1>2. CASE Backspace
  <2>1. ~overrun /\ buf_index > 0 /\ buf_index' = buf_index - 1
        /\ tbuf' = tbuf /\ tindex' = tindex /\ open' = open /\ Shown' = Shown
    BY <1>2 DEF Backspace, termVars, Shown
  <2>2. ASSUME ~overrun', NEW i \in Positions, i < buf_index'
        PROVE  keyboardbuf'[i] # NUL
    <3>1. keyboardbuf' = keyboardbuf
          \/ keyboardbuf' = [keyboardbuf EXCEPT ![buf_index - 1] = NUL]
      BY <1>2 DEF Backspace
    <3>2. keyboardbuf[i] # NUL /\ i # buf_index - 1
      BY <1>t, <2>1, <2>2 DEF LinesFull, Positions
    <3> QED  BY <1>t, <3>1, <3>2 DEF Buffers
  <2> QED  BY <2>1, <2>2 DEF LinesFull
<1>3. CASE Enter
  <2>1. ~overrun /\ buf_index' = 0 /\ open' = open /\ Shown' = Shown
    BY <1>3 DEF Enter, Shown
  <2>2. tindex' = [tindex EXCEPT ![Shown] = @ + Advanced]
        /\ (tbuf' = tbuf
            \/ tbuf' = [tbuf EXCEPT ![Shown] = Overlay(@, Stored(NL), Advanced)])
    BY <1>3 DEF Enter
  <2>3. \A t \in Terminals \ {Shown} : tbuf'[t] = tbuf[t] /\ tindex'[t] = tindex[t]
    BY <1>t, <2>2
  <2>4. \A i \in Positions : ~(i < buf_index')
    BY <2>1 DEF Positions
  <2> QED  BY <2>1, <2>3, <2>4 DEF LinesFull, ShownOpen
<1>4. CASE ClearScreen
  <2>1. \A i \in Positions : ~(i < buf_index')
    BY <1>4 DEF ClearScreen, Positions
  <2> QED  BY <1>4, <2>1 DEF ClearScreen, termVars, LinesFull, Shown
<1>5. ASSUME NEW t \in Terminals, SwitchTerminal(t)  PROVE LinesFull'
  <2>1. /\ ~overrun /\ t # Shown /\ current_id' = t + 1
        /\ tindex' = [tindex EXCEPT ![Shown] = buf_index]
        /\ open' = [open EXCEPT ![t] = TRUE]
    BY <1>5 DEF SwitchTerminal
  <2>2. Shown' = t
    BY <1>t, <2>1 DEF Shown
  <2>3. \A u \in Terminals : u = 0 \/ open'[u] \/ tindex'[u] = 0
    BY <1>t, <2>1 DEF LinesFull, ShownOpen
  <2>4. ASSUME NEW i \in Positions, i < buf_index'  PROVE keyboardbuf'[i] # NUL
    <3>1. t = 0 \/ open[t]
      BY <1>5, <2>4 DEF SwitchTerminal, Positions
    <3>2. buf_index' = tindex[t] /\ keyboardbuf' = Overlay(Empty, tbuf[t], tindex[t])
      BY <1>t, <1>5, <2>1, <3>1 DEF SwitchTerminal
    <3>3. keyboardbuf'[i] = tbuf[t][i]
      BY <2>4, <3>2 DEF Overlay
    <3> QED  BY <2>1, <2>4, <3>2, <3>3 DEF LinesFull
  <2>5. ASSUME ~overrun', NEW u \in Terminals \ {t}, NEW i \in Positions, i < tindex'[u]
        PROVE  tbuf'[u][i] # NUL
    <3>1. tbuf' = [tbuf EXCEPT ![Shown] = Overlay(Empty, keyboardbuf, buf_index)]
      BY <1>5, <2>5 DEF SwitchTerminal
    <3>2. CASE u = Shown
      <4>1. tbuf'[u] = Overlay(Empty, keyboardbuf, buf_index) /\ tindex'[u] = buf_index
        BY <1>t, <2>1, <3>1, <3>2
      <4> QED  BY <2>1, <2>5, <4>1 DEF Overlay, LinesFull
    <3>3. CASE u # Shown
      BY <1>t, <2>1, <2>5, <3>1, <3>3 DEF LinesFull
    <3> QED  BY <3>2, <3>3
  <2> QED  BY <2>2, <2>3, <2>4, <2>5 DEF LinesFull
<1>6. ASSUME NEW t \in Terminals, Copy(t)  PROVE LinesFull'
  <2>1. /\ keyboardbuf' = keyboardbuf /\ buf_index' = buf_index /\ open' = open
        /\ Shown' = Shown /\ overrun' = overrun
        /\ tbuf' = [tbuf EXCEPT ![Shown] = Wiped(@, tindex[Shown])]
        /\ tindex' = [tindex EXCEPT ![Shown] = 0]
    BY <1>6 DEF Copy, keyVars, Shown
  <2>2. \A u \in Terminals \ {Shown} : tbuf'[u] = tbuf[u] /\ tindex'[u] = tindex[u]
    BY <1>t, <2>1
  <2> QED  BY <1>t, <2>1, <2>2 DEF LinesFull
<1>7. CASE UNCHANGED <<keyVars, termVars, current_id, overrun>>
  BY <1>7 DEF keyVars, termVars, LinesFull, Shown
<1> QED  BY <1>1, <1>2, <1>3, <1>4, <1>5, <1>6, <1>7
         DEF Next, ReadCall, TestFlag, TestTerminal, Execute, Return, Pit, vars

\* The length and the bytes of a half-typed line.
LEMMA HalfTypedBytes ==
  ASSUME TypeOK, NEW t \in Terminals
  PROVE  \E n \in 0 .. BufSize, b \in Buffers :
           /\ HalfTyped(t) = Prefix(b, n)
           /\ IF t = Shown THEN b = keyboardbuf /\ n <= buf_index
                           ELSE b = tbuf[t] /\ n <= tindex[t]
<1> DEFINE Fit(n) == IF n <= BufSize THEN n ELSE BufSize
<1>1. \A n \in Nat : Fit(n) \in 0 .. BufSize /\ Fit(n) <= n
  BY SizesAssumption
<1>2. CASE t = Shown
  <2>1. HalfTyped(t) = Prefix(keyboardbuf, Fit(buf_index))
    BY <1>2 DEF HalfTyped
  <2>2. Fit(buf_index) \in 0 .. BufSize /\ Fit(buf_index) <= buf_index
        /\ keyboardbuf \in Buffers
    BY <1>1 DEF TypeOK
  <2> HIDE DEF Fit
  <2> QED  BY <1>2, <2>1, <2>2
<1>3. CASE t # Shown
  <2>1. HalfTyped(t) = Prefix(tbuf[t], Fit(tindex[t]))
    BY <1>3 DEF HalfTyped
  <2>2. Fit(tindex[t]) \in 0 .. BufSize /\ Fit(tindex[t]) <= tindex[t]
        /\ tbuf[t] \in Buffers
    BY <1>1 DEF TypeOK
  <2> HIDE DEF Fit
  <2> QED  BY <1>3, <2>1, <2>2
<1> QED  BY <1>2, <1>3

\* A half-typed line has no NUL in it.
LEMMA FullNoHoles == TypeOK /\ LinesFull => NoHoles
<1> SUFFICES ASSUME TypeOK, LinesFull, ~overrun, NEW t \in Terminals,
                    NEW i \in 1 .. Len(HalfTyped(t))
             PROVE  HalfTyped(t)[i] # NUL
  BY DEF NoHoles
<1>1. PICK n \in 0 .. BufSize, b \in Buffers :
           /\ HalfTyped(t) = Prefix(b, n)
           /\ IF t = Shown THEN b = keyboardbuf /\ n <= buf_index
                           ELSE b = tbuf[t] /\ n <= tindex[t]
  BY HalfTypedBytes
<1>2. Len(Prefix(b, n)) = n /\ Prefix(b, n)[i] = b[i - 1]
  <2>1. Len(Prefix(b, n)) = n
    BY DEF Prefix
  <2> QED  BY <1>1, <2>1 DEF Prefix
<1>3. i - 1 \in Positions /\ i - 1 < n
  BY <1>1, <1>2, SizesAssumption DEF Positions
<1>4. b[i - 1] # NUL
  <2>1. buf_index \in Nat /\ tindex[t] \in Nat
    BY DEF TypeOK
  <2>2. CASE t = Shown
    BY <1>1, <1>3, <2>1, <2>2 DEF LinesFull
  <2>3. CASE t # Shown
    BY <1>1, <1>3, <2>1, <2>3 DEF LinesFull
  <2> QED  BY <2>2, <2>3
<1> QED  BY <1>1, <1>2, <1>4

\* What is half typed has no NUL in it, on any terminal, however the keys, the
\* display switches and the reads interleave.
THEOREM NoHolesCorrect == Spec => []NoHoles
<1>1. Init => ShownOpen /\ SingleTerminalFits /\ LinesFull
  BY InitInv, LinesFullInit DEF Inv
<1> QED  BY <1>1, SingleNext, LinesFullNext, FullNoHoles, TypeCorrect, PTL DEF Spec

\* Two prefixes of the same length with the same bytes are the same line.
LEMMA PrefixEqual ==
  ASSUME NEW b, NEW c, NEW n \in 0 .. BufSize,
         \A i \in Positions : i < n => b[i] = c[i]
  PROVE  Prefix(b, n) = Prefix(c, n)
<1>1. \A i \in 1 .. n : b[i - 1] = c[i - 1]
  BY SizesAssumption DEF Positions
<1> QED  BY <1>1 DEF Prefix

\* Alt-F keeps what is half typed on every terminal.
LEMMA SwitchKeeps ==
  ASSUME TypeOK, LinesFull, NEW t \in Terminals, SwitchTerminal(t), ~overrun',
         NEW u \in Terminals
  PROVE  HalfTyped(u)' = HalfTyped(u)
<1> USE ShownType
<1> DEFINE Fit(n) == IF n <= BufSize THEN n ELSE BufSize
<1>t. /\ keyboardbuf \in Buffers /\ buf_index \in Nat /\ BufSize \in Nat
      /\ tbuf \in [Terminals -> Buffers] /\ tindex \in [Terminals -> Nat]
      /\ Terminals \subseteq Int
  BY SizesAssumption DEF TypeOK, Terminals
<1>1. /\ t # Shown /\ Shown' = t
      /\ tindex' = [tindex EXCEPT ![Shown] = buf_index]
      /\ tbuf' = [tbuf EXCEPT ![Shown] = Overlay(Empty, keyboardbuf, buf_index)]
  BY <1>t DEF SwitchTerminal, Shown
<1>2. CASE u = t
  <2>1. HalfTyped(u) = Prefix(tbuf[t], Fit(tindex[t]))
        /\ HalfTyped(u)' = Prefix(keyboardbuf', Fit(buf_index'))
    BY <1>1, <1>2 DEF HalfTyped
  <2>2. CASE t = 0 \/ open[t]
    <3>1. buf_index' = tindex[t] /\ keyboardbuf' = Overlay(Empty, tbuf[t], tindex[t])
      BY <1>t, <1>1, <2>2 DEF SwitchTerminal
    <3>2. Fit(tindex[t]) \in 0 .. BufSize /\ Fit(tindex[t]) <= tindex[t]
      BY <1>t
    <3>3. \A i \in Positions : i < Fit(tindex[t]) => keyboardbuf'[i] = tbuf[t][i]
      BY <1>t, <3>1, <3>2 DEF Overlay, Positions
    <3> QED  BY <2>1, <3>1, <3>2, <3>3, PrefixEqual
  <2>3. CASE ~(t = 0 \/ open[t])
    <3>1. buf_index' = 0 /\ tindex[t] = 0
      BY <2>3 DEF SwitchTerminal, LinesFull
    <3>2. Fit(0) = 0 /\ 0 \in 0 .. BufSize
      BY <1>t
    <3>3. Prefix(tbuf[t], 0) = Prefix(keyboardbuf', 0)
      BY <3>2, PrefixEqual DEF Positions
    <3> QED  BY <2>1, <3>1, <3>2, <3>3
  <2> QED  BY <2>2, <2>3
<1>3. CASE u = Shown
  <2>1. HalfTyped(u) = Prefix(keyboardbuf, Fit(buf_index))
        /\ HalfTyped(u)' = Prefix(tbuf'[u], Fit(tindex'[u]))
    BY <1>1, <1>3 DEF HalfTyped
  <2>2. tindex'[u] = buf_index /\ tbuf'[u] = Overlay(Empty, keyboardbuf, buf_index)
    BY <1>t, <1>1, <1>3
  <2>3. Fit(buf_index) \in 0 .. BufSize /\ Fit(buf_index) <= buf_index
    BY <1>t
  <2>4. \A i \in Positions : i < Fit(buf_index) => tbuf'[u][i] = keyboardbuf[i]
    BY <1>t, <2>2, <2>3 DEF Overlay, Positions
  <2> QED  BY <2>1, <2>2, <2>3, <2>4, PrefixEqual
<1>4. CASE u # t /\ u # Shown
  <2>1. tindex'[u] = tindex[u] /\ tbuf'[u] = tbuf[u]
    BY <1>t, <1>1, <1>4
  <2> QED  BY <1>1, <1>4, <2>1 DEF HalfTyped
<1> QED  BY <1>2, <1>3, <1>4

\* Alt-F loses nothing that is half typed, on any terminal, and mixes no two
\* lines, for any number of terminals and any sizes.
THEOREM SwitchKeepsHalfTypedCorrect == Spec => SwitchKeepsHalfTyped
<1> DEFINE Kept == \A t, u \in Terminals :
                     SwitchTerminal(t) /\ ~overrun' => HalfTyped(u)' = HalfTyped(u)
<1>1. Init => ShownOpen /\ SingleTerminalFits /\ LinesFull
  BY InitInv, LinesFullInit DEF Inv
<1>2. TypeOK /\ LinesFull => Kept
  BY SwitchKeeps
<1>3. TypeOK /\ LinesFull => [Kept]_vars
  BY <1>2
<1> QED  BY <1>1, <1>3, SingleNext, LinesFullNext, TypeCorrect, PTL
         DEF Spec, SwitchKeepsHalfTyped

-----------------------------------------------------------------------------
(* Entered lines *)

\* The line entered last on a terminal and not read lies at the start of the
\* terminal's buffer, below its index, without a NUL.
EnteredStored ==
  \A t \in Terminals :
    /\ Len(entered[t]) <= BufSize /\ Len(entered[t]) <= tindex[t]
    /\ \A i \in 1 .. Len(entered[t]) :
         tbuf[t][i - 1] = entered[t][i] /\ entered[t][i] # NUL

\* The length and the bytes of a prefix.
LEMMA PrefixBytes ==
  ASSUME NEW b, NEW n \in Nat
  PROVE  Len(Prefix(b, n)) = n /\ \A i \in 1 .. n : Prefix(b, n)[i] = b[i - 1]
<1>1. Len(Prefix(b, n)) = n
  BY DEF Prefix
<1> QED  BY <1>1 DEF Prefix

LEMMA EnteredInit == Init => EnteredStored
<1> SUFFICES ASSUME Init, NEW t \in Terminals
             PROVE  entered[t] = <<>> /\ tindex[t] = 0 /\ BufSize \in Nat
  BY DEF EnteredStored
<1> QED  BY SizesAssumption DEF Init

LEMMA EnteredNext ==
  TypeOK /\ LinesFull /\ EnteredStored /\ [Next]_vars => EnteredStored'
<1> SUFFICES ASSUME TypeOK, LinesFull, EnteredStored, [Next]_vars, NEW u \in Terminals
             PROVE  /\ Len(entered'[u]) <= BufSize /\ Len(entered'[u]) <= tindex'[u]
                    /\ \A i \in 1 .. Len(entered'[u]) :
                         tbuf'[u][i - 1] = entered'[u][i] /\ entered'[u][i] # NUL
  BY DEF EnteredStored
<1> USE ShownType
<1> DEFINE Goal == /\ Len(entered'[u]) <= BufSize /\ Len(entered'[u]) <= tindex'[u]
                   /\ \A i \in 1 .. Len(entered'[u]) :
                        tbuf'[u][i - 1] = entered'[u][i] /\ entered'[u][i] # NUL
<1>t. /\ tbuf \in [Terminals -> Buffers] /\ tindex \in [Terminals -> Nat]
      /\ entered \in [Terminals -> Seq(Bytes)] /\ BufSize \in Nat
      /\ Len(entered[u]) \in Nat
  BY SizesAssumption DEF TypeOK
<1>0. CASE entered'[u] = entered[u] /\ tbuf'[u] = tbuf[u] /\ tindex'[u] = tindex[u]
  BY <1>0 DEF EnteredStored
<1>1. CASE entered'[u] = <<>> /\ tindex'[u] \in Nat
  BY <1>1, <1>t
<1>2. CASE Enter
  <2>1. Stored(NL) \in Buffers /\ Advanced \in Nat /\ NL \in Bytes /\ NL # NUL
    BY ProutType DEF Bytes, NL, NUL
  <2>2. ~overrun /\ tindex' = [tindex EXCEPT ![Shown] = @ + Advanced]
    BY <1>2 DEF Enter
  <2>3. CASE Advanced <= BufSize /\ u = Shown
    <3>1. /\ tbuf'[u] = Overlay(tbuf[u], Stored(NL), Advanced)
          /\ entered'[u] = Prefix(Stored(NL), Advanced)
          /\ tindex'[u] = tindex[u] + Advanced
      BY <1>2, <1>t, <2>3 DEF Enter
    <3>2. /\ Len(entered'[u]) = Advanced
          /\ \A i \in 1 .. Advanced : entered'[u][i] = Stored(NL)[i - 1]
      BY <2>1, <3>1, PrefixBytes
    <3>3. ASSUME NEW i \in 1 .. Advanced
          PROVE  tbuf'[u][i - 1] = entered'[u][i] /\ entered'[u][i] # NUL
      <4>1. i - 1 \in Positions /\ i - 1 < Advanced
        BY <1>t, <2>1, <2>3 DEF Positions
      <4>2. tbuf'[u][i - 1] = Stored(NL)[i - 1]
        BY <3>1, <4>1 DEF Overlay
      <4>3. Stored(NL)[i - 1] # NUL
        BY <2>1, <2>2, <4>1, ProutFull
      <4> QED  BY <3>2, <4>2, <4>3
    <3> QED  BY <1>t, <2>1, <2>3, <3>1, <3>2, <3>3
  <2>4. CASE ~(Advanced <= BufSize)
    <3>1. entered' = entered /\ tbuf' = tbuf /\ tindex'[u] \in Nat /\ tindex'[u] >= tindex[u]
      BY <1>2, <1>t, <2>1, <2>2, <2>4 DEF Enter
    <3> QED  BY <1>t, <3>1 DEF EnteredStored
  <2>5. CASE Advanced <= BufSize /\ u # Shown
    BY <1>2, <1>t, <1>0, <2>2, <2>5 DEF Enter
  <2> QED  BY <2>3, <2>4, <2>5
<1>3. ASSUME NEW t \in Terminals, SwitchTerminal(t)  PROVE Goal
  <2>1. /\ tindex' = [tindex EXCEPT ![Shown] = buf_index] /\ buf_index \in Nat
        /\ entered' = [entered EXCEPT ![Shown] = <<>>]
        /\ (tbuf' = tbuf
            \/ tbuf' = [tbuf EXCEPT ![Shown] = Overlay(Empty, keyboardbuf, buf_index)])
    BY <1>3 DEF SwitchTerminal, TypeOK
  <2> QED  BY <1>t, <1>0, <1>1, <2>1
<1>4. ASSUME NEW t \in Terminals, Copy(t)  PROVE Goal
  BY <1>4, <1>t, <1>0, <1>1 DEF Copy
<1>5. CASE UNCHANGED <<tbuf, tindex, entered>>
  BY <1>0, <1>5
<1> QED  BY <1>2, <1>3, <1>4, <1>5
         DEF Next, Type, Backspace, ClearScreen, ReadCall, TestFlag, TestTerminal,
             Execute, Return, Pit, vars, termVars

\* The scan for a NUL returns at least a NUL-free start of the buffer.
LEMMA LineStart ==
  ASSUME NEW b \in Buffers, NEW index \in Nat, NEW n \in 0 .. BufSize,
         \A i \in Positions : i < n => b[i] # NUL
  PROVE  \E m \in n .. BufSize, r \in {<<>>, <<"JUNK">>} :
           Line(b, index) = Prefix(b, m) \o r
<1> DEFINE ends == {i \in Positions : b[i] = NUL}
           m == CHOOSE i \in ends : \A j \in ends : i <= j
<1>1. CASE ends = {}
  <2>1. Line(b, index) = Prefix(b, BufSize) \o Spill(index)
    BY <1>1 DEF Line
  <2>2. Spill(index) \in {<<>>, <<"JUNK">>} /\ BufSize \in n .. BufSize
    BY SizesAssumption DEF Spill
  <2> QED  BY <2>1, <2>2
<1>2. CASE ends # {}
  <2>1. ends \in SUBSET Nat
    BY SizesAssumption DEF Positions
  <2>2. m \in ends
    BY <1>2, <2>1, LeastElement
  <2>3. m \in n .. BufSize
    BY <2>2, SizesAssumption DEF Positions
  <2>4. Line(b, index) = Prefix(b, m)
    BY <1>2 DEF Line
  <2> HIDE DEF m
  <2>5. Prefix(b, m) \o <<>> = Prefix(b, m)
    BY <2>3, PrefixType, SizesAssumption
  <2> QED  BY <2>3, <2>4, <2>5
<1> QED  BY <1>1, <1>2

\* ... and exactly that start when a NUL follows it.
LEMMA LineExact ==
  ASSUME NEW b \in Buffers, NEW index \in Nat, NEW n \in Positions,
         b[n] = NUL, \A i \in Positions : i < n => b[i] # NUL
  PROVE  Line(b, index) = Prefix(b, n)
<1> DEFINE ends == {i \in Positions : b[i] = NUL}
           m == CHOOSE i \in ends : \A j \in ends : i <= j
<1>1. n \in ends /\ ends \in SUBSET Nat
  BY SizesAssumption DEF Positions
<1>2. m \in ends /\ \A j \in ends : m <= j
  BY <1>1, LeastElement
<1>3. m = n
  BY <1>1, <1>2
<1>4. Line(b, index) = Prefix(b, m)
  BY <1>1 DEF Line
<1> HIDE DEF m
<1> QED  BY <1>3, <1>4

LEMMA StoredIntact == TypeOK /\ IndexCovers /\ EnteredStored => LineIntact
<1> SUFFICES ASSUME TypeOK, IndexCovers, EnteredStored, NEW t \in Terminals
             PROVE  LET line == Line(tbuf[t], tindex[t])
                        n == Len(entered[t])
                    IN /\ n <= Len(line) /\ SubSeq(line, 1, n) = entered[t]
                       /\ tindex[t] = n /\ n < BufSize => line = entered[t]
  BY DEF LineIntact
<1> DEFINE b == tbuf[t]
           e == entered[t]
           n == Len(entered[t])
           line == Line(b, tindex[t])
<1>1. b \in Buffers /\ tindex[t] \in Nat /\ e \in Seq(Bytes) /\ BufSize \in Nat
  BY SizesAssumption DEF TypeOK
<1>2. n \in 0 .. BufSize /\ n <= tindex[t]
      /\ \A i \in 1 .. n : b[i - 1] = e[i] /\ e[i] # NUL
  BY <1>1 DEF EnteredStored
<1>3. \A i \in Positions : i < n => b[i] # NUL
  <2>1. SUFFICES ASSUME NEW i \in Positions, i < n  PROVE b[i] # NUL
    OBVIOUS
  <2>2. i + 1 \in 1 .. n /\ (i + 1) - 1 = i
    BY <1>1, <1>2, <2>1 DEF Positions
  <2> QED  BY <1>2, <2>2
<1>4. Prefix(b, n) = e
  <2>1. Prefix(b, n) \in Seq(Bytes) /\ Len(Prefix(b, n)) = n
        /\ \A i \in 1 .. n : Prefix(b, n)[i] = b[i - 1]
    <3>1. n \in Nat /\ n <= BufSize
      BY <1>1, <1>2
    <3> HIDE DEF n, b
    <3> QED  BY <1>1, <3>1, PrefixType, PrefixBytes
  <2> QED  BY <1>1, <1>2, <2>1, SeqEqual
<1>5. n <= Len(line) /\ SubSeq(line, 1, n) = e
  <2>1. PICK m \in n .. BufSize, r \in {<<>>, <<"JUNK">>} : line = Prefix(b, m) \o r
    BY <1>1, <1>2, <1>3, LineStart
  <2> DEFINE p == Prefix(b, m)
             S == Bytes \cup {"JUNK"}
  <2>2. m \in Nat /\ m <= BufSize /\ n <= m /\ n \in Nat
    BY <1>1, <1>2
  <2>3. p \in Seq(S) /\ r \in Seq(S) /\ Len(p) = m /\ Len(r) \in Nat
        /\ \A i \in 1 .. m : p[i] = b[i - 1]
    <3> HIDE DEF b
    <3>1. p \in Seq(Bytes)
      BY <1>1, <2>2, PrefixType
    <3>2. Len(p) = m /\ \A i \in 1 .. m : p[i] = b[i - 1]
      BY <2>2, PrefixBytes
    <3> HIDE DEF p
    <3>3. <<>> \in Seq(S) /\ <<"JUNK">> \in Seq(S)
      OBVIOUS
    <3>4. r \in Seq(S)
      BY <2>1, <3>3
    <3>5. p \in Seq(S)
      <4>1. \A i \in 1 .. Len(p) : p[i] \in S
        BY <3>1
      <4> QED  BY <3>1, <4>1, SeqDef
    <3> QED  BY <3>2, <3>4, <3>5
  <2> HIDE DEF p, S, n, e, b
  <2>4. Len(p \o r) = m + Len(r) /\ \A i \in 1 .. m : (p \o r)[i] = p[i]
        /\ p \o r \in Seq(S)
    <3>1. /\ p \o r \in Seq(S)
          /\ Len(p \o r) = Len(p) + Len(r)
          /\ \A i \in 1 .. Len(p) + Len(r) :
               (p \o r)[i] = IF i <= Len(p) THEN p[i] ELSE r[i - Len(p)]
      BY <2>3, ConcatProperties
    <3> QED  BY <2>2, <2>3, <3>1
  <2>5. line = p \o r
    BY <2>1 DEF p
  <2> HIDE DEF line
  <2>6. n <= Len(line)
    BY <2>2, <2>3, <2>4, <2>5
  <2>7. SubSeq(line, 1, n) \in Seq(S) /\ Len(SubSeq(line, 1, n)) = n
        /\ \A i \in 1 .. n : SubSeq(line, 1, n)[i] = line[i]
    BY <2>2, <2>4, <2>5, <2>6
  <2>8. \A i \in 1 .. n : line[i] = e[i]
    <3> SUFFICES ASSUME NEW i \in 1 .. n  PROVE line[i] = e[i]
      OBVIOUS
    <3>1. i \in 1 .. m
      BY <2>2
    <3>2. b[i - 1] = e[i]
      BY <1>2
    <3> QED  BY <2>3, <2>4, <2>5, <3>1, <3>2
  <2>9. e \in Seq(S)
    BY <1>1 DEF S
  <2>10. Len(e) = n
    BY DEF e, n
  <2> QED  BY <2>6, <2>7, <2>8, <2>9, <2>10, SeqEqual
<1>6. ASSUME tindex[t] = n, n < BufSize  PROVE line = e
  <2>1. n \in Positions
    BY <1>1, <1>2, <1>6 DEF Positions
  <2>2. b[n] = NUL
    BY <1>1, <1>6, <2>1 DEF IndexCovers, Positions
  <2> QED  BY <1>1, <1>3, <1>4, <2>1, <2>2, LineExact
<1> QED  BY <1>5, <1>6

\* A read hands over the line that was entered last, whole, and nothing else when
\* the buffer was clean before it, for any sizes and any interleaving.
THEOREM LineIntactCorrect == Spec => []LineIntact
<1>1. Init => ShownOpen /\ SingleTerminalFits /\ IndexCovers /\ LinesFull /\ EnteredStored
  BY InitInv, LinesFullInit, EnteredInit DEF Inv
<1> QED  BY <1>1, SingleNext, LinesFullNext, EnteredNext, StoredIntact, TypeCorrect,
            IndexCoversCorrect, PTL DEF Spec
=============================================================================
