---------------------------- MODULE ConsoleProofs ----------------------------
(***************************************************************************)
(* Proofs about Console, for every size of the screen, of the line buffer  *)
(* and every number of terminals.  The position functions are taken one by *)
(* one: what each does to a position that is on the screen, and what it    *)
(* does to the link between the screen's and the keyboard's position.  The *)
(* key tables are taken entry by entry.                                    *)
(***************************************************************************)
EXTENDS Console, TLAPS

\* The keyboard's row is below the screen only in column 0, where backspace goes up
\* instead of left.
OnScreen(s) == s \in Screen /\ (s.vd_y = Rows => s.vd_x = 0)

\* With one terminal the keyboard's position is that of the screen, or the row below
\* its last one.  Enter on a full line breaks the link: prout refuses the newline and
\* the keyboard alone goes down a row; but then it is in column 0, which fills no row,
\* and the line is empty, so that backspace does nothing.
Linked(s) ==
  /\ ~s.off
  /\ s.vd_x = s.screen_x \/ (s.count = 0 /\ s.vd_x = 0)
  /\ s.count > 0 => s.vd_y = s.screen_y
                      \/ (s.vd_x = 0 /\ s.vd_y = Rows /\ s.screen_y = Rows - 1)

Positions == [x : 0 .. Cols - 1, y : 0 .. Rows - 1]

\* The position of a terminal whose process is at a point of terminal_write: only just
\* before the column wraps it is beyond the last one, and putm goes down from a row that
\* is not the last.
Placed(p, at) ==
  /\ p \in [x : 0 .. Cols, y : 0 .. Rows - 1]
  /\ p.x = Cols => at = "wrap"
  /\ at = "down" => p.y # Rows - 1

\* A character stored on the screen is not off it.
LEMMA StoreOn ==
  ASSUME NEW s \in Screen, NEW x \in 0 .. Cols - 1, NEW y \in 0 .. Rows - 1
  PROVE  Store(s, x, y) = s
<1>1. Cols * y + x \in 0 .. Cols * Rows - 1
  <2>1. Cols \in Nat /\ Rows \in Nat /\ y + 1 <= Rows /\ x + 1 <= Cols
        /\ x \in Nat /\ y \in Nat
    BY ScreenAssumption
  <2>2. PICK z \in Nat : Rows = y + 1 + z
    <3>1. Rows - (y + 1) \in Nat /\ Rows = y + 1 + (Rows - (y + 1))
      BY <2>1
    <3> QED  BY <3>1
  <2>3. Cols * Rows = Cols * y + Cols + Cols * z
    BY <2>1, <2>2
  <2>4. Cols * y \in Nat /\ Cols * z \in Nat
    BY <2>1, <2>2
  <2> QED  BY <2>1, <2>3, <2>4
<1>2. Store(s, x, y) = [s EXCEPT !.off = s.off \/ Cols * y + x \notin 0 .. Cols * Rows - 1]
  BY DEF Store
<1>3. (s.off \/ Cols * y + x \notin 0 .. Cols * Rows - 1) = s.off
  BY <1>1, Zenon DEF Screen
<1>4. [s EXCEPT !.off = s.off] = s
  BY DEF Screen
<1> QED  BY <1>2, <1>3, <1>4

\* Storing changes no position.
LEMMA StoreKeeps ==
  ASSUME NEW s \in Screen, NEW x, NEW y
  PROVE  /\ Store(s, x, y) \in Screen
         /\ Store(s, x, y).screen_x = s.screen_x /\ Store(s, x, y).screen_y = s.screen_y
         /\ Store(s, x, y).vd_x = s.vd_x /\ Store(s, x, y).vd_y = s.vd_y
         /\ Store(s, x, y).count = s.count
<1> DEFINE o == s.off \/ Cols * y + x \notin 0 .. Cols * Rows - 1
<1>1. o \in BOOLEAN
  BY Zenon DEF Screen
<1>2. Store(s, x, y) = [s EXCEPT !.off = o]
  BY DEF Store
<1> HIDE DEF o
<1> QED  BY <1>1, <1>2 DEF Screen

\* putc.
LEMMA PutcOn ==
  ASSUME NEW s \in Screen, NEW newline \in BOOLEAN
  PROVE  LET p == Putc(s, newline)
         IN /\ p \in Screen /\ p.count = s.count
            /\ p.vd_x = p.screen_x /\ p.vd_y = p.screen_y
            /\ p.off = s.off
            /\ p.screen_x = IF newline THEN 0 ELSE (s.screen_x + 1) % Cols
<1>1. CASE newline
  <2> DEFINE y == IF s.screen_y = Rows - 1 THEN s.screen_y ELSE s.screen_y + 1
  <2>1. y \in 0 .. Rows - 1 /\ 0 \in 0 .. Cols - 1 /\ y \in 0 .. Rows
    BY ScreenAssumption DEF Screen
  <2>2. Putc(s, newline) = [s EXCEPT !.screen_x = 0, !.screen_y = y, !.vd_x = 0, !.vd_y = y]
    BY <1>1 DEF Putc, PutNewline, CopyPosition, ResetPosition, Screen
  <2> HIDE DEF y
  <2> QED  BY <1>1, <2>1, <2>2 DEF Screen
<1>2. CASE ~newline
  <2> DEFINE x == (s.screen_x + 1) % Cols
  <2>1. x \in 0 .. Cols - 1 /\ s.screen_y \in 0 .. Rows
    BY ScreenAssumption DEF Screen
  <2>2. Store(s, s.screen_x, s.screen_y) = s
    BY StoreOn DEF Screen
  <2>3. Putc(s, newline) = [s EXCEPT !.screen_x = x, !.vd_x = x, !.vd_y = s.screen_y]
    BY <1>2, <2>2 DEF Putc, PutChar, CopyPosition, ResetPosition, Screen
  <2> HIDE DEF x
  <2>4. (s.screen_x + 1) % Cols = x
    BY DEF x
  <2> QED  BY <1>2, <2>1, <2>3, <2>4 DEF Screen
<1> QED  BY <1>1, <1>2

\* prout.
LEMMA ProutOn ==
  ASSUME NEW s, OnScreen(s), NEW newline \in BOOLEAN
  PROVE  /\ OnScreen(Prout(s, newline))
         /\ Linked(s) => Linked(Prout(s, newline))
<1>0. s \in Screen
  BY DEF OnScreen
<1>1. CASE s.count = BufSize
  BY <1>1 DEF Prout
<1>2. CASE s.count # BufSize
  <2> DEFINE q == Putc(s, newline)
             p == [q EXCEPT !.count = @ + 1]
             y == p.vd_y + 1
             z == IF y = Rows THEN y - 1 ELSE y
  <2>1. /\ q \in Screen /\ q.count = s.count /\ q.vd_x = q.screen_x /\ q.vd_y = q.screen_y
        /\ q.off = s.off /\ q.screen_x = IF newline THEN 0 ELSE (s.screen_x + 1) % Cols
    BY <1>0, PutcOn
  <2>2. s.count + 1 \in 0 .. BufSize /\ s.count + 1 > 0
    BY <1>0, <1>2, ScreenAssumption DEF Screen
  <2> HIDE DEF q
  <2>3. /\ p \in Screen /\ p.count = s.count + 1 /\ p.vd_x = p.screen_x
        /\ p.vd_y = p.screen_y /\ p.off = s.off /\ p.screen_x = q.screen_x
    BY <2>1, <2>2 DEF Screen
  <2>4. Prout(s, newline) = IF s.vd_x + 1 = Cols
                            THEN CopyPosition(ResetPosition(p, 0, z), 0, y) ELSE p
    BY <1>2 DEF Prout, q
  <2> HIDE DEF p
  <2>5. CASE s.vd_x + 1 = Cols
    <3>1. y \in 0 .. Rows /\ z \in 0 .. Rows - 1 /\ 0 \in 0 .. Cols - 1
          /\ (z = y \/ (y = Rows /\ z = Rows - 1))
      BY <2>3, ScreenAssumption DEF Screen
    <3> HIDE DEF y, z
    <3>2. Prout(s, newline) = [p EXCEPT !.screen_x = 0, !.screen_y = z, !.vd_x = 0, !.vd_y = y]
      BY <2>3, <2>4, <2>5 DEF CopyPosition, ResetPosition, Screen
    <3> DEFINE r == Prout(s, newline)
    <3>3. /\ r \in Screen /\ r.screen_x = 0 /\ r.screen_y = z /\ r.vd_x = 0 /\ r.vd_y = y
          /\ r.count = p.count /\ r.off = p.off
      BY <2>3, <3>1, <3>2 DEF Screen
    <3> HIDE DEF r
    <3>4. OnScreen(r) /\ (Linked(s) => Linked(r))
      BY <2>3, <3>1, <3>3 DEF OnScreen, Linked
    <3> QED  BY <3>4 DEF r
  <2>6. CASE s.vd_x + 1 # Cols
    <3>1. Prout(s, newline) = p
      BY <2>4, <2>6
    <3>2. p.vd_y # Rows
      BY <2>3, ScreenAssumption DEF Screen
    <3> QED  BY <2>1, <2>3, <3>1, <3>2 DEF OnScreen, Linked
  <2> QED  BY <2>5, <2>6
<1> QED  BY <1>1, <1>2

\* Enter.
LEMMA EnterOn ==
  ASSUME NEW s, OnScreen(s)
  PROVE  OnScreen(EnterLine(s)) /\ (Linked(s) => Linked(EnterLine(s)))
<1> DEFINE q == Prout(s, TRUE)
           p == [q EXCEPT !.count = 0]
<1>1. OnScreen(q) /\ (Linked(s) => Linked(q))
  BY ProutOn
<1>2. EnterLine(s) = IF p.vd_y <= Rows - 1
                     THEN CopyPosition(p, 0, p.vd_y + 1)
                     ELSE CopyPosition(ResetPosition(p, 0, Rows - 1), 0, Rows - 1)
  BY DEF EnterLine
<1> HIDE DEF q
<1>3. p \in Screen /\ p.count = 0 /\ p.off = q.off
  BY <1>1, ScreenAssumption DEF OnScreen, Screen
<1> HIDE DEF p
<1>4. CASE p.vd_y <= Rows - 1
  <2>1. EnterLine(s) = [p EXCEPT !.vd_x = 0, !.vd_y = p.vd_y + 1]
    BY <1>2, <1>3, <1>4 DEF CopyPosition, Screen
  <2>2. p.vd_y + 1 \in 0 .. Rows /\ 0 \in 0 .. Cols - 1
    BY <1>3, <1>4, ScreenAssumption DEF Screen
  <2> DEFINE r == [p EXCEPT !.vd_x = 0, !.vd_y = p.vd_y + 1]
  <2>3. r \in Screen /\ r.vd_x = 0 /\ r.count = 0 /\ r.off = q.off
    BY <1>3, <2>2 DEF Screen
  <2> HIDE DEF r
  <2>4. OnScreen(r) /\ (Linked(s) => Linked(r))
    BY <1>1, <2>3 DEF OnScreen, Linked
  <2> QED  BY <2>1, <2>4 DEF r
<1>5. CASE ~(p.vd_y <= Rows - 1)
  <2>1. EnterLine(s) = [p EXCEPT !.screen_x = 0, !.screen_y = Rows - 1, !.vd_x = 0,
                                 !.vd_y = Rows - 1]
    BY <1>2, <1>3, <1>5 DEF CopyPosition, ResetPosition, Screen
  <2>2. Rows - 1 \in 0 .. Rows /\ Rows - 1 \in 0 .. Rows - 1 /\ 0 \in 0 .. Cols - 1
    BY ScreenAssumption
  <2> QED  BY <1>1, <1>3, <2>1, <2>2 DEF OnScreen, Linked, Screen
<1> QED  BY <1>4, <1>5

\* backspace, before it lowers count.
LEMMA BackspaceOn ==
  ASSUME NEW s, OnScreen(s)
  PROVE  /\ OnScreen(Backspace(s)) /\ (Linked(s) => Linked(Backspace(s)))
         /\ Backspace(s) # s => Backspace(s).count > 0
<1>0. s \in Screen /\ (s.vd_y = Rows => s.vd_x = 0)
  BY DEF OnScreen
<1>1. CASE s.count = 0 \/ (s.vd_x = 0 /\ s.vd_y = 0)
  BY <1>1 DEF Backspace
<1>2. CASE ~(s.count = 0 \/ (s.vd_x = 0 /\ s.vd_y = 0))
  <2> DEFINE up == s.vd_x = 0
             w == IF up THEN Store(s, Cols - 1, s.screen_y - 1)
                  ELSE Store(s, s.screen_x - 1, s.screen_y)
             x == IF up THEN Cols - 1 ELSE s.vd_x - 1
             y == IF up THEN s.vd_y - 1 ELSE s.vd_y
  <2>1. /\ w \in Screen /\ w.screen_x = s.screen_x /\ w.screen_y = s.screen_y
        /\ w.vd_x = s.vd_x /\ w.vd_y = s.vd_y /\ w.count = s.count
    BY <1>0, StoreKeeps
  <2>2. x \in 0 .. Cols - 1 /\ y \in 0 .. Rows - 1 /\ y \in 0 .. Rows /\ y # Rows
    BY <1>0, <1>2, ScreenAssumption DEF Screen
  <2>3. Linked(s) => w = s
    <3> SUFFICES ASSUME Linked(s)  PROVE w = s
      OBVIOUS
    <3>1. s.count > 0 /\ s.vd_x = s.screen_x
      BY <1>0, <1>2, ScreenAssumption DEF Linked, Screen
    <3>2. CASE up
      <4>1. s.screen_y - 1 \in 0 .. Rows - 1 /\ Cols - 1 \in 0 .. Cols - 1
        BY <1>0, <1>2, <3>1, <3>2, ScreenAssumption DEF Linked, Screen
      <4> QED  BY <1>0, <3>2, <4>1, StoreOn
    <3>3. CASE ~up
      <4>1. s.screen_x - 1 \in 0 .. Cols - 1 /\ s.screen_y \in 0 .. Rows - 1
        BY <1>0, <3>1, <3>3, ScreenAssumption DEF Screen
      <4> QED  BY <1>0, <3>3, <4>1, StoreOn
    <3> QED  BY <3>2, <3>3
  <2>4. Backspace(s) = CopyPosition(ResetPosition(w, x, y), x, y)
    BY <1>2 DEF Backspace
  <2> HIDE DEF w, x, y
  <2>5. Backspace(s) = [w EXCEPT !.screen_x = x, !.screen_y = y, !.vd_x = x, !.vd_y = y]
    BY <2>1, <2>4 DEF CopyPosition, ResetPosition, Screen
  <2>6. OnScreen(Backspace(s)) /\ Backspace(s).count = s.count
    BY <2>1, <2>2, <2>5 DEF OnScreen, Screen
  <2>7. s.count > 0
    BY <1>0, <1>2, ScreenAssumption DEF Screen
  <2>8. Linked(s) => Linked(Backspace(s))
    BY <2>1, <2>2, <2>3, <2>5 DEF Linked, Screen
  <2> QED  BY <2>6, <2>7, <2>8
<1> QED  BY <1>1, <1>2

\* Lowering count.
LEMMA CountOn ==
  ASSUME NEW s, OnScreen(s), s.count > 0
  PROVE  LET p == [s EXCEPT !.count = @ - 1]
         IN OnScreen(p) /\ (Linked(s) => Linked(p))
<1> DEFINE p == [s EXCEPT !.count = @ - 1]
<1>1. s.count - 1 \in 0 .. BufSize
  BY ScreenAssumption DEF OnScreen, Screen
<1>2. /\ p \in Screen /\ p.count = s.count - 1 /\ p.vd_x = s.vd_x /\ p.vd_y = s.vd_y
      /\ p.screen_x = s.screen_x /\ p.screen_y = s.screen_y /\ p.off = s.off
  BY <1>1 DEF OnScreen, Screen
<1> HIDE DEF p
<1>3. OnScreen(p) /\ (Linked(s) => Linked(p))
  BY <1>2, ScreenAssumption DEF OnScreen, Linked, Screen
<1> QED  BY <1>3 DEF p

\* Ctrl-L.
LEMMA ClearOn ==
  ASSUME NEW s, OnScreen(s)
  PROVE  OnScreen(ClearLine(s)) /\ (Linked(s) => Linked(ClearLine(s)))
<1>1. s \in Screen
  BY DEF OnScreen
<1>2. ClearLine(s) = [s EXCEPT !.screen_x = 0, !.screen_y = 0, !.vd_x = 0, !.vd_y = 0,
                               !.count = 0]
  BY <1>1 DEF ClearLine, CopyPosition, ResetPosition, Screen
<1>3. 0 \in 0 .. Cols - 1 /\ 0 \in 0 .. Rows - 1 /\ 0 \in 0 .. Rows /\ 0 \in 0 .. BufSize
      /\ Rows # 0
  BY ScreenAssumption
<1> QED  BY <1>1, <1>2, <1>3 DEF OnScreen, Linked, Screen

\* A character of a program, or the message of Alt-F: both positions are set.
LEMMA PrintedOn ==
  ASSUME NEW s \in Screen, NEW p \in Screen, p.off = s.off, p.count = s.count,
         p.vd_x = p.screen_x, p.vd_y = p.screen_y
  PROVE  OnScreen(p) /\ (Linked(s) => Linked(p))
<1>1. p.vd_y # Rows
  BY ScreenAssumption DEF Screen
<1> QED  BY <1>1 DEF OnScreen, Linked

\* A statement of putm keeps the position where the next one wants it.
LEMMA PutmPlaced ==
  ASSUME NEW p, NEW at \in InPutm, Placed(p, at)
  PROVE  PutmNext(at) \in Loops \cup InPutm /\ Placed(PutmPosition(p, at), PutmNext(at))
<1> USE ScreenAssumption
<1>0. p \in [x : 0 .. Cols, y : 0 .. Rows - 1]
  BY DEF Placed
<1>1. CASE at = "increment"
  <2>1. PutmPosition(p, at) = [p EXCEPT !.x = p.x + 1] /\ PutmNext(at) = "wrap"
    BY <1>1 DEF PutmPosition, PutmNext
  <2>2. p.x + 1 \in 0 .. Cols
    BY <1>0, <1>1 DEF Placed
  <2> QED  BY <1>0, <2>1, <2>2 DEF Placed, InPutm
<1>2. CASE at = "wrap"
  <2>1. PutmPosition(p, at) = [p EXCEPT !.x = p.x % Cols] /\ PutmNext(at) = "row"
    BY <1>2 DEF PutmPosition, PutmNext
  <2>2. p.x % Cols \in 0 .. Cols - 1
    BY <1>0
  <2> QED  BY <1>0, <2>1, <2>2 DEF Placed, InPutm
<1>3. CASE at = "row"
  <2>1. PutmPosition(p, at) = [p EXCEPT !.y = (p.y + p.x \div Cols) % Rows]
        /\ PutmNext(at) = "putm"
    BY <1>3 DEF PutmPosition, PutmNext
  <2>2. p.x \in 0 .. Cols - 1
    BY <1>0, <1>3 DEF Placed
  <2>3. p.x \div Cols \in Int
    BY <2>2
  <2>4. (p.y + p.x \div Cols) % Rows \in 0 .. Rows - 1
    BY <1>0, <2>3
  <2> QED  BY <1>0, <2>1, <2>2, <2>4 DEF Placed, Loops
<1>4. CASE at = "down"
  <2>1. PutmPosition(p, at) = [p EXCEPT !.y = p.y + 1] /\ PutmNext(at) = "home"
    BY <1>4 DEF PutmPosition, PutmNext
  <2>2. p.y + 1 \in 0 .. Rows - 1 /\ p.x # Cols
    BY <1>0, <1>4 DEF Placed
  <2> QED  BY <1>0, <2>1, <2>2 DEF Placed, InPutm
<1>5. CASE at = "bottom"
  <2>1. PutmPosition(p, at) = [p EXCEPT !.y = Rows - 1] /\ PutmNext(at) = "putm"
    BY <1>5 DEF PutmPosition, PutmNext
  <2>2. p.x # Cols
    BY <1>0, <1>5 DEF Placed
  <2> QED  BY <1>0, <2>1, <2>2 DEF Placed, Loops
<1>6. CASE at \in {"last", "home"}
  <2>1. PutmPosition(p, at) = [p EXCEPT !.x = 0] /\ PutmNext(at) \in {"bottom", "putm"}
    BY <1>6 DEF PutmPosition, PutmNext
  <2> QED  BY <1>0, <2>1 DEF Placed, Loops, InPutm
<1> QED  BY <1>1, <1>2, <1>3, <1>4, <1>5, <1>6 DEF InPutm

\* Outside putm the position is on the screen, and may be left or taken up anywhere
\* else outside putm.
LEMMA LoopPlaced ==
  ASSUME NEW p, NEW at \in Loops
  PROVE  Placed(p, at) <=> p \in Positions
<1>1. at # "wrap" /\ at # "down"
  BY DEF Loops
<1>2. ASSUME p \in [x : 0 .. Cols, y : 0 .. Rows - 1], p.x # Cols  PROVE p \in Positions
  <2>1. p.x \in 0 .. Cols - 1
    BY <1>2, ScreenAssumption
  <2> QED  BY <1>2, <2>1 DEF Positions
<1>3. ASSUME p \in Positions
      PROVE  p \in [x : 0 .. Cols, y : 0 .. Rows - 1] /\ p.x # Cols
  BY <1>3, ScreenAssumption DEF Positions
<1> QED  BY <1>1, <1>2, <1>3 DEF Placed

-----------------------------------------------------------------------------
(* The console *)

\* Which terminals there are and where their processes are.
ConsoleTypeOK ==
  /\ open \in [Terminals -> BOOLEAN]
  /\ current_id \in 1 .. NT
  /\ open[Shown]
  /\ wpc \in [Terminals -> Loops \cup InPutm]
  /\ saved \in [Terminals -> [x : Int, y : Int]]
  /\ curr_terminal \in Terminals

AllPlaced == \A t \in Terminals : Placed(saved[t], wpc[t])

ConsoleInv ==
  /\ ConsoleTypeOK
  /\ OneTerminal => ~torn /\ Linked(scr)
  /\ ~torn => OnScreen(scr) /\ AllPlaced

LEMMA ConsoleInitInv == Init => ConsoleInv
<1> SUFFICES ASSUME Init  PROVE ConsoleInv
  OBVIOUS
<1> USE ScreenAssumption
<1>1. scr \in Screen /\ scr.vd_y = 0 /\ scr.vd_x = 0 /\ scr.screen_x = 0 /\ scr.count = 0
      /\ ~scr.off
  BY DEF Init, Screen
<1>2. OnScreen(scr) /\ Linked(scr)
  BY <1>1 DEF OnScreen, Linked
<1>3. /\ saved \in [Terminals -> Positions] /\ saved \in [Terminals -> [x : Int, y : Int]]
      /\ wpc \in [Terminals -> Loops]
  BY DEF Init, Positions, Loops
<1>4. /\ current_id = 1 /\ 0 \in Terminals /\ Shown = 0 /\ current_id \in 1 .. NT
      /\ curr_terminal \in Terminals /\ ~torn
  BY DEF Init, Terminals, Shown
<1>5. open = [t \in Terminals |-> t = 0]
  BY DEF Init
<1>6. open \in [Terminals -> BOOLEAN] /\ open[0]
  BY <1>4, <1>5, Zenon
<1>7. AllPlaced
  BY <1>3, LoopPlaced DEF AllPlaced
<1> QED  BY <1>2, <1>3, <1>4, <1>6, <1>7 DEF ConsoleInv, ConsoleTypeOK

\* A step that changes the positions of the displayed terminal only.
LEMMA PositionStep ==
  ASSUME ConsoleInv, Running, UNCHANGED <<saved, open, current_id, curr_terminal, wpc, torn>>,
         OnScreen(scr'), OneTerminal /\ Linked(scr) => Linked(scr')
  PROVE  ConsoleInv'
BY DEF ConsoleInv, ConsoleTypeOK, AllPlaced, Placed, OneTerminal, Shown, OnScreen, Linked, Running

\* A step of the process of terminal t, to another point of terminal_write.
LEMMA ProcessStep ==
  ASSUME ConsoleInv, Running, NEW t \in Terminals, NEW p, NEW at \in Loops \cup InPutm,
         scr' = scr, UNCHANGED <<open, current_id, curr_terminal, torn>>,
         saved' = [saved EXCEPT ![t] = p], wpc' = [wpc EXCEPT ![t] = at], Placed(p, at)
  PROVE  ConsoleInv'
<1>1. ~torn /\ OnScreen(scr) /\ AllPlaced /\ ConsoleTypeOK
  BY DEF ConsoleInv, Running
<1>2. p \in [x : Int, y : Int]
  BY ScreenAssumption DEF Placed
<1>3. wpc' \in [Terminals -> Loops \cup InPutm] /\ saved' \in [Terminals -> [x : Int, y : Int]]
  BY <1>1, <1>2 DEF ConsoleTypeOK
<1>4. ConsoleTypeOK'
  BY <1>1, <1>3 DEF ConsoleTypeOK, Shown
<1>5. ASSUME NEW u \in Terminals  PROVE Placed(saved'[u], wpc'[u])
  <2>1. saved'[u] = (IF u = t THEN p ELSE saved[u]) /\ wpc'[u] = (IF u = t THEN at ELSE wpc[u])
    BY <1>1 DEF ConsoleTypeOK
  <2> QED  BY <1>1, <2>1 DEF AllPlaced
<1>6. AllPlaced'
  BY <1>5 DEF AllPlaced, Placed
<1>7. OneTerminal' = OneTerminal /\ torn' = torn /\ OnScreen(scr)' /\ (Linked(scr) => Linked(scr)')
  BY <1>1 DEF OneTerminal, OnScreen, Linked
<1> QED  BY <1>1, <1>4, <1>6, <1>7 DEF ConsoleInv

\* Output to the screen: both positions are set.
LEMMA OutputStep ==
  ASSUME ConsoleInv, Running, UNCHANGED <<saved, open, current_id, curr_terminal, wpc, torn>>,
         NEW newline \in BOOLEAN, scr' = Putc(scr, newline)
  PROVE  ConsoleInv'
<1> DEFINE p == Putc(scr, newline)
<1>1. scr \in Screen
  BY DEF ConsoleInv, Running, OnScreen
<1>2. /\ p \in Screen /\ p.off = scr.off /\ p.count = scr.count
      /\ p.vd_x = p.screen_x /\ p.vd_y = p.screen_y
  BY <1>1, PutcOn
<1> HIDE DEF p
<1>3. OnScreen(p) /\ (Linked(scr) => Linked(p))
  BY <1>1, <1>2, PrintedOn
<1>4. scr' = p
  BY DEF p
<1> QED  BY <1>3, <1>4, PositionStep

\* A new process on the displayed terminal splits a putm, or leaves all processes
\* outside of one.
LEMMA ExecuteInv ==
  ASSUME ConsoleInv, Execute
  PROVE  ConsoleInv'
<1>1. /\ Running /\ ~OneTerminal /\ curr_terminal' = Shown
      /\ UNCHANGED <<scr, saved, open, current_id>>
  BY DEF Execute
<1>2. ~torn /\ OnScreen(scr) /\ AllPlaced /\ ConsoleTypeOK
  BY <1>1 DEF ConsoleInv, Running
<1>3. Shown \in Terminals /\ Shown' = Shown /\ ~OneTerminal' /\ OnScreen(scr)'
  BY <1>1, <1>2, ScreenAssumption DEF ConsoleTypeOK, Shown, Terminals, OneTerminal, OnScreen
<1>4. CASE torn' = TRUE /\ UNCHANGED wpc
  <2>1. ConsoleTypeOK'
    BY <1>1, <1>2, <1>3, <1>4 DEF ConsoleTypeOK
  <2> QED  BY <1>3, <1>4, <2>1 DEF ConsoleInv
<1>5. CASE /\ {wpc[curr_terminal], wpc[Shown]} \subseteq Loops
           /\ \E a, b \in Loops : wpc' = [wpc EXCEPT ![curr_terminal] = a, ![Shown] = b]
           /\ UNCHANGED torn
  <2>1. PICK a \in Loops, b \in Loops :
          wpc' = [wpc EXCEPT ![curr_terminal] = a, ![Shown] = b]
    BY <1>5
  <2>2. wpc' \in [Terminals -> Loops \cup InPutm]
    BY <1>2, <2>1 DEF ConsoleTypeOK
  <2>3. ConsoleTypeOK'
    BY <1>1, <1>2, <1>3, <2>2 DEF ConsoleTypeOK
  <2>4. ASSUME NEW u \in Terminals  PROVE Placed(saved[u], wpc'[u])
    <3>1. CASE wpc'[u] = wpc[u]
      BY <1>2, <3>1 DEF AllPlaced
    <3>2. CASE wpc'[u] # wpc[u]
      <4>1. wpc[u] \in Loops /\ wpc'[u] \in Loops
        BY <1>2, <1>5, <2>1, <3>2 DEF ConsoleTypeOK
      <4> QED  BY <1>2, <4>1, LoopPlaced DEF AllPlaced
    <3> QED  BY <3>1, <3>2
  <2>5. AllPlaced'
    BY <1>1, <2>4 DEF AllPlaced, Placed
  <2> QED  BY <1>3, <2>3, <2>5 DEF ConsoleInv
<1> QED  BY <1>4, <1>5 DEF Execute

\* Alt-F splits a putm of one of the two terminals, or saves and restores positions
\* on the screen.
LEMMA SwitchInv ==
  ASSUME ConsoleInv, NEW c \in KeyCodes, SwitchKey(c)
  PROVE  ConsoleInv'
<1> DEFINE t == c - 59
           pos == IF t = 0 \/ open[t] THEN saved[t] ELSE [x |-> 0, y |-> 0]
           left == [x |-> scr.screen_x, y |-> scr.screen_y]
<1>1. /\ Running
      /\ t \in Terminals \ {Shown}
      /\ saved' = [saved EXCEPT ![Shown] = left]
      /\ scr' = ResetPosition(scr, pos.x, pos.y)
      /\ open' = [open EXCEPT ![t] = TRUE]
      /\ current_id' = t + 1
      /\ torn' = (wpc[Shown] \in InPutm \/ wpc[t] \in InPutm)
      /\ UNCHANGED <<curr_terminal, wpc>>
  BY DEF SwitchKey
<1>2. ~torn /\ OnScreen(scr) /\ scr \in Screen /\ AllPlaced /\ ConsoleTypeOK
  BY <1>1 DEF ConsoleInv, Running, OnScreen
<1> HIDE DEF pos, t
<1>3. Shown \in Terminals /\ left \in Positions
  BY <1>2, ScreenAssumption DEF ConsoleTypeOK, Shown, Terminals, Screen, Positions
<1>4. /\ open' \in [Terminals -> BOOLEAN] /\ current_id' \in 1 .. NT
      /\ Shown' = t /\ open'[t] /\ open'[Shown]
  BY <1>1, <1>2, <1>3, ScreenAssumption DEF Terminals, Shown, ConsoleTypeOK
<1>5. saved' \in [Terminals -> [x : Int, y : Int]]
  BY <1>1, <1>2, <1>3, ScreenAssumption DEF ConsoleTypeOK, Positions
<1>6. ConsoleTypeOK'
  BY <1>1, <1>2, <1>4, <1>5 DEF ConsoleTypeOK
<1>7. ~OneTerminal'
  BY <1>1, <1>2, <1>3, <1>4 DEF OneTerminal, ConsoleTypeOK
<1>8. ASSUME ~torn'  PROVE OnScreen(scr') /\ AllPlaced'
  <2>1. wpc[Shown] \in Loops /\ wpc[t] \in Loops
    BY <1>1, <1>2, <1>3, <1>8 DEF ConsoleTypeOK
  <2>2. pos \in Positions
    <3>1. saved[t] \in Positions
      BY <1>1, <1>2, <2>1, LoopPlaced DEF AllPlaced
    <3> QED  BY <3>1, ScreenAssumption DEF pos, Positions
  <2>3. scr' = [scr EXCEPT !.screen_x = pos.x, !.screen_y = pos.y]
    BY <1>1 DEF ResetPosition
  <2>4. OnScreen(scr')
    BY <1>2, <2>2, <2>3 DEF OnScreen, Screen, Positions
  <2>5. ASSUME NEW u \in Terminals  PROVE Placed(saved'[u], wpc'[u])
    <3>1. CASE u = Shown
      BY <1>1, <1>2, <1>3, <2>1, <3>1, LoopPlaced DEF ConsoleTypeOK
    <3>2. CASE u # Shown
      BY <1>1, <1>2, <3>2 DEF AllPlaced, ConsoleTypeOK
    <3> QED  BY <3>1, <3>2
  <2>6. AllPlaced'
    BY <2>5 DEF AllPlaced, Placed
  <2> QED  BY <2>4, <2>6
<1>9. ~torn' => OnScreen(scr)' /\ AllPlaced'
  BY <1>8 DEF OnScreen
<1> QED  BY <1>6, <1>7, <1>9 DEF ConsoleInv

LEMMA ConsoleNextInv == ConsoleInv /\ [Next]_vars => ConsoleInv'
<1> SUFFICES ASSUME ConsoleInv, [Next]_vars  PROVE ConsoleInv'
  OBVIOUS
<1>0. ASSUME Running
      PROVE  ~torn /\ OnScreen(scr) /\ scr \in Screen /\ AllPlaced /\ ConsoleTypeOK
  BY <1>0 DEF ConsoleInv, Running, OnScreen
<1>1. ASSUME NEW c \in KeyCodes, EditKey(c)  PROVE ConsoleInv'
  <2>1. Running /\ UNCHANGED <<saved, open, current_id, curr_terminal, wpc, torn>>
    BY <1>1 DEF EditKey
  <2>2. scr' \in {scr, Prout(scr, FALSE), EnterLine(scr), ClearLine(scr)}
        \/ (Backspace(scr) # scr /\ scr' = [Backspace(scr) EXCEPT !.count = @ - 1])
        \/ scr' = Backspace(scr)
    BY <1>1 DEF EditKey
  <2>3. OnScreen(scr') /\ (Linked(scr) => Linked(scr'))
    <3>1. CASE scr' \in {scr, Prout(scr, FALSE), EnterLine(scr), ClearLine(scr)}
      BY <1>0, <2>1, <3>1, ProutOn, EnterOn, ClearOn
    <3>2. CASE Backspace(scr) # scr /\ scr' = [Backspace(scr) EXCEPT !.count = @ - 1]
      BY <1>0, <2>1, <3>2, BackspaceOn, CountOn
    <3>3. CASE scr' = Backspace(scr)
      BY <1>0, <2>1, <3>3, BackspaceOn
    <3> QED  BY <2>2, <3>1, <3>2, <3>3
  <2> QED  BY <2>1, <2>3, PositionStep
<1>2. ASSUME NEW c \in KeyCodes, SwitchKey(c)  PROVE ConsoleInv'
  BY <1>2, SwitchInv
<1>3. ASSUME NEW c \in KeyCodes, AlreadyKey(c)  PROVE ConsoleInv'
  <2> DEFINE x == (scr.screen_x + Already) % Cols
  <2>0. Running /\ UNCHANGED <<saved, open, current_id, curr_terminal, wpc, torn>>
    BY <1>3 DEF AlreadyKey
  <2>1. x \in 0 .. Cols - 1 /\ scr.screen_y \in 0 .. Rows
    BY <1>0, <2>0, ScreenAssumption DEF Screen, Already
  <2>2. Store(scr, scr.screen_x, scr.screen_y) = scr
    BY <1>0, <2>0, StoreOn DEF Screen
  <2>3. scr' = CopyPosition(ResetPosition(Store(scr, scr.screen_x, scr.screen_y),
                                          x, scr.screen_y), x, scr.screen_y)
    BY <1>3 DEF AlreadyKey
  <2> HIDE DEF x
  <2>4. scr' = [scr EXCEPT !.screen_x = x, !.vd_x = x, !.vd_y = scr.screen_y]
    BY <1>0, <2>0, <2>2, <2>3 DEF CopyPosition, ResetPosition, Screen
  <2>5. /\ scr' \in Screen /\ scr'.off = scr.off /\ scr'.count = scr.count
        /\ scr'.vd_x = scr'.screen_x /\ scr'.vd_y = scr'.screen_y
    BY <1>0, <2>0, <2>1, <2>4 DEF Screen
  <2>6. OnScreen(scr') /\ (Linked(scr) => Linked(scr'))
    BY <1>0, <2>0, <2>5, PrintedOn
  <2> QED  BY <2>0, <2>6, PositionStep
<1>4. ASSUME NEW t \in Terminals, NEW newline \in BOOLEAN, WriteShown(t, newline)
      PROVE  ConsoleInv'
  <2>1. /\ Running /\ scr' = Putc(scr, newline)
        /\ UNCHANGED <<saved, open, current_id, curr_terminal, wpc, torn>>
    BY <1>4 DEF WriteShown
  <2> QED  BY <2>1, OutputStep
<1>5. ASSUME NEW t \in Terminals, NEW newline \in BOOLEAN, WriteHidden(t, newline)
      PROVE  ConsoleInv'
  <2> DEFINE at == IF ~newline THEN "increment"
                   ELSE IF saved[t].y = Rows - 1 THEN "last" ELSE "down"
  <2>1. /\ Running /\ wpc[t] = "putm" /\ wpc' = [wpc EXCEPT ![t] = at]
        /\ UNCHANGED <<saved, open, current_id, curr_terminal, torn>>
        /\ scr' = IF newline THEN scr ELSE Store(scr, saved[t].x, saved[t].y)
    BY <1>5 DEF WriteHidden
  <2>2. Placed(saved[t], "putm") /\ saved[t] \in Positions
    BY <1>0, <2>1, LoopPlaced DEF AllPlaced, Loops
  <2>3. scr' = scr
    BY <1>0, <2>1, <2>2, StoreOn DEF Positions
  <2>4. at \in Loops \cup InPutm /\ Placed(saved[t], at)
    BY <2>2 DEF Placed, InPutm
  <2>5. saved' = [saved EXCEPT ![t] = saved[t]]
    BY <1>0, <2>1 DEF ConsoleTypeOK
  <2> HIDE DEF at
  <2> QED  BY <2>1, <2>3, <2>4, <2>5, ProcessStep
<1>6. ASSUME NEW t \in Terminals, Putm(t)  PROVE ConsoleInv'
  <2>1. /\ Running /\ wpc[t] \in InPutm /\ scr' = scr
        /\ UNCHANGED <<open, current_id, curr_terminal, torn>>
        /\ saved' = [saved EXCEPT ![t] = PutmPosition(saved[t], wpc[t])]
        /\ wpc' = [wpc EXCEPT ![t] = PutmNext(wpc[t])]
    BY <1>6 DEF Putm
  <2>2. Placed(saved[t], wpc[t])
    BY <1>0, <2>1 DEF AllPlaced
  <2>3. /\ PutmNext(wpc[t]) \in Loops \cup InPutm
        /\ Placed(PutmPosition(saved[t], wpc[t]), PutmNext(wpc[t]))
    BY <2>1, <2>2, PutmPlaced
  <2> QED  BY <2>1, <2>3, ProcessStep
<1>7. ASSUME NEW t \in Terminals, WriteCall(t) \/ WriteEnd(t)  PROVE ConsoleInv'
  <2>1. /\ Running /\ wpc[t] \in Loops
        /\ UNCHANGED <<scr, saved, open, current_id, curr_terminal, torn>>
        /\ \E at \in Loops : wpc' = [wpc EXCEPT ![t] = at]
    BY <1>7 DEF WriteCall, WriteEnd, Loops
  <2>2. PICK at \in Loops : wpc' = [wpc EXCEPT ![t] = at]
    BY <2>1
  <2>3. saved' = [saved EXCEPT ![t] = saved[t]] /\ Placed(saved[t], wpc[t])
    BY <1>0, <2>1 DEF ConsoleTypeOK, AllPlaced
  <2>4. Placed(saved[t], at)
    BY <2>1, <2>3, LoopPlaced
  <2> QED  BY <2>1, <2>2, <2>3, <2>4, ProcessStep
<1>8. CASE TableFull
  <2>1. /\ Running /\ scr' = PutNewline(Store(scr, scr.screen_x, scr.screen_y))
        /\ UNCHANGED <<saved, open, current_id, curr_terminal, wpc, torn>>
    BY <1>8 DEF TableFull
  <2>2. scr' = Putc(scr, TRUE)
    <3>1. Store(scr, scr.screen_x, scr.screen_y) = scr
      BY <1>0, <2>1, StoreOn DEF Screen
    <3> QED  BY <2>1, <3>1 DEF Putc
  <2> QED  BY <2>1, <2>2, OutputStep
<1>9. CASE Execute
  BY <1>9, ExecuteInv
<1>10. CASE Pit
  <2>1. /\ Running /\ curr_terminal' \in Terminals
        /\ UNCHANGED <<scr, saved, open, current_id, wpc, torn>>
    BY <1>10 DEF Pit
  <2> QED
    BY <2>1 DEF ConsoleInv, ConsoleTypeOK, AllPlaced, Placed, OneTerminal, Shown, OnScreen, Linked
<1>11. CASE UNCHANGED vars
  BY <1>11
  DEF vars, ConsoleInv, ConsoleTypeOK, AllPlaced, Placed, OneTerminal, Shown, OnScreen, Linked
<1> QED
  BY <1>1, <1>2, <1>3, <1>4, <1>5, <1>6, <1>7, <1>8, <1>9, <1>10, <1>11 DEF Next

-----------------------------------------------------------------------------
(* The key tables *)

\* A key prints p without shift and q with it.
IsSymbol(c, p, q) == \E s \in Symbols : c = s[1] /\ p = s[2] /\ q = s[3]
IsDigit(c, p, q) ==
  \E i \in 1 .. 10 : c = Digits[i] /\ p = DigitPlain[i] /\ q = DigitShift[i]
IsLetter(c, p, q) == \E i \in 1 .. 26 : c = Letters[i] /\ p = 96 + i /\ q = 64 + i
IsKey(c, p, q) ==
  IsSymbol(c, p, q) \/ IsDigit(c, p, q) \/ IsLetter(c, p, q)
    \/ (c = space_pressed /\ p = 32 /\ q = 32)

\* What the three branches of print_keyboard make of a key.
Printed(p, q, shift, caps) == IF shift \/ (caps /\ p \in 97 .. 122) THEN q ELSE p

\* The tables, entry by entry.
LEMMA SymbolEntries == \A c, p, q : IsSymbol(c, p, q) <=>
  (c = 41 /\ p = 96 /\ q = 126) \/ (c = 12 /\ p = 45 /\ q = 95)
  \/ (c = 13 /\ p = 61 /\ q = 43) \/ (c = 26 /\ p = 91 /\ q = 123)
  \/ (c = 27 /\ p = 93 /\ q = 125) \/ (c = 43 /\ p = 92 /\ q = 124)
  \/ (c = 39 /\ p = 59 /\ q = 58) \/ (c = 40 /\ p = 39 /\ q = 34)
  \/ (c = 51 /\ p = 44 /\ q = 60) \/ (c = 52 /\ p = 46 /\ q = 62)
  \/ (c = 53 /\ p = 47 /\ q = 63)
  BY DEF IsSymbol, Symbols

LEMMA DigitEntries == \A c, p, q : IsDigit(c, p, q) <=>
  (c = 2 /\ p = 49 /\ q = 33) \/ (c = 3 /\ p = 50 /\ q = 64)
  \/ (c = 4 /\ p = 51 /\ q = 35) \/ (c = 5 /\ p = 52 /\ q = 36)
  \/ (c = 6 /\ p = 53 /\ q = 37) \/ (c = 7 /\ p = 54 /\ q = 94)
  \/ (c = 8 /\ p = 55 /\ q = 38) \/ (c = 9 /\ p = 56 /\ q = 42)
  \/ (c = 10 /\ p = 57 /\ q = 40) \/ (c = 11 /\ p = 48 /\ q = 41)
<1>1. \A i : i \in 1 .. 10 <=>
        i = 1 \/ i = 2 \/ i = 3 \/ i = 4 \/ i = 5 \/ i = 6 \/ i = 7 \/ i = 8 \/ i = 9
        \/ i = 10
  OBVIOUS
<1> QED  BY <1>1 DEF IsDigit, Digits, DigitPlain, DigitShift

LEMMA LetterEntries == \A c, p, q : IsLetter(c, p, q) <=>
  (c = 30 /\ p = 97 /\ q = 65) \/ (c = 48 /\ p = 98 /\ q = 66)
  \/ (c = 46 /\ p = 99 /\ q = 67) \/ (c = 32 /\ p = 100 /\ q = 68)
  \/ (c = 18 /\ p = 101 /\ q = 69) \/ (c = 33 /\ p = 102 /\ q = 70)
  \/ (c = 34 /\ p = 103 /\ q = 71) \/ (c = 35 /\ p = 104 /\ q = 72)
  \/ (c = 23 /\ p = 105 /\ q = 73) \/ (c = 36 /\ p = 106 /\ q = 74)
  \/ (c = 37 /\ p = 107 /\ q = 75) \/ (c = 38 /\ p = 108 /\ q = 76)
  \/ (c = 50 /\ p = 109 /\ q = 77) \/ (c = 49 /\ p = 110 /\ q = 78)
  \/ (c = 24 /\ p = 111 /\ q = 79) \/ (c = 25 /\ p = 112 /\ q = 80)
  \/ (c = 16 /\ p = 113 /\ q = 81) \/ (c = 19 /\ p = 114 /\ q = 82)
  \/ (c = 31 /\ p = 115 /\ q = 83) \/ (c = 20 /\ p = 116 /\ q = 84)
  \/ (c = 22 /\ p = 117 /\ q = 85) \/ (c = 47 /\ p = 118 /\ q = 86)
  \/ (c = 17 /\ p = 119 /\ q = 87) \/ (c = 45 /\ p = 120 /\ q = 88)
  \/ (c = 21 /\ p = 121 /\ q = 89) \/ (c = 44 /\ p = 122 /\ q = 90)
<1>1. \A i : i \in 1 .. 26 <=>
        i = 1 \/ i = 2 \/ i = 3 \/ i = 4 \/ i = 5 \/ i = 6 \/ i = 7 \/ i = 8 \/ i = 9
        \/ i = 10 \/ i = 11 \/ i = 12 \/ i = 13 \/ i = 14 \/ i = 15 \/ i = 16 \/ i = 17
        \/ i = 18 \/ i = 19 \/ i = 20 \/ i = 21 \/ i = 22 \/ i = 23 \/ i = 24 \/ i = 25
        \/ i = 26
  OBVIOUS
<1> QED  BY <1>1 DEF IsLetter, Letters

\* A glyph is what a key prints.
LEMMA GlyphIsPrinted ==
  ASSUME NEW c, NEW shift \in BOOLEAN, NEW caps \in BOOLEAN, NEW a
  PROVE  a \in Glyph(c, shift, caps) <=>
           \E p, q : IsKey(c, p, q) /\ a = Printed(p, q, shift, caps)
<1> DEFINE Symbol == \E s \in Symbols : s[1] = c /\ a = IF shift THEN s[3] ELSE s[2]
           Digit == \E i \in 1 .. 10 :
                      Digits[i] = c /\ a = IF shift THEN DigitShift[i] ELSE DigitPlain[i]
           Letter == \E i \in 1 .. 26 :
                       Letters[i] = c /\ a = IF shift \/ caps THEN 64 + i ELSE 96 + i
           Space == c = space_pressed /\ a = 32
<1>1. a \in Glyph(c, shift, caps) <=> Symbol \/ Digit \/ Letter \/ Space
  BY DEF Glyph, ShiftGlyph, CapsGlyph, PlainGlyph
<1>2. \A p, q : IsSymbol(c, p, q) \/ IsDigit(c, p, q) => p \in Int /\ p \notin 97 .. 122
  BY SymbolEntries, DigitEntries
<1>3. Symbol <=> \E p, q : IsSymbol(c, p, q) /\ a = Printed(p, q, shift, caps)
  <2>1. Symbol <=> \E p, q : IsSymbol(c, p, q) /\ a = IF shift THEN q ELSE p
    BY DEF IsSymbol
  <2> QED  BY <2>1, <1>2 DEF Printed
<1>4. Digit <=> \E p, q : IsDigit(c, p, q) /\ a = Printed(p, q, shift, caps)
  <2>1. Digit <=> \E p, q : IsDigit(c, p, q) /\ a = IF shift THEN q ELSE p
    BY DEF IsDigit
  <2> QED  BY <2>1, <1>2 DEF Printed
<1>5. Letter <=> \E p, q : IsLetter(c, p, q) /\ a = Printed(p, q, shift, caps)
  <2>1. Letter <=> \E p, q : IsLetter(c, p, q) /\ a = IF shift \/ caps THEN q ELSE p
    <3>1. CASE shift \/ caps
      BY <3>1 DEF IsLetter
    <3>2. CASE ~(shift \/ caps)
      BY <3>2 DEF IsLetter
    <3> QED  BY <3>1, <3>2
  <2>2. \A p, q : IsLetter(c, p, q) => p \in 97 .. 122
    BY LetterEntries
  <2>3. \A p, q : IsLetter(c, p, q) =>
          Printed(p, q, shift, caps) = IF shift \/ caps THEN q ELSE p
    BY <2>2 DEF Printed
  <2> QED  BY <2>1, <2>3
<1>6. Space <=> \E p, q : (c = space_pressed /\ p = 32 /\ q = 32)
                            /\ a = Printed(p, q, shift, caps)
  BY DEF Printed
<1> HIDE DEF Symbol, Digit, Letter, Space
<1> QED  BY <1>1, <1>3, <1>4, <1>5, <1>6 DEF IsKey

\* A key is in the tables once.
LEMMA KeyOnce ==
  ASSUME NEW c, NEW p, NEW q, NEW x, NEW y, IsKey(c, p, q), IsKey(c, x, y)
  PROVE  p = x /\ q = y
  BY SymbolEntries, DigitEntries, LetterEntries DEF IsKey, space_pressed

\* No two keys print the same.
LEMMA PrintedOnce ==
  ASSUME NEW c, NEW p, NEW q, NEW d, NEW x, NEW y, IsKey(c, p, q), IsKey(d, x, y),
         NEW shift \in BOOLEAN, NEW caps \in BOOLEAN,
         Printed(p, q, shift, caps) = Printed(x, y, shift, caps)
  PROVE  c = d
<1>1. CASE p = x
  BY <1>1, SymbolEntries, DigitEntries, LetterEntries DEF IsKey, space_pressed
<1>2. CASE q = y
  BY <1>2, SymbolEntries, DigitEntries, LetterEntries DEF IsKey, space_pressed
<1>3. CASE p = y
  BY <1>3, SymbolEntries, DigitEntries, LetterEntries DEF IsKey, space_pressed, Printed
<1>4. CASE q = x
  BY <1>4, SymbolEntries, DigitEntries, LetterEntries DEF IsKey, space_pressed, Printed
<1> QED  BY <1>1, <1>2, <1>3, <1>4 DEF Printed

\* Every character a key prints is printable, and with caps lock no lower case.
LEMMA PrintedRange ==
  ASSUME NEW c, NEW p, NEW q, IsKey(c, p, q), NEW shift \in BOOLEAN, NEW caps \in BOOLEAN
  PROVE  /\ Printed(p, q, shift, caps) \in 32 .. 126
         /\ caps => Printed(p, q, shift, caps) \notin 97 .. 122
<1>1. p \in 32 .. 126 /\ q \in 32 .. 126 /\ q \notin 97 .. 122
  BY SymbolEntries, DigitEntries, LetterEntries DEF IsKey, space_pressed
<1> QED  BY <1>1 DEF Printed

\* Every printable character is on a key.
LEMMA KeyOfCharacter ==
  ASSUME NEW a \in 32 .. 126
  PROVE  \E c \in Codes : \E p, q : IsKey(c, p, q) /\ (a = p \/ a = q)
<1>1. CASE a \in 97 .. 122
  <2>1. a - 96 \in 1 .. 26 /\ a = 96 + (a - 96)
    BY <1>1
  <2>2. IsLetter(Letters[a - 96], a, 64 + (a - 96))
    BY <2>1 DEF IsLetter
  <2>3. Letters[a - 96] \in Codes
    BY <2>2, LetterEntries DEF Codes
  <2> QED  BY <2>2, <2>3 DEF IsKey
<1>2. CASE a \in 65 .. 90
  <2>1. a - 64 \in 1 .. 26 /\ a = 64 + (a - 64)
    BY <1>2
  <2>2. IsLetter(Letters[a - 64], 96 + (a - 64), a)
    BY <2>1 DEF IsLetter
  <2>3. Letters[a - 64] \in Codes
    BY <2>2, LetterEntries DEF Codes
  <2> QED  BY <2>2, <2>3 DEF IsKey
<1>3. CASE a = 32
  <2>1. IsKey(57, 32, 32) /\ 57 \in Codes
    BY DEF IsKey, space_pressed, Codes
  <2> QED  BY <1>3, <2>1
<1>4. CASE a \notin 97 .. 122 /\ a \notin 65 .. 90 /\ a # 32
  <2> DEFINE OnKey(x) == \E c \in Codes : \E p, q : IsKey(c, p, q) /\ (x = p \/ x = q)
  <2>1. ASSUME NEW c, NEW p, NEW q, IsSymbol(c, p, q) \/ IsDigit(c, p, q)
        PROVE  OnKey(p) /\ OnKey(q)
    <3>1. c \in Codes
      BY <2>1, SymbolEntries, DigitEntries DEF Codes
    <3> QED  BY <2>1, <3>1 DEF IsKey
  <2> HIDE DEF OnKey
  <2>2. IsSymbol(41, 96, 126) /\ IsSymbol(12, 45, 95) /\ IsSymbol(13, 61, 43)
        /\ IsSymbol(26, 91, 123) /\ IsSymbol(27, 93, 125) /\ IsSymbol(43, 92, 124)
        /\ IsSymbol(39, 59, 58) /\ IsSymbol(40, 39, 34) /\ IsSymbol(51, 44, 60)
        /\ IsSymbol(52, 46, 62) /\ IsSymbol(53, 47, 63)
    BY SymbolEntries
  <2>3. IsDigit(2, 49, 33) /\ IsDigit(3, 50, 64) /\ IsDigit(4, 51, 35)
        /\ IsDigit(5, 52, 36) /\ IsDigit(6, 53, 37) /\ IsDigit(7, 54, 94)
        /\ IsDigit(8, 55, 38) /\ IsDigit(9, 56, 42) /\ IsDigit(10, 57, 40)
        /\ IsDigit(11, 48, 41)
    BY DigitEntries
  <2>4. OnKey(96) /\ OnKey(126) /\ OnKey(45) /\ OnKey(95) /\ OnKey(61) /\ OnKey(43)
        /\ OnKey(91) /\ OnKey(123) /\ OnKey(93) /\ OnKey(125) /\ OnKey(92) /\ OnKey(124)
        /\ OnKey(59) /\ OnKey(58) /\ OnKey(39) /\ OnKey(34) /\ OnKey(44) /\ OnKey(60)
        /\ OnKey(46) /\ OnKey(62) /\ OnKey(47) /\ OnKey(63)
    BY <2>1, <2>2
  <2>5. OnKey(49) /\ OnKey(33) /\ OnKey(50) /\ OnKey(64) /\ OnKey(51) /\ OnKey(35)
        /\ OnKey(52) /\ OnKey(36) /\ OnKey(53) /\ OnKey(37) /\ OnKey(54) /\ OnKey(94)
        /\ OnKey(55) /\ OnKey(38) /\ OnKey(56) /\ OnKey(42) /\ OnKey(57) /\ OnKey(40)
        /\ OnKey(48) /\ OnKey(41)
    BY <2>1, <2>3
  <2>6. a = 96 \/ a = 126 \/ a = 45 \/ a = 95 \/ a = 61 \/ a = 43 \/ a = 91 \/ a = 123
        \/ a = 93 \/ a = 125 \/ a = 92 \/ a = 124 \/ a = 59 \/ a = 58 \/ a = 39
        \/ a = 34 \/ a = 44 \/ a = 60 \/ a = 46 \/ a = 62 \/ a = 47 \/ a = 63 \/ a = 49
        \/ a = 33 \/ a = 50 \/ a = 64 \/ a = 51 \/ a = 35 \/ a = 52 \/ a = 36 \/ a = 53
        \/ a = 37 \/ a = 54 \/ a = 94 \/ a = 55 \/ a = 38 \/ a = 56 \/ a = 42 \/ a = 57
        \/ a = 40 \/ a = 48 \/ a = 41
    BY <1>4
  <2>7. OnKey(a)
    BY <2>4, <2>5, <2>6
  <2> QED  BY <2>7 DEF OnKey
<1> QED  BY <1>1, <1>2, <1>3, <1>4

\* With caps lock or without, the tables are well formed.
LEMMA TablesWellFormed == ASSUME NEW caps \in BOOLEAN PROVE WellFormed[caps]
<1> DEFINE Printable == IF caps THEN (32 .. 126) \ (97 .. 122) ELSE 32 .. 126
           Characters == UNION {Glyph(c, s, caps) : c \in Codes, s \in BOOLEAN}
<1>1. ASSUME NEW a \in Characters PROVE a \in Printable
  <2>1. PICK c \in Codes, s \in BOOLEAN : a \in Glyph(c, s, caps)
    OBVIOUS
  <2>2. PICK p, q : IsKey(c, p, q) /\ a = Printed(p, q, s, caps)
    BY <2>1, GlyphIsPrinted
  <2> QED  BY <2>2, PrintedRange
<1>2. ASSUME NEW a \in Printable PROVE a \in Characters
  <2>1. PICK c \in Codes : \E p, q : IsKey(c, p, q) /\ (a = p \/ a = q)
    BY KeyOfCharacter
  <2>2. PICK p, q : IsKey(c, p, q) /\ (a = p \/ a = q)
    BY <2>1
  <2>3. \E s \in BOOLEAN : a = Printed(p, q, s, caps)
    <3>1. q = Printed(p, q, TRUE, caps)
      BY DEF Printed
    <3>2. CASE a = p
      <4>1. caps => p \notin 97 .. 122
        BY <3>2
      <4>2. p = Printed(p, q, FALSE, caps)
        BY <4>1 DEF Printed
      <4> QED  BY <3>2, <4>2
    <3> QED  BY <2>2, <3>1, <3>2
  <2>4. PICK s \in BOOLEAN : a \in Glyph(c, s, caps)
    BY <2>2, <2>3, GlyphIsPrinted
  <2> QED  BY <2>4
<1> HIDE DEF Printable, Characters
<1>3. Characters = Printable
  BY <1>1, <1>2
<1>4. ASSUME NEW s \in BOOLEAN, NEW c, NEW a \in Glyph(c, s, caps), NEW b \in Glyph(c, s, caps)
      PROVE  a = b
  <2>1. PICK p, q : IsKey(c, p, q) /\ a = Printed(p, q, s, caps)
    BY GlyphIsPrinted
  <2>2. PICK x, y : IsKey(c, x, y) /\ b = Printed(x, y, s, caps)
    BY GlyphIsPrinted
  <2> QED  BY <2>1, <2>2, KeyOnce
<1>5. ASSUME NEW s \in BOOLEAN, NEW c, NEW d, Glyph(c, s, caps) # {},
             Glyph(c, s, caps) = Glyph(d, s, caps)
      PROVE  c = d
  <2>1. PICK a : a \in Glyph(c, s, caps) /\ a \in Glyph(d, s, caps)
    BY <1>5
  <2>2. PICK p, q : IsKey(c, p, q) /\ a = Printed(p, q, s, caps)
    BY <2>1, GlyphIsPrinted
  <2>3. PICK x, y : IsKey(d, x, y) /\ a = Printed(x, y, s, caps)
    BY <2>1, GlyphIsPrinted
  <2>4. Printed(p, q, s, caps) = Printed(x, y, s, caps)
    BY <2>2, <2>3
  <2> QED  BY <2>2, <2>3, <2>4, PrintedOnce
<1>6. \A s \in BOOLEAN : \A c \in PrintingKeys[s][caps] : Glyph(c, s, caps) # {}
  BY DEF PrintingKeys
<1>7. WellFormed[caps] =
        /\ Characters = Printable
        /\ \A s \in BOOLEAN : \A c \in PrintingKeys[s][caps] :
             \A a, b \in Glyph(c, s, caps) : a = b
        /\ \A s \in BOOLEAN : \A c, d \in PrintingKeys[s][caps] :
             Glyph(c, s, caps) = Glyph(d, s, caps) => c = d
  BY DEF WellFormed, Characters, Printable
<1> QED  BY <1>3, <1>4, <1>5, <1>6, <1>7

\* caps_lock_flags is a Boolean: the key toggles it, everything else leaves it.
CapsLockTypeOK == caps_lock_flags \in BOOLEAN

LEMMA CapsLockNext == CapsLockTypeOK /\ [Next]_vars => CapsLockTypeOK'
<1> USE DEF CapsLockTypeOK
<1>1. ASSUME NEW c, Modifiers(c) PROVE caps_lock_flags' \in BOOLEAN
  BY <1>1, Zenon DEF Modifiers
<1>2. ASSUME caps_lock_flags \in BOOLEAN, UNCHANGED flagVars
      PROVE  caps_lock_flags' \in BOOLEAN
  BY <1>2 DEF flagVars
<1> QED
  BY <1>1, <1>2
  DEF Next, EditKey, SwitchKey, AlreadyKey, WriteCall, WriteShown, WriteHidden, Putm, WriteEnd,
      TableFull, Execute, Pit, vars

-----------------------------------------------------------------------------
(* Theorems *)

\* The invariant holds of every behaviour.
THEOREM ConsoleInvCorrect == Spec => []ConsoleInv
  BY ConsoleInitInv, ConsoleNextInv, PTL DEF Spec

\* With one terminal every character is stored on the screen, for every screen of two
\* columns and rows or more, and backspace wipes where the keyboard typed.
THEOREM SingleTerminalOnScreenCorrect == Spec => []SingleTerminalOnScreen
<1>1. ConsoleInv => SingleTerminalOnScreen
  <2> SUFFICES ASSUME ConsoleInv, OneTerminal  PROVE SingleTerminalOnScreen
    BY DEF SingleTerminalOnScreen
  <2>1. scr \in Screen /\ Linked(scr)
    BY DEF ConsoleInv, OnScreen
  <2>2. scr.screen_x \in 0 .. Cols - 1 /\ scr.screen_y \in 0 .. Rows - 1
    BY <2>1 DEF Screen
  <2>3. scr.count > 0 => scr.vd_x = scr.screen_x
    BY <2>1, ScreenAssumption DEF Linked, Screen
  <2>4. scr.count > 0 => scr.vd_y = scr.screen_y
                           \/ (scr.vd_x = 0 /\ scr.vd_y = Rows /\ scr.screen_y = Rows - 1)
    BY <2>1 DEF Linked
  <2> QED  BY <2>1, <2>2, <2>3, <2>4 DEF SingleTerminalOnScreen, Linked
<1> QED  BY <1>1, ConsoleInvCorrect, PTL

\* With any number of terminals, and wherever the PIT interrupts putm, the positions a
\* display switch saves and restores, and those background programs print at, stay on
\* the screen, until Alt-F or the loss of a context splits a putm.
THEOREM HiddenOnScreenCorrect == Spec => []HiddenOnScreen
<1>1. ASSUME NEW p, NEW at, Placed(p, at)
      PROVE  (p.x \in 0 .. Cols - 1 \/ (p.x = Cols /\ at = "wrap")) /\ p.y \in 0 .. Rows - 1
  BY <1>1, ScreenAssumption DEF Placed
<1>2. ConsoleInv => HiddenOnScreen
  BY <1>1 DEF ConsoleInv, HiddenOnScreen, OnScreen, AllPlaced
<1> QED  BY <1>2, ConsoleInvCorrect, PTL

\* In whatever state caps lock gets into, the tables of keyboard.c print every printable
\* character (but for the lower case caps lock takes away), each from one key, and no
\* key prints two.
THEOREM LayoutCorrect == Spec => []Layout
<1>1. Init => CapsLockTypeOK
  BY DEF Init, InitFlags, CapsLockTypeOK
<1>2. CapsLockTypeOK => Layout
  BY TablesWellFormed DEF Layout, CapsLockTypeOK
<1> QED  BY <1>1, <1>2, CapsLockNext, PTL DEF Spec
==============================================================================
