------------------------- MODULE DescriptorsProofs -------------------------
(***************************************************************************)
(* Proofs about Descriptors and Rtc for any number of terminals and        *)
(* descriptors.  Beside the properties the invariant says where open and   *)
(* its caller stand between the two stores of open.                        *)
(***************************************************************************)
EXTENDS Descriptors, NatLemmas, TLAPS

\* Between its two stores open is at a descriptor that is neither 0 nor 1 and has
\* its table already.
Opening ==
  \A t \in Terminals : call[t].at = "open" =>
    call[t].fd \notin {0, 1} /\ op_table[t][call[t].fd] # Null

FdInv == OpenHasTable /\ StdStreams /\ Opening /\ WriteIsOwn

Inv == TypeOK /\ FdInv /\ RtcWaitsForTick

-----------------------------------------------------------------------------
\* The entries of the rate table are four-bit rates.
LEMMA RatesType == \A r \in Rates : r[1] \in Int /\ r[2] \in 0 .. 15
BY DEF Rates

\* rtc_write keeps the types of the clock's variables and sets the rate only.
LEMMA RtcWriteType ==
  ASSUME RtcTypeOK, NEW f \in Freqs, RtcWrite(f)
  PROVE  RtcTypeOK' /\ UNCHANGED <<rtc_interrupt_flag, waits, ticked>>
<1>1. CASE \E r \in Rates : r[1] = f
  <2> DEFINE e == CHOOSE r \in Rates : r[1] = f
  <2>1. e \in Rates
    BY <1>1
  <2>2. rate' = e[2] /\ hz' = f
    BY <1>1 DEF RtcWrite
  <2> QED  BY <2>1, <2>2, RatesType, RtcAssumption DEF RtcTypeOK, RtcWrite
<1>2. CASE ~ \E r \in Rates : r[1] = f
  BY <1>2 DEF RtcTypeOK, RtcWrite
<1> QED  BY <1>1, <1>2

\* The descriptor open picks is free and is neither 0 nor 1.
LEMMA FirstFree ==
  ASSUME NEW t \in Terminals, FreeFds(t) # {}
  PROVE  (CHOOSE i \in FreeFds(t) : \A j \in FreeFds(t) : i <= j) \in FreeFds(t)
<1>1. FreeFds(t) \in SUBSET Nat
  BY FdAssumption DEF FreeFds, Fds
<1>2. \E i \in FreeFds(t) : \A j \in FreeFds(t) : i <= j
  BY <1>1, LeastElement
<1> QED  BY <1>2

\* A new table is a good one.
LEMMA NewIsGood ==
  /\ NewTable \in [Fds -> Tables] /\ NewFlags \in [Fds -> BOOLEAN]
  /\ \A i \in Fds : NewFlags[i] => NewTable[i] # Null
  /\ NewFlags[0] /\ NewTable[0] = "stdin" /\ NewFlags[1] /\ NewTable[1] = "stdout"
<1>1. 0 \in Fds /\ 1 \in Fds
  BY FdAssumption DEF Fds
<1>2. NewTable \in [Fds -> Tables]
  BY DEF NewTable, Tables
<1>3. NewFlags \in [Fds -> BOOLEAN]
  <2>1. \A i \in Fds : (i \in {0, 1}) \in BOOLEAN
    OBVIOUS
  <2> QED  BY <2>1 DEF NewFlags
<1>4. \A i \in Fds : NewFlags[i] => NewTable[i] # Null
  BY DEF NewTable, NewFlags, Null
<1>5. NewTable[0] = "stdin" /\ NewTable[1] = "stdout"
  BY <1>1 DEF NewTable
<1>6. NewFlags[0] /\ NewFlags[1]
  BY <1>1, Zenon DEF NewFlags
<1> QED  BY <1>2, <1>3, <1>4, <1>5, <1>6

LEMMA InitInv == Init => Inv
<1> SUFFICES ASSUME Init PROVE Inv
  OBVIOUS
<1>1. 0 \in Terminals /\ 0 \in Fds /\ 1 \in 1 .. NT
  BY RtcAssumption, FdAssumption DEF Terminals, Fds
<1>2. Run \in Calls /\ Run.at = "run"
  BY <1>1 DEF Run, Place, Calls
<1>3. TypeOK
  <2>1. RtcTypeOK
    <3>1. ticked \in [Terminals -> BOOLEAN]
      BY Zenon DEF Init, RtcInit
    <3>2. waits \in [Terminals -> {"no", "set", "wait"}]
      BY DEF Init, RtcInit
    <3>3. rtc_interrupt_flag \in BOOLEAN
      BY Zenon DEF Init, RtcInit
    <3>4. rate \in 0 .. 15 /\ hz \in Int
      BY DEF Init, RtcInit
    <3> QED  BY <3>1, <3>2, <3>3, <3>4, Zenon DEF RtcTypeOK
  <2>2. /\ op_table \in [Terminals -> [Fds -> Tables]]
        /\ flags \in [Terminals -> [Fds -> BOOLEAN]]
    BY NewIsGood DEF Init
  <2>3. call \in [Terminals -> Calls]
    BY <1>2 DEF Init
  <2> QED  BY <1>1, <2>1, <2>2, <2>3 DEF Init, TypeOK
<1>4. FdInv
  BY <1>2, NewIsGood DEF Init, FdInv, OpenHasTable, StdStreams, Opening, WriteIsOwn
<1>5. RtcWaitsForTick
  BY DEF Init, RtcInit, RtcWaitsForTick
<1> QED  BY <1>3, <1>4, <1>5 DEF Inv

-----------------------------------------------------------------------------
(* The actions *)

\* A step that leaves the descriptors and the display alone, and changes where one
\* process is to a point that is neither in open nor in write, keeps FdInv.
LEMMA FdFrame ==
  ASSUME TypeOK, FdInv, NEW t \in Terminals,
         UNCHANGED <<fdVars, current_id>>,
         NEW c \in Calls, c.at \notin {"open", "write"}, call' = [call EXCEPT ![t] = c]
  PROVE  FdInv'
<1>1. \A u \in Terminals : u # t => call'[u] = call[u]
  BY DEF TypeOK
<1>2. call'[t] = c
  BY DEF TypeOK
<1> QED
  BY <1>1, <1>2 DEF TypeOK, FdInv, OpenHasTable, StdStreams, Opening, WriteIsOwn, fdVars, Shown

\* Type correctness of a step, for the variables of this module.
LEMMA TypeNext == TypeOK /\ [Next]_vars => TypeOK'
<1> SUFFICES ASSUME TypeOK, [Next]_vars PROVE TypeOK'
  OBVIOUS
<1>0. 0 \in Fds
  BY FdAssumption DEF Fds
<1>1. ASSUME NEW t \in Terminals, NEW type \in FileTypes, OpenTable(t, type) PROVE TypeOK'
  <2> DEFINE i == CHOOSE i \in FreeFds(t) : \A j \in FreeFds(t) : i <= j
  <2>1. i \in Fds
    BY <1>1, FirstFree DEF OpenTable, FreeFds
  <2>2. /\ op_table' = [op_table EXCEPT ![t][i] = type]
        /\ call' = [call EXCEPT ![t] = Place("open", i, FALSE, 0)]
    BY <1>1 DEF OpenTable
  <2>3. type \in Tables
    BY DEF Tables
  <2> HIDE DEF i
  <2>4. Place("open", i, FALSE, 0) \in Calls
    BY <2>1 DEF Place, Calls
  <2>5. op_table' \in [Terminals -> [Fds -> Tables]]
    BY <2>1, <2>2, <2>3 DEF TypeOK
  <2>6. call' \in [Terminals -> Calls]
    BY <2>2, <2>4 DEF TypeOK
  <2> QED  BY <1>1, <2>5, <2>6 DEF OpenTable, TypeOK, RtcTypeOK, rtcVars, termVars
<1>2. ASSUME NEW t \in Terminals, NEW p \in {"run", "rtc", "dir", "load", "wrap"}, Goto(t, p)
      PROVE  call' \in [Terminals -> Calls]
  <2>1. Place(p, 0, FALSE, 0) \in Calls
    BY <1>0 DEF Place, Calls
  <2> QED  BY <1>2, <2>1 DEF Goto, TypeOK
<1>3. ASSUME NEW t \in Terminals, OpenFlags(t) PROVE TypeOK'
  BY <1>2, <1>3 DEF OpenFlags, TypeOK, RtcTypeOK, rtcVars, termVars
<1>4. ASSUME NEW t \in Terminals, NEW i \in Fds, Close(t, i) PROVE TypeOK'
  BY <1>4 DEF Close, TypeOK, RtcTypeOK, rtcVars, termVars
<1>5. ASSUME NEW t \in Terminals, Replace(t) PROVE TypeOK'
  BY <1>5, NewIsGood DEF Replace, TypeOK, RtcTypeOK, rtcVars, termVars
<1>6. ASSUME NEW t \in Terminals, NEW i \in Fds, ReadRtc(t, i) PROVE TypeOK'
  BY <1>2, <1>6 DEF ReadRtc, RtcReadCall, TypeOK, RtcTypeOK, fdVars, termVars
<1>7. ASSUME NEW t \in Terminals, NEW i \in Fds, ReadDir(t, i) PROVE TypeOK'
  BY <1>2, <1>7 DEF ReadDir, TypeOK, RtcTypeOK, rtcVars, fdVars, termVars
<1>8. ASSUME NEW t \in Terminals, RtcStep(t) PROVE TypeOK'
  BY <1>2, <1>8 DEF RtcStep, RtcSet, RtcReturn, TypeOK, RtcTypeOK, fdVars, termVars
<1>9. ASSUME NEW t \in Terminals, DirLookup(t) PROVE TypeOK'
  BY <1>2, <1>9 DEF DirLookup, TypeOK, RtcTypeOK, rtcVars, fdVars, termVars
<1>10. ASSUME NEW t \in Terminals, DirWrap(t) PROVE TypeOK'
  BY <1>2, <1>10 DEF DirWrap, TypeOK, RtcTypeOK, rtcVars, fdVars, termVars
<1>11. ASSUME NEW t \in Terminals, DirLoad(t) PROVE TypeOK'
  <2>1. Place("store", 0, FALSE, dir_read_loc) \in Calls
    BY <1>0 DEF TypeOK, Place, Calls
  <2> QED  BY <1>11, <2>1 DEF DirLoad, TypeOK, RtcTypeOK, rtcVars, fdVars, termVars
<1>12. ASSUME NEW t \in Terminals, DirStore(t) PROVE TypeOK'
  <2>1. call[t].loc \in Nat
    BY DEF TypeOK, Calls
  <2> QED  BY <1>2, <1>12, <2>1 DEF DirStore, TypeOK, RtcTypeOK, rtcVars, fdVars, termVars
<1>13. ASSUME NEW t \in Terminals, NEW i \in Fds, WriteTest(t, i) PROVE TypeOK'
  <2>1. Place("write", i, t = Shown, 0) \in Calls
    <3>1. (t = Shown) \in BOOLEAN
      OBVIOUS
    <3> QED  BY <3>1 DEF Place, Calls
  <2> QED  BY <1>13, <2>1 DEF WriteTest, TypeOK, RtcTypeOK, rtcVars, fdVars, termVars
<1>14. ASSUME NEW t \in Terminals, NEW f \in Freqs, WriteCall(t, f) PROVE TypeOK'
  <2>1. RtcTypeOK'
    BY <1>14, RtcWriteType DEF WriteCall, TypeOK, RtcTypeOK, rtcVars
  <2> QED  BY <1>2, <1>14, <2>1 DEF WriteCall, TypeOK, fdVars, termVars
<1>15. ASSUME Tick PROVE TypeOK'
  BY <1>15 DEF Tick, RtcInterrupt, TypeOK, RtcTypeOK, fdVars, termVars
<1>16. ASSUME Pit PROVE TypeOK'
  <2>1. (curr_terminal + 1) % NT \in Terminals
    BY RtcAssumption DEF TypeOK, Terminals
  <2> QED  BY <1>16, <2>1 DEF Pit, TypeOK, RtcTypeOK, rtcVars, fdVars
<1>17. ASSUME NEW d \in Terminals, ShowTerminal(d) PROVE TypeOK'
  <2>1. \A t \in Terminals : Place(call[t].at, call[t].fd, FALSE, call[t].loc) \in Calls
    BY DEF TypeOK, Calls, Place
  <2>2. d + 1 \in 1 .. NT
    BY RtcAssumption DEF Terminals
  <2> QED  BY <1>17, <2>1, <2>2 DEF ShowTerminal, TypeOK, RtcTypeOK, rtcVars, fdVars
<1>18. ASSUME UNCHANGED vars PROVE TypeOK'
  BY <1>18 DEF vars, TypeOK, RtcTypeOK, rtcVars, fdVars, termVars
<1> QED
  BY <1>1, <1>3, <1>4, <1>5, <1>6, <1>7, <1>8, <1>9, <1>10, <1>11, <1>12, <1>13, <1>14,
     <1>15, <1>16, <1>17, <1>18 DEF Next, ReadStep

\* A step keeps the invariant of the descriptors.
LEMMA FdNext == TypeOK /\ FdInv /\ [Next]_vars => FdInv'
<1> SUFFICES ASSUME TypeOK, FdInv, [Next]_vars PROVE FdInv'
  OBVIOUS
<1>0. 0 \in Fds /\ 1 \in Fds
  BY FdAssumption DEF Fds
<1> DEFINE Unmoved == UNCHANGED <<fdVars, current_id>>
<1>1. ASSUME NEW t \in Terminals, NEW type \in FileTypes, OpenTable(t, type) PROVE FdInv'
  <2> DEFINE i == CHOOSE i \in FreeFds(t) : \A j \in FreeFds(t) : i <= j
  <2>1. i \in Fds /\ i # 0 /\ i # 1 /\ ~flags[t][i]
    BY <1>1, FirstFree DEF OpenTable, FreeFds
  <2>2. /\ op_table' = [op_table EXCEPT ![t][i] = type]
        /\ call' = [call EXCEPT ![t] = Place("open", i, FALSE, 0)]
        /\ UNCHANGED <<flags, current_id>>
    BY <1>1 DEF OpenTable, termVars
  <2>3. type # Null
    BY TypesAssumption DEF Null
  <2>4. call[t].at = "run"
    BY <1>1 DEF OpenTable, At
  <2> HIDE DEF i
  <2>5. /\ \A u \in Terminals, j \in Fds : u # t \/ j # i => op_table'[u][j] = op_table[u][j]
        /\ op_table'[t][i] = type
    BY <2>1, <2>2 DEF TypeOK
  <2>6. /\ \A u \in Terminals : u # t => call'[u] = call[u]
        /\ call'[t].at = "open" /\ call'[t].fd = i
    BY <2>2 DEF TypeOK, Place
  <2>7. \A u \in Terminals : call[u].fd \in Fds
    BY DEF TypeOK, Calls
  <2>8. OpenHasTable'
    BY <2>1, <2>2, <2>3, <2>5 DEF FdInv, OpenHasTable
  <2>9. StdStreams'
    BY <1>0, <2>1, <2>2, <2>5 DEF FdInv, StdStreams
  <2>10. Opening'
    BY <2>1, <2>3, <2>5, <2>6, <2>7 DEF FdInv, Opening
  <2>11. WriteIsOwn'
    <3> SUFFICES ASSUME NEW u \in Terminals, (call[u].at = "write" /\ call[u].own)'
                 PROVE  (u = Shown /\ flags[u][call[u].fd] /\ op_table[u][call[u].fd] # Null)'
      BY DEF WriteIsOwn
    <3>1. u # t /\ call'[u] = call[u]
      BY <2>6
    <3>2. u = Shown /\ flags[u][call[u].fd] /\ op_table[u][call[u].fd] # Null
      BY <3>1, Zenon DEF FdInv, WriteIsOwn
    <3> QED  BY <2>2, <2>5, <2>7, <3>1, <3>2 DEF Shown
  <2> QED  BY <2>8, <2>9, <2>10, <2>11 DEF FdInv
<1>2. ASSUME NEW t \in Terminals, OpenFlags(t) PROVE FdInv'
  <2> DEFINE i == call[t].fd
  <2>1. i \in Fds
    BY DEF TypeOK, Calls
  <2>2. /\ flags' = [flags EXCEPT ![t][i] = TRUE]
        /\ call' = [call EXCEPT ![t] = Place("run", 0, FALSE, 0)]
        /\ UNCHANGED <<op_table, current_id>>
    BY <1>2 DEF OpenFlags, Goto, termVars
  <2>3. op_table[t][i] # Null
    BY <1>2 DEF FdInv, Opening, OpenFlags, At
  <2> HIDE DEF i
  <2>4. /\ \A u \in Terminals, j \in Fds : u # t \/ j # i => flags'[u][j] = flags[u][j]
        /\ flags'[t][i]
    BY <2>1, <2>2 DEF TypeOK
  <2>5. /\ \A u \in Terminals : u # t => call'[u] = call[u]
        /\ call'[t].at = "run"
    BY <2>2 DEF TypeOK, Place
  <2>6. \A u \in Terminals : call[u].fd \in Fds
    BY DEF TypeOK, Calls
  <2>7. OpenHasTable'
    BY <2>2, <2>3, <2>4 DEF FdInv, OpenHasTable
  <2>8. StdStreams'
    BY <1>0, <2>2, <2>4 DEF FdInv, StdStreams
  <2>9. Opening'
    BY <2>2, <2>5, <2>6 DEF FdInv, Opening
  <2>10. WriteIsOwn'
    <3> SUFFICES ASSUME NEW u \in Terminals, (call[u].at = "write" /\ call[u].own)'
                 PROVE  (u = Shown /\ flags[u][call[u].fd] /\ op_table[u][call[u].fd] # Null)'
      BY DEF WriteIsOwn
    <3>1. u # t /\ call'[u] = call[u]
      BY <2>5
    <3>2. u = Shown /\ flags[u][call[u].fd] /\ op_table[u][call[u].fd] # Null
      BY <3>1, Zenon DEF FdInv, WriteIsOwn
    <3> QED  BY <2>2, <2>4, <2>6, <3>1, <3>2 DEF Shown
  <2> QED  BY <2>7, <2>8, <2>9, <2>10 DEF FdInv
<1>3. ASSUME NEW t \in Terminals, NEW i \in Fds, Close(t, i) PROVE FdInv'
  <2>1. /\ flags' = [flags EXCEPT ![t][i] = FALSE]
        /\ UNCHANGED <<op_table, call, current_id>>
        /\ call[t].at = "run" /\ i # 0 /\ i # 1
    BY <1>3 DEF Close, At, termVars
  <2>2. /\ \A u \in Terminals, j \in Fds : u # t \/ j # i => flags'[u][j] = flags[u][j]
        /\ ~flags'[t][i]
    BY <2>1 DEF TypeOK
  <2>3. \A u \in Terminals : call[u].fd \in Fds
    BY DEF TypeOK, Calls
  <2>4. OpenHasTable' /\ StdStreams'
    BY <1>0, <2>1, <2>2 DEF FdInv, OpenHasTable, StdStreams
  <2>5. Opening' /\ WriteIsOwn'
    BY <2>1, <2>2, <2>3 DEF FdInv, Opening, WriteIsOwn, Shown
  <2> QED  BY <2>4, <2>5 DEF FdInv
<1>4. ASSUME NEW t \in Terminals, Replace(t) PROVE FdInv'
  <2>1. /\ op_table' = [op_table EXCEPT ![t] = NewTable]
        /\ flags' = [flags EXCEPT ![t] = NewFlags]
        /\ UNCHANGED <<call, current_id>>
        /\ call[t].at = "run"
    BY <1>4 DEF Replace, At, termVars
  <2>2. /\ \A u \in Terminals : u # t => flags'[u] = flags[u] /\ op_table'[u] = op_table[u]
        /\ flags'[t] = NewFlags /\ op_table'[t] = NewTable
    BY <2>1 DEF TypeOK
  <2>3. OpenHasTable' /\ StdStreams'
    BY <2>2, NewIsGood DEF FdInv, OpenHasTable, StdStreams
  <2>4. Opening' /\ WriteIsOwn'
    BY <2>1, <2>2 DEF FdInv, Opening, WriteIsOwn, Shown
  <2> QED  BY <2>3, <2>4 DEF FdInv
<1>5. ASSUME NEW t \in Terminals, NEW p \in {"run", "rtc", "dir", "load", "wrap"},
             Goto(t, p), Unmoved
      PROVE  FdInv'
  <2>1. Place(p, 0, FALSE, 0) \in Calls /\ Place(p, 0, FALSE, 0).at = p
    BY <1>0 DEF Place, Calls
  <2> QED  BY <1>5, <2>1, FdFrame DEF Goto
<1>6. ASSUME NEW t \in Terminals, NEW i \in Fds, ReadRtc(t, i) \/ ReadDir(t, i) PROVE FdInv'
  BY <1>5, <1>6 DEF ReadRtc, ReadDir, termVars
<1>7. ASSUME Unmoved, UNCHANGED call PROVE FdInv'
  BY <1>7 DEF FdInv, OpenHasTable, StdStreams, Opening, WriteIsOwn, fdVars, Shown
<1>8. ASSUME NEW t \in Terminals, RtcStep(t) PROVE FdInv'
  BY <1>5, <1>7, <1>8 DEF RtcStep, termVars
<1>9. ASSUME NEW t \in Terminals, DirLookup(t) \/ DirWrap(t) \/ DirStore(t) PROVE FdInv'
  BY <1>5, <1>9 DEF DirLookup, DirWrap, DirStore, termVars
<1>10. ASSUME NEW t \in Terminals, DirLoad(t) PROVE FdInv'
  <2>1. /\ Place("store", 0, FALSE, dir_read_loc) \in Calls
        /\ Place("store", 0, FALSE, dir_read_loc).at = "store"
    BY <1>0 DEF Place, Calls, TypeOK
  <2> QED  BY <1>10, <2>1, FdFrame DEF DirLoad, termVars
<1>11. ASSUME NEW t \in Terminals, NEW i \in Fds, WriteTest(t, i) PROVE FdInv'
  <2>1. /\ call' = [call EXCEPT ![t] = Place("write", i, t = Shown, 0)]
        /\ flags[Shown][i]
        /\ UNCHANGED <<op_table, flags, current_id>>
    BY <1>11 DEF WriteTest, fdVars, termVars
  <2>2. /\ \A u \in Terminals : u # t => call'[u] = call[u]
        /\ call'[t].at = "write" /\ call'[t].fd = i /\ (call'[t].own <=> t = Shown)
    BY <2>1 DEF TypeOK, Place
  <2>3. OpenHasTable' /\ StdStreams' /\ Opening'
    BY <2>1, <2>2 DEF FdInv, OpenHasTable, StdStreams, Opening
  <2>4. WriteIsOwn'
    BY <2>1, <2>2 DEF FdInv, WriteIsOwn, OpenHasTable, Shown
  <2> QED  BY <2>3, <2>4 DEF FdInv
<1>12. ASSUME NEW t \in Terminals, NEW f \in Freqs, WriteCall(t, f) PROVE FdInv'
  BY <1>5, <1>12 DEF WriteCall, termVars
<1>13. ASSUME Tick \/ Pit PROVE FdInv'
  BY <1>7, <1>13 DEF Tick, Pit, termVars
<1>14. ASSUME NEW d \in Terminals, ShowTerminal(d) PROVE FdInv'
  <2>1. \A u \in Terminals : call'[u].at = call[u].at /\ call'[u].fd = call[u].fd /\ ~call'[u].own
    BY <1>14 DEF ShowTerminal, Place
  <2>2. UNCHANGED <<op_table, flags>>
    BY <1>14 DEF ShowTerminal, fdVars
  <2>3. OpenHasTable' /\ StdStreams'
    BY <2>2 DEF FdInv, OpenHasTable, StdStreams
  <2>4. Opening' /\ WriteIsOwn'
    BY <2>1, <2>2 DEF FdInv, Opening, WriteIsOwn
  <2> QED  BY <2>3, <2>4 DEF FdInv
<1>15. ASSUME UNCHANGED vars PROVE FdInv'
  BY <1>7, <1>15 DEF vars, termVars
<1> QED
  BY <1>1, <1>2, <1>3, <1>4, <1>6, <1>8, <1>9, <1>10, <1>11, <1>12, <1>13, <1>14, <1>15
  DEF Next, ReadStep

\* A step keeps what a reader of the clock relies on.
LEMMA RtcNext == TypeOK /\ RtcWaitsForTick /\ [Next]_vars => RtcWaitsForTick'
<1> SUFFICES ASSUME TypeOK, RtcWaitsForTick, [Next]_vars PROVE RtcWaitsForTick'
  OBVIOUS
<1> USE DEF RtcWaitsForTick, TypeOK, RtcTypeOK
<1>1. ASSUME UNCHANGED <<rtc_interrupt_flag, waits, ticked>> PROVE RtcWaitsForTick'
  BY <1>1
<1>2. ASSUME NEW t \in Terminals, NEW i \in Fds, ReadRtc(t, i) PROVE RtcWaitsForTick'
  BY <1>2 DEF ReadRtc, RtcReadCall
<1>3. ASSUME NEW t \in Terminals, RtcStep(t) PROVE RtcWaitsForTick'
  BY <1>3 DEF RtcStep, RtcSet, RtcReturn
<1>4. ASSUME NEW t \in Terminals, NEW f \in Freqs, WriteCall(t, f) PROVE RtcWaitsForTick'
  BY <1>1, <1>4 DEF WriteCall, RtcWrite, rtcVars
<1>5. ASSUME Tick PROVE RtcWaitsForTick'
  BY <1>5 DEF Tick, RtcInterrupt
<1>6. ASSUME UNCHANGED rtcVars PROVE RtcWaitsForTick'
  BY <1>1, <1>6 DEF rtcVars
<1> QED
  BY <1>2, <1>3, <1>4, <1>5, <1>6
  DEF Next, ReadStep, OpenTable, OpenFlags, Close, Replace, ReadDir, DirLookup, DirWrap,
      DirLoad, DirStore, WriteTest, Pit, ShowTerminal, vars

\* What the divider of the clock makes of each entry of rtc_write's table.
LEMMA TableMatches == \A e \in Rates : 32768 \div 2^(e[2] - 1) = e[1]
<1> SUFFICES ASSUME NEW e \in Rates PROVE 32768 \div 2^(e[2] - 1) = e[1]
  OBVIOUS
<1>1. CASE e = <<2, 15>>
  BY <1>1
<1>2. CASE e = <<4, 14>>
  BY <1>2
<1>3. CASE e = <<8, 13>>
  BY <1>3
<1>4. CASE e = <<16, 12>>
  BY <1>4
<1>5. CASE e = <<32, 11>>
  BY <1>5
<1>6. CASE e = <<64, 10>>
  BY <1>6
<1>7. CASE e = <<128, 9>>
  BY <1>7
<1>8. CASE e = <<256, 8>>
  BY <1>8
<1>9. CASE e = <<512, 7>>
  BY <1>9
<1>10. CASE e = <<1024, 6>>
  BY <1>10
<1> QED  BY <1>1, <1>2, <1>3, <1>4, <1>5, <1>6, <1>7, <1>8, <1>9, <1>10 DEF Rates

\* A step keeps the clock at the frequency that was agreed to.
LEMMA RateNext == RateMatches /\ [Next]_vars => RateMatches'
<1> SUFFICES ASSUME RateMatches, [Next]_vars PROVE RateMatches'
  OBVIOUS
<1>1. ASSUME UNCHANGED <<rate, hz>> PROVE RateMatches'
  BY <1>1 DEF RateMatches
<1>2. ASSUME NEW t \in Terminals, NEW f \in Freqs, WriteCall(t, f) PROVE RateMatches'
  <2>1. CASE \E r \in Rates : r[1] = f
    <3>1. (CHOOSE r \in Rates : r[1] = f) \in Rates
          /\ (CHOOSE r \in Rates : r[1] = f)[1] = f
      BY <2>1
    <3>2. ~UNCHANGED rtcVars => rate' = (CHOOSE r \in Rates : r[1] = f)[2] /\ hz' = f
      BY <1>2, <2>1 DEF WriteCall, RtcWrite
    <3>3. CASE UNCHANGED rtcVars
      BY <1>1, <3>3 DEF rtcVars
    <3>4. CASE ~UNCHANGED rtcVars
      BY <3>1, <3>2, <3>4, TableMatches DEF RateMatches
    <3> QED  BY <3>3, <3>4
  <2>2. CASE ~\E r \in Rates : r[1] = f
    BY <1>1, <1>2, <2>2 DEF WriteCall, RtcWrite, rtcVars
  <2> QED  BY <2>1, <2>2
<1>3. ASSUME UNCHANGED rtcVars PROVE RateMatches'
  BY <1>1, <1>3 DEF rtcVars
<1> QED
  BY <1>1, <1>2, <1>3
  DEF Next, ReadStep, ReadRtc, RtcReadCall, RtcStep, RtcSet, RtcReturn, Tick, RtcInterrupt,
      OpenTable, OpenFlags, Close, Replace, ReadDir, DirLookup, DirWrap, DirLoad, DirStore,
      WriteTest, Pit, ShowTerminal, vars, rtcVars

LEMMA InvariantHolds == Spec => []Inv
<1>1. Inv /\ [Next]_vars => Inv'
  BY TypeNext, FdNext, RtcNext DEF Inv
<1> QED  BY InitInv, <1>1, PTL DEF Spec

-----------------------------------------------------------------------------
(* Theorems *)

\* Type correctness of the descriptors and the clock.
THEOREM TypeCorrect == Spec => []TypeOK
<1>1. Inv => TypeOK
  BY DEF Inv
<1> QED  BY <1>1, InvariantHolds, PTL

\* At every step of open, close, halt and execute, on whatever terminals, a
\* descriptor whose flags are up has an operation table.
THEOREM OpenHasTableCorrect == Spec => []OpenHasTable
<1>1. Inv => OpenHasTable
  BY DEF Inv, FdInv
<1> QED  BY <1>1, InvariantHolds, PTL

\* No sequence of open and close takes descriptors 0 and 1 from the terminal.
THEOREM StdStreamsCorrect == Spec => []StdStreams
<1>1. Inv => StdStreams
  BY DEF Inv, FdInv
<1> QED  BY <1>1, InvariantHolds, PTL

\* A write of the displayed terminal's process that no Alt-F disturbs is carried out
\* on the process's own open descriptor, although write looks it up twice.
THEOREM WriteIsOwnCorrect == Spec => []WriteIsOwn
<1>1. Inv => WriteIsOwn
  BY DEF Inv, FdInv
<1> QED  BY <1>1, InvariantHolds, PTL

\* rtc_read returns only after an interrupt that came after it set the flag,
\* whatever number of processes share the flag.
THEOREM RtcWaitsForTickCorrect == Spec => []RtcWaitsForTick
<1>1. Inv => RtcWaitsForTick
  BY DEF Inv
<1> QED  BY <1>1, InvariantHolds, PTL
\* Whatever frequencies the programs ask for, the clock runs at the one the last
\* successful rtc_write was given: a refused write leaves the rate alone.
THEOREM RateMatchesCorrect == Spec => []RateMatches
<1>1. Init => RateMatches
  <2>1. <<2, 15>> \in Rates
    BY DEF Rates
  <2>2. 32768 \div 2^(15 - 1) = 2
    BY <2>1, TableMatches
  <2> QED  BY <2>2, TableMatches DEF Init, RtcInit, RateMatches
<1> QED  BY <1>1, RateNext, PTL DEF Spec
=============================================================================
