-------------------------- MODULE FileSystemProofs --------------------------
(***************************************************************************)
(* Proofs about FileRead, FileNames and FileSystem, for every block size,  *)
(* file size and length of read, and for every length and number of names. *)
(*                                                                         *)
(* The loop of read_data needs two facts beside the properties: at the     *)
(* first memcpy the block number is the block of the position, and between *)
(* two later ones what is still to be read starts on a block boundary.     *)
(***************************************************************************)
EXTENDS FileSystem, NatLemmas, TLAPS, SequenceTheorems

-----------------------------------------------------------------------------
(* The block loop *)

\* The block that holds the position.
AtBlock ==
  pc = "first" => file_position =
    data_block_num * BlockSize + (file_position % BlockSize)

\* After the first memcpy, unless everything is read.
OnBoundary ==
  pc \in {"middle", "last"} /\ data_read < data_to_read =>
    file_position + data_read = (data_block_num + 1) * BlockSize

\* The quantities of the running read.
Call0 ==
  /\ pc = "first" => data_read = 0 /\ file_position < size
  /\ pc \in {"middle", "last"} => file_position < size
  /\ data_to_read = Wanted(nbytes)
  /\ pc = "return" => data_read = data_to_read \/ file_position >= size
  /\ pc = "last" => data_to_read - data_read < BlockSize

Inv == TypeOK /\ PositionInside /\ Bounded /\ AtBlock /\ OnBoundary /\ Call0 /\ Contiguous

LEMMA DivMod ==
  ASSUME NEW a \in Nat
  PROVE  /\ a \div BlockSize \in Nat
         /\ a % BlockSize \in 0 .. BlockSize - 1
         /\ a = (a \div BlockSize) * BlockSize + (a % BlockSize)
  BY BlockAssumption

LEMMA NextBlock ==
  ASSUME NEW n \in Nat
  PROVE  /\ (n + 1) * BlockSize = n * BlockSize + BlockSize
         /\ n * BlockSize \in Nat
         /\ (n + 1) * BlockSize \in Nat
  BY BlockAssumption

\* What a memcpy adds: n bytes of block b from position j on, which are the bytes
\* of the file from file_position + data_read on.
LEMMA AppendedIs ==
  ASSUME TypeOK, Contiguous, pc # "idle",
         NEW b \in Nat, NEW j \in Nat, NEW n \in Nat,
         b * BlockSize + j = file_position + data_read,
         j + n <= BlockSize
  PROVE  /\ Appended(b, j, n) \in [0 .. (data_read + n) - 1 -> Nat \X Nat]
         /\ \A i \in 0 .. (data_read + n) - 1 :
              /\ Appended(b, j, n)[i][2] < BlockSize
              /\ Appended(b, j, n)[i][1] * BlockSize + Appended(b, j, n)[i][2]
                   = file_position + i
<1> DEFINE e(i) == IF i < data_read THEN buf[i] ELSE <<b, j + (i - data_read)>>
<1>1. Appended(b, j, n) = [i \in 0 .. (data_read + n) - 1 |-> e(i)]
  BY DEF Appended
<1>2. ASSUME NEW i \in 0 .. (data_read + n) - 1
      PROVE  /\ e(i) \in Nat \X Nat
             /\ e(i)[2] < BlockSize
             /\ e(i)[1] * BlockSize + e(i)[2] = file_position + i
  <2> USE BlockAssumption DEF TypeOK
  <2>1. CASE i < data_read
    <3>1. i \in 0 .. data_read - 1 /\ e(i) = buf[i]
      BY <2>1
    <3> QED  BY <3>1 DEF Contiguous
  <2>2. CASE ~(i < data_read)
    <3>1. e(i) = <<b, j + (i - data_read)>>
      BY <2>2
    <3>2. j + (i - data_read) \in Nat /\ j + (i - data_read) < BlockSize
      BY <2>2
    <3>3. b * BlockSize \in Nat
      BY NextBlock
    <3>4. b * BlockSize + (j + (i - data_read)) = file_position + i
      BY <2>2, <3>3
    <3> HIDE DEF e
    <3> QED  BY <3>1, <3>2, <3>4
  <2> QED  BY <2>1, <2>2
<1> HIDE DEF e
<1> QED  BY <1>1, <1>2

LEMMA InitInv == Init => Inv
  BY BoundsAssumption, BlockAssumption
     DEF Init, Inv, TypeOK, PositionInside, Bounded, AtBlock, OnBoundary, Call0, Wanted,
         Contiguous

LEMMA NextInv == Inv /\ [Next]_vars => Inv'
<1> SUFFICES ASSUME Inv, [Next]_vars  PROVE Inv'
  OBVIOUS
<1>0. TypeOK /\ PositionInside /\ Bounded /\ AtBlock /\ OnBoundary /\ Call0 /\ Contiguous
  BY DEF Inv
<1>1. ASSUME NEW n \in 0 .. MaxBytes, Call(n)  PROVE Inv'
  <2>1. n \in Nat /\ size' = size /\ file_position' = file_position /\ nbytes' = n
        /\ data_read' = 0 /\ data_to_read' = Wanted(n)
        /\ data_block_num' = file_position \div BlockSize
        /\ pc' = (IF file_position >= size THEN "return" ELSE "first")
        /\ buf' = [i \in {} |-> <<0, 0>>] /\ result' = result
    BY <1>1, BoundsAssumption DEF Call
  <2>2. Wanted(n) \in Nat /\ Wanted(n) <= n
    BY <1>0, <2>1 DEF Wanted, TypeOK
  <2>3. file_position \div BlockSize \in Nat
        /\ file_position = (file_position \div BlockSize) * BlockSize
                            + (file_position % BlockSize)
    BY <1>0, DivMod DEF TypeOK
  <2>4. TypeOK' /\ PositionInside' /\ Bounded'
    BY <1>0, <2>1, <2>2, <2>3 DEF TypeOK, PositionInside, Bounded
  <2>5. AtBlock' /\ OnBoundary'
    BY <2>1, <2>3 DEF AtBlock, OnBoundary
  <2>6. Call0'
    BY <1>0, <2>1 DEF Call0, Wanted, TypeOK
  <2>7. Contiguous'
    BY <2>1 DEF Contiguous
  <2> QED  BY <2>4, <2>5, <2>6, <2>7 DEF Inv
<1>2. CASE First
  <2> DEFINE j == file_position % BlockSize
  <2>1. pc = "first" /\ data_read = 0 /\ file_position < size
        /\ file_position = data_block_num * BlockSize + j
        /\ j \in 0 .. BlockSize - 1
    BY <1>0, <1>2, DivMod DEF First, AtBlock, Call0, TypeOK
  <2>2. /\ data_block_num * BlockSize \in Nat
        /\ (data_block_num + 1) * BlockSize = data_block_num * BlockSize + BlockSize
    BY <1>0, NextBlock DEF TypeOK
  <2>3. /\ FirstPart \in Nat
        /\ FirstPart <= data_to_read
        /\ j + FirstPart <= BlockSize
        /\ FirstPart < data_to_read =>
             file_position + FirstPart = (data_block_num + 1) * BlockSize
    <3> DEFINE rest == (data_block_num + 1) * BlockSize - file_position
    <3>1. rest = BlockSize - j
      BY <2>1, <2>2, BlockAssumption
    <3>2. FirstPart = IF rest > data_to_read THEN data_to_read ELSE rest
      BY DEF FirstPart
    <3>3. rest \in Nat /\ j + rest = BlockSize
          /\ file_position + rest = (data_block_num + 1) * BlockSize
      BY <2>1, <2>2, <3>1, BlockAssumption
    <3> HIDE DEF rest, j
    <3>4. j \in Nat /\ data_to_read \in Nat
      BY <1>0, <2>1, BlockAssumption DEF TypeOK, j
    <3> QED  BY <3>2, <3>3, <3>4, BlockAssumption
  <2>4. size' = size /\ file_position' = file_position /\ nbytes' = nbytes
        /\ data_to_read' = data_to_read /\ data_block_num' = data_block_num
        /\ result' = result /\ data_read' = FirstPart /\ pc' = "middle"
        /\ buf' = Appended(data_block_num, j, FirstPart)
    BY <1>2 DEF First
  <2>5. /\ buf' \in [0 .. data_read' - 1 -> Nat \X Nat]
        /\ \A i \in 0 .. data_read' - 1 :
             /\ buf'[i][2] < BlockSize
             /\ buf'[i][1] * BlockSize + buf'[i][2] = file_position + i
    <3> HIDE DEF j
    <3>1. j \in Nat /\ data_block_num \in Nat /\ pc # "idle" /\ file_position \in Nat
      BY <1>0, <2>1, BlockAssumption DEF TypeOK
    <3>2. data_block_num * BlockSize + j = file_position + data_read
      BY <2>1, <3>1
    <3>3. data_read + FirstPart = FirstPart
      BY <2>1, <2>3
    <3> DEFINE A == Appended(data_block_num, j, FirstPart)
    <3>4. /\ A \in [0 .. (data_read + FirstPart) - 1 -> Nat \X Nat]
          /\ \A i \in 0 .. (data_read + FirstPart) - 1 :
               /\ A[i][2] < BlockSize
               /\ A[i][1] * BlockSize + A[i][2] = file_position + i
      BY <1>0, <2>3, <3>1, <3>2, AppendedIs
    <3>5. buf' = A /\ data_read' = FirstPart
      BY <2>4
    <3> HIDE DEF A
    <3> QED  BY <3>3, <3>4, <3>5
  <2>6. TypeOK' /\ PositionInside' /\ Bounded'
    BY <1>0, <2>3, <2>4, <2>5 DEF TypeOK, PositionInside, Bounded
  <2>7. AtBlock' /\ OnBoundary'
    BY <2>3, <2>4 DEF AtBlock, OnBoundary
  <2>8. Call0'
    BY <1>0, <2>1, <2>4 DEF Call0, Wanted
  <2>9. Contiguous'
    BY <2>4, <2>5 DEF Contiguous
  <2> QED  BY <2>6, <2>7, <2>8, <2>9 DEF Inv
<1>3. CASE Middle
  <2>1. pc = "middle" /\ data_to_read - data_read >= BlockSize
        /\ data_read < data_to_read
    BY <1>0, <1>3, BlockAssumption DEF Middle, TypeOK
  <2>2. (data_block_num + 1) * BlockSize + 0 = file_position + data_read
    BY <1>0, <2>1, NextBlock DEF OnBoundary, TypeOK
  <2>3. (data_block_num + 1 + 1) * BlockSize = (data_block_num + 1) * BlockSize + BlockSize
        /\ (data_block_num + 1) * BlockSize \in Nat
    <3>1. data_block_num + 1 \in Nat
      BY <1>0 DEF TypeOK
    <3> QED  BY <3>1, NextBlock
  <2>4. size' = size /\ file_position' = file_position /\ nbytes' = nbytes
        /\ data_to_read' = data_to_read /\ data_block_num' = data_block_num + 1
        /\ result' = result /\ data_read' = data_read + BlockSize /\ pc' = pc
        /\ buf' = Appended(data_block_num + 1, 0, BlockSize)
    BY <1>3 DEF Middle
  <2>5. /\ buf' \in [0 .. data_read' - 1 -> Nat \X Nat]
        /\ \A i \in 0 .. data_read' - 1 :
             /\ buf'[i][2] < BlockSize
             /\ buf'[i][1] * BlockSize + buf'[i][2] = file_position + i
    <3>1. 0 \in Nat /\ data_block_num + 1 \in Nat /\ BlockSize \in Nat
          /\ 0 + BlockSize <= BlockSize /\ pc # "idle"
      BY <1>0, <2>1, BlockAssumption DEF TypeOK
    <3> QED  BY <1>0, <2>2, <2>4, <3>1, AppendedIs
  <2>6. TypeOK' /\ PositionInside' /\ Bounded'
    BY <1>0, <2>1, <2>4, <2>5, BlockAssumption DEF TypeOK, PositionInside, Bounded
  <2>7. AtBlock' /\ OnBoundary'
    BY <1>0, <2>1, <2>2, <2>3, <2>4, BlockAssumption DEF AtBlock, OnBoundary, TypeOK
  <2>8. Call0'
    BY <1>0, <2>1, <2>4 DEF Call0, Wanted
  <2>9. Contiguous'
    BY <2>4, <2>5 DEF Contiguous
  <2> QED  BY <2>6, <2>7, <2>8, <2>9 DEF Inv
<1>4. CASE LoopEnds
  BY <1>0, <1>4 DEF LoopEnds, Inv, TypeOK, PositionInside, Bounded, AtBlock, OnBoundary,
     Call0, Wanted, Contiguous
<1>5. CASE Last
  <2>1. pc = "last" /\ pc' = "return" /\ size' = size /\ file_position' = file_position
        /\ nbytes' = nbytes /\ data_to_read' = data_to_read /\ result' = result
    BY <1>5 DEF Last
  <2>2. CASE data_to_read > data_read
    <3>1. data_block_num' = data_block_num + 1 /\ data_read' = data_to_read
          /\ buf' = Appended(data_block_num + 1, 0, data_to_read - data_read)
      BY <1>5, <2>2 DEF Last
    <3>2. data_to_read - data_read \in Nat /\ data_to_read - data_read <= BlockSize
          /\ data_read + (data_to_read - data_read) = data_to_read
      BY <1>0, <2>1, <2>2, BlockAssumption DEF TypeOK, Call0
    <3>3. (data_block_num + 1) * BlockSize + 0 = file_position + data_read
      BY <1>0, <2>1, <2>2, NextBlock DEF OnBoundary, TypeOK
    <3>4. 0 \in Nat /\ data_block_num + 1 \in Nat /\ pc # "idle"
          /\ 0 + (data_to_read - data_read) <= BlockSize
      BY <1>0, <2>1, <3>2 DEF TypeOK
    <3> DEFINE n == data_to_read - data_read
    <3>5. /\ buf' \in [0 .. (data_read + n) - 1 -> Nat \X Nat]
          /\ \A i \in 0 .. (data_read + n) - 1 :
               /\ buf'[i][2] < BlockSize
               /\ buf'[i][1] * BlockSize + buf'[i][2] = file_position + i
      <4> HIDE DEF n
      <4>1. n \in Nat /\ 0 + n <= BlockSize /\ buf' = Appended(data_block_num + 1, 0, n)
        BY <3>1, <3>2, <3>4 DEF n
      <4> QED  BY <1>0, <3>3, <3>4, <4>1, AppendedIs
    <3>6. TypeOK' /\ PositionInside' /\ Bounded' /\ Contiguous'
      BY <1>0, <2>1, <3>1, <3>2, <3>4, <3>5
         DEF TypeOK, PositionInside, Bounded, Contiguous
    <3>7. AtBlock' /\ OnBoundary' /\ Call0'
      BY <1>0, <2>1, <3>1 DEF AtBlock, OnBoundary, Call0, Wanted
    <3> QED  BY <3>6, <3>7 DEF Inv
  <2>3. CASE ~(data_to_read > data_read)
    <3>1. data_block_num' = data_block_num /\ data_read' = data_read /\ buf' = buf
      BY <1>5, <2>3 DEF Last
    <3>2. data_read = data_to_read
      BY <1>0, <2>3 DEF TypeOK, Bounded
    <3>3. TypeOK' /\ PositionInside' /\ Bounded' /\ Contiguous'
      BY <1>0, <2>1, <3>1 DEF TypeOK, PositionInside, Bounded, Contiguous
    <3>4. AtBlock' /\ OnBoundary' /\ Call0'
      BY <1>0, <2>1, <3>1, <3>2 DEF AtBlock, OnBoundary, Call0, Wanted
    <3> QED  BY <3>3, <3>4 DEF Inv
  <2> QED  BY <2>2, <2>3
<1>6. CASE Return
  BY <1>0, <1>6 DEF Return, Inv, TypeOK, PositionInside, Bounded, AtBlock, OnBoundary,
     Call0, Wanted, Contiguous
<1>7. CASE UNCHANGED vars
  BY <1>0, <1>7 DEF vars, Inv, TypeOK, PositionInside, Bounded, AtBlock, OnBoundary,
     Call0, Wanted, Contiguous
<1> QED  BY <1>1, <1>2, <1>3, <1>4, <1>5, <1>6, <1>7 DEF Next

\* The invariant holds of every behaviour.
THEOREM InvCorrect == Spec => []Inv
  BY InitInv, NextInv, PTL DEF Spec

\* read_data writes no byte beyond the caller's buffer, and its unsigned
\* difference never wraps.
THEOREM BoundedCorrect == Spec => []Bounded
<1>1. Inv => Bounded
  BY DEF Inv
<1> QED  BY <1>1, InvCorrect, PTL

\* The bytes a read copies are consecutive bytes of the file, for every block
\* size, position and length.
THEOREM ContiguousCorrect == Spec => []Contiguous
<1>1. Inv => Contiguous
  BY DEF Inv
<1> QED  BY <1>1, InvCorrect, PTL

\* A read that stays within the file returns all it was asked for.
THEOREM CompleteInsideCorrect == Spec => []CompleteInside
<1>1. Inv => CompleteInside
  BY DEF Inv, CompleteInside, Call0, Wanted, TypeOK
<1> QED  BY <1>1, InvCorrect, PTL

\* file_position never leaves the file.
THEOREM PositionInsideCorrect == Spec => []PositionInside
<1>1. Inv => PositionInside
  BY DEF Inv
<1> QED  BY <1>1, InvCorrect, PTL

-----------------------------------------------------------------------------
(* Names *)

\* A sequence of m to n elements is a sequence, of such a length.
LEMMA SeqsOfType ==
  ASSUME NEW S, NEW m \in Nat, NEW n \in Nat, NEW w \in SeqsOf(S, m, n)
  PROVE  w \in Seq(S) /\ Len(w) \in m .. n
<1>1. PICK k \in m .. n : w \in [1 .. k -> S]
  BY DEF SeqsOf
<1>2. k \in Nat
  BY <1>1
<1>3. w \in Seq(S)
  BY <1>1, <1>2, SeqDef
<1>4. Len(w) = k
  BY <1>1, <1>2, <1>3
<1> QED  BY <1>1, <1>3, <1>4

\* A word is not empty and has neither NUL nor space in it.
LEMMA WordBytes ==
  ASSUME NEW n \in Nat, NEW w \in Words(n)
  PROVE  /\ w \in Seq(Nat) /\ Len(w) \in 1 .. n
         /\ \A i \in 1 .. Len(w) : w[i] \in Nat /\ w[i] # NUL /\ w[i] # Space
<1>1. w \in Seq(Letters) /\ Len(w) \in 1 .. n
  BY SeqsOfType DEF Words
<1>2. \A i \in 1 .. Len(w) : w[i] \in Letters
  BY <1>1
<1>3. \A i \in 1 .. Len(w) : w[i] \in Nat /\ w[i] # NUL /\ w[i] # Space
  BY <1>2, NamesAssumption DEF NUL, Space
<1>4. w \in Seq(Nat)
  BY <1>1, <1>3
<1> QED  BY <1>1, <1>3, <1>4

\* A directory has at most Searched entries, with different names.
LEMMA DirectoryNames ==
  ASSUME NEW d \in Directories
  PROVE  /\ Len(d) \in 0 .. Searched
         /\ \A i \in 1 .. Len(d) : d[i] \in Words(NameLen)
         /\ \A i, j \in 1 .. Len(d) : d[i] = d[j] => i = j
<1>1. d \in SeqsOf(Words(NameLen), 0, Searched) /\ IsInjective(d)
  BY DEF Directories
<1>2. d \in Seq(Words(NameLen)) /\ Len(d) \in 0 .. Searched
  BY <1>1, SeqsOfType, NamesAssumption
<1>3. DOMAIN d = 1 .. Len(d)
  BY <1>2
<1> QED  BY <1>1, <1>2, <1>3 DEF IsInjective

\* The bytes of a run of zeros.
LEMMA ZerosBytes ==
  ASSUME NEW n \in Nat
  PROVE  /\ Zeros(n) \in Seq(Nat) /\ Len(Zeros(n)) = n
         /\ \A i \in 1 .. n : Zeros(n)[i] = NUL
<1>1. Zeros(n) \in [1 .. n -> Nat]
  BY DEF Zeros, NUL
<1>2. Zeros(n) \in Seq(Nat)
  BY <1>1, SeqDef
<1> QED  BY <1>1, <1>2 DEF Zeros

\* The bytes of a name in its entry.
LEMMA StoredBytes ==
  ASSUME NEW w \in Words(NameLen)
  PROVE  /\ Stored(w) \in Seq(Nat) /\ Len(Stored(w)) = NameLen
         /\ \A i \in 1 .. NameLen : Stored(w)[i] = IF i <= Len(w) THEN w[i] ELSE NUL
<1>1. NameLen \in Nat /\ w \in Seq(Nat) /\ Len(w) \in 1 .. NameLen
  BY WordBytes, NamesAssumption
<1> DEFINE z == Zeros(NameLen - Len(w))
<1>2. NameLen - Len(w) \in Nat
  BY <1>1
<1>3. z \in Seq(Nat) /\ Len(z) = NameLen - Len(w)
      /\ \A i \in 1 .. NameLen - Len(w) : z[i] = NUL
  BY <1>2, ZerosBytes
<1>4. Stored(w) = w \o z
  BY DEF Stored
<1> HIDE DEF z
<1>5. /\ w \o z \in Seq(Nat)
      /\ Len(w \o z) = Len(w) + Len(z)
      /\ \A i \in 1 .. Len(w) + Len(z) : (w \o z)[i] =
           IF i <= Len(w) THEN w[i] ELSE z[i - Len(w)]
  BY <1>1, <1>3, ConcatProperties
<1>6. ASSUME NEW i \in 1 .. NameLen
      PROVE  (w \o z)[i] = IF i <= Len(w) THEN w[i] ELSE NUL
  <2>1. i \in 1 .. Len(w) + Len(z)
    BY <1>1, <1>3
  <2>2. ~(i <= Len(w)) => i - Len(w) \in 1 .. NameLen - Len(w)
    BY <1>1
  <2> QED  BY <1>3, <1>5, <2>1, <2>2
<1> QED  BY <1>1, <1>3, <1>4, <1>5, <1>6

\* Where the first NUL is, there strlen stops.
LEMMA StrlenIs ==
  ASSUME NEW s \in Seq(Nat), NEW n \in Nat, n + 1 <= Len(s), s[n + 1] = NUL,
         \A i \in 1 .. n : s[i] # NUL
  PROVE  strlen(s) = n
<1> DEFINE ends == {i \in 1 .. Len(s) : s[i] = NUL}
<1>1. n + 1 \in ends /\ ends \in SUBSET Nat /\ \A i \in ends : n + 1 <= i
  OBVIOUS
<1>2. strlen(s) = Min(ends) - 1
  BY DEF strlen
<1> HIDE DEF ends
<1>3. Min(ends) = n + 1
  <2>1. Min(ends) \in ends /\ \A j \in ends : Min(ends) <= j
    BY <1>1 DEF Min
  <2>2. Min(ends) \in Nat /\ Min(ends) <= n + 1 /\ n + 1 <= Min(ends)
    BY <1>1, <2>1
  <2> QED  BY <2>2
<1> QED  BY <1>2, <1>3

\* A string that does not begin with a NUL is not empty.
LEMMA StrlenPositive ==
  ASSUME NEW s \in Seq(Nat), NEW n \in 1 .. Len(s), s[n] = NUL, s[1] # NUL
  PROVE  strlen(s) # 0
<1> DEFINE ends == {i \in 1 .. Len(s) : s[i] = NUL}
<1>1. n \in ends /\ ends \in SUBSET Nat /\ 1 \notin ends /\ 0 \notin ends
  OBVIOUS
<1>2. strlen(s) = Min(ends) - 1
  BY DEF strlen
<1> HIDE DEF ends
<1>3. Min(ends) \in ends
  BY <1>1, LeastElement DEF Min
<1> QED  BY <1>1, <1>2, <1>3

\* A string finds the entries whose name it is: it begins with the name, and a NUL
\* follows unless the name fills its entry.
LEMMA NameMatches ==
  ASSUME NEW d \in Directories, NEW k \in 0 .. Searched - 1,
         NEW w \in Words(NameLen), NEW f,
         \A i \in 1 .. Len(w) : f[i] = w[i],
         Len(w) < NameLen => f[Len(w) + 1] = NUL
  PROVE  StrncmpZero(f, EntryName(d, k), NameLen) <=> (k < Len(d) /\ d[k + 1] = w)
<1> DEFINE n == Len(w)
           e == EntryName(d, k)
<1>1. NameLen \in Nat /\ Searched \in Nat /\ n \in 1 .. NameLen /\ w \in Seq(Nat)
      /\ \A i \in 1 .. n : w[i] # NUL
  BY WordBytes, NamesAssumption
<1>2. Len(d) \in Nat /\ \A i \in 1 .. Len(d) : d[i] \in Words(NameLen)
  BY DirectoryNames, NamesAssumption
<1>3. ASSUME k < Len(d), d[k + 1] = w  PROVE StrncmpZero(f, e, NameLen)
  <2>1. \A i \in 1 .. NameLen : e[i] = IF i <= n THEN w[i] ELSE NUL
    BY <1>3, StoredBytes DEF EntryName
  <2> SUFFICES ASSUME NEW i \in 1 .. NameLen, NoNul(f, i - 1)  PROVE f[i] = e[i]
    BY DEF StrncmpZero
  <2>2. CASE i <= n
    BY <1>1, <2>1, <2>2
  <2>3. CASE i = n + 1
    BY <1>1, <2>1, <2>3
  <2>4. CASE i > n + 1
    <3>1. n + 1 \in 1 .. i - 1 /\ n < NameLen
      BY <1>1, <2>4
    <3> QED  BY <3>1 DEF NoNul
  <2> QED  BY <1>1, <2>2, <2>3, <2>4
<1>4. ASSUME StrncmpZero(f, e, NameLen)  PROVE k < Len(d) /\ d[k + 1] = w
  <2>1. ASSUME NEW i \in 1 .. NameLen, i <= n + 1  PROVE f[i] = e[i]
    <3>1. NoNul(f, i - 1)
      BY <1>1, <2>1 DEF NoNul
    <3> QED  BY <1>4, <3>1 DEF StrncmpZero
  <2>2. \A i \in 1 .. n : e[i] = w[i] /\ e[i] # NUL
    <3> SUFFICES ASSUME NEW i \in 1 .. n  PROVE e[i] = w[i] /\ e[i] # NUL
      OBVIOUS
    <3>1. i \in 1 .. NameLen /\ i <= n + 1
      BY <1>1
    <3> QED  BY <1>1, <2>1, <3>1
  <2>3. n < NameLen => e[n + 1] = NUL
    <3> SUFFICES ASSUME n < NameLen  PROVE e[n + 1] = NUL
      OBVIOUS
    <3>1. n + 1 \in 1 .. NameLen
      BY <1>1
    <3> QED  BY <1>1, <2>1, <3>1
  <2>4. k < Len(d)
    <3> SUFFICES ASSUME ~(k < Len(d))  PROVE FALSE
      OBVIOUS
    <3>1. e = Zeros(NameLen)
      BY DEF EntryName
    <3>2. e[1] = NUL
      BY <1>1, <3>1, ZerosBytes
    <3> QED  BY <1>1, <2>2, <3>2
  <2>5. PICK v \in Words(NameLen) : v = d[k + 1] /\ e = Stored(v)
    <3>1. k + 1 \in 1 .. Len(d)
      BY <1>2, <2>4
    <3> QED  BY <1>2, <2>4, <3>1 DEF EntryName
  <2>6. Len(v) \in 1 .. NameLen /\ v \in Seq(Nat) /\ \A i \in 1 .. Len(v) : v[i] # NUL
    BY <2>5, WordBytes, <1>1
  <2>7. \A i \in 1 .. NameLen : e[i] = IF i <= Len(v) THEN v[i] ELSE NUL
    <3>1. \A i \in 1 .. NameLen : Stored(v)[i] = IF i <= Len(v) THEN v[i] ELSE NUL
      BY <2>5, StoredBytes
    <3> HIDE DEF e
    <3> QED  BY <2>5, <3>1
  <2> HIDE DEF n, e
  <2>8. n <= Len(v)
    <3>1. n \in 1 .. NameLen /\ e[n] # NUL
      BY <1>1, <2>2
    <3> QED  BY <2>6, <2>7, <3>1
  <2>9. Len(v) <= n
    <3> SUFFICES ASSUME n < Len(v)  PROVE FALSE
      BY <1>1, <2>6
    <3>1. n + 1 \in 1 .. Len(v) /\ n + 1 \in 1 .. NameLen /\ n < NameLen
      BY <1>1, <2>6
    <3> QED  BY <2>3, <2>6, <2>7, <3>1
  <2>10. Len(v) = n /\ Len(w) = n
    BY <1>1, <2>6, <2>8, <2>9 DEF n
  <2>11. \A i \in 1 .. n : v[i] = w[i]
    BY <1>1, <2>2, <2>7, <2>10
  <2>12. v = w
    BY <1>1, <2>6, <2>10, <2>11, SeqEqual
  <2> QED  BY <2>4, <2>5, <2>12
<1> QED  BY <1>3, <1>4

\* ... so the search returns the one entry with that name.
LEMMA NameFinds ==
  ASSUME NEW d \in Directories, NEW i \in 0 .. Len(d) - 1, NEW f,
         \A j \in 1 .. Len(d[i + 1]) : f[j] = d[i + 1][j],
         Len(d[i + 1]) < NameLen => f[Len(d[i + 1]) + 1] = NUL
  PROVE  read_dentry_by_name(d, f) = i
<1> DEFINE hits == {k \in 0 .. Searched - 1 : StrncmpZero(f, EntryName(d, k), NameLen)}
<1>1. /\ Len(d) \in Nat /\ Len(d) <= Searched /\ Searched \in Nat
      /\ \A k \in 1 .. Len(d) : d[k] \in Words(NameLen)
      /\ \A k, j \in 1 .. Len(d) : d[k] = d[j] => k = j
  BY DirectoryNames, NamesAssumption
<1>2. i + 1 \in 1 .. Len(d) /\ i \in 0 .. Searched - 1 /\ i \in Nat
  BY <1>1
<1>3. d[i + 1] \in Words(NameLen)
  BY <1>1, <1>2
<1>4. \A k \in 0 .. Searched - 1 :
        StrncmpZero(f, EntryName(d, k), NameLen) <=> (k < Len(d) /\ d[k + 1] = d[i + 1])
  BY <1>3, NameMatches
<1>5. ASSUME NEW k \in hits  PROVE k = i
  <2>1. k \in Nat /\ k < Len(d) /\ d[k + 1] = d[i + 1]
    BY <1>4
  <2>2. k + 1 \in 1 .. Len(d)
    BY <1>1, <2>1
  <2>3. k + 1 = i + 1
    BY <1>1, <1>2, <2>1, <2>2
  <2> QED  BY <1>2, <2>1, <2>3
<1>6. i \in hits
  BY <1>1, <1>2, <1>4
<1>7. read_dentry_by_name(d, f) = IF hits = {} THEN -1 ELSE Min(hits)
  BY DEF read_dentry_by_name
<1> HIDE DEF hits
<1>8. hits = {i}
  BY <1>5, <1>6
<1>9. Min({i}) = i
  BY <1>2 DEF Min
<1> QED  BY <1>7, <1>8, <1>9

\* A string that does not begin with a NUL finds an entry that is used, or none.
LEMMA LookupType ==
  ASSUME NEW d \in Directories, NEW f, f[1] # NUL
  PROVE  read_dentry_by_name(d, f) \in {-1} \cup 0 .. Len(d) - 1
<1> DEFINE hits == {k \in 0 .. Searched - 1 : StrncmpZero(f, EntryName(d, k), NameLen)}
<1>1. Searched \in Nat /\ Len(d) \in Nat /\ NameLen \in Nat \ {0}
  BY DirectoryNames, NamesAssumption
<1>2. ASSUME NEW k \in hits  PROVE k \in 0 .. Len(d) - 1
  <2> SUFFICES ASSUME ~(k < Len(d))  PROVE FALSE
    BY <1>1
  <2>1. EntryName(d, k) = Zeros(NameLen)
    BY DEF EntryName
  <2>2. Zeros(NameLen)[1] = NUL /\ 1 \in 1 .. NameLen
    BY <1>1, ZerosBytes
  <2>3. NoNul(f, 1 - 1)
    BY DEF NoNul
  <2>4. f[1] = Zeros(NameLen)[1]
    BY <2>1, <2>2, <2>3 DEF StrncmpZero
  <2> QED  BY <2>2, <2>4
<1>3. read_dentry_by_name(d, f) = IF hits = {} THEN -1 ELSE Min(hits)
  BY DEF read_dentry_by_name
<1>4. hits \in SUBSET Nat
  BY <1>1
<1> HIDE DEF hits
<1>5. hits # {} => Min(hits) \in hits
  BY <1>4, LeastElement DEF Min
<1> QED  BY <1>2, <1>3, <1>5


-----------------------------------------------------------------------------
(* Listings *)

\* A string that begins with the name of an entry, with a NUL behind the name unless
\* it fills the entry or ends the string, opens that entry.
LEMMA OpenFinds ==
  ASSUME NEW d \in Directories, NEW i \in 0 .. Len(d) - 1, NEW s \in Seq(Nat),
         Len(d[i + 1]) <= Len(s),
         \A j \in 1 .. Len(d[i + 1]) : s[j] = d[i + 1][j],
         Len(d[i + 1]) < NameLen /\ Len(d[i + 1]) < Len(s) => s[Len(d[i + 1]) + 1] = NUL
  PROVE  open_lookup(d, s \o <<NUL>>) = i
<1> DEFINE w == d[i + 1]
           f == s \o <<NUL>>
<1>1. /\ Len(d) \in Nat
      /\ \A k \in 1 .. Len(d) : d[k] \in Words(NameLen)
  BY DirectoryNames, NamesAssumption
<1>2. w \in Words(NameLen)
  BY <1>1
<1>3. Len(w) \in Nat \ {0} /\ \A j \in 1 .. Len(w) : w[j] # NUL
  BY <1>2, WordBytes, NamesAssumption
<1>4. /\ f \in Seq(Nat) /\ Len(f) = Len(s) + 1 /\ f[Len(s) + 1] = NUL
      /\ \A j \in 1 .. Len(s) : f[j] = s[j]
  BY DEF NUL
<1> HIDE DEF f
<1>5. \A j \in 1 .. Len(w) : f[j] = w[j]
  BY <1>3, <1>4
<1>6. Len(w) < NameLen => f[Len(w) + 1] = NUL
  <2>1. CASE Len(w) = Len(s)
    BY <1>4, <2>1
  <2>2. CASE Len(w) < Len(s)
    <3>1. Len(w) + 1 \in 1 .. Len(s)
      BY <1>3, <2>2
    <3> QED  BY <1>4, <2>2, <3>1
  <2> QED  BY <1>3, <2>1, <2>2
<1>7. read_dentry_by_name(d, f) = i
  BY <1>5, <1>6, NameFinds
<1>8. strlen(f) # 0
  <2>1. 1 \in 1 .. Len(w) /\ Len(f) \in 1 .. Len(f) /\ f[Len(f)] = NUL
    BY <1>3, <1>4
  <2>2. f[1] # NUL
    BY <1>3, <1>5, <2>1
  <2> QED  BY <1>4, <2>1, <2>2, StrlenPositive
<1> QED  BY <1>7, <1>8 DEF open_lookup, f

\* The bytes at the copy of an entry.
LEMMA EntryBytesIs ==
  ASSUME NEW d \in Directories, NEW i \in 0 .. Len(d) - 1, NEW type \in 0 .. 2
  PROVE  LET w == d[i + 1]
             bytes == EntryBytes(d, i, type)
         IN /\ bytes \in Seq(Nat) /\ Len(bytes) = NameLen + 4
            /\ \A j \in 1 .. NameLen : bytes[j] = IF j <= Len(w) THEN w[j] ELSE NUL
            /\ bytes[NameLen + 1] = type /\ bytes[NameLen + 2] = NUL
<1> DEFINE w == d[i + 1]
           name == EntryName(d, i)
           c == strncpy(Zeros(NameLen), name, NameLen)
<1>1. /\ Len(d) \in Nat /\ NameLen \in Nat
      /\ \A k \in 1 .. Len(d) : d[k] \in Words(NameLen)
  BY DirectoryNames, NamesAssumption
<1>2. w \in Words(NameLen)
  BY <1>1
<1>3. Len(w) \in 1 .. NameLen /\ \A j \in 1 .. Len(w) : w[j] \in Nat /\ w[j] # NUL
  BY <1>1, <1>2, WordBytes
<1>4. name = Stored(w)
  BY <1>1 DEF EntryName
<1>5. \A j \in 1 .. NameLen : name[j] = IF j <= Len(w) THEN w[j] ELSE NUL
  BY <1>2, <1>4, StoredBytes
<1> HIDE DEF name, w
<1>6. c = [j \in 1 .. NameLen |-> IF NoNul(name, j) THEN name[j] ELSE NUL]
  <2>1. DOMAIN Zeros(NameLen) = 1 .. NameLen
    BY DEF Zeros
  <2>2. c = [j \in 1 .. NameLen |-> IF j > NameLen THEN Zeros(NameLen)[j]
               ELSE IF NoNul(name, j) THEN name[j] ELSE NUL]
    BY <2>1 DEF strncpy
  <2>3. \A j \in 1 .. NameLen : ~(j > NameLen)
    BY <1>1
  <2> QED  BY <2>2, <2>3
<1> HIDE DEF c
<1>7. ASSUME NEW j \in 1 .. NameLen  PROVE c[j] = IF j <= Len(w) THEN w[j] ELSE NUL
  <2>1. CASE j <= Len(w)
    <3>1. \A k \in 1 .. j : name[k] # NUL
      BY <1>1, <1>3, <1>5, <2>1
    <3> QED  BY <1>5, <1>6, <2>1, <3>1 DEF NoNul
  <2>2. CASE ~(j <= Len(w))
    <3>1. Len(w) + 1 \in 1 .. j /\ Len(w) + 1 \in 1 .. NameLen /\ ~(Len(w) + 1 <= Len(w))
      BY <1>1, <1>3, <2>2
    <3>2. name[Len(w) + 1] = NUL
      BY <1>5, <3>1
    <3>3. ~NoNul(name, j)
      BY <3>1, <3>2 DEF NoNul
    <3> QED  BY <1>6, <2>2, <3>3
  <2> QED  BY <2>1, <2>2
<1>8. c \in Seq(Nat) /\ Len(c) = NameLen
  <2>1. \A j \in 1 .. NameLen : c[j] \in Nat
    BY <1>3, <1>7 DEF NUL
  <2>2. c \in [1 .. NameLen -> Nat]
    BY <1>6, <2>1
  <2>3. c \in Seq(Nat)
    BY <1>1, <2>2, SeqDef
  <2> QED  BY <1>1, <2>2, <2>3
<1> DEFINE z == Zeros(3)
<1>9. z \in Seq(Nat) /\ Len(z) = 3 /\ z[1] = NUL
  <2>1. 3 \in Nat /\ 1 \in 1 .. 3
    OBVIOUS
  <2> QED  BY <2>1, ZerosBytes
<1> HIDE DEF z
<1> DEFINE ct == c \o <<type>>
<1>10. /\ ct \in Seq(Nat) /\ Len(ct) = NameLen + 1 /\ ct[NameLen + 1] = type
       /\ \A j \in 1 .. NameLen : ct[j] = c[j]
  BY <1>1, <1>8
<1> HIDE DEF ct
<1> DEFINE bytes == ct \o z
<1>11. /\ bytes \in Seq(Nat)
       /\ Len(bytes) = Len(ct) + Len(z)
       /\ \A j \in 1 .. Len(ct) + Len(z) : bytes[j] =
            IF j <= Len(ct) THEN ct[j] ELSE z[j - Len(ct)]
  BY <1>9, <1>10, ConcatProperties
<1>12. EntryBytes(d, i, type) = bytes
  BY DEF EntryBytes, ct, c, name, z
<1> HIDE DEF bytes
<1>13. Len(bytes) = NameLen + 4 /\ bytes[NameLen + 1] = type /\ bytes[NameLen + 2] = NUL
  <2>1. /\ NameLen + 1 \in 1 .. Len(ct) + Len(z)
        /\ NameLen + 2 \in 1 .. Len(ct) + Len(z)
        /\ NameLen + 1 <= Len(ct) /\ ~(NameLen + 2 <= Len(ct))
        /\ (NameLen + 2) - Len(ct) = 1
        /\ Len(ct) + Len(z) = NameLen + 4
    <3>1. Len(ct) = NameLen + 1 /\ Len(z) = 3
      BY <1>9, <1>10
    <3> QED  BY <1>1, <3>1
  <2>2. bytes[NameLen + 1] = ct[NameLen + 1] /\ bytes[NameLen + 2] = z[1]
    BY <1>11, <2>1
  <2> QED  BY <1>9, <1>10, <1>11, <2>1, <2>2
<1>14. \A j \in 1 .. NameLen : bytes[j] = IF j <= Len(w) THEN w[j] ELSE NUL
  <2> SUFFICES ASSUME NEW j \in 1 .. NameLen  PROVE bytes[j] = ct[j]
    BY <1>7, <1>10
  <2>1. j \in 1 .. Len(ct) + Len(z) /\ j <= Len(ct)
    BY <1>1, <1>9, <1>10
  <2> QED  BY <1>11, <2>1
<1> QED  BY <1>11, <1>12, <1>13, <1>14 DEF w

\* The smaller of two numbers.
LEMMA MinOfTwo ==
  ASSUME NEW a \in Nat, NEW b \in Nat
  PROVE  Min({a, b}) = IF a <= b THEN a ELSE b
<1>1. \E x \in {a, b} : \A y \in {a, b} : x <= y
  OBVIOUS
<1>2. Min({a, b}) \in {a, b} /\ \A y \in {a, b} : Min({a, b}) <= y
  BY <1>1 DEF Min
<1> QED  BY <1>2

\* dir_read returns the length of the name, also of one that fills its entry.
LEMMA ListedLengthIs ==
  ASSUME NEW d \in Directories, NEW i \in 0 .. Len(d) - 1, NEW type \in 0 .. 2
  PROVE  ListedLength(EntryBytes(d, i, type)) = Len(d[i + 1])
<1> DEFINE w == d[i + 1]
           bytes == EntryBytes(d, i, type)
<1>1. /\ Len(d) \in Nat /\ NameLen \in Nat
      /\ \A k \in 1 .. Len(d) : d[k] \in Words(NameLen)
  BY DirectoryNames, NamesAssumption
<1>2. w \in Words(NameLen)
  BY <1>1
<1>3. Len(w) \in 1 .. NameLen /\ \A j \in 1 .. Len(w) : w[j] \in Nat /\ w[j] # NUL
  BY <1>1, <1>2, WordBytes
<1>4. /\ bytes \in Seq(Nat) /\ Len(bytes) = NameLen + 4
      /\ \A j \in 1 .. NameLen : bytes[j] = IF j <= Len(w) THEN w[j] ELSE NUL
      /\ bytes[NameLen + 1] = type /\ bytes[NameLen + 2] = NUL
  BY EntryBytesIs
<1>5. ListedLength(bytes) = Min({strlen(bytes), NameLen})
  BY DEF ListedLength
<1> HIDE DEF w, bytes
<1>6. \A j \in 1 .. Len(w) : bytes[j] # NUL
  <2> SUFFICES ASSUME NEW j \in 1 .. Len(w)  PROVE bytes[j] # NUL
    OBVIOUS
  <2>1. j \in 1 .. NameLen /\ j <= Len(w)
    BY <1>1, <1>3
  <2> QED  BY <1>3, <1>4, <2>1
<1>7. CASE Len(w) < NameLen
  <2>1. Len(w) + 1 \in 1 .. NameLen /\ ~(Len(w) + 1 <= Len(w)) /\ Len(w) + 1 <= Len(bytes)
    BY <1>1, <1>3, <1>4, <1>7
  <2>2. bytes[Len(w) + 1] = NUL /\ Len(w) \in Nat
    BY <1>3, <1>4, <2>1
  <2>3. strlen(bytes) = Len(w)
    BY <1>4, <1>6, <2>1, <2>2, StrlenIs
  <2>4. Min({Len(w), NameLen}) = Len(w)
    BY <1>1, <1>7, <2>2, MinOfTwo
  <2> QED  BY <1>5, <2>3, <2>4 DEF w, bytes
<1>8. CASE Len(w) = NameLen /\ type = 0
  <2>1. NameLen + 1 <= Len(bytes) /\ bytes[NameLen + 1] = NUL
    BY <1>1, <1>4, <1>8 DEF NUL
  <2>2. strlen(bytes) = NameLen
    BY <1>1, <1>4, <1>6, <1>8, <2>1, StrlenIs
  <2> QED  BY <1>1, <1>5, <1>8, <2>2, MinOfTwo DEF w, bytes
<1>9. CASE Len(w) = NameLen /\ type # 0
  <2>1. NameLen + 1 \in Nat /\ (NameLen + 1) + 1 <= Len(bytes)
        /\ bytes[(NameLen + 1) + 1] = NUL
    BY <1>1, <1>4
  <2>2. \A j \in 1 .. NameLen + 1 : bytes[j] # NUL
    <3> SUFFICES ASSUME NEW j \in 1 .. NameLen + 1  PROVE bytes[j] # NUL
      OBVIOUS
    <3>1. j \in 1 .. NameLen \/ j = NameLen + 1
      BY <1>1
    <3> QED  BY <1>4, <1>6, <1>9, <3>1 DEF NUL
  <2>3. strlen(bytes) = NameLen + 1
    BY <1>4, <2>1, <2>2, StrlenIs
  <2>4. Min({NameLen + 1, NameLen}) = NameLen
    BY <1>1, <2>1, MinOfTwo
  <2> QED  BY <1>5, <1>9, <2>3, <2>4 DEF w, bytes
<1> QED  BY <1>1, <1>3, <1>7, <1>8, <1>9

\* The caller's buffer holds the name.
LEMMA ListedIs ==
  ASSUME NEW d \in Directories, NEW i \in 0 .. Len(d) - 1, NEW type \in 0 .. 2
  PROVE  LET w == d[i + 1]
             s == Listed(EntryBytes(d, i, type))
         IN /\ s \in Seq(Nat) /\ Len(s) = NameLen + 1
            /\ \A j \in 1 .. Len(w) : s[j] = w[j]
            /\ Len(w) < NameLen => s[Len(w) + 1] = NUL
<1> DEFINE w == d[i + 1]
           bytes == EntryBytes(d, i, type)
           s == Listed(bytes)
           n == Len(w)
<1>1. /\ Len(d) \in Nat /\ NameLen \in Nat
      /\ \A k \in 1 .. Len(d) : d[k] \in Words(NameLen)
  BY DirectoryNames, NamesAssumption
<1>2. w \in Words(NameLen)
  BY <1>1
<1>3. n \in 1 .. NameLen /\ \A j \in 1 .. n : w[j] \in Nat /\ w[j] # NUL
  BY <1>1, <1>2, WordBytes
<1>4. /\ bytes \in Seq(Nat) /\ Len(bytes) = NameLen + 4
      /\ \A j \in 1 .. NameLen : bytes[j] = IF j <= n THEN w[j] ELSE NUL
  BY EntryBytesIs
<1>5. ListedLength(bytes) = n
  BY ListedLengthIs
<1> HIDE DEF n, w, bytes
<1>6. s = [j \in 1 .. NameLen + 1 |-> IF j > n + 1 THEN NUL
                ELSE IF NoNul(bytes, j) THEN bytes[j] ELSE NUL]
  <2>1. DOMAIN Zeros(NameLen + 1) = 1 .. NameLen + 1
        /\ \A j \in 1 .. NameLen + 1 : Zeros(NameLen + 1)[j] = NUL
    BY DEF Zeros
  <2> QED  BY <1>5, <2>1 DEF Listed, strncpy
<1> HIDE DEF s
<1>7. s \in Seq(Nat) /\ Len(s) = NameLen + 1
  <2>1. NameLen + 1 \in Nat /\ \A j \in 1 .. NameLen + 1 : bytes[j] \in Nat
    BY <1>1, <1>4
  <2>2. s \in [1 .. NameLen + 1 -> Nat]
    BY <1>6, <2>1 DEF NUL
  <2>3. s \in Seq(Nat)
    BY <2>1, <2>2, SeqDef
  <2> QED  BY <2>1, <2>2, <2>3
<1>8. ASSUME NEW j \in 1 .. n  PROVE s[j] = w[j]
  <2>1. ASSUME NEW k \in 1 .. j PROVE bytes[k] # NUL
    <3>1. k \in 1 .. NameLen /\ k \in 1 .. n /\ k <= n
      BY <1>1, <1>3
    <3> QED  BY <1>3, <1>4, <3>1
  <2>2. j \in 1 .. NameLen + 1 /\ ~(j > n + 1) /\ j \in 1 .. NameLen /\ j <= n
    BY <1>1, <1>3
  <2> QED  BY <1>4, <1>6, <2>1, <2>2 DEF NoNul
<1>9. ASSUME n < NameLen  PROVE s[n + 1] = NUL
  <2>1. n + 1 \in 1 .. NameLen /\ n + 1 \in 1 .. NameLen + 1 /\ ~(n + 1 <= n)
    BY <1>1, <1>3, <1>9
  <2>2. bytes[n + 1] = NUL
    BY <1>4, <2>1
  <2> QED  BY <1>6, <2>1, <2>2
<1> QED  BY <1>7, <1>8, <1>9 DEF s, n, w, bytes

\* Every name that dir_read lists opens the entry it comes from, for every directory,
\* every length of names and every file type, as it stands in the caller's buffer
\* and cut off at the length returned.
THEOREM EveryListedOpensCorrect == EveryListedOpens
<1> SUFFICES ASSUME NEW d \in Directories, NEW i \in 0 .. Len(d) - 1, NEW type \in 0 .. 2
             PROVE  LET bytes == EntryBytes(d, i, type)
                        n == ListedLength(bytes)
                    IN /\ open_lookup(d, Listed(bytes) \o <<NUL>>) = i
                       /\ open_lookup(d, SubSeq(Listed(bytes), 1, n) \o <<NUL>>) = i
                       /\ n = Len(d[i + 1])
  BY DEF EveryListedOpens
<1> DEFINE w == d[i + 1]
           bytes == EntryBytes(d, i, type)
           s == Listed(bytes)
           n == Len(w)
<1>1. NameLen \in Nat /\ n \in 1 .. NameLen
  <2>1. Len(d) \in Nat /\ NameLen \in Nat /\ \A k \in 1 .. Len(d) : d[k] \in Words(NameLen)
    BY DirectoryNames, NamesAssumption
  <2> QED  BY <2>1, WordBytes
<1>2. /\ s \in Seq(Nat) /\ Len(s) = NameLen + 1
      /\ \A j \in 1 .. n : s[j] = w[j]
      /\ n < NameLen => s[n + 1] = NUL
  BY ListedIs
<1>3. ListedLength(bytes) = n
  BY ListedLengthIs
<1> HIDE DEF s, bytes
<1>4. open_lookup(d, s \o <<NUL>>) = i
  <2>1. n <= Len(s)
    BY <1>1, <1>2
  <2> QED  BY <1>2, <2>1, OpenFinds
<1>5. open_lookup(d, SubSeq(s, 1, n) \o <<NUL>>) = i
  <2> DEFINE u == SubSeq(s, 1, n)
  <2>1. u \in Seq(Nat) /\ Len(u) = n /\ \A j \in 1 .. n : u[j] = s[j]
    <3>1. n \in Nat /\ n <= Len(s)
      BY <1>1, <1>2
    <3> HIDE DEF n
    <3> QED  BY <1>2, <3>1
  <2> HIDE DEF u
  <2>2. n <= Len(u) /\ ~(n < Len(u)) /\ \A j \in 1 .. n : u[j] = w[j]
    BY <1>1, <1>2, <2>1
  <2>3. open_lookup(d, u \o <<NUL>>) = i
    BY <2>1, <2>2, OpenFinds
  <2> QED  BY <2>3 DEF u
<1> QED  BY <1>3, <1>4, <1>5 DEF s, bytes


-----------------------------------------------------------------------------
(* Commands *)

\* A command whose first word is the name of an entry, up to a NUL or a space.
LEMMA CommandFinds ==
  ASSUME NEW d \in Directories, NEW i \in 0 .. Len(d) - 1, NEW c \in Seq(Nat),
         Len(d[i + 1]) + 1 <= Len(c),
         \A j \in 1 .. Len(d[i + 1]) : c[j] = d[i + 1][j],
         c[Len(d[i + 1]) + 1] \in {NUL, Space}
  PROVE  /\ WordEnd(c) = Len(d[i + 1]) + 1
         /\ read_dentry_by_name(d, CommandName(c)) = i
<1> DEFINE w == d[i + 1]
           n == Len(w)
           ends == {k \in 1 .. Len(c) : c[k] \in {NUL, Space}}
           f == CommandName(c)
<1>1. /\ Len(d) \in Nat /\ NameLen \in Nat
      /\ \A k \in 1 .. Len(d) : d[k] \in Words(NameLen)
  BY DirectoryNames, NamesAssumption
<1>2. w \in Words(NameLen)
  BY <1>1
<1>3. n \in 1 .. NameLen /\ \A j \in 1 .. n : w[j] # NUL /\ w[j] # Space
  BY <1>1, <1>2, WordBytes
<1>4. WordEnd(c) = n + 1
  <2>1. n + 1 \in ends
    BY <1>1, <1>3
  <2>2. ASSUME NEW k \in ends  PROVE k \in Nat /\ n + 1 <= k
    <3>1. ~(k \in 1 .. n)
      BY <1>3
    <3> QED  BY <1>1, <1>3, <3>1
  <2>3. WordEnd(c) = Min(ends)
    BY DEF WordEnd
  <2> HIDE DEF ends, n
  <2>4. Min(ends) \in ends /\ \A k \in ends : Min(ends) <= k
    BY <2>1, <2>2 DEF Min
  <2>5. Min(ends) \in Nat /\ n + 1 <= Min(ends) /\ Min(ends) <= n + 1 /\ n + 1 \in Nat
    BY <2>1, <2>2, <2>4
  <2> QED  BY <2>3, <2>5
<1>5. f = [j \in 1 .. NameLen |-> IF j < n + 1 THEN c[j] ELSE NUL]
  BY <1>4 DEF CommandName
<1> HIDE DEF f
<1>6. \A j \in 1 .. n : f[j] = w[j]
  BY <1>1, <1>3, <1>5
<1>7. n < NameLen => f[n + 1] = NUL
  BY <1>1, <1>3, <1>5
<1>8. read_dentry_by_name(d, f) = i
  BY <1>6, <1>7, NameFinds
<1> QED  BY <1>4, <1>8 DEF f

\* A name alone is a command without arguments.
LEMMA BareCommand ==
  ASSUME NEW d \in Directories, NEW i \in 0 .. Len(d) - 1
  PROVE  /\ read_dentry_by_name(d, CommandName(d[i + 1] \o <<NUL>>)) = i
         /\ CommandArgs(d[i + 1] \o <<NUL>>) = <<NUL>>
<1> DEFINE w == d[i + 1]
           n == Len(w)
           c == w \o <<NUL>>
<1>1. w \in Seq(Nat) /\ n \in Nat
  <2>1. Len(d) \in Nat /\ NameLen \in Nat /\ \A k \in 1 .. Len(d) : d[k] \in Words(NameLen)
    BY DirectoryNames, NamesAssumption
  <2>2. w \in Words(NameLen)
    BY <2>1
  <2> QED  BY <2>1, <2>2, WordBytes
<1>2. /\ c \in Seq(Nat) /\ Len(c) = n + 1 /\ c[n + 1] = NUL
      /\ \A j \in 1 .. n : c[j] = w[j]
  BY <1>1 DEF NUL
<1> HIDE DEF c
<1>3. n + 1 <= Len(c) /\ c[n + 1] \in {NUL, Space}
  BY <1>1, <1>2
<1>4. WordEnd(c) = n + 1 /\ read_dentry_by_name(d, CommandName(c)) = i
  BY <1>2, <1>3, CommandFinds
<1>5. CommandArgs(c) = <<NUL>>
  BY <1>2, <1>4 DEF CommandArgs
<1> QED  BY <1>4, <1>5 DEF c

\* What follows the space behind the name is handed over when it fits in arg, whatever
\* spaces it has.
LEMMA CommandWithArgs ==
  ASSUME NEW d \in Directories, NEW i \in 0 .. Len(d) - 1,
         NEW a \in Seq(Letters \cup {Space}), Len(a) < ArgLen
  PROVE  LET command == d[i + 1] \o <<Space>> \o a \o <<NUL>>
         IN /\ read_dentry_by_name(d, CommandName(command)) = i
            /\ CommandArgs(command) = a \o <<NUL>>
<1> DEFINE w == d[i + 1]
           n == Len(w)
           m == Len(a)
<1>1. w \in Seq(Nat) /\ n \in Nat /\ \A j \in 1 .. n : w[j] # NUL
  <2>1. Len(d) \in Nat /\ NameLen \in Nat /\ \A k \in 1 .. Len(d) : d[k] \in Words(NameLen)
    BY DirectoryNames, NamesAssumption
  <2>2. w \in Words(NameLen)
    BY <2>1
  <2> QED  BY <2>1, <2>2, WordBytes
<1>2. a \in Seq(Nat) /\ m \in Nat /\ \A j \in 1 .. m : a[j] # NUL
  <2>1. \A j \in 1 .. m : a[j] \in Letters \cup {Space}
    OBVIOUS
  <2>2. \A x \in Letters \cup {Space} : x \in Nat /\ x # NUL
    BY NamesAssumption DEF NUL, Space
  <2>3. \A j \in 1 .. m : a[j] \in Nat /\ a[j] # NUL
    BY <2>1, <2>2
  <2>4. m \in Nat /\ DOMAIN a = 1 .. m /\ a \in [1 .. m -> Nat]
    BY <2>3
  <2> QED  BY <2>3, <2>4, SeqDef
<1> HIDE DEF w, n, m
<1> DEFINE p == w \o <<Space>>
<1>3. p \in Seq(Nat) /\ Len(p) = n + 1 /\ p[n + 1] = Space
      /\ \A j \in 1 .. n : p[j] = w[j]
  BY <1>1 DEF Space, n
<1> HIDE DEF p
<1> DEFINE q == p \o a
<1>4. /\ q \in Seq(Nat) /\ Len(q) = n + 1 + m
      /\ \A j \in 1 .. n + 1 : q[j] = p[j]
      /\ \A j \in 1 .. m : q[n + 1 + j] = a[j]
  <2>1. /\ q \in Seq(Nat) /\ Len(q) = Len(p) + Len(a)
        /\ \A j \in 1 .. Len(p) + Len(a) :
             q[j] = IF j <= Len(p) THEN p[j] ELSE a[j - Len(p)]
    BY <1>2, <1>3, ConcatProperties
  <2>2. Len(a) = m /\ Len(p) = n + 1
    BY <1>3 DEF m
  <2> HIDE DEF q
  <2>3. ASSUME NEW j \in 1 .. m  PROVE q[n + 1 + j] = a[j]
    <3>1. /\ n + 1 + j \in 1 .. (n + 1) + m /\ ~(n + 1 + j <= n + 1)
          /\ (n + 1 + j) - (n + 1) = j
      BY <1>1, <1>2
    <3> QED  BY <2>1, <2>2, <3>1
  <2>4. ASSUME NEW j \in 1 .. n + 1  PROVE q[j] = p[j]
    <3>1. j \in 1 .. (n + 1) + m /\ j <= n + 1
      BY <1>1, <1>2
    <3> QED  BY <2>1, <2>2, <3>1
  <2> QED  BY <1>1, <1>2, <2>1, <2>2, <2>3, <2>4
<1> HIDE DEF q
<1> DEFINE c == q \o <<NUL>>
<1>5. /\ c \in Seq(Nat) /\ Len(c) = n + 1 + m + 1 /\ c[n + 1 + m + 1] = NUL
      /\ \A j \in 1 .. n + 1 + m : c[j] = q[j]
  <2>1. /\ c \in Seq(Nat) /\ Len(c) = Len(q) + 1 /\ c[Len(q) + 1] = NUL
        /\ \A j \in 1 .. Len(q) : c[j] = q[j]
    BY <1>4 DEF NUL
  <2> HIDE DEF c
  <2> QED  BY <1>1, <1>2, <1>4, <2>1
<1> HIDE DEF c
<1>6. c[n + 1] = Space /\ \A j \in 1 .. n : c[j] = w[j]
  <2>1. n + 1 \in 1 .. n + 1 /\ n + 1 \in 1 .. n + 1 + m
    BY <1>1, <1>2
  <2>2. \A j \in 1 .. n : j \in 1 .. n + 1 /\ j \in 1 .. n + 1 + m
    BY <1>1, <1>2
  <2> QED  BY <1>3, <1>4, <1>5, <2>1, <2>2
<1>7. \A j \in 1 .. m : c[n + 1 + j] = a[j]
  <2>1. \A j \in 1 .. m : n + 1 + j \in 1 .. n + 1 + m
    BY <1>1, <1>2
  <2> QED  BY <1>4, <1>5, <2>1
<1>8. WordEnd(c) = n + 1 /\ read_dentry_by_name(d, CommandName(c)) = i
  <2>1. n + 1 <= Len(c) /\ c[n + 1] \in {NUL, Space}
    BY <1>1, <1>2, <1>5, <1>6
  <2> QED  BY <1>5, <1>6, <2>1, CommandFinds DEF n, w
<1>9. strlen(c) = n + 1 + m
  <2>1. \A j \in 1 .. n + 1 + m : c[j] # NUL
    <3> SUFFICES ASSUME NEW j \in 1 .. n + 1 + m  PROVE c[j] # NUL
      OBVIOUS
    <3>1. CASE j <= n
      BY <1>1, <1>6, <3>1
    <3>2. CASE j = n + 1
      BY <1>6, <3>2 DEF NUL, Space
    <3>3. CASE j > n + 1
      <4>1. j - (n + 1) \in 1 .. m /\ n + 1 + (j - (n + 1)) = j
        BY <1>1, <1>2, <3>3
      <4> QED  BY <1>2, <1>7, <4>1
    <3> QED  BY <1>1, <1>2, <3>1, <3>2, <3>3
  <2>2. n + 1 + m \in Nat /\ (n + 1 + m) + 1 <= Len(c)
    BY <1>1, <1>2, <1>5
  <2> QED  BY <1>5, <2>1, <2>2, StrlenIs
<1>10. SubSeq(c, n + 2, n + 1 + m) = a
  <2> DEFINE u == SubSeq(c, n + 2, n + 1 + m)
  <2>1. u \in Seq(Nat) /\ Len(u) = m /\ \A j \in 1 .. m : u[j] = c[n + 1 + j]
    <3> DEFINE from == n + 2
               to == n + 1 + m
    <3>1. from \in Int /\ to \in Int /\ \A j \in from .. to : j \in 1 .. Len(c)
      BY <1>1, <1>2, <1>5
    <3>2. \A j \in from .. to : c[j] \in Nat
      BY <1>5, <3>1
    <3>3. to - from + 1 = m /\ (IF from <= to THEN to - from + 1 ELSE 0) = m
          /\ \A j \in 1 .. m : from + j - 1 = n + 1 + j
      BY <1>1, <1>2
    <3>4. u = SubSeq(c, from, to)
      OBVIOUS
    <3> HIDE DEF u, from, to
    <3>5. /\ u \in Seq(Nat)
          /\ Len(u) = IF from <= to THEN to - from + 1 ELSE 0
          /\ \A j \in 1 .. to - from + 1 : u[j] = c[from + j - 1]
      BY <3>1, <3>2, <3>4, SubSeqProperties
    <3> QED  BY <3>3, <3>5
  <2> HIDE DEF u
  <2>2. \A j \in 1 .. m : u[j] = a[j]
    BY <1>7, <2>1
  <2>3. Len(a) = m
    BY DEF m
  <2>4. u = a
    BY <1>2, <2>1, <2>2, <2>3, SeqEqual
  <2> QED  BY <2>4 DEF u
<1>11. CommandArgs(c) = a \o <<NUL>>
  <2>1. (n + 1) + 1 = n + 2 /\ c[n + 1] # NUL
    BY <1>1, <1>6 DEF NUL, Space
  <2>2. ~(strlen(c) - WordEnd(c) >= ArgLen)
    <3>1. strlen(c) - WordEnd(c) = m
      BY <1>1, <1>2, <1>8, <1>9
    <3>2. m < ArgLen /\ ArgLen \in Nat
      BY NamesAssumption DEF m
    <3> QED  BY <1>2, <3>1, <3>2
  <2> QED  BY <1>8, <1>9, <1>10, <2>1, <2>2 DEF CommandArgs
<1> QED  BY <1>8, <1>11 DEF c, q, p, w

\* A command executes the file that its first word names and hands it the rest, when
\* that fits in arg.
THEOREM EveryCommandRunsCorrect == EveryCommandRuns
<1> SUFFICES ASSUME NEW d \in Directories, NEW i \in 0 .. Len(d) - 1,
                    NEW a \in SeqsOf(Letters \cup {Space}, 0, ArgLen - 1)
             PROVE  LET command == d[i + 1] \o <<Space>> \o a \o <<NUL>>
                    IN /\ read_dentry_by_name(d, CommandName(command)) = i
                       /\ CommandArgs(command) = a \o <<NUL>>
  BY BareCommand DEF EveryCommandRuns
<1>1. ArgLen - 1 \in Nat /\ ArgLen \in Nat
  BY NamesAssumption
<1>2. a \in Seq(Letters \cup {Space}) /\ Len(a) \in 0 .. ArgLen - 1
  BY <1>1, SeqsOfType
<1>3. Len(a) < ArgLen
  BY <1>1, <1>2
<1> QED  BY <1>2, <1>3, CommandWithArgs


-----------------------------------------------------------------------------
(* The program *)

\* The address of byte n of the file.
Address(n) == <<n \div BlockSize, n % BlockSize>>

\* The program's reads add up to the file: one chunk, or whole chunks.
WholeReads == chunk > 0 /\ (size <= chunk \/ size % chunk = 0)

\* Before open nothing has been read.
Fresh ==
  state = "start" => /\ file_position = 0 /\ nbytes = 0 /\ data_to_read = 0 /\ data_read = 0
                     /\ printed = <<>>

\* A read runs only when the program is in one; at the end of the file it copies nothing.
RunsInside ==
  /\ state # "reading" => pc = "idle"
  /\ state = "reading" /\ chunk > 0 => nbytes = chunk
  /\ pc # "idle" /\ file_position >= size => data_read = 0

\* What is printed is the file up to the position; while the program has a result it
\* has not printed, up to where the result begins.  A result of 0 says nothing of the
\* position: a read beyond the end of the file has set it back to the beginning.
PrintedUpTo ==
  /\ \A i \in 1 .. Len(printed) : printed[i] = Address(i - 1)
  /\ state = "read" \/ (state = "reading" /\ pc # "idle") => Len(printed) = file_position
  /\ state = "reading" /\ pc = "idle" /\ result > 0 =>
       /\ data_read = result
       /\ Len(printed) + result = file_position
       /\ \A i \in 0 .. result - 1 : buf[i] = Address(Len(printed) + i)

\* With whole reads, the rest of the file is a number of reads, so no read goes beyond
\* the end, and a result of 0 means that everything is printed.
WholeRest ==
  WholeReads =>
    /\ state = "read" \/ (state = "reading" /\ (pc # "idle" \/ result > 0)) =>
         \E k \in Nat : size = file_position + k * Wanted(chunk)
    /\ state = "reading" /\ pc = "idle" /\ result = 0 => Len(printed) = size
    /\ state = "done" => Len(printed) = size

SystemInv ==
  SystemTypeOK /\ Inv /\ Fresh /\ RunsInside /\ PrintedUpTo /\ WholeRest


\* Division has one result.
LEMMA AddressUnique ==
  ASSUME NEW q \in Nat, NEW r \in Nat, r < BlockSize, NEW a \in Nat,
         q * BlockSize + r = a
  PROVE  <<q, r>> = Address(a)
<1> DEFINE p == a \div BlockSize
           s == a % BlockSize
<1>1. p \in Nat /\ s \in 0 .. BlockSize - 1 /\ a = p * BlockSize + s
  BY DivMod
<1> HIDE DEF p, s
<1>2. BlockSize \in Nat
  BY BlockAssumption
<1>3. ASSUME NEW x \in Nat, NEW y \in Nat, x < y
      PROVE  x * BlockSize + BlockSize <= y * BlockSize
  <2>1. PICK z \in Nat : y = x + 1 + z
    <3>1. y - x - 1 \in Nat /\ y = x + 1 + (y - x - 1)
      BY <1>3
    <3> QED  BY <3>1
  <2>2. y * BlockSize = x * BlockSize + BlockSize + z * BlockSize
    BY <1>2, <2>1
  <2>3. z * BlockSize \in Nat /\ x * BlockSize \in Nat
    BY <1>2, NextBlock
  <2> QED  BY <1>2, <2>2, <2>3
<1>4. q * BlockSize \in Nat /\ p * BlockSize \in Nat
  BY <1>1, NextBlock
<1>5. q = p
  <2>1. ~(q < p)
    BY <1>1, <1>2, <1>3, <1>4
  <2>2. ~(p < q)
    BY <1>1, <1>2, <1>3, <1>4
  <2> QED  BY <1>1, <2>1, <2>2
<1>6. r = s
  BY <1>1, <1>2, <1>4, <1>5
<1> QED  BY <1>5, <1>6 DEF p, s, Address

\* A file that is read in whole reads has a whole number of them.
LEMMA WholeCount ==
  ASSUME NEW s \in Nat, NEW c \in Nat, c > 0, s <= c \/ s % c = 0
  PROVE  \E k \in Nat : s = k * (IF c <= s THEN c ELSE s)
<1>1. CASE s < c
  <2>1. s = 1 * s /\ ~(c <= s)
    BY <1>1
  <2> QED  BY <2>1
<1>2. CASE s = c
  <2>1. s = 1 * c /\ c <= s
    BY <1>2
  <2> QED  BY <2>1
<1>3. CASE s > c
  <2>1. s % c = 0 /\ c <= s
    BY <1>3
  <2>2. s \div c \in Nat /\ s = c * (s \div c) + (s % c)
    OBVIOUS
  <2>3. s = (s \div c) * c
    BY <2>1, <2>2
  <2> QED  BY <2>1, <2>2, <2>3
<1> QED  BY <1>1, <1>2, <1>3

\* One read less.
LEMMA OneRead ==
  ASSUME NEW k \in Nat, k # 0, NEW n \in Nat
  PROVE  k - 1 \in Nat /\ k * n = (k - 1) * n + n /\ (k - 1) * n \in Nat
<1>1. PICK m \in Nat : k = m + 1
  <2>1. k - 1 \in Nat /\ k = (k - 1) + 1
    OBVIOUS
  <2> QED  BY <2>1
<1>2. k - 1 = m /\ (m + 1) * n = m * n + n
  BY <1>1
<1>3. m * n \in Nat
  OBVIOUS
<1> QED  BY <1>1, <1>2, <1>3

LEMMA SystemInitInv == SystemInit => SystemInv
<1> SUFFICES ASSUME SystemInit  PROVE SystemInv
  OBVIOUS
<1>1. Inv
  BY InitInv DEF SystemInit
<1>2. SystemTypeOK
  BY <1>1 DEF SystemInit, SystemTypeOK, Inv
<1>3. Fresh /\ RunsInside /\ PrintedUpTo /\ WholeRest
  BY DEF SystemInit, Init, Fresh, RunsInside, PrintedUpTo, WholeRest
<1> QED  BY <1>1, <1>2, <1>3 DEF SystemInv

\* open begins with a clean descriptor, on a file of the directory or on none.
LEMMA OpenInv ==
  ASSUME SystemInv, NEW name \in Words(NameLen + 1), OpenFile(name)
  PROVE  SystemInv'
<1>0. SystemTypeOK /\ Inv /\ Fresh /\ RunsInside /\ PrintedUpTo /\ WholeRest
  BY DEF SystemInv
<1> DEFINE i == open_lookup(Names, name \o <<NUL>>)
<1>1. i = -1 \/ i \in 0 .. Len(Names) - 1
  <2>1. name \in Seq(Nat) /\ Len(name) \in Nat \ {0} /\ name[1] # NUL
    <3>1. NameLen + 1 \in Nat
      BY NamesAssumption
    <3>2. name \in Seq(Nat) /\ Len(name) \in 1 .. NameLen + 1
          /\ \A j \in 1 .. Len(name) : name[j] # NUL
      BY <3>1, WordBytes
    <3>3. 1 \in 1 .. Len(name) /\ Len(name) \in Nat \ {0}
      BY <3>1, <3>2
    <3> QED  BY <3>2, <3>3
  <2>2. (name \o <<NUL>>)[1] # NUL
    BY <2>1
  <2>3. Names \in Directories
    BY DirectoryAssumption
  <2>4. read_dentry_by_name(Names, name \o <<NUL>>) \in {-1} \cup 0 .. Len(Names) - 1
    BY <2>2, <2>3, LookupType
  <2> QED  BY <2>4 DEF open_lookup
<1>2. /\ state = "start" /\ file_position' = file_position /\ pc' = pc
      /\ nbytes' = nbytes /\ data_to_read' = data_to_read /\ data_read' = data_read
      /\ data_block_num' = data_block_num /\ buf' = buf /\ result' = result
      /\ sizes' = sizes /\ chunk' = chunk /\ printed' = printed
  BY DEF OpenFile
<1>3. /\ file_position = 0 /\ nbytes = 0 /\ data_to_read = 0 /\ data_read = 0
      /\ printed = <<>> /\ pc = "idle"
  BY <1>0, <1>2 DEF Fresh, RunsInside
<1>4. size' \in Nat /\ state' \in {"read", "failed"}
  <2>1. CASE i = -1
    BY <1>0, <2>1 DEF OpenFile, SystemTypeOK, TypeOK
  <2>2. CASE i # -1
    <3>1. i + 1 \in 1 .. Len(Names)
      BY <1>1, <2>2, DirectoryAssumption, DirectoryNames, NamesAssumption
    <3>2. size' = sizes[i + 1] /\ state' = "read"
      BY <2>2 DEF OpenFile
    <3>3. sizes[i + 1] \in 0 .. MaxSize
      BY <1>0, <3>1 DEF SystemTypeOK
    <3> QED  BY <3>2, <3>3, BoundsAssumption
  <2> QED  BY <2>1, <2>2
<1> HIDE DEF i
<1>5. Inv'
  <2>1. TypeOK' /\ PositionInside' /\ Bounded'
    BY <1>0, <1>2, <1>3, <1>4 DEF SystemTypeOK, TypeOK, PositionInside, Bounded
  <2>2. AtBlock' /\ OnBoundary' /\ Contiguous'
    BY <1>2, <1>3 DEF AtBlock, OnBoundary, Contiguous
  <2>3. Call0'
    BY <1>2, <1>3, <1>4 DEF Call0, Wanted
  <2> QED  BY <2>1, <2>2, <2>3 DEF Inv
<1>6. SystemTypeOK' /\ Fresh' /\ RunsInside' /\ PrintedUpTo'
  <2>1. SystemTypeOK'
    BY <1>0, <1>2, <1>4, <1>5 DEF SystemTypeOK, Inv
  <2>2. Fresh' /\ RunsInside'
    BY <1>2, <1>3, <1>4 DEF Fresh, RunsInside
  <2>3. PrintedUpTo'
    BY <1>2, <1>3, <1>4 DEF PrintedUpTo
  <2> QED  BY <2>1, <2>2, <2>3
<1>7. WholeRest'
  <2> SUFFICES ASSUME WholeReads'
               PROVE  \E k \in Nat : size' = file_position' + k * Wanted(chunk)'
    BY <1>4 DEF WholeRest
  <2>1. chunk \in Nat
    BY <1>0, BoundsAssumption DEF SystemTypeOK
  <2>2. PICK k \in Nat : size' = k * (IF chunk <= size' THEN chunk ELSE size')
    BY <1>2, <1>4, <2>1, WholeCount DEF WholeReads
  <2>3. Wanted(chunk)' = (IF chunk <= size' THEN chunk ELSE size')
    BY <1>2 DEF Wanted
  <2>4. size' = 0 + k * Wanted(chunk)'
    <3>1. size' = k * Wanted(chunk)'
      BY <2>2, <2>3
    <3>2. size' = 0 + size'
      <4>1. \A n \in Nat : n = 0 + n
        OBVIOUS
      <4> QED  BY <1>4, <4>1, Zenon
    <3> QED  BY <3>1, <3>2, Zenon
  <2> QED  BY <1>2, <1>3, <2>4
<1> QED  BY <1>5, <1>6, <1>7 DEF SystemInv

\* A read starts where the printed bytes end.
LEMMA ReadNextInv == SystemInv /\ ReadNext => SystemInv'
<1> SUFFICES ASSUME SystemInv, ReadNext  PROVE SystemInv'
  OBVIOUS
<1>0. SystemTypeOK /\ Inv /\ Fresh /\ RunsInside /\ PrintedUpTo /\ WholeRest
  BY DEF SystemInv
<1>1. PICK n \in 0 .. MaxBytes : (chunk = 0 \/ n = chunk) /\ Call(n)
  BY DEF ReadNext
<1>2. /\ state = "read" /\ state' = "reading"
      /\ sizes' = sizes /\ chunk' = chunk /\ printed' = printed
  BY DEF ReadNext
<1>3. /\ size' = size /\ file_position' = file_position /\ nbytes' = n
      /\ data_read' = 0 /\ pc' \in {"first", "return"}
  BY <1>1 DEF Call
<1>4. Inv'
  BY <1>0, <1>1, NextInv DEF Next
<1>5. SystemTypeOK'
  BY <1>0, <1>2, <1>4 DEF SystemTypeOK, Inv
<1>6. Fresh' /\ RunsInside'
  <2>1. chunk' > 0 => nbytes' = chunk'
    BY <1>1, <1>2, <1>3
  <2> QED  BY <1>2, <1>3, <2>1 DEF Fresh, RunsInside
<1>7. PrintedUpTo'
  BY <1>0, <1>2, <1>3 DEF PrintedUpTo
<1>8. WholeRest'
  <2>1. Wanted(chunk)' = Wanted(chunk) /\ WholeReads' = WholeReads
    BY <1>2, <1>3 DEF Wanted, WholeReads
  <2> QED  BY <1>0, <1>2, <1>3, <2>1 DEF WholeRest
<1> QED  BY <1>4, <1>5, <1>6, <1>7, <1>8 DEF SystemInv

\* The memcpys of a read that is not at the end of the file.
LEMMA MemcpyInv == SystemInv /\ ReadRuns /\ ~Return => SystemInv'
<1> SUFFICES ASSUME SystemInv, ReadRuns, ~Return  PROVE SystemInv'
  OBVIOUS
<1>0. SystemTypeOK /\ Inv /\ Fresh /\ RunsInside /\ PrintedUpTo /\ WholeRest
  BY DEF SystemInv
<1>1. sizes' = sizes /\ chunk' = chunk /\ printed' = printed /\ state' = state
  BY DEF ReadRuns
<1>2. First \/ Middle \/ LoopEnds \/ Last
  BY DEF ReadRuns
<1>3. /\ size' = size /\ file_position' = file_position /\ nbytes' = nbytes
      /\ pc \in {"first", "middle", "last"} /\ pc' \in {"middle", "last", "return"}
  BY <1>2 DEF First, Middle, LoopEnds, Last
<1>4. state = "reading" /\ file_position < size
  BY <1>0, <1>3 DEF RunsInside, Inv, Call0
<1>5. Inv'
  BY <1>0, <1>2, NextInv DEF Next
<1>6. SystemTypeOK'
  BY <1>0, <1>1, <1>5 DEF SystemTypeOK, Inv
<1>7. Fresh' /\ RunsInside'
  <2>1. ~(file_position >= size)
    BY <1>0, <1>4 DEF SystemTypeOK, TypeOK
  <2> QED  BY <1>0, <1>1, <1>3, <1>4, <2>1 DEF Fresh, RunsInside
<1>8. PrintedUpTo'
  BY <1>0, <1>1, <1>3, <1>4 DEF PrintedUpTo
<1>9. WholeRest'
  <2>1. Wanted(chunk)' = Wanted(chunk) /\ WholeReads' = WholeReads
    BY <1>1, <1>3 DEF Wanted, WholeReads
  <2>2. pc # "idle" /\ pc' # "idle"
    BY <1>3
  <2> QED  BY <1>0, <1>1, <1>3, <1>4, <2>1, <2>2 DEF WholeRest
<1> QED  BY <1>5, <1>6, <1>7, <1>8, <1>9 DEF SystemInv

\* The bytes in the buffer are the bytes of the file from the position on.
LEMMA BufferIs ==
  ASSUME TypeOK, Contiguous, pc # "idle", NEW i \in 0 .. data_read - 1
  PROVE  buf[i] = Address(file_position + i)
<1>1. buf[i] \in Nat \X Nat /\ file_position + i \in Nat
  BY DEF TypeOK
<1>2. PICK q \in Nat, r \in Nat : buf[i] = <<q, r>>
  BY <1>1
<1>3. buf[i][1] = q /\ buf[i][2] = r
  BY <1>2
<1>4. r < BlockSize /\ q * BlockSize + r = file_position + i
  BY <1>3 DEF Contiguous
<1> QED  BY <1>1, <1>2, <1>4, AddressUnique

\* A read returns its bytes, or 0 and the position of the beginning.
LEMMA ReturnInv == SystemInv /\ ReadRuns /\ Return => SystemInv'
<1> SUFFICES ASSUME SystemInv, ReadRuns, Return  PROVE SystemInv'
  OBVIOUS
<1>0. SystemTypeOK /\ Inv /\ Fresh /\ RunsInside /\ PrintedUpTo /\ WholeRest
  BY DEF SystemInv
<1>1. sizes' = sizes /\ chunk' = chunk /\ printed' = printed /\ state' = state
  BY DEF ReadRuns
<1>2. /\ pc = "return" /\ pc' = "idle" /\ size' = size /\ nbytes' = nbytes
      /\ data_read' = data_read /\ buf' = buf
      /\ IF file_position + data_read > size
         THEN file_position' = 0 /\ result' = 0
         ELSE file_position' = file_position + data_read /\ result' = data_read
  BY DEF Return
<1>3. state = "reading" /\ Len(printed) = file_position
  BY <1>0, <1>2 DEF RunsInside, PrintedUpTo
<1>4. /\ file_position \in Nat /\ size \in Nat /\ data_read \in Nat /\ chunk \in Nat
      /\ data_to_read \in Nat /\ nbytes \in Nat /\ file_position <= size
  BY <1>0, BoundsAssumption DEF SystemTypeOK, TypeOK, Inv, PositionInside
<1>5. Inv'
  BY <1>0, NextInv DEF Next
<1>6. SystemTypeOK'
  BY <1>0, <1>1, <1>5 DEF SystemTypeOK, Inv
<1>7. Fresh' /\ RunsInside'
  BY <1>0, <1>1, <1>2, <1>3 DEF Fresh, RunsInside
<1>8. PrintedUpTo'
  <2>1. ASSUME result' > 0
        PROVE  /\ data_read' = result'
               /\ Len(printed') + result' = file_position'
               /\ \A i \in 0 .. result' - 1 : buf'[i] = Address(Len(printed') + i)
    <3>1. file_position' = file_position + data_read /\ result' = data_read
      BY <1>2, <2>1
    <3>2. \A i \in 0 .. data_read - 1 : buf[i] = Address(file_position + i)
      BY <1>0, <1>2, BufferIs DEF Inv
    <3> QED  BY <1>1, <1>2, <1>3, <3>1, <3>2
  <2> QED  BY <1>0, <1>1, <1>2, <1>3, <2>1 DEF PrintedUpTo, Address
<1>9. WholeRest'
  <2> SUFFICES ASSUME WholeReads'
               PROVE  /\ result' > 0 => \E k \in Nat :
                                           size' = file_position' + k * Wanted(chunk)'
                      /\ result' = 0 => Len(printed') = size'
    BY <1>1, <1>2, <1>3 DEF WholeRest
  <2>1. WholeReads /\ chunk > 0 /\ nbytes = chunk
    BY <1>0, <1>1, <1>2, <1>3 DEF WholeReads, RunsInside
  <2> DEFINE W == Wanted(chunk)
  <2>2. Wanted(chunk)' = W /\ W \in Nat /\ data_to_read = W /\ (size > 0 => W > 0)
    BY <1>0, <1>1, <1>2, <1>4, <2>1 DEF Wanted, Inv, Call0
  <2>3. PICK k \in Nat : size = file_position + k * W
    BY <1>0, <1>2, <1>3, <2>1 DEF WholeRest
  <2> HIDE DEF W
  <2>4. CASE file_position = size
    <3>1. data_read = 0
      BY <1>0, <1>2, <1>4, <2>4 DEF RunsInside
    <3>2. result' = 0
      BY <1>2, <1>4, <2>4, <3>1
    <3> QED  BY <1>1, <1>2, <1>3, <2>4, <3>2
  <2>5. CASE file_position < size
    <3>1. data_read = W
      BY <1>0, <1>2, <1>4, <2>2, <2>5 DEF Inv, Call0
    <3>2. k # 0
      BY <1>4, <2>2, <2>3, <2>5
    <3>3. k - 1 \in Nat /\ k * W = (k - 1) * W + W /\ (k - 1) * W \in Nat
      BY <2>2, <2>3, <3>2, OneRead
    <3>4. file_position + W <= size /\ size = (file_position + W) + (k - 1) * W
      <4> DEFINE rest == (k - 1) * W
      <4>1. rest \in Nat /\ size = file_position + (rest + W)
        BY <2>3, <3>3
      <4> HIDE DEF rest
      <4>2. file_position + W <= size /\ size = (file_position + W) + rest
        BY <1>4, <2>2, <4>1
      <4> QED  BY <4>2 DEF rest
    <3>5. file_position' = file_position + W /\ result' = W /\ W > 0
      BY <1>2, <1>4, <2>2, <2>5, <3>1, <3>4
    <3>6. size' = file_position' + (k - 1) * W
      BY <1>2, <3>4, <3>5
    <3>7. \E j \in Nat : size' = file_position' + j * Wanted(chunk)'
      <4>1. size' = file_position' + (k - 1) * Wanted(chunk)'
        BY <2>2, <3>6, Zenon
      <4> QED  BY <3>3, <4>1, Zenon
    <3>8. result' # 0
      BY <2>2, <3>5
    <3> QED  BY <3>7, <3>8, Zenon
  <2> QED  BY <1>4, <2>4, <2>5
<1> QED  BY <1>5, <1>6, <1>7, <1>8, <1>9 DEF SystemInv

\* The program prints what the read returned.
LEMMA WriteOutInv == SystemInv /\ WriteOut => SystemInv'
<1> SUFFICES ASSUME SystemInv, WriteOut  PROVE SystemInv'
  OBVIOUS
<1>0. SystemTypeOK /\ Inv /\ Fresh /\ RunsInside /\ PrintedUpTo /\ WholeRest
  BY DEF SystemInv
<1>1. /\ size' = size /\ file_position' = file_position /\ pc' = pc /\ nbytes' = nbytes
      /\ data_to_read' = data_to_read /\ data_read' = data_read /\ buf' = buf
      /\ data_block_num' = data_block_num
      /\ result' = result /\ sizes' = sizes /\ chunk' = chunk
      /\ state = "reading" /\ pc = "idle"
      /\ state' = (IF result = 0 THEN "done" ELSE "read")
  BY DEF WriteOut, vars
<1> DEFINE out == [i \in 1 .. result |-> buf[i - 1]]
<1>2. printed' = printed \o out
  BY DEF WriteOut
<1>3. /\ result \in Nat /\ printed \in Seq(Nat \X Nat) /\ Len(printed) \in Nat
      /\ buf \in [0 .. data_read - 1 -> Nat \X Nat]
  BY <1>0 DEF SystemTypeOK, TypeOK
<1>4. result > 0 => /\ data_read = result
                    /\ Len(printed) + result = file_position
                    /\ \A i \in 0 .. result - 1 : buf[i] = Address(Len(printed) + i)
  BY <1>0, <1>1 DEF PrintedUpTo
<1>5. out \in Seq(Nat \X Nat) /\ Len(out) = result
      /\ \A i \in 1 .. result : out[i] = Address(Len(printed) + i - 1)
  <2>1. ASSUME NEW i \in 1 .. result
        PROVE  buf[i - 1] \in Nat \X Nat /\ buf[i - 1] = Address(Len(printed) + i - 1)
    <3>1. result > 0 /\ i - 1 \in 0 .. result - 1
      BY <1>3
    <3>2. Len(printed) + (i - 1) = Len(printed) + i - 1
      BY <1>3
    <3> QED  BY <1>3, <1>4, <3>1, <3>2
  <2>2. out \in [1 .. result -> Nat \X Nat]
    BY <2>1
  <2>3. out \in Seq(Nat \X Nat)
    BY <1>3, <2>2, SeqDef
  <2>4. Len(out) = result
    BY <1>3, <2>2, <2>3
  <2> QED  BY <2>1, <2>3, <2>4
<1> HIDE DEF out
<1>6. /\ printed' \in Seq(Nat \X Nat)
      /\ Len(printed') = Len(printed) + result
      /\ \A i \in 1 .. Len(printed) + result : printed'[i] =
           IF i <= Len(printed) THEN printed[i] ELSE out[i - Len(printed)]
  BY <1>2, <1>3, <1>5, ConcatProperties
<1>7. Inv'
  <2>1. UNCHANGED vars
    BY DEF WriteOut
  <2> QED  BY <1>0, <2>1, NextInv
<1>8. SystemTypeOK'
  BY <1>0, <1>1, <1>6, <1>7 DEF SystemTypeOK, Inv
<1>9. Fresh' /\ RunsInside'
  BY <1>1 DEF Fresh, RunsInside
<1>10. PrintedUpTo'
  <2>1. ASSUME NEW i \in 1 .. Len(printed')  PROVE printed'[i] = Address(i - 1)
    <3>1. CASE i <= Len(printed)
      <4>1. i \in 1 .. Len(printed) /\ printed'[i] = printed[i]
        BY <1>3, <1>6, <3>1
      <4> QED  BY <1>0, <4>1 DEF PrintedUpTo
    <3>2. CASE ~(i <= Len(printed))
      <4>1. i - Len(printed) \in 1 .. result
            /\ Len(printed) + (i - Len(printed)) - 1 = i - 1
        BY <1>3, <1>6, <3>2
      <4>2. printed'[i] = out[i - Len(printed)]
        BY <1>6, <3>2
      <4> QED  BY <1>5, <4>1, <4>2
    <3> QED  BY <3>1, <3>2
  <2>2. state' = "read" => Len(printed') = file_position'
    BY <1>1, <1>3, <1>4, <1>6
  <2>3. \A i \in 1 .. Len(printed') : printed'[i] = Address(i - 1)'
    BY <2>1 DEF Address
  <2> QED  BY <1>1, <2>2, <2>3 DEF PrintedUpTo
<1>11. WholeRest'
  <2>1. Wanted(chunk)' = Wanted(chunk) /\ WholeReads' = WholeReads
    BY <1>1 DEF Wanted, WholeReads
  <2>2. result = 0 => Len(printed') = Len(printed)
    BY <1>3, <1>6
  <2> QED  BY <1>0, <1>1, <1>3, <2>1, <2>2 DEF WholeRest
<1> QED  BY <1>7, <1>8, <1>9, <1>10, <1>11 DEF SystemInv

\* The invariant of the program holds of every behaviour.
THEOREM SystemInvCorrect == SystemSpec => []SystemInv
<1>1. SystemInv /\ [SystemNext]_fileVars => SystemInv'
  <2> SUFFICES ASSUME SystemInv, [SystemNext]_fileVars  PROVE SystemInv'
    OBVIOUS
  <2>1. CASE UNCHANGED fileVars
    <3>1. UNCHANGED vars /\ Inv
      BY <2>1 DEF fileVars, SystemInv
    <3>2. Inv'
      BY <3>1, NextInv
    <3>3. SystemTypeOK'
      BY <2>1, <3>2 DEF fileVars, SystemInv, SystemTypeOK, Inv
    <3>4. Fresh' /\ RunsInside' /\ PrintedUpTo'
      BY <2>1 DEF fileVars, vars, SystemInv, Fresh, RunsInside, PrintedUpTo, Address
    <3>5. WholeRest'
      BY <2>1 DEF fileVars, vars, SystemInv, WholeRest, WholeReads, Wanted
    <3> QED  BY <3>2, <3>3, <3>4, <3>5 DEF SystemInv
  <2> QED  BY <2>1, OpenInv, ReadNextInv, MemcpyInv, ReturnInv, WriteOutInv DEF SystemNext
<1> QED  BY <1>1, SystemInitInv, PTL DEF SystemSpec

\* Whatever the lengths of its reads, cat or grep writes a beginning of the file, each
\* byte once, and the whole file if it is read in one chunk or in whole chunks.
THEOREM PrintsFileCorrect == SystemSpec => []PrintsFile
<1>1. SystemInv => PrintsFile
  BY DEF SystemInv, PrintsFile, PrintedUpTo, WholeRest, WholeReads, Address
<1> QED  BY <1>1, SystemInvCorrect, PTL

\* The reads of such a program are bounded, contiguous and complete, and the position
\* stays inside the file.
THEOREM ProgramReadsCorrect ==
  SystemSpec => [](Bounded /\ Contiguous /\ CompleteInside /\ PositionInside)
<1>1. SystemInv => Bounded /\ Contiguous /\ CompleteInside /\ PositionInside
  BY DEF SystemInv, Inv, CompleteInside, Call0, Wanted, TypeOK
<1> QED  BY <1>1, SystemInvCorrect, PTL

\* A program finds every file that a listing shows.
THEOREM ListedOpensCorrect == SystemSpec => []ListedOpens
<1>1. ListedOpens
  BY EveryListedOpensCorrect DEF ListedOpens
<1> QED  BY <1>1, PTL

\* The program that a command names is the one that starts, with its arguments.
THEOREM CommandRunsCorrect == SystemSpec => []CommandRuns
<1>1. CommandRuns
  BY EveryCommandRunsCorrect DEF CommandRuns
<1> QED  BY <1>1, PTL
=============================================================================
