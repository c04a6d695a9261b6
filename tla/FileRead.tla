------------------------------ MODULE FileRead ------------------------------
(***************************************************************************)
(* Reading a file through a descriptor: file_read and the block loop of    *)
(* read_data (filesystem.c).  A file of size bytes lies in data blocks of  *)
(* BlockSize bytes.  A byte is represented by where it lies: <<n, j>> is   *)
(* byte j of the n-th block in the file's inode, so buf holds addresses    *)
(* and a misplaced byte shows.                                             *)
(*                                                                         *)
(* read_data copies the rest of the first block, then whole blocks, then   *)
(* the rest: one action per memcpy.                                        *)
(***************************************************************************)
EXTENDS Integers

CONSTANTS BlockSize,   \* block_size (4096 in the code)
          MaxSize,     \* bound on the size of a file
          MaxBytes     \* bound on the nbytes of a read

ASSUME BlockAssumption == BlockSize \in Nat \ {0}
ASSUME BoundsAssumption == MaxSize \in Nat /\ MaxBytes \in Nat

VARIABLES
  size,             \* inode_length: length of the file
  file_position,    \* of the descriptor; offset while a read runs
  pc,               \* next memcpy of the read that runs, or "idle"
  nbytes,           \* length asked for
  data_to_read, data_read, data_block_num,
  buf,              \* what has been copied so far
  result            \* what the last read returned

vars == <<size, file_position, pc, nbytes, data_to_read, data_read, data_block_num,
          buf, result>>

TypeOK ==
  /\ size \in Nat
  /\ file_position \in Nat
  /\ pc \in {"idle", "first", "middle", "last", "return"}
  /\ nbytes \in Nat
  /\ data_to_read \in Nat
  /\ data_read \in Nat
  /\ data_block_num \in Nat
  /\ buf \in [0 .. data_read - 1 -> Nat \X Nat]
  /\ result \in Nat

\* open has found a file and set the position to 0.
Init ==
  /\ size \in 0 .. MaxSize
  /\ file_position = 0
  /\ pc = "idle"
  /\ nbytes = 0
  /\ data_to_read = 0
  /\ data_read = 0
  /\ data_block_num = 0
  /\ buf = [i \in {} |-> <<0, 0>>]
  /\ result = 0

\* The smaller of what is asked for and the length of the file.  (The offset is
\* not taken into account.)
Wanted(n) == IF n <= size THEN n ELSE size

\* memcpy(&buf[data_read], ..., n) from position j of block b.
Appended(b, j, n) ==
  [i \in 0 .. (data_read + n) - 1 |->
     IF i < data_read THEN buf[i] ELSE <<b, j + (i - data_read)>>]

\* file_read calls read_data, which returns 0 at once at the end of the file.
Call(n) ==
  /\ pc = "idle"
  /\ nbytes' = n
  /\ data_read' = 0
  /\ buf' = [i \in {} |-> <<0, 0>>]
  /\ data_to_read' = Wanted(n)
  /\ data_block_num' = file_position \div BlockSize
  /\ pc' = IF file_position >= size THEN "return" ELSE "first"
  /\ UNCHANGED <<size, file_position, result>>

\* What is left of the first block, or what is wanted if that is less.
FirstPart ==
  LET rest == (data_block_num + 1) * BlockSize - file_position
  IN IF rest > data_to_read THEN data_to_read ELSE rest

\* The first memcpy.
First ==
  /\ pc = "first"
  /\ buf' = Appended(data_block_num, file_position % BlockSize, FirstPart)
  /\ data_read' = FirstPart
  /\ pc' = "middle"
  /\ UNCHANGED <<size, file_position, nbytes, data_to_read, data_block_num, result>>

\* Mutant: a whole block is copied as soon as anything is left.
MiddleTooFar ==
  /\ pc = "middle"
  /\ data_to_read > data_read
  /\ data_block_num' = data_block_num + 1
  /\ buf' = Appended(data_block_num + 1, 0, BlockSize)
  /\ data_read' = data_read + BlockSize
  /\ UNCHANGED <<size, file_position, pc, nbytes, data_to_read, result>>

\* Mutant: the block number is not advanced.
MiddleSameBlock ==
  /\ pc = "middle"
  /\ data_to_read - data_read >= BlockSize
  /\ buf' = Appended(data_block_num, 0, BlockSize)
  /\ data_read' = data_read + BlockSize
  /\ UNCHANGED <<size, file_position, pc, nbytes, data_to_read, data_block_num, result>>

\* Mutant: the loop copies a block and updates no counter.
MiddleNoProgress ==
  /\ pc = "middle"
  /\ data_to_read - data_read >= BlockSize
  /\ UNCHANGED vars

\* One turn of the loop: a whole block.
Middle ==
  /\ pc = "middle"
  /\ data_to_read - data_read >= BlockSize
  /\ data_block_num' = data_block_num + 1
  /\ buf' = Appended(data_block_num + 1, 0, BlockSize)
  /\ data_read' = data_read + BlockSize
  /\ UNCHANGED <<size, file_position, pc, nbytes, data_to_read, result>>

\* The loop ends.
LoopEnds ==
  /\ pc = "middle"
  /\ data_to_read - data_read < BlockSize
  /\ pc' = "last"
  /\ UNCHANGED <<size, file_position, nbytes, data_to_read, data_read,
                 data_block_num, buf, result>>

\* Mutant: what is left after the whole blocks is forgotten.
LastSkipped ==
  /\ pc = "last"
  /\ pc' = "return"
  /\ UNCHANGED <<size, file_position, nbytes, data_to_read, data_read,
                 data_block_num, buf, result>>

\* The last memcpy, if anything is left.
Last ==
  /\ pc = "last"
  /\ pc' = "return"
  /\ IF data_to_read > data_read
     THEN /\ data_block_num' = data_block_num + 1
          /\ buf' = Appended(data_block_num + 1, 0, data_to_read - data_read)
          /\ data_read' = data_to_read
     ELSE UNCHANGED <<data_block_num, buf, data_read>>
  /\ UNCHANGED <<size, file_position, nbytes, data_to_read, result>>

\* Mutant: the position is advanced without the test for the end of the file.
ReturnPastEnd ==
  /\ pc = "return"
  /\ pc' = "idle"
  /\ file_position' = file_position + data_read /\ result' = data_read
  /\ UNCHANGED <<size, nbytes, data_to_read, data_read, data_block_num, buf>>

\* Mutant: a read up to the end of the file is taken for one beyond it.
ReturnAtEnd ==
  /\ pc = "return"
  /\ pc' = "idle"
  /\ IF file_position + data_read >= size
     THEN file_position' = 0 /\ result' = 0
     ELSE file_position' = file_position + data_read /\ result' = data_read
  /\ UNCHANGED <<size, nbytes, data_to_read, data_read, data_block_num, buf>>

\* Back in file_read: advance the position.  Beyond the end it starts again at 0
\* and the read returns 0.
Return ==
  /\ pc = "return"
  /\ pc' = "idle"
  /\ IF file_position + data_read > size
     THEN file_position' = 0 /\ result' = 0
     ELSE file_position' = file_position + data_read /\ result' = data_read
  /\ UNCHANGED <<size, nbytes, data_to_read, data_read, data_block_num, buf>>

Next ==
  \/ \E n \in 0 .. MaxBytes : Call(n)
  \/ First
  \/ Middle
  \/ LoopEnds
  \/ Last
  \/ Return

Spec == Init /\ [][Next]_vars

-----------------------------------------------------------------------------
(* Properties *)

\* Nothing is copied beyond the caller's nbytes, and data_to_read - data_read,
\* which is unsigned in the code, never goes below zero.
Bounded == data_read <= data_to_read /\ data_to_read <= nbytes

\* The bytes copied are consecutive bytes of the file, beginning at the
\* position, across all block boundaries.
Contiguous ==
  pc # "idle" =>
    \A i \in 0 .. data_read - 1 :
      /\ buf[i][2] < BlockSize
      /\ buf[i][1] * BlockSize + buf[i][2] = file_position + i

\* A read that stays within the file returns all it was asked for; so execute,
\* which reads file_size bytes at offset 0, loads the whole program.
CompleteInside ==
  pc = "return" /\ file_position + nbytes <= size /\ file_position < size
    => data_read = nbytes

\* The position stays within the file, whatever sequence of reads.
PositionInside == file_position <= size

(* What the comments of the code say, and the code does not do *)

\* syscall.c:166 "return the number of bytes read".
ReturnsBytesRead == [][Return => result' = data_read]_vars
=============================================================================
