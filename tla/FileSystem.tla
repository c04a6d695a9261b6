----------------------------- MODULE FileSystem -----------------------------
(***************************************************************************)
(* A program that reads a file from beginning to end, as cat and grep do:  *)
(* it opens the file by its name (FileNames), calls read until that        *)
(* returns 0, and writes what each read returned.  The reads themselves    *)
(* are those of FileRead.                                                  *)
(***************************************************************************)
EXTENDS FileRead, FileNames

CONSTANTS Names      \* the directory: a sequence of names

ASSUME DirectoryAssumption == Names \in Directories /\ Names # <<>>

VARIABLES
  sizes,        \* length of each file, in the order of the directory
  chunk,        \* nbytes of the program's reads; 0 if they vary, as those of grep do
  state,        \* "start", "read", "reading", "done" or "failed"
  printed       \* the bytes written so far: their addresses, in order

fileVars == <<vars, sizes, chunk, state, printed>>

SystemTypeOK ==
  /\ TypeOK
  /\ sizes \in [1 .. Len(Names) -> 0 .. MaxSize]
  /\ chunk \in 0 .. MaxBytes
  /\ state \in {"start", "read", "reading", "done", "failed"}
  /\ printed \in Seq(Nat \X Nat)

SystemInit ==
  /\ Init
  /\ size = 0
  /\ sizes \in [1 .. Len(Names) -> 0 .. MaxSize]
  /\ chunk \in 0 .. MaxBytes
  /\ state = "start"
  /\ printed = <<>>

\* open(name): the position is 0.  (The inode says where the file is and how long.)
OpenFile(name) ==
  LET i == open_lookup(Names, name \o <<NUL>>)
  IN /\ state = "start"
     /\ IF i = -1 THEN state' = "failed" /\ UNCHANGED size
                  ELSE state' = "read" /\ size' = sizes[i + 1]
     /\ UNCHANGED <<file_position, pc, nbytes, data_to_read, data_read, data_block_num,
                    buf, result, sizes, chunk, printed>>

\* The program calls read.
ReadNext ==
  /\ state = "read"
  /\ \E n \in 0 .. MaxBytes : (chunk = 0 \/ n = chunk) /\ Call(n)
  /\ state' = "reading"
  /\ UNCHANGED <<sizes, chunk, printed>>

\* The read runs.
ReadRuns ==
  /\ First \/ Middle \/ LoopEnds \/ Last \/ Return
  /\ UNCHANGED <<sizes, chunk, state, printed>>

\* read has returned: the program writes the bytes, or ends at the end of the file.
WriteOut ==
  /\ state = "reading" /\ pc = "idle"
  /\ state' = IF result = 0 THEN "done" ELSE "read"
  /\ printed' = printed \o [i \in 1 .. result |-> buf[i - 1]]
  /\ UNCHANGED <<vars, sizes, chunk>>

SystemNext ==
  \/ \E name \in Words(NameLen + 1) : OpenFile(name)
  \/ ReadNext
  \/ ReadRuns
  \/ WriteOut

SystemSpec == SystemInit /\ [][SystemNext]_fileVars

\* The program goes on until it is done.
FairSystemSpec == SystemSpec /\ WF_fileVars(SystemNext)

-----------------------------------------------------------------------------
(* Properties *)

\* Whatever its reads are, the program writes a beginning of the file, each byte
\* once; and all of it, if the file is read in one chunk, or in whole chunks.
PrintsFile ==
  /\ \A i \in 1 .. Len(printed) :
       printed[i] = <<(i - 1) \div BlockSize, (i - 1) % BlockSize>>
  /\ state = "done" /\ chunk > 0 /\ (size <= chunk \/ size % chunk = 0)
       => Len(printed) = size

\* A program finds every file that a listing of the directory shows (dir_read and
\* open, for every directory within the bounds).
ListedOpens == state = "start" => EveryListedOpens

\* The program that a command names is the one that starts, and it gets the arguments
\* that follow the name (execute, for every directory and command within the bounds).
CommandRuns == state = "start" => EveryCommandRuns

\* The program ends.
ProgramEnds == <>(state \in {"done", "failed"})
=============================================================================
