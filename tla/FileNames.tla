------------------------------ MODULE FileNames ------------------------------
(***************************************************************************)
(* How programs name files: the directory entries in the boot block        *)
(* (filesystem.h), the search by name and the listing of names             *)
(* (filesystem.c), the string functions they use (lib.c) and the parsing   *)
(* of a command (execute of syscall.c).  A name of NameLen characters      *)
(* fills its entry and has no NUL, so each of these functions has to know  *)
(* where to stop.                                                          *)
(*                                                                         *)
(* A string is the sequence of the bytes in memory from its address on.    *)
(***************************************************************************)
EXTENDS Integers, Sequences, FiniteSetsExt

CONSTANTS NameLen,   \* bytes for a name in an entry (32 in the code)
          Searched,  \* entries that a search looks at (63 in the code)
          ArgLen,    \* bytes of execute's arg (128 in the code)
          Letters    \* characters of names

ASSUME NamesAssumption ==
  /\ NameLen \in Nat \ {0} /\ Searched \in Nat \ {0} /\ ArgLen \in Nat \ {0}
  /\ Letters \subseteq Nat \ {0, 32}

NUL == 0
Space == 32

-----------------------------------------------------------------------------
(* lib.c *)

\* s has no NUL among its first n bytes.
NoNul(s, n) == \A i \in 1 .. n : s[i] # NUL

strlen(s) == Min({i \in 1 .. Len(s) : s[i] = NUL}) - 1

\* Mutant: the last byte is not compared.
StrncmpShort(s1, s2, n) ==
  \A i \in 1 .. n - 1 : NoNul(s1, i - 1) => s1[i] = s2[i]

\* strncmp(s1, s2, n) == 0
StrncmpZero(s1, s2, n) ==
  \A i \in 1 .. n : NoNul(s1, i - 1) => s1[i] = s2[i]

\* dest after strncpy(dest, src, n): after the end of src it stores NULs.
strncpy(dest, src, n) ==
  [i \in DOMAIN dest |->
     IF i > n THEN dest[i] ELSE IF NoNul(src, i) THEN src[i] ELSE NUL]

-----------------------------------------------------------------------------
(* The directory *)

\* The sequences over S of m to n elements.
SeqsOf(S, m, n) == UNION {[1 .. k -> S] : k \in m .. n}

Words(n) == SeqsOf(Letters, 1, n)

Zeros(n) == [i \in 1 .. n |-> NUL]

\* The name of a file as it is stored in its entry.
Stored(w) == w \o Zeros(NameLen - Len(w))

\* A boot block's names: num_dentry different ones, the rest of the entries is zero.
Directories ==
  {d \in SeqsOf(Words(NameLen), 0, Searched) : IsInjective(d)}

EntryName(d, i) == IF i < Len(d) THEN Stored(d[i + 1]) ELSE Zeros(NameLen)

\* The index of the first entry with this name, -1 if there is none.
read_dentry_by_name(d, fname) ==
  LET hits == {i \in 0 .. Searched - 1 : StrncmpZero(fname, EntryName(d, i), NameLen)}
  IN IF hits = {} THEN -1 ELSE Min(hits)

\* The bytes at the copy of entry i that read_dentry_by_index makes: the name, then
\* the four bytes of the file type.
EntryBytes(d, i, type) ==
  strncpy(Zeros(NameLen), EntryName(d, i), NameLen) \o <<type>> \o Zeros(3)

\* The length dir_read returns.  The strlen of a name without NUL goes on into the
\* file type.
ListedLength(bytes) == Min({strlen(bytes), NameLen})

\* The caller's buffer after dir_read.
Listed(bytes) ==
  strncpy(Zeros(NameLen + 1), bytes, ListedLength(bytes) + 1)

\* open refuses the empty name; the entries that are not used would match it.
open_lookup(d, fname) ==
  IF strlen(fname) = 0 THEN -1 ELSE read_dentry_by_name(d, fname)

-----------------------------------------------------------------------------
(* The command *)

\* Where the first loop of execute stops.
WordEnd(command) == Min({i \in 1 .. Len(command) : command[i] \in {NUL, Space}})

\* file_name: no more than NameLen characters fit.
CommandName(command) ==
  [i \in 1 .. NameLen |-> IF i < WordEnd(command) THEN command[i] ELSE NUL]

\* No string: the copy went on behind arg into the rest of execute's stack frame.
Overrun == <<-1>>

\* Mutant: the space is taken for the first character of the arguments.
CommandArgsSpace(command) ==
  IF command[WordEnd(command)] = NUL THEN <<NUL>>
  ELSE IF strlen(command) - WordEnd(command) >= ArgLen THEN Overrun
  ELSE SubSeq(command, WordEnd(command), strlen(command)) \o <<NUL>>

\* arg: what follows the first space.  The loop that copies it does not look at the
\* size of arg, which has to hold a NUL as well.
CommandArgs(command) ==
  IF command[WordEnd(command)] = NUL THEN <<NUL>>
  ELSE IF strlen(command) - WordEnd(command) >= ArgLen THEN Overrun
  ELSE SubSeq(command, WordEnd(command) + 1, strlen(command)) \o <<NUL>>

-----------------------------------------------------------------------------
(* What the functions compute, for every directory and command within the bounds;  *)
(* FileSystem states it of a program that starts.                                  *)

\* Every name that dir_read lists, also one without NUL in its entry, opens the entry
\* it comes from: as it stands in the buffer, and cut off at the length returned,
\* as grep does; and that length is the name's.
EveryListedOpens ==
  \A d \in Directories : \A i \in 0 .. Len(d) - 1 : \A type \in 0 .. 2 :
    LET bytes == EntryBytes(d, i, type)
        n == ListedLength(bytes)
    IN /\ open_lookup(d, Listed(bytes) \o <<NUL>>) = i
       /\ open_lookup(d, SubSeq(Listed(bytes), 1, n) \o <<NUL>>) = i
       /\ n = Len(d[i + 1])

\* A command executes the file that its first word names and hands it the rest, of any
\* characters, when the rest fits in arg; and with no rest, nothing.
EveryCommandRuns ==
  \A d \in Directories : \A i \in 0 .. Len(d) - 1 :
    /\ read_dentry_by_name(d, CommandName(d[i + 1] \o <<NUL>>)) = i
    /\ CommandArgs(d[i + 1] \o <<NUL>>) = <<NUL>>
    /\ \A a \in SeqsOf(Letters \cup {Space}, 0, ArgLen - 1) :
         LET command == d[i + 1] \o <<Space>> \o a \o <<NUL>>
         IN /\ read_dentry_by_name(d, CommandName(command)) = i
            /\ CommandArgs(command) = a \o <<NUL>>
=============================================================================
