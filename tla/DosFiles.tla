------------------------------ MODULE DosFiles ------------------------------
(***************************************************************************)
(* The files of DOS programs: the handle table of INT 21h, functions 3Dh   *)
(* (open), 3Eh (close), 3Fh (read) and 40h (write), over the life of       *)
(* several programs that are loaded into one machine, one after another.   *)
(* Files of the host come and go while a program runs.  A path may also be *)
(* a directory: it exists, it can be opened and it cannot be read.         *)
(***************************************************************************)
EXTENDS Integers, FiniteSets

CONSTANTS
  Files,        (* paths in the directory of the program                   *)
  Directories,  (* those of them that are directories                      *)
  Size,         (* per file, its length in bytes                           *)
  LastHandle,   (* the last handle; FFh in the code                        *)
  Given,        (* what a program may hold in BX                           *)
  Lengths       (* what a program may ask to read                          *)

FirstHandle == 5
WordSize == 65536
Word == 0..(WordSize - 1)

ASSUME DosAssumption ==
  /\ Directories \subseteq Files
  /\ Size \in [Files -> Nat]
  /\ LastHandle \in Nat /\ LastHandle >= FirstHandle /\ LastHandle <= 255
  /\ Given \subseteq Nat
  /\ Lengths \subseteq Word

HandleRange == FirstHandle..LastHandle

VARIABLES
  handles,    (* DOS::file_handles                                         *)
  present,    (* the files that exist on the host                          *)
  pathSet,    (* DOS::program_path is not empty                            *)
  ax,         (* AX                                                        *)
  carry,      (* CF of the CPU as the handler leaves it                    *)
  fatal,      (* CPU::fatal_error: the program is over                     *)
  panicked,   (* the emulator has panicked                                 *)
  mine        (* history: per handle, the file the program that was loaded
                 last has opened it for                                    *)

filesVars == <<handles, present, pathSet, ax, carry, fatal, panicked, mine>>

Without(table, h) == [x \in DOMAIN table \ {h} |-> table[x]]
Runs == ~fatal /\ ~panicked
Panic == /\ panicked' = TRUE
         /\ UNCHANGED <<handles, present, pathSet, ax, carry, fatal, mine>>

\* A new machine, with its first program loaded from a file or from data.
FilesInit ==
  /\ handles = << >>
  /\ present \in SUBSET Files
  /\ pathSet \in BOOLEAN
  /\ ax = 0
  /\ carry = FALSE
  /\ fatal = FALSE
  /\ panicked = FALSE
  /\ mine = << >>

-----------------------------------------------------------------------------
(* The handle table. *)

Free == HandleRange \ DOMAIN handles

\* Fault: the number of open files decides on the next handle.
Lowest_Count == FirstHandle + Cardinality(DOMAIN handles)

\* The handle the loop of open_existing_file stops at.
Lowest == CHOOSE h \in Free : \A g \in Free : h <= g

With(table, h, f) ==
  [x \in DOMAIN table \cup {h} |-> IF x = h THEN f ELSE table[x]]

-----------------------------------------------------------------------------
(* INT 21h. *)

\* AH=3Dh: a path needs a program that was loaded from a file, and a handle
\* must be free, or the emulator panics.
Open(f) ==
  /\ Runs
  /\ IF ~pathSet \/ (f \in present /\ Free = {}) THEN Panic
     ELSE IF f \in present
     THEN /\ handles' = With(handles, Lowest, f)
          /\ mine' = With(mine, Lowest, f)
          /\ ax' = Lowest
          /\ carry' = FALSE
          /\ UNCHANGED <<present, pathSet, fatal, panicked>>
     ELSE /\ carry' = TRUE
          /\ ax' = 2
          /\ UNCHANGED <<handles, present, pathSet, fatal, panicked, mine>>

\* Fault: the entries of the file go, not the entry of the handle.
Close_ByPath(h) ==
  /\ Runs
  /\ handles' = [x \in {g \in DOMAIN handles :
                          h \notin DOMAIN handles \/ handles[g] # handles[h]} |-> handles[x]]
  /\ mine' = Without(mine, h)
  /\ carry' = (h \notin DOMAIN handles)
  /\ UNCHANGED <<present, pathSet, ax, fatal, panicked>>

\* AH=3Eh.
Close(h) ==
  /\ Runs
  /\ handles' = Without(handles, h)
  /\ mine' = Without(mine, h)
  /\ carry' = (h \notin DOMAIN handles)
  /\ UNCHANGED <<present, pathSet, ax, fatal, panicked>>

\* Fault: AX counts the bytes of the buffer.
BytesRead_Buffer(h, n) == n

\* How many bytes AH=3Fh reads from an open file: it opens the file anew and
\* reads from its start, so an earlier read does not count.
BytesRead(h, n) == IF n < Size[handles[h]] THEN n ELSE Size[handles[h]]

\* AH=3Fh: an unknown handle, or a file that is gone, changes nothing.
Read(h, n) ==
  /\ Runs
  /\ IF h \in DOMAIN handles /\ handles[h] \in present
     THEN IF handles[h] \in Directories /\ n > 0
          THEN Panic
          ELSE /\ ax' = BytesRead(h, n) % WordSize
               /\ carry' = FALSE
               /\ UNCHANGED <<handles, present, pathSet, fatal, panicked, mine>>
     ELSE UNCHANGED filesVars

\* AH=48h fails always.
Allocate ==
  /\ Runs
  /\ ax' = 8
  /\ carry' = TRUE
  /\ UNCHANGED <<handles, present, pathSet, fatal, panicked, mine>>

\* AH=49h and AH=4Ah always succeed.
FreeOrResize ==
  /\ Runs
  /\ carry' = FALSE
  /\ UNCHANGED <<handles, present, pathSet, ax, fatal, panicked, mine>>

\* AH=00h, 31h, 4Ch and INT 20h: the table stays as it is.
Exit ==
  /\ Runs
  /\ fatal' = TRUE
  /\ UNCHANGED <<handles, present, pathSet, ax, carry, panicked, mine>>

-----------------------------------------------------------------------------
(* The host. *)

\* A program is loaded, from a file or from data, after a hard reset: the
\* CPU is new and the table is not.
Load ==
  /\ ~panicked
  /\ pathSet' \in {TRUE, pathSet}
  /\ ax' = 0
  /\ carry' = FALSE
  /\ fatal' = FALSE
  /\ mine' = << >>
  /\ UNCHANGED <<handles, present, panicked>>

\* The buttons of the debugger window clear the flag and run on.
Resume ==
  /\ ~panicked
  /\ fatal /\ pathSet
  /\ fatal' = FALSE
  /\ UNCHANGED <<handles, present, pathSet, ax, carry, panicked, mine>>

\* A file appears or disappears.
HostFile(f) ==
  /\ ~panicked
  /\ present' = IF f \in present THEN present \ {f} ELSE present \cup {f}
  /\ UNCHANGED <<handles, pathSet, ax, carry, fatal, panicked, mine>>

FilesNext ==
  \/ \E f \in Files : Open(f)
  \/ \E h \in Given : Close(h)
  \/ \E h \in Given, n \in Lengths : Read(h, n)
  \/ Allocate
  \/ FreeOrResize
  \/ Exit
  \/ Load
  \/ Resume
  \/ \E f \in Files : HostFile(f)

FilesSpec == FilesInit /\ [][FilesNext]_filesVars

-----------------------------------------------------------------------------
(* Properties. *)

\* Every variable has its type: the table and the program's view of it map
\* handles to files, AX is a word.
TypeOK ==
  /\ DOMAIN handles \subseteq HandleRange
  /\ \A h \in DOMAIN handles : handles[h] \in Files
  /\ handles = [h \in DOMAIN handles |-> handles[h]]
  /\ DOMAIN mine \subseteq HandleRange
  /\ \A h \in DOMAIN mine : mine[h] \in Files
  /\ present \subseteq Files
  /\ pathSet \in BOOLEAN
  /\ ax \in Word
  /\ carry \in BOOLEAN
  /\ fatal \in BOOLEAN
  /\ panicked \in BOOLEAN

\* A handle that AH=3Dh gave to the program is in the table, for the very
\* file it was opened for, until the program closes it: nothing the program
\* does with other handles, no file that goes away and no handle that an
\* earlier program has left open takes it or gives it to another file
\* (open_existing_file, AH=3Eh).
HandlesHold ==
  \A h \in DOMAIN mine : h \in DOMAIN handles /\ handles[h] = mine[h]

\* A handle the program is given was in use by nobody, neither by itself nor
\* left open by a program before it, and it is the one in AX; a handle in use
\* goes on naming its file until it is closed (open_existing_file stops at
\* the first free number).
NewHandleWasFree ==
  [][/\ \A h \in DOMAIN mine' \ DOMAIN mine : h \notin DOMAIN handles /\ ax' = h
     /\ \A h \in DOMAIN handles \cap DOMAIN handles' : handles'[h] = handles[h]]_filesVars

\* AH=3Fh on a handle the program holds tells it how many bytes of its file
\* it got: as many as it asked for, or as many as the file has; no other
\* program's file is read in its place.
ReadTellsBytes ==
  [][\A h \in Given, n \in Lengths :
       (Read(h, n) /\ h \in DOMAIN mine /\ mine[h] \in present /\ ~panicked')
         => /\ ax' <= n /\ ax' <= Size[mine[h]]
            /\ ax' \in {n, Size[mine[h]]}
            /\ ~carry']_filesVars

=============================================================================
