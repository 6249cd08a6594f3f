---------------------------- MODULE MCDosFiles ----------------------------
(***************************************************************************)
(* The instance of DosFiles for TLC: two files and a directory, three      *)
(* handles, and a program that may also name a handle nobody gave it.      *)
(***************************************************************************)
EXTENDS DosFiles

CONSTANTS short, long, dir

MCFiles == {short, long, dir}
MCDirectories == {dir}
MCSize == [f \in MCFiles |-> CASE f = short -> 1 [] f = long -> 40000 [] OTHER -> 0]
MCGiven == {1, 5, 6, 7}
MCLengths == {0, 1, 512, 65535}

=============================================================================
