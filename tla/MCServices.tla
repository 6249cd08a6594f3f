----------------------------- MODULE MCServices -----------------------------
(***************************************************************************)
(* The keyboard and the files of DOS in one run.  They share no state, so  *)
(* a behaviour is one of either, the other one at rest: part says whose.   *)
(***************************************************************************)
EXTENDS MCKeyboard, MCDosFiles

VARIABLE part

\* The files at rest are in one of their initial states.
FilesRest ==
  /\ present = {}
  /\ pathSet = FALSE
  /\ FilesInit

ServicesInit ==
  \/ part = "keyboard" /\ KeyInit /\ FilesRest
  \/ part = "files" /\ KeyInit /\ FilesInit

KeyboardStep == part = "keyboard" /\ KeyNext /\ UNCHANGED <<part, filesVars>>
FilesStep == part = "files" /\ FilesNext /\ UNCHANGED <<part, keyVars>>

\* The emulator has panicked.
FilesPanicked == part = "files" /\ panicked /\ UNCHANGED <<part, keyVars, filesVars>>

ServicesNext == KeyboardStep \/ FilesStep \/ FilesPanicked

\* The fairness is that of PollingSpec: the guest waits for keys.
ServicesSpec ==
  /\ ServicesInit
  /\ [][ServicesNext]_<<part, keyVars, filesVars>>
  /\ WF_keyVars(part = "keyboard" /\ CheckKey)
  /\ SF_keyVars(part = "keyboard" /\ PolledRead)
=============================================================================
