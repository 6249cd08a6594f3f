----------------------------- MODULE MCKeyboard -----------------------------
(* An instance of Keyboard for TLC: a letter, a key whose code depends on   *)
(* shift, the keypad key that has none without it, and a shift key.         *)
EXTENDS Keyboard

MCKeycodes == {"A", "F1", "KpClearEntry", "LShift"}
MCModifiers == {"NOMOD", "LSHIFTMOD", "LCTRLMOD"}
MCNormal == [c \in MCKeycodes |-> CASE c = "A" -> 30 [] c = "F1" -> 59 [] OTHER -> 0]
MCShifted ==
  [c \in MCKeycodes |->
     CASE c = "A" -> 30 [] c = "F1" -> 84 [] c = "KpClearEntry" -> 76 [] OTHER -> 0]
=============================================================================
