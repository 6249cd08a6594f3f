------------------------------- MODULE KeyBag -------------------------------
(***************************************************************************)
(* What the keyboard promises its guest: every key press is reported once, *)
(* with the code of the key that was pressed, in no particular order.      *)
(***************************************************************************)
EXTENDS Naturals

CONSTANTS
  Keys,      (* key presses: a keycode with its modifiers                 *)
  Codes,     (* what a guest is told of a key press                       *)
  Code(_)    (* the code of a key press                                   *)

VARIABLES
  pending,   (* how many presses of each key have not been reported       *)
  told       (* how many reports of each code the guest has got           *)

Put(k) ==
  /\ pending' = [pending EXCEPT ![k] = @ + 1]
  /\ UNCHANGED told

Take(k) ==
  /\ pending[k] > 0
  /\ pending' = [pending EXCEPT ![k] = @ - 1]
  /\ told' = [told EXCEPT ![Code(k)] = @ + 1]

Init ==
  /\ pending = [k \in Keys |-> 0]
  /\ told = [c \in Codes |-> 0]

Next == \E k \in Keys : Put(k) \/ Take(k)

Spec == Init /\ [][Next]_<<pending, told>>
=============================================================================
