---------------------------- MODULE MCInterrupts ----------------------------
(* Instances of Interrupts for TLC: two vectors, a program and one handler. *)
EXTENDS Interrupts

MCVectors == {KEYBOARD, DOS}
MCGuestSeg == 809
MCGuestOffs == {256, 512}
MCResults == {{}, {"CF", "ZF"}}
MCHooks == {<<KEYBOARD, 512>>}
Hook == [seg |-> MCGuestSeg, off |-> 512]

NoArgument(f) == [ah |-> f, al |-> 0, dsdx |-> NoAddress]

MCRequests ==
  {NoArgument(f) : f \in {"CheckKey", "File", "Flush", "Exit"}}
    \cup {[ah |-> "GetVector", al |-> KEYBOARD, dsdx |-> NoAddress],
          [ah |-> "SetVector", al |-> KEYBOARD, dsdx |-> Hook]}
=============================================================================
