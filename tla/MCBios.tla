------------------------------- MODULE MCBios -------------------------------
(***************************************************************************)
(* Software interrupts and the screen in one run.  They share no state, so *)
(* a behaviour is one of either, the other one at rest: part says whose.   *)
(***************************************************************************)
EXTENDS MCInterrupts, MCScreen

VARIABLE part

BiosInit == part \in {"interrupts", "screen"} /\ Init /\ ScreenInit

InterruptStep == part = "interrupts" /\ Next /\ UNCHANGED <<part, screenVars>>
ScreenStep == part = "screen" /\ ScreenNext /\ UNCHANGED <<part, vars>>

BiosNext == InterruptStep \/ ScreenStep

BiosSpec == BiosInit /\ [][BiosNext]_<<part, vars, screenVars>>
=============================================================================
