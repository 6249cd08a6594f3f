----------------------------- MODULE MCDebugger -----------------------------
(* An instance of Debugger for TLC: two places in the code, two bytes.       *)
EXTENDS Debugger

MCCode == {0, 1}
MCData == {10, 11}
MCValues == {0, 1}
=============================================================================
