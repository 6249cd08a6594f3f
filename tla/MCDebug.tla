------------------------------ MODULE MCDebug ------------------------------
(***************************************************************************)
(* The debugger and the tracer in one run.  They share no state, so a      *)
(* behaviour is one of either, the other one at rest: part says whose.     *)
(***************************************************************************)
EXTENDS MCDebugger, MCTracer

VARIABLE part

\* The part that rests has one of its initial states.
DebuggerRests ==
  /\ ip = 0
  /\ mem = [a \in Data |-> 0]
  /\ DebuggerInit

TracerRests ==
  /\ code = [a \in Addresses |-> IF a \in Rom THEN Ins("jump", 1, NoAddress) ELSE Outside]
  /\ Init

DebugInit ==
  \/ part = "debugger" /\ DebuggerInit /\ TracerRests
  \/ part = "tracer" /\ Init /\ DebuggerRests

DebuggerStep == part = "debugger" /\ DebuggerNext /\ UNCHANGED <<part, vars>>
TracerStep == part = "tracer" /\ Next /\ UNCHANGED <<part, debuggerVars>>

\* The tracer has finished.
TracerDone == part = "tracer" /\ pc = "done" /\ UNCHANGED <<part, vars, debuggerVars>>

DebugNext == DebuggerStep \/ TracerStep \/ TracerDone

DebugSpec ==
  /\ DebugInit
  /\ [][DebugNext]_<<part, vars, debuggerVars>>
  /\ WF_<<part, vars, debuggerVars>>(TracerStep)

\* TraceEnds where the tracer runs: tracing ends for every program, loops and
\* overlaps included.
TracingEnds == <>(part = "tracer" => pc = "done")
=============================================================================
