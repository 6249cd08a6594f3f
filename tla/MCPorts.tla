------------------------------ MODULE MCPorts ------------------------------
(***************************************************************************)
(* The timer and the palette in one run, the two devices behind I/O ports  *)
(* that pass words and colours byte by byte.  They share no state, so a    *)
(* behaviour is one of either, the other one at rest: part says whose.     *)
(***************************************************************************)
EXTENDS MCPit, MCPalette

VARIABLE part

PortsInit == part \in {"timer", "palette"} /\ Init /\ PaletteInit

TimerStep == part = "timer" /\ Next /\ UNCHANGED <<part, paletteVars>>
PaletteStep == part = "palette" /\ PaletteNext /\ UNCHANGED <<part, vars>>

\* The emulator has panicked.
TimerPanicked == part = "timer" /\ panicked /\ UNCHANGED <<part, vars, paletteVars>>

PortsNext == TimerStep \/ PaletteStep \/ TimerPanicked

PortsSpec ==
  /\ PortsInit
  /\ [][PortsNext]_<<part, vars, paletteVars>>
  /\ WF_scanline(part = "palette" /\ ProgressScanline)

\* RetraceComesAndGoes where the palette runs: the retrace bits of port 3DAh
\* come and go again and again, whatever modes are set meanwhile.
RetraceAlternates ==
  /\ []<>(part = "palette" => Retrace)
  /\ []<>(part = "palette" => ~Retrace)
=============================================================================
