------------------------------ MODULE Debugger ------------------------------
(***************************************************************************)
(* The debugger: breakpoints on CS:IP, breakpoints on bytes of memory, and *)
(* the commands that run the machine until one of them is hit.  Of the     *)
(* machine it sees CS:IP as a flat address, memory, and fatal_error; an    *)
(* instruction may do anything to the three.                               *)
(***************************************************************************)
EXTENDS Integers, Sequences

CONSTANTS
  Code,      (* flat addresses CS:IP can have                              *)
  Data,      (* the addresses of the bytes that can be watched             *)
  Values,    (* the contents of a byte                                     *)
  Unseen,    (* not a content: the byte has never been compared            *)
  MaxCount   (* bound: the largest n of "step into n"                      *)

ASSUME DebuggerAssumption ==
  /\ Code \subseteq Nat /\ 0 \in Code
  /\ Data \subseteq Nat
  /\ Unseen \notin Values
  /\ MaxCount \in Nat

VARIABLES
  ip,        (* the flat address of CS:IP                                  *)
  mem,       (* memory                                                     *)
  fatal,     (* CPU::fatal_error                                           *)
  ipBps,     (* Debugger::ip_breakpoints                                   *)
  memBps,    (* MemoryBreakpoints::breakpoints                             *)
  map,       (* MemoryBreakpoints::map, Unseen where it has no entry       *)
  mode,      (* the command that is running, "idle" between commands       *)
  left,      (* what is left of the count of "step into"                   *)
  dst,       (* where "step over" runs to                                  *)
  ran        (* history: the running command has executed an instruction   *)

debuggerVars == <<ip, mem, fatal, ipBps, memBps, map, mode, left, dst, ran>>
machine == <<ip, mem, fatal>>
watches == <<ipBps, memBps, map>>
command == <<mode, left, dst, ran>>

-----------------------------------------------------------------------------
(* The lists. *)

In(s, a) == \E i \in 1..Len(s) : s[i] = a

\* Fault: add does not look whether the address is there.
Add_Always(s, a) == Append(s, a)

\* Breakpoints::add and MemoryBreakpoints::add.
Add(s, a) == IF In(s, a) THEN s ELSE Append(s, a)

\* remove: the first entry equal to a.
Remove(s, a) ==
  IF ~In(s, a) THEN s
  ELSE LET pos == CHOOSE i \in 1..Len(s) : s[i] = a /\ \A j \in 1..(i - 1) : s[j] # a
       IN  [i \in 1..(Len(s) - 1) |-> IF i < pos THEN s[i] ELSE s[i + 1]]

\* MemoryBreakpoints::has_changed when the byte holds v: no entry, no change.
HasChanged(a, v) == map[a] # Unseen /\ map[a] # v

\* Fault: the loop of should_break goes on after the first changed byte.
Checked_All(m) == {a \in Data : In(memBps, a)}

\* The loop of should_break over the watched bytes, in ascending order,
\* returns at the first that has changed: those it has compared by then.
Checked(m) ==
  {a \in Data : /\ In(memBps, a)
                /\ \A b \in Data : In(memBps, b) /\ b < a => ~HasChanged(b, m[b])}

\* Fault: has_changed makes no entry for a byte it meets for the first time.
MapAfter_NoInsert(m) ==
  [a \in Data |-> IF a \in Checked(m) /\ map[a] # Unseen THEN m[a] ELSE map[a]]

\* map after that loop: has_changed stores every byte it compares.
MapAfter(m) == [a \in Data |-> IF a \in Checked(m) THEN m[a] ELSE map[a]]

\* Debugger::should_break with the machine at i, m, f: it answers b.
ShouldBreak(i, m, f, b) ==
  \/ /\ f \/ In(ipBps, i)
     /\ b = TRUE
     /\ UNCHANGED map
  \/ /\ ~f /\ ~In(ipBps, i)
     /\ b = \E a \in Data : In(memBps, a) /\ HasChanged(a, m[a])
     /\ map' = MapAfter(m)

-----------------------------------------------------------------------------
(* Commands. *)

Idle == mode = "idle"

BpAdd(a) == /\ Idle /\ ipBps' = Add(ipBps, a)
            /\ UNCHANGED <<machine, memBps, map, command>>
BpRemove(a) == /\ Idle /\ ipBps' = Remove(ipBps, a)
               /\ UNCHANGED <<machine, memBps, map, command>>
BpClear == /\ Idle /\ ipBps' = << >>
           /\ UNCHANGED <<machine, memBps, map, command>>

MembpAdd(a) == /\ Idle /\ memBps' = Add(memBps, a)
               /\ UNCHANGED <<machine, ipBps, map, command>>
MembpRemove(a) == /\ Idle /\ memBps' = Remove(memBps, a)
                  /\ UNCHANGED <<machine, ipBps, map, command>>
MembpClear == /\ Idle /\ memBps' = << >>
              /\ UNCHANGED <<machine, ipBps, map, command>>

\* Machine::hard_reset: a new CPU, the old memory.
Reset ==
  /\ Idle
  /\ ip' = 0
  /\ fatal' = FALSE
  /\ UNCHANGED <<mem, watches, command>>

\* Debugger::load_executable: a reset, then the program goes into memory.
Load(i, m) ==
  /\ Idle
  /\ ip' = i
  /\ mem' = m
  /\ fatal' = FALSE
  /\ UNCHANGED <<watches, command>>

\* A command that runs the machine; the buttons clear fatal_error first, a
\* typed command does not.
Start(kind, n, a) ==
  /\ Idle
  /\ fatal' \in {fatal, FALSE}
  /\ mode' = kind
  /\ left' = n
  /\ dst' = a
  /\ ran' = FALSE
  /\ UNCHANGED <<ip, mem, watches>>

StepInto(n) == n > 0 /\ Start("into", n, 0)
StepOver(a) == Start("over", 0, a)     \* a: the address after the instruction
RunFrame == Start("frame", 0, 0)       \* Machine::execute_frame

\* Machine::execute_instruction.
Execute(i, m, f) ==
  /\ ip' = i
  /\ mem' = m
  /\ fatal' = (fatal \/ f)
  /\ ran' = TRUE

\* One turn of the loops of step_into and step_over.
Step(i, m, f) ==
  /\ mode \in {"into", "over"}
  /\ Execute(i, m, f)
  /\ \E b \in BOOLEAN :
       /\ ShouldBreak(i, m, fatal \/ f, b)
       /\ left' = IF mode = "into" THEN left - 1 ELSE left
       /\ mode' = IF \/ b
                     \/ mode = "into" /\ left = 1
                     \/ mode = "over" /\ i = dst
                  THEN "idle" ELSE mode
  /\ UNCHANGED <<dst, ipBps, memBps>>

\* One turn of the loop of execute_frame: it asks for no breakpoint.
FrameStep(i, m, f) ==
  /\ mode = "frame"
  /\ Execute(i, m, f)
  /\ mode' \in IF fatal \/ f THEN {"idle"} ELSE {"frame", "idle"}
  /\ UNCHANGED <<left, dst, watches>>

DebuggerInit ==
  /\ ip \in Code
  /\ mem \in [Data -> Values]
  /\ fatal = FALSE
  /\ ipBps = << >> /\ memBps = << >>
  /\ map = [a \in Data |-> Unseen]
  /\ mode = "idle" /\ left = 0 /\ dst = 0 /\ ran = FALSE

Command ==
  \/ \E a \in Code : BpAdd(a) \/ BpRemove(a) \/ StepOver(a)
  \/ \E a \in Data : MembpAdd(a) \/ MembpRemove(a)
  \/ BpClear \/ MembpClear \/ Reset \/ RunFrame
  \/ \E i \in Code, m \in [Data -> Values] : Load(i, m)
  \/ \E n \in 1..MaxCount : StepInto(n)

Run == \E i \in Code, m \in [Data -> Values], f \in BOOLEAN : Step(i, m, f) \/ FrameStep(i, m, f)

DebuggerNext == Command \/ Run

DebuggerSpec == DebuggerInit /\ [][DebuggerNext]_debuggerVars

-----------------------------------------------------------------------------
(* Properties. *)

\* The types of the variables.
TypeOK ==
  /\ ip \in Code
  /\ mem \in [Data -> Values]
  /\ fatal \in BOOLEAN
  /\ ipBps \in Seq(Code)
  /\ memBps \in Seq(Data)
  /\ map \in [Data -> Values \cup {Unseen}]
  /\ mode \in {"idle", "into", "over", "frame"}
  /\ left \in 0..MaxCount
  /\ mode = "into" => left > 0
  /\ dst \in Code
  /\ ran \in BOOLEAN

NoDuplicates(s) == \A i, j \in 1..Len(s) : s[i] = s[j] => i = j

\* Removing a breakpoint really removes it: no list holds an address twice,
\* whatever sequence of adds and removes it went through.
ListsAreSets == NoDuplicates(ipBps) /\ NoDuplicates(memBps)

\* Step into and step over go on only while there is nothing to stop for: no
\* fatal error, not at a breakpoint, and no watched byte that differs from the
\* value it was last compared with, the bytes that the loop did not get to
\* after an earlier stop included.  Of frames see RunStopsAtBreakpoint.
RunsOnlyWhileQuiet ==
  mode \in {"into", "over"} /\ ran =>
    /\ ~fatal
    /\ ~In(ipBps, ip)
    /\ \A a \in Data : In(memBps, a) => map[a] = mem[a]

\* A frame does not run past a breakpoint either: the help of the debugger
\* says of the command run that it goes on "until breakpoint".  It is false of
\* the code: execute_frame asks for no breakpoint.
RunStopsAtBreakpoint == mode = "frame" /\ ran => ~In(ipBps, ip)

\* No change of a watched byte is swallowed: a stored value is replaced by a
\* different one only in a step that stops the command, and one at a time, so
\* that each difference is a stop of its own.
ChangesStopOneByOne ==
  [][\A a \in Data : map[a] # Unseen /\ map'[a] # map[a] =>
       /\ mode' = "idle"
       /\ \A b \in Data : map[b] # Unseen /\ map'[b] # map[b] => b = a]_debuggerVars
=============================================================================
