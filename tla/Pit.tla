-------------------------------- MODULE Pit --------------------------------
(***************************************************************************)
(* The interval timer: three counters behind the ports 40h to 42h, their   *)
(* control word at port 43h, the time of day of INT 1Ah, which is kept in  *)
(* counter 0, and its copy in the BIOS data area at 0040:006C, refreshed   *)
(* by the CPU loop.  The operating mode of a counter is stored and never   *)
(* used, so it is left out.                                                *)
(***************************************************************************)
EXTENDS Integers

CONSTANTS
  Channels,        (* the counters in use                                  *)
  Day,             (* ticks in a day; 18_00B0h in the code                 *)
  CountSize,       (* number of values of Timer::count; 2^32 in the code   *)
  OverflowChecks,  (* the build panics on arithmetic overflow              *)
  Deterministic,   (* the machine is Machine::deterministic                *)
  InitTimes,       (* what PIT::init may find the time of day to be        *)
  SetTimes,        (* the times the guest may set                          *)
  Bytes            (* the bytes the guest may write to a counter           *)

ByteSize == 256
WordSize == 65536
Byte == 0..(ByteSize - 1)
Word == 0..(WordSize - 1)
Count == 0..(CountSize - 1)
NoTime == -1

ASSUME PitAssumption ==
  /\ Channels \subseteq 0..2 /\ 0 \in Channels
  /\ CountSize \in Nat /\ CountSize >= WordSize
  /\ Day \in 1..CountSize
  /\ OverflowChecks \in BOOLEAN
  /\ Deterministic \in BOOLEAN
  /\ InitTimes \subseteq Count
  /\ SetTimes \subseteq Count
  /\ Bytes \subseteq Byte

AccessModes == {"Latch", "LoByteOnly", "HiByteOnly", "LoByteHiByte"}
Timer == [count : Count, reload : Word, latch : Count, hi : BOOLEAN,
          access_mode : AccessModes]
NewTimer(n) ==
  [count |-> n, reload |-> 0, latch |-> 0, hi |-> FALSE, access_mode |-> "LoByteHiByte"]

VARIABLES
  timer,          (* PIT::timer0 to timer2                                 *)
  bda,            (* the double word at 0040:006C                          *)
  clock,          (* CX:DX after the guest's last INT 1Ah: the time it was
                     told (AH=00h) or has set (AH=01h); NoTime before       *)
  deterministic,  (* CPU::deterministic                                    *)
  panicked,       (* the emulator has panicked                             *)
  lagging,        (* history: the count was set after the last update      *)
  since,          (* history: the updates since clock was told or set, up
                     to whole days; NoTime if clock is no time of day       *)
  last,           (* history: per counter, the guest's last access to it
                     and the byte, if that was the low one of a pair       *)
  latchedAt       (* history: per counter, its count at the last latch
                     command                                               *)

vars == <<timer, bda, clock, deterministic, panicked, lagging, since, last, latchedAt>>
history == <<lagging, since, last, latchedAt>>

-----------------------------------------------------------------------------
(* Timer. *)

Lo(n) == n % 256
Hi(n) == (n \div 256) % 256

\* Timer::inc, where it does not overflow or the overflow is not checked.
Inc(n) ==
  LET next == (n + 1) % CountSize IN IF next >= Day THEN 0 ELSE next

\* Fault: a latched counter is read as it runs.
Current_Live(t) == t.count

\* What Timer::get_next_u8 reads a byte of.
Current(t) == IF t.access_mode = "Latch" THEN t.latch ELSE t.count

\* Timer::get_next_u8 in the modes it handles.
NextByte(t) == IF t.hi THEN Hi(Current(t)) ELSE Lo(Current(t))

\* Fault: the high byte replaces the whole reload value.
ReloadPart_High(t, v) == IF t.hi THEN 256 * v ELSE 256 * Hi(t.reload) + v

\* Fault: the high byte is added to the reload value.
ReloadPart_Adds(t, v) == IF t.hi THEN t.reload + 256 * v ELSE 256 * Hi(t.reload) + v

\* Timer::write_reload_part in mode LoByteHiByte.
ReloadPart(t, v) == IF t.hi THEN Lo(t.reload) + 256 * v ELSE 256 * Hi(t.reload) + v

\* Timer::write_reload_part; it panics in mode Latch.
WriteReload(t, v) ==
  CASE t.access_mode = "LoByteHiByte" -> [t EXCEPT !.reload = ReloadPart(t, v), !.hi = ~@]
    [] t.access_mode = "LoByteOnly" -> [t EXCEPT !.reload = 256 * Hi(@) + v]
    [] t.access_mode = "HiByteOnly" -> [t EXCEPT !.reload = Lo(@) + 256 * v]

\* Timer::set_mode: hi stays as it is.
SetMode(t, access) ==
  IF access = "Latch" THEN [t EXCEPT !.access_mode = "Latch", !.latch = t.count]
  ELSE [t EXCEPT !.access_mode = access]

-----------------------------------------------------------------------------
(* Guest instructions, and the CPU loop. *)

Panic ==
  /\ panicked' = TRUE
  /\ UNCHANGED <<timer, bda, clock, deterministic, history>>

Access(c, op, b) == last' = [last EXCEPT ![c] = [op |-> op, byte |-> b]]

\* OUT 43h: the read-back command (channel 3) and BCD panic.
Control(c, access, bcd) ==
  /\ ~panicked
  /\ IF c = 3 \/ bcd THEN Panic
     ELSE /\ timer' = [timer EXCEPT ![c] = SetMode(@, access)]
          /\ Access(c, "command", 0)
          /\ latchedAt' = IF access = "Latch" THEN [latchedAt EXCEPT ![c] = timer[c].count]
                          ELSE latchedAt
          /\ UNCHANGED <<bda, clock, deterministic, panicked, lagging, since>>

\* IN AL, 40h + c: panics in the modes of a single byte.
InByte(c) ==
  /\ ~panicked
  /\ IF timer[c].access_mode \in {"LoByteOnly", "HiByteOnly"} THEN Panic
     ELSE /\ timer' = [timer EXCEPT ![c].hi = ~@]
          /\ IF timer[c].hi THEN Access(c, "other", 0)
             ELSE Access(c, "readLow", NextByte(timer[c]))
          /\ UNCHANGED <<bda, clock, deterministic, panicked, lagging, since, latchedAt>>

\* OUT 40h + c.
OutByte(c, v) ==
  /\ ~panicked
  /\ IF timer[c].access_mode = "Latch" THEN Panic
     ELSE /\ timer' = [timer EXCEPT ![c] = WriteReload(@, v)]
          /\ IF timer[c].access_mode # "LoByteHiByte" \/ timer[c].hi THEN Access(c, "other", 0)
             ELSE Access(c, "writeLow", v)
          /\ UNCHANGED <<bda, clock, deterministic, panicked, lagging, since, latchedAt>>

\* INT 1Ah, AH=00h.
GetTime ==
  /\ ~panicked
  /\ clock' = IF deterministic THEN 0 ELSE timer[0].count
  /\ since' = IF deterministic THEN NoTime ELSE 0
  /\ UNCHANGED <<timer, bda, deterministic, panicked, lagging, last, latchedAt>>

\* INT 1Ah, AH=01h.
SetTime(n) ==
  /\ ~panicked
  /\ timer' = [timer EXCEPT ![0].count = n]
  /\ clock' = n
  /\ lagging' = TRUE
  /\ since' = 0
  /\ UNCHANGED <<bda, deterministic, panicked, last, latchedAt>>

\* What since counts after one update more: whole days are cast off.
NextSince(k) == IF k = NoTime THEN NoTime ELSE IF k = Day THEN 1 ELSE k + 1

\* Fault: the copy is written before the tick.
Update_CopyFirst ==
  /\ ~panicked
  /\ IF OverflowChecks /\ timer[0].count = CountSize - 1 THEN Panic
     ELSE /\ timer' = [timer EXCEPT ![0].count = Inc(@)]
          /\ bda' = timer[0].count
          /\ lagging' = FALSE
          /\ since' = NextSince(since)
          /\ UNCHANGED <<clock, deterministic, panicked, last, latchedAt>>

\* Machine::execute_instruction, at every hundredth value of the cycle count:
\* PIT::update.
Update ==
  /\ ~panicked
  /\ IF OverflowChecks /\ timer[0].count = CountSize - 1 THEN Panic
     ELSE /\ timer' = [timer EXCEPT ![0].count = Inc(@)]
          /\ bda' = timer'[0].count
          /\ lagging' = FALSE
          /\ since' = NextSince(since)
          /\ UNCHANGED <<clock, deterministic, panicked, last, latchedAt>>

\* Machine::hard_reset: CPU::default, and the timers go on as they are.
HardReset ==
  /\ ~panicked
  /\ deterministic' = FALSE
  /\ UNCHANGED <<timer, bda, clock, panicked, history>>

\* Machine::deterministic; Machine::default is that and PIT::init.
Init ==
  /\ \E n \in IF Deterministic THEN {0} ELSE InitTimes :
       timer = [c \in Channels |-> NewTimer(IF c = 0 THEN n ELSE 0)]
  /\ bda = 0
  /\ clock = NoTime
  /\ deterministic = TRUE
  /\ panicked = FALSE
  /\ lagging = TRUE
  /\ since = NoTime
  /\ last = [c \in Channels |-> [op |-> "other", byte |-> 0]]
  /\ latchedAt = [c \in Channels |-> 0]

Next ==
  \/ \E c \in Channels \cup {3}, access \in AccessModes, bcd \in BOOLEAN : Control(c, access, bcd)
  \/ \E c \in Channels : InByte(c) \/ \E v \in Bytes : OutByte(c, v)
  \/ \E n \in SetTimes : SetTime(n)
  \/ GetTime \/ Update \/ HardReset

Spec == Init /\ [][Next]_vars

-----------------------------------------------------------------------------
(* Properties. *)

Ops == {"other", "command", "readLow", "writeLow"}

\* The types of the variables.
TypeOK ==
  /\ timer \in [Channels -> Timer]
  /\ bda \in Count
  /\ clock = NoTime \/ clock \in Count
  /\ deterministic \in BOOLEAN
  /\ panicked \in BOOLEAN
  /\ lagging \in BOOLEAN
  /\ since \in {NoTime} \cup 0..Day
  /\ last \in [Channels -> [op : Ops, byte : Byte]]
  /\ latchedAt \in [Channels -> Count]

\* The time of day k updates after it was t; a time past the day, which the
\* guest may set, gives way to midnight at the first of them.
TimeAfter(t, k) ==
  IF k = 0 THEN t
  ELSE LET ticks == IF t < Day THEN t + k ELSE k - 1
       IN  IF ticks < Day THEN ticks ELSE ticks - Day

\* The two clocks of a guest keep the same time.  INT 1Ah answers the double
\* word at 0040:006C, a time of the day, as soon as there was an update since
\* the time was set; and it answers the time that the guest was told, or has
\* set, by the call before and as many ticks more as there were updates since,
\* whatever port accesses and hard resets came in between.  On a machine made
\* deterministic, until its first hard reset, the answer is 0 instead.
ClockKeepsTime ==
  [][GetTime /\ ~deterministic =>
       /\ ~lagging => clock' = bda /\ clock' < Day
       /\ since # NoTime => clock' = TimeAfter(clock, since)]_vars

\* After a latch command the two bytes a guest reads of a counter, low byte
\* first, are those of one moment, that of the command, however far the
\* counter runs before and between the reads.
LatchedReadCoherent ==
  [][\A c \in Channels :
       /\ timer[c].access_mode = "Latch"
       /\ last[c].op = "readLow"
       /\ InByte(c)
       => last[c].byte + 256 * NextByte(timer[c]) = latchedAt[c] % WordSize]_vars

\* Two bytes written to a counter one after the other, low byte first, make up
\* its reload value; other counters, time calls and updates in between do not
\* matter, and neither does what the reload value was.
ReloadPairCoherent ==
  [][\A c \in Channels, v \in Bytes :
       /\ timer[c].access_mode = "LoByteHiByte"
       /\ last[c].op = "writeLow"
       /\ OutByte(c, v)
       => timer'[c].reload = last[c].byte + 256 * v]_vars
=============================================================================
