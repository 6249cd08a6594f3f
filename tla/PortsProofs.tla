----------------------------- MODULE PortsProofs -----------------------------
(***************************************************************************)
(* Proofs about two devices behind ports.  Pit: for every set of counters, *)
(* length of the day, width of the count and kind of build.  Palette: for  *)
(* all modes and palettes that fit the index register, blocks of colours,  *)
(* sequences of any length, and pixels of a screen of 320 by 200.          *)
(***************************************************************************)
EXTENDS Pit, Palette, WellFoundedInduction, TLAPS

-----------------------------------------------------------------------------
(* The timers: what a half-done byte pair leaves behind.                   *)


\* What the first half of a byte pair leaves behind: hi is set, and the byte
\* is the low one of the latch or of the reload value.
HalfPair(c) ==
  /\ timer[c].access_mode = "Latch" => timer[c].latch = latchedAt[c]
  /\ last[c].op \in {"readLow", "writeLow"} => timer[c].hi = TRUE
  /\ last[c].op = "readLow" /\ timer[c].access_mode = "Latch"
       => last[c].byte = Lo(timer[c].latch)
  /\ last[c].op = "writeLow" => last[c].byte = Lo(timer[c].reload)

HalfPairs == \A c \in Channels : HalfPair(c)

\* The copy agrees with the count after an update, and the count is what the
\* guest was told or has set, and the updates since.
ClocksAgree ==
  /\ ~lagging => bda = timer[0].count /\ timer[0].count < Day
  /\ since # NoTime => clock \in Count /\ timer[0].count = TimeAfter(clock, since)

PitInv == TypeOK /\ ClocksAgree /\ HalfPairs

\* What the sets of bytes, words and counts are.
LEMMA SizesAre == ByteSize = 256 /\ WordSize = 65536
BY DEF ByteSize, WordSize

LEMMA IsByte == \A n : n \in Byte <=> n \in Nat /\ n < ByteSize
<1>1. ByteSize \in Nat BY SizesAre
<1>2. QED BY <1>1 DEF Byte

LEMMA IsWord == \A n : n \in Word <=> n \in Nat /\ n < WordSize
<1>1. WordSize \in Nat BY SizesAre
<1>2. QED BY <1>1 DEF Word

LEMMA IsCount == \A n : n \in Count <=> n \in Nat /\ n < CountSize
BY PitAssumption, SizesAre DEF Count

\* Bytes of a word, and a word put together from its bytes.
LEMMA ByteRange ==
  ASSUME NEW n \in Nat
  PROVE  Lo(n) \in Byte /\ Hi(n) \in Byte /\ Lo(n) + 256 * Hi(n) = n % WordSize
<1>1. Lo(n) \in Nat /\ Lo(n) < ByteSize BY SizesAre DEF Lo
<1>2. Hi(n) \in Nat /\ Hi(n) < ByteSize BY SizesAre DEF Hi
<1>3. Lo(n) + 256 * Hi(n) = n % 65536 BY DEF Lo, Hi
<1>4. QED BY <1>1, <1>2, <1>3, IsByte, SizesAre

LEMMA WordBytes ==
  ASSUME NEW l \in Byte, NEW h \in Byte
  PROVE  /\ l + 256 * h \in Word
         /\ Lo(l + 256 * h) = l
         /\ Hi(l + 256 * h) = h
<1>1. l \in Nat /\ h \in Nat /\ l < 256 /\ h < 256 BY IsByte, SizesAre
<1>2. l + 256 * h \in Nat /\ l + 256 * h < 65536 BY <1>1
<1>3. (l + 256 * h) % 256 = l /\ ((l + 256 * h) \div 256) % 256 = h BY <1>1
<1>4. QED BY <1>2, <1>3, IsWord, SizesAre DEF Lo, Hi

\* Timer::inc stays in the range of the count, and in the day.
LEMMA IncRange ==
  ASSUME NEW n \in Count
  PROVE  Inc(n) \in Count /\ Inc(n) < Day
BY PitAssumption, SizesAre DEF Inc, Count

\* An update is one tick on the guest's own reckoning.
LEMMA TimeGoesOn ==
  ASSUME NEW t \in Count, NEW k \in 0..Day
  PROVE  /\ NextSince(k) \in 0..Day /\ NextSince(k) # NoTime
         /\ TimeAfter(t, NextSince(k)) = Inc(TimeAfter(t, k))
<1>1. t \in Nat /\ t < CountSize /\ CountSize \in Nat /\ Day \in Nat /\ Day > 0 /\ Day <= CountSize
  BY IsCount, PitAssumption
<1>2. k \in Nat /\ k <= Day /\ k # NoTime
  BY <1>1 DEF NoTime
<1>3. TimeAfter(t, k) \in Nat /\ TimeAfter(t, k) < CountSize
  BY <1>1, <1>2 DEF TimeAfter
<1>4. Inc(TimeAfter(t, k)) = IF TimeAfter(t, k) + 1 >= Day THEN 0 ELSE TimeAfter(t, k) + 1
  <2> DEFINE n == TimeAfter(t, k)
  <2>1. CASE n + 1 < CountSize
    BY <1>1, <1>3, <2>1 DEF Inc
  <2>2. CASE n + 1 = CountSize
    BY <1>1, <1>3, <2>2 DEF Inc
  <2>3. QED BY <1>1, <1>3, <2>1, <2>2
<1>5. CASE k = Day
  <2>1. NextSince(k) = 1 BY <1>2, <1>5 DEF NextSince
  <2>2. QED BY <1>1, <1>2, <1>4, <1>5, <2>1 DEF TimeAfter, NoTime
<1>6. CASE k # Day
  <2>1. NextSince(k) = k + 1 BY <1>2, <1>6 DEF NextSince
  <2>2. QED BY <1>1, <1>2, <1>4, <1>6, <2>1 DEF TimeAfter, NoTime
<1>7. QED BY <1>5, <1>6

\* What reading and writing a byte does to a timer.
LEMMA NextByteType ==
  ASSUME NEW t \in Timer
  PROVE  NextByte(t) \in Byte
<1>1. Current(t) \in Count BY DEF Current, Timer
<1>2. Current(t) \in Nat BY <1>1, IsCount
<1>3. QED BY <1>2, ByteRange DEF NextByte

LEMMA WriteReloadType ==
  ASSUME NEW t \in Timer, NEW v \in Byte, t.access_mode # "Latch"
  PROVE  /\ WriteReload(t, v) \in Timer
         /\ WriteReload(t, v).access_mode = t.access_mode
         /\ WriteReload(t, v).latch = t.latch
         /\ WriteReload(t, v).count = t.count
         /\ t.access_mode = "LoByteHiByte" =>
              WriteReload(t, v).reload = ReloadPart(t, v) /\ WriteReload(t, v).hi = ~t.hi
<1>1. t.reload \in Nat
  <2>1. t.reload \in Word BY DEF Timer
  <2>2. QED BY <2>1, IsWord
<1>2. Lo(t.reload) \in Byte /\ Hi(t.reload) \in Byte BY <1>1, ByteRange
<1>3. Lo(t.reload) + 256 * v \in Word BY <1>2, WordBytes
<1>4. 256 * Hi(t.reload) + v \in Word
  <2>1. v + 256 * Hi(t.reload) \in Word BY <1>2, WordBytes
  <2>2. v \in Nat /\ Hi(t.reload) \in Nat BY <1>2, IsByte
  <2>3. QED BY <2>1, <2>2
<1>5. ReloadPart(t, v) \in Word BY <1>3, <1>4 DEF ReloadPart
<1>6. CASE t.access_mode = "LoByteHiByte"
  BY <1>5, <1>6 DEF WriteReload, Timer
<1>7. CASE t.access_mode = "LoByteOnly"
  BY <1>4, <1>7 DEF WriteReload, Timer
<1>8. CASE t.access_mode = "HiByteOnly"
  BY <1>3, <1>8 DEF WriteReload, Timer
<1>9. QED BY <1>6, <1>7, <1>8 DEF Timer, AccessModes

LEMMA SetModeType ==
  ASSUME NEW t \in Timer, NEW a \in AccessModes
  PROVE  /\ SetMode(t, a) \in Timer
         /\ SetMode(t, a).count = t.count
         /\ SetMode(t, a).access_mode = a
         /\ a = "Latch" => SetMode(t, a).latch = t.count
BY DEF SetMode, Timer

-----------------------------------------------------------------------------
(* The invariant. *)

LEMMA PitInit == Init => PitInv
<1> SUFFICES ASSUME Init PROVE PitInv
  OBVIOUS
<1>1. /\ \A n \in SetTimes \cup InitTimes \cup {0} : n \in Count
      /\ \A v \in Bytes \cup {0} : v \in Byte
      /\ 0 \in Word
  BY PitAssumption, IsCount, IsByte, IsWord, SizesAre
<1>2. PICK n \in Count : timer = [c \in Channels |-> NewTimer(IF c = 0 THEN n ELSE 0)]
  BY <1>1 DEF Init
<1>3. \A c \in Channels : NewTimer(IF c = 0 THEN n ELSE 0) \in Timer
  BY <1>1 DEF NewTimer, Timer, AccessModes
<1>4. timer \in [Channels -> Timer]
  BY <1>2, <1>3
<1>5. TypeOK
  BY <1>1, <1>4 DEF Init, TypeOK, Ops
<1>6. ClocksAgree
  BY DEF Init, ClocksAgree
<1>7. ASSUME NEW c \in Channels
      PROVE  HalfPair(c)
  <2>1. last[c].op = "other" /\ timer[c].access_mode = "LoByteHiByte"
    BY <1>2 DEF Init, NewTimer
  <2>2. QED BY <2>1 DEF HalfPair
<1>8. QED BY <1>5, <1>6, <1>7 DEF PitInv, HalfPairs

LEMMA ControlStep ==
  ASSUME PitInv, NEW c \in Channels \cup {3}, NEW access \in AccessModes, NEW bcd \in BOOLEAN,
         Control(c, access, bcd)
  PROVE  PitInv'
<1>1. CASE c = 3 \/ bcd
  BY <1>1 DEF PitInv, TypeOK, ClocksAgree, HalfPairs, HalfPair, Control, Panic, history
<1>2. CASE ~(c = 3 \/ bcd)
  <2>1. /\ c \in Channels
        /\ timer' = [timer EXCEPT ![c] = SetMode(timer[c], access)]
        /\ last' = [last EXCEPT ![c] = [op |-> "command", byte |-> 0]]
        /\ latchedAt' = IF access = "Latch" THEN [latchedAt EXCEPT ![c] = timer[c].count]
                        ELSE latchedAt
        /\ UNCHANGED <<bda, clock, deterministic, panicked, lagging, since>>
    BY <1>2 DEF Control, Access
  <2>2. timer[c] \in Timer /\ timer[c].count \in Count
    BY <2>1 DEF PitInv, TypeOK, Timer
  <2>3. /\ SetMode(timer[c], access) \in Timer
        /\ SetMode(timer[c], access).count = timer[c].count
        /\ SetMode(timer[c], access).access_mode = access
        /\ access = "Latch" => SetMode(timer[c], access).latch = timer[c].count
    BY <2>2, SetModeType
  <2>4. TypeOK'
    <3>1. [op |-> "command", byte |-> 0] \in [op : Ops, byte : Byte]
      BY IsByte, SizesAre DEF Ops
    <3>2. QED BY <2>1, <2>2, <2>3, <3>1 DEF PitInv, TypeOK
  <2>5. timer'[0].count = timer[0].count
    BY <2>1, <2>3, PitAssumption DEF PitInv, TypeOK
  <2>6. ClocksAgree'
    BY <2>1, <2>5 DEF PitInv, ClocksAgree
  <2>7. HalfPair(c)'
    BY <2>1, <2>3 DEF PitInv, TypeOK, HalfPair
  <2>8. ASSUME NEW d \in Channels, d # c
        PROVE  HalfPair(d)'
    BY <2>1, <2>8 DEF PitInv, TypeOK, HalfPairs, HalfPair
  <2>9. QED BY <2>4, <2>6, <2>7, <2>8 DEF PitInv, HalfPairs
<1>3. QED BY <1>1, <1>2

LEMMA InByteStep ==
  ASSUME PitInv, NEW c \in Channels, InByte(c)
  PROVE  PitInv'
<1>1. CASE timer[c].access_mode \in {"LoByteOnly", "HiByteOnly"}
  BY <1>1 DEF PitInv, TypeOK, ClocksAgree, HalfPairs, HalfPair, InByte, Panic, history
<1>2. CASE timer[c].access_mode \notin {"LoByteOnly", "HiByteOnly"}
  <2> DEFINE entry == IF timer[c].hi THEN [op |-> "other", byte |-> 0]
                      ELSE [op |-> "readLow", byte |-> NextByte(timer[c])]
  <2> HIDE DEF entry
  <2>1. /\ timer' = [timer EXCEPT ![c].hi = ~@]
        /\ last' = [last EXCEPT ![c] = entry]
        /\ UNCHANGED <<bda, clock, deterministic, panicked, lagging, since, latchedAt>>
    BY <1>2 DEF InByte, Access, entry
  <2>2. timer[c] \in Timer
    BY DEF PitInv, TypeOK
  <2>3. NextByte(timer[c]) \in Byte
    BY <2>2, NextByteType
  <2>4. TypeOK'
    <3>1. entry \in [op : Ops, byte : Byte]
      BY <2>3, IsByte, SizesAre DEF Ops, entry
    <3>2. [timer[c] EXCEPT !.hi = ~@] \in Timer
      BY <2>2 DEF Timer
    <3>3. timer' \in [Channels -> Timer]
      BY <2>1, <3>2 DEF PitInv, TypeOK
    <3>4. last' \in [Channels -> [op : Ops, byte : Byte]]
      BY <2>1, <3>1 DEF PitInv, TypeOK
    <3>5. QED BY <2>1, <3>3, <3>4 DEF PitInv, TypeOK
  <2>5. timer'[0].count = timer[0].count
    BY <2>1, PitAssumption DEF PitInv, TypeOK
  <2>6. ClocksAgree'
    BY <2>1, <2>5 DEF PitInv, ClocksAgree
  <2>7. /\ timer[c].hi = FALSE => timer'[c].hi = TRUE
        /\ timer'[c].latch = timer[c].latch
        /\ timer'[c].reload = timer[c].reload
        /\ timer'[c].access_mode = timer[c].access_mode
        /\ last'[c] = entry
        /\ latchedAt' = latchedAt
    BY <2>1, <2>2 DEF PitInv, TypeOK, Timer
  <2>8. HalfPair(c)'
    <3>1. timer[c].access_mode = "Latch" => timer[c].latch = latchedAt[c]
      BY DEF PitInv, HalfPairs, HalfPair
    <3>2. CASE timer[c].hi = TRUE
      <4>1. entry = [op |-> "other", byte |-> 0]
        BY <3>2 DEF entry
      <4>2. last'[c].op = "other" /\ last'[c].byte = 0
        BY <2>7, <4>1
      <4>3. QED BY <2>7, <3>1, <4>2 DEF HalfPair
    <3>3. CASE timer[c].hi = FALSE
      <4>1. entry = [op |-> "readLow", byte |-> NextByte(timer[c])]
        BY <3>3 DEF entry
      <4>2. last'[c].op = "readLow" /\ last'[c].byte = NextByte(timer[c])
        <5>1. last'[c] = [op |-> "readLow", byte |-> NextByte(timer[c])]
          BY <2>7, <4>1
        <5>2. QED BY <5>1
      <4>3. NextByte(timer[c]) = Lo(Current(timer[c]))
        BY <3>3 DEF NextByte
      <4>4. timer[c].access_mode = "Latch" => Current(timer[c]) = timer[c].latch
        BY DEF Current
      <4>5. timer'[c].hi = TRUE
        BY <2>7, <3>3
      <4>6. QED BY <2>7, <3>1, <4>2, <4>3, <4>4, <4>5 DEF HalfPair
    <3>4. QED BY <2>2, <3>2, <3>3 DEF Timer
  <2>9. ASSUME NEW d \in Channels, d # c
        PROVE  HalfPair(d)'
    BY <2>1, <2>9 DEF PitInv, TypeOK, HalfPairs, HalfPair
  <2>10. QED BY <2>4, <2>6, <2>8, <2>9 DEF PitInv, HalfPairs
<1>3. QED BY <1>1, <1>2

LEMMA OutByteStep ==
  ASSUME PitInv, NEW c \in Channels, NEW v \in Bytes, OutByte(c, v)
  PROVE  PitInv'
<1>1. CASE timer[c].access_mode = "Latch"
  BY <1>1 DEF PitInv, TypeOK, ClocksAgree, HalfPairs, HalfPair, OutByte, Panic, history
<1>2. CASE timer[c].access_mode # "Latch"
  <2> DEFINE entry == IF timer[c].access_mode # "LoByteHiByte" \/ timer[c].hi
                      THEN [op |-> "other", byte |-> 0]
                      ELSE [op |-> "writeLow", byte |-> v]
             t == WriteReload(timer[c], v)
  <2> HIDE DEF entry, t
  <2>1. /\ timer' = [timer EXCEPT ![c] = t]
        /\ last' = [last EXCEPT ![c] = entry]
        /\ UNCHANGED <<bda, clock, deterministic, panicked, lagging, since, latchedAt>>
    BY <1>2 DEF OutByte, Access, entry, t
  <2>2. timer[c] \in Timer
    BY DEF PitInv, TypeOK
  <2>3. v \in Byte
    BY PitAssumption
  <2>4. /\ t \in Timer
        /\ t.access_mode = timer[c].access_mode
        /\ t.latch = timer[c].latch
        /\ t.count = timer[c].count
        /\ timer[c].access_mode = "LoByteHiByte" =>
             t.reload = ReloadPart(timer[c], v) /\ t.hi = ~timer[c].hi
    BY <1>2, <2>2, <2>3, WriteReloadType DEF t
  <2>5. TypeOK'
    <3>1. entry \in [op : Ops, byte : Byte]
      BY <2>3, IsByte, SizesAre DEF Ops, entry
    <3>2. QED BY <2>1, <2>4, <3>1 DEF PitInv, TypeOK
  <2>6. timer'[0].count = timer[0].count
    BY <2>1, <2>4, PitAssumption DEF PitInv, TypeOK
  <2>7. ClocksAgree'
    BY <2>1, <2>6 DEF PitInv, ClocksAgree
  <2>8. timer'[c] = t /\ last'[c] = entry /\ latchedAt' = latchedAt
    BY <2>1 DEF PitInv, TypeOK
  <2>9. entry.op = "writeLow" => Lo(t.reload) = v
    <3> SUFFICES ASSUME timer[c].access_mode = "LoByteHiByte", ~timer[c].hi
                 PROVE  Lo(t.reload) = v
      BY DEF entry
    <3>1. t.reload = 256 * Hi(timer[c].reload) + v
      BY <2>4 DEF ReloadPart
    <3>2. Hi(timer[c].reload) \in Byte
      <4>1. timer[c].reload \in Word BY <2>2 DEF Timer
      <4>2. timer[c].reload \in Nat BY <4>1, IsWord
      <4>3. QED BY <4>2, ByteRange
    <3>3. Lo(v + 256 * Hi(timer[c].reload)) = v
      BY <2>3, <3>2, WordBytes
    <3>4. v \in Nat /\ Hi(timer[c].reload) \in Nat
      BY <2>3, <3>2, IsByte
    <3>5. v + 256 * Hi(timer[c].reload) = 256 * Hi(timer[c].reload) + v
      BY <3>4
    <3>6. QED BY <3>1, <3>3, <3>5
  <2>10. HalfPair(c)'
    <3>1. CASE entry.op = "other"
      BY <1>2, <2>4, <2>8, <3>1 DEF HalfPair
    <3>2. CASE entry.op # "other"
      <4>1. timer[c].access_mode = "LoByteHiByte" /\ timer[c].hi = FALSE
        BY <2>2, <3>2 DEF Timer, entry
      <4>2. entry = [op |-> "writeLow", byte |-> v] /\ t.hi = TRUE
        BY <2>4, <4>1 DEF entry
      <4>3. last'[c].op = "writeLow" /\ last'[c].byte = v
        <5>1. last'[c] = [op |-> "writeLow", byte |-> v]
          BY <2>8, <4>2
        <5>2. QED BY <5>1
      <4>4. timer'[c].access_mode # "Latch" /\ timer'[c].hi = TRUE
        BY <1>2, <2>4, <2>8, <4>2
      <4>5. Lo(timer'[c].reload) = v
        <5>1. entry.op = "writeLow" /\ timer'[c] = t
          BY <2>8, <4>2
        <5>2. QED BY <2>9, <5>1
      <4>6. QED BY <4>3, <4>4, <4>5 DEF HalfPair
    <3>3. QED BY <3>1, <3>2
  <2>11. ASSUME NEW d \in Channels, d # c
         PROVE  HalfPair(d)'
    BY <2>1, <2>11 DEF PitInv, TypeOK, HalfPairs, HalfPair
  <2>12. QED BY <2>5, <2>7, <2>10, <2>11 DEF PitInv, HalfPairs
<1>3. QED BY <1>1, <1>2

\* A step that gives counter 0 another count and leaves the rest of the
\* counters and of the guest's accesses alone keeps the pairs.
LEMMA CountStep ==
  ASSUME PitInv, NEW n \in Count,
         timer' = [timer EXCEPT ![0].count = n],
         UNCHANGED <<last, latchedAt>>
  PROVE  timer' \in [Channels -> Timer] /\ timer'[0].count = n /\ HalfPairs'
<1>1. timer[0] \in Timer
  BY PitAssumption DEF PitInv, TypeOK
<1>2. [timer[0] EXCEPT !.count = n] \in Timer
  BY <1>1 DEF Timer
<1>3. timer' \in [Channels -> Timer]
  BY <1>2 DEF PitInv, TypeOK
<1>4. timer'[0].count = n
  BY <1>1, PitAssumption DEF PitInv, TypeOK, Timer
<1>5. ASSUME NEW c \in Channels
      PROVE  /\ timer'[c].hi = timer[c].hi
             /\ timer'[c].latch = timer[c].latch
             /\ timer'[c].reload = timer[c].reload
             /\ timer'[c].access_mode = timer[c].access_mode
  BY <1>1, PitAssumption DEF PitInv, TypeOK, Timer
<1>6. ASSUME NEW c \in Channels
      PROVE  HalfPair(c)'
  <2>1. HalfPair(c) BY DEF PitInv, HalfPairs
  <2>2. QED BY <1>5, <2>1 DEF HalfPair
<1>7. QED BY <1>3, <1>4, <1>6 DEF HalfPairs

LEMMA PitNext == PitInv /\ [Next]_vars => PitInv'
<1> SUFFICES ASSUME PitInv, [Next]_vars PROVE PitInv'
  OBVIOUS
<1>1. ASSUME NEW c \in Channels \cup {3}, NEW access \in AccessModes, NEW bcd \in BOOLEAN,
             Control(c, access, bcd)
      PROVE  PitInv'
  BY <1>1, ControlStep
<1>2. ASSUME NEW c \in Channels, InByte(c)
      PROVE  PitInv'
  BY <1>2, InByteStep
<1>3. ASSUME NEW c \in Channels, NEW v \in Bytes, OutByte(c, v)
      PROVE  PitInv'
  BY <1>3, OutByteStep
<1>4. ASSUME NEW n \in SetTimes, SetTime(n)
      PROVE  PitInv'
  <2>1. n \in Count BY PitAssumption
  <2>2. timer' \in [Channels -> Timer] /\ HalfPairs'
    BY <1>4, <2>1, CountStep DEF SetTime
  <2>3. timer'[0].count = n
    BY <1>4, <2>1, CountStep DEF SetTime
  <2>4. /\ clock' = n /\ lagging' = TRUE /\ since' = 0
        /\ UNCHANGED <<bda, deterministic, panicked, last, latchedAt>>
    BY <1>4 DEF SetTime
  <2>5. since' \in 0..Day
    BY <2>4, PitAssumption
  <2>6. TypeOK'
    BY <2>1, <2>2, <2>4, <2>5 DEF PitInv, TypeOK
  <2>7. ClocksAgree'
    BY <2>1, <2>3, <2>4 DEF ClocksAgree, TimeAfter
  <2>8. QED BY <2>2, <2>6, <2>7 DEF PitInv
<1>5. CASE GetTime
  <2>1. timer[0].count \in Count /\ 0 \in Count
    BY PitAssumption, IsCount DEF PitInv, TypeOK, Timer
  <2>2. /\ clock' = IF deterministic THEN 0 ELSE timer[0].count
        /\ since' = IF deterministic THEN NoTime ELSE 0
        /\ UNCHANGED <<timer, bda, deterministic, panicked, lagging, last, latchedAt>>
    BY <1>5 DEF GetTime
  <2>3. since' \in {NoTime} \cup 0..Day
    BY <2>2, PitAssumption
  <2>4. TypeOK'
    BY <2>1, <2>2, <2>3 DEF PitInv, TypeOK
  <2>5. ClocksAgree'
    BY <2>1, <2>2 DEF PitInv, ClocksAgree, TimeAfter
  <2>6. HalfPairs'
    BY <2>2 DEF PitInv, HalfPairs, HalfPair
  <2>7. QED BY <2>4, <2>5, <2>6 DEF PitInv
<1>6. CASE Update
  <2>1. CASE OverflowChecks /\ timer[0].count = CountSize - 1
    BY <1>6, <2>1 DEF PitInv, TypeOK, ClocksAgree, HalfPairs, HalfPair, Update, Panic, history
  <2>2. CASE ~(OverflowChecks /\ timer[0].count = CountSize - 1)
    <3>1. /\ timer' = [timer EXCEPT ![0].count = Inc(timer[0].count)]
          /\ bda' = timer'[0].count
          /\ UNCHANGED <<clock, deterministic, panicked, last, latchedAt>>
          /\ lagging' = FALSE
          /\ since' = NextSince(since)
      BY <1>6, <2>2 DEF Update
    <3>2. timer[0].count \in Count
      BY PitAssumption DEF PitInv, TypeOK, Timer
    <3>3. Inc(timer[0].count) \in Count /\ Inc(timer[0].count) < Day
      BY <3>2, IncRange
    <3>4. timer' \in [Channels -> Timer] /\ timer'[0].count = Inc(timer[0].count) /\ HalfPairs'
      BY <3>1, <3>3, CountStep
    <3>5. since' \in {NoTime} \cup 0..Day
      <4>1. CASE since = NoTime
        BY <3>1, <4>1 DEF NextSince
      <4>2. CASE since # NoTime
        <5>1. since \in 0..Day /\ clock \in Count BY <4>2 DEF PitInv, TypeOK, ClocksAgree
        <5>2. QED BY <3>1, <5>1, TimeGoesOn
      <4>3. QED BY <4>1, <4>2
    <3>6. TypeOK'
      BY <3>1, <3>3, <3>4, <3>5 DEF PitInv, TypeOK
    <3>7. ASSUME since' # NoTime
          PROVE  clock' \in Count /\ timer'[0].count = TimeAfter(clock', since')
      <4>1. since # NoTime BY <3>1, <3>7 DEF NextSince
      <4>2. /\ since \in 0..Day /\ clock \in Count
            /\ timer[0].count = TimeAfter(clock, since)
        BY <4>1 DEF PitInv, TypeOK, ClocksAgree
      <4>3. TimeAfter(clock, since') = Inc(timer[0].count)
        BY <3>1, <4>2, TimeGoesOn
      <4>4. QED BY <3>1, <3>4, <4>2, <4>3
    <3>8. ClocksAgree'
      BY <3>1, <3>3, <3>4, <3>7 DEF ClocksAgree
    <3>9. QED BY <3>4, <3>6, <3>8 DEF PitInv
  <2>3. QED BY <2>1, <2>2
<1>7. CASE HardReset
  BY <1>7 DEF PitInv, TypeOK, ClocksAgree, HalfPairs, HalfPair, HardReset, history
<1>8. CASE UNCHANGED vars
  BY <1>8 DEF PitInv, TypeOK, ClocksAgree, HalfPairs, HalfPair, vars
<1>9. QED
  BY <1>1, <1>2, <1>3, <1>4, <1>5, <1>6, <1>7, <1>8 DEF Next

\* PitInv is an invariant of the timer.
THEOREM PitInvariant == Spec => []PitInv
<1>1. QED BY PitInit, PitNext, PTL DEF Spec

\* The variables keep their types.
THEOREM TypeCorrect == Spec => []TypeOK
<1>1. PitInv => TypeOK BY DEF PitInv
<1>2. QED BY PitInvariant, <1>1, PTL

\* INT 1Ah answers the double word at 0040:006C and goes on from the time it
\* told before.
THEOREM ClockGoesOn == Spec => ClockKeepsTime
<1> DEFINE Keeps ==
      GetTime /\ ~deterministic =>
        /\ ~lagging => clock' = bda /\ clock' < Day
        /\ since # NoTime => clock' = TimeAfter(clock, since)
<1>1. ASSUME PitInv PROVE Keeps
  <2> SUFFICES ASSUME GetTime, ~deterministic
               PROVE  /\ ~lagging => clock' = bda /\ clock' < Day
                      /\ since # NoTime => clock' = TimeAfter(clock, since)
    OBVIOUS
  <2>1. clock' = timer[0].count BY DEF GetTime
  <2>2. QED BY <1>1, <2>1 DEF PitInv, ClocksAgree
<1>2. PitInv => [Keeps]_vars
  BY <1>1
<1>3. QED BY PitInvariant, <1>2, PTL DEF ClockKeepsTime

\* Latched reads give the two bytes of one count.
THEOREM LatchedReads == Spec => LatchedReadCoherent
<1> DEFINE Coherent ==
      \A c \in Channels :
        /\ timer[c].access_mode = "Latch"
        /\ last[c].op = "readLow"
        /\ InByte(c)
        => last[c].byte + 256 * NextByte(timer[c]) = latchedAt[c] % WordSize
<1>1. ASSUME PitInv PROVE Coherent
  <2> SUFFICES ASSUME NEW c \in Channels,
                      timer[c].access_mode = "Latch", last[c].op = "readLow"
               PROVE  last[c].byte + 256 * NextByte(timer[c]) = latchedAt[c] % WordSize
    OBVIOUS
  <2>1. timer[c].hi /\ last[c].byte = Lo(timer[c].latch) /\ timer[c].latch = latchedAt[c]
    BY <1>1 DEF PitInv, HalfPairs, HalfPair
  <2>2. NextByte(timer[c]) = Hi(latchedAt[c])
    BY <2>1 DEF NextByte, Current
  <2>3. latchedAt[c] \in Nat
    BY <1>1, IsCount DEF PitInv, TypeOK
  <2>4. QED BY <2>1, <2>2, <2>3, ByteRange
<1>2. PitInv => [Coherent]_vars
  BY <1>1
<1>3. QED BY PitInvariant, <1>2, PTL DEF LatchedReadCoherent

\* Two bytes written in a row make up the reload value.
THEOREM ReloadPairs == Spec => ReloadPairCoherent
<1> DEFINE Coherent ==
      \A c \in Channels, v \in Bytes :
        /\ timer[c].access_mode = "LoByteHiByte"
        /\ last[c].op = "writeLow"
        /\ OutByte(c, v)
        => timer'[c].reload = last[c].byte + 256 * v
<1>1. ASSUME PitInv PROVE Coherent
  <2> SUFFICES ASSUME NEW c \in Channels, NEW v \in Bytes,
                      timer[c].access_mode = "LoByteHiByte", last[c].op = "writeLow",
                      OutByte(c, v)
               PROVE  timer'[c].reload = last[c].byte + 256 * v
    OBVIOUS
  <2>1. timer[c].hi /\ last[c].byte = Lo(timer[c].reload)
    BY <1>1 DEF PitInv, HalfPairs, HalfPair
  <2>2. timer[c] \in Timer /\ v \in Byte
    BY <1>1, PitAssumption DEF PitInv, TypeOK
  <2>3. timer'[c] = WriteReload(timer[c], v)
    BY <1>1 DEF PitInv, TypeOK, OutByte
  <2>4. WriteReload(timer[c], v).reload = ReloadPart(timer[c], v)
    BY <2>2, WriteReloadType
  <2>5. QED BY <2>1, <2>3, <2>4 DEF ReloadPart
<1>2. PitInv => [Coherent]_vars
  BY <1>1
<1>3. QED BY PitInvariant, <1>2, PTL DEF ReloadPairCoherent

-----------------------------------------------------------------------------
(* Remainders, for the indices of the DAC.                                 *)

Before == OpToRel(<, Nat)

\* The order of the naturals, as a relation.
LEMMA BeforeIsLess == \A x, y \in Nat : <<x, y>> \in Before <=> x < y
BY DEF Before, OpToRel

\* Induction: a set of naturals with 0 and every successor is all of them.
LEMMA AllNaturals ==
  ASSUME NEW T \in SUBSET Nat, 0 \in T, \A k \in T : k + 1 \in T
  PROVE  T = Nat
<1> DEFINE Missing == Nat \ T
<1>1. SUFFICES ASSUME Missing # {} PROVE FALSE OBVIOUS
<1>2. PICK m \in Missing : \A k \in Missing : ~ (<<k, m>> \in Before)
  <2>1. IsWellFoundedOn(Before, Nat) BY NatLessThanWellFounded DEF Before
  <2>2. Missing \subseteq Nat OBVIOUS
  <2> HIDE DEF Missing
  <2>3. QED BY <1>1, <2>1, <2>2, WFMin
<1>3. m # 0 /\ m \in Nat BY <1>2
<1>4. m - 1 \in Nat BY <1>3
<1>5. m - 1 \in T
  <2>1. m - 1 < m BY <1>3
  <2>2. <<m - 1, m>> \in Before BY <1>3, <1>4, <2>1, BeforeIsLess
  <2>3. QED BY <1>2, <1>4, <2>2
<1>6. (m - 1) + 1 \in T BY <1>5
<1>7. QED BY <1>2, <1>3, <1>6

\* Division with remainder.
LEMMA Divided ==
  ASSUME NEW m \in Nat \ {0}, NEW x \in Int
  PROVE  x % m \in 0 .. m - 1 /\ x \div m \in Int /\ x = m * (x \div m) + (x % m)
<1>1. x \div m \in Int /\ x % m \in 0 .. m - 1 OBVIOUS
<1>2. x = m * (x \div m) + (x % m) BY Z3
<1>3. QED BY <1>1, <1>2

\* The quotient and the remainder are determined.
LEMMA Unique ==
  ASSUME NEW m \in Nat \ {0}, NEW q \in Int, NEW p \in Int,
         NEW r \in 0 .. m - 1, NEW s \in 0 .. m - 1, m * q + r = m * p + s
  PROVE  r = s /\ q = p
<1>1. CASE q = p BY <1>1
<1>2. CASE q >= p + 1
  <2>1. m * q >= m * (p + 1) BY <1>2
  <2>2. m * (p + 1) = m * p + m OBVIOUS
  <2>3. QED BY <2>1, <2>2
<1>3. CASE p >= q + 1
  <2>1. m * p >= m * (q + 1) BY <1>3
  <2>2. m * (q + 1) = m * q + m OBVIOUS
  <2>3. QED BY <2>1, <2>2
<1>4. QED BY <1>1, <1>2, <1>3

\* The quotient and the remainder are recognised by what they add up to.
LEMMA ModIs ==
  ASSUME NEW m \in Nat \ {0}, NEW x \in Int, NEW q \in Int, NEW r \in 0 .. m - 1, x = m * q + r
  PROVE  x % m = r /\ x \div m = q
<1> DEFINE p == x \div m
           s == x % m
<1>1. s \in 0 .. m - 1 /\ p \in Int /\ x = m * p + s BY Divided
<1> HIDE DEF p, s
<1>2. r = s /\ q = p BY <1>1, Unique
<1>3. QED BY <1>2 DEF p, s

\* Counting on by one, on a wheel of n places.
LEMMA TurnOn ==
  ASSUME NEW n \in Nat \ {0}, NEW x \in Int
  PROVE  (x + 1) % n = IF x % n = n - 1 THEN 0 ELSE (x % n) + 1
<1>1. PICK q \in Int, r \in 0 .. n - 1 : q = x \div n /\ r = x % n /\ x = n * q + r
  BY Divided
<1>2. CASE r = n - 1
  <2>1. PICK y \in Int, p \in Int, z \in 0 .. n - 1 : y = x + 1 /\ p = q + 1 /\ z = 0 OBVIOUS
  <2>2. y = n * p + z BY <1>1, <1>2, <2>1
  <2>3. y % n = z BY <2>2, ModIs
  <2>4. QED BY <1>1, <1>2, <2>1, <2>3
<1>3. CASE r # n - 1
  <2>0. r + 1 \in 0 .. n - 1 /\ x + 1 \in Int BY <1>1, <1>3
  <2>1. PICK y \in Int, z \in 0 .. n - 1 : y = x + 1 /\ z = r + 1 BY <2>0
  <2>2. y = n * q + z BY <1>1, <2>1
  <2>3. y % n = z BY <2>2, ModIs
  <2>4. QED BY <1>1, <1>3, <2>1, <2>3
<1>4. QED BY <1>2, <1>3

\* Counting on by one, in entries of three components.
LEMMA Thirds ==
  ASSUME NEW m \in Nat
  PROVE  /\ m % 3 \in 0 .. 2 /\ m \div 3 \in Nat /\ m = 3 * (m \div 3) + (m % 3)
         /\ (m + 1) % 3 = IF m % 3 = 2 THEN 0 ELSE (m % 3) + 1
         /\ (m + 1) \div 3 = IF m % 3 = 2 THEN m \div 3 + 1 ELSE m \div 3
BY Z3

\* A place on a wheel is its own remainder.
LEMMA WheelIs ==
  ASSUME NEW n \in Nat \ {0}, NEW i \in 0 .. n - 1
  PROVE  i % n = i
<1>1. i = n * 0 + i OBVIOUS
<1>2. QED BY <1>1, ModIs

\* What the guest reads back is what the DAC keeps.
LEMMA LevelIs ==
  /\ \A v \in Int : 4 * (v % 64) \in Levels
  /\ \A l \in Levels : l \in Nat /\ l \div 4 \in Nat /\ 4 * (l \div 4) = l /\ 4 * ((l \div 4) % 64) = l
<1>1. ASSUME NEW v \in Int PROVE 4 * (v % 64) \in Levels
  <2>1. v % 64 \in 0 .. 63 OBVIOUS
  <2>2. QED BY <2>1 DEF Levels
<1>2. ASSUME NEW l \in Levels
      PROVE  l \in Nat /\ l \div 4 \in Nat /\ 4 * (l \div 4) = l /\ 4 * ((l \div 4) % 64) = l
  <2>1. PICK v \in 0 .. 63 : l = 4 * v BY DEF Levels
  <2>2. l \div 4 = v /\ v % 64 = v BY <2>1
  <2>3. QED BY <2>1, <2>2
<1>3. QED BY <1>1, <1>2
-----------------------------------------------------------------------------
(* The DAC.                                                                *)

Palettes == {p \in Seq([1 .. 3 -> Levels]) : Len(p) \in 1 .. IndexSize}
Dacs == [read : 0 .. IndexSize - 1, write : 0 .. IndexSize - 1, pel : 0 .. 2, pal : Palettes]

\* The parts of a DAC.
LEMMA DacIs ==
  ASSUME NEW d \in Dacs
  PROVE  /\ d = [read |-> d.read, write |-> d.write, pel |-> d.pel, pal |-> d.pal]
         /\ d.read \in 0 .. IndexSize - 1 /\ d.write \in 0 .. IndexSize - 1 /\ d.pel \in 0 .. 2
         /\ d.pal \in Seq([1 .. 3 -> Levels]) /\ d.pal \in Palettes
         /\ Len(d.pal) \in Nat \ {0} /\ Len(d.pal) <= IndexSize /\ IndexSize \in Nat \ {0}
         /\ DOMAIN d.pal = 1 .. Len(d.pal)
         /\ \A i \in 1 .. Len(d.pal) : d.pal[i] \in [1 .. 3 -> Levels]
BY PaletteAssumption DEF Dacs, Palettes

\* set_pel_data changes one component of one entry.
LEMMA PelSet ==
  ASSUME NEW d \in Dacs, Writable(d), NEW val \in Int, NEW e, e = SetPelData(d, val)
  PROVE  /\ e \in Dacs
         /\ e.read = d.read /\ Len(e.pal) = Len(d.pal) /\ Writable(e)
         /\ e.pel = IF d.pel = 2 THEN 0 ELSE d.pel + 1
         /\ e.write = IF d.pel = 2 THEN (d.write + 1) % Len(d.pal) ELSE d.write
         /\ \A i \in 1 .. Len(d.pal), c \in 1 .. 3 :
               e.pal[i][c] = IF i = d.write + 1 /\ c = d.pel + 1 THEN 4 * (val % 64)
                             ELSE d.pal[i][c]
<1> DEFINE n == Len(d.pal)
           l == 4 * (val % 64)
           entry == [d.pal[d.write + 1] EXCEPT ![d.pel + 1] = l]
           pal == [d.pal EXCEPT ![d.write + 1] = entry]
           pel == (d.pel + 1) % 3
           write == IF d.pel < 2 THEN d.write ELSE IF d.write >= n - 1 THEN 0 ELSE d.write + 1
<1>1. /\ d = [read |-> d.read, write |-> d.write, pel |-> d.pel, pal |-> d.pal]
      /\ d.read \in 0 .. IndexSize - 1 /\ d.write \in 0 .. IndexSize - 1 /\ d.pel \in 0 .. 2
      /\ d.pal \in Seq([1 .. 3 -> Levels])
      /\ n \in Nat \ {0} /\ n <= IndexSize /\ IndexSize \in Nat \ {0}
      /\ DOMAIN d.pal = 1 .. n
      /\ \A i \in 1 .. n : d.pal[i] \in [1 .. 3 -> Levels]
  BY DacIs
<1>2. d.write \in 0 .. n - 1 BY <1>1 DEF Writable
<1>3. l \in Levels BY LevelIs
<1>4. e = [read |-> d.read, write |-> write, pel |-> pel, pal |-> pal]
  <2>1. e = [[[d EXCEPT !.pal = pal] EXCEPT !.pel = pel] EXCEPT !.write = write]
    BY <1>1 DEF SetPelData
  <2> HIDE DEF pal, pel, write
  <2>2. [d EXCEPT !.pal = pal] = [read |-> d.read, write |-> d.write, pel |-> d.pel, pal |-> pal]
    BY <1>1
  <2>3. QED BY <2>1, <2>2
<1> HIDE DEF l
<1>5. entry \in [1 .. 3 -> Levels]
      /\ \A c \in 1 .. 3 : entry[c] = IF c = d.pel + 1 THEN l ELSE d.pal[d.write + 1][c]
  BY <1>1, <1>2, <1>3
<1> HIDE DEF entry
<1>6. pal \in Seq([1 .. 3 -> Levels]) /\ Len(pal) = n
      /\ \A i \in 1 .. n : pal[i] = IF i = d.write + 1 THEN entry ELSE d.pal[i]
  BY <1>1, <1>2, <1>5
<1> HIDE DEF pal
<1>7. pel = (IF d.pel = 2 THEN 0 ELSE d.pel + 1) /\ pel \in 0 .. 2 BY <1>1
<1>8. (d.write + 1) % n = IF d.write = n - 1 THEN 0 ELSE d.write + 1
  <2>1. n \in Nat \ {0} /\ d.write \in 0 .. n - 1 /\ d.write \in Int BY <1>1, <1>2
  <2> HIDE DEF n, pel, write
  <2>2. d.write % n = d.write BY <2>1, WheelIs
  <2>3. QED BY <2>1, <2>2, TurnOn
<1>9. write = (IF d.pel = 2 THEN (d.write + 1) % n ELSE d.write)
      /\ write \in 0 .. IndexSize - 1 /\ write < n
  BY <1>1, <1>2, <1>8
<1> HIDE DEF pel, write, n
<1>10. e.read = d.read /\ e.write = write /\ e.pel = pel /\ e.pal = pal BY <1>4
<1>11. e \in Dacs BY <1>1, <1>4, <1>6, <1>7, <1>9 DEF Dacs, Palettes, n
<1>12. \A i \in 1 .. n, c \in 1 .. 3 :
          e.pal[i][c] = IF i = d.write + 1 /\ c = d.pel + 1 THEN l ELSE d.pal[i][c]
  BY <1>5, <1>6, <1>10
<1>13. QED BY <1>6, <1>7, <1>9, <1>10, <1>11, <1>12 DEF n, l, Writable

\* get_pel_data reads one component and goes on to the next.
LEMMA PelRead ==
  ASSUME NEW d \in Dacs, NEW e, e = AfterRead(d)
  PROVE  /\ e \in Dacs
         /\ e.pal = d.pal /\ e.write = d.write
         /\ e.pel = IF d.pel = 2 THEN 0 ELSE d.pel + 1
         /\ e.read = IF d.pel = 2 THEN (d.read + 1) % IndexSize ELSE d.read
         /\ Readable(d) => PelData(d) \in Nat /\ 4 * PelData(d) = d.pal[d.read + 1][d.pel + 1]
<1>1. /\ d = [read |-> d.read, write |-> d.write, pel |-> d.pel, pal |-> d.pal]
      /\ d.read \in 0 .. IndexSize - 1 /\ d.write \in 0 .. IndexSize - 1 /\ d.pel \in 0 .. 2
      /\ d.pal \in Palettes /\ IndexSize \in Nat \ {0}
      /\ Len(d.pal) \in Nat
      /\ \A i \in 1 .. Len(d.pal) : d.pal[i] \in [1 .. 3 -> Levels]
  BY DacIs
<1> DEFINE pel == (d.pel + 1) % 3
           read == IF d.pel = 2 THEN (d.read + 1) % IndexSize ELSE d.read
<1>2. e = [read |-> read, write |-> d.write, pel |-> pel, pal |-> d.pal]
  <2>1. e = [[d EXCEPT !.pel = pel] EXCEPT !.read = read] BY <1>1 DEF AfterRead
  <2> HIDE DEF pel, read
  <2>2. [d EXCEPT !.pel = pel] = [read |-> d.read, write |-> d.write, pel |-> pel, pal |-> d.pal]
    BY <1>1
  <2>3. QED BY <2>1, <2>2
<1>3. pel = (IF d.pel = 2 THEN 0 ELSE d.pel + 1) /\ pel \in 0 .. 2 BY <1>1
<1>4. read \in 0 .. IndexSize - 1
  <2>1. (d.read + 1) % IndexSize \in 0 .. IndexSize - 1 BY <1>1, Divided
  <2>2. QED BY <1>1, <2>1
<1> HIDE DEF pel, read
<1>5. e \in Dacs BY <1>1, <1>2, <1>3, <1>4 DEF Dacs
<1>6. ASSUME Readable(d)
      PROVE  PelData(d) \in Nat /\ 4 * PelData(d) = d.pal[d.read + 1][d.pel + 1]
  <2>1. d.read + 1 \in 1 .. Len(d.pal) /\ d.pel + 1 \in 1 .. 3 BY <1>1, <1>6 DEF Readable
  <2>2. PICK l \in Levels : l = d.pal[d.read + 1][d.pel + 1] BY <1>1, <2>1
  <2>3. PelData(d) = l \div 4 BY <2>2 DEF PelData
  <2>4. QED BY <2>2, <2>3, LevelIs
<1>7. QED BY <1>2, <1>3, <1>5, <1>6 DEF read

\* Setting an index starts at the first component and changes no colour.
LEMMA IndexSet ==
  ASSUME NEW d \in Dacs, NEW val \in 0 .. IndexSize - 1
  PROVE  /\ SetPelWriteIndex(d, val) \in Dacs
         /\ SetPelWriteIndex(d, val) = [d EXCEPT !.write = val, !.pel = 0]
         /\ SetPelWriteIndex(d, val).write = val /\ SetPelWriteIndex(d, val).pel = 0
         /\ SetPelWriteIndex(d, val).pal = d.pal /\ SetPelWriteIndex(d, val).read = d.read
         /\ SetPelReadIndex(d, val) \in Dacs
         /\ SetPelReadIndex(d, val).read = val /\ SetPelReadIndex(d, val).pel = 0
         /\ SetPelReadIndex(d, val).pal = d.pal
<1>1. /\ d = [read |-> d.read, write |-> d.write, pel |-> d.pel, pal |-> d.pal]
      /\ d.read \in 0 .. IndexSize - 1 /\ d.write \in 0 .. IndexSize - 1 /\ d.pel \in 0 .. 2
      /\ d.pal \in Palettes /\ IndexSize \in Nat \ {0}
  BY DacIs
<1>2. SetPelWriteIndex(d, val) = [read |-> d.read, write |-> val, pel |-> 0, pal |-> d.pal]
  <2>1. SetPelWriteIndex(d, val) = [[d EXCEPT !.write = val] EXCEPT !.pel = 0]
    BY DEF SetPelWriteIndex
  <2>2. [d EXCEPT !.write = val] = [read |-> d.read, write |-> val, pel |-> d.pel, pal |-> d.pal]
    BY <1>1
  <2>3. QED BY <2>1, <2>2
<1> DEFINE w == (val + 1) % IndexSize
<1>3. w \in 0 .. IndexSize - 1 BY <1>1, Divided
<1>4. SetPelReadIndex(d, val) = [read |-> val, write |-> w, pel |-> 0, pal |-> d.pal]
  <2>1. SetPelReadIndex(d, val) = [[[d EXCEPT !.read = val] EXCEPT !.write = w] EXCEPT !.pel = 0]
    BY <1>1 DEF SetPelReadIndex
  <2> HIDE DEF w
  <2>2. [d EXCEPT !.read = val] = [read |-> val, write |-> d.write, pel |-> d.pel, pal |-> d.pal]
    BY <1>1
  <2>3. QED BY <2>1, <2>2
<1> HIDE DEF w
<1>5. 0 \in 0 .. 2 OBVIOUS
<1>6. QED BY <1>1, <1>2, <1>3, <1>4, <1>5 DEF Dacs, SetPelWriteIndex

\* An entry is set by its three components, one after another.
LEMMA EntrySet ==
  ASSUME NEW d \in Dacs, Writable(d), d.pel = 0, NEW c, c[1] \in Int, c[2] \in Int, c[3] \in Int,
         NEW e, e = SetEntry(d, c)
  PROVE  /\ e \in Dacs /\ Writable(e)
         /\ e.pel = 0 /\ e.read = d.read /\ Len(e.pal) = Len(d.pal)
         /\ e.write = (d.write + 1) % Len(d.pal)
         /\ \A i \in 1 .. Len(d.pal) :
               e.pal[i] = IF i = d.write + 1 THEN Scaled(c) ELSE d.pal[i]
<1> DEFINE n == Len(d.pal)
           w == d.write
<1>1. PICK f : f = SetPelData(d, c[1]) OBVIOUS
<1>2. PICK g : g = SetPelData(f, c[2]) OBVIOUS
<1>3. e = SetPelData(g, c[3]) BY <1>1, <1>2 DEF SetEntry
<1>4. /\ f \in Dacs /\ f.read = d.read /\ Len(f.pal) = n /\ Writable(f)
      /\ f.pel = 1 /\ f.write = w
      /\ \A i \in 1 .. n, k \in 1 .. 3 :
            f.pal[i][k] = IF i = w + 1 /\ k = 1 THEN 4 * (c[1] % 64) ELSE d.pal[i][k]
  BY <1>1, PelSet
<1>5. /\ g \in Dacs /\ g.read = d.read /\ Len(g.pal) = n /\ Writable(g)
      /\ g.pel = 2 /\ g.write = w
      /\ \A i \in 1 .. n, k \in 1 .. 3 :
            g.pal[i][k] = IF i = w + 1 /\ k = 2 THEN 4 * (c[2] % 64) ELSE f.pal[i][k]
  <2>1. PICK v \in Int : v = c[2] OBVIOUS
  <2>2. PICK l : l = 4 * (v % 64) OBVIOUS
  <2>3. f \in Dacs /\ Writable(f) /\ f.pel = 1 /\ f.pel # 2 /\ f.pel + 1 = 2 BY <1>4
  <2>4. g = SetPelData(f, v) BY <1>2, <2>1
  <2>5. /\ g \in Dacs /\ g.read = f.read /\ Len(g.pal) = Len(f.pal) /\ Writable(g)
        /\ g.pel = f.pel + 1 /\ g.write = f.write
    BY <2>3, <2>4, PelSet
  <2>6. \A i \in 1 .. Len(f.pal), k \in 1 .. 3 :
           g.pal[i][k] = IF i = f.write + 1 /\ k = f.pel + 1 THEN l ELSE f.pal[i][k]
    BY <2>2, <2>3, <2>4, PelSet
  <2>7. \A i \in 1 .. n, k \in 1 .. 3 :
           g.pal[i][k] = IF i = w + 1 /\ k = 2 THEN l ELSE f.pal[i][k]
    BY <1>4, <2>3, <2>6
  <2>8. l = 4 * (c[2] % 64) BY <2>1, <2>2
  <2>9. QED BY <1>4, <2>3, <2>5, <2>7, <2>8
<1>6. /\ e \in Dacs /\ e.read = d.read /\ Len(e.pal) = n /\ Writable(e)
      /\ e.pel = 0 /\ e.write = (w + 1) % n
      /\ \A i \in 1 .. n, k \in 1 .. 3 :
            e.pal[i][k] = IF i = w + 1 /\ k = 3 THEN 4 * (c[3] % 64) ELSE g.pal[i][k]
  BY <1>3, <1>5, PelSet
<1>7. ASSUME NEW i \in 1 .. n
      PROVE  e.pal[i] = IF i = w + 1 THEN Scaled(c) ELSE d.pal[i]
  <2>1. e.pal[i] \in [1 .. 3 -> Levels] /\ d.pal[i] \in [1 .. 3 -> Levels] BY <1>6, DacIs
  <2>2. CASE i = w + 1
    <3>1. e.pal[i][1] = 4 * (c[1] % 64) /\ e.pal[i][2] = 4 * (c[2] % 64)
          /\ e.pal[i][3] = 4 * (c[3] % 64)
      <4>1. 1 \in 1 .. 3 /\ 2 \in 1 .. 3 /\ 3 \in 1 .. 3 OBVIOUS
      <4>2. f.pal[i][1] = 4 * (c[1] % 64) BY <1>4, <2>2, <4>1
      <4>3. g.pal[i][1] = f.pal[i][1] /\ g.pal[i][2] = 4 * (c[2] % 64) BY <1>5, <2>2, <4>1
      <4>4. PICK l : l = 4 * (c[3] % 64) OBVIOUS
      <4>5. \A k \in 1 .. 3 : e.pal[i][k] = IF i = w + 1 /\ k = 3 THEN l ELSE g.pal[i][k]
        BY <1>6, <4>4
      <4>6. e.pal[i][1] = g.pal[i][1] /\ e.pal[i][2] = g.pal[i][2] /\ e.pal[i][3] = 4 * (c[3] % 64)
        BY <2>2, <4>4, <4>1, <4>5
      <4>7. QED BY <4>2, <4>3, <4>6
    <3>2. PICK p \in [1 .. 3 -> Levels] : p = e.pal[i] BY <2>1
    <3>3. p = <<p[1], p[2], p[3]>> OBVIOUS
    <3>4. p = Scaled(c) BY <3>1, <3>2, <3>3 DEF Scaled
    <3>5. QED BY <2>2, <3>2, <3>4
  <2>3. CASE i # w + 1
    <3>1. \A k \in 1 .. 3 : e.pal[i][k] = d.pal[i][k] BY <1>4, <1>5, <1>6, <2>3
    <3>2. e.pal[i] = d.pal[i] BY <2>1, <3>1
    <3>3. QED BY <2>3, <3>2
  <2>4. QED BY <2>2, <2>3
<1>8. QED BY <1>6, <1>7

\* Grey or not, three numbers are stored.
LEMMA StoredInts ==
  ASSUME NEW c \in Triples
  PROVE  Stored(c)[1] \in Int /\ Stored(c)[2] \in Int /\ Stored(c)[3] \in Int
<1>1. c[1] \in Int /\ c[2] \in Int /\ c[3] \in Int BY DEF Triples, Octets
<1>2. PICK s \in Int : s = 77 * c[1] + 151 * c[2] + 28 * c[3] + 128 BY <1>1
<1>3. s \div 256 \in Int OBVIOUS
<1>4. Intensity(c) \in Int BY <1>2, <1>3 DEF Intensity
<1>5. QED BY <1>1, <1>4 DEF Stored
-----------------------------------------------------------------------------
(* A block of colours.                                                     *)

IsBlock(f, d, index, colours, n) ==
    f = [k \in 0 .. n |-> IF k = 0 THEN SetPelWriteIndex(d, index)
                          ELSE SetEntry(f[k - 1], Stored(colours[k]))]

\* The recursive function of set_dac_block exists.
LEMMA BlockExists ==
  ASSUME NEW d, NEW index, NEW colours, NEW n \in Nat
  PROVE  \E f : IsBlock(f, d, index, colours, n)
<1> DEFINE First == SetPelWriteIndex(d, index)
           Set(s, k) == SetEntry(s, Stored(colours[k]))
           Block(f, l) == f = [k \in 0 .. l |-> IF k = 0 THEN First ELSE Set(f[k - 1], k)]
           T == {l \in Nat : \E f : Block(f, l)}
<1> HIDE DEF First, Set
<1>1. 0 \in T
  <2>1. Block([k \in 0 .. 0 |-> First], 0) OBVIOUS
  <2>2. QED BY <2>1
<1>2. ASSUME NEW l \in T PROVE l + 1 \in T
  <2>1. PICK w : Block(w, l) BY <1>2
  <2>2. l \in Nat BY <1>2
  <2> DEFINE v == [j \in 0 .. (l + 1) |-> IF j = l + 1 THEN Set(w[l], l + 1) ELSE w[j]]
  <2>3. ASSUME NEW j \in 0 .. (l + 1)
        PROVE  v[j] = IF j = 0 THEN First ELSE Set(v[j - 1], j)
    <3>1. CASE j = l + 1
      <4>1. j # 0 /\ j - 1 = l /\ l \in 0 .. (l + 1) /\ l # l + 1 BY <2>2, <3>1
      <4>2. v[l] = w[l] BY <4>1
      <4>3. v[j] = Set(w[l], l + 1) BY <3>1
      <4>4. QED BY <3>1, <4>1, <4>2, <4>3
    <3>2. CASE j # l + 1
      <4>1. j \in 0 .. l BY <2>2, <3>2
      <4>2. v[j] = w[j] BY <3>2
      <4>3. w[j] = IF j = 0 THEN First ELSE Set(w[j - 1], j) BY <2>1, <4>1
      <4>4. j # 0 => v[j - 1] = w[j - 1]
        <5>1. j # 0 => j - 1 \in 0 .. (l + 1) /\ j - 1 # l + 1 BY <2>2, <4>1
        <5>2. QED BY <5>1
      <4>5. QED BY <4>2, <4>3, <4>4
    <3>3. QED BY <3>1, <3>2
  <2>4. Block(v, l + 1)
    <3>1. v = [j \in 0 .. (l + 1) |-> v[j]] OBVIOUS
    <3> HIDE DEF v
    <3>2. QED BY <2>3, <3>1
  <2>5. l + 1 \in Nat BY <2>2
  <2> HIDE DEF v, Block
  <2>6. QED BY <2>4, <2>5
<1>3. T \in SUBSET Nat OBVIOUS
<1> HIDE DEF T
<1>4. T = Nat BY <1>1, <1>2, <1>3, AllNaturals
<1>5. QED BY <1>4 DEF T, First, Set, IsBlock

\* The DAC after each colour, without the function that defines them.
Setting(f, d, index, colours) ==
    /\ f[0] = SetPelWriteIndex(d, index)
    /\ \A k \in 1 .. Len(colours) : f[k] = SetEntry(f[k - 1], Stored(colours[k]))

\* set_dac_block, one colour at a time.
LEMMA BlockSteps ==
  ASSUME NEW d, NEW index, NEW colours, Len(colours) \in Nat
  PROVE  \E f : Setting(f, d, index, colours) /\ SetDacBlock(d, index, colours) = f[Len(colours)]
<1> DEFINE n == Len(colours)
           C == CHOOSE f : IsBlock(f, d, index, colours, n)
<1>1. SetDacBlock(d, index, colours) = C[n] BY DEF SetDacBlock, IsBlock
<1>2. C = [k \in 0 .. n |-> IF k = 0 THEN SetPelWriteIndex(d, index)
                            ELSE SetEntry(C[k - 1], Stored(colours[k]))]
  <2>1. \E f : IsBlock(f, d, index, colours, n) BY BlockExists
  <2>2. IsBlock(C, d, index, colours, n) BY <2>1
  <2> HIDE DEF C
  <2>3. QED BY <2>2 DEF IsBlock
<1> HIDE DEF C
<1>3. C[0] = SetPelWriteIndex(d, index) BY <1>2
<1>4. ASSUME NEW k \in 1 .. n PROVE C[k] = SetEntry(C[k - 1], Stored(colours[k]))
  <2>1. k \in 0 .. n /\ k # 0 OBVIOUS
  <2>2. QED BY <1>2, <2>1
<1>5. Setting(C, d, index, colours) BY <1>3, <1>4 DEF Setting
<1>6. QED BY <1>1, <1>5

\* The entry the k-th colour goes to.
Spot(index, k, n) == ((index + k - 1) % n) + 1

\* Where a colour goes, and where the next one does.
LEMMA SpotIs ==
  ASSUME NEW n \in Nat \ {0}, NEW index \in Int, NEW k \in Int
  PROVE  Spot(index, k, n) \in 1 .. n /\ Spot(index, k + 1, n) = ((index + k) % n) + 1
<1>1. PICK x \in Int : x = index + k - 1 OBVIOUS
<1>2. x % n \in 0 .. n - 1 BY Divided
<1>3. index + (k + 1) - 1 = index + k OBVIOUS
<1>4. QED BY <1>1, <1>2, <1>3 DEF Spot

\* The last of k colours that goes to its entry.
LastAt(index, j, k, n) == \A l \in 1 .. k : Spot(index, l, n) = Spot(index, j, n) => l <= j

\* k colours of a block are set.
SetSoFar(e, d, index, colours, k) ==
    /\ e \in Dacs /\ Writable(e) /\ e.pel = 0 /\ Len(e.pal) = Len(d.pal)
    /\ e.write = (index + k) % Len(d.pal)
    /\ \A j \in 1 .. k : LastAt(index, j, k, Len(d.pal)) =>
          e.pal[Spot(index, j, Len(d.pal))] = Scaled(Stored(colours[j]))
    /\ \A i \in 1 .. Len(d.pal) :
          (\A j \in 1 .. k : i # Spot(index, j, Len(d.pal))) => e.pal[i] = d.pal[i]

\* One more colour is set: in a place named again it replaces the one before.
LEMMA OneSet ==
  ASSUME NEW d \in Dacs, NEW index \in Nat, NEW colours, NEW k \in Nat, NEW e,
         SetSoFar(e, d, index, colours, k), colours[k + 1] \in Triples,
         NEW f, f = SetEntry(e, Stored(colours[k + 1]))
  PROVE  SetSoFar(f, d, index, colours, k + 1)
<1> DEFINE n == Len(d.pal)
<1>0. PICK c : c = Stored(colours[k + 1]) OBVIOUS
<1>1. n \in Nat \ {0} BY DacIs
<1>2. /\ e \in Dacs /\ Writable(e) /\ e.pel = 0 /\ Len(e.pal) = n
      /\ e.write = (index + k) % n
      /\ \A j \in 1 .. k :
            LastAt(index, j, k, n) => e.pal[Spot(index, j, n)] = Scaled(Stored(colours[j]))
      /\ \A i \in 1 .. n : (\A j \in 1 .. k : i # Spot(index, j, n)) => e.pal[i] = d.pal[i]
  BY DEF SetSoFar
<1>3. c[1] \in Int /\ c[2] \in Int /\ c[3] \in Int
  <2>1. PICK b \in Triples : b = colours[k + 1] OBVIOUS
  <2>2. QED BY <1>0, <2>1, StoredInts
<1> HIDE DEF n
<1>4. /\ f \in Dacs /\ Writable(f) /\ f.pel = 0 /\ Len(f.pal) = n
      /\ f.write = (e.write + 1) % n
      /\ \A i \in 1 .. n : f.pal[i] = IF i = e.write + 1 THEN Scaled(c) ELSE e.pal[i]
  <2>1. f = SetEntry(e, c) BY <1>0
  <2>2. /\ f \in Dacs /\ Writable(f) /\ f.pel = 0 /\ Len(f.pal) = Len(e.pal)
        /\ f.write = (e.write + 1) % Len(e.pal)
        /\ \A i \in 1 .. Len(e.pal) :
              f.pal[i] = IF i = e.write + 1 THEN Scaled(c) ELSE e.pal[i]
    <3>1. e \in Dacs /\ Writable(e) /\ e.pel = 0 BY <1>2
    <3>2. QED BY <1>3, <2>1, <3>1, EntrySet
  <2>3. QED BY <1>2, <2>2
<1>5. e.write + 1 = Spot(index, k + 1, n) /\ \A j \in Int : Spot(index, j, n) \in 1 .. n
  <2>1. k \in Int /\ index \in Int OBVIOUS
  <2>2. Spot(index, k + 1, n) = ((index + k) % n) + 1 BY <1>1, <2>1, SpotIs
  <2>3. \A j \in Int : Spot(index, j, n) \in 1 .. n BY <1>1, <2>1, SpotIs
  <2>4. QED BY <1>2, <2>2, <2>3
<1>6. f.write = (index + (k + 1)) % n
  <2>1. PICK x \in Int : x = index + k OBVIOUS
  <2>2. (x + 1) % n = (IF x % n = n - 1 THEN 0 ELSE (x % n) + 1) /\ x % n \in 0 .. n - 1
    BY <1>1, TurnOn, Divided
  <2>3. PICK y \in 0 .. n - 1 : y = x % n BY <2>2
  <2>4. (y + 1) % n = IF y % n = n - 1 THEN 0 ELSE (y % n) + 1
    <3>1. y \in Int BY <2>3
    <3>2. QED BY <1>1, <3>1, TurnOn
  <2>5. y % n = y BY <1>1, <2>3, WheelIs
  <2>6. index + (k + 1) = x + 1 BY <2>1
  <2>7. QED BY <1>2, <1>4, <2>1, <2>2, <2>3, <2>4, <2>5, <2>6
<1>7. ASSUME NEW j \in 1 .. (k + 1), LastAt(index, j, k + 1, n)
      PROVE  f.pal[Spot(index, j, n)] = Scaled(Stored(colours[j]))
  <2>1. Spot(index, j, n) \in 1 .. n BY <1>5
  <2>2. k + 1 \in 1 .. (k + 1) OBVIOUS
  <2>3. CASE j = k + 1
    BY <1>0, <1>4, <1>5, <2>1, <2>3
  <2>4. CASE j # k + 1
    <3>1. j \in 1 .. k BY <2>4
    <3>2. ~(k + 1 <= j) BY <3>1
    <3>3. Spot(index, k + 1, n) # Spot(index, j, n) BY <1>7, <2>2, <3>2 DEF LastAt
    <3>4. LastAt(index, j, k, n) BY <1>7 DEF LastAt
    <3>5. e.pal[Spot(index, j, n)] = Scaled(Stored(colours[j])) BY <1>2, <3>1, <3>4
    <3>6. QED BY <1>4, <1>5, <2>1, <3>3, <3>5
  <2>5. QED BY <2>3, <2>4
<1>8. ASSUME NEW i \in 1 .. n, \A j \in 1 .. (k + 1) : i # Spot(index, j, n)
      PROVE  f.pal[i] = d.pal[i]
  <2>0. k + 1 \in 1 .. (k + 1) OBVIOUS
  <2>1. i # e.write + 1 BY <1>5, <1>8, <2>0
  <2>2. \A j \in 1 .. k : i # Spot(index, j, n) BY <1>8
  <2>3. QED BY <1>2, <1>4, <2>1, <2>2
<1>9. QED BY <1>4, <1>6, <1>7, <1>8 DEF SetSoFar, n

\* set_dac_block sets the entries it names, each to the last of its colours, and
\* leaves the others.
LEMMA BlockIsSet ==
  ASSUME NEW d \in Dacs, NEW index \in 0 .. Len(d.pal) - 1, NEW colours \in Seq(Triples),
         NEW e, e = SetDacBlock(d, index, colours)
  PROVE  SetSoFar(e, d, index, colours, Len(colours))
<1> DEFINE n == Len(d.pal)
           m == Len(colours)
<1>1. n \in Nat \ {0} /\ n <= IndexSize /\ IndexSize \in Nat \ {0} /\ m \in Nat BY DacIs
<1>2. PICK f : Setting(f, d, index, colours) /\ SetDacBlock(d, index, colours) = f[m]
  BY <1>1, BlockSteps
<1> DEFINE T == {k \in Nat : k <= m => SetSoFar(f[k], d, index, colours, k)}
<1>3. 0 \in T
  <2>1. index \in 0 .. IndexSize - 1 /\ index \in Nat BY <1>1
  <2>2. f[0] = SetPelWriteIndex(d, index) BY <1>2 DEF Setting
  <2>3. PICK g : g = f[0] OBVIOUS
  <2>4. g \in Dacs /\ g.write = index /\ g.pel = 0 /\ g.pal = d.pal
    <3>1. PICK v \in 0 .. IndexSize - 1 : v = index BY <2>1
    <3>2. g = SetPelWriteIndex(d, v) BY <2>2, <2>3, <3>1
    <3>3. QED BY <3>1, <3>2, IndexSet
  <2>5. index % n = index /\ index + 0 = index
    <3>1. PICK z \in Nat \ {0} : z = n BY <1>1
    <3>2. PICK v \in 0 .. z - 1 : v = index BY <3>1
    <3>3. v % z = v /\ v + 0 = v BY WheelIs
    <3>4. QED BY <3>1, <3>2, <3>3
  <2>6. Writable(g) BY <1>1, <2>1, <2>4 DEF Writable
  <2>7. SetSoFar(g, d, index, colours, 0)
    <3>1. g.write = (index + 0) % n BY <2>4, <2>5
    <3> HIDE DEF n
    <3>2. \A j \in 1 .. 0 : FALSE OBVIOUS
    <3>3. QED BY <2>4, <2>6, <3>1, <3>2 DEF SetSoFar, n
  <2>8. QED BY <2>3, <2>7
<1>4. ASSUME NEW k \in T PROVE k + 1 \in T
  <2>1. k \in Nat BY <1>4
  <2>2. SUFFICES ASSUME k + 1 <= m PROVE SetSoFar(f[k + 1], d, index, colours, k + 1)
    BY <2>1
  <2>3. SetSoFar(f[k], d, index, colours, k) BY <1>1, <1>4, <2>1, <2>2
  <2>4. k + 1 \in 1 .. m /\ (k + 1) - 1 = k BY <1>1, <2>1, <2>2
  <2>5. f[k + 1] = SetEntry(f[k], Stored(colours[k + 1])) BY <1>2, <2>4 DEF Setting
  <2>6. colours[k + 1] \in Triples BY <2>4
  <2>7. PICK g : g = f[k + 1] OBVIOUS
  <2>8. PICK b : b = f[k] OBVIOUS
  <2>9. SetSoFar(g, d, index, colours, k + 1)
    <3>1. index \in Nat BY <1>1
    <3>2. g = SetEntry(b, Stored(colours[k + 1])) /\ SetSoFar(b, d, index, colours, k)
      BY <2>3, <2>5, <2>7, <2>8
    <3>3. QED BY <2>1, <2>6, <3>1, <3>2, OneSet
  <2>10. QED BY <2>7, <2>9
<1>5. T \in SUBSET Nat OBVIOUS
<1> HIDE DEF T
<1>6. T = Nat BY <1>3, <1>4, <1>5, AllNaturals
<1>7. SetSoFar(f[m], d, index, colours, m) BY <1>1, <1>6 DEF T
<1>8. QED BY <1>2, <1>7
-----------------------------------------------------------------------------
(* Component by component.                                                 *)

\* The entry that the m-th component after index from belongs to.
At(from, m, n) == (from + (m \div 3)) % n

\* The entry of the next component.
LEMMA AtOn ==
  ASSUME NEW n \in Nat \ {0}, NEW from \in Int, NEW m \in Nat
  PROVE  /\ At(from, m, n) \in 0 .. n - 1
         /\ At(from, m + 1, n) = IF m % 3 = 2 THEN (At(from, m, n) + 1) % n ELSE At(from, m, n)
<1>1. PICK q \in Nat : q = m \div 3 BY Thirds
<1>2. PICK x \in Int : x = from + q BY <1>1
<1>3. At(from, m, n) = x % n BY <1>1, <1>2 DEF At
<1>4. x % n \in 0 .. n - 1 BY Divided
<1>5. CASE m % 3 # 2
  <2>1. (m + 1) \div 3 = q BY <1>1, <1>5, Thirds
  <2>2. At(from, m + 1, n) = x % n BY <1>2, <2>1 DEF At
  <2>3. QED BY <1>3, <1>4, <1>5, <2>2
<1>6. CASE m % 3 = 2
  <2>1. (m + 1) \div 3 = q + 1 /\ from + (q + 1) = x + 1 BY <1>1, <1>2, <1>6, Thirds
  <2>2. At(from, m + 1, n) = (x + 1) % n BY <2>1 DEF At
  <2>3. PICK y \in 0 .. n - 1 : y = x % n BY <1>4
  <2>4. y \in Int /\ y % n = y BY <2>3, WheelIs
  <2>5. (y + 1) % n = IF y % n = n - 1 THEN 0 ELSE (y % n) + 1 BY <2>4, TurnOn
  <2>6. (x + 1) % n = IF x % n = n - 1 THEN 0 ELSE (x % n) + 1 BY TurnOn
  <2>7. (x + 1) % n = (y + 1) % n BY <2>3, <2>4, <2>5, <2>6
  <2>8. QED BY <1>3, <1>4, <1>6, <2>2, <2>3, <2>7
<1>7. QED BY <1>5, <1>6

\* The DAC after m components have been read, or written, from an index.
LEMMA ReadOn ==
  ASSUME NEW d \in Dacs, NEW from \in Int, NEW m \in Nat,
         d.read = At(from, m, IndexSize), d.pel = m % 3, NEW e, e = AfterRead(d)
  PROVE  e.read = At(from, m + 1, IndexSize) /\ e.pel = (m + 1) % 3
<1>1. IndexSize \in Nat \ {0} BY DacIs
<1>2. /\ e.pel = IF d.pel = 2 THEN 0 ELSE d.pel + 1
      /\ e.read = IF d.pel = 2 THEN (d.read + 1) % IndexSize ELSE d.read
  BY PelRead
<1>3. At(from, m + 1, IndexSize) =
      IF m % 3 = 2 THEN (At(from, m, IndexSize) + 1) % IndexSize ELSE At(from, m, IndexSize)
  BY <1>1, AtOn
<1>4. (m + 1) % 3 = IF m % 3 = 2 THEN 0 ELSE (m % 3) + 1 BY Thirds
<1>5. QED BY <1>2, <1>3, <1>4

\* After one more component written.
LEMMA WriteOn ==
  ASSUME NEW d \in Dacs, NEW from \in Int, NEW m \in Nat, NEW val \in Int, Writable(d),
         d.write = At(from, m, Len(d.pal)), d.pel = m % 3, NEW e, e = SetPelData(d, val)
  PROVE  e.write = At(from, m + 1, Len(d.pal)) /\ e.pel = (m + 1) % 3
<1>1. PICK n \in Nat \ {0} : n = Len(d.pal) BY DacIs
<1>2. /\ e.pel = IF d.pel = 2 THEN 0 ELSE d.pel + 1
      /\ e.write = IF d.pel = 2 THEN (d.write + 1) % n ELSE d.write
  BY <1>1, PelSet
<1>3. At(from, m + 1, n) = IF m % 3 = 2 THEN (At(from, m, n) + 1) % n ELSE At(from, m, n)
  BY <1>1, AtOn
<1>4. (m + 1) % 3 = IF m % 3 = 2 THEN 0 ELSE (m % 3) + 1 BY Thirds
<1>5. QED BY <1>1, <1>2, <1>3, <1>4
-----------------------------------------------------------------------------
(* A block of entries read.                                                *)

ReadFirst(d, index) == [dac |-> SetPelReadIndex(d, index), bytes |-> <<>>]
ReadNext(s) == [dac |-> AfterRead(s.dac), bytes |-> Append(s.bytes, PelData(s.dac))]
IsReading(f, d, index, n) ==
    f = [k \in 0 .. n |-> IF k = 0 THEN ReadFirst(d, index) ELSE ReadNext(f[k - 1])]

\* The recursive function of read_dac_block exists.
LEMMA ReadingExists ==
  ASSUME NEW d, NEW index, NEW n \in Nat
  PROVE  \E f : IsReading(f, d, index, n)
<1> DEFINE First == ReadFirst(d, index)
           Block(f, l) == f = [k \in 0 .. l |-> IF k = 0 THEN First ELSE ReadNext(f[k - 1])]
           T == {l \in Nat : \E f : Block(f, l)}
<1> HIDE DEF First
<1>1. 0 \in T
  <2>1. Block([k \in 0 .. 0 |-> First], 0) OBVIOUS
  <2>2. QED BY <2>1
<1>2. ASSUME NEW l \in T PROVE l + 1 \in T
  <2>1. PICK w : Block(w, l) BY <1>2
  <2>2. l \in Nat BY <1>2
  <2> DEFINE v == [j \in 0 .. (l + 1) |-> IF j = l + 1 THEN ReadNext(w[l]) ELSE w[j]]
  <2>3. ASSUME NEW j \in 0 .. (l + 1)
        PROVE  v[j] = IF j = 0 THEN First ELSE ReadNext(v[j - 1])
    <3>1. CASE j = l + 1
      <4>1. j # 0 /\ j - 1 = l /\ l \in 0 .. (l + 1) /\ l # l + 1 BY <2>2, <3>1
      <4>2. v[l] = w[l] BY <4>1
      <4>3. v[j] = ReadNext(w[l]) BY <3>1
      <4>4. QED BY <3>1, <4>1, <4>2, <4>3
    <3>2. CASE j # l + 1
      <4>1. j \in 0 .. l BY <2>2, <3>2
      <4>2. v[j] = w[j] BY <3>2
      <4>3. w[j] = IF j = 0 THEN First ELSE ReadNext(w[j - 1]) BY <2>1, <4>1
      <4>4. j # 0 => v[j - 1] = w[j - 1]
        <5>1. j # 0 => j - 1 \in 0 .. (l + 1) /\ j - 1 # l + 1 BY <2>2, <4>1
        <5>2. QED BY <5>1
      <4>5. QED BY <4>2, <4>3, <4>4
    <3>3. QED BY <3>1, <3>2
  <2>4. Block(v, l + 1)
    <3>1. v = [j \in 0 .. (l + 1) |-> v[j]] OBVIOUS
    <3> HIDE DEF v
    <3>2. QED BY <2>3, <3>1
  <2>5. l + 1 \in Nat BY <2>2
  <2> HIDE DEF v, Block
  <2>6. QED BY <2>4, <2>5
<1>3. T \in SUBSET Nat OBVIOUS
<1> HIDE DEF T
<1>4. T = Nat BY <1>1, <1>2, <1>3, AllNaturals
<1>5. QED BY <1>4 DEF T, First, IsReading

Reading(f, d, index, n) ==
    f[0] = ReadFirst(d, index) /\ \A k \in 1 .. n : f[k] = ReadNext(f[k - 1])

\* read_dac_block, one component at a time.
LEMMA ReadSteps ==
  ASSUME NEW d, NEW index, NEW count, 3 * count \in Nat
  PROVE  \E f : Reading(f, d, index, 3 * count) /\ ReadDacBlock(d, index, count) = f[3 * count]
<1> DEFINE n == 3 * count
           C == CHOOSE f : IsReading(f, d, index, n)
<1>1. ReadDacBlock(d, index, count) = C[n] BY DEF ReadDacBlock, IsReading, ReadFirst, ReadNext
<1>2. C = [k \in 0 .. n |-> IF k = 0 THEN ReadFirst(d, index) ELSE ReadNext(C[k - 1])]
  <2>1. \E f : IsReading(f, d, index, n) BY ReadingExists
  <2>2. IsReading(C, d, index, n) BY <2>1
  <2> HIDE DEF C
  <2>3. QED BY <2>2 DEF IsReading
<1> HIDE DEF C
<1>3. C[0] = ReadFirst(d, index) BY <1>2
<1>4. ASSUME NEW k \in 1 .. n PROVE C[k] = ReadNext(C[k - 1])
  <2>1. k \in 0 .. n /\ k # 0 OBVIOUS
  <2>2. QED BY <1>2, <2>1
<1>5. Reading(C, d, index, n) BY <1>3, <1>4 DEF Reading
<1>6. QED BY <1>1, <1>5

\* k components of a block are read.
ReadSoFar(s, d, index, k) ==
    /\ s.dac \in Dacs /\ s.dac.pal = d.pal
    /\ s.dac.read = At(index, k, IndexSize) /\ s.dac.pel = k % 3
    /\ s.bytes \in Seq(Nat) /\ Len(s.bytes) = k
    /\ \A j \in 1 .. k :
          4 * s.bytes[j] = d.pal[At(index, j - 1, IndexSize) + 1][((j - 1) % 3) + 1]

\* One more component is read.
LEMMA OneRead ==
  ASSUME NEW d \in Dacs, NEW index \in Int, NEW k \in Nat, NEW s, ReadSoFar(s, d, index, k),
         At(index, k, IndexSize) < Len(d.pal), NEW t, t = ReadNext(s)
  PROVE  ReadSoFar(t, d, index, k + 1)
<1>1. PICK e \in Dacs : e = s.dac BY DEF ReadSoFar
<1>2. /\ e.pal = d.pal /\ e.read = At(index, k, IndexSize) /\ e.pel = k % 3
      /\ s.bytes \in Seq(Nat) /\ Len(s.bytes) = k
  BY <1>1 DEF ReadSoFar
<1>3. PICK f : f = AfterRead(e) OBVIOUS
<1>4. f \in Dacs /\ f.pal = d.pal BY <1>2, <1>3, PelRead
<1>5. f.read = At(index, k + 1, IndexSize) /\ f.pel = (k + 1) % 3 BY <1>2, <1>3, ReadOn
<1>6. PICK v : v = PelData(e) OBVIOUS
<1>7. v \in Nat /\ 4 * v = d.pal[At(index, k, IndexSize) + 1][(k % 3) + 1]
  <2>1. Readable(e) BY <1>2 DEF Readable
  <2>2. PelData(e) \in Nat /\ 4 * PelData(e) = e.pal[e.read + 1][e.pel + 1] BY <1>3, <2>1, PelRead
  <2>3. QED BY <1>2, <1>6, <2>2
<1>8. t.dac = f /\ t.bytes = Append(s.bytes, v) BY <1>1, <1>3, <1>6 DEF ReadNext
<1>9. /\ t.bytes \in Seq(Nat) /\ Len(t.bytes) = k + 1 /\ t.bytes[k + 1] = v
      /\ \A j \in 1 .. k : t.bytes[j] = s.bytes[j]
  <2>1. PICK b \in Seq(Nat) : b = s.bytes BY <1>2
  <2>2. v \in Nat /\ Len(b) = k BY <1>2, <1>7, <2>1
  <2>3. PICK z : z = Append(b, v) OBVIOUS
  <2>4. /\ z \in Seq(Nat) /\ Len(z) = k + 1 /\ z[k + 1] = v
        /\ \A j \in 1 .. k : z[j] = b[j]
    BY <2>2, <2>3
  <2>5. QED BY <1>8, <2>1, <2>3, <2>4
<1>10. ASSUME NEW j \in 1 .. (k + 1)
       PROVE  4 * t.bytes[j] = d.pal[At(index, j - 1, IndexSize) + 1][((j - 1) % 3) + 1]
  <2>1. CASE j = k + 1
    <3>1. j - 1 = k BY <2>1
    <3>2. QED BY <1>7, <1>9, <2>1, <3>1
  <2>2. CASE j # k + 1
    <3>1. j \in 1 .. k BY <2>2
    <3>2. QED BY <1>9, <3>1 DEF ReadSoFar
  <2>3. QED BY <2>1, <2>2
<1>11. QED BY <1>4, <1>5, <1>8, <1>9, <1>10 DEF ReadSoFar

\* read_dac_block reads the entries it names, component by component, and
\* changes no colour.
LEMMA BlockIsRead ==
  ASSUME NEW d \in Dacs, NEW index \in 0 .. IndexSize - 1, NEW count \in Nat,
         \A k \in 0 .. count - 1 : (index + k) % IndexSize < Len(d.pal),
         NEW s, s = ReadDacBlock(d, index, count)
  PROVE  ReadSoFar(s, d, index, 3 * count)
<1> DEFINE m == 3 * count
<1>1. m \in Nat /\ IndexSize \in Nat \ {0} BY DacIs
<1>2. PICK f : Reading(f, d, index, m) /\ ReadDacBlock(d, index, count) = f[m]
  BY <1>1, ReadSteps
<1> DEFINE T == {k \in Nat : k <= m => ReadSoFar(f[k], d, index, k)}
<1>3. 0 \in T
  <2>1. PICK g : g = SetPelReadIndex(d, index) OBVIOUS
  <2>2. g \in Dacs /\ g.read = index /\ g.pel = 0 /\ g.pal = d.pal BY <2>1, IndexSet
  <2>3. PICK s0 : s0 = f[0] OBVIOUS
  <2>4. s0.dac = g /\ s0.bytes = <<>> BY <1>2, <2>1, <2>3 DEF Reading, ReadFirst
  <2>5. At(index, 0, IndexSize) = index
    <3>1. 0 \div 3 = 0 /\ index + 0 = index BY <1>1
    <3>2. QED BY <1>1, <3>1, WheelIs DEF At
  <2>6. <<>> \in Seq(Nat) /\ Len(<<>>) = 0 /\ 0 % 3 = 0 OBVIOUS
  <2>7. \A j \in 1 .. 0 : FALSE OBVIOUS
  <2>8. ReadSoFar(s0, d, index, 0) BY <2>2, <2>4, <2>5, <2>6, <2>7 DEF ReadSoFar
  <2>9. QED BY <2>3, <2>8
<1>4. ASSUME NEW k \in T PROVE k + 1 \in T
  <2>1. k \in Nat /\ k + 1 \in Nat BY <1>4
  <2>2. SUFFICES ASSUME k + 1 <= m PROVE ReadSoFar(f[k + 1], d, index, k + 1)
    BY <2>1
  <2>3. PICK b, g : b = f[k] /\ g = f[k + 1] OBVIOUS
  <2>4. ReadSoFar(b, d, index, k)
    <3>1. k <= m BY <1>1, <2>1, <2>2
    <3>2. QED BY <1>4, <2>3, <3>1
  <2>5. g = ReadNext(b)
    <3>1. k + 1 \in 1 .. m /\ (k + 1) - 1 = k BY <1>1, <2>1, <2>2
    <3> HIDE DEF m
    <3>2. QED BY <1>2, <2>3, <3>1 DEF Reading
  <2>6. At(index, k, IndexSize) < Len(d.pal)
    <3>1. PICK q \in Nat : q = k \div 3 /\ k = 3 * q + (k % 3) /\ k % 3 \in 0 .. 2
      BY <2>1, Thirds
    <3>2. q \in 0 .. count - 1 BY <2>2, <3>1
    <3>3. (index + q) % IndexSize < Len(d.pal) BY <3>2
    <3>4. QED BY <3>1, <3>3 DEF At
  <2>7. index \in Int BY <1>1
  <2>8. ReadSoFar(g, d, index, k + 1) BY <2>1, <2>4, <2>5, <2>6, <2>7, OneRead
  <2>9. QED BY <2>3, <2>8
<1>5. T \in SUBSET Nat OBVIOUS
<1> HIDE DEF T
<1>6. T = Nat BY <1>3, <1>4, <1>5, AllNaturals
<1>7. ReadSoFar(f[m], d, index, m) BY <1>1, <1>6 DEF T
<1>8. QED BY <1>2, <1>7
-----------------------------------------------------------------------------
(* Pixels.                                                                 *)

\* The four pixels of a byte.
LEMMA DigitsAre ==
  ASSUME NEW a \in 0 .. 3, NEW b \in 0 .. 3, NEW c \in 0 .. 3, NEW d \in 0 .. 3,
         NEW byte, byte = a + 4 * b + 16 * c + 64 * d
  PROVE  Digit(byte, 0) = a /\ Digit(byte, 1) = b /\ Digit(byte, 2) = c /\ Digit(byte, 3) = d
<1>1. byte \in Nat BY Z3
<1>2. byte \div 1 = byte /\ byte % 4 = a BY Z3
<1>3. byte \div 4 = b + 4 * c + 16 * d /\ (b + 4 * c + 16 * d) % 4 = b BY Z3
<1>4. byte \div 16 = c + 4 * d /\ (c + 4 * d) % 4 = c BY Z3
<1>5. byte \div 64 = d /\ d % 4 = d BY Z3
<1>6. 4 ^ 0 = 1 /\ 4 ^ 1 = 4 /\ 4 ^ 2 = 16 /\ 4 ^ 3 = 64 OBVIOUS
<1>7. QED BY <1>2, <1>3, <1>4, <1>5, <1>6 DEF Digit

\* Every byte is four pixels.
LEMMA DigitsExist ==
  ASSUME NEW byte \in Octets
  PROVE  \E a, b, c, d \in 0 .. 3 : byte = a + 4 * b + 16 * c + 64 * d
<1>1. PICK p \in 0 .. 63, a \in 0 .. 3 : byte = 4 * p + a
  <2>1. byte \div 4 \in 0 .. 63 /\ byte % 4 \in 0 .. 3 /\ byte = 4 * (byte \div 4) + (byte % 4)
    BY Z3 DEF Octets
  <2>2. QED BY <2>1
<1>2. PICK q \in 0 .. 15, b \in 0 .. 3 : p = 4 * q + b
  <2>1. p \div 4 \in 0 .. 15 /\ p % 4 \in 0 .. 3 /\ p = 4 * (p \div 4) + (p % 4) BY Z3
  <2>2. QED BY <2>1
<1>3. PICK d \in 0 .. 3, c \in 0 .. 3 : q = 4 * d + c
  <2>1. q \div 4 \in 0 .. 3 /\ q % 4 \in 0 .. 3 /\ q = 4 * (q \div 4) + (q % 4) BY Z3
  <2>2. QED BY <2>1
<1>4. byte = a + 4 * b + 16 * c + 64 * d BY <1>1, <1>2, <1>3
<1>5. QED BY <1>4

\* Writing one pixel of a byte leaves the other three.
WithDigit(byte, k, v) == byte + (v - Digit(byte, k)) * 4 ^ k

\* A pixel written is read back, the other three as they were.
LEMMA DigitWritten ==
  ASSUME NEW byte \in Octets, NEW k \in 0 .. 3, NEW v \in 0 .. 3
  PROVE  /\ \A j \in 0 .. 3 : Digit(byte, j) \in 0 .. 3
         /\ \A j \in 0 .. 3 :
               Digit(WithDigit(byte, k, v), j) = IF j = k THEN v ELSE Digit(byte, j)
<1>0. PICK w : w = WithDigit(byte, k, v) OBVIOUS
<1>1. PICK a \in 0 .. 3, b \in 0 .. 3, c \in 0 .. 3, d \in 0 .. 3 :
         byte = a + 4 * b + 16 * c + 64 * d
  BY DigitsExist
<1>2. Digit(byte, 0) = a /\ Digit(byte, 1) = b /\ Digit(byte, 2) = c /\ Digit(byte, 3) = d
  BY <1>1, DigitsAre
<1>3. \A j \in 0 .. 3 : j = 0 \/ j = 1 \/ j = 2 \/ j = 3 OBVIOUS
<1>4. 4 ^ 0 = 1 /\ 4 ^ 1 = 4 /\ 4 ^ 2 = 16 /\ 4 ^ 3 = 64 OBVIOUS
<1>5. CASE k = 0
  <2>1. w = v + 4 * b + 16 * c + 64 * d BY <1>0, <1>1, <1>2, <1>4, <1>5 DEF WithDigit
  <2>2. Digit(w, 0) = v /\ Digit(w, 1) = b /\ Digit(w, 2) = c /\ Digit(w, 3) = d
    BY <2>1, DigitsAre
  <2>3. QED BY <1>0, <1>2, <1>3, <1>5, <2>2
<1>6. CASE k = 1
  <2>1. w = a + 4 * v + 16 * c + 64 * d BY <1>0, <1>1, <1>2, <1>4, <1>6 DEF WithDigit
  <2>2. Digit(w, 0) = a /\ Digit(w, 1) = v /\ Digit(w, 2) = c /\ Digit(w, 3) = d
    BY <2>1, DigitsAre
  <2>3. QED BY <1>0, <1>2, <1>3, <1>6, <2>2
<1>7. CASE k = 2
  <2>1. w = a + 4 * b + 16 * v + 64 * d BY <1>0, <1>1, <1>2, <1>4, <1>7 DEF WithDigit
  <2>2. Digit(w, 0) = a /\ Digit(w, 1) = b /\ Digit(w, 2) = v /\ Digit(w, 3) = d
    BY <2>1, DigitsAre
  <2>3. QED BY <1>0, <1>2, <1>3, <1>7, <2>2
<1>8. CASE k = 3
  <2>1. w = a + 4 * b + 16 * c + 64 * v BY <1>0, <1>1, <1>2, <1>4, <1>8 DEF WithDigit
  <2>2. Digit(w, 0) = a /\ Digit(w, 1) = b /\ Digit(w, 2) = c /\ Digit(w, 3) = v
    BY <2>1, DigitsAre
  <2>3. QED BY <1>0, <1>2, <1>3, <1>8, <2>2
<1>9. QED BY <1>3, <1>5, <1>6, <1>7, <1>8

\* A byte has four slots.
LEMMA SlotIs ==
  ASSUME NEW x \in Nat
  PROVE  Slot(x) \in 0 .. 3
<1>1. x % 4 \in 0 .. 3 OBVIOUS
<1>2. QED BY <1>1 DEF Slot

\* No two pixels share a place in video memory (mode 4).
LEMMA FourToAByte ==
  ASSUME NEW x \in 0 .. 319, NEW y \in 0 .. 199, NEW u \in 0 .. 319, NEW v \in 0 .. 199,
         Offset("CGA4", x, y) = Offset("CGA4", u, v), Slot(x) = Slot(u)
  PROVE  x = u /\ y = v
<1>1. PICK a \in 0 .. 79, b \in 0 .. 3 : a = x \div 4 /\ b = x % 4 /\ x = 4 * a + b BY Z3
<1>2. PICK c \in 0 .. 79, d \in 0 .. 3 : c = u \div 4 /\ d = u % 4 /\ u = 4 * c + d BY Z3
<1>3. PICK e \in 0 .. 99, f \in 0 .. 1 : e = y \div 2 /\ f = y % 2 /\ y = 2 * e + f BY Z3
<1>4. PICK g \in 0 .. 99, h \in 0 .. 1 : g = v \div 2 /\ h = v % 2 /\ v = 2 * g + h BY Z3
<1>5. Slot(x) = 3 - b /\ Slot(u) = 3 - d BY <1>1, <1>2 DEF Slot
<1>6. Offset("CGA4", x, y) = 80 * e + a + 8192 * f BY <1>1, <1>3 DEF Offset
<1>7. Offset("CGA4", u, v) = 80 * g + c + 8192 * h BY <1>2, <1>4 DEF Offset
<1>8. 80 * e + a + 8192 * f = 80 * g + c + 8192 * h => a = c /\ e = g /\ f = h BY Z3
<1>9. QED BY <1>1, <1>2, <1>3, <1>4, <1>5, <1>6, <1>7, <1>8

\* The XOR of two pixels is a pixel.
LEMMA XorRange ==
  ASSUME NEW a \in Nat, NEW b \in Nat
  PROVE  XorPair(a, b) \in 0 .. 3
<1>1. PICK p \in 0 .. 1 : p = (a + b) % 2 BY Z3
<1>2. PICK q \in 0 .. 1 : q = ((a \div 2) + (b \div 2)) % 2 BY Z3
<1>3. QED BY <1>1, <1>2 DEF XorPair

\* The four colours of mode 4 are four entries of the palette.
LEMMA CgaEntries ==
  ASSUME NEW i \in 0 .. 3
  PROVE  (CHOOSE j \in 0 .. 3 : CgaEntry[j + 1] = CgaEntry[i + 1]) = i
<1>1. \A j \in 0 .. 3 : CgaEntry[j + 1] = CgaEntry[i + 1] => j = i BY DEF CgaEntry
<1>2. QED BY <1>1

\* The pixel a colour makes of what was there.
Ink(kind, old, color) ==
    IF kind = "VGA" THEN color
    ELSE CgaEntry[(IF color >= 128 THEN XorPair(old, color % 4) ELSE color % 4) + 1]

Filled(kind, fill) == [off \in {Offset(kind, p[1], p[2]) : p \in Xs \X Ys} |-> fill]

\* The frame after a pixel is written is the one before with that pixel.
LEMMA PixelIsWritten ==
  ASSUME NEW kind \in {"CGA4", "VGA"}, NEW x \in Xs, NEW y \in Ys,
         NEW color \in Octets, NEW fill \in Octets,
         NEW mem, mem = Filled(kind, fill),
         NEW old, old = Digit(fill, Slot(x))
  PROVE  /\ old \in 0 .. 3
         /\ kind = "CGA4" => Frame(kind, mem)[<<x, y>>] = CgaEntry[old + 1]
         /\ Frame(kind, WritePixel(kind, mem, x, y, color)) =
            [Frame(kind, mem) EXCEPT ![<<x, y>>] = Ink(kind, old, color)]
<1> DEFINE off == Offset(kind, x, y)
           pair == IF color >= 128 THEN XorPair(old, color % 4) ELSE color % 4
           w == IF kind = "CGA4" THEN fill + (pair - old) * 4 ^ Slot(x) ELSE color
           Offs == {Offset(kind, p[1], p[2]) : p \in Xs \X Ys}
           new == WritePixel(kind, mem, x, y, color)
<1>1. /\ \A u \in Xs : u \in 0 .. 319 /\ Slot(u) \in 0 .. 3
      /\ \A v \in Ys : v \in 0 .. 199
  <2>1. \A u \in Xs : u \in 0 .. 319 BY PixelsAssumption DEF Xs
  <2>2. \A v \in Ys : v \in 0 .. 199 BY PixelsAssumption DEF Ys
  <2>3. \A u \in Xs : Slot(u) \in 0 .. 3
    <3>1. ASSUME NEW u \in 0 .. 319 PROVE Slot(u) \in 0 .. 3 BY SlotIs
    <3>2. QED BY <2>1, <3>1
  <2>4. QED BY <2>1, <2>2, <2>3
<1>2. /\ \A u \in Xs, v \in Ys : Offset(kind, u, v) \in Offs
      /\ \A o \in Offs : mem[o] = fill
      /\ DOMAIN mem = Offs
  <2>1. ASSUME NEW u \in Xs, NEW v \in Ys PROVE Offset(kind, u, v) \in Offs
    <3>1. <<u, v>> \in Xs \X Ys /\ <<u, v>>[1] = u /\ <<u, v>>[2] = v OBVIOUS
    <3>2. QED BY <3>1
  <2> HIDE DEF Offs
  <2>2. mem = [o \in Offs |-> fill] BY DEF Offs, Filled
  <2>3. QED BY <2>1, <2>2
<1> HIDE DEF Offs
<1>3. off \in Offs /\ mem[off] = fill BY <1>2
<1>4. old \in 0 .. 3 /\ color % 4 \in 0 .. 3 /\ color \in Nat
  <2>1. PICK k \in 0 .. 3 : k = Slot(x) BY <1>1
  <2>2. 0 \in 0 .. 3 OBVIOUS
  <2>3. Digit(fill, k) \in 0 .. 3 BY <2>2, DigitWritten
  <2>4. color % 4 \in 0 .. 3 BY DEF Octets
  <2>5. QED BY <2>1, <2>3, <2>4 DEF Octets
<1>5. pair \in 0 .. 3
  <2>1. PICK c \in 0 .. 3 : c = color % 4 BY <1>4
  <2>2. XorPair(old, c) \in 0 .. 3 BY <1>4, XorRange
  <2>3. QED BY <2>1, <2>2
<1>6. new = [mem EXCEPT ![off] = w]
  <2>1. CASE kind = "CGA4"
    <3>1. Slot(x) = 3 - (x % 4) BY DEF Slot
    <3>2. new = [mem EXCEPT ![off] = @ + (pair - old) * 4 ^ Slot(x)]
      BY <1>3, <2>1, <3>1 DEF WritePixel
    <3>3. QED BY <1>2, <1>3, <2>1, <3>2
  <2>2. CASE kind = "VGA" BY <2>2 DEF WritePixel
  <2>3. QED BY <2>1, <2>2
<1> HIDE DEF new, pair
<1>7. \A o \in Offs : new[o] = IF o = off THEN w ELSE fill BY <1>2, <1>3, <1>6
<1>8. kind = "CGA4" => \A j \in 0 .. 3 : Digit(w, j) = IF j = Slot(x) THEN pair ELSE Digit(fill, j)
  <2>1. SUFFICES ASSUME kind = "CGA4"
                 PROVE \A j \in 0 .. 3 : Digit(w, j) = IF j = Slot(x) THEN pair ELSE Digit(fill, j)
    OBVIOUS
  <2>2. PICK k \in 0 .. 3 : k = Slot(x) BY <1>1
  <2>3. PICK v \in 0 .. 3 : v = pair BY <1>5
  <2>4. w = fill + (v - Digit(fill, k)) * 4 ^ k BY <2>1, <2>2, <2>3
  <2>5. PICK z : z = w OBVIOUS
  <2>6. z = WithDigit(fill, k, v) BY <2>4, <2>5 DEF WithDigit
  <2> HIDE DEF off
  <2>7. \A j \in 0 .. 3 : Digit(z, j) = IF j = k THEN v ELSE Digit(fill, j) BY <2>6, DigitWritten
  <2> HIDE DEF w
  <2>8. QED BY <2>2, <2>3, <2>5, <2>7
<1>9. ASSUME NEW u \in Xs, NEW v \in Ys
      PROVE  /\ Entry(kind, mem, u, v) = IF kind = "CGA4" THEN CgaEntry[Digit(fill, Slot(u)) + 1] ELSE fill
             /\ Entry(kind, new, u, v) = IF u = x /\ v = y THEN Ink(kind, old, color)
                                         ELSE Entry(kind, mem, u, v)
  <2> DEFINE o == Offset(kind, u, v)
  <2>1. o \in Offs /\ Slot(u) \in 0 .. 3 BY <1>1, <1>2
  <2>2. mem[o] = fill /\ new[o] = IF o = off THEN w ELSE fill BY <1>2, <1>7, <2>1
  <2>3. Entry(kind, mem, u, v) = IF kind = "CGA4" THEN CgaEntry[Digit(fill, Slot(u)) + 1] ELSE fill
    BY <2>2 DEF Entry
  <2>4. o = off /\ (kind = "CGA4" => Slot(u) = Slot(x)) => u = x /\ v = y
    <3>1. x \in 0 .. 319 /\ y \in 0 .. 199 /\ u \in 0 .. 319 /\ v \in 0 .. 199 BY <1>1
    <3>2. CASE kind = "VGA"
      <4>1. SUFFICES ASSUME o = off PROVE u = x /\ v = y BY <3>2
      <4>2. 320 * v + u = 320 * y + x BY <3>2, <4>1 DEF Offset
      <4>3. QED BY <3>1, <4>2
    <3>3. CASE kind = "CGA4"
      <4>1. SUFFICES ASSUME o = off, Slot(u) = Slot(x) PROVE u = x /\ v = y BY <3>3
      <4>2. Offset("CGA4", u, v) = Offset("CGA4", x, y) BY <3>3, <4>1
      <4>3. QED BY <3>1, <4>1, <4>2, FourToAByte
    <3>4. QED BY <3>2, <3>3
  <2>5. CASE kind = "VGA"
    <3>1. Entry(kind, new, u, v) = IF o = off THEN color ELSE fill BY <2>2, <2>5 DEF Entry
    <3>2. QED BY <2>3, <2>4, <2>5, <3>1 DEF Ink
  <2>6. CASE kind = "CGA4"
    <3>1. Entry(kind, new, u, v) = CgaEntry[Digit(new[o], Slot(u)) + 1] BY <2>6 DEF Entry
    <3>2. CASE o # off BY <2>2, <2>3, <2>6, <3>1, <3>2
    <3>3. CASE o = off
      <4>1. Digit(new[o], Slot(u)) = IF Slot(u) = Slot(x) THEN pair ELSE Digit(fill, Slot(u))
        BY <1>8, <2>1, <2>2, <2>6, <3>3
      <4>2. CASE Slot(u) # Slot(x)
        <5>1. ~ (u = x) BY <4>2
        <5>2. QED BY <2>3, <2>6, <3>1, <4>1, <4>2, <5>1
      <4>3. CASE Slot(u) = Slot(x)
        <5>1. u = x /\ v = y BY <2>4, <3>3, <4>3
        <5>2. Ink(kind, old, color) = CgaEntry[pair + 1] BY <2>6 DEF Ink, pair
        <5>3. QED BY <2>3, <3>1, <4>1, <4>3, <5>1, <5>2
      <4>4. QED BY <4>2, <4>3
    <3>4. QED BY <3>2, <3>3
  <2>7. QED BY <2>3, <2>5, <2>6
<1>10. Frame(kind, mem)[<<x, y>>] = Entry(kind, mem, x, y)
  <2>1. <<x, y>> \in Xs \X Ys /\ <<x, y>>[1] = x /\ <<x, y>>[2] = y OBVIOUS
  <2>2. QED BY <2>1 DEF Frame
<1>11. Frame(kind, new) = [Frame(kind, mem) EXCEPT ![<<x, y>>] = Ink(kind, old, color)]
  <2>1. \A p \in Xs \X Ys : Entry(kind, new, p[1], p[2]) =
           IF p = <<x, y>> THEN Ink(kind, old, color) ELSE Entry(kind, mem, p[1], p[2])
    <3>1. TAKE p \in Xs \X Ys
    <3>2. PICK u \in Xs, v \in Ys : p = <<u, v>> OBVIOUS
    <3>3. p[1] = u /\ p[2] = v /\ (p = <<x, y>> <=> u = x /\ v = y) BY <3>2
    <3>4. QED BY <1>9, <3>3
  <2> DEFINE A == Frame(kind, mem)
             B == Frame(kind, new)
  <2>2. A = [p \in Xs \X Ys |-> Entry(kind, mem, p[1], p[2])]
        /\ B = [p \in Xs \X Ys |-> Entry(kind, new, p[1], p[2])]
    BY DEF Frame
  <2> HIDE DEF A, B
  <2>3. B = [A EXCEPT ![<<x, y>>] = Ink(kind, old, color)]
    <3>1. DOMAIN A = Xs \X Ys BY <2>2
    <3>2. [A EXCEPT ![<<x, y>>] = Ink(kind, old, color)] =
          [p \in Xs \X Ys |-> IF p = <<x, y>> THEN Ink(kind, old, color) ELSE A[p]]
      BY <3>1
    <3>3. \A p \in Xs \X Ys : A[p] = Entry(kind, mem, p[1], p[2]) BY <2>2
    <3>4. QED BY <2>1, <2>2, <3>2, <3>3
  <2>4. QED BY <2>3 DEF A, B
<1>12. kind = "CGA4" => Frame(kind, mem)[<<x, y>>] = CgaEntry[old + 1] BY <1>9, <1>10
<1>13. QED BY <1>4, <1>11, <1>12 DEF new
-----------------------------------------------------------------------------
(* Port sequences.                                                         *)

Streams == [fn : {"none", "write", "read", "stray"}, from : Nat, data : Seq(Nat)]

\* The bytes of a sequence are the components of n entries, round and round.
InStep(s, pal, n) ==
    \A k \in 1 .. Len(s.data) :
       pal[At(s.from, k - 1, n) + 1][((k - 1) % 3) + 1] = 4 * (s.data[k] % 64)

WriteFollows(s, d) ==
    /\ d.write = At(s.from, Len(s.data), Len(d.pal)) /\ d.pel = Len(s.data) % 3
    /\ \A k \in 1 .. Len(s.data) : s.data[k] = Value[((k - 1) % 3) + 1]
    /\ InStep(s, d.pal, Len(d.pal))

ReadFollows(s, d) ==
    /\ d.read = At(s.from, Len(s.data), IndexSize) /\ d.pel = Len(s.data) % 3
    /\ InStep(s, d.pal, IndexSize)

\* A sequence, and one byte more of it.
LEMMA StreamIs ==
  ASSUME NEW s \in Streams, NEW val \in Nat, NEW b, b = Append(s.data, val)
  PROVE  /\ s.from \in Nat /\ s.data \in Seq(Nat) /\ Len(s.data) \in Nat
         /\ \A k \in 1 .. Len(s.data) : s.data[k] \in Nat
         /\ b \in Seq(Nat) /\ Len(b) = Len(s.data) + 1 /\ b[Len(s.data) + 1] = val
         /\ \A k \in 1 .. Len(s.data) : b[k] = s.data[k]
<1>1. PICK a \in Seq(Nat) : a = s.data BY DEF Streams
<1>2. b = Append(a, val) BY <1>1
<1>3. Len(a) \in Nat /\ \A k \in 1 .. Len(a) : a[k] \in Nat OBVIOUS
<1>4. /\ b \in Seq(Nat) /\ Len(b) = Len(a) + 1 /\ b[Len(a) + 1] = val
      /\ \A k \in 1 .. Len(a) : b[k] = a[k]
  BY <1>2
<1>5. s.from \in Nat BY DEF Streams
<1>6. QED BY <1>1, <1>3, <1>4, <1>5

\* The guest sends bytes.
LEMMA SentIs ==
  \A c \in 1 .. 3 : Value[c] \in Nat
<1>1. Value \in [1 .. 3 -> Octets] BY SentAssumption DEF Triples
<1>2. \A b \in Octets : b \in Nat BY DEF Octets
<1>3. QED BY <1>1, <1>2

\* Another byte written.  Over the end of the palette the same components
\* come again, and the guest sends them the same bytes.
LEMMA StreamWritten ==
  ASSUME NEW s \in Streams, NEW d \in Dacs, WriteFollows(s, d), Writable(d),
         NEW e, e = SetPelData(d, Value[d.pel + 1]),
         NEW t, t.from = s.from, t.data = Append(s.data, Value[d.pel + 1])
  PROVE  WriteFollows(t, e)
<1>1. PICK m \in Nat : m = Len(s.data) BY DEF Streams
<1>2. /\ d.write = At(s.from, m, Len(d.pal)) /\ d.pel = m % 3 /\ s.from \in Nat
      /\ \A k \in 1 .. m : s.data[k] = Value[((k - 1) % 3) + 1]
      /\ \A k \in 1 .. m : d.pal[At(s.from, k - 1, Len(d.pal)) + 1][((k - 1) % 3) + 1]
                           = 4 * (s.data[k] % 64)
  BY <1>1 DEF WriteFollows, InStep, Streams
<1>3. d.pel \in 0 .. 2 BY DacIs
<1>4. PICK val \in Nat : val = Value[d.pel + 1]
  <2>1. d.pel + 1 \in 1 .. 3 BY <1>3
  <2>2. QED BY <2>1, SentIs
<1>5. PICK n \in Nat \ {0} : n = Len(d.pal) BY DacIs
<1>6. /\ Len(t.data) = m + 1 /\ t.data[m + 1] = val
      /\ \A k \in 1 .. m : t.data[k] = s.data[k]
  BY <1>1, <1>4, StreamIs
<1>7. /\ e \in Dacs /\ Len(e.pal) = n
      /\ \A i \in 1 .. n, c \in 1 .. 3 :
            e.pal[i][c] = IF i = d.write + 1 /\ c = d.pel + 1 THEN 4 * (val % 64) ELSE d.pal[i][c]
  <2>1. e = SetPelData(d, val) /\ val \in Int BY <1>4
  <2>2. /\ e \in Dacs /\ Len(e.pal) = Len(d.pal)
        /\ \A i \in 1 .. Len(d.pal), c \in 1 .. 3 :
              e.pal[i][c] = IF i = d.write + 1 /\ c = d.pel + 1 THEN 4 * (val % 64)
                            ELSE d.pal[i][c]
    BY <2>1, PelSet
  <2>3. QED BY <1>5, <2>2
<1>8. e.write = At(t.from, m + 1, n) /\ e.pel = (m + 1) % 3
  <2>1. PICK from \in Int : from = s.from BY <1>2
  <2>2. val \in Int /\ e = SetPelData(d, val) BY <1>4
  <2>3. QED BY <1>2, <1>5, <2>1, <2>2, WriteOn
<1>9. ASSUME NEW k \in 1 .. (m + 1)
      PROVE  /\ t.data[k] = Value[((k - 1) % 3) + 1]
             /\ e.pal[At(t.from, k - 1, n) + 1][((k - 1) % 3) + 1] = 4 * (t.data[k] % 64)
  <2>1. PICK j \in Nat : j = k - 1 OBVIOUS
  <2>2. PICK i \in 1 .. n : i = At(s.from, j, n) + 1
    <3>1. s.from \in Int BY <1>2
    <3>2. At(s.from, j, n) \in 0 .. n - 1 BY <3>1, AtOn
    <3>3. QED BY <3>2
  <2>3. PICK c \in 1 .. 3 : c = (j % 3) + 1 BY <2>1, Thirds
  <2>4. t.data[k] = Value[c]
    <3>1. CASE k = m + 1 BY <1>2, <1>4, <1>6, <2>1, <2>3, <3>1
    <3>2. CASE k # m + 1
      <4>1. k \in 1 .. m BY <3>2
      <4>2. QED BY <1>2, <1>6, <2>1, <2>3, <4>1
    <3>3. QED BY <3>1, <3>2
  <2>5. e.pal[i][c] = 4 * (t.data[k] % 64)
    <3>1. CASE i = d.write + 1 /\ c = d.pel + 1
      <4>1. e.pal[i][c] = 4 * (val % 64) BY <1>7, <3>1
      <4>2. t.data[k] = val BY <1>4, <2>4, <3>1
      <4>3. QED BY <4>1, <4>2
    <3>2. CASE ~ (i = d.write + 1 /\ c = d.pel + 1)
      <4>1. k # m + 1
        <5>1. SUFFICES ASSUME k = m + 1 PROVE FALSE OBVIOUS
        <5>2. j = m BY <2>1, <5>1
        <5>3. QED BY <1>2, <1>5, <2>2, <2>3, <3>2, <5>2
      <4>2. k \in 1 .. m BY <4>1
      <4>3. d.pal[i][c] = 4 * (s.data[k] % 64) BY <1>2, <1>5, <2>1, <2>2, <2>3, <4>2
      <4>4. e.pal[i][c] = d.pal[i][c] BY <1>7, <3>2
      <4>5. QED BY <1>6, <4>2, <4>3, <4>4
    <3>3. QED BY <3>1, <3>2
  <2>6. QED BY <2>1, <2>2, <2>3, <2>4, <2>5
<1>10. QED BY <1>6, <1>7, <1>8, <1>9 DEF WriteFollows, InStep

\* Another byte read.
LEMMA StreamReadOn ==
  ASSUME NEW s \in Streams, NEW d \in Dacs, ReadFollows(s, d), Readable(d),
         NEW e, e = AfterRead(d),
         NEW t, t.from = s.from, t.data = Append(s.data, PelData(d))
  PROVE  ReadFollows(t, e)
<1>1. PICK m \in Nat : m = Len(s.data) BY DEF Streams
<1>2. /\ d.read = At(s.from, m, IndexSize) /\ d.pel = m % 3 /\ s.from \in Nat
      /\ \A k \in 1 .. m : d.pal[At(s.from, k - 1, IndexSize) + 1][((k - 1) % 3) + 1]
                           = 4 * (s.data[k] % 64)
  BY <1>1 DEF ReadFollows, InStep, Streams
<1>3. PICK val \in Nat : val = PelData(d) BY PelRead
<1>4. d.pal[d.read + 1][d.pel + 1] = 4 * (val % 64)
  <2>0. /\ d.read \in 0 .. IndexSize - 1 /\ IndexSize \in Nat /\ d.pel \in 0 .. 2
        /\ Len(d.pal) \in Nat /\ \A i \in 1 .. Len(d.pal) : d.pal[i] \in [1 .. 3 -> Levels]
    BY DacIs
  <2>1. d.read + 1 \in 1 .. Len(d.pal) /\ d.pel + 1 \in 1 .. 3 BY <2>0 DEF Readable
  <2>2. PICK l \in Levels : l = d.pal[d.read + 1][d.pel + 1] BY <2>0, <2>1
  <2>3. val = l \div 4 BY <1>3, <2>2 DEF PelData
  <2>4. QED BY <2>2, <2>3, LevelIs
<1>5. /\ Len(t.data) = m + 1 /\ t.data[m + 1] = val
      /\ \A k \in 1 .. m : t.data[k] = s.data[k]
  BY <1>1, <1>3, StreamIs
<1>6. e.pal = d.pal BY PelRead
<1>7. e.read = At(t.from, m + 1, IndexSize) /\ e.pel = (m + 1) % 3
  <2>1. PICK from \in Int : from = s.from BY <1>2
  <2>2. QED BY <1>2, <2>1, ReadOn
<1>8. ASSUME NEW k \in 1 .. (m + 1)
      PROVE  e.pal[At(t.from, k - 1, IndexSize) + 1][((k - 1) % 3) + 1] = 4 * (t.data[k] % 64)
  <2>1. CASE k = m + 1
    <3>1. k - 1 = m BY <2>1
    <3>2. QED BY <1>2, <1>4, <1>5, <1>6, <2>1, <3>1
  <2>2. CASE k # m + 1
    <3>1. k \in 1 .. m BY <2>2
    <3>2. QED BY <1>2, <1>5, <1>6, <3>1
  <2>3. QED BY <2>1, <2>2
<1>9. QED BY <1>5, <1>6, <1>7, <1>8 DEF ReadFollows, InStep
-----------------------------------------------------------------------------
(* The invariant.                                                          *)

PaletteTypes ==
    /\ mode \in DOMAIN Modes /\ grey \in BOOLEAN /\ scanline \in Nat
    /\ dac \in Dacs /\ Len(dac.pal) = Len(Modes[mode].palette)
    /\ stream \in Streams

Sequences == /\ stream.fn = "write" => WriteFollows(stream, dac)
             /\ stream.fn = "read" => ReadFollows(stream, dac)

PaletteInv == PaletteTypes /\ Sequences /\ BlocksAreWhole /\ PixelShows

\* No sequence is under way.
LEMMA NoStreamIs ==
  NoStream \in Streams /\ NoStream.fn = "none"
<1>1. <<>> \in Seq(Nat) OBVIOUS
<1>2. QED BY <1>1 DEF NoStream, Streams

\* Without a call there is nothing to compare.
LEMMA IdleIs ==
  call' = Idle => BlocksAreWhole' /\ PixelShows'
BY DEF Idle, BlocksAreWhole, PixelShows

\* At the start the palette is that of mode 3.
LEMMA InitInv ==
  ASSUME PaletteInit
  PROVE  PaletteInv
<1>1. PICK p : p = Modes[3].palette OBVIOUS
<1>2. p \in Palettes /\ Len(p) = Len(Modes[3].palette) BY <1>1, PaletteAssumption DEF Palettes
<1>3. 0 \in 0 .. IndexSize - 1 /\ 0 \in 0 .. 2 BY PaletteAssumption
<1>4. dac = [read |-> 0, write |-> 0, pel |-> 0, pal |-> p] BY <1>1 DEF PaletteInit
<1>5. dac \in Dacs /\ dac.pal = p BY <1>2, <1>3, <1>4 DEF Dacs
<1>6. PaletteTypes /\ Sequences
  BY <1>2, <1>5, NoStreamIs, PaletteAssumption DEF PaletteInit, PaletteTypes, Sequences
<1>7. call.fn = "none" BY DEF PaletteInit, Idle
<1>8. BlocksAreWhole /\ PixelShows BY <1>7 DEF BlocksAreWhole, PixelShows
<1>9. QED BY <1>6, <1>8 DEF PaletteInv

\* A step that changes neither the colours nor the port sequence.
LEMMA SameColours ==
  ASSUME PaletteInv, UNCHANGED <<mode, dac, stream>>, grey' \in BOOLEAN, scanline' \in Nat
  PROVE  PaletteTypes' /\ Sequences'
<1>1. PaletteTypes' BY DEF PaletteInv, PaletteTypes
<1>2. stream.fn = "write" => WriteFollows(stream', dac')
  <2>1. stream.fn = "write" => WriteFollows(stream, dac) BY DEF PaletteInv, Sequences
  <2>2. QED BY <2>1
<1>3. stream.fn = "read" => ReadFollows(stream', dac')
  <2>1. stream.fn = "read" => ReadFollows(stream, dac) BY DEF PaletteInv, Sequences
  <2>2. QED BY <2>1
<1>4. QED BY <1>1, <1>2, <1>3 DEF Sequences, WriteFollows, ReadFollows, InStep, At

\* The history of a call lasts as long as what it is compared with.
LEMMA SameCall ==
  ASSUME PaletteInv, UNCHANGED <<mode, dac, grey, call>>
  PROVE  BlocksAreWhole' /\ PixelShows'
<1>1. BlocksAreWhole' BY DEF PaletteInv, BlocksAreWhole, Stored
<1>2. PixelShows' BY DEF PaletteInv, PixelShows
<1>3. QED BY <1>1, <1>2

\* A stutter keeps the invariant.
LEMMA StutterStep ==
  ASSUME PaletteInv, UNCHANGED paletteVars
  PROVE  PaletteInv'
<1>1. grey' \in BOOLEAN /\ scanline' \in Nat BY DEF PaletteInv, PaletteTypes, paletteVars
<1>2. UNCHANGED <<mode, dac, stream>> /\ UNCHANGED <<mode, dac, grey, call>> BY DEF paletteVars
<1>3. QED BY <1>1, <1>2, SameColours, SameCall DEF PaletteInv

\* The entries the guest names are entries of the palette.
LEMMA NamedIs ==
  ASSUME PaletteTypes, NEW i \in Named
  PROVE  i \in 0 .. Len(dac.pal) - 1 /\ i \in 0 .. IndexSize - 1 /\ i \in Nat
<1>1. Len(dac.pal) \in Nat /\ Len(dac.pal) <= IndexSize /\ IndexSize \in Nat
  BY DacIs DEF PaletteTypes
<1>2. i \in 0 .. Len(dac.pal) - 1 BY DEF Named
<1>3. QED BY <1>1, <1>2

\* A new index starts a sequence at its first component.
LEMMA StartIs ==
  ASSUME NEW n \in Nat \ {0}, NEW i \in 0 .. n - 1,
         NEW fn \in {"write", "read"}, NEW s, s = [fn |-> fn, from |-> i, data |-> <<>>]
  PROVE  /\ s \in Streams /\ s.fn = fn
         /\ At(s.from, Len(s.data), n) = i /\ Len(s.data) % 3 = 0 /\ Len(s.data) = 0
<1>1. <<>> \in Seq(Nat) /\ Len(<<>>) = 0 /\ i \in Nat OBVIOUS
<1>2. s.fn = fn /\ s.from = i /\ s.data = <<>> /\ s \in Streams BY <1>1 DEF Streams
<1>3. 0 % 3 = 0 /\ 0 \div 3 = 0 /\ i + 0 = i OBVIOUS
<1>4. i % n = i BY WheelIs
<1>5. QED BY <1>1, <1>2, <1>3, <1>4 DEF At

\* Port 3C8h written.
LEMMA OutWriteIndexStep ==
  ASSUME PaletteInv, call = Idle, NEW i \in Named, OutWriteIndex(i)
  PROVE  PaletteInv'
<1>1. PaletteTypes BY DEF PaletteInv
<1>2. PICK n \in Nat \ {0} : n = Len(dac.pal) BY <1>1, DacIs DEF PaletteTypes
<1>3. i \in 0 .. n - 1 /\ i \in 0 .. IndexSize - 1 BY <1>1, <1>2, NamedIs
<1>4. dac' \in Dacs /\ dac'.write = i /\ dac'.pel = 0 /\ dac'.pal = dac.pal
  BY <1>1, <1>3, IndexSet DEF OutWriteIndex, PaletteTypes
<1>5. PICK s : s = stream' OBVIOUS
<1>6. /\ s \in Streams /\ s.fn = "write"
      /\ At(s.from, Len(s.data), n) = i /\ Len(s.data) % 3 = 0 /\ Len(s.data) = 0
  <2>1. PICK fn \in {"write", "read"} : fn = "write" OBVIOUS
  <2>2. s = [fn |-> fn, from |-> i, data |-> <<>>] BY <1>5, <2>1 DEF OutWriteIndex
  <2>3. QED BY <1>3, <2>1, <2>2, StartIs
<1>7. \A k \in 1 .. 0 : FALSE OBVIOUS
<1>8. PaletteTypes' BY <1>1, <1>4, <1>5, <1>6 DEF PaletteTypes, OutWriteIndex
<1>9. WriteFollows(s, dac') BY <1>2, <1>4, <1>6, <1>7 DEF WriteFollows, InStep
<1>10. Sequences' BY <1>5, <1>6, <1>9 DEF Sequences, WriteFollows, InStep, At
<1>11. call' = Idle BY DEF OutWriteIndex
<1>12. QED BY <1>8, <1>10, <1>11, IdleIs DEF PaletteInv

\* Port 3C7h written.
LEMMA OutReadIndexStep ==
  ASSUME PaletteInv, call = Idle, NEW i \in Named, OutReadIndex(i)
  PROVE  PaletteInv'
<1>1. PaletteTypes BY DEF PaletteInv
<1>2. IndexSize \in Nat \ {0} /\ i \in 0 .. IndexSize - 1 BY <1>1, NamedIs, PaletteAssumption
<1>3. dac' \in Dacs /\ dac'.read = i /\ dac'.pel = 0 /\ dac'.pal = dac.pal
  BY <1>1, <1>2, IndexSet DEF OutReadIndex, PaletteTypes
<1>4. PICK s : s = stream' OBVIOUS
<1>5. /\ s \in Streams /\ s.fn = "read"
      /\ At(s.from, Len(s.data), IndexSize) = i /\ Len(s.data) % 3 = 0 /\ Len(s.data) = 0
  <2>1. PICK fn \in {"write", "read"} : fn = "read" OBVIOUS
  <2>2. s = [fn |-> fn, from |-> i, data |-> <<>>] BY <1>4, <2>1 DEF OutReadIndex
  <2>3. QED BY <1>2, <2>1, <2>2, StartIs
<1>6. \A k \in 1 .. 0 : FALSE OBVIOUS
<1>7. PaletteTypes' BY <1>1, <1>3, <1>4, <1>5 DEF PaletteTypes, OutReadIndex
<1>8. ReadFollows(s, dac') BY <1>3, <1>5, <1>6 DEF ReadFollows, InStep
<1>9. Sequences' BY <1>4, <1>5, <1>8 DEF Sequences, ReadFollows, InStep, At
<1>10. call' = Idle BY DEF OutReadIndex
<1>11. QED BY <1>7, <1>9, <1>10, IdleIs DEF PaletteInv

\* A byte more of a sequence, or astray.
LEMMA ExtendedIs ==
  ASSUME stream \in Streams, NEW fn \in {"write", "read"}, NEW val \in Nat,
         NEW t, t = Extended(fn, val)
  PROVE  /\ t \in Streams /\ t.from = stream.from
         /\ t.fn = IF stream.fn = fn THEN fn ELSE "stray"
         /\ stream.fn = fn => t.data = Append(stream.data, val)
<1> DEFINE g == IF stream.fn = fn THEN fn ELSE "stray"
           b == IF stream.fn \in {fn, "stray"} THEN Append(stream.data, val) ELSE <<val>>
<1>1. /\ stream = [fn |-> stream.fn, from |-> stream.from, data |-> stream.data]
      /\ stream.from \in Nat
  BY DEF Streams
<1>2. t = [fn |-> g, from |-> stream.from, data |-> b]
  <2>1. t = [[stream EXCEPT !.fn = g] EXCEPT !.data = b] BY <1>1 DEF Extended
  <2> HIDE DEF g, b
  <2>2. [stream EXCEPT !.fn = g] = [fn |-> g, from |-> stream.from, data |-> stream.data] BY <1>1
  <2>3. QED BY <2>1, <2>2
<1>3. g \in {"none", "write", "read", "stray"} OBVIOUS
<1>4. b \in Seq(Nat)
  <2>1. Append(stream.data, val) \in Seq(Nat) BY StreamIs
  <2>2. <<val>> \in Seq(Nat) OBVIOUS
  <2>3. QED BY <2>1, <2>2
<1>5. stream.fn = fn => b = Append(stream.data, val) OBVIOUS
<1> HIDE DEF b
<1>6. t \in Streams BY <1>1, <1>2, <1>3, <1>4 DEF Streams
<1>7. QED BY <1>2, <1>5, <1>6

\* Port 3C9h written.
LEMMA OutDataStep ==
  ASSUME PaletteInv, call = Idle, OutData(Value[dac.pel + 1])
  PROVE  PaletteInv'
<1>1. PaletteTypes /\ Sequences BY DEF PaletteInv
<1>2. PICK d \in Dacs : d = dac BY <1>1 DEF PaletteTypes
<1>3. PICK e, t : e = dac' /\ t = stream' OBVIOUS
<1>4. PICK val \in Nat : val = Value[d.pel + 1]
  <2>1. d.pel \in 0 .. 2 BY DacIs
  <2>2. PICK c \in 1 .. 3 : c = d.pel + 1 BY <2>1
  <2>3. Value[c] \in Nat BY SentIs
  <2>4. QED BY <2>2, <2>3
<1>5. Writable(d) /\ e = SetPelData(d, val) /\ t = Extended("write", val)
  BY <1>2, <1>3, <1>4 DEF OutData
<1>6. e \in Dacs /\ Len(e.pal) = Len(d.pal)
  <2>1. val \in Int OBVIOUS
  <2>2. QED BY <1>5, <2>1, PelSet
<1>7. /\ t \in Streams /\ t.from = stream.from
      /\ t.fn = IF stream.fn = "write" THEN "write" ELSE "stray"
      /\ stream.fn = "write" => t.data = Append(stream.data, val)
  <2>1. stream \in Streams BY <1>1 DEF PaletteTypes
  <2>2. QED BY <1>5, <2>1, ExtendedIs
<1>8. t.fn = "write" => WriteFollows(t, e)
  <2>1. SUFFICES ASSUME t.fn = "write" PROVE WriteFollows(t, e) OBVIOUS
  <2>2. PICK s \in Streams : s = stream BY <1>1 DEF PaletteTypes
  <2>3. WriteFollows(s, d) BY <1>1, <1>2, <1>7, <2>1, <2>2 DEF Sequences
  <2>4. t.from = s.from /\ t.data = Append(s.data, Value[d.pel + 1]) /\ e = SetPelData(d, Value[d.pel + 1])
    BY <1>2, <1>4, <1>5, <1>7, <2>1, <2>2
  <2>5. QED BY <1>5, <2>3, <2>4, StreamWritten
<1>9. PaletteTypes' BY <1>1, <1>2, <1>3, <1>6, <1>7 DEF PaletteTypes, OutData
<1>10. Sequences' BY <1>3, <1>7, <1>8 DEF Sequences, WriteFollows, InStep, At
<1>11. call' = Idle BY DEF OutData
<1>12. QED BY <1>9, <1>10, <1>11, IdleIs DEF PaletteInv

\* Port 3C9h read.
LEMMA InDataStep ==
  ASSUME PaletteInv, call = Idle, InData
  PROVE  PaletteInv'
<1>1. PaletteTypes /\ Sequences BY DEF PaletteInv
<1>2. PICK e, t : e = dac' /\ t = stream' OBVIOUS
<1>3. PICK d \in Dacs : d = dac BY <1>1 DEF PaletteTypes
<1>4. Readable(d) /\ e = AfterRead(d) /\ t = Extended("read", PelData(d))
  BY <1>2, <1>3 DEF InData
<1>5. PICK val \in Nat : val = PelData(d) BY <1>4, PelRead
<1>6. e \in Dacs /\ e.pal = d.pal BY <1>4, PelRead
<1>7. /\ t \in Streams /\ t.from = stream.from
      /\ t.fn = IF stream.fn = "read" THEN "read" ELSE "stray"
      /\ stream.fn = "read" => t.data = Append(stream.data, val)
  <2>1. stream \in Streams BY <1>1 DEF PaletteTypes
  <2>2. QED BY <1>4, <1>5, <2>1, ExtendedIs
<1>8. t.fn = "read" => ReadFollows(t, e)
  <2>1. SUFFICES ASSUME t.fn = "read" PROVE ReadFollows(t, e) OBVIOUS
  <2>2. PICK s \in Streams : s = stream BY <1>1 DEF PaletteTypes
  <2>3. ReadFollows(s, d) BY <1>1, <1>3, <1>7, <2>1, <2>2 DEF Sequences
  <2>4. t.from = s.from /\ t.data = Append(s.data, PelData(d)) BY <1>5, <1>7, <2>1, <2>2
  <2>5. QED BY <1>4, <2>3, <2>4, StreamReadOn
<1>9. PaletteTypes' BY <1>1, <1>2, <1>3, <1>6, <1>7 DEF PaletteTypes, InData
<1>10. Sequences' BY <1>2, <1>7, <1>8 DEF Sequences, ReadFollows, InStep, At
<1>11. call' = Idle BY DEF InData
<1>12. QED BY <1>9, <1>10, <1>11, IdleIs DEF PaletteInv

\* A new mode leaves no sequence under way.
LEMMA SetVideoModeStep ==
  ASSUME PaletteInv, call = Idle, NEW m \in DOMAIN Modes, SetVideoMode(m)
  PROVE  PaletteInv'
<1>1. PaletteTypes BY DEF PaletteInv
<1>2. PICK p : p = Modes[m].palette OBVIOUS
<1>3. p \in Palettes /\ Len(p) = Len(Modes[m].palette) BY <1>2, PaletteAssumption DEF Palettes
<1>4. PICK d \in Dacs : d = dac BY <1>1 DEF PaletteTypes
<1>5. [d EXCEPT !.pal = p] = [read |-> d.read, write |-> d.write, pel |-> d.pel, pal |-> p]
  BY DacIs
<1>6. d.read \in 0 .. IndexSize - 1 /\ d.write \in 0 .. IndexSize - 1 /\ d.pel \in 0 .. 2
  BY DacIs
<1>7. PICK e : e = dac' OBVIOUS
<1>8. e = [read |-> d.read, write |-> d.write, pel |-> d.pel, pal |-> p]
  BY <1>2, <1>4, <1>5, <1>7 DEF SetVideoMode
<1>9. e \in Dacs /\ e.pal = p BY <1>3, <1>6, <1>8 DEF Dacs
<1>10. PaletteTypes'
  <2>1. mode' = m /\ stream' = NoStream /\ grey' = grey /\ scanline' = scanline
    BY DEF SetVideoMode
  <2>2. QED BY <1>1, <1>2, <1>3, <1>7, <1>9, <2>1, NoStreamIs DEF PaletteTypes
<1>11. stream'.fn = "none" BY NoStreamIs DEF SetVideoMode
<1>12. Sequences' BY <1>11 DEF Sequences
<1>13. call' = Idle BY DEF SetVideoMode
<1>14. QED BY <1>10, <1>12, <1>13, IdleIs DEF PaletteInv

\* Grey scales are asked for between calls.
LEMMA SetGreyStep ==
  ASSUME PaletteInv, call = Idle, SetGrey
  PROVE  PaletteInv'
<1>1. grey' \in BOOLEAN BY DEF PaletteInv, PaletteTypes, SetGrey
<1>2. scanline' \in Nat BY DEF PaletteInv, PaletteTypes, SetGrey
<1>3. UNCHANGED <<mode, dac, stream>> /\ call' = Idle BY DEF SetGrey
<1>4. QED BY <1>1, <1>2, <1>3, SameColours, IdleIs DEF PaletteInv

\* AX=1010h and AX=1012h.
LEMMA SetColoursStep ==
  ASSUME PaletteInv, call = Idle, NEW i \in Named, NEW b \in Blocks, SetColours(i, b)
  PROVE  PaletteInv'
<1>1. PaletteTypes BY DEF PaletteInv
<1>2. PICK d \in Dacs, e \in {dac'} : d = dac /\ e = dac' BY <1>1 DEF PaletteTypes
<1>3. i \in 0 .. Len(d.pal) - 1 BY <1>1, <1>2, NamedIs
<1>4. b \in Seq(Triples) BY SentAssumption
<1>5. e = SetDacBlock(d, i, b) BY <1>2 DEF SetColours
<1>6. SetSoFar(e, d, i, b, Len(b)) BY <1>3, <1>4, <1>5, BlockIsSet
<1>7. PICK n : n = Len(d.pal) OBVIOUS
<1>8. /\ e \in Dacs /\ Len(e.pal) = n
      /\ \A k \in 1 .. Len(b) :
            LastAt(i, k, Len(b), n) => e.pal[Spot(i, k, n)] = Scaled(Stored(b[k]))
      /\ \A j \in 1 .. n : (\A k \in 1 .. Len(b) : j # Spot(i, k, n)) => e.pal[j] = d.pal[j]
  BY <1>6, <1>7 DEF SetSoFar
<1>9. /\ mode' = mode /\ grey' = grey /\ scanline' = scanline /\ stream' = NoStream
      /\ call' = [fn |-> "set", index |-> i, colours |-> b, before |-> d.pal]
  BY <1>2 DEF SetColours
<1>10. PaletteTypes' BY <1>1, <1>2, <1>7, <1>8, <1>9, NoStreamIs DEF PaletteTypes
<1>11. Sequences'
  <2>1. stream'.fn = "none" BY <1>9, NoStreamIs
  <2>2. QED BY <2>1 DEF Sequences
<1>12. PixelShows'
  <2>1. call'.fn # "pixel" BY <1>9
  <2>2. QED BY <2>1 DEF PixelShows
<1>13. BlocksAreWhole'
  <2>1. call'.fn = "set" /\ call'.index = i /\ call'.colours = b /\ call'.before = d.pal BY <1>9
  <2>2. DOMAIN b = 1 .. Len(b) BY <1>4
  <2>3. ASSUME NEW k \in DOMAIN b,
               \A l \in DOMAIN b : ((call'.index + l - 1) % Len(dac'.pal)) + 1 =
                                   ((call'.index + k - 1) % Len(dac'.pal)) + 1 => l <= k
        PROVE  dac'.pal[((call'.index + k - 1) % Len(dac'.pal)) + 1] = Scaled(Stored(b[k]))
    <3>1. Len(dac'.pal) = n BY <1>2, <1>8
    <3>2. LastAt(i, k, Len(b), n) BY <2>1, <2>2, <2>3, <3>1 DEF LastAt, Spot
    <3>3. k \in 1 .. Len(b) BY <2>2
    <3>4. dac'.pal[Spot(i, k, n)] = Scaled(Stored(b[k])) BY <1>2, <1>8, <3>2, <3>3
    <3>5. QED BY <2>1, <3>1, <3>4 DEF Spot
  <2>4. \A j \in 1 .. Len(dac'.pal) :
           j \notin {((call'.index + k - 1) % Len(dac'.pal)) + 1 : k \in DOMAIN b} =>
              dac'.pal[j] = call'.before[j]
    BY <1>2, <1>8, <2>1, <2>2 DEF Spot
  <2>5. \A c : Stored(c)' = Stored(c) BY <1>9 DEF Stored
  <2>6. QED BY <2>1, <2>3, <2>4, <2>5 DEF BlocksAreWhole
<1>14. QED BY <1>10, <1>11, <1>12, <1>13 DEF PaletteInv

\* AX=1015h and AX=1017h.
LEMMA GetColoursStep ==
  ASSUME PaletteInv, call = Idle, NEW i \in Named, NEW n \in Counts, GetColours(i, n)
  PROVE  PaletteInv'
<1>1. PaletteTypes BY DEF PaletteInv
<1>2. PICK d \in Dacs : d = dac BY <1>1 DEF PaletteTypes
<1>3. i \in 0 .. IndexSize - 1 /\ n \in Nat BY <1>1, NamedIs, SentAssumption
<1>4. PICK got : got = ReadDacBlock(d, i, n) OBVIOUS
<1>5. \A k \in 0 .. n - 1 : (i + k) % IndexSize < Len(d.pal) BY <1>2 DEF GetColours
<1>6. ReadSoFar(got, d, i, 3 * n) BY <1>3, <1>4, <1>5, BlockIsRead
<1>7. /\ got.dac \in Dacs /\ got.dac.pal = d.pal
      /\ got.bytes \in Seq(Nat) /\ Len(got.bytes) = 3 * n
      /\ \A j \in 1 .. 3 * n :
            4 * got.bytes[j] = d.pal[At(i, j - 1, IndexSize) + 1][((j - 1) % 3) + 1]
  BY <1>6 DEF ReadSoFar
<1>8. /\ mode' = mode /\ grey' = grey /\ scanline' = scanline /\ stream' = NoStream
      /\ dac' = got.dac /\ call' = [fn |-> "get", index |-> i, bytes |-> got.bytes]
  BY <1>2, <1>4 DEF GetColours
<1>9. PaletteTypes' BY <1>1, <1>2, <1>7, <1>8, NoStreamIs DEF PaletteTypes
<1>10. Sequences'
  <2>1. stream'.fn = "none" BY <1>8, NoStreamIs
  <2>2. QED BY <2>1 DEF Sequences
<1>11. PixelShows'
  <2>1. call'.fn # "pixel" BY <1>8
  <2>2. QED BY <2>1 DEF PixelShows
<1>12. BlocksAreWhole'
  <2>1. call'.fn = "get" /\ call'.index = i /\ call'.bytes = got.bytes BY <1>8
  <2>2. DOMAIN got.bytes = 1 .. 3 * n BY <1>7
  <2>3. \A k \in DOMAIN got.bytes : 4 * got.bytes[k] =
           dac'.pal[((i + ((k - 1) \div 3)) % IndexSize) + 1][((k - 1) % 3) + 1]
    BY <1>7, <1>8, <2>2 DEF At
  <2>4. QED BY <2>1, <2>3 DEF BlocksAreWhole
<1>13. QED BY <1>9, <1>10, <1>11, <1>12 DEF PaletteInv

\* AH=0Ch.
LEMMA PlotStep ==
  ASSUME PaletteInv, call = Idle, NEW x \in Xs, NEW y \in Ys, NEW color \in Inks, NEW fill \in Fill,
         Plot(x, y, color, fill)
  PROVE  PaletteInv'
<1>1. PICK kind \in {"CGA4", "VGA"} : kind = Modes[mode].kind BY DEF Plot
<1>2. PICK mem : mem = Filled(kind, fill) OBVIOUS
<1>3. PICK old : old = Digit(fill, Slot(x)) OBVIOUS
<1>4. color \in Octets /\ fill \in Octets BY PixelsAssumption
<1>5. PICK A, B : A = Frame(kind, mem) /\ B = Frame(kind, WritePixel(kind, mem, x, y, color)) OBVIOUS
<1>6. /\ old \in 0 .. 3 /\ (kind = "CGA4" => A[<<x, y>>] = CgaEntry[old + 1])
      /\ B = [A EXCEPT ![<<x, y>>] = Ink(kind, old, color)]
  <2>1. /\ old \in 0 .. 3 /\ (kind = "CGA4" => Frame(kind, mem)[<<x, y>>] = CgaEntry[old + 1])
        /\ Frame(kind, WritePixel(kind, mem, x, y, color)) =
           [Frame(kind, mem) EXCEPT ![<<x, y>>] = Ink(kind, old, color)]
    BY <1>2, <1>3, <1>4, PixelIsWritten
  <2>2. QED BY <1>5, <2>1
<1>7. /\ UNCHANGED <<mode, dac, stream>> /\ grey' = grey /\ scanline' = scanline
      /\ call' = [fn |-> "pixel", at |-> <<x, y>>, color |-> color, before |-> A, after |-> B]
  BY <1>1, <1>2, <1>5 DEF Plot, Filled
<1>8. grey' \in BOOLEAN /\ scanline' \in Nat BY <1>7 DEF PaletteInv, PaletteTypes
<1>9. PaletteTypes' /\ Sequences' BY <1>7, <1>8, SameColours
<1>10. PICK c : c = call' OBVIOUS
<1>11. c.fn = "pixel" /\ c.at = <<x, y>> /\ c.color = color /\ c.before = A /\ c.after = B
  BY <1>7, <1>10
<1>12. BlocksAreWhole' BY <1>10, <1>11 DEF BlocksAreWhole
<1>13. PixelShows'
  <2>1. kind = "VGA" => Ink(kind, old, color) = color BY DEF Ink
  <2>2. kind = "CGA4" => (CHOOSE j \in 0 .. 3 : CgaEntry[j + 1] = A[<<x, y>>]) = old
    BY <1>6, CgaEntries
  <2>3. kind # "VGA" => kind = "CGA4" OBVIOUS
  <2>4. Modes[mode'].kind = kind BY <1>1, <1>7
  <2>5. CASE kind = "VGA"
    <3>1. B = [A EXCEPT ![<<x, y>>] = color] BY <1>6, <2>1, <2>5
    <3>2. QED BY <1>10, <1>11, <2>4, <2>5, <3>1 DEF PixelShows
  <2>6. CASE kind = "CGA4"
    <3>1. Ink(kind, old, color) =
          CgaEntry[(IF color >= 128 THEN XorPair(old, color % 4) ELSE color % 4) + 1]
      BY <2>6 DEF Ink
    <3>2. PICK ink : ink = Ink(kind, old, color) OBVIOUS
    <3>3. B = [A EXCEPT ![<<x, y>>] = ink] BY <1>6, <3>2
    <3>4. PICK was : was = CHOOSE j \in 0 .. 3 : CgaEntry[j + 1] = c.before[c.at] OBVIOUS
    <3>5. was = old BY <1>11, <2>2, <2>6, <3>4
    <3>6. ink = CgaEntry[(IF c.color >= 128 THEN XorPair(was, c.color % 4) ELSE c.color % 4) + 1]
      BY <1>11, <3>1, <3>2, <3>5
    <3>7. c.after = [c.before EXCEPT ![c.at] = ink] BY <1>11, <3>3
    <3>8. kind # "VGA" BY <2>6
    <3>9. QED BY <1>10, <2>4, <3>4, <3>6, <3>7, <3>8 DEF PixelShows
  <2>7. QED BY <2>3, <2>5, <2>6
<1>14. QED BY <1>9, <1>12, <1>13 DEF PaletteInv

\* Back in the guest.
LEMMA ReturnStep ==
  ASSUME PaletteInv, Return
  PROVE  PaletteInv'
<1>1. grey' \in BOOLEAN /\ scanline' \in Nat BY DEF PaletteInv, PaletteTypes, Return
<1>2. UNCHANGED <<mode, dac, stream>> /\ call' = Idle BY DEF Return
<1>3. QED BY <1>1, <1>2, SameColours, IdleIs DEF PaletteInv

\* The beam moves on.
LEMMA ScanlineStep ==
  ASSUME PaletteInv, ProgressScanline
  PROVE  PaletteInv'
<1>1. grey' \in BOOLEAN BY DEF PaletteInv, PaletteTypes, ProgressScanline
<1>2. scanline' \in Nat BY DEF PaletteInv, PaletteTypes, ProgressScanline
<1>3. UNCHANGED <<mode, dac, stream>> /\ UNCHANGED <<mode, dac, grey, call>>
  BY DEF ProgressScanline
<1>4. QED BY <1>1, <1>2, <1>3, SameColours, SameCall DEF PaletteInv

\* Every step keeps the invariant.
LEMMA PaletteStep ==
  ASSUME PaletteInv, [PaletteNext]_paletteVars
  PROVE  PaletteInv'
<1>1. CASE call = Idle /\ Port
  <2>1. ASSUME NEW i \in Named, OutWriteIndex(i) PROVE PaletteInv'
    BY <1>1, <2>1, OutWriteIndexStep
  <2>2. ASSUME NEW i \in Named, OutReadIndex(i) PROVE PaletteInv'
    BY <1>1, <2>2, OutReadIndexStep
  <2>3. CASE OutData(Value[dac.pel + 1]) BY <1>1, <2>3, OutDataStep
  <2>4. CASE InData BY <1>1, <2>4, InDataStep
  <2>5. QED BY <1>1, <2>1, <2>2, <2>3, <2>4 DEF Port
<1>2. CASE call = Idle /\ Bios
  <2>1. ASSUME NEW m \in DOMAIN Modes, SetVideoMode(m) PROVE PaletteInv'
    BY <1>2, <2>1, SetVideoModeStep
  <2>2. CASE SetGrey BY <1>2, <2>2, SetGreyStep
  <2>3. ASSUME NEW i \in Named, NEW b \in Blocks, SetColours(i, b) PROVE PaletteInv'
    BY <1>2, <2>3, SetColoursStep
  <2>4. ASSUME NEW i \in Named, NEW n \in Counts, GetColours(i, n) PROVE PaletteInv'
    BY <1>2, <2>4, GetColoursStep
  <2>5. ASSUME NEW x \in Xs, NEW y \in Ys, NEW color \in Inks, NEW fill \in Fill,
               Plot(x, y, color, fill)
        PROVE  PaletteInv'
    BY <1>2, <2>5, PlotStep
  <2>6. QED BY <1>2, <2>1, <2>2, <2>3, <2>4, <2>5 DEF Bios
<1>3. CASE Return BY <1>3, ReturnStep
<1>4. CASE ProgressScanline BY <1>4, ScanlineStep
<1>5. CASE UNCHANGED paletteVars BY <1>5, StutterStep
<1>6. QED BY <1>1, <1>2, <1>3, <1>4, <1>5 DEF PaletteNext

\* The DAC's registers stay in their ranges, and its indices and its component
\* are where the guest's port sequence, counted in bytes, puts them.
THEOREM PaletteInvariant == PaletteSpec => []PaletteInv
<1>1. PaletteInit => PaletteInv BY InitInv
<1>2. PaletteInv /\ [PaletteNext]_paletteVars => PaletteInv' BY PaletteStep
<1>3. QED BY <1>1, <1>2, PTL DEF PaletteSpec

\* A BIOS call sets and reads the DAC entries it names and no others, whatever
\* port sequence it comes in the middle of (set_dac_block, read_dac_block).
THEOREM BlocksWhole == PaletteSpec => []BlocksAreWhole
<1>1. PaletteInv => BlocksAreWhole BY DEF PaletteInv
<1>2. QED BY <1>1, PaletteInvariant, PTL

\* The bytes a guest writes or reads after setting an index are the components
\* of the entries from that index on (set_pel_data, get_pel_data).
THEOREM StreamsInStep == PaletteSpec => []StreamsKeepStep
<1>1. ASSUME PaletteInv PROVE StreamsKeepStep
  <2>1. PaletteTypes /\ Sequences BY <1>1 DEF PaletteInv
  <2>2. DOMAIN stream.data = 1 .. Len(stream.data) BY <2>1 DEF PaletteTypes, Streams
  <2>3. CASE stream.fn = "write"
    BY <2>1, <2>2, <2>3 DEF Sequences, WriteFollows, InStep, At, StreamsKeepStep
  <2>4. CASE stream.fn = "read"
    BY <2>1, <2>2, <2>4 DEF Sequences, ReadFollows, InStep, At, StreamsKeepStep
  <2>5. QED BY <2>3, <2>4 DEF StreamsKeepStep
<1>2. QED BY <1>1, PaletteInvariant, PTL

\* A pixel written is the only one to change on the screen, and shows its
\* colour or the XOR with the one before (AH=0Ch, the frames of modes 04h, 13h).
THEOREM PixelsShow == PaletteSpec => []PixelShows
<1>1. PaletteInv => PixelShows BY DEF PaletteInv
<1>2. QED BY <1>1, PaletteInvariant, PTL
=============================================================================
