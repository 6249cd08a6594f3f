------------------------------ MODULE Strings -------------------------------
(***************************************************************************)
(* The string instructions of Machine::execute with their repeat prefixes. *)
(* A repeated instruction is executed once for each element: the emulator  *)
(* sets IP back to it, with the state of the loop in CX, SI, DI and ZF.    *)
(*                                                                         *)
(* Offsets wrap within their segment, the bytes of an element do not: they *)
(* lie in the flat memory behind its first one.  The instruction itself is *)
(* assumed to lie where the string is not.                                 *)
(***************************************************************************)
EXTENDS Integers, Sequences, FiniteSets

CONSTANTS
    Size,       \* how many offsets a segment has (65536)
    ByteSize,   \* how many values a byte has (256)
    Widths,     \* bytes of an element: some of 1, 2 and 4
    DS, ES,     \* the flat addresses of the two segments
    Memory,     \* the addresses of the memory
    Contents    \* what may be in memory

ASSUME StringsAssumption ==
    /\ Size \in Nat \ {0} /\ ByteSize \in Nat \ {0, 1} /\ Widths \subseteq {1, 2, 4}
    /\ DS \in Nat /\ ES \in Nat /\ Memory \subseteq Nat
    /\ \A base \in {DS, ES} : base .. base + Size + 2 \subseteq Memory
    /\ Contents \subseteq [Memory -> 0 .. ByteSize - 1]

Compares == {"cmps", "scas"}
Ops == {"movs", "stos", "lods", "ins", "outs"} \cup Compares

VARIABLES
    op, width, rep,       \* the instruction
    down,                 \* the direction flag
    mem,                  \* the memory, flat
    acc,                  \* AL, AX or EAX
    si, di, cx,           \* registers
    flags,                \* CF and ZF
    pc,                   \* "run" before the next element, "next" after the last
    n,                    \* history: how many elements there were
    ports,                \* history: bytes read from or written to ports
    begin                 \* history: memory, registers and ZF at the start

insn == <<op, width, rep, down, begin>>
vars == <<insn, mem, acc, si, di, cx, flags, pc, n, ports>>
-----------------------------------------------------------------------------
(* Elements.                                                               *)

\* FlatMemory::read_u8, read_u16 and read_u32: the first byte weighs least.
Word(m, addr) == m[addr] + ByteSize * m[addr + 1]
Read(m, addr, w) ==
    CASE w = 1 -> m[addr]
      [] w = 2 -> Word(m, addr)
      [] w = 4 -> Word(m, addr) + ByteSize * ByteSize * Word(m, addr + 2)

\* How many values an element of w bytes has.
Values(w) ==
    CASE w = 1 -> ByteSize
      [] w = 2 -> ByteSize * ByteSize
      [] w = 4 -> ByteSize * ByteSize * ByteSize * ByteSize

BytesAt(m, addr, w) == [i \in 1 .. w |-> m[addr + i - 1]]
BytesOf(value, w) == [i \in 1 .. w |-> (value \div (ByteSize ^ (i - 1))) % ByteSize]
Written(m, addr, bytes) ==
    [a \in DOMAIN m |-> IF a - addr + 1 \in DOMAIN bytes THEN bytes[a - addr + 1] ELSE m[a]]

\* wrapping_add and wrapping_sub of the width of an element.
Step(offset) == (IF down THEN offset - width ELSE offset + width) % Size
-----------------------------------------------------------------------------
(* CX and the repeat prefixes.                                             *)

\* Fault: a comparison that ends the search is tested as one that goes on.
Repeats_Swapped(count, zero) ==
    rep # "none" /\ count # 0 /\ (rep = "repe" => ~zero) /\ (rep = "repne" => zero)

Repeats(count, zero) ==
    rep # "none" /\ count # 0 /\ (rep = "repe" => zero) /\ (rep = "repne" => ~zero)

\* The end of Machine::execute: CX counts down, unprefixed it stays.
Repeat(zero) ==
    LET count == IF rep = "none" THEN cx ELSE (cx - 1) % Size
    IN  /\ cx' = count
        /\ pc' = IF Repeats(count, zero) THEN "run" ELSE "next"
        /\ n' = n + 1
        /\ UNCHANGED insn
-----------------------------------------------------------------------------
(* The instructions, one element.                                          *)

Running(o) == pc = "run" /\ op = o

\* Fault: the byte is stored where DI has moved on to.
Movs_StepsFirst ==
    /\ Running("movs")
    /\ mem' = Written(mem, ES + Step(di), BytesAt(mem, DS + si, width))
    /\ si' = Step(si) /\ di' = Step(di)
    /\ Repeat(flags.zero)
    /\ UNCHANGED <<acc, flags, ports>>

Movs ==
    /\ Running("movs")
    /\ mem' = Written(mem, ES + di, BytesAt(mem, DS + si, width))
    /\ si' = Step(si) /\ di' = Step(di)
    /\ Repeat(flags.zero)
    /\ UNCHANGED <<acc, flags, ports>>

Stos ==
    /\ Running("stos")
    /\ mem' = Written(mem, ES + di, BytesOf(acc, width))
    /\ di' = Step(di)
    /\ Repeat(flags.zero)
    /\ UNCHANGED <<acc, si, flags, ports>>

Lods ==
    /\ Running("lods")
    /\ acc' = Read(mem, DS + si, width)
    /\ si' = Step(si)
    /\ Repeat(flags.zero)
    /\ UNCHANGED <<mem, di, flags, ports>>

\* INSW is decoded but not handled: nothing happens to memory or DI.
Ins ==
    /\ Running("ins")
    /\ IF width = 1
       THEN \E byte \in 0 .. ByteSize - 1 :
               /\ mem' = Written(mem, ES + di, <<byte>>)
               /\ ports' = Append(ports, byte)
               /\ di' = Step(di)
       ELSE UNCHANGED <<mem, ports, di>>
    /\ Repeat(flags.zero)
    /\ UNCHANGED <<acc, si, flags>>

\* A word goes to two ports, the low byte first.
Outs ==
    /\ Running("outs")
    /\ ports' = ports \o BytesAt(mem, DS + si, width)
    /\ si' = Step(si)
    /\ Repeat(flags.zero)
    /\ UNCHANGED <<mem, acc, di, flags>>

\* Fault: a byte is compared as the word that was read.
Compared_Word(dst, src) ==
    LET all == Values(2)
        res == (dst - src) % (2 * all)
    IN  [carry |-> res \div all = 1, zero |-> res % all = 0]

\* cmp8, cmp16: CF and ZF of dst - src at the width of the element.
Compared(dst, src) ==
    LET all == Values(width)
        res == (dst - src) % (2 * all)
    IN  [carry |-> res \div all = 1, zero |-> res % all = 0]

\* CMPSB reads words and compares bytes.
Cmps ==
    /\ Running("cmps")
    /\ LET w == IF width = 1 THEN 2 ELSE width
           f == Compared(Read(mem, ES + di, w), Read(mem, DS + si, w))
       IN  /\ flags' = f
           /\ Repeat(f.zero)
    /\ si' = Step(si) /\ di' = Step(di)
    /\ UNCHANGED <<mem, acc, ports>>

Scas ==
    /\ Running("scas")
    /\ LET f == Compared(Read(mem, ES + di, width), acc)
       IN  /\ flags' = f
           /\ Repeat(f.zero)
    /\ di' = Step(di)
    /\ UNCHANGED <<mem, acc, si, ports>>
-----------------------------------------------------------------------------
\* What the decoder makes of the prefixes: F3 repeats by the kind of the
\* instruction, F2 any of them while ZF is clear.  There is no INSD, OUTSD,
\* CMPSD or SCASD.
Decoded(o, w, r) ==
    /\ r \in {"none", "repne", IF o \in Compares THEN "repe" ELSE "rep"}
    /\ w = 4 => o \in {"movs", "stos", "lods"}

\* The guest has loaded the registers and comes to the instruction.
Init ==
    /\ op \in Ops /\ width \in Widths /\ rep \in {"none", "rep", "repe", "repne"}
    /\ Decoded(op, width, rep)
    /\ down \in BOOLEAN
    /\ mem \in Contents
    /\ si \in IF op \in {"stos", "ins", "scas"} THEN {0} ELSE 0 .. Size - 1
    /\ di \in IF op \in {"lods", "outs"} THEN {0} ELSE 0 .. Size - 1
    /\ cx \in 0 .. Size - 1
    /\ acc \in IF op \in {"stos", "scas"} THEN 0 .. Values(width) - 1 ELSE {0}
    /\ flags \in [carry : {FALSE}, zero : BOOLEAN]
    /\ pc = "run"
    /\ n = 0
    /\ ports = <<>>
    /\ begin = [mem |-> mem, si |-> si, di |-> di, cx |-> cx, zero |-> flags.zero]

Next == Movs \/ Stos \/ Lods \/ Ins \/ Outs \/ Cmps \/ Scas

Spec == Init /\ [][Next]_vars
-----------------------------------------------------------------------------
(* Properties.                                                             *)

\* Where element k of a string is; the first is element 0.
Offset(first, k) == (first + (IF down THEN -k ELSE k) * width) % Size
Source(k) == DS + Offset(begin.si, k)
Target(k) == ES + Offset(begin.di, k)
Bytes(addr) == addr .. addr + width - 1
Element(addr) == Read(begin.mem, addr, width)

Stores == op \in {"movs", "stos"} \/ (op = "ins" /\ width = 1)
BytesStored == IF Stores THEN UNION {Bytes(Target(k)) : k \in 0 .. n - 1} ELSE {}
Stored(k) == CASE op = "movs" -> BytesAt(begin.mem, Source(k), width)
               [] op = "stos" -> BytesOf(acc, width)
               [] OTHER -> <<ports[k + 1]>>

\* Each element was read before any of it was overwritten.
InTime ==
    \A k \in 0 .. n - 1 : \A j \in 0 .. k - 1 : Bytes(Source(k)) \cap Bytes(Target(j)) = {}

\* No later element was stored over element k.
Lasts(k) == \A j \in k + 1 .. n - 1 : Bytes(Target(k)) \cap Bytes(Target(j)) = {}

RestStays == \A a \in Memory \ BytesStored : mem[a] = begin.mem[a]
BlocksArrive ==
    Stores /\ (op = "movs" => InTime) =>
       \A k \in 0 .. n - 1 : Lasts(k) => BytesAt(mem, Target(k), width) = Stored(k)
PortsTold ==
    op = "outs" => \A i \in DOMAIN ports :
       ports[i] = begin.mem[Source((i - 1) \div width) + ((i - 1) % width)]

\* A copy whose elements are read before they are overwritten is a copy of
\* what was there, in both directions, between overlapping segments and over
\* the end of a segment; STOS fills, INS stores what the port gave; what is
\* not written stays; OUTS tells the ports the bytes in their order (Op::Movsb -
\* Movsd, Stosb - Stosd, Insb, Outsb, Outsw).
BlocksMove == RestStays /\ BlocksArrive /\ PortsTold

\* Whether element k equals the one it is compared with.
Other(k) == IF op = "cmps" THEN Element(Source(k)) ELSE acc
Equal(k) == Element(Target(k)) = Other(k)

Counted == rep = "none" \/ begin.cx # 0
Limit == IF rep = "none" THEN 1 ELSE begin.cx
GoesOn(k) ==
    IF op \in Compares THEN Equal(k) <=> rep = "repe" ELSE rep = "repne" => ~begin.zero

\* An instruction with a count ends after CX elements, or with the first that
\* decides its search, and the registers are just behind that one: where the
\* guest subtracts one to find it.  An instruction that compares nothing
\* repeats under REPNE by the ZF of before.  How many elements a count of 0
\* takes is another matter: see ZeroTakesNone.
EndsInTime ==
    /\ Counted => /\ n <= Limit
                  /\ pc = "next" => n = Limit \/ ~GoesOn(n - 1)
                  /\ pc = "run" => n < Limit
    /\ \A k \in 0 .. n - 2 : GoesOn(k)
    /\ pc = "run" /\ n > 0 => GoesOn(n - 1)
    /\ rep # "none" => cx = (begin.cx - n) % Size
    /\ op \in {"movs", "lods", "outs", "cmps"} => si = Offset(begin.si, n)
    /\ op \in {"movs", "stos", "cmps", "scas"} => di = Offset(begin.di, n)

\* REP STOS fills nothing when CX is 0: the tracer annotates the instruction
\* as "while cx-- > 0 { [es:di] = al }".  It is false of the code, which
\* executes an element before it counts.
ZeroTakesNone == op = "stos" /\ rep = "rep" /\ begin.cx = 0 => n = 0 /\ mem = begin.mem

\* The bytes behind two bytes that are compared differ in their lowest bit.
Twisted(k) ==
    /\ op = "cmps" /\ width = 1
    /\ (begin.mem[Target(k) + 1] + begin.mem[Source(k) + 1]) % 2 = 1

Borrows(k) ==
    IF Twisted(k) THEN ~(Element(Target(k)) < Other(k)) ELSE Element(Target(k)) < Other(k)

\* After a comparison ZF tells whether the last elements are equal and CF
\* whether the one at DI is the smaller (an 8086 subtracts it from the other,
\* so for it CF says the opposite of unequal elements); but CF of CMPSB is
\* inverted where Twisted, as Op::Cmpsb reads words.
OrderIsTold ==
    op \in Compares /\ n > 0 =>
       /\ flags.zero <=> Equal(n - 1)
       /\ flags.carry <=> Borrows(n - 1)
=============================================================================
