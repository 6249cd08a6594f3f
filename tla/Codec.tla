-------------------------------- MODULE Codec --------------------------------
(***************************************************************************)
(* Disassembling a block, assembling what was found, and disassembling the *)
(* result: Decoder::decode_to_block, Encoder::encode_vec and               *)
(* decode_to_block again, as the tests, the fuzzer and the comparison with *)
(* another disassembler use the two together.                              *)
(***************************************************************************)
EXTENDS Decoder, Encoder

CONSTANTS
  Codes,           (* what guest code begins with: sequences of bytes         *)
  Starts,          (* the offsets it may be at                                *)
  Filler,          (* the byte in the rest of the segment                     *)
  Count,           (* how many instructions are disassembled                  *)
  OverflowChecks   (* the build panics when an offset leaves 16 bits          *)

\* A segment is never nothing but prefixes, which would be read forever, and
\* holds what is assembled: an encoded instruction has at most 9 bytes.
ASSUME CodecAssumption ==
  /\ Starts \subseteq 0..(SegSize - 1) /\ Filler \in (0..255) \ PrefixBytes
  /\ Count \in Nat \ {0} /\ OverflowChecks \in BOOLEAN
  /\ Codes \subseteq Seq(0..255) /\ \A c \in Codes : Len(c) < SegSize
  /\ 9 * Count < SegSize

VARIABLES
  start,    (* the offset of the code                                         *)
  mem,      (* the segment                                                    *)
  offset,   (* inst_offset: where the next instruction is, behind start       *)
  ops,      (* the instructions of the first disassembly                      *)
  out,      (* what encode_vec has collected                                  *)
  ends,     (* history: Len(out) after each instruction                       *)
  again,    (* the instructions of the second disassembly                     *)
  pc        (* "disassemble", "assemble", "again", "done", "error", "panic"   *)

vars == <<start, mem, offset, ops, out, ends, again, pc>>

Load(at, bytes) ==
  [k \in 0..(SegSize - 1) |->
     LET j == ((k - at) % SegSize) + 1 IN IF j <= Len(bytes) THEN bytes[j] ELSE Filler]

Init ==
  /\ start \in Starts /\ \E c \in Codes : mem = Load(start, c)
  /\ offset = 0 /\ ops = <<>> /\ out = <<>> /\ ends = <<>> /\ again = <<>>
  /\ pc = "disassemble"

\* One turn of the loop of decode_to_block; read by get_instruction_info. The
\* sum of the offsets is not a wrapping one.
Overflows == OverflowChecks /\ start + offset >= SegSize
Fetched == Decode(mem, (start + offset) % SegSize)
Fails == Overflows \/ Fetched.panic

Disassemble ==
  /\ pc = "disassemble"
  /\ IF Fails THEN pc' = "panic" /\ UNCHANGED <<offset, ops>>
     ELSE /\ ops' = Append(ops, Fetched)
          /\ offset' = offset + Fetched.length
          /\ pc' = IF Len(ops) + 1 = Count THEN "assemble" ELSE pc
  /\ UNCHANGED <<start, mem, out, ends, again>>

\* One turn of the loop of encode_vec. When all are encoded the bytes are
\* loaded where the code was.
Assemble ==
  LET r == Encode(ops[Len(ends) + 1])
      bytes == out \o r.bytes
      last == Len(ends) + 1 = Len(ops)
  IN
  /\ pc = "assemble"
  /\ IF r.out # "bytes" THEN pc' = r.out /\ UNCHANGED <<mem, offset, out, ends>>
     ELSE /\ out' = bytes
          /\ ends' = Append(ends, Len(bytes))
          /\ IF last THEN mem' = Load(start, bytes) /\ offset' = 0 /\ pc' = "again"
             ELSE UNCHANGED <<mem, offset, pc>>
  /\ UNCHANGED <<start, ops, again>>

DisassembleAgain ==
  /\ pc = "again"
  /\ IF Fails THEN pc' = "panic" /\ UNCHANGED <<offset, again>>
     ELSE /\ again' = Append(again, Fetched)
          /\ offset' = offset + Fetched.length
          /\ pc' = IF Len(again) + 1 = Count THEN "done" ELSE pc
  /\ UNCHANGED <<start, mem, ops, out, ends>>

Next == Disassemble \/ Assemble \/ DisassembleAgain

Spec == Init /\ [][Next]_vars

-----------------------------------------------------------------------------
(* Properties. *)

\* What an instruction does when it is executed: shifts look at the number and
\* not at the width of their count, an exchange is symmetric, and that of AX
\* with itself is NOP.
Count8(o) == IF o.kind = "imm" THEN Imm(8, o.v) ELSE o
Operation(i) ==
  IF i.op = "xchg" /\ i.dst = i.src /\ i.dst = Reg(16, "ax")
  THEN [op |-> "nop", w |-> 0, dst |-> None, src |-> None, src2 |-> None]
  ELSE IF i.op = "xchg" THEN [op |-> i.op, w |-> i.w, operands |-> {i.dst, i.src}]
  ELSE IF i.op \in {Shifts[k] : k \in 1..8}
  THEN [op |-> i.op, w |-> i.w, dst |-> i.dst, src |-> Count8(i.src)]
  ELSE [op |-> i.op, w |-> i.w, dst |-> i.dst, src |-> i.src, src2 |-> i.src2]
Meaning(i) == <<Operation(i), i.seg, i.lock, i.repeat>>

\* What encode has no bytes for and turns into something else.
LosesAddressSize(i) ==
  \E o \in {i.dst, i.src} : o.kind = "ptr" /\ o.base \in {Amode32[k] : k \in 1..8}
LosesRepeat(i) == i.repeat # "none"
LosesShiftWidth(i) == i.op \in {Shifts[k] : k \in 1..8} /\ i.w = 32 /\ i.src = Imm(8, 1)
LosesFactor(i) == i.op = "imul" /\ (i.src2.kind = "imm" \/ i.src.kind = "ptr") /\ i.src2.kind # "imms8"
LosesHalf(i) == i.op = "test" /\ i.w = 32 /\ i.src.kind = "imm"
Lossy(i) ==
  LosesAddressSize(i) \/ LosesRepeat(i) \/ LosesShiftWidth(i) \/ LosesFactor(i) \/ LosesHalf(i)

\* What was assembled disassembles to the instructions it was made from, but
\* for those that lose something, and for what stands after half a double
\* word (decoder.rs and encoder.rs agree about opcodes, register numbers,
\* address modes, displacements and immediates).
SameInstruction ==
  \A k \in DOMAIN again :
    (\A j \in 1..(k - 1) : ~LosesHalf(ops[j])) /\ ~Lossy(ops[k])
    => Meaning(again[k]) = Meaning(ops[k])

\* The second disassembly finds the instructions at the boundaries at which
\* encode_vec put one behind the other: no instruction is read as longer or
\* shorter than it was written, a lossy one neither, so none swallows the
\* beginning of its successor.
InStep ==
  \A k \in DOMAIN again :
    (\A j \in 1..k : ~LosesHalf(ops[j]))
    => ends[k] = again[k].length + IF k = 1 THEN 0 ELSE ends[k - 1]
=============================================================================
