------------------------------- MODULE Encoder -------------------------------
(***************************************************************************)
(* Encoder::encode as a function from an instruction to what comes of it:  *)
(* its bytes, an EncodeError, or a panic (panic!, unreachable!).           *)
(***************************************************************************)
EXTENDS Instructions

Emit(bytes) == [out |-> "bytes", bytes |-> bytes]
Error == [out |-> "error", bytes |-> <<>>]
Panic == [out |-> "panic", bytes |-> <<>>]

\* Bytes before, and after, those of a result.
Before(bytes, r) == IF r.out = "bytes" THEN Emit(bytes \o r.bytes) ELSE r
After(r, bytes) == IF r.out = "bytes" THEN Emit(r.bytes \o bytes) ELSE r

IsByteImm(o) == o.kind = "imm" /\ o.w = 8
IsImmOf(o, w) == o.kind = "imm" /\ o.w = w
IsPtrOf(o, w) == o.kind = "ptr" /\ o.w = w /\ w # 32
BytesOf(w, v) == CASE w = 8 -> <<v>> [] w = 16 -> Bytes16(v) [] OTHER -> Bytes32(v)

-----------------------------------------------------------------------------
(* Operands. *)

\* Fault: the displacement is cut to a byte.
EncodeRm_ShortDisplacement(o, reg) ==
  CASE o.kind = "ptr" /\ o.w # 32 ->
         (CASE o.mode = "direct" -> Emit(<<ModRegRm(0, reg, 6)>> \o Bytes16(o.v))
            [] o.mode = "amode" -> Emit(<<ModRegRm(0, reg, Index(o.base))>>)
            [] OTHER -> Emit(<<ModRegRm(1, reg, Index(o.base)), o.v % 256>>))
    [] o.kind = "reg" -> Emit(<<ModRegRm(3, reg, Index(o.r))>>)
    [] OTHER -> Panic

\* encode_rm: pointers to double words are not handled.
EncodeRm(o, reg) ==
  CASE o.kind = "ptr" /\ o.w # 32 ->
         (CASE o.mode = "direct" -> Emit(<<ModRegRm(0, reg, 6)>> \o Bytes16(o.v))
            [] o.mode = "amode" -> Emit(<<ModRegRm(0, reg, Index(o.base))>>)
            [] o.mode = "s8" -> Emit(<<ModRegRm(1, reg, Index(o.base)), o.v % 256>>)
            [] OTHER -> Emit(<<ModRegRm(2, reg, Index(o.base))>> \o Bytes16(o.v)))
    [] o.kind = "reg" -> Emit(<<ModRegRm(3, reg, Index(o.r))>>)
    [] OTHER -> Panic

\* encode_r_rm: the destination is a byte or word register.
EncodeRRm(i) ==
  IF i.dst.kind = "reg" /\ i.dst.w # 32 THEN EncodeRm(i.src, Index(i.dst.r)) ELSE Panic

\* encode_rm_r.
EncodeRmR(i) == IF i.src.kind = "reg" THEN EncodeRm(i.dst, Index(i.src.r)) ELSE Panic

\* encode_rm_r_imm.
EncodeRmRImm(i) ==
  IF i.src.kind = "reg" /\ i.src.w # 32 /\ IsByteImm(i.src2)
  THEN After(EncodeRm(i.dst, Index(i.src.r)), <<i.src2.v>>) ELSE Panic

\* arith_index, bitshift_index, math_index, f6_index: the last number for TEST
\* is the first one.
Number(ops, op) == (CHOOSE k \in DOMAIN ops : ops[k] = op /\ \A j \in 1..(k - 1) : ops[j] # op) - 1

\* 66h before the instructions on double words.
Size(w) == IF w = 32 THEN <<102>> ELSE <<>>

-----------------------------------------------------------------------------
(* The families of instructions.  w is the width of the operation. *)

\* arith_instr8, arith_instr16, arith_instr32.
EncodeArith(i, w) ==
  LET reg == Number(Arith, i.op)
      base == 8 * reg + (IF w = 8 THEN 0 ELSE 1)
  IN
  IF IsReg(i.dst, w) /\ IsImmOf(i.src, w)
  THEN Emit((IF Index(i.dst.r) = 0 THEN <<base + 4>>
             ELSE <<IF w = 8 THEN 128 ELSE 129, ModRegRm(3, reg, Index(i.dst.r))>>) \o BytesOf(w, i.src.v))
  ELSE IF IsReg(i.dst, w) /\ IsPtr(i.src) THEN Before(<<base + 2>>, EncodeRRm(i))
  ELSE IF IsReg(i.dst, w) \/ IsPtrOf(i.dst, w) THEN Before(<<base>>, EncodeRmR(i))
  ELSE Error

\* math_instr8.
EncodeMath8(i) ==
  IF IsReg(i.dst, 8) /\ i.op = "test" /\ IsByteImm(i.src)
  THEN Emit(IF Index(i.dst.r) = 0 THEN <<168, i.src.v>>
            ELSE <<246, ModRegRm(3, 0, Index(i.dst.r)), i.src.v>>)
  ELSE IF ~(IsReg(i.dst, 8) \/ IsPtrOf(i.dst, 8)) THEN Error
  ELSE IF i.op = "test" THEN Before(<<132>>, EncodeRmR(i))
  ELSE Before(<<246>>, EncodeRm(i.dst, Number(Math, i.op)))

\* math_instr16, math_instr32: every operation with a register as its source
\* is taken for IMUL; TEST with a double word writes only half of it.
EncodeMath(i, w) ==
  IF i.src2.kind = "imms8" THEN After(Before(<<107>>, EncodeRRm(i)), <<i.src2.v % 256>>)
  ELSE IF i.op # "test" /\ IsReg(i.src, w) THEN Before(<<15, 175>>, EncodeRRm(i))
  ELSE IF ~IsReg(i.dst, w) THEN Error
  ELSE IF i.op # "test" THEN Emit(<<247, ModRegRm(3, Number(Math, i.op), Index(i.dst.r))>>)
  ELSE IF IsImmOf(i.src, w)
  THEN Emit((IF Index(i.dst.r) = 0 THEN <<169>> ELSE <<247, ModRegRm(3, 0, Index(i.dst.r))>>)
            \o Bytes16(i.src.v))
  ELSE Before(<<133>>, EncodeRmR(i))

\* bitshift_instr8, bitshift_instr16, bitshift_instr32.
EncodeShift(i, w) ==
  LET modrm == ModRegRm(3, Number(Shifts, i.op), Index(i.dst.r))
      wide == IF w = 8 THEN 0 ELSE 1
  IN
  IF ~IsReg(i.dst, w) THEN Error
  ELSE IF ~IsByteImm(i.src) THEN Panic
  ELSE Emit(IF i.src.v = 1 THEN <<208 + wide, modrm>> ELSE <<192 + wide, modrm, i.src.v>>)

\* Op::Inc*, Op::Dec*.
EncodeIncDec(i, w) ==
  LET reg == IF i.op = "inc" THEN 0 ELSE 1 IN
  IF IsReg(i.dst, w) /\ w # 8 THEN Emit(<<64 + 8 * reg + Index(i.dst.r)>>)
  ELSE Before(<<IF w = 8 THEN 254 ELSE 255>>, EncodeRm(i.dst, reg))

\* Op::Mov8.
EncodeMov8(i) ==
  LET direct(o) == IsPtrOf(o, 8) /\ o.mode = "direct"
      al(o) == IsReg(o, 8) /\ Index(o.r) = 0
  IN
  IF al(i.dst) /\ direct(i.src) THEN Emit(<<160>> \o Bytes16(i.src.v))
  ELSE IF IsReg(i.dst, 8) /\ IsByteImm(i.src) THEN Emit(<<176 + Index(i.dst.r), i.src.v>>)
  ELSE IF IsReg(i.dst, 8) /\ IsPtr(i.src) THEN Before(<<138>>, EncodeRRm(i))
  ELSE IF direct(i.dst) /\ al(i.src) THEN Emit(<<162>> \o Bytes16(i.dst.v))
  ELSE IF IsReg(i.dst, 8) \/ IsPtrOf(i.dst, 8) THEN Before(<<136>>, EncodeRmR(i))
  ELSE Error

\* Op::Mov16, Op::Mov32: only immediates to registers.
EncodeMov(i, w) ==
  IF IsReg(i.dst, w) /\ IsImmOf(i.src, w) THEN Emit(<<184 + Index(i.dst.r)>> \o BytesOf(w, i.src.v))
  ELSE Error

\* Op::Movsx*, Op::Movzx*.
EncodeExtend(i, w) ==
  LET b == IF i.op = "movzx" THEN 182 ELSE 190
      wide == IF w = 32 /\ IsReg(i.src, 16) THEN 1 ELSE 0
  IN
  IF IsReg(i.dst, w) /\ (w = 32 => IsReg(i.src, 8) \/ IsReg(i.src, 16))
  THEN Before(<<15, b + wide>>, EncodeRm(i.src, Index(i.dst.r))) ELSE Error

\* Op::Xchg8, Op::Xchg16.
EncodeXchg(i, w) ==
  LET ax(o) == IsReg(o, 16) /\ Index(o.r) = 0 IN
  IF w = 32 THEN Error
  ELSE IF ax(i.dst) /\ IsReg(i.src, 16) THEN Emit(<<144 + Index(i.src.r)>>)
  ELSE IF IsReg(i.dst, 16) /\ ax(i.src) THEN Emit(<<144 + Index(i.dst.r)>>)
  ELSE Before(<<IF w = 8 THEN 134 ELSE 135>>, EncodeRmR(i))

\* Op::Int, Op::Aad, Op::Aam, Op::Push16, Op::Pop16, Op::Loop.
EncodeOneOperand(i) ==
  CASE i.op = "int" /\ IsByteImm(i.dst) ->
         Emit(CASE i.dst.v = 1 -> <<241>> [] i.dst.v = 3 -> <<204>> [] OTHER -> <<205, i.dst.v>>)
    [] i.op = "aad" -> IF IsByteImm(i.dst) THEN Emit(<<213, i.dst.v>>) ELSE Panic
    [] i.op = "aam" -> IF IsByteImm(i.dst) THEN Emit(<<212, i.dst.v>>) ELSE Panic
    [] i.op = "push" /\ i.w = 16 /\ IsImmOf(i.dst, 16) -> Emit(<<104>> \o Bytes16(i.dst.v))
    [] i.op = "pop" /\ i.w = 16 /\ IsReg(i.dst, 16) -> Emit(<<88 + Index(i.dst.r)>>)
    [] i.op = "loop" /\ IsImmOf(i.dst, 16) -> Panic
    [] OTHER -> Error

\* Instructions without operands.
Single ==
  [daa |-> 39, das |-> 47, aaa |-> 55, aas |-> 63, cmc |-> 245, clc |-> 248, stc |-> 249, cli |-> 250,
   sti |-> 251, cld |-> 252, std |-> 253, cwd |-> 153, sahf |-> 158, lahf |-> 159, nop |-> 144,
   salc |-> 214, xlatb |-> 215, cmpsb |-> 166, cmpsw |-> 167, popf |-> 157]

\* The prefixes that are written: neither 67h nor a repeat prefix.
EncodedPrefixes(i) ==
  (IF i.lock THEN <<240>> ELSE <<>>)
  \o (CASE i.seg = "default" -> <<>> [] i.seg = "es" -> <<38>> [] i.seg = "cs" -> <<46>>
        [] i.seg = "ss" -> <<54>> [] i.seg = "ds" -> <<62>> [] i.seg = "fs" -> <<100>>
        [] i.seg = "gs" -> <<101>>)

\* The arms of encode.
EncodeOp(i) ==
  LET w == i.w
      sized(r) == Before(Size(w), r)
  IN
  CASE i.op \in DOMAIN Single -> Emit(<<Single[i.op]>>)
    [] i.op = "cbw" /\ w = 16 -> Emit(<<152>>)
    [] i.op \in {"int", "aad", "aam", "push", "pop", "loop"} -> EncodeOneOperand(i)
    [] i.op = "bsf" -> Before(<<15, 188>>, EncodeRRm(i))
    [] i.op = "bt" -> Before(<<15, 163>>, EncodeRmR(i))
    [] i.op = "lea" -> Before(<<141>>, EncodeRRm(i))
    [] i.op = "shld" -> Before(<<15, 164>>, EncodeRmRImm(i))
    [] i.op = "shrd" -> Before(<<15, 172>>, EncodeRmRImm(i))
    [] i.op \in {"inc", "dec"} -> sized(EncodeIncDec(i, w))
    [] i.op = "xchg" -> EncodeXchg(i, w)
    [] i.op \in {"movsx", "movzx"} -> sized(EncodeExtend(i, w))
    [] i.op = "mov" -> IF w = 8 THEN EncodeMov8(i) ELSE sized(EncodeMov(i, w))
    [] i.op \in {Arith[k] : k \in 1..8} -> sized(EncodeArith(i, w))
    [] i.op \in {Math[k] : k \in 1..8} -> IF w = 8 THEN EncodeMath8(i) ELSE sized(EncodeMath(i, w))
    [] i.op \in {Shifts[k] : k \in 1..8} \ {Invalid} -> sized(EncodeShift(i, w))
    [] OTHER -> Error

Encode(i) == Before(EncodedPrefixes(i), EncodeOp(i))

=============================================================================
