------------------------------- MODULE Decoder -------------------------------
(***************************************************************************)
(* Decoder::decode as a function from memory and an offset to an           *)
(* instruction: which operation and which operands each opcode stands for, *)
(* what the prefixes change, and how many bytes are read.                  *)
(*                                                                         *)
(* A row of the tables names the operation, its width - "b", "w", "v" for  *)
(* a word or, after the prefix 66h, a double word, "none" - and the layout *)
(* of its operands.  Where the opcode is that of a group the register      *)
(* field of the byte after it tells the operation.                         *)
(***************************************************************************)
EXTENDS Instructions

CONSTANT SegSize   (* how many bytes a segment has; 65536 in the code        *)

ASSUME SegSizeAssumption == SegSize \in Nat \ {0}

Row(op, w, layout) == [ops |-> [k \in 0..7 |-> op], w |-> w, layout |-> layout]
Group(ops, w, layout) == [ops |-> [k \in 0..7 |-> ops[k + 1]], w |-> w, layout |-> layout]
Plain(op) == Row(op, "none", "none")
Same(row) == [k \in 1..8 |-> row]

\* No opcode: a prefix, the byte 0Fh or the coprocessor.
Unused == Plain(Invalid)

-----------------------------------------------------------------------------
(* Opcodes 00h-3Fh, eight in a list. *)

\* The six forms of an arithmetic operation, and two more rows; "wide" is the
\* width of the form register, register or memory.
ArithRows(op, wide, seventh, eighth) ==
  <<Row(op, "b", "rm,r"), Row(op, "v", "rm,r"), Row(op, "b", "r,rm"), Row(op, wide, "r,rm"),
    Row(op, "b", "acc,imm"), Row(op, "v", "acc,imm"), seventh, eighth>>

Push(sreg) == Row("push", "w", sreg)
Pop(sreg) == Row("pop", "w", sreg)

\* The prefix 66h is ignored by the fourth form of OR, ADC, SBB and AND.
AddRows == ArithRows("add", "v", Push("es"), Pop("es"))
OrRows == ArithRows("or", "w", Push("cs"), Unused)
AdcRows == ArithRows("adc", "w", Push("ss"), Pop("ss"))
SbbRows == ArithRows("sbb", "w", Push("ds"), Pop("ds"))
AndRows == ArithRows("and", "w", Unused, Plain("daa"))
SubRows == ArithRows("sub", "v", Unused, Plain("das"))
XorRows == ArithRows("xor", "v", Unused, Plain("aaa"))
CmpRows == ArithRows("cmp", "v", Unused, Plain("aas"))

-----------------------------------------------------------------------------
(* Opcodes 40h-BFh. *)

RegisterRows(op) == Same(Row(op, "v", "reg"))

PushaRows ==
  <<Row("pusha", "v", "none"), Row("popa", "v", "none"), Row("bound", "w", "r,rm"),
    Row("arpl", "w", "rm,r"), Unused, Unused, Unused, Unused>>

\* 68h pushes a word whatever the prefix says.
ImmediateRows ==
  <<Row("push", "w", "imm"), Row("imul", "v", "r,rm,imm"), Row("push", "w", "imms8"),
    Row("imul", "v", "r,rm,imms8"), Plain("insb"), Plain("insw"), Plain("outsb"), Plain("outsw")>>

Conditions == <<"jo", "jno", "jc", "jnc", "jz", "jnz", "jna", "ja",
                "js", "jns", "jpe", "jpo", "jl", "jnl", "jng", "jg">>
JumpRows(first) == [k \in 1..8 |-> Row(Conditions[first + k], "none", "rel8")]

\* 87h exchanges words whatever the prefix says.
GroupRows80 ==
  <<Group(Arith, "b", "rm,imm"), Group(Arith, "v", "rm,imm"), Group(Arith, "b", "rm,imm"),
    Group(Arith, "v", "rm,imms8"), Row("test", "b", "rm,r"), Row("test", "v", "rm,r"),
    Row("xchg", "b", "rm,r"), Row("xchg", "w", "rm,r")>>

\* A group of one operation.
Only(op) == [k \in 1..8 |-> IF k = 1 THEN op ELSE Invalid]

MoveRows ==
  <<Row("mov", "b", "rm,r"), Row("mov", "v", "rm,r"), Row("mov", "b", "r,rm"), Row("mov", "v", "r,rm"),
    Row("mov", "w", "rm,sreg"), Row("lea", "w", "r,rm"), Row("mov", "w", "sreg,rm"),
    Group(Only("pop"), "w", "rm")>>

ExchangeRows == [k \in 1..8 |-> IF k = 1 THEN Plain("nop") ELSE Row("xchg", "v", "acc,reg")]

ConvertRows ==
  <<Row("cbw", "v", "none"), Plain("cwd"), Row("callfar", "none", "far"), Plain("fwait"),
    Plain("pushf"), Plain("popf"), Plain("sahf"), Plain("lahf")>>

OffsetRows ==
  <<Row("mov", "b", "acc,moffs"), Row("mov", "v", "acc,moffs"), Row("mov", "b", "moffs,acc"),
    Row("mov", "v", "moffs,acc"), Plain("movsb"), Row("movs", "v", "none"), Plain("cmpsb"),
    Plain("cmpsw")>>

StringRows ==
  <<Row("test", "b", "acc,imm"), Row("test", "v", "acc,imm"), Plain("stosb"),
    Row("stos", "v", "none"), Plain("lodsb"), Row("lods", "v", "none"), Plain("scasb"), Plain("scasw")>>

-----------------------------------------------------------------------------
(* Opcodes C0h-FFh. *)

ReturnRows ==
  <<Group(Shifts, "b", "rm,imm8"), Group(Shifts, "v", "rm,imm8"), Row("retn", "none", "imm16"),
    Plain("retn"), Row("les", "w", "r,rm"), Row("lds", "w", "r,rm"),
    Group(Only("mov"), "b", "rm,imm"), Group(Only("mov"), "v", "rm,imm")>>

EnterRows ==
  <<Row("enter", "none", "imm16,imm8"), Plain("leave"), Row("retf", "none", "imm16"), Plain("retf"),
    Row("int", "none", "three"), Row("int", "none", "imm8"), Plain("into"), Plain("iret")>>

\* Shifts by one and by CL: D1h and D3h shift words whatever the prefix says.
ShiftRows ==
  <<Group(Shifts, "b", "rm,one"), Group(Shifts, "w", "rm,one"), Group(Shifts, "b", "rm,cl"),
    Group(Shifts, "w", "rm,cl"), Row("aam", "none", "imm8"), Row("aad", "none", "imm8"),
    Plain("salc"), Plain("xlatb")>>

LoopRows ==
  <<Row("loopne", "none", "rel8"), Row("loope", "none", "rel8"), Row("loop", "none", "rel8"),
    Row("jcxz", "none", "rel8"), Row("in", "b", "acc,imm8"), Row("in", "w", "acc,imm8"),
    Row("out", "b", "imm8,acc"), Row("out", "w", "imm8,acc")>>

CallRows ==
  <<Row("callnear", "none", "rel16"), Row("jmpnear", "none", "rel16"), Row("jmpfar", "none", "far"),
    Row("jmpshort", "none", "rel8"), Row("in", "b", "acc,dx"), Row("in", "w", "acc,dx"),
    Row("out", "b", "dx,acc"), Row("out", "w", "dx,acc")>>

MathRows ==
  <<Unused, Row("int", "none", "oneb"), Unused, Unused, Plain("hlt"), Plain("cmc"),
    Group(Math, "b", "math"), Group(Math, "v", "math")>>

IncDec == <<"inc", "dec", "inc", Invalid, Invalid, Invalid, Invalid, Invalid>>
IncDecCall == <<"inc", "dec", "callnear", "callfar", "jmpnear", "jmpfar", "push", Invalid>>
FlagRows ==
  <<Plain("clc"), Plain("stc"), Plain("cli"), Plain("sti"), Plain("cld"), Plain("std"),
    Group(IncDec, "b", "rm"), Group(IncDecCall, "v", "rm")>>

\* FFh after 66h: no calls and jumps.
IncDec32 == Group(<<"inc", "dec", Invalid, Invalid, Invalid, Invalid, "push", Invalid>>, "v", "rm")

OpcodeMap ==
  <<AddRows, OrRows, AdcRows, SbbRows, AndRows, SubRows, XorRows, CmpRows,
    RegisterRows("inc"), RegisterRows("dec"), RegisterRows("push"), RegisterRows("pop"),
    PushaRows, ImmediateRows, JumpRows(0), JumpRows(8),
    GroupRows80, MoveRows, ExchangeRows, ConvertRows, OffsetRows, StringRows,
    Same(Row("mov", "b", "reg,imm")), Same(Row("mov", "v", "reg,imm")),
    ReturnRows, EnterRows, ShiftRows, Same(Unused), LoopRows, CallRows, MathRows, FlagRows>>
Table(b) == OpcodeMap[(b \div 8) + 1][(b % 8) + 1]

-----------------------------------------------------------------------------
(* Opcodes after 0Fh. *)

Table0F(b) ==
  CASE b = 0 -> Group(Only("sldt"), "w", "rm")
    [] b = 2 -> Row("lar", "w", "r,rm")
    [] b \in {130, 131, 132, 133, 134, 135, 137, 140, 141, 142, 143} ->
         Row(Conditions[b - 127], "none", "rel16")
    [] b = 146 -> Row("setc", "b", "rm")
    [] b = 149 -> Row("setnz", "b", "rm")
    [] b = 159 -> Row("setg", "b", "rm")
    [] b = 160 -> Push("fs")
    [] b = 161 -> Pop("fs")
    [] b = 163 -> Row("bt", "w", "rm,r")
    [] b = 164 -> Row("shld", "w", "rm,r,imm8")
    [] b = 168 -> Push("gs")
    [] b = 169 -> Pop("gs")
    [] b = 172 -> Row("shrd", "w", "rm,r,imm8")
    [] b = 175 -> Row("imul", "v", "r,rm")
    [] b \in {182, 190} -> Row(IF b = 182 THEN "movzx" ELSE "movsx", "v", "r,rm8")
    [] b \in {183, 191} -> Row(IF b = 183 THEN "movzx" ELSE "movsx", "v", "r32,rm16")
    [] b = 186 -> Row("bts", "w", "rm,imm8")
    [] b = 188 -> Row("bsf", "w", "r,rm")
    [] OTHER -> Plain(Invalid)

-----------------------------------------------------------------------------
(* The coprocessor, D8h-DFh: what follows depends on the whole next byte.  *)
(* A word or a double word of memory, or a register of the coprocessor;    *)
(* "modrm" reads nothing more.                                             *)

Fpu(op) == Row(op, "none", "modrm")
FpuInvalid == Fpu(Invalid)
Memory(op, w) == Row(op, w, "rmf")
Stack(op) == Row(op, "none", "st")

FpuD8 ==
  <<Memory("fadd", "d"), Memory("fmul", "d"), FpuInvalid, Memory("fcomp", "d"),
    Memory("fsub", "d"), Memory("fsubr", "d"), Memory("fdiv", "d"), Memory("fdivr", "d")>>

FpuD9 ==
  <<Memory("fld", "d"), FpuInvalid, Memory("fst", "d"), Memory("fstp", "d"),
    FpuInvalid, Memory("fldcw", "w"), FpuInvalid, Memory("fnstcw", "w")>>
FpuD9E == <<Fpu("fchs"), Fpu("fabs"), FpuInvalid, FpuInvalid, Fpu("ftst"), FpuInvalid, FpuInvalid, FpuInvalid>>
FpuD9E8 ==
  <<Fpu("fld1"), Fpu("fldl2t"), Fpu("fldl2e"), Fpu("fldpi"), FpuInvalid, FpuInvalid, Fpu("fldz"), FpuInvalid>>
FpuD9F8 ==
  <<FpuInvalid, FpuInvalid, Fpu("fsqrt"), Fpu("fsincos"), Fpu("frndint"), FpuInvalid, Fpu("fsin"), Fpu("fcos")>>
FpuD9Register(reg, rm) ==
  CASE reg = 0 -> Stack("fld")
    [] reg = 1 -> Stack("fxch")
    [] reg = 4 -> FpuD9E[rm + 1]
    [] reg = 5 -> FpuD9E8[rm + 1]
    [] reg = 6 -> IF rm = 3 THEN Fpu("fpatan") ELSE FpuInvalid
    [] reg = 7 -> FpuD9F8[rm + 1]
    [] OTHER -> FpuInvalid

\* Only DBh E3h sets the operation of the fourth group: else it stays as it
\* was before decoding.
FpuDB(md, rm) ==
  <<Memory("fild", "d"), Memory("fisttp", "d"), FpuInvalid, Memory("fistp", "d"),
    IF md = 3 /\ rm = 3 THEN Fpu("finit") ELSE Fpu(Uninitialized),
    FpuInvalid, FpuInvalid, FpuInvalid>>

FpuDD ==
  <<Stack("ffree"), FpuInvalid, Memory("fst", "d"), Memory("fstp", "d"),
    FpuInvalid, FpuInvalid, FpuInvalid, FpuInvalid>>

FpuDE ==
  <<Stack("faddp"), Memory("fimul", "w"), Memory("ficom", "w"), Memory("ficomp", "w"),
    Stack("fsubrp"), Stack("fsubp"), Memory("fidiv", "w"), Memory("fdivp", "w")>>

FpuDF(md, rm) ==
  <<Memory("fild", "w"), FpuInvalid, Memory("fist", "w"), Memory("fistp", "w"),
    IF md = 3 /\ rm = 0 THEN Row("fstsw", "none", "ax") ELSE FpuInvalid,
    Memory("fild", "d"), FpuInvalid, Memory("fistp", "d")>>

FpuRow(b, md, reg, rm) ==
  CASE b = 216 -> FpuD8[reg + 1]
    [] b = 217 -> IF md = 3 THEN FpuD9Register(reg, rm) ELSE FpuD9[reg + 1]
    [] b = 218 -> IF reg = 3 THEN Memory("ficomp", "d") ELSE FpuInvalid
    [] b = 219 -> FpuDB(md, rm)[reg + 1]
    [] b = 221 -> FpuDD[reg + 1]
    [] b = 222 -> FpuDE[reg + 1]
    [] b = 223 -> FpuDF(md, rm)[reg + 1]
    [] OTHER -> FpuInvalid

-----------------------------------------------------------------------------
(* Operands.  f is what stands after the opcode, c what the prefixes say:   *)
(* seg, size (of operands), addr (of addresses).                           *)

U16(f, k) == f[k] + 256 * f[k + 1]
U32(f, k) == U16(f, k) + 65536 * U16(f, k + 2)
ImmOf(w, f, k) == Imm(w, CASE w = 8 -> f[k] [] w = 16 -> U16(f, k) [] OTHER -> U32(f, k))

\* read_mod_reg_rm.
Md(f) == f[0] \div 64
RegField(f) == (f[0] \div 8) % 8
RmField(f) == f[0] % 8

\* Fault: an address alone is taken for the operand [bp].
RmLen_NoAddress(f) == CASE Md(f) = 1 -> 2 [] Md(f) = 2 -> 3 [] OTHER -> 1

\* How many bytes the register-or-memory operand takes.
RmLen(f) ==
  CASE Md(f) = 1 -> 2
    [] Md(f) = 2 \/ (Md(f) = 0 /\ RmField(f) = 6) -> 3
    [] OTHER -> 1

\* rm8, rm16, rm32: the base of a byte is one of the 16-bit ones whatever the
\* prefix 67h says.
Rm(w, c, f) ==
  LET base == AmodeNames(IF w = 8 THEN 16 ELSE c.addr)[RmField(f) + 1] IN
  CASE Md(f) = 3 -> Reg(w, GeneralNames(w)[RmField(f) + 1])
    [] Md(f) = 2 -> Ptr(w, c.seg, "s16", base, Signed16(U16(f, 1)))
    [] Md(f) = 1 -> Ptr(w, c.seg, "s8", base, Signed8(f[1]))
    [] Md(f) = 0 /\ RmField(f) = 6 -> Ptr(w, c.seg, "direct", "none", U16(f, 1))
    [] OTHER -> Ptr(w, c.seg, "amode", base, 0)

\* rmf16, rmf32.
RmF(w, c, f) == IF Md(f) = 3 THEN Fpr(FPR[RmField(f) + 1]) ELSE Rm(w, c, f)

\* The width a row has under the prefixes.
Width(row, c) ==
  CASE row.w = "b" -> 8 [] row.w = "w" -> 16 [] row.w = "d" -> 32
    [] row.w = "v" -> c.size [] OTHER -> 0

ImmLen(w) == w \div 8
Operands(dst, src, src2, n) == [dst |-> dst, src |-> src, src2 |-> src2, n |-> n]
One(dst, n) == Operands(dst, None, None, n)
Two(dst, src, n) == Operands(dst, src, None, n)

\* The layouts with a register-or-memory operand, register field "reg".
RmLayout(layout, w, c, f) ==
  LET n == RmLen(f)
      rm == Rm(w, c, f)
      reg(width) == Reg(width, GeneralNames(width)[RegField(f) + 1])
  IN
  CASE layout = "rm" -> One(rm, n)
    [] layout = "rm,r" -> Two(rm, reg(w), n)
    [] layout = "r,rm" -> Two(reg(w), rm, n)
    [] layout = "r,rm8" -> Two(reg(w), Rm(8, c, f), n)
    [] layout = "r32,rm16" -> Two(reg(32), Rm(16, c, f), n)
    [] layout = "rm,sreg" -> Two(rm, Sreg(SR[RegField(f) + 1]), n)
    [] layout = "sreg,rm" -> Two(Sreg(SR[RegField(f) + 1]), rm, n)
    [] layout = "rm,imm" -> Two(rm, ImmOf(w, f, n), n + ImmLen(w))
    [] layout = "rm,imm8" -> Two(rm, Imm(8, f[n]), n + 1)
    [] layout = "rm,imms8" -> Two(rm, ImmS8(Signed8(f[n])), n + 1)
    [] layout = "rm,one" -> Two(rm, Imm(w, 1), n)
    [] layout = "rm,cl" -> Two(rm, Reg(8, "cl"), n)
    [] layout = "rm,r,imm8" -> Operands(rm, reg(w), Imm(8, f[n]), n + 1)
    [] layout = "r,rm,imm" -> Operands(reg(w), rm, ImmOf(w, f, n), n + ImmLen(w))
    [] layout = "r,rm,imms8" -> Operands(reg(w), rm, ImmS8(Signed8(f[n])), n + 1)
    [] layout = "math" -> IF RegField(f) < 2 THEN Two(rm, ImmOf(w, f, n), n + ImmLen(w)) ELSE One(rm, n)
    [] layout = "rmf" -> One(RmF(w, c, f), n)
    [] layout = "st" -> One(Fpr(FPR[RmField(f) + 1]), 1)
    [] layout = "ax" -> One(Reg(16, "ax"), 1)
    [] layout = "modrm" -> One(None, 1)
    [] OTHER -> One(None, 0)

\* The layouts without one: b is the opcode, pos the offset after it.
PlainLayout(layout, w, c, f, b, pos) ==
  LET acc == Reg(w, GeneralNames(w)[1])
      reg == Reg(w, GeneralNames(w)[(b % 8) + 1])
      moffs == Ptr(w, c.seg, "direct", "none", U16(f, 0))
  IN
  CASE layout \in {"es", "cs", "ss", "ds", "fs", "gs"} -> One(Sreg(layout), 0)
    [] layout = "acc,imm" -> Two(acc, ImmOf(w, f, 0), ImmLen(w))
    [] layout = "acc,reg" -> Two(acc, reg, 0)
    [] layout = "acc,moffs" -> Two(acc, moffs, 2)
    [] layout = "moffs,acc" -> Two(moffs, acc, 2)
    [] layout = "acc,imm8" -> Two(acc, Imm(8, f[0]), 1)
    [] layout = "imm8,acc" -> Two(Imm(8, f[0]), acc, 1)
    [] layout = "acc,dx" -> Two(acc, Reg(16, "dx"), 0)
    [] layout = "dx,acc" -> Two(Reg(16, "dx"), acc, 0)
    [] layout = "reg" -> One(reg, 0)
    [] layout = "reg,imm" -> Two(reg, ImmOf(w, f, 0), ImmLen(w))
    [] layout = "imm" -> One(ImmOf(w, f, 0), ImmLen(w))
    [] layout = "imm8" -> One(Imm(8, f[0]), 1)
    [] layout = "imms8" -> One(ImmS8(Signed8(f[0])), 1)
    [] layout = "imm16" -> One(Imm(16, U16(f, 0)), 2)
    [] layout = "imm16,imm8" -> Two(Imm(16, U16(f, 0)), Imm(8, f[2]), 3)
    [] layout = "oneb" -> One(Imm(8, 1), 0)
    [] layout = "three" -> One(Imm(8, 3), 0)
    [] layout = "far" -> One(Far(U16(f, 2), U16(f, 0)), 4)
    [] layout = "rel8" -> One(Imm(16, (pos + 1 + Signed8(f[0])) % SegSize), 1)
    [] layout = "rel16" -> One(Imm(16, (pos + 2 + Signed16(U16(f, 0))) % SegSize), 2)
    [] OTHER -> One(None, 0)

PlainLayouts ==
  {"es", "cs", "ss", "ds", "fs", "gs", "acc,imm", "acc,reg", "acc,moffs", "moffs,acc", "acc,imm8",
   "imm8,acc", "acc,dx", "dx,acc", "reg", "reg,imm", "imm", "imm8", "imms8", "imm16", "imm16,imm8",
   "oneb", "three", "far", "rel8", "rel16", "none"}

-----------------------------------------------------------------------------
(* The prefixes and the whole instruction. *)

SegmentBytes == {38, 46, 54, 62, 100, 101}
SegmentOf(b) ==
  CASE b = 38 -> "es" [] b = 46 -> "cs" [] b = 54 -> "ss" [] b = 62 -> "ds" [] b = 100 -> "fs"
    [] OTHER -> "gs"
PrefixBytes == SegmentBytes \cup {102, 103, 240, 242, 243}

At(mem, at, k) == mem[(at + k) % SegSize]
PrefixCount(mem, at) ==
  CHOOSE n \in 0..SegSize : /\ At(mem, at, n) \notin PrefixBytes
                            /\ \A k \in 0..(n - 1) : At(mem, at, k) \in PrefixBytes

\* What the prefixes say, the last segment prefix counting.
Context(mem, at, n) ==
  LET pre == {At(mem, at, k) : k \in 0..(n - 1)}
      segs == {k \in 0..(n - 1) : At(mem, at, k) \in SegmentBytes}
  IN  [seg |-> IF segs = {} THEN "default"
               ELSE SegmentOf(At(mem, at, CHOOSE k \in segs : \A j \in segs : j <= k)),
       size |-> IF 102 \in pre THEN 32 ELSE 16,
       addr |-> IF 103 \in pre THEN 32 ELSE 16,
       lock |-> 240 \in pre, repne |-> 242 \in pre, rep |-> 243 \in pre]

\* The row of the opcode: after 66h FFh makes no calls, without it 0Fh B7h
\* and BFh are invalid.
RowAt(b, b2, f, c) ==
  CASE b = 15 -> IF b2 \in {183, 191} /\ c.size = 16 THEN Plain(Invalid) ELSE Table0F(b2)
    [] b \in 216..223 -> FpuRow(b, Md(f), RegField(f), RmField(f))
    [] b = 255 /\ c.size = 32 -> IncDec32
    [] OTHER -> Table(b)

\* Moves of segment registers 6 and 7 are unreachable!().
Unreachable(row, f) == row.layout \in {"rm,sreg", "sreg,rm"} /\ RegField(f) > 5

RepOps == {"insb", "insw", "outsb", "outsw", "movsb", "movs", "stosb", "stos", "lodsb", "lods"}
RepeOps == {"cmpsb", "cmpsw", "scasb", "scasw"}
Widthless == {"callnear", "callfar", "jmpnear", "jmpfar", Invalid}

\* What an opcode with its row makes of the prefixes and of what follows: head
\* bytes are read already, pos is the offset behind them.  F3h is looked at
\* after the instruction was decoded.
Instruction(row, c, f, b, pos, head) ==
  LET w == Width(row, c)
      o == IF row.layout \in PlainLayouts THEN PlainLayout(row.layout, w, c, f, b, pos)
           ELSE RmLayout(row.layout, w, c, f)
      named == row.ops[RegField(f)]
      op == IF c.rep /\ named \notin RepOps \cup RepeOps THEN Invalid ELSE named
  IN  [panic |-> FALSE, op |-> op, w |-> IF op \in Widthless THEN 0 ELSE w,
       dst |-> o.dst, src |-> o.src, src2 |-> o.src2, seg |-> c.seg, lock |-> c.lock,
       repeat |-> IF c.rep /\ op \in RepOps THEN "rep" ELSE IF c.rep /\ op \in RepeOps THEN "repe"
                  ELSE IF c.repne THEN "repne" ELSE "none",
       length |-> (head + o.n) % 256]

Decode(mem, at) ==
  LET n == PrefixCount(mem, at)
      c == Context(mem, at, n)
      b == At(mem, at, n)
      head == IF b = 15 THEN n + 2 ELSE n + 1
      f == [k \in 0..7 |-> At(mem, at + head, k)]
      row == RowAt(b, At(mem, at, n + 1), f, c)
  IN  IF Unreachable(row, f) THEN [panic |-> TRUE] ELSE Instruction(row, c, f, b, at + head, head)

=============================================================================
