---------------------------- MODULE Instructions ----------------------------
(***************************************************************************)
(* The instructions of the emulator, as Decoder makes them and as Machine  *)
(* and Encoder take them: an operation with its width, up to three         *)
(* operands, and what the prefixes said.  The width of an operation is 0   *)
(* when its name says it all.                                              *)
(***************************************************************************)
EXTENDS Integers, Sequences

\* R, r8, r16, r32: the general registers, in the order of their numbers.
R8 == <<"al", "cl", "dl", "bl", "ah", "ch", "dh", "bh">>
R16 == <<"ax", "cx", "dx", "bx", "sp", "bp", "si", "di">>
R32 == <<"eax", "ecx", "edx", "ebx", "esp", "ebp", "esi", "edi">>
GeneralNames(w) == CASE w = 8 -> R8 [] w = 16 -> R16 [] OTHER -> R32

\* sr: six segment registers; the numbers 6 and 7 are unreachable!().
SR == <<"es", "cs", "ss", "ds", "fs", "gs">>

\* fpr.
FPR == <<"st0", "st1", "st2", "st3", "st4", "st5", "st6", "st7">>

\* AMode, AddressSize::amode_from: what a memory operand is based on.
Amode16 == <<"[bx+si]", "[bx+di]", "[bp+si]", "[bp+di]", "[si]", "[di]", "[bp]", "[bx]">>
Amode32 == <<"[eax]", "[ecx]", "[edx]", "[ebx]", "[esp]", "[ebp]", "[esi]", "[edi]">>
AmodeNames(addr) == IF addr = 16 THEN Amode16 ELSE Amode32

\* R::index, AMode::index: no name is in two lists.
NameLists == {R8, R16, R32, SR, Amode16, Amode32}
Index(r) == CHOOSE n \in 0..7 : \E names \in NameLists : n < Len(names) /\ names[n + 1] = r

\* Parameter.  "direct" is Ptr*, "amode" Ptr*Amode, "s8" and "s16" those with
\* a displacement.
None == [kind |-> "none"]
Reg(w, r) == [kind |-> "reg", w |-> w, r |-> r]
Sreg(r) == [kind |-> "sreg", r |-> r]
Fpr(r) == [kind |-> "fpr", r |-> r]
Imm(w, v) == [kind |-> "imm", w |-> w, v |-> v]
ImmS8(v) == [kind |-> "imms8", v |-> v]
Far(seg, v) == [kind |-> "far", seg |-> seg, v |-> v]
Ptr(w, seg, mode, base, v) ==
  [kind |-> "ptr", w |-> w, seg |-> seg, mode |-> mode, base |-> base, v |-> v]

\* Parameter::is_imm, is_ptr: a pointer to a double word is none.
IsImm(o) == o.kind \in {"imm", "imms8"}
IsPtr(o) == o.kind = "far" \/ (o.kind = "ptr" /\ o.w # 32)
IsReg(o, w) == o.kind = "reg" /\ o.w = w

\* Op::Invalid and Op::Uninitialized.
Invalid == "invalid"
Uninitialized == "uninitialized"

\* The 8 operations of the groups 80h-83h, and of C0h, D0h and so on; the
\* shift with number 6 is invalid.
Arith == <<"add", "or", "adc", "sbb", "and", "sub", "xor", "cmp">>
Shifts == <<"rol", "ror", "rcl", "rcr", "shl", "shr", Invalid, "sar">>
Math == <<"test", "test", "not", "neg", "mul", "imul", "div", "idiv">>

\* Two's complement and little endian.
Signed8(b) == IF b < 128 THEN b ELSE b - 256
Signed16(v) == IF v < 32768 THEN v ELSE v - 65536
Bytes16(v) == <<v % 256, (v \div 256) % 256>>
Bytes32(v) == Bytes16(v) \o Bytes16(v \div 65536)

\* ModRegRm::u8.
ModRegRm(md, reg, rm) == 64 * md + 8 * reg + rm

=============================================================================
