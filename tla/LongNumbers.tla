----------------------------- MODULE LongNumbers -----------------------------
(***************************************************************************)
(* The arithmetic of Machine::execute and the flags it leaves: ADD, ADC,   *)
(* SUB, SBB, CMP, INC, LEA, LOOP and the conditional jumps, as guest code  *)
(* uses them together: a loop that adds or subtracts numbers of several    *)
(* words, the carry going from word to word, and the jump that follows.    *)
(*                                                                         *)
(*          [clc]                                                          *)
(*          add a[i], b[i]       or adc, sub, sbb, cmp                     *)
(*   next:  inc i                or lea i, [i + 1]                         *)
(*          loop word            dec cx, jump unless 0                     *)
(*          jc, jl, ...                                                    *)
(*   word:  adc a[i], b[i]       or sbb                                    *)
(*          jmp next                                                       *)
(*                                                                         *)
(* The code works on words of 8, 16 and 32 bits in a native integer of 64; *)
(* here both sizes are parameters.                                         *)
(***************************************************************************)
EXTENDS Integers

CONSTANTS
  Half,            (* the weight of the sign bit of a word                 *)
  HostWords,       (* how many words a native integer has room for         *)
  ImmHalf,         (* the weight of the sign bit of a short immediate      *)
  MaxWords,        (* bound: words of a number                             *)
  OverflowChecks   (* the build panics when + leaves the native integer    *)

ASSUME WordsAssumption ==
  /\ Half \in Nat \ {0}
  /\ HostWords \in Nat \ {0} /\ HostWords % 2 = 0
  /\ ImmHalf \in 1..Half
  /\ MaxWords \in Nat \ {0} /\ MaxWords < 65536
  /\ OverflowChecks \in BOOLEAN

WordSize == 2 * Half
Host == WordSize * HostWords
Words == 0..(WordSize - 1)
Sums == {"add", "adc"}
Differences == {"sub", "sbb", "cmp"}
FlagSets == [carry : BOOLEAN, zero : BOOLEAN, sign : BOOLEAN, overflow : BOOLEAN]

VARIABLES
  kind,    (* the instruction on the first words                           *)
  n,       (* how many words the numbers have                              *)
  a,       (* the destination, least significant word first                *)
  b,       (* the source                                                   *)
  short,   (* the source is a short immediate                              *)
  i,       (* the index register                                           *)
  cx,      (* CX                                                           *)
  flags,   (* CF, ZF, SF and OF                                            *)
  pc,      (* "clc", "word", "index", "loop", "done" or "panicked"         *)
  lea,     (* history: LEA has stepped the index last                      *)
  a0,      (* history: the destination at the start                        *)
  c0       (* history: the carry the first word was added with             *)

vars == <<kind, n, a, b, short, i, cx, flags, pc, lea, a0, c0>>

Weight(k) == LET w[j \in 0..k] == IF j = 0 THEN 1 ELSE WordSize * w[j - 1] IN w[k]
Num(p, k) ==
  LET sum[j \in 0..k] == IF j = 0 THEN 0 ELSE sum[j - 1] + Weight(j - 1) * p[j - 1]
  IN  sum[k]
Signed(v, half) == IF v < half THEN v ELSE v - 2 * half
Bit(c) == IF c THEN 1 ELSE 0

-----------------------------------------------------------------------------
(* Operands and flags. *)

\* CPU::read_parameter_value: a short immediate is sign-extended to the
\* native integer, not to the word.
Source(v) == IF short /\ v >= Half THEN v + (Host - WordSize) ELSE v

SignBit(x) == (x \div Half) % 2 = 1

\* Flags::set_carry_*, set_zero_*, set_sign_*.
CarryOut(res) == (res \div WordSize) % 2 = 1
FlagsOf(res, carry, overflow) ==
  [carry |-> carry, zero |-> res % WordSize = 0, sign |-> SignBit(res),
   overflow |-> overflow]

\* Flags::set_overflow_add_*, set_overflow_sub_*.
AddOverflow(res, v1, v2) == SignBit(res) # SignBit(v1) /\ SignBit(res) # SignBit(v2)

\* Fault: the operands of the subtraction are swapped.
SubOverflow_Swapped(res, v1, v2) == SignBit(v2) # SignBit(v1) /\ SignBit(v1) # SignBit(res)
SubOverflow(res, v1, v2) == SignBit(v2) # SignBit(v1) /\ SignBit(v2) # SignBit(res)

-----------------------------------------------------------------------------
(* The instructions: the native result and the flags. *)

\* ADD cuts its operands to the word first, the others do not.
Add(f, dst, src) ==
  LET res == dst + (src % WordSize) IN
  [res |-> res, flags |-> FlagsOf(res, CarryOut(res), AddOverflow(res, src % WordSize, dst))]

\* Fault: the overflow is that of the operands without the carry.
Adc_Operands(f, dst, src) ==
  LET res == (dst + src + Bit(f.carry)) % Host IN
  [res |-> res, flags |-> FlagsOf(res, CarryOut(res),
                                  AddOverflow((dst + src) % Host, src, dst))]

Adc(f, dst, src) ==
  LET res == (dst + src + Bit(f.carry)) % Host IN
  [res |-> res, flags |-> FlagsOf(res, CarryOut(res),
                                  AddOverflow(res, (src + Bit(f.carry)) % Host, dst))]

\* SUB and, without the result, CMP.
Sub(f, dst, src) ==
  LET res == (dst - src) % Host IN
  [res |-> res, flags |-> FlagsOf(res, CarryOut(res), SubOverflow(res, src, dst))]

\* Fault: the borrow is added, not subtracted.
Sbb_AddsBorrow(f, dst, src) ==
  LET res == (dst - (src - Bit(f.carry))) % Host IN
  [res |-> res, flags |-> FlagsOf(res, CarryOut(res), SubOverflow(res, src, dst))]

Sbb(f, dst, src) ==
  LET res == (dst - (src + Bit(f.carry))) % Host IN
  [res |-> res, flags |-> FlagsOf(res, CarryOut(res), SubOverflow(res, src, dst))]

\* Fault: INC sets the carry flag as ADD does.
Inc_Carry(f, dst) ==
  [res |-> dst + 1, flags |-> FlagsOf(dst + 1, CarryOut(dst + 1), AddOverflow(dst + 1, 1, dst))]

\* INC leaves the carry flag alone.
Inc(f, dst) ==
  [res |-> dst + 1, flags |-> FlagsOf(dst + 1, f.carry, AddOverflow(dst + 1, 1, dst))]

Do(k, f, dst, src) ==
  CASE k = "add" -> Add(f, dst, src)
    [] k = "adc" -> Adc(f, dst, src)
    [] k = "sbb" -> Sbb(f, dst, src)
    [] OTHER -> Sub(f, dst, src)

-----------------------------------------------------------------------------
(* The conditional jumps: whether they are taken.  In the code of JG and    *)
(* JNG the comparison binds weaker than & and |.                            *)

Ja(f) == ~f.carry /\ ~f.zero
Jc(f) == f.carry
Jg(f) == (~f.zero /\ f.sign) = f.overflow
Jl(f) == f.sign # f.overflow
Jna(f) == f.carry \/ f.zero
Jnc(f) == ~f.carry
Jng(f) == (f.zero \/ f.sign) # f.overflow
Jnl(f) == f.sign = f.overflow
Jz(f) == f.zero

-----------------------------------------------------------------------------
(* The guest code. *)

Negative(v) == v >= Half

Init ==
  /\ n \in 1..MaxWords
  /\ a \in [0..(n - 1) -> Words] /\ a0 = a
  /\ b \in [0..(n - 1) -> Words]
  /\ kind \in IF n = 1 THEN Sums \cup Differences ELSE (Sums \cup Differences) \ {"cmp"}
  /\ short \in BOOLEAN
  /\ short => n = 1 /\ Signed(b[0], Half) \in (0 - ImmHalf)..(ImmHalf - 1)
  /\ i = 0 /\ cx = n
  /\ flags \in {f \in FlagSets : ~f.zero /\ ~f.sign /\ ~f.overflow}
  /\ pc \in IF kind \in {"adc", "sbb"} THEN {"clc", "word"} ELSE {"word"}
  /\ lea = FALSE /\ c0 = 0

Clc ==
  /\ pc = "clc"
  /\ flags' = [flags EXCEPT !.carry = FALSE]
  /\ pc' = "word"
  /\ UNCHANGED <<kind, n, a, b, short, i, cx, lea, a0, c0>>

\* The instruction on this word: the first one is what the code begins with.
Instruction == IF i = 0 THEN kind ELSE IF kind \in Sums THEN "adc" ELSE "sbb"

\* ADC adds the carry to the operand for the overflow flag.
Word ==
  LET src == Source(b[i]) IN
  /\ pc = "word"
  /\ IF Instruction = "adc" /\ OverflowChecks /\ src + Bit(flags.carry) >= Host
     THEN pc' = "panicked" /\ UNCHANGED <<a, flags, c0>>
     ELSE LET r == Do(Instruction, flags, a[i], src) IN
          /\ a' = IF Instruction = "cmp" THEN a ELSE [a EXCEPT ![i] = r.res % WordSize]
          /\ flags' = r.flags
          /\ c0' = IF i = 0 /\ kind \in {"adc", "sbb"} THEN Bit(flags.carry) ELSE c0
          /\ pc' = "index"
  /\ UNCHANGED <<kind, n, b, short, i, cx, lea, a0>>

\* INC or LEA steps the index; LEA leaves every flag alone.
StepIndex ==
  /\ pc = "index"
  /\ i' = i + 1
  /\ lea' \in BOOLEAN
  /\ flags' = IF lea' THEN flags ELSE Inc(flags, i).flags
  /\ pc' = "loop"
  /\ UNCHANGED <<kind, n, a, b, short, cx, a0, c0>>

\* LOOP touches no flag.
Loop ==
  /\ pc = "loop"
  /\ cx' = (cx - 1) % 65536
  /\ pc' = IF cx' # 0 THEN "word" ELSE "done"
  /\ UNCHANGED <<kind, n, a, b, short, i, flags, lea, a0, c0>>

Next == Clc \/ Word \/ StepIndex \/ Loop

Spec == Init /\ [][Next]_vars

-----------------------------------------------------------------------------
(* Properties. *)

A == Num(a0, n)
B == Num(b, n)
Range == Weight(n)
\* A short immediate below zero is not the unsigned number it stands for.
Plain == ~short \/ ~Negative(b[0])
\* The carry into the most significant word, of a sum and of a difference.
CarryIn == IF n = 1 THEN c0
           ELSE Bit(Num(a0, n - 1) + Num(b, n - 1) + c0 >= Weight(n - 1))

\* A loop of ADC leaves the sum of the whole numbers, and the carry flag
\* after it is the carry of the whole sum, whatever steps the index: INC and
\* LOOP must keep the carry, ADC must take it in and set it from the same
\* result (Op::Adc*, Op::Add*, Op::Inc*, Op::Loop).
LongSum ==
  (pc = "done" /\ kind \in Sums) =>
    /\ Num(a, n) = (A + B + c0) % Range
    /\ (Plain \/ kind = "add") => (flags.carry <=> A + B + c0 >= Range)

\* A loop of SBB leaves the difference of the whole numbers and the carry
\* flag says whether the second was the greater one; CMP leaves the
\* destination alone and says the same (Op::Sbb*, Op::Sub*, Op::Cmp*).
LongDifference ==
  (pc = "done" /\ kind \in Differences) =>
    /\ Num(a, n) = IF kind = "cmp" THEN A ELSE (A - B - c0) % Range
    /\ Plain => (flags.carry <=> A < B + c0)

\* After a difference whose flags are still there JL and JNL compare the
\* numbers as signed ones, of however many words; if they have one word each,
\* JZ, JNG, JA and JNA compare them as well (Op::Ja, Jl, Jna, Jng, Jnl, Jz).
JumpsCompare ==
  (pc = "done" /\ kind \in Differences /\ lea) =>
    LET x == Signed(A, Range \div 2)
        y == Signed(B, Range \div 2) + c0
    IN  /\ Jl(flags) <=> x < y
        /\ Jnl(flags) <=> x >= y
        /\ n = 1 => /\ Jz(flags) <=> (A - B - c0) % Range = 0
                    /\ c0 = 0 => (Jng(flags) <=> x <= y)
                    /\ (Plain /\ c0 = 0) => /\ Ja(flags) <=> A > B
                                            /\ Jna(flags) <=> A <= B

\* After CMP of two words JG is taken if the first is the greater one, as the
\* comment on Op::Jg has it, ZF=0 and SF=OF.  It is false of the code, which
\* also takes JG for equal words.
JumpGreater ==
  (pc = "done" /\ kind = "cmp" /\ lea) =>
    (Jg(flags) <=> Signed(a0[0], Half) > Signed(b[0], Half))

\* After a sum whose flags are still there the overflow flag says whether
\* the signed sum left the range, unless the carry went into a source word
\* that is the greatest positive one, where the code adds it to the operand
\* first (Op::Adc*, set_overflow_add_*).
SumOverflow ==
  (pc = "done" /\ kind \in Sums /\ lea /\ ~(b[n - 1] = Half - 1 /\ CarryIn = 1)) =>
    LET sum == Signed(A, Range \div 2) + Signed(B, Range \div 2) + c0
    IN  flags.overflow <=> sum \notin (0 - (Range \div 2))..(Range \div 2 - 1)
=============================================================================
