----------------------------- MODULE CodecProofs -----------------------------
(***************************************************************************)
(* Proofs about the instruction decoder and encoder: what encode writes of *)
(* an instruction that decode has made is read as that instruction again,  *)
(* for every sequence of bytes, every offset and every number of           *)
(* instructions, and so for what disassembling, assembling and             *)
(* disassembling again makes of a block.                                   *)
(***************************************************************************)
EXTENDS Codec, SequenceTheorems, WellFoundedInduction, TLAPS

Byte == 0..255
Following == [0..7 -> Byte]
Widths == {8, 16, 32}
Sizes == {16, 32}
Segments == {"default", "es", "cs", "ss", "ds", "fs", "gs"}
Contexts ==
  [seg : Segments, size : Sizes, addr : Sizes, lock : BOOLEAN, repne : BOOLEAN, rep : BOOLEAN]

-----------------------------------------------------------------------------
(* Bytes and numbers. *)

\* The fields of the byte after an opcode, and that byte from its fields.
LEMMA FieldRanges ==
  ASSUME NEW f \in Following
  PROVE  Md(f) \in 0..3 /\ RegField(f) \in 0..7 /\ RmField(f) \in 0..7
<1>1. f[0] \in 0..255 BY DEF Following, Byte
<1>2. QED BY <1>1 DEF Md, RegField, RmField

LEMMA FieldsOf ==
  ASSUME NEW md \in 0..3, NEW reg \in 0..7, NEW rm \in 0..7
  PROVE  /\ ModRegRm(md, reg, rm) \in Byte
         /\ ModRegRm(md, reg, rm) \div 64 = md
         /\ (ModRegRm(md, reg, rm) \div 8) % 8 = reg
         /\ ModRegRm(md, reg, rm) % 8 = rm
BY DEF ModRegRm, Byte

\* A number is put together from the bytes it was taken apart into.
LEMMA TwoBytes ==
  ASSUME NEW a \in Byte, NEW b \in Byte
  PROVE  /\ Bytes16(a + 256 * b) = <<a, b>>
         /\ Bytes16(Signed16(a + 256 * b)) = <<a, b>>
<1>1. a \in 0..255 /\ b \in 0..255 BY DEF Byte
<1>2. (a + 256 * b) % 256 = a /\ ((a + 256 * b) \div 256) % 256 = b BY <1>1
<1>3. (a + 256 * b - 65536) % 256 = a /\ ((a + 256 * b - 65536) \div 256) % 256 = b BY <1>1
<1>4. Bytes16(a + 256 * b) = <<a, b>> BY <1>2 DEF Bytes16
<1>5. Bytes16(a + 256 * b - 65536) = <<a, b>> BY <1>3 DEF Bytes16
<1>6. CASE a + 256 * b < 32768
  <2>1. Signed16(a + 256 * b) = a + 256 * b BY <1>6 DEF Signed16
  <2>2. QED BY <1>4, <2>1
<1>7. CASE ~(a + 256 * b < 32768)
  <2>1. Signed16(a + 256 * b) = a + 256 * b - 65536 BY <1>1, <1>7 DEF Signed16
  <2>2. QED BY <1>4, <1>5, <2>1
<1>8. QED BY <1>6, <1>7

LEMMA EmptyJoins ==
  ASSUME NEW s \in Seq(Int)
  PROVE  <<>> \o s = s /\ s \o <<>> = s
OBVIOUS

LEMMA TwoInOne ==
  ASSUME NEW a \in Int, NEW b \in Int, NEW s, s = <<a>>, NEW t, t = <<b>>
  PROVE  s \o t = <<a, b>>
<1>1. s \o t \in Seq(Int) /\ <<a, b>> \in Seq(Int) OBVIOUS
<1>2. Len(s \o t) = 2 /\ Len(<<a, b>>) = 2 OBVIOUS
<1>3. \A k \in 1..2 : (s \o t)[k] = <<a, b>>[k] OBVIOUS
<1>4. QED BY <1>1, <1>2, <1>3, SeqEqual

LEMMA OneBehindTwo ==
  ASSUME NEW a \in Int, NEW b \in Int, NEW c \in Int, NEW s, s = <<a, b>>, NEW t, t = <<c>>
  PROVE  s \o t = <<a, b, c>>
<1>1. s \o t \in Seq(Int) /\ <<a, b, c>> \in Seq(Int) OBVIOUS
<1>2. Len(s \o t) = 3 /\ Len(<<a, b, c>>) = 3 OBVIOUS
<1>3. \A k \in 1..3 : (s \o t)[k] = <<a, b, c>>[k] OBVIOUS
<1>4. QED BY <1>1, <1>2, <1>3, SeqEqual

LEMMA FourInTwo ==
  ASSUME NEW a \in Int, NEW b \in Int, NEW c \in Int, NEW d \in Int,
         NEW s, s = <<a, b>>, NEW t, t = <<c, d>>
  PROVE  s \o t = <<a, b, c, d>>
<1>1. s \o t \in Seq(Int) /\ <<a, b, c, d>> \in Seq(Int) OBVIOUS
<1>2. Len(s \o t) = 4 /\ Len(<<a, b, c, d>>) = 4 OBVIOUS
<1>3. \A k \in 1..4 : (s \o t)[k] = <<a, b, c, d>>[k] OBVIOUS
<1>4. QED BY <1>1, <1>2, <1>3, SeqEqual

LEMMA FourBytes ==
  ASSUME NEW a \in Byte, NEW b \in Byte, NEW c \in Byte, NEW d \in Byte,
         NEW v, v = a + 256 * b + 65536 * (c + 256 * d)
  PROVE  Bytes32(v) = <<a, b, c, d>>
<1>1. a \in 0..255 /\ b \in 0..255 /\ c \in 0..255 /\ d \in 0..255 BY DEF Byte
<1>2. PICK l \in Nat : l = a + 256 * b /\ l < 65536 BY <1>1
<1>3. PICK h \in Nat : h = c + 256 * d BY <1>1
<1>4. v = l + 65536 * h BY <1>2, <1>3
<1>5. Bytes16(l) = <<a, b>> /\ Bytes16(h) = <<c, d>> BY <1>2, <1>3, TwoBytes
<1>6. v % 256 = l % 256 /\ (v \div 256) % 256 = (l \div 256) % 256 BY <1>2, <1>4
<1>7. v \div 65536 = h BY <1>2, <1>4
<1>8. Bytes16(v) = Bytes16(l) BY <1>6 DEF Bytes16
<1>9. Bytes16(v \div 65536) = Bytes16(h) BY <1>7
<1>10. Bytes32(v) = Bytes16(l) \o Bytes16(h) BY SMTT(60), <1>8, <1>9 DEF Bytes32
<1>11. PICK s : s = Bytes16(l) OBVIOUS
<1>12. PICK t : t = Bytes16(h) OBVIOUS
<1>13. s \o t = <<a, b, c, d>> BY SMTT(60), <1>1, <1>5, <1>11, <1>12, FourInTwo
<1>14. QED BY <1>10, <1>11, <1>12, <1>13

LEMMA SignedByte ==
  ASSUME NEW b \in Byte
  PROVE  Signed8(b) % 256 = b
<1>1. b \in 0..255 BY DEF Byte
<1>2. b % 256 = b /\ (b - 256) % 256 = b BY <1>1
<1>3. QED BY <1>2 DEF Signed8

-----------------------------------------------------------------------------
(* Names and numbers of registers and address modes. *)

\* The place of every name in its list.
Place(r) ==
  IF r \in {"al", "ax", "eax", "es", "[bx+si]", "[eax]"} THEN 0
  ELSE IF r \in {"cl", "cx", "ecx", "cs", "[bx+di]", "[ecx]"} THEN 1
  ELSE IF r \in {"dl", "dx", "edx", "ss", "[bp+si]", "[edx]"} THEN 2
  ELSE IF r \in {"bl", "bx", "ebx", "ds", "[bp+di]", "[ebx]"} THEN 3
  ELSE IF r \in {"ah", "sp", "esp", "fs", "[si]", "[esp]"} THEN 4
  ELSE IF r \in {"ch", "bp", "ebp", "gs", "[di]", "[ebp]"} THEN 5
  ELSE IF r \in {"dh", "si", "esi", "[bp]", "[esi]"} THEN 6
  ELSE 7

LEMMA PlacesAre ==
  ASSUME NEW names \in NameLists, NEW k \in 0..7, k < Len(names)
  PROVE  Place(names[k + 1]) = k
<1>0. k = 0 \/ k = 1 \/ k = 2 \/ k = 3 \/ k = 4 \/ k = 5 \/ k = 6 \/ k = 7 OBVIOUS
<1>1. CASE names = R8 BY <1>0, <1>1 DEF Place, R8
<1>2. CASE names = R16 BY <1>0, <1>2 DEF Place, R16
<1>3. CASE names = R32 BY <1>0, <1>3 DEF Place, R32
<1>4. CASE names = SR BY <1>0, <1>4 DEF Place, SR
<1>5. CASE names = Amode16 BY <1>0, <1>5 DEF Place, Amode16
<1>6. CASE names = Amode32 BY <1>0, <1>6 DEF Place, Amode32
<1>7. QED BY <1>1, <1>2, <1>3, <1>4, <1>5, <1>6 DEF NameLists

\* The number that Index chooses is the only one the name has.
LEMMA IndexIs ==
  ASSUME NEW names \in NameLists, NEW n \in 0..7, n < Len(names)
  PROVE  Index(names[n + 1]) = n
BY PlacesAre DEF Index

\* Of the registers and the address modes of all sizes.
LEMMA IndexOfR8 == \A n \in 0..7 : Index(R8[n + 1]) = n
<1>1. R8 \in NameLists /\ Len(R8) = 8 BY DEF NameLists, R8
<1>2. \A n \in 0..7 : n < Len(R8) BY <1>1
<1>3. QED BY <1>1, <1>2, IndexIs

LEMMA IndexOfR16 == \A n \in 0..7 : Index(R16[n + 1]) = n
<1>1. R16 \in NameLists /\ Len(R16) = 8 BY DEF NameLists, R16
<1>2. \A n \in 0..7 : n < Len(R16) BY <1>1
<1>3. QED BY <1>1, <1>2, IndexIs

LEMMA IndexOfR32 == \A n \in 0..7 : Index(R32[n + 1]) = n
<1>1. R32 \in NameLists /\ Len(R32) = 8 BY DEF NameLists, R32
<1>2. \A n \in 0..7 : n < Len(R32) BY <1>1
<1>3. QED BY <1>1, <1>2, IndexIs

LEMMA IndexOfAmode16 == \A n \in 0..7 : Index(Amode16[n + 1]) = n
<1>1. Amode16 \in NameLists /\ Len(Amode16) = 8 BY DEF NameLists, Amode16
<1>2. \A n \in 0..7 : n < Len(Amode16) BY <1>1
<1>3. QED BY <1>1, <1>2, IndexIs

LEMMA IndexOfAmode32 == \A n \in 0..7 : Index(Amode32[n + 1]) = n
<1>1. Amode32 \in NameLists /\ Len(Amode32) = 8 BY DEF NameLists, Amode32
<1>2. \A n \in 0..7 : n < Len(Amode32) BY <1>1
<1>3. QED BY <1>1, <1>2, IndexIs

\* And so of all the names the decoder makes operands of.
LEMMA IndexOfGeneral ==
  ASSUME NEW w \in Widths, NEW n \in 0..7
  PROVE  Index(GeneralNames(w)[n + 1]) = n
BY IndexOfR8, IndexOfR16, IndexOfR32 DEF GeneralNames, Widths

LEMMA IndexOfAmode ==
  ASSUME NEW size \in Sizes, NEW n \in 0..7
  PROVE  Index(AmodeNames(size)[n + 1]) = n
BY IndexOfAmode16, IndexOfAmode32 DEF AmodeNames, Sizes

-----------------------------------------------------------------------------
(* The register-or-memory operand. *)

\* What encode writes of the operand that stands in f.
RmBytes(f, reg) ==
  LET modrm == ModRegRm(Md(f), reg, RmField(f)) IN
  CASE RmLen(f) = 1 -> <<modrm>>
    [] RmLen(f) = 2 -> <<modrm, f[1]>>
    [] OTHER -> <<modrm, f[1], f[2]>>

LEMMA ThreeInTwo ==
  ASSUME NEW a \in Int, NEW b \in Int, NEW c \in Int, NEW s, s = <<b, c>>
  PROVE  <<a>> \o s = <<a, b, c>>
<1>1. <<a>> \o s \in Seq(Int) /\ <<a, b, c>> \in Seq(Int) OBVIOUS
<1>2. Len(<<a>> \o s) = 3 /\ Len(<<a, b, c>>) = 3 OBVIOUS
<1>3. \A k \in 1..3 : (<<a>> \o s)[k] = <<a, b, c>>[k] OBVIOUS
<1>4. QED BY <1>1, <1>2, <1>3, SeqEqual

LEMMA RmEncoded ==
  ASSUME NEW w \in Widths, NEW c \in Contexts, NEW f \in Following, NEW reg \in 0..7
  PROVE  EncodeRm(Rm(w, c, f), reg)
           = IF w = 32 /\ Md(f) # 3 THEN Panic ELSE Emit(RmBytes(f, reg))
<1> DEFINE modrm == ModRegRm(Md(f), reg, RmField(f))
<1>1. Md(f) \in 0..3 /\ RmField(f) \in 0..7 /\ f[1] \in Byte /\ f[2] \in Byte
  BY FieldRanges DEF Following
<1>2. modrm \in Int BY <1>1 DEF ModRegRm
<1>3. f[1] \in Int /\ f[2] \in Int BY <1>1 DEF Byte
<1>4. PICK u : u = U16(f, 1) OBVIOUS
<1>5. u = f[1] + 256 * f[2] BY <1>4 DEF U16
<1>6. Bytes16(u) = <<f[1], f[2]>> /\ Bytes16(Signed16(u)) = <<f[1], f[2]>> BY <1>1, <1>5, TwoBytes
<1>7. PICK s : s = Bytes16(u) OBVIOUS
<1>8. <<modrm>> \o s = <<modrm, f[1], f[2]>> BY <1>2, <1>3, <1>6, <1>7, ThreeInTwo
<1>9. PICK base : /\ base = AmodeNames(IF w = 8 THEN 16 ELSE c.addr)[RmField(f) + 1]
                  /\ Index(base) = RmField(f)
  BY <1>1, IndexOfAmode DEF Contexts, Sizes
<1>10. CASE Md(f) = 3
  <2>1. Rm(w, c, f) = Reg(w, GeneralNames(w)[RmField(f) + 1]) BY <1>1, <1>10 DEF Rm
  <2>2. EncodeRm(Rm(w, c, f), reg) = Emit(<<modrm>>)
    BY <1>1, <1>10, <2>1, IndexOfGeneral DEF EncodeRm, Reg
  <2>3. RmBytes(f, reg) = <<modrm>> BY <1>10 DEF RmBytes, RmLen
  <2>4. QED BY <1>10, <2>2, <2>3
<1>11. CASE Md(f) # 3 /\ w = 32
  <2>1. Rm(w, c, f).kind = "ptr" /\ Rm(w, c, f).w = 32 BY <1>1, <1>11 DEF Rm, Ptr
  <2>2. QED BY <1>11, <2>1 DEF EncodeRm
<1>12. CASE Md(f) = 2 /\ w # 32
  <2>1. Rm(w, c, f) = Ptr(w, c.seg, "s16", base, Signed16(u)) BY <1>1, <1>4, <1>9, <1>12 DEF Rm
  <2>2. EncodeRm(Rm(w, c, f), reg) = Emit(<<modrm>> \o s)
    BY <1>6, <1>7, <1>9, <1>12, <2>1 DEF EncodeRm, Ptr
  <2>3. RmBytes(f, reg) = <<modrm, f[1], f[2]>> BY <1>12 DEF RmBytes, RmLen
  <2>4. QED BY <1>8, <1>12, <2>2, <2>3
<1>13. CASE Md(f) = 1 /\ w # 32
  <2>1. Rm(w, c, f) = Ptr(w, c.seg, "s8", base, Signed8(f[1])) BY <1>1, <1>9, <1>13 DEF Rm
  <2>2. EncodeRm(Rm(w, c, f), reg) = Emit(<<modrm, f[1]>>)
    BY <1>1, <1>9, <1>13, <2>1, SignedByte DEF EncodeRm, Ptr
  <2>3. RmBytes(f, reg) = <<modrm, f[1]>> BY <1>13 DEF RmBytes, RmLen
  <2>4. QED BY <1>13, <2>2, <2>3
<1>14. CASE Md(f) = 0 /\ RmField(f) = 6 /\ w # 32
  <2>1. Rm(w, c, f) = Ptr(w, c.seg, "direct", "none", u) BY <1>4, <1>14 DEF Rm
  <2>5. ModRegRm(0, reg, 6) = modrm BY <1>14
  <2>6. PICK o : o = Rm(w, c, f) OBVIOUS
  <2>7. o.kind = "ptr" /\ o.w = w /\ o.mode = "direct" /\ o.v = u BY <2>1, <2>6 DEF Ptr
  <2>8. EncodeRm(o, reg) = Emit(<<ModRegRm(0, reg, 6)>> \o Bytes16(o.v)) BY <1>14, <2>7 DEF EncodeRm
  <2>2. EncodeRm(Rm(w, c, f), reg) = Emit(<<modrm>> \o s) BY <1>7, <2>5, <2>6, <2>7, <2>8
  <2>3. RmBytes(f, reg) = <<modrm, f[1], f[2]>> BY <1>14 DEF RmBytes, RmLen
  <2>4. QED BY <1>8, <1>14, <2>2, <2>3
<1>15. CASE Md(f) = 0 /\ RmField(f) # 6 /\ w # 32
  <2>1. Rm(w, c, f) = Ptr(w, c.seg, "amode", base, 0) BY <1>9, <1>15 DEF Rm
  <2>2. EncodeRm(Rm(w, c, f), reg) = Emit(<<modrm>>)
    BY <1>9, <1>15, <2>1 DEF EncodeRm, Ptr
  <2>3. RmBytes(f, reg) = <<modrm>> BY <1>15 DEF RmBytes, RmLen
  <2>4. QED BY <1>15, <2>2, <2>3
<1>16. QED BY <1>1, <1>10, <1>11, <1>12, <1>13, <1>14, <1>15

-----------------------------------------------------------------------------
(* Reading from memory what was written to it. *)

Memories == [0..(SegSize - 1) -> Byte]
FollowingAt(m, pos) == [k \in 0..7 |-> At(m, pos, k)]
Reads(m, pos, bytes) == \A k \in 1..Len(bytes) : At(m, pos, k - 1) = bytes[k]

\* Wherever one reads there is a byte.
LEMMA AtIsByte ==
  ASSUME NEW m \in Memories, NEW pos \in Nat, NEW k \in Nat
  PROVE  At(m, pos, k) \in Byte
<1>1. SegSize \in Nat \ {0} BY SegSizeAssumption
<1>2. pos + k \in Nat OBVIOUS
<1>3. (pos + k) % SegSize \in 0..(SegSize - 1) BY <1>1, <1>2
<1>4. QED BY <1>3 DEF At, Memories

LEMMA FollowingIsBytes ==
  ASSUME NEW m \in Memories, NEW pos \in Nat
  PROVE  FollowingAt(m, pos) \in Following
<1>1. \A k \in 0..7 : At(m, pos, k) \in Byte BY AtIsByte
<1>2. QED BY <1>1 DEF FollowingAt, Following

\* Two pieces one behind the other.
LEMMA AtShifted ==
  ASSUME NEW m, NEW pos \in Nat, NEW j \in Nat, NEW k \in Nat
  PROVE  At(m, pos + j, k) = At(m, pos, j + k)
<1>1. (pos + j) + k = pos + (j + k) OBVIOUS
<1>2. QED BY <1>1 DEF At

LEMMA ReadsApart ==
  ASSUME NEW m, NEW pos \in Nat, NEW p \in Seq(Byte), NEW q \in Seq(Byte),
         Reads(m, pos, p \o q)
  PROVE  Reads(m, pos, p) /\ Reads(m, pos + Len(p), q)
<1>1. PICK s : s = p \o q OBVIOUS
<1>2. Len(s) = Len(p) + Len(q) /\ Len(p) \in Nat /\ Len(q) \in Nat BY <1>1
<1>3. \A k \in 1..Len(p) : s[k] = p[k] BY <1>1
<1>4. \A k \in 1..Len(q) : s[Len(p) + k] = q[k] BY <1>1
<1>5. \A k \in 1..Len(s) : At(m, pos, k - 1) = s[k] BY <1>1 DEF Reads
<1>6. Reads(m, pos, p) BY <1>2, <1>3, <1>5 DEF Reads
<1>7. ASSUME NEW k \in 1..Len(q) PROVE At(m, pos + Len(p), k - 1) = q[k]
  <2>6. PICK i \in Nat : i = k - 1 OBVIOUS
  <2>7. PICK n \in Nat : n = Len(p) BY <1>2
  <2>8. At(m, pos + n, i) = At(m, pos, n + i) BY AtShifted
  <2>1. At(m, pos + Len(p), k - 1) = At(m, pos, Len(p) + (k - 1)) BY <2>6, <2>7, <2>8
  <2>2. PICK j : j = Len(p) + k OBVIOUS
  <2>3. j \in 1..Len(s) /\ j - 1 = Len(p) + (k - 1) BY <1>2, <2>2
  <2>4. At(m, pos, j - 1) = s[j] BY <1>5, <2>3
  <2>5. QED BY <1>4, <2>1, <2>2, <2>3, <2>4
<1>8. QED BY <1>6, <1>7 DEF Reads

-----------------------------------------------------------------------------
(* Reading an operand. *)

\* An operand that needs no prefix for its address.
Short(o) == ~(o.kind = "ptr" /\ o.base \in {Amode32[k] : k \in 1..8})

\* Of an operand encode writes as many bytes as it had.
LEMMA RmBytesAre ==
  ASSUME NEW f \in Following, NEW reg \in 0..7
  PROVE  RmBytes(f, reg) \in Seq(Byte) /\ Len(RmBytes(f, reg)) = RmLen(f) /\ RmLen(f) \in 1..3
<1>1. Md(f) \in 0..3 /\ RmField(f) \in 0..7 BY FieldRanges
<1>2. PICK modrm \in Byte : modrm = ModRegRm(Md(f), reg, RmField(f)) BY <1>1, FieldsOf
<1>3. f[1] \in Byte /\ f[2] \in Byte BY DEF Following
<1>4. RmLen(f) \in 1..3 BY DEF RmLen
<1>5. QED BY <1>2, <1>3, <1>4 DEF RmBytes

\* Read again, the fields and the bytes behind them are those of f.
LEMMA RmRead ==
  ASSUME NEW f \in Following, NEW reg \in 0..7, NEW m \in Memories, NEW pos \in Nat,
         Reads(m, pos, RmBytes(f, reg)), NEW g, g = FollowingAt(m, pos)
  PROVE  /\ g \in Following
         /\ Md(g) = Md(f) /\ RegField(g) = reg /\ RmField(g) = RmField(f) /\ RmLen(g) = RmLen(f)
         /\ RmLen(f) \in {2, 3} => g[1] = f[1]
         /\ RmLen(f) = 3 => g[2] = f[2]
<1>1. Md(f) \in 0..3 /\ RmField(f) \in 0..7 BY FieldRanges
<1>2. PICK modrm \in Byte : modrm = ModRegRm(Md(f), reg, RmField(f)) BY <1>1, FieldsOf
<1>3. Len(RmBytes(f, reg)) = RmLen(f) /\ RmLen(f) \in 1..3 BY RmBytesAre
<1>4. \A k \in 1..RmLen(f) : At(m, pos, k - 1) = RmBytes(f, reg)[k] BY <1>3 DEF Reads
<1>5. \A k \in 1..RmLen(f) : g[k - 1] = RmBytes(f, reg)[k] BY <1>3, <1>4 DEF FollowingAt
<1>6. g[0] = RmBytes(f, reg)[1] BY <1>3, <1>5
<1>7. RmLen(f) \in {2, 3} => g[1] = RmBytes(f, reg)[2] BY <1>3, <1>5
<1>8. RmLen(f) = 3 => g[2] = RmBytes(f, reg)[3] BY <1>3, <1>5
<1>9. RmBytes(f, reg)[1] = modrm BY <1>2, <1>3 DEF RmBytes
<1>10. RmLen(f) \in {2, 3} => RmBytes(f, reg)[2] = f[1] BY <1>2, <1>3 DEF RmBytes
<1>11. RmLen(f) = 3 => RmBytes(f, reg)[3] = f[2] BY <1>2, <1>3 DEF RmBytes
<1>12. /\ modrm \div 64 = Md(f) /\ (modrm \div 8) % 8 = reg /\ modrm % 8 = RmField(f)
  BY <1>1, <1>2, FieldsOf
<1>13. Md(g) = Md(f) /\ RegField(g) = reg /\ RmField(g) = RmField(f)
  BY <1>6, <1>9, <1>12 DEF Md, RegField, RmField
<1>14. RmLen(g) = RmLen(f) BY <1>13 DEF RmLen
<1>15. g \in Following BY FollowingIsBytes
<1>16. QED BY <1>7, <1>8, <1>10, <1>11, <1>13, <1>14, <1>15

\* And so is the operand, if its address has 16 bits.
LEMMA SameRm ==
  ASSUME NEW f \in Following, NEW g \in Following, NEW w \in Widths,
         NEW c \in Contexts, NEW d \in Contexts, d.seg = c.seg, d.addr = 16,
         Md(g) = Md(f), RmField(g) = RmField(f),
         RmLen(f) \in {2, 3} => g[1] = f[1], RmLen(f) = 3 => g[2] = f[2],
         Short(Rm(w, c, f))
  PROVE  Rm(w, d, g) = Rm(w, c, f)
<1>1. Md(f) \in 0..3 /\ RmField(f) \in 0..7 BY FieldRanges
<1>2. CASE Md(f) = 3
  BY <1>2 DEF Rm
<1>3. CASE Md(f) = 0 /\ RmField(f) = 6
  <2>1. RmLen(f) = 3 BY <1>3 DEF RmLen
  <2>2. U16(g, 1) = U16(f, 1) BY <2>1 DEF U16
  <2>3. QED BY <1>3, <2>2 DEF Rm
<1>4. CASE Md(f) # 3 /\ ~(Md(f) = 0 /\ RmField(f) = 6)
  <2> DEFINE size == IF w = 8 THEN 16 ELSE c.addr
             base == AmodeNames(size)[RmField(f) + 1]
  <2>1. Rm(w, c, f).kind = "ptr" /\ Rm(w, c, f).base = base BY <1>1, <1>4 DEF Rm, Ptr
  <2>2. base \notin {Amode32[k] : k \in 1..8} BY <2>1 DEF Short
  <2>3. size \in Sizes BY DEF Sizes, Contexts
  <2>4. size = 16
    <3>1. SUFFICES ASSUME size # 16 PROVE FALSE OBVIOUS
    <3>2. base = Amode32[RmField(f) + 1] BY <3>1 DEF AmodeNames
    <3>3. RmField(f) + 1 \in 1..8 BY <1>1
    <3>4. QED BY <2>2, <3>2, <3>3
  <2>5. (IF w = 8 THEN 16 ELSE d.addr) = size BY <2>4
  <2>6. CASE Md(f) = 2
    <3>1. RmLen(f) = 3 BY <2>6 DEF RmLen
    <3>2. U16(g, 1) = U16(f, 1) BY <3>1 DEF U16
    <3>3. Rm(w, c, f) = Ptr(w, c.seg, "s16", base, Signed16(U16(f, 1))) BY <2>6 DEF Rm
    <3>4. Rm(w, d, g) = Ptr(w, c.seg, "s16", base, Signed16(U16(f, 1))) BY <2>5, <2>6, <3>2 DEF Rm
    <3>5. QED BY <3>3, <3>4
  <2>7. CASE Md(f) = 1
    <3>1. RmLen(f) = 2 BY <2>7 DEF RmLen
    <3>2. Rm(w, c, f) = Ptr(w, c.seg, "s8", base, Signed8(f[1])) BY <2>7 DEF Rm
    <3>3. Rm(w, d, g) = Ptr(w, c.seg, "s8", base, Signed8(f[1])) BY <2>5, <2>7, <3>1 DEF Rm
    <3>4. QED BY <3>2, <3>3
  <2>8. CASE Md(f) = 0
    <3>1. Rm(w, c, f) = Ptr(w, c.seg, "amode", base, 0) BY <1>4, <2>8 DEF Rm
    <3>2. Rm(w, d, g) = Ptr(w, c.seg, "amode", base, 0) BY <1>4, <2>5, <2>8 DEF Rm
    <3>3. QED BY <3>1, <3>2
  <2>9. QED BY <1>1, <1>4, <2>6, <2>7, <2>8
<1>5. QED BY <1>2, <1>3, <1>4

-----------------------------------------------------------------------------
(* Numbers that stand in the code. *)

OfWidth(w, v) ==
  CASE w = 8 -> v \in Byte
    [] w = 16 -> \E a, b \in Byte : v = a + 256 * b
    [] OTHER -> \E a, b, c, d \in Byte : v = a + 256 * b + 65536 * (c + 256 * d)

\* What the decoder reads as a number of a width is one.
LEMMA ImmOfIs ==
  ASSUME NEW f \in Following, NEW w \in Widths, NEW k \in 0..3
  PROVE  \E v : OfWidth(w, v) /\ ImmOf(w, f, k) = Imm(w, v)
<1>1. f[k] \in Byte /\ f[k + 1] \in Byte /\ f[k + 2] \in Byte /\ f[k + 3] \in Byte BY DEF Following
<1>2. CASE w = 8
  BY <1>1, <1>2 DEF OfWidth, ImmOf
<1>3. CASE w = 16
  BY <1>1, <1>3 DEF OfWidth, ImmOf, U16
<1>4. CASE w = 32
  <2>1. k + 2 + 1 = k + 3 OBVIOUS
  <2>2. U32(f, k) = f[k] + 256 * f[k + 1] + 65536 * (f[k + 2] + 256 * f[k + 3])
    BY <2>1 DEF U32, U16
  <2>3. OfWidth(w, U32(f, k)) BY <1>1, <1>4, <2>2 DEF OfWidth
  <2>4. ImmOf(w, f, k) = Imm(w, U32(f, k)) BY <1>4 DEF ImmOf
  <2>5. QED BY <2>3, <2>4
<1>5. QED BY <1>2, <1>3, <1>4 DEF Widths

\* Its bytes are read as that number again.
LEMMA ImmRead ==
  ASSUME NEW w \in Widths, NEW v, OfWidth(w, v)
  PROVE  /\ BytesOf(w, v) \in Seq(Byte) /\ Len(BytesOf(w, v)) = ImmLen(w)
         /\ \A f, k : /\ f \in Following /\ k \in 0..3
                      /\ \A j \in 1..ImmLen(w) : f[k + (j - 1)] = BytesOf(w, v)[j]
                      => ImmOf(w, f, k) = Imm(w, v)
<1>1. CASE w = 8
  <2>1. v \in Byte /\ BytesOf(w, v) = <<v>> /\ ImmLen(w) = 1 BY <1>1 DEF OfWidth, BytesOf, ImmLen
  <2>2. ASSUME NEW f \in Following, NEW k \in 0..3, f[k + (1 - 1)] = v PROVE ImmOf(w, f, k) = Imm(w, v)
    <3>1. k + (1 - 1) = k OBVIOUS
    <3>2. f[k] = v BY <2>2, <3>1
    <3>3. QED BY <1>1, <3>2 DEF ImmOf
  <2>3. QED BY <2>1, <2>2
<1>2. CASE w = 16
  <2>1. PICK a, b \in Byte : v = a + 256 * b BY <1>2 DEF OfWidth
  <2>2. BytesOf(w, v) = <<a, b>> /\ ImmLen(w) = 2 BY <1>2, <2>1, TwoBytes DEF BytesOf, ImmLen
  <2>3. ASSUME NEW f \in Following, NEW k \in 0..3, f[k + (1 - 1)] = a, f[k + (2 - 1)] = b
        PROVE  ImmOf(w, f, k) = Imm(w, v)
    <3>1. k + (1 - 1) = k /\ k + (2 - 1) = k + 1 OBVIOUS
    <3>2. U16(f, k) = v BY <2>1, <2>3, <3>1 DEF U16
    <3>3. QED BY <1>2, <3>2 DEF ImmOf
  <2>4. QED BY <2>2, <2>3
<1>3. CASE w = 32
  <2>1. PICK a, b, c, d \in Byte : v = a + 256 * b + 65536 * (c + 256 * d) BY <1>3 DEF OfWidth
  <2>2. Bytes32(v) = <<a, b, c, d>> BY SMTT(60), <2>1, FourBytes
  <2>3. BytesOf(w, v) = <<a, b, c, d>> /\ ImmLen(w) = 4 BY <1>3, <2>2 DEF BytesOf, ImmLen
  <2>4. ASSUME NEW f \in Following, NEW k \in 0..3,
               f[k + (1 - 1)] = a, f[k + (2 - 1)] = b, f[k + (3 - 1)] = c, f[k + (4 - 1)] = d
        PROVE  ImmOf(w, f, k) = Imm(w, v)
    <3>1. k + (1 - 1) = k /\ k + (2 - 1) = k + 1 /\ k + (3 - 1) = k + 2 /\ k + (4 - 1) = k + 2 + 1
      OBVIOUS
    <3>2. U16(f, k) = a + 256 * b BY <2>4, <3>1 DEF U16
    <3>3. U16(f, k + 2) = c + 256 * d BY <2>4, <3>1 DEF U16
    <3>4. U32(f, k) = v BY <2>1, <3>2, <3>3 DEF U32
    <3>5. QED BY <1>3, <3>4 DEF ImmOf
  <2>5. QED BY <2>3, <2>4
<1>4. QED BY <1>1, <1>2, <1>3 DEF Widths

-----------------------------------------------------------------------------
(* Prefixes. *)

\* What the prefixes say that encode writes before an instruction.
Written(i, w) ==
  [seg |-> i.seg, size |-> IF w = 32 THEN 32 ELSE 16, addr |-> 16, lock |-> i.lock,
   repne |-> FALSE, rep |-> FALSE]
Prefixed(i) == i.lock \in BOOLEAN /\ i.seg \in Segments
Pre(i, w) == EncodedPrefixes(i) \o Size(w)

LEMMA WrittenIsContext ==
  ASSUME NEW i, Prefixed(i), NEW w
  PROVE  Written(i, w) \in Contexts
BY DEF Written, Prefixed, Contexts, Sizes

\* Segment prefixes.
SegBytes(i) ==
  CASE i.seg = "default" -> <<>> [] i.seg = "es" -> <<38>> [] i.seg = "cs" -> <<46>>
    [] i.seg = "ss" -> <<54>> [] i.seg = "ds" -> <<62>> [] i.seg = "fs" -> <<100>>
    [] i.seg = "gs" -> <<101>>

LEMMA SegBytesAre ==
  ASSUME NEW i, i.seg \in Segments
  PROVE  \/ i.seg = "default" /\ SegBytes(i) = <<>>
         \/ \E b \in SegmentBytes : SegBytes(i) = <<b>> /\ SegmentOf(b) = i.seg
BY DEF SegBytes, Segments, SegmentBytes, SegmentOf

\* The prefixes that are written, by cases.
SaysTheSame(i, w, pre) ==
  /\ pre \in Seq(Byte) /\ Len(pre) \in 0..3
  /\ \A k \in 1..Len(pre) : pre[k] \in PrefixBytes
  /\ \A k \in 1..Len(pre) : pre[k] \notin {103, 242, 243}
  /\ w = 32 <=> (\E k \in 1..Len(pre) : pre[k] = 102)
  /\ i.lock <=> (\E k \in 1..Len(pre) : pre[k] = 240)
  /\ \/ i.seg = "default" /\ \A k \in 1..Len(pre) : pre[k] \notin SegmentBytes
     \/ \E j \in 1..Len(pre) :
          /\ pre[j] \in SegmentBytes /\ SegmentOf(pre[j]) = i.seg
          /\ \A k \in 1..Len(pre) : pre[k] \in SegmentBytes => k = j

LEMMA PreSays ==
  ASSUME NEW i, Prefixed(i), NEW w \in Widths
  PROVE  SaysTheSame(i, w, Pre(i, w))
<1>1. PICK l : l = IF i.lock THEN <<240>> ELSE <<>> OBVIOUS
<1>2. PICK z : z = Size(w) OBVIOUS
<1>3. PICK p : p = l \o SegBytes(i) OBVIOUS
<1>4. PICK pre : pre = Pre(i, w) OBVIOUS
<1>5. pre = p \o z
  BY <1>1, <1>2, <1>3, <1>4 DEF Pre, EncodedPrefixes, SegBytes
<1>6. i.lock \in BOOLEAN /\ i.seg \in Segments BY DEF Prefixed
<1>7. w # 32 => z = <<>> BY <1>2 DEF Size
<1>8. w = 32 => z = <<102>> BY <1>2 DEF Size
<1>9. 102 \notin SegmentBytes /\ 240 \notin SegmentBytes BY DEF SegmentBytes
<1>10. 102 \in PrefixBytes /\ 240 \in PrefixBytes /\ 102 \in Byte /\ 240 \in Byte
  BY DEF PrefixBytes, Byte
<1>11. CASE i.seg = "default" /\ SegBytes(i) = <<>>
  <2>1. l \in Seq(Int) BY <1>1
  <2>2. p = l BY <1>3, <1>11, <2>1, EmptyJoins
  <2>3. CASE i.lock /\ w = 32
    <3>1. pre = <<240, 102>> BY SMTT(60), <1>1, <1>5, <1>8, <2>2, <2>3, TwoInOne
    <3>2. pre \in Seq(Byte) /\ Len(pre) = 2 BY <1>10, <3>1
    <3>3. pre[1] = 240 /\ pre[2] = 102 BY <3>1
    <3>4. \A k \in 1..2 : k = 1 \/ k = 2 OBVIOUS
    <3>5. \A k \in 1..2 : pre[k] \in PrefixBytes /\ pre[k] \notin {103, 242, 243}
      BY <1>10, <3>3, <3>4
    <3>6. \E k \in 1..2 : pre[k] = 102 BY <3>3, <3>4
    <3>7. \E k \in 1..2 : pre[k] = 240 BY <3>3, <3>4
    <3>8. \A k \in 1..2 : pre[k] \notin SegmentBytes BY <1>9, <3>3, <3>4
    <3>9. QED BY SMTT(60), <1>4, <1>11, <2>3, <3>2, <3>5, <3>6, <3>7, <3>8 DEF SaysTheSame
  <2>4. CASE i.lock /\ w # 32
    <3>1. pre = <<240>> BY <1>1, <1>5, <1>7, <2>1, <2>2, <2>4, EmptyJoins
    <3>2. pre \in Seq(Byte) /\ Len(pre) = 1 BY <1>10, <3>1
    <3>3. pre[1] = 240 BY <3>1
    <3>4. \A k \in 1..1 : k = 1 OBVIOUS
    <3>5. \A k \in 1..1 : pre[k] \in PrefixBytes /\ pre[k] \notin {103, 242, 243}
      BY <1>10, <3>3, <3>4
    <3>6. ~\E k \in 1..1 : pre[k] = 102 BY <3>3, <3>4
    <3>7. \E k \in 1..1 : pre[k] = 240 BY <3>3, <3>4
    <3>8. \A k \in 1..1 : pre[k] \notin SegmentBytes BY <1>9, <3>3, <3>4
    <3>9. QED BY <1>4, <1>11, <2>4, <3>2, <3>5, <3>6, <3>7, <3>8 DEF SaysTheSame
  <2>5. CASE ~i.lock /\ w = 32
    <3>1. pre = <<102>> BY <1>1, <1>5, <1>8, <2>2, <2>5, EmptyJoins
    <3>2. pre \in Seq(Byte) /\ Len(pre) = 1 BY <1>10, <3>1
    <3>3. pre[1] = 102 BY <3>1
    <3>4. \A k \in 1..1 : k = 1 OBVIOUS
    <3>5. \A k \in 1..1 : pre[k] \in PrefixBytes /\ pre[k] \notin {103, 242, 243}
      BY <1>10, <3>3, <3>4
    <3>6. \E k \in 1..1 : pre[k] = 102 BY <3>3, <3>4
    <3>7. ~\E k \in 1..1 : pre[k] = 240 BY <3>3, <3>4
    <3>8. \A k \in 1..1 : pre[k] \notin SegmentBytes BY <1>9, <3>3, <3>4
    <3>9. QED BY <1>4, <1>11, <2>5, <3>2, <3>5, <3>6, <3>7, <3>8 DEF SaysTheSame
  <2>6. CASE ~i.lock /\ w # 32
    <3>1. pre = <<>> BY <1>1, <1>5, <1>7, <2>1, <2>2, <2>6, EmptyJoins
    <3>2. pre \in Seq(Byte) /\ Len(pre) = 0 BY <3>1
    <3>3. QED BY <1>4, <1>11, <2>6, <3>2 DEF SaysTheSame
  <2>7. QED BY <1>6, <2>3, <2>4, <2>5, <2>6
<1>12. CASE \E b \in SegmentBytes : SegBytes(i) = <<b>> /\ SegmentOf(b) = i.seg
  <2>5. PICK b \in SegmentBytes : SegBytes(i) = <<b>> /\ SegmentOf(b) = i.seg BY <1>12
  <2>6. b \in Byte /\ b \in PrefixBytes /\ b \notin {102, 103, 240, 242, 243} /\ b \in Int
    BY DEF SegmentBytes, PrefixBytes, Byte
  <2>7. i.lock => p = <<240, b>> BY <1>1, <1>3, <2>5, <2>6, TwoInOne
  <2>8. ~i.lock => p = <<b>> BY <1>1, <1>3, <2>5, <2>6, EmptyJoins
  <2>9. p \in Seq(Int)
    <3>1. <<240, b>> \in Seq(Int) /\ <<b>> \in Seq(Int) BY <2>6
    <3>2. QED BY <1>6, <2>7, <2>8, <3>1
  <2>10. CASE i.lock /\ w = 32
    <3>1. pre = <<240, b, 102>> BY <1>5, <1>8, <2>6, <2>7, <2>8, <2>10, OneBehindTwo
    <3>2. pre \in Seq(Byte) /\ Len(pre) = 3 BY <1>10, <2>6, <3>1
    <3>3. pre[1] = 240 /\ pre[2] = b /\ pre[3] = 102 BY <3>1
    <3>4. \A k \in 1..3 : k = 1 \/ k = 2 \/ k = 3 OBVIOUS
    <3>5. \A k \in 1..3 : pre[k] \in PrefixBytes /\ pre[k] \notin {103, 242, 243}
      BY <1>10, <2>6, <3>3, <3>4
    <3>6. \E k \in 1..3 : pre[k] = 102 BY <2>6, <3>3, <3>4
    <3>7. \E k \in 1..3 : pre[k] = 240 BY <2>6, <3>3, <3>4
    <3>8. pre[2] \in SegmentBytes /\ SegmentOf(pre[2]) = i.seg BY <2>5, <3>3
    <3>9. \A k \in 1..3 : pre[k] \in SegmentBytes => k = 2 BY <1>9, <3>3, <3>4
    <3>10. \E j \in 1..3 : /\ pre[j] \in SegmentBytes /\ SegmentOf(pre[j]) = i.seg
                         /\ \A k \in 1..3 : pre[k] \in SegmentBytes => k = j
      BY <3>8, <3>9
    <3>11. Len(pre) \in 0..3 BY <3>2
    <3>12. PICK u : u = Len(pre) OBVIOUS
    <3>13. u = 3 BY <3>2, <3>12
    <3>14. (\E k \in 1..u : pre[k] = 102) /\ (\E k \in 1..u : pre[k] = 240) BY <3>6, <3>7, <3>13
    <3>15. \A k \in 1..u : pre[k] \in PrefixBytes /\ pre[k] \notin {103, 242, 243} BY <3>5, <3>13
    <3>16. \E j \in 1..u : /\ pre[j] \in SegmentBytes /\ SegmentOf(pre[j]) = i.seg
                         /\ \A k \in 1..u : pre[k] \in SegmentBytes => k = j
      BY <3>10, <3>13
    <3>17. \A k \in 1..u : pre[k] \in PrefixBytes BY <3>15
    <3>18. \A k \in 1..u : pre[k] \notin {103, 242, 243} BY <3>15
    <3>19. (w = 32 <=> \E k \in 1..u : pre[k] = 102) /\ (i.lock <=> \E k \in 1..u : pre[k] = 240)
      BY <2>10, <3>14
    <3>20. SaysTheSame(i, w, pre) BY <3>2, <3>11, <3>12, <3>16, <3>17, <3>18, <3>19, SMTT(60) DEF SaysTheSame
    <3>21. QED BY <1>4, <3>20
  <2>11. CASE i.lock /\ w # 32
    <3>1. pre = <<240, b>> BY ZenonT(60), <1>5, <1>7, <2>7, <2>8, <2>9, <2>11, EmptyJoins
    <3>2. pre \in Seq(Byte) /\ Len(pre) = 2 BY <1>10, <2>6, <3>1
    <3>3. pre[1] = 240 /\ pre[2] = b BY <3>1
    <3>4. \A k \in 1..2 : k = 1 \/ k = 2 OBVIOUS
    <3>5. \A k \in 1..2 : pre[k] \in PrefixBytes /\ pre[k] \notin {103, 242, 243}
      BY <1>10, <2>6, <3>3, <3>4
    <3>6. ~\E k \in 1..2 : pre[k] = 102 BY <2>6, <3>3, <3>4
    <3>7. \E k \in 1..2 : pre[k] = 240 BY <2>6, <3>3, <3>4
    <3>8. pre[2] \in SegmentBytes /\ SegmentOf(pre[2]) = i.seg BY <2>5, <3>3
    <3>9. \A k \in 1..2 : pre[k] \in SegmentBytes => k = 2 BY <1>9, <3>3, <3>4
    <3>10. \E j \in 1..2 : /\ pre[j] \in SegmentBytes /\ SegmentOf(pre[j]) = i.seg
                         /\ \A k \in 1..2 : pre[k] \in SegmentBytes => k = j
      BY <3>8, <3>9
    <3>11. QED BY <1>4, <2>11, <3>2, <3>5, <3>6, <3>7, <3>10 DEF SaysTheSame
  <2>12. CASE ~i.lock /\ w = 32
    <3>1. pre = <<b, 102>> BY <1>5, <1>8, <2>6, <2>7, <2>8, <2>12, TwoInOne
    <3>2. pre \in Seq(Byte) /\ Len(pre) = 2 BY <1>10, <2>6, <3>1
    <3>3. pre[1] = b /\ pre[2] = 102 BY <3>1
    <3>4. \A k \in 1..2 : k = 1 \/ k = 2 OBVIOUS
    <3>5. \A k \in 1..2 : pre[k] \in PrefixBytes /\ pre[k] \notin {103, 242, 243}
      BY <1>10, <2>6, <3>3, <3>4
    <3>6. \E k \in 1..2 : pre[k] = 102 BY <2>6, <3>3, <3>4
    <3>7. ~\E k \in 1..2 : pre[k] = 240 BY <2>6, <3>3, <3>4
    <3>8. pre[1] \in SegmentBytes /\ SegmentOf(pre[1]) = i.seg BY <2>5, <3>3
    <3>9. \A k \in 1..2 : pre[k] \in SegmentBytes => k = 1 BY <1>9, <3>3, <3>4
    <3>10. \E j \in 1..2 : /\ pre[j] \in SegmentBytes /\ SegmentOf(pre[j]) = i.seg
                         /\ \A k \in 1..2 : pre[k] \in SegmentBytes => k = j
      BY <3>8, <3>9
    <3>11. QED BY SMTT(60), <1>4, <2>12, <3>2, <3>5, <3>6, <3>7, <3>10 DEF SaysTheSame
  <2>13. CASE ~i.lock /\ w # 32
    <3>1. pre = <<b>> BY <1>5, <1>7, <2>7, <2>8, <2>9, <2>13, EmptyJoins
    <3>2. pre \in Seq(Byte) /\ Len(pre) = 1 BY <1>10, <2>6, <3>1
    <3>3. pre[1] = b BY <3>1
    <3>4. \A k \in 1..1 : k = 1 OBVIOUS
    <3>5. \A k \in 1..1 : pre[k] \in PrefixBytes /\ pre[k] \notin {103, 242, 243}
      BY <1>10, <2>6, <3>3, <3>4
    <3>6. ~\E k \in 1..1 : pre[k] = 102 BY <2>6, <3>3, <3>4
    <3>7. ~\E k \in 1..1 : pre[k] = 240 BY <2>6, <3>3, <3>4
    <3>8. pre[1] \in SegmentBytes /\ SegmentOf(pre[1]) = i.seg BY <2>5, <3>3
    <3>9. \A k \in 1..1 : pre[k] \in SegmentBytes => k = 1 BY <1>9, <3>3, <3>4
    <3>10. \E j \in 1..1 : /\ pre[j] \in SegmentBytes /\ SegmentOf(pre[j]) = i.seg
                         /\ \A k \in 1..1 : pre[k] \in SegmentBytes => k = j
      BY <3>8, <3>9
    <3>11. QED BY <1>4, <2>13, <3>2, <3>5, <3>6, <3>7, <3>10 DEF SaysTheSame
  <2>14. QED BY <1>6, <2>10, <2>11, <2>12, <2>13
<1>13. QED BY <1>6, <1>11, <1>12, SegBytesAre

\* And what decode understands by them.
LEMMA PrefixesRead ==
  ASSUME NEW i, Prefixed(i), NEW w \in Widths, NEW m, NEW at \in Nat, NEW pre, SaysTheSame(i, w, pre),
         NEW n, n = Len(pre), n <= SegSize, Reads(m, at, pre), At(m, at, n) \notin PrefixBytes
  PROVE  PrefixCount(m, at) = n /\ Context(m, at, n) = Written(i, w)
<1>1. n \in 0..3 /\ SegSize \in Nat BY SegSizeAssumption DEF SaysTheSame
<1>2. \A k \in 0..(n - 1) : At(m, at, k) = pre[k + 1]
  <2>1. \A k \in 1..n : At(m, at, k - 1) = pre[k] BY DEF Reads
  <2>2. QED BY <1>1, <2>1
<1>3. \A k \in 0..(n - 1) : At(m, at, k) \in PrefixBytes BY <1>1, <1>2 DEF SaysTheSame
<1>4. \A j \in 0..SegSize : /\ At(m, at, j) \notin PrefixBytes
                            /\ \A k \in 0..(j - 1) : At(m, at, k) \in PrefixBytes
                            => j = n
  BY <1>1, <1>3
<1>5. PrefixCount(m, at) = n
  BY <1>1, <1>3, <1>4 DEF PrefixCount
<1> DEFINE read == {At(m, at, k) : k \in 0..(n - 1)}
           segs == {k \in 0..(n - 1) : At(m, at, k) \in SegmentBytes}
<1>6. \A v : v \in read <=> \E k \in 1..n : pre[k] = v
  <2>1. ASSUME NEW v, NEW k \in 0..(n - 1), At(m, at, k) = v PROVE \E j \in 1..n : pre[j] = v
    BY <1>1, <1>2, <2>1
  <2>2. ASSUME NEW v, NEW k \in 1..n, pre[k] = v PROVE \E j \in 0..(n - 1) : At(m, at, j) = v
    <3>1. k - 1 \in 0..(n - 1) BY <1>1
    <3>2. At(m, at, k - 1) = pre[k] BY DEF Reads
    <3>3. QED BY <2>2, <3>1, <3>2
  <2>3. QED BY <2>1, <2>2
<1> HIDE DEF read
<1>7. 103 \notin read /\ 242 \notin read /\ 243 \notin read BY <1>1, <1>6 DEF SaysTheSame
<1>8. (102 \in read <=> w = 32) /\ (240 \in read <=> i.lock) BY <1>1, <1>6 DEF SaysTheSame
<1>9. (IF segs = {} THEN "default"
       ELSE SegmentOf(At(m, at, CHOOSE k \in segs : \A j \in segs : j <= k))) = i.seg
  <2>1. CASE i.seg = "default" /\ \A k \in 1..n : pre[k] \notin SegmentBytes
    BY <1>1, <1>2, <2>1
  <2>2. CASE \E j \in 1..n : /\ pre[j] \in SegmentBytes /\ SegmentOf(pre[j]) = i.seg
                             /\ \A k \in 1..n : pre[k] \in SegmentBytes => k = j
    <3>1. PICK j \in 1..n : /\ pre[j] \in SegmentBytes /\ SegmentOf(pre[j]) = i.seg
                            /\ \A k \in 1..n : pre[k] \in SegmentBytes => k = j
      BY <2>2
    <3>2. segs = {j - 1}
      <4>1. j - 1 \in 0..(n - 1) /\ j \in Int BY <1>1
      <4>2. At(m, at, j - 1) = pre[j] BY <1>2, <4>1
      <4>3. ASSUME NEW k \in 0..(n - 1), At(m, at, k) \in SegmentBytes PROVE k = j - 1
        <5>1. k + 1 \in 1..n /\ At(m, at, k) = pre[k + 1] BY <1>1, <1>2
        <5>2. k + 1 = j BY <3>1, <4>3, <5>1
        <5>3. QED BY <4>1, <5>2
      <4>4. QED BY <3>1, <4>1, <4>2, <4>3
    <3>3. (CHOOSE k \in segs : \A q \in segs : q <= k) = j - 1 BY <1>1, <3>2
    <3>4. At(m, at, j - 1) = pre[j] BY <1>1, <1>2
    <3>5. QED BY <3>1, <3>2, <3>3, <3>4
  <2>3. \/ i.seg = "default" /\ \A k \in 1..n : pre[k] \notin SegmentBytes
        \/ \E j \in 1..n : /\ pre[j] \in SegmentBytes /\ SegmentOf(pre[j]) = i.seg
                           /\ \A k \in 1..n : pre[k] \in SegmentBytes => k = j
    BY DEF SaysTheSame
  <2>4. QED BY <2>1, <2>2, <2>3
<1>10. (240 \in read) = i.lock BY <1>8 DEF Prefixed
<1> DEFINE seg == IF segs = {} THEN "default"
                  ELSE SegmentOf(At(m, at, CHOOSE k \in segs : \A j \in segs : j <= k))
<1>11. Context(m, at, n)
         = [seg |-> seg, size |-> IF 102 \in read THEN 32 ELSE 16,
            addr |-> IF 103 \in read THEN 32 ELSE 16,
            lock |-> 240 \in read, repne |-> 242 \in read, rep |-> 243 \in read]
  BY DEF Context, read
<1>12. seg = i.seg BY <1>9
<1> HIDE DEF seg
<1>13. (242 \in read) = FALSE /\ (243 \in read) = FALSE BY <1>7
<1>16. /\ (IF 102 \in read THEN 32 ELSE 16) = (IF w = 32 THEN 32 ELSE 16)
       /\ (IF 103 \in read THEN 32 ELSE 16) = 16
  BY <1>7, <1>8
<1>14. Context(m, at, n) = Written(i, w) BY <1>10, <1>11, <1>12, <1>13, <1>16, Zenon DEF Written
<1>15. QED BY <1>5, <1>14

-----------------------------------------------------------------------------
(* What decode makes of the bytes behind the prefixes. *)

\* The instruction at pos, n bytes of prefixes before it.
Body(m, pos, c, n) ==
  LET b == At(m, pos, 0)
      skip == IF b = 15 THEN 2 ELSE 1
      f == FollowingAt(m, pos + skip)
      row == RowAt(b, At(m, pos, 1), f, c)
  IN  IF Unreachable(row, f) THEN [panic |-> TRUE] ELSE Instruction(row, c, f, b, pos + skip, n + skip)

LEMMA DecodeSplits ==
  ASSUME NEW m, NEW at \in Nat, NEW n \in 0..3, NEW c, PrefixCount(m, at) = n, Context(m, at, n) = c
  PROVE  Decode(m, at) = Body(m, at + n, c, n)
<1>1. PICK pos \in Nat : pos = at + n OBVIOUS
<1>2. At(m, at, n) = At(m, pos, 0) /\ At(m, at, n + 1) = At(m, pos, 1)
  <2>1. at + n = pos + 0 /\ at + (n + 1) = pos + 1 BY <1>1
  <2>2. QED BY <2>1 DEF At
<1>3. PICK skip \in {1, 2} : skip = IF At(m, pos, 0) = 15 THEN 2 ELSE 1 OBVIOUS
<1>4. PICK head : head = n + skip OBVIOUS
<1>5. head = IF At(m, at, n) = 15 THEN n + 2 ELSE n + 1 BY <1>2, <1>3, <1>4
<1>6. at + head = pos + skip BY <1>1, <1>3, <1>4
<1>7. [k \in 0..7 |-> At(m, at + head, k)] = FollowingAt(m, pos + skip) BY <1>6 DEF FollowingAt
<1> DEFINE f == FollowingAt(m, pos + skip)
           row == RowAt(At(m, pos, 0), At(m, pos, 1), f, c)
<1>8. Decode(m, at) = IF Unreachable(row, f) THEN [panic |-> TRUE]
                      ELSE Instruction(row, c, f, At(m, pos, 0), pos + skip, n + skip)
  BY <1>2, <1>4, <1>5, <1>6, <1>7 DEF Decode
<1>9. QED BY <1>1, <1>3, <1>8 DEF Body

\* An instruction without a repeat prefix.
Made(op, w, dst, src, src2, c, len) ==
  [panic |-> FALSE, op |-> op, w |-> w, dst |-> dst, src |-> src, src2 |-> src2,
   seg |-> c.seg, lock |-> c.lock, repeat |-> "none", length |-> len]
PlainContexts == {c \in Contexts : c.addr = 16 /\ c.rep = FALSE /\ c.repne = FALSE}

OperandsAt(row, c, f, b, pos) ==
  IF row.layout \in PlainLayouts THEN PlainLayout(row.layout, Width(row, c), c, f, b, pos)
  ELSE RmLayout(row.layout, Width(row, c), c, f)

LEMMA InstructionIs ==
  ASSUME NEW row, NEW c \in PlainContexts, NEW f, NEW b, NEW pos, NEW head \in 0..5,
         NEW op, op = row.ops[RegField(f)], op \notin Widthless,
         NEW o, o = OperandsAt(row, c, f, b, pos), o.n \in 0..7
  PROVE  Instruction(row, c, f, b, pos, head)
           = Made(op, Width(row, c), o.dst, o.src, o.src2, c, head + o.n)
<1>1. c.rep = FALSE /\ c.repne = FALSE BY DEF PlainContexts
<1>2. (head + o.n) % 256 = head + o.n OBVIOUS
<1>3. QED BY ZenonT(60), <1>1, <1>2 DEF Instruction, Made, OperandsAt

\* One byte of opcode, and what stands behind it.
OneByteOpcodes == Byte \ ({15} \cup (216..223))
SregLayouts == {"rm,sreg", "sreg,rm"}

LEMMA OneByte ==
  ASSUME NEW m \in Memories, NEW pos \in Nat, NEW n \in 0..3, NEW c \in PlainContexts,
         NEW b \in OneByteOpcodes, b = 255 => c.size = 16,
         Reads(m, pos, <<b>>), NEW g, g = FollowingAt(m, pos + 1), NEW row, row = Table(b), row.layout \notin SregLayouts,
         NEW op, op = row.ops[RegField(g)], op \notin Widthless,
         NEW o, o = OperandsAt(row, c, g, b, pos + 1), o.n \in 0..7
  PROVE  Body(m, pos, c, n) = Made(op, Width(row, c), o.dst, o.src, o.src2, c, n + 1 + o.n)
<1>1. b \in Byte /\ b # 15 /\ b \notin 216..223 BY DEF OneByteOpcodes
<1>3. At(m, pos, 0) = b
  <2>1. Len(<<b>>) = 1 /\ <<b>>[1] = b OBVIOUS
  <2>2. At(m, pos, 1 - 1) = b BY <2>1 DEF Reads
  <2>3. QED BY <2>2
<1>4. RowAt(b, At(m, pos, 1), g, c) = row
  <2>1. ~(b = 255 /\ c.size = 32) OBVIOUS
  <2>2. QED BY <1>1, <2>1 DEF RowAt
<1>5. ~Unreachable(row, g) BY DEF Unreachable, SregLayouts
<1>6. Body(m, pos, c, n) = Instruction(row, c, g, b, pos + 1, n + 1)
  BY <1>1, <1>3, <1>4, <1>5 DEF Body
<1>7. n + 1 \in 0..5 OBVIOUS
<1>8. QED BY <1>6, <1>7, InstructionIs

LEMMA TwoByte ==
  ASSUME NEW m \in Memories, NEW pos \in Nat, NEW n \in 0..3, NEW c \in PlainContexts,
         NEW b \in Byte, b \in {183, 191} => c.size = 32,
         Reads(m, pos, <<15, b>>), NEW g, g = FollowingAt(m, pos + 2), NEW row, row = Table0F(b), row.layout \notin SregLayouts,
         NEW op, op = row.ops[RegField(g)], op \notin Widthless,
         NEW o, o = OperandsAt(row, c, g, 15, pos + 2), o.n \in 0..7
  PROVE  Body(m, pos, c, n) = Made(op, Width(row, c), o.dst, o.src, o.src2, c, n + 2 + o.n)
<1>2. At(m, pos, 0) = 15 /\ At(m, pos, 1) = b
  <2>1. Len(<<15, b>>) = 2 /\ <<15, b>>[1] = 15 /\ <<15, b>>[2] = b OBVIOUS
  <2>2. At(m, pos, 1 - 1) = 15 /\ At(m, pos, 2 - 1) = b BY <2>1 DEF Reads
  <2>3. QED BY <2>2
<1>3. RowAt(15, b, g, c) = row
  <2>1. ~(b \in {183, 191} /\ c.size = 16) OBVIOUS
  <2>2. QED BY <2>1 DEF RowAt
<1>4. ~Unreachable(row, g) BY DEF Unreachable, SregLayouts
<1>5. Body(m, pos, c, n) = Instruction(row, c, g, 15, pos + 2, n + 2)
  BY <1>2, <1>3, <1>4 DEF Body
<1>6. n + 2 \in 0..5 OBVIOUS
<1>7. QED BY <1>5, <1>6, InstructionIs

-----------------------------------------------------------------------------
(* The rows of the opcodes that encode writes. *)

LEMMA TableOf ==
  ASSUME NEW x \in 0..31, NEW y \in 0..7, NEW b, b = 8 * x + y
  PROVE  Table(b) = OpcodeMap[x + 1][y + 1]
<1>1. b \div 8 = x /\ b % 8 = y OBVIOUS
<1>2. QED BY <1>1 DEF Table

LEMMA ListsAre ==
  /\ OpcodeMap[9] = RegisterRows("inc") /\ OpcodeMap[10] = RegisterRows("dec")
  /\ OpcodeMap[12] = RegisterRows("pop") /\ OpcodeMap[14] = ImmediateRows
  /\ OpcodeMap[17] = GroupRows80 /\ OpcodeMap[18] = MoveRows /\ OpcodeMap[19] = ExchangeRows
  /\ OpcodeMap[20] = ConvertRows /\ OpcodeMap[21] = OffsetRows /\ OpcodeMap[22] = StringRows
  /\ OpcodeMap[23] = Same(Row("mov", "b", "reg,imm")) /\ OpcodeMap[24] = Same(Row("mov", "v", "reg,imm"))
  /\ OpcodeMap[25] = ReturnRows /\ OpcodeMap[26] = EnterRows /\ OpcodeMap[27] = ShiftRows
  /\ OpcodeMap[31] = MathRows /\ OpcodeMap[32] = FlagRows
BY DEF OpcodeMap

\* The eight arithmetic operations.
LEMMA ArithLists ==
  \A reg \in 0..7 : \E wide \in {"v", "w"} : \E seventh, eighth :
    OpcodeMap[reg + 1] = ArithRows(Arith[reg + 1], wide, seventh, eighth)
<1> SUFFICES ASSUME NEW reg \in 0..7
             PROVE  \E wide \in {"v", "w"} : \E seventh, eighth :
                      OpcodeMap[reg + 1] = ArithRows(Arith[reg + 1], wide, seventh, eighth)
  OBVIOUS
<1> DEFINE Is(n, op) == \E wide \in {"v", "w"} : \E seventh, eighth :
                          OpcodeMap[n] = ArithRows(op, wide, seventh, eighth)
<1>1. Is(1, "add") BY DEF OpcodeMap, AddRows
<1>2. Is(2, "or") BY DEF OpcodeMap, OrRows
<1>3. Is(3, "adc") BY DEF OpcodeMap, AdcRows
<1>4. Is(4, "sbb") BY DEF OpcodeMap, SbbRows
<1>5. Is(5, "and") BY DEF OpcodeMap, AndRows
<1>6. Is(6, "sub") BY DEF OpcodeMap, SubRows
<1>7. Is(7, "xor") BY DEF OpcodeMap, XorRows
<1>8. Is(8, "cmp") BY DEF OpcodeMap, CmpRows
<1> HIDE DEF Is
<1>9. Is(reg + 1, Arith[reg + 1])
  <2>1. reg \in {0, 1, 2, 3, 4, 5, 6, 7} OBVIOUS
  <2>2. QED BY <1>1, <1>2, <1>3, <1>4, <1>5, <1>6, <1>7, <1>8, <2>1 DEF Arith
<1>10. QED BY <1>9 DEF Is

LEMMA ArithTable ==
  ASSUME NEW reg \in 0..7
  PROVE  /\ Table(8 * reg) = Row(Arith[reg + 1], "b", "rm,r")
         /\ Table(8 * reg + 1) = Row(Arith[reg + 1], "v", "rm,r")
         /\ Table(8 * reg + 2) = Row(Arith[reg + 1], "b", "r,rm")
         /\ \E wide \in {"v", "w"} : Table(8 * reg + 3) = Row(Arith[reg + 1], wide, "r,rm")
         /\ Table(8 * reg + 4) = Row(Arith[reg + 1], "b", "acc,imm")
         /\ Table(8 * reg + 5) = Row(Arith[reg + 1], "v", "acc,imm")
<1>0. PICK wide \in {"v", "w"} : \E seventh, eighth :
        OpcodeMap[reg + 1] = ArithRows(Arith[reg + 1], wide, seventh, eighth)
  BY ArithLists
<1>1. PICK seventh, eighth : OpcodeMap[reg + 1] = ArithRows(Arith[reg + 1], wide, seventh, eighth)
  BY <1>0
<1>2. ASSUME NEW y \in 0..7 PROVE Table(8 * reg + y) = OpcodeMap[reg + 1][y + 1]
  <2>1. reg \in 0..31 OBVIOUS
  <2>2. QED BY <2>1, TableOf
<1>3. /\ Table(8 * reg + 0) = OpcodeMap[reg + 1][1] /\ Table(8 * reg + 1) = OpcodeMap[reg + 1][2]
      /\ Table(8 * reg + 2) = OpcodeMap[reg + 1][3] /\ Table(8 * reg + 3) = OpcodeMap[reg + 1][4]
      /\ Table(8 * reg + 4) = OpcodeMap[reg + 1][5] /\ Table(8 * reg + 5) = OpcodeMap[reg + 1][6]
  BY <1>2
<1>4. 8 * reg + 0 = 8 * reg OBVIOUS
<1>5. PICK rows : rows = ArithRows(Arith[reg + 1], wide, seventh, eighth) OBVIOUS
<1>6. /\ rows[1] = Row(Arith[reg + 1], "b", "rm,r") /\ rows[2] = Row(Arith[reg + 1], "v", "rm,r")
      /\ rows[3] = Row(Arith[reg + 1], "b", "r,rm") /\ rows[4] = Row(Arith[reg + 1], wide, "r,rm")
      /\ rows[5] = Row(Arith[reg + 1], "b", "acc,imm") /\ rows[6] = Row(Arith[reg + 1], "v", "acc,imm")
  BY <1>5 DEF ArithRows
<1>7. OpcodeMap[reg + 1] = rows BY <1>1, <1>5
<1>8. QED BY <1>3, <1>4, <1>6, <1>7

LEMMA ImmediateRowsAre ==
  /\ Table(104) = Row("push", "w", "imm")
  /\ Table(107) = Row("imul", "v", "r,rm,imms8")
<1>1. Table(104) = Row("push", "w", "imm")
  <2>1. 104 = 8 * 13 + 0 OBVIOUS
  <2>2. Table(104) = OpcodeMap[14][1] BY <2>1, TableOf
  <2>3. OpcodeMap[14] = ImmediateRows BY ListsAre
  <2>4. ImmediateRows[1] = Row("push", "w", "imm") BY DEF ImmediateRows
  <2>5. QED BY <2>2, <2>3, <2>4
<1>2. Table(107) = Row("imul", "v", "r,rm,imms8")
  <2>1. 107 = 8 * 13 + 3 OBVIOUS
  <2>2. Table(107) = OpcodeMap[14][4] BY <2>1, TableOf
  <2>3. OpcodeMap[14] = ImmediateRows BY ListsAre
  <2>4. ImmediateRows[4] = Row("imul", "v", "r,rm,imms8") BY DEF ImmediateRows
  <2>5. QED BY <2>2, <2>3, <2>4
<1>3. QED BY <1>1, <1>2

LEMMA GroupRows80Are ==
  /\ Table(128) = Group(Arith, "b", "rm,imm")
  /\ Table(129) = Group(Arith, "v", "rm,imm")
  /\ Table(132) = Row("test", "b", "rm,r")
  /\ Table(133) = Row("test", "v", "rm,r")
  /\ Table(134) = Row("xchg", "b", "rm,r")
  /\ Table(135) = Row("xchg", "w", "rm,r")
<1>1. Table(128) = Group(Arith, "b", "rm,imm")
  <2>1. 128 = 8 * 16 + 0 OBVIOUS
  <2>2. Table(128) = OpcodeMap[17][1] BY <2>1, TableOf
  <2>3. OpcodeMap[17] = GroupRows80 BY ListsAre
  <2>4. GroupRows80[1] = Group(Arith, "b", "rm,imm") BY DEF GroupRows80
  <2>5. QED BY <2>2, <2>3, <2>4
<1>2. Table(129) = Group(Arith, "v", "rm,imm")
  <2>1. 129 = 8 * 16 + 1 OBVIOUS
  <2>2. Table(129) = OpcodeMap[17][2] BY <2>1, TableOf
  <2>3. OpcodeMap[17] = GroupRows80 BY ListsAre
  <2>4. GroupRows80[2] = Group(Arith, "v", "rm,imm") BY DEF GroupRows80
  <2>5. QED BY <2>2, <2>3, <2>4
<1>3. Table(132) = Row("test", "b", "rm,r")
  <2>1. 132 = 8 * 16 + 4 OBVIOUS
  <2>2. Table(132) = OpcodeMap[17][5] BY <2>1, TableOf
  <2>3. OpcodeMap[17] = GroupRows80 BY ListsAre
  <2>4. GroupRows80[5] = Row("test", "b", "rm,r") BY DEF GroupRows80
  <2>5. QED BY <2>2, <2>3, <2>4
<1>4. Table(133) = Row("test", "v", "rm,r")
  <2>1. 133 = 8 * 16 + 5 OBVIOUS
  <2>2. Table(133) = OpcodeMap[17][6] BY <2>1, TableOf
  <2>3. OpcodeMap[17] = GroupRows80 BY ListsAre
  <2>4. GroupRows80[6] = Row("test", "v", "rm,r") BY DEF GroupRows80
  <2>5. QED BY <2>2, <2>3, <2>4
<1>5. Table(134) = Row("xchg", "b", "rm,r")
  <2>1. 134 = 8 * 16 + 6 OBVIOUS
  <2>2. Table(134) = OpcodeMap[17][7] BY <2>1, TableOf
  <2>3. OpcodeMap[17] = GroupRows80 BY ListsAre
  <2>4. GroupRows80[7] = Row("xchg", "b", "rm,r") BY DEF GroupRows80
  <2>5. QED BY <2>2, <2>3, <2>4
<1>6. Table(135) = Row("xchg", "w", "rm,r")
  <2>1. 135 = 8 * 16 + 7 OBVIOUS
  <2>2. Table(135) = OpcodeMap[17][8] BY <2>1, TableOf
  <2>3. OpcodeMap[17] = GroupRows80 BY ListsAre
  <2>4. GroupRows80[8] = Row("xchg", "w", "rm,r") BY DEF GroupRows80
  <2>5. QED BY <2>2, <2>3, <2>4
<1>7. QED BY <1>1, <1>2, <1>3, <1>4, <1>5, <1>6

LEMMA MoveRowsAre ==
  /\ Table(136) = Row("mov", "b", "rm,r")
  /\ Table(138) = Row("mov", "b", "r,rm")
  /\ Table(141) = Row("lea", "w", "r,rm")
<1>1. Table(136) = Row("mov", "b", "rm,r")
  <2>1. 136 = 8 * 17 + 0 OBVIOUS
  <2>2. Table(136) = OpcodeMap[18][1] BY <2>1, TableOf
  <2>3. OpcodeMap[18] = MoveRows BY ListsAre
  <2>4. MoveRows[1] = Row("mov", "b", "rm,r") BY DEF MoveRows
  <2>5. QED BY <2>2, <2>3, <2>4
<1>2. Table(138) = Row("mov", "b", "r,rm")
  <2>1. 138 = 8 * 17 + 2 OBVIOUS
  <2>2. Table(138) = OpcodeMap[18][3] BY <2>1, TableOf
  <2>3. OpcodeMap[18] = MoveRows BY ListsAre
  <2>4. MoveRows[3] = Row("mov", "b", "r,rm") BY DEF MoveRows
  <2>5. QED BY <2>2, <2>3, <2>4
<1>3. Table(141) = Row("lea", "w", "r,rm")
  <2>1. 141 = 8 * 17 + 5 OBVIOUS
  <2>2. Table(141) = OpcodeMap[18][6] BY <2>1, TableOf
  <2>3. OpcodeMap[18] = MoveRows BY ListsAre
  <2>4. MoveRows[6] = Row("lea", "w", "r,rm") BY DEF MoveRows
  <2>5. QED BY <2>2, <2>3, <2>4
<1>4. QED BY <1>1, <1>2, <1>3

LEMMA ExchangeRowsAre ==
  /\ Table(144) = Plain("nop")
<1>1. Table(144) = Plain("nop")
  <2>1. 144 = 8 * 18 + 0 OBVIOUS
  <2>2. Table(144) = OpcodeMap[19][1] BY <2>1, TableOf
  <2>3. OpcodeMap[19] = ExchangeRows BY ListsAre
  <2>4. ExchangeRows[1] = Plain("nop") BY DEF ExchangeRows
  <2>5. QED BY <2>2, <2>3, <2>4
<1>2. QED BY <1>1

LEMMA ConvertRowsAre ==
  /\ Table(152) = Row("cbw", "v", "none")
  /\ Table(153) = Plain("cwd")
  /\ Table(157) = Plain("popf")
  /\ Table(158) = Plain("sahf")
  /\ Table(159) = Plain("lahf")
<1>1. Table(152) = Row("cbw", "v", "none")
  <2>1. 152 = 8 * 19 + 0 OBVIOUS
  <2>2. Table(152) = OpcodeMap[20][1] BY <2>1, TableOf
  <2>3. OpcodeMap[20] = ConvertRows BY ListsAre
  <2>4. ConvertRows[1] = Row("cbw", "v", "none") BY DEF ConvertRows
  <2>5. QED BY <2>2, <2>3, <2>4
<1>2. Table(153) = Plain("cwd")
  <2>1. 153 = 8 * 19 + 1 OBVIOUS
  <2>2. Table(153) = OpcodeMap[20][2] BY <2>1, TableOf
  <2>3. OpcodeMap[20] = ConvertRows BY ListsAre
  <2>4. ConvertRows[2] = Plain("cwd") BY DEF ConvertRows
  <2>5. QED BY <2>2, <2>3, <2>4
<1>3. Table(157) = Plain("popf")
  <2>1. 157 = 8 * 19 + 5 OBVIOUS
  <2>2. Table(157) = OpcodeMap[20][6] BY <2>1, TableOf
  <2>3. OpcodeMap[20] = ConvertRows BY ListsAre
  <2>4. ConvertRows[6] = Plain("popf") BY DEF ConvertRows
  <2>5. QED BY <2>2, <2>3, <2>4
<1>4. Table(158) = Plain("sahf")
  <2>1. 158 = 8 * 19 + 6 OBVIOUS
  <2>2. Table(158) = OpcodeMap[20][7] BY <2>1, TableOf
  <2>3. OpcodeMap[20] = ConvertRows BY ListsAre
  <2>4. ConvertRows[7] = Plain("sahf") BY DEF ConvertRows
  <2>5. QED BY <2>2, <2>3, <2>4
<1>5. Table(159) = Plain("lahf")
  <2>1. 159 = 8 * 19 + 7 OBVIOUS
  <2>2. Table(159) = OpcodeMap[20][8] BY <2>1, TableOf
  <2>3. OpcodeMap[20] = ConvertRows BY ListsAre
  <2>4. ConvertRows[8] = Plain("lahf") BY DEF ConvertRows
  <2>5. QED BY <2>2, <2>3, <2>4
<1>6. QED BY <1>1, <1>2, <1>3, <1>4, <1>5

LEMMA OffsetRowsAre ==
  /\ Table(160) = Row("mov", "b", "acc,moffs")
  /\ Table(162) = Row("mov", "b", "moffs,acc")
  /\ Table(166) = Plain("cmpsb")
  /\ Table(167) = Plain("cmpsw")
<1>1. Table(160) = Row("mov", "b", "acc,moffs")
  <2>1. 160 = 8 * 20 + 0 OBVIOUS
  <2>2. Table(160) = OpcodeMap[21][1] BY <2>1, TableOf
  <2>3. OpcodeMap[21] = OffsetRows BY ListsAre
  <2>4. OffsetRows[1] = Row("mov", "b", "acc,moffs") BY DEF OffsetRows
  <2>5. QED BY <2>2, <2>3, <2>4
<1>2. Table(162) = Row("mov", "b", "moffs,acc")
  <2>1. 162 = 8 * 20 + 2 OBVIOUS
  <2>2. Table(162) = OpcodeMap[21][3] BY <2>1, TableOf
  <2>3. OpcodeMap[21] = OffsetRows BY ListsAre
  <2>4. OffsetRows[3] = Row("mov", "b", "moffs,acc") BY DEF OffsetRows
  <2>5. QED BY <2>2, <2>3, <2>4
<1>3. Table(166) = Plain("cmpsb")
  <2>1. 166 = 8 * 20 + 6 OBVIOUS
  <2>2. Table(166) = OpcodeMap[21][7] BY <2>1, TableOf
  <2>3. OpcodeMap[21] = OffsetRows BY ListsAre
  <2>4. OffsetRows[7] = Plain("cmpsb") BY DEF OffsetRows
  <2>5. QED BY <2>2, <2>3, <2>4
<1>4. Table(167) = Plain("cmpsw")
  <2>1. 167 = 8 * 20 + 7 OBVIOUS
  <2>2. Table(167) = OpcodeMap[21][8] BY <2>1, TableOf
  <2>3. OpcodeMap[21] = OffsetRows BY ListsAre
  <2>4. OffsetRows[8] = Plain("cmpsw") BY DEF OffsetRows
  <2>5. QED BY <2>2, <2>3, <2>4
<1>5. QED BY <1>1, <1>2, <1>3, <1>4

LEMMA StringRowsAre ==
  /\ Table(168) = Row("test", "b", "acc,imm")
  /\ Table(169) = Row("test", "v", "acc,imm")
<1>1. Table(168) = Row("test", "b", "acc,imm")
  <2>1. 168 = 8 * 21 + 0 OBVIOUS
  <2>2. Table(168) = OpcodeMap[22][1] BY <2>1, TableOf
  <2>3. OpcodeMap[22] = StringRows BY ListsAre
  <2>4. StringRows[1] = Row("test", "b", "acc,imm") BY DEF StringRows
  <2>5. QED BY <2>2, <2>3, <2>4
<1>2. Table(169) = Row("test", "v", "acc,imm")
  <2>1. 169 = 8 * 21 + 1 OBVIOUS
  <2>2. Table(169) = OpcodeMap[22][2] BY <2>1, TableOf
  <2>3. OpcodeMap[22] = StringRows BY ListsAre
  <2>4. StringRows[2] = Row("test", "v", "acc,imm") BY DEF StringRows
  <2>5. QED BY <2>2, <2>3, <2>4
<1>3. QED BY <1>1, <1>2

LEMMA ReturnRowsAre ==
  /\ Table(192) = Group(Shifts, "b", "rm,imm8")
  /\ Table(193) = Group(Shifts, "v", "rm,imm8")
<1>1. Table(192) = Group(Shifts, "b", "rm,imm8")
  <2>1. 192 = 8 * 24 + 0 OBVIOUS
  <2>2. Table(192) = OpcodeMap[25][1] BY <2>1, TableOf
  <2>3. OpcodeMap[25] = ReturnRows BY ListsAre
  <2>4. ReturnRows[1] = Group(Shifts, "b", "rm,imm8") BY DEF ReturnRows
  <2>5. QED BY <2>2, <2>3, <2>4
<1>2. Table(193) = Group(Shifts, "v", "rm,imm8")
  <2>1. 193 = 8 * 24 + 1 OBVIOUS
  <2>2. Table(193) = OpcodeMap[25][2] BY <2>1, TableOf
  <2>3. OpcodeMap[25] = ReturnRows BY ListsAre
  <2>4. ReturnRows[2] = Group(Shifts, "v", "rm,imm8") BY DEF ReturnRows
  <2>5. QED BY <2>2, <2>3, <2>4
<1>3. QED BY <1>1, <1>2

LEMMA EnterRowsAre ==
  /\ Table(204) = Row("int", "none", "three")
  /\ Table(205) = Row("int", "none", "imm8")
<1>1. Table(204) = Row("int", "none", "three")
  <2>1. 204 = 8 * 25 + 4 OBVIOUS
  <2>2. Table(204) = OpcodeMap[26][5] BY <2>1, TableOf
  <2>3. OpcodeMap[26] = EnterRows BY ListsAre
  <2>4. EnterRows[5] = Row("int", "none", "three") BY DEF EnterRows
  <2>5. QED BY <2>2, <2>3, <2>4
<1>2. Table(205) = Row("int", "none", "imm8")
  <2>1. 205 = 8 * 25 + 5 OBVIOUS
  <2>2. Table(205) = OpcodeMap[26][6] BY <2>1, TableOf
  <2>3. OpcodeMap[26] = EnterRows BY ListsAre
  <2>4. EnterRows[6] = Row("int", "none", "imm8") BY DEF EnterRows
  <2>5. QED BY <2>2, <2>3, <2>4
<1>3. QED BY <1>1, <1>2

LEMMA ShiftRowsAre ==
  /\ Table(208) = Group(Shifts, "b", "rm,one")
  /\ Table(209) = Group(Shifts, "w", "rm,one")
  /\ Table(212) = Row("aam", "none", "imm8")
  /\ Table(213) = Row("aad", "none", "imm8")
  /\ Table(214) = Plain("salc")
  /\ Table(215) = Plain("xlatb")
<1>1. Table(208) = Group(Shifts, "b", "rm,one")
  <2>1. 208 = 8 * 26 + 0 OBVIOUS
  <2>2. Table(208) = OpcodeMap[27][1] BY <2>1, TableOf
  <2>3. OpcodeMap[27] = ShiftRows BY ListsAre
  <2>4. ShiftRows[1] = Group(Shifts, "b", "rm,one") BY DEF ShiftRows
  <2>5. QED BY <2>2, <2>3, <2>4
<1>2. Table(209) = Group(Shifts, "w", "rm,one")
  <2>1. 209 = 8 * 26 + 1 OBVIOUS
  <2>2. Table(209) = OpcodeMap[27][2] BY <2>1, TableOf
  <2>3. OpcodeMap[27] = ShiftRows BY ListsAre
  <2>4. ShiftRows[2] = Group(Shifts, "w", "rm,one") BY DEF ShiftRows
  <2>5. QED BY <2>2, <2>3, <2>4
<1>3. Table(212) = Row("aam", "none", "imm8")
  <2>1. 212 = 8 * 26 + 4 OBVIOUS
  <2>2. Table(212) = OpcodeMap[27][5] BY <2>1, TableOf
  <2>3. OpcodeMap[27] = ShiftRows BY ListsAre
  <2>4. ShiftRows[5] = Row("aam", "none", "imm8") BY DEF ShiftRows
  <2>5. QED BY <2>2, <2>3, <2>4
<1>4. Table(213) = Row("aad", "none", "imm8")
  <2>1. 213 = 8 * 26 + 5 OBVIOUS
  <2>2. Table(213) = OpcodeMap[27][6] BY <2>1, TableOf
  <2>3. OpcodeMap[27] = ShiftRows BY ListsAre
  <2>4. ShiftRows[6] = Row("aad", "none", "imm8") BY DEF ShiftRows
  <2>5. QED BY <2>2, <2>3, <2>4
<1>5. Table(214) = Plain("salc")
  <2>1. 214 = 8 * 26 + 6 OBVIOUS
  <2>2. Table(214) = OpcodeMap[27][7] BY <2>1, TableOf
  <2>3. OpcodeMap[27] = ShiftRows BY ListsAre
  <2>4. ShiftRows[7] = Plain("salc") BY DEF ShiftRows
  <2>5. QED BY <2>2, <2>3, <2>4
<1>6. Table(215) = Plain("xlatb")
  <2>1. 215 = 8 * 26 + 7 OBVIOUS
  <2>2. Table(215) = OpcodeMap[27][8] BY <2>1, TableOf
  <2>3. OpcodeMap[27] = ShiftRows BY ListsAre
  <2>4. ShiftRows[8] = Plain("xlatb") BY DEF ShiftRows
  <2>5. QED BY <2>2, <2>3, <2>4
<1>7. QED BY <1>1, <1>2, <1>3, <1>4, <1>5, <1>6

LEMMA MathRowsAre ==
  /\ Table(241) = Row("int", "none", "oneb")
  /\ Table(245) = Plain("cmc")
  /\ Table(246) = Group(Math, "b", "math")
  /\ Table(247) = Group(Math, "v", "math")
<1>1. Table(241) = Row("int", "none", "oneb")
  <2>1. 241 = 8 * 30 + 1 OBVIOUS
  <2>2. Table(241) = OpcodeMap[31][2] BY <2>1, TableOf
  <2>3. OpcodeMap[31] = MathRows BY ListsAre
  <2>4. MathRows[2] = Row("int", "none", "oneb") BY DEF MathRows
  <2>5. QED BY <2>2, <2>3, <2>4
<1>2. Table(245) = Plain("cmc")
  <2>1. 245 = 8 * 30 + 5 OBVIOUS
  <2>2. Table(245) = OpcodeMap[31][6] BY <2>1, TableOf
  <2>3. OpcodeMap[31] = MathRows BY ListsAre
  <2>4. MathRows[6] = Plain("cmc") BY DEF MathRows
  <2>5. QED BY <2>2, <2>3, <2>4
<1>3. Table(246) = Group(Math, "b", "math")
  <2>1. 246 = 8 * 30 + 6 OBVIOUS
  <2>2. Table(246) = OpcodeMap[31][7] BY <2>1, TableOf
  <2>3. OpcodeMap[31] = MathRows BY ListsAre
  <2>4. MathRows[7] = Group(Math, "b", "math") BY DEF MathRows
  <2>5. QED BY <2>2, <2>3, <2>4
<1>4. Table(247) = Group(Math, "v", "math")
  <2>1. 247 = 8 * 30 + 7 OBVIOUS
  <2>2. Table(247) = OpcodeMap[31][8] BY <2>1, TableOf
  <2>3. OpcodeMap[31] = MathRows BY ListsAre
  <2>4. MathRows[8] = Group(Math, "v", "math") BY DEF MathRows
  <2>5. QED BY <2>2, <2>3, <2>4
<1>5. QED BY <1>1, <1>2, <1>3, <1>4

LEMMA FlagRowsAre ==
  /\ Table(248) = Plain("clc")
  /\ Table(249) = Plain("stc")
  /\ Table(250) = Plain("cli")
  /\ Table(251) = Plain("sti")
  /\ Table(252) = Plain("cld")
  /\ Table(253) = Plain("std")
  /\ Table(254) = Group(IncDec, "b", "rm")
  /\ Table(255) = Group(IncDecCall, "v", "rm")
<1>1. Table(248) = Plain("clc")
  <2>1. 248 = 8 * 31 + 0 OBVIOUS
  <2>2. Table(248) = OpcodeMap[32][1] BY <2>1, TableOf
  <2>3. OpcodeMap[32] = FlagRows BY ListsAre
  <2>4. FlagRows[1] = Plain("clc") BY DEF FlagRows
  <2>5. QED BY <2>2, <2>3, <2>4
<1>2. Table(249) = Plain("stc")
  <2>1. 249 = 8 * 31 + 1 OBVIOUS
  <2>2. Table(249) = OpcodeMap[32][2] BY <2>1, TableOf
  <2>3. OpcodeMap[32] = FlagRows BY ListsAre
  <2>4. FlagRows[2] = Plain("stc") BY DEF FlagRows
  <2>5. QED BY <2>2, <2>3, <2>4
<1>3. Table(250) = Plain("cli")
  <2>1. 250 = 8 * 31 + 2 OBVIOUS
  <2>2. Table(250) = OpcodeMap[32][3] BY <2>1, TableOf
  <2>3. OpcodeMap[32] = FlagRows BY ListsAre
  <2>4. FlagRows[3] = Plain("cli") BY DEF FlagRows
  <2>5. QED BY <2>2, <2>3, <2>4
<1>4. Table(251) = Plain("sti")
  <2>1. 251 = 8 * 31 + 3 OBVIOUS
  <2>2. Table(251) = OpcodeMap[32][4] BY <2>1, TableOf
  <2>3. OpcodeMap[32] = FlagRows BY ListsAre
  <2>4. FlagRows[4] = Plain("sti") BY DEF FlagRows
  <2>5. QED BY <2>2, <2>3, <2>4
<1>5. Table(252) = Plain("cld")
  <2>1. 252 = 8 * 31 + 4 OBVIOUS
  <2>2. Table(252) = OpcodeMap[32][5] BY <2>1, TableOf
  <2>3. OpcodeMap[32] = FlagRows BY ListsAre
  <2>4. FlagRows[5] = Plain("cld") BY DEF FlagRows
  <2>5. QED BY <2>2, <2>3, <2>4
<1>6. Table(253) = Plain("std")
  <2>1. 253 = 8 * 31 + 5 OBVIOUS
  <2>2. Table(253) = OpcodeMap[32][6] BY <2>1, TableOf
  <2>3. OpcodeMap[32] = FlagRows BY ListsAre
  <2>4. FlagRows[6] = Plain("std") BY DEF FlagRows
  <2>5. QED BY <2>2, <2>3, <2>4
<1>7. Table(254) = Group(IncDec, "b", "rm")
  <2>1. 254 = 8 * 31 + 6 OBVIOUS
  <2>2. Table(254) = OpcodeMap[32][7] BY <2>1, TableOf
  <2>3. OpcodeMap[32] = FlagRows BY ListsAre
  <2>4. FlagRows[7] = Group(IncDec, "b", "rm") BY DEF FlagRows
  <2>5. QED BY <2>2, <2>3, <2>4
<1>8. Table(255) = Group(IncDecCall, "v", "rm")
  <2>1. 255 = 8 * 31 + 7 OBVIOUS
  <2>2. Table(255) = OpcodeMap[32][8] BY <2>1, TableOf
  <2>3. OpcodeMap[32] = FlagRows BY ListsAre
  <2>4. FlagRows[8] = Group(IncDecCall, "v", "rm") BY DEF FlagRows
  <2>5. QED BY <2>2, <2>3, <2>4
<1>9. QED BY <1>1, <1>2, <1>3, <1>4, <1>5, <1>6, <1>7, <1>8

LEMMA AdjustRowsAre ==
  /\ Table(39) = Plain("daa") /\ Table(47) = Plain("das") /\ Table(55) = Plain("aaa")
  /\ Table(63) = Plain("aas")
<1>1. Table(39) = Plain("daa")
  <2>1. 39 = 8 * 4 + 7 OBVIOUS
  <2>2. Table(39) = OpcodeMap[5][8] BY <2>1, TableOf
  <2>3. OpcodeMap[5] = AndRows BY DEF OpcodeMap
  <2>4. AndRows[8] = Plain("daa") BY DEF AndRows, ArithRows
  <2>5. QED BY <2>2, <2>3, <2>4
<1>2. Table(47) = Plain("das")
  <2>1. 47 = 8 * 5 + 7 OBVIOUS
  <2>2. Table(47) = OpcodeMap[6][8] BY <2>1, TableOf
  <2>3. OpcodeMap[6] = SubRows BY DEF OpcodeMap
  <2>4. SubRows[8] = Plain("das") BY DEF SubRows, ArithRows
  <2>5. QED BY <2>2, <2>3, <2>4
<1>3. Table(55) = Plain("aaa")
  <2>1. 55 = 8 * 6 + 7 OBVIOUS
  <2>2. Table(55) = OpcodeMap[7][8] BY <2>1, TableOf
  <2>3. OpcodeMap[7] = XorRows BY DEF OpcodeMap
  <2>4. XorRows[8] = Plain("aaa") BY DEF XorRows, ArithRows
  <2>5. QED BY <2>2, <2>3, <2>4
<1>4. Table(63) = Plain("aas")
  <2>1. 63 = 8 * 7 + 7 OBVIOUS
  <2>2. Table(63) = OpcodeMap[8][8] BY <2>1, TableOf
  <2>3. OpcodeMap[8] = CmpRows BY DEF OpcodeMap
  <2>4. CmpRows[8] = Plain("aas") BY DEF CmpRows, ArithRows
  <2>5. QED BY <2>2, <2>3, <2>4
<1>5. QED BY <1>1, <1>2, <1>3, <1>4

\* The opcodes that hold a register number.
LEMMA RegisterTable ==
  ASSUME NEW r \in 0..7
  PROVE  /\ Table(64 + r) = Row("inc", "v", "reg") /\ Table(72 + r) = Row("dec", "v", "reg")
         /\ Table(88 + r) = Row("pop", "v", "reg")
         /\ Table(176 + r) = Row("mov", "b", "reg,imm") /\ Table(184 + r) = Row("mov", "v", "reg,imm")
         /\ r # 0 => Table(144 + r) = Row("xchg", "v", "acc,reg")
<1>1. ASSUME NEW x \in 0..31, NEW b, b = 8 * x + r PROVE Table(b) = OpcodeMap[x + 1][r + 1]
  BY <1>1, TableOf
<1>2. /\ 64 + r = 8 * 8 + r /\ 72 + r = 8 * 9 + r /\ 88 + r = 8 * 11 + r
      /\ 176 + r = 8 * 22 + r /\ 184 + r = 8 * 23 + r /\ 144 + r = 8 * 18 + r
  OBVIOUS
<1>3. /\ Table(64 + r) = OpcodeMap[9][r + 1] /\ Table(72 + r) = OpcodeMap[10][r + 1]
      /\ Table(88 + r) = OpcodeMap[12][r + 1]
  BY <1>1, <1>2
<1>4. /\ Table(176 + r) = OpcodeMap[23][r + 1] /\ Table(184 + r) = OpcodeMap[24][r + 1]
      /\ Table(144 + r) = OpcodeMap[19][r + 1]
  BY <1>1, <1>2
<1>5. r + 1 \in 1..8 /\ (r # 0 => r + 1 # 1) OBVIOUS
<1>6. /\ OpcodeMap[9] = RegisterRows("inc") /\ OpcodeMap[10] = RegisterRows("dec")
      /\ OpcodeMap[12] = RegisterRows("pop") /\ OpcodeMap[19] = ExchangeRows
      /\ OpcodeMap[23] = Same(Row("mov", "b", "reg,imm"))
      /\ OpcodeMap[24] = Same(Row("mov", "v", "reg,imm"))
  BY ListsAre
<1>7. \A row : Same(row)[r + 1] = row BY <1>5 DEF Same
<1>8. \A op : RegisterRows(op)[r + 1] = Row(op, "v", "reg") BY <1>7 DEF RegisterRows
<1>9. r # 0 => ExchangeRows[r + 1] = Row("xchg", "v", "acc,reg") BY <1>5 DEF ExchangeRows
<1>10. /\ Table(64 + r) = Row("inc", "v", "reg") /\ Table(72 + r) = Row("dec", "v", "reg")
       /\ Table(88 + r) = Row("pop", "v", "reg")
  BY <1>3, <1>6, <1>8
<1>11. /\ Table(176 + r) = Row("mov", "b", "reg,imm") /\ Table(184 + r) = Row("mov", "v", "reg,imm")
  BY <1>4, <1>6, <1>7
<1>12. r # 0 => Table(144 + r) = Row("xchg", "v", "acc,reg") BY <1>4, <1>6, <1>9
<1>13. QED BY <1>10, <1>11, <1>12

\* After 0Fh.
LEMMA Table0FIs ==
  /\ Table0F(163) = Row("bt", "w", "rm,r") /\ Table0F(188) = Row("bsf", "w", "r,rm")
  /\ Table0F(164) = Row("shld", "w", "rm,r,imm8") /\ Table0F(172) = Row("shrd", "w", "rm,r,imm8")
  /\ Table0F(175) = Row("imul", "v", "r,rm")
  /\ Table0F(182) = Row("movzx", "v", "r,rm8") /\ Table0F(190) = Row("movsx", "v", "r,rm8")
  /\ Table0F(183) = Row("movzx", "v", "r32,rm16") /\ Table0F(191) = Row("movsx", "v", "r32,rm16")
BY DEF Table0F

-----------------------------------------------------------------------------
(* Operands, by what they are and not by where they stood. *)

IsGeneral(w, o) == \E r \in 0..7 : o = Reg(w, GeneralNames(w)[r + 1])
IsRm(w, c, o) == \E f \in Following : o = Rm(w, c, f)

\* A register is also a register-or-memory operand.
LEMMA GeneralIsRm ==
  ASSUME NEW w \in Widths, NEW c, NEW o, IsGeneral(w, o)
  PROVE  IsRm(w, c, o)
<1>1. PICK r \in 0..7 : o = Reg(w, GeneralNames(w)[r + 1]) BY DEF IsGeneral
<1>2. PICK x \in Byte : x = ModRegRm(3, 0, r) BY FieldsOf
<1>3. PICK f : f = [k \in 0..7 |-> x] OBVIOUS
<1>4. f \in Following /\ f[0] = x BY <1>3 DEF Following
<1>5. Md(f) = 3 /\ RmField(f) = r BY <1>2, <1>4, FieldsOf DEF Md, RmField
<1>6. Rm(w, c, f) = o BY <1>1, <1>5 DEF Rm
<1>7. QED BY <1>4, <1>6 DEF IsRm

LEMMA GeneralFacts ==
  ASSUME NEW w \in Widths, NEW o, IsGeneral(w, o)
  PROVE  /\ o.kind = "reg" /\ o.w = w /\ Index(o.r) \in 0..7
         /\ o = Reg(w, GeneralNames(w)[Index(o.r) + 1])
         /\ o.r = GeneralNames(w)[Index(o.r) + 1]
         /\ Short(o)
<1>1. PICK r \in 0..7 : o = Reg(w, GeneralNames(w)[r + 1]) BY DEF IsGeneral
<1>2. o.kind = "reg" /\ o.w = w /\ o.r = GeneralNames(w)[r + 1] BY <1>1 DEF Reg
<1>3. Index(o.r) = r BY <1>2, IndexOfGeneral
<1>4. QED BY <1>1, <1>2, <1>3 DEF Short

\* It is a register, or a pointer of its width.
LEMMA RmKinds ==
  ASSUME NEW w \in Widths, NEW c \in Contexts, NEW o, IsRm(w, c, o)
  PROVE  IsGeneral(w, o) \/ (o.kind = "ptr" /\ o.w = w)
<1>1. PICK f \in Following : o = Rm(w, c, f) BY DEF IsRm
<1>2. Md(f) \in 0..3 /\ RmField(f) \in 0..7 BY FieldRanges
<1>3. CASE Md(f) = 3
  <2>1. o = Reg(w, GeneralNames(w)[RmField(f) + 1]) BY <1>1, <1>3 DEF Rm
  <2>2. QED BY <1>2, <2>1 DEF IsGeneral
<1>4. CASE Md(f) # 3
  BY <1>1, <1>2, <1>4 DEF Rm, Ptr
<1>5. QED BY <1>3, <1>4

\* What encode makes of it.
LEMMA OperandEncoded ==
  ASSUME NEW w \in Widths, NEW c \in Contexts, NEW o, IsRm(w, c, o), NEW reg \in 0..7
  PROVE  \/ EncodeRm(o, reg) = Panic
         \/ \E f \in Following : o = Rm(w, c, f) /\ EncodeRm(o, reg) = Emit(RmBytes(f, reg))
<1>1. PICK f \in Following : o = Rm(w, c, f) BY DEF IsRm
<1>2. QED BY <1>1, RmEncoded

\* A register is one byte.
LEMMA GeneralEncoded ==
  ASSUME NEW w \in Widths, NEW c \in Contexts, NEW o, IsGeneral(w, o), NEW reg \in 0..7
  PROVE  \E f \in Following : /\ o = Rm(w, c, f) /\ RmLen(f) = 1
                              /\ RmBytes(f, reg) = <<ModRegRm(3, reg, Index(o.r))>>
<1>1. PICK f \in Following : o = Rm(w, c, f) BY GeneralIsRm DEF IsRm
<1>2. Md(f) \in 0..3 /\ RmField(f) \in 0..7 BY FieldRanges
<1>3. o.kind = "reg" BY GeneralFacts
<1>4. Md(f) = 3 BY <1>1, <1>2, <1>3 DEF Rm, Ptr
<1>5. o = Reg(w, GeneralNames(w)[RmField(f) + 1]) BY <1>1, <1>4 DEF Rm
<1>6. o.r = GeneralNames(w)[RmField(f) + 1] BY <1>5 DEF Reg
<1>7. Index(o.r) = RmField(f) BY <1>2, <1>6, IndexOfGeneral
<1>8. RmLen(f) = 1 /\ RmBytes(f, reg) = <<ModRegRm(3, reg, Index(o.r))>>
  BY <1>4, <1>7 DEF RmLen, RmBytes
<1>9. QED BY <1>1, <1>8

-----------------------------------------------------------------------------
(* An operand and a number behind an opcode. *)

LEMMA WrittenIsPlain ==
  ASSUME NEW i, Prefixed(i), NEW w
  PROVE  /\ Written(i, w) \in PlainContexts /\ Written(i, w) \in Contexts
         /\ Written(i, w).seg = i.seg /\ Written(i, w).lock = i.lock /\ Written(i, w).addr = 16
         /\ Written(i, w).size = IF w = 32 THEN 32 ELSE 16
BY WrittenIsContext DEF Written, PlainContexts

LEMMA UpToSeven ==
  ASSUME NEW l \in 1..3, NEW z \in 0..4
  PROVE  l + z \in 0..7
OBVIOUS

\* A sequence of so many bytes.
IsBytes(s, z) == s \in Seq(Byte) /\ Len(s) = z

\* Bytes behind the first ones.
LEMMA BehindRead ==
  ASSUME NEW m, NEW pos \in Nat, NEW n \in 1..3, NEW imm, NEW z \in 0..4, IsBytes(imm, z),
         NEW t, t = pos + n, Reads(m, t, imm), NEW g, g = FollowingAt(m, pos)
  PROVE  \A j \in 1..z : g[n + (j - 1)] = imm[j]
<1> TAKE j \in 1..z
<1>1. PICK k \in 0..3 : k = j - 1
  <2>1. j - 1 \in 0..3 OBVIOUS
  <2>2. QED BY <2>1
<1>2. At(m, pos + n, k) = imm[j] BY <1>1 DEF Reads, IsBytes
<1>3. n \in Nat /\ k \in Nat BY <1>1
<1>4. At(m, pos + n, k) = At(m, pos, n + k) BY <1>3, AtShifted
<1>5. n + k \in 0..7 BY <1>1
<1>6. QED BY <1>1, <1>2, <1>4, <1>5 DEF FollowingAt

\* The bytes of an opcode, and its row in the tables when the prefixes say c.
Selects(code, u, row, c) ==
  /\ row.layout \notin SregLayouts
  /\ \/ u = 1 /\ \E b \in OneByteOpcodes \ PrefixBytes :
                   code = <<b>> /\ row = Table(b) /\ (b = 255 => c.size = 16)
     \/ u = 2 /\ \E b \in Byte : code = <<15, b>> /\ row = Table0F(b) /\ (b \in {183, 191} => c.size = 32)

\* They are one or two, and no prefix.
LEMMA CodeIs ==
  ASSUME NEW code, NEW u, NEW row, NEW c, Selects(code, u, row, c)
  PROVE  IsBytes(code, u) /\ u \in {1, 2} /\ code[1] \in Byte \ PrefixBytes
<1>1. CASE u = 1 /\ \E b \in OneByteOpcodes \ PrefixBytes : code = <<b>>
  BY <1>1 DEF OneByteOpcodes, IsBytes
<1>2. CASE u = 2 /\ \E b \in Byte : code = <<15, b>>
  <2>1. 15 \in Byte \ PrefixBytes BY DEF Byte, PrefixBytes, SegmentBytes
  <2>2. QED BY <1>2, <2>1 DEF IsBytes
<1>3. QED BY <1>1, <1>2 DEF Selects

\* The operation that a row names.
Names(row, reg, op) == op = row.ops[reg] /\ op \notin Widthless
\* Few bytes of operands.
Few(o) == o.n \in 0..7

\* What decode makes of them.
LEMMA CodeRead ==
  ASSUME NEW m \in Memories, NEW pos \in Nat, NEW n \in 0..3, NEW c \in PlainContexts,
         NEW code, NEW u, NEW row, Selects(code, u, row, c),
         Reads(m, pos, code), NEW q, q = pos + u, NEW g, g = FollowingAt(m, q),
         NEW op, Names(row, RegField(g), op),
         NEW b, b = code[1], NEW o, o = OperandsAt(row, c, g, b, q), Few(o)
  PROVE  Body(m, pos, c, n) = Made(op, Width(row, c), o.dst, o.src, o.src2, c, n + u + o.n)
<1>0. row.layout \notin SregLayouts /\ o.n \in 0..7 /\ op = row.ops[RegField(g)] /\ op \notin Widthless
  BY DEF Selects, Few, Names
<1>1. CASE u = 1 /\ \E x \in OneByteOpcodes \ PrefixBytes :
                      code = <<x>> /\ row = Table(x) /\ (x = 255 => c.size = 16)
  <2>1. PICK x \in OneByteOpcodes : code = <<x>> /\ row = Table(x) /\ (x = 255 => c.size = 16) BY <1>1
  <2>2. u = 1 /\ b = x BY <1>1, <2>1
  <2>3. Reads(m, pos, <<x>>) BY <2>1
  <2>4. g = FollowingAt(m, pos + 1) /\ o = OperandsAt(row, c, g, x, pos + 1) BY <2>2
  <2>5. Body(m, pos, c, n) = Made(op, Width(row, c), o.dst, o.src, o.src2, c, n + 1 + o.n)
    BY <1>0, <2>1, <2>3, <2>4, OneByte
  <2>6. QED BY <2>2, <2>5
<1>2. CASE u = 2 /\ \E x \in Byte : code = <<15, x>> /\ row = Table0F(x) /\ (x \in {183, 191} => c.size = 32)
  <2>1. PICK x \in Byte : code = <<15, x>> /\ row = Table0F(x) /\ (x \in {183, 191} => c.size = 32) BY <1>2
  <2>2. u = 2 /\ b = 15 BY <1>2, <2>1
  <2>3. Reads(m, pos, <<15, x>>) BY <2>1
  <2>4. g = FollowingAt(m, pos + 2) /\ o = OperandsAt(row, c, g, 15, pos + 2) BY <2>2
  <2>5. Body(m, pos, c, n) = Made(op, Width(row, c), o.dst, o.src, o.src2, c, n + 2 + o.n)
    BY <1>0, <2>1, <2>3, <2>4, TwoByte
  <2>6. QED BY <2>2, <2>5
<1>3. QED BY <1>1, <1>2 DEF Selects

-----------------------------------------------------------------------------
(* What is written of an instruction behind its prefixes, and what is read. *)

\* Of an operand encode writes bytes or panics.
LEMMA OperandBytes ==
  ASSUME NEW w \in Widths, NEW c \in Contexts, NEW o, IsRm(w, c, o), NEW reg \in 0..7,
         NEW r, r = EncodeRm(o, reg), r.out = "bytes"
  PROVE  \E f \in Following : /\ o = Rm(w, c, f) /\ r = Emit(RmBytes(f, reg))
                              /\ o.kind = "reg" => RmLen(f) = 1
<1>1. PICK f \in Following : o = Rm(w, c, f) /\ r = Emit(RmBytes(f, reg))
  BY OperandEncoded DEF Panic
<1>2. ASSUME o.kind = "reg" PROVE RmLen(f) = 1
  <2>1. Md(f) \in 0..3 BY FieldRanges
  <2>2. Md(f) = 3 BY <1>1, <1>2, <2>1 DEF Rm, Ptr
  <2>3. QED BY <2>2 DEF RmLen
<1>3. QED BY <1>1, <1>2

\* One piece behind the other, and three of them: an opcode, an operand and a
\* number.
Join(p, q) == p \o q
ArePieces(p, u, q, l, s, z) ==
  /\ IsBytes(p, u) /\ u \in {1, 2} /\ p[1] \notin PrefixBytes
  /\ IsBytes(q, l) /\ l \in 1..3 /\ IsBytes(s, z) /\ z \in 0..4
Begins(body) == body[1] \notin PrefixBytes
ReadsPieces(m, pos, p, u, q, l, s) == Reads(m, pos, p) /\ Reads(m, pos + u, q) /\ Reads(m, (pos + u) + l, s)

LEMMA JoinAssociative ==
  ASSUME NEW p \in Seq(Byte), NEW q \in Seq(Byte), NEW s \in Seq(Byte)
  PROVE  Join(p, Join(q, s)) = Join(Join(p, q), s)
BY SMTT(60), ConcatAssociative DEF Join

LEMMA JoinIs ==
  ASSUME NEW p, NEW u \in Nat, IsBytes(p, u), NEW s, NEW z \in Nat, IsBytes(s, z)
  PROVE  IsBytes(Join(p, s), u + z) /\ (u > 0 => Join(p, s)[1] = p[1])
<1>1. PICK a \in Seq(Byte) : a = p BY DEF IsBytes
<1>2. PICK b \in Seq(Byte) : b = s BY DEF IsBytes
<1>3. a \o b \in Seq(Byte) /\ Len(a \o b) = Len(a) + Len(b) OBVIOUS
<1>4. Len(a) > 0 => (a \o b)[1] = a[1] OBVIOUS
<1>5. QED BY <1>1, <1>2, <1>3, <1>4 DEF Join, IsBytes

\* Put together they have their bytes in order.
LEMMA PiecesJoined ==
  ASSUME NEW p, NEW u, NEW q, NEW l, NEW s, NEW z, ArePieces(p, u, q, l, s, z),
         NEW body, body = Join(p, Join(q, s))
  PROVE  IsBytes(body, u + (l + z)) /\ Begins(body) /\ body = Join(Join(p, q), s)
<1>1. /\ p \in Seq(Byte) /\ q \in Seq(Byte) /\ s \in Seq(Byte)
      /\ Len(p) = u /\ Len(q) = l /\ Len(s) = z /\ u \in {1, 2} /\ p[1] \notin PrefixBytes
      /\ l \in 1..3 /\ z \in 0..4
  BY DEF IsBytes, ArePieces
<1>2. PICK t : t = Join(q, s) OBVIOUS
<1>3. t \in Seq(Byte) /\ Len(t) = l + z BY <1>1, <1>2 DEF Join
<1>4. body \in Seq(Byte) /\ Len(body) = u + (l + z) /\ body[1] = p[1] BY <1>1, <1>2, <1>3 DEF Join
<1>5. body = Join(Join(p, q), s) BY <1>1, JoinAssociative
<1>6. QED BY <1>1, <1>4, <1>5 DEF IsBytes, Begins

LEMMA PiecesRead ==
  ASSUME NEW p, NEW u, NEW q, NEW l, NEW s, NEW z, ArePieces(p, u, q, l, s, z),
         NEW body, body = Join(p, Join(q, s)), NEW m, NEW pos \in Nat, Reads(m, pos, body)
  PROVE  ReadsPieces(m, pos, p, u, q, l, s)
<1>1. /\ p \in Seq(Byte) /\ q \in Seq(Byte) /\ s \in Seq(Byte)
      /\ Len(p) = u /\ Len(q) = l /\ Len(s) = z /\ u \in {1, 2}
  BY DEF IsBytes, ArePieces
<1>2. PICK t : t = Join(q, s) OBVIOUS
<1>3. t \in Seq(Byte) BY <1>1, <1>2 DEF Join
<1>4. Reads(m, pos, p \o t) BY <1>2 DEF Join
<1>5. Reads(m, pos, p) /\ Reads(m, pos + u, t) BY <1>1, <1>3, <1>4, ReadsApart
<1>6. PICK at \in Nat : at = pos + u BY <1>1
<1>7. Reads(m, at, q \o s) BY <1>2, <1>5, <1>6 DEF Join
<1>8. Reads(m, at, q) /\ Reads(m, at + l, s) BY <1>1, <1>7, ReadsApart
<1>9. QED BY <1>5, <1>6, <1>8 DEF ReadsPieces

\* What a lemma about them starts from: prefixes, an opcode, an operand that is
\* written as r, a number.
Setting(i, c, d) == Prefixed(i) /\ c \in Contexts /\ c.seg = i.seg /\ (\E w : d = Written(i, w))
Coded(code, u, row, d, reg, op) ==
  Selects(code, u, row, d) /\ row.layout \notin PlainLayouts /\ reg \in 0..7 /\ Names(row, reg, op)
Encoded(v, c, o, reg, r) ==
  v \in Widths /\ IsRm(v, c, o) /\ reg \in 0..7 /\ r = EncodeRm(o, reg) /\ r.out = "bytes"
Fits(imm, z, u, o) == IsBytes(imm, z) /\ z \in 0..4 /\ (z \in {0, 1} \/ (u = 1 /\ o.kind = "reg"))

\* An opcode with an operand o of width v: where its operands are read as q the
\* instruction is the one that the row names.
RmReads(d, body, u, row, reg, op, v, o, l, imm, z) ==
  \A m \in Memories : \A pos \in Nat : \A n \in 0..3 : Reads(m, pos, body) =>
    \E g \in Following :
      /\ RegField(g) = reg /\ RmLen(g) = l
      /\ \A j \in 1..z : g[l + (j - 1)] = imm[j]
      /\ Short(o) => Rm(v, d, g) = o
      /\ \A q : q = RmLayout(row.layout, Width(row, d), d, g) /\ q.n = l + z
                => Body(m, pos, d, n) = Made(op, Width(row, d), q.dst, q.src, q.src2, d, n + u + (l + z))

LEMMA RmShape ==
  ASSUME NEW i, NEW c, NEW d, Setting(i, c, d), NEW code, NEW u, NEW row, NEW reg, NEW op,
         Coded(code, u, row, d, reg, op), NEW v, NEW o, NEW r, Encoded(v, c, o, reg, r),
         NEW imm, NEW z, Fits(imm, z, u, o)
  PROVE  \E l \in 1..3 : \E body :
           /\ body = Join(code, Join(r.bytes, imm)) /\ body = Join(Join(code, r.bytes), imm)
           /\ r = Emit(r.bytes) /\ IsBytes(r.bytes, l) /\ (o.kind = "reg" => l = 1)
           /\ IsBytes(body, u + (l + z)) /\ Begins(body) /\ u \in {1, 2}
           /\ RmReads(d, body, u, row, reg, op, v, o, l, imm, z)
<1>a. PICK w : d = Written(i, w) BY DEF Setting
<1>b. Prefixed(i) /\ c \in Contexts /\ c.seg = i.seg BY DEF Setting
<1>c. /\ Selects(code, u, row, d) /\ row.layout \notin PlainLayouts /\ reg \in 0..7
      /\ Names(row, reg, op)
  BY DEF Coded
<1>d. v \in Widths /\ IsRm(v, c, o) /\ r = EncodeRm(o, reg) /\ r.out = "bytes" BY DEF Encoded
<1>e. IsBytes(imm, z) /\ z \in 0..4 BY DEF Fits
<1> USE <1>a, <1>b, <1>c, <1>d, <1>e
<1>1. PICK f \in Following : /\ o = Rm(v, c, f) /\ r = Emit(RmBytes(f, reg))
                             /\ o.kind = "reg" => RmLen(f) = 1
  BY OperandBytes
<1>2. RmBytes(f, reg) \in Seq(Byte) /\ Len(RmBytes(f, reg)) = RmLen(f) /\ RmLen(f) \in 1..3
  BY RmBytesAre
<1>3. PICK l \in 1..3 : l = RmLen(f) BY <1>2
<1>4. PICK s : s = RmBytes(f, reg) OBVIOUS
<1>5. r = Emit(s) /\ r.bytes = s BY <1>1, <1>4 DEF Emit
<1>6. IsBytes(s, l) BY <1>2, <1>3, <1>4 DEF IsBytes
<1>7. IsBytes(code, u) /\ u \in {1, 2} /\ code[1] \notin PrefixBytes BY CodeIs
<1>8. PICK body : body = Join(code, Join(s, imm)) OBVIOUS
<1>9. ArePieces(code, u, s, l, imm, z) BY <1>6, <1>7 DEF ArePieces
<1>10. IsBytes(body, u + (l + z)) /\ Begins(body) /\ body = Join(Join(code, s), imm)
  BY <1>8, <1>9, PiecesJoined
<1>11. d \in Contexts /\ d \in PlainContexts /\ d.seg = c.seg /\ d.addr = 16 BY WrittenIsPlain
<1>12. ASSUME NEW m \in Memories, NEW pos \in Nat, NEW n \in 0..3, Reads(m, pos, body)
       PROVE  \E g \in Following :
                /\ RegField(g) = reg /\ RmLen(g) = l
                /\ \A j \in 1..z : g[l + (j - 1)] = imm[j]
                /\ Short(o) => Rm(v, d, g) = o
                /\ \A q : q = RmLayout(row.layout, Width(row, d), d, g) /\ q.n = l + z
                   => Body(m, pos, d, n) = Made(op, Width(row, d), q.dst, q.src, q.src2, d, n + u + (l + z))
  <2>1. PICK at \in Nat : at = pos + u BY <1>7
  <2>2. PICK t : t = at + l OBVIOUS
  <2>3. ReadsPieces(m, pos, code, u, s, l, imm) BY <1>8, <1>9, <1>12, PiecesRead
  <2>4. Reads(m, pos, code) /\ Reads(m, at, RmBytes(f, reg)) /\ Reads(m, t, imm)
    BY <1>4, <2>1, <2>2, <2>3 DEF ReadsPieces
  <2>5. PICK g : g = FollowingAt(m, at) OBVIOUS
  <2>6. /\ g \in Following
        /\ Md(g) = Md(f) /\ RegField(g) = reg /\ RmField(g) = RmField(f) /\ RmLen(g) = RmLen(f)
        /\ RmLen(f) \in {2, 3} => g[1] = f[1]
        /\ RmLen(f) = 3 => g[2] = f[2]
    BY <2>4, <2>5, RmRead
  <2>7. \A j \in 1..z : g[l + (j - 1)] = imm[j] BY <2>2, <2>4, <2>5, BehindRead
  <2>8. ASSUME Short(o) PROVE Rm(v, d, g) = o
    BY <1>1, <1>11, <2>6, <2>8, SameRm
  <2>9. ASSUME NEW q, q = RmLayout(row.layout, Width(row, d), d, g), q.n = l + z
        PROVE  Body(m, pos, d, n) = Made(op, Width(row, d), q.dst, q.src, q.src2, d, n + u + (l + z))
    <3>1. PICK b : b = code[1] OBVIOUS
    <3>2. q = OperandsAt(row, d, g, b, at) BY <2>9 DEF OperandsAt
    <3>3. Few(q) BY <2>9, UpToSeven DEF Few
    <3>4. Names(row, RegField(g), op) BY <2>6
    <3>5. Body(m, pos, d, n) = Made(op, Width(row, d), q.dst, q.src, q.src2, d, n + u + q.n)
      BY <1>11, <2>1, <2>4, <2>5, <3>1, <3>2, <3>3, <3>4, CodeRead
    <3>6. QED BY <2>9, <3>5
  <2>10. QED BY <1>3, <2>6, <2>7, <2>8, <2>9
<1>13. RmReads(d, body, u, row, reg, op, v, o, l, imm, z) BY <1>12 DEF RmReads
<1>14. QED BY <1>1, <1>3, <1>5, <1>6, <1>7, <1>8, <1>10, <1>13

\* The same of an opcode without such an operand, with a number behind it.
NamesAll(row, op) == \A reg \in 0..7 : Names(row, reg, op)
PlainReads(d, body, row, b, op, imm, z) ==
  \A m \in Memories : \A pos \in Nat : \A n \in 0..3 : Reads(m, pos, body) =>
    \E g \in Following :
      /\ \A j \in 1..z : g[j - 1] = imm[j]
      /\ \A q : q = PlainLayout(row.layout, Width(row, d), d, g, b, pos + 1) /\ q.n = z
                => Body(m, pos, d, n) = Made(op, Width(row, d), q.dst, q.src, q.src2, d, n + 1 + z)

LEMMA PlainShape ==
  ASSUME NEW i, Prefixed(i), NEW w, NEW d, d = Written(i, w),
         NEW b \in OneByteOpcodes, b \notin PrefixBytes, b # 255, NEW row, row = Table(b),
         row.layout \in PlainLayouts, NEW imm, NEW z \in 0..4, IsBytes(imm, z), NEW op, NamesAll(row, op)
  PROVE  \E body : /\ body = Join(<<b>>, imm) /\ IsBytes(body, 1 + z) /\ Begins(body)
                   /\ PlainReads(d, body, row, b, op, imm, z)
<1>1. b \in Byte /\ b \in OneByteOpcodes \ PrefixBytes BY DEF OneByteOpcodes
<1>2. PICK code : code = <<b>> OBVIOUS
<1>3. code \in Seq(Byte) /\ Len(code) = 1 /\ code[1] = b BY <1>1, <1>2
<1>4. row.layout \notin SregLayouts BY DEF PlainLayouts, SregLayouts
<1>5. Selects(code, 1, row, d)
  <2>1. \E x \in OneByteOpcodes \ PrefixBytes : code = <<x>> /\ row = Table(x) /\ (x = 255 => d.size = 16)
    BY <1>1, <1>2
  <2>2. QED BY <1>4, <2>1 DEF Selects
<1>6. imm \in Seq(Byte) /\ Len(imm) = z BY DEF IsBytes
<1>7. PICK body : body = Join(code, imm) OBVIOUS
<1>8. IsBytes(body, 1 + z) /\ body[1] = b
  <2>1. IsBytes(code, 1) BY <1>3 DEF IsBytes
  <2>2. z \in Nat /\ 1 \in Nat OBVIOUS
  <2>3. IsBytes(Join(code, imm), 1 + z) /\ Join(code, imm)[1] = code[1] BY <2>1, <2>2, JoinIs
  <2>4. QED BY <1>3, <1>7, <2>3
<1>9. d \in PlainContexts BY WrittenIsPlain
<1>10. ASSUME NEW m \in Memories, NEW pos \in Nat, NEW n \in 0..3, Reads(m, pos, body)
       PROVE  \E g \in Following :
                /\ \A j \in 1..z : g[j - 1] = imm[j]
                /\ \A q : q = PlainLayout(row.layout, Width(row, d), d, g, b, pos + 1) /\ q.n = z
                   => Body(m, pos, d, n) = Made(op, Width(row, d), q.dst, q.src, q.src2, d, n + 1 + z)
  <2>1. PICK at \in Nat : at = pos + 1 OBVIOUS
  <2>2. Reads(m, pos, code \o imm) BY <1>7, <1>10 DEF Join
  <2>3. Reads(m, pos, code) /\ Reads(m, at, imm) BY ZenonT(60), <1>3, <1>6, <2>1, <2>2, ReadsApart
  <2>4. PICK g : g = FollowingAt(m, at) OBVIOUS
  <2>5. g \in Following BY <2>4, FollowingIsBytes
  <2>6. ASSUME NEW j \in 1..z PROVE g[j - 1] = imm[j]
    <3>1. j - 1 \in 0..7 OBVIOUS
    <3>2. At(m, at, j - 1) = imm[j] BY <1>6, <2>3 DEF Reads
    <3>3. QED BY <2>4, <3>1, <3>2 DEF FollowingAt
  <2>7. RegField(g) \in 0..7 BY <2>5, FieldRanges
  <2>8. Names(row, RegField(g), op) BY <2>7 DEF NamesAll
  <2>9. ASSUME NEW q, q = PlainLayout(row.layout, Width(row, d), d, g, b, pos + 1), q.n = z
        PROVE  Body(m, pos, d, n) = Made(op, Width(row, d), q.dst, q.src, q.src2, d, n + 1 + z)
    <3>1. q = OperandsAt(row, d, g, b, at) BY <2>1, <2>9 DEF OperandsAt
    <3>2. Few(q) BY <2>9 DEF Few
    <3>3. b = code[1] BY <1>3
    <3>4. Body(m, pos, d, n) = Made(op, Width(row, d), q.dst, q.src, q.src2, d, n + 1 + q.n)
      BY <1>5, <1>9, <2>1, <2>3, <2>4, <2>8, <3>1, <3>2, <3>3, CodeRead
    <3>5. QED BY <2>9, <3>4
  <2>10. QED BY <2>5, <2>6, <2>9
<1>11. PlainReads(d, body, row, b, op, imm, z) BY <1>10 DEF PlainReads
<1>12. QED BY <1>1, <1>2, <1>7, <1>8, <1>11 DEF Begins

-----------------------------------------------------------------------------
(* Instructions, by the layout of their operands. *)

\* The instruction behind prefixes that say d is the one with these operands,
\* but for memory operands that need a prefix of their own.
Rereads(d, body, op, w, dst, src, src2) ==
  \E z \in 1..6 :
    /\ IsBytes(body, z) /\ Begins(body)
    /\ \A m \in Memories : \A pos \in Nat : \A n \in 0..3 : Reads(m, pos, body) =>
         \E x, y : /\ Body(m, pos, d, n) = Made(op, w, x, y, src2, d, n + z)
                   /\ Short(dst) => x = dst
                   /\ Short(src) => y = src

\* What a layout makes of the operand o and the number imm.
Lays(layout, w, d, reg, v, o, imm, z, dst, src, src2) ==
  \A g \in Following : \A l \in 1..3 :
    /\ RegField(g) = reg /\ RmLen(g) = l
    /\ \A j \in 1..z : g[l + (j - 1)] = imm[j]
    => \E x, y : /\ RmLayout(layout, w, d, g) = Operands(x, y, src2, l + z)
                 /\ (Short(o) => Rm(v, d, g) = o) => (Short(dst) => x = dst) /\ (Short(src) => y = src)

\* An operand, with a number behind it.
LEMMA RmWritten ==
  ASSUME NEW i, NEW c, NEW d, Setting(i, c, d), NEW code, NEW u, NEW row, NEW reg, NEW op,
         Coded(code, u, row, d, reg, op), NEW v, NEW o, NEW r, Encoded(v, c, o, reg, r),
         NEW imm, NEW z, Fits(imm, z, u, o), NEW dst, NEW src, NEW src2,
         Lays(row.layout, Width(row, d), d, reg, v, o, imm, z, dst, src, src2)
  PROVE  \E body : /\ body = Join(code, Join(r.bytes, imm)) /\ body = Join(Join(code, r.bytes), imm)
                   /\ r = Emit(r.bytes) /\ r.bytes \in Seq(Byte)
                   /\ Rereads(d, body, op, Width(row, d), dst, src, src2)
<1>5. z \in 0..4 /\ (z \in {0, 1} \/ (u = 1 /\ o.kind = "reg")) BY DEF Fits
<1>6. \E l \in 1..3 : \E body :
           /\ body = Join(code, Join(r.bytes, imm)) /\ body = Join(Join(code, r.bytes), imm)
           /\ r = Emit(r.bytes) /\ IsBytes(r.bytes, l) /\ (o.kind = "reg" => l = 1)
           /\ IsBytes(body, u + (l + z)) /\ Begins(body) /\ u \in {1, 2}
           /\ RmReads(d, body, u, row, reg, op, v, o, l, imm, z)
  BY RmShape
<1>7. PICK l \in 1..3 : \E body :
           /\ body = Join(code, Join(r.bytes, imm)) /\ body = Join(Join(code, r.bytes), imm)
           /\ r = Emit(r.bytes) /\ IsBytes(r.bytes, l) /\ (o.kind = "reg" => l = 1)
           /\ IsBytes(body, u + (l + z)) /\ Begins(body) /\ u \in {1, 2}
           /\ RmReads(d, body, u, row, reg, op, v, o, l, imm, z)
  BY <1>6
<1>8. PICK body :
           /\ body = Join(code, Join(r.bytes, imm)) /\ body = Join(Join(code, r.bytes), imm)
           /\ r = Emit(r.bytes) /\ IsBytes(r.bytes, l) /\ (o.kind = "reg" => l = 1)
           /\ IsBytes(body, u + (l + z)) /\ Begins(body) /\ u \in {1, 2}
           /\ RmReads(d, body, u, row, reg, op, v, o, l, imm, z)
  BY <1>7
<1>9. PICK k \in 1..6 : k = u + (l + z)
  <2>1. u + (l + z) \in 1..6 BY <1>5, <1>8
  <2>2. QED BY <2>1
<1>10. ASSUME NEW m \in Memories, NEW pos \in Nat, NEW n \in 0..3, Reads(m, pos, body)
       PROVE  \E x, y : /\ Body(m, pos, d, n) = Made(op, Width(row, d), x, y, src2, d, n + k)
                        /\ Short(dst) => x = dst
                        /\ Short(src) => y = src
  <2>1. PICK g \in Following :
          /\ RegField(g) = reg /\ RmLen(g) = l
          /\ \A j \in 1..z : g[l + (j - 1)] = imm[j]
          /\ Short(o) => Rm(v, d, g) = o
          /\ \A q : q = RmLayout(row.layout, Width(row, d), d, g) /\ q.n = l + z
                    => Body(m, pos, d, n) = Made(op, Width(row, d), q.dst, q.src, q.src2, d, n + u + (l + z))
    BY <1>8, <1>10 DEF RmReads
  <2>2. \E x, y : /\ RmLayout(row.layout, Width(row, d), d, g) = Operands(x, y, src2, l + z)
                  /\ (Short(o) => Rm(v, d, g) = o) => (Short(dst) => x = dst) /\ (Short(src) => y = src)
    BY <2>1 DEF Lays
  <2>3. PICK x, y : /\ RmLayout(row.layout, Width(row, d), d, g) = Operands(x, y, src2, l + z)
                    /\ (Short(o) => Rm(v, d, g) = o) => (Short(dst) => x = dst) /\ (Short(src) => y = src)
    BY <2>2
  <2>4. PICK q : q = RmLayout(row.layout, Width(row, d), d, g) OBVIOUS
  <2>5. q.n = l + z /\ q.dst = x /\ q.src = y /\ q.src2 = src2 BY <2>3, <2>4 DEF Operands
  <2>6. Body(m, pos, d, n) = Made(op, Width(row, d), x, y, src2, d, n + u + (l + z)) BY <2>1, <2>4, <2>5
  <2>7. n + u + (l + z) = n + k BY <1>5, <1>8, <1>9
  <2>8. QED BY <2>1, <2>3, <2>6, <2>7
<1>11. Rereads(d, body, op, Width(row, d), dst, src, src2) BY <1>8, <1>9, <1>10 DEF Rereads
<1>12. r.bytes \in Seq(Byte) BY <1>8 DEF IsBytes
<1>13. QED BY <1>8, <1>11, <1>12

\* Without such an operand.
PlainLays(layout, w, d, b, imm, z, dst, src) ==
  \A g \in Following : \A at :
    (\A j \in 1..z : g[j - 1] = imm[j])
    => PlainLayout(layout, w, d, g, b, at) = Operands(dst, src, None, z)
PlainCoded(b, row, op) ==
  /\ b \in OneByteOpcodes /\ b \notin PrefixBytes /\ b # 255 /\ row = Table(b)
  /\ row.layout \in PlainLayouts /\ NamesAll(row, op)

LEMMA PlainWritten ==
  ASSUME NEW i, NEW c, NEW d, Setting(i, c, d), NEW b, NEW row, NEW op, PlainCoded(b, row, op),
         NEW imm, NEW z \in 0..4, IsBytes(imm, z), NEW dst, NEW src,
         PlainLays(row.layout, Width(row, d), d, b, imm, z, dst, src)
  PROVE  \E body : body = Join(<<b>>, imm) /\ Rereads(d, body, op, Width(row, d), dst, src, None)
<1>1. PICK w : d = Written(i, w) BY DEF Setting
<1>2. Prefixed(i) BY DEF Setting
<1>3. /\ b \in OneByteOpcodes /\ b \notin PrefixBytes /\ b # 255 /\ row = Table(b)
      /\ row.layout \in PlainLayouts /\ NamesAll(row, op)
  BY DEF PlainCoded
<1>4. PICK body : /\ body = Join(<<b>>, imm) /\ IsBytes(body, 1 + z) /\ Begins(body)
                  /\ PlainReads(d, body, row, b, op, imm, z)
  BY <1>1, <1>2, <1>3, PlainShape
<1>5. PICK k \in 1..6 : k = 1 + z
  <2>1. 1 + z \in 1..6 OBVIOUS
  <2>2. QED BY <2>1
<1>6. ASSUME NEW m \in Memories, NEW pos \in Nat, NEW n \in 0..3, Reads(m, pos, body)
      PROVE  Body(m, pos, d, n) = Made(op, Width(row, d), dst, src, None, d, n + k)
  <2>1. PICK g \in Following :
          /\ \A j \in 1..z : g[j - 1] = imm[j]
          /\ \A q : q = PlainLayout(row.layout, Width(row, d), d, g, b, pos + 1) /\ q.n = z
                    => Body(m, pos, d, n) = Made(op, Width(row, d), q.dst, q.src, q.src2, d, n + 1 + z)
    BY <1>4, <1>6 DEF PlainReads
  <2>2. PICK q : q = PlainLayout(row.layout, Width(row, d), d, g, b, pos + 1) OBVIOUS
  <2>3. q = Operands(dst, src, None, z) BY <2>1, <2>2 DEF PlainLays
  <2>4. q.n = z /\ q.dst = dst /\ q.src = src /\ q.src2 = None BY <2>3 DEF Operands
  <2>5. Body(m, pos, d, n) = Made(op, Width(row, d), dst, src, None, d, n + 1 + z) BY <2>1, <2>2, <2>4
  <2>6. n + 1 + z = n + k BY <1>5
  <2>7. QED BY <2>5, <2>6
<1>7. Rereads(d, body, op, Width(row, d), dst, src, None) BY <1>4, <1>5, <1>6 DEF Rereads
<1>8. QED BY <1>4, <1>7

\* A number of no bytes, and of one.
LEMMA NoNumber == \A u, o : Fits(<<>>, 0, u, o)
<1>1. <<>> \in Seq(Byte) /\ Len(<<>>) = 0 OBVIOUS
<1>2. QED BY <1>1 DEF Fits, IsBytes

LEMMA ByteNumber == \A x \in Byte : IsBytes(<<x>>, 1) /\ <<x>>[1] = x /\ \A u, o : Fits(<<x>>, 1, u, o)
<1> TAKE x \in Byte
<1>1. <<x>> \in Seq(Byte) /\ Len(<<x>>) = 1 /\ <<x>>[1] = x OBVIOUS
<1>2. QED BY <1>1 DEF Fits, IsBytes

-----------------------------------------------------------------------------
(* The layouts that encode writes, by names of their own. *)

AsRm == "rm"
AsMath == "math"
AsRmR == "rm,r"
AsRRm == "r,rm"
AsRRm8 == "r,rm8"
AsR32Rm16 == "r32,rm16"
AsRmOne == "rm,one"
AsRmImm8 == "rm,imm8"
AsRmRImm8 == "rm,r,imm8"
AsRRmImmS8 == "r,rm,imms8"
AsRmImm == "rm,imm"
AsAccImm == "acc,imm"
AsRegImm == "reg,imm"
AsImm == "imm"
AsReg == "reg"
AsAccReg == "acc,reg"
AsOne == "oneb"
AsThree == "three"
AsNone == "none"
AsImm8 == "imm8"
AsAccOffset == "acc,moffs"
AsOffsetAcc == "moffs,acc"

\* A register-or-memory operand alone.
LEMMA LaysRm ==
  ASSUME NEW w, NEW d, NEW reg \in 0..7, NEW o
  PROVE  Lays(AsRm, w, d, reg, w, o, <<>>, 0, o, None, None)
<1> SUFFICES ASSUME NEW g \in Following, NEW l \in 1..3, RegField(g) = reg, RmLen(g) = l
             PROVE  RmLayout(AsRm, w, d, g)
                      = Operands(Rm(w, d, g), None, None, l + 0)
  BY DEF Lays
<1>1. l + 0 = l OBVIOUS
<1>2. RmLayout(AsRm, w, d, g) = One(Rm(w, d, g), l)
  BY DEF RmLayout, AsRm
<1>3. QED BY <1>1, <1>2 DEF One, Two

\* Likewise.
LEMMA LaysMath ==
  ASSUME NEW w, NEW d, NEW reg \in 0..7, NEW o, reg > 1
  PROVE  Lays(AsMath, w, d, reg, w, o, <<>>, 0, o, None, None)
<1> SUFFICES ASSUME NEW g \in Following, NEW l \in 1..3, RegField(g) = reg, RmLen(g) = l
             PROVE  RmLayout(AsMath, w, d, g)
                      = Operands(Rm(w, d, g), None, None, l + 0)
  BY DEF Lays
<1>1. l + 0 = l OBVIOUS
<1>2. RmLayout(AsMath, w, d, g) = One(Rm(w, d, g), l)
  BY DEF RmLayout, AsMath
<1>3. QED BY <1>1, <1>2 DEF One, Two

\* With a register behind it.
LEMMA LaysRmR ==
  ASSUME NEW w, NEW d, NEW reg \in 0..7, NEW o
  PROVE  Lays(AsRmR, w, d, reg, w, o, <<>>, 0, o, Reg(w, GeneralNames(w)[reg + 1]), None)
<1> SUFFICES ASSUME NEW g \in Following, NEW l \in 1..3, RegField(g) = reg, RmLen(g) = l
             PROVE  RmLayout(AsRmR, w, d, g)
                      = Operands(Rm(w, d, g), Reg(w, GeneralNames(w)[reg + 1]), None, l + 0)
  BY DEF Lays
<1>1. l + 0 = l OBVIOUS
<1>2. RmLayout(AsRmR, w, d, g) = Two(Rm(w, d, g), Reg(w, GeneralNames(w)[reg + 1]), l)
  BY DEF RmLayout, AsRmR
<1>3. QED BY <1>1, <1>2 DEF One, Two

\* Or before it.
LEMMA LaysRRm ==
  ASSUME NEW w, NEW d, NEW reg \in 0..7, NEW o
  PROVE  Lays(AsRRm, w, d, reg, w, o, <<>>, 0, Reg(w, GeneralNames(w)[reg + 1]), o, None)
<1> SUFFICES ASSUME NEW g \in Following, NEW l \in 1..3, RegField(g) = reg, RmLen(g) = l
             PROVE  RmLayout(AsRRm, w, d, g)
                      = Operands(Reg(w, GeneralNames(w)[reg + 1]), Rm(w, d, g), None, l + 0)
  BY DEF Lays
<1>1. l + 0 = l OBVIOUS
<1>2. RmLayout(AsRRm, w, d, g) = Two(Reg(w, GeneralNames(w)[reg + 1]), Rm(w, d, g), l)
  BY DEF RmLayout, AsRRm
<1>3. QED BY <1>1, <1>2 DEF One, Two

\* A register and a narrower operand.
LEMMA LaysRRm8 ==
  ASSUME NEW w, NEW d, NEW reg \in 0..7, NEW o
  PROVE  Lays(AsRRm8, w, d, reg, 8, o, <<>>, 0, Reg(w, GeneralNames(w)[reg + 1]), o, None)
<1> SUFFICES ASSUME NEW g \in Following, NEW l \in 1..3, RegField(g) = reg, RmLen(g) = l
             PROVE  RmLayout(AsRRm8, w, d, g)
                      = Operands(Reg(w, GeneralNames(w)[reg + 1]), Rm(8, d, g), None, l + 0)
  BY DEF Lays
<1>1. l + 0 = l OBVIOUS
<1>2. RmLayout(AsRRm8, w, d, g) = Two(Reg(w, GeneralNames(w)[reg + 1]), Rm(8, d, g), l)
  BY DEF RmLayout, AsRRm8
<1>3. QED BY <1>1, <1>2 DEF One, Two

\* Likewise.
LEMMA LaysR32Rm16 ==
  ASSUME NEW w, NEW d, NEW reg \in 0..7, NEW o, w = 32
  PROVE  Lays(AsR32Rm16, w, d, reg, 16, o, <<>>, 0, Reg(w, GeneralNames(w)[reg + 1]), o, None)
<1> SUFFICES ASSUME NEW g \in Following, NEW l \in 1..3, RegField(g) = reg, RmLen(g) = l
             PROVE  RmLayout(AsR32Rm16, w, d, g)
                      = Operands(Reg(w, GeneralNames(w)[reg + 1]), Rm(16, d, g), None, l + 0)
  BY DEF Lays
<1>1. l + 0 = l OBVIOUS
<1>2. RmLayout(AsR32Rm16, w, d, g) = Two(Reg(32, GeneralNames(32)[reg + 1]), Rm(16, d, g), l)
  BY DEF RmLayout, AsR32Rm16
<1>3. QED BY <1>1, <1>2 DEF One, Two

\* With the number one.
LEMMA LaysRmOne ==
  ASSUME NEW w, NEW d, NEW reg \in 0..7, NEW o
  PROVE  Lays(AsRmOne, w, d, reg, w, o, <<>>, 0, o, Imm(w, 1), None)
<1> SUFFICES ASSUME NEW g \in Following, NEW l \in 1..3, RegField(g) = reg, RmLen(g) = l
             PROVE  RmLayout(AsRmOne, w, d, g)
                      = Operands(Rm(w, d, g), Imm(w, 1), None, l + 0)
  BY DEF Lays
<1>1. l + 0 = l OBVIOUS
<1>2. RmLayout(AsRmOne, w, d, g) = Two(Rm(w, d, g), Imm(w, 1), l)
  BY DEF RmLayout, AsRmOne
<1>3. QED BY <1>1, <1>2 DEF One, Two

\* With a byte.
LEMMA LaysRmImm8 ==
  ASSUME NEW w, NEW d, NEW reg \in 0..7, NEW o, NEW x \in Byte
  PROVE  Lays(AsRmImm8, w, d, reg, w, o, <<x>>, 1, o, Imm(8, x), None)
<1> SUFFICES ASSUME NEW g \in Following, NEW l \in 1..3, RegField(g) = reg, RmLen(g) = l,
                    \A j \in 1..1 : g[l + (j - 1)] = <<x>>[j]
             PROVE  RmLayout(AsRmImm8, w, d, g)
                      = Operands(Rm(w, d, g), Imm(8, x), None, l + 1)
  BY DEF Lays
<1>1. g[l] = x
  <2>1. l + (1 - 1) = l OBVIOUS
  <2>2. g[l + (1 - 1)] = <<x>>[1] OBVIOUS
  <2>3. <<x>>[1] = x OBVIOUS
  <2>4. QED BY <2>1, <2>2, <2>3
<1>2. RmLayout(AsRmImm8, w, d, g) = Two(Rm(w, d, g), Imm(8, g[l]), l + 1)
  BY DEF RmLayout, AsRmImm8
<1>3. QED BY <1>1, <1>2 DEF One, Two

\* With a register and a byte.
LEMMA LaysRmRImm8 ==
  ASSUME NEW w, NEW d, NEW reg \in 0..7, NEW o, NEW x \in Byte
  PROVE  Lays(AsRmRImm8, w, d, reg, w, o, <<x>>, 1, o, Reg(w, GeneralNames(w)[reg + 1]), Imm(8, x))
<1> SUFFICES ASSUME NEW g \in Following, NEW l \in 1..3, RegField(g) = reg, RmLen(g) = l,
                    \A j \in 1..1 : g[l + (j - 1)] = <<x>>[j]
             PROVE  RmLayout(AsRmRImm8, w, d, g)
                      = Operands(Rm(w, d, g), Reg(w, GeneralNames(w)[reg + 1]), Imm(8, x), l + 1)
  BY DEF Lays
<1>1. g[l] = x
  <2>1. l + (1 - 1) = l OBVIOUS
  <2>2. g[l + (1 - 1)] = <<x>>[1] OBVIOUS
  <2>3. <<x>>[1] = x OBVIOUS
  <2>4. QED BY <2>1, <2>2, <2>3
<1>2. RmLayout(AsRmRImm8, w, d, g) = Operands(Rm(w, d, g), Reg(w, GeneralNames(w)[reg + 1]), Imm(8, g[l]), l + 1)
  BY DEF RmLayout, AsRmRImm8
<1>3. QED BY <1>1, <1>2 DEF One, Two

\* Likewise.
LEMMA LaysRRmImmS8 ==
  ASSUME NEW w, NEW d, NEW reg \in 0..7, NEW o, NEW x \in Byte
  PROVE  Lays(AsRRmImmS8, w, d, reg, w, o, <<x>>, 1, Reg(w, GeneralNames(w)[reg + 1]), o, ImmS8(Signed8(x)))
<1> SUFFICES ASSUME NEW g \in Following, NEW l \in 1..3, RegField(g) = reg, RmLen(g) = l,
                    \A j \in 1..1 : g[l + (j - 1)] = <<x>>[j]
             PROVE  RmLayout(AsRRmImmS8, w, d, g)
                      = Operands(Reg(w, GeneralNames(w)[reg + 1]), Rm(w, d, g), ImmS8(Signed8(x)), l + 1)
  BY DEF Lays
<1>1. g[l] = x
  <2>1. l + (1 - 1) = l OBVIOUS
  <2>2. g[l + (1 - 1)] = <<x>>[1] OBVIOUS
  <2>3. <<x>>[1] = x OBVIOUS
  <2>4. QED BY <2>1, <2>2, <2>3
<1>2. RmLayout(AsRRmImmS8, w, d, g) = Operands(Reg(w, GeneralNames(w)[reg + 1]), Rm(w, d, g), ImmS8(Signed8(g[l])), l + 1)
  BY DEF RmLayout, AsRRmImmS8
<1>3. QED BY <1>1, <1>2 DEF One, Two

\* With a number of the same width.
LEMMA LaysRmImm ==
  ASSUME NEW w, NEW d, NEW reg \in 0..7, NEW o, w \in Widths,
         NEW v, OfWidth(w, v), NEW imm, imm = BytesOf(w, v), NEW z, z = ImmLen(w)
  PROVE  Lays(AsRmImm, w, d, reg, w, o, imm, z, o, Imm(w, v), None)
<1> SUFFICES ASSUME NEW g \in Following, NEW l \in 1..3, RegField(g) = reg, RmLen(g) = l,
                    \A j \in 1..z : g[l + (j - 1)] = imm[j]
             PROVE  RmLayout(AsRmImm, w, d, g)
                      = Operands(Rm(w, d, g), Imm(w, v), None, l + z)
  BY DEF Lays
<1>1. l \in 0..3 OBVIOUS
<1>2. ImmOf(w, g, l) = Imm(w, v) BY <1>1, ImmRead
<1>3. RmLayout(AsRmImm, w, d, g) = Two(Rm(w, d, g), ImmOf(w, g, l), l + ImmLen(w))
  BY DEF RmLayout, AsRmImm
<1>4. QED BY <1>2, <1>3 DEF Two

\* Likewise.
LEMMA LaysMathImm ==
  ASSUME NEW w, NEW d, NEW reg \in 0..7, NEW o, w \in Widths,
         NEW v, OfWidth(w, v), NEW imm, imm = BytesOf(w, v), NEW z, z = ImmLen(w), reg < 2
  PROVE  Lays(AsMath, w, d, reg, w, o, imm, z, o, Imm(w, v), None)
<1> SUFFICES ASSUME NEW g \in Following, NEW l \in 1..3, RegField(g) = reg, RmLen(g) = l,
                    \A j \in 1..z : g[l + (j - 1)] = imm[j]
             PROVE  RmLayout(AsMath, w, d, g)
                      = Operands(Rm(w, d, g), Imm(w, v), None, l + z)
  BY DEF Lays
<1>1. l \in 0..3 OBVIOUS
<1>2. ImmOf(w, g, l) = Imm(w, v) BY <1>1, ImmRead
<1>3. RmLayout(AsMath, w, d, g) = Two(Rm(w, d, g), ImmOf(w, g, l), l + ImmLen(w))
  BY DEF RmLayout, AsMath
<1>4. QED BY <1>2, <1>3 DEF Two

-----------------------------------------------------------------------------
(* The layouts without such an operand. *)

\* A number right behind the opcode.
LEMMA ImmReadFirst ==
  ASSUME NEW w \in Widths, NEW v, OfWidth(w, v), NEW g \in Following, NEW z, z = ImmLen(w),
         NEW imm, imm = BytesOf(w, v), \A j \in 1..z : g[j - 1] = imm[j]
  PROVE  ImmOf(w, g, 0) = Imm(w, v)
<1>1. 0 \in 0..3 OBVIOUS
<1>2. z \in Nat BY DEF Widths, ImmLen
<1>3. \A j \in 1..z : g[0 + (j - 1)] = imm[j]
  <2> TAKE j \in 1..z
  <2>1. 0 + (j - 1) = j - 1 BY <1>2
  <2>2. QED BY <2>1
<1>4. QED BY <1>1, <1>3, ImmRead

\* The accumulator and a number.
LEMMA LaysAccImm ==
  ASSUME NEW w \in Widths, NEW d, NEW b, NEW v, OfWidth(w, v), NEW imm, imm = BytesOf(w, v),
         NEW z, z = ImmLen(w)
  PROVE  PlainLays(AsAccImm, w, d, b, imm, z, Reg(w, GeneralNames(w)[1]), Imm(w, v))
<1> SUFFICES ASSUME NEW g \in Following, NEW at, \A j \in 1..z : g[j - 1] = imm[j]
             PROVE  PlainLayout(AsAccImm, w, d, g, b, at) = Operands(Reg(w, GeneralNames(w)[1]), Imm(w, v), None, z)
  BY DEF PlainLays
<1>1. PlainLayout(AsAccImm, w, d, g, b, at) = Two(Reg(w, GeneralNames(w)[1]), ImmOf(w, g, 0), ImmLen(w))
  BY DEF PlainLayout, AsAccImm
<1>2. ImmOf(w, g, 0) = Imm(w, v) BY ImmReadFirst
<1>3. QED BY <1>1, <1>2 DEF One, Two

\* The register in the opcode and a number.
LEMMA LaysRegImm ==
  ASSUME NEW w \in Widths, NEW d, NEW b, NEW v, OfWidth(w, v), NEW imm, imm = BytesOf(w, v),
         NEW z, z = ImmLen(w)
  PROVE  PlainLays(AsRegImm, w, d, b, imm, z, Reg(w, GeneralNames(w)[(b % 8) + 1]), Imm(w, v))
<1> SUFFICES ASSUME NEW g \in Following, NEW at, \A j \in 1..z : g[j - 1] = imm[j]
             PROVE  PlainLayout(AsRegImm, w, d, g, b, at) = Operands(Reg(w, GeneralNames(w)[(b % 8) + 1]), Imm(w, v), None, z)
  BY DEF PlainLays
<1>1. PlainLayout(AsRegImm, w, d, g, b, at) = Two(Reg(w, GeneralNames(w)[(b % 8) + 1]), ImmOf(w, g, 0), ImmLen(w))
  BY DEF PlainLayout, AsRegImm
<1>2. ImmOf(w, g, 0) = Imm(w, v) BY ImmReadFirst
<1>3. QED BY <1>1, <1>2 DEF One, Two

\* A number.
LEMMA LaysImm ==
  ASSUME NEW w \in Widths, NEW d, NEW b, NEW v, OfWidth(w, v), NEW imm, imm = BytesOf(w, v),
         NEW z, z = ImmLen(w)
  PROVE  PlainLays(AsImm, w, d, b, imm, z, Imm(w, v), None)
<1> SUFFICES ASSUME NEW g \in Following, NEW at, \A j \in 1..z : g[j - 1] = imm[j]
             PROVE  PlainLayout(AsImm, w, d, g, b, at) = Operands(Imm(w, v), None, None, z)
  BY DEF PlainLays
<1>1. PlainLayout(AsImm, w, d, g, b, at) = One(ImmOf(w, g, 0), ImmLen(w))
  BY DEF PlainLayout, AsImm
<1>2. ImmOf(w, g, 0) = Imm(w, v) BY ImmReadFirst
<1>3. QED BY <1>1, <1>2 DEF One, Two

\* The register in the opcode.
LEMMA LaysReg ==
  ASSUME NEW w, NEW d, NEW b
  PROVE  PlainLays(AsReg, w, d, b, <<>>, 0, Reg(w, GeneralNames(w)[(b % 8) + 1]), None)
<1> SUFFICES ASSUME NEW g \in Following, NEW at
             PROVE  PlainLayout(AsReg, w, d, g, b, at) = Operands(Reg(w, GeneralNames(w)[(b % 8) + 1]), None, None, 0)
  BY DEF PlainLays
<1>1. PlainLayout(AsReg, w, d, g, b, at) = One(Reg(w, GeneralNames(w)[(b % 8) + 1]), 0)
  BY DEF PlainLayout, AsReg
<1>2. QED BY <1>1 DEF One, Two

\* The accumulator and that register.
LEMMA LaysAccReg ==
  ASSUME NEW w, NEW d, NEW b
  PROVE  PlainLays(AsAccReg, w, d, b, <<>>, 0, Reg(w, GeneralNames(w)[1]), Reg(w, GeneralNames(w)[(b % 8) + 1]))
<1> SUFFICES ASSUME NEW g \in Following, NEW at
             PROVE  PlainLayout(AsAccReg, w, d, g, b, at) = Operands(Reg(w, GeneralNames(w)[1]), Reg(w, GeneralNames(w)[(b % 8) + 1]), None, 0)
  BY DEF PlainLays
<1>1. PlainLayout(AsAccReg, w, d, g, b, at) = Two(Reg(w, GeneralNames(w)[1]), Reg(w, GeneralNames(w)[(b % 8) + 1]), 0)
  BY DEF PlainLayout, AsAccReg
<1>2. QED BY <1>1 DEF One, Two

\* The number of a trap, and of a breakpoint.
LEMMA LaysOne ==
  ASSUME NEW w, NEW d, NEW b
  PROVE  PlainLays(AsOne, w, d, b, <<>>, 0, Imm(8, 1), None)
<1> SUFFICES ASSUME NEW g \in Following, NEW at
             PROVE  PlainLayout(AsOne, w, d, g, b, at) = Operands(Imm(8, 1), None, None, 0)
  BY DEF PlainLays
<1>1. PlainLayout(AsOne, w, d, g, b, at) = One(Imm(8, 1), 0)
  BY DEF PlainLayout, AsOne
<1>2. QED BY <1>1 DEF One, Two

\* Likewise.
LEMMA LaysThree ==
  ASSUME NEW w, NEW d, NEW b
  PROVE  PlainLays(AsThree, w, d, b, <<>>, 0, Imm(8, 3), None)
<1> SUFFICES ASSUME NEW g \in Following, NEW at
             PROVE  PlainLayout(AsThree, w, d, g, b, at) = Operands(Imm(8, 3), None, None, 0)
  BY DEF PlainLays
<1>1. PlainLayout(AsThree, w, d, g, b, at) = One(Imm(8, 3), 0)
  BY DEF PlainLayout, AsThree
<1>2. QED BY <1>1 DEF One, Two

\* Nothing.
LEMMA LaysNone ==
  ASSUME NEW w, NEW d, NEW b
  PROVE  PlainLays(AsNone, w, d, b, <<>>, 0, None, None)
<1> SUFFICES ASSUME NEW g \in Following, NEW at
             PROVE  PlainLayout(AsNone, w, d, g, b, at) = Operands(None, None, None, 0)
  BY DEF PlainLays
<1>1. PlainLayout(AsNone, w, d, g, b, at) = One(None, 0)
  BY DEF PlainLayout, AsNone
<1>2. QED BY <1>1 DEF One, Two

\* A byte.
LEMMA LaysImm8 ==
  ASSUME NEW w, NEW d, NEW b, NEW x \in Byte
  PROVE  PlainLays(AsImm8, w, d, b, <<x>>, 1, Imm(8, x), None)
<1> SUFFICES ASSUME NEW g \in Following, NEW at, \A j \in 1..1 : g[j - 1] = <<x>>[j]
             PROVE  PlainLayout(AsImm8, w, d, g, b, at) = Operands(Imm(8, x), None, None, 1)
  BY DEF PlainLays
<1>1. g[0] = x
  <2>1. g[1 - 1] = <<x>>[1] OBVIOUS
  <2>2. QED BY <2>1
<1>2. PlainLayout(AsImm8, w, d, g, b, at) = One(Imm(8, g[0]), 1)
  BY DEF PlainLayout, AsImm8
<1>3. QED BY <1>1, <1>2 DEF One

\* An address in the code.
LEMMA OffsetRead ==
  ASSUME NEW p, OfWidth(16, p), NEW imm, imm = Bytes16(p), NEW g \in Following,
         \A j \in 1..2 : g[j - 1] = imm[j]
  PROVE  U16(g, 0) = p
<1>1. PICK x, y : x \in Byte /\ y \in Byte /\ p = x + 256 * y BY DEF OfWidth
<1>2. imm = <<x, y>> BY <1>1, TwoBytes
<1>3. g[1 - 1] = imm[1] /\ g[2 - 1] = imm[2] OBVIOUS
<1>4. g[0] = x /\ g[1] = y BY <1>2, <1>3
<1>5. QED BY <1>1, <1>4 DEF U16

\* The accumulator and a word of address.
LEMMA LaysAccOffset ==
  ASSUME NEW w, NEW d, NEW b, NEW p, OfWidth(16, p), NEW imm, imm = Bytes16(p)
  PROVE  PlainLays(AsAccOffset, w, d, b, imm, 2, Reg(w, GeneralNames(w)[1]),
                   Ptr(w, d.seg, "direct", "none", p))
<1> SUFFICES ASSUME NEW g \in Following, NEW at, \A j \in 1..2 : g[j - 1] = imm[j]
             PROVE  PlainLayout(AsAccOffset, w, d, g, b, at)
                      = Operands(Reg(w, GeneralNames(w)[1]), Ptr(w, d.seg, "direct", "none", p), None, 2)
  BY DEF PlainLays
<1>1. U16(g, 0) = p BY OffsetRead
<1>2. PlainLayout(AsAccOffset, w, d, g, b, at)
        = Two(Reg(w, GeneralNames(w)[1]), Ptr(w, d.seg, "direct", "none", U16(g, 0)), 2)
  BY DEF PlainLayout, AsAccOffset
<1>3. QED BY <1>1, <1>2 DEF Two

\* Likewise.
LEMMA LaysOffsetAcc ==
  ASSUME NEW w, NEW d, NEW b, NEW p, OfWidth(16, p), NEW imm, imm = Bytes16(p)
  PROVE  PlainLays(AsOffsetAcc, w, d, b, imm, 2, Ptr(w, d.seg, "direct", "none", p),
                   Reg(w, GeneralNames(w)[1]))
<1> SUFFICES ASSUME NEW g \in Following, NEW at, \A j \in 1..2 : g[j - 1] = imm[j]
             PROVE  PlainLayout(AsOffsetAcc, w, d, g, b, at)
                      = Operands(Ptr(w, d.seg, "direct", "none", p), Reg(w, GeneralNames(w)[1]), None, 2)
  BY DEF PlainLays
<1>1. U16(g, 0) = p BY OffsetRead
<1>2. PlainLayout(AsOffsetAcc, w, d, g, b, at)
        = Two(Ptr(w, d.seg, "direct", "none", U16(g, 0)), Reg(w, GeneralNames(w)[1]), 2)
  BY DEF PlainLayout, AsOffsetAcc
<1>3. QED BY <1>1, <1>2 DEF Two

-----------------------------------------------------------------------------
(* Opcodes with what the tables say of them, under prefixes. *)

RmLayouts ==
  {AsRm, AsMath, AsRmR, AsRRm, AsRRm8, AsR32Rm16, AsRmOne, AsRmImm8, AsRmRImm8, AsRRmImmS8, AsRmImm}

\* The width that a letter stands for.
WidthOf(letter, d) == IF letter = "b" THEN 8 ELSE IF letter = "w" THEN 16 ELSE IF letter = "v" THEN d.size ELSE 0
Letters == {"b", "w", "v", "none"}

\* An opcode whose row names the operation op, with an operand or without.
Opcode(code, u, d, reg, op, w, layout) ==
  \E row : Coded(code, u, row, d, reg, op) /\ row.layout = layout /\ Width(row, d) = w
PlainOpcode(b, d, op, w, layout) ==
  \E row : PlainCoded(b, row, op) /\ row.layout = layout /\ Width(row, d) = w

LEMMA RowIs ==
  ASSUME NEW op, NEW letter \in Letters, NEW layout, NEW d, NEW row, row = Row(op, letter, layout)
  PROVE  row.layout = layout /\ Width(row, d) = WidthOf(letter, d) /\ \A reg \in 0..7 : row.ops[reg] = op
BY DEF Row, Width, WidthOf, Letters

LEMMA GroupIs ==
  ASSUME NEW names, NEW letter \in Letters, NEW layout, NEW d, NEW row, row = Group(names, letter, layout)
  PROVE  row.layout = layout /\ Width(row, d) = WidthOf(letter, d)
         /\ \A reg \in 0..7 : row.ops[reg] = names[reg + 1]
BY DEF Group, Width, WidthOf, Letters

LEMMA LayoutsApart ==
  /\ \A layout \in RmLayouts : layout \notin SregLayouts /\ layout \notin PlainLayouts
  /\ \A layout \in PlainLayouts : layout \notin SregLayouts
BY DEF RmLayouts, SregLayouts, PlainLayouts, AsRm, AsMath, AsRmR, AsRRm, AsRRm8, AsR32Rm16,
       AsRmOne, AsRmImm8, AsRmRImm8, AsRRmImmS8, AsRmImm

\* One byte.
LEMMA RowOpcode ==
  ASSUME NEW b, b \in OneByteOpcodes, b \notin PrefixBytes, NEW d, (b = 255 => d.size = 16),
         NEW op, op \notin Widthless, NEW letter \in Letters, NEW layout \in RmLayouts,
         Table(b) = Row(op, letter, layout), NEW reg \in 0..7
  PROVE  Opcode(<<b>>, 1, d, reg, op, WidthOf(letter, d), layout)
<1>1. PICK row : row = Table(b) OBVIOUS
<1>2. row.layout = layout /\ Width(row, d) = WidthOf(letter, d) /\ row.ops[reg] = op BY <1>1, RowIs
<1>3. row.layout \notin SregLayouts /\ row.layout \notin PlainLayouts BY <1>2, LayoutsApart
<1>4. Selects(<<b>>, 1, row, d) BY <1>1, <1>3 DEF Selects
<1>5. QED BY <1>2, <1>3, <1>4 DEF Opcode, Coded, Names

LEMMA GroupOpcode ==
  ASSUME NEW b, b \in OneByteOpcodes, b \notin PrefixBytes, NEW d, (b = 255 => d.size = 16),
         NEW names, NEW letter \in Letters, NEW layout \in RmLayouts,
         Table(b) = Group(names, letter, layout), NEW reg \in 0..7,
         NEW op, op = names[reg + 1], op \notin Widthless
  PROVE  Opcode(<<b>>, 1, d, reg, op, WidthOf(letter, d), layout)
<1>1. PICK row : row = Table(b) OBVIOUS
<1>2. row.layout = layout /\ Width(row, d) = WidthOf(letter, d) /\ row.ops[reg] = op BY <1>1, GroupIs
<1>3. row.layout \notin SregLayouts /\ row.layout \notin PlainLayouts BY <1>2, LayoutsApart
<1>4. Selects(<<b>>, 1, row, d) BY <1>1, <1>3 DEF Selects
<1>5. QED BY <1>2, <1>3, <1>4 DEF Opcode, Coded, Names

\* Two bytes.
LEMMA RowOpcode0F ==
  ASSUME NEW b \in Byte, NEW d, (b \in {183, 191} => d.size = 32),
         NEW op, op \notin Widthless, NEW letter \in Letters, NEW layout \in RmLayouts,
         Table0F(b) = Row(op, letter, layout), NEW reg \in 0..7
  PROVE  Opcode(<<15, b>>, 2, d, reg, op, WidthOf(letter, d), layout)
<1>1. PICK row : row = Table0F(b) OBVIOUS
<1>2. row.layout = layout /\ Width(row, d) = WidthOf(letter, d) /\ row.ops[reg] = op BY <1>1, RowIs
<1>3. row.layout \notin SregLayouts /\ row.layout \notin PlainLayouts BY <1>2, LayoutsApart
<1>4. Selects(<<15, b>>, 2, row, d) BY <1>1, <1>3 DEF Selects
<1>5. QED BY <1>2, <1>3, <1>4 DEF Opcode, Coded, Names

\* One byte, without a register-or-memory operand.
LEMMA PlainRowOpcode ==
  ASSUME NEW b, b \in OneByteOpcodes, b \notin PrefixBytes, b # 255, NEW d,
         NEW op, op \notin Widthless, NEW letter \in Letters, NEW layout \in PlainLayouts,
         Table(b) = Row(op, letter, layout)
  PROVE  PlainOpcode(b, d, op, WidthOf(letter, d), layout)
<1>1. PICK row : row = Table(b) OBVIOUS
<1>2. row.layout = layout /\ Width(row, d) = WidthOf(letter, d) /\ \A reg \in 0..7 : row.ops[reg] = op
  BY <1>1, RowIs
<1>3. NamesAll(row, op) BY <1>2 DEF NamesAll, Names
<1>4. QED BY <1>1, <1>2, <1>3 DEF PlainOpcode, PlainCoded

-----------------------------------------------------------------------------
(* What is written, as encode puts it together. *)

Encodes(v, c, o, reg, e) == e.out = "bytes" => Encoded(v, c, o, reg, e)

Puts(r, code, e) == r = Before(code, e) /\ r.out = "bytes"

LaysAlone(layout, w, d, reg, v, o, dst, src, src2) == Lays(layout, w, d, reg, v, o, <<>>, 0, dst, src, src2)

\* An operand behind an opcode.
LEMMA Alone ==
  ASSUME NEW i, NEW c, NEW d, Setting(i, c, d), NEW code, NEW u, NEW reg, NEW op, NEW w, NEW layout,
         Opcode(code, u, d, reg, op, w, layout), NEW v, NEW o, NEW e, Encodes(v, c, o, reg, e),
         NEW dst, NEW src, NEW src2, LaysAlone(layout, w, d, reg, v, o, dst, src, src2),
         NEW r, Puts(r, code, e)
  PROVE  \E body : r = Emit(body) /\ Rereads(d, body, op, w, dst, src, src2)
<1>1. e.out = "bytes" /\ r = Emit(code \o e.bytes) BY DEF Before, Puts
<1>2. PICK row : Coded(code, u, row, d, reg, op) /\ row.layout = layout /\ Width(row, d) = w BY DEF Opcode
<1>3. Fits(<<>>, 0, u, o) BY NoNumber
<1>4. Lays(row.layout, Width(row, d), d, reg, v, o, <<>>, 0, dst, src, src2) BY <1>2 DEF LaysAlone
<1>5. PICK body : /\ body = Join(code, Join(e.bytes, <<>>)) /\ e.bytes \in Seq(Byte)
                  /\ Rereads(d, body, op, Width(row, d), dst, src, src2)
  BY <1>1, <1>2, <1>3, <1>4, RmWritten DEF Encodes
<1>6. e.bytes \o <<>> = e.bytes BY <1>5, EmptyJoins DEF Byte
<1>7. body = code \o e.bytes BY <1>5, <1>6 DEF Join
<1>8. QED BY <1>1, <1>2, <1>5, <1>7

\* With a byte behind it.
LEMMA WithByte ==
  ASSUME NEW i, NEW c, NEW d, Setting(i, c, d), NEW code, NEW u, NEW reg, NEW op, NEW w, NEW layout,
         Opcode(code, u, d, reg, op, w, layout), NEW v, NEW o, NEW e, Encodes(v, c, o, reg, e),
         NEW x \in Byte,
         NEW dst, NEW src, NEW src2, Lays(layout, w, d, reg, v, o, <<x>>, 1, dst, src, src2),
         NEW r, r = Before(code, After(e, <<x>>)) \/ r = After(Before(code, e), <<x>>), r.out = "bytes"
  PROVE  \E body : r = Emit(body) /\ Rereads(d, body, op, w, dst, src, src2)
<1>1. e.out = "bytes" BY DEF Before, After, Emit
<1>2. r = Emit(code \o (e.bytes \o <<x>>)) \/ r = Emit((code \o e.bytes) \o <<x>>) BY <1>1 DEF Before, After, Emit
<1>3. PICK row : Coded(code, u, row, d, reg, op) /\ row.layout = layout /\ Width(row, d) = w BY DEF Opcode
<1>4. Fits(<<x>>, 1, u, o) BY ByteNumber
<1>5. Lays(row.layout, Width(row, d), d, reg, v, o, <<x>>, 1, dst, src, src2) BY <1>3
<1>6. PICK body : /\ body = Join(code, Join(e.bytes, <<x>>)) /\ body = Join(Join(code, e.bytes), <<x>>)
                  /\ Rereads(d, body, op, Width(row, d), dst, src, src2)
  BY <1>1, <1>3, <1>4, <1>5, RmWritten DEF Encodes
<1>7. QED BY <1>2, <1>3, <1>6 DEF Join

\* A register behind an opcode and a number behind it, put together by hand.
LEMMA RegisterAnd ==
  ASSUME NEW i, NEW c, NEW d, Setting(i, c, d), NEW b \in Byte, NEW reg \in 0..7, NEW op, NEW w, NEW layout,
         Opcode(<<b>>, 1, d, reg, op, w, layout), NEW v \in Widths, NEW o, IsGeneral(v, o),
         NEW imm, NEW z \in 0..4, IsBytes(imm, z),
         NEW dst, NEW src, NEW src2, Lays(layout, w, d, reg, v, o, imm, z, dst, src, src2),
         NEW body, body = <<b, ModRegRm(3, reg, Index(o.r))>> \o imm
  PROVE  Rereads(d, body, op, w, dst, src, src2)
<1>1. PICK row : Coded(<<b>>, 1, row, d, reg, op) /\ row.layout = layout /\ Width(row, d) = w BY DEF Opcode
<1>2. o.kind = "reg" BY GeneralFacts
<1>3. Fits(imm, z, 1, o) BY <1>2 DEF Fits
<1>4. Lays(row.layout, Width(row, d), d, reg, v, o, imm, z, dst, src, src2) BY SMTT(60), <1>1
<1>5. PICK modrm \in Byte : modrm = ModRegRm(3, reg, Index(o.r))
  <2>1. Index(o.r) \in 0..7 BY GeneralFacts
  <2>2. QED BY <2>1, FieldsOf
<1>6. PICK e : e = EncodeRm(o, reg) OBVIOUS
<1>7. e = Emit(<<modrm>>) BY <1>2, <1>5, <1>6 DEF EncodeRm
<1>8. e.out = "bytes" /\ e.bytes = <<modrm>> BY <1>7 DEF Emit
<1>9. c \in Contexts BY DEF Setting
<1>10. IsRm(v, c, o) BY GeneralIsRm
<1>11. Encoded(v, c, o, reg, e) BY <1>6, <1>8, <1>10 DEF Encoded
<1>12. PICK there : /\ there = Join(Join(<<b>>, e.bytes), imm)
                    /\ Rereads(d, there, op, Width(row, d), dst, src, src2)
  BY <1>1, <1>3, <1>4, <1>11, RmWritten
<1>13. Join(<<b>>, e.bytes) = <<b, modrm>>
  <2>1. b \in Int /\ modrm \in Int BY DEF Byte
  <2>2. QED BY <1>8, <2>1, TwoInOne DEF Join
<1>14. body = there BY <1>5, <1>12, <1>13 DEF Join
<1>15. QED BY <1>1, <1>12, <1>14

\* An opcode without such an operand, and a number.
LEMMA PlainAnd ==
  ASSUME NEW i, NEW c, NEW d, Setting(i, c, d), NEW b, NEW op, NEW w, NEW layout,
         PlainOpcode(b, d, op, w, layout), NEW imm, NEW z \in 0..4, IsBytes(imm, z),
         NEW dst, NEW src, PlainLays(layout, w, d, b, imm, z, dst, src),
         NEW body, body = <<b>> \o imm
  PROVE  Rereads(d, body, op, w, dst, src, None)
<1>1. PICK row : PlainCoded(b, row, op) /\ row.layout = layout /\ Width(row, d) = w BY DEF PlainOpcode
<1>2. PlainLays(row.layout, Width(row, d), d, b, imm, z, dst, src) BY <1>1
<1>3. PICK there : there = Join(<<b>>, imm) /\ Rereads(d, there, op, Width(row, d), dst, src, None)
  BY <1>1, <1>2, PlainWritten
<1>4. QED BY <1>1, <1>3 DEF Join

\* Or none.
LEMMA PlainAlone ==
  ASSUME NEW i, NEW c, NEW d, Setting(i, c, d), NEW b \in Byte, NEW op, NEW w, NEW layout,
         PlainOpcode(b, d, op, w, layout),
         NEW dst, NEW src, PlainLays(layout, w, d, b, <<>>, 0, dst, src)
  PROVE  Rereads(d, <<b>>, op, w, dst, src, None)
<1>1. <<b>> \in Seq(Int) BY DEF Byte
<1>2. <<b>> = <<b>> \o <<>> BY <1>1, EmptyJoins
<1>3. IsBytes(<<>>, 0) BY DEF IsBytes
<1>4. 0 \in 0..4 OBVIOUS
<1>5. QED BY <1>2, <1>3, <1>4, PlainAnd

-----------------------------------------------------------------------------
(* Instructions that mean the same. *)

\* An instruction that means the same as i, if i does not lose anything.
MeansTheSame(i, op, w, dst, src, src2) ==
  ~Lossy(i) =>
    /\ Short(dst) /\ Short(src)
    /\ \A j : j.op = op /\ j.w = w /\ j.dst = dst /\ j.src = src /\ j.src2 = src2 => Operation(j) = Operation(i)

\* What comes of encode is read as such an instruction, unless half of a double
\* word is missing; w tells whether a prefix says that the operands have 32 bits.
Again(i, w, r) ==
  r.out = "bytes" /\ ~LosesHalf(i) =>
    \E body, op, v, dst, src, src2 :
      r = Emit(body) /\ Rereads(Written(i, w), body, op, v, dst, src, src2) /\ MeansTheSame(i, op, v, dst, src, src2)

LEMMA ShortIf ==
  ASSUME NEW i, ~Lossy(i)
  PROVE  Short(i.dst) /\ Short(i.src)
BY DEF Lossy, LosesAddressSize, Short

LEMMA ItselfMeansTheSame ==
  ASSUME NEW i, NEW op, op = i.op, NEW w, w = i.w, NEW dst, dst = i.dst, NEW src, src = i.src, NEW src2, src2 = i.src2
  PROVE  MeansTheSame(i, op, w, dst, src, src2)
BY ShortIf DEF MeansTheSame, Operation

\* An exchange, the other way round.
LEMMA ExchangedMeansTheSame ==
  ASSUME NEW i, i.op = "xchg", NEW w, w = i.w, NEW src2
  PROVE  MeansTheSame(i, "xchg", w, i.src, i.dst, src2)
BY ShortIf DEF MeansTheSame, Operation

-----------------------------------------------------------------------------
(* The shapes of the operands that decode makes. *)

From(i, c) == Prefixed(i) /\ c \in Contexts /\ c.seg = i.seg

RmR(i, c) == IsRm(i.w, c, i.dst) /\ IsGeneral(i.w, i.src) /\ i.src2 = None
RRm(i, c) == IsGeneral(i.w, i.dst) /\ IsRm(i.w, c, i.src) /\ i.src2 = None
RmNumber(i, c) == IsRm(i.w, c, i.dst) /\ (\E x : OfWidth(i.w, x) /\ i.src = Imm(i.w, x)) /\ i.src2 = None
RmSmall(i, c) == IsRm(i.w, c, i.dst) /\ i.src.kind = "imms8" /\ i.src2 = None
RmOnly(i, c) == IsRm(i.w, c, i.dst) /\ i.src = None /\ i.src2 = None

LEMMA WrittenSays ==
  ASSUME NEW i, NEW c, From(i, c), NEW w, NEW d, d = Written(i, w)
  PROVE  Setting(i, c, d) /\ d.seg = i.seg /\ d.size = IF w = 32 THEN 32 ELSE 16
BY DEF From, Setting, Written

LEMMA AgainItself ==
  ASSUME NEW i, NEW w, NEW r, NEW d, d = Written(i, w),
         r.out = "bytes" => \E body : r = Emit(body) /\ Rereads(d, body, i.op, i.w, i.dst, i.src, i.src2)
  PROVE  Again(i, w, r)
BY ItselfMeansTheSame DEF Again

LEMMA AgainEmitted ==
  ASSUME NEW i, NEW w, NEW r, NEW body, r = Emit(body), NEW d, d = Written(i, w),
         Rereads(d, body, i.op, i.w, i.dst, i.src, i.src2)
  PROVE  Again(i, w, r)
BY AgainItself

\* A register and a register-or-memory operand behind an opcode.
LEMMA RmRWritten ==
  ASSUME NEW i, NEW c, NEW d, Setting(i, c, d), NEW w \in Widths, w = i.w, RmR(i, c), NEW code, NEW u,
         \A reg \in 0..7 : Opcode(code, u, d, reg, i.op, w, AsRmR),
         NEW r, Puts(r, code, EncodeRmR(i))
  PROVE  \E body : r = Emit(body) /\ Rereads(d, body, i.op, i.w, i.dst, i.src, i.src2)
<1>1. IsRm(w, c, i.dst) /\ IsGeneral(w, i.src) /\ i.src2 = None BY DEF RmR
<1>2. PICK reg \in 0..7 : reg = Index(i.src.r) BY <1>1, GeneralFacts
<1>3. i.src.kind = "reg" /\ i.src = Reg(w, GeneralNames(w)[reg + 1]) BY <1>1, <1>2, GeneralFacts
<1>4. PICK e : e = EncodeRm(i.dst, reg) BY Zenon
<1>5. Puts(r, code, e) BY <1>2, <1>3, <1>4 DEF EncodeRmR, Puts
<1>6. Encodes(w, c, i.dst, reg, e) BY <1>1, <1>4 DEF Encoded, Encodes
<1>7. PICK op, dst, src : op = i.op /\ dst = i.dst /\ src = i.src OBVIOUS
<1>8. Opcode(code, u, d, reg, op, w, AsRmR) BY <1>7
<1>9. LaysAlone(AsRmR, w, d, reg, w, dst, dst, src, None) BY <1>3, <1>7, LaysRmR DEF LaysAlone
<1>10. Encodes(w, c, dst, reg, e) BY <1>6, <1>7
<1>11. \E body : r = Emit(body) /\ Rereads(d, body, op, w, dst, src, None)
  BY <1>5, <1>8, <1>9, <1>10, Alone
<1>12. QED BY <1>1, <1>7, <1>11

\* Likewise.
LEMMA RRmWritten ==
  ASSUME NEW i, NEW c, NEW d, Setting(i, c, d), NEW w \in Widths, w = i.w, RRm(i, c), NEW code, NEW u,
         \A reg \in 0..7 : Opcode(code, u, d, reg, i.op, w, AsRRm),
         NEW r, Puts(r, code, EncodeRRm(i))
  PROVE  \E body : r = Emit(body) /\ Rereads(d, body, i.op, i.w, i.dst, i.src, i.src2)
<1>1. IsRm(w, c, i.src) /\ IsGeneral(w, i.dst) /\ i.src2 = None BY DEF RRm
<1>2. PICK reg \in 0..7 : reg = Index(i.dst.r) BY <1>1, GeneralFacts
<1>3. i.dst.kind = "reg" /\ i.dst = Reg(w, GeneralNames(w)[reg + 1]) BY <1>1, <1>2, GeneralFacts
<1>4. PICK e : e = EncodeRm(i.src, reg) BY Zenon
<1>5. Puts(r, code, e) BY ZenonT(60), <1>2, <1>3, <1>4 DEF EncodeRRm, Before, Panic, Puts
<1>6. Encodes(w, c, i.src, reg, e) BY <1>1, <1>4 DEF Encoded, Encodes
<1>7. PICK op, dst, src : op = i.op /\ dst = i.dst /\ src = i.src OBVIOUS
<1>8. Opcode(code, u, d, reg, op, w, AsRRm) BY <1>7
<1>9. LaysAlone(AsRRm, w, d, reg, w, src, dst, src, None) BY <1>3, <1>7, LaysRRm DEF LaysAlone
<1>10. Encodes(w, c, src, reg, e) BY <1>6, <1>7
<1>11. \E body : r = Emit(body) /\ Rereads(d, body, op, w, dst, src, None)
  BY <1>5, <1>8, <1>9, <1>10, Alone
<1>12. QED BY <1>1, <1>7, <1>11

\* The register with the number zero.
LEMMA AccumulatorIs ==
  ASSUME NEW w \in Widths, NEW o, IsGeneral(w, o), Index(o.r) = 0
  PROVE  o = Reg(w, GeneralNames(w)[1])
<1>1. PICK n : n = Index(o.r) OBVIOUS
<1>2. n + 1 = 1 BY <1>1
<1>3. o = Reg(w, GeneralNames(w)[n + 1]) BY <1>1, GeneralFacts
<1>4. QED BY <1>2, <1>3

\* How many bytes a number has.
LEMMA ImmLenIs ==
  ASSUME NEW w \in Widths
  PROVE  ImmLen(w) \in 0..4
BY SMTT(60) DEF Widths, ImmLen

\* A group has such layouts.
NumberLayout(layout, reg) == layout = AsRmImm \/ (layout = AsMath /\ reg < 2)

\* A register and a number of its width behind the opcode of a group, and of a
\* register alone.
LEMMA NumberWritten ==
  ASSUME NEW i, NEW c, NEW d, Setting(i, c, d), NEW w \in Widths, w = i.w, IsGeneral(w, i.dst),
         NEW x, OfWidth(w, x), i.src = Imm(w, x), i.src2 = None, NEW b \in Byte, NEW reg \in 0..7,
         NEW layout, Opcode(<<b>>, 1, d, reg, i.op, w, layout), NumberLayout(layout, reg)
  PROVE  Rereads(d, <<b, ModRegRm(3, reg, Index(i.dst.r))>> \o BytesOf(w, x), i.op, i.w, i.dst, i.src, i.src2)
<1>1. PICK imm : imm = BytesOf(w, x) OBVIOUS
<1>2. PICK z \in 0..4 : z = ImmLen(w) BY ImmLenIs
<1>3. IsBytes(imm, z) BY <1>1, <1>2, ImmRead DEF IsBytes
<1>4. Lays(layout, w, d, reg, w, i.dst, imm, z, i.dst, i.src, None)
  <2>1. CASE layout = AsRmImm BY <1>1, <1>2, <2>1, LaysRmImm
  <2>2. CASE layout = AsMath /\ reg < 2 BY <1>1, <1>2, <2>2, LaysMathImm
  <2>3. QED BY <2>1, <2>2 DEF NumberLayout
<1>5. QED BY <1>1, <1>3, <1>4, RegisterAnd

\* The accumulator, or a register in the opcode, and such a number.
LEMMA PlainNumberWritten ==
  ASSUME NEW i, NEW c, NEW d, Setting(i, c, d), NEW w \in Widths, w = i.w, IsGeneral(w, i.dst),
         NEW x, OfWidth(w, x), i.src = Imm(w, x), i.src2 = None, NEW b \in Byte,
         NEW layout, PlainOpcode(b, d, i.op, w, layout),
         \/ layout = AsAccImm /\ Index(i.dst.r) = 0
         \/ layout = AsRegImm /\ Index(i.dst.r) = b % 8
  PROVE  Rereads(d, <<b>> \o BytesOf(w, x), i.op, i.w, i.dst, i.src, i.src2)
<1>1. PICK imm : imm = BytesOf(w, x) OBVIOUS
<1>2. PICK z \in 0..4 : z = ImmLen(w) BY ImmLenIs
<1>3. IsBytes(imm, z) BY <1>1, <1>2, ImmRead DEF IsBytes
<1>4. i.dst = Reg(w, GeneralNames(w)[Index(i.dst.r) + 1]) BY GeneralFacts
<1>5. PlainLays(layout, w, d, b, imm, z, i.dst, i.src)
  <2>1. CASE layout = AsAccImm /\ Index(i.dst.r) = 0
    <3>1. i.dst = Reg(w, GeneralNames(w)[1]) BY <2>1, AccumulatorIs
    <3>2. QED BY <1>1, <1>2, <2>1, <3>1, LaysAccImm
  <2>2. CASE layout = AsRegImm /\ Index(i.dst.r) = b % 8
    <3>1. i.dst = Reg(w, GeneralNames(w)[(b % 8) + 1]) BY <1>4, <2>2
    <3>2. QED BY <1>1, <1>2, <2>2, <3>1, LaysRegImm
  <2>3. QED BY <2>1, <2>2
<1>6. QED BY <1>1, <1>3, <1>5, PlainAnd

-----------------------------------------------------------------------------
(* The opcodes of the families. *)

\* The width of operands under the prefixes that encode writes.
LEMMA WidthsAre ==
  ASSUME NEW w \in Sizes, NEW d, d.size = w
  PROVE  WidthOf("b", d) = 8 /\ WidthOf("w", d) = 16 /\ WidthOf("v", d) = w /\ WidthOf("none", d) = 0
BY DEF WidthOf

ArithOps == {Arith[k] : k \in 1..8}
ShiftOps == {Shifts[k] : k \in 1..8} \ {Invalid}
MathOps == {Math[k] : k \in 1..8}

\* Their numbers.
LEMMA ArithNumber ==
  \A op \in ArithOps : /\ Number(Arith, op) \in 0..7 /\ Arith[Number(Arith, op) + 1] = op /\ op \notin Widthless
<1> SUFFICES ASSUME NEW k \in 1..8
             PROVE  /\ Number(Arith, Arith[k]) \in 0..7 /\ Arith[Number(Arith, Arith[k]) + 1] = Arith[k]
                    /\ Arith[k] \notin Widthless
  BY DEF ArithOps
<1>1. DOMAIN Arith = 1..8 BY DEF Arith
<1>2. \A j \in 1..8 : Arith[j] = Arith[k] => j = k BY DEF Arith
<1>3. (CHOOSE n \in DOMAIN Arith : Arith[n] = Arith[k] /\ \A j \in 1..(n - 1) : Arith[j] # Arith[k]) = k
  BY <1>1, <1>2
<1>4. Number(Arith, Arith[k]) = k - 1 BY <1>3 DEF Number
<1>5. Arith[k] \notin Widthless BY DEF Arith, Widthless, Invalid
<1>6. (k - 1) + 1 = k OBVIOUS
<1>7. QED BY <1>4, <1>5, <1>6

LEMMA ShiftNumber ==
  \A op \in ShiftOps : /\ Number(Shifts, op) \in 0..7 /\ Shifts[Number(Shifts, op) + 1] = op /\ op \notin Widthless
<1> SUFFICES ASSUME NEW k \in 1..8, Shifts[k] # Invalid
             PROVE  /\ Number(Shifts, Shifts[k]) \in 0..7 /\ Shifts[Number(Shifts, Shifts[k]) + 1] = Shifts[k]
                    /\ Shifts[k] \notin Widthless
  BY DEF ShiftOps
<1>1. DOMAIN Shifts = 1..8 BY DEF Shifts
<1>2. \A j \in 1..8 : Shifts[j] = Shifts[k] => j = k BY DEF Shifts, Invalid
<1>3. (CHOOSE n \in DOMAIN Shifts : Shifts[n] = Shifts[k] /\ \A j \in 1..(n - 1) : Shifts[j] # Shifts[k]) = k
  BY <1>1, <1>2
<1>4. Number(Shifts, Shifts[k]) = k - 1 BY <1>3 DEF Number
<1>5. Shifts[k] \notin Widthless BY DEF Shifts, Widthless, Invalid
<1>6. (k - 1) + 1 = k OBVIOUS
<1>7. QED BY <1>4, <1>5, <1>6

\* The first number of TEST, the only one of the others.
LEMMA MathNumber ==
  \A op \in MathOps : /\ Number(Math, op) \in 0..7 /\ Math[Number(Math, op) + 1] = op /\ op \notin Widthless
                      /\ op # "test" => Number(Math, op) > 1
<1> SUFFICES ASSUME NEW k \in 1..8, k # 2
             PROVE  /\ Number(Math, Math[k]) \in 0..7 /\ Math[Number(Math, Math[k]) + 1] = Math[k]
                    /\ Math[k] \notin Widthless /\ (Math[k] # "test" => Number(Math, Math[k]) > 1)
  <2>1. Math[1] = Math[2] BY DEF Math
  <2>2. QED BY <2>1 DEF MathOps
<1>1. DOMAIN Math = 1..8 BY DEF Math
<1>2. \A j \in 1..8 : Math[j] = Math[k] /\ j # 2 => j = k BY DEF Math
<1>3. Math[2] = Math[k] => k = 1 BY DEF Math
<1>4. (CHOOSE n \in DOMAIN Math : Math[n] = Math[k] /\ \A j \in 1..(n - 1) : Math[j] # Math[k]) = k
  <2>1. \A n \in 1..8 : (Math[n] = Math[k] /\ \A j \in 1..(n - 1) : Math[j] # Math[k]) <=> n = k
    <3> TAKE n \in 1..8
    <3>1. CASE n = k BY <1>2, <1>3, <3>1
    <3>2. CASE n = 2
      <4>1. Math[1] = Math[2] BY DEF Math
      <4>2. 1 \in 1..(n - 1) BY <3>2
      <4>3. QED BY <3>2, <4>1, <4>2
    <3>3. QED BY <1>2, <3>1, <3>2
  <2>2. QED BY <1>1, <2>1
<1>5. Number(Math, Math[k]) = k - 1 BY <1>4 DEF Number
<1>6. Math[k] \notin Widthless BY DEF Math, Widthless, Invalid
<1>7. (k - 1) + 1 = k OBVIOUS
<1>8. Math[k] # "test" => k - 1 > 1 BY DEF Math
<1>9. QED BY <1>5, <1>6, <1>7, <1>8

\* The operation with the number n in a list.
Nth(names, n, op) == op = names[n + 1] /\ op \notin Widthless
Sized(d, w) == w \in Sizes /\ d.size = w
Times8(n, base) == n \in 0..7 /\ base = 8 * n

LEMMA ArithOpcodes ==
  ASSUME NEW n, NEW op, Nth(Arith, n, op), NEW w, NEW d, Sized(d, w), NEW base, Times8(n, base)
  PROVE  /\ base \in Byte /\ base + 1 \in Byte /\ base + 2 \in Byte /\ base + 3 \in Byte
         /\ base + 4 \in Byte /\ base + 5 \in Byte
         /\ \A reg \in 0..7 : /\ Opcode(<<base>>, 1, d, reg, op, 8, AsRmR)
                              /\ Opcode(<<base + 1>>, 1, d, reg, op, w, AsRmR)
                              /\ Opcode(<<base + 2>>, 1, d, reg, op, 8, AsRRm)
                              /\ w = 16 => Opcode(<<base + 3>>, 1, d, reg, op, w, AsRRm)
         /\ PlainOpcode(base + 4, d, op, 8, AsAccImm) /\ PlainOpcode(base + 5, d, op, w, AsAccImm)
         /\ Opcode(<<128>>, 1, d, n, op, 8, AsRmImm) /\ Opcode(<<129>>, 1, d, n, op, w, AsRmImm)
<1>0. /\ n \in 0..7 /\ op = Arith[n + 1] /\ op \notin Widthless /\ w \in Sizes /\ d.size = w /\ base = 8 * n
  BY DEF Nth, Sized, Times8
<1>1. \A k \in 0..5 : base + k \in OneByteOpcodes /\ base + k \notin PrefixBytes /\ base + k # 255 /\ base + k \in Byte
  BY <1>0 DEF OneByteOpcodes, PrefixBytes, SegmentBytes, Byte
<1>2. /\ Table(base) = Row(op, "b", AsRmR) /\ Table(base + 1) = Row(op, "v", AsRmR)
      /\ Table(base + 2) = Row(op, "b", AsRRm) /\ \E wide \in {"v", "w"} : Table(base + 3) = Row(op, wide, AsRRm)
      /\ Table(base + 4) = Row(op, "b", AsAccImm) /\ Table(base + 5) = Row(op, "v", AsAccImm)
  BY <1>0, ArithTable DEF AsRmR, AsRRm, AsAccImm
<1>3. base \in OneByteOpcodes /\ base \notin PrefixBytes /\ base # 255 /\ base \in Byte
  <2>1. base + 0 = base BY <1>0
  <2>2. 0 \in 0..5 OBVIOUS
  <2>3. QED BY <1>1, <2>1, <2>2
<1>4. \A k \in 1..5 : base + k \in OneByteOpcodes /\ base + k \notin PrefixBytes /\ base + k # 255 /\ base + k \in Byte
  BY <1>1
<1>5. PICK b1, b2, b3, b4, b5 : b1 = base + 1 /\ b2 = base + 2 /\ b3 = base + 3 /\ b4 = base + 4 /\ b5 = base + 5
  OBVIOUS
<1>6. \A b \in {base, b1, b2, b3, b4, b5} : b \in OneByteOpcodes /\ b \notin PrefixBytes /\ b # 255 /\ b \in Byte
  BY <1>3, <1>4, <1>5
<1>7. /\ AsRmR \in RmLayouts /\ AsRRm \in RmLayouts /\ AsRmImm \in RmLayouts /\ AsAccImm \in PlainLayouts
  BY DEF RmLayouts, PlainLayouts, AsAccImm
<1>8. "b" \in Letters /\ "w" \in Letters /\ "v" \in Letters BY DEF Letters
<1>9. WidthOf("b", d) = 8 /\ WidthOf("w", d) = 16 /\ WidthOf("v", d) = w BY <1>0, WidthsAre
<1>10. ASSUME NEW reg \in 0..7
       PROVE  /\ Opcode(<<base>>, 1, d, reg, op, 8, AsRmR) /\ Opcode(<<b1>>, 1, d, reg, op, w, AsRmR)
              /\ Opcode(<<b2>>, 1, d, reg, op, 8, AsRRm) /\ (w = 16 => Opcode(<<b3>>, 1, d, reg, op, w, AsRRm))
  <2>1. Opcode(<<base>>, 1, d, reg, op, WidthOf("b", d), AsRmR) BY <1>0, <1>2, <1>6, <1>7, <1>8, RowOpcode
  <2>2. Opcode(<<b1>>, 1, d, reg, op, WidthOf("v", d), AsRmR) BY <1>0, <1>2, <1>5, <1>6, <1>7, <1>8, RowOpcode
  <2>3. Opcode(<<b2>>, 1, d, reg, op, WidthOf("b", d), AsRRm) BY <1>0, <1>2, <1>5, <1>6, <1>7, <1>8, RowOpcode
  <2>4. \E wide \in {"v", "w"} : Opcode(<<b3>>, 1, d, reg, op, WidthOf(wide, d), AsRRm)
    <3>1. PICK wide \in {"v", "w"} : Table(b3) = Row(op, wide, AsRRm) BY <1>2, <1>5
    <3>2. wide \in Letters BY <1>8, <3>1
    <3>3. QED BY <1>0, <1>6, <1>7, <3>1, <3>2, RowOpcode
  <2>5. QED BY <1>9, <2>1, <2>2, <2>3, <2>4
<1>11. PlainOpcode(b4, d, op, 8, AsAccImm) BY <1>0, <1>2, <1>5, <1>6, <1>7, <1>8, <1>9, PlainRowOpcode
<1>12. PlainOpcode(b5, d, op, w, AsAccImm) BY <1>0, <1>2, <1>5, <1>6, <1>7, <1>8, <1>9, PlainRowOpcode
<1>13. 128 \in OneByteOpcodes /\ 128 \notin PrefixBytes /\ 129 \in OneByteOpcodes /\ 129 \notin PrefixBytes
  BY DEF OneByteOpcodes, PrefixBytes, SegmentBytes, Byte
<1>14. Table(128) = Group(Arith, "b", AsRmImm) /\ Table(129) = Group(Arith, "v", AsRmImm)
  BY GroupRows80Are DEF AsRmImm
<1>15. PICK x, y : x = 128 /\ y = 129 OBVIOUS
<1>16. Opcode(<<x>>, 1, d, n, op, 8, AsRmImm) BY <1>0, <1>7, <1>8, <1>9, <1>13, <1>14, <1>15, GroupOpcode
<1>17. Opcode(<<y>>, 1, d, n, op, w, AsRmImm) BY <1>0, <1>7, <1>8, <1>9, <1>13, <1>14, <1>15, GroupOpcode
<1>18. QED BY <1>5, <1>6, <1>10, <1>11, <1>12, <1>15, <1>16, <1>17

\* Opcodes that are no prefix.
Free(b) == b \in OneByteOpcodes /\ b \notin PrefixBytes /\ b # 255 /\ b \in Byte

LEMMA FreeOpcodes ==
  /\ \A b \in {39, 47, 55, 63, 104, 107, 132, 133, 134, 135, 136, 138, 141, 144, 152, 153, 157, 158, 159,
               160, 162, 166, 167, 168, 169, 192, 193, 204, 205, 208, 209, 212, 213, 214, 215, 241,
               245, 246, 247, 248, 249, 250, 251, 252, 253, 254} : Free(b)
  /\ \A r \in 0..7 : Free(64 + r) /\ Free(72 + r) /\ Free(88 + r) /\ Free(144 + r) /\ Free(176 + r) /\ Free(184 + r)
BY DEF Free, OneByteOpcodes, PrefixBytes, SegmentBytes, Byte

LEMMA LettersAre == "b" \in Letters /\ "w" \in Letters /\ "v" \in Letters /\ "none" \in Letters
BY DEF Letters

LEMMA LayoutsAre ==
  /\ AsRm \in RmLayouts /\ AsMath \in RmLayouts /\ AsRmR \in RmLayouts /\ AsRRm \in RmLayouts
  /\ AsRRm8 \in RmLayouts /\ AsR32Rm16 \in RmLayouts /\ AsRmOne \in RmLayouts /\ AsRmImm8 \in RmLayouts
  /\ AsRmRImm8 \in RmLayouts /\ AsRRmImmS8 \in RmLayouts /\ AsRmImm \in RmLayouts
  /\ AsAccImm \in PlainLayouts /\ AsRegImm \in PlainLayouts /\ AsImm \in PlainLayouts /\ AsReg \in PlainLayouts
  /\ AsAccReg \in PlainLayouts /\ AsOne \in PlainLayouts /\ AsThree \in PlainLayouts /\ AsNone \in PlainLayouts
  /\ AsImm8 \in PlainLayouts /\ AsAccOffset \in PlainLayouts /\ AsOffsetAcc \in PlainLayouts
<1>1. /\ AsRm \in RmLayouts /\ AsMath \in RmLayouts /\ AsRmR \in RmLayouts /\ AsRRm \in RmLayouts
      /\ AsRRm8 \in RmLayouts /\ AsR32Rm16 \in RmLayouts /\ AsRmOne \in RmLayouts /\ AsRmImm8 \in RmLayouts
      /\ AsRmRImm8 \in RmLayouts /\ AsRRmImmS8 \in RmLayouts /\ AsRmImm \in RmLayouts
  BY DEF RmLayouts
<1>2. /\ AsAccImm \in PlainLayouts /\ AsRegImm \in PlainLayouts /\ AsImm \in PlainLayouts /\ AsReg \in PlainLayouts
      /\ AsAccReg \in PlainLayouts /\ AsOne \in PlainLayouts /\ AsThree \in PlainLayouts /\ AsNone \in PlainLayouts
      /\ AsImm8 \in PlainLayouts /\ AsAccOffset \in PlainLayouts /\ AsOffsetAcc \in PlainLayouts
  BY DEF PlainLayouts, AsAccImm, AsRegImm, AsImm, AsReg, AsAccReg, AsOne, AsThree, AsNone, AsImm8, AsAccOffset, AsOffsetAcc
<1>3. QED BY <1>1, <1>2

\* A row, and a group, of operations of the width w.
LEMMA RowSays ==
  ASSUME NEW w \in Sizes, NEW d, d.size = w, NEW b, Free(b), NEW op, op \notin Widthless, NEW layout \in RmLayouts, NEW reg \in 0..7
  PROVE  /\ Table(b) = Row(op, "b", layout) => Opcode(<<b>>, 1, d, reg, op, 8, layout)
         /\ Table(b) = Row(op, "w", layout) => Opcode(<<b>>, 1, d, reg, op, 16, layout)
         /\ Table(b) = Row(op, "v", layout) => Opcode(<<b>>, 1, d, reg, op, w, layout)
<1>1. b \in OneByteOpcodes /\ b \notin PrefixBytes /\ b # 255 BY DEF Free
<1>2. \A letter \in Letters : Table(b) = Row(op, letter, layout) => Opcode(<<b>>, 1, d, reg, op, WidthOf(letter, d), layout)
  BY <1>1, RowOpcode
<1>3. QED BY <1>2, WidthsAre, LettersAre

LEMMA GroupSays ==
  ASSUME NEW w \in Sizes, NEW d, d.size = w, NEW b, Free(b), NEW names, NEW layout \in RmLayouts, NEW reg \in 0..7,
         NEW op, op = names[reg + 1], op \notin Widthless
  PROVE  /\ Table(b) = Group(names, "b", layout) => Opcode(<<b>>, 1, d, reg, op, 8, layout)
         /\ Table(b) = Group(names, "w", layout) => Opcode(<<b>>, 1, d, reg, op, 16, layout)
         /\ Table(b) = Group(names, "v", layout) => Opcode(<<b>>, 1, d, reg, op, w, layout)
<1>1. b \in OneByteOpcodes /\ b \notin PrefixBytes /\ b # 255 BY DEF Free
<1>2. \A letter \in Letters : Table(b) = Group(names, letter, layout) => Opcode(<<b>>, 1, d, reg, op, WidthOf(letter, d), layout)
  BY <1>1, GroupOpcode
<1>3. QED BY <1>2, WidthsAre, LettersAre

\* Two bytes of opcode.
LEMMA Row0FSays ==
  ASSUME NEW w \in Sizes, NEW d, d.size = w, NEW b \in Byte, (b \in {183, 191} => w = 32), NEW op, op \notin Widthless,
         NEW layout \in RmLayouts, NEW reg \in 0..7
  PROVE  /\ Table0F(b) = Row(op, "w", layout) => Opcode(<<15, b>>, 2, d, reg, op, 16, layout)
         /\ Table0F(b) = Row(op, "v", layout) => Opcode(<<15, b>>, 2, d, reg, op, w, layout)
<1>1. \A letter \in Letters : Table0F(b) = Row(op, letter, layout) => Opcode(<<15, b>>, 2, d, reg, op, WidthOf(letter, d), layout)
  BY RowOpcode0F
<1>2. QED BY <1>1, WidthsAre, LettersAre

\* A row without a register-or-memory operand.
LEMMA PlainSays ==
  ASSUME NEW w \in Sizes, NEW d, d.size = w, NEW b, Free(b), NEW op, op \notin Widthless, NEW layout \in PlainLayouts
  PROVE  /\ Table(b) = Row(op, "b", layout) => PlainOpcode(b, d, op, 8, layout)
         /\ Table(b) = Row(op, "w", layout) => PlainOpcode(b, d, op, 16, layout)
         /\ Table(b) = Row(op, "v", layout) => PlainOpcode(b, d, op, w, layout)
         /\ Table(b) = Row(op, "none", layout) => PlainOpcode(b, d, op, 0, layout)
<1>1. b \in OneByteOpcodes /\ b \notin PrefixBytes /\ b # 255 BY DEF Free
<1>2. \A letter \in Letters : Table(b) = Row(op, letter, layout) => PlainOpcode(b, d, op, WidthOf(letter, d), layout)
  BY <1>1, PlainRowOpcode
<1>3. QED BY <1>2, WidthsAre, LettersAre

\* The names of operations with operands, none of which is left without a width.
LEMMA NamesAre ==
  \A op \in {"test", "imul", "inc", "dec", "mov", "movzx", "movsx", "xchg", "nop", "int", "aam", "aad", "push", "pop",
            "bsf", "bt", "lea", "shld", "shrd", "cbw"} : op \notin Widthless
BY DEF Widthless, Invalid

\* TEST and the forms of IMUL.
LEMMA TestOpcodes ==
  ASSUME NEW w \in Sizes, NEW d, d.size = w
  PROVE  /\ \A reg \in 0..7 : Opcode(<<132>>, 1, d, reg, "test", 8, AsRmR)
         /\ \A reg \in 0..7 : Opcode(<<133>>, 1, d, reg, "test", w, AsRmR)
         /\ PlainOpcode(168, d, "test", 8, AsAccImm)
         /\ PlainOpcode(169, d, "test", w, AsAccImm)
         /\ \A reg \in 0..7 : Opcode(<<107>>, 1, d, reg, "imul", w, AsRRmImmS8)
         /\ \A reg \in 0..7 : Opcode(<<15, 175>>, 2, d, reg, "imul", w, AsRRm)
<1>1. ASSUME NEW reg \in 0..7
      PROVE  Opcode(<<132>>, 1, d, reg, "test", 8, AsRmR)
  <2>1. Free(132) BY FreeOpcodes
  <2>2. Table(132) = Row("test", "b", AsRmR) BY GroupRows80Are DEF AsRmR
  <2>3. "test" \notin Widthless BY NamesAre
  <2>4. PICK b, op : b = 132 /\ op = "test" OBVIOUS
  <2>5. QED BY <2>1, <2>2, <2>3, <2>4, LayoutsAre, RowSays
<1>2. ASSUME NEW reg \in 0..7
      PROVE  Opcode(<<133>>, 1, d, reg, "test", w, AsRmR)
  <2>1. Free(133) BY FreeOpcodes
  <2>2. Table(133) = Row("test", "v", AsRmR) BY GroupRows80Are DEF AsRmR
  <2>3. "test" \notin Widthless BY NamesAre
  <2>4. PICK b, op : b = 133 /\ op = "test" OBVIOUS
  <2>5. QED BY <2>1, <2>2, <2>3, <2>4, LayoutsAre, RowSays
<1>3. PlainOpcode(168, d, "test", 8, AsAccImm)
  <2>1. Free(168) BY FreeOpcodes
  <2>2. Table(168) = Row("test", "b", AsAccImm) BY StringRowsAre DEF AsAccImm
  <2>3. "test" \notin Widthless BY NamesAre
  <2>4. PICK b, op : b = 168 /\ op = "test" OBVIOUS
  <2>5. QED BY <2>1, <2>2, <2>3, <2>4, LayoutsAre, PlainSays
<1>4. PlainOpcode(169, d, "test", w, AsAccImm)
  <2>1. Free(169) BY FreeOpcodes
  <2>2. Table(169) = Row("test", "v", AsAccImm) BY StringRowsAre DEF AsAccImm
  <2>3. "test" \notin Widthless BY NamesAre
  <2>4. PICK b, op : b = 169 /\ op = "test" OBVIOUS
  <2>5. QED BY <2>1, <2>2, <2>3, <2>4, LayoutsAre, PlainSays
<1>5. ASSUME NEW reg \in 0..7
      PROVE  Opcode(<<107>>, 1, d, reg, "imul", w, AsRRmImmS8)
  <2>1. Free(107) BY FreeOpcodes
  <2>2. Table(107) = Row("imul", "v", AsRRmImmS8) BY ImmediateRowsAre DEF AsRRmImmS8
  <2>3. "imul" \notin Widthless BY NamesAre
  <2>4. PICK b, op : b = 107 /\ op = "imul" OBVIOUS
  <2>5. QED BY <2>1, <2>2, <2>3, <2>4, LayoutsAre, RowSays
<1>6. ASSUME NEW reg \in 0..7
      PROVE  Opcode(<<15, 175>>, 2, d, reg, "imul", w, AsRRm)
  <2>1. 175 \in Byte BY DEF Byte
  <2>2. Table0F(175) = Row("imul", "v", AsRRm) BY Table0FIs DEF AsRRm
  <2>3. "imul" \notin Widthless BY NamesAre
  <2>4. PICK b, op : b = 175 /\ op = "imul" OBVIOUS
  <2>5. b \in {183, 191} => w = 32 BY <1>6, <2>4
  <2>6. b \in Byte /\ op \notin Widthless /\ Table0F(b) = Row(op, "v", AsRRm) BY <2>1, <2>2, <2>3, <2>4
  <2>7. Opcode(<<15, b>>, 2, d, reg, op, w, AsRRm) BY <2>5, <2>6, LayoutsAre, Row0FSays
  <2>8. QED BY <2>4, <2>7
<1>7. QED BY <1>1, <1>2, <1>3, <1>4, <1>5, <1>6

\* The group of TEST, NOT, NEG, MUL, IMUL, DIV and IDIV.
LEMMA MathOpcodes ==
  ASSUME NEW w \in Sizes, NEW d, d.size = w, NEW n \in 0..7, NEW op, op = Math[n + 1], op \notin Widthless
  PROVE  /\ Opcode(<<246>>, 1, d, n, op, 8, AsMath)
         /\ Opcode(<<247>>, 1, d, n, op, w, AsMath)
<1>1. Opcode(<<246>>, 1, d, n, op, 8, AsMath)
  <2>1. Free(246) BY FreeOpcodes
  <2>2. Table(246) = Group(Math, "b", AsMath) BY MathRowsAre DEF AsMath
  <2>3. PICK b, names : b = 246 /\ names = Math OBVIOUS
  <2>4. QED BY <2>1, <2>2, <2>3, LayoutsAre, GroupSays
<1>2. Opcode(<<247>>, 1, d, n, op, w, AsMath)
  <2>1. Free(247) BY FreeOpcodes
  <2>2. Table(247) = Group(Math, "v", AsMath) BY MathRowsAre DEF AsMath
  <2>3. PICK b, names : b = 247 /\ names = Math OBVIOUS
  <2>4. QED BY <2>1, <2>2, <2>3, LayoutsAre, GroupSays
<1>3. QED BY <1>1, <1>2

\* Shifts.
LEMMA ShiftOpcodes ==
  ASSUME NEW w \in Sizes, NEW d, d.size = w, NEW n \in 0..7, NEW op, op = Shifts[n + 1], op \notin Widthless
  PROVE  /\ Opcode(<<192>>, 1, d, n, op, 8, AsRmImm8)
         /\ Opcode(<<193>>, 1, d, n, op, w, AsRmImm8)
         /\ Opcode(<<208>>, 1, d, n, op, 8, AsRmOne)
         /\ Opcode(<<209>>, 1, d, n, op, 16, AsRmOne)
<1>1. Opcode(<<192>>, 1, d, n, op, 8, AsRmImm8)
  <2>1. Free(192) BY FreeOpcodes
  <2>2. Table(192) = Group(Shifts, "b", AsRmImm8) BY ReturnRowsAre DEF AsRmImm8
  <2>3. PICK b, names : b = 192 /\ names = Shifts OBVIOUS
  <2>4. QED BY <2>1, <2>2, <2>3, LayoutsAre, GroupSays
<1>2. Opcode(<<193>>, 1, d, n, op, w, AsRmImm8)
  <2>1. Free(193) BY FreeOpcodes
  <2>2. Table(193) = Group(Shifts, "v", AsRmImm8) BY ReturnRowsAre DEF AsRmImm8
  <2>3. PICK b, names : b = 193 /\ names = Shifts OBVIOUS
  <2>4. QED BY <2>1, <2>2, <2>3, LayoutsAre, GroupSays
<1>3. Opcode(<<208>>, 1, d, n, op, 8, AsRmOne)
  <2>1. Free(208) BY FreeOpcodes
  <2>2. Table(208) = Group(Shifts, "b", AsRmOne) BY ShiftRowsAre DEF AsRmOne
  <2>3. PICK b, names : b = 208 /\ names = Shifts OBVIOUS
  <2>4. QED BY <2>1, <2>2, <2>3, LayoutsAre, GroupSays
<1>4. Opcode(<<209>>, 1, d, n, op, 16, AsRmOne)
  <2>1. Free(209) BY FreeOpcodes
  <2>2. Table(209) = Group(Shifts, "w", AsRmOne) BY ShiftRowsAre DEF AsRmOne
  <2>3. PICK b, names : b = 209 /\ names = Shifts OBVIOUS
  <2>4. QED BY <2>1, <2>2, <2>3, LayoutsAre, GroupSays
<1>5. QED BY <1>1, <1>2, <1>3, <1>4

\* MOV.
LEMMA MoveOpcodes ==
  ASSUME NEW w \in Sizes, NEW d, d.size = w
  PROVE  /\ \A reg \in 0..7 : Opcode(<<136>>, 1, d, reg, "mov", 8, AsRmR)
         /\ \A reg \in 0..7 : Opcode(<<138>>, 1, d, reg, "mov", 8, AsRRm)
         /\ PlainOpcode(160, d, "mov", 8, AsAccOffset)
         /\ PlainOpcode(162, d, "mov", 8, AsOffsetAcc)
<1>1. ASSUME NEW reg \in 0..7
      PROVE  Opcode(<<136>>, 1, d, reg, "mov", 8, AsRmR)
  <2>1. Free(136) BY FreeOpcodes
  <2>2. Table(136) = Row("mov", "b", AsRmR) BY MoveRowsAre DEF AsRmR
  <2>3. "mov" \notin Widthless BY NamesAre
  <2>4. PICK b, op : b = 136 /\ op = "mov" OBVIOUS
  <2>5. QED BY <2>1, <2>2, <2>3, <2>4, LayoutsAre, RowSays
<1>2. ASSUME NEW reg \in 0..7
      PROVE  Opcode(<<138>>, 1, d, reg, "mov", 8, AsRRm)
  <2>1. Free(138) BY FreeOpcodes
  <2>2. Table(138) = Row("mov", "b", AsRRm) BY MoveRowsAre DEF AsRRm
  <2>3. "mov" \notin Widthless BY NamesAre
  <2>4. PICK b, op : b = 138 /\ op = "mov" OBVIOUS
  <2>5. QED BY <2>1, <2>2, <2>3, <2>4, LayoutsAre, RowSays
<1>3. PlainOpcode(160, d, "mov", 8, AsAccOffset)
  <2>1. Free(160) BY FreeOpcodes
  <2>2. Table(160) = Row("mov", "b", AsAccOffset) BY OffsetRowsAre DEF AsAccOffset
  <2>3. "mov" \notin Widthless BY NamesAre
  <2>4. PICK b, op : b = 160 /\ op = "mov" OBVIOUS
  <2>5. QED BY <2>1, <2>2, <2>3, <2>4, LayoutsAre, PlainSays
<1>4. PlainOpcode(162, d, "mov", 8, AsOffsetAcc)
  <2>1. Free(162) BY FreeOpcodes
  <2>2. Table(162) = Row("mov", "b", AsOffsetAcc) BY OffsetRowsAre DEF AsOffsetAcc
  <2>3. "mov" \notin Widthless BY NamesAre
  <2>4. PICK b, op : b = 162 /\ op = "mov" OBVIOUS
  <2>5. QED BY <2>1, <2>2, <2>3, <2>4, LayoutsAre, PlainSays
<1>5. QED BY <1>1, <1>2, <1>3, <1>4

\* Opcodes that hold the number of a register.
LEMMA RegisterOpcodes ==
  ASSUME NEW w \in Sizes, NEW d, d.size = w, NEW r \in 0..7
  PROVE  /\ PlainOpcode(64 + r, d, "inc", w, AsReg)
         /\ PlainOpcode(72 + r, d, "dec", w, AsReg)
         /\ PlainOpcode(88 + r, d, "pop", w, AsReg)
         /\ PlainOpcode(176 + r, d, "mov", 8, AsRegImm)
         /\ PlainOpcode(184 + r, d, "mov", w, AsRegImm)
<1>1. PlainOpcode(64 + r, d, "inc", w, AsReg)
  <2>1. Free(64 + r) BY FreeOpcodes
  <2>2. Table(64 + r) = Row("inc", "v", AsReg) BY RegisterTable DEF AsReg
  <2>3. "inc" \notin Widthless BY NamesAre
  <2>4. PICK b, op : b = 64 + r /\ op = "inc" OBVIOUS
  <2>5. QED BY <2>1, <2>2, <2>3, <2>4, LayoutsAre, PlainSays
<1>2. PlainOpcode(72 + r, d, "dec", w, AsReg)
  <2>1. Free(72 + r) BY FreeOpcodes
  <2>2. Table(72 + r) = Row("dec", "v", AsReg) BY RegisterTable DEF AsReg
  <2>3. "dec" \notin Widthless BY NamesAre
  <2>4. PICK b, op : b = 72 + r /\ op = "dec" OBVIOUS
  <2>5. QED BY <2>1, <2>2, <2>3, <2>4, LayoutsAre, PlainSays
<1>3. PlainOpcode(88 + r, d, "pop", w, AsReg)
  <2>1. Free(88 + r) BY FreeOpcodes
  <2>2. Table(88 + r) = Row("pop", "v", AsReg) BY RegisterTable DEF AsReg
  <2>3. "pop" \notin Widthless BY NamesAre
  <2>4. PICK b, op : b = 88 + r /\ op = "pop" OBVIOUS
  <2>5. QED BY <2>1, <2>2, <2>3, <2>4, LayoutsAre, PlainSays
<1>4. PlainOpcode(176 + r, d, "mov", 8, AsRegImm)
  <2>1. Free(176 + r) BY FreeOpcodes
  <2>2. Table(176 + r) = Row("mov", "b", AsRegImm) BY RegisterTable DEF AsRegImm
  <2>3. "mov" \notin Widthless BY NamesAre
  <2>4. PICK b, op : b = 176 + r /\ op = "mov" OBVIOUS
  <2>5. QED BY <2>1, <2>2, <2>3, <2>4, LayoutsAre, PlainSays
<1>5. PlainOpcode(184 + r, d, "mov", w, AsRegImm)
  <2>1. Free(184 + r) BY FreeOpcodes
  <2>2. Table(184 + r) = Row("mov", "v", AsRegImm) BY RegisterTable DEF AsRegImm
  <2>3. "mov" \notin Widthless BY NamesAre
  <2>4. PICK b, op : b = 184 + r /\ op = "mov" OBVIOUS
  <2>5. QED BY <2>1, <2>2, <2>3, <2>4, LayoutsAre, PlainSays
<1>6. QED BY <1>1, <1>2, <1>3, <1>4, <1>5

\* MOVZX and MOVSX.
LEMMA ExtendOpcodes ==
  ASSUME NEW w \in Sizes, NEW d, d.size = w
  PROVE  /\ \A reg \in 0..7 : Opcode(<<15, 182>>, 2, d, reg, "movzx", w, AsRRm8)
         /\ \A reg \in 0..7 : Opcode(<<15, 190>>, 2, d, reg, "movsx", w, AsRRm8)
         /\ w = 32 => \A reg \in 0..7 : Opcode(<<15, 183>>, 2, d, reg, "movzx", w, AsR32Rm16)
         /\ w = 32 => \A reg \in 0..7 : Opcode(<<15, 191>>, 2, d, reg, "movsx", w, AsR32Rm16)
<1>1. ASSUME NEW reg \in 0..7
      PROVE  Opcode(<<15, 182>>, 2, d, reg, "movzx", w, AsRRm8)
  <2>1. 182 \in Byte BY DEF Byte
  <2>2. Table0F(182) = Row("movzx", "v", AsRRm8) BY Table0FIs DEF AsRRm8
  <2>3. "movzx" \notin Widthless BY NamesAre
  <2>4. PICK b, op : b = 182 /\ op = "movzx" OBVIOUS
  <2>5. b \in {183, 191} => w = 32 BY <1>1, <2>4
  <2>6. b \in Byte /\ op \notin Widthless /\ Table0F(b) = Row(op, "v", AsRRm8) BY <2>1, <2>2, <2>3, <2>4
  <2>7. Opcode(<<15, b>>, 2, d, reg, op, w, AsRRm8) BY <2>5, <2>6, LayoutsAre, Row0FSays
  <2>8. QED BY <2>4, <2>7
<1>2. ASSUME NEW reg \in 0..7
      PROVE  Opcode(<<15, 190>>, 2, d, reg, "movsx", w, AsRRm8)
  <2>1. 190 \in Byte BY DEF Byte
  <2>2. Table0F(190) = Row("movsx", "v", AsRRm8) BY Table0FIs DEF AsRRm8
  <2>3. "movsx" \notin Widthless BY NamesAre
  <2>4. PICK b, op : b = 190 /\ op = "movsx" OBVIOUS
  <2>5. b \in {183, 191} => w = 32 BY <1>2, <2>4
  <2>6. b \in Byte /\ op \notin Widthless /\ Table0F(b) = Row(op, "v", AsRRm8) BY <2>1, <2>2, <2>3, <2>4
  <2>7. Opcode(<<15, b>>, 2, d, reg, op, w, AsRRm8) BY <2>5, <2>6, LayoutsAre, Row0FSays
  <2>8. QED BY <2>4, <2>7
<1>3. ASSUME NEW reg \in 0..7, w = 32
      PROVE  Opcode(<<15, 183>>, 2, d, reg, "movzx", w, AsR32Rm16)
  <2>1. 183 \in Byte BY DEF Byte
  <2>2. Table0F(183) = Row("movzx", "v", AsR32Rm16) BY Table0FIs DEF AsR32Rm16
  <2>3. "movzx" \notin Widthless BY NamesAre
  <2>4. PICK b, op : b = 183 /\ op = "movzx" OBVIOUS
  <2>5. b \in {183, 191} => w = 32 BY <1>3, <2>4
  <2>6. b \in Byte /\ op \notin Widthless /\ Table0F(b) = Row(op, "v", AsR32Rm16) BY <2>1, <2>2, <2>3, <2>4
  <2>7. Opcode(<<15, b>>, 2, d, reg, op, w, AsR32Rm16) BY <2>5, <2>6, LayoutsAre, Row0FSays
  <2>8. QED BY <2>4, <2>7
<1>4. ASSUME NEW reg \in 0..7, w = 32
      PROVE  Opcode(<<15, 191>>, 2, d, reg, "movsx", w, AsR32Rm16)
  <2>1. 191 \in Byte BY DEF Byte
  <2>2. Table0F(191) = Row("movsx", "v", AsR32Rm16) BY Table0FIs DEF AsR32Rm16
  <2>3. "movsx" \notin Widthless BY NamesAre
  <2>4. PICK b, op : b = 191 /\ op = "movsx" OBVIOUS
  <2>5. b \in {183, 191} => w = 32 BY <1>4, <2>4
  <2>6. b \in Byte /\ op \notin Widthless /\ Table0F(b) = Row(op, "v", AsR32Rm16) BY <2>1, <2>2, <2>3, <2>4
  <2>7. Opcode(<<15, b>>, 2, d, reg, op, w, AsR32Rm16) BY <2>5, <2>6, LayoutsAre, Row0FSays
  <2>8. QED BY <2>4, <2>7
<1>5. QED BY <1>1, <1>2, <1>3, <1>4

\* XCHG, and NOP in its place.
LEMMA ExchangeOpcodes ==
  ASSUME NEW w \in Sizes, NEW d, d.size = w
  PROVE  /\ \A reg \in 0..7 : Opcode(<<134>>, 1, d, reg, "xchg", 8, AsRmR)
         /\ \A reg \in 0..7 : Opcode(<<135>>, 1, d, reg, "xchg", 16, AsRmR)
         /\ PlainOpcode(144, d, "nop", 0, AsNone)
<1>1. ASSUME NEW reg \in 0..7
      PROVE  Opcode(<<134>>, 1, d, reg, "xchg", 8, AsRmR)
  <2>1. Free(134) BY FreeOpcodes
  <2>2. Table(134) = Row("xchg", "b", AsRmR) BY GroupRows80Are DEF AsRmR
  <2>3. "xchg" \notin Widthless BY NamesAre
  <2>4. PICK b, op : b = 134 /\ op = "xchg" OBVIOUS
  <2>5. QED BY <2>1, <2>2, <2>3, <2>4, LayoutsAre, RowSays
<1>2. ASSUME NEW reg \in 0..7
      PROVE  Opcode(<<135>>, 1, d, reg, "xchg", 16, AsRmR)
  <2>1. Free(135) BY FreeOpcodes
  <2>2. Table(135) = Row("xchg", "w", AsRmR) BY GroupRows80Are DEF AsRmR
  <2>3. "xchg" \notin Widthless BY NamesAre
  <2>4. PICK b, op : b = 135 /\ op = "xchg" OBVIOUS
  <2>5. QED BY <2>1, <2>2, <2>3, <2>4, LayoutsAre, RowSays
<1>3. PlainOpcode(144, d, "nop", 0, AsNone)
  <2>1. Free(144) BY FreeOpcodes
  <2>2. Table(144) = Row("nop", "none", AsNone) BY ExchangeRowsAre DEF AsNone, Plain
  <2>3. "nop" \notin Widthless BY NamesAre
  <2>4. PICK b, op : b = 144 /\ op = "nop" OBVIOUS
  <2>5. QED BY <2>1, <2>2, <2>3, <2>4, LayoutsAre, PlainSays
<1>4. QED BY <1>1, <1>2, <1>3

\* Instructions on words.
LEMMA WordOpcodes ==
  ASSUME NEW w \in Sizes, NEW d, d.size = w
  PROVE  /\ \A reg \in 0..7 : Opcode(<<141>>, 1, d, reg, "lea", 16, AsRRm)
         /\ \A reg \in 0..7 : Opcode(<<15, 188>>, 2, d, reg, "bsf", 16, AsRRm)
         /\ \A reg \in 0..7 : Opcode(<<15, 163>>, 2, d, reg, "bt", 16, AsRmR)
         /\ \A reg \in 0..7 : Opcode(<<15, 164>>, 2, d, reg, "shld", 16, AsRmRImm8)
         /\ \A reg \in 0..7 : Opcode(<<15, 172>>, 2, d, reg, "shrd", 16, AsRmRImm8)
<1>1. ASSUME NEW reg \in 0..7
      PROVE  Opcode(<<141>>, 1, d, reg, "lea", 16, AsRRm)
  <2>1. Free(141) BY FreeOpcodes
  <2>2. Table(141) = Row("lea", "w", AsRRm) BY MoveRowsAre DEF AsRRm
  <2>3. "lea" \notin Widthless BY NamesAre
  <2>4. PICK b, op : b = 141 /\ op = "lea" OBVIOUS
  <2>5. QED BY <2>1, <2>2, <2>3, <2>4, LayoutsAre, RowSays
<1>2. ASSUME NEW reg \in 0..7
      PROVE  Opcode(<<15, 188>>, 2, d, reg, "bsf", 16, AsRRm)
  <2>1. 188 \in Byte BY DEF Byte
  <2>2. Table0F(188) = Row("bsf", "w", AsRRm) BY Table0FIs DEF AsRRm
  <2>3. "bsf" \notin Widthless BY NamesAre
  <2>4. PICK b, op : b = 188 /\ op = "bsf" OBVIOUS
  <2>5. b \in {183, 191} => w = 32 BY <1>2, <2>4
  <2>6. b \in Byte /\ op \notin Widthless /\ Table0F(b) = Row(op, "w", AsRRm) BY <2>1, <2>2, <2>3, <2>4
  <2>7. Opcode(<<15, b>>, 2, d, reg, op, 16, AsRRm) BY <2>5, <2>6, LayoutsAre, Row0FSays
  <2>8. QED BY <2>4, <2>7
<1>3. ASSUME NEW reg \in 0..7
      PROVE  Opcode(<<15, 163>>, 2, d, reg, "bt", 16, AsRmR)
  <2>1. 163 \in Byte BY DEF Byte
  <2>2. Table0F(163) = Row("bt", "w", AsRmR) BY Table0FIs DEF AsRmR
  <2>3. "bt" \notin Widthless BY NamesAre
  <2>4. PICK b, op : b = 163 /\ op = "bt" OBVIOUS
  <2>5. b \in {183, 191} => w = 32 BY <1>3, <2>4
  <2>6. b \in Byte /\ op \notin Widthless /\ Table0F(b) = Row(op, "w", AsRmR) BY <2>1, <2>2, <2>3, <2>4
  <2>7. Opcode(<<15, b>>, 2, d, reg, op, 16, AsRmR) BY <2>5, <2>6, LayoutsAre, Row0FSays
  <2>8. QED BY <2>4, <2>7
<1>4. ASSUME NEW reg \in 0..7
      PROVE  Opcode(<<15, 164>>, 2, d, reg, "shld", 16, AsRmRImm8)
  <2>1. 164 \in Byte BY DEF Byte
  <2>2. Table0F(164) = Row("shld", "w", AsRmRImm8) BY Table0FIs DEF AsRmRImm8
  <2>3. "shld" \notin Widthless BY NamesAre
  <2>4. PICK b, op : b = 164 /\ op = "shld" OBVIOUS
  <2>5. b \in {183, 191} => w = 32 BY <1>4, <2>4
  <2>6. b \in Byte /\ op \notin Widthless /\ Table0F(b) = Row(op, "w", AsRmRImm8) BY <2>1, <2>2, <2>3, <2>4
  <2>7. Opcode(<<15, b>>, 2, d, reg, op, 16, AsRmRImm8) BY <2>5, <2>6, LayoutsAre, Row0FSays
  <2>8. QED BY <2>4, <2>7
<1>5. ASSUME NEW reg \in 0..7
      PROVE  Opcode(<<15, 172>>, 2, d, reg, "shrd", 16, AsRmRImm8)
  <2>1. 172 \in Byte BY DEF Byte
  <2>2. Table0F(172) = Row("shrd", "w", AsRmRImm8) BY ZenonT(60), Table0FIs DEF AsRmRImm8
  <2>3. "shrd" \notin Widthless BY NamesAre
  <2>4. PICK b, op : b = 172 /\ op = "shrd" OBVIOUS
  <2>5. b \in {183, 191} => w = 32 BY <1>5, <2>4
  <2>6. b \in Byte /\ op \notin Widthless /\ Table0F(b) = Row(op, "w", AsRmRImm8) BY <2>1, <2>2, <2>3, <2>4
  <2>7. Opcode(<<15, b>>, 2, d, reg, op, 16, AsRmRImm8) BY <2>5, <2>6, LayoutsAre, Row0FSays
  <2>8. QED BY <2>4, <2>7
<1>6. QED BY <1>1, <1>2, <1>3, <1>4, <1>5

\* Instructions with one operand.
LEMMA OneOperandOpcodes ==
  ASSUME NEW w \in Sizes, NEW d, d.size = w
  PROVE  /\ PlainOpcode(241, d, "int", 0, AsOne)
         /\ PlainOpcode(204, d, "int", 0, AsThree)
         /\ PlainOpcode(205, d, "int", 0, AsImm8)
         /\ PlainOpcode(212, d, "aam", 0, AsImm8)
         /\ PlainOpcode(213, d, "aad", 0, AsImm8)
         /\ PlainOpcode(104, d, "push", 16, AsImm)
         /\ PlainOpcode(152, d, "cbw", w, AsNone)
<1>1. PlainOpcode(241, d, "int", 0, AsOne)
  <2>1. Free(241) BY FreeOpcodes
  <2>2. Table(241) = Row("int", "none", AsOne) BY MathRowsAre DEF AsOne
  <2>3. "int" \notin Widthless BY NamesAre
  <2>4. PICK b, op : b = 241 /\ op = "int" OBVIOUS
  <2>5. QED BY <2>1, <2>2, <2>3, <2>4, LayoutsAre, PlainSays
<1>2. PlainOpcode(204, d, "int", 0, AsThree)
  <2>1. Free(204) BY FreeOpcodes
  <2>2. Table(204) = Row("int", "none", AsThree) BY EnterRowsAre DEF AsThree
  <2>3. "int" \notin Widthless BY NamesAre
  <2>4. PICK b, op : b = 204 /\ op = "int" OBVIOUS
  <2>5. QED BY <2>1, <2>2, <2>3, <2>4, LayoutsAre, PlainSays
<1>3. PlainOpcode(205, d, "int", 0, AsImm8)
  <2>1. Free(205) BY FreeOpcodes
  <2>2. Table(205) = Row("int", "none", AsImm8) BY EnterRowsAre DEF AsImm8
  <2>3. "int" \notin Widthless BY NamesAre
  <2>4. PICK b, op : b = 205 /\ op = "int" OBVIOUS
  <2>5. QED BY <2>1, <2>2, <2>3, <2>4, LayoutsAre, PlainSays
<1>4. PlainOpcode(212, d, "aam", 0, AsImm8)
  <2>1. Free(212) BY FreeOpcodes
  <2>2. Table(212) = Row("aam", "none", AsImm8) BY ShiftRowsAre DEF AsImm8
  <2>3. "aam" \notin Widthless BY NamesAre
  <2>4. PICK b, op : b = 212 /\ op = "aam" OBVIOUS
  <2>5. QED BY <2>1, <2>2, <2>3, <2>4, LayoutsAre, PlainSays
<1>5. PlainOpcode(213, d, "aad", 0, AsImm8)
  <2>1. Free(213) BY FreeOpcodes
  <2>2. Table(213) = Row("aad", "none", AsImm8) BY ShiftRowsAre DEF AsImm8
  <2>3. "aad" \notin Widthless BY NamesAre
  <2>4. PICK b, op : b = 213 /\ op = "aad" OBVIOUS
  <2>5. QED BY <2>1, <2>2, <2>3, <2>4, LayoutsAre, PlainSays
<1>6. PlainOpcode(104, d, "push", 16, AsImm)
  <2>1. Free(104) BY FreeOpcodes
  <2>2. Table(104) = Row("push", "w", AsImm) BY ImmediateRowsAre DEF AsImm
  <2>3. "push" \notin Widthless BY NamesAre
  <2>4. PICK b, op : b = 104 /\ op = "push" OBVIOUS
  <2>5. QED BY <2>1, <2>2, <2>3, <2>4, LayoutsAre, PlainSays
<1>7. PlainOpcode(152, d, "cbw", w, AsNone)
  <2>1. Free(152) BY FreeOpcodes
  <2>2. Table(152) = Row("cbw", "v", AsNone) BY ConvertRowsAre DEF AsNone
  <2>3. "cbw" \notin Widthless BY NamesAre
  <2>4. PICK b, op : b = 152 /\ op = "cbw" OBVIOUS
  <2>5. QED BY <2>1, <2>2, <2>3, <2>4, LayoutsAre, PlainSays
<1>8. QED BY <1>1, <1>2, <1>3, <1>4, <1>5, <1>6, <1>7

\* Of a register with another number than the accumulator.
LEMMA ExchangeRegister ==
  ASSUME NEW w \in Sizes, NEW d, d.size = w, NEW r \in 0..7, r # 0
  PROVE  PlainOpcode(144 + r, d, "xchg", w, AsAccReg)
<1>1. Free(144 + r) BY FreeOpcodes
<1>2. Table(144 + r) = Row("xchg", "v", AsAccReg) BY RegisterTable DEF AsAccReg
<1>3. "xchg" \notin Widthless BY NamesAre
<1>4. PICK b, op : b = 144 + r /\ op = "xchg" OBVIOUS
<1>5. QED BY <1>1, <1>2, <1>3, <1>4, LayoutsAre, PlainSays

\* INC and DEC of a byte and a word.
LEMMA IncDecOpcodes ==
  ASSUME NEW n \in {0, 1}, NEW op, op = IF n = 0 THEN "inc" ELSE "dec", NEW d, d.size = 16
  PROVE  Opcode(<<254>>, 1, d, n, op, 8, AsRm) /\ Opcode(<<255>>, 1, d, n, op, 16, AsRm)
<1>1. op \notin Widthless BY NamesAre
<1>2. op = IncDec[n + 1] /\ op = IncDecCall[n + 1] BY DEF IncDec, IncDecCall
<1>3. Free(254) BY FreeOpcodes
<1>4. 255 \in OneByteOpcodes /\ 255 \notin PrefixBytes
  BY DEF OneByteOpcodes, PrefixBytes, SegmentBytes, Byte
<1>5. Table(254) = Group(IncDec, "b", AsRm) /\ Table(255) = Group(IncDecCall, "v", AsRm) BY FlagRowsAre DEF AsRm
<1>6. PICK b, last, small, large : b = 254 /\ last = 255 /\ small = IncDec /\ large = IncDecCall OBVIOUS
<1>7. 16 \in Sizes /\ n \in 0..7 BY DEF Sizes
<1>8. WidthOf("v", d) = 16 BY <1>7, WidthsAre
<1>9. Opcode(<<b>>, 1, d, n, op, 8, AsRm)
  <2>1. b \in OneByteOpcodes /\ b \notin PrefixBytes /\ b # 255 BY <1>3, <1>6 DEF Free
  <2>2. Opcode(<<b>>, 1, d, n, op, WidthOf("b", d), AsRm)
    <3>1. Table(b) = Group(small, "b", AsRm) /\ op = small[n + 1] BY <1>2, <1>5, <1>6
    <3>2. b = 255 => d.size = 16 BY <2>1
    <3>3. n \in 0..7 /\ "b" \in Letters /\ AsRm \in RmLayouts BY <1>7, LettersAre, LayoutsAre
    <3>4. QED BY <1>1, <2>1, <3>1, <3>2, <3>3, GroupOpcode
  <2>3. WidthOf("b", d) = 8 BY <1>7, WidthsAre
  <2>4. QED BY <2>2, <2>3
<1>10. Opcode(<<last>>, 1, d, n, op, WidthOf("v", d), AsRm)
  BY <1>1, <1>2, <1>4, <1>5, <1>6, <1>7, LayoutsAre, LettersAre, GroupOpcode
<1>11. QED BY <1>6, <1>8, <1>9, <1>10

-----------------------------------------------------------------------------
(* The families of instructions. *)

\* The width of operands under the prefixes for an operation.
SizeOf(w) == IF w = 32 THEN 32 ELSE 16

\* What the kinds of the operands tell of their shape.
LEMMA OperandKinds ==
  ASSUME NEW i, NEW c, From(i, c), NEW w \in Widths, w = i.w,
         RmR(i, c) \/ RRm(i, c) \/ RmNumber(i, c) \/ RmSmall(i, c)
  PROVE  /\ IsReg(i.dst, w) /\ IsImmOf(i.src, w) => RmNumber(i, c) /\ IsGeneral(w, i.dst)
         /\ IsReg(i.dst, w) /\ IsPtr(i.src) => RRm(i, c) /\ w # 32
<1>1. c \in Contexts BY DEF From
<1>2. ASSUME IsRm(w, c, i.src)
      PROVE  i.src.kind \in {"reg", "ptr"} /\ (i.src.kind = "ptr" => i.src.w = w)
  BY <1>1, <1>2, RmKinds, GeneralFacts
<1>3. ASSUME IsRm(w, c, i.dst), i.dst.kind = "reg"
      PROVE  IsGeneral(w, i.dst)
  BY <1>1, <1>3, RmKinds
<1>4. RmR(i, c) => IsRm(w, c, i.dst) /\ i.src.kind = "reg" BY GeneralFacts DEF RmR
<1>5. RRm(i, c) => IsGeneral(w, i.dst) /\ IsRm(w, c, i.src) BY DEF RRm
<1>6. RmNumber(i, c) => IsRm(w, c, i.dst) /\ i.src.kind = "imm" BY DEF RmNumber, Imm
<1>7. RmSmall(i, c) => i.src.kind = "imms8" BY DEF RmSmall
<1>8. IsReg(i.dst, w) /\ IsImmOf(i.src, w) => RmNumber(i, c) /\ IsGeneral(w, i.dst)
  BY <1>2, <1>3, <1>4, <1>5, <1>6, <1>7 DEF IsReg, IsImmOf
<1>9. IsReg(i.dst, w) /\ IsPtr(i.src) => RRm(i, c) /\ w # 32
  BY <1>2, <1>4, <1>5, <1>6, <1>7 DEF IsPtr
<1>10. QED BY <1>8, <1>9

LEMMA RegisterKinds ==
  ASSUME NEW i, NEW c, From(i, c), NEW w \in Widths, w = i.w,
         RmR(i, c) \/ RRm(i, c) \/ RmNumber(i, c) \/ RmSmall(i, c), i.src.kind = "reg"
  PROVE  RmR(i, c)
<1>1. c \in Contexts BY DEF From
<1>2. RmNumber(i, c) => i.src.kind = "imm" BY DEF RmNumber, Imm
<1>3. RmSmall(i, c) => i.src.kind = "imms8" BY DEF RmSmall
<1>4. ASSUME RRm(i, c)
      PROVE  RmR(i, c)
  <2>1. IsGeneral(w, i.dst) /\ IsRm(w, c, i.src) /\ i.src2 = None BY <1>4 DEF RRm
  <2>2. IsRm(w, c, i.dst) BY <2>1, GeneralIsRm
  <2>3. IsGeneral(w, i.src) BY <1>1, <2>1, RmKinds
  <2>4. QED BY <2>1, <2>2, <2>3 DEF RmR
<1>5. QED BY <1>2, <1>3, <1>4

\* The opcodes of an arithmetic operation of the width w.
LEMMA ArithForms ==
  ASSUME NEW op \in ArithOps, NEW w \in Widths, NEW d, d.size = SizeOf(w), NEW n, n = Number(Arith, op),
         NEW first, first = 8 * n + (IF w = 8 THEN 0 ELSE 1), NEW group, group = IF w = 8 THEN 128 ELSE 129
  PROVE  /\ n \in 0..7 /\ first \in Byte /\ first + 2 \in Byte /\ first + 4 \in Byte /\ group \in Byte
         /\ \A reg \in 0..7 : Opcode(<<first>>, 1, d, reg, op, w, AsRmR)
         /\ w # 32 => \A reg \in 0..7 : Opcode(<<first + 2>>, 1, d, reg, op, w, AsRRm)
         /\ PlainOpcode(first + 4, d, op, w, AsAccImm) /\ Opcode(<<group>>, 1, d, n, op, w, AsRmImm)
<1>1. n \in 0..7 /\ op = Arith[n + 1] /\ op \notin Widthless BY ArithNumber
<1>2. PICK size \in Sizes : d.size = size /\ size = SizeOf(w) BY DEF SizeOf, Sizes
<1>3. PICK base : base = 8 * n OBVIOUS
<1>4. /\ base \in Byte /\ base + 1 \in Byte /\ base + 2 \in Byte /\ base + 3 \in Byte
      /\ base + 4 \in Byte /\ base + 5 \in Byte
      /\ \A reg \in 0..7 : /\ Opcode(<<base>>, 1, d, reg, op, 8, AsRmR)
                           /\ Opcode(<<base + 1>>, 1, d, reg, op, size, AsRmR)
                           /\ Opcode(<<base + 2>>, 1, d, reg, op, 8, AsRRm)
                           /\ size = 16 => Opcode(<<base + 3>>, 1, d, reg, op, size, AsRRm)
      /\ PlainOpcode(base + 4, d, op, 8, AsAccImm) /\ PlainOpcode(base + 5, d, op, size, AsAccImm)
      /\ Opcode(<<128>>, 1, d, n, op, 8, AsRmImm) /\ Opcode(<<129>>, 1, d, n, op, size, AsRmImm)
  <2>1. Nth(Arith, n, op) /\ Sized(d, size) /\ Times8(n, base) BY <1>1, <1>2, <1>3 DEF Nth, Sized, Times8
  <2>2. QED BY <2>1, ArithOpcodes
<1>5. 128 \in Byte /\ 129 \in Byte /\ base \in Int BY <1>4 DEF Byte
<1>6. CASE w = 8
  <2>1. first = base /\ group = 128 BY <1>3, <1>5, <1>6
  <2>2. QED BY ZenonT(60), <1>1, <1>4, <1>5, <1>6, <2>1
<1>7. CASE w # 8
  <2>1. first = base + 1 /\ group = 129 BY <1>3, <1>7
  <2>2. first + 2 = base + 3 /\ first + 4 = base + 5 BY <1>5, <2>1
  <2>3. size = w BY <1>2, <1>7 DEF SizeOf, Widths
  <2>4. w # 32 => size = 16 BY <1>2 DEF SizeOf
  <2>5. QED BY <1>1, <1>4, <1>5, <2>1, <2>2, <2>3, <2>4
<1>8. QED BY <1>6, <1>7

\* ADD, OR, ADC, SBB, AND, SUB, XOR and CMP.
LEMMA ArithAgain ==
  ASSUME NEW i, NEW c, From(i, c), NEW w \in Widths, w = i.w, i.op \in ArithOps,
         RmR(i, c) \/ RRm(i, c) \/ RmNumber(i, c) \/ RmSmall(i, c)
  PROVE  Again(i, w, EncodeArith(i, w))
<1>1. PICK r : r = EncodeArith(i, w) OBVIOUS
<1>2. PICK d : d = Written(i, w) OBVIOUS
<1>3. Setting(i, c, d) /\ d.size = SizeOf(w) BY <1>2, WrittenSays DEF SizeOf
<1>4. PICK n, op : n = Number(Arith, i.op) /\ op = i.op OBVIOUS
<1>5. PICK first, group : first = 8 * n + (IF w = 8 THEN 0 ELSE 1) /\ group = IF w = 8 THEN 128 ELSE 129 OBVIOUS
<1>6. /\ n \in 0..7 /\ first \in Byte /\ first + 2 \in Byte /\ first + 4 \in Byte /\ group \in Byte
      /\ \A reg \in 0..7 : Opcode(<<first>>, 1, d, reg, op, w, AsRmR)
      /\ w # 32 => \A reg \in 0..7 : Opcode(<<first + 2>>, 1, d, reg, op, w, AsRRm)
      /\ PlainOpcode(first + 4, d, op, w, AsAccImm) /\ Opcode(<<group>>, 1, d, n, op, w, AsRmImm)
  BY <1>3, <1>4, <1>5, ArithForms
<1>7. r = IF IsReg(i.dst, w) /\ IsImmOf(i.src, w)
          THEN Emit((IF Index(i.dst.r) = 0 THEN <<first + 4>>
                     ELSE <<group, ModRegRm(3, n, Index(i.dst.r))>>) \o BytesOf(w, i.src.v))
          ELSE IF IsReg(i.dst, w) /\ IsPtr(i.src) THEN Before(<<first + 2>>, EncodeRRm(i))
          ELSE IF IsReg(i.dst, w) \/ IsPtrOf(i.dst, w) THEN Before(<<first>>, EncodeRmR(i))
          ELSE Error
  BY <1>1, <1>4, <1>5 DEF EncodeArith
<1>8. CASE IsReg(i.dst, w) /\ IsImmOf(i.src, w)
  <2>1. RmNumber(i, c) /\ IsGeneral(w, i.dst) BY <1>8, OperandKinds
  <2>2. PICK x : OfWidth(w, x) /\ i.src = Imm(w, x) /\ i.src2 = None BY <2>1 DEF RmNumber
  <2>3. i.src.v = x BY <2>2 DEF Imm
  <2>4. CASE Index(i.dst.r) = 0
    <3>1. PICK b \in Byte : b = first + 4 BY <1>6
    <3>2. r = Emit(<<b>> \o BytesOf(w, x)) BY <1>7, <1>8, <2>3, <2>4, <3>1
    <3>3. PlainOpcode(b, d, i.op, w, AsAccImm) BY <1>4, <1>6, <3>1
    <3>4. Rereads(d, <<b>> \o BytesOf(w, x), i.op, i.w, i.dst, i.src, i.src2)
      BY <1>3, <2>1, <2>2, <2>4, <3>3, PlainNumberWritten
    <3>5. QED BY <1>1, <1>2, <3>2, <3>4, AgainEmitted
  <2>5. CASE Index(i.dst.r) # 0
    <3>1. r = Emit(<<group, ModRegRm(3, n, Index(i.dst.r))>> \o BytesOf(w, x)) BY <1>7, <1>8, <2>3, <2>5
    <3>2. Opcode(<<group>>, 1, d, n, i.op, w, AsRmImm) BY <1>4, <1>6
    <3>3. Rereads(d, <<group, ModRegRm(3, n, Index(i.dst.r))>> \o BytesOf(w, x), i.op, i.w, i.dst, i.src, i.src2)
      BY <1>3, <1>6, <2>1, <2>2, <3>2, NumberWritten DEF NumberLayout
    <3>4. QED BY <1>1, <1>2, <3>1, <3>3, AgainEmitted
  <2>6. QED BY <2>4, <2>5
<1>9. CASE ~(IsReg(i.dst, w) /\ IsImmOf(i.src, w)) /\ IsReg(i.dst, w) /\ IsPtr(i.src)
  <2>1. RRm(i, c) /\ w # 32 BY <1>9, OperandKinds
  <2>2. r = Before(<<first + 2>>, EncodeRRm(i)) BY <1>7, <1>9
  <2>3. \A reg \in 0..7 : Opcode(<<first + 2>>, 1, d, reg, i.op, w, AsRRm) BY <1>4, <1>6, <2>1
  <2>4. PICK code : code = <<first + 2>> OBVIOUS
  <2>5. r.out = "bytes" => Puts(r, code, EncodeRRm(i)) BY <2>2, <2>4 DEF Puts
  <2>6. r.out = "bytes" => \E body : r = Emit(body) /\ Rereads(d, body, i.op, i.w, i.dst, i.src, i.src2)
    BY <1>3, <2>1, <2>3, <2>4, <2>5, RRmWritten
  <2>7. QED BY <1>1, <1>2, <2>6, AgainItself
<1>10. CASE ~(IsReg(i.dst, w) /\ IsImmOf(i.src, w)) /\ ~(IsReg(i.dst, w) /\ IsPtr(i.src))
            /\ (IsReg(i.dst, w) \/ IsPtrOf(i.dst, w))
  <2>1. r = Before(<<first>>, EncodeRmR(i)) BY <1>7, <1>10
  <2>2. r.out = "bytes" => Puts(r, <<first>>, EncodeRmR(i)) BY <2>1 DEF Puts
  <2>3. r.out = "bytes" => i.src.kind = "reg" BY <2>1 DEF Before, EncodeRmR, Panic
  <2>4. r.out = "bytes" => RmR(i, c) BY <2>3, RegisterKinds
  <2>5. PICK code : code = <<first>> OBVIOUS
  <2>6. \A reg \in 0..7 : Opcode(code, 1, d, reg, i.op, w, AsRmR) BY <1>4, <1>6, <2>5
  <2>7. r.out = "bytes" => \E body : r = Emit(body) /\ Rereads(d, body, i.op, i.w, i.dst, i.src, i.src2)
    BY <1>3, <2>2, <2>4, <2>5, <2>6, RmRWritten
  <2>8. QED BY <1>1, <1>2, <2>7, AgainItself
<1>11. CASE ~IsReg(i.dst, w) /\ ~IsPtrOf(i.dst, w)
  <2>1. r.out = "error" BY <1>7, <1>11 DEF Error
  <2>2. QED BY <1>1, <2>1 DEF Again
<1>12. QED BY <1>8, <1>9, <1>10, <1>11

\* Something that was written and is read as i again.
LEMMA AgainPut ==
  ASSUME NEW i, NEW w, NEW r, NEW d, d = Written(i, w), NEW code, NEW e, r = Before(code, e),
         Puts(r, code, e) => \E body : r = Emit(body) /\ Rereads(d, body, i.op, i.w, i.dst, i.src, i.src2)
  PROVE  Again(i, w, r)
<1>1. r.out = "bytes" => Puts(r, code, e) BY DEF Puts
<1>2. QED BY <1>1, AgainItself

\* A result that is not of bytes.
LEMMA AgainNot ==
  ASSUME NEW i, NEW w, NEW r, r = Error \/ r = Panic
  PROVE  Again(i, w, r)
<1>1. r.out # "bytes" BY DEF Error, Panic
<1>2. QED BY <1>1 DEF Again

\* The opcode of a register and a register-or-memory operand.
LEMMA RmRAgain ==
  ASSUME NEW i, NEW c, From(i, c), NEW w \in Widths, w = i.w, NEW x, NEW d, d = Written(i, x),
         RmR(i, c) \/ RRm(i, c) \/ RmNumber(i, c) \/ RmSmall(i, c), NEW code, NEW u,
         \A reg \in 0..7 : Opcode(code, u, d, reg, i.op, w, AsRmR)
  PROVE  Again(i, x, Before(code, EncodeRmR(i)))
<1>1. PICK r, e : r = Before(code, e) /\ e = EncodeRmR(i) OBVIOUS
<1>2. Puts(r, code, e) => i.src.kind = "reg" BY <1>1 DEF Puts, Before, EncodeRmR, Panic
<1>3. Puts(r, code, e) => RmR(i, c) BY <1>2, RegisterKinds
<1>4. Setting(i, c, d) BY WrittenSays
<1>5. Puts(r, code, e) => \E body : r = Emit(body) /\ Rereads(d, body, i.op, i.w, i.dst, i.src, i.src2)
  BY <1>1, <1>3, <1>4, RmRWritten
<1>6. QED BY <1>1, <1>5, AgainPut

\* Likewise.
LEMMA RRmAgain ==
  ASSUME NEW i, NEW c, From(i, c), NEW w \in Widths, w = i.w, NEW x, NEW d, d = Written(i, x),
         RRm(i, c), NEW code, NEW u,
         \A reg \in 0..7 : Opcode(code, u, d, reg, i.op, w, AsRRm)
  PROVE  Again(i, x, Before(code, EncodeRRm(i)))
<1>1. PICK r, e : r = Before(code, e) /\ e = EncodeRRm(i) OBVIOUS
<1>2. Setting(i, c, d) BY WrittenSays
<1>3. Puts(r, code, e) => \E body : r = Emit(body) /\ Rereads(d, body, i.op, i.w, i.dst, i.src, i.src2)
  BY <1>1, <1>2, RRmWritten
<1>4. QED BY <1>1, <1>3, AgainPut

\* A memory operand that is an address alone.
LEMMA DirectIs ==
  ASSUME NEW w \in Widths, NEW c, NEW o, IsRm(w, c, o), o.kind = "ptr", o.mode = "direct"
  PROVE  \E p : OfWidth(16, p) /\ o = Ptr(w, c.seg, "direct", "none", p)
<1>1. PICK f \in Following : o = Rm(w, c, f) BY DEF IsRm
<1>2. PICK p : p = U16(f, 1) OBVIOUS
<1>3. f[1] \in Byte /\ f[1 + 1] \in Byte BY DEF Following
<1>4. OfWidth(16, p) BY <1>2, <1>3 DEF OfWidth, U16
<1>5. Md(f) \in 0..3 /\ RmField(f) \in 0..7 BY FieldRanges
<1>6. CASE Md(f) = 0 /\ RmField(f) = 6
  <2>1. o = Ptr(w, c.seg, "direct", "none", p) BY <1>1, <1>2, <1>6 DEF Rm
  <2>2. QED BY <1>4, <2>1
<1>7. CASE ~(Md(f) = 0 /\ RmField(f) = 6)
  <2>1. o.kind = "reg" \/ o.mode \in {"s16", "s8", "amode"} BY <1>1, <1>5, <1>7 DEF Rm, Ptr, Reg
  <2>2. QED BY <2>1
<1>8. QED BY <1>6, <1>7

\* AL and an address alone.
LEMMA OffsetWritten ==
  ASSUME NEW i, NEW c, From(i, c), NEW d, Setting(i, c, d), d.seg = i.seg, NEW a, NEW o, IsGeneral(8, a), Index(a.r) = 0,
         IsRm(8, c, o), o.kind = "ptr", o.mode = "direct", NEW b \in Byte, NEW op,
         NEW dst, NEW src,
         \/ dst = a /\ src = o /\ PlainOpcode(b, d, op, 8, AsAccOffset)
         \/ dst = o /\ src = a /\ PlainOpcode(b, d, op, 8, AsOffsetAcc)
  PROVE  Rereads(d, <<b>> \o Bytes16(o.v), op, 8, dst, src, None)
<1>1. 8 \in Widths BY DEF Widths
<1>2. PICK w \in Widths : w = 8 BY <1>1
<1>3. PICK p : OfWidth(16, p) /\ o = Ptr(w, c.seg, "direct", "none", p) BY <1>2, DirectIs
<1>4. o.v = p /\ c.seg = d.seg BY <1>3 DEF Ptr, From
<1>5. a = Reg(w, GeneralNames(w)[1]) BY <1>2, AccumulatorIs
<1>6. PICK imm : imm = Bytes16(p) OBVIOUS
<1>7. IsBytes(imm, 2)
  <2>1. PICK x, y : x \in Byte /\ y \in Byte /\ p = x + 256 * y BY <1>3 DEF OfWidth
  <2>2. imm = <<x, y>> BY <1>6, <2>1, TwoBytes
  <2>3. QED BY <2>1, <2>2 DEF IsBytes
<1>8. 2 \in 0..4 OBVIOUS
<1>9. CASE dst = a /\ src = o /\ PlainOpcode(b, d, op, 8, AsAccOffset)
  <2>1. PlainLays(AsAccOffset, w, d, b, imm, 2, dst, src) BY <1>3, <1>4, <1>5, <1>6, <1>9, LaysAccOffset
  <2>2. QED BY <1>2, <1>4, <1>6, <1>7, <1>8, <1>9, <2>1, PlainAnd
<1>10. CASE dst = o /\ src = a /\ PlainOpcode(b, d, op, 8, AsOffsetAcc)
  <2>1. PlainLays(AsOffsetAcc, w, d, b, imm, 2, dst, src) BY <1>3, <1>4, <1>5, <1>6, <1>10, LaysOffsetAcc
  <2>2. QED BY <1>2, <1>4, <1>6, <1>7, <1>8, <1>10, <2>1, PlainAnd
<1>11. QED BY <1>9, <1>10

\* MOV of bytes.
LEMMA Mov8Again ==
  ASSUME NEW i, NEW c, From(i, c), NEW w, w = 8, w = i.w, i.op = "mov",
         RmR(i, c) \/ RRm(i, c) \/ RmNumber(i, c) \/ RmSmall(i, c)
  PROVE  Again(i, w, EncodeMov8(i))
<1> DEFINE direct(o) == IsPtrOf(o, 8) /\ o.mode = "direct"
           al(o) == IsReg(o, 8) /\ Index(o.r) = 0
<1>0. w \in Widths BY DEF Widths
<1>1. PICK r : r = EncodeMov8(i) OBVIOUS
<1>2. PICK d : d = Written(i, w) OBVIOUS
<1>3. Setting(i, c, d) /\ d.size = 16 /\ d.seg = i.seg BY <1>2, WrittenSays
<1>4. PICK op : op = i.op OBVIOUS
<1>5. PICK size \in Sizes : d.size = size BY <1>3 DEF Sizes
<1>6. /\ \A reg \in 0..7 : Opcode(<<136>>, 1, d, reg, op, w, AsRmR)
      /\ \A reg \in 0..7 : Opcode(<<138>>, 1, d, reg, op, w, AsRRm)
      /\ PlainOpcode(160, d, op, w, AsAccOffset) /\ PlainOpcode(162, d, op, w, AsOffsetAcc)
  BY <1>4, <1>5, MoveOpcodes
<1>7. r = IF al(i.dst) /\ direct(i.src) THEN Emit(<<160>> \o Bytes16(i.src.v))
          ELSE IF IsReg(i.dst, w) /\ IsByteImm(i.src) THEN Emit(<<176 + Index(i.dst.r), i.src.v>>)
          ELSE IF IsReg(i.dst, w) /\ IsPtr(i.src) THEN Before(<<138>>, EncodeRRm(i))
          ELSE IF direct(i.dst) /\ al(i.src) THEN Emit(<<162>> \o Bytes16(i.dst.v))
          ELSE IF IsReg(i.dst, w) \/ IsPtrOf(i.dst, w) THEN Before(<<136>>, EncodeRmR(i))
          ELSE Error
  BY <1>1 DEF EncodeMov8
<1>8. CASE al(i.dst) /\ direct(i.src)
  <2>1. RRm(i, c) BY <1>0, <1>8, OperandKinds DEF IsPtr, IsPtrOf
  <2>2. IsGeneral(w, i.dst) /\ IsRm(w, c, i.src) /\ i.src2 = None BY <2>1 DEF RRm
  <2>3. i.src.kind = "ptr" /\ i.src.mode = "direct" /\ Index(i.dst.r) = 0 BY <1>8 DEF IsPtrOf
  <2>4. PICK a, o, b : a = i.dst /\ o = i.src /\ b = 160 OBVIOUS
  <2>5. b \in Byte BY <2>4 DEF Byte
  <2>6. r = Emit(<<b>> \o Bytes16(o.v)) BY <1>7, <1>8, <2>4
  <2>7. Rereads(d, <<b>> \o Bytes16(o.v), op, 8, a, o, None) BY <1>3, <1>6, <2>2, <2>3, <2>4, <2>5, OffsetWritten
  <2>8. QED BY <1>1, <1>2, <1>4, <2>2, <2>4, <2>6, <2>7, AgainEmitted
<1>9. CASE ~(al(i.dst) /\ direct(i.src)) /\ IsReg(i.dst, w) /\ IsByteImm(i.src)
  <2>1. RmNumber(i, c) /\ IsGeneral(w, i.dst)
    <3>1. IsImmOf(i.src, w) BY <1>9 DEF IsByteImm, IsImmOf
    <3>2. QED BY <1>0, <1>9, <3>1, OperandKinds
  <2>2. PICK x : OfWidth(w, x) /\ i.src = Imm(w, x) /\ i.src2 = None BY <2>1 DEF RmNumber
  <2>3. PICK n \in 0..7 : n = Index(i.dst.r) BY <1>0, <2>1, GeneralFacts
  <2>4. PICK b \in Byte : b = 176 + n /\ b % 8 = n
    <3>1. 176 + n \in Byte /\ (176 + n) % 8 = n BY DEF Byte
    <3>2. QED BY <3>1
  <2>5. r = Emit(<<b, x>>)
    <3>1. i.src.v = x BY <2>2 DEF Imm
    <3>2. QED BY <1>7, <1>9, <2>3, <2>4, <3>1
  <2>6. <<b, x>> = <<b>> \o BytesOf(w, x)
    <3>1. x \in Byte /\ BytesOf(w, x) = <<x>> BY <2>2 DEF OfWidth, BytesOf
    <3>2. b \in Int /\ x \in Int BY <3>1 DEF Byte
    <3>3. QED BY ZenonT(60), <3>1, <3>2, TwoInOne
  <2>7. PlainOpcode(b, d, i.op, w, AsRegImm) BY <1>4, <1>5, <2>4, RegisterOpcodes
  <2>8. Rereads(d, <<b>> \o BytesOf(w, x), i.op, i.w, i.dst, i.src, i.src2)
    BY ZenonT(60), <1>0, <1>3, <2>1, <2>2, <2>3, <2>4, <2>7, PlainNumberWritten
  <2>9. QED BY <1>1, <1>2, <2>5, <2>6, <2>8, AgainEmitted
<1>10. CASE /\ ~(al(i.dst) /\ direct(i.src)) /\ ~(IsReg(i.dst, w) /\ IsByteImm(i.src))
            /\ IsReg(i.dst, w) /\ IsPtr(i.src)
  <2>1. RRm(i, c) BY <1>0, <1>10, OperandKinds
  <2>2. PICK code : code = <<138>> OBVIOUS
  <2>3. \A reg \in 0..7 : Opcode(code, 1, d, reg, i.op, w, AsRRm) BY <1>4, <1>6, <2>2
  <2>4. Again(i, w, Before(code, EncodeRRm(i))) BY <1>0, <1>2, <2>1, <2>3, RRmAgain
  <2>5. r = Before(code, EncodeRRm(i)) BY <1>7, <1>10, <2>2
  <2>6. QED BY <1>1, <2>4, <2>5
<1>11. CASE /\ ~(al(i.dst) /\ direct(i.src)) /\ ~(IsReg(i.dst, w) /\ IsByteImm(i.src))
            /\ ~(IsReg(i.dst, w) /\ IsPtr(i.src)) /\ direct(i.dst) /\ al(i.src)
  <2>1. RmR(i, c) BY <1>0, <1>11, RegisterKinds DEF IsReg
  <2>2. IsGeneral(w, i.src) /\ IsRm(w, c, i.dst) /\ i.src2 = None BY <2>1 DEF RmR
  <2>3. i.dst.kind = "ptr" /\ i.dst.mode = "direct" /\ Index(i.src.r) = 0 BY <1>11 DEF IsPtrOf
  <2>4. PICK a, o, b : a = i.src /\ o = i.dst /\ b = 162 OBVIOUS
  <2>5. b \in Byte BY <2>4 DEF Byte
  <2>6. r = Emit(<<b>> \o Bytes16(o.v)) BY <1>7, <1>11, <2>4
  <2>7. Rereads(d, <<b>> \o Bytes16(o.v), op, 8, o, a, None) BY <1>3, <1>6, <2>2, <2>3, <2>4, <2>5, OffsetWritten
  <2>8. QED BY <1>1, <1>2, <1>4, <2>2, <2>4, <2>6, <2>7, AgainEmitted
<1>12. CASE /\ ~(al(i.dst) /\ direct(i.src)) /\ ~(IsReg(i.dst, w) /\ IsByteImm(i.src))
            /\ ~(IsReg(i.dst, w) /\ IsPtr(i.src)) /\ ~(direct(i.dst) /\ al(i.src))
  <2>1. PICK code : code = <<136>> OBVIOUS
  <2>2. \A reg \in 0..7 : Opcode(code, 1, d, reg, i.op, w, AsRmR) BY <1>4, <1>6, <2>1
  <2>3. Again(i, w, Before(code, EncodeRmR(i))) BY <1>0, <1>2, <2>2, RmRAgain
  <2>4. r = Before(code, EncodeRmR(i)) \/ r = Error BY <1>7, <1>12, <2>1
  <2>5. QED BY <1>1, <2>3, <2>4, AgainNot
<1>13. QED BY <1>8, <1>9, <1>10, <1>11, <1>12

\* MOV of words and double words.
LEMMA MovAgain ==
  ASSUME NEW i, NEW c, From(i, c), NEW w \in Sizes, w = i.w, i.op = "mov",
         \/ RmR(i, c) \/ RRm(i, c) \/ RmNumber(i, c) \/ RmSmall(i, c)
         \/ i.dst.kind = "sreg" \/ i.src.kind = "sreg"
  PROVE  Again(i, w, EncodeMov(i, w))
<1>0. w \in Widths BY DEF Widths, Sizes
<1>1. PICK r : r = EncodeMov(i, w) OBVIOUS
<1>2. PICK d : d = Written(i, w) OBVIOUS
<1>3. Setting(i, c, d) /\ d.size = w BY <1>2, WrittenSays DEF Sizes
<1>4. PICK op : op = i.op OBVIOUS
<1>5. CASE IsReg(i.dst, w) /\ IsImmOf(i.src, w)
  <2>0. RmR(i, c) \/ RRm(i, c) \/ RmNumber(i, c) \/ RmSmall(i, c) BY <1>5 DEF IsReg, IsImmOf
  <2>1. RmNumber(i, c) /\ IsGeneral(w, i.dst) BY <1>0, <1>5, <2>0, OperandKinds
  <2>2. PICK x : OfWidth(w, x) /\ i.src = Imm(w, x) /\ i.src2 = None BY <2>1 DEF RmNumber
  <2>3. PICK n \in 0..7 : n = Index(i.dst.r) BY <1>0, <2>1, GeneralFacts
  <2>4. PICK b \in Byte : b = 184 + n /\ b % 8 = n
    <3>1. 184 + n \in Byte /\ (184 + n) % 8 = n BY DEF Byte
    <3>2. QED BY <3>1
  <2>5. r = Emit(<<b>> \o BytesOf(w, x))
    <3>1. i.src.v = x BY <2>2 DEF Imm
    <3>2. QED BY <1>1, <1>5, <2>3, <2>4, <3>1 DEF EncodeMov
  <2>6. PlainOpcode(b, d, i.op, w, AsRegImm) BY <1>3, <1>4, <2>4, RegisterOpcodes
  <2>7. Rereads(d, <<b>> \o BytesOf(w, x), i.op, i.w, i.dst, i.src, i.src2)
    BY ZenonT(60), <1>0, <1>3, <2>1, <2>2, <2>3, <2>4, <2>6, PlainNumberWritten
  <2>8. QED BY <1>1, <1>2, <2>5, <2>7, AgainEmitted
<1>6. CASE ~(IsReg(i.dst, w) /\ IsImmOf(i.src, w))
  <2>1. r = Error BY <1>1, <1>6 DEF EncodeMov
  <2>2. QED BY <1>1, <2>1, AgainNot
<1>7. QED BY <1>5, <1>6

\* INC and DEC.
LEMMA IncDecAgain ==
  ASSUME NEW i, NEW c, From(i, c), NEW w \in Widths, w = i.w, i.op \in {"inc", "dec"}, RmOnly(i, c)
  PROVE  Again(i, w, EncodeIncDec(i, w))
<1>1. PICK r : r = EncodeIncDec(i, w) OBVIOUS
<1>2. PICK d : d = Written(i, w) OBVIOUS
<1>3. Setting(i, c, d) /\ d.size = SizeOf(w) BY <1>2, WrittenSays DEF SizeOf
<1>4. PICK op : op = i.op OBVIOUS
<1>5. PICK n \in {0, 1} : n = IF op = "inc" THEN 0 ELSE 1 OBVIOUS
<1>6. op = IF n = 0 THEN "inc" ELSE "dec" BY <1>4, <1>5
<1>7. IsRm(w, c, i.dst) /\ i.src = None /\ i.src2 = None BY DEF RmOnly
<1>8. c \in Contexts BY DEF From
<1>9. CASE IsReg(i.dst, w) /\ w # 8
  <2>1. IsGeneral(w, i.dst) BY <1>7, <1>8, <1>9, RmKinds DEF IsReg
  <2>2. PICK k \in 0..7 : k = Index(i.dst.r) BY <2>1, GeneralFacts
  <2>3. PICK b \in Byte : b = 64 + 8 * n + k /\ b % 8 = k
    <3>1. 64 + 8 * n + k \in Byte /\ (64 + 8 * n + k) % 8 = k
      <4>1. CASE n = 0 BY <4>1 DEF Byte
      <4>2. CASE n = 1 BY <4>2 DEF Byte
      <4>3. QED BY <4>1, <4>2
    <3>2. QED BY <3>1
  <2>4. r = Emit(<<b>>) BY <1>1, <1>4, <1>5, <1>9, <2>2, <2>3 DEF EncodeIncDec
  <2>5. PICK size \in Sizes : d.size = size /\ size = w BY <1>3, <1>9 DEF SizeOf, Sizes, Widths
  <2>6. PlainOpcode(64 + k, d, "inc", w, AsReg) /\ PlainOpcode(72 + k, d, "dec", w, AsReg)
    BY <2>5, RegisterOpcodes
  <2>7. (n = 0 => b = 64 + k) /\ (n = 1 => b = 72 + k) BY <2>3
  <2>8. PlainOpcode(b, d, op, w, AsReg)
    <3>1. CASE n = 0
      <4>1. b = 64 + k /\ op = "inc" BY <1>6, <2>7, <3>1
      <4>2. QED BY <2>6, <4>1
    <3>2. CASE n = 1
      <4>1. b = 72 + k /\ op = "dec" BY <1>6, <2>7, <3>2
      <4>2. QED BY <2>6, <4>1
    <3>3. n = 0 \/ n = 1 OBVIOUS
    <3>4. QED BY <3>1, <3>2, <3>3
  <2>9. i.dst = Reg(w, GeneralNames(w)[(b % 8) + 1])
    <3>1. i.dst = Reg(w, GeneralNames(w)[Index(i.dst.r) + 1]) BY <2>1, GeneralFacts
    <3>2. b % 8 = Index(i.dst.r) BY <2>2, <2>3
    <3>3. QED BY <3>1, <3>2
  <2>10. PlainLays(AsReg, w, d, b, <<>>, 0, i.dst, None) BY <2>9, LaysReg
  <2>11. Rereads(d, <<b>>, op, w, i.dst, None, None) BY <1>3, <2>8, <2>10, PlainAlone
  <2>12. QED BY <1>1, <1>2, <1>4, <1>7, <2>4, <2>11, AgainEmitted
<1>10. CASE ~(IsReg(i.dst, w) /\ w # 8) /\ w = 32
  <2>1. i.dst.kind = "ptr" /\ i.dst.w = 32 BY <1>7, <1>8, <1>10, RmKinds, GeneralFacts DEF IsReg
  <2>2. EncodeRm(i.dst, n) = Panic BY <2>1 DEF EncodeRm
  <2>3. r = Before(<<255>>, EncodeRm(i.dst, n)) BY <1>1, <1>4, <1>5, <1>10 DEF EncodeIncDec
  <2>4. r = Panic BY <2>2, <2>3 DEF Before, Panic
  <2>5. QED BY <1>1, <2>4, AgainNot
<1>11. CASE ~(IsReg(i.dst, w) /\ w # 8) /\ w # 32
  <2>1. PICK code : code = <<IF w = 8 THEN 254 ELSE 255>> OBVIOUS
  <2>2. PICK e, o : e = EncodeRm(o, n) /\ o = i.dst OBVIOUS
  <2>3. r = Before(code, e) BY <1>1, <1>4, <1>5, <1>11, <2>1, <2>2 DEF EncodeIncDec
  <2>4. d.size = 16 BY <1>3, <1>11 DEF SizeOf
  <2>5. Opcode(<<254>>, 1, d, n, op, 8, AsRm) /\ Opcode(<<255>>, 1, d, n, op, 16, AsRm)
    BY <1>6, <2>4, IncDecOpcodes
  <2>6. Opcode(code, 1, d, n, op, w, AsRm)
    <3>1. CASE w = 8
      <4>1. code = <<254>> BY <2>1, <3>1
      <4>2. QED BY <2>5, <3>1, <4>1
    <3>2. CASE w = 16
      <4>1. code = <<255>> BY <2>1, <3>2
      <4>2. QED BY <2>5, <3>2, <4>1
    <3>3. QED BY <1>11, <3>1, <3>2 DEF Widths
  <2>7. n \in 0..7 OBVIOUS
  <2>8. Encodes(w, c, o, n, e) BY <1>7, <2>2, <2>7 DEF Encodes, Encoded
  <2>9. LaysAlone(AsRm, w, d, n, w, o, o, None, None) BY <2>7, LaysRm DEF LaysAlone
  <2>10. Puts(r, code, e) => \E body : r = Emit(body) /\ Rereads(d, body, op, w, o, None, None)
    BY <1>3, <2>6, <2>8, <2>9, Alone
  <2>11. Puts(r, code, e) => \E body : r = Emit(body) /\ Rereads(d, body, i.op, i.w, i.dst, i.src, i.src2)
    BY <1>4, <1>7, <2>2, <2>10
  <2>12. QED BY <1>1, <1>2, <2>3, <2>11, AgainPut
<1>12. QED BY <1>9, <1>10, <1>11

\* MOVZX and MOVSX.
Narrow(i, c, v) ==
  v \in {8, 16} /\ (v = 16 => i.w = 32) /\ IsGeneral(i.w, i.dst) /\ IsRm(v, c, i.src) /\ i.src2 = None

LEMMA ExtendAgain ==
  ASSUME NEW i, NEW c, From(i, c), NEW w \in Sizes, w = i.w, i.op \in {"movzx", "movsx"}, NEW v, Narrow(i, c, v)
  PROVE  Again(i, w, EncodeExtend(i, w))
<1>0. w \in Widths /\ v \in Widths BY DEF Widths, Sizes, Narrow
<1>1. PICK r : r = EncodeExtend(i, w) OBVIOUS
<1>2. PICK d : d = Written(i, w) OBVIOUS
<1>3. Setting(i, c, d) /\ d.size = w BY <1>2, WrittenSays DEF Sizes
<1>4. PICK op : op = i.op OBVIOUS
<1>5. PICK wide \in {0, 1} : wide = IF w = 32 /\ IsReg(i.src, 16) THEN 1 ELSE 0 OBVIOUS
<1>6. PICK b : b = (IF op = "movzx" THEN 182 ELSE 190) + wide OBVIOUS
<1>7. v \in {8, 16} /\ (v = 16 => w = 32) /\ IsGeneral(w, i.dst) /\ IsRm(v, c, i.src) /\ i.src2 = None BY DEF Narrow
<1>8. PICK reg \in 0..7 : reg = Index(i.dst.r) BY <1>0, <1>7, GeneralFacts
<1>9. PICK code, e, o, dst : code = <<15, b>> /\ e = EncodeRm(o, reg) /\ o = i.src /\ dst = i.dst OBVIOUS
<1>10. c \in Contexts BY DEF From
<1>11. CASE IsReg(i.dst, w) /\ (w = 32 => IsReg(i.src, 8) \/ IsReg(i.src, 16))
  <2>1. r = Before(code, e) BY <1>1, <1>4, <1>5, <1>6, <1>8, <1>9, <1>11 DEF EncodeExtend
  <2>2. wide = 1 <=> v = 16
    <3>1. IsReg(i.src, 8) => v = 8 BY <1>0, <1>7, <1>10, RmKinds, GeneralFacts DEF IsReg
    <3>2. IsReg(i.src, 16) => v = 16 BY <1>0, <1>7, <1>10, RmKinds, GeneralFacts DEF IsReg
    <3>3. QED BY <1>5, <1>7, <1>11, <3>1, <3>2
  <2>3. /\ Opcode(<<15, 182>>, 2, d, reg, "movzx", w, AsRRm8) /\ Opcode(<<15, 190>>, 2, d, reg, "movsx", w, AsRRm8)
        /\ w = 32 => /\ Opcode(<<15, 183>>, 2, d, reg, "movzx", w, AsR32Rm16)
                     /\ Opcode(<<15, 191>>, 2, d, reg, "movsx", w, AsR32Rm16)
    BY <1>3, ExtendOpcodes
  <2>4. \E layout : Opcode(code, 2, d, reg, op, w, layout)
                    /\ LaysAlone(layout, w, d, reg, v, o, dst, o, None)
    <3>1. dst = Reg(w, GeneralNames(w)[reg + 1]) BY <1>0, <1>7, <1>8, <1>9, GeneralFacts
    <3>2. CASE v = 8
      <4>1. wide = 0 BY <2>2, <3>2
      <4>2. Opcode(code, 2, d, reg, op, w, AsRRm8)
        <5>1. op = "movzx" \/ op = "movsx" BY <1>4
        <5>2. CASE op = "movzx"
          <6>0. b = 182 BY <1>6, <4>1, <5>2
          <6>1. code = <<15, 182>> BY <1>9, <6>0
          <6>2. QED BY <2>3, <5>2, <6>1
        <5>3. CASE op = "movsx"
          <6>0. b = 190 BY <1>6, <4>1, <5>3
          <6>1. code = <<15, 190>> BY <1>9, <6>0
          <6>2. QED BY <2>3, <5>3, <6>1
        <5>4. QED BY <5>1, <5>2, <5>3
      <4>4. LaysAlone(AsRRm8, w, d, reg, v, o, dst, o, None) BY <3>1, <3>2, LaysRRm8 DEF LaysAlone
      <4>5. QED BY <4>2, <4>4
    <3>3. CASE v = 16
      <4>1. wide = 1 /\ w = 32 BY <1>7, <2>2, <3>3
      <4>2. Opcode(code, 2, d, reg, op, w, AsR32Rm16)
        <5>1. op = "movzx" \/ op = "movsx" BY <1>4
        <5>2. CASE op = "movzx"
          <6>0. b = 183 BY <1>6, <4>1, <5>2
          <6>1. code = <<15, 183>> BY <1>9, <6>0
          <6>2. QED BY <2>3, <4>1, <5>2, <6>1
        <5>3. CASE op = "movsx"
          <6>0. b = 191 BY <1>6, <4>1, <5>3
          <6>1. code = <<15, 191>> BY <1>9, <6>0
          <6>2. QED BY <2>3, <4>1, <5>3, <6>1
        <5>4. QED BY <5>1, <5>2, <5>3
      <4>4. LaysAlone(AsR32Rm16, w, d, reg, v, o, dst, o, None) BY <3>1, <3>3, <4>1, LaysR32Rm16 DEF LaysAlone
      <4>5. QED BY <4>2, <4>4
    <3>4. QED BY <1>7, <3>2, <3>3
  <2>5. Encodes(v, c, o, reg, e) BY <1>0, <1>7, <1>9 DEF Encodes, Encoded
  <2>6. Puts(r, code, e) => \E body : r = Emit(body) /\ Rereads(d, body, op, w, dst, o, None)
    BY <1>3, <2>4, <2>5, Alone
  <2>7. Puts(r, code, e) => \E body : r = Emit(body) /\ Rereads(d, body, i.op, i.w, i.dst, i.src, i.src2)
    BY <1>4, <1>7, <1>9, <2>6
  <2>8. QED BY <1>1, <1>2, <2>1, <2>7, AgainPut
<1>12. CASE ~(IsReg(i.dst, w) /\ (w = 32 => IsReg(i.src, 8) \/ IsReg(i.src, 16)))
  <2>1. r = Error BY <1>1, <1>12 DEF EncodeExtend
  <2>2. QED BY <1>1, <2>1, AgainNot
<1>13. QED BY <1>11, <1>12


\* XCHG.
LEMMA NopMeansTheSame ==
  ASSUME NEW i, i.op = "xchg", i.dst = i.src, i.dst = Reg(16, "ax")
  PROVE  MeansTheSame(i, "nop", 0, None, None, None)
<1>1. Operation(i) = [op |-> "nop", w |-> 0, dst |-> None, src |-> None, src2 |-> None] BY DEF Operation
<1>2. "nop" \notin {Shifts[k] : k \in 1..8} BY DEF Shifts, Invalid
<1>3. ASSUME NEW j, j.op = "nop", j.w = 0, j.dst = None, j.src = None, j.src2 = None
      PROVE  Operation(j) = [op |-> "nop", w |-> 0, dst |-> None, src |-> None, src2 |-> None]
  BY <1>2, <1>3 DEF Operation
<1>4. Short(None) BY DEF Short, None
<1>5. QED BY <1>1, <1>3, <1>4 DEF MeansTheSame

\* The opcode of the exchange of AX and another register.
LEMMA ExchangeWritten ==
  ASSUME NEW i, NEW c, NEW d, Setting(i, c, d), d.size = 16, NEW x, NEW y, IsGeneral(16, x), Index(x.r) = 0,
         IsGeneral(16, y), Index(y.r) # 0, NEW b, b = 144 + Index(y.r)
  PROVE  Rereads(d, <<b>>, "xchg", 16, x, y, None)
<1>0. 16 \in Widths /\ 16 \in Sizes BY DEF Widths, Sizes
<1>1. PICK w \in Widths : w = 16 BY <1>0
<1>2. PICK n \in 0..7 : n = Index(y.r) /\ n # 0 BY <1>1, GeneralFacts
<1>3. b \in Byte /\ b % 8 = n BY <1>2 DEF Byte
<1>4. PlainOpcode(144 + n, d, "xchg", 16, AsAccReg) BY <1>0, <1>2, ExchangeRegister
<1>5. PlainOpcode(b, d, "xchg", w, AsAccReg) BY <1>1, <1>2, <1>4
<1>6. x = Reg(w, GeneralNames(w)[1]) BY <1>1, AccumulatorIs
<1>7. y = Reg(w, GeneralNames(w)[(b % 8) + 1])
  <2>1. y = Reg(w, GeneralNames(w)[Index(y.r) + 1]) BY <1>1, GeneralFacts
  <2>2. b % 8 = Index(y.r) BY <1>2, <1>3
  <2>3. QED BY <2>1, <2>2
<1>8. PlainLays(AsAccReg, w, d, b, <<>>, 0, x, y) BY <1>6, <1>7, LaysAccReg
<1>9. Rereads(d, <<b>>, "xchg", w, x, y, None) BY <1>3, <1>5, <1>8, PlainAlone
<1>10. QED BY <1>1, <1>9

LEMMA XchgAgain ==
  ASSUME NEW i, NEW c, From(i, c), NEW w \in Widths, w = i.w, i.op = "xchg", RmR(i, c)
  PROVE  Again(i, 16, EncodeXchg(i, w))
<1>0. 16 \in Widths /\ 16 \in Sizes BY DEF Widths, Sizes
<1>1. PICK r : r = EncodeXchg(i, w) OBVIOUS
<1>2. PICK d : d = Written(i, 16) OBVIOUS
<1>3. Setting(i, c, d) /\ d.size = 16 BY <1>2, WrittenSays
<1>4. PICK dst, src : dst = i.dst /\ src = i.src OBVIOUS
<1>5. IsRm(w, c, dst) /\ IsGeneral(w, src) /\ i.src2 = None BY <1>4 DEF RmR
<1>6. c \in Contexts BY DEF From
<1>7. src.kind = "reg" /\ src.w = w BY <1>5, GeneralFacts
<1>8. IsReg(dst, 16) => w = 16 /\ IsGeneral(16, dst)
  <2>1. IsGeneral(w, dst) \/ (dst.kind = "ptr" /\ dst.w = w) BY <1>5, <1>6, RmKinds
  <2>2. IsGeneral(w, dst) => dst.w = w BY GeneralFacts
  <2>3. QED BY <2>1, <2>2 DEF IsReg
<1>9. CASE w = 32
  <2>1. r = Error BY <1>1, <1>9 DEF EncodeXchg
  <2>2. QED BY <1>1, <2>1, AgainNot
<1>10. CASE w # 32 /\ IsReg(dst, 16) /\ Index(dst.r) = 0 /\ IsReg(src, 16)
  <2>1. w = 16 /\ IsGeneral(16, dst) /\ IsGeneral(16, src) BY <1>5, <1>8, <1>10
  <2>2. PICK b : b = 144 + Index(src.r) OBVIOUS
  <2>3. r = Emit(<<b>>) BY <1>1, <1>4, <1>10, <2>2 DEF EncodeXchg
  <2>4. CASE Index(src.r) # 0
    <3>1. Rereads(d, <<b>>, "xchg", 16, dst, src, None) BY <1>3, <1>10, <2>1, <2>2, <2>4, ExchangeWritten
    <3>2. Rereads(d, <<b>>, i.op, i.w, i.dst, i.src, i.src2) BY <1>4, <1>5, <2>1, <3>1
    <3>3. QED BY <1>1, <1>2, <2>3, <3>2, AgainEmitted
  <2>5. CASE Index(src.r) = 0
    <3>1. dst = Reg(16, GeneralNames(16)[1]) /\ src = Reg(16, GeneralNames(16)[1])
      BY <1>0, <1>10, <2>1, <2>5, AccumulatorIs
    <3>2. GeneralNames(16)[1] = "ax" BY DEF GeneralNames, R16
    <3>3. i.dst = i.src /\ i.dst = Reg(16, "ax") BY <1>4, <3>1, <3>2
    <3>4. b = 144 BY <2>2, <2>5
    <3>5. PlainOpcode(144, d, "nop", 0, AsNone) BY <1>0, <1>3, ExchangeOpcodes
    <3>6. PlainLays(AsNone, 0, d, b, <<>>, 0, None, None) BY LaysNone
    <3>7. b \in Byte BY <3>4 DEF Byte
    <3>8. Rereads(d, <<b>>, "nop", 0, None, None, None) BY <1>3, <3>4, <3>5, <3>6, <3>7, PlainAlone
    <3>9. MeansTheSame(i, "nop", 0, None, None, None) BY <3>3, NopMeansTheSame
    <3>10. QED BY <1>1, <1>2, <2>3, <3>8, <3>9 DEF Again
  <2>6. QED BY <2>4, <2>5
<1>11. CASE w # 32 /\ ~(IsReg(dst, 16) /\ Index(dst.r) = 0 /\ IsReg(src, 16))
            /\ IsReg(dst, 16) /\ IsReg(src, 16) /\ Index(src.r) = 0
  <2>1. w = 16 /\ IsGeneral(16, dst) /\ IsGeneral(16, src) /\ Index(dst.r) # 0 BY <1>5, <1>8, <1>11
  <2>2. PICK b : b = 144 + Index(dst.r) OBVIOUS
  <2>3. r = Emit(<<b>>) BY <1>1, <1>4, <1>11, <2>2 DEF EncodeXchg
  <2>4. Rereads(d, <<b>>, "xchg", 16, src, dst, None) BY <1>3, <1>11, <2>1, <2>2, ExchangeWritten
  <2>5. MeansTheSame(i, "xchg", 16, src, dst, None) BY <1>4, <2>1, ExchangedMeansTheSame
  <2>6. QED BY <1>1, <1>2, <2>3, <2>4, <2>5 DEF Again
<1>12. CASE w # 32 /\ ~(IsReg(dst, 16) /\ Index(dst.r) = 0 /\ IsReg(src, 16))
            /\ ~(IsReg(dst, 16) /\ IsReg(src, 16) /\ Index(src.r) = 0)
  <2>1. PICK code : code = <<IF w = 8 THEN 134 ELSE 135>> OBVIOUS
  <2>2. r = Before(code, EncodeRmR(i)) BY <1>1, <1>4, <1>12, <2>1 DEF EncodeXchg
  <2>3. \A reg \in 0..7 : Opcode(<<134>>, 1, d, reg, "xchg", 8, AsRmR) /\ Opcode(<<135>>, 1, d, reg, "xchg", 16, AsRmR)
    BY <1>0, <1>3, ExchangeOpcodes
  <2>4. \A reg \in 0..7 : Opcode(code, 1, d, reg, i.op, w, AsRmR)
    <3>1. CASE w = 8
      <4>1. code = <<134>> BY <2>1, <3>1
      <4>2. QED BY <2>3, <3>1, <4>1
    <3>2. CASE w = 16
      <4>1. code = <<135>> BY <2>1, <3>2
      <4>2. QED BY <2>3, <3>2, <4>1
    <3>3. QED BY <1>12, <3>1, <3>2 DEF Widths
  <2>5. QED BY <1>1, <1>2, <2>2, <2>4, RmRAgain
<1>13. QED BY <1>9, <1>10, <1>11, <1>12

\* BSF, LEA and BT of words; SHLD and SHRD with a byte.
Words == {"bsf", "lea", "bt", "shld", "shrd"}
EncodeWord(i) ==
  IF i.op = "bsf" THEN Before(<<15, 188>>, EncodeRRm(i))
  ELSE IF i.op = "bt" THEN Before(<<15, 163>>, EncodeRmR(i))
  ELSE IF i.op = "lea" THEN Before(<<141>>, EncodeRRm(i))
  ELSE IF i.op = "shld" THEN Before(<<15, 164>>, EncodeRmRImm(i))
  ELSE Before(<<15, 172>>, EncodeRmRImm(i))
RmRByte(i, c) ==
  IsRm(i.w, c, i.dst) /\ IsGeneral(i.w, i.src) /\ \E x \in Byte : i.src2 = Imm(8, x)

LEMMA DoubleAgain ==
  ASSUME NEW i, NEW c, From(i, c), i.w = 16, RmRByte(i, c), NEW d, d = Written(i, 16),
         NEW code, NEW u, \A reg \in 0..7 : Opcode(code, u, d, reg, i.op, 16, AsRmRImm8)
  PROVE  Again(i, 16, Before(code, EncodeRmRImm(i)))
<1>0. PICK w \in Widths : w = 16 BY DEF Widths
<1>1. PICK r : r = Before(code, EncodeRmRImm(i)) OBVIOUS
<1>2. Setting(i, c, d) BY WrittenSays
<1>3. PICK dst, src, x : dst = i.dst /\ src = i.src /\ x \in Byte /\ i.src2 = Imm(8, x) BY DEF RmRByte
<1>4. IsRm(w, c, dst) /\ IsGeneral(w, src) BY <1>0, <1>3 DEF RmRByte
<1>5. PICK reg \in 0..7 : reg = Index(src.r) BY <1>4, GeneralFacts
<1>6. src.kind = "reg" /\ src.w = w /\ src = Reg(w, GeneralNames(w)[reg + 1]) BY <1>4, <1>5, GeneralFacts
<1>7. PICK e : e = EncodeRm(dst, reg) OBVIOUS
<1>8. IsByteImm(i.src2) /\ i.src2.v = x BY <1>3 DEF IsByteImm, Imm
<1>9. EncodeRmRImm(i) = After(e, <<x>>)
  <2>1. i.src.kind = "reg" /\ i.src.w # 32 BY <1>0, <1>3, <1>6
  <2>2. EncodeRmRImm(i) = After(EncodeRm(i.dst, Index(i.src.r)), <<i.src2.v>>) BY <1>8, <2>1 DEF EncodeRmRImm
  <2>3. QED BY <1>3, <1>5, <1>7, <1>8, <2>2
<1>10. Encodes(w, c, dst, reg, e) BY <1>4, <1>7 DEF Encodes, Encoded
<1>11. Lays(AsRmRImm8, w, d, reg, w, dst, <<x>>, 1, dst, src, Imm(8, x)) BY <1>3, <1>6, LaysRmRImm8
<1>12. PICK op : op = i.op OBVIOUS
<1>13. Opcode(code, u, d, reg, op, w, AsRmRImm8) BY <1>0, <1>12
<1>14. r = Before(code, After(e, <<x>>)) BY <1>1, <1>9
<1>15. r.out = "bytes" => \E body : r = Emit(body) /\ Rereads(d, body, op, w, dst, src, Imm(8, x))
  BY <1>2, <1>3, <1>10, <1>11, <1>13, <1>14, WithByte
<1>16. r.out = "bytes" => \E body : r = Emit(body) /\ Rereads(d, body, i.op, i.w, i.dst, i.src, i.src2)
  BY <1>0, <1>3, <1>12, <1>15
<1>17. QED BY <1>1, <1>16, AgainItself

LEMMA WordAgain ==
  ASSUME NEW i, NEW c, From(i, c), i.w = 16, i.op \in Words,
         i.op \in {"bsf", "lea"} => RRm(i, c), i.op = "bt" => RmR(i, c), i.op \in {"shld", "shrd"} => RmRByte(i, c)
  PROVE  Again(i, 16, EncodeWord(i))
<1>0. 16 \in Widths /\ 16 \in Sizes BY DEF Widths, Sizes
<1>1. PICK w \in Widths : w = 16 /\ w = i.w BY <1>0
<1>2. PICK d : d = Written(i, 16) OBVIOUS
<1>3. d.size = 16 BY <1>2, WrittenSays
<1>4. /\ \A reg \in 0..7 : Opcode(<<141>>, 1, d, reg, "lea", w, AsRRm)
      /\ \A reg \in 0..7 : Opcode(<<15, 188>>, 2, d, reg, "bsf", w, AsRRm)
      /\ \A reg \in 0..7 : Opcode(<<15, 163>>, 2, d, reg, "bt", w, AsRmR)
      /\ \A reg \in 0..7 : Opcode(<<15, 164>>, 2, d, reg, "shld", 16, AsRmRImm8)
      /\ \A reg \in 0..7 : Opcode(<<15, 172>>, 2, d, reg, "shrd", 16, AsRmRImm8)
  BY <1>0, <1>1, <1>3, WordOpcodes
<1>5. PICK lea, bsf, bt, shld, shrd : /\ lea = <<141>> /\ bsf = <<15, 188>> /\ bt = <<15, 163>>
                                     /\ shld = <<15, 164>> /\ shrd = <<15, 172>>
  OBVIOUS
<1>6. CASE i.op = "lea"
  <2>1. \A reg \in 0..7 : Opcode(lea, 1, d, reg, i.op, w, AsRRm) BY <1>4, <1>5, <1>6
  <2>2. RRm(i, c) BY <1>6
  <2>3. Again(i, 16, Before(lea, EncodeRRm(i))) BY <1>1, <1>2, <2>1, <2>2, RRmAgain
  <2>4. EncodeWord(i) = Before(lea, EncodeRRm(i)) BY <1>5, <1>6 DEF EncodeWord
  <2>5. QED BY <2>3, <2>4
<1>7. CASE i.op = "bsf"
  <2>1. \A reg \in 0..7 : Opcode(bsf, 2, d, reg, i.op, w, AsRRm) BY <1>4, <1>5, <1>7
  <2>2. RRm(i, c) BY <1>7
  <2>3. Again(i, 16, Before(bsf, EncodeRRm(i))) BY <1>1, <1>2, <2>1, <2>2, RRmAgain
  <2>4. EncodeWord(i) = Before(bsf, EncodeRRm(i)) BY <1>5, <1>7 DEF EncodeWord
  <2>5. QED BY <2>3, <2>4
<1>8. CASE i.op = "bt"
  <2>1. \A reg \in 0..7 : Opcode(bt, 2, d, reg, i.op, w, AsRmR) BY <1>4, <1>5, <1>8
  <2>2. RmR(i, c) BY <1>8
  <2>3. Again(i, 16, Before(bt, EncodeRmR(i))) BY <1>1, <1>2, <2>1, <2>2, RmRAgain
  <2>4. EncodeWord(i) = Before(bt, EncodeRmR(i)) BY <1>5, <1>8 DEF EncodeWord
  <2>5. QED BY <2>3, <2>4
<1>9. CASE i.op = "shld"
  <2>1. \A reg \in 0..7 : Opcode(shld, 2, d, reg, i.op, 16, AsRmRImm8) BY <1>4, <1>5, <1>9
  <2>2. RmRByte(i, c) BY <1>9
  <2>3. Again(i, 16, Before(shld, EncodeRmRImm(i))) BY <1>2, <2>1, <2>2, DoubleAgain
  <2>4. EncodeWord(i) = Before(shld, EncodeRmRImm(i)) BY <1>5, <1>9 DEF EncodeWord
  <2>5. QED BY <2>3, <2>4
<1>10. CASE i.op = "shrd"
  <2>1. \A reg \in 0..7 : Opcode(shrd, 2, d, reg, i.op, 16, AsRmRImm8) BY <1>4, <1>5, <1>10
  <2>2. RmRByte(i, c) BY <1>10
  <2>3. Again(i, 16, Before(shrd, EncodeRmRImm(i))) BY <1>2, <2>1, <2>2, DoubleAgain
  <2>4. EncodeWord(i) = Before(shrd, EncodeRmRImm(i)) BY <1>5, <1>10 DEF EncodeWord
  <2>5. QED BY <2>3, <2>4
<1>11. QED BY <1>6, <1>7, <1>8, <1>9, <1>10 DEF Words

\* Instructions without operands: their bytes stand for them.
SingleRow(op, b) == Free(b) /\ Table(b) = Row(op, "none", AsNone) /\ op \notin Widthless

LEMMA SingleRows ==
  \A op \in DOMAIN Single : SingleRow(op, Single[op])
<1>1. DOMAIN Single = {"daa", "das", "aaa", "aas", "cmc", "clc", "stc", "cli", "sti", "cld", "std", "cwd", "sahf", "lahf", "nop", "salc", "xlatb", "cmpsb", "cmpsw", "popf"}
  BY DEF Single
<1>2. SingleRow("daa", Single["daa"])
  <2>1. Single["daa"] = 39 BY DEF Single
  <2>2. Free(39) BY FreeOpcodes
  <2>3. Table(39) = Row("daa", "none", AsNone) BY AdjustRowsAre DEF AsNone, Plain
  <2>4. "daa" \notin Widthless BY DEF Widthless, Invalid
  <2>5. QED BY <2>1, <2>2, <2>3, <2>4 DEF SingleRow
<1>3. SingleRow("das", Single["das"])
  <2>1. Single["das"] = 47 BY DEF Single
  <2>2. Free(47) BY FreeOpcodes
  <2>3. Table(47) = Row("das", "none", AsNone) BY AdjustRowsAre DEF AsNone, Plain
  <2>4. "das" \notin Widthless BY DEF Widthless, Invalid
  <2>5. QED BY <2>1, <2>2, <2>3, <2>4 DEF SingleRow
<1>4. SingleRow("aaa", Single["aaa"])
  <2>1. Single["aaa"] = 55 BY DEF Single
  <2>2. Free(55) BY FreeOpcodes
  <2>3. Table(55) = Row("aaa", "none", AsNone) BY AdjustRowsAre DEF AsNone, Plain
  <2>4. "aaa" \notin Widthless BY DEF Widthless, Invalid
  <2>5. QED BY <2>1, <2>2, <2>3, <2>4 DEF SingleRow
<1>5. SingleRow("aas", Single["aas"])
  <2>1. Single["aas"] = 63 BY DEF Single
  <2>2. Free(63) BY FreeOpcodes
  <2>3. Table(63) = Row("aas", "none", AsNone) BY AdjustRowsAre DEF AsNone, Plain
  <2>4. "aas" \notin Widthless BY DEF Widthless, Invalid
  <2>5. QED BY <2>1, <2>2, <2>3, <2>4 DEF SingleRow
<1>6. SingleRow("cmc", Single["cmc"])
  <2>1. Single["cmc"] = 245 BY DEF Single
  <2>2. Free(245) BY FreeOpcodes
  <2>3. Table(245) = Row("cmc", "none", AsNone) BY MathRowsAre DEF AsNone, Plain
  <2>4. "cmc" \notin Widthless BY DEF Widthless, Invalid
  <2>5. QED BY <2>1, <2>2, <2>3, <2>4 DEF SingleRow
<1>7. SingleRow("clc", Single["clc"])
  <2>1. Single["clc"] = 248 BY DEF Single
  <2>2. Free(248) BY FreeOpcodes
  <2>3. Table(248) = Row("clc", "none", AsNone) BY FlagRowsAre DEF AsNone, Plain
  <2>4. "clc" \notin Widthless BY DEF Widthless, Invalid
  <2>5. QED BY <2>1, <2>2, <2>3, <2>4 DEF SingleRow
<1>8. SingleRow("stc", Single["stc"])
  <2>1. Single["stc"] = 249 BY DEF Single
  <2>2. Free(249) BY FreeOpcodes
  <2>3. Table(249) = Row("stc", "none", AsNone) BY FlagRowsAre DEF AsNone, Plain
  <2>4. "stc" \notin Widthless BY DEF Widthless, Invalid
  <2>5. QED BY <2>1, <2>2, <2>3, <2>4 DEF SingleRow
<1>9. SingleRow("cli", Single["cli"])
  <2>1. Single["cli"] = 250 BY DEF Single
  <2>2. Free(250) BY FreeOpcodes
  <2>3. Table(250) = Row("cli", "none", AsNone) BY FlagRowsAre DEF AsNone, Plain
  <2>4. "cli" \notin Widthless BY DEF Widthless, Invalid
  <2>5. QED BY <2>1, <2>2, <2>3, <2>4 DEF SingleRow
<1>10. SingleRow("sti", Single["sti"])
  <2>1. Single["sti"] = 251 BY DEF Single
  <2>2. Free(251) BY FreeOpcodes
  <2>3. Table(251) = Row("sti", "none", AsNone) BY FlagRowsAre DEF AsNone, Plain
  <2>4. "sti" \notin Widthless BY DEF Widthless, Invalid
  <2>5. QED BY <2>1, <2>2, <2>3, <2>4 DEF SingleRow
<1>11. SingleRow("cld", Single["cld"])
  <2>1. Single["cld"] = 252 BY DEF Single
  <2>2. Free(252) BY FreeOpcodes
  <2>3. Table(252) = Row("cld", "none", AsNone) BY FlagRowsAre DEF AsNone, Plain
  <2>4. "cld" \notin Widthless BY DEF Widthless, Invalid
  <2>5. QED BY <2>1, <2>2, <2>3, <2>4 DEF SingleRow
<1>12. SingleRow("std", Single["std"])
  <2>1. Single["std"] = 253 BY DEF Single
  <2>2. Free(253) BY FreeOpcodes
  <2>3. Table(253) = Row("std", "none", AsNone) BY FlagRowsAre DEF AsNone, Plain
  <2>4. "std" \notin Widthless BY DEF Widthless, Invalid
  <2>5. QED BY <2>1, <2>2, <2>3, <2>4 DEF SingleRow
<1>13. SingleRow("cwd", Single["cwd"])
  <2>1. Single["cwd"] = 153 BY DEF Single
  <2>2. Free(153) BY FreeOpcodes
  <2>3. Table(153) = Row("cwd", "none", AsNone) BY ConvertRowsAre DEF AsNone, Plain
  <2>4. "cwd" \notin Widthless BY DEF Widthless, Invalid
  <2>5. QED BY <2>1, <2>2, <2>3, <2>4 DEF SingleRow
<1>14. SingleRow("sahf", Single["sahf"])
  <2>1. Single["sahf"] = 158 BY DEF Single
  <2>2. Free(158) BY FreeOpcodes
  <2>3. Table(158) = Row("sahf", "none", AsNone) BY ConvertRowsAre DEF AsNone, Plain
  <2>4. "sahf" \notin Widthless BY DEF Widthless, Invalid
  <2>5. QED BY <2>1, <2>2, <2>3, <2>4 DEF SingleRow
<1>15. SingleRow("lahf", Single["lahf"])
  <2>1. Single["lahf"] = 159 BY DEF Single
  <2>2. Free(159) BY FreeOpcodes
  <2>3. Table(159) = Row("lahf", "none", AsNone) BY ConvertRowsAre DEF AsNone, Plain
  <2>4. "lahf" \notin Widthless BY DEF Widthless, Invalid
  <2>5. QED BY <2>1, <2>2, <2>3, <2>4 DEF SingleRow
<1>16. SingleRow("nop", Single["nop"])
  <2>1. Single["nop"] = 144 BY DEF Single
  <2>2. Free(144) BY FreeOpcodes
  <2>3. Table(144) = Row("nop", "none", AsNone) BY ExchangeRowsAre DEF AsNone, Plain
  <2>4. "nop" \notin Widthless BY DEF Widthless, Invalid
  <2>5. QED BY <2>1, <2>2, <2>3, <2>4 DEF SingleRow
<1>17. SingleRow("salc", Single["salc"])
  <2>1. Single["salc"] = 214 BY DEF Single
  <2>2. Free(214) BY FreeOpcodes
  <2>3. Table(214) = Row("salc", "none", AsNone) BY ShiftRowsAre DEF AsNone, Plain
  <2>4. "salc" \notin Widthless BY DEF Widthless, Invalid
  <2>5. QED BY <2>1, <2>2, <2>3, <2>4 DEF SingleRow
<1>18. SingleRow("xlatb", Single["xlatb"])
  <2>1. Single["xlatb"] = 215 BY DEF Single
  <2>2. Free(215) BY FreeOpcodes
  <2>3. Table(215) = Row("xlatb", "none", AsNone) BY ShiftRowsAre DEF AsNone, Plain
  <2>4. "xlatb" \notin Widthless BY DEF Widthless, Invalid
  <2>5. QED BY <2>1, <2>2, <2>3, <2>4 DEF SingleRow
<1>19. SingleRow("cmpsb", Single["cmpsb"])
  <2>1. Single["cmpsb"] = 166 BY DEF Single
  <2>2. Free(166) BY FreeOpcodes
  <2>3. Table(166) = Row("cmpsb", "none", AsNone) BY OffsetRowsAre DEF AsNone, Plain
  <2>4. "cmpsb" \notin Widthless BY DEF Widthless, Invalid
  <2>5. QED BY <2>1, <2>2, <2>3, <2>4 DEF SingleRow
<1>20. SingleRow("cmpsw", Single["cmpsw"])
  <2>1. Single["cmpsw"] = 167 BY DEF Single
  <2>2. Free(167) BY FreeOpcodes
  <2>3. Table(167) = Row("cmpsw", "none", AsNone) BY OffsetRowsAre DEF AsNone, Plain
  <2>4. "cmpsw" \notin Widthless BY DEF Widthless, Invalid
  <2>5. QED BY <2>1, <2>2, <2>3, <2>4 DEF SingleRow
<1>21. SingleRow("popf", Single["popf"])
  <2>1. Single["popf"] = 157 BY DEF Single
  <2>2. Free(157) BY FreeOpcodes
  <2>3. Table(157) = Row("popf", "none", AsNone) BY ConvertRowsAre DEF AsNone, Plain
  <2>4. "popf" \notin Widthless BY DEF Widthless, Invalid
  <2>5. QED BY <2>1, <2>2, <2>3, <2>4 DEF SingleRow
<1>22. QED BY <1>1, <1>2, <1>3, <1>4, <1>5, <1>6, <1>7, <1>8, <1>9, <1>10, <1>11, <1>12, <1>13, <1>14, <1>15, <1>16, <1>17, <1>18, <1>19, <1>20, <1>21

Bare(i) == i.dst = None /\ i.src = None /\ i.src2 = None

\* An instruction that is nothing but an opcode.
LEMMA BareAgain ==
  ASSUME NEW i, NEW c, From(i, c), Bare(i), NEW b \in Byte, NEW d, d = Written(i, 16),
         PlainOpcode(b, d, i.op, i.w, AsNone)
  PROVE  Again(i, 16, Emit(<<b>>))
<1>1. Setting(i, c, d) BY WrittenSays
<1>2. PICK op, w : op = i.op /\ w = i.w OBVIOUS
<1>3. PlainLays(AsNone, w, d, b, <<>>, 0, None, None) BY LaysNone
<1>4. PlainOpcode(b, d, op, w, AsNone) BY <1>2
<1>5. Rereads(d, <<b>>, op, w, None, None, None) BY <1>1, <1>3, <1>4, PlainAlone
<1>6. Rereads(d, <<b>>, i.op, i.w, i.dst, i.src, i.src2) BY <1>2, <1>5 DEF Bare
<1>7. QED BY <1>6, AgainEmitted

LEMMA SingleAgain ==
  ASSUME NEW i, NEW c, From(i, c), Bare(i), i.op \in DOMAIN Single, i.w = 0
  PROVE  Again(i, 16, Emit(<<Single[i.op]>>))
<1>1. PICK d, op, b : d = Written(i, 16) /\ op = i.op /\ b = Single[op] OBVIOUS
<1>2. d.size = 16 /\ 16 \in Sizes BY <1>1, WrittenSays DEF Sizes
<1>3. SingleRow(op, b) BY <1>1, SingleRows
<1>4. Free(b) /\ Table(b) = Row(op, "none", AsNone) /\ op \notin Widthless BY <1>3 DEF SingleRow
<1>5. PlainOpcode(b, d, op, 0, AsNone) BY <1>2, <1>4, LayoutsAre, PlainSays
<1>6. b \in Byte BY <1>4 DEF Free
<1>7. PlainOpcode(b, d, i.op, i.w, AsNone) BY <1>1, <1>5
<1>8. QED BY <1>1, <1>6, <1>7, BareAgain

LEMMA CbwAgain ==
  ASSUME NEW i, NEW c, From(i, c), Bare(i), i.op = "cbw", i.w = 16
  PROVE  Again(i, 16, Emit(<<152>>))
<1>1. PICK d, b : d = Written(i, 16) /\ b = 152 OBVIOUS
<1>2. d.size = 16 /\ 16 \in Sizes BY <1>1, WrittenSays DEF Sizes
<1>3. PlainOpcode(152, d, "cbw", 16, AsNone) BY <1>2, OneOperandOpcodes
<1>4. PlainOpcode(b, d, i.op, i.w, AsNone) BY <1>1, <1>3
<1>5. b \in Byte BY <1>1 DEF Byte
<1>6. QED BY <1>1, <1>4, <1>5, BareAgain

\* Instructions with one operand that is not in memory.
OneOperands == {"int", "aad", "aam", "push", "pop", "loop"}
OneOperand(i) ==
  /\ i.src = None /\ i.src2 = None
  /\ i.op \in {"int", "aad", "aam"} => i.w = 0 /\ \E x \in Byte : i.dst = Imm(8, x)
  /\ i.op = "push" /\ IsImmOf(i.dst, 16) => \E x : OfWidth(16, x) /\ i.dst = Imm(16, x)
  /\ i.op = "pop" /\ IsReg(i.dst, 16) => IsGeneral(16, i.dst)

LEMMA ByteOperandAgain ==
  ASSUME NEW i, NEW c, From(i, c), OneOperand(i), i.w = 0, NEW x \in Byte, i.dst = Imm(8, x), NEW b \in Byte,
         NEW d, d = Written(i, 16), PlainOpcode(b, d, i.op, 0, AsImm8)
  PROVE  Again(i, 16, Emit(<<b, x>>))
<1>1. Setting(i, c, d) BY WrittenSays
<1>2. PICK op : op = i.op OBVIOUS
<1>3. PlainLays(AsImm8, 0, d, b, <<x>>, 1, Imm(8, x), None) BY LaysImm8
<1>4. IsBytes(<<x>>, 1) BY ByteNumber
<1>5. PlainOpcode(b, d, op, 0, AsImm8) BY <1>2
<1>6. PICK body : body = <<b>> \o <<x>> OBVIOUS
<1>7. 1 \in 0..4 OBVIOUS
<1>8. Rereads(d, body, op, 0, Imm(8, x), None, None) BY <1>1, <1>3, <1>4, <1>5, <1>6, <1>7, PlainAnd
<1>9. body = <<b, x>>
  <2>1. b \in Int /\ x \in Int BY DEF Byte
  <2>2. QED BY <1>6, <2>1, TwoInOne
<1>10. Rereads(d, body, i.op, i.w, i.dst, i.src, i.src2) BY <1>2, <1>8 DEF OneOperand
<1>11. QED BY <1>9, <1>10, AgainEmitted

\* INT 1 and INT 3 have opcodes of their own.
LEMMA IntAgain ==
  ASSUME NEW i, NEW c, From(i, c), OneOperand(i), i.op = "int"
  PROVE  Again(i, 16, EncodeOneOperand(i))
<1>1. PICK r, d : r = EncodeOneOperand(i) /\ d = Written(i, 16) OBVIOUS
<1>2. d.size = 16 /\ 16 \in Sizes /\ Setting(i, c, d) BY <1>1, WrittenSays DEF Sizes
<1>3. PICK x \in Byte : i.dst = Imm(8, x) BY DEF OneOperand
<1>4. i.w = 0 /\ i.src = None /\ i.src2 = None BY DEF OneOperand
<1>5. IsByteImm(i.dst) /\ i.dst.v = x BY <1>3 DEF IsByteImm, Imm
<1>6. r = Emit(IF x = 1 THEN <<241>> ELSE IF x = 3 THEN <<204>> ELSE <<205, x>>)
  <2>1. r = Emit(CASE x = 1 -> <<241>> [] x = 3 -> <<204>> [] OTHER -> <<205, x>>)
    BY <1>1, <1>5 DEF EncodeOneOperand
  <2>2. (CASE x = 1 -> <<241>> [] x = 3 -> <<204>> [] OTHER -> <<205, x>>)
          = IF x = 1 THEN <<241>> ELSE IF x = 3 THEN <<204>> ELSE <<205, x>>
    OBVIOUS
  <2>3. QED BY <2>1, <2>2
<1>7. /\ PlainOpcode(241, d, "int", 0, AsOne) /\ PlainOpcode(204, d, "int", 0, AsThree)
      /\ PlainOpcode(205, d, "int", 0, AsImm8)
  BY <1>2, OneOperandOpcodes
<1>8. PICK trap, breakpoint, number : trap = 241 /\ breakpoint = 204 /\ number = 205 OBVIOUS
<1>9. trap \in Byte /\ breakpoint \in Byte /\ number \in Byte BY <1>8 DEF Byte
<1>10. CASE x = 1
  <2>1. r = Emit(<<trap>>) BY <1>6, <1>8, <1>10
  <2>2. PlainLays(AsOne, 0, d, trap, <<>>, 0, Imm(8, 1), None) BY LaysOne
  <2>3. PlainOpcode(trap, d, "int", 0, AsOne) BY <1>7, <1>8
  <2>4. Rereads(d, <<trap>>, "int", 0, Imm(8, 1), None, None) BY <1>2, <1>9, <2>2, <2>3, PlainAlone
  <2>5. Rereads(d, <<trap>>, i.op, i.w, i.dst, i.src, i.src2) BY <1>3, <1>4, <1>10, <2>4
  <2>6. QED BY <1>1, <2>1, <2>5, AgainEmitted
<1>11. CASE x = 3
  <2>1. r = Emit(<<breakpoint>>) BY <1>6, <1>8, <1>11
  <2>2. PlainLays(AsThree, 0, d, breakpoint, <<>>, 0, Imm(8, 3), None) BY LaysThree
  <2>3. PlainOpcode(breakpoint, d, "int", 0, AsThree) BY <1>7, <1>8
  <2>4. Rereads(d, <<breakpoint>>, "int", 0, Imm(8, 3), None, None) BY <1>2, <1>9, <2>2, <2>3, PlainAlone
  <2>5. Rereads(d, <<breakpoint>>, i.op, i.w, i.dst, i.src, i.src2) BY <1>3, <1>4, <1>11, <2>4
  <2>6. QED BY <1>1, <2>1, <2>5, AgainEmitted
<1>12. CASE x # 1 /\ x # 3
  <2>1. r = Emit(<<number, x>>) BY <1>6, <1>8, <1>12
  <2>2. PlainOpcode(number, d, i.op, 0, AsImm8) BY <1>7, <1>8
  <2>3. QED BY <1>1, <1>3, <1>4, <1>9, <2>1, <2>2, ByteOperandAgain
<1>13. QED BY <1>10, <1>11, <1>12

LEMMA OneOperandAgain ==
  ASSUME NEW i, NEW c, From(i, c), OneOperand(i), i.op \in OneOperands
  PROVE  Again(i, 16, EncodeOneOperand(i))
<1>1. PICK r, d : r = EncodeOneOperand(i) /\ d = Written(i, 16) OBVIOUS
<1>2. d.size = 16 /\ 16 \in Sizes /\ 16 \in Widths /\ Setting(i, c, d) BY <1>1, WrittenSays DEF Sizes, Widths
<1>3. i.src = None /\ i.src2 = None BY DEF OneOperand
<1>4. CASE i.op = "int" BY <1>4, IntAgain
<1>5. CASE i.op = "aad"
  <2>1. PICK x \in Byte : i.dst = Imm(8, x) BY <1>5 DEF OneOperand
  <2>2. PICK b \in Byte : b = 213 BY DEF Byte
  <2>3. IsByteImm(i.dst) /\ i.dst.v = x BY <2>1 DEF IsByteImm, Imm
  <2>4. r = Emit(<<b, x>>) BY <1>1, <1>5, <2>2, <2>3 DEF EncodeOneOperand
  <2>5. PlainOpcode(213, d, "aad", 0, AsImm8) BY <1>2, OneOperandOpcodes
  <2>6. PlainOpcode(b, d, i.op, 0, AsImm8) BY <1>5, <2>2, <2>5
  <2>7. i.w = 0 BY <1>5 DEF OneOperand
  <2>8. QED BY <1>1, <2>1, <2>4, <2>6, <2>7, ByteOperandAgain
<1>6. CASE i.op = "aam"
  <2>1. PICK x \in Byte : i.dst = Imm(8, x) BY <1>6 DEF OneOperand
  <2>2. PICK b \in Byte : b = 212 BY DEF Byte
  <2>3. IsByteImm(i.dst) /\ i.dst.v = x BY <2>1 DEF IsByteImm, Imm
  <2>4. r = Emit(<<b, x>>) BY <1>1, <1>6, <2>2, <2>3 DEF EncodeOneOperand
  <2>5. PlainOpcode(212, d, "aam", 0, AsImm8) BY <1>2, OneOperandOpcodes
  <2>6. PlainOpcode(b, d, i.op, 0, AsImm8) BY <1>6, <2>2, <2>5
  <2>7. i.w = 0 BY <1>6 DEF OneOperand
  <2>8. QED BY <1>1, <2>1, <2>4, <2>6, <2>7, ByteOperandAgain
<1>7. CASE i.op = "push"
  <2>1. CASE ~(i.w = 16 /\ IsImmOf(i.dst, 16))
    <3>1. r = Error BY <1>1, <1>7, <2>1 DEF EncodeOneOperand
    <3>2. QED BY <1>1, <3>1, AgainNot
  <2>2. CASE i.w = 16 /\ IsImmOf(i.dst, 16)
    <3>1. PICK w \in Widths : w = 16 BY <1>2
    <3>2. PICK x : OfWidth(w, x) /\ i.dst = Imm(w, x) BY <1>7, <2>2, <3>1 DEF OneOperand
    <3>3. PICK b \in Byte : b = 104 BY DEF Byte
    <3>4. PICK imm : imm = Bytes16(x) OBVIOUS
    <3>5. i.dst.v = x BY <3>2 DEF Imm
    <3>6. r = Emit(<<b>> \o imm) BY <1>1, <1>7, <2>2, <3>3, <3>4, <3>5 DEF EncodeOneOperand
    <3>7. imm = BytesOf(w, x) BY <3>1, <3>4 DEF BytesOf
    <3>8. PICK z \in 0..4 : z = ImmLen(w) BY ImmLenIs
    <3>9. IsBytes(imm, z) BY <3>2, <3>7, <3>8, ImmRead DEF IsBytes
    <3>10. PlainLays(AsImm, w, d, b, imm, z, i.dst, None) BY <3>2, <3>7, <3>8, LaysImm
    <3>11. PlainOpcode(104, d, "push", 16, AsImm) BY <1>2, OneOperandOpcodes
    <3>12. PICK op, dst : op = i.op /\ dst = i.dst OBVIOUS
    <3>13. PlainOpcode(b, d, op, w, AsImm) BY <1>7, <3>1, <3>3, <3>11, <3>12
    <3>14. PlainLays(AsImm, w, d, b, imm, z, dst, None) BY <3>10, <3>12
    <3>15. PICK body : body = <<b>> \o imm OBVIOUS
    <3>16. Rereads(d, body, op, w, dst, None, None) BY <1>2, <3>9, <3>13, <3>14, <3>15, PlainAnd
    <3>17. Rereads(d, body, i.op, i.w, i.dst, i.src, i.src2) BY <1>3, <2>2, <3>1, <3>12, <3>16
    <3>18. QED BY <1>1, <3>6, <3>15, <3>17, AgainEmitted
  <2>3. QED BY <2>1, <2>2
<1>8. CASE i.op = "pop"
  <2>1. CASE ~(i.w = 16 /\ IsReg(i.dst, 16))
    <3>1. r = Error BY <1>1, <1>8, <2>1 DEF EncodeOneOperand
    <3>2. QED BY <1>1, <3>1, AgainNot
  <2>2. CASE i.w = 16 /\ IsReg(i.dst, 16)
    <3>1. PICK w \in Widths : w = 16 BY <1>2
    <3>2. IsGeneral(w, i.dst) BY <1>8, <2>2, <3>1 DEF OneOperand
    <3>3. PICK n \in 0..7 : n = Index(i.dst.r) BY <3>2, GeneralFacts
    <3>4. PICK b \in Byte : b = 88 + n /\ b % 8 = n
      <4>1. 88 + n \in Byte /\ (88 + n) % 8 = n BY DEF Byte
      <4>2. QED BY <4>1
    <3>5. r = Emit(<<b>>) BY <1>1, <1>8, <2>2, <3>3, <3>4 DEF EncodeOneOperand
    <3>6. PlainOpcode(88 + n, d, "pop", 16, AsReg) BY <1>2, RegisterOpcodes
    <3>7. PICK op, dst : op = i.op /\ dst = i.dst OBVIOUS
    <3>8. PlainOpcode(b, d, op, w, AsReg) BY <1>8, <3>1, <3>4, <3>6, <3>7
    <3>9. dst = Reg(w, GeneralNames(w)[(b % 8) + 1])
      <4>1. i.dst = Reg(w, GeneralNames(w)[Index(i.dst.r) + 1]) BY <3>2, GeneralFacts
      <4>2. b % 8 = Index(i.dst.r) BY <3>3, <3>4
      <4>3. QED BY <3>7, <4>1, <4>2
    <3>10. PlainLays(AsReg, w, d, b, <<>>, 0, dst, None) BY <3>9, LaysReg
    <3>11. Rereads(d, <<b>>, op, w, dst, None, None) BY <1>2, <3>8, <3>10, PlainAlone
    <3>12. Rereads(d, <<b>>, i.op, i.w, i.dst, i.src, i.src2) BY <1>3, <2>2, <3>1, <3>7, <3>11
    <3>13. QED BY <1>1, <3>5, <3>12, AgainEmitted
  <2>3. QED BY <2>1, <2>2
<1>9. CASE i.op = "loop"
  <2>1. r = Panic \/ r = Error BY <1>1, <1>9 DEF EncodeOneOperand
  <2>2. QED BY <1>1, <2>1, AgainNot
<1>10. QED BY <1>4, <1>5, <1>6, <1>7, <1>8, <1>9 DEF OneOperands

\* TEST and the operations on one operand.
TestBytes(w, acc, group) ==
  acc = (IF w = 8 THEN 168 ELSE 169) /\ group = IF w = 8 THEN 246 ELSE 247
IsTest(i) == i.op = "test"
TestForm(i, c) == IsTest(i) /\ (RmR(i, c) \/ RmNumber(i, c))

\* A test of a register with a number, behind the opcode for the accumulator or
\* that of the group.
LEMMA TestNumber ==
  ASSUME NEW i, NEW c, From(i, c), IsTest(i), NEW w \in Widths, w = i.w, NEW d, d = Written(i, w),
         d.size = SizeOf(w), IsGeneral(w, i.dst), RmNumber(i, c),
         NEW acc, NEW group, TestBytes(w, acc, group)
  PROVE  Again(i, w, Emit((IF Index(i.dst.r) = 0 THEN <<acc>>
                           ELSE <<group, ModRegRm(3, 0, Index(i.dst.r))>>) \o BytesOf(w, i.src.v)))
<1>1. Setting(i, c, d) BY WrittenSays
<1>2. PICK size \in Sizes : d.size = size /\ size = SizeOf(w) BY DEF SizeOf, Sizes
<1>3. i.src2 = None /\ \E x : OfWidth(w, x) /\ i.src = Imm(w, x) BY DEF RmNumber
<1>4. PICK x : OfWidth(w, x) /\ i.src = Imm(w, x) BY <1>3
<1>5. i.src.v = x BY <1>4 DEF Imm
<1>6. acc \in Byte /\ group \in Byte BY DEF Byte, TestBytes
<1>7. PlainOpcode(acc, d, "test", w, AsAccImm)
  <2>1. PlainOpcode(168, d, "test", 8, AsAccImm) /\ PlainOpcode(169, d, "test", size, AsAccImm)
    BY <1>2, TestOpcodes
  <2>2. CASE w = 8 BY <2>1, <2>2 DEF TestBytes
  <2>3. CASE w # 8
    <3>1. size = w BY <1>2, <2>3 DEF SizeOf, Widths
    <3>2. QED BY <2>1, <2>3, <3>1 DEF TestBytes
  <2>4. QED BY <2>2, <2>3
<1>8. Opcode(<<group>>, 1, d, 0, "test", w, AsMath)
  <2>1. PICK n, op : n = 0 /\ n \in 0..7 /\ op = "test" OBVIOUS
  <2>2. op = Math[n + 1] /\ op \notin Widthless
    <3>1. n + 1 = 1 BY <2>1
    <3>2. Math[1] = "test" BY DEF Math
    <3>3. QED BY <2>1, <3>1, <3>2, NamesAre
  <2>3. Opcode(<<246>>, 1, d, n, op, 8, AsMath) /\ Opcode(<<247>>, 1, d, n, op, size, AsMath)
    BY <1>2, <2>1, <2>2, MathOpcodes
  <2>4. CASE w = 8 BY <2>1, <2>3, <2>4 DEF TestBytes
  <2>5. CASE w # 8
    <3>1. size = w BY <1>2, <2>5 DEF SizeOf, Widths
    <3>2. QED BY <2>1, <2>3, <2>5, <3>1 DEF TestBytes
  <2>6. QED BY <2>4, <2>5
<1>9. CASE Index(i.dst.r) = 0
  <2>1. PlainOpcode(acc, d, i.op, w, AsAccImm) BY <1>7 DEF IsTest
  <2>2. Rereads(d, <<acc>> \o BytesOf(w, x), i.op, i.w, i.dst, i.src, i.src2)
    BY <1>1, <1>3, <1>4, <1>6, <1>9, <2>1, PlainNumberWritten
  <2>3. PICK body : body = <<acc>> \o BytesOf(w, x) OBVIOUS
  <2>4. Again(i, w, Emit(body)) BY <2>2, <2>3, AgainEmitted
  <2>5. QED BY <1>5, <1>9, <2>3, <2>4
<1>10. CASE Index(i.dst.r) # 0
  <2>1. PICK reg \in 0..7 : reg = 0 OBVIOUS
  <2>2. Opcode(<<group>>, 1, d, reg, i.op, w, AsMath) BY <1>8, <2>1 DEF IsTest
  <2>3. PICK layout : layout = AsMath /\ NumberLayout(layout, reg) BY <2>1 DEF NumberLayout
  <2>30. Opcode(<<group>>, 1, d, reg, i.op, w, layout) BY <2>2, <2>3
  <2>4. Rereads(d, <<group, ModRegRm(3, reg, Index(i.dst.r))>> \o BytesOf(w, x), i.op, i.w, i.dst, i.src, i.src2)
    BY <1>1, <1>3, <1>4, <1>6, <2>3, <2>30, NumberWritten
  <2>5. PICK body : body = <<group, ModRegRm(3, 0, Index(i.dst.r))>> \o BytesOf(w, x) OBVIOUS
  <2>6. Again(i, w, Emit(body)) BY <2>1, <2>4, <2>5, AgainEmitted
  <2>7. QED BY <1>5, <1>10, <2>5, <2>6
<1>11. QED BY <1>9, <1>10

\* The opcode and the number of such an operation.
MathCode(op, w, n, group) ==
  op \in MathOps /\ op # "test" /\ n = Number(Math, op) /\ group = IF w = 8 THEN 246 ELSE 247

LEMMA MathForms ==
  ASSUME NEW op, NEW w \in Widths, NEW d, d.size = SizeOf(w), NEW n, NEW group, MathCode(op, w, n, group)
  PROVE  n \in 0..7 /\ n > 1 /\ group \in Byte /\ Opcode(<<group>>, 1, d, n, op, w, AsMath)
<1>1. n \in 0..7 /\ op = Math[n + 1] /\ op \notin Widthless /\ n > 1 BY MathNumber DEF MathCode
<1>2. PICK size \in Sizes : d.size = size /\ size = SizeOf(w) BY DEF SizeOf, Sizes
<1>3. Opcode(<<246>>, 1, d, n, op, 8, AsMath) /\ Opcode(<<247>>, 1, d, n, op, size, AsMath)
  BY <1>1, <1>2, MathOpcodes
<1>4. Opcode(<<group>>, 1, d, n, op, w, AsMath)
  <2>1. CASE w = 8 BY <1>3, <2>1 DEF MathCode
  <2>2. CASE w # 8
    <3>1. size = w BY <1>2, <2>2 DEF SizeOf, Widths
    <3>2. QED BY <1>3, <2>2, <3>1 DEF MathCode
  <2>3. QED BY <2>1, <2>2
<1>5. group \in Byte BY DEF Byte, MathCode
<1>6. QED BY <1>1, <1>4, <1>5

LEMMA Math8Again ==
  ASSUME NEW i, NEW c, From(i, c), i.w = 8, i.op \in MathOps, TestForm(i, c) \/ (i.op # "test" /\ RmOnly(i, c))
  PROVE  Again(i, 8, EncodeMath8(i))
<1>1. PICK w \in Widths : w = 8 /\ w = i.w BY DEF Widths
<1>2. PICK r, d : r = EncodeMath8(i) /\ d = Written(i, w) OBVIOUS
<1>3. Setting(i, c, d) /\ d.size = SizeOf(w) /\ d.size = 16 BY <1>1, <1>2, WrittenSays DEF SizeOf
<1>4. c \in Contexts BY DEF From
<1>5. CASE IsReg(i.dst, 8) /\ i.op = "test" /\ IsByteImm(i.src)
  <2>1. RmR(i, c) \/ RmNumber(i, c) BY <1>5 DEF TestForm
  <2>2. IsReg(i.dst, w) /\ IsImmOf(i.src, w) BY <1>1, <1>5 DEF IsByteImm, IsImmOf
  <2>3. RmNumber(i, c) /\ IsGeneral(w, i.dst) BY <1>1, <2>1, <2>2, OperandKinds
  <2>4. PICK x : x = i.src.v OBVIOUS
  <2>5. BytesOf(w, x) = <<x>> BY <1>1 DEF BytesOf
  <2>6. PICK modrm : modrm = ModRegRm(3, 0, Index(i.dst.r)) OBVIOUS
  <2>7. r = Emit(IF Index(i.dst.r) = 0 THEN <<168, x>> ELSE <<246, modrm, x>>)
    BY <1>2, <1>5, <2>4, <2>6 DEF EncodeMath8
  <2>8. <<168>> \o <<x>> = <<168, x>> /\ <<246, modrm>> \o <<x>> = <<246, modrm, x>>
    <3>1. x \in Int
      <4>1. PICK y : OfWidth(w, y) /\ i.src = Imm(w, y) BY <1>1, <2>3 DEF RmNumber
      <4>2. x = y BY <2>4, <4>1 DEF Imm
      <4>3. QED BY <1>1, <4>1, <4>2 DEF OfWidth, Byte
    <3>2. modrm \in Int
      <4>1. Index(i.dst.r) \in 0..7 BY <2>3, GeneralFacts
      <4>2. QED BY <2>6, <4>1 DEF ModRegRm
    <3>3. QED BY <3>1, <3>2, TwoInOne, OneBehindTwo
  <2>9. r = Emit((IF Index(i.dst.r) = 0 THEN <<168>> ELSE <<246, modrm>>) \o BytesOf(w, x))
    <3>1. CASE Index(i.dst.r) = 0 BY ZenonT(60), <2>5, <2>7, <2>8, <3>1
    <3>2. CASE Index(i.dst.r) # 0 BY ZenonT(60), <2>5, <2>7, <2>8, <3>2
    <3>3. QED BY <3>1, <3>2
  <2>10. PICK acc, group : acc = 168 /\ group = 246 /\ TestBytes(w, acc, group) BY <1>1 DEF TestBytes
  <2>11. Again(i, w, Emit((IF Index(i.dst.r) = 0 THEN <<acc>>
                           ELSE <<group, ModRegRm(3, 0, Index(i.dst.r))>>) \o BytesOf(w, i.src.v)))
    BY <1>1, <1>2, <1>3, <1>5, <2>3, <2>10, TestNumber DEF IsTest
  <2>12. QED BY <1>1, <1>2, <2>4, <2>6, <2>9, <2>10, <2>11
<1>6. CASE ~(IsReg(i.dst, 8) /\ i.op = "test" /\ IsByteImm(i.src)) /\ ~(IsReg(i.dst, 8) \/ IsPtrOf(i.dst, 8))
  <2>1. r = Error BY <1>2, <1>6 DEF EncodeMath8
  <2>2. QED BY <1>2, <2>1, AgainNot
<1>7. CASE ~(IsReg(i.dst, 8) /\ i.op = "test" /\ IsByteImm(i.src)) /\ (IsReg(i.dst, 8) \/ IsPtrOf(i.dst, 8)) /\ i.op = "test"
  <2>1. PICK code : code = <<132>> OBVIOUS
  <2>2. r = Before(code, EncodeRmR(i)) BY <1>2, <1>7, <2>1 DEF EncodeMath8
  <2>3. 16 \in Sizes BY DEF Sizes
  <2>4. \A reg \in 0..7 : Opcode(<<132>>, 1, d, reg, "test", 8, AsRmR) BY <1>3, <2>3, TestOpcodes
  <2>5. \A reg \in 0..7 : Opcode(code, 1, d, reg, i.op, w, AsRmR) BY <1>1, <1>7, <2>1, <2>4
  <2>6. RmR(i, c) \/ RmNumber(i, c) BY <1>7 DEF TestForm, IsTest
  <2>7. QED BY <1>1, <1>2, <2>2, <2>5, <2>6, RmRAgain
<1>8. CASE (IsReg(i.dst, 8) \/ IsPtrOf(i.dst, 8)) /\ i.op # "test"
  <2>1. RmOnly(i, c) BY <1>8 DEF TestForm, IsTest
  <2>2. IsRm(w, c, i.dst) /\ i.src = None /\ i.src2 = None BY <1>1, <2>1 DEF RmOnly
  <2>3. PICK op, n, group : op = i.op /\ n = Number(Math, op) /\ group = 246 OBVIOUS
  <2>30. MathCode(op, w, n, group) BY <1>1, <1>8, <2>3 DEF MathCode
  <2>31. d.size = SizeOf(w) BY <1>3
  <2>4. n \in 0..7 /\ n > 1 /\ Opcode(<<group>>, 1, d, n, op, w, AsMath) BY <2>30, <2>31, MathForms
  <2>5. PICK code, e, o : code = <<group>> /\ e = EncodeRm(o, n) /\ o = i.dst OBVIOUS
  <2>6. r = Before(code, e) BY <1>2, <1>8, <2>3, <2>5 DEF EncodeMath8
  <2>7. Encodes(w, c, o, n, e) BY <2>2, <2>4, <2>5 DEF Encodes, Encoded
  <2>8. LaysAlone(AsMath, w, d, n, w, o, o, None, None) BY <2>4, LaysMath DEF LaysAlone
  <2>9. Puts(r, code, e) => \E body : r = Emit(body) /\ Rereads(d, body, op, w, o, None, None)
    BY <1>3, <2>4, <2>5, <2>7, <2>8, Alone
  <2>10. Puts(r, code, e) => \E body : r = Emit(body) /\ Rereads(d, body, i.op, i.w, i.dst, i.src, i.src2)
    BY <1>1, <2>2, <2>3, <2>5, <2>9
  <2>11. QED BY <1>1, <1>2, <2>6, <2>10, AgainPut
<1>9. QED BY <1>5, <1>6, <1>7, <1>8

\* Words and double words, and the products with two and three operands.
Factor(i, c) ==
  /\ i.op = "imul" /\ IsGeneral(i.w, i.dst) /\ IsRm(i.w, c, i.src)
  /\ \/ i.src2 = None
     \/ \E v : i.src2 = Imm(i.w, v)
     \/ \E x \in Byte : i.src2 = ImmS8(Signed8(x))
MathForm(i, c) == TestForm(i, c) \/ (i.op # "test" /\ RmOnly(i, c)) \/ Factor(i, c)

\* A register and an operand behind an opcode, and a byte behind that.
LEMMA ProductByteAgain ==
  ASSUME NEW i, NEW c, From(i, c), NEW w \in Sizes, w = i.w, Factor(i, c), i.src2.kind = "imms8"
  PROVE  Again(i, w, After(Before(<<107>>, EncodeRRm(i)), <<i.src2.v % 256>>))
<1>0. w \in Widths BY DEF Widths, Sizes
<1>1. PICK d, op, dst, src : d = Written(i, w) /\ op = i.op /\ dst = i.dst /\ src = i.src OBVIOUS
<1>2. Setting(i, c, d) /\ d.size = w BY <1>1, WrittenSays DEF Sizes
<1>3. PICK x \in Byte : i.src2 = ImmS8(Signed8(x))
  <2>1. i.src2.kind \notin {"none", "imm"} OBVIOUS
  <2>2. i.src2 # None BY <2>1 DEF None
  <2>3. \A v : i.src2 # Imm(i.w, v) BY <2>1 DEF Imm
  <2>4. QED BY <2>2, <2>3 DEF Factor
<1>4. i.src2.v % 256 = x BY <1>3, SignedByte DEF ImmS8
<1>5. IsGeneral(w, dst) /\ IsRm(w, c, src) /\ op = "imul" BY <1>1 DEF Factor
<1>6. PICK reg \in 0..7 : reg = Index(dst.r) BY <1>0, <1>5, GeneralFacts
<1>7. dst.kind = "reg" /\ dst.w = w /\ dst = Reg(w, GeneralNames(w)[reg + 1]) BY <1>0, <1>5, <1>6, GeneralFacts
<1>8. PICK e, code : e = EncodeRm(src, reg) /\ code = <<107>> OBVIOUS
<1>9. PICK r : r = After(Before(code, EncodeRRm(i)), <<x>>) OBVIOUS
<1>10. r.out = "bytes" => r = After(Before(code, e), <<x>>)
  <2>1. w # 32 => EncodeRRm(i) = e BY <1>1, <1>6, <1>7, <1>8 DEF EncodeRRm
  <2>2. w = 32 => EncodeRRm(i) = Panic BY <1>1, <1>7 DEF EncodeRRm
  <2>3. w = 32 => r = Panic BY <1>9, <2>2 DEF After, Before, Panic
  <2>4. QED BY <1>9, <2>1, <2>3 DEF Panic
<1>11. Encodes(w, c, src, reg, e) BY <1>0, <1>5, <1>6, <1>8 DEF Encodes, Encoded
<1>12. Lays(AsRRmImmS8, w, d, reg, w, src, <<x>>, 1, dst, src, ImmS8(Signed8(x))) BY <1>7, LaysRRmImmS8
<1>13. Opcode(code, 1, d, reg, op, w, AsRRmImmS8)
  <2>1. Opcode(<<107>>, 1, d, reg, "imul", w, AsRRmImmS8) BY <1>2, TestOpcodes
  <2>2. QED BY <1>5, <1>8, <2>1
<1>14. r.out = "bytes" => \E body : r = Emit(body) /\ Rereads(d, body, op, w, dst, src, ImmS8(Signed8(x)))
  BY <1>2, <1>10, <1>11, <1>12, <1>13, WithByte
<1>15. r.out = "bytes" => \E body : r = Emit(body) /\ Rereads(d, body, i.op, i.w, i.dst, i.src, i.src2)
  BY <1>1, <1>3, <1>14
<1>16. Again(i, w, r) BY <1>1, <1>15, AgainItself
<1>17. QED BY <1>4, <1>8, <1>9, <1>16

\* A number that would be the third operand is lost.
LEMMA ProductAgain ==
  ASSUME NEW i, NEW c, From(i, c), NEW w \in Sizes, w = i.w, Factor(i, c), i.src2.kind # "imms8"
  PROVE  Again(i, w, Before(<<15, 175>>, EncodeRRm(i)))
<1>0. w \in Widths BY DEF Widths, Sizes
<1>1. PICK d, op, dst, src : d = Written(i, w) /\ op = i.op /\ dst = i.dst /\ src = i.src OBVIOUS
<1>2. Setting(i, c, d) /\ d.size = w BY <1>1, WrittenSays DEF Sizes
<1>3. IsGeneral(w, dst) /\ IsRm(w, c, src) /\ op = "imul" BY <1>1 DEF Factor
<1>4. PICK reg \in 0..7 : reg = Index(dst.r) BY <1>0, <1>3, GeneralFacts
<1>5. dst.kind = "reg" /\ dst.w = w /\ dst = Reg(w, GeneralNames(w)[reg + 1]) BY <1>0, <1>3, <1>4, GeneralFacts
<1>6. PICK e, code : e = EncodeRm(src, reg) /\ code = <<15, 175>> OBVIOUS
<1>7. PICK r : r = Before(code, EncodeRRm(i)) OBVIOUS
<1>8. r.out = "bytes" => r = Before(code, e)
  <2>1. w # 32 => EncodeRRm(i) = e BY <1>1, <1>4, <1>5, <1>6 DEF EncodeRRm
  <2>2. w = 32 => EncodeRRm(i) = Panic BY <1>1, <1>5 DEF EncodeRRm
  <2>3. w = 32 => r = Panic BY <1>7, <2>2 DEF Before, Panic
  <2>4. QED BY <1>7, <2>1, <2>3 DEF Panic
<1>9. r.out = "bytes" => Puts(r, code, e) BY <1>8 DEF Puts
<1>10. Encodes(w, c, src, reg, e) BY <1>0, <1>3, <1>4, <1>6 DEF Encodes, Encoded
<1>11. LaysAlone(AsRRm, w, d, reg, w, src, dst, src, None) BY <1>5, LaysRRm DEF LaysAlone
<1>12. Opcode(code, 2, d, reg, op, w, AsRRm)
  <2>1. Opcode(<<15, 175>>, 2, d, reg, "imul", w, AsRRm) BY <1>2, TestOpcodes
  <2>2. QED BY <1>3, <1>6, <2>1
<1>13. r.out = "bytes" => \E body : r = Emit(body) /\ Rereads(d, body, op, w, dst, src, None)
  BY <1>2, <1>9, <1>10, <1>11, <1>12, Alone
<1>14. MeansTheSame(i, op, w, dst, src, None)
  <2>1. CASE i.src2 = None BY <1>1, <2>1, ItselfMeansTheSame
  <2>2. CASE i.src2 # None
    <3>1. i.src2.kind = "imm"
      <4>1. \A x : ImmS8(x).kind = "imms8" BY DEF ImmS8
      <4>2. \A x : i.src2 # ImmS8(x) BY <4>1
      <4>3. \E v : i.src2 = Imm(i.w, v) BY <2>2, <4>2 DEF Factor
      <4>4. QED BY <4>3 DEF Imm
    <3>2. Lossy(i) BY <1>1, <1>3, <3>1 DEF Lossy, LosesFactor
    <3>3. QED BY <3>2 DEF MeansTheSame
  <2>3. QED BY <2>1, <2>2
<1>15. Again(i, w, r) BY <1>1, <1>13, <1>14 DEF Again
<1>16. QED BY <1>6, <1>7, <1>15

LEMMA MathAgain ==
  ASSUME NEW i, NEW c, From(i, c), NEW w \in Sizes, w = i.w, i.op \in MathOps, MathForm(i, c)
  PROVE  Again(i, w, EncodeMath(i, w))
<1>0. w \in Widths /\ c \in Contexts BY DEF Widths, Sizes, From
<1>1. PICK r, d : r = EncodeMath(i, w) /\ d = Written(i, w) OBVIOUS
<1>2. Setting(i, c, d) /\ d.size = w /\ d.size = SizeOf(w) BY <1>1, WrittenSays DEF Sizes, SizeOf
<1>3. (RmR(i, c) \/ RmNumber(i, c) \/ RmOnly(i, c)) => i.src2 = None BY DEF RmR, RmNumber, RmOnly
<1>4. CASE i.src2.kind = "imms8"
  <2>1. Factor(i, c) BY <1>3, <1>4 DEF MathForm, TestForm, None
  <2>2. r = After(Before(<<107>>, EncodeRRm(i)), <<i.src2.v % 256>>) BY <1>1, <1>4 DEF EncodeMath
  <2>3. QED BY <1>1, <1>4, <2>1, <2>2, ProductByteAgain
<1>5. CASE i.src2.kind # "imms8" /\ i.op # "test" /\ IsReg(i.src, w)
  <2>1. Factor(i, c) BY <1>5 DEF MathForm, TestForm, IsTest, RmOnly, IsReg, None
  <2>2. r = Before(<<15, 175>>, EncodeRRm(i)) BY <1>1, <1>5 DEF EncodeMath
  <2>3. QED BY <1>1, <1>5, <2>1, <2>2, ProductAgain
<1>6. CASE i.src2.kind # "imms8" /\ ~(i.op # "test" /\ IsReg(i.src, w)) /\ ~IsReg(i.dst, w)
  <2>1. r = Error BY <1>1, <1>6 DEF EncodeMath
  <2>2. QED BY <1>1, <2>1, AgainNot
<1>7. CASE i.src2.kind # "imms8" /\ i.op # "test" /\ ~IsReg(i.src, w) /\ IsReg(i.dst, w)
  <2>1. RmOnly(i, c) \/ Factor(i, c) BY <1>7 DEF MathForm, TestForm, IsTest
  <2>2. PICK op, n, group, o : op = i.op /\ n = Number(Math, op) /\ group = 247 /\ o = i.dst OBVIOUS
  <2>3. MathCode(op, w, n, group) BY <1>7, <2>2 DEF MathCode, Sizes
  <2>4. d.size = SizeOf(w) BY <1>2
  <2>5. n \in 0..7 /\ n > 1 /\ group \in Byte /\ Opcode(<<group>>, 1, d, n, op, w, AsMath)
    BY <1>0, <2>3, <2>4, MathForms
  <2>6. IsGeneral(w, o)
    <3>1. IsRm(w, c, i.dst) \/ IsGeneral(w, i.dst) BY <2>1 DEF RmOnly, Factor
    <3>2. QED BY <1>0, <1>7, <2>2, <3>1, RmKinds DEF IsReg
  <2>7. PICK modrm : modrm = ModRegRm(3, n, Index(o.r)) OBVIOUS
  <2>8. r = Emit(<<group, modrm>>) BY <1>1, <1>7, <2>2, <2>7 DEF EncodeMath
  <2>9. PICK body : body = <<group, modrm>> OBVIOUS
  <2>10. body = <<group, modrm>> \o <<>>
    <3>1. Index(o.r) \in 0..7 BY <1>0, <2>6, GeneralFacts
    <3>2. modrm \in Int BY <2>5, <2>7, <3>1 DEF ModRegRm
    <3>3. <<group, modrm>> \in Seq(Int) BY <2>5, <3>2 DEF Byte
    <3>4. QED BY <2>9, <3>3, EmptyJoins
  <2>11. LaysAlone(AsMath, w, d, n, w, o, o, None, None) BY SMTT(60), <2>5, LaysMath DEF LaysAlone
  <2>12. IsBytes(<<>>, 0) /\ 0 \in 0..4 BY DEF IsBytes
  <2>13. Rereads(d, body, op, w, o, None, None)
    BY <1>0, <1>2, <2>5, <2>6, <2>7, <2>10, <2>11, <2>12, RegisterAnd DEF LaysAlone
  <2>14. MeansTheSame(i, op, w, o, None, None)
    <3>1. CASE RmOnly(i, c)
      <4>1. i.src = None /\ i.src2 = None BY <3>1 DEF RmOnly
      <4>2. QED BY <2>2, <4>1, ItselfMeansTheSame
    <3>2. CASE Factor(i, c)
      <4>1. IsRm(w, c, i.src) /\ i.op = "imul" BY <3>2 DEF Factor
      <4>2. i.src.kind = "ptr" BY <1>0, <1>7, <4>1, RmKinds, GeneralFacts DEF IsReg
      <4>3. Lossy(i) BY <1>7, <4>1, <4>2 DEF Lossy, LosesFactor
      <4>4. QED BY <4>3 DEF MeansTheSame
    <3>3. QED BY <2>1, <3>1, <3>2
  <2>15. r = Emit(body) BY <2>8, <2>9
  <2>16. QED BY <1>1, <2>13, <2>14, <2>15 DEF Again
<1>8. CASE i.src2.kind # "imms8" /\ i.op = "test" /\ IsReg(i.dst, w)
  <2>1. RmR(i, c) \/ RmNumber(i, c) BY <1>8 DEF MathForm, TestForm, Factor
  <2>2. CASE IsImmOf(i.src, w)
    <3>1. RmNumber(i, c) /\ IsGeneral(w, i.dst) BY <1>0, <1>8, <2>1, <2>2, OperandKinds
    <3>2. CASE w = 32
      <4>1. LosesHalf(i) BY <1>8, <2>2, <3>2 DEF LosesHalf, IsImmOf
      <4>2. QED BY <1>1, <4>1 DEF Again
    <3>3. CASE w = 16
      <4>1. PICK acc, group : acc = 169 /\ group = 247 /\ TestBytes(w, acc, group) BY <3>3 DEF TestBytes
      <4>2. IsTest(i) BY <1>8 DEF IsTest
      <4>3. d.size = SizeOf(w) BY <1>2
      <4>4. Again(i, w, Emit((IF Index(i.dst.r) = 0 THEN <<acc>>
                              ELSE <<group, ModRegRm(3, 0, Index(i.dst.r))>>) \o BytesOf(w, i.src.v)))
        BY <1>0, <1>1, <3>1, <4>1, <4>2, <4>3, TestNumber
      <4>5. BytesOf(w, i.src.v) = Bytes16(i.src.v) BY <3>3 DEF BytesOf
      <4>6. r = Emit((IF Index(i.dst.r) = 0 THEN <<acc>> ELSE <<group, ModRegRm(3, 0, Index(i.dst.r))>>)
                     \o Bytes16(i.src.v))
        BY <1>1, <1>8, <2>2, <4>1 DEF EncodeMath
      <4>7. QED BY <1>1, <4>4, <4>5, <4>6
    <3>4. QED BY <3>2, <3>3 DEF Sizes
  <2>3. CASE ~IsImmOf(i.src, w)
    <3>1. PICK code : code = <<133>> OBVIOUS
    <3>2. r = Before(code, EncodeRmR(i)) BY <1>1, <1>8, <2>3, <3>1 DEF EncodeMath
    <3>3. \A reg \in 0..7 : Opcode(<<133>>, 1, d, reg, "test", w, AsRmR) BY <1>2, TestOpcodes
    <3>4. \A reg \in 0..7 : Opcode(code, 1, d, reg, i.op, w, AsRmR) BY <1>8, <3>1, <3>3
    <3>5. QED BY <1>0, <1>1, <2>1, <3>2, <3>4, RmRAgain
  <2>4. QED BY <2>2, <2>3
<1>9. QED BY <1>4, <1>5, <1>6, <1>7, <1>8

\* Shifts: by a byte, by one, or by CL.
ShiftForm(i, c) ==
  /\ i.op \in ShiftOps /\ IsRm(i.w, c, i.dst) /\ i.src2 = None
  /\ \/ \E x \in Byte : i.src = Imm(8, x)
     \/ i.w \in {8, 16} /\ i.src = Imm(i.w, 1)
     \/ i.src = Reg(8, "cl")

\* The opcodes of a shift.
ShiftCode(op, w, n, one, many) ==
  /\ op \in ShiftOps /\ n = Number(Shifts, op)
  /\ one = (IF w = 8 THEN 208 ELSE 209) /\ many = IF w = 8 THEN 192 ELSE 193

LEMMA ShiftForms ==
  ASSUME NEW op, NEW w \in Widths, NEW d, d.size = SizeOf(w), NEW n, NEW one, NEW many, ShiftCode(op, w, n, one, many)
  PROVE  /\ n \in 0..7 /\ one \in Byte /\ many \in Byte
         /\ Opcode(<<one>>, 1, d, n, op, IF w = 8 THEN 8 ELSE 16, AsRmOne)
         /\ Opcode(<<many>>, 1, d, n, op, w, AsRmImm8)
<1>1. n \in 0..7 /\ op = Shifts[n + 1] /\ op \notin Widthless BY ShiftNumber DEF ShiftCode
<1>2. PICK size \in Sizes : d.size = size /\ size = SizeOf(w) BY DEF SizeOf, Sizes
<1>3. /\ Opcode(<<192>>, 1, d, n, op, 8, AsRmImm8) /\ Opcode(<<193>>, 1, d, n, op, size, AsRmImm8)
      /\ Opcode(<<208>>, 1, d, n, op, 8, AsRmOne) /\ Opcode(<<209>>, 1, d, n, op, 16, AsRmOne)
  BY <1>1, <1>2, ShiftOpcodes
<1>4. Opcode(<<one>>, 1, d, n, op, IF w = 8 THEN 8 ELSE 16, AsRmOne)
  <2>1. CASE w = 8 BY <1>3, <2>1 DEF ShiftCode
  <2>2. CASE w # 8 BY <1>3, <2>2 DEF ShiftCode
  <2>3. QED BY <2>1, <2>2
<1>5. Opcode(<<many>>, 1, d, n, op, w, AsRmImm8)
  <2>1. CASE w = 8 BY <1>3, <2>1 DEF ShiftCode
  <2>2. CASE w # 8
    <3>1. size = w BY <1>2, <2>2 DEF SizeOf, Widths
    <3>2. QED BY <1>3, <2>2, <3>1 DEF ShiftCode
  <2>3. QED BY <2>1, <2>2
<1>6. one \in Byte /\ many \in Byte BY DEF Byte, ShiftCode
<1>7. QED BY <1>1, <1>4, <1>5, <1>6

\* A shift by one means the same whatever the width of the number.
LEMMA ShiftMeansTheSame ==
  ASSUME NEW i, i.op \in ShiftOps, i.src.kind = "imm", i.src.v = 1, i.src2 = None,
         NEW op, op = i.op, NEW w, w = i.w, NEW dst, dst = i.dst, NEW v
  PROVE  MeansTheSame(i, op, w, dst, Imm(v, 1), None)
<1>1. Short(dst) \/ Lossy(i) BY ShortIf
<1>2. Short(Imm(v, 1)) BY DEF Short, Imm
<1>3. op \in {Shifts[k] : k \in 1..8} /\ op # "xchg" BY DEF ShiftOps, Shifts, Invalid
<1>4. Count8(i.src) = Imm(8, 1) BY DEF Count8
<1>5. Count8(Imm(v, 1)) = Imm(8, 1) BY DEF Count8, Imm
<1>6. ASSUME NEW j, j.op = op, j.w = w, j.dst = dst, j.src = Imm(v, 1), j.src2 = None
      PROVE  Operation(j) = Operation(i)
  <2>1. Operation(i) = [op |-> op, w |-> w, dst |-> dst, src |-> Imm(8, 1)] BY <1>3, <1>4 DEF Operation
  <2>2. Operation(j) = [op |-> op, w |-> w, dst |-> dst, src |-> Imm(8, 1)] BY <1>3, <1>5, <1>6 DEF Operation
  <2>3. QED BY <2>1, <2>2
<1>7. QED BY <1>1, <1>2, <1>6 DEF MeansTheSame

LEMMA ShiftAgain ==
  ASSUME NEW i, NEW c, From(i, c), NEW w \in Widths, w = i.w, ShiftForm(i, c)
  PROVE  Again(i, w, EncodeShift(i, w))
<1>0. c \in Contexts BY DEF From
<1>1. PICK r, d, op, n : r = EncodeShift(i, w) /\ d = Written(i, w) /\ op = i.op /\ n = Number(Shifts, op) OBVIOUS
<1>2. Setting(i, c, d) /\ d.size = SizeOf(w) BY <1>1, WrittenSays DEF SizeOf
<1>3. PICK one, many : one = (IF w = 8 THEN 208 ELSE 209) /\ many = IF w = 8 THEN 192 ELSE 193 OBVIOUS
<1>4. ShiftCode(op, w, n, one, many) BY <1>1, <1>3 DEF ShiftCode, ShiftForm
<1>5. d.size = SizeOf(w) BY <1>2
<1>6. /\ n \in 0..7 /\ one \in Byte /\ many \in Byte
      /\ Opcode(<<one>>, 1, d, n, op, IF w = 8 THEN 8 ELSE 16, AsRmOne)
      /\ Opcode(<<many>>, 1, d, n, op, w, AsRmImm8)
  BY <1>4, <1>5, ShiftForms
<1>7. CASE ~IsReg(i.dst, w)
  <2>1. r = Error BY <1>1, <1>7 DEF EncodeShift
  <2>2. QED BY <1>1, <2>1, AgainNot
<1>8. CASE IsReg(i.dst, w) /\ ~IsByteImm(i.src)
  <2>1. r = Panic BY <1>1, <1>8 DEF EncodeShift
  <2>2. QED BY <1>1, <2>1, AgainNot
<1>9. CASE IsReg(i.dst, w) /\ IsByteImm(i.src)
  <2>1. IsRm(w, c, i.dst) /\ i.src2 = None /\ i.op \in ShiftOps BY DEF ShiftForm
  <2>2. IsGeneral(w, i.dst) BY <1>0, <1>9, <2>1, RmKinds DEF IsReg
  <2>3. PICK x \in Byte : i.src = Imm(8, x)
    <3>1. i.src.kind = "imm" /\ i.src.w = 8 BY <1>9 DEF IsByteImm
    <3>2. i.src # Reg(8, "cl") BY <3>1 DEF Reg
    <3>3. ASSUME i.src = Imm(i.w, 1)
          PROVE  i.src = Imm(8, 1) /\ 1 \in Byte
      BY <3>1, <3>3 DEF Imm, Byte
    <3>4. QED BY <3>2, <3>3 DEF ShiftForm
  <2>4. i.src.v = x /\ i.src.kind = "imm" BY <2>3 DEF Imm
  <2>5. PICK k \in 0..7 : k = Index(i.dst.r) BY <2>2, GeneralFacts
  <2>6. PICK modrm : modrm = ModRegRm(3, n, k) OBVIOUS
  <2>7. modrm \in Int BY <1>6, <2>6 DEF ModRegRm
  <2>8. r = Emit(IF x = 1 THEN <<one, modrm>> ELSE <<many, modrm, x>>)
    <3>1. (208 + (IF w = 8 THEN 0 ELSE 1)) = one /\ (192 + (IF w = 8 THEN 0 ELSE 1)) = many BY <1>3
    <3>2. r = Emit(IF x = 1 THEN <<208 + (IF w = 8 THEN 0 ELSE 1), modrm>>
                   ELSE <<192 + (IF w = 8 THEN 0 ELSE 1), modrm, x>>)
      BY <1>1, <1>9, <2>4, <2>5, <2>6 DEF EncodeShift
    <3>3. QED BY <3>1, <3>2
  <2>9. CASE x # 1
    <3>1. PICK dst, imm : dst = i.dst /\ imm = <<x>> OBVIOUS
    <3>2. PICK body : body = <<many, modrm, x>> OBVIOUS
    <3>3. body = <<many, modrm>> \o imm
      <4>1. many \in Int /\ x \in Int BY <1>6 DEF Byte
      <4>2. QED BY <2>7, <3>1, <3>2, <4>1, OneBehindTwo
    <3>4. Lays(AsRmImm8, w, d, n, w, dst, imm, 1, dst, Imm(8, x), None) BY <1>6, <3>1, LaysRmImm8
    <3>5. IsBytes(imm, 1) /\ 1 \in 0..4 BY <3>1, ByteNumber
    <3>6. body = <<many, ModRegRm(3, n, Index(dst.r))>> \o imm BY <2>5, <2>6, <3>1, <3>3
    <3>7. IsGeneral(w, dst) BY <2>2, <3>1
    <3>8. Setting(i, c, d) BY <1>2
    <3>9. n \in 0..7 /\ many \in Byte /\ Opcode(<<many>>, 1, d, n, op, w, AsRmImm8) BY SMTT(60), <1>6
    <3>10. Rereads(d, body, op, w, dst, Imm(8, x), None)
      BY <3>4, <3>5, <3>6, <3>7, <3>8, <3>9, RegisterAnd
    <3>11. Rereads(d, body, i.op, i.w, i.dst, i.src, i.src2) BY <1>1, <2>1, <2>3, <3>1, <3>10
    <3>12. r = Emit(body) BY <2>8, <2>9, <3>2
    <3>13. QED BY <1>1, <3>11, <3>12, AgainEmitted
  <2>10. CASE x = 1
    <3>1. PICK body : body = <<one, modrm>> OBVIOUS
    <3>2. body = <<one, modrm>> \o <<>>
      <4>1. <<one, modrm>> \in Seq(Int) BY <1>6, <2>7 DEF Byte
      <4>2. QED BY <3>1, <4>1, EmptyJoins
    <3>3. PICK v, dst : /\ v = (IF w = 8 THEN 8 ELSE 16)
                        /\ dst = IF w = 32 THEN Reg(16, GeneralNames(16)[k + 1]) ELSE i.dst
      OBVIOUS
    <3>4. v \in Widths /\ (w # 32 => v = w) BY <3>3 DEF Widths
    <3>5. IsGeneral(v, dst) /\ Index(dst.r) = k
      <4>1. CASE w # 32 BY <2>2, <2>5, <3>3, <3>4, <4>1
      <4>2. CASE w = 32
        <5>1. dst = Reg(16, GeneralNames(16)[k + 1]) /\ v = 16 BY <3>3, <4>2
        <5>2. IsGeneral(16, dst) BY <5>1 DEF IsGeneral
        <5>3. dst.r = GeneralNames(16)[k + 1] /\ 16 \in Widths BY <5>1 DEF Reg, Widths
        <5>4. Index(dst.r) = k BY <5>3, IndexOfGeneral
        <5>5. QED BY <5>1, <5>2, <5>4
      <4>3. QED BY <4>1, <4>2
    <3>6. Lays(AsRmOne, v, d, n, v, dst, <<>>, 0, dst, Imm(v, 1), None) BY <1>6, LaysRmOne
    <3>7. IsBytes(<<>>, 0) /\ 0 \in 0..4 BY DEF IsBytes
    <3>8. body = <<one, ModRegRm(3, n, Index(dst.r))>> \o <<>> BY <2>6, <3>1, <3>2, <3>5
    <3>9. Setting(i, c, d) BY <1>2
    <3>10. n \in 0..7 /\ one \in Byte /\ Opcode(<<one>>, 1, d, n, op, v, AsRmOne) BY SMTT(60), <1>6, <3>3
    <3>11. Rereads(d, body, op, v, dst, Imm(v, 1), None)
      BY <3>4, <3>5, <3>6, <3>7, <3>8, <3>9, <3>10, RegisterAnd
    <3>12. MeansTheSame(i, op, v, dst, Imm(v, 1), None)
      <4>1. CASE w = 32
        <5>1. LosesShiftWidth(i)
          <6>1. op \in {Shifts[j] : j \in 1..8} BY <1>1, <2>1 DEF ShiftOps
          <6>2. QED BY <1>1, <2>3, <2>10, <4>1, <6>1 DEF LosesShiftWidth
        <5>2. QED BY <5>1 DEF MeansTheSame, Lossy
      <4>2. CASE w # 32
        <5>1. v = w /\ dst = i.dst BY <3>3, <3>4, <4>2
        <5>2. QED BY <1>1, <2>1, <2>4, <2>10, <5>1, ShiftMeansTheSame
      <4>3. QED BY <4>1, <4>2
    <3>13. r = Emit(body) BY <2>8, <2>10, <3>1
    <3>14. QED BY <1>1, <3>11, <3>12, <3>13 DEF Again
  <2>11. QED BY <2>9, <2>10
<1>10. QED BY <1>7, <1>8, <1>9

-----------------------------------------------------------------------------
(* Every operation that the encoder knows. *)

Extends == {"movsx", "movzx"}
Counts == {"inc", "dec"}

\* The operations with an arm of their own.
SingleOps == DOMAIN Single
LEMMA OperationsAre ==
  /\ SingleOps = {"daa", "das", "aaa", "aas", "cmc", "clc", "stc", "cli", "sti", "cld", "std", "cwd", "sahf",
                  "lahf", "nop", "salc", "xlatb", "cmpsb", "cmpsw", "popf"}
  /\ ArithOps = {"add", "or", "adc", "sbb", "and", "sub", "xor", "cmp"}
  /\ ShiftOps = {"rol", "ror", "rcl", "rcr", "shl", "shr", "sar"}
  /\ MathOps = {"test", "not", "neg", "mul", "imul", "div", "idiv"}
<1>1. SingleOps = {"daa", "das", "aaa", "aas", "cmc", "clc", "stc", "cli", "sti", "cld", "std", "cwd", "sahf",
                   "lahf", "nop", "salc", "xlatb", "cmpsb", "cmpsw", "popf"} BY DEF SingleOps, Single
<1>2. \A k \in 1..8 : k = 1 \/ k = 2 \/ k = 3 \/ k = 4 \/ k = 5 \/ k = 6 \/ k = 7 \/ k = 8 OBVIOUS
<1>3. ArithOps = {"add", "or", "adc", "sbb", "and", "sub", "xor", "cmp"} BY <1>2 DEF ArithOps, Arith
<1>4. ShiftOps = {"rol", "ror", "rcl", "rcr", "shl", "shr", "sar"} BY <1>2 DEF ShiftOps, Shifts, Invalid
<1>5. MathOps = {"test", "not", "neg", "mul", "imul", "div", "idiv"} BY <1>2 DEF MathOps, Math
<1>6. QED BY <1>1, <1>3, <1>4, <1>5

\* The arm that an operation takes.
LEMMA ArmsAre ==
  ASSUME NEW i
  PROVE  /\ i.op \in SingleOps => EncodeOp(i) = Emit(<<Single[i.op]>>)
         /\ i.op = "cbw" /\ i.w = 16 => EncodeOp(i) = Emit(<<152>>)
         /\ i.op = "cbw" /\ i.w # 16 => EncodeOp(i) = Error
         /\ i.op \in OneOperands => EncodeOp(i) = EncodeOneOperand(i)
         /\ i.op \in Words => EncodeOp(i) = EncodeWord(i)
         /\ i.op \in Counts => EncodeOp(i) = Before(Size(i.w), EncodeIncDec(i, i.w))
         /\ i.op = "xchg" => EncodeOp(i) = EncodeXchg(i, i.w)
         /\ i.op \in Extends => EncodeOp(i) = Before(Size(i.w), EncodeExtend(i, i.w))
         /\ i.op = "mov" => EncodeOp(i) = IF i.w = 8 THEN EncodeMov8(i) ELSE Before(Size(i.w), EncodeMov(i, i.w))
         /\ i.op \in ArithOps => EncodeOp(i) = Before(Size(i.w), EncodeArith(i, i.w))
         /\ i.op \in MathOps => EncodeOp(i) = IF i.w = 8 THEN EncodeMath8(i) ELSE Before(Size(i.w), EncodeMath(i, i.w))
         /\ i.op \in ShiftOps => EncodeOp(i) = Before(Size(i.w), EncodeShift(i, i.w))
         /\ (/\ i.op \notin SingleOps \cup OneOperands \cup Words \cup Counts \cup Extends
             /\ i.op \notin ArithOps \cup MathOps \cup ShiftOps \cup {"cbw", "xchg", "mov"}) => EncodeOp(i) = Error
<1>1. i.op \in SingleOps => EncodeOp(i) = Emit(<<Single[i.op]>>)
  BY SMTT(60), OperationsAre DEF EncodeOp, SingleOps, ArithOps, MathOps, ShiftOps
<1>2. i.op = "cbw" /\ i.w = 16 => EncodeOp(i) = Emit(<<152>>)
  BY OperationsAre DEF EncodeOp, SingleOps, ArithOps, MathOps, ShiftOps
<1>3. i.op = "cbw" /\ i.w # 16 => EncodeOp(i) = Error
  BY SMTT(60), OperationsAre DEF EncodeOp, SingleOps, ArithOps, MathOps, ShiftOps
<1>4. i.op \in OneOperands => EncodeOp(i) = EncodeOneOperand(i)
  BY ZenonT(60), OperationsAre DEF EncodeOp, SingleOps, ArithOps, MathOps, ShiftOps, OneOperands
<1>5. i.op \in Words => EncodeOp(i) = EncodeWord(i)
  BY ZenonT(60), OperationsAre DEF EncodeOp, SingleOps, ArithOps, MathOps, ShiftOps, Words, EncodeWord
<1>6. i.op \in Counts => EncodeOp(i) = Before(Size(i.w), EncodeIncDec(i, i.w))
  BY OperationsAre DEF EncodeOp, SingleOps, ArithOps, MathOps, ShiftOps, Counts
<1>7. i.op = "xchg" => EncodeOp(i) = EncodeXchg(i, i.w)
  BY OperationsAre DEF EncodeOp, SingleOps, ArithOps, MathOps, ShiftOps
<1>8. i.op \in Extends => EncodeOp(i) = Before(Size(i.w), EncodeExtend(i, i.w))
  BY SMTT(60), OperationsAre DEF EncodeOp, SingleOps, ArithOps, MathOps, ShiftOps, Extends
<1>9. i.op = "mov" => EncodeOp(i) = IF i.w = 8 THEN EncodeMov8(i) ELSE Before(Size(i.w), EncodeMov(i, i.w))
  BY OperationsAre DEF EncodeOp, SingleOps, ArithOps, MathOps, ShiftOps
<1>10. i.op \in ArithOps => EncodeOp(i) = Before(Size(i.w), EncodeArith(i, i.w))
  BY SMTT(60), OperationsAre DEF EncodeOp, SingleOps, ArithOps, MathOps, ShiftOps
<1>11. i.op \in MathOps
       => EncodeOp(i) = IF i.w = 8 THEN EncodeMath8(i) ELSE Before(Size(i.w), EncodeMath(i, i.w))
  BY OperationsAre DEF EncodeOp, SingleOps, ArithOps, MathOps, ShiftOps
<1>12. i.op \in ShiftOps => EncodeOp(i) = Before(Size(i.w), EncodeShift(i, i.w))
  BY SMTT(60), OperationsAre DEF EncodeOp, SingleOps, ArithOps, MathOps, ShiftOps
<1>13. (/\ i.op \notin SingleOps \cup OneOperands \cup Words \cup Counts \cup Extends
        /\ i.op \notin ArithOps \cup MathOps \cup ShiftOps \cup {"cbw", "xchg", "mov"}) => EncodeOp(i) = Error
  BY OperationsAre DEF EncodeOp, SingleOps, ArithOps, MathOps, ShiftOps, OneOperands, Words, Counts, Extends
<1>14. QED BY SMTT(60), <1>1, <1>2, <1>3, <1>4, <1>5, <1>6, <1>7, <1>8, <1>9, <1>10, <1>11, <1>12, <1>13

\* What the operands of an instruction look like that decode has made, c being
\* what its prefixes said.
FourForms(i, c) == RmR(i, c) \/ RRm(i, c) \/ RmNumber(i, c) \/ RmSmall(i, c)
WordForm(i, c) ==
  /\ i.w = 16
  /\ i.op \in {"bsf", "lea"} => RRm(i, c)
  /\ i.op = "bt" => RmR(i, c)
  /\ i.op \in {"shld", "shrd"} => RmRByte(i, c)
MoveForm(i, c) == FourForms(i, c) \/ (i.w # 8 /\ (i.dst.kind = "sreg" \/ i.src.kind = "sreg"))
ByteMathForm(i, c) == TestForm(i, c) \/ (i.op # "test" /\ RmOnly(i, c))
Shaped(i, c) ==
  /\ i.op \in SingleOps => Bare(i) /\ i.w = 0
  /\ i.op = "cbw" => Bare(i)
  /\ i.op \in OneOperands => OneOperand(i)
  /\ i.op \in Words => WordForm(i, c)
  /\ i.op \in Counts => i.w \in Widths /\ RmOnly(i, c)
  /\ i.op = "xchg" => i.w \in Widths /\ RmR(i, c)
  /\ i.op \in Extends => i.w \in Sizes /\ \E v : Narrow(i, c, v)
  /\ i.op = "mov" => i.w \in Widths /\ MoveForm(i, c)
  /\ i.op \in ArithOps => i.w \in Widths /\ FourForms(i, c)
  /\ i.op \in MathOps => i.w \in Widths /\ IF i.w = 8 THEN ByteMathForm(i, c) ELSE MathForm(i, c)
  /\ i.op \in ShiftOps => i.w \in Widths /\ ShiftForm(i, c)

\* What encode_op gives, the operand size prefix apart.
Arm(i, x, r) == x \in Widths /\ (EncodeOp(i) = Before(Size(x), r) \/ (x # 32 /\ EncodeOp(i) = r))

\* Every arm of the encoder writes what is read as the instruction again.
LEMMA OpAgain ==
  ASSUME NEW i, NEW c, From(i, c), Shaped(i, c)
  PROVE  \E x, r : Arm(i, x, r) /\ Again(i, x, r)
<1>0. 16 \in Widths /\ 8 \in Widths /\ 16 # 32 /\ 8 # 32 BY DEF Widths
<1>1. CASE i.op \in SingleOps
  <2>1. Again(i, 16, Emit(<<Single[i.op]>>)) BY <1>1, SingleAgain DEF Shaped, SingleOps
  <2>2. EncodeOp(i) = Emit(<<Single[i.op]>>) BY <1>1, ArmsAre
  <2>3. QED BY <1>0, <2>1, <2>2 DEF Arm
<1>2. CASE i.op = "cbw"
  <2>1. CASE i.w = 16
    <3>1. Again(i, 16, Emit(<<152>>)) BY <1>2, <2>1, CbwAgain DEF Shaped
    <3>2. EncodeOp(i) = Emit(<<152>>) BY <1>2, <2>1, ArmsAre
    <3>3. QED BY <1>0, <3>1, <3>2 DEF Arm
  <2>2. CASE i.w # 16
    <3>1. EncodeOp(i) = Error BY <1>2, <2>2, ArmsAre
    <3>2. Again(i, 16, EncodeOp(i)) BY <3>1, AgainNot
    <3>3. QED BY <1>0, <3>2 DEF Arm
  <2>3. QED BY <2>1, <2>2
<1>3. CASE i.op \in OneOperands
  <2>1. Again(i, 16, EncodeOneOperand(i)) BY <1>3, OneOperandAgain DEF Shaped
  <2>2. EncodeOp(i) = EncodeOneOperand(i) BY <1>3, ArmsAre
  <2>3. QED BY <1>0, <2>1, <2>2 DEF Arm
<1>4. CASE i.op \in Words
  <2>1. WordForm(i, c) BY <1>4 DEF Shaped
  <2>2. Again(i, 16, EncodeWord(i)) BY <1>4, <2>1, WordAgain DEF WordForm
  <2>3. EncodeOp(i) = EncodeWord(i) BY <1>4, ArmsAre
  <2>4. QED BY <1>0, <2>2, <2>3 DEF Arm
<1>5. CASE i.op \in Counts
  <2>1. i.w \in Widths /\ RmOnly(i, c) BY <1>5 DEF Shaped
  <2>2. Again(i, i.w, EncodeIncDec(i, i.w)) BY <1>5, <2>1, IncDecAgain DEF Counts
  <2>3. EncodeOp(i) = Before(Size(i.w), EncodeIncDec(i, i.w)) BY <1>5, ArmsAre
  <2>4. QED BY <2>1, <2>2, <2>3 DEF Arm
<1>6. CASE i.op = "xchg"
  <2>1. i.w \in Widths /\ RmR(i, c) BY <1>6 DEF Shaped
  <2>2. Again(i, 16, EncodeXchg(i, i.w)) BY <1>6, <2>1, XchgAgain
  <2>3. EncodeOp(i) = EncodeXchg(i, i.w) BY <1>6, ArmsAre
  <2>4. QED BY <1>0, <2>2, <2>3 DEF Arm
<1>7. CASE i.op \in Extends
  <2>1. i.w \in Sizes /\ \E v : Narrow(i, c, v) BY <1>7 DEF Shaped
  <2>2. PICK v : Narrow(i, c, v) BY <2>1
  <2>3. Again(i, i.w, EncodeExtend(i, i.w)) BY <1>7, <2>1, <2>2, ExtendAgain DEF Extends
  <2>4. EncodeOp(i) = Before(Size(i.w), EncodeExtend(i, i.w)) BY <1>7, ArmsAre
  <2>5. i.w \in Widths BY <2>1 DEF Sizes, Widths
  <2>6. QED BY <2>3, <2>4, <2>5 DEF Arm
<1>8. CASE i.op = "mov"
  <2>1. i.w \in Widths /\ MoveForm(i, c) BY <1>8 DEF Shaped
  <2>2. EncodeOp(i) = IF i.w = 8 THEN EncodeMov8(i) ELSE Before(Size(i.w), EncodeMov(i, i.w)) BY <1>8, ArmsAre
  <2>3. CASE i.w = 8
    <3>1. FourForms(i, c) BY <2>1, <2>3 DEF MoveForm
    <3>2. Again(i, 8, EncodeMov8(i)) BY <1>0, <1>8, <2>3, <3>1, Mov8Again DEF FourForms
    <3>3. QED BY <1>0, <2>2, <2>3, <3>2 DEF Arm
  <2>4. CASE i.w # 8
    <3>1. i.w \in Sizes BY <2>1, <2>4 DEF Sizes, Widths
    <3>2. Again(i, i.w, EncodeMov(i, i.w)) BY <1>8, <2>1, <3>1, MovAgain DEF MoveForm, FourForms
    <3>3. QED BY <2>1, <2>2, <2>4, <3>2 DEF Arm
  <2>5. QED BY <2>3, <2>4
<1>9. CASE i.op \in ArithOps
  <2>1. i.w \in Widths /\ FourForms(i, c) BY <1>9 DEF Shaped
  <2>2. Again(i, i.w, EncodeArith(i, i.w)) BY <1>9, <2>1, ArithAgain DEF FourForms
  <2>3. EncodeOp(i) = Before(Size(i.w), EncodeArith(i, i.w)) BY <1>9, ArmsAre
  <2>4. QED BY <2>1, <2>2, <2>3 DEF Arm
<1>10. CASE i.op \in MathOps
  <2>1. i.w \in Widths /\ IF i.w = 8 THEN ByteMathForm(i, c) ELSE MathForm(i, c) BY <1>10 DEF Shaped
  <2>2. EncodeOp(i) = IF i.w = 8 THEN EncodeMath8(i) ELSE Before(Size(i.w), EncodeMath(i, i.w)) BY <1>10, ArmsAre
  <2>3. CASE i.w = 8
    <3>1. ByteMathForm(i, c) BY <2>1, <2>3
    <3>2. Again(i, 8, EncodeMath8(i)) BY <1>10, <2>3, <3>1, Math8Again DEF ByteMathForm
    <3>3. QED BY <1>0, <2>2, <2>3, <3>2 DEF Arm
  <2>4. CASE i.w # 8
    <3>1. i.w \in Sizes BY <2>1, <2>4 DEF Sizes, Widths
    <3>2. Again(i, i.w, EncodeMath(i, i.w)) BY <1>10, <2>1, <2>4, <3>1, MathAgain
    <3>3. QED BY <2>1, <2>2, <2>4, <3>2 DEF Arm
  <2>5. QED BY <2>3, <2>4
<1>11. CASE i.op \in ShiftOps
  <2>1. i.w \in Widths /\ ShiftForm(i, c) BY <1>11 DEF Shaped
  <2>2. Again(i, i.w, EncodeShift(i, i.w)) BY <2>1, ShiftAgain
  <2>3. EncodeOp(i) = Before(Size(i.w), EncodeShift(i, i.w)) BY <1>11, ArmsAre
  <2>4. QED BY <2>1, <2>2, <2>3 DEF Arm
<1>12. CASE /\ i.op \notin SingleOps \cup OneOperands \cup Words \cup Counts \cup Extends
            /\ i.op \notin ArithOps \cup MathOps \cup ShiftOps \cup {"cbw", "xchg", "mov"}
  <2>1. EncodeOp(i) = Error BY <1>12, ArmsAre
  <2>2. Again(i, 16, EncodeOp(i)) BY <2>1, AgainNot
  <2>3. QED BY <1>0, <2>2 DEF Arm
<1>13. QED BY <1>1, <1>2, <1>3, <1>4, <1>5, <1>6, <1>7, <1>8, <1>9, <1>10, <1>11, <1>12

-----------------------------------------------------------------------------
(* What encode writes of one instruction. *)

\* An instruction that decode has made.
Decoded(i) == \E c : From(i, c) /\ Shaped(i, c)

\* How decode reads bytes as the instruction i, which loses half if it does not.
ReadsAs(i, bytes) ==
  \A m \in Memories : \A at \in Nat : Reads(m, at, bytes) =>
    \E j : /\ Decode(m, at) = j /\ j.panic = FALSE /\ j.length = Len(bytes)
           /\ ~Lossy(i) => Meaning(j) = Meaning(i)

\* A result behind one that may be no bytes.
LEMMA BeforeGives ==
  ASSUME NEW p, NEW r, Before(p, r).out = "bytes"
  PROVE  r.out = "bytes" /\ Before(p, r) = Emit(p \o r.bytes)
BY DEF Before

\* Nothing before bytes.
LEMMA NothingJoined ==
  ASSUME NEW p \in Seq(Byte)
  PROVE  <<>> \o p = p
<1>1. <<>> \o p \in Seq(Byte) /\ Len(<<>> \o p) = Len(p) OBVIOUS
<1>2. \A k \in 1..Len(p) : (<<>> \o p)[k] = p[k] OBVIOUS
<1>3. QED BY <1>1, <1>2, SeqEqual

\* The prefixes are bytes, at most three.
LEMMA PrefixesAre ==
  ASSUME NEW i, Prefixed(i), NEW x
  PROVE  /\ EncodedPrefixes(i) \in Seq(Byte) /\ Len(EncodedPrefixes(i)) \in 0..2
         /\ Size(x) \in Seq(Byte) /\ Len(Size(x)) \in 0..1
<1>1. PICK l : l = IF i.lock THEN <<240>> ELSE <<>> OBVIOUS
<1>2. PICK s : s = SegBytes(i) OBVIOUS
<1>3. EncodedPrefixes(i) = l \o s BY <1>1, <1>2 DEF EncodedPrefixes, SegBytes
<1>4. 240 \in Byte /\ 102 \in Byte BY DEF Byte
<1>5. l \in Seq(Byte) /\ Len(l) \in 0..1
  <2>1. CASE i.lock BY <1>1, <1>4, <2>1
  <2>2. CASE ~i.lock BY <1>1, <2>2
  <2>3. QED BY <2>1, <2>2
<1>6. s \in Seq(Byte) /\ Len(s) \in 0..1
  <2>1. s = <<>> \/ \E b \in SegmentBytes : s = <<b>> BY <1>2, SegBytesAre DEF Prefixed
  <2>2. \A b \in SegmentBytes : b \in Byte BY DEF SegmentBytes, Byte
  <2>3. CASE s = <<>> BY <2>3
  <2>4. CASE \E b \in SegmentBytes : s = <<b>>
    <3>1. PICK b : b \in Byte /\ s = <<b>> BY <2>2, <2>4
    <3>2. QED BY <3>1
  <2>5. QED BY <2>1, <2>3, <2>4
<1>7. l \o s \in Seq(Byte) /\ Len(l \o s) \in 0..2
  <2>1. PICK a \in Seq(Byte), b \in Seq(Byte) : a = l /\ b = s BY <1>5, <1>6
  <2>2. PICK u \in 0..1, t \in 0..1 : u = Len(l) /\ t = Len(s) BY <1>5, <1>6
  <2>3. a \o b \in Seq(Byte) /\ Len(a \o b) = Len(a) + Len(b) OBVIOUS
  <2>4. u + t \in 0..2 OBVIOUS
  <2>5. QED BY <2>1, <2>2, <2>3, <2>4
<1>8. Size(x) \in Seq(Byte) /\ Len(Size(x)) \in 0..1 BY <1>4 DEF Size
<1>9. QED BY <1>3, <1>7, <1>8

\* The bytes are the prefixes and those that are read again.
LEMMA EncodeSplits ==
  ASSUME NEW i, Prefixed(i), NEW x, NEW r, Arm(i, x, r), Again(i, x, r), Encode(i).out = "bytes", ~LosesHalf(i)
  PROVE  \E body, op, v, dst, src, src2 :
           /\ Encode(i).bytes = Pre(i, x) \o body
           /\ Rereads(Written(i, x), body, op, v, dst, src, src2) /\ MeansTheSame(i, op, v, dst, src, src2)
<1>1. PICK p, z, e : p = EncodedPrefixes(i) /\ z = Size(x) /\ e = EncodeOp(i) OBVIOUS
<1>2. x \in Widths BY DEF Arm
<1>3. e.out = "bytes" /\ Encode(i) = Emit(p \o e.bytes) BY <1>1, BeforeGives DEF Encode
<1>4. Encode(i).bytes = p \o e.bytes BY <1>3 DEF Emit
<1>5. e = Before(z, r) \/ (x # 32 /\ e = r) BY <1>1 DEF Arm
<1>6. r.out = "bytes" BY <1>3, <1>5, BeforeGives
<1>7. PICK body, op, v, dst, src, src2 :
        r = Emit(body) /\ Rereads(Written(i, x), body, op, v, dst, src, src2) /\ MeansTheSame(i, op, v, dst, src, src2)
  BY <1>6 DEF Again
<1>8. body \in Seq(Byte) BY <1>7 DEF Rereads, IsBytes
<1>9. r.bytes = body BY <1>7 DEF Emit
<1>10. e.bytes = z \o body
  <2>1. CASE e = Before(z, r)
    <3>1. Before(z, r).out = "bytes" BY <1>3, <2>1
    <3>2. e = Emit(z \o r.bytes) BY <2>1, <3>1, BeforeGives
    <3>3. QED BY <1>9, <3>2 DEF Emit
  <2>2. CASE x # 32 /\ e = r
    <3>1. z = <<>> BY <1>1, <2>2 DEF Size
    <3>2. QED BY <1>8, <1>9, <2>2, <3>1, NothingJoined
  <2>3. QED BY <1>5, <2>1, <2>2
<1>11. p \in Seq(Byte) /\ z \in Seq(Byte) BY <1>1, PrefixesAre
<1>12. p \o (z \o body) = (p \o z) \o body BY SMTT(60), <1>8, <1>11, ConcatAssociative
<1>13. Encode(i).bytes = Pre(i, x) \o body BY <1>1, <1>4, <1>10, <1>12 DEF Pre
<1>14. QED BY <1>7, <1>13

\* The round trip of one instruction: decode reads what encode writes as that
\* instruction, of that length.
THEOREM RoundTrip ==
  ASSUME NEW i, Decoded(i), Encode(i).out = "bytes", ~LosesHalf(i)
  PROVE  ReadsAs(i, Encode(i).bytes) /\ Encode(i).bytes \in Seq(Byte) /\ Len(Encode(i).bytes) \in 1..9
<1>1. PICK c : From(i, c) /\ Shaped(i, c) BY DEF Decoded
<1>2. Prefixed(i) BY <1>1 DEF From
<1>3. PICK x, r : Arm(i, x, r) /\ Again(i, x, r) BY <1>1, OpAgain
<1>4. x \in Widths BY <1>3 DEF Arm
<1>5. PICK body, op, v, dst, src, src2 :
        /\ Encode(i).bytes = Pre(i, x) \o body
        /\ Rereads(Written(i, x), body, op, v, dst, src, src2) /\ MeansTheSame(i, op, v, dst, src, src2)
  BY <1>2, <1>3, EncodeSplits
<1>6. PICK d, pre, bytes : d = Written(i, x) /\ pre = Pre(i, x) /\ bytes = Encode(i).bytes OBVIOUS
<1>7. Rereads(d, body, op, v, dst, src, src2) BY <1>5, <1>6
<1>8. PICK z \in 1..6 :
        /\ IsBytes(body, z) /\ Begins(body)
        /\ \A m \in Memories : \A pos \in Nat : \A n \in 0..3 : Reads(m, pos, body) =>
             \E a, b : /\ Body(m, pos, d, n) = Made(op, v, a, b, src2, d, n + z)
                       /\ Short(dst) => a = dst
                       /\ Short(src) => b = src
  BY <1>7 DEF Rereads
<1>9. SaysTheSame(i, x, pre) BY <1>2, <1>4, <1>6, PreSays
<1>10. PICK n \in 0..3 : n = Len(pre) BY <1>9 DEF SaysTheSame
<1>11. pre \in Seq(Byte) /\ body \in Seq(Byte) /\ Len(body) = z BY <1>8, <1>9 DEF SaysTheSame, IsBytes
<1>12. bytes = pre \o body BY <1>5, <1>6
<1>13. bytes \in Seq(Byte) /\ Len(bytes) = n + z BY <1>10, <1>11, <1>12
<1>14. n <= SegSize
  <2>1. Count \in Nat \ {0} /\ 9 * Count < SegSize /\ SegSize \in Nat BY CodecAssumption, SegSizeAssumption
  <2>2. QED BY <2>1
<1>15. ASSUME NEW m \in Memories, NEW at \in Nat, Reads(m, at, bytes)
       PROVE  \E j : /\ Decode(m, at) = j /\ j.panic = FALSE /\ j.length = Len(bytes)
                     /\ ~Lossy(i) => Meaning(j) = Meaning(i)
  <2>1. Reads(m, at, pre) /\ Reads(m, at + Len(pre), body) BY <1>11, <1>12, <1>15, ReadsApart
  <2>2. PICK pos \in Nat : pos = at + n OBVIOUS
  <2>3. Reads(m, pos, body) BY <1>10, <2>1, <2>2
  <2>4. At(m, at, n) = body[1]
    <3>1. At(m, pos, 1 - 1) = body[1] BY <1>8, <1>11, <2>3 DEF Reads
    <3>2. At(m, pos, 0) = body[1] BY <3>1
    <3>3. at + n = pos + 0 BY <2>2
    <3>4. QED BY <3>2, <3>3 DEF At
  <2>5. At(m, at, n) \notin PrefixBytes BY <1>8, <2>4 DEF Begins
  <2>6. PrefixCount(m, at) = n /\ Context(m, at, n) = d
    BY <1>2, <1>4, <1>6, <1>9, <1>10, <1>14, <2>1, <2>5, PrefixesRead
  <2>7. Decode(m, at) = Body(m, pos, d, n) BY <2>2, <2>6, DecodeSplits
  <2>8. PICK a, b : /\ Body(m, pos, d, n) = Made(op, v, a, b, src2, d, n + z)
                    /\ Short(dst) => a = dst
                    /\ Short(src) => b = src
    BY <1>8, <2>3
  <2>9. PICK j : j = Made(op, v, a, b, src2, d, n + z) OBVIOUS
  <2>10. Decode(m, at) = j BY <2>7, <2>8, <2>9
  <2>11. j.panic = FALSE /\ j.length = n + z BY <2>9 DEF Made
  <2>12. ~Lossy(i) => Meaning(j) = Meaning(i)
    <3>1. SUFFICES ASSUME ~Lossy(i) PROVE Meaning(j) = Meaning(i) OBVIOUS
    <3>2. a = dst /\ b = src BY <1>5, <2>8, <3>1 DEF MeansTheSame
    <3>3. j.op = op /\ j.w = v /\ j.dst = dst /\ j.src = src /\ j.src2 = src2 BY <2>9, <3>2 DEF Made
    <3>4. Operation(j) = Operation(i) BY <1>5, <3>1, <3>3 DEF MeansTheSame
    <3>5. j.seg = i.seg /\ j.lock = i.lock BY <1>6, <2>9 DEF Made, Written
    <3>6. j.repeat = "none" BY <2>9 DEF Made
    <3>7. i.repeat = "none" BY <3>1 DEF Lossy, LosesRepeat
    <3>8. QED BY <3>4, <3>5, <3>6, <3>7 DEF Meaning
  <2>13. QED BY <1>13, <2>10, <2>11, <2>12
<1>16. ReadsAs(i, bytes) BY <1>15 DEF ReadsAs
<1>17. Len(bytes) \in 1..9 BY <1>13
<1>18. QED BY <1>6, <1>13, <1>16, <1>17

\* The test that loses half of its number is written as bytes nevertheless.
LEMMA HalfIsBytes ==
  ASSUME NEW i, Decoded(i), Encode(i).out = "bytes", LosesHalf(i)
  PROVE  Encode(i).bytes \in Seq(Byte) /\ Len(Encode(i).bytes) \in 1..9
<1>1. PICK c : From(i, c) /\ Shaped(i, c) BY DEF Decoded
<1>2. Prefixed(i) /\ c \in Contexts BY <1>1 DEF From
<1>3. i.op = "test" /\ i.w = 32 /\ i.src.kind = "imm" BY DEF LosesHalf
<1>4. i.op \in MathOps BY <1>3, OperationsAre
<1>5. 32 \in Widths BY DEF Widths
<1>6. MathForm(i, c) BY <1>1, <1>3, <1>4 DEF Shaped
<1>7. TestForm(i, c) BY <1>3, <1>6 DEF MathForm, Factor
<1>8. RmNumber(i, c)
  <2>1. ~RmR(i, c)
    <3>1. ASSUME RmR(i, c) PROVE FALSE
      <4>1. IsGeneral(i.w, i.src) BY <3>1 DEF RmR
      <4>2. i.src.kind = "reg" BY <1>3, <1>5, <4>1, GeneralFacts
      <4>3. QED BY <1>3, <4>2
    <3>2. QED BY <3>1
  <2>2. QED BY <1>7, <2>1 DEF TestForm
<1>9. IsRm(32, c, i.dst) /\ i.src2 = None BY <1>3, <1>8 DEF RmNumber
<1>10. PICK v : OfWidth(32, v) /\ i.src = Imm(32, v) BY <1>3, <1>8 DEF RmNumber
<1>11. PICK p, z, e, y : p = EncodedPrefixes(i) /\ z = Size(i.w) /\ e = EncodeOp(i) /\ y = EncodeMath(i, i.w) OBVIOUS
<1>12. e.out = "bytes" /\ Encode(i) = Emit(p \o e.bytes) BY <1>11, BeforeGives DEF Encode
<1>13. e = Before(z, y)
  <2>1. EncodeOp(i) = IF i.w = 8 THEN EncodeMath8(i) ELSE Before(Size(i.w), EncodeMath(i, i.w)) BY <1>4, ArmsAre
  <2>2. i.w # 8 BY <1>3
  <2>3. QED BY <1>11, <2>1, <2>2
<1>14. y.out = "bytes" /\ e = Emit(z \o y.bytes) BY <1>12, <1>13, BeforeGives
<1>15. i.src2.kind # "imms8" BY <1>9 DEF None
<1>16. IsImmOf(i.src, i.w) /\ i.src.v = v BY <1>3, <1>10 DEF IsImmOf, Imm
<1>17. IsReg(i.dst, i.w)
  <2>1. ~IsReg(i.dst, i.w) => y = Error BY <1>3, <1>11, <1>15 DEF EncodeMath
  <2>2. QED BY <1>14, <2>1 DEF Error
<1>18. IsGeneral(32, i.dst) BY <1>2, <1>3, <1>5, <1>9, <1>17, RmKinds DEF IsReg
<1>19. PICK reg \in 0..7 : reg = Index(i.dst.r) BY <1>5, <1>18, GeneralFacts
<1>20. PICK s : s = IF reg = 0 THEN <<169>> ELSE <<247, ModRegRm(3, 0, reg)>> OBVIOUS
<1>21. y = Emit(s \o Bytes16(v)) BY <1>3, <1>11, <1>15, <1>16, <1>17, <1>19, <1>20 DEF EncodeMath
<1>22. s \in Seq(Byte) /\ Len(s) \in 1..2
  <2>1. PICK modrm \in Byte : modrm = ModRegRm(3, 0, reg) BY FieldsOf
  <2>2. 169 \in Byte /\ 247 \in Byte BY DEF Byte
  <2>3. CASE reg = 0 BY <1>20, <2>2, <2>3
  <2>4. CASE reg # 0 BY <1>20, <2>1, <2>2, <2>4
  <2>5. QED BY <2>3, <2>4
<1>23. PICK t \in Seq(Byte) : t = Bytes16(v) /\ Len(t) = 2
  <2>1. v \in Nat
    <3>1. PICK a, b, g, d \in Byte : v = a + 256 * b + 65536 * (g + 256 * d) BY <1>10 DEF OfWidth
    <3>2. QED BY <3>1 DEF Byte
  <2>2. v % 256 \in Byte /\ (v \div 256) % 256 \in Byte BY <2>1 DEF Byte
  <2>3. PICK a \in Byte, b \in Byte : a = v % 256 /\ b = (v \div 256) % 256 BY <2>2
  <2>4. Bytes16(v) = <<a, b>> BY <2>3 DEF Bytes16
  <2>5. <<a, b>> \in Seq(Byte) /\ Len(<<a, b>>) = 2 OBVIOUS
  <2>6. QED BY <2>4, <2>5
<1>24. PICK q \in Seq(Byte), o \in Seq(Byte), k \in Seq(Byte) : q = p /\ o = z /\ k = s
  BY <1>2, <1>11, <1>22, PrefixesAre
<1>25. y.bytes = k \o t /\ e.bytes = o \o y.bytes /\ Encode(i).bytes = q \o e.bytes
  <2>1. y = Emit(k \o t) BY <1>21, <1>23, <1>24
  <2>2. e = Emit(o \o y.bytes) BY <1>14, <1>24
  <2>3. Encode(i) = Emit(q \o e.bytes) BY <1>12, <1>24
  <2>4. y.bytes = k \o t BY <2>1 DEF Emit
  <2>5. e.bytes = o \o y.bytes BY <2>2 DEF Emit
  <2>6. Encode(i).bytes = q \o e.bytes BY SMTT(60), <2>3 DEF Emit
  <2>7. QED BY <2>4, <2>5, <2>6
<1>26. Encode(i).bytes = q \o (o \o (k \o t)) BY <1>25
<1>27. k \o t \in Seq(Byte) /\ Len(k \o t) = Len(k) + Len(t) OBVIOUS
<1>28. o \o (k \o t) \in Seq(Byte) /\ Len(o \o (k \o t)) = Len(o) + (Len(k) + Len(t)) BY <1>27
<1>29. q \o (o \o (k \o t)) \in Seq(Byte) /\ Len(q \o (o \o (k \o t))) = Len(q) + (Len(o) + (Len(k) + Len(t)))
  BY <1>28
<1>30. PICK a \in 0..2, b \in 0..1, d \in 1..2 : a = Len(q) /\ b = Len(o) /\ d = Len(k) /\ Len(t) = 2
  BY <1>2, <1>11, <1>22, <1>23, <1>24, PrefixesAre
<1>31. a + (b + (d + 2)) \in 1..9 OBVIOUS
<1>32. QED BY <1>26, <1>29, <1>30, <1>31

\* At most nine bytes, whatever is lost.
THEOREM EncodedLength ==
  ASSUME NEW i, Decoded(i), Encode(i).out = "bytes"
  PROVE  Encode(i).bytes \in Seq(Byte) /\ Len(Encode(i).bytes) \in 1..9
BY RoundTrip, HalfIsBytes

-----------------------------------------------------------------------------
(* The rows of all tables: with which operands an operation occurs that the *)
(* encoder knows.                                                            *)

AsRmCl == "rm,cl"
AsRmImmS8 == "rm,imms8"
AsRRmImm == "r,rm,imm"
AsImmS8 == "imms8"
AsRel8 == "rel8"
AsRmSreg == "rm,sreg"
AsSregRm == "sreg,rm"
AsSregs == {"es", "cs", "ss", "ds", "fs", "gs"}

\* The layouts and letters that an operation may have in a row, where the
\* register field is reg. The extensions of words to double words are apart.
SuitsSmall(op, letter, layout) ==
  /\ op \in SingleOps => letter = "none" /\ layout = AsNone
  /\ op = "cbw" => layout = AsNone
  /\ op \in {"int", "aad", "aam"} => letter = "none" /\ layout \in {AsOne, AsThree, AsImm8}
  /\ op = "push" => /\ letter \in {"w", "v"}
                    /\ layout \in AsSregs \cup {AsImmS8, AsReg, AsRm} \/ (layout = AsImm /\ letter = "w")
  /\ op = "pop" => letter \in {"w", "v"} /\ layout \in AsSregs \cup {AsReg, AsRm}
  /\ op = "loop" => layout = AsRel8
SuitsWord(op, letter, layout) ==
  /\ op \in {"bsf", "lea"} => letter = "w" /\ layout = AsRRm
  /\ op = "bt" => letter = "w" /\ layout = AsRmR
  /\ op \in {"shld", "shrd"} => letter = "w" /\ layout = AsRmRImm8
  /\ op \in Counts => letter \in {"b", "v"} /\ layout \in {AsReg, AsRm}
  /\ op = "xchg" => letter \in {"b", "w", "v"} /\ layout \in {AsRmR, AsAccReg}
  /\ op \in Extends => letter = "v" /\ layout = AsRRm8
SuitsMove(op, letter, layout) ==
  op = "mov" =>
    /\ letter \in {"b", "w", "v"}
    /\ \/ layout \in {AsRmR, AsRRm, AsAccOffset, AsOffsetAcc, AsRegImm, AsRmImm}
       \/ letter = "w" /\ layout \in {AsRmSreg, AsSregRm}
SuitsGroup(op, letter, layout, reg) ==
  /\ op \in ArithOps => letter \in {"b", "w", "v"} /\ layout \in {AsRmR, AsRRm, AsAccImm, AsRmImm, AsRmImmS8}
  /\ op \in MathOps => /\ letter \in {"b", "v"}
                       /\ \/ op = "test" /\ layout \in {AsRmR, AsAccImm}
                          \/ layout = AsMath /\ (op = "test" <=> reg < 2)
                          \/ op = "imul" /\ letter = "v" /\ layout \in {AsRRm, AsRRmImm, AsRRmImmS8}
  /\ op \in ShiftOps => \/ letter \in {"b", "v"} /\ layout = AsRmImm8
                        \/ letter \in {"b", "w"} /\ layout \in {AsRmOne, AsRmCl}
Suits(op, letter, layout, reg) ==
  /\ SuitsSmall(op, letter, layout) /\ SuitsWord(op, letter, layout)
  /\ SuitsMove(op, letter, layout) /\ SuitsGroup(op, letter, layout, reg)
FitRow(row) == \A reg \in 0..7 : Suits(row.ops[reg], row.w, row.layout, reg)
FitRows(rows) == \A k \in 1..8 : FitRow(rows[k])

\* An operation that the encoder does not know.
Foreign(op) ==
  /\ op \notin SingleOps \cup OneOperands \cup Words \cup Counts \cup Extends
  /\ op \notin ArithOps \cup MathOps \cup ShiftOps \cup {"cbw", "xchg", "mov"}

LEMMA ForeignFits ==
  ASSUME NEW op, Foreign(op), NEW letter, NEW layout, NEW reg
  PROVE  Suits(op, letter, layout, reg)
<1>1. SuitsSmall(op, letter, layout) BY DEF Foreign, SuitsSmall, OneOperands
<1>2. SuitsWord(op, letter, layout) BY DEF Foreign, SuitsWord, Words
<1>3. SuitsMove(op, letter, layout) BY DEF Foreign, SuitsMove
<1>4. SuitsGroup(op, letter, layout, reg) BY DEF Foreign, SuitsGroup
<1>5. QED BY <1>1, <1>2, <1>3, <1>4 DEF Suits

\* Eight rows.
LEMMA EightFit ==
  ASSUME NEW a, FitRow(a), NEW b, FitRow(b), NEW c, FitRow(c), NEW d, FitRow(d),
         NEW e, FitRow(e), NEW f, FitRow(f), NEW g, FitRow(g), NEW h, FitRow(h),
         NEW rows, rows = <<a, b, c, d, e, f, g, h>>
  PROVE  FitRows(rows)
<1>1. \A k \in 1..8 : k = 1 \/ k = 2 \/ k = 3 \/ k = 4 \/ k = 5 \/ k = 6 \/ k = 7 \/ k = 8 OBVIOUS
<1>2. QED BY <1>1 DEF FitRows

LEMMA SameFit ==
  ASSUME NEW a, FitRow(a)
  PROVE  FitRows(Same(a))
BY DEF FitRows, Same

\* A row of one operation, and one of a group.
LEMMA RowFits ==
  ASSUME NEW op, NEW letter, NEW layout, \A reg \in 0..7 : Suits(op, letter, layout, reg)
  PROVE  FitRow(Row(op, letter, layout))
BY DEF FitRow, Row

LEMMA GroupFits ==
  ASSUME NEW names, NEW letter, NEW layout, \A reg \in 0..7 : Suits(names[reg + 1], letter, layout, reg)
  PROVE  FitRow(Group(names, letter, layout))
BY DEF FitRow, Group

LEMMA ForeignRowFits ==
  ASSUME NEW op, Foreign(op), NEW letter, NEW layout
  PROVE  FitRow(Row(op, letter, layout))
BY ForeignFits, RowFits

LEMMA PlainFits ==
  ASSUME NEW op, Foreign(op) \/ op \in SingleOps
  PROVE  FitRow(Plain(op))
<1>1. CASE Foreign(op) BY <1>1, ForeignRowFits DEF Plain
<1>2. CASE op \in SingleOps
  <2>1. op \notin OneOperands \cup Words \cup Counts \cup Extends \cup ArithOps \cup MathOps \cup ShiftOps \cup {"cbw", "xchg", "mov"}
    BY <1>2, OperationsAre DEF OneOperands, Words, Counts, Extends
  <2>2. SuitsSmall(op, "none", "none") BY <1>2, <2>1 DEF SuitsSmall, OneOperands, AsNone
  <2>3. SuitsWord(op, "none", "none") BY <2>1 DEF SuitsWord, Words
  <2>4. SuitsMove(op, "none", "none") BY <2>1 DEF SuitsMove
  <2>5. \A reg \in 0..7 : SuitsGroup(op, "none", "none", reg) BY <2>1 DEF SuitsGroup
  <2>6. \A reg \in 0..7 : Suits(op, "none", "none", reg) BY <2>2, <2>3, <2>4, <2>5 DEF Suits
  <2>7. QED BY <2>6, RowFits DEF Plain
<1>3. QED BY <1>1, <1>2

\* The names of these operations.
LEMMA ForeignNames ==
  /\ \A op \in {"invalid", "uninitialized", "pusha", "popa", "bound", "arpl", "insb", "insw", "outsb",
               "outsw", "jo", "jno", "jc", "jnc", "jz", "jnz", "jna", "ja", "js", "jns", "jpe", "jpo", "jl",
               "jnl", "jng", "jg", "callfar", "callnear", "jmpnear", "jmpfar", "jmpshort", "fwait", "pushf",
               "movsb", "movs", "stosb", "stos", "lodsb", "lods", "scasb", "scasw", "retn", "les", "lds",
               "enter", "leave", "retf", "into", "iret", "loopne", "loope", "jcxz", "in", "out", "hlt",
               "sldt", "lar", "setc", "setnz", "setg", "bts"} : Foreign(op)
  /\ \A op \in {"fadd", "fmul", "fcomp", "fsub", "fsubr", "fdiv", "fdivr", "fld", "fst", "fstp", "fldcw",
               "fnstcw", "fchs", "fabs", "ftst", "fld1", "fldl2t", "fldl2e", "fldpi", "fldz", "fsqrt",
               "fsincos", "frndint", "fsin", "fcos", "fxch", "fpatan", "ficomp", "fild", "fisttp", "fistp",
               "finit", "ffree", "faddp", "fimul", "ficom", "fsubrp", "fsubp", "fidiv", "fdivp", "fist",
               "fstsw"} : Foreign(op)
<1>1. \A op \in {"invalid", "uninitialized", "pusha", "popa", "bound", "arpl", "insb", "insw", "outsb",
               "outsw", "jo", "jno", "jc", "jnc", "jz", "jnz", "jna", "ja", "js", "jns", "jpe", "jpo", "jl",
               "jnl", "jng", "jg", "callfar", "callnear", "jmpnear", "jmpfar", "jmpshort", "fwait", "pushf",
               "movsb", "movs", "stosb", "stos", "lodsb", "lods", "scasb", "scasw", "retn", "les", "lds",
               "enter", "leave", "retf", "into", "iret", "loopne", "loope", "jcxz", "in", "out", "hlt",
               "sldt", "lar", "setc", "setnz", "setg", "bts"} : Foreign(op)
  BY OperationsAre DEF Foreign, OneOperands, Words, Counts, Extends
<1>2. \A op \in {"fadd", "fmul", "fcomp", "fsub", "fsubr", "fdiv", "fdivr", "fld", "fst", "fstp", "fldcw",
               "fnstcw", "fchs", "fabs", "ftst", "fld1", "fldl2t", "fldl2e", "fldpi", "fldz", "fsqrt",
               "fsincos", "frndint", "fsin", "fcos", "fxch", "fpatan", "ficomp", "fild", "fisttp", "fistp",
               "finit", "ffree", "faddp", "fimul", "ficom", "fsubrp", "fsubp", "fidiv", "fdivp", "fist",
               "fstsw"} : Foreign(op)
  BY SMTT(60), OperationsAre DEF Foreign, OneOperands, Words, Counts, Extends
<1>3. QED BY <1>1, <1>2

\* The rows of operations with at most one operand.
LEMMA SmallRowsFit ==
  /\ FitRow(Row("push", "w", "imm"))
  /\ FitRow(Row("push", "w", "imms8"))
  /\ FitRow(Row("cbw", "v", "none"))
  /\ FitRow(Row("int", "none", "three"))
  /\ FitRow(Row("int", "none", "imm8"))
  /\ FitRow(Row("aam", "none", "imm8"))
  /\ FitRow(Row("aad", "none", "imm8"))
  /\ FitRow(Row("loop", "none", "rel8"))
  /\ FitRow(Row("int", "none", "oneb"))
  /\ FitRow(Row("push", "v", "reg"))
  /\ FitRow(Row("pop", "v", "reg"))
<1> QED BY SMTT(60), OperationsAre
 
    DEF FitRow, Row, Suits, SuitsSmall, SuitsWord, SuitsMove, SuitsGroup, OneOperands, Words, Counts, Extends,
        AsSregs, AsNone, AsOne, AsThree, AsImm8, AsImmS8, AsReg, AsRm, AsImm, AsRel8, AsRRm, AsRmR, AsRmRImm8,
        AsAccReg, AsRRm8, AsR32Rm16, AsAccOffset, AsOffsetAcc, AsRegImm, AsRmImm, AsRmSreg, AsSregRm, AsAccImm,
        AsRmImmS8, AsMath, AsRRmImm, AsRRmImmS8, AsRmImm8, AsRmOne, AsRmCl

\* Of words, exchanges and extensions.
LEMMA WordRowsFit ==
  /\ FitRow(Row("xchg", "b", "rm,r"))
  /\ FitRow(Row("xchg", "w", "rm,r"))
  /\ FitRow(Row("lea", "w", "r,rm"))
  /\ FitRow(Row("inc", "v", "reg"))
  /\ FitRow(Row("dec", "v", "reg"))
  /\ FitRow(Row("xchg", "v", "acc,reg"))
  /\ FitRow(Row("bt", "w", "rm,r"))
  /\ FitRow(Row("shld", "w", "rm,r,imm8"))
  /\ FitRow(Row("shrd", "w", "rm,r,imm8"))
  /\ FitRow(Row("movzx", "v", "r,rm8"))
  /\ FitRow(Row("movsx", "v", "r,rm8"))
  /\ FitRow(Row("bsf", "w", "r,rm"))
<1> QED BY SMTT(60), OperationsAre
 
    DEF FitRow, Row, Suits, SuitsSmall, SuitsWord, SuitsMove, SuitsGroup, OneOperands, Words, Counts, Extends,
        AsSregs, AsNone, AsOne, AsThree, AsImm8, AsImmS8, AsReg, AsRm, AsImm, AsRel8, AsRRm, AsRmR, AsRmRImm8,
        AsAccReg, AsRRm8, AsR32Rm16, AsAccOffset, AsOffsetAcc, AsRegImm, AsRmImm, AsRmSreg, AsSregRm, AsAccImm,
        AsRmImmS8, AsMath, AsRRmImm, AsRRmImmS8, AsRmImm8, AsRmOne, AsRmCl

\* Of moves.
LEMMA MovesFit ==
  /\ FitRow(Row("mov", "b", "rm,r"))
  /\ FitRow(Row("mov", "v", "rm,r"))
  /\ FitRow(Row("mov", "b", "r,rm"))
  /\ FitRow(Row("mov", "v", "r,rm"))
  /\ FitRow(Row("mov", "w", "rm,sreg"))
  /\ FitRow(Row("mov", "w", "sreg,rm"))
  /\ FitRow(Row("mov", "b", "acc,moffs"))
  /\ FitRow(Row("mov", "v", "acc,moffs"))
  /\ FitRow(Row("mov", "b", "moffs,acc"))
  /\ FitRow(Row("mov", "v", "moffs,acc"))
  /\ FitRow(Row("mov", "b", "reg,imm"))
  /\ FitRow(Row("mov", "v", "reg,imm"))
<1> QED BY SMTT(60), OperationsAre
 
    DEF FitRow, Row, Suits, SuitsSmall, SuitsWord, SuitsMove, SuitsGroup, OneOperands, Words, Counts, Extends,
        AsSregs, AsNone, AsOne, AsThree, AsImm8, AsImmS8, AsReg, AsRm, AsImm, AsRel8, AsRRm, AsRmR, AsRmRImm8,
        AsAccReg, AsRRm8, AsR32Rm16, AsAccOffset, AsOffsetAcc, AsRegImm, AsRmImm, AsRmSreg, AsSregRm, AsAccImm,
        AsRmImmS8, AsMath, AsRRmImm, AsRRmImmS8, AsRmImm8, AsRmOne, AsRmCl

\* Of TEST and IMUL.
LEMMA TestsFit ==
  /\ FitRow(Row("imul", "v", "r,rm,imm"))
  /\ FitRow(Row("imul", "v", "r,rm,imms8"))
  /\ FitRow(Row("test", "b", "rm,r"))
  /\ FitRow(Row("test", "v", "rm,r"))
  /\ FitRow(Row("test", "b", "acc,imm"))
  /\ FitRow(Row("test", "v", "acc,imm"))
  /\ FitRow(Row("imul", "v", "r,rm"))
<1> QED BY SMTT(60), OperationsAre
 
    DEF FitRow, Row, Suits, SuitsSmall, SuitsWord, SuitsMove, SuitsGroup, OneOperands, Words, Counts, Extends,
        AsSregs, AsNone, AsOne, AsThree, AsImm8, AsImmS8, AsReg, AsRm, AsImm, AsRel8, AsRRm, AsRmR, AsRmRImm8,
        AsAccReg, AsRRm8, AsR32Rm16, AsAccOffset, AsOffsetAcc, AsRegImm, AsRmImm, AsRmSreg, AsSregRm, AsAccImm,
        AsRmImmS8, AsMath, AsRRmImm, AsRRmImmS8, AsRmImm8, AsRmOne, AsRmCl

\* The operations of the groups.
LEMMA GroupNames ==
  ASSUME NEW reg \in 0..7
  PROVE  /\ Arith[reg + 1] \in ArithOps
         /\ Shifts[reg + 1] \in ShiftOps \cup {Invalid}
         /\ Math[reg + 1] \in MathOps /\ (Math[reg + 1] = "test" <=> reg < 2)
         /\ Only("pop")[reg + 1] \in {"pop", Invalid}
         /\ Only("mov")[reg + 1] \in {"mov", Invalid}
         /\ IncDec[reg + 1] \in {"inc", "dec", Invalid}
         /\ IncDecCall[reg + 1] \in {"inc", "dec", "push", "callnear", "callfar", "jmpnear", "jmpfar", Invalid}
<1>1. reg = 0 \/ reg = 1 \/ reg = 2 \/ reg = 3 \/ reg = 4 \/ reg = 5 \/ reg = 6 \/ reg = 7 OBVIOUS
<1>2. Arith[reg + 1] \in ArithOps BY <1>1, OperationsAre DEF Arith
<1>3. Shifts[reg + 1] \in ShiftOps \cup {Invalid} BY <1>1, OperationsAre DEF Shifts
<1>4. Math[reg + 1] \in MathOps /\ (Math[reg + 1] = "test" <=> reg < 2) BY <1>1, OperationsAre DEF Math
<1>5. Only("pop")[reg + 1] \in {"pop", Invalid} BY DEF Only
<1>6. Only("mov")[reg + 1] \in {"mov", Invalid} BY DEF Only
<1>7. IncDec[reg + 1] \in {"inc", "dec", Invalid} BY <1>1 DEF IncDec
<1>8. IncDecCall[reg + 1] \in {"inc", "dec", "push", "callnear", "callfar", "jmpnear", "jmpfar", Invalid}
  BY <1>1 DEF IncDecCall
<1>9. QED BY <1>2, <1>3, <1>4, <1>5, <1>6, <1>7, <1>8

\* The rows of the groups.
LEMMA GroupsFit ==
  /\ FitRow(Group(Arith, "b", "rm,imm"))
  /\ FitRow(Group(Arith, "v", "rm,imm"))
  /\ FitRow(Group(Arith, "v", "rm,imms8"))
  /\ FitRow(Group(Only("pop"), "w", "rm"))
  /\ FitRow(Group(Shifts, "b", "rm,imm8"))
  /\ FitRow(Group(Shifts, "v", "rm,imm8"))
  /\ FitRow(Group(Only("mov"), "b", "rm,imm"))
  /\ FitRow(Group(Only("mov"), "v", "rm,imm"))
  /\ FitRow(Group(Shifts, "b", "rm,one"))
  /\ FitRow(Group(Shifts, "w", "rm,one"))
  /\ FitRow(Group(Shifts, "b", "rm,cl"))
  /\ FitRow(Group(Shifts, "w", "rm,cl"))
  /\ FitRow(Group(Math, "b", "math"))
  /\ FitRow(Group(Math, "v", "math"))
  /\ FitRow(Group(IncDec, "b", "rm"))
  /\ FitRow(Group(IncDecCall, "v", "rm"))
  /\ FitRow(IncDec32)
<1>0. Foreign(Invalid) /\ Foreign("callnear") /\ Foreign("callfar") /\ Foreign("jmpnear") /\ Foreign("jmpfar")
  BY ForeignNames DEF Invalid
<1> DEFINE names32 == <<"inc", "dec", Invalid, Invalid, Invalid, Invalid, "push", Invalid>>
<1>1. FitRow(Group(Arith, "b", "rm,imm"))
  <2>1. ASSUME NEW reg \in 0..7 PROVE Suits(Arith[reg + 1], "b", "rm,imm", reg)
    <3>1. PICK op : op = Arith[reg + 1] /\ (op \in ArithOps \/ op = Invalid) BY GroupNames
    <3>2. CASE op \in ArithOps
      <4>1. Suits(op, "b", "rm,imm", reg)
        BY <3>1, <3>2, OperationsAre
          DEF Suits, SuitsSmall, SuitsWord, SuitsMove, SuitsGroup, OneOperands, Words, Counts, Extends, AsSregs,
              AsNone, AsOne, AsThree, AsImm8, AsImmS8, AsReg, AsRm, AsImm, AsRel8, AsRRm, AsRmR, AsRmRImm8, AsAccReg,
              AsRRm8, AsR32Rm16, AsAccOffset, AsOffsetAcc, AsRegImm, AsRmImm, AsRmSreg, AsSregRm, AsAccImm, AsRmImmS8,
              AsMath, AsRRmImm, AsRRmImmS8, AsRmImm8, AsRmOne, AsRmCl
      <4>2. QED BY <3>1, <4>1
    <3>3. CASE Foreign(op) BY <3>1, <3>3, ForeignFits
    <3>4. QED BY <1>0, <3>1, <3>2, <3>3
  <2>2. QED BY <2>1, GroupFits
<1>2. FitRow(Group(Arith, "v", "rm,imm"))
  <2>1. ASSUME NEW reg \in 0..7 PROVE Suits(Arith[reg + 1], "v", "rm,imm", reg)
    <3>1. PICK op : op = Arith[reg + 1] /\ (op \in ArithOps \/ op = Invalid) BY GroupNames
    <3>2. CASE op \in ArithOps
      <4>1. Suits(op, "v", "rm,imm", reg)
        BY <3>1, <3>2, OperationsAre
          DEF Suits, SuitsSmall, SuitsWord, SuitsMove, SuitsGroup, OneOperands, Words, Counts, Extends, AsSregs,
              AsNone, AsOne, AsThree, AsImm8, AsImmS8, AsReg, AsRm, AsImm, AsRel8, AsRRm, AsRmR, AsRmRImm8, AsAccReg,
              AsRRm8, AsR32Rm16, AsAccOffset, AsOffsetAcc, AsRegImm, AsRmImm, AsRmSreg, AsSregRm, AsAccImm, AsRmImmS8,
              AsMath, AsRRmImm, AsRRmImmS8, AsRmImm8, AsRmOne, AsRmCl
      <4>2. QED BY <3>1, <4>1
    <3>3. CASE Foreign(op) BY <3>1, <3>3, ForeignFits
    <3>4. QED BY <1>0, <3>1, <3>2, <3>3
  <2>2. QED BY <2>1, GroupFits
<1>3. FitRow(Group(Arith, "v", "rm,imms8"))
  <2>1. ASSUME NEW reg \in 0..7 PROVE Suits(Arith[reg + 1], "v", "rm,imms8", reg)
    <3>1. PICK op : op = Arith[reg + 1] /\ (op \in ArithOps \/ op = Invalid) BY GroupNames
    <3>2. CASE op \in ArithOps
      <4>1. Suits(op, "v", "rm,imms8", reg)
        BY <3>1, <3>2, OperationsAre
          DEF Suits, SuitsSmall, SuitsWord, SuitsMove, SuitsGroup, OneOperands, Words, Counts, Extends, AsSregs,
              AsNone, AsOne, AsThree, AsImm8, AsImmS8, AsReg, AsRm, AsImm, AsRel8, AsRRm, AsRmR, AsRmRImm8, AsAccReg,
              AsRRm8, AsR32Rm16, AsAccOffset, AsOffsetAcc, AsRegImm, AsRmImm, AsRmSreg, AsSregRm, AsAccImm, AsRmImmS8,
              AsMath, AsRRmImm, AsRRmImmS8, AsRmImm8, AsRmOne, AsRmCl
      <4>2. QED BY <3>1, <4>1
    <3>3. CASE Foreign(op) BY <3>1, <3>3, ForeignFits
    <3>4. QED BY <1>0, <3>1, <3>2, <3>3
  <2>2. QED BY <2>1, GroupFits
<1>4. FitRow(Group(Only("pop"), "w", "rm"))
  <2>1. ASSUME NEW reg \in 0..7 PROVE Suits(Only("pop")[reg + 1], "w", "rm", reg)
    <3>1. PICK op : op = Only("pop")[reg + 1] /\ (op \in {"pop"} \/ op = Invalid) BY GroupNames
    <3>2. CASE op \in {"pop"}
      <4>1. Suits(op, "w", "rm", reg)
        BY <3>1, <3>2, OperationsAre
          DEF Suits, SuitsSmall, SuitsWord, SuitsMove, SuitsGroup, OneOperands, Words, Counts, Extends, AsSregs,
              AsNone, AsOne, AsThree, AsImm8, AsImmS8, AsReg, AsRm, AsImm, AsRel8, AsRRm, AsRmR, AsRmRImm8, AsAccReg,
              AsRRm8, AsR32Rm16, AsAccOffset, AsOffsetAcc, AsRegImm, AsRmImm, AsRmSreg, AsSregRm, AsAccImm, AsRmImmS8,
              AsMath, AsRRmImm, AsRRmImmS8, AsRmImm8, AsRmOne, AsRmCl
      <4>2. QED BY <3>1, <4>1
    <3>3. CASE Foreign(op) BY <3>1, <3>3, ForeignFits
    <3>4. QED BY <1>0, <3>1, <3>2, <3>3
  <2>2. QED BY <2>1, GroupFits
<1>5. FitRow(Group(Shifts, "b", "rm,imm8"))
  <2>1. ASSUME NEW reg \in 0..7 PROVE Suits(Shifts[reg + 1], "b", "rm,imm8", reg)
    <3>1. PICK op : op = Shifts[reg + 1] /\ (op \in ShiftOps \/ op = Invalid) BY GroupNames
    <3>2. CASE op \in ShiftOps
      <4>1. Suits(op, "b", "rm,imm8", reg)
        BY <3>1, <3>2, OperationsAre
          DEF Suits, SuitsSmall, SuitsWord, SuitsMove, SuitsGroup, OneOperands, Words, Counts, Extends, AsSregs,
              AsNone, AsOne, AsThree, AsImm8, AsImmS8, AsReg, AsRm, AsImm, AsRel8, AsRRm, AsRmR, AsRmRImm8, AsAccReg,
              AsRRm8, AsR32Rm16, AsAccOffset, AsOffsetAcc, AsRegImm, AsRmImm, AsRmSreg, AsSregRm, AsAccImm, AsRmImmS8,
              AsMath, AsRRmImm, AsRRmImmS8, AsRmImm8, AsRmOne, AsRmCl
      <4>2. QED BY <3>1, <4>1
    <3>3. CASE Foreign(op) BY <3>1, <3>3, ForeignFits
    <3>4. QED BY <1>0, <3>1, <3>2, <3>3
  <2>2. QED BY <2>1, GroupFits
<1>6. FitRow(Group(Shifts, "v", "rm,imm8"))
  <2>1. ASSUME NEW reg \in 0..7 PROVE Suits(Shifts[reg + 1], "v", "rm,imm8", reg)
    <3>1. PICK op : op = Shifts[reg + 1] /\ (op \in ShiftOps \/ op = Invalid) BY GroupNames
    <3>2. CASE op \in ShiftOps
      <4>1. Suits(op, "v", "rm,imm8", reg)
        BY <3>1, <3>2, OperationsAre
          DEF Suits, SuitsSmall, SuitsWord, SuitsMove, SuitsGroup, OneOperands, Words, Counts, Extends, AsSregs,
              AsNone, AsOne, AsThree, AsImm8, AsImmS8, AsReg, AsRm, AsImm, AsRel8, AsRRm, AsRmR, AsRmRImm8, AsAccReg,
              AsRRm8, AsR32Rm16, AsAccOffset, AsOffsetAcc, AsRegImm, AsRmImm, AsRmSreg, AsSregRm, AsAccImm, AsRmImmS8,
              AsMath, AsRRmImm, AsRRmImmS8, AsRmImm8, AsRmOne, AsRmCl
      <4>2. QED BY <3>1, <4>1
    <3>3. CASE Foreign(op) BY <3>1, <3>3, ForeignFits
    <3>4. QED BY <1>0, <3>1, <3>2, <3>3
  <2>2. QED BY <2>1, GroupFits
<1>7. FitRow(Group(Only("mov"), "b", "rm,imm"))
  <2>1. ASSUME NEW reg \in 0..7 PROVE Suits(Only("mov")[reg + 1], "b", "rm,imm", reg)
    <3>1. PICK op : op = Only("mov")[reg + 1] /\ (op \in {"mov"} \/ op = Invalid) BY GroupNames
    <3>2. CASE op \in {"mov"}
      <4>1. Suits(op, "b", "rm,imm", reg)
        BY <3>1, <3>2, OperationsAre
          DEF Suits, SuitsSmall, SuitsWord, SuitsMove, SuitsGroup, OneOperands, Words, Counts, Extends, AsSregs,
              AsNone, AsOne, AsThree, AsImm8, AsImmS8, AsReg, AsRm, AsImm, AsRel8, AsRRm, AsRmR, AsRmRImm8, AsAccReg,
              AsRRm8, AsR32Rm16, AsAccOffset, AsOffsetAcc, AsRegImm, AsRmImm, AsRmSreg, AsSregRm, AsAccImm, AsRmImmS8,
              AsMath, AsRRmImm, AsRRmImmS8, AsRmImm8, AsRmOne, AsRmCl
      <4>2. QED BY <3>1, <4>1
    <3>3. CASE Foreign(op) BY <3>1, <3>3, ForeignFits
    <3>4. QED BY <1>0, <3>1, <3>2, <3>3
  <2>2. QED BY <2>1, GroupFits
<1>8. FitRow(Group(Only("mov"), "v", "rm,imm"))
  <2>1. ASSUME NEW reg \in 0..7 PROVE Suits(Only("mov")[reg + 1], "v", "rm,imm", reg)
    <3>1. PICK op : op = Only("mov")[reg + 1] /\ (op \in {"mov"} \/ op = Invalid) BY GroupNames
    <3>2. CASE op \in {"mov"}
      <4>1. Suits(op, "v", "rm,imm", reg)
        BY <3>1, <3>2, OperationsAre
          DEF Suits, SuitsSmall, SuitsWord, SuitsMove, SuitsGroup, OneOperands, Words, Counts, Extends, AsSregs,
              AsNone, AsOne, AsThree, AsImm8, AsImmS8, AsReg, AsRm, AsImm, AsRel8, AsRRm, AsRmR, AsRmRImm8, AsAccReg,
              AsRRm8, AsR32Rm16, AsAccOffset, AsOffsetAcc, AsRegImm, AsRmImm, AsRmSreg, AsSregRm, AsAccImm, AsRmImmS8,
              AsMath, AsRRmImm, AsRRmImmS8, AsRmImm8, AsRmOne, AsRmCl
      <4>2. QED BY <3>1, <4>1
    <3>3. CASE Foreign(op) BY <3>1, <3>3, ForeignFits
    <3>4. QED BY <1>0, <3>1, <3>2, <3>3
  <2>2. QED BY <2>1, GroupFits
<1>9. FitRow(Group(Shifts, "b", "rm,one"))
  <2>1. ASSUME NEW reg \in 0..7 PROVE Suits(Shifts[reg + 1], "b", "rm,one", reg)
    <3>1. PICK op : op = Shifts[reg + 1] /\ (op \in ShiftOps \/ op = Invalid) BY GroupNames
    <3>2. CASE op \in ShiftOps
      <4>1. Suits(op, "b", "rm,one", reg)
        BY <3>1, <3>2, OperationsAre
          DEF Suits, SuitsSmall, SuitsWord, SuitsMove, SuitsGroup, OneOperands, Words, Counts, Extends, AsSregs,
              AsNone, AsOne, AsThree, AsImm8, AsImmS8, AsReg, AsRm, AsImm, AsRel8, AsRRm, AsRmR, AsRmRImm8, AsAccReg,
              AsRRm8, AsR32Rm16, AsAccOffset, AsOffsetAcc, AsRegImm, AsRmImm, AsRmSreg, AsSregRm, AsAccImm, AsRmImmS8,
              AsMath, AsRRmImm, AsRRmImmS8, AsRmImm8, AsRmOne, AsRmCl
      <4>2. QED BY <3>1, <4>1
    <3>3. CASE Foreign(op) BY <3>1, <3>3, ForeignFits
    <3>4. QED BY <1>0, <3>1, <3>2, <3>3
  <2>2. QED BY <2>1, GroupFits
<1>10. FitRow(Group(Shifts, "w", "rm,one"))
  <2>1. ASSUME NEW reg \in 0..7 PROVE Suits(Shifts[reg + 1], "w", "rm,one", reg)
    <3>1. PICK op : op = Shifts[reg + 1] /\ (op \in ShiftOps \/ op = Invalid) BY GroupNames
    <3>2. CASE op \in ShiftOps
      <4>1. Suits(op, "w", "rm,one", reg)
        BY <3>1, <3>2, OperationsAre
          DEF Suits, SuitsSmall, SuitsWord, SuitsMove, SuitsGroup, OneOperands, Words, Counts, Extends, AsSregs,
              AsNone, AsOne, AsThree, AsImm8, AsImmS8, AsReg, AsRm, AsImm, AsRel8, AsRRm, AsRmR, AsRmRImm8, AsAccReg,
              AsRRm8, AsR32Rm16, AsAccOffset, AsOffsetAcc, AsRegImm, AsRmImm, AsRmSreg, AsSregRm, AsAccImm, AsRmImmS8,
              AsMath, AsRRmImm, AsRRmImmS8, AsRmImm8, AsRmOne, AsRmCl
      <4>2. QED BY <3>1, <4>1
    <3>3. CASE Foreign(op) BY <3>1, <3>3, ForeignFits
    <3>4. QED BY <1>0, <3>1, <3>2, <3>3
  <2>2. QED BY <2>1, GroupFits
<1>11. FitRow(Group(Shifts, "b", "rm,cl"))
  <2>1. ASSUME NEW reg \in 0..7 PROVE Suits(Shifts[reg + 1], "b", "rm,cl", reg)
    <3>1. PICK op : op = Shifts[reg + 1] /\ (op \in ShiftOps \/ op = Invalid) BY GroupNames
    <3>2. CASE op \in ShiftOps
      <4>1. Suits(op, "b", "rm,cl", reg)
        BY <3>1, <3>2, OperationsAre
          DEF Suits, SuitsSmall, SuitsWord, SuitsMove, SuitsGroup, OneOperands, Words, Counts, Extends, AsSregs,
              AsNone, AsOne, AsThree, AsImm8, AsImmS8, AsReg, AsRm, AsImm, AsRel8, AsRRm, AsRmR, AsRmRImm8, AsAccReg,
              AsRRm8, AsR32Rm16, AsAccOffset, AsOffsetAcc, AsRegImm, AsRmImm, AsRmSreg, AsSregRm, AsAccImm, AsRmImmS8,
              AsMath, AsRRmImm, AsRRmImmS8, AsRmImm8, AsRmOne, AsRmCl
      <4>2. QED BY <3>1, <4>1
    <3>3. CASE Foreign(op) BY <3>1, <3>3, ForeignFits
    <3>4. QED BY <1>0, <3>1, <3>2, <3>3
  <2>2. QED BY <2>1, GroupFits
<1>12. FitRow(Group(Shifts, "w", "rm,cl"))
  <2>1. ASSUME NEW reg \in 0..7 PROVE Suits(Shifts[reg + 1], "w", "rm,cl", reg)
    <3>1. PICK op : op = Shifts[reg + 1] /\ (op \in ShiftOps \/ op = Invalid) BY GroupNames
    <3>2. CASE op \in ShiftOps
      <4>1. Suits(op, "w", "rm,cl", reg)
        BY <3>1, <3>2, OperationsAre
          DEF Suits, SuitsSmall, SuitsWord, SuitsMove, SuitsGroup, OneOperands, Words, Counts, Extends, AsSregs,
              AsNone, AsOne, AsThree, AsImm8, AsImmS8, AsReg, AsRm, AsImm, AsRel8, AsRRm, AsRmR, AsRmRImm8, AsAccReg,
              AsRRm8, AsR32Rm16, AsAccOffset, AsOffsetAcc, AsRegImm, AsRmImm, AsRmSreg, AsSregRm, AsAccImm, AsRmImmS8,
              AsMath, AsRRmImm, AsRRmImmS8, AsRmImm8, AsRmOne, AsRmCl
      <4>2. QED BY <3>1, <4>1
    <3>3. CASE Foreign(op) BY <3>1, <3>3, ForeignFits
    <3>4. QED BY <1>0, <3>1, <3>2, <3>3
  <2>2. QED BY <2>1, GroupFits
<1>13. FitRow(Group(Math, "b", "math"))
  <2>1. ASSUME NEW reg \in 0..7 PROVE Suits(Math[reg + 1], "b", "math", reg)
    <3>1. PICK op : op = Math[reg + 1] /\ op \in MathOps /\ (op = "test" <=> reg < 2) BY GroupNames
    <3>2. CASE op \in MathOps
      <4>1. Suits(op, "b", "math", reg)
        BY <3>1, <3>2, OperationsAre
          DEF Suits, SuitsSmall, SuitsWord, SuitsMove, SuitsGroup, OneOperands, Words, Counts, Extends, AsSregs,
              AsNone, AsOne, AsThree, AsImm8, AsImmS8, AsReg, AsRm, AsImm, AsRel8, AsRRm, AsRmR, AsRmRImm8, AsAccReg,
              AsRRm8, AsR32Rm16, AsAccOffset, AsOffsetAcc, AsRegImm, AsRmImm, AsRmSreg, AsSregRm, AsAccImm, AsRmImmS8,
              AsMath, AsRRmImm, AsRRmImmS8, AsRmImm8, AsRmOne, AsRmCl
      <4>2. QED BY <3>1, <4>1
    <3>3. QED BY <3>1, <3>2
  <2>2. QED BY <2>1, GroupFits
<1>14. FitRow(Group(Math, "v", "math"))
  <2>1. ASSUME NEW reg \in 0..7 PROVE Suits(Math[reg + 1], "v", "math", reg)
    <3>1. PICK op : op = Math[reg + 1] /\ op \in MathOps /\ (op = "test" <=> reg < 2) BY GroupNames
    <3>2. CASE op \in MathOps
      <4>1. Suits(op, "v", "math", reg)
        BY <3>1, <3>2, OperationsAre
          DEF Suits, SuitsSmall, SuitsWord, SuitsMove, SuitsGroup, OneOperands, Words, Counts, Extends, AsSregs,
              AsNone, AsOne, AsThree, AsImm8, AsImmS8, AsReg, AsRm, AsImm, AsRel8, AsRRm, AsRmR, AsRmRImm8, AsAccReg,
              AsRRm8, AsR32Rm16, AsAccOffset, AsOffsetAcc, AsRegImm, AsRmImm, AsRmSreg, AsSregRm, AsAccImm, AsRmImmS8,
              AsMath, AsRRmImm, AsRRmImmS8, AsRmImm8, AsRmOne, AsRmCl
      <4>2. QED BY <3>1, <4>1
    <3>3. QED BY <3>1, <3>2
  <2>2. QED BY <2>1, GroupFits
<1>15. FitRow(Group(IncDec, "b", "rm"))
  <2>1. ASSUME NEW reg \in 0..7 PROVE Suits(IncDec[reg + 1], "b", "rm", reg)
    <3>1. PICK op : op = IncDec[reg + 1] /\ (op \in {"inc", "dec"} \/ op = Invalid) BY GroupNames
    <3>2. CASE op \in {"inc", "dec"}
      <4>1. Suits(op, "b", "rm", reg)
        BY <3>1, <3>2, OperationsAre
          DEF Suits, SuitsSmall, SuitsWord, SuitsMove, SuitsGroup, OneOperands, Words, Counts, Extends, AsSregs,
              AsNone, AsOne, AsThree, AsImm8, AsImmS8, AsReg, AsRm, AsImm, AsRel8, AsRRm, AsRmR, AsRmRImm8, AsAccReg,
              AsRRm8, AsR32Rm16, AsAccOffset, AsOffsetAcc, AsRegImm, AsRmImm, AsRmSreg, AsSregRm, AsAccImm, AsRmImmS8,
              AsMath, AsRRmImm, AsRRmImmS8, AsRmImm8, AsRmOne, AsRmCl
      <4>2. QED BY <3>1, <4>1
    <3>3. CASE Foreign(op) BY <3>1, <3>3, ForeignFits
    <3>4. QED BY <1>0, <3>1, <3>2, <3>3
  <2>2. QED BY <2>1, GroupFits
<1>16. FitRow(Group(IncDecCall, "v", "rm"))
  <2>1. ASSUME NEW reg \in 0..7 PROVE Suits(IncDecCall[reg + 1], "v", "rm", reg)
    <3>1. PICK op : op = IncDecCall[reg + 1] /\ (op \in {"inc", "dec", "push"} \/ op \in {"callnear", "callfar", "jmpnear", "jmpfar", Invalid}) BY GroupNames
    <3>2. CASE op \in {"inc", "dec", "push"}
      <4>1. Suits(op, "v", "rm", reg)
        BY <3>1, <3>2, OperationsAre
          DEF Suits, SuitsSmall, SuitsWord, SuitsMove, SuitsGroup, OneOperands, Words, Counts, Extends, AsSregs,
              AsNone, AsOne, AsThree, AsImm8, AsImmS8, AsReg, AsRm, AsImm, AsRel8, AsRRm, AsRmR, AsRmRImm8, AsAccReg,
              AsRRm8, AsR32Rm16, AsAccOffset, AsOffsetAcc, AsRegImm, AsRmImm, AsRmSreg, AsSregRm, AsAccImm, AsRmImmS8,
              AsMath, AsRRmImm, AsRRmImmS8, AsRmImm8, AsRmOne, AsRmCl
      <4>2. QED BY <3>1, <4>1
    <3>3. CASE Foreign(op) BY <3>1, <3>3, ForeignFits
    <3>4. QED BY <1>0, <3>1, <3>2, <3>3
  <2>2. QED BY <2>1, GroupFits
<1>17. FitRow(Group(names32, "v", "rm"))
  <2>1. ASSUME NEW reg \in 0..7 PROVE Suits(names32[reg + 1], "v", "rm", reg)
    <3>0. reg = 0 \/ reg = 1 \/ reg = 2 \/ reg = 3 \/ reg = 4 \/ reg = 5 \/ reg = 6 \/ reg = 7 OBVIOUS
    <3>1. PICK op : op = names32[reg + 1] /\ (op \in {"inc", "dec", "push"} \/ op = Invalid) BY <3>0
    <3> HIDE DEF names32
    <3>2. CASE op \in {"inc", "dec", "push"}
      <4>1. Suits(op, "v", "rm", reg)
        BY <3>1, <3>2, OperationsAre
          DEF Suits, SuitsSmall, SuitsWord, SuitsMove, SuitsGroup, OneOperands, Words, Counts, Extends, AsSregs,
              AsNone, AsOne, AsThree, AsImm8, AsImmS8, AsReg, AsRm, AsImm, AsRel8, AsRRm, AsRmR, AsRmRImm8, AsAccReg,
              AsRRm8, AsR32Rm16, AsAccOffset, AsOffsetAcc, AsRegImm, AsRmImm, AsRmSreg, AsSregRm, AsAccImm, AsRmImmS8,
              AsMath, AsRRmImm, AsRRmImmS8, AsRmImm8, AsRmOne, AsRmCl
      <4>2. QED BY <3>1, <4>1
    <3>3. CASE Foreign(op) BY <3>1, <3>3, ForeignFits
    <3>4. QED BY <1>0, <3>1, <3>2, <3>3
  <2>2. QED BY <2>1, GroupFits
<1>18. FitRow(IncDec32) BY <1>17 DEF IncDec32
<1>19. QED BY <1>1, <1>2, <1>3, <1>4, <1>5, <1>6, <1>7, <1>8, <1>9, <1>10, <1>11, <1>12, <1>13, <1>14, <1>15, <1>16, <1>18

\* The eight rows of each list.
LEMMA UnusedFits == FitRow(Unused)
BY ForeignNames, PlainFits DEF Unused, Invalid

LEMMA PushaRowsFit == FitRows(PushaRows)
BY ZenonT(60), ForeignRowFits, ForeignNames, UnusedFits, EightFit DEF PushaRows

LEMMA ImmediateRowsFit == FitRows(ImmediateRows)
BY ZenonT(60), SmallRowsFit, TestsFit, PlainFits, ForeignNames, EightFit DEF ImmediateRows

LEMMA GroupRows80Fit == FitRows(GroupRows80)
BY GroupsFit, TestsFit, WordRowsFit, EightFit DEF GroupRows80

LEMMA MoveRowsFit == FitRows(MoveRows)
BY MovesFit, WordRowsFit, GroupsFit, EightFit DEF MoveRows

LEMMA ConvertRowsFit == FitRows(ConvertRows)
BY ZenonT(60), SmallRowsFit, PlainFits, OperationsAre, ForeignRowFits, ForeignNames, EightFit DEF ConvertRows

LEMMA OffsetRowsFit == FitRows(OffsetRows)
BY ZenonT(60), MovesFit, PlainFits, ForeignNames, ForeignRowFits, OperationsAre, EightFit DEF OffsetRows

LEMMA StringRowsFit == FitRows(StringRows)
BY ZenonT(60), TestsFit, PlainFits, ForeignNames, ForeignRowFits, EightFit DEF StringRows

LEMMA ReturnRowsFit == FitRows(ReturnRows)
BY ZenonT(60), GroupsFit, ForeignRowFits, ForeignNames, PlainFits, EightFit DEF ReturnRows

LEMMA EnterRowsFit == FitRows(EnterRows)
BY ZenonT(60), ForeignRowFits, ForeignNames, PlainFits, SmallRowsFit, EightFit DEF EnterRows

LEMMA ShiftRowsFit == FitRows(ShiftRows)
BY GroupsFit, SmallRowsFit, PlainFits, OperationsAre, EightFit DEF ShiftRows

LEMMA LoopRowsFit == FitRows(LoopRows)
BY ZenonT(60), ForeignRowFits, ForeignNames, SmallRowsFit, EightFit DEF LoopRows

LEMMA CallRowsFit == FitRows(CallRows)
BY ZenonT(60), ForeignRowFits, ForeignNames, EightFit DEF CallRows

LEMMA MathRowsFit == FitRows(MathRows)
BY ZenonT(60), UnusedFits, SmallRowsFit, PlainFits, ForeignNames, OperationsAre, GroupsFit, EightFit DEF MathRows

LEMMA FlagRowsFit == FitRows(FlagRows)
BY PlainFits, OperationsAre, GroupsFit, EightFit DEF FlagRows

\* The opcodes that hold a register number, and jumps.
LEMMA RegisterRowsFit ==
  /\ \A op \in {"inc", "dec", "push", "pop"} : FitRows(RegisterRows(op))
  /\ FitRows(ExchangeRows) /\ FitRows(JumpRows(0)) /\ FitRows(JumpRows(8))
  /\ FitRows(Same(Row("mov", "b", "reg,imm"))) /\ FitRows(Same(Row("mov", "v", "reg,imm")))
  /\ FitRows(Same(Unused))
<1>1. FitRow(Row("inc", "v", "reg")) /\ FitRow(Row("dec", "v", "reg")) BY WordRowsFit
<1>2. FitRow(Row("push", "v", "reg")) /\ FitRow(Row("pop", "v", "reg")) BY SmallRowsFit
<1>3. \A op \in {"inc", "dec", "push", "pop"} : FitRows(RegisterRows(op))
  BY <1>1, <1>2, SameFit DEF RegisterRows
<1>4. FitRows(ExchangeRows)
  <2>1. FitRow(Plain("nop")) BY PlainFits, OperationsAre
  <2>2. FitRow(Row("xchg", "v", "acc,reg")) BY WordRowsFit
  <2>3. QED BY <2>1, <2>2 DEF FitRows, ExchangeRows
<1>5. ASSUME NEW first \in {0, 8} PROVE FitRows(JumpRows(first))
  <2>1. ASSUME NEW k \in 1..8 PROVE FitRow(JumpRows(first)[k])
    <3>1. PICK n \in 1..16 : n = first + k OBVIOUS
    <3>2. PICK op : op = Conditions[n] OBVIOUS
    <3>3. Foreign(op)
      <4>1. n = 1 \/ n = 2 \/ n = 3 \/ n = 4 \/ n = 5 \/ n = 6 \/ n = 7 \/ n = 8 \/ n = 9 \/ n = 10 \/ n = 11
            \/ n = 12 \/ n = 13 \/ n = 14 \/ n = 15 \/ n = 16 OBVIOUS
      <4>2. QED BY <3>2, <4>1, ForeignNames DEF Conditions
    <3>4. JumpRows(first)[k] = Row(op, "none", "rel8") BY <3>1, <3>2 DEF JumpRows
    <3>5. QED BY <3>3, <3>4, ForeignRowFits
  <2>2. QED BY <2>1 DEF FitRows
<1>6. FitRows(Same(Row("mov", "b", "reg,imm"))) /\ FitRows(Same(Row("mov", "v", "reg,imm"))) BY MovesFit, SameFit
<1>7. FitRows(Same(Unused)) BY UnusedFits, SameFit
<1>8. QED BY <1>3, <1>4, <1>5, <1>6, <1>7

\* The forms of the arithmetic operations.
LEMMA ArithRowsFit ==
  ASSUME NEW op, op \in ArithOps, NEW wide, wide \in {"v", "w"}, NEW seventh, FitRow(seventh), NEW eighth, FitRow(eighth)
  PROVE  FitRows(ArithRows(op, wide, seventh, eighth))
<1>1. ASSUME NEW letter, letter \in {"b", "v", "w"}, NEW layout, layout \in {"rm,r", "r,rm", "acc,imm"}
      PROVE  FitRow(Row(op, letter, layout))
  <2>1. ASSUME NEW reg \in 0..7 PROVE Suits(op, letter, layout, reg)
    BY <1>1, OperationsAre
      DEF Suits, SuitsSmall, SuitsWord, SuitsMove, SuitsGroup, OneOperands, Words, Counts, Extends, AsSregs, AsNone,
          AsOne, AsThree, AsImm8, AsImmS8, AsReg, AsRm, AsImm, AsRel8, AsRRm, AsRmR, AsRmRImm8, AsAccReg, AsRRm8,
          AsR32Rm16, AsAccOffset, AsOffsetAcc, AsRegImm, AsRmImm, AsRmSreg, AsSregRm, AsAccImm, AsRmImmS8, AsMath,
          AsRRmImm, AsRRmImmS8, AsRmImm8, AsRmOne, AsRmCl
  <2>2. QED BY <2>1, RowFits
<1>2. FitRow(Row(op, "b", "rm,r")) /\ FitRow(Row(op, "v", "rm,r")) BY <1>1
<1>3. FitRow(Row(op, "b", "r,rm")) /\ FitRow(Row(op, wide, "r,rm")) BY <1>1
<1>4. FitRow(Row(op, "b", "acc,imm")) /\ FitRow(Row(op, "v", "acc,imm")) BY <1>1
<1>5. QED BY <1>2, <1>3, <1>4, EightFit DEF ArithRows

LEMMA StackRowsFit ==
  ASSUME NEW sreg, sreg \in AsSregs
  PROVE  FitRow(Push(sreg)) /\ FitRow(Pop(sreg))
<1>1. ASSUME NEW op, op \in {"push", "pop"}, NEW reg \in 0..7 PROVE Suits(op, "w", sreg, reg)
  BY <1>1, OperationsAre
    DEF Suits, SuitsSmall, SuitsWord, SuitsMove, SuitsGroup, OneOperands, Words, Counts, Extends, AsSregs, AsNone,
        AsOne, AsThree, AsImm8, AsImmS8, AsReg, AsRm, AsImm, AsRel8, AsRRm, AsRmR, AsRmRImm8, AsAccReg, AsRRm8,
        AsR32Rm16, AsAccOffset, AsOffsetAcc, AsRegImm, AsRmImm, AsRmSreg, AsSregRm, AsAccImm, AsRmImmS8, AsMath,
        AsRRmImm, AsRRmImmS8, AsRmImm8, AsRmOne, AsRmCl
<1>2. QED BY <1>1, RowFits DEF Push, Pop

\* The eight lists of them.
LEMMA ArithListsFit ==
  /\ FitRows(AddRows)
  /\ FitRows(OrRows)
  /\ FitRows(AdcRows)
  /\ FitRows(SbbRows)
  /\ FitRows(AndRows)
  /\ FitRows(SubRows)
  /\ FitRows(XorRows)
  /\ FitRows(CmpRows)
<1>1. \A sreg \in {"es", "cs", "ss", "ds"} : FitRow(Push(sreg)) /\ FitRow(Pop(sreg)) BY StackRowsFit DEF AsSregs
<1>2. FitRow(Plain("daa")) /\ FitRow(Plain("das")) /\ FitRow(Plain("aaa")) /\ FitRow(Plain("aas"))
  BY PlainFits, OperationsAre
<1>3. FitRow(Unused) BY UnusedFits
<1>4. \A op \in {"add", "or", "adc", "sbb", "and", "sub", "xor", "cmp"} : op \in ArithOps BY OperationsAre
<1>5. FitRows(AddRows) BY <1>1, <1>2, <1>3, <1>4, ArithRowsFit DEF AddRows
<1>6. FitRows(OrRows) BY <1>1, <1>2, <1>3, <1>4, ArithRowsFit DEF OrRows
<1>7. FitRows(AdcRows) BY <1>1, <1>2, <1>3, <1>4, ArithRowsFit DEF AdcRows
<1>8. FitRows(SbbRows) BY <1>1, <1>2, <1>3, <1>4, ArithRowsFit DEF SbbRows
<1>9. FitRows(AndRows) BY <1>1, <1>2, <1>3, <1>4, ArithRowsFit DEF AndRows
<1>10. FitRows(SubRows) BY <1>1, <1>2, <1>3, <1>4, ArithRowsFit DEF SubRows
<1>11. FitRows(XorRows) BY <1>1, <1>2, <1>3, <1>4, ArithRowsFit DEF XorRows
<1>12. FitRows(CmpRows) BY <1>1, <1>2, <1>3, <1>4, ArithRowsFit DEF CmpRows
<1>13. QED BY <1>5, <1>6, <1>7, <1>8, <1>9, <1>10, <1>11, <1>12

\* One byte of opcode.
LEMMA TableFits ==
  ASSUME NEW b \in Byte
  PROVE  FitRow(Table(b))
<1>1. FitRows(OpcodeMap[1]) BY ArithListsFit DEF OpcodeMap
<1>2. FitRows(OpcodeMap[2]) BY ArithListsFit DEF OpcodeMap
<1>3. FitRows(OpcodeMap[3]) BY ArithListsFit DEF OpcodeMap
<1>4. FitRows(OpcodeMap[4]) BY ArithListsFit DEF OpcodeMap
<1>5. FitRows(OpcodeMap[5]) BY ArithListsFit DEF OpcodeMap
<1>6. FitRows(OpcodeMap[6]) BY ArithListsFit DEF OpcodeMap
<1>7. FitRows(OpcodeMap[7]) BY ArithListsFit DEF OpcodeMap
<1>8. FitRows(OpcodeMap[8]) BY ArithListsFit DEF OpcodeMap
<1>9. FitRows(OpcodeMap[9]) BY RegisterRowsFit DEF OpcodeMap
<1>10. FitRows(OpcodeMap[10]) BY RegisterRowsFit DEF OpcodeMap
<1>11. FitRows(OpcodeMap[11]) BY RegisterRowsFit DEF OpcodeMap
<1>12. FitRows(OpcodeMap[12]) BY RegisterRowsFit DEF OpcodeMap
<1>13. FitRows(OpcodeMap[13]) BY PushaRowsFit DEF OpcodeMap
<1>14. FitRows(OpcodeMap[14]) BY ImmediateRowsFit DEF OpcodeMap
<1>15. FitRows(OpcodeMap[15]) BY RegisterRowsFit DEF OpcodeMap
<1>16. FitRows(OpcodeMap[16]) BY RegisterRowsFit DEF OpcodeMap
<1>17. FitRows(OpcodeMap[17]) BY GroupRows80Fit DEF OpcodeMap
<1>18. FitRows(OpcodeMap[18]) BY MoveRowsFit DEF OpcodeMap
<1>19. FitRows(OpcodeMap[19]) BY RegisterRowsFit DEF OpcodeMap
<1>20. FitRows(OpcodeMap[20]) BY ConvertRowsFit DEF OpcodeMap
<1>21. FitRows(OpcodeMap[21]) BY OffsetRowsFit DEF OpcodeMap
<1>22. FitRows(OpcodeMap[22]) BY StringRowsFit DEF OpcodeMap
<1>23. FitRows(OpcodeMap[23]) BY RegisterRowsFit DEF OpcodeMap
<1>24. FitRows(OpcodeMap[24]) BY RegisterRowsFit DEF OpcodeMap
<1>25. FitRows(OpcodeMap[25]) BY ReturnRowsFit DEF OpcodeMap
<1>26. FitRows(OpcodeMap[26]) BY EnterRowsFit DEF OpcodeMap
<1>27. FitRows(OpcodeMap[27]) BY ShiftRowsFit DEF OpcodeMap
<1>28. FitRows(OpcodeMap[28]) BY RegisterRowsFit DEF OpcodeMap
<1>29. FitRows(OpcodeMap[29]) BY LoopRowsFit DEF OpcodeMap
<1>30. FitRows(OpcodeMap[30]) BY CallRowsFit DEF OpcodeMap
<1>31. FitRows(OpcodeMap[31]) BY MathRowsFit DEF OpcodeMap
<1>32. FitRows(OpcodeMap[32]) BY FlagRowsFit DEF OpcodeMap
<1>33. PICK x \in 0..31, y \in 0..7 : b = 8 * x + y
  <2>1. b \in 0..255 BY DEF Byte
  <2>2. b \div 8 \in 0..31 /\ b % 8 \in 0..7 /\ b = 8 * (b \div 8) + (b % 8) BY <2>1
  <2>3. QED BY <2>2
<1>34. PICK n \in 1..32 : n = x + 1 OBVIOUS
<1>35. n \in 1..16 \/ n \in 17..32 BY SMTT(60)
<1>36. CASE n \in 1..16
  <2>1. n = 1 \/ n = 2 \/ n = 3 \/ n = 4 \/ n = 5 \/ n = 6 \/ n = 7 \/ n = 8 \/ n = 9 \/ n = 10 \/ n = 11 \/ n = 12 \/ n = 13 \/ n = 14 \/ n = 15 \/ n = 16 BY <1>36
  <2>2. FitRows(OpcodeMap[n]) BY <2>1, <1>1, <1>2, <1>3, <1>4, <1>5, <1>6, <1>7, <1>8, <1>9, <1>10, <1>11, <1>12, <1>13, <1>14, <1>15, <1>16, Zenon
  <2>3. QED BY <2>2, <1>33, <1>34, TableOf DEF FitRows
<1>37. CASE n \in 17..32
  <2>1. n = 17 \/ n = 18 \/ n = 19 \/ n = 20 \/ n = 21 \/ n = 22 \/ n = 23 \/ n = 24 \/ n = 25 \/ n = 26 \/ n = 27 \/ n = 28 \/ n = 29 \/ n = 30 \/ n = 31 \/ n = 32 BY <1>37
  <2>2. FitRows(OpcodeMap[n]) BY ZenonT(60), <2>1, <1>17, <1>18, <1>19, <1>20, <1>21, <1>22, <1>23, <1>24, <1>25, <1>26, <1>27, <1>28, <1>29, <1>30, <1>31, <1>32, Zenon
  <2>3. QED BY <2>2, <1>33, <1>34, TableOf DEF FitRows
<1>38. QED BY <1>35, <1>36, <1>37

\* Two bytes of opcode.
LEMMA Table0FFits ==
  ASSUME NEW b \in Byte, b # 183, b # 191
  PROVE  FitRow(Table0F(b))
<1>1. \A op : Foreign(op) => \A letter, layout : FitRow(Row(op, letter, layout)) BY ForeignRowFits
<1>2. CASE b = 0
  <2>1. ASSUME NEW reg \in 0..7 PROVE Suits(Only("sldt")[reg + 1], "w", "rm", reg)
    <3>1. PICK op : op = Only("sldt")[reg + 1] OBVIOUS
    <3>2. op = "sldt" \/ op = Invalid BY <3>1 DEF Only
    <3>3. Foreign(op) BY <3>2, ForeignNames DEF Invalid
    <3>4. QED BY <3>1, <3>3, ForeignFits
  <2>2. FitRow(Group(Only("sldt"), "w", "rm")) BY <2>1, GroupFits
  <2>3. QED BY <1>2, <2>2 DEF Table0F
<1>3. CASE b \in {130, 131, 132, 133, 134, 135, 137, 140, 141, 142, 143}
  <2>1. PICK n \in 1..16 : n = b - 127 BY <1>3
  <2>2. PICK op : op = Conditions[n] OBVIOUS
  <2>3. Foreign(op) BY <1>3, <2>1, <2>2, ForeignNames DEF Conditions
  <2>4. PICK row : row = Row(op, "none", "rel16") OBVIOUS
  <2>5. FitRow(row) BY <1>1, <2>3, <2>4
  <2>6. row = Row(Conditions[b - 127], "none", "rel16") BY <2>1, <2>2, <2>4
  <2>7. Table0F(b) = row
    <3>1. CASE b = 130 BY <2>6, <3>1 DEF Table0F
    <3>2. CASE b = 131 BY <2>6, <3>2 DEF Table0F
    <3>3. CASE b = 132 BY <2>6, <3>3 DEF Table0F
    <3>4. CASE b = 133 BY <2>6, <3>4 DEF Table0F
    <3>5. CASE b = 134 BY <2>6, <3>5 DEF Table0F
    <3>6. CASE b = 135 BY <2>6, <3>6 DEF Table0F
    <3>7. CASE b = 137 BY <2>6, <3>7 DEF Table0F
    <3>8. CASE b = 140 BY <2>6, <3>8 DEF Table0F
    <3>9. CASE b = 141 BY <2>6, <3>9 DEF Table0F
    <3>10. CASE b = 142 BY <2>6, <3>10 DEF Table0F
    <3>11. CASE b = 143 BY <2>6, <3>11 DEF Table0F
    <3>12. QED BY <1>3, <3>1, <3>2, <3>3, <3>4, <3>5, <3>6, <3>7, <3>8, <3>9, <3>10, <3>11
  <2>8. QED BY <2>5, <2>7
<1>4. CASE b = 2
  <2>1. Table0F(b) = Row("lar", "w", "r,rm") BY <1>4 DEF Table0F
  <2>2. FitRow(Row("lar", "w", "r,rm")) BY ZenonT(60), ForeignNames, ForeignRowFits
  <2>3. QED BY <2>1, <2>2
<1>5. CASE b = 146 BY <1>5, ForeignNames, ForeignRowFits DEF Table0F
<1>6. CASE b = 149 BY <1>6, ForeignNames, ForeignRowFits DEF Table0F
<1>7. CASE b = 159 BY <1>7, ForeignNames, ForeignRowFits DEF Table0F
<1>8. CASE b = 160 BY <1>8, StackRowsFit DEF Table0F, AsSregs
<1>9. CASE b = 161 BY <1>9, StackRowsFit DEF Table0F, AsSregs
<1>10. CASE b = 168 BY <1>10, StackRowsFit DEF Table0F, AsSregs
<1>11. CASE b = 169 BY <1>11, StackRowsFit DEF Table0F, AsSregs
<1>12. CASE b = 163
  <2>1. Table0F(b) = Row("bt", "w", "rm,r") BY <1>12 DEF Table0F
  <2>2. QED BY <2>1, WordRowsFit
<1>13. CASE b = 164
  <2>1. Table0F(b) = Row("shld", "w", "rm,r,imm8") BY <1>13 DEF Table0F
  <2>2. QED BY <2>1, WordRowsFit
<1>14. CASE b = 172
  <2>1. Table0F(b) = Row("shrd", "w", "rm,r,imm8") BY <1>14 DEF Table0F
  <2>2. QED BY <2>1, WordRowsFit
<1>15. CASE b = 175
  <2>1. Table0F(b) = Row("imul", "v", "r,rm") BY <1>15 DEF Table0F
  <2>2. QED BY <2>1, TestsFit
<1>16. CASE b = 182
  <2>1. Table0F(b) = Row("movzx", "v", "r,rm8") BY <1>16 DEF Table0F
  <2>2. QED BY <2>1, WordRowsFit
<1>17. CASE b = 190
  <2>1. Table0F(b) = Row("movsx", "v", "r,rm8") BY <1>17 DEF Table0F
  <2>2. QED BY <2>1, WordRowsFit
<1>18. CASE b = 186
  <2>1. Table0F(b) = Row("bts", "w", "rm,imm8") BY <1>18 DEF Table0F
  <2>2. FitRow(Row("bts", "w", "rm,imm8")) BY ZenonT(60), ForeignNames, ForeignRowFits
  <2>3. QED BY <2>1, <2>2
<1>19. CASE b = 188
  <2>1. Table0F(b) = Row("bsf", "w", "r,rm") BY <1>19 DEF Table0F
  <2>2. QED BY <2>1, WordRowsFit
<1>20. CASE b \notin {0, 2, 130, 131, 132, 133, 134, 135, 137, 140, 141, 142, 143, 146, 149, 159, 160, 161, 163, 164, 168, 169, 172, 175, 182, 183, 186, 188, 190, 191}
  <2>1. Table0F(b) = Plain(Invalid) BY ZenonT(60), <1>20 DEF Table0F
  <2>2. QED BY <2>1, UnusedFits DEF Unused
<1>21. QED BY <1>2, <1>3, <1>4, <1>5, <1>6, <1>7, <1>8, <1>9, <1>10, <1>11, <1>12, <1>13, <1>14, <1>15, <1>16, <1>17, <1>18, <1>19, <1>20

\* The coprocessor.
LEMMA FpuKinds ==
  ASSUME NEW op, Foreign(op), NEW letter
  PROVE  FitRow(Fpu(op)) /\ FitRow(Memory(op, letter)) /\ FitRow(Stack(op))
BY ForeignRowFits DEF Fpu, Memory, Stack

LEMMA FpuInvalidFits == FitRow(FpuInvalid)
BY ForeignNames, FpuKinds DEF FpuInvalid, Invalid

LEMMA FpuD8Fits == FitRows(FpuD8)
BY ZenonT(60), ForeignNames, FpuKinds, FpuInvalidFits, EightFit DEF FpuD8

LEMMA FpuD9Fits == FitRows(FpuD9)
BY ZenonT(60), ForeignNames, FpuKinds, FpuInvalidFits, EightFit DEF FpuD9

LEMMA FpuD9EFits == FitRows(FpuD9E)
BY ForeignNames, FpuKinds, FpuInvalidFits, EightFit DEF FpuD9E

LEMMA FpuD9E8Fits == FitRows(FpuD9E8)
BY ZenonT(60), ForeignNames, FpuKinds, FpuInvalidFits, EightFit DEF FpuD9E8

LEMMA FpuD9F8Fits == FitRows(FpuD9F8)
BY ZenonT(60), FpuInvalidFits, ForeignNames, FpuKinds, EightFit DEF FpuD9F8

LEMMA FpuDDFits == FitRows(FpuDD)
BY ZenonT(60), ForeignNames, FpuKinds, FpuInvalidFits, EightFit DEF FpuDD

LEMMA FpuDEFits == FitRows(FpuDE)
BY ZenonT(60), ForeignNames, FpuKinds, EightFit DEF FpuDE

LEMMA FpuDBFits ==
  ASSUME NEW md, NEW rm
  PROVE  FitRows(FpuDB(md, rm))
<1>1. FitRow(Memory("fild", "d")) BY ForeignNames, FpuKinds
<1>2. FitRow(Memory("fisttp", "d")) BY ForeignNames, FpuKinds
<1>3. FitRow(Memory("fistp", "d")) BY ForeignNames, FpuKinds
<1>4. FitRow(Fpu("finit")) BY ForeignNames, FpuKinds
<1>5. FitRow(Fpu(Uninitialized)) BY ForeignNames, FpuKinds DEF Uninitialized
<1>6. PICK fifth : fifth = IF md = 3 /\ rm = 3 THEN Fpu("finit") ELSE Fpu(Uninitialized) OBVIOUS
<1>7. FitRow(fifth) BY <1>4, <1>5, <1>6
<1>8. FpuDB(md, rm) = <<Memory("fild", "d"), Memory("fisttp", "d"), FpuInvalid, Memory("fistp", "d"), fifth,
                        FpuInvalid, FpuInvalid, FpuInvalid>>
  BY <1>6 DEF FpuDB
<1>9. QED BY <1>1, <1>2, <1>3, <1>7, <1>8, FpuInvalidFits, EightFit

LEMMA FpuDFFits ==
  ASSUME NEW md, NEW rm
  PROVE  FitRows(FpuDF(md, rm))
<1>1. FitRow(Memory("fild", "w")) /\ FitRow(Memory("fild", "d")) BY ForeignNames, FpuKinds
<1>2. FitRow(Memory("fist", "w")) BY ForeignNames, FpuKinds
<1>3. FitRow(Memory("fistp", "w")) /\ FitRow(Memory("fistp", "d")) BY ForeignNames, FpuKinds
<1>4. FitRow(Row("fstsw", "none", "ax")) BY ForeignNames, ForeignRowFits
<1>5. PICK fifth : fifth = IF md = 3 /\ rm = 0 THEN Row("fstsw", "none", "ax") ELSE FpuInvalid OBVIOUS
<1>6. FitRow(fifth) BY <1>4, <1>5, FpuInvalidFits
<1>7. FpuDF(md, rm) = <<Memory("fild", "w"), FpuInvalid, Memory("fist", "w"), Memory("fistp", "w"), fifth,
                        Memory("fild", "d"), FpuInvalid, Memory("fistp", "d")>>
  BY <1>5 DEF FpuDF
<1>8. QED BY <1>1, <1>2, <1>3, <1>6, <1>7, FpuInvalidFits, EightFit

LEMMA FpuD9RegisterFits ==
  ASSUME NEW reg \in 0..7, NEW rm \in 0..7
  PROVE  FitRow(FpuD9Register(reg, rm))
<1>1. FitRow(FpuD9E[rm + 1]) BY FpuD9EFits DEF FitRows
<1>2. FitRow(FpuD9E8[rm + 1]) BY FpuD9E8Fits DEF FitRows
<1>3. FitRow(FpuD9F8[rm + 1]) BY FpuD9F8Fits DEF FitRows
<1>4. FitRow(Stack("fld")) BY ForeignNames, FpuKinds
<1>5. FitRow(Stack("fxch")) BY ForeignNames, FpuKinds
<1>6. FitRow(Fpu("fpatan")) BY ForeignNames, FpuKinds
<1>7. FitRow(FpuInvalid) BY FpuInvalidFits
<1>8. \/ FpuD9Register(reg, rm) = FpuD9E[rm + 1] \/ FpuD9Register(reg, rm) = FpuD9E8[rm + 1]
      \/ FpuD9Register(reg, rm) = FpuD9F8[rm + 1] \/ FpuD9Register(reg, rm) = Stack("fld")
      \/ FpuD9Register(reg, rm) = Stack("fxch") \/ FpuD9Register(reg, rm) = Fpu("fpatan")
      \/ FpuD9Register(reg, rm) = FpuInvalid
  BY DEF FpuD9Register
<1>9. QED BY <1>1, <1>2, <1>3, <1>4, <1>5, <1>6, <1>7, <1>8

LEMMA FpuFits ==
  ASSUME NEW b, NEW md, NEW reg \in 0..7, NEW rm \in 0..7
  PROVE  FitRow(FpuRow(b, md, reg, rm))
<1>1. FitRow(FpuD8[reg + 1]) /\ FitRow(FpuD9[reg + 1]) /\ FitRow(FpuDD[reg + 1]) /\ FitRow(FpuDE[reg + 1])
  BY FpuD8Fits, FpuD9Fits, FpuDDFits, FpuDEFits DEF FitRows
<1>2. FitRow(FpuDB(md, rm)[reg + 1]) /\ FitRow(FpuDF(md, rm)[reg + 1]) BY FpuDBFits, FpuDFFits DEF FitRows
<1>3. FitRow(FpuD9Register(reg, rm)) BY FpuD9RegisterFits
<1>4. FitRow(Memory("ficomp", "d")) BY ForeignNames, FpuKinds
<1>5. FitRow(FpuInvalid) BY FpuInvalidFits
<1>6. \/ FpuRow(b, md, reg, rm) = FpuD8[reg + 1] \/ FpuRow(b, md, reg, rm) = FpuD9[reg + 1]
      \/ FpuRow(b, md, reg, rm) = FpuDD[reg + 1] \/ FpuRow(b, md, reg, rm) = FpuDE[reg + 1]
      \/ FpuRow(b, md, reg, rm) = FpuDB(md, rm)[reg + 1] \/ FpuRow(b, md, reg, rm) = FpuDF(md, rm)[reg + 1]
      \/ FpuRow(b, md, reg, rm) = FpuD9Register(reg, rm) \/ FpuRow(b, md, reg, rm) = Memory("ficomp", "d")
      \/ FpuRow(b, md, reg, rm) = FpuInvalid
  BY DEF FpuRow
<1>7. QED BY <1>1, <1>2, <1>3, <1>4, <1>5, <1>6

\* Whatever the opcode.
ExtendsWord(row) == \E op \in Extends : row = Row(op, "v", AsR32Rm16)
LEMMA RowsFit ==
  ASSUME NEW b \in Byte, NEW b2 \in Byte, NEW f \in Following, NEW c \in Contexts
  PROVE  FitRow(RowAt(b, b2, f, c)) \/ (c.size = 32 /\ ExtendsWord(RowAt(b, b2, f, c)))
<1>0. RegField(f) \in 0..7 /\ RmField(f) \in 0..7 BY FieldRanges
<1>1. CASE b = 15 /\ b2 \in {183, 191} /\ c.size = 16
  <2>1. RowAt(b, b2, f, c) = Unused BY <1>1 DEF RowAt, Unused
  <2>2. QED BY <2>1, UnusedFits
<1>2. CASE b = 15 /\ b2 \in {183, 191} /\ c.size # 16
  <2>1. RowAt(b, b2, f, c) = Table0F(b2) BY <1>2 DEF RowAt
  <2>2. c.size = 32 BY <1>2 DEF Contexts, Sizes
  <2>3. Table0F(183) = Row("movzx", "v", AsR32Rm16) /\ Table0F(191) = Row("movsx", "v", AsR32Rm16)
    BY Table0FIs DEF AsR32Rm16
  <2>4. "movzx" \in Extends /\ "movsx" \in Extends BY DEF Extends
  <2>5. CASE b2 = 183 BY <2>1, <2>2, <2>3, <2>4, <2>5 DEF ExtendsWord
  <2>6. CASE b2 = 191 BY <2>1, <2>2, <2>3, <2>4, <2>6 DEF ExtendsWord
  <2>7. QED BY <1>2, <2>5, <2>6
<1>3. CASE b = 15 /\ b2 \notin {183, 191}
  <2>1. RowAt(b, b2, f, c) = Table0F(b2) BY <1>3 DEF RowAt
  <2>2. QED BY <1>3, <2>1, Table0FFits
<1>4. CASE b \in 216..223
  <2>1. RowAt(b, b2, f, c) = FpuRow(b, Md(f), RegField(f), RmField(f)) BY <1>4 DEF RowAt
  <2>2. QED BY <1>0, <2>1, FpuFits
<1>5. CASE b = 255 /\ c.size = 32
  <2>1. RowAt(b, b2, f, c) = IncDec32 BY <1>5 DEF RowAt
  <2>2. QED BY <2>1, GroupsFit
<1>6. CASE b # 15 /\ b \notin 216..223 /\ ~(b = 255 /\ c.size = 32)
  <2>1. RowAt(b, b2, f, c) = Table(b) BY <1>6 DEF RowAt
  <2>2. QED BY <2>1, TableFits
<1>7. QED BY <1>1, <1>2, <1>3, <1>4, <1>5, <1>6

-----------------------------------------------------------------------------
(* The operands that the layouts give an instruction. *)

LEMMA MoreLayouts ==
  /\ AsRmCl \notin PlainLayouts /\ AsRmImmS8 \notin PlainLayouts /\ AsRRmImm \notin PlainLayouts
  /\ AsRmSreg \notin PlainLayouts /\ AsSregRm \notin PlainLayouts
  /\ AsImmS8 \in PlainLayouts /\ AsRel8 \in PlainLayouts /\ AsSregs \subseteq PlainLayouts
BY DEF PlainLayouts, AsRmCl, AsRmImmS8, AsRRmImm, AsRmSreg, AsSregRm, AsImmS8, AsRel8, AsSregs

LEMMA RmOperands ==
  ASSUME NEW row, row.layout \notin PlainLayouts, NEW c, NEW f, NEW b, NEW pos
  PROVE  OperandsAt(row, c, f, b, pos) = RmLayout(row.layout, Width(row, c), c, f)
BY DEF OperandsAt

LEMMA PlainOperands ==
  ASSUME NEW row, row.layout \in PlainLayouts, NEW c, NEW f, NEW b, NEW pos
  PROVE  OperandsAt(row, c, f, b, pos) = PlainLayout(row.layout, Width(row, c), c, f, b, pos)
BY DEF OperandsAt

\* What stands in the operand that has the number of a register or memory, in
\* the register field, and behind them.
LEMMA FieldOperands ==
  ASSUME NEW w, NEW c, NEW f \in Following
  PROVE  /\ IsRm(w, c, Rm(w, c, f)) /\ IsGeneral(w, Reg(w, GeneralNames(w)[RegField(f) + 1]))
         /\ w \in Widths => \E x : OfWidth(w, x) /\ ImmOf(w, f, RmLen(f)) = Imm(w, x)
         /\ f[RmLen(f)] \in Byte
<1>1. IsRm(w, c, Rm(w, c, f)) BY DEF IsRm
<1>2. RegField(f) \in 0..7 BY FieldRanges
<1>3. IsGeneral(w, Reg(w, GeneralNames(w)[RegField(f) + 1])) BY <1>2 DEF IsGeneral
<1>4. PICK n \in 1..3 : n = RmLen(f) BY DEF RmLen
<1>5. w \in Widths => \E x : OfWidth(w, x) /\ ImmOf(w, f, n) = Imm(w, x) BY ImmOfIs
<1>6. f[n] \in Byte BY DEF Following
<1>7. QED BY <1>1, <1>3, <1>4, <1>5, <1>6

\* The accumulator and the register in the opcode, and the address that stands
\* behind one.
LEMMA PlainFields ==
  ASSUME NEW w, NEW c, NEW f \in Following, NEW b \in Byte
  PROVE  /\ IsGeneral(w, Reg(w, GeneralNames(w)[1])) /\ IsGeneral(w, Reg(w, GeneralNames(w)[(b % 8) + 1]))
         /\ w \in Widths => \E x : OfWidth(w, x) /\ ImmOf(w, f, 0) = Imm(w, x)
         /\ IsRm(w, c, Ptr(w, c.seg, "direct", "none", U16(f, 0)))
         /\ f[0] \in Byte
<1>1. IsGeneral(w, Reg(w, GeneralNames(w)[1]))
  <2>1. 0 \in 0..7 /\ 0 + 1 = 1 OBVIOUS
  <2>2. QED BY <2>1 DEF IsGeneral
<1>2. PICK r \in 0..7 : r = b % 8 BY DEF Byte
<1>3. IsGeneral(w, Reg(w, GeneralNames(w)[(b % 8) + 1])) BY <1>2 DEF IsGeneral
<1>4. w \in Widths => \E x : OfWidth(w, x) /\ ImmOf(w, f, 0) = Imm(w, x) BY ImmOfIs
<1>5. f[0] \in Byte /\ f[1] \in Byte BY DEF Following
<1>6. IsRm(w, c, Ptr(w, c.seg, "direct", "none", U16(f, 0)))
  <2>1. PICK x \in Byte : x = ModRegRm(0, 0, 6) BY FieldsOf
  <2>2. PICK g : g = [k \in 0..7 |-> IF k = 0 THEN x ELSE IF k = 1 THEN f[0] ELSE f[1]] OBVIOUS
  <2>3. g \in Following BY <1>5, <2>2 DEF Following
  <2>4. g[0] = x /\ g[1] = f[0] /\ g[2] = f[1] BY <2>2
  <2>5. Md(g) = 0 /\ RmField(g) = 6 BY <2>1, <2>4, FieldsOf DEF Md, RmField
  <2>6. U16(g, 1) = U16(f, 0) BY <2>4 DEF U16
  <2>7. Rm(w, c, g) = Ptr(w, c.seg, "direct", "none", U16(f, 0)) BY <2>5, <2>6 DEF Rm
  <2>8. QED BY <2>3, <2>7 DEF IsRm
<1>7. QED BY <1>1, <1>3, <1>4, <1>5, <1>6

LEMMA HasRm ==
  ASSUME NEW row, row.layout = AsRm, NEW c, NEW f \in Following, NEW b \in Byte, NEW pos,
         NEW w \in Widths, w = Width(row, c), NEW o, o = OperandsAt(row, c, f, b, pos)
  PROVE  IsRm(w, c, o.dst) /\ o.src = None /\ o.src2 = None
<1>1. row.layout \notin PlainLayouts BY LayoutsAre, LayoutsApart
<1>2. o = RmLayout(AsRm, w, c, f) BY <1>1, RmOperands
<1>3. RmLayout(AsRm, w, c, f) = One(Rm(w, c, f), RmLen(f))
  BY DEF RmLayout, AsRm
<1>4. o.dst = Rm(w, c, f) BY <1>2, <1>3 DEF One, Two, Operands
<1>5. o.src = None BY <1>2, <1>3 DEF One, Two, Operands
<1>6. o.src2 = None BY <1>2, <1>3 DEF One, Two, Operands
<1>7. QED BY <1>4, <1>5, <1>6, FieldOperands

LEMMA HasRmR ==
  ASSUME NEW row, row.layout = AsRmR, NEW c, NEW f \in Following, NEW b \in Byte, NEW pos,
         NEW w \in Widths, w = Width(row, c), NEW o, o = OperandsAt(row, c, f, b, pos)
  PROVE  IsRm(w, c, o.dst) /\ IsGeneral(w, o.src) /\ o.src2 = None
<1>1. row.layout \notin PlainLayouts BY LayoutsAre, LayoutsApart
<1>2. o = RmLayout(AsRmR, w, c, f) BY <1>1, RmOperands
<1>3. RmLayout(AsRmR, w, c, f) = Two(Rm(w, c, f), Reg(w, GeneralNames(w)[RegField(f) + 1]), RmLen(f))
  BY DEF RmLayout, AsRmR
<1>4. o.dst = Rm(w, c, f) BY <1>2, <1>3 DEF One, Two, Operands
<1>5. o.src = Reg(w, GeneralNames(w)[RegField(f) + 1]) BY <1>2, <1>3 DEF One, Two, Operands
<1>6. o.src2 = None BY <1>2, <1>3 DEF One, Two, Operands
<1>7. QED BY <1>4, <1>5, <1>6, FieldOperands

LEMMA HasRRm ==
  ASSUME NEW row, row.layout = AsRRm, NEW c, NEW f \in Following, NEW b \in Byte, NEW pos,
         NEW w \in Widths, w = Width(row, c), NEW o, o = OperandsAt(row, c, f, b, pos)
  PROVE  IsGeneral(w, o.dst) /\ IsRm(w, c, o.src) /\ o.src2 = None
<1>1. row.layout \notin PlainLayouts BY LayoutsAre, LayoutsApart
<1>2. o = RmLayout(AsRRm, w, c, f) BY <1>1, RmOperands
<1>3. RmLayout(AsRRm, w, c, f) = Two(Reg(w, GeneralNames(w)[RegField(f) + 1]), Rm(w, c, f), RmLen(f))
  BY DEF RmLayout, AsRRm
<1>4. o.dst = Reg(w, GeneralNames(w)[RegField(f) + 1]) BY <1>2, <1>3 DEF One, Two, Operands
<1>5. o.src = Rm(w, c, f) BY <1>2, <1>3 DEF One, Two, Operands
<1>6. o.src2 = None BY <1>2, <1>3 DEF One, Two, Operands
<1>7. QED BY <1>4, <1>5, <1>6, FieldOperands

LEMMA HasRRm8 ==
  ASSUME NEW row, row.layout = AsRRm8, NEW c, NEW f \in Following, NEW b \in Byte, NEW pos,
         NEW w \in Widths, w = Width(row, c), NEW o, o = OperandsAt(row, c, f, b, pos)
  PROVE  IsGeneral(w, o.dst) /\ IsRm(8, c, o.src) /\ o.src2 = None
<1>1. row.layout \notin PlainLayouts BY LayoutsAre, LayoutsApart
<1>2. o = RmLayout(AsRRm8, w, c, f) BY <1>1, RmOperands
<1>3. RmLayout(AsRRm8, w, c, f) = Two(Reg(w, GeneralNames(w)[RegField(f) + 1]), Rm(8, c, f), RmLen(f))
  BY DEF RmLayout, AsRRm8
<1>4. o.dst = Reg(w, GeneralNames(w)[RegField(f) + 1]) BY <1>2, <1>3 DEF One, Two, Operands
<1>5. o.src = Rm(8, c, f) BY <1>2, <1>3 DEF One, Two, Operands
<1>6. o.src2 = None BY <1>2, <1>3 DEF One, Two, Operands
<1>7. QED BY <1>4, <1>5, <1>6, FieldOperands

LEMMA HasR32Rm16 ==
  ASSUME NEW row, row.layout = AsR32Rm16, NEW c, NEW f \in Following, NEW b \in Byte, NEW pos,
         NEW w \in Widths, w = Width(row, c), NEW o, o = OperandsAt(row, c, f, b, pos)
  PROVE  IsGeneral(32, o.dst) /\ IsRm(16, c, o.src) /\ o.src2 = None
<1>1. row.layout \notin PlainLayouts BY LayoutsAre, LayoutsApart
<1>2. o = RmLayout(AsR32Rm16, w, c, f) BY <1>1, RmOperands
<1>3. RmLayout(AsR32Rm16, w, c, f) = Two(Reg(32, GeneralNames(32)[RegField(f) + 1]), Rm(16, c, f), RmLen(f))
  BY DEF RmLayout, AsR32Rm16
<1>4. o.dst = Reg(32, GeneralNames(32)[RegField(f) + 1]) BY <1>2, <1>3 DEF One, Two, Operands
<1>5. o.src = Rm(16, c, f) BY <1>2, <1>3 DEF One, Two, Operands
<1>6. o.src2 = None BY <1>2, <1>3 DEF One, Two, Operands
<1>7. QED BY <1>4, <1>5, <1>6, FieldOperands

LEMMA HasRmImm ==
  ASSUME NEW row, row.layout = AsRmImm, NEW c, NEW f \in Following, NEW b \in Byte, NEW pos,
         NEW w \in Widths, w = Width(row, c), NEW o, o = OperandsAt(row, c, f, b, pos)
  PROVE  IsRm(w, c, o.dst) /\ (\E x : OfWidth(w, x) /\ o.src = Imm(w, x)) /\ o.src2 = None
<1>1. row.layout \notin PlainLayouts BY LayoutsAre, LayoutsApart
<1>2. o = RmLayout(AsRmImm, w, c, f) BY <1>1, RmOperands
<1>3. RmLayout(AsRmImm, w, c, f) = Two(Rm(w, c, f), ImmOf(w, f, RmLen(f)), RmLen(f) + ImmLen(w))
  BY DEF RmLayout, AsRmImm
<1>4. o.dst = Rm(w, c, f) BY <1>2, <1>3 DEF One, Two, Operands
<1>5. o.src = ImmOf(w, f, RmLen(f)) BY <1>2, <1>3 DEF One, Two, Operands
<1>6. o.src2 = None BY <1>2, <1>3 DEF One, Two, Operands
<1>7. QED BY <1>4, <1>5, <1>6, FieldOperands

LEMMA HasRmImm8 ==
  ASSUME NEW row, row.layout = AsRmImm8, NEW c, NEW f \in Following, NEW b \in Byte, NEW pos,
         NEW w \in Widths, w = Width(row, c), NEW o, o = OperandsAt(row, c, f, b, pos)
  PROVE  IsRm(w, c, o.dst) /\ (\E x \in Byte : o.src = Imm(8, x)) /\ o.src2 = None
<1>1. row.layout \notin PlainLayouts BY LayoutsAre, LayoutsApart
<1>2. o = RmLayout(AsRmImm8, w, c, f) BY <1>1, RmOperands
<1>3. RmLayout(AsRmImm8, w, c, f) = Two(Rm(w, c, f), Imm(8, f[RmLen(f)]), RmLen(f) + 1)
  BY DEF RmLayout, AsRmImm8
<1>4. o.dst = Rm(w, c, f) BY <1>2, <1>3 DEF One, Two, Operands
<1>5. o.src = Imm(8, f[RmLen(f)]) BY <1>2, <1>3 DEF One, Two, Operands
<1>6. o.src2 = None BY <1>2, <1>3 DEF One, Two, Operands
<1>7. QED BY <1>4, <1>5, <1>6, FieldOperands

LEMMA HasRmImmS8 ==
  ASSUME NEW row, row.layout = AsRmImmS8, NEW c, NEW f \in Following, NEW b \in Byte, NEW pos,
         NEW w \in Widths, w = Width(row, c), NEW o, o = OperandsAt(row, c, f, b, pos)
  PROVE  IsRm(w, c, o.dst) /\ o.src.kind = "imms8" /\ o.src2 = None
<1>1. row.layout \notin PlainLayouts BY MoreLayouts
<1>2. o = RmLayout(AsRmImmS8, w, c, f) BY <1>1, RmOperands
<1>3. RmLayout(AsRmImmS8, w, c, f) = Two(Rm(w, c, f), ImmS8(Signed8(f[RmLen(f)])), RmLen(f) + 1)
  BY DEF RmLayout, AsRmImmS8
<1>4. o.dst = Rm(w, c, f) BY <1>2, <1>3 DEF One, Two, Operands
<1>5. o.src = ImmS8(Signed8(f[RmLen(f)])) BY <1>2, <1>3 DEF One, Two, Operands
<1>6. o.src2 = None BY <1>2, <1>3 DEF One, Two, Operands
<1>7. QED BY <1>4, <1>5, <1>6, FieldOperands DEF ImmS8

LEMMA HasRmOne ==
  ASSUME NEW row, row.layout = AsRmOne, NEW c, NEW f \in Following, NEW b \in Byte, NEW pos,
         NEW w \in Widths, w = Width(row, c), NEW o, o = OperandsAt(row, c, f, b, pos)
  PROVE  IsRm(w, c, o.dst) /\ o.src = Imm(w, 1) /\ o.src2 = None
<1>1. row.layout \notin PlainLayouts BY LayoutsAre, LayoutsApart
<1>2. o = RmLayout(AsRmOne, w, c, f) BY <1>1, RmOperands
<1>3. RmLayout(AsRmOne, w, c, f) = Two(Rm(w, c, f), Imm(w, 1), RmLen(f))
  BY DEF RmLayout, AsRmOne
<1>4. o.dst = Rm(w, c, f) BY <1>2, <1>3 DEF One, Two, Operands
<1>5. o.src = Imm(w, 1) BY <1>2, <1>3 DEF One, Two, Operands
<1>6. o.src2 = None BY <1>2, <1>3 DEF One, Two, Operands
<1>7. QED BY <1>4, <1>5, <1>6, FieldOperands

LEMMA HasRmCl ==
  ASSUME NEW row, row.layout = AsRmCl, NEW c, NEW f \in Following, NEW b \in Byte, NEW pos,
         NEW w \in Widths, w = Width(row, c), NEW o, o = OperandsAt(row, c, f, b, pos)
  PROVE  IsRm(w, c, o.dst) /\ o.src = Reg(8, "cl") /\ o.src2 = None
<1>1. row.layout \notin PlainLayouts BY MoreLayouts
<1>2. o = RmLayout(AsRmCl, w, c, f) BY <1>1, RmOperands
<1>3. RmLayout(AsRmCl, w, c, f) = Two(Rm(w, c, f), Reg(8, "cl"), RmLen(f))
  BY DEF RmLayout, AsRmCl
<1>4. o.dst = Rm(w, c, f) BY <1>2, <1>3 DEF One, Two, Operands
<1>5. o.src = Reg(8, "cl") BY <1>2, <1>3 DEF One, Two, Operands
<1>6. o.src2 = None BY <1>2, <1>3 DEF One, Two, Operands
<1>7. QED BY <1>4, <1>5, <1>6, FieldOperands

LEMMA HasRmRImm8 ==
  ASSUME NEW row, row.layout = AsRmRImm8, NEW c, NEW f \in Following, NEW b \in Byte, NEW pos,
         NEW w \in Widths, w = Width(row, c), NEW o, o = OperandsAt(row, c, f, b, pos)
  PROVE  IsRm(w, c, o.dst) /\ IsGeneral(w, o.src) /\ (\E x \in Byte : o.src2 = Imm(8, x))
<1>1. row.layout \notin PlainLayouts BY LayoutsAre, LayoutsApart
<1>2. o = RmLayout(AsRmRImm8, w, c, f) BY <1>1, RmOperands
<1>3. RmLayout(AsRmRImm8, w, c, f) = Operands(Rm(w, c, f), Reg(w, GeneralNames(w)[RegField(f) + 1]), Imm(8, f[RmLen(f)]), RmLen(f) + 1)
  BY DEF RmLayout, AsRmRImm8
<1>4. o.dst = Rm(w, c, f) BY <1>2, <1>3 DEF One, Two, Operands
<1>5. o.src = Reg(w, GeneralNames(w)[RegField(f) + 1]) BY <1>2, <1>3 DEF One, Two, Operands
<1>6. o.src2 = Imm(8, f[RmLen(f)]) BY <1>2, <1>3 DEF One, Two, Operands
<1>7. QED BY <1>4, <1>5, <1>6, FieldOperands

LEMMA HasRRmImm ==
  ASSUME NEW row, row.layout = AsRRmImm, NEW c, NEW f \in Following, NEW b \in Byte, NEW pos,
         NEW w \in Widths, w = Width(row, c), NEW o, o = OperandsAt(row, c, f, b, pos)
  PROVE  IsGeneral(w, o.dst) /\ IsRm(w, c, o.src) /\ (\E x : OfWidth(w, x) /\ o.src2 = Imm(w, x))
<1>1. row.layout \notin PlainLayouts BY MoreLayouts
<1>2. o = RmLayout(AsRRmImm, w, c, f) BY <1>1, RmOperands
<1>3. RmLayout(AsRRmImm, w, c, f) = Operands(Reg(w, GeneralNames(w)[RegField(f) + 1]), Rm(w, c, f), ImmOf(w, f, RmLen(f)), RmLen(f) + ImmLen(w))
  BY DEF RmLayout, AsRRmImm
<1>4. o.dst = Reg(w, GeneralNames(w)[RegField(f) + 1]) BY <1>2, <1>3 DEF One, Two, Operands
<1>5. o.src = Rm(w, c, f) BY <1>2, <1>3 DEF One, Two, Operands
<1>6. o.src2 = ImmOf(w, f, RmLen(f)) BY <1>2, <1>3 DEF One, Two, Operands
<1>7. QED BY <1>4, <1>5, <1>6, FieldOperands

LEMMA HasRRmImmS8 ==
  ASSUME NEW row, row.layout = AsRRmImmS8, NEW c, NEW f \in Following, NEW b \in Byte, NEW pos,
         NEW w \in Widths, w = Width(row, c), NEW o, o = OperandsAt(row, c, f, b, pos)
  PROVE  IsGeneral(w, o.dst) /\ IsRm(w, c, o.src) /\ (\E x \in Byte : o.src2 = ImmS8(Signed8(x)))
<1>1. row.layout \notin PlainLayouts BY LayoutsAre, LayoutsApart
<1>2. o = RmLayout(AsRRmImmS8, w, c, f) BY <1>1, RmOperands
<1>3. RmLayout(AsRRmImmS8, w, c, f) = Operands(Reg(w, GeneralNames(w)[RegField(f) + 1]), Rm(w, c, f), ImmS8(Signed8(f[RmLen(f)])), RmLen(f) + 1)
  BY DEF RmLayout, AsRRmImmS8
<1>4. o.dst = Reg(w, GeneralNames(w)[RegField(f) + 1]) BY <1>2, <1>3 DEF One, Two, Operands
<1>5. o.src = Rm(w, c, f) BY <1>2, <1>3 DEF One, Two, Operands
<1>6. o.src2 = ImmS8(Signed8(f[RmLen(f)])) BY <1>2, <1>3 DEF One, Two, Operands
<1>7. QED BY <1>4, <1>5, <1>6, FieldOperands

LEMMA HasRmSreg ==
  ASSUME NEW row, row.layout = AsRmSreg, NEW c, NEW f \in Following, NEW b \in Byte, NEW pos,
         NEW w \in Widths, w = Width(row, c), NEW o, o = OperandsAt(row, c, f, b, pos)
  PROVE  o.src.kind = "sreg"
<1>1. row.layout \notin PlainLayouts BY MoreLayouts
<1>2. o = RmLayout(AsRmSreg, w, c, f) BY <1>1, RmOperands
<1>3. RmLayout(AsRmSreg, w, c, f) = Two(Rm(w, c, f), Sreg(SR[RegField(f) + 1]), RmLen(f))
  BY DEF RmLayout, AsRmSreg
<1>4. o.dst = Rm(w, c, f) BY <1>2, <1>3 DEF One, Two, Operands
<1>5. o.src = Sreg(SR[RegField(f) + 1]) BY <1>2, <1>3 DEF One, Two, Operands
<1>6. o.src2 = None BY <1>2, <1>3 DEF One, Two, Operands
<1>7. QED BY <1>4, <1>5, <1>6, FieldOperands DEF Sreg

LEMMA HasSregRm ==
  ASSUME NEW row, row.layout = AsSregRm, NEW c, NEW f \in Following, NEW b \in Byte, NEW pos,
         NEW w \in Widths, w = Width(row, c), NEW o, o = OperandsAt(row, c, f, b, pos)
  PROVE  o.dst.kind = "sreg"
<1>1. row.layout \notin PlainLayouts BY MoreLayouts
<1>2. o = RmLayout(AsSregRm, w, c, f) BY <1>1, RmOperands
<1>3. RmLayout(AsSregRm, w, c, f) = Two(Sreg(SR[RegField(f) + 1]), Rm(w, c, f), RmLen(f))
  BY DEF RmLayout, AsSregRm
<1>4. o.dst = Sreg(SR[RegField(f) + 1]) BY <1>2, <1>3 DEF One, Two, Operands
<1>5. o.src = Rm(w, c, f) BY <1>2, <1>3 DEF One, Two, Operands
<1>6. o.src2 = None BY <1>2, <1>3 DEF One, Two, Operands
<1>7. QED BY <1>4, <1>5, <1>6, FieldOperands DEF Sreg

LEMMA HasAccImm ==
  ASSUME NEW row, row.layout = AsAccImm, NEW c, NEW f \in Following, NEW b \in Byte, NEW pos,
         NEW w \in Widths, w = Width(row, c), NEW o, o = OperandsAt(row, c, f, b, pos)
  PROVE  IsGeneral(w, o.dst) /\ (\E x : OfWidth(w, x) /\ o.src = Imm(w, x)) /\ o.src2 = None
<1>1. row.layout \in PlainLayouts BY LayoutsAre, LayoutsApart
<1>2. o = PlainLayout(AsAccImm, w, c, f, b, pos) BY <1>1, PlainOperands
<1>3. PlainLayout(AsAccImm, w, c, f, b, pos) = Two(Reg(w, GeneralNames(w)[1]), ImmOf(w, f, 0), ImmLen(w))
  BY DEF PlainLayout, AsAccImm
<1>4. o.dst = Reg(w, GeneralNames(w)[1]) BY <1>2, <1>3 DEF One, Two, Operands
<1>5. o.src = ImmOf(w, f, 0) BY <1>2, <1>3 DEF One, Two, Operands
<1>6. o.src2 = None BY <1>2, <1>3 DEF One, Two, Operands
<1>7. QED BY <1>4, <1>5, <1>6, PlainFields

LEMMA HasAccReg ==
  ASSUME NEW row, row.layout = AsAccReg, NEW c, NEW f \in Following, NEW b \in Byte, NEW pos,
         NEW w \in Widths, w = Width(row, c), NEW o, o = OperandsAt(row, c, f, b, pos)
  PROVE  IsGeneral(w, o.dst) /\ IsGeneral(w, o.src) /\ o.src2 = None
<1>1. row.layout \in PlainLayouts BY LayoutsAre, LayoutsApart
<1>2. o = PlainLayout(AsAccReg, w, c, f, b, pos) BY <1>1, PlainOperands
<1>3. PlainLayout(AsAccReg, w, c, f, b, pos) = Two(Reg(w, GeneralNames(w)[1]), Reg(w, GeneralNames(w)[(b % 8) + 1]), 0)
  BY DEF PlainLayout, AsAccReg
<1>4. o.dst = Reg(w, GeneralNames(w)[1]) BY <1>2, <1>3 DEF One, Two, Operands
<1>5. o.src = Reg(w, GeneralNames(w)[(b % 8) + 1]) BY <1>2, <1>3 DEF One, Two, Operands
<1>6. o.src2 = None BY <1>2, <1>3 DEF One, Two, Operands
<1>7. QED BY <1>4, <1>5, <1>6, PlainFields

LEMMA HasAccOffset ==
  ASSUME NEW row, row.layout = AsAccOffset, NEW c, NEW f \in Following, NEW b \in Byte, NEW pos,
         NEW w \in Widths, w = Width(row, c), NEW o, o = OperandsAt(row, c, f, b, pos)
  PROVE  IsGeneral(w, o.dst) /\ IsRm(w, c, o.src) /\ o.src2 = None
<1>1. row.layout \in PlainLayouts BY LayoutsAre, LayoutsApart
<1>2. o = PlainLayout(AsAccOffset, w, c, f, b, pos) BY <1>1, PlainOperands
<1>3. PlainLayout(AsAccOffset, w, c, f, b, pos) = Two(Reg(w, GeneralNames(w)[1]), Ptr(w, c.seg, "direct", "none", U16(f, 0)), 2)
  BY DEF PlainLayout, AsAccOffset
<1>4. o.dst = Reg(w, GeneralNames(w)[1]) BY <1>2, <1>3 DEF One, Two, Operands
<1>5. o.src = Ptr(w, c.seg, "direct", "none", U16(f, 0)) BY <1>2, <1>3 DEF One, Two, Operands
<1>6. o.src2 = None BY <1>2, <1>3 DEF One, Two, Operands
<1>7. QED BY <1>4, <1>5, <1>6, PlainFields

LEMMA HasOffsetAcc ==
  ASSUME NEW row, row.layout = AsOffsetAcc, NEW c, NEW f \in Following, NEW b \in Byte, NEW pos,
         NEW w \in Widths, w = Width(row, c), NEW o, o = OperandsAt(row, c, f, b, pos)
  PROVE  IsRm(w, c, o.dst) /\ IsGeneral(w, o.src) /\ o.src2 = None
<1>1. row.layout \in PlainLayouts BY LayoutsAre, LayoutsApart
<1>2. o = PlainLayout(AsOffsetAcc, w, c, f, b, pos) BY <1>1, PlainOperands
<1>3. PlainLayout(AsOffsetAcc, w, c, f, b, pos) = Two(Ptr(w, c.seg, "direct", "none", U16(f, 0)), Reg(w, GeneralNames(w)[1]), 2)
  BY DEF PlainLayout, AsOffsetAcc
<1>4. o.dst = Ptr(w, c.seg, "direct", "none", U16(f, 0)) BY <1>2, <1>3 DEF One, Two, Operands
<1>5. o.src = Reg(w, GeneralNames(w)[1]) BY <1>2, <1>3 DEF One, Two, Operands
<1>6. o.src2 = None BY <1>2, <1>3 DEF One, Two, Operands
<1>7. QED BY <1>4, <1>5, <1>6, PlainFields

LEMMA HasReg ==
  ASSUME NEW row, row.layout = AsReg, NEW c, NEW f \in Following, NEW b \in Byte, NEW pos,
         NEW w \in Widths, w = Width(row, c), NEW o, o = OperandsAt(row, c, f, b, pos)
  PROVE  IsGeneral(w, o.dst) /\ o.src = None /\ o.src2 = None
<1>1. row.layout \in PlainLayouts BY LayoutsAre, LayoutsApart
<1>2. o = PlainLayout(AsReg, w, c, f, b, pos) BY <1>1, PlainOperands
<1>3. PlainLayout(AsReg, w, c, f, b, pos) = One(Reg(w, GeneralNames(w)[(b % 8) + 1]), 0)
  BY DEF PlainLayout, AsReg
<1>4. o.dst = Reg(w, GeneralNames(w)[(b % 8) + 1]) BY <1>2, <1>3 DEF One, Two, Operands
<1>5. o.src = None BY <1>2, <1>3 DEF One, Two, Operands
<1>6. o.src2 = None BY <1>2, <1>3 DEF One, Two, Operands
<1>7. QED BY <1>4, <1>5, <1>6, PlainFields

LEMMA HasRegImm ==
  ASSUME NEW row, row.layout = AsRegImm, NEW c, NEW f \in Following, NEW b \in Byte, NEW pos,
         NEW w \in Widths, w = Width(row, c), NEW o, o = OperandsAt(row, c, f, b, pos)
  PROVE  IsGeneral(w, o.dst) /\ (\E x : OfWidth(w, x) /\ o.src = Imm(w, x)) /\ o.src2 = None
<1>1. row.layout \in PlainLayouts BY LayoutsAre, LayoutsApart
<1>2. o = PlainLayout(AsRegImm, w, c, f, b, pos) BY <1>1, PlainOperands
<1>3. PlainLayout(AsRegImm, w, c, f, b, pos) = Two(Reg(w, GeneralNames(w)[(b % 8) + 1]), ImmOf(w, f, 0), ImmLen(w))
  BY DEF PlainLayout, AsRegImm
<1>4. o.dst = Reg(w, GeneralNames(w)[(b % 8) + 1]) BY <1>2, <1>3 DEF One, Two, Operands
<1>5. o.src = ImmOf(w, f, 0) BY <1>2, <1>3 DEF One, Two, Operands
<1>6. o.src2 = None BY <1>2, <1>3 DEF One, Two, Operands
<1>7. QED BY <1>4, <1>5, <1>6, PlainFields

LEMMA HasImm ==
  ASSUME NEW row, row.layout = AsImm, NEW c, NEW f \in Following, NEW b \in Byte, NEW pos,
         NEW w \in Widths, w = Width(row, c), NEW o, o = OperandsAt(row, c, f, b, pos)
  PROVE  (\E x : OfWidth(w, x) /\ o.dst = Imm(w, x)) /\ o.src = None /\ o.src2 = None
<1>1. row.layout \in PlainLayouts BY LayoutsAre, LayoutsApart
<1>2. o = PlainLayout(AsImm, w, c, f, b, pos) BY <1>1, PlainOperands
<1>3. PlainLayout(AsImm, w, c, f, b, pos) = One(ImmOf(w, f, 0), ImmLen(w))
  BY DEF PlainLayout, AsImm
<1>4. o.dst = ImmOf(w, f, 0) BY <1>2, <1>3 DEF One, Two, Operands
<1>5. o.src = None BY <1>2, <1>3 DEF One, Two, Operands
<1>6. o.src2 = None BY <1>2, <1>3 DEF One, Two, Operands
<1>7. QED BY <1>4, <1>5, <1>6, PlainFields

LEMMA HasImm8 ==
  ASSUME NEW row, row.layout = AsImm8, NEW c, NEW f \in Following, NEW b \in Byte, NEW pos,
         NEW w, w = Width(row, c), NEW o, o = OperandsAt(row, c, f, b, pos)
  PROVE  (\E x \in Byte : o.dst = Imm(8, x)) /\ o.src = None /\ o.src2 = None
<1>1. row.layout \in PlainLayouts BY LayoutsAre, LayoutsApart
<1>2. o = PlainLayout(AsImm8, w, c, f, b, pos) BY <1>1, PlainOperands
<1>3. PlainLayout(AsImm8, w, c, f, b, pos) = One(Imm(8, f[0]), 1)
  BY DEF PlainLayout, AsImm8
<1>4. o.dst = Imm(8, f[0]) BY <1>2, <1>3 DEF One, Two, Operands
<1>5. o.src = None BY <1>2, <1>3 DEF One, Two, Operands
<1>6. o.src2 = None BY <1>2, <1>3 DEF One, Two, Operands
<1>7. QED BY <1>4, <1>5, <1>6, PlainFields

LEMMA HasImmS8 ==
  ASSUME NEW row, row.layout = AsImmS8, NEW c, NEW f \in Following, NEW b \in Byte, NEW pos,
         NEW w, w = Width(row, c), NEW o, o = OperandsAt(row, c, f, b, pos)
  PROVE  o.dst.kind = "imms8" /\ o.src = None /\ o.src2 = None
<1>1. row.layout \in PlainLayouts BY MoreLayouts
<1>2. o = PlainLayout(AsImmS8, w, c, f, b, pos) BY <1>1, PlainOperands
<1>3. PlainLayout(AsImmS8, w, c, f, b, pos) = One(ImmS8(Signed8(f[0])), 1)
  BY DEF PlainLayout, AsImmS8
<1>4. o.dst = ImmS8(Signed8(f[0])) BY <1>2, <1>3 DEF One, Two, Operands
<1>5. o.src = None BY <1>2, <1>3 DEF One, Two, Operands
<1>6. o.src2 = None BY <1>2, <1>3 DEF One, Two, Operands
<1>7. QED BY <1>4, <1>5, <1>6, PlainFields DEF ImmS8

LEMMA HasOne ==
  ASSUME NEW row, row.layout = AsOne, NEW c, NEW f \in Following, NEW b \in Byte, NEW pos,
         NEW w, w = Width(row, c), NEW o, o = OperandsAt(row, c, f, b, pos)
  PROVE  (\E x \in Byte : o.dst = Imm(8, x)) /\ o.src = None /\ o.src2 = None
<1>1. row.layout \in PlainLayouts BY LayoutsAre, LayoutsApart
<1>2. o = PlainLayout(AsOne, w, c, f, b, pos) BY <1>1, PlainOperands
<1>3. PlainLayout(AsOne, w, c, f, b, pos) = One(Imm(8, 1), 0)
  BY DEF PlainLayout, AsOne
<1>4. o.dst = Imm(8, 1) BY <1>2, <1>3 DEF One, Two, Operands
<1>5. o.src = None BY <1>2, <1>3 DEF One, Two, Operands
<1>6. o.src2 = None BY <1>2, <1>3 DEF One, Two, Operands
<1>7. QED BY <1>4, <1>5, <1>6 DEF Byte

LEMMA HasThree ==
  ASSUME NEW row, row.layout = AsThree, NEW c, NEW f \in Following, NEW b \in Byte, NEW pos,
         NEW w, w = Width(row, c), NEW o, o = OperandsAt(row, c, f, b, pos)
  PROVE  (\E x \in Byte : o.dst = Imm(8, x)) /\ o.src = None /\ o.src2 = None
<1>1. row.layout \in PlainLayouts BY LayoutsAre, LayoutsApart
<1>2. o = PlainLayout(AsThree, w, c, f, b, pos) BY <1>1, PlainOperands
<1>3. PlainLayout(AsThree, w, c, f, b, pos) = One(Imm(8, 3), 0)
  BY DEF PlainLayout, AsThree
<1>4. o.dst = Imm(8, 3) BY <1>2, <1>3 DEF One, Two, Operands
<1>5. o.src = None BY <1>2, <1>3 DEF One, Two, Operands
<1>6. o.src2 = None BY <1>2, <1>3 DEF One, Two, Operands
<1>7. QED BY <1>4, <1>5, <1>6 DEF Byte

LEMMA HasRel8 ==
  ASSUME NEW row, row.layout = AsRel8, NEW c, NEW f \in Following, NEW b \in Byte, NEW pos,
         NEW w, w = Width(row, c), NEW o, o = OperandsAt(row, c, f, b, pos)
  PROVE  o.src = None /\ o.src2 = None
<1>1. row.layout \in PlainLayouts BY MoreLayouts
<1>2. o = PlainLayout(AsRel8, w, c, f, b, pos) BY <1>1, PlainOperands
<1>3. PlainLayout(AsRel8, w, c, f, b, pos) = One(Imm(16, (pos + 1 + Signed8(f[0])) % SegSize), 1)
  BY DEF PlainLayout, AsRel8
<1>4. o.dst = Imm(16, (pos + 1 + Signed8(f[0])) % SegSize) BY <1>2, <1>3 DEF One, Two, Operands
<1>5. o.src = None BY <1>2, <1>3 DEF One, Two, Operands
<1>6. o.src2 = None BY <1>2, <1>3 DEF One, Two, Operands
<1>7. QED BY <1>4, <1>5, <1>6, PlainFields

LEMMA HasNone ==
  ASSUME NEW row, row.layout = AsNone, NEW c, NEW f \in Following, NEW b \in Byte, NEW pos,
         NEW w, w = Width(row, c), NEW o, o = OperandsAt(row, c, f, b, pos)
  PROVE  o.dst = None /\ o.src = None /\ o.src2 = None
<1>1. row.layout \in PlainLayouts BY LayoutsAre, LayoutsApart
<1>2. o = PlainLayout(AsNone, w, c, f, b, pos) BY <1>1, PlainOperands
<1>3. PlainLayout(AsNone, w, c, f, b, pos) = One(None, 0)
  BY DEF PlainLayout, AsNone
<1>4. o.dst = None BY <1>2, <1>3 DEF One, Two, Operands
<1>5. o.src = None BY <1>2, <1>3 DEF One, Two, Operands
<1>6. o.src2 = None BY <1>2, <1>3 DEF One, Two, Operands
<1>7. QED BY <1>4, <1>5, <1>6, PlainFields

LEMMA HasSreg ==
  ASSUME NEW row, row.layout \in AsSregs, NEW c, NEW f \in Following, NEW b \in Byte, NEW pos,
         NEW o, o = OperandsAt(row, c, f, b, pos)
  PROVE  o.dst.kind = "sreg" /\ o.src = None /\ o.src2 = None
<1>1. row.layout \in PlainLayouts BY MoreLayouts
<1>2. PICK layout, w : layout = row.layout /\ w = Width(row, c) OBVIOUS
<1>3. o = PlainLayout(layout, w, c, f, b, pos) BY <1>1, <1>2, PlainOperands
<1>4. PlainLayout(layout, w, c, f, b, pos) = One(Sreg(layout), 0) BY <1>2 DEF PlainLayout, AsSregs
<1>5. o.dst = Sreg(layout) BY <1>3, <1>4 DEF One, Operands
<1>6. o.src = None BY <1>3, <1>4 DEF One, Operands
<1>7. o.src2 = None BY <1>3, <1>4 DEF One, Operands
<1>8. QED BY <1>5, <1>6, <1>7 DEF Sreg

\* A group on one operand, TEST having a number too.
LEMMA HasMath ==
  ASSUME NEW row, row.layout = AsMath, NEW c, NEW f \in Following, NEW b \in Byte, NEW pos,
         NEW w \in Widths, w = Width(row, c), NEW o, o = OperandsAt(row, c, f, b, pos)
  PROVE  /\ IsRm(w, c, o.dst) /\ o.src2 = None
         /\ RegField(f) < 2 => \E x : OfWidth(w, x) /\ o.src = Imm(w, x)
         /\ ~(RegField(f) < 2) => o.src = None
<1>1. row.layout \notin PlainLayouts BY LayoutsAre, LayoutsApart
<1>2. o = RmLayout(AsMath, w, c, f) BY <1>1, RmOperands
<1>3. CASE RegField(f) < 2
  <2>1. RmLayout(AsMath, w, c, f) = Two(Rm(w, c, f), ImmOf(w, f, RmLen(f)), RmLen(f) + ImmLen(w))
    BY <1>3 DEF RmLayout, AsMath
  <2>2. o.dst = Rm(w, c, f) BY <1>2, <2>1 DEF Two, Operands
  <2>3. o.src = ImmOf(w, f, RmLen(f)) BY <1>2, <2>1 DEF Two, Operands
  <2>4. o.src2 = None BY <1>2, <2>1 DEF Two, Operands
  <2>5. QED BY <1>3, <2>2, <2>3, <2>4, FieldOperands
<1>4. CASE ~(RegField(f) < 2)
  <2>1. RmLayout(AsMath, w, c, f) = One(Rm(w, c, f), RmLen(f))
    BY <1>4 DEF RmLayout, AsMath
  <2>2. o.dst = Rm(w, c, f) BY <1>2, <2>1 DEF One, Operands
  <2>3. o.src = None BY <1>2, <2>1 DEF One, Operands
  <2>4. o.src2 = None BY <1>2, <2>1 DEF One, Operands
  <2>5. QED BY <1>4, <2>2, <2>3, <2>4, FieldOperands
<1>5. QED BY <1>3, <1>4

-----------------------------------------------------------------------------
(* The instructions that decode makes. *)

\* An instruction with the operation and the operands of a row.
Arises(i, row, c, f, b, pos, o) ==
  /\ c \in Contexts /\ f \in Following /\ b \in Byte
  /\ o = OperandsAt(row, c, f, b, pos)
  /\ i.op = row.ops[RegField(f)] /\ i.w = Width(row, c)
  /\ i.dst = o.dst /\ i.src = o.src /\ i.src2 = o.src2
SuitsIts(i, row, f) == Suits(i.op, row.w, row.layout, RegField(f))

LEMMA LetterWidths ==
  ASSUME NEW row, NEW c \in Contexts
  PROVE  /\ row.w = "b" => Width(row, c) = 8
         /\ row.w = "w" => Width(row, c) = 16
         /\ row.w = "v" => Width(row, c) \in Sizes
         /\ row.w = "none" => Width(row, c) = 0
         /\ row.w \in {"b", "w", "v"} => Width(row, c) \in Widths
<1>1. c.size \in Sizes BY DEF Contexts
<1>2. row.w = "v" => Width(row, c) = c.size BY DEF Width
<1>3. row.w = "b" => Width(row, c) = 8 BY DEF Width
<1>4. row.w = "w" => Width(row, c) = 16 BY DEF Width
<1>5. row.w = "none" => Width(row, c) = 0 BY DEF Width
<1>6. 8 \in Widths /\ 16 \in Widths /\ \A s \in Sizes : s \in Widths BY DEF Sizes, Widths
<1>7. QED BY <1>1, <1>2, <1>3, <1>4, <1>5, <1>6

LEMMA SingleShaped ==
  ASSUME NEW i, NEW row, NEW c, NEW f, NEW b, NEW pos, NEW o, Arises(i, row, c, f, b, pos, o), SuitsIts(i, row, f),
         i.op \in SingleOps \/ i.op = "cbw"
  PROVE  Bare(i) /\ (i.op \in SingleOps => i.w = 0)
<1>1. row.layout = AsNone /\ (i.op \in SingleOps => row.w = "none") BY DEF SuitsIts, Suits, SuitsSmall
<1>2. o.dst = None /\ o.src = None /\ o.src2 = None BY <1>1, HasNone DEF Arises
<1>3. i.op \in SingleOps => Width(row, c) = 0 BY <1>1, LetterWidths DEF Arises
<1>4. QED BY <1>2, <1>3 DEF Arises, Bare

LEMMA OneOperandShaped ==
  ASSUME NEW i, NEW row, NEW c, NEW f, NEW b, NEW pos, NEW o, Arises(i, row, c, f, b, pos, o), SuitsIts(i, row, f),
         i.op \in OneOperands
  PROVE  OneOperand(i)
<1>0. c \in Contexts /\ f \in Following /\ b \in Byte /\ o = OperandsAt(row, c, f, b, pos) BY DEF Arises
<1>1. i.w = Width(row, c) /\ i.dst = o.dst /\ i.src = o.src /\ i.src2 = o.src2 BY DEF Arises
<1>2. SuitsSmall(i.op, row.w, row.layout) BY DEF SuitsIts, Suits
<1>3. CASE i.op \in {"int", "aad", "aam"}
  <2>1. row.w = "none" /\ (row.layout = AsOne \/ row.layout = AsThree \/ row.layout = AsImm8)
    BY <1>2, <1>3 DEF SuitsSmall
  <2>2. i.w = 0 BY <1>0, <1>1, <2>1, LetterWidths
  <2>3. (\E x \in Byte : o.dst = Imm(8, x)) /\ o.src = None /\ o.src2 = None
    BY <1>0, <2>1, HasOne, HasThree, HasImm8
  <2>4. QED BY <1>1, <1>3, <2>2, <2>3 DEF OneOperand
<1>4. CASE i.op = "push"
  <2>1. /\ row.w = "w" \/ row.w = "v"
        /\ \/ row.layout \in AsSregs \/ row.layout = AsImmS8 \/ row.layout = AsReg \/ row.layout = AsRm
           \/ row.layout = AsImm /\ row.w = "w"
    BY <1>2, <1>4 DEF SuitsSmall
  <2>2. PICK w \in Widths : w = i.w BY <1>0, <1>1, <2>1, LetterWidths
  <2>3. o.src = None /\ o.src2 = None BY <1>0, <1>1, <2>1, <2>2, HasSreg, HasImmS8, HasReg, HasRm, HasImm
  <2>4. IsImmOf(o.dst, 16) => \E x : OfWidth(16, x) /\ o.dst = Imm(16, x)
    <3>1. CASE row.layout \in AsSregs
      <4>1. o.dst.kind = "sreg" BY <1>0, <3>1, HasSreg
      <4>2. QED BY <4>1 DEF IsImmOf
    <3>2. CASE row.layout = AsImmS8
      <4>1. o.dst.kind = "imms8" BY <1>0, <3>2, HasImmS8
      <4>2. QED BY <4>1 DEF IsImmOf
    <3>3. CASE row.layout = AsReg
      <4>1. IsGeneral(w, o.dst) BY <1>0, <1>1, <2>2, <3>3, HasReg
      <4>2. o.dst.kind = "reg" BY <4>1, GeneralFacts
      <4>3. QED BY <4>2 DEF IsImmOf
    <3>4. CASE row.layout = AsRm
      <4>1. IsRm(w, c, o.dst) BY <1>0, <1>1, <2>2, <3>4, HasRm
      <4>2. o.dst.kind = "reg" \/ o.dst.kind = "ptr" BY <1>0, <4>1, RmKinds, GeneralFacts
      <4>3. QED BY <4>2 DEF IsImmOf
    <3>5. CASE row.layout = AsImm /\ row.w = "w"
      <4>1. w = 16 BY <1>0, <1>1, <2>2, <3>5, LetterWidths
      <4>2. \E x : OfWidth(w, x) /\ o.dst = Imm(w, x) BY <1>0, <1>1, <2>2, <3>5, HasImm
      <4>3. QED BY <4>1, <4>2
    <3>6. QED BY <2>1, <3>1, <3>2, <3>3, <3>4, <3>5
  <2>5. QED BY <1>1, <1>4, <2>3, <2>4 DEF OneOperand
<1>5. CASE i.op = "pop"
  <2>1. /\ row.w = "w" \/ row.w = "v"
        /\ row.layout \in AsSregs \/ row.layout = AsReg \/ row.layout = AsRm
    BY <1>2, <1>5 DEF SuitsSmall
  <2>2. PICK w \in Widths : w = i.w BY <1>0, <1>1, <2>1, LetterWidths
  <2>3. o.src = None /\ o.src2 = None BY <1>0, <1>1, <2>1, <2>2, HasSreg, HasReg, HasRm
  <2>4. IsReg(o.dst, 16) => IsGeneral(16, o.dst)
    <3>1. CASE row.layout \in AsSregs
      <4>1. o.dst.kind = "sreg" BY <1>0, <3>1, HasSreg
      <4>2. QED BY <4>1 DEF IsReg
    <3>2. CASE row.layout = AsReg \/ row.layout = AsRm
      <4>1. IsRm(w, c, o.dst) BY <1>0, <1>1, <2>2, <3>2, HasRm, HasReg, GeneralIsRm
      <4>2. IsGeneral(w, o.dst) \/ o.dst.kind = "ptr" BY <1>0, <4>1, RmKinds
      <4>3. IsGeneral(w, o.dst) => o.dst.w = w BY GeneralFacts
      <4>4. QED BY <4>2, <4>3 DEF IsReg
    <3>3. QED BY <2>1, <3>1, <3>2
  <2>5. QED BY <1>1, <1>5, <2>3, <2>4 DEF OneOperand
<1>6. CASE i.op = "loop"
  <2>1. row.layout = AsRel8 BY <1>2, <1>6 DEF SuitsSmall
  <2>2. o.src = None /\ o.src2 = None BY <1>0, <2>1, HasRel8
  <2>3. QED BY <1>1, <1>6, <2>2 DEF OneOperand
<1>7. QED BY <1>3, <1>4, <1>5, <1>6 DEF OneOperands

LEMMA WordShaped ==
  ASSUME NEW i, NEW row, NEW c, NEW f, NEW b, NEW pos, NEW o, Arises(i, row, c, f, b, pos, o), SuitsIts(i, row, f)
  PROVE  /\ i.op \in Words => WordForm(i, c)
         /\ i.op \in Counts => i.w \in Widths /\ RmOnly(i, c)
         /\ i.op = "xchg" => i.w \in Widths /\ RmR(i, c)
         /\ i.op \in Extends => i.w \in Sizes /\ \E v : Narrow(i, c, v)
<1>0. c \in Contexts /\ f \in Following /\ b \in Byte /\ o = OperandsAt(row, c, f, b, pos) BY DEF Arises
<1>1. i.w = Width(row, c) /\ i.dst = o.dst /\ i.src = o.src /\ i.src2 = o.src2 BY DEF Arises
<1>2. SuitsWord(i.op, row.w, row.layout) BY DEF SuitsIts, Suits
<1>3. ASSUME i.op \in Words PROVE WordForm(i, c)
  <2>1. row.w = "w" BY <1>2, <1>3 DEF SuitsWord, Words
  <2>2. PICK w \in Widths : w = i.w /\ w = 16 BY <1>0, <1>1, <2>1, LetterWidths DEF Widths
  <2>3. ASSUME i.op \in {"bsf", "lea"} PROVE RRm(i, c)
    <3>1. row.layout = AsRRm BY <1>2, <2>3 DEF SuitsWord
    <3>2. IsGeneral(w, o.dst) /\ IsRm(w, c, o.src) /\ o.src2 = None BY ZenonT(60), <1>0, <1>1, <2>2, <3>1, HasRRm
    <3>3. QED BY <1>1, <2>2, <3>2 DEF RRm
  <2>4. ASSUME i.op = "bt" PROVE RmR(i, c)
    <3>1. row.layout = AsRmR BY <1>2, <2>4 DEF SuitsWord
    <3>2. IsRm(w, c, o.dst) /\ IsGeneral(w, o.src) /\ o.src2 = None BY ZenonT(60), <1>0, <1>1, <2>2, <3>1, HasRmR
    <3>3. QED BY <1>1, <2>2, <3>2 DEF RmR
  <2>5. ASSUME i.op \in {"shld", "shrd"} PROVE RmRByte(i, c)
    <3>1. row.layout = AsRmRImm8 BY <1>2, <2>5 DEF SuitsWord
    <3>2. w = Width(row, c) BY <1>1, <2>2
    <3>3. IsRm(w, c, o.dst) BY <1>0, <3>1, <3>2, HasRmRImm8
    <3>4. IsGeneral(w, o.src) BY <1>0, <3>1, <3>2, HasRmRImm8
    <3>5. \E x \in Byte : o.src2 = Imm(8, x) BY <1>0, <3>1, <3>2, HasRmRImm8
    <3>6. QED BY <1>1, <2>2, <3>3, <3>4, <3>5 DEF RmRByte
  <2>6. QED BY <2>2, <2>3, <2>4, <2>5 DEF WordForm
<1>4. ASSUME i.op \in Counts PROVE i.w \in Widths /\ RmOnly(i, c)
  <2>1. row.w \in {"b", "v"} /\ (row.layout = AsReg \/ row.layout = AsRm) BY <1>2, <1>4 DEF SuitsWord
  <2>2. PICK w \in Widths : w = i.w BY <1>0, <1>1, <2>1, LetterWidths
  <2>3. IsRm(w, c, o.dst) BY <1>0, <1>1, <2>1, <2>2, HasRm, HasReg, GeneralIsRm
  <2>4. o.src = None /\ o.src2 = None BY <1>0, <1>1, <2>1, <2>2, HasRm, HasReg
  <2>5. QED BY <1>1, <2>2, <2>3, <2>4 DEF RmOnly
<1>5. ASSUME i.op = "xchg" PROVE i.w \in Widths /\ RmR(i, c)
  <2>1. row.w \in {"b", "w", "v"} /\ (row.layout = AsRmR \/ row.layout = AsAccReg) BY <1>2, <1>5 DEF SuitsWord
  <2>2. PICK w \in Widths : w = i.w BY <1>0, <1>1, <2>1, LetterWidths
  <2>3. IsRm(w, c, o.dst) /\ IsGeneral(w, o.src) /\ o.src2 = None
    BY <1>0, <1>1, <2>1, <2>2, HasRmR, HasAccReg, GeneralIsRm
  <2>4. QED BY <1>1, <2>2, <2>3 DEF RmR
<1>6. ASSUME i.op \in Extends PROVE i.w \in Sizes /\ \E v : Narrow(i, c, v)
  <2>1. row.w = "v" /\ row.layout = AsRRm8 BY <1>2, <1>6 DEF SuitsWord
  <2>2. i.w \in Sizes BY <1>0, <1>1, <2>1, LetterWidths
  <2>3. PICK w \in Widths : w = i.w BY <2>2 DEF Sizes, Widths
  <2>4. IsGeneral(w, o.dst) /\ IsRm(8, c, o.src) /\ o.src2 = None BY <1>0, <1>1, <2>1, <2>3, HasRRm8
  <2>5. Narrow(i, c, 8) BY <1>1, <2>3, <2>4 DEF Narrow
  <2>6. QED BY <2>2, <2>5
<1>7. QED BY <1>3, <1>4, <1>5, <1>6

LEMMA MoveShaped ==
  ASSUME NEW i, NEW row, NEW c, NEW f, NEW b, NEW pos, NEW o, Arises(i, row, c, f, b, pos, o), SuitsIts(i, row, f),
         i.op = "mov"
  PROVE  i.w \in Widths /\ MoveForm(i, c)
<1>0. c \in Contexts /\ f \in Following /\ b \in Byte /\ o = OperandsAt(row, c, f, b, pos) BY DEF Arises
<1>1. i.w = Width(row, c) /\ i.dst = o.dst /\ i.src = o.src /\ i.src2 = o.src2 BY DEF Arises
<1>2. SuitsMove(i.op, row.w, row.layout) BY DEF SuitsIts, Suits
<1>3. /\ row.w \in {"b", "w", "v"}
      /\ \/ row.layout = AsRmR \/ row.layout = AsRRm \/ row.layout = AsAccOffset \/ row.layout = AsOffsetAcc
         \/ row.layout = AsRegImm \/ row.layout = AsRmImm
         \/ row.w = "w" /\ (row.layout = AsRmSreg \/ row.layout = AsSregRm)
  BY <1>2 DEF SuitsMove
<1>4. PICK w \in Widths : w = i.w /\ w = Width(row, c) BY <1>0, <1>1, <1>3, LetterWidths
<1>5. CASE row.layout = AsRmR
  <2>1. IsRm(w, c, o.dst) /\ IsGeneral(w, o.src) /\ o.src2 = None BY <1>0, <1>4, <1>5, HasRmR
  <2>2. RmR(i, c) BY <1>1, <1>4, <2>1 DEF RmR
  <2>3. QED BY <1>4, <2>2 DEF MoveForm, FourForms
<1>6. CASE row.layout = AsOffsetAcc
  <2>1. IsRm(w, c, o.dst) /\ IsGeneral(w, o.src) /\ o.src2 = None BY <1>0, <1>4, <1>6, HasOffsetAcc
  <2>2. RmR(i, c) BY <1>1, <1>4, <2>1 DEF RmR
  <2>3. QED BY <1>4, <2>2 DEF MoveForm, FourForms
<1>7. CASE row.layout = AsRRm
  <2>1. IsGeneral(w, o.dst) /\ IsRm(w, c, o.src) /\ o.src2 = None BY <1>0, <1>4, <1>7, HasRRm
  <2>2. RRm(i, c) BY <1>1, <1>4, <2>1 DEF RRm
  <2>3. QED BY <1>4, <2>2 DEF MoveForm, FourForms
<1>8. CASE row.layout = AsAccOffset
  <2>1. IsGeneral(w, o.dst) /\ IsRm(w, c, o.src) /\ o.src2 = None BY <1>0, <1>4, <1>8, HasAccOffset
  <2>2. RRm(i, c) BY <1>1, <1>4, <2>1 DEF RRm
  <2>3. QED BY <1>4, <2>2 DEF MoveForm, FourForms
<1>9. CASE row.layout = AsRegImm \/ row.layout = AsRmImm
  <2>1. IsRm(w, c, o.dst) BY <1>0, <1>4, <1>9, HasRegImm, HasRmImm, GeneralIsRm
  <2>2. \E x : OfWidth(w, x) /\ o.src = Imm(w, x) BY <1>0, <1>4, <1>9, HasRegImm, HasRmImm
  <2>3. o.src2 = None BY <1>0, <1>4, <1>9, HasRegImm, HasRmImm
  <2>4. RmNumber(i, c) BY <1>1, <1>4, <2>1, <2>2, <2>3 DEF RmNumber
  <2>5. QED BY <1>4, <2>4 DEF MoveForm, FourForms
<1>10. CASE row.w = "w" /\ (row.layout = AsRmSreg \/ row.layout = AsSregRm)
  <2>1. w = 16 BY <1>0, <1>4, <1>10, LetterWidths
  <2>2. o.dst.kind = "sreg" \/ o.src.kind = "sreg" BY <1>0, <1>4, <1>10, HasRmSreg, HasSregRm
  <2>3. i.dst.kind = "sreg" \/ i.src.kind = "sreg" BY <1>1, <2>2
  <2>4. QED BY <1>4, <2>1, <2>3 DEF MoveForm
<1>11. QED BY <1>3, <1>5, <1>6, <1>7, <1>8, <1>9, <1>10

LEMMA ArithShaped ==
  ASSUME NEW i, NEW row, NEW c, NEW f, NEW b, NEW pos, NEW o, Arises(i, row, c, f, b, pos, o), SuitsIts(i, row, f),
         i.op \in ArithOps
  PROVE  i.w \in Widths /\ FourForms(i, c)
<1>0. c \in Contexts /\ f \in Following /\ b \in Byte /\ o = OperandsAt(row, c, f, b, pos) BY DEF Arises
<1>1. i.w = Width(row, c) /\ i.dst = o.dst /\ i.src = o.src /\ i.src2 = o.src2 BY DEF Arises
<1>2. SuitsGroup(i.op, row.w, row.layout, RegField(f)) BY DEF SuitsIts, Suits
<1>3. /\ row.w \in {"b", "w", "v"}
      /\ \/ row.layout = AsRmR \/ row.layout = AsRRm \/ row.layout = AsAccImm
         \/ row.layout = AsRmImm \/ row.layout = AsRmImmS8
  BY <1>2 DEF SuitsGroup
<1>4. PICK w \in Widths : w = i.w /\ w = Width(row, c) BY <1>0, <1>1, <1>3, LetterWidths
<1>5. CASE row.layout = AsRmR
  <2>1. IsRm(w, c, o.dst) /\ IsGeneral(w, o.src) /\ o.src2 = None BY <1>0, <1>4, <1>5, HasRmR
  <2>2. RmR(i, c) BY <1>1, <1>4, <2>1 DEF RmR
  <2>3. QED BY <1>4, <2>2 DEF FourForms
<1>6. CASE row.layout = AsRRm
  <2>1. IsGeneral(w, o.dst) /\ IsRm(w, c, o.src) /\ o.src2 = None BY <1>0, <1>4, <1>6, HasRRm
  <2>2. RRm(i, c) BY <1>1, <1>4, <2>1 DEF RRm
  <2>3. QED BY <1>4, <2>2 DEF FourForms
<1>7. CASE row.layout = AsAccImm \/ row.layout = AsRmImm
  <2>1. IsRm(w, c, o.dst) BY <1>0, <1>4, <1>7, HasAccImm, HasRmImm, GeneralIsRm
  <2>2. \E x : OfWidth(w, x) /\ o.src = Imm(w, x) BY <1>0, <1>4, <1>7, HasAccImm, HasRmImm
  <2>3. o.src2 = None BY <1>0, <1>4, <1>7, HasAccImm, HasRmImm
  <2>4. RmNumber(i, c) BY <1>1, <1>4, <2>1, <2>2, <2>3 DEF RmNumber
  <2>5. QED BY <1>4, <2>4 DEF FourForms
<1>8. CASE row.layout = AsRmImmS8
  <2>1. IsRm(w, c, o.dst) /\ o.src.kind = "imms8" /\ o.src2 = None BY <1>0, <1>4, <1>8, HasRmImmS8
  <2>2. RmSmall(i, c) BY <1>1, <1>4, <2>1 DEF RmSmall
  <2>3. QED BY <1>4, <2>2 DEF FourForms
<1>9. QED BY <1>3, <1>5, <1>6, <1>7, <1>8

LEMMA MathShaped ==
  ASSUME NEW i, NEW row, NEW c, NEW f, NEW b, NEW pos, NEW o, Arises(i, row, c, f, b, pos, o), SuitsIts(i, row, f),
         i.op \in MathOps
  PROVE  i.w \in Widths /\ IF i.w = 8 THEN ByteMathForm(i, c) ELSE MathForm(i, c)
<1>0. c \in Contexts /\ f \in Following /\ b \in Byte /\ o = OperandsAt(row, c, f, b, pos) BY DEF Arises
<1>1. i.w = Width(row, c) /\ i.dst = o.dst /\ i.src = o.src /\ i.src2 = o.src2 BY DEF Arises
<1>2. SuitsGroup(i.op, row.w, row.layout, RegField(f)) BY DEF SuitsIts, Suits
<1>3. /\ row.w \in {"b", "v"}
      /\ \/ i.op = "test" /\ (row.layout = AsRmR \/ row.layout = AsAccImm)
         \/ row.layout = AsMath /\ (i.op = "test" <=> RegField(f) < 2)
         \/ /\ i.op = "imul" /\ row.w = "v"
            /\ row.layout = AsRRm \/ row.layout = AsRRmImm \/ row.layout = AsRRmImmS8
  BY <1>2 DEF SuitsGroup
<1>4. PICK w \in Widths : w = i.w /\ w = Width(row, c) BY <1>0, <1>1, <1>3, LetterWidths
<1>5. TestForm(i, c) \/ (i.op # "test" /\ RmOnly(i, c)) => IF i.w = 8 THEN ByteMathForm(i, c) ELSE MathForm(i, c)
  BY DEF ByteMathForm, MathForm
<1>6. CASE i.op = "test" /\ row.layout = AsRmR
  <2>1. IsRm(w, c, o.dst) /\ IsGeneral(w, o.src) /\ o.src2 = None BY <1>0, <1>4, <1>6, HasRmR
  <2>2. RmR(i, c) BY <1>1, <1>4, <2>1 DEF RmR
  <2>3. TestForm(i, c) BY <1>6, <2>2 DEF TestForm, IsTest
  <2>4. QED BY <1>4, <1>5, <2>3
<1>7. CASE i.op = "test" /\ row.layout = AsAccImm
  <2>1. IsRm(w, c, o.dst) BY <1>0, <1>4, <1>7, HasAccImm, GeneralIsRm
  <2>2. \E x : OfWidth(w, x) /\ o.src = Imm(w, x) BY <1>0, <1>4, <1>7, HasAccImm
  <2>3. o.src2 = None BY <1>0, <1>4, <1>7, HasAccImm
  <2>4. RmNumber(i, c) BY <1>1, <1>4, <2>1, <2>2, <2>3 DEF RmNumber
  <2>5. TestForm(i, c) BY <1>7, <2>4 DEF TestForm, IsTest
  <2>6. QED BY <1>4, <1>5, <2>5
<1>8. CASE row.layout = AsMath /\ (i.op = "test" <=> RegField(f) < 2)
  <2>1. IsRm(w, c, o.dst) BY <1>0, <1>4, <1>8, HasMath
  <2>2. o.src2 = None BY <1>0, <1>4, <1>8, HasMath
  <2>3. CASE i.op = "test"
    <3>1. RegField(f) < 2 BY <1>8, <2>3
    <3>2. \E x : OfWidth(w, x) /\ o.src = Imm(w, x) BY <1>0, <1>4, <1>8, <3>1, HasMath
    <3>3. RmNumber(i, c) BY <1>1, <1>4, <2>1, <2>2, <3>2 DEF RmNumber
    <3>4. TestForm(i, c) BY <2>3, <3>3 DEF TestForm, IsTest
    <3>5. QED BY <1>4, <1>5, <3>4
  <2>4. CASE i.op # "test"
    <3>1. ~(RegField(f) < 2) BY <1>8, <2>4
    <3>2. o.src = None BY <1>0, <1>4, <1>8, <3>1, HasMath
    <3>3. RmOnly(i, c) BY <1>1, <1>4, <2>1, <2>2, <3>2 DEF RmOnly
    <3>4. QED BY <1>4, <1>5, <2>4, <3>3
  <2>5. QED BY <2>3, <2>4
<1>9. CASE /\ i.op = "imul" /\ row.w = "v"
           /\ row.layout = AsRRm \/ row.layout = AsRRmImm \/ row.layout = AsRRmImmS8
  <2>1. w \in Sizes BY <1>0, <1>4, <1>9, LetterWidths
  <2>2. w # 8 BY <2>1 DEF Sizes
  <2>3. IsGeneral(w, o.dst) BY <1>0, <1>4, <1>9, HasRRm, HasRRmImm, HasRRmImmS8
  <2>4. IsRm(w, c, o.src) BY <1>0, <1>4, <1>9, HasRRm, HasRRmImm, HasRRmImmS8
  <2>5. CASE row.layout = AsRRm
    <3>1. o.src2 = None BY <1>0, <1>4, <2>5, HasRRm
    <3>2. Factor(i, c) BY <1>1, <1>4, <1>9, <2>3, <2>4, <3>1 DEF Factor
    <3>3. QED BY <1>4, <2>2, <3>2 DEF MathForm
  <2>6. CASE row.layout = AsRRmImm
    <3>1. \E x : o.src2 = Imm(w, x) BY <1>0, <1>4, <2>6, HasRRmImm
    <3>2. Factor(i, c) BY <1>1, <1>4, <1>9, <2>3, <2>4, <3>1 DEF Factor
    <3>3. QED BY <1>4, <2>2, <3>2 DEF MathForm
  <2>7. CASE row.layout = AsRRmImmS8
    <3>1. \E x \in Byte : o.src2 = ImmS8(Signed8(x)) BY <1>0, <1>4, <2>7, HasRRmImmS8
    <3>2. Factor(i, c) BY <1>1, <1>4, <1>9, <2>3, <2>4, <3>1 DEF Factor
    <3>3. QED BY <1>4, <2>2, <3>2 DEF MathForm
  <2>8. QED BY <1>9, <2>5, <2>6, <2>7
<1>10. QED BY <1>3, <1>6, <1>7, <1>8, <1>9

LEMMA ShiftShaped ==
  ASSUME NEW i, NEW row, NEW c, NEW f, NEW b, NEW pos, NEW o, Arises(i, row, c, f, b, pos, o), SuitsIts(i, row, f),
         i.op \in ShiftOps
  PROVE  i.w \in Widths /\ ShiftForm(i, c)
<1>0. c \in Contexts /\ f \in Following /\ b \in Byte /\ o = OperandsAt(row, c, f, b, pos) BY DEF Arises
<1>1. i.w = Width(row, c) /\ i.dst = o.dst /\ i.src = o.src /\ i.src2 = o.src2 BY DEF Arises
<1>2. SuitsGroup(i.op, row.w, row.layout, RegField(f)) BY DEF SuitsIts, Suits
<1>3. \/ row.w \in {"b", "v"} /\ row.layout = AsRmImm8
      \/ row.w \in {"b", "w"} /\ (row.layout = AsRmOne \/ row.layout = AsRmCl)
  BY <1>2 DEF SuitsGroup
<1>4. PICK w \in Widths : w = i.w /\ w = Width(row, c)
  <2>1. row.w \in {"b", "w", "v"} BY <1>3
  <2>2. QED BY <1>0, <1>1, <2>1, LetterWidths
<1>5. CASE row.layout = AsRmImm8
  <2>1. IsRm(w, c, o.dst) BY <1>0, <1>4, <1>5, HasRmImm8
  <2>2. \E x \in Byte : o.src = Imm(8, x) BY <1>0, <1>4, <1>5, HasRmImm8
  <2>3. o.src2 = None BY <1>0, <1>4, <1>5, HasRmImm8
  <2>4. QED BY <1>1, <1>4, <2>1, <2>2, <2>3 DEF ShiftForm
<1>6. CASE row.w \in {"b", "w"} /\ row.layout = AsRmOne
  <2>1. w \in {8, 16} BY <1>0, <1>4, <1>6, LetterWidths
  <2>2. IsRm(w, c, o.dst) /\ o.src = Imm(w, 1) /\ o.src2 = None BY <1>0, <1>4, <1>6, HasRmOne
  <2>3. QED BY <1>1, <1>4, <2>1, <2>2 DEF ShiftForm
<1>7. CASE row.layout = AsRmCl
  <2>1. IsRm(w, c, o.dst) /\ o.src = Reg(8, "cl") /\ o.src2 = None BY <1>0, <1>4, <1>7, HasRmCl
  <2>2. QED BY <1>1, <1>4, <2>1 DEF ShiftForm
<1>8. QED BY <1>3, <1>5, <1>6, <1>7

\* The one row of the extensions of words, in a context of double words.
LEMMA WordExtended ==
  ASSUME NEW i, NEW row, NEW c, NEW f, NEW b, NEW pos, NEW o, Arises(i, row, c, f, b, pos, o),
         c.size = 32, ExtendsWord(row)
  PROVE  i.op \in Extends /\ i.w = 32 /\ Narrow(i, c, 16)
<1>0. c \in Contexts /\ f \in Following /\ b \in Byte /\ o = OperandsAt(row, c, f, b, pos) BY DEF Arises
<1>1. i.w = Width(row, c) /\ i.dst = o.dst /\ i.src = o.src /\ i.src2 = o.src2 BY DEF Arises
<1>2. PICK op \in Extends : row = Row(op, "v", AsR32Rm16) BY DEF ExtendsWord
<1>3. row.layout = AsR32Rm16 /\ row.w = "v" /\ row.ops[RegField(f)] = op BY <1>0, <1>2, FieldRanges DEF Row
<1>4. i.op = op BY <1>3 DEF Arises
<1>5. Width(row, c) = c.size BY <1>3 DEF Width
<1>6. PICK w \in Widths : w = Width(row, c) /\ w = 32 BY <1>5 DEF Widths
<1>7. IsGeneral(32, o.dst) /\ IsRm(16, c, o.src) /\ o.src2 = None BY ZenonT(60), <1>0, <1>3, <1>6, HasR32Rm16
<1>8. Narrow(i, c, 16) BY <1>1, <1>6, <1>7 DEF Narrow
<1>9. QED BY <1>1, <1>2, <1>4, <1>6, <1>8

\* Of an operation that the encoder does not know nothing is asked.
LEMMA ForeignShaped ==
  ASSUME NEW i, NEW c, Foreign(i.op)
  PROVE  Shaped(i, c)
BY DEF Foreign, Shaped

\* No row is too much or too little for what its operation may have.
LEMMA FitShaped ==
  ASSUME NEW i, NEW row, NEW c, NEW f, NEW b, NEW pos, NEW o, Arises(i, row, c, f, b, pos, o), SuitsIts(i, row, f)
  PROVE  Shaped(i, c)
<1>1. i.op \in SingleOps => Bare(i) /\ i.w = 0 BY SingleShaped
<1>2. i.op = "cbw" => Bare(i) BY SingleShaped
<1>3. i.op \in OneOperands => OneOperand(i) BY OneOperandShaped
<1>4. /\ i.op \in Words => WordForm(i, c)
      /\ i.op \in Counts => i.w \in Widths /\ RmOnly(i, c)
      /\ i.op = "xchg" => i.w \in Widths /\ RmR(i, c)
      /\ i.op \in Extends => i.w \in Sizes /\ \E v : Narrow(i, c, v)
  BY WordShaped
<1>5. i.op = "mov" => i.w \in Widths /\ MoveForm(i, c) BY MoveShaped
<1>6. i.op \in ArithOps => i.w \in Widths /\ FourForms(i, c) BY ArithShaped
<1>7. i.op \in MathOps => i.w \in Widths /\ IF i.w = 8 THEN ByteMathForm(i, c) ELSE MathForm(i, c) BY MathShaped
<1>8. i.op \in ShiftOps => i.w \in Widths /\ ShiftForm(i, c) BY ShiftShaped
<1>9. QED BY <1>1, <1>2, <1>3, <1>4, <1>5, <1>6, <1>7, <1>8 DEF Shaped

LEMMA ExtendShaped ==
  ASSUME NEW i, NEW c, i.op \in Extends, i.w = 32, Narrow(i, c, 16)
  PROVE  Shaped(i, c)
<1>1. i.w \in Sizes /\ \E v : Narrow(i, c, v) BY DEF Sizes
<1>2. /\ i.op \notin SingleOps \cup OneOperands \cup Words \cup Counts
      /\ i.op \notin ArithOps \cup MathOps \cup ShiftOps \cup {"cbw", "xchg", "mov"}
  BY OperationsAre DEF Extends, OneOperands, Words, Counts
<1>3. QED BY <1>1, <1>2 DEF Shaped

\* How many bytes the operands of a row take.
LEMMA OperandsTake ==
  ASSUME NEW row, NEW c \in Contexts, NEW f \in Following, NEW b, NEW pos
  PROVE  OperandsAt(row, c, f, b, pos).n \in Nat
<1>1. PICK w : w = Width(row, c) OBVIOUS
<1>2. ImmLen(w) \in Nat
  <2>1. c.size \in Sizes BY DEF Contexts
  <2>2. w \in {0, 8, 16, 32} BY <1>1, <2>1 DEF Width, Sizes
  <2>3. QED BY <2>2 DEF ImmLen
<1>3. PICK m \in Nat : m = ImmLen(w) BY <1>2
<1>4. PICK n \in Nat : n = RmLen(f)
  <2>1. RmLen(f) \in 1..3 BY RmBytesAre
  <2>2. QED BY <2>1
<1>5. PICK layout : layout = row.layout OBVIOUS
<1>6. RmLayout(layout, w, c, f).n \in {n, n + 1, n + m, 0, 1}
  BY <1>3, <1>4 DEF RmLayout, One, Two, Operands
<1>7. PlainLayout(layout, w, c, f, b, pos).n \in {m, 0, 1, 2, 3, 4}
  BY <1>3 DEF PlainLayout, One, Two, Operands
<1>8. n + 1 \in Nat /\ n + m \in Nat OBVIOUS
<1>9. RmLayout(layout, w, c, f).n \in Nat BY <1>6, <1>8
<1>10. PlainLayout(layout, w, c, f, b, pos).n \in Nat BY <1>7
<1>11. QED BY <1>1, <1>5, <1>9, <1>10 DEF OperandsAt

\* A row that suits what the prefixes say.
FitsIn(row, c) == FitRow(row) \/ (c.size = 32 /\ ExtendsWord(row))

\* What a row makes of its context and of what follows has a form from which
\* encode writes bytes that are read as the same.
LEMMA InstructionDecoded ==
  ASSUME NEW row, NEW c \in Contexts, NEW f \in Following, NEW b \in Byte, NEW pos, NEW head \in Nat,
         FitsIn(row, c), NEW i, i = Instruction(row, c, f, b, pos, head)
  PROVE  Decoded(i) /\ i.panic = FALSE /\ i.length \in Nat
<1>1. PICK o : o = OperandsAt(row, c, f, b, pos) OBVIOUS
<1>2. PICK named : named = row.ops[RegField(f)] OBVIOUS
<1>3. PICK w : w = Width(row, c) OBVIOUS
<1>4. /\ i.panic = FALSE /\ i.dst = o.dst /\ i.src = o.src /\ i.src2 = o.src2 /\ i.seg = c.seg /\ i.lock = c.lock
      /\ i.length = (head + o.n) % 256
  BY <1>1 DEF Instruction, OperandsAt
<1>5. /\ i.op = Invalid \/ i.op = named
      /\ i.w = IF i.op \in Widthless THEN 0 ELSE w
  BY <1>2, <1>3 DEF Instruction
<1>6. i.length \in Nat
  <2>1. PICK n \in Nat : n = o.n BY <1>1, OperandsTake
  <2>2. (head + n) % 256 \in Nat OBVIOUS
  <2>3. QED BY <1>4, <2>1, <2>2
<1>7. From(i, c) BY <1>4 DEF From, Prefixed, Contexts
<1>8. Shaped(i, c)
  <2>1. CASE Foreign(i.op) BY <2>1, ForeignShaped
  <2>2. CASE ~Foreign(i.op)
    <3>1. i.op \notin Widthless /\ i.op # Invalid BY <2>2, ForeignNames DEF Widthless, Invalid
    <3>2. i.op = named /\ i.w = w BY <1>5, <3>1
    <3>3. Arises(i, row, c, f, b, pos, o) BY <1>1, <1>2, <1>3, <1>4, <3>2 DEF Arises
    <3>4. CASE FitRow(row)
      <4>1. RegField(f) \in 0..7 BY FieldRanges
      <4>2. SuitsIts(i, row, f) BY <1>2, <3>2, <3>4, <4>1 DEF FitRow, SuitsIts
      <4>3. QED BY <3>3, <4>2, FitShaped
    <3>5. CASE c.size = 32 /\ ExtendsWord(row) BY <3>3, <3>5, WordExtended, ExtendShaped
    <3>6. QED BY <3>4, <3>5 DEF FitsIn
  <2>3. QED BY <2>1, <2>2
<1>9. Decoded(i) BY <1>7, <1>8 DEF Decoded
<1>10. QED BY <1>4, <1>6, <1>9

-----------------------------------------------------------------------------
(* What decode makes of a segment. *)

\* Some byte ends the prefixes.
Stops(m, at) == \E k \in 0..SegSize : At(m, at, k) \notin PrefixBytes

LEMMA PrefixesStop ==
  ASSUME NEW m, NEW at, Stops(m, at)
  PROVE  PrefixCount(m, at) \in Nat
<1>0. SegSize \in Nat BY SegSizeAssumption
<1> DEFINE Last(n) == n \in 0..SegSize /\ At(m, at, n) \notin PrefixBytes
           T == {n \in 0..SegSize : At(m, at, n) \notin PrefixBytes}
           Less == OpToRel(<, Nat)
<1>1. T \in SUBSET Nat /\ T # {} BY <1>0 DEF Stops
<1>2. PICK n \in T : \A k \in T : ~(<<k, n>> \in Less)
  <2>1. IsWellFoundedOn(Less, Nat) BY NatLessThanWellFounded
  <2> HIDE DEF Less, T
  <2>2. QED BY <1>1, <2>1, WFMin
<1>3. n \in Nat /\ n \in 0..SegSize BY <1>0
<1>4. ASSUME NEW k \in 0..(n - 1) PROVE At(m, at, k) \in PrefixBytes
  <2>1. k \in Nat /\ k < n /\ k \in 0..SegSize BY <1>0, <1>3
  <2>2. <<k, n>> \in Less BY <1>3, <2>1 DEF OpToRel
  <2>3. k \notin T BY <1>2, <2>2
  <2>4. QED BY <2>1, <2>3
<1>5. \E x \in 0..SegSize : At(m, at, x) \notin PrefixBytes /\ \A k \in 0..(x - 1) : At(m, at, k) \in PrefixBytes
  BY <1>2, <1>3, <1>4
<1>6. PrefixCount(m, at) \in 0..SegSize BY <1>5 DEF PrefixCount
<1>7. QED BY <1>0, <1>6

\* What the prefixes say is a context, whatever they are.
LEMMA ContextsAre ==
  ASSUME NEW m, NEW at, NEW n
  PROVE  Context(m, at, n) \in Contexts
<1>1. \A b : SegmentOf(b) \in Segments BY DEF SegmentOf, Segments
<1>2. "default" \in Segments BY DEF Segments
<1> DEFINE pre == {At(m, at, k) : k \in 0..(n - 1)}
           segs == {k \in 0..(n - 1) : At(m, at, k) \in SegmentBytes}
           seg == IF segs = {} THEN "default"
                  ELSE SegmentOf(At(m, at, CHOOSE k \in segs : \A j \in segs : j <= k))
<1>3. seg \in Segments BY <1>1, <1>2
<1>4. Context(m, at, n) = [seg |-> seg, size |-> IF 102 \in pre THEN 32 ELSE 16,
                           addr |-> IF 103 \in pre THEN 32 ELSE 16,
                           lock |-> 240 \in pre, repne |-> 242 \in pre, rep |-> 243 \in pre]
  BY DEF Context
<1> HIDE DEF seg, pre
<1>5. \A x : (IF x \in pre THEN 32 ELSE 16) \in Sizes BY DEF Sizes
<1>6. \A x : (x \in pre) \in BOOLEAN OBVIOUS
<1>7. QED BY <1>3, <1>4, <1>5, <1>6 DEF Contexts

\* Of whatever is in memory decode makes an instruction of a form from which
\* encode writes bytes that are read as the same, if it does not panic.
THEOREM DecodeDecodes ==
  ASSUME NEW m \in Memories, NEW at \in Nat, Stops(m, at), NEW i, i = Decode(m, at), ~i.panic
  PROVE  Decoded(i) /\ i.panic = FALSE /\ i.length \in Nat
<1>1. PICK n \in Nat : n = PrefixCount(m, at) BY PrefixesStop
<1>2. PICK c \in Contexts : c = Context(m, at, n) BY ContextsAre
<1>3. PICK b \in Byte, b2 \in Byte : b = At(m, at, n) /\ b2 = At(m, at, n + 1) BY AtIsByte
<1>4. PICK head \in Nat : head = IF b = 15 THEN n + 2 ELSE n + 1 OBVIOUS
<1>5. PICK pos \in Nat : pos = at + head OBVIOUS
<1>6. PICK f \in Following : f = [k \in 0..7 |-> At(m, pos, k)] BY FollowingIsBytes DEF FollowingAt
<1>7. PICK row : row = RowAt(b, b2, f, c) OBVIOUS
<1>8. i = IF Unreachable(row, f) THEN [panic |-> TRUE] ELSE Instruction(row, c, f, b, pos, head)
  BY <1>1, <1>2, <1>3, <1>4, <1>5, <1>6, <1>7 DEF Decode
<1>9. ~Unreachable(row, f) BY <1>8
<1>10. i = Instruction(row, c, f, b, pos, head) BY <1>8, <1>9
<1>11. FitsIn(row, c) BY <1>2, <1>3, <1>6, <1>7, RowsFit DEF FitsIn
<1>12. c \in Contexts /\ f \in Following /\ b \in Byte /\ head \in Nat BY <1>2, <1>3, <1>4, <1>6
<1>13. QED BY ZenonT(60), <1>10, <1>11, <1>12, InstructionDecoded

-----------------------------------------------------------------------------
(* A block of bytes in a segment. *)

\* A small number is its own remainder, and so is one above it less one turn.
LEMMA Wraps ==
  ASSUME NEW m \in Nat \ {0}, NEW r \in 0..(m - 1)
  PROVE  r % m = r /\ (r - m) % m = r /\ (r + m) % m = r
<1>1. r % m = r OBVIOUS
<1>2. (r - m) % m = r OBVIOUS
<1>3. (r + m) % m = r OBVIOUS
<1>4. QED BY <1>1, <1>2, <1>3

\* The place of byte p of a block at x, and the byte of a place.
LEMMA PlaceIs ==
  ASSUME NEW x \in 0..(SegSize - 1), NEW p \in 0..(SegSize - 1), NEW q, q = (x + p) % SegSize
  PROVE  q \in 0..(SegSize - 1) /\ (q - x) % SegSize = p
<1>1. PICK n \in Nat \ {0} : n = SegSize BY SegSizeAssumption
<1>2. PICK y \in 0..(n - 1), t \in 0..(n - 1) : y = x /\ t = p BY <1>1
<1>3. q = (y + t) % n BY <1>1, <1>2
<1>4. CASE y + t < n
  <2>1. y + t \in 0..(n - 1) BY <1>4
  <2>2. q = y + t BY <1>3, <2>1, Wraps
  <2>3. q - y = t BY <2>2
  <2>4. t % n = t BY Wraps
  <2>5. QED BY <1>1, <1>2, <2>1, <2>2, <2>3, <2>4
<1>5. CASE ~(y + t < n)
  <2>1. PICK r \in 0..(n - 1) : r = y + t - n BY <1>5
  <2>2. (r + n) % n = r BY Wraps
  <2>3. y + t = r + n BY <2>1
  <2>4. q = r BY <1>3, <2>2, <2>3
  <2>5. q - y = t - n BY <2>1, <2>4
  <2>6. (t - n) % n = t BY Wraps
  <2>7. QED BY <1>1, <1>2, <2>4, <2>5, <2>6
<1>6. QED BY <1>4, <1>5

\* Behind one place it goes on as from the beginning of the block.
LEMMA PlacesAdd ==
  ASSUME NEW x \in 0..(SegSize - 1), NEW e \in Nat, NEW d \in Nat, e + d < SegSize
  PROVE  (((x + e) % SegSize) + d) % SegSize = (x + (e + d)) % SegSize
<1>1. PICK n \in Nat \ {0} : n = SegSize BY SegSizeAssumption
<1>2. PICK y \in 0..(n - 1) : y = x BY <1>1
<1>3. e + d < n BY <1>1
<1>4. CASE y + e < n
  <2>1. y + e \in 0..(n - 1) BY <1>4
  <2>2. (y + e) % n = y + e BY <2>1, Wraps
  <2>3. (y + e) + d = y + (e + d) OBVIOUS
  <2>4. QED BY <1>1, <1>2, <2>2, <2>3
<1>5. CASE ~(y + e < n)
  <2>1. PICK r \in 0..(n - 1) : r = y + e - n BY <1>3, <1>5
  <2>2. y + e = r + n BY <2>1
  <2>3. (y + e) % n = r
    <3>1. (r + n) % n = r BY <2>1, Wraps
    <3>2. QED BY <2>2, <3>1
  <2>4. PICK s \in 0..(n - 1) : s = r + d BY <1>3, <2>1
  <2>5. s % n = s /\ (s + n) % n = s BY Wraps
  <2>6. y + (e + d) = s + n BY <2>1, <2>4
  <2>7. (r + d) % n = s /\ (y + (e + d)) % n = s BY <2>4, <2>5, <2>6
  <2>8. QED BY <1>1, <1>2, <2>3, <2>7
<1>6. QED BY <1>4, <1>5

\* What the block holds, and the byte behind it.
LEMMA LoadHolds ==
  ASSUME NEW x \in 0..(SegSize - 1), NEW bytes \in Seq(Byte), Len(bytes) < SegSize, NEW m, m = Load(x, bytes)
  PROVE  /\ m \in Memories
         /\ \A p \in 0..(Len(bytes) - 1) : m[(x + p) % SegSize] = bytes[p + 1]
         /\ m[(x + Len(bytes)) % SegSize] = Filler
<1>0. SegSize \in Nat \ {0} /\ Filler \in Byte BY SegSizeAssumption, CodecAssumption DEF Byte
<1> DEFINE j(k) == ((k - x) % SegSize) + 1
           v(k) == IF j(k) <= Len(bytes) THEN bytes[j(k)] ELSE Filler
<1>1. m = [k \in 0..(SegSize - 1) |-> v(k)] BY DEF Load
<1>2. \A k \in 0..(SegSize - 1) : j(k) \in 1..SegSize BY <1>0
<1>3. \A k \in 0..(SegSize - 1) : v(k) \in Byte BY <1>0, <1>2
<1>4. \A k \in 0..(SegSize - 1) : m[k] = v(k) BY <1>1
<1>5. m \in Memories BY <1>1, <1>3 DEF Memories
<1>6. ASSUME NEW p \in 0..(Len(bytes) - 1) PROVE m[(x + p) % SegSize] = bytes[p + 1]
  <2>1. p \in 0..(SegSize - 1) BY <1>0
  <2>2. PICK q : q = (x + p) % SegSize OBVIOUS
  <2>3. q \in 0..(SegSize - 1) /\ (q - x) % SegSize = p BY <2>1, <2>2, PlaceIs
  <2>4. j(q) = p + 1 BY <2>3
  <2>5. v(q) = bytes[p + 1] BY <2>4
  <2>6. QED BY <1>4, <2>2, <2>3, <2>5
<1>7. m[(x + Len(bytes)) % SegSize] = Filler
  <2>1. PICK p \in 0..(SegSize - 1) : p = Len(bytes) BY <1>0
  <2>2. PICK q : q = (x + p) % SegSize OBVIOUS
  <2>3. q \in 0..(SegSize - 1) /\ (q - x) % SegSize = p BY <2>2, PlaceIs
  <2>4. j(q) = p + 1 BY <2>3
  <2>5. v(q) = Filler BY <2>1, <2>4
  <2>6. QED BY <1>4, <2>1, <2>2, <2>3, <2>5
<1>8. QED BY <1>5, <1>6, <1>7

\* In a segment with a block in it the prefixes stop wherever one begins.
LEMMA LoadStops ==
  ASSUME NEW x \in 0..(SegSize - 1), NEW bytes \in Seq(Byte), Len(bytes) < SegSize, NEW m, m = Load(x, bytes),
         NEW at \in 0..(SegSize - 1)
  PROVE  Stops(m, at)
<1>1. PICK n \in Nat \ {0} : n = SegSize BY SegSizeAssumption
<1>2. PICK l \in 0..(SegSize - 1) : l = Len(bytes) BY <1>1
<1>3. PICK q : q = (x + l) % SegSize OBVIOUS
<1>4. q \in 0..(SegSize - 1) BY <1>3, PlaceIs
<1>5. PICK y \in 0..(n - 1), a \in 0..(n - 1) : y = q /\ a = at BY <1>1, <1>4
<1>6. PICK k \in 0..n : k = IF y >= a THEN y - a ELSE y + n - a
  <2>1. CASE y >= a
    <3>1. y - a \in 0..n BY <2>1
    <3>2. QED BY <2>1, <3>1
  <2>2. CASE ~(y >= a)
    <3>1. y + n - a \in 0..n BY <2>2
    <3>2. QED BY <2>2, <3>1
  <2>3. QED BY <2>1, <2>2
<1>7. (a + k) % n = y
  <2>1. CASE y >= a
    <3>1. a + k = y BY <1>6, <2>1
    <3>2. QED BY <3>1, Wraps
  <2>2. CASE ~(y >= a)
    <3>1. a + k = y + n BY <1>6, <2>2
    <3>2. QED BY <3>1, Wraps
  <2>3. QED BY <2>1, <2>2
<1>8. At(m, at, k) = m[q] BY <1>1, <1>5, <1>7 DEF At
<1>9. m[q] = Filler BY <1>2, <1>3, LoadHolds
<1>10. Filler \notin PrefixBytes BY CodecAssumption
<1>11. k \in 0..SegSize BY <1>1, <1>6
<1>12. QED BY <1>8, <1>9, <1>10, <1>11 DEF Stops

\* A piece of the block is read where it is.
LEMMA PieceIsRead ==
  ASSUME NEW x \in 0..(SegSize - 1), NEW bytes \in Seq(Byte), Len(bytes) < SegSize, NEW m, m = Load(x, bytes),
         NEW e \in Nat, NEW piece \in Seq(Byte), e + Len(piece) <= Len(bytes),
         \A k \in 1..Len(piece) : bytes[e + k] = piece[k], NEW at, at = (x + e) % SegSize
  PROVE  Reads(m, at, piece)
<1>0. SegSize \in Nat \ {0} BY SegSizeAssumption
<1>1. ASSUME NEW k \in 1..Len(piece) PROVE At(m, at, k - 1) = piece[k]
  <2>1. PICK d \in Nat : d = k - 1 OBVIOUS
  <2>2. e + d < SegSize /\ e + d \in 0..(Len(bytes) - 1) BY <1>0, <2>1
  <2>3. (at + d) % SegSize = (x + (e + d)) % SegSize BY <2>1, <2>2, PlacesAdd
  <2>4. m[(x + (e + d)) % SegSize] = bytes[(e + d) + 1] BY <2>2, LoadHolds
  <2>5. (e + d) + 1 = e + k BY <2>1
  <2>6. QED BY <2>1, <2>3, <2>4, <2>5 DEF At
<1>2. QED BY <1>1 DEF Reads

-----------------------------------------------------------------------------
(* The state: what was disassembled, assembled and disassembled again. *)

Instrs == {Decode(m, at) : m \in Memories, at \in 0..(SegSize - 1)}

\* Where instruction k begins in what encode_vec has collected, of which the
\* instructions end at e.
Edge(e, k) == IF k = 1 THEN 0 ELSE e[k - 1]
Piece(os, e, bytes, k) ==
  /\ Encode(os[k]).out = "bytes" /\ Encode(os[k]).bytes \in Seq(Byte) /\ Edge(e, k) \in Nat
  /\ e[k] = Edge(e, k) + Len(Encode(os[k]).bytes) /\ e[k] <= Len(bytes)
  /\ \A j \in 1..Len(Encode(os[k]).bytes) : bytes[Edge(e, k) + j] = Encode(os[k]).bytes[j]
Collected(os, e, bytes) ==
  /\ Len(e) <= Len(os) /\ Len(bytes) = Edge(e, Len(e) + 1) /\ Len(bytes) <= 9 * Len(e)
  /\ \A k \in 1..Len(e) : Piece(os, e, bytes, k)
AllDecoded(os) == \A k \in 1..Len(os) : Decoded(os[k])

\* Nothing is collected yet, whatever there is to collect.
LEMMA NothingCollected ==
  ASSUME NEW S, NEW os \in Seq(S)
  PROVE  Collected(os, <<>>, <<>>)
<1>1. Len(os) \in Nat OBVIOUS
<1>2. PICK e, z : e = <<>> /\ z = <<>> OBVIOUS
<1>3. Len(e) = 0 /\ Len(z) = 0 BY <1>2
<1>4. Edge(e, Len(e) + 1) = 0 BY <1>3 DEF Edge
<1>5. Collected(os, e, z) BY <1>1, <1>3, <1>4 DEF Collected
<1>6. QED BY <1>2, <1>5

\* One more turn of the loop of encode_vec.
Turn(os, e, bytes, n, b, more, f) ==
  /\ Collected(os, e, bytes) /\ Len(e) < Len(os) /\ n = Len(e) + 1
  /\ Encode(os[n]).out = "bytes" /\ b = Encode(os[n]).bytes /\ Len(b) \in 1..9
  /\ more = bytes \o b /\ f = Append(e, Len(more))

LEMMA OneMore ==
  ASSUME NEW S, NEW os \in Seq(S), NEW e \in Seq(Nat), NEW bytes \in Seq(Byte), NEW b \in Seq(Byte),
         NEW n, NEW more, NEW f, Turn(os, e, bytes, n, b, more, f)
  PROVE  more \in Seq(Byte) /\ f \in Seq(Nat) /\ Len(f) = n /\ Collected(os, f, more)
<1>0. /\ Collected(os, e, bytes) /\ Len(e) < Len(os) /\ n = Len(e) + 1
      /\ Encode(os[n]).out = "bytes" /\ b = Encode(os[n]).bytes /\ Len(b) \in 1..9
      /\ more = bytes \o b /\ f = Append(e, Len(more))
  BY DEF Turn
<1> USE <1>0
<1>1. Len(e) \in Nat /\ Len(os) \in Nat /\ Len(bytes) \in Nat OBVIOUS
<1>2. PICK l \in Nat, t \in 1..9 : l = Len(bytes) /\ t = Len(b) BY <1>1
<1>3. more \in Seq(Byte) /\ Len(more) = l + t BY <1>2
<1>4. l + t \in Nat OBVIOUS
<1>5. f \in Seq(Nat) /\ Len(f) = n /\ f[n] = l + t /\ \A k \in 1..Len(e) : f[k] = e[k] BY <1>1, <1>3, <1>4
<1>6. n \in Nat /\ n >= 1 BY <1>1
<1>7. \A j \in 1..l : more[j] = bytes[j] BY <1>2
<1>8. \A j \in 1..t : more[l + j] = b[j] BY <1>2
<1>9. \A k \in 1..n : Edge(f, k) = Edge(e, k)
  <2>1. ASSUME NEW k \in 1..n, k # 1 PROVE k - 1 \in 1..Len(e) BY <1>1, <2>1
  <2>2. QED BY <1>5, <2>1 DEF Edge
<1>10. Edge(e, n) = l BY <1>2 DEF Collected
<1>11. Edge(f, n + 1) = l + t
  <2>1. (n + 1) - 1 = n /\ n + 1 # 1 BY <1>6
  <2>2. Edge(f, n + 1) = f[(n + 1) - 1] BY SMTT(60), <2>1 DEF Edge
  <2>3. QED BY <1>5, <2>1, <2>2
<1>12. Piece(os, f, more, n)
  <2>1. Edge(f, n) = l BY <1>6, <1>9, <1>10
  <2>2. f[n] = Edge(f, n) + Len(b) /\ f[n] <= Len(more)
    <3> HIDE <1>0
    <3>1. f[n] = l + t /\ Len(b) = t /\ Len(more) = l + t BY <1>2, <1>3, <1>5
    <3>2. QED BY <1>4, <2>1, <3>1
  <2>3. \A j \in 1..Len(b) : more[Edge(f, n) + j] = b[j] BY SMTT(60), <1>2, <1>8, <2>1
  <2>4. Edge(f, n) \in Nat BY <2>1
  <2>5. QED BY <2>2, <2>3, <2>4 DEF Piece
<1>13. ASSUME NEW k \in 1..Len(e) PROVE Piece(os, f, more, k)
  <2>1. Piece(os, e, bytes, k) BY DEF Collected
  <2>2. k \in 1..n BY <1>1
  <2>3. PICK g : g = Encode(os[k]).bytes OBVIOUS
  <2>4. Edge(f, k) = Edge(e, k) /\ f[k] = e[k] BY <1>5, <1>9, <2>2
  <2>5. Encode(os[k]).out = "bytes" /\ e[k] = Edge(e, k) + Len(g) /\ e[k] <= l BY <1>2, <2>1, <2>3 DEF Piece
  <2>6. \A j \in 1..Len(g) : bytes[Edge(e, k) + j] = g[j] BY <2>1, <2>3 DEF Piece
  <2>7. g \in Seq(Byte) /\ Edge(e, k) \in Nat BY <2>1, <2>3 DEF Piece
  <2>8. PICK p \in Nat, u \in Nat : p = Edge(e, k) /\ u = Len(g) BY <2>7
  <2>9. p + u <= l BY <2>5, <2>8
  <2>10. ASSUME NEW j \in 1..u PROVE more[p + j] = g[j]
    <3>1. p + j \in 1..l BY <2>9
    <3>2. more[p + j] = bytes[p + j] BY <1>7, <3>1
    <3>3. bytes[p + j] = g[j] BY <2>6, <2>8
    <3>4. QED BY <3>2, <3>3
  <2>11. f[k] = Edge(f, k) + Len(g) /\ f[k] <= Len(more)
    <3>1. f[k] = p + u BY <2>4, <2>5, <2>8
    <3>2. p + u <= l + t BY <2>9
    <3>3. QED BY <1>3, <2>4, <2>8, <3>1, <3>2
  <2>12. \A j \in 1..Len(g) : more[Edge(f, k) + j] = g[j] BY <2>4, <2>8, <2>10
  <2>13. Edge(f, k) \in Nat BY <2>4, <2>7
  <2>14. QED BY <2>3, <2>5, <2>7, <2>11, <2>12, <2>13 DEF Piece
<1>14. \A k \in 1..Len(f) : Piece(os, f, more, k)
  <2>1. \A k \in 1..n : k = n \/ k \in 1..Len(e) BY <1>1
  <2>2. QED BY <1>5, <1>12, <1>13, <2>1
<1>15. Len(f) <= Len(os) BY <1>1, <1>5
<1>16. Len(more) <= 9 * Len(f)
  <2>1. PICK k \in Nat : k = Len(e) BY <1>1
  <2>2. l <= 9 * k BY <1>2, <2>1 DEF Collected
  <2>3. 9 * (k + 1) = 9 * k + 9 OBVIOUS
  <2>4. QED BY <1>3, <1>5, <2>1, <2>2, <2>3
<1>17. QED BY <1>3, <1>5, <1>11, <1>14, <1>15, <1>16 DEF Collected

\* What is read where an instruction was collected is that instruction.
LEMMA ReadBack ==
  ASSUME NEW x \in 0..(SegSize - 1), NEW S, NEW os \in Seq(S), NEW e \in Seq(Nat), NEW bytes \in Seq(Byte),
         Collected(os, e, bytes), AllDecoded(os), Len(bytes) < SegSize, NEW m, m = Load(x, bytes),
         NEW k \in 1..Len(e), ~LosesHalf(os[k]),
         NEW d, d = Edge(e, k), NEW at, at = (x + d) % SegSize, NEW j, j = Decode(m, at)
  PROVE  /\ e[k] = j.length + d
         /\ ~Lossy(os[k]) => Meaning(j) = Meaning(os[k])
<1>0. SegSize \in Nat \ {0} BY SegSizeAssumption
<1>1. Piece(os, e, bytes, k) BY DEF Collected
<1>2. PICK i, b : i = os[k] /\ b = Encode(os[k]).bytes OBVIOUS
<1>3. Encode(i).out = "bytes" /\ b = Encode(i).bytes /\ b \in Seq(Byte) /\ d \in Nat BY <1>1, <1>2 DEF Piece
<1>4. e[k] = d + Len(b) /\ d + Len(b) <= Len(bytes) BY <1>1, <1>2 DEF Piece
<1>5. \A p \in 1..Len(b) : bytes[d + p] = b[p] BY <1>1, <1>2 DEF Piece
<1>6. Decoded(i)
  <2>1. k \in 1..Len(os)
    <3>1. Len(e) <= Len(os) BY DEF Collected
    <3>2. Len(os) \in Nat /\ Len(e) \in Nat OBVIOUS
    <3>3. QED BY <3>1, <3>2
  <2>2. QED BY <1>2, <2>1 DEF AllDecoded
<1>7. ~LosesHalf(i) BY <1>2
<1>8. ReadsAs(i, b) BY <1>3, <1>6, <1>7, RoundTrip
<1>9. m \in Memories BY LoadHolds
<1>10. at \in Nat BY SMTT(60), <1>0, <1>3
<1>11. Reads(m, at, b) BY ZenonT(60), <1>3, <1>4, <1>5, PieceIsRead
<1>12. PICK r : /\ Decode(m, at) = r /\ r.panic = FALSE /\ r.length = Len(b)
                /\ ~Lossy(i) => Meaning(r) = Meaning(i)
  BY <1>8, <1>9, <1>10, <1>11 DEF ReadsAs
<1>13. r = j BY <1>12
<1>14. e[k] = j.length + d
  <2>1. PICK l \in Nat : l = Len(b) BY <1>3
  <2>2. PICK g \in Nat : g = d BY <1>3
  <2>3. g + l = l + g OBVIOUS
  <2>4. QED BY <1>4, <1>12, <1>13, <2>1, <2>2, <2>3
<1>15. QED BY <1>2, <1>12, <1>13, <1>14

\* No instruction up to k has lost half of its number.
NoHalf(os, k) == \A j \in 1..k : ~LosesHalf(os[j])

TypeOK ==
  /\ start \in 0..(SegSize - 1) /\ mem \in Memories /\ offset \in Nat
  /\ ops \in Seq(Instrs) /\ again \in Seq(Instrs) /\ out \in Seq(Byte) /\ ends \in Seq(Nat)
  /\ pc \in {"disassemble", "assemble", "again", "done", "error", "panic"}
\* What is there of the three sequences in each part, and what is in memory.
Phases ==
  /\ Len(ops) <= Count /\ Len(again) <= Len(ends)
  /\ pc = "disassemble" => Len(ops) < Count /\ ends = <<>> /\ out = <<>>
  /\ pc = "assemble" => Len(ops) = Count /\ Len(ends) < Len(ops) /\ again = <<>>
  /\ pc = "again" => Len(ends) = Len(ops) /\ Len(ops) = Count /\ Len(again) < Count /\ mem = Load(start, out)
\* The second disassembly is where encode_vec was.
InPlace == pc = "again" /\ NoHalf(ops, Len(again)) => offset = Edge(ends, Len(again) + 1)
Prefixable == \A at \in 0..(SegSize - 1) : Stops(mem, at)
IInv ==
  /\ TypeOK /\ Phases /\ Prefixable /\ AllDecoded(ops) /\ Collected(ops, ends, out)
  /\ InPlace /\ SameInstruction /\ InStep

\* What was collected is shorter than a segment.
LEMMA ShortBlock ==
  ASSUME TypeOK, Phases, Collected(ops, ends, out)
  PROVE  Len(out) < SegSize
<1>1. Count \in Nat /\ SegSize \in Nat /\ 9 * Count < SegSize BY CodecAssumption, SegSizeAssumption
<1>2. Len(out) \in Nat /\ Len(ends) \in Nat /\ Len(ops) \in Nat BY DEF TypeOK
<1>3. Len(ends) <= Len(ops) /\ Len(ops) <= Count /\ Len(out) <= 9 * Len(ends) BY DEF Collected, Phases
<1>4. PICK a \in Nat, b \in Nat, c \in Nat, n \in Nat :
        a = Len(out) /\ b = Len(ends) /\ c = Count /\ n = SegSize BY <1>1, <1>2
<1>5. b <= c BY <1>2, <1>3, <1>4
<1>6. 9 * b <= 9 * c BY <1>5
<1>7. QED BY <1>1, <1>3, <1>4, <1>6

\* What is fetched next.
LEMMA FetchedIs ==
  ASSUME TypeOK, Prefixable, ~Fails
  PROVE  Fetched \in Instrs /\ Decoded(Fetched) /\ Fetched.length \in Nat
<1>1. PICK at \in 0..(SegSize - 1) : at = (start + offset) % SegSize
  <2>1. SegSize \in Nat \ {0} BY SegSizeAssumption
  <2>2. PICK n \in Nat \ {0}, x \in Nat : n = SegSize /\ x = start + offset BY <2>1 DEF TypeOK
  <2>3. x % n \in 0..(n - 1) OBVIOUS
  <2>4. QED BY <2>2, <2>3
<1>2. PICK m \in Memories : m = mem BY DEF TypeOK
<1>3. PICK i : i = Decode(m, at) OBVIOUS
<1>4. Fetched = i BY <1>1, <1>2, <1>3 DEF Fetched
<1>5. Stops(m, at) BY <1>2 DEF Prefixable
<1>6. ~i.panic BY <1>4 DEF Fails
<1>7. at \in Nat BY SegSizeAssumption
<1>8. Decoded(i) /\ i.length \in Nat BY <1>2, <1>3, <1>5, <1>6, <1>7, DecodeDecodes
<1>9. i \in Instrs BY <1>1, <1>2, <1>3 DEF Instrs
<1>10. QED BY <1>4, <1>8, <1>9

\* At the beginning.
LEMMA InitIInv ==
  ASSUME Init
  PROVE  IInv
<1>1. SegSize \in Nat \ {0} /\ Count \in Nat \ {0} BY SegSizeAssumption, CodecAssumption
<1>2. start \in 0..(SegSize - 1) BY CodecAssumption DEF Init
<1>3. offset = 0 /\ ops = <<>> /\ out = <<>> /\ ends = <<>> /\ again = <<>> /\ pc = "disassemble" BY DEF Init
<1>4. PICK c \in Seq(Byte) : Len(c) < SegSize /\ mem = Load(start, c) BY CodecAssumption DEF Init, Byte
<1>5. mem \in Memories BY <1>2, <1>4, LoadHolds
<1>6. Prefixable BY <1>2, <1>4, LoadStops DEF Prefixable
<1>7. TypeOK BY <1>2, <1>3, <1>5 DEF TypeOK
<1>8. Phases BY <1>1, <1>3 DEF Phases
<1>9. AllDecoded(ops) BY <1>3 DEF AllDecoded
<1>10. Collected(ops, ends, out)
  <2>1. ops \in Seq(Instrs) BY <1>7 DEF TypeOK
  <2>2. Collected(ops, <<>>, <<>>) BY <2>1, NothingCollected
  <2>3. QED BY <1>3, <2>2
<1>11. InPlace BY <1>3 DEF InPlace
<1>12. DOMAIN again = {} BY <1>3
<1>13. SameInstruction /\ InStep BY <1>12 DEF SameInstruction, InStep
<1>14. QED BY <1>6, <1>7, <1>8, <1>9, <1>10, <1>11, <1>13 DEF IInv

\* The first disassembly.
LEMMA DisassembleIInv ==
  ASSUME IInv, Disassemble
  PROVE  IInv'
<1>0. TypeOK /\ Phases /\ Prefixable /\ AllDecoded(ops) BY DEF IInv
<1>1. Count \in Nat \ {0} BY CodecAssumption
<1>2. /\ pc = "disassemble" /\ Len(ops) < Count /\ ends = <<>> /\ out = <<>> /\ again = <<>>
      /\ start' = start /\ mem' = mem /\ out' = out /\ ends' = ends /\ again' = again
  <2>1. pc = "disassemble" /\ Len(ops) < Count /\ ends = <<>> /\ out = <<>> BY <1>0 DEF Disassemble, Phases
  <2>2. again = <<>>
    <3>1. Len(again) <= Len(ends) BY <1>0 DEF Phases
    <3>2. again \in Seq(Instrs) BY <1>0 DEF TypeOK
    <3>3. Len(ends) = 0 BY <2>1
    <3>4. QED BY <3>1, <3>2, <3>3
  <2>3. QED BY <2>1, <2>2 DEF Disassemble
<1>3. Prefixable' BY <1>0, <1>2 DEF Prefixable
<1>4. DOMAIN again' = {} BY <1>2
<1>5. SameInstruction' /\ InStep' BY <1>4 DEF SameInstruction, InStep
<1>6. Len(ops) \in Nat /\ ops \in Seq(Instrs) BY <1>0 DEF TypeOK
<1>7. Len(again') = 0 /\ Len(ends') = 0 BY <1>2
<1>8. CASE Fails
  <2>1. pc' = "panic" /\ offset' = offset /\ ops' = ops BY <1>8 DEF Disassemble
  <2>2. TypeOK' BY <1>0, <1>2, <2>1 DEF TypeOK
  <2>3. Phases' BY <1>0, <1>2, <2>1 DEF Phases
  <2>4. AllDecoded(ops)' BY <1>0, <2>1 DEF AllDecoded
  <2>5. Collected(ops, ends, out)'
    <3>1. Collected(ops, ends, out) BY DEF IInv
    <3>2. QED BY <1>2, <2>1, <3>1
  <2>6. InPlace' BY <2>1 DEF InPlace
  <2>7. QED BY <1>3, <1>5, <2>2, <2>3, <2>4, <2>5, <2>6 DEF IInv
<1>9. CASE ~Fails
  <2>1. PICK i \in Instrs : i = Fetched /\ Decoded(i) /\ i.length \in Nat BY <1>0, <1>9, FetchedIs
  <2>2. /\ ops' = Append(ops, i) /\ offset' = offset + i.length
        /\ pc' = IF Len(ops) + 1 = Count THEN "assemble" ELSE pc
    BY <1>9, <2>1 DEF Disassemble
  <2>3. ops' \in Seq(Instrs) /\ Len(ops') = Len(ops) + 1 BY <1>6, <2>1, <2>2
  <2>4. offset' \in Nat BY <1>0, <2>1, <2>2 DEF TypeOK
  <2>5. TypeOK' BY <1>0, <1>2, <2>2, <2>3, <2>4 DEF TypeOK
  <2>6. Phases'
    <3>1. PICK n \in Nat : n = Len(ops) BY <1>6
    <3>2. n + 1 <= Count BY <1>1, <1>2, <3>1
    <3>3. Len(ops') = n + 1 BY <2>3, <3>1
    <3>4. pc' = "assemble" \/ pc' = "disassemble" BY <1>2, <2>2
    <3>5. pc' = "assemble" <=> n + 1 = Count BY <1>2, <2>2, <3>1
    <3>6. QED BY <1>1, <1>2, <1>7, <3>2, <3>3, <3>4, <3>5 DEF Phases
  <2>7. AllDecoded(ops)'
    <3>1. ASSUME NEW k \in 1..Len(ops') PROVE Decoded(ops'[k])
      <4>1. CASE k = Len(ops) + 1
        <5>1. ops'[k] = i BY <1>6, <2>2, <4>1
        <5>2. QED BY <2>1, <5>1
      <4>2. CASE k # Len(ops) + 1
        <5>1. k \in 1..Len(ops) BY <1>6, <2>3, <4>2
        <5>2. ops'[k] = ops[k] BY <1>6, <2>1, <2>2, <5>1
        <5>3. QED BY <1>0, <5>1, <5>2 DEF AllDecoded
      <4>3. QED BY <4>1, <4>2
    <3>2. QED BY <3>1 DEF AllDecoded
  <2>8. Collected(ops, ends, out)'
    <3>1. PICK os \in Seq(Instrs) : os = ops' BY <2>3
    <3>2. Collected(os, <<>>, <<>>) BY NothingCollected
    <3>3. ends' = <<>> /\ out' = <<>> BY <1>2
    <3>4. QED BY <3>1, <3>2, <3>3
  <2>9. InPlace'
    <3>1. pc' # "again" BY <1>2, <2>2
    <3>2. QED BY <3>1 DEF InPlace
  <2>10. QED BY <1>3, <1>5, <2>5, <2>6, <2>7, <2>8, <2>9 DEF IInv
<1>10. QED BY <1>8, <1>9

\* What comes of encode.
Comes(r) == r.out \in {"bytes", "error", "panic"}

LEMMA EncodeComes ==
  ASSUME NEW i
  PROVE  Comes(Encode(i))
<1>1. \A b : Comes(Emit(b)) BY DEF Comes, Emit
<1>2. Comes(Error) /\ Comes(Panic) BY DEF Comes, Error, Panic
<1>3. \A b, r : Comes(r) => Comes(Before(b, r)) BY <1>1 DEF Before
<1>4. \A b, r : Comes(r) => Comes(After(r, b)) BY <1>1 DEF After
<1>5. \A o, reg : Comes(EncodeRm(o, reg)) BY <1>1, <1>2 DEF EncodeRm
<1>6. Comes(EncodeRRm(i)) BY <1>2, <1>5 DEF EncodeRRm
<1>7. Comes(EncodeRmR(i)) BY <1>2, <1>5 DEF EncodeRmR
<1>8. Comes(EncodeRmRImm(i)) BY <1>2, <1>4, <1>5 DEF EncodeRmRImm
<1>9. Comes(EncodeArith(i, i.w)) BY <1>1, <1>2, <1>3, <1>6, <1>7 DEF EncodeArith
<1>10. Comes(EncodeMath8(i)) BY <1>1, <1>2, <1>3, <1>5, <1>7 DEF EncodeMath8
<1>11. Comes(EncodeMath(i, i.w)) BY <1>1, <1>2, <1>3, <1>4, <1>6, <1>7 DEF EncodeMath
<1>12. Comes(EncodeShift(i, i.w)) BY <1>1, <1>2 DEF EncodeShift
<1>13. Comes(EncodeIncDec(i, i.w)) BY <1>1, <1>3, <1>5 DEF EncodeIncDec
<1>14. Comes(EncodeMov8(i)) BY <1>1, <1>2, <1>3, <1>6, <1>7 DEF EncodeMov8
<1>15. Comes(EncodeMov(i, i.w)) BY <1>1, <1>2 DEF EncodeMov
<1>16. Comes(EncodeExtend(i, i.w)) BY <1>2, <1>3, <1>5 DEF EncodeExtend
<1>17. Comes(EncodeXchg(i, i.w)) BY <1>1, <1>2, <1>3, <1>7 DEF EncodeXchg
<1>18. Comes(EncodeOneOperand(i)) BY SMTT(60), <1>1, <1>2 DEF EncodeOneOperand
<1>19. Comes(EncodeOp(i))
  BY <1>1, <1>2, <1>3, <1>6, <1>7, <1>8, <1>9, <1>10, <1>11, <1>12, <1>13, <1>14, <1>15, <1>16, <1>17, <1>18
     DEF EncodeOp
<1>20. QED BY <1>3, <1>19 DEF Encode

\* The second disassembly has begun when all is collected.
LEMMA AssembleIInv ==
  ASSUME IInv, Assemble
  PROVE  IInv'
<1>0. TypeOK /\ Phases /\ Prefixable /\ AllDecoded(ops) /\ Collected(ops, ends, out) BY DEF IInv
<1>1. /\ pc = "assemble" /\ Len(ops) = Count /\ Len(ends) < Len(ops) /\ again = <<>>
      /\ start' = start /\ ops' = ops /\ again' = again
  BY <1>0 DEF Assemble, Phases
<1>2. ops \in Seq(Instrs) /\ ends \in Seq(Nat) /\ out \in Seq(Byte) /\ start \in 0..(SegSize - 1) BY <1>0 DEF TypeOK
<1>3. Len(ops) \in Nat /\ Len(ends) \in Nat BY <1>2
<1>4. DOMAIN again' = {} /\ Len(again') = 0 BY <1>1
<1>5. SameInstruction' /\ InStep' BY <1>4 DEF SameInstruction, InStep
<1>6. AllDecoded(ops)' BY <1>0, <1>1 DEF AllDecoded
<1>7. PICK n \in 1..Len(ops) : n = Len(ends) + 1 BY <1>1, <1>3
<1>8. PICK i : i = ops[n] OBVIOUS
<1>9. PICK r : r = Encode(i) OBVIOUS
<1>10. Decoded(i) BY <1>0, <1>7, <1>8 DEF AllDecoded
<1>11. CASE r.out # "bytes"
  <2>1. pc' = r.out /\ mem' = mem /\ offset' = offset /\ out' = out /\ ends' = ends
    BY <1>7, <1>8, <1>9, <1>11 DEF Assemble
  <2>2. r.out \in {"error", "panic"} BY <1>9, <1>11, EncodeComes DEF Comes
  <2>3. TypeOK' BY <1>0, <1>1, <2>1, <2>2 DEF TypeOK
  <2>4. Phases' BY <1>0, <1>1, <2>1, <2>2 DEF Phases
  <2>5. Prefixable' BY <1>0, <2>1 DEF Prefixable
  <2>6. Collected(ops, ends, out)' BY <1>0, <1>1, <2>1
  <2>7. InPlace' BY <2>1, <2>2 DEF InPlace
  <2>8. QED BY <1>5, <1>6, <2>3, <2>4, <2>5, <2>6, <2>7 DEF IInv
<1>12. CASE r.out = "bytes"
  <2>1. PICK b \in Seq(Byte) : b = r.bytes /\ Len(b) \in 1..9 BY <1>9, <1>10, <1>12, EncodedLength
  <2>2. PICK more : more = out \o b OBVIOUS
  <2>3. PICK f : f = Append(ends, Len(more)) OBVIOUS
  <2>4. PICK os \in Seq(Instrs), e \in Seq(Nat), bytes \in Seq(Byte) : os = ops /\ e = ends /\ bytes = out BY <1>2
  <2>5. more \in Seq(Byte) /\ f \in Seq(Nat) /\ Len(f) = n /\ Collected(os, f, more)
    <3>1. Collected(os, e, bytes) BY <1>0, <2>4
    <3>2. Len(e) < Len(os) BY <1>1, <2>4
    <3>3. n = Len(e) + 1 BY <1>7, <2>4
    <3>4. Encode(os[n]).out = "bytes" BY <1>8, <1>9, <1>12, <2>4
    <3>5. b = Encode(os[n]).bytes /\ Len(b) \in 1..9 BY <1>8, <1>9, <2>1, <2>4
    <3>6. more = bytes \o b /\ f = Append(e, Len(more)) BY <2>2, <2>3, <2>4
    <3>7. os \in Seq(Instrs) /\ e \in Seq(Nat) /\ bytes \in Seq(Byte) /\ b \in Seq(Byte) BY <2>1, <2>4
    <3>8. Turn(os, e, bytes, n, b, more, f) BY <3>1, <3>2, <3>3, <3>4, <3>5, <3>6 DEF Turn
    <3>9. QED BY <3>7, <3>8, OneMore
  <2>6. out' = more /\ ends' = f BY <1>7, <1>8, <1>9, <1>12, <2>1, <2>2, <2>3 DEF Assemble
  <2>7. Collected(ops, ends, out)' BY <1>1, <2>4, <2>5, <2>6
  <2>8. CASE n = Len(ops)
    <3>1. mem' = Load(start, more) /\ offset' = 0 /\ pc' = "again"
      BY <1>7, <1>8, <1>9, <1>12, <2>1, <2>2, <2>8 DEF Assemble
    <3>2. Len(more) < SegSize
      <4>1. Count \in Nat /\ SegSize \in Nat /\ 9 * Count < SegSize BY CodecAssumption, SegSizeAssumption
      <4>2. Len(more) <= 9 * n BY <2>5 DEF Collected
      <4>3. n = Count BY <1>1, <2>8
      <4>4. Len(more) \in Nat BY <2>5
      <4>5. QED BY <4>1, <4>2, <4>3, <4>4
    <3>3. Load(start, more) \in Memories BY <1>2, <2>5, <3>2, LoadHolds
    <3>4. TypeOK' BY <1>0, <1>1, <2>5, <2>6, <3>1, <3>3 DEF TypeOK
    <3>5. \A at \in 0..(SegSize - 1) : Stops(Load(start, more), at) BY <1>2, <2>5, <3>2, LoadStops
    <3>6. Prefixable' BY <3>1, <3>5 DEF Prefixable
    <3>7. Count \in Nat \ {0} BY CodecAssumption
    <3>8. Phases' BY <1>1, <1>3, <1>4, <2>5, <2>6, <2>8, <3>1, <3>7 DEF Phases
    <3>9. Edge(f, 1) = 0 BY DEF Edge
    <3>10. InPlace'
      <4>1. Len(again') + 1 = 1 BY <1>4
      <4>2. offset' = Edge(f, Len(again') + 1) BY SMTT(60), <3>1, <3>9, <4>1
      <4>3. QED BY <2>6, <4>2 DEF InPlace
    <3>11. QED BY <1>5, <1>6, <2>7, <3>4, <3>6, <3>8, <3>10 DEF IInv
  <2>9. CASE n # Len(ops)
    <3>1. mem' = mem /\ offset' = offset /\ pc' = pc
      BY <1>7, <1>8, <1>9, <1>12, <2>9 DEF Assemble
    <3>2. TypeOK' BY <1>0, <1>1, <2>5, <2>6, <3>1 DEF TypeOK
    <3>3. Prefixable' BY <1>0, <3>1 DEF Prefixable
    <3>4. n < Len(ops) /\ n \in Nat BY <1>3, <1>7, <2>9
    <3>5. Phases' BY <1>1, <1>3, <1>4, <2>5, <2>6, <3>1, <3>4 DEF Phases
    <3>6. InPlace' BY <1>1, <3>1 DEF InPlace
    <3>7. QED BY <1>5, <1>6, <2>7, <3>2, <3>3, <3>5, <3>6 DEF IInv
  <2>10. QED BY <2>8, <2>9
<1>13. QED BY <1>11, <1>12

\* The second disassembly.
LEMMA AgainIInv ==
  ASSUME IInv, DisassembleAgain
  PROVE  IInv'
<1>0. TypeOK /\ Phases /\ Prefixable /\ AllDecoded(ops) /\ Collected(ops, ends, out) BY DEF IInv
<1>1. /\ pc = "again" /\ Len(ends) = Len(ops) /\ Len(ops) = Count /\ Len(again) < Count /\ mem = Load(start, out)
      /\ start' = start /\ mem' = mem /\ ops' = ops /\ out' = out /\ ends' = ends
  BY <1>0 DEF DisassembleAgain, Phases
<1>2. /\ ops \in Seq(Instrs) /\ again \in Seq(Instrs) /\ ends \in Seq(Nat) /\ out \in Seq(Byte)
      /\ start \in 0..(SegSize - 1)
  BY <1>0 DEF TypeOK
<1>3. Len(ops) \in Nat /\ Len(ends) \in Nat /\ Len(again) \in Nat BY <1>2
<1>4. Prefixable' BY <1>0, <1>1 DEF Prefixable
<1>5. AllDecoded(ops)' BY <1>0, <1>1 DEF AllDecoded
<1>6. Collected(ops, ends, out)' BY <1>0, <1>1
<1>7. CASE Fails
  <2>1. pc' = "panic" /\ offset' = offset /\ again' = again BY <1>7 DEF DisassembleAgain
  <2>2. TypeOK' BY <1>0, <1>1, <2>1 DEF TypeOK
  <2>3. Phases' BY <1>0, <1>1, <2>1 DEF Phases
  <2>4. InPlace' BY <2>1 DEF InPlace
  <2>5. SameInstruction' /\ InStep'
    <3>1. SameInstruction /\ InStep BY DEF IInv
    <3>2. SameInstruction' BY <1>1, <2>1, <3>1 DEF SameInstruction
    <3>3. InStep' BY <1>1, <2>1, <3>1 DEF InStep
    <3>4. QED BY <3>2, <3>3
  <2>6. QED BY <1>4, <1>5, <1>6, <2>2, <2>3, <2>4, <2>5 DEF IInv
<1>8. CASE ~Fails
  <2>1. PICK j \in Instrs : j = Fetched /\ j.length \in Nat BY <1>0, <1>8, FetchedIs
  <2>2. /\ again' = Append(again, j) /\ offset' = offset + j.length
        /\ pc' = IF Len(again) + 1 = Count THEN "done" ELSE pc
    BY <1>8, <2>1 DEF DisassembleAgain
  <2>3. PICK n \in 1..Len(ends) : n = Len(again) + 1 BY <1>1, <1>3
  <2>4. n \in Nat /\ n # 0 /\ n - 1 = Len(again) BY <1>3, <2>3
  <2>5. again' \in Seq(Instrs) /\ Len(again') = n /\ again'[n] = j /\ \A k \in 1..Len(again) : again'[k] = again[k]
    BY <1>2, <1>3, <2>1, <2>2, <2>3
  <2>6. offset' \in Nat BY SMTT(60), <1>0, <2>1, <2>2 DEF TypeOK
  <2>7. pc' = "done" \/ pc' = "again" BY <1>1, <2>2
  <2>8. TypeOK' BY <1>0, <1>1, <2>5, <2>6, <2>7 DEF TypeOK
  <2>9. Phases'
    <3>1. pc' = "again" => n < Count BY <1>1, <1>3, <2>2, <2>3
    <3>2. n <= Len(ends) BY <1>3, <2>3
    <3>3. QED BY <1>0, <1>1, <2>5, <2>7, <3>1, <3>2 DEF Phases
  <2>10. ASSUME NoHalf(ops, n)
         PROVE  /\ offset = Edge(ends, n) /\ ends[n] = j.length + Edge(ends, n)
                /\ ~Lossy(ops[n]) => Meaning(j) = Meaning(ops[n])
    <3>1. NoHalf(ops, n - 1)
      <4>1. \A k \in 1..(n - 1) : k \in 1..n BY <2>4
      <4>2. QED BY <2>10, <4>1 DEF NoHalf
    <3>2. ~LosesHalf(ops[n]) BY <2>4, <2>10 DEF NoHalf
    <3>3. InPlace BY DEF IInv
    <3>4. offset = Edge(ends, n) BY <1>1, <2>3, <2>4, <3>1, <3>3 DEF InPlace
    <3>5. PICK os \in Seq(Instrs), e \in Seq(Nat), bytes \in Seq(Byte), x \in 0..(SegSize - 1) :
            os = ops /\ e = ends /\ bytes = out /\ x = start
      BY <1>2
    <3>6. PICK m, d, at : m = mem /\ d = Edge(e, n) /\ at = (x + d) % SegSize OBVIOUS
    <3>7. j = Decode(m, at)
      <4>1. d = offset BY <3>4, <3>5, <3>6
      <4>2. QED BY <2>1, <3>5, <3>6, <4>1 DEF Fetched
    <3>8. Len(bytes) < SegSize BY <1>0, <3>5, ShortBlock
    <3>9. Collected(os, e, bytes) /\ AllDecoded(os) /\ m = Load(x, bytes) BY <1>0, <1>1, <3>5, <3>6
    <3>10. n \in 1..Len(e) /\ ~LosesHalf(os[n]) BY <2>3, <3>2, <3>5
    <3>11. /\ e[n] = j.length + d
           /\ ~Lossy(os[n]) => Meaning(j) = Meaning(os[n])
      BY <3>5, <3>6, <3>7, <3>8, <3>9, <3>10, ReadBack
    <3>12. QED BY <3>4, <3>5, <3>6, <3>11
  <2>11. DOMAIN again' = 1..n /\ DOMAIN again = 1..Len(again) BY <1>2, <2>5
  <2>12. \A k \in 1..n : k = n \/ k \in 1..Len(again) BY <1>3, <2>3
  <2>13. SameInstruction'
    <3>1. ASSUME NEW k \in 1..n, \A q \in 1..(k - 1) : ~LosesHalf(ops[q]), ~Lossy(ops[k])
          PROVE  Meaning(again'[k]) = Meaning(ops[k])
      <4>1. CASE k = n
        <5>1. ~LosesHalf(ops[n]) BY <3>1, <4>1 DEF Lossy
        <5>2. \A q \in 1..n : q = n \/ q \in 1..(n - 1) BY <2>4
        <5>3. NoHalf(ops, n) BY <3>1, <4>1, <5>1, <5>2 DEF NoHalf
        <5>4. Meaning(j) = Meaning(ops[n]) BY <2>10, <3>1, <4>1, <5>3
        <5>5. QED BY <2>5, <4>1, <5>4
      <4>2. CASE k \in 1..Len(again)
        <5>1. SameInstruction BY DEF IInv
        <5>2. Meaning(again[k]) = Meaning(ops[k]) BY <2>11, <3>1, <4>2, <5>1 DEF SameInstruction
        <5>3. QED BY <2>5, <4>2, <5>2
      <4>3. QED BY <2>12, <4>1, <4>2
    <3>2. QED BY <1>1, <2>11, <3>1 DEF SameInstruction
  <2>14. InStep'
    <3>1. ASSUME NEW k \in 1..n, NoHalf(ops, k) PROVE ends[k] = again'[k].length + Edge(ends, k)
      <4>1. CASE k = n BY <2>5, <2>10, <3>1, <4>1
      <4>2. CASE k \in 1..Len(again)
        <5>1. InStep BY DEF IInv
        <5>2. ends[k] = again[k].length + Edge(ends, k) BY <2>11, <3>1, <4>2, <5>1 DEF InStep, NoHalf, Edge
        <5>3. QED BY <2>5, <4>2, <5>2
      <4>3. QED BY <2>12, <4>1, <4>2
    <3>2. QED BY <1>1, <2>11, <3>1 DEF InStep, NoHalf, Edge
  <2>15. InPlace'
    <3>1. ASSUME NoHalf(ops, n) PROVE offset' = Edge(ends, n + 1)
      <4>1. offset = Edge(ends, n) /\ ends[n] = j.length + Edge(ends, n) BY <2>10, <3>1
      <4>2. PICK p \in Nat, l \in Nat : p = offset /\ l = j.length BY <1>0, <2>1 DEF TypeOK
      <4>3. offset' = ends[n]
        <5>1. ends[n] = l + p /\ offset' = p + l BY <2>2, <4>1, <4>2
        <5>2. QED BY <5>1
      <4>4. (n + 1) - 1 = n /\ n + 1 # 1 BY <2>4
      <4>5. Edge(ends, n + 1) = ends[n] BY <4>4 DEF Edge
      <4>6. QED BY <4>3, <4>5
    <3>2. QED BY <1>1, <2>5, <3>1 DEF InPlace
  <2>16. QED BY <1>4, <1>5, <1>6, <2>8, <2>9, <2>13, <2>14, <2>15 DEF IInv
<1>9. QED BY <1>7, <1>8

\* IInv is an inductive invariant.
LEMMA StepIInv == IInv /\ [Next]_vars => IInv'
<1>1. CASE Next BY <1>1, DisassembleIInv, AssembleIInv, AgainIInv DEF Next
<1>2. CASE UNCHANGED vars
  BY <1>2 DEF vars, IInv, TypeOK, Phases, Prefixable, AllDecoded, Collected, Piece, Edge, InPlace, NoHalf,
              SameInstruction, InStep
<1>3. QED BY <1>1, <1>2

LEMMA IInvHolds == Spec => []IInv
<1>1. Init => IInv BY InitIInv
<1>2. QED BY <1>1, StepIInv, PTL DEF Spec

\* What was assembled disassembles to the instructions it was made from, for
\* every code, offset and number of instructions.
THEOREM SpecSameInstruction == Spec => []SameInstruction
<1>1. IInv => SameInstruction BY DEF IInv
<1>2. QED BY <1>1, IInvHolds, PTL

\* No instruction is read as longer or shorter than it was written.
THEOREM SpecInStep == Spec => []InStep
<1>1. IInv => InStep BY DEF IInv
<1>2. QED BY <1>1, IInvHolds, PTL
=============================================================================
