------------------------------- MODULE MCCodec -------------------------------
(* The instances that TLC checks. *)
EXTENDS Codec

\* Every opcode, with the bytes that tell its operands apart: of the register
\* and memory operands each way to address one, of the numbers a one (that has
\* shorter forms), a small and a negative one.
ModRms ==
  {ModRegRm(m[1], reg, m[2]) : m \in {<<0, 6>>, <<0, 1>>, <<1, 6>>, <<2, 7>>, <<3, 0>>, <<3, 1>>},
                               reg \in 0..7}
HasModRm(b) == IF b \in 216..223 THEN TRUE ELSE Table(b).layout \notin PlainLayouts
HasModRm0F(b) == Table0F(b).layout \notin PlainLayouts
Opcodes == {<<b>> : b \in (0..255) \ (PrefixBytes \cup {15})} \cup {<<15, b>> : b \in {0, 2, 11} \cup 130..191}
WithModRm == {o \in Opcodes : IF Len(o) = 2 THEN HasModRm0F(o[2]) ELSE HasModRm(o[1])}
Tails == {<<1, 0, 1>>, <<128, 254, 18>>}
MCCodes ==
  {p \o o \o <<m>> \o t : p \in {<<>>, <<102>>}, o \in WithModRm, m \in ModRms, t \in Tails}
  \cup {p \o o \o <<x>> \o t : p \in {<<>>, <<102>>}, o \in Opcodes \ WithModRm, x \in {1, 3, 200}, t \in Tails}
  \cup {p \o o \o <<m>> \o <<1, 0, 1>> : p \in {<<103>>, <<242>>, <<243>>, <<46, 240>>, <<38, 62>>},
                                         o \in Opcodes, m \in {70, 193}}
=============================================================================
