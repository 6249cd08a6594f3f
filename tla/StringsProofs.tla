--------------------------- MODULE StringsProofs ----------------------------
(***************************************************************************)
(* Proofs about Strings, for every size of segments and bytes, every       *)
(* placement of the segments and every contents of the memory.             *)
(***************************************************************************)
EXTENDS Strings, TLAPS, SequenceTheorems

-----------------------------------------------------------------------------
(* Division with remainder.                                                *)

LEMMA Divided ==
  ASSUME NEW m \in Nat \ {0}, NEW a \in Int
  PROVE  a % m \in 0 .. m - 1 /\ a \div m \in Int /\ a = m * (a \div m) + (a % m)
OBVIOUS

LEMMA Unique ==
  ASSUME NEW m \in Nat \ {0}, NEW q \in Int, NEW p \in Int,
         NEW r \in 0 .. m - 1, NEW s \in 0 .. m - 1, m * q + r = m * p + s
  PROVE  r = s /\ q = p
<1>1. CASE q = p BY <1>1
<1>2. CASE q >= p + 1
  <2>1. m * q >= m * (p + 1) BY <1>2
  <2>2. m * (p + 1) = m * p + m OBVIOUS
  <2>3. QED BY <2>1, <2>2
<1>3. CASE p >= q + 1
  <2>1. m * p >= m * (q + 1) BY <1>3
  <2>2. m * (q + 1) = m * q + m OBVIOUS
  <2>3. QED BY <2>1, <2>2
<1>4. QED BY <1>1, <1>2, <1>3

\* The quotient and the remainder are recognised by what they add up to.
LEMMA ModIs ==
  ASSUME NEW m \in Nat \ {0}, NEW a \in Int, NEW q \in Int, NEW r \in 0 .. m - 1, a = m * q + r
  PROVE  a % m = r /\ a \div m = q
<1> DEFINE p == a \div m
           s == a % m
<1>1. s \in 0 .. m - 1 /\ p \in Int /\ a = m * p + s BY Divided
<1> HIDE DEF p, s
<1>2. r = s /\ q = p BY <1>1, Unique
<1>3. QED BY <1>2 DEF p, s

LEMMA SumMod ==
  ASSUME NEW m \in Nat \ {0}, NEW a \in Int, NEW b \in Int
  PROVE  ((a % m) + b) % m = (a + b) % m
<1> DEFINE p == a \div m
           r == a % m
           q == (r + b) \div m
           t == (r + b) % m
<1>1. a = m * p + r /\ p \in Int /\ r \in 0 .. m - 1 BY Divided
<1>2. r + b = m * q + t /\ q \in Int /\ t \in 0 .. m - 1
  <2>1. r \in Int BY <1>1
  <2> HIDE DEF r
  <2>2. r + b \in Int BY <2>1
  <2>3. QED BY Divided, <2>2
<1> HIDE DEF p, r, q, t
<1>3. a + b = m * (p + q) + t
  <2> DEFINE x == m * p
             y == m * q
  <2>1. x \in Int /\ y \in Int /\ m * (p + q) = x + y BY <1>1, <1>2
  <2>2. a = x + r /\ r + b = y + t BY <1>1, <1>2
  <2>3. r \in Int /\ t \in Int BY <1>1, <1>2
  <2> HIDE DEF x, y
  <2>4. QED BY <2>1, <2>2, <2>3
<1>4. p + q \in Int BY <1>1, <1>2
<1>5. (a + b) % m = t BY <1>2, <1>3, <1>4, ModIs
<1>6. QED BY <1>5 DEF t, r

\* A small number is its own remainder, and so is one above it less one turn.
LEMMA SmallMod ==
  ASSUME NEW m \in Nat \ {0}, NEW r \in 0 .. m - 1
  PROVE  r % m = r /\ r \div m = 0 /\ (r - m) % m = r /\ (r - m) \div m = -1
         /\ (r + m) % m = r /\ (r + m) \div m = 1
<1>1. r = m * 0 + r /\ r - m = m * (-1) + r /\ r + m = m * 1 + r OBVIOUS
<1>2. r % m = r /\ r \div m = 0 BY <1>1, ModIs
<1>3. (r - m) % m = r /\ (r - m) \div m = -1 BY <1>1, ModIs
<1>4. (r + m) % m = r /\ (r + m) \div m = 1 BY <1>1, ModIs
<1>5. QED BY <1>2, <1>3, <1>4
-----------------------------------------------------------------------------
(* Comparisons.                                                            *)

\* Numbers of one width: the zero flag tells equality, the carry flag order.
LEMMA ComparesNumbers ==
  ASSUME NEW all \in Nat \ {0}, NEW dst \in 0 .. all - 1, NEW src \in 0 .. all - 1
  PROVE  LET res == (dst - src) % (2 * all)
         IN  (res \div all = 1 <=> dst < src) /\ (res % all = 0 <=> dst = src)
<1> DEFINE d == dst - src
           two == 2 * all
           res == d % two
<1>1. two \in Nat \ {0} OBVIOUS
<1>2. CASE dst >= src
  <2>1. d \in 0 .. all - 1 /\ d \in 0 .. two - 1 BY <1>2
  <2> HIDE DEF d, two
  <2>2. res = d BY <1>1, <2>1, SmallMod
  <2>3. d \div all = 0 /\ d % all = d BY <2>1, SmallMod
  <2> HIDE DEF res
  <2>4. (res \div all = 1 <=> dst < src) /\ (res % all = 0 <=> dst = src)
    BY <1>2, <2>2, <2>3 DEF d
  <2>5. QED BY <2>4 DEF res, d, two
<1>3. CASE dst < src
  <2> DEFINE e == d + all
  <2>1. e \in 1 .. all - 1 /\ e + all \in 0 .. two - 1 /\ (e + all) - two = d BY <1>3
  <2>2. e \in 0 .. all - 1 BY <2>1
  <2> HIDE DEF d, two, e
  <2>3. res = e + all BY <1>1, <2>1, SmallMod
  <2>4. (e + all) \div all = 1 /\ (e + all) % all = e BY <2>2, SmallMod
  <2> HIDE DEF res
  <2>5. (res \div all = 1 <=> dst < src) /\ (res % all = 0 <=> dst = src)
    BY <1>3, <2>1, <2>3, <2>4
  <2>6. QED BY <2>5 DEF res, d, two
<1>4. QED BY <1>2, <1>3

\* Words of which the low bytes are compared: the carry flag is that of the
\* bytes unless the high bytes differ in their lowest bit.
LEMMA ComparesLowBytes ==
  ASSUME NEW b \in Nat \ {0}, NEW dl \in 0 .. b - 1, NEW dh \in 0 .. b - 1,
         NEW sl \in 0 .. b - 1, NEW sh \in 0 .. b - 1
  PROVE  LET res == ((dl + b * dh) - (sl + b * sh)) % (2 * b)
         IN  /\ res \div b = 1 <=> ((dl < sl) # ((dh + sh) % 2 = 1))
             /\ res % b = 0 <=> dl = sl
<1> DEFINE c == IF dl < sl THEN 1 ELSE 0
           e == dl - sl + (IF dl < sl THEN b ELSE 0)
           h == dh - sh - c
           q == h \div 2
           r == h % 2
           two == 2 * b
           x == (dl + b * dh) - (sl + b * sh)
<1>1. e \in 0 .. b - 1 /\ h \in Int /\ (e = 0 <=> dl = sl) /\ two \in Nat \ {0} OBVIOUS
<1>2. q \in Int /\ r \in {0, 1} /\ h = 2 * q + r BY <1>1
<1>3. r = 1 <=> ((dl < sl) # ((dh + sh) % 2 = 1)) OBVIOUS
<1>4. x = e + b * h
  <2> DEFINE y == b * dh
             z == b * sh
  <2>1. CASE dl < sl
    <3>1. b * h = y - z - b BY <2>1
    <3>2. y \in Int /\ z \in Int OBVIOUS
    <3>3. e = dl - sl + b BY <2>1
    <3> DEFINE g == b * h
    <3>4. x = (dl + y) - (sl + z) OBVIOUS
    <3> HIDE DEF y, z, h, x, e, g
    <3>5. x = e + g BY <3>1, <3>2, <3>3, <3>4 DEF g
    <3>6. QED BY <3>5 DEF g
  <2>2. CASE ~(dl < sl)
    <3>1. b * h = y - z BY <2>2
    <3>2. y \in Int /\ z \in Int OBVIOUS
    <3>3. e = dl - sl BY <2>2
    <3> DEFINE g == b * h
    <3>4. x = (dl + y) - (sl + z) OBVIOUS
    <3> HIDE DEF y, z, h, x, e, g
    <3>5. x = e + g BY <3>1, <3>2, <3>3, <3>4 DEF g
    <3>6. QED BY <3>5 DEF g
  <2>3. QED BY <2>1, <2>2
<1> DEFINE low == b * r + e
<1> HIDE DEF e, h, q, r, x, two
<1>5. low \in 0 .. two - 1 /\ low \in Int
  <2>1. CASE r = 0 BY <1>1, <2>1 DEF two
  <2>2. CASE r = 1 BY <1>1, <2>2 DEF two
  <2>3. QED BY <1>2, <2>1, <2>2
<1>6. x = two * q + low
  <2>1. b * h = b * (2 * q + r) BY <1>2
  <2>2. b * (2 * q + r) = two * q + b * r BY <1>2 DEF two
  <2> DEFINE g == b * h
             k == two * q
             l == b * r
  <2>3. k \in Int /\ l \in Int /\ e \in Int BY <1>1, <1>2
  <2>4. x = e + g /\ g = k + l /\ low = l + e BY <1>4, <2>1, <2>2
  <2> HIDE DEF g, k, l, low
  <2>5. x = k + low BY <2>3, <2>4
  <2>6. QED BY <2>5 DEF k
<1>7. x \in Int BY <1>1, <1>2, <1>5, <1>6
<1>8. x % two = low
  <2> HIDE DEF low
  <2>1. QED BY <1>1, <1>2, <1>5, <1>6, <1>7, ModIs
<1>9. low \div b = r /\ low % b = e
  <2>1. low = b * r + e /\ r \in Int BY <1>2
  <2> HIDE DEF low
  <2>2. QED BY <1>1, <1>5, <2>1, ModIs
<1> HIDE DEF low
<1>10. /\ (x % two) \div b = 1 <=> ((dl < sl) # ((dh + sh) % 2 = 1))
       /\ (x % two) % b = 0 <=> dl = sl
  BY <1>1, <1>3, <1>8, <1>9
<1>11. QED BY <1>10 DEF x, two
-----------------------------------------------------------------------------
(* The loop.                                                               *)

Offsets == 0 .. Size - 1
Filled == [Memory -> 0 .. ByteSize - 1]

Typed ==
    /\ op \in Ops /\ width \in {1, 2, 4} /\ rep \in {"none", "rep", "repe", "repne"}
    /\ rep = "repe" => op \in Compares
    /\ rep = "rep" => op \notin Compares
    /\ op \in Compares => width \in {1, 2}
    /\ begin.mem \in Filled
    /\ begin.si \in Offsets /\ begin.di \in Offsets /\ begin.cx \in Offsets
    /\ begin.zero \in BOOLEAN /\ down \in BOOLEAN
    /\ si \in Offsets /\ di \in Offsets /\ cx \in Offsets
    /\ flags.zero \in BOOLEAN
    /\ pc \in {"run", "next"} /\ n \in Nat
    /\ op = "scas" => acc \in 0 .. Values(width) - 1

\* Comparisons leave the memory alone, everything else the flags.
Kept ==
    /\ op \in Compares => mem = begin.mem
    /\ op \notin Compares => flags.zero = begin.zero

\* How many elements there may be, a count of 0 included: the code executes
\* an element before it counts, so that one stands for Size elements.
Most == IF rep = "none" THEN 1 ELSE IF begin.cx = 0 THEN Size ELSE begin.cx

EndsAsCoded ==
    /\ n <= Most
    /\ \A k \in 0 .. n - 2 : GoesOn(k)
    /\ pc = "next" => n = Most \/ ~GoesOn(n - 1)
    /\ pc = "run" => n < Most /\ (n > 0 => GoesOn(n - 1))
    /\ rep # "none" => cx = (begin.cx - n) % Size
    /\ op \in {"movs", "lods", "outs", "cmps"} => si = Offset(begin.si, n)
    /\ op \in {"movs", "stos", "cmps", "scas"} => di = Offset(begin.di, n)

Inv == Typed /\ Kept /\ EndsAsCoded /\ OrderIsTold

SIMoves == op \in {"movs", "lods", "outs", "cmps"}
DIMoves == op \in {"movs", "stos", "cmps", "scas"}

\* Steps lead from each element to the next.
LEMMA Positions ==
  ASSUME NEW first \in Offsets, NEW k \in Nat, width \in {1, 2, 4}, down \in BOOLEAN
  PROVE  /\ Offset(first, 0) = first
         /\ Offset(first, k) \in Offsets
         /\ Step(Offset(first, k)) = Offset(first, k + 1)
<1>0. Size \in Nat \ {0} BY StringsAssumption
<1> DEFINE sign(x) == IF down THEN -x ELSE x
           a == first + sign(k) * width
           b == sign(1) * width
<1>1. first \in Int /\ a \in Int /\ b \in Int BY DEF Offsets
<1>2. Offset(first, 0) = first
  <2>1. sign(0) * width = 0 OBVIOUS
  <2>2. first + sign(0) * width = first BY <1>1, <2>1
  <2>3. first % Size = first BY <1>0, SmallMod DEF Offsets
  <2>4. QED BY <2>2, <2>3 DEF Offset
<1>3. Offset(first, k) = a % Size BY DEF Offset
<1>4. a % Size \in Offsets
  <2> HIDE DEF a
  <2>1. QED BY <1>0, <1>1, Divided DEF Offsets
<1>5. first + sign(k + 1) * width = a + b
  <2>1. CASE width = 1 BY <1>1, <2>1
  <2>2. CASE width = 2 BY <1>1, <2>2
  <2>3. CASE width = 4 BY <1>1, <2>3
  <2>4. QED BY <2>1, <2>2, <2>3
<1>6. Offset(first, k + 1) = (a + b) % Size BY <1>5 DEF Offset
<1>7. Step(Offset(first, k)) = ((a % Size) + b) % Size
  <2> DEFINE o == a % Size
  <2>1. o \in Int BY <1>4 DEF Offsets
  <2> HIDE DEF o
  <2>2. Step(o) = (o + b) % Size
    <3>1. (IF down THEN o - width ELSE o + width) = o + b BY <2>1
    <3>2. QED BY <3>1 DEF Step
  <2>3. QED BY <1>3, <2>2 DEF o
<1> HIDE DEF a, b
<1>8. ((a % Size) + b) % Size = (a + b) % Size BY <1>0, <1>1, SumMod
<1>9. QED BY <1>2, <1>3, <1>4, <1>6, <1>7, <1>8

\* CX has reached 0 exactly when the limit is reached.
LEMMA CountsDown ==
  ASSUME Typed, NEW m \in Nat, m < Most, rep # "none", cx = (begin.cx - m) % Size
  PROVE  /\ (cx - 1) % Size = (begin.cx - (m + 1)) % Size
         /\ (cx - 1) % Size \in Offsets
         /\ (cx - 1) % Size = 0 <=> m + 1 = Most
<1>0. Size \in Nat \ {0} /\ begin.cx \in 0 .. Size - 1 BY StringsAssumption DEF Typed, Offsets
<1> DEFINE a == begin.cx - m
           r == begin.cx - (m + 1)
           back == -1
<1>1. a \in Int /\ r \in Int /\ back \in Int /\ a + back = r BY <1>0
<1>2. cx - 1 = (a % Size) + back
  <2> HIDE DEF a
  <2>1. a % Size \in Int BY <1>0, <1>1, Divided
  <2>2. QED BY <2>1 DEF a
<1> HIDE DEF a, back
<1>3. (cx - 1) % Size = r % Size
  <2>1. ((a % Size) + back) % Size = (a + back) % Size BY <1>0, <1>1, SumMod
  <2>2. QED BY <1>1, <1>2, <2>1
<1>4. r % Size \in Offsets
  <2> HIDE DEF r
  <2>1. QED BY <1>0, <1>1, Divided DEF Offsets
<1>5. r % Size = 0 <=> m + 1 = Most
  <2>1. CASE begin.cx = 0
    <3>1. Most = Size BY <2>1 DEF Most
    <3>2. r + Size \in 0 .. Size - 1 BY <1>0, <2>1, <3>1
    <3>3. ((r + Size) - Size) % Size = r + Size BY <1>0, <3>2, SmallMod
    <3>4. (r + Size) - Size = r BY <1>0
    <3>5. r % Size = r + Size BY <3>3, <3>4
    <3>6. r + Size = 0 <=> m + 1 = Size BY <1>0, <2>1
    <3> HIDE DEF r
    <3>7. QED BY <3>1, <3>5, <3>6
  <2>2. CASE begin.cx # 0
    <3>1. Most = begin.cx BY <2>2 DEF Most
    <3>2. r \in 0 .. Size - 1 BY <1>0, <3>1
    <3>3. r % Size = r BY <1>0, <3>2, SmallMod
    <3>4. r = 0 <=> m + 1 = begin.cx BY <1>0
    <3> HIDE DEF r
    <3>5. QED BY <3>1, <3>3, <3>4
  <2>3. QED BY <2>1, <2>2
<1>6. QED BY <1>3, <1>4, <1>5

\* One element keeps the invariant, whatever the instruction.
LEMMA OneElement ==
  ASSUME Inv, pc = "run", NEW zero \in BOOLEAN, Repeat(zero),
         op = "scas" => acc' = acc,
         op \in Compares => /\ mem' = mem /\ flags'.zero = zero
                            /\ zero <=> Equal(n)
                            /\ flags'.carry <=> Borrows(n),
         op \notin Compares => flags' = flags /\ zero = flags.zero,
         si' \in Offsets, SIMoves => si' = Step(si),
         di' \in Offsets, DIMoves => di' = Step(di)
  PROVE  Inv'
<1>1. UNCHANGED <<op, width, rep, down, begin>> BY DEF Repeat, insn
<1> PICK m \in Nat : m = n BY DEF Inv, Typed
<1>2. n' = m + 1 /\ n \in Nat /\ cx \in Offsets BY DEF Repeat, Inv, Typed
<1>3. Most' = Most BY <1>1 DEF Most
<1>4. ASSUME NEW k, op \in Compares
      PROVE  /\ Equal(k)' <=> Equal(k)
             /\ Borrows(k)' <=> Borrows(k)
  <2>1. Target(k)' = Target(k) /\ Source(k)' = Source(k) BY <1>1 DEF Target, Source, Offset
  <2>2. Element(Target(k))' = Element(Target(k)) /\ Element(Source(k))' = Element(Source(k))
    BY <1>1, <2>1 DEF Element
  <2>3. Other(k)' = Other(k) BY <1>1, <1>4, <2>2 DEF Other, Compares
  <2>4. Twisted(k)' <=> Twisted(k) BY <1>1, <2>1 DEF Twisted
  <2>5. QED BY <2>2, <2>3, <2>4 DEF Equal, Borrows
<1>5. \A k : GoesOn(k)' <=> GoesOn(k)
  <2>1. CASE op \in Compares BY <1>1, <1>4, <2>1 DEF GoesOn
  <2>2. CASE op \notin Compares BY <1>1, <2>2 DEF GoesOn
  <2>3. QED BY <2>1, <2>2
<1>6. n < Most /\ Most \in Nat
  <2>1. Most \in Nat BY StringsAssumption DEF Most, Inv, Typed, Offsets
  <2>2. QED BY <2>1 DEF Inv, EndsAsCoded
<1>7. rep # "none" => /\ cx' = (begin.cx - n') % Size /\ cx' \in Offsets
                      /\ cx' = 0 <=> n' = Most
  <2>1. SUFFICES ASSUME rep # "none" PROVE /\ cx' = (begin.cx - n') % Size /\ cx' \in Offsets
                                           /\ cx' = 0 <=> n' = Most
    OBVIOUS
  <2>2. cx = (begin.cx - n) % Size BY <2>1 DEF Inv, EndsAsCoded
  <2>3. cx' = (cx - 1) % Size BY <2>1 DEF Repeat
  <2>4. /\ (cx - 1) % Size = (begin.cx - (n + 1)) % Size
        /\ (cx - 1) % Size \in Offsets
        /\ (cx - 1) % Size = 0 <=> n + 1 = Most
    BY <1>2, <1>6, <2>1, <2>2, CountsDown DEF Inv
  <2>5. QED BY <1>2, <2>3, <2>4
<1>8. rep = "none" => cx' = cx /\ n' = Most /\ pc' = "next"
  <2>1. rep = "none" => cx' = cx /\ Most = 1 BY DEF Repeat, Most
  <2>2. rep = "none" => pc' = "next" BY DEF Repeat, Repeats
  <2>3. QED BY <1>2, <1>6, <2>1, <2>2
<1>9. rep # "none" => (pc' = "run" <=> n' # Most /\ GoesOn(m)) /\ pc' \in {"run", "next"}
  <2>1. SUFFICES ASSUME rep # "none"
                 PROVE  (pc' = "run" <=> n' # Most /\ GoesOn(m)) /\ pc' \in {"run", "next"}
    OBVIOUS
  <2>2. pc' = IF cx' # 0 /\ (rep = "repe" => zero) /\ (rep = "repne" => ~zero)
              THEN "run" ELSE "next"
    BY <2>1 DEF Repeat, Repeats
  <2>3. rep \in {"rep", "repe", "repne"} /\ (rep = "repe" => op \in Compares)
        /\ (rep = "rep" => op \notin Compares)
    BY <2>1 DEF Inv, Typed
  <2>4. GoesOn(m) <=> (rep = "repe" => zero) /\ (rep = "repne" => ~zero)
    <3>1. CASE op \in Compares BY <2>3, <3>1 DEF GoesOn
    <3>2. CASE op \notin Compares
      <4>1. zero = begin.zero BY <3>2 DEF Inv, Kept
      <4>2. QED BY <2>3, <3>2, <4>1 DEF GoesOn
    <3>3. QED BY <3>1, <3>2
  <2>5. QED BY <1>7, <2>1, <2>2, <2>4
<1>10. Typed'
  <2>1. cx' \in Offsets BY <1>2, <1>7, <1>8
  <2>2. flags'.zero \in BOOLEAN BY DEF Inv, Typed
  <2>3. op = "scas" => (acc \in 0 .. Values(width) - 1)' BY <1>1 DEF Inv, Typed, Values
  <2>4. n' \in Nat /\ pc' \in {"run", "next"} BY <1>2, <1>8, <1>9
  <2>5. QED BY <1>1, <2>1, <2>2, <2>3, <2>4 DEF Inv, Typed, Offsets, Filled
<1>11. Kept' BY <1>1 DEF Inv, Kept
<1>12. EndsAsCoded'
  <2>1. n' <= Most' BY <1>2, <1>3, <1>6
  <2>2. ASSUME NEW k \in 0 .. n' - 2 PROVE GoesOn(k)'
    <3>1. k \in 0 .. n - 2 \/ (k = n - 1 /\ n > 0) BY <1>2
    <3>2. CASE k \in 0 .. n - 2
      <4>1. GoesOn(k) BY <3>2 DEF Inv, EndsAsCoded
      <4>2. QED BY <1>5, <4>1
    <3>3. CASE k = n - 1 /\ n > 0
      <4>1. GoesOn(k) BY <3>3 DEF Inv, EndsAsCoded
      <4>2. QED BY <1>5, <4>1
    <3>4. QED BY <3>1, <3>2, <3>3
  <2>3. n' - 1 = m BY <1>2
  <2>4. pc' = "next" => n' = Most' \/ ~GoesOn(m)' BY <1>3, <1>5, <1>8, <1>9
  <2>5. pc' = "run" => n' < Most' /\ GoesOn(m)' BY <1>2, <1>3, <1>5, <1>6, <1>8, <1>9
  <2>6. rep' # "none" => cx' = (begin.cx' - n') % Size BY <1>1, <1>7
  <2>7. width \in {1, 2, 4} /\ down \in BOOLEAN /\ begin.si \in Offsets /\ begin.di \in Offsets
    BY DEF Inv, Typed
  <2>8. SIMoves => si' = Offset(begin.si, m + 1)
    <3>1. SUFFICES ASSUME SIMoves PROVE si' = Offset(begin.si, m + 1) OBVIOUS
    <3>2. si = Offset(begin.si, m) BY <3>1 DEF Inv, EndsAsCoded, SIMoves
    <3>3. QED BY <2>7, <3>1, <3>2, Positions
  <2>9. DIMoves => di' = Offset(begin.di, m + 1)
    <3>1. SUFFICES ASSUME DIMoves PROVE di' = Offset(begin.di, m + 1) OBVIOUS
    <3>2. di = Offset(begin.di, m) BY <3>1 DEF Inv, EndsAsCoded, DIMoves
    <3>3. QED BY <2>7, <3>1, <3>2, Positions
  <2>10. \A x : Offset(x, m + 1)' = Offset(x, m + 1) BY <1>1 DEF Offset
  <2>11. /\ SIMoves' => si' = Offset(begin.si, n)'
         /\ DIMoves' => di' = Offset(begin.di, n)'
    <3>1. (SIMoves' <=> SIMoves) /\ (DIMoves' <=> DIMoves) BY <1>1 DEF SIMoves, DIMoves
    <3>2. Offset(begin.si, n)' = Offset(begin.si, m + 1) BY <1>1, <1>2 DEF Offset
    <3>3. Offset(begin.di, n)' = Offset(begin.di, m + 1) BY <1>1, <1>2 DEF Offset
    <3>4. QED BY <2>8, <2>9, <3>1, <3>2, <3>3
  <2>12. pc' = "next" => n' = Most' \/ ~GoesOn(n - 1)'
    BY <2>3, <2>4
  <2>13. pc' = "run" => n' < Most' /\ (n' > 0 => GoesOn(n - 1)')
    BY <2>3, <2>5
  <2>14. QED BY <1>1, <2>1, <2>2, <2>6, <2>11, <2>12, <2>13 DEF EndsAsCoded, SIMoves, DIMoves
<1>13. OrderIsTold'
  <2>1. n' - 1 = m BY <1>2
  <2>2. CASE op \in Compares
    <3>1. /\ Equal(m)' <=> Equal(n)
          /\ Borrows(m)' <=> Borrows(n)
      BY <1>4, <2>2
    <3>2. flags'.zero <=> Equal(m)' BY <2>2, <3>1
    <3>3. flags'.carry <=> Borrows(m)' BY <2>2, <3>1
    <3>4. QED BY <2>1, <3>2, <3>3 DEF OrderIsTold
  <2>3. CASE op \notin Compares BY <1>1, <2>3 DEF OrderIsTold
  <2>4. QED BY <2>2, <2>3
<1>14. QED BY <1>10, <1>11, <1>12, <1>13 DEF Inv

\* Every byte of an element is in memory.
LEMMA InMemory ==
  ASSUME NEW base \in {DS, ES}, NEW offset \in Offsets, NEW i \in 0 .. 3
  PROVE  base + offset + i \in Memory
<1>1. base \in Nat /\ Size \in Nat \ {0} /\ base .. base + Size + 2 \subseteq Memory
  BY StringsAssumption
<1>2. base + offset + i \in base .. base + Size + 2 BY <1>1 DEF Offsets
<1>3. QED BY <1>1, <1>2

LEMMA ComparedFields ==
  ASSUME NEW d, NEW s
  PROVE  /\ Compared(d, s).carry <=> ((d - s) % (2 * Values(width))) \div Values(width) = 1
         /\ Compared(d, s).zero <=> ((d - s) % (2 * Values(width))) % Values(width) = 0
BY Zenon DEF Compared

LEMMA WordRange ==
  ASSUME NEW lo \in 0 .. ByteSize - 1, NEW hi \in 0 .. ByteSize - 1
  PROVE  lo + ByteSize * hi \in 0 .. ByteSize * ByteSize - 1
<1>1. ByteSize \in Nat \ {0} BY StringsAssumption
<1>2. ByteSize * hi <= ByteSize * (ByteSize - 1) BY <1>1
<1>3. ByteSize * (ByteSize - 1) = ByteSize * ByteSize - ByteSize BY <1>1
<1>4. ByteSize * hi \in Nat /\ ByteSize * ByteSize \in Nat BY <1>1
<1> DEFINE x == ByteSize * hi
           y == ByteSize * ByteSize
           z == ByteSize * (ByteSize - 1)
<1>5. x <= z /\ z = y - ByteSize /\ x \in Nat /\ y \in Nat BY <1>2, <1>3, <1>4
<1> HIDE DEF x, y, z
<1>6. lo + x \in 0 .. y - 1 BY <1>1, <1>5
<1>7. QED BY <1>6 DEF x, y

\* What CMPS and SCAS compare.
LEMMA CmpsTells ==
  ASSUME Inv, pc = "run", op = "cmps", NEW w, w = IF width = 1 THEN 2 ELSE width,
         NEW f, f = Compared(Read(mem, ES + di, w), Read(mem, DS + si, w))
  PROVE  (f.zero <=> Equal(n)) /\ (f.carry <=> Borrows(n))
<1> DEFINE t == ES + di
           s == DS + si
           dl == mem[t]
           dh == mem[t + 1]
           sl == mem[s]
           sh == mem[s + 1]
<1>0. op \in Compares BY DEF Compares
<1>1. mem = begin.mem /\ mem \in Filled /\ width \in {1, 2} BY <1>0 DEF Inv, Kept, Typed
<1>2. Target(n) = t /\ Source(n) = s
  BY DEF Inv, EndsAsCoded, Target, Source
<1>3. t \in Memory /\ t + 1 \in Memory /\ s \in Memory /\ s + 1 \in Memory
  <2>1. di \in Offsets /\ si \in Offsets /\ DS \in {DS, ES} /\ ES \in {DS, ES} BY DEF Inv, Typed
  <2>2. 0 \in 0 .. 3 /\ 1 \in 0 .. 3 OBVIOUS
  <2>3. t + 0 \in Memory /\ t + 1 \in Memory /\ s + 0 \in Memory /\ s + 1 \in Memory
    BY <2>1, <2>2, InMemory
  <2>4. t \in Nat /\ s \in Nat BY <2>1, StringsAssumption DEF Offsets
  <2>5. QED BY <2>3, <2>4
<1>4. dl \in 0 .. ByteSize - 1 /\ dh \in 0 .. ByteSize - 1
      /\ sl \in 0 .. ByteSize - 1 /\ sh \in 0 .. ByteSize - 1
  BY <1>1, <1>3 DEF Filled
<1>5. ByteSize \in Nat \ {0} BY StringsAssumption
<1>6. w = 2 BY <1>1
<1>7. Read(mem, t, w) = dl + ByteSize * dh /\ Read(mem, s, w) = sl + ByteSize * sh
  BY <1>6 DEF Read, Word
<1> HIDE DEF t, s
<1>8. f = Compared(dl + ByteSize * dh, sl + ByteSize * sh) BY <1>7 DEF t, s
<1> DEFINE res == ((dl + ByteSize * dh) - (sl + ByteSize * sh)) % (2 * Values(width))
<1>9. (f.carry <=> res \div Values(width) = 1) /\ (f.zero <=> res % Values(width) = 0)
  BY <1>8, ComparedFields
<1>10. CASE width = 1
  <2>1. Values(width) = ByteSize BY <1>10 DEF Values
  <2>2. /\ res \div ByteSize = 1 <=> ((dl < sl) # ((dh + sh) % 2 = 1))
        /\ res % ByteSize = 0 <=> dl = sl
    <3> HIDE DEF dl, dh, sl, sh
    <3> DEFINE r == ((dl + ByteSize * dh) - (sl + ByteSize * sh)) % (2 * ByteSize)
    <3>1. /\ r \div ByteSize = 1 <=> ((dl < sl) # ((dh + sh) % 2 = 1))
          /\ r % ByteSize = 0 <=> dl = sl
      BY <1>4, <1>5, ComparesLowBytes
    <3>2. res = r BY <2>1
    <3> HIDE DEF r, res
    <3>3. QED BY <3>1, <3>2, Zenon
  <2>3. Element(Target(n)) = dl /\ Other(n) = sl
    BY <1>1, <1>2, <1>10 DEF Element, Other, Read
  <2>4. Twisted(n) <=> (dh + sh) % 2 = 1 BY <1>1, <1>2, <1>10 DEF Twisted
  <2> HIDE DEF res, dl, dh, sl, sh
  <2>5. f.zero <=> Equal(n) BY <1>9, <2>1, <2>2, <2>3 DEF Equal
  <2>6. f.carry <=> Borrows(n)
    <3>1. CASE (dh + sh) % 2 = 1 BY <1>9, <2>1, <2>2, <2>3, <2>4, <3>1 DEF Borrows
    <3>2. CASE ~((dh + sh) % 2 = 1) BY <1>9, <2>1, <2>2, <2>3, <2>4, <3>2 DEF Borrows
    <3>3. QED BY <3>1, <3>2
  <2>7. QED BY <2>5, <2>6
<1>11. CASE width = 2
  <2>1. Values(width) = ByteSize * ByteSize BY <1>11 DEF Values
  <2> DEFINE d == dl + ByteSize * dh
             e == sl + ByteSize * sh
             all == ByteSize * ByteSize
  <2>2. d \in 0 .. all - 1 /\ e \in 0 .. all - 1 BY <1>4, WordRange
  <2>3. all \in Nat \ {0} BY <1>5
  <2>4. Element(Target(n)) = d /\ Other(n) = e
    BY <1>1, <1>2, <1>11 DEF Element, Other, Read, Word
  <2>5. ~Twisted(n) BY <1>11 DEF Twisted
  <2>6. res = (d - e) % (2 * all) BY <2>1
  <2> HIDE DEF d, e, all
  <2>7. (res \div all = 1 <=> d < e) /\ (res % all = 0 <=> d = e)
    BY <2>2, <2>3, <2>6, ComparesNumbers
  <2> HIDE DEF res
  <2>8. (f.carry <=> d < e) /\ (f.zero <=> d = e) BY <1>9, <2>1, <2>7 DEF all
  <2>9. QED BY <2>4, <2>5, <2>8 DEF Equal, Borrows
<1>12. QED BY <1>1, <1>10, <1>11

LEMMA ScasTells ==
  ASSUME Inv, pc = "run", op = "scas", NEW f, f = Compared(Read(mem, ES + di, width), acc)
  PROVE  (f.zero <=> Equal(n)) /\ (f.carry <=> Borrows(n))
<1> DEFINE t == ES + di
           d == Read(mem, t, width)
           all == Values(width)
           res == (d - acc) % (2 * all)
<1>0. op \in Compares BY DEF Compares
<1>1. mem = begin.mem /\ mem \in Filled /\ width \in {1, 2} BY <1>0 DEF Inv, Kept, Typed
<1>2. Target(n) = t BY DEF Inv, EndsAsCoded, Target
<1>3. t \in Memory /\ t + 1 \in Memory
  <2>1. di \in Offsets /\ ES \in {DS, ES} BY DEF Inv, Typed
  <2>2. 0 \in 0 .. 3 /\ 1 \in 0 .. 3 OBVIOUS
  <2>3. t + 0 \in Memory /\ t + 1 \in Memory BY <2>1, <2>2, InMemory
  <2>4. t \in Nat BY <2>1, StringsAssumption DEF Offsets
  <2>5. QED BY <2>3, <2>4
<1>4. mem[t] \in 0 .. ByteSize - 1 /\ mem[t + 1] \in 0 .. ByteSize - 1 BY <1>1, <1>3 DEF Filled
<1>5. ByteSize \in Nat \ {0} BY StringsAssumption
<1> HIDE DEF t
<1>6. d \in 0 .. all - 1 /\ all \in Nat \ {0}
  <2>1. CASE width = 1
    <3>1. d = mem[t] /\ all = ByteSize BY <2>1 DEF Read, Values
    <3>2. QED BY <1>4, <1>5, <3>1
  <2>2. CASE width = 2
    <3>1. d = mem[t] + ByteSize * mem[t + 1] /\ all = ByteSize * ByteSize
      BY <2>2 DEF Read, Word, Values
    <3>2. ByteSize * ByteSize \in Nat \ {0} BY <1>5
    <3>3. QED BY <1>4, <3>1, <3>2, WordRange
  <2>3. QED BY <1>1, <2>1, <2>2
<1>7. acc \in 0 .. all - 1 BY DEF Inv, Typed
<1>8. (f.carry <=> res \div all = 1) /\ (f.zero <=> res % all = 0)
  BY ComparedFields DEF t
<1>9. Element(Target(n)) = d /\ Other(n) = acc BY <1>1, <1>2 DEF Element, Other
<1>10. ~Twisted(n) BY DEF Twisted
<1> HIDE DEF d, all
<1>11. (res \div all = 1 <=> d < acc) /\ (res % all = 0 <=> d = acc)
  BY <1>6, <1>7, ComparesNumbers
<1> HIDE DEF res
<1>12. (f.carry <=> d < acc) /\ (f.zero <=> d = acc) BY <1>8, <1>11
<1>13. QED BY <1>9, <1>10, <1>12 DEF Equal, Borrows
-----------------------------------------------------------------------------
(* The instructions.                                                       *)

\* A step stays within the segment.
LEMMA StepIn ==
  ASSUME Inv, NEW offset \in Offsets
  PROVE  Step(offset) \in Offsets
<1>1. Size \in Nat \ {0} BY StringsAssumption
<1> DEFINE x == IF down THEN offset - width ELSE offset + width
<1>2. x \in Int BY DEF Inv, Typed, Offsets
<1>3. Step(offset) = x % Size BY DEF Step
<1> HIDE DEF x
<1>4. QED BY <1>1, <1>2, <1>3, Divided DEF Offsets

LEMMA InitInv == ASSUME Init PROVE Inv
<1>0. Size \in Nat \ {0} /\ Contents \subseteq Filled /\ Widths \subseteq {1, 2, 4}
  BY StringsAssumption DEF Filled
<1>1. /\ begin.mem = mem /\ begin.si = si /\ begin.di = di /\ begin.cx = cx
      /\ begin.zero = flags.zero /\ mem \in Contents
      /\ cx \in Offsets /\ pc = "run" /\ n = 0 /\ flags.zero \in BOOLEAN
  BY DEF Init, Offsets
<1>2. si \in Offsets /\ di \in Offsets
  <2>1. 0 \in Offsets BY <1>0 DEF Offsets
  <2>2. si \in {0} \cup (0 .. Size - 1) /\ di \in {0} \cup (0 .. Size - 1) BY DEF Init
  <2>3. QED BY <2>1, <2>2 DEF Offsets
<1>3. op \in Ops /\ width \in {1, 2, 4} /\ rep \in {"none", "rep", "repe", "repne"}
      /\ down \in BOOLEAN
  BY <1>0 DEF Init
<1>4. rep \in {"none", "repne", IF op \in Compares THEN "repe" ELSE "rep"}
      /\ (width = 4 => op \in {"movs", "stos", "lods"})
  BY DEF Init, Decoded
<1>5. (rep = "repe" => op \in Compares) /\ (rep = "rep" => op \notin Compares) BY <1>4
<1>6. op \in Compares => width \in {1, 2} BY <1>3, <1>4 DEF Compares
<1>7. op = "scas" => acc \in 0 .. Values(width) - 1 BY DEF Init
<1>8. Typed BY <1>0, <1>1, <1>2, <1>3, <1>5, <1>6, <1>7 DEF Typed
<1>9. EndsAsCoded
  <2>1. Most \in Nat \ {0} BY <1>0, <1>1 DEF Most, Offsets
  <2>2. cx = (begin.cx - n) % Size
    <3>1. cx % Size = cx BY <1>0, <1>1, SmallMod DEF Offsets
    <3>2. begin.cx - n = cx BY <1>1 DEF Offsets
    <3>3. QED BY <3>1, <3>2
  <2>3. si = Offset(begin.si, n) /\ di = Offset(begin.di, n)
    <3>1. Offset(begin.si, 0) = si /\ Offset(begin.di, 0) = di
      BY <1>1, <1>2, <1>3, Positions
    <3>2. QED BY <1>1, <3>1
  <2>4. 0 .. n - 2 = {} BY <1>1
  <2>5. QED BY <1>1, <2>1, <2>2, <2>3, <2>4 DEF EndsAsCoded
<1>10. QED BY <1>1, <1>8, <1>9 DEF Inv, Kept, OrderIsTold

LEMMA NextInv == ASSUME Inv, Next PROVE Inv'
<1>1. si \in Offsets /\ di \in Offsets /\ flags.zero \in BOOLEAN BY DEF Inv, Typed
<1>2. Step(si) \in Offsets /\ Step(di) \in Offsets BY <1>1, StepIn
<1>3. CASE Movs
  <2>1. pc = "run" /\ op = "movs" /\ si' = Step(si) /\ di' = Step(di) /\ Repeat(flags.zero)
        /\ UNCHANGED <<acc, flags>>
    BY <1>3 DEF Movs, Running
  <2>2. op \notin Compares BY <2>1 DEF Compares
  <2>3. QED BY <1>1, <1>2, <2>1, <2>2, OneElement DEF SIMoves, DIMoves
<1>4. CASE Stos
  <2>1. pc = "run" /\ op = "stos" /\ di' = Step(di) /\ Repeat(flags.zero)
        /\ UNCHANGED <<acc, si, flags>>
    BY <1>4 DEF Stos, Running
  <2>2. op \notin Compares BY <2>1 DEF Compares
  <2>3. QED BY <1>1, <1>2, <2>1, <2>2, OneElement DEF SIMoves, DIMoves
<1>5. CASE Lods
  <2>1. pc = "run" /\ op = "lods" /\ si' = Step(si) /\ Repeat(flags.zero)
        /\ UNCHANGED <<di, flags>>
    BY <1>5 DEF Lods, Running
  <2>2. op \notin Compares BY <2>1 DEF Compares
  <2>3. QED BY <1>1, <1>2, <2>1, <2>2, OneElement DEF SIMoves, DIMoves
<1>6. CASE Ins
  <2>1. pc = "run" /\ op = "ins" /\ Repeat(flags.zero) /\ UNCHANGED <<acc, si, flags>>
    BY <1>6 DEF Ins, Running
  <2>2. di' \in Offsets BY <1>1, <1>2, <1>6 DEF Ins
  <2>3. op \notin Compares BY <2>1 DEF Compares
  <2>4. QED BY <1>1, <1>2, <2>1, <2>2, <2>3, OneElement DEF SIMoves, DIMoves
<1>7. CASE Outs
  <2>1. pc = "run" /\ op = "outs" /\ si' = Step(si) /\ Repeat(flags.zero)
        /\ UNCHANGED <<acc, di, flags>>
    BY <1>7 DEF Outs, Running
  <2>2. op \notin Compares BY <2>1 DEF Compares
  <2>3. QED BY <1>1, <1>2, <2>1, <2>2, OneElement DEF SIMoves, DIMoves
<1>8. CASE Cmps
  <2> DEFINE w == IF width = 1 THEN 2 ELSE width
             f == Compared(Read(mem, ES + di, w), Read(mem, DS + si, w))
  <2>1. pc = "run" /\ op = "cmps" /\ si' = Step(si) /\ di' = Step(di) /\ flags' = f
        /\ Repeat(f.zero) /\ UNCHANGED <<mem, acc>>
    BY <1>8 DEF Cmps, Running
  <2>2. f.zero \in BOOLEAN BY Zenon DEF Compared
  <2>3. (f.zero <=> Equal(n)) /\ (f.carry <=> Borrows(n)) BY <2>1, CmpsTells
  <2>4. op \in Compares BY <2>1 DEF Compares
  <2> HIDE DEF f
  <2>5. QED BY <1>1, <1>2, <2>1, <2>2, <2>3, <2>4, OneElement
<1>9. CASE Scas
  <2> DEFINE f == Compared(Read(mem, ES + di, width), acc)
  <2>1. pc = "run" /\ op = "scas" /\ di' = Step(di) /\ flags' = f
        /\ Repeat(f.zero) /\ UNCHANGED <<mem, acc, si>>
    BY <1>9 DEF Scas, Running
  <2>2. f.zero \in BOOLEAN BY Zenon DEF Compared
  <2>3. (f.zero <=> Equal(n)) /\ (f.carry <=> Borrows(n)) BY <2>1, ScasTells
  <2>4. op \in Compares BY <2>1 DEF Compares
  <2> HIDE DEF f
  <2>5. QED BY <1>1, <1>2, <2>1, <2>2, <2>3, <2>4, OneElement DEF SIMoves
<1>10. QED BY <1>3, <1>4, <1>5, <1>6, <1>7, <1>8, <1>9 DEF Next

LEMMA StutterInv == ASSUME Inv, UNCHANGED vars PROVE Inv'
<1>1. UNCHANGED <<op, width, rep, down, begin, mem, acc, si, di, cx, flags, pc, n>>
  BY DEF vars, insn
<1>2. Typed' /\ Kept' BY <1>1 DEF Inv, Typed, Kept, Offsets, Filled, Values
<1> PICK m \in Nat : m = n BY DEF Inv, Typed
<1>3. Most' = Most /\ n' = m BY <1>1 DEF Most
<1>4. ASSUME NEW k
      PROVE  /\ Equal(k)' <=> Equal(k)
             /\ Borrows(k)' <=> Borrows(k)
  <2>1. Target(k)' = Target(k) /\ Source(k)' = Source(k) BY <1>1 DEF Target, Source, Offset
  <2>2. Element(Target(k))' = Element(Target(k)) /\ Element(Source(k))' = Element(Source(k))
    BY <1>1, <2>1 DEF Element
  <2>3. Other(k)' = Other(k) BY <1>1, <2>2 DEF Other
  <2>4. Twisted(k)' <=> Twisted(k) BY <1>1, <2>1 DEF Twisted
  <2>5. QED BY <2>2, <2>3, <2>4 DEF Equal, Borrows
<1>5. \A k : GoesOn(k)' <=> GoesOn(k) BY <1>1, <1>4 DEF GoesOn
<1>6. EndsAsCoded'
  <2>1. EndsAsCoded BY DEF Inv
  <2>2. /\ Offset(begin.si, n)' = Offset(begin.si, n)
        /\ Offset(begin.di, n)' = Offset(begin.di, n)
    BY <1>1 DEF Offset
  <2>3. \A k \in 0 .. n' - 2 : GoesOn(k)' BY <1>3, <1>5, <2>1 DEF EndsAsCoded
  <2>4. GoesOn(n - 1)' <=> GoesOn(n - 1) BY <1>1, <1>3, <1>5
  <2>5. /\ n' <= Most'
        /\ pc' = "next" => n' = Most' \/ ~GoesOn(n - 1)'
        /\ pc' = "run" => n' < Most' /\ (n' > 0 => GoesOn(n - 1)')
    BY <1>1, <1>3, <2>1, <2>4 DEF EndsAsCoded
  <2>6. /\ rep' # "none" => cx' = (begin.cx' - n') % Size
        /\ op' \in {"movs", "lods", "outs", "cmps"} => si' = Offset(begin.si, n)'
        /\ op' \in {"movs", "stos", "cmps", "scas"} => di' = Offset(begin.di, n)'
    BY <1>1, <2>1, <2>2 DEF EndsAsCoded
  <2>7. QED BY <2>3, <2>5, <2>6 DEF EndsAsCoded
<1>7. OrderIsTold'
  <2>1. /\ Equal(n - 1)' <=> Equal(n - 1)
        /\ Borrows(n - 1)' <=> Borrows(n - 1)
    BY <1>1, <1>3, <1>4
  <2>2. QED BY <1>1, <2>1 DEF Inv, OrderIsTold
<1>8. QED BY <1>2, <1>6, <1>7 DEF Inv

\* Through every element the registers are where the elements done so far put
\* them, and comparisons leave memory and accumulator alone.
THEOREM Invariance == Spec => []Inv
<1>1. Init => Inv BY InitInv
<1>2. Inv /\ [Next]_vars => Inv' BY NextInv, StutterInv
<1>3. QED BY <1>1, <1>2, PTL DEF Spec

\* For segments of any size and bytes of any width a repeated instruction ends
\* after CX elements or at the first that decides, with SI, DI and CX behind
\* it (the repeat modes at the end of Machine::execute).
THEOREM RepeatsEnd == Spec => []EndsInTime
<1>1. Inv => EndsInTime
  <2> SUFFICES ASSUME EndsAsCoded PROVE EndsInTime
    BY DEF Inv
  <2>1. Counted => Most = Limit
    BY DEF Counted, Most, Limit
  <2>2. QED BY <2>1 DEF EndsAsCoded, EndsInTime
<1>2. QED BY <1>1, Invariance, PTL

\* Whatever is compared, the flags tell equality and order of the last two
\* elements, up to the borrow of CMPSB (CPU::cmp8, CPU::cmp16).
THEOREM FlagsTell == Spec => []OrderIsTold
<1>1. Inv => OrderIsTold BY DEF Inv
<1>2. QED BY <1>1, Invariance, PTL
-----------------------------------------------------------------------------
(* Blocks of memory.                                                       *)

Shape ==
    /\ mem = [a \in Memory |-> mem[a]]
    /\ ports \in Seq(0 .. ByteSize - 1)
    /\ op = "ins" /\ width = 1 => Len(ports) = n /\ di = Offset(begin.di, n)
    /\ op = "outs" => width \in {1, 2} /\ Len(ports) = n * width

Blocks == Shape /\ BlocksMove

\* Elements lie in memory.
LEMMA BytesIn ==
  ASSUME Typed, NEW base \in {DS, ES}, NEW first \in Offsets, NEW k \in Nat
  PROVE  /\ base + Offset(first, k) \in Nat
         /\ Bytes(base + Offset(first, k)) \subseteq Memory
<1>1. Offset(first, k) \in Offsets BY Positions DEF Typed
<1>2. width \in {1, 2, 4} BY DEF Typed
<1>3. base \in Nat BY StringsAssumption
<1>4. ASSUME NEW a \in Bytes(base + Offset(first, k)) PROVE a \in Memory
  <2> DEFINE o == Offset(first, k)
             i == a - (base + o)
  <2>1. o \in Nat BY <1>1, StringsAssumption DEF Offsets
  <2>2. a \in Int /\ i \in 0 .. 3 BY <1>2, <1>3, <2>1 DEF Bytes
  <2>3. base + o + i = a BY <1>3, <2>1, <2>2
  <2> HIDE DEF i
  <2>4. base + o + i \in Memory BY <1>1, <2>2, InMemory
  <2>5. QED BY <2>3, <2>4
<1>5. base + Offset(first, k) \in Nat BY <1>1, <1>3, StringsAssumption DEF Offsets
<1>6. QED BY <1>4, <1>5

\* What is at an address after bytes were written.
LEMMA WrittenAt ==
  ASSUME Typed, Shape, NEW t \in Nat, NEW bytes, DOMAIN bytes = 1 .. width,
         mem' = Written(mem, t, bytes)
  PROVE  /\ mem' = [a \in Memory |-> mem'[a]]
         /\ \A a \in Memory \ Bytes(t) : mem'[a] = mem[a]
         /\ \A i \in 1 .. width : t + i - 1 \in Memory => mem'[t + i - 1] = bytes[i]
<1>1. DOMAIN mem = Memory BY DEF Shape
<1>2. mem' = [a \in Memory |-> IF a - t + 1 \in 1 .. width THEN bytes[a - t + 1] ELSE mem[a]]
  BY <1>1 DEF Written
<1>3. \A a \in Memory : mem'[a] = IF a - t + 1 \in 1 .. width THEN bytes[a - t + 1] ELSE mem[a]
  BY <1>2
<1>4. Memory \subseteq Nat /\ width \in {1, 2, 4} BY StringsAssumption DEF Typed
<1>5. ASSUME NEW a \in Memory \ Bytes(t) PROVE mem'[a] = mem[a]
  <2>1. a \in Nat BY <1>4
  <2>2. ~(a - t + 1 \in 1 .. width) BY <1>4, <2>1 DEF Bytes
  <2>3. QED BY <1>3, <2>2
<1>6. ASSUME NEW i \in 1 .. width, t + i - 1 \in Memory PROVE mem'[t + i - 1] = bytes[i]
  <2>1. i \in Nat BY <1>4
  <2>2. (t + i - 1) - t + 1 = i BY <2>1
  <2>3. QED BY <1>3, <1>6, <2>2
<1>7. QED BY <1>2, <1>5, <1>6

\* One more element stored: it is there, and what it leaves alone stays.
LEMMA OneStored ==
  ASSUME Inv, Blocks, pc = "run", Stores, NEW bytes, DOMAIN bytes = 1 .. width,
         bytes = [i \in 1 .. width |-> bytes[i]],
         mem' = Written(mem, Target(n), bytes),
         UNCHANGED insn, n' = n + 1,
         op = "movs" => bytes = BytesAt(mem, Source(n), width),
         NEW m \in Nat, m = n,
         op # "movs" => bytes = Stored(m)',
         \A k \in 0 .. m - 1 : Stored(k)' = Stored(k)
  PROVE  (mem = [a \in Memory |-> mem[a]])' /\ RestStays' /\ BlocksArrive'
<1>0. UNCHANGED <<op, width, rep, down, begin>> BY DEF insn
<1>1. /\ \A k : Target(k)' = Target(k)
      /\ \A k : Source(k)' = Source(k)
      /\ \A a : Bytes(a)' = Bytes(a)
  BY <1>0 DEF Target, Source, Offset, Bytes
<1>2. n' = m + 1 /\ Typed /\ Shape /\ width \in {1, 2, 4} /\ Memory \subseteq Nat
  BY StringsAssumption DEF Inv, Blocks, Typed
<1>3. \A k \in Nat : /\ Target(k) \in Nat /\ Bytes(Target(k)) \subseteq Memory
                     /\ Source(k) \in Nat /\ Bytes(Source(k)) \subseteq Memory
  <2>1. begin.si \in Offsets /\ begin.di \in Offsets BY <1>2 DEF Typed
  <2>2. QED BY <1>2, <2>1, BytesIn DEF Target, Source
<1>4. /\ mem' = [a \in Memory |-> mem'[a]]
      /\ \A a \in Memory \ Bytes(Target(m)) : mem'[a] = mem[a]
      /\ \A i \in 1 .. width : Target(m) + i - 1 \in Memory => mem'[Target(m) + i - 1] = bytes[i]
  BY <1>2, <1>3, WrittenAt
<1>5. RestStays BY DEF Blocks, BlocksMove
<1>6. RestStays'
  <2>1. SUFFICES ASSUME NEW a \in Memory, a \notin BytesStored' PROVE mem'[a] = begin.mem[a]
    BY <1>0 DEF RestStays
  <2>2. BytesStored' = UNION {Bytes(Target(k)) : k \in 0 .. m}
    <3>1. Stores' BY <1>0 DEF Stores
    <3>2. n' - 1 = m BY <1>2
    <3>3. BytesStored' = UNION {Bytes(Target(k))' : k \in 0 .. n' - 1} BY <3>1 DEF BytesStored
    <3>4. \A k : Bytes(Target(k))' = Bytes(Target(k)) BY <1>0, <1>1 DEF Bytes
    <3>5. QED BY <3>2, <3>3, <3>4
  <2>3. a \notin Bytes(Target(m)) BY <2>1, <2>2
  <2>4. a \notin BytesStored
    <3>1. BytesStored = UNION {Bytes(Target(k)) : k \in 0 .. m - 1} BY DEF BytesStored
    <3>2. QED BY <2>1, <2>2, <3>1
  <2>5. QED BY <1>4, <1>5, <2>3, <2>4 DEF RestStays
<1>7. BlocksArrive'
  <2>1. SUFFICES ASSUME op = "movs" => InTime', NEW k \in 0 .. m, Lasts(k)'
                 PROVE  BytesAt(mem', Target(k), width) = Stored(k)'
    <3>1. n' - 1 = m BY <1>2
    <3>3. \A j : BytesAt(mem, Target(j), width)' = BytesAt(mem', Target(j), width)
      BY <1>0, <1>1 DEF BytesAt
    <3>4. QED BY <1>0, <3>1, <3>3 DEF BlocksArrive
  <2>2. CASE k \in 0 .. m - 1
    <3>1. Bytes(Target(k)) \cap Bytes(Target(m)) = {}
      <4>1. m \in k + 1 .. n' - 1 BY <1>2, <2>2
      <4>2. QED BY <1>1, <2>1, <4>1 DEF Lasts
    <3>2. Lasts(k) BY <1>1, <1>2, <2>1 DEF Lasts
    <3>3. op = "movs" => InTime BY <1>1, <1>2, <2>1 DEF InTime
    <3>4. BytesAt(mem, Target(k), width) = Stored(k)
      BY <2>2, <3>2, <3>3 DEF Blocks, BlocksMove, BlocksArrive
    <3>5. \A i \in 1 .. width : mem'[Target(k) + i - 1] = mem[Target(k) + i - 1]
      <4>1. SUFFICES ASSUME NEW i \in 1 .. width
                     PROVE  mem'[Target(k) + i - 1] = mem[Target(k) + i - 1]
        OBVIOUS
      <4>2. k \in Nat BY <2>2
      <4>3. Target(k) \in Nat BY <1>3, <4>2
      <4>4. Target(k) + i - 1 \in Bytes(Target(k)) BY <1>2, <4>3 DEF Bytes
      <4>5. Target(k) + i - 1 \in Memory BY <1>3, <4>2, <4>4
      <4>6. Target(k) + i - 1 \notin Bytes(Target(m)) BY <3>1, <4>4
      <4>7. QED BY <1>4, <4>5, <4>6
    <3>6. BytesAt(mem', Target(k), width) = BytesAt(mem, Target(k), width) BY <3>5 DEF BytesAt
    <3>7. QED BY <2>2, <3>4, <3>6
  <2>3. CASE k = m
    <3>1. BytesAt(mem', Target(m), width) = bytes
      <4>1. ASSUME NEW i \in 1 .. width PROVE mem'[Target(m) + i - 1] = bytes[i]
        <5>1. Target(m) \in Nat BY <1>3
        <5>2. Target(m) + i - 1 \in Bytes(Target(m)) BY <1>2, <5>1 DEF Bytes
        <5>3. QED BY <1>3, <1>4, <5>2
      <4>2. QED BY <4>1 DEF BytesAt
    <3>2. CASE op # "movs" BY <2>3, <3>1, <3>2
    <3>3. CASE op = "movs"
      <4>1. Stored(m)' = BytesAt(begin.mem, Source(m), width)
        BY <1>0, <1>1, <3>3 DEF Stored, BytesAt
      <4>2. \A i \in 1 .. width : mem[Source(m) + i - 1] = begin.mem[Source(m) + i - 1]
        <5>1. SUFFICES ASSUME NEW i \in 1 .. width
                       PROVE  mem[Source(m) + i - 1] = begin.mem[Source(m) + i - 1]
          OBVIOUS
        <5>2. Source(m) \in Nat /\ Bytes(Source(m)) \subseteq Memory BY <1>3
        <5>3. Source(m) + i - 1 \in Bytes(Source(m)) BY <1>2, <5>2 DEF Bytes
        <5>4. \A j \in 0 .. m - 1 : Bytes(Source(m)) \cap Bytes(Target(j)) = {}
          <6>1. InTime' BY <2>1, <3>3
          <6>2. m \in 0 .. n' - 1 BY <1>2
          <6>3. QED BY <1>1, <6>1, <6>2 DEF InTime
        <5>5. Source(m) + i - 1 \notin BytesStored BY <5>3, <5>4 DEF BytesStored
        <5>6. QED BY <1>5, <5>2, <5>3, <5>5 DEF RestStays
      <4>3. BytesAt(mem, Source(m), width) = BytesAt(begin.mem, Source(m), width)
        BY <4>2 DEF BytesAt
      <4>4. QED BY <2>3, <3>1, <3>3, <4>1, <4>3
    <3>4. QED BY <3>2, <3>3
  <2>4. QED BY <2>2, <2>3
<1>8. QED BY <1>4, <1>6, <1>7

\* A step that stores nothing and tells no port anything.
LEMMA NothingStored ==
  ASSUME Inv, Blocks, ~Stores, UNCHANGED insn, n' \in Nat, mem' = mem, ports' = ports,
         op # "outs", op # "ins" \/ width # 1
  PROVE  Blocks'
<1>1. UNCHANGED <<op, width, rep, down, begin>> BY DEF insn
<1>2. ~Stores' BY <1>1 DEF Stores
<1>3. Shape' BY <1>1 DEF Blocks, Shape
<1>4. RestStays'
  <2>1. BytesStored' = {} /\ BytesStored = {} BY <1>2 DEF BytesStored
  <2>2. QED BY <1>1, <2>1 DEF Blocks, BlocksMove, RestStays
<1>5. BlocksArrive' BY <1>2 DEF BlocksArrive
<1>6. PortsTold' BY <1>1 DEF PortsTold
<1>7. QED BY <1>3, <1>4, <1>5, <1>6 DEF Blocks, BlocksMove

LEMMA MovsBlocks == ASSUME Inv, Blocks, Movs PROVE Blocks'
<1> PICK m \in Nat : m = n BY DEF Inv, Typed
<1>1. /\ pc = "run" /\ op = "movs" /\ UNCHANGED insn /\ n' = n + 1 /\ ports' = ports
      /\ mem' = Written(mem, ES + di, BytesAt(mem, DS + si, width))
  BY DEF Movs, Running, Repeat
<1>2. op' = op BY <1>1 DEF insn
<1>3. di = Offset(begin.di, n) /\ si = Offset(begin.si, n) BY <1>1 DEF Inv, EndsAsCoded
<1>4. mem' = Written(mem, Target(n), BytesAt(mem, Source(n), width))
  BY <1>1, <1>3 DEF Target, Source
<1>5. Stores BY <1>1 DEF Stores
<1> DEFINE bytes == BytesAt(mem, Source(n), width)
<1>6. DOMAIN bytes = 1 .. width /\ bytes = [i \in 1 .. width |-> bytes[i]] BY DEF BytesAt
<1>7. \A k \in 0 .. m - 1 : Stored(k)' = Stored(k)
  <2>1. \A k : Source(k)' = Source(k) /\ width' = width /\ begin' = begin
    BY <1>1 DEF insn, Source, Offset
  <2>2. QED BY <1>1, <1>2, <2>1 DEF Stored, BytesAt
<1> HIDE DEF bytes
<1>8. (mem = [a \in Memory |-> mem[a]])' /\ RestStays' /\ BlocksArrive'
  BY <1>1, <1>4, <1>5, <1>6, <1>7, OneStored DEF bytes
<1>9. Shape' BY <1>1, <1>2, <1>8 DEF Blocks, Shape
<1>10. PortsTold' BY <1>1, <1>2 DEF PortsTold
<1>11. QED BY <1>8, <1>9, <1>10 DEF Blocks, BlocksMove

LEMMA StosBlocks == ASSUME Inv, Blocks, Stos PROVE Blocks'
<1> PICK m \in Nat : m = n BY DEF Inv, Typed
<1>1. /\ pc = "run" /\ op = "stos" /\ UNCHANGED insn /\ n' = n + 1 /\ ports' = ports
      /\ acc' = acc /\ mem' = Written(mem, ES + di, BytesOf(acc, width))
  BY DEF Stos, Running, Repeat
<1>2. op' = op /\ width' = width BY <1>1 DEF insn
<1>3. di = Offset(begin.di, n) BY <1>1 DEF Inv, EndsAsCoded
<1>4. mem' = Written(mem, Target(n), BytesOf(acc, width)) BY <1>1, <1>3 DEF Target
<1>5. Stores BY <1>1 DEF Stores
<1> DEFINE bytes == BytesOf(acc, width)
<1>6. DOMAIN bytes = 1 .. width /\ bytes = [i \in 1 .. width |-> bytes[i]] BY DEF BytesOf
<1>7. \A k : Stored(k)' = bytes /\ Stored(k) = bytes
  <2>1. BytesOf(acc, width)' = BytesOf(acc, width) BY <1>1, <1>2 DEF BytesOf
  <2>2. QED BY <1>1, <1>2, <2>1 DEF Stored
<1> HIDE DEF bytes
<1>8. (mem = [a \in Memory |-> mem[a]])' /\ RestStays' /\ BlocksArrive'
  BY <1>1, <1>4, <1>5, <1>6, <1>7, OneStored DEF bytes
<1>9. Shape' BY <1>1, <1>2, <1>8 DEF Blocks, Shape
<1>10. PortsTold' BY <1>1, <1>2 DEF PortsTold
<1>11. QED BY <1>8, <1>9, <1>10 DEF Blocks, BlocksMove

LEMMA InsBlocks == ASSUME Inv, Blocks, Ins PROVE Blocks'
<1> PICK m \in Nat : m = n BY DEF Inv, Typed
<1>1. /\ pc = "run" /\ op = "ins" /\ UNCHANGED insn /\ n' = n + 1
  BY DEF Ins, Running, Repeat
<1>2. op' = op /\ width' = width /\ down' = down /\ begin' = begin BY <1>1 DEF insn
<1>3. CASE width = 1
  <2>1. PICK byte \in 0 .. ByteSize - 1 : /\ mem' = Written(mem, ES + di, <<byte>>)
                                          /\ ports' = Append(ports, byte)
                                          /\ di' = Step(di)
    BY <1>3 DEF Ins
  <2>2. di = Offset(begin.di, n) /\ Len(ports) = m /\ ports \in Seq(0 .. ByteSize - 1)
    BY <1>1, <1>3 DEF Blocks, Shape
  <2>3. Stores BY <1>1, <1>3 DEF Stores
  <2>4. mem' = Written(mem, Target(n), <<byte>>) BY <2>1, <2>2 DEF Target
  <2>5. /\ ports' \in Seq(0 .. ByteSize - 1) /\ Len(ports') = m + 1 /\ ports'[m + 1] = byte
        /\ \A k \in 0 .. m - 1 : ports'[k + 1] = ports[k + 1]
    <3> HIDE DEF Step
    <3>1. ByteSize - 1 \in Nat BY StringsAssumption
    <3>2. QED BY <2>1, <2>2, <3>1
  <2>6. \A k \in 0 .. m - 1 : Stored(k)' = Stored(k)
    <3>1. \A k \in 0 .. m - 1 : Stored(k)' = <<ports'[k + 1]>> /\ Stored(k) = <<ports[k + 1]>>
      BY <1>1, <1>2 DEF Stored
    <3>2. QED BY <2>5, <3>1
  <2>7. Stored(m)' = <<byte>>
    <3>1. Stored(m)' = <<ports'[m + 1]>> BY <1>1, <1>2 DEF Stored
    <3>2. QED BY <2>5, <3>1
  <2> DEFINE bytes == <<byte>>
  <2>8. DOMAIN bytes = 1 .. width /\ bytes = [i \in 1 .. width |-> bytes[i]] BY <1>3
  <2> HIDE DEF bytes
  <2>9. (mem = [a \in Memory |-> mem[a]])' /\ RestStays' /\ BlocksArrive'
    BY <1>1, <2>3, <2>4, <2>6, <2>7, <2>8, OneStored DEF bytes
  <2>10. di' = Offset(begin.di, m + 1)
    <3>1. width \in {1, 2, 4} /\ down \in BOOLEAN /\ begin.di \in Offsets BY DEF Inv, Typed
    <3>2. Step(Offset(begin.di, m)) = Offset(begin.di, m + 1) BY <3>1, Positions
    <3>3. QED BY <2>1, <2>2, <3>2
  <2>11. Shape'
    <3>1. Offset(begin.di, n)' = Offset(begin.di, m + 1) BY <1>1, <1>2 DEF Offset
    <3>2. QED BY <1>1, <1>2, <2>5, <2>9, <2>10, <3>1 DEF Shape
  <2>12. PortsTold' BY <1>1, <1>2 DEF PortsTold
  <2>13. QED BY <2>9, <2>11, <2>12 DEF Blocks, BlocksMove
<1>4. CASE width # 1
  <2>1. mem' = mem /\ ports' = ports BY <1>4 DEF Ins
  <2>2. ~Stores BY <1>1, <1>4 DEF Stores
  <2>3. QED BY <1>1, <1>4, <2>1, <2>2, NothingStored
<1>5. QED BY <1>3, <1>4

\* A function on 1 .. w is a sequence.
LEMMA Sequenced ==
  ASSUME NEW S, NEW w \in Nat, NEW f, f = [t \in 1 .. w |-> f[t]], \A t \in 1 .. w : f[t] \in S
  PROVE  f \in Seq(S) /\ Len(f) = w
<1>1. f \in [1 .. w -> S] OBVIOUS
<1>2. f \in Seq(S) BY <1>1, SeqDef
<1>3. DOMAIN f = 1 .. w OBVIOUS
<1>4. QED BY <1>2, <1>3, LenProperties

\* Byte i of elements of w bytes is in element (i - 1) \div w.
LEMMA ElementOf ==
  ASSUME NEW w \in Nat \ {0}, NEW m \in Nat, NEW t \in 1 .. w, NEW i \in Int, i = m * w + t
  PROVE  (i - 1) \div w = m /\ (i - 1) % w = t - 1
<1>1. PICK a \in Int : a = i - 1 OBVIOUS
<1>2. PICK r \in 0 .. w - 1 : r = t - 1 OBVIOUS
<1>3. a = w * m + r
  <2>1. w * m = m * w OBVIOUS
  <2>2. PICK l \in Int : l = m * w OBVIOUS
  <2>3. QED BY <1>1, <1>2, <2>1, <2>2
<1>4. a % w = r /\ a \div w = m BY <1>3, ModIs
<1>5. QED BY <1>1, <1>2, <1>4

LEMMA OutsBlocks == ASSUME Inv, Blocks, Outs PROVE Blocks'
<1> PICK m \in Nat : m = n BY DEF Inv, Typed
<1>1. /\ pc = "run" /\ op = "outs" /\ UNCHANGED insn /\ n' = n + 1 /\ mem' = mem
      /\ ports' = ports \o BytesAt(mem, DS + si, width)
  BY DEF Outs, Running, Repeat
<1>2. op' = op /\ width' = width /\ down' = down /\ begin' = begin BY <1>1 DEF insn
<1>3. si = Offset(begin.si, n) BY <1>1 DEF Inv, EndsAsCoded
<1>4. ~Stores /\ ~Stores' BY <1>1, <1>2 DEF Stores
<1>5. BytesStored = {} /\ BytesStored' = {} BY <1>4 DEF BytesStored
<1>6. \A a \in Memory : mem[a] = begin.mem[a]
  BY <1>5 DEF Blocks, BlocksMove, RestStays
<1>7. RestStays' BY <1>1, <1>2, <1>5 DEF Blocks, BlocksMove, RestStays
<1>8. BlocksArrive' BY <1>4 DEF BlocksArrive
<1> DEFINE s == Source(m)
           old == ports
           more == BytesAt(mem, s, width)
<1>9. width \in {1, 2} /\ Len(old) = m * width /\ old \in Seq(0 .. ByteSize - 1)
  BY <1>1 DEF Blocks, Shape
<1>10. s \in Nat /\ Bytes(s) \subseteq Memory
  <2>1. Typed /\ begin.si \in Offsets BY DEF Inv, Typed
  <2>2. QED BY <2>1, BytesIn DEF Source
<1>11. ports' = old \o more BY <1>1, <1>3 DEF Source
<1>12. /\ DOMAIN more = 1 .. width
       /\ \A t \in 1 .. width : more[t] = begin.mem[s + t - 1] /\ more[t] \in 0 .. ByteSize - 1
  <2>1. DOMAIN more = 1 .. width BY DEF BytesAt
  <2>2. ASSUME NEW t \in 1 .. width
        PROVE  more[t] = begin.mem[s + t - 1] /\ more[t] \in 0 .. ByteSize - 1
    <3>1. s + t - 1 \in Bytes(s) BY <1>9, <1>10 DEF Bytes
    <3>2. s + t - 1 \in Memory BY <1>10, <3>1
    <3>3. more[t] = mem[s + t - 1] BY DEF BytesAt
    <3>4. begin.mem \in Filled BY DEF Inv, Typed
    <3>5. QED BY <1>6, <3>2, <3>3, <3>4 DEF Filled
  <2>3. QED BY <2>1, <2>2
<1>13. more \in Seq(0 .. ByteSize - 1) /\ Len(more) = width
  <2>1. more = [t \in 1 .. width |-> more[t]] BY DEF BytesAt
  <2> HIDE DEF more
  <2>2. width \in Nat BY <1>9
  <2> DEFINE B == 0 .. ByteSize - 1
             w == width
  <2>3. \A t \in 1 .. w : more[t] \in B BY <1>12
  <2> HIDE DEF B
  <2>4. w \in Nat /\ more = [t \in 1 .. w |-> more[t]] BY <2>1, <2>2
  <2> HIDE DEF w
  <2>5. more \in Seq(B) /\ Len(more) = w BY <2>3, <2>4, Sequenced
  <2>6. QED BY <2>5 DEF B, w
<1> HIDE DEF more, old, s
<1>14. /\ ports' \in Seq(0 .. ByteSize - 1) /\ Len(ports') = m * width + width
       /\ \A i \in 1 .. m * width : ports'[i] = old[i]
       /\ \A t \in 1 .. width : ports'[m * width + t] = more[t]
  <2> DEFINE l == m * width
  <2>1. l \in Nat /\ width \in Nat BY <1>9
  <2>2. l = Len(old) BY <1>9
  <2> HIDE DEF l
  <2>3. QED BY <1>9, <1>11, <1>13, <2>1, <2>2 DEF l
<1>15. Shape'
  <2>1. n' * width = m * width + width BY <1>1, <1>9
  <2>2. QED BY <1>1, <1>2, <1>9, <1>14, <2>1 DEF Blocks, Shape
<1>16. PortsTold'
  <2>1. \A k : Source(k)' = Source(k) BY <1>2 DEF Source, Offset
  <2>2. SUFFICES ASSUME NEW i \in DOMAIN ports'
                 PROVE  ports'[i] = begin.mem[Source((i - 1) \div width) + ((i - 1) % width)]
    BY <1>2, <2>1 DEF PortsTold
  <2>3. i \in 1 .. m * width + width
    <3> DEFINE l == m * width + width
    <3>1. DOMAIN ports' = 1 .. l BY <1>14
    <3>2. QED BY <3>1
  <2>4. CASE i \in 1 .. m * width
    <3>1. i \in DOMAIN ports BY <1>9, <2>4 DEF old
    <3>2. QED BY <1>1, <1>14, <2>4, <3>1 DEF Blocks, BlocksMove, PortsTold, old
  <2>5. CASE i \notin 1 .. m * width
    <3> DEFINE t == i - m * width
    <3>1. i \in Int /\ m * width \in Nat BY <1>9, <2>3
    <3>2. t \in 1 .. width /\ i = m * width + t BY <1>9, <2>3, <2>5, <3>1
    <3>3. width \in Nat \ {0} BY <1>9
    <3> HIDE DEF t
    <3>4. (i - 1) \div width = m /\ (i - 1) % width = t - 1 BY <3>1, <3>2, <3>3, ElementOf
    <3>5. ports'[i] = begin.mem[s + t - 1] BY <1>12, <1>14, <3>2
    <3>6. s + t - 1 = s + (t - 1) BY <1>9, <1>10, <3>2
    <3>7. QED BY <3>4, <3>5, <3>6 DEF s
  <2>6. QED BY <2>4, <2>5
<1>17. QED BY <1>7, <1>8, <1>15, <1>16 DEF Blocks, BlocksMove

\* Loads and comparisons move nothing.
LEMMA OthersBlocks == ASSUME Inv, Blocks, Lods \/ Cmps \/ Scas PROVE Blocks'
<1>1. /\ op \in {"lods", "cmps", "scas"} /\ UNCHANGED insn /\ n' = n + 1
      /\ mem' = mem /\ ports' = ports
  BY DEF Lods, Cmps, Scas, Running, Repeat
<1>2. ~Stores BY <1>1 DEF Stores
<1>3. n' \in Nat BY <1>1 DEF Inv, Typed
<1>4. op # "outs" /\ op # "ins" BY <1>1
<1>5. QED BY <1>1, <1>2, <1>3, <1>4, NothingStored

LEMMA StutterBlocks == ASSUME Blocks, UNCHANGED vars PROVE Blocks'
<1>1. UNCHANGED <<op, width, rep, down, begin, mem, acc, di, n, ports>> BY DEF vars, insn
<1>2. /\ \A k : Target(k)' = Target(k)
      /\ \A k : Source(k)' = Source(k)
      /\ \A a : Bytes(a)' = Bytes(a)
  BY <1>1 DEF Target, Source, Offset, Bytes
<1>3. Stores' <=> Stores BY <1>1 DEF Stores
<1>4. Shape'
  <2>1. Offset(begin.di, n)' = Offset(begin.di, n) BY <1>1 DEF Offset
  <2>2. QED BY <1>1, <2>1 DEF Blocks, Shape
<1>5. RestStays'
  <2>1. BytesStored' = BytesStored BY <1>1, <1>2, <1>3 DEF BytesStored
  <2>2. QED BY <1>1, <2>1 DEF Blocks, BlocksMove, RestStays
<1>6. BlocksArrive'
  <2>1. \A k : Stored(k)' = Stored(k) BY <1>1, <1>2 DEF Stored, BytesAt, BytesOf
  <2>2. \A k : BytesAt(mem, Target(k), width)' = BytesAt(mem, Target(k), width)
    BY <1>1, <1>2 DEF BytesAt
  <2>3. \A k : Lasts(k)' <=> Lasts(k) BY <1>1, <1>2 DEF Lasts
  <2>4. InTime' <=> InTime BY <1>1, <1>2 DEF InTime
  <2>5. QED BY <1>1, <1>3, <2>1, <2>2, <2>3, <2>4 DEF Blocks, BlocksMove, BlocksArrive
<1>7. PortsTold' BY <1>1, <1>2 DEF Blocks, BlocksMove, PortsTold
<1>8. QED BY <1>4, <1>5, <1>6, <1>7 DEF Blocks, BlocksMove

LEMMA InitBlocks == ASSUME Init PROVE Blocks
<1>1. mem \in Contents /\ n = 0 /\ ports = <<>> /\ begin.mem = mem /\ begin.di = di
  BY DEF Init
<1>2. Inv BY InitInv
<1>3. mem = [a \in Memory |-> mem[a]] BY <1>1, StringsAssumption
<1>4. Offset(begin.di, n) = di
  <2>1. begin.di \in Offsets /\ width \in {1, 2, 4} /\ down \in BOOLEAN
    BY <1>2 DEF Inv, Typed
  <2>2. Offset(begin.di, 0) = begin.di BY <2>1, Positions
  <2>3. QED BY <1>1, <2>2
<1>5. op = "outs" => width \in {1, 2}
  <2>1. width \in {1, 2, 4} BY <1>2 DEF Inv, Typed
  <2>2. width = 4 => op # "outs" BY DEF Init, Decoded
  <2>3. QED BY <2>1, <2>2
<1>6. Len(ports) = n /\ Len(ports) = n * width /\ ports \in Seq(0 .. ByteSize - 1)
  <2>1. width \in Nat BY <1>2 DEF Inv, Typed
  <2>2. QED BY <1>1, <2>1
<1>7. Shape BY <1>3, <1>4, <1>5, <1>6 DEF Shape
<1>8. RestStays BY <1>1 DEF RestStays
<1>9. BlocksArrive
  <2>1. 0 .. n - 1 = {} BY <1>1
  <2>2. QED BY <2>1 DEF BlocksArrive
<1>10. PortsTold BY <1>1 DEF PortsTold
<1>11. QED BY <1>7, <1>8, <1>9, <1>10 DEF Blocks, BlocksMove

\* For every size of segments and bytes, every placement of the two segments
\* and every contents of the memory, a block that is read before it is
\* overwritten arrives, a fill fills and nothing else is touched (Op::Movsb -
\* Movsd, Stosb - Stosd, Insb, Outsb and Outsw, element by element).
THEOREM MovesBlocks == Spec => []BlocksMove
<1>1. Init => Inv /\ Blocks BY InitInv, InitBlocks
<1>2. Inv /\ Blocks /\ [Next]_vars => Blocks'
  BY MovsBlocks, StosBlocks, InsBlocks, OutsBlocks, OthersBlocks, StutterBlocks DEF Next
<1>3. Blocks => BlocksMove BY DEF Blocks
<1>4. QED BY <1>1, <1>2, <1>3, Invariance, PTL DEF Spec
=============================================================================
