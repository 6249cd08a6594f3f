------------------------- MODULE LongNumbersProofs --------------------------
(***************************************************************************)
(* Proofs about LongNumbers, for words of every size and numbers of every  *)
(* length that CX can count.                                               *)
(***************************************************************************)
EXTENDS LongNumbers, WellFoundedInduction, TLAPS

-----------------------------------------------------------------------------
(* Induction on sets of naturals.                                          *)

Before == OpToRel(<, Nat)

LEMMA BeforeIsLess == \A x, y \in Nat : <<x, y>> \in Before <=> x < y
BY DEF Before, OpToRel

LEMMA AllNaturals ==
  ASSUME NEW T \in SUBSET Nat, 0 \in T, \A k \in T : k + 1 \in T
  PROVE  T = Nat
<1> DEFINE Missing == Nat \ T
<1>1. SUFFICES ASSUME Missing # {} PROVE FALSE OBVIOUS
<1>2. PICK m \in Missing : \A k \in Missing : ~ (<<k, m>> \in Before)
  <2>1. IsWellFoundedOn(Before, Nat) BY NatLessThanWellFounded DEF Before
  <2>2. Missing \subseteq Nat OBVIOUS
  <2> HIDE DEF Missing
  <2>3. QED BY <1>1, <2>1, <2>2, WFMin
<1>3. m # 0 /\ m \in Nat BY <1>2
<1>4. m - 1 \in Nat BY <1>3
<1>5. m - 1 \in T
  <2>1. m - 1 < m BY <1>3
  <2>2. <<m - 1, m>> \in Before BY <1>3, <1>4, <2>1, BeforeIsLess
  <2>3. QED BY <1>2, <1>4, <2>2
<1>6. (m - 1) + 1 \in T BY <1>5
<1>7. QED BY <1>2, <1>3, <1>6

\* Two functions that go from each argument to the next alike agree.
LEMMA Agree ==
  ASSUME NEW k \in Nat, NEW f, NEW g, f[0] = g[0],
         \A j \in 0 .. k - 1 : f[j] = g[j] => f[j + 1] = g[j + 1]
  PROVE  \A j \in 0 .. k : f[j] = g[j]
<1> DEFINE T == {j \in Nat : j > k \/ f[j] = g[j]}
<1>1. 0 \in T OBVIOUS
<1>2. ASSUME NEW j \in T PROVE j + 1 \in T
  <2>1. j \in Nat /\ (j > k \/ f[j] = g[j]) BY <1>2
  <2>2. CASE j >= k BY <2>1, <2>2
  <2>3. CASE j < k
    <3>1. j \in 0 .. k - 1 BY <2>1, <2>3
    <3>2. f[j + 1] = g[j + 1] BY <2>1, <2>3, <3>1
    <3>3. QED BY <2>1, <3>2
  <2>4. QED BY <2>1, <2>2, <2>3
<1>3. T \in SUBSET Nat OBVIOUS
<1> HIDE DEF T
<1>4. T = Nat BY <1>1, <1>2, <1>3, AllNaturals
<1>5. \A j \in Nat : j > k \/ f[j] = g[j] BY <1>4 DEF T
<1>6. QED BY <1>5
-----------------------------------------------------------------------------
(* Weights and numbers.                                                    *)

LEMMA Sizes ==
  /\ Half \in Nat \ {0} /\ WordSize \in Nat \ {0} /\ WordSize = 2 * Half
  /\ HostWords \in Nat \ {0} /\ Host = WordSize * HostWords
BY WordsAssumption DEF WordSize, Host

\* There are weights of k + 1 words, and no two choices of them differ.
LEMMA WeightsExist ==
  ASSUME NEW k \in Nat
  PROVE  \E w : w = [j \in 0..k |-> IF j = 0 THEN 1 ELSE WordSize * w[j - 1]]
<1> DEFINE Fits(w, l) == w = [j \in 0..l |-> IF j = 0 THEN 1 ELSE WordSize * w[j - 1]]
           T == {l \in Nat : \E w : Fits(w, l)}
<1>1. 0 \in T
  <2>1. Fits([j \in 0..0 |-> 1], 0) OBVIOUS
  <2>2. QED BY <2>1
<1>2. ASSUME NEW l \in T PROVE l + 1 \in T
  <2>1. PICK w : Fits(w, l) BY <1>2
  <2>2. l \in Nat BY <1>2
  <2> DEFINE v == [j \in 0..(l + 1) |-> IF j = l + 1 THEN WordSize * w[l] ELSE w[j]]
  <2>3. ASSUME NEW j \in 0..(l + 1)
        PROVE  v[j] = IF j = 0 THEN 1 ELSE WordSize * v[j - 1]
    <3>1. CASE j = l + 1
      <4>1. j # 0 /\ j - 1 = l /\ l \in 0..(l + 1) /\ l # l + 1 BY <2>2, <3>1
      <4>2. v[l] = w[l] BY <4>1
      <4>3. v[j] = WordSize * w[l] BY <3>1
      <4>4. QED BY <4>1, <4>2, <4>3
    <3>2. CASE j # l + 1
      <4>1. j \in 0..l BY <2>2, <3>2
      <4>2. v[j] = w[j] BY <3>2
      <4>3. w[j] = IF j = 0 THEN 1 ELSE WordSize * w[j - 1] BY <2>1, <4>1
      <4>4. j # 0 => v[j - 1] = w[j - 1]
        <5>1. j # 0 => j - 1 \in 0..(l + 1) /\ j - 1 # l + 1 BY <2>2, <4>1
        <5>2. QED BY <5>1
      <4>5. QED BY <4>2, <4>3, <4>4
    <3>3. QED BY <3>1, <3>2
  <2>4. Fits(v, l + 1)
    <3>1. v = [j \in 0..(l + 1) |-> v[j]] OBVIOUS
    <3> HIDE DEF v
    <3>2. QED BY <2>3, <3>1
  <2>5. l + 1 \in Nat BY <2>2
  <2> HIDE DEF v, Fits
  <2>6. QED BY <2>4, <2>5
<1>3. T \in SUBSET Nat OBVIOUS
<1> HIDE DEF T
<1>4. T = Nat BY <1>1, <1>2, <1>3, AllNaturals
<1>5. QED BY <1>4 DEF T

\* The weights of one word more begin with those of one less.
LEMMA WeightSteps ==
  ASSUME NEW k \in Nat
  PROVE  Weight(0) = 1 /\ Weight(k + 1) = WordSize * Weight(k)
<1> DEFINE C(l) == CHOOSE w : w = [j \in 0..l |-> IF j = 0 THEN 1 ELSE WordSize * w[j - 1]]
<1>1. ASSUME NEW l \in Nat
      PROVE  C(l) = [j \in 0..l |-> IF j = 0 THEN 1 ELSE WordSize * C(l)[j - 1]]
  <2>1. \E w : w = [j \in 0..l |-> IF j = 0 THEN 1 ELSE WordSize * w[j - 1]] BY WeightsExist
  <2>2. QED BY <2>1
<1>2. \A l : Weight(l) = C(l)[l] BY DEF Weight
<1> HIDE DEF C
<1> DEFINE l == k + 1
<1>3. l \in Nat /\ l # 0 /\ l - 1 = k /\ k \in 0..k /\ k \in 0..l /\ 0 \in 0..k /\ 0 \in 0..l
      /\ l \in 0..l
  OBVIOUS
<1> HIDE DEF l
<1>4. C(k)[0] = 1 /\ C(l)[0] = 1 BY <1>1, <1>3
<1>5. ASSUME NEW j \in 0..(k - 1), C(k)[j] = C(l)[j] PROVE C(k)[j + 1] = C(l)[j + 1]
  <2>1. j + 1 \in 0..k /\ j + 1 \in 0..l /\ j + 1 # 0 /\ (j + 1) - 1 = j BY <1>3
  <2>2. C(k)[j + 1] = WordSize * C(k)[j] BY <1>1, <2>1
  <2>3. C(l)[j + 1] = WordSize * C(l)[j] BY <1>1, <1>3, <2>1
  <2>4. QED BY <1>5, <2>2, <2>3
<1>6. C(k)[k] = C(l)[k]
  <2> DEFINE f == C(k)
             g == C(l)
  <2>1. f[0] = g[0] /\ \A j \in 0..(k - 1) : f[j] = g[j] => f[j + 1] = g[j + 1]
    BY <1>4, <1>5
  <2> HIDE DEF f, g
  <2>2. \A j \in 0..k : f[j] = g[j] BY <2>1, Agree
  <2>3. f[k] = g[k] BY <1>3, <2>2
  <2>4. QED BY <2>3 DEF f, g
<1>7. C(l)[l] = WordSize * C(l)[k] BY <1>1, <1>3
<1>8. Weight(l) = WordSize * Weight(k) BY <1>2, <1>6, <1>7
<1>9. Weight(0) = 1
  <2>1. 0 \in Nat /\ 0 \in 0..0 OBVIOUS
  <2>2. C(0)[0] = 1 BY <1>1, <2>1
  <2>3. QED BY <1>2, <2>2
<1>10. QED BY <1>8, <1>9 DEF l

LEMMA WeightIn ==
  ASSUME NEW k \in Nat
  PROVE  Weight(k) \in Nat \ {0}
<1> DEFINE T == {l \in Nat : Weight(l) \in Nat \ {0}}
<1>1. 0 \in T
  <2>1. Weight(0) = 1 BY WeightSteps
  <2>2. QED BY <2>1
<1>2. ASSUME NEW l \in T PROVE l + 1 \in T
  <2>1. Weight(l) \in Nat \ {0} /\ l \in Nat BY <1>2
  <2>2. Weight(l + 1) = WordSize * Weight(l) BY <2>1, WeightSteps
  <2>3. Weight(l + 1) \in Nat \ {0}
    <3> DEFINE x == Weight(l)
    <3>1. x \in Nat \ {0} /\ WordSize \in Nat \ {0} BY <2>1, Sizes
    <3>2. WordSize * x \in Nat \ {0}
      <4> HIDE DEF x
      <4>1. QED BY <3>1
    <3>3. QED BY <2>2, <3>2
  <2>4. QED BY <2>1, <2>3
<1>3. T \in SUBSET Nat OBVIOUS
<1> HIDE DEF T
<1>4. T = Nat BY <1>1, <1>2, <1>3, AllNaturals
<1>5. QED BY <1>4 DEF T

LEMMA SumsExist ==
  ASSUME NEW p, NEW k \in Nat
  PROVE  \E s : s = [j \in 0..k |-> IF j = 0 THEN 0 ELSE s[j - 1] + Weight(j - 1) * p[j - 1]]
<1> DEFINE Fits(s, l) ==
      s = [j \in 0..l |-> IF j = 0 THEN 0 ELSE s[j - 1] + Weight(j - 1) * p[j - 1]]
           T == {l \in Nat : \E s : Fits(s, l)}
<1>1. 0 \in T
  <2>1. Fits([j \in 0..0 |-> 0], 0) OBVIOUS
  <2>2. QED BY <2>1
<1>2. ASSUME NEW l \in T PROVE l + 1 \in T
  <2>1. PICK s : Fits(s, l) BY <1>2
  <2>2. l \in Nat BY <1>2
  <2> DEFINE v == [j \in 0..(l + 1) |-> IF j = l + 1 THEN s[l] + Weight(l) * p[l] ELSE s[j]]
  <2>3. ASSUME NEW j \in 0..(l + 1)
        PROVE  v[j] = IF j = 0 THEN 0 ELSE v[j - 1] + Weight(j - 1) * p[j - 1]
    <3>1. CASE j = l + 1
      <4>1. j # 0 /\ j - 1 = l /\ l \in 0..(l + 1) /\ l # l + 1 BY <2>2, <3>1
      <4>2. v[l] = s[l] BY <4>1
      <4>3. v[j] = s[l] + Weight(l) * p[l] BY <3>1
      <4>4. QED BY <4>1, <4>2, <4>3
    <3>2. CASE j # l + 1
      <4>1. j \in 0..l BY <2>2, <3>2
      <4>2. v[j] = s[j] BY <3>2
      <4>3. s[j] = IF j = 0 THEN 0 ELSE s[j - 1] + Weight(j - 1) * p[j - 1] BY <2>1, <4>1
      <4>4. j # 0 => v[j - 1] = s[j - 1]
        <5>1. j # 0 => j - 1 \in 0..(l + 1) /\ j - 1 # l + 1 BY <2>2, <4>1
        <5>2. QED BY <5>1
      <4>5. QED BY <4>2, <4>3, <4>4
    <3>3. QED BY <3>1, <3>2
  <2>4. Fits(v, l + 1)
    <3>1. v = [j \in 0..(l + 1) |-> v[j]] OBVIOUS
    <3> HIDE DEF v
    <3>2. QED BY <2>3, <3>1
  <2>5. l + 1 \in Nat BY <2>2
  <2> HIDE DEF v, Fits
  <2>6. QED BY <2>4, <2>5
<1>3. T \in SUBSET Nat OBVIOUS
<1> HIDE DEF T
<1>4. T = Nat BY <1>1, <1>2, <1>3, AllNaturals
<1>5. QED BY <1>4 DEF T

\* A number of one word more has that word at its weight.
LEMMA NumSteps ==
  ASSUME NEW p, NEW k \in Nat
  PROVE  Num(p, 0) = 0 /\ Num(p, k + 1) = Num(p, k) + Weight(k) * p[k]
<1> DEFINE C(l) == CHOOSE s :
      s = [j \in 0..l |-> IF j = 0 THEN 0 ELSE s[j - 1] + Weight(j - 1) * p[j - 1]]
<1>1. ASSUME NEW l \in Nat
      PROVE  C(l) = [j \in 0..l |-> IF j = 0 THEN 0
                                    ELSE C(l)[j - 1] + Weight(j - 1) * p[j - 1]]
  <2>1. \E s : s = [j \in 0..l |-> IF j = 0 THEN 0 ELSE s[j - 1] + Weight(j - 1) * p[j - 1]]
    BY SumsExist
  <2>2. QED BY <2>1
<1>2. \A l : Num(p, l) = C(l)[l] BY DEF Num
<1> HIDE DEF C
<1> DEFINE l == k + 1
<1>3. l \in Nat /\ l # 0 /\ l - 1 = k /\ k \in 0..k /\ k \in 0..l /\ 0 \in 0..k /\ 0 \in 0..l
      /\ l \in 0..l
  OBVIOUS
<1> HIDE DEF l
<1>4. C(k)[0] = 0 /\ C(l)[0] = 0 BY <1>1, <1>3
<1>5. ASSUME NEW j \in 0..(k - 1), C(k)[j] = C(l)[j] PROVE C(k)[j + 1] = C(l)[j + 1]
  <2>1. j + 1 \in 0..k /\ j + 1 \in 0..l /\ j + 1 # 0 /\ (j + 1) - 1 = j BY <1>3
  <2>2. C(k)[j + 1] = C(k)[j] + Weight(j) * p[j] BY <1>1, <2>1
  <2>3. C(l)[j + 1] = C(l)[j] + Weight(j) * p[j] BY <1>1, <1>3, <2>1
  <2>4. QED BY <1>5, <2>2, <2>3
<1>6. C(k)[k] = C(l)[k]
  <2> DEFINE f == C(k)
             g == C(l)
  <2>1. f[0] = g[0] /\ \A j \in 0..(k - 1) : f[j] = g[j] => f[j + 1] = g[j + 1]
    BY <1>4, <1>5
  <2> HIDE DEF f, g
  <2>2. \A j \in 0..k : f[j] = g[j] BY <2>1, Agree
  <2>3. f[k] = g[k] BY <1>3, <2>2
  <2>4. QED BY <2>3 DEF f, g
<1>7. C(l)[l] = C(l)[k] + Weight(k) * p[k] BY <1>1, <1>3
<1>8. Num(p, l) = Num(p, k) + Weight(k) * p[k] BY <1>2, <1>6, <1>7
<1>9. Num(p, 0) = 0
  <2>1. 0 \in Nat /\ 0 \in 0..0 OBVIOUS
  <2>2. C(0)[0] = 0 BY <1>1, <2>1
  <2>3. QED BY <1>2, <2>2
<1>10. QED BY <1>8, <1>9 DEF l

\* A number of k words is below the weight of the next.
LEMMA NumIn ==
  ASSUME NEW p, NEW m \in Nat, \A j \in 0..(m - 1) : p[j] \in Words
  PROVE  \A k \in 0..m : Num(p, k) \in 0..(Weight(k) - 1)
<1> DEFINE T == {k \in Nat : k > m \/ Num(p, k) \in 0..(Weight(k) - 1)}
<1>1. 0 \in T
  <2>1. Num(p, 0) = 0 /\ Weight(0) = 1 BY NumSteps, WeightSteps
  <2>2. QED BY <2>1
<1>2. ASSUME NEW k \in T PROVE k + 1 \in T
  <2>1. k \in Nat /\ (k > m \/ Num(p, k) \in 0..(Weight(k) - 1)) BY <1>2
  <2>2. CASE k >= m BY <2>1, <2>2
  <2>3. CASE k < m
    <3> DEFINE x == Num(p, k)
               y == Weight(k)
               d == p[k]
    <3>1. x \in 0..(y - 1) /\ y \in Nat \ {0} BY <2>1, <2>3, WeightIn
    <3>2. d \in 0..(WordSize - 1) /\ WordSize \in Nat BY <2>1, <2>3, Sizes DEF Words
    <3>3. Num(p, k + 1) = x + y * d BY <2>1, NumSteps
    <3>4. Weight(k + 1) = WordSize * y BY <2>1, WeightSteps
    <3>5. x + y * d \in 0..(WordSize * y - 1)
      <4> HIDE DEF x, y, d
      <4>1. y * d \in Nat /\ y * d <= y * (WordSize - 1) BY <3>1, <3>2
      <4>2. y * (WordSize - 1) = WordSize * y - y BY <3>1, <3>2
      <4>3. PICK u \in Nat, v \in Int : u = y * d /\ v = WordSize * y BY <3>1, <3>2, <4>1
      <4>4. u <= v - y BY <4>1, <4>2, <4>3
      <4>5. x + u \in 0..(v - 1) BY <3>1, <4>4
      <4>6. QED BY <4>3, <4>5
    <3>6. QED BY <2>1, <3>3, <3>4, <3>5
  <2>4. QED BY <2>1, <2>2, <2>3
<1>3. T \in SUBSET Nat OBVIOUS
<1> HIDE DEF T
<1>4. T = Nat BY <1>1, <1>2, <1>3, AllNaturals
<1>5. \A k \in Nat : k > m \/ Num(p, k) \in 0..(Weight(k) - 1) BY <1>4 DEF T
<1>6. QED BY <1>5

\* Numbers of the same words are the same.
LEMMA NumSame ==
  ASSUME NEW p, NEW q, NEW m \in Nat, \A j \in 0..(m - 1) : p[j] = q[j]
  PROVE  Num(p, m) = Num(q, m)
<1> DEFINE T == {k \in Nat : k > m \/ Num(p, k) = Num(q, k)}
<1>1. 0 \in T
  <2>1. Num(p, 0) = 0 /\ Num(q, 0) = 0 BY NumSteps
  <2>2. QED BY <2>1
<1>2. ASSUME NEW k \in T PROVE k + 1 \in T
  <2>1. k \in Nat /\ (k > m \/ Num(p, k) = Num(q, k)) BY <1>2
  <2>2. CASE k >= m BY <2>1, <2>2
  <2>3. CASE k < m
    <3>1. p[k] = q[k] BY <2>1, <2>3
    <3>2. Num(p, k + 1) = Num(q, k + 1) BY <2>1, <2>3, <3>1, NumSteps
    <3>3. QED BY <2>1, <3>2
  <2>4. QED BY <2>1, <2>2, <2>3
<1>3. T \in SUBSET Nat OBVIOUS
<1> HIDE DEF T
<1>4. T = Nat BY <1>1, <1>2, <1>3, AllNaturals
<1>5. \A k \in Nat : k > m \/ Num(p, k) = Num(q, k) BY <1>4 DEF T
<1>6. QED BY <1>5
-----------------------------------------------------------------------------
(* Division with remainder.                                                *)

LEMMA Divided ==
  ASSUME NEW m \in Nat \ {0}, NEW x \in Int
  PROVE  x % m \in 0 .. m - 1 /\ x \div m \in Int /\ x = m * (x \div m) + (x % m)
<1>1. x \div m \in Int /\ x % m \in 0 .. m - 1 OBVIOUS
<1>2. x = m * (x \div m) + (x % m) BY Z3
<1>3. QED BY <1>1, <1>2

LEMMA Unique ==
  ASSUME NEW m \in Nat \ {0}, NEW q \in Int, NEW p \in Int,
         NEW r \in 0 .. m - 1, NEW s \in 0 .. m - 1, m * q + r = m * p + s
  PROVE  r = s /\ q = p
<1>1. CASE q = p BY <1>1
<1>2. CASE q >= p + 1
  <2>1. m * q >= m * (p + 1) BY <1>2
  <2>2. m * (p + 1) = m * p + m OBVIOUS
  <2>3. QED BY <2>1, <2>2
<1>3. CASE p >= q + 1
  <2>1. m * p >= m * (q + 1) BY <1>3
  <2>2. m * (q + 1) = m * q + m OBVIOUS
  <2>3. QED BY <2>1, <2>2
<1>4. QED BY <1>1, <1>2, <1>3

\* The quotient and the remainder are recognised by what they add up to.
LEMMA ModIs ==
  ASSUME NEW m \in Nat \ {0}, NEW x \in Int, NEW q \in Int, NEW r \in 0 .. m - 1, x = m * q + r
  PROVE  x % m = r /\ x \div m = q
<1> DEFINE p == x \div m
           s == x % m
<1>1. s \in 0 .. m - 1 /\ p \in Int /\ x = m * p + s BY Divided
<1> HIDE DEF p, s
<1>2. r = s /\ q = p BY <1>1, Unique
<1>3. QED BY <1>2 DEF p, s

\* A small number is its own remainder, and so is one above it less one turn.
LEMMA SmallMod ==
  ASSUME NEW m \in Nat \ {0}, NEW r \in 0 .. m - 1
  PROVE  r % m = r /\ r \div m = 0 /\ (r - m) % m = r /\ (r - m) \div m = -1
         /\ (r + m) % m = r /\ (r + m) \div m = 1
<1>1. r = m * 0 + r /\ r - m = m * (-1) + r /\ r + m = m * 1 + r OBVIOUS
<1>2. r % m = r /\ r \div m = 0 BY <1>1, ModIs
<1>3. (r - m) % m = r /\ (r - m) \div m = -1 BY <1>1, ModIs
<1>4. (r + m) % m = r /\ (r + m) \div m = 1 BY <1>1, ModIs
<1>5. QED BY <1>2, <1>3, <1>4

\* Whole turns change nothing.
LEMMA Turns ==
  ASSUME NEW m \in Nat \ {0}, NEW x \in Int, NEW k \in Int
  PROVE  (x + m * k) % m = x % m
<1> DEFINE q == x \div m
           r == x % m
<1>1. x = m * q + r /\ q \in Int /\ r \in 0..(m - 1) BY Divided
<1> HIDE DEF q, r
<1>2. x + m * k = m * (q + k) + r
  <2>1. m * (q + k) = m * q + m * k BY <1>1
  <2>2. PICK u \in Int, v \in Int : u = m * q /\ v = m * k BY <1>1
  <2>3. r \in Int BY <1>1
  <2>4. QED BY <1>1, <2>1, <2>2, <2>3
<1>3. q + k \in Int /\ x + m * k \in Int BY <1>1
<1>4. (x + m * k) % m = r BY <1>1, <1>2, <1>3, ModIs
<1>5. QED BY <1>4 DEF r
-----------------------------------------------------------------------------
(* Words in native integers.                                               *)

LEMMA HostMod ==
  ASSUME NEW x \in Int
  PROVE  (x % Host) % WordSize = x % WordSize /\ x % Host \in 0..(Host - 1)
<1>1. Host \in Nat \ {0} /\ WordSize \in Nat \ {0} /\ HostWords \in Nat BY Sizes
<1> DEFINE r == x % Host
           q == x \div Host
<1>2. r \in 0..(Host - 1) /\ q \in Int /\ x = Host * q + r BY <1>1, Divided
<1> HIDE DEF r, q
<1>3. Host * q = WordSize * (HostWords * q) BY <1>1, <1>2, Sizes
<1>4. PICK k \in Int : k = HostWords * q BY <1>1, <1>2
<1>5. r \in Int /\ x = r + WordSize * k
  <2>1. r \in Int BY <1>1, <1>2
  <2>2. PICK u \in Int : u = WordSize * k BY <1>1
  <2>3. QED BY <1>2, <1>3, <1>4, <2>1, <2>2
<1>6. x % WordSize = r % WordSize BY <1>1, <1>5, Turns
<1>7. QED BY <1>2, <1>6 DEF r

\* A source is the word it was read as, up to whole words above it.
LEMMA SourceIs ==
  ASSUME NEW v \in Words, short \in BOOLEAN
  PROVE  /\ \E k \in Int : Source(v) = v + WordSize * k
         /\ Source(v) \in 0..(Host - 1)
         /\ ~short \/ ~Negative(v) => Source(v) = v
         /\ Source(v) % WordSize = v
<1>1. /\ Half \in Nat \ {0} /\ WordSize \in Nat \ {0} /\ WordSize = 2 * Half
      /\ HostWords \in Nat \ {0} /\ Host = WordSize * HostWords
  BY Sizes
<1>2. v \in 0..(WordSize - 1) BY DEF Words
<1>3. Host - WordSize = WordSize * (HostWords - 1) BY <1>1
<1>4. PICK l \in Nat : l = WordSize * (HostWords - 1) BY <1>1
<1>5. Host = WordSize + l BY <1>1, <1>3, <1>4
<1>6. Source(v) = v \/ Source(v) = v + l BY <1>1, <1>3, <1>4 DEF Source
<1>7. ~short \/ ~Negative(v) => Source(v) = v BY <1>1, <1>2 DEF Source, Negative
<1>8. Source(v) \in 0..(Host - 1) BY <1>1, <1>2, <1>5, <1>6
<1>9. PICK k \in Int : Source(v) = v + WordSize * k
  <2>1. CASE Source(v) = v
    <3>1. v = v + WordSize * 0 BY <1>1, <1>2
    <3>2. QED BY <2>1, <3>1
  <2>2. CASE Source(v) = v + l
    <3>1. HostWords - 1 \in Int BY <1>1
    <3>2. QED BY <1>4, <2>2, <3>1
  <2>3. QED BY <1>6, <2>1, <2>2
<1>10. Source(v) % WordSize = v
  <2>1. v \in Int BY <1>1, <1>2
  <2>2. (v + WordSize * k) % WordSize = v % WordSize BY <1>1, <2>1, Turns
  <2>3. v % WordSize = v BY <1>1, <1>2, SmallMod
  <2>4. QED BY <1>9, <2>2, <2>3
<1>11. QED BY <1>7, <1>8, <1>9, <1>10

\* The carry bit of a sum of two words and a carry, and of a difference.
LEMMA CarriesOf ==
  ASSUME NEW x \in Int, 0 - WordSize <= x, x < 2 * WordSize
  PROVE  /\ CarryOut(x % Host) <=> (x >= WordSize \/ x < 0)
         /\ x >= 0 => (CarryOut(x) <=> x >= WordSize)
<1>1. /\ WordSize \in Nat \ {0} /\ HostWords \in Nat \ {0} /\ HostWords % 2 = 0
      /\ Host = WordSize * HostWords /\ Host \in Nat \ {0}
  BY Sizes, WordsAssumption
<1>2. HostWords >= 2 /\ (HostWords - 1) % 2 = 1 BY <1>1
<1>3. Host >= 2 * WordSize BY <1>1, <1>2
<1>4. CASE x >= 0
  <2>1. x \in 0..(Host - 1) BY <1>1, <1>3, <1>4
  <2>2. x % Host = x BY <1>1, <2>1, SmallMod
  <2>3. CASE x < WordSize
    <3>1. x \in 0..(WordSize - 1) BY <1>1, <1>4, <2>3
    <3>2. x \div WordSize = 0 BY <1>1, <3>1, SmallMod
    <3>3. (x \div WordSize) % 2 # 1 BY <3>2
    <3>4. ~CarryOut(x) /\ ~CarryOut(x % Host) BY <2>2, <3>3 DEF CarryOut
    <3>5. QED BY <1>1, <1>4, <2>3, <3>4
  <2>4. CASE x >= WordSize
    <3>1. PICK y \in 0..(WordSize - 1) : x = y + WordSize
      <4>1. x - WordSize \in 0..(WordSize - 1) /\ x = (x - WordSize) + WordSize
        BY <1>1, <2>4
      <4>2. QED BY <4>1
    <3>2. x \div WordSize = 1 BY <1>1, <3>1, SmallMod
    <3>3. (x \div WordSize) % 2 = 1 BY <3>2
    <3>4. CarryOut(x) /\ CarryOut(x % Host) BY <2>2, <3>3 DEF CarryOut
    <3>5. QED BY <1>1, <1>4, <2>4, <3>4
  <2>5. QED BY <1>1, <2>3, <2>4
<1>5. CASE x < 0
  <2>1. PICK z \in 0..(Host - 1) : z = x + Host /\ x = z - Host
    <3>1. x + Host \in 0..(Host - 1) /\ x = (x + Host) - Host BY <1>1, <1>3, <1>5
    <3>2. QED BY <3>1
  <2>2. x % Host = z BY <1>1, <2>1, SmallMod
  <2>3. PICK y \in 0..(WordSize - 1) : y = x + WordSize BY <1>1, <1>5
  <2>4. z = WordSize * (HostWords - 1) + y
    <3>1. WordSize * (HostWords - 1) = Host - WordSize BY <1>1
    <3>2. QED BY <1>1, <2>1, <2>3, <3>1
  <2>5. HostWords - 1 \in Int /\ z \in Int BY <1>1, <2>1
  <2>6. z \div WordSize = HostWords - 1 BY <1>1, <2>3, <2>4, <2>5, ModIs
  <2>7. CarryOut(x % Host) BY <1>2, <2>2, <2>6 DEF CarryOut
  <2>8. QED BY <1>5, <2>7
<1>6. QED BY <1>4, <1>5

LEMMA OneTurn ==
  ASSUME NEW y \in Int, 0 - WordSize <= y, y < 2 * WordSize
  PROVE  /\ y >= 0 => y = (y % WordSize) + WordSize * Bit(y >= WordSize)
         /\ y < WordSize => y = (y % WordSize) - WordSize * Bit(y < 0)
<1>1. WordSize \in Nat \ {0} BY Sizes
<1>2. CASE y < 0
  <2>1. PICK z \in 0..(WordSize - 1) : z = y + WordSize /\ y = z - WordSize
    <3>1. y + WordSize \in 0..(WordSize - 1) /\ y = (y + WordSize) - WordSize BY <1>1, <1>2
    <3>2. QED BY <3>1
  <2>2. y % WordSize = z BY <1>1, <2>1, SmallMod
  <2>3. Bit(y < 0) = 1 BY <1>2 DEF Bit
  <2>4. QED BY <1>1, <1>2, <2>1, <2>2, <2>3
<1>3. CASE y >= 0 /\ y < WordSize
  <2>1. y \in 0..(WordSize - 1) BY <1>1, <1>3
  <2>2. y % WordSize = y BY <1>1, <2>1, SmallMod
  <2>3. Bit(y < 0) = 0 /\ Bit(y >= WordSize) = 0 BY <1>1, <1>3 DEF Bit
  <2>4. QED BY <1>1, <2>2, <2>3
<1>4. CASE y >= WordSize
  <2>1. PICK z \in 0..(WordSize - 1) : y = z + WordSize
    <3>1. y - WordSize \in 0..(WordSize - 1) /\ y = (y - WordSize) + WordSize BY <1>1, <1>4
    <3>2. QED BY <3>1
  <2>2. y % WordSize = z BY <1>1, <2>1, SmallMod
  <2>3. Bit(y >= WordSize) = 1 BY <1>4 DEF Bit
  <2>4. QED BY <1>1, <1>4, <2>1, <2>2, <2>3
<1>5. QED BY <1>1, <1>2, <1>3, <1>4

LEMMA BitIn == \A c \in BOOLEAN : Bit(c) \in {0, 1}
BY DEF Bit
-----------------------------------------------------------------------------
(* One instruction on one word: the result is that of the numbers modulo    *)
(* the word, and the carry flag is the turn that was left out.              *)

LEMMA AddWord ==
  ASSUME NEW f, NEW dst \in Words, NEW v \in Words, short \in BOOLEAN
  PROVE  LET r == Add(f, dst, Source(v))
             y == dst + v
         IN  /\ r.flags.carry \in BOOLEAN
             /\ r.res % WordSize = y % WordSize
             /\ y = (y % WordSize) + WordSize * Bit(r.flags.carry)
<1> DEFINE r == Add(f, dst, Source(v))
           y == dst + v
<1>1. WordSize \in Nat \ {0} BY Sizes
<1>2. y \in Int /\ y >= 0 /\ y < 2 * WordSize /\ 0 - WordSize <= y BY <1>1 DEF Words
<1>3. r.res = y /\ r.flags.carry = CarryOut(y) BY SourceIs DEF Add, FlagsOf
<1> HIDE DEF y, r
<1>4. CarryOut(y) <=> y >= WordSize BY <1>2, CarriesOf
<1>5. CarryOut(y) \in BOOLEAN BY DEF CarryOut
<1>6. Bit(CarryOut(y)) = Bit(y >= WordSize) BY <1>4 DEF Bit
<1>7. y = (y % WordSize) + WordSize * Bit(y >= WordSize) BY <1>2, OneTurn
<1>8. /\ r.flags.carry \in BOOLEAN
      /\ r.res % WordSize = y % WordSize
      /\ y = (y % WordSize) + WordSize * Bit(r.flags.carry)
  BY <1>3, <1>5, <1>6, <1>7
<1>9. QED BY <1>8 DEF y, r

LEMMA AdcWord ==
  ASSUME NEW f, f.carry \in BOOLEAN, NEW dst \in Words, NEW v \in Words, short \in BOOLEAN
  PROVE  LET r == Adc(f, dst, Source(v))
             y == dst + v + Bit(f.carry)
         IN  /\ r.flags.carry \in BOOLEAN
             /\ r.res % WordSize = y % WordSize
             /\ Source(v) = v => y = (y % WordSize) + WordSize * Bit(r.flags.carry)
<1> DEFINE c == Bit(f.carry)
           src == Source(v)
           r == Adc(f, dst, src)
           x == dst + src + c
           y == dst + v + c
<1>1. WordSize \in Nat \ {0} /\ c \in {0, 1} BY Sizes, BitIn
<1>2. src \in Nat BY SourceIs
<1>3. r.res = x % Host /\ r.flags.carry = CarryOut(r.res) BY DEF Adc, FlagsOf
<1> HIDE DEF r, c
<1>4. y \in Int /\ y >= 0 /\ y < 2 * WordSize /\ 0 - WordSize <= y BY <1>1 DEF Words
<1>5. x \in Int BY <1>1, <1>2 DEF Words
<1>6. PICK k \in Int : src = v + WordSize * k BY SourceIs
<1>7. x = y + WordSize * k
  <2>1. PICK u \in Int : u = WordSize * k BY <1>1
  <2> HIDE DEF src
  <2>2. QED BY <1>1, <1>6, <2>1 DEF Words
<1> HIDE DEF x, y, src
<1>8. x % WordSize = y % WordSize BY <1>1, <1>4, <1>7, Turns
<1>9. r.res % WordSize = y % WordSize BY <1>3, <1>5, <1>8, HostMod
<1>10. r.flags.carry \in BOOLEAN BY <1>3 DEF CarryOut
<1>11. ASSUME src = v PROVE y = (y % WordSize) + WordSize * Bit(r.flags.carry)
  <2>1. x = y BY <1>11 DEF x, y
  <2>2. CarryOut(y % Host) <=> y >= WordSize BY <1>4, CarriesOf
  <2>3. Bit(r.flags.carry) = Bit(y >= WordSize) BY <1>3, <2>1, <2>2 DEF Bit
  <2>4. QED BY <1>4, <2>3, OneTurn
<1>12. QED BY <1>9, <1>10, <1>11 DEF r, y, c, src

LEMMA SubWord ==
  ASSUME NEW f, NEW dst \in Words, NEW v \in Words, short \in BOOLEAN
  PROVE  LET r == Sub(f, dst, Source(v))
             y == dst - v
         IN  /\ r.flags.carry \in BOOLEAN
             /\ r.res % WordSize = y % WordSize
             /\ Source(v) = v => y = (y % WordSize) - WordSize * Bit(r.flags.carry)
<1> DEFINE src == Source(v)
           r == Sub(f, dst, src)
           x == dst - src
           y == dst - v
<1>1. WordSize \in Nat \ {0} BY Sizes
<1>2. src \in Nat BY SourceIs
<1>3. r.res = x % Host /\ r.flags.carry = CarryOut(r.res) BY DEF Sub, FlagsOf
<1> HIDE DEF r
<1>4. y \in Int /\ y < WordSize /\ y < 2 * WordSize /\ 0 - WordSize <= y BY <1>1 DEF Words
<1>5. x \in Int BY <1>2 DEF Words
<1>6. PICK k \in Int : src = v + WordSize * k BY SourceIs
<1>7. -k \in Int /\ x = y + WordSize * (-k)
  <2>1. PICK u \in Int : u = WordSize * k BY <1>1
  <2>2. WordSize * (-k) = -u BY <1>1, <2>1
  <2> HIDE DEF src
  <2>3. QED BY <1>1, <1>6, <2>1, <2>2 DEF Words
<1> HIDE DEF x, y, src
<1>8. x % WordSize = y % WordSize BY <1>1, <1>4, <1>7, Turns
<1>9. r.res % WordSize = y % WordSize BY <1>3, <1>5, <1>8, HostMod
<1>10. r.flags.carry \in BOOLEAN BY <1>3 DEF CarryOut
<1>11. ASSUME src = v PROVE y = (y % WordSize) - WordSize * Bit(r.flags.carry)
  <2>1. x = y BY <1>11 DEF x, y
  <2>2. CarryOut(y % Host) <=> y < 0 BY <1>1, <1>4, CarriesOf
  <2>3. Bit(r.flags.carry) = Bit(y < 0) BY <1>3, <2>1, <2>2 DEF Bit
  <2>4. QED BY <1>4, <2>3, OneTurn
<1>12. QED BY <1>9, <1>10, <1>11 DEF r, y, src

LEMMA SbbWord ==
  ASSUME NEW f, f.carry \in BOOLEAN, NEW dst \in Words, NEW v \in Words, short \in BOOLEAN
  PROVE  LET r == Sbb(f, dst, Source(v))
             y == dst - v - Bit(f.carry)
         IN  /\ r.flags.carry \in BOOLEAN
             /\ r.res % WordSize = y % WordSize
             /\ Source(v) = v => y = (y % WordSize) - WordSize * Bit(r.flags.carry)
<1> DEFINE c == Bit(f.carry)
           src == Source(v)
           r == Sbb(f, dst, src)
           x == dst - (src + c)
           y == dst - v - c
<1>1. WordSize \in Nat \ {0} /\ c \in {0, 1} BY Sizes, BitIn
<1>2. src \in Nat BY SourceIs
<1>3. r.res = x % Host /\ r.flags.carry = CarryOut(r.res) BY DEF Sbb, FlagsOf
<1> HIDE DEF r, c
<1>4. y \in Int /\ y < WordSize /\ y < 2 * WordSize /\ 0 - WordSize <= y BY <1>1 DEF Words
<1>5. x \in Int BY <1>1, <1>2 DEF Words
<1>6. PICK k \in Int : src = v + WordSize * k BY SourceIs
<1>7. -k \in Int /\ x = y + WordSize * (-k)
  <2>1. PICK u \in Int : u = WordSize * k BY <1>1
  <2>2. WordSize * (-k) = -u BY <1>1, <2>1
  <2> HIDE DEF src
  <2>3. QED BY <1>1, <1>6, <2>1, <2>2 DEF Words
<1> HIDE DEF x, y, src
<1>8. x % WordSize = y % WordSize BY <1>1, <1>4, <1>7, Turns
<1>9. r.res % WordSize = y % WordSize BY <1>3, <1>5, <1>8, HostMod
<1>10. r.flags.carry \in BOOLEAN BY <1>3 DEF CarryOut
<1>11. ASSUME src = v PROVE y = (y % WordSize) - WordSize * Bit(r.flags.carry)
  <2>1. x = y BY <1>1, <1>11 DEF x, y, Words
  <2>2. CarryOut(y % Host) <=> y < 0 BY <1>1, <1>4, CarriesOf
  <2>3. Bit(r.flags.carry) = Bit(y < 0) BY <1>3, <2>1, <2>2 DEF Bit
  <2>4. QED BY <1>4, <2>3, OneTurn
<1>12. QED BY <1>9, <1>10, <1>11 DEF r, y, c, src

\* Carries add up: x is the number so far and s the carry out of it.
LEMMA Chain ==
  ASSUME NEW w \in Nat \ {0}, NEW m \in Nat \ {0}, NEW l \in 0..(w - 1), NEW s \in Int,
         NEW d \in 0..(m - 1), NEW e \in Int, NEW u \in Int, u + s = d + m * e
  PROVE  /\ (l + w * s) + w * u = (l + w * d) + (m * w) * e
         /\ l + w * d \in 0..(m * w - 1)
<1>1. w * u = w * d + (m * w) * e - w * s
  <2>1. u = d + m * e - s BY Z3
  <2>2. w * (d + m * e - s) = w * d + w * (m * e) - w * s BY Z3
  <2>3. w * (m * e) = (m * w) * e BY Z3
  <2>4. QED BY <2>1, <2>2, <2>3
<1>2. PICK p \in Int, q \in Int, t \in Int, o \in Int :
        p = w * u /\ q = w * d /\ t = (m * w) * e /\ o = w * s
  OBVIOUS
<1>3. w * d <= w * (m - 1) /\ w * (m - 1) = m * w - w /\ w * d >= 0 OBVIOUS
<1>4. PICK g \in Int : g = m * w OBVIOUS
<1>5. q <= g - w /\ q >= 0 BY <1>2, <1>3, <1>4
<1>6. (l + o) + p = (l + q) + t BY <1>1, <1>2
<1>7. l + q \in 0..(g - 1) BY <1>5
<1>8. QED BY <1>2, <1>4, <1>6, <1>7
-----------------------------------------------------------------------------
(* The loop.                                                               *)

\* How many words are done, and what they add up to.
Done == IF pc = "index" THEN i + 1 ELSE i
Total(k) ==
  IF kind \in Sums THEN Num(a0, k) + Num(b, k) + c0 ELSE Num(a0, k) - Num(b, k) - c0
Turn == IF kind \in Sums THEN Bit(flags.carry) ELSE 0 - Bit(flags.carry)

Typed ==
  /\ n \in Nat \ {0} /\ n < 65536
  /\ kind \in Sums \cup Differences
  /\ a \in [0..(n - 1) -> Words] /\ a0 \in [0..(n - 1) -> Words]
  /\ b \in [0..(n - 1) -> Words]
  /\ short \in BOOLEAN
  /\ short => n = 1
  /\ kind = "cmp" => n = 1
  /\ i \in Nat /\ cx \in Nat
  /\ flags.carry \in BOOLEAN
  /\ c0 \in {0, 1}
  /\ kind \notin {"adc", "sbb"} => c0 = 0

Placed ==
  /\ pc \in {"clc", "word", "index", "loop", "done", "panicked"}
  /\ pc = "clc" => i = 0
  /\ pc \in {"clc", "word", "index"} => i < n /\ cx = n - i
  /\ pc = "loop" => 1 <= i /\ i <= n /\ cx = n - i + 1
  /\ pc = "done" => i = n

\* The words that are done hold the result, and the carry flag the turn it
\* leaves out; the others are untouched.
Calculated ==
  pc # "panicked" =>
    /\ \A j \in Done..(n - 1) : a[j] = a0[j]
    /\ Done = 0 => c0 = 0
    /\ kind = "cmp" => a = a0
    /\ Done > 0 =>
         /\ kind # "cmp" => Num(a, Done) = Total(Done) % Weight(Done)
         /\ Plain \/ kind = "add" =>
              Total(Done) = (Total(Done) % Weight(Done)) + Weight(Done) * Turn

Inv == Typed /\ Placed /\ Calculated

LEMMA InitInv == ASSUME Init PROVE Inv
<1>1. /\ n \in 1..MaxWords /\ a \in [0..(n - 1) -> Words] /\ a0 = a
      /\ b \in [0..(n - 1) -> Words] /\ short \in BOOLEAN /\ (short => n = 1)
      /\ i = 0 /\ cx = n /\ c0 = 0 /\ pc \in {"clc", "word"}
  BY DEF Init
<1>2. n \in Nat \ {0} /\ n < 65536 BY <1>1, WordsAssumption
<1>3. kind \in Sums \cup Differences /\ (kind = "cmp" => n = 1)
  <2>1. CASE n = 1 BY <2>1 DEF Init
  <2>2. CASE n # 1 BY <2>2 DEF Init, Sums, Differences
  <2>3. QED BY <2>1, <2>2
<1>4. flags.carry \in BOOLEAN BY DEF Init, FlagSets
<1>5. Typed BY <1>1, <1>2, <1>3, <1>4 DEF Typed
<1>6. Placed BY <1>1, <1>2 DEF Placed
<1>7. Calculated BY <1>1 DEF Calculated, Done
<1>8. QED BY <1>5, <1>6, <1>7 DEF Inv

\* What an instruction leaves of a word, for all of them.
LEMMA WordTurn ==
  ASSUME Inv, NEW k \in 0..(n - 1), k = i
  PROVE  LET r == Do(Instruction, flags, a[k], Source(b[k]))
             u == IF kind \in Sums THEN a[k] + b[k] ELSE a[k] - b[k]
             c == IF Instruction \in {"adc", "sbb"} THEN Bit(flags.carry) ELSE 0
             s == IF kind \in Sums THEN c ELSE 0 - c
             t == IF kind \in Sums THEN Bit(r.flags.carry) ELSE 0 - Bit(r.flags.carry)
         IN  /\ r.flags.carry \in BOOLEAN
             /\ r.res % WordSize = (u + s) % WordSize
             /\ Instruction = "add" \/ Source(b[k]) = b[k] =>
                   u + s = ((u + s) % WordSize) + WordSize * t
<1> DEFINE src == Source(b[k])
           r == Do(Instruction, flags, a[k], src)
           u == IF kind \in Sums THEN a[k] + b[k] ELSE a[k] - b[k]
           c == IF Instruction \in {"adc", "sbb"} THEN Bit(flags.carry) ELSE 0
           s == IF kind \in Sums THEN c ELSE 0 - c
           t == IF kind \in Sums THEN Bit(r.flags.carry) ELSE 0 - Bit(r.flags.carry)
<1>1. a[k] \in Words /\ b[k] \in Words /\ short \in BOOLEAN /\ flags.carry \in BOOLEAN
  BY DEF Inv, Typed
<1>2. a[k] \in Int /\ b[k] \in Int /\ WordSize \in Int BY <1>1, Sizes DEF Words
<1>3. Bit(flags.carry) \in Int BY <1>1, BitIn
<1>4. CASE Instruction = "add"
  <2>1. r = Add(flags, a[k], src) BY <1>4 DEF Do
  <2>2. kind \in Sums BY <1>4 DEF Instruction, Sums
  <2>3. u + s = a[k] + b[k] BY <1>2, <1>4, <2>2
  <2>4. t = Bit(r.flags.carry) BY <2>2
  <2> HIDE DEF r, u, s, t
  <2>5. /\ r.flags.carry \in BOOLEAN
        /\ r.res % WordSize = (u + s) % WordSize
        /\ u + s = ((u + s) % WordSize) + WordSize * t
    BY <1>1, <2>1, <2>3, <2>4, AddWord
  <2>6. QED BY <2>5 DEF r, u, s, t, c
<1>5. CASE Instruction = "adc"
  <2>1. r = Adc(flags, a[k], src) BY <1>5 DEF Do
  <2>2. kind \in Sums BY <1>5 DEF Instruction, Sums
  <2>3. u + s = a[k] + b[k] + Bit(flags.carry) BY <1>2, <1>3, <1>5, <2>2
  <2>4. t = Bit(r.flags.carry) BY <2>2
  <2> HIDE DEF r, u, s, t
  <2>5. /\ r.flags.carry \in BOOLEAN
        /\ r.res % WordSize = (u + s) % WordSize
        /\ Source(b[k]) = b[k] => u + s = ((u + s) % WordSize) + WordSize * t
    BY <1>1, <2>1, <2>3, <2>4, AdcWord
  <2>6. QED BY <1>5, <2>5 DEF r, u, s, t, c
<1>6. CASE Instruction = "sbb"
  <2>1. r = Sbb(flags, a[k], src) BY <1>6 DEF Do
  <2>2. kind \notin Sums BY <1>6 DEF Instruction, Sums
  <2>3. u + s = a[k] - b[k] - Bit(flags.carry) BY <1>2, <1>3, <1>6, <2>2
  <2>4. t = 0 - Bit(r.flags.carry) BY <2>2
  <2> HIDE DEF r, u, s, t
  <2>5. /\ r.flags.carry \in BOOLEAN
        /\ r.res % WordSize = (u + s) % WordSize
        /\ Source(b[k]) = b[k] =>
             u + s = ((u + s) % WordSize) - WordSize * Bit(r.flags.carry)
    BY <1>1, <2>1, <2>3, SbbWord
  <2>7. Source(b[k]) = b[k] => u + s = ((u + s) % WordSize) + WordSize * t
    <3>1. PICK m \in Int : m = u + s BY <1>2, <1>3, <2>3
    <3>2. m % WordSize \in Int BY <3>1, Sizes, Divided
    <3>3. Bit(r.flags.carry) \in Int BY <2>5, BitIn
    <3>4. QED BY <1>2, <2>4, <2>5, <3>1, <3>2, <3>3
  <2>8. QED BY <1>6, <2>5, <2>7 DEF r, u, s, t, c
<1>7. CASE Instruction \in {"sub", "cmp"}
  <2>1. r = Sub(flags, a[k], src) BY <1>7 DEF Do
  <2>2. kind \notin Sums BY <1>7 DEF Instruction, Sums
  <2>3. u + s = a[k] - b[k] BY <1>2, <1>7, <2>2
  <2>4. t = 0 - Bit(r.flags.carry) BY <2>2
  <2> HIDE DEF r, u, s, t
  <2>5. /\ r.flags.carry \in BOOLEAN
        /\ r.res % WordSize = (u + s) % WordSize
        /\ Source(b[k]) = b[k] =>
             u + s = ((u + s) % WordSize) - WordSize * Bit(r.flags.carry)
    BY <1>1, <2>1, <2>3, SubWord
  <2>7. Source(b[k]) = b[k] => u + s = ((u + s) % WordSize) + WordSize * t
    <3>1. PICK m \in Int : m = u + s BY <1>2, <2>3
    <3>2. m % WordSize \in Int BY <3>1, Sizes, Divided
    <3>3. Bit(r.flags.carry) \in Int BY <2>5, BitIn
    <3>4. QED BY <1>2, <2>4, <2>5, <3>1, <3>2, <3>3
  <2>8. QED BY <1>7, <2>5, <2>7 DEF r, u, s, t, c
<1>8. Instruction \in {"add", "adc", "sbb", "sub", "cmp"}
  BY DEF Inv, Typed, Instruction, Sums, Differences
<1>9. QED BY <1>4, <1>5, <1>6, <1>7, <1>8

LEMMA NumsOf ==
  ASSUME Typed, NEW k \in 0..n
  PROVE  /\ Num(a0, k) \in 0..(Weight(k) - 1)
         /\ Num(b, k) \in 0..(Weight(k) - 1)
         /\ Weight(k) \in Nat \ {0}
         /\ Total(k) \in Int
<1>1. n \in Nat /\ k \in Nat /\ c0 \in {0, 1} BY DEF Typed
<1>2. (\A j \in 0..(n - 1) : a0[j] \in Words) /\ (\A j \in 0..(n - 1) : b[j] \in Words)
  BY DEF Typed
<1>3. Num(a0, k) \in 0..(Weight(k) - 1) /\ Num(b, k) \in 0..(Weight(k) - 1)
  BY <1>1, <1>2, NumIn
<1>4. Weight(k) \in Nat \ {0} BY <1>1, WeightIn
<1>5. Total(k) \in Int BY <1>1, <1>3, <1>4 DEF Total
<1>6. QED BY <1>3, <1>4, <1>5

LEMMA WordInv == ASSUME Inv, Word PROVE Inv'
<1> PICK k \in Nat : k = i BY DEF Inv, Typed
<1> DEFINE src == Source(b[i])
           panics == Instruction = "adc" /\ OverflowChecks /\ src + Bit(flags.carry) >= Host
           r == Do(Instruction, flags, a[i], src)
<1>1. pc = "word" /\ UNCHANGED <<kind, n, b, short, i, cx, lea, a0>> BY DEF Word
<1>2. k < n /\ cx = n - k /\ n \in Nat BY <1>1 DEF Inv, Typed, Placed
<1>3. CASE panics
  <2>1. pc' = "panicked" /\ UNCHANGED <<a, flags, c0>> BY <1>3 DEF Word
  <2>2. Typed' BY <1>1, <2>1 DEF Inv, Typed, Words
  <2>3. Placed' BY <2>1 DEF Placed
  <2>4. Calculated' BY <2>1 DEF Calculated
  <2>5. QED BY <2>2, <2>3, <2>4 DEF Inv
<1>4. CASE ~panics
  <2>1. /\ a' = IF Instruction = "cmp" THEN a ELSE [a EXCEPT ![i] = r.res % WordSize]
        /\ flags' = r.flags
        /\ c0' = IF i = 0 /\ kind \in {"adc", "sbb"} THEN Bit(flags.carry) ELSE c0
        /\ pc' = "index"
    BY <1>4 DEF Word
  <2> DEFINE v == b[k]
             u == IF kind \in Sums THEN a[k] + v ELSE a[k] - v
             c == IF Instruction \in {"adc", "sbb"} THEN Bit(flags.carry) ELSE 0
             s == IF kind \in Sums THEN c ELSE 0 - c
             t == IF kind \in Sums THEN Bit(r.flags.carry) ELSE 0 - Bit(r.flags.carry)
             d == (u + s) % WordSize
  <2>2. k \in 0..(n - 1) BY <1>2
  <2>3. /\ r.flags.carry \in BOOLEAN
        /\ r.res % WordSize = d
        /\ Instruction = "add" \/ Source(v) = v => u + s = d + WordSize * t
    BY <2>2, WordTurn
  <2>4. a[k] \in Words /\ v \in Words /\ a0[k] = a[k] /\ short \in BOOLEAN
    <3>1. \A j \in Done..(n - 1) : a[j] = a0[j] BY <1>1 DEF Inv, Calculated
    <3>2. k \in Done..(n - 1) BY <1>1, <2>2 DEF Done
    <3>3. QED BY <2>2, <3>1, <3>2 DEF Inv, Typed
  <2>5. u \in Int /\ s \in Int /\ WordSize \in Nat \ {0}
    <3>1. a[k] \in Int /\ v \in Int BY <2>4, Sizes DEF Words
    <3>2. Bit(flags.carry) \in Int BY BitIn DEF Inv, Typed
    <3>3. QED BY <3>1, <3>2, Sizes
  <2>6. t \in Int BY <2>3, BitIn
  <2>7. Turn' = t BY <1>1, <2>1 DEF Turn
  <2> HIDE DEF r, u, s, t, v
  <2>8. d \in 0..(WordSize - 1)
    <3>1. u + s \in Int BY <2>5
    <3>2. QED BY <2>5, <3>1, Divided
  <2> HIDE DEF d
  <2>9. Instruction # "cmp" => /\ a'[k] = d
                               /\ \A j \in 0..(n - 1) : j # k => a'[j] = a[j]
    BY <2>1, <2>2, <2>3 DEF Inv, Typed
  <2>10. Typed'
    <3>1. a' \in [0..(n - 1) -> Words]
      <4>1. a \in [0..(n - 1) -> Words] /\ d \in Words BY <2>8 DEF Inv, Typed, Words
      <4>2. QED BY <2>1, <2>3, <4>1
    <3>2. c0' \in {0, 1} /\ (kind \notin {"adc", "sbb"} => c0' = 0)
      BY <2>1, BitIn DEF Inv, Typed
    <3>3. flags'.carry \in BOOLEAN BY <2>1, <2>3
    <3>4. QED BY <1>1, <3>1, <3>2, <3>3 DEF Inv, Typed, Words
  <2>11. Placed' BY <1>1, <1>2, <2>1 DEF Placed
  <2>12. Done' = k + 1 BY <1>1, <2>1 DEF Done
  <2>13. kind = "cmp" => a' = a
    <3>1. kind = "cmp" => n = 1 BY DEF Inv, Typed
    <3>2. kind = "cmp" => k = 0 BY <1>2, <3>1
    <3>3. kind = "cmp" => Instruction = "cmp" BY <3>2 DEF Instruction
    <3>4. QED BY <2>1, <3>3
  <2>14. \A j \in (k + 1)..(n - 1) : a'[j] = a0[j]
    <3>1. \A j \in Done..(n - 1) : a[j] = a0[j] BY <1>1 DEF Inv, Calculated
    <3>2. \A j \in (k + 1)..(n - 1) : a[j] = a0[j] /\ j # k /\ j \in 0..(n - 1)
      BY <1>1, <3>1 DEF Done
    <3>3. QED BY <2>1, <2>9, <3>2
  <2>15. /\ Num(a0, k + 1) = Num(a0, k) + Weight(k) * a[k]
         /\ Num(b, k + 1) = Num(b, k) + Weight(k) * v
         /\ Num(a', k + 1) = Num(a', k) + Weight(k) * a'[k]
         /\ Weight(k + 1) = WordSize * Weight(k)
    BY <2>4, NumSteps, WeightSteps DEF v
  <2> DEFINE sum == Total(k + 1)'
             low == sum % Weight(k + 1)
  <2>16. /\ kind # "cmp" => Num(a', k + 1) = low
         /\ Plain \/ kind = "add" => sum = low + Weight(k + 1) * t
    <3>1. CASE k = 0
      <4>1. /\ Weight(k + 1) = WordSize /\ Num(a0, k + 1) = a[k] /\ Num(b, k + 1) = v
            /\ Num(a', k + 1) = a'[k]
        <5>1. Num(a0, 0) = 0 /\ Num(b, 0) = 0 /\ Num(a', 0) = 0 /\ Weight(0) = 1
          BY NumSteps, WeightSteps
        <5>2. a[k] \in Int /\ v \in Int BY <2>4, Sizes DEF Words
        <5>3. a'[k] \in Int BY <1>1, <2>2, <2>10, Sizes DEF Typed, Words
        <5>4. QED BY <2>5, <2>15, <3>1, <5>1, <5>2, <5>3
      <4>2. Instruction = kind BY <3>1 DEF Instruction
      <4>3. c0' = c
        <5>1. kind \notin {"adc", "sbb"} => c0 = 0 BY DEF Inv, Typed
        <5>2. QED BY <2>1, <3>1, <4>2, <5>1
      <4>4. sum = u + s
        <5>1. sum = IF kind \in Sums THEN Num(a0, k + 1) + Num(b, k + 1) + c0'
                    ELSE Num(a0, k + 1) - Num(b, k + 1) - c0'
          BY <1>1 DEF Total
        <5>2. a[k] \in Int /\ v \in Int /\ c0' \in Int
          BY <2>4, <2>10, Sizes DEF Words, Typed
        <5>3. QED BY <4>1, <4>3, <5>1, <5>2 DEF u, s
      <4>5. Plain \/ kind = "add" => Instruction = "add" \/ Source(v) = v
        <5>1. Plain => ~short \/ ~Negative(v) BY <3>1 DEF Plain, v
        <5>2. QED BY <2>4, <4>2, <5>1, SourceIs
      <4>6. kind # "cmp" => a'[k] = d BY <2>9, <4>2
      <4>7. low = d BY <4>1, <4>4 DEF d
      <4>8. QED BY <2>3, <4>1, <4>4, <4>5, <4>6, <4>7
    <3>2. CASE k > 0
      <4>1. n # 1 /\ ~short /\ kind # "cmp" BY <1>2, <3>2 DEF Inv, Typed
      <4>2. Plain /\ Source(v) = v BY <2>4, <4>1, SourceIs DEF Plain
      <4>3. c0' = c0 BY <2>1, <3>2
      <4>4. Instruction = IF kind \in Sums THEN "adc" ELSE "sbb" BY <3>2 DEF Instruction
      <4>5. s = Turn BY <4>4 DEF s, Turn
      <4>6. Done = k /\ pc # "panicked" BY <1>1 DEF Done
      <4>7. Num(a, k) = Total(k) % Weight(k) /\ Total(k) = (Total(k) % Weight(k)) + Weight(k) * s
        BY <3>2, <4>1, <4>2, <4>5, <4>6 DEF Inv, Calculated
      <4> DEFINE w == Weight(k)
                 x == Total(k)
                 l == x % w
      <4>8. w \in Nat \ {0} /\ x \in Int BY <1>2, NumsOf DEF Inv
      <4>9. l \in 0..(w - 1)
        <5> HIDE DEF w, x
        <5>1. QED BY <4>8, Divided
      <4>10. u + s = d + WordSize * t BY <2>3, <4>2
      <4> HIDE DEF l, w, x
      <4>11. /\ (l + w * s) + w * u = (l + w * d) + (WordSize * w) * t
             /\ l + w * d \in 0..(WordSize * w - 1)
        BY <2>5, <2>6, <2>8, <4>8, <4>9, <4>10, Chain
      <4>12. sum = x + w * u
        <5>1. sum = IF kind \in Sums THEN Num(a0, k + 1) + Num(b, k + 1) + c0
                    ELSE Num(a0, k + 1) - Num(b, k + 1) - c0
          BY <1>1, <4>3 DEF Total
        <5>2. PICK p \in Int, q \in Int : p = Num(a0, k) /\ q = Num(b, k)
          <6>1. Typed /\ k \in 0..n BY <1>2 DEF Inv
          <6>2. QED BY <6>1, NumsOf
        <5>3. PICK g \in Int, h \in Int : g = a[k] /\ h = v BY <2>4, Sizes DEF Words
        <5>4. c0 \in Int BY DEF Inv, Typed
        <5>5. x = IF kind \in Sums THEN p + q + c0 ELSE p - q - c0 BY <5>2 DEF x, Total
        <5>6. sum = IF kind \in Sums THEN (p + w * g) + (q + w * h) + c0
                    ELSE (p + w * g) - (q + w * h) - c0
          BY <2>15, <5>1, <5>2, <5>3 DEF w
        <5>7. u = IF kind \in Sums THEN g + h ELSE g - h BY <5>3 DEF u
        <5>8. w * (g + h) = w * g + w * h /\ w * (g - h) = w * g - w * h BY <4>8
        <5>9. PICK e \in Int, f \in Int : e = w * g /\ f = w * h BY <4>8
        <5>10. QED BY <5>4, <5>5, <5>6, <5>7, <5>8, <5>9
      <4>13. sum = (l + w * d) + (WordSize * w) * t BY <4>7, <4>11, <4>12 DEF l, w, x
      <4>14. Weight(k + 1) = WordSize * w BY <2>15 DEF w
      <4>15. low = l + w * d
        <5> DEFINE W2 == WordSize * w
                   z == l + w * d
        <5>1. W2 \in Nat \ {0} BY <2>5, <4>8
        <5>2. z \in 0..(W2 - 1) BY <4>11
        <5>3. sum = z + W2 * t BY <4>13
        <5> HIDE DEF W2, z, sum
        <5>4. z \in Int BY <5>1, <5>2
        <5>5. sum = W2 * t + z /\ sum \in Int
          <6>1. PICK e \in Int : e = W2 * t BY <2>6, <5>1
          <6>2. QED BY <5>3, <5>4, <6>1
        <5>6. sum % W2 = z BY <2>6, <5>1, <5>2, <5>5, ModIs
        <5>7. QED BY <4>14, <5>6 DEF W2, z
      <4>16. Num(a', k) = Num(a, k)
        <5>1. \A j \in 0..(k - 1) : a'[j] = a[j]
          <6>1. Instruction # "cmp" BY <4>4
          <6>2. \A j \in 0..(k - 1) : j \in 0..(n - 1) /\ j # k BY <1>2
          <6>3. QED BY <2>9, <6>1, <6>2
        <5>2. QED BY <5>1, NumSame
      <4>17. Num(a', k + 1) = l + w * d
        <5>1. Instruction # "cmp" BY <4>4
        <5>2. QED BY <2>9, <2>15, <4>7, <4>16, <5>1 DEF l, w, x
      <4>18. QED BY <4>13, <4>14, <4>15, <4>17
    <3>3. QED BY <3>1, <3>2
  <2>17. Calculated'
    <3>1. Plain' <=> Plain BY <1>1 DEF Plain, Negative
    <3>2. n' = n /\ a0' = a0 /\ kind' = kind BY <1>1
    <3>3. PICK m \in Nat : m = k + 1 OBVIOUS
    <3>4. Done' = m /\ m > 0 BY <2>12, <3>3
    <3>5. \A j \in Done'..(n' - 1) : a'[j] = a0'[j] BY <2>14, <3>2, <3>3, <3>4
    <3>6. /\ kind # "cmp" => Num(a', m) = Total(m)' % Weight(m)
          /\ Plain \/ kind = "add" => Total(m)' = (Total(m)' % Weight(m)) + Weight(m) * t
      BY <2>16, <3>3
    <3>7. Total(Done)' = Total(m)' /\ Weight(Done)' = Weight(m) /\ Num(a, Done)' = Num(a', m)
      BY <3>4 DEF Total
    <3>8. kind' = "cmp" => a' = a0'
      <4>1. kind = "cmp" => a = a0 BY <1>1 DEF Inv, Calculated
      <4>2. QED BY <2>13, <3>2, <4>1
    <3>9. QED BY <2>7, <3>1, <3>2, <3>4, <3>5, <3>6, <3>7, <3>8 DEF Calculated
  <2>18. QED BY <2>10, <2>11, <2>17 DEF Inv
<1>5. QED BY <1>3, <1>4

LEMMA OthersInv == ASSUME Inv, Clc \/ StepIndex \/ Loop \/ UNCHANGED vars PROVE Inv'
<1> PICK k \in Nat : k = Done
  <2>1. i \in Nat BY DEF Inv, Typed
  <2>2. QED BY <2>1 DEF Done
<1>0. flags.carry \in BOOLEAN /\ c0 \in {0, 1} /\ i \in Nat /\ cx \in Nat /\ n \in Nat /\ n < 65536
  BY DEF Inv, Typed
<1>1. UNCHANGED <<kind, n, a, b, short, a0, c0>>
  BY DEF Clc, StepIndex, Loop, vars
<1>2. (flags.carry)' \in BOOLEAN /\ (pc # "clc" => (flags.carry)' = flags.carry)
  <2>1. CASE Clc BY <2>1 DEF Clc, Inv, Typed, FlagSets
  <2>2. CASE StepIndex
    <3>1. flags' = flags \/ flags' = Inc(flags, i).flags BY <2>2 DEF StepIndex
    <3>2. Inc(flags, i).flags.carry = flags.carry BY DEF Inc, FlagsOf
    <3>3. QED BY <1>0, <3>1, <3>2
  <2>3. CASE Loop \/ UNCHANGED vars BY <1>0, <2>3 DEF Loop, vars
  <2>4. QED BY <2>1, <2>2, <2>3
<1>3. i' \in Nat /\ cx' \in Nat /\ Placed'
  <2>1. CASE Clc BY <1>0, <2>1 DEF Clc, Inv, Placed
  <2>2. CASE StepIndex
    <3>1. pc = "index" /\ pc' = "loop" /\ i' = i + 1 /\ cx' = cx /\ n' = n BY <2>2 DEF StepIndex
    <3>2. i < n /\ cx = n - i BY <3>1 DEF Inv, Placed
    <3>3. QED BY <1>0, <3>1, <3>2 DEF Placed
  <2>3. CASE Loop
    <3>1. /\ pc = "loop" /\ cx' = (cx - 1) % 65536 /\ n' = n /\ i' = i
          /\ pc' = IF cx' # 0 THEN "word" ELSE "done"
      BY <2>3 DEF Loop
    <3>2. 1 <= i /\ i <= n /\ cx = n - i + 1 BY <3>1 DEF Inv, Placed
    <3>3. PICK y \in Nat : y = n - i BY <1>0, <3>2
    <3>4. cx - 1 = y /\ y < 65536 BY <1>0, <3>2, <3>3
    <3>5. y % 65536 = y BY <3>4
    <3>6. cx' = n - i BY <3>1, <3>3, <3>4, <3>5
    <3>7. cx' # 0 => i < n BY <1>0, <3>2, <3>6
    <3>8. cx' = 0 => i = n BY <1>0, <3>2, <3>6
    <3>9. QED BY <1>0, <3>1, <3>3, <3>6, <3>7, <3>8 DEF Placed
  <2>4. CASE UNCHANGED vars BY <1>0, <2>4 DEF vars, Inv, Placed
  <2>5. QED BY <2>1, <2>2, <2>3, <2>4
<1>4. Typed' BY <1>1, <1>2, <1>3 DEF Inv, Typed, Words
<1>5. Done' = k
  <2>1. CASE Clc BY <1>0, <2>1 DEF Clc, Done
  <2>2. CASE StepIndex BY <1>0, <2>2 DEF StepIndex, Done
  <2>3. CASE Loop BY <1>0, <2>3 DEF Loop, Done
  <2>4. CASE UNCHANGED vars BY <1>0, <2>4 DEF vars, Done
  <2>5. QED BY <2>1, <2>2, <2>3, <2>4
<1>6. Calculated'
  <2>1. pc' # "panicked" => pc # "panicked" BY DEF Clc, StepIndex, Loop, vars
  <2>2. Plain' <=> Plain BY <1>1 DEF Plain, Negative
  <2>3. Total(k)' = Total(k) BY <1>1 DEF Total
  <2>4. k > 0 => Turn' = Turn
    <3>1. pc = "clc" => k = 0 BY DEF Inv, Placed, Done
    <3>2. QED BY <1>1, <1>2, <3>1 DEF Turn
  <2>5. Total(Done)' = Total(k)' /\ Weight(Done)' = Weight(k) /\ Num(a, Done)' = Num(a', k)
    BY <1>5 DEF Total
  <2>6. Done = k OBVIOUS
  <2>7. SUFFICES ASSUME pc # "panicked" PROVE Calculated' BY <2>1 DEF Calculated
  <2>8. /\ \A j \in k..(n - 1) : a[j] = a0[j]
        /\ k = 0 => c0 = 0
        /\ kind = "cmp" => a = a0
        /\ k > 0 =>
             /\ kind # "cmp" => Num(a, k) = Total(k) % Weight(k)
             /\ Plain \/ kind = "add" => Total(k) = (Total(k) % Weight(k)) + Weight(k) * Turn
    BY <2>6, <2>7 DEF Inv, Calculated
  <2>9. QED BY <1>1, <1>5, <2>2, <2>3, <2>4, <2>5, <2>8 DEF Calculated
<1>7. QED BY <1>3, <1>4, <1>6 DEF Inv

\* For words of any size and numbers of any length the loop keeps, word after
\* word, the result of the numbers so far and their carry (Op::Add* to Op::Sbb*,
\* Op::Inc*, Op::Lea*, Op::Loop).
THEOREM Invariance == Spec => []Inv
<1>1. Init => Inv BY InitInv
<1>2. Inv /\ [Next]_vars => Inv' BY WordInv, OthersInv DEF Next
<1>3. QED BY <1>1, <1>2, PTL DEF Spec

\* What the result is of numbers within the range.
LEMMA TurnTells ==
  ASSUME NEW w \in Nat \ {0}, NEW x \in Int, NEW c \in BOOLEAN
  PROVE  /\ x >= 0 /\ x = (x % w) + w * Bit(c) => (c <=> x >= w)
         /\ x < w /\ x = (x % w) + w * (0 - Bit(c)) => (c <=> x < 0)
<1>1. PICK r \in 0..(w - 1) : r = x % w BY Divided
<1>2. CASE c
  <2>1. Bit(c) = 1 BY <1>2 DEF Bit
  <2>2. w * Bit(c) = w /\ w * (0 - Bit(c)) = 0 - w BY <2>1
  <2>3. /\ x = (x % w) + w * Bit(c) => x = r + w
        /\ x = (x % w) + w * (0 - Bit(c)) => x = r + (0 - w)
    BY <1>1, <2>2
  <2>4. (x = r + w => x >= w) /\ (x = r + (0 - w) => x < 0) BY <1>1
  <2>5. QED BY <1>2, <2>3, <2>4
<1>3. CASE ~c
  <2>1. Bit(c) = 0 BY <1>3 DEF Bit
  <2>2. w * Bit(c) = 0 /\ w * (0 - Bit(c)) = 0 BY <2>1
  <2>3. /\ x = (x % w) + w * Bit(c) => x = r
        /\ x = (x % w) + w * (0 - Bit(c)) => x = r
    BY <1>1, <2>2
  <2>4. x = r => ~(x >= w) /\ ~(x < 0) BY <1>1
  <2>5. QED BY <1>3, <2>3, <2>4
<1>4. QED BY <1>2, <1>3

\* For words of any size and numbers of any length, ADD and ADC with INC or LEA
\* and LOOP between them leave the sum of the numbers and its carry (Op::Add*,
\* Op::Adc*, Op::Inc*, Op::Loop).
THEOREM AddsNumbers == Spec => []LongSum
<1>1. Inv => LongSum
  <2> SUFFICES ASSUME Inv, pc = "done", kind \in Sums
               PROVE  /\ Num(a, n) = (A + B + c0) % Range
                      /\ (Plain \/ kind = "add") => (flags.carry <=> A + B + c0 >= Range)
    BY DEF LongSum
  <2> PICK k \in Nat : k = n BY DEF Inv, Typed
  <2>1. i = k /\ Done = k /\ k > 0 BY DEF Inv, Placed, Done, Typed
  <2> DEFINE x == Total(k)
             w == Weight(k)
  <2>2. x = A + B + c0 /\ w = Range BY DEF Total, A, B, Range
  <2>3. kind # "cmp" BY DEF Sums
  <2>4. /\ Num(a, k) = x % w
        /\ Plain \/ kind = "add" => x = (x % w) + w * Bit(flags.carry)
    BY <2>1, <2>3 DEF Inv, Calculated, Turn
  <2>5. w \in Nat \ {0} /\ x \in Int /\ x >= 0 /\ flags.carry \in BOOLEAN
    <3>1. Typed /\ k \in 0..n BY DEF Inv
    <3>2. /\ Num(a0, k) \in 0..(Weight(k) - 1) /\ Num(b, k) \in 0..(Weight(k) - 1)
          /\ Weight(k) \in Nat \ {0} /\ Total(k) \in Int
      BY <3>1, NumsOf
    <3>3. c0 \in {0, 1} /\ flags.carry \in BOOLEAN BY DEF Inv, Typed
    <3>4. x = Num(a0, k) + Num(b, k) + c0 BY DEF Total
    <3>5. QED BY <3>2, <3>3, <3>4
  <2> HIDE DEF x, w
  <2>6. Plain \/ kind = "add" => (flags.carry <=> x >= w) BY <2>4, <2>5, TurnTells
  <2>7. QED BY <2>2, <2>4, <2>6
<1>2. QED BY <1>1, Invariance, PTL

\* For words of any size and numbers of any length, SUB and SBB leave the
\* difference of the numbers, and the carry flag after them and after CMP says
\* whether the second is the greater (Op::Sub*, Op::Sbb*, Op::Cmp*).
THEOREM SubtractsNumbers == Spec => []LongDifference
<1>1. Inv => LongDifference
  <2> SUFFICES ASSUME Inv, pc = "done", kind \in Differences
               PROVE  /\ Num(a, n) = IF kind = "cmp" THEN A ELSE (A - B - c0) % Range
                      /\ Plain => (flags.carry <=> A < B + c0)
    BY DEF LongDifference
  <2> PICK k \in Nat : k = n BY DEF Inv, Typed
  <2>1. i = k /\ Done = k /\ k > 0 BY DEF Inv, Placed, Done, Typed
  <2> DEFINE x == Total(k)
             w == Weight(k)
  <2>2. kind \notin Sums /\ kind # "add" BY DEF Sums, Differences
  <2>3. x = A - B - c0 /\ w = Range BY <2>2 DEF Total, A, B, Range
  <2>4. /\ kind # "cmp" => Num(a, k) = x % w
        /\ kind = "cmp" => a = a0
        /\ Plain => x = (x % w) + w * (0 - Bit(flags.carry))
    BY <2>1, <2>2 DEF Inv, Calculated, Turn
  <2>5. /\ w \in Nat \ {0} /\ x \in Int /\ x < w /\ flags.carry \in BOOLEAN
        /\ x < 0 <=> A < B + c0
    <3>1. Typed /\ k \in 0..n BY DEF Inv
    <3>2. /\ Num(a0, k) \in 0..(Weight(k) - 1) /\ Num(b, k) \in 0..(Weight(k) - 1)
          /\ Weight(k) \in Nat \ {0} /\ Total(k) \in Int
      BY <3>1, NumsOf
    <3>3. c0 \in {0, 1} /\ flags.carry \in BOOLEAN BY DEF Inv, Typed
    <3>4. x = Num(a0, k) - Num(b, k) - c0 /\ A = Num(a0, k) /\ B = Num(b, k)
      BY <2>2 DEF Total, A, B
    <3>5. QED BY <3>2, <3>3, <3>4
  <2> HIDE DEF x, w
  <2>6. Plain => (flags.carry <=> x < 0) BY <2>4, <2>5, TurnTells
  <2>7. kind = "cmp" => Num(a, n) = A BY <2>4 DEF A
  <2>8. QED BY <2>3, <2>4, <2>5, <2>6, <2>7
<1>2. QED BY <1>1, Invariance, PTL
-----------------------------------------------------------------------------
(* Signed numbers.                                                         *)

LEMMA Differ == \A p, q \in BOOLEAN : (p # q) <=> ~(p <=> q)
OBVIOUS

LEMMA SignIs ==
  ASSUME NEW x \in Int
  PROVE  SignBit(x) <=> x % WordSize >= Half
<1>1. WordSize \in Nat \ {0} /\ Half \in Nat \ {0} /\ WordSize = 2 * Half BY Sizes
<1> DEFINE q == x \div WordSize
           r == x % WordSize
<1>2. r \in 0..(WordSize - 1) /\ q \in Int /\ x = WordSize * q + r BY <1>1, Divided
<1> HIDE DEF q, r
<1>3. WordSize * q = Half * (2 * q) BY <1>1, <1>2
<1>4. CASE r < Half
  <2>1. r \in 0..(Half - 1) BY <1>1, <1>2, <1>4
  <2>2. 2 * q \in Int /\ x = Half * (2 * q) + r BY <1>2, <1>3
  <2>3. x \div Half = 2 * q BY <1>1, <2>1, <2>2, ModIs
  <2>4. (2 * q) % 2 = 0 BY <1>2
  <2>5. ~SignBit(x) BY <2>3, <2>4 DEF SignBit
  <2>6. ~(r >= Half) BY <1>1, <1>2, <1>4
  <2>7. QED BY <2>5, <2>6 DEF r
<1>5. CASE r >= Half
  <2>1. PICK s \in 0..(Half - 1) : r = Half + s
    <3>1. r - Half \in 0..(Half - 1) /\ r = Half + (r - Half) BY <1>1, <1>2, <1>5
    <3>2. QED BY <3>1
  <2>2. 2 * q + 1 \in Int /\ x = Half * (2 * q + 1) + s
    <3>1. Half * (2 * q + 1) = Half * (2 * q) + Half BY <1>1, <1>2
    <3>2. PICK u \in Int : u = Half * (2 * q) BY <1>1, <1>2
    <3>3. QED BY <1>1, <1>2, <1>3, <2>1, <3>1, <3>2
  <2>3. x \div Half = 2 * q + 1 BY <1>1, <2>1, <2>2, ModIs
  <2>4. (2 * q + 1) % 2 = 1 BY <1>2
  <2>5. SignBit(x) BY <2>3, <2>4 DEF SignBit
  <2>6. QED BY <1>5, <2>5 DEF r
<1>6. QED BY <1>1, <1>2, <1>4, <1>5

LEMMA WordOf ==
  ASSUME NEW y \in Int, 0 - WordSize <= y, y < 2 * WordSize
  PROVE  /\ y % WordSize \in Int
         /\ y < 0 => y % WordSize = y + WordSize
         /\ y >= 0 /\ y < WordSize => y % WordSize = y
         /\ y >= WordSize => y % WordSize = y - WordSize
<1>1. WordSize \in Nat \ {0} BY Sizes
<1>2. y % WordSize \in Int BY <1>1, Divided
<1> PICK z \in Int : z = y % WordSize BY <1>2
<1>3. /\ y >= 0 => y = z + WordSize * Bit(y >= WordSize)
      /\ y < WordSize => y = z - WordSize * Bit(y < 0)
  BY OneTurn
<1>4. CASE y < 0
  <2>1. Bit(y < 0) = 1 BY <1>4 DEF Bit
  <2>2. z = y + WordSize BY <1>1, <1>3, <1>4, <2>1
  <2>3. QED BY <1>1, <1>4, <2>2
<1>5. CASE y >= 0 /\ y < WordSize
  <2>1. Bit(y < 0) = 0 BY <1>5 DEF Bit
  <2>2. z = y BY <1>1, <1>3, <1>5, <2>1
  <2>3. QED BY <1>1, <1>5, <2>2
<1>6. CASE y >= WordSize
  <2>1. Bit(y >= WordSize) = 1 BY <1>6 DEF Bit
  <2>2. y >= 0 BY <1>1, <1>6
  <2>3. y = z + WordSize BY <1>1, <1>3, <2>1, <2>2
  <2>4. z = y - WordSize BY <1>1, <2>3
  <2>5. QED BY <1>1, <1>6, <2>2, <2>4
<1>7. QED BY <1>1, <1>4, <1>5, <1>6

\* The sign and the overflow of a difference of two words and a borrow: they
\* differ if the signed difference is below zero.
LEMMA SignedDifference ==
  ASSUME NEW dst \in Words, NEW v \in Words, NEW c \in {0, 1}, NEW src \in Int, NEW res \in Int,
         src % WordSize = v, res % WordSize = (dst - v - c) % WordSize
  PROVE  /\ SignBit(res) \in BOOLEAN /\ SubOverflow(res, src, dst) \in BOOLEAN
         /\ ~(SignBit(res) <=> SubOverflow(res, src, dst)) <=>
              Signed(dst, Half) < Signed(v, Half) + c
         /\ c = 0 /\ res % WordSize = 0 => ~SignBit(res) /\ ~SubOverflow(res, src, dst)
<1>1. WordSize \in Nat \ {0} /\ Half \in Nat \ {0} /\ WordSize = 2 * Half BY Sizes
<1>2. dst \in 0..(WordSize - 1) /\ v \in 0..(WordSize - 1) BY DEF Words
<1> DEFINE d == res % WordSize
<1>3. d = IF dst - v - c < 0 THEN dst - v - c + WordSize ELSE dst - v - c
  <2>1. PICK y \in Int : y = dst - v - c BY <1>1, <1>2
  <2>2. 0 - WordSize <= y /\ y < WordSize BY <1>1, <1>2, <2>1
  <2>3. PICK z \in Int : /\ z = y % WordSize
                         /\ y < 0 => z = y + WordSize
                         /\ y >= 0 /\ y < WordSize => z = y
    <3>1. y < 2 * WordSize BY <1>1, <2>2
    <3>2. QED BY <2>2, <3>1, WordOf
  <2>4. d = z BY <2>1, <2>3
  <2> HIDE DEF d
  <2>5. QED BY <1>1, <1>2, <2>1, <2>2, <2>3, <2>4
<1>4. dst % WordSize = dst BY <1>1, <1>2, SmallMod
<1>5. /\ SignBit(res) <=> d >= Half
      /\ SignBit(src) <=> v >= Half
      /\ SignBit(dst) <=> dst >= Half
  <2>1. dst \in Int BY <1>1, <1>2
  <2>2. SignBit(res) <=> res % WordSize >= Half BY SignIs
  <2>3. SignBit(src) <=> src % WordSize >= Half BY SignIs
  <2>4. SignBit(dst) <=> dst % WordSize >= Half BY <2>1, SignIs
  <2>5. QED BY <1>4, <2>2, <2>3, <2>4, Zenon
<1>6. SignBit(res) \in BOOLEAN /\ SignBit(src) \in BOOLEAN /\ SignBit(dst) \in BOOLEAN
  BY DEF SignBit
<1>7. SubOverflow(res, src, dst) \in BOOLEAN BY DEF SubOverflow
<1>8. SubOverflow(res, src, dst) <=>
        ~(dst >= Half <=> v >= Half) /\ ~(dst >= Half <=> d >= Half)
  BY <1>5, <1>6, Differ DEF SubOverflow
<1> HIDE DEF d
<1>9. ~(d >= Half <=> (~(dst >= Half <=> v >= Half) /\ ~(dst >= Half <=> d >= Half))) <=>
        Signed(dst, Half) < Signed(v, Half) + c
  BY <1>1, <1>2, <1>3 DEF Signed
<1>10. c = 0 /\ d = 0 => ~(d >= Half) /\ (dst >= Half <=> v >= Half)
  BY <1>1, <1>2, <1>3
<1>11. QED BY <1>5, <1>6, <1>7, <1>8, <1>9, <1>10 DEF d

\* The overflow of a sum, if the carry does not turn the sign of the source.
LEMMA SignedSum ==
  ASSUME NEW dst \in Words, NEW v \in Words, NEW c \in {0, 1}, NEW src \in Int, NEW res \in Int,
         src % WordSize = (v + c) % WordSize, res % WordSize = (dst + v + c) % WordSize,
         ~(v = Half - 1 /\ c = 1)
  PROVE  /\ AddOverflow(res, src, dst) \in BOOLEAN
         /\ AddOverflow(res, src, dst) <=>
              Signed(dst, Half) + Signed(v, Half) + c \notin (0 - Half)..(Half - 1)
<1>1. WordSize \in Nat \ {0} /\ Half \in Nat \ {0} /\ WordSize = 2 * Half BY Sizes
<1>2. dst \in 0..(WordSize - 1) /\ v \in 0..(WordSize - 1) BY DEF Words
<1> DEFINE d == res % WordSize
           e == src % WordSize
<1>3. d = IF dst + v + c < WordSize THEN dst + v + c ELSE dst + v + c - WordSize
  <2>1. PICK y \in Int : y = dst + v + c BY <1>1, <1>2
  <2>2. y >= 0 /\ y < 2 * WordSize /\ 0 - WordSize <= y BY <1>1, <1>2, <2>1
  <2>3. PICK z \in Int : /\ z = y % WordSize
                         /\ y >= 0 /\ y < WordSize => z = y
                         /\ y >= WordSize => z = y - WordSize
    BY <2>2, WordOf
  <2>4. d = z BY <2>1, <2>3
  <2> HIDE DEF d
  <2>5. QED BY <1>1, <1>2, <2>1, <2>2, <2>3, <2>4
<1>4. e = IF v + c < WordSize THEN v + c ELSE v + c - WordSize
  <2>1. PICK y \in Int : y = v + c BY <1>1, <1>2
  <2>2. y >= 0 /\ y < 2 * WordSize /\ 0 - WordSize <= y BY <1>1, <1>2, <2>1
  <2>3. PICK z \in Int : /\ z = y % WordSize
                         /\ y >= 0 /\ y < WordSize => z = y
                         /\ y >= WordSize => z = y - WordSize
    BY <2>2, WordOf
  <2>4. e = z BY <2>1, <2>3
  <2> HIDE DEF e
  <2>5. QED BY <1>1, <1>2, <2>1, <2>2, <2>3, <2>4
<1>5. dst % WordSize = dst BY <1>1, <1>2, SmallMod
<1>6. /\ SignBit(res) <=> d >= Half
      /\ SignBit(src) <=> e >= Half
      /\ SignBit(dst) <=> dst >= Half
  <2>1. dst \in Int BY <1>1, <1>2
  <2>2. SignBit(res) <=> res % WordSize >= Half BY SignIs
  <2>3. SignBit(src) <=> src % WordSize >= Half BY SignIs
  <2>4. SignBit(dst) <=> dst % WordSize >= Half BY <2>1, SignIs
  <2>5. QED BY <1>5, <2>2, <2>3, <2>4, Zenon
<1>7. SignBit(res) \in BOOLEAN /\ SignBit(src) \in BOOLEAN /\ SignBit(dst) \in BOOLEAN
  BY DEF SignBit
<1>8. AddOverflow(res, src, dst) <=>
        ~(d >= Half <=> e >= Half) /\ ~(d >= Half <=> dst >= Half)
  BY <1>6, <1>7, Differ DEF AddOverflow
<1>9. AddOverflow(res, src, dst) \in BOOLEAN BY DEF AddOverflow
<1> HIDE DEF d, e
<1>10. (~(d >= Half <=> e >= Half) /\ ~(d >= Half <=> dst >= Half)) <=>
         Signed(dst, Half) + Signed(v, Half) + c \notin (0 - Half)..(Half - 1)
  BY <1>1, <1>2, <1>3, <1>4 DEF Signed
<1>11. QED BY <1>8, <1>9, <1>10
-----------------------------------------------------------------------------
(* The flags of the last word.                                             *)

\* The carry into word k.
Carried(k) ==
  IF k = 0 THEN c0 ELSE IF kind \in Sums THEN Bit(Total(k) >= Weight(k)) ELSE Bit(Total(k) < 0)

\* The flags are those of the instruction on word k.
FlagsFit(k) ==
  /\ flags.sign \in BOOLEAN /\ flags.overflow \in BOOLEAN /\ flags.zero \in BOOLEAN
  /\ kind \in Differences =>
       /\ ~(flags.sign <=> flags.overflow) <=>
            Signed(a0[k], Half) < Signed(b[k], Half) + Carried(k)
       /\ flags.zero <=> (a0[k] - b[k] - Carried(k)) % WordSize = 0
       /\ Carried(k) = 0 /\ flags.zero => ~flags.sign /\ ~flags.overflow
  /\ kind \in Sums /\ ~(b[k] = Half - 1 /\ Carried(k) = 1) =>
       (flags.overflow <=>
          Signed(a0[k], Half) + Signed(b[k], Half) + Carried(k) \notin (0 - Half)..(Half - 1))

Flagged == pc = "index" \/ (pc \in {"loop", "done"} /\ lea) => FlagsFit(Done - 1)

\* The carry into a word is what the words below it leave over.
LEMMA Carrying ==
  ASSUME Typed, NEW k \in 0..n
  PROVE  /\ Carried(k) \in {0, 1}
         /\ \E l \in 0..(Weight(k) - 1) :
               Total(k) = IF kind \in Sums THEN l + Weight(k) * Carried(k)
                          ELSE l - Weight(k) * Carried(k)
<1> DEFINE w == Weight(k)
           x == Total(k)
           c == Carried(k)
<1>1. /\ Num(a0, k) \in 0..(w - 1) /\ Num(b, k) \in 0..(w - 1)
      /\ w \in Nat \ {0} /\ x \in Int
  BY NumsOf
<1>2. c0 \in {0, 1} BY DEF Typed
<1>3. kind \in Sums => x >= 0 /\ x < 2 * w BY <1>1, <1>2 DEF Total
<1>4. kind \notin Sums => x < w /\ 0 - w <= x BY <1>1, <1>2 DEF Total
<1>5. c \in {0, 1} BY <1>2 DEF Carried, Bit
<1>6. CASE k = 0
  <2>1. Num(a0, 0) = 0 /\ Num(b, 0) = 0 /\ Weight(0) = 1 BY NumSteps, WeightSteps
  <2>2. w = 1 /\ c = c0 /\ x = IF kind \in Sums THEN c0 ELSE 0 - c0
    BY <1>2, <1>6, <2>1 DEF Carried, Total
  <2>3. w * c = c0 BY <1>2, <2>2
  <2> HIDE DEF w, x, c
  <2>4. 0 \in 0..(w - 1) /\ x = IF kind \in Sums THEN 0 + w * c ELSE 0 - w * c
    BY <1>2, <2>2, <2>3
  <2>5. QED BY <1>5, <2>4 DEF w, x, c
<1>7. CASE k # 0 /\ kind \in Sums
  <2>1. c = Bit(x >= w) BY <1>7 DEF Carried
  <2> HIDE DEF w, x, c
  <2>2. CASE x >= w
    <3>1. c = 1 /\ w * c = w BY <1>1, <2>1, <2>2 DEF Bit
    <3>2. x - w \in 0..(w - 1) /\ x = (x - w) + w * c BY <1>1, <1>3, <1>7, <2>2, <3>1
    <3>3. QED BY <1>5, <1>7, <3>2 DEF w, x, c
  <2>3. CASE x < w
    <3>1. c = 0 /\ w * c = 0 BY <1>1, <2>1, <2>3 DEF Bit
    <3>2. x \in 0..(w - 1) /\ x = x + w * c BY <1>1, <1>3, <1>7, <2>3, <3>1
    <3>3. QED BY <1>5, <1>7, <3>2 DEF w, x, c
  <2>4. QED BY <1>1, <2>2, <2>3
<1>8. CASE k # 0 /\ kind \notin Sums
  <2>1. c = Bit(x < 0) BY <1>8 DEF Carried
  <2> HIDE DEF w, x, c
  <2>2. CASE x < 0
    <3>1. c = 1 /\ w * c = w BY <1>1, <2>1, <2>2 DEF Bit
    <3>2. x + w \in 0..(w - 1) /\ x = (x + w) - w * c BY <1>1, <1>4, <1>8, <2>2, <3>1
    <3>3. QED BY <1>5, <1>8, <3>2 DEF w, x, c
  <2>3. CASE x >= 0
    <3>1. c = 0 /\ w * c = 0 BY <1>1, <2>1, <2>3 DEF Bit
    <3>2. x \in 0..(w - 1) /\ x = x - w * c BY <1>1, <1>4, <1>8, <2>3, <3>1
    <3>3. QED BY <1>5, <1>8, <3>2 DEF w, x, c
  <2>4. QED BY <1>1, <2>2, <2>3
<1>9. QED BY <1>6, <1>7, <1>8

\* The instruction on a word takes in the carry out of the words below it.
LEMMA CarryIsTaken ==
  ASSUME Inv, Word, pc' = "index", NEW k \in Nat, k = i
  PROVE  Carried(k)' = IF Instruction \in {"adc", "sbb"} THEN Bit(flags.carry) ELSE 0
<1>1. /\ pc = "word" /\ UNCHANGED <<kind, n, b, a0>>
      /\ c0' = IF i = 0 /\ kind \in {"adc", "sbb"} THEN Bit(flags.carry) ELSE c0
  BY DEF Word
<1>2. k < n /\ n \in Nat BY <1>1 DEF Inv, Typed, Placed
<1>3. CASE k = 0
  <2>1. Instruction = kind BY <1>3 DEF Instruction
  <2>2. kind \notin {"adc", "sbb"} => c0 = 0 BY DEF Inv, Typed
  <2>3. Carried(k)' = c0' BY <1>3 DEF Carried
  <2>4. QED BY <1>1, <1>3, <2>1, <2>2, <2>3
<1>4. CASE k > 0
  <2>1. n # 1 /\ ~short /\ kind # "cmp" BY <1>2, <1>4 DEF Inv, Typed
  <2>2. Plain BY <2>1 DEF Plain
  <2>3. Instruction = IF kind \in Sums THEN "adc" ELSE "sbb" BY <1>4 DEF Instruction
  <2>4. c0' = c0 BY <1>1, <1>4
  <2>5. Total(k)' = Total(k) BY <1>1, <2>4 DEF Total
  <2> DEFINE w == Weight(k)
             x == Total(k)
  <2>6. Done = k /\ pc # "panicked" BY <1>1 DEF Done
  <2>7. x = (x % w) + w * Turn BY <1>4, <2>2, <2>6 DEF Inv, Calculated
  <2>8. /\ Num(a0, k) \in 0..(w - 1) /\ Num(b, k) \in 0..(w - 1)
        /\ w \in Nat \ {0} /\ x \in Int
    <3>1. Typed /\ k \in 0..n BY <1>2 DEF Inv
    <3>2. QED BY <3>1, NumsOf
  <2>9. flags.carry \in BOOLEAN /\ c0 \in {0, 1} BY DEF Inv, Typed
  <2>10. CASE kind \in Sums
    <3>1. x >= 0 BY <2>8, <2>9, <2>10 DEF Total
    <3>2. Turn = Bit(flags.carry) BY <2>10 DEF Turn
    <3>3. Carried(k)' = Bit(x >= w) BY <1>1, <1>4, <2>5, <2>10 DEF Carried
    <3> HIDE DEF x, w
    <3>4. flags.carry <=> x >= w BY <2>7, <2>8, <2>9, <3>1, <3>2, TurnTells
    <3>5. Bit(x >= w) = Bit(flags.carry) BY <2>9, <3>4 DEF Bit
    <3>6. QED BY <2>3, <2>10, <3>3, <3>5
  <2>11. CASE kind \notin Sums
    <3>1. x < w BY <2>8, <2>9, <2>11 DEF Total
    <3>2. Turn = 0 - Bit(flags.carry) BY <2>11 DEF Turn
    <3>3. Carried(k)' = Bit(x < 0) BY <1>1, <1>4, <2>5, <2>11 DEF Carried
    <3> HIDE DEF x, w
    <3>4. flags.carry <=> x < 0 BY <2>7, <2>8, <2>9, <3>1, <3>2, TurnTells
    <3>5. Bit(x < 0) = Bit(flags.carry) BY <2>9, <3>4 DEF Bit
    <3>6. QED BY <2>3, <2>11, <3>3, <3>5
  <2>12. QED BY <2>10, <2>11
<1>5. QED BY <1>3, <1>4

\* The other flags of the instructions.
LEMMA SubFlags ==
  ASSUME NEW f, NEW dst \in Words, NEW v \in Words, short \in BOOLEAN
  PROVE  LET g == Sub(f, dst, Source(v)).flags
         IN  /\ g.sign \in BOOLEAN /\ g.overflow \in BOOLEAN /\ g.zero \in BOOLEAN
             /\ ~(g.sign <=> g.overflow) <=> Signed(dst, Half) < Signed(v, Half) + 0
             /\ g.zero <=> (dst - v - 0) % WordSize = 0
             /\ g.zero => ~g.sign /\ ~g.overflow
<1> DEFINE src == Source(v)
           r == Sub(f, dst, src)
           res == r.res
<1>1. src \in Int /\ src % WordSize = v BY SourceIs
<1>2. res = (dst - src) % Host BY DEF Sub
<1>3. dst \in Int /\ v \in Int BY Sizes DEF Words
<1>4. res \in Int BY <1>1, <1>2, <1>3, HostMod
<1>5. r.flags.sign = SignBit(res) /\ r.flags.overflow = SubOverflow(res, src, dst)
      /\ r.flags.zero = (res % WordSize = 0)
  BY DEF Sub, FlagsOf
<1>6. res % WordSize = (dst - v) % WordSize BY SubWord
<1>7. dst - v = dst - v - 0 BY <1>3
<1>8. res % WordSize = (dst - v - 0) % WordSize BY <1>6, <1>7
<1> HIDE DEF src, r, res
<1>9. 0 \in {0, 1} OBVIOUS
<1>10. /\ SignBit(res) \in BOOLEAN /\ SubOverflow(res, src, dst) \in BOOLEAN
       /\ ~(SignBit(res) <=> SubOverflow(res, src, dst)) <=>
            Signed(dst, Half) < Signed(v, Half) + 0
       /\ res % WordSize = 0 => ~SignBit(res) /\ ~SubOverflow(res, src, dst)
  BY <1>1, <1>4, <1>8, <1>9, SignedDifference
<1>11. QED BY <1>5, <1>8, <1>10, Zenon DEF r, src

LEMMA SbbFlags ==
  ASSUME NEW f, f.carry \in BOOLEAN, NEW dst \in Words, NEW v \in Words, short \in BOOLEAN
  PROVE  LET g == Sbb(f, dst, Source(v)).flags
             c == Bit(f.carry)
         IN  /\ g.sign \in BOOLEAN /\ g.overflow \in BOOLEAN /\ g.zero \in BOOLEAN
             /\ ~(g.sign <=> g.overflow) <=> Signed(dst, Half) < Signed(v, Half) + c
             /\ g.zero <=> (dst - v - c) % WordSize = 0
             /\ c = 0 /\ g.zero => ~g.sign /\ ~g.overflow
<1> DEFINE src == Source(v)
           c == Bit(f.carry)
           r == Sbb(f, dst, src)
           res == r.res
<1>1. src \in Int /\ src % WordSize = v BY SourceIs
<1>2. res = (dst - (src + c)) % Host BY DEF Sbb
<1>3. dst \in Int /\ v \in Int /\ c \in {0, 1} BY Sizes, BitIn DEF Words
<1>4. res \in Int
  <2>1. dst - (src + c) \in Int BY <1>1, <1>3
  <2>2. QED BY <1>2, <2>1, HostMod
<1>5. r.flags.sign = SignBit(res) /\ r.flags.overflow = SubOverflow(res, src, dst)
      /\ r.flags.zero = (res % WordSize = 0)
  BY DEF Sbb, FlagsOf
<1>6. res % WordSize = (dst - v - c) % WordSize BY SbbWord
<1> HIDE DEF src, r, res, c
<1>7. /\ SignBit(res) \in BOOLEAN /\ SubOverflow(res, src, dst) \in BOOLEAN
      /\ ~(SignBit(res) <=> SubOverflow(res, src, dst)) <=>
           Signed(dst, Half) < Signed(v, Half) + c
      /\ c = 0 /\ res % WordSize = 0 => ~SignBit(res) /\ ~SubOverflow(res, src, dst)
  BY <1>1, <1>3, <1>4, <1>6, SignedDifference
<1>8. QED BY <1>5, <1>6, <1>7, Zenon DEF r, src, c

LEMMA AddFlags ==
  ASSUME NEW f, NEW dst \in Words, NEW v \in Words, short \in BOOLEAN
  PROVE  LET g == Add(f, dst, Source(v)).flags
         IN  /\ g.sign \in BOOLEAN /\ g.overflow \in BOOLEAN /\ g.zero \in BOOLEAN
             /\ g.overflow <=>
                  Signed(dst, Half) + Signed(v, Half) + 0 \notin (0 - Half)..(Half - 1)
<1> DEFINE r == Add(f, dst, Source(v))
           res == r.res
<1>1. Source(v) % WordSize = v BY SourceIs
<1>2. res = dst + v BY <1>1 DEF Add
<1>3. dst \in Int /\ v \in Int BY Sizes DEF Words
<1>4. r.flags.sign = SignBit(res) /\ r.flags.overflow = AddOverflow(res, v, dst)
      /\ r.flags.zero = (res % WordSize = 0)
  BY <1>1 DEF Add, FlagsOf
<1>5. res \in Int /\ res = dst + v + 0 /\ v = v + 0 BY <1>2, <1>3
<1>6. v % WordSize = (v + 0) % WordSize /\ res % WordSize = (dst + v + 0) % WordSize
  BY <1>5
<1> HIDE DEF r, res
<1>7. 0 \in {0, 1} /\ ~(v = Half - 1 /\ 0 = 1) OBVIOUS
<1>8. /\ AddOverflow(res, v, dst) \in BOOLEAN
      /\ AddOverflow(res, v, dst) <=>
           Signed(dst, Half) + Signed(v, Half) + 0 \notin (0 - Half)..(Half - 1)
  BY <1>3, <1>5, <1>6, <1>7, SignedSum
<1>9. SignBit(res) \in BOOLEAN BY DEF SignBit
<1>10. QED BY <1>4, <1>8, <1>9, Zenon DEF r

LEMMA AdcFlags ==
  ASSUME NEW f, f.carry \in BOOLEAN, NEW dst \in Words, NEW v \in Words, short \in BOOLEAN
  PROVE  LET g == Adc(f, dst, Source(v)).flags
             c == Bit(f.carry)
         IN  /\ g.sign \in BOOLEAN /\ g.overflow \in BOOLEAN /\ g.zero \in BOOLEAN
             /\ ~(v = Half - 1 /\ c = 1) =>
                  (g.overflow <=>
                     Signed(dst, Half) + Signed(v, Half) + c \notin (0 - Half)..(Half - 1))
<1> DEFINE c == Bit(f.carry)
           src == Source(v)
           more == (src + c) % Host
           r == Adc(f, dst, src)
           res == r.res
<1>1. c \in {0, 1} /\ dst \in Int /\ v \in Int /\ WordSize \in Nat \ {0}
  BY Sizes, BitIn DEF Words
<1>2. src \in Int /\ (\E k \in Int : src = v + WordSize * k) BY SourceIs
<1>3. res = (dst + src + c) % Host BY DEF Adc
<1>4. r.flags.sign = SignBit(res) /\ r.flags.overflow = AddOverflow(res, more, dst)
      /\ r.flags.zero = (res % WordSize = 0)
  BY DEF Adc, FlagsOf
<1>5. res % WordSize = (dst + v + c) % WordSize BY AdcWord
<1> HIDE DEF r, src, c
<1>6. res \in Int
  <2>1. dst + src + c \in Int BY <1>1, <1>2
  <2>2. QED BY <1>3, <2>1, HostMod
<1>7. more \in Int /\ more % WordSize = (v + c) % WordSize
  <2>1. src + c \in Int /\ v + c \in Int BY <1>1, <1>2
  <2>2. more \in Int /\ more % WordSize = (src + c) % WordSize BY <2>1, HostMod
  <2>3. PICK k \in Int : src = v + WordSize * k BY <1>2
  <2>4. src + c = (v + c) + WordSize * k
    <3>1. PICK u \in Int : u = WordSize * k BY <1>1
    <3>2. QED BY <1>1, <2>3, <3>1
  <2>5. (src + c) % WordSize = (v + c) % WordSize BY <1>1, <2>1, <2>4, Turns
  <2>6. QED BY <2>2, <2>5
<1> HIDE DEF more, res
<1>8. ~(v = Half - 1 /\ c = 1) =>
        (AddOverflow(res, more, dst) <=>
           Signed(dst, Half) + Signed(v, Half) + c \notin (0 - Half)..(Half - 1))
  BY <1>1, <1>5, <1>6, <1>7, SignedSum
<1>9. SignBit(res) \in BOOLEAN /\ AddOverflow(res, more, dst) \in BOOLEAN
  BY DEF SignBit, AddOverflow
<1>10. QED BY <1>4, <1>8, <1>9, Zenon DEF r, src, c

\* What the instruction leaves on word k fits the words it was given.
LEMMA WordFlags ==
  ASSUME Inv, Word, pc' = "index", NEW k \in Nat, k = i
  PROVE  FlagsFit(k)'
<1> DEFINE g == Do(Instruction, flags, a[k], Source(b[k])).flags
           c == IF Instruction \in {"adc", "sbb"} THEN Bit(flags.carry) ELSE 0
<1>1. pc = "word" /\ kind' = kind /\ b' = b /\ a0' = a0 /\ flags' = g
  <2>1. "panicked" # "index" OBVIOUS
  <2>2. QED BY <2>1 DEF Word
<1>2. k < n /\ n \in Nat /\ k \in 0..(n - 1) BY <1>1 DEF Inv, Typed, Placed
<1>3. /\ a[k] \in Words /\ b[k] \in Words /\ short \in BOOLEAN /\ flags.carry \in BOOLEAN
      /\ kind \in Sums \cup Differences
  BY <1>2 DEF Inv, Typed
<1>4. a[k] = a0[k]
  <2>1. Done = k /\ pc # "panicked" BY <1>1 DEF Done
  <2>2. QED BY <1>2, <2>1 DEF Inv, Calculated
<1>5. Carried(k)' = c BY CarryIsTaken
<1>6. /\ g.sign \in BOOLEAN /\ g.overflow \in BOOLEAN /\ g.zero \in BOOLEAN
      /\ kind \in Differences =>
           /\ ~(g.sign <=> g.overflow) <=> Signed(a[k], Half) < Signed(b[k], Half) + c
           /\ g.zero <=> (a[k] - b[k] - c) % WordSize = 0
           /\ c = 0 /\ g.zero => ~g.sign /\ ~g.overflow
      /\ kind \in Sums /\ ~(b[k] = Half - 1 /\ c = 1) =>
           (g.overflow <=>
              Signed(a[k], Half) + Signed(b[k], Half) + c \notin (0 - Half)..(Half - 1))
  <2>1. CASE Instruction = "add"
    <3>1. g = Add(flags, a[k], Source(b[k])).flags /\ c = 0 BY <2>1 DEF Do
    <3>2. kind \in Sums /\ kind \notin Differences
      BY <2>1 DEF Instruction, Sums, Differences
    <3> HIDE DEF g, c
    <3>3. /\ g.sign \in BOOLEAN /\ g.overflow \in BOOLEAN /\ g.zero \in BOOLEAN
          /\ g.overflow <=>
               Signed(a[k], Half) + Signed(b[k], Half) + 0 \notin (0 - Half)..(Half - 1)
      BY <1>3, <3>1, AddFlags
    <3>4. QED BY <3>1, <3>2, <3>3
  <2>2. CASE Instruction = "adc"
    <3>1. g = Adc(flags, a[k], Source(b[k])).flags /\ c = Bit(flags.carry) BY <2>2 DEF Do
    <3>2. kind \in Sums /\ kind \notin Differences
      BY <2>2 DEF Instruction, Sums, Differences
    <3> HIDE DEF g, c
    <3>3. /\ g.sign \in BOOLEAN /\ g.overflow \in BOOLEAN /\ g.zero \in BOOLEAN
          /\ ~(b[k] = Half - 1 /\ c = 1) =>
               (g.overflow <=>
                  Signed(a[k], Half) + Signed(b[k], Half) + c \notin (0 - Half)..(Half - 1))
      BY <1>3, <3>1, AdcFlags
    <3>4. QED BY <3>2, <3>3
  <2>3. CASE Instruction = "sbb"
    <3>1. g = Sbb(flags, a[k], Source(b[k])).flags /\ c = Bit(flags.carry) BY <2>3 DEF Do
    <3>2. kind \notin Sums BY <2>3 DEF Instruction, Sums, Differences
    <3> HIDE DEF g, c
    <3>3. /\ g.sign \in BOOLEAN /\ g.overflow \in BOOLEAN /\ g.zero \in BOOLEAN
          /\ ~(g.sign <=> g.overflow) <=> Signed(a[k], Half) < Signed(b[k], Half) + c
          /\ g.zero <=> (a[k] - b[k] - c) % WordSize = 0
          /\ c = 0 /\ g.zero => ~g.sign /\ ~g.overflow
      BY <1>3, <3>1, SbbFlags
    <3>4. QED BY <3>2, <3>3
  <2>4. CASE Instruction \in {"sub", "cmp"}
    <3>1. g = Sub(flags, a[k], Source(b[k])).flags /\ c = 0 BY <2>4 DEF Do
    <3>2. kind \notin Sums BY <2>4 DEF Instruction, Sums, Differences
    <3> HIDE DEF g, c
    <3>3. /\ g.sign \in BOOLEAN /\ g.overflow \in BOOLEAN /\ g.zero \in BOOLEAN
          /\ ~(g.sign <=> g.overflow) <=> Signed(a[k], Half) < Signed(b[k], Half) + 0
          /\ g.zero <=> (a[k] - b[k] - 0) % WordSize = 0
          /\ g.zero => ~g.sign /\ ~g.overflow
      BY <1>3, <3>1, SubFlags
    <3>4. QED BY <3>1, <3>2, <3>3
  <2>5. Instruction \in {"add", "adc", "sbb", "sub", "cmp"}
    BY <1>3 DEF Instruction, Sums, Differences
  <2>6. QED BY <2>1, <2>2, <2>3, <2>4, <2>5
<1> HIDE DEF g, c
<1>7. QED BY <1>1, <1>4, <1>5, <1>6, Zenon DEF FlagsFit

LEMMA InitFlagged == ASSUME Init PROVE Flagged
<1>1. pc \in {"clc", "word"} BY DEF Init
<1>2. QED BY <1>1 DEF Flagged

LEMMA FlaggedKept == ASSUME Inv, Flagged, [Next]_vars PROVE Flagged'
<1>0. i \in Nat BY DEF Inv, Typed
<1>1. CASE Clc BY <1>1 DEF Clc, Flagged
<1>2. CASE Word
  <2>1. CASE pc' = "index"
    <3> PICK k \in Nat : k = i BY <1>0
    <3>1. FlagsFit(k)' BY <1>2, <2>1, WordFlags
    <3>2. i' = k BY <1>2 DEF Word
    <3>3. (Done - 1)' = k BY <2>1, <3>2 DEF Done
    <3>4. FlagsFit(Done - 1)' BY <3>1, <3>3 DEF FlagsFit, Carried, Total
    <3>5. QED BY <3>4 DEF Flagged
  <2>2. CASE pc' = "panicked" BY <2>2 DEF Flagged
  <2>3. QED BY <1>2, <2>1, <2>2 DEF Word
<1>3. CASE StepIndex
  <2>1. CASE lea'
    <3> PICK k \in Nat : k = i BY <1>0
    <3>1. /\ pc = "index" /\ pc' = "loop" /\ i' = k + 1 /\ flags' = flags
          /\ UNCHANGED <<kind, b, a0, c0>>
      BY <1>3, <2>1 DEF StepIndex
    <3>2. Done - 1 = k /\ (Done - 1)' = k BY <3>1 DEF Done
    <3>3. FlagsFit(k) BY <3>1, <3>2 DEF Flagged
    <3>4. FlagsFit(k)' BY <3>1, <3>3 DEF FlagsFit, Carried, Total
    <3>5. FlagsFit(Done - 1)' BY <3>2, <3>4 DEF FlagsFit, Carried, Total
    <3>6. QED BY <3>5 DEF Flagged
  <2>2. CASE ~lea' BY <1>3, <2>2 DEF StepIndex, Flagged
  <2>3. QED BY <2>1, <2>2
<1>4. CASE Loop \/ UNCHANGED vars
  <2>1. /\ UNCHANGED <<kind, b, a0, c0, flags, i, lea>>
        /\ UNCHANGED pc \/ (pc = "loop" /\ pc' \in {"word", "done"})
    BY <1>4 DEF Loop, vars
  <2>2. Done' = Done BY <2>1 DEF Done
  <2>3. FlagsFit(Done - 1) => FlagsFit(Done - 1)'
    BY <2>1, <2>2 DEF FlagsFit, Carried, Total
  <2>4. QED BY <2>1, <2>3 DEF Flagged
<1>5. QED BY <1>1, <1>2, <1>3, <1>4 DEF Next

\* The flags a difference or a sum leaves tell of the signed numbers, word by
\* word, as long as LEA and LOOP are all that ran after it.
THEOREM FlagsTell == Spec => []Flagged
<1>1. Init => Flagged BY InitFlagged
<1>2. Inv /\ Flagged /\ [Next]_vars => Flagged' BY FlaggedKept
<1>3. QED BY <1>1, <1>2, Invariance, PTL DEF Spec
-----------------------------------------------------------------------------
(* The last words decide for the whole numbers.                            *)

\* A number below the weight w and any number of weights.
LEMMA WeightedSign ==
  ASSUME NEW w \in Nat \ {0}, NEW l \in 0..(w - 1), NEW u \in Int
  PROVE  l + w * u < 0 <=> u < 0
<1>1. CASE u < 0
  <2>1. w * u <= w * (-1) /\ w * (-1) = 0 - w BY <1>1
  <2>2. PICK p \in Int : p = w * u OBVIOUS
  <2>3. QED BY <1>1, <2>1, <2>2
<1>2. CASE u >= 0
  <2>1. w * u >= 0 BY <1>2
  <2>2. PICK p \in Int : p = w * u OBVIOUS
  <2>3. QED BY <1>2, <2>1, <2>2
<1>3. QED BY <1>1, <1>2

LEMMA WeightedRange ==
  ASSUME NEW w \in Nat \ {0}, NEW l \in 0..(w - 1), NEW u \in Int
  PROVE  l + w * u \in (0 - Half * w)..(Half * w - 1) <=> u \in (0 - Half)..(Half - 1)
<1>1. Half \in Nat \ {0} BY Sizes
<1>2. l + w * (u + Half) < 0 <=> u + Half < 0 BY <1>1, WeightedSign
<1>3. l + w * (u - Half) < 0 <=> u - Half < 0 BY <1>1, WeightedSign
<1>4. w * (u + Half) = w * u + Half * w /\ w * (u - Half) = w * u - Half * w BY <1>1
<1>5. PICK p \in Int, h \in Int : p = w * u /\ h = Half * w BY <1>1
<1>6. l + p + h < 0 <=> u + Half < 0 BY <1>1, <1>2, <1>4, <1>5
<1>7. l + p - h < 0 <=> u - Half < 0 BY <1>1, <1>3, <1>4, <1>5
<1>8. l + p \in (0 - h)..(h - 1) <=> u \in (0 - Half)..(Half - 1) BY <1>1, <1>6, <1>7
<1>9. QED BY <1>5, <1>8

\* The sign of a number is that of its last word.
LEMMA SignedSplit ==
  ASSUME NEW w \in Nat \ {0}, NEW p \in 0..(w - 1), NEW d \in Words
  PROVE  Signed(p + w * d, Half * w) = p + w * Signed(d, Half) /\ Signed(d, Half) \in Int
<1>1. Half \in Nat \ {0} /\ WordSize = 2 * Half BY Sizes
<1>2. d \in 0..(WordSize - 1) BY DEF Words
<1>3. PICK q \in Int, h \in Int : q = w * d /\ h = Half * w BY <1>1, <1>2
<1>4. CASE d < Half
  <2>1. w * d <= w * (Half - 1) /\ w * (Half - 1) = Half * w - w BY <1>1, <1>2, <1>4
  <2>2. p + q < h BY <1>3, <2>1
  <2>3. Signed(p + q, h) = p + q /\ Signed(d, Half) = d BY <1>4, <2>2 DEF Signed
  <2>4. QED BY <1>1, <1>2, <1>3, <2>3
<1>5. CASE d >= Half
  <2>1. w * d >= w * Half /\ w * Half = Half * w BY <1>1, <1>2, <1>5
  <2>2. ~(p + q < h) BY <1>3, <2>1
  <2>3. ~(d < Half) BY <1>1, <1>2, <1>5
  <2>4. Signed(p + q, h) = p + q - 2 * h /\ Signed(d, Half) = d - 2 * Half
    BY <2>2, <2>3 DEF Signed
  <2>5. w * (d - 2 * Half) = w * d - 2 * (Half * w) BY <1>1, <1>2
  <2>6. PICK r \in Int : r = w * (d - 2 * Half) BY <1>1, <1>2
  <2>7. p + q - 2 * h = p + r BY <1>3, <2>5, <2>6
  <2>8. QED BY <1>1, <1>2, <1>3, <2>4, <2>6, <2>7
<1>6. QED BY <1>1, <1>2, <1>4, <1>5

\* The whole numbers compare, and add up, as their last words do with the
\* carry into them.
LEMMA LastWord ==
  ASSUME Inv, NEW k \in Nat, n = k + 1
  PROVE  LET x == Signed(A, Range \div 2)
             y == Signed(B, Range \div 2)
             u == Signed(a0[k], Half)
             v == Signed(b[k], Half)
         IN  /\ x \in Int /\ y \in Int /\ Range \in Int /\ Carried(k) \in {0, 1}
             /\ kind \in Differences => (x < y + c0 <=> u < v + Carried(k))
             /\ kind \in Sums =>
                  (x + y + c0 \notin (0 - (Range \div 2))..(Range \div 2 - 1) <=>
                     u + v + Carried(k) \notin (0 - Half)..(Half - 1))
<1> DEFINE x == Signed(A, Range \div 2)
           y == Signed(B, Range \div 2)
           u == Signed(a0[k], Half)
           v == Signed(b[k], Half)
           w == Weight(k)
           p == Num(a0, k)
           q == Num(b, k)
           c == Carried(k)
<1>1. Typed /\ k \in 0..n /\ k \in 0..(n - 1) BY DEF Inv
<1>2. p \in 0..(w - 1) /\ q \in 0..(w - 1) /\ w \in Nat \ {0} /\ Total(k) \in Int BY <1>1, NumsOf
<1>3. a0[k] \in Words /\ b[k] \in Words /\ c0 \in {0, 1} BY <1>1 DEF Typed
<1>4. A = p + w * a0[k] /\ B = q + w * b[k] /\ Range = WordSize * w
  BY NumSteps, WeightSteps DEF A, B, Range
<1>5. Half \in Nat \ {0} /\ WordSize = 2 * Half BY Sizes
<1>6. Range \in Int /\ Range \div 2 = Half * w
  <2> HIDE DEF w
  <2>1. PICK h \in Int : h = Half * w BY <1>2, <1>5
  <2>2. Range = 2 * h
    <3>1. (2 * Half) * w = 2 * (Half * w) BY <1>2, <1>5
    <3>2. QED BY <1>4, <1>5, <2>1, <3>1
  <2>3. 0 \in 0 .. 2 - 1 /\ Range = 2 * h + 0 /\ 2 \in Nat \ {0} /\ Range \in Int BY <2>2
  <2>4. Range \div 2 = h BY <2>3, ModIs
  <2>5. QED BY <2>1, <2>3, <2>4
<1>7. x = p + w * u /\ y = q + w * v /\ u \in Int /\ v \in Int
  <2> HIDE DEF w, p, q
  <2>1. /\ Signed(p + w * a0[k], Half * w) = p + w * Signed(a0[k], Half)
        /\ Signed(a0[k], Half) \in Int
    BY <1>2, <1>3, SignedSplit
  <2>2. /\ Signed(q + w * b[k], Half * w) = q + w * Signed(b[k], Half)
        /\ Signed(b[k], Half) \in Int
    BY <1>2, <1>3, SignedSplit
  <2>3. QED BY <1>4, <1>6, <2>1, <2>2
<1>8. c \in {0, 1} BY <1>1, Carrying
<1>9. PICK l \in 0..(w - 1) : Total(k) = IF kind \in Sums THEN l + w * c ELSE l - w * c
  BY <1>1, Carrying
<1>10. Total(k) = IF kind \in Sums THEN p + q + c0 ELSE p - q - c0 BY DEF Total
<1> HIDE DEF x, y, u, v, w, p, q, c
<1>11. PICK f \in Int, g \in Int, e \in Int : f = w * u /\ g = w * v /\ e = w * c
  BY <1>2, <1>7, <1>8
<1>12. x \in Int /\ y \in Int BY <1>2, <1>7, <1>11
<1>13. kind \in Differences => (x < y + c0 <=> u < v + c)
  <2> SUFFICES ASSUME kind \in Differences PROVE x < y + c0 <=> u < v + c
    OBVIOUS
  <2>1. kind \notin Sums BY DEF Sums, Differences
  <2>2. p - q - c0 = l - e BY <1>9, <1>10, <1>11, <2>1
  <2>3. w * (u - v - c) = w * u - w * v - w * c BY <1>2, <1>7, <1>8
  <2>4. PICK d \in Int : d = u - v - c BY <1>7, <1>8
  <2>5. l + w * d < 0 <=> d < 0 BY <1>2, <2>4, WeightedSign
  <2>6. w * d = f - g - e BY <1>11, <2>3, <2>4
  <2>7. l + w * d = x - y - c0 BY <1>2, <1>3, <1>7, <1>11, <2>2, <2>6
  <2>8. x - y - c0 < 0 <=> u - v - c < 0 BY <2>4, <2>5, <2>7
  <2>9. QED BY <1>3, <1>7, <1>8, <1>12, <2>8
<1>14. kind \in Sums =>
         (x + y + c0 \notin (0 - Half * w)..(Half * w - 1) <=> u + v + c \notin (0 - Half)..(Half - 1))
  <2> SUFFICES ASSUME kind \in Sums
               PROVE  x + y + c0 \in (0 - Half * w)..(Half * w - 1) <=>
                        u + v + c \in (0 - Half)..(Half - 1)
    OBVIOUS
  <2>2. p + q + c0 = l + e BY <1>9, <1>10, <1>11
  <2>3. w * (u + v + c) = w * u + w * v + w * c BY <1>2, <1>7, <1>8
  <2>4. PICK d \in Int : d = u + v + c BY <1>7, <1>8
  <2>5. l + w * d \in (0 - Half * w)..(Half * w - 1) <=> d \in (0 - Half)..(Half - 1)
    BY <1>2, <2>4, WeightedRange
  <2>6. w * d = f + g + e BY <1>11, <2>3, <2>4
  <2>7. l + w * d = x + y + c0 BY <1>2, <1>3, <1>7, <1>11, <2>2, <2>6
  <2>8. QED BY <2>4, <2>5, <2>7
<1>15. QED BY <1>6, <1>8, <1>12, <1>13, <1>14 DEF x, y, u, v, c

\* For words of any size and numbers of any length, the overflow flag after a
\* sum says whether the signed sum left the range, but for the carry into the
\* greatest positive word (Op::Add*, Op::Adc*, set_overflow_add_*).
THEOREM OverflowTells == Spec => []SumOverflow
<1>1. Inv /\ Flagged => SumOverflow
  <2> SUFFICES ASSUME Inv, Flagged, pc = "done", kind \in Sums, lea,
                      ~(b[n - 1] = Half - 1 /\ CarryIn = 1)
               PROVE  flags.overflow <=>
                        Signed(A, Range \div 2) + Signed(B, Range \div 2) + c0
                          \notin (0 - (Range \div 2))..(Range \div 2 - 1)
    BY DEF SumOverflow
  <2>1. PICK k \in Nat : n = k + 1
    <3>1. n - 1 \in Nat /\ n = (n - 1) + 1 BY DEF Inv, Typed
    <3>2. QED BY <3>1
  <2>2. n - 1 = k /\ Done - 1 = k BY <2>1 DEF Inv, Placed, Done
  <2>3. FlagsFit(k) BY <2>2 DEF Flagged
  <2>4. CarryIn = Carried(k)
    <3>1. n = 1 <=> k = 0 BY <2>1
    <3>2. QED BY <2>2, <3>1 DEF CarryIn, Carried, Total
  <2>5. flags.overflow <=>
          Signed(a0[k], Half) + Signed(b[k], Half) + Carried(k) \notin (0 - Half)..(Half - 1)
    BY <2>2, <2>3, <2>4 DEF FlagsFit
  <2>6. Signed(A, Range \div 2) + Signed(B, Range \div 2) + c0
          \notin (0 - (Range \div 2))..(Range \div 2 - 1) <=>
        Signed(a0[k], Half) + Signed(b[k], Half) + Carried(k) \notin (0 - Half)..(Half - 1)
    BY <2>1, LastWord
  <2>7. QED BY <2>5, <2>6
<1>2. QED BY <1>1, Invariance, FlagsTell, PTL

\* Numbers of one word.
LEMMA OneWord ==
  ASSUME Inv, n = 1
  PROVE  /\ A = a0[0] /\ B = b[0] /\ Range = WordSize /\ Range \div 2 = Half
         /\ A \in Words /\ B \in Words
<1>1. a0[0] \in Words /\ b[0] \in Words BY DEF Inv, Typed
<1>2. WordSize \in Nat \ {0} /\ Half \in Nat \ {0} /\ WordSize = 2 * Half BY Sizes
<1>3. a0[0] \in Int /\ b[0] \in Int BY <1>1, <1>2 DEF Words
<1>4. Weight(0) = 1 /\ Weight(0 + 1) = WordSize * Weight(0) BY WeightSteps
<1>5. /\ Num(a0, 0) = 0 /\ Num(a0, 0 + 1) = Num(a0, 0) + Weight(0) * a0[0]
      /\ Num(b, 0) = 0 /\ Num(b, 0 + 1) = Num(b, 0) + Weight(0) * b[0]
  BY NumSteps
<1>6. Num(a0, 1) = a0[0] /\ Num(b, 1) = b[0] /\ Weight(1) = WordSize
  BY <1>2, <1>3, <1>4, <1>5
<1>7. WordSize \div 2 = Half
  <2>1. 0 \in 0 .. 2 - 1 /\ WordSize = 2 * Half + 0 /\ 2 \in Nat \ {0} /\ WordSize \in Int
    BY <1>2
  <2>2. QED BY <1>2, <2>1, ModIs
<1>8. QED BY <1>1, <1>6, <1>7 DEF A, B, Range

\* Two words are equal if their difference vanishes.
LEMMA EqualWords ==
  ASSUME NEW x \in Words, NEW y \in Words
  PROVE  (x - y) % WordSize = 0 <=> x = y
<1>1. WordSize \in Nat \ {0} /\ x \in 0..(WordSize - 1) /\ y \in 0..(WordSize - 1)
  BY Sizes DEF Words
<1>2. PICK d \in Int : d = x - y BY <1>1
<1>3. 0 - WordSize <= d /\ d < WordSize /\ d < 2 * WordSize BY <1>1, <1>2
<1>4. PICK z \in Int : /\ z = d % WordSize
                       /\ d < 0 => z = d + WordSize
                       /\ d >= 0 /\ d < WordSize => z = d
  BY <1>3, WordOf
<1>5. z = 0 <=> x = y BY <1>1, <1>2, <1>3, <1>4
<1>6. QED BY <1>2, <1>4, <1>5

\* For words of any size and numbers of any length, JL and JNL after a
\* difference compare the signed numbers; for numbers of one word JZ, JNG, JA
\* and JNA compare them too (Op::Ja, Jl, Jna, Jng, Jnl, Jz).
THEOREM JumpsTell == Spec => []JumpsCompare
<1>1. Inv /\ Flagged /\ LongDifference => JumpsCompare
  <2> SUFFICES ASSUME Inv, Flagged, LongDifference, pc = "done", kind \in Differences, lea
               PROVE  LET x == Signed(A, Range \div 2)
                          y == Signed(B, Range \div 2) + c0
                      IN  /\ Jl(flags) <=> x < y
                          /\ Jnl(flags) <=> x >= y
                          /\ n = 1 =>
                               /\ Jz(flags) <=> (A - B - c0) % Range = 0
                               /\ c0 = 0 => (Jng(flags) <=> x <= y)
                               /\ (Plain /\ c0 = 0) => /\ Ja(flags) <=> A > B
                                                       /\ Jna(flags) <=> A <= B
    BY DEF JumpsCompare
  <2>1. PICK k \in Nat : n = k + 1
    <3>1. n - 1 \in Nat /\ n = (n - 1) + 1 BY DEF Inv, Typed
    <3>2. QED BY <3>1
  <2>2. Done - 1 = k BY <2>1 DEF Inv, Placed, Done
  <2>3. FlagsFit(k) BY <2>2 DEF Flagged
  <2> DEFINE x == Signed(A, Range \div 2)
             y == Signed(B, Range \div 2)
             s == flags.sign
             o == flags.overflow
             z == flags.zero
  <2>4. /\ s \in BOOLEAN /\ o \in BOOLEAN /\ z \in BOOLEAN
        /\ ~(s <=> o) <=> Signed(a0[k], Half) < Signed(b[k], Half) + Carried(k)
        /\ z <=> (a0[k] - b[k] - Carried(k)) % WordSize = 0
        /\ Carried(k) = 0 /\ z => ~s /\ ~o
    BY <2>3 DEF FlagsFit
  <2>5. x \in Int /\ y \in Int /\ c0 \in {0, 1} BY <2>1, LastWord DEF Inv, Typed
  <2>6. x < y + c0 <=> Signed(a0[k], Half) < Signed(b[k], Half) + Carried(k)
    BY <2>1, LastWord
  <2> HIDE DEF x, y
  <2>7. ~(s <=> o) <=> x < y + c0 BY <2>4, <2>6
  <2>8. x >= y + c0 <=> ~(x < y + c0) BY <2>5
  <2>9. Jl(flags) <=> x < y + c0 BY <2>4, <2>7, Differ DEF Jl
  <2>10. Jnl(flags) <=> x >= y + c0 BY <2>4, <2>7, <2>8 DEF Jnl
  <2>11. ASSUME n = 1
         PROVE  /\ Jz(flags) <=> (A - B - c0) % Range = 0
                /\ c0 = 0 => (Jng(flags) <=> x <= y + c0)
                /\ (Plain /\ c0 = 0) => /\ Ja(flags) <=> A > B
                                        /\ Jna(flags) <=> A <= B
    <3>1. k = 0 /\ Carried(k) = c0 BY <2>1, <2>11 DEF Carried
    <3>2. /\ A = a0[0] /\ B = b[0] /\ Range = WordSize /\ A \in Words /\ B \in Words
          /\ Range \div 2 = Half
      BY <2>11, OneWord
    <3>3. Jz(flags) <=> (A - B - c0) % Range = 0 BY <2>4, <3>1, <3>2 DEF Jz
    <3>4. ASSUME c0 = 0
          PROVE  /\ z <=> A = B
                 /\ A \in Int /\ B \in Int
      <4>1. A \in Int /\ B \in Int BY <3>2, Sizes DEF Words
      <4>2. A - B - c0 = A - B BY <3>4, <4>1
      <4>3. z <=> (A - B) % WordSize = 0 BY <3>2, <3>3, <4>2 DEF Jz
      <4>4. QED BY <3>2, <4>1, <4>3, EqualWords
    <3>5. ASSUME c0 = 0
          PROVE  Jng(flags) <=> x <= y + c0
      <4>1. A = B => x = y BY DEF x, y
      <4>2. x = y => A = B
        <5>1. /\ WordSize \in Nat \ {0} /\ Half \in Nat \ {0} /\ WordSize = 2 * Half
              /\ A \in 0..(WordSize - 1) /\ B \in 0..(WordSize - 1)
          BY <3>2, Sizes DEF Words
        <5>2. x = Signed(A, Half) /\ y = Signed(B, Half) BY <3>2 DEF x, y
        <5>3. QED BY <5>1, <5>2 DEF Signed
      <4>3. z <=> x = y BY <3>4, <3>5, <4>1, <4>2
      <4>4. z => ~s /\ ~o BY <2>4, <3>1, <3>5
      <4>5. x < y + c0 <=> x < y BY <2>5, <3>5
      <4>6. x <= y + c0 <=> x < y \/ x = y BY <2>5, <3>5
      <4>7. x = y => ~(x < y) BY <2>5
      <4>8. (z \/ s) \in BOOLEAN OBVIOUS
      <4>9. Jng(flags) <=> ~((z \/ s) <=> o) BY <2>4, <4>8, Differ DEF Jng
      <4> HIDE DEF s, o, z
      <4>10. QED BY <2>4, <2>7, <4>3, <4>4, <4>5, <4>6, <4>7, <4>9
    <3>6. ASSUME Plain, c0 = 0
          PROVE  /\ Ja(flags) <=> A > B
                 /\ Jna(flags) <=> A <= B
      <4>1. flags.carry <=> A < B + c0 BY <3>6 DEF LongDifference
      <4>2. flags.carry <=> A < B BY <3>4, <3>6, <4>1
      <4>3. z <=> A = B BY <3>4, <3>6
      <4>4. A > B <=> ~(A < B) /\ ~(A = B) BY <3>4, <3>6
      <4>5. A <= B <=> A < B \/ A = B BY <3>4, <3>6
      <4>6. QED BY <4>2, <4>3, <4>4, <4>5 DEF Ja, Jna
    <3>7. QED BY <3>3, <3>5, <3>6
  <2>12. QED BY <2>9, <2>10, <2>11 DEF x, y
<1>2. QED BY <1>1, Invariance, FlagsTell, SubtractsNumbers, PTL
=============================================================================
