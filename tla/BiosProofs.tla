----------------------------- MODULE BiosProofs -----------------------------
(***************************************************************************)
(* Proofs about the two services of the BIOS that keep state of their own: *)
(* Keyboard (INT 16h) for every set of keys and modifiers, all tables of   *)
(* codes and any number of presses; Screen (INT 10h) for every table of    *)
(* modes, every string, every count and any writes to the CRTC.            *)
(***************************************************************************)
EXTENDS Keyboard, Screen, FiniteSetTheorems, WellFoundedInduction, TLAPS

-----------------------------------------------------------------------------
(* How often a key is in a queue.                                          *)

Entries(q, k) == {i \in DOMAIN q : q[i] = k}
CountIn(q, k) == Cardinality(Entries(q, k))

LEMMA AtFinite ==
  ASSUME NEW S, NEW q \in Seq(S), NEW k
  PROVE  IsFiniteSet(Entries(q, k)) /\ CountIn(q, k) \in Nat
<1>1. Entries(q, k) \in SUBSET (1 .. Len(q)) BY DEF Entries
<1>2. IsFiniteSet(1 .. Len(q)) BY FS_Interval
<1>3. IsFiniteSet(Entries(q, k)) BY <1>1, <1>2, FS_Subset
<1>4. QED BY <1>3, FS_CardinalityType DEF CountIn

\* A press that is queued counts once more.
LEMMA AppendCounts ==
  ASSUME NEW S, NEW q \in Seq(S), NEW k \in S, NEW x
  PROVE  CountIn(Append(q, k), x) = CountIn(q, x) + (IF x = k THEN 1 ELSE 0)
<1> DEFINE n == Len(q) + 1
           r == Append(q, k)
<1>1. DOMAIN r = 1 .. n /\ r[n] = k /\ \A i \in 1 .. Len(q) : r[i] = q[i]
  OBVIOUS
<1>2. DOMAIN q = 1 .. Len(q) /\ 1 .. n = (1 .. Len(q)) \cup {n} /\ n \notin 1 .. Len(q)
  OBVIOUS
<1> HIDE DEF r, n
<1>3. IsFiniteSet(Entries(q, x)) /\ CountIn(q, x) \in Nat BY AtFinite
<1>4. n \notin Entries(q, x) BY <1>2 DEF Entries
<1>5. CASE x = k
  <2>1. Entries(r, x) = Entries(q, x) \cup {n} BY <1>1, <1>2, <1>5 DEF Entries
  <2>2. Cardinality(Entries(r, x)) = Cardinality(Entries(q, x)) + 1
    BY <1>3, <1>4, <2>1, FS_AddElement
  <2>3. QED BY <1>5, <2>2 DEF CountIn, r
<1>6. CASE x # k
  <2>1. Entries(r, x) = Entries(q, x) BY <1>1, <1>2, <1>6 DEF Entries
  <2>2. QED BY <1>3, <1>6, <2>1 DEF CountIn, r
<1>7. QED BY <1>5, <1>6

\* What consume removes: the first entry that is equal to e.
LEMMA FirstOf ==
  ASSUME NEW S, NEW q \in Seq(S), NEW e, \E i \in 1 .. Len(q) : q[i] = e
  PROVE  \E m \in 1 .. Len(q) : q[m] = e /\ RemoveFirst(q, e) = RemoveAt(q, m)
<1> DEFINE I == {i \in 1 .. Len(q) : q[i] = e}
<1>1. I \in SUBSET Nat /\ I # {} OBVIOUS
<1> DEFINE Earlier == OpToRel(<, Nat)
<1>0. PICK m \in I : \A j \in I : ~(<<j, m>> \in Earlier)
  <2>1. IsWellFoundedOn(Earlier, Nat) BY NatLessThanWellFounded
  <2> HIDE DEF Earlier, I
  <2>2. QED BY <1>1, <2>1, WFMin
<1>2. \A j \in I : m <= j
  <2> TAKE j \in I
  <2>1. j \in Nat /\ m \in Nat OBVIOUS
  <2>2. ~(j < m) BY <1>0, <2>1 DEF OpToRel
  <2>3. QED BY <2>1, <2>2
<1>3. Min(I) = m
  <2>1. m \in I /\ \A j \in I : m =< j BY <1>0, <1>2
  <2>2. \A j \in I : (\A i \in I : j =< i) => j = m BY <1>1, <2>1
  <2> HIDE DEF I
  <2>3. QED BY <2>1, <2>2 DEF Min
<1>4. SelectInSeq(q, LAMBDA v : v = e) = m BY <1>1, <1>3 DEF SelectInSeq
<1>5. RemoveFirst(q, e) = RemoveAt(q, m) BY <1>4 DEF RemoveFirst
<1>6. QED BY <1>0, <1>5

\* What is left when entry m is taken out of a queue.
LEMMA Removed ==
  ASSUME NEW S, NEW q \in Seq(S), NEW m \in 1 .. Len(q)
  PROVE  /\ RemoveAt(q, m) \in Seq(S)
         /\ Len(RemoveAt(q, m)) = Len(q) - 1
         /\ \A i \in 1 .. Len(q) - 1 : RemoveAt(q, m)[i] = IF i < m THEN q[i] ELSE q[i + 1]
<1> DEFINE before == SubSeq(q, 1, m - 1)
           after == SubSeq(q, m + 1, Len(q))
<1>1. /\ before \in Seq(S) /\ Len(before) = m - 1
      /\ \A i \in 1 .. m - 1 : before[i] = q[i]
  OBVIOUS
<1>2. /\ after \in Seq(S) /\ Len(after) = Len(q) - m
      /\ \A i \in 1 .. Len(q) - m : after[i] = q[m + i]
  OBVIOUS
<1>3. RemoveAt(q, m) = before \o after BY DEF RemoveAt
<1> HIDE DEF before, after
<1> DEFINE r == before \o after
<1>4. r \in Seq(S) /\ Len(r) = Len(q) - 1 BY <1>1, <1>2
<1>5. ASSUME NEW i \in 1 .. Len(q) - 1 PROVE r[i] = IF i < m THEN q[i] ELSE q[i + 1]
  <2>1. CASE i < m
    <3>1. i \in 1 .. m - 1 BY <2>1
    <3>2. r[i] = before[i] BY <1>1, <1>2, <3>1
    <3>3. QED BY <1>1, <2>1, <3>1, <3>2
  <2>2. CASE ~(i < m)
    <3>1. i - (m - 1) \in 1 .. Len(q) - m BY <2>2
    <3>2. r[i] = after[i - (m - 1)] BY <1>1, <1>2, <2>2, <3>1
    <3>3. m + (i - (m - 1)) = i + 1 OBVIOUS
    <3>4. QED BY <1>2, <2>2, <3>1, <3>2, <3>3
  <2>3. QED BY <2>1, <2>2
<1>6. QED BY <1>3, <1>4, <1>5

\* The key that is removed counts once less, the others as before.
LEMMA RemoveCounts ==
  ASSUME NEW S, NEW q \in Seq(S), NEW m \in 1 .. Len(q), NEW x
  PROVE  CountIn(RemoveAt(q, m), x) = CountIn(q, x) - (IF x = q[m] THEN 1 ELSE 0)
<1> DEFINE r == RemoveAt(q, m)
           rest == Entries(q, x) \ {m}
           f == [j \in Entries(r, x) |-> IF j < m THEN j ELSE j + 1]
<1>1. /\ r \in Seq(S) /\ Len(r) = Len(q) - 1
      /\ \A i \in 1 .. Len(q) - 1 : r[i] = IF i < m THEN q[i] ELSE q[i + 1]
  BY Removed
<1> HIDE DEF r
<1>2. IsFiniteSet(Entries(q, x)) /\ IsFiniteSet(Entries(r, x)) /\ CountIn(q, x) \in Nat
  BY <1>1, AtFinite
<1>3. f \in Bijection(Entries(r, x), rest)
  <2>1. Entries(r, x) = {j \in 1 .. Len(q) - 1 : r[j] = x} /\ Entries(q, x) = {i \in 1 .. Len(q) : q[i] = x}
    BY <1>1 DEF Entries
  <2>2. \A j \in Entries(r, x) : f[j] \in rest
    BY <1>1, <2>1
  <2>3. \A i, j \in Entries(r, x) : f[i] = f[j] => i = j
    BY <2>1
  <2>4. ASSUME NEW i \in rest PROVE \E j \in Entries(r, x) : f[j] = i
    <3>1. CASE i < m
      <4>1. i \in Entries(r, x) BY <1>1, <2>1, <3>1
      <4>2. QED BY <3>1, <4>1
    <3>2. CASE ~(i < m)
      <4>1. i - 1 \in Entries(r, x) /\ ~(i - 1 < m) BY <1>1, <2>1, <3>2
      <4>2. QED BY <2>1, <4>1
    <3>3. QED BY <3>1, <3>2
  <2>5. f \in [Entries(r, x) -> rest] BY <2>2
  <2> HIDE DEF f, rest
  <2>6. QED BY <2>3, <2>4, <2>5 DEF Bijection, Injection, Surjection, IsInjective
<1>4. IsFiniteSet(rest) /\ Cardinality(rest) = Cardinality(Entries(r, x))
  BY <1>2, <1>3, FS_Bijection DEF ExistsBijection
<1>5. Cardinality(rest) = IF m \in Entries(q, x) THEN Cardinality(Entries(q, x)) - 1 ELSE Cardinality(Entries(q, x))
  BY <1>2, FS_RemoveElement
<1>6. m \in Entries(q, x) <=> x = q[m] BY DEF Entries
<1>7. QED BY <1>2, <1>4, <1>5, <1>6 DEF CountIn, r
-----------------------------------------------------------------------------
(* The invariant.                                                          *)

KeyTypes ==
  /\ keypresses \in Seq(Keypress)
  /\ told \in [Codes -> Nat]
  /\ obf \in BOOLEAN

\* What AH=01h showed is still what AH=00h takes.
PeekShown == peeked # Stale => peeked = PeekCode(keypresses)

KeyInv == KeyTypes /\ PeekShown /\ StatusCoversQueue

LEMMA CodeIn == ASSUME NEW k \in Keypress PROVE Code(k) \in Codes
<1>1. k.keycode \in Keycodes BY DEF Keypress
<1>2. Normal[k.keycode] \in Codes /\ Shifted[k.keycode] \in Codes BY <1>1 DEF Codes
<1>3. 0 \in Codes BY DEF Codes
<1>4. QED BY <1>2, <1>3 DEF Code

\* The newest press, while there is one.
LEMMA Newest ==
  ASSUME KeyTypes, keypresses # << >>
  PROVE  /\ Len(keypresses) \in 1 .. Len(keypresses)
         /\ PeekKeypress(keypresses) = keypresses[Len(keypresses)]
         /\ PeekKeypress(keypresses) \in Keypress
         /\ PeekCode(keypresses) = Code(PeekKeypress(keypresses))
<1>1. Len(keypresses) \in 1 .. Len(keypresses) BY DEF KeyTypes
<1>2. PeekKeypress(keypresses) = keypresses[Len(keypresses)] BY DEF PeekKeypress, Last
<1>3. PeekKeypress(keypresses) \in Keypress BY <1>1, <1>2 DEF KeyTypes
<1>4. QED BY <1>1, <1>2, <1>3 DEF PeekCode

\* A read takes one press of the newest key and tells its code.
LEMMA Consumed ==
  ASSUME KeyTypes, keypresses # << >>, ConsumePeeked, NEW k, k = PeekKeypress(keypresses)
  PROVE  /\ keypresses' \in Seq(Keypress)
         /\ told' = [told EXCEPT ![Code(k)] = @ + 1]
         /\ CountIn(keypresses, k) > 0
         /\ \A x : CountIn(keypresses', x) = CountIn(keypresses, x) - (IF x = k THEN 1 ELSE 0)
<1> DEFINE q == keypresses
<1>1. q \in Seq(Keypress) BY DEF KeyTypes
<1>2. Len(q) \in 1 .. Len(q) /\ q[Len(q)] = k /\ PeekCode(q) = Code(k) BY Newest
<1>3. PICK m \in 1 .. Len(q) : q[m] = k /\ RemoveFirst(q, k) = RemoveAt(q, m)
  BY <1>1, <1>2, FirstOf
<1>4. keypresses' = RemoveAt(q, m) BY <1>3 DEF ConsumePeeked, Consume
<1>5. told' = [told EXCEPT ![Code(k)] = @ + 1] BY <1>2 DEF ConsumePeeked
<1>6. CountIn(q, k) > 0
  <2>1. m \in Entries(q, k) BY <1>3 DEF Entries
  <2>2. IsFiniteSet(Entries(q, k)) /\ CountIn(q, k) \in Nat BY <1>1, AtFinite
  <2>3. CountIn(q, k) # 0 BY <2>1, <2>2, FS_EmptySet DEF CountIn
  <2>4. QED BY <2>2, <2>3
<1>7. \A x : CountIn(keypresses', x) = CountIn(q, x) - (IF x = k THEN 1 ELSE 0)
  BY <1>1, <1>3, <1>4, RemoveCounts
<1>8. keypresses' \in Seq(Keypress) BY <1>1, <1>3, <1>4, Removed
<1>9. QED BY <1>5, <1>6, <1>7, <1>8
-----------------------------------------------------------------------------
(* KeysInvariant.                                                             *)

LEMMA KeyInitInv == ASSUME KeyInit PROVE KeyInv
<1>1. keypresses \in Seq(Keypress) /\ told \in [Codes -> Nat] /\ obf \in BOOLEAN
  <2>1. keypresses = << >> /\ told = [c \in Codes |-> 0] /\ obf = FALSE BY DEF KeyInit
  <2>2. [c \in Codes |-> 0] \in [Codes -> Nat] OBVIOUS
  <2>3. << >> \in Seq(Keypress) OBVIOUS
  <2>4. QED BY <2>1, <2>2, <2>3, Zenon
<1>2. QED BY <1>1 DEF KeyInit, KeyInv, KeyTypes, PeekShown, StatusCoversQueue

\* A read of a key through INT 16h or port 60h.
LEMMA ReadInv ==
  ASSUME KeyInv, ConsumePeeked, peeked' = Stale, obf' = obf
  PROVE  KeyInv'
<1>1. CASE keypresses = << >>
  <2>1. keypresses' = << >> /\ told' = told
    BY <1>1 DEF ConsumePeeked, Consume, RemoveFirst
  <2>2. << >> \in Seq(Keypress) OBVIOUS
  <2>3. QED BY <2>1, <2>2 DEF KeyInv, KeyTypes, PeekShown, StatusCoversQueue
<1>2. CASE keypresses # << >>
  <2>1. PICK k : k = PeekKeypress(keypresses) OBVIOUS
  <2>2. keypresses' \in Seq(Keypress) /\ told' = [told EXCEPT ![Code(k)] = @ + 1]
    BY <1>2, <2>1, Consumed DEF KeyInv
  <2>3. told' \in [Codes -> Nat]
    <3>1. Code(k) \in Codes BY <1>2, <2>1, Newest, CodeIn DEF KeyInv
    <3>2. QED BY <2>2, <3>1 DEF KeyInv, KeyTypes
  <2>4. (StatusByte % 2 = 1)' BY <1>2 DEF KeyInv, StatusCoversQueue, StatusByte
  <2>5. QED BY <2>2, <2>3, <2>4 DEF KeyInv, KeyTypes, PeekShown, StatusCoversQueue
<1>3. QED BY <1>1, <1>2

\* A call or a read of a port that takes no key.
LEMMA LookInv ==
  ASSUME KeyInv, UNCHANGED <<keypresses, obf, told>>, peeked' \in {peeked, PeekCode(keypresses)}
  PROVE  KeyInv'
<1>1. PeekCode(keypresses)' = PeekCode(keypresses) BY DEF PeekCode, PeekKeypress
<1>2. PeekShown' BY <1>1 DEF KeyInv, PeekShown
<1>3. KeyTypes' BY DEF KeyInv, KeyTypes
<1>4. StatusCoversQueue' BY DEF KeyInv, StatusCoversQueue, StatusByte
<1>5. QED BY <1>2, <1>3, <1>4 DEF KeyInv

LEMMA AddInv == ASSUME KeyInv, NEW k \in Keypress, AddKeypress(k) PROVE KeyInv'
<1>1. keypresses' \in Seq(Keypress) BY DEF KeyInv, KeyTypes, AddKeypress
<1>2. KeyTypes' BY <1>1 DEF KeyInv, KeyTypes, AddKeypress
<1>3. StatusByte' = 21 BY DEF AddKeypress, StatusByte
<1>4. QED BY <1>2, <1>3 DEF KeyInv, PeekShown, StatusCoversQueue, AddKeypress

LEMMA KeyNextInv == ASSUME KeyInv, [KeyNext]_keyVars PROVE KeyInv'
<1>1. CASE ReadKey BY <1>1, ReadInv DEF ReadKey
<1>2. CASE InData BY <1>2, ReadInv DEF InData
<1>3. CASE CheckKey BY <1>3, LookInv DEF CheckKey
<1>4. CASE CheckEnhanced BY <1>4, LookInv DEF CheckEnhanced
<1>5. CASE OtherFunction BY <1>5, LookInv DEF OtherFunction
<1>6. CASE InStatus BY <1>6, LookInv DEF InStatus
<1>7. CASE InPortB BY <1>7, LookInv DEF InPortB
<1>8. CASE \E k \in Keypress : AddKeypress(k) BY <1>8, AddInv
<1>9. CASE UNCHANGED keyVars BY <1>9, LookInv DEF keyVars
<1>10. QED
  BY <1>1, <1>2, <1>3, <1>4, <1>5, <1>6, <1>7, <1>8, <1>9 DEF KeyNext, Guest

\* The types, the status bit and what AH=01h showed, for any number of presses.
THEOREM KeysInvariant == KeySpec => []KeyInv
<1>1. KeyInit => KeyInv BY KeyInitInv
<1>2. KeyInv /\ [KeyNext]_keyVars => KeyInv' BY KeyNextInv
<1>3. QED BY <1>1, <1>2, PTL DEF KeySpec

\* A guest that reads port 60h while bit 0 of port 64h is set leaves no press
\* behind (StatusRegister::as_u8 and the queue).
THEOREM StatusCovers == KeySpec => []StatusCoversQueue
<1>1. KeyInv => StatusCoversQueue BY DEF KeyInv
<1>2. QED BY <1>1, KeysInvariant, PTL

\* AH=00h takes what AH=01h showed (Keyboard::int).
THEOREM ReadsPeeked == KeySpec => ReadReturnsPeeked
<1>1. KeyInv /\ [KeyNext]_keyVars => [ReadKey /\ peeked # Stale => ah' = peeked]_keyVars
  BY DEF KeyInv, PeekShown, ReadKey
<1>2. QED BY <1>1, KeysInvariant, PTL DEF KeySpec, ReadReturnsPeeked
-----------------------------------------------------------------------------
(* The refinement.                                                         *)

Pending == [k \in Keypress |-> CountIn(keypresses, k)]

LEMMA PressesCounted == Pending = [k \in Keypress |-> Count(k)]
BY DEF Pending, Count, CountIn, Entries

\* A press goes into the bag.
LEMMA AddPuts ==
  ASSUME KeyInv, NEW k \in Keypress, AddKeypress(k)
  PROVE  Pending' = [Pending EXCEPT ![k] = @ + 1] /\ told' = told
<1>1. keypresses \in Seq(Keypress) /\ keypresses' = Append(keypresses, k) /\ told' = told
  BY DEF KeyInv, KeyTypes, AddKeypress
<1>2. \A x \in Keypress : CountIn(keypresses', x) = CountIn(keypresses, x) + (IF x = k THEN 1 ELSE 0)
  BY <1>1, AppendCounts
<1>3. \A x \in Keypress : CountIn(keypresses, x) \in Nat BY <1>1, AtFinite
<1>4. Pending' = [Pending EXCEPT ![k] = @ + 1]
  <2>1. Pending' = [x \in Keypress |-> CountIn(keypresses', x)] BY DEF Pending
  <2>2. [Pending EXCEPT ![k] = @ + 1]
          = [x \in Keypress |-> IF x = k THEN CountIn(keypresses, k) + 1 ELSE CountIn(keypresses, x)]
    BY DEF Pending
  <2>3. \A x \in Keypress :
          CountIn(keypresses', x) = IF x = k THEN CountIn(keypresses, k) + 1 ELSE CountIn(keypresses, x)
    BY <1>2, <1>3
  <2>4. QED BY <2>1, <2>2, <2>3, Zenon
<1>5. QED BY <1>1, <1>4

\* A read takes the key it tells of out of the bag; from an empty queue it
\* takes and tells nothing.
LEMMA ReadTakes ==
  ASSUME KeyInv, ConsumePeeked
  PROVE  \/ Pending' = Pending /\ told' = told
         \/ \E k \in Keypress : /\ Pending[k] > 0
                                /\ Pending' = [Pending EXCEPT ![k] = @ - 1]
                                /\ told' = [told EXCEPT ![Code(k)] = @ + 1]
<1>1. CASE keypresses = << >>
  <2>1. keypresses' = keypresses /\ told' = told
    BY <1>1 DEF ConsumePeeked, Consume, RemoveFirst
  <2>2. QED BY <2>1 DEF Pending
<1>2. CASE keypresses # << >>
  <2>1. PICK k : k = PeekKeypress(keypresses) OBVIOUS
  <2>2. k \in Keypress BY <1>2, <2>1, Newest DEF KeyInv
  <2>3. /\ told' = [told EXCEPT ![Code(k)] = @ + 1]
        /\ CountIn(keypresses, k) > 0
        /\ \A x : CountIn(keypresses', x) = CountIn(keypresses, x) - (IF x = k THEN 1 ELSE 0)
    BY <1>2, <2>1, Consumed DEF KeyInv
  <2>4. \A x \in Keypress : CountIn(keypresses, x) \in Nat BY AtFinite DEF KeyInv, KeyTypes
  <2>5. Pending' = [Pending EXCEPT ![k] = @ - 1]
    <3>1. Pending' = [x \in Keypress |-> CountIn(keypresses', x)] BY DEF Pending
    <3>2. [Pending EXCEPT ![k] = @ - 1]
            = [x \in Keypress |-> IF x = k THEN CountIn(keypresses, k) - 1 ELSE CountIn(keypresses, x)]
      BY <2>2 DEF Pending
    <3>3. \A x \in Keypress :
            CountIn(keypresses', x) = IF x = k THEN CountIn(keypresses, k) - 1 ELSE CountIn(keypresses, x)
      BY <2>3, <2>4
    <3>4. QED BY <3>1, <3>2, <3>3, Zenon
  <2>6. Pending[k] > 0 BY <2>2, <2>3 DEF Pending
  <2>7. QED BY <2>2, <2>3, <2>5, <2>6
<1>3. QED BY <1>1, <1>2

LEMMA LookKeeps ==
  ASSUME UNCHANGED <<keypresses, told>>
  PROVE  Pending' = Pending /\ told' = told
BY DEF Pending

\* Every step puts one press into the bag, takes one out, or neither.
LEMMA KeySteps ==
  ASSUME KeyInv, [KeyNext]_keyVars
  PROVE  \/ Pending' = Pending /\ told' = told
         \/ \E k \in Keypress : \/ Pending' = [Pending EXCEPT ![k] = @ + 1] /\ told' = told
                                \/ /\ Pending[k] > 0
                                   /\ Pending' = [Pending EXCEPT ![k] = @ - 1]
                                   /\ told' = [told EXCEPT ![Code(k)] = @ + 1]
<1>1. CASE ReadKey BY <1>1, ReadTakes DEF ReadKey
<1>2. CASE InData BY <1>2, ReadTakes DEF InData
<1>3. CASE CheckKey \/ CheckEnhanced \/ OtherFunction \/ InStatus \/ InPortB
  BY <1>3, LookKeeps DEF CheckKey, CheckEnhanced, OtherFunction, InStatus, InPortB
<1>4. CASE \E k \in Keypress : AddKeypress(k) BY <1>4, AddPuts
<1>5. CASE UNCHANGED keyVars BY <1>5, LookKeeps DEF keyVars
<1>6. QED BY <1>1, <1>2, <1>3, <1>4, <1>5 DEF KeyNext, Guest

\* The queue implements the bag: for any keys, tables and number of presses,
\* in any order of presses, polls and reads each press is told once, with the
\* code of its own key (Keyboard::consume behind INT 16h and port 60h).
THEOREM Refinement == KeySpec => ReportsOnce
<1> DEFINE pending == [k \in Keypress |-> Count(k)]
<1>1. KeyInit => Bag!Init
  <2> SUFFICES ASSUME KeyInit PROVE Bag!Init OBVIOUS
  <2>1. \A k : Entries(keypresses, k) = {} BY DEF KeyInit, Entries
  <2>2. \A k : CountIn(keypresses, k) = 0 BY <2>1, FS_EmptySet DEF CountIn
  <2>3. Pending = [k \in Keypress |-> 0] BY <2>2 DEF Pending
  <2>4. QED BY <2>3, PressesCounted DEF KeyInit, Bag!Init
<1>2. KeyInv /\ [KeyNext]_keyVars => [Bag!Next]_<<pending, told>>
  <2> SUFFICES ASSUME KeyInv, [KeyNext]_keyVars PROVE [Bag!Next]_<<pending, told>> OBVIOUS
  <2>1. Pending = pending /\ Pending' = pending'
    BY DEF Pending, Count, CountIn, Entries
  <2> HIDE DEF pending
  <2>2. \/ pending' = pending /\ told' = told
        \/ \E k \in Keypress : \/ pending' = [pending EXCEPT ![k] = @ + 1] /\ told' = told
                               \/ /\ pending[k] > 0
                                  /\ pending' = [pending EXCEPT ![k] = @ - 1]
                                  /\ told' = [told EXCEPT ![Code(k)] = @ + 1]
    BY <2>1, KeySteps
  <2>3. QED BY <2>2 DEF Bag!Next, Bag!Put, Bag!Take, pending
<1>3. QED BY <1>1, <1>2, KeysInvariant, PTL DEF KeySpec, ReportsOnce, Bag!Spec
-----------------------------------------------------------------------------

(* The display: the types of its parts.                                    *)

Cursors == [row : Bytes, col : Bytes]
DataArea == [cols : 1 .. 255, size : Words, start : Words, rows : Nat,
             cheight : 1 .. 255, page : 0 .. 7, cursor : [0 .. 7 -> Cursors]]
Controller == [index : 0 .. 31, reg : [12 .. 15 -> Bytes]]
Glyphs == [at : Seq(Int), chr : Letters, ink : Int, paper : Int]
Displays == [bda : DataArea, crtc : Controller, cells : Seq(Glyphs)]

\* A register pair of the CRTC as one number.
Pair(c, hi) == c.reg[hi] * 256 + c.reg[hi + 1]

\* HardwareShowsActivePage, on a display: what the CRTC shows is active.
Shown(d, m) ==
    /\ d.bda.start = (d.bda.page * d.bda.size) % 65536
    /\ Pair(d.crtc, 12) = IF m < 8 THEN d.bda.start \div 2 ELSE d.bda.start
    /\ Pair(d.crtc, 14) = (d.bda.cursor[d.bda.page].row * d.bda.cols + d.bda.cursor[d.bda.page].col
                           + d.bda.start \div 2) % 65536

\* One cursor of the data area changed and nothing else.
Moved(d, e, page, c) ==
    e.bda = [d.bda EXCEPT !.cursor = [d.bda.cursor EXCEPT ![page] = c]]

ScreenTypes ==
    /\ mode \in DOMAIN Modes
    /\ bda \in DataArea
    /\ bda.cols = Modes[mode].cols /\ bda.size = Modes[mode].size
    /\ crtc \in Controller

ScreenInv == ScreenTypes /\ HardwareShowsActivePage /\ RepeatsRunOn /\ StringsRunOn
-----------------------------------------------------------------------------
(* Numbers.                                                                *)

Before == OpToRel(<, Nat)

LEMMA BeforeIsLess == \A x, y \in Nat : <<x, y>> \in Before <=> x < y
BY DEF Before, OpToRel

\* Induction: a set of naturals with 0 and every successor is all of them.
LEMMA AllNaturals ==
  ASSUME NEW T \in SUBSET Nat, 0 \in T, \A k \in T : k + 1 \in T
  PROVE  T = Nat
<1> DEFINE Missing == Nat \ T
<1>1. SUFFICES ASSUME Missing # {} PROVE FALSE OBVIOUS
<1>2. PICK m \in Missing : \A k \in Missing : ~ (<<k, m>> \in Before)
  <2>1. IsWellFoundedOn(Before, Nat) BY NatLessThanWellFounded DEF Before
  <2>2. Missing \subseteq Nat OBVIOUS
  <2> HIDE DEF Missing
  <2>3. QED BY <1>1, <2>1, <2>2, WFMin
<1>3. m # 0 /\ m \in Nat BY <1>2
<1>4. m - 1 \in Nat BY <1>3
<1>5. m - 1 \in T
  <2>1. m - 1 < m BY <1>3
  <2>2. <<m - 1, m>> \in Before BY <1>3, <1>4, <2>1, BeforeIsLess
  <2>3. QED BY <1>2, <1>4, <2>2
<1>6. (m - 1) + 1 \in T BY <1>5
<1>7. QED BY <1>2, <1>3, <1>6

\* Division with remainder.
LEMMA Divided ==
  ASSUME NEW m \in Nat \ {0}, NEW x \in Int
  PROVE  x % m \in 0 .. m - 1 /\ x \div m \in Int /\ x = m * (x \div m) + (x % m)
<1>1. x \div m \in Int /\ x % m \in 0 .. m - 1 OBVIOUS
<1>2. x = m * (x \div m) + (x % m) BY Z3
<1>3. QED BY <1>1, <1>2

\* The quotient and the remainder are determined.
LEMMA Unique ==
  ASSUME NEW m \in Nat \ {0}, NEW q \in Int, NEW p \in Int,
         NEW r \in 0 .. m - 1, NEW s \in 0 .. m - 1, m * q + r = m * p + s
  PROVE  r = s /\ q = p
<1>1. CASE q = p BY <1>1
<1>2. CASE q >= p + 1
  <2>1. m * q >= m * (p + 1) BY <1>2
  <2>2. m * (p + 1) = m * p + m OBVIOUS
  <2>3. QED BY <2>1, <2>2
<1>3. CASE p >= q + 1
  <2>1. m * p >= m * (q + 1) BY <1>3
  <2>2. m * (q + 1) = m * q + m OBVIOUS
  <2>3. QED BY <2>1, <2>2
<1>4. QED BY <1>1, <1>2, <1>3

\* The quotient and the remainder are recognised by what they add up to.
LEMMA ModIs ==
  ASSUME NEW m \in Nat \ {0}, NEW x \in Int, NEW q \in Int, NEW r \in 0 .. m - 1, x = m * q + r
  PROVE  x % m = r /\ x \div m = q
<1> DEFINE p == x \div m
           s == x % m
<1>1. s \in 0 .. m - 1 /\ p \in Int /\ x = m * p + s BY Divided
<1> HIDE DEF p, s
<1>2. r = s /\ q = p BY <1>1, Unique
<1>3. QED BY <1>2 DEF p, s

\* A small number is its own remainder, and so is one above it less one turn.
LEMMA SmallMod ==
  ASSUME NEW m \in Nat \ {0}, NEW r \in 0 .. m - 1
  PROVE  r % m = r /\ r \div m = 0 /\ (r - m) % m = r /\ (r - m) \div m = -1
         /\ (r + m) % m = r /\ (r + m) \div m = 1
<1>1. r = m * 0 + r /\ r - m = m * (-1) + r /\ r + m = m * 1 + r OBVIOUS
<1>2. r % m = r /\ r \div m = 0 BY <1>1, ModIs
<1>3. (r - m) % m = r /\ (r - m) \div m = -1 BY <1>1, ModIs
<1>4. (r + m) % m = r /\ (r + m) \div m = 1 BY <1>1, ModIs
<1>5. QED BY <1>2, <1>3, <1>4

LEMMA RangeIs ==
  ASSUME NEW n \in Nat
  PROVE  \A x : x \in 0 .. n <=> x \in Int /\ 0 <= x /\ x <= n
OBVIOUS

\* The words and bytes as inequalities, which the provers handle better.
LEMMA WordIs == \A x : x \in Words <=> x \in Int /\ 0 <= x /\ x < 65536
<1>1. PICK n \in Nat : n = 65535 OBVIOUS
<1>2. Words = 0 .. n BY <1>1 DEF Words
<1>3. \A x : x \in Words <=> x \in Int /\ 0 <= x /\ x <= n BY <1>2, RangeIs
<1>4. \A x \in Int : x < 65536 <=> x <= n BY <1>1
<1>5. QED BY <1>3, <1>4

LEMMA ByteIs == \A x : x \in Bytes <=> x \in Int /\ 0 <= x /\ x < 256
BY DEF Bytes

\* What is cut to 16 bits is a word.
LEMMA Wrapped ==
  ASSUME NEW x \in Int
  PROVE  x % 65536 \in Words
<1>1. 65536 \in Nat \ {0} OBVIOUS
<1>2. PICK m \in Nat \ {0} : m = 65536 BY <1>1
<1>3. PICK y \in Int : y = x % m /\ 0 <= y /\ y < m
  <2>1. x % m \in 0 .. m - 1 BY Divided
  <2>2. QED BY <2>1
<1>4. y \in Words BY <1>2, <1>3, WordIs
<1>5. QED BY <1>2, <1>3, <1>4

\* The two bytes of a word make it up again.
LEMMA WordSplit ==
  ASSUME NEW word \in Words, NEW h, NEW l, h = (word \div 256) % 256, l = word % 256
  PROVE  h \in Bytes /\ l \in Bytes /\ h * 256 + l = word
<1>1. word \in Int /\ 0 <= word /\ word < 65536 BY WordIs
<1>2. PICK q \in Int : q = word \div 256 BY <1>1
<1>3. l \in Int /\ 0 <= l /\ l < 256 /\ word = 256 * q + l
  <2>1. 256 \in Nat \ {0} OBVIOUS
  <2>2. word % 256 \in 0 .. 256 - 1 /\ word = 256 * q + (word % 256) BY <1>1, <1>2, <2>1, Divided
  <2>3. QED BY <2>2
<1>4. 0 <= q /\ q < 256 BY <1>1, <1>2, <1>3
<1>5. h = q
  <2>1. q \in 0 .. 256 - 1 /\ 256 \in Nat \ {0} BY <1>2, <1>4
  <2>2. q % 256 = q BY <2>1, SmallMod
  <2>3. QED BY <1>2, <2>2
<1>6. q \in Bytes /\ l \in Bytes BY <1>3, <1>4, ByteIs
<1>7. q * 256 + l = word BY <1>3
<1>8. QED BY <1>5, <1>6, <1>7

\* write_current through the index: the pair written reads back as the word
\* and the other pair is as it was.
LEMMA PairWritten ==
  ASSUME NEW c \in Controller, NEW hi \in {12, 14}, NEW word \in Words
  PROVE  /\ WritePair(c, hi, word) \in Controller
         /\ Pair(WritePair(c, hi, word), hi) = word
         /\ Pair(WritePair(c, hi, word), 26 - hi) = Pair(c, 26 - hi)
<1> DEFINE h == (word \div 256) % 256
           l == word % 256
           r == WritePair(c, hi, word).reg
<1>0. h = (word \div 256) % 256 /\ l = word % 256 OBVIOUS
<1> HIDE DEF h, l
<1>1. h \in Bytes /\ l \in Bytes /\ h * 256 + l = word BY <1>0, WordSplit
<1>2. WritePair(c, hi, word) = [index |-> hi + 1, reg |-> [c.reg EXCEPT ![hi] = h, ![hi + 1] = l]]
  BY DEF WritePair, h, l
<1>3. c.reg \in [12 .. 15 -> Bytes] BY DEF Controller
<1>4. WritePair(c, hi, word) \in Controller BY <1>1, <1>2, <1>3 DEF Controller
<1>5. r = [c.reg EXCEPT ![hi] = h, ![hi + 1] = l] BY <1>2
<1> HIDE DEF r
<1>6. r[hi] = h /\ r[hi + 1] = l /\ r[26 - hi] = c.reg[26 - hi] /\ r[27 - hi] = c.reg[27 - hi]
  BY <1>3, <1>5
<1>7. Pair(WritePair(c, hi, word), hi) = word BY <1>1, <1>6 DEF Pair, r
<1>8. (26 - hi) + 1 = 27 - hi OBVIOUS
<1>9. Pair(WritePair(c, hi, word), 26 - hi) = Pair(c, 26 - hi) BY <1>6, <1>8 DEF Pair, r
<1>10. QED BY <1>4, <1>7, <1>9

\* set_cursor_pos changes one cursor in the data area, and in the CRTC at most
\* the address of the hardware cursor.
LEMMA CursorMoved ==
  ASSUME NEW d \in Displays, NEW row \in Bytes, NEW col \in Bytes, NEW page \in 0 .. 7
         , NEW e, e = SetCursorPos(d, row, col, page)
  PROVE  /\ e \in Displays
         /\ Moved(d, e, page, [row |-> row, col |-> col])
         /\ e.cells = d.cells
         /\ Pair(e.crtc, 12) = Pair(d.crtc, 12)
         /\ Pair(e.crtc, 14) = IF page = d.bda.page
                               THEN (row * d.bda.cols + col + d.bda.start \div 2) % 65536
                               ELSE Pair(d.crtc, 14)
<1> DEFINE at == [row |-> row, col |-> col]
           address == (d.bda.cols * row + col + d.bda.start \div 2) % 65536
           crtcE == IF page = d.bda.page THEN WritePair(d.crtc, 14, address) ELSE d.crtc
<1>1. d.bda \in DataArea /\ d.crtc \in Controller /\ d.cells \in Seq(Glyphs)
      /\ d = [bda |-> d.bda, crtc |-> d.crtc, cells |-> d.cells]
  BY DEF Displays
<1>2. address \in Words /\ address = (row * d.bda.cols + col + d.bda.start \div 2) % 65536
  <2>1. row \in Int /\ col \in Int /\ d.bda.cols \in Int /\ d.bda.start \in Int
    <3>1. d.bda.cols \in 1 .. 255 /\ d.bda.start \in Words BY <1>1 DEF DataArea
    <3>2. QED BY <3>1, WordIs, ByteIs
  <2>2. PICK n \in Int, s \in Int : n = d.bda.cols /\ s = d.bda.start \div 2 BY <2>1
  <2>3. n * row = row * n BY <2>1, <2>2
  <2>4. address = (row * d.bda.cols + col + d.bda.start \div 2) % 65536 BY <2>2, <2>3
  <2>5. PICK x \in Int : x = row * n + col + s BY <2>1, <2>2
  <2>6. x % 65536 \in Words BY <2>5, Wrapped
  <2>7. QED BY <2>2, <2>4, <2>5, <2>6
<1> HIDE DEF address
<1>3. e = [bda |-> [d.bda EXCEPT !.cursor = [d.bda.cursor EXCEPT ![page] = at]],
           crtc |-> crtcE, cells |-> d.cells]
  <2>1. e = [[d EXCEPT !.bda.cursor[page] = at] EXCEPT !.crtc = crtcE] BY DEF SetCursorPos, address
  <2>2. [d EXCEPT !.bda.cursor[page] = at]
        = [bda |-> [d.bda EXCEPT !.cursor = [d.bda.cursor EXCEPT ![page] = at]],
           crtc |-> d.crtc, cells |-> d.cells]
    BY <1>1
  <2> HIDE DEF crtcE, at
  <2>3. QED BY <2>1, <2>2
<1>4. crtcE \in Controller
      /\ Pair(crtcE, 12) = Pair(d.crtc, 12)
      /\ Pair(crtcE, 14) = IF page = d.bda.page THEN address ELSE Pair(d.crtc, 14)
  <2>1. 14 \in {12, 14} /\ 26 - 14 = 12 OBVIOUS
  <2>2. WritePair(d.crtc, 14, address) \in Controller
        /\ Pair(WritePair(d.crtc, 14, address), 14) = address
        /\ Pair(WritePair(d.crtc, 14, address), 12) = Pair(d.crtc, 12)
    BY <1>1, <1>2, <2>1, PairWritten
  <2>3. QED BY <1>1, <2>2
<1> HIDE DEF crtcE
<1>5. [d.bda EXCEPT !.cursor = [d.bda.cursor EXCEPT ![page] = at]] \in DataArea
  BY <1>1 DEF DataArea, Cursors
<1>6. e \in Displays BY <1>1, <1>3, <1>4, <1>5 DEF Displays
<1>7. e.crtc = crtcE /\ e.cells = d.cells /\ Moved(d, e, page, at) BY <1>3 DEF Moved
<1>8. QED BY <1>2, <1>4, <1>6, <1>7

\* A cursor of whichever page is moved: what is shown stays what is active.
LEMMA CursorShown ==
  ASSUME NEW d \in Displays, NEW row \in Bytes, NEW col \in Bytes, NEW page \in 0 .. 7,
         NEW m, Shown(d, m)
  PROVE  Shown(SetCursorPos(d, row, col, page), m)
<1> DEFINE e == SetCursorPos(d, row, col, page)
<1>1. Moved(d, e, page, [row |-> row, col |-> col])
      /\ Pair(e.crtc, 12) = Pair(d.crtc, 12)
      /\ Pair(e.crtc, 14) = IF page = d.bda.page
                            THEN (row * d.bda.cols + col + d.bda.start \div 2) % 65536
                            ELSE Pair(d.crtc, 14)
  BY CursorMoved
<1> HIDE DEF e
<1>2. d.bda \in DataArea BY DEF Displays
<1>3. e.bda.start = d.bda.start /\ e.bda.page = d.bda.page /\ e.bda.size = d.bda.size
      /\ e.bda.cols = d.bda.cols
      /\ e.bda.cursor = [d.bda.cursor EXCEPT ![page] = [row |-> row, col |-> col]]
  BY <1>1, <1>2 DEF Moved, DataArea
<1>4. CASE page = d.bda.page
  <2>1. e.bda.cursor[page] = [row |-> row, col |-> col] BY <1>2, <1>3 DEF DataArea
  <2>2. QED BY <1>1, <1>3, <1>4, <2>1 DEF Shown, e
<1>5. CASE page # d.bda.page
  <2>1. e.bda.cursor[d.bda.page] = d.bda.cursor[d.bda.page] BY <1>2, <1>3, <1>5 DEF DataArea
  <2>2. QED BY <1>1, <1>3, <1>5, <2>1 DEF Shown, e
<1>6. QED BY <1>4, <1>5

LEMMA Halved ==
  ASSUME NEW w \in Words
  PROVE  w \div 2 \in Words
<1>1. w \in Int /\ 0 <= w /\ w < 65536 BY WordIs
<1>2. w \div 2 \in Int /\ 0 <= w \div 2 /\ w \div 2 <= w BY <1>1
<1>3. PICK h \in Int : h = w \div 2 BY <1>2
<1>4. QED BY <1>1, <1>2, <1>3, WordIs

\* set_active_page makes the CRTC show the page, whatever it showed before.
LEMMA PageShown ==
  ASSUME NEW d \in Displays, NEW m, NEW page \in 0 .. 7,
         NEW e, e = SetActivePage(d, m, page)
  PROVE  /\ e \in Displays
         /\ e.cells = d.cells
         /\ e.bda.cols = d.bda.cols /\ e.bda.size = d.bda.size
         /\ Shown(e, m)
<1> DEFINE start == (page * d.bda.size) % 65536
           shown == IF m < 8 THEN start \div 2 ELSE start
           written == WritePair(d.crtc, 12, shown)
           at == d.bda.cursor[page]
           area == [d.bda EXCEPT !.start = start, !.page = page]
           moved == [d EXCEPT !.bda = area, !.crtc = written]
<1>1. d.bda \in DataArea /\ d.crtc \in Controller /\ d.cells \in Seq(Glyphs)
      /\ d = [bda |-> d.bda, crtc |-> d.crtc, cells |-> d.cells]
  BY DEF Displays
<1>2. start \in Words
  <2>1. d.bda.size \in Words BY <1>1 DEF DataArea
  <2>2. PICK s \in Int : s = d.bda.size BY <2>1, WordIs
  <2>3. PICK x \in Int : x = page * s BY <2>2
  <2>4. x % 65536 \in Words BY <2>3, Wrapped
  <2>5. QED BY <2>2, <2>3, <2>4
<1> HIDE DEF start
<1>3. shown \in Words BY <1>2, Halved
<1> HIDE DEF shown
<1>4. written \in Controller /\ Pair(written, 12) = shown
  <2>1. 12 \in {12, 14} OBVIOUS
  <2>2. QED BY <1>1, <1>3, <2>1, PairWritten
<1>5. e = SetCursorPos(moved, at.row, at.col, page)
  BY DEF SetActivePage, CursorAt, start, shown
<1>18. area \in DataArea /\ area.page = page /\ area.start = start /\ area.cols = d.bda.cols
      /\ area.size = d.bda.size /\ area.cursor = d.bda.cursor
  <2> DEFINE first == [d.bda EXCEPT !.start = start]
  <2>1. first \in DataArea /\ first.start = start /\ first.cols = d.bda.cols
        /\ first.size = d.bda.size /\ first.cursor = d.bda.cursor
    BY <1>1, <1>2 DEF DataArea
  <2>2. area = [first EXCEPT !.page = page] OBVIOUS
  <2> HIDE DEF first, area
  <2>3. QED BY <2>1, <2>2 DEF DataArea
<1> HIDE DEF written, area
<1>6. moved = [bda |-> area, crtc |-> written, cells |-> d.cells]
  <2> DEFINE first == [d EXCEPT !.bda = area]
  <2>1. first = [bda |-> area, crtc |-> d.crtc, cells |-> d.cells] BY <1>1
  <2>2. moved = [first EXCEPT !.crtc = written] OBVIOUS
  <2> HIDE DEF first, moved
  <2>3. QED BY <2>1, <2>2
<1> HIDE DEF moved
<1>7. moved.bda = area /\ moved.crtc = written /\ moved.cells = d.cells
  BY <1>6
<1>8. moved.bda \in DataArea BY <1>7, <1>18
<1>9. moved \in Displays BY <1>1, <1>4, <1>6, <1>7, <1>8 DEF Displays
<1>10. at \in Cursors BY <1>1 DEF DataArea
<1>11. at.row \in Bytes /\ at.col \in Bytes BY <1>10 DEF Cursors
<1> HIDE DEF at
<1>12. /\ e \in Displays
       /\ Moved(moved, e, page, [row |-> at.row, col |-> at.col])
       /\ e.cells = moved.cells
       /\ Pair(e.crtc, 12) = Pair(moved.crtc, 12)
       /\ Pair(e.crtc, 14) = IF page = moved.bda.page
                             THEN (at.row * moved.bda.cols + at.col + moved.bda.start \div 2) % 65536
                             ELSE Pair(moved.crtc, 14)
  <2>1. PICK row \in Bytes, col \in Bytes : row = at.row /\ col = at.col BY <1>11
  <2>2. e = SetCursorPos(moved, row, col, page) BY <1>5, <2>1
  <2>3. /\ e \in Displays
        /\ Moved(moved, e, page, [row |-> row, col |-> col])
        /\ e.cells = moved.cells
        /\ Pair(e.crtc, 12) = Pair(moved.crtc, 12)
        /\ Pair(e.crtc, 14) = IF page = moved.bda.page
                              THEN (row * moved.bda.cols + col + moved.bda.start \div 2) % 65536
                              ELSE Pair(moved.crtc, 14)
    BY <1>9, <2>2, CursorMoved
  <2>4. QED BY <2>1, <2>3
<1>13. moved.bda.page = page /\ moved.bda.start = start /\ moved.bda.cols = d.bda.cols
       /\ moved.bda.size = d.bda.size /\ moved.bda.cursor = d.bda.cursor
  BY <1>7, <1>18
<1>14. /\ e.bda.page = page /\ e.bda.start = start /\ e.bda.cols = d.bda.cols
       /\ e.bda.size = d.bda.size
       /\ e.bda.cursor = [d.bda.cursor EXCEPT ![page] = [row |-> at.row, col |-> at.col]]
  BY <1>8, <1>12, <1>13 DEF Moved, DataArea
<1>15. e.bda.cursor[page] = [row |-> at.row, col |-> at.col]
  BY <1>1, <1>14 DEF DataArea
<1>16. Pair(e.crtc, 12) = IF m < 8 THEN start \div 2 ELSE start BY <1>4, <1>7, <1>12 DEF shown
<1>17. Pair(e.crtc, 14) = (at.row * d.bda.cols + at.col + start \div 2) % 65536 BY <1>12, <1>13
<1>21. e.bda.start = (e.bda.page * e.bda.size) % 65536 BY <1>14 DEF start
<1>19. Shown(e, m) BY <1>14, <1>15, <1>16, <1>17, <1>21 DEF Shown
<1>20. QED BY <1>7, <1>12, <1>14, <1>19

\* A data area no mode was stored in yet.
Blank == [cols : 0 .. 255, size : Words, start : Words, rows : Nat,
          cheight : 0 .. 255, page : 0 .. 7, cursor : [0 .. 7 -> Cursors]]

\* set_mode leaves page 0 of the new mode shown.
LEMMA ModeShown ==
  ASSUME NEW d, NEW m \in DOMAIN Modes, d = [bda |-> d.bda, crtc |-> d.crtc, cells |-> d.cells],
         d.bda \in Blank, d.crtc \in Controller, d.cells \in Seq(Glyphs),
         NEW e, e = ModeSet(d, m)
  PROVE  /\ e \in Displays
         /\ e.cells = d.cells
         /\ e.bda.cols = Modes[m].cols /\ e.bda.size = Modes[m].size
         /\ Shown(e, m)
<1> DEFINE stored == StoreModeInBios(d, m)
           home == [p \in 0 .. 7 |-> [row |-> 0, col |-> 0]]
           written == WritePair(stored.crtc, 14, (stored.bda.start \div 2) % 65536)
           homed == HomeCursors(stored)
           area == [d.bda EXCEPT !.cols = Modes[m].cols, !.size = Modes[m].size,
                                 !.rows = Modes[m].rows - 1, !.cheight = Modes[m].cheight]
<1>1. Modes[m].cols \in 1 .. 255 /\ Modes[m].rows - 1 \in Nat /\ Modes[m].cheight \in 1 .. 255
      /\ Modes[m].size \in Words /\ m \in Nat
  <2>1. m \in Nat /\ Modes[m].cols \in 1 .. 255 /\ Modes[m].rows - 1 \in Bytes
        /\ Modes[m].cheight \in 1 .. 255 /\ Modes[m].size \in Words
    BY ModesAssumption
  <2>2. \A x \in Bytes : x \in Nat BY ByteIs
  <2>3. QED BY <2>1, <2>2
<1>2. stored = [bda |-> area, crtc |-> d.crtc, cells |-> d.cells]
  BY DEF StoreModeInBios
<1> HIDE DEF stored
<1>3. area \in DataArea BY <1>1 DEF DataArea, Blank
<1>4. stored.bda = area /\ stored.crtc = d.crtc /\ stored.cells = d.cells BY <1>2
<1> HIDE DEF area
<1>5. homed = [bda |-> [area EXCEPT !.cursor = home], crtc |-> written, cells |-> d.cells]
  <2>1. homed = [stored EXCEPT !.bda = [stored.bda EXCEPT !.cursor = home], !.crtc = written]
    BY DEF HomeCursors
  <2> HIDE DEF home, written, homed
  <2>2. QED BY <1>2, <1>4, <2>1
<1>6. written \in Controller
  <2>1. stored.bda.start \in Words BY <1>3, <1>4 DEF DataArea
  <2>2. PICK h \in Int : h = stored.bda.start \div 2 BY <2>1, WordIs
  <2>3. h % 65536 \in Words BY <2>2, Wrapped
  <2>4. 14 \in {12, 14} OBVIOUS
  <2>5. QED BY <1>4, <2>2, <2>3, <2>4, PairWritten
<1>7. home \in [0 .. 7 -> Cursors]
  <2>1. 0 \in Bytes BY ByteIs
  <2>2. QED BY <2>1 DEF Cursors
<1> HIDE DEF homed, written, home
<1>8. [area EXCEPT !.cursor = home] \in DataArea BY <1>3, <1>7 DEF DataArea
<1>9. homed \in Displays /\ homed.cells = d.cells BY <1>5, <1>6, <1>8 DEF Displays
<1>10. homed.bda.cols = area.cols /\ homed.bda.size = area.size BY <1>3, <1>5 DEF DataArea
<1>11. area.cols = Modes[m].cols /\ area.size = Modes[m].size BY <1>1 DEF area, Blank
<1>12. e = SetActivePage(homed, m, 0) BY DEF ModeSet, homed, stored
<1>13. e \in Displays /\ e.cells = homed.cells /\ e.bda.cols = homed.bda.cols
       /\ e.bda.size = homed.bda.size /\ Shown(e, m)
  <2>1. PICK z \in 0 .. 7 : z = 0 OBVIOUS
  <2>2. e = SetActivePage(homed, m, z) BY <1>12, <2>1
  <2>3. QED BY <1>9, <2>2, PageShown
<1>14. QED BY <1>9, <1>10, <1>11, <1>13
-----------------------------------------------------------------------------
\* The display a handler begins with.
LEMMA DisplayNow ==
  ASSUME ScreenTypes
  PROVE  /\ Display \in Displays
         /\ Display.bda = bda /\ Display.crtc = crtc /\ Display.cells = <<>>
         /\ Display = [bda |-> Display.bda, crtc |-> Display.crtc, cells |-> Display.cells]
<1>1. <<>> \in Seq(Glyphs) OBVIOUS
<1>2. QED BY <1>1 DEF ScreenTypes, Display, Displays

LEMMA NowShown ==
  ASSUME HardwareShowsActivePage, ~tampered
  PROVE  Shown(Display, mode)
BY DEF Shown, Display, HardwareShowsActivePage, Register, Pair, Position

\* What a handler leaves becomes the state.
LEMMA Drawn ==
  ASSUME NEW d \in Displays, Becomes(d), mode' \in DOMAIN Modes,
         d.bda.cols = Modes[mode'].cols, d.bda.size = Modes[mode'].size
  PROVE  /\ ScreenTypes'
         /\ Shown(d, mode') => HardwareShowsActivePage'
<1>1. bda' = d.bda /\ crtc' = d.crtc BY DEF Becomes
<1>2. d.bda \in DataArea /\ d.crtc \in Controller BY DEF Displays
<1>3. ScreenTypes' BY <1>1, <1>2 DEF ScreenTypes
<1>4. ASSUME Shown(d, mode') PROVE HardwareShowsActivePage'
  BY <1>1, <1>4 DEF Shown, HardwareShowsActivePage, Register, Pair, Position
<1>5. QED BY <1>3, <1>4

LEMMA NoCall ==
  ASSUME call' = Idle
  PROVE  RepeatsRunOn' /\ StringsRunOn'
BY DEF RepeatsRunOn, StringsRunOn, Idle

LEMMA SetModeStep ==
  ASSUME ScreenInv, call = Idle, NEW m \in DOMAIN Modes, SetMode(m)
  PROVE  ScreenInv'
<1>1. ScreenTypes BY DEF ScreenInv
<1>2. Display \in Displays /\ Display = [bda |-> Display.bda, crtc |-> Display.crtc, cells |-> Display.cells]
  BY <1>1, DisplayNow
<1>3. Display.bda \in Blank /\ Display.crtc \in Controller /\ Display.cells \in Seq(Glyphs)
  <2>1. Display.bda \in DataArea /\ Display.crtc \in Controller /\ Display.cells \in Seq(Glyphs)
    BY <1>2 DEF Displays
  <2>2. QED BY <2>1 DEF DataArea, Blank
<1>4. PICK e : e = ModeSet(Display, m) OBVIOUS
<1>5. e \in Displays /\ e.bda.cols = Modes[m].cols /\ e.bda.size = Modes[m].size /\ Shown(e, m)
  BY <1>2, <1>3, <1>4, ModeShown
<1>6. Becomes(e) /\ mode' = m /\ call' = Idle BY <1>4 DEF SetMode
<1>7. ScreenTypes' /\ HardwareShowsActivePage' BY <1>5, <1>6, Drawn
<1>8. QED BY <1>6, <1>7, NoCall DEF ScreenInv

LEMMA SetCursorStep ==
  ASSUME ScreenInv, call = Idle, NEW row \in Bytes, NEW col \in Bytes, NEW page \in 0 .. 7,
         SetCursor(row, col, page)
  PROVE  ScreenInv'
<1>1. ScreenTypes /\ HardwareShowsActivePage BY DEF ScreenInv
<1>2. Display \in Displays /\ Display.bda = bda BY <1>1, DisplayNow
<1>3. PICK e : e = SetCursorPos(Display, row, col, page) OBVIOUS
<1>4. e \in Displays /\ Moved(Display, e, page, [row |-> row, col |-> col])
  BY <1>2, <1>3, CursorMoved
<1>5. Becomes(e) /\ mode' = mode /\ call' = Idle /\ tampered' = tampered BY <1>3 DEF SetCursor
<1>6. e.bda.cols = bda.cols /\ e.bda.size = bda.size
  BY <1>1, <1>2, <1>4 DEF Moved, ScreenTypes, DataArea
<1>7. ScreenTypes' /\ (Shown(e, mode') => HardwareShowsActivePage')
  BY <1>1, <1>4, <1>5, <1>6, Drawn DEF ScreenTypes
<1>8. HardwareShowsActivePage'
  <2>1. CASE tampered BY <1>5, <2>1 DEF HardwareShowsActivePage
  <2>2. CASE ~tampered
    <3>1. Shown(Display, mode) BY <1>1, <2>2, NowShown
    <3>2. Shown(e, mode) BY <1>2, <1>3, <3>1, CursorShown
    <3>3. QED BY <1>5, <1>7, <3>2
  <2>3. QED BY <2>1, <2>2
<1>9. QED BY <1>5, <1>7, <1>8, NoCall DEF ScreenInv

LEMMA SelectPageStep ==
  ASSUME ScreenInv, call = Idle, NEW page \in 0 .. 7, SelectPage(page)
  PROVE  ScreenInv'
<1>1. ScreenTypes BY DEF ScreenInv
<1>2. Display \in Displays /\ Display.bda = bda BY <1>1, DisplayNow
<1>3. PICK e : e = SetActivePage(Display, mode, page) OBVIOUS
<1>4. e \in Displays /\ e.bda.cols = bda.cols /\ e.bda.size = bda.size /\ Shown(e, mode)
  BY <1>2, <1>3, PageShown
<1>5. Becomes(e) /\ mode' = mode /\ call' = Idle BY <1>3 DEF SelectPage
<1>6. ScreenTypes' /\ HardwareShowsActivePage' BY <1>1, <1>4, <1>5, Drawn DEF ScreenTypes
<1>7. QED BY <1>5, <1>6, NoCall DEF ScreenInv

LEMMA LoadGraphicsCharsStep ==
  ASSUME ScreenInv, call = Idle, LoadGraphicsChars(13)
  PROVE  ScreenInv'
<1>1. ScreenTypes /\ HardwareShowsActivePage BY DEF ScreenInv
<1>2. bda' = [bda EXCEPT !.cheight = 16, !.rows = 13]
      /\ mode' = mode /\ crtc' = crtc /\ tampered' = tampered /\ call' = Idle
  BY DEF LoadGraphicsChars
<1>3. bda' \in DataArea /\ bda'.cols = bda.cols /\ bda'.size = bda.size /\ bda'.start = bda.start
      /\ bda'.page = bda.page /\ bda'.cursor = bda.cursor
  <2> DEFINE first == [bda EXCEPT !.cheight = 16]
  <2>1. first \in DataArea /\ first.cols = bda.cols /\ first.size = bda.size
        /\ first.start = bda.start /\ first.page = bda.page /\ first.cursor = bda.cursor
    BY <1>1 DEF ScreenTypes, DataArea
  <2>2. bda' = [first EXCEPT !.rows = 13] BY <1>2
  <2> HIDE DEF first
  <2>3. QED BY <2>1, <2>2 DEF DataArea
<1>4. ScreenTypes' BY <1>1, <1>2, <1>3 DEF ScreenTypes
<1>5. HardwareShowsActivePage'
  BY <1>1, <1>2, <1>3 DEF HardwareShowsActivePage, Register, Position
<1>6. QED BY <1>2, <1>4, <1>5, NoCall DEF ScreenInv

\* OUT to 3D4h or 3D5h: a register that shows something makes it tampered.
LEMMA PortStep ==
  ASSUME ScreenInv, call = Idle, Port
  PROVE  ScreenInv'
<1>1. ScreenTypes /\ HardwareShowsActivePage BY DEF ScreenInv
<1>2. ASSUME NEW c \in Controls, OutIndex(c[1]) PROVE ScreenInv'
  <2>1. c[1] \in Bytes BY GuestAssumption
  <2>2. PICK i \in Bytes : i = c[1] BY <2>1
  <2>3. i % 32 \in 0 .. 31 BY ByteIs
  <2>4. crtc' = [crtc EXCEPT !.index = i % 32] /\ mode' = mode /\ bda' = bda /\ call' = Idle
        /\ tampered' = tampered
    BY <1>2, <2>2 DEF OutIndex
  <2>5. crtc' \in Controller /\ crtc'.reg = crtc.reg BY <1>1, <2>3, <2>4 DEF ScreenTypes, Controller
  <2>6. ScreenTypes' BY <1>1, <2>4, <2>5 DEF ScreenTypes
  <2>7. HardwareShowsActivePage' BY <1>1, <2>4, <2>5 DEF HardwareShowsActivePage, Register, Position
  <2>8. QED BY <2>4, <2>6, <2>7, NoCall DEF ScreenInv
<1>3. ASSUME NEW c \in Controls, OutData(c[2]) PROVE ScreenInv'
  <2>1. c[2] \in Bytes BY GuestAssumption
  <2>2. PICK b \in Bytes : b = c[2] BY <2>1
  <2>3. crtc' = (IF crtc.index \in 12 .. 15 THEN [crtc EXCEPT !.reg[crtc.index] = b] ELSE crtc)
        /\ mode' = mode /\ bda' = bda /\ call' = Idle
        /\ tampered' = (tampered \/ crtc.index \in 12 .. 15)
    BY <1>3, <2>2 DEF OutData
  <2>4. crtc' \in Controller
    <3>1. CASE crtc.index \in 12 .. 15
      <4>1. crtc.reg \in [12 .. 15 -> Bytes] /\ crtc = [index |-> crtc.index, reg |-> crtc.reg]
        BY <1>1 DEF ScreenTypes, Controller
      <4>2. crtc' = [crtc EXCEPT !.reg = [crtc.reg EXCEPT ![crtc.index] = b]] BY <2>3, <3>1
      <4>3. [crtc.reg EXCEPT ![crtc.index] = b] \in [12 .. 15 -> Bytes] BY <4>1
      <4>4. QED BY <1>1, <4>2, <4>3 DEF ScreenTypes, Controller
    <3>2. CASE crtc.index \notin 12 .. 15 BY <1>1, <2>3, <3>2 DEF ScreenTypes
    <3>3. QED BY <3>1, <3>2
  <2>5. ScreenTypes' BY <1>1, <2>3, <2>4 DEF ScreenTypes
  <2>6. HardwareShowsActivePage'
    <3>1. CASE tampered' BY <3>1 DEF HardwareShowsActivePage
    <3>2. CASE ~tampered'
      <4>1. crtc.index \notin 12 .. 15 /\ ~tampered BY <2>3, <3>2
      <4>2. crtc' = crtc BY <2>3, <4>1
      <4>3. QED BY <1>1, <2>3, <4>1, <4>2 DEF HardwareShowsActivePage, Register, Position
    <3>3. QED BY <3>1, <3>2
  <2>7. QED BY <2>3, <2>5, <2>6, NoCall DEF ScreenInv
<1>4. QED BY <1>2, <1>3 DEF Port

LEMMA ReturnStep ==
  ASSUME ScreenInv, Return
  PROVE  ScreenInv'
<1>1. ScreenTypes /\ HardwareShowsActivePage BY DEF ScreenInv
<1>2. mode' = mode /\ bda' = bda /\ crtc' = crtc /\ tampered' = tampered /\ call' = Idle
  BY DEF Return
<1>3. ScreenTypes' BY <1>1, <1>2 DEF ScreenTypes
<1>4. HardwareShowsActivePage' BY <1>1, <1>2 DEF HardwareShowsActivePage, Register, Position
<1>5. QED BY <1>2, <1>3, <1>4, NoCall DEF ScreenInv

LEMMA ScreenInitInv == ScreenInit => ScreenInv
<1> SUFFICES ASSUME ScreenInit PROVE ScreenInv OBVIOUS
<1>1. Fresh = [bda |-> Fresh.bda, crtc |-> Fresh.crtc, cells |-> Fresh.cells]
      /\ Fresh.cells \in Seq(Glyphs)
  BY DEF Fresh
<1>2. Fresh.bda \in Blank /\ Fresh.crtc \in Controller
  <2>1. 0 \in Bytes /\ 0 \in Words BY ByteIs, WordIs
  <2>2. [p \in 0 .. 7 |-> [row |-> 0, col |-> 0]] \in [0 .. 7 -> Cursors] BY <2>1 DEF Cursors
  <2>3. [i \in 12 .. 15 |-> 0] \in [12 .. 15 -> Bytes] BY <2>1
  <2>4. QED BY <2>1, <2>2, <2>3 DEF Fresh, Blank, Controller
<1>3. PICK e : e = ModeSet(Fresh, 3) OBVIOUS
<1>4. 3 \in DOMAIN Modes BY ModesAssumption
<1>5. e \in Displays /\ e.bda.cols = Modes[3].cols /\ e.bda.size = Modes[3].size /\ Shown(e, 3)
  <2>1. PICK m \in DOMAIN Modes : m = 3 BY <1>4
  <2>2. e = ModeSet(Fresh, m) BY <1>3, <2>1
  <2>3. e \in Displays /\ e.bda.cols = Modes[m].cols /\ e.bda.size = Modes[m].size /\ Shown(e, m)
    BY <1>1, <1>2, <2>2, ModeShown
  <2>4. QED BY <2>1, <2>3
<1>6. mode = 3 /\ bda = e.bda /\ crtc = e.crtc /\ call = Idle BY <1>3 DEF ScreenInit
<1>7. ScreenTypes BY <1>4, <1>5, <1>6 DEF ScreenTypes, Displays
<1>8. HardwareShowsActivePage
  BY <1>5, <1>6 DEF Shown, HardwareShowsActivePage, Register, Pair, Position
<1>9. RepeatsRunOn /\ StringsRunOn BY <1>6 DEF RepeatsRunOn, StringsRunOn, Idle
<1>10. QED BY <1>7, <1>8, <1>9 DEF ScreenInv
-----------------------------------------------------------------------------
(* Places and cursors.  A cursor is at pos when counting the cells of its   *)
(* page line by line gives pos.                                            *)

At(c, cols, pos) == c \in Cursors /\ c.col < cols /\ c.row * cols + c.col = pos

\* The next place, line by line.
FollowedBy(c, cols) ==
    IF c.col + 1 = cols THEN [row |-> c.row + 1, col |-> 0] ELSE [row |-> c.row, col |-> c.col + 1]

LEMMA CursorInts ==
  ASSUME NEW c \in Cursors
  PROVE  /\ c = [row |-> c.row, col |-> c.col]
         /\ c.row \in Int /\ 0 <= c.row /\ c.row < 256 /\ c.row \in Bytes
         /\ c.col \in Int /\ 0 <= c.col /\ c.col < 256 /\ c.col \in Bytes
<1>1. c = [row |-> c.row, col |-> c.col] /\ c.row \in Bytes /\ c.col \in Bytes BY DEF Cursors
<1>2. QED BY <1>1, ByteIs

\* Following a cursor is counting on, while the row fits in a byte.
LEMMA PlaceAfter ==
  ASSUME NEW c, NEW cols \in 1 .. 255, NEW pos \in Nat, At(c, cols, pos), pos + 1 < 256 * cols
  PROVE  At(FollowedBy(c, cols), cols, pos + 1)
<1>1. c \in Cursors /\ c.col < cols /\ c.row * cols + c.col = pos BY DEF At
<1>2. PICK r \in Int, k \in Int : r = c.row /\ k = c.col /\ 0 <= r /\ r < 256 /\ 0 <= k /\ k < 256
  BY <1>1, CursorInts
<1>3. k < cols /\ r * cols + k = pos BY <1>1, <1>2
<1>4. CASE k + 1 = cols
  <2>1. FollowedBy(c, cols) = [row |-> r + 1, col |-> 0] BY <1>2, <1>4 DEF FollowedBy
  <2>2. (r + 1) * cols = r * cols + cols OBVIOUS
  <2>3. PICK x \in Int : x = r * cols OBVIOUS
  <2>4. (r + 1) * cols = pos + 1 BY <1>3, <1>4, <2>2, <2>3
  <2>5. r + 1 < 256
    <3>1. SUFFICES ASSUME r + 1 >= 256 PROVE FALSE BY <1>2
    <3>2. r = 255 BY <1>2, <3>1
    <3>3. (r + 1) * cols = 256 * cols BY <3>2
    <3>4. QED BY <2>4, <3>3
  <2>6. r + 1 \in Bytes /\ 0 \in Bytes BY <1>2, <2>5, ByteIs
  <2>7. (r + 1) * cols + 0 = pos + 1 BY <2>4
  <2> DEFINE n == [row |-> r + 1, col |-> 0]
  <2>8. n \in Cursors /\ n.row = r + 1 /\ n.col = 0 BY <2>6 DEF Cursors
  <2> HIDE DEF n
  <2>9. At(n, cols, pos + 1) BY <2>7, <2>8 DEF At
  <2>10. QED BY <2>1, <2>9 DEF n
<1>5. CASE k + 1 # cols
  <2>1. FollowedBy(c, cols) = [row |-> r, col |-> k + 1] BY <1>2, <1>5 DEF FollowedBy
  <2>2. k + 1 < cols BY <1>3, <1>5
  <2>3. r \in Bytes /\ k + 1 \in Bytes BY <1>2, <2>2, ByteIs
  <2>4. PICK x \in Int : x = r * cols OBVIOUS
  <2>5. r * cols + (k + 1) = pos + 1 BY <1>3, <2>4
  <2> DEFINE n == [row |-> r, col |-> k + 1]
  <2>6. n \in Cursors /\ n.row = r /\ n.col = k + 1 BY <2>3 DEF Cursors
  <2> HIDE DEF n
  <2>7. At(n, cols, pos + 1) BY <2>2, <2>5, <2>6 DEF At
  <2>8. QED BY <2>1, <2>7 DEF n
<1>6. QED BY <1>4, <1>5

\* Place of the properties, on any display.
PlaceIn(d, m, page, pos) ==
    IF Modes[m].kind = "TEXT" THEN <<page * d.bda.size + 2 * pos>>
    ELSE <<8 * (pos % d.bda.cols), d.bda.cheight * (pos \div d.bda.cols)>>

\* A cell that is written stands in the corner of its cursor.
LEMMA CellIs ==
  ASSUME NEW d \in Displays, NEW m, NEW c \in Cursors, NEW page \in 0 .. 7, NEW chr \in Letters,
         NEW attr \in Bytes, NEW useAttr \in BOOLEAN,
         NEW cell, cell = Cell(d, m, c.row, c.col, page, chr, attr, useAttr)
  PROVE  cell \in Glyphs
<1>1. PICK r \in Int, k \in Int : r = c.row /\ k = c.col BY CursorInts
<1>2. d.bda.size \in Int /\ d.bda.cols \in Int /\ d.bda.cheight \in Int
  <2>1. d.bda \in DataArea BY DEF Displays
  <2>2. d.bda.size \in Words /\ d.bda.cols \in 1 .. 255 /\ d.bda.cheight \in 1 .. 255
    BY <2>1 DEF DataArea
  <2>3. QED BY <2>2, WordIs
<1>3. PICK s \in Int, n \in Int, h \in Int : s = d.bda.size /\ n = d.bda.cols /\ h = d.bda.cheight
  BY <1>2
<1> DEFINE ink == Ink(Modes[m].kind, attr, useAttr)
           paper == IF Modes[m].kind = "VGA" THEN 0 ELSE (ink \div 128) * 128
<1>4. ink \in Int /\ attr \in Int /\ Keep \in Int BY ByteIs DEF Ink, Keep
<1> HIDE DEF ink
<1>5. paper \in Int BY <1>4
<1> HIDE DEF paper
<1>6. ASSUME Modes[m].kind = "TEXT" PROVE cell \in Glyphs
  <2>1. cell = [at |-> <<page * s + 2 * (r * n + k)>>, chr |-> chr,
                ink |-> IF useAttr THEN attr ELSE Keep, paper |-> Keep]
    BY <1>1, <1>3, <1>6 DEF Cell
  <2>2. PICK x \in Int : x = page * s + 2 * (r * n + k) OBVIOUS
  <2>3. <<x>> \in Seq(Int) OBVIOUS
  <2>4. QED BY <1>4, <2>1, <2>2, <2>3 DEF Glyphs
<1>7. ASSUME Modes[m].kind # "TEXT" PROVE cell \in Glyphs
  <2>1. cell = [at |-> <<8 * k, h * r>>, chr |-> chr, ink |-> ink, paper |-> paper]
    BY <1>1, <1>3, <1>7 DEF Cell, ink, paper
  <2>2. PICK x \in Int, y \in Int : x = 8 * k /\ y = h * r OBVIOUS
  <2>3. <<x, y>> \in Seq(Int) OBVIOUS
  <2>4. QED BY <1>4, <1>5, <2>1, <2>2, <2>3 DEF Glyphs
<1>8. QED BY <1>6, <1>7

\* The corner of a cursor, as write_char_internal computes it.
Corner(d, m, page, c) ==
    IF Modes[m].kind = "TEXT" THEN <<page * d.bda.size + 2 * (c.row * d.bda.cols + c.col)>>
    ELSE <<8 * c.col, d.bda.cheight * c.row>>

\* The corner of a cursor is the reference place of the position it is at.
LEMMA CornerPlaced ==
  ASSUME NEW d \in Displays, NEW m, NEW page, NEW c \in Cursors, NEW pos \in Nat,
         At(c, d.bda.cols, pos)
  PROVE  Corner(d, m, page, c) = PlaceIn(d, m, page, pos)
<1>1. d.bda.cols \in 1 .. 255
  <2>1. d.bda \in DataArea BY DEF Displays
  <2>2. QED BY <2>1 DEF DataArea
<1>2. c \in Cursors /\ c.col < d.bda.cols /\ c.row * d.bda.cols + c.col = pos BY DEF At
<1>3. PICK r \in Int, k \in Int, n \in 1 .. 255 :
         r = c.row /\ k = c.col /\ n = d.bda.cols /\ 0 <= k /\ k < n /\ r * n + k = pos
  BY <1>1, <1>2, CursorInts
<1>4. CASE Modes[m].kind = "TEXT"
  <2>1. Corner(d, m, page, c) = <<page * d.bda.size + 2 * (r * n + k)>> BY <1>3, <1>4 DEF Corner
  <2>2. QED BY <1>3, <1>4, <2>1 DEF PlaceIn
<1>5. CASE Modes[m].kind # "TEXT"
  <2>1. Corner(d, m, page, c) = <<8 * k, d.bda.cheight * r>> BY <1>3, <1>5 DEF Corner
  <2>2. pos % n = k /\ pos \div n = r
    <3>1. n \in Nat \ {0} /\ k \in 0 .. n - 1 /\ pos \in Int BY <1>3
    <3>2. n * r = r * n BY <1>3
    <3>3. pos = n * r + k BY <1>3, <3>2
    <3>4. QED BY <3>1, <3>3, ModIs
  <2>3. QED BY <1>3, <1>5, <2>1, <2>2 DEF PlaceIn
<1>6. QED BY <1>4, <1>5
-----------------------------------------------------------------------------
\* Moving a cursor twice is moving it once; moving it back changes nothing.
LEMMA MovedOn ==
  ASSUME NEW d \in Displays, NEW e, NEW f, NEW page, NEW c, NEW b,
         Moved(d, e, page, b), Moved(e, f, page, c)
  PROVE  Moved(d, f, page, c)
<1>1. d.bda \in DataArea BY DEF Displays
<1>2. e.bda = [d.bda EXCEPT !.cursor = [d.bda.cursor EXCEPT ![page] = b]]
      /\ f.bda = [e.bda EXCEPT !.cursor = [e.bda.cursor EXCEPT ![page] = c]]
  BY DEF Moved
<1> DEFINE u == [d.bda.cursor EXCEPT ![page] = b]
           v == [e.bda.cursor EXCEPT ![page] = c]
<1>3. e.bda.cursor = u BY <1>1, <1>2 DEF DataArea
<1>4. v = [d.bda.cursor EXCEPT ![page] = c] BY <1>3
<1> HIDE DEF u, v
<1>5. f.bda = [d.bda EXCEPT !.cursor = v] BY <1>1, <1>2 DEF DataArea, u, v
<1>6. QED BY <1>4, <1>5 DEF Moved

LEMMA MovedBack ==
  ASSUME NEW d \in Displays, NEW e, NEW page, Moved(d, e, page, d.bda.cursor[page])
  PROVE  e.bda = d.bda
<1>1. d.bda \in DataArea BY DEF Displays
<1>2. e.bda = [d.bda EXCEPT !.cursor = [d.bda.cursor EXCEPT ![page] = d.bda.cursor[page]]]
  BY DEF Moved
<1> DEFINE u == [d.bda.cursor EXCEPT ![page] = d.bda.cursor[page]]
<1>3. u = d.bda.cursor BY <1>1 DEF DataArea
<1> HIDE DEF u
<1>4. e.bda = [d.bda EXCEPT !.cursor = d.bda.cursor] BY <1>2, <1>3 DEF u
<1>5. QED BY <1>1, <1>4 DEF DataArea

LEMMA MovedFields ==
  ASSUME NEW d \in Displays, NEW e, NEW page \in 0 .. 7, NEW c, Moved(d, e, page, c)
  PROVE  /\ e.bda.cols = d.bda.cols /\ e.bda.size = d.bda.size /\ e.bda.cheight = d.bda.cheight
         /\ e.bda.rows = d.bda.rows
         /\ e.bda.cursor[page] = c /\ d.bda.cursor[page] \in Cursors /\ d.bda.cols \in 1 .. 255
<1>1. d.bda \in DataArea BY DEF Displays
<1>2. e.bda = [d.bda EXCEPT !.cursor = [d.bda.cursor EXCEPT ![page] = c]] BY DEF Moved
<1> DEFINE u == [d.bda.cursor EXCEPT ![page] = c]
<1>3. u[page] = c /\ d.bda.cursor[page] \in Cursors BY <1>1 DEF DataArea
<1> HIDE DEF u
<1>4. e.bda = [d.bda EXCEPT !.cursor = u] BY <1>2 DEF u
<1>5. e.bda.cursor = u /\ e.bda.cols = d.bda.cols /\ e.bda.size = d.bda.size
      /\ e.bda.cheight = d.bda.cheight /\ e.bda.rows = d.bda.rows /\ d.bda.cols \in 1 .. 255
  BY <1>1, <1>4 DEF DataArea
<1>6. QED BY <1>3, <1>5

\* The word of rows has the character height in its high byte: no row of a
\* byte reaches it, and teletype output does not clamp.
LEMMA NoRowBelow ==
  ASSUME NEW d \in Displays
  PROVE  RowsWord(d) \in Int /\ RowsWord(d) >= 256
<1>1. d.bda \in DataArea BY DEF Displays
<1>2. PICK r \in Nat, h \in 1 .. 255 : r = d.bda.rows /\ h = d.bda.cheight BY <1>1 DEF DataArea
<1>3. h % 256 = h
  <2>1. h \in 0 .. 256 - 1 /\ 256 \in Nat \ {0} OBVIOUS
  <2>2. QED BY <2>1, SmallMod
<1>4. RowsWord(d) = r + 256 * h BY <1>2, <1>3 DEF RowsWord
<1>5. QED BY <1>4

\* One character: a cell at most, a cursor that stays a pair of bytes.
OneTyped(d, e, m, chr, page) ==
    /\ e \in Displays
    /\ \E c \in Cursors : Moved(d, e, page, c)
    /\ Shown(d, m) => Shown(e, m)
    /\ (/\ chr \in Letters
        /\ \E pos \in Nat : At(d.bda.cursor[page], d.bda.cols, pos) /\ pos + 1 < 256 * d.bda.cols)
       => /\ Moved(d, e, page, FollowedBy(d.bda.cursor[page], d.bda.cols))
          /\ \E cell \in Glyphs :
                /\ e.cells = Append(d.cells, cell)
                /\ \A pos \in Nat : At(d.bda.cursor[page], d.bda.cols, pos) =>
                      cell.at = PlaceIn(d, m, page, pos)

\* What teletype_output_attr leaves of one character.
LEMMA Teletyped ==
  ASSUME NEW d \in Displays, NEW m, NEW chr \in Characters, NEW attr \in Bytes,
         NEW page \in 0 .. 7, NEW useAttr \in BOOLEAN
  PROVE  OneTyped(d, TeletypeOutputAttr(d, m, chr, attr, page, useAttr), m, chr, page)
<1>0. PICK e : e = TeletypeOutputAttr(d, m, chr, attr, page, useAttr) OBVIOUS
<1> DEFINE at == d.bda.cursor[page]
           next == TeletypeCursor(d, chr, at)
           cell == Cell(d, m, at.row, at.col, page, chr, attr, useAttr)
           drawn == IF chr \in {BS, CR, LF} THEN d ELSE [d EXCEPT !.cells = Append(@, cell)]
           row == next.row % 256
           col == next.col % 256
<1>1. d.bda \in DataArea /\ d.crtc \in Controller /\ d.cells \in Seq(Glyphs)
      /\ d = [bda |-> d.bda, crtc |-> d.crtc, cells |-> d.cells]
  BY DEF Displays
<1>2. at \in Cursors /\ d.bda.cols \in 1 .. 255 BY <1>1 DEF DataArea
<1>3. e = SetCursorPos(drawn, row, col, page) BY <1>0 DEF TeletypeOutputAttr, CursorAt
<1> HIDE DEF at
<1>4. PICK r \in Int, k \in Int, n \in 1 .. 255 :
         r = at.row /\ k = at.col /\ n = d.bda.cols /\ 0 <= r /\ r < 256 /\ 0 <= k /\ k < 256
  BY <1>2, CursorInts
<1>5. next.row \in Int /\ next.col \in Int
  BY <1>4 DEF TeletypeCursor, BS, CR, LF
<1>6. row \in Bytes /\ col \in Bytes
  <2>1. PICK x \in Int, y \in Int : x = next.row /\ y = next.col BY <1>5
  <2>2. x % 256 \in Bytes /\ y % 256 \in Bytes BY ByteIs
  <2>3. QED BY <2>1, <2>2
<1>7. chr \notin {BS, CR, LF} =>
         /\ chr \in Letters /\ cell \in Glyphs
         /\ \A pos \in Nat : At(at, d.bda.cols, pos) => cell.at = PlaceIn(d, m, page, pos)
  <2>1. chr \notin {BS, CR, LF} => chr \in Letters BY DEF Characters
  <2>2. ASSUME chr \in Letters PROVE cell \in Glyphs BY <1>2, <2>2, CellIs
  <2>3. cell.at = Corner(d, m, page, at) BY DEF Cell, Corner
  <2> HIDE DEF cell
  <2>4. \A pos \in Nat : At(at, d.bda.cols, pos) => Corner(d, m, page, at) = PlaceIn(d, m, page, pos)
    BY <1>2, CornerPlaced
  <2>5. QED BY <2>1, <2>2, <2>3, <2>4
<1> HIDE DEF cell, next
<1>8. drawn \in Displays /\ drawn.bda = d.bda /\ drawn.crtc = d.crtc
      /\ (chr \notin {BS, CR, LF} => drawn.cells = Append(d.cells, cell))
  <2>1. CASE chr \in {BS, CR, LF} BY <2>1
  <2>2. CASE chr \notin {BS, CR, LF}
    <3>1. Append(d.cells, cell) \in Seq(Glyphs) BY <1>1, <1>7, <2>2
    <3>2. drawn = [d EXCEPT !.cells = Append(d.cells, cell)] BY <2>2
    <3>3. drawn = [bda |-> d.bda, crtc |-> d.crtc, cells |-> Append(d.cells, cell)] BY <1>1, <3>2
    <3> HIDE DEF drawn
    <3>4. QED BY <1>1, <3>1, <3>3 DEF Displays
  <2>3. QED BY <2>1, <2>2
<1> HIDE DEF drawn, row, col
<1>9. e \in Displays /\ Moved(drawn, e, page, [row |-> row, col |-> col]) /\ e.cells = drawn.cells
  BY <1>3, <1>6, <1>8, CursorMoved
<1>10. Moved(d, e, page, [row |-> row, col |-> col]) BY <1>8, <1>9 DEF Moved
<1>11. [row |-> row, col |-> col] \in Cursors BY <1>6 DEF Cursors
<1>12. Shown(d, m) => Shown(e, m)
  <2>1. Shown(d, m) => Shown(drawn, m) BY <1>8 DEF Shown
  <2>2. QED BY <1>3, <1>6, <1>8, <2>1, CursorShown
<1>13. ASSUME chr \in Letters, NEW pos \in Nat, At(at, d.bda.cols, pos), pos + 1 < 256 * d.bda.cols
       PROVE  [row |-> row, col |-> col] = FollowedBy(at, d.bda.cols)
  <2>1. chr \notin {BS, CR, LF} BY <1>13, GuestAssumption
  <2>2. At(FollowedBy(at, d.bda.cols), d.bda.cols, pos + 1) BY <1>2, <1>13, PlaceAfter
  <2>3. PICK w \in Int : w = RowsWord(d) /\ w >= 256 BY NoRowBelow
  <2>4. next = FollowedBy(at, d.bda.cols)
    <3>1. k + 1 = n => next = [row |-> r + 1, col |-> 0]
      BY <1>4, <2>1, <2>3 DEF next, TeletypeCursor
    <3>2. k + 1 # n => next = [row |-> r, col |-> k + 1]
      BY <1>4, <2>1, <2>3 DEF next, TeletypeCursor
    <3>3. QED BY <1>4, <3>1, <3>2 DEF FollowedBy
  <2>5. next \in Cursors BY <2>2, <2>4 DEF At
  <2>6. next.row % 256 = next.row /\ next.col % 256 = next.col
    <3>1. PICK x \in Int, y \in Int :
             x = next.row /\ y = next.col /\ 0 <= x /\ x < 256 /\ 0 <= y /\ y < 256
      BY <2>5, CursorInts
    <3>2. 256 \in Nat \ {0} /\ x \in 0 .. 256 - 1 /\ y \in 0 .. 256 - 1 BY <3>1
    <3>3. x % 256 = x /\ y % 256 = y BY <3>2, SmallMod
    <3>4. QED BY <3>1, <3>3
  <2>7. QED BY <2>4, <2>5, <2>6, CursorInts DEF row, col
<1>14. ASSUME chr \in Letters
       PROVE  /\ cell \in Glyphs /\ e.cells = Append(d.cells, cell)
              /\ \A pos \in Nat : At(at, d.bda.cols, pos) => cell.at = PlaceIn(d, m, page, pos)
  <2>1. chr \notin {BS, CR, LF} BY <1>14, GuestAssumption
  <2>2. QED BY <1>7, <1>8, <1>9, <2>1
<1>15. OneTyped(d, e, m, chr, page)
  BY <1>9, <1>10, <1>11, <1>12, <1>13, <1>14 DEF at, OneTyped
<1>16. QED BY <1>0, <1>15

\* A string is typed one character after another.
IsTrail(f, d, m, str, page, n) ==
    f = [k \in 0 .. n |->
            IF k = 0 THEN d
            ELSE TeletypeOutputAttr(f[k - 1], m, str[k].chr, str[k].attr, page, TRUE)]

\* The recursive function of the displays after each character exists.
LEMMA TrailExists ==
  ASSUME NEW d, NEW m, NEW str, NEW page, NEW n \in Nat
  PROVE  \E f : IsTrail(f, d, m, str, page, n)
<1> DEFINE Next1(s, k) == TeletypeOutputAttr(s, m, str[k].chr, str[k].attr, page, TRUE)
           Trail(f, l) == f = [k \in 0 .. l |-> IF k = 0 THEN d ELSE Next1(f[k - 1], k)]
           T == {l \in Nat : \E f : Trail(f, l)}
<1> HIDE DEF Next1
<1>1. 0 \in T
  <2>1. Trail([k \in 0 .. 0 |-> d], 0) OBVIOUS
  <2>2. QED BY <2>1
<1>2. ASSUME NEW l \in T PROVE l + 1 \in T
  <2>1. PICK w : Trail(w, l) BY <1>2
  <2>2. l \in Nat BY <1>2
  <2> DEFINE v == [j \in 0 .. (l + 1) |-> IF j = l + 1 THEN Next1(w[l], l + 1) ELSE w[j]]
  <2>3. ASSUME NEW j \in 0 .. (l + 1)
        PROVE  v[j] = IF j = 0 THEN d ELSE Next1(v[j - 1], j)
    <3>1. CASE j = l + 1
      <4>1. j # 0 /\ j - 1 = l /\ l \in 0 .. (l + 1) /\ l # l + 1 BY <2>2, <3>1
      <4>2. v[l] = w[l] BY <4>1
      <4>3. v[j] = Next1(w[l], l + 1) BY <3>1
      <4>4. QED BY <3>1, <4>1, <4>2, <4>3
    <3>2. CASE j # l + 1
      <4>1. j \in 0 .. l BY <2>2, <3>2
      <4>2. v[j] = w[j] BY <3>2
      <4>3. w[j] = IF j = 0 THEN d ELSE Next1(w[j - 1], j) BY <2>1, <4>1
      <4>4. j # 0 => v[j - 1] = w[j - 1]
        <5>1. j # 0 => j - 1 \in 0 .. (l + 1) /\ j - 1 # l + 1 BY <2>2, <4>1
        <5>2. QED BY <5>1
      <4>5. QED BY <4>2, <4>3, <4>4
    <3>3. QED BY <3>1, <3>2
  <2>4. Trail(v, l + 1)
    <3>1. v = [j \in 0 .. (l + 1) |-> v[j]] OBVIOUS
    <3> HIDE DEF v
    <3>2. QED BY <2>3, <3>1
  <2>5. l + 1 \in Nat BY <2>2
  <2> HIDE DEF v, Trail
  <2>6. QED BY <2>4, <2>5
<1>3. T \in SUBSET Nat OBVIOUS
<1> HIDE DEF T
<1>4. T = Nat BY <1>1, <1>2, <1>3, AllNaturals
<1>5. QED BY <1>4 DEF T, Next1, IsTrail

\* The displays after each character, without the function that defines them.
Typing(f, d, m, str, page) ==
    /\ f[0] = d
    /\ \A k \in 1 .. Len(str) :
          f[k] = TeletypeOutputAttr(f[k - 1], m, str[k].chr, str[k].attr, page, TRUE)

LEMMA TypedSteps ==
  ASSUME NEW d, NEW m, NEW str, NEW page, Len(str) \in Nat
  PROVE  \E f : Typing(f, d, m, str, page) /\ Typed(d, m, str, page) = f[Len(str)]
<1> DEFINE n == Len(str)
           C == CHOOSE f : IsTrail(f, d, m, str, page, n)
<1>1. Typed(d, m, str, page) = C[n] BY DEF Typed, IsTrail
<1>2. C = [k \in 0 .. n |->
              IF k = 0 THEN d
              ELSE TeletypeOutputAttr(C[k - 1], m, str[k].chr, str[k].attr, page, TRUE)]
  <2>1. \E f : IsTrail(f, d, m, str, page, n) BY TrailExists
  <2>2. IsTrail(C, d, m, str, page, n) BY <2>1
  <2> HIDE DEF C
  <2>3. QED BY <2>2 DEF IsTrail
<1> HIDE DEF C
<1>3. C[0] = d BY <1>2
<1>4. ASSUME NEW k \in 1 .. n
      PROVE  C[k] = TeletypeOutputAttr(C[k - 1], m, str[k].chr, str[k].attr, page, TRUE)
  <2>1. k \in 0 .. n /\ k # 0 OBVIOUS
  <2>2. QED BY <1>2, <2>1
<1>5. Typing(C, d, m, str, page) BY <1>3, <1>4 DEF Typing
<1>6. QED BY <1>1, <1>5

LEMMA MovedNot ==
  ASSUME NEW d \in Displays, NEW page \in 0 .. 7
  PROVE  Moved(d, d, page, d.bda.cursor[page]) /\ d.bda.cursor[page] \in Cursors
<1>1. d.bda \in DataArea BY DEF Displays
<1> DEFINE u == [d.bda.cursor EXCEPT ![page] = d.bda.cursor[page]]
<1>2. u = d.bda.cursor /\ d.bda.cursor[page] \in Cursors BY <1>1 DEF DataArea
<1>3. [d.bda EXCEPT !.cursor = d.bda.cursor] = d.bda BY <1>1 DEF DataArea
<1> HIDE DEF u
<1>4. [d.bda EXCEPT !.cursor = u] = d.bda BY <1>2, <1>3
<1>5. QED BY <1>2, <1>4 DEF Moved, u

LEMMA InSequence ==
  ASSUME NEW S, NEW q \in Seq(S), NEW i \in 1 .. Len(q)
  PROVE  q[i] \in S
OBVIOUS

\* What a string leaves, whatever is in it.
Kept(d, e, m, page) ==
    /\ e \in Displays
    /\ \E c \in Cursors : Moved(d, e, page, c)
    /\ Shown(d, m) => Shown(e, m)

LEMMA StringKeeps ==
  ASSUME NEW d \in Displays, NEW m, NEW page \in 0 .. 7,
         NEW str \in Seq([chr : Characters, attr : Bytes]),
         NEW f, f[0] = d,
         \A k \in 1 .. Len(str) :
            f[k] = TeletypeOutputAttr(f[k - 1], m, str[k].chr, str[k].attr, page, TRUE)
  PROVE  \A k \in 0 .. Len(str) : Kept(d, f[k], m, page)
<1> DEFINE T == {k \in Nat : k > Len(str) \/ Kept(d, f[k], m, page)}
<1>0. Len(str) \in Nat OBVIOUS
<1>1. 0 \in T
  <2>1. Kept(d, d, m, page) BY MovedNot DEF Kept
  <2>2. QED BY <2>1
<1>2. ASSUME NEW k \in T PROVE k + 1 \in T
  <2>1. k \in Nat /\ (k > Len(str) \/ Kept(d, f[k], m, page)) BY <1>2
  <2>2. CASE k >= Len(str) BY <1>0, <2>1, <2>2
  <2>3. CASE k < Len(str)
    <3>1. k + 1 \in 1 .. Len(str) /\ (k + 1) - 1 = k BY <1>0, <2>1, <2>3
    <3>2. PICK s \in Displays : s = f[k] /\ Kept(d, s, m, page) BY <1>0, <2>1, <2>3 DEF Kept
    <3>3. PICK chr \in Characters, attr \in Bytes : chr = str[k + 1].chr /\ attr = str[k + 1].attr
      <4>1. PICK i \in 1 .. Len(str) : i = k + 1 BY <3>1
      <4>2. PICK c : c = str[i] OBVIOUS
      <4>3. c \in [chr : Characters, attr : Bytes] BY <4>2, InSequence
      <4>4. c.chr \in Characters /\ c.attr \in Bytes BY <4>2, <4>3
      <4>5. QED BY <4>1, <4>2, <4>4
    <3>4. f[k + 1] = TeletypeOutputAttr(s, m, chr, attr, page, TRUE) BY <3>1, <3>2, <3>3
    <3>5. PICK e : e = f[k + 1] OBVIOUS
    <3>6. OneTyped(s, e, m, chr, page)
      <4>1. OneTyped(s, TeletypeOutputAttr(s, m, chr, attr, page, TRUE), m, chr, page) BY Teletyped
      <4>2. QED BY <3>4, <3>5, <4>1
    <3>7. PICK b \in Cursors : Moved(d, s, page, b) BY <3>2 DEF Kept
    <3>8. PICK c \in Cursors : Moved(s, e, page, c) BY <3>6 DEF OneTyped
    <3>9. Moved(d, e, page, c) BY <3>7, <3>8, MovedOn
    <3>10. Kept(d, e, m, page) BY <3>2, <3>6, <3>9 DEF Kept, OneTyped
    <3>11. QED BY <2>1, <3>5, <3>10
  <2>4. QED BY <1>0, <2>1, <2>2, <2>3
<1>3. T \in SUBSET Nat OBVIOUS
<1> HIDE DEF T
<1>4. T = Nat BY <1>1, <1>2, <1>3, AllNaturals
<1>5. \A k \in Nat : k > Len(str) \/ Kept(d, f[k], m, page) BY <1>4 DEF T
<1>6. QED BY <1>0, <1>5

LEMMA Appended ==
  ASSUME NEW s \in Seq(Glyphs), NEW g \in Glyphs
  PROVE  /\ Len(Append(s, g)) = Len(s) + 1
         /\ \A j \in 1 .. Len(s) : Append(s, g)[j] = s[j]
         /\ Append(s, g)[Len(s) + 1] = g
OBVIOUS

\* What printing characters leave: cells at consecutive places.
Printed(d, e, m, page, from, k) ==
    /\ At(e.bda.cursor[page], d.bda.cols, from + k)
    /\ Len(e.cells) = k
    /\ \A j \in 1 .. k : e.cells[j].at = PlaceIn(d, m, page, from + j - 1)

LEMMA OnePrinted ==
  ASSUME NEW d \in Displays, NEW m, NEW page \in 0 .. 7, NEW s, Kept(d, s, m, page),
         NEW chr \in Letters, NEW e, OneTyped(s, e, m, chr, page),
         NEW from \in Nat, NEW k \in Nat, Printed(d, s, m, page, from, k),
         from + k + 1 < 256 * d.bda.cols
  PROVE  Printed(d, e, m, page, from, k + 1)
<1>1. s \in Displays BY DEF Kept
<1>2. PICK b \in Cursors : Moved(d, s, page, b) BY DEF Kept
<1>3. s.bda.cols = d.bda.cols /\ s.bda.size = d.bda.size /\ s.bda.cheight = d.bda.cheight
      /\ s.bda.cursor[page] = b /\ d.bda.cols \in 1 .. 255
  BY <1>2, MovedFields
<1>4. PICK n \in 1 .. 255 : n = d.bda.cols BY <1>3
<1>5. PICK pos \in Nat : pos = from + k OBVIOUS
<1>6. At(b, n, pos) /\ pos + 1 < 256 * n BY <1>3, <1>4, <1>5 DEF Printed
<1>7. Moved(s, e, page, FollowedBy(b, n))
      /\ \E cell \in Glyphs :
            /\ e.cells = Append(s.cells, cell)
            /\ \A p \in Nat : At(b, n, p) => cell.at = PlaceIn(s, m, page, p)
  BY <1>3, <1>4, <1>6 DEF OneTyped
<1>8. PICK cell \in Glyphs : e.cells = Append(s.cells, cell) /\ cell.at = PlaceIn(s, m, page, pos)
  BY <1>6, <1>7
<1>9. PlaceIn(s, m, page, pos) = PlaceIn(d, m, page, pos) BY <1>3 DEF PlaceIn
<1>10. At(FollowedBy(b, n), n, pos + 1) BY <1>6, PlaceAfter
<1>11. e.bda.cursor[page] = FollowedBy(b, n) BY <1>1, <1>7, MovedFields
<1>12. At(e.bda.cursor[page], d.bda.cols, from + (k + 1))
  <2>1. pos + 1 = from + (k + 1) BY <1>5
  <2>2. QED BY <1>4, <1>10, <1>11, <2>1
<1>13. s.cells \in Seq(Glyphs) /\ Len(s.cells) = k BY <1>1 DEF Displays, Printed
<1>14. Len(e.cells) = k + 1 /\ e.cells[k + 1] = cell /\ \A j \in 1 .. k : e.cells[j] = s.cells[j]
  BY <1>8, <1>13, Appended
<1>15. ASSUME NEW j \in 1 .. k + 1 PROVE e.cells[j].at = PlaceIn(d, m, page, from + j - 1)
  <2>1. CASE j = k + 1
    <3>1. from + j - 1 = pos BY <1>5, <2>1
    <3>2. e.cells[j].at = PlaceIn(d, m, page, pos) BY <1>8, <1>9, <1>14, <2>1
    <3>3. QED BY <3>1, <3>2
  <2>2. CASE j # k + 1
    <3>1. j \in 1 .. k BY <2>2
    <3>2. s.cells[j].at = PlaceIn(d, m, page, from + j - 1) BY <3>1 DEF Printed
    <3>3. QED BY <1>14, <3>1, <3>2
  <2>3. QED BY <2>1, <2>2
<1>16. QED BY <1>12, <1>14, <1>15 DEF Printed

\* A string of printing characters fills consecutive places from the cursor.
LEMMA StringPrints ==
  ASSUME NEW d \in Displays, NEW m, NEW page \in 0 .. 7,
         NEW str \in Seq([chr : Characters, attr : Bytes]),
         \A k \in 1 .. Len(str) : str[k].chr \in Letters,
         NEW f, f[0] = d,
         \A k \in 1 .. Len(str) :
            f[k] = TeletypeOutputAttr(f[k - 1], m, str[k].chr, str[k].attr, page, TRUE),
         NEW from \in Nat, At(d.bda.cursor[page], d.bda.cols, from), d.cells = <<>>,
         from + Len(str) < 256 * d.bda.cols
  PROVE  Printed(d, f[Len(str)], m, page, from, Len(str))
<1> DEFINE T == {k \in Nat : k > Len(str) \/ Printed(d, f[k], m, page, from, k)}
<1>0. Len(str) \in Nat OBVIOUS
<1>7. \A k \in 0 .. Len(str) : Kept(d, f[k], m, page) BY StringKeeps
<1>1. 0 \in T
  <2>1. Printed(d, d, m, page, from, 0)
    <3>1. from + 0 = from /\ Len(d.cells) = 0 OBVIOUS
    <3>2. QED BY <3>1 DEF Printed
  <2>2. QED BY <2>1
<1>2. ASSUME NEW k \in T PROVE k + 1 \in T
  <2>1. k \in Nat /\ (k > Len(str) \/ Printed(d, f[k], m, page, from, k)) BY <1>2
  <2>2. CASE k >= Len(str) BY <1>0, <2>1, <2>2
  <2>3. CASE k < Len(str)
    <3>1. k + 1 \in 1 .. Len(str) /\ (k + 1) - 1 = k /\ k \in 0 .. Len(str) BY <1>0, <2>1, <2>3
    <3>2. Kept(d, f[k], m, page) /\ Printed(d, f[k], m, page, from, k)
      BY <1>0, <1>7, <2>1, <2>3, <3>1
    <3>3. PICK s \in Displays : s = f[k] BY <3>2 DEF Kept
    <3>4. PICK chr \in Letters, attr \in Bytes : chr = str[k + 1].chr /\ attr = str[k + 1].attr
      <4>1. PICK i \in 1 .. Len(str) : i = k + 1 BY <3>1
      <4>2. PICK c : c = str[i] OBVIOUS
      <4>3. c \in [chr : Characters, attr : Bytes] BY <4>2, InSequence
      <4>4. c.chr \in Letters /\ c.attr \in Bytes BY <4>2, <4>3
      <4>5. QED BY <4>1, <4>2, <4>4
    <3>5. f[k + 1] = TeletypeOutputAttr(s, m, chr, attr, page, TRUE) BY <3>1, <3>3, <3>4
    <3>6. PICK e : e = f[k + 1] OBVIOUS
    <3>7. OneTyped(s, e, m, chr, page)
      <4>1. chr \in Characters BY DEF Characters
      <4>2. OneTyped(s, TeletypeOutputAttr(s, m, chr, attr, page, TRUE), m, chr, page)
        BY <4>1, Teletyped
      <4>3. QED BY <3>5, <3>6, <4>2
    <3>8. from + k + 1 < 256 * d.bda.cols
      <4>1. d.bda.cols \in 1 .. 255 BY MovedNot, MovedFields
      <4>2. PICK n \in 1 .. 255, l \in Nat : n = d.bda.cols /\ l = Len(str) BY <1>0, <4>1
      <4>3. from + l < 256 * n /\ k < l BY <2>3, <4>2
      <4>4. QED BY <2>1, <4>2, <4>3
    <3>9. Printed(d, e, m, page, from, k + 1) BY <2>1, <3>2, <3>3, <3>7, <3>8, OnePrinted
    <3>10. QED BY <2>1, <3>6, <3>9
  <2>4. QED BY <1>0, <2>1, <2>2, <2>3
<1>3. T \in SUBSET Nat OBVIOUS
<1> HIDE DEF T
<1>4. T = Nat BY <1>1, <1>2, <1>3, AllNaturals
<1>5. \A k \in Nat : k > Len(str) \/ Printed(d, f[k], m, page, from, k) BY <1>4 DEF T
<1>6. QED BY <1>0, <1>5
-----------------------------------------------------------------------------
\* The places of a repeated character, one after another.
IsRun(f, d, on, n) ==
    f = [k \in 1 .. n |-> IF k = 1 THEN CursorAt(d, on) ELSE NextCell(d, f[k - 1])]

LEMMA RunExists ==
  ASSUME NEW d, NEW on, NEW n \in Nat
  PROVE  \E f : IsRun(f, d, on, n)
<1> DEFINE T == {l \in Nat : \E f : IsRun(f, d, on, l)}
<1>1. 0 \in T
  <2>1. PICK f : f = [k \in 1 .. 0 |-> 0] OBVIOUS
  <2>2. f = [k \in 1 .. 0 |-> IF k = 1 THEN CursorAt(d, on) ELSE NextCell(d, f[k - 1])] BY <2>1
  <2>3. IsRun(f, d, on, 0) BY <2>2 DEF IsRun
  <2>4. QED BY <2>3
<1>2. ASSUME NEW l \in T PROVE l + 1 \in T
  <2>1. PICK w : IsRun(w, d, on, l) BY <1>2
  <2>2. l \in Nat BY <1>2
  <2>3. w = [k \in 1 .. l |-> IF k = 1 THEN CursorAt(d, on) ELSE NextCell(d, w[k - 1])]
    BY <2>1 DEF IsRun
  <2> DEFINE last == IF l = 0 THEN CursorAt(d, on) ELSE NextCell(d, w[l])
             v == [j \in 1 .. (l + 1) |-> IF j = l + 1 THEN last ELSE w[j]]
  <2>4. ASSUME NEW j \in 1 .. (l + 1)
        PROVE  v[j] = IF j = 1 THEN CursorAt(d, on) ELSE NextCell(d, v[j - 1])
    <3>1. CASE j = l + 1
      <4>1. v[j] = last BY <3>1
      <4>2. CASE l = 0 BY <3>1, <4>1, <4>2
      <4>3. CASE l # 0
        <5>1. j # 1 /\ j - 1 = l /\ l \in 1 .. (l + 1) /\ l # l + 1 BY <2>2, <3>1, <4>3
        <5>2. v[l] = w[l] BY <5>1
        <5>3. QED BY <4>1, <4>3, <5>1, <5>2
      <4>4. QED BY <4>2, <4>3
    <3>2. CASE j # l + 1
      <4>1. j \in 1 .. l BY <2>2, <3>2
      <4>2. v[j] = w[j] BY <3>2
      <4>3. w[j] = IF j = 1 THEN CursorAt(d, on) ELSE NextCell(d, w[j - 1]) BY <2>3, <4>1
      <4>4. j # 1 => v[j - 1] = w[j - 1]
        <5>1. j # 1 => j - 1 \in 1 .. (l + 1) /\ j - 1 # l + 1 BY <2>2, <4>1
        <5>2. QED BY <5>1
      <4>5. QED BY <4>2, <4>3, <4>4
    <3>3. QED BY <3>1, <3>2
  <2>5. IsRun(v, d, on, l + 1)
    <3>1. v = [j \in 1 .. (l + 1) |-> v[j]] OBVIOUS
    <3> HIDE DEF v
    <3>2. QED BY <2>4, <3>1 DEF IsRun
  <2>6. l + 1 \in Nat BY <2>2
  <2> HIDE DEF v
  <2>7. QED BY <2>5, <2>6
<1>3. T \in SUBSET Nat OBVIOUS
<1> HIDE DEF T
<1>4. T = Nat BY <1>1, <1>2, <1>3, AllNaturals
<1>5. QED BY <1>4 DEF T

\* Where write_char goes on is where the cursor would follow.
LEMMA NextCellFollows ==
  ASSUME NEW d \in Displays, NEW c \in Cursors, NEW pos \in Nat,
         At(c, d.bda.cols, pos), pos + 1 < 256 * d.bda.cols
  PROVE  NextCell(d, c) = FollowedBy(c, d.bda.cols)
<1>1. d.bda.cols \in 1 .. 255
  <2>1. d.bda \in DataArea BY DEF Displays
  <2>2. QED BY <2>1 DEF DataArea
<1>2. PICK r \in Int, k \in Int, n \in 1 .. 255 :
         r = c.row /\ k = c.col /\ n = d.bda.cols /\ 0 <= r /\ r < 256 /\ 0 <= k /\ k < n
  BY <1>1, CursorInts DEF At
<1>3. (k + 1) % 256 = k + 1
  <2>1. k + 1 \in 0 .. 256 - 1 /\ 256 \in Nat \ {0} BY <1>2
  <2>2. QED BY <2>1, SmallMod
<1>4. CASE k + 1 = n
  <2>1. NextCell(d, c) = [row |-> (r + 1) % 256, col |-> 0] BY <1>2, <1>3, <1>4 DEF NextCell
  <2>2. FollowedBy(c, d.bda.cols) = [row |-> r + 1, col |-> 0] BY <1>2, <1>4 DEF FollowedBy
  <2>3. PICK w : w = FollowedBy(c, d.bda.cols) OBVIOUS
  <2>4. w \in Cursors BY <1>1, <2>3, PlaceAfter DEF At
  <2>5. w.row < 256 BY <2>4, CursorInts
  <2>6. r + 1 < 256 BY <2>2, <2>3, <2>5
  <2>7. (r + 1) % 256 = r + 1
    <3>1. r + 1 \in 0 .. 256 - 1 /\ 256 \in Nat \ {0} BY <1>2, <2>6
    <3>2. QED BY <3>1, SmallMod
  <2>8. QED BY <2>1, <2>2, <2>7
<1>5. CASE k + 1 # n
  <2>1. ~(k + 1 >= n) BY <1>2, <1>5
  <2>2. NextCell(d, c) = [row |-> r, col |-> k + 1] BY <1>2, <1>3, <2>1 DEF NextCell
  <2>3. QED BY <1>2, <1>5, <2>2 DEF FollowedBy
<1>6. QED BY <1>4, <1>5

LEMMA RunFollows ==
  ASSUME NEW d \in Displays, NEW on \in 0 .. 7, NEW n \in Nat, NEW f, IsRun(f, d, on, n),
         NEW from \in Nat, At(d.bda.cursor[on], d.bda.cols, from), from + n < 256 * d.bda.cols
  PROVE  \A k \in 1 .. n : At(f[k], d.bda.cols, from + k - 1)
<1> DEFINE T == {k \in Nat : k >= n \/ At(f[k + 1], d.bda.cols, from + k)}
<1>1. f = [k \in 1 .. n |-> IF k = 1 THEN CursorAt(d, on) ELSE NextCell(d, f[k - 1])]
  BY DEF IsRun
<1>2. 0 \in T
  <2>1. CASE n = 0 BY <2>1
  <2>2. CASE n # 0
    <3>1. 1 \in 1 .. n BY <2>2
    <3>2. f[1] = d.bda.cursor[on] BY <1>1, <3>1 DEF CursorAt
    <3>3. from + 0 = from /\ 0 + 1 = 1 OBVIOUS
    <3>4. QED BY <3>2, <3>3
  <2>3. QED BY <2>1, <2>2
<1>3. ASSUME NEW k \in T PROVE k + 1 \in T
  <2>1. k \in Nat /\ (k >= n \/ At(f[k + 1], d.bda.cols, from + k)) BY <1>3
  <2>2. CASE k + 1 >= n BY <2>1, <2>2
  <2>3. CASE k + 1 < n
    <3>1. PICK i \in Nat : i = k + 1 BY <2>1
    <3>2. i + 1 \in 1 .. n /\ i + 1 # 1 /\ (i + 1) - 1 = i BY <2>1, <2>3, <3>1
    <3>3. PICK c \in Cursors : c = f[i] /\ At(c, d.bda.cols, from + k)
      BY <2>1, <2>3, <3>1 DEF At
    <3>4. f[i + 1] = NextCell(d, c) BY <1>1, <3>2, <3>3
    <3>5. PICK pos \in Nat : pos = from + k BY <2>1
    <3>6. d.bda.cols \in 1 .. 255
      <4>1. d.bda \in DataArea BY DEF Displays
      <4>2. QED BY <4>1 DEF DataArea
    <3>7. pos + 1 < 256 * d.bda.cols
      <4>1. PICK m \in 1 .. 255 : m = d.bda.cols BY <3>6
      <4>2. from + n < 256 * m BY <4>1
      <4>3. QED BY <2>1, <2>3, <3>5, <4>1, <4>2
    <3>8. At(FollowedBy(c, d.bda.cols), d.bda.cols, pos + 1) BY <3>3, <3>5, <3>6, <3>7, PlaceAfter
    <3>9. f[i + 1] = FollowedBy(c, d.bda.cols) BY <3>3, <3>4, <3>5, <3>7, NextCellFollows
    <3>10. pos + 1 = from + i BY <2>1, <3>1, <3>5
    <3>11. At(f[i + 1], d.bda.cols, from + i) BY <3>8, <3>9, <3>10
    <3>12. QED BY <3>1, <3>11
  <2>4. QED BY <2>1, <2>2, <2>3
<1>4. T \in SUBSET Nat OBVIOUS
<1> HIDE DEF T
<1>5. T = Nat BY <1>2, <1>3, <1>4, AllNaturals
<1>6. \A k \in Nat : k >= n \/ At(f[k + 1], d.bda.cols, from + k) BY <1>5 DEF T
<1>7. QED
  <2> TAKE k \in 1 .. n
  <2>1. PICK j \in Nat : j = k - 1 OBVIOUS
  <2>2. j < n /\ j + 1 = k /\ from + j = from + k - 1 BY <2>1
  <2>3. At(f[j + 1], d.bda.cols, from + j) BY <1>6, <2>2
  <2>4. QED BY <2>2, <2>3

LEMMA LengthIs ==
  ASSUME NEW n \in Nat, NEW f, DOMAIN f = 1 .. n
  PROVE  Len(f) = n
OBVIOUS

\* The page a character is written to: graphics modes wrap its number.
OnPage(m, page) == IF Modes[m].kind = "TEXT" THEN page ELSE page % Modes[m].pages

RunsOn(written, on, count) ==
    \A from \in Nat :
       At(Display.bda.cursor[on], Display.bda.cols, from) /\ from + count < 256 * Display.bda.cols =>
          /\ Len(written) = count
          /\ \A k \in 1 .. count : written[k].at = PlaceIn(Display, mode, on, from + k - 1)

\* The cells of a repeated character are consecutive.
LEMMA CellsRunOn ==
  ASSUME Display \in Displays, NEW chr \in Letters, NEW attr \in Attributes, NEW page \in 0 .. 7,
         OnPage(mode, page) \in 0 .. 7, NEW count \in Nat, NEW show \in BOOLEAN
  PROVE  RunsOn(CellsOf(Display, mode, chr, attr, page, count, show), OnPage(mode, page), count)
<1> DEFINE d == Display
           m == mode
           on == OnPage(m, page)
           f == CHOOSE g : IsRun(g, d, on, count)
           useAttr == show \/ ~(Modes[m].kind = "TEXT")
           written == CellsOf(d, m, chr, attr, page, count, show)
<1>2. written = [k \in 1 .. count |-> Cell(d, m, f[k].row, f[k].col, on, chr, attr, useAttr)]
  BY DEF CellsOf, IsRun, OnPage
<1>7. d \in Displays /\ on \in 0 .. 7 OBVIOUS
<1> HIDE DEF d, m, on, written
<1>1. IsRun(f, d, on, count)
  <2>1. \E g : IsRun(g, d, on, count) BY RunExists
  <2>2. QED BY <2>1
<1> HIDE DEF f, useAttr
<1>3. Len(written) = count
  <2>1. DOMAIN written = 1 .. count BY <1>2
  <2>2. QED BY <2>1, LengthIs
<1>4. ASSUME NEW from \in Nat, At(d.bda.cursor[on], d.bda.cols, from), from + count < 256 * d.bda.cols,
             NEW k \in 1 .. count
      PROVE  written[k].at = PlaceIn(d, m, on, from + k - 1)
  <2>1. \A j \in 1 .. count : At(f[j], d.bda.cols, from + j - 1) BY <1>1, <1>4, <1>7, RunFollows
  <2>2. PICK c \in Cursors : c = f[k] /\ At(c, d.bda.cols, from + k - 1) BY <2>1 DEF At
  <2>3. written[k] = Cell(d, m, c.row, c.col, on, chr, attr, useAttr) BY <1>2, <2>2
  <2>4. written[k].at = Corner(d, m, on, c) BY <2>3 DEF Cell, Corner
  <2>5. PICK pos \in Nat : pos = from + k - 1 OBVIOUS
  <2>6. Corner(d, m, on, c) = PlaceIn(d, m, on, pos) BY <1>7, <2>2, <2>5, CornerPlaced
  <2>7. QED BY <2>4, <2>5, <2>6
<1>5. RunsOn(written, on, count) BY <1>3, <1>4 DEF RunsOn, d, m
<1>6. QED BY <1>5 DEF written, on, d, m

\* The cursors with room are the ones the lemmas above are about.
LEMMA RoomIs ==
  ASSUME NEW d \in Displays, d.bda = bda, NEW c \in Cursors, NEW n \in Nat, RoomFor(n, c)
  PROVE  /\ Position(c) \in Nat
         /\ At(c, d.bda.cols, Position(c))
         /\ Position(c) + n < 256 * d.bda.cols
<1>1. d.bda.cols \in 1 .. 255
  <2>1. d.bda \in DataArea BY DEF Displays
  <2>2. QED BY <2>1 DEF DataArea
<1>2. c.col < bda.cols /\ Position(c) + n < 256 * bda.cols BY DEF RoomFor, InLine
<1>3. PICK w \in 1 .. 255, r \in Nat, k \in Nat : w = bda.cols /\ r = c.row /\ k = c.col
  BY <1>1, CursorInts
<1>4. Position(c) = r * w + k BY <1>3 DEF Position
<1>5. r * w + k \in Nat BY <1>3
<1>6. QED BY <1>2, <1>3, <1>4, <1>5 DEF At

\* A place before the end of the screen is in one of its rows.
LEMMA RowOnScreen ==
  ASSUME NEW r \in Nat, NEW k \in Nat, NEW w \in Nat, NEW q \in Nat, r * w + k < (q + 1) * w
  PROVE  r <= q
<1> SUFFICES ASSUME r > q PROVE FALSE OBVIOUS
<1>1. PICK e \in Nat : r = q + 1 + e
  <2>1. r - q - 1 \in Nat /\ r = q + 1 + (r - q - 1) OBVIOUS
  <2>2. QED BY <2>1
<1>2. r * w = (q + 1) * w + e * w BY <1>1
<1>3. e * w \in Nat /\ (q + 1) * w \in Nat BY <1>1
<1>4. QED BY <1>2, <1>3

\* AH=09h and AH=0Ah.
LEMMA WriteCharStep ==
  ASSUME ScreenInv, call = Idle, NEW chr \in Letters, NEW attr \in Attributes, NEW page \in 0 .. 7,
         NEW count \in Nat, NEW show \in BOOLEAN, WriteChar(chr, attr, page, count, show)
  PROVE  ScreenInv'
<1>1. ScreenTypes /\ HardwareShowsActivePage BY DEF ScreenInv
<1>2. mode' = mode /\ bda' = bda /\ crtc' = crtc /\ tampered' = tampered
      /\ cells' = CellsOf(Display, mode, chr, attr, page, count, show)
      /\ call' = [fn |-> "repeat", page |-> page, count |-> count]
  BY DEF WriteChar
<1>3. ScreenTypes' BY <1>1, <1>2 DEF ScreenTypes
<1>4. HardwareShowsActivePage' BY <1>1, <1>2 DEF HardwareShowsActivePage, Register, Position
<1>5. StringsRunOn' BY <1>2 DEF StringsRunOn
<1> DEFINE on == OnPage(mode, page)
<1>6. on \in 0 .. 7
  <2>1. Modes[mode].pages \in 1 .. 255 BY <1>1, ModesAssumption DEF ScreenTypes
  <2>2. PICK n \in 1 .. 255 : n = Modes[mode].pages BY <2>1
  <2>3. n \in Nat \ {0} /\ page \in Int OBVIOUS
  <2>4. page % n \in 0 .. n - 1 /\ page \div n \in Int /\ page = n * (page \div n) + (page % n)
    BY <2>3, Divided
  <2>5. page % n <= page
    <3>1. PICK q \in Int, r \in Int : q = page \div n /\ r = page % n /\ 0 <= r /\ r < n
      BY <2>4
    <3>2. page = n * q + r BY <2>4, <3>1
    <3>3. q >= 0
      <4>1. SUFFICES ASSUME q <= -1 PROVE FALSE BY <3>1
      <4>2. n * q <= n * (-1) BY <4>1
      <4>3. QED BY <3>1, <3>2, <4>2
    <3>4. n * q >= 0 BY <3>3
    <3>5. QED BY <3>1, <3>2, <3>4
  <2>6. page % n \in 0 .. 7 BY <2>4, <2>5
  <2>7. QED BY <2>2, <2>6 DEF OnPage
<1> HIDE DEF on
<1>7. Display \in Displays /\ Display.bda = bda BY <1>1, DisplayNow
<1>8. bda.cursor[on] \in Cursors BY <1>1, <1>6 DEF ScreenTypes, DataArea
<1>9. ASSUME RoomFor(count, bda.cursor[on])
      PROVE  PlacesOf(cells') = PlacesFrom(on, bda.cursor[on], count)
  <2>1. PICK c \in Cursors : c = bda.cursor[on] BY <1>8
  <2>2. PICK from \in Nat : from = Position(c) /\ At(c, Display.bda.cols, from)
                            /\ from + count < 256 * Display.bda.cols
    BY <1>7, <1>9, <2>1, RoomIs
  <2>3. PICK w : w = cells' OBVIOUS
  <2>4. Len(w) = count /\ \A k \in 1 .. count : w[k].at = PlaceIn(Display, mode, on, from + k - 1)
    <3>1. RunsOn(w, on, count) BY <1>2, <1>6, <1>7, <2>3, CellsRunOn DEF on
    <3>2. At(Display.bda.cursor[on], Display.bda.cols, from)
          /\ from + count < 256 * Display.bda.cols
      BY <1>7, <2>1, <2>2
    <3>3. QED BY <3>1, <3>2 DEF RunsOn
  <2>5. \A k \in 1 .. count : PlaceIn(Display, mode, on, from + k - 1) = Place(on, from + k - 1)
    BY <1>7 DEF PlaceIn, Place
  <2>6. PlacesOf(w) = [k \in 1 .. count |-> w[k].at] BY <2>4 DEF PlacesOf
  <2>7. PlacesFrom(on, c, count) = [k \in 1 .. count |-> Place(on, from + k - 1)]
    BY <2>2 DEF PlacesFrom
  <2>8. \A k \in 1 .. count : w[k].at = Place(on, from + k - 1) BY <2>4, <2>5
  <2>9. [k \in 1 .. count |-> w[k].at] = [k \in 1 .. count |-> Place(on, from + k - 1)] BY <2>8
  <2>10. PlacesOf(w) = PlacesFrom(on, c, count) BY <2>6, <2>7, <2>9
  <2>11. QED BY <2>1, <2>3, <2>10
<1>10. RepeatsRunOn'
  <2>1. call'.page = page /\ call'.count = count BY <1>2
  <2>2. RoomFor(count, bda.cursor[on])' <=> RoomFor(count, bda.cursor[on])
    BY <1>2 DEF RoomFor, InLine, Position, on, OnPage
  <2>3. QED BY <1>2, <1>9, <2>1 DEF RepeatsRunOn, on, OnPage, RoomFor, InLine, Position, PlacesOf, PlacesFrom, Place
<1>11. QED BY <1>3, <1>4, <1>5, <1>10 DEF ScreenInv

\* A handler that keeps what Kept says keeps what is shown.
LEMMA KeptStep ==
  ASSUME ScreenTypes, HardwareShowsActivePage, NEW e, NEW page \in 0 .. 7,
         Kept(Display, e, mode, page), Becomes(e), mode' = mode, tampered' = tampered
  PROVE  ScreenTypes' /\ HardwareShowsActivePage'
<1>1. Display \in Displays /\ Display.bda = bda BY DisplayNow
<1>2. e \in Displays /\ (Shown(Display, mode) => Shown(e, mode)) BY DEF Kept
<1>3. PICK c \in Cursors : Moved(Display, e, page, c) BY DEF Kept
<1>4. e.bda.cols = bda.cols /\ e.bda.size = bda.size BY <1>1, <1>3, MovedFields
<1>5. ScreenTypes' /\ (Shown(e, mode') => HardwareShowsActivePage')
  BY <1>2, <1>4, Drawn DEF ScreenTypes
<1>6. CASE tampered
  <2>1. HardwareShowsActivePage' BY <1>6 DEF HardwareShowsActivePage
  <2>2. QED BY <1>5, <2>1
<1>7. CASE ~tampered
  <2>1. Shown(Display, mode) BY <1>7, NowShown
  <2>2. QED BY <1>2, <1>5, <2>1
<1>8. QED BY <1>6, <1>7

\* The history of any other call says nothing.
LEMMA NoString ==
  ASSUME call'.fn # "string", call'.fn # "repeat"
  PROVE  RepeatsRunOn' /\ StringsRunOn'
BY DEF RepeatsRunOn, StringsRunOn

\* AH=0Eh.
LEMMA TeletypeStep ==
  ASSUME ScreenInv, call = Idle, NEW chr \in Characters, NEW attr \in Attributes, NEW page \in 0 .. 7,
         Teletype(chr, attr, page)
  PROVE  ScreenInv'
<1>1. ScreenTypes /\ HardwareShowsActivePage BY DEF ScreenInv
<1>2. Display \in Displays /\ Display.bda = bda BY <1>1, DisplayNow
<1>3. PICK useAttr \in BOOLEAN : useAttr = (Modes[mode].kind # "TEXT") OBVIOUS
<1>4. PICK e : e = TeletypeOutputAttr(Display, mode, chr, attr, page, useAttr) OBVIOUS
<1>5. Becomes(e) /\ mode' = mode /\ tampered' = tampered /\ call'.fn = "teletype"
  BY <1>3, <1>4 DEF Teletype
<1>6. attr \in Bytes BY GuestAssumption
<1>7. OneTyped(Display, e, mode, chr, page)
  <2>1. OneTyped(Display, TeletypeOutputAttr(Display, mode, chr, attr, page, useAttr), mode, chr, page)
    BY <1>2, <1>6, Teletyped
  <2>2. QED BY <1>4, <2>1
<1>8. Kept(Display, e, mode, page) BY <1>7 DEF OneTyped, Kept
<1>9. ScreenTypes' /\ HardwareShowsActivePage' BY <1>1, <1>5, <1>8, KeptStep
<1>10. RepeatsRunOn' /\ StringsRunOn' BY <1>5, NoString
<1>11. QED BY <1>9, <1>10 DEF ScreenInv

LEMMA StringTyped ==
  ASSUME NEW str \in Strings
  PROVE  str \in Seq([chr : Characters, attr : Bytes]) /\ Len(str) \in Nat
<1> DEFINE S == [chr : Characters, attr : Attributes]
           R == [chr : Characters, attr : Bytes]
<1>1. str \in Seq(S) BY GuestAssumption DEF Characters
<1>2. S \subseteq R BY GuestAssumption
<1> HIDE DEF S, R
<1>3. Len(str) \in Nat /\ DOMAIN str = 1 .. Len(str) /\ \A i \in 1 .. Len(str) : str[i] \in S
  BY <1>1
<1>4. \A i \in 1 .. Len(str) : str[i] \in R BY <1>2, <1>3
<1>5. str = [i \in 1 .. Len(str) |-> str[i]] BY <1>1
<1>6. str \in [1 .. Len(str) -> R] BY <1>4, <1>5
<1>7. str \in Seq(R) BY <1>3, <1>6
<1>8. QED BY <1>3, <1>7 DEF R

\* A string from its first cell to the cursor it leaves.
LEMMA Written ==
  ASSUME Display \in Displays, NEW start \in Cursors, NEW str \in Strings, NEW page \in 0 .. 7,
         NEW begun, begun = SetCursorPos(Display, start.row, start.col, page),
         NEW done, done = Typed(begun, mode, str, page)
  PROVE  /\ Kept(Display, done, mode, page)
         /\ (\A k \in DOMAIN str : str[k].chr \in Letters) =>
               \A from \in Nat :
                  At(start, Display.bda.cols, from) /\ from + Len(str) < 256 * Display.bda.cols =>
                     Printed(Display, done, mode, page, from, Len(str))
<1> DEFINE d == Display
           m == mode
<1>1. start = [row |-> start.row, col |-> start.col] /\ start.row \in Bytes /\ start.col \in Bytes
  BY CursorInts
<1>2. PICK row \in Bytes, col \in Bytes : row = start.row /\ col = start.col BY <1>1
<1>3. begun = SetCursorPos(d, row, col, page) BY <1>2
<1>4. d \in Displays /\ d.cells = <<>> BY DEF Display
<1>5. done = Typed(begun, m, str, page) OBVIOUS
<1> HIDE DEF d, m
<1>6. begun \in Displays /\ Moved(d, begun, page, [row |-> row, col |-> col])
      /\ begun.cells = d.cells
  BY <1>3, <1>4, CursorMoved
<1>7. Moved(d, begun, page, start) BY <1>1, <1>2, <1>6
<1>8. Shown(d, m) => Shown(begun, m) BY <1>3, <1>4, CursorShown
<1>9. str \in Seq([chr : Characters, attr : Bytes]) /\ Len(str) \in Nat BY StringTyped
<1>17. PICK f : Typing(f, begun, m, str, page) /\ Typed(begun, m, str, page) = f[Len(str)]
  BY <1>9, TypedSteps
<1>10. /\ f[0] = begun
       /\ \A k \in 1 .. Len(str) :
             f[k] = TeletypeOutputAttr(f[k - 1], m, str[k].chr, str[k].attr, page, TRUE)
       /\ Typed(begun, m, str, page) = f[Len(str)]
  BY <1>17 DEF Typing
<1>11. done = f[Len(str)] BY <1>5, <1>10
<1>12. Kept(begun, done, m, page)
  <2>1. \A k \in 0 .. Len(str) : Kept(begun, f[k], m, page) BY <1>6, <1>9, <1>10, StringKeeps
  <2>2. Len(str) \in 0 .. Len(str) BY <1>9
  <2>3. QED BY <1>11, <2>1, <2>2
<1>13. Kept(d, done, m, page)
  <2>1. PICK c \in Cursors : Moved(begun, done, page, c) BY <1>12 DEF Kept
  <2>2. Moved(d, done, page, c) BY <1>4, <1>7, <2>1, MovedOn
  <2>3. QED BY <1>8, <1>12, <2>2 DEF Kept
<1>14. begun.bda.cols = d.bda.cols /\ begun.bda.size = d.bda.size
       /\ begun.bda.cheight = d.bda.cheight /\ begun.bda.cursor[page] = start
  BY <1>4, <1>7, MovedFields
<1>15. ASSUME \A k \in DOMAIN str : str[k].chr \in Letters, NEW from \in Nat,
              At(start, d.bda.cols, from), from + Len(str) < 256 * d.bda.cols
       PROVE  Printed(d, done, m, page, from, Len(str))
  <2>1. \A k \in 1 .. Len(str) : str[k].chr \in Letters BY <1>9, <1>15
  <2>2. At(begun.bda.cursor[page], begun.bda.cols, from) /\ begun.cells = <<>>
        /\ from + Len(str) < 256 * begun.bda.cols
    BY <1>4, <1>6, <1>14, <1>15
  <2>3. Printed(begun, f[Len(str)], m, page, from, Len(str))
    BY <1>6, <1>9, <1>10, <2>1, <2>2, StringPrints
  <2>4. QED BY <1>11, <1>14, <2>3 DEF Printed, PlaceIn
<1>16. QED BY <1>13, <1>15 DEF d, m

\* AH=13h: from the saved cursor over the string and back.
LEMMA WriteStringStep ==
  ASSUME ScreenInv, call = Idle, NEW row \in Bytes, NEW col \in Bytes, NEW flag \in 0 .. 1,
         NEW str \in Strings, NEW page \in 0 .. 7, WriteString(row, col, flag, str, page)
  PROVE  ScreenInv'
<1>1. ScreenTypes /\ HardwareShowsActivePage BY DEF ScreenInv
<1>2. Display \in Displays /\ Display.bda = bda BY <1>1, DisplayNow
<1> DEFINE saved == bda.cursor[page]
           start == IF row = 255 THEN saved ELSE [row |-> row, col |-> col]
           begun == SetCursorPos(Display, start.row, start.col, page)
           done == Typed(begun, mode, str, page)
           left == IF flag = 0 THEN SetCursorPos(done, saved.row, saved.col, page) ELSE done
<1>3. saved \in Cursors BY <1>1 DEF ScreenTypes, DataArea
<1>4. start \in Cursors
  <2>1. [row |-> row, col |-> col] \in Cursors BY DEF Cursors
  <2>2. QED BY <1>3, <2>1
<1>5. WriteStringTo(Display, mode, row, col, flag, str, page) = left
  <2>1. flag % 2 = flag BY SMT
  <2>2. CursorAt(Display, page) = saved BY <1>2 DEF CursorAt
  <2>3. begun = IF row = 255 THEN SetCursorPos(Display, saved.row, saved.col, page)
                ELSE SetCursorPos(Display, row, col, page)
    <3>1. CASE row = 255 BY <3>1
    <3>2. CASE row # 255
      <4>1. start.row = row /\ start.col = col BY <3>2
      <4>2. QED BY <3>2, <4>1
    <3>3. QED BY <3>1, <3>2
  <2> HIDE DEF begun, saved
  <2>4. QED BY <2>1, <2>2, <2>3 DEF WriteStringTo
<1> HIDE DEF start, begun, done, saved
<1>6. /\ Becomes(left) /\ mode' = mode /\ tampered' = tampered
      /\ call' = [fn |-> "string", page |-> page, str |-> str, flag |-> flag,
                  from |-> bda.cursor, start |-> start]
  BY <1>5 DEF WriteString, start, saved
<1>7. /\ Kept(Display, done, mode, page)
      /\ (\A k \in DOMAIN str : str[k].chr \in Letters) =>
            \A from \in Nat :
               At(start, Display.bda.cols, from) /\ from + Len(str) < 256 * Display.bda.cols =>
                  Printed(Display, done, mode, page, from, Len(str))
  BY <1>2, <1>4, Written DEF begun, done
<1>8. done \in Displays BY <1>7 DEF Kept
<1>9. PICK c \in Cursors : Moved(Display, done, page, c) BY <1>7 DEF Kept
<1>10. flag = 0 => /\ left \in Displays /\ left.cells = done.cells
                   /\ Moved(Display, left, page, saved)
                   /\ Shown(Display, mode) => Shown(left, mode)
  <2> SUFFICES ASSUME flag = 0
               PROVE  /\ left \in Displays /\ left.cells = done.cells
                      /\ Moved(Display, left, page, saved)
                      /\ Shown(Display, mode) => Shown(left, mode)
    OBVIOUS
  <2>1. saved = [row |-> saved.row, col |-> saved.col] /\ saved.row \in Bytes /\ saved.col \in Bytes
    BY <1>3, CursorInts
  <2>2. PICK r \in Bytes, k \in Bytes : r = saved.row /\ k = saved.col BY <2>1
  <2>3. left = SetCursorPos(done, r, k, page) BY <2>2
  <2> HIDE DEF left
  <2>4. left \in Displays /\ Moved(done, left, page, [row |-> r, col |-> k])
        /\ left.cells = done.cells
    BY <1>8, <2>3, CursorMoved
  <2>5. Moved(done, left, page, saved) BY <2>1, <2>2, <2>4
  <2>6. Moved(Display, left, page, saved) BY <1>2, <1>9, <2>5, MovedOn
  <2>7. Shown(done, mode) => Shown(left, mode) BY <1>8, <2>3, CursorShown
  <2>8. QED BY <1>7, <2>4, <2>6, <2>7 DEF Kept
<1>11. flag # 0 => left = done OBVIOUS
<1> HIDE DEF left
<1>12. Kept(Display, left, mode, page) BY <1>3, <1>7, <1>10, <1>11 DEF Kept
<1>13. ScreenTypes' /\ HardwareShowsActivePage' BY <1>1, <1>6, <1>12, KeptStep
<1>14. bda' = left.bda /\ cells' = left.cells BY <1>6 DEF Becomes
<1>15. ASSUME flag = 0 PROVE bda'.cursor = bda.cursor
  <2>1. left.bda = Display.bda BY <1>2, <1>10, <1>15, MovedBack DEF saved
  <2>2. QED BY <1>2, <1>14, <2>1
<1>16. PICK b \in Cursors : Moved(Display, left, page, b) BY <1>12 DEF Kept
<1>17. bda'.cols = bda.cols /\ bda'.size = bda.size /\ bda'.cheight = bda.cheight /\ bda'.rows = bda.rows
  BY <1>2, <1>14, <1>16, MovedFields
<1>18. PICK from \in Cursors, n \in Nat : from = start /\ n = Len(str) BY <1>4, StringTyped
<1>19. ASSUME \A k \in DOMAIN str : str[k].chr \in Letters, EndsOnScreen(n, from)'
       PROVE  /\ PlacesOf(cells') = PlacesFrom(page, from, n)'
              /\ flag = 1 => /\ OnScreen(bda.cursor[page])'
                             /\ Position(bda.cursor[page])' = Position(from)' + n
  <2>1. RoomFor(n, from) BY <1>17, <1>19 DEF EndsOnScreen, RoomFor, InLine, Position
  <2>2. PICK pos \in Nat : pos = Position(from) /\ At(from, Display.bda.cols, pos)
                           /\ pos + n < 256 * Display.bda.cols
    BY <1>2, <2>1, RoomIs
  <2>3. Printed(Display, done, mode, page, pos, n) BY <1>7, <1>18, <1>19, <2>2
  <2>4. PICK w : w = cells' OBVIOUS
  <2>5. w = done.cells BY <1>10, <1>11, <1>14, <2>4
  <2>6. Len(w) = n /\ \A k \in 1 .. n : w[k].at = PlaceIn(Display, mode, page, pos + k - 1)
    BY <2>3, <2>5 DEF Printed
  <2>7. \A k \in 1 .. n : PlaceIn(Display, mode, page, pos + k - 1) = Place(page, pos + k - 1)'
    BY <1>2, <1>6, <1>17 DEF PlaceIn, Place
  <2>8. \A k \in 1 .. n : w[k].at = Place(page, pos + k - 1)' BY <2>6, <2>7
  <2>9. Position(from)' = pos BY <1>17, <2>2 DEF Position
  <2>10. PlacesOf(w) = [k \in 1 .. n |-> w[k].at] BY <2>6 DEF PlacesOf
  <2>11. PlacesFrom(page, from, n)' = [k \in 1 .. n |-> Place(page, pos + k - 1)']
    BY <2>9 DEF PlacesFrom
  <2>12. [k \in 1 .. n |-> w[k].at] = [k \in 1 .. n |-> Place(page, pos + k - 1)'] BY <2>8
  <2>13. PlacesOf(cells') = PlacesFrom(page, from, n)' BY <2>4, <2>10, <2>11, <2>12
  <2>14. ASSUME flag = 1
         PROVE  OnScreen(bda.cursor[page])' /\ Position(bda.cursor[page])' = pos + n
    <3>1. bda' = done.bda BY <1>11, <1>14, <2>14
    <3>2. At(bda'.cursor[page], bda.cols, pos + n) BY <1>2, <2>3, <3>1 DEF Printed
    <3>3. PICK r \in Nat, k \in Nat, cols \in Nat, q \in Nat :
             /\ r = bda'.cursor[page].row /\ k = bda'.cursor[page].col
             /\ cols = bda.cols /\ q = bda.rows
      <4>1. bda'.cursor[page] \in Cursors BY <3>2 DEF At
      <4>2. bda'.cursor[page].row \in Nat /\ bda'.cursor[page].col \in Nat
        BY <4>1, CursorInts
      <4>3. bda.cols \in Nat /\ bda.rows \in Nat BY <1>1, ByteIs DEF ScreenInv, ScreenTypes, DataArea
      <4>4. QED BY <4>2, <4>3
    <3>4. pos + n < (q + 1) * cols BY <1>17, <1>19, <2>9, <3>3 DEF EndsOnScreen
    <3>5. r * cols + k = pos + n BY <3>2, <3>3 DEF At
    <3>6. r <= q BY <3>3, <3>4, <3>5, RowOnScreen
    <3>7. QED BY <1>17, <3>2, <3>3, <3>6 DEF At, OnScreen, InLine, Position
  <2>15. QED BY <2>9, <2>13, <2>14
<1>20. StringsRunOn'
  <2>1. call'.page = page /\ call'.str = str /\ call'.flag = flag /\ call'.from = bda.cursor
        /\ call'.start = from
    BY <1>6, <1>18
  <2>2. QED BY <1>15, <1>18, <1>19, <2>1
            DEF StringsRunOn, EndsOnScreen, RoomFor, InLine, OnScreen, Position,
                PlacesOf, PlacesFrom, Place
<1>21. RepeatsRunOn' BY <1>6 DEF RepeatsRunOn
<1>22. QED BY <1>13, <1>20, <1>21 DEF ScreenInv

LEMMA ScreenNextInv == ScreenInv /\ [ScreenNext]_screenVars => ScreenInv'
<1> SUFFICES ASSUME ScreenInv, [ScreenNext]_screenVars PROVE ScreenInv' OBVIOUS
<1>1. ScreenTypes BY DEF ScreenInv
<1>2. Pages \subseteq 0 .. 7 BY PagesAssumption
<1>3. bda.cols \in 1 .. 255 BY <1>1 DEF ScreenTypes, DataArea
<1>4. ASSUME call = Idle, Call PROVE ScreenInv'
  <2>1. ASSUME NEW m \in DOMAIN Modes, SetMode(m) PROVE ScreenInv' BY <1>4, <2>1, SetModeStep
  <2>2. ASSUME NEW row \in Rows, NEW col \in Columns, NEW p \in Pages, SetCursor(row, col, p)
        PROVE  ScreenInv'
    <3>1. row \in Bytes /\ col \in Bytes
      <4>1. PICK n \in 1 .. 255, b \in 1 .. 255 : n = bda.cols /\ b = RowBound
        BY <1>3, GuestAssumption
      <4>2. row \in 0 .. b - 1 /\ col \in 0 .. n BY <4>1 DEF Rows, Columns
      <4>3. QED BY <4>2, ByteIs
    <3>2. QED BY <1>2, <1>4, <2>2, <3>1, SetCursorStep
  <2>3. ASSUME NEW p \in Pages, SelectPage(p) PROVE ScreenInv' BY <1>2, <1>4, <2>3, SelectPageStep
  <2>4. ASSUME NEW c \in Letters, NEW a \in Attributes, NEW p \in Pages, NEW n \in Counts,
               NEW show \in BOOLEAN, WriteChar(c, a, p, n, show)
        PROVE  ScreenInv'
    <3>1. n \in Nat /\ p \in 0 .. 7 BY <1>2, GuestAssumption
    <3>2. QED BY <1>4, <2>4, <3>1, WriteCharStep
  <2>5. ASSUME NEW c \in Characters, NEW a \in Attributes, NEW p \in Pages, Teletype(c, a, p)
        PROVE  ScreenInv'
    BY <1>2, <1>4, <2>5, TeletypeStep
  <2>6. ASSUME NEW row \in {0, 255}, NEW col \in {0, bda.cols - 1}, NEW flag \in 0 .. 1,
               NEW s \in Strings, NEW p \in Pages, WriteString(row, col, flag, s, p)
        PROVE  ScreenInv'
    <3>1. row \in Bytes /\ col \in Bytes
      <4>1. PICK n \in 1 .. 255 : n = bda.cols BY <1>3
      <4>2. QED BY <4>1, ByteIs
    <3>2. QED BY <1>2, <1>4, <2>6, <3>1, WriteStringStep
  <2>7. ASSUME LoadGraphicsChars(13) PROVE ScreenInv' BY <1>4, <2>7, LoadGraphicsCharsStep
  <2>8. QED BY <1>4, <2>1, <2>2, <2>3, <2>4, <2>5, <2>6, <2>7 DEF Call
<1>5. ASSUME call = Idle, Port PROVE ScreenInv' BY <1>5, PortStep
<1>6. ASSUME Return PROVE ScreenInv' BY <1>6, ReturnStep
<1>7. ASSUME UNCHANGED screenVars PROVE ScreenInv'
  BY <1>7 DEF screenVars, ScreenInv, ScreenTypes, HardwareShowsActivePage, Register, Position, RepeatsRunOn,
              StringsRunOn, EndsOnScreen, RoomFor, InLine, OnScreen, PlacesOf, PlacesFrom, Place
<1>8. QED BY <1>4, <1>5, <1>6, <1>7 DEF ScreenNext

\* The types of the data area and the CRTC, what the hardware shows, and where
\* the last call wrote, for every table of modes and every sequence of calls.
THEOREM ScreenInvariant == ScreenSpec => []ScreenInv
<1>1. ScreenInit => ScreenInv BY ScreenInitInv
<1>2. QED BY <1>1, ScreenNextInv, PTL DEF ScreenSpec

\* Until the guest writes those registers itself, the CRTC shows the page the
\* BIOS calls active and its cursor (set_active_page, set_cursor_pos).
THEOREM HardwareFollows == ScreenSpec => []HardwareShowsActivePage
<1>1. ScreenInv => HardwareShowsActivePage BY DEF ScreenInv
<1>2. QED BY <1>1, ScreenInvariant, PTL

\* A repeated character fills consecutive places, however wide the mode and
\* however many they are (write_char).
THEOREM RepeatsFillLines == ScreenSpec => []RepeatsRunOn
<1>1. ScreenInv => RepeatsRunOn BY DEF ScreenInv
<1>2. QED BY <1>1, ScreenInvariant, PTL

\* A string of printing characters that ends on the screen stands in
\* consecutive places, and whatever it is made of it leaves the cursors where
\* its flag says (write_string).
THEOREM StringsFillLines == ScreenSpec => []StringsRunOn
<1>1. ScreenInv => StringsRunOn BY DEF ScreenInv
<1>2. QED BY <1>1, ScreenInvariant, PTL
=============================================================================
