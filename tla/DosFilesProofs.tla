--------------------------- MODULE DosFilesProofs ---------------------------
(* Proofs about DosFiles, for every set of files, table and range of what   *)
(* programs ask for.                                                        *)
EXTENDS DosFiles, WellFoundedInduction, TLAPS

IInv == TypeOK /\ HandlesHold

\* What the words are.
LEMMA SizeIs == WordSize = 65536
BY DEF WordSize

LEMMA IsWord == WordSize = 65536 /\ \A n : n \in Word <=> n \in Nat /\ n < WordSize
<1>1. WordSize \in Nat BY SizeIs
<1>2. \A n : n \in Word <=> n \in Nat /\ n < WordSize BY <1>1 DEF Word
<1>3. QED BY <1>2, SizeIs

\* The order of the numbers, as a relation.
Before == OpToRel(<, Nat)

LEMMA BeforeIsLess == \A x, y \in Nat : <<x, y>> \in Before <=> x < y
BY DEF Before, OpToRel

\* The number the loop of open_existing_file stops at is a free one.
LEMMA LowestIsFree ==
  ASSUME Free # {}
  PROVE  Lowest \in Free /\ \A h \in Free : Lowest <= h
<1>1. Free \subseteq Nat BY DosAssumption DEF Free, HandleRange, FirstHandle
<1>2. PICK m \in Free : \A h \in Free : ~ (<<h, m>> \in Before)
  <2>1. IsWellFoundedOn(Before, Nat) BY NatLessThanWellFounded DEF Before
  <2>2. QED BY <1>1, <2>1, WFMin
<1>3. \A h \in Free : m <= h
  <2> TAKE h \in Free
  <2>1. h \in Nat /\ m \in Nat BY <1>1
  <2>2. ~(h < m) BY <1>2, <2>1, BeforeIsLess
  <2>3. QED BY <2>1, <2>2
<1>4. \E l \in Free : \A h \in Free : l <= h BY <1>3
<1>5. QED BY <1>4 DEF Lowest

\* AX after a read is a word.
LEMMA ReadIsWord ==
  ASSUME NEW h \in DOMAIN handles, NEW n \in Lengths, handles[h] \in Files
  PROVE  /\ BytesRead(h, n) \in Nat
         /\ BytesRead(h, n) <= n /\ BytesRead(h, n) <= Size[handles[h]]
         /\ BytesRead(h, n) \in {n, Size[handles[h]]}
         /\ BytesRead(h, n) % WordSize = BytesRead(h, n)
<1>1. n \in Nat /\ n < 65536 BY DosAssumption, IsWord
<1>2. Size[handles[h]] \in Nat BY DosAssumption
<1>3. BytesRead(h, n) \in Nat /\ BytesRead(h, n) < 65536
  BY <1>1, <1>2 DEF BytesRead
<1>4. BytesRead(h, n) % WordSize = BytesRead(h, n) BY <1>3, IsWord
<1>5. QED BY <1>1, <1>2, <1>3, <1>4 DEF BytesRead

LEMMA InitIInv == FilesInit => IInv
<1> SUFFICES ASSUME FilesInit PROVE IInv OBVIOUS
<1>1. DOMAIN handles = {} /\ DOMAIN mine = {} BY DEF FilesInit
<1>2. handles = [h \in DOMAIN handles |-> handles[h]] BY DEF FilesInit
<1>3. ax \in Word BY IsWord DEF FilesInit
<1>4. QED BY <1>1, <1>2, <1>3 DEF FilesInit, IInv, TypeOK, HandlesHold

\* A step that leaves both tables alone or forgets the program's.
LEMMA TablesKept ==
  ASSUME IInv, handles' = handles, mine' = mine \/ mine' = << >>,
         present' \subseteq Files, pathSet' \in BOOLEAN, ax' \in Word,
         carry' \in BOOLEAN, fatal' \in BOOLEAN, panicked' \in BOOLEAN
  PROVE  IInv'
BY DEF IInv, TypeOK, HandlesHold

\* What AH=3Dh does when it finds the file and a handle for it.
LEMMA OpenIInv ==
  ASSUME IInv, NEW f \in Files, Free # {},
         handles' = With(handles, Lowest, f), mine' = With(mine, Lowest, f),
         ax' = Lowest, carry' = FALSE, UNCHANGED <<present, pathSet, fatal, panicked>>
  PROVE  IInv'
<1>1. Lowest \in HandleRange /\ Lowest \notin DOMAIN handles
  BY LowestIsFree DEF Free
<1>2. Lowest \in Word
  BY <1>1, DosAssumption, IsWord DEF HandleRange, FirstHandle
<1>3. /\ DOMAIN handles' = DOMAIN handles \cup {Lowest}
      /\ handles'[Lowest] = f
      /\ \A x \in DOMAIN handles : x # Lowest => handles'[x] = handles[x]
  BY DEF With
<1>4. /\ DOMAIN mine' = DOMAIN mine \cup {Lowest}
      /\ mine'[Lowest] = f
      /\ \A x \in DOMAIN mine : x # Lowest => mine'[x] = mine[x]
  BY DEF With
<1>5. handles' = [h \in DOMAIN handles' |-> handles'[h]] BY DEF With
<1>6. TypeOK' BY <1>1, <1>2, <1>3, <1>4, <1>5 DEF IInv, TypeOK
<1>7. HandlesHold' BY <1>3, <1>4 DEF IInv, HandlesHold
<1>8. QED BY <1>6, <1>7 DEF IInv

\* What AH=3Eh does.
LEMMA CloseIInv ==
  ASSUME IInv, NEW h \in Given, Close(h)
  PROVE  IInv'
<1>1. /\ DOMAIN handles' = DOMAIN handles \ {h}
      /\ \A x \in DOMAIN handles \ {h} : handles'[x] = handles[x]
  BY DEF Close, Without
<1>2. /\ DOMAIN mine' = DOMAIN mine \ {h}
      /\ \A x \in DOMAIN mine \ {h} : mine'[x] = mine[x]
  BY DEF Close, Without
<1>3. handles' = [x \in DOMAIN handles' |-> handles'[x]] BY DEF Close, Without
<1>4. TypeOK' BY <1>1, <1>2, <1>3 DEF Close, IInv, TypeOK
<1>5. HandlesHold' BY <1>1, <1>2 DEF IInv, HandlesHold
<1>6. QED BY <1>4, <1>5 DEF IInv

\* A panic changes neither table.
LEMMA PanicIInv == ASSUME IInv, Panic PROVE IInv'
<1>1. QED BY TablesKept DEF Panic, IInv, TypeOK

LEMMA StepIInv == IInv /\ [FilesNext]_filesVars => IInv'
<1> SUFFICES ASSUME IInv, [FilesNext]_filesVars PROVE IInv' OBVIOUS
<1>1. ASSUME NEW f \in Files, Open(f) PROVE IInv'
  <2>1. CASE ~pathSet \/ (f \in present /\ Free = {}) BY <1>1, <2>1, PanicIInv DEF Open
  <2>2. CASE pathSet /\ f \in present /\ Free # {} BY <1>1, <2>2, OpenIInv DEF Open
  <2>3. CASE pathSet /\ f \notin present
    <3>1. ax' \in Word BY <1>1, <2>3, IsWord DEF Open
    <3>2. QED BY <1>1, <2>3, <3>1, TablesKept DEF Open, IInv, TypeOK
  <2>4. QED BY <2>1, <2>2, <2>3 DEF IInv, TypeOK
<1>2. ASSUME NEW h \in Given, Close(h) PROVE IInv' BY <1>2, CloseIInv
<1>3. ASSUME NEW h \in Given, NEW n \in Lengths, Read(h, n) PROVE IInv'
  <2>1. CASE ~(h \in DOMAIN handles /\ handles[h] \in present)
    BY <1>3, <2>1, TablesKept DEF Read, filesVars, IInv, TypeOK
  <2>2. CASE h \in DOMAIN handles /\ handles[h] \in present
    <3>1. CASE handles[h] \in Directories /\ n > 0 BY <1>3, <2>2, <3>1, PanicIInv DEF Read
    <3>2. CASE ~(handles[h] \in Directories /\ n > 0)
      <4>1. handles[h] \in Files BY <2>2 DEF IInv, TypeOK
      <4>2. BytesRead(h, n) \in Nat /\ BytesRead(h, n) % WordSize = BytesRead(h, n)
            /\ BytesRead(h, n) <= n
        BY <2>2, <4>1, ReadIsWord
      <4>3. ax' = BytesRead(h, n) BY <1>3, <2>2, <3>2, <4>2 DEF Read
      <4>4. ax' \in Word BY <4>2, <4>3, DosAssumption, IsWord
      <4>5. QED BY <1>3, <2>2, <3>2, <4>4, TablesKept DEF Read, IInv, TypeOK
    <3>3. QED BY <3>1, <3>2
  <2>3. QED BY <2>1, <2>2
<1>4. CASE Allocate
  <2>1. ax' \in Word BY <1>4, IsWord DEF Allocate
  <2>2. QED BY <1>4, <2>1, TablesKept DEF Allocate, IInv, TypeOK
<1>5. CASE FreeOrResize BY <1>5, TablesKept DEF FreeOrResize, IInv, TypeOK
<1>6. CASE Exit BY <1>6, TablesKept DEF Exit, IInv, TypeOK
<1>7. CASE Load
  <2>1. ax' \in Word BY <1>7, IsWord DEF Load
  <2>2. QED BY <1>7, <2>1, TablesKept DEF Load, IInv, TypeOK
<1>8. CASE Resume BY <1>8, TablesKept DEF Resume, IInv, TypeOK
<1>9. ASSUME NEW f \in Files, HostFile(f) PROVE IInv'
  BY <1>9, TablesKept DEF HostFile, IInv, TypeOK
<1>10. CASE UNCHANGED filesVars BY <1>10, TablesKept DEF filesVars, IInv, TypeOK
<1>11. QED BY <1>1, <1>2, <1>3, <1>4, <1>5, <1>6, <1>7, <1>8, <1>9, <1>10 DEF FilesNext

\* The invariant holds in every state of the program.
THEOREM Invariance == FilesSpec => []IInv
BY InitIInv, StepIInv, PTL DEF FilesSpec

\* TypeOK: in particular every handle in the table is one of the table's
\* numbers, and AX is a word after every function.
THEOREM TypeCorrect == FilesSpec => []TypeOK
<1>1. IInv => TypeOK BY DEF IInv
<1>2. QED BY <1>1, Invariance, PTL

\* HandlesHold: what AH=3Dh gave out stays the program's until it closes it,
\* whatever was left open before it.
THEOREM HandlesStay == FilesSpec => []HandlesHold
<1>1. IInv => HandlesHold BY DEF IInv
<1>2. QED BY <1>1, Invariance, PTL

FreshHandle ==
  /\ \A h \in DOMAIN mine' \ DOMAIN mine : h \notin DOMAIN handles /\ ax' = h
  /\ \A h \in DOMAIN handles \cap DOMAIN handles' : handles'[h] = handles[h]

\* A step either leaves the tables alone (and the program may forget its
\* own), inserts at the lowest free number, or removes one entry.
LEMMA StepFresh == IInv /\ [FilesNext]_filesVars => [FreshHandle]_filesVars
<1> SUFFICES ASSUME IInv, [FilesNext]_filesVars PROVE FreshHandle
  BY DEF FreshHandle
<1> USE DEF FreshHandle
<1>1. ASSUME handles' = handles, DOMAIN mine' \subseteq DOMAIN mine PROVE FreshHandle
  BY <1>1
<1>2. Panic => FreshHandle BY <1>1 DEF Panic
<1>3. ASSUME NEW f \in Files, Open(f) PROVE FreshHandle
  <2>1. CASE ~pathSet \/ (f \in present /\ Free = {}) BY <1>3, <2>1, <1>2 DEF Open
  <2>2. CASE pathSet /\ f \notin present BY <1>3, <2>2, <1>1 DEF Open
  <2>3. CASE pathSet /\ f \in present /\ Free # {}
    <3>1. Lowest \notin DOMAIN handles BY <2>3, LowestIsFree DEF Free
    <3>2. handles' = With(handles, Lowest, f) /\ mine' = With(mine, Lowest, f) /\ ax' = Lowest
      BY <1>3, <2>3 DEF Open
    <3>3. DOMAIN mine' = DOMAIN mine \cup {Lowest} BY <3>2 DEF With
    <3>4. \A x \in DOMAIN handles : handles'[x] = handles[x] BY <3>1, <3>2 DEF With
    <3>5. QED BY <3>1, <3>2, <3>3, <3>4
  <2>4. QED BY <2>1, <2>2, <2>3 DEF IInv, TypeOK
<1>4. ASSUME NEW h \in Given, Close(h) PROVE FreshHandle
  <2>1. handles' = Without(handles, h) /\ mine' = Without(mine, h) BY <1>4 DEF Close
  <2>2. DOMAIN mine' \subseteq DOMAIN mine BY <2>1 DEF Without
  <2>3. \A x \in DOMAIN handles \cap DOMAIN handles' : handles'[x] = handles[x]
    BY <2>1 DEF Without
  <2>4. QED BY <2>2, <2>3
<1>5. ASSUME NEW h \in Given, NEW n \in Lengths, Read(h, n) PROVE FreshHandle
  BY <1>1, <1>2, <1>5 DEF Read, filesVars
<1>6. CASE Allocate BY <1>1, <1>6 DEF Allocate
<1>7. CASE FreeOrResize BY <1>1, <1>7 DEF FreeOrResize
<1>8. CASE Exit BY <1>1, <1>8 DEF Exit
<1>9. CASE Load
  <2>1. DOMAIN mine' = {} BY <1>9 DEF Load
  <2>2. QED BY <1>1, <1>9, <2>1 DEF Load
<1>10. CASE Resume BY <1>1, <1>10 DEF Resume
<1>11. ASSUME NEW f \in Files, HostFile(f) PROVE FreshHandle
  BY <1>1, <1>11 DEF HostFile
<1>12. CASE UNCHANGED filesVars BY <1>1, <1>12 DEF filesVars
<1>13. QED BY <1>3, <1>4, <1>5, <1>6, <1>7, <1>8, <1>9, <1>10, <1>11, <1>12 DEF FilesNext

\* NewHandleWasFree: a new handle is one nobody holds, for every table.
THEOREM FreshHandles == FilesSpec => NewHandleWasFree
<1>1. FilesSpec => [][FreshHandle]_filesVars
  BY Invariance, StepFresh, PTL DEF FilesSpec
<1>2. QED BY <1>1 DEF NewHandleWasFree, FreshHandle

ReadTold ==
  \A h \in Given, n \in Lengths :
    (Read(h, n) /\ h \in DOMAIN mine /\ mine[h] \in present /\ ~panicked')
      => /\ ax' <= n /\ ax' <= Size[mine[h]]
         /\ ax' \in {n, Size[mine[h]]}
         /\ ~carry'

\* A read of a handle the program holds is a read of the file it opened.
LEMMA StepTold == IInv => ReadTold
<1> SUFFICES ASSUME IInv, NEW h \in Given, NEW n \in Lengths,
                    Read(h, n), h \in DOMAIN mine, mine[h] \in present, ~panicked'
             PROVE  /\ ax' <= n /\ ax' <= Size[mine[h]]
                    /\ ax' \in {n, Size[mine[h]]}
                    /\ ~carry'
  BY DEF ReadTold
<1>1. h \in DOMAIN handles /\ handles[h] = mine[h] BY DEF IInv, HandlesHold
<1>2. handles[h] \in Files BY <1>1 DEF IInv, TypeOK
<1>3. ax' = BytesRead(h, n) % WordSize /\ carry' = FALSE BY <1>1 DEF Read, Panic
<1>4. QED BY <1>1, <1>2, <1>3, ReadIsWord

\* ReadTellsBytes: the count in AX is of the program's own file.
THEOREM ReadsTold == FilesSpec => ReadTellsBytes
<1>1. FilesSpec => [][ReadTold]_filesVars BY Invariance, StepTold, PTL
<1>2. QED BY <1>1 DEF ReadTellsBytes, ReadTold

=============================================================================
