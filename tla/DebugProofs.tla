----------------------------- MODULE DebugProofs -----------------------------
(***************************************************************************)
(* Proofs about the two parts of debug/.  Debugger: for any code, memory,  *)
(* contents and counts.  Tracer: for every program, every set of           *)
(* instructions and every position and length of the ROM.                  *)
(***************************************************************************)
EXTENDS Debugger, Tracer, WellFoundedInduction, TLAPS

-----------------------------------------------------------------------------
(* The lists of the debugger. *)

\* Add gives a list of the same kind, without duplicates if there were none.
LEMMA AddKeeps ==
  ASSUME NEW S, NEW s \in Seq(S), NEW a \in S
  PROVE  /\ Add(s, a) \in Seq(S)
         /\ NoDuplicates(s) => NoDuplicates(Add(s, a))
<1>1. CASE In(s, a)
  BY <1>1 DEF Add
<1>2. CASE ~In(s, a)
  <2>1. /\ Add(s, a) \in Seq(S) /\ Len(Add(s, a)) = Len(s) + 1 /\ Len(s) \in Nat
        /\ \A i \in 1..Len(s) : Add(s, a)[i] = s[i]
        /\ Add(s, a)[Len(s) + 1] = a
    BY <1>2 DEF Add
  <2>2. \A i \in 1..Len(s) : s[i] # a
    BY <1>2 DEF In
  <2>3. \A i \in 1..Len(Add(s, a)) : i \in 1..Len(s) \/ i = Len(s) + 1
    BY <2>1
  <2>4. NoDuplicates(s) => NoDuplicates(Add(s, a))
    <3> SUFFICES ASSUME NoDuplicates(s), NEW i \in 1..Len(Add(s, a)),
                        NEW j \in 1..Len(Add(s, a)), Add(s, a)[i] = Add(s, a)[j]
                 PROVE  i = j
      BY DEF NoDuplicates
    <3>1. CASE i \in 1..Len(s) /\ j \in 1..Len(s)
      BY <2>1, <3>1 DEF NoDuplicates
    <3>2. CASE i = Len(s) + 1 /\ j \in 1..Len(s)
      BY <2>1, <2>2, <3>2
    <3>3. CASE i \in 1..Len(s) /\ j = Len(s) + 1
      BY <2>1, <2>2, <3>3
    <3> QED BY <2>3, <3>1, <3>2, <3>3
  <2> QED BY <2>1, <2>4
<1> QED BY <1>1, <1>2

\* A set of natural numbers that is not empty has a least element.
LEMMA Least ==
  ASSUME NEW T \in SUBSET Nat, T # {}
  PROVE  \E x \in T : \A y \in T : x <= y
<1> DEFINE R == OpToRel(<, Nat)
<1>1. IsWellFoundedOn(R, Nat)
  BY NatLessThanWellFounded
<1>2. \A x, y \in Nat : <<y, x>> \in R <=> y < x
  BY DEF OpToRel
<1> HIDE DEF R
<1>3. PICK x \in T : \A y \in T : ~(<<y, x>> \in R)
  BY <1>1, WFMin
<1>4. ASSUME NEW y \in T PROVE x <= y
  <2>1. x \in Nat /\ y \in Nat /\ ~(<<y, x>> \in R)
    BY <1>3
  <2>2. ~(y < x)
    BY <1>2, <2>1
  <2> QED BY <2>1, <2>2
<1> QED BY <1>4

\* remove takes out one entry.
LEMMA RemoveKeeps ==
  ASSUME NEW S, NEW s \in Seq(S), NEW a
  PROVE  /\ Remove(s, a) \in Seq(S)
         /\ NoDuplicates(s) => NoDuplicates(Remove(s, a))
<1>1. CASE ~In(s, a)
  BY <1>1 DEF Remove
<1>2. CASE In(s, a)
  <2> DEFINE pos == CHOOSE i \in 1..Len(s) : s[i] = a /\ \A j \in 1..(i - 1) : s[j] # a
             t == [i \in 1..(Len(s) - 1) |-> IF i < pos THEN s[i] ELSE s[i + 1]]
             T == {i \in 1..Len(s) : s[i] = a}
  <2>1. Remove(s, a) = t /\ Len(s) \in Nat
    BY <1>2 DEF Remove
  <2>2. PICK x \in T : \A y \in T : x <= y
    <3>1. T \in SUBSET Nat /\ T # {}
      BY <1>2 DEF In
    <3> HIDE DEF T
    <3> QED BY <3>1, Least
  <2>3. x \in 1..Len(s) /\ s[x] = a /\ \A j \in 1..(x - 1) : s[j] # a
    BY <2>1, <2>2
  <2>4. pos \in 1..Len(s)
    BY <2>3
  <2> HIDE DEF pos
  <2>5. t \in Seq(S) /\ Len(t) = Len(s) - 1
    BY <2>1, <2>4
  <2>6. \A i \in 1..(Len(s) - 1) : t[i] = IF i < pos THEN s[i] ELSE s[i + 1]
    OBVIOUS
  <2> HIDE DEF t
  <2>7. NoDuplicates(s) => NoDuplicates(t)
    <3> SUFFICES ASSUME NoDuplicates(s), NEW i \in 1..Len(t), NEW j \in 1..Len(t), t[i] = t[j]
                 PROVE  i = j
      BY DEF NoDuplicates
    <3> QED BY <2>1, <2>4, <2>5, <2>6 DEF NoDuplicates
  <2> QED BY <2>1, <2>5, <2>7
<1> QED BY <1>1, <1>2

-----------------------------------------------------------------------------
(* The invariant. *)

DebuggerInv == TypeOK /\ ListsAreSets /\ RunsOnlyWhileQuiet

LEMMA DebuggerStart == DebuggerInit => DebuggerInv
<1> SUFFICES ASSUME DebuggerInit PROVE DebuggerInv
  OBVIOUS
<1>1. TypeOK
  <2>1. /\ ip \in Code /\ mem \in [Data -> Values] /\ dst = 0 /\ left = 0
        /\ mode = "idle" /\ fatal = FALSE /\ ran = FALSE
    BY DEF DebuggerInit
  <2>4. 0 \in Code /\ 0 \in 0..MaxCount
    BY DebuggerAssumption DEF DebuggerAssumption
  <2>2. ipBps \in Seq(Code) /\ memBps \in Seq(Data)
    BY DEF DebuggerInit
  <2>3. map \in [Data -> Values \cup {Unseen}]
    BY DEF DebuggerInit
  <2> QED BY <2>1, <2>2, <2>3, <2>4 DEF TypeOK
<1>2. ListsAreSets
  BY DEF DebuggerInit, ListsAreSets, NoDuplicates
<1>3. RunsOnlyWhileQuiet
  BY DEF DebuggerInit, RunsOnlyWhileQuiet
<1> QED BY <1>1, <1>2, <1>3 DEF DebuggerInv

\* What should_break leaves in map, and what it means that it lets the run go on.
LEMMA ShouldBreakKeeps ==
  ASSUME TypeOK, NEW i, NEW m \in [Data -> Values], NEW f \in BOOLEAN, NEW b \in BOOLEAN,
         ShouldBreak(i, m, f, b)
  PROVE  /\ map' \in [Data -> Values \cup {Unseen}]
         /\ ~b => /\ ~f
                  /\ ~In(ipBps, i)
                  /\ \A a \in Data : In(memBps, a) => map'[a] = m[a]
<1>1. MapAfter(m) \in [Data -> Values \cup {Unseen}]
  BY DEF MapAfter, TypeOK
<1>2. map' \in [Data -> Values \cup {Unseen}]
  BY <1>1 DEF ShouldBreak, TypeOK
<1>3. ASSUME ~b PROVE ~f /\ ~In(ipBps, i) /\ map' = MapAfter(m)
                      /\ \A a \in Data : In(memBps, a) => ~HasChanged(a, m[a])
  BY <1>3 DEF ShouldBreak
<1>4. ASSUME ~b, NEW a \in Data, In(memBps, a) PROVE map'[a] = m[a]
  BY <1>3, <1>4 DEF MapAfter, Checked
<1> QED BY <1>2, <1>3, <1>4

LEMMA CommandInv == DebuggerInv /\ Command => DebuggerInv'
<1> SUFFICES ASSUME DebuggerInv, Command PROVE DebuggerInv'
  OBVIOUS
<1> USE DebuggerAssumption DEF DebuggerInv
<1>1. ASSUME Idle, UNCHANGED <<machine, map, command>>,
             ipBps' \in Seq(Code), memBps' \in Seq(Data),
             NoDuplicates(ipBps'), NoDuplicates(memBps')
      PROVE  DebuggerInv'
  BY <1>1 DEF TypeOK, ListsAreSets, RunsOnlyWhileQuiet, Idle, machine, command
<1>2. /\ ipBps \in Seq(Code) /\ memBps \in Seq(Data)
      /\ NoDuplicates(ipBps) /\ NoDuplicates(memBps)
  BY DEF TypeOK, ListsAreSets
<1>3. ASSUME NEW a \in Code, BpAdd(a) \/ BpRemove(a) PROVE DebuggerInv'
  BY <1>1, <1>2, <1>3, AddKeeps, RemoveKeeps DEF BpAdd, BpRemove
<1>4. ASSUME NEW a \in Data, MembpAdd(a) \/ MembpRemove(a) PROVE DebuggerInv'
  BY <1>1, <1>2, <1>4, AddKeeps, RemoveKeeps DEF MembpAdd, MembpRemove
<1>5. CASE BpClear \/ MembpClear
  <2>1. \A S : << >> \in Seq(S)
    OBVIOUS
  <2>2. NoDuplicates(<< >>)
    BY DEF NoDuplicates
  <2>3. CASE BpClear
    BY <1>1, <1>2, <2>1, <2>2, <2>3 DEF BpClear
  <2>4. CASE MembpClear
    BY <1>1, <1>2, <2>1, <2>2, <2>4 DEF MembpClear
  <2> QED BY <1>5, <2>3, <2>4
<1>6. ASSUME NEW kind \in {"into", "over", "frame"}, NEW n \in 0..MaxCount, NEW a \in Code,
             kind = "into" => n > 0, Start(kind, n, a)
      PROVE  DebuggerInv'
  BY <1>6 DEF Start, watches, TypeOK, ListsAreSets, RunsOnlyWhileQuiet
<1>7. ASSUME NEW n \in 1..MaxCount, StepInto(n) PROVE DebuggerInv'
  BY <1>6, <1>7 DEF StepInto, DebuggerAssumption
<1>8. ASSUME NEW a \in Code, StepOver(a) PROVE DebuggerInv'
  BY <1>6, <1>8 DEF StepOver, DebuggerAssumption
<1>9. CASE RunFrame
  BY <1>6, <1>9 DEF RunFrame, DebuggerAssumption
<1>10. CASE Reset
  BY <1>10 DEF Reset, Idle, watches, command, TypeOK, ListsAreSets, RunsOnlyWhileQuiet,
    DebuggerAssumption
<1>11. ASSUME NEW i \in Code, NEW m \in [Data -> Values], Load(i, m) PROVE DebuggerInv'
  BY <1>11 DEF Load, Idle, watches, command, TypeOK, ListsAreSets, RunsOnlyWhileQuiet
<1> QED BY <1>3, <1>4, <1>5, <1>7, <1>8, <1>9, <1>10, <1>11 DEF Command

LEMMA RunInv == DebuggerInv /\ Run => DebuggerInv'
<1> SUFFICES ASSUME DebuggerInv, NEW i \in Code, NEW m \in [Data -> Values], NEW f \in BOOLEAN,
                    Step(i, m, f) \/ FrameStep(i, m, f)
             PROVE  DebuggerInv'
  BY DEF Run
<1> USE DebuggerAssumption DEF DebuggerInv
<1>1. CASE FrameStep(i, m, f)
  BY <1>1 DEF FrameStep, Execute, watches, TypeOK, ListsAreSets, RunsOnlyWhileQuiet
<1>2. CASE Step(i, m, f)
  <2>1. /\ mode \in {"into", "over"}
        /\ ip' = i /\ mem' = m /\ fatal' = (fatal \/ f) /\ ran' = TRUE
        /\ UNCHANGED <<dst, ipBps, memBps>>
    BY <1>2 DEF Step, Execute
  <2>2. PICK b \in BOOLEAN :
          /\ ShouldBreak(i, m, fatal \/ f, b)
          /\ left' = IF mode = "into" THEN left - 1 ELSE left
          /\ mode' = IF \/ b
                        \/ mode = "into" /\ left = 1
                        \/ mode = "over" /\ i = dst
                     THEN "idle" ELSE mode
    BY <1>2 DEF Step
  <2>3. (fatal \/ f) \in BOOLEAN
    BY DEF TypeOK
  <2>4. /\ map' \in [Data -> Values \cup {Unseen}]
        /\ ~b => /\ ~(fatal \/ f)
                 /\ ~In(ipBps, i)
                 /\ \A a \in Data : In(memBps, a) => map'[a] = m[a]
    BY <2>2, <2>3, ShouldBreakKeeps
  <2>5. left' \in 0..MaxCount /\ (mode' = "into" => left' > 0)
    BY <2>1, <2>2 DEF TypeOK, DebuggerAssumption
  <2>6. mode' \in {"idle", "into", "over"} /\ (mode' # "idle" => ~b)
    BY <2>1, <2>2
  <2>7. TypeOK'
    BY <2>1, <2>3, <2>4, <2>5, <2>6 DEF TypeOK
  <2>8. ListsAreSets'
    BY <2>1 DEF ListsAreSets, NoDuplicates
  <2>9. RunsOnlyWhileQuiet'
    BY <2>1, <2>4, <2>6 DEF RunsOnlyWhileQuiet, In
  <2> QED BY <2>7, <2>8, <2>9
<1> QED BY <1>1, <1>2

LEMMA DebuggerStep == DebuggerInv /\ [DebuggerNext]_debuggerVars => DebuggerInv'
<1>1. DebuggerInv /\ UNCHANGED debuggerVars => DebuggerInv'
  BY DEF DebuggerInv, debuggerVars, TypeOK, ListsAreSets, NoDuplicates, RunsOnlyWhileQuiet, In
<1> QED BY <1>1, CommandInv, RunInv DEF DebuggerNext

\* Through every command and every run the breakpoint lists stay sets, and a
\* run goes on only while none of them asks it to stop.
THEOREM DebuggerInvariance == DebuggerSpec => []DebuggerInv
BY DebuggerStart, DebuggerStep, PTL DEF DebuggerSpec

\* Every variable keeps its type.
THEOREM TypeCorrect == DebuggerSpec => []TypeOK
BY DebuggerInvariance, PTL DEF DebuggerInv

\* No list of breakpoints ever holds an address twice.
THEOREM NeverTwice == DebuggerSpec => []ListsAreSets
BY DebuggerInvariance, PTL DEF DebuggerInv

\* Step into and step over go on only while there is nothing to stop for.
THEOREM QuietRuns == DebuggerSpec => []RunsOnlyWhileQuiet
BY DebuggerInvariance, PTL DEF DebuggerInv

\* Every difference should_break finds is a stop of its own.
THEOREM NoChangeSwallowed == DebuggerSpec => ChangesStopOneByOne
<1> DEFINE A == \A a \in Data : map[a] # Unseen /\ map'[a] # map[a] =>
                  /\ mode' = "idle"
                  /\ \A b \in Data : map[b] # Unseen /\ map'[b] # map[b] => b = a
<1>1. DebuggerInv /\ [DebuggerNext]_debuggerVars => [A]_debuggerVars
  <2> SUFFICES ASSUME DebuggerInv, DebuggerNext PROVE A
    OBVIOUS
  <2>1. CASE UNCHANGED map
    BY <2>1
  <2>2. ASSUME NEW i \in Code, NEW m \in [Data -> Values], NEW f \in BOOLEAN, Step(i, m, f),
               ~UNCHANGED map
        PROVE  A
    <3>1. /\ map' = MapAfter(m)
          /\ (\E a \in Data : In(memBps, a) /\ HasChanged(a, m[a])) => mode' = "idle"
      BY <2>2 DEF Step, ShouldBreak
    <3>2. ASSUME NEW a \in Data, map[a] # Unseen, map'[a] # map[a]
          PROVE  a \in Checked(m) /\ In(memBps, a) /\ HasChanged(a, m[a])
      BY <3>1, <3>2 DEF MapAfter, Checked, HasChanged
    <3>3. ASSUME NEW a \in Checked(m), NEW b \in Checked(m),
                 HasChanged(a, m[a]), HasChanged(b, m[b])
          PROVE  a = b
      BY <3>3, DebuggerAssumption DEF Checked, DebuggerAssumption
    <3> QED BY <3>1, <3>2, <3>3
  <2>3. CASE Command
    BY <2>1, <2>3 DEF Command, BpAdd, BpRemove, BpClear, MembpAdd, MembpRemove, MembpClear,
      Reset, Load, StepInto, StepOver, RunFrame, Start, watches
  <2>4. ASSUME NEW i \in Code, NEW m \in [Data -> Values], NEW f \in BOOLEAN, FrameStep(i, m, f)
        PROVE  A
    BY <2>1, <2>4 DEF FrameStep, watches
  <2> QED BY <2>1, <2>2, <2>3, <2>4 DEF DebuggerNext, Run
<1> QED BY <1>1, DebuggerInvariance, PTL DEF DebuggerSpec, ChangesStopOneByOne

-----------------------------------------------------------------------------
(* The tracer: what is seen, and what was visited. *)

Kinds == CodeKinds \cup {"MemoryByte", "DollarString"}
Entry == [ma : Nat, kinds : SUBSET Kinds, visited : BOOLEAN]
Registers == [ah : Nat, dx : Nat, dxClean : BOOLEAN, dsClean : BOOLEAN]

\* A list of addresses, when the instructions in done were visited: what is
\* known only as code can be traced, and what is marked was visited.
Sound(known, done) ==
    /\ known \in Seq(Entry)
    /\ \A i \in DOMAIN known :
          /\ HasCode(known[i]) => known[i].ma \in Addresses
          /\ known[i].visited = TRUE => known[i].ma \in done

Names(known, a) == \E i \in DOMAIN known : known[i].ma = a

Types ==
    /\ code \in [Addresses -> Instructions \cup {Outside}]
    /\ visited \subseteq Addresses
    /\ regs \in Registers
    /\ at \in Addresses /\ start \in Addresses
    /\ pc \in {"pick", "trace", "done"}

\* The path under way started at an address that was visited or comes next.
OnPath == pc = "trace" => at = start \/ start \in visited

\* What may come after a visited instruction is visited, on the list, or
\* the next of the path.
Closing ==
    \A a \in visited : \A b \in Follows(a) :
       b \in visited \/ Names(seen, b) \/ (pc = "trace" /\ at = b)

\* The start of the program is visited first.
First == <<[ma |-> Base, kinds |-> {}, visited |-> FALSE]>>
Begun ==
    \/ Base \in visited
    \/ pc = "pick" /\ seen = First
    \/ pc = "trace" /\ at = Base

Finished == pc = "done" => Unvisited = {} /\ listing = Listing

Inv == Types /\ Sound(seen, visited) /\ OnPath /\ Closing /\ Begun /\ Finished

\* A set of numbers that is not empty has a least element, and Min is it.
LEMMA MinIn ==
  ASSUME NEW S, S \subseteq Nat, S # {}
  PROVE  Min(S) \in S /\ \A y \in S : Min(S) <= y
<1> DEFINE Before == OpToRel(<, Nat)
<1>1. PICK m \in S : \A y \in S : ~(<<y, m>> \in Before)
  <2>1. IsWellFoundedOn(Before, Nat) BY NatLessThanWellFounded
  <2> HIDE DEF Before
  <2>2. QED BY <2>1, WFMin
<1>2. \A y \in S : m <= y
  <2> TAKE y \in S
  <2>1. y \in Nat /\ m \in Nat OBVIOUS
  <2>2. ~(y < m) BY <1>1, <2>1 DEF OpToRel
  <2>3. QED BY <2>1, <2>2
<1>3. \E l \in S : \A y \in S : l =< y BY <1>2
<1>4. QED BY <1>3 DEF Min

\* Learning an address keeps what was known.
LEMMA LearnSound ==
  ASSUME NEW known, NEW done, Sound(known, done), NEW ma \in Nat, NEW kind \in Kinds,
         kind \in CodeKinds => ma \in Addresses
  PROVE  /\ Sound(Learn(known, ma, kind), done)
         /\ Names(Learn(known, ma, kind), ma)
         /\ \A a : Names(known, a) => Names(Learn(known, ma, kind), a)
<1> DEFINE L == Learn(known, ma, kind)
<1>0. known \in Seq(Entry) BY DEF Sound
<1>1. CASE \E i \in DOMAIN known : known[i].ma = ma
  <2>1. L = [i \in DOMAIN known |->
               IF known[i].ma = ma THEN [known[i] EXCEPT !.kinds = @ \cup {kind}] ELSE known[i]]
    BY <1>1 DEF Learn
  <2>2. \A i \in DOMAIN known : known[i] \in Entry BY <1>0
  <2>3. \A i \in DOMAIN known : /\ L[i] \in Entry
                                /\ L[i].ma = known[i].ma
                                /\ L[i].visited = known[i].visited
                                /\ known[i].kinds \subseteq L[i].kinds
    BY <2>1, <2>2 DEF Entry
  <2>4. DOMAIN L = DOMAIN known BY <2>1
  <2>5. L \in Seq(Entry) BY <1>0, <2>1, <2>3
  <2>6. \A i \in DOMAIN known : HasCode(L[i]) => HasCode(known[i]) BY <2>3 DEF HasCode
  <2> HIDE DEF L
  <2>7. QED BY <1>1, <2>3, <2>4, <2>5, <2>6 DEF Sound, Names, L
<1>2. CASE ~ \E i \in DOMAIN known : known[i].ma = ma
  <2> DEFINE e == [ma |-> ma, kinds |-> {kind}, visited |-> FALSE]
  <2>1. L = Append(known, e) BY <1>2 DEF Learn
  <2>2. e \in Entry /\ e.ma = ma /\ e.visited = FALSE BY DEF Entry
  <2>3. HasCode(e) => e.ma \in Addresses BY DEF HasCode
  <2> HIDE DEF e
  <2>4. L \in Seq(Entry) /\ Len(L) = Len(known) + 1 /\ L[Len(known) + 1] = e
        /\ \A i \in DOMAIN known : L[i] = known[i]
    BY <1>0, <2>1, <2>2
  <2> HIDE DEF L
  <2>5. DOMAIN L = 1 .. Len(known) + 1 /\ DOMAIN known = 1 .. Len(known) /\ Len(known) \in Nat
    BY <1>0, <2>4
  <2>6. \A i \in DOMAIN L : i \in DOMAIN known \/ i = Len(known) + 1 BY <2>5
  <2>7. Sound(L, done) BY <2>2, <2>3, <2>4, <2>6 DEF Sound
  <2>8. Names(L, ma) BY <2>2, <2>4, <2>5 DEF Names
  <2>9. \A a : Names(known, a) => Names(L, a) BY <2>4, <2>5 DEF Names
  <2>10. QED BY <2>7, <2>8, <2>9 DEF L
<1>3. QED BY <1>1, <1>2

\* An entry that is marked keeps its address and its kinds.
LEMMA MarkedEntry ==
  ASSUME NEW e \in Entry
  PROVE  /\ Marked(e) \in Entry /\ Marked(e).ma = e.ma
         /\ Marked(e).kinds = e.kinds /\ Marked(e).visited = TRUE
BY Zenon DEF Marked, Entry

\* Marking a visited address keeps what was known.
LEMMA MarkSound ==
  ASSUME NEW known, NEW done, Sound(known, done), NEW ma, ma \in done
  PROVE  /\ Sound(MarkVisited(known, ma), done)
         /\ \A a : Names(known, a) => Names(MarkVisited(known, ma), a)
<1> DEFINE M == MarkVisited(known, ma)
<1>0. known \in Seq(Entry) BY DEF Sound
<1>1. M = [i \in DOMAIN known |->
             IF known[i].ma = ma THEN Marked(known[i]) ELSE known[i]]
  BY DEF MarkVisited
<1>2. \A i \in DOMAIN known : known[i] \in Entry BY <1>0
<1>3. \A i \in DOMAIN known : /\ M[i] \in Entry
                              /\ M[i].ma = known[i].ma
                              /\ M[i].kinds = known[i].kinds
                              /\ M[i].visited = TRUE => known[i].visited = TRUE \/ known[i].ma = ma
  BY <1>1, <1>2, MarkedEntry
<1>4. DOMAIN M = DOMAIN known BY <1>1
<1>5. M \in Seq(Entry) BY <1>0, <1>1, <1>3
<1>6. \A i \in DOMAIN known : HasCode(M[i]) => HasCode(known[i]) BY <1>3 DEF HasCode
<1> HIDE DEF M
<1>7. QED BY <1>3, <1>4, <1>5, <1>6 DEF Sound, Names, M

\* More visited instructions do no harm to the list.
LEMMA SoundGrows ==
  ASSUME NEW known, NEW done, NEW more, Sound(known, done), done \subseteq more
  PROVE  Sound(known, more)
BY DEF Sound

\* What the decoder finds.
LEMMA Decoded ==
  ASSUME Types, NEW a \in Addresses
  PROVE  /\ code[a].op \in Ops /\ code[a].len \in Nat \ {0}
         /\ code[a].op \in {"jump", "branch", "call"} =>
               code[a].to \in Addresses \/ code[a].to = NoAddress
         /\ code[a].op \in {"setah", "setdx", "load"} => code[a].to \in Nat
<1>1. code[a] \in Instructions \cup {Outside} BY DEF Types
<1>2. QED BY <1>1, TracerAssumption

\* An instruction goes on, or ends a path that nothing follows.
GoesOn(known) ==
    \/ Advance(known)
    \/ EndPath(known) /\ (code[at].op \in {"ret", "int20", "jump"} \/ at \in ends')

\* One instruction of a path keeps the invariant, whichever it is.
LEMMA Walk ==
  ASSUME Inv, NEW known,
         pc = "trace", at \notin visited, visited' = visited \cup {at},
         UNCHANGED <<code, start, listing>>,
         Sound(known, visited'), \A a : Names(seen, a) => Names(known, a),
         code[at].op \in {"jump", "branch", "call"} =>
            code[at].to = NoAddress \/ Names(known, code[at].to),
         regs' \in Registers, ends' = ends \/ ends' = ends \cup {at},
         GoesOn(known)
  PROVE  Inv'
<1>1. Types BY DEF Inv
<1>2. at \in Addresses /\ start \in Addresses BY <1>1 DEF Types
<1>3. start \in visited' BY DEF Inv, OnPath
<1>4. code[at].len \in Nat \ {0} BY <1>1, <1>2, Decoded
<1>5. \/ /\ at' = at + code[at].len /\ at' < Base + RomLength
         /\ seen' = known /\ pc' = "trace"
      \/ /\ seen' = MarkVisited(known, start) /\ pc' = "pick" /\ at' = at
         /\ \/ code[at].op \in {"ret", "int20", "jump"}
            \/ at \in ends'
            \/ ~(at + code[at].len < Base + RomLength)
  <2>1. at + code[at].len \in Int /\ Base + RomLength \in Int
    BY <1>2, <1>4, TracerAssumption DEF Addresses
  <2>2. CASE Advance(known)
    <3>1. CASE at + code[at].len >= Base + RomLength
      BY <2>1, <2>2, <3>1 DEF Advance, EndPath
    <3>2. CASE ~(at + code[at].len >= Base + RomLength)
      BY <2>1, <2>2, <3>2 DEF Advance
    <3>3. QED BY <3>1, <3>2
  <2>3. CASE EndPath(known) /\ (code[at].op \in {"ret", "int20", "jump"} \/ at \in ends')
    BY <2>3 DEF EndPath
  <2>4. QED BY <2>2, <2>3 DEF GoesOn
<1>6. at' \in Addresses
  <2>1. CASE at' = at BY <1>2, <2>1
  <2>2. CASE at' = at + code[at].len /\ at' < Base + RomLength
    BY <1>2, <1>4, <2>2, TracerAssumption DEF Addresses
  <2>3. QED BY <1>5, <2>1, <2>2
<1>7. Types' BY <1>1, <1>2, <1>5, <1>6 DEF Types
<1>8. Sound(seen, visited)' /\ \A a : Names(known, a) => Names(seen', a)
  BY <1>3, <1>5, MarkSound
<1>9. OnPath' BY <1>3 DEF OnPath
<1>10. Closing'
  <2> SUFFICES ASSUME NEW a \in visited', NEW b \in Follows(a)'
               PROVE  b \in visited' \/ Names(seen', b) \/ (pc' = "trace" /\ at' = b)
    BY DEF Closing
  <2>1. CASE a \in visited
    <3>1. b \in Follows(a) BY DEF Follows
    <3>2. b \in visited \/ Names(seen, b) \/ at = b BY <2>1, <3>1 DEF Inv, Closing
    <3>3. QED BY <3>2, <1>8
  <2>2. CASE a = at
    <3>1. CASE code[at].op \in {"jump", "branch", "call"} /\ b = code[at].to /\ b # NoAddress
      BY <3>1, <1>8
    <3>2. CASE /\ b = at + code[at].len /\ b < Base + RomLength
               /\ code[at].op \notin {"ret", "int20", "jump"} /\ at \notin ends'
      BY <3>2, <1>5
    <3>3. QED BY <2>2, <3>1, <3>2 DEF Follows
  <2>3. QED BY <2>1, <2>2
<1>11. Begun' BY DEF Inv, Begun
<1>12. Finished' BY <1>5 DEF Finished
<1>13. QED BY <1>7, <1>8, <1>9, <1>10, <1>11, <1>12 DEF Inv

LEMMA InitInv == ASSUME Init PROVE Inv
<1>1. Types
  <2>1. PICK rom \in [Rom -> Instructions] :
           code = [a \in Addresses |-> IF a \in Rom THEN rom[a] ELSE Outside] BY DEF Init
  <2>2. code \in [Addresses -> Instructions \cup {Outside}] BY <2>1
  <2>3. Base \in Addresses BY TracerAssumption DEF Addresses
  <2>4. QED BY <2>2, <2>3 DEF Init, Types, Registers
<1>2. Sound(seen, visited)
  <2>1. Base \in Addresses /\ Base \in Nat BY TracerAssumption DEF Addresses
  <2> DEFINE e == [ma |-> Base, kinds |-> {}, visited |-> FALSE]
  <2>2. e \in Entry /\ e.ma = Base /\ e.visited = FALSE BY <2>1 DEF Entry
  <2> HIDE DEF e
  <2>3. seen = <<e>> BY DEF Init, e
  <2>4. QED BY <2>1, <2>2, <2>3 DEF Sound
<1>3. QED BY <1>1, <1>2 DEF Init, Inv, OnPath, Closing, Begun, First, Finished

\* The target of an instruction is on the list afterwards.
LEMMA TargetSound ==
  ASSUME Inv, at \in Addresses, NEW kind \in CodeKinds,
         code[at].op \in {"jump", "branch", "call"}
  PROVE  /\ Sound(Target(kind), visited)
         /\ code[at].to = NoAddress \/ Names(Target(kind), code[at].to)
         /\ \A a : Names(seen, a) => Names(Target(kind), a)
<1>1. Sound(seen, visited) BY DEF Inv
<1>2. CASE code[at].to = NoAddress BY <1>1, <1>2 DEF Target
<1>3. CASE code[at].to # NoAddress
  <2>1. code[at].to \in Addresses BY <1>3, Decoded DEF Inv
  <2>2. code[at].to \in Nat BY <2>1 DEF Addresses
  <2>3. kind \in Kinds BY DEF Kinds
  <2>4. Target(kind) = Learn(seen, code[at].to, kind) BY <1>3 DEF Target
  <2>5. QED BY <1>1, <2>1, <2>2, <2>3, <2>4, LearnSound
<1>4. QED BY <1>2, <1>3

\* The first path not traced yet.
LEMMA FirstUnvisited ==
  ASSUME Inv, Unvisited # {}
  PROVE  /\ Min(Unvisited) \in DOMAIN seen
         /\ seen[Min(Unvisited)].ma \in Addresses
         /\ seen = First => seen[Min(Unvisited)].ma = Base
<1>1. seen \in Seq(Entry) BY DEF Inv, Sound
<1>2. Unvisited \subseteq Nat BY <1>1 DEF Unvisited
<1>3. Min(Unvisited) \in Unvisited BY <1>2, MinIn
<1>4. Min(Unvisited) \in DOMAIN seen /\ HasCode(seen[Min(Unvisited)]) BY <1>3 DEF Unvisited
<1>5. seen[Min(Unvisited)].ma \in Addresses BY <1>4 DEF Inv, Sound
<1>6. ASSUME seen = First PROVE seen[Min(Unvisited)].ma = Base
  <2>1. \A i \in DOMAIN First : First[i].ma = Base BY DEF First
  <2>2. QED BY <1>4, <1>6, <2>1
<1>7. QED BY <1>4, <1>5, <1>6

LEMMA PickInv == ASSUME Inv, Pick PROVE Inv'
<1> DEFINE ma == seen[Min(Unvisited)].ma
<1>1. ma \in Addresses /\ (seen = First => ma = Base) BY FirstUnvisited DEF Pick
<1>2. CASE ma \in visited
  <2>1. seen' = MarkVisited(seen, ma) /\ UNCHANGED <<at, start, pc>> BY <1>2 DEF Pick
  <2>2. UNCHANGED <<code, visited, regs, strings, ends, listing>> /\ pc = "pick" BY DEF Pick
  <2>3. Sound(seen', visited) /\ \A a : Names(seen, a) => Names(seen', a)
    BY <1>2, <2>1, MarkSound DEF Inv
  <2>4. Begun' BY <1>1, <1>2, <2>1, <2>2 DEF Inv, Begun
  <2>5. Closing' BY <2>1, <2>2, <2>3 DEF Inv, Closing, Follows
  <2>6. QED BY <2>1, <2>2, <2>3, <2>4, <2>5 DEF Inv, Types, OnPath, Finished, Sound
<1>3. CASE ma \notin visited
  <2>1. at' = ma /\ start' = ma /\ pc' = "trace" /\ seen' = seen BY <1>3 DEF Pick
  <2>2. UNCHANGED <<code, visited, regs, strings, ends, listing>> /\ pc = "pick" BY DEF Pick
  <2>3. Begun' BY <1>1, <2>1, <2>2 DEF Inv, Begun
  <2>4. Closing' BY <2>1, <2>2 DEF Inv, Closing, Follows, Names
  <2>5. QED BY <1>1, <2>1, <2>2, <2>3, <2>4 DEF Inv, Types, OnPath, Finished, Sound
<1>4. QED BY <1>2, <1>3

LEMMA FinishInv == ASSUME Inv, Finish PROVE Inv'
<1>1. UNCHANGED <<code, seen, visited, regs, strings, at, start, ends>> /\ pc' = "done"
      /\ listing' = Listing /\ pc = "pick" /\ Unvisited = {}
  BY DEF Finish
<1>2. Finished'
  <2>1. Unvisited' = Unvisited BY <1>1 DEF Unvisited
  <2>2. Listing' = Listing
    BY <1>1 DEF Listing, Unknown, Block, RunStart, BytesOf, InstructionAt, StringAt
  <2>3. QED BY <1>1, <2>1, <2>2 DEF Finished
<1>3. seen # First
  <2>1. DOMAIN First = {1} /\ HasCode(First[1]) /\ First[1].visited = FALSE BY DEF First, HasCode
  <2>2. QED BY <1>1, <2>1 DEF Unvisited
<1>4. Begun' BY <1>1, <1>3 DEF Inv, Begun
<1>5. Closing' BY <1>1 DEF Inv, Closing, Follows, Names
<1>6. QED BY <1>1, <1>2, <1>4, <1>5 DEF Inv, Types, OnPath, Sound

LEMMA MeetInv == ASSUME Inv, Meet PROVE Inv'
<1>1. pc = "trace" /\ at \in visited /\ seen' = MarkVisited(seen, start) /\ pc' = "pick"
      /\ UNCHANGED <<at, code, visited, regs, strings, start, ends, listing>>
  BY DEF Meet, EndPath
<1>2. start \in visited BY <1>1 DEF Inv, OnPath
<1>3. Sound(seen', visited) /\ \A a : Names(seen, a) => Names(seen', a)
  BY <1>1, <1>2, MarkSound DEF Inv
<1>4. Begun' BY <1>1 DEF Inv, Begun
<1>5. Closing' BY <1>1, <1>3 DEF Inv, Closing, Follows
<1>6. QED BY <1>1, <1>3, <1>4, <1>5 DEF Inv, Types, OnPath, Finished, Sound

LEMMA LeaveInv == ASSUME Inv, Leave PROVE Inv'
<1> DEFINE known == IF code[at].op = "jump" THEN Target("Jump") ELSE seen
<1>1. /\ pc = "trace" /\ at \notin visited /\ visited' = visited \cup {at}
      /\ UNCHANGED <<code, start, listing>> /\ code[at].op \in {"ret", "int20", "jump"}
  BY DEF Leave, Visit
<1>2. at \in Addresses /\ "Jump" \in CodeKinds BY DEF Inv, Types, CodeKinds
<1>3. /\ Sound(known, visited) /\ \A a : Names(seen, a) => Names(known, a)
      /\ code[at].op = "jump" => code[at].to = NoAddress \/ Names(known, code[at].to)
  BY <1>2, TargetSound DEF Inv
<1>4. EndPath(known) /\ UNCHANGED <<regs, strings, ends>> BY DEF Leave
<1> HIDE DEF known
<1>5. Sound(known, visited') BY <1>1, <1>3, SoundGrows
<1>6. GoesOn(known) BY <1>1, <1>4 DEF GoesOn
<1>7. regs' \in Registers BY <1>4 DEF Inv, Types
<1>8. QED BY <1>1, <1>3, <1>4, <1>5, <1>6, <1>7, Walk

LEMMA ForkInv == ASSUME Inv, Fork PROVE Inv'
<1> DEFINE kind == IF code[at].op = "call" THEN "Call" ELSE "Branch"
           known == Target(kind)
<1>1. /\ pc = "trace" /\ at \notin visited /\ visited' = visited \cup {at}
      /\ UNCHANGED <<code, start, listing>> /\ code[at].op \in {"branch", "call"}
  BY DEF Fork, Visit
<1>2. at \in Addresses /\ kind \in CodeKinds BY DEF Inv, Types, CodeKinds
<1>3. Advance(known) /\ UNCHANGED <<regs, strings, ends>> BY DEF Fork
<1> HIDE DEF kind
<1>4. /\ Sound(known, visited) /\ \A a : Names(seen, a) => Names(known, a)
      /\ code[at].to = NoAddress \/ Names(known, code[at].to)
  BY <1>1, <1>2, TargetSound
<1> HIDE DEF known
<1>5. Sound(known, visited') BY <1>1, <1>4, SoundGrows
<1>6. GoesOn(known) BY <1>3 DEF GoesOn
<1>7. regs' \in Registers BY <1>3 DEF Inv, Types
<1>8. QED BY <1>1, <1>3, <1>4, <1>5, <1>6, <1>7, Walk

LEMMA InterruptInv == ASSUME Inv, Interrupt PROVE Inv'
<1> DEFINE dos   == code[at].op = "int21"
           found == dos /\ regs.ah = 9 /\ regs.dsClean /\ regs.dxClean
           known == IF found THEN Learn(seen, regs.dx, "DollarString") ELSE seen
<1>1. /\ pc = "trace" /\ at \notin visited /\ visited' = visited \cup {at}
      /\ UNCHANGED <<code, start, listing>> /\ code[at].op \in {"int21", "int"}
  BY DEF Interrupt, Visit
<1>2. Sound(seen, visited') BY <1>1, SoundGrows DEF Inv
<1>3. regs \in Registers BY DEF Inv, Types
<1>4. CASE dos /\ regs.ah = 76
  <2>1. ends' = ends \cup {at} /\ EndPath(seen) /\ UNCHANGED regs BY <1>4 DEF Interrupt
  <2>2. GoesOn(seen) BY <2>1 DEF GoesOn
  <2>3. QED BY <1>1, <1>2, <1>3, <2>1, <2>2, Walk
<1>5. CASE ~(dos /\ regs.ah = 76)
  <2>1. /\ regs' = [regs EXCEPT !.dsClean = FALSE, !.dxClean = FALSE]
        /\ Advance(known) /\ ends' = ends
    BY <1>5 DEF Interrupt
  <2>2. regs' \in Registers BY <1>3, <2>1, Zenon DEF Registers
  <2>3. regs.dx \in Nat /\ "DollarString" \in Kinds /\ "DollarString" \notin CodeKinds
    BY <1>3 DEF Registers, Kinds, CodeKinds
  <2>4. Sound(Learn(seen, regs.dx, "DollarString"), visited')
        /\ \A a : Names(seen, a) => Names(Learn(seen, regs.dx, "DollarString"), a)
    BY <1>2, <2>3, LearnSound
  <2>5. Sound(known, visited') /\ \A a : Names(seen, a) => Names(known, a) BY <1>2, <2>4
  <2> HIDE DEF known
  <2>6. GoesOn(known) BY <2>1 DEF GoesOn
  <2>7. QED BY <1>1, <2>1, <2>2, <2>5, <2>6, Walk
<1>6. QED BY <1>4, <1>5

LEMMA MoveInv == ASSUME Inv, Move PROVE Inv'
<1> DEFINE known == IF code[at].op = "load" THEN Learn(seen, code[at].to, "MemoryByte") ELSE seen
           ops == {"setah", "setdx", "incdx", "spoil", "load"}
<1>1. /\ pc = "trace" /\ at \notin visited /\ visited' = visited \cup {at}
      /\ UNCHANGED <<code, start, listing>> /\ code[at].op \in ops
  BY DEF Move, Visit
<1>2. Sound(seen, visited') BY <1>1, SoundGrows DEF Inv
<1>3. regs \in Registers /\ Types BY DEF Inv, Types
<1>4. at \in Addresses BY <1>3 DEF Types
<1>5. code[at].op \in {"setah", "setdx", "load"} => code[at].to \in Nat BY <1>3, <1>4, Decoded
<1>6. Advance(known) /\ ends' = ends BY DEF Move
<1>7. regs' \in Registers
  <2>1. CASE code[at].op = "setah"
    <3>1. regs' = [regs EXCEPT !.ah = code[at].to] BY <2>1 DEF Move
    <3>2. QED BY <1>3, <1>5, <2>1, <3>1 DEF Registers
  <2>2. CASE code[at].op = "setdx"
    <3>1. regs' = [regs EXCEPT !.dx = code[at].to, !.dxClean = TRUE] BY <2>2 DEF Move
    <3>2. code[at].to \in Nat BY <1>5, <2>2
    <3>3. QED BY <1>3, <3>1, <3>2, Zenon DEF Registers
  <2>3. CASE code[at].op = "incdx"
    <3>1. regs' = [regs EXCEPT !.dx = regs.dx + 1, !.dxClean = TRUE] BY <2>3 DEF Move
    <3>2. regs.dx + 1 \in Nat BY <1>3 DEF Registers
    <3>3. QED BY <1>3, <3>1, <3>2, Zenon DEF Registers
  <2>4. CASE code[at].op = "spoil"
    <3>1. regs' = [regs EXCEPT !.dxClean = FALSE] BY <2>4 DEF Move
    <3>2. QED BY <1>3, <3>1, Zenon DEF Registers
  <2>5. CASE code[at].op = "load"
    <3>1. regs' = regs BY <2>5 DEF Move
    <3>2. QED BY <1>3, <3>1
  <2>6. QED BY <1>1, <2>1, <2>2, <2>3, <2>4, <2>5
<1>8. "MemoryByte" \in Kinds /\ "MemoryByte" \notin CodeKinds BY DEF Kinds, CodeKinds
<1>9. Sound(known, visited') /\ \A a : Names(seen, a) => Names(known, a)
  <2>1. CASE code[at].op = "load" BY <1>2, <1>5, <1>8, <2>1, LearnSound
  <2>2. CASE code[at].op # "load" BY <1>2, <2>2
  <2>3. QED BY <2>1, <2>2
<1> HIDE DEF known
<1>10. GoesOn(known) BY <1>6 DEF GoesOn
<1>11. QED BY <1>1, <1>6, <1>7, <1>9, <1>10, Walk

LEMMA OtherInv == ASSUME Inv, Other PROVE Inv'
<1>1. /\ pc = "trace" /\ at \notin visited /\ visited' = visited \cup {at}
      /\ UNCHANGED <<code, start, listing>> /\ code[at].op = "plain"
      /\ Advance(seen) /\ UNCHANGED <<regs, strings, ends>>
  BY DEF Other, Visit
<1>2. Sound(seen, visited') BY <1>1, SoundGrows DEF Inv
<1>3. regs' \in Registers BY <1>1 DEF Inv, Types
<1>4. GoesOn(seen) BY <1>1 DEF GoesOn
<1>5. QED BY <1>1, <1>2, <1>3, <1>4, Walk

LEMMA StepInv == ASSUME Inv, [Next]_vars PROVE Inv'
<1>1. CASE Next
  BY <1>1, PickInv, FinishInv, MeetInv, LeaveInv, ForkInv, InterruptInv, MoveInv, OtherInv DEF Next
<1>2. CASE UNCHANGED vars
  <2>0. UNCHANGED <<code, seen, visited, strings, listing, pc>> BY <1>2 DEF vars
  <2>1. Finished'
    <3>1. Unvisited' = Unvisited BY <2>0 DEF Unvisited
    <3>2. Listing' = Listing
      BY <2>0 DEF Listing, Unknown, Block, RunStart, BytesOf, InstructionAt, StringAt
    <3>3. QED BY <2>0, <3>1, <3>2 DEF Inv, Finished
  <2>2. Closing' BY <1>2 DEF Inv, Closing, Follows, Names, vars
  <2>3. QED BY <1>2, <2>1, <2>2 DEF Inv, Types, Sound, OnPath, Begun, vars
<1>3. QED BY <1>1, <1>2

\* Through every instruction traced the successors of what was visited are
\* seen, unless the path is just there.
THEOREM Invariance == Spec => []Inv
<1>1. Init => Inv BY InitInv
<1>2. Inv /\ [Next]_vars => Inv' BY StepInv
<1>3. QED BY <1>1, <1>2, PTL DEF Spec

\* At the end nothing that follows a visited instruction is left out, whatever
\* the program: no loop, overlap or order of discovery hides code from the
\* listing (trace_execution, trace_unvisited_address).
THEOREM ClosedTrace == Spec => []TraceIsClosed
<1>1. Inv => TraceIsClosed
  <2> SUFFICES ASSUME Inv, pc = "done" PROVE TraceIsClosed BY DEF TraceIsClosed
  <2>1. Unvisited = {} BY DEF Inv, Finished
  <2>2. Base \in visited BY DEF Inv, Begun
  <2>3. ASSUME NEW a \in visited, NEW b \in Follows(a) PROVE b \in visited \/ UsedAsData(b)
    <3>1. b \in visited \/ Names(seen, b) BY <2>3 DEF Inv, Closing
    <3>2. ASSUME NEW i \in DOMAIN seen, seen[i].ma = b PROVE b \in visited \/ UsedAsData(b)
      <4>1. CASE HasCode(seen[i])
        <5>1. seen \in Seq(Entry) BY DEF Inv, Sound
        <5>2. seen[i] \in Entry BY <5>1
        <5>3. seen[i].visited = TRUE BY <2>1, <4>1, <5>2 DEF Unvisited, Entry
        <5>4. QED BY <3>2, <5>3 DEF Inv, Sound
      <4>2. CASE ~HasCode(seen[i])
        <5>1. seen[i] \in Range(seen) BY DEF Range
        <5>2. QED BY <3>2, <4>2, <5>1 DEF UsedAsData
      <4>3. QED BY <4>1, <4>2
    <3>3. QED BY <3>1, <3>2 DEF Names
  <2>4. QED BY <2>2, <2>3 DEF TraceIsClosed
<1>2. QED BY <1>1, Invariance, PTL

-----------------------------------------------------------------------------
(* The listing.                                                            *)

LEMMA MaxIn ==
  ASSUME NEW S \in SUBSET (1 .. 4), S # {}
  PROVE  Max(S) \in S /\ \A y \in S : y <= Max(S)
<1>1. \E m \in S : \A y \in S : m >= y
  <2>1. CASE 4 \in S BY <2>1
  <2>2. CASE 4 \notin S /\ 3 \in S BY <2>2
  <2>3. CASE 4 \notin S /\ 3 \notin S /\ 2 \in S BY <2>3
  <2>4. CASE 4 \notin S /\ 3 \notin S /\ 2 \notin S
    <3>1. \A y \in S : y = 1 BY <2>4
    <3>2. 1 \in S BY <3>1
    <3>3. QED BY <3>1, <3>2
  <2>5. QED BY <2>1, <2>2, <2>3, <2>4
<1>2. QED BY <1>1 DEF Max

\* A block: from its address, inside what is free, up to four bytes, and cut
\* short only where the run of free bytes ends.
LEMMA BlockBytes ==
  ASSUME NEW free \in SUBSET Nat, NEW a \in free
  PROVE  LET b == Block(free, a)
         IN  /\ b.kind = "unknown" /\ b.at = a /\ b.len \in 1 .. 4
             /\ BytesOf(b) = a .. a + b.len - 1
             /\ BytesOf(b) \subseteq free
             /\ \A n \in 1 .. 4 : a .. a + n - 1 \subseteq free => n <= b.len
<1> DEFINE S == {n \in 1 .. 4 : a .. a + n - 1 \subseteq free}
<1>1. a \in Nat OBVIOUS
<1>2. 1 \in S
  <2>1. a .. a + 1 - 1 = {a} BY <1>1
  <2>2. QED BY <2>1
<1>3. S \in SUBSET (1 .. 4) /\ S # {} BY <1>2
<1> HIDE DEF S
<1>4. Max(S) \in S /\ \A y \in S : y <= Max(S) BY <1>3, MaxIn
<1>5. Block(free, a) = [kind |-> "unknown", at |-> a, len |-> Max(S)] BY DEF Block, S
<1>6. /\ Block(free, a).kind = "unknown" /\ Block(free, a).at = a
      /\ Block(free, a).len = Max(S)
  BY <1>5
<1>7. BytesOf(Block(free, a)) = a .. a + Max(S) - 1 BY <1>6 DEF BytesOf
<1>8. Max(S) \in 1 .. 4 /\ a .. a + Max(S) - 1 \subseteq free BY <1>4 DEF S
<1>9. \A n \in 1 .. 4 : a .. a + n - 1 \subseteq free => n <= Max(S) BY <1>4 DEF S
<1>10. QED BY <1>6, <1>7, <1>8, <1>9

\* The start of the run a byte is in: everything between them is free, and
\* two bytes with only free ones between them have the same one.
LEMMA RunStarts ==
  ASSUME NEW free \in SUBSET Nat, NEW a \in free
  PROVE  /\ RunStart(free, a) \in free /\ RunStart(free, a) <= a
         /\ RunStart(free, a) .. a \subseteq free
         /\ \A r \in free : r <= a /\ r .. a \subseteq free => RunStart(free, a) <= r
<1> DEFINE S == {r \in free : r <= a /\ r .. a \subseteq free}
<1>1. a \in Nat OBVIOUS
<1>2. a \in S
  <2>1. a .. a = {a} BY <1>1
  <2>2. QED BY <1>1, <2>1
<1>3. S \subseteq Nat /\ S # {} BY <1>2
<1> HIDE DEF S
<1>4. Min(S) \in S /\ \A y \in S : Min(S) <= y BY <1>3, MinIn
<1>5. RunStart(free, a) = Min(S) BY DEF RunStart, S
<1>6. QED BY <1>4, <1>5 DEF S

LEMMA SameRun ==
  ASSUME NEW free \in SUBSET Nat, NEW a \in free, NEW c \in free, a <= c, a .. c \subseteq free
  PROVE  RunStart(free, a) = RunStart(free, c)
<1> DEFINE p == RunStart(free, a)
           q == RunStart(free, c)
<1>1. /\ p \in free /\ p <= a /\ p .. a \subseteq free
      /\ \A r \in free : r <= a /\ r .. a \subseteq free => p <= r
  BY RunStarts
<1>2. /\ q \in free /\ q <= c /\ q .. c \subseteq free
      /\ \A r \in free : r <= c /\ r .. c \subseteq free => q <= r
  BY RunStarts
<1> HIDE DEF p, q
<1>3. p \in Nat /\ q \in Nat /\ a \in Nat /\ c \in Nat BY <1>1, <1>2
<1>4. p .. c \subseteq free
  <2>1. \A x \in p .. c : x \in p .. a \/ x \in a .. c BY <1>3
  <2>2. QED BY <1>1, <2>1
<1>5. q <= p BY <1>1, <1>2, <1>3, <1>4
<1>6. q <= a BY <1>1, <1>3, <1>5
<1>7. q .. a \subseteq free
  <2>1. \A x \in q .. a : x \in q .. c BY <1>3
  <2>2. QED BY <1>2, <2>1
<1>8. p <= q BY <1>1, <1>2, <1>6, <1>7
<1>9. QED BY <1>3, <1>5, <1>8 DEF p, q

\* The blocks cover what is free and nothing else.
LEMMA BlocksCover ==
  ASSUME NEW accounted
  PROVE  Rom \ accounted \subseteq UNION {BytesOf(b) : b \in Unknown(accounted)}
<1> DEFINE free == Rom \ accounted
<1>0. free \in SUBSET Nat BY TracerAssumption DEF Rom
<1>1. SUFFICES ASSUME NEW x \in free
               PROVE  \E b \in Unknown(accounted) : x \in BytesOf(b)
  OBVIOUS
<1>2. Unknown(accounted) = {Block(free, a) : a \in {b \in free : (b - RunStart(free, b)) % 4 = 0}}
  BY DEF Unknown
<1> HIDE DEF free
<1> DEFINE s == RunStart(free, x)
           d == (x - s) % 4
           a == x - d
<1>3. s \in free /\ s <= x /\ s .. x \subseteq free BY <1>0, <1>1, RunStarts
<1>4. s \in Nat /\ x \in Nat BY <1>0, <1>1, <1>3
<1> HIDE DEF s
<1>5. d \in 0 .. 3 /\ a \in s .. x /\ (a - s) % 4 = 0 BY <1>3, <1>4
<1> HIDE DEF d
<1>6. a \in free BY <1>3, <1>5
<1>7. a .. x \subseteq free
  <2>1. \A y \in a .. x : y \in s .. x BY <1>4, <1>5
  <2>2. QED BY <1>3, <2>1
<1>8. RunStart(free, a) = s BY <1>0, <1>1, <1>4, <1>5, <1>6, <1>7, SameRun DEF s
<1>9. Block(free, a) \in Unknown(accounted) BY <1>2, <1>5, <1>6, <1>8
<1>10. /\ BytesOf(Block(free, a)) = a .. a + Block(free, a).len - 1
       /\ Block(free, a).len \in 1 .. 4
       /\ \A n \in 1 .. 4 : a .. a + n - 1 \subseteq free => n <= Block(free, a).len
  BY <1>0, <1>6, BlockBytes
<1>11. d + 1 \in 1 .. 4 /\ a + (d + 1) - 1 = x BY <1>4, <1>5
<1>12. d + 1 <= Block(free, a).len BY <1>7, <1>10, <1>11
<1>13. x \in BytesOf(Block(free, a)) BY <1>4, <1>5, <1>10, <1>12
<1>14. QED BY <1>9, <1>13

\* Two blocks have no byte in common.
LEMMA BlocksApart ==
  ASSUME NEW free \in SUBSET Nat, NEW a \in free, NEW c \in free, a < c,
         (a - RunStart(free, a)) % 4 = 0, (c - RunStart(free, c)) % 4 = 0
  PROVE  BytesOf(Block(free, a)) \cap BytesOf(Block(free, c)) = {}
<1>1. SUFFICES ASSUME NEW x \in BytesOf(Block(free, a)), x \in BytesOf(Block(free, c))
               PROVE  FALSE
  OBVIOUS
<1>2. /\ BytesOf(Block(free, a)) = a .. a + Block(free, a).len - 1
      /\ Block(free, a).len \in 1 .. 4 /\ BytesOf(Block(free, a)) \subseteq free
  BY BlockBytes
<1>3. BytesOf(Block(free, c)) = c .. c + Block(free, c).len - 1
      /\ Block(free, c).len \in 1 .. 4
  BY BlockBytes
<1>4. a \in Nat /\ c \in Nat /\ x \in Nat
  <2>1. x \in free BY <1>1, <1>2
  <2>2. QED BY <2>1
<1>5. c <= x /\ x <= a + Block(free, a).len - 1 BY <1>1, <1>2, <1>3, <1>4
<1>6. c - a \in 1 .. 3 BY <1>2, <1>4, <1>5
<1>7. a .. c \subseteq free
  <2>1. \A y \in a .. c : y \in a .. a + Block(free, a).len - 1 BY <1>2, <1>4, <1>5
  <2>2. QED BY <1>2, <2>1
<1> DEFINE s == RunStart(free, a)
<1>8. s = RunStart(free, c) BY <1>7, SameRun
<1>9. s \in Nat /\ s <= a BY RunStarts
<1>10. (a - s) % 4 = 0 /\ (c - s) % 4 = 0 BY <1>8
<1> HIDE DEF s
<1>11. QED BY <1>4, <1>6, <1>9, <1>10

\* At the end the listing accounts for every byte of the ROM, and an unknown
\* byte for itself alone: for every program and every position of the ROM
\* (post_process_execution).
THEOREM ListedRom == Spec => []RomIsListed
<1>1. Inv => RomIsListed
  <2> SUFFICES ASSUME Inv, pc = "done" PROVE RomIsListed BY DEF RomIsListed
  <2> DEFINE known     == {StringAt(a) : a \in strings} \cup {InstructionAt(a) : a \in visited}
             accounted == UNION {BytesOf(i) : i \in known}
             blocks    == Unknown(accounted)
             free      == Rom \ accounted
             named     == accounted \cup {b.at : b \in blocks}
             unlisted  == {s \in Range(seen) : ~s.visited /\ ~HasCode(s) /\ s.ma \notin named}
             memory    == {[kind |-> "memory", at |-> s.ma, len |-> 1] : s \in unlisted}
             Of(kind)  == {i \in listing : i.kind = kind}
  <2>1. listing = known \cup blocks \cup memory BY DEF Inv, Finished, Listing
  <2>2. \A i \in known : i.kind \in {"code", "string"}
    <3>1. \A a : StringAt(a).kind = "string" BY Zenon DEF StringAt
    <3>2. \A a : InstructionAt(a).kind = "code" BY DEF InstructionAt
    <3>3. QED BY <3>1, <3>2
  <2>3. \A i \in known : BytesOf(i) \subseteq accounted OBVIOUS
  <2>4. free \in SUBSET Nat BY TracerAssumption DEF Rom
  <2>5. \A b \in blocks : \E a \in free :
           b = Block(free, a) /\ (a - RunStart(free, a)) % 4 = 0
    BY DEF Unknown
  <2>6. Rom \ accounted \subseteq UNION {BytesOf(b) : b \in blocks} BY BlocksCover
  <2>7. \A m \in memory : m.kind = "memory" /\ m.len = 1 /\ m.at \in Nat /\ m.at \notin accounted
    <3>1. \A s \in Range(seen) : s \in Entry
      <4>1. seen \in Seq(Entry) BY DEF Inv, Sound
      <4>2. QED BY <4>1 DEF Range
    <3>2. \A s \in unlisted : s.ma \in Nat /\ s.ma \notin accounted BY <3>1 DEF Entry
    <3> HIDE DEF unlisted, accounted
    <3>3. QED BY <3>2
  <2> HIDE DEF known, blocks, memory, accounted
  <2>8. \A b \in blocks : b.kind = "unknown" /\ BytesOf(b) \subseteq free
    <3> HIDE DEF free
    <3>1. QED BY <2>4, <2>5, BlockBytes
  <2>9. Rom \subseteq UNION {BytesOf(i) : i \in Of("code") \cup Of("string") \cup Of("unknown")}
    <3> SUFFICES ASSUME NEW x \in Rom
                 PROVE  \E i \in Of("code") \cup Of("string") \cup Of("unknown") : x \in BytesOf(i)
      OBVIOUS
    <3>1. CASE x \in accounted
      <4>1. PICK i \in known : x \in BytesOf(i) BY <3>1 DEF accounted
      <4>2. QED BY <4>1, <2>1, <2>2
    <3>2. CASE x \notin accounted
      <4>1. PICK b \in blocks : x \in BytesOf(b) BY <3>2, <2>6
      <4>2. QED BY <4>1, <2>1, <2>8
    <3>3. QED BY <3>1, <3>2
  <2>10. Of("unknown") \subseteq blocks BY <2>1, <2>2, <2>7
  <2>11. listing \ Of("memory") \subseteq known \cup blocks BY <2>1, <2>7
  <2>12. ASSUME NEW b \in blocks, NEW i \in known \cup blocks, i # b
         PROVE  BytesOf(i) \cap BytesOf(b) = {}
    <3>1. CASE i \in known BY <3>1, <2>3, <2>8
    <3>2. CASE i \in blocks
      <4>1. PICK a \in free : b = Block(free, a) /\ (a - RunStart(free, a)) % 4 = 0 BY <2>5
      <4>2. PICK c \in free : i = Block(free, c) /\ (c - RunStart(free, c)) % 4 = 0
        BY <3>2, <2>5
      <4> HIDE DEF free
      <4>3. a \in Nat /\ c \in Nat BY <2>4
      <4>4. a < c \/ c < a BY <2>12, <4>1, <4>2, <4>3
      <4>5. QED BY <2>4, <4>1, <4>2, <4>4, BlocksApart
    <3>3. QED BY <3>1, <3>2, <2>12
  <2>13. ASSUME NEW m \in Of("memory"), NEW i \in Of("code")
         PROVE  BytesOf(m) \cap BytesOf(i) = {}
    <3>1. m \in memory BY <2>1, <2>2, <2>8
    <3>2. BytesOf(m) = {m.at} BY <3>1, <2>7 DEF BytesOf
    <3>3. i \in known BY <2>1, <2>7, <2>8
    <3>4. QED BY <3>1, <3>2, <3>3, <2>3, <2>7
  <2>14. (UNION {BytesOf(i) : i \in Of("memory")}) \cap (UNION {BytesOf(i) : i \in Of("code")}) = {}
    <3> HIDE DEF Of
    <3>1. QED BY <2>13
  <2>15. \A b \in Of("unknown") :
            /\ BytesOf(b) \subseteq Rom
            /\ \A i \in listing \ Of("memory") : i # b => BytesOf(i) \cap BytesOf(b) = {}
    BY <2>8, <2>10, <2>11, <2>12
  <2>16. QED BY <2>9, <2>14, <2>15 DEF RomIsListed
<1>2. QED BY <1>1, Invariance, PTL
=============================================================================
