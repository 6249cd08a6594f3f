------------------------------- MODULE Tracer -------------------------------
(***************************************************************************)
(* The static tracer of debug/tracer.rs, which produces the disassembly    *)
(* listing of a program: it follows the code from the start address,       *)
(* learns addresses from jumps, branches, calls and memory accesses, goes  *)
(* on from every address known only as code, and then lists each byte of   *)
(* the ROM as instruction, string, data or unknown.                        *)
(*                                                                         *)
(* An instruction is what the decoder finds at an address: a kind, a       *)
(* length and an operand.  Instructions may overlap.  A step of the        *)
(* tracer's loop is one action.  RET n, at which the tracer panics, is not  *)
(* among the instructions; of the registers only AH, DX and DS are kept.    *)
(***************************************************************************)
EXTENDS Integers, Sequences, FiniteSetsExt, Functions

CONSTANTS
    Base, RomLength,  \* the loaded program: offsets Base .. Base+RomLength-1
    Instructions,     \* what the decoder may find in the ROM
    Outside,          \* what it finds at any other address
    Top,              \* the highest address named by any instruction
    Dollars,          \* the addresses that hold a '$'
    StringMax         \* a string is followed for so many bytes

NoAddress == -1  \* the operand is a register or in memory

Addresses == 0 .. Top
Ops == {"ret", "int20", "jump", "branch", "call", "int21", "int", "setah", "setdx",
        "incdx", "spoil", "load", "plain"}

ASSUME TracerAssumption ==
    /\ Base \in Nat /\ RomLength \in Nat \ {0} /\ Top \in Nat
    /\ Base + RomLength <= Top + 1
    /\ \A i \in Instructions \cup {Outside} :
          /\ i \in [op : Ops, len : Nat \ {0}, to : Nat \cup {NoAddress}]
          /\ i.op \in {"jump", "branch", "call"} => i.to \in Addresses \cup {NoAddress}
          /\ i.op \in {"setah", "setdx", "load"} => i.to \in Nat

VARIABLES
    code,     \* the program: address -> instruction
    seen,     \* seen_addresses: address, kinds of its sources, visited
    visited,  \* visited_addresses
    regs,     \* traced AH and DX, and whether DX and DS are clean
    strings,  \* dollar_strings as a set: the list holds one once per call found
    at,       \* the address the path has come to
    start,    \* the address the path started from
    ends,     \* history: the calls of AH=4Ch the tracer ended a path at
    listing,  \* accounted_bytes after post-processing: kind, address, length
    pc        \* "pick" a path, "trace" along it, "done"

vars == <<code, seen, visited, regs, strings, at, start, ends, listing, pc>>

Rom == Base .. Base + RomLength - 1
CodeKinds == {"Branch", "Call", "Jump"}
-----------------------------------------------------------------------------
(* Addresses.                                                              *)

\* SeenSources::has_code: no source says otherwise.
HasCode(s) == s.kinds \subseteq CodeKinds

Unvisited == {i \in DOMAIN seen : HasCode(seen[i]) /\ ~seen[i].visited}

\* learn_address: one entry per address, with all that refers to it.
Learn(known, ma, kind) ==
    IF \E i \in DOMAIN known : known[i].ma = ma
    THEN [i \in DOMAIN known |->
             IF known[i].ma = ma THEN [known[i] EXCEPT !.kinds = @ \cup {kind}] ELSE known[i]]
    ELSE Append(known, [ma |-> ma, kinds |-> {kind}, visited |-> FALSE])

Marked(s) == [s EXCEPT !.visited = TRUE]

MarkVisited(known, ma) ==
    [i \in DOMAIN known |-> IF known[i].ma = ma THEN Marked(known[i]) ELSE known[i]]
-----------------------------------------------------------------------------
(* Paths.                                                                  *)

\* Fault: an address reached before is not marked.
Pick_Forgets ==
    /\ pc = "pick"
    /\ Unvisited # {}
    /\ LET ma == seen[Min(Unvisited)].ma
       IN  IF ma \in visited THEN UNCHANGED <<seen, at, start, pc>>
           ELSE /\ at' = ma
                /\ start' = ma
                /\ pc' = "trace"
                /\ UNCHANGED seen
    /\ UNCHANGED <<code, visited, regs, strings, ends, listing>>

\* The head of trace_unvisited_address: the first address known as code.
Pick ==
    /\ pc = "pick"
    /\ Unvisited # {}
    /\ LET ma == seen[Min(Unvisited)].ma
       IN  IF ma \in visited
           THEN /\ seen' = MarkVisited(seen, ma)
                /\ UNCHANGED <<at, start, pc>>
           ELSE /\ at' = ma
                /\ start' = ma
                /\ pc' = "trace"
                /\ UNCHANGED seen
    /\ UNCHANGED <<code, visited, regs, strings, ends, listing>>

EndPath(known) ==
    /\ seen' = MarkVisited(known, start)
    /\ pc' = "pick"
    /\ UNCHANGED at

\* The foot of the loop: past the end of the ROM the path ends; before its
\* start it does not.
Advance(known) ==
    LET next == at + code[at].len
    IN  IF next >= Base + RomLength THEN EndPath(known)
        ELSE /\ at' = next
             /\ seen' = known
             /\ UNCHANGED pc

\* The path comes to code that was traced before.
Meet ==
    /\ pc = "trace"
    /\ at \in visited
    /\ EndPath(seen)
    /\ UNCHANGED <<code, visited, regs, strings, start, ends, listing>>

\* An instruction of one of the given kinds that was not visited before.
Visit(ops) ==
    /\ pc = "trace"
    /\ at \notin visited
    /\ code[at].op \in ops
    /\ visited' = visited \cup {at}
    /\ UNCHANGED <<code, start, listing>>

\* The target is learnt when it is an immediate.
Target(kind) == IF code[at].to = NoAddress THEN seen ELSE Learn(seen, code[at].to, kind)

\* Returns, jumps and INT 20h end the path.
Leave ==
    /\ Visit({"ret", "int20", "jump"})
    /\ EndPath(IF code[at].op = "jump" THEN Target("Jump") ELSE seen)
    /\ UNCHANGED <<regs, strings, ends>>

\* Fault: what follows a call is not traced.
Fork_CallLeaves ==
    /\ Visit({"branch", "call"})
    /\ IF code[at].op = "call" THEN EndPath(Target("Call")) ELSE Advance(Target("Branch"))
    /\ UNCHANGED <<regs, strings, ends>>

\* Conditional jumps, loops and calls: the target later, what follows now.
Fork ==
    /\ Visit({"branch", "call"})
    /\ Advance(Target(IF code[at].op = "call" THEN "Call" ELSE "Branch"))
    /\ UNCHANGED <<regs, strings, ends>>

\* Every INT but 20h, and INT 21h by the AH traced last, on this path or an
\* earlier one: it leaves no register clean.
Interrupt ==
    /\ Visit({"int21", "int"})
    /\ LET dos   == code[at].op = "int21"
           found == dos /\ regs.ah = 9 /\ regs.dsClean /\ regs.dxClean
       IN  IF dos /\ regs.ah = 76
           THEN /\ ends' = ends \cup {at}
                /\ EndPath(seen)
                /\ UNCHANGED <<regs, strings>>
           ELSE /\ strings' = IF found THEN strings \cup {regs.dx} ELSE strings
                /\ regs' = [regs EXCEPT !.dsClean = FALSE, !.dxClean = FALSE]
                /\ Advance(IF found THEN Learn(seen, regs.dx, "DollarString") ELSE seen)
                /\ UNCHANGED ends

\* MOV of an immediate to AH or DX, arithmetic on DX, which the tracer follows
\* ("incdx") or not ("spoil"), and MOV of a byte in memory at CS.
Move ==
    /\ Visit({"setah", "setdx", "incdx", "spoil", "load"})
    /\ LET i == code[at]
       IN  /\ regs' = CASE i.op = "setah" -> [regs EXCEPT !.ah = i.to]
                        [] i.op = "setdx" -> [regs EXCEPT !.dx = i.to, !.dxClean = TRUE]
                        [] i.op = "incdx" -> [regs EXCEPT !.dx = @ + 1, !.dxClean = TRUE]
                        [] i.op = "spoil" -> [regs EXCEPT !.dxClean = FALSE]
                        [] OTHER -> regs
           /\ Advance(IF i.op = "load" THEN Learn(seen, i.to, "MemoryByte") ELSE seen)
    /\ UNCHANGED <<strings, ends>>

\* Any other instruction, one the decoder does not know included.
Other ==
    /\ Visit({"plain"})
    /\ Advance(seen)
    /\ UNCHANGED <<regs, strings, ends>>
-----------------------------------------------------------------------------
(* post_process_execution.                                                 *)

StringAt(a) ==
    LET stops == {d \in Dollars : d >= a /\ d < a + StringMax}
    IN  [kind |-> "string", at |-> a,
         len |-> IF stops = {} THEN StringMax ELSE Min(stops) - a + 1]

InstructionAt(a) == [kind |-> "code", at |-> a, len |-> code[a].len]

BytesOf(item) == item.at .. item.at + item.len - 1

\* Blocks of up to four consecutive bytes of the ROM that nothing accounts
\* for: a run of them is cut after every fourth byte.
RunStart(free, a) == Min({r \in free : r <= a /\ r .. a \subseteq free})

Block(free, a) ==
    [kind |-> "unknown", at |-> a, len |-> Max({n \in 1 .. 4 : a .. a + n - 1 \subseteq free})]

\* Fault: a block takes in what is accounted for between unknown bytes.
Unknown_OverGaps(accounted) ==
    LET free == Rom \ accounted
    IN  IF free = {} THEN {}
        ELSE {[kind |-> "unknown", at |-> a, len |-> Min({4, Max(free) - a + 1})] :
                a \in {b \in free : (b - Min(free)) % 4 = 0}}

Unknown(accounted) ==
    LET free == Rom \ accounted
    IN  {Block(free, a) : a \in {b \in free : (b - RunStart(free, b)) % 4 = 0}}

\* A memory access is listed unless an item accounts for its address: any
\* byte of an instruction or a string, but only the first of a block.
Listing ==
    LET known     == {StringAt(a) : a \in strings} \cup {InstructionAt(a) : a \in visited}
        accounted == UNION {BytesOf(i) : i \in known}
        blocks    == Unknown(accounted)
        named     == accounted \cup {b.at : b \in blocks}
        memory    == {s \in Range(seen) : ~s.visited /\ ~HasCode(s) /\ s.ma \notin named}
    IN  known \cup blocks \cup {[kind |-> "memory", at |-> s.ma, len |-> 1] : s \in memory}

Finish ==
    /\ pc = "pick"
    /\ Unvisited = {}
    /\ listing' = Listing
    /\ pc' = "done"
    /\ UNCHANGED <<code, seen, visited, regs, strings, at, start, ends>>
-----------------------------------------------------------------------------
\* CS, DS, ES and SS are known at the start; every register holds 0.
Init ==
    /\ \E rom \in [Rom -> Instructions] :
          code = [a \in Addresses |-> IF a \in Rom THEN rom[a] ELSE Outside]
    /\ seen = <<[ma |-> Base, kinds |-> {}, visited |-> FALSE]>>
    /\ visited = {}
    /\ regs = [ah |-> 0, dx |-> 0, dxClean |-> FALSE, dsClean |-> TRUE]
    /\ strings = {}
    /\ at = Base
    /\ start = Base
    /\ ends = {}
    /\ listing = {}
    /\ pc = "pick"

Next ==
    \/ Pick \/ Finish
    \/ Meet \/ Leave \/ Fork \/ Interrupt \/ Move \/ Other

Spec == Init /\ [][Next]_vars /\ WF_vars(Next)
-----------------------------------------------------------------------------
(* Properties.                                                             *)

\* Where control goes after an instruction as far as the tracer can tell.
Follows(a) ==
    LET i  == code[a]
        on == IF a + i.len < Base + RomLength THEN {a + i.len} ELSE {}
    IN  (IF i.op \in {"jump", "branch", "call"} THEN {i.to} \ {NoAddress} ELSE {})
        \cup (IF i.op \in {"ret", "int20", "jump"} \/ a \in ends THEN {} ELSE on)

UsedAsData(a) == \E s \in Range(seen) : s.ma = a /\ ~HasCode(s)

\* When the tracer has finished, its set of visited instructions is closed:
\* with an instruction it has visited all that may come after it, except an
\* address that some instruction also uses as data (trace_unvisited_address).
TraceIsClosed ==
    pc = "done" =>
       /\ Base \in visited
       /\ \A a \in visited : \A b \in Follows(a) : b \in visited \/ UsedAsData(b)

\* The listing accounts for every byte of the ROM; a block of unknown bytes
\* holds bytes that are in no instruction, in no string and in no other
\* block, and a memory access is listed where no instruction is
\* (post_process_execution).
RomIsListed ==
    pc = "done" =>
       LET Of(kind) == {i \in listing : i.kind = kind}
           Bytes(items) == UNION {BytesOf(i) : i \in items}
       IN  /\ Rom \subseteq Bytes(Of("code") \cup Of("string") \cup Of("unknown"))
           /\ \A b \in Of("unknown") :
                 /\ BytesOf(b) \subseteq Rom
                 /\ \A i \in listing \ Of("memory") : i # b => BytesOf(i) \cap BytesOf(b) = {}
           /\ Bytes(Of("memory")) \cap Bytes(Of("code")) = {}

\* Tracing ends, for every program, loops and overlaps included.
TraceEnds == <>(pc = "done")
=============================================================================
