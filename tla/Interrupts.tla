----------------------------- MODULE Interrupts -----------------------------
(***************************************************************************)
(* Software interrupts of the emulated machine: the INT and IRET           *)
(* instructions, the interrupt vector table (IVT), the ROM stubs that run  *)
(* the high-level handlers, and the slot MMU::flags_address through which  *)
(* a handler edits the FLAGS word its caller will get back.                *)
(*                                                                         *)
(* A guest program is any sequence of the instructions below.  An address  *)
(* of the guest stands for a piece of its code: executing an instruction   *)
(* stays there unless control is transferred.  The stack is the part of    *)
(* SS:SP memory in use, bottom first; what lies beyond SP is overwritten   *)
(* by the next push before anything reads it, so it is not kept.           *)
(***************************************************************************)
EXTENDS Integers, Sequences

CONSTANTS
  Vectors,    (* the interrupt numbers in use                              *)
  GuestSeg,   (* the segment of the guest program                          *)
  GuestOffs,  (* the offsets of the guest's pieces of code                 *)
  EntryOff,   (* the one the program starts at                             *)
  Hooks,      (* the <<vector, offset>> the guest may install as handlers  *)
  Requests,   (* the contents of AH, AL, DS:DX the guest may load          *)
  Results,    (* what the guest's arithmetic may leave in CF and ZF        *)
  MaxStack    (* bound: words of stack the guest uses                      *)

RomSeg == 61440      \* BIOS::ROM_SEG, 0xF000
KEYBOARD == 22       \* INT 16h
DOS == 33            \* INT 21h

Flags == {"CF", "ZF", "IF"}
Functions == {"CheckKey", "File", "GetVector", "SetVector", "Flush", "Exit"}
Address == [seg : Nat, off : Nat]
NoAddress == [seg |-> 0, off |-> 0]
Request == [ah : Functions, al : Nat, dsdx : Address]

ASSUME ConstantsAssumption ==
  /\ Vectors \subseteq 0..254
  /\ GuestSeg \in Nat /\ GuestSeg # RomSeg
  /\ GuestOffs \subseteq Nat
  /\ EntryOff \in GuestOffs
  /\ Hooks \subseteq Vectors \X GuestOffs
  /\ Requests \subseteq Request
  /\ Results \subseteq SUBSET {"CF", "ZF"}
  /\ \A r \in Requests : r.ah \in {"GetVector", "SetVector"} => r.al \in Vectors
  /\ MaxStack \in Nat

FlagsWord == [kind : {"flags"}, val : SUBSET Flags]
RetWord == [kind : {"ret"}, at : Address]
RomEntry(n) == [seg |-> RomSeg, off |-> n]
GuestAddress == [seg : {GuestSeg}, off : GuestOffs]

VARIABLES
  at,         (* CS:IP                                                     *)
  flags,      (* the flags that are set in the CPU                         *)
  stack,      (* FLAGS words, and CS:IP pairs pushed as return addresses   *)
  flagsAddr,  (* MMU::flags_address as a position of stack, 0 for Unset    *)
  ivt,        (* per vector, the word read as IP and the word read as CS   *)
  ah, al, dsdx, esbx,  (* the registers that carry requests and answers    *)
  fatal,      (* CPU::fatal_error                                          *)
  panicked,   (* set_flag found no FLAGS word                              *)
  readEntry,  (* history: the entry the last GetVector of each vector saw  *)
  entered     (* history: how the guest got into the ROM stub it is in     *)

vars == <<at, flags, stack, flagsAddr, ivt, ah, al, dsdx, esbx, fatal,
          panicked, readEntry, entered>>
regs == <<ah, al, dsdx, esbx>>

-----------------------------------------------------------------------------
(* MMU and CPU primitives. *)

\* MMU::read_vec: the first word is taken for the segment.
ReadVec(n) == [seg |-> ivt[n].ip, off |-> ivt[n].cs]

\* Fault: write_vec in the order of the processor, read_vec left as it is.
WriteVec_OffsetFirst(n, a) == ivt' = [ivt EXCEPT ![n] = [ip |-> a.off, cs |-> a.seg]]

\* MMU::write_vec: the segment goes into the first word.
WriteVec(n, a) == ivt' = [ivt EXCEPT ![n] = [ip |-> a.seg, cs |-> a.off]]

\* Bit 6 (FLAG_ZF) of a 16-bit word, set or cleared.
WithBit6(x, b) == x + 64 * ((IF b THEN 1 ELSE 0) - ((x \div 64) % 2))

\* Faults: set_flag with its branches swapped, or storing the mask alone.
SetFlagZF_Swapped(s, b) ==
  IF flagsAddr \notin DOMAIN s \/ s[flagsAddr].kind # "flags" THEN s
  ELSE [s EXCEPT ![flagsAddr].val = IF b THEN @ \ {"ZF"} ELSE @ \cup {"ZF"}]
SetFlagZF_MaskOnly(s, b) ==
  IF flagsAddr \notin DOMAIN s \/ s[flagsAddr].kind # "flags" THEN s
  ELSE [s EXCEPT ![flagsAddr].val = IF b THEN {"ZF"} ELSE {}]

\* MMU::set_flag(FLAG_ZF, b) on the stack s: an in-place edit of whatever
\* word flags_address designates.
SetFlagZF(s, b) ==
  IF flagsAddr \notin DOMAIN s THEN s
  ELSE IF s[flagsAddr].kind = "flags"
  THEN [s EXCEPT ![flagsAddr].val = IF b THEN @ \cup {"ZF"} ELSE @ \ {"ZF"}]
  ELSE [s EXCEPT ![flagsAddr].at.off = WithBit6(@, b)]

\* Fault: execute_interrupt pushes FLAGS last.
PushFrame_FlagsLast(s, fl, ret) ==
  s \o << [kind |-> "ret", at |-> ret], [kind |-> "flags", val |-> fl] >>

\* The stack after CPU::execute_interrupt has pushed FLAGS, CS and IP.
PushFrame(s, fl, ret) ==
  s \o << [kind |-> "flags", val |-> fl], [kind |-> "ret", at |-> ret] >>

\* Faults: flags_address is noted only while it is Unset, or too late, after
\* CS and IP have been pushed.
FrameFlags_Outer(s) == IF flagsAddr # 0 THEN flagsAddr ELSE Len(s) + 1
FrameFlags_Late(s) == Len(s) + 2

\* Where execute_interrupt notes the FLAGS word it has just pushed on s.
FrameFlags(s) == Len(s) + 1

\* Flags::set_u16: every modelled flag is loaded but the interrupt flag.
LoadFlags(old, word) == (word \ {"IF"}) \cup (old \cap {"IF"})

\* CPU::execute_interrupt at address ret.
ExecuteInterrupt(n, ret) ==
  /\ stack' = PushFrame(stack, flags, ret)
  /\ flagsAddr' = FrameFlags(stack)
  /\ flags' = flags \ {"IF"}
  /\ at' = [seg |-> ivt[n].cs, off |-> ivt[n].ip]
  /\ entered' = IF ivt[n].cs = RomSeg THEN "int" ELSE "no"

\* Fault: IRET leaves flags_address set.
Iret_KeepsAddress(s, fl) ==
  /\ at' = s[Len(s)].at
  /\ flags' = LoadFlags(fl, s[Len(s) - 1].val)
  /\ stack' = SubSeq(s, 1, Len(s) - 2)
  /\ entered' = IF at'.seg = RomSeg THEN entered ELSE "no"
  /\ UNCHANGED flagsAddr

\* Op::Iret with the CPU flags fl and the stack s.
Iret(s, fl) ==
  /\ at' = s[Len(s)].at
  /\ flags' = LoadFlags(fl, s[Len(s) - 1].val)
  /\ stack' = SubSeq(s, 1, Len(s) - 2)
  /\ flagsAddr' = 0
  /\ entered' = IF at'.seg = RomSeg THEN entered ELSE "no"

\* A return address lies on top of a FLAGS word.
FrameOnTop(s) ==
  /\ Len(s) > 1
  /\ s[Len(s)].kind = "ret"
  /\ s[Len(s) - 1].kind = "flags"

-----------------------------------------------------------------------------
(* Guest instructions. *)

GuestRuns == at \in GuestAddress /\ ~fatal /\ ~panicked

\* INT n: the guest has loaded a function number into AH.
GuestInt(n) ==
  /\ GuestRuns
  /\ ah \in Functions
  /\ Len(stack) + 2 <= MaxStack
  /\ ExecuteInterrupt(n, at)
  /\ UNCHANGED <<ivt, regs, fatal, panicked, readEntry>>

\* IRET at the end of a handler the guest installed.
GuestIret ==
  /\ GuestRuns
  /\ FrameOnTop(stack)
  /\ Iret(stack, flags)
  /\ UNCHANGED <<ivt, regs, fatal, panicked, readEntry>>

Pushf ==
  /\ GuestRuns
  /\ Len(stack) < MaxStack
  /\ stack' = Append(stack, [kind |-> "flags", val |-> flags])
  /\ UNCHANGED <<at, flags, flagsAddr, ivt, regs, fatal, panicked, readEntry, entered>>

Popf ==
  /\ GuestRuns
  /\ Len(stack) > 0
  /\ stack[Len(stack)].kind = "flags"
  /\ flags' = LoadFlags(flags, stack[Len(stack)].val)
  /\ stack' = SubSeq(stack, 1, Len(stack) - 1)
  /\ UNCHANGED <<at, flagsAddr, ivt, regs, fatal, panicked, readEntry, entered>>

\* CALL FAR into a ROM stub after PUSHF: how a handler calls the previous one.
CallFar(n) ==
  /\ GuestRuns
  /\ ah \in Functions
  /\ Len(stack) > 0
  /\ stack[Len(stack)].kind = "flags"
  /\ Len(stack) < MaxStack
  /\ stack' = Append(stack, [kind |-> "ret", at |-> at])
  /\ at' = RomEntry(n)
  /\ entered' = "call"
  /\ UNCHANGED <<flags, flagsAddr, ivt, regs, fatal, panicked, readEntry>>

\* JMP FAR into a ROM stub from inside a frame: passing a request on.
JmpFar(n) ==
  /\ GuestRuns
  /\ ah \in Functions
  /\ FrameOnTop(stack)
  /\ at' = RomEntry(n)
  /\ entered' = "jump"
  /\ UNCHANGED <<flags, stack, flagsAddr, ivt, regs, fatal, panicked, readEntry>>

\* CLI and STI.
SetInterruptFlag(b) ==
  /\ GuestRuns
  /\ flags' = IF b THEN flags \cup {"IF"} ELSE flags \ {"IF"}
  /\ UNCHANGED <<at, stack, flagsAddr, ivt, regs, fatal, panicked, readEntry, entered>>

\* Any arithmetic: it decides CF and ZF.
Arithmetic(s) ==
  /\ GuestRuns
  /\ flags' = s \cup (flags \cap {"IF"})
  /\ UNCHANGED <<at, stack, flagsAddr, ivt, regs, fatal, panicked, readEntry, entered>>

\* The guest loads the registers a function takes; a new vector in DS:DX may
\* be the one an earlier request answered in ES:BX.
LoadRegisters(r) ==
  /\ GuestRuns
  /\ ah' = r.ah
  /\ al' = r.al
  /\ dsdx' \in IF r.ah = "SetVector" THEN {r.dsdx, esbx} ELSE {r.dsdx}
  /\ UNCHANGED <<at, flags, stack, flagsAddr, ivt, esbx, fatal, panicked, readEntry, entered>>

\* The guest writes the two words of a vector itself.
WriteIvt(n, o) ==
  /\ GuestRuns
  /\ ivt' = [ivt EXCEPT ![n] = [ip |-> o, cs |-> GuestSeg]]
  /\ UNCHANGED <<at, flags, stack, flagsAddr, regs, fatal, panicked, readEntry, entered>>

-----------------------------------------------------------------------------
(* Machine::execute_instruction in segment F000: the high-level handler of  *)
(* the vector, then the IRET that the ROM holds at the same address.        *)

InRom(n) == at = RomEntry(n) /\ ~fatal /\ ~panicked

\* INT 16h, AH=01h: AH becomes the scan code, 0 if there is none, and ZF of
\* the FLAGS word on the stack says which; the key queue is the environment.
RomCheckKey ==
  /\ InRom(KEYBOARD) /\ ah = "CheckKey"
  /\ \E none \in BOOLEAN :
       /\ ah' = IF none THEN "NoKey" ELSE "Key"
       /\ IF flagsAddr = 0
          THEN /\ panicked' = TRUE
               /\ UNCHANGED <<at, flags, stack, flagsAddr, entered>>
          ELSE /\ Iret(SetFlagZF(stack, none), flags)
               /\ UNCHANGED panicked
  /\ UNCHANGED <<al, dsdx, esbx, ivt, fatal, readEntry>>

\* INT 21h, AH=3Dh and AH=3Eh: the outcome is put into the carry flag of the
\* CPU, then IRET loads the flags of the caller.  AH keeps here which outcome
\* the handler chose.
RomFile ==
  /\ InRom(DOS) /\ ah = "File"
  /\ \E error \in BOOLEAN :
       /\ ah' = IF error THEN "Failed" ELSE "Done"
       /\ Iret(stack, IF error THEN flags \cup {"CF"} ELSE flags \ {"CF"})
  /\ UNCHANGED <<al, dsdx, esbx, ivt, fatal, panicked, readEntry>>

\* INT 21h, AH=35h.
RomGetVector ==
  /\ InRom(DOS) /\ ah = "GetVector"
  /\ esbx' = ReadVec(al)
  /\ readEntry' = [readEntry EXCEPT ![al] = ivt[al]]
  /\ Iret(stack, flags)
  /\ UNCHANGED <<ivt, ah, al, dsdx, fatal, panicked>>

\* INT 21h, AH=25h.
RomSetVector ==
  /\ InRom(DOS) /\ ah = "SetVector"
  /\ WriteVec(al, dsdx)
  /\ Iret(stack, flags)
  /\ UNCHANGED <<regs, fatal, panicked, readEntry>>

\* INT 21h, AH=0Ch with a function in AL: execute_interrupt(0x21) pushes a
\* frame for F000:0021 with AH set to AL, AH is put back, and the IRET of the
\* same step pops that frame.
RomFlush ==
  /\ InRom(DOS) /\ ah = "Flush"
  /\ Len(stack) + 2 <= MaxStack
  /\ Iret(PushFrame(stack, flags, at), flags \ {"IF"})
  /\ UNCHANGED <<ivt, regs, fatal, panicked, readEntry>>

\* INT 21h, AH=4Ch: the IRET of the same step still runs.
RomExit ==
  /\ InRom(DOS) /\ ah = "Exit"
  /\ fatal' = TRUE
  /\ Iret(stack, flags)
  /\ UNCHANGED <<ivt, regs, panicked, readEntry>>

\* Every other function and vector: nothing that this module tells apart but
\* the IRET.
RomOther(n) ==
  /\ InRom(n)
  /\ ~(n = KEYBOARD /\ ah = "CheckKey")
  /\ ~(n = DOS /\ ah \in Functions \ {"CheckKey"})
  /\ Iret(stack, flags)
  /\ UNCHANGED <<ivt, regs, fatal, panicked, readEntry>>

-----------------------------------------------------------------------------
Init ==
  /\ at = [seg |-> GuestSeg, off |-> EntryOff]
  /\ flags = {"IF"}
  /\ stack = << >>
  /\ flagsAddr = 0
  /\ ivt = [n \in Vectors |-> [ip |-> n, cs |-> RomSeg]]
  /\ ah = "none" /\ al = 0 /\ dsdx = NoAddress /\ esbx = NoAddress
  /\ fatal = FALSE
  /\ panicked = FALSE
  /\ readEntry = [n \in Vectors |-> [ip |-> 0, cs |-> 0]]
  /\ entered = "no"

Guest ==
  \/ \E n \in Vectors : GuestInt(n) \/ CallFar(n) \/ JmpFar(n)
  \/ GuestIret \/ Pushf \/ Popf
  \/ \E b \in BOOLEAN : SetInterruptFlag(b)
  \/ \E s \in Results : Arithmetic(s)
  \/ \E r \in Requests : LoadRegisters(r)
  \/ \E h \in Hooks : WriteIvt(h[1], h[2])

Rom ==
  \/ RomCheckKey \/ RomFile \/ RomGetVector \/ RomSetVector \/ RomFlush \/ RomExit
  \/ \E n \in Vectors : RomOther(n)

Next == Guest \/ Rom

Spec == Init /\ [][Next]_vars

-----------------------------------------------------------------------------
(* Properties. *)

Word == FlagsWord \cup RetWord
Entry == [ip : Nat, cs : Nat]

\* The types of the variables; flags_address is Unset or a word of the stack.
TypeOK ==
  /\ at \in Address
  /\ flags \subseteq Flags
  /\ stack \in Seq(Word)
  /\ Len(stack) <= MaxStack
  /\ flagsAddr \in 0..Len(stack)
  /\ ivt \in [Vectors -> Entry]
  /\ ah \in Functions \cup {"none", "NoKey", "Key", "Done", "Failed"}
  /\ al \in Nat
  /\ ah \in {"GetVector", "SetVector"} => al \in Vectors
  /\ dsdx \in Address
  /\ esbx \in Address
  /\ fatal \in BOOLEAN
  /\ panicked \in BOOLEAN
  /\ readEntry \in [Vectors -> Entry]
  /\ entered \in {"no", "int", "jump", "call"}

\* While MMU::flags_address is set it designates the FLAGS word of a frame
\* that is still on the stack: set_flag never edits a popped word, a return
\* address or data, however handlers nest and chain.
FlagsAddressLive ==
  flagsAddr # 0 =>
    /\ flagsAddr < Len(stack)
    /\ stack[flagsAddr].kind = "flags"
    /\ stack[flagsAddr + 1].kind = "ret"

\* In the stack s every return address lies directly on a FLAGS word and leads
\* back into the guest.
Frames(s) ==
  \A i \in 1..Len(s) : s[i].kind = "ret" =>
    /\ i > 1
    /\ s[i - 1].kind = "flags"
    /\ s[i].at \in GuestAddress

\* A ROM stub is only ever entered with a frame on top of a stack of FLAGS
\* words and frames: the IRET it holds pops a frame, never anything else, into
\* CS:IP and FLAGS, and leaves the ROM.
FrameDiscipline == Frames(stack) /\ (at.seg = RomSeg => FrameOnTop(stack))

\* No step changes a return address that stays on the stack: a handler that
\* edits its caller's FLAGS in place, or re-enters INT 21h, does not redirect
\* any of the calls in progress.
ReturnAddressesIntact ==
  [][\A i \in 1..Len(stack) :
       i <= Len(stack') /\ stack[i].kind = "ret" => stack'[i] = stack[i]]_vars

\* The FLAGS words that stay on the stack change only in ZF, and only the one
\* flags_address designates: CF and IF of every interrupted caller are kept.
SavedFlagsKept ==
  [][\A i \in 1..Len(stack) :
       i <= Len(stack') /\ stack[i].kind = "flags" /\ stack'[i] # stack[i]
         => /\ i = flagsAddr
            /\ stack'[i].val \ {"ZF"} = stack[i].val \ {"ZF"}]_vars

\* The FLAGS word of the innermost frame of the stack s.
InnermostFlags(s, i) ==
  /\ i \in 1..Len(s) - 1
  /\ s[i + 1].kind = "ret"
  /\ \A j \in i + 2..Len(s) : s[j].kind # "ret"

\* INT 16h, AH=01h, after any sequence of handlers: an INT that leads to the
\* stub never panics; whoever entered it with an INT, or passed a request on
\* with JMP FAR, finds ZF set exactly when AH says that there is no key; and
\* when a handler made the request with CALL FAR, it is the FLAGS word of the
\* interrupt this handler serves, the innermost one that is left, that tells
\* this, and not the handler's own flags.
ZFReachesCaller ==
  [][InRom(KEYBOARD) /\ ah = "CheckKey" =>
       /\ entered = "int" => ~panicked'
       /\ entered # "call" /\ ~panicked' => (ah' = "NoKey" <=> "ZF" \in flags')
       /\ entered = "call" /\ ~panicked' =>
            \E i \in 1..Len(stack') :
              /\ InnermostFlags(stack', i)
              /\ ah' = "NoKey" <=> "ZF" \in stack'[i].val]_vars

\* Functions 35h and 25h of INT 21h are inverse to each other: setting a
\* vector to the pair that was read from it, the way a program puts a handler
\* back, restores both words of the table that were there.
RestoreRestores ==
  [][InRom(DOS) /\ ah = "SetVector" /\ al \in Vectors
       /\ dsdx = [seg |-> readEntry[al].ip, off |-> readEntry[al].cs]
       => ivt'[al] = readEntry[al]]_vars

\* What the comments say of the functions that report in CF: it is set for
\* the caller exactly on error.
CarryReachesCaller ==
  [][InRom(DOS) /\ ah = "File" => (ah' = "Failed" <=> "CF" \in flags')]_vars
=============================================================================
