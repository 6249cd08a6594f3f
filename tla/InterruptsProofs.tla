-------------------------- MODULE InterruptsProofs --------------------------
(***************************************************************************)
(* Proofs about Interrupts: the type invariant, the discipline of frames   *)
(* and of flags_address, and the action properties that follow from them,  *)
(* for every set of vectors, handlers, requests and any depth of stack.    *)
(***************************************************************************)
EXTENDS Interrupts, TLAPS

IInv == TypeOK /\ FrameDiscipline /\ FlagsAddressLive

-----------------------------------------------------------------------------
(* The operators on the stack. *)

\* SetFlagZF on a stack whose flags_address is live leaves its length, its
\* return addresses and every FLAGS word but the designated one alone.
LEMMA SetFlagZFKeeps ==
  ASSUME TypeOK, FlagsAddressLive, flagsAddr # 0, NEW b \in BOOLEAN
  PROVE  /\ SetFlagZF(stack, b) \in Seq(Word)
         /\ Len(SetFlagZF(stack, b)) = Len(stack)
         /\ \A i \in 1..Len(stack) : i # flagsAddr => SetFlagZF(stack, b)[i] = stack[i]
         /\ SetFlagZF(stack, b)[flagsAddr].kind = "flags"
         /\ SetFlagZF(stack, b)[flagsAddr].val
              = IF b THEN stack[flagsAddr].val \cup {"ZF"} ELSE stack[flagsAddr].val \ {"ZF"}
<1> DEFINE w == [stack[flagsAddr] EXCEPT !.val = IF b THEN @ \cup {"ZF"} ELSE @ \ {"ZF"}]
<1>1. /\ flagsAddr \in 1..Len(stack)
      /\ stack[flagsAddr] \in FlagsWord
      /\ stack \in Seq(Word)
  BY DEF TypeOK, FlagsAddressLive, Word, FlagsWord, RetWord
<1>2. w \in FlagsWord /\ w.val = IF b THEN stack[flagsAddr].val \cup {"ZF"}
                                      ELSE stack[flagsAddr].val \ {"ZF"}
  BY <1>1 DEF FlagsWord, Flags
<1>3. SetFlagZF(stack, b) = [stack EXCEPT ![flagsAddr] = w]
  BY <1>1 DEF SetFlagZF, FlagsWord
<1> HIDE DEF w
<1>4. /\ [stack EXCEPT ![flagsAddr] = w] \in Seq(Word)
      /\ Len([stack EXCEPT ![flagsAddr] = w]) = Len(stack)
      /\ \A i \in 1..Len(stack) : i # flagsAddr => [stack EXCEPT ![flagsAddr] = w][i] = stack[i]
      /\ [stack EXCEPT ![flagsAddr] = w][flagsAddr] = w
  BY <1>1, <1>2 DEF Word
<1>5. w.kind = "flags"
  BY <1>2 DEF FlagsWord
<1> QED BY <1>2, <1>3, <1>4, <1>5

\* A sequence loses its last words without changing the others.
LEMMA PrefixKeeps ==
  ASSUME NEW s \in Seq(Word), NEW n \in 0..Len(s)
  PROVE  /\ SubSeq(s, 1, n) \in Seq(Word)
         /\ Len(SubSeq(s, 1, n)) = n
         /\ \A i \in 1..n : SubSeq(s, 1, n)[i] = s[i]
OBVIOUS

\* Loading a FLAGS word gives a set of flags.
LEMMA LoadFlagsType ==
  ASSUME NEW old \in SUBSET Flags, NEW w \in SUBSET Flags
  PROVE  LoadFlags(old, w) \subseteq Flags
BY DEF LoadFlags

\* Pushing a frame.
LEMMA PushFrameIs ==
  ASSUME NEW s \in Seq(Word), NEW fl \in SUBSET Flags, NEW ret \in Address
  PROVE  /\ PushFrame(s, fl, ret) \in Seq(Word)
         /\ Len(PushFrame(s, fl, ret)) = Len(s) + 2
         /\ \A i \in 1..Len(s) : PushFrame(s, fl, ret)[i] = s[i]
         /\ PushFrame(s, fl, ret)[Len(s) + 1] = [kind |-> "flags", val |-> fl]
         /\ PushFrame(s, fl, ret)[Len(s) + 2] = [kind |-> "ret", at |-> ret]
<1> DEFINE f == [kind |-> "flags", val |-> fl]
           r == [kind |-> "ret", at |-> ret]
<1>1. f \in Word /\ r \in Word
  BY DEF Word, FlagsWord, RetWord
<1>2. <<f, r>> \in Seq(Word) /\ Len(<<f, r>>) = 2
  BY <1>1
<1> QED BY <1>1, <1>2 DEF PushFrame

-----------------------------------------------------------------------------
(* What a step of each kind leaves invariant. *)

\* IRET from a well-formed stack with a frame on top.
LEMMA IretKeeps ==
  ASSUME ConstantsAssumption, NEW s \in Seq(Word), Len(s) <= MaxStack + 2, Frames(s),
         FrameOnTop(s), NEW fl \in SUBSET Flags, Iret(s, fl), Len(s) - 2 <= MaxStack
  PROVE  /\ at' \in GuestAddress
         /\ flags' \subseteq Flags
         /\ stack' \in Seq(Word)
         /\ Len(stack') = Len(s) - 2
         /\ \A i \in 1..Len(s) - 2 : stack'[i] = s[i]
         /\ flagsAddr' = 0
         /\ FrameDiscipline'
         /\ FlagsAddressLive'
<1>1. Len(s) \in Nat /\ Len(s) > 1 /\ Len(s) - 2 \in 0..Len(s)
  BY DEF FrameOnTop
<1>2. s[Len(s)].at \in GuestAddress
  BY <1>1 DEF FrameOnTop, Frames
<1>3. s[Len(s) - 1].val \subseteq Flags
  BY <1>1 DEF FrameOnTop, Word, FlagsWord, RetWord
<1>4. at' = s[Len(s)].at /\ flags' = LoadFlags(fl, s[Len(s) - 1].val)
      /\ stack' = SubSeq(s, 1, Len(s) - 2) /\ flagsAddr' = 0
  BY DEF Iret
<1>5. flags' \subseteq Flags
  BY <1>3, <1>4, LoadFlagsType
<1>6. /\ stack' \in Seq(Word)
      /\ Len(stack') = Len(s) - 2
      /\ \A i \in 1..Len(s) - 2 : stack'[i] = s[i]
  BY <1>1, <1>4, PrefixKeeps
<1>7. Frames(stack')
  <2> SUFFICES ASSUME NEW i \in 1..Len(stack'), stack'[i].kind = "ret"
               PROVE  i > 1 /\ stack'[i - 1].kind = "flags" /\ stack'[i].at \in GuestAddress
    BY DEF Frames
  <2>1. i \in 1..Len(s) - 2 /\ i \in 1..Len(s) /\ stack'[i] = s[i]
    BY <1>1, <1>6
  <2>2. i > 1 /\ s[i - 1].kind = "flags" /\ s[i].at \in GuestAddress
    BY <2>1 DEF Frames
  <2>3. stack'[i - 1] = s[i - 1]
    BY <1>1, <1>6, <2>1, <2>2
  <2> QED BY <2>1, <2>2, <2>3
<1>8. at'.seg # RomSeg
  BY <1>2, <1>4 DEF GuestAddress, ConstantsAssumption
<1>9. FrameDiscipline'
  BY <1>7, <1>8 DEF FrameDiscipline
<1>10. FlagsAddressLive'
  BY <1>4 DEF FlagsAddressLive
<1> QED BY <1>2, <1>4, <1>5, <1>6, <1>9, <1>10

\* SetFlagZF keeps a well-formed stack well-formed and the frame on its top.
LEMMA SetFlagZFFrames ==
  ASSUME IInv, flagsAddr # 0, NEW b \in BOOLEAN
  PROVE  /\ Frames(SetFlagZF(stack, b))
         /\ FrameOnTop(stack) => FrameOnTop(SetFlagZF(stack, b))
<1> DEFINE t == SetFlagZF(stack, b)
<1>1. /\ Len(t) = Len(stack) /\ Len(stack) \in Nat
      /\ \A i \in 1..Len(stack) : i # flagsAddr => t[i] = stack[i]
      /\ t[flagsAddr].kind = "flags"
  BY SetFlagZFKeeps DEF IInv, TypeOK
<1>2. flagsAddr \in 1..Len(stack) /\ stack[flagsAddr].kind = "flags"
  BY DEF IInv, TypeOK, FlagsAddressLive
<1> HIDE DEF t
<1>3. \A i \in 1..Len(stack) : t[i].kind = stack[i].kind
  BY <1>1, <1>2
<1>4. Frames(t)
  <2> SUFFICES ASSUME NEW i \in 1..Len(t), t[i].kind = "ret"
               PROVE  i > 1 /\ t[i - 1].kind = "flags" /\ t[i].at \in GuestAddress
    BY DEF Frames
  <2>1. stack[i].kind = "ret" /\ t[i] = stack[i]
    BY <1>1, <1>2, <1>3
  <2>2. i > 1 /\ stack[i - 1].kind = "flags" /\ stack[i].at \in GuestAddress
    BY <1>1, <2>1 DEF IInv, FrameDiscipline, Frames
  <2> QED BY <1>1, <1>3, <2>1, <2>2
<1>5. FrameOnTop(stack) => FrameOnTop(t)
  BY <1>1, <1>3 DEF FrameOnTop
<1> QED BY <1>4, <1>5 DEF t

\* Pushing a frame for a guest address, or the one an INT inside the ROM
\* pushes, leaves every older frame where it is.
LEMMA PushFrameFrames ==
  ASSUME NEW s \in Seq(Word), Frames(s), NEW fl \in SUBSET Flags, NEW ret \in Address
  PROVE  /\ ret \in GuestAddress => Frames(PushFrame(s, fl, ret))
         /\ FrameOnTop(PushFrame(s, fl, ret))
         /\ SubSeq(PushFrame(s, fl, ret), 1, Len(s)) = s
<1> DEFINE t == PushFrame(s, fl, ret)
<1>1. /\ t \in Seq(Word) /\ Len(t) = Len(s) + 2 /\ Len(s) \in Nat
      /\ \A i \in 1..Len(s) : t[i] = s[i]
      /\ t[Len(s) + 1].kind = "flags"
      /\ t[Len(s) + 2].kind = "ret" /\ t[Len(s) + 2].at = ret
  <2>1. Len(s) \in Nat
    OBVIOUS
  <2>2. t[Len(s) + 1] = [kind |-> "flags", val |-> fl] /\ t[Len(s) + 2] = [kind |-> "ret", at |-> ret]
    BY PushFrameIs
  <2>3. t \in Seq(Word)
    BY PushFrameIs
  <2>4. Len(t) = Len(s) + 2
    BY PushFrameIs
  <2>5. \A i \in 1..Len(s) : t[i] = s[i]
    BY <2>3 DEF PushFrame
  <2> HIDE DEF t
  <2> QED BY <2>1, <2>2, <2>3, <2>4, <2>5
<1> HIDE DEF t
<1>2. ASSUME ret \in GuestAddress PROVE Frames(t)
  <2> SUFFICES ASSUME NEW i \in 1..Len(t), t[i].kind = "ret"
               PROVE  i > 1 /\ t[i - 1].kind = "flags" /\ t[i].at \in GuestAddress
    BY DEF Frames
  <2>1. CASE i \in 1..Len(s)
    <3>1. i > 1 /\ s[i - 1].kind = "flags" /\ s[i].at \in GuestAddress
      BY <1>1, <2>1 DEF Frames
    <3> QED BY <1>1, <2>1, <3>1
  <2>2. CASE i = Len(s) + 2
    BY <1>1, <1>2, <2>2
  <2> QED BY <1>1, <2>1, <2>2
<1>3. FrameOnTop(t)
  BY <1>1 DEF FrameOnTop
<1>4. SubSeq(t, 1, Len(s)) = s
  BY <1>1
<1> QED BY <1>2, <1>3, <1>4 DEF t

-----------------------------------------------------------------------------
(* The invariant. *)

LEMMA InitInv == Init => IInv
<1> SUFFICES ASSUME Init PROVE IInv
  OBVIOUS
<1> USE ConstantsAssumption DEF ConstantsAssumption
<1>1. TypeOK
  <2>1. at \in Address /\ dsdx \in Address /\ esbx \in Address
    BY DEF Init, Address, NoAddress
  <2>2. flags \subseteq Flags
    BY DEF Init, Flags
  <2>3. stack \in Seq(Word) /\ Len(stack) <= MaxStack /\ flagsAddr \in 0..Len(stack)
    BY DEF Init
  <2>4. ivt \in [Vectors -> Entry] /\ readEntry \in [Vectors -> Entry]
    BY DEF Init, Entry, RomSeg
  <2>5. /\ ah \in Functions \cup {"none", "NoKey", "Key", "Done", "Failed"}
        /\ ah \in {"GetVector", "SetVector"} => al \in Vectors
        /\ al \in Nat /\ fatal \in BOOLEAN /\ panicked \in BOOLEAN
        /\ entered \in {"no", "int", "jump", "call"}
    BY DEF Init
  <2> QED BY <2>1, <2>2, <2>3, <2>4, <2>5 DEF TypeOK
<1>2. FrameDiscipline
  BY DEF Init, FrameDiscipline, Frames
<1>3. FlagsAddressLive
  BY DEF Init, FlagsAddressLive
<1> QED BY <1>1, <1>2, <1>3 DEF IInv

\* The part of the invariant about CS:IP, FLAGS and the stack, and the part
\* about the registers and the vector table.
StackPart ==
  /\ at \in Address
  /\ flags \subseteq Flags
  /\ stack \in Seq(Word)
  /\ Len(stack) <= MaxStack
  /\ flagsAddr \in 0..Len(stack)
  /\ FrameDiscipline
  /\ FlagsAddressLive

DataPart ==
  /\ ivt \in [Vectors -> Entry]
  /\ ah \in Functions \cup {"none", "NoKey", "Key", "Done", "Failed"}
  /\ al \in Nat
  /\ ah \in {"GetVector", "SetVector"} => al \in Vectors
  /\ dsdx \in Address
  /\ esbx \in Address
  /\ fatal \in BOOLEAN
  /\ panicked \in BOOLEAN
  /\ readEntry \in [Vectors -> Entry]

EntryPart == entered \in {"no", "int", "jump", "call"}

LEMMA Parts == IInv <=> StackPart /\ DataPart /\ EntryPart
BY DEF IInv, TypeOK, StackPart, DataPart, EntryPart

\* An IRET from the frame on top of the stack, whichever flags the CPU has.
LEMMA IretStep ==
  ASSUME StackPart, FrameOnTop(stack), NEW fl \in SUBSET Flags, Iret(stack, fl)
  PROVE  StackPart'
<1> USE ConstantsAssumption
<1>1. stack \in Seq(Word) /\ Len(stack) \in Nat /\ Len(stack) <= MaxStack /\ MaxStack \in Nat
  BY DEF StackPart, ConstantsAssumption
<1>2. Frames(stack)
  BY DEF StackPart, FrameDiscipline
<1>3. Len(stack) <= MaxStack + 2 /\ Len(stack) - 2 <= MaxStack
  BY <1>1
<1>4. /\ at' \in GuestAddress
      /\ flags' \subseteq Flags
      /\ stack' \in Seq(Word)
      /\ Len(stack') = Len(stack) - 2
      /\ flagsAddr' = 0
      /\ FrameDiscipline'
      /\ FlagsAddressLive'
  BY <1>1, <1>2, <1>3, IretKeeps
<1>5. at' \in Address
  BY <1>4 DEF GuestAddress, Address, ConstantsAssumption
<1>6. Len(stack') <= MaxStack /\ 0 \in 0..Len(stack')
  BY <1>1, <1>2, <1>4 DEF FrameOnTop
<1> QED BY <1>4, <1>5, <1>6 DEF StackPart

\* INT n of the guest.
LEMMA GuestIntKeeps ==
  ASSUME IInv, NEW n \in Vectors, GuestInt(n)
  PROVE  StackPart'
<1> USE ConstantsAssumption
<1>1. /\ stack \in Seq(Word) /\ Len(stack) \in Nat /\ flags \in SUBSET Flags
      /\ Frames(stack) /\ at \in Address /\ ivt \in [Vectors -> Entry] /\ MaxStack \in Nat
  BY DEF IInv, TypeOK, FrameDiscipline, ConstantsAssumption
<1>2. /\ at \in GuestAddress
      /\ Len(stack) + 2 <= MaxStack
      /\ stack' = PushFrame(stack, flags, at)
      /\ flagsAddr' = Len(stack) + 1
      /\ flags' = flags \ {"IF"}
      /\ at' = [seg |-> ivt[n].cs, off |-> ivt[n].ip]
  BY DEF GuestInt, GuestRuns, ExecuteInterrupt, FrameFlags
<1>3. stack' \in Seq(Word) /\ Len(stack') = Len(stack) + 2
      /\ stack'[Len(stack) + 1] = [kind |-> "flags", val |-> flags]
      /\ stack'[Len(stack) + 2] = [kind |-> "ret", at |-> at]
  BY <1>1, <1>2, PushFrameIs
<1>4. at' \in Address /\ flags' \subseteq Flags
  BY <1>1, <1>2 DEF Entry, Address
<1>5. Len(stack') <= MaxStack /\ flagsAddr' \in 0..Len(stack')
  BY <1>1, <1>2, <1>3
<1>6. Frames(stack') /\ FrameOnTop(stack')
  BY <1>1, <1>2, PushFrameFrames
<1>7. FlagsAddressLive'
  BY <1>1, <1>2, <1>3 DEF FlagsAddressLive
<1> QED BY <1>3, <1>4, <1>5, <1>6, <1>7 DEF StackPart, FrameDiscipline

\* IRET and POPF of the guest.
LEMMA GuestIretKeeps ==
  ASSUME IInv, GuestIret
  PROVE  StackPart'
<1>1. FrameOnTop(stack) /\ Iret(stack, flags)
  BY DEF GuestIret
<1>2. StackPart /\ flags \in SUBSET Flags
  BY Parts DEF StackPart
<1> QED BY <1>1, <1>2, IretStep

LEMMA PopfKeeps ==
  ASSUME IInv, Popf
  PROVE  StackPart'
<1>1. /\ stack \in Seq(Word) /\ Len(stack) \in Nat /\ Len(stack) <= MaxStack
      /\ MaxStack \in Nat /\ flags \in SUBSET Flags /\ Frames(stack) /\ at \in Address
      /\ flagsAddr \in 0..Len(stack) /\ FlagsAddressLive
  BY ConstantsAssumption DEF IInv, TypeOK, FrameDiscipline, ConstantsAssumption
<1>2. /\ at \in GuestAddress /\ at' = at /\ flagsAddr' = flagsAddr
      /\ Len(stack) > 0 /\ stack[Len(stack)].kind = "flags"
      /\ flags' = LoadFlags(flags, stack[Len(stack)].val)
      /\ stack' = SubSeq(stack, 1, Len(stack) - 1)
  BY DEF Popf, GuestRuns
<1>3. /\ stack' \in Seq(Word) /\ Len(stack') = Len(stack) - 1
      /\ \A i \in 1..Len(stack) - 1 : stack'[i] = stack[i]
  <2>1. Len(stack) - 1 \in 0..Len(stack)
    BY <1>1, <1>2
  <2> QED BY <1>1, <1>2, <2>1, PrefixKeeps
<1>4. stack[Len(stack)].val \subseteq Flags
  BY <1>1, <1>2 DEF Word, FlagsWord, RetWord
<1>5. flags' \subseteq Flags
  BY <1>1, <1>2, <1>4, LoadFlagsType
<1>6. flagsAddr # 0 => flagsAddr + 1 < Len(stack)
  BY <1>1, <1>2 DEF FlagsAddressLive
<1>7. FlagsAddressLive' /\ flagsAddr' \in 0..Len(stack')
  BY <1>1, <1>2, <1>3, <1>6 DEF FlagsAddressLive
<1>8. Frames(stack')
  <2> SUFFICES ASSUME NEW i \in 1..Len(stack'), stack'[i].kind = "ret"
               PROVE  i > 1 /\ stack'[i - 1].kind = "flags" /\ stack'[i].at \in GuestAddress
    BY DEF Frames
  <2>1. i \in 1..Len(stack) /\ stack'[i] = stack[i]
    BY <1>1, <1>3
  <2>2. i > 1 /\ stack[i - 1].kind = "flags" /\ stack[i].at \in GuestAddress
    BY <1>1, <2>1 DEF Frames
  <2> QED BY <1>1, <1>3, <2>1, <2>2
<1>9. at'.seg # RomSeg
  BY <1>2, ConstantsAssumption DEF GuestAddress, ConstantsAssumption
<1> QED BY <1>1, <1>2, <1>3, <1>5, <1>7, <1>8, <1>9 DEF StackPart, FrameDiscipline

\* PUSHF and CALL FAR push one word; the second only on top of a FLAGS word.
LEMMA PushKeeps ==
  ASSUME IInv, NEW w \in Word, Len(stack) < MaxStack, stack' = Append(stack, w),
         w.kind = "ret" =>
           /\ Len(stack) > 0 /\ stack[Len(stack)].kind = "flags"
           /\ w.at \in GuestAddress,
         UNCHANGED <<flags, flagsAddr>>, at' \in Address,
         at'.seg = RomSeg => w.kind = "ret"
  PROVE  StackPart'
<1>1. /\ stack \in Seq(Word) /\ Len(stack) \in Nat /\ MaxStack \in Nat
      /\ flags \subseteq Flags /\ Frames(stack)
      /\ flagsAddr \in 0..Len(stack) /\ FlagsAddressLive
  BY ConstantsAssumption DEF IInv, TypeOK, FrameDiscipline, ConstantsAssumption
<1>2. /\ stack' \in Seq(Word) /\ Len(stack') = Len(stack) + 1
      /\ \A i \in 1..Len(stack) : stack'[i] = stack[i]
      /\ stack'[Len(stack) + 1] = w
  BY <1>1
<1>3. Frames(stack')
  <2> SUFFICES ASSUME NEW i \in 1..Len(stack'), stack'[i].kind = "ret"
               PROVE  i > 1 /\ stack'[i - 1].kind = "flags" /\ stack'[i].at \in GuestAddress
    BY DEF Frames
  <2>1. CASE i \in 1..Len(stack)
    <3>1. i > 1 /\ stack[i - 1].kind = "flags" /\ stack[i].at \in GuestAddress
      BY <1>1, <1>2, <2>1 DEF Frames
    <3> QED BY <1>1, <1>2, <2>1, <3>1
  <2>2. CASE i = Len(stack) + 1
    BY <1>1, <1>2, <2>2
  <2> QED BY <1>1, <1>2, <2>1, <2>2
<1>4. FlagsAddressLive' /\ flagsAddr' \in 0..Len(stack') /\ Len(stack') <= MaxStack
  BY <1>1, <1>2 DEF FlagsAddressLive
<1>5. at'.seg = RomSeg => FrameOnTop(stack')
  BY <1>1, <1>2 DEF FrameOnTop
<1> QED BY <1>1, <1>2, <1>3, <1>4, <1>5 DEF StackPart, FrameDiscipline

(* A ROM entry point is an address: the vectors are naturals.              *)
LEMMA RomEntryIsAddress == \A n \in Vectors : RomEntry(n) \in Address
<1> SUFFICES ASSUME NEW n \in Vectors PROVE RomEntry(n) \in Address
  OBVIOUS
<1>1. n \in Nat
  BY ConstantsAssumption DEF ConstantsAssumption
<1>2. RomSeg \in Nat
  BY DEF RomSeg
<1> QED BY <1>1, <1>2 DEF RomEntry, Address

LEMMA GuestStackStep ==
  ASSUME IInv, Guest
  PROVE  StackPart'
<1> USE ConstantsAssumption
<1>1. StackPart /\ flags \subseteq Flags
  BY Parts DEF StackPart
<1>2. ASSUME NEW n \in Vectors, GuestInt(n) PROVE StackPart'
  BY <1>2, GuestIntKeeps
<1>3. ASSUME NEW n \in Vectors, CallFar(n) PROVE StackPart'
  <2> DEFINE w == [kind |-> "ret", at |-> at]
  <2>1. at \in GuestAddress /\ at \in Address
    BY <1>1, <1>3 DEF CallFar, GuestRuns, StackPart
  <2>2. w \in Word /\ w.kind = "ret" /\ w.at = at
    BY <2>1 DEF Word, RetWord
  <2>3. at' \in Address
    BY <1>3, RomEntryIsAddress DEF CallFar
  <2>4. /\ Len(stack) < MaxStack /\ stack' = Append(stack, w)
        /\ Len(stack) > 0 /\ stack[Len(stack)].kind = "flags"
        /\ UNCHANGED <<flags, flagsAddr>>
    BY <1>3 DEF CallFar
  <2> HIDE DEF w
  <2> QED BY <2>1, <2>2, <2>3, <2>4, PushKeeps
<1>4. ASSUME NEW n \in Vectors, JmpFar(n) PROVE StackPart'
  <2>1. at' = RomEntry(n) /\ FrameOnTop(stack) /\ UNCHANGED <<flags, stack, flagsAddr>>
    BY <1>4 DEF JmpFar
  <2>2. at' \in Address
    BY <2>1, RomEntryIsAddress
  <2>3. FrameDiscipline' /\ FlagsAddressLive'
    BY <1>1, <2>1 DEF StackPart, FrameDiscipline, FlagsAddressLive, FrameOnTop, Frames
  <2> QED BY <1>1, <2>1, <2>2, <2>3 DEF StackPart
<1>5. CASE GuestIret
  BY <1>5, GuestIretKeeps
<1>6. CASE Pushf
  <2> DEFINE w == [kind |-> "flags", val |-> flags]
  <2>1. at \in GuestAddress /\ at' = at /\ at \in Address
    BY <1>1, <1>6 DEF Pushf, GuestRuns, StackPart
  <2>2. w \in Word /\ w.kind = "flags"
    BY <1>1 DEF Word, FlagsWord
  <2>3. /\ Len(stack) < MaxStack /\ stack' = Append(stack, w)
        /\ UNCHANGED <<flags, flagsAddr>>
    BY <1>6 DEF Pushf
  <2>4. at'.seg # RomSeg
    BY <2>1 DEF GuestAddress, ConstantsAssumption
  <2> HIDE DEF w
  <2> QED BY <2>1, <2>2, <2>3, <2>4, PushKeeps
<1>7. CASE Popf
  BY <1>7, PopfKeeps
<1>8. ASSUME flags' \subseteq Flags, UNCHANGED <<at, stack, flagsAddr>> PROVE StackPart'
  BY <1>1, <1>8 DEF StackPart, FrameDiscipline, FlagsAddressLive, FrameOnTop, Frames
<1>9. ASSUME NEW b \in BOOLEAN, SetInterruptFlag(b) PROVE StackPart'
  BY <1>1, <1>8, <1>9 DEF SetInterruptFlag, Flags
<1>10. ASSUME NEW s \in Results, Arithmetic(s) PROVE StackPart'
  BY <1>1, <1>8, <1>10 DEF Arithmetic, Flags, ConstantsAssumption
<1>11. ASSUME NEW r \in Requests, LoadRegisters(r) PROVE StackPart'
  BY <1>1, <1>8, <1>11 DEF LoadRegisters
<1>12. ASSUME NEW h \in Hooks, WriteIvt(h[1], h[2]) PROVE StackPart'
  BY <1>1, <1>8, <1>12 DEF WriteIvt
<1> QED BY <1>2, <1>3, <1>4, <1>5, <1>6, <1>7, <1>9, <1>10, <1>11, <1>12 DEF Guest

LEMMA RomStackStep ==
  ASSUME IInv, Rom
  PROVE  StackPart'
<1>1. StackPart /\ flags \in SUBSET Flags /\ stack \in Seq(Word)
  BY Parts DEF StackPart
<1>2. ASSUME NEW n, InRom(n) PROVE FrameOnTop(stack)
  BY <1>1, <1>2 DEF StackPart, FrameDiscipline, InRom, RomEntry
<1>3. ASSUME NEW n, InRom(n), NEW fl \in SUBSET Flags, Iret(stack, fl) PROVE StackPart'
  BY <1>1, <1>2, <1>3, IretStep
<1>4. CASE RomCheckKey
  <2>0. PICK none \in BOOLEAN :
        IF flagsAddr = 0
        THEN UNCHANGED <<at, flags, stack, flagsAddr>>
        ELSE Iret(SetFlagZF(stack, none), flags)
    BY <1>4 DEF RomCheckKey
  <2>1. CASE flagsAddr = 0
    BY <1>1, <2>0, <2>1 DEF StackPart, FrameDiscipline, FlagsAddressLive, FrameOnTop, Frames
  <2>2. CASE flagsAddr # 0
    <3> DEFINE t == SetFlagZF(stack, none)
    <3>1. Iret(t, flags)
      BY <2>0, <2>2
    <3>2. t \in Seq(Word) /\ Len(t) = Len(stack)
      BY <2>2, SetFlagZFKeeps DEF IInv
    <3>3. Frames(t) /\ FrameOnTop(t)
      BY <1>2, <1>4, <2>2, SetFlagZFFrames DEF RomCheckKey
    <3> HIDE DEF t
    <3>4. /\ Len(t) \in Nat /\ Len(t) <= MaxStack + 2 /\ Len(t) - 2 <= MaxStack
          /\ MaxStack \in Nat /\ Len(t) <= MaxStack
      BY <1>1, <3>2, ConstantsAssumption DEF StackPart, ConstantsAssumption
    <3>5. /\ at' \in GuestAddress
          /\ flags' \subseteq Flags
          /\ stack' \in Seq(Word)
          /\ Len(stack') = Len(t) - 2
          /\ flagsAddr' = 0
          /\ FrameDiscipline'
          /\ FlagsAddressLive'
      BY <1>1, <3>1, <3>2, <3>3, <3>4, IretKeeps, ConstantsAssumption
    <3>6. at' \in Address
      BY <3>5, ConstantsAssumption DEF GuestAddress, Address, ConstantsAssumption
    <3>7. Len(stack') <= MaxStack /\ 0 \in 0..Len(stack')
      BY <3>3, <3>4, <3>5 DEF FrameOnTop
    <3> QED BY <3>5, <3>6, <3>7 DEF StackPart
  <2> QED BY <2>1, <2>2
<1>5. CASE RomFile
  <2>1. PICK error \in BOOLEAN : Iret(stack, IF error THEN flags \cup {"CF"} ELSE flags \ {"CF"})
    BY <1>5 DEF RomFile
  <2>2. (IF error THEN flags \cup {"CF"} ELSE flags \ {"CF"}) \in SUBSET Flags
    BY <1>1 DEF Flags
  <2> QED BY <1>3, <1>5, <2>1, <2>2 DEF RomFile
<1>6. CASE RomGetVector
  BY <1>1, <1>3, <1>6 DEF RomGetVector
<1>7. CASE RomSetVector
  BY <1>1, <1>3, <1>7 DEF RomSetVector
<1>8. CASE RomFlush
  <2> DEFINE t == PushFrame(stack, flags, at)
  <2>1. at \in Address /\ Len(stack) \in Nat /\ Frames(stack)
    BY <1>1 DEF StackPart, FrameDiscipline
  <2>2. /\ t[Len(stack) + 2] = [kind |-> "ret", at |-> at]
        /\ t[Len(stack) + 1] = [kind |-> "flags", val |-> flags]
        /\ Len(t) = Len(stack) + 2 /\ t \in Seq(Word)
    BY <1>1, <2>1, PushFrameIs
  <2>3. SubSeq(t, 1, Len(stack)) = stack
    BY <1>1, <2>1, PushFrameFrames
  <2>4. Iret(t, flags \ {"IF"})
    BY <1>8 DEF RomFlush
  <2> HIDE DEF t
  <2>5. /\ Len(t) - 2 = Len(stack) /\ Len(t) - 1 = Len(stack) + 1
        /\ t[Len(t)].at = at /\ t[Len(t) - 1].val = flags
    BY <2>1, <2>2
  <2>6. at' = at /\ stack' = stack /\ flagsAddr' = 0
        /\ flags' = LoadFlags(flags \ {"IF"}, flags)
    BY <2>3, <2>4, <2>5 DEF Iret
  <2>7. flags' \subseteq Flags
    BY <1>1, <2>6, LoadFlagsType
  <2>8. FrameDiscipline' /\ FlagsAddressLive'
    BY <1>1, <2>6 DEF StackPart, FrameDiscipline, FlagsAddressLive, FrameOnTop, Frames
  <2>9. /\ at' \in Address /\ stack' \in Seq(Word) /\ Len(stack') <= MaxStack
        /\ flagsAddr' \in 0..Len(stack')
    BY <1>1, <2>1, <2>6 DEF StackPart
  <2> QED BY <2>7, <2>8, <2>9 DEF StackPart
<1>9. CASE RomExit
  BY <1>1, <1>3, <1>9 DEF RomExit
<1>10. ASSUME NEW n \in Vectors, RomOther(n) PROVE StackPart'
  BY <1>1, <1>3, <1>10 DEF RomOther
<1> QED BY <1>4, <1>5, <1>6, <1>7, <1>8, <1>9, <1>10 DEF Rom

LEMMA GuestDataStep ==
  ASSUME DataPart, Guest
  PROVE  DataPart'
<1> USE ConstantsAssumption DEF DataPart
<1>1. ASSUME UNCHANGED <<ivt, regs, fatal, panicked, readEntry>> PROVE DataPart'
  BY <1>1 DEF regs
<1>2. ASSUME NEW n \in Vectors, GuestInt(n) \/ CallFar(n) \/ JmpFar(n) PROVE DataPart'
  BY <1>1, <1>2 DEF GuestInt, CallFar, JmpFar
<1>3. CASE GuestIret \/ Pushf \/ Popf
  BY <1>1, <1>3 DEF GuestIret, Pushf, Popf
<1>4. ASSUME NEW b \in BOOLEAN, SetInterruptFlag(b) PROVE DataPart'
  BY <1>1, <1>4 DEF SetInterruptFlag
<1>5. ASSUME NEW s \in Results, Arithmetic(s) PROVE DataPart'
  BY <1>1, <1>5 DEF Arithmetic
<1>6. ASSUME NEW r \in Requests, LoadRegisters(r) PROVE DataPart'
  <2>1. /\ r.ah \in Functions /\ r.al \in Nat /\ r.dsdx \in Address
        /\ r.ah \in {"GetVector", "SetVector"} => r.al \in Vectors
    BY DEF ConstantsAssumption, Request
  <2>2. ah' = r.ah /\ al' = r.al /\ dsdx' \in Address
    BY <1>6, <2>1 DEF LoadRegisters
  <2> QED BY <1>6, <2>1, <2>2 DEF LoadRegisters
<1>7. ASSUME NEW h \in Hooks, WriteIvt(h[1], h[2]) PROVE DataPart'
  <2>1. h[2] \in Nat
    BY DEF ConstantsAssumption
  <2>2. [ip |-> h[2], cs |-> GuestSeg] \in Entry
    BY <2>1 DEF Entry, ConstantsAssumption
  <2>3. ivt' \in [Vectors -> Entry]
    BY <1>7, <2>2 DEF WriteIvt
  <2> QED BY <1>7, <2>3 DEF WriteIvt, regs
<1> QED BY <1>2, <1>3, <1>4, <1>5, <1>6, <1>7 DEF Guest

LEMMA RomDataStep ==
  ASSUME DataPart, Rom
  PROVE  DataPart'
<1> USE DEF DataPart
<1>1. CASE RomCheckKey
  <2>1. PICK none \in BOOLEAN : /\ ah' = IF none THEN "NoKey" ELSE "Key"
                                /\ panicked' = TRUE \/ UNCHANGED panicked
    BY <1>1 DEF RomCheckKey
  <2>2. ah' \in {"NoKey", "Key"} /\ panicked' \in BOOLEAN
    BY <2>1
  <2> QED BY <1>1, <2>2 DEF RomCheckKey, Functions
<1>2. CASE RomFile
  <2>1. PICK error \in BOOLEAN : ah' = IF error THEN "Failed" ELSE "Done"
    BY <1>2 DEF RomFile
  <2>2. ah' \in {"Failed", "Done"}
    BY <2>1
  <2> QED BY <1>2, <2>2 DEF RomFile, Functions
<1>3. CASE RomGetVector
  <2>1. al \in Vectors
    BY <1>3 DEF RomGetVector
  <2>2. ReadVec(al) \in Address /\ ivt[al] \in Entry
    BY <2>1 DEF ReadVec, Address, Entry
  <2>3. readEntry' \in [Vectors -> Entry]
    BY <1>3, <2>2 DEF RomGetVector
  <2> QED BY <1>3, <2>2, <2>3 DEF RomGetVector
<1>4. CASE RomSetVector
  <2>1. [ip |-> dsdx.seg, cs |-> dsdx.off] \in Entry
    BY DEF Address, Entry
  <2>2. ivt' \in [Vectors -> Entry]
    BY <1>4, <2>1 DEF RomSetVector, WriteVec
  <2> QED BY <1>4, <2>2 DEF RomSetVector, regs
<1>5. CASE RomFlush
  BY <1>5 DEF RomFlush, regs
<1>6. CASE RomExit
  BY <1>6 DEF RomExit, regs
<1>7. ASSUME NEW n \in Vectors, RomOther(n) PROVE DataPart'
  BY <1>7 DEF RomOther, regs
<1> QED BY <1>1, <1>2, <1>3, <1>4, <1>5, <1>6, <1>7 DEF Rom

\* What every step does to the history of how the stub was entered.
LEMMA EntryStep ==
  ASSUME EntryPart, Next
  PROVE  EntryPart'
<1> USE DEF EntryPart
<1>1. ASSUME NEW s, NEW fl, Iret(s, fl) PROVE EntryPart'
  BY <1>1 DEF Iret
<1>2. ASSUME UNCHANGED entered PROVE EntryPart'
  BY <1>2
<1>3. CASE Guest
  <2>1. ASSUME NEW n \in Vectors, GuestInt(n) \/ CallFar(n) \/ JmpFar(n) PROVE EntryPart'
    BY <2>1 DEF GuestInt, ExecuteInterrupt, CallFar, JmpFar
  <2>2. CASE GuestIret
    BY <1>1, <2>2 DEF GuestIret
  <2>3. CASE \/ Pushf \/ Popf
             \/ \E b \in BOOLEAN : SetInterruptFlag(b)
             \/ \E s \in Results : Arithmetic(s)
             \/ \E r \in Requests : LoadRegisters(r)
             \/ \E h \in Hooks : WriteIvt(h[1], h[2])
    BY <1>2, <2>3 DEF Pushf, Popf, SetInterruptFlag, Arithmetic, LoadRegisters, WriteIvt
  <2> QED BY <1>3, <2>1, <2>2, <2>3 DEF Guest
<1>4. CASE Rom
  <2>1. CASE RomCheckKey
    <3>1. PICK none \in BOOLEAN : IF flagsAddr = 0 THEN UNCHANGED entered
                                  ELSE Iret(SetFlagZF(stack, none), flags)
      BY <2>1 DEF RomCheckKey
    <3> QED BY <1>1, <1>2, <3>1
  <2>2. CASE RomFile \/ RomGetVector \/ RomSetVector \/ RomExit \/ \E n \in Vectors : RomOther(n)
    BY <1>1, <2>2 DEF RomFile, RomGetVector, RomSetVector, RomExit, RomOther
  <2>3. CASE RomFlush
    BY <1>1, <2>3 DEF RomFlush
  <2> QED BY <1>4, <2>1, <2>2, <2>3 DEF Rom
<1> QED BY <1>3, <1>4 DEF Next

LEMMA StepInv == IInv /\ [Next]_vars => IInv'
<1> SUFFICES ASSUME IInv, [Next]_vars PROVE IInv'
  OBVIOUS
<1>1. DataPart /\ EntryPart
  BY Parts
<1>b. IInv' <=> StackPart' /\ DataPart' /\ EntryPart'
  BY DEF IInv, TypeOK, StackPart, DataPart, EntryPart
<1>c. Next => EntryPart'
  BY <1>1, EntryStep
<1>2. CASE Guest
  <2>1. StackPart' /\ DataPart' /\ EntryPart'
    BY <1>1, <1>2, <1>c, GuestStackStep, GuestDataStep DEF Next
  <2> QED BY <1>b, <2>1
<1>3. CASE Rom
  <2>1. StackPart' /\ DataPart' /\ EntryPart'
    BY <1>1, <1>3, <1>c, RomStackStep, RomDataStep DEF Next
  <2> QED BY <1>b, <2>1
<1>4. CASE UNCHANGED vars
  <2> USE <1>4 DEF vars
  <2>1. TypeOK'
    BY DEF IInv, TypeOK
  <2>2. FrameDiscipline'
    BY DEF IInv, FrameDiscipline, Frames, FrameOnTop
  <2>3. FlagsAddressLive'
    BY DEF IInv, FlagsAddressLive
  <2> QED BY <2>1, <2>2, <2>3 DEF IInv
<1> QED BY <1>2, <1>3, <1>4 DEF Next

\* Through every guest and ROM step the frames of the handlers that are active
\* stay whole, and flags_address, while it is set, points at the FLAGS of one.
THEOREM Invariance == Spec => []IInv
BY InitInv, StepInv, PTL DEF Spec

\* Every variable keeps its type in every reachable state.
THEOREM TypeCorrect == Spec => []TypeOK
BY Invariance, PTL DEF IInv

\* IRET in the ROM always pops a frame of the guest.
THEOREM FramesHold == Spec => []FrameDiscipline
BY Invariance, PTL DEF IInv

\* MMU::flags_address never outlives the FLAGS word it designates.
THEOREM AddressLive == Spec => []FlagsAddressLive
BY Invariance, PTL DEF IInv

-----------------------------------------------------------------------------
(* What a step may do to the words that stay on the stack. *)

\* A word changes only under flags_address, and then only in ZF.
Edited(i) ==
  stack'[i] = stack[i] \/ (i = flagsAddr /\ stack'[i].val \ {"ZF"} = stack[i].val \ {"ZF"})

LEMMA IretEdits ==
  ASSUME NEW s \in Seq(Word), FrameOnTop(s), NEW fl, Iret(s, fl),
         NEW i \in 1..Len(s), i <= Len(stack')
  PROVE  stack'[i] = s[i]
<1>1. Len(s) \in Nat /\ Len(s) - 2 \in 0..Len(s) /\ stack' = SubSeq(s, 1, Len(s) - 2)
  BY DEF FrameOnTop, Iret
<1>2. Len(stack') = Len(s) - 2 /\ \A j \in 1..Len(s) - 2 : stack'[j] = s[j]
  BY <1>1, PrefixKeeps
<1> QED BY <1>1, <1>2

LEMMA StackChange ==
  ASSUME IInv, Next, NEW i \in 1..Len(stack), i <= Len(stack')
  PROVE  Edited(i)
<1>1. StackPart /\ stack \in Seq(Word) /\ Len(stack) \in Nat /\ i \in Nat
  BY Parts DEF StackPart
<1>2. ASSUME UNCHANGED stack PROVE Edited(i)
  BY <1>2 DEF Edited
<1>3. ASSUME FrameOnTop(stack), NEW fl, Iret(stack, fl) PROVE Edited(i)
  BY <1>1, <1>3, IretEdits DEF Edited
<1>4. ASSUME NEW n, InRom(n) PROVE FrameOnTop(stack)
  BY <1>1, <1>4 DEF StackPart, FrameDiscipline, InRom, RomEntry
<1>5. CASE Guest
  <2>1. ASSUME NEW n \in Vectors, GuestInt(n) PROVE Edited(i)
    <3>1. stack' = PushFrame(stack, flags, at) /\ flags \in SUBSET Flags /\ at \in Address
      BY <1>1, <2>1 DEF GuestInt, ExecuteInterrupt, StackPart
    <3>2. \A j \in 1..Len(stack) : PushFrame(stack, flags, at)[j] = stack[j]
      BY <1>1, <3>1 DEF PushFrame
    <3> QED BY <3>1, <3>2 DEF Edited
  <2>2. ASSUME NEW w, stack' = Append(stack, w) PROVE Edited(i)
    BY <1>1, <2>2 DEF Edited
  <2>3. ASSUME NEW n \in Vectors, CallFar(n) PROVE Edited(i)
    BY <2>2, <2>3 DEF CallFar
  <2>4. CASE Pushf
    BY <2>2, <2>4 DEF Pushf
  <2>5. CASE Popf
    <3>1. Len(stack) - 1 \in 0..Len(stack) /\ stack' = SubSeq(stack, 1, Len(stack) - 1)
      BY <1>1, <2>5 DEF Popf
    <3>2. Len(stack') = Len(stack) - 1 /\ \A j \in 1..Len(stack) - 1 : stack'[j] = stack[j]
      BY <1>1, <3>1, PrefixKeeps
    <3> QED BY <1>1, <3>2 DEF Edited
  <2>6. CASE GuestIret
    BY <1>3, <2>6 DEF GuestIret
  <2>7. ASSUME NEW n \in Vectors, JmpFar(n) PROVE Edited(i)
    BY <1>2, <2>7 DEF JmpFar
  <2>8. ASSUME \/ \E b \in BOOLEAN : SetInterruptFlag(b)
               \/ \E s \in Results : Arithmetic(s)
               \/ \E r \in Requests : LoadRegisters(r)
               \/ \E h \in Hooks : WriteIvt(h[1], h[2])
        PROVE  Edited(i)
    BY <1>2, <2>8 DEF SetInterruptFlag, Arithmetic, LoadRegisters, WriteIvt
  <2> QED BY <1>5, <2>1, <2>3, <2>4, <2>5, <2>6, <2>7, <2>8 DEF Guest
<1>6. CASE Rom
  <2>1. CASE RomCheckKey
    <3>1. PICK none \in BOOLEAN :
            IF flagsAddr = 0 THEN UNCHANGED stack ELSE Iret(SetFlagZF(stack, none), flags)
      BY <2>1 DEF RomCheckKey
    <3>2. CASE flagsAddr # 0
      <4> DEFINE t == SetFlagZF(stack, none)
      <4>1. t \in Seq(Word) /\ Len(t) = Len(stack)
        BY <3>2, SetFlagZFKeeps DEF IInv
      <4>2. /\ \A j \in 1..Len(stack) : j # flagsAddr => t[j] = stack[j]
            /\ t[flagsAddr].val = IF none THEN stack[flagsAddr].val \cup {"ZF"}
                                          ELSE stack[flagsAddr].val \ {"ZF"}
        BY <3>2, SetFlagZFKeeps DEF IInv
      <4>3. FrameOnTop(t) /\ Iret(t, flags)
        BY <1>4, <2>1, <3>1, <3>2, SetFlagZFFrames DEF RomCheckKey
      <4> HIDE DEF t
      <4>4. stack'[i] = t[i]
        BY <4>1, <4>3, IretEdits
      <4>5. i = flagsAddr => t[i].val \ {"ZF"} = stack[i].val \ {"ZF"}
        BY <4>2
      <4> QED BY <4>2, <4>4, <4>5 DEF Edited
    <3> QED BY <1>2, <3>1, <3>2
  <2>2. CASE RomFile
    BY <1>3, <1>4, <2>2 DEF RomFile
  <2>3. CASE RomGetVector \/ RomSetVector \/ RomExit \/ \E n \in Vectors : RomOther(n)
    BY <1>3, <1>4, <2>3 DEF RomGetVector, RomSetVector, RomExit, RomOther
  <2>4. CASE RomFlush
    <3> DEFINE t == PushFrame(stack, flags, at)
    <3>1. flags \in SUBSET Flags /\ at \in Address /\ Frames(stack)
      BY <1>1 DEF StackPart, FrameDiscipline
    <3>2. t \in Seq(Word) /\ Len(t) = Len(stack) + 2 /\ FrameOnTop(t)
      BY <1>1, <3>1, PushFrameIs, PushFrameFrames
    <3>3. \A j \in 1..Len(stack) : t[j] = stack[j]
      BY <1>1, <3>1 DEF PushFrame
    <3>4. Iret(t, flags \ {"IF"})
      BY <2>4 DEF RomFlush
    <3> HIDE DEF t
    <3>5. stack'[i] = t[i]
      BY <1>1, <3>2, <3>4, IretEdits
    <3> QED BY <3>3, <3>5 DEF Edited
  <2> QED BY <1>6, <2>1, <2>2, <2>3, <2>4 DEF Rom
<1> QED BY <1>5, <1>6 DEF Next

\* No step redirects a call in progress.
THEOREM ReturnsIntact == Spec => ReturnAddressesIntact
<1> DEFINE A == \A i \in 1..Len(stack) :
                  i <= Len(stack') /\ stack[i].kind = "ret" => stack'[i] = stack[i]
<1>1. IInv /\ [Next]_vars => [A]_vars
  <2> SUFFICES ASSUME IInv, Next, NEW i \in 1..Len(stack), i <= Len(stack'),
                      stack[i].kind = "ret"
               PROVE  stack'[i] = stack[i]
    OBVIOUS
  <2>1. Edited(i)
    BY StackChange
  <2>2. i # flagsAddr
    BY DEF IInv, TypeOK, FlagsAddressLive
  <2> QED BY <2>1, <2>2 DEF Edited
<1> QED BY <1>1, Invariance, PTL DEF Spec, ReturnAddressesIntact

\* The FLAGS of the interrupted callers change in ZF alone.
THEOREM SavedFlags == Spec => SavedFlagsKept
<1> DEFINE A == \A i \in 1..Len(stack) :
                  i <= Len(stack') /\ stack[i].kind = "flags" /\ stack'[i] # stack[i]
                    => /\ i = flagsAddr
                       /\ stack'[i].val \ {"ZF"} = stack[i].val \ {"ZF"}
<1>1. IInv /\ [Next]_vars => [A]_vars
  <2> SUFFICES ASSUME IInv, Next, NEW i \in 1..Len(stack), i <= Len(stack'),
                      stack'[i] # stack[i]
               PROVE  /\ i = flagsAddr
                      /\ stack'[i].val \ {"ZF"} = stack[i].val \ {"ZF"}
    OBVIOUS
  <2>1. Edited(i)
    BY StackChange
  <2> QED BY <2>1 DEF Edited
<1> QED BY <1>1, Invariance, PTL DEF Spec, SavedFlagsKept

-----------------------------------------------------------------------------
(* Whom the answer of INT 16h, AH=01h reaches.                             *)

\* While flags_address is set, the frame it belongs to is the innermost one,
\* but for the one of a CALL FAR from a handler into the stub that runs now.
InnermostIsNoted ==
  flagsAddr # 0 =>
    \A i \in 1..Len(stack) :
      i > flagsAddr + 1 /\ stack[i].kind = "ret" => i = Len(stack) /\ entered = "call"

\* How the stub was entered, and what that says of flags_address.
EntryNoted ==
  /\ at.seg # RomSeg => entered = "no"
  /\ at.seg = RomSeg => entered # "no"
  /\ at = RomEntry(KEYBOARD) /\ entered = "int" => flagsAddr # 0
  /\ entered = "call" /\ flagsAddr # 0 => flagsAddr + 1 < Len(stack)

Entries == InnermostIsNoted /\ EntryNoted

\* IRET to a guest address ends the stub and Unsets flags_address.
LEMMA IretEntries ==
  ASSUME NEW s, NEW fl, Iret(s, fl), at'.seg # RomSeg
  PROVE  Entries'
<1>1. flagsAddr' = 0 /\ entered' = "no"
  BY DEF Iret
<1>2. at' # RomEntry(KEYBOARD)
  BY DEF RomEntry
<1> QED BY <1>1, <1>2 DEF Entries, InnermostIsNoted, EntryNoted

\* The address on top of a stack with frames is one of the guest.
LEMMA TopIsGuest ==
  ASSUME ConstantsAssumption, NEW s \in Seq(Word), Frames(s), FrameOnTop(s), NEW fl, Iret(s, fl)
  PROVE  at'.seg # RomSeg
<1>1. s[Len(s)].at \in GuestAddress
  BY DEF Frames, FrameOnTop
<1> QED BY <1>1 DEF Iret, GuestAddress, ConstantsAssumption

LEMMA GuestEntries ==
  ASSUME IInv, Entries, Guest
  PROVE  Entries'
<1> USE ConstantsAssumption
<1>1. /\ stack \in Seq(Word) /\ Len(stack) \in Nat /\ flagsAddr \in 0..Len(stack)
      /\ FlagsAddressLive /\ Frames(stack) /\ ivt \in [Vectors -> Entry]
  BY DEF IInv, TypeOK, FrameDiscipline
<1>2. at \in GuestAddress
  BY DEF Guest, GuestInt, CallFar, JmpFar, GuestIret, Pushf, Popf, SetInterruptFlag, Arithmetic,
     LoadRegisters, WriteIvt, GuestRuns
<1>3. at.seg # RomSeg
  BY <1>2 DEF GuestAddress, ConstantsAssumption
<1>4. entered = "no"
  BY <1>3 DEF Entries, EntryNoted
<1>5. ASSUME flagsAddr # 0, NEW i \in 1..Len(stack), i > flagsAddr + 1
      PROVE  stack[i].kind # "ret"
  BY <1>4, <1>5 DEF Entries, InnermostIsNoted
<1>6. ASSUME NEW n \in Vectors, GuestInt(n) PROVE Entries'
  <2>1. /\ stack' = PushFrame(stack, flags, at) /\ flagsAddr' = Len(stack) + 1
        /\ at' = [seg |-> ivt[n].cs, off |-> ivt[n].ip]
        /\ entered' = IF ivt[n].cs = RomSeg THEN "int" ELSE "no"
        /\ flags \in SUBSET Flags /\ at \in Address
    BY <1>6 DEF GuestInt, ExecuteInterrupt, FrameFlags, IInv, TypeOK
  <2>2. Len(stack') = Len(stack) + 2
    BY <1>1, <2>1, PushFrameIs
  <2>3. InnermostIsNoted'
    BY <1>1, <2>1, <2>2 DEF InnermostIsNoted
  <2>4. EntryNoted'
    BY <1>1, <2>1, <2>2 DEF EntryNoted, RomEntry
  <2> QED BY <2>3, <2>4 DEF Entries
<1>7. ASSUME NEW n \in Vectors, CallFar(n) PROVE Entries'
  <2> DEFINE w == [kind |-> "ret", at |-> at]
  <2>1. /\ stack' = Append(stack, w) /\ UNCHANGED flagsAddr
        /\ at' = RomEntry(n) /\ entered' = "call"
    BY <1>7 DEF CallFar
  <2> HIDE DEF w
  <2>2. /\ Len(stack') = Len(stack) + 1
        /\ \A i \in 1..Len(stack) : stack'[i] = stack[i]
    BY <1>1, <2>1
  <2>3. InnermostIsNoted'
    BY <1>1, <1>5, <2>1, <2>2 DEF InnermostIsNoted
  <2>4. EntryNoted'
    BY <1>1, <2>1, <2>2 DEF EntryNoted, RomEntry, FlagsAddressLive
  <2> QED BY <2>3, <2>4 DEF Entries
<1>8. ASSUME NEW n \in Vectors, JmpFar(n) PROVE Entries'
  <2>1. UNCHANGED <<stack, flagsAddr>> /\ at' = RomEntry(n) /\ entered' = "jump"
    BY <1>8 DEF JmpFar
  <2>2. InnermostIsNoted'
    BY <1>1, <1>5, <2>1 DEF InnermostIsNoted
  <2>3. EntryNoted'
    BY <2>1 DEF EntryNoted, RomEntry
  <2> QED BY <2>2, <2>3 DEF Entries
<1>9. CASE GuestIret
  <2>1. FrameOnTop(stack) /\ Iret(stack, flags)
    BY <1>9 DEF GuestIret
  <2> QED BY <1>1, <2>1, TopIsGuest, IretEntries
<1>10. CASE Pushf
  <2> DEFINE w == [kind |-> "flags", val |-> flags]
  <2>1. stack' = Append(stack, w) /\ UNCHANGED <<at, flagsAddr, entered>> /\ w.kind = "flags"
    BY <1>10 DEF Pushf
  <2> HIDE DEF w
  <2>2. /\ Len(stack') = Len(stack) + 1 /\ stack'[Len(stack) + 1] = w
        /\ \A i \in 1..Len(stack) : stack'[i] = stack[i]
    <3>1. w \in Word
      BY DEF w, Word, FlagsWord, IInv, TypeOK
    <3> QED BY <1>1, <2>1, <3>1
  <2>3. InnermostIsNoted'
    <3> SUFFICES ASSUME flagsAddr # 0, NEW i \in 1..Len(stack'), i > flagsAddr + 1
                 PROVE  stack'[i].kind # "ret"
      BY <2>1 DEF InnermostIsNoted
    <3> QED BY <1>1, <1>5, <2>1, <2>2
  <2>4. EntryNoted'
    BY <1>3, <1>4, <2>1 DEF EntryNoted, RomEntry
  <2> QED BY <2>3, <2>4 DEF Entries
<1>11. CASE Popf
  <2>1. /\ Len(stack) > 0 /\ stack' = SubSeq(stack, 1, Len(stack) - 1)
        /\ UNCHANGED <<at, flagsAddr, entered>>
    BY <1>11 DEF Popf
  <2>2. Len(stack) - 1 \in 0..Len(stack)
    BY <1>1, <2>1
  <2>3. /\ Len(stack') = Len(stack) - 1
        /\ \A i \in 1..Len(stack) - 1 : stack'[i] = stack[i]
    BY <1>1, <2>1, <2>2, PrefixKeeps
  <2>4. InnermostIsNoted'
    <3> SUFFICES ASSUME flagsAddr # 0, NEW i \in 1..Len(stack'), i > flagsAddr + 1
                 PROVE  stack'[i].kind # "ret"
      BY <2>1 DEF InnermostIsNoted
    <3> QED BY <1>1, <1>5, <2>3
  <2>5. EntryNoted'
    BY <1>3, <1>4, <2>1 DEF EntryNoted, RomEntry
  <2> QED BY <2>4, <2>5 DEF Entries
<1>12. ASSUME \/ \E b \in BOOLEAN : SetInterruptFlag(b)
              \/ \E s \in Results : Arithmetic(s)
              \/ \E r \in Requests : LoadRegisters(r)
              \/ \E h \in Hooks : WriteIvt(h[1], h[2])
       PROVE  Entries'
  <2>1. UNCHANGED <<at, stack, flagsAddr, entered>>
    BY <1>12 DEF SetInterruptFlag, Arithmetic, LoadRegisters, WriteIvt
  <2> QED BY <2>1 DEF Entries, InnermostIsNoted, EntryNoted
<1> QED BY <1>6, <1>7, <1>8, <1>9, <1>10, <1>11, <1>12 DEF Guest

LEMMA RomEntries ==
  ASSUME IInv, Entries, Rom
  PROVE  Entries'
<1>1. stack \in Seq(Word) /\ Frames(stack) /\ Len(stack) \in Nat
  BY DEF IInv, TypeOK, FrameDiscipline
<1>2. ASSUME NEW n, InRom(n) PROVE FrameOnTop(stack)
  BY <1>2 DEF IInv, FrameDiscipline, InRom, RomEntry
<1>3. ASSUME NEW n, InRom(n), NEW fl, Iret(stack, fl) PROVE Entries'
  BY <1>1, <1>2, <1>3, TopIsGuest, IretEntries, ConstantsAssumption
<1>4. CASE RomCheckKey
  <2>1. PICK none \in BOOLEAN :
        IF flagsAddr = 0
        THEN UNCHANGED <<at, flags, stack, flagsAddr, entered>>
        ELSE Iret(SetFlagZF(stack, none), flags)
    BY <1>4 DEF RomCheckKey
  <2>2. CASE flagsAddr = 0
    BY <2>1, <2>2 DEF Entries, InnermostIsNoted, EntryNoted
  <2>3. CASE flagsAddr # 0
    <3> DEFINE t == SetFlagZF(stack, none)
    <3>1. t \in Seq(Word)
      BY <2>3, SetFlagZFKeeps DEF IInv
    <3>2. Frames(t) /\ FrameOnTop(t)
      BY <1>2, <1>4, <2>3, SetFlagZFFrames DEF RomCheckKey
    <3>3. Iret(t, flags)
      BY <2>1, <2>3
    <3> HIDE DEF t
    <3> QED BY <3>1, <3>2, <3>3, TopIsGuest, IretEntries, ConstantsAssumption
  <2> QED BY <2>2, <2>3
<1>5. CASE RomFile
  BY <1>3, <1>5 DEF RomFile
<1>6. CASE RomGetVector \/ RomSetVector \/ RomExit \/ \E n \in Vectors : RomOther(n)
  BY <1>3, <1>6 DEF RomGetVector, RomSetVector, RomExit, RomOther
<1>7. CASE RomFlush
  <2> DEFINE t == PushFrame(stack, flags, at)
  <2>0. flags \in SUBSET Flags /\ at \in Address
    BY Parts DEF StackPart
  <2>1. /\ t[Len(stack) + 2] = [kind |-> "ret", at |-> at]
        /\ t[Len(stack) + 1] = [kind |-> "flags", val |-> flags]
        /\ Len(t) = Len(stack) + 2 /\ t \in Seq(Word)
    BY <1>1, <2>0, PushFrameIs
  <2>2. Iret(t, flags \ {"IF"}) /\ at = RomEntry(DOS)
    BY <1>7 DEF RomFlush, InRom
  <2> HIDE DEF t
  <2>3. at' = at /\ flagsAddr' = 0 /\ entered' = entered
    BY <2>1, <2>2 DEF Iret, RomEntry
  <2>4. at' # RomEntry(KEYBOARD)
    BY <2>2, <2>3 DEF RomEntry, DOS, KEYBOARD
  <2> QED BY <2>3, <2>4 DEF Entries, InnermostIsNoted, EntryNoted
<1> QED BY <1>4, <1>5, <1>6, <1>7 DEF Rom

LEMMA EntriesHold == Spec => []Entries
<1>1. Init => Entries
  BY ConstantsAssumption DEF Init, Entries, InnermostIsNoted, EntryNoted, RomEntry,
     ConstantsAssumption
<1>2. IInv /\ Entries /\ [Next]_vars => Entries'
  <2> SUFFICES ASSUME IInv, Entries, [Next]_vars PROVE Entries'
    OBVIOUS
  <2>1. CASE UNCHANGED vars
    BY <2>1 DEF vars, Entries, InnermostIsNoted, EntryNoted
  <2> QED BY <2>1, GuestEntries, RomEntries DEF Next
<1> QED BY <1>1, <1>2, Invariance, PTL DEF Spec

\* INT 16h, AH=01h tells in ZF what it tells in AH: whoever came by INT or
\* JMP FAR finds it in the flags, and for a CALL FAR of a handler it is in the
\* FLAGS word of the interrupt the handler serves.  An INT never panics.
THEOREM ZFReaches == Spec => ZFReachesCaller
<1> DEFINE A == InRom(KEYBOARD) /\ ah = "CheckKey" =>
                  /\ entered = "int" => ~panicked'
                  /\ entered # "call" /\ ~panicked' => (ah' = "NoKey" <=> "ZF" \in flags')
                  /\ entered = "call" /\ ~panicked' =>
                       \E i \in 1..Len(stack') :
                         /\ InnermostFlags(stack', i)
                         /\ ah' = "NoKey" <=> "ZF" \in stack'[i].val
<1>1. IInv /\ Entries /\ [Next]_vars => [A]_vars
  <2> SUFFICES ASSUME IInv, Entries, Next, InRom(KEYBOARD), ah = "CheckKey"
               PROVE  A
    OBVIOUS
  <2>1. FrameOnTop(stack) /\ at = RomEntry(KEYBOARD)
    BY DEF IInv, FrameDiscipline, InRom, RomEntry
  <2>2. RomCheckKey
    <3>1. ~Guest
      BY ConstantsAssumption DEF InRom, RomEntry, Guest, GuestInt, CallFar, JmpFar, GuestIret,
        Pushf, Popf, SetInterruptFlag, Arithmetic, LoadRegisters, WriteIvt, GuestRuns,
        GuestAddress, ConstantsAssumption
    <3>2. ~(RomFile \/ RomGetVector \/ RomSetVector \/ RomFlush \/ RomExit)
      BY DEF RomFile, RomGetVector, RomSetVector, RomFlush, RomExit
    <3>3. ASSUME NEW n \in Vectors PROVE ~RomOther(n)
      BY DEF RomOther, InRom, RomEntry
    <3> QED BY <3>1, <3>2, <3>3 DEF Next, Rom
  <2>3. PICK none \in BOOLEAN :
          /\ ah' = IF none THEN "NoKey" ELSE "Key"
          /\ IF flagsAddr = 0 THEN panicked' = TRUE
             ELSE Iret(SetFlagZF(stack, none), flags) /\ UNCHANGED panicked
    BY <2>2 DEF RomCheckKey
  <2>4. CASE flagsAddr = 0
    BY <2>1, <2>3, <2>4 DEF Entries, EntryNoted
  <2>5. CASE flagsAddr # 0
    <3> DEFINE t == SetFlagZF(stack, none)
    <3>1. /\ stack \in Seq(Word) /\ Len(stack) \in Nat /\ flagsAddr \in 1..Len(stack)
          /\ flagsAddr < Len(stack) /\ stack[flagsAddr + 1].kind = "ret"
      BY <2>5 DEF IInv, TypeOK, FlagsAddressLive
    <3>2. /\ Len(t) = Len(stack) /\ t \in Seq(Word)
          /\ \A i \in 1..Len(stack) : i # flagsAddr => t[i] = stack[i]
          /\ t[flagsAddr].val = IF none THEN stack[flagsAddr].val \cup {"ZF"}
                                        ELSE stack[flagsAddr].val \ {"ZF"}
      BY <2>5, SetFlagZFKeeps DEF IInv
    <3>3. Iret(t, flags) /\ ~panicked'
      BY <2>3, <2>5 DEF InRom
    <3> HIDE DEF t
    <3>4. flags' = LoadFlags(flags, t[Len(t) - 1].val) /\ stack' = SubSeq(t, 1, Len(t) - 2)
      BY <3>3 DEF Iret
    <3>5. ah' = "NoKey" <=> none
      BY <2>3
    <3>6. t[flagsAddr].val = IF none THEN stack[flagsAddr].val \cup {"ZF"}
                                     ELSE stack[flagsAddr].val \ {"ZF"}
      BY <3>2
    <3>7. "ZF" \in t[flagsAddr].val <=> none
      BY <3>6
    <3>8. CASE entered # "call"
      <4>1. Len(stack) \in 1..Len(stack) /\ stack[Len(stack)].kind = "ret"
        BY <2>1, <3>1 DEF FrameOnTop
      <4>2. flagsAddr = Len(t) - 1
        BY <2>5, <3>1, <3>2, <3>8, <4>1 DEF Entries, InnermostIsNoted
      <4>3. "ZF" \in flags' <=> none
        BY <3>4, <3>7, <4>2 DEF LoadFlags
      <4> QED BY <3>3, <3>5, <3>8, <4>3
    <3>9. CASE entered = "call"
      <4>1. /\ flagsAddr + 1 < Len(stack)
            /\ stack[Len(stack) - 1].kind = "flags"
        BY <2>1, <2>5, <3>9 DEF Entries, EntryNoted, FrameOnTop
      <4>2. flagsAddr + 1 # Len(stack) - 1
        BY <3>1, <4>1
      <4>3. flagsAddr \in 1..Len(stack) - 3 /\ Len(t) - 2 \in 0..Len(t)
        BY <3>1, <3>2, <4>1, <4>2
      <4>4. /\ Len(stack') = Len(stack) - 2
            /\ \A i \in 1..Len(stack) - 2 : stack'[i] = t[i]
        BY <3>2, <3>4, <4>3, PrefixKeeps
      <4>5. stack'[flagsAddr] = t[flagsAddr] /\ stack'[flagsAddr + 1].kind = "ret"
        BY <3>1, <3>2, <4>3, <4>4
      <4>6. ASSUME NEW j \in flagsAddr + 2..Len(stack') PROVE stack'[j].kind # "ret"
        <5>1. j \in 1..Len(stack) - 2 /\ j > flagsAddr + 1 /\ j # flagsAddr
          BY <3>1, <4>3, <4>4
        <5>2. stack'[j] = stack[j] /\ j \in 1..Len(stack) /\ j # Len(stack)
          BY <3>1, <3>2, <4>4, <5>1
        <5> QED BY <2>5, <5>1, <5>2 DEF Entries, InnermostIsNoted
      <4>7. flagsAddr \in 1..Len(stack') /\ InnermostFlags(stack', flagsAddr)
        BY <3>1, <4>3, <4>4, <4>5, <4>6 DEF InnermostFlags
      <4>8. ah' = "NoKey" <=> "ZF" \in stack'[flagsAddr].val
        BY <3>5, <3>7, <4>5
      <4> QED BY <3>9, <4>7, <4>8
    <3> QED BY <3>8, <3>9
  <2> QED BY <2>4, <2>5
<1> QED BY <1>1, Invariance, EntriesHold, PTL DEF Spec, ZFReachesCaller

\* Function 25h undoes what function 35h read.
THEOREM VectorsRestored == Spec => RestoreRestores
<1> DEFINE A == InRom(DOS) /\ ah = "SetVector" /\ al \in Vectors
                  /\ dsdx = [seg |-> readEntry[al].ip, off |-> readEntry[al].cs]
                  => ivt'[al] = readEntry[al]
<1>1. IInv /\ [Next]_vars => [A]_vars
  <2> SUFFICES ASSUME IInv, Next, InRom(DOS), ah = "SetVector", al \in Vectors,
                      dsdx = [seg |-> readEntry[al].ip, off |-> readEntry[al].cs]
               PROVE  ivt'[al] = readEntry[al]
    OBVIOUS
  <2>1. RomSetVector
    <3>1. ~Guest
      BY ConstantsAssumption DEF InRom, RomEntry, Guest, GuestInt, CallFar, JmpFar, GuestIret,
        Pushf, Popf, SetInterruptFlag, Arithmetic, LoadRegisters, WriteIvt, GuestRuns,
        GuestAddress, ConstantsAssumption
    <3>2. ~(RomCheckKey \/ RomFile \/ RomGetVector \/ RomFlush \/ RomExit)
      BY DEF RomCheckKey, RomFile, RomGetVector, RomFlush, RomExit
    <3>3. ASSUME NEW n \in Vectors PROVE ~RomOther(n)
      BY DEF RomOther, InRom, RomEntry, Functions
    <3> QED BY <3>1, <3>2, <3>3 DEF Next, Rom
  <2>2. readEntry[al] \in Entry /\ ivt \in [Vectors -> Entry]
    BY DEF IInv, TypeOK
  <2>3. ivt'[al] = [ip |-> dsdx.seg, cs |-> dsdx.off]
    BY <2>1, <2>2 DEF RomSetVector, WriteVec
  <2> QED BY <2>2, <2>3 DEF Entry
<1> QED BY <1>1, Invariance, PTL DEF Spec, RestoreRestores
=============================================================================
