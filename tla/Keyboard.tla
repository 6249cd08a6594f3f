------------------------------ MODULE Keyboard ------------------------------
(***************************************************************************)
(* The PS/2 keyboard: the queue of key presses that the event loop of the  *)
(* front end fills between two frames, the BIOS calls of INT 16h and the   *)
(* ports 60h and 64h through which a guest program reads it.               *)
(***************************************************************************)
EXTENDS Naturals, Sequences, SequencesExt

CONSTANTS
  Keycodes,    (* the keys of the host's keyboard                          *)
  Modifiers,   (* the combinations of modifiers held down with them        *)
  Normal,      (* Keypress::to_std_normal: per keycode, a code; 0 for (0,0) *)
  Shifted,     (* Keypress::to_std_shift, likewise                         *)
  MaxPresses   (* bound: key presses in a run                              *)

ShiftKeys == {"LGui", "LShift", "RShift"}
ShiftMods == {"LSHIFTMOD", "RSHIFTMOD"}
DeadMods == {"LCTRLMOD", "RCTRLMOD", "LALTMOD", "RALTMOD"}

ASSUME KeyboardAssumption ==
  /\ Normal \in [Keycodes -> 0..127]
  /\ Shifted \in [Keycodes -> 0..127]
  /\ MaxPresses \in Nat

Keypress == [keycode : Keycodes, modifier : Modifiers]
NoKeypress == [keycode |-> "none", modifier |-> "none"]
Codes == {0} \cup {Normal[c] : c \in Keycodes} \cup {Shifted[c] : c \in Keycodes}
Stale == 255   \* no code

VARIABLES
  keypresses,  (* Keyboard::keypresses, oldest first                       *)
  obf,         (* StatusRegister::output_buffer_status                     *)
  ah,          (* the scan code the last INT 16h call left in AH           *)
  zf,          (* ZF as the last INT 16h call left it                      *)
  inb,         (* what the last IN from a keyboard port read               *)
  presses,     (* history: number of key presses so far                    *)
  told,        (* history: per code, how often the guest was given it      *)
  peeked       (* history: the code of the last CheckKey if nothing was
                  pressed or read since, else Stale                      *)

keyVars == <<keypresses, obf, ah, zf, inb, presses, told, peeked>>

-----------------------------------------------------------------------------
(* The queue. *)

\* map_sdl_to_dos_standard_codes: one shift, control or alt key exactly picks
\* a table, and those of control and alt are empty; any other combination of
\* modifiers is as good as none.
Code(k) ==
  IF k.keycode \in ShiftKeys THEN 0
  ELSE IF k.modifier \in ShiftMods THEN Shifted[k.keycode]
  ELSE IF k.modifier \in DeadMods THEN 0
  ELSE Normal[k.keycode]

\* peek_keypress: the newest one.
PeekKeypress(q) == IF q = << >> THEN NoKeypress ELSE Last(q)

\* peek_dos_standard_scancode_and_ascii: (0, 0) if there is nothing.
PeekCode(q) == IF q = << >> THEN 0 ELSE Code(PeekKeypress(q))

\* Fault: consume drops the oldest entry.
Consume_Oldest(q, k) == IF q = << >> THEN q ELSE Tail(q)

\* consume: the oldest keypress that is equal to k goes, if there is one.
Consume(q, k) == RemoveFirst(q, k)

\* consume_dos_standard_scancode_and_ascii, and IN AL, 60h.
ConsumePeeked ==
  /\ keypresses' = Consume(keypresses, PeekKeypress(keypresses))
  /\ told' = IF keypresses = << >> THEN told
             ELSE [told EXCEPT ![PeekCode(keypresses)] = @ + 1]

\* StatusRegister::as_u8: the system bit and bit 4 are always set.
StatusByte == 20 + (IF obf THEN 1 ELSE 0)

-----------------------------------------------------------------------------
(* The host and the guest. *)

\* The event loop: Keyboard::add_keypress.
AddKeypress(k) ==
  /\ presses < MaxPresses
  /\ presses' = presses + 1
  /\ keypresses' = Append(keypresses, k)
  /\ obf' = TRUE
  /\ peeked' = Stale
  /\ UNCHANGED <<ah, zf, inb, told>>

\* INT 16h, AH=00h.
ReadKey ==
  /\ ah' = PeekCode(keypresses)
  /\ ConsumePeeked
  /\ peeked' = Stale
  /\ UNCHANGED <<obf, zf, inb, presses>>

\* Fault: the check looks at the oldest entry.
CheckKey_Oldest ==
  LET c == IF keypresses = << >> THEN 0 ELSE Code(Head(keypresses)) IN
  /\ ah' = c
  /\ zf' = (c = 0)
  /\ peeked' = c
  /\ UNCHANGED <<keypresses, obf, inb, presses, told>>

\* Fault: ZF the other way round.
CheckKey_ZFInverted ==
  /\ ah' = PeekCode(keypresses)
  /\ zf' = (PeekCode(keypresses) # 0)
  /\ peeked' = PeekCode(keypresses)
  /\ UNCHANGED <<keypresses, obf, inb, presses, told>>

\* INT 16h, AH=01h.
CheckKey ==
  /\ ah' = PeekCode(keypresses)
  /\ zf' = (PeekCode(keypresses) = 0)
  /\ peeked' = PeekCode(keypresses)
  /\ UNCHANGED <<keypresses, obf, inb, presses, told>>

\* INT 16h, AH=11h: always says that there is no key.
CheckEnhanced ==
  /\ zf' = TRUE
  /\ UNCHANGED <<keypresses, obf, ah, inb, presses, told, peeked>>

\* INT 16h, AH=05h stores nothing, and AH=92h answers 80h in AH.
OtherFunction ==
  /\ ah' \in {ah, 128}
  /\ UNCHANGED <<keypresses, obf, zf, inb, presses, told, peeked>>

\* Fault: reading the data port always clears output_buffer_status.
InData_ClearsStatus ==
  /\ inb' = PeekCode(keypresses)
  /\ ConsumePeeked
  /\ obf' = FALSE
  /\ peeked' = Stale
  /\ UNCHANGED <<ah, zf, presses>>

\* IN AL, 60h.
InData ==
  /\ inb' = PeekCode(keypresses)
  /\ ConsumePeeked
  /\ peeked' = Stale
  /\ UNCHANGED <<obf, ah, zf, presses>>

\* IN AL, 64h.
InStatus ==
  /\ inb' = StatusByte
  /\ UNCHANGED <<keypresses, obf, ah, zf, presses, told, peeked>>

\* IN AL, 61h always reads 0; OUT 61h does nothing.
InPortB ==
  /\ inb' = 0
  /\ UNCHANGED <<keypresses, obf, ah, zf, presses, told, peeked>>

KeyInit ==
  /\ keypresses = << >>
  /\ obf = FALSE
  /\ ah = 0 /\ zf = FALSE /\ inb = 0
  /\ presses = 0
  /\ told = [c \in Codes |-> 0]
  /\ peeked = Stale

Guest ==
  ReadKey \/ CheckKey \/ CheckEnhanced \/ OtherFunction \/ InData \/ InStatus \/ InPortB

KeyNext == Guest \/ \E k \in Keypress : AddKeypress(k)

KeySpec == KeyInit /\ [][KeyNext]_keyVars

\* The loop of a program that waits for a key: it calls AH=01h again and
\* again, and AH=00h when ZF is clear.
PolledRead == ~zf /\ peeked # Stale /\ ReadKey
PollingSpec == KeySpec /\ WF_keyVars(CheckKey) /\ SF_keyVars(PolledRead)

-----------------------------------------------------------------------------
(* Properties. *)

Count(k) == Cardinality({i \in DOMAIN keypresses : keypresses[i] = k})

Bag == INSTANCE KeyBag WITH Keys <- Keypress, pending <- [k \in Keypress |-> Count(k)]

\* Whatever the order of presses, polls and reads through INT 16h and port
\* 60h, each press is reported exactly once and with the code of its own key,
\* although the code is taken from the newest entry of the queue and the entry
\* removed is the oldest one equal to it.
ReportsOnce == Bag!Spec

\* A program that reads port 60h only while bit 0 of port 64h is set leaves no
\* key press behind.
StatusCoversQueue == keypresses # << >> => StatusByte % 2 = 1

\* AH=00h right after AH=01h, with no press or read in between, takes the very
\* key that AH=01h showed.
ReadReturnsPeeked ==
  [][ReadKey /\ peeked # Stale => ah' = peeked]_keyVars

\* A program that polls with AH=01h and reads with AH=00h gets every key, as
\* long as no key without a code is pressed.
PollerDrains ==
  (\A i \in DOMAIN keypresses : Code(keypresses[i]) # 0)
    ~> (keypresses = << >> \/ \E i \in DOMAIN keypresses : Code(keypresses[i]) = 0)
=============================================================================
