# TLA+ models of rs-x86emu (dustbox)

`dustbox` emulates a 16-bit PC: a CPU that interprets instructions, memory, a
few devices, and BIOS and DOS services that are written in Rust and reached
through the interrupt vectors. One thread runs everything; what makes it hard
is that two programs are interleaved in it: the guest, whose instructions come
in any order, and the emulator, which runs its handlers between them, and that
the host adds events (key presses, files, debugger commands) at any point.

This directory holds models of its parts, the TLC runs that check them, and
TLAPS proofs. Paths of the code below are relative to `src/dustbox/src/`.

## 1. Inventory

| Part | State | Operations | Talks to | What must be right |
|---|---|---|---|---|
| CPU (`cpu/mod.rs`, `cpu/flag.rs`, `machine.rs` execute) | registers, FLAGS, `fatal_error`, cycle counters, `deterministic` | one arm of `Machine::execute` per instruction | memory, ports, interrupts | results and flags of each instruction, and of instructions in sequence: carry between words, jumps after comparisons, repeats |
| Interrupts (`cpu/mod.rs` execute_interrupt, `memory/mmu.rs`, `bios.rs`) | vectors at 0000:0000, the stack, `MMU::flags_address` | INT, IRET, far calls and jumps, PUSHF, POPF, `read_vec`, `write_vec`, `set_flag` | every handler | frames nest, what a handler reports reaches the one who asked, hooks can be undone |
| Machine loop (`machine.rs` 370-570) | component list, `trace_count` | `execute_frame`, `execute_instruction`, `handle_interrupt`, ports, `hard_reset` | everything | handlers run once per interrupt, timers and scan lines advance |
| Keyboard (`keyboard.rs`) | queue of presses, status register | ports 60h/61h/64h, INT 16h, `add_keypress` | front end, guest | no press is lost, invented or reported twice |
| PIT and time (`pit.rs`) | three timers, clock of the day, BIOS data area 40:6C | ports 40h-43h, INT 1Ah, `update` | machine loop, guest | byte pairs are coherent, INT 1Ah and the data area tell one time |
| DOS files (`dos/dos.rs`) | handle table, program path | AH=3Dh, 3Eh, 3Fh, 40h, exits | host files, loader | a handle names one file until it is closed |
| Other DOS services | PSP segment | console, vectors, date, memory (refused) | interrupts | outcome reaches the caller |
| String instructions (`machine.rs`, `cpu/decoder.rs` prefixes) | SI, DI, CX, direction, ZF | MOVS, STOS, LODS, INS, OUTS, CMPS, SCAS, one element at a time | memory, ports | blocks move whole, repetition ends in time, flags tell the order |
| Loader (`machine.rs` 202-360, `format/exe.rs`) | PSP, image, initial registers | `load_executable`, `hard_reset` | DOS, CPU | a reset and a load leave nothing half-old |
| Debugger (`debug/debugger.rs`, breakpoints) | two breakpoint lists, last values | commands, step into, step over, frames | machine | runs stop when they should |
| Tracer (`debug/tracer.rs`) | seen and visited addresses, register guesses, strings | `trace_execution`, the listing | decoder | tracing ends, misses no code, and the listing accounts for every byte |
| Video BIOS (`gpu/render.rs`, `gpu/crtc.rs`) | mode, BIOS data area, CRTC, video memory | INT 10h, ports 3D4h/3D5h | guest, BIOS data area | cursors and pages kept in three places agree; text goes where it should |
| Colours and pixels (`gpu/dac.rs`, `gpu/render.rs`) | palette, two indices, component, scan line | ports 3C7h-3C9h, 3DAh, INT 10h AX=10xxh and AH=0Ch, rendering | guest, machine loop | one counter under sequences and calls; writer and renderer agree |
| Decoder, encoder (`cpu/decoder.rs`, `cpu/encoder.rs`) | none | bytes to instructions and back | CPU, tracer, fuzzer | round trip, in step |
| Mouse, PIC, storage, CMOS | positions and ranges; command bytes; nothing | INT 33h; ports; INT 13h | front end, guest | ranges are respected |
| Front ends, fuzzer, harness | windows, files | event loop, tools | machine | events reach the machine between frames |

The behaviours that are hard to test are listed in `PROJECT.json` under
`hazards`, each at its line: nested interrupts with the single flags address,
key presses between peek and read, breakpoints and stale baselines, byte pairs
on ports while the counter runs, file handles that outlive their program, carry
and overflow at the ends of the ranges, palette indices that outlive their
palette, page cursors and the hardware cursor, overlapping blocks, overlapping
instructions, displacements that one side writes and the other reads, panics at
limits.

## 2. Modules

| Module | Models | Proofs |
|---|---|---|
| `Interrupts` | the CPU's interrupt path and the ROM handlers that touch stack, FLAGS or vectors | `InterruptsProofs` |
| `Keyboard`, implementing `KeyBag` | `keyboard.rs`, as guest and front end use it | `BiosProofs` |
| `Debugger` | `debug/debugger.rs` and both breakpoint lists | `DebugProofs` |
| `Pit` | `pit.rs` | `PortsProofs` |
| `DosFiles` | the handle table of `dos/dos.rs` over several programs | `DosFilesProofs` |
| `LongNumbers` | the arithmetic arms of `Machine::execute`, the flags and jumps | `LongNumbersProofs` |
| `Strings` | the string instructions and their repetition | `StringsProofs` |
| `Instructions`, `Decoder`, `Encoder`, composed by `Codec` | `cpu/decoder.rs`, `cpu/encoder.rs` and what both say of registers and operands | `CodecProofs` |
| `Screen` | the text side of INT 10h, pages and cursors, the CRTC | `BiosProofs` |
| `Palette` | the DAC, its BIOS calls, pixels, rendering of modes 04h and 13h, retrace | `PortsProofs` |
| `Tracer` | `debug/tracer.rs`: tracing of all paths and the listing | `DebugProofs` |

Each `MC*` module names the small sets an instance uses; the `.cfg` files
choose them. `MCBios`, `MCServices`, `MCDebug` and `MCPorts` put two components
into one run each: they share no variable, `part` says in the initial state
which of them this behaviour is about, and only that one moves, with its own
initial states, actions and fairness. So every behaviour of either component is
there, with nothing added, and an invariant of one is decided by its part alone.
The liveness properties of `Palette` and `Tracer` are stated anew there, for
behaviours of their part (`RetraceAlternates`, `TracingEnds`). `PROJECT.json` maps every definition to the lines it translates.
Definitions named `X_Fault` (`SetFlagZF_Swapped`, `Inc_Carry`, ...) are
seeded bugs, one or more per module: they are no part of a specification, and
put in the place of `X` each one breaks the property it is listed with.

**Interrupts.** A word on `stack` is a FLAGS word or a return address; the real
stack is memory, so data words in between are left out, and `flagsAddr` is a
position on that stack (0 is the code's `Unset`). One step of the guest is one
instruction (INT, IRET, PUSHF, POPF, CALL FAR through a vector, JMP FAR to a
vector that was read, CLI and STI, arithmetic on the flags, loading registers,
a direct write to the vector table). One step of the ROM is a handler with the
IRET of the same `execute_instruction`, as the code dispatches it. `ivt` keeps
the two halves of an entry as `read_vec`, `write_vec` and `execute_interrupt`
order them, which is not the same way. `entered` is history: how the ROM was
come to, by INT, by JMP FAR from a handler or by CALL FAR from one; who waits for
an answer depends on it (`ZFReachesCaller`).

**Keyboard.** `keypresses` is the queue; a press has a key and modifiers, and
`Code` is the scan code that `map_sdl_to_dos_standard_codes` gives (0 if none).
`PeekKeypress` looks at the newest press, `Consume` removes the first equal
one. `KeyBag` is the abstract promise: a bag of presses to which one is added or
from which one is taken and answered; `ReportsOnce` is the refinement.

**Debugger.** `should_break` is evaluated as the code does it: instruction
pointer first, then the watched bytes in list order up to the first change,
with the baseline (`map`) updated for those it looked at. A run (step into,
step over, frame) executes any instruction: it moves to any address and leaves
any values in memory. A frame (the command `run`, the Run button) never asks for
breakpoints; `RunsOnlyWhileQuiet` is about the other two, `RunStopsAtBreakpoint`
about frames.

**Pit.** A timer is the code's record (count, reload, latch, toggle `hi`,
access mode). Panics of the code are `panicked`. `last` and `latchedAt` are
history: the first half of the byte pair in progress and the latched count;
`clock` is what INT 1Ah told or was given last, `since` counts the updates after
it, `lagging` says that no update came after a time was
set. Of the time `ClockKeepsTime` looks at what the guest is answered, not at
fields.

**DosFiles.** `handles` is the table; `present` is the host directory, which
changes at any time; `mine` is history: what the running program was given and
has not closed. Loading keeps the table, as `hard_reset` and
`load_executable_file` do. A file keeps its size while it comes and goes.

**LongNumbers.** The guest code in the header of the module is how the
instructions are used together; every instruction is an operator from flags and
operands to result and flags, in the native integer (`Host`, 2^64 in the code)
that the arms of `execute` calculate in, with the sign extension of byte
immediates to that width. PF and AF are left out.

**Strings.** One step is one element, as the code sets IP back to a repeated
instruction. Memory is flat under two segments that overlap: offsets wrap at
`Size`, the bytes of one element do not. `begin`, `n` and `ports` are history:
the state when the guest came to the instruction, how many elements there were,
the bytes that went through ports.

**Instructions, Decoder, Encoder, Codec.** The decoder is a function: `Table`,
`Table0F` and `FpuRow` have one row per opcode (operation, width, layout of the
operands; a group takes the operation from the register field), `RmLayout` and `PlainLayout` are the
helpers that build operands, `Decode` strips prefixes and applies what each
does. `Encode` goes through the same instructions from the other side and
answers bytes, an error or a panic. `Codec` is the machine that the tests and
the fuzzer make of both: disassemble a block, assemble it, disassemble the
result. Printing of instructions is left out.

**Screen.** A call of INT 10h is one action (the handler runs to its end before
the next instruction). `bda` are the fields of the BIOS data area by name,
`crtc` the index and the four registers that say what is shown; characters that
are written are history (`cells`, with the place in video memory, and `call`).
The guest may write the CRTC between calls (`tampered` remembers that it did).
The parameters are those of `gpu/modes.rs`: columns, rows and the height of a
character are bytes, no mode has less than one of them or no page at all
(`ModesAssumption`). A repeated character runs on as long as its row is a byte
(`RoomFor`: the code counts rows in one and goes back to row 0 after 255);
a string, on the screen (`EndsOnScreen`). `TeletypeScrolls` says what should
happen behind the last row.

**Palette.** `dac` is the code's record: two indices, one component counter, the
palette of the mode, whose length differs between modes. A port sequence
(`stream`) is what the guest has sent or read since it set an index; calls of
the BIOS and changes of mode come in the middle of it. A pixel is written with
`WritePixel` and the frame before and after rendered with `Frame`. The guest
names entries from the last one back (`FromEnd`), where indices wrap, sets the
lists of colours in `Blocks` and reads as many entries as `Counts` says.

**Tracer.** A program is a function from addresses to instructions (operation,
length, operand), which may overlap. `Pick` begins a path, `Meet` ends it at a
visited instruction, `Leave`, `Fork`, `Interrupt`, `Move` and `Other` are the
arms of the match in `trace_unvisited_address`, `Finish` is the post-processing:
`Listing` is what it lists. Of the registers it guesses, AH, DX and the
cleanness of DX and DS are kept: they decide where paths end and where strings
are. `strings` is a set where the code has a list: a string that two calls print
is twice in the list, and its bytes twice in the listing; `RomIsListed` says that
every byte is accounted for, and only of the blocks of unknown bytes that they
overlap nothing.

## 3. Runs

| Run | Configuration | Shows |
|---|---|---|
| `bios` | two vectors, stack of four words; text, CGA and VGA modes of two rows, two pages | frames, flags and vectors through nesting, hooks and chains; what the hardware shows, where characters go |
| `services` | four keys, three modifiers, a short queue; two files and a directory, three handles | presses are reported once, as peeked, and polling drains; handles over the life of several programs |
| `debug` | two addresses of code and of data; every program of five bytes over twelve instructions | lists, baselines and stops; tracing ends, closed under control flow, and the listing |
| `ports` | channels 0 and 2, a day of two ticks; palettes of 5, 8 and 9 entries, index registers of 9 values | byte pairs and the time told; port sequences, blocks of colours, pixels, retrace |
| `long_numbers` | words of 3 bits, one and two words, all operands | sums, differences, carry and jumps |
| `strings` | segments of four offsets, one address apart, all contents of two byte values | blocks, ends of repetition, flags |
| `codec` | every opcode and operand form, blocks of two instructions, segment of 24 bytes | the round trip, in step |
| `interrupts_carry` | as in `bios` | divergence: CF of a failed AH=3Dh is lost at IRET |
| `run_stops` | as in `debug` | divergence: the command run goes on past a breakpoint |
| `jump_greater` | as in `long_numbers` | divergence: JG is taken after equal operands |
| `zero_count` | as in `strings` | divergence: REP STOS with CX = 0 fills memory |
| `teletype_scrolls` | as in `bios` | divergence: a line feed in the last row leaves the screen |

*Bounds.* `MaxStack` bounds the stack in the guards of pushes: four words are
two frames, enough for a handler to be entered while another has not returned,
and the properties speak of one frame and the one below it. The queue of the
keyboard and the number of presses are bounded so that equal and different
presses, with and without codes, stand before and behind each other. A day of
two ticks makes the clock wrap within a run, and `CountSize` 131072 (2^32 in
the code) keeps counts of more than 16 bits, so that what a data area of two
words and a read of two bytes leave out is there; the guest sets the last of
them, above the day, and the machine starts at others. Three handles (251 in the
code) let the table fill up with holes in it. Words of three bits have every
combination of signs, carries and zero; a native integer of four of them has
room above the carry bit. The proofs do not depend on these bounds.

Four offsets let a string wrap, meet itself and be longer than the segment
(CX = 0 stands for four elements), segments one address apart make source and
destination overlap in both directions, and two byte values tell every two
contents apart that copies and comparisons distinguish; double words are left
to the proofs. The blocks of `codec` begin with every opcode, its second
instruction is whatever the bytes that are left over are, and one start lies so
that instructions wrap at the end of the segment. `RowBound` stops line feeds at
the first row below the screen; attributes 7 and 135 differ in the bit that
means XOR in graphics modes, as 131 does among the inks 1, 2 and 131. `IndexSize` 9 (256 in the code) is the longest
palette plus none, so that reads and writes go over its end as they do at 256
with a palette of 256, and over the end of shorter ones; `StreamBound` is one
colour and the first byte of the next; `StrayBound` lets one byte come outside
a sequence, so calls begin in the middle of a colour. Five bytes hold loops,
jumps into the middle of instructions and code that is read as data; of the
twelve instructions each takes another arm of the tracer.

*Deadlock* is checked in `services`, `debug` and `ports`: there the timer and
the file table stop after a panic, and the tracer when it has finished, which are
named steps of the run (`FilesPanicked`, `TimerPanicked`, `TracerDone`). It is not
checked where the system itself stops: after a panic or a fatal error in `bios`,
at the end of the code in `LongNumbers`, when the instruction is over in
`Strings`, and when `Codec` has finished.

*Fairness.* `PollingSpec` of `Keyboard` is an assumption about the guest, not
about the emulator: it polls, that is it calls AH=01h again and again and, if a
key is reported, AH=00h (strong fairness, as ports may be read in between);
presses are bounded, so typing ends. `ServicesSpec` asks the same of the part that
is the keyboard. `Palette` is fair to `ProgressScanline`:
`Machine::execute_instruction` calls it whenever a fixed number of cycles has
gone by, whatever the guest does. `Tracer` is fair to `Next`: its loop simply
goes on. Nothing else in the models is fair. `RetraceAlternates` says that the
state goes round, not that a guest that polls too rarely sees it.

## 4. Proofs

Assumptions are those named in the modules (`...Assumption`): the parameters
have their types and the ranges the code has. All theorems are of the form
`Spec => [] Inv` or `Spec => [][A]_vars`, for every value of the parameters.

* `InterruptsProofs`: `TypeOK` with `FrameDiscipline` and `FlagsAddressLive` is
  made inductive: ROM code is only entered through a frame, a popped frame takes
  the flags address with it, and whatever PUSHF and POPF do, what is left is a
  pile of frames. The action properties follow for every step from it. For
  `ZFReachesCaller` it is strengthened by `Entries`: the address, if any, is that
  of the innermost FLAGS word with a return address, unless a CALL FAR from a
  handler has put one frame more above it; after an INT it is never spent. `set_flag`
  writes to the flags address and IRET pops the frame on top, so that after INT
  and JMP FAR both are one word, and after a CALL FAR the word that was
  written is the innermost that is left.
* `DebugProofs`, the debugger: lists without duplicates stay so under Add and Remove, and a
  baseline is known exactly for bytes that a run has looked at.
* `PortsProofs`, the timers: the invariant adds what the first half of a byte pair leaves
  behind (`HalfPair`): the toggle and the byte already read or written; and for
  `ClockKeepsTime` that the data area holds the clock unless `lagging`, and the count
  is the clock and `since` ticks more (`ClocksAgree`). The
  arithmetic of low and high bytes is in `ByteRange` and `WordBytes`.
* `PortsProofs`, the DAC and pixels: for palettes of every length up to that of
  the index register, and blocks and sequences of any length. `Sequences` says where the indices and the component are: after
  m bytes since the index was set, at component m modulo 3 of the entry m div 3
  further on, round the palette for writes and round the index register for
  reads (`AtOn`). A sequence that goes round the palette writes components it
  wrote before; they stay right because the guest sends the same three bytes
  again and again (`StreamWritten`). What a BIOS call does is induction over its
  colours or components (`BlockIsSet`, `BlockIsRead`), after showing that the
  recursive functions of the model exist (`BlockExists`, `ReadingExists`); a
  block longer than the palette goes round it, and of the colours that meet in
  an entry the last one stays (`LastAt`). A byte of mode 04h is four digits of which one is
  replaced (`DigitWritten`), and no two pixels of a screen share a place
  (`FourToAByte`).
* `BiosProofs`, the keyboard: the refinement maps the queue to the bag that counts each
  press in it. Adding at one end adds one to one count (`AppendCounts`), removing
  the first press that equals the newest takes one from its count
  (`RemoveCounts`), so every step of `Keyboard` is one of `KeyBag` or a stutter.
* `BiosProofs`, the screen: for every table of modes, the pages 0 to 7, all strings
  and counts. `ScreenInv` is inductive as the types with the three properties. The
  hardware side is the arithmetic of words in two registers (`PairWritten`) and
  of a page's start in words, in bytes and back (`Halved`, `PageShown`,
  `CursorShown`). For what is written, `PlaceAfter` says where the cursor is one
  place further on, over the ends of lines, and `Teletyped` what one character
  does to the page; repeats and strings are induction over the characters
  (`RunFollows`, `StringTyped`, `StringPrints`) with the recursive functions
  shown to exist first.
* `DosFilesProofs`: that a lowest free handle exists is well-foundedness of the
  naturals (`LowestIsFree`); with it, `HandlesHold` is inductive beside `TypeOK`.
* `DebugProofs`, the tracer: what is visited was seen, a seen address that is marked was
  visited, the path in progress stands at its start or has one behind it, and
  with every visited instruction its successors are seen unless the path is just
  there (`Closing`). At the end nothing is left unvisited, which is
  `TraceIsClosed`; `RomIsListed` is about the runs of unlisted bytes that are
  cut into blocks.
* `StringsProofs`: `EndsInTime` and `OrderIsTold` are inductive together with the
  types and with memory and accumulator unchanged under comparisons (`Kept`).
  What carries them is arithmetic modulo the segment and modulo twice the byte:
  a borrow out of a difference (`ComparesNumbers`), and what is left of it when
  words are subtracted and bytes are looked at (`ComparesLowBytes`).
  `BlocksMove` is inductive beside them with the length of what went through the
  ports (`Shape`). The proofs include double words, which the run leaves out.
* `CodecProofs`: for segments of every size, any code at any offset and blocks of
  any number of instructions. The two sides meet in what the encoder knows of
  an operation (`Suits`): every row of the decoder's tables that names such an
  operation has operands the encoder expects (`FitRow`), so that whatever is in
  memory, `Decode` makes an instruction of a form (`Shaped`) that one family of
  the encoder's arms takes (`DecodeDecodes`). For each family the bytes that are written are read as
  that instruction again, of that length, wherever they stand and round the
  end of the segment (`RoundTrip`, from `RmBytes` about operands, displacements
  and immediates and from what prefixes are written); at most nine bytes are
  written, whatever is lost (`EncodedLength`). `IInv` of the machine then says
  that what is collected is the written instructions one behind the other
  (`Collected`), that the second disassembly stands where the next of them begins
  until half a number was lost (`InPlace`), and that no read runs into prefixes
  for ever (`Prefixable`). Nothing is left out: all opcodes, prefixes and operand
  forms take part. The assumptions of `Codec` say that the code is
  shorter than its segment and the byte behind it no prefix, because `decode`
  would read prefixes for ever, and that the segment holds what is assembled
  (nine bytes per instruction), because `SameInstruction` is false where the end of a
  block overwrites its beginning.
* `LongNumbersProofs`: words of every size, in native integers of every even
  number of words, and numbers of as many words as CX counts (`MaxWords < 65536`,
  as CX is a word). That the recursive functions behind `Weight` and `Num` exist
  and agree on shorter numbers (`WeightSteps`, `NumSteps`) is induction over
  sets of naturals, whose least element is well-foundedness (`AllNaturals`). Of
  one instruction (`WordTurn`) the result is that of the words modulo the word,
  and the carry flag is the turn left out; carries add up (`Chain`), so `Inv`
  says of the words done that they hold the total modulo their weight and that
  the carry flag is what the total has beyond it. `AddsNumbers` and
  `SubtractsNumbers` read this off at the end. For the other flags `Flagged`
  says, while LEA and LOOP are all that ran since, that they tell of the last
  word and the carry into it, which is the carry out of the number below it
  (`CarryIsTaken`); the number below is less than the weight of the last word,
  so that word decides for the whole numbers (`LastWord`). This gives
  `JumpsTell` and `OverflowTells`.

Only model-checked: the liveness properties (`PollerDrains`,
`RetraceAlternates`, `TracingEnds`), which are out of the prover's reach. Every
invariant and every action property of the runs that pass is also a theorem.

## 5. Where the code differs from what it says

Five runs end in a counterexample that is a behaviour of the code; `findings`
in `PROJECT.json` quotes the lines:

* `interrupts_carry`: the CF with which AH=3Dh reports an error is overwritten by
  the IRET of the same step (dos.rs:267).
* `run_stops`: the help says of the command run that it goes on "until breakpoint"
  (debugger.rs:147); a frame asks for none (machine.rs:370-385).
* `jump_greater`: JG is taken after equal operands (machine.rs:1356; op.rs:93).
* `zero_count`: a repeated string instruction is executed before CX is tested: with
  CX = 0 it runs once for every value of CX, while the tracer annotates the loop as
  `while cx-- > 0` (tracer.rs:407).
* `teletype_scrolls`: teletype output goes below the last row and never scrolls: the
  number of rows, a byte, is read as a word together with the character height
  behind it (render.rs:926), although the comment at render.rs:910 promises
  scrolling.

The other differences met while modelling are in the models as the code has
them, without a run:

* After ADC the overflow flag is wrong when the carry is added to the greatest
  positive operand (`SumOverflow`); after ADC, SBB, SUB and CMP with a negative
  byte immediate the carry flag is the opposite of what it should be (`Plain`
  in `LongSum`, `LongDifference`, `JumpsCompare`).
* AH=0Ch with a function never returns (dos.rs:161-164); exits leave files open
  although dos.rs:474 says they are closed, so a table can fill up and the next
  open panics; ZF may say that no key waits though one does (keyboard.rs:87).
* The first change of a byte after `membp add` does not stop
  (memory_breakpoints.rs:55). INT 1Ah answers 0 on a machine of
  `Machine::default` until a hard reset.
* CMPS and SCAS subtract in the order
  opposite to an 8086, and the carry of CMPSB depends on the bytes behind the
  two that are compared (machine.rs:929). REPNE before MOVS and the others
  that compare nothing obeys the ZF of before. INSW is decoded and not executed.
* The encoder loses a 67h address size, repeat prefixes, the width of a 32-bit
  shift by one, factors of IMUL, and half of the immediate of TEST r32, imm32
  (encoder.rs:818): `Lossy` in `Codec` names exactly these.
* `has_code` (tracer.rs:105) promises "any" source and tests all of them;
  RET n panics the tracer (tracer.rs:699).
* A call on a page above 7 prints a message and then writes behind the table of
  cursors in the BIOS data area (render.rs:856): `Screen` names pages 0 to 7.

## 6. Not modelled, and why

Returns by RETF n from handlers (guests are assumed to return with IRET);
console output, dates and other constant services; fonts and tables; mode 11h
and the code's unfinished EGA pixels, VESA; storage, CMOS and PIC, which answer
constants or keep what nothing reads; the mouse, a handful of assignments; the
external tools (fuzzer, harness, ndisasm); parity and adjust flags; shifts,
multiplication, division and decimal adjustment, whose results are functions of
one instruction that unit tests reach; annotations and cross references of the
tracer, which are text; printing of instructions. The loop of the machine as a
whole is not composed: interrupts, timer and scan lines are modelled one by one,
each with the loop as the environment that calls it.

## 7. Plan

1. Done: `Interrupts`, `Keyboard`, `Debugger`, `Pit`, `DosFiles`, `LongNumbers`,
   `Strings`, the `Codec`, `Screen`, `Palette`, `Tracer`, their runs and the
   proofs of section 4.
2. `Machine`: the loop that composes CPU step, handler dispatch, scan line and
   timer, port routing, `hard_reset` and loads; `Pit` and `Interrupts` as its
   parts.
3. Shifts and rotates over several words, multiplication and division with
   their exceptions, stack frames (ENTER, LEAVE, PUSHA); the mouse between
   INT 33h and the front end.
4. Proofs: none is open for what is modelled; the invariants of `Machine` next.
