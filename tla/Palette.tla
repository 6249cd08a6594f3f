------------------------------- MODULE Palette -------------------------------
(***************************************************************************)
(* Colours and pixels: the DAC of gpu/dac.rs behind the ports 3C7h - 3C9h  *)
(* and behind INT 10h AX=1010h - 1017h, the pixels AH=0Ch writes and the   *)
(* renderer reads back, and the retrace bits of port 3DAh (gpu/render.rs). *)
(*                                                                         *)
(* The guest's port sequences and the BIOS calls work on one set of DAC    *)
(* registers: a call may come in the middle of a sequence, and a mode      *)
(* change replaces the palette under the indices.                          *)
(***************************************************************************)
EXTENDS Integers, Sequences

CONSTANTS
    Modes,        \* mode number -> kind, palette and height in scan lines
    IndexSize,    \* number of values of an index register (256 in the code)
    Value,        \* the byte the guest sends for red, for green and for blue
    StreamBound,  \* bound: data bytes in one port sequence
    StrayBound,   \* bound: data bytes outside one, before the next call or index
    FromEnd,      \* the entries the guest names, counted from the last one
    Blocks,       \* the lists of colours it sets in one BIOS call
    Counts,       \* the numbers of entries it reads in one
    Width, Height,\* the pixels written are those of 0..Width-1 x 0..Height-1
    Fill,         \* bytes the video memory is filled with before a pixel
    Inks          \* the colours of pixels

Octets == 0 .. 255
Triples == [1 .. 3 -> Octets]
Levels == {4 * v : v \in 0 .. 63}  \* six bits, as the DAC keeps them

\* The palettes are those of gpu/palette.rs and fit the index register; the
\* screen of modes 04h and 13h is 320 by 200 pixels.
ASSUME PaletteAssumption ==
    /\ 3 \in DOMAIN Modes
    /\ IndexSize \in Nat \ {0}
    /\ \A m \in DOMAIN Modes :
          /\ Modes[m].palette \in Seq([1 .. 3 -> Levels])
          /\ Len(Modes[m].palette) \in 1 .. IndexSize
          /\ Modes[m].sheight > 0
ASSUME SentAssumption ==
    /\ Value \in Triples
    /\ FromEnd \subseteq Nat
    /\ Counts \subseteq Nat
    /\ Blocks \subseteq Seq(Triples)
ASSUME PixelsAssumption ==
    /\ Width \in 1 .. 320 /\ Height \in 1 .. 200
    /\ Fill \subseteq Octets /\ Inks \subseteq Octets

VARIABLES
    mode,      \* the number of GPU.mode
    dac,       \* the DAC: the two indices, the component, the palette
    grey,      \* bits 1 and 2 of the byte at 0040:0089 ask for grey scales
    scanline,  \* GPU.scanline
    stream,    \* history: the port sequence the guest is in
    call       \* history: the BIOS call just made

paletteVars == <<mode, dac, grey, scanline, stream, call>>

Idle == [fn |-> "none"]
NoStream == [fn |-> "none", from |-> 0, data |-> <<>>]
-----------------------------------------------------------------------------
(* The DAC.  A palette is a sequence: entry i is pal[i + 1].  An index or   *)
(* a count that passes its type wraps (a build that checks overflow stops).*)

\* Fault: the component under way is kept.
SetPelWriteIndex_KeepsComponent(d, val) == [d EXCEPT !.write = val]

SetPelWriteIndex(d, val) == [d EXCEPT !.write = val, !.pel = 0]

SetPelReadIndex(d, val) ==
    [d EXCEPT !.read = val, !.write = (val + 1) % IndexSize, !.pel = 0]

\* get_pel_data reads pal[read_index]: an index past the palette stops the
\* emulator.  The components are six bits wide to the guest.
Readable(d) == d.read < Len(d.pal)
PelData(d) == d.pal[d.read + 1][d.pel + 1] \div 4

AfterRead(d) ==
    [d EXCEPT !.pel = (@ + 1) % 3,
              !.read = IF d.pel = 2 THEN (@ + 1) % IndexSize ELSE @]

Writable(d) == d.write < Len(d.pal)

SetPelData(d, val) ==
    [d EXCEPT !.pal[d.write + 1][d.pel + 1] = 4 * (val % 64),
              !.pel = (@ + 1) % 3,
              !.write = IF d.pel < 2 THEN @
                        ELSE IF @ >= Len(d.pal) - 1 THEN 0 ELSE @ + 1]

\* The intensity that replaces all three components, as in the VGA BIOS.
Intensity(c) ==
    LET i == (77 * c[1] + 151 * c[2] + 28 * c[3] + 128) \div 256
    IN  IF i > 63 THEN 63 ELSE i

Stored(c) == IF grey THEN <<Intensity(c), Intensity(c), Intensity(c)>> ELSE c

SetEntry(d, c) == SetPelData(SetPelData(SetPelData(d, c[1]), c[2]), c[3])

\* set_dac_block; set_individual_dac_register is the block of one colour.
SetDacBlock(d, index, colours) ==
    LET next[k \in 0 .. Len(colours)] ==
            IF k = 0 THEN SetPelWriteIndex(d, index)
            ELSE SetEntry(next[k - 1], Stored(colours[k]))
    IN  next[Len(colours)]

\* read_dac_block; get_individual_dac_register is the block of one colour.
\* The result is the DAC and the bytes read.
ReadDacBlock(d, index, count) ==
    LET next[k \in 0 .. 3 * count] ==
            IF k = 0 THEN [dac |-> SetPelReadIndex(d, index), bytes |-> <<>>]
            ELSE [dac |-> AfterRead(next[k - 1].dac),
                  bytes |-> Append(next[k - 1].bytes, PelData(next[k - 1].dac))]
    IN  next[3 * count]
-----------------------------------------------------------------------------
(* Ports.                                                                  *)

\* Fault: the two index ports are swapped.
OutWriteIndex_Read(val) ==
    /\ dac' = SetPelReadIndex(dac, val)
    /\ stream' = [fn |-> "write", from |-> val, data |-> <<>>]
    /\ UNCHANGED <<mode, grey, scanline, call>>

OutWriteIndex(val) ==
    /\ dac' = SetPelWriteIndex(dac, val)
    /\ stream' = [fn |-> "write", from |-> val, data |-> <<>>]
    /\ UNCHANGED <<mode, grey, scanline, call>>

OutReadIndex(val) ==
    /\ dac' = SetPelReadIndex(dac, val)
    /\ stream' = [fn |-> "read", from |-> val, data |-> <<>>]
    /\ UNCHANGED <<mode, grey, scanline, call>>

\* A byte of a sequence in the direction its index was set for goes on with
\* it; any other access to the data port strays from it.
Extended(fn, val) ==
    [stream EXCEPT !.fn = IF @ = fn THEN fn ELSE "stray",
                   !.data = IF stream.fn \in {fn, "stray"} THEN Append(@, val) ELSE <<val>>]

OutData(val) ==
    /\ Writable(dac)
    /\ dac' = SetPelData(dac, val)
    /\ stream' = Extended("write", val)
    /\ UNCHANGED <<mode, grey, scanline, call>>

InData ==
    /\ Readable(dac)
    /\ dac' = AfterRead(dac)
    /\ stream' = Extended("read", PelData(dac))
    /\ UNCHANGED <<mode, grey, scanline, call>>
-----------------------------------------------------------------------------
(* BIOS calls.                                                             *)

\* AH=00h: a new palette; the indices and the scan line stay.
SetVideoMode(m) ==
    /\ mode' = m
    /\ dac' = [dac EXCEPT !.pal = Modes[m].palette]
    /\ stream' = NoStream
    /\ UNCHANGED <<grey, scanline, call>>

\* AX=1010h and AX=1012h.
SetColours(index, colours) ==
    /\ index < Len(dac.pal)
    /\ dac' = SetDacBlock(dac, index, colours)
    /\ stream' = NoStream
    /\ call' = [fn |-> "set", index |-> index, colours |-> colours, before |-> dac.pal]
    /\ UNCHANGED <<mode, grey, scanline>>

\* AX=1015h and AX=1017h.
GetColours(index, count) ==
    /\ \A k \in 0 .. count - 1 : (index + k) % IndexSize < Len(dac.pal)
    /\ LET got == ReadDacBlock(dac, index, count)
       IN  /\ dac' = got.dac
           /\ call' = [fn |-> "get", index |-> index, bytes |-> got.bytes]
    /\ stream' = NoStream
    /\ UNCHANGED <<mode, grey, scanline>>

\* The guest writes the mode-set control byte.
SetGrey ==
    /\ grey' = ~grey
    /\ UNCHANGED <<mode, dac, scanline, stream, call>>

(* Pixels: a byte of mode 4 holds four pixels, the first in its high bits, *)
(* with odd lines 8 Kbytes further on; in mode 13h a byte is a pixel.      *)

Offset(kind, x, y) ==
    IF kind = "CGA4" THEN (80 * (y \div 2)) + (x \div 4) + (8192 * (y % 2)) ELSE 320 * y + x

Digit(byte, k) == (byte \div 4 ^ k) % 4
XorPair(a, b) == ((a + b) % 2) + 2 * (((a \div 2) + (b \div 2)) % 2)

\* Fault: the first pixel is taken from the low bits.
Slot_LowFirst(x) == x % 4
Slot(x) == 3 - (x % 4)

WritePixel(kind, mem, x, y, color) ==
    LET off  == Offset(kind, x, y)
        k    == 3 - (x % 4)
        old  == Digit(mem[off], k)
        pair == IF color >= 128 THEN XorPair(old, color % 4) ELSE color % 4
    IN  CASE kind = "CGA4" -> [mem EXCEPT ![off] = @ + (pair - old) * 4 ^ k]
          [] kind = "VGA"  -> [mem EXCEPT ![off] = color]
          [] OTHER -> mem

\* What render_mode04_frame and render_mode13_frame show: a palette entry.
CgaEntry == <<0, 3, 5, 7>>
Entry(kind, mem, x, y) ==
    IF kind = "CGA4" THEN CgaEntry[Digit(mem[Offset(kind, x, y)], Slot(x)) + 1]
    ELSE mem[Offset(kind, x, y)]

Xs == 0 .. Width - 1
Ys == 0 .. Height - 1
Frame(kind, mem) == [p \in Xs \X Ys |-> Entry(kind, mem, p[1], p[2])]

\* AH=0Ch.  The guest may have put anything into video memory before.
Plot(x, y, color, fill) ==
    LET kind == Modes[mode].kind
        mem  == [off \in {Offset(kind, p[1], p[2]) : p \in Xs \X Ys} |-> fill]
    IN  /\ kind \in {"CGA4", "VGA"}
        /\ call' = [fn |-> "pixel", at |-> <<x, y>>, color |-> color,
                    before |-> Frame(kind, mem),
                    after |-> Frame(kind, WritePixel(kind, mem, x, y, color))]
        /\ UNCHANGED <<mode, dac, grey, scanline, stream>>

\* Fault: the lines are counted from one.
ProgressScanline_FromOne ==
    /\ scanline' = IF scanline + 1 > Modes[mode].sheight THEN 1 ELSE scanline + 1
    /\ UNCHANGED <<mode, dac, grey, stream, call>>

\* Called by the machine while it executes instructions.
ProgressScanline ==
    /\ scanline' = IF scanline + 1 > Modes[mode].sheight THEN 0 ELSE scanline + 1
    /\ UNCHANGED <<mode, dac, grey, stream, call>>

\* read_cga_status_register, port 3DAh: bits 0 and 3.
Retrace == scanline = 0

\* Back in the guest: the history of the call is forgotten.
Return ==
    /\ call # Idle
    /\ call' = Idle
    /\ UNCHANGED <<mode, dac, grey, scanline, stream>>
-----------------------------------------------------------------------------
PaletteInit ==
    /\ mode = 3
    /\ dac = [read |-> 0, write |-> 0, pel |-> 0, pal |-> Modes[3].palette]
    /\ grey = FALSE
    /\ scanline = 0
    /\ stream = NoStream
    /\ call = Idle

\* Bounds: the guest names entries of the palette, counted from the last one,
\* where indices wrap; port sequences are short; pixels are drawn, and grey
\* scales asked for, under the palette of the mode.
Named == {i \in 0 .. Len(dac.pal) - 1 : Len(dac.pal) - 1 - i \in FromEnd}

Port ==
    \/ \E i \in Named : OutWriteIndex(i) \/ OutReadIndex(i)
    \/ /\ Len(stream.data) < (IF stream.fn \in {"write", "read"} THEN StreamBound ELSE StrayBound)
       /\ (OutData(Value[dac.pel + 1]) \/ InData)

Bios ==
    \/ \E m \in DOMAIN Modes : SetVideoMode(m)
    \/ dac.pal = Modes[mode].palette /\ stream = NoStream /\ SetGrey
    \/ \E i \in Named, b \in Blocks : SetColours(i, b)
    \/ \E i \in Named, n \in Counts : GetColours(i, n)
    \/ /\ dac.pal = Modes[mode].palette /\ stream = NoStream
       /\ \E x \in Xs, y \in Ys, color \in Inks, fill \in Fill : Plot(x, y, color, fill)

PaletteNext == (call = Idle /\ (Port \/ Bios)) \/ Return \/ ProgressScanline

PaletteSpec == PaletteInit /\ [][PaletteNext]_paletteVars /\ WF_scanline(ProgressScanline)
-----------------------------------------------------------------------------
(* Properties.                                                             *)

Scaled(c) == <<4 * (c[1] % 64), 4 * (c[2] % 64), 4 * (c[3] % 64)>>

\* A BIOS call sets exactly the entries it names, each to its own colour (the
\* last one of a block that goes round the palette), and reads exactly the
\* entries it names, whatever port sequence it came in the middle of
\* (set_dac_block, read_dac_block, the shared pel_index).
BlocksAreWhole ==
    /\ call.fn = "set" =>
          LET n == Len(dac.pal)
              place(k) == ((call.index + k - 1) % n) + 1
              last(k) == \A l \in DOMAIN call.colours : place(l) = place(k) => l <= k
          IN  /\ \A k \in DOMAIN call.colours :
                    last(k) => dac.pal[place(k)] = Scaled(Stored(call.colours[k]))
              /\ \A i \in 1 .. n : i \notin {place(k) : k \in DOMAIN call.colours} =>
                    dac.pal[i] = call.before[i]
    /\ call.fn = "get" =>
          \A k \in DOMAIN call.bytes :
             4 * call.bytes[k] =
             dac.pal[((call.index + ((k - 1) \div 3)) % IndexSize) + 1][((k - 1) % 3) + 1]

\* The n-th byte a guest writes after setting the write index, or reads after
\* setting the read index, is component n of the entries from that index on,
\* over the end of the palette (set_pel_data, get_pel_data).
StreamsKeepStep ==
    stream.fn \in {"write", "read"} => \A k \in DOMAIN stream.data :
       LET n     == IF stream.fn = "write" THEN Len(dac.pal) ELSE IndexSize
           entry == dac.pal[((stream.from + ((k - 1) \div 3)) % n) + 1]
       IN  entry[((k - 1) % 3) + 1] = 4 * (stream.data[k] % 64)

\* The frame rendered after a pixel is written differs from the one before in
\* that pixel alone, which shows the colour it was written in, or its XOR with
\* what was there when bit 7 is set and the mode is not of 256 colours.
PixelShows ==
    call.fn = "pixel" =>
       LET kind == Modes[mode].kind
           ink  == IF kind = "VGA" THEN call.color
                   ELSE LET old == CHOOSE i \in 0 .. 3 : CgaEntry[i + 1] = call.before[call.at]
                        IN  CgaEntry[(IF call.color >= 128 THEN XorPair(old, call.color % 4)
                                      ELSE call.color % 4) + 1]
       IN  call.after = [call.before EXCEPT ![call.at] = ink]

\* The retrace bits of port 3DAh come and go again and again, whatever modes
\* are set meanwhile (progress_scanline); when a guest polls the port is not
\* modelled.
RetraceComesAndGoes == []<>Retrace /\ []<>~Retrace
=============================================================================
