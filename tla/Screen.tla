------------------------------- MODULE Screen -------------------------------
(***************************************************************************)
(* The video BIOS (INT 10h) of gpu/render.rs: modes, pages, cursors, the   *)
(* characters written at them, and the CRTC registers that make the        *)
(* hardware show what the BIOS data area says.                             *)
(*                                                                         *)
(* The BIOS keeps one cursor per page and the active page in the BIOS data *)
(* area (bda); the CRTC holds the address of the first character shown and *)
(* of the hardware cursor.  A guest may also write the CRTC ports itself.  *)
(* A call is one action: INT 10h runs to its end before the next guest     *)
(* instruction.                                                            *)
(***************************************************************************)
EXTENDS Integers, Sequences

CONSTANTS
    Modes,      \* mode number -> the fields of its VideoModeBlock used here
    Pages,      \* the pages the guest names, some of 0 .. 7
    Letters,    \* characters that print
    Attributes, \* attributes and colours
    Strings,    \* the strings of character and attribute AH=13h is given
    Counts,     \* repetitions AH=09h and AH=0Ah are given
    Controls,   \* pairs of CRTC index and data the guest sends to the ports
    RowBound    \* bound: no cursor goes below this row

BS == "BS"
CR == "CR"
LF == "LF"
Idle == [fn |-> "none"]
Bytes == 0 .. 255
Words == 0 .. 65535
Keep == -1  \* the attribute of a cell that only its character changes

\* Columns, rows and the height of a character are bytes, the page size is a
\* word, and no mode is without a page.
ASSUME ModesAssumption ==
    /\ 3 \in DOMAIN Modes
    /\ DOMAIN Modes \subseteq Nat
    /\ \A m \in DOMAIN Modes :
          /\ Modes[m].kind \in {"TEXT", "CGA4", "VGA"}
          /\ Modes[m].cols \in 1 .. 255 /\ Modes[m].rows - 1 \in Bytes
          /\ Modes[m].cheight \in 1 .. 255
          /\ Modes[m].pages \in 1 .. 255
          /\ Modes[m].size \in Words
ASSUME PagesAssumption == Pages \subseteq 0 .. 7
ASSUME GuestAssumption ==
    /\ RowBound \in 1 .. 255
    /\ Counts \subseteq Nat
    /\ Attributes \subseteq Bytes
    /\ Controls \subseteq Bytes \X Bytes
    /\ {BS, CR, LF} \cap Letters = {}
    /\ \A s \in Strings :
          s \in Seq([chr : Letters \cup {BS, CR, LF}, attr : Attributes])

VARIABLES
    mode,      \* the number of GPU.mode
    bda,       \* the BIOS data area: columns, page size, start, rows, ...
    crtc,      \* the CRTC: its index and registers 0Ch .. 0Fh
    cells,     \* history: the cells the call wrote, in their order
    call,      \* history: the call just made that wrote them, or Idle
    tampered   \* history: the guest wrote registers 0Ch .. 0Fh itself

screenVars == <<mode, bda, crtc, cells, call, tampered>>
-----------------------------------------------------------------------------
(* The CRTC.                                                               *)

\* set_index, then write_current, for the two halves of a 16-bit register.
\* Registers that nothing reads are left out: only the index remembers them.
WritePair(c, hi, word) ==
    [index |-> hi + 1,
     reg |-> [c.reg EXCEPT ![hi] = (word \div 256) % 256, ![hi + 1] = word % 256]]

Register(hi) == crtc.reg[hi] * 256 + crtc.reg[hi + 1]
-----------------------------------------------------------------------------
(* A handler works on a display d: the data area, the CRTC and the cells   *)
(* written so far.                                                         *)

Display == [bda |-> bda, crtc |-> crtc, cells |-> <<>>]

Becomes(d) ==
    /\ bda' = d.bda
    /\ crtc' = d.crtc
    /\ cells' = d.cells

CursorAt(d, page) == d.bda.cursor[page]

\* Fault: the hardware cursor follows the cursor of every page.
SetCursorPos_AnyPage(d, row, col, page) ==
    LET address == (d.bda.cols * row + col + d.bda.start \div 2) % 65536
    IN  [d EXCEPT !.bda.cursor[page] = [row |-> row, col |-> col],
                  !.crtc = WritePair(@, 14, address)]

SetCursorPos(d, row, col, page) ==
    LET address == (d.bda.cols * row + col + d.bda.start \div 2) % 65536
    IN  [d EXCEPT !.bda.cursor[page] = [row |-> row, col |-> col],
                  !.crtc = IF page = d.bda.page THEN WritePair(@, 14, address) ELSE @]

\* The start of a page: a byte address in the data area, and in the CRTC a
\* count of characters in the modes below 8.
SetActivePage(d, m, page) ==
    LET start == (page * d.bda.size) % 65536
        shown == IF m < 8 THEN start \div 2 ELSE start
        moved == [d EXCEPT !.bda = [@ EXCEPT !.start = start, !.page = page],
                           !.crtc = WritePair(@, 12, shown)]
        at    == CursorAt(d, page)
    IN  SetCursorPos(moved, at.row, at.col, page)

StoreModeInBios(d, m) ==
    [d EXCEPT !.bda = [@ EXCEPT !.cols = Modes[m].cols,
                                !.size = Modes[m].size,
                                !.rows = Modes[m].rows - 1,
                                !.cheight = Modes[m].cheight]]

\* What write_char_internal leaves of one character.  Text is a character
\* and an attribute in memory; in graphics its glyph is drawn from a corner,
\* the paper in the ink's XOR bit alone (CGA) or in colour 0 (VGA).
Ink(kind, attr, useAttr) ==
    CASE useAttr -> attr
      [] kind = "CGA4" -> 3
      [] OTHER -> 7

Cell(d, m, row, col, page, chr, attr, useAttr) ==
    LET kind == Modes[m].kind
        ink  == Ink(kind, attr, useAttr)
    IN  IF kind = "TEXT"
        THEN [at |-> <<page * d.bda.size + 2 * (row * d.bda.cols + col)>>,
              chr |-> chr, ink |-> IF useAttr THEN attr ELSE Keep, paper |-> Keep]
        ELSE [at |-> <<8 * col, d.bda.cheight * row>>,
              chr |-> chr, ink |-> ink,
              paper |-> IF kind = "VGA" THEN 0 ELSE (ink \div 128) * 128]

\* The word at 84h: the rows in its low byte and the character height, the
\* next field of the data area, in its high byte.
RowsWord(d) == d.bda.rows + 256 * (d.bda.cheight % 256)

TeletypeCursor(d, chr, at) ==
    LET next == [row |-> IF chr = LF THEN at.row + 1 ELSE at.row,
                 col |-> CASE chr = BS -> IF at.col > 0 THEN at.col - 1 ELSE 0
                           [] chr = CR -> 0
                           [] chr = LF -> at.col
                           [] OTHER    -> at.col + 1]
        wrapped == IF next.col = d.bda.cols THEN [row |-> next.row + 1, col |-> 0] ELSE next
    IN  IF wrapped.row = RowsWord(d) + 1 THEN [wrapped EXCEPT !.row = @ - 1] ELSE wrapped

TeletypeOutputAttr(d, m, chr, attr, page, useAttr) ==
    LET at    == CursorAt(d, page)
        next  == TeletypeCursor(d, chr, at)
        drawn == IF chr \in {BS, CR, LF} THEN d
                 ELSE [d EXCEPT !.cells =
                         Append(@, Cell(d, m, at.row, at.col, page, chr, attr, useAttr))]
    IN  SetCursorPos(drawn, next.row % 256, next.col % 256, page)

\* Fault: the line is full one column too late.
NextCell_Late(d, at) ==
    LET col == (at.col + 1) % 256
    IN  IF col > d.bda.cols THEN [row |-> (at.row + 1) % 256, col |-> 0]
        ELSE [row |-> at.row, col |-> col]

\* The place write_char goes on at: it wraps past the last column and does
\* not look at the number of rows; both are bytes.
NextCell(d, at) ==
    LET col == (at.col + 1) % 256
    IN  IF col >= d.bda.cols THEN [row |-> (at.row + 1) % 256, col |-> 0]
        ELSE [row |-> at.row, col |-> col]

CellsOf(d, m, chr, attr, page, count, show) ==
    LET text == Modes[m].kind = "TEXT"
        on   == IF text THEN page ELSE page % Modes[m].pages
        place[k \in 1 .. count] ==
            IF k = 1 THEN CursorAt(d, on) ELSE NextCell(d, place[k - 1])
    IN  [k \in 1 .. count |->
            Cell(d, m, place[k].row, place[k].col, on, chr, attr, show \/ ~text)]

\* The characters of a string, one after another.
Typed(d, m, str, page) ==
    LET after[k \in 0 .. Len(str)] ==
            IF k = 0 THEN d
            ELSE TeletypeOutputAttr(after[k - 1], m, str[k].chr, str[k].attr, page, TRUE)
    IN  after[Len(str)]

\* Fault: the cursor to put back is read after it was moved.
WriteStringTo_SavedLate(d, m, row, col, flag, str, page) ==
    LET begun == IF row = 255 THEN SetCursorPos(d, CursorAt(d, page).row, CursorAt(d, page).col, page)
                 ELSE SetCursorPos(d, row, col, page)
        saved == CursorAt(begun, page)
        done  == Typed(begun, m, str, page)
    IN  IF flag % 2 = 0 THEN SetCursorPos(done, saved.row, saved.col, page) ELSE done

WriteStringTo(d, m, row, col, flag, str, page) ==
    LET saved == CursorAt(d, page)
        begun == IF row = 255 THEN SetCursorPos(d, saved.row, saved.col, page)
                 ELSE SetCursorPos(d, row, col, page)
        done  == Typed(begun, m, str, page)
    IN  IF flag % 2 = 0 THEN SetCursorPos(done, saved.row, saved.col, page) ELSE done
-----------------------------------------------------------------------------
(* The calls.                                                              *)

\* Bound: a call that takes a cursor below RowBound or far right is not made.
Fits(d) == \A p \in Pages : /\ CursorAt(d, p).row <= RowBound
                            /\ CursorAt(d, p).col <= d.bda.cols

\* set_cursor_pos(0, 0) on the pages 0 to 7: one of them is the active one.
HomeCursors(d) ==
    [d EXCEPT !.bda = [@ EXCEPT !.cursor = [p \in 0 .. 7 |-> [row |-> 0, col |-> 0]]],
              !.crtc = WritePair(@, 14, (d.bda.start \div 2) % 65536)]

\* AH=00h: every cursor goes home, then page 0 is shown.
ModeSet(d, m) == SetActivePage(HomeCursors(StoreModeInBios(d, m)), m, 0)

SetMode(m) ==
    /\ mode' = m
    /\ Becomes(ModeSet(Display, m))
    /\ tampered' = FALSE
    /\ UNCHANGED call

\* AH=02h.
SetCursor(row, col, page) ==
    /\ Becomes(SetCursorPos(Display, row, col, page))
    /\ UNCHANGED <<mode, call, tampered>>

\* AH=05h.
SelectPage(page) ==
    /\ Becomes(SetActivePage(Display, mode, page))
    /\ tampered' = FALSE
    /\ UNCHANGED <<mode, call>>

\* AH=09h (show) and AH=0Ah: the cursor stays where it is.
WriteChar(chr, attr, page, count, show) ==
    /\ cells' = CellsOf(Display, mode, chr, attr, page, count, show)
    /\ call' = [fn |-> "repeat", page |-> page, count |-> count]
    /\ UNCHANGED <<mode, bda, crtc, tampered>>

\* AH=0Eh.
Teletype(chr, attr, page) ==
    LET d == TeletypeOutputAttr(Display, mode, chr, attr, page, Modes[mode].kind # "TEXT")
    IN  /\ Fits(d)
        /\ Becomes(d)
        /\ call' = [fn |-> "teletype", page |-> page, chr |-> chr, from |-> bda.cursor]
        /\ UNCHANGED <<mode, tampered>>

\* AH=13h.
WriteString(row, col, flag, str, page) ==
    LET d == WriteStringTo(Display, mode, row, col, flag, str, page)
    IN  /\ Fits(d)
        /\ Becomes(d)
        /\ call' = [fn |-> "string", page |-> page, str |-> str, flag |-> flag, from |-> bda.cursor,
                    start |-> IF row = 255 THEN bda.cursor[page] ELSE [row |-> row, col |-> col]]
        /\ UNCHANGED <<mode, tampered>>

\* AX=1124h: rows and height change, the cells in memory do not.
LoadGraphicsChars(rows) ==
    /\ bda' = [bda EXCEPT !.cheight = 16, !.rows = rows]
    /\ UNCHANGED <<mode, crtc, cells, call, tampered>>

\* Ports 3D4h and 3D5h (and their mirrors): the data goes to the register
\* selected last, by the guest or by a call of the BIOS in between.
OutIndex(index) ==
    /\ crtc' = [crtc EXCEPT !.index = index % 32]
    /\ UNCHANGED <<mode, bda, cells, call, tampered>>

OutData(data) ==
    /\ crtc.index <= 24
    /\ crtc' = IF crtc.index \in 12 .. 15 THEN [crtc EXCEPT !.reg[crtc.index] = data] ELSE crtc
    /\ tampered' = (tampered \/ crtc.index \in 12 .. 15)
    /\ UNCHANGED <<mode, bda, cells, call>>

\* Back in the guest: the history of the call is forgotten.
Return ==
    /\ call # Idle
    /\ call' = Idle
    /\ cells' = <<>>
    /\ UNCHANGED <<mode, bda, crtc, tampered>>
-----------------------------------------------------------------------------
\* hard_reset sets mode 3 on a fresh machine.
Fresh ==
    [bda |-> [cols |-> 0, size |-> 0, start |-> 0, rows |-> 0, cheight |-> 0, page |-> 0,
              cursor |-> [p \in 0 .. 7 |-> [row |-> 0, col |-> 0]]],
     crtc |-> [index |-> 0, reg |-> [i \in 12 .. 15 |-> 0]],
     cells |-> <<>>]

ScreenInit ==
    /\ mode = 3
    /\ bda = ModeSet(Fresh, 3).bda
    /\ crtc = ModeSet(Fresh, 3).crtc
    /\ cells = <<>>
    /\ call = Idle
    /\ tampered = FALSE

Characters == Letters \cup {BS, CR, LF}

Rows == 0 .. RowBound - 1
Columns == 0 .. bda.cols

Call ==
    \/ \E m \in DOMAIN Modes : SetMode(m)
    \/ \E row \in Rows, col \in Columns, p \in Pages : SetCursor(row, col, p)
    \/ \E p \in Pages : SelectPage(p)
    \/ \E c \in Letters, a \in Attributes, p \in Pages, n \in Counts, show \in BOOLEAN :
          WriteChar(c, a, p, n, show)
    \/ \E c \in Characters, a \in Attributes, p \in Pages : Teletype(c, a, p)
    \/ \E row \in {0, 255}, col \in {0, bda.cols - 1}, flag \in 0 .. 1, s \in Strings, p \in Pages :
          WriteString(row, col, flag, s, p)
    \/ \E rows \in {13} : LoadGraphicsChars(rows)

Port ==
    \/ \E c \in Controls : OutIndex(c[1])
    \/ \E c \in Controls : OutData(c[2])

ScreenNext == (call = Idle /\ (Call \/ Port)) \/ Return

ScreenSpec == ScreenInit /\ [][ScreenNext]_screenVars
-----------------------------------------------------------------------------
(* Properties.                                                             *)

InLine(cursor) == cursor.col < bda.cols
OnScreen(cursor) == InLine(cursor) /\ cursor.row <= bda.rows
Position(cursor) == cursor.row * bda.cols + cursor.col

\* The reference place of the pos-th character of a page.
Place(page, pos) ==
    IF Modes[mode].kind = "TEXT" THEN <<page * bda.size + 2 * pos>>
    ELSE <<8 * (pos % bda.cols), bda.cheight * (pos \div bda.cols)>>

PlacesFrom(page, cursor, n) == [k \in 1 .. n |-> Place(page, Position(cursor) + k - 1)]
PlacesOf(written) == [k \in 1 .. Len(written) |-> written[k].at]

\* Unless the guest wrote those registers itself since a page was last
\* selected, the CRTC shows, in 16 bits, the start of the page the BIOS calls
\* active and puts the hardware cursor on the cursor of that page, whichever
\* pages the calls wrote to (set_active_page, set_cursor_pos).
HardwareShowsActivePage ==
    ~tampered =>
       /\ bda.start = (bda.page * bda.size) % 65536
       /\ Register(12) = IF mode < 8 THEN bda.start \div 2 ELSE bda.start
       /\ Register(14) = (Position(bda.cursor[bda.page]) + bda.start \div 2) % 65536

\* n characters from a cursor within its line end before the last row a byte
\* can count; and they end before the last place of the screen.
RoomFor(n, cursor) == InLine(cursor) /\ Position(cursor) + n < 256 * bda.cols
EndsOnScreen(n, cursor) ==
    RoomFor(n, cursor) /\ Position(cursor) + n < (bda.rows + 1) * bda.cols

\* A character written n times from a cursor within its line fills n
\* consecutive places of that page, over the ends of lines, and the cursor
\* stays (write_char, which does not look at the number of rows).
RepeatsRunOn ==
    call.fn = "repeat" =>
       LET on == IF Modes[mode].kind = "TEXT" THEN call.page ELSE call.page % Modes[mode].pages
       IN  RoomFor(call.count, bda.cursor[on]) =>
              PlacesOf(cells) = PlacesFrom(on, bda.cursor[on], call.count)

\* A string written without moving the cursor leaves every cursor as it was,
\* whatever is in it.  A string of printing characters that ends on the
\* screen stands in consecutive places, and if it moves the cursor leaves it
\* on the screen, after the last character (write_string,
\* teletype_output_attr).
StringsRunOn ==
    call.fn = "string" =>
       /\ call.flag = 0 => bda.cursor = call.from
       /\ (\A k \in DOMAIN call.str : call.str[k].chr \in Letters)
          /\ EndsOnScreen(Len(call.str), call.start) =>
             /\ PlacesOf(cells) = PlacesFrom(call.page, call.start, Len(call.str))
             /\ call.flag = 1 =>
                   /\ OnScreen(bda.cursor[call.page])
                   /\ Position(bda.cursor[call.page]) = Position(call.start) + Len(call.str)

\* Teletype output from a cursor on the screen leaves it on the screen: it
\* displays a character, "advancing the cursor and scrolling the screen as
\* necessary".  It is false of the code, which reads the number of rows
\* together with the byte behind it and never finds the last row.
TeletypeScrolls ==
    call.fn = "teletype" /\ OnScreen(call.from[call.page]) => OnScreen(bda.cursor[call.page])
=============================================================================
