------------------------------- MODULE Screen -------------------------------
(***************************************************************************)
(* The screen: console output in text mode (cgaputc), the video modes 12h  *)
(* and 13h, which use the same video memory for pictures (consolevgamode,  *)
(* setpixel, zeroFillScreen of console.c, sysvideo.c), and the programs    *)
(* that draw (draw.c, cutinto4.c, cutinto8.c).                             *)
(*                                                                         *)
(* Output holds cons.lock and is a step; the video system calls hold no    *)
(* lock and are interleaved with it and with each other.  Video memory is  *)
(* four planes of bytes.  The index of a character cell is its number, the *)
(* attribute bytes, all 7, are left out.                                   *)
(***************************************************************************)
EXTENDS Integers, SequencesExt

CONSTANTS
    Proc,
    WIDTH, HEIGHT,          \* of the text screen
    WIDTH12, WIDTH13,       \* pixels in a row of the two graphics modes
    BITS,                   \* pixels in a byte of a plane
    BYTE,                   \* values of a byte of the cursor's position
    LOWMEM,                 \* bytes from the window to the first megabyte's end
    Program,                \* programs: sequences of system calls
    Together,               \* bound: the programs that may overlap
    Key,                    \* keys that are echoed
    MaxRuns, MaxKeys,       \* bounds: programs started, keys typed,
    MaxKeysTogether         \* and keys typed when programs have overlapped

CELLS == WIDTH * HEIGHT
Cell == 0 .. CELLS - 1
Plane == 0 .. 3
NL == 10
SPACE == 32
BACKSPACE == 256
GLYPH == 170            \* the bytes of font_8x16

ASSUME ScreenAssumption ==
    /\ {WIDTH, WIDTH12, WIDTH13, BITS, BYTE, LOWMEM} \subseteq Nat \ {0}
    /\ HEIGHT \in Nat /\ HEIGHT > 2 /\ BYTE * BYTE > CELLS
    /\ Key \subseteq Nat \ {0, SPACE}
    /\ {MaxRuns, MaxKeys, MaxKeysTogether} \subseteq Nat

\* The number of a pixel on the screen, row by row.
Pixel(m, x, y) == (IF m = "vga12" THEN WIDTH12 ELSE WIDTH13) * y + x

\* Hypothesis on the programs: sys_setspecificpixel() checks neither x nor y,
\* and a pixel may be off the screen (cutinto4.c and cutinto8.c draw row 480 and
\* column 640), but not so far that its byte is beyond the video memory and the
\* ROM of the first megabyte, in the memory of the kernel.
ASSUME PixelAssumption ==
    /\ LOWMEM >= 4 * CELLS
    /\ \A prog \in Program : \A i \in DOMAIN prog :
          prog[i][1] = "setpixel" =>
              /\ Pixel("vga13", prog[i][2], prog[i][3]) \in 0 .. LOWMEM - 1
              /\ Pixel("vga12", prog[i][2], prog[i][3]) \in 0 .. BITS * LOWMEM - 1

VARIABLES
    vram,      \* video memory: the bytes of each plane
    regs,      \* the registers that say how the processor sees it
    cursor,    \* the cursor registers
    mode,      \* currentvgamode
    snap,      \* consoleSnapshot
    call,      \* what each process is doing
    typed,     \* keys echoed on the line that is being edited
    panicked,
    \* History: what a terminal without graphics would show, whether a
    \* character was erased in a graphics mode, whether characters were
    \* output while the screen was being copied (or it was not in order from
    \* the start), whether an access to the ports of the CRT controller was
    \* disturbed by another one, whether programs that change the mode
    \* overlapped, the calls meant for graphics modes that a program made in
    \* text mode, and the picture that was drawn.
    term, ghost, raced, clash, overlap, intext, picture,
    together, \* the program started last is in Together
    nruns, nkeys

vars == <<vram, regs, cursor, mode, snap, call, typed, panicked,
          term, ghost, raced, clash, overlap, intext, picture, together, nruns, nkeys>>

registers_80x25_text ==
    [write |-> {0, 1}, read |-> 0, layout |-> "oddeven", window |-> "B8000", cursor |-> WIDTH, ok |-> TRUE]
registers_320x200x256 ==
    [write |-> Plane, read |-> 0, layout |-> "chain4", window |-> "A0000", cursor |-> 0, ok |-> TRUE]
registers_640x480x16 ==
    [write |-> {3}, read |-> 3, layout |-> "planar", window |-> "A0000", cursor |-> 0, ok |-> TRUE]
Registers == [text |-> registers_80x25_text, vga12 |-> registers_640x480x16,
              vga13 |-> registers_320x200x256]
Mode == DOMAIN Registers

Blank == [k \in Cell |-> 0]
Font == [k \in Cell |-> GLYPH]
NoPicture == [valid |-> FALSE, colour |-> <<>>, twice |-> {}]
Idle == [todo |-> <<>>, at |-> "next", planes |-> <<>>, saved |-> registers_80x25_text,
         byte |-> 0, hit |-> FALSE]
running(p) == call[p].todo # <<>>
-----------------------------------------------------------------------------
\* Scrolls a screen up when its last line is reached; text is FALSE for the
\* snapshot, where the cell of the cursor is not blanked.
scrolled(s, text) ==
    LET scroll == s.pos \div WIDTH >= HEIGHT - 1
        pos == IF scroll THEN s.pos - WIDTH ELSE s.pos
        cells == IF ~scroll THEN s.cells
                 ELSE [k \in Cell |->
                         IF k >= pos /\ k < (HEIGHT - 1) * WIDTH THEN 0
                         ELSE IF k < (HEIGHT - 2) * WIDTH THEN s.cells[k + WIDTH]
                         ELSE s.cells[k]]
    IN  [s EXCEPT !.pos = pos, !.cells = IF text THEN [cells EXCEPT ![pos] = SPACE] ELSE cells]

\* "pos under/overflow"
checked(s, text) ==
    IF s.pos < 0 \/ s.pos > CELLS THEN [s EXCEPT !.pos = 0, !.over = TRUE] ELSE scrolled(s, text)

newline(s) == [s EXCEPT !.pos = @ + WIDTH - (@ % WIDTH)]

\* A write beyond the screen or the snapshot hits other memory.
stored(s, c) ==
    [s EXCEPT !.pos = @ + 1, !.cells = IF s.pos \in Cell THEN [@ EXCEPT ![s.pos] = c] ELSE @]


\* cgaputc() on a screen.
cgaputc(s, c, text) ==
    checked(IF c = NL THEN newline(s)
            ELSE IF c = BACKSPACE THEN [s EXCEPT !.pos = IF @ > 0 THEN @ - 1 ELSE 0]
            ELSE stored(s, c), text)

\* The characters of s, one after the other.
puts(scr, s, text) == FoldLeft(LAMBDA x, c : cgaputc(x, c, text), scr, s)

\* The plane in which the processor sees the characters, 0 in text mode; the
\* plane of the font while that is written, none if B8000 is not mapped.
TextPlanes ==
    IF regs.window # "B8000" THEN {}
    ELSE IF regs.layout = "oddeven" THEN regs.write \cap {0, 2} ELSE regs.write

\* The call that a program makes, and the mode it asks for.
target(p) == Head(call[p].todo)[2]

\* A process has copied the screen and not yet changed the mode.
Copying(p) ==
    IF mode = "text" THEN call[p].at \in {"takecursor", "registers", "mode"}
    ELSE call[p].at = "restorecursor" \/ (call[p].at = "mode" /\ target(p) = "text")

\* The position of the cursor is in two registers, 14 and 15, reached through
\* one index port.  A process at one of these labels may be in the middle of
\* such an access; another access meanwhile, also the output of an interrupt,
\* leaves the index of the one or the other register behind.  misread: what can
\* be read as the position c; mixed: what can become of old when c is written.
high(c) == c \div BYTE
low(c) == c % BYTE
misread(c) == {BYTE * a + b : a, b \in {high(c), low(c)}}
mixed(old, c) ==
    {c, BYTE * high(old) + low(c), BYTE * low(c) + low(old), BYTE * low(c) + high(c)}
AtPorts == {p \in Proc : call[p].at \in {"takecursor", "registers", "textregisters", "restorecursor"}}
disturbed(after, S) ==
    /\ call' = [q \in Proc |-> IF q \in S THEN [after[q] EXCEPT !.hit = TRUE] ELSE after[q]]
    /\ clash' = (clash \/ S # {})

\* Output of the characters s, with cons.lock held; after is call'.
Output(s, after) ==
    /\ \E c \in IF AtPorts = {} THEN {cursor} ELSE misread(cursor) :
          LET x == IF TextPlanes = {} THEN 0 ELSE CHOOSE y \in TextPlanes : TRUE
              display == [cells |-> vram[x], pos |-> c, over |-> FALSE]
              new == puts(IF mode = "text" THEN display ELSE snap, s, mode = "text")
          IN  /\ IF mode = "text"
                 THEN /\ vram' = [y \in Plane |-> IF y \in TextPlanes THEN new.cells ELSE vram[y]]
                      /\ cursor' \in IF AtPorts = {} THEN {new.pos} ELSE mixed(cursor, new.pos)
                      /\ UNCHANGED snap
                 ELSE snap' = [new EXCEPT !.over = FALSE] /\ UNCHANGED <<vram, cursor>>
              /\ panicked' = (panicked \/ new.over)
    /\ disturbed(after, AtPorts)
    /\ IF overlap \/ raced THEN UNCHANGED <<term, ghost, raced>>
       ELSE /\ term' = puts(term, s, TRUE)
            /\ ghost' = (ghost \/ (mode # "text" /\ BACKSPACE \in Range(s)))
            /\ raced' = (raced \/ \E p \in Proc : Copying(p))

quiet == UNCHANGED <<panicked, term, ghost, raced>>
noOutput == quiet /\ UNCHANGED clash
noBounds == UNCHANGED <<typed, together, nruns, nkeys>>

\* History: a call in text mode that restores or clears the screen.
InTextMode(name) ==
    intext' = IF mode = "text" /\ ~overlap THEN intext \cup {name} ELSE intext

\* consoleintr() echoes a key; a character that was typed can be erased.
Echo(c) ==
    /\ ~panicked /\ nkeys < IF overlap THEN MaxKeysTogether ELSE MaxKeys
    /\ c = BACKSPACE => typed > 0
    /\ Output(<<c>>, call)
    /\ typed' = IF c = NL THEN 0 ELSE IF c = BACKSPACE THEN typed - 1 ELSE typed + 1
    /\ nkeys' = nkeys + 1
    /\ UNCHANGED <<regs, mode, overlap, intext, picture, together, nruns>>
-----------------------------------------------------------------------------
\* The system calls of a program are taken one by one.
at(p, label) == ~panicked /\ call[p].at = label
went(p, label) == [call EXCEPT ![p].at = label, ![p].hit = FALSE]
go(p, label) == call' = went(p, label)
finished(p) == [call EXCEPT ![p].todo = Tail(@), ![p].at = "next", ![p].hit = FALSE]
done(p) == call' = finished(p)
calls(p, name) == running(p) /\ at(p, "next") /\ Head(call[p].todo)[1] = name
noScreen == UNCHANGED <<vram, regs, cursor, mode, snap>>

IsBlank(c) == c \in {0, SPACE}

\* The text, on the screen or in the snapshot that will be restored.
Text == IF mode = "text" THEN [cells |-> vram[0], pos |-> cursor, over |-> FALSE] ELSE snap

\* The text is as output leaves it.
InOrder ==
    /\ mode = "text" => regs = registers_80x25_text
    /\ Text.pos < (HEIGHT - 1) * WIDTH
    /\ \A k \in Text.pos .. CELLS - 1 : IsBlank(Text.cells[k])

\* A program starts.  Bound: at most two overlap, both in Together, and so is
\* the program that starts when others have disturbed each other.  When it
\* is the only one, the histories begin again from the text as it is.
Start(p, prog) ==
    /\ ~panicked /\ ~running(p) /\ nruns < MaxRuns
    /\ call' = [call EXCEPT ![p] = [Idle EXCEPT !.todo = prog]]
    /\ nruns' = nruns + 1
    /\ overlap' = \E q \in Proc : running(q)
    /\ overlap' => together /\ ~overlap /\ nkeys <= MaxKeysTogether
    /\ overlap' \/ overlap \/ clash => prog \in Together
    /\ together' = (prog \in Together)
    /\ term' = IF overlap' THEN [cells |-> Blank, pos |-> 0, over |-> FALSE] ELSE Text
    /\ raced' = ~InOrder
    /\ clash' = (clash /\ (overlap' \/ ~({cursor, snap.pos} \subseteq Cell)))
    /\ ghost' = FALSE /\ intext' = {} /\ picture' = NoPicture
    /\ UNCHANGED <<panicked, typed, nkeys>> /\ noScreen

\* write() to the console, cprintf(): all of it is output with cons.lock held.
Write(p) ==
    /\ calls(p, "write")
    /\ Output(target(p), finished(p))
    /\ UNCHANGED <<regs, mode, overlap, intext, picture>> /\ noBounds

\* Mutant: the snapshot is taken in any mode.
VideoModeTakes(p) ==
    /\ calls(p, "videomode")
    /\ IF target(p) = "text"
       THEN go(p, "textregisters") /\ InTextMode("videomodetext") /\ UNCHANGED snap
       ELSE snap' = [snap EXCEPT !.cells = vram[0]] /\ go(p, "takecursor") /\ UNCHANGED intext
    /\ UNCHANGED <<vram, regs, cursor, mode, overlap, picture>> /\ noOutput /\ noBounds

\* consolevgamode(): to a graphics mode by way of snapshotTextTake(), which
\* does nothing unless the mode is text, to text by way of writeFont() and
\* snapshotTextRestore().
VideoMode(p) ==
    /\ calls(p, "videomode")
    /\ IF target(p) = "text"
       THEN go(p, "textregisters") /\ InTextMode("videomodetext") /\ UNCHANGED snap
       ELSE IF mode = "text"
       THEN snap' = [snap EXCEPT !.cells = vram[0]] /\ go(p, "takecursor") /\ UNCHANGED intext
       ELSE go(p, "registers") /\ UNCHANGED <<snap, intext>>
    /\ UNCHANGED <<vram, regs, cursor, mode, overlap, picture>> /\ noOutput /\ noBounds

\* The processes that an access of p to the ports may disturb, or be disturbed by.
others(p) == AtPorts \ {p}
exact(p) == ~call[p].hit /\ others(p) = {}

TakeCursor(p) ==
    /\ at(p, "takecursor")
    /\ \E c \in IF exact(p) THEN {cursor} ELSE misread(cursor) : snap' = [snap EXCEPT !.pos = c]
    /\ disturbed(went(p, "registers"), others(p))
    /\ UNCHANGED <<vram, regs, cursor, mode, overlap, intext, picture>> /\ quiet /\ noBounds

\* A value meant for another register goes to that of the cursor (ok: none did).
writeVideoRegisters(p, label) ==
    LET new == Registers[target(p)] IN
    /\ regs' \in {[new EXCEPT !.ok = b] : b \in IF exact(p) THEN {TRUE} ELSE BOOLEAN}
    /\ cursor' \in IF regs'.ok THEN {new.cursor} ELSE {BYTE * high(new.cursor) + b : b \in 0 .. BYTE - 1}
    /\ disturbed(went(p, label), others(p))
    /\ picture' = NoPicture
    /\ UNCHANGED <<vram, mode, snap, overlap, intext>> /\ quiet /\ noBounds

GraphicsRegisters(p) == at(p, "registers") /\ writeVideoRegisters(p, "mode")
TextRegisters(p) == at(p, "textregisters") /\ writeVideoRegisters(p, "font")

consolevgaplane(r, plane) == [r EXCEPT !.read = plane, !.write = {plane}]

\* Mutant: the font is not written.
WriteFontNot(p) ==
    /\ at(p, "font")
    /\ call' = [call EXCEPT ![p].at = "fontdone", ![p].saved = regs]
    /\ regs' = consolevgaplane([regs EXCEPT !.layout = "planar"], 2)
    /\ UNCHANGED <<vram, cursor, mode, snap, overlap, intext, picture>> /\ noOutput /\ noBounds

\* writeFont() saves the registers, selects plane 2 and writes the font;
WriteFont(p) ==
    /\ at(p, "font")
    /\ call' = [call EXCEPT ![p].at = "fontdone", ![p].saved = regs]
    /\ regs' = consolevgaplane([regs EXCEPT !.layout = "planar"], 2)
    /\ vram' = [vram EXCEPT ![2] = IF regs.window = "B8000" THEN Font ELSE @]
    /\ UNCHANGED <<cursor, mode, snap, overlap, intext, picture>> /\ noOutput /\ noBounds

\* then it restores the registers.
FontDone(p) ==
    /\ at(p, "fontdone")
    /\ regs' = call[p].saved
    /\ go(p, "restore")
    /\ UNCHANGED <<vram, cursor, mode, snap, overlap, intext, picture>> /\ noOutput /\ noBounds

SnapshotTextRestore(p) ==
    /\ at(p, "restore")
    /\ vram' = [x \in Plane |-> IF x \in TextPlanes THEN snap.cells ELSE vram[x]]
    /\ go(p, "restorecursor")
    /\ UNCHANGED <<regs, cursor, mode, snap, overlap, intext, picture>> /\ noOutput /\ noBounds

RestoreCursor(p) ==
    /\ at(p, "restorecursor")
    /\ cursor' \in IF exact(p) THEN {snap.pos} ELSE mixed(cursor, snap.pos)
    /\ disturbed(went(p, "mode"), others(p))
    /\ UNCHANGED <<vram, regs, mode, snap, overlap, intext, picture>> /\ quiet /\ noBounds

SetMode(p) ==
    /\ at(p, "mode")
    /\ mode' = target(p) /\ done(p)
    /\ UNCHANGED <<vram, regs, cursor, snap, overlap, intext, picture>> /\ noOutput /\ noBounds
-----------------------------------------------------------------------------
\* The bytes that a write to address a of the window reaches.
Place(r, a) ==
    IF r.layout = "oddeven" THEN {<<x, a \div 2>> : x \in {y \in r.write : y % 2 = a % 2}}
    ELSE IF r.layout = "chain4" THEN {<<x, a \div 4>> : x \in r.write \cap {a % 4}}
    ELSE r.write \X {a}

\* Bytes beyond the screen are not shown (PixelAssumption: they are not memory
\* of the kernel).
Poke(v, r, a, byte) ==
    [x \in Plane |-> [k \in Cell |-> IF <<x, k>> \in Place(r, a) THEN byte ELSE v[x][k]]]

\* The byte that is read there; what lies beyond the screen does not matter.
Peek(v, r, a) ==
    LET place == IF r.layout = "oddeven" THEN <<2 * (r.read \div 2) + (a % 2), a \div 2>>
                 ELSE IF r.layout = "chain4" THEN <<a % 4, a \div 4>> ELSE <<r.read, a>>
    IN  IF place[2] \in Cell THEN v[place[1]][place[2]] ELSE 0

\* Mutant: the order of the planes is reversed.
planesReversed(colour) ==
    SelectSeq(<<0, 1, 2, 3>>, LAMBDA x : (colour \div 2 ^ (3 - x)) % 2 = 1)

\* The planes that setpixel() writes for a colour, in that order.
planes(colour) ==
    LET bit0 == colour >= 8
        c1 == IF bit0 THEN colour - 8 ELSE colour
        bit1 == c1 >= 4
        c2 == IF bit1 THEN c1 - 4 ELSE c1
        bit2 == c2 >= 2
        c3 == IF bit2 THEN c2 - 2 ELSE c2
        bits == <<c3 >= 1, bit2, bit1, bit0>>
    IN  SelectSeq(<<0, 1, 2, 3>>, LAMBDA x : bits[x + 1])

binaryStuff(x) == 2 ^ (BITS - 1 - (x % BITS))

pixel(p) == Head(call[p].todo)   \* <<"setpixel", x, y, colour>>

\* History: pixel n of the picture gets a colour.
painted(n, colour) ==
    IF n \notin DOMAIN picture.colour THEN picture
    ELSE [picture EXCEPT !.colour[n] = colour,
              !.twice = IF picture.colour[n] # 0 THEN @ \cup {n \div BITS} ELSE @]

SetPixel(p) ==
    LET px == pixel(p)
        n == Pixel(mode, px[2], px[3])
    IN  /\ calls(p, "setpixel")
        /\ IF mode = "vga13" /\ regs.window = "A0000"
           THEN vram' = Poke(vram, regs, n, px[4]) ELSE UNCHANGED vram
        /\ IF mode = "vga12" /\ planes(px[4]) # <<>>
           THEN call' = [call EXCEPT ![p].at = "plane", ![p].planes = planes(px[4])]
           ELSE done(p)
        /\ picture' = IF mode = "vga13" \/ (mode = "vga12" /\ planes(px[4]) # <<>>)
                      THEN painted(n, px[4]) ELSE picture
        /\ UNCHANGED <<regs, cursor, mode, snap, overlap, intext>> /\ noOutput /\ noBounds

\* For each plane of the colour in mode 12h: the plane is selected, the byte
\* of the pixel is read, and it is written with the bit of the pixel added.
PixelPlane(p) ==
    /\ at(p, "plane")
    /\ regs' = consolevgaplane(regs, Head(call[p].planes))
    /\ go(p, "read")
    /\ UNCHANGED <<vram, cursor, mode, snap, overlap, intext, picture>> /\ noOutput /\ noBounds

targetByte(p) == Pixel("vga12", pixel(p)[2], pixel(p)[3]) \div BITS

\* memmove() copies 8 bytes to the int byteFromMemory, of which the first, the
\* byte of the pixel, is what memset() writes back.  The four bytes beyond the
\* int are unused in the stack frame of the build (kernel.asm: byteFromMemory is
\* at -0x1c(%ebp), the saved registers begin at -0xc(%ebp)).
PixelRead(p) ==
    /\ at(p, "read")
    /\ call' = [call EXCEPT ![p].at = "write", ![p].byte = Peek(vram, regs, targetByte(p))]
    /\ UNCHANGED <<overlap, intext, picture>> /\ noScreen /\ noOutput /\ noBounds

PixelWrite(p) ==
    LET rest == Tail(call[p].planes) IN
    /\ at(p, "write")
    /\ vram' = Poke(vram, regs, targetByte(p),
                    (call[p].byte + binaryStuff(pixel(p)[2])) % 2 ^ BITS)
    /\ call' = [call EXCEPT ![p] =
          IF rest # <<>> THEN [@ EXCEPT !.at = "plane", !.planes = rest, !.byte = 0]
          ELSE [@ EXCEPT !.at = "next", !.planes = <<>>, !.byte = 0, !.todo = Tail(@)]]
    /\ UNCHANGED <<regs, cursor, mode, snap, overlap, intext, picture>> /\ noOutput /\ noBounds

\* A picture in which nothing has been drawn.
Cleared(npixels) == [valid |-> TRUE, colour |-> [n \in 0 .. npixels - 1 |-> 0], twice |-> {}]

\* zeroFillScreen13h() writes 128000 bytes from A0000, all of the window that
\* any mode has, the text screen at B8000 too.
ClearScreen13h(p) ==
    /\ calls(p, "clearscreen13h")
    /\ vram' = [x \in Plane |-> IF x \in regs.write THEN Blank ELSE vram[x]]
    /\ picture' = IF mode = "vga13" /\ ~overlap THEN Cleared(4 * CELLS) ELSE NoPicture
    /\ InTextMode("clearscreen13h")
    /\ done(p)
    /\ UNCHANGED <<regs, cursor, mode, snap, overlap>> /\ noOutput /\ noBounds

\* zeroFillScreen12h(), a step for each plane; call.byte is planeNo.  It writes
\* 307200 bytes from the window on.  From A0000 these end before the first
\* megabyte does; from B8000 they run into the text of the kernel, which is
\* mapped read-only: a page fault, panic "trap".
FillPlane(p, last) ==
    LET planeNo == call[p].byte IN
    /\ calls(p, "clearscreen12h")
    /\ regs' = consolevgaplane(regs, planeNo)
    /\ InTextMode("clearscreen12h")
    /\ IF regs.window = "B8000"
       THEN panicked' = TRUE /\ UNCHANGED <<vram, call, picture>>
       ELSE /\ vram' = [vram EXCEPT ![planeNo] = Blank]
            /\ IF planeNo < last
               THEN call' = [call EXCEPT ![p].byte = @ + 1] /\ picture' = NoPicture
               ELSE /\ call' = [call EXCEPT ![p].byte = 0, ![p].todo = Tail(@)]
                    /\ picture' = IF mode = "vga12" /\ ~overlap THEN Cleared(BITS * CELLS)
                                  ELSE NoPicture
            /\ UNCHANGED panicked
    /\ UNCHANGED <<cursor, mode, snap, term, ghost, raced, clash, overlap>> /\ noBounds

ClearScreen12h(p) == FillPlane(p, 3)
-----------------------------------------------------------------------------
Abs(i) == IF i < 0 THEN -i ELSE i

\* DrawLine(): the setspecificpixel() calls that it makes.
RECURSIVE Line(_, _, _, _, _, _)
Line(x, y, x1, y1, err, c) ==
    LET d == c.d
        up == err < d[2]
        along == err > -d[1]
    IN  <<<<"setpixel", x, y, c.colour>>>> \o
        IF x = x1 /\ y = y1 THEN <<>>
        ELSE Line(IF along THEN x + c.s[1] ELSE x, IF up THEN y + c.s[2] ELSE y, x1, y1,
                  (IF up THEN err + d[1] ELSE err) - (IF along THEN d[2] ELSE 0), c)

DrawLine(x0, y0, x1, y1, colour) ==
    LET dx == Abs(x1 - x0)
        dy == Abs(y1 - y0)
        sign(a, b) == IF a < b THEN 1 ELSE -1
    IN  Line(x0, y0, x1, y1, IF dx > dy THEN dx \div 2 ELSE -(dy \div 2),
             [d |-> <<dx, dy>>, s |-> <<sign(x0, x1), sign(y0, y1)>>, colour |-> colour])

\* sys_videomodevga12(), sys_videomodevga13() and sys_videomodetext() report
\* the mode, the last before it changes, the others after.
message == <<77, NL>>
videomodevga12 == <<<<"videomode", "vga12">>, <<"write", message>>>>
videomodevga13 == <<<<"videomode", "vga13">>, <<"write", message>>>>
videomodetext == <<<<"write", message>>, <<"videomode", "text">>>>
-----------------------------------------------------------------------------
Init ==
    /\ vram = [x \in Plane |-> IF x = 2 THEN Font ELSE Blank]
    /\ regs = registers_80x25_text
    /\ cursor = 0 /\ mode = "text"
    /\ snap = [cells |-> Blank, pos |-> 0, over |-> FALSE]
    /\ call = [p \in Proc |-> Idle]
    /\ typed = 0 /\ panicked = FALSE
    /\ term = snap
    /\ ghost = FALSE /\ raced = FALSE /\ clash = FALSE /\ overlap = FALSE
    /\ intext = {}
    /\ picture = NoPicture
    /\ together = FALSE /\ nruns = 0 /\ nkeys = 0

Next ==
    \/ \E c \in Key \cup {BACKSPACE} : Echo(c)
    \/ \E p \in Proc :
          \/ \E prog \in Program : Start(p, prog)
          \/ Write(p) \/ VideoMode(p) \/ TakeCursor(p) \/ GraphicsRegisters(p)
          \/ TextRegisters(p) \/ WriteFont(p) \/ FontDone(p)
          \/ SnapshotTextRestore(p) \/ RestoreCursor(p) \/ SetMode(p)
          \/ SetPixel(p) \/ PixelPlane(p) \/ PixelRead(p) \/ PixelWrite(p)
          \/ ClearScreen13h(p) \/ ClearScreen12h(p)

Spec == Init /\ [][Next]_vars
-----------------------------------------------------------------------------
\* A position that was torn can be one that is not on the screen.
TypeOK ==
    /\ vram \in [Plane -> [Cell -> 0 .. 255]]
    /\ regs \in [write : SUBSET Plane, read : Plane, layout : {"oddeven", "chain4", "planar"},
                 window : {"A0000", "B8000"}, cursor : Cell, ok : BOOLEAN]
    /\ cursor \in 0 .. BYTE * BYTE - 1 /\ mode \in Mode
    /\ snap \in [cells : [Cell -> 0 .. 255], pos : 0 .. BYTE * BYTE - 1, over : {FALSE}]
    /\ {cursor, snap.pos} \subseteq Cell \/ clash
    /\ DOMAIN call = Proc /\ \A p \in Proc : call[p].byte \in 0 .. 255
    /\ typed \in Nat /\ intext \subseteq {"videomodetext", "clearscreen13h", "clearscreen12h"}

\* However output, mode changes and drawing are interleaved, the kernel panics
\* only in two ways, which the run both reaches: cgaputc() with "pos
\* under/overflow" after the accesses to the cursor registers by
\* consolevgamode(), which does not hold cons.lock, were disturbed by output or
\* by another mode change, and only then is the cursor off the screen; and
\* zeroFillScreen12h() with "trap" when it is called in text mode.
NoPanic == TypeOK /\ (panicked => clash \/ "clearscreen12h" \in intext)

\* No program, or one program at a time, changes the mode.  Then everything
\* that is output, in whatever mode, is on the screen or in the snapshot that
\* will be restored, where a terminal without graphics would show it, also
\* when a program ends without setting the text mode again.  Excepted are what
\* is output while the screen is copied (consolevgamode() does not hold
\* cons.lock), characters that were erased in a graphics mode, which may still
\* be there, and a program that calls videomodetext() or clearscreen13h() in text
\* mode: consolevgamode(0x03) does not test the mode as snapshotTextTake() does
\* and replaces the screen by the last snapshot, and zeroFillScreen13h() clears it.
NothingLost ==
    LET settled == mode = "text" => \A p \in Proc : ~Copying(p)
    IN  ~raced /\ ~overlap /\ intext = {} /\ settled =>
            /\ Text.pos = term.pos
            /\ \A k \in Cell : \/ Text.cells[k] = term.cells[k]
                               \/ IsBlank(term.cells[k]) /\ (ghost \/ IsBlank(Text.cells[k]))

\* When no program runs and the mode is text, whatever programs that used the
\* graphics modes alone have drawn or called, also after programs that disturbed
\* each other and after one that ended in a graphics mode, text can be read: the
\* registers and the font, which pictures overwrite, are those of the text mode.
\* Only the font may not be, after a program that called videomodetext() in text
\* mode: then output goes to the plane in which writeFont() writes.
LegibleAtRest ==
    ~overlap /\ ~clash /\ mode = "text" /\ (\A p \in Proc : ~running(p)) =>
        /\ regs = registers_80x25_text
        /\ vram[2] = Font \/ "videomodetext" \in intext

\* The colour that the display shows at pixel n.
Shown(n) ==
    IF mode = "vga13" THEN vram[n % 4][n \div 4]
    ELSE LET bit(x) == (vram[x][n \div BITS] \div 2 ^ (BITS - 1 - (n % BITS))) % 2
         IN  bit(0) + 2 * bit(1) + 4 * bit(2) + 8 * bit(3)

\* Between two calls of a program that uses the screen alone, the display
\* shows exactly the pixels drawn since the screen was cleared, whatever is
\* output meanwhile and whatever pixels off the screen (PixelAssumption) are
\* drawn.  In mode 12h this is not so for the byte of a pixel that is drawn
\* twice: setpixel() adds the bit of the pixel to the byte.
PictureIsDrawn ==
    ~overlap /\ picture.valid /\ (\A p \in Proc : call[p].at = "next") =>
        \A n \in DOMAIN picture.colour :
            \/ mode = "vga12" /\ n \div BITS \in picture.twice
            \/ Shown(n) = IF mode = "vga12" /\ picture.colour[n] > 15 THEN 15
                          ELSE picture.colour[n]
=============================================================================
