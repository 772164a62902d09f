------------------------------- MODULE Screen -------------------------------
(***************************************************************************)
(* Double-buffered drawing (graphics/graphics_ctx.c, SetNthBit and its     *)
(* relatives in utils/misc.c, graphics/font.c).  Everything is drawn into  *)
(* a back buffer; the frame buffer is divided into NumRows cells of whole  *)
(* pixel rows, and a bit per cell says that it has to be copied.           *)
(*                                                                         *)
(* The graphics context is a value: each drawing function is an operator   *)
(* from contexts to contexts.  Pixels are addressed by their index in the  *)
(* buffer, as in the code, so that a rectangle too wide for the screen     *)
(* runs into the next row.  Indices behind the last pixel row are left     *)
(* out: the buffer has room for them and they are never shown.             *)
(*                                                                         *)
(* A pixel has 32 bits in the frame buffer.  PackRgb "assumes 32 bpp": at  *)
(* any other depth it returns 0 for every colour, and the widths in bytes  *)
(* (width * bpp / 8) are no longer those of the words of the back buffer.  *)
(* The kernel asks for 16 (kernel.c) and takes what it is given.           *)
(***************************************************************************)
EXTENDS Integers, Sequences

CONSTANTS
    Width, Height,  \* of the frame buffer, in pixels
    NumRows,        \* cells, 64 in the code
    IntBits,        \* bits of an int (32); the string of dirty bits has twice as many
    Font            \* [height, width, matrix : characters -> sets of <<column, row>>]

ASSUME ScreenConstants ==
    /\ {Width, Height, NumRows, IntBits} \subseteq Nat \ {0}
    /\ NumRows = 2 * IntBits
    /\ Height >= NumRows
    /\ {Font.height, Font.width} \subseteq Nat \ {0}
    /\ \A c \in DOMAIN Font.matrix :
          Font.matrix[c] \subseteq (0 .. Font.width - 1) \X (0 .. Font.height - 1)

row_height == Height \div NumRows

Pixels == 0 .. Width * Height - 1
Colours == {"black", "border", "background", "ink", "boot"}

\* InitGraphicsCtx: nothing is dirty.  What the bootloader left on the screen
\* is not in the back buffer, which is zero.
InitGraphicsCtx ==
    [buffer |-> [p \in Pixels |-> "black"],
     screen |-> [p \in Pixels |-> "boot"],
     dirty |-> {}]

PixelIndex(x, y) == x + y * Width

-----------------------------------------------------------------------------
(* Dirty bits. *)

\* Mutant: the int is unsigned, and nothing is extended.
SetNthBitUnsigned(bits, n) == bits \cup {n % IntBits}

\* SetNthBit shifts an int: the processor takes the distance modulo the
\* width of an int, and the sign bit is extended when the result is widened.
SetNthBit(bits, n) ==
    bits \cup IF n % IntBits = IntBits - 1
              THEN IntBits - 1 .. 2 * IntBits - 1
              ELSE {n % IntBits}

MarkRows(bits, first, last) ==
    bits \cup UNION {SetNthBit({}, i) : i \in first .. last}

\* Cells that DrawChar, and Transpose, mark for the pixel rows top .. bottom - 1.
Ceil(n, d) == (n + d - 1) \div d
MarkSpan(bits, top, bottom) ==
    MarkRows(bits, top \div row_height, Ceil(bottom, row_height) - 1)

-----------------------------------------------------------------------------
(* Drawing. *)

ClearScreen(ctx, colour) ==
    [ctx EXCEPT !.buffer = [p \in Pixels |-> colour],
                !.dirty = 0 .. 2 * IntBits - 1]

\* The cells marked reach one or two behind the last one drawn into.
DrawRect(ctx, x, y, width, height, colour) ==
    [ctx EXCEPT
        !.buffer = [p \in Pixels |->
            IF \E row \in 0 .. height - 1 :
                   p - PixelIndex(x, y + row) \in 0 .. width - 1
            THEN colour ELSE @[p]],
        !.dirty = MarkRows(@, y \div row_height,
                           (y + height) \div row_height
                              + (IF y % row_height = 0 THEN 1 ELSE 0))]

\* A glyph has no background: only its own pixels are set.
DrawChar(ctx, x, y, c) ==
    LET inked == {PixelIndex(x + g[1], y + g[2]) : g \in Font.matrix[c]}
    IN  [ctx EXCEPT
            !.buffer = [p \in Pixels |-> IF p \in inked THEN "ink" ELSE @[p]],
            !.dirty = MarkSpan(@, y, y + Font.height)]

\* memmove of count pixels within the buffer.
MovePixels(buffer, dest, src, count) ==
    [p \in Pixels |->
        IF p - dest \in 0 .. count - 1 /\ src + p - dest \in Pixels
        THEN buffer[src + p - dest] ELSE buffer[p]]

\* Rows are moved one by one from the top; the cells from the upper end of
\* the two rectangles to the lower end of both are marked.
Transpose(ctx, x, y, width, height, down, left) ==
    LET moved[row \in 0 .. height] ==
          IF row = 0 THEN ctx.buffer
          ELSE MovePixels(moved[row - 1], PixelIndex(x + left, y + row - 1 + down),
                          PixelIndex(x, y + row - 1), width)
    IN  [ctx EXCEPT
            !.buffer = moved[height],
            !.dirty = IF down > 0 THEN MarkSpan(@, y, y + height + down)
                                  ELSE MarkSpan(@, y + down, y + height)]

-----------------------------------------------------------------------------
(* Copying to the screen. *)

\* The cell of a pixel; those from NumRows on are never copied.
Cell(p) == (p \div Width) \div row_height

\* WriteBack copies every dirty cell, and ClearNthBit, which shifts a long,
\* clears its bit.
WriteBack(ctx) ==
    [ctx EXCEPT
        !.screen = [p \in Pixels |->
                       IF Cell(p) < NumRows /\ Cell(p) \in ctx.dirty
                       THEN ctx.buffer[p] ELSE @[p]],
        !.dirty = @ \ (0 .. NumRows - 1)]
=============================================================================
