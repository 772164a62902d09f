--------------------------- MODULE ConsoleProofs ----------------------------
(***************************************************************************)
(* What holds of the keyboard interrupt and of the terminal behind it, for *)
(* any number of keys in any order.                                        *)
(*                                                                         *)
(* The window in which a key is fatal, and the flags of the keys, do not   *)
(* depend on what is drawn.  The rest is about screens and fonts whose     *)
(* sizes go together in ways that are stated where they are needed: first  *)
(* what each drawing function does to a pixel and to the dirty cells, then *)
(* what each function of the terminal does to the cursor and to the two    *)
(* buffers, and at last what it does to the text that the pixels show.     *)
(***************************************************************************)
EXTENDS Console, NumberFacts

\* The order in which _start reaches its statements decides what an interrupt
\* finds: the entry is unmasked from "consume" on, the consumer set at "halt".
WindowInv ==
    /\ masked = ~(pc \in {"consume", "halt"})
    /\ consumer = (pc = "halt")
    /\ crashed \in BOOLEAN
    /\ crashed => pc = "consume"

\* KEY_INFO follows the keys that are down.  A key may go down while IRQ 1 is
\* masked and come up after it is not, so KEY_INFO has to be clear until then.
FlagInv ==
    /\ info \in [Flags -> BOOLEAN]
    /\ held \subseteq Keys
    /\ masked => \A f \in Flags : ~info[f]
    /\ NoStuckFlags

\* Every key has a flag of KEY_INFO.
LEMMA FlagOfKey == \A key \in Keys : FlagOf(key) \in Flags
BY ConsoleConstants DEF FlagOf, Keys, Flags, ConsoleConstants

LEMMA InitWindow == Init => WindowInv
BY DEF Init, WindowInv

LEMMA NextWindow == WindowInv /\ [Next]_vars => WindowInv'
<1> SUFFICES ASSUME WindowInv, [Next]_vars PROVE WindowInv'
    OBVIOUS
<1>1. CASE Boot
    BY <1>1 DEF Boot, WindowInv
<1>2. ASSUME NEW key \in Keys, Press(key) \/ Release(key) PROVE WindowInv'
    <2> PICK pressed \in BOOLEAN : Interrupt(key, pressed) /\ ~crashed
        BY <1>2, Zenon DEF Press, Release
    <2>1. CASE masked
        BY <2>1 DEF Interrupt, WindowInv
    <2>2. CASE ~masked
        <3>1. Isr1Handler(key, pressed)
            BY <2>2 DEF Interrupt
        <3>2. UNCHANGED <<consumer, masked, pc>>
            BY <3>1, Zenon DEF Isr1Handler
        <3>3. crashed' = ~consumer \/ crashed' = crashed
            BY <3>1, Zenon DEF Isr1Handler
        <3>4. crashed' \in BOOLEAN
            BY <3>3 DEF WindowInv
        <3>5. pc \in {"consume", "halt"}
            BY <2>2 DEF WindowInv
        <3>6. crashed' => pc = "consume"
            <4>1. CASE pc = "halt"
                <5>1. consumer
                    BY <4>1 DEF WindowInv
                <5> QED BY <3>3, <5>1
            <4> QED BY <3>5, <4>1
        <3> QED BY <3>2, <3>4, <3>6 DEF WindowInv
    <2> QED BY <2>1, <2>2
<1>3. CASE UNCHANGED vars
    BY <1>3 DEF vars, WindowInv
<1> QED BY <1>1, <1>2, <1>3 DEF Next

LEMMA InitFlags == Init => FlagInv
BY DEF Init, FlagInv, NoStuckFlags, Flags, Keys

LEMMA NextFlags == WindowInv /\ FlagInv /\ [Next]_vars => FlagInv'
<1> SUFFICES ASSUME WindowInv, FlagInv, [Next]_vars PROVE FlagInv'
    OBVIOUS
<1>1. CASE Boot
    <2>1. UNCHANGED <<info, held>> /\ (masked' => masked)
        BY <1>1 DEF Boot, WindowInv
    <2> QED BY <2>1 DEF FlagInv, NoStuckFlags
<1>2. ASSUME NEW key \in Keys, NEW pressed \in BOOLEAN, Interrupt(key, pressed),
             held' = IF pressed THEN held \cup {key} ELSE held \ {key}
      PROVE  FlagInv'
    <2> PICK mine \in Flags : mine = FlagOf(key)
        BY FlagOfKey
    <2>1. CASE masked
        <3>1. UNCHANGED <<info, masked>>
            BY <1>2, <2>1 DEF Interrupt
        <3>2. held' \subseteq Keys
            BY <1>2 DEF FlagInv
        <3> QED BY <2>1, <3>1, <3>2 DEF FlagInv, NoStuckFlags
    <2>2. CASE ~masked
        <3>1. Isr1Handler(key, pressed)
            BY <1>2, <2>2 DEF Interrupt
        <3>2. info' = [info EXCEPT ![mine] = pressed] /\ masked' = masked
            BY <3>1, Zenon DEF Isr1Handler
        <3>3. info' \in [Flags -> BOOLEAN] /\ held' \subseteq Keys
            BY <1>2, <3>2 DEF FlagInv
        <3>4. ASSUME NEW f \in Flags, info'[f] PROVE \E k \in held' : FlagOf(k) = f
            <4>1. CASE f = mine
                <5>1. pressed
                    BY <3>2, <3>4, <4>1 DEF FlagInv
                <5>2. key \in held' /\ FlagOf(key) = f
                    BY <1>2, <4>1, <5>1
                <5> QED BY <5>2
            <4>2. CASE f # mine
                <5>1. info[f]
                    BY <3>2, <3>4, <4>2 DEF FlagInv
                <5> PICK other \in held : FlagOf(other) = f
                    BY <5>1, Zenon DEF FlagInv, NoStuckFlags
                <5>2. other # key
                    BY <4>2
                <5> QED BY <1>2, <5>2
            <4> QED BY <4>1, <4>2
        <3> QED BY <2>2, <3>2, <3>3, <3>4 DEF FlagInv, NoStuckFlags
    <2> QED BY <2>1, <2>2
<1>3. ASSUME NEW key \in Keys, Press(key) PROVE FlagInv'
    BY <1>2, <1>3 DEF Press
<1>4. ASSUME NEW key \in Keys, Release(key) PROVE FlagInv'
    BY <1>2, <1>4 DEF Release
<1>5. CASE UNCHANGED vars
    BY <1>5 DEF vars, FlagInv, NoStuckFlags
<1> QED BY <1>1, <1>3, <1>4, <1>5 DEF Next

\* No modifier or control key stays on in KEY_INFO once no key that sets it is
\* down, although two keys share the shift flag and a key may have gone down
\* before IRQ 1 was unmasked.
THEOREM FlagsSafe == Spec => []NoStuckFlags
<1>1. FlagInv => NoStuckFlags
    BY DEF FlagInv
<1> QED BY <1>1, InitWindow, NextWindow, InitFlags, NextFlags, PTL DEF Spec

-----------------------------------------------------------------------------
(* Pixels, rows and cells. *)

LEMMA ScreenFacts ==
  /\ Width \in Nat \ {0} /\ Height \in Nat \ {0}
  /\ NumRows \in Nat \ {0} /\ IntBits \in Nat \ {0} /\ NumRows = 2 * IntBits
  /\ Font.width \in Nat \ {0} /\ Font.height \in Nat \ {0}
  /\ Thickness \in Nat
  /\ row_height \in Nat \ {0}
<1>1. Width \in Nat \ {0} /\ Height \in Nat \ {0} /\ NumRows \in Nat \ {0} /\ Height >= NumRows
    BY ScreenConstants DEF ScreenConstants
<1>2. Height \div NumRows \in Nat \ {0}
    BY <1>1
<1> QED BY <1>1, <1>2, ScreenConstants, TerminalConstants
        DEF ScreenConstants, TerminalConstants, row_height

LEMMA Quotient ==
  ASSUME NEW a \in Nat, NEW d \in Nat \ {0}
  PROVE  a \div d \in Nat /\ a % d \in 0 .. d - 1 /\ a = d * (a \div d) + (a % d)
OBVIOUS

LEMMA QuotientIs ==
  ASSUME NEW d \in Nat \ {0}, NEW q \in Nat, NEW r \in 0 .. d - 1
  PROVE  (r + q * d) \div d = q /\ (r + q * d) % d = r
OBVIOUS

LEMMA QuotientMonotone ==
  ASSUME NEW d \in Nat \ {0}, NEW a \in Nat, NEW b \in Nat, a <= b
  PROVE  a \div d <= b \div d
OBVIOUS

LEMMA QuotientBelow ==
  ASSUME NEW d \in Nat \ {0}, NEW a \in Nat, NEW k \in Nat
  PROVE  a < k * d <=> a \div d < k
OBVIOUS

Row(p) == p \div Width
Col(p) == p % Width

\* A pixel is given by its row and its column.
LEMMA PixelPlace ==
  ASSUME NEW p \in Pixels
  PROVE  /\ Row(p) \in 0 .. Height - 1 /\ Col(p) \in 0 .. Width - 1
         /\ p = PixelIndex(Col(p), Row(p))
         /\ p \in Nat
<1>1. p \in Nat /\ p < Height * Width
    BY ScreenFacts DEF Pixels
<1>2. Row(p) < Height
    BY <1>1, ScreenFacts, QuotientBelow DEF Row
<1>3. Row(p) \in Nat /\ Col(p) \in 0 .. Width - 1 /\ p = Width * Row(p) + Col(p)
    BY <1>1, ScreenFacts, Quotient DEF Row, Col
<1>4. p = Col(p) + Row(p) * Width
    BY <1>3, ScreenFacts
<1> QED BY <1>1, <1>2, <1>3, <1>4, ScreenFacts DEF PixelIndex

LEMMA PlacePixel ==
  ASSUME NEW x \in 0 .. Width - 1, NEW y \in Nat
  PROVE  /\ PixelIndex(x, y) \in Nat
         /\ Row(PixelIndex(x, y)) = y /\ Col(PixelIndex(x, y)) = x
         /\ y < Height => PixelIndex(x, y) \in Pixels
<1>1. PixelIndex(x, y) \in Nat
    BY ScreenFacts DEF PixelIndex
<1>2. Row(PixelIndex(x, y)) = y /\ Col(PixelIndex(x, y)) = x
    BY ScreenFacts, QuotientIs DEF Row, Col, PixelIndex
<1>3. y < Height => PixelIndex(x, y) < Height * Width
    BY <1>1, <1>2, ScreenFacts, QuotientBelow DEF Row
<1> QED BY <1>1, <1>2, <1>3, ScreenFacts DEF Pixels

\* Where a run of pixels that starts at (x, y) and stays in its row lies.
LEMMA RunPlace ==
  ASSUME NEW p \in Pixels, NEW x \in Nat, NEW y \in Nat, NEW w \in Int, x + w <= Width
  PROVE  p - PixelIndex(x, y) \in 0 .. w - 1 <=> Row(p) = y /\ Col(p) \in x .. x + w - 1
<1>1. ASSUME p - PixelIndex(x, y) \in 0 .. w - 1
      PROVE  Row(p) = y /\ Col(p) \in x .. x + w - 1
    <2> DEFINE d == p - PixelIndex(x, y)
    <2>1. d \in 0 .. w - 1 /\ p = PixelIndex(x + d, y) /\ x + d \in 0 .. Width - 1
        BY <1>1, ScreenFacts, PixelPlace DEF PixelIndex
    <2> QED BY <2>1, PlacePixel
<1>2. ASSUME Row(p) = y, Col(p) \in x .. x + w - 1
      PROVE  p - PixelIndex(x, y) \in 0 .. w - 1
    <2>1. p = PixelIndex(Col(p), y)
        BY <1>2, PixelPlace
    <2>2. p - PixelIndex(x, y) = Col(p) - x
        BY <1>2, <2>1, ScreenFacts DEF PixelIndex
    <2> QED BY <1>2, <2>2
<1> QED BY <1>1, <1>2

\* The pixels of a rectangle.
InRect(p, x, y, w, h) == Row(p) \in y .. y + h - 1 /\ Col(p) \in x .. x + w - 1

LEMMA RectPlace ==
  ASSUME NEW p \in Pixels, NEW x \in Nat, NEW y \in Nat, NEW w \in Int, NEW h \in Nat, x + w <= Width
  PROVE  (\E row \in 0 .. h - 1 : p - PixelIndex(x, y + row) \in 0 .. w - 1) <=> InRect(p, x, y, w, h)
<1>1. \A row \in 0 .. h - 1 : p - PixelIndex(x, y + row) \in 0 .. w - 1
                                <=> Row(p) = y + row /\ Col(p) \in x .. x + w - 1
    <2> TAKE row \in 0 .. h - 1
    <2>1. y + row \in Nat
        OBVIOUS
    <2> QED BY <2>1, RunPlace
<1>2. Row(p) \in Nat
    BY PixelPlace
<1>3. ASSUME InRect(p, x, y, w, h)
      PROVE  \E row \in 0 .. h - 1 : p - PixelIndex(x, y + row) \in 0 .. w - 1
    <2>1. Row(p) - y \in 0 .. h - 1 /\ Row(p) = y + (Row(p) - y)
        BY <1>2, <1>3 DEF InRect
    <2> QED BY <1>1, <1>3, <2>1 DEF InRect
<1>4. ASSUME NEW row \in 0 .. h - 1, p - PixelIndex(x, y + row) \in 0 .. w - 1
      PROVE  InRect(p, x, y, w, h)
    <2>1. Row(p) = y + row /\ Col(p) \in x .. x + w - 1
        BY <1>1, <1>4
    <2> QED BY <2>1 DEF InRect
<1> QED BY <1>3, <1>4

LEMMA CellIsNumber ==
  ASSUME NEW p \in Pixels
  PROVE  Cell(p) = Row(p) \div row_height /\ Cell(p) \in Nat
BY PixelPlace, ScreenFacts, Quotient DEF Cell, Row

-----------------------------------------------------------------------------
(* Dirty bits. *)

LEMMA BitRange ==
  ASSUME NEW n \in Int
  PROVE  SetNthBit({}, n) \subseteq 0 .. NumRows - 1
BY ScreenFacts DEF SetNthBit

\* MarkRows marks every cell from first to last if it starts below IntBits:
\* either all of them are below, or cell IntBits - 1 is among them, whose bit
\* sets all behind it.
LEMMA MarkRowsMarks ==
  ASSUME NEW bits \in SUBSET (0 .. NumRows - 1), NEW first \in Int, NEW last \in Int
  PROVE  /\ MarkRows(bits, first, last) \in SUBSET (0 .. NumRows - 1)
         /\ bits \subseteq MarkRows(bits, first, last)
         /\ first \in 0 .. IntBits - 1 =>
               \A c \in first .. last : c < NumRows => c \in MarkRows(bits, first, last)
<1>1. \A i \in first .. last : SetNthBit({}, i) \subseteq 0 .. NumRows - 1
    BY BitRange
<1>2. ASSUME first \in 0 .. IntBits - 1, NEW c \in first .. last, c < NumRows
      PROVE  c \in MarkRows(bits, first, last)
    <2>1. CASE c < IntBits
        <3>1. c % IntBits = c
            BY <1>2, <2>1, ScreenFacts
        <3>2. c \in SetNthBit({}, c)
            BY <1>2, <2>1, <3>1, ScreenFacts DEF SetNthBit
        <3> QED BY <3>2 DEF MarkRows
    <2>2. CASE c >= IntBits
        <3>1. IntBits - 1 \in first .. last /\ (IntBits - 1) % IntBits = IntBits - 1
            BY <1>2, <2>2, ScreenFacts
        <3>2. c \in SetNthBit({}, IntBits - 1)
            BY <1>2, <2>2, <3>1, ScreenFacts DEF SetNthBit
        <3> QED BY <3>1, <3>2 DEF MarkRows
    <2> QED BY <1>2, <2>1, <2>2, ScreenFacts
<1> QED BY <1>1, <1>2 DEF MarkRows

\* The cell of the pixel rows top .. bottom - 1 lie between those of the
\* first and the last.
Within(row, top, bottom) == row \in Nat /\ top <= row /\ row < bottom

LEMMA SpanCells ==
  ASSUME NEW top \in Nat, NEW bottom \in Nat, NEW row \in Nat, Within(row, top, bottom)
  PROVE  /\ top \div row_height <= row \div row_height
         /\ row \div row_height <= Ceil(bottom, row_height) - 1
         /\ row \div row_height <= bottom \div row_height
         /\ Ceil(bottom, row_height) \in Nat
<1>1. top \div row_height <= row \div row_height /\ row \div row_height <= bottom \div row_height
    BY ScreenFacts, QuotientMonotone DEF Within
<1>2. row + row_height <= bottom + row_height - 1
    BY ScreenFacts DEF Within
<1>3. (row + row_height) \div row_height = row \div row_height + 1
    BY ScreenFacts
<1>4. (row + row_height) \div row_height <= (bottom + row_height - 1) \div row_height
    BY <1>2, ScreenFacts, QuotientMonotone
<1>5. bottom + row_height - 1 \in Nat
    BY ScreenFacts
<1>6. (bottom + row_height - 1) \div row_height \in Nat /\ row \div row_height \in Nat
    BY <1>5, ScreenFacts, Quotient
<1> QED BY <1>1, <1>3, <1>4, <1>5, <1>6 DEF Ceil

-----------------------------------------------------------------------------
(* What the drawing functions do. *)

Context ==
    [buffer : [Pixels -> Colours], screen : [Pixels -> Colours], dirty : SUBSET (0 .. NumRows - 1)]

\* The cells of the rows top .. bottom - 1 are marked in new, and none of old
\* is lost.  Only guaranteed if the first of these rows has a cell below IntBits.
Marked(old, new, top, bottom) ==
    /\ old \subseteq new
    /\ top \div row_height < IntBits =>
          \A p \in Pixels : Within(Row(p), top, bottom) /\ Cell(p) < NumRows => Cell(p) \in new

LEMMA MarkSpanMarks ==
  ASSUME NEW bits \in SUBSET (0 .. NumRows - 1), NEW top \in Nat, NEW bottom \in Nat
  PROVE  /\ MarkSpan(bits, top, bottom) \in SUBSET (0 .. NumRows - 1)
         /\ Marked(bits, MarkSpan(bits, top, bottom), top, bottom)
<1> DEFINE first == top \div row_height
           last == Ceil(bottom, row_height) - 1
<1>1. bottom + row_height - 1 \in Nat
    BY ScreenFacts
<1>2. first \in Nat /\ last \in Int
    <2>1. first \in Nat /\ (bottom + row_height - 1) \div row_height \in Nat
        BY <1>1, ScreenFacts, Quotient
    <2> QED BY <2>1 DEF Ceil
<1>3. MarkSpan(bits, top, bottom) = MarkRows(bits, first, last)
    BY DEF MarkSpan
<1>4. ASSUME first < IntBits, NEW p \in Pixels, Within(Row(p), top, bottom), Cell(p) < NumRows
      PROVE  Cell(p) \in first .. last
    BY <1>2, <1>4, SpanCells, CellIsNumber, PixelPlace
<1> HIDE DEF first, last
<1>5. first < IntBits => first \in 0 .. IntBits - 1
    BY <1>2, ScreenFacts
<1> QED BY <1>2, <1>3, <1>4, <1>5, MarkRowsMarks DEF Marked, first

\* A filled rectangle that is no wider than its row.
LEMMA DrawRectEffect ==
  ASSUME NEW ctx \in Context, NEW x \in Nat, NEW y \in Nat, NEW w \in Int, NEW h \in Nat,
         x + w <= Width, NEW colour \in Colours
  PROVE  /\ DrawRect(ctx, x, y, w, h, colour) \in Context
         /\ DrawRect(ctx, x, y, w, h, colour).screen = ctx.screen
         /\ \A p \in Pixels : DrawRect(ctx, x, y, w, h, colour).buffer[p] =
                IF InRect(p, x, y, w, h) THEN colour ELSE ctx.buffer[p]
         /\ Marked(ctx.dirty, DrawRect(ctx, x, y, w, h, colour).dirty, y, y + h)
<1> DEFINE new == DrawRect(ctx, x, y, w, h, colour)
           first == y \div row_height
           last == (y + h) \div row_height + (IF y % row_height = 0 THEN 1 ELSE 0)
<1>1. first \in Nat /\ last \in Nat /\ (y + h) \div row_height <= last
    <2>1. y + h \in Nat
        OBVIOUS
    <2>2. first \in Nat /\ (y + h) \div row_height \in Nat
        BY <2>1, ScreenFacts, Quotient
    <2> QED BY <2>2
<1>2. new = [ctx EXCEPT !.buffer = [p \in Pixels |->
                            IF \E row \in 0 .. h - 1 : p - PixelIndex(x, y + row) \in 0 .. w - 1
                            THEN colour ELSE ctx.buffer[p]],
                        !.dirty = MarkRows(ctx.dirty, first, last)]
    BY DEF DrawRect, Context
<1>3. ASSUME first < IntBits, NEW p \in Pixels, Within(Row(p), y, y + h), Cell(p) < NumRows
      PROVE  Cell(p) \in first .. last
    <2>1. first <= Cell(p) /\ Cell(p) <= (y + h) \div row_height
        BY <1>3, SpanCells, CellIsNumber, PixelPlace
    <2>2. Cell(p) \in Nat /\ y + h \in Nat
        BY CellIsNumber
    <2>3. (y + h) \div row_height \in Nat
        BY <2>2, ScreenFacts, Quotient
    <2> QED BY <1>1, <2>1, <2>2, <2>3
<1> HIDE DEF first, last
<1>4. first < IntBits => first \in 0 .. IntBits - 1
    BY <1>1, ScreenFacts
<1>5. ctx.dirty \in SUBSET (0 .. NumRows - 1)
    BY DEF Context
<1>6. /\ MarkRows(ctx.dirty, first, last) \in SUBSET (0 .. NumRows - 1)
      /\ Marked(ctx.dirty, MarkRows(ctx.dirty, first, last), y, y + h)
    <2> DEFINE bits == ctx.dirty
               marks == MarkRows(bits, first, last)
    <2>1. bits \in SUBSET (0 .. NumRows - 1) /\ first \in Int /\ last \in Int
        BY <1>1, <1>5
    <2> HIDE DEF bits
    <2>2. /\ marks \in SUBSET (0 .. NumRows - 1)
          /\ bits \subseteq marks
          /\ first \in 0 .. IntBits - 1 => \A c \in first .. last : c < NumRows => c \in marks
        BY <2>1, MarkRowsMarks
    <2> HIDE DEF marks
    <2>3. Marked(bits, marks, y, y + h)
        BY <1>3, <1>4, <2>2 DEF Marked, first
    <2> QED BY <2>2, <2>3 DEF bits, marks
<1>7. \A p \in Pixels : (\E row \in 0 .. h - 1 : p - PixelIndex(x, y + row) \in 0 .. w - 1)
                            <=> InRect(p, x, y, w, h)
    BY RectPlace
<1> DEFINE hit(p) == \E row \in 0 .. h - 1 : p - PixelIndex(x, y + row) \in 0 .. w - 1
<1> HIDE DEF hit
<1>8. new.buffer = [p \in Pixels |-> IF hit(p) THEN colour ELSE ctx.buffer[p]]
      /\ new.dirty = MarkRows(ctx.dirty, first, last) /\ new.screen = ctx.screen
      /\ new = [buffer |-> new.buffer, screen |-> new.screen, dirty |-> new.dirty]
    BY <1>2 DEF hit, Context
<1>9. new.buffer \in [Pixels -> Colours]
    BY <1>8 DEF Context
<1>10. new \in Context
    BY <1>6, <1>8, <1>9 DEF Context
<1>11. \A p \in Pixels : hit(p) <=> InRect(p, x, y, w, h)
    BY <1>7 DEF hit
<1>12. \A p \in Pixels : new.buffer[p] = IF InRect(p, x, y, w, h) THEN colour ELSE ctx.buffer[p]
    BY <1>8, <1>11
<1> QED BY <1>6, <1>8, <1>10, <1>12

Glyph(c, p, x, y) == <<Col(p) - x, Row(p) - y>> \in Font.matrix[c]

\* A character that is no wider than its row.
LEMMA DrawCharEffect ==
  ASSUME NEW ctx \in Context, NEW x \in Nat, NEW y \in Nat, NEW c \in DOMAIN Font.matrix,
         x + Font.width <= Width
  PROVE  /\ DrawChar(ctx, x, y, c) \in Context
         /\ DrawChar(ctx, x, y, c).screen = ctx.screen
         /\ \A p \in Pixels : DrawChar(ctx, x, y, c).buffer[p] =
                IF InRect(p, x, y, Font.width, Font.height) /\ Glyph(c, p, x, y)
                THEN "ink" ELSE ctx.buffer[p]
         /\ Marked(ctx.dirty, DrawChar(ctx, x, y, c).dirty, y, y + Font.height)
<1> DEFINE new == DrawChar(ctx, x, y, c)
           inked == {PixelIndex(x + g[1], y + g[2]) : g \in Font.matrix[c]}
<1>1. Font.matrix[c] \subseteq (0 .. Font.width - 1) \X (0 .. Font.height - 1)
    BY ScreenConstants DEF ScreenConstants
<1>2. ASSUME NEW p \in Pixels
      PROVE  p \in inked <=> InRect(p, x, y, Font.width, Font.height) /\ Glyph(c, p, x, y)
    <2>1. ASSUME NEW g \in Font.matrix[c], p = PixelIndex(x + g[1], y + g[2])
          PROVE  InRect(p, x, y, Font.width, Font.height) /\ Glyph(c, p, x, y)
        <3>1. g[1] \in 0 .. Font.width - 1 /\ g[2] \in 0 .. Font.height - 1 /\ g = <<g[1], g[2]>>
            BY <1>1
        <3>2. x + g[1] \in 0 .. Width - 1 /\ y + g[2] \in Nat
            BY <3>1, ScreenFacts
        <3>3. Row(p) = y + g[2] /\ Col(p) = x + g[1]
            BY <2>1, <3>2, PlacePixel
        <3>4. Row(p) - y = g[2] /\ Col(p) - x = g[1]
            BY <3>1, <3>3
        <3> QED BY <3>1, <3>3, <3>4, ScreenFacts DEF InRect, Glyph
    <2>2. ASSUME Glyph(c, p, x, y)
          PROVE  p \in inked
        <3> DEFINE g == <<Col(p) - x, Row(p) - y>>
        <3>1. g \in Font.matrix[c] /\ g[1] = Col(p) - x /\ g[2] = Row(p) - y
            BY <2>2 DEF Glyph
        <3>2. x + g[1] = Col(p) /\ y + g[2] = Row(p)
            BY <3>1, PixelPlace
        <3>3. p = PixelIndex(x + g[1], y + g[2])
            BY <3>2, PixelPlace
        <3> QED BY <3>1, <3>3
    <2> QED BY <2>1, <2>2
<1> HIDE DEF inked
<1>3. new = [ctx EXCEPT !.buffer = [p \in Pixels |-> IF p \in inked THEN "ink" ELSE ctx.buffer[p]],
                        !.dirty = MarkSpan(ctx.dirty, y, y + Font.height)]
    BY DEF DrawChar, inked, Context
<1>4. new.buffer = [p \in Pixels |-> IF p \in inked THEN "ink" ELSE ctx.buffer[p]]
      /\ new.dirty = MarkSpan(ctx.dirty, y, y + Font.height) /\ new.screen = ctx.screen
      /\ new = [buffer |-> new.buffer, screen |-> new.screen, dirty |-> new.dirty]
    BY <1>3 DEF Context
<1>5. ctx.dirty \in SUBSET (0 .. NumRows - 1) /\ y + Font.height \in Nat
    BY ScreenFacts DEF Context
<1>6. new.dirty \in SUBSET (0 .. NumRows - 1) /\ Marked(ctx.dirty, new.dirty, y, y + Font.height)
    <2> HIDE DEF new
    <2> DEFINE bits == ctx.dirty
               bottom == y + Font.height
    <2>1. bits \in SUBSET (0 .. NumRows - 1) /\ bottom \in Nat
        BY <1>5
    <2> HIDE DEF bits, bottom
    <2>2. MarkSpan(bits, y, bottom) \in SUBSET (0 .. NumRows - 1) /\ Marked(bits, MarkSpan(bits, y, bottom), y, bottom)
        BY <2>1, MarkSpanMarks
    <2> QED BY <1>4, <2>2 DEF bits, bottom
<1>7. new.buffer \in [Pixels -> Colours]
    BY <1>4 DEF Context, Colours
<1>8. new \in Context
    BY <1>4, <1>6, <1>7 DEF Context
<1>9. \A p \in Pixels : new.buffer[p] = IF InRect(p, x, y, Font.width, Font.height) /\ Glyph(c, p, x, y)
                                        THEN "ink" ELSE ctx.buffer[p]
    BY <1>2, <1>4
<1> QED BY <1>4, <1>6, <1>8, <1>9

LEMMA WriteBackEffect ==
  ASSUME NEW ctx \in Context
  PROVE  /\ WriteBack(ctx) \in Context
         /\ WriteBack(ctx).buffer = ctx.buffer
         /\ WriteBack(ctx).dirty = {}
         /\ \A p \in Pixels : WriteBack(ctx).screen[p] =
                IF Cell(p) < NumRows /\ Cell(p) \in ctx.dirty THEN ctx.buffer[p] ELSE ctx.screen[p]
<1> DEFINE new == WriteBack(ctx)
<1>1. new.screen = [p \in Pixels |-> IF Cell(p) < NumRows /\ Cell(p) \in ctx.dirty
                                     THEN ctx.buffer[p] ELSE ctx.screen[p]]
      /\ new.buffer = ctx.buffer /\ new.dirty = ctx.dirty \ (0 .. NumRows - 1)
      /\ new = [buffer |-> new.buffer, screen |-> new.screen, dirty |-> new.dirty]
    <2> DEFINE shown == [p \in Pixels |-> IF Cell(p) < NumRows /\ Cell(p) \in ctx.dirty
                                          THEN ctx.buffer[p] ELSE ctx.screen[p]]
    <2>1. new = [ctx EXCEPT !.screen = shown, !.dirty = ctx.dirty \ (0 .. NumRows - 1)]
        BY DEF WriteBack, Context
    <2> HIDE DEF shown, new
    <2>2. new.screen = shown /\ new.buffer = ctx.buffer /\ new.dirty = ctx.dirty \ (0 .. NumRows - 1)
          /\ new = [buffer |-> new.buffer, screen |-> new.screen, dirty |-> new.dirty]
        BY <2>1 DEF Context
    <2> QED BY <2>2 DEF shown
<1>2. new.dirty = {}
    BY <1>1 DEF Context
<1>3. new.screen \in [Pixels -> Colours]
    BY <1>1 DEF Context
<1> HIDE DEF new
<1>4. new \in Context
    BY <1>1, <1>2, <1>3 DEF Context
<1> QED BY <1>1, <1>2, <1>4 DEF new

\* A row of pixels is copied to the place h rows above.
LEMMA MovePixelsEffect ==
  ASSUME NEW b \in [Pixels -> Colours], NEW x \in Nat, NEW y \in Nat, NEW h \in Nat, NEW w \in Int,
         x + w <= Width, y + h < Height
  PROVE  /\ MovePixels(b, PixelIndex(x, y), PixelIndex(x, y + h), w) \in [Pixels -> Colours]
         /\ \A p \in Pixels : MovePixels(b, PixelIndex(x, y), PixelIndex(x, y + h), w)[p] =
                IF Row(p) = y /\ Col(p) \in x .. x + w - 1 THEN b[p + h * Width] ELSE b[p]
<1> DEFINE dest == PixelIndex(x, y)
           src == PixelIndex(x, y + h)
<1>1. MovePixels(b, dest, src, w) =
        [p \in Pixels |-> IF p - dest \in 0 .. w - 1 /\ src + p - dest \in Pixels
                          THEN b[src + p - dest] ELSE b[p]]
    BY DEF MovePixels
<1>2. ASSUME NEW p \in Pixels
      PROVE  /\ p - dest \in 0 .. w - 1 <=> Row(p) = y /\ Col(p) \in x .. x + w - 1
             /\ src + p - dest = p + h * Width
             /\ Row(p) = y => p + h * Width \in Pixels
    <2>1. p - dest \in 0 .. w - 1 <=> Row(p) = y /\ Col(p) \in x .. x + w - 1
        BY RunPlace
    <2>2. src - dest = h * Width
        BY ScreenFacts DEF PixelIndex
    <2>3. src \in Int /\ dest \in Int /\ p \in Nat /\ h * Width \in Nat
        BY ScreenFacts, PixelPlace DEF PixelIndex
    <2>4. src + p - dest = p + h * Width
        BY <2>2, <2>3
    <2>5. ASSUME Row(p) = y PROVE p + h * Width \in Pixels
        <3>1. p = Col(p) + y * Width /\ Col(p) \in 0 .. Width - 1
            BY <2>5, PixelPlace DEF PixelIndex
        <3>2. p + h * Width = PixelIndex(Col(p), y + h)
            BY <3>1, ScreenFacts DEF PixelIndex
        <3> QED BY <3>1, <3>2, PlacePixel
    <2> QED BY <2>1, <2>4, <2>5
<1> HIDE DEF dest, src
<1>3. \A p \in Pixels : MovePixels(b, dest, src, w)[p] =
                IF Row(p) = y /\ Col(p) \in x .. x + w - 1 THEN b[p + h * Width] ELSE b[p]
    BY <1>1, <1>2
<1>4. MovePixels(b, dest, src, w) \in [Pixels -> Colours]
    BY <1>1
<1> QED BY <1>3, <1>4 DEF dest, src

\* The loop of Transpose: f has the buffer before each row and at the end.
TransposeRun(f, ctx, x, y, w, h) ==
    /\ f[0] = ctx.buffer
    /\ \A i \in 1 .. h : f[i] = MovePixels(f[i - 1], PixelIndex(x, y - h + i - 1),
                                           PixelIndex(x, y - h + i - 1 + h), w)
    /\ Transpose(ctx, x, y, w, h, -h, 0) =
          [ctx EXCEPT !.buffer = f[h], !.dirty = MarkSpan(ctx.dirty, y - h, y + h)]

LEMMA TransposeLoop ==
  ASSUME NEW ctx \in Context, NEW x \in Nat, NEW y \in Nat, NEW w \in Int, NEW h \in Nat,
         h <= y, y + h <= Height, x + w <= Width
  PROVE  \E f \in [0 .. h -> [Pixels -> Colours]] : TransposeRun(f, ctx, x, y, w, h)
<1> DEFINE D == [Pixels -> Colours]
           go(i, b) == MovePixels(b, PixelIndex(x + 0, y + i - 1 + (-h)), PixelIndex(x, y + i - 1), w)
           step == [z \in (0 .. h) \X D |-> go(z[1], z[2])]
           Is(f) == f = [i \in 0 .. h |-> IF i = 0 THEN ctx.buffer ELSE go(i, f[i - 1])]
<1>1. ASSUME NEW b \in D, NEW i \in 0 .. h PROVE go(i, b) \in D
    BY <1>1 DEF MovePixels
<1>2. \A i \in 1 .. h : \A b : go(i, b) = MovePixels(b, PixelIndex(x, y - h + i - 1),
                                                     PixelIndex(x, y - h + i - 1 + h), w)
    <2> TAKE i \in 1 .. h
    <2> TAKE b
    <2>1. x + 0 = x /\ y + i - 1 + (-h) = y - h + i - 1 /\ y + i - 1 = y - h + i - 1 + h
        OBVIOUS
    <2> QED BY <2>1
<1> HIDE DEF go
<1>3. step \in [(0 .. h) \X D -> D]
    BY <1>1
<1>4. ctx.buffer \in D
    BY DEF Context
<1>5. PICK f \in [0 .. h -> D] : Recurs(f, h, ctx.buffer, step)
    <2> HIDE DEF step, D
    <2> QED BY <1>3, <1>4, Recursion
<1>6. \A i \in 1 .. h : step[<<i, f[i - 1]>>] = go(i, f[i - 1])
    OBVIOUS
<1>7. f[0] = ctx.buffer /\ \A i \in 1 .. h : f[i] = step[<<i, f[i - 1]>>]
    BY <1>5, Zenon DEF Recurs
<1>8. Is(f)
    <2>1. ASSUME NEW i \in 0 .. h
          PROVE  f[i] = IF i = 0 THEN ctx.buffer ELSE go(i, f[i - 1])
        <3>1. CASE i = 0
            BY <1>7, <3>1, Zenon
        <3>2. CASE i # 0
            <4>1. i \in 1 .. h
                BY <3>2
            <4> QED BY <1>6, <1>7, <3>2, <4>1
        <3> QED BY <3>1, <3>2
    <2> QED BY <2>1
<1> DEFINE m == CHOOSE g : Is(g)
<1>9. Transpose(ctx, x, y, w, h, -h, 0) =
        [ctx EXCEPT !.buffer = m[h],
                    !.dirty = IF -h > 0 THEN MarkSpan(ctx.dirty, y, y + h + (-h))
                                        ELSE MarkSpan(ctx.dirty, y + (-h), y + h)]
    BY DEF Transpose, go, Context
<1>10. Is(m)
    <2> HIDE DEF Is
    <2> QED BY <1>8
<1> HIDE DEF m
<1>11. m[0] = ctx.buffer
    <2>1. 0 \in 0 .. h
        OBVIOUS
    <2> QED BY <1>10, <2>1
<1>12. \A i \in 1 .. h : m[i] = go(i, m[i - 1])
    <2> TAKE i \in 1 .. h
    <2>1. i \in 0 .. h /\ i # 0
        OBVIOUS
    <2> QED BY <1>10, <2>1
<1> DEFINE S == {i \in 0 .. h : m[i] \in D}
<1>13. 0 .. h \subseteq S
    <2>1. 0 \in S
        BY <1>4, <1>11
    <2>2. ASSUME NEW i \in 0 .. h - 1, i \in S PROVE i + 1 \in S
        <3>1. i + 1 \in 1 .. h /\ (i + 1) - 1 = i /\ i + 1 \in 0 .. h
            OBVIOUS
        <3>2. m[i + 1] = go(i + 1, m[i])
            BY <1>12, <3>1
        <3> QED BY <1>1, <2>2, <3>1, <3>2
    <2> HIDE DEF S
    <2> QED BY <2>1, <2>2, UpTo
<1>14. m \in [0 .. h -> D]
    BY <1>10, <1>13
<1>15. ~(-h > 0) /\ y + (-h) = y - h
    OBVIOUS
<1> QED BY <1>2, <1>9, <1>11, <1>12, <1>14, <1>15 DEF TransposeRun

\* A rectangle is moved up by its own height.
LEMMA TransposeEffect ==
  ASSUME NEW ctx \in Context, NEW x \in Nat, NEW y \in Nat, NEW w \in Int, NEW h \in Nat,
         h <= y, y + h <= Height, x + w <= Width
  PROVE  /\ Transpose(ctx, x, y, w, h, -h, 0) \in Context
         /\ Transpose(ctx, x, y, w, h, -h, 0).screen = ctx.screen
         /\ \A p \in Pixels : Transpose(ctx, x, y, w, h, -h, 0).buffer[p] =
                IF InRect(p, x, y - h, w, h) THEN ctx.buffer[p + h * Width] ELSE ctx.buffer[p]
         /\ Marked(ctx.dirty, Transpose(ctx, x, y, w, h, -h, 0).dirty, y - h, y + h)
<1> DEFINE new == Transpose(ctx, x, y, w, h, -h, 0)
           top == y - h
<1>b. PICK f \in [0 .. h -> [Pixels -> Colours]] : TransposeRun(f, ctx, x, y, w, h)
    BY TransposeLoop, Zenon
<1>0. /\ f[0] = ctx.buffer
      /\ \A i \in 1 .. h : f[i] = MovePixels(f[i - 1], PixelIndex(x, top + i - 1),
                                             PixelIndex(x, top + i - 1 + h), w)
      /\ new = [ctx EXCEPT !.buffer = f[h], !.dirty = MarkSpan(ctx.dirty, top, y + h)]
    BY <1>b, Zenon DEF TransposeRun
<1> HIDE DEF new
<1>1. top \in Nat /\ y = top + h /\ y + h \in Nat
    OBVIOUS
<1>a. f[h] \in [Pixels -> Colours] /\ ctx.buffer \in [Pixels -> Colours]
      /\ ctx.dirty \in SUBSET (0 .. NumRows - 1)
    BY DEF Context
<1> HIDE DEF top
<1>2. new.buffer = f[h] /\ new.dirty = MarkSpan(ctx.dirty, top, y + h) /\ new.screen = ctx.screen
      /\ new = [buffer |-> new.buffer, screen |-> new.screen, dirty |-> new.dirty]
    BY <1>0 DEF Context
<1>3. new.dirty \in SUBSET (0 .. NumRows - 1) /\ Marked(ctx.dirty, new.dirty, top, y + h)
    <2> DEFINE bits == ctx.dirty
               bottom == y + h
    <2>1. bits \in SUBSET (0 .. NumRows - 1) /\ bottom \in Nat
        BY <1>1, <1>a
    <2> HIDE DEF bits, bottom
    <2>2. MarkSpan(bits, top, bottom) \in SUBSET (0 .. NumRows - 1)
          /\ Marked(bits, MarkSpan(bits, top, bottom), top, bottom)
        BY <1>1, <2>1, MarkSpanMarks
    <2> QED BY <1>2, <2>2 DEF bits, bottom
<1>4. new \in Context
    BY <1>a, <1>2, <1>3 DEF Context
<1> DEFINE S == {i \in 0 .. h : \A p \in Pixels :
                     f[i][p] = IF Row(p) \in top .. top + i - 1 /\ Col(p) \in x .. x + w - 1
                               THEN ctx.buffer[p + h * Width] ELSE ctx.buffer[p]}
<1>5. 0 \in S
    <2>1. \A p \in Pixels : ~(Row(p) \in top .. top + 0 - 1)
        BY <1>1, PixelPlace
    <2> QED BY <1>0, <2>1
<1>6. ASSUME NEW i \in 0 .. h - 1, i \in S PROVE i + 1 \in S
    <2>1. i + 1 \in 1 .. h /\ i + 1 \in 0 .. h /\ (i + 1) - 1 = i /\ i \in 0 .. h
          /\ top + (i + 1) - 1 = top + i /\ top + i \in Nat /\ top + i + h < Height
        BY <1>1, ScreenFacts
    <2>2. f[i + 1] = MovePixels(f[i], PixelIndex(x, top + i), PixelIndex(x, top + i + h), w)
        BY <1>0, <2>1
    <2>3. f[i] \in [Pixels -> Colours]
        BY <2>1
    <2>4. \A p \in Pixels : f[i + 1][p] = IF Row(p) = top + i /\ Col(p) \in x .. x + w - 1
                                          THEN f[i][p + h * Width] ELSE f[i][p]
        <3> DEFINE b == f[i]
                   t == top + i
        <3>1. b \in [Pixels -> Colours] /\ t \in Nat /\ t + h < Height
            BY <2>1, <2>3
        <3> HIDE DEF b, t
        <3>2. \A p \in Pixels : MovePixels(b, PixelIndex(x, t), PixelIndex(x, t + h), w)[p] =
                IF Row(p) = t /\ Col(p) \in x .. x + w - 1 THEN b[p + h * Width] ELSE b[p]
            <4> HIDE DEF S, new
            <4> QED BY <3>1, MovePixelsEffect, SMTT(60)
        <3> QED BY <2>2, <3>2 DEF b, t
    <2>5. ASSUME NEW p \in Pixels
          PROVE  f[i + 1][p] = IF Row(p) \in top .. top + (i + 1) - 1 /\ Col(p) \in x .. x + w - 1
                               THEN ctx.buffer[p + h * Width] ELSE ctx.buffer[p]
        <3>1. Row(p) \in Nat
            BY PixelPlace
        <3>2. CASE Row(p) = top + i /\ Col(p) \in x .. x + w - 1
            <4>1. p + h * Width = PixelIndex(Col(p), top + i + h) /\ Col(p) \in 0 .. Width - 1
                <5>1. p = Col(p) + (top + i) * Width /\ Col(p) \in 0 .. Width - 1
                    BY <3>2, PixelPlace DEF PixelIndex
                <5>2. (top + i) * Width + h * Width = (top + i + h) * Width
                    BY <1>1, ScreenFacts
                <5>3. (top + i) * Width \in Nat /\ h * Width \in Nat
                    BY <1>1, ScreenFacts
                <5> QED BY <5>1, <5>2, <5>3 DEF PixelIndex
            <4>2. p + h * Width \in Pixels /\ Row(p + h * Width) = top + i + h
                <5> DEFINE row == top + i + h
                           col == Col(p)
                <5>1. row \in Nat /\ row < Height /\ col \in 0 .. Width - 1
                    BY <1>1, <2>1, <4>1
                <5> HIDE DEF row, col
                <5>2. PixelIndex(col, row) \in Pixels /\ Row(PixelIndex(col, row)) = row
                    BY <5>1, PlacePixel
                <5> QED BY <4>1, <5>2 DEF row, col
            <4>3. ~(top + i + h \in top .. top + i - 1)
                BY <1>1
            <4>4. f[i][p + h * Width] = ctx.buffer[p + h * Width]
                BY <1>6, <4>2, <4>3
            <4> QED BY <1>1, <2>4, <3>2, <4>4
        <3>3. CASE ~(Row(p) = top + i /\ Col(p) \in x .. x + w - 1)
            <4>1. f[i + 1][p] = f[i][p]
                BY <2>4, <3>3
            <4>2. Col(p) \in x .. x + w - 1 => (Row(p) \in top .. top + (i + 1) - 1 <=> Row(p) \in top .. top + i - 1)
                BY <1>1, <3>1, <3>3
            <4> QED BY <1>6, <4>1, <4>2
        <3> QED BY <3>2, <3>3
    <2> QED BY <2>1, <2>5
<1>7. h \in S
    <2> HIDE DEF S
    <2>1. 0 .. h \subseteq S
        BY <1>5, <1>6, UpTo
    <2> QED BY <2>1
<1>8. \A p \in Pixels : new.buffer[p] = IF InRect(p, x, top, w, h) THEN ctx.buffer[p + h * Width] ELSE ctx.buffer[p]
    BY <1>2, <1>7 DEF InRect
<1> QED BY <1>2, <1>3, <1>4, <1>8 DEF new, top

-----------------------------------------------------------------------------
(* The terminal's geometry. *)

\* The sizes go together: a character fits, text is wrapped before the right
\* border, and a whole number of characters leaves at least the width of a
\* border.  They do on 1920 x 1080, 1024 x 768 and 800 x 600 with the kernel's
\* font of 9 x 16 and its border of 3.
Fits ==
    /\ Font.width <= Width
    /\ Thickness <= Width % Font.width
    /\ 2 * Font.width <= 7 * Thickness
    /\ Font.height <= dims.height

\* The first pixel row of a line of text.
LineTop(l) == Thickness + l * Font.height

LEMMA Geometry ==
  ASSUME Fits
  PROVE  /\ dims.width \in Nat /\ dims.width = Width - 2 * Thickness
         /\ dims.height \in Nat /\ dims.height = Height \div 2 - 2 * Thickness
         /\ Height \div 2 \in Nat /\ Height \div 2 + Height \div 2 <= Height
         /\ num_lines \in Nat \ {0} /\ num_lines * Font.height <= Height \div 2
         /\ \A l \in Nat : l * Font.height <= Height \div 2 => l <= num_lines
         /\ chars_per_line \in Nat \ {0} /\ Thickness + chars_per_line * Font.width <= Width
         /\ Thickness + Font.width <= Width
         /\ top_left.x = Thickness /\ top_left.y = Thickness
<1> DEFINE half == Height \div 2
           w == Width
           fw == Font.width
           fh == Font.height
           T == Thickness
<1>1. half \in Nat /\ half + half <= Height
    BY ScreenFacts
<1> HIDE DEF half
<1>2. dims.width = w - 2 * T /\ dims.height = half - 2 * T /\ top_left.x = T /\ top_left.y = T
    BY DEF dims, top_left, half
<1>3. w \in Nat /\ fw \in Nat \ {0} /\ fh \in Nat \ {0} /\ T \in Nat /\ fw <= w /\ fh <= half - 2 * T
      /\ T <= w % fw /\ chars_per_line = w \div fw /\ num_lines = half \div fh
    BY <1>2, ScreenFacts DEF Fits, chars_per_line, num_lines, half
<1> HIDE DEF w, fw, fh, T
<1>4. w \div fw \in Nat /\ w % fw \in 0 .. fw - 1 /\ w = fw * (w \div fw) + (w % fw)
    BY <1>3, Quotient
<1>5. half \div fh \in Nat /\ half % fh \in 0 .. fh - 1 /\ half = fh * (half \div fh) + (half % fh)
    BY <1>1, <1>3, Quotient
<1>6. w \div fw # 0 /\ T + (w \div fw) * fw <= w
    <2>1. fw * (w \div fw) = (w \div fw) * fw
        BY <1>3, <1>4
    <2>2. w \div fw # 0
        BY <1>3, <1>4
    <2> QED BY <1>3, <1>4, <2>1, <2>2
<1>7. half \div fh # 0 /\ (half \div fh) * fh <= half
    <2>1. fh * (half \div fh) = (half \div fh) * fh
        BY <1>3, <1>5
    <2>2. half \div fh # 0
        BY <1>1, <1>3, <1>5
    <2> QED BY <1>1, <1>3, <1>5, <2>1, <2>2
<1>8. \A l \in Nat : l * fh <= half => l <= half \div fh
    <2> TAKE l \in Nat
    <2> HAVE l * fh <= half
    <2>1. (l * fh) \div fh = l /\ l * fh \in Nat
        BY <1>3
    <2> QED BY <1>1, <1>3, <2>1, QuotientMonotone
<1>9. T + fw <= w /\ w - 2 * T \in Nat
    <2>1. fw <= (w \div fw) * fw
        BY <1>3, <1>4, <1>6
    <2>2. (w \div fw) * fw \in Nat
        BY <1>3, <1>4
    <2> QED BY <1>3, <1>4, <1>6, <2>1, <2>2
<1>10. half - 2 * T \in Nat
    BY <1>1, <1>3
<1> QED BY <1>1, <1>2, <1>3, <1>4, <1>5, <1>6, <1>7, <1>8, <1>9, <1>10 DEF half, w, fw, fh, T

\* The lines of the terminal, and the one behind them that Scroll reads.
LEMMA LineRows ==
  ASSUME Fits, NEW l \in 0 .. num_lines
  PROVE  /\ LineTop(l) \in Nat /\ LineTop(l + 1) = LineTop(l) + Font.height
         /\ LineTop(l) + Font.height <= Height
         /\ l > 0 => LineTop(l) - Font.height = LineTop(l - 1) /\ Font.height <= LineTop(l)
<1>1. l \in Nat /\ l <= num_lines /\ num_lines \in Nat /\ Font.height \in Nat \ {0} /\ Thickness \in Nat
    BY Geometry, ScreenFacts
<1>2. l * Font.height \in Nat /\ l * Font.height <= num_lines * Font.height
    BY <1>1
<1>3. (l + 1) * Font.height = l * Font.height + Font.height
      /\ (l - 1) * Font.height = l * Font.height - Font.height
    BY <1>1
<1>4. l > 0 => Font.height <= l * Font.height
    BY <1>1
<1>5. num_lines * Font.height <= Height \div 2 /\ Height \div 2 + Height \div 2 <= Height
      /\ 2 * Thickness + Font.height <= Height \div 2 /\ Height \div 2 \in Nat /\ Height \in Nat
    BY Geometry, ScreenFacts DEF Fits
<1>6. num_lines * Font.height \in Nat
    BY <1>1
<1> DEFINE here == l * Font.height
           all == num_lines * Font.height
           half == Height \div 2
<1>7. LineTop(l) = Thickness + here /\ LineTop(l + 1) = Thickness + (here + Font.height)
      /\ LineTop(l - 1) = Thickness + (here - Font.height)
    BY <1>3 DEF LineTop
<1>8. here \in Nat /\ here <= all /\ all \in Nat /\ half \in Nat /\ all <= half /\ half + half <= Height
      /\ 2 * Thickness + Font.height <= half /\ (l > 0 => Font.height <= here)
    BY <1>2, <1>4, <1>5, <1>6
<1> HIDE DEF here, all, half
<1> QED BY <1>1, <1>5, <1>7, <1>8

-----------------------------------------------------------------------------
(* Loops of the terminal. *)

TermState == [ctx : Context, x : Nat, y : Nat]

\* The graphics context before each move of Scroll, and behind the last one.
ScrollRun(f, s) ==
    /\ f[0] = s.ctx
    /\ \A i \in 1 .. num_lines :
          f[i] = WriteBack(Transpose(f[i - 1], Thickness, LineTop(i), dims.width,
                                     Font.height, -Font.height, 0))
    /\ Scroll(s) = [s EXCEPT !.ctx =
          WriteBack(DrawRect(f[num_lines], Thickness, LineTop(num_lines - 1),
                             dims.width, Font.height, "background"))]

LEMMA ScrollLoop ==
  ASSUME Fits, NEW s \in TermState
  PROVE  \E f \in [0 .. num_lines -> Context] : ScrollRun(f, s)
<1> DEFINE n == num_lines
           go(i, c) == WriteBack(Transpose(c, top_left.x, top_left.y + i * Font.height, dims.width,
                                           Font.height, -Font.height, 0))
           step == [z \in (0 .. n) \X Context |-> IF z[1] = 0 THEN z[2] ELSE go(z[1], z[2])]
           Is(f) == f = [i \in 0 .. n |-> IF i = 0 THEN s.ctx ELSE go(i, f[i - 1])]
<1>1. n \in Nat /\ n # 0
    BY Geometry
<1>2. \A i \in 1 .. n : \A c :
        go(i, c) = WriteBack(Transpose(c, Thickness, LineTop(i), dims.width, Font.height,
                                       -Font.height, 0))
    BY Geometry DEF LineTop
<1>3. ASSUME NEW c \in Context, NEW i \in 1 .. n PROVE go(i, c) \in Context
    <2>1. i \in 0 .. num_lines /\ i > 0
        BY <1>1
    <2>2. LineTop(i) \in Nat /\ LineTop(i) + Font.height <= Height /\ Font.height <= LineTop(i)
        BY <2>1, LineRows
    <2>3. Thickness \in Nat /\ Font.height \in Nat /\ dims.width \in Int /\ Thickness + dims.width <= Width
        BY Geometry, ScreenFacts
    <2>4. Transpose(c, Thickness, LineTop(i), dims.width, Font.height, -Font.height, 0) \in Context
        BY <2>2, <2>3, TransposeEffect
    <2> QED BY <1>2, <2>4, WriteBackEffect
<1> HIDE DEF go
<1>4. step \in [(0 .. n) \X Context -> Context]
    <2>1. \A z \in (0 .. n) \X Context : z[1] # 0 => z[1] \in 1 .. n
        BY <1>1
    <2> QED BY <1>3, <2>1
<1>5. s.ctx \in Context
    BY DEF TermState
<1>6. PICK f \in [0 .. n -> Context] : Recurs(f, n, s.ctx, step)
    <2> HIDE DEF step, n
    <2> QED BY <1>1, <1>4, <1>5, Recursion
<1>7. \A i \in 1 .. n : step[<<i, f[i - 1]>>] = go(i, f[i - 1])
    BY <1>1
<1>8. f[0] = s.ctx /\ \A i \in 1 .. n : f[i] = step[<<i, f[i - 1]>>]
    BY <1>6, Zenon DEF Recurs
<1>9. Is(f)
    <2>1. ASSUME NEW i \in 0 .. n
          PROVE  f[i] = IF i = 0 THEN s.ctx ELSE go(i, f[i - 1])
        <3>1. CASE i = 0
            BY <1>8, <3>1, Zenon
        <3>2. CASE i # 0
            <4>1. i \in 1 .. n
                BY <1>1, <3>2
            <4> QED BY <1>7, <1>8, <3>2, <4>1
        <3> QED BY <3>1, <3>2
    <2> QED BY <2>1
<1> DEFINE m == CHOOSE g : Is(g)
<1>10. Scroll(s) = [s EXCEPT !.ctx = WriteBack(DrawRect(m[n], top_left.x,
                                  top_left.y + Font.height * (n - 1),
                                  dims.width, Font.height, "background"))]
    BY DEF Scroll, go
<1>11. Is(m)
    <2> HIDE DEF Is
    <2> QED BY <1>9
<1> HIDE DEF m
<1>12. m[0] = s.ctx
    <2>1. 0 \in 0 .. n
        BY <1>1
    <2> QED BY <1>11, <2>1
<1>13. \A i \in 1 .. n : m[i] = go(i, m[i - 1])
    <2> TAKE i \in 1 .. n
    <2>1. i \in 0 .. n /\ i # 0
        BY <1>1
    <2> QED BY <1>11, <2>1
<1> DEFINE S == {i \in 0 .. n : m[i] \in Context}
<1>14. 0 .. n \subseteq S
    <2>1. 0 \in S
        BY <1>1, <1>5, <1>12
    <2>2. ASSUME NEW i \in 0 .. n - 1, i \in S PROVE i + 1 \in S
        <3>1. i + 1 \in 1 .. n /\ (i + 1) - 1 = i /\ i + 1 \in 0 .. n
            BY <1>1
        <3>2. m[i + 1] = go(i + 1, m[i])
            BY <1>13, <3>1
        <3> QED BY <1>3, <2>2, <3>1, <3>2
    <2> HIDE DEF S
    <2> QED BY <1>1, <2>1, <2>2, UpTo
<1>15. m \in [0 .. n -> Context]
    BY <1>11, <1>14
<1>16. top_left.x = Thickness /\ top_left.y + Font.height * (n - 1) = LineTop(n - 1)
    <2>1. Font.height * (n - 1) = (n - 1) * Font.height
        BY <1>1, ScreenFacts
    <2> QED BY <2>1, Geometry DEF LineTop
<1>17. ScrollRun(m, s)
    BY <1>2, <1>10, <1>12, <1>13, <1>16 DEF ScrollRun
<1> QED BY <1>15, <1>17

\* The terminal before each character of TermPrint, and behind the last one.
\* D is any set of states that printing these characters does not leave.
PrintRun(f, s, str) ==
    /\ f[0] = s
    /\ \A k \in 1 .. Len(str) : f[k] = PrintChar(f[k - 1], str[k])
    /\ TermPrint(s, str) = f[Len(str)]

LEMMA PrintLoop ==
  ASSUME NEW str \in Seq(DOMAIN Font.matrix), NEW D, NEW s \in D,
         \A t \in D, k \in 1 .. Len(str) : PrintChar(t, str[k]) \in D
  PROVE  \E f \in [0 .. Len(str) -> D] : PrintRun(f, s, str)
<1> DEFINE n == Len(str)
           go(i, t) == PrintChar(t, str[i])
           step == [z \in (0 .. n) \X D |-> IF z[1] = 0 THEN z[2] ELSE go(z[1], z[2])]
           Is(f) == f = [k \in 0 .. n |-> IF k = 0 THEN s ELSE go(k, f[k - 1])]
<1>1. n \in Nat
    OBVIOUS
<1>3. ASSUME NEW t \in D, NEW i \in 1 .. n PROVE go(i, t) \in D
    OBVIOUS
<1> HIDE DEF go
<1>4. step \in [(0 .. n) \X D -> D]
    <2>1. \A z \in (0 .. n) \X D : z[1] # 0 => z[1] \in 1 .. n
        BY <1>1
    <2> QED BY <1>3, <2>1
<1>6. PICK f \in [0 .. n -> D] : Recurs(f, n, s, step)
    <2> HIDE DEF step, n
    <2> QED BY <1>1, <1>4, Recursion
<1>7. \A i \in 1 .. n : step[<<i, f[i - 1]>>] = go(i, f[i - 1])
    BY <1>1
<1>8. f[0] = s /\ \A i \in 1 .. n : f[i] = step[<<i, f[i - 1]>>]
    BY <1>6, Zenon DEF Recurs
<1>9. Is(f)
    <2>1. ASSUME NEW i \in 0 .. n
          PROVE  f[i] = IF i = 0 THEN s ELSE go(i, f[i - 1])
        <3>1. CASE i = 0
            BY <1>8, <3>1, Zenon
        <3>2. CASE i # 0
            <4>1. i \in 1 .. n
                BY <1>1, <3>2
            <4> QED BY <1>7, <1>8, <3>2, <4>1
        <3> QED BY <3>1, <3>2
    <2> QED BY <2>1
<1> DEFINE m == CHOOSE g : Is(g)
<1>10. TermPrint(s, str) = m[n]
    BY DEF TermPrint, go
<1>11. Is(m)
    <2> HIDE DEF Is
    <2> QED BY <1>9
<1> HIDE DEF m
<1>12. m[0] = s
    <2>1. 0 \in 0 .. n
        BY <1>1
    <2> QED BY <1>11, <2>1
<1>13. \A i \in 1 .. n : m[i] = go(i, m[i - 1])
    <2> TAKE i \in 1 .. n
    <2>1. i \in 0 .. n /\ i # 0
        BY <1>1
    <2> QED BY <1>11, <2>1
<1> DEFINE S == {i \in 0 .. n : m[i] \in D}
<1>14. 0 .. n \subseteq S
    <2>1. 0 \in S
        BY <1>1, <1>12
    <2>2. ASSUME NEW i \in 0 .. n - 1, i \in S PROVE i + 1 \in S
        <3>1. i + 1 \in 1 .. n /\ (i + 1) - 1 = i /\ i + 1 \in 0 .. n
            BY <1>1
        <3>2. m[i + 1] = go(i + 1, m[i])
            BY <1>13, <3>1
        <3> QED BY <1>3, <2>2, <3>1, <3>2
    <2> HIDE DEF S, n
    <2> QED BY <1>1, <2>1, <2>2, UpTo
<1>15. m \in [0 .. n -> D]
    BY <1>11, <1>14
<1>17. PrintRun(m, s, str)
    BY <1>10, <1>12, <1>13 DEF PrintRun, go
<1> QED BY <1>15, <1>17

-----------------------------------------------------------------------------
(* The cursor and the two buffers. *)

\* The cursor is at a character that lies inside the terminal.
OnGrid(s) ==
    /\ \E c \in Nat : s.x = c * Font.width
    /\ \E l \in Nat : s.y = l * Font.height
    /\ Thickness + s.x + Font.width <= Width
    /\ s.y + Font.height <= dims.height

\* Pixels of P that differ between the two buffers are in a dirty cell.
InStep(ctx, P) ==
    \A p \in P : Cell(p) < NumRows => Cell(p) \in ctx.dirty \/ ctx.screen[p] = ctx.buffer[p]

\* Pixels of Q were never drawn, nor copied if they are behind the last cell.
Kept(ctx, Q) ==
    \A p \in Q : ctx.buffer[p] = "black" /\ (Cell(p) >= NumRows => ctx.screen[p] = "boot")

Good(ctx, P, Q) == InStep(ctx, P) /\ Kept(ctx, Q)

Sound(P, Q) == {s \in TermState : OnGrid(s) /\ Good(s.ctx, P, Q)}

\* Drawing a line of text marks all of it that is in P, and is not in Q.
Allowed(P, Q) ==
    /\ P \subseteq Pixels /\ Q \subseteq Pixels
    /\ \A p \in Q : Row(p) >= Height \div 2
    /\ \A l \in 0 .. num_lines - 1, p \in Pixels :
          Within(Row(p), LineTop(l), LineTop(l + 1)) =>
              (p \in P => LineTop(l) \div row_height < IntBits) /\ p \notin Q

\* Drawing inside a line.
LEMMA Drawn ==
  ASSUME NEW P, NEW Q, Allowed(P, Q), NEW old \in Context, NEW new \in Context, Good(old, P, Q),
         NEW l \in 0 .. num_lines - 1, NEW bottom \in Int, LineTop(l + 1) <= bottom,
         LineTop(l) \in Nat, LineTop(l + 1) \in Nat,
         new.screen = old.screen, Marked(old.dirty, new.dirty, LineTop(l), bottom),
         \A p \in Pixels : new.buffer[p] = old.buffer[p] \/ Within(Row(p), LineTop(l), LineTop(l + 1))
  PROVE  Good(new, P, Q)
<1>1. ASSUME NEW p \in P, Cell(p) < NumRows, Cell(p) \notin new.dirty
      PROVE  new.screen[p] = new.buffer[p]
    <2>1. p \in Pixels
        BY DEF Allowed
    <2>2. Cell(p) \notin old.dirty
        BY <1>1 DEF Marked
    <2>3. old.screen[p] = old.buffer[p]
        BY <1>1, <2>2 DEF Good, InStep
    <2>4. ~Within(Row(p), LineTop(l), LineTop(l + 1))
        <3> SUFFICES ASSUME Within(Row(p), LineTop(l), LineTop(l + 1)) PROVE FALSE
            OBVIOUS
        <3>1. LineTop(l) \div row_height < IntBits
            BY <2>1 DEF Allowed
        <3>2. Within(Row(p), LineTop(l), bottom)
            BY DEF Within
        <3> QED BY <1>1, <2>1, <3>1, <3>2 DEF Marked
    <2> QED BY <2>1, <2>3, <2>4
<1>2. ASSUME NEW p \in Q PROVE new.buffer[p] = "black" /\ (Cell(p) >= NumRows => new.screen[p] = "boot")
    <2>1. p \in Pixels /\ ~Within(Row(p), LineTop(l), LineTop(l + 1))
        BY DEF Allowed
    <2> QED BY <2>1 DEF Good, Kept
<1> QED BY <1>1, <1>2 DEF Good, InStep, Kept

LEMMA CopiedBack ==
  ASSUME NEW P, NEW Q, Allowed(P, Q), NEW ctx \in Context, Good(ctx, P, Q)
  PROVE  Good(WriteBack(ctx), P, Q)
<1> DEFINE new == WriteBack(ctx)
<1>1. new.buffer = ctx.buffer
      /\ \A p \in Pixels : new.screen[p] = IF Cell(p) < NumRows /\ Cell(p) \in ctx.dirty
                                           THEN ctx.buffer[p] ELSE ctx.screen[p]
    BY WriteBackEffect
<1> HIDE DEF new
<1>2. \A p \in P \cup Q : p \in Pixels /\ Cell(p) \in Nat
    BY CellIsNumber DEF Allowed
<1>3. InStep(new, P)
    BY <1>1, <1>2 DEF Good, InStep
<1>4. Kept(new, Q)
    BY <1>1, <1>2, ScreenFacts DEF Good, Kept
<1> QED BY <1>3, <1>4 DEF Good, new

\* The line the cursor is in.
LEMMA CursorLine ==
  ASSUME Fits, NEW s \in TermState, OnGrid(s)
  PROVE  \E l \in 0 .. num_lines - 1 : s.y = l * Font.height /\ Thickness + s.y = LineTop(l)
<1>1. PICK l \in Nat : s.y = l * Font.height
    BY DEF OnGrid
<1>2. (l + 1) * Font.height = s.y + Font.height /\ s.y \in Nat
    BY <1>1, ScreenFacts
<1>3. (l + 1) * Font.height <= Height \div 2
    BY <1>2, Geometry, ScreenFacts DEF OnGrid
<1>4. l + 1 <= num_lines
    BY <1>3, Geometry
<1>5. l \in 0 .. num_lines - 1
    BY <1>4, Geometry
<1> QED BY <1>1, <1>5 DEF LineTop

LEMMA ScrollGood ==
  ASSUME Fits, NEW P, NEW Q, Allowed(P, Q), NEW s \in TermState, Good(s.ctx, P, Q)
  PROVE  \E c \in Context : Scroll(s) = [s EXCEPT !.ctx = c] /\ Good(c, P, Q)
<1> DEFINE n == num_lines
           fh == Font.height
           moved(c, i) == Transpose(c, Thickness, LineTop(i), dims.width, fh, -fh, 0)
<1>1. PICK f \in [0 .. n -> Context] : ScrollRun(f, s)
    BY ScrollLoop
<1>2. n \in Nat /\ n # 0 /\ fh \in Nat /\ Thickness \in Nat /\ dims.width \in Int /\ Thickness + dims.width <= Width
    BY Geometry, ScreenFacts
<1>3. ASSUME NEW i \in 1 .. n, NEW c \in Context, Good(c, P, Q)
      PROVE  Good(WriteBack(moved(c, i)), P, Q)
    <2>1. i \in 0 .. num_lines /\ i - 1 \in 0 .. num_lines /\ i > 0 /\ i - 1 \in 0 .. num_lines - 1 /\ (i - 1) + 1 = i
        BY <1>2
    <2>2. LineTop(i) \in Nat /\ LineTop(i) + fh <= Height /\ fh <= LineTop(i) /\ LineTop(i - 1) = LineTop(i) - fh
          /\ LineTop(i - 1) \in Nat
        BY <2>1, LineRows
    <2>3. /\ moved(c, i) \in Context
          /\ moved(c, i).screen = c.screen
          /\ \A p \in Pixels : moved(c, i).buffer[p] =
                IF InRect(p, Thickness, LineTop(i) - fh, dims.width, fh) THEN c.buffer[p + fh * Width] ELSE c.buffer[p]
          /\ Marked(c.dirty, moved(c, i).dirty, LineTop(i) - fh, LineTop(i) + fh)
        BY <1>2, <2>2, TransposeEffect
    <2> DEFINE new == moved(c, i)
               bottom == LineTop(i) + fh
    <2> HIDE DEF moved
    <2>4. bottom \in Int /\ LineTop((i - 1) + 1) <= bottom /\ LineTop((i - 1) + 1) \in Nat
        BY <1>2, <2>1, <2>2
    <2>5. ASSUME NEW p \in Pixels PROVE new.buffer[p] = c.buffer[p] \/ Within(Row(p), LineTop(i - 1), LineTop((i - 1) + 1))
        <3>1. CASE InRect(p, Thickness, LineTop(i) - fh, dims.width, fh)
            BY <1>2, <2>1, <2>2, <3>1, PixelPlace DEF InRect, Within
        <3> QED BY <2>3, <3>1
    <2>6. new \in Context /\ new.screen = c.screen /\ Marked(c.dirty, new.dirty, LineTop(i - 1), bottom)
        BY <2>2, <2>3
    <2> HIDE DEF new, bottom
    <2>7. Good(new, P, Q)
        <3> DEFINE l == i - 1
        <3>1. l \in 0 .. num_lines - 1 /\ LineTop(l + 1) <= bottom /\ LineTop(l) \in Nat /\ LineTop(l + 1) \in Nat
              /\ Marked(c.dirty, new.dirty, LineTop(l), bottom)
              /\ \A p \in Pixels : new.buffer[p] = c.buffer[p] \/ Within(Row(p), LineTop(l), LineTop(l + 1))
            BY <2>1, <2>2, <2>4, <2>5, <2>6
        <3> HIDE DEF l
        <3> QED BY <1>3, <2>4, <2>6, <3>1, Drawn
    <2> QED BY <2>6, <2>7, CopiedBack DEF new
<1> DEFINE S == {i \in 0 .. n : Good(f[i], P, Q)}
<1>4. n \in S
    <2>1. 0 \in S
        BY <1>1, <1>2 DEF ScrollRun
    <2>2. ASSUME NEW i \in 0 .. n - 1, i \in S PROVE i + 1 \in S
        <3>1. i + 1 \in 1 .. n /\ (i + 1) - 1 = i /\ i + 1 \in 0 .. n /\ f[i] \in Context
            BY <1>2
        <3>2. f[i + 1] = WriteBack(moved(f[i], i + 1))
            BY <1>1, <3>1 DEF ScrollRun
        <3> HIDE DEF moved
        <3> QED BY <1>3, <2>2, <3>1, <3>2
    <2>3. 0 .. n \subseteq S
        <3> HIDE DEF S, n
        <3> QED BY <1>2, <2>1, <2>2, UpTo
    <2> QED BY <1>2, <2>3
<1> DEFINE old == f[n]
           new == DrawRect(old, Thickness, LineTop(n - 1), dims.width, fh, "background")
           l == n - 1
<1>5. old \in Context /\ Good(old, P, Q)
    BY <1>2, <1>4
<1> HIDE DEF old
<1>6. l \in 0 .. num_lines - 1 /\ l \in 0 .. num_lines /\ n = l + 1
    BY <1>2
<1>7. LineTop(l) \in Nat /\ LineTop(l + 1) = LineTop(l) + fh
    BY <1>6, LineRows
<1>8. /\ new \in Context
      /\ new.screen = old.screen
      /\ \A p \in Pixels : new.buffer[p] =
                IF InRect(p, Thickness, LineTop(l), dims.width, fh) THEN "background" ELSE old.buffer[p]
      /\ Marked(old.dirty, new.dirty, LineTop(l), LineTop(l) + fh)
    <2>1. "background" \in Colours
        BY DEF Colours
    <2> QED BY <1>2, <1>5, <1>7, <2>1, DrawRectEffect
<1>9. Good(new, P, Q)
    <2> HIDE DEF new, l
    <2>1. ASSUME NEW p \in Pixels PROVE new.buffer[p] = old.buffer[p] \/ Within(Row(p), LineTop(l), LineTop(l + 1))
        <3>1. CASE InRect(p, Thickness, LineTop(l), dims.width, fh)
            BY <1>2, <1>7, <3>1, PixelPlace DEF InRect, Within
        <3> QED BY <1>8, <3>1
    <2> DEFINE bottom == LineTop(l + 1)
    <2>2. bottom \in Int /\ LineTop(l + 1) <= bottom /\ LineTop(l + 1) \in Nat
          /\ Marked(old.dirty, new.dirty, LineTop(l), bottom)
        BY <1>2, <1>7, <1>8
    <2> HIDE DEF bottom
    <2> QED BY <1>5, <1>6, <1>7, <1>8, <2>1, <2>2, Drawn
<1>10. WriteBack(new) \in Context /\ Good(WriteBack(new), P, Q)
    <2> HIDE DEF new
    <2> QED BY <1>8, <1>9, WriteBackEffect, CopiedBack
<1>11. Scroll(s) = [s EXCEPT !.ctx = WriteBack(new)]
    BY <1>1 DEF ScrollRun, old
<1> QED BY <1>10, <1>11

LEMMA NewLineSound ==
  ASSUME Fits, NEW P, NEW Q, Allowed(P, Q), NEW s \in Sound(P, Q)
  PROVE  TermNewLine(s) \in Sound(P, Q)
<1> DEFINE t == [s EXCEPT !.x = 0]
           fw == Font.width
           fh == Font.height
<1>1. s \in TermState /\ OnGrid(s) /\ Good(s.ctx, P, Q) /\ s.ctx \in Context /\ s.y \in Nat
    BY DEF Sound, TermState
<1>2. t \in TermState /\ t.ctx = s.ctx /\ t.x = 0 /\ t.y = s.y
    BY <1>1 DEF TermState
<1>3. fw \in Nat \ {0} /\ fh \in Nat \ {0} /\ Thickness + fw <= Width /\ Thickness \in Nat /\ dims.height \in Nat
    BY Geometry, ScreenFacts
<1>4. PICK l \in Nat : s.y = l * fh
    BY <1>1 DEF OnGrid
<1>5. \E c \in Nat : 0 = c * fw
    <2>1. 0 = 0 * fw
        BY <1>3
    <2> QED BY <2>1
<1>6. s.y + fh <= dims.height
    BY <1>1 DEF OnGrid
<1>7. CASE s.y + fh * 2 > dims.height
    <2>1. TermNewLine(s) = Scroll(t)
        BY <1>7 DEF TermNewLine
    <2>2. PICK c \in Context : Scroll(t) = [t EXCEPT !.ctx = c] /\ Good(c, P, Q)
        BY <1>1, <1>2, ScrollGood
    <2> DEFINE u == [t EXCEPT !.ctx = c]
    <2>3. u \in TermState /\ u.ctx = c /\ u.x = 0 /\ u.y = s.y
        BY <1>2 DEF TermState
    <2> HIDE DEF u, t
    <2>4. OnGrid(u)
        BY <1>3, <1>4, <1>5, <1>6, <2>3 DEF OnGrid
    <2>5. u \in Sound(P, Q)
        BY <2>2, <2>3, <2>4 DEF Sound
    <2> QED BY <2>1, <2>2, <2>5 DEF u
<1>8. CASE ~(s.y + fh * 2 > dims.height)
    <2> DEFINE u == [t EXCEPT !.y = t.y + fh]
    <2>1. TermNewLine(s) = u
        BY <1>8 DEF TermNewLine
    <2> HIDE DEF t
    <2>2. u \in TermState /\ u.ctx = s.ctx /\ u.x = 0 /\ u.y = s.y + fh
        BY <1>1, <1>2, <1>3 DEF TermState
    <2> HIDE DEF u
    <2>3. s.y + fh = (l + 1) * fh
        BY <1>3, <1>4
    <2>4. u.y + fh <= dims.height
        BY <1>1, <1>3, <1>8, <2>2
    <2>5. OnGrid(u)
        BY <1>3, <1>4, <1>5, <2>2, <2>3, <2>4 DEF OnGrid
    <2> QED BY <1>1, <2>1, <2>2, <2>5 DEF Sound
<1> QED BY <1>7, <1>8

LEMMA AdvanceSound ==
  ASSUME Fits, NEW P, NEW Q, Allowed(P, Q), NEW s \in Sound(P, Q), NEW c
  PROVE  Advance(s, c) \in Sound(P, Q)
<1>1. CASE c = "\n" \/ s.x > dims.width - Thickness * 6
    BY <1>1, NewLineSound DEF Advance
<1>2. CASE ~(c = "\n" \/ s.x > dims.width - Thickness * 6)
    <2> DEFINE u == [s EXCEPT !.x = s.x + Font.width]
    <2>1. Advance(s, c) = u
        BY <1>2 DEF Advance
    <2>2. s \in TermState /\ OnGrid(s) /\ Good(s.ctx, P, Q) /\ s.x \in Nat
        BY DEF Sound, TermState
    <2>3. u \in TermState /\ u.ctx = s.ctx /\ u.x = s.x + Font.width /\ u.y = s.y
        BY <2>2, ScreenFacts DEF TermState
    <2> HIDE DEF u
    <2>4. PICK k \in Nat : s.x = k * Font.width
        BY <2>2 DEF OnGrid
    <2>5. u.x = (k + 1) * Font.width
        <3>1. (k + 1) * Font.width = k * Font.width + Font.width
            BY ScreenFacts
        <3> QED BY <2>3, <2>4, <3>1
    <2>6. s.x <= Width - 8 * Thickness
        BY <1>2, <2>2, Geometry, ScreenFacts
    <2>7. Thickness + u.x + Font.width <= Width
        BY <2>2, <2>3, <2>6, ScreenFacts DEF Fits
    <2>8. OnGrid(u)
        BY <2>2, <2>3, <2>5, <2>7 DEF OnGrid
    <2> QED BY <2>1, <2>2, <2>3, <2>8 DEF Sound
<1> QED BY <1>1, <1>2

\* Drawing the character at the cursor, or painting over it.
LEMMA AtCursor ==
  ASSUME Fits, NEW P, NEW Q, Allowed(P, Q), NEW s \in Sound(P, Q), NEW new \in Context,
         new.screen = s.ctx.screen,
         Marked(s.ctx.dirty, new.dirty, Thickness + s.y, Thickness + s.y + Font.height),
         \A p \in Pixels : new.buffer[p] = s.ctx.buffer[p]
                           \/ InRect(p, Thickness + s.x, Thickness + s.y, Font.width, Font.height)
  PROVE  Good(new, P, Q)
<1>1. s \in TermState /\ OnGrid(s) /\ Good(s.ctx, P, Q) /\ s.ctx \in Context
    BY DEF Sound, TermState
<1>2. PICK l \in 0 .. num_lines - 1 : Thickness + s.y = LineTop(l)
    BY <1>1, CursorLine
<1>3. l \in 0 .. num_lines
    BY Geometry
<1>4. LineTop(l) \in Nat /\ LineTop(l + 1) = LineTop(l) + Font.height /\ LineTop(l + 1) \in Nat
    BY <1>3, LineRows, ScreenFacts
<1>5. \A p \in Pixels : InRect(p, Thickness + s.x, Thickness + s.y, Font.width, Font.height)
                           => Within(Row(p), LineTop(l), LineTop(l + 1))
    BY <1>2, <1>4, PixelPlace, ScreenFacts DEF InRect, Within
<1> DEFINE old == s.ctx
           bottom == LineTop(l + 1)
<1>6. bottom \in Int /\ LineTop(l + 1) <= bottom /\ old \in Context /\ Good(old, P, Q)
      /\ new.screen = old.screen /\ Marked(old.dirty, new.dirty, LineTop(l), bottom)
      /\ \A p \in Pixels : new.buffer[p] = old.buffer[p] \/ Within(Row(p), LineTop(l), LineTop(l + 1))
    BY <1>1, <1>2, <1>4, <1>5
<1> HIDE DEF old, bottom
<1> QED BY <1>4, <1>6, Drawn

\* Where the character at the cursor is.
LEMMA CursorPlace ==
  ASSUME Fits, NEW s \in TermState, OnGrid(s)
  PROVE  /\ top_left.x + s.x = Thickness + s.x /\ top_left.y + s.y = Thickness + s.y
         /\ Thickness + s.x \in Nat /\ Thickness + s.y \in Nat
         /\ Thickness + s.x + Font.width <= Width
BY Geometry, ScreenFacts DEF OnGrid, TermState

LEMMA PrintCharSound ==
  ASSUME Fits, NEW P, NEW Q, Allowed(P, Q), NEW s \in Sound(P, Q), NEW c \in DOMAIN Font.matrix
  PROVE  PrintChar(s, c) \in Sound(P, Q)
<1> DEFINE t == Advance(s, c)
           new == DrawChar(t.ctx, Thickness + t.x, Thickness + t.y, c)
           u == [t EXCEPT !.ctx = new]
<1>1. t \in Sound(P, Q)
    BY AdvanceSound
<1> HIDE DEF t
<1>2. t \in TermState /\ OnGrid(t) /\ t.ctx \in Context
    BY <1>1 DEF Sound, TermState
<1>3. PrintChar(s, c) = u
    BY <1>2, CursorPlace DEF PrintChar, t
<1>4. /\ new \in Context
      /\ new.screen = t.ctx.screen
      /\ \A p \in Pixels : new.buffer[p] = t.ctx.buffer[p]
                           \/ InRect(p, Thickness + t.x, Thickness + t.y, Font.width, Font.height)
      /\ Marked(t.ctx.dirty, new.dirty, Thickness + t.y, Thickness + t.y + Font.height)
    BY <1>2, CursorPlace, DrawCharEffect
<1> HIDE DEF new
<1>5. Good(new, P, Q)
    BY <1>1, <1>4, AtCursor
<1>6. u \in TermState /\ u.ctx = new /\ u.x = t.x /\ u.y = t.y
    BY <1>2, <1>4 DEF TermState
<1> HIDE DEF u
<1>7. OnGrid(u)
    BY <1>2, <1>6 DEF OnGrid
<1> QED BY <1>3, <1>5, <1>6, <1>7 DEF Sound

LEMMA TermPrintSound ==
  ASSUME Fits, NEW P, NEW Q, Allowed(P, Q), NEW s \in Sound(P, Q), NEW str \in Seq(DOMAIN Font.matrix)
  PROVE  TermPrint(s, str) \in Sound(P, Q)
<1>1. \A t \in Sound(P, Q), k \in 1 .. Len(str) : PrintChar(t, str[k]) \in Sound(P, Q)
    <2> TAKE t \in Sound(P, Q), k \in 1 .. Len(str)
    <2>1. str[k] \in DOMAIN Font.matrix
        OBVIOUS
    <2> QED BY <2>1, PrintCharSound
<1>2. PICK f \in [0 .. Len(str) -> Sound(P, Q)] : PrintRun(f, s, str)
    <2> DEFINE D == Sound(P, Q)
    <2> HIDE DEF D
    <2>1. s \in D /\ \A t \in D, k \in 1 .. Len(str) : PrintChar(t, str[k]) \in D
        BY <1>1 DEF D
    <2>2. \E f \in [0 .. Len(str) -> D] : PrintRun(f, s, str)
        BY <2>1, PrintLoop
    <2> QED BY <2>2 DEF D
<1>3. Len(str) \in 0 .. Len(str)
    OBVIOUS
<1> QED BY <1>2, <1>3 DEF PrintRun

LEMMA RemoveCharSound ==
  ASSUME Fits, NEW P, NEW Q, Allowed(P, Q), NEW s \in Sound(P, Q)
  PROVE  RemoveChar(s) \in Sound(P, Q)
<1> DEFINE new == DrawRect(s.ctx, Thickness + s.x, Thickness + s.y, Font.width, Font.height, "background")
           t == [s EXCEPT !.ctx = new]
           fw == Font.width
           fh == Font.height
<1>1. s \in TermState /\ OnGrid(s) /\ s.ctx \in Context /\ s.x \in Nat /\ s.y \in Nat
    BY DEF Sound, TermState
<1>2. "background" \in Colours /\ fw \in Int /\ fh \in Nat
    BY ScreenFacts DEF Colours
<1>3. /\ new \in Context
      /\ new.screen = s.ctx.screen
      /\ \A p \in Pixels : new.buffer[p] = s.ctx.buffer[p]
                           \/ InRect(p, Thickness + s.x, Thickness + s.y, fw, fh)
      /\ Marked(s.ctx.dirty, new.dirty, Thickness + s.y, Thickness + s.y + fh)
    <2> DEFINE x == Thickness + s.x
               y == Thickness + s.y
               ctx == s.ctx
    <2>1. x \in Nat /\ y \in Nat /\ x + fw <= Width /\ ctx \in Context
        BY <1>1, CursorPlace
    <2> HIDE DEF x, y, ctx
    <2>2. /\ DrawRect(ctx, x, y, fw, fh, "background") \in Context
          /\ DrawRect(ctx, x, y, fw, fh, "background").screen = ctx.screen
          /\ \A p \in Pixels : DrawRect(ctx, x, y, fw, fh, "background").buffer[p] =
                IF InRect(p, x, y, fw, fh) THEN "background" ELSE ctx.buffer[p]
          /\ Marked(ctx.dirty, DrawRect(ctx, x, y, fw, fh, "background").dirty, y, y + fh)
        BY <1>2, <2>1, DrawRectEffect
    <2> QED BY <2>2 DEF x, y, ctx
<1>4. RemoveChar(s) = IF s.x = 0 /\ s.y = 0 THEN s
                      ELSE IF s.x = 0 THEN [t EXCEPT !.x = (chars_per_line - 1) * fw, !.y = t.y - fh]
                      ELSE [t EXCEPT !.x = t.x - fw]
    BY <1>1, CursorPlace DEF RemoveChar, TermState
<1> HIDE DEF new
<1>5. Good(new, P, Q)
    BY <1>3, AtCursor
<1>6. t \in TermState /\ t.ctx = new /\ t.x = s.x /\ t.y = s.y
    BY <1>1, <1>3 DEF TermState
<1> HIDE DEF t
<1>7. CASE s.x = 0 /\ s.y # 0
    <2> DEFINE x == (chars_per_line - 1) * fw
               u == [t EXCEPT !.x = x, !.y = t.y - fh]
    <2>1. chars_per_line - 1 \in Nat /\ x \in Nat /\ x + fw = chars_per_line * fw
        BY Geometry, ScreenFacts
    <2>2. PICK l \in Nat : s.y = l * fh
        BY <1>1 DEF OnGrid
    <2>3. l # 0 /\ l - 1 \in Nat /\ s.y - fh = (l - 1) * fh
        BY <1>7, <2>2, ScreenFacts
    <2>4. (l - 1) * fh \in Nat
        BY <2>3, ScreenFacts
    <2>5. u \in TermState /\ u.ctx = new /\ u.x = x /\ u.y = s.y - fh
        BY <1>6, <2>1, <2>3, <2>4 DEF TermState
    <2> HIDE DEF u
    <2>6. Thickness + x + fw <= Width
        BY <2>1, Geometry, ScreenFacts
    <2>7. u.y + fh <= dims.height
        <3>1. s.y + fh <= dims.height /\ dims.height \in Nat /\ fh \in Nat
            BY <1>1, Geometry, ScreenFacts DEF OnGrid
        <3> QED BY <1>1, <2>5, <3>1
    <2>8. OnGrid(u)
        BY <2>1, <2>3, <2>5, <2>6, <2>7 DEF OnGrid
    <2>9. u \in Sound(P, Q)
        BY <1>5, <2>5, <2>8 DEF Sound
    <2> QED BY <1>4, <1>7, <2>9 DEF u
<1>8. CASE s.x # 0
    <2> DEFINE u == [t EXCEPT !.x = t.x - fw]
    <2>1. PICK k \in Nat : s.x = k * fw
        BY <1>1 DEF OnGrid
    <2>2. k # 0 /\ k - 1 \in Nat /\ s.x - fw = (k - 1) * fw
        BY <1>8, <2>1, ScreenFacts
    <2>3. (k - 1) * fw \in Nat
        BY <2>2, ScreenFacts
    <2>4. u \in TermState /\ u.ctx = new /\ u.x = s.x - fw /\ u.y = s.y
        BY <1>6, <2>2, <2>3 DEF TermState
    <2> HIDE DEF u
    <2>5. Thickness + u.x + fw <= Width
        BY <1>1, <2>4, ScreenFacts DEF OnGrid
    <2>6. OnGrid(u)
        BY <1>1, <2>2, <2>4, <2>5 DEF OnGrid
    <2>7. u \in Sound(P, Q)
        BY <1>5, <2>4, <2>6 DEF Sound
    <2> QED BY <1>4, <1>8, <2>7 DEF u
<1>9. CASE s.x = 0 /\ s.y = 0
    BY <1>4, <1>9
<1> QED BY <1>7, <1>8, <1>9

\* A key leaves nothing dirty.
LEMMA HandleKeySound ==
  ASSUME Fits, NEW P, NEW Q, Allowed(P, Q), NEW s \in Sound(P, Q), NEW i,
         NEW str \in Seq(DOMAIN Font.matrix)
  PROVE  HandleKeyStroke(s, i, str) \in Sound(P, Q) /\ HandleKeyStroke(s, i, str).ctx.dirty = {}
<1> DEFINE t == IF i.backspace THEN RemoveChar(s)
                ELSE IF i.enter THEN TermPrint(TermNewLine(s), Prompt)
                ELSE TermPrint(s, str)
           u == [t EXCEPT !.ctx = WriteBack(t.ctx)]
<1>1. Prompt \in Seq(DOMAIN Font.matrix)
    BY TerminalConstants DEF TerminalConstants
<1>2. TermPrint(TermNewLine(s), Prompt) \in Sound(P, Q)
    BY <1>1, NewLineSound, TermPrintSound
<1>3. t \in Sound(P, Q)
    BY <1>2, RemoveCharSound, TermPrintSound
<1>4. HandleKeyStroke(s, i, str) = u
    BY DEF HandleKeyStroke
<1> HIDE DEF t
<1>5. t \in TermState /\ OnGrid(t) /\ t.ctx \in Context /\ Good(t.ctx, P, Q)
    BY <1>3 DEF Sound, TermState
<1>6. WriteBack(t.ctx) \in Context /\ WriteBack(t.ctx).dirty = {} /\ Good(WriteBack(t.ctx), P, Q)
    BY <1>5, WriteBackEffect, CopiedBack
<1>7. u \in TermState /\ u.ctx = WriteBack(t.ctx) /\ u.x = t.x /\ u.y = t.y
    BY <1>5, <1>6 DEF TermState
<1> HIDE DEF u
<1>8. OnGrid(u)
    BY <1>5, <1>7 DEF OnGrid
<1> QED BY <1>4, <1>6, <1>7, <1>8 DEF Sound

\* Where everything is dirty, anything may be drawn that is not in Q.
LEMMA DrawnDirty ==
  ASSUME NEW P, NEW Q, Allowed(P, Q), NEW ctx \in Context, Kept(ctx, Q), ctx.dirty = 0 .. NumRows - 1,
         NEW x \in Nat, NEW y \in Nat, NEW w \in Int, NEW h \in Nat, x + w <= Width,
         y + h <= Height \div 2, NEW colour \in Colours
  PROVE  /\ DrawRect(ctx, x, y, w, h, colour) \in Context
         /\ DrawRect(ctx, x, y, w, h, colour).dirty = 0 .. NumRows - 1
         /\ DrawRect(ctx, x, y, w, h, colour).screen = ctx.screen
         /\ Good(DrawRect(ctx, x, y, w, h, colour), P, Q)
<1> DEFINE new == DrawRect(ctx, x, y, w, h, colour)
<1>1. /\ new \in Context
      /\ new.screen = ctx.screen
      /\ \A p \in Pixels : new.buffer[p] = IF InRect(p, x, y, w, h) THEN colour ELSE ctx.buffer[p]
      /\ Marked(ctx.dirty, new.dirty, y, y + h)
    BY DrawRectEffect
<1> HIDE DEF new
<1>2. new.dirty = 0 .. NumRows - 1
    BY <1>1 DEF Marked, Context
<1>3. InStep(new, P)
    <2>1. \A p \in P : Cell(p) \in Nat
        BY CellIsNumber DEF Allowed
    <2> QED BY <1>2, <2>1, ScreenFacts DEF InStep
<1>4. Kept(new, Q)
    <2> SUFFICES ASSUME NEW p \in Q
                 PROVE  new.buffer[p] = "black" /\ (Cell(p) >= NumRows => new.screen[p] = "boot")
        BY DEF Kept
    <2>1. p \in Pixels /\ Row(p) >= Height \div 2
        BY DEF Allowed
    <2>2. ~InRect(p, x, y, w, h)
        <3>1. Row(p) \in Nat /\ Height \div 2 \in Nat
            BY <2>1, PixelPlace, ScreenFacts
        <3> QED BY <2>1, <3>1 DEF InRect
    <2> QED BY <1>1, <2>1, <2>2 DEF Kept
<1> QED BY <1>1, <1>2, <1>3, <1>4 DEF Good, new

\* What Render leaves of the back buffer before it prints the prompt.
Framed(ctx) ==
    DrawRect(RenderBorders(ctx), top_left.x, top_left.y, dims.width, dims.height, "background")

LEMMA FramedGood ==
  ASSUME Fits, NEW P, NEW Q, Allowed(P, Q), NEW ctx \in Context, Kept(ctx, Q),
         ctx.dirty = 0 .. NumRows - 1
  PROVE  /\ Framed(ctx) \in Context /\ Good(Framed(ctx), P, Q)
         /\ Framed(ctx).dirty = 0 .. NumRows - 1
         /\ Framed(ctx).screen = ctx.screen
         /\ \A p \in Pixels : ctx.buffer[p] # "ink" => Framed(ctx).buffer[p] # "ink"
<1> DEFINE half == Height \div 2
           T == Thickness
           b == DrawRect(ctx, 0, 0, Width, half, "border")
<1>1. half \in Nat /\ T \in Nat /\ Width \in Nat /\ dims.width \in Nat /\ dims.height \in Nat
      /\ dims.width + T * 2 = Width /\ dims.height + T * 2 = half
      /\ top_left.x = T /\ top_left.y = T
    <2>1. /\ dims.width \in Nat /\ dims.width = Width - 2 * Thickness
          /\ dims.height \in Nat /\ dims.height = Height \div 2 - 2 * Thickness
          /\ top_left.x = Thickness /\ top_left.y = Thickness /\ half \in Nat
        BY Geometry
    <2>2. T \in Nat /\ Width \in Nat
        BY ScreenFacts
    <2>3. dims.width + T * 2 = Width /\ dims.height + T * 2 = half
        BY <2>1, <2>2
    <2> QED BY <2>1, <2>2, <2>3
<1>2. RenderBorders(ctx) = b
    <2>1. top_left.x - T = 0 /\ top_left.y - T = 0
        BY <1>1
    <2> QED BY <1>1, <2>1 DEF RenderBorders
<1>3. {"border", "background"} \subseteq Colours
    BY DEF Colours
<1>4. b \in Context /\ b.dirty = 0 .. NumRows - 1 /\ b.screen = ctx.screen /\ Good(b, P, Q)
    <2>1. 0 \in Nat /\ Width \in Int /\ 0 + Width <= Width /\ 0 + half <= Height \div 2 /\ "border" \in Colours
        BY <1>1, <1>3
    <2> HIDE DEF half
    <2> QED BY <1>1, <2>1, DrawnDirty
<1>5. \A p \in Pixels : b.buffer[p] = "border" \/ b.buffer[p] = ctx.buffer[p]
    <2>1. 0 \in Nat /\ Width \in Int /\ 0 + Width <= Width /\ "border" \in Colours
        BY <1>1, <1>3
    <2> HIDE DEF half
    <2>2. \A p \in Pixels : b.buffer[p] = IF InRect(p, 0, 0, Width, half) THEN "border" ELSE ctx.buffer[p]
        BY <1>1, <2>1, DrawRectEffect
    <2> HIDE DEF b
    <2> QED BY <2>2
<1> HIDE DEF b
<1> DEFINE d == DrawRect(b, T, T, dims.width, dims.height, "background")
<1>6. Framed(ctx) = d
    BY <1>1, <1>2 DEF Framed
<1>7. Kept(b, Q)
    BY <1>4 DEF Good
<1>8. T \in Nat /\ dims.width \in Int /\ T + dims.width <= Width /\ T + dims.height <= Height \div 2
      /\ dims.height \in Nat /\ "background" \in Colours
    BY <1>1, <1>3
<1>9. d \in Context /\ d.dirty = 0 .. NumRows - 1 /\ d.screen = b.screen /\ Good(d, P, Q)
    BY <1>4, <1>7, <1>8, DrawnDirty
<1>10. \A p \in Pixels : d.buffer[p] = "background" \/ d.buffer[p] = b.buffer[p]
    <2>1. \A p \in Pixels : d.buffer[p] = IF InRect(p, T, T, dims.width, dims.height)
                                          THEN "background" ELSE b.buffer[p]
        <3> DEFINE ww == dims.width
                   hh == dims.height
        <3>1. ww \in Int /\ hh \in Nat /\ T + ww <= Width
            BY <1>8
        <3> HIDE DEF ww, hh, T
        <3>2. \A p \in Pixels : DrawRect(b, T, T, ww, hh, "background").buffer[p] =
                 IF InRect(p, T, T, ww, hh) THEN "background" ELSE b.buffer[p]
            BY <1>4, <1>8, <3>1, DrawRectEffect
        <3> QED BY <3>2 DEF ww, hh
    <2> HIDE DEF d
    <2> QED BY <2>1
<1> QED BY <1>4, <1>5, <1>6, <1>9, <1>10

-----------------------------------------------------------------------------
(* The console. *)

\* Where the screen stands at each statement of _start.
ScreenInv(P, Q) ==
    /\ term \in TermState /\ OnGrid(term)
    /\ pc \in {"clear", "terminal", "write", "unmask", "consume", "halt"}
    /\ pc \in {"clear", "terminal"} => term.x = 0 /\ term.y = 0
    /\ pc = "clear" => term.ctx = InitGraphicsCtx
    /\ pc = "terminal" => term.ctx.dirty = 0 .. NumRows - 1
    /\ pc # "clear" => Good(term.ctx, P, Q)
    /\ Shown => term.ctx.dirty = {}

LEMMA InitContext == InitGraphicsCtx \in Context
BY DEF InitGraphicsCtx, Context, Colours

LEMMA InitScreen ==
  ASSUME Fits, NEW P, NEW Q
  PROVE  Init => ScreenInv(P, Q)
<1> SUFFICES ASSUME Init PROVE ScreenInv(P, Q)
    OBVIOUS
<1>1. term \in TermState /\ term.x = 0 /\ term.y = 0 /\ term.ctx = InitGraphicsCtx /\ pc = "clear"
    BY InitContext DEF Init, TermState
<1>2. 0 = 0 * Font.width /\ 0 = 0 * Font.height
    BY ScreenFacts
<1>3. Thickness + 0 + Font.width <= Width /\ 0 + Font.height <= dims.height
    BY Geometry, ScreenFacts DEF Fits
<1>4. OnGrid(term)
    BY <1>1, <1>2, <1>3 DEF OnGrid
<1> QED BY <1>1, <1>4 DEF ScreenInv, Shown

LEMMA KeyCharacters ==
  ASSUME NEW shift, NEW key
  PROVE  CharFromScancode(shift, key) \in Seq(DOMAIN Font.matrix)
<1>1. Lower \in DOMAIN Font.matrix /\ Upper \in DOMAIN Font.matrix
    BY ConsoleConstants DEF ConsoleConstants
<1> DEFINE C == DOMAIN Font.matrix
<1> HIDE DEF C
<1>2. <<>> \in Seq(C) /\ \A c \in C : <<c>> \in Seq(C)
    OBVIOUS
<1>3. CharFromScancode(shift, key) \in {<<>>, <<Lower>>, <<Upper>>}
    BY Zenon DEF CharFromScancode
<1> QED BY <1>1, <1>2, <1>3 DEF C

\* What an interrupt does to the terminal.
LEMMA InterruptTerm ==
  ASSUME NEW key \in Keys, NEW pressed, Interrupt(key, pressed)
  PROVE  /\ UNCHANGED <<consumer, masked, pc>>
         /\ \/ UNCHANGED term
            \/ /\ consumer
               /\ \E i, shift, k : term' = HandleKeyStroke(term, i, CharFromScancode(shift, k))
<1>1. CASE masked
    BY <1>1 DEF Interrupt
<1>2. CASE ~masked
    <2>1. Isr1Handler(key, pressed)
        BY <1>2 DEF Interrupt
    <2>2. UNCHANGED <<consumer, masked, pc>>
        BY <2>1, Zenon DEF Isr1Handler
    <2>3. \/ UNCHANGED term
          \/ /\ consumer
             /\ \E i, shift, k : term' = HandleKeyStroke(term, i, CharFromScancode(shift, k))
        BY <2>1, Zenon DEF Isr1Handler
    <2> QED BY <2>2, <2>3
<1> QED BY <1>1, <1>2

\* What ClearScreen makes of the first context.
LEMMA Cleared ==
  /\ ClearScreen(InitGraphicsCtx, "black").buffer = [p \in Pixels |-> "black"]
  /\ ClearScreen(InitGraphicsCtx, "black").screen = [p \in Pixels |-> "boot"]
  /\ ClearScreen(InitGraphicsCtx, "black").dirty = 0 .. NumRows - 1
  /\ ClearScreen(InitGraphicsCtx, "black") \in Context
<1> DEFINE ctx == InitGraphicsCtx
           new == ClearScreen(ctx, "black")
           black == [p \in Pixels |-> "black"]
           boot == [p \in Pixels |-> "boot"]
<1>1. ctx = [buffer |-> black, screen |-> boot, dirty |-> {}]
    BY DEF InitGraphicsCtx
<1>2. new = [ctx EXCEPT !.buffer = black, !.dirty = 0 .. 2 * IntBits - 1]
    BY DEF ClearScreen
<1>3. 2 * IntBits = NumRows
    BY ScreenFacts
<1>4. black \in [Pixels -> Colours] /\ boot \in [Pixels -> Colours]
    BY DEF Colours
<1> HIDE DEF black, boot, new, ctx
<1>5. new = [buffer |-> black, screen |-> boot, dirty |-> 0 .. NumRows - 1]
    BY <1>1, <1>2, <1>3
<1>6. new \in Context
    BY <1>4, <1>5 DEF Context
<1> QED BY <1>5, <1>6 DEF black, boot, new, ctx

LEMMA NextScreen ==
  ASSUME Fits, NEW P, NEW Q, Allowed(P, Q)
  PROVE  WindowInv /\ ScreenInv(P, Q) /\ [Next]_vars => ScreenInv(P, Q)'
<1> SUFFICES ASSUME WindowInv, ScreenInv(P, Q), [Next]_vars PROVE ScreenInv(P, Q)'
    OBVIOUS
<1> DEFINE ctx == term.ctx
<1>0. ctx \in Context /\ term \in TermState /\ OnGrid(term)
    BY DEF ScreenInv, TermState
<1>1. CASE Boot /\ pc = "clear"
    <2> DEFINE new == ClearScreen(ctx, "black")
    <2>1. pc' = "terminal" /\ term' = [term EXCEPT !.ctx = new]
        BY <1>1 DEF Boot
    <2>2. ctx = InitGraphicsCtx
        BY <1>1 DEF ScreenInv
    <2>3. new.buffer = [p \in Pixels |-> "black"] /\ new.dirty = 0 .. NumRows - 1
          /\ new.screen = [p \in Pixels |-> "boot"]
        BY <2>2, Cleared
    <2>4. new \in Context
        BY <2>2, Cleared
    <2> HIDE DEF new
    <2>5. term' \in TermState /\ term'.x = term.x /\ term'.y = term.y /\ term'.ctx = new
        BY <1>0, <2>1, <2>4 DEF TermState
    <2>6. Good(new, P, Q)
        <3>1. \A p \in P \cup Q : p \in Pixels /\ Cell(p) \in Nat
            BY CellIsNumber DEF Allowed
        <3> QED BY <2>3, <3>1, ScreenFacts DEF Good, InStep, Kept
    <2>7. OnGrid(term')
        BY <1>0, <2>5 DEF OnGrid
    <2> QED BY <1>1, <2>1, <2>3, <2>5, <2>6, <2>7 DEF ScreenInv, Shown
<1>2. CASE Boot /\ pc = "terminal"
    <2> DEFINE s == [term EXCEPT !.ctx = Framed(ctx)]
    <2>1. pc' = "write" /\ term' = Render(term)
        BY <1>2 DEF Boot
    <2>2. term' = TermPrint(s, Prompt)
        BY <2>1 DEF Render, Framed
    <2>3. ctx.dirty = 0 .. NumRows - 1 /\ Kept(ctx, Q)
        BY <1>2 DEF ScreenInv, Good
    <2>4. Framed(ctx) \in Context /\ Good(Framed(ctx), P, Q)
        BY <1>0, <2>3, FramedGood
    <2>5. s \in TermState /\ s.x = term.x /\ s.y = term.y /\ s.ctx = Framed(ctx)
        BY <1>0, <2>4 DEF TermState
    <2> HIDE DEF s
    <2>6. OnGrid(s)
        BY <1>0, <2>5 DEF OnGrid
    <2>7. s \in Sound(P, Q)
        BY <2>4, <2>5, <2>6 DEF Sound
    <2>8. term' \in Sound(P, Q)
        BY <2>2, <2>7, TermPrintSound, TerminalConstants DEF TerminalConstants
    <2> QED BY <2>1, <2>8 DEF ScreenInv, Sound, Shown
<1>3. CASE Boot /\ pc = "write"
    <2>1. pc' = "unmask" /\ term' = [term EXCEPT !.ctx = WriteBack(ctx)]
        BY <1>3 DEF Boot
    <2>2. Good(ctx, P, Q)
        BY <1>3 DEF ScreenInv
    <2>3. WriteBack(ctx) \in Context /\ WriteBack(ctx).dirty = {} /\ Good(WriteBack(ctx), P, Q)
        BY <1>0, <2>2, WriteBackEffect, CopiedBack
    <2>4. term' \in TermState /\ term'.x = term.x /\ term'.y = term.y /\ term'.ctx = WriteBack(ctx)
        BY <1>0, <2>1, <2>3 DEF TermState
    <2>5. OnGrid(term')
        BY <1>0, <2>4 DEF OnGrid
    <2> QED BY <2>1, <2>3, <2>4, <2>5 DEF ScreenInv, Shown
<1>4. CASE Boot /\ pc \in {"unmask", "consume"}
    <2>1. UNCHANGED term /\ pc' \in {"consume", "halt"}
        BY <1>4 DEF Boot
    <2> QED BY <1>4, <2>1 DEF ScreenInv, Shown
<1>5. ASSUME NEW key \in Keys, NEW pressed, Interrupt(key, pressed) PROVE ScreenInv(P, Q)'
    <2>1. pc' = pc
        BY <1>5, InterruptTerm
    <2>2. CASE UNCHANGED term
        BY <2>1, <2>2 DEF ScreenInv, Shown
    <2>3. CASE consumer /\ \E i, shift, k : term' = HandleKeyStroke(term, i, CharFromScancode(shift, k))
        <3>1. PICK i, shift, k : term' = HandleKeyStroke(term, i, CharFromScancode(shift, k))
            BY <2>3
        <3>2. pc = "halt"
            BY <2>3 DEF WindowInv
        <3>3. term \in Sound(P, Q)
            BY <1>0, <3>2 DEF ScreenInv, Sound
        <3>4. term' \in Sound(P, Q) /\ term'.ctx.dirty = {}
            BY <3>1, <3>3, KeyCharacters, HandleKeySound
        <3> QED BY <2>1, <3>2, <3>4 DEF ScreenInv, Sound, Shown
    <2> QED BY <1>5, <2>2, <2>3, InterruptTerm
<1>6. CASE UNCHANGED vars
    BY <1>6 DEF vars, ScreenInv, Shown
<1>7. CASE Boot
    BY <1>1, <1>2, <1>3, <1>4, <1>7 DEF Boot
<1>8. ASSUME NEW key \in Keys, Press(key) \/ Release(key) PROVE ScreenInv(P, Q)'
    <2>1. Interrupt(key, TRUE) \/ Interrupt(key, FALSE)
        BY <1>8, Zenon DEF Press, Release
    <2> QED BY <1>5, <2>1
<1> QED BY <1>6, <1>7, <1>8 DEF Next

\* The lowest line of text starts in a cell below IntBits, which SetNthBit
\* marks as it should.  So on 1024 x 768 and 800 x 600, but not on the 1920 x
\* 1080 that _start asks for.
TextInReach == LineTop(num_lines - 1) < IntBits * row_height

\* The lines of text, which are counted in the height with the borders, end
\* above the lower half.  So on 1920 x 1080 and 800 x 600.
TextAboveHalf == LineTop(num_lines) <= Height \div 2

\* The pixels of the lower half of the screen.
LowerHalf == {p \in Pixels : Row(p) >= Height \div 2}

LEMMA AllowedAnywhere ==
  ASSUME Fits, TextInReach
  PROVE  Allowed(Pixels, {})
<1>1. ASSUME NEW l \in 0 .. num_lines - 1
      PROVE  LineTop(l) \div row_height < IntBits
    <2>1. num_lines \in Nat /\ l \in 0 .. num_lines /\ num_lines - 1 \in 0 .. num_lines /\ l <= num_lines - 1
        BY Geometry
    <2>2. LineTop(l) \in Nat /\ LineTop(num_lines - 1) \in Nat
        BY <2>1, LineRows
    <2>3. LineTop(l) <= LineTop(num_lines - 1)
        <3>1. l * Font.height <= (num_lines - 1) * Font.height
              /\ l * Font.height \in Nat /\ (num_lines - 1) * Font.height \in Int
            BY <2>1, ScreenFacts
        <3> QED BY <3>1, ScreenFacts DEF LineTop
    <2>4. LineTop(l) < IntBits * row_height
        <3>1. IntBits * row_height \in Nat
            BY ScreenFacts
        <3> QED BY <2>2, <2>3, <3>1 DEF TextInReach
    <2> QED BY <2>2, <2>4, ScreenFacts, QuotientBelow
<1> QED BY <1>1 DEF Allowed

LEMMA AllowedBelow ==
  ASSUME Fits, TextAboveHalf
  PROVE  Allowed(LowerHalf, LowerHalf)
<1>1. ASSUME NEW l \in 0 .. num_lines - 1, NEW p \in Pixels, Within(Row(p), LineTop(l), LineTop(l + 1))
      PROVE  p \notin LowerHalf
    <2>1. num_lines \in Nat /\ l + 1 \in 0 .. num_lines /\ num_lines \in 0 .. num_lines /\ l + 1 <= num_lines
        BY Geometry
    <2>2. LineTop(l + 1) \in Nat /\ LineTop(num_lines) \in Nat
        BY <2>1, LineRows
    <2>3. LineTop(l + 1) <= LineTop(num_lines)
        <3>1. (l + 1) * Font.height <= num_lines * Font.height
              /\ (l + 1) * Font.height \in Nat /\ num_lines * Font.height \in Nat
            BY <2>1, ScreenFacts
        <3> QED BY <3>1, ScreenFacts DEF LineTop
    <2>4. Row(p) < Height \div 2
        BY <1>1, <2>2, <2>3, Geometry DEF Within, TextAboveHalf
    <2>5. Row(p) \in Nat /\ Height \div 2 \in Nat
        BY Geometry, PixelPlace
    <2> QED BY <2>4, <2>5 DEF LowerHalf
<1> QED BY <1>1 DEF Allowed, LowerHalf

\* The character at the cursor lies inside the terminal after any sequence of
\* keys, prompts, wrapped lines, scrolls and backspaces, for every screen and
\* font whose sizes go together.
THEOREM CursorSafe ==
  ASSUME Fits
  PROVE  Spec => []CursorInside
<1>1. Allowed({}, {})
    BY DEF Allowed
<1>2. ScreenInv({}, {}) => CursorInside
    <2>1. term \in TermState /\ OnGrid(term) => CursorInside
        BY Geometry, ScreenFacts DEF TermState, OnGrid, CursorInside
    <2> QED BY <2>1 DEF ScreenInv
<1>3. Init => ScreenInv({}, {})
    BY InitScreen
<1>4. WindowInv /\ ScreenInv({}, {}) /\ [Next]_vars => ScreenInv({}, {})'
    BY <1>1, NextScreen
<1> QED BY <1>2, <1>3, <1>4, InitWindow, NextWindow, PTL DEF Spec

\* Whatever is drawn in a row that can be copied is on the screen when the
\* handler that drew it returns, if the lowest line of text starts in a cell
\* that SetNthBit marks as it should.
THEOREM DirtySafe ==
  ASSUME Fits, TextInReach
  PROVE  Spec => []DirtyRowsShown
<1>1. Init => ScreenInv(Pixels, {})
    BY InitScreen
<1>2. WindowInv /\ ScreenInv(Pixels, {}) /\ [Next]_vars => ScreenInv(Pixels, {})'
    BY AllowedAnywhere, NextScreen
<1>3. ScreenInv(Pixels, {}) => DirtyRowsShown
    BY DEF ScreenInv, Shown, DirtyRowsShown, Good, InStep
<1> QED BY <1>3, <1>1, <1>2, InitWindow, NextWindow, PTL DEF Spec

\* Printing, scrolling and erasing stay inside the terminal, border included,
\* and leave the lower half of the screen as ClearScreen and the bootloader
\* left it, if the lines of text end above it.
THEOREM InsideSafe ==
  ASSUME Fits, TextAboveHalf
  PROVE  Spec => []StaysInside
<1>1. Init => ScreenInv(LowerHalf, LowerHalf)
    BY InitScreen
<1>2. WindowInv /\ ScreenInv(LowerHalf, LowerHalf) /\ [Next]_vars => ScreenInv(LowerHalf, LowerHalf)'
    BY AllowedBelow, NextScreen
<1>3. ScreenInv(LowerHalf, LowerHalf) => LowerHalfKept
    <2> SUFFICES ASSUME ScreenInv(LowerHalf, LowerHalf), Shown, NEW p \in Pixels,
                        p \div Width >= Height \div 2
                 PROVE  term.ctx.screen[p] = IF Cell(p) < NumRows THEN "black" ELSE "boot"
        BY DEF LowerHalfKept
    <2>1. p \in LowerHalf /\ Cell(p) \in Nat
        BY CellIsNumber DEF LowerHalf, Row
    <2>2. Good(term.ctx, LowerHalf, LowerHalf) /\ term.ctx.dirty = {}
        BY DEF ScreenInv, Shown
    <2>3. Cell(p) >= NumRows <=> ~(Cell(p) < NumRows)
        BY <2>1, ScreenFacts
    <2> QED BY <2>1, <2>2, <2>3 DEF Good, InStep, Kept
<1>4. ScreenInv(LowerHalf, LowerHalf) /\ WindowInv /\ FlagInv => TypeOK
    <2> SUFFICES ASSUME ScreenInv(LowerHalf, LowerHalf), WindowInv, FlagInv PROVE TypeOK
        OBVIOUS
    <2>1. /\ term.ctx.buffer \in [Pixels -> Colours]
          /\ term.ctx.screen \in [Pixels -> Colours]
          /\ term.ctx.dirty \subseteq 0 .. NumRows - 1
          /\ {term.x, term.y} \subseteq Nat
        BY DEF ScreenInv, TermState, Context
    <2>2. pc \in {"clear", "terminal", "write", "unmask", "consume", "halt"}
        BY DEF ScreenInv
    <2>3. {consumer, masked, crashed} \subseteq BOOLEAN
        <3>1. consumer \in BOOLEAN
            BY DEF WindowInv
        <3>2. masked \in BOOLEAN
            BY DEF WindowInv
        <3>3. crashed \in BOOLEAN
            BY DEF WindowInv
        <3> QED BY <3>1, <3>2, <3>3
    <2> QED BY <2>1, <2>2, <2>3 DEF TypeOK, FlagInv
<1> QED BY <1>3, <1>4, <1>1, <1>2, CursorSafe, InitWindow, NextWindow, InitFlags, NextFlags, PTL
        DEF Spec, StaysInside

-----------------------------------------------------------------------------
(* The text. *)

\* The column behind which text is wrapped, and the pixel column behind it.
LastCol == (dims.width - 6 * Thickness) \div Font.width + 1
Edge == Thickness + (LastCol + 1) * Font.width

\* Characters that are printed.
Used == {Lower, Upper} \cup {Prompt[k] : k \in 1 .. Len(Prompt)}

\* The terminal is high enough for the lines it counts and wide enough for the
\* room TermPrint leaves on the right, the prompt fits into a line, and each
\* character can be told from its glyph.  So on 800 x 600.
Readable ==
    /\ Fits /\ TextInReach
    /\ num_lines * Font.height <= dims.height
    /\ 8 * Thickness <= Width
    /\ Font.width <= 3 * Thickness
    /\ Len(Prompt) <= LastCol
    /\ \A c \in Used : c # "\n" /\ CharOf(Font.matrix[c]) = c

\* When TermPrint wraps and TermNewLine scrolls, in columns and lines.
LEMMA TextGeometry ==
  ASSUME Readable
  PROVE  /\ Fits /\ LastCol \in Nat
         /\ \A k \in Nat : k * Font.width > dims.width - Thickness * 6 <=> k >= LastCol
         /\ \A l \in Nat : l * Font.height + Font.height * 2 > dims.height <=> l >= num_lines - 1
         /\ Edge \in Nat /\ Edge <= Thickness + dims.width
         /\ Edge <= Thickness + chars_per_line * Font.width
         /\ LastCol < chars_per_line
<1> DEFINE fw == Font.width
           fh == Font.height
           T == Thickness
           N == dims.width - 6 * T
           n == num_lines
           q == N \div fw
<1>1. Fits /\ fw \in Nat \ {0} /\ fh \in Nat \ {0} /\ T \in Nat /\ fw <= 3 * T /\ 8 * T <= Width /\ Width \in Nat
    BY ScreenFacts DEF Readable
<1>2. dims.width = Width - 2 * T /\ dims.height = Height \div 2 - 2 * T /\ n \in Nat \ {0}
      /\ dims.height \in Nat /\ Height \div 2 \in Nat /\ n * fh <= dims.height
      /\ \A l \in Nat : l * fh <= Height \div 2 => l <= n
    BY <1>1, Geometry DEF Readable
<1>3. N \in Nat /\ N = Width - 8 * T /\ dims.width - T * 6 = N
    BY <1>1, <1>2
<1>4. q \in Nat /\ N % fw \in 0 .. fw - 1 /\ N = fw * q + (N % fw)
    BY <1>1, <1>3, Quotient
<1>5. LastCol = q + 1
    BY DEF LastCol
<1> HIDE DEF N, q, n, T, fw, fh
<1>6. ASSUME NEW k \in Nat PROVE k * fw > N <=> k >= q + 1
    <2>1. N < k * fw <=> q < k
        BY <1>1, <1>3, QuotientBelow DEF q
    <2>2. k * fw \in Nat
        BY <1>1
    <2> QED BY <1>3, <1>4, <2>1, <2>2
<1>7. ASSUME NEW l \in Nat PROVE l * fh + fh * 2 > dims.height <=> l >= n - 1
    <2>1. l * fh + fh * 2 = (l + 2) * fh /\ (l + 2) * fh \in Nat
        BY <1>1
    <2>2. CASE l >= n - 1
        <3>1. ~(l + 2 <= n) /\ l + 2 \in Nat
            BY <1>2, <2>2
        <3>2. (l + 2) * fh > Height \div 2
            BY <1>2, <2>1, <3>1
        <3> QED BY <1>1, <1>2, <2>1, <2>2, <3>2
    <2>3. CASE l < n - 1
        <3>1. l + 2 <= n
            BY <1>2, <2>3
        <3>2. (l + 2) * fh <= n * fh /\ n * fh \in Nat
            BY <1>1, <1>2, <3>1
        <3> QED BY <1>2, <2>1, <2>3, <3>2
    <2> QED BY <1>2, <2>2, <2>3
<1>8. Edge = T + (q + 2) * fw /\ (q + 2) * fw \in Nat /\ (q + 2) * fw <= Width - 2 * T
    <2>1. (q + 2) * fw = fw * q + 2 * fw /\ fw * q \in Nat
        BY <1>1, <1>4
    <2>2. fw * q <= N
        BY <1>1, <1>3, <1>4, <2>1
    <2>3. LastCol + 1 = q + 2
        BY <1>4, <1>5
    <2> QED BY <1>1, <1>3, <2>1, <2>2, <2>3 DEF Edge, fw, T
<1>9. q + 2 <= chars_per_line /\ chars_per_line \in Nat
    <2>1. chars_per_line = Width \div fw
        BY DEF chars_per_line, fw
    <2>2. ((q + 2) * fw) \div fw = q + 2
        BY <1>1, <1>4
    <2>3. (q + 2) * fw <= Width
        BY <1>1, <1>8
    <2>4. ((q + 2) * fw) \div fw <= Width \div fw
        BY <1>1, <1>8, <2>3, QuotientMonotone
    <2> QED BY <1>1, <2>1, <2>2, <2>4, Quotient
<1>10. (q + 2) * fw <= chars_per_line * fw /\ chars_per_line * fw \in Nat
    BY <1>1, <1>4, <1>9
<1>11. Edge \in Nat /\ Edge <= T + dims.width /\ Edge <= T + chars_per_line * fw
    BY <1>1, <1>2, <1>8, <1>10
<1>12. \A k \in Nat : k * fw > dims.width - T * 6 <=> k >= LastCol
    BY <1>3, <1>5, <1>6
<1> QED BY <1>1, <1>4, <1>5, <1>7, <1>9, <1>11, <1>12 DEF fw, fh, T, n

LineSet == 0 .. num_lines - 1
ColumnSet == 0 .. chars_per_line - 1

\* Where the dots of a character are.
LEMMA DotPlace ==
  ASSUME Fits, NEW l \in LineSet, NEW c \in ColumnSet, NEW d \in Dots
  PROVE  /\ DotPixel[l][c][d] \in Pixels
         /\ DotPixel[l][c][d] = PixelIndex(Thickness + c * Font.width + d[1], LineTop(l) + d[2])
         /\ Row(DotPixel[l][c][d]) = LineTop(l) + d[2]
         /\ Col(DotPixel[l][c][d]) = Thickness + c * Font.width + d[1]
         /\ d[1] \in 0 .. Font.width - 1 /\ d[2] \in 0 .. Font.height - 1
         /\ c * Font.width \in Nat /\ LineTop(l) \in Nat
<1> DEFINE x == Thickness + c * Font.width + d[1]
           y == LineTop(l) + d[2]
<1>1. d[1] \in 0 .. Font.width - 1 /\ d[2] \in 0 .. Font.height - 1
    BY DEF Dots
<1>2. DotPixel[l][c][d] = PixelIndex(x, y)
    BY Geometry DEF DotPixel, LineSet, ColumnSet, LineTop
<1>3. x \in 0 .. Width - 1
    <2>1. c \in Nat /\ c + 1 <= chars_per_line /\ chars_per_line \in Nat /\ Font.width \in Nat \ {0} /\ Thickness \in Nat
        BY Geometry, ScreenFacts DEF ColumnSet
    <2>2. (c + 1) * Font.width <= chars_per_line * Font.width /\ (c + 1) * Font.width = c * Font.width + Font.width
          /\ c * Font.width \in Nat /\ chars_per_line * Font.width \in Nat
        BY <2>1
    <2>3. Thickness + chars_per_line * Font.width <= Width /\ Width \in Nat
        BY Geometry, ScreenFacts
    <2> QED BY <1>1, <2>1, <2>2, <2>3
<1>4. y \in Nat /\ y < Height
    <2>1. l \in 0 .. num_lines
        BY Geometry DEF LineSet
    <2>2. LineTop(l) \in Nat /\ LineTop(l) + Font.height <= Height
        BY <2>1, LineRows
    <2> QED BY <1>1, <2>2, ScreenFacts
<1> HIDE DEF x, y
<1>5. PixelIndex(x, y) \in Pixels /\ Row(PixelIndex(x, y)) = y /\ Col(PixelIndex(x, y)) = x
    BY <1>3, <1>4, PlacePixel
<1>6. c * Font.width \in Nat
    BY ScreenFacts, Geometry DEF ColumnSet
<1>7. LineTop(l) \in Nat
    <2>1. l \in 0 .. num_lines
        BY Geometry DEF LineSet
    <2> QED BY <2>1, LineRows
<1> QED BY <1>1, <1>2, <1>5, <1>6, <1>7 DEF x, y

\* Characters do not overlap.
LEMMA DotInRect ==
  ASSUME Fits, NEW l \in LineSet, NEW c \in ColumnSet, NEW d \in Dots, NEW l2 \in LineSet, NEW c2 \in ColumnSet
  PROVE  /\ InRect(DotPixel[l][c][d], Thickness + c2 * Font.width, LineTop(l2), Font.width, Font.height)
            <=> l = l2 /\ c = c2
<1> DEFINE p == DotPixel[l][c][d]
           fw == Font.width
           fh == Font.height
<1>1. Row(p) = LineTop(l) + d[2] /\ Col(p) = Thickness + c * fw + d[1]
      /\ d[1] \in 0 .. fw - 1 /\ d[2] \in 0 .. fh - 1 /\ fw \in Nat \ {0} /\ fh \in Nat \ {0} /\ Thickness \in Nat
      /\ c * fw \in Nat /\ LineTop(l) = Thickness + l * fh
    BY DotPlace, ScreenFacts DEF LineTop
<1>2. c \in Nat /\ c2 \in Nat /\ l \in Nat /\ l2 \in Nat
    BY Geometry DEF LineSet, ColumnSet
<1> HIDE DEF p, fw, fh
<1>3. ASSUME InRect(p, Thickness + c2 * fw, LineTop(l2), fw, fh) PROVE l = l2 /\ c = c2
    <2>1. Row(p) \in LineTop(l2) .. LineTop(l2) + fh - 1
          /\ Col(p) \in Thickness + c2 * fw .. Thickness + c2 * fw + fw - 1
        BY <1>3 DEF InRect
    <2> DEFINE e == Col(p) - Thickness - c2 * fw
               g == Row(p) - Thickness - l2 * fh
    <2>2. c2 * fw \in Nat /\ l2 * fh \in Nat /\ l * fh \in Nat /\ LineTop(l2) = Thickness + l2 * fh
        BY <1>1, <1>2 DEF LineTop, fh
    <2>3. e \in 0 .. fw - 1 /\ g \in 0 .. fh - 1 /\ e + c2 * fw = d[1] + c * fw /\ g + l2 * fh = d[2] + l * fh
        BY <1>1, <2>1, <2>2
    <2> HIDE DEF e, g
    <2>4. (e + c2 * fw) \div fw = c2 /\ (g + l2 * fh) \div fh = l2
        BY <1>1, <1>2, <2>3, QuotientIs
    <2>5. (d[1] + c * fw) \div fw = c /\ (d[2] + l * fh) \div fh = l
        BY <1>1, <1>2, QuotientIs
    <2> QED BY <2>3, <2>4, <2>5
<1>4. ASSUME l = l2, c = c2 PROVE InRect(p, Thickness + c2 * fw, LineTop(l2), fw, fh)
    <2>1. LineTop(l) \in Nat /\ l * fh \in Nat
        BY <1>1, <1>2
    <2> QED BY <1>1, <1>2, <1>4, <2>1 DEF InRect
<1> QED BY <1>3, <1>4 DEF p, fw, fh

\* The dots of a character that are inked in a buffer, and the text they make.
InkOf(b, l, c) == {d \in Dots : b[DotPixel[l][c][d]] = "ink"}
GridOf(b) == [l \in LineSet |-> [c \in ColumnSet |-> CharOf(InkOf(b, l, c))]]

With(g, l, c, ch) == [g EXCEPT ![l][c] = ch]

\* The buffer b2 is b with the character ch in line l and column c.
Printed(b, b2, l, c, ch) ==
    \A p \in Pixels : b2[p] =
       IF InRect(p, Thickness + c * Font.width, LineTop(l), Font.width, Font.height)
          /\ Glyph(ch, p, Thickness + c * Font.width, LineTop(l))
       THEN "ink" ELSE b[p]

\* Printing into an empty place changes the character there and no other.
LEMMA GridPrinted ==
  ASSUME Fits, NEW b, NEW b2, NEW l \in LineSet, NEW c \in ColumnSet, NEW ch \in Used,
         ch \in DOMAIN Font.matrix, CharOf(Font.matrix[ch]) = ch, InkOf(b, l, c) = {},
         Printed(b, b2, l, c, ch)
  PROVE  GridOf(b2) = With(GridOf(b), l, c, ch)
<1> USE DEF Printed, With
<1>1. ASSUME NEW l2 \in LineSet, NEW c2 \in ColumnSet, ~(l2 = l /\ c2 = c)
      PROVE  InkOf(b2, l2, c2) = InkOf(b, l2, c2)
    <2>1. ASSUME NEW d \in Dots PROVE b2[DotPixel[l2][c2][d]] = b[DotPixel[l2][c2][d]]
        <3>1. DotPixel[l2][c2][d] \in Pixels
            BY DotPlace
        <3>2. ~InRect(DotPixel[l2][c2][d], Thickness + c * Font.width, LineTop(l), Font.width, Font.height)
            BY <1>1, DotInRect
        <3> QED BY <3>1, <3>2
    <2> QED BY <2>1 DEF InkOf
<1>2. InkOf(b2, l, c) = Font.matrix[ch]
    <2>1. ASSUME NEW d \in Dots PROVE b2[DotPixel[l][c][d]] = "ink" <=> d \in Font.matrix[ch]
        <3> DEFINE p == DotPixel[l][c][d]
                   x == Thickness + c * Font.width
        <3>1. p \in Pixels /\ Row(p) = LineTop(l) + d[2] /\ Col(p) = x + d[1]
              /\ d[1] \in Int /\ d[2] \in Int /\ x \in Int /\ LineTop(l) \in Int
            BY DotPlace, ScreenFacts
        <3>2. InRect(p, x, LineTop(l), Font.width, Font.height)
            BY DotInRect
        <3>3. d = <<d[1], d[2]>>
            BY DEF Dots
        <3> HIDE DEF p, x
        <3>4. Col(p) - x = d[1] /\ Row(p) - LineTop(l) = d[2]
            BY <3>1
        <3>5. Glyph(ch, p, x, LineTop(l)) <=> d \in Font.matrix[ch]
            BY <3>3, <3>4 DEF Glyph
        <3>6. b[p] # "ink"
            BY DEF InkOf, p
        <3>7. b2[p] = IF Glyph(ch, p, x, LineTop(l)) THEN "ink" ELSE b[p]
            BY <3>1, <3>2 DEF x
        <3> QED BY <3>5, <3>6, <3>7 DEF p
    <2>2. Font.matrix[ch] \subseteq Dots
        BY ScreenConstants DEF ScreenConstants, Dots
    <2> QED BY <2>1, <2>2 DEF InkOf
<1> QED BY <1>1, <1>2 DEF GridOf

\* The buffer b2 is b with line l and column c painted over.
Painted(b, b2, l, c) ==
    \A p \in Pixels : b2[p] =
       IF InRect(p, Thickness + c * Font.width, LineTop(l), Font.width, Font.height)
       THEN "background" ELSE b[p]

\* Painting over a character leaves a blank there and changes no other.
LEMMA GridErased ==
  ASSUME Fits, NEW b, NEW b2, NEW l \in LineSet, NEW c \in ColumnSet,
         Painted(b, b2, l, c)
  PROVE  GridOf(b2) = With(GridOf(b), l, c, Blank)
<1> USE DEF With, Painted
<1>1. ASSUME NEW l2 \in LineSet, NEW c2 \in ColumnSet, ~(l2 = l /\ c2 = c)
      PROVE  InkOf(b2, l2, c2) = InkOf(b, l2, c2)
    <2>1. ASSUME NEW d \in Dots PROVE b2[DotPixel[l2][c2][d]] = b[DotPixel[l2][c2][d]]
        <3>1. DotPixel[l2][c2][d] \in Pixels
            BY DotPlace
        <3>2. ~InRect(DotPixel[l2][c2][d], Thickness + c * Font.width, LineTop(l), Font.width, Font.height)
            BY <1>1, DotInRect
        <3> QED BY <3>1, <3>2
    <2> QED BY <2>1 DEF InkOf
<1>2. InkOf(b2, l, c) = {}
    <2>1. ASSUME NEW d \in Dots PROVE b2[DotPixel[l][c][d]] = "background"
        <3>1. DotPixel[l][c][d] \in Pixels
            BY DotPlace
        <3>2. InRect(DotPixel[l][c][d], Thickness + c * Font.width, LineTop(l), Font.width, Font.height)
            BY DotInRect
        <3> QED BY <3>1, <3>2
    <2> QED BY <2>1 DEF InkOf
<1>3. CharOf({}) = Blank
    BY DEF CharOf
<1> QED BY <1>1, <1>2, <1>3 DEF GridOf

\* A buffer without ink is an empty text.
LEMMA GridEmpty ==
  ASSUME Fits, NEW b, \A p \in Pixels : b[p] # "ink"
  PROVE  GridOf(b) = [l \in LineSet |-> [c \in ColumnSet |-> Blank]]
<1>1. ASSUME NEW l \in LineSet, NEW c \in ColumnSet PROVE InkOf(b, l, c) = {}
    BY DotPlace DEF InkOf
<1>2. CharOf({}) = Blank
    BY DEF CharOf
<1> QED BY <1>1, <1>2 DEF GridOf

\* Ink is only where text is: not left or right of it, not below the line of
\* the cursor, and in that line not from pixel column right on.
Inked(b, y, right) ==
    \A p \in Pixels : b[p] = "ink" =>
        /\ Thickness <= Row(p) /\ Row(p) < Thickness + y + Font.height
        /\ Thickness <= Col(p) /\ Col(p) < Edge
        /\ Row(p) < Thickness + y \/ Col(p) < right

\* Nothing is printed behind the cursor.
Tidy(s) == Inked(s.ctx.buffer, s.y, Thickness + s.x + Font.width)
Neat == {s \in Sound(Pixels, {}) : Tidy(s)}

\* The text on the back buffer.
Abs(s) == [grid |-> GridOf(s.ctx.buffer), row |-> s.y \div Font.height, col |-> s.x \div Font.width]

\* The cursor in lines and columns.
LEMMA CursorCell ==
  ASSUME Fits, NEW s \in TermState, OnGrid(s)
  PROVE  \E l \in LineSet, c \in ColumnSet :
            /\ s.x = c * Font.width /\ s.y = l * Font.height
            /\ Abs(s).row = l /\ Abs(s).col = c
            /\ Thickness + s.y = LineTop(l)
<1>1. PICK l \in 0 .. num_lines - 1 : s.y = l * Font.height /\ Thickness + s.y = LineTop(l)
    BY CursorLine
<1>2. PICK c \in Nat : s.x = c * Font.width
    BY DEF OnGrid
<1>3. l \in Nat /\ Font.width \in Nat \ {0} /\ Font.height \in Nat \ {0} /\ Thickness \in Nat /\ Width \in Nat
    BY Geometry, ScreenFacts
<1>4. (l * Font.height) \div Font.height = l /\ (c * Font.width) \div Font.width = c
    BY <1>3
<1>5. c \in ColumnSet
    <2>1. (c + 1) * Font.width = c * Font.width + Font.width /\ c * Font.width \in Nat
        BY <1>3
    <2>2. (c + 1) * Font.width <= Width /\ (c + 1) * Font.width \in Nat
        BY <1>2, <1>3, <2>1 DEF OnGrid
    <2>3. ((c + 1) * Font.width) \div Font.width <= Width \div Font.width
        BY <1>3, <2>2, QuotientMonotone
    <2>4. ((c + 1) * Font.width) \div Font.width = c + 1
        BY <1>3
    <2>5. c + 1 <= chars_per_line /\ chars_per_line \in Nat
        BY <2>3, <2>4, Geometry DEF chars_per_line
    <2> QED BY <2>5 DEF ColumnSet
<1> QED BY <1>1, <1>2, <1>4, <1>5 DEF LineSet, Abs

\* The pixels of the lines above line i that Scroll moves.
Above(p, i) ==
    /\ Row(p) \in Thickness .. LineTop(i) - 1
    /\ Col(p) \in Thickness .. Thickness + dims.width - 1

\* A pixel and the one a line below it.
LEMMA PixelBelow ==
  ASSUME Fits, NEW p \in Pixels, NEW h \in Nat, Row(p) + h < Height
  PROVE  p + h * Width \in Pixels /\ Row(p + h * Width) = Row(p) + h /\ Col(p + h * Width) = Col(p)
<1> DEFINE x == Col(p)
           y == Row(p)
<1>1. x \in 0 .. Width - 1 /\ y \in Nat /\ p = x + y * Width /\ Width \in Nat
    BY PixelPlace, ScreenFacts DEF PixelIndex
<1> HIDE DEF x, y
<1>2. p + h * Width = x + (y + h) * Width /\ y + h \in Nat
    BY <1>1
<1>3. p + h * Width = PixelIndex(x, y + h)
    BY <1>2 DEF PixelIndex
<1> DEFINE z == y + h
<1>4. z \in Nat /\ z < Height
    BY <1>2 DEF y
<1> HIDE DEF z
<1>5. PixelIndex(x, z) \in Pixels /\ Row(PixelIndex(x, z)) = z /\ Col(PixelIndex(x, z)) = x
    BY <1>1, <1>4, PlacePixel
<1> QED BY <1>3, <1>5 DEF x, y, z

\* What Scroll does to the back buffer as a whole.
LEMMA ScrollEffect ==
  ASSUME Fits, NEW s \in TermState
  PROVE  /\ Scroll(s) = [s EXCEPT !.ctx = Scroll(s).ctx]
         /\ \A p \in Pixels : Scroll(s).ctx.buffer[p] =
               IF InRect(p, Thickness, LineTop(num_lines - 1), dims.width, Font.height)
               THEN "background"
               ELSE IF Above(p, num_lines - 1) THEN s.ctx.buffer[p + Font.height * Width]
               ELSE s.ctx.buffer[p]
<1> DEFINE n == num_lines
           fh == Font.height
           old == s.ctx.buffer
           moved(c, i) == Transpose(c, Thickness, LineTop(i), dims.width, fh, -fh, 0)
<1>1. PICK f \in [0 .. n -> Context] : ScrollRun(f, s)
    BY ScrollLoop
<1>2. n \in Nat /\ n # 0 /\ fh \in Nat \ {0} /\ Thickness \in Nat /\ dims.width \in Nat
      /\ Thickness + dims.width <= Width
    BY Geometry, ScreenFacts
<1>2a. fh \in Nat /\ dims.width \in Int
    BY <1>2
<1>3. ASSUME NEW i \in 1 .. n, NEW c \in Context
      PROVE  \A p \in Pixels : WriteBack(moved(c, i)).buffer[p] =
                IF InRect(p, Thickness, LineTop(i - 1), dims.width, fh)
                THEN c.buffer[p + fh * Width] ELSE c.buffer[p]
    <2>1. i \in 0 .. num_lines /\ i > 0
        BY <1>2
    <2>2. LineTop(i) \in Nat /\ LineTop(i) + fh <= Height /\ fh <= LineTop(i) /\ LineTop(i - 1) = LineTop(i) - fh
        BY <2>1, LineRows
    <2>3. /\ moved(c, i) \in Context
          /\ moved(c, i).screen = c.screen
          /\ \A p \in Pixels : moved(c, i).buffer[p] =
                IF InRect(p, Thickness, LineTop(i) - fh, dims.width, fh) THEN c.buffer[p + fh * Width] ELSE c.buffer[p]
          /\ Marked(c.dirty, moved(c, i).dirty, LineTop(i) - fh, LineTop(i) + fh)
        BY <1>2, <1>2a, <2>2, TransposeEffect
    <2> HIDE DEF moved
    <2>4. WriteBack(moved(c, i)).buffer = moved(c, i).buffer
        BY <2>3, WriteBackEffect
    <2> QED BY <2>2, <2>3, <2>4
<1> DEFINE S == {i \in 0 .. n : \A p \in Pixels :
                     f[i].buffer[p] = IF Above(p, i) THEN old[p + fh * Width] ELSE old[p]}
<1>4. n \in S
    <2>1. 0 \in S
        <3>1. \A p \in Pixels : ~Above(p, 0)
            BY <1>2, PixelPlace DEF Above, LineTop
        <3> QED BY <1>1, <1>2, <3>1 DEF ScrollRun
    <2>2. ASSUME NEW i \in 0 .. n - 1, i \in S PROVE i + 1 \in S
        <3>1. i + 1 \in 1 .. n /\ (i + 1) - 1 = i /\ i + 1 \in 0 .. n /\ i \in 0 .. n /\ f[i] \in Context
            BY <1>2
        <3>2. f[i + 1] = WriteBack(moved(f[i], i + 1))
            BY <1>1, <3>1 DEF ScrollRun
        <3>3. \A p \in Pixels : f[i + 1].buffer[p] =
                IF InRect(p, Thickness, LineTop(i), dims.width, fh) THEN f[i].buffer[p + fh * Width] ELSE f[i].buffer[p]
            <4> HIDE DEF moved
            <4> QED BY <1>3, <3>1, <3>2
        <3>4. LineTop(i) \in Nat /\ LineTop(i + 1) = LineTop(i) + fh /\ LineTop(i) >= Thickness
              /\ LineTop(i + 1) + fh <= Height /\ LineTop(i + 1) \in Nat
            <4>1. i \in 0 .. num_lines /\ i + 1 \in 0 .. num_lines /\ i \in Nat
                BY <1>2
            <4>2. LineTop(i) \in Nat /\ LineTop(i + 1) = LineTop(i) + fh
                BY <4>1, LineRows
            <4>3. LineTop(i + 1) \in Nat /\ LineTop(i + 1) + fh <= Height
                BY <4>1, LineRows
            <4>4. i * fh \in Nat
                BY <1>2, <4>1
            <4>5. LineTop(i) >= Thickness
                BY <1>2, <4>4 DEF LineTop
            <4> QED BY <4>2, <4>3, <4>5
        <3> DEFINE a == LineTop(i)
                   z == LineTop(i + 1)
        <3>6. a \in Nat /\ z = a + fh /\ a >= Thickness /\ z + fh <= Height
            BY <1>2, <3>4
        <3>7. \A p \in Pixels :
                 /\ Above(p, i) <=> Row(p) \in Thickness .. a - 1 /\ Col(p) \in Thickness .. Thickness + dims.width - 1
                 /\ Above(p, i + 1) <=> Row(p) \in Thickness .. z - 1 /\ Col(p) \in Thickness .. Thickness + dims.width - 1
                 /\ InRect(p, Thickness, LineTop(i), dims.width, fh) <=>
                       Row(p) \in a .. a + fh - 1 /\ Col(p) \in Thickness .. Thickness + dims.width - 1
            <4> TAKE p \in Pixels
            <4>1. Above(p, i) <=> Row(p) \in Thickness .. a - 1 /\ Col(p) \in Thickness .. Thickness + dims.width - 1
                BY Zenon DEF Above
            <4>2. Above(p, i + 1) <=> Row(p) \in Thickness .. z - 1 /\ Col(p) \in Thickness .. Thickness + dims.width - 1
                BY Zenon DEF Above
            <4>3. InRect(p, Thickness, LineTop(i), dims.width, fh) <=>
                       Row(p) \in a .. a + fh - 1 /\ Col(p) \in Thickness .. Thickness + dims.width - 1
                BY Zenon DEF InRect
            <4> QED BY <4>1, <4>2, <4>3
        <3> HIDE DEF a, z
        <3>5. ASSUME NEW p \in Pixels
              PROVE  f[i + 1].buffer[p] = IF Above(p, i + 1) THEN old[p + fh * Width] ELSE old[p]
            <4>1. Row(p) \in Nat /\ Col(p) \in Nat
                BY PixelPlace
            <4>2. CASE InRect(p, Thickness, LineTop(i), dims.width, fh)
                <5>0. Row(p) \in a .. a + fh - 1 /\ Col(p) \in Thickness .. Thickness + dims.width - 1
                    BY <3>7, <4>2
                <5>6. Row(p) >= a /\ Row(p) < z /\ Row(p) \in Thickness .. z - 1
                    BY <1>2, <3>6, <4>1, <5>0
                <5>1. Above(p, i + 1)
                    BY <3>7, <5>0, <5>6
                <5>2. Row(p) + fh < Height
                    BY <1>2, <3>6, <4>1, <5>6, ScreenFacts
                <5>3. p + fh * Width \in Pixels /\ Row(p + fh * Width) = Row(p) + fh
                    BY <1>2, <5>2, PixelBelow
                <5>4. ~Above(p + fh * Width, i)
                    <6>1. ~(Row(p) + fh \in Thickness .. a - 1)
                        BY <1>2, <3>6, <4>1, <5>6
                    <6> QED BY <3>7, <5>3, <6>1
                <5>5. f[i].buffer[p + fh * Width] = old[p + fh * Width]
                    BY <2>2, <5>3, <5>4
                <5> QED BY <3>3, <4>2, <5>1, <5>5
            <4>3. CASE ~InRect(p, Thickness, LineTop(i), dims.width, fh)
                <5>1. Above(p, i + 1) <=> Above(p, i)
                    <6>1. Row(p) \in Thickness .. z - 1 /\ ~(Row(p) \in a .. a + fh - 1) <=> Row(p) \in Thickness .. a - 1
                        BY <1>2, <3>6, <4>1
                    <6>2. Row(p) \in a .. a + fh - 1 => Row(p) \notin Thickness .. a - 1
                        BY <1>2, <3>6, <4>1
                    <6> QED BY <3>7, <4>3, <6>1, <6>2
                <5>2. f[i + 1].buffer[p] = f[i].buffer[p]
                    BY <3>3, <4>3
                <5> QED BY <2>2, <5>1, <5>2
            <4> QED BY <4>2, <4>3
        <3> QED BY <3>1, <3>5
    <2>3. 0 .. n \subseteq S
        <3> HIDE DEF S, n
        <3> QED BY <1>2, <2>1, <2>2, UpTo
    <2> QED BY <1>2, <2>3
<1> DEFINE last == f[n]
           l == n - 1
           new == DrawRect(last, Thickness, LineTop(l), dims.width, fh, "background")
<1>5. last \in Context
    BY <1>2
<1>6. \A p \in Pixels : last.buffer[p] = IF Above(p, n) THEN old[p + fh * Width] ELSE old[p]
    BY <1>4
<1>7. Scroll(s) = [s EXCEPT !.ctx = WriteBack(new)]
    BY <1>1 DEF ScrollRun
<1> HIDE DEF last
<1>8. l \in 0 .. num_lines /\ n = l + 1
    BY <1>2
<1>9. LineTop(l) \in Nat /\ LineTop(n) = LineTop(l) + fh /\ LineTop(l) >= Thickness
    <2>1. l * fh \in Nat
        BY <1>2
    <2> QED BY <1>2, <1>8, <2>1, LineRows DEF LineTop
<1>10. /\ new \in Context
       /\ new.screen = last.screen
       /\ \A p \in Pixels : new.buffer[p] =
                IF InRect(p, Thickness, LineTop(l), dims.width, fh) THEN "background" ELSE last.buffer[p]
       /\ Marked(last.dirty, new.dirty, LineTop(l), LineTop(l) + fh)
    <2>1. "background" \in Colours
        BY DEF Colours
    <2> QED BY <1>2, <1>2a, <1>5, <1>9, <2>1, DrawRectEffect
<1> HIDE DEF new
<1>11. WriteBack(new).buffer = new.buffer
    BY <1>10, WriteBackEffect
<1>12. Scroll(s).ctx = WriteBack(new)
    BY <1>7 DEF TermState
<1>13. \A p \in Pixels : ~InRect(p, Thickness, LineTop(l), dims.width, fh) => (Above(p, n) <=> Above(p, l))
    <2> TAKE p \in Pixels
    <2> HIDE DEF l, n
    <2>1. Row(p) \in Nat /\ Col(p) \in Nat
        BY PixelPlace
    <2> QED BY <1>2, <1>9, <2>1 DEF InRect, Above
<1> QED BY <1>6, <1>7, <1>10, <1>11, <1>12, <1>13

\* Scrolling moves the text up by a line: ink is never right of the part of a
\* line that is moved.
LEMMA ScrolledGrid ==
  ASSUME Readable, NEW b, NEW b2, NEW right, Inked(b, (num_lines - 1) * Font.height, right),
         \A p \in Pixels : b2[p] =
            IF InRect(p, Thickness, LineTop(num_lines - 1), dims.width, Font.height)
            THEN "background"
            ELSE IF Above(p, num_lines - 1) THEN b[p + Font.height * Width]
            ELSE b[p]
  PROVE  /\ GridOf(b2) = [l \in LineSet |-> IF l < num_lines - 1 THEN GridOf(b)[l + 1]
                                            ELSE [c \in ColumnSet |-> Blank]]
         /\ Inked(b2, (num_lines - 1) * Font.height, Thickness)
<1> DEFINE n == num_lines
           fh == Font.height
           T == Thickness
           y == (n - 1) * fh
           top == LineTop(n - 1)
           w == dims.width
<1>1. Fits /\ Edge \in Nat /\ Edge <= T + w /\ n \in Nat \ {0} /\ fh \in Nat \ {0} /\ T \in Nat /\ w \in Nat
      /\ Height \in Nat
    BY TextGeometry, Geometry, ScreenFacts
<1>2. y \in Nat /\ top = T + y /\ top + fh <= Height
    <2>1. n - 1 \in 0 .. num_lines /\ n - 1 \in Nat
        BY <1>1
    <2>2. (n - 1) * fh \in Nat
        BY <1>1, <2>1
    <2> QED BY <1>1, <2>1, <2>2, LineRows DEF LineTop
<1>3. ASSUME NEW p \in Pixels, b[p] = "ink"
      PROVE  T <= Row(p) /\ Row(p) < top + fh /\ T <= Col(p) /\ Col(p) < Edge
    BY <1>1, <1>2, <1>3 DEF Inked
<1>4. ASSUME NEW p \in Pixels, b2[p] = "ink"
      PROVE  Row(p) \in T .. top - 1 /\ Col(p) \in T .. Edge - 1
    <2>1. Row(p) \in Nat /\ Col(p) \in Nat
        BY PixelPlace
    <2>2. ~InRect(p, T, top, w, fh)
        BY <1>4
    <2>3. CASE Above(p, n - 1)
        <3>1. Row(p) \in T .. top - 1 /\ Col(p) \in T .. T + w - 1
            BY <2>3 DEF Above
        <3>2. Row(p) + fh < Height
            BY <1>1, <1>2, <2>1, <3>1
        <3>3. p + fh * Width \in Pixels /\ Col(p + fh * Width) = Col(p)
            BY <1>1, <3>2, PixelBelow
        <3>4. b[p + fh * Width] = "ink"
            BY <1>4, <2>2, <2>3
        <3>5. Col(p) < Edge
            BY <1>3, <3>3, <3>4
        <3> QED BY <1>1, <2>1, <3>1, <3>5
    <2>4. CASE ~Above(p, n - 1)
        <3>1. b[p] = "ink"
            BY <1>4, <2>2, <2>4
        <3>2. T <= Row(p) /\ Row(p) < top + fh /\ T <= Col(p) /\ Col(p) < Edge
            BY <1>3, <3>1
        <3>3. Col(p) \in T .. T + w - 1
            BY <1>1, <2>1, <3>2
        <3>4. Row(p) \in top .. top + fh - 1 \/ Row(p) \in T .. top - 1
            BY <1>1, <1>2, <2>1, <3>2
        <3> QED BY <2>2, <2>4, <3>3, <3>4 DEF InRect, Above
    <2> QED BY <2>3, <2>4
<1>5. Inked(b2, y, T)
    <2> SUFFICES ASSUME NEW p \in Pixels, b2[p] = "ink"
                 PROVE  T <= Row(p) /\ Row(p) < T + y + fh /\ T <= Col(p) /\ Col(p) < Edge
                        /\ (Row(p) < T + y \/ Col(p) < T)
        BY DEF Inked
    <2>1. Row(p) \in T .. top - 1 /\ Col(p) \in T .. Edge - 1
        BY <1>4
    <2> QED BY <1>1, <1>2, <2>1
<1>6. ASSUME NEW l \in LineSet, NEW c \in ColumnSet, l < n - 1
      PROVE  InkOf(b2, l, c) = InkOf(b, l + 1, c)
    <2>1. l + 1 \in LineSet /\ l \in Nat
        BY <1>1, <1>6 DEF LineSet
    <2>2. ASSUME NEW d \in Dots
          PROVE  b2[DotPixel[l][c][d]] = "ink" <=> b[DotPixel[l + 1][c][d]] = "ink"
        <3> DEFINE p == DotPixel[l][c][d]
                   q == DotPixel[l + 1][c][d]
        <3>1. p \in Pixels /\ Row(p) = LineTop(l) + d[2] /\ Col(p) = T + c * Font.width + d[1]
              /\ d[2] \in 0 .. fh - 1 /\ LineTop(l) \in Nat
              /\ p = PixelIndex(T + c * Font.width + d[1], LineTop(l) + d[2])
            BY <1>1, DotPlace
        <3>2. q \in Pixels /\ Row(q) = LineTop(l + 1) + d[2] /\ Col(q) = T + c * Font.width + d[1]
              /\ q = PixelIndex(T + c * Font.width + d[1], LineTop(l + 1) + d[2])
            BY <1>1, <2>1, DotPlace
        <3>3. LineTop(l + 1) = LineTop(l) + fh
            <4>1. l \in 0 .. num_lines
                BY <1>1 DEF LineSet
            <4> QED BY <1>1, <4>1, LineRows
        <3> HIDE DEF p, q
        <3>4. Row(p) >= T /\ Row(p) < top /\ Col(p) = Col(q) /\ Row(q) = Row(p) + fh
            <4>1. l + 1 <= n - 1 /\ l \in Nat
                BY <1>1, <1>6, <2>1
            <4>2. (l + 1) * fh <= (n - 1) * fh /\ (l + 1) * fh \in Nat /\ l * fh \in Nat
                BY <1>1, <4>1
            <4>3. LineTop(l) >= T /\ LineTop(l + 1) <= top
                BY <1>1, <1>2, <4>2 DEF LineTop
            <4> QED BY <1>1, <1>2, <3>1, <3>2, <3>3, <4>3
        <3>5. q = p + fh * Width
            <4>1. p = Col(p) + Row(p) * Width /\ q = Col(p) + (Row(p) + fh) * Width
                BY <3>1, <3>2, <3>4, PixelPlace DEF PixelIndex
            <4>2. Row(p) \in Nat /\ Col(p) \in Nat /\ Width \in Nat
                BY <3>1, PixelPlace, ScreenFacts
            <4> QED BY <1>1, <4>1, <4>2
        <3>6. ~InRect(p, T, top, w, fh)
            BY <1>1, <1>2, <3>1, <3>4, PixelPlace DEF InRect
        <3>7. CASE Col(p) \in T .. T + w - 1
            <4>1. Row(p) \in T .. top - 1
                BY <1>1, <1>2, <3>1, <3>4, PixelPlace
            <4>2. Above(p, n - 1)
                BY <3>7, <4>1 DEF Above
            <4>3. b2[p] = b[p + fh * Width]
                BY <3>1, <3>6, <4>2
            <4> QED BY <3>5, <4>3 DEF p, q
        <3>8. CASE ~(Col(p) \in T .. T + w - 1)
            <4>1. ~(Col(p) \in T .. Edge - 1)
                BY <1>1, <3>1, <3>8, PixelPlace
            <4>2. b2[p] # "ink"
                BY <1>4, <3>1, <4>1
            <4>3. ~(T <= Col(q) /\ Col(q) < Edge)
                BY <1>1, <3>1, <3>4, <4>1, PixelPlace
            <4>4. b[q] # "ink"
                BY <1>3, <3>2, <4>3
            <4> QED BY <4>2, <4>4 DEF p, q
        <3> QED BY <3>7, <3>8
    <2> QED BY <2>2 DEF InkOf
<1>7. ASSUME NEW c \in ColumnSet PROVE InkOf(b2, n - 1, c) = {}
    <2>1. n - 1 \in LineSet
        BY <1>1 DEF LineSet
    <2>2. ASSUME NEW d \in Dots PROVE b2[DotPixel[n - 1][c][d]] # "ink"
        <3> DEFINE l == n - 1
                   p == DotPixel[l][c][d]
        <3>1. l \in LineSet
            BY <2>1
        <3> HIDE DEF l
        <3>2. p \in Pixels /\ Row(p) = LineTop(l) + d[2] /\ d[2] \in 0 .. fh - 1
            BY <1>1, <3>1, DotPlace
        <3>3. ~(Row(p) \in T .. top - 1)
            BY <1>1, <1>2, <3>2 DEF l
        <3> QED BY <1>4, <3>2, <3>3 DEF l
    <2> QED BY <2>2 DEF InkOf
<1>8. CharOf({}) = Blank
    BY DEF CharOf
<1>9. ASSUME NEW l \in LineSet, NEW c \in ColumnSet
      PROVE  CharOf(InkOf(b2, l, c)) = (IF l < n - 1 THEN GridOf(b)[l + 1] ELSE [k \in ColumnSet |-> Blank])[c]
    <2>1. CASE l < n - 1
        <3>1. l + 1 \in LineSet
            BY <1>1, <2>1 DEF LineSet
        <3> QED BY <1>6, <2>1, <3>1 DEF GridOf
    <2>2. CASE ~(l < n - 1)
        <3>1. l = n - 1
            BY <1>1, <2>2 DEF LineSet
        <3> QED BY <1>7, <1>8, <2>2, <3>1
    <2> QED BY <2>1, <2>2
<1>10. ASSUME NEW l \in LineSet
       PROVE  [c \in ColumnSet |-> CharOf(InkOf(b2, l, c))]
                 = IF l < n - 1 THEN GridOf(b)[l + 1] ELSE [k \in ColumnSet |-> Blank]
    <2>1. CASE l < n - 1
        <3>1. l + 1 \in LineSet
            BY <1>1, <2>1 DEF LineSet
        <3>2. GridOf(b)[l + 1] = [c \in ColumnSet |-> CharOf(InkOf(b, l + 1, c))]
            BY <3>1 DEF GridOf
        <3> QED BY <1>6, <2>1, <3>2
    <2>2. CASE ~(l < n - 1)
        BY <1>9, <2>2
    <2> QED BY <2>1, <2>2
<1> QED BY <1>5, <1>10 DEF GridOf

\* A terminal whose text is t and in which nothing is printed from the cursor on.
Ready(s, t) ==
    /\ s \in Sound(Pixels, {})
    /\ Abs(s) = t
    /\ Inked(s.ctx.buffer, s.y, Thickness + s.x)
    /\ Abs(s).col <= LastCol

\* The next line of a text, by its parts.
LEMMA NextLineParts ==
  ASSUME NEW G, NEW l, NEW c
  PROVE  Text!NextLine([grid |-> G, row |-> l, col |-> c]) =
            IF l < num_lines - 1
            THEN [grid |-> G, row |-> l + 1, col |-> 0]
            ELSE [grid |-> [k \in 0 .. num_lines - 1 |->
                              IF k < num_lines - 1 THEN G[k + 1] ELSE Text!Empty[k]],
                  row |-> l, col |-> 0]
<1> DEFINE a == [grid |-> G, row |-> l, col |-> c]
<1>1. CASE l < num_lines - 1
    <2>1. Text!NextLine(a) = [a EXCEPT !.row = a.row + 1, !.col = 0]
        BY <1>1 DEF Text!NextLine
    <2> QED BY <1>1, <2>1
<1>2. CASE ~(l < num_lines - 1)
    <2> DEFINE H == [k \in 0 .. num_lines - 1 |-> IF k < num_lines - 1 THEN G[k + 1] ELSE Text!Empty[k]]
    <2>1. Text!NextLine(a) = [a EXCEPT !.grid = H, !.col = 0]
        BY <1>2 DEF Text!NextLine
    <2> HIDE DEF H
    <2>2. [a EXCEPT !.grid = H, !.col = 0] = [grid |-> H, row |-> l, col |-> 0]
        <3>1. [a EXCEPT !.grid = H] = [grid |-> H, row |-> l, col |-> c]
            OBVIOUS
        <3>2. [[grid |-> H, row |-> l, col |-> c] EXCEPT !.col = 0] = [grid |-> H, row |-> l, col |-> 0]
            OBVIOUS
        <3> QED BY <3>1, <3>2
    <2> QED BY <1>2, <2>1, <2>2 DEF H
<1> QED BY <1>1, <1>2

LEMMA NewLineText ==
  ASSUME Readable, NEW s \in Neat
  PROVE  Ready(TermNewLine(s), Text!NextLine(Abs(s))) /\ TermNewLine(s).x = 0
<1> DEFINE t == [s EXCEPT !.x = 0]
           fh == Font.height
           b == s.ctx.buffer
           g == GridOf(b)
           n == num_lines
           right == Thickness + s.x + Font.width
<1>1. Fits /\ LastCol \in Nat
    BY TextGeometry
<1>2. s \in Sound(Pixels, {}) /\ s \in TermState /\ OnGrid(s) /\ Inked(b, s.y, right) /\ s.y \in Nat /\ s.x \in Nat
    BY DEF Neat, Sound, TermState, Tidy
<1>3. PICK l \in LineSet, c \in ColumnSet :
         s.x = c * Font.width /\ s.y = l * fh /\ Abs(s).row = l /\ Abs(s).col = c
    BY <1>1, <1>2, CursorCell
<1>4. Abs(s) = [grid |-> g, row |-> l, col |-> c]
    BY <1>3 DEF Abs
<1>5. t \in TermState /\ t.ctx = s.ctx /\ t.x = 0 /\ t.y = s.y
    BY <1>2 DEF TermState
<1>6. l \in Nat /\ l <= n - 1 /\ n \in Nat \ {0} /\ fh \in Nat \ {0} /\ Thickness \in Nat /\ Font.width \in Nat \ {0}
    BY <1>1, Geometry, ScreenFacts DEF LineSet
<1>7. s.y + fh * 2 > dims.height <=> l >= n - 1
    BY <1>3, <1>6, TextGeometry
<1>8. TermNewLine(s) \in Sound(Pixels, {})
    <2>1. Allowed(Pixels, {})
        BY <1>1, AllowedAnywhere DEF Readable
    <2> QED BY <1>1, <1>2, <2>1, NewLineSound
<1>9. 0 \div Font.width = 0 /\ (l * fh) \div fh = l /\ ((l + 1) * fh) \div fh = l + 1
    BY <1>6
<1>10. CASE l < n - 1
    <2> DEFINE u == [t EXCEPT !.y = t.y + fh]
    <2>1. ~(s.y + fh * 2 > dims.height)
        BY <1>6, <1>7, <1>10
    <2>2. TermNewLine(s) = u
        BY <2>1 DEF TermNewLine
    <2> HIDE DEF t
    <2>3. u.ctx = s.ctx /\ u.x = 0 /\ u.y = s.y + fh
        BY <1>5 DEF TermState
    <2>4. s.y + fh = (l + 1) * fh
        BY <1>3, <1>6
    <2> HIDE DEF u
    <2>5. Abs(u) = [grid |-> g, row |-> l + 1, col |-> 0]
        BY <1>9, <2>3, <2>4 DEF Abs
    <2>6. Text!NextLine(Abs(s)) = [grid |-> g, row |-> l + 1, col |-> 0]
        <3> HIDE DEF g
        <3> QED BY <1>4, <1>10, NextLineParts
    <2>7. Inked(b, u.y, Thickness + u.x)
        <3> SUFFICES ASSUME NEW p \in Pixels, b[p] = "ink"
                     PROVE  Thickness <= Row(p) /\ Row(p) < Thickness + u.y + fh /\ Thickness <= Col(p) /\ Col(p) < Edge
                            /\ (Row(p) < Thickness + u.y \/ Col(p) < Thickness + u.x)
            BY DEF Inked
        <3>1. Thickness <= Row(p) /\ Row(p) < Thickness + s.y + fh /\ Thickness <= Col(p) /\ Col(p) < Edge
            BY <1>2 DEF Inked
        <3>2. Row(p) \in Nat
            BY PixelPlace
        <3> QED BY <1>2, <1>6, <2>3, <3>1, <3>2
    <2>8. Abs(u).col = 0 /\ 0 <= LastCol
        BY <1>1, <2>5
    <2> QED BY <1>8, <2>2, <2>3, <2>5, <2>6, <2>7, <2>8 DEF Ready
<1>11. CASE ~(l < n - 1)
    <2> DEFINE u == Scroll(t)
               b2 == u.ctx.buffer
    <2>1. l = n - 1 /\ s.y + fh * 2 > dims.height
        BY <1>6, <1>7, <1>11
    <2>2. TermNewLine(s) = u
        BY <2>1 DEF TermNewLine
    <2> HIDE DEF t
    <2>3. /\ u = [t EXCEPT !.ctx = u.ctx]
          /\ \A p \in Pixels : b2[p] =
               IF InRect(p, Thickness, LineTop(num_lines - 1), dims.width, Font.height)
               THEN "background"
               ELSE IF Above(p, num_lines - 1) THEN b[p + Font.height * Width]
               ELSE b[p]
        BY <1>1, <1>5, ScrollEffect
    <2> HIDE DEF u
    <2>4. u.x = 0 /\ u.y = s.y /\ s.y = (num_lines - 1) * Font.height
        BY <1>3, <1>5, <2>1, <2>3 DEF TermState
    <2>5. Inked(b, (num_lines - 1) * Font.height, right)
        BY <1>2, <2>4
    <2> HIDE DEF b2, right, b
    <2>6. /\ GridOf(b2) = [k \in LineSet |-> IF k < num_lines - 1 THEN GridOf(b)[k + 1]
                                            ELSE [j \in ColumnSet |-> Blank]]
          /\ Inked(b2, (num_lines - 1) * Font.height, Thickness)
        BY <2>3, <2>5, ScrolledGrid
    <2>7. Abs(u) = [grid |-> GridOf(b2), row |-> l, col |-> 0]
        BY <1>3, <1>9, <2>4 DEF Abs, b2
    <2>8. Text!NextLine(Abs(s)) = [grid |-> GridOf(b2), row |-> l, col |-> 0]
        <3>1. Text!NextLine([grid |-> g, row |-> l, col |-> c]) =
                [grid |-> [k \in 0 .. num_lines - 1 |-> IF k < num_lines - 1 THEN g[k + 1] ELSE Text!Empty[k]],
                 row |-> l, col |-> 0]
            <4> HIDE DEF g
            <4> QED BY <1>11, NextLineParts
        <3>2. [k \in 0 .. num_lines - 1 |-> IF k < num_lines - 1 THEN g[k + 1] ELSE Text!Empty[k]] = GridOf(b2)
            BY <2>6 DEF Text!Empty, LineSet, ColumnSet
        <3> HIDE DEF g
        <3> QED BY <1>4, <3>1, <3>2
    <2>9. Inked(b2, u.y, Thickness + u.x)
        <3>1. Thickness + 0 = Thickness
            BY <1>6
        <3> QED BY <2>4, <2>6, <3>1
    <2>10. Abs(u).col = 0 /\ 0 <= LastCol
        BY <1>1, <2>7
    <2> QED BY <1>8, <2>2, <2>4, <2>7, <2>8, <2>9, <2>10 DEF Ready, b2
<1> QED BY <1>10, <1>11

LEMMA AdvanceText ==
  ASSUME Readable, NEW s \in Neat, NEW ch, ch # "\n"
  PROVE  Ready(Advance(s, ch), IF Abs(s).col >= LastCol THEN Text!NextLine(Abs(s))
                                ELSE [Abs(s) EXCEPT !.col = Abs(s).col + 1])
<1> DEFINE fw == Font.width
           b == s.ctx.buffer
<1>1. Fits /\ LastCol \in Nat
    BY TextGeometry
<1>2. s \in Sound(Pixels, {}) /\ s \in TermState /\ OnGrid(s) /\ Inked(b, s.y, Thickness + s.x + fw) /\ s.y \in Nat /\ s.x \in Nat
    BY DEF Neat, Sound, TermState, Tidy
<1>3. PICK l \in LineSet, c \in ColumnSet :
         s.x = c * fw /\ s.y = l * Font.height /\ Abs(s).row = l /\ Abs(s).col = c
    BY <1>1, <1>2, CursorCell
<1>4. c \in Nat /\ fw \in Nat \ {0} /\ Thickness \in Nat
    BY <1>1, Geometry, ScreenFacts DEF ColumnSet
<1>5. s.x > dims.width - Thickness * 6 <=> c >= LastCol
    BY <1>3, <1>4, TextGeometry
<1>6. CASE c >= LastCol
    <2>1. Advance(s, ch) = TermNewLine(s)
        BY <1>5, <1>6 DEF Advance
    <2> QED BY <1>3, <1>6, <2>1, NewLineText
<1>7. CASE ~(c >= LastCol)
    <2> DEFINE u == [s EXCEPT !.x = s.x + fw]
    <2>1. Advance(s, ch) = u
        BY <1>5, <1>7 DEF Advance
    <2>2. u.ctx = s.ctx /\ u.x = s.x + fw /\ u.y = s.y
        BY <1>2 DEF TermState
    <2>3. Advance(s, ch) \in Sound(Pixels, {})
        <3>1. Allowed(Pixels, {})
            BY <1>1, AllowedAnywhere DEF Readable
        <3> QED BY <1>1, <1>2, <3>1, AdvanceSound
    <2> HIDE DEF u
    <2>4. s.x + fw = (c + 1) * fw
        <3>1. (c + 1) * fw = c * fw + fw
            BY <1>4
        <3> QED BY <1>3, <3>1
    <2>5. ((c + 1) * fw) \div fw = c + 1
        BY <1>4
    <2>6. Abs(u) = [Abs(s) EXCEPT !.col = Abs(s).col + 1]
        BY <1>3, <2>2, <2>4, <2>5 DEF Abs
    <2>7. Thickness + u.x = Thickness + s.x + fw
        BY <1>2, <1>4, <2>2
    <2>8. Inked(u.ctx.buffer, u.y, Thickness + u.x)
        BY <1>2, <2>2, <2>7
    <2>9. Abs(u).col = c + 1 /\ c + 1 <= LastCol
        BY <1>1, <1>4, <1>7, <2>2, <2>4, <2>5 DEF Abs
    <2> QED BY <1>3, <1>7, <2>1, <2>3, <2>6, <2>8, <2>9 DEF Ready
<1> QED BY <1>6, <1>7

\* PrintChar puts a character into the text.
LEMMA PrintCharText ==
  ASSUME Readable, NEW s \in Neat, NEW ch \in Used, ch \in DOMAIN Font.matrix
  PROVE  PrintChar(s, ch) \in Neat /\ Abs(PrintChar(s, ch)) = Text!Put(Abs(s), ch)
<1> DEFINE t == Advance(s, ch)
           a == IF Abs(s).col >= LastCol THEN Text!NextLine(Abs(s)) ELSE [Abs(s) EXCEPT !.col = Abs(s).col + 1]
           new == DrawChar(t.ctx, Thickness + t.x, Thickness + t.y, ch)
           u == [t EXCEPT !.ctx = new]
           b == t.ctx.buffer
           fw == Font.width
           fh == Font.height
<1>1. Fits /\ ch # "\n" /\ CharOf(Font.matrix[ch]) = ch
    BY DEF Readable
<1>2. Ready(t, a)
    BY <1>1, AdvanceText
<1>3. PrintChar(s, ch) \in Sound(Pixels, {})
    <2>1. Allowed(Pixels, {})
        BY <1>1, AllowedAnywhere DEF Readable
    <2>2. s \in Sound(Pixels, {})
        BY DEF Neat
    <2> QED BY <1>1, <2>1, <2>2, PrintCharSound
<1> HIDE DEF t
<1>4. t \in TermState /\ OnGrid(t) /\ t.ctx \in Context /\ Inked(b, t.y, Thickness + t.x) /\ Abs(t) = a
      /\ t.x \in Nat /\ t.y \in Nat /\ Abs(t).col <= LastCol
    BY <1>2 DEF Ready, Sound, TermState
<1>5. PrintChar(s, ch) = u
    BY <1>1, <1>4, CursorPlace DEF PrintChar, t
<1>6. PICK l \in LineSet, c \in ColumnSet :
         /\ t.x = c * fw /\ t.y = l * fh /\ Abs(t).row = l /\ Abs(t).col = c
         /\ Thickness + t.y = LineTop(l)
    BY <1>1, <1>4, CursorCell
<1>7. \A p \in Pixels : new.buffer[p] =
         IF InRect(p, Thickness + c * fw, LineTop(l), fw, fh) /\ Glyph(ch, p, Thickness + c * fw, LineTop(l))
         THEN "ink" ELSE b[p]
    <2> DEFINE ctx == t.ctx
               x == Thickness + t.x
               y == Thickness + t.y
    <2>1. ctx \in Context /\ x \in Nat /\ y \in Nat /\ x + fw <= Width
        BY <1>1, <1>4, CursorPlace
    <2> HIDE DEF ctx, x, y
    <2>2. \A p \in Pixels : DrawChar(ctx, x, y, ch).buffer[p] =
             IF InRect(p, x, y, fw, fh) /\ Glyph(ch, p, x, y) THEN "ink" ELSE ctx.buffer[p]
        BY <2>1, DrawCharEffect
    <2> QED BY <1>6, <2>2 DEF ctx, x, y
<1> HIDE DEF new
<1>8. u.ctx = new /\ u.x = t.x /\ u.y = t.y
    BY <1>4 DEF TermState
<1> HIDE DEF u
<1>9. Thickness \in Nat /\ fw \in Nat \ {0} /\ fh \in Nat \ {0} /\ LineTop(l) \in Nat /\ c \in Nat /\ LastCol \in Nat
    <2>1. l \in 0 .. num_lines
        BY <1>1, Geometry DEF LineSet
    <2> QED BY <1>1, <2>1, Geometry, ScreenFacts, LineRows, TextGeometry DEF ColumnSet
<1>10. InkOf(b, l, c) = {}
    <2>1. ASSUME NEW d \in Dots PROVE b[DotPixel[l][c][d]] # "ink"
        <3> DEFINE p == DotPixel[l][c][d]
        <3>1. p \in Pixels /\ Row(p) = LineTop(l) + d[2] /\ Col(p) = Thickness + c * fw + d[1]
              /\ d[1] \in 0 .. fw - 1 /\ d[2] \in 0 .. fh - 1 /\ c * fw \in Nat
            BY <1>1, DotPlace
        <3> HIDE DEF p
        <3>2. ~(Row(p) < Thickness + t.y \/ Col(p) < Thickness + t.x)
            BY <1>6, <1>9, <3>1
        <3> QED BY <1>4, <3>1, <3>2 DEF Inked, p
    <2> QED BY <2>1 DEF InkOf
<1>11. GridOf(new.buffer) = With(GridOf(b), l, c, ch)
    <2> DEFINE b2 == new.buffer
    <2> HIDE DEF b2, b
    <2>1. Printed(b, b2, l, c, ch)
        BY <1>7 DEF b2, Printed
    <2>3. InkOf(b, l, c) = {}
        BY <1>10 DEF b
    <2>2. GridOf(b2) = With(GridOf(b), l, c, ch)
        BY <1>1, <2>1, <2>3, GridPrinted
    <2> QED BY <2>2 DEF b2
<1>12. Abs(u) = Text!Put(Abs(s), ch)
    <2>1. a = [grid |-> GridOf(b), row |-> l, col |-> c]
        BY <1>4, <1>6 DEF Abs
    <2>2. Abs(u) = [grid |-> With(GridOf(b), l, c, ch), row |-> l, col |-> c]
        BY <1>6, <1>8, <1>11 DEF Abs
    <2>3. Text!Put(Abs(s), ch) = [a EXCEPT !.grid = With(a.grid, a.row, a.col, ch)]
        BY DEF Text!Put, LastCol, With
    <2> HIDE DEF a, b
    <2> QED BY <2>1, <2>2, <2>3
<1>13. Inked(new.buffer, u.y, Thickness + u.x + fw)
    <2> SUFFICES ASSUME NEW p \in Pixels, new.buffer[p] = "ink"
                 PROVE  Thickness <= Row(p) /\ Row(p) < Thickness + u.y + fh /\ Thickness <= Col(p) /\ Col(p) < Edge
                        /\ (Row(p) < Thickness + u.y \/ Col(p) < Thickness + u.x + fw)
        BY DEF Inked
    <2>1. Row(p) \in Nat /\ Col(p) \in Nat
        BY PixelPlace
    <2>2. CASE b[p] = "ink"
        <3>1. Thickness <= Row(p) /\ Row(p) < Thickness + t.y + fh /\ Thickness <= Col(p) /\ Col(p) < Edge
              /\ (Row(p) < Thickness + t.y \/ Col(p) < Thickness + t.x)
            BY <1>4, <2>2 DEF Inked
        <3>2. Col(p) < Thickness + t.x => Col(p) < Thickness + t.x + fw
            BY <1>4, <1>9, <2>1
        <3> QED BY <1>8, <3>1, <3>2
    <2>3. CASE b[p] # "ink"
        <3>1. InRect(p, Thickness + c * fw, LineTop(l), fw, fh)
            BY <1>7, <2>3
        <3>2. Row(p) \in LineTop(l) .. LineTop(l) + fh - 1 /\ Col(p) \in Thickness + c * fw .. Thickness + c * fw + fw - 1
            BY <3>1 DEF InRect
        <3>3. c <= LastCol /\ c * fw \in Nat /\ (c + 1) * fw <= (LastCol + 1) * fw /\ (c + 1) * fw = c * fw + fw
              /\ (LastCol + 1) * fw \in Nat
            <4>1. c <= LastCol
                BY <1>4, <1>6
            <4> QED BY <1>9, <4>1
        <3>4. Edge = Thickness + (LastCol + 1) * fw
            BY DEF Edge
        <3> QED BY <1>4, <1>6, <1>8, <1>9, <2>1, <3>2, <3>3, <3>4
    <2> QED BY <2>2, <2>3
<1>14. Tidy(u)
    BY <1>8, <1>13 DEF Tidy
<1> QED BY <1>3, <1>5, <1>12, <1>14 DEF Neat

LEMMA ReadyNeat ==
  ASSUME Fits, NEW s, NEW t, Ready(s, t)
  PROVE  s \in Neat /\ Abs(s) = t
<1>1. s \in Sound(Pixels, {}) /\ Abs(s) = t /\ Inked(s.ctx.buffer, s.y, Thickness + s.x)
    BY DEF Ready
<1>2. s.x \in Nat
    BY <1>1 DEF Sound, TermState
<1>3. Tidy(s)
    <2> SUFFICES ASSUME NEW p \in Pixels, s.ctx.buffer[p] = "ink"
                 PROVE  Thickness <= Row(p) /\ Row(p) < Thickness + s.y + Font.height /\ Thickness <= Col(p) /\ Col(p) < Edge
                        /\ (Row(p) < Thickness + s.y \/ Col(p) < Thickness + s.x + Font.width)
        BY DEF Tidy, Inked
    <2>1. Thickness <= Row(p) /\ Row(p) < Thickness + s.y + Font.height /\ Thickness <= Col(p) /\ Col(p) < Edge
          /\ (Row(p) < Thickness + s.y \/ Col(p) < Thickness + s.x)
        BY <1>1 DEF Inked
    <2>2. Col(p) \in Nat /\ Thickness \in Nat /\ Font.width \in Nat
        BY PixelPlace, ScreenFacts
    <2>3. Col(p) < Thickness + s.x => Col(p) < Thickness + s.x + Font.width
        BY <1>2, <2>2
    <2> QED BY <2>1, <2>3
<1> QED BY <1>1, <1>3 DEF Neat

\* A function that puts one character after the other into a text is PutAll.
LEMMA PutAllIs ==
  ASSUME NEW t, NEW C, NEW str \in Seq(C), NEW g,
         g[0] = t, \A k \in 1 .. Len(str) : g[k] = Text!Put(g[k - 1], str[k])
  PROVE  Text!PutAll(t, str) = g[Len(str)]
<1> DEFINE n == Len(str)
           go(i, u) == Text!Put(u, str[i])
           Is(f) == f = [k \in 0 .. n |-> IF k = 0 THEN t ELSE go(k, f[k - 1])]
           h == [k \in 0 .. n |-> g[k]]
           m == CHOOSE f : Is(f)
<1>1. n \in Nat
    OBVIOUS
<1>2. \A k \in 1 .. n : g[k] = go(k, g[k - 1])
    OBVIOUS
<1>3. Text!PutAll(t, str) = m[n]
    BY DEF Text!PutAll
<1> HIDE DEF go
<1>4. Is(h)
    <2>1. ASSUME NEW k \in 0 .. n PROVE h[k] = IF k = 0 THEN t ELSE go(k, h[k - 1])
        <3>1. k = 0 \/ (k \in 1 .. n /\ k - 1 \in 0 .. n)
            BY <1>1
        <3> QED BY <1>2, <3>1
    <2> QED BY <2>1
<1>5. Is(m)
    <2> HIDE DEF Is
    <2> QED BY <1>4
<1> HIDE DEF m
<1> DEFINE S == {k \in 0 .. n : m[k] = g[k]}
<1>6. 0 .. n \subseteq S
    <2>1. 0 \in S
        BY <1>1, <1>5
    <2>2. ASSUME NEW k \in 0 .. n - 1, k \in S PROVE k + 1 \in S
        <3>1. k + 1 \in 1 .. n /\ (k + 1) - 1 = k /\ k + 1 \in 0 .. n /\ k + 1 # 0
            BY <1>1
        <3>2. m[k + 1] = go(k + 1, m[k])
            BY <1>5, <3>1
        <3> QED BY <1>2, <2>2, <3>1, <3>2
    <2> HIDE DEF S, n
    <2> QED BY <1>1, <2>1, <2>2, UpTo
<1> QED BY <1>1, <1>3, <1>6

\* Strings of characters that are printed.
Strings == {str \in Seq(DOMAIN Font.matrix) : \A k \in 1 .. Len(str) : str[k] \in Used}

LEMMA UsedStrings ==
  Prompt \in Strings /\ \A shift, key : CharFromScancode(shift, key) \in Strings
<1>1. Prompt \in Seq(DOMAIN Font.matrix)
    BY TerminalConstants DEF TerminalConstants
<1>2. Prompt \in Strings
    BY <1>1 DEF Strings, Used
<1>3. ASSUME NEW shift, NEW key PROVE CharFromScancode(shift, key) \in Strings
    <2>1. CharFromScancode(shift, key) \in Seq(DOMAIN Font.matrix)
        BY KeyCharacters
    <2>2. CharFromScancode(shift, key) \in {<<>>, <<Lower>>, <<Upper>>}
        BY Zenon DEF CharFromScancode
    <2>3. \A str \in {<<>>, <<Lower>>, <<Upper>>} : \A k \in 1 .. Len(str) : str[k] \in {Lower, Upper}
        OBVIOUS
    <2> QED BY <2>1, <2>2, <2>3 DEF Strings, Used
<1> QED BY <1>2, <1>3

\* The texts that a run of TermPrint goes through.
LEMMA PrintRunText ==
  ASSUME Readable, NEW s \in Neat, NEW str \in Strings
  PROVE  \E f \in [0 .. Len(str) -> Neat] :
            /\ PrintRun(f, s, str)
            /\ Abs(f[Len(str)]) = Text!PutAll(Abs(s), str)
<1>1. str \in Seq(DOMAIN Font.matrix) /\ \A k \in 1 .. Len(str) : str[k] \in Used /\ str[k] \in DOMAIN Font.matrix
    <2>1. str \in Seq(DOMAIN Font.matrix) /\ \A k \in 1 .. Len(str) : str[k] \in Used
        BY DEF Strings
    <2> DEFINE C == DOMAIN Font.matrix
    <2>2. str \in Seq(C)
        BY <2>1
    <2> HIDE DEF C
    <2>3. \A k \in 1 .. Len(str) : str[k] \in C
        BY <2>2
    <2> QED BY <2>1, <2>3 DEF C
<1>2. \A t \in Neat, k \in 1 .. Len(str) : PrintChar(t, str[k]) \in Neat
    BY <1>1, PrintCharText
<1>3. PICK f \in [0 .. Len(str) -> Neat] : PrintRun(f, s, str)
    <2> DEFINE D == Neat
    <2> HIDE DEF D
    <2>1. s \in D /\ \A t \in D, k \in 1 .. Len(str) : PrintChar(t, str[k]) \in D
        BY <1>2 DEF D
    <2>2. \E f \in [0 .. Len(str) -> D] : PrintRun(f, s, str)
        BY <1>1, <2>1, PrintLoop
    <2> QED BY <2>2 DEF D
<1>4. f[0] = s /\ \A k \in 1 .. Len(str) : f[k] = PrintChar(f[k - 1], str[k])
    BY <1>3 DEF PrintRun
<1> DEFINE g == [k \in 0 .. Len(str) |-> Abs(f[k])]
<1>5. Len(str) \in Nat
    BY <1>1
<1>6. g[0] = Abs(s)
    BY <1>4, <1>5
<1>7. \A k \in 1 .. Len(str) : g[k] = Text!Put(g[k - 1], str[k])
    <2> TAKE k \in 1 .. Len(str)
    <2>1. k - 1 \in 0 .. Len(str) /\ k \in 0 .. Len(str)
        BY <1>5
    <2>2. f[k - 1] \in Neat
        BY <1>3, <2>1
    <2> DEFINE u == f[k - 1]
    <2> HIDE DEF u
    <2>3. Abs(PrintChar(u, str[k])) = Text!Put(Abs(u), str[k])
        BY <1>1, <2>2, PrintCharText DEF u
    <2>4. Abs(f[k]) = Text!Put(Abs(f[k - 1]), str[k])
        BY <1>4, <2>3 DEF u
    <2> QED BY <2>1, <2>4
<1> HIDE DEF g
<1> DEFINE t == Abs(s)
           C == DOMAIN Font.matrix
<1>8. str \in Seq(C) /\ g[0] = t
    BY <1>1, <1>6
<1> HIDE DEF t, C
<1>9. Text!PutAll(t, str) = g[Len(str)]
    BY <1>7, <1>8, PutAllIs
<1>10. g[Len(str)] = Abs(f[Len(str)])
    BY <1>5 DEF g
<1> QED BY <1>3, <1>9, <1>10 DEF t

LEMMA TermPrintText ==
  ASSUME Readable, NEW s \in Neat, NEW str \in Strings
  PROVE  TermPrint(s, str) \in Neat /\ Abs(TermPrint(s, str)) = Text!PutAll(Abs(s), str)
<1>1. PICK f \in [0 .. Len(str) -> Neat] :
            PrintRun(f, s, str) /\ Abs(f[Len(str)]) = Text!PutAll(Abs(s), str)
    BY PrintRunText
<1>2. Len(str) \in 0 .. Len(str)
    BY DEF Strings
<1> QED BY <1>1, <1>2 DEF PrintRun

\* A text with one character less, by its parts.
LEMMA ErasedParts ==
  ASSUME NEW G, NEW l, NEW c
  PROVE  Text!Erased([grid |-> G, row |-> l, col |-> c]) =
            IF l = 0 /\ c = 0 THEN [grid |-> G, row |-> l, col |-> c]
            ELSE IF c = 0 THEN [grid |-> With(G, l, c, Blank), row |-> l - 1, col |-> chars_per_line - 1]
            ELSE [grid |-> With(G, l, c, Blank), row |-> l, col |-> c - 1]
<1> DEFINE a == [grid |-> G, row |-> l, col |-> c]
           H == With(G, l, c, Blank)
           u == [grid |-> H, row |-> l, col |-> c]
<1>1. [a EXCEPT !.grid[a.row][a.col] = Blank] = u
    <2>1. [a EXCEPT !.grid[a.row][a.col] = Blank] = [a EXCEPT !.grid = H]
        BY DEF With
    <2> HIDE DEF H
    <2>2. [a EXCEPT !.grid = H] = u
        OBVIOUS
    <2> QED BY <2>1, <2>2
<1>2. Text!Erased(a) = IF a.row = 0 /\ a.col = 0 THEN a
                       ELSE IF a.col = 0 THEN [u EXCEPT !.row = u.row - 1, !.col = chars_per_line - 1]
                       ELSE [u EXCEPT !.col = u.col - 1]
    <2> HIDE DEF u
    <2> QED BY <1>1 DEF Text!Erased
<1> HIDE DEF H
<1>3. [u EXCEPT !.row = u.row - 1, !.col = chars_per_line - 1] = [grid |-> H, row |-> l - 1, col |-> chars_per_line - 1]
    <2> DEFINE k == l - 1
               w == chars_per_line - 1
               v == [grid |-> H, row |-> k, col |-> c]
    <2>1. [u EXCEPT !.row = k, !.col = w] = [[u EXCEPT !.row = k] EXCEPT !.col = w]
        OBVIOUS
    <2> HIDE DEF k, w
    <2>2. [u EXCEPT !.row = k] = v
        OBVIOUS
    <2>3. [v EXCEPT !.col = w] = [grid |-> H, row |-> k, col |-> w]
        OBVIOUS
    <2> QED BY <2>1, <2>2, <2>3 DEF k, w
<1>4. [u EXCEPT !.col = u.col - 1] = [grid |-> H, row |-> l, col |-> c - 1]
    OBVIOUS
<1> QED BY <1>2, <1>3, <1>4 DEF H

\* RemoveChar erases a character of the text.
LEMMA RemoveCharText ==
  ASSUME Readable, NEW s \in Neat
  PROVE  RemoveChar(s) \in Neat /\ Abs(RemoveChar(s)) = Text!Erased(Abs(s))
<1> DEFINE T == Thickness
           fw == Font.width
           fh == Font.height
           new == DrawRect(s.ctx, T + s.x, T + s.y, fw, fh, "background")
           t == [s EXCEPT !.ctx = new]
           b == s.ctx.buffer
           b2 == new.buffer
           g == GridOf(b)
           u == RemoveChar(s)
<1>1. Fits /\ Edge \in Nat /\ Edge <= T + chars_per_line * fw
    BY TextGeometry
<1>2. s \in Sound(Pixels, {}) /\ s \in TermState /\ OnGrid(s) /\ Inked(b, s.y, T + s.x + fw) /\ s.y \in Nat /\ s.x \in Nat
      /\ s.ctx \in Context
    BY DEF Neat, Sound, TermState, Tidy
<1>3. PICK l \in LineSet, c \in ColumnSet :
         s.x = c * fw /\ s.y = l * fh /\ Abs(s).row = l /\ Abs(s).col = c /\ T + s.y = LineTop(l)
    BY <1>1, <1>2, CursorCell
<1>4. Abs(s) = [grid |-> g, row |-> l, col |-> c]
    BY <1>3 DEF Abs
<1>5. T \in Nat /\ fw \in Nat \ {0} /\ fh \in Nat \ {0} /\ c \in Nat /\ l \in Nat /\ chars_per_line \in Nat \ {0}
    BY <1>1, Geometry, ScreenFacts DEF ColumnSet, LineSet
<1>6. (s.x = 0 <=> c = 0) /\ (s.y = 0 <=> l = 0)
    BY <1>3, <1>5
<1>7. u \in Sound(Pixels, {})
    <2>1. Allowed(Pixels, {})
        BY <1>1, AllowedAnywhere DEF Readable
    <2> QED BY <1>1, <1>2, <2>1, RemoveCharSound
<1>8. Painted(b, b2, l, c) /\ new \in Context
    <2> DEFINE x == T + s.x
               y == T + s.y
               ctx == s.ctx
    <2>1. x \in Nat /\ y \in Nat /\ x + fw <= Width /\ ctx \in Context
        BY <1>1, <1>2, CursorPlace
    <2>2. "background" \in Colours /\ fw \in Int /\ fh \in Nat
        BY <1>5 DEF Colours
    <2> HIDE DEF x, y, ctx
    <2>3. /\ DrawRect(ctx, x, y, fw, fh, "background") \in Context
          /\ DrawRect(ctx, x, y, fw, fh, "background").screen = ctx.screen
          /\ \A p \in Pixels : DrawRect(ctx, x, y, fw, fh, "background").buffer[p] =
                IF InRect(p, x, y, fw, fh) THEN "background" ELSE ctx.buffer[p]
          /\ Marked(ctx.dirty, DrawRect(ctx, x, y, fw, fh, "background").dirty, y, y + fh)
        BY <2>1, <2>2, DrawRectEffect
    <2>4. x = T + c * fw /\ y = LineTop(l)
        BY <1>3 DEF x, y
    <2> HIDE DEF b, b2
    <2>5. b = ctx.buffer /\ b2 = DrawRect(ctx, x, y, fw, fh, "background").buffer
        BY DEF ctx, x, y, b, b2
    <2>6. Painted(b, b2, l, c)
        <3>1. \A p \in Pixels : b2[p] = IF InRect(p, x, y, fw, fh) THEN "background" ELSE b[p]
            BY <2>3, <2>5
        <3> QED BY <2>4, <3>1 DEF Painted
    <2> QED BY <2>3, <2>6 DEF ctx, x, y
<1>9. u = IF s.x = 0 /\ s.y = 0 THEN s
          ELSE IF s.x = 0 THEN [t EXCEPT !.x = (chars_per_line - 1) * fw, !.y = t.y - fh]
          ELSE [t EXCEPT !.x = t.x - fw]
    BY <1>1, <1>2, CursorPlace DEF RemoveChar, TermState
<1>10. GridOf(b2) = With(g, l, c, Blank)
    <2> HIDE DEF b, b2, new
    <2> QED BY <1>1, <1>8, GridErased
<1> HIDE DEF new, u
<1>11. t \in TermState /\ t.ctx = new /\ t.x = s.x /\ t.y = s.y
    BY <1>2, <1>8 DEF TermState
<1> HIDE DEF t
<1>12. ASSUME NEW p \in Pixels, b2[p] = "ink"
       PROVE  /\ T <= Row(p) /\ Row(p) < T + s.y + fh /\ T <= Col(p) /\ Col(p) < Edge
              /\ Row(p) < T + s.y \/ Col(p) < T + s.x
    <2>1. b[p] = "ink" /\ ~InRect(p, T + c * fw, LineTop(l), fw, fh)
        <3> HIDE DEF b, b2
        <3> QED BY <1>8, <1>12 DEF Painted
    <2>2. /\ T <= Row(p) /\ Row(p) < T + s.y + fh /\ T <= Col(p) /\ Col(p) < Edge
          /\ Row(p) < T + s.y \/ Col(p) < T + s.x + fw
        BY <1>2, <2>1 DEF Inked
    <2>3. ~(Row(p) \in T + s.y .. T + s.y + fh - 1 /\ Col(p) \in T + s.x .. T + s.x + fw - 1)
        BY <1>3, <2>1 DEF InRect
    <2>4. Row(p) \in Nat /\ Col(p) \in Nat
        BY PixelPlace
    <2> QED BY <1>2, <1>5, <2>2, <2>3, <2>4
<1> HIDE DEF b2, g
<1>13. CASE c = 0 /\ l = 0
    <2>1. u = s
        BY <1>6, <1>9, <1>13
    <2>2. Text!Erased(Abs(s)) = Abs(s)
        BY <1>4, <1>13, ErasedParts
    <2> QED BY <2>1, <2>2 DEF u
<1>14. CASE c = 0 /\ l # 0
    <2> DEFINE x == (chars_per_line - 1) * fw
    <2>1. u = [t EXCEPT !.x = x, !.y = t.y - fh]
        BY <1>6, <1>9, <1>14
    <2>2. x \in Nat /\ x + fw = chars_per_line * fw /\ x \div fw = chars_per_line - 1
        BY <1>5
    <2> HIDE DEF x
    <2>3. u.ctx = new /\ u.x = x /\ u.y = s.y - fh
        BY <1>11, <2>1 DEF TermState
    <2>4. s.y - fh = (l - 1) * fh /\ ((l - 1) * fh) \div fh = l - 1 /\ s.y - fh \in Nat
        <3>1. l - 1 \in Nat
            BY <1>5, <1>14
        <3>2. (l - 1) * fh = l * fh - fh /\ (l - 1) * fh \in Nat
            BY <1>5, <3>1
        <3>3. ((l - 1) * fh) \div fh = l - 1
            BY <1>5, <3>1
        <3> QED BY <1>3, <3>2, <3>3
    <2>5. Abs(u) = [grid |-> With(g, l, c, Blank), row |-> l - 1, col |-> chars_per_line - 1]
        BY <1>10, <2>2, <2>3, <2>4 DEF Abs, b2
    <2>6. Text!Erased(Abs(s)) = [grid |-> With(g, l, c, Blank), row |-> l - 1, col |-> chars_per_line - 1]
        BY <1>4, <1>14, ErasedParts
    <2>7. Inked(b2, u.y, T + u.x + fw)
        <3> SUFFICES ASSUME NEW p \in Pixels, b2[p] = "ink"
                     PROVE  /\ T <= Row(p) /\ Row(p) < T + u.y + fh /\ T <= Col(p) /\ Col(p) < Edge
                            /\ Row(p) < T + u.y \/ Col(p) < T + u.x + fw
            BY DEF Inked
        <3>1. /\ T <= Row(p) /\ T <= Col(p) /\ Col(p) < Edge
              /\ Row(p) < T + s.y \/ Col(p) < T + s.x
            BY <1>12
        <3>2. Row(p) \in Nat /\ Col(p) \in Nat
            BY PixelPlace
        <3>3. s.x = 0
            BY <1>6, <1>14
        <3>4. Row(p) < T + u.y + fh
            BY <1>2, <1>5, <2>3, <3>1, <3>2, <3>3
        <3>5. chars_per_line * fw \in Nat /\ T + u.x + fw = T + chars_per_line * fw
            BY <1>5, <2>2, <2>3
        <3>6. Col(p) < T + u.x + fw
            BY <1>1, <1>5, <3>1, <3>2, <3>5
        <3> QED BY <3>1, <3>4, <3>6
    <2>8. Tidy(u)
        BY <2>3, <2>7 DEF Tidy, b2
    <2> QED BY <1>7, <2>5, <2>6, <2>8 DEF Neat, u
<1>15. CASE c # 0
    <2>1. u = [t EXCEPT !.x = t.x - fw]
        BY <1>6, <1>9, <1>15
    <2>2. u.ctx = new /\ u.x = s.x - fw /\ u.y = s.y
        BY <1>11, <2>1 DEF TermState
    <2>3. s.x - fw = (c - 1) * fw /\ ((c - 1) * fw) \div fw = c - 1
        <3>1. c - 1 \in Nat
            BY <1>5, <1>15
        <3>2. (c - 1) * fw = c * fw - fw
            BY <1>5, <3>1
        <3>3. ((c - 1) * fw) \div fw = c - 1
            BY <1>5, <3>1
        <3> QED BY <1>3, <3>2, <3>3
    <2>4. (l * fh) \div fh = l
        BY <1>5
    <2>5. Abs(u) = [grid |-> With(g, l, c, Blank), row |-> l, col |-> c - 1]
        BY <1>3, <1>10, <2>2, <2>3, <2>4 DEF Abs, b2
    <2>6. Text!Erased(Abs(s)) = [grid |-> With(g, l, c, Blank), row |-> l, col |-> c - 1]
        BY <1>4, <1>15, ErasedParts
    <2>7. T + u.x + fw = T + s.x
        BY <1>2, <1>5, <2>2
    <2>8. Tidy(u)
        BY <1>12, <2>2, <2>7 DEF Tidy, Inked, b2
    <2> QED BY <1>7, <2>5, <2>6, <2>8 DEF Neat, u
<1> QED BY <1>13, <1>14, <1>15

\* What WriteBack leaves of the text.
LEMMA WriteBackText ==
  ASSUME Readable, NEW s \in Neat
  PROVE  /\ [s EXCEPT !.ctx = WriteBack(s.ctx)] \in Neat
         /\ Abs([s EXCEPT !.ctx = WriteBack(s.ctx)]) = Abs(s)
         /\ [s EXCEPT !.ctx = WriteBack(s.ctx)].ctx.dirty = {}
<1> DEFINE new == WriteBack(s.ctx)
           u == [s EXCEPT !.ctx = new]
<1>1. Allowed(Pixels, {})
    BY AllowedAnywhere DEF Readable
<1>2. s \in TermState /\ OnGrid(s) /\ s.ctx \in Context /\ Good(s.ctx, Pixels, {}) /\ Tidy(s)
    BY DEF Neat, Sound, TermState
<1>3. new \in Context /\ new.dirty = {} /\ new.buffer = s.ctx.buffer /\ Good(new, Pixels, {})
    BY <1>1, <1>2, WriteBackEffect, CopiedBack
<1> HIDE DEF new
<1>4. u \in TermState /\ u.ctx = new /\ u.x = s.x /\ u.y = s.y
    BY <1>2, <1>3 DEF TermState
<1> HIDE DEF u
<1>5. OnGrid(u)
    BY <1>2, <1>4 DEF OnGrid
<1>6. Tidy(u)
    BY <1>2, <1>3, <1>4 DEF Tidy
<1>7. Abs(u) = Abs(s)
    BY <1>3, <1>4 DEF Abs
<1> QED BY <1>3, <1>4, <1>5, <1>6, <1>7 DEF Neat, Sound, u, new

\* One character put by PutAll, and none.
LEMMA PutAllShort ==
  ASSUME NEW t, NEW c
  PROVE  Text!PutAll(t, <<>>) = t /\ Text!PutAll(t, <<c>>) = Text!Put(t, c)
<1>1. Text!PutAll(t, <<>>) = t
    <2> DEFINE g == [k \in {0} |-> t]
               str == <<>>
    <2>1. str \in Seq({c}) /\ g[0] = t /\ \A k \in 1 .. Len(str) : g[k] = Text!Put(g[k - 1], str[k])
        OBVIOUS
    <2>2. Len(str) = 0
        OBVIOUS
    <2> HIDE DEF g, str
    <2>3. Text!PutAll(t, str) = g[Len(str)]
        BY <2>1, PutAllIs
    <2> QED BY <2>1, <2>2, <2>3 DEF str
<1>2. Text!PutAll(t, <<c>>) = Text!Put(t, c)
    <2> DEFINE g == [k \in 0 .. 1 |-> IF k = 0 THEN t ELSE Text!Put(t, c)]
               str == <<c>>
    <2>1. str \in Seq({c}) /\ g[0] = t /\ g[1] = Text!Put(t, c) /\ Len(str) = 1 /\ str[1] = c
        OBVIOUS
    <2> HIDE DEF g, str
    <2>2. \A k \in 1 .. Len(str) : g[k] = Text!Put(g[k - 1], str[k])
        <3>1. \A k \in 1 .. Len(str) : k = 1 /\ k - 1 = 0
            BY <2>1
        <3> QED BY <2>1, <3>1
    <2>3. Text!PutAll(t, str) = g[Len(str)]
        BY <2>1, <2>2, PutAllIs
    <2> QED BY <2>1, <2>3 DEF str
<1> QED BY <1>1, <1>2

\* A key types, wraps, scrolls or erases in the text, or leaves it alone.
LEMMA HandleKeyText ==
  ASSUME Readable, NEW s \in Neat, NEW i, NEW shift, NEW key
  PROVE  /\ HandleKeyStroke(s, i, CharFromScancode(shift, key)) \in Neat
         /\ HandleKeyStroke(s, i, CharFromScancode(shift, key)).ctx.dirty = {}
         /\ Abs(HandleKeyStroke(s, i, CharFromScancode(shift, key))) \in Text!AfterKey(Abs(s)) \cup {Abs(s)}
<1> DEFINE str == CharFromScancode(shift, key)
           t == IF i.backspace THEN RemoveChar(s)
                ELSE IF i.enter THEN TermPrint(TermNewLine(s), Prompt)
                ELSE TermPrint(s, str)
           u == [t EXCEPT !.ctx = WriteBack(t.ctx)]
           after == Text!AfterKey(Abs(s)) \cup {Abs(s)}
<1>1. str \in Strings /\ Prompt \in Strings /\ str \in {<<>>, <<Lower>>, <<Upper>>}
    <2>1. str \in {<<>>, <<Lower>>, <<Upper>>}
        BY Zenon DEF CharFromScancode
    <2> QED BY <2>1, UsedStrings
<1>2. HandleKeyStroke(s, i, str) = u
    BY DEF HandleKeyStroke
<1> HIDE DEF str
<1>3. RemoveChar(s) \in Neat /\ Abs(RemoveChar(s)) \in after
    <2>1. Text!Erased(Abs(s)) \in after
        BY DEF Text!AfterKey
    <2> QED BY <2>1, RemoveCharText
<1>4. TermPrint(TermNewLine(s), Prompt) \in Neat /\ Abs(TermPrint(TermNewLine(s), Prompt)) \in after
    <2> DEFINE v == TermNewLine(s)
    <2>1. v \in Neat /\ Abs(v) = Text!NextLine(Abs(s))
        BY NewLineText, ReadyNeat, TextGeometry
    <2> HIDE DEF v
    <2>2. TermPrint(v, Prompt) \in Neat /\ Abs(TermPrint(v, Prompt)) = Text!PutAll(Text!NextLine(Abs(s)), Prompt)
        BY <1>1, <2>1, TermPrintText
    <2>3. Text!PutAll(Text!NextLine(Abs(s)), Prompt) \in after
        BY DEF Text!AfterKey
    <2> QED BY <2>2, <2>3 DEF v
<1>5. TermPrint(s, str) \in Neat /\ Abs(TermPrint(s, str)) \in after
    <2>1. TermPrint(s, str) \in Neat /\ Abs(TermPrint(s, str)) = Text!PutAll(Abs(s), str)
        BY <1>1, TermPrintText
    <2>2. Text!PutAll(Abs(s), str) \in {Abs(s), Text!Put(Abs(s), Lower), Text!Put(Abs(s), Upper)}
        BY <1>1, PutAllShort
    <2>3. {Text!Put(Abs(s), Lower), Text!Put(Abs(s), Upper)} \subseteq after
        BY DEF Text!AfterKey
    <2> QED BY <2>1, <2>2, <2>3
<1>6. t \in Neat /\ Abs(t) \in after
    BY <1>3, <1>4, <1>5
<1> HIDE DEF t
<1>7. u \in Neat /\ Abs(u) = Abs(t) /\ u.ctx.dirty = {}
    BY <1>6, WriteBackText
<1> QED BY <1>2, <1>6, <1>7 DEF str

\* The upper half of the screen lies in the cells that can be copied.
LEMMA UpperHalfCopied ==
  ASSUME NEW p \in Pixels, Row(p) < Height \div 2
  PROVE  Cell(p) < NumRows
<1> DEFINE r == row_height
           n == NumRows
<1>1. Height \in Nat \ {0} /\ n \in Nat \ {0} /\ r \in Nat \ {0} /\ Row(p) \in Nat
    BY ScreenFacts, PixelPlace
<1>2. r = Height \div n
    BY DEF row_height
<1>3. Height % n \in 0 .. n - 1 /\ Height = n * (Height \div n) + (Height % n)
    BY <1>1, Quotient
<1> HIDE DEF r, n
<1>4. n * r \in Nat /\ n <= n * r /\ n * r = r * n
    BY <1>1
<1>5. Row(p) < n * r
    BY <1>1, <1>2, <1>3, <1>4
<1>6. Row(p) \div r < n
    BY <1>1, <1>5, QuotientBelow
<1>7. Cell(p) = Row(p) \div r
    BY CellIsNumber DEF r
<1> QED BY <1>6, <1>7 DEF n

\* When nothing is dirty, the text on the screen is the one on the back buffer.
LEMMA SeenText ==
  ASSUME Readable, NEW s \in Neat, s.ctx.dirty = {}
  PROVE  GridOf(s.ctx.screen) = GridOf(s.ctx.buffer)
<1>1. Fits /\ num_lines * Font.height <= dims.height
    BY DEF Readable
<1>2. Good(s.ctx, Pixels, {})
    BY DEF Neat, Sound
<1>3. ASSUME NEW l \in LineSet, NEW c \in ColumnSet, NEW d \in Dots
      PROVE  s.ctx.screen[DotPixel[l][c][d]] = s.ctx.buffer[DotPixel[l][c][d]]
    <2> DEFINE p == DotPixel[l][c][d]
               fh == Font.height
    <2>1. p \in Pixels /\ Row(p) = LineTop(l) + d[2] /\ d[2] \in 0 .. fh - 1
        BY <1>1, DotPlace
    <2>2. l \in Nat /\ l + 1 <= num_lines /\ num_lines \in Nat /\ fh \in Nat \ {0} /\ Thickness \in Nat
        BY <1>1, Geometry, ScreenFacts DEF LineSet
    <2>3. (l + 1) * fh <= num_lines * fh /\ (l + 1) * fh = l * fh + fh /\ l * fh \in Nat /\ num_lines * fh \in Nat
        BY <2>2
    <2>4. dims.height \in Nat /\ dims.height = Height \div 2 - 2 * Thickness /\ Height \div 2 \in Nat
        BY <1>1, Geometry
    <2> HIDE DEF p, fh
    <2>5. LineTop(l) = Thickness + l * fh /\ num_lines * fh <= dims.height
        BY <1>1 DEF LineTop, fh
    <2>6. Row(p) < Height \div 2
        BY <2>1, <2>2, <2>3, <2>4, <2>5
    <2>7. Cell(p) < NumRows
        BY <2>1, <2>6, UpperHalfCopied
    <2> QED BY <1>2, <2>1, <2>7 DEF Good, InStep, p
<1>4. ASSUME NEW l \in LineSet, NEW c \in ColumnSet
      PROVE  InkOf(s.ctx.screen, l, c) = InkOf(s.ctx.buffer, l, c)
    BY <1>3 DEF InkOf
<1> QED BY <1>4 DEF GridOf

\* The prompt of Render fits into the first line: nothing is scrolled, and so
\* nothing is shown before the first WriteBack.
LEMMA PromptUnseen ==
  ASSUME Readable, NEW s \in Neat, s.x = 0
  PROVE  TermPrint(s, Prompt).ctx.screen = s.ctx.screen
<1> DEFINE n == Len(Prompt)
           fw == Font.width
<1>1. PICK f \in [0 .. n -> Neat] : PrintRun(f, s, Prompt)
    BY PrintRunText, UsedStrings
<1>2. f[0] = s /\ (\A k \in 1 .. n : f[k] = PrintChar(f[k - 1], Prompt[k])) /\ TermPrint(s, Prompt) = f[n]
    BY <1>1 DEF PrintRun
<1>3. n \in Nat /\ fw \in Nat \ {0} /\ Fits /\ n <= LastCol /\ LastCol \in Nat
    <2>1. n \in Nat
        BY TerminalConstants DEF TerminalConstants
    <2> QED BY <2>1, ScreenFacts, TextGeometry DEF Readable
<1> DEFINE S == {k \in 0 .. n : f[k].x = k * fw /\ f[k].ctx.screen = s.ctx.screen}
<1>4. 0 .. n \subseteq S
    <2>1. 0 \in S
        <3>1. 0 * fw = 0 /\ 0 \in 0 .. n
            BY <1>3
        <3> QED BY <1>2, <3>1
    <2>2. ASSUME NEW k \in 0 .. n - 1, k \in S PROVE k + 1 \in S
        <3> DEFINE t == f[k]
                   ch == Prompt[k + 1]
                   u == [t EXCEPT !.x = t.x + fw]
        <3>1. k + 1 \in 1 .. n /\ (k + 1) - 1 = k /\ k + 1 \in 0 .. n /\ k \in 0 .. n /\ k \in Nat /\ k < LastCol
            BY <1>3
        <3>2. t \in Neat /\ t.x = k * fw /\ t.ctx.screen = s.ctx.screen
            BY <1>1, <2>2, <3>1
        <3>3. f[k + 1] = PrintChar(t, ch)
            BY <1>2, <3>1
        <3>4. ch \in Used /\ ch \in DOMAIN Font.matrix /\ ch # "\n"
            <4>1. ch \in Used
                BY <3>1 DEF Used
            <4>2. Prompt \in Seq(DOMAIN Font.matrix)
                BY TerminalConstants DEF TerminalConstants
            <4> DEFINE C == DOMAIN Font.matrix
            <4>3. Prompt \in Seq(C)
                BY <4>2
            <4> HIDE DEF C
            <4>4. ch \in C
                BY <3>1, <4>3
            <4> QED BY <4>1, <4>4 DEF C, Readable
        <3> HIDE DEF t, ch
        <3>5. t \in TermState /\ t \in Sound(Pixels, {})
            BY <3>2 DEF Neat, Sound
        <3>6. Advance(t, ch) = u
            <4>1. ~(k * fw > dims.width - Thickness * 6)
                BY <1>3, <3>1, TextGeometry
            <4>2. ~(t.x > dims.width - Thickness * 6)
                BY <3>2, <4>1
            <4> QED BY <3>4, <4>2 DEF Advance
        <3>7. u.x = t.x + fw /\ u.ctx = t.ctx
            BY <3>5 DEF TermState
        <3>8. u \in TermState /\ OnGrid(u)
            <4>1. Allowed(Pixels, {})
                BY AllowedAnywhere DEF Readable
            <4>2. Advance(t, ch) \in Sound(Pixels, {})
                BY <1>3, <3>5, <4>1, AdvanceSound
            <4> QED BY <3>6, <4>2 DEF Sound
        <3> HIDE DEF u
        <3> DEFINE ctx == u.ctx
                   x == Thickness + u.x
                   y == Thickness + u.y
        <3>9. ctx \in Context /\ x \in Nat /\ y \in Nat /\ x + fw <= Width
            BY <1>3, <3>8, CursorPlace DEF TermState
        <3>10. PrintChar(t, ch) = [u EXCEPT !.ctx = DrawChar(ctx, x, y, ch)]
            BY <1>3, <3>6, <3>8, CursorPlace DEF PrintChar
        <3> HIDE DEF ctx, x, y
        <3> DEFINE new == DrawChar(ctx, x, y, ch)
        <3>11. new.screen = ctx.screen
            BY <3>4, <3>9, DrawCharEffect
        <3> HIDE DEF new
        <3>12. PrintChar(t, ch).x = u.x /\ PrintChar(t, ch).ctx = new
            BY <3>8, <3>10 DEF TermState, new
        <3>13. (k + 1) * fw = k * fw + fw
            BY <1>3, <3>1
        <3>14. f[k + 1].x = (k + 1) * fw
            BY <3>2, <3>3, <3>7, <3>12, <3>13
        <3>15. f[k + 1].ctx.screen = s.ctx.screen
            BY <3>2, <3>3, <3>7, <3>11, <3>12 DEF ctx
        <3> QED BY <3>1, <3>14, <3>15
    <2> HIDE DEF S, n
    <2> QED BY <1>3, <2>1, <2>2, UpTo
<1>5. n \in S
    <2> HIDE DEF S, n
    <2> QED BY <1>3, <1>4
<1> QED BY <1>2, <1>5

-----------------------------------------------------------------------------
(* The refinement. *)

\* The text at each statement of _start.
TextInv ==
    /\ ~Shown => \A p \in Pixels : term.ctx.screen[p] # "ink"
    /\ pc = "terminal" => \A p \in Pixels : term.ctx.buffer[p] # "ink"
    /\ pc = "write" => Abs(term) = Text!PutAll(Text!Off, Prompt)
    /\ pc = "write" \/ Shown => term \in Neat

LEMMA InitText == ScreenInv(Pixels, {}) /\ Init => TextInv
BY DEF Init, TextInv, Shown, InitGraphicsCtx

LEMMA NextText ==
  ASSUME Readable
  PROVE  WindowInv /\ ScreenInv(Pixels, {}) /\ TextInv /\ [Next]_vars => TextInv'
<1> SUFFICES ASSUME WindowInv, ScreenInv(Pixels, {}), TextInv, [Next]_vars PROVE TextInv'
    OBVIOUS
<1> DEFINE ctx == term.ctx
<1>1. ctx \in Context /\ term \in TermState /\ OnGrid(term) /\ Fits /\ Allowed(Pixels, {})
    BY AllowedAnywhere DEF ScreenInv, TermState, Readable
<1>2. CASE Boot /\ pc = "clear"
    <2> DEFINE new == ClearScreen(ctx, "black")
    <2>1. pc' = "terminal" /\ term' = [term EXCEPT !.ctx = new]
        BY <1>2 DEF Boot
    <2>2. ctx = InitGraphicsCtx
        BY <1>2 DEF ScreenInv
    <2>3. new.buffer = [p \in Pixels |-> "black"] /\ new.screen = [p \in Pixels |-> "boot"]
        BY <2>2, Cleared
    <2> HIDE DEF new
    <2>4. term'.ctx = new
        BY <1>1, <2>1 DEF TermState
    <2> QED BY <2>1, <2>3, <2>4 DEF TextInv, Shown
<1>3. CASE Boot /\ pc = "terminal"
    <2> DEFINE s == [term EXCEPT !.ctx = Framed(ctx)]
               b == Framed(ctx).buffer
    <2>1. pc' = "write" /\ term' = Render(term)
        BY <1>3 DEF Boot
    <2>2. term' = TermPrint(s, Prompt)
        BY <2>1 DEF Render, Framed
    <2>3. ctx.dirty = 0 .. NumRows - 1 /\ Kept(ctx, {}) /\ term.x = 0 /\ term.y = 0
        BY <1>3 DEF ScreenInv, Good
    <2>4. /\ Framed(ctx) \in Context /\ Good(Framed(ctx), Pixels, {})
          /\ Framed(ctx).dirty = 0 .. NumRows - 1
          /\ Framed(ctx).screen = ctx.screen
          /\ \A p \in Pixels : ctx.buffer[p] # "ink" => b[p] # "ink"
        BY <1>1, <2>3, FramedGood
    <2>5. s \in TermState /\ s.x = 0 /\ s.y = 0 /\ s.ctx = Framed(ctx)
        BY <1>1, <2>3, <2>4 DEF TermState
    <2> HIDE DEF s, b
    <2>6. OnGrid(s)
        BY <1>1, <2>3, <2>5 DEF OnGrid
    <2>7. \A p \in Pixels : b[p] # "ink"
        BY <1>3, <2>4 DEF TextInv
    <2>8. s \in Neat
        BY <2>4, <2>5, <2>6, <2>7 DEF Neat, Sound, Tidy, Inked, b
    <2>9. Abs(s) = Text!Off
        <3>1. GridOf(b) = [l \in LineSet |-> [c \in ColumnSet |-> Blank]]
            BY <1>1, <2>7, GridEmpty
        <3>2. 0 \div Font.width = 0 /\ 0 \div Font.height = 0
            BY ScreenFacts
        <3> QED BY <2>5, <3>1, <3>2 DEF Abs, Text!Off, Text!Empty, LineSet, ColumnSet, b
    <2>10. term' \in Neat /\ Abs(term') = Text!PutAll(Text!Off, Prompt)
        BY <2>2, <2>8, <2>9, UsedStrings, TermPrintText
    <2>11. term'.ctx.screen = ctx.screen
        BY <2>2, <2>4, <2>5, <2>8, PromptUnseen
    <2>12. Abs(term)' = Abs(term')
        BY DEF Abs, GridOf, InkOf
    <2> QED BY <1>3, <2>1, <2>10, <2>11, <2>12 DEF TextInv, Shown
<1>4. CASE Boot /\ pc = "write"
    <2>1. pc' = "unmask" /\ term' = [term EXCEPT !.ctx = WriteBack(ctx)]
        BY <1>4 DEF Boot
    <2>2. term \in Neat
        BY <1>4 DEF TextInv
    <2>3. term' \in Neat
        BY <2>1, <2>2, WriteBackText
    <2> QED BY <2>1, <2>3 DEF TextInv, Shown
<1>5. CASE Boot /\ pc \in {"unmask", "consume"}
    <2>1. UNCHANGED term /\ pc' \in {"consume", "halt"}
        BY <1>5 DEF Boot
    <2> QED BY <1>5, <2>1 DEF TextInv, Shown
<1>6. ASSUME NEW key \in Keys, NEW pressed, Interrupt(key, pressed) PROVE TextInv'
    <2>1. pc' = pc
        BY <1>6, InterruptTerm
    <2>2. CASE UNCHANGED term
        BY <2>1, <2>2 DEF TextInv, Shown
    <2>3. CASE consumer /\ \E i, shift, k : term' = HandleKeyStroke(term, i, CharFromScancode(shift, k))
        <3>1. PICK i, shift, k : term' = HandleKeyStroke(term, i, CharFromScancode(shift, k))
            BY <2>3
        <3>2. pc = "halt"
            BY <2>3 DEF WindowInv
        <3>3. term \in Neat
            BY <3>2 DEF TextInv, Shown
        <3>4. term' \in Neat
            BY <3>1, <3>3, HandleKeyText
        <3> QED BY <2>1, <3>2, <3>4 DEF TextInv, Shown
    <2> QED BY <1>6, <2>2, <2>3, InterruptTerm
<1>7. CASE UNCHANGED vars
    BY <1>7 DEF vars, TextInv, Shown
<1>8. CASE Boot
    BY <1>2, <1>3, <1>4, <1>5, <1>8 DEF Boot
<1>9. ASSUME NEW key \in Keys, Press(key) \/ Release(key) PROVE TextInv'
    <2>1. Interrupt(key, TRUE) \/ Interrupt(key, FALSE)
        BY <1>9, Zenon DEF Press, Release
    <2> QED BY <1>6, <2>1
<1> QED BY <1>7, <1>8, <1>9 DEF Next

\* The text that is seen: none before the terminal is shown, then the one on
\* the back buffer.
Seen == Text!Text = IF Shown THEN Abs(term) ELSE Text!Off

LEMMA TextSeen ==
  ASSUME Readable
  PROVE  ScreenInv(Pixels, {}) /\ TextInv => Seen
<1> SUFFICES ASSUME ScreenInv(Pixels, {}), TextInv PROVE Seen
    OBVIOUS
<1>1. GridSeen = GridOf(term.ctx.screen)
    BY DEF GridSeen, GridOf, InkOf, LineSet, ColumnSet
<1>2. CASE Shown
    <2>1. GridOf(term.ctx.screen) = GridOf(term.ctx.buffer)
        BY <1>2, SeenText DEF ScreenInv, TextInv
    <2> QED BY <1>1, <1>2, <2>1 DEF Seen, Text!Text, Abs
<1>3. CASE ~Shown
    <2>1. GridOf(term.ctx.screen) = [l \in LineSet |-> [c \in ColumnSet |-> Blank]]
        <3> DEFINE b == term.ctx.screen
        <3>1. \A p \in Pixels : b[p] # "ink"
            BY <1>3 DEF TextInv
        <3> HIDE DEF b
        <3>2. GridOf(b) = [l \in LineSet |-> [c \in ColumnSet |-> Blank]]
            BY <3>1, GridEmpty DEF Readable
        <3> QED BY <3>2 DEF b
    <2> QED BY <1>1, <1>3, <2>1 DEF Seen, Text!Text, Text!Off, Text!Empty, LineSet, ColumnSet
<1> QED BY <1>2, <1>3

\* The parts of the text that is seen.
LEMMA SameText ==
  ASSUME Shown' = Shown, Text!Text' = Text!Text
  PROVE  UNCHANGED Text!tvars
<1> DEFINE r == IF Shown THEN term.y \div Font.height ELSE 0
           c == IF Shown THEN term.x \div Font.width ELSE 0
<1>1. Text!Text = [grid |-> GridSeen, row |-> r, col |-> c]
    BY DEF Text!Text
<1>2. Text!Text' = [grid |-> GridSeen', row |-> r', col |-> c']
    BY DEF Text!Text
<1> HIDE DEF r, c
<1>3. GridSeen' = GridSeen /\ r' = r /\ c' = c
    BY <1>1, <1>2
<1> QED BY <1>3 DEF Text!tvars, r, c

\* Each step of the console is a step of the text: PowerOn when _start has
\* drawn the prompt, Key or nothing when the handler of IRQ 1 has run.
LEMMA StepText ==
  ASSUME Readable
  PROVE  WindowInv /\ ScreenInv(Pixels, {}) /\ TextInv /\ Seen /\ Seen' /\ [Next]_vars => [Text!TNext]_(Text!tvars)
<1> SUFFICES ASSUME WindowInv, ScreenInv(Pixels, {}), TextInv, Seen, Seen', [Next]_vars
             PROVE  [Text!TNext]_(Text!tvars)
    OBVIOUS
<1>1. CASE UNCHANGED <<term, pc>>
    <2>1. Shown' = Shown /\ Text!Text' = Text!Text
        BY <1>1, Zenon DEF Shown, Text!Text, GridSeen
    <2> QED BY <2>1, SameText
<1>2. CASE Boot /\ pc \in {"clear", "terminal"}
    <2>1. ~Shown /\ ~Shown'
        BY <1>2 DEF Boot, Shown
    <2>2. Shown' = Shown /\ Text!Text' = Text!Text
        BY <2>1 DEF Seen, Shown
    <2> QED BY <2>2, SameText
<1>3. CASE Boot /\ pc = "write"
    <2>1. ~Shown /\ Shown' /\ term' = [term EXCEPT !.ctx = WriteBack(term.ctx)]
        BY <1>3 DEF Boot, Shown
    <2>2. term \in Neat /\ Abs(term) = Text!PutAll(Text!Off, Prompt)
        BY <1>3 DEF TextInv
    <2>3. Abs(term') = Text!PutAll(Text!Off, Prompt)
        BY <2>1, <2>2, WriteBackText
    <2>4. Text!Text' = Text!PutAll(Text!Off, Prompt)
        BY <2>1, <2>3 DEF Seen, Abs
    <2> QED BY <2>1, <2>4 DEF Text!TNext, Text!PowerOn
<1>4. CASE Boot /\ pc \in {"unmask", "consume"}
    <2>1. Shown /\ Shown' /\ term' = term
        BY <1>4 DEF Boot, Shown
    <2>2. Shown' = Shown /\ Text!Text' = Text!Text
        BY <2>1 DEF Seen, Shown, Abs
    <2> QED BY <2>2, SameText
<1>5. ASSUME NEW key \in Keys, NEW pressed, Interrupt(key, pressed) PROVE [Text!TNext]_(Text!tvars)
    <2>1. pc' = pc
        BY <1>5, InterruptTerm
    <2>2. CASE UNCHANGED term
        BY <1>1, <2>1, <2>2
    <2>3. CASE consumer /\ \E i, shift, k : term' = HandleKeyStroke(term, i, CharFromScancode(shift, k))
        <3>1. PICK i, shift, k : term' = HandleKeyStroke(term, i, CharFromScancode(shift, k))
            BY <2>3
        <3>2. Shown /\ Shown' /\ Shown' = Shown
            BY <2>1, <2>3 DEF WindowInv, Shown
        <3>3. Abs(term') \in Text!AfterKey(Abs(term)) \cup {Abs(term)}
            BY <3>1, <3>2, HandleKeyText DEF TextInv
        <3>4. Text!Text = Abs(term) /\ Text!Text' = Abs(term')
            BY <3>2 DEF Seen, Abs
        <3>5. CASE Text!Text' = Text!Text
            BY <3>2, <3>5, SameText
        <3>6. CASE Text!Text' \in Text!AfterKey(Text!Text)
            BY <3>2, <3>6 DEF Text!TNext, Text!Key
        <3> QED BY <3>3, <3>4, <3>5, <3>6
    <2> QED BY <1>5, <2>2, <2>3, InterruptTerm
<1>6. CASE UNCHANGED vars
    BY <1>1, <1>6 DEF vars
<1>7. CASE Boot
    BY <1>2, <1>3, <1>4, <1>7 DEF Boot
<1>8. ASSUME NEW key \in Keys, Press(key) \/ Release(key) PROVE [Text!TNext]_(Text!tvars)
    <2>1. Interrupt(key, TRUE) \/ Interrupt(key, FALSE)
        BY <1>8, Zenon DEF Press, Release
    <2> QED BY <1>5, <2>1
<1> QED BY <1>6, <1>7, <1>8 DEF Next

\* The console implements the text terminal: what is on the screen is, after
\* any sequence of keys, the text that the keys typed, wrapped, scrolled and
\* erased, on every screen and with every font that make a text readable.
THEOREM TextRefinement ==
  ASSUME Readable
  PROVE  Spec => ImplementsText
<1>1. Fits /\ Allowed(Pixels, {})
    BY AllowedAnywhere DEF Readable
<1>2. Init => ScreenInv(Pixels, {})
    BY <1>1, InitScreen
<1>3. WindowInv /\ ScreenInv(Pixels, {}) /\ [Next]_vars => ScreenInv(Pixels, {})'
    BY <1>1, NextScreen
<1>4. ScreenInv(Pixels, {}) /\ Init => TextInv
    BY InitText
<1>5. WindowInv /\ ScreenInv(Pixels, {}) /\ TextInv /\ [Next]_vars => TextInv'
    BY NextText
<1>6. ScreenInv(Pixels, {}) /\ TextInv => Seen
    BY TextSeen
<1>7. Init /\ Seen => Text!TInit
    <2> SUFFICES ASSUME Init, Seen PROVE Text!TInit
        OBVIOUS
    <2>1. ~Shown
        BY DEF Init, Shown
    <2>2. Text!Text = Text!Off
        BY <2>1 DEF Seen
    <2>3. GridSeen = Text!Empty
        BY <2>2 DEF Text!Text, Text!Off
    <2> QED BY <2>1, <2>3 DEF Text!TInit
<1>8. WindowInv /\ ScreenInv(Pixels, {}) /\ TextInv /\ Seen /\ Seen' /\ [Next]_vars => [Text!TNext]_(Text!tvars)
    BY StepText
<1> QED BY <1>2, <1>3, <1>4, <1>5, <1>6, <1>7, <1>8, InitWindow, NextWindow, PTL
        DEF Spec, ImplementsText, Text!TSpec
=============================================================================
