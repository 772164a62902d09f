------------------------------ MODULE Console -------------------------------
(***************************************************************************)
(* The console: the end of _start (kernel.c), the keyboard interrupt       *)
(* (interrupts/idt.c, keycodes.c) and the terminal that consumes the keys. *)
(*                                                                         *)
(* The boot processor takes one step per statement; the keyboard interrupt *)
(* comes between any two of them.  Isr1Handler runs with interrupts off    *)
(* and is one step.  The scancode in KEY_INFO is overwritten when the      *)
(* handler starts, so it is a parameter here.                              *)
(***************************************************************************)
EXTENDS Terminal, FiniteSets

CONSTANTS
    Letter,     \* the key that has a character; its code is also the one called CTRL
    Lower, Upper, \* its characters
    MaxHeld,    \* keys held down at a time
    Blank

VARIABLES
    term,       \* graphics context and cursor
    info,       \* KEY_INFO without the scancode
    consumer,   \* KEYSTROKE_CONSUMER has been set
    masked,     \* the redirection entry of IRQ 1 is masked
    pc,         \* the next statement of _start
    crashed,    \* the consumer was called through a null pointer
    held        \* the keys that are down

vars == <<term, info, consumer, masked, pc, crashed, held>>

\* The letter is a key of its own, and the font has its characters.
ASSUME ConsoleConstants ==
    /\ Letter \notin {"lshift", "rshift", "enter", "backspace", "none"}
    /\ {Lower, Upper} \subseteq DOMAIN Font.matrix

Keys == {Letter, "lshift", "rshift", "enter", "backspace"}
Flags == {"shift", "backspace", "ctrl", "enter"}

Init ==
    /\ term = [ctx |-> InitGraphicsCtx, x |-> 0, y |-> 0]
    /\ info = [f \in Flags |-> FALSE]
    /\ consumer = FALSE
    /\ masked = TRUE
    /\ pc = "clear"
    /\ crashed = FALSE
    /\ held = {}

-----------------------------------------------------------------------------
(* The boot processor. *)

\* _start, from ClearScreen to the loop of hlt.  Interrupts are on all the
\* time (the "sti" behind it changes nothing).
Boot ==
    /\ ~crashed
    /\ UNCHANGED <<info, crashed, held>>
    /\ \/ pc = "clear" /\ pc' = "terminal"
          /\ term' = [term EXCEPT !.ctx = ClearScreen(@, "black")]
          /\ UNCHANGED <<masked, consumer>>
       \/ pc = "terminal" /\ pc' = "write" /\ term' = Render(term)
          /\ UNCHANGED <<masked, consumer>>
       \/ pc = "write" /\ pc' = "unmask"
          /\ term' = [term EXCEPT !.ctx = WriteBack(@)]
          /\ UNCHANGED <<masked, consumer>>
       \/ pc = "unmask" /\ pc' = "consume" /\ masked' = FALSE
          /\ UNCHANGED <<term, consumer>>
       \/ pc = "consume" /\ pc' = "halt" /\ consumer' = TRUE
          /\ UNCHANGED <<masked, term>>

-----------------------------------------------------------------------------
(* The keyboard. *)

\* The flag that a key sets and clears.
FlagOf(key) ==
    CASE key \in {"lshift", "rshift"} -> "shift"
      [] key = Letter -> "ctrl"
      [] OTHER -> key

\* The string HandleKeyStroke makes of CharFromScancode.
CharFromScancode(shift, key) ==
    IF key # Letter THEN <<>> ELSE IF shift THEN <<Upper>> ELSE <<Lower>>

\* Mutant: the release of a shift key is taken for that of any key.
Isr1HandlerSticky(key, pressed) ==
    LET set == IF pressed \/ FlagOf(key) # "shift"
               THEN [info EXCEPT ![FlagOf(key)] = pressed] ELSE info
        notify == pressed
    IN  /\ info' = set
        /\ IF notify
           THEN /\ crashed' = ~consumer
                /\ term' = IF consumer
                           THEN HandleKeyStroke(term, set,
                                    CharFromScancode(set["shift"], IF pressed THEN key ELSE "none"))
                           ELSE term
           ELSE UNCHANGED <<crashed, term>>
        /\ UNCHANGED <<consumer, masked, pc>>

\* A release clears the flag.  The code of a released shift key is replaced
\* by 0, which counts as a press of a key without a character.
Isr1Handler(key, pressed) ==
    LET set == [info EXCEPT ![FlagOf(key)] = pressed]
        notify == pressed \/ FlagOf(key) = "shift"
    IN  /\ info' = set
        /\ IF notify
           THEN /\ crashed' = ~consumer
                /\ term' = IF consumer
                           THEN HandleKeyStroke(term, set,
                                    CharFromScancode(set["shift"], IF pressed THEN key ELSE "none"))
                           ELSE term
           ELSE UNCHANGED <<crashed, term>>
        /\ UNCHANGED <<consumer, masked, pc>>

\* While IRQ 1 is masked a key goes unnoticed.
Interrupt(key, pressed) ==
    IF masked THEN UNCHANGED <<term, info, consumer, masked, pc, crashed>>
              ELSE Isr1Handler(key, pressed)

\* A key that is held repeats its press.
Press(key) ==
    /\ ~crashed
    /\ held' = held \cup {key}
    /\ Cardinality(held') <= MaxHeld
    /\ Interrupt(key, TRUE)

Release(key) ==
    /\ ~crashed
    /\ key \in held
    /\ held' = held \ {key}
    /\ Interrupt(key, FALSE)

Next == Boot \/ \E key \in Keys : Press(key) \/ Release(key)

Spec == Init /\ [][Next]_vars

-----------------------------------------------------------------------------
(* Properties. *)

TypeOK ==
    /\ term.ctx.buffer \in [Pixels -> Colours]
    /\ term.ctx.screen \in [Pixels -> Colours]
    /\ term.ctx.dirty \subseteq 0 .. NumRows - 1
    /\ {term.x, term.y} \subseteq Nat
    /\ info \in [Flags -> BOOLEAN]
    /\ {consumer, masked, crashed} \subseteq BOOLEAN
    /\ pc \in {"clear", "terminal", "write", "unmask", "consume", "halt"}
    /\ held \subseteq Keys

\* _start has shown the terminal.
Shown == pc \in {"unmask", "consume", "halt"}

\* From the first WriteBack on, the screen shows what was drawn: whatever the
\* last handler drew in any of the NumRows rows is also on the screen
\* (graphics_ctx.h: "The nth bit of this str provides bool value of whether
\* nth row is dirty").
DirtyRowsShown ==
    Shown =>
        \A p \in Pixels : Cell(p) < NumRows => term.ctx.screen[p] = term.ctx.buffer[p]

\* The character at the cursor lies inside the terminal, border included, so
\* that drawing or erasing it stays on the screen and in its row.
CursorInside ==
    /\ top_left.x + term.x + Font.width <= dims.width + 2 * Thickness
    /\ top_left.y + term.y + Font.height <= dims.height + Thickness

\* No modifier or control key stays on in KEY_INFO when no key that sets it
\* is held down any more.
NoStuckFlags ==
    \A f \in Flags : info[f] => \E key \in held : FlagOf(key) = f

\* keycodes.h: "The currently running process will be required to set a
\* function pointer as the keystroke consumer at all times".  When Isr1Handler
\* has a key for the consumer there is one.  Violated by a key that comes
\* between the statement of _start that unmasks IRQ 1 and the one behind it.
ConsumerAlwaysSet == ~crashed

\* Nothing below the terminal is touched: the lower half of the screen stays
\* cleared, up to the pixel rows behind the last cell, which no call ever
\* copies and which keep what the bootloader left.  Holds for DrawRect, which
\* marks more than it draws, and for Scroll, which moves a line from below
\* the body.
LowerHalfKept ==
    Shown =>
        \A p \in Pixels : p \div Width >= Height \div 2 =>
            term.ctx.screen[p] = IF Cell(p) < NumRows THEN "black" ELSE "boot"

\* Together: printing, scrolling and erasing stay inside the terminal.
StaysInside == TypeOK /\ CursorInside /\ LowerHalfKept

-----------------------------------------------------------------------------
(* The text that is on the screen. *)

\* The pixel of each dot of the character in line l and column c.
Dots == (0 .. Font.width - 1) \X (0 .. Font.height - 1)
DotPixel == [l \in 0 .. num_lines - 1 |-> [c \in 0 .. chars_per_line - 1 |->
                [d \in Dots |-> PixelIndex(top_left.x + c * Font.width + d[1],
                                           top_left.y + l * Font.height + d[2])]]]

\* The character of which exactly the dots are inked; "?" if there is none.
CharOf(dots) ==
    LET shown == {ch \in DOMAIN Font.matrix : Font.matrix[ch] = dots}
    IN  IF dots = {} THEN Blank
        ELSE IF shown = {} THEN "?" ELSE CHOOSE ch \in shown : TRUE

GridSeen ==
    [l \in 0 .. num_lines - 1 |-> [c \in 0 .. chars_per_line - 1 |->
        CharOf({d \in Dots : term.ctx.screen[DotPixel[l][c][d]] = "ink"})]]

Text == INSTANCE TextTerminal WITH
            Lines <- num_lines, Columns <- chars_per_line,
            LastColumn <- (dims.width - 6 * Thickness) \div Font.width + 1,
            Chars <- {Lower, Upper},
            on <- Shown,
            grid <- GridSeen,
            row <- IF Shown THEN term.y \div Font.height ELSE 0,
            col <- IF Shown THEN term.x \div Font.width ELSE 0

\* What is on the screen is a text: keys type, wrap, scroll and erase
\* characters of it, and do nothing else to it.
ImplementsText == Text!TSpec
=============================================================================
