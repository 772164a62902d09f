------------------------------ MODULE Terminal ------------------------------
(***************************************************************************)
(* The terminal (graphics/terminal.c): a bordered area over the full width *)
(* and the upper half of the screen (kernel.c), with a cursor in pixels.   *)
(*                                                                         *)
(* A state is a record [ctx, x, y]: the graphics context and the cursor,   *)
(* which is the place of the character printed last.  Each function is an  *)
(* operator on such records.                                               *)
(***************************************************************************)
EXTENDS Screen

CONSTANTS
    Thickness,  \* of the border
    Prompt      \* a sequence of characters

ASSUME TerminalConstants ==
    Thickness \in Nat /\ Prompt \in Seq(DOMAIN Font.matrix)

\* InitTerminal: the geometry.  The columns and lines are those of the area
\* with its borders, dims is without them.
dims == [width |-> Width - 2 * Thickness, height |-> Height \div 2 - 2 * Thickness]
chars_per_line == Width \div Font.width
num_lines == (Height \div 2) \div Font.height
top_left == [x |-> Thickness, y |-> Thickness]

\* Every line moves up by one, and the last one is cleared.  Each move is
\* copied to the screen at once.
Scroll(s) ==
    LET moved[i \in 0 .. num_lines] ==
          IF i = 0 THEN s.ctx
          ELSE WriteBack(Transpose(moved[i - 1], top_left.x, top_left.y + i * Font.height,
                                   dims.width, Font.height, -Font.height, 0))
    IN  [s EXCEPT !.ctx =
            WriteBack(DrawRect(moved[num_lines], top_left.x,
                               top_left.y + Font.height * (num_lines - 1),
                               dims.width, Font.height, "background"))]

\* Mutant: room for one line is enough to go down by one.
TermNewLineLate(s) ==
    LET t == [s EXCEPT !.x = 0]
    IN  IF s.y + Font.height > dims.height
        THEN Scroll(t)
        ELSE [t EXCEPT !.y = @ + Font.height]

TermNewLine(s) ==
    LET t == [s EXCEPT !.x = 0]
    IN  IF s.y + Font.height * 2 > dims.height
        THEN Scroll(t)
        ELSE [t EXCEPT !.y = @ + Font.height]

\* One character of TermPrint: the cursor moves first.
Advance(s, c) ==
    IF c = "\n" \/ s.x > dims.width - Thickness * 6
    THEN TermNewLine(s)
    ELSE [s EXCEPT !.x = @ + Font.width]

PrintChar(s, c) ==
    LET t == Advance(s, c)
    IN  [t EXCEPT !.ctx = DrawChar(@, top_left.x + t.x, top_left.y + t.y, c)]

TermPrint(s, str) ==
    LET printed[k \in 0 .. Len(str)] ==
          IF k = 0 THEN s ELSE PrintChar(printed[k - 1], str[k])
    IN  printed[Len(str)]

RenderBorders(ctx) ==
    DrawRect(ctx, top_left.x - Thickness, top_left.y - Thickness,
             dims.width + Thickness * 2, dims.height + Thickness * 2, "border")

\* InitTerminal ends with Render.
Render(s) ==
    TermPrint([s EXCEPT !.ctx = DrawRect(RenderBorders(@), top_left.x, top_left.y,
                                         dims.width, dims.height, "background")],
              Prompt)

\* Mutant: the cursor goes back before the character is cleared.
RemoveCharBefore(s) ==
    IF s.x = 0 /\ s.y = 0
    THEN s
    ELSE LET t == IF s.x = 0
                  THEN [s EXCEPT !.x = (chars_per_line - 1) * Font.width,
                                 !.y = @ - Font.height]
                  ELSE [s EXCEPT !.x = @ - Font.width]
         IN  [t EXCEPT !.ctx = DrawRect(@, top_left.x + t.x, top_left.y + t.y,
                                        Font.width, Font.height, "background")]

\* Backspace: the character at the cursor is painted over, and the cursor
\* goes back, from the start of a line to the last column of the line above.
RemoveChar(s) ==
    IF s.x = 0 /\ s.y = 0
    THEN s
    ELSE LET t == [s EXCEPT !.ctx = DrawRect(@, top_left.x + s.x, top_left.y + s.y,
                                             Font.width, Font.height, "background")]
         IN  IF s.x = 0
             THEN [t EXCEPT !.x = (chars_per_line - 1) * Font.width,
                            !.y = @ - Font.height]
             ELSE [t EXCEPT !.x = @ - Font.width]

\* The consumer of keystrokes; c is the string of the key, empty for keys
\* that have no character.
HandleKeyStroke(s, info, c) ==
    LET t == IF info.backspace THEN RemoveChar(s)
             ELSE IF info.enter THEN TermPrint(TermNewLine(s), Prompt)
             ELSE TermPrint(s, c)
    IN  [t EXCEPT !.ctx = WriteBack(@)]
=============================================================================
