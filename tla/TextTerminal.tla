---------------------------- MODULE TextTerminal ----------------------------
(***************************************************************************)
(* What a terminal shows, without pixels: Lines x Columns characters and   *)
(* a cursor, which is the place of the character printed last.             *)
(***************************************************************************)
EXTENDS Integers, Sequences

CONSTANTS
    Lines, Columns,
    LastColumn,     \* text is wrapped behind this column
    Chars,
    Prompt,         \* a sequence of Chars
    Blank

VARIABLES
    on,             \* FALSE until the terminal is first shown
    grid, row, col

tvars == <<on, grid, row, col>>

Empty == [l \in 0 .. Lines - 1 |-> [c \in 0 .. Columns - 1 |-> Blank]]

\* The next line; when there is none the text moves up.
NextLine(t) ==
    IF t.row < Lines - 1
    THEN [t EXCEPT !.row = @ + 1, !.col = 0]
    ELSE [t EXCEPT !.grid = [l \in 0 .. Lines - 1 |->
                                IF l < Lines - 1 THEN @[l + 1] ELSE Empty[l]],
                   !.col = 0]

Put(t, c) ==
    LET u == IF t.col >= LastColumn THEN NextLine(t) ELSE [t EXCEPT !.col = @ + 1]
    IN  [u EXCEPT !.grid[u.row][u.col] = c]

PutAll(t, str) ==
    LET text[k \in 0 .. Len(str)] == IF k = 0 THEN t ELSE Put(text[k - 1], str[k])
    IN  text[Len(str)]

\* The first place is never erased.
Erased(t) ==
    IF t.row = 0 /\ t.col = 0
    THEN t
    ELSE LET u == [t EXCEPT !.grid[t.row][t.col] = Blank]
         IN  IF t.col = 0
             THEN [u EXCEPT !.row = @ - 1, !.col = Columns - 1]
             ELSE [u EXCEPT !.col = @ - 1]

TInit == on = FALSE /\ grid = Empty /\ row = 0 /\ col = 0

Text == [grid |-> grid, row |-> row, col |-> col]

Off == [grid |-> Empty, row |-> 0, col |-> 0]

PowerOn == ~on /\ on' /\ Text' = PutAll(Off, Prompt)

\* What one key makes of the text t: a character, a new line, or one
\* character less.
AfterKey(t) ==
    {Put(t, c) : c \in Chars} \cup {PutAll(NextLine(t), Prompt), Erased(t)}

Key == on /\ on' /\ Text' \in AfterKey(Text)

TNext == PowerOn \/ Key

TSpec == TInit /\ [][TNext]_tvars
=============================================================================
