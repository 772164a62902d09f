----------------------------- MODULE MCConsole ------------------------------
(***************************************************************************)
(* Screens whose upper half holds lines of five characters, three of which *)
(* are printed to before a line is wrapped.  No glyph is part of another.  *)
(*                                                                         *)
(* In console.cfg there are 29 pixel rows in ten cells of two and two      *)
(* lines; the second line starts in cell 3 and ends in cell 5, the first   *)
(* one that SetNthBit has no bit for.  In console_tall.cfg there are 46    *)
(* rows in 16 cells of two and four lines, the lowest of which starts in   *)
(* cell 8, the one SetNthBit takes for cell 0, as at 1920 x 1080.          *)
(***************************************************************************)
EXTENDS Console

Glyphs == [c \in {"a", "A", ">"} |->
              CASE c = "a" -> {<<0, 0>>, <<1, 4>>}
                [] c = "A" -> {<<1, 0>>, <<0, 4>>}
                [] c = ">" -> {<<0, 1>>, <<1, 2>>, <<0, 3>>}]

SmallFont == [height |-> 5, width |-> 2, matrix |-> Glyphs]
OneChar == <<">">>
=============================================================================
