----------------------------- MODULE MCLibrary ------------------------------
(***************************************************************************)
(* Four bytes of memory, in which any two ranges overlap in every way;     *)
(* formats of up to six characters; frame buffers of 8:8:8, 5:6:5, 10 bits *)
(* of red, and 16 bits per pixel, which PackRgb does not support.          *)
(***************************************************************************)
EXTENDS Library

\* "%" is always followed by a character that is not "%".
SomeFormats ==
    {str \in UNION {[1 .. n -> {"a", "%", "d", "s"}] : n \in 0 .. 6} :
        \A k \in DOMAIN str :
            str[k] = "%" => k < Len(str) /\ str[k + 1] \in {"d", "s"}}

Powers == {1, 2, 4, 8}
SomeChannels == {0, 1, 127, 200, 255}

Mask(size, shift) == [size |-> size, shift |-> shift]
SomeFrameBuffers ==
    {[bpp |-> 32, red |-> Mask(8, 16), green |-> Mask(8, 8), blue |-> Mask(8, 0)],
     [bpp |-> 32, red |-> Mask(5, 11), green |-> Mask(6, 5), blue |-> Mask(5, 0)],
     [bpp |-> 32, red |-> Mask(10, 20), green |-> Mask(8, 8), blue |-> Mask(8, 0)],
     [bpp |-> 16, red |-> Mask(5, 11), green |-> Mask(6, 5), blue |-> Mask(5, 0)]}
=============================================================================
