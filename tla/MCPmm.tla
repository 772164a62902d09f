------------------------------- MODULE MCPmm --------------------------------
(***************************************************************************)
(* Memory maps of ten frames or less for PhysicalMemoryManager.  A frame   *)
(* has two bytes and a byte two bits, so that one frame of bitmap covers   *)
(* four frames: num_entries = 10 needs 5 bytes, rounded up to 6 (3         *)
(* frames, 12 bits).                                                       *)
(***************************************************************************)
EXTENDS PhysicalMemoryManager

Entry(b, l, t) == [base |-> b, length |-> l, type |-> t]

RESERVED == 2

\* The bitmap takes the first entry; two entries of free frames follow.
TwoRegions ==
    <<Entry(1, 3, USABLE_PAGE), Entry(4, 2, RESERVED), Entry(6, 1, USABLE_PAGE),
      Entry(7, 1, RESERVED), Entry(8, 3, USABLE_PAGE)>>

\* The first usable entry is too small for the bitmap and starts in frame 1,
\* so that it leaves the cursor at zero and the next entry sets it.
BitmapInTheMiddle ==
    <<Entry(0, 1, RESERVED), Entry(1, 1, USABLE_PAGE), Entry(3, 4, USABLE_PAGE),
      Entry(8, 3, USABLE_PAGE)>>

\* No entry can hold the bitmap.
TooScattered ==
    <<Entry(1, 1, USABLE_PAGE), Entry(3, 2, USABLE_PAGE),
      Entry(9, 2, USABLE_PAGE)>>

\* num_entries = 6, two frames of bitmap.
Small ==
    <<Entry(1, 2, USABLE_PAGE), Entry(3, 1, RESERVED), Entry(4, 3, USABLE_PAGE)>>

\* num_entries = 9: 9 \div 2 = 4 bytes are 8 bits, frames 8 and 9 have none.
BitmapTooShort ==
    <<Entry(1, 2, USABLE_PAGE), Entry(3, 2, RESERVED), Entry(5, 2, USABLE_PAGE),
      Entry(7, 2, RESERVED), Entry(9, 1, USABLE_PAGE)>>

\* An entry larger than the bitmap put into it.
RoomyBitmapEntry ==
    <<Entry(1, 4, USABLE_PAGE), Entry(5, 2, USABLE_PAGE)>>

CoveredMaps == {TwoRegions, BitmapInTheMiddle, TooScattered, Small}
SmallMaps == {TwoRegions, Small}
ShortMaps == {BitmapTooShort}
RoomyMaps == {RoomyBitmapEntry}

\* All the maps of the passing runs are covered by their bitmaps.
ASSUME \A m \in CoveredMaps \cup SmallMaps : Covered(m)
=============================================================================
