SPECIFICATION Spec
CONSTANTS
    Width = 11
    Height = 46
    NumRows = 16
    IntBits = 8
    Font <- SmallFont
    Thickness = 1
    Prompt <- OneChar
    Letter = "letter"
    Lower = "a"
    Upper = "A"
    MaxHeld = 2
    Blank = " "
CHECK_DEADLOCK FALSE
INVARIANT DirtyRowsShown
