SPECIFICATION Spec
CONSTANTS
    Width = 11
    Height = 29
    NumRows = 10
    IntBits = 5
    Font <- SmallFont
    Thickness = 1
    Prompt <- OneChar
    Letter = "letter"
    Lower = "a"
    Upper = "A"
    MaxHeld = 2
    Blank = " "
CHECK_DEADLOCK FALSE
INVARIANT ConsumerAlwaysSet
