SPECIFICATION Spec
CONSTANTS
    LEVELS = 3
    ENTRIES = 2
    Tables = {t1, t2, t3, t4, t5}
    PAddrs = {p1}
    NULL = NULL
    CallPages = {0, 1, 6}
    Roots = 2
SYMMETRY Interchangeable
INVARIANTS
    TreeInv
PROPERTIES
    ImplementsPageMap
