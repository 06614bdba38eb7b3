\* Overlapping connections; the process of each board may die once.
CONSTANTS
    Board = {b1, b2}
    Limit = 1
    PerConn = 1
    FlagLimit = 2
    MaxConns = 3
    MaxWaiting = 2
    Overlap = TRUE
    MaxDeaths = 1
SPECIFICATION Spec
SYMMETRY Symmetry
INVARIANTS
    PictureInOnePlace
    ResultOfItsPicture
\* When its boards are gone, the loader is blocked in the full list for good.
CHECK_DEADLOCK FALSE
