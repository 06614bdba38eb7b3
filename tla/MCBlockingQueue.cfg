\* Every operation of the queue, two loaders, two agencies, and one thread
\* each that peeks, try_pops and clears.
CONSTANTS
    Image = {a, b}
    Limit = 2
    Pushers = {p1, p2}
    Poppers = {c1, c2}
    TryPoppers = {y1}
    Peekers = {k1}
    Clearers = {m1}
SPECIFICATION Spec
SYMMETRY Symmetry
INVARIANTS
    TypeOK
    OvershootIsHeldBack
    NoPopperSleepsOnPicture
PROPERTY ImplementsFifo
