\* The queue as this program uses it: one loader that pushes, agencies that
\* pop again while there are pictures, and a mode switch that clears. The
\* peeker is there for the second kind of waiting reader.
CONSTANTS
    Image = {a, b}
    Limit = 2
    Pushers = {p1}
    Poppers = {c1, c2}
    TryPoppers = {}
    Peekers = {k1}
    Clearers = {m1}
SPECIFICATION FairSpec
INVARIANT SleepingPusherHasPicture
PROPERTIES
    PopperGoesOn
    ImplementsFairFifo
