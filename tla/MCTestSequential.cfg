\* Tests that do not overlap: what the page is told, and that it is told.
CONSTANTS
    Test = {t1, t2}
    Slot = {s1, s2}
    H8 = {s1}
    Core2 = {s1}
    Mlu = {s2}
    NumReaders = 2
    Serial = {0}
    MaxTests = 1
SPECIFICATION FairSpec
INVARIANTS
    TypeOK
    ClosedIsQuiet
    EveryReportCounted
PROPERTIES
    ImplementsPromise
    TestsAreAnswered
\* Both tests answered: the server waits for requests that do not come.
CHECK_DEADLOCK FALSE
