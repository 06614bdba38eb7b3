\* Three tests, one after the other or overlapping.
CONSTANTS
    Test = {t1, t2, t3}
    NumDevices = 2
    MaxTime = 2
SYMMETRY Symmetry
SPECIFICATION Spec
INVARIANTS
    NumberOfOneTest
    OriginShowsLastTest
    NoRecordRefused
    NumbersWithoutGap
\* All tests over and the time used up.
CHECK_DEADLOCK FALSE
