\* Two tests that overlap share one flag for their failures.
CONSTANTS
    Test = {t1, t2}
    Slot = {s1, s2}
    H8 = {s1}
    Core2 = {s1}
    Mlu = {s2}
    NumReaders = 1
    Serial = {0}
    MaxTests = 2
SPECIFICATION Spec
INVARIANT TableIsComplete
CHECK_DEADLOCK FALSE
