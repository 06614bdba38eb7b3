\* Two agencies that read the same rear.
CONSTANTS
    Agency = {a1, a2}
    RingSize = 4
    MaxResults = 4
SPECIFICATION Spec
PROPERTY RearAdvancesByOne
CHECK_DEADLOCK FALSE
