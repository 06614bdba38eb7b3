\* Two agencies, the telemetry, restarts.
CONSTANTS
    Agency = {a1, a2}
    RingSize = 3
    MaxResults = 6
SPECIFICATION Spec
SYMMETRY Symmetry
INVARIANTS
    RingHoldsPendingUntilFull
PROPERTY ResultsRemovedInOrder
\* All results written and removed.
CHECK_DEADLOCK FALSE
