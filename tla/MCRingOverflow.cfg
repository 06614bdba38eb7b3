\* One agency and a slow telemetry: the full ring is not refused.
CONSTANTS
    Agency = {a1}
    RingSize = 3
    MaxResults = 4
SPECIFICATION Spec
INVARIANT RingHoldsPending
CHECK_DEADLOCK FALSE
