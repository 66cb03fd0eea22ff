SPECIFICATION NetasciiSpec
CONSTANTS
    SegSize = 3
    MaxBytes = 6
INVARIANTS CutsDoNotShow RoundTrip
CHECK_DEADLOCK FALSE
